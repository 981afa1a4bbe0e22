------------------------------ MODULE JobQueue ------------------------------
(***************************************************************************)
(* The doubly linked job queue, in two versions: lib "user" is             *)
(* src/apue/11.6.4job_queue.c, "book" is apue.3e/threads/rwlock.c.  Each   *)
(* operation runs entirely under q_lock, so each is one step.  queued is   *)
(* the callers' view: the jobs put in and not yet removed.  A caller puts  *)
(* in a job that is not queued and removes one that is.                    *)
(***************************************************************************)
EXTENDS Naturals, FiniteSets

CONSTANTS Job, Thread, NULL   \* job structures; the thread ids of j_id

VARIABLES q_head, q_tail, j_next, j_prev, j_id,
          queued,
          crashed,   \* a null pointer has been followed
          lib
vars == <<q_head, q_tail, j_next, j_prev, j_id, queued, crashed, lib>>

Init ==  \* queue_init
  /\ q_head = NULL /\ q_tail = NULL
  /\ j_next = [j \in Job |-> NULL] /\ j_prev = [j \in Job |-> NULL]
  /\ j_id \in [Job -> Thread]
  /\ queued = {}
  /\ crashed = FALSE /\ lib \in {"user", "book"}

job_insert(jp) ==
  /\ ~crashed /\ jp \notin queued
  /\ j_next' = [j_next EXCEPT ![jp] = q_head]
  /\ j_prev' = [j \in Job |-> IF j = jp THEN NULL
                              ELSE IF j = q_head THEN jp ELSE j_prev[j]]
  /\ q_tail' = IF q_head # NULL THEN q_tail ELSE jp
  /\ q_head' = jp
  /\ queued' = queued \cup {jp}
  /\ UNCHANGED <<j_id, crashed, lib>>

job_append(jp) ==
  /\ ~crashed /\ jp \notin queued
  /\ j_next' = [j \in Job |-> IF j = jp THEN NULL
                              ELSE IF j = q_tail THEN jp ELSE j_next[j]]
  /\ j_prev' = [j_prev EXCEPT ![jp] = q_tail]
  /\ q_head' = IF q_tail # NULL THEN q_head ELSE jp
  /\ q_tail' = jp
  /\ queued' = queued \cup {jp}
  /\ UNCHANGED <<j_id, crashed, lib>>

\* "if (qp->q_tail = jp)" assigns: removing the head always empties q_tail.
RemoveHeadUser(jp) ==
  /\ q_head' = j_next[jp]
  /\ q_tail' = NULL
  /\ UNCHANGED <<j_next, j_prev, crashed>>

\* The book compares: the tail goes with the last job, else the next job
\* becomes the first.
RemoveHeadBook(jp) ==
  /\ q_head' = j_next[jp]
  /\ q_tail' = IF q_tail = jp THEN NULL ELSE q_tail
  /\ j_prev' = IF q_tail = jp THEN j_prev ELSE [j_prev EXCEPT ![j_next[jp]] = j_prev[jp]]
  /\ UNCHANGED <<j_next, crashed>>

\* jp->j_prev->j_next = jp->j_next, then the same backwards unless jp is the tail.
RemoveInner(jp) ==
  /\ crashed' = (j_prev[jp] = NULL \/ (jp # q_tail /\ j_next[jp] = NULL))
  /\ j_next' = [j \in Job |-> IF j = j_prev[jp] THEN j_next[jp] ELSE j_next[j]]
  /\ j_prev' = [j \in Job |-> IF jp # q_tail /\ j = j_next'[jp]
                                THEN j_prev[jp] ELSE j_prev[j]]
  /\ q_tail' = IF jp = q_tail THEN j_prev[jp] ELSE q_tail
  /\ UNCHANGED q_head

job_remove(jp) ==
  /\ ~crashed /\ jp \in queued
  /\ \/ jp = q_head /\ lib = "user" /\ RemoveHeadUser(jp)
     \/ jp = q_head /\ lib = "book" /\ RemoveHeadBook(jp)
     \/ jp # q_head /\ RemoveInner(jp)
  /\ queued' = queued \ {jp}
  /\ UNCHANGED <<j_id, lib>>

Next == \E jp \in Job : job_insert(jp) \/ job_append(jp) \/ job_remove(jp)
Spec == Init /\ [][Next]_vars

-----------------------------------------------------------------------------
\* The pointers job_find follows from the head, at most one per job and NULL.
Chain == LET w[n \in 0 .. Cardinality(Job)] ==
               IF n = 0 THEN q_head
               ELSE IF w[n - 1] = NULL THEN NULL ELSE j_next[w[n - 1]]
         IN  w

\* The job job_find(id) returns: the first on the chain with that id.
job_find(id) ==
  LET hit == {n \in DOMAIN Chain : Chain[n] # NULL /\ j_id[Chain[n]] = id}
  IN  IF hit = {} THEN NULL
      ELSE Chain[CHOOSE n \in hit : \A k \in hit : n <= k]

\* A job that was put in and not removed is found by its thread's id.
FindsQueued == ~crashed => \A j \in queued : job_find(j_id[j]) # NULL

\* The same of the book's version, whose list is sound in both directions after
\* any sequence of insertions, appendings and removals.
BookFinds ==
  lib = "book" =>
    /\ ~ crashed /\ FindsQueued
    /\ {Chain[n] : n \in DOMAIN Chain} \ {NULL} = queued
    /\ \A j \in queued : /\ j = q_tail <=> j_next[j] = NULL
                         /\ \A k \in queued : j_next[j] = k <=> j_prev[k] = j
=============================================================================
