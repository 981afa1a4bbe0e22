------------------------------ MODULE FooTable ------------------------------
(***************************************************************************)
(* The reference-counted objects of src/apue/11.6.2avoid_deadlock1.c: a    *)
(* hash table of struct foo, one mutex for the table and one per object.   *)
(*                                                                         *)
(* One step per mutex operation, with what the thread does before its next *)
(* one; the list walks take a step per element.  refs is the caller's side *)
(* of the contract: the references a thread was given and has not passed   *)
(* to foo_rele.  It calls foo_hold and foo_rele only on an object it has a *)
(* reference to.  A foo_alloc that fails changes nothing and is left out.  *)
(***************************************************************************)
EXTENDS Integers, FiniteSets, FiniteSetsExt

CONSTANTS Thread, Foo, Id,   \* threads, addresses malloc can return, f_id
          NHASH, HASH,       \* the number of buckets, and the hash of an id
          NULL,
          MaxRefs            \* bound: references a thread keeps to one object

VARIABLES fh, f_next, f_id, f_count,  \* the buckets; the fields of a struct
          heap,                       \* "none" (not allocated), "live", "destroyed"
          hashlock, f_lock,           \* the mutexes: their owner or NULL
          pc, fp, id, tfp,            \* per thread: label and locals
          refs
table == <<fh, f_next, f_id, f_count, heap>>
local == <<fp, id, tfp, refs>>
vars  == <<fh, f_next, f_id, f_count, heap, hashlock, f_lock, pc, fp, id, tfp, refs>>

Bucket == 0 .. NHASH - 1
RelePC == {"rl_lock", "rl_un", "rl_hash", "rl_flock", "rl_walk", "rl_unhash",
           "rl_funlock", "rl_destroy", "rl_abort", "rl_abhash", "rl_done"}

Init ==
  /\ fh = [b \in Bucket |-> NULL]
  /\ f_next = [f \in Foo |-> NULL] /\ f_id = [f \in Foo |-> NULL]
  /\ f_count = [f \in Foo |-> 0]
  /\ heap = [f \in Foo |-> "none"]
  /\ hashlock = NULL /\ f_lock = [f \in Foo |-> NULL]
  /\ pc = [t \in Thread |-> "idle"]
  /\ fp = [t \in Thread |-> NULL]
  /\ id = [t \in Thread |-> NULL]
  /\ tfp = [t \in Thread |-> NULL]
  /\ refs = [t \in Thread |-> [f \in Foo |-> 0]]

-----------------------------------------------------------------------------
Flow(t, from, to) == pc[t] = from /\ pc' = [pc EXCEPT ![t] = to]

LockHash(t)   == hashlock = NULL /\ hashlock' = t /\ UNCHANGED f_lock
UnlockHash(t) == hashlock' = NULL /\ UNCHANGED f_lock
LockFoo(t)    == /\ f_lock[fp[t]] = NULL
                 /\ f_lock' = [f_lock EXCEPT ![fp[t]] = t]
                 /\ UNCHANGED hashlock
UnlockFoo(t)  == f_lock' = [f_lock EXCEPT ![fp[t]] = NULL] /\ UNCHANGED hashlock

Count(f, n) == f_count' = [f_count EXCEPT ![f] = @ + n]

\* The call returns and gives its caller n references to fp.
Return(t, from, n) ==
  /\ Flow(t, from, "idle")
  /\ refs' = IF fp[t] = NULL THEN refs ELSE [refs EXCEPT ![t][fp[t]] = @ + n]
  /\ fp' = [fp EXCEPT ![t] = NULL]
  /\ id' = [id EXCEPT ![t] = NULL]
  /\ tfp' = [tfp EXCEPT ![t] = NULL]

\* A mutex operation with nothing else to do.
Sync(t) ==
  /\ \/ Flow(t, "al_flock",   "al_unhash")  /\ LockFoo(t)
     \/ Flow(t, "al_unhash",  "al_funlock") /\ UnlockHash(t)
     \/ Flow(t, "fd_hun",     "fd_unlock")  /\ UnlockFoo(t)
     \/ Flow(t, "rl_hash",    "rl_flock")   /\ LockHash(t)
     \/ Flow(t, "rl_abort",   "rl_abhash")  /\ UnlockFoo(t)
     \/ Flow(t, "rl_unhash",  "rl_funlock") /\ UnlockHash(t)
     \/ Flow(t, "rl_funlock", "rl_destroy") /\ UnlockFoo(t)
  /\ UNCHANGED <<table, local>>

\* The last unlock of a call.
Leave(t) ==
  /\ \/ Return(t, "al_funlock", 1) /\ UnlockFoo(t)
     \/ Return(t, "hold_un", 1)    /\ UnlockFoo(t)
     \/ Return(t, "fd_unlock", 1)  /\ UnlockHash(t)
     \/ Return(t, "rl_done", 0)    /\ UnlockFoo(t)
     \/ Return(t, "rl_abhash", 0)  /\ UnlockHash(t)
  /\ UNCHANGED table

-----------------------------------------------------------------------------
foo_alloc(t, f, i) ==
  /\ Flow(t, "idle", "al_lock")
  /\ heap[f] = "none"
  /\ heap' = [heap EXCEPT ![f] = "live"]
  /\ f_count' = [f_count EXCEPT ![f] = 1]
  /\ f_id' = [f_id EXCEPT ![f] = i]
  /\ fp' = [fp EXCEPT ![t] = f]
  /\ UNCHANGED <<fh, f_next, hashlock, f_lock, id, tfp, refs>>

\* The mutant that sets the bucket before it reads it for f_next.
AllocLinkSwapped(t) ==
  /\ Flow(t, "al_lock", "al_flock")
  /\ LockHash(t)
  /\ f_next' = [f_next EXCEPT ![fp[t]] = fp[t]]
  /\ fh' = [fh EXCEPT ![HASH[f_id[fp[t]]]] = fp[t]]
  /\ UNCHANGED <<f_id, f_count, heap, local>>

AllocLink(t) ==
  /\ Flow(t, "al_lock", "al_flock")
  /\ LockHash(t)
  /\ LET idx == HASH[f_id[fp[t]]] IN
       /\ f_next' = [f_next EXCEPT ![fp[t]] = fh[idx]]
       /\ fh' = [fh EXCEPT ![idx] = fp[t]]
  /\ UNCHANGED <<f_id, f_count, heap, local>>

foo_hold(t, f) ==
  /\ Flow(t, "idle", "hold")
  /\ refs[t][f] \in 1 .. MaxRefs - 1
  /\ fp' = [fp EXCEPT ![t] = f]
  /\ UNCHANGED <<table, hashlock, f_lock, id, tfp, refs>>

\* The mutant in which foo_find counts nothing.
HoldOnlyDirect(t) ==
  /\ \/ Flow(t, "hold", "hold_un") /\ Count(fp[t], 1)
     \/ Flow(t, "fd_hold", "fd_hun") /\ UNCHANGED f_count
  /\ LockFoo(t)
  /\ UNCHANGED <<fh, f_next, f_id, heap, local>>

\* The body of foo_hold, which foo_find calls with the table locked.
HoldCount(t) ==
  /\ Flow(t, "hold", "hold_un") \/ Flow(t, "fd_hold", "fd_hun")
  /\ LockFoo(t)
  /\ Count(fp[t], 1)
  /\ UNCHANGED <<fh, f_next, f_id, heap, local>>

foo_find(t, i) ==
  /\ Flow(t, "idle", "fd_lock")
  /\ \A f \in Foo : refs[t][f] < MaxRefs
  /\ id' = [id EXCEPT ![t] = i]
  /\ UNCHANGED <<table, hashlock, f_lock, fp, tfp, refs>>

FindLock(t) ==
  /\ Flow(t, "fd_lock", "fd_walk")
  /\ LockHash(t)
  /\ fp' = [fp EXCEPT ![t] = fh[HASH[id[t]]]]
  /\ UNCHANGED <<table, id, tfp, refs>>

FindWalk(t) ==
  /\ pc[t] = "fd_walk"
  /\ \/ fp[t] = NULL /\ Flow(t, "fd_walk", "fd_unlock") /\ UNCHANGED fp
     \/ /\ fp[t] # NULL /\ f_id[fp[t]] = id[t]
        /\ Flow(t, "fd_walk", "fd_hold") /\ UNCHANGED fp
     \/ /\ fp[t] # NULL /\ f_id[fp[t]] # id[t]
        /\ Flow(t, "fd_walk", "fd_walk")
        /\ fp' = [fp EXCEPT ![t] = f_next[fp[t]]]
  /\ UNCHANGED <<table, hashlock, f_lock, id, tfp, refs>>

-----------------------------------------------------------------------------
\* The caller gives its reference away.
foo_rele(t, f) ==
  /\ Flow(t, "idle", "rl_lock")
  /\ refs[t][f] > 0
  /\ refs' = [refs EXCEPT ![t][f] = @ - 1]
  /\ fp' = [fp EXCEPT ![t] = f]
  /\ UNCHANGED <<table, hashlock, f_lock, id, tfp>>

ReleLock(t) ==
  /\ pc[t] = "rl_lock"
  /\ LockFoo(t)
  /\ \/ f_count[fp[t]] = 1 /\ Flow(t, "rl_lock", "rl_un") /\ UNCHANGED f_count
     \/ f_count[fp[t]] # 1 /\ Flow(t, "rl_lock", "rl_done") /\ Count(fp[t], -1)
  /\ UNCHANGED <<fh, f_next, f_id, heap, local>>

\* The last reference: both locks are needed, the table's first, so the
\* object's is given up and taken again.
ReleUn(t) ==
  /\ Flow(t, "rl_un", "rl_hash")
  /\ UnlockFoo(t)
  /\ UNCHANGED <<table, local>>

\* The mutant that trusts the first test.
RecheckForgotten(f) == TRUE

\* Someone may have found the object in between: the second test.
StillLast(f) == f_count[f] = 1

ReleRecheck(t) ==
  /\ pc[t] = "rl_flock"
  /\ LockFoo(t)
  /\ \/ /\ ~StillLast(fp[t])
        /\ Flow(t, "rl_flock", "rl_abort")
        /\ Count(fp[t], -1)
        /\ UNCHANGED tfp
     \/ /\ StillLast(fp[t])
        /\ Flow(t, "rl_flock", "rl_walk")
        /\ tfp' = [tfp EXCEPT ![t] = fh[HASH[f_id[fp[t]]]]]
        /\ UNCHANGED f_count
  /\ UNCHANGED <<fh, f_next, f_id, heap, fp, id, refs>>

\* The mutant that unlinks as if fp were always the head.
ReleWalkHead(t) ==
  /\ Flow(t, "rl_walk", "rl_unhash")
  /\ fh' = [fh EXCEPT ![HASH[f_id[fp[t]]]] = f_next[fp[t]]]
  /\ UNCHANGED <<f_next, f_id, f_count, heap, hashlock, f_lock, fp, id, tfp, refs>>

\* Unlink fp: it is the head, it follows tfp, or tfp moves on.
ReleWalk(t) ==
  /\ pc[t] = "rl_walk"
  /\ LET f == fp[t] IN
     \/ /\ tfp[t] = f
        /\ Flow(t, "rl_walk", "rl_unhash")
        /\ fh' = [fh EXCEPT ![HASH[f_id[f]]] = f_next[f]]
        /\ UNCHANGED <<f_next, tfp>>
     \/ /\ tfp[t] \notin {f, NULL} /\ f_next[tfp[t]] = f
        /\ Flow(t, "rl_walk", "rl_unhash")
        /\ f_next' = [f_next EXCEPT ![tfp[t]] = f_next[f]]
        /\ UNCHANGED <<fh, tfp>>
     \/ /\ tfp[t] \notin {f, NULL} /\ f_next[tfp[t]] # f
        /\ Flow(t, "rl_walk", "rl_walk")
        /\ tfp' = [tfp EXCEPT ![t] = f_next[tfp[t]]]
        /\ UNCHANGED <<fh, f_next>>
  /\ UNCHANGED <<f_id, f_count, heap, hashlock, f_lock, fp, id, refs>>

ReleDestroy(t) ==
  /\ pc[t] = "rl_destroy"
  /\ heap' = [heap EXCEPT ![fp[t]] = "destroyed"]
  /\ Return(t, "rl_destroy", 0)
  /\ UNCHANGED <<fh, f_next, f_id, f_count, hashlock, f_lock>>

-----------------------------------------------------------------------------
Call(t) == \/ \E f \in Foo, i \in Id : foo_alloc(t, f, i)
           \/ \E f \in Foo : foo_hold(t, f) \/ foo_rele(t, f)
           \/ \E i \in Id : foo_find(t, i)

Step(t) == \/ Sync(t) \/ Leave(t) \/ AllocLink(t) \/ HoldCount(t)
           \/ FindLock(t) \/ FindWalk(t) \/ ReleLock(t) \/ ReleUn(t)
           \/ ReleRecheck(t) \/ ReleWalk(t) \/ ReleDestroy(t)

Next == \E t \in Thread : Call(t) \/ Step(t)
Spec == Init /\ [][Next]_vars

\* A thread inside a call keeps running; nothing makes it call.
FairSpec == Spec /\ \A t \in Thread : WF_vars(Step(t))

-----------------------------------------------------------------------------
\* The references to f that thread t answers for: those its caller has, and
\* the one of a call that has counted it up or not yet counted it down.
InHand(t, f) ==
  /\ fp[t] = f
  /\ \/ pc[t] \in {"al_lock", "al_flock", "al_unhash", "al_funlock",
                  "hold_un", "fd_hun", "fd_unlock"}
     \/ pc[t] \in RelePC \ {"rl_abort", "rl_abhash", "rl_done"}
Owed(t, f) == refs[t][f] + IF InHand(t, f) THEN 1 ELSE 0

\* The first Cardinality(Foo) + 1 pointers from p along f_next.
Walk(p) == LET w[n \in 0 .. Cardinality(Foo)] ==
                 IF n = 0 THEN p
                 ELSE IF w[n - 1] = NULL THEN NULL ELSE f_next[w[n - 1]]
           IN  w
From(p) == {Walk(p)[n] : n \in DOMAIN Walk(p)} \ {NULL}
Ends(p) == Walk(p)[Cardinality(Foo)] = NULL

\* f_count is exactly the number of references outstanding, counting those
\* of calls under way, as long as the object lives.
CountExact ==
  \A f \in Foo : heap[f] = "live" =>
    f_count[f] = MapThenSumSet(LAMBDA t : Owed(t, f), Thread)

\* Nobody works on, or has a reference to, an object whose mutex has been
\* destroyed, although foo_rele gives its lock up between its two tests.
NoUseAfterDestroy ==
  \A f \in Foo : heap[f] = "destroyed" =>
    /\ f_lock[f] = NULL
    /\ \A t \in Thread : Owed(t, f) = 0 /\ fp[t] # f

\* While nobody has the table locked, every bucket ends and holds exactly
\* the live objects that hash to it, but for one that foo_alloc has not
\* linked or foo_rele has unlinked.
Unlinked(f) == \E t \in Thread : fp[t] = f /\ pc[t] \in {"al_lock", "rl_funlock", "rl_destroy"}
BucketsExact ==
  hashlock = NULL =>
    \A b \in Bucket :
      /\ Ends(fh[b])
      /\ From(fh[b]) = {f \in Foo : heap[f] = "live" /\ HASH[f_id[f]] = b /\ ~Unlinked(f)}

\* foo_rele finds the object it unlinks: its walk never runs off the list.
WalkHits == \A t \in Thread : pc[t] = "rl_walk" => fp[t] \in From(tfp[t])

\* Whenever a thread is in a call, some thread returns from one: the two
\* lock orders cannot block each other, and the walks end.
InCall == \E t \in Thread : pc[t] # "idle"
Returning == \E t \in Thread : pc[t] \in {"al_funlock", "hold_un", "fd_unlock",
                                          "rl_done", "rl_abhash", "rl_destroy"}
Progress == InCall ~> Returning
=============================================================================
