------------------------------- MODULE Semaph -------------------------------
(***************************************************************************)
(* The semaphore library src/apue/apue.3e/lib/semaph.c: sem_create,        *)
(* sem_open, sem_wait, sem_signal and sem_close by processes that may be   *)
(* killed, over one key.  The System V set of the key has three members:   *)
(* [0] the semaphore, [1] the process counter, [2] the lock.  semop is     *)
(* atomic, sleeps until it can be done, and with SEM_UNDO is taken back    *)
(* when the process ends.  sem_rm as a call of its own is left out: it     *)
(* removes a set in use by design.                                         *)
(***************************************************************************)
EXTENDS Integers, FiniteSets

CONSTANTS Proc,       \* processes, each uses the semaphore once
          Opener,     \* those that call sem_open, not sem_create
          initval, BIGCOUNT, MaxKill   \* bound: processes killed

VARIABLES gen,      \* the set the key leads to, 0 if none
          made,     \* sets made so far; set n has id n
          val,      \* the members of set gen
          adj,      \* what the kernel adds to them when a process ends
          pc, id,   \* each process and the id it has
          asleep    \* processes waiting inside semop
vars == <<gen, made, val, adj, pc, id, asleep>>

Member == 0..2
Zero == [i \in Member |-> 0]
Ended == {"done", "failed", "dead"}

Init == /\ gen = 0 /\ made = 0 /\ val = Zero /\ adj = [p \in Proc |-> Zero]
        /\ pc = [p \in Proc |-> IF p \in Opener THEN "find" ELSE "get"]
        /\ id = [p \in Proc |-> 0] /\ asleep = {}

-----------------------------------------------------------------------------
(* The kernel.                                                             *)

Op(d0, d1, d2, lock) == [add |-> [i \in Member |-> <<d0, d1, d2>>[i + 1]], lock |-> lock]
Go(p, l) == pc' = [pc EXCEPT ![p] = l]

\* exit: the adjustments of the process are made.
Exit(p, l) ==
  /\ Go(p, l) /\ asleep' = asleep \ {p}
  /\ val' = IF id[p] # gen THEN val
            ELSE [i \in Member |-> IF val[i] + adj[p][i] < 0 THEN 0 ELSE val[i] + adj[p][i]]
  /\ adj' = [adj EXCEPT ![p] = Zero]
  /\ UNCHANGED <<gen, made, id>>
err_sys(p) == Exit(p, "dead")

\* A semop on a set that is still there: done, or put to sleep.
semop(p, op, then) ==
  /\ id[p] = gen
  /\ \/ /\ op.lock => val[2] = 0
        /\ \A i \in Member : val[i] + op.add[i] >= 0
        /\ val' = [i \in Member |-> val[i] + op.add[i]]
        /\ adj' = [adj EXCEPT ![p] = [i \in Member |-> @[i] - op.add[i]]]
        /\ asleep' = asleep \ {p} /\ Go(p, then)
     \/ /\ p \notin asleep
        /\ (op.lock /\ val[2] # 0) \/ \E i \in Member : val[i] + op.add[i] < 0
        /\ asleep' = asleep \cup {p} /\ UNCHANGED <<val, adj, pc>>
  /\ UNCHANGED <<gen, made, id>>

\* The set has been removed: before the call (EINVAL), or during it (EIDRM).
EINVAL(p) == id[p] # gen /\ p \notin asleep
EIDRM(p)  == id[p] # gen /\ p \in asleep

op_lock      == Op(0, 0, 1, TRUE)
op_endcreate == Op(0, -1, -1, FALSE)
op_open      == Op(0, -1, 0, FALSE)
op_close     == Op(0, 1, 1, TRUE)
op_unlock    == Op(0, 0, -1, FALSE)
op_op(value) == Op(value, 0, 0, FALSE)

SetVal(i, v) == /\ val' = [val EXCEPT ![i] = v]
                /\ adj' = [p \in Proc |-> [adj[p] EXCEPT ![i] = 0]]

-----------------------------------------------------------------------------
(* sem_create.                                                             *)

semget(p) ==
  /\ pc[p] = "get" /\ Go(p, "lock")
  /\ IF gen = 0 THEN /\ made' = made + 1 /\ gen' = made' /\ val' = Zero
                     /\ adj' = [q \in Proc |-> Zero]
     ELSE UNCHANGED <<gen, made, val, adj>>
  /\ id' = [id EXCEPT ![p] = gen']
  /\ UNCHANGED asleep

\* Only EINVAL is tried again.
Lock(p) ==
  /\ pc[p] = "lock"
  /\ \/ semop(p, op_lock, "count")
     \/ EINVAL(p) /\ Go(p, "get") /\ UNCHANGED <<gen, made, val, adj, id, asleep>>
     \/ EIDRM(p) /\ err_sys(p)

\* GETVAL of the counter, and the two SETVALs if nobody has initialised it.
Initialise(p) ==
  \/ /\ pc[p] = "count" /\ Go(p, IF val[1] = 0 THEN "set0" ELSE "endcreate")
     /\ UNCHANGED <<gen, made, val, adj, id, asleep>>
  \/ /\ pc[p] = "set0" /\ SetVal(0, initval) /\ Go(p, "set1")
     /\ UNCHANGED <<gen, made, id, asleep>>
  \/ /\ pc[p] = "set1" /\ SetVal(1, BIGCOUNT) /\ Go(p, "endcreate")
     /\ UNCHANGED <<gen, made, id, asleep>>

EndCreate(p) == pc[p] = "endcreate" /\ semop(p, op_endcreate, "idle")

sem_create(p) == semget(p) \/ Lock(p) \/ Initialise(p) \/ EndCreate(p)

-----------------------------------------------------------------------------
\* sem_open takes no lock: semget, then the counter.
sem_open(p) ==
  \/ /\ pc[p] = "find"
     /\ IF gen = 0 THEN Go(p, "failed") /\ UNCHANGED id
                   ELSE Go(p, "open") /\ id' = [id EXCEPT ![p] = gen]
     /\ UNCHANGED <<gen, made, val, adj, asleep>>
  \/ /\ pc[p] = "open"
     /\ semop(p, op_open, "idle") \/ (id[p] # gen /\ err_sys(p))

sem_op(p, from, value, then) ==
  /\ pc[p] = from
  /\ semop(p, op_op(value), then) \/ (id[p] # gen /\ err_sys(p))

sem_wait(p)   == sem_op(p, "idle", -1, "hold")
sem_signal(p) == sem_op(p, "hold", 1, "spent")

-----------------------------------------------------------------------------
\* The mutant that counts before it takes the lock.
CountOutUnlocked(p) ==
  /\ pc[p] \in {"idle", "spent"} /\ p \notin asleep
  /\ semop(p, Op(0, 1, 0, FALSE), "last")

\* The lock and the counter in one semop, then GETVAL.
CountOut(p) ==
  /\ pc[p] \in {"idle", "spent", "close"} /\ (p \in asleep => pc[p] = "close")
  /\ \/ semop(p, op_close, "last") /\ pc'[p] = "last"
     \/ /\ pc[p] # "close" /\ id[p] = gen /\ val[2] # 0
        /\ Go(p, "close") /\ asleep' = asleep \cup {p} /\ UNCHANGED <<gen, made, val, adj, id>>
     \/ id[p] # gen /\ err_sys(p)

Last(p) ==
  /\ pc[p] = "last"
  /\ IF val[1] > BIGCOUNT THEN err_sys(p)
     ELSE /\ Go(p, IF val[1] = BIGCOUNT THEN "remove" ELSE "unlock")
          /\ UNCHANGED <<gen, made, val, adj, id, asleep>>

sem_rm(p) ==
  /\ pc[p] = "remove" /\ Go(p, "done")
  /\ gen' = 0 /\ val' = Zero /\ adj' = [q \in Proc |-> Zero]
  /\ UNCHANGED <<made, id, asleep>>

sem_close(p) ==
  CountOut(p) \/ Last(p) \/ sem_rm(p) \/ (pc[p] = "unlock" /\ semop(p, op_unlock, "done"))

-----------------------------------------------------------------------------
Kill(p) == /\ pc[p] \notin Ended /\ Cardinality({q \in Proc : pc[q] = "dead"}) < MaxKill
           /\ err_sys(p)

Call(p) == sem_create(p) \/ sem_open(p) \/ sem_wait(p) \/ sem_signal(p) \/ sem_close(p)
Resting == \A p \in Proc : pc[p] \in Ended \/ (pc[p] = "open" /\ val[1] = 0)
Next == (\E p \in Proc : Call(p) \/ Kill(p)) \/ (Resting /\ UNCHANGED vars)
Spec == Init /\ [][Next]_vars /\ \A p \in Proc : WF_vars(Call(p))

-----------------------------------------------------------------------------
InUse(p) == pc[p] \in {"idle", "hold", "spent", "close"}
Using(p) == InUse(p) /\ id[p] = gen

\* The counter is BIGCOUNT less the processes that use the set, and the value is
\* initval less those between wait and signal, killed processes taken back.
CountsExact ==
  gen # 0 /\ val[1] # 0 =>
    /\ val[1] = BIGCOUNT - Cardinality({p \in Proc : Using(p)})
    /\ val[0] = initval - Cardinality({p \in Proc : id[p] = gen /\ pc[p] = "hold"})

\* The lock is free or has one holder, and a process that got in through
\* sem_create never has its set removed by another one's sem_close.
CreatorsSafe ==
  /\ val[2] \in {0, 1}
  /\ \A p \in Proc \ Opener : InUse(p) => id[p] = gen

\* Nobody waits for ever, but a sem_open on a set whose maker was killed before
\* it initialised the counter.
Settles == <>[]Resting

-----------------------------------------------------------------------------
(* The inductive invariant the proofs of CountsExact and CreatorsSafe rest *)
(* on.                                                                     *)

Users == {p \in Proc : Using(p)}
Waited == {p \in Proc : id[p] = gen /\ pc[p] = "hold"}
\* Inside sem_create or sem_close, between the lock and its release.
Holder(p) == pc[p] \in {"count", "set0", "set1", "endcreate", "last", "remove", "unlock"}

TypeOK == /\ gen \in Nat /\ made \in Nat /\ gen <= made
          /\ val \in [Member -> Nat] /\ adj \in [Proc -> [Member -> Int]]
          /\ pc = [p \in Proc |-> pc[p]]
          /\ id \in [Proc -> Nat] /\ \A p \in Proc : id[p] <= made

\* What a process would give back is what it has.
AdjOK(p) == /\ adj[p][0] = IF p \in Waited THEN 1 ELSE 0
            /\ adj[p][1] = IF p \in Users THEN 1 ELSE 0
            /\ adj[p][2] = IF Holder(p) THEN -1 ELSE 0

IdOK(p) == /\ Holder(p) => id[p] = gen /\ gen # 0
           /\ InUse(p) \/ pc[p] \in {"lock", "open"} => id[p] # 0
           /\ pc[p] \in {"find", "open"} => p \in Opener
           /\ p \notin Opener /\ InUse(p) => id[p] = gen

\* What the holder of the lock may rely on.
HeldOK(p) == /\ pc[p] \in {"set0", "set1"} => val[1] = 0 /\ Users = {}
             /\ pc[p] = "set1" => val[0] = initval
             /\ pc[p] \in {"endcreate", "last", "remove", "unlock"} => val[1] # 0
             /\ pc[p] = "remove" => Users \subseteq Opener

LockOK == /\ \A p, q \in Proc : Holder(p) /\ Holder(q) => p = q
          /\ val[2] = IF \E p \in Proc : Holder(p) THEN 1 ELSE 0

\* The set is initialised, or nobody uses it.
CountOK == val[1] # 0 \/ Users # {} => /\ val[1] = BIGCOUNT - Cardinality(Users)
                                       /\ val[0] = initval - Cardinality(Waited)

IInv == /\ TypeOK /\ LockOK /\ CountOK
        /\ \A p \in Proc : AdjOK(p) /\ IdOK(p) /\ HeldOK(p)

\* A semop that was done: d0, d1 and d2 were added to the members.
Did(p, d0, d1, d2, l) ==
  /\ val' \in [Member -> Nat] /\ adj' \in [Proc -> [Member -> Int]]
  /\ val'[0] = val[0] + d0 /\ val'[1] = val[1] + d1 /\ val'[2] = val[2] + d2
  /\ adj'[p][0] = adj[p][0] - d0 /\ adj'[p][1] = adj[p][1] - d1 /\ adj'[p][2] = adj[p][2] - d2
  /\ \A q \in Proc : q # p => adj'[q] = adj[q]
  /\ Go(p, l) /\ UNCHANGED <<gen, made, id>>
=============================================================================
