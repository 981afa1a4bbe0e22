----------------------------- MODULE FooLocked -----------------------------
(***************************************************************************)
(* The reference-counted objects once more, as the book simplifies them:   *)
(* src/apue/apue.3e/threads/mutex3.c, where hashlock protects the chains   *)
(* and the counts.  What a call does under hashlock is one step.  Unlike   *)
(* the table of FooTable, memory is freed and an address may be used again.*)
(*                                                                         *)
(* refs is the caller's side, as in FooTable: foo_hold and foo_rele are    *)
(* called with a reference only.                                           *)
(***************************************************************************)
EXTENDS Integers, Sequences, FiniteSets, SequencesExt, FiniteSetsExt

CONSTANTS Thread, Foo, Id, MaxRefs

VARIABLES chain,          \* the objects on the one chain, first first
          f_id, f_count,
          heap,           \* "free", "live"; "doomed": unlinked and not yet freed
          f_lock,         \* threads that hold an object's mutex
          pc, fp,         \* per thread: "idle", "init" or "free", and the object
          refs
vars == <<chain, f_id, f_count, heap, f_lock, pc, fp, refs>>

None == "none"
Init == /\ chain = <<>> /\ f_id = [f \in Foo |-> None] /\ f_count = [f \in Foo |-> 0]
        /\ heap = [f \in Foo |-> "free"] /\ f_lock = [f \in Foo |-> None]
        /\ pc = [t \in Thread |-> "idle"] /\ fp = [t \in Thread |-> None]
        /\ refs = [t \in Thread |-> [f \in Foo |-> 0]]

Go(t, p, f) == pc' = [pc EXCEPT ![t] = p] /\ fp' = [fp EXCEPT ![t] = f]
Give(t, f, n) == refs' = [refs EXCEPT ![t][f] = @ + n]

\* foo_alloc, up to the release of hashlock: the object is locked and linked.
foo_alloc(t, f, i) ==
  /\ pc[t] = "idle" /\ heap[f] = "free" /\ f_lock[f] = None
  /\ heap' = [heap EXCEPT ![f] = "live"] /\ f_id' = [f_id EXCEPT ![f] = i]
  /\ f_count' = [f_count EXCEPT ![f] = 1] /\ chain' = <<f>> \o chain
  /\ f_lock' = [f_lock EXCEPT ![f] = t] /\ Go(t, "init", f) /\ UNCHANGED refs
Initialised(t) ==
  /\ pc[t] = "init" /\ f_lock' = [f_lock EXCEPT ![fp[t]] = None]
  /\ Give(t, fp[t], 1) /\ Go(t, "idle", None) /\ UNCHANGED <<chain, f_id, f_count, heap>>

foo_hold(t, f) ==
  /\ pc[t] = "idle" /\ refs[t][f] \in 1..MaxRefs - 1
  /\ f_count' = [f_count EXCEPT ![f] = @ + 1] /\ Give(t, f, 1)
  /\ UNCHANGED <<chain, f_id, heap, f_lock, pc, fp>>

Found(i) == {k \in 1..Len(chain) : f_id[chain[k]] = i}
foo_find(t, i) ==
  /\ pc[t] = "idle" /\ Found(i) # {}
  /\ LET f == chain[Min(Found(i))] IN
     /\ refs[t][f] < MaxRefs /\ f_count' = [f_count EXCEPT ![f] = @ + 1] /\ Give(t, f, 1)
  /\ UNCHANGED <<chain, f_id, heap, f_lock, pc, fp>>

\* The mutant that takes the first object of the id off the chain.
UnlinkId(f) == RemoveAt(chain, Min(Found(f_id[f])))

Unlink(f) == Remove(chain, f)

foo_rele(t, f) ==
  /\ pc[t] = "idle" /\ refs[t][f] > 0 /\ Give(t, f, -1)
  /\ f_count' = [f_count EXCEPT ![f] = @ - 1]
  /\ IF f_count[f] = 1
     THEN chain' = Unlink(f) /\ heap' = [heap EXCEPT ![f] = "doomed"] /\ Go(t, "free", f)
     ELSE UNCHANGED <<chain, heap, pc, fp>>
  /\ UNCHANGED <<f_id, f_lock>>
\* pthread_mutex_destroy and free, after hashlock is released.
Free(t) ==
  /\ pc[t] = "free" /\ heap' = [heap EXCEPT ![fp[t]] = "free"] /\ Go(t, "idle", None)
  /\ UNCHANGED <<chain, f_id, f_count, f_lock, refs>>

Next == \E t \in Thread : \/ Initialised(t) \/ Free(t)
                          \/ \E f \in Foo : foo_hold(t, f) \/ foo_rele(t, f)
                          \/ \E i \in Id : foo_find(t, i) \/ \E f \in Foo : foo_alloc(t, f, i)

-----------------------------------------------------------------------------
Held(f) == MapThenSumSet(LAMBDA t : refs[t][f] + IF pc[t] = "init" /\ fp[t] = f THEN 1 ELSE 0, Thread)

\* The count of a live object is the number of references to it, the chain
\* holds the live objects once each, and what is freed is unlocked and known to
\* nobody, also when its address is used again.
FreedUnknown ==
  /\ \A f \in Foo : heap[f] = "live" => f_count[f] = Held(f) /\ f_count[f] > 0
  /\ ToSet(chain) = {f \in Foo : heap[f] = "live"} /\ IsInjective(chain)
  /\ \A f \in Foo : heap[f] # "live" => Held(f) = 0 /\ f_lock[f] = None
=============================================================================
