----------------------------- MODULE BarrierSort -----------------------------
(***************************************************************************)
(* The sort with a barrier, src/apue/apue.3e/threads/barrier.c (and the    *)
(* part of it in src/apue/11.6.8barrier.c): each thread sorts its share of *)
(* nums in place, the main thread waits at the barrier with them and then  *)
(* merges the shares into snums, which it prints.  The heapsort of the     *)
(* library is taken in two steps: the share is in some order on the way.   *)
(***************************************************************************)
EXTENDS Naturals, Sequences, SequencesExt, FiniteSets, FiniteSetsExt

CONSTANTS NTHR, TNUM,   \* threads, and numbers for each
          LONG_MAX      \* numbers are 0..LONG_MAX, those sorted less than it

Thread == 0..NTHR - 1
Index == 0..NTHR * TNUM - 1
Share(t) == t * TNUM .. (t + 1) * TNUM - 1

VARIABLES nums, snums, start,   \* the arrays, and nums as it was filled
          pc,       \* thread -> "sort", "moving", "arrive", "wait" or "past"
          arrived,  \* threads at the barrier, main included
          idx, main \* merge's positions; "create", "wait", "merge", "end"
vars == <<nums, snums, start, pc, arrived, idx, main>>

Init == /\ start \in [Index -> 0..LONG_MAX - 1] /\ nums = start /\ snums = <<>>
        /\ pc = [t \in Thread |-> "sort"] /\ arrived = 0
        /\ idx = [t \in Thread |-> t * TNUM] /\ main = "wait"

\* The numbers of a share, in ascending order.
Ascending(f, lo) == SetToSortSeq({<<f[i], i>> : i \in lo .. lo + TNUM - 1},
                      LAMBDA a, b : a[1] < b[1] \/ (a[1] = b[1] /\ a[2] < b[2]))
heapsort(t) ==
  /\ UNCHANGED <<snums, start, arrived, idx, main>>
  /\ \/ /\ pc[t] = "sort" /\ pc' = [pc EXCEPT ![t] = "moving"]
        /\ nums' = [i \in Index |-> IF i \in Share(t)
                      THEN nums[(2 * t + 1) * TNUM - 1 - i] ELSE nums[i]]
     \/ /\ pc[t] = "moving" /\ pc' = [pc EXCEPT ![t] = "arrive"]
        /\ nums' = [i \in Index |-> IF i \in Share(t)
                      THEN Ascending(nums, t * TNUM)[i - t * TNUM + 1][1] ELSE nums[i]]

\* As if the barrier were made for the sorting threads only.
CountThreads == NTHR
\* pthread_barrier_init: the threads and main.
Count == NTHR + 1
Open == arrived = Count

pthread_barrier_wait(t) ==
  /\ pc[t] = "arrive" /\ arrived < Count /\ arrived' = arrived + 1
  /\ pc' = [pc EXCEPT ![t] = "wait"]
  /\ UNCHANGED <<nums, snums, start, idx, main>>
Past(t) ==
  /\ pc[t] = "wait" /\ Open /\ pc' = [pc EXCEPT ![t] = "past"]
  /\ UNCHANGED <<nums, snums, start, arrived, idx, main>>

MainWait ==
  /\ main = "wait" /\ arrived < Count /\ arrived' = arrived + 1 /\ main' = "barrier"
  /\ UNCHANGED <<nums, snums, start, pc, idx>>
MainPast ==
  /\ main = "barrier" /\ Open /\ main' = "merge"
  /\ UNCHANGED <<nums, snums, start, pc, arrived, idx>>

\* One round of merge: the first of the smallest numbers the shares are at.
Left == {t \in Thread : idx[t] < (t + 1) * TNUM}
minidx == Min({t \in Left : \A u \in Left : nums[idx[t]] <= nums[idx[u]]})
merge ==
  /\ main = "merge" /\ UNCHANGED <<nums, start, pc, arrived>>
  /\ IF Left = {} THEN main' = "end" /\ UNCHANGED <<snums, idx>>
     ELSE /\ snums' = Append(snums, nums[idx[minidx]])
          /\ idx' = [idx EXCEPT ![minidx] = @ + 1] /\ UNCHANGED main

ThreadStep(t) == heapsort(t) \/ pthread_barrier_wait(t) \/ Past(t)
MainStep == MainWait \/ MainPast \/ merge
Next == MainStep \/ \E t \in Thread : ThreadStep(t)
Spec == Init /\ [][Next]_vars /\ WF_vars(MainStep) /\ \A t \in Thread : WF_vars(ThreadStep(t))

-----------------------------------------------------------------------------
\* What is printed is the numbers that were there, in ascending order: no
\* thread still moves its share while main merges.
Sorted ==
  main = "end" =>
    /\ \A i \in 1..Len(snums) - 1 : snums[i] <= snums[i + 1]
    /\ \A v \in 0..LONG_MAX : Cardinality({i \in Index : start[i] = v})
                              = Cardinality({i \in DOMAIN snums : snums[i] = v})
\* The barrier opens and the program ends.
Over == main = "end"
Ends == <>Over
==============================================================================
