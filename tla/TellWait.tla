------------------------------ MODULE TellWait ------------------------------
(***************************************************************************)
(* Parent and child that take turns: tell_wait and its companions with     *)
(* pipes (src/apue/15.2.3tell_wait.c) and with signals                     *)
(* (src/apue/10.16sigsuspend3.c, the library version of src/apue/apue.3e), *)
(* in the two programs that use them: the counter in shared memory (15.9,  *)
(* "zero") and the two record locks (14.3.3, "lock").                      *)
(***************************************************************************)
EXTENDS Naturals, FiniteSets

CONSTANT NLOOPS

Side == {"parent", "child"}
Other(p) == IF p = "parent" THEN "child" ELSE "parent"

VARIABLES prog, way,             \* "zero" or "lock"; "pipe" or "signal"
          pc, i,
          area, counter,         \* the shared counter; what update read of it
          sigflag, blocked,      \* by signal: flag, and whether the signals are blocked
          told,                  \* bytes in the pipe to p, or its signal is pending
          locker,                \* who holds each byte's lock
          failed,                \* processes that ended by err_quit or err_sys
          missed                 \* a signal came between the test and sigsuspend
vars == <<prog, way, pc, i, area, counter, sigflag, blocked, told, locker, failed, missed>>

First(p) == IF prog = "lock" THEN "first" ELSE IF p = "parent" THEN "load" ELSE "wait"

\* tell_wait, before fork.
Init ==
  /\ prog \in {"zero", "lock"} /\ way \in {"pipe", "signal"}
  /\ pc = [p \in Side |-> First(p)] /\ i = [p \in Side |-> IF p = "parent" THEN 0 ELSE 1]
  /\ area = 0 /\ counter = [p \in Side |-> 0]
  /\ sigflag = [p \in Side |-> FALSE] /\ blocked = [p \in Side |-> way = "signal"]
  /\ told = [p \in Side |-> 0] /\ locker = [b \in {0, 1} |-> "none"]
  /\ failed = {} /\ missed = FALSE

-----------------------------------------------------------------------------
\* A pending signal that is not blocked comes before the next step.
At(p, s) == pc[p] = s /\ ~ (way = "signal" /\ told[p] > 0 /\ ~ blocked[p])
Go(p, s) == pc' = [pc EXCEPT ![p] = s]

\* err_quit and err_sys.
Quit(p) == Go(p, "end") /\ failed' = failed \union {p}

\* update, which is a load and a store, and the test of what it returned.
Load(p) == /\ At(p, "load") /\ Go(p, "store") /\ counter' = [counter EXCEPT ![p] = area]
           /\ UNCHANGED <<prog, way, i, area, sigflag, blocked, told, locker, failed, missed>>
Store(p) == /\ At(p, "store") /\ area' = counter[p] + 1
            /\ IF counter[p] = i[p] THEN Go(p, "tell") /\ UNCHANGED failed ELSE Quit(p)
            /\ UNCHANGED <<prog, way, i, counter, sigflag, blocked, told, locker, missed>>

\* tell_child and tell_parent: a byte, or a signal, which does not queue.
tell(p) ==
  /\ At(p, "tell")
  /\ told' = [told EXCEPT ![Other(p)] = IF way = "pipe" THEN @ + 1 ELSE 1]
  /\ IF prog = "zero" /\ p = "child"
     THEN i' = [i EXCEPT ![p] = @ + 2] /\ Go(p, IF i[p] + 2 < NLOOPS + 1 THEN "wait" ELSE "end")
     ELSE Go(p, "wait") /\ UNCHANGED i
  /\ UNCHANGED <<prog, way, area, counter, sigflag, blocked, locker, failed, missed>>

\* wait_child and wait_parent return, and the caller goes on.
Resume(p) ==
  IF prog = "zero" /\ p = "parent"
  THEN i' = [i EXCEPT ![p] = @ + 2] /\ Go(p, IF i[p] + 2 < NLOOPS THEN "load" ELSE "end")
  ELSE Go(p, IF prog = "zero" THEN "load" ELSE "second") /\ UNCHANGED i

read(p) ==
  /\ way = "pipe" /\ At(p, "wait") /\ told[p] > 0
  /\ told' = [told EXCEPT ![p] = @ - 1] /\ Resume(p)
  /\ UNCHANGED <<prog, way, area, counter, sigflag, blocked, locker, failed, missed>>

\* The loop around sigsuspend; sigflag is cleared before the mask is reset.
TestFlag(p) ==
  /\ way = "signal" /\ At(p, "wait") /\ Go(p, IF sigflag[p] THEN "clear" ELSE "suspend")
  /\ UNCHANGED <<prog, way, i, area, counter, sigflag, blocked, told, locker, failed, missed>>
sigsuspend(p) ==
  /\ At(p, "suspend") /\ Go(p, "suspended")
  /\ UNCHANGED <<prog, way, i, area, counter, sigflag, blocked, told, locker, failed, missed>>

\* The mutant that leaves sigflag set.
ClearForgotten(p) ==
  /\ At(p, "clear") /\ Go(p, "unblock")
  /\ UNCHANGED <<prog, way, i, area, counter, sigflag, blocked, told, locker, failed, missed>>

Clear(p) ==
  /\ At(p, "clear") /\ Go(p, "unblock") /\ sigflag' = [sigflag EXCEPT ![p] = FALSE]
  /\ UNCHANGED <<prog, way, i, area, counter, blocked, told, locker, failed, missed>>
Unblock(p) ==
  /\ At(p, "unblock") /\ blocked' = [blocked EXCEPT ![p] = FALSE] /\ Resume(p)
  /\ UNCHANGED <<prog, way, area, counter, sigflag, told, locker, failed, missed>>

\* The signal is delivered to sig_usr, which ends sigsuspend.
sig_usr(p) ==
  /\ way = "signal" /\ told[p] > 0 /\ (~ blocked[p] \/ pc[p] = "suspended")
  /\ told' = [told EXCEPT ![p] = 0] /\ sigflag' = [sigflag EXCEPT ![p] = TRUE]
  /\ pc' = IF pc[p] = "suspended" THEN [pc EXCEPT ![p] = "wait"] ELSE pc
  /\ missed' = (missed \/ pc[p] = "suspend")
  /\ UNCHANGED <<prog, way, i, area, counter, blocked, locker, failed>>

\* lockabyte: parent and child take the bytes in opposite orders.
Slot(p, s) == IF (p = "child") = (s = "first") THEN 0 ELSE 1
lockabyte(p, s) ==
  LET b == Slot(p, s) IN
  /\ At(p, s)
  /\ \/ /\ locker[b] = "none" /\ locker' = [locker EXCEPT ![b] = p]
        /\ Go(p, IF s = "first" THEN "tell" ELSE "end") /\ UNCHANGED failed
     \/ /\ locker[b] = Other(p) /\ pc[Other(p)] = "waits" /\ Quit(p) /\ UNCHANGED locker   \* EDEADLK
     \/ /\ locker[b] = Other(p) /\ pc[Other(p)] # "waits" /\ Go(p, "waits") /\ UNCHANGED <<locker, failed>>
  /\ UNCHANGED <<prog, way, i, area, counter, sigflag, blocked, told, missed>>
Locked(p) ==
  /\ At(p, "waits") /\ locker[Slot(p, "second")] = "none"
  /\ locker' = [locker EXCEPT ![Slot(p, "second")] = p] /\ Go(p, "end")
  /\ UNCHANGED <<prog, way, i, area, counter, sigflag, blocked, told, failed, missed>>
\* The end of a process releases its locks.
Exit(p) ==
  /\ pc[p] = "end" /\ Go(p, "gone")
  /\ locker' = [b \in {0, 1} |-> IF locker[b] = p THEN "none" ELSE locker[b]]
  /\ UNCHANGED <<prog, way, i, area, counter, sigflag, blocked, told, failed, missed>>

Step(p) == \/ Load(p) \/ Store(p) \/ tell(p) \/ read(p) \/ TestFlag(p) \/ sigsuspend(p)
           \/ Clear(p) \/ Unblock(p) \/ sig_usr(p) \/ Locked(p) \/ Exit(p)
           \/ \E s \in {"first", "second"} : lockabyte(p, s)
Next == \E p \in Side : Step(p)
Spec == Init /\ [][Next]_vars /\ \A p \in Side : WF_vars(Step(p))

-----------------------------------------------------------------------------
\* The processes take turns: each finds the counter as it expects, none is lost
\* by a store between a load and a store, and a byte or a signal is never left
\* over for the next turn; of the two locks each has its first when either asks
\* for its second, and one of the two, not both, is told of the deadlock.
TurnsTaken ==
  /\ prog = "zero" => /\ failed = {}
                      /\ ~ (\A p \in Side : pc[p] \in {"load", "store"})
                      /\ (\A p \in Side : pc[p] = "gone") => area = NLOOPS
  /\ prog = "lock" => /\ \A p \in Side : pc[p] = "second" => pc[Other(p)] # "first"
                      /\ Cardinality(failed) <= 1
                      /\ (\A p \in Side : pc[p] = "gone") => Cardinality(failed) = 1

\* Both processes end, unless a signal of a second turn, when the signals are
\* no longer blocked, comes between the test of sigflag and sigsuspend.
Ended == (\A p \in Side : pc[p] = "gone") \/ missed
BothEnd == <>Ended

-----------------------------------------------------------------------------
(* The inductive invariant the proof of TurnsTaken rests on.               *)

Parked == {"wait", "suspend", "suspended"}
Done == {"end", "gone"}

TypeOK == /\ way \in {"pipe", "signal"} /\ prog \in {"zero", "lock"}
          /\ pc = [p \in Side |-> pc[p]] /\ i \in [Side -> Nat] /\ counter \in [Side -> Nat]
          /\ area \in Nat /\ told \in [Side -> {0, 1}] /\ sigflag \in [Side -> BOOLEAN]
          /\ locker = [b \in {0, 1} |-> locker[b]] /\ failed \subseteq Side

\* p has been told and has not yet gone on.
Given(p) == told[p] = 1 \/ sigflag[p] \/ pc[p] = "unblock"
Turn(p) == pc[p] \in {"load", "store", "tell"} \/ Given(p)

\* What is told arrives in one form at a time, and is not told again before.
GivenOK(p) == /\ told[p] = 1 => ~ sigflag[p]
              /\ pc[p] = "unblock" => told[p] = 0 /\ ~ sigflag[p]
              /\ pc[p] = "clear" => sigflag[p]
              /\ Given(p) => pc[p] \in Parked \cup {"clear", "unblock"} \cup Done
              /\ pc[p] \in {"suspend", "suspended", "clear", "unblock"} \/ sigflag[p] => way = "signal"

\* The counter: at each turn it is what its owner expects.
ZeroOK ==
  /\ failed = {} /\ \A p \in Side : GivenOK(p)
  /\ \A p \in Side : Turn(p) => ~ Turn(Other(p)) /\ pc[p] \notin Done
  /\ \A p \in Side : /\ Turn(p) \/ pc[p] \in Parked \cup Done
                     /\ pc[p] = "store" => counter[p] = area
  /\ i["parent"] % 2 = 0 /\ i["child"] % 2 = 1
  /\ IF pc["parent"] \in Done THEN i["parent"] = NLOOPS /\ area = NLOOPS ELSE i["parent"] < NLOOPS
  /\ IF pc["child"] \in Done THEN i["child"] = NLOOPS + 1 ELSE i["child"] < NLOOPS + 1
  /\ pc["parent"] \in {"load", "store"} => i["child"] = i["parent"] + 1 /\ area = i["parent"]
  /\ pc["parent"] = "tell" => i["child"] = i["parent"] + 1 /\ area = i["child"]
  /\ Turn("child") => /\ i["child"] = i["parent"] + 1
                      /\ area = IF pc["child"] = "tell" THEN i["child"] + 1 ELSE i["child"]
  /\ Given("parent") => i["child"] = i["parent"] + 3 /\ area = i["parent"] + 2

\* The two locks: who was told knows that the other has its first lock, and who
\* is refused leaves the other one waiting.
LockOK(p) ==
  /\ pc[p] \in Parked \cup Done \cup {"first", "tell", "clear", "unblock", "second", "waits"}
  /\ Given(p) \/ pc[p] \in Done \cup {"clear", "second", "waits"} => pc[Other(p)] \notin {"first", "tell"}
  /\ pc[p] = "first" => locker[Slot(p, "first")] = "none"
  /\ pc[p] \notin {"first", "gone"} => locker[Slot(p, "first")] = p
  /\ pc[p] = "gone" => locker[Slot(p, "first")] # p
  /\ pc[p] = "waits" => pc[Other(p)] # "waits"
  /\ p \in failed => /\ pc[p] \in Done /\ Other(p) \notin failed
                     /\ pc[Other(p)] \in Done \cup {"waits"}
  /\ pc[p] \in Done /\ p \notin failed => Other(p) \in failed /\ pc[Other(p)] = "gone"

IInv == /\ TypeOK
        /\ prog = "zero" => ZeroOK
        /\ prog = "lock" => \A p \in Side : LockOK(p)
=============================================================================
