------------------------------ MODULE Timeout ------------------------------
(***************************************************************************)
(* src/apue/12.4.1recursive_mutex.c: main, holding a recursive mutex, asks *)
(* for retry to be called at a time to come; timeout makes a thread that   *)
(* sleeps until then, or calls retry itself if it cannot.  Time is counted *)
(* in nanoseconds, SECTONSEC of them to the second.                        *)
(***************************************************************************)
EXTENDS Integers

CONSTANTS SECTONSEC, Delay, Sleep,   \* when is Delay seconds away; main sleeps
          MaxClock                   \* bound: the clock stops

VARIABLES clock, mpc, when, tip,     \* main; the time asked for; to_info
          hpc, until,                \* the helper thread; when its sleep is over
          owner, depth,              \* the recursive mutex
          calls,                     \* history: the times retry ran, by whom
          now                        \* history: the time timeout read
vars == <<clock, mpc, when, tip, hpc, until, owner, depth, calls, now>>

Timespec(t) == [tv_sec |-> t \div SECTONSEC, tv_nsec |-> t % SECTONSEC]
Time(ts) == ts.tv_sec * SECTONSEC + ts.tv_nsec
Never == MaxClock + 1

Init == /\ clock \in 0..(SECTONSEC - 1) /\ mpc = "lock" /\ when = Timespec(0) /\ tip = Timespec(0)
        /\ hpc = "none" /\ until = Never /\ owner = "none" /\ depth = 0 /\ calls = {} /\ now = 0

\* The mutant of a mutex that is not recursive.
LockPlain(t) == owner = "none" /\ owner' = t /\ depth' = 1
Lock(t)   == owner \in {"none", t} /\ owner' = t /\ depth' = depth + 1
Unlock(t) == /\ owner = t /\ depth' = depth - 1
             /\ owner' = IF depth = 1 THEN "none" ELSE t

\* when > now, as timeout compares it.
Later(w, n) == w.tv_sec > n.tv_sec \/ (w.tv_sec = n.tv_sec /\ w.tv_nsec > n.tv_nsec)

\* The mutant that does not borrow a second.
to_waitUnborrowed(w, n) ==
  [tv_sec |-> w.tv_sec - n.tv_sec,
   tv_nsec |-> (w.tv_nsec - n.tv_nsec) + IF w.tv_nsec >= n.tv_nsec THEN 0 ELSE SECTONSEC]
to_wait(w, n) ==
  IF w.tv_nsec >= n.tv_nsec
  THEN [tv_sec |-> w.tv_sec - n.tv_sec, tv_nsec |-> w.tv_nsec - n.tv_nsec]
  ELSE [tv_sec |-> w.tv_sec - n.tv_sec - 1, tv_nsec |-> SECTONSEC - n.tv_nsec + w.tv_nsec]

\* clock_gettime, malloc and makethread; either may fail.
timeout ==
  /\ mpc = "timeout" /\ now' = clock
  /\ \/ /\ Later(when, Timespec(clock)) /\ tip' = to_wait(when, Timespec(clock))
        /\ hpc' = "start" /\ mpc' = "unlock"
     \/ mpc' = "retry" /\ UNCHANGED <<tip, hpc>>
  /\ UNCHANGED <<clock, when, until, owner, depth, calls>>

\* retry by t, which is then at label l or has left it.
retryLock(t) == Lock(t) /\ calls' = calls \cup {<<t, clock>>}

Main ==
  \/ /\ mpc = "lock" /\ Lock("main") /\ mpc' = "when"
     /\ UNCHANGED <<clock, when, tip, hpc, until, calls, now>>
  \/ /\ mpc = "when" /\ mpc' = "timeout"
     /\ when' = Timespec(clock + Delay * SECTONSEC)
     /\ UNCHANGED <<clock, tip, hpc, until, owner, depth, calls, now>>
  \/ timeout
  \/ /\ mpc = "retry" /\ retryLock("main") /\ mpc' = "retried"
     /\ UNCHANGED <<clock, when, tip, hpc, until, now>>
  \/ /\ mpc \in {"retried", "unlock"} /\ Unlock("main")
     /\ mpc' = IF mpc = "retried" THEN "unlock" ELSE "sleep"
     /\ UNCHANGED <<clock, when, tip, hpc, until, calls, now>>
  \/ /\ mpc = "sleep" /\ clock >= now + Sleep * SECTONSEC /\ mpc' = "exit"
     /\ UNCHANGED <<clock, when, tip, hpc, until, owner, depth, calls, now>>

\* The helper may start late, and oversleep.
timeout_helper ==
  /\ mpc # "exit"
  /\ \/ /\ hpc = "start" /\ hpc' = "sleep" /\ until' = clock + Time(tip)
        /\ UNCHANGED <<owner, depth, calls>>
     \/ /\ hpc = "sleep" /\ clock >= until /\ hpc' = "retry" /\ UNCHANGED <<until, owner, depth, calls>>
     \/ /\ hpc = "retry" /\ retryLock("helper") /\ hpc' = "retried" /\ UNCHANGED until
     \/ /\ hpc = "retried" /\ Unlock("helper") /\ hpc' = "done" /\ UNCHANGED <<until, calls>>
  /\ UNCHANGED <<clock, mpc, when, tip, now>>

Tick == /\ clock < MaxClock /\ mpc # "exit" /\ clock' = clock + 1
        /\ UNCHANGED <<mpc, when, tip, hpc, until, owner, depth, calls, now>>

\* The clock is at its bound, or the process is gone.
Stop == (clock = MaxClock \/ mpc = "exit") /\ UNCHANGED vars
Next == Main \/ timeout_helper \/ Tick \/ Stop
Spec == Init /\ [][Next]_vars /\ WF_vars(Main) /\ WF_vars(timeout_helper) /\ WF_vars(Tick)

-----------------------------------------------------------------------------
\* retry runs once at most, by the helper not before the time asked for; what
\* the helper is told to sleep is a proper timespec of exactly the time left.
RetryInTime ==
  /\ \A a, b \in calls : a = b
  /\ \A a \in calls : a[1] = "helper" => a[2] >= Time(when)
  /\ hpc # "none" => tip.tv_nsec \in 0..(SECTONSEC - 1) /\ Time(tip) = Time(when) - now

\* main does not wait for itself: it gets to its end, or the clock to its bound.
Over == mpc = "exit" \/ (clock = MaxClock /\ mpc = "sleep")
MainEnds == <>Over

-----------------------------------------------------------------------------
(* The inductive invariant the proof of RetryInTime rests on.              *)

IsTimespec(ts) == /\ ts = [tv_sec |-> ts.tv_sec, tv_nsec |-> ts.tv_nsec]
                  /\ ts.tv_sec \in Nat /\ ts.tv_nsec \in 0..(SECTONSEC - 1)

\* Either main or the helper is to call retry, and calls it once.
CallsOK ==
  /\ hpc = "none" => calls = {} \/ \E t \in Nat : calls = {<<"main", t>>}
  /\ hpc = "none" /\ mpc \in {"lock", "when", "timeout", "retry"} => calls = {}
  /\ hpc # "none" => mpc \in {"unlock", "sleep", "exit"}
  /\ hpc \in {"start", "sleep", "retry"} => calls = {}
  /\ hpc \in {"retried", "done"} => \E t \in Nat : t >= Time(when) /\ calls = {<<"helper", t>>}

\* The helper does not wake before the time asked for.
SleepOK ==
  /\ hpc # "none" => Time(tip) = Time(when) - now
  /\ hpc = "sleep" => until \in Int /\ until >= Time(when)
  /\ hpc = "retry" => clock >= Time(when)

IInv == /\ clock \in Nat /\ now \in Nat /\ now <= clock /\ IsTimespec(when) /\ IsTimespec(tip)
        /\ hpc \in {"none", "start", "sleep", "retry", "retried", "done"}
        /\ CallsOK /\ SleepOK
=============================================================================
