------------------------------ MODULE SigThread ------------------------------
(***************************************************************************)
(* A thread that takes the signals of a process with sigwait and tells the *)
(* main thread of SIGQUIT: src/apue/12.8pthread_signal.c and the book's    *)
(* src/apue/apue.3e/threadctl/suspend.c.                                   *)
(***************************************************************************)
EXTENDS Naturals

CONSTANTS MaxSig,       \* bound: signals sent
          MaxSpurious   \* bound: spurious wakeups

VARIABLES blocked,         \* SIGINT and SIGQUIT are blocked
          pend,
          mpc, tpc,        \* main; the signal thread
          quitflag, lock,  \* lock: its owner, or "none"
          end,             \* "no", "exit" or the signal that ended the process
          quit,            \* SIGQUIT was sent while it was blocked
          left, spurious
vars == <<blocked, pend, mpc, tpc, quitflag, lock, end, quit, left, spurious>>

Init == /\ blocked = FALSE /\ pend = {} /\ mpc = "block" /\ tpc = "none"
        /\ quitflag = FALSE /\ lock = "none" /\ end = "no" /\ quit = FALSE
        /\ left = MaxSig /\ spurious = MaxSpurious

Lock(t) == lock = "none" /\ lock' = t
Unlock(t) == lock = t /\ lock' = "none"

\* The mutant that creates the thread with the signals unblocked.
BlockNone == /\ mpc = "block" /\ mpc' = "create"
             /\ UNCHANGED <<blocked, pend, tpc, quitflag, lock, end, quit, left, spurious>>

\* main: the mask is set before the thread is created, which inherits it.
Block == /\ mpc = "block" /\ mpc' = "create" /\ blocked' = TRUE
         /\ UNCHANGED <<pend, tpc, quitflag, lock, end, quit, left, spurious>>
Create == /\ mpc = "create" /\ mpc' = "lock" /\ tpc' = "sigwait"
          /\ UNCHANGED <<blocked, pend, quitflag, lock, end, quit, left, spurious>>
LockMain == /\ mpc \in {"lock", "woken"} /\ Lock("main") /\ mpc' = "test"
            /\ UNCHANGED <<blocked, pend, tpc, quitflag, end, quit, left, spurious>>
\* The test of quitflag and, with it, the release of the mutex by cond_wait.
TestWait == /\ mpc = "test" /\ ~ quitflag /\ mpc' = "wait" /\ Unlock("main")
            /\ UNCHANGED <<blocked, pend, tpc, quitflag, end, quit, left, spurious>>
Tested == /\ mpc = "test" /\ quitflag /\ mpc' = "clear" /\ Unlock("main")
          /\ UNCHANGED <<blocked, pend, tpc, quitflag, end, quit, left, spurious>>
Clear == /\ mpc = "clear" /\ mpc' = "unblock" /\ quitflag' = FALSE
         /\ UNCHANGED <<blocked, pend, tpc, lock, end, quit, left, spurious>>
Unblock == /\ mpc = "unblock" /\ mpc' = "exit" /\ blocked' = FALSE
           /\ UNCHANGED <<pend, tpc, quitflag, lock, end, quit, left, spurious>>
Exit == /\ mpc = "exit" /\ end' = "exit"
        /\ UNCHANGED <<blocked, pend, mpc, tpc, quitflag, lock, quit, left, spurious>>
Main == /\ end = "no" /\ (blocked \/ pend = {})
        /\ (Block \/ Create \/ LockMain \/ TestWait \/ Tested \/ Clear \/ Unblock \/ Exit)

\* thr_fn.
sigwait == /\ tpc = "sigwait" /\ \E s \in pend : /\ pend' = pend \ {s}
                                                 /\ tpc' = IF s = "QUIT" THEN "lock" ELSE tpc
           /\ UNCHANGED <<blocked, mpc, quitflag, lock, end, quit, left, spurious>>
LockThread == /\ tpc = "lock" /\ Lock("thread") /\ tpc' = "set"
              /\ UNCHANGED <<blocked, pend, mpc, quitflag, end, quit, left, spurious>>
Set == /\ tpc = "set" /\ tpc' = "unlock" /\ quitflag' = TRUE
       /\ UNCHANGED <<blocked, pend, mpc, lock, end, quit, left, spurious>>
UnlockThread == /\ tpc = "unlock" /\ Unlock("thread") /\ tpc' = "signal"
                /\ UNCHANGED <<blocked, pend, mpc, quitflag, end, quit, left, spurious>>

\* The mutant that sets the flag and tells nobody.
CondSignalNone == /\ tpc = "signal" /\ tpc' = "done"
                  /\ UNCHANGED <<blocked, pend, mpc, quitflag, lock, end, quit, left, spurious>>
CondSignal == /\ tpc = "signal" /\ tpc' = "done"
              /\ mpc' = IF mpc = "wait" THEN "woken" ELSE mpc
              /\ UNCHANGED <<blocked, pend, quitflag, lock, end, quit, left, spurious>>
thr_fn == end = "no" /\ (sigwait \/ LockThread \/ Set \/ UnlockThread \/ CondSignal)

-----------------------------------------------------------------------------
Send(s) == /\ end = "no" /\ left > 0 /\ left' = left - 1 /\ pend' = pend \union {s}
           /\ quit' = (quit \/ (s = "QUIT" /\ blocked))
           /\ UNCHANGED <<blocked, mpc, tpc, quitflag, lock, end, spurious>>
\* A signal that is not blocked ends the process.
Deliver == /\ end = "no" /\ ~ blocked /\ \E s \in pend : end' = s /\ pend' = pend \ {s}
           /\ UNCHANGED <<blocked, mpc, tpc, quitflag, lock, quit, left, spurious>>
Spurious == /\ mpc = "wait" /\ spurious > 0 /\ spurious' = spurious - 1 /\ mpc' = "woken"
            /\ UNCHANGED <<blocked, pend, tpc, quitflag, lock, end, quit, left>>

Next == Main \/ thr_fn \/ Deliver \/ Spurious \/ \E s \in {"INT", "QUIT"} : Send(s)
Spec == Init /\ [][Next]_vars /\ WF_vars(Main) /\ WF_vars(thr_fn) /\ WF_vars(Deliver)

-----------------------------------------------------------------------------
\* Neither signal ends the process from the moment it is set up until SIGQUIT
\* has been seen, and the main thread goes on for SIGQUIT alone, not for a
\* spurious wakeup.
OnlyQuit ==
  /\ mpc \notin {"block", "exit"} => end \notin {"INT", "QUIT"}
  /\ mpc \in {"clear", "unblock", "exit"} => quit

\* SIGQUIT, once blocked, ends the program, whenever it comes.
Quitting == quit
Over == end # "no"
QuitEnds == Quitting ~> Over

-----------------------------------------------------------------------------
(* The inductive invariant the proof of OnlyQuit rests on.                 *)

\* A SIGQUIT that waits, is being told of or was told of came while blocked.
QuitOK == /\ blocked /\ "QUIT" \in pend => quit
          /\ tpc \notin {"none", "sigwait"} \/ quitflag => quit
          /\ mpc \in {"clear", "unblock", "exit"} => quit
BlockOK == /\ blocked <=> mpc \notin {"block", "exit"}
           /\ tpc # "none" => mpc \notin {"block", "create"}
           /\ end \in {"INT", "QUIT"} => mpc \in {"block", "exit"}
IInv == QuitOK /\ BlockOK /\ blocked \in BOOLEAN /\ quit \in BOOLEAN /\ quitflag \in BOOLEAN
=============================================================================
