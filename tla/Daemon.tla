------------------------------- MODULE Daemon -------------------------------
(***************************************************************************)
(* Daemons of chapter 13: daemonize (13.3), already_running (13.5) and the *)
(* two ways to re-read a configuration on SIGHUP (13.6.1, 13.6.2), as      *)
(* copies of one daemon started at about the same time.  The copies in     *)
(* Book use single.c of src/apue/apue.3e/daemons for already_running.      *)
(* Chapter 13's mains end where the work of a daemon would begin; here it  *)
(* goes on until a signal ends it or it returns.                           *)
(***************************************************************************)
EXTENDS Integers, FiniteSets

CONSTANTS Copy, Book,   \* daemons started; those of the book
          Threaded,     \* those that handle signals in a thread
          MaxSig,       \* bound: signals sent
          FdLimit       \* rlim_max, or 1024 for RLIM_INFINITY

VARIABLES pc,           \* of each copy
          fds,          \* descriptors: inherited from the shell, "null" or "lock"
          leader, tty,  \* copies that lead a session; that have a terminal
          locker, file, \* who holds the record lock; whose pid LOCKFILE shows
          careless,     \* copies that went on after lockfile failed
          hup, term,    \* signals pending
          sigs, owed    \* signals sent; copies that have still to re-read
vars == <<pc, fds, leader, tty, locker, file, careless, hup, term, sigs, owed>>

None == "none"
Fd == 0..(FdLimit + 1)
Start(c) == pc[c] = "start"

Init == /\ pc = [c \in Copy |-> "start"] /\ leader = {} /\ tty = Copy
        /\ fds \in [Copy -> {[n \in S |-> "shell"] : S \in {{}, {0, 1, 2}, {0, 2, FdLimit}, {1, FdLimit - 1}}}]
        /\ locker = None /\ file = None /\ careless = {}
        /\ hup = {} /\ term = {} /\ sigs = 0 /\ owed = {}

Go(c, l) == pc' = [pc EXCEPT ![c] = l]
Files == <<locker, file, careless>>
Signals == <<hup, term, sigs, owed>>

\* The process is gone, and with it its record lock and what it was sent.
exit(c) == /\ Go(c, "gone") /\ locker' = IF locker = c THEN None ELSE locker
           /\ hup' = hup \ {c} /\ term' = term \ {c} /\ owed' = owed \ {c}

-----------------------------------------------------------------------------
\* Each fork leaves the child; setsid makes it a leader without a terminal, the
\* second fork a process that is no leader.
daemonize(c) ==
  \/ /\ pc[c] = "start" /\ Go(c, "session") /\ leader' = leader \cup {c} /\ tty' = tty \ {c}
     /\ UNCHANGED <<fds, Files, Signals>>
  \/ /\ pc[c] = "session" /\ Go(c, "fork") /\ UNCHANGED <<fds, leader, tty, Files, Signals>>
  \/ /\ pc[c] = "fork" /\ Go(c, "close") /\ leader' = leader \ {c}
     /\ UNCHANGED <<fds, tty, Files, Signals>>

\* The lowest descriptor that is not in use.
Lowest(f) == CHOOSE n \in Fd : n \notin DOMAIN f /\ \A k \in 0..(n - 1) : k \in DOMAIN f
Opened(f, what) == [n \in DOMAIN f \cup {Lowest(f)} |-> IF n \in DOMAIN f THEN f[n] ELSE what]

\* The mutant that keeps the first three.
CloseAllButStd(c) ==
  /\ pc[c] = "close" /\ Go(c, "open")
  /\ fds' = [fds EXCEPT ![c] = [n \in DOMAIN @ \cap 0..2 |-> @[n]]]
  /\ UNCHANGED <<leader, tty, Files, Signals>>

\* Descriptors below the limit are closed; then 0, 1 and 2 are /dev/null, or
\* the daemon gives up.
CloseAll(c) ==
  LET left == [n \in {k \in DOMAIN fds[c] : k >= FdLimit} |-> "shell"]
      null == Opened(Opened(Opened(left, "null"), "null"), "null")
  IN /\ pc[c] = "close"
     /\ fds' = [fds EXCEPT ![c] = null]
     /\ IF \A n \in 0..2 : n \in DOMAIN null /\ null[n] = "null"
        THEN Go(c, "open") /\ UNCHANGED <<leader, tty, Files, Signals>>
        ELSE exit(c) /\ UNCHANGED <<leader, tty, file, careless, sigs>>

\* The mutant that locks nothing.
LockNone(c) ==
  /\ pc[c] = "open" /\ Go(c, "truncate")
  /\ fds' = [fds EXCEPT ![c] = Opened(@, "lock")]
  /\ UNCHANGED <<leader, tty, Files, Signals>>

\* open and lockfile: another copy has it, or there is an error of another
\* kind, which the book reports and 13.5 takes for success.
Lock(c) ==
  /\ pc[c] = "open" /\ fds' = [fds EXCEPT ![c] = Opened(@, "lock")]
  /\ \/ /\ locker = None /\ locker' = c /\ Go(c, "truncate")
        /\ UNCHANGED <<careless, Signals>>
     \/ /\ locker # None /\ exit(c) /\ UNCHANGED <<careless, sigs>>
     \/ IF c \in Book THEN exit(c) /\ UNCHANGED <<careless, sigs>>
        ELSE careless' = careless \cup {c} /\ Go(c, "truncate") /\ UNCHANGED <<locker, Signals>>
  /\ UNCHANGED <<leader, tty, file>>

already_running(c) ==
  \/ Lock(c)
  \/ /\ pc[c] = "truncate" /\ Go(c, "write") /\ file' = None
     /\ UNCHANGED <<fds, leader, tty, locker, careless, Signals>>
  \/ /\ pc[c] = "write" /\ file' = c
     /\ Go(c, IF c \in Threaded THEN "default" ELSE "sigterm")
     /\ UNCHANGED <<fds, leader, tty, locker, careless, Signals>>

\* With a thread: SIGHUP back to its default, all blocked, the thread started.
Thread(c) ==
  /\ \/ pc[c] = "default" /\ Go(c, "block")
     \/ pc[c] = "block" /\ Go(c, "run")
  /\ UNCHANGED <<fds, leader, tty, Files, Signals>>

\* With handlers: SIGTERM first; SIGHUP is still ignored.
Handlers(c) ==
  /\ \/ pc[c] = "sigterm" /\ Go(c, "sighup")
     \/ pc[c] = "sighup" /\ Go(c, "run")
  /\ UNCHANGED <<fds, leader, tty, Files, Signals>>

\* sigwait returns one pending signal, or its handler is called.
reread(c) ==
  /\ pc[c] = "run" /\ c \in hup /\ hup' = hup \ {c} /\ owed' = owed \ {c}
  /\ UNCHANGED <<pc, fds, leader, tty, Files, term, sigs>>
sigterm(c) ==
  /\ pc[c] = "run" /\ c \in term /\ exit(c)
  /\ UNCHANGED <<fds, leader, tty, file, careless, sigs>>

\* The work is done.
Finish(c) == /\ pc[c] = "run" /\ exit(c)
             /\ UNCHANGED <<fds, leader, tty, file, careless, sigs>>

-----------------------------------------------------------------------------
\* What a signal does where it is neither handled nor blocked.
Send(c) ==
  /\ pc[c] # "gone" /\ sigs < MaxSig /\ sigs' = sigs + 1
  /\ \/ \* SIGHUP: the default ends the process before daemonize ignores it and,
        \* with a thread, for a moment again
        \/ /\ pc[c] \in {"start", "session", "block"} /\ exit(c) /\ UNCHANGED <<file, careless>>
        \/ /\ pc[c] = "run" /\ hup' = hup \cup {c} /\ owed' = owed \cup {c}
           /\ UNCHANGED <<pc, term, Files>>
        \/ /\ pc[c] \notin {"start", "session", "block", "run"} /\ UNCHANGED <<pc, hup, term, owed, Files>>
     \/ \* SIGTERM
        \/ /\ pc[c] = "run" /\ term' = term \cup {c} /\ UNCHANGED <<pc, hup, owed, Files>>
        \/ /\ pc[c] # "run" /\ exit(c) /\ UNCHANGED <<file, careless>>
  /\ UNCHANGED <<fds, leader, tty>>

Main(c) == daemonize(c) \/ CloseAll(c) \/ already_running(c) \/ Thread(c) \/ Handlers(c)
Serve(c) == reread(c) \/ sigterm(c)
Rest == (\A c \in Copy : pc[c] = "gone") /\ UNCHANGED vars
Next == (\E c \in Copy : Main(c) \/ Serve(c) \/ Finish(c) \/ Send(c)) \/ Rest
Spec == Init /\ [][Next]_vars /\ \A c \in Copy : WF_vars(Main(c)) /\ WF_vars(reread(c)) /\ WF_vars(sigterm(c))

-----------------------------------------------------------------------------
Running(c) == pc[c] \in {"truncate", "write", "default", "block", "sigterm", "sighup", "run"}

\* Of the copies that did not ignore a failing lockfile one at most is past
\* already_running, and unless there was a careless one LOCKFILE shows its pid.
OneDaemon ==
  /\ \A c, d \in Copy \ careless : Running(c) /\ Running(d) => c = d
  /\ careless = {} => \A c \in Copy : pc[c] = "run" => file = c

\* A running daemon has no terminal, leads no session, and 0, 1, 2 are /dev/null.
Detached ==
  \A c \in Copy : pc[c] = "run" =>
    /\ c \notin tty \cup leader
    /\ \A n \in DOMAIN fds[c] : n < FdLimit => fds[c][n] # "shell"
    /\ \A n \in 0..2 : fds[c][n] = "null"

\* A daemon told to re-read its configuration does, or ends.
Owes(c) == c \in owed
Rereads == \A c \in Copy : Owes(c) ~> ~ Owes(c)

-----------------------------------------------------------------------------
(* The inductive invariant the proofs of OneDaemon and Detached rest on.   *)

TypeOK == pc = [c \in Copy |-> pc[c]] /\ fds = [c \in Copy |-> fds[c]] /\ careless \subseteq Copy

\* The lock is held by whoever got past lockfile, and LOCKFILE is its own.
LockOK(c) == /\ Running(c) /\ c \notin careless => locker = c
             /\ Running(c) /\ careless = {} /\ pc[c] \notin {"truncate", "write"} => file = c

\* What daemonize has achieved so far.
DetachOK(c) ==
  /\ pc[c] \in {"start", "session", "fork", "close"} => DOMAIN fds[c] \subseteq Int
  /\ pc[c] \in {"session", "fork", "close", "open"} \/ Running(c) => c \notin tty
  /\ pc[c] \in {"close", "open"} \/ Running(c) => c \notin leader
  /\ pc[c] = "open" \/ Running(c) =>
       /\ \A n \in DOMAIN fds[c] : fds[c][n] = "shell" => n \in Int /\ n >= FdLimit
       /\ \A n \in 0..2 : n \in DOMAIN fds[c] /\ fds[c][n] = "null"

IInv == TypeOK /\ \A c \in Copy : LockOK(c) /\ DetachOK(c)
=============================================================================
