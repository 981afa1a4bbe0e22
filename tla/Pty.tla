--------------------------------- MODULE Pty ---------------------------------
(***************************************************************************)
(* The program pty (src/apue/19.3 to 19.6, and the same in apue.3e/pty and *)
(* apue.3e/lib): it runs a command on a pseudo terminal.  main puts the    *)
(* user's terminal in raw mode and leaves its restoration to atexit,       *)
(* starts a driver if there is one, and loop forks: the child copies       *)
(* standard input to the master, the parent the master to standard output. *)
(* At the end of its input the child sends SIGTERM to the parent; at the   *)
(* end of the output the parent sends it to the child.                     *)
(*                                                                         *)
(* External: the pseudo terminal.  A read of the master waits while the    *)
(* slave has not been opened or is open and silent, gives what was written *)
(* even after the slave was closed, and then fails.  Nobody else sends     *)
(* SIGTERM to these processes.                                             *)
(***************************************************************************)
EXTENDS Naturals

CONSTANT MaxOut     \* bound: buffers the command writes

VARIABLES opt,       \* options: interactive, ignoreeof, driver
          tty,       \* the user's terminal: "cooked" or "raw"
          hook,      \* tty_atexit is registered
          main, child, cmd, drv,  \* the processes
          eof,       \* standard input is at its end
          left, out, \* buffers the command will write; those in the pty
          sigcaught
vars == <<opt, tty, hook, main, child, cmd, drv, eof, left, out, sigcaught>>

Init == /\ opt \in [interactive : BOOLEAN, ignoreeof : BOOLEAN, driver : BOOLEAN]
        /\ tty = "cooked" /\ hook = FALSE /\ main = "open" /\ child = "none"
        /\ cmd = "none" /\ drv = "none" /\ eof = FALSE
        /\ left = MaxOut /\ out = 0 /\ sigcaught = FALSE

-----------------------------------------------------------------------------
\* exit and err_sys run the registered function; a death by a signal does not.
exit == tty' = IF hook THEN "cooked" ELSE tty

\* ptym_open and fork in pty_fork; every failure ends the program.
pty_fork ==
  /\ main = "open"
  /\ \/ main' = "end" /\ UNCHANGED cmd
     \/ main' = (IF opt.interactive /\ ~ opt.driver THEN "raw" ELSE "driver") /\ cmd' = "setup"
  /\ UNCHANGED <<opt, tty, hook, child, drv, eof, left, out, sigcaught>>

\* The command's process: setsid and ptys_open may fail before the slave is
\* open ("lost": the master's reader waits for ever); what follows, set_noecho
\* and exec included, may fail with the slave open.
ptys_open ==
  /\ cmd = "setup" /\ cmd' \in {"run", "lost"}
  /\ UNCHANGED <<opt, tty, hook, main, child, drv, eof, left, out, sigcaught>>
Command ==
  /\ cmd = "run"
  /\ \/ left > 0 /\ left' = left - 1 /\ out' = out + 1 /\ UNCHANGED cmd
     \/ cmd' = "end" /\ UNCHANGED <<left, out>>
  /\ UNCHANGED <<opt, tty, hook, main, child, drv, eof, sigcaught>>

\* tty_raw, then atexit, which may fail with the terminal already raw.
tty_raw ==
  /\ main = "raw"
  /\ \/ main' = "end" /\ UNCHANGED <<tty, hook>>
     \/ tty' = "raw" /\ main' \in {"fork", "end"} /\ hook' = (main' = "fork")
  /\ UNCHANGED <<opt, child, cmd, drv, eof, left, out, sigcaught>>

do_driver ==
  /\ main = "driver"
  /\ \/ opt.driver /\ drv' = "run" /\ main' = "fork"
     \/ opt.driver /\ main' = "end" /\ UNCHANGED drv
     \/ ~ opt.driver /\ main' = "fork" /\ UNCHANGED drv
  /\ UNCHANGED <<opt, tty, hook, child, cmd, eof, left, out, sigcaught>>

\* The driver, whose end of the stream pipe is our standard input and output.
Driver ==
  /\ drv = "run" /\ drv' = "gone" /\ eof' = TRUE
  /\ UNCHANGED <<opt, tty, hook, main, child, cmd, left, out, sigcaught>>

Hangup ==
  /\ ~ opt.driver /\ ~ eof /\ eof' = TRUE
  /\ UNCHANGED <<opt, tty, hook, main, child, cmd, drv, left, out, sigcaught>>

-----------------------------------------------------------------------------
(* loop: the child.                                                        *)

fork ==
  /\ main = "fork"
  /\ \/ main' = "signal" /\ child' = "read" /\ UNCHANGED tty
     \/ main' = "end" /\ exit /\ UNCHANGED child
  /\ UNCHANGED <<opt, hook, cmd, drv, eof, left, out, sigcaught>>

\* A read or a writen that fails is an err_sys; end of file leads to the kill.
CopyIn ==
  /\ child = "read"
  /\ \/ child' = "end" /\ exit
     \/ eof /\ child' = (IF opt.ignoreeof THEN "exit" ELSE "kill") /\ UNCHANGED tty
  /\ UNCHANGED <<opt, hook, main, cmd, drv, eof, left, out, sigcaught>>

\* SIGTERM for the parent: without the handler it dies, in read the handler
\* interrupts it, elsewhere only the flag is set.
Term ==
  /\ main' = CASE main = "signal" -> "dead" [] main = "read" -> "after" [] OTHER -> main
  /\ sigcaught' = (main \notin {"signal", "dead", "end"} \/ sigcaught)
KillParent ==
  /\ child = "kill" /\ child' = "exit" /\ Term
  /\ UNCHANGED <<opt, tty, hook, cmd, drv, eof, left, out>>

\* As if the child left with _exit, to spare the parent's hooks.
ChildExitRaw ==
  /\ child = "exit" /\ child' = "end"
  /\ UNCHANGED <<opt, tty, hook, main, cmd, drv, eof, left, out, sigcaught>>
ChildExit ==
  /\ child = "exit" /\ child' = "end" /\ exit
  /\ UNCHANGED <<opt, hook, main, cmd, drv, eof, left, out, sigcaught>>

-----------------------------------------------------------------------------
(* loop: the parent.                                                       *)

signal_intr ==
  /\ main = "signal" /\ main' = "read"
  /\ UNCHANGED <<opt, tty, hook, child, cmd, drv, eof, left, out, sigcaught>>

\* As if a pty whose slave is closed had nothing more to read.
ReadMasterClosed ==
  /\ main = "read"
  /\ \/ cmd # "end" /\ out > 0 /\ out' = out - 1 /\ main' = "write"
     \/ cmd = "end" /\ main' = "after" /\ UNCHANGED out
  /\ UNCHANGED <<opt, tty, hook, child, cmd, drv, eof, left, sigcaught>>
ReadMaster ==
  /\ main = "read"
  /\ \/ out > 0 /\ out' = out - 1 /\ main' = "write"
     \/ out = 0 /\ cmd = "end" /\ main' = "after" /\ UNCHANGED out
  /\ UNCHANGED <<opt, tty, hook, child, cmd, drv, eof, left, sigcaught>>

\* The driver gone, the write ends the program with SIGPIPE.
WriteOut ==
  /\ main = "write"
  /\ IF drv = "gone" THEN main' = "dead" /\ UNCHANGED tty
     ELSE \/ main' = "read" /\ UNCHANGED tty
          \/ main' = "end" /\ exit
  /\ UNCHANGED <<opt, hook, child, cmd, drv, eof, left, out, sigcaught>>

\* As if the child were told only when it had been the one to speak.
KillChildSwapped ==
  /\ main = "after" /\ main' = "return"
  /\ child' = IF sigcaught THEN "end" ELSE child
  /\ UNCHANGED <<opt, tty, hook, cmd, drv, eof, left, out, sigcaught>>
KillChild ==
  /\ main = "after" /\ main' = "return"
  /\ child' = IF sigcaught THEN child ELSE "end"
  /\ UNCHANGED <<opt, tty, hook, cmd, drv, eof, left, out, sigcaught>>
Return ==
  /\ main = "return" /\ main' = "end" /\ exit
  /\ UNCHANGED <<opt, hook, child, cmd, drv, eof, left, out, sigcaught>>

MainStep == \/ pty_fork \/ tty_raw \/ do_driver \/ fork
            \/ signal_intr \/ ReadMaster \/ WriteOut \/ KillChild \/ Return
ChildStep == CopyIn \/ KillParent \/ ChildExit
CmdStep == ptys_open \/ Command

Gone == main \in {"end", "dead"}
\* Over, or waiting for ever on a pty whose slave was never opened.
Finished == /\ Gone \/ (main = "read" /\ cmd = "lost")
            /\ child \in {"none", "end"} /\ UNCHANGED vars
Next == MainStep \/ ChildStep \/ CmdStep \/ Driver \/ Hangup \/ Finished
\* The scheduler runs the processes; a command that was started ends.  Nothing
\* makes standard input end or the driver leave.
Fairness == WF_vars(MainStep) /\ WF_vars(KillParent) /\ WF_vars(ChildExit) /\ WF_vars(CmdStep)
Spec == Init /\ [][Next]_vars /\ Fairness

-----------------------------------------------------------------------------
\* Whichever of the two copying processes ends first, and though a SIGTERM
\* that overtakes signal_intr kills the parent without its exit handlers, the
\* user's terminal is out of raw mode when both are gone.
TtyRestored == Gone /\ child \in {"none", "end"} /\ hook => tty = "cooked"

\* What the command wrote before it ended is shown before the parent leaves
\* its loop of its own accord.
OutputShown == main \in {"after", "return"} /\ ~ sigcaught => out = 0

\* A parent that leaves its loop leaves no child behind it, and it does leave
\* once the command has run to its end.
Left == main = "return"
ChildGone == child = "end"
CommandOver == cmd = "end"
LoopEnds == (Left ~> ChildGone) /\ (CommandOver ~> Gone)
-----------------------------------------------------------------------------
(* The inductive invariant the proofs of TtyRestored and OutputShown rest  *)
(* on.                                                                     *)

\* The hook is registered with the terminal raw and no driver; from then on the
\* terminal is raw only while a process is left that will run the hook.
HookOK == /\ main = "raw" \/ hook => ~ opt.driver
          /\ hook => main \notin {"open", "raw"}
          /\ drv # "none" => opt.driver
          /\ hook /\ main = "end" => tty = "cooked"
          /\ hook /\ main = "dead" => child = "exit" \/ tty = "cooked"
\* The loop ends of its own accord only when no more can be written.
DrainOK == main \in {"after", "return"} /\ ~ sigcaught => out = 0 /\ cmd = "end"
IInv == HookOK /\ DrainOK /\ hook \in BOOLEAN /\ sigcaught \in BOOLEAN
=============================================================================
