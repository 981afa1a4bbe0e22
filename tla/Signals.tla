------------------------------ MODULE Signals ------------------------------
(***************************************************************************)
(* One call under signals that come at any moment: the book's system       *)
(* (src/apue/apue.3e/signals/system.c, "system") and that of 8.13          *)
(* ("system8"), sleep (10.19) and sleep2 (10.10), abort (10.17), and the   *)
(* main of 10.16sigsuspend2.c ("suspend2"); the book's versions of these   *)
(* are the same.  10.17 is read with the book's spelling of sa_handler and *)
(* fflush.  The user's copy of system, 10.18my_system.c, is not modelled:  *)
(* it does not compile (childmask and SIGCHILD in line 24), and line 25    *)
(* calls sigaction with SIG_BLOCK where the book calls sigprocmask; as it  *)
(* stands it would return -1 there, with SIGINT and SIGQUIT still ignored. *)
(*                                                                         *)
(* sigaction and sigprocmask fail only for arguments that are not valid,   *)
(* and those of the calls modelled here are: the returns of -1 after them  *)
(* are not reached.                                                        *)
(*                                                                         *)
(* A pending signal that is not blocked is delivered before the process    *)
(* runs on.  The caller's own handlers "h" print something, and that of    *)
(* SIGCHLD waits for any child.                                            *)
(***************************************************************************)
EXTENDS Naturals, Sequences, FiniteSets

CONSTANT MaxSig   \* bound: signals typed at the terminal

Sig == {"INT", "QUIT", "CHLD", "ALRM", "ABRT"}

VARIABLES call, pc,
          disp, mask, pend,  \* action of each signal; signals blocked; pending
          frames,            \* handlers running, innermost last
          saved,             \* locals: actions and masks to be restored
          entry,             \* actions and mask the call was made with
          timer,             \* "off", "set" or "fired"
          cmd,               \* the command: its state, signals it ignores, blocks
          status,            \* the result; of suspend2, quitflag
          end,               \* "no", or what the process ended by
          marks,             \* "dirty": output not flushed; "cut": a handler was left
                             \* by longjmp; "late": see Late
          left               \* signals still to be typed
vars == <<call, pc, disp, mask, pend, frames, saved, entry, timer, cmd, status, end, marks, left>>

First == [c \in {"system", "system8", "sleep", "sleep2", "abort", "suspend2"} |->
            CASE c = "system" -> "ignoreINT" [] c = "system8" -> "fork" [] c = "abort" -> "query"
              [] c = "suspend2" -> "int" [] OTHER -> "act"]
\* The signals whose actions, and those whose blocking, matter to a call.
Acts(c) == CASE c \in {"system", "system8"} -> {"INT", "QUIT", "CHLD"}
             [] c \in {"sleep", "sleep2"} -> {"INT", "ALRM"}
             [] c = "abort" -> {"INT", "ABRT"}
             [] OTHER -> {}
Blocks(c) == CASE c \in {"system", "system8"} -> {"INT", "CHLD"}
               [] c = "sleep" -> {"INT", "ALRM"} [] c = "abort" -> {"ABRT"} [] OTHER -> {}

Init ==
  /\ call \in DOMAIN First /\ pc = First[call]
  /\ disp \in [Sig -> {"DFL", "IGN", "h"}] /\ disp["CHLD"] # "IGN"
  /\ \A s \in Sig \ Acts(call) : disp[s] = "DFL"
  /\ mask \in SUBSET Blocks(call) /\ pend = {} /\ frames = <<>>
  /\ saved = [disp |-> disp, mask |-> {}, susp |-> {}]
  /\ entry = [disp |-> disp, mask |-> mask]
  /\ timer \in {"off"} \union (IF call = "sleep" THEN {"set"} ELSE {})
  /\ cmd = [st |-> "none", ign |-> {}, mask |-> {}] /\ status = "0" /\ end = "no"
  /\ marks = (IF call = "abort" THEN {"dirty"} ELSE {}) /\ left = MaxSig

-----------------------------------------------------------------------------
(* The process.                                                            *)

Running == end = "no" /\ pend \ mask = {}
At(p, q) == /\ Running /\ frames = <<>> /\ pc = p /\ pc' = q
            /\ UNCHANGED <<call, frames, entry, end, left>>

\* Ignoring a signal discards it if it is pending.
sigaction(s, act) == /\ disp' = [disp EXCEPT ![s] = act]
                     /\ pend' = IF act = "IGN" THEN pend \ {s} ELSE pend

Save(s) == saved' = [saved EXCEPT !.disp[s] = disp[s]]

Ignore(s, p, q) == /\ At(p, q) /\ Save(s) /\ sigaction(s, "IGN")
                   /\ UNCHANGED <<mask, timer, cmd, status, marks>>
Undo(s, p, q) == /\ At(p, q) /\ sigaction(s, saved.disp[s])
                 /\ UNCHANGED <<mask, saved, timer, cmd, status, marks>>
Blocked == [system |-> "CHLD", sleep |-> "ALRM", suspend2 |-> "QUIT"]
Unblocked == [system |-> "fork", sleep |-> "alarm", suspend2 |-> "test"]   \* what follows
\* The mutant that saves the mask and blocks nothing.
BlockNone == /\ At("block", Unblocked[call]) /\ saved' = [saved EXCEPT !.mask = mask]
             /\ UNCHANGED <<disp, mask, pend, timer, cmd, status, marks>>
Block == /\ At("block", Unblocked[call]) /\ saved' = [saved EXCEPT !.mask = mask]
         /\ mask' = mask \union {Blocked[call]}
         /\ UNCHANGED <<disp, pend, timer, cmd, status, marks>>
Unblock == /\ At("unblock", "ret") /\ mask' = saved.mask
           /\ UNCHANGED <<disp, pend, saved, timer, cmd, status, marks>>

\* system, and system8, which is fork and waitpid alone.
Ignoring(d) == {s \in {"INT", "QUIT"} : d[s] = "IGN"}
Waited == IF call = "system" THEN "undoINT" ELSE "ret"
fork ==
  \/ /\ At("fork", "wait") /\ cmd' = [st |-> "born", ign |-> Ignoring(disp), mask |-> mask]
     /\ UNCHANGED <<disp, mask, pend, saved, timer, status, marks>>
  \/ /\ At("fork", Waited) /\ status' = "-1"
     /\ UNCHANGED <<disp, mask, pend, saved, timer, cmd, marks>>
\* A handler that runs meanwhile makes waitpid return EINTR, and it is repeated.
waitpid ==
  /\ At("wait", Waited) /\ cmd.st \in {"dead", "stolen"}
  /\ status' = (IF cmd.st = "dead" THEN "its" ELSE "-1") /\ cmd' = [cmd EXCEPT !.st = "reaped"]
  /\ UNCHANGED <<disp, mask, pend, saved, timer, marks>>
system ==
  \/ Ignore("INT", "ignoreINT", "ignoreQUIT") \/ Ignore("QUIT", "ignoreQUIT", "block")
  \/ fork \/ waitpid
  \/ Undo("INT", "undoINT", "undoQUIT") \/ Undo("QUIT", "undoQUIT", "unblock")

\* The child, up to execl: what the caller catches the command does not.
Exec == /\ cmd.st = "born"
        /\ cmd' = IF call = "system" THEN [st |-> "runs", ign |-> Ignoring(saved.disp), mask |-> saved.mask]
                                     ELSE [cmd EXCEPT !.st = "runs"]
        /\ UNCHANGED <<call, pc, disp, mask, pend, frames, saved, entry, timer, status, end, marks, left>>

\* sleep and sleep2.
Act == /\ At("act", IF call = "sleep" THEN "block" ELSE "alarm")
       /\ Save("ALRM") /\ sigaction("ALRM", IF call = "sleep" THEN "alrm" ELSE "jump")
       /\ UNCHANGED <<mask, timer, cmd, status, marks>>
alarm == /\ At("alarm", IF call = "sleep" THEN "suspend" ELSE "topause") /\ timer' = "set"
         /\ UNCHANGED <<disp, mask, pend, saved, cmd, status, marks>>
sigsuspend ==
  /\ At("suspend", "wait for one") /\ saved' = [saved EXCEPT !.susp = mask]
  /\ mask' = IF call = "sleep" THEN saved.mask \ {"ALRM"} ELSE {}
  /\ UNCHANGED <<disp, pend, timer, cmd, status, marks>>
pause == At("topause", "wait for one") /\ UNCHANGED <<disp, mask, pend, saved, timer, cmd, status, marks>>
\* The mutant that leaves the timer on.
alarm0Kept == /\ At("unalarm", IF call = "sleep" THEN "undoALRM" ELSE "ret") /\ status' = "unslept"
              /\ UNCHANGED <<disp, mask, pend, saved, timer, cmd, marks>>
alarm0 == /\ At("unalarm", IF call = "sleep" THEN "undoALRM" ELSE "ret")
          /\ timer' = (IF timer = "set" THEN "off" ELSE timer)
          /\ status' = (IF timer = "set" THEN "unslept" ELSE "slept")
          /\ UNCHANGED <<disp, mask, pend, saved, cmd, marks>>
sleep == Act \/ alarm \/ pause \/ alarm0 \/ Undo("ALRM", "undoALRM", "unblock")

\* abort.
Query == /\ At("query", "flush")
         /\ IF disp["ABRT"] = "IGN" THEN sigaction("ABRT", "DFL") ELSE UNCHANGED <<disp, pend>>
         /\ UNCHANGED <<mask, saved, timer, cmd, status, marks>>
Flush == /\ At("flush", "fill")
         /\ marks' = IF disp["ABRT"] = "DFL" THEN marks \ {"dirty"} ELSE marks
         /\ UNCHANGED <<disp, mask, pend, saved, timer, cmd, status>>
Fill(p, q) == /\ At(p, q) /\ mask' = Sig \ {"ABRT"}
              /\ UNCHANGED <<disp, pend, saved, timer, cmd, status, marks>>
Kill(p, q) == /\ At(p, q) /\ pend' = pend \union {"ABRT"}
              /\ UNCHANGED <<disp, mask, saved, timer, cmd, status, marks>>
\* The mutant without the second fflush.
CaughtUnflushed == At("caught", "dfl") /\ UNCHANGED <<disp, mask, pend, saved, timer, cmd, status, marks>>
Caught == /\ At("caught", "dfl") /\ marks' = marks \ {"dirty"}
          /\ UNCHANGED <<disp, mask, pend, saved, timer, cmd, status>>
Default == /\ At("dfl", "fill2") /\ sigaction("ABRT", "DFL")
           /\ UNCHANGED <<mask, saved, timer, cmd, status, marks>>
abort == \/ Query \/ Flush \/ Fill("fill", "kill") \/ Kill("kill", "caught")
         \/ Caught \/ Default \/ Fill("fill2", "kill2") \/ Kill("kill2", "exit")

\* The main of sigsuspend2.
Catch(s, p, q) == /\ At(p, q) /\ sigaction(s, "sig_int")
                  /\ UNCHANGED <<mask, saved, timer, cmd, status, marks>>
Test == /\ At("test", IF status = "0" THEN "suspend" ELSE "clear")
        /\ UNCHANGED <<disp, mask, pend, saved, timer, cmd, status, marks>>
Clear == /\ At("clear", "unblock") /\ status' = "0"
         /\ UNCHANGED <<disp, mask, pend, saved, timer, cmd, marks>>
suspend2 == \/ Catch("INT", "int", "quit") \/ Catch("QUIT", "quit", "block")
            \/ Test \/ Clear

\* A handler returns; sigsuspend or pause, if the process was in it, does too.
HandlerEnd ==
  /\ Running /\ frames # <<>>
  /\ LET n == Len(frames)
         woken == n = 1 /\ pc = "wait for one" IN
     /\ frames' = SubSeq(frames, 1, n - 1)
     /\ mask' = IF woken /\ call # "sleep2" THEN saved.susp ELSE frames[n].mask
     /\ pc' = IF woken THEN IF call = "suspend2" THEN "test" ELSE "unalarm" ELSE pc
     /\ marks' = IF disp[frames[n].sig] = "h" THEN marks \union {"dirty"} ELSE marks
  /\ UNCHANGED <<call, disp, pend, saved, entry, timer, cmd, status, end, left>>

Main == system \/ sleep \/ abort \/ suspend2 \/ Block \/ sigsuspend \/ Unblock \/ HandlerEnd

-----------------------------------------------------------------------------
(* The kernel and the terminal.                                            *)

\* A signal that comes when the code no longer waits for it: the timer goes off
\* when another signal, or an alarm of the caller's, has ended the wait of
\* sleep, and is pending when the caller's action is back; a handler prints
\* after abort has flushed.
Late(s) == \/ s = "ALRM" /\ call = "sleep" /\ pc \in {"wait for one", "unalarm"} /\ s \in mask
           \/ s # "ALRM" /\ call = "abort" /\ pc = "fill"

Send(s) == /\ pend' = IF disp[s] = "IGN" THEN pend ELSE pend \union {s}
           /\ marks' = IF Late(s) THEN marks \union {"late"} ELSE marks

\* The interrupt or quit key.
Type(s) == /\ end = "no" /\ left > 0 /\ left' = left - 1 /\ Send(s)
           /\ UNCHANGED <<call, pc, disp, mask, frames, saved, entry, timer, cmd, status, end>>

Fire == /\ end = "no" /\ timer = "set" /\ timer' = "fired" /\ Send("ALRM")
        /\ UNCHANGED <<call, pc, disp, mask, frames, saved, entry, cmd, status, end, left>>

\* The command ends, by itself or by a signal.
Ends == /\ end = "no" /\ cmd.st = "runs" /\ cmd' = [cmd EXCEPT !.st = "dead"] /\ Send("CHLD")
        /\ UNCHANGED <<call, pc, disp, mask, frames, saved, entry, timer, status, end, left>>

\* longjmp leaves every handler, with the mask of this one.
Deliver(s) ==
  /\ end = "no" /\ s \in pend \ mask /\ pend' = pend \ {s}
  /\ CASE disp[s] = "DFL"  -> /\ end' = (IF s = "CHLD" THEN end ELSE s)
                              /\ UNCHANGED <<pc, mask, frames, cmd, status, marks>>
       [] disp[s] = "jump" -> /\ pc' = "unalarm" /\ frames' = <<>> /\ mask' = mask \union {s}
                              /\ marks' = IF frames = <<>> THEN marks ELSE marks \union {"cut"}
                              /\ UNCHANGED <<cmd, status, end>>
       [] OTHER            -> /\ frames' = Append(frames, [sig |-> s, mask |-> mask])
                              /\ mask' = mask \union {s}
                              /\ cmd' = IF s = "CHLD" /\ cmd.st = "dead" THEN [cmd EXCEPT !.st = "stolen"] ELSE cmd
                              /\ status' = IF disp[s] = "sig_int" /\ s = "QUIT" THEN "quit" ELSE status
                              /\ UNCHANGED <<pc, end, marks>>
  /\ UNCHANGED <<call, disp, saved, entry, timer, left>>

Kernel == Fire \/ Ends \/ Exec \/ \E s \in Sig : Deliver(s)
Next == Main \/ Kernel \/ \E s \in {"INT", "QUIT"} : Type(s)

\* Time passes, the command ends, and the process and its signals get on.
Spec == /\ Init /\ [][Next]_vars
        /\ WF_vars(Main) /\ WF_vars(Fire) /\ WF_vars(Exec) /\ WF_vars(Ends)
        /\ WF_vars(\E s \in Sig : Deliver(s))

-----------------------------------------------------------------------------
\* Keys typed for the command of system neither end its caller nor run its
\* handlers, a handler of SIGCHLD does not take the command's status away, the
\* command is run with the caller's actions and mask, and both are back at the
\* end, whichever signals came (signals/system.c).
SystemRight ==
  /\ call = "system" /\ cmd.st \in {"born", "runs", "dead", "stolen"} =>
       /\ end \notin {"INT", "QUIT"}
       /\ \A i \in 1..Len(frames) : frames[i].sig \notin {"INT", "QUIT"}
  /\ call = "system" /\ pc = "ret" /\ frames = <<>> =>
       /\ disp = entry.disp /\ mask = entry.mask
       /\ status = "-1" => cmd.st = "none"
  /\ cmd.st = "runs" => cmd.ign = Ignoring(entry.disp) /\ cmd.mask = entry.mask

\* sleep gives action and mask back, leaves no timer behind that would end its
\* caller later, and is not itself ended by its timer (10.19), except for a
\* timer that goes off after another signal; only sleep2 (10.10) leaves other
\* handlers.
SleepRight ==
  /\ call \in {"sleep", "sleep2"} /\ pc = "ret" => timer # "set"
  /\ call = "sleep" /\ pc = "ret" /\ frames = <<>> => disp = entry.disp /\ mask = entry.mask
  /\ end = "ALRM" => pc = "act" \/ "late" \in marks
  /\ "cut" \in marks => call = "sleep2"

\* abort ends the process by SIGABRT though it is blocked, ignored or caught
\* (exit should "never be executed"), and with its output flushed unless a handler
\* printed after the flush (10.17).
AbortRight ==
  /\ pc = "exit" => end = "ABRT" \/ "ABRT" \in pend \ mask
  /\ end = "ABRT" => "dirty" \notin marks \/ "late" \in marks

\* Every call returns or ends the process; the main of sigsuspend2 does after
\* the quit key.
Over == end # "no" \/ pc = "ret"
Waits == call = "suspend2"   \* for the key
Quitting == "QUIT" \in pend
Returns == (Quitting \/ ~ Waits) ~> Over

-----------------------------------------------------------------------------
(* The inductive invariant the proofs of the three properties rest on: a   *)
(* part that holds of every call, and one for each call.                   *)

Frame == [sig : Sig, mask : SUBSET Sig]
TypeOK == /\ call \in {"system", "system8", "sleep", "sleep2", "abort", "suspend2"}
          /\ disp = [s \in Sig |-> disp[s]] /\ mask \subseteq Sig /\ pend \subseteq Sig
          /\ frames \in Seq(Frame)
          /\ saved = [disp |-> saved.disp, mask |-> saved.mask, susp |-> saved.susp]
          /\ saved.mask \subseteq Sig /\ saved.susp \subseteq Sig /\ saved.disp = entry.disp
          /\ entry.disp \in [Sig -> {"DFL", "IGN", "h"}] /\ entry.mask \subseteq Sig
          /\ cmd = [st |-> cmd.st, ign |-> cmd.ign, mask |-> cmd.mask]

\* The mask of the call itself, below the handlers that run; a signal blocked
\* in all of them; one that is nowhere.
Base == IF frames = <<>> THEN mask ELSE frames[1].mask
AllBlock(s) == s \in mask /\ \A i \in 1..Len(frames) : s \in frames[i].mask
Absent(s) == s \notin pend /\ end # s /\ \A i \in 1..Len(frames) : frames[i].sig # s

\* What a call has nothing to do with does not happen in it.
OnlyOwn == /\ call \notin {"sleep", "sleep2"} => timer = "off" /\ "ALRM" \notin pend /\ end # "ALRM"
           /\ call # "abort" => "ABRT" \notin pend /\ end # "ABRT"
           /\ call \notin {"system", "system8"} => cmd.st = "none"
           /\ call # "sleep2" => "cut" \notin marks /\ \A s \in Sig : disp[s] # "jump"

SystemOK ==
  /\ pc \in {"ignoreINT", "ignoreQUIT", "block", "fork", "wait", "undoINT", "undoQUIT", "unblock", "ret"}
  /\ disp["INT"] = IF pc \in {"ignoreQUIT", "block", "fork", "wait", "undoINT"}
                   THEN "IGN" ELSE entry.disp["INT"]
  /\ disp["QUIT"] = IF pc \in {"block", "fork", "wait", "undoINT", "undoQUIT"}
                    THEN "IGN" ELSE entry.disp["QUIT"]
  /\ \A s \in Sig \ {"INT", "QUIT"} : disp[s] = entry.disp[s]
  /\ pc \in {"ignoreQUIT", "block", "fork", "wait"} => Absent("INT")
  /\ pc \in {"block", "fork", "wait"} => Absent("QUIT")
  /\ pc \in {"ignoreINT", "ignoreQUIT", "block", "ret"} => Base = entry.mask
  /\ pc \in {"fork", "wait", "undoINT", "undoQUIT", "unblock"} =>
       saved.mask = entry.mask /\ AllBlock("CHLD")
  /\ pc \in {"ignoreINT", "ignoreQUIT", "block", "fork"} => cmd.st = "none" /\ status = "0"
  /\ pc = "wait" => cmd.st \in {"born", "runs", "dead"} /\ status = "0"
  /\ pc \in {"undoINT", "undoQUIT", "unblock", "ret"} =>
       \/ cmd.st = "none" /\ status = "-1"
       \/ cmd.st = "reaped" /\ status = "its"
  /\ cmd.st = "runs" => cmd.ign = Ignoring(entry.disp) /\ cmd.mask = entry.mask

System8OK ==
  /\ pc \in {"fork", "wait", "ret"} /\ Base = entry.mask
  /\ \A s \in Sig : disp[s] = entry.disp[s]
  /\ cmd.st \in {"born", "runs"} => cmd.ign = Ignoring(entry.disp) /\ cmd.mask = entry.mask

SleepOK ==
  /\ pc \in {"act", "block", "alarm", "suspend", "wait for one", "unalarm", "undoALRM", "unblock", "ret"}
  /\ disp["ALRM"] = IF pc \in {"act", "unblock", "ret"} THEN entry.disp["ALRM"] ELSE "alrm"
  /\ \A s \in Sig \ {"ALRM"} : disp[s] = entry.disp[s]
  /\ pc \in {"act", "block", "ret"} => Base = entry.mask
  /\ pc \in {"alarm", "suspend", "unalarm", "undoALRM", "unblock"} => AllBlock("ALRM")
  /\ pc \in {"alarm", "suspend"} => Base = entry.mask \union {"ALRM"}
  /\ pc \notin {"act", "block"} => saved.mask = entry.mask
  /\ pc = "wait for one" => saved.susp = entry.mask \union {"ALRM"}
  /\ pc = "wait for one" /\ "ALRM" \in pend => "ALRM" \notin mask \/ "late" \in marks
  /\ pc \in {"unalarm", "undoALRM", "unblock", "ret"} /\ "ALRM" \in pend => "late" \in marks
  /\ pc \in {"undoALRM", "unblock", "ret"} => timer # "set"
  /\ end = "ALRM" => pc = "act" \/ "late" \in marks

Sleep2OK ==
  /\ pc \in {"act", "alarm", "topause", "wait for one", "unalarm", "ret"}
  /\ disp["ALRM"] = IF pc = "act" THEN entry.disp["ALRM"] ELSE "jump"
  /\ \A s \in Sig \ {"ALRM"} : disp[s] = entry.disp[s]
  /\ pc = "ret" => timer # "set"
  /\ end = "ALRM" => pc = "act"

Clean == "dirty" \notin marks \/ "late" \in marks
AbortOK ==
  /\ pc \in {"query", "flush", "fill", "kill", "caught", "dfl", "fill2", "kill2", "exit"}
  /\ pc \notin {"caught", "exit"} => "ABRT" \notin pend
  /\ end = "ABRT" => pc \in {"caught", "exit"} /\ Clean
  /\ pc \in {"query", "flush"} => \A s \in Sig \ {"ABRT"} : s \notin Base
  /\ pc = "fill" => (frames = <<>> /\ pend = {}) \/ "late" \in marks
  /\ pc \in {"fill", "kill", "caught"} /\ disp["ABRT"] = "DFL" => Clean
  /\ pc \in {"dfl", "fill2", "kill2", "exit"} => Clean
  /\ pc \in {"kill", "dfl", "fill2", "kill2", "exit"} => frames = <<>> /\ mask = Sig \ {"ABRT"}
  /\ pc = "caught" => \/ frames = <<>> /\ mask = Sig \ {"ABRT"}
                      \/ /\ Len(frames) = 1 /\ frames[1].mask = Sig \ {"ABRT"} /\ mask = Sig
                         /\ disp["ABRT"] # "DFL" /\ "ABRT" \notin pend
  /\ pc \in {"fill2", "kill2", "exit"} => disp["ABRT"] = "DFL"
  /\ pc = "exit" => "ABRT" \in pend \/ end = "ABRT"

Suspend2OK == pc \in {"int", "quit", "block", "test", "suspend", "wait for one", "clear", "unblock", "ret"}

IInv == /\ TypeOK /\ OnlyOwn
        /\ call = "system" => SystemOK
        /\ call = "system8" => System8OK
        /\ call = "sleep" => SleepOK
        /\ call = "sleep2" => Sleep2OK
        /\ call = "abort" => AbortOK
        /\ call = "suspend2" => Suspend2OK
=============================================================================
