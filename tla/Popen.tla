-------------------------------- MODULE Popen --------------------------------
(***************************************************************************)
(* popen and pclose, src/apue/15.3popen_and_pclose.c and the book's        *)
(* lib/popen.c: one process opens commands to read from or to write to, in *)
(* any order, each over a pipe, and closes them in any order.  The table   *)
(* childpid has maxfd entries, the limit on descriptors at the first call; *)
(* the limit may have been raised since.  The two versions differ at the   *)
(* table's end: 15.3 admits a second descriptor and a stream equal to      *)
(* maxfd, so it may write or read one entry past the end.  What follows is *)
(* undefined and the model stops there.                                    *)
(*                                                                         *)
(* A pipe end is <<"r" or "w", n>>, n the pipe's number; a process is the  *)
(* set of the ends it holds.  The parent's descriptors are a function, as  *)
(* the table is indexed by them.                                           *)
(***************************************************************************)
EXTENDS Naturals, FiniteSets, Functions, FiniteSetsExt

CONSTANTS maxfd,    \* entries of childpid, 0..maxfd-1
          Limit,    \* descriptors the process may have now: 0..Limit-1
          MaxOpen   \* bound: calls of popen

VARIABLES book,     \* the book's version
          fdt,      \* the parent's descriptors: number -> pipe end
          childpid, \* number -> command, for the entries not 0
          lost,     \* commands whose entry was never made
          unwaited, \* commands whose pclose gave up at fclose
          overrun,  \* childpid[maxfd] was written or read
          held,     \* command -> ends its process still holds
          state,    \* command -> "run", "zombie" or "reaped"
          wait,     \* the command pclose waits for, 0 if none
          n         \* calls of popen so far
vars == <<book, fdt, childpid, lost, unwaited, overrun, held, state, wait, n>>

Init == /\ book \in BOOLEAN /\ unwaited = {} /\ overrun = FALSE
        /\ fdt = <<>> /\ childpid = <<>> /\ lost = {} /\ held = <<>>
        /\ state = <<>> /\ wait = 0 /\ n = 0

Fds == 0..Limit - 1
Free == Fds \ DOMAIN fdt
With(f, x, y) == [z \in DOMAIN f \cup {x} |-> IF z = x THEN y ELSE f[z]]
\* The two descriptors of a new pipe, lowest first.
pfd0 == Min(Free)
pfd1 == Min(Free \ {pfd0})

-----------------------------------------------------------------------------
\* 15.3popen_and_pclose.c compares the second descriptor with >, the book's with >=.
TooHighUser == pfd0 >= maxfd \/ pfd1 > maxfd
TooHighBook == pfd0 >= maxfd \/ pfd1 >= maxfd
TooHigh == IF book THEN TooHighBook ELSE TooHighUser

\* What the new process holds once it has closed the parent's end of its pipe
\* and every descriptor in childpid: its own end and what is not in the table.
ChildHoldsAll(kept) == {kept} \cup Range(fdt)
ChildHolds(kept) == {kept} \cup {fdt[fd] : fd \in DOMAIN fdt \ DOMAIN childpid}

\* popen by type: pipe and the table's limit, fork, exec in the child, fdopen
\* in the parent.  A failed fork leaves both descriptors open, a failed fdopen
\* the parent's, without an entry.
popen(type) ==
  /\ wait = 0 /\ ~ overrun /\ n < MaxOpen /\ n' = n + 1
  /\ LET own   == IF type = "r" THEN pfd0 ELSE pfd1
         mine  == <<IF type = "r" THEN "r" ELSE "w", n'>>
         kept  == <<IF type = "r" THEN "w" ELSE "r", n'>>
         fds   == With(fdt, own, mine)
     IN \/ Cardinality(Free) < 2 /\ UNCHANGED <<fdt, childpid, lost, overrun, held, state>>
        \/ /\ Cardinality(Free) >= 2 /\ TooHigh
           /\ UNCHANGED <<fdt, childpid, lost, overrun, held, state>>
        \/ /\ Cardinality(Free) >= 2 /\ ~ TooHigh          \* fork fails
           /\ fdt' = With(fds, IF type = "r" THEN pfd1 ELSE pfd0, kept)
           /\ UNCHANGED <<childpid, lost, overrun, held, state>>
        \/ /\ Cardinality(Free) >= 2 /\ ~ TooHigh
           /\ fdt' = fds
           /\ held' = With(held, n', ChildHolds(kept)) /\ state' = With(state, n', "run")
           /\ \/ /\ childpid' = With(childpid, own, n')
                 /\ overrun' = (own = maxfd) /\ UNCHANGED lost
              \/ lost' = lost \cup {n'} /\ UNCHANGED <<childpid, overrun>>    \* fdopen fails
  /\ UNCHANGED <<book, unwaited, wait>>

\* pclose: the entry is cleared and the stream closed; the command is waited for
\* unless fclose failed.
pclose(fd) ==
  /\ wait = 0 /\ ~ overrun /\ fd \in DOMAIN childpid
  /\ \/ wait' = childpid[fd] /\ UNCHANGED unwaited
     \/ unwaited' = unwaited \cup {childpid[fd]} /\ UNCHANGED wait
  /\ childpid' = Restrict(childpid, DOMAIN childpid \ {fd})
  /\ fdt' = Restrict(fdt, DOMAIN fdt \ {fd})
  /\ UNCHANGED <<book, lost, overrun, held, state, n>>
\* pclose of a stream that is not popen's fails, in 15.3 after it has read the
\* entry of a descriptor equal to maxfd.
pcloseOther(fd) ==
  /\ wait = 0 /\ ~ overrun /\ fd \in Fds \ DOMAIN childpid
  /\ overrun' = (fd = maxfd /\ ~ book /\ n > 0)
  /\ UNCHANGED <<book, fdt, childpid, lost, unwaited, held, state, wait, n>>
\* Its only failure to be met is EINTR, after which it is called again.
waitpid ==
  /\ wait # 0 /\ state[wait] = "zombie"
  /\ state' = [state EXCEPT ![wait] = "reaped"] /\ wait' = 0
  /\ UNCHANGED <<book, fdt, childpid, lost, unwaited, overrun, held, n>>

\* A command that reads ends at end of file, when no process holds the other
\* end of its pipe; one that writes ends when it likes.
Holders(end) == {c \in DOMAIN held : end \in held[c]}
Ends(c) ==
  /\ state[c] = "run"
  /\ <<"r", c>> \in held[c] => /\ Holders(<<"w", c>>) = {}
                               /\ <<"w", c>> \notin Range(fdt)
  /\ state' = [state EXCEPT ![c] = "zombie"] /\ held' = [held EXCEPT ![c] = {}]
  /\ UNCHANGED <<book, fdt, childpid, lost, unwaited, overrun, wait, n>>

Open == \E type \in {"r", "w"} : popen(type)
Close == \E fd \in Fds : pclose(fd) \/ pcloseOther(fd)
Ending == \E c \in DOMAIN state : Ends(c)
Idle == (overrun \/ (n = MaxOpen /\ wait = 0 /\ childpid = <<>>)) /\ UNCHANGED vars
Next == Open \/ Close \/ waitpid \/ Ending \/ Idle
\* Commands that can end do, and the kernel answers waitpid.
Spec == Init /\ [][Next]_vars /\ WF_vars(Ending) /\ WF_vars(waitpid)

-----------------------------------------------------------------------------
\* The book's version never indexes the table past its end; 15.3 does, by one entry
\* and only where the limit on descriptors grew after the first call.  Until then
\* the entries of both are exactly the open streams: descriptor fd belongs to the
\* command that has the other end, and a command is without an entry only if it is
\* waited for, was reaped, or fdopen or fclose failed on its stream.
TableExact ==
  /\ overrun => ~ book /\ Limit > maxfd
  /\ ~ overrun =>
       /\ DOMAIN childpid \subseteq 0..maxfd - 1
       /\ \A fd \in DOMAIN childpid : fd \in DOMAIN fdt /\ fdt[fd][2] = childpid[fd]
       /\ \A c \in DOMAIN state : state[c] # "reaped" /\ c # wait =>
            c \in lost \cup unwaited \/ \E fd \in DOMAIN childpid : childpid[fd] = c

\* pclose comes back, in whatever order streams are closed and whichever popen
\* failed before: no command holds another's pipe open.
Closing(c) == wait = c
pcloseReturns == \A c \in 1..MaxOpen : Closing(c) ~> ~ Closing(c)
==============================================================================
