------------------------------ MODULE Processes ------------------------------
(***************************************************************************)
(* The programs of the repository that are processes and threads of one    *)
(* machine, checked together: those of Programs and six more.              *)
(***************************************************************************)
EXTENDS Programs

Tab == INSTANCE FooTable WITH Thread <- {"t1", "t2"}, Foo <- {"o1", "o2"},
                              Id <- {"i1", "i2"}, NHASH <- 1,
                              HASH <- [i \in {"i1", "i2"} |-> 0],
                              NULL <- NULL, MaxRefs <- 2, fh <- m1,
                              f_next <- m2, f_id <- m3, f_count <- m4,
                              heap <- m5, hashlock <- m6, f_lock <- m7,
                              pc <- m8, fp <- m9, id <- m10, tfp <- m11,
                              refs <- m12
Msg == INSTANCE MsgQueue WITH Consumer <- {"c1", "c2"},
                              Producer <- {"p1", "p2"},
                              Msg <- {"a", "b", "c"}, NULL <- NULL,
                              workq <- m1, m_next <- m2, qlock <- m3,
                              waiting <- m4, pc <- m5, mp <- m6, sent <- m7,
                              done <- m8
Job == INSTANCE JobQueue WITH Job <- {"a", "b", "c"}, Thread <- {"u", "v"},
                              NULL <- NULL, q_head <- m1, q_tail <- m2,
                              j_next <- m3, j_prev <- m4, j_id <- m5,
                              queued <- m6, crashed <- m7, lib <- m8
Pop == INSTANCE Popen WITH maxfd <- 4, Limit <- 5, MaxOpen <- 3, book <- m1,
                           fdt <- m2, childpid <- m3, lost <- m4,
                           unwaited <- m5, overrun <- m6, held <- m7,
                           state <- m8, wait <- m9, n <- m10
Flk == INSTANCE FooLocked WITH Thread <- {"t1", "t2"}, Foo <- {"o1", "o2"},
                               Id <- {"i1", "i2"}, MaxRefs <- 2, chain <- m1,
                               f_id <- m2, f_count <- m3, heap <- m4,
                               f_lock <- m5, pc <- m6, fp <- m7, refs <- m8
Bar == INSTANCE BarrierSort WITH NTHR <- 2, TNUM <- 2, LONG_MAX <- 3,
                                 nums <- m1, snums <- m2, start <- m3,
                                 pc <- m4, arrived <- m5, idx <- m6,
                                 main <- m7

-----------------------------------------------------------------------------
Init ==
  \/ prog = "Tab" /\ Tab!Init /\ m13 = 0 /\ m14 = 0
  \/ /\ prog = "Msg" /\ Msg!Init
     /\ m9 = 0 /\ m10 = 0 /\ m11 = 0 /\ m12 = 0 /\ m13 = 0 /\ m14 = 0
  \/ prog = "Rot" /\ Rot!Init /\ m14 = 0
  \/ /\ prog = "Job" /\ Job!Init
     /\ m9 = 0 /\ m10 = 0 /\ m11 = 0 /\ m12 = 0 /\ m13 = 0 /\ m14 = 0
  \/ /\ prog = "Pass" /\ Pass!Init
     /\ m10 = 0 /\ m11 = 0 /\ m12 = 0 /\ m13 = 0 /\ m14 = 0
  \/ /\ prog = "Sem" /\ Sem!Init
     /\ m8 = 0 /\ m9 = 0 /\ m10 = 0 /\ m11 = 0 /\ m12 = 0 /\ m13 = 0 /\ m14 = 0
  \/ prog = "Dmn" /\ Dmn!Init /\ m12 = 0 /\ m13 = 0 /\ m14 = 0
  \/ /\ prog = "Tim" /\ Tim!Init
     /\ m11 = 0 /\ m12 = 0 /\ m13 = 0 /\ m14 = 0
  \/ /\ prog = "Tty" /\ Tty!Init
     /\ m9 = 0 /\ m10 = 0 /\ m11 = 0 /\ m12 = 0 /\ m13 = 0 /\ m14 = 0
  \/ prog = "Pty" /\ Pty!Init /\ m12 = 0 /\ m13 = 0 /\ m14 = 0
  \/ /\ prog = "Mem" /\ Mem!Init
     /\ m8 = 0 /\ m9 = 0 /\ m10 = 0 /\ m11 = 0 /\ m12 = 0 /\ m13 = 0 /\ m14 = 0
  \/ /\ prog = "Pop" /\ Pop!Init
     /\ m11 = 0 /\ m12 = 0 /\ m13 = 0 /\ m14 = 0
  \/ /\ prog = "Ftw" /\ Ftw!Init
     /\ m11 = 0 /\ m12 = 0 /\ m13 = 0 /\ m14 = 0
  \/ /\ prog = "Xsi" /\ Xsi!Init
     /\ m11 = 0 /\ m12 = 0 /\ m13 = 0 /\ m14 = 0
  \/ /\ prog = "Flk" /\ Flk!Init
     /\ m9 = 0 /\ m10 = 0 /\ m11 = 0 /\ m12 = 0 /\ m13 = 0 /\ m14 = 0
  \/ prog = "Sgn" /\ Sgn!Init
  \/ /\ prog = "Thr" /\ Thr!Init
     /\ m11 = 0 /\ m12 = 0 /\ m13 = 0 /\ m14 = 0
  \/ prog = "Tel" /\ Tel!Init /\ m13 = 0 /\ m14 = 0
  \/ /\ prog = "Bar" /\ Bar!Init
     /\ m8 = 0 /\ m9 = 0 /\ m10 = 0 /\ m11 = 0 /\ m12 = 0 /\ m13 = 0 /\ m14 = 0

Next ==
  /\ UNCHANGED prog
  /\ \/ prog = "Tab" /\ Tab!Next /\ UNCHANGED <<m13, m14>>
     \/ prog = "Msg" /\ Msg!Next /\ UNCHANGED <<m9, m10, m11, m12, m13, m14>>
     \/ prog = "Rot" /\ Rot!Next /\ UNCHANGED <<m14>>
     \/ prog = "Job" /\ Job!Next /\ UNCHANGED <<m9, m10, m11, m12, m13, m14>>
     \/ prog = "Pass" /\ Pass!Next /\ UNCHANGED <<m10, m11, m12, m13, m14>>
     \/ prog = "Sem" /\ Sem!Next /\ UNCHANGED <<m8, m9, m10, m11, m12, m13, m14>>
     \/ prog = "Dmn" /\ Dmn!Next /\ UNCHANGED <<m12, m13, m14>>
     \/ prog = "Tim" /\ Tim!Next /\ UNCHANGED <<m11, m12, m13, m14>>
     \/ prog = "Tty" /\ Tty!Next /\ UNCHANGED <<m9, m10, m11, m12, m13, m14>>
     \/ prog = "Pty" /\ Pty!Next /\ UNCHANGED <<m12, m13, m14>>
     \/ prog = "Mem" /\ Mem!Next /\ UNCHANGED <<m8, m9, m10, m11, m12, m13, m14>>
     \/ prog = "Pop" /\ Pop!Next /\ UNCHANGED <<m11, m12, m13, m14>>
     \/ prog = "Ftw" /\ Ftw!Next /\ UNCHANGED <<m11, m12, m13, m14>>
     \/ prog = "Xsi" /\ Xsi!Next /\ UNCHANGED <<m11, m12, m13, m14>>
     \/ prog = "Flk" /\ Flk!Next /\ UNCHANGED <<m9, m10, m11, m12, m13, m14>>
     \/ prog = "Sgn" /\ Sgn!Next
     \/ prog = "Thr" /\ Thr!Next /\ UNCHANGED <<m11, m12, m13, m14>>
     \/ prog = "Tel" /\ Tel!Next /\ UNCHANGED <<m13, m14>>
     \/ prog = "Bar" /\ Bar!Next /\ UNCHANGED <<m8, m9, m10, m11, m12, m13, m14>>

\* Each program under the fairness its own module states.
Fairness ==
  /\ \A t \in {"t1", "t2"} : WF_(Tab!vars)(prog = "Tab" /\ Tab!Step(t))
  /\ \A t \in {"c1", "c2"} : WF_(Msg!vars)(prog = "Msg" /\ Msg!ConsumerStep(t))
  /\ \A t \in {"p1", "p2"} : WF_(Msg!vars)(prog = "Msg" /\ Msg!ProducerStep(t))
  /\ WF_(Pass!vars)(prog = "Pass" /\ Pass!recv_fd)
  /\ WF_(Pass!vars)(prog = "Pass" /\ Pass!Server)
  /\ \A p \in Proc : WF_(Sem!vars)(prog = "Sem" /\ Sem!Call(p))
  /\ \A c \in Copy : WF_(Dmn!vars)(prog = "Dmn" /\ Dmn!Main(c))
  /\ \A c \in Copy : WF_(Dmn!vars)(prog = "Dmn" /\ Dmn!reread(c))
  /\ \A c \in Copy : WF_(Dmn!vars)(prog = "Dmn" /\ Dmn!sigterm(c))
  /\ WF_(Tim!vars)(prog = "Tim" /\ Tim!Main)
  /\ WF_(Tim!vars)(prog = "Tim" /\ Tim!timeout_helper)
  /\ WF_(Tim!vars)(prog = "Tim" /\ Tim!Tick)
  /\ WF_(Pty!vars)(prog = "Pty" /\ Pty!MainStep)
  /\ WF_(Pty!vars)(prog = "Pty" /\ Pty!KillParent)
  /\ WF_(Pty!vars)(prog = "Pty" /\ Pty!ChildExit)
  /\ WF_(Pty!vars)(prog = "Pty" /\ Pty!CmdStep)
  /\ WF_(Pop!vars)(prog = "Pop" /\ Pop!Ending)
  /\ WF_(Pop!vars)(prog = "Pop" /\ Pop!waitpid)
  /\ WF_(Xsi!vars)(prog = "Xsi" /\ Xsi!MainStep)
  /\ \A q \in Queue : WF_(Xsi!vars)(prog = "Xsi" /\ Xsi!HelperStep(q))
  /\ WF_(Sgn!vars)(prog = "Sgn" /\ Sgn!Main)
  /\ WF_(Sgn!vars)(prog = "Sgn" /\ Sgn!Fire)
  /\ WF_(Sgn!vars)(prog = "Sgn" /\ Sgn!Exec)
  /\ WF_(Sgn!vars)(prog = "Sgn" /\ Sgn!Ends)
  /\ WF_(Sgn!vars)(prog = "Sgn" /\ \E s \in Sgn!Sig : Sgn!Deliver(s))
  /\ WF_(Thr!vars)(prog = "Thr" /\ Thr!Main)
  /\ WF_(Thr!vars)(prog = "Thr" /\ Thr!thr_fn)
  /\ WF_(Thr!vars)(prog = "Thr" /\ Thr!Deliver)
  /\ \A p \in {"parent", "child"} : WF_(Tel!vars)(prog = "Tel" /\ Tel!Step(p))
  /\ WF_(Bar!vars)(prog = "Bar" /\ Bar!MainStep)
  /\ \A t \in {0, 1} : WF_(Bar!vars)(prog = "Bar" /\ Bar!ThreadStep(t))

Spec == Init /\ [][Next]_vars /\ Fairness

-----------------------------------------------------------------------------
\* Linked lists, hash chains and tables that threads or calls share are exact
\* in every interleaving: reference counts equal the references, no object is
\* used after it was destroyed, buckets hold what hashes to them (11.6.2), and
\* so in the book's version that frees memory; the book's job queue is sound
\* both ways; childpid of the book's popen is never overrun, that of 15.3 by one
\* entry at most and only when the limit on descriptors has grown, and until then
\* both know every command whose stream fdopen and fclose did not fail on; a message
\* is in one place at a time, and its push is not slept through (11.6.6); the
\* shares of the sort are merged when they are sorted; the counter of a semaphore
\* equals its users.
TablesExact ==
  /\ prog = "Tab" => Tab!CountExact /\ Tab!NoUseAfterDestroy /\ Tab!BucketsExact /\ Tab!WalkHits
  /\ prog = "Flk" => Flk!FreedUnknown
  /\ prog = "Job" => Job!BookFinds
  /\ prog = "Pop" => Pop!TableExact
  /\ prog = "Msg" => Msg!Conserved /\ Msg!NoLostWakeup
  /\ prog = "Bar" => Bar!Sorted
  /\ prog = "Sem" => Sem!CountsExact

\* What one process or thread hands to another arrives as it was handed over.  Of
\* the copier (14.5.3): no block is passed over, carried by two buffers, or written
\* other than translated once, in whatever order the kernel answers.  Whether every
\* block is written before it exits is not claimed: numop counts a finished write
\* off again on every pass.  Of the open server (17.5): until the first request that
\* one read cannot hold (cut), an answer is that of the call which gets it and none
\* is left over.  Of the queues polled through sockets (17.2): messages come out once
\* and in order, of the program that shares a buffer as long as its condition wait
\* returns only when signalled (spurious = 0).  Of pty (19.5): the command's output
\* is shown before the parent leaves its loop, unless SIGTERM made it leave.  And
\* only SIGQUIT, by the thread that waits for it, ends the wait of 12.8.
HandedOver ==
  /\ prog = "Rot" => Rot!TranslatedOnce /\ Rot!BlocksAccounted
  /\ prog = "Pass" => Pass!ReplyIsMine /\ Pass!NoDump /\ Pass!Settled
  /\ prog = "Xsi" => Xsi!PrintedInOrder
  /\ prog = "Pty" => Pty!OutputShown
  /\ prog = "Thr" => Thr!OnlyQuit

\* Only the kernel ends an operation: the copier never reuses a control block
\* in flight (14.5.3).
NoReuseInFlight ==
  [][prog = "Rot" => Rot!NoReuse]_vars

\* One owner at most: of LOCKFILE (13.5), of the lock of a semaphore, whose set
\* is never removed under a process that sem_create let in, of the turn that
\* parent and child give each other (15.2.3, 10.16).
OneOwner ==
  /\ prog = "Dmn" => Dmn!OneDaemon
  /\ prog = "Sem" => Sem!CreatorsSafe
  /\ prog = "Tel" => Tel!TurnsTaken

\* What a program or call leaves behind.  The library of 18.11 says raw or cbreak
\* only of a terminal that is, whatever tcsetattr did of what it was asked; the
\* terminal is as it was found when the program ends, unless a restoration was itself
\* refused or half done or a signal came between tcsetattr and the assignment to
\* ttystate (excuse).  pty leaves it out of raw mode once tty_atexit is registered
\* (19.5).  A daemon keeps nothing of its shell (13.3).  The book's system gives
\* actions, mask and the command's status back whichever signals come; so does sleep
\* (10.19), and its own timer does not end the caller unless it goes off when another
\* signal has ended the wait (late); abort (10.17) ends by SIGABRT, with the output
\* flushed unless a handler printed between its flush and its mask (late).
LeftAsFound ==
  /\ prog = "Tty" => Tty!ModeTrue
  /\ prog = "Pty" => Pty!TtyRestored
  /\ prog = "Dmn" => Dmn!Detached
  /\ prog = "Sgn" => Sgn!SystemRight /\ Sgn!SleepRight /\ Sgn!AbortRight

\* Arithmetic at the edges: the buffer of the directory walk (4.22) and of the
\* memory stream (fmemopen) are never overrun and hold what they should; the
\* time left is a proper timespec and retry is neither early nor repeated.
EdgesRight ==
  /\ prog = "Ftw" => Ftw!WalkRight
  /\ prog = "Mem" => Mem!HoldsFile
  /\ prog = "Tim" => Tim!RetryInTime

\* What each program may be waiting for, up to four things at a time.
Pending(k) ==
  CASE prog = "Tab"  -> k = 1 /\ Tab!InCall
    [] prog = "Msg"  -> k <= 3 /\ <<"a", "b", "c">>[k] \in Msg!OnQueue
    [] prog = "Pass" -> IF k = 1 THEN Pass!Waiting ELSE Pass!ClientGone
    [] prog = "Pop"  -> Pop!Closing(k)
    [] prog = "Dmn"  -> k <= 2 /\ Dmn!Owes(<<"c1", "c2">>[k])
    [] prog = "Pty"  -> IF k = 1 THEN Pty!Left ELSE Pty!CommandOver
    [] prog = "Sgn"  -> k = 1 /\ (Sgn!Quitting \/ ~ Sgn!Waits)
    [] prog = "Thr"  -> k = 1 /\ Thr!Quitting
    [] OTHER         -> k = 1
\* What ends the wait.
Served(k) ==
  CASE prog = "Tab"  -> Tab!Returning
    [] prog = "Msg"  -> k > 3 \/ Msg!Taken(<<"a", "b", "c">>[k])
    [] prog = "Pass" -> IF k = 1 THEN ~ Pass!Waiting ELSE Pass!ServerGone
    [] prog = "Pop"  -> ~ Pop!Closing(k)
    [] prog = "Dmn"  -> k > 2 \/ ~ Dmn!Owes(<<"c1", "c2">>[k])
    [] prog = "Pty"  -> IF k = 1 THEN Pty!ChildGone ELSE Pty!Gone
    [] prog = "Sem"  -> Sem!Resting
    [] prog = "Tim"  -> Tim!Over
    [] prog = "Xsi"  -> Xsi!Printed
    [] prog = "Bar"  -> Bar!Over
    [] prog = "Sgn"  -> Sgn!Over
    [] prog = "Thr"  -> Thr!Over
    [] prog = "Tel"  -> Tel!Ended
    [] OTHER         -> TRUE

\* What is pending is served: a call of the table, each of finitely many pushed
\* messages (11.6.6, a stack: with endless pushes an old one could be passed over),
\* a call of csopen and the end of its server (17.5), pclose whatever else is open
\* (15.3), a told daemon (13.6), the end of pty with its command (19.5), system, sleep
\* and abort, the sort's barrier, the timeout.  Three waits have an end the code does
\* not guarantee and it is left out here: an opener of a semaphore whose creator is
\* gone before it set the initial value stays in sem_open (Resting); turns taken by
\* signals hang once a signal comes between test and sigsuspend (missed); the shared
\* buffer of 17.2 stalls after a spurious wakeup (Printed).
Returns == \A k \in 1..4 : Pending(k) ~> Served(k)
=============================================================================
