------------------------------ MODULE Programs ------------------------------
(***************************************************************************)
(* Programs of the repository that the proofs are about: each is an        *)
(* instance of its own module.  Only one of them runs in a behaviour, prog *)
(* says which, and m1, m2, ... are its variables, in the order its module  *)
(* declares them.                                                          *)
(***************************************************************************)
EXTENDS Integers, Sequences, FiniteSets

\* The parameters of the programs the proofs are about; the bounds of the
\* others are in their INSTANCE.
CONSTANTS NBUF, NBlocks, MaxOver,                     \* Rot
          Copy, Book, Threaded, MaxSig, FdLimit,      \* Dmn, and Sgn
          Proc, Opener, initval, BIGCOUNT, MaxKill,   \* Sem
          NLOOPS,                                     \* Tel
          Queue, MAXMSZ, SockBuf, MaxSpurious,        \* Xsi, and Thr
          MaxSent,                                    \* Thr
          Kind, MaxCalls,                             \* Pass
          Attr,                                       \* Tty
          MaxOut,                                     \* Pty
          SECTONSEC, Delay, Sleep, MaxClock,          \* Tim
          Byte, MaxSize, MaxLen,                      \* Mem
          NFiles, NAME_MAX, OPEN_MAX                  \* Ftw

ASSUME RotAssumption == NBUF \in Nat /\ NBlocks \in Nat /\ MaxOver \in Nat
ASSUME DmnAssumption == "none" \notin Copy /\ FdLimit \in Int
\* As many processes as the process counter can count.
ASSUME SemAssumption == /\ IsFiniteSet(Proc) /\ initval \in Nat /\ BIGCOUNT \in Nat \ {0}
                        /\ Cardinality(Proc) <= BIGCOUNT
ASSUME TelAssumption == NLOOPS \in Nat \ {0} /\ NLOOPS % 2 = 0
ASSUME XsiAssumption == MAXMSZ \in Nat \ {0} /\ "poll" \notin Queue
ASSUME TimAssumption == SECTONSEC \in Nat \ {0} /\ Delay \in Nat
ASSUME MemAssumption == 0 \in Byte /\ MaxSize \in Nat /\ MaxLen \in Nat
ASSUME FtwAssumption == NFiles \in Nat \ {0} /\ NAME_MAX \in Nat \ {0}

VARIABLES prog,   \* the program this behaviour is of
          m1, m2, m3, m4, m5, m6, m7, m8, m9, m10, m11, m12, m13, m14   \* its variables
vars == <<prog, m1, m2, m3, m4, m5, m6, m7, m8, m9, m10, m11, m12, m13, m14>>

NULL == "NULL"

Rot == INSTANCE AioRot13 WITH st_size <- m1, op <- m2, last <- m3, blk <- m4,
                              rot <- m5, aio <- m6, aiolist <- m7,
                              numop <- m8, off <- m9, i <- m10, out <- m11,
                              status <- m12, recount <- m13
Pass == INSTANCE FdPass WITH cpc <- m1, calls <- m2, got <- m3, spc <- m4,
                             errmsg <- m5, answer <- m6, c2s <- m7, s2c <- m8,
                             cut <- m9
Sem == INSTANCE Semaph WITH gen <- m1, made <- m2, val <- m3, adj <- m4,
                            pc <- m5, id <- m6, asleep <- m7
Dmn == INSTANCE Daemon WITH pc <- m1, fds <- m2, leader <- m3, tty <- m4,
                            locker <- m5, file <- m6, careless <- m7,
                            hup <- m8, term <- m9, sigs <- m10, owed <- m11
Tim == INSTANCE Timeout WITH clock <- m1, mpc <- m2, when <- m3, tip <- m4,
                             hpc <- m5, until <- m6, owner <- m7, depth <- m8,
                             calls <- m9, now <- m10
Tty == INSTANCE TtyModes WITH tty <- m1, orig <- m2, lib <- m3,
                              save_termios <- m4, ttystate <- m5, pc <- m6,
                              mode <- m7, excuse <- m8
Pty == INSTANCE Pty WITH opt <- m1, tty <- m2, hook <- m3, main <- m4,
                         child <- m5, cmd <- m6, drv <- m7, eof <- m8,
                         left <- m9, out <- m10, sigcaught <- m11
Mem == INSTANCE MemStream WITH open <- m1, flags <- m2, buf <- m3,
                               rsize <- m4, vsize <- m5, curpos <- m6,
                               file <- m7
Ftw == INSTANCE Ftw WITH parent <- m1, isdir <- m2, namelen <- m3,
                         pathlen <- m4, len <- m5, stack <- m6, pc <- m7,
                         called <- m8, counted <- m9, full <- m10
Xsi == INSTANCE XsiPoll WITH prog <- m1, queue <- m2, sock <- m3, m <- m4,
                             helper <- m5, msg <- m6, ready <- m7, main <- m8,
                             printed <- m9, spurious <- m10
Sgn == INSTANCE Signals WITH call <- m1, pc <- m2, disp <- m3, mask <- m4,
                             pend <- m5, frames <- m6, saved <- m7,
                             entry <- m8, timer <- m9, cmd <- m10,
                             status <- m11, end <- m12, marks <- m13,
                             left <- m14
Thr == INSTANCE SigThread WITH MaxSig <- MaxSent, blocked <- m1, pend <- m2,
                               mpc <- m3, tpc <- m4, quitflag <- m5,
                               lock <- m6, end <- m7, quit <- m8, left <- m9,
                               spurious <- m10
Tel == INSTANCE TellWait WITH prog <- m1, way <- m2, pc <- m3, i <- m4,
                              area <- m5, counter <- m6, sigflag <- m7,
                              blocked <- m8, told <- m9, locker <- m10,
                              failed <- m11, missed <- m12
=============================================================================
