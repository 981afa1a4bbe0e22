------------------------------- MODULE Network -------------------------------
(***************************************************************************)
(* The programs of the repository that talk over a network or keep data    *)
(* for others, checked together as in Processes: prog says which program a *)
(* behaviour is of, and m1, m2, ... are its variables, in the order its    *)
(* module declares them.                                                   *)
(***************************************************************************)
EXTENDS Integers, Sequences, FiniteSets

\* The parameters of the programs the proofs are about; the bounds of the
\* others are in their INSTANCE.
CONSTANTS Client,                               \* Rup and Ssl
          QLEN, MAXSLEEP, MaxProc, MaxLost,     \* Rup
          Name, NoName, NChunks,                \* Ssl
          MaxInfo,                              \* Ipp
          MaxKids,                              \* Lcx
          NBytes, MAXSIZE, Queue,               \* Relay
          SeqMod, ISS, MaxData, MaxDrop,        \* Tun
          PortLo, PortHi, Count, MaxStray       \* Many

ASSUME RupAssumption == MaxProc \in Nat \ {0}
ASSUME SslAssumption == NChunks \in [Client -> Nat]
ASSUME IppAssumption == MaxInfo \in Nat
ASSUME RelayAssumption == NBytes \in Nat /\ MAXSIZE \in Nat /\ Queue \in Nat
\* Less is sent than there are sequence numbers.
ASSUME TunAssumption == /\ SeqMod \in Nat /\ MaxData \in Nat
                        /\ MaxData + 2 < SeqMod /\ ISS \in 0..(SeqMod - 1)
ASSUME ManyAssumption == PortLo \in Nat /\ PortHi \in Nat /\ Count \in Nat /\ PortLo <= PortHi

\* The sizes of two files, for TLC.
TwoFiles == [c \in Client |-> IF c = "c1" THEN 2 ELSE 1]

VARIABLES prog,   \* the program this behaviour is of
          m1, m2, m3, m4, m5, m6, m7, m8, m9, m10, m11, m12, m13, m14, m15,
          m16   \* its variables
vars == <<prog, m1, m2, m3, m4, m5, m6, m7, m8, m9, m10, m11, m12, m13, m14, m15, m16>>

Relay == INSTANCE LcxRelay WITH pc <- m1, readfd <- m2, writefd <- m3,
                                send_out <- m4, unsent <- m5, inq <- m6,
                                outq <- m7, got <- m8, open <- m9
Lcx == INSTANCE LcxMain WITH argv <- m1, p <- m2, conf <- m3, mpc <- m4,
                             fds <- m5, kids <- m6
Tun == INSTANCE TunTcp WITH MaxLoss <- MaxDrop, prog <- m1, alive <- m2,
                            toProg <- m3, toKernel <- m4, st <- m5, una <- m6,
                            nxt <- m7, rcv <- m8, sent <- m9, seen <- m10,
                            lost <- m11
Many == INSTANCE TunMany WITH i <- m1, srcip <- m2, srcport <- m3, pc <- m4,
                              queue <- m5, conn <- m6, strays <- m7
Ssl == INSTANCE SslFile WITH SMODE <- m1, CMODE <- m2, smode <- m3,
                             cmode <- m4, scert <- m5, cert <- m6, spc <- m7,
                             cur <- m8, file <- m9, pos <- m10, disk <- m11,
                             cpc <- m12, name <- m13, rest <- m14,
                             conn <- m15, failed <- m16
Rup == INSTANCE Ruptime WITH MaxLoss <- MaxLost, kind <- m1, spc <- m2,
                             serving <- m3, queue <- m4, held <- m5,
                             line <- m6, cpc <- m7, numsec <- m8, early <- m9,
                             loss <- m10, unrun <- m11
Ipp == INSTANCE PrinterStatus WITH stream <- m1, buf <- m2, datsz <- m3,
                                   i <- m4, pc <- m5, answer <- m6,
                                   whole <- m7
Py == INSTANCE PyDb WITH MaxDepth <- 3, MaxWrite <- 3, MaxTx <- 2,
                         connection <- m1, transactions <- m2, blocks <- m3,
                         exc <- m4, pending <- m5, table <- m6, of <- m7,
                         failed <- m8, tx <- m9, ended <- m10
Book == INSTANCE BookDb WITH Key <- {"a", "b", "c"}, Data <- {"x", "z"},
                             KeyLen <- [k \in {"a", "b", "c"} |-> IF k = "c" THEN 2 ELSE 1],
                             DatLen <- [d \in {"x", "z"} |-> IF d = "z" THEN 2 ELSE 1],
                             Hash <- [k \in {"a", "b", "c"} |-> IF k = "b" THEN 2 ELSE 1],
                             NHASH <- 2, Blank <- " ", MaxRec <- 4, idx <- m1,
                             dat <- m2, chain <- m3, pos <- m4, dict <- m5,
                             out <- m6, seen <- m7

-----------------------------------------------------------------------------
Init ==
  \/ /\ prog = "Relay" /\ Relay!Init
     /\ m10 = 0 /\ m11 = 0 /\ m12 = 0 /\ m13 = 0 /\ m14 = 0 /\ m15 = 0 /\ m16 = 0
  \/ /\ prog = "Lcx" /\ Lcx!Init
     /\ m7 = 0 /\ m8 = 0 /\ m9 = 0 /\ m10 = 0 /\ m11 = 0 /\ m12 = 0 /\ m13 = 0 /\ m14 = 0 /\ m15 = 0 /\ m16 = 0
  \/ /\ prog = "Tun" /\ Tun!Init
     /\ m12 = 0 /\ m13 = 0 /\ m14 = 0 /\ m15 = 0 /\ m16 = 0
  \/ /\ prog = "Many" /\ Many!Init
     /\ m8 = 0 /\ m9 = 0 /\ m10 = 0 /\ m11 = 0 /\ m12 = 0 /\ m13 = 0 /\ m14 = 0 /\ m15 = 0 /\ m16 = 0
  \/ prog = "Ssl" /\ Ssl!Init
  \/ /\ prog = "Rup" /\ Rup!Init
     /\ m12 = 0 /\ m13 = 0 /\ m14 = 0 /\ m15 = 0 /\ m16 = 0
  \/ /\ prog = "Ipp" /\ Ipp!Init
     /\ m8 = 0 /\ m9 = 0 /\ m10 = 0 /\ m11 = 0 /\ m12 = 0 /\ m13 = 0 /\ m14 = 0 /\ m15 = 0 /\ m16 = 0
  \/ /\ prog = "Py" /\ Py!Init
     /\ m11 = 0 /\ m12 = 0 /\ m13 = 0 /\ m14 = 0 /\ m15 = 0 /\ m16 = 0
  \/ /\ prog = "Book" /\ Book!Init
     /\ m8 = 0 /\ m9 = 0 /\ m10 = 0 /\ m11 = 0 /\ m12 = 0 /\ m13 = 0 /\ m14 = 0 /\ m15 = 0 /\ m16 = 0

Next ==
  /\ UNCHANGED prog
  /\ \/ prog = "Relay" /\ Relay!Next /\ UNCHANGED <<m10, m11, m12, m13, m14, m15, m16>>
     \/ prog = "Lcx" /\ Lcx!Next /\ UNCHANGED <<m7, m8, m9, m10, m11, m12, m13, m14, m15, m16>>
     \/ prog = "Tun" /\ Tun!Next /\ UNCHANGED <<m12, m13, m14, m15, m16>>
     \/ prog = "Many" /\ Many!Next /\ UNCHANGED <<m8, m9, m10, m11, m12, m13, m14, m15, m16>>
     \/ prog = "Ssl" /\ Ssl!Next
     \/ prog = "Rup" /\ Rup!Next /\ UNCHANGED <<m12, m13, m14, m15, m16>>
     \/ prog = "Ipp" /\ Ipp!Next /\ UNCHANGED <<m8, m9, m10, m11, m12, m13, m14, m15, m16>>
     \/ prog = "Py" /\ Py!Next /\ UNCHANGED <<m11, m12, m13, m14, m15, m16>>
     \/ prog = "Book" /\ Book!Next /\ UNCHANGED <<m8, m9, m10, m11, m12, m13, m14, m15, m16>>

\* Each program under the fairness its own module states.
Fairness ==
  /\ WF_(Relay!vars)(prog = "Relay" /\ Relay!transdata)
  /\ \A p \in Relay!Peer : WF_(Relay!vars)(prog = "Relay" /\ Relay!PeerSend(p))
  /\ \A p \in Relay!Peer : WF_(Relay!vars)(prog = "Relay" /\ Relay!PeerRead(p))
  /\ WF_(Tun!vars)(prog = "Tun" /\ Tun!Program)
  /\ WF_(Tun!vars)(prog = "Tun" /\ Tun!Receive)
  /\ WF_(Tun!vars)(prog = "Tun" /\ Tun!Retransmit)
  /\ WF_(Rup!vars)(prog = "Rup" /\ Rup!Start)
  /\ \A p \in 1..MaxProc : WF_(Rup!vars)(prog = "Rup" /\ Rup!serve(p))
  /\ \A c \in Client : WF_(Rup!vars)(prog = "Rup" /\ Rup!Use(c))
  /\ \A c \in Client : WF_(Rup!vars)(prog = "Rup" /\ Rup!sigalrm(c) /\ Rup!Waiting(c))

Spec == Init /\ [][Next]_vars /\ Fairness

-----------------------------------------------------------------------------
\* Streams are exact: the relay passes every byte once and in order, partial
\* writes included (lcx).  The TCP of the tun programs never acknowledges a byte that
\* was not sent, whatever is lost and across wrap-around; as long as no segment was
\* lost, nor one it did not read (discardtcp acknowledges past a gap, so this fails
\* with the first loss).  Of many connections at most one is spoilt per stray packet.
StreamsExact ==
  /\ prog = "Relay" => Relay!InOrder
  /\ prog = "Tun" => Tun!AcksSent /\ Tun!AcksRead
  /\ prog = "Many" => Many!Established

\* Answers and files are what they claim.  What the TLS server stored came, from the
\* first chunk to the last, from clients that the verification mode its code sets
\* admits (what CMODE is documented to mean is another matter: see ModeAsDocumented).
\* A print job is taken for done only if the printer said so of this job, of answers
\* whose header came in one read (whole).  lcx understands the command lines of its
\* usage and leaks no socket of an earlier pair.  One process at most of the forking
\* server is at a client.
ServedRight ==
  /\ prog = "Ssl" => Ssl!Authenticated /\ Ssl!Stored
  /\ prog = "Ipp" => Ipp!JudgedRight
  /\ prog = "Lcx" => Lcx!Understood /\ Lcx!NoLeak
  /\ prog = "Rup" => Rup!OneServes

\* Stores keep what they accepted: a transaction of the Python layer is all or
\* nothing however blocks nest and exceptions are caught, and leaves nothing
\* behind; the book's database answers as a dictionary whichever free record a
\* store reuses.
StoresExact ==
  /\ prog = "Py" => Py!AllOrNothing /\ Py!NothingLeft
  /\ prog = "Book" => Book!AsDictionary

\* What each program may be waiting for, and what ends the wait.
Pending(k) ==
  CASE prog = "Tun" -> IF k = 1 THEN Tun!Closing ELSE Tun!Opening
    [] prog = "Rup" -> TRUE
    [] OTHER        -> k = 1
Served(k) ==
  CASE prog = "Tun"   -> IF k = 1 THEN Tun!Closed ELSE Tun!Refused
    [] prog = "Relay" -> Relay!Arrived
    [] prog = "Rup"   -> Rup!Ended(<<"c1", "c2">>[k])
    [] OTHER          -> TRUE

\* The relay delivers as long as both peers are there, a closed connection is
\* closed on both sides whatever is lost, and every client of the uptime
\* services gets to its end.
Delivered == \A k \in 1..2 : Pending(k) ~> Served(k)
=============================================================================
