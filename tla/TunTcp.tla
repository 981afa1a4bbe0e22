------------------------------- MODULE TunTcp -------------------------------
(***************************************************************************)
(* The user-space TCP programs of src/network/tun behind a tun device:     *)
(* accepttcp, discardtcp, rejecttcp and icmpecho.  A program keeps no      *)
(* state: it answers each packet from that packet alone.  Its peer is a    *)
(* connection of the kernel's TCP (external), modelled as far as the       *)
(* answers matter to it.                                                   *)
(*                                                                         *)
(* Sequence numbers are taken modulo SeqMod (2^32); 123456 is 0.  A packet *)
(* is a TCP segment, an echo request, or one main finds damaged.           *)
(***************************************************************************)
EXTENDS Naturals, Sequences

CONSTANTS SeqMod, ISS,       \* the kernel's first sequence number
          MaxData, MaxLoss   \* bounds: bytes sent, packets lost

VARIABLES prog,              \* the program that runs
          alive,             \* it has not died in an assertion
          toProg, toKernel,  \* packets under way
          st, una, nxt, rcv, \* the kernel's connection: state, first byte not
          sent,              \* acknowledged, next to send, next expected; bytes sent
          seen, lost         \* sequence numbers the program has read; losses
net    == <<toProg, toKernel>>
kernel == <<st, una, nxt, rcv, sent>>
vars == <<prog, alive, net, kernel, seen, lost>>

Seq1(n, d) == (n + d) % SeqMod
Dist(a, b) == (b + SeqMod - a) % SeqMod   \* bytes from a up to b
Segment(f, s, a, l) == [proto |-> "tcp", flags |-> f, seq |-> s, ack |-> a, len |-> l]
Span(s) == s.len + (IF "S" \in s.flags \/ "F" \in s.flags THEN 1 ELSE 0)
Echo == [proto |-> "icmp", type |-> "echo"]
Damaged == [proto |-> "damaged"]

Init == /\ prog \in {"accept", "discard", "reject", "icmpecho"}
        /\ alive = TRUE /\ toProg = <<>> /\ toKernel = <<>>
        /\ st = "closed" /\ una = ISS /\ nxt = ISS /\ rcv = 0 /\ sent = 0
        /\ seen = {} /\ lost = 0

-----------------------------------------------------------------------------
(* The programs: the answers to a segment, a set of at most one.           *)

accept_input(s) ==
  CASE "S" \in s.flags -> {Segment({"S", "A"}, 0, Seq1(s.seq, 1), 0)}
    [] "S" \notin s.flags /\ "F" \in s.flags -> {Segment({"F", "A"}, 1, Seq1(s.seq, 1), 0)}
    [] OTHER -> {}

\* The mutant that acknowledges one byte of any payload.
discard_inputOne(s) ==
  IF "S" \notin s.flags /\ "F" \notin s.flags /\ s.len > 0
  THEN {Segment({"A"}, 1, Seq1(s.seq, 2), 0)} ELSE accept_input(s)

discard_input(s) ==
  IF "S" \notin s.flags /\ "F" \notin s.flags /\ s.len > 0
  THEN {Segment({"A"}, 1, Seq1(s.seq, s.len), 0)} ELSE accept_input(s)

reject_input(s) ==
  IF "S" \in s.flags THEN {Segment({"R", "A"}, 0, Seq1(s.seq, 1), 0)} ELSE {}

icmp_input(p) == IF p.type = "echo" THEN {[proto |-> "icmp", type |-> "reply"]} ELSE {}

\* One turn of a main loop: a packet is read, looked at, and answered.  The value
\* of the checksums is left out: of a packet read it is Damaged or right, that of
\* an answer is right, or the assertion of in_checksum, which folds the sum once
\* only, stops the program while it computes it.
Turn(answers) ==   \* answers of its tcp_input, should the packet be a segment
  /\ alive /\ toProg # <<>>
  /\ LET p == Head(toProg)
         out == CASE p.proto = "tcp" -> answers
                  [] p.proto = "icmp" -> icmp_input(p)
                  [] OTHER -> {} IN
     /\ toProg' = Tail(toProg)
     /\ seen' = IF p.proto = "tcp" THEN seen \cup {Seq1(p.seq, d) : d \in 0..(Span(p) - 1)} ELSE seen
     /\ \/ /\ alive' = TRUE
           /\ toKernel' = IF out = {} THEN toKernel ELSE Append(toKernel, CHOOSE o \in out : TRUE)
        \/ alive' = FALSE /\ p.proto = "tcp" /\ out # {} /\ UNCHANGED toKernel
  /\ UNCHANGED <<prog, kernel, lost>>

AcceptMain  == prog = "accept" /\ Turn(accept_input(Head(toProg)))
DiscardMain == prog = "discard" /\ Turn(discard_input(Head(toProg)))
RejectMain  == prog = "reject" /\ Turn(reject_input(Head(toProg)))
EchoMain    == prog = "icmpecho" /\ Turn({})
Program == AcceptMain \/ DiscardMain \/ RejectMain \/ EchoMain

-----------------------------------------------------------------------------
(* The kernel's end of the connection.                                     *)

SendSeg(s) == toProg' = Append(toProg, s)

Connect ==
  /\ st = "closed" /\ st' = "synsent" /\ nxt' = Seq1(ISS, 1)
  /\ SendSeg(Segment({"S"}, ISS, 0, 0))
  /\ UNCHANGED <<prog, alive, toKernel, una, rcv, sent, seen, lost>>

SendData ==
  /\ st = "established" /\ sent < MaxData
  /\ SendSeg(Segment({"A"}, nxt, rcv, 1))
  /\ nxt' = Seq1(nxt, 1) /\ sent' = sent + 1
  /\ UNCHANGED <<prog, alive, toKernel, st, una, rcv, seen, lost>>

\* The FIN, alone or with the last byte.
Close ==
  /\ st = "established" /\ st' = "finwait"
  /\ \E l \in {0, 1} :
       /\ sent + l <= MaxData /\ sent' = sent + l
       /\ SendSeg(Segment({"F", "A"}, nxt, rcv, l)) /\ nxt' = Seq1(nxt, l + 1)
  /\ UNCHANGED <<prog, alive, toKernel, una, rcv, seen, lost>>

\* Nothing is under way and something is not acknowledged: it is sent again,
\* from the first such byte on.
Retransmit ==
  /\ toProg = <<>> /\ toKernel = <<>> /\ una # nxt /\ st # "reset"
  /\ LET n == Dist(una, nxt) IN
       SendSeg(CASE st = "synsent" -> Segment({"S"}, una, 0, 0)
                 [] st = "finwait" -> Segment({"F", "A"}, una, rcv, n - 1)
                 [] OTHER -> Segment({"A"}, una, rcv, n))
  /\ UNCHANGED <<prog, alive, toKernel, kernel, seen, lost>>

\* Other packets: a ping, and one main does not accept.
Other == /\ toProg = <<>> /\ toKernel = <<>> /\ st \in {"closed", "established"}
         /\ (SendSeg(Echo) \/ SendSeg(Damaged))
         /\ UNCHANGED <<prog, alive, toKernel, kernel, seen, lost>>

Receive ==
  /\ toKernel # <<>> /\ toKernel' = Tail(toKernel)
  /\ LET s == Head(toKernel)
         good == s.proto = "tcp" /\ Dist(una, s.ack) <= Dist(una, nxt) IN
     IF ~good THEN UNCHANGED <<toProg, st, una, rcv>>
     ELSE
       /\ una' = s.ack
       /\ CASE "R" \in s.flags -> st' = "reset" /\ UNCHANGED <<toProg, rcv>>
            [] st = "synsent" /\ "S" \in s.flags ->
                 /\ st' = "established" /\ rcv' = Seq1(s.seq, 1)
                 /\ SendSeg(Segment({"A"}, nxt, Seq1(s.seq, 1), 0))
            [] st # "synsent" /\ "F" \in s.flags /\ s.seq = rcv ->
                 /\ rcv' = Seq1(rcv, 1) /\ UNCHANGED st
                 /\ SendSeg(Segment({"A"}, nxt, Seq1(rcv, 1), 0))
            [] OTHER -> UNCHANGED <<toProg, st, rcv>>
  /\ UNCHANGED <<prog, alive, nxt, sent, seen, lost>>

Lose ==
  /\ lost < MaxLoss /\ lost' = lost + 1
  /\ \/ toProg # <<>> /\ toProg' = Tail(toProg) /\ UNCHANGED toKernel
     \/ toKernel # <<>> /\ toKernel' = Tail(toKernel) /\ UNCHANGED toProg
  /\ UNCHANGED <<prog, alive, kernel, seen>>

Kernel == Receive \/ Retransmit
Next == Program \/ Kernel \/ Connect \/ SendData \/ Close \/ Other \/ Lose
Spec == Init /\ [][Next]_vars /\ WF_vars(Program) /\ WF_vars(Receive) /\ WF_vars(Retransmit)

-----------------------------------------------------------------------------
\* An answer never acknowledges a byte the kernel has not sent, although the
\* program keeps no state, across losses, retransmissions and wrap-around.
AcksSent ==
  \A n \in 1..Len(toKernel) :
    LET s == toKernel[n] IN s.proto = "tcp" /\ st # "reset" => Dist(ISS, s.ack) <= Dist(ISS, nxt)

\* If nothing was lost, what the kernel takes for acknowledged has been read by
\* the program: every answer of discardtcp covers exactly its segment.  After a
\* loss this is not so: the answer to the next segment acknowledges the gap too.
AcksRead ==
  lost = 0 /\ prog # "icmpecho" =>
     \A d \in 0..(SeqMod - 1) : d < Dist(ISS, una) => Seq1(ISS, d) \in seen

\* The proof's invariant.  What the kernel has sent it counts from ISS on.  Every
\* segment is of sent numbers; every answer acknowledges sent ones; and as long
\* as nothing is lost, a number that was sent has been read, or is in a segment
\* under way, and then before every later number.
At(x) == Dist(ISS, x)
Tcp(p) == p.proto = "tcp"
Number == 0..(SeqMod - 1)
Flags == SUBSET {"S", "A", "F", "R"}
Wire == [proto : {"tcp"}, flags : Flags, seq : Number, ack : Number, len : Nat]
          \cup {Echo, Damaged, [proto |-> "icmp", type |-> "reply"]}
TypeOK ==
  /\ prog \in {"accept", "discard", "reject", "icmpecho"}
  /\ st \in {"closed", "synsent", "established", "finwait", "reset"}
  /\ una \in Number /\ nxt \in Number /\ rcv \in Number
  /\ sent \in 0..MaxData /\ lost \in Nat
  /\ toProg \in Seq(Wire) /\ toKernel \in Seq(Wire)

Has(p, d) == Tcp(p) /\ At(p.seq) <= d /\ d < At(p.seq) + Span(p)
Sent(q, n) == \A k \in 1..Len(q) : Tcp(q[k]) => At(q[k].seq) + Span(q[k]) <= n
Acked(q, n) == \A k \in 1..Len(q) : Tcp(q[k]) => At(q[k].ack) <= n
Bounded ==
  /\ At(una) <= At(nxt) /\ At(nxt) <= sent + 2
  /\ st \in {"synsent", "established"} => At(nxt) <= sent + 1
  /\ st = "closed" => nxt = ISS
  /\ Sent(toProg, At(nxt)) /\ Acked(toKernel, At(nxt))

\* The numbers before n: all are in s; each is in s or in one of the first k packets of q.
ReadUpTo(n, s) == \A d \in Nat : d < n => Seq1(ISS, d) \in s
Under(q, k, n, s) ==
  \A d \in Nat : d < n =>
     Seq1(ISS, d) \in s \/ \E j \in 1..Len(q) : j <= k /\ Has(q[j], d)
Known(q, s) == \A k \in 1..Len(q) : Tcp(q[k]) => ReadUpTo(At(q[k].ack), s)
InTurn(q, s) == \A k \in 1..Len(q) : Tcp(q[k]) => Under(q, k - 1, At(q[k].seq), s)
Lossless ==
  /\ ReadUpTo(At(una), seen) /\ Known(toKernel, seen)
  /\ InTurn(toProg, seen) /\ Under(toProg, Len(toProg), At(nxt), seen)
IInv == TypeOK /\ Bounded /\ (lost = 0 => Lossless)

\* What the kernel has under way after it sent up to n, and what a program may
\* answer to p: an echo, or the acknowledgement of numbers of p.
Put(q, n) == /\ q \in Seq(Wire) /\ Sent(q, n)
             /\ lost = 0 => InTurn(q, seen) /\ Under(q, Len(q), n, seen)
Answer(p, a) == /\ a \in Wire
                /\ Tcp(a) => Tcp(p) /\ \E c \in 0..Span(p) : a.ack = Seq1(p.seq, c)

\* A connection to discardtcp or accepttcp that the kernel closes is closed
\* completely: its FIN is acknowledged and the program's FIN taken, whatever is
\* lost; one to rejecttcp is reset.
Closing == st = "finwait"
Closed  == (una = nxt /\ rcv = 2) \/ ~alive
Opening == prog = "reject" /\ st = "synsent"
Refused == st = "reset" \/ ~alive
Closes == (Closing ~> Closed) /\ (Opening ~> Refused)
=============================================================================
