------------------------------ MODULE TunMany ------------------------------
(***************************************************************************)
(* connectmany.cc of src/network/tun opens count connections to a server   *)
(* in the kernel: connect_one sends a SYN and reads one packet, which it   *)
(* takes for the answer; after the last connection main reads packets as a *)
(* server would.  tcp_input takes passive for which of the two it is.      *)
(*                                                                         *)
(* A source is <<address, port>>, ports run from PortLo to PortHi (1024 to *)
(* 0xFFFF).  The kernel's end of a connection is "none", "synrcvd",        *)
(* "established" or "confused" (it got a SYN instead of an ACK).           *)
(***************************************************************************)
EXTENDS Naturals, Sequences, FiniteSets

CONSTANTS PortLo, PortHi, Count,
          MaxStray   \* bound: packets that are not the answer to the last SYN

VARIABLES i, srcip, srcport, pc,   \* locals of connect_many
          queue,                   \* packets the program has not read
          conn, strays
vars == <<i, srcip, srcport, pc, queue, conn, strays>>

Source == (0..Count) \X (PortLo..PortHi)
Init == /\ i = 0 /\ srcip = 0 /\ srcport = PortLo /\ pc = "send"
        /\ queue = <<>> /\ conn = [s \in Source |-> "none"] /\ strays = 0

SynAck(s) == [of |-> s, kind |-> "synack"]

-----------------------------------------------------------------------------
\* connect_one up to the write: the kernel answers with a SYN and an ACK; a
\* source already in use gets an ACK only.
Send ==
  LET s == <<srcip, srcport>> IN
  /\ pc = "send" /\ i < Count /\ pc' = "read"
  /\ conn' = [conn EXCEPT ![s] = IF @ = "none" THEN "synrcvd" ELSE "confused"]
  /\ queue' = Append(queue, SynAck(s))
  /\ UNCHANGED <<i, srcip, srcport, strays>>

\* What tcp_input's answer does to the connection of the packet.
tcp_input(p, passive) ==
  IF p.kind # "synack" THEN conn
  ELSE [conn EXCEPT ![p.of] = CASE @ = "synrcvd" -> IF passive THEN "confused" ELSE "established"
                                [] OTHER -> @]

\* The mutant that starts again with the first port at the same address.
connect_manySame ==
  /\ i' = i + 1
  /\ srcport' = IF srcport = PortHi THEN PortLo ELSE srcport + 1
  /\ UNCHANGED srcip

\* The loop of connect_many: the next source.
connect_many ==
  /\ i' = i + 1
  /\ IF srcport = PortHi THEN srcport' = PortLo /\ srcip' = srcip + 1
                         ELSE srcport' = srcport + 1 /\ UNCHANGED srcip

\* The rest of connect_one: one packet, whatever it is.
Answer ==
  /\ pc = "read" /\ queue # <<>>
  /\ conn' = tcp_input(Head(queue), FALSE) /\ queue' = Tail(queue)
  /\ connect_many /\ pc' = "send"
  /\ UNCHANGED strays

\* The loop of main.
Serve ==
  /\ pc = "send" /\ i = Count /\ queue # <<>>
  /\ conn' = tcp_input(Head(queue), TRUE) /\ queue' = Tail(queue)
  /\ UNCHANGED <<i, srcip, srcport, pc, strays>>

\* The kernel sends something of its own: data on an open connection, a ping.
Stray ==
  /\ strays < MaxStray /\ strays' = strays + 1
  /\ queue' = Append(queue, [of |-> <<0, PortLo>>, kind |-> "other"])
  /\ UNCHANGED <<i, srcip, srcport, pc, conn>>

Program == Send \/ Answer \/ Serve
Next == Program \/ Stray
Spec == Init /\ [][Next]_vars /\ WF_vars(Program)

-----------------------------------------------------------------------------
\* Every packet read in place of an answer shifts the answers by one, and an
\* answer that is left for main is itself answered as if it were a request: at
\* most one connection is spoilt per stray packet, all others are established.
Opened == {s \in Source : conn[s] = "established"}
Used   == {s \in Source : conn[s] # "none"}
Established ==
  pc = "send" /\ i = Count /\ queue = <<>> =>
    Cardinality(Opened) + strays >= Count /\ Cardinality(Used) = Count

\* The proof's invariant.  The sources in use are those before the next one, and
\* that one while its answer is waited for.  Until main serves, the answer of
\* every connection that is not established is still in the queue, and the queue
\* holds a packet for every stray one, and the answer waited for.
Packet == [of : Source, kind : {"synack", "other"}]
TypeOK ==
  /\ i \in 0..Count /\ srcip \in 0..i /\ srcport \in PortLo..PortHi /\ pc \in {"send", "read"}
  /\ pc = "read" => i < Count
  /\ queue \in Seq(Packet) /\ strays \in Nat
  /\ conn \in [Source -> {"none", "synrcvd", "established", "confused"}]

Before(s) == s[1] < srcip \/ (s[1] = srcip /\ s[2] < srcport)
InOrder ==
  /\ \A s \in Source : s \in Used <=> Before(s) \/ (pc = "read" /\ s = <<srcip, srcport>>)
  /\ Cardinality(Used) = IF pc = "read" THEN i + 1 ELSE i

Half == {s \in Source : conn[s] = "synrcvd"}
Owed ==
  /\ Used = Opened \cup Half
  /\ Len(queue) = IF pc = "read" THEN strays + 1 ELSE strays
  /\ \A s \in Half : \E k \in 1..Len(queue) : queue[k] = SynAck(s)
Served == Cardinality(Opened) + strays >= Count
IInv == /\ TypeOK /\ InOrder
        /\ (pc = "read" \/ i < Count) => Owed
        /\ (pc = "send" /\ i = Count) => Served
=============================================================================
