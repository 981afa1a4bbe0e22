------------------------------ MODULE LcxRelay ------------------------------
(***************************************************************************)
(* transdata of src/network/lcx/lcx.c: one process copies what peer 1      *)
(* sends to peer 2 and the reverse, with select, blocking sockets and a    *)
(* buffer of MAXSIZE bytes in each direction.  A peer is 1 or 2; byte n of *)
(* a peer's stream is the number n.  Queue holds the bytes the kernel      *)
(* keeps for one socket and direction.                                     *)
(***************************************************************************)
EXTENDS Naturals, Sequences

CONSTANTS NBytes,   \* bytes each peer has to send
          MAXSIZE, Queue

Peer == {1, 2}
Other(p) == 3 - p
Stream == [n \in 1..NBytes |-> n]

VARIABLES pc,            \* <<"select">>, <<"read", p>>, <<"write", p>>; at the end
                         \* <<"closed">> or <<"timeout">>
          readfd, writefd,
          send_out,      \* bytes read from p and not yet written to the other
          unsent, inq,   \* bytes p has still to send; those the relay can read
          outq, got,     \* bytes the relay wrote to p; those p has read
          open           \* peers that have not closed their end
vars == <<pc, readfd, writefd, send_out, unsent, inq, outq, got, open>>

Init == /\ pc = <<"select">> /\ readfd = {} /\ writefd = {}
        /\ send_out = [p \in Peer |-> <<>>] /\ unsent = [p \in Peer |-> Stream]
        /\ inq = [p \in Peer |-> <<>>] /\ outq = [p \in Peer |-> <<>>]
        /\ got = [p \in Peer |-> <<>>] /\ open = Peer

Least(a, b) == IF a < b THEN a ELSE b
Take(s, n) == SubSeq(s, 1, n)
Drop(s, n) == SubSeq(s, n + 1, Len(s))

Readable(p) == inq[p] # <<>> \/ p \notin open
Writable(p) == Len(outq[p]) < Queue \/ p \notin open

-----------------------------------------------------------------------------
(* The relay.  One pass of its loop reads from 1 and writes to 2, then     *)
(* reads from 2 and writes to 1, by what select said at its start.         *)

After(p) == IF p = 1 THEN <<"read", 2>> ELSE <<"select">>

Select ==
  /\ pc = <<"select">>
  /\ readfd' = {p \in Peer : Readable(p)} /\ writefd' = {p \in Peer : Writable(p)}
  /\ readfd' \cup writefd' # {}
  /\ pc' = <<"read", 1>>
  /\ UNCHANGED <<send_out, unsent, inq, outq, got, open>>

\* Nothing was ready for TIMEOUT seconds: in all since the relay began, since
\* Linux leaves the rest of the time in timeset, which is never set again.
Timeout ==
  /\ pc = <<"select">> /\ \A p \in Peer : ~Readable(p) /\ ~Writable(p)
  /\ pc' = <<"timeout">>
  /\ UNCHANGED <<readfd, writefd, send_out, unsent, inq, outq, got, open>>

\* At most the room left in send_out is read.  An end of file ends the relay
\* at once, whatever the buffers still hold.
Read(p) ==
  /\ pc = <<"read", p>>
  /\ IF p \notin readfd \/ Len(send_out[p]) = MAXSIZE
     THEN pc' = <<"write", p>> /\ UNCHANGED <<inq, send_out>>
     ELSE \/ /\ inq[p] = <<>> /\ pc' = <<"closed">>
             /\ UNCHANGED <<inq, send_out>>
          \/ /\ inq[p] # <<>> /\ pc' = <<"write", p>>
             /\ \E n \in 1..Least(Len(inq[p]), MAXSIZE - Len(send_out[p])) :
                  /\ send_out' = [send_out EXCEPT ![p] = @ \o Take(inq[p], n)]
                  /\ inq' = [inq EXCEPT ![p] = Drop(@, n)]
  /\ UNCHANGED <<readfd, writefd, unsent, outq, got, open>>

\* The mutant that starts over with the first byte when not all was written.
WriteUnmoved(p) ==
  LET o == Other(p) IN
  /\ pc = <<"write", p>> /\ o \in writefd /\ send_out[p] # <<>> /\ Len(outq[o]) < Queue
  /\ LET n == Least(Len(send_out[p]), Queue - Len(outq[o])) IN
       /\ outq' = [outq EXCEPT ![o] = @ \o Take(send_out[p], n)]
       /\ send_out' = [send_out EXCEPT ![p] = Take(@, Len(@) - n)]
  /\ UNCHANGED <<pc, readfd, writefd, unsent, inq, got, open>>

\* The loop of write: it blocks with the socket full, and goes on until all of
\* send_out is written.  SIGPIPE, or an error, ends the relay.
Write(p) ==
  LET o == Other(p) IN
  /\ pc = <<"write", p>> /\ o \in writefd /\ send_out[p] # <<>>
  /\ \/ /\ o \notin open /\ pc' = <<"closed">> /\ UNCHANGED <<outq, send_out>>
     \/ /\ Len(outq[o]) < Queue /\ UNCHANGED pc
        /\ LET n == Least(Len(send_out[p]), Queue - Len(outq[o])) IN
             /\ outq' = [outq EXCEPT ![o] = @ \o Take(send_out[p], n)]
             /\ send_out' = [send_out EXCEPT ![p] = Drop(@, n)]
  /\ UNCHANGED <<readfd, writefd, unsent, inq, got, open>>

\* Nothing to write, or the socket was not ready.
Pass(p) ==
  /\ pc = <<"write", p>> /\ (Other(p) \notin writefd \/ send_out[p] = <<>>)
  /\ pc' = After(p)
  /\ UNCHANGED <<readfd, writefd, send_out, unsent, inq, outq, got, open>>

transdata == Select \/ \E p \in Peer : Read(p) \/ Write(p) \/ Pass(p)

-----------------------------------------------------------------------------
(* The peers.                                                              *)

PeerSend(p) ==
  /\ p \in open /\ unsent[p] # <<>> /\ Len(inq[p]) < Queue
  /\ inq' = [inq EXCEPT ![p] = Append(@, Head(unsent[p]))]
  /\ unsent' = [unsent EXCEPT ![p] = Tail(@)]
  /\ UNCHANGED <<pc, readfd, writefd, send_out, outq, got, open>>

PeerRead(p) ==
  /\ p \in open /\ outq[p] # <<>>
  /\ got' = [got EXCEPT ![p] = Append(@, Head(outq[p]))]
  /\ outq' = [outq EXCEPT ![p] = Tail(@)]
  /\ UNCHANGED <<pc, readfd, writefd, send_out, unsent, inq, open>>

PeerClose(p) ==
  /\ p \in open /\ open' = open \ {p}
  /\ UNCHANGED <<pc, readfd, writefd, send_out, unsent, inq, outq, got>>

Next == transdata \/ Timeout \/ \E p \in Peer : PeerSend(p) \/ PeerRead(p) \/ PeerClose(p)

Spec == Init /\ [][Next]_vars /\ WF_vars(transdata)
             /\ \A p \in Peer : WF_vars(PeerSend(p)) /\ WF_vars(PeerRead(p))

-----------------------------------------------------------------------------
\* What p sent arrives at the other peer unchanged, each byte once and in
\* order: received, under way, buffered and unsent bytes make up the stream.
InOrder ==
  \A p \in Peer : got[Other(p)] \o outq[Other(p)] \o send_out[p] \o inq[p] \o unsent[p] = Stream

\* As long as neither peer closes and the time is not up, both streams arrive
\* completely: the relay does not come to rest in a blocked write.
Arrived == open # Peer \/ pc = <<"timeout">> \/ \A p \in Peer : got[p] = Stream
Relayed == <>Arrived

\* The proof's invariant.  The five places a stream is in, from who received it to who sends it: each
\* holds the bytes behind those of the places before.
Counts(s, n) == s \in Seq(Nat) /\ \A k \in 1..Len(s) : s[k] = n + k
Line(g, o, s, i, u) ==
  /\ Counts(g, 0) /\ Counts(o, Len(g)) /\ Counts(s, Len(g) + Len(o))
  /\ Counts(i, Len(g) + Len(o) + Len(s)) /\ Counts(u, Len(g) + Len(o) + Len(s) + Len(i))
  /\ Len(g) + Len(o) + Len(s) + Len(i) + Len(u) = NBytes
\* c and d are a and b after n bytes moved from b to a; c is a and b in one.
Moved(c, d, a, b, f, n) ==
  /\ Counts(c, f) /\ Len(c) = Len(a) + n
  /\ Counts(d, f + Len(a) + n) /\ Len(d) = Len(b) - n
Glued(c, a, b, f) == Counts(c, f) /\ Len(c) = Len(a) + Len(b)
TypeOK == /\ send_out = [p \in Peer |-> send_out[p]] /\ unsent = [p \in Peer |-> unsent[p]]
          /\ inq = [p \in Peer |-> inq[p]] /\ outq = [p \in Peer |-> outq[p]]
          /\ got = [p \in Peer |-> got[p]]
IInv == TypeOK /\ \A p \in Peer : Line(got[Other(p)], outq[Other(p)], send_out[p], inq[p], unsent[p])
=============================================================================
