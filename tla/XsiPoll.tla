------------------------------- MODULE XsiPoll -------------------------------
(***************************************************************************)
(* Polling System V message queues: a helper thread per queue takes each   *)
(* message and wakes main, which polls one socket pair per queue.  Two     *)
(* programs: src/apue/17.2socketpair_xsi_ipc.c passes the message itself   *)
(* as a datagram; the book's exercises/pollmsg2.c passes one byte, leaves  *)
(* the message in a buffer it shares with main, and waits on a condition   *)
(* variable, without a predicate, until main has printed it.               *)
(*                                                                         *)
(* A message is its number and its length.                                 *)
(***************************************************************************)
EXTENDS Naturals, Sequences

CONSTANTS Queue, MAXMSZ,
          SockBuf,      \* datagrams a socket holds before write waits
          MaxSpurious   \* bound: wake-ups of a condition wait for no reason

VARIABLES prog,     \* "datagram" or "shared"
          queue,    \* the queues: messages not yet received
          sock,     \* datagrams in the socket pairs
          m,        \* shared: the buffer, None when cleared
          helper,   \* "recv", "write", "wait" or "woken"
          msg,      \* the message the helper has received
          ready,    \* main: what poll returned and main has not yet served
          main,     \* "poll", or the queue whose message is being printed
          printed, spurious
vars == <<prog, queue, sock, m, helper, msg, ready, main, printed, spurious>>

None == <<0, 0>>
\* As if the sender filled its buffer to the last byte.
strncpyFull(l) == IF l <= MAXMSZ THEN l ELSE MAXMSZ
\* The length of the text the program sendmsg sends for an argument of length
\* l: one byte of its buffer stays zero.
strncpy(l) == IF l <= MAXMSZ - 1 THEN l ELSE MAXMSZ - 1
Sent == [i \in 1..MAXMSZ |-> <<i, strncpy(i)>>]     \* sent to every queue

Init == /\ prog \in {"datagram", "shared"}
        /\ queue = [q \in Queue |-> Sent] /\ sock = [q \in Queue |-> <<>>]
        /\ m = [q \in Queue |-> None] /\ helper = [q \in Queue |-> "recv"]
        /\ msg = [q \in Queue |-> None] /\ ready = {} /\ main = "poll"
        /\ printed = [q \in Queue |-> <<>>] /\ spurious = 0

-----------------------------------------------------------------------------
Go(q, l) == helper' = [helper EXCEPT ![q] = l]

\* msgrcv: in the shared program into the buffer main reads.
msgrcv(q) ==
  /\ helper[q] = "recv" /\ queue[q] # <<>>
  /\ msg' = [msg EXCEPT ![q] = Head(queue[q])]
  /\ queue' = [queue EXCEPT ![q] = Tail(@)] /\ Go(q, "write")
  /\ m' = IF prog = "shared" THEN [m EXCEPT ![q] = Head(queue[q])] ELSE m
  /\ UNCHANGED <<prog, sock, ready, main, printed, spurious>>

\* As if the helper did not hold the mutex from the write to the wait.
writeUnlocked(q) ==
  /\ helper[q] \in {"write", "towait"}
  /\ IF helper[q] = "write"
     THEN /\ Len(sock[q]) < SockBuf /\ sock' = [sock EXCEPT ![q] = Append(@, msg[q])]
          /\ Go(q, IF prog = "shared" THEN "towait" ELSE "recv")
     ELSE Go(q, "wait") /\ UNCHANGED sock
  /\ UNCHANGED <<prog, queue, m, msg, ready, main, printed, spurious>>

\* write to the socket, of the message or of one byte; the shared program holds
\* the mutex from before the write until pthread_cond_wait lets go of it, and
\* main signals under the mutex: it cannot signal before the helper waits.
write(q) ==
  /\ helper[q] = "write" /\ Len(sock[q]) < SockBuf
  /\ sock' = [sock EXCEPT ![q] = Append(@, msg[q])]
  /\ Go(q, IF prog = "shared" THEN "wait" ELSE "recv")
  /\ UNCHANGED <<prog, queue, m, msg, ready, main, printed, spurious>>

Woken(q) ==
  /\ helper[q] = "woken" /\ Go(q, "recv") /\ m' = [m EXCEPT ![q] = None]   \* memset
  /\ UNCHANGED <<prog, queue, sock, msg, ready, main, printed, spurious>>
Spurious(q) ==
  /\ helper[q] = "wait" /\ spurious < MaxSpurious /\ spurious' = spurious + 1
  /\ Go(q, "woken")
  /\ UNCHANGED <<prog, queue, sock, m, msg, ready, main, printed>>

-----------------------------------------------------------------------------
poll ==
  /\ main = "poll" /\ ready = {}
  /\ ready' = {q \in Queue : sock[q] # <<>>} /\ ready' # {}
  /\ UNCHANGED <<prog, queue, sock, m, helper, msg, main, printed, spurious>>

\* One datagram of a ready socket, in the order of the queues.
read(q) ==
  /\ main = "poll" /\ q \in ready
  /\ sock' = [sock EXCEPT ![q] = Tail(@)] /\ ready' = ready \ {q}
  /\ \/ /\ prog = "datagram" /\ printed' = [printed EXCEPT ![q] = Append(@, Head(sock[q]))]
        /\ UNCHANGED main
     \/ prog = "shared" /\ main' = q /\ UNCHANGED printed
  /\ UNCHANGED <<prog, queue, m, helper, msg, spurious>>

\* The shared program prints the buffer, then signals.
PrintShared(q) ==
  /\ main = q
  /\ printed' = [printed EXCEPT ![q] = Append(@, m[q])]
  /\ helper' = IF helper[q] = "wait" THEN [helper EXCEPT ![q] = "woken"] ELSE helper
  /\ main' = "poll"
  /\ UNCHANGED <<prog, queue, sock, m, msg, ready, spurious>>

HelperStep(q) == msgrcv(q) \/ write(q) \/ Woken(q)
MainStep == poll \/ \E q \in Queue : read(q) \/ PrintShared(q)
Next == MainStep \/ \E q \in Queue : HelperStep(q) \/ Spurious(q)
Spec == Init /\ [][Next]_vars /\ WF_vars(MainStep) /\ \A q \in Queue : WF_vars(HelperStep(q))

-----------------------------------------------------------------------------
\* The messages printed are the first ones sent.
InOrder(q) == /\ Len(printed[q]) <= MAXMSZ
              /\ \A n \in 1..Len(printed[q]) : printed[q][n] = Sent[n]

\* As long as no condition wait returns for no reason, main prints each
\* queue's messages once each and in order, though the shared buffer is read
\* without the mutex; and the terminator main puts after a datagram, at the
\* index of its length, is inside its buffer of MAXMSZ bytes.
PrintedInOrder ==
  /\ spurious = 0 \/ prog = "datagram" => \A q \in Queue : InOrder(q)
  /\ \A q \in Queue : \A i \in DOMAIN sock[q] : sock[q][i][2] < MAXMSZ

\* Every message is printed in the end; a helper whose wake-up was lost would
\* wait for ever and leave its queue to fill.
Printed == spurious > 0 \/ \A q \in Queue : Len(printed[q]) = MAXMSZ
AllPrinted == <>Printed

-----------------------------------------------------------------------------
(* The inductive invariant the proof of PrintedInOrder rests on.           *)

Message == Nat \X Nat
TypeOK == /\ prog \in {"datagram", "shared"} /\ spurious \in Nat
          /\ ready \subseteq Queue /\ main \in Queue \union {"poll"}
          /\ prog = "datagram" => main = "poll"
          /\ queue \in [Queue -> Seq(Message)] /\ sock \in [Queue -> Seq(Message)]
          /\ printed \in [Queue -> Seq(Message)]
          /\ m \in [Queue -> Message] /\ msg \in [Queue -> Message]
          /\ helper \in [Queue -> {"recv", "write", "wait", "woken"}]

Received(q) == MAXMSZ - Len(queue[q])   \* messages the helper has received
\* Whatever happens: the rest of the messages is in the queue, what is passed
\* has a proper length, and poll reports no empty socket.
QueueOK(q) == /\ Len(queue[q]) <= MAXMSZ
              /\ \A n \in 1..Len(queue[q]) : queue[q][n] = Sent[Received(q) + n]
SizeOK(q) == /\ msg[q][2] < MAXMSZ /\ \A n \in 1..Len(sock[q]) : sock[q][n][2] < MAXMSZ
             /\ q \in ready => Len(sock[q]) > 0

\* Every message received is printed, in the socket, or with the helper.
DatagramOK(q) ==
  /\ helper[q] \in {"recv", "write"}
  /\ Received(q) = Len(printed[q]) + Len(sock[q]) + IF helper[q] = "write" THEN 1 ELSE 0
  /\ helper[q] = "write" => msg[q] = Sent[Received(q)]
  /\ \A n \in 1..Len(sock[q]) : sock[q][n] = Sent[Len(printed[q]) + n]
\* Every message but the one in the buffer has been printed; main prints only
\* while the helper waits.
SharedOK(q) ==
  /\ Received(q) = Len(printed[q]) + IF helper[q] \in {"write", "wait"} THEN 1 ELSE 0
  /\ helper[q] \in {"write", "wait"} => m[q] = Sent[Received(q)] /\ msg[q] = m[q]
  /\ helper[q] = "wait" => Len(sock[q]) = IF main = q THEN 0 ELSE 1
  /\ helper[q] # "wait" => main # q /\ Len(sock[q]) = 0

QOK(q) == /\ QueueOK(q) /\ SizeOK(q)
          /\ prog = "datagram" => InOrder(q) /\ DatagramOK(q)
          /\ prog = "shared" /\ spurious = 0 => InOrder(q) /\ SharedOK(q)
IInv == TypeOK /\ \A q \in Queue : QOK(q)
==============================================================================
