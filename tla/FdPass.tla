------------------------------- MODULE FdPass -------------------------------
(***************************************************************************)
(* One client and the open server it forks, over a stream pipe: csopen and *)
(* the server's main of src/apue/17.5open_serv_1, with handle_request,     *)
(* buf_args and cli_args there, and send_err, send_fd and recv_fd (17.4).  *)
(*                                                                         *)
(* The streams keep no record boundaries: a read returns whatever has      *)
(* arrived, up to MAXLINE bytes.  A request longer than that is a "head"   *)
(* of MAXLINE bytes and a "tail"; the others are "whole".  An answer is an *)
(* error text (if it is not empty) and a null byte with a status byte,     *)
(* which carries a descriptor when the file was opened.                    *)
(***************************************************************************)
EXTENDS Naturals, Sequences

CONSTANTS Kind,     \* what a request may be: a subset of AllKinds
          MaxCalls  \* bound: calls of csopen

AllKinds == {"ok",      \* names a file that can be opened
             "noent",   \* names one that cannot
             "usage",   \* has not two arguments
             "many",    \* has MAXARGC words or more
             "long"}    \* does not fit in MAXLINE bytes

VARIABLES cpc,       \* the client: "idle", "wait", "dump" or "gone"
          calls,     \* csopen calls made: the number of the current request
          got,       \* number of the request the last result was for
          spc, errmsg, answer,  \* the server; what its global errmsg is about;
                                \* the rest of the answer it is sending
          c2s, s2c,
          cut        \* some request did not fit in one read
vars == <<cpc, calls, got, spc, errmsg, answer, c2s, s2c, cut>>

Init == /\ cpc = "idle" /\ calls = 0 /\ got = 0
        /\ spc = "read" /\ errmsg = 0 /\ answer = <<>>
        /\ c2s = <<>> /\ s2c = <<>> /\ cut = FALSE

-----------------------------------------------------------------------------
(* The client.                                                             *)

Piece(k, p) == [of |-> calls + 1, kind |-> k, part |-> p]

\* csopen up to writev.  The first call has forked the server.
csopen(k) ==
  /\ cpc = "idle" /\ calls < MaxCalls
  /\ calls' = calls + 1
  /\ c2s' = c2s \o IF k = "long" THEN <<Piece(k, "head"), Piece(k, "tail")>>
                                 ELSE <<Piece(k, "whole")>>
  /\ cut' = (cut \/ k = "long")
  /\ cpc' = "wait"
  /\ UNCHANGED <<got, spc, errmsg, answer, s2c>>

Stop(n) == s2c[n].k = "fd"   \* recvmsg returns nothing after a descriptor
Status(n) == s2c[n].k \in {"fd", "err"}

\* The mutant that returns as soon as some text has come.
recv_fdEager ==
  /\ cpc = "wait" /\ s2c # <<>>
  /\ got' = s2c[1].of /\ s2c' = Tail(s2c)
  /\ cpc' = "idle"
  /\ UNCHANGED <<calls, spc, errmsg, answer, c2s, cut>>

\* One recvmsg of recv_fd: text is printed, a status must be the end of it.
recv_fd ==
  /\ cpc = "wait"
  /\ \E n \in 1 .. Len(s2c) :
       /\ \A m \in 1 .. n - 1 : ~Stop(m)
       /\ s2c' = SubSeq(s2c, n + 1, Len(s2c))
       /\ LET st == {m \in 1 .. n : Status(m)}  IN
          /\ cpc' = IF st = {} THEN "wait" ELSE IF st = {n} THEN "idle" ELSE "dump"
          /\ got' = IF st = {n} THEN s2c[n].of ELSE got
  /\ UNCHANGED <<calls, spc, errmsg, answer, c2s, cut>>

\* The client exits between calls, or is killed in one.
Exit ==
  /\ cpc \in {"idle", "wait"}
  /\ cpc' = "gone"
  /\ UNCHANGED <<calls, got, spc, errmsg, answer, c2s, s2c, cut>>

-----------------------------------------------------------------------------
(* The server.                                                             *)

\* The client has exited, was killed or has aborted.
ClientGone == cpc \in {"gone", "dump"}

\* A read takes what is there, up to the end of a head.
Arrived == LET heads == {n \in 1 .. Len(c2s) : c2s[n].part = "head"}
           IN  IF heads = {} THEN Len(c2s) ELSE CHOOSE n \in heads : \A h \in heads : n <= h

ErrAnswer(e, n) == (IF e = 0 THEN <<>> ELSE <<[k |-> "text", of |-> e]>>)
                     \o <<[k |-> "err", of |-> n]>>

\* The mutant in which an unopened file is answered twice.
AnswerTwice(r, e) == IF r.kind = "noent" THEN ErrAnswer(e, r.of) \o ErrAnswer(e, r.of)
                     ELSE IF r.kind = "ok" THEN <<[k |-> "fd", of |-> r.of]>>
                     ELSE ErrAnswer(e, r.of)

\* The mutant that sends the text of an error and no status.
AnswerNoStatus(r, e) == IF r.kind = "ok" THEN <<[k |-> "fd", of |-> r.of]>>
                        ELSE <<[k |-> "text", of |-> e]>>

\* The answer to a request whose error text is e.
Answer(r, e) == IF r.kind = "ok" THEN <<[k |-> "fd", of |-> r.of]>>
                ELSE ErrAnswer(e, r.of)

\* What errmsg is about after a request: buf_args gives up on too many words
\* without writing it, all other errors do write it.
ErrText(r) == IF r.kind \in {"ok", "many"} THEN errmsg ELSE r.of

\* read and handle_request.  The last byte must be null; only what comes
\* before the first null is looked at.
handle_request ==
  /\ spc = "read" /\ c2s # <<>>
  /\ LET r == IF c2s[Arrived].part = "head" THEN c2s[Arrived] ELSE c2s[1]
     IN  errmsg' = ErrText(r) /\ answer' = Answer(r, ErrText(r))
  /\ c2s' = SubSeq(c2s, Arrived + 1, Len(c2s))
  /\ spc' = "send"
  /\ UNCHANGED <<cpc, calls, got, s2c, cut>>

\* One writen or sendmsg; to a client that is gone it ends the server.
Send ==
  /\ spc = "send"
  /\ \/ ClientGone /\ spc' = "gone" /\ UNCHANGED <<answer, s2c>>
     \/ /\ ~ClientGone
        /\ s2c' = Append(s2c, Head(answer))
        /\ answer' = Tail(answer)
        /\ spc' = IF Len(answer) = 1 THEN "read" ELSE "send"
  /\ UNCHANGED <<cpc, calls, got, errmsg, c2s, cut>>

\* The mutant that takes 0 bytes for a request to skip.
EofIgnored == spc = "read" /\ c2s = <<>> /\ ClientGone /\ UNCHANGED vars

\* read returns 0.
Eof ==
  /\ spc = "read" /\ c2s = <<>> /\ ClientGone
  /\ spc' = "gone"
  /\ UNCHANGED <<cpc, calls, got, errmsg, answer, c2s, s2c, cut>>

Server == handle_request \/ Send \/ Eof
Next == (\E k \in Kind : csopen(k)) \/ recv_fd \/ Exit \/ Server

\* Both processes run; the client need not call, nor exit.
Spec == Init /\ [][Next]_vars /\ WF_vars(recv_fd) /\ WF_vars(Server)

-----------------------------------------------------------------------------
(* A request that does not fit in one read is answered once for each part, *)
(* and every answer after that is one too late.                            *)

\* Until then csopen returns the descriptor, or the error, of the file it
\* named, however the streams cut the answers.
ReplyIsMine == cpc = "idle" /\ ~cut => got = calls

\* Until then recv_fd never meets bytes it cannot make sense of (err_dump).
NoDump == cpc = "dump" => cut

\* Until then nothing is left in the streams between two calls of csopen, nor
\* still to come.
Settled == cpc = "idle" /\ ~cut => c2s = <<>> /\ s2c = <<>> /\ spc = "read"

\* Every call of csopen returns, or aborts, unless its process is killed.
Waiting == cpc = "wait"
Returns == Waiting ~> ~ Waiting

\* The server ends once its client has, whatever was in the streams.
ServerGone == spc = "gone"
ServerEnds == ClientGone ~> ServerGone

-----------------------------------------------------------------------------
(* The inductive invariant the proofs of ReplyIsMine, NoDump and Settled   *)
(* rest on: until a request is cut, the one the client waits for is in one *)
(* place: on its way, being answered, or answered.                         *)

Text(x) == x.k = "text"
Final(x) == x.k \in {"fd", "err"} /\ x.of = calls

Asked == /\ spc = "read" /\ s2c = <<>> /\ c2s = <<c2s[1]>>
         /\ c2s[1].part = "whole" /\ c2s[1].of = calls
Answering == /\ spc = "send" /\ c2s = <<>>
             /\ \/ s2c = <<>> /\ answer = <<answer[1]>> /\ Final(answer[1])
                \/ /\ s2c = <<>> /\ answer = <<answer[1], answer[2]>>
                   /\ Text(answer[1]) /\ Final(answer[2])
                \/ /\ s2c = <<s2c[1]>> /\ Text(s2c[1])
                   /\ answer = <<answer[1]>> /\ Final(answer[1])
Answered == /\ spc = "read" /\ c2s = <<>>
            /\ \/ s2c = <<s2c[1]>> /\ Final(s2c[1])
               \/ s2c = <<s2c[1], s2c[2]>> /\ Text(s2c[1]) /\ Final(s2c[2])

IInv == /\ calls \in Nat /\ cut \in BOOLEAN
        /\ ~ cut => /\ cpc \in {"idle", "wait", "gone"}
                    /\ cpc = "idle" => c2s = <<>> /\ s2c = <<>> /\ spc = "read" /\ got = calls
                    /\ cpc = "wait" => Asked \/ Answering \/ Answered
=============================================================================
