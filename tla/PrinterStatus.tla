--------------------------- MODULE PrinterStatus ---------------------------
(***************************************************************************)
(* printer_status and readmore of src/apue/apue.3e/printer/printd.c: the   *)
(* answer of the printer comes in one or more reads, and is searched for   *)
(* the HTTP status, Content-Length, the end of the header and the IPP      *)
(* header.  The buffer is a sequence of tokens, one per piece the parser   *)
(* tells apart; the end of the header is the three characters "\n\r\n".    *)
(* i and datsz count tokens as the code counts bytes.                      *)
(***************************************************************************)
EXTENDS Naturals, Sequences

CONSTANT MaxInfo   \* bound: 1xx answers before the final one

Header == <<"x", "length", "x", "\n", "\r", "\n">>
Body == <<"ipp", "rest">>   \* Content-Length is Len(Body)

VARIABLES stream,   \* what the printer sends and has not been read
          buf,      \* bytes read so far
          datsz, i, \* as the code counts them
          pc,
          answer,   \* the final answer: HTTP status, job and IPP status
          whole     \* every answer so far came in a read of its own
vars == <<stream, buf, datsz, i, pc, answer, whole>>

Init ==
  /\ answer \in [http : {"2xx", "4xx", "bad"}, job : {"mine", "other"}, status : {"ok", "error"}]
  /\ \E n \in 0..MaxInfo :
       stream = [k \in 1..n |-> "1xx"] \o <<answer.http>> \o Header \o Body
  /\ buf = <<>> /\ datsz = 0 /\ i = 0 /\ pc = "read" /\ whole = TRUE

-----------------------------------------------------------------------------
\* tread returns the next n bytes of the stream; or nothing comes in time.
Part(n) == SubSeq(stream, 1, n)
Rest(n) == SubSeq(stream, n + 1, Len(stream))
Fail == pc' = "fail" /\ UNCHANGED <<stream, buf, datsz, i, answer, whole>>

\* The head of the loop: tread into the start of the buffer, then the status.
ReadStatus ==
  /\ pc = "read"
  /\ \/ Fail
     \/ /\ stream # <<>>
        /\ \E n \in 1..Len(stream) :
             /\ buf' = Part(n) /\ datsz' = n /\ i' = 1 /\ stream' = Rest(n)
             /\ whole' = (whole /\ n = IF stream[1] = "1xx" THEN 1 ELSE Len(stream))
             /\ pc' = CASE stream[1] = "2xx" -> "length"
                        [] stream[1] = "4xx" -> "fail"
                        [] OTHER -> "read"
        /\ UNCHANGED answer

\* What was never read is garbage.
At(k) == IF k < Len(buf) THEN buf[k + 1] ELSE "garbage"

\* readmore reads behind offset i and returns the offset of the end of the data;
\* printer_status adds that to datsz.
readmore(next) ==
  \/ Fail
  \/ /\ stream # <<>>
     /\ \E n \in 1..Len(stream) :
          /\ buf' = [k \in 1..i |-> At(k - 1)] \o Part(n) /\ stream' = Rest(n)
          /\ datsz' = datsz + i + n
          /\ pc' = next /\ UNCHANGED <<i, answer, whole>>

\* The search for Content-Length.
FindLength ==
  /\ pc = "length"
  /\ IF i >= datsz THEN readmore("length")
     ELSE /\ i' = i + 1 /\ pc' = IF At(i) = "length" THEN "more" ELSE "length"
          /\ UNCHANGED <<stream, buf, datsz, answer, whole>>

More == /\ pc = "more"
        /\ IF i >= datsz THEN readmore("end")
           ELSE pc' = "end" /\ UNCHANGED <<stream, buf, datsz, i, answer, whole>>

EndAt(k) == At(k) = "\n" /\ At(k + 1) = "\r" /\ At(k + 2) = "\n"

\* The search for the end of the header stops two bytes before the end of the
\* data.
FindEnd ==
  /\ pc = "end" /\ i + 2 < datsz
  /\ IF EndAt(i) THEN i' = i + 3 /\ pc' = "found" ELSE i' = i + 1 /\ UNCHANGED pc
  /\ UNCHANGED <<stream, buf, datsz, answer, whole>>

Found == /\ pc = "found"
         /\ IF i >= datsz THEN readmore("body")
            ELSE pc' = "body" /\ UNCHANGED <<stream, buf, datsz, i, answer, whole>>

\* The mutant that takes the status of any job.
JudgeAny ==
  /\ pc = "judge"
  /\ pc' \in IF At(i) = "ipp" THEN {IF answer.status = "ok" THEN "success" ELSE "fail"}
             ELSE {"success", "fail"}
  /\ UNCHANGED <<stream, buf, datsz, i, answer, whole>>

\* The request id, then the status.  What is no IPP header is any number.
Judge ==
  /\ pc = "judge"
  /\ pc' \in IF At(i) = "ipp"
             THEN {IF answer.job = "mine" /\ answer.status = "ok" THEN "success" ELSE "fail"}
             ELSE {"success", "fail"}
  /\ UNCHANGED <<stream, buf, datsz, i, answer, whole>>

\* The body: one more read if it is not all there, at offset i.
ReadBody ==
  /\ pc = "body"
  /\ IF datsz - i < Len(Body) THEN readmore("judge")
     ELSE pc' = "judge" /\ UNCHANGED <<stream, buf, datsz, i, answer, whole>>

\* With i at the end of the data more is read; with i one or two bytes before
\* it the loop goes round for ever.
ReadEnd == pc = "end" /\ i >= datsz /\ readmore("end")

Next == ReadStatus \/ FindLength \/ More \/ FindEnd \/ Found \/ ReadEnd \/ ReadBody \/ Judge
Spec == Init /\ [][Next]_vars /\ WF_vars(Next)

-----------------------------------------------------------------------------
\* When every answer comes in a read of its own, success means a 2xx answer that
\* says the job of this request went well, whatever 1xx answers precede it.
JudgedRight ==
  whole /\ pc = "success" => answer = [http |-> "2xx", job |-> "mine", status |-> "ok"]

\* As long as every answer comes in a read of its own: the stream is m answers
\* 1xx and then the final one, or that one is in the buffer, and i is where the
\* code takes it to be.
Word == {"1xx", "2xx", "4xx", "bad", "x", "length", "\n", "\r", "ipp", "rest"}
Answers(s, m) ==
  /\ s \in Seq(Word) /\ Len(s) = m + 9 /\ \A k \in 1..m : s[k] = "1xx"
  /\ s[m + 1] = answer.http /\ \A k \in 1..6 : s[m + 1 + k] = Header[k]
  /\ \A k \in 1..2 : s[m + 7 + k] = Body[k]
IInv ==
  /\ answer \in [http : {"2xx", "4xx", "bad"}, job : {"mine", "other"}, status : {"ok", "error"}]
  /\ whole \in BOOLEAN
  /\ whole =>
       \/ pc = "read" /\ \E m \in Nat : Answers(stream, m)
       \/ pc = "read" /\ stream = <<>>
       \/ pc = "fail"
       \/ /\ answer.http = "2xx" /\ Answers(buf, 0) /\ datsz = 9
          /\ \/ pc = "length" /\ i \in {1, 2}
             \/ pc = "more" /\ i = 3
             \/ pc = "end" /\ i \in {3, 4}
             \/ pc \in {"found", "body", "judge"} /\ i = 7
             \/ pc = "success" /\ answer.job = "mine" /\ answer.status = "ok"
=============================================================================
