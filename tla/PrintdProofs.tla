---------------------------- MODULE PrintdProofs ----------------------------
(***************************************************************************)
(* Proofs about the print spooler, for any number of clients, chunks and   *)
(* job numbers, and whenever the daemon dies and starts again.             *)
(***************************************************************************)
EXTENDS Printd, TLAPS

(***************************************************************************)
(* The inductive invariant.  A client gets one number, and every file, job *)
(* and document leads back to a client that got its number.  A client      *)
(* whose number nobody else got is alone with its files: until it has      *)
(* added its job nobody prints its document, and from then on the files    *)
(* stay until it is printed.                                               *)
(***************************************************************************)
DocRec == [of : Client, n : 0..NChunks]
JobRec == [id : JobId, of : Client \cup {NoFile}]

EarlyPC == {"none", "header", "number"}
BusyPC == {"creat", "data", "ctl", "write", "reply", "add", "undo data", "undo both"}
TPC == EarlyPC \cup BusyPC \cup {"signal", "gone"}
CPC == {"idle", "header", "file", "resp", "failed"}
WorkPC == {"update", "config", "open", "send", "status", "endless", "unlink", "unlink ctl", "defer"}
DocPC == {"send", "status", "endless", "unlink"}

Types ==
  /\ jobfile \in 0..MaxJob /\ nextjob \in 0..MaxJob /\ boot \in 0..MaxBoot
  /\ data \in [JobId -> {NoFile} \cup DocRec]
  /\ ctl \in [JobId -> Client \cup {NoFile, "part"}]
  /\ todo \subseteq JobId /\ jobs \in Seq(JobRec)
  /\ tpc \in [Client -> TPC] /\ cpc \in [Client -> CPC]
  /\ jobid \in [Client -> 0..MaxJob] /\ stored \in [Client -> Nat]
  /\ sent \in [Client -> 0..NChunks] /\ reply \in [Client -> {"none", "ok", "rejected"}]
  /\ handed \in [JobId -> SUBSET Client] /\ printed \subseteq DocRec

\* Clients are served only between the scan of the spool and the end of the
\* daemon.
MainOK ==
  /\ dpc # "down" => nextjob \in JobId
  /\ dpc # "serve" => \A c \in Client : tpc[c] \in {"none", "gone"}

\* What a client has sent and what its thread has stored.
SentOK(c) ==
  /\ tpc[c] # "none" => cpc[c] # "idle"
  /\ cpc[c] \in {"idle", "header"} => sent[c] = 0
  /\ cpc[c] = "file" => sent[c] < NChunks
  /\ cpc[c] = "resp" => sent[c] = NChunks
  /\ stored[c] <= sent[c]
  /\ tpc[c] \in EarlyPC \cup {"creat"} => stored[c] = 0
  /\ tpc[c] = "data" /\ Holds(c) => data[jobid[c]].n = stored[c]

\* The number of a client.
NumberOK(c) ==
  /\ tpc[c] \in EarlyPC => jobid[c] = 0
  /\ tpc[c] \in BusyPC \cup {"signal"} => jobid[c] # 0
  /\ jobid[c] # 0 => c \in handed[jobid[c]]
  /\ \A k \in JobId : c \in handed[k] => jobid[c] = k
  /\ Acked(c) => tpc[c] \in {"add", "signal", "gone"} /\ jobid[c] # 0

\* Whose files and jobs they are.
Ids(s) == {s[i].id : i \in 1..Len(s)}
Listed(k) == k \in Ids(jobs) \/ (ppc \in WorkPC /\ jp.id = k)

FilesOK(k) ==
  /\ data[k] # NoFile => data[k].of \in handed[k]
  /\ ctl[k] # NoFile \/ k \in todo \/ Listed(k) => handed[k] # {}

PrinterOK ==
  /\ ppc \in WorkPC => jp \in JobRec
  /\ ppc \in DocPC => doc \in DocRec /\ doc.of \in handed[jp.id]
  /\ (ppc = "status" /\ accepted) \/ ppc = "unlink" => doc \in printed
  /\ ppc = "unlink ctl" => \E d \in printed : d.of \in handed[jp.id]
  /\ \A d \in printed : \E k \in JobId : d.of \in handed[k]

\* Before its job is added, a client that is alone with its number is printed
\* by nobody.
AloneOK(c) ==
  tpc[c] \in BusyPC /\ (Listed(jobid[c]) \/ Printed(c)) => Reused(c)

\* The files of a client stay until it is printed.
KeptOK(c) ==
  \/ Reused(c) \/ Printed(c)
  \/ /\ tpc[c] \in {"data", "ctl", "write", "reply", "add", "signal"} => Holds(c)
     /\ tpc[c] \in {"reply", "add", "signal"} \/ Acked(c) => ctl[jobid[c]] = c /\ Holds(c)

\* A document that its client has sent to the end is whole in every place.
WholeOK(c) ==
  (tpc[c] \in {"ctl", "write", "reply", "add", "signal"} \/ Acked(c))
      /\ cpc[c] = "resp" /\ ~Reused(c)
  => /\ \A k \in JobId : data[k] # NoFile /\ data[k].of = c => data[k].n = NChunks
     /\ \A d \in printed : d.of = c => d.n = NChunks
     /\ ppc \in DocPC /\ doc.of = c => doc.n = NChunks

ClientOK(c) == SentOK(c) /\ NumberOK(c) /\ AloneOK(c) /\ KeptOK(c) /\ WholeOK(c)

ISpool ==
  /\ Types /\ MainOK /\ PrinterOK
  /\ \A k \in JobId : FilesOK(k)
  /\ \A c \in Client : ClientOK(c)
-----------------------------------------------------------------------------
(* The numbers of a list of jobs, for each thing that is done to one.      *)

LEMMA IdsEmpty == Ids(<<>>) = {}
BY DEF Ids

LEMMA IdsAppend ==
  ASSUME NEW s \in Seq(JobRec), NEW x \in JobRec
  PROVE  Append(s, x) \in Seq(JobRec) /\ Ids(Append(s, x)) \subseteq Ids(s) \cup {x.id}
<1>1. Append(s, x) \in Seq(JobRec) /\ Len(Append(s, x)) = Len(s) + 1 /\ Len(s) \in Nat
  OBVIOUS
<1>2. \A i \in 1..Len(s) + 1 : Append(s, x)[i] = IF i = Len(s) + 1 THEN x ELSE s[i]
  OBVIOUS
<1>3. \A i \in 1..Len(s) + 1 : i = Len(s) + 1 \/ i \in 1..Len(s)
  BY <1>1
<1> QED BY <1>1, <1>2, <1>3 DEF Ids

LEMMA IdsTail ==
  ASSUME NEW s \in Seq(JobRec), s # <<>>
  PROVE  /\ Head(s) \in JobRec /\ Tail(s) \in Seq(JobRec)
         /\ Head(s).id \in Ids(s) /\ Ids(Tail(s)) \subseteq Ids(s)
<1>1. Head(s) = s[1] /\ Head(s) \in JobRec /\ Tail(s) \in Seq(JobRec) /\ 1 \in 1..Len(s)
  OBVIOUS
<1>2. \A i \in 1..Len(Tail(s)) : Tail(s)[i] = s[i + 1] /\ i + 1 \in 1..Len(s)
  OBVIOUS
<1> QED BY <1>1, <1>2 DEF Ids

LEMMA IdsPush ==
  ASSUME NEW s \in Seq(JobRec), NEW x \in JobRec
  PROVE  <<x>> \o s \in Seq(JobRec) /\ Ids(<<x>> \o s) \subseteq Ids(s) \cup {x.id}
<1>1. <<x>> \o s \in Seq(JobRec) /\ Len(<<x>> \o s) = Len(s) + 1 /\ Len(s) \in Nat
  OBVIOUS
<1>2. \A i \in 1..Len(s) + 1 : (<<x>> \o s)[i] = IF i = 1 THEN x ELSE s[i - 1]
  OBVIOUS
<1>3. \A i \in 1..Len(s) + 1 : i = 1 \/ i - 1 \in 1..Len(s)
  BY <1>1
<1> QED BY <1>1, <1>2, <1>3 DEF Ids

(* Two clients of one number, and a number given out a second time.        *)

LEMMA Shared ==
  ASSUME ISpool, NEW c \in Client, NEW e \in Client, c # e,
         jobid[c] = jobid[e], jobid[e] # 0
  PROVE  Reused(e)
BY DEF ISpool, ClientOK, NumberOK, Reused

\* Whoever holds the document of a client got the client's number.
LEMMA Owner ==
  ASSUME ISpool, NEW k \in JobId, data[k] # NoFile
  PROVE  data[k] \in DocRec /\ data[k].of \in Client /\ jobid[data[k].of] = k
<1>1. data[k] \in DocRec /\ data[k].of \in Client
  BY DEF ISpool, Types, DocRec
<1>2. data[k].of \in handed[k]
  BY DEF ISpool, FilesOK
<1> QED BY <1>1, <1>2 DEF ISpool, ClientOK, NumberOK

\* A client thread at work has a number, which it shares with nobody that is
\* not counted as reused.
LEMMA Numbered ==
  ASSUME ISpool, NEW c \in Client, tpc[c] \in BusyPC \cup {"signal"}
  PROVE  /\ jobid[c] \in JobId /\ c \in handed[jobid[c]] /\ dpc = "serve"
         /\ Acked(c) => tpc[c] \in {"add", "signal"}
         /\ \A e \in Client : e # c /\ jobid[e] = jobid[c] => Reused(e)
<1>1. NumberOK(c) /\ MainOK /\ Types
  BY DEF ISpool, ClientOK
<1>2. jobid[c] \in JobId /\ c \in handed[jobid[c]]
  BY <1>1, PrintdAssumption DEF NumberOK, Types, JobId
<1>3. dpc = "serve" /\ tpc[c] \notin {"none", "gone"}
  BY <1>1 DEF MainOK, BusyPC
<1>4. Acked(c) => tpc[c] \in {"add", "signal"}
  BY <1>1, <1>3 DEF NumberOK
<1> QED BY <1>2, <1>3, <1>4, Shared DEF JobId

\* What Go and Reject assign.
LEMMA Goes ==
  ASSUME Types, NEW c \in Client, NEW l \in TPC, Go(c, l)
  PROVE  tpc' \in [Client -> TPC] /\ tpc'[c] = l /\ \A x \in Client : x # c => tpc'[x] = tpc[x]
BY DEF Types, Go

LEMMA Rejects ==
  ASSUME Types, NEW c \in Client, NEW l \in TPC, Reject(c, l)
  PROVE  /\ tpc' \in [Client -> TPC] /\ tpc'[c] = l
         /\ \A x \in Client : x # c => tpc'[x] = tpc[x]
         /\ reply' \in [Client -> {"none", "ok", "rejected"}] /\ ~Acked(c)'
         /\ \A x \in Client : x # c => reply'[x] = reply[x]
<1>1. reply' \in [Client -> {"none", "ok", "rejected"}] /\ ~Acked(c)'
      /\ \A x \in Client : x # c => reply'[x] = reply[x]
  BY DEF Types, Reject, Acked
<1> QED BY <1>1, Goes DEF Reject

LEMMA HasNumber ==
  ASSUME ISpool, NEW c \in Client
  PROVE  tpc[c] \in {"data", "ctl", "write", "reply", "add", "signal"} \/ Acked(c)
           => jobid[c] \in JobId
<1>1. NumberOK(c) /\ jobid[c] \in 0..MaxJob
  BY DEF ISpool, ClientOK, Types
<1>2. jobid[c] # 0 => jobid[c] \in JobId
  BY <1>1, PrintdAssumption DEF JobId
<1> QED BY <1>1, <1>2 DEF NumberOK, BusyPC

-----------------------------------------------------------------------------
(* Every action keeps the invariant.                                       *)

LEMMA StartKeeps ==
  ASSUME ISpool, Start
  PROVE  ISpool'
<1>0. /\ Types /\ MainOK /\ PrinterOK
      /\ (\A k \in JobId : FilesOK(k)) /\ (\A e \in Client : ClientOK(e))
  BY DEF ISpool
<1>1. Types'
  BY <1>0, PrintdAssumption DEF Types, JobId, Start, init_request, disk, thread, client,
      history
<1>2. MainOK'
  BY <1>0, PrintdAssumption DEF MainOK, Types, JobId, Start, init_request, disk, thread,
      client, history
<1>3. PrinterOK'
  BY <1>0 DEF PrinterOK, Types, DocRec, JobRec, WorkPC, DocPC, Start, init_request,
      disk, thread, client, history
<1>4. ASSUME NEW k \in JobId PROVE FilesOK(k)'
  BY <1>0, <1>4, IdsEmpty DEF FilesOK, Listed, WorkPC, Types, Start, init_request, disk,
      thread, client, history
<1>5. ASSUME NEW e \in Client PROVE ClientOK(e)'
  <2>0. SentOK(e) /\ NumberOK(e) /\ AloneOK(e) /\ KeptOK(e) /\ WholeOK(e)
    BY <1>0 DEF ClientOK
  <2>1. SentOK(e)'
    BY <1>0, <2>0 DEF SentOK, Holds, Types, EarlyPC, Start, init_request, disk, thread,
        client, history
  <2>2. NumberOK(e)'
    BY <1>0, <2>0 DEF NumberOK, Acked, Types, EarlyPC, BusyPC, Start, init_request,
        disk, thread, client, history
  <2>3. AloneOK(e)'
    BY <1>0, <2>0 DEF AloneOK, Listed, Printed, Reused, Types, BusyPC, WorkPC, MainOK,
        Start, init_request, disk, thread, client, history
  <2>4. KeptOK(e)'
    BY <1>0, <2>0 DEF KeptOK, Holds, Printed, Reused, Acked, Types, Start, init_request,
        disk, thread, client, history
  <2>5. WholeOK(e)'
    BY <1>0, <2>0 DEF WholeOK, Reused, Acked, Types, DocPC, Start, init_request, disk,
        thread, client, history
  <2> QED BY <2>1, <2>2, <2>3, <2>4, <2>5 DEF ClientOK
<1> QED BY <1>1, <1>2, <1>3, <1>4, <1>5 DEF ISpool

LEMMA BuildQonstartKeeps ==
  ASSUME ISpool, build_qonstart
  PROVE  ISpool'
<1>0. /\ Types /\ MainOK /\ PrinterOK
      /\ (\A k \in JobId : FilesOK(k)) /\ (\A e \in Client : ClientOK(e))
  BY DEF ISpool
<1>p. /\ dpc \in {"scan", "signal"} /\ dpc' \in {"scan", "signal", "serve"}
      /\ \A x \in Client : tpc[x] \in {"none", "gone"}
  BY <1>0 DEF MainOK, build_qonstart
<1>u. /\ UNCHANGED <<jobfile, boot, nextjob, jp, doc, accepted, thread, client, history>>
      /\ ppc' = ppc \/ (ppc = "wait" /\ ppc' = "pick")
  BY DEF build_qonstart, printer, shared, disk
<1>e. /\ data' \in [JobId -> {NoFile} \cup DocRec] /\ ctl' \in [JobId -> Client \cup {NoFile, "part"}]
      /\ \A k \in JobId : \/ data'[k] = data[k] /\ ctl'[k] = ctl[k]
                          \/ ctl[k] = "part" /\ data'[k] = NoFile /\ ctl'[k] = NoFile
      /\ todo' \subseteq todo /\ jobs' \in Seq(JobRec)
      /\ Ids(jobs') \subseteq Ids(jobs) \cup todo
  <2>0. /\ data \in [JobId -> {NoFile} \cup DocRec] /\ ctl \in [JobId -> Client \cup {NoFile, "part"}]
        /\ jobs \in Seq(JobRec) /\ todo \subseteq JobId
    BY <1>0 DEF Types
  <2>1. CASE UNCHANGED <<disk, todo, jobs>>
    BY <2>0, <2>1 DEF disk
  <2>2. ASSUME NEW k \in todo, ctl[k] = "part", todo' = todo \ {k},
               ctl' = [ctl EXCEPT ![k] = NoFile], data' = [data EXCEPT ![k] = NoFile], jobs' = jobs
        PROVE  <1>e!:
    BY <2>0, <2>2
  <2>3. ASSUME NEW k \in todo, ctl[k] # "part", todo' = todo \ {k},
               UNCHANGED <<ctl, data>>, jobs' = Append(jobs, Job(k))
        PROVE  <1>e!:
    <3>1. Job(k) \in JobRec /\ Job(k).id = k
      BY <2>0, <2>3 DEF Job, JobRec
    <3>2. jobs' \in Seq(JobRec) /\ Ids(jobs') \subseteq Ids(jobs) \cup {k}
      BY <2>0, <2>3, <3>1, IdsAppend
    <3> QED BY <2>0, <2>3, <3>2
  <2> QED BY <2>1, <2>2, <2>3 DEF build_qonstart, shared
<1>1. Types'
  BY <1>0, <1>e, <1>u DEF Types, thread, client, history
<1>2. MainOK'
  BY <1>0, <1>p, <1>u DEF MainOK, thread
<1>3. PrinterOK'
  BY <1>0, <1>u DEF PrinterOK, WorkPC, DocPC, history
<1>4. ASSUME NEW k \in JobId PROVE FilesOK(k)'
  BY <1>0, <1>e, <1>u, <1>4 DEF FilesOK, Listed, WorkPC, history
<1>5. ASSUME NEW e \in Client PROVE ClientOK(e)'
  <2>0. SentOK(e) /\ NumberOK(e) /\ AloneOK(e) /\ KeptOK(e) /\ WholeOK(e)
    BY <1>0 DEF ClientOK
  <2>j. tpc[e] \in {"data", "ctl", "write", "reply", "add", "signal"} \/ Acked(e)
          => jobid[e] \in JobId
    BY HasNumber
  <2>1. SentOK(e)'
    BY <2>0, <1>p, <1>u DEF SentOK, EarlyPC, thread, client
  <2>2. NumberOK(e)'
    BY <2>0, <1>u DEF NumberOK, Acked, thread, history
  <2>3. AloneOK(e)'
    BY <1>p, <1>u DEF AloneOK, BusyPC, thread
  <2>4. KeptOK(e)'
    BY <2>0, <2>j, <1>e, <1>p, <1>u, PrintdAssumption
       DEF KeptOK, Holds, Printed, Reused, Acked, thread, history
  <2>5. WholeOK(e)'
    <3>1. \A k \in JobId : data'[k] # NoFile => data'[k] = data[k]
      BY <1>e
    <3> QED BY <2>0, <1>u, <3>1 DEF WholeOK, DocPC, Reused, Acked, thread, client, history
  <2> QED BY <2>1, <2>2, <2>3, <2>4, <2>5 DEF ClientOK
<1> QED BY <1>1, <1>2, <1>3, <1>4, <1>5 DEF ISpool

LEMMA AcceptKeeps ==
  ASSUME ISpool, NEW c \in Client, Accept(c)
  PROVE  ISpool'
<1>0. /\ Types /\ MainOK /\ PrinterOK
      /\ (\A k \in JobId : FilesOK(k)) /\ (\A e \in Client : ClientOK(e))
  BY DEF ISpool
<1>1. Types'
  BY <1>0, PrintdAssumption DEF Types, TPC, EarlyPC, BusyPC, JobId, Accept, disk, main,
      shared, printer, client, history
<1>2. MainOK'
  BY <1>0, PrintdAssumption DEF MainOK, Types, JobId, Accept, disk, main, shared,
      printer, client, history
<1>3. PrinterOK'
  BY <1>0 DEF PrinterOK, Types, DocRec, JobRec, WorkPC, DocPC, Accept, disk, main,
      shared, printer, client, history
<1>4. ASSUME NEW k \in JobId PROVE FilesOK(k)'
  BY <1>0, <1>4 DEF FilesOK, Listed, WorkPC, Types, Accept, disk, main, shared, printer,
      client, history
<1>5. ASSUME NEW e \in Client PROVE ClientOK(e)'
  <2>0. SentOK(e) /\ NumberOK(e) /\ AloneOK(e) /\ KeptOK(e) /\ WholeOK(e)
    BY <1>0 DEF ClientOK
  <2>1. SentOK(e)'
    BY <1>0, <2>0 DEF SentOK, Holds, Types, EarlyPC, Accept, disk, main, shared,
        printer, client, history
  <2>2. NumberOK(e)'
    BY <1>0, <2>0 DEF NumberOK, Acked, Types, EarlyPC, BusyPC, Accept, disk, main,
        shared, printer, client, history
  <2>3. AloneOK(e)'
    BY <1>0, <2>0 DEF AloneOK, Listed, Printed, Reused, Types, BusyPC, WorkPC, Accept,
        disk, main, shared, printer, client, history
  <2>4. KeptOK(e)'
    BY <1>0, <2>0 DEF KeptOK, Holds, Printed, Reused, Acked, Types, Accept, disk, main,
        shared, printer, client, history
  <2>5. WholeOK(e)'
    BY <1>0, <2>0 DEF WholeOK, Reused, Acked, Types, DocPC, Accept, disk, main, shared,
        printer, client, history
  <2> QED BY <2>1, <2>2, <2>3, <2>4, <2>5 DEF ClientOK
<1> QED BY <1>1, <1>2, <1>3, <1>4, <1>5 DEF ISpool

LEMMA GoneKeeps ==
  ASSUME ISpool, Gone,
         UNCHANGED <<disk, boot, jobid, stored, reply, sent, history>>
  PROVE  ISpool'
<1>0. /\ Types /\ MainOK /\ PrinterOK
      /\ (\A k \in JobId : FilesOK(k)) /\ (\A e \in Client : ClientOK(e))
  BY DEF ISpool
<1>1. Types'
  <2>1. tpc' \in [Client -> TPC] /\ cpc' \in [Client -> CPC]
    BY <1>0 DEF Types, TPC, EarlyPC, CPC, Gone
  <2>2. nextjob' \in 0..MaxJob /\ jobs' \in Seq(JobRec)
    BY <1>0, PrintdAssumption DEF Gone
  <2> QED BY <1>0, <2>1, <2>2 DEF Types, Gone, disk, history
<1>2. MainOK'
  BY <1>0, PrintdAssumption DEF MainOK, Types, JobId, Gone, disk, history
<1>3. PrinterOK'
  BY <1>0 DEF PrinterOK, Types, DocRec, JobRec, WorkPC, DocPC, Gone, disk, history
<1>4. ASSUME NEW k \in JobId PROVE FilesOK(k)'
  BY <1>0, <1>4, IdsEmpty DEF FilesOK, Listed, WorkPC, Types, Gone, disk, history
<1>5. ASSUME NEW e \in Client PROVE ClientOK(e)'
  <2>0. SentOK(e) /\ NumberOK(e) /\ AloneOK(e) /\ KeptOK(e) /\ WholeOK(e)
    BY <1>0 DEF ClientOK
  <2>1. SentOK(e)'
    BY <1>0, <2>0 DEF SentOK, Holds, Types, EarlyPC, Gone, disk, history
  <2>2. NumberOK(e)'
    BY <1>0, <2>0 DEF NumberOK, Acked, Types, EarlyPC, BusyPC, SentOK, Gone, disk,
        history
  <2>3. AloneOK(e)'
    BY <1>0, <2>0 DEF AloneOK, Listed, Printed, Reused, Types, BusyPC, WorkPC, SentOK,
        Gone, disk, history
  <2>4. KeptOK(e)'
    BY <1>0, <2>0 DEF KeptOK, Holds, Printed, Reused, Acked, Types, Gone, disk, history
  <2>5. WholeOK(e)'
    BY <1>0, <2>0 DEF WholeOK, Reused, Acked, Types, DocPC, Gone, disk, history
  <2> QED BY <2>1, <2>2, <2>3, <2>4, <2>5 DEF ClientOK
<1> QED BY <1>1, <1>2, <1>3, <1>4, <1>5 DEF ISpool

LEMMA ReadHeaderKeeps ==
  ASSUME ISpool, NEW c \in Client, ReadHeader(c)
  PROVE  ISpool'
<1>0. /\ Types /\ MainOK /\ PrinterOK
      /\ (\A k \in JobId : FilesOK(k)) /\ (\A e \in Client : ClientOK(e))
  BY DEF ISpool
<1>1. Types'
  <2>1. tpc' \in [Client -> TPC] /\ reply' \in [Client -> {"none", "ok", "rejected"}]
    BY <1>0 DEF Types, TPC, EarlyPC, BusyPC, ReadHeader, Go, Reject
  <2> QED BY <1>0, <2>1 DEF Types, ReadHeader, disk, main, shared, client, history
<1>2. MainOK'
  BY <1>0, PrintdAssumption DEF MainOK, Types, JobId, ReadHeader, treadn, Go, Reject,
      disk, main, shared, printer, client, history
<1>3. PrinterOK'
  BY <1>0 DEF PrinterOK, Types, DocRec, JobRec, WorkPC, DocPC, ReadHeader, treadn, Go,
      Reject, disk, main, shared, printer, client, history
<1>4. ASSUME NEW k \in JobId PROVE FilesOK(k)'
  BY <1>0, <1>4 DEF FilesOK, Listed, WorkPC, Types, ReadHeader, treadn, Go, Reject,
      disk, main, shared, printer, client, history
<1>5. ASSUME NEW e \in Client PROVE ClientOK(e)'
  <2>0. SentOK(e) /\ NumberOK(e) /\ AloneOK(e) /\ KeptOK(e) /\ WholeOK(e)
    BY <1>0 DEF ClientOK
  <2>1. SentOK(e)'
    BY <1>0, <2>0 DEF SentOK, Holds, Types, EarlyPC, ReadHeader, treadn, Go, Reject,
        disk, main, shared, printer, client, history
  <2>2. NumberOK(e)'
    BY <1>0, <2>0 DEF NumberOK, Acked, Types, EarlyPC, BusyPC, ReadHeader, treadn, Go,
        Reject, disk, main, shared, printer, client, history
  <2>3. AloneOK(e)'
    BY <1>0, <2>0 DEF AloneOK, Listed, Printed, Reused, Types, BusyPC, WorkPC,
        ReadHeader, treadn, Go, Reject, disk, main, shared, printer, client, history
  <2>4. KeptOK(e)'
    BY <1>0, <2>0 DEF KeptOK, Holds, Printed, Reused, Acked, Types, ReadHeader, treadn,
        Go, Reject, disk, main, shared, printer, client, history
  <2>5. WholeOK(e)'
    BY <1>0, <2>0 DEF WholeOK, Reused, Acked, Types, DocPC, ReadHeader, treadn, Go,
        Reject, disk, main, shared, printer, client, history
  <2> QED BY <2>1, <2>2, <2>3, <2>4, <2>5 DEF ClientOK
<1> QED BY <1>1, <1>2, <1>3, <1>4, <1>5 DEF ISpool

LEMMA GetNewjobnoKeeps ==
  ASSUME ISpool, NEW c \in Client, get_newjobno(c)
  PROVE  ISpool'
<1>0. /\ Types /\ MainOK /\ PrinterOK
      /\ (\A k \in JobId : FilesOK(k)) /\ (\A e \in Client : ClientOK(e))
  BY DEF ISpool
<1>u. /\ tpc[c] = "number"
      /\ UNCHANGED <<disk, main, jobs, printer, stored, reply, client, printed, lost>>
  BY DEF get_newjobno
<1>p. nextjob \in JobId /\ dpc = "serve" /\ jobid[c] = 0 /\ ~Acked(c)
  BY <1>0, <1>u DEF MainOK, ClientOK, NumberOK, EarlyPC
<1>n. \A k \in JobId : c \notin handed[k]
  BY <1>0, <1>p DEF ClientOK, NumberOK, JobId
<1>g. /\ tpc' \in [Client -> TPC] /\ tpc'[c] = "creat"
      /\ \A x \in Client : x # c => tpc'[x] = tpc[x]
  BY <1>0, Goes DEF get_newjobno, TPC, BusyPC
<1>e. /\ jobid' \in [Client -> 0..MaxJob] /\ jobid'[c] = nextjob
      /\ \A x \in Client : x # c => jobid'[x] = jobid[x]
  BY <1>0 DEF Types, get_newjobno
<1>h. /\ handed' \in [JobId -> SUBSET Client]
      /\ handed'[nextjob] = handed[nextjob] \cup {c}
      /\ \A k \in JobId : k # nextjob => handed'[k] = handed[k]
  BY <1>0, <1>p DEF Types, get_newjobno
<1>k. nextjob' \in JobId
  BY <1>p, PrintdAssumption DEF JobId, get_newjobno
<1>i. \A x \in Client : jobid[x] # 0 => jobid[x] \in JobId /\ x \in handed[jobid[x]]
  BY <1>0, PrintdAssumption DEF ClientOK, NumberOK, Types, JobId
<1>r. \A x \in Client : x # c /\ jobid[x] # 0 /\ Reused(x) => Reused(x)'
  BY <1>e, <1>h, <1>i DEF Reused
<1>1. Types'
  <2>1. nextjob' \in 0..MaxJob
    BY <1>k, PrintdAssumption DEF JobId
  <2> QED BY <1>0, <1>g, <1>e, <1>h, <1>u, <2>1 DEF Types, disk, main, client
<1>2. MainOK'
  BY <1>0, <1>p, <1>k, <1>u DEF MainOK, main
<1>3. PrinterOK'
  <2>1. \A k \in JobId : handed[k] \subseteq handed'[k]
    BY <1>h
  <2>2. ppc \in WorkPC => jp.id \in JobId
    BY <1>0 DEF PrinterOK, JobRec
  <2> QED BY <1>0, <1>u, <2>1, <2>2 DEF PrinterOK, DocPC, WorkPC, printer
<1>4. ASSUME NEW k \in JobId PROVE FilesOK(k)'
  BY <1>0, <1>h, <1>u, <1>4 DEF FilesOK, Listed, disk, main, printer
<1>5. ASSUME NEW e \in Client PROVE ClientOK(e)'
  <2>0. SentOK(e) /\ NumberOK(e) /\ AloneOK(e) /\ KeptOK(e) /\ WholeOK(e)
    BY <1>0 DEF ClientOK
  <2>j. tpc[e] \in {"data", "ctl", "write", "reply", "add", "signal"} \/ Acked(e)
          => jobid[e] \in JobId
    BY HasNumber
  <2>1. SentOK(e)'
    BY <2>0, <1>e, <1>g, <1>u DEF SentOK, Holds, EarlyPC, disk, client
  <2>2. NumberOK(e)'
    <3>1. CASE e = c
      BY <1>e, <1>g, <1>h, <1>n, <1>p, <1>u, <3>1 DEF NumberOK, Acked, EarlyPC, BusyPC, JobId
    <3>2. CASE e # c
      BY <2>0, <1>e, <1>g, <1>h, <1>i, <1>u, <3>2 DEF NumberOK, Acked
    <3> QED BY <3>1, <3>2
  <2>3. AloneOK(e)'
    <3>1. CASE e = c
      <4>1. ~Printed(c)
        BY <1>0, <1>n DEF Printed, PrinterOK
      <4>2. Listed(nextjob) => handed[nextjob] # {}
        BY <1>0, <1>p DEF FilesOK
      <4>3. Listed(nextjob) => Reused(c)'
        BY <1>0, <1>e, <1>h, <1>n, <1>p, <4>2 DEF Reused, JobId
      <4> QED BY <1>e, <1>u, <3>1, <4>1, <4>3 DEF AloneOK, Listed, Printed, printer
    <3>2. CASE e # c
      BY <2>0, <1>e, <1>g, <1>r, <1>u, <3>2 DEF AloneOK, NumberOK, Listed, Printed, printer
    <3> QED BY <3>1, <3>2
  <2>4. KeptOK(e)'
    <3>1. CASE e = c
      BY <1>g, <1>p, <1>u, <3>1 DEF KeptOK, Acked
    <3>2. CASE e # c
      BY <2>0, <2>j, <1>e, <1>g, <1>r, <1>u, <3>2 DEF KeptOK, Holds, Printed, Acked, Reused, disk
    <3> QED BY <3>1, <3>2
  <2>5. WholeOK(e)'
    <3>1. CASE e = c
      BY <1>g, <1>p, <1>u, <3>1 DEF WholeOK, Acked
    <3>2. CASE e # c
      <4>1. (tpc[e] \in {"ctl", "write", "reply", "add", "signal"} \/ Acked(e)) /\ Reused(e) => Reused(e)'
        BY <1>r, <2>j, <3>2 DEF JobId
      <4> QED BY <2>0, <1>g, <1>u, <3>2, <4>1 DEF WholeOK, Acked, disk, client, printer
    <3> QED BY <3>1, <3>2
  <2> QED BY <2>1, <2>2, <2>3, <2>4, <2>5 DEF ClientOK
<1> QED BY <1>1, <1>2, <1>3, <1>4, <1>5 DEF ISpool

LEMMA CreatDataKeeps ==
  ASSUME ISpool, NEW c \in Client, CreatData(c)
  PROVE  ISpool'
<1>0. /\ Types /\ MainOK /\ PrinterOK
      /\ (\A k \in JobId : FilesOK(k)) /\ (\A e \in Client : ClientOK(e))
  BY DEF ISpool
<1>p. /\ jobid[c] \in JobId /\ c \in handed[jobid[c]] /\ dpc = "serve" /\ ~Acked(c)
      /\ \A e \in Client : e # c /\ jobid[e] = jobid[c] => Reused(e)
  BY Numbered DEF BusyPC, CreatData
<1>d. [of |-> c, n |-> 0] \in DocRec \ {NoFile}
  BY PrintdAssumption DEF DocRec
<1>c. \/ Go(c, "data") /\ UNCHANGED reply /\ data' = [data EXCEPT ![jobid[c]] = [of |-> c, n |-> 0]]
      \/ Reject(c, "gone") /\ UNCHANGED data
  BY DEF CreatData
<1>g. /\ tpc' \in [Client -> TPC] /\ reply' \in [Client -> {"none", "ok", "rejected"}]
      /\ tpc'[c] \in {"data", "gone"} /\ ~Acked(c)'
      /\ \A x \in Client : x # c => tpc'[x] = tpc[x] /\ reply'[x] = reply[x]
  BY <1>0, <1>c, <1>p, Goes, Rejects DEF Types, TPC, BusyPC, Acked
<1>e. /\ data' \in [JobId -> {NoFile} \cup DocRec]
      /\ \A k \in JobId : k # jobid[c] => data'[k] = data[k]
      /\ data'[jobid[c]] = [of |-> c, n |-> 0] \/ (tpc'[c] = "gone" /\ UNCHANGED data)
  BY <1>0, <1>c, <1>d, <1>p, Rejects DEF Types, TPC
<1>u. /\ tpc[c] = "creat"
      /\ UNCHANGED <<jobfile, ctl, main, shared, printer, jobid, stored, client, history>>
  BY DEF CreatData
<1>1. Types'
  BY <1>0, <1>g, <1>e, <1>u DEF Types, main, shared, client, history
<1>2. MainOK'
  BY <1>0, PrintdAssumption, <1>p DEF MainOK, Types, JobId, CreatData, Go, Reject, main,
      shared, printer, client, history
<1>3. PrinterOK'
  BY <1>0, <1>p DEF PrinterOK, Types, DocRec, JobRec, WorkPC, DocPC, CreatData, Go,
      Reject, main, shared, printer, client, history
<1>4. ASSUME NEW k \in JobId PROVE FilesOK(k)'
  BY <1>0, <1>p, <1>e, <1>u, <1>4 DEF FilesOK, Listed, main, shared, printer, history
<1>5. ASSUME NEW e \in Client PROVE ClientOK(e)'
  <2>0. SentOK(e) /\ NumberOK(e) /\ AloneOK(e) /\ KeptOK(e) /\ WholeOK(e)
    BY <1>0 DEF ClientOK
  <2>j. tpc[e] \in {"data", "ctl", "write", "reply", "add", "signal"} \/ Acked(e)
          => jobid[e] \in JobId
    BY HasNumber
  <2>1. SentOK(e)'
    BY <1>0, <1>p, <1>d, <1>e, <1>g, <1>u, <2>0, <2>j DEF SentOK, Holds, Types, EarlyPC, client
  <2>2. NumberOK(e)'
    BY <1>0, <2>0, <1>p DEF NumberOK, Acked, Types, EarlyPC, BusyPC, CreatData, Go,
        Reject, main, shared, printer, client, history
  <2>3. AloneOK(e)'
    BY <1>0, <2>0, <1>p DEF AloneOK, Listed, Printed, Reused, Types, BusyPC, WorkPC,
        CreatData, Go, Reject, main, shared, printer, client, history
  <2>4. KeptOK(e)'
    <3>1. CASE e = c
      BY <1>d, <1>e, <1>g, <1>p, <1>u, <3>1 DEF KeptOK, Holds
    <3>2. CASE e # c
      BY <2>0, <2>j, <1>p, <1>e, <1>g, <1>u, <3>2 DEF KeptOK, Holds, Printed, Reused, Acked, history
    <3> QED BY <3>1, <3>2
  <2>5. WholeOK(e)'
    <3>1. CASE e = c
      BY <1>g, <1>u, <3>1 DEF WholeOK
    <3>2. CASE e # c
      BY <2>0, <1>p, <1>e, <1>g, <1>u, <3>2
         DEF WholeOK, Reused, Acked, client, history, printer
    <3> QED BY <3>1, <3>2
  <2> QED BY <2>1, <2>2, <2>3, <2>4, <2>5 DEF ClientOK
<1> QED BY <1>1, <1>2, <1>3, <1>4, <1>5 DEF ISpool

LEMMA ReadDataKeeps ==
  ASSUME ISpool, NEW c \in Client, ReadData(c)
  PROVE  ISpool'
<1>0. /\ Types /\ MainOK /\ PrinterOK
      /\ (\A k \in JobId : FilesOK(k)) /\ (\A e \in Client : ClientOK(e))
  BY DEF ISpool
<1>p. /\ jobid[c] \in JobId /\ c \in handed[jobid[c]] /\ dpc = "serve" /\ ~Acked(c)
      /\ \A e \in Client : e # c /\ jobid[e] = jobid[c] => Reused(e)
  BY Numbered DEF BusyPC, ReadData
<1>s. /\ SentOK(c) /\ stored[c] \in Nat /\ sent[c] \in 0..NChunks /\ NChunks \in Nat
      /\ tread(c) = "chunk" => stored[c] < sent[c]
      /\ tread(c) = "none" => stored[c] = sent[c]
  BY <1>0, PrintdAssumption DEF ClientOK, SentOK, Types, tread
<1>g. /\ tpc' \in [Client -> TPC] /\ reply' \in [Client -> {"none", "ok", "rejected"}]
      /\ tpc'[c] \in {"data", "undo data", "ctl"} /\ ~Acked(c)'
      /\ \A x \in Client : x # c => tpc'[x] = tpc[x] /\ reply'[x] = reply[x]
  <2>1. CASE UNCHANGED <<tpc, reply>>
    BY <1>0, <1>p, <2>1 DEF Types, Acked, ReadData
  <2>2. CASE Reject(c, "undo data")
    BY <1>0, <2>2, Rejects DEF TPC, BusyPC
  <2>3. CASE Go(c, "ctl") /\ UNCHANGED reply
    BY <1>0, <1>p, <2>3, Goes DEF Types, TPC, BusyPC, Acked
  <2> QED BY <2>1, <2>2, <2>3 DEF ReadData
<1>h. /\ stored' \in [Client -> Nat]
      /\ \A x \in Client : x # c => stored'[x] = stored[x]
      /\ tpc'[c] = "data" => stored'[c] = stored[c] + 1 /\ stored[c] < sent[c]
      /\ tpc'[c] = "undo data" => stored'[c] = stored[c]
      /\ tpc'[c] = "ctl" => stored'[c] = 0 /\ stored[c] = sent[c]
  <2>0. stored \in [Client -> Nat] /\ tpc[c] = "data"
    BY <1>0 DEF Types, ReadData
  <2>1. CASE UNCHANGED tpc /\ tread(c) = "chunk" /\ stored' = [stored EXCEPT ![c] = @ + 1]
    <3>1. /\ stored' \in [Client -> Nat] /\ stored'[c] = stored[c] + 1
          /\ \A x \in Client : x # c => stored'[x] = stored[x]
      BY <2>0, <2>1
    <3> QED BY <1>s, <2>0, <2>1, <3>1
  <2>2. CASE Reject(c, "undo data") /\ UNCHANGED stored
    <3>1. tpc'[c] = "undo data"
      BY <1>0, <2>2, Rejects DEF TPC, BusyPC
    <3> QED BY <2>0, <2>2, <3>1
  <2>3. CASE Go(c, "ctl") /\ tread(c) = "none" /\ stored' = [stored EXCEPT ![c] = 0]
    <3>1. tpc'[c] = "ctl"
      BY <1>0, <2>3, Goes DEF TPC, BusyPC
    <3> QED BY <1>s, <2>0, <2>3, <3>1
  <2> QED BY <2>1, <2>2, <2>3 DEF ReadData
<1>e. /\ data' \in [JobId -> {NoFile} \cup DocRec]
      /\ \A k \in JobId : k # jobid[c] => data'[k] = data[k]
      /\ \/ UNCHANGED data /\ (tpc'[c] = "data" => ~Holds(c))
         \/ /\ Holds(c) /\ tpc'[c] = "data"
            /\ data'[jobid[c]].of = c /\ data'[jobid[c]].n = stored[c] + 1
            /\ data'[jobid[c]] # NoFile
  <2>1. CASE /\ Holds(c) /\ tread(c) = "chunk" /\ UNCHANGED tpc
             /\ data' = [data EXCEPT ![jobid[c]].n = stored[c] + 1]
    <3>1. data[jobid[c]] \in DocRec /\ data[jobid[c]].of = c
      BY <1>0, <1>p, <2>1 DEF Types, Holds
    <3>2. [data[jobid[c]] EXCEPT !.n = stored[c] + 1] = [of |-> c, n |-> stored[c] + 1]
      BY <3>1 DEF DocRec
    <3>3. [of |-> c, n |-> stored[c] + 1] \in DocRec \ {NoFile}
      BY <1>s, <2>1, PrintdAssumption DEF DocRec
    <3>4. /\ data'[jobid[c]] = [of |-> c, n |-> stored[c] + 1]
          /\ \A k \in JobId : k # jobid[c] => data'[k] = data[k]
      BY <1>0, <1>p, <2>1, <3>2 DEF Types
    <3>5. data' \in [JobId -> {NoFile} \cup DocRec]
      BY <1>0, <2>1, <3>2, <3>3 DEF Types
    <3>6. tpc'[c] = "data"
      BY <2>1 DEF ReadData
    <3> QED BY <2>1, <3>3, <3>4, <3>5, <3>6
  <2>2. CASE UNCHANGED data /\ (~Holds(c) \/ tpc'[c] # "data")
    BY <1>0, <2>2 DEF Types
  <2>3. CASE Reject(c, "undo data") /\ UNCHANGED data
    <3>1. tpc'[c] = "undo data"
      BY <1>0, <2>3, Rejects DEF TPC, BusyPC
    <3> QED BY <2>2, <2>3, <3>1
  <2>4. CASE Go(c, "ctl") /\ UNCHANGED data
    <3>1. tpc'[c] = "ctl"
      BY <1>0, <2>4, Goes DEF TPC, BusyPC
    <3> QED BY <2>2, <2>4, <3>1
  <2> QED BY <2>1, <2>2, <2>3, <2>4 DEF ReadData
<1>u. /\ tpc[c] = "data"
      /\ UNCHANGED <<jobfile, ctl, main, shared, printer, jobid, client, history>>
  BY DEF ReadData, history
<1>1. Types'
  BY <1>0, <1>g, <1>h, <1>e, <1>u DEF Types, main, shared, client, history
<1>2. MainOK'
  BY <1>0, <1>p, <1>u DEF MainOK, main, shared
<1>3. PrinterOK'
  BY <1>0, <1>u DEF PrinterOK, printer, history
<1>4. ASSUME NEW k \in JobId PROVE FilesOK(k)'
  BY <1>0, <1>p, <1>e, <1>u, <1>4 DEF FilesOK, Listed, Holds, main, shared, printer, history
<1>5. ASSUME NEW e \in Client PROVE ClientOK(e)'
  <2>0. SentOK(e) /\ NumberOK(e) /\ AloneOK(e) /\ KeptOK(e) /\ WholeOK(e)
    BY <1>0 DEF ClientOK
  <2>j. tpc[e] \in {"data", "ctl", "write", "reply", "add", "signal"} \/ Acked(e)
          => jobid[e] \in JobId
    BY HasNumber
  <2>1. SentOK(e)'
    <3>1. CASE e = c
      <4>1. cpc[c] # "idle" /\ stored[c] <= sent[c]
        BY <1>s, <1>u DEF SentOK
      <4>3. stored'[c] <= sent[c]
        <5>1. tpc'[c] \in {"data", "undo data", "ctl"}
          BY <1>g
        <5>2. stored[c] \in Nat /\ sent[c] \in Nat
          BY <1>s
        <5>3. CASE tpc'[c] = "data"
          BY <1>h, <5>2, <5>3
        <5>4. CASE tpc'[c] = "undo data"
          BY <1>h, <4>1, <5>4
        <5>5. CASE tpc'[c] = "ctl"
          BY <1>h, <5>2, <5>5
        <5> QED BY <5>1, <5>3, <5>4, <5>5
      <4>2. tpc'[c] = "data" /\ Holds(c)' => data'[jobid[c]].n = stored'[c]
        BY <1>e, <1>h, <1>u DEF Holds
      <4> QED BY <1>s, <1>g, <1>u, <3>1, <4>1, <4>2, <4>3 DEF SentOK, EarlyPC, client
    <3>2. CASE e # c
      BY <2>0, <2>j, <1>e, <1>g, <1>h, <1>p, <1>u, <3>2 DEF SentOK, Holds, client
    <3> QED BY <3>1, <3>2
  <2>2. NumberOK(e)'
    BY <2>0, <1>g, <1>p, <1>u DEF NumberOK, Acked, EarlyPC, BusyPC, history
  <2>3. AloneOK(e)'
    BY <2>0, <1>g, <1>u DEF AloneOK, BusyPC, Listed, Printed, Reused, shared, printer, history
  <2>4. KeptOK(e)'
    <3>1. CASE e = c
      BY <2>0, <1>e, <1>g, <1>p, <1>u, <3>1 DEF KeptOK, Holds, Printed, Reused, Acked, history
    <3>2. CASE e # c
      BY <2>0, <2>j, <1>p, <1>e, <1>g, <1>u, <3>2 DEF KeptOK, Holds, Printed, Reused, Acked, history
    <3> QED BY <3>1, <3>2
  <2>5. WholeOK(e)'
    <3>1. CASE e = c
      <4> SUFFICES ASSUME tpc'[c] = "ctl", cpc[c] = "resp", ~Reused(c) PROVE WholeOK(c)'
        BY <1>g, <1>u, <3>1 DEF WholeOK, Reused, client, history
      <4>1. ~Listed(jobid[c]) /\ ~Printed(c) /\ Holds(c) /\ UNCHANGED data
        BY <2>0, <1>e, <3>1 DEF AloneOK, KeptOK, BusyPC, ReadData
      <4>2. data[jobid[c]].n = NChunks
        BY <1>s, <1>h, <4>1 DEF SentOK, ReadData
      <4>3. \A k \in JobId : data[k] # NoFile /\ data[k].of = c => data[k].n = NChunks
        BY <4>2, Owner
      <4>4. ~(ppc \in DocPC /\ doc.of = c)
        BY <1>0, <2>0, <3>1, <4>1 DEF PrinterOK, NumberOK, Listed, JobRec, DocPC, WorkPC
      <4> QED BY <1>u, <4>1, <4>3, <4>4 DEF WholeOK, Printed, printer, history
    <3>2. CASE e # c
      BY <2>0, <1>p, <1>e, <1>g, <1>u, <3>2
         DEF WholeOK, Reused, Acked, Holds, client, history, printer
    <3> QED BY <3>1, <3>2
  <2> QED BY <2>1, <2>2, <2>3, <2>4, <2>5 DEF ClientOK
<1> QED BY <1>1, <1>2, <1>3, <1>4, <1>5 DEF ISpool

LEMMA WriteControlKeeps ==
  ASSUME ISpool, NEW c \in Client, WriteControl(c)
  PROVE  ISpool'
<1>0. /\ Types /\ MainOK /\ PrinterOK
      /\ (\A k \in JobId : FilesOK(k)) /\ (\A e \in Client : ClientOK(e))
  BY DEF ISpool
<1>p. /\ jobid[c] \in JobId /\ c \in handed[jobid[c]] /\ dpc = "serve" /\ ~Acked(c)
      /\ \A e \in Client : e # c /\ jobid[e] = jobid[c] => Reused(e)
  BY Numbered DEF BusyPC, WriteControl

<1>u. /\ tpc[c] \in {"ctl", "write"}
      /\ UNCHANGED <<jobfile, data, main, shared, printer, jobid, stored, client, history>>
  BY DEF WriteControl
<1>g. /\ tpc' \in [Client -> TPC] /\ reply' \in [Client -> {"none", "ok", "rejected"}]
      /\ tpc'[c] \in {"undo data", "undo both", "write", "reply"} /\ ~Acked(c)'
      /\ \A x \in Client : x # c => tpc'[x] = tpc[x] /\ reply'[x] = reply[x]
  <2>1. CASE Reject(c, "undo data") \/ Reject(c, "undo both")
    BY <1>0, <2>1, Rejects DEF TPC, BusyPC
  <2>2. CASE (Go(c, "write") \/ Go(c, "reply")) /\ UNCHANGED reply
    BY <1>0, <1>p, <2>2, Goes DEF Types, TPC, BusyPC, Acked
  <2> QED BY <2>1, <2>2 DEF WriteControl
<1>e. /\ ctl' \in [JobId -> Client \cup {NoFile, "part"}]
      /\ \A k \in JobId : k # jobid[c] => ctl'[k] = ctl[k]
      /\ tpc'[c] = "reply" => ctl'[jobid[c]] = c
  <2>0. ctl \in [JobId -> Client \cup {NoFile, "part"}]
    BY <1>0 DEF Types
  <2>1. CASE (Reject(c, "undo data") \/ Reject(c, "undo both")) /\ UNCHANGED ctl
    <3>1. tpc'[c] \in {"undo data", "undo both"}
      BY <1>0, <2>1, Rejects DEF TPC, BusyPC
    <3> QED BY <2>0, <2>1, <3>1
  <2>2. CASE Go(c, "write") /\ ctl' = [ctl EXCEPT ![jobid[c]] = "part"]
    <3>1. tpc'[c] = "write"
      BY <1>0, <2>2, Goes DEF TPC, BusyPC
    <3> QED BY <2>0, <2>2, <3>1
  <2>3. CASE ctl' = [ctl EXCEPT ![jobid[c]] = c]
    BY <1>p, <2>0, <2>3
  <2> QED BY <2>1, <2>2, <2>3 DEF WriteControl
<1>1. Types'
  BY <1>0, <1>g, <1>e, <1>u DEF Types, main, shared, client, history
<1>2. MainOK'
  BY <1>0, <1>p, <1>u DEF MainOK, main, shared
<1>3. PrinterOK'
  BY <1>0, <1>u DEF PrinterOK, printer, history
<1>4. ASSUME NEW k \in JobId PROVE FilesOK(k)'
  BY <1>0, <1>p, <1>e, <1>u, <1>4 DEF FilesOK, Listed, main, shared, printer, history
<1>5. ASSUME NEW e \in Client PROVE ClientOK(e)'
  <2>0. SentOK(e) /\ NumberOK(e) /\ AloneOK(e) /\ KeptOK(e) /\ WholeOK(e)
    BY <1>0 DEF ClientOK
  <2>j. tpc[e] \in {"data", "ctl", "write", "reply", "add", "signal"} \/ Acked(e)
          => jobid[e] \in JobId
    BY HasNumber
  <2>1. SentOK(e)'
    <3>1. CASE e = c
      BY <2>0, <1>g, <1>u, <3>1 DEF SentOK, EarlyPC, client
    <3>2. CASE e # c
      BY <2>0, <1>g, <1>u, <3>2 DEF SentOK, Holds, client
    <3> QED BY <3>1, <3>2
  <2>2. NumberOK(e)'
    BY <2>0, <1>g, <1>p, <1>u DEF NumberOK, Acked, EarlyPC, BusyPC, history
  <2>3. AloneOK(e)'
    BY <2>0, <1>g, <1>u DEF AloneOK, BusyPC, Listed, Printed, Reused, shared, printer, history
  <2>4. KeptOK(e)'
    <3>1. CASE e = c
      BY <2>0, <1>e, <1>g, <1>u, <3>1 DEF KeptOK, Holds, Printed, Reused, history
    <3>2. CASE e # c
      BY <2>0, <2>j, <1>p, <1>e, <1>g, <1>u, <3>2
         DEF KeptOK, Holds, Printed, Reused, Acked, history
    <3> QED BY <3>1, <3>2
  <2>5. WholeOK(e)'
    BY <2>0, <1>g, <1>u DEF WholeOK, Reused, Acked, client, history, printer
  <2> QED BY <2>1, <2>2, <2>3, <2>4, <2>5 DEF ClientOK
<1> QED BY <1>1, <1>2, <1>3, <1>4, <1>5 DEF ISpool

LEMMA UndoKeeps ==
  ASSUME ISpool, NEW c \in Client, Undo(c)
  PROVE  ISpool'
<1>0. /\ Types /\ MainOK /\ PrinterOK
      /\ (\A k \in JobId : FilesOK(k)) /\ (\A e \in Client : ClientOK(e))
  BY DEF ISpool
<1>p. /\ jobid[c] \in JobId /\ c \in handed[jobid[c]] /\ dpc = "serve" /\ ~Acked(c)
      /\ \A e \in Client : e # c /\ jobid[e] = jobid[c] => Reused(e)
  BY Numbered DEF BusyPC, Undo

<1>u. /\ tpc[c] \in {"undo data", "undo both"}
      /\ UNCHANGED <<jobfile, main, shared, printer, jobid, stored, reply, client, history>>
  BY DEF Undo
<1>g. /\ tpc' \in [Client -> TPC] /\ tpc'[c] = "gone"
      /\ \A x \in Client : x # c => tpc'[x] = tpc[x]
  BY <1>0, Goes DEF Undo, TPC
<1>e. /\ data' \in [JobId -> {NoFile} \cup DocRec] /\ ctl' \in [JobId -> Client \cup {NoFile, "part"}]
      /\ \A k \in JobId : k # jobid[c] => data'[k] = data[k] /\ ctl'[k] = ctl[k]
      /\ data'[jobid[c]] = NoFile /\ ctl'[jobid[c]] \in {NoFile, ctl[jobid[c]]}
  BY <1>0, <1>p DEF Types, Undo
<1>1. Types'
  BY <1>0, <1>g, <1>e, <1>u DEF Types, main, shared, client, history
<1>2. MainOK'
  BY <1>0, <1>p, <1>u DEF MainOK, main, shared
<1>3. PrinterOK'
  BY <1>0, <1>u DEF PrinterOK, printer, history
<1>4. ASSUME NEW k \in JobId PROVE FilesOK(k)'
  BY <1>0, <1>p, <1>e, <1>u, <1>4 DEF FilesOK, Listed, main, shared, printer, history
<1>5. ASSUME NEW e \in Client PROVE ClientOK(e)'
  <2>0. SentOK(e) /\ NumberOK(e) /\ AloneOK(e) /\ KeptOK(e) /\ WholeOK(e)
    BY <1>0 DEF ClientOK
  <2>j. tpc[e] \in {"data", "ctl", "write", "reply", "add", "signal"} \/ Acked(e)
          => jobid[e] \in JobId
    BY HasNumber
  <2>1. SentOK(e)'
    <3>1. CASE e = c
      BY <2>0, <1>g, <1>u, <3>1 DEF SentOK, EarlyPC, client
    <3>2. CASE e # c
      BY <2>0, <2>j, <1>e, <1>g, <1>u, <3>2 DEF SentOK, Holds, client
    <3> QED BY <3>1, <3>2
  <2>2. NumberOK(e)'
    BY <2>0, <1>g, <1>p, <1>u DEF NumberOK, Acked, EarlyPC, BusyPC, history
  <2>3. AloneOK(e)'
    BY <2>0, <1>g, <1>u DEF AloneOK, BusyPC, Listed, Printed, Reused, shared, printer, history
  <2>4. KeptOK(e)'
    <3>1. CASE e = c
      BY <1>g, <1>p, <1>u, <3>1 DEF KeptOK, Acked
    <3>2. CASE e # c
      BY <2>0, <2>j, <1>p, <1>e, <1>g, <1>u, <3>2
         DEF KeptOK, Holds, Printed, Reused, Acked, history
    <3> QED BY <3>1, <3>2
  <2>5. WholeOK(e)'
    <3>1. CASE e = c
      BY <1>g, <1>p, <1>u, <3>1 DEF WholeOK, Acked
    <3>2. CASE e # c
      BY <2>0, <1>e, <1>g, <1>u, <3>2 DEF WholeOK, Reused, Acked, client, history, printer
    <3> QED BY <3>1, <3>2
  <2> QED BY <2>1, <2>2, <2>3, <2>4, <2>5 DEF ClientOK
<1> QED BY <1>1, <1>2, <1>3, <1>4, <1>5 DEF ISpool

LEMMA ReplyKeeps ==
  ASSUME ISpool, NEW c \in Client, Reply(c)
  PROVE  ISpool'
<1>0. /\ Types /\ MainOK /\ PrinterOK
      /\ (\A k \in JobId : FilesOK(k)) /\ (\A e \in Client : ClientOK(e))
  BY DEF ISpool
<1>1. Types'
  BY <1>0, PrintdAssumption DEF Types, TPC, EarlyPC, BusyPC, JobId, Reply, Go, disk,
      main, shared, printer, client, history
<1>2. MainOK'
  BY <1>0, PrintdAssumption DEF MainOK, Types, JobId, Reply, Go, disk, main, shared,
      printer, client, history
<1>3. PrinterOK'
  BY <1>0 DEF PrinterOK, Types, DocRec, JobRec, WorkPC, DocPC, Reply, Go, disk, main,
      shared, printer, client, history
<1>4. ASSUME NEW k \in JobId PROVE FilesOK(k)'
  BY <1>0, <1>4 DEF FilesOK, Listed, WorkPC, Types, Reply, Go, disk, main, shared,
      printer, client, history
<1>5. ASSUME NEW e \in Client PROVE ClientOK(e)'
  <2>0. SentOK(e) /\ NumberOK(e) /\ AloneOK(e) /\ KeptOK(e) /\ WholeOK(e)
    BY <1>0 DEF ClientOK
  <2>1. SentOK(e)'
    BY <1>0, <2>0 DEF SentOK, Holds, Types, EarlyPC, Reply, Go, disk, main, shared,
        printer, client, history
  <2>2. NumberOK(e)'
    BY <1>0, <2>0 DEF NumberOK, Acked, Types, EarlyPC, BusyPC, Reply, Go, disk, main,
        shared, printer, client, history
  <2>3. AloneOK(e)'
    BY <1>0, <2>0 DEF AloneOK, Listed, Printed, Reused, Types, BusyPC, WorkPC, Reply,
        Go, disk, main, shared, printer, client, history
  <2>4. KeptOK(e)'
    BY <1>0, <2>0 DEF KeptOK, Holds, Printed, Reused, Acked, Types, Reply, Go, disk,
        main, shared, printer, client, history
  <2>5. WholeOK(e)'
    BY <1>0, <2>0 DEF WholeOK, Reused, Acked, Types, DocPC, Reply, Go, disk, main,
        shared, printer, client, history
  <2> QED BY <2>1, <2>2, <2>3, <2>4, <2>5 DEF ClientOK
<1> QED BY <1>1, <1>2, <1>3, <1>4, <1>5 DEF ISpool

LEMMA AddJobKeeps ==
  ASSUME ISpool, NEW c \in Client, add_job(c)
  PROVE  ISpool'
<1>0. /\ Types /\ MainOK /\ PrinterOK
      /\ (\A k \in JobId : FilesOK(k)) /\ (\A e \in Client : ClientOK(e))
  BY DEF ISpool
<1>p. /\ jobid[c] \in JobId /\ c \in handed[jobid[c]] /\ dpc = "serve" 
      /\ \A e \in Client : e # c /\ jobid[e] = jobid[c] => Reused(e)
  BY Numbered DEF BusyPC, add_job

<1>u. /\ tpc[c] = "add"
      /\ UNCHANGED <<disk, main, nextjob, printer, jobid, stored, reply, client, history>>
  BY DEF add_job
<1>g. /\ tpc' \in [Client -> TPC] /\ tpc'[c] = "signal"
      /\ \A x \in Client : x # c => tpc'[x] = tpc[x]
  BY <1>0, Goes DEF add_job, TPC
<1>e. jobs' \in Seq(JobRec) /\ Ids(jobs') \subseteq Ids(jobs) \cup {jobid[c]}
  <2>1. [id |-> jobid[c], of |-> c] \in JobRec
    BY <1>p DEF JobRec
  <2> QED BY <1>0, <2>1, IdsAppend DEF Types, add_job
<1>1. Types'
  BY <1>0, <1>g, <1>e, <1>u DEF Types, disk, main, client, history
<1>2. MainOK'
  BY <1>0, <1>p, <1>u DEF MainOK, main
<1>3. PrinterOK'
  BY <1>0, <1>u DEF PrinterOK, printer, history
<1>4. ASSUME NEW k \in JobId PROVE FilesOK(k)'
  BY <1>0, <1>p, <1>e, <1>u, <1>4 DEF FilesOK, Listed, disk, main, printer, history
<1>5. ASSUME NEW e \in Client PROVE ClientOK(e)'
  <2>0. SentOK(e) /\ NumberOK(e) /\ AloneOK(e) /\ KeptOK(e) /\ WholeOK(e)
    BY <1>0 DEF ClientOK
  <2>1. SentOK(e)'
    BY <2>0, <1>g, <1>u DEF SentOK, Holds, EarlyPC, disk, client
  <2>2. NumberOK(e)'
    BY <2>0, <1>g, <1>p, <1>u DEF NumberOK, Acked, EarlyPC, BusyPC, history
  <2>3. AloneOK(e)'
    <3>1. CASE e = c
      BY <1>g, <3>1 DEF AloneOK, BusyPC
    <3>2. CASE e # c
      BY <2>0, <1>g, <1>u, <1>p, <1>e, <3>2 DEF AloneOK, Listed, Printed, Reused, printer, history
    <3> QED BY <3>1, <3>2
  <2>4. KeptOK(e)'
    BY <2>0, <1>g, <1>u DEF KeptOK, Holds, Printed, Reused, Acked, disk, history
  <2>5. WholeOK(e)'
    BY <2>0, <1>g, <1>u DEF WholeOK, Reused, Acked, disk, client, history, printer
  <2> QED BY <2>1, <2>2, <2>3, <2>4, <2>5 DEF ClientOK
<1> QED BY <1>1, <1>2, <1>3, <1>4, <1>5 DEF ISpool

LEMMA SignalKeeps ==
  ASSUME ISpool, NEW c \in Client, Signal(c)
  PROVE  ISpool'
<1>0. /\ Types /\ MainOK /\ PrinterOK
      /\ (\A k \in JobId : FilesOK(k)) /\ (\A e \in Client : ClientOK(e))
  BY DEF ISpool
<1>1. Types'
  BY <1>0, PrintdAssumption DEF Types, TPC, EarlyPC, BusyPC, JobId, Signal, Go, disk,
      main, shared, client, history
<1>2. MainOK'
  BY <1>0, PrintdAssumption DEF MainOK, Types, JobId, Signal, Go, disk, main, shared,
      client, history
<1>3. PrinterOK'
  BY <1>0 DEF PrinterOK, Types, DocRec, JobRec, WorkPC, DocPC, Signal, Go, disk, main,
      shared, client, history
<1>4. ASSUME NEW k \in JobId PROVE FilesOK(k)'
  BY <1>0, <1>4 DEF FilesOK, Listed, WorkPC, Types, Signal, Go, disk, main, shared,
      client, history
<1>5. ASSUME NEW e \in Client PROVE ClientOK(e)'
  <2>0. SentOK(e) /\ NumberOK(e) /\ AloneOK(e) /\ KeptOK(e) /\ WholeOK(e)
    BY <1>0 DEF ClientOK
  <2>1. SentOK(e)'
    BY <1>0, <2>0 DEF SentOK, Holds, Types, EarlyPC, Signal, Go, disk, main, shared,
        client, history
  <2>2. NumberOK(e)'
    BY <1>0, <2>0 DEF NumberOK, Acked, Types, EarlyPC, BusyPC, Signal, Go, disk, main,
        shared, client, history
  <2>3. AloneOK(e)'
    BY <1>0, <2>0 DEF AloneOK, Listed, Printed, Reused, Types, BusyPC, WorkPC, Signal,
        Go, disk, main, shared, client, history
  <2>4. KeptOK(e)'
    BY <1>0, <2>0 DEF KeptOK, Holds, Printed, Reused, Acked, Types, Signal, Go, disk,
        main, shared, client, history
  <2>5. WholeOK(e)'
    BY <1>0, <2>0 DEF WholeOK, Reused, Acked, Types, DocPC, Signal, Go, disk, main,
        shared, client, history
  <2> QED BY <2>1, <2>2, <2>3, <2>4, <2>5 DEF ClientOK
<1> QED BY <1>1, <1>2, <1>3, <1>4, <1>5 DEF ISpool

LEMMA PickKeeps ==
  ASSUME ISpool, Pick
  PROVE  ISpool'
<1>0. /\ Types /\ MainOK /\ PrinterOK
      /\ (\A k \in JobId : FilesOK(k)) /\ (\A e \in Client : ClientOK(e))
  BY DEF ISpool
<1>u. /\ ppc = "pick" /\ ppc' \in {"wait", "update"}
      /\ UNCHANGED <<disk, main, nextjob, doc, accepted, thread, client, history>>
  BY DEF Pick
<1>e. /\ jobs' \in Seq(JobRec) /\ Ids(jobs') \subseteq Ids(jobs)
      /\ ppc' = "update" => jp' \in JobRec /\ jp'.id \in Ids(jobs)
  <2>0. jobs \in Seq(JobRec)
    BY <1>0 DEF Types
  <2>1. CASE jobs = <<>>
    BY <2>0, <2>1 DEF Pick
  <2>2. CASE jobs # <<>>
    BY <2>0, <2>2, IdsTail DEF Pick, remove_job
  <2> QED BY <2>1, <2>2
<1>1. Types'
  BY <1>0, <1>e, <1>u DEF Types, disk, main, thread, client, history
<1>2. MainOK'
  BY <1>0, <1>u DEF MainOK, main, thread
<1>3. PrinterOK'
  BY <1>0, <1>e, <1>u DEF PrinterOK, WorkPC, DocPC, history
<1>4. ASSUME NEW k \in JobId PROVE FilesOK(k)'
  BY <1>0, <1>e, <1>u, <1>4 DEF FilesOK, Listed, WorkPC, disk, main, history
<1>5. ASSUME NEW e \in Client PROVE ClientOK(e)'
  <2>0. SentOK(e) /\ NumberOK(e) /\ AloneOK(e) /\ KeptOK(e) /\ WholeOK(e)
    BY <1>0 DEF ClientOK
  <2>1. SentOK(e)'
    BY <2>0, <1>u DEF SentOK, Holds, disk, thread, client
  <2>2. NumberOK(e)'
    BY <2>0, <1>u DEF NumberOK, Acked, thread, history
  <2>3. AloneOK(e)'
    BY <2>0, <1>e, <1>u DEF AloneOK, Listed, WorkPC, Printed, Reused, thread, history
  <2>4. KeptOK(e)'
    BY <2>0, <1>u DEF KeptOK, Holds, Printed, Reused, Acked, disk, thread, history
  <2>5. WholeOK(e)'
    BY <2>0, <1>u DEF WholeOK, DocPC, Reused, Acked, disk, thread, client, history
  <2> QED BY <2>1, <2>2, <2>3, <2>4, <2>5 DEF ClientOK
<1> QED BY <1>1, <1>2, <1>3, <1>4, <1>5 DEF ISpool

LEMMA UpdateJobnoKeeps ==
  ASSUME ISpool, update_jobno
  PROVE  ISpool'
<1>0. /\ Types /\ MainOK /\ PrinterOK
      /\ (\A k \in JobId : FilesOK(k)) /\ (\A e \in Client : ClientOK(e))
  BY DEF ISpool
<1>1. Types'
  BY <1>0, PrintdAssumption DEF Types, JobId, update_jobno, main, shared, thread,
      client, history
<1>2. MainOK'
  BY <1>0, PrintdAssumption DEF MainOK, Types, JobId, update_jobno, main, shared,
      thread, client, history
<1>3. PrinterOK'
  BY <1>0 DEF PrinterOK, Types, DocRec, JobRec, WorkPC, DocPC, update_jobno, main,
      shared, thread, client, history
<1>4. ASSUME NEW k \in JobId PROVE FilesOK(k)'
  BY <1>0, <1>4 DEF FilesOK, Listed, WorkPC, Types, update_jobno, main, shared, thread,
      client, history
<1>5. ASSUME NEW e \in Client PROVE ClientOK(e)'
  <2>0. SentOK(e) /\ NumberOK(e) /\ AloneOK(e) /\ KeptOK(e) /\ WholeOK(e)
    BY <1>0 DEF ClientOK
  <2>1. SentOK(e)'
    BY <1>0, <2>0 DEF SentOK, Holds, Types, EarlyPC, update_jobno, main, shared, thread,
        client, history
  <2>2. NumberOK(e)'
    BY <1>0, <2>0 DEF NumberOK, Acked, Types, EarlyPC, BusyPC, update_jobno, main,
        shared, thread, client, history
  <2>3. AloneOK(e)'
    BY <1>0, <2>0 DEF AloneOK, Listed, Printed, Reused, Types, BusyPC, WorkPC,
        update_jobno, main, shared, thread, client, history
  <2>4. KeptOK(e)'
    BY <1>0, <2>0 DEF KeptOK, Holds, Printed, Reused, Acked, Types, update_jobno, main,
        shared, thread, client, history
  <2>5. WholeOK(e)'
    BY <1>0, <2>0 DEF WholeOK, Reused, Acked, Types, DocPC, update_jobno, main, shared,
        thread, client, history
  <2> QED BY <2>1, <2>2, <2>3, <2>4, <2>5 DEF ClientOK
<1> QED BY <1>1, <1>2, <1>3, <1>4, <1>5 DEF ISpool

LEMMA OpenKeeps ==
  ASSUME ISpool, Open
  PROVE  ISpool'
<1>0. /\ Types /\ MainOK /\ PrinterOK
      /\ (\A k \in JobId : FilesOK(k)) /\ (\A e \in Client : ClientOK(e))
  BY DEF ISpool
<1>p. jp \in JobRec /\ jp.id \in JobId
  BY <1>0 DEF PrinterOK, WorkPC, JobRec, Open

<1>u. /\ ppc = "open" /\ ppc' \in {"send", "defer", "pick"}
      /\ ppc' \in {"send", "defer"} => UNCHANGED jp
      /\ ppc' = "send" => doc' = data[jp.id] /\ data[jp.id] # NoFile
      /\ UNCHANGED <<disk, main, shared, accepted, thread, client, handed, printed>>
  BY DEF Open
<1>1. Types'
  BY <1>0, <1>u DEF Types, disk, main, shared, thread, client
<1>2. MainOK'
  BY <1>0, <1>u DEF MainOK, main, shared, thread
<1>3. PrinterOK'
  <2>1. ppc' = "send" => doc' \in DocRec /\ doc'.of \in handed[jp.id]
    BY <1>0, <1>p, <1>u DEF Types, FilesOK
  <2> QED BY <1>0, <1>p, <1>u, <2>1 DEF PrinterOK, WorkPC, DocPC
<1>4. ASSUME NEW k \in JobId PROVE FilesOK(k)'
  BY <1>0, <1>u, <1>4 DEF FilesOK, Listed, WorkPC, disk, main, shared
<1>5. ASSUME NEW e \in Client PROVE ClientOK(e)'
  <2>0. SentOK(e) /\ NumberOK(e) /\ AloneOK(e) /\ KeptOK(e) /\ WholeOK(e)
    BY <1>0 DEF ClientOK
  <2>1. SentOK(e)'
    BY <2>0, <1>u DEF SentOK, Holds, disk, thread, client
  <2>2. NumberOK(e)'
    BY <2>0, <1>u DEF NumberOK, Acked, thread
  <2>3. AloneOK(e)'
    BY <2>0, <1>u DEF AloneOK, Listed, WorkPC, Printed, Reused, shared, thread
  <2>4. KeptOK(e)'
    BY <2>0, <1>u DEF KeptOK, Holds, Printed, Reused, Acked, disk, thread
  <2>5. WholeOK(e)'
    BY <2>0, <1>p, <1>u DEF WholeOK, DocPC, Reused, Acked, disk, thread, client
  <2> QED BY <2>1, <2>2, <2>3, <2>4, <2>5 DEF ClientOK
<1> QED BY <1>1, <1>2, <1>3, <1>4, <1>5 DEF ISpool

LEMMA SendKeeps ==
  ASSUME ISpool, Send
  PROVE  ISpool'
<1>0. /\ Types /\ MainOK /\ PrinterOK
      /\ (\A k \in JobId : FilesOK(k)) /\ (\A e \in Client : ClientOK(e))
  BY DEF ISpool
<1>p. jp \in JobRec /\ jp.id \in JobId
  BY <1>0 DEF PrinterOK, WorkPC, JobRec, Send

<1>d. doc \in DocRec /\ doc.of \in handed[jp.id]
  BY <1>0 DEF PrinterOK, DocPC, Send
<1>f. PICK d : d = IF data[jp.id] = NoFile THEN doc ELSE data[jp.id]
  OBVIOUS
<1>e. d \in DocRec /\ d.of \in handed[jp.id] /\ d \in {doc, data[jp.id]}
  BY <1>0, <1>p, <1>d, <1>f DEF Types, FilesOK
<1>u. /\ ppc = "send" /\ ppc' \in {"status", "defer"}
      /\ ppc' = "status" => doc' = d /\ (accepted' => d \in printed')
      /\ printed' \in {printed, printed \cup {d}}
      /\ UNCHANGED <<disk, main, shared, jp, thread, client, handed, lost>>
  BY <1>f DEF Send
<1>1. Types'
  BY <1>0, <1>e, <1>u DEF Types, disk, main, shared, thread, client
<1>2. MainOK'
  BY <1>0, <1>u DEF MainOK, main, shared, thread
<1>3. PrinterOK'
  BY <1>0, <1>p, <1>e, <1>u DEF PrinterOK, WorkPC, DocPC
<1>4. ASSUME NEW k \in JobId PROVE FilesOK(k)'
  BY <1>0, <1>u, <1>4 DEF FilesOK, Listed, WorkPC, disk, main, shared
<1>5. ASSUME NEW e \in Client PROVE ClientOK(e)'
  <2>0. SentOK(e) /\ NumberOK(e) /\ AloneOK(e) /\ KeptOK(e) /\ WholeOK(e)
    BY <1>0 DEF ClientOK
  <2>1. SentOK(e)'
    BY <2>0, <1>u DEF SentOK, Holds, disk, thread, client
  <2>2. NumberOK(e)'
    BY <2>0, <1>u DEF NumberOK, Acked, thread
  <2>3. AloneOK(e)'
    <3>1. d.of = e => Listed(jobid[e])
      BY <2>0, <1>e, <1>p, <1>u DEF NumberOK, Listed, WorkPC
    <3> QED BY <2>0, <1>u, <3>1 DEF AloneOK, Listed, WorkPC, Printed, Reused, shared, thread
  <2>4. KeptOK(e)'
    BY <2>0, <1>u DEF KeptOK, Holds, Printed, Reused, Acked, disk, thread
  <2>5. WholeOK(e)'
    <3>1. WholeOK(e) /\ (tpc[e] \in {"ctl", "write", "reply", "add", "signal"} \/ Acked(e))
             /\ cpc[e] = "resp" /\ ~Reused(e) /\ d.of = e => d.n = NChunks
      BY <1>d, <1>e, <1>f, <1>p, <1>u DEF WholeOK, DocPC
    <3> QED BY <2>0, <1>u, <3>1 DEF WholeOK, DocPC, Reused, Acked, disk, thread, client
  <2> QED BY <2>1, <2>2, <2>3, <2>4, <2>5 DEF ClientOK
<1> QED BY <1>1, <1>2, <1>3, <1>4, <1>5 DEF ISpool

LEMMA PrinterStatusKeeps ==
  ASSUME ISpool, printer_status
  PROVE  ISpool'
<1>0. /\ Types /\ MainOK /\ PrinterOK
      /\ (\A k \in JobId : FilesOK(k)) /\ (\A e \in Client : ClientOK(e))
  BY DEF ISpool
<1>1. Types'
  BY <1>0, PrintdAssumption DEF Types, JobId, printer_status, disk, main, shared,
      thread, client, history
<1>2. MainOK'
  BY <1>0, PrintdAssumption DEF MainOK, Types, JobId, printer_status, disk, main,
      shared, thread, client, history
<1>3. PrinterOK'
  BY <1>0 DEF PrinterOK, Types, DocRec, JobRec, WorkPC, DocPC, printer_status, disk,
      main, shared, thread, client, history
<1>4. ASSUME NEW k \in JobId PROVE FilesOK(k)'
  BY <1>0, <1>4 DEF FilesOK, Listed, WorkPC, Types, printer_status, disk, main, shared,
      thread, client, history
<1>5. ASSUME NEW e \in Client PROVE ClientOK(e)'
  <2>0. SentOK(e) /\ NumberOK(e) /\ AloneOK(e) /\ KeptOK(e) /\ WholeOK(e)
    BY <1>0 DEF ClientOK
  <2>1. SentOK(e)'
    BY <1>0, <2>0 DEF SentOK, Holds, Types, EarlyPC, printer_status, disk, main, shared,
        thread, client, history
  <2>2. NumberOK(e)'
    BY <1>0, <2>0 DEF NumberOK, Acked, Types, EarlyPC, BusyPC, printer_status, disk,
        main, shared, thread, client, history
  <2>3. AloneOK(e)'
    BY <1>0, <2>0 DEF AloneOK, Listed, Printed, Reused, Types, BusyPC, WorkPC,
        printer_status, disk, main, shared, thread, client, history
  <2>4. KeptOK(e)'
    BY <1>0, <2>0 DEF KeptOK, Holds, Printed, Reused, Acked, Types, printer_status,
        disk, main, shared, thread, client, history
  <2>5. WholeOK(e)'
    BY <1>0, <2>0 DEF WholeOK, Reused, Acked, Types, DocPC, printer_status, disk, main,
        shared, thread, client, history
  <2> QED BY <2>1, <2>2, <2>3, <2>4, <2>5 DEF ClientOK
<1> QED BY <1>1, <1>2, <1>3, <1>4, <1>5 DEF ISpool

LEMMA UnlinkKeeps ==
  ASSUME ISpool, Unlink
  PROVE  ISpool'
<1>0. /\ Types /\ MainOK /\ PrinterOK
      /\ (\A k \in JobId : FilesOK(k)) /\ (\A e \in Client : ClientOK(e))
  BY DEF ISpool
<1>p. jp \in JobRec /\ jp.id \in JobId
  BY <1>0 DEF PrinterOK, WorkPC, JobRec, Unlink

<1>f. \E d \in printed : d.of \in handed[jp.id]
  BY <1>0 DEF PrinterOK, DocPC, Unlink
<1>u. /\ ppc \in {"unlink", "unlink ctl"} /\ ppc' \in {"unlink ctl", "pick"}
      /\ ppc' = "unlink ctl" => UNCHANGED jp
      /\ UNCHANGED <<jobfile, main, shared, thread, client, history>>
  BY DEF Unlink
<1>e. /\ data' \in [JobId -> {NoFile} \cup DocRec] /\ ctl' \in [JobId -> Client \cup {NoFile, "part"}]
      /\ \A k \in JobId : k # jp.id => data'[k] = data[k] /\ ctl'[k] = ctl[k]
      /\ data'[jp.id] \in {NoFile, data[jp.id]} /\ ctl'[jp.id] \in {NoFile, ctl[jp.id]}
  BY <1>0, <1>p DEF Types, Unlink
<1>1. Types'
  BY <1>0, <1>e, <1>u DEF Types, main, shared, thread, client, history
<1>2. MainOK'
  BY <1>0, <1>u DEF MainOK, main, shared, thread
<1>3. PrinterOK'
  BY <1>0, <1>p, <1>f, <1>u DEF PrinterOK, WorkPC, DocPC, history
<1>4. ASSUME NEW k \in JobId PROVE FilesOK(k)'
  BY <1>0, <1>e, <1>u, <1>4 DEF FilesOK, Listed, WorkPC, main, shared, history
<1>5. ASSUME NEW e \in Client PROVE ClientOK(e)'
  <2>0. SentOK(e) /\ NumberOK(e) /\ AloneOK(e) /\ KeptOK(e) /\ WholeOK(e)
    BY <1>0 DEF ClientOK
  <2>j. tpc[e] \in {"data", "ctl", "write", "reply", "add", "signal"} \/ Acked(e)
          => jobid[e] \in JobId
    BY HasNumber
  <2>1. SentOK(e)'
    <3>1. tpc[e] = "data" /\ Holds(e)' => Holds(e) /\ data'[jobid[e]] = data[jobid[e]]
      BY <2>j, <1>e, <1>u DEF Holds, thread
    <3> QED BY <2>0, <1>u, <3>1 DEF SentOK, thread, client
  <2>2. NumberOK(e)'
    BY <2>0, <1>u DEF NumberOK, Acked, thread, history
  <2>3. AloneOK(e)'
    BY <2>0, <1>u DEF AloneOK, Listed, WorkPC, Printed, Reused, shared, thread, history
  <2>4. KeptOK(e)'
    <3>1. jobid[e] = jp.id /\ ~Reused(e) => Printed(e)
      BY <1>f, <1>p DEF Printed, Reused, JobId
    <3> QED BY <2>0, <2>j, <1>e, <1>u, <3>1
            DEF KeptOK, Holds, Printed, Reused, Acked, thread, history
  <2>5. WholeOK(e)'
    <3>1. \A k \in JobId : data'[k] # NoFile => data'[k] = data[k]
      BY <1>e
    <3> QED BY <2>0, <1>u, <3>1 DEF WholeOK, DocPC, Reused, Acked, thread, client, history
  <2> QED BY <2>1, <2>2, <2>3, <2>4, <2>5 DEF ClientOK
<1> QED BY <1>1, <1>2, <1>3, <1>4, <1>5 DEF ISpool

LEMMA ReplaceJobKeeps ==
  ASSUME ISpool, replace_job
  PROVE  ISpool'
<1>0. /\ Types /\ MainOK /\ PrinterOK
      /\ (\A k \in JobId : FilesOK(k)) /\ (\A e \in Client : ClientOK(e))
  BY DEF ISpool
<1>p. jp \in JobRec /\ jp.id \in JobId
  BY <1>0 DEF PrinterOK, WorkPC, JobRec, replace_job

<1>u. /\ ppc = "defer" /\ ppc' = "pick"
      /\ UNCHANGED <<disk, main, nextjob, thread, client, history>>
  BY DEF replace_job
<1>e. jobs' \in Seq(JobRec) /\ Ids(jobs') \subseteq Ids(jobs) \cup {jp.id}
  BY <1>0, <1>p, IdsPush DEF Types, replace_job
<1>1. Types'
  BY <1>0, <1>e, <1>u DEF Types, disk, main, thread, client, history
<1>2. MainOK'
  BY <1>0, <1>u DEF MainOK, main, thread
<1>3. PrinterOK'
  BY <1>0, <1>u DEF PrinterOK, WorkPC, DocPC, history
<1>4. ASSUME NEW k \in JobId PROVE FilesOK(k)'
  BY <1>0, <1>e, <1>u, <1>4 DEF FilesOK, Listed, WorkPC, disk, main, history
<1>5. ASSUME NEW e \in Client PROVE ClientOK(e)'
  <2>0. SentOK(e) /\ NumberOK(e) /\ AloneOK(e) /\ KeptOK(e) /\ WholeOK(e)
    BY <1>0 DEF ClientOK
  <2>1. SentOK(e)'
    BY <2>0, <1>u DEF SentOK, Holds, disk, thread, client
  <2>2. NumberOK(e)'
    BY <2>0, <1>u DEF NumberOK, Acked, thread, history
  <2>3. AloneOK(e)'
    BY <2>0, <1>e, <1>u DEF AloneOK, Listed, WorkPC, Printed, Reused, thread, history
  <2>4. KeptOK(e)'
    BY <2>0, <1>u DEF KeptOK, Holds, Printed, Reused, Acked, disk, thread, history
  <2>5. WholeOK(e)'
    BY <2>0, <1>u DEF WholeOK, DocPC, Reused, Acked, disk, thread, client, history
  <2> QED BY <2>1, <2>2, <2>3, <2>4, <2>5 DEF ClientOK
<1> QED BY <1>1, <1>2, <1>3, <1>4, <1>5 DEF ISpool

LEMMA ConnectKeeps ==
  ASSUME ISpool, NEW c \in Client, Connect(c)
  PROVE  ISpool'
<1>0. /\ Types /\ MainOK /\ PrinterOK
      /\ (\A k \in JobId : FilesOK(k)) /\ (\A e \in Client : ClientOK(e))
  BY DEF ISpool
<1>1. Types'
  BY <1>0, PrintdAssumption DEF Types, CPC, JobId, Connect, ToC, disk, main, shared,
      printer, thread, history
<1>2. MainOK'
  BY <1>0, PrintdAssumption DEF MainOK, Types, JobId, Connect, ToC, disk, main, shared,
      printer, thread, history
<1>3. PrinterOK'
  BY <1>0 DEF PrinterOK, Types, DocRec, JobRec, WorkPC, DocPC, Connect, ToC, disk, main,
      shared, printer, thread, history
<1>4. ASSUME NEW k \in JobId PROVE FilesOK(k)'
  BY <1>0, <1>4 DEF FilesOK, Listed, WorkPC, Types, Connect, ToC, disk, main, shared,
      printer, thread, history
<1>5. ASSUME NEW e \in Client PROVE ClientOK(e)'
  <2>0. SentOK(e) /\ NumberOK(e) /\ AloneOK(e) /\ KeptOK(e) /\ WholeOK(e)
    BY <1>0 DEF ClientOK
  <2>1. SentOK(e)'
    BY <1>0, <2>0 DEF SentOK, Holds, Types, EarlyPC, Connect, ToC, disk, main, shared,
        printer, thread, history
  <2>2. NumberOK(e)'
    BY <1>0, <2>0 DEF NumberOK, Acked, Types, EarlyPC, BusyPC, Connect, ToC, disk, main,
        shared, printer, thread, history
  <2>3. AloneOK(e)'
    BY <1>0, <2>0 DEF AloneOK, Listed, Printed, Reused, Types, BusyPC, WorkPC, Connect,
        ToC, disk, main, shared, printer, thread, history
  <2>4. KeptOK(e)'
    BY <1>0, <2>0 DEF KeptOK, Holds, Printed, Reused, Acked, Types, Connect, ToC, disk,
        main, shared, printer, thread, history
  <2>5. WholeOK(e)'
    BY <1>0, <2>0 DEF WholeOK, Reused, Acked, Types, DocPC, Connect, ToC, disk, main,
        shared, printer, thread, history
  <2> QED BY <2>1, <2>2, <2>3, <2>4, <2>5 DEF ClientOK
<1> QED BY <1>1, <1>2, <1>3, <1>4, <1>5 DEF ISpool

LEMMA SubmitFileKeeps ==
  ASSUME ISpool, NEW c \in Client, submit_file(c)
  PROVE  ISpool'
<1>0. /\ Types /\ MainOK /\ PrinterOK
      /\ (\A k \in JobId : FilesOK(k)) /\ (\A e \in Client : ClientOK(e))
  BY DEF ISpool
<1>u. UNCHANGED <<disk, main, shared, printer, thread, history>>
  BY DEF submit_file
<1>g. /\ cpc' \in [Client -> CPC] /\ sent' \in [Client -> 0..NChunks]
      /\ \A x \in Client : x # c => cpc'[x] = cpc[x] /\ sent'[x] = sent[x]
      /\ cpc'[c] \in {"file", "resp"} /\ cpc[c] # "idle"
      /\ sent[c] <= sent'[c]
      /\ cpc'[c] = "file" => sent'[c] < NChunks
      /\ cpc'[c] = "resp" => sent'[c] = NChunks /\ tpc[c] \in {"none", "header", "number", "creat", "data"}
  <2>0. /\ cpc \in [Client -> CPC] /\ sent \in [Client -> 0..NChunks] /\ NChunks \in Nat \ {0}
        /\ SentOK(c)
    BY <1>0, PrintdAssumption DEF Types, ClientOK
  <2>1. CASE cpc[c] = "header" /\ ToC(c, "file") /\ UNCHANGED sent
    <3>1. cpc' \in [Client -> CPC] /\ cpc'[c] = "file" /\ \A x \in Client : x # c => cpc'[x] = cpc[x]
      BY <2>0, <2>1 DEF ToC, CPC
    <3>2. sent[c] = 0
      BY <2>0, <2>1 DEF SentOK
    <3> QED BY <2>0, <2>1, <3>1, <3>2
  <2>2. CASE /\ cpc[c] = "file" /\ tpc[c] \in {"none", "header", "number", "creat", "data"}
             /\ sent' = [sent EXCEPT ![c] = @ + 1]
             /\ IF sent'[c] = NChunks THEN ToC(c, "resp") ELSE UNCHANGED cpc
    <3>1. sent[c] \in 0..NChunks /\ sent[c] < NChunks
      BY <2>0, <2>2 DEF SentOK
    <3>2. sent[c] + 1 \in 0..NChunks /\ sent[c] <= sent[c] + 1 
      BY <2>0, <3>1
    <3>3. /\ sent' \in [Client -> 0..NChunks] /\ sent'[c] = sent[c] + 1
          /\ \A x \in Client : x # c => sent'[x] = sent[x]
      BY <2>0, <2>2, <3>2
    <3>4. CASE sent'[c] = NChunks
      <4>1. cpc' \in [Client -> CPC] /\ cpc'[c] = "resp" /\ \A x \in Client : x # c => cpc'[x] = cpc[x]
        BY <2>0, <2>2, <3>4 DEF ToC, CPC
      <4> QED BY <2>2, <3>2, <3>3, <3>4, <4>1
    <3>5. CASE sent'[c] # NChunks
      <4>1. sent'[c] < NChunks
        BY <2>0, <3>2, <3>3, <3>5
      <4> QED BY <2>0, <2>2, <3>2, <3>3, <3>5, <4>1
    <3> QED BY <3>4, <3>5
  <2> QED BY <2>1, <2>2 DEF submit_file
<1>1. Types'
  BY <1>0, <1>g, <1>u DEF Types, disk, main, shared, thread, history
<1>2. MainOK'
  BY <1>0, <1>u DEF MainOK, main, shared, thread
<1>3. PrinterOK'
  BY <1>0, <1>u DEF PrinterOK, printer, history
<1>4. ASSUME NEW k \in JobId PROVE FilesOK(k)'
  BY <1>0, <1>u, <1>4 DEF FilesOK, Listed, disk, main, shared, printer, history
<1>5. ASSUME NEW e \in Client PROVE ClientOK(e)'
  <2>0. SentOK(e) /\ NumberOK(e) /\ AloneOK(e) /\ KeptOK(e) /\ WholeOK(e)
    BY <1>0 DEF ClientOK
  <2>1. SentOK(e)'
    <3>1. CASE e = c
      <4>1. stored[c] \in Nat /\ sent[c] \in Nat /\ sent'[c] \in Nat /\ stored[c] <= sent[c]
        BY <1>0, <1>g, <2>0, <3>1, PrintdAssumption DEF Types, SentOK
      <4>2. stored[c] <= sent'[c]
        BY <1>g, <4>1
      <4> QED BY <2>0, <1>g, <1>u, <3>1, <4>2 DEF SentOK, Holds, disk, thread
    <3>2. CASE e # c
      BY <2>0, <1>g, <1>u, <3>2 DEF SentOK, Holds, disk, thread
    <3> QED BY <3>1, <3>2
  <2>2. NumberOK(e)'
    BY <2>0, <1>u DEF NumberOK, Acked, thread, history
  <2>3. AloneOK(e)'
    BY <2>0, <1>u DEF AloneOK, Listed, Printed, Reused, shared, printer, thread, history
  <2>4. KeptOK(e)'
    BY <2>0, <1>u DEF KeptOK, Holds, Printed, Reused, Acked, disk, thread, history
  <2>5. WholeOK(e)'
    <3>1. CASE e = c
      BY <2>0, <1>g, <1>u, <3>1 DEF WholeOK, NumberOK, Acked, thread
    <3>2. CASE e # c
      BY <2>0, <1>g, <1>u, <3>2 DEF WholeOK, Reused, Acked, disk, thread, printer, history
    <3> QED BY <3>1, <3>2
  <2> QED BY <2>1, <2>2, <2>3, <2>4, <2>5 DEF ClientOK
<1> QED BY <1>1, <1>2, <1>3, <1>4, <1>5 DEF ISpool

LEMMA QuitKeeps ==
  ASSUME ISpool, NEW c \in Client, Quit(c)
  PROVE  ISpool'
<1>0. /\ Types /\ MainOK /\ PrinterOK
      /\ (\A k \in JobId : FilesOK(k)) /\ (\A e \in Client : ClientOK(e))
  BY DEF ISpool
<1>1. Types'
  BY <1>0, PrintdAssumption DEF Types, CPC, JobId, Quit, ToC, disk, main, shared,
      printer, thread, history
<1>2. MainOK'
  BY <1>0, PrintdAssumption DEF MainOK, Types, JobId, Quit, ToC, disk, main, shared,
      printer, thread, history
<1>3. PrinterOK'
  BY <1>0 DEF PrinterOK, Types, DocRec, JobRec, WorkPC, DocPC, Quit, ToC, disk, main,
      shared, printer, thread, history
<1>4. ASSUME NEW k \in JobId PROVE FilesOK(k)'
  BY <1>0, <1>4 DEF FilesOK, Listed, WorkPC, Types, Quit, ToC, disk, main, shared,
      printer, thread, history
<1>5. ASSUME NEW e \in Client PROVE ClientOK(e)'
  <2>0. SentOK(e) /\ NumberOK(e) /\ AloneOK(e) /\ KeptOK(e) /\ WholeOK(e)
    BY <1>0 DEF ClientOK
  <2>1. SentOK(e)'
    BY <1>0, <2>0 DEF SentOK, Holds, Types, EarlyPC, Quit, ToC, disk, main, shared,
        printer, thread, history
  <2>2. NumberOK(e)'
    BY <1>0, <2>0 DEF NumberOK, Acked, Types, EarlyPC, BusyPC, Quit, ToC, disk, main,
        shared, printer, thread, history
  <2>3. AloneOK(e)'
    BY <1>0, <2>0 DEF AloneOK, Listed, Printed, Reused, Types, BusyPC, WorkPC, Quit,
        ToC, disk, main, shared, printer, thread, history
  <2>4. KeptOK(e)'
    BY <1>0, <2>0 DEF KeptOK, Holds, Printed, Reused, Acked, Types, Quit, ToC, disk,
        main, shared, printer, thread, history
  <2>5. WholeOK(e)'
    BY <1>0, <2>0 DEF WholeOK, Reused, Acked, Types, DocPC, Quit, ToC, disk, main,
        shared, printer, thread, history
  <2> QED BY <2>1, <2>2, <2>3, <2>4, <2>5 DEF ClientOK
<1> QED BY <1>1, <1>2, <1>3, <1>4, <1>5 DEF ISpool

-----------------------------------------------------------------------------
LEMMA SpoolInit == Init => ISpool
<1> SUFFICES ASSUME Init PROVE ISpool
  OBVIOUS
<1>1. Types
  BY PrintdAssumption DEF Init, Types, TPC, EarlyPC, CPC
<1>2. MainOK /\ PrinterOK /\ \A k \in JobId : FilesOK(k)
  BY IdsEmpty DEF Init, MainOK, PrinterOK, FilesOK, Listed, WorkPC, DocPC
<1>3. ASSUME NEW c \in Client PROVE ClientOK(c)
  <2>1. SentOK(c) /\ AloneOK(c)
    BY DEF Init, SentOK, AloneOK, BusyPC
  <2>2. NumberOK(c) /\ KeptOK(c) /\ WholeOK(c)
    BY DEF Init, NumberOK, KeptOK, WholeOK, Acked, BusyPC
  <2> QED BY <2>1, <2>2 DEF ClientOK
<1> QED BY <1>1, <1>2, <1>3 DEF ISpool

\* A step of printer_thread that changes nothing but where it is, and no step.
LEMMA QuietKeeps ==
  ASSUME ISpool, UNCHANGED <<disk, main, shared, jp, doc, accepted, thread, client, history>>,
         ppc' = ppc \/ (ppc = "config" /\ ppc' = "open")
  PROVE  ISpool'
<1>0. /\ Types /\ MainOK /\ PrinterOK
      /\ (\A k \in JobId : FilesOK(k)) /\ (\A e \in Client : ClientOK(e))
  BY DEF ISpool
<1>1. Types' /\ MainOK'
  BY <1>0 DEF Types, MainOK, disk, main, shared, thread, client, history
<1>2. PrinterOK'
  BY <1>0 DEF PrinterOK, WorkPC, DocPC, history
<1>3. ASSUME NEW k \in JobId PROVE FilesOK(k)'
  BY <1>0, <1>3 DEF FilesOK, Listed, WorkPC, disk, main, shared, history
<1>4. ASSUME NEW e \in Client PROVE ClientOK(e)'
  <2>0. SentOK(e) /\ NumberOK(e) /\ AloneOK(e) /\ KeptOK(e) /\ WholeOK(e)
    BY <1>0 DEF ClientOK
  <2>1. SentOK(e)' /\ NumberOK(e)'
    BY <2>0 DEF SentOK, NumberOK, Holds, Acked, disk, thread, client, history
  <2>2. AloneOK(e)'
    BY <2>0 DEF AloneOK, Listed, WorkPC, Printed, Reused, shared, thread, history
  <2>3. KeptOK(e)'
    BY <2>0 DEF KeptOK, Holds, Printed, Reused, Acked, disk, thread, history
  <2>4. WholeOK(e)'
    BY <2>0 DEF WholeOK, DocPC, Reused, Acked, disk, thread, client, history
  <2> QED BY <2>1, <2>2, <2>3, <2>4 DEF ClientOK
<1> QED BY <1>1, <1>2, <1>3, <1>4 DEF ISpool

LEMMA SpoolStep == ISpool /\ [Next]_vars => ISpool'
<1> SUFFICES ASSUME ISpool, [Next]_vars PROVE ISpool'
  OBVIOUS
<1>1. CASE UNCHANGED vars
  BY <1>1, QuietKeeps DEF vars, printer
<1>2. CASE Start \/ build_qonstart
  BY <1>2, StartKeeps, BuildQonstartKeeps
<1>3. CASE Die \/ Config
  <2>1. CASE Gone /\ UNCHANGED <<disk, boot, jobid, stored, reply, sent, history>>
    BY <2>1, GoneKeeps
  <2>2. CASE /\ ppc = "config" /\ ppc' = "open"
             /\ UNCHANGED <<disk, main, shared, jp, doc, accepted, tpc, cpc>>
             /\ UNCHANGED <<jobid, stored, reply, sent, history>>
    BY <2>2, QuietKeeps DEF thread, client
  <2> QED BY <1>3, <2>1, <2>2 DEF Die, Config
<1>4. CASE Pick \/ update_jobno \/ Open \/ Send
  BY <1>4, PickKeeps, UpdateJobnoKeeps, OpenKeeps, SendKeeps
<1>5. CASE printer_status \/ Unlink \/ replace_job
  BY <1>5, PrinterStatusKeeps, UnlinkKeeps, ReplaceJobKeeps
<1>6. ASSUME NEW c \in Client, Accept(c) \/ Connect(c) \/ submit_file(c) \/ Quit(c)
      PROVE  ISpool'
  BY <1>6, AcceptKeeps, ConnectKeeps, SubmitFileKeeps, QuitKeeps
<1>7. ASSUME NEW c \in Client, client_thread(c)
      PROVE  ISpool'
  <2>1. CASE ReadHeader(c) \/ get_newjobno(c) \/ CreatData(c) \/ ReadData(c)
    BY <2>1, ReadHeaderKeeps, GetNewjobnoKeeps, CreatDataKeeps, ReadDataKeeps
  <2>2. CASE WriteControl(c) \/ Undo(c) \/ Reply(c) \/ add_job(c) \/ Signal(c)
    BY <2>2, WriteControlKeeps, UndoKeeps, ReplyKeeps, AddJobKeeps, SignalKeeps
  <2> QED BY <1>7, <2>1, <2>2 DEF client_thread
<1> QED BY <1>1, <1>2, <1>3, <1>4, <1>5, <1>6, <1>7 DEF Next, printer_thread

LEMMA SpoolAlways == Spec => []ISpool
BY SpoolInit, SpoolStep, PTL DEF Spec

\* Every variable keeps its type, the files and the job numbers included.
THEOREM SpoolTyped == Spec => []TypeOK
<1>1. ISpool => TypeOK
  BY DEF ISpool, Types, TypeOK, DocRec
<1> QED BY <1>1, SpoolAlways, PTL

\* What printd told a client it accepted is printed or lies in the spool, whole
\* in both its files, through every crash and restart of the daemon, unless the
\* number was handed out twice (client_thread, printer_thread, build_qonstart).
THEOREM AcceptedIsKept == Spec => []AckedKept
<1>1. ISpool => AckedKept
  BY DEF ISpool, AckedKept, ClientOK, KeptOK
<1> QED BY <1>1, SpoolAlways, PTL

\* A document its client sent to the end is whole in the spool and on paper.
THEOREM AcceptedIsWhole == Spec => []WholeUnlessSilent
<1>1. ISpool => WholeUnlessSilent
  BY DEF ISpool, WholeUnlessSilent, ClientOK, WholeOK
<1> QED BY <1>1, SpoolAlways, PTL

\* The printer thread never sleeps on a non-empty list with nobody about to
\* signal it, although add_job signals after it released joblock, replace_job
\* does not signal at all and the thread runs before the spool is scanned.
THEOREM NoWakeupLost == Spec => []NoLostWakeup
<1>1. Init => NoLostWakeup
  BY DEF Init, NoLostWakeup
<1>2. ISpool /\ NoLostWakeup /\ [Next]_vars => NoLostWakeup'
  <2> SUFFICES ASSUME tpc \in [Client -> TPC], NoLostWakeup, [Next]_vars PROVE NoLostWakeup'
    BY DEF ISpool, Types
  <2>1. CASE ppc' # "wait" \/ jobs' = <<>>
    BY <2>1 DEF NoLostWakeup
  <2>2. CASE UNCHANGED <<ppc, jobs, dpc, tpc>>
    BY <2>2 DEF NoLostWakeup
  <2>3. CASE UNCHANGED vars
    BY <2>2, <2>3 DEF vars, main, shared, printer, thread
  <2>4. CASE Start \/ Die \/ printer_thread
    BY <2>1, <2>2, <2>4 DEF Start, Die, Gone, printer_thread, Pick, update_jobno, Config, Open,
       Send, printer_status, Unlink, replace_job, main, shared, thread
  <2>5. CASE build_qonstart
    BY <2>1, <2>2, <2>5 DEF build_qonstart, NoLostWakeup, shared, printer, thread
  <2>6. ASSUME NEW c \in Client, Connect(c) \/ submit_file(c) \/ Quit(c)
        PROVE  NoLostWakeup'
    BY <2>2, <2>6 DEF Connect, submit_file, Quit, main, shared, printer, thread
  <2>7. ASSUME NEW c \in Client, tpc[c] # "signal", UNCHANGED <<ppc, jobs, dpc>>,
               NEW l, Go(c, l) \/ Reject(c, l)
        PROVE  NoLostWakeup'
    BY <2>7 DEF NoLostWakeup, Go, Reject
  <2>8. ASSUME NEW c \in Client, Accept(c) PROVE NoLostWakeup'
    BY <2>7, <2>8 DEF Accept, Go, main, shared, printer
  <2>9. ASSUME NEW c \in Client, client_thread(c) PROVE NoLostWakeup'
    <3>1. CASE ReadHeader(c) \/ get_newjobno(c) \/ CreatData(c)
      BY <2>7, <3>1 DEF ReadHeader, get_newjobno, CreatData, main, shared, printer
    <3>2. CASE ReadData(c)
      BY <2>2, <2>7, <3>2 DEF ReadData, main, shared, printer
    <3>3. CASE WriteControl(c) \/ Undo(c) \/ Reply(c)
      BY <2>7, <3>3 DEF WriteControl, Undo, Reply, main, shared, printer
    <3>4. CASE add_job(c)
      BY <3>4 DEF add_job, Go, NoLostWakeup
    <3>5. CASE Signal(c)
      BY <2>1, <3>5 DEF Signal
    <3> QED BY <2>9, <3>1, <3>2, <3>3, <3>4, <3>5 DEF client_thread
  <2> QED BY <2>3, <2>4, <2>5, <2>6, <2>8, <2>9 DEF Next
<1> QED BY <1>1, <1>2, SpoolAlways, PTL DEF Spec
=============================================================================
