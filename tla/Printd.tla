------------------------------- MODULE Printd -------------------------------
(***************************************************************************)
(* The print spooler of src/apue/apue.3e/printer: the daemon printd.c with *)
(* its main thread, one client_thread per connection and the               *)
(* printer_thread; the command print.c; the timed reads of util.c.         *)
(*                                                                         *)
(* On disk are the job number file and, under a job number, a data file    *)
(* and a control file.  A document is NChunks reads of IOBUFSZ bytes; a    *)
(* data file is the client it came from and the chunks it holds.  Every    *)
(* list operation runs under joblock, hence is one step; the signal of     *)
(* add_job comes after the unlock and is a step of its own.  The HTTP and  *)
(* IPP headers, the names and the texts are left out.                      *)
(***************************************************************************)
EXTENDS Naturals, Sequences, FiniteSets

CONSTANTS Client,    \* print commands, each with a document of its own
          NChunks,   \* chunks of a document
          MaxJob,    \* the largest int32_t
          MaxBoot,   \* bound: starts of the daemon
          NoFile, NoJob

ASSUME PrintdAssumption ==
  /\ NChunks \in Nat \ {0} /\ MaxJob \in Nat \ {0} /\ MaxBoot \in Nat
  /\ "part" \notin Client /\ NoFile \notin Client \cup [of : Client, n : Nat]

JobId == 1..MaxJob

VARIABLES
  jobfile, data, ctl,        \* disk: the number (0: empty), the files of each job
  boot, dpc, todo,           \* starts so far; main; files readdir has still to return
  nextjob, jobs,             \* nextjob; the list jobhead..jobtail
  ppc, jp, doc, accepted,    \* printer_thread; what it sent; the printer took it
  tpc, jobid, stored, reply, \* client_thread of each client; chunks it wrote; its answer
  cpc, sent,                 \* the print command; chunks it has sent
  handed, printed, lost      \* history: who got a number; documents printed; clients
                             \* whose job printer_thread could not open

disk    == <<jobfile, data, ctl>>
main    == <<boot, dpc, todo>>
shared  == <<nextjob, jobs>>
printer == <<ppc, jp, doc, accepted>>
thread  == <<tpc, jobid, stored, reply>>
client  == <<cpc, sent>>
history == <<handed, printed, lost>>
vars == <<disk, main, shared, printer, thread, client, history>>

Job(k) == [id |-> k, of |-> ctl[k]]

Init ==
  /\ jobfile = 0 /\ data = [k \in JobId |-> NoFile] /\ ctl = [k \in JobId |-> NoFile]
  /\ boot = 0 /\ dpc = "down" /\ todo = {}
  /\ nextjob = 0 /\ jobs = <<>>
  /\ ppc = "off" /\ jp = NoJob /\ doc = NoFile /\ accepted = FALSE
  /\ tpc = [c \in Client |-> "none"] /\ jobid = [c \in Client |-> 0]
  /\ stored = [c \in Client |-> 0] /\ reply = [c \in Client |-> "none"]
  /\ cpc = [c \in Client |-> "idle"] /\ sent = [c \in Client |-> 0]
  /\ handed = [k \in JobId |-> {}] /\ printed = {} /\ lost = {}

-----------------------------------------------------------------------------
(* The main thread.                                                        *)

init_request == nextjob' = IF jobfile = 0 THEN 1 ELSE jobfile

\* Up to build_qonstart: the printer thread runs before the spool is scanned.
Start ==
  /\ dpc = "down" /\ boot < MaxBoot
  /\ boot' = boot + 1 /\ dpc' = "scan"
  /\ todo' = {k \in JobId : ctl[k] # NoFile}
  /\ init_request /\ jobs' = <<>>
  /\ ppc' = "pick"
  /\ UNCHANGED <<disk, jp, doc, accepted, thread, client, history>>

\* One entry of the directory: a control file cut short goes with its data.
build_qonstart ==
  \/ /\ dpc = "scan" /\ todo # {}
     /\ \E k \in todo :
          /\ todo' = todo \ {k}
          /\ IF ctl[k] = "part"
             THEN /\ ctl' = [ctl EXCEPT ![k] = NoFile]
                  /\ data' = [data EXCEPT ![k] = NoFile]
                  /\ UNCHANGED <<jobs, dpc>>
             ELSE /\ jobs' = Append(jobs, Job(k)) /\ dpc' = "signal"
                  /\ UNCHANGED <<ctl, data>>
     /\ UNCHANGED <<jobfile, boot, nextjob, printer, thread, client, history>>
  \/ /\ dpc = "signal" /\ dpc' = "scan"
     /\ ppc' = IF ppc = "wait" THEN "pick" ELSE ppc
     /\ UNCHANGED <<disk, boot, todo, shared, jp, doc, accepted, thread, client, history>>
  \/ /\ dpc = "scan" /\ todo = {} /\ dpc' = "serve"
     /\ UNCHANGED <<disk, boot, todo, shared, printer, thread, client, history>>

Accept(c) ==
  /\ dpc = "serve" /\ cpc[c] # "idle" /\ tpc[c] = "none"
  /\ tpc' = [tpc EXCEPT ![c] = "header"]
  /\ UNCHANGED <<disk, main, shared, printer, jobid, stored, reply, client, history>>

\* The process ends: SIGTERM (kill_workers, exit), a configuration that names
\* no printer, or a crash.  Only the disk is left, and answers already sent.
Gone ==
  /\ boot < MaxBoot
  /\ dpc' = "down" /\ todo' = {} /\ nextjob' = 0 /\ jobs' = <<>>
  /\ ppc' = "off" /\ jp' = NoJob /\ doc' = NoFile /\ accepted' = FALSE
  /\ tpc' = [c \in Client |-> IF cpc[c] = "idle" THEN "none" ELSE "gone"]
  /\ cpc' = [c \in Client |-> IF cpc[c] \in {"header", "file"} THEN "failed" ELSE cpc[c]]
Die == /\ dpc # "down" /\ Gone
       /\ UNCHANGED <<disk, boot, jobid, stored, reply, sent, history>>

-----------------------------------------------------------------------------
(* client_thread.                                                          *)

Go(c, l) == tpc' = [tpc EXCEPT ![c] = l]

\* The answer with a return code, and where the thread goes on.
Reject(c, l) == /\ reply' = [reply EXCEPT ![c] = "rejected"] /\ Go(c, l)

\* What treadn returns for the header, 10 seconds for each read of it: all of
\* it, or too little because of the time, an end of file or an error.
treadn(c) == IF cpc[c] \in {"file", "resp"} THEN {"whole"} ELSE {"short"}

ReadHeader(c) ==
  /\ tpc[c] = "header"
  /\ \/ "whole" \in treadn(c) /\ Go(c, "number") /\ UNCHANGED reply
     \/ "short" \in treadn(c) /\ Reject(c, "gone")
  /\ UNCHANGED <<disk, main, shared, printer, jobid, stored, client, history>>

get_newjobno(c) ==
  /\ tpc[c] = "number" /\ Go(c, "creat")
  /\ jobid' = [jobid EXCEPT ![c] = nextjob]
  /\ nextjob' = IF nextjob = MaxJob THEN 1 ELSE nextjob + 1
  /\ handed' = [handed EXCEPT ![nextjob] = @ \cup {c}]
  /\ UNCHANGED <<disk, main, jobs, printer, stored, reply, client, printed, lost>>

CreatData(c) ==
  /\ tpc[c] = "creat"
  /\ \/ /\ data' = [data EXCEPT ![jobid[c]] = [of |-> c, n |-> 0]]
        /\ Go(c, "data") /\ UNCHANGED reply
     \/ Reject(c, "gone") /\ UNCHANGED data
  /\ UNCHANGED <<jobfile, ctl, main, shared, printer, jobid, stored, client, history>>

\* The name still leads to the file client_thread writes (an earlier job of the
\* same number may have been printed and unlinked meanwhile).
Holds(c) == data[jobid[c]] # NoFile /\ data[jobid[c]].of = c

\* What tread returns in the loop: a chunk, or nothing: end of file, an error,
\* or 20 seconds without one.
tread(c) == IF sent[c] > stored[c] THEN "chunk" ELSE "none"

\* The mutant that stops although there is something to read.
ReadDataOnce(c) ==
  /\ tpc[c] = "data" /\ Go(c, "ctl")
  /\ UNCHANGED <<stored, reply, disk, main, shared, printer, jobid, client, history>>

\* The loop of tread and write.  It ends at the end of the file, and just the
\* same when nothing comes for 20 seconds; the size announced is not looked at.
ReadData(c) ==
  /\ tpc[c] = "data"
  /\ \/ /\ tread(c) = "chunk"
        /\ \/ /\ stored' = [stored EXCEPT ![c] = @ + 1]
              /\ data' = IF Holds(c) THEN [data EXCEPT ![jobid[c]].n = stored[c] + 1] ELSE data
              /\ UNCHANGED <<tpc, reply>>
           \/ Reject(c, "undo data") /\ UNCHANGED <<stored, data>>
     \/ /\ tread(c) = "none" /\ stored' = [stored EXCEPT ![c] = 0]
        /\ Go(c, "ctl") /\ UNCHANGED <<data, reply>>
  /\ UNCHANGED <<jobfile, ctl, main, shared, printer, jobid, client, handed, printed, lost>>

\* The control file: creat leaves it empty, write completes it.
WriteControl(c) ==
  LET k == jobid[c] IN
  /\ \/ /\ tpc[c] = "ctl" 
        /\ \/ ctl' = [ctl EXCEPT ![k] = "part"] /\ Go(c, "write") /\ UNCHANGED reply
           \/ Reject(c, "undo data") /\ UNCHANGED ctl
     \/ /\ tpc[c] = "write"
        /\ \/ ctl' = [ctl EXCEPT ![k] = c] /\ Go(c, "reply") /\ UNCHANGED reply
           \/ Reject(c, "undo both") /\ UNCHANGED ctl
  /\ UNCHANGED <<jobfile, data, main, shared, printer, jobid, stored, client, history>>

\* unlink after an error.
Undo(c) ==
  /\ tpc[c] \in {"undo data", "undo both"} /\ Go(c, "gone")
  /\ data' = [data EXCEPT ![jobid[c]] = NoFile]
  /\ ctl' = IF tpc[c] = "undo both" THEN [ctl EXCEPT ![jobid[c]] = NoFile] ELSE ctl
  /\ UNCHANGED <<jobfile, main, shared, printer, jobid, stored, reply, client, history>>

Reply(c) ==
  /\ tpc[c] = "reply" /\ Go(c, "add")
  /\ reply' = [reply EXCEPT ![c] = "ok"]
  /\ UNCHANGED <<disk, main, shared, printer, jobid, stored, client, history>>

add_job(c) ==
  /\ tpc[c] = "add" /\ Go(c, "signal")
  /\ jobs' = Append(jobs, [id |-> jobid[c], of |-> c])
  /\ UNCHANGED <<disk, main, nextjob, printer, jobid, stored, reply, client, history>>

\* The mutant of add_job that does not signal.
SignalNone(c) ==
  /\ tpc[c] = "signal" /\ Go(c, "gone")
  /\ UNCHANGED <<disk, main, shared, printer, jobid, stored, reply, client, history>>

Signal(c) ==
  /\ tpc[c] = "signal" /\ Go(c, "gone")
  /\ ppc' = IF ppc = "wait" THEN "pick" ELSE ppc
  /\ UNCHANGED <<disk, main, shared, jp, doc, accepted, jobid, stored, reply, client, history>>

client_thread(c) ==
  \/ ReadHeader(c) \/ get_newjobno(c) \/ CreatData(c) \/ ReadData(c) \/ WriteControl(c)
  \/ Undo(c) \/ Reply(c) \/ add_job(c) \/ Signal(c)

-----------------------------------------------------------------------------
(* printer_thread.                                                         *)

remove_job == jp' = Head(jobs) /\ jobs' = Tail(jobs)

Pick ==
  /\ ppc = "pick"
  /\ IF jobs = <<>> THEN ppc' = "wait" /\ UNCHANGED <<jobs, jp>>
     ELSE ppc' = "update" /\ remove_job
  /\ UNCHANGED <<disk, main, nextjob, doc, accepted, thread, client, history>>

\* nextjob is read without joblock: it may be behind a number just handed out.
\* Its digits are written over the old ones, so that after a wrap-around the
\* tail of the old number may stay: the file then holds any number.
update_jobno ==
  /\ ppc = "update" /\ ppc' = "config"
  /\ jobfile' \in IF nextjob < jobfile THEN JobId ELSE {nextjob}
  /\ UNCHANGED <<data, ctl, main, shared, jp, doc, accepted, thread, client, history>>

\* The configuration file names a printer that has an address, or not.
get_printaddr == BOOLEAN

\* If a SIGHUP has come (signal_thread sets reread at any time before), the
\* configuration is read again; the process exits if it names no printer.
Config ==
  /\ ppc = "config"
  /\ \E found \in get_printaddr :
       \/ found /\ ppc' = "open" /\ UNCHANGED <<main, shared, jp, doc, accepted, tpc, cpc>>
       \/ ~found /\ Gone /\ UNCHANGED boot
  /\ UNCHANGED <<disk, jobid, stored, reply, sent, history>>

\* open and fstat, then connect_retry.  A job whose data cannot be opened is
\* dropped from memory; its control file stays.
Open ==
  /\ ppc = "open"
  /\ \/ /\ data[jp.id] # NoFile
        /\ doc' = data[jp.id] /\ ppc' \in {"send", "defer"}
        /\ UNCHANGED <<jp, lost>>
     \/ /\ lost' = lost \cup {jp.of} /\ jp' = NoJob /\ ppc' = "pick"
        /\ UNCHANGED doc
  /\ UNCHANGED <<disk, main, shared, accepted, thread, client, handed, printed>>

\* The headers and the file go out, or a write fails; the printer takes the
\* job or refuses it.
Send ==
  /\ ppc = "send"
  /\ LET d == IF data[jp.id] = NoFile THEN doc ELSE data[jp.id] IN
     \/ /\ ppc' = "status" /\ doc' = d /\ accepted' \in BOOLEAN
        /\ printed' = IF accepted' THEN printed \cup {d} ELSE printed
     \/ ppc' = "defer" /\ UNCHANGED <<doc, accepted, printed>>
  /\ UNCHANGED <<disk, main, shared, jp, thread, client, handed, lost>>

\* The mutant that takes any answer for a success.
printer_statusAny ==
  /\ ppc = "status" /\ ppc' \in {"unlink", "defer"}
  /\ UNCHANGED <<disk, main, shared, jp, doc, accepted, thread, client, history>>

\* Success is a 2xx answer with an IPP status of the right job; an answer may
\* also be lost, late or refused.  When two reads cut it one or two bytes
\* before the end of its HTTP header, the search for that end goes round for
\* ever (PrinterStatus models the search).
printer_status ==
  /\ ppc = "status"
  /\ \/ accepted /\ ppc' = "unlink"
     \/ ppc' \in {"defer", "endless"}
  /\ UNCHANGED <<disk, main, shared, jp, doc, accepted, thread, client, history>>

\* The job is done: its data file goes first, then its control file.
Unlink ==
  \/ /\ ppc = "unlink" /\ ppc' = "unlink ctl"
     /\ data' = [data EXCEPT ![jp.id] = NoFile] /\ doc' = NoFile /\ accepted' = FALSE
     /\ UNCHANGED <<jobfile, ctl, main, shared, jp, thread, client, history>>
  \/ /\ ppc = "unlink ctl" /\ ppc' = "pick"
     /\ ctl' = [ctl EXCEPT ![jp.id] = NoFile] /\ jp' = NoJob
     /\ UNCHANGED <<jobfile, data, main, shared, doc, accepted, thread, client, history>>

\* The mutant that forgets the job.
replace_jobDropped ==
  /\ ppc = "defer" /\ ppc' = "pick"
  /\ jp' = NoJob /\ doc' = NoFile /\ accepted' = FALSE
  /\ UNCHANGED <<disk, main, shared, thread, client, history>>

\* defer: replace_job at the head of the list and sleep a minute.
replace_job ==
  /\ ppc = "defer" /\ ppc' = "pick"
  /\ jobs' = <<jp>> \o jobs /\ jp' = NoJob /\ doc' = NoFile /\ accepted' = FALSE
  /\ UNCHANGED <<disk, main, nextjob, thread, client, history>>

printer_thread ==
  \/ Pick \/ update_jobno \/ Config \/ Open \/ Send \/ printer_status \/ Unlink \/ replace_job

-----------------------------------------------------------------------------
(* print.c.                                                                *)

ToC(c, l) == cpc' = [cpc EXCEPT ![c] = l]

Connect(c) ==
  /\ cpc[c] = "idle" /\ dpc # "down" /\ ToC(c, "header")
  /\ UNCHANGED <<disk, main, shared, printer, thread, sent, history>>

\* The header, then the file, then the wait for the answer.  What is sent when
\* the server has stopped reading makes no difference, nor does the answer.
submit_file(c) ==
  /\ \/ cpc[c] = "header" /\ ToC(c, "file") /\ UNCHANGED sent
     \/ /\ cpc[c] = "file" /\ tpc[c] \in {"none", "header", "number", "creat", "data"}
        /\ sent' = [sent EXCEPT ![c] = @ + 1]
        /\ IF sent'[c] = NChunks THEN ToC(c, "resp") ELSE UNCHANGED cpc
  /\ UNCHANGED <<disk, main, shared, printer, thread, history>>

\* The command is killed, or a write fails because the server closed.
Quit(c) ==
  /\ cpc[c] \in {"header", "file"} /\ ToC(c, "failed")
  /\ UNCHANGED <<disk, main, shared, printer, thread, sent, history>>

Next ==
  \/ Start \/ build_qonstart \/ Die \/ printer_thread
  \/ \E c \in Client : Accept(c) \/ client_thread(c) \/ Connect(c) \/ submit_file(c) \/ Quit(c)

\* The threads run, except in an endless loop; a printer asked again and again
\* takes the job in the end.
Fairness ==
  /\ WF_vars(Start) /\ WF_vars(build_qonstart) /\ WF_vars(printer_thread)
  /\ SF_vars(Open /\ ppc' = "send") /\ SF_vars(Send /\ accepted')
  /\ SF_vars(printer_status /\ ppc' = "unlink")
  /\ \A c \in Client : WF_vars(client_thread(c)) /\ WF_vars(submit_file(c))

Spec == Init /\ [][Next]_vars
FairSpec == Spec /\ Fairness

-----------------------------------------------------------------------------
Acked(c) == reply[c] = "ok"
Printed(c) == \E d \in printed : d.of = c
Reused(c) == jobid[c] # 0 /\ handed[jobid[c]] # {c}

TypeOK ==
  /\ jobfile \in 0..MaxJob /\ nextjob \in 0..MaxJob /\ boot \in 0..MaxBoot
  /\ data \in [JobId -> {NoFile} \cup [of : Client, n : 0..NChunks]]
  /\ ctl \in [JobId -> Client \cup {NoFile, "part"}]
  /\ todo \subseteq JobId /\ jobid \in [Client -> 0..MaxJob] /\ sent \in [Client -> 0..NChunks]

\* A job the client was told is accepted is printed, or its two files are in
\* the spool, whatever the daemon did in between (crash, SIGTERM, restart):
\* unless its number was given to another job too, which printd does after a
\* restart because only printer_thread saves nextjob.
AckedKept ==
  \A c \in Client : Acked(c) =>
    \/ Printed(c) \/ Reused(c)
    \/ ctl[jobid[c]] = c /\ Holds(c)

\* The printer thread never sleeps on a non-empty list with nobody about to
\* signal: add_job signals after it released joblock, replace_job not at all.
NoLostWakeup ==
  ppc = "wait" /\ jobs # <<>> => dpc = "signal" \/ \E c \in Client : tpc[c] = "signal"

\* What is in the spool or on paper of an accepted job is the whole document, if
\* the client could send it all: it did not die, and was never silent for 20
\* seconds with chunks still to send (and its number was not given away).
WholeUnlessSilent ==
  \A c \in Client : Acked(c) /\ cpc[c] = "resp" /\ ~Reused(c) =>
     \A d \in printed \cup {data[k] : k \in JobId} :
        d # NoFile => d.of # c \/ d.n = NChunks

\* Every accepted job is printed in the end, in spite of refusals, lost answers
\* and restarts, if printer_thread could open its data and its number was not
\* given away; unless the printer thread ends in printer_status's endless
\* search for the end of a header that came in two reads, and no restart
\* frees it.
EventuallyPrinted ==
  \/ \A c \in Client : Acked(c) ~> (Printed(c) \/ Reused(c) \/ c \in lost)
  \/ <>[](ppc = "endless")
=============================================================================
