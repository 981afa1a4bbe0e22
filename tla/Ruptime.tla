------------------------------ MODULE Ruptime ------------------------------
(***************************************************************************)
(* The uptime services of chapter 16.5: the connection-oriented servers    *)
(* that fork or use popen, the datagram server, and their clients, with    *)
(* initserver (16.4) and the book's connect_retry (sockets/clconn2.c).     *)
(* uptime prints one line.  A process is a number; 1 is the server that    *)
(* main started.                                                           *)
(***************************************************************************)
EXTENDS Naturals, Sequences, FiniteSets

CONSTANTS Client, QLEN, MAXSLEEP,
          MaxProc,    \* bound: processes of the forking server
          MaxLoss     \* bound: datagrams lost

VARIABLES kind,          \* "fork", "popen" or "udp"
          spc, serving,  \* each server process and its client
          queue,         \* connections to accept, or datagrams
          held,          \* processes with an open descriptor of a client's socket
          line,          \* the answer is at the client
          cpc, numsec,   \* the clients; the backoff of connect_retry
          early,         \* udp: clients whose alarm went off before recvfrom
          loss, unrun    \* datagrams lost; clients whose uptime could not run
vars == <<kind, spc, serving, queue, held, line, cpc, numsec, early, loss, unrun>>

Proc == 1..MaxProc
None == "none"

Init == /\ kind \in {"fork", "popen", "udp"}
        /\ spc = [p \in Proc |-> IF p = 1 THEN "main" ELSE "none"]
        /\ serving = [p \in Proc |-> None] /\ queue = <<>>
        /\ held = [c \in Client |-> {}] /\ line = {}
        /\ cpc = [c \in Client |-> "start"] /\ numsec = [c \in Client |-> 1]
        /\ early = {} /\ loss = 0 /\ unrun = {}

Net == <<queue, line, loss>>
Clients == <<cpc, numsec, early>>
ToS(p, l) == spc' = [spc EXCEPT ![p] = l]

\* All descriptors of p are closed.
Closed(p) == [c \in Client |-> held[c] \ {p}]

-----------------------------------------------------------------------------
\* getaddrinfo and initserver: an address that cannot be bound is passed over.
Start == /\ spc[1] = "main" /\ \E l \in {"accept", "dead"} : ToS(1, l)
         /\ UNCHANGED <<kind, serving, held, unrun, Net, Clients>>

\* accept or recvfrom; the socket is shared by all server processes.
Accept(p) ==
  /\ spc[p] = "accept" /\ queue # <<>> /\ ToS(p, "serve")
  /\ serving' = [serving EXCEPT ![p] = Head(queue)] /\ queue' = Tail(queue)
  /\ held' = IF kind = "udp" THEN held ELSE [held EXCEPT ![Head(queue)] = {p}]
  /\ UNCHANGED <<kind, line, loss, Clients, unrun>>

\* The mutant that does not close the client in the parent.
forkOpen(p) ==
  /\ kind = "fork" /\ spc[p] = "serve"
  /\ \E q \in Proc :
       /\ spc[q] = "none" /\ spc' = [spc EXCEPT ![p] = "wait", ![q] = "exec"]
       /\ held' = [held EXCEPT ![serving[p]] = {p, q}]
       /\ serving' = [serving EXCEPT ![q] = serving[p], ![p] = q]
  /\ UNCHANGED <<kind, unrun, Net, Clients>>

\* The child has the client's socket as its output, the parent closes it and
\* waits for the child.  The child's old output, perhaps the socket of an
\* earlier client, is closed by dup2.
fork(p) ==
  /\ kind = "fork" /\ spc[p] = "serve"
  /\ \/ \E q \in Proc :
          /\ spc[q] = "none" /\ spc' = [spc EXCEPT ![p] = "wait", ![q] = "exec"]
          /\ held' = [held EXCEPT ![serving[p]] = {q}]
          /\ serving' = [serving EXCEPT ![q] = serving[p], ![p] = q]
     \/ ToS(p, "dead") /\ held' = Closed(p) /\ UNCHANGED serving
  /\ UNCHANGED <<kind, unrun, Net, Clients>>

\* execl does not return and uptime exits after its line; or it fails, and the
\* child goes round the loop to accept.
execl(q) ==
  /\ spc[q] = "exec"
  /\ \/ /\ line' = line \cup {serving[q]} /\ ToS(q, "gone") /\ held' = Closed(q)
        /\ UNCHANGED unrun
     \/ /\ unrun' = unrun \cup {serving[q]} /\ ToS(q, "accept")
        /\ UNCHANGED <<line, held>>
  /\ UNCHANGED <<kind, serving, queue, loss, Clients>>

waitpid(p) ==
  /\ spc[p] = "wait" /\ spc[serving[p]] \in {"gone", "dead"} /\ ToS(p, "accept")
  /\ UNCHANGED <<kind, serving, held, unrun, Net, Clients>>

\* popen: the line, or the text of an error; the socket is closed.
popen(p) ==
  /\ kind = "popen" /\ spc[p] = "serve" /\ ToS(p, "accept")
  /\ line' = line \cup {serving[p]} /\ held' = Closed(p)
  /\ UNCHANGED <<kind, serving, queue, loss, Clients, unrun>>

\* The datagram server: the answer may be lost.
sendto(p) ==
  /\ kind = "udp" /\ spc[p] = "serve" /\ ToS(p, "accept")
  /\ \/ line' = line \cup {serving[p]} /\ UNCHANGED loss
     \/ loss < MaxLoss /\ loss' = loss + 1 /\ UNCHANGED line
  /\ UNCHANGED <<kind, serving, held, queue, Clients, unrun>>

serve(p) == Accept(p) \/ fork(p) \/ execl(p) \/ waitpid(p) \/ popen(p) \/ sendto(p)

-----------------------------------------------------------------------------
ToC(c, l) == cpc' = [cpc EXCEPT ![c] = l]
Listening == \E p \in Proc : spc[p] \in {"accept", "serve", "wait", "exec"}

\* connect_retry: refused while no server listens, tried again after numsec
\* seconds, twice as many each time.
connect_retry(c) ==
  /\ kind # "udp" /\ cpc[c] = "start"
  /\ \/ /\ Listening /\ Len(queue) < QLEN /\ queue' = Append(queue, c) /\ ToC(c, "recv")
        /\ UNCHANGED numsec
     \/ /\ ~Listening /\ numsec' = [numsec EXCEPT ![c] = 2 * @]
        /\ IF 2 * numsec[c] <= MAXSLEEP THEN UNCHANGED cpc ELSE ToC(c, "failed")
        /\ UNCHANGED queue
  /\ UNCHANGED <<kind, spc, serving, held, line, early, loss, unrun>>

\* print_uptime reads until the end of file, or an error after a reset.
recv(c) ==
  /\ kind # "udp" /\ cpc[c] = "recv"
  /\ ~Listening \/ (held[c] = {} /\ \A i \in DOMAIN queue : queue[i] # c)
  /\ ToC(c, "done")
  /\ UNCHANGED <<kind, spc, serving, held, numsec, early, unrun, Net>>

\* The datagram client: sendto, alarm, recvfrom.
Ask(c) ==
  /\ kind = "udp" /\ cpc[c] = "start" /\ ToC(c, "alarm")
  /\ \/ Listening /\ queue' = Append(queue, c) /\ UNCHANGED loss
     \/ loss < MaxLoss /\ loss' = loss + 1 /\ UNCHANGED queue
     \/ ~Listening /\ UNCHANGED <<queue, loss>>
  /\ UNCHANGED <<kind, spc, serving, held, line, numsec, early, unrun>>
recvfrom(c) ==
  /\ kind = "udp"
  /\ \/ cpc[c] = "alarm" /\ ToC(c, "recvfrom")
     \/ cpc[c] = "recvfrom" /\ c \in line /\ ToC(c, "done")
  /\ UNCHANGED <<kind, spc, serving, held, numsec, early, unrun, Net>>

\* The handler does nothing: only a recvfrom that is under way is interrupted.
sigalrm(c) ==
  /\ kind = "udp" /\ c \notin early
  /\ \/ cpc[c] = "alarm" /\ early' = early \cup {c} /\ UNCHANGED cpc
     \/ cpc[c] = "recvfrom" /\ ToC(c, "failed") /\ UNCHANGED early
  /\ UNCHANGED <<kind, spc, serving, held, numsec, unrun, Net>>

Waiting(c) == cpc[c] = "recvfrom"
Use(c) == connect_retry(c) \/ recv(c) \/ Ask(c) \/ recvfrom(c)
Idle == (\A c \in Client : cpc[c] # "start") /\ UNCHANGED vars
Next == Start \/ (\E p \in Proc : serve(p)) \/ (\E c \in Client : Use(c) \/ sigalrm(c)) \/ Idle
Spec == /\ Init /\ [][Next]_vars /\ WF_vars(Start)
        /\ \A p \in Proc : WF_vars(serve(p))
        /\ \A c \in Client : WF_vars(Use(c)) /\ WF_vars(Waiting(c) /\ sigalrm(c))

-----------------------------------------------------------------------------
\* Whatever forks and execs fail, one process at most is at accept or serves a
\* client, each of the others waits for the next; and a client's socket is open
\* in one process at most.
OneServes ==
  /\ \A p, q \in Proc : {spc[p], spc[q]} \subseteq {"main", "accept", "serve", "exec"} => p = q
  /\ \A c \in Client : Cardinality(held[c]) <= 1

\* Waiting processes form a chain, whose last one waits for who has the turn: at
\* accept, at a client, or back as soon as the child it waits for has ended.
Active == {"main", "accept", "serve", "exec"}
Turn(p) == spc[p] \in Active \/ (spc[p] = "wait" /\ spc[serving[p]] \in {"gone", "dead"})
IInv ==
  /\ spc = [p \in Proc |-> spc[p]] /\ serving = [p \in Proc |-> serving[p]]
  /\ \A p \in Proc : spc[p] \in Active \cup {"wait", "gone", "dead", "none"}
  /\ \A p \in Proc : spc[p] = "wait" => serving[p] \in Proc /\ spc[serving[p]] # "none"
  /\ \A p, q \in Proc : spc[p] = "wait" /\ spc[q] = "wait" /\ serving[p] = serving[q] => p = q
  /\ \A p, q \in Proc : Turn(p) /\ Turn(q) => p = q
  /\ held = [c \in Client |-> held[c]]
  /\ \A c \in Client : held[c] = {} \/ \E p : held[c] = {p}

\* Every client comes to an end: but one whose uptime could not run waits for
\* the end of file as long as the child that answers others now lives, and a
\* datagram client whose alarm went off too early waits for a lost answer; one
\* that reads "done" without an answer met a server that gave up.
Ended(c) == cpc[c] \in {"done", "failed"} \/ c \in early \cup unrun
ClientsEnd == \A c \in Client : <>Ended(c)
=============================================================================
