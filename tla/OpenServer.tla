----------------------------- MODULE OpenServer -----------------------------
(***************************************************************************)
(* The open server of src/apue/17.6open_serv_2 as it is built: clients     *)
(* that connect over a UNIX socket (17.3) and ask for files (csopen), the  *)
(* kernel's queue of connections and descriptors, the table of clients,    *)
(* serv_accept and handle_request; and loop(), which is loop_select.c or   *)
(* loop_poll.c, whichever is linked in.  What both loops promise their     *)
(* clients is stated once.                                                 *)
(*                                                                         *)
(* A request and its answer are one message each (FdPass models what they  *)
(* are made of); csopen waits for the answer, so a connection carries a    *)
(* request or an answer, never both.  A Conn stands for one client process after another.  *)
(***************************************************************************)
EXTENDS Integers, Sequences, FiniteSets, FiniteSetsExt, TLC

CONSTANTS Conn, uid,   \* client processes and their user ids
          QLEN, NALLOC \* length of the listen queue; growth step of the tables

ASSUME OpenAssumption == IsFiniteSet(Conn) /\ QLEN \in Nat \ {0} /\ NALLOC \in Nat \ {0}

VARIABLES sock,    \* a client's socket: "none", "queued", "taken" or "over"
          asked,   \* a request is in the stream, unread
          unread,  \* an answer is in the stream, unread
          shut,    \* the client has closed its end, or was killed
          stale,   \* its socket file is older than STALE seconds
          fdof,    \* the server's descriptor of a taken connection
          backlog, client,
          up,      \* the server process runs
          mishap   \* a client was stale, or went in the middle of a request
net  == <<sock, asked, unread, shut, stale, fdof, backlog, mishap>>
serv == <<client, up>>

listenfd == 3
Nobody == -1
FD == listenfd .. listenfd + Cardinality(Conn)
ConnAt(fd) == CHOOSE c \in Conn : sock[c] = "taken" /\ fdof[c] = fd

InitClients ==
  /\ sock = [c \in Conn |-> "none"] /\ asked = [c \in Conn |-> FALSE]
  /\ unread = [c \in Conn |-> FALSE]
  /\ shut = [c \in Conn |-> FALSE] /\ stale = [c \in Conn |-> FALSE]
  /\ fdof = [c \in Conn |-> Nobody]
  /\ backlog = <<>> /\ up = TRUE /\ mishap = FALSE

\* The table after client_alloc: NALLOC free entries more.
client_alloc(t) == t \o [n \in 1 .. NALLOC |-> [fd |-> Nobody, uid |-> 0]]

FreeSlots(t) == {n \in 1 .. Len(t) : t[n].fd = Nobody}

\* The mutant that reuses the first entry whether it is free or not.
client_addFirst(t, fd, u) ==
  IF t = <<>> THEN [client_alloc(t) EXCEPT ![1] = [fd |-> fd, uid |-> u]]
  ELSE [t EXCEPT ![1] = [fd |-> fd, uid |-> u]]

\* The mutant that keeps the uid of the entry's last owner.
client_addKeepsUid(t, fd, u) ==
  LET grown == IF FreeSlots(t) = {} THEN client_alloc(t) ELSE t
      n == Min(FreeSlots(grown))
  IN  [grown EXCEPT ![n] = [fd |-> fd, uid |-> IF @.uid = 0 THEN u ELSE @.uid]]

\* client_add: the first free entry, in a larger table if there is none.
client_add(t, fd, u) ==
  LET grown == IF FreeSlots(t) = {} THEN client_alloc(t) ELSE t
  IN  [grown EXCEPT ![Min(FreeSlots(grown))] = [fd |-> fd, uid |-> u]]

Entries(t, fd) == {n \in 1 .. Len(t) : t[n].fd = fd}

\* The mutant that does not free the entry.
client_delKeeps(t, fd) == t

\* client_del: the first entry with that descriptor; its uid stays.
client_del(t, fd) ==
  IF Entries(t, fd) = {} THEN t ELSE [t EXCEPT ![Min(Entries(t, fd))].fd = Nobody]

-----------------------------------------------------------------------------
(* The clients.  They and the clock do as they please.                     *)

\* cli_conn: socket, bind, chmod, connect.
cli_conn(c) ==
  /\ up /\ sock[c] = "none" /\ Len(backlog) < QLEN
  /\ sock' = [sock EXCEPT ![c] = "queued"]
  /\ backlog' = Append(backlog, c)
  /\ UNCHANGED <<asked, unread, shut, stale, fdof, mishap>>

\* csopen: the request goes out even before the server has accepted.
csopen(c) ==
  /\ up /\ sock[c] \in {"queued", "taken"} /\ ~shut[c] /\ ~asked[c] /\ ~unread[c]
  /\ asked' = [asked EXCEPT ![c] = TRUE]
  /\ UNCHANGED <<sock, unread, shut, stale, fdof, backlog, mishap>>

\* recv_fd in csopen takes the answer.
recv_fd(c) ==
  /\ unread[c] /\ ~shut[c]
  /\ unread' = [unread EXCEPT ![c] = FALSE]
  /\ UNCHANGED <<sock, asked, shut, stale, fdof, backlog, mishap>>

\* A client is done or is killed, perhaps before it has read its answer.
Quit(c) ==
  /\ sock[c] \in {"queued", "taken"} /\ ~shut[c]
  /\ shut' = [shut EXCEPT ![c] = TRUE]
  /\ mishap' = (mishap \/ asked[c] \/ unread[c])
  /\ UNCHANGED <<sock, asked, unread, stale, fdof, backlog>>

Age(c) ==
  /\ sock[c] = "queued" /\ ~stale[c]
  /\ stale' = [stale EXCEPT ![c] = TRUE]
  /\ mishap' = TRUE
  /\ UNCHANGED <<sock, asked, unread, shut, fdof, backlog>>

\* Another process takes the place of one whose connection is over.
Renew(c) ==
  /\ sock[c] = "over"
  /\ sock' = [sock EXCEPT ![c] = "none"]
  /\ asked' = [asked EXCEPT ![c] = FALSE]
  /\ shut' = [shut EXCEPT ![c] = FALSE]
  /\ UNCHANGED <<unread, stale, fdof, backlog, mishap>>

Client == \E c \in Conn : cli_conn(c) \/ csopen(c) \/ recv_fd(c) \/ Quit(c) \/ Age(c) \/ Renew(c)

-----------------------------------------------------------------------------
(* The server's calls.                                                     *)

Readable(fd) == IF fd = listenfd THEN backlog # <<>>
                ELSE \E c \in Conn : /\ sock[c] = "taken" /\ fdof[c] = fd
                                     /\ asked[c] \/ shut[c]

NewFd == Min(FD \ ({listenfd} \cup {fdof[c] : c \in Conn}))

\* serv_accept of a client whose socket file is fresh; the loops give up
\* (log_sys) on one that is not.
AcceptFresh(c) ==
  /\ ~stale[c]
  /\ sock' = [sock EXCEPT ![c] = "taken"]
  /\ fdof' = [fdof EXCEPT ![c] = NewFd]
  /\ client' = client_add(client, NewFd, uid[c])
  /\ backlog' = Tail(backlog)
  /\ UNCHANGED <<asked, unread, shut, stale, up, mishap>>

AcceptStale(c) ==
  /\ stale[c]
  /\ up' = FALSE
  /\ UNCHANGED <<net, client>>

\* read returns a request; handle_request answers.  The answer to a client
\* that is gone ends the server (SIGPIPE).
handle_request(c) ==
  /\ asked[c]
  /\ asked' = [asked EXCEPT ![c] = FALSE]
  /\ unread' = [unread EXCEPT ![c] = ~shut[c]]
  /\ up' = ~shut[c]
  /\ UNCHANGED <<sock, shut, stale, fdof, backlog, client, mishap>>

\* read returns 0: client_del, which ends the server (log_quit) if there is
\* no entry, and close.
Hangup(c) ==
  /\ ~asked[c] /\ shut[c] /\ ~unread[c]
  /\ client' = client_del(client, fdof[c])
  /\ sock' = [sock EXCEPT ![c] = "over"]
  /\ fdof' = [fdof EXCEPT ![c] = Nobody]
  /\ up' = (Entries(client, fdof[c]) # {})
  /\ UNCHANGED <<asked, unread, shut, stale, backlog, mishap>>

\* read returns -1 (ECONNRESET: the client closed with its answer unread),
\* on which both loops give up (log_sys).
ReadError(c) ==
  /\ ~asked[c] /\ shut[c] /\ unread[c]
  /\ up' = FALSE
  /\ UNCHANGED <<net, client>>

-----------------------------------------------------------------------------
(* The loops.                                                              *)

VARIABLES loop,                        \* "select" or "poll": the file linked in
          allset, rset, maxfd, maxi,   \* locals of the select loop
          pollfd, numfd,               \* locals of the poll loop: descriptor and
                                       \* revents of each entry; entries in use
          i, pc
selectvars == <<allset, rset, maxfd, maxi>>
pollvars   == <<pollfd, numfd>>
vars == <<net, serv, selectvars, pollvars, i, pc, loop>>

-----------------------------------------------------------------------------
(* loop_select.c.                                                          *)

SelectInit ==
  /\ InitClients
  /\ client = <<>>
  /\ allset = {listenfd} /\ rset = {} /\ maxfd = listenfd /\ maxi = 0
  /\ i = 1 /\ pc = "select"

\* select(maxfd + 1, &rset, ...): descriptors above maxfd are not looked at.
Select ==
  /\ up /\ pc = "select"
  /\ rset' = {fd \in allset : fd <= maxfd /\ Readable(fd)}
  /\ rset' # {}
  /\ pc' = IF listenfd \in rset' THEN "accept" ELSE "visit"
  /\ i' = 1
  /\ UNCHANGED <<net, serv, allset, maxfd, maxi>>

\* The mutant that leaves maxi to the first client.
Raise1(n) == IF maxi = 0 THEN n ELSE maxi

Raise(n) == IF n > maxi THEN n ELSE maxi

\* A new client; then select again, whatever else was ready.
SelectAccept ==
  /\ up /\ pc = "accept"
  /\ \/ /\ AcceptFresh(Head(backlog))
        /\ allset' = allset \cup {NewFd}
        /\ maxfd' = IF NewFd > maxfd THEN NewFd ELSE maxfd
        /\ maxi' = Raise(CHOOSE n \in 1 .. Len(client') : client'[n].fd = NewFd)
     \/ AcceptStale(Head(backlog)) /\ UNCHANGED <<allset, maxfd, maxi>>
  /\ pc' = "select"
  /\ UNCHANGED <<rset, i>>

\* One turn of the for loop over client[].
Selected == client[i].fd \in rset
SelectVisit ==
  /\ up /\ pc = "visit" /\ i <= maxi
  /\ i' = i + 1
  /\ \/ ~Selected /\ UNCHANGED <<net, serv, allset>>
     \/ Selected /\ handle_request(ConnAt(client[i].fd)) /\ UNCHANGED allset
     \/ Selected /\ ReadError(ConnAt(client[i].fd)) /\ UNCHANGED allset
     \/ Selected /\ Hangup(ConnAt(client[i].fd)) /\ allset' = allset \ {client[i].fd}
  /\ UNCHANGED <<rset, maxfd, maxi, pc>>

SelectEnd ==
  /\ up /\ pc = "visit" /\ i > maxi
  /\ pc' = "select"
  /\ UNCHANGED <<net, serv, selectvars, i>>

SelectLoop == Select \/ SelectAccept \/ SelectVisit \/ SelectEnd

-----------------------------------------------------------------------------
(* loop_poll.c.                                                            *)

Unused == [fd |-> Nobody, revents |-> FALSE]

\* grow_pollfd: NALLOC unused entries more.
grow_pollfd(p) == p \o [n \in 1 .. NALLOC |-> Unused]

\* The listening socket takes the first entry of both tables.
PollInit ==
  /\ InitClients
  /\ client = client_add(<<>>, listenfd, 0)
  /\ pollfd = [grow_pollfd(<<>>) EXCEPT ![1].fd = listenfd]
  /\ numfd = 1 /\ i = 2 /\ pc = "poll"

Poll ==
  /\ up /\ pc = "poll"
  /\ \E n \in 1 .. numfd : Readable(pollfd[n].fd)
  /\ pollfd' = [n \in 1 .. Len(pollfd) |->
                  IF n <= numfd THEN [pollfd[n] EXCEPT !.revents = Readable(pollfd[n].fd)]
                  ELSE pollfd[n]]
  /\ i' = 2
  /\ pc' = "accept"
  /\ UNCHANGED <<net, serv, numfd>>

\* The mutant that leaves revents as the entry's last owner had it.
EntryStale(old, fd) == [old EXCEPT !.fd = fd]

Entry(old, fd) == [fd |-> fd, revents |-> FALSE]

PollAccept ==
  /\ up /\ pc = "accept"
  /\ \/ ~pollfd[1].revents /\ UNCHANGED <<net, serv, pollfd, numfd>>
     \/ /\ pollfd[1].revents
        /\ AcceptFresh(Head(backlog))
        /\ LET grown == IF numfd = Len(pollfd) THEN grow_pollfd(pollfd) ELSE pollfd
           IN  pollfd' = [grown EXCEPT ![numfd + 1] = Entry(@, NewFd)]
        /\ numfd' = numfd + 1
     \/ pollfd[1].revents /\ AcceptStale(Head(backlog)) /\ UNCHANGED <<pollfd, numfd>>
  /\ pc' = "visit"
  /\ UNCHANGED i

\* The entry moved into a closed one's place is the next to look at.
Again == IF i < numfd THEN i ELSE i + 1

\* One turn of the for loop; a closed entry is replaced by the last one.
PollVisit ==
  /\ up /\ pc = "visit" /\ i <= numfd
  /\ \/ ~pollfd[i].revents /\ i' = i + 1 /\ UNCHANGED <<net, serv, pollfd, numfd>>
     \/ /\ pollfd[i].revents
        /\ handle_request(ConnAt(pollfd[i].fd))
        /\ i' = i + 1
        /\ UNCHANGED <<pollfd, numfd>>
     \/ /\ pollfd[i].revents
        /\ ReadError(ConnAt(pollfd[i].fd))
        /\ i' = i + 1
        /\ UNCHANGED <<pollfd, numfd>>
     \/ /\ pollfd[i].revents
        /\ Hangup(ConnAt(pollfd[i].fd))
        /\ pollfd' = IF i < numfd THEN [pollfd EXCEPT ![i] = pollfd[numfd]] ELSE pollfd
        /\ numfd' = numfd - 1
        /\ i' = Again
  /\ UNCHANGED pc

PollEnd ==
  /\ up /\ pc = "visit" /\ i > numfd
  /\ pc' = "poll"
  /\ UNCHANGED <<net, serv, pollvars, i>>

PollLoop == Poll \/ PollAccept \/ PollVisit \/ PollEnd

-----------------------------------------------------------------------------
Init == \/ loop = "select" /\ SelectInit /\ pollfd = <<>> /\ numfd = 0
        \/ loop = "poll" /\ PollInit /\ allset = {} /\ rset = {} /\ maxfd = 0 /\ maxi = 0

Server == \/ loop = "select" /\ SelectLoop /\ UNCHANGED <<pollvars, loop>>
          \/ loop = "poll" /\ PollLoop /\ UNCHANGED <<selectvars, loop>>

Next == Server \/ (Client /\ UNCHANGED <<serv, selectvars, pollvars, i, pc, loop>>)

\* The server process runs; the clients owe nothing.
Spec == Init /\ [][Next]_vars /\ WF_vars(Server)

-----------------------------------------------------------------------------
Taken == {c \in Conn : sock[c] = "taken"}
TableFds == {client[n].fd : n \in 1 .. Len(client)} \ {Nobody, listenfd}

\* The client table holds exactly the open connections, each once and under
\* the uid of its peer.
TableExact ==
  /\ TableFds = {fdof[c] : c \in Taken}
  /\ \A m, n \in 1 .. Len(client) : m # n /\ client[m].fd # Nobody =>
       client[m].fd # client[n].fd
  /\ \A c \in Taken : \E n \in 1 .. Len(client) :
       client[n] = [fd |-> fdof[c], uid |-> uid[c]]

\* The server ends only if a client went in the middle of a request (before
\* its answer was written: SIGPIPE; or before it read it: read fails), or
\* waited in the queue until its socket file was stale.
DownOnlyByMishap == ~up => mishap

\* A request is answered, unless its client goes or the server ends.
Answered == \A c \in Conn : asked[c] ~> (~asked[c] \/ shut[c] \/ ~up)

\* The loop looks at every open connection and at nothing else: select below
\* maxfd, and the loop over client[] reaches every entry in use; poll at the
\* listening socket and at every open connection once.
WatchedExact ==
  /\ loop = "select" =>
       /\ allset = {listenfd} \cup {fdof[c] : c \in Taken}
       /\ \A fd \in allset : fd <= maxfd
       /\ \A n \in 1 .. Len(client) : client[n].fd # Nobody => n <= maxi
  /\ loop = "poll" =>
       /\ pollfd[1].fd = listenfd
       /\ {pollfd[n].fd : n \in 2 .. numfd} = {fdof[c] : c \in Taken}
       /\ Cardinality(Taken) = numfd - 1

\* The descriptor the loop is about to read, and the uid it reads it under.
Reading == /\ up /\ pc = "visit"
           /\ IF loop = "select" THEN i <= maxi /\ Selected ELSE i <= numfd /\ pollfd[i].revents
ReadFd == IF loop = "select" THEN client[i].fd ELSE pollfd[i].fd

\* The server never reads a descriptor with nothing to read: it would wait
\* there for one client while all others wait for it; although revents may
\* have been moved, or set for an earlier owner of the entry.
NeverBlocks == Reading => Readable(ReadFd)

\* A request is handled under the uid of the client that sent it.
UidRight == Reading => client[i].uid = uid[ConnAt(ReadFd)]

\* The select loop does so.
UidRightSelect == loop = "select" => UidRight

-----------------------------------------------------------------------------
(* Values for TLC: every client has a user id of its own.                  *)

OwnUid == [x \in Conn |-> x]
Symmetric == Permutations(Conn)
=============================================================================
