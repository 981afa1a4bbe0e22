-------------------------- MODULE OpenServerProofs --------------------------
(***************************************************************************)
(* Proofs about the open server, for any finite set of client processes    *)
(* and any growth step of its tables, whichever loop is linked in.         *)
(***************************************************************************)
EXTENDS OpenServer, FiniteSetTheorems, WellFoundedInduction, TLAPS

(***************************************************************************)
(* The inductive invariant: what serv_accept, the client table and the     *)
(* kernel keep, then what each loop adds to it.                            *)
(***************************************************************************)
Fd == FD \cup {Nobody}
Uid == {uid[c] : c \in Conn} \cup {0}
Slot == [fd : Fd, uid : Uid]
PollSlot == [fd : Fd, revents : BOOLEAN]

Types ==
  /\ sock \in [Conn -> {"none", "queued", "taken", "over"}]
  /\ asked \in [Conn -> BOOLEAN] /\ unread \in [Conn -> BOOLEAN]
  /\ shut \in [Conn -> BOOLEAN] /\ stale \in [Conn -> BOOLEAN]
  /\ fdof \in [Conn -> Fd] /\ backlog \in Seq(Conn) /\ client \in Seq(Slot)
  /\ up \in BOOLEAN /\ mishap \in BOOLEAN

\* An open connection has a descriptor of its own, any other has none.
FdsOK ==
  \A c \in Conn :
    /\ sock[c] = "taken" => fdof[c] \in FD \ {listenfd}
    /\ sock[c] # "taken" => fdof[c] = Nobody
    /\ \A d \in Conn : sock[c] = "taken" /\ fdof[c] = fdof[d] => c = d

\* The queue holds clients that were not accepted yet, each once.
QueueOK ==
  \A m \in 1 .. Len(backlog) :
    /\ sock[backlog[m]] = "queued"
    /\ \A n \in 1 .. Len(backlog) : backlog[m] = backlog[n] => m = n

\* A stale client still waits; it, and one that left a request or an answer,
\* are mishaps.
MishapOK ==
  /\ \A c \in Conn : stale[c] => sock[c] = "queued" /\ mishap
  /\ \A c \in Conn : (asked[c] \/ unread[c]) /\ shut[c] => mishap
  /\ ~up => mishap

\* The entries of the client table, beside the listening socket's.
TableOK ==
  /\ \A m \in 1 .. Len(client) : client[m].fd # Nobody =>
       \A n \in 1 .. Len(client) : client[m].fd = client[n].fd => m = n
  /\ \A c \in Taken : \E n \in 1 .. Len(client) : client[n] = [fd |-> fdof[c], uid |-> uid[c]]
  /\ \A n \in 1 .. Len(client) : client[n].fd \notin {Nobody, listenfd} =>
       \E c \in Taken : fdof[c] = client[n].fd

NetOK == Types /\ FdsOK /\ QueueOK /\ MishapOK /\ TableOK

\* The select loop.  What it has still to visit of rset is ready to be read.
SelectOK ==
  /\ allset = {listenfd} \cup {fdof[c] : c \in Taken}
  /\ maxfd \in Int /\ maxi \in 0 .. Len(client) /\ i \in Nat \ {0}
  /\ Nobody \notin rset /\ \A fd \in allset : fd <= maxfd
  /\ \A n \in 1 .. Len(client) : client[n].fd # listenfd /\ (client[n].fd # Nobody => n <= maxi)
  /\ pc \in {"select", "accept", "visit"}
  /\ pc = "accept" => backlog # <<>>
  /\ pc = "visit" => \A n \in 1 .. Len(client) :
       n >= i /\ client[n].fd \in rset => Readable(client[n].fd)

\* The poll loop.  pollfd holds every open connection once, whatever was moved;
\* what it has still to visit with revents set is ready to be read.
WatchOK ==
  /\ pollfd \in Seq(PollSlot) /\ numfd \in 1 .. Len(pollfd)
  /\ pollfd[1].fd = listenfd
  /\ \A n \in 2 .. numfd : \E c \in Taken : fdof[c] = pollfd[n].fd
  /\ \A c \in Taken : \E n \in 2 .. numfd : fdof[c] = pollfd[n].fd
  /\ \A m, n \in 1 .. numfd : pollfd[m].fd = pollfd[n].fd => m = n
  /\ Cardinality(Taken) = numfd - 1
ReadyOK ==
  /\ i \in Nat /\ i >= 2
  /\ pc \in {"poll", "accept", "visit"}
  /\ pc = "accept" => i = 2 /\ (pollfd[1].revents => backlog # <<>>)
  /\ pc # "poll" => \A n \in 2 .. numfd :
       n >= i /\ pollfd[n].revents => Readable(pollfd[n].fd)
PollOK == WatchOK /\ ReadyOK

IServer ==
  /\ NetOK
  /\ loop \in {"select", "poll"}
  /\ loop = "select" => SelectOK
  /\ loop = "poll" => PollOK
-----------------------------------------------------------------------------
(* The least number of a set, and the tables.                              *)

LEMMA MinIs ==
  ASSUME NEW T \in SUBSET Nat, T # {}
  PROVE  Min(T) \in T /\ \A x \in T : Min(T) <= x
<1>1. \E m \in T : \A x \in T : m <= x
  <2>1. PICK m \in T : \A y \in T : <<y, m>> \notin OpToRel(<, Nat)
    BY NatLessThanWellFounded, WFMin
  <2>2. \A y \in T : ~(y < m)
    BY <2>1 DEF OpToRel
  <2> QED BY <2>2
<1> QED BY <1>1 DEF Min

LEMMA FdFacts ==
  /\ FD \subseteq Nat /\ listenfd \in FD /\ Nobody \notin FD /\ Cardinality(Conn) \in Nat
  /\ FD = 3 .. 3 + Cardinality(Conn)
BY OpenAssumption, FS_CardinalityType DEF FD, listenfd, Nobody

\* client_alloc makes room.
LEMMA AllocMakesRoom ==
  ASSUME NEW t \in Seq(Slot)
  PROVE  /\ client_alloc(t) \in Seq(Slot) /\ Len(client_alloc(t)) = Len(t) + NALLOC
         /\ \A n \in 1 .. Len(t) : client_alloc(t)[n] = t[n]
         /\ \A n \in Len(t) + 1 .. Len(t) + NALLOC : client_alloc(t)[n].fd = Nobody
<1>1. [fd |-> Nobody, uid |-> 0] \in Slot
  BY DEF Slot, Fd, Uid
<1>2. PICK g : g = [n \in 1 .. NALLOC |-> [fd |-> Nobody, uid |-> 0]]
  OBVIOUS
<1>3. g \in Seq(Slot) /\ Len(g) = NALLOC /\ \A n \in 1 .. NALLOC : g[n].fd = Nobody
  BY <1>1, <1>2, OpenAssumption
<1>4. /\ t \o g \in Seq(Slot) /\ Len(t \o g) = Len(t) + NALLOC
      /\ \A n \in 1 .. Len(t) : (t \o g)[n] = t[n]
      /\ \A n \in Len(t) + 1 .. Len(t) + NALLOC : (t \o g)[n] = g[n - Len(t)] /\ n - Len(t) \in 1 .. NALLOC
  BY <1>3, OpenAssumption
<1> QED BY <1>2, <1>3, <1>4 DEF client_alloc

\* client_add fills one free entry, at the end of the table if need be, and
\* leaves every other as it is.
Filled(t, r, fd, u) ==
  /\ r \in Seq(Slot) /\ Len(r) \in Nat /\ Len(t) \in Nat /\ Len(t) <= Len(r)
  /\ \E n \in 1 .. Len(r) :
       /\ r[n] = [fd |-> fd, uid |-> u]
       /\ n <= Len(t) => t[n].fd = Nobody
       /\ \A m \in 1 .. Len(r) : m # n =>
            IF m <= Len(t) THEN r[m] = t[m] ELSE r[m].fd = Nobody

LEMMA AddFillsOne ==
  ASSUME NEW t \in Seq(Slot), NEW fd \in FD, NEW u \in Uid, NEW r, r = client_add(t, fd, u)
  PROVE  Filled(t, r, fd, u)
<1>1. PICK g : g = IF FreeSlots(t) = {} THEN client_alloc(t) ELSE t
  OBVIOUS
<1>2. /\ g \in Seq(Slot) /\ Len(g) \in Nat /\ Len(t) \in Nat /\ Len(t) <= Len(g)
      /\ \A n \in 1 .. Len(t) : g[n] = t[n]
      /\ \A n \in 1 .. Len(g) : n <= Len(t) \/ g[n].fd = Nobody
      /\ FreeSlots(g) # {}
  <2>1. CASE FreeSlots(t) = {}
    <3>1. /\ g \in Seq(Slot) /\ Len(g) = Len(t) + NALLOC /\ Len(t) \in Nat
          /\ \A n \in 1 .. Len(t) : g[n] = t[n]
          /\ \A n \in Len(t) + 1 .. Len(t) + NALLOC : g[n].fd = Nobody
      BY <1>1, <2>1, AllocMakesRoom
    <3>2. Len(t) + 1 \in FreeSlots(g)
      BY <3>1, OpenAssumption DEF FreeSlots
    <3> QED BY <3>1, <3>2, OpenAssumption
  <2>2. CASE FreeSlots(t) # {}
    BY <1>1, <2>2
  <2> QED BY <2>1, <2>2
<1>3. PICK n : n = Min(FreeSlots(g))
  OBVIOUS
<1>4. n \in 1 .. Len(g) /\ g[n].fd = Nobody
  <2>1. FreeSlots(g) \subseteq Nat /\ FreeSlots(g) \subseteq 1 .. Len(g)
    BY <1>2 DEF FreeSlots
  <2>2. n \in FreeSlots(g)
    BY <1>2, <1>3, <2>1, MinIs
  <2> QED BY <2>2 DEF FreeSlots
<1>5. r = [g EXCEPT ![n] = [fd |-> fd, uid |-> u]]
  BY <1>1, <1>3 DEF client_add
<1>6. [fd |-> fd, uid |-> u] \in Slot
  BY DEF Slot, Fd
<1>7. /\ r \in Seq(Slot) /\ Len(r) = Len(g) /\ r[n] = [fd |-> fd, uid |-> u]
      /\ \A m \in 1 .. Len(g) : m # n => r[m] = g[m]
  BY <1>2, <1>4, <1>5, <1>6
<1> QED BY <1>2, <1>4, <1>7 DEF Filled

\* client_del frees an entry with that descriptor.
LEMMA DelFreesOne ==
  ASSUME NEW t \in Seq(Slot), NEW fd, NEW n \in 1 .. Len(t), t[n].fd = fd,
         \A m \in 1 .. Len(t) : t[m].fd = fd => m = n,
         NEW r, r = client_del(t, fd)
  PROVE  /\ r \in Seq(Slot) /\ Len(r) = Len(t) /\ r[n].fd = Nobody
         /\ \A m \in 1 .. Len(t) : m # n => r[m] = t[m]
<1>1. Entries(t, fd) = {n}
  BY DEF Entries
<1>2. n \in Nat /\ Min({n}) = n
  <2>1. n \in Nat /\ {n} \in SUBSET Nat /\ {n} # {}
    OBVIOUS
  <2> QED BY <2>1, MinIs
<1>3. r = [t EXCEPT ![n].fd = Nobody]
  BY <1>1, <1>2 DEF client_del
<1>4. t[n] \in Slot /\ [t[n] EXCEPT !.fd = Nobody] = [fd |-> Nobody, uid |-> t[n].uid]
  <2>1. t[n] \in Slot
    OBVIOUS
  <2>2. \A x \in Slot : [x EXCEPT !.fd = Nobody] = [fd |-> Nobody, uid |-> x.uid]
    BY DEF Slot
  <2> QED BY <2>1, <2>2
<1>5. [fd |-> Nobody, uid |-> t[n].uid] \in Slot
  BY <1>4 DEF Slot, Fd
<1>6. r = [t EXCEPT ![n] = [fd |-> Nobody, uid |-> t[n].uid]]
  BY <1>3, <1>4
<1> QED BY <1>5, <1>6

-----------------------------------------------------------------------------
(* The kernel and the client table.                                        *)

LEMMA ConnAtIs ==
  ASSUME FdsOK, NEW c \in Conn, sock[c] = "taken"
  PROVE  ConnAt(fdof[c]) = c
BY DEF FdsOK, ConnAt

\* There is a descriptor for a client that waits in the queue.
LEMMA NewFdIs ==
  ASSUME Types, FdsOK, NEW c \in Conn, sock[c] # "taken"
  PROVE  NewFd \in FD \ {listenfd} /\ \A d \in Conn : fdof[d] # NewFd
<1>1. PICK N : N = Cardinality(Conn)
  OBVIOUS
<1>2. N \in Nat /\ FD = 3 .. 3 + N /\ listenfd = 3 /\ fdof[c] = -1
  BY <1>1, FdFacts DEF listenfd, Nobody, FdsOK
<1>3. PICK T : T = FD \ ({listenfd} \cup {fdof[d] : d \in Conn})
  OBVIOUS
<1>4. T # {}
  <2> SUFFICES ASSUME T = {} PROVE FALSE
    OBVIOUS
  <2>1. PICK S : S = {d \in Conn \ {c} : fdof[d] \in 4 .. 3 + N}
    OBVIOUS
  <2>2. PICK f : f = [d \in S |-> fdof[d]]
    OBVIOUS
  <2>3. f \in Surjection(S, 4 .. 3 + N)
    <3>1. f \in [S -> 4 .. 3 + N]
      BY <2>1, <2>2
    <3>2. ASSUME NEW x \in 4 .. 3 + N PROVE \E d \in S : f[d] = x
      <4>1. x \in FD /\ x # listenfd /\ x # -1
        BY <1>2
      <4>2. PICK d \in Conn : fdof[d] = x
        BY <1>3, <4>1
      <4> QED BY <1>2, <2>1, <2>2, <4>1, <4>2
    <3> QED BY <3>1, <3>2 DEF Surjection
  <2>4. IsFiniteSet(Conn \ {c}) /\ Cardinality(Conn \ {c}) = N - 1
    BY <1>1, OpenAssumption, FS_RemoveElement
  <2>5. IsFiniteSet(S) /\ Cardinality(S) <= N - 1 /\ Cardinality(S) \in Nat
    BY <2>1, <2>4, FS_Subset, FS_CardinalityType
  <2>6. Cardinality(4 .. 3 + N) <= Cardinality(S)
    BY <2>3, <2>5, FS_Surjection
  <2>7. Cardinality(4 .. 3 + N) = N
    BY <1>2, FS_Interval
  <2> QED BY <1>2, <2>5, <2>6, <2>7
<1>5. T \in SUBSET Nat
  BY <1>2, <1>3
<1>6. NewFd \in T
  <2>1. NewFd = Min(T)
    BY <1>3 DEF NewFd
  <2> QED BY <1>4, <1>5, <2>1, MinIs
<1> QED BY <1>3, <1>6

\* What a descriptor still offers to be read after a step.
StillReadable == \A fd \in Fd : fd # listenfd /\ Readable(fd) => Readable(fd)'
StillReadableBut(x) ==
  \A fd \in Fd : fd # listenfd /\ fd # x /\ Readable(fd) => Readable(fd)'

\* What the clients and the clock do leaves the server's tables alone.
LEMMA ClientKeepsNet ==
  ASSUME NetOK, Client, UNCHANGED serv
  PROVE  /\ NetOK' /\ StillReadable /\ Taken' = Taken /\ fdof' = fdof
         /\ backlog # <<>> => backlog' # <<>>
<1>0. Types /\ FdsOK /\ QueueOK /\ MishapOK /\ TableOK
  BY DEF NetOK
<1>1. PICK c \in Conn : cli_conn(c) \/ csopen(c) \/ recv_fd(c) \/ Quit(c) \/ Age(c) \/ Renew(c)
  BY DEF Client
<1>2. fdof' = fdof /\ client' = client /\ up' = up /\ (mishap => mishap')
  <2>1. fdof' = fdof /\ client' = client /\ up' = up
    BY <1>1 DEF cli_conn, csopen, recv_fd, Quit, Age, Renew, serv
  <2>2. mishap' = mishap \/ Quit(c) \/ Age(c)
    BY <1>1 DEF cli_conn, csopen, recv_fd, Renew
  <2>3. Quit(c) \/ Age(c) => (mishap => mishap')
    BY DEF Quit, Age
  <2> QED BY <2>1, <2>2, <2>3
<1>3. /\ \A d \in Conn : sock'[d] = "taken" <=> sock[d] = "taken"
      /\ \A d \in Conn : sock[d] = "queued" => sock'[d] = "queued"
  BY <1>0, <1>1 DEF Types, cli_conn, csopen, recv_fd, Quit, Age, Renew
<1>4. Taken' = Taken
  BY <1>3 DEF Taken
<1>5. Types'
  <2>1. CASE cli_conn(c)
    BY <1>0, <1>2, <2>1 DEF Types, cli_conn
  <2>2. CASE csopen(c) \/ recv_fd(c)
    BY <1>0, <1>2, <2>2 DEF Types, csopen, recv_fd
  <2>3. CASE Quit(c) \/ Age(c)
    BY <1>0, <1>2, <2>3 DEF Types, Quit, Age
  <2>4. CASE Renew(c)
    BY <1>0, <1>2, <2>4 DEF Types, Renew
  <2> QED BY <1>1, <2>1, <2>2, <2>3, <2>4
<1>6. FdsOK' /\ TableOK'
  BY <1>0, <1>2, <1>3, <1>4 DEF FdsOK, TableOK
<1>7. QueueOK' /\ (backlog # <<>> => backlog' # <<>>)
  <2>1. CASE backlog' = backlog
    BY <1>0, <1>3, <2>1 DEF QueueOK, Types
  <2>2. CASE cli_conn(c)
    BY <1>0, <1>3, <2>2 DEF cli_conn, QueueOK, Types
  <2> QED BY <1>1, <2>1, <2>2 DEF csopen, recv_fd, Quit, Age, Renew
<1>8. MishapOK'
  <2>1. CASE cli_conn(c) \/ csopen(c) \/ recv_fd(c)
    BY <1>0, <1>2, <1>3, <2>1 DEF MishapOK, Types, cli_conn, csopen, recv_fd
  <2>2. CASE Quit(c)
    BY <1>0, <1>2, <1>3, <2>2 DEF MishapOK, Types, Quit
  <2>3. CASE Age(c)
    BY <1>0, <1>2, <1>3, <2>3 DEF MishapOK, Types, Age
  <2>4. CASE Renew(c)
    BY <1>0, <1>2, <1>3, <2>4 DEF MishapOK, Types, Renew
  <2> QED BY <1>1, <2>1, <2>2, <2>3, <2>4
<1>9. StillReadable
  <2>1. \A d \in Conn : sock[d] = "taken" => (asked[d] => asked'[d]) /\ (shut[d] => shut'[d])
    BY <1>0, <1>1 DEF Types, cli_conn, csopen, recv_fd, Quit, Age, Renew
  <2> QED BY <1>2, <1>3, <2>1 DEF StillReadable, Readable
<1> QED BY <1>2, <1>4, <1>5, <1>6, <1>7, <1>8, <1>9 DEF NetOK

\* serv_accept and client_add.
LEMMA AcceptKeepsNet ==
  ASSUME NetOK, backlog # <<>>, NEW c, c = Head(backlog), AcceptFresh(c)
  PROVE  /\ NetOK' /\ StillReadable /\ c \in Conn /\ c \notin Taken /\ Taken' = Taken \cup {c}
         /\ NewFd \in FD \ {listenfd} /\ fdof'[c] = NewFd
         /\ \A d \in Conn : fdof[d] # NewFd /\ (d # c => fdof'[d] = fdof[d])
         /\ Filled(client, client', NewFd, uid[c])
<1>0. Types /\ FdsOK /\ QueueOK /\ MishapOK /\ TableOK
  BY DEF NetOK
<1>1. c \in Conn /\ c = backlog[1] /\ 1 \in 1 .. Len(backlog) /\ sock[c] = "queued"
  BY <1>0 DEF Types, QueueOK
<1>2. PICK x : x = NewFd
  OBVIOUS
<1>3. x \in FD \ {listenfd} /\ (\A d \in Conn : fdof[d] # x) /\ x # Nobody
  BY <1>0, <1>1, <1>2, NewFdIs, FdFacts
<1>4. /\ sock' = [sock EXCEPT ![c] = "taken"] /\ fdof' = [fdof EXCEPT ![c] = x]
      /\ client' = client_add(client, x, uid[c]) /\ backlog' = Tail(backlog)
      /\ UNCHANGED <<asked, unread, shut, stale, up, mishap>> /\ ~stale[c]
  BY <1>2 DEF AcceptFresh
<1>5. /\ sock'[c] = "taken" /\ fdof'[c] = x
      /\ \A d \in Conn : d # c => sock'[d] = sock[d] /\ fdof'[d] = fdof[d]
  BY <1>0, <1>1, <1>4 DEF Types
<1>6. Taken' = Taken \cup {c} /\ c \notin Taken
  BY <1>1, <1>5 DEF Taken
<1>7. Filled(client, client', x, uid[c])
  <2>1. uid[c] \in Uid /\ client \in Seq(Slot) /\ x \in FD
    BY <1>0, <1>1, <1>3 DEF Types, Uid
  <2>2. Filled(client, client_add(client, x, uid[c]), x, uid[c])
    BY <2>1, AddFillsOne
  <2> QED BY <1>4, <2>2
<1>8. Types'
  <2>1. sock' \in [Conn -> {"none", "queued", "taken", "over"}] /\ fdof' \in [Conn -> Fd]
    BY <1>0, <1>3, <1>4 DEF Types, Fd
  <2>2. backlog' \in Seq(Conn)
    BY <1>0, <1>4 DEF Types
  <2> QED BY <1>0, <1>4, <1>7, <2>1, <2>2 DEF Types, Filled
<1>9. FdsOK'
  BY <1>0, <1>3, <1>5 DEF FdsOK
<1>10. QueueOK'
  <2>1. /\ Len(backlog') = Len(backlog) - 1 /\ Len(backlog) \in Nat
        /\ \A n \in 1 .. Len(backlog') : /\ backlog'[n] = backlog[n + 1] /\ n + 1 \in 1 .. Len(backlog)
                                         /\ backlog[n + 1] \in Conn
    BY <1>0, <1>4 DEF Types
  <2>2. \A n \in 1 .. Len(backlog') : n + 1 # 1
    BY <2>1
  <2>3. \A n \in 1 .. Len(backlog') : backlog[n + 1] # c
    BY <1>0, <1>1, <2>1, <2>2 DEF QueueOK
  <2>4. \A m, n \in 1 .. Len(backlog') : m + 1 = n + 1 => m = n
    BY <2>1
  <2> QED BY <1>0, <1>5, <2>1, <2>3, <2>4 DEF QueueOK
<1>11. MishapOK'
  BY <1>0, <1>1, <1>4, <1>5 DEF MishapOK
<1>12. TableOK'
  <2>1. PICK n \in 1 .. Len(client') :
           /\ client'[n] = [fd |-> x, uid |-> uid[c]]
           /\ n <= Len(client) => client[n].fd = Nobody
           /\ \A m \in 1 .. Len(client') : m # n =>
                IF m <= Len(client) THEN client'[m] = client[m] ELSE client'[m].fd = Nobody
    BY <1>7 DEF Filled
  <2>2. \A m \in 1 .. Len(client') : m <= Len(client) => m \in 1 .. Len(client)
    BY <1>7 DEF Filled
  <2>3. \A m \in 1 .. Len(client) : client[m].fd # x
    BY <1>0, <1>3 DEF TableOK, Taken
  <2>4. ASSUME NEW m \in 1 .. Len(client'), client'[m].fd # Nobody
        PROVE  m = n \/ (m \in 1 .. Len(client) /\ client'[m] = client[m])
    BY <2>1, <2>2, <2>4
  <2>5. ASSUME NEW m \in 1 .. Len(client'), client'[m].fd # Nobody,
               NEW k \in 1 .. Len(client'), client'[m].fd = client'[k].fd
        PROVE  m = k
    BY <1>0, <1>3, <2>1, <2>3, <2>4, <2>5 DEF TableOK
  <2>6. ASSUME NEW d \in Taken'
        PROVE  \E k \in 1 .. Len(client') : client'[k] = [fd |-> fdof'[d], uid |-> uid[d]]
    <3>1. CASE d = c
      BY <1>5, <2>1, <3>1
    <3>2. CASE d # c
      <4>1. d \in Taken /\ d \in Conn
        BY <1>6, <2>6, <3>2 DEF Taken
      <4>2. PICK k \in 1 .. Len(client) : client[k] = [fd |-> fdof[d], uid |-> uid[d]]
        BY <1>0, <4>1 DEF TableOK
      <4>3. client[k].fd # Nobody /\ k \in 1 .. Len(client') /\ k <= Len(client)
        BY <1>0, <1>7, <4>1, <4>2, FdFacts DEF FdsOK, Taken, Filled
      <4> QED BY <1>5, <2>1, <3>2, <4>1, <4>2, <4>3
    <3> QED BY <3>1, <3>2
  <2>7. ASSUME NEW m \in 1 .. Len(client'), client'[m].fd \notin {Nobody, listenfd}
        PROVE  \E d \in Taken' : fdof'[d] = client'[m].fd
    <3>1. CASE m = n
      BY <1>5, <1>6, <2>1, <3>1
    <3>2. CASE m # n
      <4>1. PICK d \in Taken : fdof[d] = client'[m].fd
        BY <1>0, <2>4, <2>7, <3>2 DEF TableOK
      <4> QED BY <1>5, <1>6, <4>1 DEF Taken
    <3> QED BY <3>1, <3>2
  <2> QED BY <2>5, <2>6, <2>7 DEF TableOK
<1>13. StillReadable
  BY <1>1, <1>4, <1>5 DEF StillReadable, Readable
<1> QED BY <1>1, <1>2, <1>3, <1>5, <1>6, <1>7, <1>8, <1>9, <1>10, <1>11, <1>12, <1>13 DEF NetOK

LEMMA StaleKeepsNet ==
  ASSUME NetOK, backlog # <<>>, AcceptStale(Head(backlog))
  PROVE  NetOK' /\ StillReadable /\ UNCHANGED <<sock, fdof, client, backlog>> /\ Taken' = Taken
<1>1. Types /\ FdsOK /\ QueueOK /\ MishapOK /\ TableOK /\ Head(backlog) \in Conn
  BY DEF NetOK, Types
<1>2. /\ stale[Head(backlog)] /\ up' = FALSE
      /\ UNCHANGED <<sock, asked, unread, shut, stale, fdof, backlog, mishap, client>>
  BY DEF AcceptStale, net
<1>3. mishap
  BY <1>1, <1>2 DEF MishapOK
<1>4. Types' /\ FdsOK' /\ QueueOK' /\ TableOK'
  BY <1>1, <1>2 DEF Types, FdsOK, QueueOK, TableOK, Taken
<1>5. MishapOK'
  BY <1>1, <1>2, <1>3 DEF MishapOK
<1> QED BY <1>2, <1>4, <1>5 DEF NetOK, StillReadable, Readable, Taken

\* A failed read ends the server and changes nothing else.
LEMMA ErrorKeepsNet ==
  ASSUME NetOK, NEW c \in Conn, ReadError(c)
  PROVE  NetOK' /\ StillReadable /\ UNCHANGED <<sock, fdof, client, backlog>> /\ Taken' = Taken
<1>1. Types /\ FdsOK /\ QueueOK /\ MishapOK /\ TableOK
  BY DEF NetOK
<1>2. /\ shut[c] /\ unread[c] /\ up' = FALSE
      /\ UNCHANGED <<sock, asked, unread, shut, stale, fdof, backlog, mishap, client>>
  BY DEF ReadError, net
<1>3. mishap
  BY <1>1, <1>2 DEF MishapOK
<1>4. Types' /\ FdsOK' /\ QueueOK' /\ TableOK'
  BY <1>1, <1>2 DEF Types, FdsOK, QueueOK, TableOK, Taken
<1>5. MishapOK'
  BY <1>1, <1>2, <1>3 DEF MishapOK
<1> QED BY <1>2, <1>4, <1>5 DEF NetOK, StillReadable, Readable, Taken

LEMMA HandleKeepsNet ==
  ASSUME NetOK, NEW c \in Conn, sock[c] = "taken", handle_request(c)
  PROVE  /\ NetOK' /\ StillReadableBut(fdof[c])
         /\ UNCHANGED <<sock, fdof, client, backlog>> /\ Taken' = Taken
<1>1. Types /\ FdsOK /\ QueueOK /\ MishapOK /\ TableOK
  BY DEF NetOK
<1>2. /\ asked[c] /\ asked' = [asked EXCEPT ![c] = FALSE] /\ up' = ~shut[c]
      /\ unread' = [unread EXCEPT ![c] = ~shut[c]]
      /\ UNCHANGED <<sock, shut, stale, fdof, backlog, client, mishap>>
  BY DEF handle_request
<1>3. /\ asked' \in [Conn -> BOOLEAN] /\ ~asked'[c] /\ \A d \in Conn : d # c => asked'[d] = asked[d]
      /\ unread' \in [Conn -> BOOLEAN] /\ (unread'[c] => ~shut[c])
      /\ \A d \in Conn : d # c => unread'[d] = unread[d]
  BY <1>1, <1>2 DEF Types
<1>4. Types' /\ FdsOK' /\ QueueOK' /\ TableOK'
  <2>1. up' \in BOOLEAN
    BY <1>2
  <2> QED BY <1>1, <1>2, <1>3, <2>1 DEF Types, FdsOK, QueueOK, TableOK, Taken
<1>5. MishapOK'
  <2>1. ~up' => mishap
    BY <1>1, <1>2 DEF MishapOK
  <2>2. \A d \in Conn : (asked'[d] \/ unread'[d]) /\ shut[d] => mishap
    BY <1>1, <1>3 DEF MishapOK
  <2> QED BY <1>1, <1>2, <2>1, <2>2 DEF MishapOK
<1>6. StillReadableBut(fdof[c])
  BY <1>2, <1>3 DEF StillReadableBut, Readable
<1> QED BY <1>2, <1>4, <1>5, <1>6 DEF NetOK, Taken

\* client_del finds the entry, and the server goes on.
LEMMA HangupKeepsNet ==
  ASSUME NetOK, NEW c \in Conn, sock[c] = "taken", Hangup(c), up
  PROVE  /\ NetOK' /\ StillReadableBut(fdof[c]) /\ UNCHANGED <<up, backlog>>
         /\ Taken' = Taken \ {c}
         /\ \A d \in Conn : d # c => fdof'[d] = fdof[d] /\ (sock[d] = "taken" => fdof[d] # fdof[c])
         /\ Len(client') = Len(client)
         /\ \A m \in 1 .. Len(client) : \/ client'[m] = client[m] /\ client[m].fd # fdof[c]
                                        \/ client'[m].fd = Nobody /\ client[m].fd = fdof[c]
<1>0. Types /\ FdsOK /\ QueueOK /\ MishapOK /\ TableOK /\ c \in Taken
  BY DEF NetOK, Taken
<1>1. PICK x : x = fdof[c]
  OBVIOUS
<1>2. x # Nobody /\ x # listenfd /\ x \in FD
  BY <1>0, <1>1, FdFacts DEF FdsOK
<1>3. PICK n \in 1 .. Len(client) : client[n] = [fd |-> x, uid |-> uid[c]]
  BY <1>0, <1>1 DEF TableOK
<1>4. client[n].fd = x /\ \A m \in 1 .. Len(client) : client[m].fd = x => m = n
  BY <1>0, <1>2, <1>3 DEF TableOK
<1>5. /\ client' = client_del(client, x) /\ ~asked[c]
      /\ sock' = [sock EXCEPT ![c] = "over"] /\ fdof' = [fdof EXCEPT ![c] = Nobody]
      /\ up' = (Entries(client, x) # {})
      /\ UNCHANGED <<asked, unread, shut, stale, backlog, mishap>>
  BY <1>1 DEF Hangup
<1>6. up' = TRUE
  BY <1>4, <1>5 DEF Entries
<1>7. /\ sock'[c] = "over" /\ fdof'[c] = Nobody
      /\ \A d \in Conn : d # c => sock'[d] = sock[d] /\ fdof'[d] = fdof[d]
  BY <1>0, <1>5 DEF Types
<1>8. Taken' = Taken \ {c}
  BY <1>7 DEF Taken
<1>9. /\ client' \in Seq(Slot) /\ Len(client') = Len(client) /\ client'[n].fd = Nobody
      /\ \A m \in 1 .. Len(client) : m # n => client'[m] = client[m]
  <2>1. PICK r : r = client_del(client, x)
    OBVIOUS
  <2>2. /\ r \in Seq(Slot) /\ Len(r) = Len(client) /\ r[n].fd = Nobody
        /\ \A m \in 1 .. Len(client) : m # n => r[m] = client[m]
    BY <1>0, <1>4, <2>1, DelFreesOne DEF Types
  <2> QED BY <1>5, <2>1, <2>2
<1>10. Types'
  <2>1. sock' \in [Conn -> {"none", "queued", "taken", "over"}] /\ fdof' \in [Conn -> Fd]
    BY <1>0, <1>5 DEF Types, Fd
  <2> QED BY <1>0, <1>5, <1>6, <1>9, <2>1 DEF Types
<1>11. FdsOK'
  BY <1>0, <1>2, <1>7, FdFacts DEF FdsOK
<1>12. QueueOK' /\ MishapOK'
  <2>1. QueueOK'
    BY <1>0, <1>5, <1>7 DEF QueueOK, Types
  <2>2. MishapOK'
    BY <1>0, <1>5, <1>6, <1>7 DEF MishapOK
  <2> QED BY <2>1, <2>2
<1>13. TableOK'
  <2>1. ASSUME NEW m \in 1 .. Len(client'), client'[m].fd # Nobody
        PROVE  m \in 1 .. Len(client) /\ client'[m] = client[m] /\ m # n
    BY <1>9, <2>1
  <2>2. ASSUME NEW m \in 1 .. Len(client'), client'[m].fd # Nobody,
               NEW k \in 1 .. Len(client'), client'[m].fd = client'[k].fd
        PROVE  m = k
    BY <1>0, <2>1, <2>2 DEF TableOK
  <2>3. ASSUME NEW d \in Taken'
        PROVE  \E k \in 1 .. Len(client') : client'[k] = [fd |-> fdof'[d], uid |-> uid[d]]
    <3>1. d \in Taken /\ d # c /\ d \in Conn
      BY <1>8, <2>3 DEF Taken
    <3>2. PICK k \in 1 .. Len(client) : client[k] = [fd |-> fdof[d], uid |-> uid[d]]
      BY <1>0, <3>1 DEF TableOK
    <3>3. k # n
      BY <1>0, <1>1, <1>3, <3>1, <3>2 DEF FdsOK, Taken
    <3> QED BY <1>7, <1>9, <3>1, <3>2, <3>3
  <2>4. ASSUME NEW m \in 1 .. Len(client'), client'[m].fd \notin {Nobody, listenfd}
        PROVE  \E d \in Taken' : fdof'[d] = client'[m].fd
    <3>1. m \in 1 .. Len(client) /\ client'[m] = client[m] /\ m # n
      BY <2>1, <2>4
    <3>2. PICK d \in Taken : fdof[d] = client[m].fd
      BY <1>0, <2>4, <3>1 DEF TableOK
    <3>3. d # c
      BY <1>1, <1>4, <3>1, <3>2
    <3> QED BY <1>7, <1>8, <3>1, <3>2, <3>3 DEF Taken
  <2> QED BY <2>2, <2>3, <2>4 DEF TableOK
<1>14. \A d \in Conn : d # c /\ sock[d] = "taken" => fdof[d] # fdof[c]
  BY <1>0 DEF FdsOK
<1>15. StillReadableBut(fdof[c])
  BY <1>1, <1>5, <1>7 DEF StillReadableBut, Readable
<1>16. \A m \in 1 .. Len(client) : \/ client'[m] = client[m] /\ client[m].fd # x
                                   \/ client'[m].fd = Nobody /\ client[m].fd = x
  BY <1>4, <1>9
<1> QED BY <1>1, <1>5, <1>6, <1>7, <1>8, <1>9, <1>10, <1>11, <1>12, <1>13, <1>14, <1>15, <1>16 DEF NetOK

LEMMA NetSame ==
  ASSUME NetOK, UNCHANGED <<net, serv>>
  PROVE  /\ NetOK' /\ Taken' = Taken /\ UNCHANGED <<fdof, client, backlog, up>>
         /\ \A fd : Readable(fd)' = Readable(fd)
<1>1. UNCHANGED <<sock, asked, unread, shut, stale, fdof, backlog, mishap, client, up>>
  BY DEF net, serv
<1>2. Taken' = Taken
  BY <1>1 DEF Taken
<1>3. Types' /\ FdsOK' /\ QueueOK' /\ MishapOK'
  BY <1>1 DEF NetOK, Types, FdsOK, QueueOK, MishapOK
<1>4. TableOK'
  BY <1>1, <1>2 DEF NetOK, TableOK
<1> QED BY <1>1, <1>2, <1>3, <1>4 DEF NetOK, Readable

-----------------------------------------------------------------------------
(* The select loop.                                                        *)

LEMMA SelectInvariant ==
  ASSUME NetOK, SelectOK, SelectLoop
  PROVE  NetOK' /\ SelectOK'
<1>t. client \in Seq(Slot) /\ Len(client) \in Nat /\ \A n \in 1 .. Len(client) : client[n].fd \in Fd
  <2>1. client \in Seq(Slot)
    BY DEF NetOK, Types
  <2>2. \A n \in 1 .. Len(client) : client[n] \in Slot
    BY <2>1
  <2> QED BY <2>1, <2>2 DEF Slot
<1>1. CASE Select
  <2>1. /\ NetOK' /\ Taken' = Taken /\ UNCHANGED <<fdof, client, backlog, up>>
        /\ \A fd : Readable(fd)' = Readable(fd)
    BY <1>1, NetSame DEF Select
  <2>2. \A fd \in rset' : Readable(fd)
    BY <1>1 DEF Select
  <2>3. pc' \in {"accept", "visit"} /\ (pc' = "accept" => listenfd \in rset') /\ i' = 1
    BY <1>1 DEF Select
  <2>4. pc' = "accept" => backlog # <<>>
    BY <2>2, <2>3 DEF Readable
  <2>5. UNCHANGED <<allset, maxfd, maxi>> /\ rset' \subseteq allset
    BY <1>1 DEF Select
  <2>6. Nobody \notin allset
    BY FdFacts DEF SelectOK, NetOK, FdsOK, Taken
  <2> QED BY <2>1, <2>2, <2>3, <2>4, <2>5, <2>6 DEF SelectOK
<1>2. CASE SelectAccept /\ AcceptStale(Head(backlog))
  <2>1. backlog # <<>> /\ pc' = "select"
    BY <1>2 DEF SelectAccept, SelectOK
  <2>2. NetOK' /\ UNCHANGED <<fdof, client, backlog>> /\ Taken' = Taken
    BY <1>2, <2>1, StaleKeepsNet
  <2>3. UNCHANGED <<allset, rset, maxfd, maxi, i>>
    BY <1>2 DEF SelectAccept, AcceptFresh, AcceptStale
  <2> QED BY <2>1, <2>2, <2>3 DEF SelectOK
<1>3. CASE SelectAccept /\ AcceptFresh(Head(backlog))
  <2>1. backlog # <<>> /\ pc' = "select"
    BY <1>3 DEF SelectAccept, SelectOK
  <2>2. PICK c : c = Head(backlog)
    OBVIOUS
  <2>3. PICK x : x = NewFd
    OBVIOUS
  <2>4. /\ NetOK' /\ c \in Conn /\ c \notin Taken /\ Taken' = Taken \cup {c}
        /\ x \in FD \ {listenfd} /\ fdof'[c] = x
        /\ \A d \in Conn : fdof[d] # x /\ (d # c => fdof'[d] = fdof[d])
        /\ Filled(client, client', x, uid[c])
    BY <1>3, <2>1, <2>2, <2>3, AcceptKeepsNet
  <2>5. /\ allset' = allset \cup {x} /\ maxfd' = IF x > maxfd THEN x ELSE maxfd
        /\ maxi' = Raise(CHOOSE n \in 1 .. Len(client') : client'[n].fd = x) /\ i' = i /\ rset' = rset
    BY <1>3, <2>3 DEF SelectAccept, AcceptFresh, AcceptStale
  <2>6. allset' = {listenfd} \cup {fdof'[d] : d \in Taken'}
    <3>1. {fdof'[d] : d \in Taken'} = {fdof[d] : d \in Taken} \cup {x}
      BY <2>4 DEF Taken
    <3> QED BY <2>5, <3>1 DEF SelectOK
  <2>7. maxfd' \in Int /\ \A fd \in allset' : fd <= maxfd'
    <3>1. x \in Int /\ maxfd \in Int /\ \A fd \in allset : fd \in Int
      BY <2>4, FdFacts DEF SelectOK, NetOK, FdsOK, Taken
    <3>2. \A fd \in allset : fd <= maxfd
      BY DEF SelectOK
    <3> QED BY <2>5, <3>1, <3>2
  <2>8. PICK n \in 1 .. Len(client') :
          /\ client'[n] = [fd |-> x, uid |-> uid[c]]
          /\ n <= Len(client) => client[n].fd = Nobody
          /\ \A m \in 1 .. Len(client') : m # n =>
               IF m <= Len(client) THEN client'[m] = client[m] ELSE client'[m].fd = Nobody
    BY <2>4 DEF Filled
  <2>9. Len(client') \in Nat /\ Len(client) <= Len(client') /\ x # Nobody
    BY <2>4, FdFacts DEF Filled
  <2>10. (CHOOSE m \in 1 .. Len(client') : client'[m].fd = x) = n
    <3>1. \A m \in 1 .. Len(client') : client'[m].fd = x => m = n
      BY <2>4, <2>8, <2>9 DEF NetOK, TableOK
    <3> QED BY <2>8, <3>1
  <2>11. maxi' = IF n > maxi THEN n ELSE maxi
    <3>1. maxi' = Raise(n)
      BY <2>5, <2>10, Zenon
    <3> QED BY <3>1 DEF Raise
  <2>12. maxi \in Nat /\ maxi <= Len(client) /\ n \in Nat /\ n <= Len(client')
    BY <1>t, <2>8, <2>9 DEF SelectOK
  <2>13. maxi' \in 0 .. Len(client') /\ n <= maxi' /\ maxi <= maxi'
    BY <1>t, <2>9, <2>11, <2>12
  <2>14. \A m \in 1 .. Len(client') : client'[m].fd # listenfd /\ (client'[m].fd # Nobody => m <= maxi')
    <3> SUFFICES ASSUME NEW m \in 1 .. Len(client')
                 PROVE  client'[m].fd # listenfd /\ (client'[m].fd # Nobody => m <= maxi')
      OBVIOUS
    <3>1. CASE m = n
      BY <2>4, <2>8, <2>13, <3>1
    <3>2. CASE m # n /\ m <= Len(client)
      <4>1. m \in 1 .. Len(client) /\ client'[m] = client[m]
        BY <1>t, <2>8, <3>2
      <4>2. client[m].fd # listenfd /\ (client[m].fd # Nobody => m <= maxi)
        BY <4>1 DEF SelectOK
      <4>3. m <= maxi => m <= maxi'
        BY <1>t, <2>12, <2>13, <4>1
      <4> QED BY <4>1, <4>2, <4>3
    <3>3. CASE m # n /\ ~(m <= Len(client))
      BY <2>8, <3>3 DEF Nobody, listenfd
    <3> QED BY <3>1, <3>2, <3>3
  <2> QED BY <2>1, <2>4, <2>5, <2>6, <2>7, <2>13, <2>14 DEF SelectOK
<1>4. CASE SelectVisit /\ UNCHANGED <<net, serv, allset>>
  <2>1. /\ NetOK' /\ Taken' = Taken /\ UNCHANGED <<fdof, client, backlog, up>>
        /\ \A fd : Readable(fd)' = Readable(fd)
    BY <1>4, NetSame
  <2>2. pc = "visit" /\ pc' = "visit" /\ i' = i + 1 /\ UNCHANGED <<allset, rset, maxfd, maxi>>
    BY <1>4 DEF SelectVisit
  <2>3. i \in Nat \ {0} /\ i' \in Nat \ {0} /\ \A n \in 1 .. Len(client) : n >= i' => n >= i
    BY <1>t, <2>2 DEF SelectOK
  <2> QED BY <2>1, <2>2, <2>3 DEF SelectOK
<1>s. ASSUME SelectVisit, Selected
      PROVE  /\ i \in 1 .. Len(client) /\ client[i].fd \in rset /\ up
             /\ \E c \in Conn : /\ sock[c] = "taken" /\ fdof[c] = client[i].fd
                                /\ ConnAt(client[i].fd) = c
  <2>1. i \in 1 .. Len(client) /\ pc = "visit" /\ up /\ client[i].fd \in rset
    BY <1>t, <1>s DEF SelectVisit, SelectOK, Selected
  <2>2. Readable(client[i].fd) /\ client[i].fd # listenfd
    BY <2>1 DEF SelectOK
  <2>3. PICK c \in Conn : sock[c] = "taken" /\ fdof[c] = client[i].fd
    BY <2>2 DEF Readable
  <2> QED BY <2>1, <2>3, ConnAtIs DEF NetOK
<1>5. CASE SelectVisit /\ Selected /\ handle_request(ConnAt(client[i].fd)) /\ UNCHANGED allset
  <2>1. PICK c \in Conn : /\ sock[c] = "taken" /\ fdof[c] = client[i].fd
                          /\ ConnAt(client[i].fd) = c
    BY <1>5, <1>s
  <2>2. /\ NetOK' /\ StillReadableBut(client[i].fd)
        /\ UNCHANGED <<fdof, client, backlog>> /\ Taken' = Taken
    BY <1>5, <2>1, HandleKeepsNet
  <2>3. pc = "visit" /\ pc' = "visit" /\ i' = i + 1 /\ UNCHANGED <<allset, rset, maxfd, maxi>>
    BY <1>5 DEF SelectVisit
  <2>4. /\ i \in 1 .. Len(client) /\ i' \in Nat \ {0}
        /\ \A n \in 1 .. Len(client) : n >= i' => n >= i /\ n # i
    BY <1>5, <1>s, <1>t, <2>3
  <2>5. client[i].fd # Nobody
    BY <2>1, FdFacts DEF NetOK, FdsOK
  <2>6. ASSUME NEW n \in 1 .. Len(client), n >= i', client[n].fd \in rset
        PROVE  Readable(client[n].fd)'
    <3>1. Readable(client[n].fd) /\ client[n].fd # listenfd /\ client[n].fd \in Fd
      BY <1>t, <2>3, <2>4, <2>6 DEF SelectOK
    <3>2. client[n].fd # client[i].fd
      BY <2>4, <2>5, <2>6 DEF NetOK, TableOK
    <3>3. \A fd \in Fd : fd # listenfd /\ fd # client[i].fd /\ Readable(fd) => Readable(fd)'
      BY <2>2 DEF StillReadableBut
    <3> QED BY <2>2, <3>1, <3>2, <3>3 DEF Readable
  <2> QED BY <2>2, <2>3, <2>4, <2>6 DEF SelectOK
<1>r. CASE SelectVisit /\ Selected /\ ReadError(ConnAt(client[i].fd)) /\ UNCHANGED allset
  <2>1. PICK c \in Conn : /\ sock[c] = "taken" /\ fdof[c] = client[i].fd
                          /\ ConnAt(client[i].fd) = c
    BY <1>r, <1>s
  <2>2. /\ NetOK' /\ StillReadable
        /\ UNCHANGED <<fdof, client, backlog>> /\ Taken' = Taken
    BY <1>r, <2>1, ErrorKeepsNet
  <2>3. pc = "visit" /\ pc' = "visit" /\ i' = i + 1 /\ UNCHANGED <<allset, rset, maxfd, maxi>>
    BY <1>r DEF SelectVisit
  <2>4. i \in Nat \ {0} /\ i' \in Nat \ {0} /\ \A n \in 1 .. Len(client) : n >= i' => n >= i
    BY <1>t, <2>3 DEF SelectOK
  <2>5. ASSUME NEW n \in 1 .. Len(client), n >= i', client[n].fd \in rset
        PROVE  Readable(client[n].fd)'
    <3>1. Readable(client[n].fd) /\ client[n].fd # listenfd /\ client[n].fd \in Fd
      BY <1>t, <2>3, <2>4, <2>5 DEF SelectOK
    <3>2. \A fd \in Fd : fd # listenfd /\ Readable(fd) => Readable(fd)'
      BY <2>2 DEF StillReadable
    <3> QED BY <2>2, <3>1, <3>2 DEF Readable
  <2> QED BY <2>2, <2>3, <2>4, <2>5 DEF SelectOK
<1>6. CASE SelectVisit /\ Selected /\ Hangup(ConnAt(client[i].fd)) /\ allset' = allset \ {client[i].fd}
  <2>1. PICK c \in Conn : /\ sock[c] = "taken" /\ fdof[c] = client[i].fd
                          /\ ConnAt(client[i].fd) = c
    BY <1>6, <1>s
  <2>2. PICK x : x = fdof[c]
    OBVIOUS
  <2>3. /\ NetOK' /\ StillReadableBut(x) /\ backlog' = backlog
        /\ Taken' = Taken \ {c}
        /\ \A d \in Conn : d # c => fdof'[d] = fdof[d] /\ (sock[d] = "taken" => fdof[d] # x)
        /\ Len(client') = Len(client)
        /\ \A m \in 1 .. Len(client) : \/ client'[m] = client[m] /\ client[m].fd # x
                                       \/ client'[m].fd = Nobody /\ client[m].fd = x
    <3>1. up /\ Hangup(c)
      BY <1>6, <1>s, <2>1
    <3> QED BY <2>1, <2>2, <3>1, HangupKeepsNet
  <2>4. pc = "visit" /\ pc' = "visit" /\ i' = i + 1 /\ UNCHANGED <<rset, maxfd, maxi>>
    BY <1>6 DEF SelectVisit
  <2>5. /\ i \in 1 .. Len(client) /\ i' \in Nat \ {0}
        /\ \A n \in 1 .. Len(client) : n >= i' => n >= i
    BY <1>6, <1>s, <1>t, <2>4
  <2>6. x # listenfd /\ x # Nobody
    BY <2>1, <2>2, FdFacts DEF NetOK, FdsOK
  <2>7. allset' = {listenfd} \cup {fdof'[d] : d \in Taken'}
    <3>1. allset = {listenfd} \cup {fdof[d] : d \in Taken} /\ allset' = allset \ {x} /\ c \in Taken
      BY <1>6, <2>1, <2>2 DEF SelectOK, Taken
    <3>2. {fdof'[d] : d \in Taken'} = {fdof[d] : d \in Taken} \ {x}
      BY <2>2, <2>3 DEF Taken
    <3> QED BY <2>6, <3>1, <3>2
  <2>8. /\ \A fd \in allset' : fd <= maxfd
        /\ maxfd' \in Int /\ maxi' \in 0 .. Len(client')
    BY <1>6, <2>3, <2>4 DEF SelectOK
  <2>9. \A n \in 1 .. Len(client') : client'[n].fd # listenfd /\ (client'[n].fd # Nobody => n <= maxi)
    BY <2>3 DEF SelectOK, Nobody, listenfd
  <2>10. ASSUME NEW n \in 1 .. Len(client'), n >= i', client'[n].fd \in rset
         PROVE  Readable(client[n].fd)'
    <3>0. n \in 1 .. Len(client) /\ n >= i
      BY <2>3, <2>5, <2>10
    <3>1. CASE client'[n] = client[n] /\ client[n].fd # x
      <4>1. Readable(client[n].fd) /\ client[n].fd # listenfd /\ client[n].fd \in Fd
        BY <1>t, <2>4, <2>10, <3>0, <3>1 DEF SelectOK
      <4> QED BY <2>3, <3>1, <4>1 DEF StillReadableBut
    <3>2. CASE client'[n].fd = Nobody
      BY <2>10, <3>2 DEF SelectOK
    <3> QED BY <2>3, <3>0, <3>1, <3>2
  <2> QED BY <2>3, <2>4, <2>5, <2>7, <2>8, <2>9, <2>10 DEF SelectOK
<1>7. CASE SelectEnd
  <2>1. /\ NetOK' /\ Taken' = Taken /\ UNCHANGED <<fdof, client, backlog>>
    BY <1>7, NetSame DEF SelectEnd
  <2>2. pc' = "select" /\ UNCHANGED <<allset, rset, maxfd, maxi, i>>
    BY <1>7 DEF SelectEnd, selectvars
  <2> QED BY <2>1, <2>2 DEF SelectOK
<1> QED BY <1>1, <1>2, <1>3, <1>4, <1>5, <1>r, <1>6, <1>7 DEF SelectLoop, SelectAccept, SelectVisit

-----------------------------------------------------------------------------
(* The poll loop.                                                          *)

LEMMA TakenFinite == IsFiniteSet(Taken) /\ Cardinality(Taken) \in Nat
<1>1. Taken \in SUBSET Conn
  BY DEF Taken
<1> QED BY <1>1, OpenAssumption, FS_Subset, FS_CardinalityType

\* poll notes for every entry in use whether it can be read.
LEMMA PollNotes ==
  ASSUME WatchOK, Poll
  PROVE  /\ pollfd' \in Seq(PollSlot) /\ Len(pollfd') = Len(pollfd)
         /\ \A n \in 1 .. Len(pollfd) : pollfd'[n].fd = pollfd[n].fd
         /\ \A n \in 1 .. numfd : pollfd'[n].revents <=> Readable(pollfd[n].fd)
<1>1. pollfd \in Seq(PollSlot) /\ Len(pollfd) \in Nat /\ numfd \in 1 .. Len(pollfd)
  BY DEF WatchOK
<1>2. PICK q : q = [n \in 1 .. Len(pollfd) |->
                      IF n <= numfd THEN [pollfd[n] EXCEPT !.revents = Readable(pollfd[n].fd)]
                      ELSE pollfd[n]]
  OBVIOUS
<1>3. pollfd' = q
  BY <1>2 DEF Poll
<1>4. ASSUME NEW n \in 1 .. Len(pollfd)
      PROVE  /\ q[n] \in PollSlot /\ q[n].fd = pollfd[n].fd
             /\ n <= numfd => (q[n].revents <=> Readable(pollfd[n].fd))
  <2>1. pollfd[n] \in PollSlot
    BY <1>1
  <2>2. PICK v \in BOOLEAN : v = Readable(pollfd[n].fd)
    BY DEF Readable
  <2>3. \A x \in PollSlot : \A w \in BOOLEAN : [x EXCEPT !.revents = w] = [fd |-> x.fd, revents |-> w]
    BY DEF PollSlot
  <2>4. \A x \in PollSlot : \A w \in BOOLEAN : [fd |-> x.fd, revents |-> w] \in PollSlot
    BY DEF PollSlot
  <2>5. CASE n <= numfd
    <3>1. q[n] = [pollfd[n] EXCEPT !.revents = v]
      BY <1>2, <2>2, <2>5
    <3>2. q[n] = [fd |-> pollfd[n].fd, revents |-> v]
      BY <2>1, <2>3, <3>1
    <3> QED BY <2>1, <2>2, <2>4, <3>2
  <2>6. CASE ~(n <= numfd)
    BY <1>2, <2>1, <2>6
  <2> QED BY <2>5, <2>6
<1>5. q \in Seq(PollSlot) /\ Len(q) = Len(pollfd)
  <2>1. q \in [1 .. Len(pollfd) -> PollSlot]
    BY <1>2, <1>4
  <2> QED BY <1>1, <2>1
<1>6. \A n \in 1 .. numfd : n \in 1 .. Len(pollfd) /\ n <= numfd
  BY <1>1
<1> QED BY <1>3, <1>4, <1>5, <1>6

\* An assignment to one entry of the array.
Replaced(p, q, k, e) ==
  /\ q \in Seq(PollSlot) /\ Len(q) = Len(p) /\ q[k] = e
  /\ \A n \in 1 .. Len(p) : n # k => q[n] = p[n]

LEMMA PutReplaces ==
  ASSUME NEW p \in Seq(PollSlot), NEW k \in 1 .. Len(p), NEW e \in PollSlot,
         NEW q, q = [p EXCEPT ![k] = e]
  PROVE  Replaced(p, q, k, e)
BY DEF Replaced

\* The new entry, in a larger array if there is no room.
Added(x) ==
  [(IF numfd = Len(pollfd) THEN grow_pollfd(pollfd) ELSE pollfd)
     EXCEPT ![numfd + 1] = [fd |-> x, revents |-> FALSE]]

LEMMA PollAdds ==
  ASSUME WatchOK, NEW x \in FD, NEW q, q = Added(x)
  PROVE  /\ q \in Seq(PollSlot) /\ numfd + 1 \in 1 .. Len(q)
         /\ q[numfd + 1] = [fd |-> x, revents |-> FALSE]
         /\ \A n \in 1 .. numfd : q[n] = pollfd[n]
<1>1. pollfd \in Seq(PollSlot) /\ Len(pollfd) \in Nat /\ numfd \in 1 .. Len(pollfd)
  BY DEF WatchOK
<1>2. PICK g : g = IF numfd = Len(pollfd) THEN grow_pollfd(pollfd) ELSE pollfd
  OBVIOUS
<1>3. g \in Seq(PollSlot) /\ Len(g) \in Nat /\ numfd + 1 <= Len(g) /\ \A n \in 1 .. numfd : g[n] = pollfd[n]
  <2>1. CASE numfd = Len(pollfd)
    <3>1. PICK h : h = [n \in 1 .. NALLOC |-> Unused]
      OBVIOUS
    <3>2. Unused \in PollSlot
      BY DEF Unused, PollSlot, Fd
    <3>3. h \in Seq(PollSlot) /\ Len(h) = NALLOC
      BY <3>1, <3>2, OpenAssumption
    <3>4. /\ pollfd \o h \in Seq(PollSlot) /\ Len(pollfd \o h) = Len(pollfd) + NALLOC
          /\ \A n \in 1 .. Len(pollfd) : (pollfd \o h)[n] = pollfd[n]
      BY <1>1, <3>3, OpenAssumption
    <3>5. g = pollfd \o h
      BY <1>2, <2>1, <3>1 DEF grow_pollfd
    <3> QED BY <1>1, <2>1, <3>4, <3>5, OpenAssumption
  <2>2. CASE numfd # Len(pollfd)
    BY <1>1, <1>2, <2>2
  <2> QED BY <2>1, <2>2
<1>4. q = [g EXCEPT ![numfd + 1] = [fd |-> x, revents |-> FALSE]]
  BY <1>2 DEF Added
<1>5. [fd |-> x, revents |-> FALSE] \in PollSlot
  BY DEF PollSlot, Fd
<1>6. numfd + 1 \in 1 .. Len(g) /\ \A n \in 1 .. numfd : n \in 1 .. Len(g) /\ n # numfd + 1
  BY <1>1, <1>3
<1>7. /\ q \in Seq(PollSlot) /\ Len(q) = Len(g)
      /\ q[numfd + 1] = [fd |-> x, revents |-> FALSE]
      /\ \A n \in 1 .. Len(g) : n # numfd + 1 => q[n] = g[n]
  <2>1. PICK e \in PollSlot : e = [fd |-> x, revents |-> FALSE]
    BY <1>5
  <2>2. PICK k \in 1 .. Len(g) : k = numfd + 1
    BY <1>6
  <2>3. g \in Seq(PollSlot) /\ q = [g EXCEPT ![k] = e]
    BY <1>3, <1>4, <2>1, <2>2
  <2>4. Replaced(g, q, k, e)
    BY <2>3, PutReplaces
  <2> QED BY <2>1, <2>2, <2>4 DEF Replaced
<1> QED BY <1>3, <1>6, <1>7

\* What the loop knows of the entries in use.
LEMMA EntryFacts ==
  ASSUME WatchOK
  PROVE  /\ pollfd \in Seq(PollSlot) /\ Len(pollfd) \in Nat /\ numfd \in Nat /\ 1 <= numfd /\ numfd <= Len(pollfd)
         /\ \A n \in 1 .. numfd : n \in 1 .. Len(pollfd) /\ pollfd[n] \in PollSlot /\ pollfd[n].fd \in Fd
         /\ \A n \in 2 .. numfd : n \in 1 .. numfd /\ pollfd[n].fd # listenfd
<1>1. pollfd \in Seq(PollSlot) /\ Len(pollfd) \in Nat /\ numfd \in 1 .. Len(pollfd)
  BY DEF WatchOK
<1>2. numfd \in Nat /\ 1 <= numfd /\ numfd <= Len(pollfd) /\ 1 \in 1 .. numfd
  BY <1>1
<1>3. \A n \in 1 .. numfd : n \in 1 .. Len(pollfd)
  BY <1>1
<1>4. \A n \in 1 .. numfd : pollfd[n] \in PollSlot
  BY <1>1, <1>3
<1>5. \A n \in 1 .. numfd : pollfd[n].fd \in Fd
  BY <1>4 DEF PollSlot
<1>6. \A n \in 2 .. numfd : n \in 1 .. numfd /\ n # 1
  BY <1>2
<1>7. pollfd[1].fd = listenfd /\ \A n \in 1 .. numfd : pollfd[1].fd = pollfd[n].fd => 1 = n
  BY <1>2 DEF WatchOK
<1> QED BY <1>1, <1>2, <1>3, <1>4, <1>5, <1>6, <1>7

\* The same descriptors, watched for the same connections.
LEMMA WatchSame ==
  ASSUME WatchOK, Taken' = Taken, fdof' = fdof, numfd' = numfd,
         pollfd' \in Seq(PollSlot), Len(pollfd') = Len(pollfd),
         \A n \in 1 .. Len(pollfd) : pollfd'[n].fd = pollfd[n].fd
  PROVE  WatchOK'
<1>1. \A n \in 1 .. numfd : pollfd'[n].fd = pollfd[n].fd
  BY EntryFacts
<1>2. \A n \in 2 .. numfd : pollfd'[n].fd = pollfd[n].fd
  BY <1>1, EntryFacts
<1>3. pollfd'[1].fd = pollfd[1].fd
  BY <1>1, EntryFacts
<1> QED BY <1>1, <1>2, <1>3 DEF WatchOK

LEMMA PollStep ==
  ASSUME NetOK, PollOK, Poll
  PROVE  NetOK' /\ PollOK'
<1>1. /\ NetOK' /\ Taken' = Taken /\ UNCHANGED <<fdof, client, backlog, up>>
      /\ \A fd : Readable(fd)' = Readable(fd)
  BY NetSame DEF Poll
<1>2. WatchOK /\ i' = 2 /\ pc' = "accept" /\ numfd' = numfd
  BY DEF PollOK, Poll
<1>3. /\ pollfd' \in Seq(PollSlot) /\ Len(pollfd') = Len(pollfd)
      /\ \A n \in 1 .. Len(pollfd) : pollfd'[n].fd = pollfd[n].fd
      /\ \A n \in 1 .. numfd : pollfd'[n].revents <=> Readable(pollfd[n].fd)
  BY <1>2, PollNotes
<1>4. WatchOK'
  BY <1>1, <1>2, <1>3, WatchSame
<1>5. \A n \in 1 .. numfd : pollfd'[n].revents => Readable(pollfd'[n].fd)
  BY <1>2, <1>3, EntryFacts
<1>6. pollfd'[1].revents => backlog' # <<>>
  <2>1. 1 \in 1 .. numfd /\ pollfd'[1].fd = listenfd
    BY <1>2, <1>3, EntryFacts DEF WatchOK
  <2> QED BY <1>1, <1>5, <2>1 DEF Readable
<1>7. \A n \in 2 .. numfd' : pollfd'[n].revents => Readable(pollfd[n].fd)'
  BY <1>1, <1>2, <1>5, EntryFacts
<1>8. ReadyOK'
  BY <1>2, <1>6, <1>7 DEF ReadyOK
<1> QED BY <1>1, <1>4, <1>8 DEF PollOK

\* A connection is accepted: one entry more.
LEMMA PollTakes ==
  ASSUME NetOK, PollOK, backlog # <<>>, NEW c, c = Head(backlog), AcceptFresh(c),
         pollfd' = Added(NewFd),
         numfd' = numfd + 1, pc = "accept", pc' = "visit", i' = i
  PROVE  NetOK' /\ PollOK'
<1>0. WatchOK /\ ReadyOK
  BY DEF PollOK
<1>1. PICK x : x = NewFd
  OBVIOUS
<1>2. /\ NetOK' /\ StillReadable /\ c \in Conn /\ c \notin Taken /\ Taken' = Taken \cup {c}
      /\ x \in FD \ {listenfd} /\ fdof'[c] = x
      /\ \A d \in Conn : fdof[d] # x /\ (d # c => fdof'[d] = fdof[d])
  BY <1>1, AcceptKeepsNet
<1>3. /\ pollfd' \in Seq(PollSlot) /\ numfd + 1 \in 1 .. Len(pollfd')
      /\ pollfd'[numfd + 1] = [fd |-> x, revents |-> FALSE]
      /\ \A n \in 1 .. numfd : pollfd'[n] = pollfd[n]
  BY <1>0, <1>1, <1>2, PollAdds
<1>4. numfd \in Nat /\ 1 <= numfd /\ 1 \in 1 .. numfd /\ numfd + 1 \in 2 .. numfd + 1
  BY <1>0, EntryFacts
<1>5. /\ \A n \in 1 .. numfd + 1 : n = numfd + 1 \/ n \in 1 .. numfd
      /\ \A n \in 2 .. numfd + 1 : n = numfd + 1 \/ n \in 2 .. numfd
      /\ \A n \in 2 .. numfd : n \in 2 .. numfd + 1 /\ n \in 1 .. numfd
  BY <1>4
<1>6. \A d \in Taken : d # c /\ d \in Conn /\ fdof'[d] = fdof[d] /\ fdof[d] # x
  BY <1>2 DEF Taken
<1>7. \A n \in 1 .. numfd : pollfd'[n].fd = pollfd[n].fd /\ pollfd[n].fd # x
  <2>1. \A n \in 2 .. numfd : pollfd[n].fd # x
    BY <1>0, <1>6 DEF WatchOK
  <2>2. pollfd[1].fd # x
    BY <1>0, <1>2 DEF WatchOK
  <2>3. \A n \in 1 .. numfd : n = 1 \/ n \in 2 .. numfd
    BY <1>4
  <2> QED BY <1>3, <2>1, <2>2, <2>3
<1>8. pollfd'[numfd + 1].fd = x /\ ~pollfd'[numfd + 1].revents
  BY <1>3
<1>9. WatchOK'
  <2>1. pollfd' \in Seq(PollSlot) /\ numfd' \in 1 .. Len(pollfd') /\ pollfd'[1].fd = listenfd
    BY <1>0, <1>3, <1>4, <1>7 DEF WatchOK
  <2>2. \A n \in 2 .. numfd' : \E d \in Taken' : fdof'[d] = pollfd'[n].fd
    <3> SUFFICES ASSUME NEW n \in 2 .. numfd + 1 PROVE \E d \in Taken' : fdof'[d] = pollfd'[n].fd
      OBVIOUS
    <3>1. CASE n = numfd + 1
      BY <1>2, <1>8, <3>1
    <3>2. CASE n \in 2 .. numfd
      <4>1. PICK d \in Taken : fdof[d] = pollfd[n].fd
        BY <1>0, <3>2 DEF WatchOK
      <4> QED BY <1>2, <1>5, <1>6, <1>7, <3>2, <4>1
    <3> QED BY <1>5, <3>1, <3>2
  <2>3. \A d \in Taken' : \E n \in 2 .. numfd' : fdof'[d] = pollfd'[n].fd
    <3> SUFFICES ASSUME NEW d \in Taken' PROVE \E n \in 2 .. numfd + 1 : fdof'[d] = pollfd'[n].fd
      OBVIOUS
    <3>1. CASE d = c
      BY <1>2, <1>4, <1>8, <3>1
    <3>2. CASE d \in Taken
      <4>1. PICK n \in 2 .. numfd : fdof[d] = pollfd[n].fd
        BY <1>0, <3>2 DEF WatchOK
      <4> QED BY <1>5, <1>6, <1>7, <3>2, <4>1
    <3> QED BY <1>2, <3>1, <3>2
  <2>4. \A m, n \in 1 .. numfd' : pollfd'[m].fd = pollfd'[n].fd => m = n
    <3>1. \A m, n \in 1 .. numfd : pollfd[m].fd = pollfd[n].fd => m = n
      BY <1>0 DEF WatchOK
    <3> QED BY <1>5, <1>7, <1>8, <3>1
  <2>5. Cardinality(Taken') = numfd' - 1
    <3>1. Cardinality(Taken \cup {c}) = Cardinality(Taken) + 1
      BY <1>2, TakenFinite, FS_AddElement
    <3> QED BY <1>0, <1>2, <1>4, <3>1 DEF WatchOK
  <2> QED BY <2>1, <2>2, <2>3, <2>4, <2>5 DEF WatchOK
<1>10. ReadyOK'
  <2>1. i' \in Nat /\ i' >= 2 /\ pc' = "visit" /\ i = 2
    BY <1>0 DEF ReadyOK
  <2>2. ASSUME NEW n \in 2 .. numfd + 1, n >= 2, pollfd'[n].revents
        PROVE  Readable(pollfd[n].fd)'
    <3>1. n \in 2 .. numfd /\ n \in 1 .. numfd /\ pollfd'[n] = pollfd[n]
      BY <1>3, <1>5, <1>8, <2>2
    <3>2. Readable(pollfd[n].fd) /\ pollfd[n].fd # listenfd /\ pollfd[n].fd \in Fd
      BY <1>0, <2>1, <2>2, <3>1, EntryFacts DEF ReadyOK
    <3> QED BY <1>2, <3>1, <3>2 DEF StillReadable
  <2> QED BY <2>1, <2>2 DEF ReadyOK
<1> QED BY <1>2, <1>9, <1>10 DEF PollOK

\* The connection behind an entry of the array.
LEMMA PollReads ==
  ASSUME NetOK, PollOK, i <= numfd
  PROVE  /\ i \in 2 .. numfd
         /\ \E c \in Conn : /\ sock[c] = "taken" /\ fdof[c] = pollfd[i].fd
                            /\ ConnAt(pollfd[i].fd) = c
<1>1. i \in 2 .. numfd /\ WatchOK
  BY EntryFacts DEF PollOK, ReadyOK
<1>2. PICK c \in Conn : sock[c] = "taken" /\ fdof[c] = pollfd[i].fd
  BY <1>1 DEF WatchOK, Taken
<1>3. FdsOK
  BY DEF NetOK
<1> QED BY <1>1, <1>2, <1>3, ConnAtIs

\* A connection is closed: the last entry takes the place of its own.
LEMMA PollCloses ==
  ASSUME NetOK, PollOK, up, pc = "visit", pc' = "visit", i <= numfd,
         Hangup(ConnAt(pollfd[i].fd)),
         pollfd' = IF i < numfd THEN [pollfd EXCEPT ![i] = pollfd[numfd]] ELSE pollfd,
         numfd' = numfd - 1, i' = Again
  PROVE  NetOK' /\ PollOK'
<1>0. WatchOK /\ ReadyOK /\ i \in 2 .. numfd
  BY PollReads DEF PollOK
<1>1. PICK c \in Conn : sock[c] = "taken" /\ fdof[c] = pollfd[i].fd /\ ConnAt(pollfd[i].fd) = c
  BY PollReads
<1>2. PICK x : x = pollfd[i].fd
  OBVIOUS
<1>3. /\ NetOK' /\ StillReadableBut(x) /\ Taken' = Taken \ {c} /\ c \in Taken
      /\ \A d \in Conn : d # c => fdof'[d] = fdof[d] /\ (sock[d] = "taken" => fdof[d] # x)
  <2>1. Hangup(c) /\ fdof[c] = x
    BY <1>1, <1>2
  <2> QED BY <1>1, <2>1, HangupKeepsNet DEF Taken
<1>4. PICK N : N = numfd
  OBVIOUS
<1>5. N \in Nat /\ i \in Nat /\ 2 <= i /\ i <= N /\ N <= Len(pollfd) /\ Len(pollfd) \in Nat
  BY <1>0, <1>4, EntryFacts
<1>6. pollfd \in Seq(PollSlot) /\ pollfd[N] \in PollSlot /\ i \in 1 .. Len(pollfd)
  BY <1>0, <1>4, <1>5, EntryFacts
<1>7. /\ pollfd' \in Seq(PollSlot) /\ Len(pollfd') = Len(pollfd)
      /\ i < N => pollfd'[i] = pollfd[N]
      /\ \A n \in 1 .. Len(pollfd) : n # i => pollfd'[n] = pollfd[n]
  <2>1. CASE i < N
    <3>1. pollfd' = [pollfd EXCEPT ![i] = pollfd[N]]
      BY <1>4, <2>1
    <3>2. PICK e \in PollSlot : e = pollfd[N]
      BY <1>6
    <3>3. Replaced(pollfd, pollfd', i, e)
      BY <1>6, <3>1, <3>2, PutReplaces
    <3> QED BY <3>2, <3>3 DEF Replaced
  <2>2. CASE ~(i < N)
    BY <1>4, <1>6, <2>2
  <2> QED BY <2>1, <2>2
<1> DEFINE from(n) == IF n = i THEN N ELSE n
<1>8. \A n \in 1 .. N - 1 : /\ from(n) \in 1 .. N /\ from(n) # i
                            /\ n \in 2 .. N - 1 => from(n) \in 2 .. N
                            /\ n >= i => from(n) >= i
                            /\ \A m \in 1 .. N - 1 : from(m) = from(n) => m = n
  BY <1>5
<1>9. \A n \in 1 .. N - 1 : pollfd'[n] = pollfd[from(n)]
  <2> SUFFICES ASSUME NEW n \in 1 .. N - 1 PROVE pollfd'[n] = pollfd[from(n)]
    OBVIOUS
  <2>1. CASE n = i
    BY <1>5, <1>7, <2>1
  <2>2. CASE n # i
    BY <1>5, <1>7, <2>2
  <2> QED BY <2>1, <2>2
<1>10. \A n \in 2 .. N - 1 : n \in 1 .. N - 1
  BY <1>5
<1> HIDE DEF from
<1>11. \A n \in 1 .. N : n # i => pollfd[n].fd # x
  BY <1>0, <1>2, <1>4, <1>5 DEF WatchOK
<1>12. \A d \in Taken' : d \in Taken /\ d # c /\ fdof'[d] = fdof[d] /\ fdof[d] # x
  BY <1>3 DEF Taken
<1>13. WatchOK'
  <2>1. pollfd' \in Seq(PollSlot) /\ numfd' \in 1 .. Len(pollfd')
    BY <1>4, <1>5, <1>7
  <2>2. pollfd'[1].fd = listenfd
    <3>1. pollfd'[1] = pollfd[1]
      BY <1>5, <1>7
    <3> QED BY <1>0, <3>1 DEF WatchOK
  <2>3. \A n \in 2 .. numfd' : \E d \in Taken' : fdof'[d] = pollfd'[n].fd
    <3> SUFFICES ASSUME NEW n \in 2 .. N - 1 PROVE \E d \in Taken' : fdof'[d] = pollfd'[n].fd
      BY <1>4
    <3>1. from(n) \in 2 .. N /\ from(n) \in 1 .. N /\ from(n) # i /\ pollfd'[n] = pollfd[from(n)]
      BY <1>8, <1>9, <1>10
    <3>2. PICK d \in Taken : fdof[d] = pollfd[from(n)].fd
      BY <1>0, <1>4, <3>1 DEF WatchOK
    <3>3. d # c
      BY <1>1, <1>2, <1>11, <3>1, <3>2
    <3>4. d \in Taken'
      BY <1>3, <3>3
    <3> QED BY <1>12, <3>1, <3>2, <3>4
  <2>4. \A d \in Taken' : \E n \in 2 .. numfd' : fdof'[d] = pollfd'[n].fd
    <3> SUFFICES ASSUME NEW d \in Taken' PROVE \E n \in 2 .. N - 1 : fdof'[d] = pollfd'[n].fd
      BY <1>4
    <3>1. PICK m \in 2 .. N : fdof[d] = pollfd[m].fd
      BY <1>0, <1>4, <1>12 DEF WatchOK
    <3>2. m # i
      BY <1>2, <1>12, <3>1
    <3>3. CASE m = N
      <4>1. i \in 2 .. N - 1 /\ i < N
        BY <1>5, <3>2, <3>3
      <4> QED BY <1>7, <1>12, <3>1, <3>3, <4>1
    <3>4. CASE m # N
      <4>1. m \in 2 .. N - 1 /\ m \in 1 .. Len(pollfd)
        BY <1>5, <3>4
      <4> QED BY <1>7, <1>12, <3>1, <3>2, <4>1
    <3> QED BY <3>3, <3>4
  <2>5. \A m, n \in 1 .. numfd' : pollfd'[m].fd = pollfd'[n].fd => m = n
    <3> SUFFICES ASSUME NEW m \in 1 .. N - 1, NEW n \in 1 .. N - 1, pollfd'[m].fd = pollfd'[n].fd
                 PROVE  m = n
      BY <1>4
    <3>1. pollfd[from(m)].fd = pollfd[from(n)].fd /\ from(m) \in 1 .. N /\ from(n) \in 1 .. N
      BY <1>8, <1>9
    <3>2. from(m) = from(n)
      BY <1>0, <1>4, <3>1 DEF WatchOK
    <3> QED BY <1>8, <3>2
  <2>6. Cardinality(Taken') = numfd' - 1
    <3>1. Cardinality(Taken \ {c}) = Cardinality(Taken) - 1
      BY <1>3, TakenFinite, FS_RemoveElement
    <3> QED BY <1>0, <1>3, <1>4, <1>5, <3>1 DEF WatchOK
  <2> QED BY <2>1, <2>2, <2>3, <2>4, <2>5, <2>6 DEF WatchOK
<1>14. ReadyOK'
  <2>1. i' \in Nat /\ i' >= 2 /\ i' >= i
    BY <1>4, <1>5 DEF Again
  <2>2. ASSUME NEW n \in 2 .. N - 1, n >= i', pollfd'[n].revents
        PROVE  Readable(pollfd[n].fd)'
    <3>1. from(n) \in 2 .. N /\ from(n) \in 1 .. N /\ from(n) # i /\ pollfd'[n] = pollfd[from(n)]
      BY <1>8, <1>9, <1>10
    <3>2. n >= i
      BY <1>5, <2>1, <2>2
    <3>3. from(n) >= i
      BY <1>8, <1>10, <3>2
    <3>4. Readable(pollfd[from(n)].fd)
      BY <1>0, <1>4, <2>2, <3>1, <3>3 DEF ReadyOK
    <3>5. pollfd[from(n)].fd \in Fd /\ pollfd[from(n)].fd # listenfd /\ pollfd[from(n)].fd # x
      BY <1>0, <1>4, <1>11, <3>1, EntryFacts
    <3> QED BY <1>3, <3>1, <3>4, <3>5 DEF StillReadableBut
  <2> QED BY <1>4, <2>1, <2>2 DEF ReadyOK
<1> QED BY <1>3, <1>13, <1>14 DEF PollOK

LEMMA PollInvariant ==
  ASSUME NetOK, PollOK, PollLoop
  PROVE  NetOK' /\ PollOK'
<1>0. WatchOK /\ ReadyOK
  BY DEF PollOK
<1>1. CASE Poll
  BY <1>1, PollStep
<1>2. CASE PollAccept /\ UNCHANGED <<net, serv, pollfd, numfd>>
  <2>1. /\ NetOK' /\ Taken' = Taken /\ UNCHANGED <<fdof, client, backlog, up>>
        /\ \A fd : Readable(fd)' = Readable(fd)
    BY <1>2, NetSame
  <2>2. WatchOK'
    BY <1>0, <1>2, <2>1 DEF WatchOK
  <2>3. pc = "accept" /\ pc' = "visit" /\ UNCHANGED <<i, pollfd, numfd>>
    BY <1>2 DEF PollAccept
  <2> QED BY <1>0, <2>1, <2>2, <2>3 DEF ReadyOK, PollOK
<1>3. CASE PollAccept /\ pollfd[1].revents /\ AcceptFresh(Head(backlog)) /\ numfd' = numfd + 1
           /\ pollfd' = Added(NewFd)
  <2>1. backlog # <<>> /\ pc = "accept" /\ pc' = "visit" /\ i' = i
    BY <1>0, <1>3 DEF PollAccept, ReadyOK
  <2> QED BY <1>3, <2>1, PollTakes
<1>4. CASE PollAccept /\ pollfd[1].revents /\ AcceptStale(Head(backlog)) /\ UNCHANGED <<pollfd, numfd>>
  <2>1. backlog # <<>> /\ pc = "accept" /\ pc' = "visit" /\ i' = i
    BY <1>0, <1>4 DEF PollAccept, ReadyOK
  <2>2. NetOK' /\ StillReadable /\ UNCHANGED <<fdof, backlog>> /\ Taken' = Taken
    BY <1>4, <2>1, StaleKeepsNet
  <2>3. WatchOK'
    BY <1>0, <1>4, <2>2 DEF WatchOK
  <2>4. \A n \in 2 .. numfd : n >= i /\ pollfd[n].revents => Readable(pollfd[n].fd)'
    <3>1. \A n \in 2 .. numfd : n >= i /\ pollfd[n].revents =>
            Readable(pollfd[n].fd) /\ pollfd[n].fd \in Fd /\ pollfd[n].fd # listenfd
      BY <1>0, <2>1, EntryFacts DEF ReadyOK
    <3> QED BY <1>4, <2>2, <3>1 DEF StillReadable
  <2> QED BY <1>0, <1>4, <2>1, <2>2, <2>3, <2>4 DEF ReadyOK, PollOK
<1>5. CASE PollVisit /\ i' = i + 1 /\ UNCHANGED <<net, serv, pollfd, numfd>>
  <2>1. /\ NetOK' /\ Taken' = Taken /\ UNCHANGED <<fdof, client, backlog, up>>
        /\ \A fd : Readable(fd)' = Readable(fd)
    BY <1>5, NetSame
  <2>2. WatchOK'
    BY <1>0, <1>5, <2>1 DEF WatchOK
  <2>3. pc = "visit" /\ pc' = "visit" /\ i' = i + 1 /\ UNCHANGED <<pollfd, numfd>>
    BY <1>5 DEF PollVisit
  <2>4. i \in Nat /\ i' \in Nat /\ i' >= 2 /\ \A n \in 2 .. numfd : n >= i' => n >= i
    BY <1>0, <2>3, EntryFacts DEF ReadyOK
  <2> QED BY <1>0, <2>1, <2>2, <2>3, <2>4 DEF ReadyOK, PollOK
<1>6. CASE /\ PollVisit /\ handle_request(ConnAt(pollfd[i].fd))
           /\ i' = i + 1 /\ UNCHANGED <<pollfd, numfd>>
  <2>1. pc = "visit" /\ pc' = "visit" /\ i' = i + 1 /\ i <= numfd /\ UNCHANGED <<pollfd, numfd>>
    BY <1>6 DEF PollVisit
  <2>2. i \in 2 .. numfd
    BY <2>1, PollReads
  <2>3. PICK c \in Conn : sock[c] = "taken" /\ fdof[c] = pollfd[i].fd /\ ConnAt(pollfd[i].fd) = c
    BY <2>1, PollReads
  <2>4. NetOK' /\ StillReadableBut(pollfd[i].fd) /\ UNCHANGED <<fdof, backlog>> /\ Taken' = Taken
    BY <1>6, <2>3, HandleKeepsNet
  <2>5. WatchOK'
    BY <1>0, <2>1, <2>4 DEF WatchOK
  <2>6. i' \in Nat /\ i' >= 2 /\ \A n \in 2 .. numfd : n >= i' => n >= i /\ n # i
    BY <1>0, <2>1, <2>2, EntryFacts
  <2>7. ASSUME NEW n \in 2 .. numfd, n >= i', pollfd[n].revents
        PROVE  Readable(pollfd[n].fd)'
    <3>1. Readable(pollfd[n].fd) /\ pollfd[n].fd \in Fd /\ pollfd[n].fd # listenfd
      BY <1>0, <2>1, <2>6, <2>7, EntryFacts DEF ReadyOK
    <3>2. pollfd[n].fd # pollfd[i].fd
      BY <1>0, <2>2, <2>6, <2>7, EntryFacts DEF WatchOK
    <3>3. pollfd' = pollfd
      BY <2>1
    <3> QED BY <2>4, <3>1, <3>2, <3>3 DEF StillReadableBut
  <2> QED BY <2>1, <2>4, <2>5, <2>6, <2>7 DEF ReadyOK, PollOK
<1>r. CASE /\ PollVisit /\ ReadError(ConnAt(pollfd[i].fd))
           /\ i' = i + 1 /\ UNCHANGED <<pollfd, numfd>>
  <2>1. pc = "visit" /\ pc' = "visit" /\ i' = i + 1 /\ i <= numfd /\ UNCHANGED <<pollfd, numfd>>
    BY <1>r DEF PollVisit
  <2>2. PICK c \in Conn : ConnAt(pollfd[i].fd) = c
    BY <2>1, PollReads
  <2>3. NetOK' /\ StillReadable /\ UNCHANGED <<fdof, backlog>> /\ Taken' = Taken
    BY <1>r, <2>2, ErrorKeepsNet
  <2>4. WatchOK'
    BY <1>0, <2>1, <2>3 DEF WatchOK
  <2>5. i' \in Nat /\ i' >= 2 /\ \A n \in 2 .. numfd : n >= i' => n >= i
    BY <1>0, <2>1, EntryFacts DEF ReadyOK
  <2>6. ASSUME NEW n \in 2 .. numfd, n >= i', pollfd[n].revents
        PROVE  Readable(pollfd[n].fd)'
    <3>1. Readable(pollfd[n].fd) /\ pollfd[n].fd \in Fd /\ pollfd[n].fd # listenfd
      BY <1>0, <2>1, <2>5, <2>6, EntryFacts DEF ReadyOK
    <3>2. pollfd' = pollfd
      BY <2>1
    <3> QED BY <2>3, <3>1, <3>2 DEF StillReadable
  <2> QED BY <2>1, <2>3, <2>4, <2>5, <2>6 DEF ReadyOK, PollOK
<1>7. CASE /\ PollVisit /\ Hangup(ConnAt(pollfd[i].fd)) /\ numfd' = numfd - 1 /\ i' = Again
           /\ pollfd' = IF i < numfd THEN [pollfd EXCEPT ![i] = pollfd[numfd]] ELSE pollfd
  <2>1. pc = "visit" /\ pc' = "visit" /\ i <= numfd /\ up
    BY <1>7 DEF PollVisit
  <2> QED BY <1>7, <2>1, PollCloses
<1>8. CASE PollEnd
  <2>1. /\ NetOK' /\ Taken' = Taken /\ UNCHANGED <<fdof, client, backlog, up>>
    BY <1>8, NetSame DEF PollEnd
  <2>2. pc' = "poll" /\ UNCHANGED <<pollfd, numfd, i>>
    BY <1>8 DEF PollEnd, pollvars
  <2>3. WatchOK'
    BY <1>0, <2>1, <2>2 DEF WatchOK
  <2> QED BY <1>0, <2>1, <2>2, <2>3 DEF ReadyOK, PollOK
<1>9. PollAccept => \/ UNCHANGED <<net, serv, pollfd, numfd>>
                    \/ /\ pollfd[1].revents /\ AcceptFresh(Head(backlog)) /\ numfd' = numfd + 1
                       /\ pollfd' = Added(NewFd)
                    \/ pollfd[1].revents /\ AcceptStale(Head(backlog)) /\ UNCHANGED <<pollfd, numfd>>
  BY DEF PollAccept, Entry, Added
<1>10. PollVisit => \/ i' = i + 1 /\ UNCHANGED <<net, serv, pollfd, numfd>>
                    \/ handle_request(ConnAt(pollfd[i].fd)) /\ i' = i + 1 /\ UNCHANGED <<pollfd, numfd>>
                    \/ ReadError(ConnAt(pollfd[i].fd)) /\ i' = i + 1 /\ UNCHANGED <<pollfd, numfd>>
                    \/ /\ Hangup(ConnAt(pollfd[i].fd)) /\ numfd' = numfd - 1 /\ i' = Again
                       /\ pollfd' = IF i < numfd THEN [pollfd EXCEPT ![i] = pollfd[numfd]] ELSE pollfd
  BY DEF PollVisit
<1> QED BY <1>1, <1>2, <1>3, <1>4, <1>5, <1>6, <1>r, <1>7, <1>8, <1>9, <1>10 DEF PollLoop

-----------------------------------------------------------------------------
(* The clients' steps, and the initial states.                             *)

LEMMA ClientKeepsSelect ==
  ASSUME NetOK, SelectOK, Client, UNCHANGED <<serv, selectvars, i, pc>>
  PROVE  SelectOK'
<1>1. /\ StillReadable /\ Taken' = Taken /\ fdof' = fdof
      /\ backlog # <<>> => backlog' # <<>>
  BY ClientKeepsNet
<1>2. UNCHANGED <<client, allset, rset, maxfd, maxi, i, pc>>
  BY DEF serv, selectvars
<1>3. \A n \in 1 .. Len(client) : client[n].fd \in Fd /\ client[n].fd # listenfd
  <2>1. client \in Seq(Slot)
    BY DEF NetOK, Types
  <2>2. \A n \in 1 .. Len(client) : client[n] \in Slot
    BY <2>1
  <2> QED BY <2>2 DEF Slot, SelectOK
<1>4. ASSUME pc = "visit", NEW n \in 1 .. Len(client), n >= i, client[n].fd \in rset
      PROVE  Readable(client[n].fd)'
  <2>1. Readable(client[n].fd)
    BY <1>4 DEF SelectOK
  <2> QED BY <1>1, <1>2, <1>3, <2>1 DEF StillReadable
<1> QED BY <1>1, <1>2, <1>4 DEF SelectOK

LEMMA ClientKeepsPoll ==
  ASSUME NetOK, PollOK, Client, UNCHANGED <<serv, pollvars, i, pc>>
  PROVE  PollOK'
<1>0. WatchOK /\ ReadyOK
  BY DEF PollOK
<1>1. /\ StillReadable /\ Taken' = Taken /\ fdof' = fdof
      /\ backlog # <<>> => backlog' # <<>>
  BY ClientKeepsNet
<1>2. UNCHANGED <<pollfd, numfd, i, pc>>
  BY DEF pollvars
<1>3. WatchOK'
  BY <1>0, <1>1, <1>2 DEF WatchOK
<1>4. ASSUME pc # "poll", NEW n \in 2 .. numfd, n >= i, pollfd[n].revents
      PROVE  Readable(pollfd[n].fd)'
  <2>1. Readable(pollfd[n].fd) /\ pollfd[n].fd \in Fd /\ pollfd[n].fd # listenfd
    BY <1>0, <1>4, EntryFacts DEF ReadyOK
  <2> QED BY <1>1, <1>2, <2>1 DEF StillReadable
<1> QED BY <1>0, <1>1, <1>2, <1>3, <1>4 DEF ReadyOK, PollOK

LEMMA InitNet ==
  ASSUME InitClients
  PROVE  /\ Types \/ client \notin Seq(Slot)
         /\ FdsOK /\ QueueOK /\ MishapOK /\ Taken = {} /\ Cardinality(Taken) = 0
<1>1. /\ sock = [c \in Conn |-> "none"] /\ asked = [c \in Conn |-> FALSE]
      /\ unread = [c \in Conn |-> FALSE]
      /\ shut = [c \in Conn |-> FALSE] /\ stale = [c \in Conn |-> FALSE]
      /\ fdof = [c \in Conn |-> Nobody]
      /\ backlog = <<>> /\ up = TRUE /\ mishap = FALSE
  BY DEF InitClients
<1>2. \A c \in Conn : sock[c] = "none" /\ ~asked[c] /\ ~unread[c] /\ ~shut[c] /\ ~stale[c] /\ fdof[c] = Nobody
  BY <1>1
<1>3. Taken = {}
  BY <1>2 DEF Taken
<1>4. Cardinality(Taken) = 0
  BY <1>3, FS_EmptySet
<1>5. client \in Seq(Slot) => Types
  <2>1. sock \in [Conn -> {"none", "queued", "taken", "over"}]
    BY <1>1
  <2>2. asked \in [Conn -> BOOLEAN]
    BY <1>1
  <2>3. shut \in [Conn -> BOOLEAN] /\ unread \in [Conn -> BOOLEAN]
    BY <1>1
  <2>4. stale \in [Conn -> BOOLEAN]
    BY <1>1
  <2>5. fdof \in [Conn -> Fd]
    BY <1>1 DEF Fd
  <2>6. backlog \in Seq(Conn)
    BY <1>1
  <2>7. up \in BOOLEAN
    BY <1>1
  <2>8. mishap \in BOOLEAN
    BY <1>1
  <2> QED BY <2>1, <2>2, <2>3, <2>4, <2>5, <2>6, <2>7, <2>8 DEF Types
<1>6. FdsOK
  BY <1>2 DEF FdsOK
<1>7. QueueOK
  BY <1>1 DEF QueueOK
<1>8. MishapOK
  <2>1. up
    BY <1>1
  <2> QED BY <1>2, <2>1 DEF MishapOK
<1> QED BY <1>3, <1>4, <1>5, <1>6, <1>7, <1>8

LEMMA SelectStarts ==
  ASSUME SelectInit
  PROVE  NetOK /\ SelectOK
<1>1. InitClients /\ client = <<>>
  BY DEF SelectInit
<1>2. Types /\ FdsOK /\ QueueOK /\ MishapOK /\ Taken = {}
  <2>1. client \in Seq(Slot)
    BY <1>1
  <2> QED BY <1>1, <2>1, InitNet
<1>3. TableOK
  BY <1>1, <1>2 DEF TableOK
<1>4. SelectOK
  <2>0. {listenfd} \cup {fdof[c] : c \in Taken} = {listenfd}
    BY <1>2
  <2>1. /\ allset = {listenfd} /\ rset = {} /\ maxfd = listenfd /\ maxi = 0
        /\ i = 1 /\ pc = "select" /\ Len(client) = 0
    BY <1>1 DEF SelectInit
  <2> QED BY <2>0, <2>1 DEF SelectOK, listenfd, Nobody
<1> QED BY <1>2, <1>3, <1>4 DEF NetOK

LEMMA PollStarts ==
  ASSUME PollInit
  PROVE  NetOK /\ PollOK
<1>1. InitClients
  BY DEF PollInit
<1>2. Filled(<<>>, client, listenfd, 0)
  <2>1. client = client_add(<<>>, listenfd, 0) /\ <<>> \in Seq(Slot) /\ listenfd \in FD /\ 0 \in Uid
    BY FdFacts DEF PollInit, Uid
  <2> QED BY <2>1, AddFillsOne
<1>3. Types /\ FdsOK /\ QueueOK /\ MishapOK /\ Taken = {} /\ Cardinality(Taken) = 0
  <2>1. client \in Seq(Slot)
    BY <1>2 DEF Filled
  <2> QED BY <1>1, <2>1, InitNet
<1>4. TableOK
  <2>1. Len(<<>>) = 0 /\ Len(client) \in Nat
    BY <1>2 DEF Filled
  <2>2. PICK n \in 1 .. Len(client) :
          /\ client[n] = [fd |-> listenfd, uid |-> 0]
          /\ \A m \in 1 .. Len(client) : m # n =>
               IF m <= Len(<<>>) THEN client[m] = <<>>[m] ELSE client[m].fd = Nobody
    BY <1>2 DEF Filled
  <2>3. client[n].fd = listenfd /\ \A m \in 1 .. Len(client) : m # n => client[m].fd = Nobody
    <3>1. \A m \in 1 .. Len(client) : ~(m <= Len(<<>>))
      BY <2>1
    <3> QED BY <2>2, <3>1
  <2> QED BY <1>3, <2>3 DEF TableOK
<1>5. PICK g : g = grow_pollfd(<<>>)
  OBVIOUS
<1>6. g \in Seq(PollSlot) /\ Len(g) = NALLOC /\ \A n \in 1 .. NALLOC : g[n] = Unused
  <2>1. PICK h : h = [n \in 1 .. NALLOC |-> Unused]
    OBVIOUS
  <2>2. Unused \in PollSlot
    BY DEF Unused, PollSlot, Fd
  <2>3. h \in Seq(PollSlot) /\ Len(h) = NALLOC /\ \A n \in 1 .. NALLOC : h[n] = Unused
    BY <2>1, <2>2, OpenAssumption
  <2>4. <<>> \o h = h
    BY <2>3
  <2> QED BY <1>5, <2>1, <2>3, <2>4 DEF grow_pollfd
<1>7. 1 \in 1 .. NALLOC
  BY OpenAssumption
<1>8. pollfd = [g EXCEPT ![1] = [fd |-> listenfd, revents |-> FALSE]]
  <2>1. pollfd = [g EXCEPT ![1].fd = listenfd]
    BY <1>5 DEF PollInit
  <2>2. \A e \in PollSlot : [e EXCEPT !.fd = listenfd] = [fd |-> listenfd, revents |-> e.revents]
    BY DEF PollSlot
  <2>3. g[1] \in PollSlot /\ g[1].revents = FALSE
    BY <1>6, <1>7 DEF Unused
  <2>4. [g[1] EXCEPT !.fd = listenfd] = [fd |-> listenfd, revents |-> FALSE]
    BY <2>2, <2>3
  <2> QED BY <2>1, <2>4
<1>9. pollfd \in Seq(PollSlot) /\ Len(pollfd) = NALLOC /\ pollfd[1] = [fd |-> listenfd, revents |-> FALSE]
  <2>1. PICK e \in PollSlot : e = [fd |-> listenfd, revents |-> FALSE]
    BY FdFacts DEF PollSlot, Fd
  <2>2. Replaced(g, pollfd, 1, e)
    BY <1>6, <1>7, <1>8, <2>1, PutReplaces
  <2> QED BY <1>6, <2>1, <2>2 DEF Replaced
<1>10. numfd = 1 /\ i = 2 /\ pc = "poll"
  BY DEF PollInit
<1>11. WatchOK
  BY <1>3, <1>7, <1>9, <1>10 DEF WatchOK
<1>12. ReadyOK
  BY <1>10 DEF ReadyOK
<1> QED BY <1>3, <1>4, <1>11, <1>12 DEF NetOK, PollOK

-----------------------------------------------------------------------------
LEMMA ServerStarts == Init => IServer
BY SelectStarts, PollStarts DEF Init, IServer

LEMMA ServerInvariant ==
  ASSUME IServer, [Next]_vars
  PROVE  IServer'
<1>0. NetOK /\ loop \in {"select", "poll"} /\ (loop = "select" => SelectOK) /\ (loop = "poll" => PollOK)
  BY DEF IServer
<1>1. CASE loop = "select" /\ SelectLoop /\ UNCHANGED <<pollvars, loop>>
  BY <1>0, <1>1, SelectInvariant DEF IServer
<1>2. CASE loop = "poll" /\ PollLoop /\ UNCHANGED <<selectvars, loop>>
  BY <1>0, <1>2, PollInvariant DEF IServer
<1>3. CASE Client /\ UNCHANGED <<serv, selectvars, pollvars, i, pc, loop>>
  <2>1. NetOK'
    BY <1>0, <1>3, ClientKeepsNet
  <2>2. loop = "select" => SelectOK'
    BY <1>0, <1>3, ClientKeepsSelect
  <2>3. loop = "poll" => PollOK'
    BY <1>0, <1>3, ClientKeepsPoll
  <2> QED BY <1>0, <1>3, <2>1, <2>2, <2>3 DEF IServer
<1>4. CASE UNCHANGED vars
  <2>1. UNCHANGED <<net, serv, allset, rset, maxfd, maxi, pollfd, numfd, i, pc, loop>>
    BY <1>4 DEF vars, selectvars, pollvars
  <2>2. /\ NetOK' /\ Taken' = Taken /\ UNCHANGED <<fdof, client, backlog, up>>
        /\ \A fd : Readable(fd)' = Readable(fd)
    BY <1>0, <2>1, NetSame
  <2>3. SelectOK => SelectOK'
    BY <2>1, <2>2 DEF SelectOK
  <2>4. PollOK => PollOK'
    <3>1. WatchOK => WatchOK'
      BY <2>1, <2>2 DEF WatchOK
    <3>2. ReadyOK => ReadyOK'
      BY <2>1, <2>2 DEF ReadyOK
    <3> QED BY <3>1, <3>2 DEF PollOK
  <2> QED BY <1>0, <2>1, <2>2, <2>3, <2>4 DEF IServer
<1> QED BY <1>1, <1>2, <1>3, <1>4 DEF Next, Server

\* The invariant holds whatever the clients do and whichever loop runs.
LEMMA ServerAlways == Spec => []IServer
BY ServerStarts, ServerInvariant, PTL DEF Spec

\* client[] of both loops holds exactly the open connections, each once and
\* under its peer's uid, however often entries are freed and taken again
\* (client_add, client_del) and the table grows (client_alloc).
THEOREM ClientTableExact == Spec => []TableExact
<1>1. IServer => TableExact
  <2> SUFFICES ASSUME IServer PROVE TableExact
    OBVIOUS
  <2>1. TableOK /\ FdsOK
    BY DEF IServer, NetOK
  <2>2. \A c \in Taken : fdof[c] # Nobody /\ fdof[c] # listenfd
    BY <2>1, FdFacts DEF FdsOK, Taken
  <2>3. TableFds \subseteq {fdof[c] : c \in Taken}
    BY <2>1 DEF TableOK, TableFds
  <2>4. {fdof[c] : c \in Taken} \subseteq TableFds
    <3> SUFFICES ASSUME NEW c \in Taken PROVE fdof[c] \in TableFds
      OBVIOUS
    <3>1. PICK n \in 1 .. Len(client) : client[n] = [fd |-> fdof[c], uid |-> uid[c]]
      BY <2>1 DEF TableOK
    <3>2. client[n].fd = fdof[c]
      BY <3>1
    <3> QED BY <2>2, <3>2 DEF TableFds
  <2>5. \A m, n \in 1 .. Len(client) : m # n /\ client[m].fd # Nobody => client[m].fd # client[n].fd
    BY <2>1 DEF TableOK
  <2>6. \A c \in Taken : \E n \in 1 .. Len(client) : client[n] = [fd |-> fdof[c], uid |-> uid[c]]
    BY <2>1 DEF TableOK
  <2> QED BY <2>3, <2>4, <2>5, <2>6 DEF TableExact
<1> QED BY <1>1, ServerAlways, PTL

\* Both loops wait for the listening socket and for every open connection,
\* and for nothing else: no connection is forgotten when select's maxfd and
\* maxi or poll's array, with entries moved into the holes, are updated.
THEOREM EveryConnectionWatched == Spec => []WatchedExact
<1>1. IServer => WatchedExact
  <2> SUFFICES ASSUME IServer PROVE WatchedExact
    OBVIOUS
  <2>1. CASE loop = "select"
    BY <2>1 DEF IServer, SelectOK, WatchedExact
  <2>2. CASE loop = "poll"
    <3>1. WatchOK
      BY <2>2 DEF IServer, PollOK
    <3>2. {pollfd[n].fd : n \in 2 .. numfd} = {fdof[c] : c \in Taken}
      BY <3>1 DEF WatchOK
    <3>3. pollfd[1].fd = listenfd /\ Cardinality(Taken) = numfd - 1
      BY <3>1 DEF WatchOK
    <3> QED BY <2>2, <3>2, <3>3 DEF WatchedExact
  <2> QED BY <2>1, <2>2 DEF IServer
<1> QED BY <1>1, ServerAlways, PTL

\* Neither loop reads a descriptor that has nothing to be read.
THEOREM ReadsOnlyReady == Spec => []NeverBlocks
<1>1. IServer => NeverBlocks
  <2> SUFFICES ASSUME IServer, Reading PROVE Readable(ReadFd)
    BY DEF NeverBlocks
  <2>1. CASE loop = "select"
    <3>1. SelectOK /\ i <= maxi /\ client[i].fd \in rset /\ pc = "visit"
      BY <2>1 DEF IServer, Reading, Selected
    <3>2. i \in 1 .. Len(client)
      <4>1. client \in Seq(Slot)
        BY DEF IServer, NetOK, Types
      <4>2. Len(client) \in Nat
        BY <4>1
      <4> QED BY <3>1, <4>2 DEF SelectOK
    <3>3. Readable(client[i].fd)
      BY <3>1, <3>2 DEF SelectOK
    <3> QED BY <2>1, <3>3 DEF ReadFd
  <2>2. CASE loop = "poll"
    <3>1. WatchOK /\ ReadyOK /\ i <= numfd /\ pollfd[i].revents /\ pc = "visit"
      BY <2>2 DEF IServer, PollOK, Reading
    <3>2. i \in 2 .. numfd
      BY <3>1, EntryFacts DEF ReadyOK
    <3>3. Readable(pollfd[i].fd)
      BY <3>1, <3>2 DEF ReadyOK
    <3> QED BY <2>2, <3>3 DEF ReadFd
  <2> QED BY <2>1, <2>2 DEF IServer
<1> QED BY <1>1, ServerAlways, PTL

\* The select loop hands handle_request the uid of the client that asks.
THEOREM SelectUsesOwnUid == Spec => []UidRightSelect
<1>1. IServer /\ NeverBlocks => UidRightSelect
  <2> SUFFICES ASSUME IServer, NeverBlocks, loop = "select", Reading
               PROVE  client[i].uid = uid[ConnAt(client[i].fd)]
    BY DEF UidRightSelect, UidRight, ReadFd
  <2>1. NetOK /\ SelectOK /\ Readable(client[i].fd) /\ i <= maxi
    BY DEF IServer, NeverBlocks, ReadFd, Reading
  <2>2. i \in 1 .. Len(client)
    <3>1. client \in Seq(Slot)
      BY <2>1 DEF NetOK, Types
    <3>2. Len(client) \in Nat
      BY <3>1
    <3> QED BY <2>1, <3>2 DEF SelectOK
  <2>3. client[i].fd # listenfd
    BY <2>1, <2>2 DEF SelectOK
  <2>4. PICK c \in Conn : sock[c] = "taken" /\ fdof[c] = client[i].fd
    BY <2>1, <2>3 DEF Readable
  <2>5. ConnAt(client[i].fd) = c
    BY <2>1, <2>4, ConnAtIs DEF NetOK
  <2>6. PICK n \in 1 .. Len(client) : client[n] = [fd |-> fdof[c], uid |-> uid[c]]
    BY <2>1, <2>4 DEF NetOK, TableOK, Taken
  <2>7. client[n].fd = fdof[c] /\ client[n].uid = uid[c] /\ fdof[c] # Nobody
    BY <2>1, <2>4, <2>6, FdFacts DEF NetOK, FdsOK
  <2>8. n = i
    BY <2>1, <2>2, <2>4, <2>7 DEF NetOK, TableOK
  <2> QED BY <2>5, <2>7, <2>8
<1> QED BY <1>1, ServerAlways, ReadsOnlyReady, PTL

\* The server process ends only after a client left a request behind
\* (SIGPIPE) or its socket file was stale (log_sys): never because
\* client_del finds no entry.
THEOREM EndsOnlyByMishap == Spec => []DownOnlyByMishap
<1>1. IServer => DownOnlyByMishap
  BY DEF IServer, NetOK, MishapOK, DownOnlyByMishap
<1> QED BY <1>1, ServerAlways, PTL
=============================================================================
