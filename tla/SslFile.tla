------------------------------ MODULE SslFile ------------------------------
(***************************************************************************)
(* The file transfer of src/network/ssl: ssl_client.c sends the name of a  *)
(* file and its contents, ssl_server.c stores it, one client at a time.    *)
(* SMODE and CMODE, given to make, say whose certificate is verified.      *)
(* OpenSSL (external) is its handshake and a queue of records: SSL_read    *)
(* never returns bytes of two records.  A handshake or a read that does    *)
(* not succeed returns 0 or an error, as OpenSSL may do for a connection   *)
(* that is shut down or cut; the code tells the two apart.                 *)
(*                                                                         *)
(* A file is read 1024 bytes at a time, each read one chunk <<client, n>>; *)
(* its name is shorter than the 50 bytes the server keeps for it.          *)
(***************************************************************************)
EXTENDS Naturals, Sequences

CONSTANTS Client, Name,
          NChunks,   \* NChunks[c]: chunks of the file of c
          NoName

Cert == {"none", "bad", "good"}
VARIABLES SMODE, CMODE,            \* the macros
          smode, cmode,            \* the variable mode of the server, of the clients
          scert, cert,             \* certificate of the server, of each client
          spc, cur, file, pos,     \* the server: its client, open file and offset
          disk,                    \* the files: a sequence of chunks
          cpc, name, rest, conn,   \* the clients: name sent, chunks left; records
          failed                   \* clients whose handshake failed
vars == <<SMODE, CMODE, smode, cmode, scert, cert, spc, cur, file, pos, disk, cpc, name, rest, conn, failed>>
server == <<spc, cur, file, pos, disk>>
client == <<cpc, name, rest>>
modes  == <<SMODE, CMODE, smode, cmode, scert, cert>>

\* The Makefile defines SERVER_SSL_VERIFY_PEER as 2, FAIL_IF_NO_PEER_CERT as 3
\* and CLIENT_SSL_VERIFY_NONE as 1; the names the sources test besides are not
\* defined, hence 0 in #if.  A value no branch tests leaves mode uninitialized.
ServerMode(m) == CASE m = 0 -> {"none"}
                   [] m = 2 -> {"peer"}
                   [] m = 3 -> {"fail if no cert"}
                   [] OTHER -> {"none", "peer", "fail if no cert"}
ClientMode(m) == CASE m = 1 -> {"none"}
                   [] m = 0 -> {"peer"}
                   [] OTHER -> {"none", "peer"}

Init ==
  /\ SMODE \in 0..3 /\ smode \in ServerMode(SMODE)
  /\ CMODE \in 0..2 /\ cmode \in ClientMode(CMODE)
  /\ cert \in [Client -> Cert] /\ scert \in Cert \ {"none"}
  /\ spc = "accept" /\ cur = NoName /\ file = NoName /\ pos = 0
  /\ disk = [n \in Name |-> <<>>]
  /\ cpc = [c \in Client |-> "start"] /\ name \in [Client -> Name]
  /\ rest = [c \in Client |-> NChunks[c]]
  /\ conn = [c \in Client |-> <<>>] /\ failed = {}

-----------------------------------------------------------------------------
\* The handshake succeeds for the server, for the client.
ServerAccepts(c) == CASE smode = "none" -> TRUE
                      [] smode = "peer" -> cert[c] # "bad"
                      [] OTHER -> cert[c] = "good"
ClientAccepts == cmode = "none" \/ scert = "good"
Handshake(c) == ServerAccepts(c) /\ ClientAccepts

Connect(c) == /\ cpc[c] = "start" /\ spc # "exit"
              /\ cpc' = [cpc EXCEPT ![c] = "connected"]
              /\ UNCHANGED <<server, modes, name, rest, conn, failed>>

\* The mutant of the build without SSL_CTX_set_verify.
AcceptAny(c) == /\ spc = "accept" /\ cpc[c] = "connected"
                /\ cur' = c /\ spc' = "name" /\ cpc' = [cpc EXCEPT ![c] = "name"]
                /\ UNCHANGED <<modes, file, pos, disk, name, rest, conn, failed>>

\* accept and SSL_accept.  Of a handshake that fails, -1 ends the server and 0
\* does not; the client prints an error and goes on.
Accept(c) ==
  /\ spc = "accept" /\ cpc[c] = "connected" /\ cur' = c
  /\ cpc' = [cpc EXCEPT ![c] = "name"]
  /\ \/ Handshake(c) /\ spc' = "name" /\ UNCHANGED failed
     \/ ~ Handshake(c) /\ spc' \in {"exit", "name"} /\ failed' = failed \cup {c}
  /\ UNCHANGED <<modes, file, pos, disk, name, rest, conn>>

\* The name without its path, then the chunks, each a record; then
\* SSL_shutdown.  After a failed handshake nothing is sent.
Sent(c, r) == IF c \in failed THEN conn ELSE [conn EXCEPT ![c] = Append(@, r)]
Write(c) ==
  /\ \/ /\ cpc[c] = "name" /\ cpc' = [cpc EXCEPT ![c] = "data"]
        /\ conn' = Sent(c, name[c]) /\ UNCHANGED rest
     \/ /\ cpc[c] = "data" /\ rest[c] > 0
        /\ conn' = Sent(c, <<c, NChunks[c] - rest[c] + 1>>)
        /\ rest' = [rest EXCEPT ![c] = @ - 1] /\ UNCHANGED cpc
     \/ /\ cpc[c] = "data" /\ rest[c] = 0 /\ cpc' = [cpc EXCEPT ![c] = "done"]
        /\ UNCHANGED <<conn, rest>>
  /\ UNCHANGED <<server, modes, name, failed>>

Kill(c) == /\ cpc[c] \in {"name", "data"} /\ cpc' = [cpc EXCEPT ![c] = "killed"]
           /\ UNCHANGED <<server, modes, name, rest, conn, failed>>

\* SSL_read returns 0, or fails: no record is left, and the client has shut the
\* connection down, or was killed, or never had one.
Cut(c)   == conn[c] = <<>> /\ (cpc[c] = "killed" \/ c \in failed)
Ended(c) == Cut(c) \/ (conn[c] = <<>> /\ cpc[c] = "done")

\* The first record is the name: open with O_CREAT and without O_TRUNC, whose
\* failure is printed and no more (NoName: the descriptor is -1).  Without a
\* record the name is empty, which cannot be opened.
ReadName ==
  /\ spc = "name"
  /\ \/ /\ conn[cur] # <<>> /\ file' \in {Head(conn[cur]), NoName} /\ pos' = 0
        /\ conn' = [conn EXCEPT ![cur] = Tail(@)] /\ spc' = "data"
     \/ /\ Ended(cur) /\ file' = NoName /\ pos' = 0 /\ spc' = "data" /\ UNCHANGED conn
     \/ /\ Cut(cur) /\ spc' = "exit" /\ UNCHANGED <<file, pos, conn>>
  /\ UNCHANGED <<modes, cur, disk, client, failed>>

Overlay(s, n, x) == [k \in 1..(IF n > Len(s) THEN n ELSE Len(s)) |-> IF k = n THEN x ELSE s[k]]

\* The loop of SSL_read and write: 0 ends it, an error of either the server.
ReadData ==
  /\ spc = "data"
  /\ \/ /\ conn[cur] # <<>> /\ file # NoName /\ pos' = pos + 1
        /\ disk' = [disk EXCEPT ![file] = Overlay(@, pos + 1, Head(conn[cur]))]
        /\ conn' = [conn EXCEPT ![cur] = Tail(@)] /\ UNCHANGED <<spc, file, cur>>
     \/ /\ Ended(cur) /\ spc' = "accept" /\ file' = NoName /\ pos' = 0 /\ cur' = NoName
        /\ UNCHANGED <<disk, conn>>
     \/ /\ Cut(cur) \/ (conn[cur] # <<>> /\ file = NoName)
        /\ spc' = "exit" /\ UNCHANGED <<disk, conn, file, pos, cur>>
  /\ UNCHANGED <<modes, client, failed>>

Server == ReadName \/ ReadData \/ \E c \in Client : Accept(c)
Next == Server \/ \E c \in Client : Connect(c) \/ Write(c) \/ Kill(c)
Spec == Init /\ [][Next]_vars

-----------------------------------------------------------------------------
\* What is on disk came from clients whose handshake succeeded: with a good
\* certificate where the server's variable mode asks for one, and never one that
\* failed.  This follows the variable; ModeAsDocumented is about the macros.
Authenticated ==
  \A n \in Name : \A k \in 1..Len(disk[n]) :
    LET c == disk[n][k][1] IN
      /\ smode = "fail if no cert" => cert[c] = "good"
      /\ smode = "peer" => cert[c] # "bad"
      /\ cmode = "peer" => scert = "good"

\* A client that is done when the server is back at accept has its file stored
\* from the first chunk to the last, but for what later clients wrote over it.
\* (Behind it there may be the end of a longer file of that name.)  A client
\* whose file could not be opened ends the server unless the file is empty.
Stored ==
  spc = "accept" =>
    \A c \in Client : cpc[c] = "done" /\ c \notin failed =>
      \A k \in 1..NChunks[c] :
        LET s == disk[name[c]] IN k <= Len(s) /\ s[k][2] = k

\* What README.md:8-11 and Makefile:2-5 say of one-way authentication: with
\* CMODE=0 the handshake succeeds though the server's certificate was not
\* verified, with CMODE=1 it succeeds only when it was.  ssl_client.c:54-62 does
\* the opposite: CLIENT_SSL_VERIFY_NONE is 1, and CLIENT_SSL_VERIFY_PERR, a slip
\* for PEER that no macro defines, is 0.
HandshakeDone == {c \in Client : cpc[c] \notin {"start", "connected"}}
ModeAsDocumented ==
  SMODE = 0 =>
    /\ CMODE = 0 => failed = {}
    /\ CMODE = 1 /\ HandshakeDone \ failed # {} => scert = "good"

\* The sizes of the files, for TLC.
OneChunk == [c \in Client |-> 1]

\* What the client of the moment has sent and the server has not read: its name,
\* then the chunks from the first the server has not written.
Admitted == {c \in Client : Handshake(c)}
Sending ==
  /\ cur \in Admitted /\ cpc[cur] \in {"name", "data", "done", "killed"}
  /\ cpc[cur] = "done" => rest[cur] = 0
  /\ spc = "name" =>
       \/ conn[cur] = <<>> /\ rest[cur] = NChunks[cur] /\ cpc[cur] \in {"name", "killed"}
       \/ /\ conn[cur] # <<>> /\ conn[cur][1] = name[cur] /\ cpc[cur] # "name"
          /\ \A k \in 2..Len(conn[cur]) : conn[cur][k] = <<cur, k - 1>>
          /\ Len(conn[cur]) + rest[cur] = NChunks[cur] + 1
  /\ spc = "data" =>
       /\ file = name[cur] \/ (file = NoName /\ pos = 0)
       /\ pos \in 0..Len(disk[name[cur]]) /\ cpc[cur] # "name"
       /\ \A k \in 1..Len(conn[cur]) : conn[cur][k] = <<cur, pos + k>>
       /\ pos + Len(conn[cur]) + rest[cur] = NChunks[cur]

\* Any other client has not begun, has its file stored, or was lost.
Quiet(c) == \/ cpc[c] \in {"start", "connected"} /\ conn[c] = <<>> /\ rest[c] = NChunks[c]
            \/ cpc[c] = "done" /\ NChunks[c] <= Len(disk[name[c]])
            \/ cpc[c] = "killed" \/ c \in failed
            \/ spc # "accept" /\ c = cur

Record == Name \cup (Client \X Nat)
TypeOK == /\ conn \in [Client -> Seq(Record)] /\ rest \in [Client -> Nat]
          /\ \A c \in Client : rest[c] <= NChunks[c]
          /\ cpc = [c \in Client |-> cpc[c]] /\ name \in [Client -> Name]
          /\ disk \in [Name -> Seq(Client \X Nat)] /\ failed \subseteq Client
OnDisk == \A n \in Name : \A k \in 1..Len(disk[n]) : disk[n][k][1] \in Admitted /\ disk[n][k][2] = k
IInv ==
  /\ TypeOK /\ OnDisk
  /\ spc # "exit" =>
       /\ spc \in {"accept", "name", "data"}
       /\ \A c \in Client : Quiet(c)
       /\ \A c \in failed : conn[c] = <<>> /\ cpc[c] \in {"name", "data", "done", "killed"}
       /\ spc # "accept" => cur \in Client /\ (cur \in failed \/ Sending)
=============================================================================
