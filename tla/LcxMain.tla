------------------------------ MODULE LcxMain ------------------------------
(***************************************************************************)
(* The parent process of src/network/lcx/lcx.c: main reads the arguments,  *)
(* then bind2bind, conn2conn or bind2conn makes pairs of connections and   *)
(* forks a child for each, which runs transdata (LcxRelay).                *)
(*                                                                         *)
(* An argument is a token: an option, a port "p1", "p2", a host "h1", "h2" *)
(* or a log file "f".  Behind argv the process finds a null pointer and    *)
(* its environment, here one string.                                       *)
(***************************************************************************)
EXTENDS Naturals, Sequences

CONSTANT MaxKids   \* bound: children forked

NULL == "null"
Option == {"-v", "-listen", "-slave", "-tran", "-log"}
Usage == [m \in {"-listen", "-slave", "-tran"} |->
            CASE m = "-listen" -> <<"-listen", "p1", "p2">>
              [] m = "-slave"  -> <<"-slave", "h1", "p1", "h2", "p2">>
              [] m = "-tran"   -> <<"-tran", "p1", "h2", "p2">>]
Log == <<"-log", "f">>

VARIABLES argv, p, conf,   \* the arguments; the position; the locals they fill
          mpc, fds, kids   \* descriptors the parent holds; children forked
vars == <<argv, p, conf, mpc, fds, kids>>

\* Whatever usage prints, with some arguments missing too.
Init ==
  /\ \E m \in DOMAIN Usage : \E n \in 1..Len(Usage[m]) :
       LET u == SubSeq(Usage[m], 1, n) IN
       argv \in {<<"lcx">>, <<"lcx", "-v">>, <<"lcx">> \o u, <<"lcx">> \o Log \o u,
                 <<"lcx">> \o u \o Log, <<"lcx">> \o u \o <<"-log">>}
  /\ p = 1 /\ mpc = "args" /\ fds = {} /\ kids = 0
  /\ conf = [method |-> "none", host1 |-> "", host2 |-> "", port1 |-> "", port2 |-> "", log |-> ""]

-----------------------------------------------------------------------------
(* main.                                                                   *)

Memory == argv \o <<NULL, "env">>
Arg(n) == IF n <= Len(Memory) THEN Memory[n] ELSE "env"

testifisvalue(a) == a # NULL /\ a \notin Option

\* atoi of a string that is no number is 0, which main takes for missing; atoi
\* and strlen of the null pointer crash.
Value(f, a) == CASE a = NULL -> "crash"
                 [] a # NULL /\ f \in {"port1", "port2"} /\ a \notin {"p1", "p2"} -> ""
                 [] OTHER -> a

\* The mutant that does not step over a value.
FillStuck(s, f) ==
  IF testifisvalue(Arg(s.p + f[2]))
  THEN [p |-> s.p, conf |-> [s.conf EXCEPT ![f[1]] = Value(f[1], Arg(s.p + 1))]]
  ELSE s

Fill(s, f) ==
  IF testifisvalue(Arg(s.p + f[2]))
  THEN [p |-> s.p + 1, conf |-> [s.conf EXCEPT ![f[1]] = Value(f[1], Arg(s.p + 1))]]
  ELSE s

\* The fields an option fills and how far ahead main looks for each.
Values(s, o) ==
  CASE o = "-listen" -> Fill(Fill(s, <<"port1", 1>>), <<"port2", 1>>)
    [] o = "-slave"  -> Fill(Fill(Fill(Fill(s, <<"host1", 1>>), <<"port1", 1>>), <<"host2", 1>>), <<"port2", 1>>)
    [] o = "-tran"   -> Fill(Fill(Fill(s, <<"port1", 1>>), <<"host2", 2>>), <<"port2", 3>>)
    [] o = "-log"    -> Fill(s, <<"log", 1>>)
    [] OTHER         -> s

\* One pass of the loop over the arguments; -v returns, and so does -log
\* without a name.
ReadArg ==
  /\ mpc = "args" /\ Arg(p) # NULL
  /\ LET o == Arg(p)
         c == IF o \in DOMAIN Usage THEN [conf EXCEPT !.method = o] ELSE conf
         s == Values([p |-> p, conf |-> c], o) IN
     /\ conf' = s.conf /\ p' = s.p + 1
     /\ mpc' = CASE \E f \in DOMAIN s.conf : s.conf[f] = "crash" -> "crash"
                 [] o = "-v" \/ (o = "-log" /\ s.conf.log = "") -> "exit"
                 [] OTHER -> "args"
  /\ UNCHANGED <<argv, fds, kids>>

Complete(c) ==
  /\ c.method # "none" /\ c.port1 # "" /\ c.port2 # ""
  /\ c.method = "-slave" => c.host1 # "" /\ c.host2 # ""
  /\ c.method = "-tran" => c.host2 # ""

Listeners == CASE conf.method = "-listen" -> {"fd1", "fd2"}
               [] conf.method = "-tran" -> {"fd1"}
               [] OTHER -> {}

\* The switch; create_socket and create_serv may fail, which exits.
Dispatch ==
  /\ mpc = "args" /\ Arg(p) = NULL
  /\ \/ Complete(conf) /\ mpc' = "loop" /\ fds' = Listeners
     \/ mpc' = "exit" /\ UNCHANGED fds
  /\ UNCHANGED <<argv, p, conf, kids>>

-----------------------------------------------------------------------------
(* The three loops.  s1 and s2 are the two sockets of a pair.              *)

Goto(l, s) == mpc' = l /\ fds' = s /\ UNCHANGED <<argv, p, conf, kids>>

\* -listen: a failed accept starts over; the second closes the first socket.
bind2bind ==
  /\ conf.method = "-listen"
  /\ \/ mpc = "loop" /\ (Goto("second", fds \cup {"s1"}) \/ Goto("loop", fds))
     \/ mpc = "second" /\ (Goto("fork", fds \cup {"s2"}) \/ Goto("loop", fds \ {"s1"}))

\* The mutant that keeps the accepted socket when the connection fails.
bind2connLeak ==
  /\ conf.method = "-tran"
  /\ \/ mpc = "loop" /\ Goto("second", fds \cup {"s1"})
     \/ mpc = "second" /\ (Goto("fork", fds \cup {"s2"}) \/ Goto("loop", fds))

\* -tran: accept, then create_socket and client_connect, which may fail.
bind2conn ==
  /\ conf.method = "-tran"
  /\ \/ mpc = "loop" /\ (Goto("second", fds \cup {"s1"}) \/ Goto("loop", fds))
     \/ mpc = "second" /\ (Goto("fork", fds \cup {"s2"}) \/ Goto("loop", fds \ {"s1"}))

\* -slave: the first connection that fails ends the loop, and the program.
conn2conn ==
  /\ conf.method = "-slave"
  /\ \/ mpc = "loop" /\ (Goto("connect", fds \cup {"s1", "s2"}) \/ Goto("exit", {}))
     \/ mpc = "connect" /\ (Goto("fork", fds) \/ Goto("exit", {}))

\* fork: the child, if there is one, relays; the parent closes its copies.
Fork ==
  /\ mpc = "fork" /\ kids < MaxKids
  /\ kids' \in {kids, kids + 1}
  /\ fds' = fds \ {"s1", "s2"} /\ mpc' = "loop"
  /\ UNCHANGED <<argv, p, conf>>

\* SIGINT at any time.
closeallfd == mpc \in {"loop", "second", "connect", "fork"} /\ Goto("exit", {})

Next == ReadArg \/ Dispatch \/ bind2bind \/ bind2conn \/ conn2conn \/ Fork \/ closeallfd
Spec == Init /\ [][Next]_vars

-----------------------------------------------------------------------------
\* The forms usage prints are understood, -log before or after: although main
\* looks beyond the end of argv for the arguments of -tran.
Understood ==
  \A m \in DOMAIN Usage :
    /\ mpc = "args" /\ Arg(p) = NULL
    /\ argv \in {<<"lcx">> \o Usage[m], <<"lcx">> \o Log \o Usage[m], <<"lcx">> \o Usage[m] \o Log}
    => /\ conf.method = m /\ conf.port1 = "p1" /\ conf.port2 = "p2"
       /\ m = "-slave" => conf.host1 = "h1"
       /\ m # "-listen" => conf.host2 = "h2"
       /\ Len(argv) > Len(Usage[m]) + 1 => conf.log = "f"

\* Before the next pair the parent holds its listening sockets and no socket of
\* an earlier pair, whichever call failed: a peer sees the end of file when the
\* child closes.
NoLeak == mpc = "loop" => fds = Listeners

\* Where main is in a command line it understands, and what it has filled in;
\* and the descriptors at each place of the loops.
Field == {"method", "host1", "host2", "port1", "port2", "log"}
Filled(m) == /\ conf["method"] = m /\ conf["port1"] = "p1" /\ conf["port2"] = "p2"
             /\ m = "-slave" => conf["host1"] = "h1"
             /\ m # "-listen" => conf["host2"] = "h2"
Reading(m) ==
  LET n == Len(Usage[m]) IN
  /\ argv = <<"lcx">> \o Usage[m] => p \in {1, 2} \/ (p = n + 2 /\ Filled(m))
  /\ argv = <<"lcx">> \o Usage[m] \o Log =>
       p \in {1, 2} \/ (p = n + 2 /\ Filled(m)) \/ (p = n + 4 /\ Filled(m) /\ conf["log"] = "f")
  /\ argv = <<"lcx">> \o Log \o Usage[m] =>
       p \in {1, 2} \/ (p = 4 /\ conf["log"] = "f") \/ (p = n + 4 /\ Filled(m) /\ conf["log"] = "f")
IInv ==
  /\ conf = [f \in Field |-> conf[f]]
  /\ mpc = "args" => \A m \in DOMAIN Usage : Reading(m)
  /\ mpc = "loop" => fds = Listeners
  /\ mpc = "second" => fds = Listeners \cup {"s1"}
  /\ mpc \in {"connect", "fork"} => fds = Listeners \cup {"s1", "s2"}

\* The arguments main sees from position q on: those of the usage of m, and
\* behind them something, which is a value but at the end of the option.
Stands(m, q) ==
  /\ \A k \in 1..Len(Usage[m]) : Arg(q + k - 1) = Usage[m][k]
  /\ m = "-tran" => testifisvalue(Arg(q + 5))

\* A command line from its parts.
Words == {"lcx", "-log", "f", "-listen", "-slave", "-tran", "h1", "h2", "p1", "p2", "null", "env"}
Joined(c, a, b) ==
  /\ c \in Seq(Words) /\ Len(c) = Len(a) + Len(b)
  /\ \A k \in 1 .. Len(a) : c[k] = a[k]
  /\ \A k \in Len(a) + 1 .. Len(a) + Len(b) : c[k] = b[k - Len(a)]
=============================================================================
