---------------------------- MODULE NetworkProofs ----------------------------
(***************************************************************************)
(* Proofs about seven programs of Network, for all values of their         *)
(* constants, and what follows for the programs run together.  Each        *)
(* section is about one program, under the name of its instance, and       *)
(* begins with the variables that m1, m2, ... stand for in it.             *)
(***************************************************************************)
EXTENDS Network, FiniteSetTheorems, SequenceTheorems, TLAPS

-----------------------------------------------------------------------------
(* Rup is Ruptime: the uptime services.                                    *)
(*                                                                         *)
(* m1 kind, m2 spc, m3 serving, m4 queue, m5 held, m6 line, m7 cpc,        *)
(* m8 numsec, m9 early, m10 loss, m11 unrun.                               *)

LEMMA RupInit == Rup!Init => Rup!IInv
<1> SUFFICES ASSUME Rup!Init PROVE Rup!IInv
  OBVIOUS
<1>1. 1 \in Rup!Proc /\ \A p \in Rup!Proc : m2[p] = IF p = 1 THEN "main" ELSE "none"
  BY RupAssumption DEF Rup!Init, Rup!Proc
<1>2. \A p \in Rup!Proc : Rup!Turn(p) => p = 1
  BY <1>1 DEF Rup!Turn, Rup!Active
<1>3. \A p, q \in Rup!Proc : Rup!Turn(p) /\ Rup!Turn(q) => p = q
  BY <1>2
<1>4. /\ m2 = [p \in Rup!Proc |-> m2[p]] /\ m3 = [p \in Rup!Proc |-> m3[p]] /\ m5 = [c \in Client |-> m5[c]]
      /\ \A c \in Client : m5[c] = {}
  BY DEF Rup!Init
<1> QED BY <1>1, <1>3, <1>4 DEF Rup!IInv, Rup!Active

\* A process p that has the turn and keeps it.
LEMMA RupKeep ==
  ASSUME Rup!IInv, NEW p \in Rup!Proc, Rup!Turn(p), NEW l \in Rup!Active, m2' = [m2 EXCEPT ![p] = l],
         \A q \in Rup!Proc : q # p => m3'[q] = m3[q],
         m3' = [q \in Rup!Proc |-> m3'[q]],
         m5' = [c \in Client |-> m5'[c]],
         \A c \in Client : m5'[c] = {} \/ \E q : m5'[c] = {q}
  PROVE  Rup!IInv'
<1>1. /\ m2' = [q \in Rup!Proc |-> m2'[q]] /\ m2'[p] = l
      /\ \A q \in Rup!Proc : q # p => m2'[q] = m2[q]
  BY DEF Rup!IInv
<1>2. \A q \in Rup!Proc : m2'[q] \in Rup!Active \cup {"wait", "gone", "dead", "none"}
  BY <1>1 DEF Rup!IInv
<1>3. \A q \in Rup!Proc : q # p /\ m2'[q] = "wait" => m3'[q] \in Rup!Proc /\ m2[m3[q]] # "none"
  BY <1>1 DEF Rup!IInv
<1>4. \A q \in Rup!Proc : m2'[q] = "wait" => q # p /\ m2[q] = "wait" /\ m3'[q] = m3[q]
  BY <1>1 DEF Rup!Active
<1>5. \A q \in Rup!Proc : m2'[q] = "wait" => m3'[q] \in Rup!Proc /\ m2'[m3'[q]] # "none"
  BY <1>1, <1>3, <1>4 DEF Rup!Active
<1>6. \A q, r \in Rup!Proc : m2'[q] = "wait" /\ m2'[r] = "wait" /\ m3'[q] = m3'[r] => q = r
  BY <1>4 DEF Rup!IInv
<1>7. \A q \in Rup!Proc : Rup!Turn(q)' => q = p
  <2> SUFFICES ASSUME NEW q \in Rup!Proc, Rup!Turn(q)', q # p PROVE FALSE
    OBVIOUS
  <2>1. CASE m2'[q] \in Rup!Active
    BY <2>1, <1>1 DEF Rup!IInv, Rup!Turn
  <2>2. CASE m2'[q] = "wait" /\ m2'[m3'[q]] \in {"gone", "dead"}
    <3>1. m2[m3[q]] \in {"gone", "dead"}
      BY <2>2, <1>1, <1>4, <1>5 DEF Rup!Active
    <3> QED BY <3>1, <2>2, <1>4 DEF Rup!IInv, Rup!Turn
  <2> QED BY <2>1, <2>2 DEF Rup!Turn
<1>8. \A q, r \in Rup!Proc : Rup!Turn(q)' /\ Rup!Turn(r)' => q = r
  BY <1>7
<1> QED BY <1>1, <1>2, <1>5, <1>6, <1>8 DEF Rup!IInv

\* p closes all its descriptors.
LEMMA RupClosed ==
  ASSUME Rup!IInv, NEW p, m5' = Rup!Closed(p)
  PROVE  m5' = [c \in Client |-> m5'[c]] /\ \A c \in Client : m5'[c] = {} \/ \E q : m5'[c] = {q}
<1>1. m5' = [c \in Client |-> m5'[c]] /\ \A c \in Client : m5'[c] = m5[c] \ {p}
  BY DEF Rup!Closed
<1>2. ASSUME NEW c \in Client PROVE m5'[c] = {} \/ \E q : m5'[c] = {q}
  <2>1. CASE m5[c] = {}
    BY <2>1, <1>1
  <2>2. CASE \E q : m5[c] = {q}
    <3>1. PICK q : m5[c] = {q}
      BY <2>2
    <3> QED BY <3>1, <1>1
  <2> QED BY <2>1, <2>2 DEF Rup!IInv
<1> QED BY <1>1, <1>2

\* A process p that has the turn ends, and the turn is its parent's.
LEMMA RupEnd ==
  ASSUME Rup!IInv, NEW p \in Rup!Proc, m2[p] \in Rup!Active, NEW l \in {"gone", "dead"}, m2' = [m2 EXCEPT ![p] = l],
         UNCHANGED m3, m5' = [c \in Client |-> m5'[c]],
         \A c \in Client : m5'[c] = {} \/ \E q : m5'[c] = {q}
  PROVE  Rup!IInv'
<1>1. /\ m2' = [q \in Rup!Proc |-> m2'[q]] /\ m2'[p] = l
      /\ \A q \in Rup!Proc : q # p => m2'[q] = m2[q]
  BY DEF Rup!IInv
<1>2. \A q \in Rup!Proc : m2'[q] \in Rup!Active \cup {"wait", "gone", "dead", "none"}
  BY <1>1 DEF Rup!IInv
<1>4. \A q \in Rup!Proc : m2'[q] = "wait" => q # p /\ m2[q] = "wait"
  BY <1>1
<1>5. \A q \in Rup!Proc : m2'[q] = "wait" => m3[q] \in Rup!Proc /\ m2'[m3[q]] # "none"
  BY <1>1, <1>4 DEF Rup!IInv
<1>6. \A q, r \in Rup!Proc : m2'[q] = "wait" /\ m2'[r] = "wait" /\ m3[q] = m3[r] => q = r
  BY <1>4 DEF Rup!IInv
<1>7. \A q \in Rup!Proc : Rup!Turn(q)' => m2[q] = "wait" /\ m3[q] = p
  <2> SUFFICES ASSUME NEW q \in Rup!Proc, Rup!Turn(q)' PROVE m2[q] = "wait" /\ m3[q] = p
    OBVIOUS
  <2>0. Rup!Turn(p)
    BY DEF Rup!Turn
  <2>1. CASE m2'[q] \in Rup!Active
    <3>1. q # p /\ m2[q] \in Rup!Active
      BY <1>1, <2>1 DEF Rup!Active
    <3> QED BY <3>1, <2>0 DEF Rup!IInv, Rup!Turn
  <2>2. CASE m2'[q] = "wait" /\ m2'[m3'[q]] \in {"gone", "dead"}
    <3>1. m2[q] = "wait" /\ q # p /\ m3[q] \in Rup!Proc /\ m2'[m3[q]] \in {"gone", "dead"}
      BY <2>2, <1>4, <1>5
    <3>2. ASSUME m3[q] # p PROVE FALSE
      <4>1. Rup!Turn(q)
        BY <3>1, <3>2, <1>1 DEF Rup!Turn
      <4> QED BY <4>1, <3>1, <2>0 DEF Rup!IInv
    <3> QED BY <3>1, <3>2
  <2> QED BY <2>1, <2>2 DEF Rup!Turn
<1>8. \A q, r \in Rup!Proc : Rup!Turn(q)' /\ Rup!Turn(r)' => q = r
  BY <1>7 DEF Rup!IInv
<1> QED BY <1>1, <1>2, <1>5, <1>6, <1>8 DEF Rup!IInv

\* The turn goes from p to its new child q.
LEMMA RupFork ==
  ASSUME Rup!IInv, NEW p \in Rup!Proc, NEW q \in Rup!Proc, m2[p] = "serve", m2[q] = "none",
         m2' = [m2 EXCEPT ![p] = "wait", ![q] = "exec"],
         m5' = [m5 EXCEPT ![m3[p]] = {q}],
         m3' = [m3 EXCEPT ![q] = m3[p], ![p] = q]
  PROVE  Rup!IInv'
<1>1. /\ m2' = [r \in Rup!Proc |-> m2'[r]] /\ m2'[p] = "wait" /\ m2'[q] = "exec" /\ p # q
      /\ \A r \in Rup!Proc : r \notin {p, q} => m2'[r] = m2[r]
  BY DEF Rup!IInv
<1>a. /\ m3' = [r \in Rup!Proc |-> m3'[r]] /\ m3'[p] = q
      /\ \A r \in Rup!Proc : r \notin {p, q} => m3'[r] = m3[r]
  BY <1>1 DEF Rup!IInv
<1>2. \A r \in Rup!Proc : m2'[r] \in Rup!Active \cup {"wait", "gone", "dead", "none"}
  BY <1>1 DEF Rup!IInv, Rup!Active
<1>3. \A r \in Rup!Proc : r # p /\ m2'[r] = "wait" =>
         /\ m2[r] = "wait" /\ m3'[r] = m3[r] /\ m3[r] \in Rup!Proc
         /\ m3[r] # q /\ m2[m3[r]] # "none"
  BY <1>1, <1>a DEF Rup!IInv
<1>5. \A r \in Rup!Proc : m2'[r] = "wait" => m3'[r] \in Rup!Proc /\ m2'[m3'[r]] # "none"
  BY <1>1, <1>a, <1>3
<1>6. \A r, s \in Rup!Proc : m2'[r] = "wait" /\ m2'[s] = "wait" /\ m3'[r] = m3'[s] => r = s
  BY <1>3, <1>a DEF Rup!IInv
<1>7. \A r \in Rup!Proc : Rup!Turn(r)' => r = q
  <2> SUFFICES ASSUME NEW r \in Rup!Proc, Rup!Turn(r)', r # q PROVE FALSE
    OBVIOUS
  <2>0. Rup!Turn(p)
    BY DEF Rup!Turn, Rup!Active
  <2>1. CASE r = p
    BY <2>1, <1>1, <1>a DEF Rup!Turn, Rup!Active
  <2>2. CASE r # p /\ m2'[r] \in Rup!Active
    BY <2>2, <2>0, <1>1 DEF Rup!IInv, Rup!Turn
  <2>3. CASE r # p /\ m2'[r] = "wait" /\ m2'[m3'[r]] \in {"gone", "dead"}
    <3>1. m2[m3[r]] \in {"gone", "dead"} /\ m2[r] = "wait"
      <4>1. m3'[r] = m3[r] /\ m3[r] \in Rup!Proc /\ m3[r] # q /\ m2[r] = "wait"
        BY <2>3, <1>3
      <4>2. m3[r] # p
        BY <4>1, <2>3, <1>1
      <4> QED BY <4>1, <4>2, <2>3, <1>1
    <3> QED BY <3>1, <2>3, <2>0 DEF Rup!IInv, Rup!Turn
  <2> QED BY <2>1, <2>2, <2>3 DEF Rup!Turn
<1>8. \A r, s \in Rup!Proc : Rup!Turn(r)' /\ Rup!Turn(s)' => r = s
  BY <1>7
<1>9. m5' = [c \in Client |-> m5'[c]] /\ \A c \in Client : m5'[c] = m5[c] \/ m5'[c] = {q}
  BY DEF Rup!IInv
<1>10. \A c \in Client : m5'[c] = {} \/ \E r : m5'[c] = {r}
  BY <1>9 DEF Rup!IInv
<1> QED BY <1>1, <1>a, <1>2, <1>5, <1>6, <1>8, <1>9, <1>10 DEF Rup!IInv

LEMMA RupStep == ASSUME Rup!IInv, [Rup!Next]_(Rup!vars) PROVE Rup!IInv'
<1>0. ASSUME UNCHANGED <<m2, m3, m5>> PROVE Rup!IInv'
  BY <1>0 DEF Rup!IInv, Rup!Turn
<1>h. m5 = [c \in Client |-> m5[c]] /\ m3 = [q \in Rup!Proc |-> m3[q]]
      /\ \A c \in Client : m5[c] = {} \/ \E q : m5[c] = {q}
  BY DEF Rup!IInv
<1>1. CASE Rup!Start
  <2>1. PICK l \in {"accept", "dead"} : m2' = [m2 EXCEPT ![1] = l]
    BY <1>1 DEF Rup!Start, Rup!ToS
  <2>2. 1 \in Rup!Proc /\ Rup!Turn(1) /\ m2[1] \in Rup!Active /\ UNCHANGED <<m3, m5>>
    BY <1>1, RupAssumption DEF Rup!Start, Rup!Proc, Rup!Turn, Rup!Active
  <2>3. CASE l = "accept"
    BY <2>1, <2>2, <2>3, <1>h, RupKeep DEF Rup!Active
  <2>4. CASE l = "dead"
    BY <2>1, <2>2, <2>4, <1>h, RupEnd
  <2> QED BY <2>1, <2>3, <2>4
<1>2. ASSUME NEW p \in Rup!Proc, Rup!serve(p) PROVE Rup!IInv'
  <2>1. CASE Rup!Accept(p)
    <3>1. /\ Rup!Turn(p) /\ m2' = [m2 EXCEPT ![p] = "serve"]
      BY <2>1 DEF Rup!Accept, Rup!Turn, Rup!Active, Rup!ToS
    <3>2. m3' = [m3 EXCEPT ![p] = Head(m4)]
      BY <2>1 DEF Rup!Accept
    <3>3. m3' = [q \in Rup!Proc |-> m3'[q]] /\ \A q \in Rup!Proc : q # p => m3'[q] = m3[q]
      BY <3>2, <1>h
    <3>4. m5' = [c \in Client |-> m5'[c]] /\ \A c \in Client : m5'[c] = m5[c] \/ m5'[c] = {p}
      BY <2>1, <1>h DEF Rup!Accept
    <3>5. \A c \in Client : m5'[c] = {} \/ \E q : m5'[c] = {q}
      BY <3>4, <1>h
    <3> QED BY <3>1, <3>3, <3>4, <3>5, RupKeep DEF Rup!Active
  <2>2. CASE Rup!fork(p)
    <3>1. CASE \E q \in Rup!Proc :
          /\ m2[q] = "none" /\ m2' = [m2 EXCEPT ![p] = "wait", ![q] = "exec"]
          /\ m5' = [m5 EXCEPT ![m3[p]] = {q}]
          /\ m3' = [m3 EXCEPT ![q] = m3[p], ![p] = q]
      BY <3>1, <2>2, RupFork DEF Rup!fork
    <3>2. CASE Rup!ToS(p, "dead") /\ m5' = Rup!Closed(p) /\ UNCHANGED m3
      BY <3>2, <2>2, RupClosed, RupEnd DEF Rup!fork, Rup!ToS, Rup!Active
    <3> QED BY <3>1, <3>2, <2>2 DEF Rup!fork
  <2>3. CASE Rup!execl(p)
    <3>1. UNCHANGED m3 /\ m2[p] \in Rup!Active /\ Rup!Turn(p)
      BY <2>3 DEF Rup!execl, Rup!Active, Rup!Turn
    <3>2. CASE Rup!ToS(p, "gone") /\ m5' = Rup!Closed(p)
      BY <3>1, <3>2, RupClosed, RupEnd DEF Rup!ToS
    <3>3. CASE Rup!ToS(p, "accept") /\ UNCHANGED m5
      BY <3>1, <3>3, <1>h, RupKeep DEF Rup!ToS, Rup!Active
    <3> QED BY <3>2, <3>3, <2>3 DEF Rup!execl
  <2>4. CASE Rup!waitpid(p)
    <3>1. Rup!Turn(p) /\ UNCHANGED <<m3, m5>> /\ m2' = [m2 EXCEPT ![p] = "accept"]
      BY <2>4 DEF Rup!waitpid, Rup!Turn, Rup!ToS
    <3> QED BY <3>1, <1>h, RupKeep DEF Rup!Active
  <2>5. CASE Rup!popen(p)
    <3>1. Rup!Turn(p) /\ UNCHANGED m3 /\ m2' = [m2 EXCEPT ![p] = "accept"] /\ m5' = Rup!Closed(p)
      BY <2>5 DEF Rup!popen, Rup!Turn, Rup!ToS, Rup!Active
    <3> QED BY <3>1, <1>h, RupClosed, RupKeep DEF Rup!Active
  <2>6. CASE Rup!sendto(p)
    <3>1. Rup!Turn(p) /\ UNCHANGED <<m3, m5>> /\ m2' = [m2 EXCEPT ![p] = "accept"]
      BY <2>6 DEF Rup!sendto, Rup!Turn, Rup!ToS, Rup!Active
    <3> QED BY <3>1, <1>h, RupKeep DEF Rup!Active
  <2> QED BY <1>2, <2>1, <2>2, <2>3, <2>4, <2>5, <2>6 DEF Rup!serve
<1>3. ASSUME NEW c \in Client, Rup!Use(c) \/ Rup!sigalrm(c) PROVE Rup!IInv'
  BY <1>3, <1>0 DEF Rup!Use, Rup!sigalrm, Rup!connect_retry, Rup!recv, Rup!Ask, Rup!recvfrom
<1>4. CASE Rup!Idle \/ UNCHANGED Rup!vars
  BY <1>4, <1>0 DEF Rup!Idle, Rup!vars
<1> QED BY <1>1, <1>2, <1>3, <1>4 DEF Rup!Next

LEMMA RupCard == \A S : Rup!Cardinality(S) = Cardinality(S)
  BY DEF Rup!Cardinality, Cardinality

LEMMA RupServes == Rup!IInv => Rup!OneServes
<1> SUFFICES ASSUME Rup!IInv PROVE Rup!OneServes
  OBVIOUS
<1>1. ASSUME NEW p \in Rup!Proc, NEW q \in Rup!Proc, {m2[p], m2[q]} \subseteq {"main", "accept", "serve", "exec"} PROVE p = q
  BY <1>1 DEF Rup!IInv, Rup!Turn, Rup!Active
<1>2. ASSUME NEW c \in Client PROVE Cardinality(m5[c]) <= 1
  <2>1. CASE m5[c] = {}
    BY <2>1, FS_EmptySet
  <2>2. CASE \E q : m5[c] = {q}
    BY <2>2, FS_Singleton
  <2> QED BY <2>1, <2>2 DEF Rup!IInv
<1> QED BY <1>1, <1>2, RupCard DEF Rup!OneServes

-----------------------------------------------------------------------------
(* Ssl is SslFile: files sent over TLS.                                    *)
(*                                                                         *)
(* m1 SMODE, m2 CMODE, m3 smode, m4 cmode, m5 scert, m6 cert, m7 spc,      *)
(* m8 cur, m9 file, m10 pos, m11 disk, m12 cpc, m13 name, m14 rest,        *)
(* m15 conn, m16 failed.                                                   *)

LEMMA SslInit == Ssl!Init => Ssl!IInv
<1> SUFFICES ASSUME Ssl!Init PROVE Ssl!IInv
  OBVIOUS
<1>1. m14 = [c \in Client |-> NChunks[c]] /\ \A c \in Client : NChunks[c] \in Nat
  BY SslAssumption DEF Ssl!Init
<1>2. Ssl!TypeOK /\ \A n \in Name : 1..Len(m11[n]) = {}
  BY <1>1 DEF Ssl!Init, Ssl!TypeOK
<1>3. \A c \in Client : Ssl!Quiet(c)
  BY DEF Ssl!Init, Ssl!Quiet
<1>4. m16 = {} /\ m7 = "accept"
  BY DEF Ssl!Init
<1> QED BY <1>2, <1>3, <1>4 DEF Ssl!IInv, Ssl!OnDisk

\* Who is admitted is decided by modes and certificates.
LEMMA SslKept ==
  ASSUME Ssl!IInv, UNCHANGED Ssl!modes
  PROVE  Ssl!Admitted' = Ssl!Admitted /\ (UNCHANGED m11 => Ssl!OnDisk')
<1>1. \A c \in Client : Ssl!Handshake(c)' = Ssl!Handshake(c)
  BY DEF Ssl!modes, Ssl!Handshake, Ssl!ServerAccepts, Ssl!ClientAccepts
<1>2. Ssl!Admitted' = Ssl!Admitted
  BY <1>1 DEF Ssl!Admitted
<1> QED BY <1>2 DEF Ssl!IInv, Ssl!OnDisk

LEMMA SslConnect == ASSUME Ssl!IInv, NEW c \in Client, Ssl!Connect(c) PROVE Ssl!IInv'
<1>1. /\ m12[c] = "start" /\ m7 # "exit" /\ m12' = [m12 EXCEPT ![c] = "connected"]
      /\ UNCHANGED Ssl!modes /\ UNCHANGED <<m11, m13, m7, m8, m9, m10, m14, m15, m16>>
  BY DEF Ssl!Connect, Ssl!server
<1>2. Ssl!TypeOK' /\ m12'[c] = "connected" /\ \A d \in Client : d # c => m12'[d] = m12[d]
  BY <1>1 DEF Ssl!IInv, Ssl!TypeOK
<1>6. c \notin m16 /\ \A d \in m16 : m15'[d] = <<>> /\ m12'[d] = m12[d]
  <2>1. c \notin m16
    BY <1>1 DEF Ssl!IInv
  <2>2. m16 \subseteq Client
    BY DEF Ssl!IInv, Ssl!TypeOK
  <2> QED BY <2>1, <2>2, <1>1, <1>2 DEF Ssl!IInv
<1>3. m7 # "accept" => c # m8
  BY <1>1, <1>6 DEF Ssl!IInv, Ssl!Sending
<1>4. m7 # "accept" => m8 \in Client /\ (m8 \in m16 \/ Ssl!Sending')
  <2> SUFFICES ASSUME m7 # "accept", m8 \notin m16 PROVE m8 \in Client /\ Ssl!Sending'
    BY <1>1 DEF Ssl!IInv
  <2>1. Ssl!Sending /\ m8 \in Client /\ m12'[m8] = m12[m8]
    BY <1>1, <1>2, <1>3 DEF Ssl!IInv, Ssl!Sending, Ssl!Admitted
  <2> QED BY <2>1, <1>1, SslKept DEF Ssl!Sending
<1>5. \A d \in Client : Ssl!Quiet(d)'
  BY <1>1, <1>2, <1>3 DEF Ssl!IInv, Ssl!Quiet
<1> QED BY <1>1, <1>2, <1>4, <1>5, <1>6, SslKept DEF Ssl!IInv

LEMMA SslAccept == ASSUME Ssl!IInv, NEW c \in Client, Ssl!Accept(c) PROVE Ssl!IInv'
<1>1. /\ m7 = "accept" /\ m12[c] = "connected" /\ m8' = c /\ m12' = [m12 EXCEPT ![c] = "name"]
      /\ UNCHANGED Ssl!modes /\ UNCHANGED <<m11, m13, m9, m10, m14, m15>>
      /\ m16' = m16 \/ m16' = m16 \cup {c}
  BY DEF Ssl!Accept
<1>2. Ssl!TypeOK' /\ m12'[c] = "name" /\ \A d \in Client : d # c => m12'[d] = m12[d]
  BY <1>1 DEF Ssl!IInv, Ssl!TypeOK
<1>c. m15[c] = <<>> /\ m14[c] = NChunks[c] /\ c \notin m16
  BY <1>1 DEF Ssl!IInv, Ssl!Quiet
<1>f. \A d \in m16' : m15'[d] = <<>> /\ m12'[d] \in {"name", "data", "done", "killed"}
  <2>1. m16 \subseteq Client
    BY DEF Ssl!IInv, Ssl!TypeOK
  <2>2. \A d \in m16 : m15[d] = <<>> /\ m12[d] \in {"name", "data", "done", "killed"}
    BY <1>1 DEF Ssl!IInv
  <2> QED BY <2>1, <2>2, <1>1, <1>2, <1>c
<1>3. CASE Ssl!Handshake(c) /\ m7' = "name" /\ UNCHANGED m16
  <2>1. c \in Ssl!Admitted
    BY <1>3 DEF Ssl!Admitted
  <2>3. Ssl!Sending'
    BY <2>1, <1>c, <1>1, <1>2, <1>3, SslKept DEF Ssl!Sending
  <2>4. \A d \in Client : Ssl!Quiet(d)'
    BY <1>1, <1>2, <1>3 DEF Ssl!IInv, Ssl!Quiet
  <2> QED BY <1>1, <1>2, <1>3, <1>f, <2>3, <2>4, SslKept DEF Ssl!IInv
<1>4. CASE m7' \in {"exit", "name"} /\ m16' = m16 \cup {c}
  <2>1. \A d \in Client : Ssl!Quiet(d)'
    BY <1>1, <1>2, <1>4 DEF Ssl!IInv, Ssl!Quiet
  <2> QED BY <1>1, <1>2, <1>4, <1>f, <2>1, SslKept DEF Ssl!IInv
<1> QED BY <1>3, <1>4 DEF Ssl!Accept

LEMMA SslKill == ASSUME Ssl!IInv, NEW c \in Client, Ssl!Kill(c) PROVE Ssl!IInv'
<1>1. /\ m12[c] \in {"name", "data"} /\ m12' = [m12 EXCEPT ![c] = "killed"]
      /\ UNCHANGED Ssl!modes /\ UNCHANGED <<m11, m13, m7, m8, m9, m10, m14, m15, m16>>
  BY DEF Ssl!Kill, Ssl!server
<1>2. Ssl!TypeOK' /\ m12'[c] = "killed" /\ \A d \in Client : d # c => m12'[d] = m12[d]
  BY <1>1 DEF Ssl!IInv, Ssl!TypeOK
<1>3. m7 # "exit" /\ c \notin m16 => m7 # "accept" /\ c = m8 /\ Ssl!Sending
  BY <1>1 DEF Ssl!IInv, Ssl!Quiet
<1>6. m7 # "exit" => \A d \in m16 : m15'[d] = <<>> /\ m12'[d] \in {"name", "data", "done", "killed"}
  <2>1. m16 \subseteq Client
    BY DEF Ssl!IInv, Ssl!TypeOK
  <2> QED BY <2>1, <1>1, <1>2 DEF Ssl!IInv
<1>4. m7 # "exit" /\ m7 # "accept" => m8 \in Client /\ (m8 \in m16 \/ Ssl!Sending')
  <2> SUFFICES ASSUME m7 # "exit", m7 # "accept", m8 \notin m16 PROVE m8 \in Client /\ Ssl!Sending'
    BY <1>1 DEF Ssl!IInv
  <2>1. Ssl!Sending /\ m8 \in Client
    BY DEF Ssl!IInv
  <2>2. CASE c = m8
    BY <2>1, <2>2, <1>1, <1>2, SslKept DEF Ssl!Sending
  <2>3. CASE c # m8
    <3>1. m12'[m8] = m12[m8]
      BY <2>1, <2>3, <1>2
    <3> QED BY <2>1, <3>1, <1>1, SslKept DEF Ssl!Sending
  <2> QED BY <2>2, <2>3
<1>5. m7 # "exit" => \A d \in Client : Ssl!Quiet(d)'
  BY <1>1, <1>2 DEF Ssl!IInv, Ssl!Quiet
<1> QED BY <1>1, <1>2, <1>4, <1>5, <1>6, SslKept DEF Ssl!IInv

LEMMA SslWrite == ASSUME Ssl!IInv, NEW c \in Client, Ssl!Write(c) PROVE Ssl!IInv'
<1> DEFINE s == m15[c]
<1>1. /\ UNCHANGED Ssl!modes /\ UNCHANGED <<m11, m13, m7, m8, m9, m10, m16>>
  BY DEF Ssl!Write, Ssl!server
<1>t. /\ s \in Seq(Ssl!Record) /\ m14[c] \in Nat /\ NChunks[c] \in Nat /\ m13[c] \in Ssl!Record /\ Len(s) \in Nat
      /\ m14 \in [Client -> Nat] /\ m14[c] <= NChunks[c] /\ m12 = [m12 EXCEPT ![c] = m12[c]]
  <2>1. /\ s \in Seq(Ssl!Record) /\ m14[c] \in Nat /\ NChunks[c] \in Nat /\ m13[c] \in Name
        /\ m14 \in [Client -> Nat] /\ m14[c] <= NChunks[c]
    BY SslAssumption DEF Ssl!IInv, Ssl!TypeOK
  <2>2. m12 = [m12 EXCEPT ![c] = m12[c]]
    BY DEF Ssl!IInv, Ssl!TypeOK
  <2>3. m13[c] \in Ssl!Record /\ Len(s) \in Nat
    BY <2>1 DEF Ssl!Record
  <2> QED BY <2>1, <2>2, <2>3
<1>2. m12[c] \in {"name", "data"}
  BY DEF Ssl!Write
<1>3. m7 # "exit" /\ c \notin m16 => m7 # "accept" /\ c = m8 /\ Ssl!Sending
  BY <1>2 DEF Ssl!IInv, Ssl!Quiet
<1>8. m16 \subseteq Client
  BY DEF Ssl!IInv, Ssl!TypeOK
\* A client without a connection sends nothing.
<1>9. ASSUME c \in m16, NEW l \in {"data", "done"}, m12' = [m12 EXCEPT ![c] = l],
             UNCHANGED m15, m14' \in [Client -> Nat],
             \A d \in Client : m14'[d] <= NChunks[d] /\ (d # c => m14'[d] = m14[d])
      PROVE  Ssl!IInv'
  <2>1. /\ m12' = [d \in Client |-> m12'[d]] /\ m12'[c] = l /\ \A d \in Client : d # c => m12'[d] = m12[d]
    BY <1>9 DEF Ssl!IInv, Ssl!TypeOK
  <2>2. Ssl!TypeOK'
    BY <1>1, <1>9, <2>1 DEF Ssl!IInv, Ssl!TypeOK
  <2>3. m7 # "exit" => \A d \in m16 : m15'[d] = <<>> /\ m12'[d] \in {"name", "data", "done", "killed"}
    BY <2>1, <1>8, <1>9 DEF Ssl!IInv
  <2>4. m7 # "exit" => \A d \in Client : Ssl!Quiet(d)'
    BY <1>1, <1>9, <2>1 DEF Ssl!IInv, Ssl!Quiet
  <2>5. ASSUME m7 # "exit", m7 # "accept", m8 \notin m16 PROVE m8 \in Client /\ Ssl!Sending'
    <3>1. Ssl!Sending /\ m8 \in Client /\ m8 # c
      BY <2>5, <1>9 DEF Ssl!IInv
    <3>2. m12'[m8] = m12[m8] /\ m14'[m8] = m14[m8]
      BY <3>1, <2>1, <1>9
    <3> QED BY <3>1, <3>2, <1>1, <1>9, SslKept DEF Ssl!Sending
  <2>6. m7 # "exit" /\ m7 # "accept" => m8 \in Client
    BY DEF Ssl!IInv
  <2> QED BY <1>1, <2>2, <2>3, <2>4, <2>5, <2>6, SslKept DEF Ssl!IInv
\* What is left to show once the record r is sent, and the chunks left are n.
<1>4. ASSUME NEW r \in Ssl!Record, NEW n \in Nat, n <= NChunks[c], NEW l \in {"data", "done"}, m15' = Ssl!Sent(c, r),
             m14' = [m14 EXCEPT ![c] = n], m12' = [m12 EXCEPT ![c] = l],
             m7 # "exit" /\ c \notin m16 /\ m15'[c] = Append(s, r) /\ m12'[c] = l /\ m14'[c] = n => Ssl!Sending'
      PROVE  Ssl!IInv'
  <2>1. /\ m12' = [d \in Client |-> m12'[d]] /\ m12'[c] = l /\ \A d \in Client : d # c => m12'[d] = m12[d]
    BY <1>4 DEF Ssl!IInv, Ssl!TypeOK
  <2>2. /\ m14' \in [Client -> Nat] /\ m14'[c] = n /\ \A d \in Client : d # c => m14'[d] = m14[d]
        /\ \A d \in Client : m14'[d] <= NChunks[d]
    BY <1>4 DEF Ssl!IInv, Ssl!TypeOK
  <2>3. Append(s, r) \in Seq(Ssl!Record)
    BY <1>4, <1>t
  <2>4. /\ m15' \in [Client -> Seq(Ssl!Record)]
        /\ \A d \in Client : d # c => m15'[d] = m15[d]
        /\ c \notin m16 => m15'[c] = Append(s, r)
    BY <1>4, <2>3 DEF Ssl!Sent, Ssl!IInv, Ssl!TypeOK
  <2>8. CASE c \in m16
    <3>1. UNCHANGED m15
      BY <2>8, <1>4 DEF Ssl!Sent
    <3> QED BY <3>1, <2>2, <2>8, <1>4, <1>9
  <2>9. CASE c \notin m16
    <3>5. m7 # "exit" => Ssl!Sending' /\ m8 \in Client
      BY <2>1, <2>2, <2>4, <2>9, <1>3, <1>4
    <3>6. m7 # "exit" => \A d \in Client : Ssl!Quiet(d)'
      BY <2>1, <2>2, <2>4, <2>9, <1>1, <1>3 DEF Ssl!IInv, Ssl!Quiet
    <3>7. Ssl!TypeOK'
      BY <1>1, <2>1, <2>2, <2>4 DEF Ssl!IInv, Ssl!TypeOK
    <3>8. m7 # "exit" => \A d \in m16 : m15'[d] = <<>> /\ m12'[d] \in {"name", "data", "done", "killed"}
      BY <2>1, <2>4, <2>9, <1>8 DEF Ssl!IInv
    <3> QED BY <1>1, <1>3, <3>5, <3>6, <3>7, <3>8, SslKept DEF Ssl!IInv
  <2> QED BY <2>8, <2>9
<1>5. CASE m12[c] = "name" /\ m12' = [m12 EXCEPT ![c] = "data"] /\ m15' = Ssl!Sent(c, m13[c]) /\ UNCHANGED m14
  <2>1. m14' = [m14 EXCEPT ![c] = m14[c]]
    BY <1>5, <1>t
  <2>2. ASSUME m7 # "exit", c \notin m16, m15'[c] = Append(s, m13[c]), m12'[c] = "data", m14'[c] = m14[c] PROVE Ssl!Sending'
    <3>1. m7 = "name" /\ s = <<>> /\ m14[c] = NChunks[c] /\ c = m8 /\ m8 \in Ssl!Admitted
      BY <2>2, <1>3, <1>5 DEF Ssl!Sending, Ssl!IInv
    <3>2. m15'[c] # <<>> /\ m15'[c][1] = m13[c] /\ Len(m15'[c]) = 1
      BY <2>2, <3>1
    <3>3. 2..Len(m15'[c]) = {} /\ Len(m15'[c]) + m14'[c] = NChunks[c] + 1
      BY <3>1, <3>2, <2>2, <1>t
    <3> QED BY <2>2, <3>1, <3>2, <3>3, <1>1, SslKept DEF Ssl!Sending
  <2> QED BY <2>1, <2>2, <1>4, <1>5, <1>t
<1>6. CASE /\ m12[c] = "data" /\ m14[c] > 0
           /\ m15' = Ssl!Sent(c, <<c, NChunks[c] - m14[c] + 1>>)
           /\ m14' = [m14 EXCEPT ![c] = m14[c] - 1] /\ UNCHANGED m12
  <2> DEFINE at == NChunks[c] - m14[c] + 1
  <2> DEFINE r == <<c, at>>
  <2>0. /\ at \in Nat /\ m14[c] - 1 \in Nat /\ m14[c] - 1 <= NChunks[c]
        /\ m12' = [m12 EXCEPT ![c] = "data"]
    BY <1>6, <1>t
  <2>r. r \in Ssl!Record
    BY <2>0 DEF Ssl!Record
  <2>1. ASSUME m7 # "exit", c \notin m16, m15'[c] = Append(s, r), m12'[c] = "data", m14'[c] = m14[c] - 1 PROVE Ssl!Sending'
    <3>0. c = m8 /\ Ssl!Sending /\ m12[c] = "data" /\ m7 \in {"name", "data"}
      BY <2>1, <1>3, <1>6 DEF Ssl!IInv
    <3>L. PICK L \in Nat : L = Len(s)
      BY <1>t
    <3>1. /\ Len(m15'[c]) = L + 1 /\ m15'[c][L + 1] = r /\ m15'[c] # <<>>
          /\ \A k \in 1..L : m15'[c][k] = s[k]
      <4>1. PICK x : x = r
        OBVIOUS
      <4>2. PICK t : t = Append(s, x)
        OBVIOUS
      <4> HIDE DEF r, s
      <4>3. x \in Ssl!Record /\ s \in Seq(Ssl!Record)
        BY <4>1, <2>r, <1>t
      <4>4. Len(t) = L + 1 /\ t[L + 1] = x /\ t # <<>> /\ \A k \in 1..L : t[k] = s[k]
        BY <4>2, <4>3, <3>L
      <4>5. m15'[c] = t
        BY <2>1, <4>1, <4>2
      <4> QED BY <4>1, <4>4, <4>5
    <3> HIDE DEF s
    <3>2. CASE m7 = "name"
      <4>1. /\ s # <<>> /\ s[1] = m13[c] /\ \A k \in 2..L : s[k] = <<c, k - 1>>
            /\ L + m14[c] = NChunks[c] + 1
        BY <3>0, <3>2, <3>L DEF Ssl!Sending, s
      <4>2. L >= 1
        BY <4>1, <3>L, <1>t DEF s
      <4>3. at = L
        BY <4>1, <1>t
      <4>4. \A k \in 2..(L + 1) : m15'[c][k] = <<c, k - 1>>
        <5> SUFFICES ASSUME NEW k \in 2..(L + 1) PROVE m15'[c][k] = <<c, k - 1>>
          OBVIOUS
        <5>1. CASE k = L + 1
          BY <5>1, <3>1, <4>3
        <5>2. CASE k # L + 1
          <6>1. k \in 1..L /\ k \in 2..L
            BY <5>2
          <6> QED BY <6>1, <3>1, <4>1
        <5> QED BY <5>1, <5>2
      <4>5. (L + 1) + (m14[c] - 1) = NChunks[c] + 1
        BY <4>1, <1>t
      <4>6. 1 \in 1..L
        BY <4>2
      <4>7. m15'[c][1] = m13[c]
        BY <4>1, <4>6, <3>1
      <4> QED BY <4>4, <4>5, <4>7, <3>0, <3>1, <3>2, <2>1, <1>1, SslKept DEF Ssl!Sending
    <3>3. CASE m7 = "data"
      <4>1. /\ \A k \in 1..L : s[k] = <<c, m10 + k>>
            /\ m10 + L + m14[c] = NChunks[c] /\ m10 \in Nat
        BY <3>0, <3>3, <3>L DEF Ssl!Sending, s
      <4>3. at = m10 + (L + 1)
        BY <4>1, <1>t
      <4>4. \A k \in 1..(L + 1) : m15'[c][k] = <<c, m10 + k>>
        <5> SUFFICES ASSUME NEW k \in 1..(L + 1) PROVE m15'[c][k] = <<c, m10 + k>>
          OBVIOUS
        <5>1. CASE k = L + 1
          BY <5>1, <3>1, <4>3
        <5>2. CASE k # L + 1
          <6>1. k \in 1..L
            BY <5>2
          <6> QED BY <6>1, <3>1, <4>1
        <5> QED BY <5>1, <5>2
      <4>5. m10 + (L + 1) + (m14[c] - 1) = NChunks[c]
        BY <4>1, <1>t
      <4> QED BY <4>4, <4>5, <3>0, <3>1, <3>3, <2>1, <1>1, SslKept DEF Ssl!Sending
    <3> QED BY <3>0, <3>2, <3>3
  <2> QED BY <2>0, <2>r, <2>1, <1>4, <1>6
<1>7. CASE m12[c] = "data" /\ m14[c] = 0 /\ m12' = [m12 EXCEPT ![c] = "done"] /\ UNCHANGED <<m15, m14>>
  <2>2. Ssl!TypeOK' /\ m12'[c] = "done" /\ \A d \in Client : d # c => m12'[d] = m12[d]
    BY <1>1, <1>7 DEF Ssl!IInv, Ssl!TypeOK
  <2>3. CASE c \in m16
    <3>1. m14' \in [Client -> Nat] /\ \A d \in Client : m14'[d] <= NChunks[d] /\ m14'[d] = m14[d]
      BY <1>7 DEF Ssl!IInv, Ssl!TypeOK
    <3> QED BY <3>1, <2>3, <1>7, <1>9
  <2>4. CASE c \notin m16
    <3>1. m7 # "exit" => Ssl!Sending' /\ m8 \in Client
      BY <1>1, <2>2, <2>4, <1>3, <1>7, SslKept DEF Ssl!Sending
    <3>2. m7 # "exit" => \A d \in Client : Ssl!Quiet(d)'
      BY <1>1, <2>2, <2>4, <1>3, <1>7 DEF Ssl!IInv, Ssl!Quiet
    <3>3. m7 # "exit" => \A d \in m16 : m15'[d] = <<>> /\ m12'[d] \in {"name", "data", "done", "killed"}
      BY <2>2, <2>4, <1>7, <1>8 DEF Ssl!IInv
    <3> QED BY <1>1, <1>3, <2>2, <2>4, <3>1, <3>2, <3>3, SslKept DEF Ssl!IInv
  <2> QED BY <2>3, <2>4
<1> QED BY <1>5, <1>6, <1>7 DEF Ssl!Write

\* The first record not yet read is read.
LEMMA SslTail ==
  ASSUME Ssl!IInv, m8 \in Client, m15[m8] # <<>>, m15' = [m15 EXCEPT ![m8] = Tail(m15[m8])]
  PROVE  \E L \in Nat : /\ Len(m15[m8]) = L + 1 /\ Head(m15[m8]) = m15[m8][1]
                        /\ Len(m15'[m8]) = L /\ \A k \in 1..L : m15'[m8][k] = m15[m8][k + 1]
                        /\ m15' \in [Client -> Seq(Ssl!Record)] /\ \A d \in Client : d # m8 => m15'[d] = m15[d]
<1>1. m15 \in [Client -> Seq(Ssl!Record)] /\ m15[m8] \in Seq(Ssl!Record)
  BY DEF Ssl!IInv, Ssl!TypeOK
<1>2. Len(m15[m8]) \in Nat \ {0} /\ Tail(m15[m8]) \in Seq(Ssl!Record)
  BY <1>1
<1>3. /\ m15'[m8] = Tail(m15[m8]) /\ m15' \in [Client -> Seq(Ssl!Record)] /\ \A d \in Client : d # m8 => m15'[d] = m15[d]
  BY <1>1, <1>2
<1>4. PICK L \in Nat : Len(m15[m8]) = L + 1
  <2>1. \A m \in Nat \ {0} : m - 1 \in Nat /\ m = (m - 1) + 1
    OBVIOUS
  <2> QED BY <2>1, <1>2
<1>5. Len(m15'[m8]) = L /\ \A k \in 1..L : m15'[m8][k] = m15[m8][k + 1]
  BY <1>1, <1>2, <1>3, <1>4
<1> QED BY <1>3, <1>4, <1>5

\* A client that is still to be read from is one that was admitted.
LEMMA SslReading == ASSUME Ssl!IInv, m7 \in {"name", "data"}, m15[m8] # <<>> PROVE Ssl!Sending /\ m8 \notin m16
BY DEF Ssl!IInv

LEMMA SslReadName == ASSUME Ssl!IInv, Ssl!ReadName PROVE Ssl!IInv'
<1>1. /\ UNCHANGED Ssl!modes /\ UNCHANGED <<m11, m13, m8, m12, m14, m16>> /\ m7 = "name" /\ m8 \in Client
  BY DEF Ssl!ReadName, Ssl!client, Ssl!IInv
<1>t. m14[m8] \in Nat /\ NChunks[m8] \in Nat /\ m13[m8] \in Name /\ Len(m11[m13[m8]]) \in Nat
  BY <1>1, SslAssumption DEF Ssl!IInv, Ssl!TypeOK
<1>f. ASSUME \A d \in Client : d = m8 \/ m15'[d] = m15[d], m8 \in m16 => m15'[m8] = m15[m8]
      PROVE  \A d \in m16 : m15'[d] = <<>> /\ m12'[d] \in {"name", "data", "done", "killed"}
  <2>1. m16 \subseteq Client
    BY DEF Ssl!IInv, Ssl!TypeOK
  <2> QED BY <2>1, <1>1, <1>f DEF Ssl!IInv
<1>3. CASE /\ m15[m8] # <<>> /\ m9' \in {Head(m15[m8]), NoName} /\ m10' = 0
           /\ m15' = [m15 EXCEPT ![m8] = Tail(m15[m8])] /\ m7' = "data"
  <2>0. Ssl!Sending /\ m8 \notin m16
    BY <1>1, <1>3, SslReading
  <2>1. /\ m15[m8][1] = m13[m8] /\ m12[m8] # "name" /\ \A k \in 2..Len(m15[m8]) : m15[m8][k] = <<m8, k - 1>>
        /\ Len(m15[m8]) + m14[m8] = NChunks[m8] + 1
    BY <1>1, <2>0, <1>3 DEF Ssl!Sending
  <2>2. PICK L \in Nat : /\ Len(m15[m8]) = L + 1 /\ Head(m15[m8]) = m15[m8][1]
                         /\ Len(m15'[m8]) = L /\ \A k \in 1..L : m15'[m8][k] = m15[m8][k + 1]
                         /\ m15' \in [Client -> Seq(Ssl!Record)] /\ \A d \in Client : d # m8 => m15'[d] = m15[d]
    BY <1>1, <1>3, SslTail
  <2>5. \A k \in 1..L : m15'[m8][k] = <<m8, 0 + k>>
    <3> SUFFICES ASSUME NEW k \in 1..L PROVE m15'[m8][k] = <<m8, 0 + k>>
      OBVIOUS
    <3>1. k + 1 \in 2..(L + 1) /\ (k + 1) - 1 = 0 + k
      OBVIOUS
    <3> QED BY <3>1, <2>1, <2>2
  <2>6. 0 + L + m14[m8] = NChunks[m8]
    <3>1. (L + 1) + m14[m8] = NChunks[m8] + 1
      BY <2>1, <2>2
    <3> QED BY <3>1, <1>t
  <2>7. Ssl!Sending'
    <3>1. m9' = m13[m8] \/ m9' = NoName
      BY <1>3, <2>1, <2>2
    <3> QED BY <3>1, <2>0, <2>1, <2>2, <2>5, <2>6, <1>1, <1>3, <1>t, SslKept DEF Ssl!Sending
  <2>8. \A d \in Client : Ssl!Quiet(d)'
    BY <1>1, <1>3, <2>2 DEF Ssl!IInv, Ssl!Quiet
  <2>9. Ssl!TypeOK'
    BY <1>1, <2>2 DEF Ssl!IInv, Ssl!TypeOK
  <2> QED BY <1>1, <1>3, <1>f, <2>0, <2>2, <2>7, <2>8, <2>9, SslKept DEF Ssl!IInv
<1>4. CASE m7' = "exit" /\ UNCHANGED m15
  <2>1. Ssl!TypeOK'
    BY <1>1, <1>4 DEF Ssl!IInv, Ssl!TypeOK
  <2> QED BY <2>1, <1>1, <1>4, SslKept DEF Ssl!IInv
<1>5. CASE Ssl!Ended(m8) /\ m9' = NoName /\ m10' = 0 /\ m7' = "data" /\ UNCHANGED m15
  <2>1. Ssl!TypeOK' /\ m15[m8] = <<>>
    BY <1>1, <1>5 DEF Ssl!IInv, Ssl!TypeOK, Ssl!Ended, Ssl!Cut
  <2>2. \A d \in Client : Ssl!Quiet(d)'
    BY <1>1, <1>5 DEF Ssl!IInv, Ssl!Quiet
  <2>3. ASSUME m8 \notin m16 PROVE Ssl!Sending'
    <3>1. Ssl!Sending /\ m12[m8] # "name" /\ m14[m8] = NChunks[m8]
      BY <2>1, <2>3, <1>1, <1>5 DEF Ssl!IInv, Ssl!Sending, Ssl!Ended, Ssl!Cut
    <3>2. 1..Len(m15[m8]) = {} /\ 0 + Len(m15[m8]) + m14[m8] = NChunks[m8]
      BY <2>1, <3>1, <1>t
    <3>3. 0 \in 0..Len(m11[m13[m8]])
      BY <1>t
    <3> QED BY <3>1, <3>2, <3>3, <1>1, <1>5, SslKept DEF Ssl!Sending
  <2> QED BY <1>1, <1>5, <1>f, <2>1, <2>2, <2>3, SslKept DEF Ssl!IInv
<1> QED BY <1>3, <1>4, <1>5 DEF Ssl!ReadName

LEMMA SslReadData == ASSUME Ssl!IInv, Ssl!ReadData PROVE Ssl!IInv'
<1>1. /\ UNCHANGED Ssl!modes /\ UNCHANGED <<m13, m12, m14, m16>> /\ m7 = "data" /\ m8 \in Client
  BY DEF Ssl!ReadData, Ssl!client, Ssl!IInv
<1>t. /\ m14[m8] \in Nat /\ NChunks[m8] \in Nat /\ m13[m8] \in Name
      /\ m11[m13[m8]] \in Seq(Client \X Nat) /\ Len(m11[m13[m8]]) \in Nat
  BY <1>1, SslAssumption DEF Ssl!IInv, Ssl!TypeOK
<1>f. ASSUME \A d \in Client : d = m8 \/ m15'[d] = m15[d], m8 \in m16 => m15'[m8] = m15[m8]
      PROVE  \A d \in m16 : m15'[d] = <<>> /\ m12'[d] \in {"name", "data", "done", "killed"}
  <2>1. m16 \subseteq Client
    BY DEF Ssl!IInv, Ssl!TypeOK
  <2> QED BY <2>1, <1>1, <1>f DEF Ssl!IInv
<1>3. CASE /\ m15[m8] # <<>> /\ m9 # NoName /\ m10' = m10 + 1
           /\ m11' = [m11 EXCEPT ![m9] = Ssl!Overlay(m11[m9], m10 + 1, Head(m15[m8]))]
           /\ m15' = [m15 EXCEPT ![m8] = Tail(m15[m8])] /\ UNCHANGED <<m7, m9, m8>>
  <2>0. m8 \notin m16
    BY <1>1, <1>3, SslReading
  <2>s. /\ m9 = m13[m8] /\ m10 \in 0..Len(m11[m9]) /\ m12[m8] # "name"
        /\ \A k \in 1..Len(m15[m8]) : m15[m8][k] = <<m8, m10 + k>>
        /\ m10 + Len(m15[m8]) + m14[m8] = NChunks[m8]
        /\ m8 \in Ssl!Admitted /\ m12[m8] \in {"name", "data", "done", "killed"}
        /\ m12[m8] = "done" => m14[m8] = 0
    BY <1>1, <1>3, SslReading DEF Ssl!Sending
  <2>p. m10 \in Nat
    BY <2>s, <1>t
  <2>2. PICK L \in Nat : /\ Len(m15[m8]) = L + 1 /\ Head(m15[m8]) = m15[m8][1]
                         /\ Len(m15'[m8]) = L /\ \A k \in 1..L : m15'[m8][k] = m15[m8][k + 1]
                         /\ m15' \in [Client -> Seq(Ssl!Record)] /\ \A d \in Client : d # m8 => m15'[d] = m15[d]
    BY <1>1, <1>3, SslTail
  <2> DEFINE x == <<m8, m10 + 1>>
  <2>4. Head(m15[m8]) = x /\ x \in Client \X Nat
    <3>1. 1 \in 1..Len(m15[m8])
      BY <2>2
    <3> QED BY <3>1, <2>2, <2>s, <2>p, <1>1
  <2> DEFINE o == Ssl!Overlay(m11[m9], m10 + 1, x)
  <2>5. PICK n \in Nat : /\ o \in Seq(Client \X Nat) /\ Len(o) = n
                         /\ Len(m11[m9]) <= n /\ m10 + 1 <= n
                         /\ \A k \in 1..n : k # m10 + 1 => k \in 1..Len(m11[m9]) /\ o[k] = m11[m9][k]
                         /\ o[m10 + 1] = x
    <3>1. m11[m9] \in Seq(Client \X Nat) /\ m10 <= Len(m11[m9])
      BY <2>s, <1>t
    <3>2. PICK d : d = m11[m9]
      OBVIOUS
    <3>3. PICK q \in Nat : q = m10 + 1
      BY <2>p
    <3>4. PICK y \in Client \X Nat : y = x
      BY <2>4
    <3>5. PICK z : z = o
      OBVIOUS
    <3>6. d \in Seq(Client \X Nat) /\ q >= 1 /\ q <= Len(d) + 1 /\ Len(d) \in Nat /\ z = Ssl!Overlay(d, q, y)
      BY <3>1, <3>2, <3>3, <3>4, <3>5, <2>p
\* A chunk written at the place of its number.
    <3>7. \E n \in Nat : /\ z \in Seq(Client \X Nat) /\ Len(z) = n /\ Len(d) <= n /\ q <= n
                         /\ \A k \in 1..n : k # q => k \in 1..Len(d) /\ z[k] = d[k]
                         /\ z[q] = y
      <4>1. PICK M \in Nat : M = Len(d)
        BY <3>6
      <4>2. PICK n \in Nat : n = IF q > M THEN q ELSE M
        <5>1. CASE q > M
          BY <5>1
        <5>2. CASE ~ (q > M)
          BY <4>1, <5>2
        <5> QED BY <5>1, <5>2
      <4>3. /\ M <= n /\ q <= n /\ q \in 1..n
            /\ \A k \in 1..n : k # q => k \in 1..M
        BY <3>6, <4>1, <4>2
      <4>4. z = [k \in 1..n |-> IF k = q THEN y ELSE d[k]]
        BY <3>6, <4>1, <4>2 DEF Ssl!Overlay
      <4>5. \A k \in 1..n : k # q => k \in 1..Len(d) /\ z[k] = d[k] /\ d[k] \in Client \X Nat
        BY <3>6, <4>1, <4>3, <4>4
      <4>6. \A k \in 1..n : (IF k = q THEN y ELSE d[k]) \in Client \X Nat
        BY <4>5
      <4>7. z \in [1..n -> Client \X Nat]
        BY <4>4, <4>6
      <4>8. z \in Seq(Client \X Nat) /\ Len(z) = n
        BY <4>7, SeqDef, LenProperties
      <4> QED BY <4>1, <4>3, <4>4, <4>5, <4>8
    <3> QED BY <3>2, <3>3, <3>4, <3>5, <3>7
  <2>6. m11' = [m11 EXCEPT ![m9] = o]
    BY <1>3, <2>4
  <2> HIDE DEF o
  <2>8. \A k \in 1..n : o[k][1] \in Ssl!Admitted /\ o[k][2] = k
    <3> SUFFICES ASSUME NEW k \in 1..n PROVE o[k][1] \in Ssl!Admitted /\ o[k][2] = k
      OBVIOUS
    <3>1. CASE k = m10 + 1
      BY <3>1, <2>5, <2>s
    <3>2. CASE k # m10 + 1
      <4>1. k \in 1..Len(m11[m9]) /\ o[k] = m11[m9][k] /\ m9 \in Name
        BY <3>2, <2>5, <2>s, <1>t
      <4>2. m11[m9][k][1] \in Ssl!Admitted /\ m11[m9][k][2] = k
        BY <4>1 DEF Ssl!IInv, Ssl!OnDisk
      <4> QED BY <4>1, <4>2
    <3> QED BY <3>1, <3>2
  <2>9. /\ m11' \in [Name -> Seq(Client \X Nat)] /\ m11'[m9] = o /\ m9 \in Name
        /\ \A m \in Name : m # m9 => m11'[m] = m11[m]
    BY <2>6, <2>5, <2>s, <1>t DEF Ssl!IInv, Ssl!TypeOK
  <2>10. Ssl!OnDisk'
    <3>1. ASSUME NEW m \in Name, NEW k \in 1..Len(m11'[m]) PROVE m11'[m][k][1] \in Ssl!Admitted /\ m11'[m][k][2] = k
      <4>1. CASE m = m9
        BY <4>1, <2>9, <2>8, <2>5
      <4>2. CASE m # m9
        <5>1. m11'[m] = m11[m] /\ k \in 1..Len(m11[m])
          BY <4>2, <2>9
        <5> QED BY <5>1 DEF Ssl!IInv, Ssl!OnDisk
      <4> QED BY <4>1, <4>2
    <3> QED BY <3>1, <1>1, SslKept DEF Ssl!OnDisk
  <2>11. \A m \in Name : Len(m11[m]) \in Nat /\ Len(m11'[m]) \in Nat /\ Len(m11[m]) <= Len(m11'[m])
    <3> SUFFICES ASSUME NEW m \in Name PROVE Len(m11[m]) \in Nat /\ Len(m11'[m]) \in Nat /\ Len(m11[m]) <= Len(m11'[m])
      OBVIOUS
    <3>1. Len(m11[m]) \in Nat
      BY DEF Ssl!IInv, Ssl!TypeOK
    <3>2. CASE m = m9
      BY <3>1, <3>2, <2>9, <2>5
    <3>3. CASE m # m9
      BY <3>1, <3>3, <2>9
    <3> QED BY <3>2, <3>3
  <2>12. ASSUME NEW e \in Client PROVE Ssl!Quiet(e)'
    <3>1. m13[e] \in Name /\ NChunks[e] \in Nat /\ Ssl!Quiet(e)
      BY SslAssumption, <1>1 DEF Ssl!IInv, Ssl!TypeOK
    <3>2. NChunks[e] <= Len(m11[m13[e]]) => NChunks[e] <= Len(m11'[m13[e]])
      BY <3>1, <2>11
    <3> QED BY <3>1, <3>2, <2>2, <1>1, <1>3 DEF Ssl!Quiet
  <2>13. m10' \in 0..Len(m11'[m9])
    BY <2>9, <2>5, <1>3, <2>p, <2>s
  <2>14. /\ \A k \in 1..L : m15'[m8][k] = <<m8, (m10 + 1) + k>>
         /\ (m10 + 1) + L + m14[m8] = NChunks[m8]
    <3>1. ASSUME NEW k \in 1..L PROVE m15'[m8][k] = <<m8, (m10 + 1) + k>>
      <4>1. k + 1 \in 1..Len(m15[m8]) /\ m10 + (k + 1) = (m10 + 1) + k
        BY <2>2, <2>p
      <4> QED BY <4>1, <2>2, <2>s
    <3>2. (m10 + 1) + L + m14[m8] = NChunks[m8]
      BY <2>2, <2>s, <1>t, <2>p
    <3> QED BY <3>1, <3>2
  <2>15. Ssl!Sending'
    BY <1>1, <2>s, <1>3, <2>2, <2>13, <2>14, SslKept DEF Ssl!Sending
  <2>16. Ssl!TypeOK'
    BY <1>1, <2>2, <2>9 DEF Ssl!IInv, Ssl!TypeOK
  <2> QED BY <1>1, <1>3, <1>f, <2>0, <2>2, <2>10, <2>12, <2>15, <2>16 DEF Ssl!IInv
<1>4. CASE Ssl!Ended(m8) /\ m7' = "accept" /\ UNCHANGED <<m11, m15>>
  <2>1. m15[m8] = <<>>
    BY <1>4 DEF Ssl!Ended, Ssl!Cut
  <2>2. m8 \in m16 \/ m12[m8] = "killed" \/ (m12[m8] = "done" /\ NChunks[m8] <= Len(m11[m13[m8]]))
    <3> SUFFICES ASSUME m8 \notin m16, m12[m8] # "killed"
                 PROVE  m12[m8] = "done" /\ NChunks[m8] <= Len(m11[m13[m8]])
      OBVIOUS
    <3>1. Ssl!Sending /\ m12[m8] = "done"
      BY <1>1, <1>4 DEF Ssl!IInv, Ssl!Ended, Ssl!Cut
    <3>2. /\ m14[m8] = 0 /\ m10 \in 0..Len(m11[m13[m8]])
          /\ m10 + Len(m15[m8]) + m14[m8] = NChunks[m8]
      BY <3>1, <1>1 DEF Ssl!Sending
    <3>3. Len(m15[m8]) = 0
      BY <2>1
    <3> QED BY <3>1, <3>2, <3>3, <1>t
  <2>3. \A d \in Client : Ssl!Quiet(d)'
    BY <2>2, <1>1, <1>4 DEF Ssl!IInv, Ssl!Quiet
  <2>4. Ssl!TypeOK'
    BY <1>1, <1>4 DEF Ssl!IInv, Ssl!TypeOK
  <2> QED BY <1>1, <1>4, <1>f, <2>3, <2>4, SslKept DEF Ssl!IInv
<1>5. CASE m7' = "exit" /\ UNCHANGED <<m11, m15>>
  <2>1. Ssl!TypeOK'
    BY <1>1, <1>5 DEF Ssl!IInv, Ssl!TypeOK
  <2> QED BY <2>1, <1>1, <1>5, SslKept DEF Ssl!IInv
<1> QED BY <1>3, <1>4, <1>5 DEF Ssl!ReadData

LEMMA SslStep == ASSUME Ssl!IInv, [Ssl!Next]_(Ssl!vars) PROVE Ssl!IInv'
<1>1. CASE UNCHANGED Ssl!vars
  <2>1. UNCHANGED Ssl!modes /\ UNCHANGED <<m7, m8, m9, m10, m11, m12, m13, m14, m15, m16>>
    BY <1>1 DEF Ssl!vars, Ssl!modes
  <2>2. Ssl!TypeOK' /\ (Ssl!Sending => Ssl!Sending') /\ \A c \in Client : Ssl!Quiet(c)' = Ssl!Quiet(c)
    BY <2>1, SslKept DEF Ssl!IInv, Ssl!TypeOK, Ssl!Sending, Ssl!Quiet
  <2> QED BY <2>1, <2>2, SslKept DEF Ssl!IInv
<1> QED BY <1>1, SslConnect, SslAccept, SslKill, SslWrite, SslReadName, SslReadData DEF Ssl!Next, Ssl!Server

LEMMA SslServed == Ssl!IInv => Ssl!Authenticated /\ Ssl!Stored
<1> SUFFICES ASSUME Ssl!IInv PROVE Ssl!Authenticated /\ Ssl!Stored
  OBVIOUS
<1>1. ASSUME NEW n \in Name, NEW k \in 1..Len(m11[n]), NEW c, c = m11[n][k][1]
      PROVE  /\ m3 = "fail if no cert" => m6[c] = "good"
             /\ m3 = "peer" => m6[c] # "bad"
             /\ m4 = "peer" => m5 = "good"
  <2>1. Ssl!Handshake(c)
    BY <1>1 DEF Ssl!IInv, Ssl!OnDisk, Ssl!Admitted
  <2> QED BY <2>1 DEF Ssl!Handshake, Ssl!ServerAccepts, Ssl!ClientAccepts
<1>2. ASSUME m7 = "accept", NEW c \in Client, m12[c] = "done", c \notin m16, NEW k \in 1..NChunks[c]
      PROVE  k <= Len(m11[m13[c]]) /\ m11[m13[c]][k][2] = k
  <2>1. m13[c] \in Name /\ NChunks[c] \in Nat /\ Len(m11[m13[c]]) \in Nat
    BY SslAssumption DEF Ssl!IInv, Ssl!TypeOK
  <2>2. NChunks[c] <= Len(m11[m13[c]])
    BY <1>2 DEF Ssl!IInv, Ssl!Quiet
  <2>3. k \in 1..Len(m11[m13[c]])
    BY <2>1, <2>2
  <2> QED BY <2>1, <2>3 DEF Ssl!IInv, Ssl!OnDisk
<1> QED BY <1>1, <1>2 DEF Ssl!Authenticated, Ssl!Stored

-----------------------------------------------------------------------------
(* Ipp is PrinterStatus: the answer of a printer.                          *)
(*                                                                         *)
(* m1 stream, m2 buf, m3 datsz, m4 i, m5 pc, m6 answer, m7 whole.          *)

LEMMA IppInit == Ipp!Init => Ipp!IInv
<1> SUFFICES ASSUME Ipp!Init PROVE Ipp!IInv
  OBVIOUS
<1>1. PICK n \in 0..MaxInfo : m1 = [k \in 1..n |-> "1xx"] \o <<m6.http>> \o Ipp!Header \o Ipp!Body
  BY DEF Ipp!Init
<1>2. n \in Nat
  BY <1>1, IppAssumption
<1> DEFINE a == [k \in 1..n |-> "1xx"]
<1> DEFINE b == a \o <<m6.http>>
<1> DEFINE c == b \o Ipp!Header
<1>3. a \in Seq(Ipp!Word) /\ Len(a) = n /\ \A k \in 1..n : a[k] = "1xx"
  BY <1>2 DEF Ipp!Word
<1>4. m6.http \in Ipp!Word /\ m6 \in [http : {"2xx", "4xx", "bad"}, job : {"mine", "other"}, status : {"ok", "error"}]
  BY DEF Ipp!Init, Ipp!Word
<1>5. Ipp!Header \in Seq(Ipp!Word) /\ Len(Ipp!Header) = 6 /\ Ipp!Body \in Seq(Ipp!Word) /\ Len(Ipp!Body) = 2
  BY DEF Ipp!Header, Ipp!Body, Ipp!Word
<1> HIDE DEF a
<1>6. b \in Seq(Ipp!Word) /\ Len(b) = n + 1 /\ b[n + 1] = m6.http /\ \A k \in 1..n : b[k] = "1xx"
  BY <1>2, <1>3, <1>4
<1> HIDE DEF b
<1>7. /\ c \in Seq(Ipp!Word) /\ Len(c) = n + 7 /\ c[n + 1] = m6.http /\ \A k \in 1..n : c[k] = "1xx"
      /\ \A k \in 1..6 : c[n + 1 + k] = Ipp!Header[k]
  <2>1. /\ c \in Seq(Ipp!Word) /\ Len(c) = Len(b) + Len(Ipp!Header)
        /\ \A k \in 1..(Len(b) + Len(Ipp!Header)) : c[k] = IF k <= Len(b) THEN b[k] ELSE Ipp!Header[k - Len(b)]
    BY <1>5, <1>6, ConcatProperties
  <2> HIDE DEF c
  <2>2. Len(c) = n + 7 /\ \A k \in 1..(n + 7) : c[k] = IF k <= n + 1 THEN b[k] ELSE Ipp!Header[k - (n + 1)]
    BY <2>1, <1>2, <1>5, <1>6
  <2>3. \A k \in 1..n + 1 : c[k] = b[k]
    BY <2>2, <1>2
  <2>4. ASSUME NEW k \in 1..6 PROVE c[n + 1 + k] = Ipp!Header[k]
    <3>1. n + 1 + k \in 1..(n + 7) /\ (n + 1 + k) - (n + 1) = k /\ ~ (n + 1 + k <= n + 1)
      BY <1>2
    <3> QED BY <3>1, <2>2
  <2>5. n + 1 \in 1..n + 1 /\ \A k \in 1..n : k \in 1..n + 1
    BY <1>2
  <2> QED BY <2>1, <2>2, <2>3, <2>4, <2>5, <1>6
<1> HIDE DEF c
<1>8. m1 = c \o Ipp!Body
  BY <1>1 DEF a, b, c
<1>9. Ipp!Answers(m1, n)
  <2>1. /\ m1 \in Seq(Ipp!Word) /\ Len(m1) = Len(c) + Len(Ipp!Body)
        /\ \A k \in 1..(Len(c) + Len(Ipp!Body)) : m1[k] = IF k <= Len(c) THEN c[k] ELSE Ipp!Body[k - Len(c)]
    BY <1>5, <1>7, <1>8, ConcatProperties
  <2>2. Len(m1) = n + 9 /\ \A k \in 1..(n + 9) : m1[k] = IF k <= n + 7 THEN c[k] ELSE Ipp!Body[k - (n + 7)]
    BY <2>1, <1>2, <1>5, <1>7
  <2>3. \A k \in 1..n + 7 : m1[k] = c[k]
    BY <2>2, <1>2
  <2>4. ASSUME NEW k \in 1..2 PROVE m1[n + 7 + k] = Ipp!Body[k]
    <3>1. n + 7 + k \in 1..(n + 9) /\ (n + 7 + k) - (n + 7) = k /\ ~ (n + 7 + k <= n + 7)
      BY <1>2
    <3> QED BY <3>1, <2>2
  <2>5. \A k \in 1..6 : n + 1 + k \in 1..n + 7
    BY <1>2
  <2>6. n + 1 \in 1..n + 7 /\ \A k \in 1..n : k \in 1..n + 7
    BY <1>2
  <2> QED BY <2>1, <2>2, <2>3, <2>4, <2>5, <2>6, <1>7 DEF Ipp!Answers
<1> QED BY <1>2, <1>4, <1>9 DEF Ipp!Init, Ipp!IInv

\* The answer in the buffer.
LEMMA IppBuf ==
  ASSUME Ipp!Answers(m2, 0)
  PROVE  /\ Ipp!At(1) = "x" /\ Ipp!At(2) = "length" /\ Ipp!At(3) = "x" /\ Ipp!At(4) = "\n" /\ Ipp!At(5) = "\r"
         /\ Ipp!At(6) = "\n" /\ Ipp!At(7) = "ipp"
<1>1. /\ Len(m2) = 9 /\ \A k \in 1..6 : m2[1 + k] = Ipp!Header[k]
      /\ \A k \in 1..2 : m2[7 + k] = Ipp!Body[k]
  BY DEF Ipp!Answers
<1>2. /\ m2[2] = Ipp!Header[1] /\ m2[3] = Ipp!Header[2] /\ m2[4] = Ipp!Header[3]
      /\ m2[5] = Ipp!Header[4] /\ m2[6] = Ipp!Header[5] /\ m2[7] = Ipp!Header[6] /\ m2[8] = Ipp!Body[1]
  BY <1>1
<1> QED BY <1>1, <1>2 DEF Ipp!At, Ipp!Header, Ipp!Body

LEMMA IppRead == ASSUME Ipp!IInv, Ipp!ReadStatus PROVE Ipp!IInv'
<1>1. CASE Ipp!Fail
  BY <1>1 DEF Ipp!Fail, Ipp!IInv
<1>2. CASE ~ m7
  BY <1>2 DEF Ipp!ReadStatus, Ipp!Fail, Ipp!IInv
<1>3. ASSUME m7, m1 # <<>>, NEW n \in 1..Len(m1), m2' = Ipp!Part(n), m3' = n, m4' = 1, m1' = Ipp!Rest(n),
             m7' = (m7 /\ n = IF m1[1] = "1xx" THEN 1 ELSE Len(m1)),
             m5' = (CASE m1[1] = "2xx" -> "length" [] m1[1] = "4xx" -> "fail" [] OTHER -> "read"),
             UNCHANGED m6, m5 = "read"
      PROVE  Ipp!IInv'
  <2>1. PICK m \in Nat : Ipp!Answers(m1, m)
    BY <1>3 DEF Ipp!IInv
  <2>2. /\ m6' \in [http : {"2xx", "4xx", "bad"}, job : {"mine", "other"}, status : {"ok", "error"}]
        /\ m7' \in BOOLEAN /\ m6.http \in {"2xx", "4xx", "bad"}
    BY <1>3 DEF Ipp!IInv
  <2>3. m1 \in Seq(Ipp!Word) /\ Len(m1) = m + 9 /\ n \in 1..(m + 9)
    BY <2>1, <1>3 DEF Ipp!Answers
  <2> SUFFICES ASSUME m7'
               PROVE  \/ m5' = "read" /\ \E k \in Nat : Ipp!Answers(m1, k)'
                      \/ m5' = "read" /\ m1' = <<>>
                      \/ m5' = "fail"
                      \/ m6'.http = "2xx" /\ Ipp!Answers(m2, 0)' /\ m3' = 9 /\ m5' = "length" /\ m4' \in {1, 2}
    BY <2>2 DEF Ipp!IInv
  <2>4. CASE m = 0
    <3>1. m1[1] = m6.http
      BY <2>1, <2>4 DEF Ipp!Answers
    <3>2. n = 9 /\ Len(m1) = 9
      <4>1. n = IF m1[1] = "1xx" THEN 1 ELSE Len(m1)
        BY <1>3
      <4>2. m1[1] # "1xx"
        BY <3>1, <2>2
      <4> QED BY <4>1, <4>2, <2>3, <2>4
    <3>3. m1' = <<>>
      <4>1. m1' = SubSeq(m1, 10, 9)
        BY <3>2, <1>3 DEF Ipp!Rest
      <4> QED BY <4>1, <2>3
    <3>4. m2' = m1 /\ m3' = 9
      BY <3>2, <2>3, <1>3 DEF Ipp!Part
    <3>5. Ipp!Answers(m2, 0)'
      BY <3>4, <2>1, <2>4, <1>3 DEF Ipp!Answers
    <3> QED BY <3>1, <3>3, <3>4, <3>5, <2>2, <1>3
  <2>5. CASE m > 0
    <3>1. m1[1] = "1xx"
      BY <2>1, <2>5 DEF Ipp!Answers
    <3>2. n = 1 /\ m5' = "read"
      BY <1>3, <3>1
    <3>3. /\ m1' \in Seq(Ipp!Word) /\ Len(m1') = m + 8
          /\ \A k \in 1..(m + 8) : m1'[k] = m1[k + 1]
      BY <3>2, <2>3, <1>3 DEF Ipp!Rest
    <3>4. PICK q \in Nat : q + 1 = m
      <4>1. m - 1 \in Nat /\ (m - 1) + 1 = m
        BY <2>5
      <4> QED BY <4>1
    <3>5. \A k \in 1..q : m1'[k] = "1xx"
      BY <3>3, <3>4, <2>1 DEF Ipp!Answers
    <3>6. m1'[q + 1] = m6'.http
      <4>1. q + 1 \in 1..(m + 8) /\ (q + 1) + 1 = m + 1
        BY <3>4
      <4> QED BY <4>1, <3>3, <2>1, <1>3 DEF Ipp!Answers
    <3>7. \A k \in 1..6 : m1'[q + 1 + k] = Ipp!Header[k]
      <4> SUFFICES ASSUME NEW k \in 1..6 PROVE m1'[q + 1 + k] = Ipp!Header[k]
        OBVIOUS
      <4>1. q + 1 + k \in 1..(m + 8) /\ (q + 1 + k) + 1 = m + 1 + k
        BY <3>4
      <4> QED BY <4>1, <3>3, <2>1 DEF Ipp!Answers
    <3>8. \A k \in 1..2 : m1'[q + 7 + k] = Ipp!Body[k]
      <4> SUFFICES ASSUME NEW k \in 1..2 PROVE m1'[q + 7 + k] = Ipp!Body[k]
        OBVIOUS
      <4>1. q + 7 + k \in 1..(m + 8) /\ (q + 7 + k) + 1 = m + 7 + k
        BY <3>4
      <4> QED BY <4>1, <3>3, <2>1 DEF Ipp!Answers
    <3>9. Ipp!Answers(m1, q)'
      BY <3>3, <3>4, <3>5, <3>6, <3>7, <3>8 DEF Ipp!Answers
    <3> QED BY <3>2, <3>9
  <2> QED BY <2>4, <2>5
<1> QED BY <1>1, <1>2, <1>3 DEF Ipp!ReadStatus, Ipp!IInv

LEMMA IppStep == ASSUME Ipp!IInv, [Ipp!Next]_(Ipp!vars) PROVE Ipp!IInv'
<1>1. CASE Ipp!ReadStatus
  BY <1>1, IppRead
<1>2. CASE ~ m7 /\ UNCHANGED <<m7, m6>>
  BY <1>2 DEF Ipp!IInv
<1>3. CASE m7 /\ m5 = "fail"
  <2>1. UNCHANGED Ipp!vars \/ Ipp!ReadStatus
    BY <1>3 DEF Ipp!Next, Ipp!FindLength, Ipp!More, Ipp!FindEnd, Ipp!Found, Ipp!ReadEnd, Ipp!ReadBody, Ipp!Judge
  <2>2. CASE UNCHANGED Ipp!vars
    BY <2>2 DEF Ipp!vars, Ipp!IInv, Ipp!Answers
  <2> QED BY <2>1, <2>2, <1>1
<1>4. CASE UNCHANGED Ipp!vars
  BY <1>4 DEF Ipp!vars, Ipp!IInv, Ipp!Answers
<1> DEFINE Good == m6.http = "2xx" /\ Ipp!Answers(m2, 0) /\ m3 = 9
\* A step in the final answer.
<1>5. ASSUME m7, Good, UNCHANGED <<m2, m3, m6, m7>>,
             \/ m5' = "length" /\ m4' \in {1, 2}
             \/ m5' = "more" /\ m4' = 3
             \/ m5' = "end" /\ m4' \in {3, 4}
             \/ m5' \in {"found", "body", "judge"} /\ m4' = 7
             \/ m5' = "success" /\ m6.job = "mine" /\ m6.status = "ok"
             \/ m5' = "fail"
      PROVE  Ipp!IInv'
  BY <1>5 DEF Ipp!IInv, Ipp!Answers
<1>6. ASSUME m7, m5 \notin {"read", "fail"} PROVE Good
  BY <1>6 DEF Ipp!IInv
<1>7. CASE m7 /\ Ipp!FindLength
  <2>1. m5 = "length" /\ m4 \in {1, 2} /\ Good
    BY <1>6, <1>7 DEF Ipp!FindLength, Ipp!IInv
  <2>2. m4' = m4 + 1 /\ m5' = (IF Ipp!At(m4) = "length" THEN "more" ELSE "length") /\ UNCHANGED <<m2, m3, m6, m7>>
    <3>1. ~ (m4 >= m3)
      BY <2>1
    <3> QED BY <3>1, <1>7 DEF Ipp!FindLength
  <2>3. Ipp!At(1) = "x" /\ Ipp!At(2) = "length"
    BY <2>1, IppBuf
  <2> QED BY <1>5, <1>7, <2>1, <2>2, <2>3
<1>8. CASE m7 /\ Ipp!More
  <2>1. m5 = "more" /\ m4 = 3 /\ Good
    BY <1>6, <1>8 DEF Ipp!More, Ipp!IInv
  <2> QED BY <1>5, <1>8, <2>1 DEF Ipp!More
<1>9. CASE m7 /\ Ipp!FindEnd
  <2>1. m5 = "end" /\ m4 \in {3, 4} /\ Good
    BY <1>6, <1>9 DEF Ipp!FindEnd, Ipp!IInv
  <2>2. /\ Ipp!At(3) = "x" /\ Ipp!At(4) = "\n" /\ Ipp!At(5) = "\r" /\ Ipp!At(6) = "\n"
    BY <2>1, IppBuf
  <2>3. ~ Ipp!EndAt(3) /\ Ipp!EndAt(4)
    BY <2>2 DEF Ipp!EndAt
  <2>4. /\ IF Ipp!EndAt(m4) THEN m4' = m4 + 3 /\ m5' = "found" ELSE m4' = m4 + 1 /\ UNCHANGED m5
        /\ UNCHANGED <<m2, m3, m6, m7>>
    BY <1>9 DEF Ipp!FindEnd
  <2> QED BY <1>5, <1>9, <2>1, <2>3, <2>4
<1>10. CASE m7 /\ Ipp!Found
  <2>1. m5 = "found" /\ m4 = 7 /\ Good
    BY <1>6, <1>10 DEF Ipp!Found, Ipp!IInv
  <2> QED BY <1>5, <1>10, <2>1 DEF Ipp!Found
<1>11. CASE m7 /\ Ipp!ReadBody
  <2>1. m5 = "body" /\ m4 = 7 /\ Good
    BY <1>6, <1>11 DEF Ipp!ReadBody, Ipp!IInv
  <2>2. Len(Ipp!Body) = 2
    BY DEF Ipp!Body
  <2> QED BY <1>5, <1>11, <2>1, <2>2 DEF Ipp!ReadBody
<1>12. CASE m7 /\ Ipp!Judge
  <2>1. m5 = "judge" /\ m4 = 7 /\ Good
    BY <1>6, <1>12 DEF Ipp!Judge, Ipp!IInv
  <2>2. Ipp!At(m4) = "ipp"
    BY <2>1, IppBuf
  <2>3. m5' = (IF m6.job = "mine" /\ m6.status = "ok" THEN "success" ELSE "fail") /\ UNCHANGED <<m2, m3, m6, m7, m4>>
    BY <2>2, <1>12 DEF Ipp!Judge
  <2> QED BY <1>5, <1>12, <2>1, <2>3
<1>13. CASE m7 /\ Ipp!ReadEnd
  <2>1. m5 = "end" /\ m4 \in {3, 4} /\ Good
    BY <1>6, <1>13 DEF Ipp!ReadEnd, Ipp!IInv
  <2> QED BY <2>1, <1>13 DEF Ipp!ReadEnd
<1>14. m7 \in BOOLEAN
  BY DEF Ipp!IInv
<1>15. ~ Ipp!ReadStatus /\ Ipp!Next => UNCHANGED <<m7, m6>>
  BY DEF Ipp!Next, Ipp!FindLength, Ipp!More, Ipp!FindEnd, Ipp!Found, Ipp!ReadEnd, Ipp!ReadBody, Ipp!Judge, Ipp!readmore, Ipp!Fail
<1> QED BY <1>1, <1>2, <1>4, <1>7, <1>8, <1>9, <1>10, <1>11, <1>12, <1>13, <1>14, <1>15 DEF Ipp!Next

LEMMA IppJudged == Ipp!IInv => Ipp!JudgedRight
<1> SUFFICES ASSUME Ipp!IInv, m7, m5 = "success" PROVE m6 = [http |-> "2xx", job |-> "mine", status |-> "ok"]
  BY DEF Ipp!JudgedRight
<1>1. m6.http = "2xx" /\ m6.job = "mine" /\ m6.status = "ok"
  BY DEF Ipp!IInv
<1> QED BY <1>1 DEF Ipp!IInv

-----------------------------------------------------------------------------
(* Lcx is LcxMain: the parent process of the relay.                        *)
(*                                                                         *)
(* m1 argv, m2 p, m3 conf, m4 mpc, m5 fds, m6 kids.                        *)

LEMMA LcxUsage ==
  /\ DOMAIN Lcx!Usage = {"-listen", "-slave", "-tran"}
  /\ Lcx!Usage["-listen"] = <<"-listen", "p1", "p2">> /\ Len(Lcx!Usage["-listen"]) = 3
  /\ Lcx!Usage["-slave"] = <<"-slave", "h1", "p1", "h2", "p2">> /\ Len(Lcx!Usage["-slave"]) = 5
  /\ Lcx!Usage["-tran"] = <<"-tran", "p1", "h2", "p2">> /\ Len(Lcx!Usage["-tran"]) = 4
  BY DEF Lcx!Usage

LEMMA LcxInit == Lcx!Init => Lcx!IInv
<1> SUFFICES ASSUME Lcx!Init PROVE Lcx!IInv
  OBVIOUS
<1>1. m3 = [f \in Lcx!Field |-> m3[f]]
  BY DEF Lcx!Init, Lcx!Field
<1> QED BY <1>1 DEF Lcx!Init, Lcx!IInv, Lcx!Reading

LEMMA LcxValue ==
  /\ Lcx!Value("port1", "p1") = "p1" /\ Lcx!Value("port2", "p2") = "p2" /\ Lcx!Value("host1", "h1") = "h1"
  /\ Lcx!Value("host2", "h2") = "h2" /\ Lcx!Value("log", "f") = "f"
  /\ Lcx!testifisvalue("p1") /\ Lcx!testifisvalue("p2") /\ Lcx!testifisvalue("h1") /\ Lcx!testifisvalue("h2")
  /\ Lcx!testifisvalue("f") /\ Lcx!testifisvalue("env")
  BY DEF Lcx!Value, Lcx!NULL, Lcx!testifisvalue, Lcx!Option

\* What one pass of the loop leaves.
LEMMA LcxPass ==
  ASSUME m3 = [f \in Lcx!Field |-> m3[f]], Lcx!ReadArg
  PROVE  \E s, t : /\ s.p = m2 /\ s.conf = (IF Lcx!Arg(m2) \in DOMAIN Lcx!Usage THEN [m3 EXCEPT !["method"] = Lcx!Arg(m2)] ELSE m3)
                   /\ s.conf = [f \in Lcx!Field |-> s.conf[f]]
                   /\ t = Lcx!Values(s, Lcx!Arg(m2)) /\ m3' = t.conf /\ m2' = t.p + 1 /\ UNCHANGED <<m1, m5, m6>>
<1>1. PICK s : s = [p |-> m2, conf |-> IF Lcx!Arg(m2) \in DOMAIN Lcx!Usage THEN [m3 EXCEPT !["method"] = Lcx!Arg(m2)] ELSE m3]
  OBVIOUS
<1>2. /\ s.p = m2 /\ s.conf = (IF Lcx!Arg(m2) \in DOMAIN Lcx!Usage THEN [m3 EXCEPT !["method"] = Lcx!Arg(m2)] ELSE m3)
  BY <1>1
<1>3. s.conf = [f \in Lcx!Field |-> s.conf[f]]
  BY <1>2 DEF Lcx!Field
<1>4. PICK t : t = Lcx!Values(s, Lcx!Arg(m2))
  OBVIOUS
<1>5. m3' = t.conf /\ m2' = t.p + 1 /\ UNCHANGED <<m1, m5, m6>>
  BY <1>1, <1>4 DEF Lcx!ReadArg
<1> QED BY <1>2, <1>3, <1>4, <1>5

LEMMA LcxListen ==
  ASSUME m3 = [f \in Lcx!Field |-> m3[f]], Lcx!ReadArg, m2 \in Nat, Lcx!Stands("-listen", m2)
  PROVE  /\ m2' = m2 + 3 /\ Lcx!Filled("-listen")' /\ m3'["log"] = m3["log"]
<1>1. Lcx!Arg(m2) = "-listen" /\ Lcx!Arg(m2 + 1) = "p1" /\ Lcx!Arg(m2 + 2) = "p2"
  BY LcxUsage DEF Lcx!Stands
<1>2. PICK s, t : /\ s.p = m2 /\ s.conf = (IF Lcx!Arg(m2) \in DOMAIN Lcx!Usage THEN [m3 EXCEPT !["method"] = Lcx!Arg(m2)] ELSE m3)
                  /\ s.conf = [f \in Lcx!Field |-> s.conf[f]]
                  /\ t = Lcx!Values(s, Lcx!Arg(m2)) /\ m3' = t.conf /\ m2' = t.p + 1
  BY LcxPass
<1>3. s.conf["method"] = "-listen" /\ s.conf["log"] = m3["log"]
  BY <1>1, <1>2, LcxUsage DEF Lcx!Field
<1>p1. PICK t1 : t1 = Lcx!Fill(s, <<"port1", 1>>)
  OBVIOUS
<1>q1. /\ t1.p = m2 + 1 /\ t1.conf = [g \in Lcx!Field |-> t1.conf[g]] /\ t1.conf["port1"] = "p1"
      /\ \A g \in Lcx!Field : g # "port1" => t1.conf[g] = s.conf[g]
  <2>1. Lcx!Arg(s.p + 1) = "p1" /\ Lcx!testifisvalue(Lcx!Arg(s.p + 1)) /\ s.p + 1 = m2 + 1
    BY <1>1, <1>2, LcxValue
  <2>2. t1 = [p |-> m2 + 1, conf |-> [s.conf EXCEPT !["port1"] = "p1"]]
    BY <2>1, <1>p1, <1>2, LcxValue DEF Lcx!Fill
  <2> QED BY <2>2, <1>2 DEF Lcx!Field
<1>p2. t = Lcx!Fill(t1, <<"port2", 1>>)
  BY <1>1, <1>2, <1>p1 DEF Lcx!Values
<1>q2. /\ t.p = m2 + 2 /\ t.conf = [g \in Lcx!Field |-> t.conf[g]] /\ t.conf["port2"] = "p2"
      /\ \A g \in Lcx!Field : g # "port2" => t.conf[g] = t1.conf[g]
  <2>1. Lcx!Arg(t1.p + 1) = "p2" /\ Lcx!testifisvalue(Lcx!Arg(t1.p + 1)) /\ t1.p + 1 = m2 + 2
    BY <1>1, <1>q1, LcxValue
  <2>2. t = [p |-> m2 + 2, conf |-> [t1.conf EXCEPT !["port2"] = "p2"]]
    BY <2>1, <1>p2, <1>q1, LcxValue DEF Lcx!Fill
  <2> QED BY <2>2, <1>q1 DEF Lcx!Field
<1> QED BY <1>2, <1>3, <1>q1, <1>q2 DEF Lcx!Filled, Lcx!Field

LEMMA LcxSlave ==
  ASSUME m3 = [f \in Lcx!Field |-> m3[f]], Lcx!ReadArg, m2 \in Nat, Lcx!Stands("-slave", m2)
  PROVE  /\ m2' = m2 + 5 /\ Lcx!Filled("-slave")' /\ m3'["log"] = m3["log"]
<1>1. Lcx!Arg(m2) = "-slave" /\ Lcx!Arg(m2 + 1) = "h1" /\ Lcx!Arg(m2 + 2) = "p1" /\ Lcx!Arg(m2 + 3) = "h2" /\ Lcx!Arg(m2 + 4) = "p2"
  BY LcxUsage DEF Lcx!Stands
<1>2. PICK s, t : /\ s.p = m2 /\ s.conf = (IF Lcx!Arg(m2) \in DOMAIN Lcx!Usage THEN [m3 EXCEPT !["method"] = Lcx!Arg(m2)] ELSE m3)
                  /\ s.conf = [f \in Lcx!Field |-> s.conf[f]]
                  /\ t = Lcx!Values(s, Lcx!Arg(m2)) /\ m3' = t.conf /\ m2' = t.p + 1
  BY LcxPass
<1>3. s.conf["method"] = "-slave" /\ s.conf["log"] = m3["log"]
  BY <1>1, <1>2, LcxUsage DEF Lcx!Field
<1>p1. PICK t1 : t1 = Lcx!Fill(s, <<"host1", 1>>)
  OBVIOUS
<1>q1. /\ t1.p = m2 + 1 /\ t1.conf = [g \in Lcx!Field |-> t1.conf[g]] /\ t1.conf["host1"] = "h1"
      /\ \A g \in Lcx!Field : g # "host1" => t1.conf[g] = s.conf[g]
  <2>1. Lcx!Arg(s.p + 1) = "h1" /\ Lcx!testifisvalue(Lcx!Arg(s.p + 1)) /\ s.p + 1 = m2 + 1
    BY <1>1, <1>2, LcxValue
  <2>2. t1 = [p |-> m2 + 1, conf |-> [s.conf EXCEPT !["host1"] = "h1"]]
    BY <2>1, <1>p1, <1>2, LcxValue DEF Lcx!Fill
  <2> QED BY <2>2, <1>2 DEF Lcx!Field
<1>p2. PICK t2 : t2 = Lcx!Fill(t1, <<"port1", 1>>)
  OBVIOUS
<1>q2. /\ t2.p = m2 + 2 /\ t2.conf = [g \in Lcx!Field |-> t2.conf[g]] /\ t2.conf["port1"] = "p1"
      /\ \A g \in Lcx!Field : g # "port1" => t2.conf[g] = t1.conf[g]
  <2>1. Lcx!Arg(t1.p + 1) = "p1" /\ Lcx!testifisvalue(Lcx!Arg(t1.p + 1)) /\ t1.p + 1 = m2 + 2
    BY <1>1, <1>q1, LcxValue
  <2>2. t2 = [p |-> m2 + 2, conf |-> [t1.conf EXCEPT !["port1"] = "p1"]]
    BY <2>1, <1>p2, <1>q1, LcxValue DEF Lcx!Fill
  <2> QED BY <2>2, <1>q1 DEF Lcx!Field
<1>p3. PICK t3 : t3 = Lcx!Fill(t2, <<"host2", 1>>)
  OBVIOUS
<1>q3. /\ t3.p = m2 + 3 /\ t3.conf = [g \in Lcx!Field |-> t3.conf[g]] /\ t3.conf["host2"] = "h2"
      /\ \A g \in Lcx!Field : g # "host2" => t3.conf[g] = t2.conf[g]
  <2>1. Lcx!Arg(t2.p + 1) = "h2" /\ Lcx!testifisvalue(Lcx!Arg(t2.p + 1)) /\ t2.p + 1 = m2 + 3
    BY <1>1, <1>q2, LcxValue
  <2>2. t3 = [p |-> m2 + 3, conf |-> [t2.conf EXCEPT !["host2"] = "h2"]]
    BY <2>1, <1>p3, <1>q2, LcxValue DEF Lcx!Fill
  <2> QED BY <2>2, <1>q2 DEF Lcx!Field
<1>p4. t = Lcx!Fill(t3, <<"port2", 1>>)
  BY <1>1, <1>2, <1>p1, <1>p2, <1>p3 DEF Lcx!Values
<1>q4. /\ t.p = m2 + 4 /\ t.conf = [g \in Lcx!Field |-> t.conf[g]] /\ t.conf["port2"] = "p2"
      /\ \A g \in Lcx!Field : g # "port2" => t.conf[g] = t3.conf[g]
  <2>1. Lcx!Arg(t3.p + 1) = "p2" /\ Lcx!testifisvalue(Lcx!Arg(t3.p + 1)) /\ t3.p + 1 = m2 + 4
    BY <1>1, <1>q3, LcxValue
  <2>2. t = [p |-> m2 + 4, conf |-> [t3.conf EXCEPT !["port2"] = "p2"]]
    BY <2>1, <1>p4, <1>q3, LcxValue DEF Lcx!Fill
  <2> QED BY <2>2, <1>q3 DEF Lcx!Field
<1> QED BY <1>2, <1>3, <1>q1, <1>q2, <1>q3, <1>q4 DEF Lcx!Filled, Lcx!Field

LEMMA LcxTran ==
  ASSUME m3 = [f \in Lcx!Field |-> m3[f]], Lcx!ReadArg, m2 \in Nat, Lcx!Stands("-tran", m2)
  PROVE  /\ m2' = m2 + 4 /\ Lcx!Filled("-tran")' /\ m3'["log"] = m3["log"]
<1>1. Lcx!Arg(m2) = "-tran" /\ Lcx!Arg(m2 + 1) = "p1" /\ Lcx!Arg(m2 + 2) = "h2" /\ Lcx!Arg(m2 + 3) = "p2"
  BY LcxUsage DEF Lcx!Stands
<1>2. PICK s, t : /\ s.p = m2 /\ s.conf = (IF Lcx!Arg(m2) \in DOMAIN Lcx!Usage THEN [m3 EXCEPT !["method"] = Lcx!Arg(m2)] ELSE m3)
                  /\ s.conf = [f \in Lcx!Field |-> s.conf[f]]
                  /\ t = Lcx!Values(s, Lcx!Arg(m2)) /\ m3' = t.conf /\ m2' = t.p + 1
  BY LcxPass
<1>3. s.conf["method"] = "-tran" /\ s.conf["log"] = m3["log"]
  BY <1>1, <1>2, LcxUsage DEF Lcx!Field
<1>e. Lcx!testifisvalue(Lcx!Arg(m2 + 5))
  BY DEF Lcx!Stands
<1>p1. PICK t1 : t1 = Lcx!Fill(s, <<"port1", 1>>)
  OBVIOUS
<1>q1. /\ t1.p = m2 + 1 /\ t1.conf = [g \in Lcx!Field |-> t1.conf[g]] /\ t1.conf["port1"] = "p1"
      /\ \A g \in Lcx!Field : g # "port1" => t1.conf[g] = s.conf[g]
  <2>1. Lcx!Arg(s.p + 1) = "p1" /\ Lcx!testifisvalue(Lcx!Arg(s.p + 1)) /\ s.p + 1 = m2 + 1
    BY <1>1, <1>2, LcxValue
  <2>2. t1 = [p |-> m2 + 1, conf |-> [s.conf EXCEPT !["port1"] = "p1"]]
    BY <2>1, <1>p1, <1>2, LcxValue DEF Lcx!Fill
  <2> QED BY <2>2, <1>2 DEF Lcx!Field
<1>p2. PICK t2 : t2 = Lcx!Fill(t1, <<"host2", 2>>)
  OBVIOUS
<1>q2. /\ t2.p = m2 + 2 /\ t2.conf = [g \in Lcx!Field |-> t2.conf[g]] /\ t2.conf["host2"] = "h2"
      /\ \A g \in Lcx!Field : g # "host2" => t2.conf[g] = t1.conf[g]
  <2>1. Lcx!Arg(t1.p + 1) = "h2" /\ Lcx!testifisvalue(Lcx!Arg(t1.p + 2)) /\ t1.p + 1 = m2 + 2
    BY <1>1, <1>q1, LcxValue
  <2>2. t2 = [p |-> m2 + 2, conf |-> [t1.conf EXCEPT !["host2"] = "h2"]]
    BY <2>1, <1>p2, <1>q1, LcxValue DEF Lcx!Fill
  <2> QED BY <2>2, <1>q1 DEF Lcx!Field
<1>p3. t = Lcx!Fill(t2, <<"port2", 3>>)
  BY <1>1, <1>2, <1>p1, <1>p2 DEF Lcx!Values
<1>q3. /\ t.p = m2 + 3 /\ t.conf = [g \in Lcx!Field |-> t.conf[g]] /\ t.conf["port2"] = "p2"
      /\ \A g \in Lcx!Field : g # "port2" => t.conf[g] = t2.conf[g]
  <2>1. Lcx!Arg(t2.p + 1) = "p2" /\ Lcx!testifisvalue(Lcx!Arg(t2.p + 3)) /\ t2.p + 1 = m2 + 3
    BY <1>1, <1>e, <1>q2, LcxValue
  <2>2. t = [p |-> m2 + 3, conf |-> [t2.conf EXCEPT !["port2"] = "p2"]]
    BY <2>1, <1>p3, <1>q2, LcxValue DEF Lcx!Fill
  <2> QED BY <2>2, <1>q2 DEF Lcx!Field
<1> QED BY <1>2, <1>3, <1>q1, <1>q2, <1>q3 DEF Lcx!Filled, Lcx!Field

LEMMA LcxOption ==
  ASSUME m3 = [f \in Lcx!Field |-> m3[f]], Lcx!ReadArg, m2 \in Nat, NEW m \in DOMAIN Lcx!Usage, Lcx!Stands(m, m2)
  PROVE  m2' = m2 + Len(Lcx!Usage[m]) /\ Lcx!Filled(m)' /\ m3'["log"] = m3["log"]
  BY LcxUsage, LcxListen, LcxSlave, LcxTran

\* -log, and what is no option.
LEMMA LcxLog ==
  ASSUME m3 = [f \in Lcx!Field |-> m3[f]], Lcx!ReadArg, m2 \in Nat, Lcx!Arg(m2) = "-log", Lcx!Arg(m2 + 1) = "f"
  PROVE  m2' = m2 + 2 /\ m3'["log"] = "f" /\ \A m : Lcx!Filled(m) => Lcx!Filled(m)'
<1>2. PICK s, t : /\ s.p = m2 /\ s.conf = (IF Lcx!Arg(m2) \in DOMAIN Lcx!Usage THEN [m3 EXCEPT !["method"] = Lcx!Arg(m2)] ELSE m3)
                  /\ s.conf = [f \in Lcx!Field |-> s.conf[f]]
                  /\ t = Lcx!Values(s, Lcx!Arg(m2)) /\ m3' = t.conf /\ m2' = t.p + 1
  BY LcxPass
<1>3. s.conf = m3 /\ t = Lcx!Fill(s, <<"log", 1>>)
  BY <1>2, LcxUsage DEF Lcx!Values
<1>4. t = [p |-> m2 + 1, conf |-> [m3 EXCEPT !["log"] = "f"]]
  BY <1>2, <1>3, LcxValue DEF Lcx!Fill
<1>5. m2' = m2 + 2 /\ m3' = [m3 EXCEPT !["log"] = "f"]
  BY <1>2, <1>4
<1>6. m3'["log"] = "f" /\ \A g \in Lcx!Field : g # "log" => m3'[g] = m3[g]
  BY <1>5 DEF Lcx!Field
<1> QED BY <1>5, <1>6 DEF Lcx!Filled, Lcx!Field

LEMMA LcxName ==
  ASSUME m3 = [f \in Lcx!Field |-> m3[f]], Lcx!ReadArg, m2 \in Nat, Lcx!Arg(m2) = "lcx"
  PROVE  m2' = m2 + 1
<1>2. PICK s, t : /\ s.p = m2 /\ t = Lcx!Values(s, Lcx!Arg(m2)) /\ m2' = t.p + 1
  BY LcxPass
<1> QED BY <1>2 DEF Lcx!Values

LEMMA LcxFields == ASSUME m3 = [f \in Lcx!Field |-> m3[f]], Lcx!ReadArg PROVE m3' = [f \in Lcx!Field |-> m3'[f]]
<1>1. PICK s, t : s.conf = [f \in Lcx!Field |-> s.conf[f]] /\ t = Lcx!Values(s, Lcx!Arg(m2)) /\ m3' = t.conf
  BY LcxPass
<1>2. ASSUME NEW u, NEW f, u.conf = [g \in Lcx!Field |-> u.conf[g]]
      PROVE  Lcx!Fill(u, f).conf = [g \in Lcx!Field |-> Lcx!Fill(u, f).conf[g]]
  BY <1>2 DEF Lcx!Fill
<1>3. CASE Lcx!Arg(m2) = "-listen"
  <2>1. PICK t1 : t1 = Lcx!Fill(s, <<"port1", 1>>) /\ t1.conf = [g \in Lcx!Field |-> t1.conf[g]]
    BY <1>2, <1>1
  <2>2. PICK t2 : t2 = Lcx!Fill(t1, <<"port2", 1>>) /\ t2.conf = [g \in Lcx!Field |-> t2.conf[g]]
    BY <1>2, <2>1
  <2> QED BY <1>1, <1>3, <2>1, <2>2 DEF Lcx!Values
<1>4. CASE Lcx!Arg(m2) = "-slave"
  <2>1. PICK t1 : t1 = Lcx!Fill(s, <<"host1", 1>>) /\ t1.conf = [g \in Lcx!Field |-> t1.conf[g]]
    BY <1>2, <1>1
  <2>2. PICK t2 : t2 = Lcx!Fill(t1, <<"port1", 1>>) /\ t2.conf = [g \in Lcx!Field |-> t2.conf[g]]
    BY <1>2, <2>1
  <2>3. PICK t3 : t3 = Lcx!Fill(t2, <<"host2", 1>>) /\ t3.conf = [g \in Lcx!Field |-> t3.conf[g]]
    BY <1>2, <2>2
  <2>4. PICK t4 : t4 = Lcx!Fill(t3, <<"port2", 1>>) /\ t4.conf = [g \in Lcx!Field |-> t4.conf[g]]
    BY <1>2, <2>3
  <2> QED BY <1>1, <1>4, <2>1, <2>2, <2>3, <2>4 DEF Lcx!Values
<1>5. CASE Lcx!Arg(m2) = "-tran"
  <2>1. PICK t1 : t1 = Lcx!Fill(s, <<"port1", 1>>) /\ t1.conf = [g \in Lcx!Field |-> t1.conf[g]]
    BY <1>2, <1>1
  <2>2. PICK t2 : t2 = Lcx!Fill(t1, <<"host2", 2>>) /\ t2.conf = [g \in Lcx!Field |-> t2.conf[g]]
    BY <1>2, <2>1
  <2>3. PICK t3 : t3 = Lcx!Fill(t2, <<"port2", 3>>) /\ t3.conf = [g \in Lcx!Field |-> t3.conf[g]]
    BY <1>2, <2>2
  <2> QED BY <1>1, <1>5, <2>1, <2>2, <2>3 DEF Lcx!Values
<1>6. CASE Lcx!Arg(m2) = "-log"
  <2>1. PICK t1 : t1 = Lcx!Fill(s, <<"log", 1>>) /\ t1.conf = [g \in Lcx!Field |-> t1.conf[g]]
    BY <1>2, <1>1
  <2> QED BY <1>1, <1>6, <2>1 DEF Lcx!Values
<1>7. CASE Lcx!Arg(m2) \notin {"-listen", "-slave", "-tran", "-log"}
  BY <1>1, <1>7 DEF Lcx!Values
<1> QED BY <1>3, <1>4, <1>5, <1>6, <1>7

\* What main sees: its arguments, the null pointer, its environment.
LEMMA LcxJoin ==
  ASSUME NEW a \in Seq(Lcx!Words), NEW b \in Seq(Lcx!Words)
  PROVE  Lcx!Joined(a \o b, a, b)
<1> PICK K \in Nat, L \in Nat : Len(a) = K /\ Len(b) = L
  OBVIOUS
<1>1. a \o b \in Seq(Lcx!Words)
  OBVIOUS
<1>2. Len(a \o b) = K + L
  OBVIOUS
<1>3. ASSUME NEW k \in 1 .. K PROVE (a \o b)[k] = a[k]
  OBVIOUS
<1>4. ASSUME NEW k \in K + 1 .. K + L PROVE (a \o b)[k] = b[k - K]
  OBVIOUS
<1> QED BY <1>1, <1>2, <1>3, <1>4 DEF Lcx!Joined

LEMMA LcxMemory ==
  ASSUME NEW L \in Nat, Len(m1) = L, m1 \in Seq(Lcx!Words)
  PROVE  /\ \A k \in 1 .. L : Lcx!Arg(k) = m1[k]
         /\ Lcx!Arg(L + 1) = Lcx!NULL /\ Lcx!Arg(L + 2) = "env" /\ Lcx!Arg(L + 3) = "env"
<1>1. <<Lcx!NULL, "env">> \in Seq(Lcx!Words) /\ Len(<<Lcx!NULL, "env">>) = 2
  BY DEF Lcx!Words, Lcx!NULL
<1>2. Len(Lcx!Memory) = L + 2 /\ (\A k \in 1 .. L : Lcx!Memory[k] = m1[k]) /\ Lcx!Memory[L + 1] = Lcx!NULL /\ Lcx!Memory[L + 2] = "env"
  BY <1>1, ConcatProperties DEF Lcx!Memory
<1> QED BY <1>2 DEF Lcx!Arg

LEMMA LcxPlain ==
  ASSUME NEW m \in DOMAIN Lcx!Usage
  PROVE  m1 = <<"lcx">> \o Lcx!Usage[m] => Lcx!Arg(1) = "lcx" /\ Lcx!Stands(m, 2) /\ Lcx!Arg(Len(Lcx!Usage[m]) + 2) = Lcx!NULL
<1>1. ASSUME m = "-listen", m1 = <<"lcx">> \o Lcx!Usage[m] PROVE Lcx!Arg(1) = "lcx" /\ Lcx!Stands(m, 2) /\ Lcx!Arg(Len(Lcx!Usage[m]) + 2) = Lcx!NULL
  <2>1. PICK a, b : a = <<"lcx">> /\ b = <<"-listen", "p1", "p2">> /\ m1 = a \o b
    BY <1>1, LcxUsage DEF Lcx!Log
  <2>at. a \in Seq(Lcx!Words) /\ Len(a) = 1
    BY <2>1 DEF Lcx!Words
  <2>aw. a[1] = "lcx"
    BY <2>1
  <2>bt. b \in Seq(Lcx!Words) /\ Len(b) = 3
    BY <2>1 DEF Lcx!Words
  <2>bw. b[1] = "-listen" /\ b[2] = "p1" /\ b[3] = "p2"
    BY <2>1
  <2>f. m1 = a \o b
    BY <2>1
  <2>xj. Lcx!Joined(m1, a, b)
    BY <2>f, <2>at, <2>bt, LcxJoin
  <2>xl. /\ m1 \in Seq(Lcx!Words) /\ Len(m1) = Len(a) + Len(b)
         /\ \A k \in 1 .. Len(a) : m1[k] = a[k]
         /\ \A k \in Len(a) + 1 .. Len(a) + Len(b) : m1[k] = b[k - Len(a)]
    BY <2>xj DEF Lcx!Joined
  <2>xm. Len(a) = 1 /\ Len(b) = 3
    BY <2>at, <2>bt
  <2>xt. m1 \in Seq(Lcx!Words) /\ Len(m1) = 4
    BY <2>xl, <2>xm
  <2>xu. \A k \in 1 .. 1 : m1[k] = a[k]
    BY <2>xl, <2>xm
  <2>xv. \A k \in 2 .. 4 : m1[k] = b[k - 1]
    BY <2>xl, <2>xm
  <2>xw. m1[1] = "lcx" /\ m1[2] = "-listen" /\ m1[3] = "p1" /\ m1[4] = "p2"
    BY <2>xu, <2>xv, <2>aw, <2>bw
  <2>h. PICK H \in Nat : H = 4 /\ Len(m1) = H /\ m1 \in Seq(Lcx!Words)
    BY <2>xt
  <2>i. /\ \A k \in 1 .. H : Lcx!Arg(k) = m1[k]
        /\ Lcx!Arg(H + 1) = Lcx!NULL /\ Lcx!Arg(H + 2) = "env" /\ Lcx!Arg(H + 3) = "env"
    BY <2>h, LcxMemory
  <2>j. /\ \A k \in 1 .. 4 : Lcx!Arg(k) = m1[k]
        /\ Lcx!Arg(5) = Lcx!NULL /\ Lcx!Arg(6) = "env" /\ Lcx!Arg(7) = "env"
    BY <2>h, <2>i
  <2>4. Lcx!Arg(1) = "lcx" /\ Lcx!Arg(2) = "-listen" /\ Lcx!Arg(3) = "p1" /\ Lcx!Arg(4) = "p2"
        /\ Lcx!Arg(5) = Lcx!NULL /\ Lcx!Arg(6) = "env" /\ Lcx!Arg(7) = "env"
    BY <2>j, <2>xw
  <2>5. Len(Lcx!Usage[m]) = 3 /\ Lcx!Usage[m][1] = "-listen" /\ Lcx!Usage[m][2] = "p1" /\ Lcx!Usage[m][3] = "p2"
    BY <1>1, LcxUsage
  <2>6. Lcx!Stands(m, 2)
    <3>1. \A k \in 1 .. Len(Lcx!Usage[m]) : Lcx!Arg(2 + k - 1) = Lcx!Usage[m][k]
      <4> SUFFICES ASSUME NEW k \in 1 .. 3 PROVE Lcx!Arg(2 + k - 1) = Lcx!Usage[m][k]
        BY <2>5
      <4>1. CASE k = 1
        BY <4>1, <2>4, <2>5
      <4>2. CASE k = 2
        BY <4>2, <2>4, <2>5
      <4>3. CASE k = 3
        BY <4>3, <2>4, <2>5
      <4> QED BY <4>1, <4>2, <4>3
    <3> QED BY <3>1, <1>1 DEF Lcx!Stands
  <2> QED BY <2>4, <2>5, <2>6
<1>2. ASSUME m = "-slave", m1 = <<"lcx">> \o Lcx!Usage[m] PROVE Lcx!Arg(1) = "lcx" /\ Lcx!Stands(m, 2) /\ Lcx!Arg(Len(Lcx!Usage[m]) + 2) = Lcx!NULL
  <2>1. PICK a, b : a = <<"lcx">> /\ b = <<"-slave", "h1", "p1", "h2", "p2">> /\ m1 = a \o b
    BY <1>2, LcxUsage DEF Lcx!Log
  <2>at. a \in Seq(Lcx!Words) /\ Len(a) = 1
    BY <2>1 DEF Lcx!Words
  <2>aw. a[1] = "lcx"
    BY <2>1
  <2>bt. b \in Seq(Lcx!Words) /\ Len(b) = 5
    BY <2>1 DEF Lcx!Words
  <2>bw. b[1] = "-slave" /\ b[2] = "h1" /\ b[3] = "p1" /\ b[4] = "h2" /\ b[5] = "p2"
    BY <2>1
  <2>f. m1 = a \o b
    BY <2>1
  <2>xj. Lcx!Joined(m1, a, b)
    BY <2>f, <2>at, <2>bt, LcxJoin
  <2>xl. /\ m1 \in Seq(Lcx!Words) /\ Len(m1) = Len(a) + Len(b)
         /\ \A k \in 1 .. Len(a) : m1[k] = a[k]
         /\ \A k \in Len(a) + 1 .. Len(a) + Len(b) : m1[k] = b[k - Len(a)]
    BY <2>xj DEF Lcx!Joined
  <2>xm. Len(a) = 1 /\ Len(b) = 5
    BY <2>at, <2>bt
  <2>xt. m1 \in Seq(Lcx!Words) /\ Len(m1) = 6
    BY <2>xl, <2>xm
  <2>xu. \A k \in 1 .. 1 : m1[k] = a[k]
    BY <2>xl, <2>xm
  <2>xv. \A k \in 2 .. 6 : m1[k] = b[k - 1]
    BY <2>xl, <2>xm
  <2>xw. m1[1] = "lcx" /\ m1[2] = "-slave" /\ m1[3] = "h1" /\ m1[4] = "p1" /\ m1[5] = "h2" /\ m1[6] = "p2"
    BY <2>xu, <2>xv, <2>aw, <2>bw
  <2>h. PICK H \in Nat : H = 6 /\ Len(m1) = H /\ m1 \in Seq(Lcx!Words)
    BY <2>xt
  <2>i. /\ \A k \in 1 .. H : Lcx!Arg(k) = m1[k]
        /\ Lcx!Arg(H + 1) = Lcx!NULL /\ Lcx!Arg(H + 2) = "env" /\ Lcx!Arg(H + 3) = "env"
    BY <2>h, LcxMemory
  <2>j. /\ \A k \in 1 .. 6 : Lcx!Arg(k) = m1[k]
        /\ Lcx!Arg(7) = Lcx!NULL /\ Lcx!Arg(8) = "env" /\ Lcx!Arg(9) = "env"
    BY <2>h, <2>i
  <2>4. Lcx!Arg(1) = "lcx" /\ Lcx!Arg(2) = "-slave" /\ Lcx!Arg(3) = "h1" /\ Lcx!Arg(4) = "p1" /\ Lcx!Arg(5) = "h2" /\ Lcx!Arg(6) = "p2"
        /\ Lcx!Arg(7) = Lcx!NULL /\ Lcx!Arg(8) = "env" /\ Lcx!Arg(9) = "env"
    BY <2>j, <2>xw
  <2>5. Len(Lcx!Usage[m]) = 5 /\ Lcx!Usage[m][1] = "-slave" /\ Lcx!Usage[m][2] = "h1" /\ Lcx!Usage[m][3] = "p1" /\ Lcx!Usage[m][4] = "h2" /\ Lcx!Usage[m][5] = "p2"
    BY <1>2, LcxUsage
  <2>6. Lcx!Stands(m, 2)
    <3>1. \A k \in 1 .. Len(Lcx!Usage[m]) : Lcx!Arg(2 + k - 1) = Lcx!Usage[m][k]
      <4> SUFFICES ASSUME NEW k \in 1 .. 5 PROVE Lcx!Arg(2 + k - 1) = Lcx!Usage[m][k]
        BY <2>5
      <4>1. CASE k = 1
        BY <4>1, <2>4, <2>5
      <4>2. CASE k = 2
        BY <4>2, <2>4, <2>5
      <4>3. CASE k = 3
        BY <4>3, <2>4, <2>5
      <4>4. CASE k = 4
        BY <4>4, <2>4, <2>5
      <4>5. CASE k = 5
        BY <4>5, <2>4, <2>5
      <4> QED BY <4>1, <4>2, <4>3, <4>4, <4>5
    <3> QED BY <3>1, <1>2 DEF Lcx!Stands
  <2> QED BY <2>4, <2>5, <2>6
<1>3. ASSUME m = "-tran", m1 = <<"lcx">> \o Lcx!Usage[m] PROVE Lcx!Arg(1) = "lcx" /\ Lcx!Stands(m, 2) /\ Lcx!Arg(Len(Lcx!Usage[m]) + 2) = Lcx!NULL
  <2>1. PICK a, b : a = <<"lcx">> /\ b = <<"-tran", "p1", "h2", "p2">> /\ m1 = a \o b
    BY <1>3, LcxUsage DEF Lcx!Log
  <2>at. a \in Seq(Lcx!Words) /\ Len(a) = 1
    BY <2>1 DEF Lcx!Words
  <2>aw. a[1] = "lcx"
    BY <2>1
  <2>bt. b \in Seq(Lcx!Words) /\ Len(b) = 4
    BY <2>1 DEF Lcx!Words
  <2>bw. b[1] = "-tran" /\ b[2] = "p1" /\ b[3] = "h2" /\ b[4] = "p2"
    BY <2>1
  <2>f. m1 = a \o b
    BY <2>1
  <2>xj. Lcx!Joined(m1, a, b)
    BY <2>f, <2>at, <2>bt, LcxJoin
  <2>xl. /\ m1 \in Seq(Lcx!Words) /\ Len(m1) = Len(a) + Len(b)
         /\ \A k \in 1 .. Len(a) : m1[k] = a[k]
         /\ \A k \in Len(a) + 1 .. Len(a) + Len(b) : m1[k] = b[k - Len(a)]
    BY <2>xj DEF Lcx!Joined
  <2>xm. Len(a) = 1 /\ Len(b) = 4
    BY <2>at, <2>bt
  <2>xt. m1 \in Seq(Lcx!Words) /\ Len(m1) = 5
    BY <2>xl, <2>xm
  <2>xu. \A k \in 1 .. 1 : m1[k] = a[k]
    BY <2>xl, <2>xm
  <2>xv. \A k \in 2 .. 5 : m1[k] = b[k - 1]
    BY <2>xl, <2>xm
  <2>xw. m1[1] = "lcx" /\ m1[2] = "-tran" /\ m1[3] = "p1" /\ m1[4] = "h2" /\ m1[5] = "p2"
    BY <2>xu, <2>xv, <2>aw, <2>bw
  <2>h. PICK H \in Nat : H = 5 /\ Len(m1) = H /\ m1 \in Seq(Lcx!Words)
    BY <2>xt
  <2>i. /\ \A k \in 1 .. H : Lcx!Arg(k) = m1[k]
        /\ Lcx!Arg(H + 1) = Lcx!NULL /\ Lcx!Arg(H + 2) = "env" /\ Lcx!Arg(H + 3) = "env"
    BY <2>h, LcxMemory
  <2>j. /\ \A k \in 1 .. 5 : Lcx!Arg(k) = m1[k]
        /\ Lcx!Arg(6) = Lcx!NULL /\ Lcx!Arg(7) = "env" /\ Lcx!Arg(8) = "env"
    BY <2>h, <2>i
  <2>4. Lcx!Arg(1) = "lcx" /\ Lcx!Arg(2) = "-tran" /\ Lcx!Arg(3) = "p1" /\ Lcx!Arg(4) = "h2" /\ Lcx!Arg(5) = "p2"
        /\ Lcx!Arg(6) = Lcx!NULL /\ Lcx!Arg(7) = "env" /\ Lcx!Arg(8) = "env"
    BY <2>j, <2>xw
  <2>5. Len(Lcx!Usage[m]) = 4 /\ Lcx!Usage[m][1] = "-tran" /\ Lcx!Usage[m][2] = "p1" /\ Lcx!Usage[m][3] = "h2" /\ Lcx!Usage[m][4] = "p2"
    BY <1>3, LcxUsage
  <2>6. Lcx!Stands(m, 2)
    <3>1. \A k \in 1 .. Len(Lcx!Usage[m]) : Lcx!Arg(2 + k - 1) = Lcx!Usage[m][k]
      <4> SUFFICES ASSUME NEW k \in 1 .. 4 PROVE Lcx!Arg(2 + k - 1) = Lcx!Usage[m][k]
        BY <2>5
      <4>1. CASE k = 1
        BY <4>1, <2>4, <2>5
      <4>2. CASE k = 2
        BY <4>2, <2>4, <2>5
      <4>3. CASE k = 3
        BY <4>3, <2>4, <2>5
      <4>4. CASE k = 4
        BY <4>4, <2>4, <2>5
      <4> QED BY <4>1, <4>2, <4>3, <4>4
    <3>2. Lcx!testifisvalue(Lcx!Arg(2 + 5))
      BY <2>4, LcxValue
    <3> QED BY <3>1, <3>2 DEF Lcx!Stands
  <2> QED BY <2>4, <2>5, <2>6
<1> QED BY <1>1, <1>2, <1>3, LcxUsage

LEMMA LcxPlainLen ==
  ASSUME NEW m \in DOMAIN Lcx!Usage
  PROVE  m1 = <<"lcx">> \o Lcx!Usage[m] => Len(m1) = Len(Lcx!Usage[m]) + 1
<1>l. <<"-listen", "p1", "p2">> \in Seq(Lcx!Words)
  BY DEF Lcx!Words
<1>s. <<"-slave", "h1", "p1", "h2", "p2">> \in Seq(Lcx!Words)
  BY DEF Lcx!Words
<1>t. <<"-tran", "p1", "h2", "p2">> \in Seq(Lcx!Words)
  BY DEF Lcx!Words
<1>u. Lcx!Usage[m] \in Seq(Lcx!Words)
  BY <1>l, <1>s, <1>t, LcxUsage, Zenon
<1>1. Lcx!Usage[m] \in Seq(Lcx!Words) /\ <<"lcx">> \in Seq(Lcx!Words) /\ Len(<<"lcx">>) = 1 /\ Len(Lcx!Usage[m]) \in Nat
  BY <1>u DEF Lcx!Words
<1>2. ASSUME NEW a, NEW b, a \in Seq(Lcx!Words), b \in Seq(Lcx!Words), m1 = a \o b PROVE Len(m1) = Len(a) + Len(b)
  <2>1. Lcx!Joined(m1, a, b)
    BY <1>2, LcxJoin
  <2> QED BY <2>1 DEF Lcx!Joined
<1> QED BY <1>1, <1>2

LEMMA LcxAfter ==
  ASSUME NEW m \in DOMAIN Lcx!Usage
  PROVE  m1 = <<"lcx">> \o Lcx!Usage[m] \o Lcx!Log => Lcx!Arg(1) = "lcx" /\ Lcx!Stands(m, 2) /\ Lcx!Arg(Len(Lcx!Usage[m]) + 2) = "-log" /\ Lcx!Arg(Len(Lcx!Usage[m]) + 3) = "f" /\ Lcx!Arg(Len(Lcx!Usage[m]) + 4) = Lcx!NULL
<1>1. ASSUME m = "-listen", m1 = <<"lcx">> \o Lcx!Usage[m] \o Lcx!Log PROVE Lcx!Arg(1) = "lcx" /\ Lcx!Stands(m, 2) /\ Lcx!Arg(Len(Lcx!Usage[m]) + 2) = "-log" /\ Lcx!Arg(Len(Lcx!Usage[m]) + 3) = "f" /\ Lcx!Arg(Len(Lcx!Usage[m]) + 4) = Lcx!NULL
  <2>1. PICK a, b, c : a = <<"lcx">> /\ b = <<"-listen", "p1", "p2">> /\ c = <<"-log", "f">> /\ m1 = a \o b \o c
    BY <1>1, LcxUsage DEF Lcx!Log
  <2>at. a \in Seq(Lcx!Words) /\ Len(a) = 1
    BY <2>1 DEF Lcx!Words
  <2>aw. a[1] = "lcx"
    BY <2>1
  <2>bt. b \in Seq(Lcx!Words) /\ Len(b) = 3
    BY <2>1 DEF Lcx!Words
  <2>bw. b[1] = "-listen" /\ b[2] = "p1" /\ b[3] = "p2"
    BY <2>1
  <2>ct. c \in Seq(Lcx!Words) /\ Len(c) = 2
    BY <2>1 DEF Lcx!Words
  <2>cw. c[1] = "-log" /\ c[2] = "f"
    BY <2>1
  <2>e. PICK d : d = a \o b
    OBVIOUS
  <2>f. m1 = d \o c
    BY <2>1, <2>e
  <2>dj. Lcx!Joined(d, a, b)
    BY <2>e, <2>at, <2>bt, LcxJoin
  <2>dl. /\ d \in Seq(Lcx!Words) /\ Len(d) = Len(a) + Len(b)
         /\ \A k \in 1 .. Len(a) : d[k] = a[k]
         /\ \A k \in Len(a) + 1 .. Len(a) + Len(b) : d[k] = b[k - Len(a)]
    BY <2>dj DEF Lcx!Joined
  <2>dm. Len(a) = 1 /\ Len(b) = 3
    BY <2>at, <2>bt
  <2>dt. d \in Seq(Lcx!Words) /\ Len(d) = 4
    BY <2>dl, <2>dm
  <2>du. \A k \in 1 .. 1 : d[k] = a[k]
    BY <2>dl, <2>dm
  <2>dv. \A k \in 2 .. 4 : d[k] = b[k - 1]
    BY <2>dl, <2>dm
  <2>dw. d[1] = "lcx" /\ d[2] = "-listen" /\ d[3] = "p1" /\ d[4] = "p2"
    BY <2>du, <2>dv, <2>aw, <2>bw
  <2>xj. Lcx!Joined(m1, d, c)
    BY <2>f, <2>dt, <2>ct, LcxJoin
  <2>xl. /\ m1 \in Seq(Lcx!Words) /\ Len(m1) = Len(d) + Len(c)
         /\ \A k \in 1 .. Len(d) : m1[k] = d[k]
         /\ \A k \in Len(d) + 1 .. Len(d) + Len(c) : m1[k] = c[k - Len(d)]
    BY <2>xj DEF Lcx!Joined
  <2>xm. Len(d) = 4 /\ Len(c) = 2
    BY <2>dt, <2>ct
  <2>xt. m1 \in Seq(Lcx!Words) /\ Len(m1) = 6
    BY <2>xl, <2>xm
  <2>xu. \A k \in 1 .. 4 : m1[k] = d[k]
    BY <2>xl, <2>xm
  <2>xv. \A k \in 5 .. 6 : m1[k] = c[k - 4]
    BY <2>xl, <2>xm
  <2>xw. m1[1] = "lcx" /\ m1[2] = "-listen" /\ m1[3] = "p1" /\ m1[4] = "p2" /\ m1[5] = "-log" /\ m1[6] = "f"
    BY <2>xu, <2>xv, <2>dw, <2>cw
  <2>h. PICK H \in Nat : H = 6 /\ Len(m1) = H /\ m1 \in Seq(Lcx!Words)
    BY <2>xt
  <2>i. /\ \A k \in 1 .. H : Lcx!Arg(k) = m1[k]
        /\ Lcx!Arg(H + 1) = Lcx!NULL /\ Lcx!Arg(H + 2) = "env" /\ Lcx!Arg(H + 3) = "env"
    BY <2>h, LcxMemory
  <2>j. /\ \A k \in 1 .. 6 : Lcx!Arg(k) = m1[k]
        /\ Lcx!Arg(7) = Lcx!NULL /\ Lcx!Arg(8) = "env" /\ Lcx!Arg(9) = "env"
    BY <2>h, <2>i
  <2>4. Lcx!Arg(1) = "lcx" /\ Lcx!Arg(2) = "-listen" /\ Lcx!Arg(3) = "p1" /\ Lcx!Arg(4) = "p2" /\ Lcx!Arg(5) = "-log" /\ Lcx!Arg(6) = "f"
        /\ Lcx!Arg(7) = Lcx!NULL /\ Lcx!Arg(8) = "env" /\ Lcx!Arg(9) = "env"
    BY <2>j, <2>xw
  <2>5. Len(Lcx!Usage[m]) = 3 /\ Lcx!Usage[m][1] = "-listen" /\ Lcx!Usage[m][2] = "p1" /\ Lcx!Usage[m][3] = "p2"
    BY <1>1, LcxUsage
  <2>6. Lcx!Stands(m, 2)
    <3>1. \A k \in 1 .. Len(Lcx!Usage[m]) : Lcx!Arg(2 + k - 1) = Lcx!Usage[m][k]
      <4> SUFFICES ASSUME NEW k \in 1 .. 3 PROVE Lcx!Arg(2 + k - 1) = Lcx!Usage[m][k]
        BY <2>5
      <4>1. CASE k = 1
        BY <4>1, <2>4, <2>5
      <4>2. CASE k = 2
        BY <4>2, <2>4, <2>5
      <4>3. CASE k = 3
        BY <4>3, <2>4, <2>5
      <4> QED BY <4>1, <4>2, <4>3
    <3> QED BY <3>1, <1>1 DEF Lcx!Stands
  <2> QED BY <2>4, <2>5, <2>6
<1>2. ASSUME m = "-slave", m1 = <<"lcx">> \o Lcx!Usage[m] \o Lcx!Log PROVE Lcx!Arg(1) = "lcx" /\ Lcx!Stands(m, 2) /\ Lcx!Arg(Len(Lcx!Usage[m]) + 2) = "-log" /\ Lcx!Arg(Len(Lcx!Usage[m]) + 3) = "f" /\ Lcx!Arg(Len(Lcx!Usage[m]) + 4) = Lcx!NULL
  <2>1. PICK a, b, c : a = <<"lcx">> /\ b = <<"-slave", "h1", "p1", "h2", "p2">> /\ c = <<"-log", "f">> /\ m1 = a \o b \o c
    BY <1>2, LcxUsage DEF Lcx!Log
  <2>at. a \in Seq(Lcx!Words) /\ Len(a) = 1
    BY <2>1 DEF Lcx!Words
  <2>aw. a[1] = "lcx"
    BY <2>1
  <2>bt. b \in Seq(Lcx!Words) /\ Len(b) = 5
    BY <2>1 DEF Lcx!Words
  <2>bw. b[1] = "-slave" /\ b[2] = "h1" /\ b[3] = "p1" /\ b[4] = "h2" /\ b[5] = "p2"
    BY <2>1
  <2>ct. c \in Seq(Lcx!Words) /\ Len(c) = 2
    BY <2>1 DEF Lcx!Words
  <2>cw. c[1] = "-log" /\ c[2] = "f"
    BY <2>1
  <2>e. PICK d : d = a \o b
    OBVIOUS
  <2>f. m1 = d \o c
    BY <2>1, <2>e
  <2>dj. Lcx!Joined(d, a, b)
    BY <2>e, <2>at, <2>bt, LcxJoin
  <2>dl. /\ d \in Seq(Lcx!Words) /\ Len(d) = Len(a) + Len(b)
         /\ \A k \in 1 .. Len(a) : d[k] = a[k]
         /\ \A k \in Len(a) + 1 .. Len(a) + Len(b) : d[k] = b[k - Len(a)]
    BY <2>dj DEF Lcx!Joined
  <2>dm. Len(a) = 1 /\ Len(b) = 5
    BY <2>at, <2>bt
  <2>dt. d \in Seq(Lcx!Words) /\ Len(d) = 6
    BY <2>dl, <2>dm
  <2>du. \A k \in 1 .. 1 : d[k] = a[k]
    BY <2>dl, <2>dm
  <2>dv. \A k \in 2 .. 6 : d[k] = b[k - 1]
    BY <2>dl, <2>dm
  <2>dw. d[1] = "lcx" /\ d[2] = "-slave" /\ d[3] = "h1" /\ d[4] = "p1" /\ d[5] = "h2" /\ d[6] = "p2"
    BY <2>du, <2>dv, <2>aw, <2>bw
  <2>xj. Lcx!Joined(m1, d, c)
    BY <2>f, <2>dt, <2>ct, LcxJoin
  <2>xl. /\ m1 \in Seq(Lcx!Words) /\ Len(m1) = Len(d) + Len(c)
         /\ \A k \in 1 .. Len(d) : m1[k] = d[k]
         /\ \A k \in Len(d) + 1 .. Len(d) + Len(c) : m1[k] = c[k - Len(d)]
    BY <2>xj DEF Lcx!Joined
  <2>xm. Len(d) = 6 /\ Len(c) = 2
    BY <2>dt, <2>ct
  <2>xt. m1 \in Seq(Lcx!Words) /\ Len(m1) = 8
    BY <2>xl, <2>xm
  <2>xu. \A k \in 1 .. 6 : m1[k] = d[k]
    BY <2>xl, <2>xm
  <2>xv. \A k \in 7 .. 8 : m1[k] = c[k - 6]
    BY <2>xl, <2>xm
  <2>xw. m1[1] = "lcx" /\ m1[2] = "-slave" /\ m1[3] = "h1" /\ m1[4] = "p1" /\ m1[5] = "h2" /\ m1[6] = "p2" /\ m1[7] = "-log" /\ m1[8] = "f"
    BY <2>xu, <2>xv, <2>dw, <2>cw
  <2>h. PICK H \in Nat : H = 8 /\ Len(m1) = H /\ m1 \in Seq(Lcx!Words)
    BY <2>xt
  <2>i. /\ \A k \in 1 .. H : Lcx!Arg(k) = m1[k]
        /\ Lcx!Arg(H + 1) = Lcx!NULL /\ Lcx!Arg(H + 2) = "env" /\ Lcx!Arg(H + 3) = "env"
    BY <2>h, LcxMemory
  <2>j. /\ \A k \in 1 .. 8 : Lcx!Arg(k) = m1[k]
        /\ Lcx!Arg(9) = Lcx!NULL /\ Lcx!Arg(10) = "env" /\ Lcx!Arg(11) = "env"
    BY <2>h, <2>i
  <2>4. Lcx!Arg(1) = "lcx" /\ Lcx!Arg(2) = "-slave" /\ Lcx!Arg(3) = "h1" /\ Lcx!Arg(4) = "p1" /\ Lcx!Arg(5) = "h2" /\ Lcx!Arg(6) = "p2" /\ Lcx!Arg(7) = "-log" /\ Lcx!Arg(8) = "f"
        /\ Lcx!Arg(9) = Lcx!NULL /\ Lcx!Arg(10) = "env" /\ Lcx!Arg(11) = "env"
    BY <2>j, <2>xw
  <2>5. Len(Lcx!Usage[m]) = 5 /\ Lcx!Usage[m][1] = "-slave" /\ Lcx!Usage[m][2] = "h1" /\ Lcx!Usage[m][3] = "p1" /\ Lcx!Usage[m][4] = "h2" /\ Lcx!Usage[m][5] = "p2"
    BY <1>2, LcxUsage
  <2>6. Lcx!Stands(m, 2)
    <3>1. \A k \in 1 .. Len(Lcx!Usage[m]) : Lcx!Arg(2 + k - 1) = Lcx!Usage[m][k]
      <4> SUFFICES ASSUME NEW k \in 1 .. 5 PROVE Lcx!Arg(2 + k - 1) = Lcx!Usage[m][k]
        BY <2>5
      <4>1. CASE k = 1
        BY <4>1, <2>4, <2>5
      <4>2. CASE k = 2
        BY <4>2, <2>4, <2>5
      <4>3. CASE k = 3
        BY <4>3, <2>4, <2>5
      <4>4. CASE k = 4
        BY <4>4, <2>4, <2>5
      <4>5. CASE k = 5
        BY <4>5, <2>4, <2>5
      <4> QED BY <4>1, <4>2, <4>3, <4>4, <4>5
    <3> QED BY <3>1, <1>2 DEF Lcx!Stands
  <2> QED BY <2>4, <2>5, <2>6
<1>3. ASSUME m = "-tran", m1 = <<"lcx">> \o Lcx!Usage[m] \o Lcx!Log PROVE Lcx!Arg(1) = "lcx" /\ Lcx!Stands(m, 2) /\ Lcx!Arg(Len(Lcx!Usage[m]) + 2) = "-log" /\ Lcx!Arg(Len(Lcx!Usage[m]) + 3) = "f" /\ Lcx!Arg(Len(Lcx!Usage[m]) + 4) = Lcx!NULL
  <2>1. PICK a, b, c : a = <<"lcx">> /\ b = <<"-tran", "p1", "h2", "p2">> /\ c = <<"-log", "f">> /\ m1 = a \o b \o c
    BY <1>3, LcxUsage DEF Lcx!Log
  <2>at. a \in Seq(Lcx!Words) /\ Len(a) = 1
    BY <2>1 DEF Lcx!Words
  <2>aw. a[1] = "lcx"
    BY <2>1
  <2>bt. b \in Seq(Lcx!Words) /\ Len(b) = 4
    BY <2>1 DEF Lcx!Words
  <2>bw. b[1] = "-tran" /\ b[2] = "p1" /\ b[3] = "h2" /\ b[4] = "p2"
    BY <2>1
  <2>ct. c \in Seq(Lcx!Words) /\ Len(c) = 2
    BY <2>1 DEF Lcx!Words
  <2>cw. c[1] = "-log" /\ c[2] = "f"
    BY <2>1
  <2>e. PICK d : d = a \o b
    OBVIOUS
  <2>f. m1 = d \o c
    BY <2>1, <2>e
  <2>dj. Lcx!Joined(d, a, b)
    BY <2>e, <2>at, <2>bt, LcxJoin
  <2>dl. /\ d \in Seq(Lcx!Words) /\ Len(d) = Len(a) + Len(b)
         /\ \A k \in 1 .. Len(a) : d[k] = a[k]
         /\ \A k \in Len(a) + 1 .. Len(a) + Len(b) : d[k] = b[k - Len(a)]
    BY <2>dj DEF Lcx!Joined
  <2>dm. Len(a) = 1 /\ Len(b) = 4
    BY <2>at, <2>bt
  <2>dt. d \in Seq(Lcx!Words) /\ Len(d) = 5
    BY <2>dl, <2>dm
  <2>du. \A k \in 1 .. 1 : d[k] = a[k]
    BY <2>dl, <2>dm
  <2>dv. \A k \in 2 .. 5 : d[k] = b[k - 1]
    BY <2>dl, <2>dm
  <2>dw. d[1] = "lcx" /\ d[2] = "-tran" /\ d[3] = "p1" /\ d[4] = "h2" /\ d[5] = "p2"
    BY <2>du, <2>dv, <2>aw, <2>bw
  <2>xj. Lcx!Joined(m1, d, c)
    BY <2>f, <2>dt, <2>ct, LcxJoin
  <2>xl. /\ m1 \in Seq(Lcx!Words) /\ Len(m1) = Len(d) + Len(c)
         /\ \A k \in 1 .. Len(d) : m1[k] = d[k]
         /\ \A k \in Len(d) + 1 .. Len(d) + Len(c) : m1[k] = c[k - Len(d)]
    BY <2>xj DEF Lcx!Joined
  <2>xm. Len(d) = 5 /\ Len(c) = 2
    BY <2>dt, <2>ct
  <2>xt. m1 \in Seq(Lcx!Words) /\ Len(m1) = 7
    BY <2>xl, <2>xm
  <2>xu. \A k \in 1 .. 5 : m1[k] = d[k]
    BY <2>xl, <2>xm
  <2>xv. \A k \in 6 .. 7 : m1[k] = c[k - 5]
    BY <2>xl, <2>xm
  <2>xw. m1[1] = "lcx" /\ m1[2] = "-tran" /\ m1[3] = "p1" /\ m1[4] = "h2" /\ m1[5] = "p2" /\ m1[6] = "-log" /\ m1[7] = "f"
    BY <2>xu, <2>xv, <2>dw, <2>cw
  <2>h. PICK H \in Nat : H = 7 /\ Len(m1) = H /\ m1 \in Seq(Lcx!Words)
    BY <2>xt
  <2>i. /\ \A k \in 1 .. H : Lcx!Arg(k) = m1[k]
        /\ Lcx!Arg(H + 1) = Lcx!NULL /\ Lcx!Arg(H + 2) = "env" /\ Lcx!Arg(H + 3) = "env"
    BY <2>h, LcxMemory
  <2>j. /\ \A k \in 1 .. 7 : Lcx!Arg(k) = m1[k]
        /\ Lcx!Arg(8) = Lcx!NULL /\ Lcx!Arg(9) = "env" /\ Lcx!Arg(10) = "env"
    BY <2>h, <2>i
  <2>4. Lcx!Arg(1) = "lcx" /\ Lcx!Arg(2) = "-tran" /\ Lcx!Arg(3) = "p1" /\ Lcx!Arg(4) = "h2" /\ Lcx!Arg(5) = "p2" /\ Lcx!Arg(6) = "-log" /\ Lcx!Arg(7) = "f"
        /\ Lcx!Arg(8) = Lcx!NULL /\ Lcx!Arg(9) = "env" /\ Lcx!Arg(10) = "env"
    BY <2>j, <2>xw
  <2>5. Len(Lcx!Usage[m]) = 4 /\ Lcx!Usage[m][1] = "-tran" /\ Lcx!Usage[m][2] = "p1" /\ Lcx!Usage[m][3] = "h2" /\ Lcx!Usage[m][4] = "p2"
    BY <1>3, LcxUsage
  <2>6. Lcx!Stands(m, 2)
    <3>1. \A k \in 1 .. Len(Lcx!Usage[m]) : Lcx!Arg(2 + k - 1) = Lcx!Usage[m][k]
      <4> SUFFICES ASSUME NEW k \in 1 .. 4 PROVE Lcx!Arg(2 + k - 1) = Lcx!Usage[m][k]
        BY <2>5
      <4>1. CASE k = 1
        BY <4>1, <2>4, <2>5
      <4>2. CASE k = 2
        BY <4>2, <2>4, <2>5
      <4>3. CASE k = 3
        BY <4>3, <2>4, <2>5
      <4>4. CASE k = 4
        BY <4>4, <2>4, <2>5
      <4> QED BY <4>1, <4>2, <4>3, <4>4
    <3>2. Lcx!testifisvalue(Lcx!Arg(2 + 5))
      BY <2>4, LcxValue
    <3> QED BY <3>1, <3>2 DEF Lcx!Stands
  <2> QED BY <2>4, <2>5, <2>6
<1> QED BY <1>1, <1>2, <1>3, LcxUsage

LEMMA LcxBefore ==
  ASSUME NEW m \in DOMAIN Lcx!Usage
  PROVE  m1 = <<"lcx">> \o Lcx!Log \o Lcx!Usage[m] => Lcx!Arg(1) = "lcx" /\ Lcx!Stands(m, 4) /\ Lcx!Arg(2) = "-log" /\ Lcx!Arg(3) = "f" /\ Lcx!Arg(Len(Lcx!Usage[m]) + 4) = Lcx!NULL
<1>1. ASSUME m = "-listen", m1 = <<"lcx">> \o Lcx!Log \o Lcx!Usage[m] PROVE Lcx!Arg(1) = "lcx" /\ Lcx!Stands(m, 4) /\ Lcx!Arg(2) = "-log" /\ Lcx!Arg(3) = "f" /\ Lcx!Arg(Len(Lcx!Usage[m]) + 4) = Lcx!NULL
  <2>1. PICK a, b, c : a = <<"lcx">> /\ b = <<"-log", "f">> /\ c = <<"-listen", "p1", "p2">> /\ m1 = a \o b \o c
    BY <1>1, LcxUsage DEF Lcx!Log
  <2>at. a \in Seq(Lcx!Words) /\ Len(a) = 1
    BY <2>1 DEF Lcx!Words
  <2>aw. a[1] = "lcx"
    BY <2>1
  <2>bt. b \in Seq(Lcx!Words) /\ Len(b) = 2
    BY <2>1 DEF Lcx!Words
  <2>bw. b[1] = "-log" /\ b[2] = "f"
    BY <2>1
  <2>ct. c \in Seq(Lcx!Words) /\ Len(c) = 3
    BY <2>1 DEF Lcx!Words
  <2>cw. c[1] = "-listen" /\ c[2] = "p1" /\ c[3] = "p2"
    BY <2>1
  <2>e. PICK d : d = a \o b
    OBVIOUS
  <2>f. m1 = d \o c
    BY <2>1, <2>e
  <2>dj. Lcx!Joined(d, a, b)
    BY <2>e, <2>at, <2>bt, LcxJoin
  <2>dl. /\ d \in Seq(Lcx!Words) /\ Len(d) = Len(a) + Len(b)
         /\ \A k \in 1 .. Len(a) : d[k] = a[k]
         /\ \A k \in Len(a) + 1 .. Len(a) + Len(b) : d[k] = b[k - Len(a)]
    BY <2>dj DEF Lcx!Joined
  <2>dm. Len(a) = 1 /\ Len(b) = 2
    BY <2>at, <2>bt
  <2>dt. d \in Seq(Lcx!Words) /\ Len(d) = 3
    BY <2>dl, <2>dm
  <2>du. \A k \in 1 .. 1 : d[k] = a[k]
    BY <2>dl, <2>dm
  <2>dv. \A k \in 2 .. 3 : d[k] = b[k - 1]
    BY <2>dl, <2>dm
  <2>dw. d[1] = "lcx" /\ d[2] = "-log" /\ d[3] = "f"
    BY <2>du, <2>dv, <2>aw, <2>bw
  <2>xj. Lcx!Joined(m1, d, c)
    BY <2>f, <2>dt, <2>ct, LcxJoin
  <2>xl. /\ m1 \in Seq(Lcx!Words) /\ Len(m1) = Len(d) + Len(c)
         /\ \A k \in 1 .. Len(d) : m1[k] = d[k]
         /\ \A k \in Len(d) + 1 .. Len(d) + Len(c) : m1[k] = c[k - Len(d)]
    BY <2>xj DEF Lcx!Joined
  <2>xm. Len(d) = 3 /\ Len(c) = 3
    BY <2>dt, <2>ct
  <2>xt. m1 \in Seq(Lcx!Words) /\ Len(m1) = 6
    BY <2>xl, <2>xm
  <2>xu. \A k \in 1 .. 3 : m1[k] = d[k]
    BY <2>xl, <2>xm
  <2>xv. \A k \in 4 .. 6 : m1[k] = c[k - 3]
    BY <2>xl, <2>xm
  <2>xw. m1[1] = "lcx" /\ m1[2] = "-log" /\ m1[3] = "f" /\ m1[4] = "-listen" /\ m1[5] = "p1" /\ m1[6] = "p2"
    BY <2>xu, <2>xv, <2>dw, <2>cw
  <2>h. PICK H \in Nat : H = 6 /\ Len(m1) = H /\ m1 \in Seq(Lcx!Words)
    BY <2>xt
  <2>i. /\ \A k \in 1 .. H : Lcx!Arg(k) = m1[k]
        /\ Lcx!Arg(H + 1) = Lcx!NULL /\ Lcx!Arg(H + 2) = "env" /\ Lcx!Arg(H + 3) = "env"
    BY <2>h, LcxMemory
  <2>j. /\ \A k \in 1 .. 6 : Lcx!Arg(k) = m1[k]
        /\ Lcx!Arg(7) = Lcx!NULL /\ Lcx!Arg(8) = "env" /\ Lcx!Arg(9) = "env"
    BY <2>h, <2>i
  <2>4. Lcx!Arg(1) = "lcx" /\ Lcx!Arg(2) = "-log" /\ Lcx!Arg(3) = "f" /\ Lcx!Arg(4) = "-listen" /\ Lcx!Arg(5) = "p1" /\ Lcx!Arg(6) = "p2"
        /\ Lcx!Arg(7) = Lcx!NULL /\ Lcx!Arg(8) = "env" /\ Lcx!Arg(9) = "env"
    BY <2>j, <2>xw
  <2>5. Len(Lcx!Usage[m]) = 3 /\ Lcx!Usage[m][1] = "-listen" /\ Lcx!Usage[m][2] = "p1" /\ Lcx!Usage[m][3] = "p2"
    BY <1>1, LcxUsage
  <2>6. Lcx!Stands(m, 4)
    <3>1. \A k \in 1 .. Len(Lcx!Usage[m]) : Lcx!Arg(4 + k - 1) = Lcx!Usage[m][k]
      <4> SUFFICES ASSUME NEW k \in 1 .. 3 PROVE Lcx!Arg(4 + k - 1) = Lcx!Usage[m][k]
        BY <2>5
      <4>1. CASE k = 1
        BY <4>1, <2>4, <2>5
      <4>2. CASE k = 2
        BY <4>2, <2>4, <2>5
      <4>3. CASE k = 3
        BY <4>3, <2>4, <2>5
      <4> QED BY <4>1, <4>2, <4>3
    <3> QED BY <3>1, <1>1 DEF Lcx!Stands
  <2> QED BY <2>4, <2>5, <2>6
<1>2. ASSUME m = "-slave", m1 = <<"lcx">> \o Lcx!Log \o Lcx!Usage[m] PROVE Lcx!Arg(1) = "lcx" /\ Lcx!Stands(m, 4) /\ Lcx!Arg(2) = "-log" /\ Lcx!Arg(3) = "f" /\ Lcx!Arg(Len(Lcx!Usage[m]) + 4) = Lcx!NULL
  <2>1. PICK a, b, c : a = <<"lcx">> /\ b = <<"-log", "f">> /\ c = <<"-slave", "h1", "p1", "h2", "p2">> /\ m1 = a \o b \o c
    BY <1>2, LcxUsage DEF Lcx!Log
  <2>at. a \in Seq(Lcx!Words) /\ Len(a) = 1
    BY <2>1 DEF Lcx!Words
  <2>aw. a[1] = "lcx"
    BY <2>1
  <2>bt. b \in Seq(Lcx!Words) /\ Len(b) = 2
    BY <2>1 DEF Lcx!Words
  <2>bw. b[1] = "-log" /\ b[2] = "f"
    BY <2>1
  <2>ct. c \in Seq(Lcx!Words) /\ Len(c) = 5
    BY <2>1 DEF Lcx!Words
  <2>cw. c[1] = "-slave" /\ c[2] = "h1" /\ c[3] = "p1" /\ c[4] = "h2" /\ c[5] = "p2"
    BY <2>1
  <2>e. PICK d : d = a \o b
    OBVIOUS
  <2>f. m1 = d \o c
    BY <2>1, <2>e
  <2>dj. Lcx!Joined(d, a, b)
    BY <2>e, <2>at, <2>bt, LcxJoin
  <2>dl. /\ d \in Seq(Lcx!Words) /\ Len(d) = Len(a) + Len(b)
         /\ \A k \in 1 .. Len(a) : d[k] = a[k]
         /\ \A k \in Len(a) + 1 .. Len(a) + Len(b) : d[k] = b[k - Len(a)]
    BY <2>dj DEF Lcx!Joined
  <2>dm. Len(a) = 1 /\ Len(b) = 2
    BY <2>at, <2>bt
  <2>dt. d \in Seq(Lcx!Words) /\ Len(d) = 3
    BY <2>dl, <2>dm
  <2>du. \A k \in 1 .. 1 : d[k] = a[k]
    BY <2>dl, <2>dm
  <2>dv. \A k \in 2 .. 3 : d[k] = b[k - 1]
    BY <2>dl, <2>dm
  <2>dw. d[1] = "lcx" /\ d[2] = "-log" /\ d[3] = "f"
    BY <2>du, <2>dv, <2>aw, <2>bw
  <2>xj. Lcx!Joined(m1, d, c)
    BY <2>f, <2>dt, <2>ct, LcxJoin
  <2>xl. /\ m1 \in Seq(Lcx!Words) /\ Len(m1) = Len(d) + Len(c)
         /\ \A k \in 1 .. Len(d) : m1[k] = d[k]
         /\ \A k \in Len(d) + 1 .. Len(d) + Len(c) : m1[k] = c[k - Len(d)]
    BY <2>xj DEF Lcx!Joined
  <2>xm. Len(d) = 3 /\ Len(c) = 5
    BY <2>dt, <2>ct
  <2>xt. m1 \in Seq(Lcx!Words) /\ Len(m1) = 8
    BY <2>xl, <2>xm
  <2>xu. \A k \in 1 .. 3 : m1[k] = d[k]
    BY <2>xl, <2>xm
  <2>xv. \A k \in 4 .. 8 : m1[k] = c[k - 3]
    BY <2>xl, <2>xm
  <2>xw. m1[1] = "lcx" /\ m1[2] = "-log" /\ m1[3] = "f" /\ m1[4] = "-slave" /\ m1[5] = "h1" /\ m1[6] = "p1" /\ m1[7] = "h2" /\ m1[8] = "p2"
    BY <2>xu, <2>xv, <2>dw, <2>cw
  <2>h. PICK H \in Nat : H = 8 /\ Len(m1) = H /\ m1 \in Seq(Lcx!Words)
    BY <2>xt
  <2>i. /\ \A k \in 1 .. H : Lcx!Arg(k) = m1[k]
        /\ Lcx!Arg(H + 1) = Lcx!NULL /\ Lcx!Arg(H + 2) = "env" /\ Lcx!Arg(H + 3) = "env"
    BY <2>h, LcxMemory
  <2>j. /\ \A k \in 1 .. 8 : Lcx!Arg(k) = m1[k]
        /\ Lcx!Arg(9) = Lcx!NULL /\ Lcx!Arg(10) = "env" /\ Lcx!Arg(11) = "env"
    BY <2>h, <2>i
  <2>4. Lcx!Arg(1) = "lcx" /\ Lcx!Arg(2) = "-log" /\ Lcx!Arg(3) = "f" /\ Lcx!Arg(4) = "-slave" /\ Lcx!Arg(5) = "h1" /\ Lcx!Arg(6) = "p1" /\ Lcx!Arg(7) = "h2" /\ Lcx!Arg(8) = "p2"
        /\ Lcx!Arg(9) = Lcx!NULL /\ Lcx!Arg(10) = "env" /\ Lcx!Arg(11) = "env"
    BY <2>j, <2>xw
  <2>5. Len(Lcx!Usage[m]) = 5 /\ Lcx!Usage[m][1] = "-slave" /\ Lcx!Usage[m][2] = "h1" /\ Lcx!Usage[m][3] = "p1" /\ Lcx!Usage[m][4] = "h2" /\ Lcx!Usage[m][5] = "p2"
    BY <1>2, LcxUsage
  <2>6. Lcx!Stands(m, 4)
    <3>1. \A k \in 1 .. Len(Lcx!Usage[m]) : Lcx!Arg(4 + k - 1) = Lcx!Usage[m][k]
      <4> SUFFICES ASSUME NEW k \in 1 .. 5 PROVE Lcx!Arg(4 + k - 1) = Lcx!Usage[m][k]
        BY <2>5
      <4>1. CASE k = 1
        BY <4>1, <2>4, <2>5
      <4>2. CASE k = 2
        BY <4>2, <2>4, <2>5
      <4>3. CASE k = 3
        BY <4>3, <2>4, <2>5
      <4>4. CASE k = 4
        BY <4>4, <2>4, <2>5
      <4>5. CASE k = 5
        BY <4>5, <2>4, <2>5
      <4> QED BY <4>1, <4>2, <4>3, <4>4, <4>5
    <3> QED BY <3>1, <1>2 DEF Lcx!Stands
  <2> QED BY <2>4, <2>5, <2>6
<1>3. ASSUME m = "-tran", m1 = <<"lcx">> \o Lcx!Log \o Lcx!Usage[m] PROVE Lcx!Arg(1) = "lcx" /\ Lcx!Stands(m, 4) /\ Lcx!Arg(2) = "-log" /\ Lcx!Arg(3) = "f" /\ Lcx!Arg(Len(Lcx!Usage[m]) + 4) = Lcx!NULL
  <2>1. PICK a, b, c : a = <<"lcx">> /\ b = <<"-log", "f">> /\ c = <<"-tran", "p1", "h2", "p2">> /\ m1 = a \o b \o c
    BY <1>3, LcxUsage DEF Lcx!Log
  <2>at. a \in Seq(Lcx!Words) /\ Len(a) = 1
    BY <2>1 DEF Lcx!Words
  <2>aw. a[1] = "lcx"
    BY <2>1
  <2>bt. b \in Seq(Lcx!Words) /\ Len(b) = 2
    BY <2>1 DEF Lcx!Words
  <2>bw. b[1] = "-log" /\ b[2] = "f"
    BY <2>1
  <2>ct. c \in Seq(Lcx!Words) /\ Len(c) = 4
    BY <2>1 DEF Lcx!Words
  <2>cw. c[1] = "-tran" /\ c[2] = "p1" /\ c[3] = "h2" /\ c[4] = "p2"
    BY <2>1
  <2>e. PICK d : d = a \o b
    OBVIOUS
  <2>f. m1 = d \o c
    BY <2>1, <2>e
  <2>dj. Lcx!Joined(d, a, b)
    BY <2>e, <2>at, <2>bt, LcxJoin
  <2>dl. /\ d \in Seq(Lcx!Words) /\ Len(d) = Len(a) + Len(b)
         /\ \A k \in 1 .. Len(a) : d[k] = a[k]
         /\ \A k \in Len(a) + 1 .. Len(a) + Len(b) : d[k] = b[k - Len(a)]
    BY <2>dj DEF Lcx!Joined
  <2>dm. Len(a) = 1 /\ Len(b) = 2
    BY <2>at, <2>bt
  <2>dt. d \in Seq(Lcx!Words) /\ Len(d) = 3
    BY <2>dl, <2>dm
  <2>du. \A k \in 1 .. 1 : d[k] = a[k]
    BY <2>dl, <2>dm
  <2>dv. \A k \in 2 .. 3 : d[k] = b[k - 1]
    BY <2>dl, <2>dm
  <2>dw. d[1] = "lcx" /\ d[2] = "-log" /\ d[3] = "f"
    BY <2>du, <2>dv, <2>aw, <2>bw
  <2>xj. Lcx!Joined(m1, d, c)
    BY <2>f, <2>dt, <2>ct, LcxJoin
  <2>xl. /\ m1 \in Seq(Lcx!Words) /\ Len(m1) = Len(d) + Len(c)
         /\ \A k \in 1 .. Len(d) : m1[k] = d[k]
         /\ \A k \in Len(d) + 1 .. Len(d) + Len(c) : m1[k] = c[k - Len(d)]
    BY <2>xj DEF Lcx!Joined
  <2>xm. Len(d) = 3 /\ Len(c) = 4
    BY <2>dt, <2>ct
  <2>xt. m1 \in Seq(Lcx!Words) /\ Len(m1) = 7
    BY <2>xl, <2>xm
  <2>xu. \A k \in 1 .. 3 : m1[k] = d[k]
    BY <2>xl, <2>xm
  <2>xv. \A k \in 4 .. 7 : m1[k] = c[k - 3]
    BY <2>xl, <2>xm
  <2>xw. m1[1] = "lcx" /\ m1[2] = "-log" /\ m1[3] = "f" /\ m1[4] = "-tran" /\ m1[5] = "p1" /\ m1[6] = "h2" /\ m1[7] = "p2"
    BY <2>xu, <2>xv, <2>dw, <2>cw
  <2>h. PICK H \in Nat : H = 7 /\ Len(m1) = H /\ m1 \in Seq(Lcx!Words)
    BY <2>xt
  <2>i. /\ \A k \in 1 .. H : Lcx!Arg(k) = m1[k]
        /\ Lcx!Arg(H + 1) = Lcx!NULL /\ Lcx!Arg(H + 2) = "env" /\ Lcx!Arg(H + 3) = "env"
    BY <2>h, LcxMemory
  <2>j. /\ \A k \in 1 .. 7 : Lcx!Arg(k) = m1[k]
        /\ Lcx!Arg(8) = Lcx!NULL /\ Lcx!Arg(9) = "env" /\ Lcx!Arg(10) = "env"
    BY <2>h, <2>i
  <2>4. Lcx!Arg(1) = "lcx" /\ Lcx!Arg(2) = "-log" /\ Lcx!Arg(3) = "f" /\ Lcx!Arg(4) = "-tran" /\ Lcx!Arg(5) = "p1" /\ Lcx!Arg(6) = "h2" /\ Lcx!Arg(7) = "p2"
        /\ Lcx!Arg(8) = Lcx!NULL /\ Lcx!Arg(9) = "env" /\ Lcx!Arg(10) = "env"
    BY <2>j, <2>xw
  <2>5. Len(Lcx!Usage[m]) = 4 /\ Lcx!Usage[m][1] = "-tran" /\ Lcx!Usage[m][2] = "p1" /\ Lcx!Usage[m][3] = "h2" /\ Lcx!Usage[m][4] = "p2"
    BY <1>3, LcxUsage
  <2>6. Lcx!Stands(m, 4)
    <3>1. \A k \in 1 .. Len(Lcx!Usage[m]) : Lcx!Arg(4 + k - 1) = Lcx!Usage[m][k]
      <4> SUFFICES ASSUME NEW k \in 1 .. 4 PROVE Lcx!Arg(4 + k - 1) = Lcx!Usage[m][k]
        BY <2>5
      <4>1. CASE k = 1
        BY <4>1, <2>4, <2>5
      <4>2. CASE k = 2
        BY <4>2, <2>4, <2>5
      <4>3. CASE k = 3
        BY <4>3, <2>4, <2>5
      <4>4. CASE k = 4
        BY <4>4, <2>4, <2>5
      <4> QED BY <4>1, <4>2, <4>3, <4>4
    <3>2. Lcx!testifisvalue(Lcx!Arg(4 + 5))
      BY <2>4, LcxValue
    <3> QED BY <3>1, <3>2 DEF Lcx!Stands
  <2> QED BY <2>4, <2>5, <2>6
<1> QED BY <1>1, <1>2, <1>3, LcxUsage

LEMMA LcxRead ==
  ASSUME Lcx!IInv, Lcx!ReadArg, NEW m \in DOMAIN Lcx!Usage
  PROVE  Lcx!Reading(m)'
<1>0. m3 = [f \in Lcx!Field |-> m3[f]] /\ Lcx!Reading(m) /\ m4 = "args" /\ Lcx!Arg(m2) # Lcx!NULL /\ m1' = m1
  BY DEF Lcx!IInv, Lcx!ReadArg
<1>n. PICK n \in Nat : n = Len(Lcx!Usage[m])
  BY LcxUsage
<1>1. ASSUME m1 = <<"lcx">> \o Lcx!Usage[m] PROVE m2' = 2 \/ (m2' = n + 2 /\ Lcx!Filled(m)')
  <2>1. m2 \in {1, 2} \/ m2 = n + 2
    BY <1>0, <1>1, <1>n DEF Lcx!Reading
  <2>2. Lcx!Arg(1) = "lcx" /\ Lcx!Stands(m, 2) /\ Lcx!Arg(n + 2) = Lcx!NULL
    BY <1>1, <1>n, LcxPlain
  <2>3. CASE m2 = 1
    BY <2>2, <2>3, <1>0, LcxName
  <2>4. CASE m2 = 2
    <3>1. Lcx!Stands(m, m2) /\ m2 \in Nat
      BY <2>2, <2>4
    <3> QED BY <3>1, <2>4, <1>0, <1>n, LcxOption
  <2>5. CASE m2 = n + 2
    BY <2>2, <2>5, <1>0
  <2> QED BY <2>1, <2>3, <2>4, <2>5
<1>2. ASSUME m1 = <<"lcx">> \o Lcx!Usage[m] \o Lcx!Log
      PROVE  m2' = 2 \/ (m2' = n + 2 /\ Lcx!Filled(m)') \/ (m2' = n + 4 /\ Lcx!Filled(m)' /\ m3'["log"] = "f")
  <2>1. m2 \in {1, 2} \/ (m2 = n + 2 /\ Lcx!Filled(m)) \/ m2 = n + 4
    BY <1>0, <1>2, <1>n DEF Lcx!Reading
  <2>2. Lcx!Arg(1) = "lcx" /\ Lcx!Stands(m, 2) /\ Lcx!Arg(n + 2) = "-log" /\ Lcx!Arg(n + 3) = "f" /\ Lcx!Arg(n + 4) = Lcx!NULL
    BY <1>2, <1>n, LcxAfter
  <2>3. CASE m2 = 1
    BY <2>2, <2>3, <1>0, LcxName
  <2>4. CASE m2 = 2
    <3>1. Lcx!Stands(m, m2) /\ m2 \in Nat
      BY <2>2, <2>4
    <3> QED BY <3>1, <2>4, <1>0, <1>n, LcxOption
  <2>5. CASE m2 = n + 2 /\ Lcx!Filled(m)
    <3>1. Lcx!Arg(m2) = "-log" /\ Lcx!Arg(m2 + 1) = "f" /\ m2 \in Nat /\ m2 + 2 = n + 4
      BY <2>2, <2>5
    <3>2. m2' = m2 + 2 /\ m3'["log"] = "f" /\ Lcx!Filled(m)'
      BY <3>1, <2>5, <1>0, LcxLog
    <3> QED BY <3>1, <3>2
  <2>6. CASE m2 = n + 4
    BY <2>2, <2>6, <1>0
  <2> QED BY <2>1, <2>3, <2>4, <2>5, <2>6
<1>3. ASSUME m1 = <<"lcx">> \o Lcx!Log \o Lcx!Usage[m]
      PROVE  m2' = 2 \/ (m2' = 4 /\ m3'["log"] = "f") \/ (m2' = n + 4 /\ Lcx!Filled(m)' /\ m3'["log"] = "f")
  <2>1. m2 \in {1, 2} \/ (m2 = 4 /\ m3["log"] = "f") \/ m2 = n + 4
    BY <1>0, <1>3, <1>n DEF Lcx!Reading
  <2>2. Lcx!Arg(1) = "lcx" /\ Lcx!Stands(m, 4) /\ Lcx!Arg(2) = "-log" /\ Lcx!Arg(3) = "f" /\ Lcx!Arg(n + 4) = Lcx!NULL
    BY <1>3, <1>n, LcxBefore
  <2>3. CASE m2 = 1
    BY <2>2, <2>3, <1>0, LcxName
  <2>4. CASE m2 = 2
    <3>1. Lcx!Arg(m2) = "-log" /\ Lcx!Arg(m2 + 1) = "f" /\ m2 \in Nat /\ m2 + 2 = 4
      BY <2>2, <2>4
    <3>2. m2' = m2 + 2 /\ m3'["log"] = "f"
      BY <3>1, <1>0, LcxLog
    <3> QED BY <3>1, <3>2
  <2>5. CASE m2 = 4 /\ m3["log"] = "f"
    <3>1. Lcx!Stands(m, m2) /\ m2 \in Nat
      BY <2>2, <2>5
    <3> QED BY <3>1, <2>5, <1>0, <1>n, LcxOption
  <2>6. CASE m2 = n + 4
    BY <2>2, <2>6, <1>0
  <2> QED BY <2>1, <2>3, <2>4, <2>5, <2>6
<1> QED BY <1>0, <1>n, <1>1, <1>2, <1>3 DEF Lcx!Reading

LEMMA LcxFds ==
  ASSUME Lcx!IInv, Lcx!bind2bind \/ Lcx!bind2conn \/ Lcx!conn2conn \/ Lcx!Fork \/ Lcx!closeallfd
  PROVE  Lcx!IInv'
<1>1. UNCHANGED m3 /\ Lcx!Listeners' = Lcx!Listeners
  BY DEF Lcx!bind2bind, Lcx!bind2conn, Lcx!conn2conn, Lcx!Fork, Lcx!closeallfd, Lcx!Goto, Lcx!Listeners
<1>2. Lcx!Listeners \subseteq {"fd1", "fd2"}
  BY DEF Lcx!Listeners
<1>3. m4' # "args"
  BY DEF Lcx!bind2bind, Lcx!bind2conn, Lcx!conn2conn, Lcx!Fork, Lcx!closeallfd, Lcx!Goto
<1>4. m3' = [f \in Lcx!Field |-> m3'[f]]
  BY <1>1 DEF Lcx!IInv
<1>5. /\ m4' = "loop" => m5' = Lcx!Listeners
      /\ m4' = "second" => m5' = Lcx!Listeners \cup {"s1"}
      /\ m4' \in {"connect", "fork"} => m5' = Lcx!Listeners \cup {"s1", "s2"}
  <2>1. CASE Lcx!bind2bind
    BY <2>1, <1>2 DEF Lcx!IInv, Lcx!bind2bind, Lcx!Goto
  <2>2. CASE Lcx!bind2conn
    BY <2>2, <1>2 DEF Lcx!IInv, Lcx!bind2conn, Lcx!Goto
  <2>3. CASE Lcx!conn2conn
    BY <2>3, <1>2 DEF Lcx!IInv, Lcx!conn2conn, Lcx!Goto
  <2>4. CASE Lcx!Fork
    BY <2>4, <1>2 DEF Lcx!IInv, Lcx!Fork
  <2>5. CASE Lcx!closeallfd
    BY <2>5 DEF Lcx!closeallfd, Lcx!Goto
  <2> QED BY <2>1, <2>2, <2>3, <2>4, <2>5
<1> QED BY <1>1, <1>3, <1>4, <1>5 DEF Lcx!IInv

LEMMA LcxStep == ASSUME Lcx!IInv, [Lcx!Next]_(Lcx!vars) PROVE Lcx!IInv'
<1>1. CASE Lcx!ReadArg
  <2>1. m3' = [f \in Lcx!Field |-> m3'[f]]
    BY <1>1, LcxFields DEF Lcx!IInv
  <2>2. m4' \in {"crash", "exit", "args"}
    BY <1>1 DEF Lcx!ReadArg
  <2>3. \A m \in DOMAIN Lcx!Usage : Lcx!Reading(m)'
    BY <1>1, LcxRead
  <2> QED BY <2>1, <2>2, <2>3, LcxUsage DEF Lcx!IInv
<1>2. CASE Lcx!Dispatch
  <2>1. UNCHANGED m3 /\ Lcx!Listeners' = Lcx!Listeners
    BY <1>2 DEF Lcx!Dispatch, Lcx!Listeners
  <2>2. m4' = "exit" \/ (m4' = "loop" /\ m5' = Lcx!Listeners)
    BY <1>2 DEF Lcx!Dispatch
  <2>3. m3' = [f \in Lcx!Field |-> m3'[f]]
    BY <2>1 DEF Lcx!IInv
  <2> QED BY <2>1, <2>2, <2>3 DEF Lcx!IInv
<1>3. CASE Lcx!bind2bind \/ Lcx!bind2conn \/ Lcx!conn2conn \/ Lcx!Fork \/ Lcx!closeallfd
  BY <1>3, LcxFds
<1>4. CASE UNCHANGED Lcx!vars
  BY <1>4 DEF Lcx!vars, Lcx!IInv, Lcx!Reading, Lcx!Filled, Lcx!Listeners
<1> QED BY <1>1, <1>2, <1>3, <1>4 DEF Lcx!Next

LEMMA LcxServed == Lcx!IInv => Lcx!Understood /\ Lcx!NoLeak
<1> SUFFICES ASSUME Lcx!IInv PROVE Lcx!Understood /\ Lcx!NoLeak
  OBVIOUS
<1>1. Lcx!NoLeak
  BY DEF Lcx!IInv, Lcx!NoLeak
<1>2. ASSUME NEW m \in DOMAIN Lcx!Usage, m4 = "args", Lcx!Arg(m2) = Lcx!NULL,
             m1 \in {<<"lcx">> \o Lcx!Usage[m], <<"lcx">> \o Lcx!Log \o Lcx!Usage[m], <<"lcx">> \o Lcx!Usage[m] \o Lcx!Log}
      PROVE  Lcx!Filled(m) /\ (Len(m1) > Len(Lcx!Usage[m]) + 1 => m3["log"] = "f")
  <2>0. Lcx!Reading(m)
    BY <1>2 DEF Lcx!IInv
  <2>m. Len(Lcx!Usage[m]) \in {3, 4, 5}
    BY LcxUsage
  <2>o. PICK n : n = Len(Lcx!Usage[m]) /\ n \in {3, 4, 5}
    BY <2>m
  <2>m2. n \in {3, 4, 5}
    BY <2>o
  <2>q. n \in Nat /\ n > 2
    BY <2>m2
  <2>n. n \in Nat /\ n = Len(Lcx!Usage[m]) /\ n > 2
    BY <2>o, <2>q
  <2>w. "lcx" # Lcx!NULL /\ "-log" # Lcx!NULL
    BY DEF Lcx!NULL
  <2>s. ASSUME NEW q \in Nat, Lcx!Stands(m, q) PROVE Lcx!Arg(q) # Lcx!NULL
    <3>1. Lcx!Arg(q + 1 - 1) = Lcx!Usage[m][1]
      BY <2>s, <2>n DEF Lcx!Stands
    <3>2. Lcx!Usage[m][1] # Lcx!NULL
      BY LcxUsage DEF Lcx!NULL
    <3> QED BY <3>1, <3>2
  <2>1. CASE m1 = <<"lcx">> \o Lcx!Usage[m]
    <3>1. Lcx!Arg(1) = "lcx" /\ Lcx!Stands(m, 2)
      BY <2>1, LcxPlain
    <3>2. m2 # 1 /\ m2 # 2
      BY <3>1, <2>w, <2>s, <1>2
    <3>3. Lcx!Filled(m)
      BY <2>0, <2>1, <3>2 DEF Lcx!Reading
    <3>4. Len(m1) = n + 1
      BY <2>1, <2>n, LcxPlainLen
    <3> QED BY <3>3, <3>4, <2>n
  <2>2. CASE m1 = <<"lcx">> \o Lcx!Usage[m] \o Lcx!Log
    <3>1. Lcx!Arg(1) = "lcx" /\ Lcx!Stands(m, 2) /\ Lcx!Arg(n + 2) = "-log"
      BY <2>2, <2>n, LcxAfter
    <3>2. m2 # 1 /\ m2 # 2 /\ m2 # n + 2
      BY <3>1, <2>w, <2>s, <1>2
    <3> QED BY <2>0, <2>2, <3>2, <2>n DEF Lcx!Reading
  <2>3. CASE m1 = <<"lcx">> \o Lcx!Log \o Lcx!Usage[m]
    <3>1. Lcx!Arg(1) = "lcx" /\ Lcx!Stands(m, 4) /\ Lcx!Arg(2) = "-log"
      BY <2>3, LcxBefore
    <3>2. m2 # 1 /\ m2 # 2 /\ m2 # 4
      BY <3>1, <2>w, <2>s, <1>2
    <3> QED BY <2>0, <2>3, <3>2 DEF Lcx!Reading
  <2> QED BY <1>2, <2>1, <2>2, <2>3
<1> QED BY <1>1, <1>2 DEF Lcx!Understood, Lcx!Filled

-----------------------------------------------------------------------------
(* Relay is LcxRelay: the relay itself.                                    *)
(*                                                                         *)
(* m1 pc, m2 readfd, m3 writefd, m4 send_out, m5 unsent, m6 inq,           *)
(* m7 outq, m8 got, m9 open.                                               *)

\* n bytes move from the front of b to the end of a.
LEMMA RelayMove ==
  ASSUME NEW f \in Nat, NEW a, NEW b, Relay!Counts(a, f), Relay!Counts(b, f + Len(a)), NEW n \in 1..Len(b)
  PROVE  Relay!Moved(a \o Relay!Take(b, n), Relay!Drop(b, n), a, b, f, n)
<1>0. a \in Seq(Nat) /\ b \in Seq(Nat)
  BY DEF Relay!Counts
<1>1. PICK L \in Nat, M \in Nat : L = Len(a) /\ M = Len(b)
  BY <1>0
<1>2. n \in 1..M /\ n \in Nat
  BY <1>1
<1>3. PICK t : t = Relay!Take(b, n)
  OBVIOUS
<1>4. t \in Seq(Nat) /\ Len(t) = n /\ \A k \in 1..n : t[k] = b[k]
  BY <1>0, <1>1, <1>2, <1>3 DEF Relay!Take
<1>5. PICK d : d = Relay!Drop(b, n)
  OBVIOUS
<1>6. d \in Seq(Nat) /\ Len(d) = M - n /\ \A k \in 1..(M - n) : d[k] = b[n + k]
  BY <1>0, <1>1, <1>2, <1>5 DEF Relay!Drop
<1>7. PICK c : c = a \o t
  OBVIOUS
<1>8. c \in Seq(Nat)
  BY <1>0, <1>4, <1>7
<1>a. t \in Seq(Nat)
  BY <1>4
<1>b. Len(c) = Len(a) + Len(t)
  BY <1>0, <1>a, <1>7
<1>9. Len(c) = L + n
  BY <1>b, <1>1, <1>4
<1>10. ASSUME NEW k \in 1..(L + n) PROVE c[k] = f + k
  <2>1. CASE k <= L
    <3>1. c[k] = a[k]
      BY <1>0, <1>4, <1>1, <1>7, <2>1
    <3> QED BY <3>1, <1>1, <2>1 DEF Relay!Counts
  <2>2. CASE k > L
    <3>1. PICK j \in 1..n : j = k - L
      BY <2>2, <1>2
    <3>2. c[k] = t[j]
      BY <1>0, <1>4, <1>1, <1>7, <2>2, <3>1
    <3>a. j \in 1..M
      BY <1>2, <3>1
    <3>3. b[j] = f + L + j
      BY <1>1, <3>a DEF Relay!Counts
    <3> QED BY <3>1, <3>2, <3>3, <1>4
  <2> QED BY <2>1, <2>2
<1>11. Relay!Counts(c, f)
  BY <1>8, <1>9, <1>10 DEF Relay!Counts
<1>12. ASSUME NEW k \in 1..(M - n) PROVE d[k] = f + L + n + k
  <2>1. PICK j \in 1..M : j = n + k
    BY <1>2
  <2>2. b[j] = f + L + j
    BY <1>1, <2>1 DEF Relay!Counts
  <2> QED BY <2>1, <2>2, <1>6, <1>2
<1>13. Relay!Counts(d, f + L + n)
  BY <1>6, <1>12 DEF Relay!Counts
<1>14. Relay!Moved(c, d, a, b, f, n)
  BY <1>1, <1>6, <1>9, <1>11, <1>13 DEF Relay!Moved
<1> QED BY <1>3, <1>5, <1>7, <1>14

\* The same for a byte that is appended.
LEMMA RelayOne ==
  ASSUME NEW f \in Nat, NEW a, NEW b, Relay!Counts(a, f), Relay!Counts(b, f + Len(a)), b # <<>>
  PROVE  Relay!Moved(Append(a, Head(b)), Tail(b), a, b, f, 1)
<1>0. a \in Seq(Nat) /\ b \in Seq(Nat)
  BY DEF Relay!Counts
<1>1. PICK L \in Nat, M \in Nat : L = Len(a) /\ M = Len(b) /\ M # 0
  BY <1>0
<1>2. PICK x : x = Head(b) /\ x = b[1] /\ x \in Nat
  BY <1>0, <1>1
<1>3. x = f + L + 1
  BY <1>1, <1>2 DEF Relay!Counts
<1>4. PICK c : c = Append(a, x)
  OBVIOUS
<1>5. c \in Seq(Nat) /\ Len(c) = L + 1 /\ c[L + 1] = x /\ \A k \in 1..L : c[k] = a[k]
  BY <1>0, <1>1, <1>2, <1>4
<1>6. PICK d : d = Tail(b)
  OBVIOUS
<1>7. d \in Seq(Nat) /\ Len(d) = M - 1 /\ \A k \in 1..(M - 1) : d[k] = b[k + 1]
  BY <1>0, <1>1, <1>6
<1>8. ASSUME NEW k \in 1..(L + 1) PROVE c[k] = f + k
  <2>1. CASE k \in 1..L
    BY <2>1, <1>5, <1>1 DEF Relay!Counts
  <2>2. CASE k = L + 1
    BY <2>2, <1>5, <1>3
  <2> QED BY <2>1, <2>2
<1>9. Relay!Counts(c, f)
  BY <1>5, <1>8 DEF Relay!Counts
<1>10. ASSUME NEW k \in 1..(M - 1) PROVE d[k] = f + L + 1 + k
  <2>1. PICK j \in 1..M : j = k + 1
    OBVIOUS
  <2>2. b[j] = f + L + j
    BY <1>1, <2>1 DEF Relay!Counts
  <2> QED BY <2>1, <2>2, <1>7
<1>11. Relay!Counts(d, f + L + 1)
  BY <1>7, <1>10 DEF Relay!Counts
<1>12. Relay!Moved(c, d, a, b, f, 1)
  BY <1>1, <1>5, <1>7, <1>9, <1>11 DEF Relay!Moved
<1> QED BY <1>2, <1>4, <1>6, <1>12

\* The four ways in which bytes move along a line.
LEMMA RelayRead ==
  ASSUME NEW g, NEW o, NEW s, NEW i, NEW u, Relay!Line(g, o, s, i, u), NEW n \in 1..Len(i)
  PROVE  Relay!Line(g, o, s \o Relay!Take(i, n), Relay!Drop(i, n), u)
<1>0. g \in Seq(Nat) /\ o \in Seq(Nat) /\ s \in Seq(Nat) /\ i \in Seq(Nat) /\ u \in Seq(Nat)
  BY DEF Relay!Line, Relay!Counts
<1>1. PICK G \in Nat, O \in Nat, S \in Nat, I \in Nat, U \in Nat : G = Len(g) /\ O = Len(o) /\ S = Len(s) /\ I = Len(i) /\ U = Len(u)
  BY <1>0
<1>f. PICK f \in Nat : f = G + O
  OBVIOUS
<1>2. PICK a, d : a = s \o Relay!Take(i, n) /\ d = Relay!Drop(i, n)
  OBVIOUS
<1>3. Relay!Counts(s, f) /\ Relay!Counts(i, f + Len(s)) /\ f + Len(s) + Len(i) + U = NBytes /\ n \in 1..I
  BY <1>1, <1>f DEF Relay!Line
<1>m. Relay!Moved(a, d, s, i, f, n)
  BY <1>2, <1>3, RelayMove
<1>4. Relay!Counts(a, f) /\ Len(a) = S + n /\ Relay!Counts(d, f + S + n) /\ Len(d) = I - n
  BY <1>1, <1>m DEF Relay!Moved
<1>5. Relay!Counts(u, G + O + S + I) /\ G + O + S + I + U = NBytes /\ n \in Nat
  BY <1>1 DEF Relay!Line
<1>6. G + O + (S + n) = f + S + n /\ G + O + (S + n) + (I - n) = G + O + S + I
  BY <1>f, <1>5
<1>7. Relay!Line(g, o, a, d, u)
  BY <1>1, <1>f, <1>3, <1>4, <1>5, <1>6 DEF Relay!Line
<1> QED BY <1>2, <1>7

LEMMA RelayWrite ==
  ASSUME NEW g, NEW o, NEW s, NEW i, NEW u, Relay!Line(g, o, s, i, u), NEW n \in 1..Len(s)
  PROVE  Relay!Line(g, o \o Relay!Take(s, n), Relay!Drop(s, n), i, u)
<1>0. g \in Seq(Nat) /\ o \in Seq(Nat) /\ s \in Seq(Nat) /\ i \in Seq(Nat) /\ u \in Seq(Nat)
  BY DEF Relay!Line, Relay!Counts
<1>1. PICK G \in Nat, O \in Nat, S \in Nat, I \in Nat, U \in Nat : G = Len(g) /\ O = Len(o) /\ S = Len(s) /\ I = Len(i) /\ U = Len(u)
  BY <1>0
<1>2. PICK a, d : a = o \o Relay!Take(s, n) /\ d = Relay!Drop(s, n)
  OBVIOUS
<1>3. Relay!Counts(o, G) /\ Relay!Counts(s, G + Len(o)) /\ n \in 1..S
  BY <1>1 DEF Relay!Line
<1>m. Relay!Moved(a, d, o, s, G, n)
  BY <1>2, <1>3, RelayMove
<1>4. Relay!Counts(a, G) /\ Len(a) = O + n /\ Relay!Counts(d, G + O + n) /\ Len(d) = S - n
  BY <1>1, <1>m DEF Relay!Moved
<1>5. Relay!Counts(i, G + O + S) /\ Relay!Counts(u, G + O + S + I) /\ G + O + S + I + U = NBytes /\ n \in Nat
  BY <1>1 DEF Relay!Line
<1>6. G + (O + n) = G + O + n /\ G + (O + n) + (S - n) = G + O + S
  BY <1>5
<1>7. Relay!Line(g, a, d, i, u)
  BY <1>1, <1>4, <1>5, <1>6 DEF Relay!Line
<1> QED BY <1>2, <1>7

LEMMA RelaySend ==
  ASSUME NEW g, NEW o, NEW s, NEW i, NEW u, Relay!Line(g, o, s, i, u), u # <<>>
  PROVE  Relay!Line(g, o, s, Append(i, Head(u)), Tail(u))
<1>0. g \in Seq(Nat) /\ o \in Seq(Nat) /\ s \in Seq(Nat) /\ i \in Seq(Nat) /\ u \in Seq(Nat)
  BY DEF Relay!Line, Relay!Counts
<1>1. PICK G \in Nat, O \in Nat, S \in Nat, I \in Nat, U \in Nat : G = Len(g) /\ O = Len(o) /\ S = Len(s) /\ I = Len(i) /\ U = Len(u)
  BY <1>0
<1>f. PICK f \in Nat : f = G + O + S
  OBVIOUS
<1>2. PICK a, d : a = Append(i, Head(u)) /\ d = Tail(u)
  OBVIOUS
<1>3. Relay!Counts(i, f) /\ Relay!Counts(u, f + Len(i))
  BY <1>1, <1>f DEF Relay!Line
<1>m. Relay!Moved(a, d, i, u, f, 1)
  BY <1>2, <1>3, RelayOne
<1>4. Relay!Counts(a, f) /\ Len(a) = I + 1 /\ Relay!Counts(d, f + I + 1) /\ Len(d) = U - 1
  BY <1>1, <1>m DEF Relay!Moved
<1>5. G + O + S + I + U = NBytes
  BY <1>1 DEF Relay!Line
<1>6. f + (I + 1) = f + I + 1 /\ f + (I + 1) + (U - 1) = NBytes
  BY <1>f, <1>5
<1>7. Relay!Line(g, o, s, a, d)
  BY <1>1, <1>f, <1>4, <1>6 DEF Relay!Line
<1> QED BY <1>2, <1>7

LEMMA RelayGet ==
  ASSUME NEW g, NEW o, NEW s, NEW i, NEW u, Relay!Line(g, o, s, i, u), o # <<>>
  PROVE  Relay!Line(Append(g, Head(o)), Tail(o), s, i, u)
<1>0. g \in Seq(Nat) /\ o \in Seq(Nat) /\ s \in Seq(Nat) /\ i \in Seq(Nat) /\ u \in Seq(Nat)
  BY DEF Relay!Line, Relay!Counts
<1>1. PICK G \in Nat, O \in Nat, S \in Nat, I \in Nat, U \in Nat : G = Len(g) /\ O = Len(o) /\ S = Len(s) /\ I = Len(i) /\ U = Len(u)
  BY <1>0
<1>f. PICK f \in Nat : f = 0
  OBVIOUS
<1>2. PICK a, d : a = Append(g, Head(o)) /\ d = Tail(o)
  OBVIOUS
<1>3. Relay!Counts(g, f) /\ Relay!Counts(o, f + Len(g))
  BY <1>1, <1>f DEF Relay!Line
<1>m. Relay!Moved(a, d, g, o, f, 1)
  BY <1>2, <1>3, RelayOne
<1>4. Relay!Counts(a, f) /\ Len(a) = G + 1 /\ Relay!Counts(d, f + G + 1) /\ Len(d) = O - 1
  BY <1>1, <1>m DEF Relay!Moved
<1>5. /\ Relay!Counts(s, G + O) /\ Relay!Counts(i, G + O + S) /\ Relay!Counts(u, G + O + S + I)
      /\ G + O + S + I + U = NBytes
  BY <1>1 DEF Relay!Line
<1>6. f + G + 1 = G + 1 /\ (G + 1) + (O - 1) = G + O
  BY <1>f
<1>7. Relay!Line(a, d, s, i, u)
  BY <1>1, <1>f, <1>4, <1>5, <1>6 DEF Relay!Line
<1> QED BY <1>2, <1>7

LEMMA RelayGlue ==
  ASSUME NEW f \in Nat, NEW a, NEW b, Relay!Counts(a, f), Relay!Counts(b, f + Len(a)), NEW c, c = a \o b
  PROVE  Relay!Glued(c, a, b, f)
<1>0. a \in Seq(Nat) /\ b \in Seq(Nat)
  BY DEF Relay!Counts
<1>1. PICK L \in Nat, M \in Nat : L = Len(a) /\ M = Len(b)
  BY <1>0
<1>2. c \in Seq(Nat)
  BY <1>0
<1>3. Len(c) = Len(a) + Len(b)
  BY <1>0
<1>4. ASSUME NEW k \in 1..(L + M) PROVE c[k] = f + k
  <2>1. CASE k <= L
    <3>1. c[k] = a[k]
      BY <1>0, <1>1, <2>1
    <3> QED BY <3>1, <1>1, <2>1 DEF Relay!Counts
  <2>2. CASE k > L
    <3>1. PICK j \in 1..M : j = k - L
      BY <2>2
    <3>2. c[k] = b[j]
      BY <1>0, <1>1, <2>2, <3>1
    <3>3. b[j] = f + L + j
      BY <1>1, <3>1 DEF Relay!Counts
    <3> QED BY <3>1, <3>2, <3>3
  <2>3. k <= L \/ k > L
    OBVIOUS
  <2> QED BY <2>1, <2>2, <2>3
<1>5. Relay!Counts(c, f)
  BY <1>1, <1>2, <1>3, <1>4 DEF Relay!Counts
<1> QED BY <1>3, <1>5 DEF Relay!Glued

LEMMA RelayStream == /\ Relay!Stream \in Seq(Nat) /\ Len(Relay!Stream) = NBytes /\ Relay!Counts(Relay!Stream, 0)
<1>1. Relay!Stream \in Seq(Nat) /\ Len(Relay!Stream) = NBytes /\ \A k \in 1..NBytes : Relay!Stream[k] = k
  BY RelayAssumption DEF Relay!Stream
<1>2. \A k \in 1..NBytes : Relay!Stream[k] = 0 + k
  BY <1>1, RelayAssumption
<1> QED BY <1>1, <1>2 DEF Relay!Counts

LEMMA RelayWhole == ASSUME NEW c, Relay!Counts(c, 0), Len(c) = NBytes PROVE c = Relay!Stream
<1>1. c \in Seq(Nat) /\ Len(c) = Len(Relay!Stream) /\ Relay!Stream \in Seq(Nat)
  BY RelayStream DEF Relay!Counts
<1>2. ASSUME NEW k \in 1..Len(c) PROVE c[k] = Relay!Stream[k]
  BY RelayStream DEF Relay!Counts
<1> QED BY <1>1, <1>2, SeqEqual

LEMMA RelayLine == ASSUME NEW g, NEW o, NEW s, NEW i, NEW u, Relay!Line(g, o, s, i, u)
                   PROVE  g \o o \o s \o i \o u = Relay!Stream
<1>0. g \in Seq(Nat) /\ o \in Seq(Nat) /\ s \in Seq(Nat) /\ i \in Seq(Nat) /\ u \in Seq(Nat)
  BY DEF Relay!Line, Relay!Counts
<1>1. PICK G \in Nat, O \in Nat, S \in Nat, I \in Nat, U \in Nat :
         G = Len(g) /\ O = Len(o) /\ S = Len(s) /\ I = Len(i) /\ U = Len(u)
  BY <1>0
<1>z. PICK z \in Nat : z = 0
  OBVIOUS
<1>2. PICK a : a = g \o o
  OBVIOUS
<1>3. PICK b : b = a \o s
  OBVIOUS
<1>4. PICK c : c = b \o i
  OBVIOUS
<1>5. PICK d : d = c \o u
  OBVIOUS
<1>6. /\ Relay!Counts(g, z) /\ Relay!Counts(o, z + G) /\ Relay!Counts(s, z + (G + O)) /\ Relay!Counts(i, z + (G + O + S))
      /\ Relay!Counts(u, z + (G + O + S + I)) /\ G + O + S + I + U = NBytes
  <2>1. z + G = G /\ z + (G + O) = G + O /\ z + (G + O + S) = G + O + S /\ z + (G + O + S + I) = G + O + S + I
    BY <1>z
  <2> QED BY <2>1, <1>1, <1>z DEF Relay!Line
<1>7. Relay!Glued(a, g, o, z)
  BY <1>1, <1>2, <1>6, RelayGlue
<1>8. Relay!Counts(a, z) /\ Len(a) = G + O
  BY <1>1, <1>7 DEF Relay!Glued
<1>9. Relay!Glued(b, a, s, z)
  BY <1>3, <1>6, <1>8, RelayGlue
<1>10. Relay!Counts(b, z) /\ Len(b) = G + O + S
  BY <1>1, <1>8, <1>9 DEF Relay!Glued
<1>11. Relay!Glued(c, b, i, z)
  BY <1>4, <1>6, <1>10, RelayGlue
<1>12. Relay!Counts(c, z) /\ Len(c) = G + O + S + I
  BY <1>1, <1>10, <1>11 DEF Relay!Glued
<1>13. Relay!Glued(d, c, u, z)
  BY <1>5, <1>6, <1>12, RelayGlue
<1>14. Relay!Counts(d, 0) /\ Len(d) = NBytes
  BY <1>1, <1>6, <1>12, <1>13, <1>z DEF Relay!Glued
<1>15. d = Relay!Stream
  BY <1>14, RelayWhole
<1> QED BY <1>2, <1>3, <1>4, <1>5, <1>15

LEMMA RelayOrder == Relay!IInv => Relay!InOrder
<1> SUFFICES ASSUME Relay!IInv, NEW p \in Relay!Peer
             PROVE  m8[Relay!Other(p)] \o m7[Relay!Other(p)] \o m4[p] \o m6[p] \o m5[p] = Relay!Stream
  BY DEF Relay!InOrder
<1>1. PICK g, o, s, i, u : g = m8[Relay!Other(p)] /\ o = m7[Relay!Other(p)] /\ s = m4[p] /\ i = m6[p] /\ u = m5[p]
  OBVIOUS
<1>2. Relay!Line(g, o, s, i, u)
  BY <1>1 DEF Relay!IInv
<1>3. g \o o \o s \o i \o u = Relay!Stream
  BY <1>2, RelayLine
<1> QED BY <1>1, <1>3

LEMMA RelayInit == Relay!Init => Relay!IInv
<1> SUFFICES ASSUME Relay!Init PROVE Relay!IInv
  OBVIOUS
<1>1. Relay!TypeOK
  BY DEF Relay!Init, Relay!TypeOK
<1>a. PICK e : e = <<>>
  OBVIOUS
<1>2. e = <<>> /\ e \in Seq(Nat) /\ Len(e) = 0
  BY <1>a
<1>3. \A n : Relay!Counts(e, n)
  BY <1>2 DEF Relay!Counts
<1>4. Relay!Line(e, e, e, e, Relay!Stream)
  BY <1>2, <1>3, RelayStream, RelayAssumption DEF Relay!Line
<1>5. ASSUME NEW p \in Relay!Peer PROVE Relay!Line(m8[Relay!Other(p)], m7[Relay!Other(p)], m4[p], m6[p], m5[p])
  <2>1. Relay!Other(p) \in Relay!Peer
    BY DEF Relay!Other, Relay!Peer
  <2> QED BY <1>2, <1>4, <2>1 DEF Relay!Init
<1> QED BY <1>1, <1>5 DEF Relay!IInv

LEMMA RelayPeers == ASSUME NEW p \in Relay!Peer PROVE /\ Relay!Other(p) \in Relay!Peer /\ Relay!Other(Relay!Other(p)) = p /\ Relay!Other(p) # p
                                               /\ \A q \in Relay!Peer : q # p => q = Relay!Other(p) /\ Relay!Other(q) = p
BY DEF Relay!Peer, Relay!Other

\* The line of p is moved, that of the other peer is not.
LEMMA RelayOneLine ==
  ASSUME Relay!IInv, Relay!TypeOK', NEW p \in Relay!Peer, NEW o, o = Relay!Other(p),
         Relay!Line(m8'[o], m7'[o], m4'[p], m6'[p], m5'[p]),
         m8'[p] = m8[p], m7'[p] = m7[p], m4'[o] = m4[o],
         m6'[o] = m6[o], m5'[o] = m5[o]
  PROVE  Relay!IInv'
<1>1. o \in Relay!Peer /\ Relay!Other(o) = p /\ \A q \in Relay!Peer : q = p \/ q = o
  BY RelayPeers
<1>2. Relay!Line(m8[p], m7[p], m4[o], m6[o], m5[o])
  BY <1>1 DEF Relay!IInv
<1>3. Relay!Line(m8'[p], m7'[p], m4'[o], m6'[o], m5'[o])
  BY <1>2
<1>4. ASSUME NEW q \in Relay!Peer PROVE Relay!Line(m8'[Relay!Other(q)], m7'[Relay!Other(q)], m4'[q], m6'[q], m5'[q])
  BY <1>1, <1>3
<1> QED BY <1>4 DEF Relay!IInv

LEMMA RelayReadStep == ASSUME Relay!IInv, NEW p \in Relay!Peer, Relay!Read(p) PROVE Relay!IInv'
<1>1. Relay!TypeOK /\ UNCHANGED <<m5, m7, m8>>
  BY DEF Relay!IInv, Relay!Read
<1>2. CASE UNCHANGED <<m6, m4>>
  BY <1>1, <1>2 DEF Relay!IInv, Relay!TypeOK
<1>3. CASE ~UNCHANGED <<m6, m4>>
  <2>1. PICK n \in 1..Relay!Least(Len(m6[p]), MAXSIZE - Len(m4[p])) :
                  /\ m4' = [m4 EXCEPT ![p] = @ \o Relay!Take(m6[p], n)]
                  /\ m6' = [m6 EXCEPT ![p] = Relay!Drop(@, n)]
    BY <1>3 DEF Relay!Read
  <2>2. PICK o : o = Relay!Other(p) /\ o \in Relay!Peer /\ o # p
    BY RelayPeers
  <2>3. Relay!Line(m8[o], m7[o], m4[p], m6[p], m5[p])
    BY <2>2 DEF Relay!IInv
  <2>4. m6[p] \in Seq(Nat) /\ m4[p] \in Seq(Nat)
    BY <2>3 DEF Relay!Line, Relay!Counts
  <2>5. PICK x \in Nat, y \in Nat : x = Len(m6[p]) /\ y = Len(m4[p])
    BY <2>4
  <2>6. n \in 1..x
    BY <2>1, <2>5, RelayAssumption DEF Relay!Least
  <2>7. Relay!Line(m8[o], m7[o], m4[p] \o Relay!Take(m6[p], n), Relay!Drop(m6[p], n), m5[p])
    BY <2>3, <2>5, <2>6, RelayRead
  <2>8. /\ m4'[p] = m4[p] \o Relay!Take(m6[p], n) /\ m6'[p] = Relay!Drop(m6[p], n)
        /\ m4'[o] = m4[o] /\ m6'[o] = m6[o]
    BY <2>1, <2>2, <1>1 DEF Relay!TypeOK
  <2>9. Relay!TypeOK'
    BY <2>1, <1>1 DEF Relay!TypeOK
  <2>10. Relay!Line(m8'[o], m7'[o], m4'[p], m6'[p], m5'[p])
    BY <1>1, <2>7, <2>8
  <2> QED BY <1>1, <2>2, <2>8, <2>9, <2>10, RelayOneLine
<1> QED BY <1>2, <1>3

LEMMA RelayWriteStep == ASSUME Relay!IInv, NEW p \in Relay!Peer, Relay!Write(p) PROVE Relay!IInv'
<1>1. Relay!TypeOK /\ UNCHANGED <<m5, m6, m8>>
  BY DEF Relay!IInv, Relay!Write
<1>2. CASE UNCHANGED <<m7, m4>>
  BY <1>1, <1>2 DEF Relay!IInv, Relay!TypeOK
<1>3. CASE ~UNCHANGED <<m7, m4>>
  <2>2. PICK o : o = Relay!Other(p) /\ o \in Relay!Peer /\ o # p
    BY RelayPeers
  <2>1. PICK n : /\ n = Relay!Least(Len(m4[p]), Queue - Len(m7[o])) /\ Len(m7[o]) < Queue /\ m4[p] # <<>>
                 /\ m7' = [m7 EXCEPT ![o] = @ \o Relay!Take(m4[p], n)]
                 /\ m4' = [m4 EXCEPT ![p] = Relay!Drop(@, n)]
    BY <1>3, <2>2 DEF Relay!Write
  <2>3. Relay!Line(m8[o], m7[o], m4[p], m6[p], m5[p])
    BY <2>2 DEF Relay!IInv
  <2>4. m7[o] \in Seq(Nat) /\ m4[p] \in Seq(Nat)
    BY <2>3 DEF Relay!Line, Relay!Counts
  <2>5. PICK x \in Nat, y \in Nat : x = Len(m4[p]) /\ y = Len(m7[o])
    BY <2>4
  <2>a. x # 0
    BY <2>1, <2>4, <2>5
  <2>b. y < Queue /\ n = Relay!Least(x, Queue - y)
    BY <2>1, <2>5
  <2>6. n \in 1..x
    BY <2>a, <2>b, RelayAssumption DEF Relay!Least
  <2>7. Relay!Line(m8[o], m7[o] \o Relay!Take(m4[p], n), Relay!Drop(m4[p], n), m6[p], m5[p])
    BY <2>3, <2>5, <2>6, RelayWrite
  <2>8. /\ m7'[o] = m7[o] \o Relay!Take(m4[p], n) /\ m4'[p] = Relay!Drop(m4[p], n)
        /\ m4'[o] = m4[o] /\ m7'[p] = m7[p]
    BY <2>1, <2>2, <1>1 DEF Relay!TypeOK
  <2>9. Relay!TypeOK'
    BY <2>1, <1>1 DEF Relay!TypeOK
  <2>10. Relay!Line(m8'[o], m7'[o], m4'[p], m6'[p], m5'[p])
    BY <1>1, <2>7, <2>8
  <2> QED BY <1>1, <2>2, <2>8, <2>9, <2>10, RelayOneLine
<1> QED BY <1>2, <1>3

LEMMA RelaySendStep == ASSUME Relay!IInv, NEW p \in Relay!Peer, Relay!PeerSend(p) PROVE Relay!IInv'
<1>1. /\ Relay!TypeOK /\ UNCHANGED <<m4, m7, m8>> /\ m5[p] # <<>>
      /\ m6' = [m6 EXCEPT ![p] = Append(@, Head(m5[p]))]
      /\ m5' = [m5 EXCEPT ![p] = Tail(@)]
  BY DEF Relay!IInv, Relay!PeerSend
<1>2. PICK o : o = Relay!Other(p) /\ o \in Relay!Peer /\ o # p
  BY RelayPeers
<1>3. Relay!Line(m8[o], m7[o], m4[p], m6[p], m5[p])
  BY <1>2 DEF Relay!IInv
<1>4. Relay!Line(m8[o], m7[o], m4[p], Append(m6[p], Head(m5[p])), Tail(m5[p]))
  BY <1>1, <1>3, RelaySend
<1>5. /\ m6'[p] = Append(m6[p], Head(m5[p])) /\ m5'[p] = Tail(m5[p])
      /\ m6'[o] = m6[o] /\ m5'[o] = m5[o]
  BY <1>1, <1>2 DEF Relay!TypeOK
<1>6. Relay!TypeOK'
  BY <1>1 DEF Relay!TypeOK
<1>7. Relay!Line(m8'[o], m7'[o], m4'[p], m6'[p], m5'[p])
  BY <1>1, <1>4, <1>5
<1> QED BY <1>1, <1>2, <1>5, <1>6, <1>7, RelayOneLine

\* What peer o reads is of the line of the other one, p.
LEMMA RelayGetStep == ASSUME Relay!IInv, NEW o \in Relay!Peer, Relay!PeerRead(o) PROVE Relay!IInv'
<1>1. /\ Relay!TypeOK /\ UNCHANGED <<m4, m6, m5>> /\ m7[o] # <<>>
      /\ m8' = [m8 EXCEPT ![o] = Append(@, Head(m7[o]))]
      /\ m7' = [m7 EXCEPT ![o] = Tail(@)]
  BY DEF Relay!IInv, Relay!PeerRead
<1>2. PICK p \in Relay!Peer : o = Relay!Other(p) /\ o # p
  BY RelayPeers
<1>3. Relay!Line(m8[o], m7[o], m4[p], m6[p], m5[p])
  BY <1>2 DEF Relay!IInv
<1>4. Relay!Line(Append(m8[o], Head(m7[o])), Tail(m7[o]), m4[p], m6[p], m5[p])
  BY <1>1, <1>3, RelayGet
<1>5. /\ m8'[o] = Append(m8[o], Head(m7[o])) /\ m7'[o] = Tail(m7[o])
      /\ m8'[p] = m8[p] /\ m7'[p] = m7[p]
  BY <1>1, <1>2 DEF Relay!TypeOK
<1>6. Relay!TypeOK'
  BY <1>1 DEF Relay!TypeOK
<1>7. Relay!Line(m8'[o], m7'[o], m4'[p], m6'[p], m5'[p])
  BY <1>1, <1>4, <1>5
<1> QED BY <1>1, <1>2, <1>5, <1>6, <1>7, RelayOneLine

LEMMA RelayStep == Relay!IInv /\ [Relay!Next]_(Relay!vars) => Relay!IInv'
<1> SUFFICES ASSUME Relay!IInv, [Relay!Next]_(Relay!vars) PROVE Relay!IInv'
  OBVIOUS
<1>1. CASE UNCHANGED <<m4, m5, m6, m7, m8>>
  BY <1>1 DEF Relay!IInv, Relay!TypeOK
<1>2. CASE \E p \in Relay!Peer : Relay!Read(p) \/ Relay!Write(p) \/ Relay!PeerSend(p) \/ Relay!PeerRead(p)
  BY <1>2, RelayReadStep, RelayWriteStep, RelaySendStep, RelayGetStep
<1>3. CASE Relay!Select \/ Relay!Timeout \/ (\E p \in Relay!Peer : Relay!Pass(p) \/ Relay!PeerClose(p)) \/ UNCHANGED Relay!vars
  <2>1. UNCHANGED <<m4, m5, m6, m7, m8>>
    BY <1>3 DEF Relay!Select, Relay!Timeout, Relay!Pass, Relay!PeerClose, Relay!vars
  <2> QED BY <2>1, <1>1
<1> QED BY <1>2, <1>3 DEF Relay!Next, Relay!transdata

-----------------------------------------------------------------------------
(* Tun is TunTcp: the user-space TCP programs.                             *)
(*                                                                         *)
(* m1 prog, m2 alive, m3 toProg, m4 toKernel, m5 st, m6 una, m7 nxt,       *)
(* m8 rcv, m9 sent, m10 seen, m11 lost.                                    *)

\* What is below the modulus is left as it is, what is below twice the modulus wraps once.
LEMMA TunMod == ASSUME NEW a \in Nat
                PROVE  /\ a < SeqMod => a % SeqMod = a
                       /\ (SeqMod <= a /\ a < 2 * SeqMod) => a % SeqMod = a - SeqMod
<1>1. SeqMod \in Nat /\ SeqMod > 0
  BY TunAssumption
<1>2. a < SeqMod => a % SeqMod = a
  BY <1>1
<1>3. (SeqMod <= a /\ a < 2 * SeqMod) => a % SeqMod = a - SeqMod
  BY <1>1
<1> QED BY <1>2, <1>3

\* A sum of numbers is a number again.
LEMMA TunSeq == ASSUME NEW a \in Nat, NEW k \in Nat PROVE Tun!Seq1(a, k) \in Tun!Number
<1>1. SeqMod \in Nat /\ SeqMod > 0 /\ a + k \in Nat
  BY TunAssumption
<1>2. PICK b \in Nat : b = a + k
  BY <1>1
<1>3. b % SeqMod \in 0..(SeqMod - 1)
  BY <1>1
<1> QED BY <1>2, <1>3 DEF Tun!Seq1, Tun!Number

\* The two cases of At.
LEMMA TunAt == ASSUME NEW x \in Tun!Number
               PROVE  /\ Tun!At(x) \in Nat /\ Tun!At(x) < SeqMod
                      /\ x >= ISS => Tun!At(x) = x - ISS
                      /\ x < ISS => Tun!At(x) = (x + SeqMod) - ISS
<1>1. SeqMod \in Nat /\ SeqMod > 0 /\ ISS \in Nat /\ ISS < SeqMod /\ x \in Nat /\ x < SeqMod
  BY TunAssumption DEF Tun!Number
<1>2. PICK a \in Nat : a = x + SeqMod - ISS
  BY <1>1
<1>3. Tun!At(x) = a % SeqMod
  BY <1>2 DEF Tun!At, Tun!Dist
<1>4. CASE x >= ISS
  <2>1. SeqMod <= a /\ a < 2 * SeqMod
    BY <1>1, <1>2, <1>4
  <2>2. a % SeqMod = a - SeqMod
    BY <2>1, TunMod
  <2> QED BY <1>1, <1>2, <1>3, <1>4, <2>2
<1>5. CASE x < ISS
  <2>1. a < SeqMod
    BY <1>1, <1>2, <1>5
  <2>2. a % SeqMod = a
    BY <2>1, TunMod
  <2> QED BY <1>1, <1>2, <1>3, <1>5, <2>1, <2>2
<1> QED BY <1>1, <1>4, <1>5

\* k numbers on.
LEMMA TunAdv == ASSUME NEW x \in Tun!Number, NEW k \in Nat, Tun!At(x) + k < SeqMod
                PROVE  Tun!Seq1(x, k) \in Tun!Number /\ Tun!At(Tun!Seq1(x, k)) = Tun!At(x) + k
<1>1. SeqMod \in Nat /\ SeqMod > 0 /\ ISS \in Nat /\ ISS < SeqMod /\ x \in Nat /\ x < SeqMod
  BY TunAssumption DEF Tun!Number
<1>2. PICK a \in Nat : a = x + k
  BY <1>1
<1>3. PICK y : y = Tun!Seq1(x, k)
  OBVIOUS
<1>4. y = a % SeqMod
  BY <1>2, <1>3 DEF Tun!Seq1
<1>5. Tun!At(x) \in Nat /\ (x >= ISS => Tun!At(x) = x - ISS) /\ (x < ISS => Tun!At(x) = (x + SeqMod) - ISS)
  BY TunAt
<1>6. y \in Tun!Number
  BY <1>1, <1>3, TunSeq
<1>7. (y >= ISS => Tun!At(y) = y - ISS) /\ (y < ISS => Tun!At(y) = (y + SeqMod) - ISS)
  BY <1>6, TunAt
<1>8. PICK e \in Nat : e = Tun!At(x)
  BY <1>5
<1>9. CASE x < ISS
  <2>1. a < ISS
    BY <1>1, <1>2, <1>5, <1>8, <1>9
  <2>2. y = a
    BY <1>1, <1>4, <2>1, TunMod
  <2> QED BY <1>1, <1>2, <1>3, <1>5, <1>6, <1>7, <1>9, <2>1, <2>2
<1>10. CASE x >= ISS /\ a < SeqMod
  <2>2. y = a
    BY <1>4, <1>10, TunMod
  <2> QED BY <1>1, <1>2, <1>3, <1>5, <1>6, <1>7, <1>10, <2>2
<1>11. CASE x >= ISS /\ SeqMod <= a
  <2>1. a < 2 * SeqMod /\ a - SeqMod < ISS
    BY <1>1, <1>2, <1>5, <1>8, <1>11
  <2>2. y = a - SeqMod
    BY <1>4, <1>11, <2>1, TunMod
  <2> QED BY <1>1, <1>2, <1>3, <1>5, <1>6, <1>7, <1>11, <2>1, <2>2
<1> QED BY <1>1, <1>9, <1>10, <1>11

\* The number at distance d, counted from ISS or from x.
LEMMA TunSame == ASSUME NEW x \in Tun!Number, NEW d \in Nat, Tun!At(x) <= d, d < SeqMod
                 PROVE  Tun!Seq1(ISS, d) = Tun!Seq1(x, d - Tun!At(x)) /\ d - Tun!At(x) \in Nat
<1>1. SeqMod \in Nat /\ SeqMod > 0 /\ ISS \in Nat /\ ISS < SeqMod /\ x \in Nat /\ x < SeqMod
  BY TunAssumption DEF Tun!Number
<1>2. PICK e \in Nat : e = Tun!At(x)
  BY TunAt
<1>3. (x >= ISS => e = x - ISS) /\ (x < ISS => e = (x + SeqMod) - ISS)
  BY <1>2, TunAt
<1>4. d - e \in Nat
  BY <1>2
<1>5. CASE x >= ISS
  <2>1. ISS + d = x + (d - e)
    BY <1>1, <1>3, <1>5
  <2> QED BY <2>1, <1>2, <1>4 DEF Tun!Seq1
<1>6. CASE x < ISS
  <2>1. PICK a \in Nat : a = ISS + d
    BY <1>1
  <2>2. PICK b \in Nat : b = x + (d - e)
    BY <1>1, <1>4
  <2>3. SeqMod <= a /\ a < 2 * SeqMod /\ b = a - SeqMod /\ b < SeqMod
    BY <1>1, <1>2, <1>3, <1>6, <2>1, <2>2
  <2>4. a % SeqMod = b
    BY <2>3, TunMod
  <2>5. b % SeqMod = b
    BY <2>3, TunMod
  <2> QED BY <2>1, <2>2, <2>4, <2>5, <1>2, <1>4 DEF Tun!Seq1
<1> QED BY <1>1, <1>5, <1>6

\* The distance of two numbers.
LEMMA TunDist == ASSUME NEW x \in Tun!Number, NEW y \in Tun!Number, Tun!At(x) <= Tun!At(y)
                 PROVE  Tun!Dist(x, y) = Tun!At(y) - Tun!At(x)
<1>1. SeqMod \in Nat /\ SeqMod > 0 /\ ISS \in Nat /\ ISS < SeqMod /\ x \in Nat /\ x < SeqMod /\ y \in Nat /\ y < SeqMod
  BY TunAssumption DEF Tun!Number
<1>2. PICK e \in Nat : e = Tun!At(x)
  BY TunAt
<1>3. PICK f \in Nat : f = Tun!At(y)
  BY TunAt
<1>4. (x >= ISS => e = x - ISS) /\ (x < ISS => e = (x + SeqMod) - ISS)
  BY <1>2, TunAt
<1>5. (y >= ISS => f = y - ISS) /\ (y < ISS => f = (y + SeqMod) - ISS)
  BY <1>3, TunAt
<1>6. PICK a \in Nat : a = y + SeqMod - x
  BY <1>1
<1>7. e <= f
  BY <1>2, <1>3
<1>8. CASE a >= SeqMod
  <2>1. a % SeqMod = a - SeqMod
    BY <1>1, <1>6, <1>8, TunMod
  <2>2. a - SeqMod = f - e
    BY <1>1, <1>4, <1>5, <1>6, <1>7, <1>8
  <2> QED BY <2>1, <2>2, <1>2, <1>3, <1>6 DEF Tun!Dist
<1>9. CASE a < SeqMod
  <2>1. a % SeqMod = a
    BY <1>9, TunMod
  <2>2. a = f - e
    BY <1>1, <1>4, <1>5, <1>6, <1>7, <1>9
  <2> QED BY <2>1, <2>2, <1>2, <1>3, <1>6 DEF Tun!Dist
<1> QED BY <1>1, <1>8, <1>9

LEMMA TunStart == Tun!At(ISS) = 0 /\ ISS \in Tun!Number
<1>1. ISS \in Tun!Number /\ ISS \in Nat
  BY TunAssumption DEF Tun!Number
<1> QED BY <1>1, TunAt

\* What is a segment has its fields.
LEMMA TunWire == ASSUME NEW p \in Tun!Wire, Tun!Tcp(p)
                 PROVE  p.seq \in Tun!Number /\ p.ack \in Tun!Number /\ p.len \in Nat /\ Tun!Span(p) \in Nat
<1>1. p \in [proto : {"tcp"}, flags : Tun!Flags, seq : Tun!Number, ack : Tun!Number, len : Nat]
  BY DEF Tun!Wire, Tun!Tcp, Tun!Echo, Tun!Damaged
<1>2. p.seq \in Tun!Number /\ p.ack \in Tun!Number /\ p.len \in Nat
  BY <1>1
<1> QED BY <1>2 DEF Tun!Span

LEMMA TunSegment ==
  ASSUME NEW f \in Tun!Flags, NEW s \in Tun!Number, NEW a \in Tun!Number, NEW l \in Nat,
         NEW p, p = Tun!Segment(f, s, a, l)
  PROVE  p \in Tun!Wire /\ Tun!Tcp(p) /\ p.flags = f /\ p.seq = s /\ p.ack = a /\ p.len = l
BY DEF Tun!Wire, Tun!Segment, Tun!Tcp, Tun!Flags

\* A packet more: what was before it is as it was.
LEMMA TunMore ==
  ASSUME NEW q \in Seq(Tun!Wire), NEW p \in Tun!Wire, NEW k \in Nat, NEW e \in Nat, k <= e,
         NEW n \in Nat, NEW s, Tun!Under(q, k, n, s), NEW r, r = Append(q, p)
  PROVE  Tun!Under(r, e, n, s)
<1>1. PICK L \in Nat : L = Len(q)
  OBVIOUS
<1>2. Len(r) = L + 1 /\ \A j \in 1..L : r[j] = q[j]
  BY <1>1
<1>3. SUFFICES ASSUME NEW d \in Nat, d < n, Tun!Seq1(ISS, d) \notin s
               PROVE  \E j \in 1..Len(r) : j <= e /\ Tun!Has(r[j], d)
  BY DEF Tun!Under
<1>4. PICK j \in 1..L : j <= k /\ Tun!Has(q[j], d)
  BY <1>1, <1>3 DEF Tun!Under
<1>5. j \in 1..Len(r) /\ j <= e /\ r[j] = q[j]
  BY <1>2, <1>4
<1> QED BY <1>4, <1>5

LEMMA TunPutTurn ==
  ASSUME NEW q \in Seq(Tun!Wire), NEW p \in Tun!Wire, NEW s, Tun!InTurn(q, s),
         Tun!Tcp(p) => Tun!Under(q, Len(q), Tun!At(p.seq), s), NEW r, r = Append(q, p)
  PROVE  Tun!InTurn(r, s)
<1>1. PICK L \in Nat : L = Len(q)
  OBVIOUS
<1>2. Len(r) = L + 1 /\ (\A j \in 1..L : r[j] = q[j]) /\ r[L + 1] = p
  BY <1>1
<1>3. SUFFICES ASSUME NEW k \in 1..(L + 1), Tun!Tcp(r[k]) PROVE Tun!Under(r, k - 1, Tun!At(r[k].seq), s)
  BY <1>2 DEF Tun!InTurn
<1>4. CASE k \in 1..L
  <2>1. r[k] = q[k] /\ q[k] \in Tun!Wire
    BY <1>1, <1>2, <1>4
  <2>2. Tun!At(q[k].seq) \in Nat
    BY <2>1, <1>3, TunWire, TunAt
  <2>3. PICK n \in Nat, m \in Nat : n = Tun!At(q[k].seq) /\ m = k - 1 /\ m <= m
    BY <2>2, <1>4
  <2>4. Tun!Under(q, m, n, s)
    BY <1>1, <1>3, <1>4, <2>1, <2>3 DEF Tun!InTurn
  <2>5. Tun!Under(r, m, n, s)
    BY <2>3, <2>4, TunMore
  <2> QED BY <2>1, <2>3, <2>5
<1>5. CASE k = L + 1
  <2>1. r[k] = p
    BY <1>2, <1>5
  <2>2. Tun!At(p.seq) \in Nat
    BY <2>1, <1>3, TunWire, TunAt
  <2>3. PICK n \in Nat : n = Tun!At(p.seq)
    BY <2>2
  <2>4. Tun!Under(q, L, n, s)
    BY <1>1, <1>3, <2>1, <2>3
  <2>6. PICK m \in Nat : m = k - 1
    BY <1>5
  <2>7. m = L /\ m <= m
    BY <1>5, <2>6
  <2>5. Tun!Under(r, m, n, s)
    BY <2>4, <2>7, TunMore
  <2> QED BY <2>1, <2>3, <2>5, <2>6
<1>6. k \in 1..L \/ k = L + 1
  BY <1>3
<1> QED BY <1>4, <1>5, <1>6

LEMMA TunPutEnd ==
  ASSUME NEW q \in Seq(Tun!Wire), NEW p \in Tun!Wire, NEW s, NEW n \in Nat, NEW m \in Nat,
         Tun!Under(q, Len(q), n, s), NEW r, r = Append(q, p),
         m = n \/ (Tun!Tcp(p) /\ Tun!At(p.seq) <= n /\ m <= Tun!At(p.seq) + Tun!Span(p))
  PROVE  Tun!Under(r, Len(r), m, s)
<1>1. PICK L \in Nat : L = Len(q)
  OBVIOUS
<1>2. Len(r) = L + 1 /\ r[L + 1] = p
  BY <1>1
<1>3. PICK e \in Nat : e = L + 1 /\ L <= e
  OBVIOUS
<1>4. Tun!Under(r, e, n, s)
  BY <1>1, <1>3, TunMore
<1>5. CASE m = n
  BY <1>2, <1>3, <1>4, <1>5
<1>6. CASE Tun!Tcp(p) /\ Tun!At(p.seq) <= n /\ m <= Tun!At(p.seq) + Tun!Span(p)
  <2>1. PICK a \in Nat, b \in Nat : a = Tun!At(p.seq) /\ b = Tun!Span(p)
    BY <1>6, TunWire, TunAt
  <2>2. SUFFICES ASSUME NEW d \in Nat, d < m
                 PROVE  Tun!Seq1(ISS, d) \in s \/ \E j \in 1..Len(r) : j <= Len(r) /\ Tun!Has(r[j], d)
    BY DEF Tun!Under
  <2>3. CASE d < n
    BY <2>3, <1>2, <1>3, <1>4 DEF Tun!Under
  <2>4. CASE d >= n
    <3>1. a <= d /\ d < a + b
      BY <1>6, <2>1, <2>2, <2>4
    <3>2. Tun!Has(p, d)
      BY <3>1, <1>6, <2>1 DEF Tun!Has
    <3>3. e \in 1..Len(r) /\ e <= Len(r) /\ r[e] = p
      BY <1>2, <1>3
    <3> QED BY <3>2, <3>3
  <2> QED BY <2>2, <2>3, <2>4
<1> QED BY <1>5, <1>6

LEMMA TunPutSent ==
  ASSUME NEW q \in Seq(Tun!Wire), NEW p \in Tun!Wire, NEW n \in Nat, NEW m \in Nat, n <= m,
         Tun!Sent(q, n), Tun!Tcp(p) => Tun!At(p.seq) + Tun!Span(p) <= m, NEW r, r = Append(q, p)
  PROVE  Tun!Sent(r, m)
<1>1. PICK L \in Nat : L = Len(q)
  OBVIOUS
<1>2. Len(r) = L + 1 /\ (\A j \in 1..L : r[j] = q[j]) /\ r[L + 1] = p
  BY <1>1
<1>3. SUFFICES ASSUME NEW k \in 1..(L + 1), Tun!Tcp(r[k]) PROVE Tun!At(r[k].seq) + Tun!Span(r[k]) <= m
  BY <1>2 DEF Tun!Sent
<1>4. CASE k \in 1..L
  <2>1. r[k] = q[k] /\ q[k] \in Tun!Wire
    BY <1>1, <1>2, <1>4
  <2>2. PICK a \in Nat, b \in Nat : a = Tun!At(q[k].seq) /\ b = Tun!Span(q[k])
    BY <2>1, <1>3, TunWire, TunAt
  <2>3. a + b <= n
    BY <1>1, <1>3, <1>4, <2>1, <2>2 DEF Tun!Sent
  <2> QED BY <2>1, <2>2, <2>3
<1>5. CASE k = L + 1
  BY <1>2, <1>3, <1>5
<1>6. k \in 1..L \/ k = L + 1
  BY <1>3
<1> QED BY <1>4, <1>5, <1>6

\* The first packet is taken; what it has is in t.
LEMMA TunTakeUnder ==
  ASSUME NEW q \in Seq(Tun!Wire), q # <<>>, NEW s, NEW t, s \subseteq t, NEW n \in Nat,
         NEW k \in Nat, NEW e \in Nat, k = e + 1, Tun!Under(q, k, n, s),
         \A d \in Nat : Tun!Has(Head(q), d) => Tun!Seq1(ISS, d) \in t, NEW r, r = Tail(q)
  PROVE  Tun!Under(r, e, n, t)
<1>1. PICK L \in Nat : L = Len(q) /\ L > 0
  OBVIOUS
<1>2. Len(r) = L - 1 /\ \A j \in 1..(L - 1) : r[j] = q[j + 1]
  BY <1>1
<1>3. SUFFICES ASSUME NEW d \in Nat, d < n, Tun!Seq1(ISS, d) \notin t
               PROVE  \E j \in 1..Len(r) : j <= e /\ Tun!Has(r[j], d)
  BY DEF Tun!Under
<1>4. PICK j \in 1..L : j <= k /\ Tun!Has(q[j], d)
  BY <1>1, <1>3 DEF Tun!Under
<1>5. j # 1
  <2>1. SUFFICES ASSUME j = 1 PROVE FALSE
    OBVIOUS
  <2>2. Head(q) = q[1]
    OBVIOUS
  <2> QED BY <2>1, <2>2, <1>3, <1>4
<1>6. PICK i \in 1..(L - 1) : i = j - 1 /\ j = i + 1
  BY <1>1, <1>4, <1>5
<1>7. i \in 1..Len(r) /\ i <= e /\ r[i] = q[j]
  BY <1>2, <1>4, <1>6
<1> QED BY <1>4, <1>7

LEMMA TunTakeTurn ==
  ASSUME NEW q \in Seq(Tun!Wire), q # <<>>, NEW s, NEW t, s \subseteq t, Tun!InTurn(q, s),
         \A d \in Nat : Tun!Has(Head(q), d) => Tun!Seq1(ISS, d) \in t, NEW r, r = Tail(q)
  PROVE  Tun!InTurn(r, t)
<1>1. PICK L \in Nat : L = Len(q) /\ L > 0
  OBVIOUS
<1>2. Len(r) = L - 1 /\ \A j \in 1..(L - 1) : r[j] = q[j + 1]
  BY <1>1
<1>3. SUFFICES ASSUME NEW k \in 1..(L - 1), Tun!Tcp(r[k]) PROVE Tun!Under(r, k - 1, Tun!At(r[k].seq), t)
  BY <1>2 DEF Tun!InTurn
<1>4. PICK j \in 1..L : j = k + 1
  BY <1>1
<1>5. r[k] = q[j] /\ q[j] \in Tun!Wire
  BY <1>1, <1>2, <1>4
<1>6. PICK n \in Nat : n = Tun!At(q[j].seq)
  BY <1>3, <1>5, TunWire, TunAt
<1>7. PICK e \in Nat, m \in Nat : e = k - 1 /\ m = j - 1 /\ m = e + 1
  BY <1>4
<1>8. Tun!Under(q, m, n, s)
  BY <1>1, <1>3, <1>5, <1>6, <1>7 DEF Tun!InTurn
<1>9. Tun!Under(r, e, n, t)
  BY <1>7, <1>8, TunTakeUnder
<1> QED BY <1>5, <1>6, <1>7, <1>9

LEMMA TunTakeEnd ==
  ASSUME NEW q \in Seq(Tun!Wire), q # <<>>, NEW s, NEW t, s \subseteq t, NEW n \in Nat,
         Tun!Under(q, Len(q), n, s),
         \A d \in Nat : Tun!Has(Head(q), d) => Tun!Seq1(ISS, d) \in t, NEW r, r = Tail(q)
  PROVE  Tun!Under(r, Len(r), n, t)
<1>1. PICK L \in Nat, e \in Nat : L = Len(q) /\ L = e + 1
  <2>1. Len(q) \in Nat /\ Len(q) > 0
    OBVIOUS
  <2> QED BY <2>1
<1>a. Len(r) = Len(q) - 1
  OBVIOUS
<1>2. Len(r) = e
  BY <1>a, <1>1
<1>3. Tun!Under(r, e, n, t)
  BY <1>1, TunTakeUnder
<1> QED BY <1>2, <1>3

LEMMA TunTakeSent ==
  ASSUME NEW q \in Seq(Tun!Wire), q # <<>>, NEW n, Tun!Sent(q, n) PROVE Tun!Sent(Tail(q), n)
<1>1. PICK L \in Nat : L = Len(q) /\ L > 0
  OBVIOUS
<1>2. Len(Tail(q)) = L - 1 /\ \A j \in 1..(L - 1) : Tail(q)[j] = q[j + 1] /\ j + 1 \in 1..L
  BY <1>1
<1> QED BY <1>1, <1>2 DEF Tun!Sent

LEMMA TunTakeAcked ==
  ASSUME NEW q \in Seq(Tun!Wire), q # <<>>, NEW n, Tun!Acked(q, n) PROVE Tun!Acked(Tail(q), n)
<1>1. PICK L \in Nat : L = Len(q) /\ L > 0
  OBVIOUS
<1>2. Len(Tail(q)) = L - 1 /\ \A j \in 1..(L - 1) : Tail(q)[j] = q[j + 1] /\ j + 1 \in 1..L
  BY <1>1
<1> QED BY <1>1, <1>2 DEF Tun!Acked

LEMMA TunTakeKnown ==
  ASSUME NEW q \in Seq(Tun!Wire), q # <<>>, NEW s, Tun!Known(q, s) PROVE Tun!Known(Tail(q), s)
<1>1. PICK L \in Nat : L = Len(q) /\ L > 0
  OBVIOUS
<1>2. Len(Tail(q)) = L - 1 /\ \A j \in 1..(L - 1) : Tail(q)[j] = q[j + 1] /\ j + 1 \in 1..L
  BY <1>1
<1> QED BY <1>1, <1>2 DEF Tun!Known

LEMMA TunPutAcked ==
  ASSUME NEW q \in Seq(Tun!Wire), NEW p \in Tun!Wire, NEW n \in Nat, Tun!Acked(q, n),
         Tun!Tcp(p) => Tun!At(p.ack) <= n
  PROVE  Tun!Acked(Append(q, p), n)
<1>1. PICK L \in Nat : L = Len(q)
  OBVIOUS
<1>2. Len(Append(q, p)) = L + 1 /\ (\A j \in 1..L : Append(q, p)[j] = q[j]) /\ Append(q, p)[L + 1] = p
  BY <1>1
<1> QED BY <1>1, <1>2 DEF Tun!Acked

LEMMA TunAckedUp ==
  ASSUME NEW q \in Seq(Tun!Wire), NEW n \in Nat, NEW m \in Nat, n <= m, Tun!Acked(q, n) PROVE Tun!Acked(q, m)
<1>1. SUFFICES ASSUME NEW k \in 1..Len(q), Tun!Tcp(q[k]) PROVE Tun!At(q[k].ack) <= m
  BY DEF Tun!Acked
<1>2. q[k] \in Tun!Wire
  OBVIOUS
<1>3. PICK a \in Nat : a = Tun!At(q[k].ack)
  BY <1>1, <1>2, TunWire, TunAt
<1>4. a <= n
  BY <1>1, <1>3 DEF Tun!Acked
<1> QED BY <1>3, <1>4

LEMMA TunPutKnown ==
  ASSUME NEW q \in Seq(Tun!Wire), NEW p \in Tun!Wire, NEW s, Tun!Known(q, s),
         Tun!Tcp(p) => Tun!ReadUpTo(Tun!At(p.ack), s)
  PROVE  Tun!Known(Append(q, p), s)
<1>1. PICK L \in Nat : L = Len(q)
  OBVIOUS
<1>2. Len(Append(q, p)) = L + 1 /\ (\A j \in 1..L : Append(q, p)[j] = q[j]) /\ Append(q, p)[L + 1] = p
  BY <1>1
<1> QED BY <1>1, <1>2 DEF Tun!Known

LEMMA TunKnownUp ==
  ASSUME NEW q, NEW s, NEW t, s \subseteq t, Tun!Known(q, s) PROVE Tun!Known(q, t)
BY DEF Tun!Known, Tun!ReadUpTo

LEMMA TunType == ASSUME Tun!IInv
                 PROVE  /\ Tun!At(m6) \in Nat /\ Tun!At(m7) \in Nat /\ Tun!At(m7) < SeqMod
                        /\ m3 \in Seq(Tun!Wire) /\ m4 \in Seq(Tun!Wire)
<1>1. m6 \in Tun!Number /\ m7 \in Tun!Number /\ m3 \in Seq(Tun!Wire) /\ m4 \in Seq(Tun!Wire)
  BY DEF Tun!IInv, Tun!TypeOK
<1> QED BY <1>1, TunAt

\* The kernel sends a packet.
LEMMA TunSends ==
  ASSUME Tun!IInv, NEW p \in Tun!Wire, NEW n \in Nat, Tun!At(m7) <= n,
         Tun!Tcp(p) => Tun!At(p.seq) + Tun!Span(p) <= n,
         (m11 = 0 /\ Tun!Tcp(p)) => Tun!Under(m3, Len(m3), Tun!At(p.seq), m10),
         n = Tun!At(m7) \/ (Tun!Tcp(p) /\ Tun!At(p.seq) <= Tun!At(m7) /\ n <= Tun!At(p.seq) + Tun!Span(p))
  PROVE  Tun!Put(Append(m3, p), n)
<1>1. PICK q \in Seq(Tun!Wire), m \in Nat : q = m3 /\ m = Tun!At(m7)
  BY TunType
<1>2. PICK r : r = Append(q, p)
  OBVIOUS
<1>3. Tun!Sent(q, m) /\ (m11 = 0 => Tun!InTurn(q, m10) /\ Tun!Under(q, Len(q), m, m10))
  BY <1>1 DEF Tun!IInv, Tun!Bounded, Tun!Lossless
<1>4. r \in Seq(Tun!Wire)
  BY <1>1, <1>2
<1>5. Tun!Sent(r, n)
  BY <1>1, <1>2, <1>3, TunPutSent
<1>6. ASSUME m11 = 0 PROVE Tun!InTurn(r, m10)
  <2>1. Tun!InTurn(q, m10) /\ (Tun!Tcp(p) => Tun!Under(q, Len(q), Tun!At(p.seq), m10))
    BY <1>1, <1>3, <1>6
  <2> QED BY <2>1, <1>2, TunPutTurn
<1>7. ASSUME m11 = 0 PROVE Tun!Under(r, Len(r), n, m10)
  <2>1. Tun!Under(q, Len(q), m, m10)
    BY <1>3, <1>7
  <2>2. n = m \/ (Tun!Tcp(p) /\ Tun!At(p.seq) <= m /\ n <= Tun!At(p.seq) + Tun!Span(p))
    BY <1>1
  <2> QED BY <2>1, <2>2, <1>2, TunPutEnd
<1>8. Tun!Put(r, n)
  BY <1>4, <1>5, <1>6, <1>7 DEF Tun!Put
<1> QED BY <1>1, <1>2, <1>8

\* One that begins at nxt.
LEMMA TunNext ==
  ASSUME Tun!IInv, NEW p \in Tun!Wire, Tun!Tcp(p), p.seq = m7, NEW n, n = Tun!At(m7) + Tun!Span(p)
  PROVE  Tun!Put(Append(m3, p), n)
<1>1. PICK m \in Nat, e \in Nat : m = Tun!At(m7) /\ e = Tun!Span(p)
  BY TunType, TunWire
<1>2. n \in Nat /\ m <= n /\ n = m + e /\ m <= m /\ n <= n
  BY <1>1
<1>3. m11 = 0 => Tun!Under(m3, Len(m3), Tun!At(p.seq), m10)
  BY DEF Tun!IInv, Tun!Lossless
<1>4. Tun!At(p.seq) = m /\ Tun!At(p.seq) + Tun!Span(p) <= n /\ n <= Tun!At(p.seq) + Tun!Span(p) /\ Tun!At(p.seq) <= Tun!At(m7) /\ Tun!At(m7) <= n
  BY <1>1, <1>2
<1> QED BY <1>2, <1>3, <1>4, TunSends

\* One that begins at una, when nothing is under way.
LEMMA TunAgain ==
  ASSUME Tun!IInv, NEW p \in Tun!Wire, Tun!Tcp(p), p.seq = m6, m3 = <<>>, Tun!At(m6) + Tun!Span(p) <= Tun!At(m7)
  PROVE  Tun!Put(Append(m3, p), Tun!At(m7))
<1>1. PICK n \in Nat : n = Tun!At(m7) /\ n <= n
  BY TunType
<1>2. ASSUME m11 = 0 PROVE Tun!Under(m3, Len(m3), Tun!At(p.seq), m10)
  <2>1. Tun!ReadUpTo(Tun!At(m6), m10)
    BY <1>2 DEF Tun!IInv, Tun!Lossless
  <2> QED BY <2>1 DEF Tun!ReadUpTo, Tun!Under
<1>3. Tun!At(p.seq) + Tun!Span(p) <= n /\ Tun!At(m7) <= n
  BY <1>1
<1>4. Tun!Put(Append(m3, p), n)
  BY <1>1, <1>2, <1>3, TunSends
<1> QED BY <1>1, <1>4

\* One that is no segment.
LEMMA TunElse ==
  ASSUME Tun!IInv, NEW p \in Tun!Wire, ~Tun!Tcp(p) PROVE Tun!Put(Append(m3, p), Tun!At(m7))
<1>1. PICK n \in Nat : n = Tun!At(m7) /\ n <= n
  BY TunType
<1>2. Tun!At(m7) <= n
  BY <1>1
<1>4. Tun!Put(Append(m3, p), n)
  BY <1>1, <1>2, TunSends
<1> QED BY <1>1, <1>4

\* The step in which it is sent.
LEMMA TunSent ==
  ASSUME Tun!IInv, UNCHANGED <<m1, m4, m6, m8, m10, m11>>,
         m7' \in Tun!Number, m9' \in 0..MaxData,
         m5' \in {"closed", "synsent", "established", "finwait", "reset"},
         Tun!At(m7) <= Tun!At(m7'), Tun!At(m7') <= m9' + 2,
         m5' \in {"synsent", "established"} => Tun!At(m7') <= m9' + 1,
         m5' = "closed" => m7' = ISS,
         Tun!Put(m3', Tun!At(m7'))
  PROVE  Tun!IInv'
<1>0. m7 \in Tun!Number /\ m6 \in Tun!Number /\ Tun!At(m6) <= Tun!At(m7) /\ m4 \in Seq(Tun!Wire)
      /\ Tun!Acked(m4, Tun!At(m7))
  BY DEF Tun!IInv, Tun!TypeOK, Tun!Bounded
<1>1. PICK a \in Nat, b \in Nat, c \in Nat : a = Tun!At(m6) /\ b = Tun!At(m7) /\ c = Tun!At(m7')
  BY <1>0, TunAt
<1>2. a <= b /\ b <= c /\ a <= c
  BY <1>0, <1>1
<1>3. Tun!Acked(m4, b)
  BY <1>0, <1>1
<1>4. Tun!Acked(m4, c)
  BY <1>0, <1>2, <1>3, TunAckedUp
<1>5. Tun!TypeOK'
  BY DEF Tun!IInv, Tun!TypeOK, Tun!Put
<1>6. Tun!Sent(m3', Tun!At(m7')) /\ Tun!Acked(m4', Tun!At(m7')) /\ Tun!At(m6') <= Tun!At(m7')
  BY <1>1, <1>2, <1>4 DEF Tun!Put
<1>7. Tun!Bounded'
  BY <1>6 DEF Tun!Bounded
<1>8. (m11 = 0 => Tun!Lossless)'
  BY DEF Tun!IInv, Tun!Lossless, Tun!Put
<1> QED BY <1>5, <1>7, <1>8 DEF Tun!IInv

LEMMA TunNumbers == 0 \in Tun!Number /\ 1 \in Tun!Number /\ ISS \in Tun!Number /\ SeqMod \in Nat /\ MaxData \in Nat /\ MaxData + 2 < SeqMod
BY TunAssumption DEF Tun!Number

LEMMA TunFlags == {"S"} \in Tun!Flags /\ {"A"} \in Tun!Flags /\ {"F", "A"} \in Tun!Flags /\ {"S", "A"} \in Tun!Flags /\ {"R", "A"} \in Tun!Flags
BY DEF Tun!Flags

LEMMA TunBack == ASSUME NEW x \in Tun!Number PROVE x = Tun!Seq1(ISS, Tun!At(x))
<1>1. SeqMod \in Nat /\ SeqMod > 0 /\ ISS \in Nat /\ ISS < SeqMod /\ x \in Nat /\ x < SeqMod
  BY TunAssumption DEF Tun!Number
<1>2. PICK e \in Nat : e = Tun!At(x)
  BY TunAt
<1>3. (x >= ISS => e = x - ISS) /\ (x < ISS => e = (x + SeqMod) - ISS)
  BY <1>2, TunAt
<1>4. PICK a \in Nat : a = ISS + e
  BY <1>1
<1>5. a = x \/ (a = x + SeqMod)
  BY <1>1, <1>3, <1>4
<1>6. a % SeqMod = x
  BY <1>1, <1>5, TunMod
<1> QED BY <1>2, <1>4, <1>6 DEF Tun!Seq1

LEMMA TunInit == Tun!Init => Tun!IInv
<1> SUFFICES ASSUME Tun!Init PROVE Tun!IInv
  OBVIOUS
<1>1. Tun!TypeOK
  BY TunNumbers DEF Tun!Init, Tun!TypeOK
<1>2. Tun!At(m6) = 0 /\ Tun!At(m7) = 0
  BY TunStart DEF Tun!Init
<1>3. Tun!Bounded
  BY <1>2 DEF Tun!Init, Tun!Bounded, Tun!Sent, Tun!Acked
<1>4. Tun!Lossless
  BY <1>2 DEF Tun!Init, Tun!Lossless, Tun!ReadUpTo, Tun!Known, Tun!InTurn, Tun!Under
<1> QED BY <1>1, <1>3, <1>4 DEF Tun!IInv

LEMMA TunConnect == Tun!IInv /\ Tun!Connect => Tun!IInv'
<1> SUFFICES ASSUME Tun!IInv, Tun!Connect PROVE Tun!IInv'
  OBVIOUS
<1>1. m7 = ISS /\ m9 \in 0..MaxData /\ m5 = "closed"
  BY DEF Tun!IInv, Tun!TypeOK, Tun!Bounded, Tun!Connect
<1>2. Tun!At(m7) = 0 /\ m7 \in Tun!Number
  BY <1>1, TunStart
<1>3. PICK one \in Nat : one = 1
  OBVIOUS
<1>4. Tun!At(m7) + one < SeqMod
  BY <1>2, <1>3, TunNumbers
<1>5. m7' = Tun!Seq1(m7, one)
  BY <1>1, <1>3 DEF Tun!Connect
<1>6. m7' \in Tun!Number /\ Tun!At(m7') = 1
  BY <1>2, <1>3, <1>4, <1>5, TunAdv
<1>7. PICK p : p = Tun!Segment({"S"}, m7, 0, 0)
  OBVIOUS
<1>8. p \in Tun!Wire /\ Tun!Tcp(p) /\ p.seq = m7 /\ p.flags = {"S"} /\ p.len = 0
  BY <1>2, <1>7, TunNumbers, TunFlags, TunSegment
<1>9. Tun!Span(p) = 1
  BY <1>8 DEF Tun!Span
<1>10. PICK n : n = Tun!At(m7) + Tun!Span(p)
  OBVIOUS
<1>11. Tun!Put(Append(m3, p), n)
  BY <1>8, <1>10, TunNext
<1>12. n = Tun!At(m7')
  BY <1>2, <1>6, <1>9, <1>10
<1>13. Tun!Put(m3', Tun!At(m7'))
  BY <1>1, <1>7, <1>11, <1>12 DEF Tun!Connect, Tun!SendSeg
<1>14. m9' \in 0..MaxData /\ Tun!At(m7) <= Tun!At(m7') /\ Tun!At(m7') <= m9' + 2 /\ Tun!At(m7') <= m9' + 1
  BY <1>1, <1>2, <1>6 DEF Tun!Connect
<1>15. m5' = "synsent" /\ UNCHANGED <<m1, m4, m6, m8, m10, m11>>
  BY DEF Tun!Connect
<1> QED BY <1>6, <1>13, <1>14, <1>15, TunSent

\* A segment with l bytes, or one number less with a FIN.
LEMMA TunSendData == Tun!IInv /\ Tun!SendData => Tun!IInv'
<1> SUFFICES ASSUME Tun!IInv, Tun!SendData PROVE Tun!IInv'
  OBVIOUS
<1>1. m7 \in Tun!Number /\ m8 \in Tun!Number /\ m9 \in 0..MaxData /\ m9 < MaxData /\ m5 = "established" /\ Tun!At(m7) <= m9 + 1
  BY DEF Tun!IInv, Tun!TypeOK, Tun!Bounded, Tun!SendData
<1>2. PICK m \in Nat : m = Tun!At(m7)
  BY TunType
<1>3. PICK one \in Nat : one = 1
  OBVIOUS
<1>4. Tun!At(m7) + one < SeqMod
  BY <1>1, <1>2, <1>3, TunNumbers
<1>5. m7' = Tun!Seq1(m7, one)
  BY <1>3 DEF Tun!SendData
<1>6. m7' \in Tun!Number /\ Tun!At(m7') = m + 1
  BY <1>1, <1>2, <1>3, <1>4, <1>5, TunAdv
<1>7. PICK p : p = Tun!Segment({"A"}, m7, m8, 1)
  OBVIOUS
<1>8. p \in Tun!Wire /\ Tun!Tcp(p) /\ p.seq = m7 /\ p.flags = {"A"} /\ p.len = 1
  BY <1>1, <1>7, TunFlags, TunSegment
<1>9. Tun!Span(p) = 1
  BY <1>8 DEF Tun!Span
<1>10. PICK n : n = Tun!At(m7) + Tun!Span(p)
  OBVIOUS
<1>11. Tun!Put(Append(m3, p), n)
  BY <1>8, <1>10, TunNext
<1>12. n = Tun!At(m7')
  BY <1>2, <1>6, <1>9, <1>10
<1>13. Tun!Put(m3', Tun!At(m7'))
  BY <1>7, <1>11, <1>12 DEF Tun!SendData, Tun!SendSeg
<1>b. m9' = m9 + 1
  BY DEF Tun!SendData
<1>14. m9' \in 0..MaxData /\ Tun!At(m7) <= Tun!At(m7') /\ Tun!At(m7') <= m9' + 2 /\ Tun!At(m7') <= m9' + 1
  BY <1>b, <1>1, <1>2, <1>6, TunNumbers
<1>15. m5' = "established" /\ UNCHANGED <<m1, m4, m6, m8, m10, m11>>
  BY <1>1 DEF Tun!SendData
<1> QED BY <1>6, <1>13, <1>14, <1>15, TunSent

LEMMA TunClose == Tun!IInv /\ Tun!Close => Tun!IInv'
<1> SUFFICES ASSUME Tun!IInv, Tun!Close PROVE Tun!IInv'
  OBVIOUS
<1>1. m7 \in Tun!Number /\ m8 \in Tun!Number /\ m9 \in 0..MaxData /\ Tun!At(m7) <= m9 + 1
  BY DEF Tun!IInv, Tun!TypeOK, Tun!Bounded, Tun!Close
<1>2. PICK m \in Nat : m = Tun!At(m7)
  BY TunType
<1>3. PICK l \in {0, 1} : /\ m9 + l <= MaxData /\ m9' = m9 + l
                          /\ Tun!SendSeg(Tun!Segment({"F", "A"}, m7, m8, l)) /\ m7' = Tun!Seq1(m7, l + 1)
  BY DEF Tun!Close
<1>4. PICK e \in Nat : e = l + 1
  BY <1>3
<1>a. Tun!At(m7) + e < SeqMod
  BY <1>1, <1>2, <1>3, <1>4, TunNumbers
<1>5. m7' = Tun!Seq1(m7, e)
  BY <1>3, <1>4
<1>6. m7' \in Tun!Number /\ Tun!At(m7') = m + e
  BY <1>1, <1>2, <1>a, <1>5, TunAdv
<1>7. PICK p : p = Tun!Segment({"F", "A"}, m7, m8, l)
  OBVIOUS
<1>b. l \in Nat
  BY <1>3
<1>8. p \in Tun!Wire /\ Tun!Tcp(p) /\ p.seq = m7 /\ p.flags = {"F", "A"} /\ p.len = l
  BY <1>1, <1>7, <1>b, TunFlags, TunSegment
<1>9. Tun!Span(p) = e
  BY <1>4, <1>8 DEF Tun!Span
<1>10. PICK n : n = Tun!At(m7) + Tun!Span(p)
  OBVIOUS
<1>11. Tun!Put(Append(m3, p), n)
  BY <1>8, <1>10, TunNext
<1>12. n = Tun!At(m7')
  BY <1>2, <1>6, <1>9, <1>10
<1>13. Tun!Put(m3', Tun!At(m7'))
  BY <1>3, <1>7, <1>11, <1>12 DEF Tun!SendSeg
<1>14. m9' \in 0..MaxData /\ Tun!At(m7) <= Tun!At(m7') /\ Tun!At(m7') <= m9' + 2
  BY <1>1, <1>2, <1>3, <1>4, <1>6, <1>b
<1>15. m5' = "finwait" /\ UNCHANGED <<m1, m4, m6, m8, m10, m11>>
  BY DEF Tun!Close
<1> QED BY <1>6, <1>13, <1>14, <1>15, TunSent

\* Nothing of the kernel's own changes.
LEMMA TunStill ==
  ASSUME Tun!IInv, UNCHANGED <<m1, m4, Tun!kernel, m10, m11>>, Tun!Put(m3', Tun!At(m7))
  PROVE  Tun!IInv'
<1>1. UNCHANGED <<m1, m4, m6, m8, m10, m11>> /\ m7' = m7 /\ m9' = m9 /\ m5' = m5
  BY DEF Tun!kernel
<1>2. m7 \in Tun!Number /\ m9 \in 0..MaxData /\ m5 \in {"closed", "synsent", "established", "finwait", "reset"}
  BY DEF Tun!IInv, Tun!TypeOK
<1>3. /\ Tun!At(m7) <= m9 + 2 /\ (m5 \in {"synsent", "established"} => Tun!At(m7) <= m9 + 1)
      /\ (m5 = "closed" => m7 = ISS)
  BY DEF Tun!IInv, Tun!Bounded
<1>4. PICK m \in Nat : m = Tun!At(m7) /\ m <= m
  BY TunType
<1>5. Tun!At(m7) <= Tun!At(m7')
  BY <1>1, <1>4
<1> QED BY <1>1, <1>2, <1>3, <1>5, TunSent

LEMMA TunRetransmit == Tun!IInv /\ Tun!Retransmit => Tun!IInv'
<1> SUFFICES ASSUME Tun!IInv, Tun!Retransmit PROVE Tun!IInv'
  OBVIOUS
<1>1. m7 \in Tun!Number /\ m6 \in Tun!Number /\ m8 \in Tun!Number /\ Tun!At(m6) <= Tun!At(m7) /\ m6 # m7 /\ m3 = <<>>
  BY DEF Tun!IInv, Tun!TypeOK, Tun!Bounded, Tun!Retransmit
<1>2. PICK a \in Nat, b \in Nat, n \in Nat : a = Tun!At(m6) /\ b = Tun!At(m7) /\ n = b - a /\ a <= b
  BY <1>1, TunType
<1>3. n = Tun!Dist(m6, m7)
  BY <1>1, <1>2, TunDist
<1>4. n > 0
  <2>1. SUFFICES ASSUME a = b PROVE FALSE
    BY <1>2
  <2>2. 0 \in Nat
    OBVIOUS
  <2>3. a < SeqMod
    BY <1>1, <1>2, TunAt
  <2>4. m6 = Tun!Seq1(ISS, a) /\ m7 = Tun!Seq1(ISS, a)
    BY <2>1, <1>1, <1>2, TunBack
  <2> QED BY <2>4, <1>1
<1>5. PICK p : p = CASE m5 = "synsent" -> Tun!Segment({"S"}, m6, 0, 0)
                     [] m5 = "finwait" -> Tun!Segment({"F", "A"}, m6, m8, n - 1)
                     [] OTHER -> Tun!Segment({"A"}, m6, m8, n)
  OBVIOUS
<1>6. m3' = Append(m3, p)
  BY <1>3, <1>5 DEF Tun!Retransmit, Tun!SendSeg
<1>7. p \in Tun!Wire /\ Tun!Tcp(p) /\ p.seq = m6 /\ Tun!Span(p) <= n /\ Tun!Span(p) \in Nat
  <2>1. CASE m5 = "synsent"
    <3>1. p = Tun!Segment({"S"}, m6, 0, 0)
      BY <1>5, <2>1
    <3>2. p \in Tun!Wire /\ Tun!Tcp(p) /\ p.seq = m6 /\ p.flags = {"S"} /\ p.len = 0
      BY <3>1, <1>1, TunNumbers, TunFlags, TunSegment
    <3>3. Tun!Span(p) = 1
      BY <3>2 DEF Tun!Span
    <3> QED BY <3>2, <3>3, <1>4
  <2>2. CASE m5 = "finwait"
    <3>0. PICK l \in Nat : l = n - 1
      BY <1>4
    <3>1. p = Tun!Segment({"F", "A"}, m6, m8, l)
      BY <1>5, <2>2, <3>0
    <3>2. p \in Tun!Wire /\ Tun!Tcp(p) /\ p.seq = m6 /\ p.flags = {"F", "A"} /\ p.len = l
      BY <3>1, <1>1, TunFlags, TunSegment
    <3>3. Tun!Span(p) = l + 1
      BY <3>2 DEF Tun!Span
    <3> QED BY <3>2, <3>3, <3>0
  <2>3. CASE m5 # "synsent" /\ m5 # "finwait"
    <3>1. p = Tun!Segment({"A"}, m6, m8, n)
      BY <1>5, <2>3
    <3>2. p \in Tun!Wire /\ Tun!Tcp(p) /\ p.seq = m6 /\ p.flags = {"A"} /\ p.len = n
      BY <3>1, <1>1, TunFlags, TunSegment
    <3>3. Tun!Span(p) = n
      BY <3>2 DEF Tun!Span
    <3> QED BY <3>2, <3>3
  <2> QED BY <2>1, <2>2, <2>3
<1>8. Tun!At(m6) + Tun!Span(p) <= Tun!At(m7)
  BY <1>2, <1>7
<1>9. Tun!Put(Append(m3, p), Tun!At(m7))
  BY <1>1, <1>7, <1>8, TunAgain
<1>10. Tun!Put(m3', Tun!At(m7))
  BY <1>6, <1>9
<1>11. UNCHANGED <<m1, m4, Tun!kernel, m10, m11>>
  BY DEF Tun!Retransmit
<1> QED BY <1>10, <1>11, TunStill

LEMMA TunOther == Tun!IInv /\ Tun!Other => Tun!IInv'
<1> SUFFICES ASSUME Tun!IInv, Tun!Other PROVE Tun!IInv'
  OBVIOUS
<1>1. PICK p \in {Tun!Echo, Tun!Damaged} : m3' = Append(m3, p)
  BY DEF Tun!Other, Tun!SendSeg
<1>2. p \in Tun!Wire /\ ~Tun!Tcp(p)
  BY DEF Tun!Wire, Tun!Tcp, Tun!Echo, Tun!Damaged
<1>3. Tun!Put(Append(m3, p), Tun!At(m7))
  BY <1>2, TunElse
<1>4. Tun!Put(m3', Tun!At(m7))
  BY <1>1, <1>3
<1>5. UNCHANGED <<m1, m4, Tun!kernel, m10, m11>>
  BY DEF Tun!Other
<1> QED BY <1>4, <1>5, TunStill

\* What the program has read of a segment.
LEMMA TunHeadRead ==
  ASSUME NEW p \in Tun!Wire, Tun!Tcp(p), Tun!At(p.seq) + Tun!Span(p) < SeqMod, NEW d \in Nat, Tun!Has(p, d)
  PROVE  Tun!Seq1(ISS, d) \in {Tun!Seq1(p.seq, e) : e \in 0..(Tun!Span(p) - 1)}
<1>1. PICK a \in Nat, n \in Nat : a = Tun!At(p.seq) /\ n = Tun!Span(p) /\ p.seq \in Tun!Number
  BY TunWire, TunAt
<1>2. a <= d /\ d < a + n /\ d < SeqMod
  BY <1>1, TunNumbers DEF Tun!Has
<1>3. Tun!Seq1(ISS, d) = Tun!Seq1(p.seq, d - a)
  BY <1>1, <1>2, TunSame
<1>4. d - a \in 0..(n - 1)
  BY <1>2
<1> QED BY <1>1, <1>3, <1>4

LEMMA TunTurn ==
  ASSUME Tun!IInv, m3 # <<>>, NEW p, p = Head(m3),
         m3' = Tail(m3),
         m10' = IF p.proto = "tcp" THEN m10 \cup {Tun!Seq1(p.seq, d) : d \in 0..(Tun!Span(p) - 1)} ELSE m10,
         m4' = m4 \/ \E a : Tun!Answer(p, a) /\ m4' = Append(m4, a),
         UNCHANGED <<m1, Tun!kernel, m11>>
  PROVE  Tun!IInv'
<1>1. PICK q \in Seq(Tun!Wire), n \in Nat : q = m3 /\ n = Tun!At(m7) /\ n < SeqMod
  BY TunType
<1>2. p \in Tun!Wire /\ p = q[1] /\ 1 \in 1..Len(q) /\ Tail(q) \in Seq(Tun!Wire)
  BY <1>1
<1>3. Tun!Sent(q, n) /\ (m11 = 0 => Tun!InTurn(q, m10) /\ Tun!Under(q, Len(q), n, m10))
  BY <1>1 DEF Tun!IInv, Tun!Bounded, Tun!Lossless
<1>4. Tun!Tcp(p) => Tun!At(p.seq) + Tun!Span(p) <= n
  BY <1>2, <1>3 DEF Tun!Sent
<1>5. m10 \subseteq m10'
  OBVIOUS
<1>6. ASSUME NEW d \in Nat, Tun!Has(p, d) PROVE Tun!Seq1(ISS, d) \in m10'
  <2>1. Tun!Tcp(p)
    BY <1>6 DEF Tun!Has
  <2>2. PICK a \in Nat, b \in Nat : a = Tun!At(p.seq) /\ b = Tun!Span(p)
    BY <1>2, <2>1, TunWire, TunAt
  <2>3. Tun!At(p.seq) + Tun!Span(p) < SeqMod
    BY <2>1, <2>2, <1>1, <1>4, TunNumbers
  <2>4. Tun!Seq1(ISS, d) \in {Tun!Seq1(p.seq, e) : e \in 0..(Tun!Span(p) - 1)}
    BY <1>2, <1>6, <2>1, <2>3, TunHeadRead
  <2>5. m10' = m10 \cup {Tun!Seq1(p.seq, e) : e \in 0..(Tun!Span(p) - 1)}
    BY <2>1 DEF Tun!Tcp
  <2> QED BY <2>4, <2>5
<1>7. Tun!Sent(Tail(q), n)
  BY <1>1, <1>3, TunTakeSent
<1>8. m11 = 0 => Tun!InTurn(Tail(q), m10')
  BY <1>1, <1>3, <1>5, <1>6, TunTakeTurn
<1>9. m11 = 0 => Tun!Under(Tail(q), Len(Tail(q)), n, m10')
  BY <1>1, <1>3, <1>5, <1>6, TunTakeEnd
<1>10. ASSUME NEW a, Tun!Answer(p, a), Tun!Tcp(a)
       PROVE  Tun!At(a.ack) <= n /\ (m11 = 0 => Tun!ReadUpTo(Tun!At(a.ack), m10'))
  <2>1. Tun!Tcp(p)
    BY <1>10 DEF Tun!Answer
  <2>2. PICK c \in 0..Tun!Span(p) : a.ack = Tun!Seq1(p.seq, c)
    BY <1>10 DEF Tun!Answer
  <2>3. PICK x \in Nat, b \in Nat : x = Tun!At(p.seq) /\ b = Tun!Span(p) /\ p.seq \in Tun!Number
    BY <1>2, <2>1, TunWire, TunAt
  <2>4. c \in Nat /\ c <= b /\ x + b <= n
    BY <2>1, <2>2, <2>3, <1>4
  <2>5. Tun!At(p.seq) + c < SeqMod
    BY <2>3, <2>4, <1>1, TunNumbers
  <2>6. Tun!At(a.ack) = x + c
    BY <2>2, <2>3, <2>4, <2>5, TunAdv
  <2>7. ASSUME m11 = 0, NEW d \in Nat, d < x + c PROVE Tun!Seq1(ISS, d) \in m10'
    <3>1. CASE d < x
      <4>0. PICK one \in 1..Len(q), z \in Nat : one = 1 /\ z = one - 1
        BY <1>2
      <4>1. Tun!Under(q, z, Tun!At(p.seq), m10)
        BY <1>2, <1>3, <2>1, <2>7, <4>0 DEF Tun!InTurn
      <4>2. Tun!Seq1(ISS, d) \in m10 \/ \E j \in 1..Len(q) : j <= z
        BY <4>1, <3>1, <2>3 DEF Tun!Under
      <4>3. ~ \E j \in 1..Len(q) : j <= z
        BY <4>0, <1>1
      <4> QED BY <4>2, <4>3, <1>5
    <3>2. CASE x <= d
      <4>1. Tun!Has(p, d)
        BY <2>1, <2>3, <2>4, <2>7, <3>2 DEF Tun!Has
      <4> QED BY <4>1, <1>6
    <3> QED BY <3>1, <3>2, <2>3
  <2>8. ASSUME m11 = 0 PROVE Tun!ReadUpTo(Tun!At(a.ack), m10')
    BY <2>6, <2>7, <2>8 DEF Tun!ReadUpTo
  <2>9. Tun!At(a.ack) <= n
    BY <2>3, <2>4, <2>6, <1>1
  <2> QED BY <2>8, <2>9
<1>11. m4 \in Seq(Tun!Wire) /\ Tun!Acked(m4, n) /\ (m11 = 0 => Tun!Known(m4, m10'))
  <2>1. m4 \in Seq(Tun!Wire) /\ Tun!Acked(m4, n) /\ (m11 = 0 => Tun!Known(m4, m10))
    BY <1>1 DEF Tun!IInv, Tun!TypeOK, Tun!Bounded, Tun!Lossless
  <2> QED BY <2>1, <1>5, TunKnownUp
<1>12. m4' \in Seq(Tun!Wire) /\ Tun!Acked(m4', n) /\ (m11 = 0 => Tun!Known(m4', m10'))
  <2>1. CASE m4' = m4
    BY <2>1, <1>11
  <2>2. CASE \E a : Tun!Answer(p, a) /\ m4' = Append(m4, a)
    <3>1. PICK a : Tun!Answer(p, a) /\ m4' = Append(m4, a)
      BY <2>2
    <3>2. a \in Tun!Wire
      BY <3>1 DEF Tun!Answer
    <3>3. (Tun!Tcp(a) => Tun!At(a.ack) <= n) /\ (m11 = 0 /\ Tun!Tcp(a) => Tun!ReadUpTo(Tun!At(a.ack), m10'))
      BY <3>1, <1>10
    <3>4. m4' \in Seq(Tun!Wire)
      BY <3>1, <3>2, <1>11
    <3>5. Tun!Acked(Append(m4, a), n)
      BY <3>2, <3>3, <1>1, <1>11, TunPutAcked
    <3>6. m11 = 0 => Tun!Known(Append(m4, a), m10')
      BY <3>2, <3>3, <1>11, TunPutKnown
    <3> QED BY <3>1, <3>4, <3>5, <3>6
  <2> QED BY <2>1, <2>2
<1>13. UNCHANGED <<m1, m5, m6, m7, m8, m9, m11>>
  BY DEF Tun!kernel
<1>14. Tun!TypeOK'
  BY <1>1, <1>2, <1>12, <1>13 DEF Tun!IInv, Tun!TypeOK
<1>15. Tun!Sent(m3', Tun!At(m7')) /\ Tun!Acked(m4', Tun!At(m7'))
  BY <1>1, <1>7, <1>12, <1>13
<1>16. Tun!Bounded'
  BY <1>13, <1>15 DEF Tun!IInv, Tun!Bounded
<1>17. m11 = 0 => Tun!ReadUpTo(Tun!At(m6), m10')
  BY <1>5 DEF Tun!IInv, Tun!Lossless, Tun!ReadUpTo
<1>18. (m11 = 0 => Tun!Lossless)'
  BY <1>1, <1>8, <1>9, <1>12, <1>13, <1>17 DEF Tun!Lossless
<1> QED BY <1>14, <1>16, <1>18 DEF Tun!IInv

LEMMA TunChosen == ASSUME NEW S, S # {} PROVE (CHOOSE o \in S : TRUE) \in S
OBVIOUS

LEMMA TunReply == ASSUME NEW p, NEW a, a = [proto |-> "icmp", type |-> "reply"] PROVE Tun!Answer(p, a)
BY DEF Tun!Answer, Tun!Wire, Tun!Tcp

\* An acknowledgement of c numbers of p.
LEMMA TunAcks ==
  ASSUME NEW p \in Tun!Wire, Tun!Tcp(p), NEW f \in Tun!Flags, NEW s \in Tun!Number, NEW c \in 0..Tun!Span(p), NEW a,
         a = Tun!Segment(f, s, Tun!Seq1(p.seq, c), 0)
  PROVE  Tun!Answer(p, a)
<1>1. p.seq \in Nat /\ c \in Nat
  BY TunWire, TunAssumption DEF Tun!Number
<1>2. PICK x \in Tun!Number : x = Tun!Seq1(p.seq, c)
  BY <1>1, TunSeq
<1>3. PICK l \in Nat : l = 0
  OBVIOUS
<1>4. a = Tun!Segment(f, s, x, l)
  BY <1>2, <1>3
<1>5. a \in Tun!Wire /\ a.ack = x
  BY <1>4, TunSegment
<1> QED BY <1>2, <1>5 DEF Tun!Answer

LEMMA TunAccept == ASSUME NEW p \in Tun!Wire, Tun!Tcp(p), NEW a \in Tun!accept_input(p) PROVE Tun!Answer(p, a)
<1>1. p.len \in Nat
  BY TunWire
<1>2. CASE "S" \in p.flags
  <2>1. PICK c \in 0..Tun!Span(p) : c = 1
    BY <1>1, <1>2 DEF Tun!Span
  <2>2. a = Tun!Segment({"S", "A"}, 0, Tun!Seq1(p.seq, c), 0)
    BY <1>2, <2>1 DEF Tun!accept_input
  <2> QED BY <2>2, TunFlags, TunNumbers, TunAcks
<1>3. CASE "S" \notin p.flags /\ "F" \in p.flags
  <2>1. PICK c \in 0..Tun!Span(p) : c = 1
    BY <1>1, <1>3 DEF Tun!Span
  <2>2. a = Tun!Segment({"F", "A"}, 1, Tun!Seq1(p.seq, c), 0)
    BY <1>3, <2>1 DEF Tun!accept_input
  <2> QED BY <2>2, TunFlags, TunNumbers, TunAcks
<1>4. CASE "S" \notin p.flags /\ "F" \notin p.flags
  BY <1>4 DEF Tun!accept_input
<1> QED BY <1>2, <1>3, <1>4

LEMMA TunDiscard == ASSUME NEW p \in Tun!Wire, Tun!Tcp(p), NEW a \in Tun!discard_input(p) PROVE Tun!Answer(p, a)
<1>1. p.len \in Nat
  BY TunWire
<1>2. CASE "S" \notin p.flags /\ "F" \notin p.flags /\ p.len > 0
  <2>1. PICK c \in 0..Tun!Span(p) : c = p.len
    BY <1>1, <1>2 DEF Tun!Span
  <2>2. a = Tun!Segment({"A"}, 1, Tun!Seq1(p.seq, c), 0)
    BY <1>2, <2>1 DEF Tun!discard_input
  <2> QED BY <2>2, TunFlags, TunNumbers, TunAcks
<1>3. CASE ~("S" \notin p.flags /\ "F" \notin p.flags /\ p.len > 0)
  <2>1. a \in Tun!accept_input(p)
    BY <1>3 DEF Tun!discard_input
  <2> QED BY <2>1, TunAccept
<1> QED BY <1>2, <1>3

LEMMA TunReject == ASSUME NEW p \in Tun!Wire, Tun!Tcp(p), NEW a \in Tun!reject_input(p) PROVE Tun!Answer(p, a)
<1>1. p.len \in Nat /\ "S" \in p.flags
  BY TunWire DEF Tun!reject_input
<1>2. PICK c \in 0..Tun!Span(p) : c = 1
  BY <1>1 DEF Tun!Span
<1>3. a = Tun!Segment({"R", "A"}, 0, Tun!Seq1(p.seq, c), 0)
  BY <1>1, <1>2 DEF Tun!reject_input
<1> QED BY <1>3, TunFlags, TunNumbers, TunAcks

LEMMA TunIcmp == ASSUME NEW p, NEW a \in Tun!icmp_input(p) PROVE Tun!Answer(p, a)
<1>1. a = [proto |-> "icmp", type |-> "reply"]
  BY DEF Tun!icmp_input
<1> QED BY <1>1, TunReply

\* The answers out of any of the programs.
LEMMA TunOut ==
  ASSUME Tun!IInv, m3 # <<>>, NEW p, p = Head(m3), NEW out,
         \A a \in out : Tun!Answer(p, a),
         m3' = Tail(m3),
         m10' = IF p.proto = "tcp" THEN m10 \cup {Tun!Seq1(p.seq, d) : d \in 0..(Tun!Span(p) - 1)} ELSE m10,
         \/ m4' = IF out = {} THEN m4 ELSE Append(m4, CHOOSE o \in out : TRUE)
         \/ UNCHANGED m4,
         UNCHANGED <<m1, Tun!kernel, m11>>
  PROVE  Tun!IInv'
<1>1. m4' = m4 \/ \E a : Tun!Answer(p, a) /\ m4' = Append(m4, a)
  <2>1. CASE m4' = m4
    BY <2>1
  <2>2. CASE out # {} /\ m4' = Append(m4, CHOOSE o \in out : TRUE)
    <3>1. PICK a : a = CHOOSE o \in out : TRUE
      OBVIOUS
    <3>2. a \in out
      BY <2>2, <3>1, TunChosen
    <3>3. Tun!Answer(p, a) /\ m4' = Append(m4, a)
      BY <2>2, <3>1, <3>2
    <3> QED BY <3>3
  <2> QED BY <2>1, <2>2
<1> QED BY <1>1, TunTurn

LEMMA TunHead == ASSUME Tun!IInv, m3 # <<>> PROVE Head(m3) \in Tun!Wire
<1>1. m3 \in Seq(Tun!Wire)
  BY TunType
<1> QED BY <1>1

LEMMA TunAcceptMain == Tun!IInv /\ Tun!AcceptMain => Tun!IInv'
<1> SUFFICES ASSUME Tun!IInv, Tun!AcceptMain PROVE Tun!IInv'
  OBVIOUS
<1>0. m3 # <<>>
  BY DEF Tun!AcceptMain, Tun!Turn
<1>1. PICK p : p = Head(m3)
  OBVIOUS
<1>2. p \in Tun!Wire
  BY <1>0, <1>1, TunHead
<1>3. PICK out : out = CASE p.proto = "tcp" -> Tun!accept_input(p)
                         [] p.proto = "icmp" -> Tun!icmp_input(p)
                         [] OTHER -> {}
  OBVIOUS
<1>4. \A a \in out : Tun!Answer(p, a)
  BY <1>2, <1>3, TunAccept, TunIcmp DEF Tun!Tcp
<1>5. /\ m3' = Tail(m3)
      /\ m10' = IF p.proto = "tcp" THEN m10 \cup {Tun!Seq1(p.seq, d) : d \in 0..(Tun!Span(p) - 1)} ELSE m10
      /\ \/ m4' = IF out = {} THEN m4 ELSE Append(m4, CHOOSE o \in out : TRUE)
         \/ UNCHANGED m4
      /\ UNCHANGED <<m1, Tun!kernel, m11>>
  BY <1>1, <1>3 DEF Tun!AcceptMain, Tun!Turn
<1> QED BY <1>0, <1>1, <1>4, <1>5, TunOut

LEMMA TunDiscardMain == Tun!IInv /\ Tun!DiscardMain => Tun!IInv'
<1> SUFFICES ASSUME Tun!IInv, Tun!DiscardMain PROVE Tun!IInv'
  OBVIOUS
<1>0. m3 # <<>>
  BY DEF Tun!DiscardMain, Tun!Turn
<1>1. PICK p : p = Head(m3)
  OBVIOUS
<1>2. p \in Tun!Wire
  BY <1>0, <1>1, TunHead
<1>3. PICK out : out = CASE p.proto = "tcp" -> Tun!discard_input(p)
                         [] p.proto = "icmp" -> Tun!icmp_input(p)
                         [] OTHER -> {}
  OBVIOUS
<1>4. \A a \in out : Tun!Answer(p, a)
  BY <1>2, <1>3, TunDiscard, TunIcmp DEF Tun!Tcp
<1>5. /\ m3' = Tail(m3)
      /\ m10' = IF p.proto = "tcp" THEN m10 \cup {Tun!Seq1(p.seq, d) : d \in 0..(Tun!Span(p) - 1)} ELSE m10
      /\ \/ m4' = IF out = {} THEN m4 ELSE Append(m4, CHOOSE o \in out : TRUE)
         \/ UNCHANGED m4
      /\ UNCHANGED <<m1, Tun!kernel, m11>>
  BY <1>1, <1>3 DEF Tun!DiscardMain, Tun!Turn
<1> QED BY <1>0, <1>1, <1>4, <1>5, TunOut

LEMMA TunRejectMain == Tun!IInv /\ Tun!RejectMain => Tun!IInv'
<1> SUFFICES ASSUME Tun!IInv, Tun!RejectMain PROVE Tun!IInv'
  OBVIOUS
<1>0. m3 # <<>>
  BY DEF Tun!RejectMain, Tun!Turn
<1>1. PICK p : p = Head(m3)
  OBVIOUS
<1>2. p \in Tun!Wire
  BY <1>0, <1>1, TunHead
<1>3. PICK out : out = CASE p.proto = "tcp" -> Tun!reject_input(p)
                         [] p.proto = "icmp" -> Tun!icmp_input(p)
                         [] OTHER -> {}
  OBVIOUS
<1>4. \A a \in out : Tun!Answer(p, a)
  BY <1>2, <1>3, TunReject, TunIcmp DEF Tun!Tcp
<1>5. /\ m3' = Tail(m3)
      /\ m10' = IF p.proto = "tcp" THEN m10 \cup {Tun!Seq1(p.seq, d) : d \in 0..(Tun!Span(p) - 1)} ELSE m10
      /\ \/ m4' = IF out = {} THEN m4 ELSE Append(m4, CHOOSE o \in out : TRUE)
         \/ UNCHANGED m4
      /\ UNCHANGED <<m1, Tun!kernel, m11>>
  BY <1>1, <1>3 DEF Tun!RejectMain, Tun!Turn
<1> QED BY <1>0, <1>1, <1>4, <1>5, TunOut

LEMMA TunEchoMain == Tun!IInv /\ Tun!EchoMain => Tun!IInv'
<1> SUFFICES ASSUME Tun!IInv, Tun!EchoMain PROVE Tun!IInv'
  OBVIOUS
<1>0. m3 # <<>>
  BY DEF Tun!EchoMain, Tun!Turn
<1>1. PICK p : p = Head(m3)
  OBVIOUS
<1>3. PICK out : out = CASE p.proto = "tcp" -> {}
                         [] p.proto = "icmp" -> Tun!icmp_input(p)
                         [] OTHER -> {}
  OBVIOUS
<1>4. \A a \in out : Tun!Answer(p, a)
  BY <1>3, TunIcmp
<1>5. /\ m3' = Tail(m3)
      /\ m10' = IF p.proto = "tcp" THEN m10 \cup {Tun!Seq1(p.seq, d) : d \in 0..(Tun!Span(p) - 1)} ELSE m10
      /\ \/ m4' = IF out = {} THEN m4 ELSE Append(m4, CHOOSE o \in out : TRUE)
         \/ UNCHANGED m4
      /\ UNCHANGED <<m1, Tun!kernel, m11>>
  BY <1>1, <1>3 DEF Tun!EchoMain, Tun!Turn
<1> QED BY <1>0, <1>1, <1>4, <1>5, TunOut

LEMMA TunLose == Tun!IInv /\ Tun!Lose => Tun!IInv'
<1> SUFFICES ASSUME Tun!IInv, Tun!Lose PROVE Tun!IInv'
  OBVIOUS
<1>1. m3 \in Seq(Tun!Wire) /\ m4 \in Seq(Tun!Wire) /\ m11 \in Nat /\ Tun!Sent(m3, Tun!At(m7)) /\ Tun!Acked(m4, Tun!At(m7))
  BY DEF Tun!IInv, Tun!TypeOK, Tun!Bounded
<1>2. m11' \in Nat /\ m11' # 0
  BY <1>1 DEF Tun!Lose
<1>3. UNCHANGED <<m1, m5, m6, m7, m8, m9>>
  BY DEF Tun!Lose, Tun!kernel
<1>4. /\ m3' \in Seq(Tun!Wire) /\ m4' \in Seq(Tun!Wire)
      /\ Tun!Sent(m3', Tun!At(m7)) /\ Tun!Acked(m4', Tun!At(m7))
  <2>1. CASE m3 # <<>> /\ m3' = Tail(m3) /\ UNCHANGED m4
    <3>1. Tun!Sent(Tail(m3), Tun!At(m7)) /\ Tail(m3) \in Seq(Tun!Wire)
      BY <2>1, <1>1, TunTakeSent
    <3> QED BY <3>1, <2>1, <1>1
  <2>2. CASE m4 # <<>> /\ m4' = Tail(m4) /\ UNCHANGED m3
    <3>1. Tun!Acked(Tail(m4), Tun!At(m7)) /\ Tail(m4) \in Seq(Tun!Wire)
      BY <2>2, <1>1, TunTakeAcked
    <3> QED BY <3>1, <2>2, <1>1
  <2> QED BY <2>1, <2>2 DEF Tun!Lose
<1>5. Tun!TypeOK'
  BY <1>2, <1>3, <1>4 DEF Tun!IInv, Tun!TypeOK
<1>6. Tun!Bounded'
  BY <1>3, <1>4 DEF Tun!IInv, Tun!Bounded
<1> QED BY <1>2, <1>5, <1>6 DEF Tun!IInv

LEMMA TunReceive == Tun!IInv /\ Tun!Receive => Tun!IInv'
<1> SUFFICES ASSUME Tun!IInv, Tun!Receive PROVE Tun!IInv'
  OBVIOUS
<1>1. PICK q \in Seq(Tun!Wire), s \in Tun!Wire : q = m4 /\ q # <<>> /\ s = Head(q) /\ s = q[1] /\ 1 \in 1..Len(q)
  <2>1. m4 \in Seq(Tun!Wire) /\ m4 # <<>>
    BY TunType DEF Tun!Receive
  <2> QED BY <2>1
<1>2. Tun!Acked(q, Tun!At(m7)) /\ (m11 = 0 => Tun!Known(q, m10))
  BY <1>1 DEF Tun!IInv, Tun!Bounded, Tun!Lossless
<1>3. /\ Tail(q) \in Seq(Tun!Wire) /\ Tun!Acked(Tail(q), Tun!At(m7)) /\ (m11 = 0 => Tun!Known(Tail(q), m10))
  BY <1>1, <1>2, TunTakeAcked, TunTakeKnown
<1>4. Tun!Tcp(s) => Tun!At(s.ack) <= Tun!At(m7) /\ (m11 = 0 => Tun!ReadUpTo(Tun!At(s.ack), m10))
  BY <1>1, <1>2 DEF Tun!Acked, Tun!Known
<1>5. m4' = Tail(q) /\ UNCHANGED <<m1, m7, m9, m10, m11>>
  BY <1>1 DEF Tun!Receive
<1>6. (m6' = m6 /\ UNCHANGED <<m3, m5, m8>>) \/ (Tun!Tcp(s) /\ m6' = s.ack)
  BY <1>1 DEF Tun!Receive, Tun!Tcp
<1>7. m6' \in Tun!Number /\ Tun!At(m6') <= Tun!At(m7) /\ (m11 = 0 => Tun!ReadUpTo(Tun!At(m6'), m10))
  <2>1. CASE m6' = m6
    BY <2>1 DEF Tun!IInv, Tun!TypeOK, Tun!Bounded, Tun!Lossless
  <2>2. CASE Tun!Tcp(s) /\ m6' = s.ack
    BY <2>2, <1>1, <1>4, TunWire
  <2> QED BY <1>6, <2>1, <2>2
<1>8. \/ UNCHANGED <<m3, m5, m8>>
      \/ m5' = "reset" /\ UNCHANGED <<m3, m8>>
      \/ Tun!Tcp(s) /\ m5 = "synsent" /\ m5' = "established" /\ m8' = Tun!Seq1(s.seq, 1) /\ Tun!SendSeg(Tun!Segment({"A"}, m7, Tun!Seq1(s.seq, 1), 0))
      \/ Tun!Tcp(s) /\ UNCHANGED m5 /\ m8' = Tun!Seq1(m8, 1) /\ Tun!SendSeg(Tun!Segment({"A"}, m7, Tun!Seq1(m8, 1), 0))
  BY <1>1 DEF Tun!Receive, Tun!Tcp
<1>9. m8 \in Tun!Number /\ m7 \in Tun!Number /\ \A x \in Tun!Number : Tun!Seq1(x, 1) \in Tun!Number
  <2>1. ASSUME NEW x \in Tun!Number PROVE Tun!Seq1(x, 1) \in Tun!Number
    <3>1. x \in Nat /\ 1 \in Nat
      BY TunAssumption DEF Tun!Number
    <3> QED BY <3>1, TunSeq
  <2> QED BY <2>1 DEF Tun!IInv, Tun!TypeOK
<1>10. \A a \in Tun!Number : Tun!Put(Append(m3, Tun!Segment({"A"}, m7, a, 0)), Tun!At(m7))
  <2>1. SUFFICES ASSUME NEW a \in Tun!Number, NEW p, p = Tun!Segment({"A"}, m7, a, 0)
                 PROVE  Tun!Put(Append(m3, p), Tun!At(m7))
    OBVIOUS
  <2>2. p \in Tun!Wire /\ Tun!Tcp(p) /\ p.seq = m7 /\ p.flags = {"A"} /\ p.len = 0
    BY <2>1, <1>9, TunFlags, TunSegment
  <2>3. Tun!Span(p) = 0
    BY <2>2 DEF Tun!Span
  <2>4. PICK m \in Nat : m = Tun!At(m7)
    BY TunType
  <2>5. m = Tun!At(m7) + Tun!Span(p)
    BY <2>3, <2>4
  <2> QED BY <2>2, <2>4, <2>5, TunNext
<1>11. Tun!Put(m3, Tun!At(m7))
  BY DEF Tun!IInv, Tun!TypeOK, Tun!Bounded, Tun!Lossless, Tun!Put
<1>12. Tun!Put(m3', Tun!At(m7)) /\ m8' \in Tun!Number
  <2>1. CASE UNCHANGED <<m3, m8>>
    BY <2>1, <1>9, <1>11
  <2>2. CASE Tun!Tcp(s) /\ m8' = Tun!Seq1(s.seq, 1) /\ Tun!SendSeg(Tun!Segment({"A"}, m7, Tun!Seq1(s.seq, 1), 0))
    <3>1. Tun!Seq1(s.seq, 1) \in Tun!Number
      BY <2>2, <1>1, <1>9, TunWire
    <3> QED BY <2>2, <3>1, <1>10 DEF Tun!SendSeg
  <2>3. CASE m8' = Tun!Seq1(m8, 1) /\ Tun!SendSeg(Tun!Segment({"A"}, m7, Tun!Seq1(m8, 1), 0))
    <3>1. Tun!Seq1(m8, 1) \in Tun!Number
      BY <1>9
    <3> QED BY <2>3, <3>1, <1>10 DEF Tun!SendSeg
  <2> QED BY <1>8, <2>1, <2>2, <2>3
<1>13. m5' = m5 \/ m5' = "reset" \/ (m5 = "synsent" /\ m5' = "established")
  BY <1>8
<1>14. Tun!TypeOK'
  BY <1>3, <1>5, <1>7, <1>12, <1>13 DEF Tun!IInv, Tun!TypeOK, Tun!Put
<1>15. /\ Tun!At(m7) <= m9 + 2 /\ (m5' \in {"synsent", "established"} => Tun!At(m7) <= m9 + 1)
       /\ (m5' = "closed" => m7 = ISS)
  BY <1>13 DEF Tun!IInv, Tun!Bounded
<1>16. Tun!Bounded'
  BY <1>3, <1>5, <1>7, <1>12, <1>15 DEF Tun!Bounded, Tun!Put
<1>17. (m11 = 0 => Tun!Lossless)'
  BY <1>3, <1>5, <1>7, <1>12 DEF Tun!Lossless, Tun!Put
<1> QED BY <1>14, <1>16, <1>17 DEF Tun!IInv

LEMMA TunUnchanged == Tun!IInv /\ UNCHANGED Tun!vars => Tun!IInv'
BY DEF Tun!IInv, Tun!TypeOK, Tun!Bounded, Tun!Lossless, Tun!vars, Tun!net, Tun!kernel

LEMMA TunStep == Tun!IInv /\ [Tun!Next]_(Tun!vars) => Tun!IInv'
BY TunAcceptMain, TunDiscardMain, TunRejectMain, TunEchoMain, TunReceive, TunRetransmit,
   TunConnect, TunSendData, TunClose, TunOther, TunLose, TunUnchanged DEF Tun!Next, Tun!Program, Tun!Kernel

LEMMA TunAcksSent == Tun!IInv => Tun!AcksSent
BY DEF Tun!IInv, Tun!Bounded, Tun!Acked, Tun!AcksSent, Tun!At, Tun!Tcp

LEMMA TunAcksRead == Tun!IInv => Tun!AcksRead
<1> SUFFICES ASSUME Tun!IInv, m11 = 0, NEW d \in 0..(SeqMod - 1), d < Tun!At(m6) PROVE Tun!Seq1(ISS, d) \in m10
  BY DEF Tun!AcksRead, Tun!At
<1>1. Tun!ReadUpTo(Tun!At(m6), m10) /\ d \in Nat
  BY DEF Tun!IInv, Tun!Lossless
<1> QED BY <1>1 DEF Tun!ReadUpTo

-----------------------------------------------------------------------------
(* Many is TunMany: many connections opened in turn.                       *)
(*                                                                         *)
(* m1 i, m2 srcip, m3 srcport, m4 pc, m5 queue, m6 conn, m7 strays.        *)

LEMMA ManySource == IsFiniteSet(Many!Source)
<1>1. IsFiniteSet(0..Count) /\ IsFiniteSet(PortLo..PortHi)
  BY ManyAssumption, FS_Interval
<1> QED BY <1>1, FS_Product DEF Many!Source

\* Each of a finite set of sources has a place of its own in the queue.
LEMMA ManyPlaces ==
  ASSUME NEW q \in Seq(Many!Packet), NEW S, IsFiniteSet(S),
         \A s \in S : \E k \in 1..Len(q) : q[k] = Many!SynAck(s)
  PROVE  Cardinality(S) <= Len(q)
<1>1. PICK f : f = [s \in S |-> CHOOSE k \in 1..Len(q) : q[k] = Many!SynAck(s)]
  OBVIOUS
<1>2. ASSUME NEW s \in S PROVE f[s] \in 1..Len(q) /\ q[f[s]] = Many!SynAck(s)
  BY <1>1
<1>3. ASSUME NEW s \in S, NEW t \in S, f[s] = f[t] PROVE s = t
  <2>1. Many!SynAck(s) = Many!SynAck(t)
    BY <1>2, <1>3
  <2> QED BY <2>1 DEF Many!SynAck
<1>4. f \in [S -> 1..Len(q)]
  BY <1>1, <1>2
<1>5. f \in Injection(S, 1..Len(q))
  BY <1>3, <1>4 DEF Injection, IsInjective
<1>6. Len(q) \in Nat
  OBVIOUS
<1>7. IsFiniteSet(1..Len(q)) /\ Cardinality(1..Len(q)) = Len(q)
  BY <1>6, FS_Interval
<1>8. Cardinality(S) <= Cardinality(1..Len(q))
  BY <1>5, <1>7, FS_Injection
<1> QED BY <1>7, <1>8

LEMMA ManyCard == \A S : Many!Cardinality(S) = Cardinality(S)
  BY DEF Many!Cardinality, Cardinality

LEMMA ManyFinite ==
  /\ IsFiniteSet(Many!Used) /\ IsFiniteSet(Many!Opened) /\ IsFiniteSet(Many!Half)
  /\ Cardinality(Many!Used) \in Nat /\ Cardinality(Many!Opened) \in Nat
<1>1. Many!Used \in SUBSET Many!Source /\ Many!Opened \in SUBSET Many!Source /\ Many!Half \in SUBSET Many!Source
  BY DEF Many!Used, Many!Opened, Many!Half
<1>2. IsFiniteSet(Many!Used) /\ IsFiniteSet(Many!Opened) /\ IsFiniteSet(Many!Half)
  BY <1>1, ManySource, FS_Subset
<1> QED BY <1>2, FS_CardinalityType

LEMMA ManyFiniteNext == IsFiniteSet(Many!Opened') /\ IsFiniteSet(Many!Half') /\ Cardinality(Many!Opened') \in Nat
<1>1. Many!Opened' \in SUBSET Many!Source /\ Many!Half' \in SUBSET Many!Source
  BY DEF Many!Opened, Many!Half
<1>2. IsFiniteSet(Many!Opened') /\ IsFiniteSet(Many!Half')
  BY <1>1, ManySource, FS_Subset
<1> QED BY <1>2, FS_CardinalityType

\* Of the sources O and H, those of H are owed an answer.
LEMMA ManyEnough ==
  ASSUME NEW q \in Seq(Many!Packet), NEW O, NEW H, IsFiniteSet(O), IsFiniteSet(H),
         Cardinality(O \cup H) = Count, \A s \in H : \E k \in 1..Len(q) : q[k] = Many!SynAck(s)
  PROVE  Cardinality(O) + Len(q) >= Count
<1>1. Cardinality(O \cup H) = Cardinality(O) + Cardinality(H) - Cardinality(O \cap H)
  BY FS_Union
<1>2. Cardinality(H) <= Len(q)
  BY ManyPlaces
<1>3. IsFiniteSet(O \cap H)
  BY FS_Subset
<1>4. PICK o \in Nat, h \in Nat, b \in Nat : o = Cardinality(O) /\ h = Cardinality(H) /\ b = Cardinality(O \cap H)
  BY <1>3, FS_CardinalityType
<1>5. PICK l \in Nat : l = Len(q)
  OBVIOUS
<1>6. Count = (o + h) - b /\ h <= l
  BY <1>1, <1>2, <1>4, <1>5
<1>7. o + l >= Count
  BY <1>6, ManyAssumption
<1> QED BY <1>4, <1>5, <1>7

LEMMA ManyInit == Many!Init => Many!IInv
<1> SUFFICES ASSUME Many!Init PROVE Many!IInv
  OBVIOUS
<1>1. Many!TypeOK
  BY ManyAssumption DEF Many!Init, Many!TypeOK
<1>2. Many!Used = {} /\ Many!Opened = {} /\ Many!Half = {}
  BY DEF Many!Init, Many!Used, Many!Opened, Many!Half
<1>3. Cardinality(Many!Used) = 0 /\ Cardinality(Many!Opened) = 0
  BY <1>2, FS_EmptySet
<1>4. ASSUME NEW s \in Many!Source PROVE ~Many!Before(s)
  BY ManyAssumption DEF Many!Init, Many!Before, Many!Source
<1>5. Many!InOrder
  BY <1>2, <1>3, <1>4, ManyCard DEF Many!Init, Many!InOrder
<1>6. Many!Owed
  BY <1>2 DEF Many!Init, Many!Owed
<1>7. m1 = Count => Many!Served
  BY <1>3, ManyCard DEF Many!Init, Many!Served
<1> QED BY <1>1, <1>5, <1>6, <1>7 DEF Many!IInv

\* The source in turn, and what is before the one after it.
LEMMA ManyCurrent ==
  ASSUME Many!TypeOK
  PROVE  <<m2, m3>> \in Many!Source /\ ~Many!Before(<<m2, m3>>)
<1>1. m1 \in 0..Count /\ m2 \in 0..m1 /\ m3 \in PortLo..PortHi
  BY DEF Many!TypeOK
<1>2. m2 \in 0..Count
  BY <1>1, ManyAssumption
<1> QED BY <1>1, <1>2, ManyAssumption DEF Many!Source, Many!Before

LEMMA ManyAfter ==
  ASSUME Many!TypeOK, Many!connect_many, m1 < Count
  PROVE  /\ m1' \in 0..Count /\ m2' \in 0..m1' /\ m3' \in PortLo..PortHi
         /\ \A s \in Many!Source : Many!Before(s)' <=> Many!Before(s) \/ s = <<m2, m3>>
<1>1. m1 \in 0..Count /\ m2 \in 0..m1 /\ m3 \in PortLo..PortHi /\ m1' = m1 + 1
  BY DEF Many!TypeOK, Many!connect_many
<1>2. \/ m3 = PortHi /\ m3' = PortLo /\ m2' = m2 + 1
      \/ m3 # PortHi /\ m3' = m3 + 1 /\ m2' = m2
  BY DEF Many!connect_many
<1>3. m1' \in 0..Count /\ m2' \in 0..m1' /\ m3' \in PortLo..PortHi
  BY <1>1, <1>2, ManyAssumption
<1>4. ASSUME NEW s \in Many!Source PROVE Many!Before(s)' <=> Many!Before(s) \/ s = <<m2, m3>>
  <2>1. PICK a \in 0..Count, b \in PortLo..PortHi : s = <<a, b>> /\ s[1] = a /\ s[2] = b
    BY DEF Many!Source
  <2>2. s = <<m2, m3>> <=> a = m2 /\ b = m3
    BY <2>1
  <2>3. (a < m2' \/ (a = m2' /\ b < m3')) <=> (a < m2 \/ (a = m2 /\ b < m3)) \/ (a = m2 /\ b = m3)
    <3>1. CASE m3 = PortHi /\ m3' = PortLo /\ m2' = m2 + 1
      BY <3>1, <1>1, <2>1, ManyAssumption
    <3>2. CASE m3 # PortHi /\ m3' = m3 + 1 /\ m2' = m2
      BY <3>2, <1>1, <2>1, ManyAssumption
    <3> QED BY <1>2, <3>1, <3>2
  <2> QED BY <2>1, <2>2, <2>3 DEF Many!Before
<1> QED BY <1>3, <1>4

LEMMA ManySend == Many!IInv /\ Many!Send => Many!IInv'
<1> SUFFICES ASSUME Many!IInv, Many!Send PROVE Many!IInv'
  OBVIOUS
<1>1. Many!TypeOK /\ Many!InOrder /\ Many!Owed
  BY DEF Many!IInv, Many!Send
<1>2. PICK c \in Many!Source : c = <<m2, m3>> /\ ~Many!Before(c)
  BY <1>1, ManyCurrent
<1>3. c \notin Many!Used
  BY <1>1, <1>2 DEF Many!InOrder, Many!Send
<1>4. m6[c] = "none" /\ m6 \in [Many!Source -> {"none", "synrcvd", "established", "confused"}]
  BY <1>1, <1>3 DEF Many!Used, Many!TypeOK
<1>5. /\ m4 = "send" /\ m1 < Count /\ m4' = "read" /\ UNCHANGED <<m1, m2, m3, m7>>
      /\ m6' = [m6 EXCEPT ![c] = "synrcvd"] /\ m5' = Append(m5, Many!SynAck(c))
  BY <1>2, <1>4 DEF Many!Send
<1>6. Many!Used' = Many!Used \cup {c} /\ Many!Opened' = Many!Opened /\ Many!Half' = Many!Half \cup {c}
  BY <1>4, <1>5 DEF Many!Used, Many!Opened, Many!Half
<1>7. Many!SynAck(c) \in Many!Packet
  BY DEF Many!SynAck, Many!Packet
<1>8. PICK q \in Seq(Many!Packet), L \in Nat : q = m5 /\ L = Len(q)
  BY <1>1 DEF Many!TypeOK
<1>9. PICK r : r = Append(q, Many!SynAck(c))
  OBVIOUS
<1>10. r \in Seq(Many!Packet) /\ Len(r) = L + 1 /\ r[L + 1] = Many!SynAck(c) /\ \A k \in 1..L : r[k] = q[k]
  BY <1>7, <1>8, <1>9
<1>11. m5' = r
  BY <1>5, <1>8, <1>9
<1>12. Many!TypeOK'
  BY <1>1, <1>4, <1>5, <1>10, <1>11 DEF Many!TypeOK
<1>13. Cardinality(Many!Used') = m1 + 1
  <2>1. Cardinality(Many!Used) = m1
    BY <1>1, <1>5, ManyCard DEF Many!InOrder
  <2>2. Cardinality(Many!Used \cup {c}) = Cardinality(Many!Used) + 1
    BY <1>3, ManyFinite, FS_AddElement
  <2> QED BY <2>1, <2>2, <1>6
<1>14. \A s \in Many!Source : s \in Many!Used' <=> Many!Before(s)' \/ s = c
  BY <1>1, <1>5, <1>6 DEF Many!InOrder, Many!Before
<1>15. Many!InOrder'
  BY <1>2, <1>5, <1>13, <1>14, ManyCard DEF Many!InOrder
<1>16. Many!Used' = Many!Opened' \cup Many!Half'
  BY <1>1, <1>6 DEF Many!Owed
<1>17. Len(r) = m7 + 1
  BY <1>1, <1>5, <1>8, <1>10 DEF Many!Owed
<1>18. ASSUME NEW s \in Many!Half' PROVE \E k \in 1..Len(r) : r[k] = Many!SynAck(s)
  <2>1. CASE s = c
    BY <2>1, <1>10
  <2>2. CASE s \in Many!Half
    <3>1. PICK k \in 1..L : q[k] = Many!SynAck(s)
      BY <2>2, <1>1, <1>8 DEF Many!Owed
    <3>2. k \in 1..Len(r) /\ r[k] = q[k]
      BY <3>1, <1>10
    <3> QED BY <3>1, <3>2
  <2> QED BY <2>1, <2>2, <1>6
<1>19. Many!Owed'
  BY <1>5, <1>11, <1>16, <1>17, <1>18 DEF Many!Owed
<1> QED BY <1>5, <1>12, <1>15, <1>19 DEF Many!IInv

LEMMA ManyAnswer == Many!IInv /\ Many!Answer => Many!IInv'
<1> SUFFICES ASSUME Many!IInv, Many!Answer PROVE Many!IInv'
  OBVIOUS
<1>1. Many!TypeOK /\ Many!InOrder /\ Many!Owed /\ m4 = "read" /\ m1 < Count
  BY DEF Many!IInv, Many!Answer, Many!TypeOK
<1>2. PICK q \in Seq(Many!Packet), L \in Nat : q = m5 /\ L = Len(q) /\ q # <<>>
  BY <1>1 DEF Many!TypeOK, Many!Answer
<1>3. PICK p \in Many!Packet : p = q[1] /\ p = Head(q) /\ L > 0
  BY <1>2
<1>4. PICK r : r = Tail(q)
  OBVIOUS
<1>5. r \in Seq(Many!Packet) /\ Len(r) = L - 1 /\ \A k \in 1..(L - 1) : r[k] = q[k + 1]
  BY <1>2, <1>3, <1>4
<1>6. /\ m5' = r /\ m4' = "send" /\ UNCHANGED m7 /\ Many!connect_many
      /\ m6' = Many!tcp_input(p, FALSE)
  BY <1>2, <1>3, <1>4 DEF Many!Answer
<1>7. p.of \in Many!Source /\ m6 \in [Many!Source -> {"none", "synrcvd", "established", "confused"}]
  BY <1>1 DEF Many!TypeOK, Many!Packet
<1>8. \/ m6' = m6 /\ (p.kind # "synack" \/ m6[p.of] # "synrcvd")
      \/ p.kind = "synack" /\ m6[p.of] = "synrcvd" /\ m6' = [m6 EXCEPT ![p.of] = "established"]
  BY <1>6, <1>7 DEF Many!tcp_input
<1>9. /\ m6' \in [Many!Source -> {"none", "synrcvd", "established", "confused"}]
      /\ Many!Used' = Many!Used /\ Many!Half' \subseteq Many!Half /\ Many!Used' = Many!Opened' \cup Many!Half'
      /\ \A s \in Many!Half' : p # Many!SynAck(s)
  <2>1. CASE m6' = m6 /\ (p.kind # "synack" \/ m6[p.of] # "synrcvd")
    BY <2>1, <1>1, <1>7 DEF Many!Used, Many!Opened, Many!Half, Many!Owed, Many!SynAck
  <2>2. CASE p.kind = "synack" /\ m6[p.of] = "synrcvd" /\ m6' = [m6 EXCEPT ![p.of] = "established"]
    <3>1. Many!Used' = Many!Used /\ Many!Half' = Many!Half \ {p.of} /\ Many!Opened' = Many!Opened \cup {p.of} /\ p.of \in Many!Half
      BY <2>2, <1>7 DEF Many!Used, Many!Opened, Many!Half
    <3>2. Many!Used = Many!Opened \cup Many!Half
      BY <1>1 DEF Many!Owed
    <3>3. \A s \in Many!Half' : p # Many!SynAck(s)
      BY <3>1 DEF Many!SynAck
    <3> QED BY <3>1, <3>2, <3>3, <2>2, <1>7
  <2> QED BY <1>8, <2>1, <2>2
<1>10. /\ m1' \in 0..Count /\ m2' \in 0..m1' /\ m3' \in PortLo..PortHi
       /\ \A s \in Many!Source : Many!Before(s)' <=> Many!Before(s) \/ s = <<m2, m3>>
  BY <1>1, <1>6, ManyAfter
<1>11. Many!TypeOK'
  BY <1>1, <1>5, <1>6, <1>9, <1>10 DEF Many!TypeOK
<1>12. m1' = m1 + 1 /\ m1 \in Nat
  BY <1>1, <1>6 DEF Many!connect_many, Many!TypeOK
<1>13. Cardinality(Many!Used') = m1'
  BY <1>1, <1>9, <1>12, ManyCard DEF Many!InOrder
<1>14. \A s \in Many!Source : s \in Many!Used' <=> Many!Before(s)'
  BY <1>1, <1>9, <1>10 DEF Many!InOrder
<1>15. Many!InOrder'
  BY <1>6, <1>13, <1>14, ManyCard DEF Many!InOrder
<1>16. Len(r) = m7 /\ m7 \in Nat
  BY <1>1, <1>2, <1>5 DEF Many!Owed, Many!TypeOK
<1>17. ASSUME NEW s \in Many!Half' PROVE \E k \in 1..Len(r) : r[k] = Many!SynAck(s)
  <2>1. PICK k \in 1..L : q[k] = Many!SynAck(s)
    BY <1>1, <1>2, <1>9 DEF Many!Owed
  <2>2. k # 1
    BY <2>1, <1>3, <1>9
  <2>3. PICK j \in 1..(L - 1) : k = j + 1
    BY <2>1, <2>2, <1>3
  <2>4. j \in 1..Len(r) /\ r[j] = q[k]
    BY <2>3, <1>5
  <2> QED BY <2>1, <2>4
<1>18. Many!Owed'
  BY <1>6, <1>9, <1>16, <1>17 DEF Many!Owed
<1>19. ASSUME m1' = Count PROVE Many!Served'
  <2>1. Cardinality(Many!Opened' \cup Many!Half') = Count
    BY <1>9, <1>13, <1>19
  <2>2. Cardinality(Many!Opened') + Len(r) >= Count
    BY <2>1, <1>5, <1>17, ManyFiniteNext, ManyEnough
  <2>3. Cardinality(Many!Opened') + m7' >= Count
    BY <2>2, <1>6, <1>16
  <2> QED BY <2>3, ManyCard DEF Many!Served
<1> QED BY <1>6, <1>11, <1>15, <1>18, <1>19 DEF Many!IInv

LEMMA ManyServe == Many!IInv /\ Many!Serve => Many!IInv'
<1> SUFFICES ASSUME Many!IInv, Many!Serve PROVE Many!IInv'
  OBVIOUS
<1>1. Many!TypeOK /\ Many!InOrder /\ Many!Served /\ m4 = "send" /\ m1 = Count /\ m1 \in Nat
  BY ManyAssumption DEF Many!IInv, Many!Serve, Many!TypeOK
<1>2. PICK q \in Seq(Many!Packet) : q = m5 /\ q # <<>>
  BY <1>1 DEF Many!TypeOK, Many!Serve
<1>3. PICK p \in Many!Packet : p = Head(q)
  BY <1>2
<1>4. Tail(q) \in Seq(Many!Packet)
  BY <1>2
<1>5. m5' = Tail(q) /\ m6' = Many!tcp_input(p, TRUE) /\ UNCHANGED <<m1, m2, m3, m4, m7>>
  BY <1>2, <1>3 DEF Many!Serve
<1>6. p.of \in Many!Source /\ m6 \in [Many!Source -> {"none", "synrcvd", "established", "confused"}]
  BY <1>1 DEF Many!TypeOK, Many!Packet
<1>7. m6' = m6 \/ (m6[p.of] = "synrcvd" /\ m6' = [m6 EXCEPT ![p.of] = "confused"])
  BY <1>5, <1>6 DEF Many!tcp_input
<1>8. /\ m6' \in [Many!Source -> {"none", "synrcvd", "established", "confused"}]
      /\ Many!Used' = Many!Used /\ Many!Opened' = Many!Opened
  BY <1>6, <1>7 DEF Many!Used, Many!Opened
<1>9. Many!TypeOK'
  BY <1>1, <1>4, <1>5, <1>8 DEF Many!TypeOK
<1>10. Many!InOrder'
  BY <1>1, <1>5, <1>8 DEF Many!InOrder, Many!Before
<1>11. Many!Served'
  BY <1>1, <1>5, <1>8 DEF Many!Served
<1>12. m4' = "send" /\ ~(m1' < Count)
  BY <1>1, <1>5
<1> QED BY <1>9, <1>10, <1>11, <1>12 DEF Many!IInv

LEMMA ManyStray == Many!IInv /\ Many!Stray => Many!IInv'
<1> SUFFICES ASSUME Many!IInv, Many!Stray PROVE Many!IInv'
  OBVIOUS
<1>1. PICK q \in Seq(Many!Packet), L \in Nat : q = m5 /\ L = Len(q)
  BY DEF Many!IInv, Many!TypeOK
<1>2. PICK p : p = [of |-> <<0, PortLo>>, kind |-> "other"]
  OBVIOUS
<1>3. p \in Many!Packet
  BY <1>2, ManyAssumption DEF Many!Packet, Many!Source
<1>4. PICK r : r = Append(q, p)
  OBVIOUS
<1>5. r \in Seq(Many!Packet) /\ Len(r) = L + 1 /\ \A k \in 1..L : r[k] = q[k]
  BY <1>1, <1>3, <1>4
<1>6. m5' = r /\ m7' = m7 + 1 /\ UNCHANGED <<m1, m2, m3, m4, m6>>
  BY <1>1, <1>2, <1>4 DEF Many!Stray
<1>7. m7 \in Nat
  BY DEF Many!IInv, Many!TypeOK
<1>8. Many!TypeOK'
  BY <1>5, <1>6, <1>7 DEF Many!IInv, Many!TypeOK
<1>9. Many!Used' = Many!Used /\ Many!Opened' = Many!Opened /\ Many!Half' = Many!Half
  BY <1>6 DEF Many!Used, Many!Opened, Many!Half
<1>10. Many!InOrder'
  BY <1>6, <1>9 DEF Many!IInv, Many!InOrder, Many!Before
<1>11. ASSUME Many!Owed PROVE Many!Owed'
  <2>1. Many!Used' = Many!Opened' \cup Many!Half'
    BY <1>9, <1>11 DEF Many!Owed
  <2>2. Len(r) = IF m4 = "read" THEN m7' + 1 ELSE m7'
    BY <1>1, <1>5, <1>6, <1>7, <1>11 DEF Many!Owed
  <2>3. ASSUME NEW s \in Many!Half PROVE \E k \in 1..Len(r) : r[k] = Many!SynAck(s)
    <3>1. PICK k \in 1..L : q[k] = Many!SynAck(s)
      BY <1>1, <1>11, <2>3 DEF Many!Owed
    <3>2. k \in 1..Len(r) /\ r[k] = q[k]
      BY <3>1, <1>5
    <3> QED BY <3>1, <3>2
  <2> QED BY <1>6, <1>9, <2>1, <2>2, <2>3 DEF Many!Owed
<1>12. ASSUME Many!Served PROVE Many!Served'
  <2>1. PICK o \in Nat : o = Cardinality(Many!Opened)
    BY ManyFinite
  <2>2. o + m7 >= Count
    BY <1>12, <2>1, ManyCard DEF Many!Served
  <2>3. o + m7' >= Count
    BY <2>2, <1>6, <1>7, ManyAssumption
  <2> QED BY <2>1, <2>3, <1>9, ManyCard DEF Many!Served
<1> QED BY <1>6, <1>8, <1>10, <1>11, <1>12 DEF Many!IInv

LEMMA ManyUnchanged == Many!IInv /\ UNCHANGED Many!vars => Many!IInv'
BY DEF Many!IInv, Many!TypeOK, Many!InOrder, Many!Before, Many!Owed, Many!Served, Many!Used, Many!Opened, Many!Half, Many!vars

LEMMA ManyStep == Many!IInv /\ [Many!Next]_(Many!vars) => Many!IInv'
BY ManySend, ManyAnswer, ManyServe, ManyStray, ManyUnchanged DEF Many!Next, Many!Program

LEMMA ManyEstablished == Many!IInv => Many!Established
<1> SUFFICES ASSUME Many!IInv, m4 = "send", m1 = Count
             PROVE  Cardinality(Many!Opened) + m7 >= Count /\ Cardinality(Many!Used) = Count
  BY ManyCard DEF Many!Established
<1>1. Many!Served /\ Many!InOrder
  BY DEF Many!IInv
<1> QED BY <1>1, ManyCard DEF Many!Served, Many!InOrder

-----------------------------------------------------------------------------
(* The programs together.                                                 *)

\* Whatever program a behaviour is of, its inductive invariant holds.
Inv ==
  /\ prog = "Rup" => Rup!IInv
  /\ prog = "Ssl" => Ssl!IInv
  /\ prog = "Ipp" => Ipp!IInv
  /\ prog = "Lcx" => Lcx!IInv
  /\ prog = "Relay" => Relay!IInv
  /\ prog = "Tun" => Tun!IInv
  /\ prog = "Many" => Many!IInv

LEMMA InvInit == Init => Inv
  BY RupInit, SslInit, IppInit, LcxInit, RelayInit, TunInit, ManyInit DEF Init, Inv

LEMMA InvStep == ASSUME Inv, [Next]_vars PROVE Inv'
<1>0. UNCHANGED prog
  BY DEF Next, vars
<1>1. CASE prog = "Rup"
  <2>1. [Rup!Next]_(Rup!vars)
    BY <1>1 DEF Next, vars, Rup!vars
  <2> QED BY <2>1, <1>0, <1>1, RupStep DEF Inv
<1>2. CASE prog = "Ssl"
  <2>1. [Ssl!Next]_(Ssl!vars)
    BY <1>2 DEF Next, vars, Ssl!vars
  <2> QED BY <2>1, <1>0, <1>2, SslStep DEF Inv
<1>3. CASE prog = "Ipp"
  <2>1. [Ipp!Next]_(Ipp!vars)
    BY <1>3 DEF Next, vars, Ipp!vars
  <2> QED BY <2>1, <1>0, <1>3, IppStep DEF Inv
<1>4. CASE prog = "Lcx"
  <2>1. [Lcx!Next]_(Lcx!vars)
    BY <1>4 DEF Next, vars, Lcx!vars
  <2> QED BY <2>1, <1>0, <1>4, LcxStep DEF Inv
<1>5. CASE prog = "Relay"
  <2>1. [Relay!Next]_(Relay!vars)
    BY <1>5 DEF Next, vars, Relay!vars
  <2> QED BY <2>1, <1>0, <1>5, RelayStep DEF Inv
<1>6. CASE prog = "Tun"
  <2>1. [Tun!Next]_(Tun!vars)
    BY <1>6 DEF Next, vars, Tun!vars, Tun!net, Tun!kernel
  <2> QED BY <2>1, <1>0, <1>6, TunStep DEF Inv
<1>7. CASE prog = "Many"
  <2>1. [Many!Next]_(Many!vars)
    BY <1>7 DEF Next, vars, Many!vars
  <2> QED BY <2>1, <1>0, <1>7, ManyStep DEF Inv
<1> QED BY <1>0, <1>1, <1>2, <1>3, <1>4, <1>5, <1>6, <1>7 DEF Inv

\* For any clients, files, processes, answers and children, whichever call
\* fails and whoever is killed: the files of the TLS server came, whole chunks
\* in order, from clients that the mode its code sets admits (not the one CMODE
\* is documented to be); of answers whose header comes in one read, a print job
\* is taken for done only if the printer said so of this job; lcx understands
\* the command lines of its usage and holds no socket of an earlier pair; one
\* process at most of the forking uptime server is at a client.
THEOREM ServedRightHolds == Spec => []ServedRight
<1>1. Inv => ServedRight
  BY SslServed, IppJudged, LcxServed, RupServes DEF Inv, ServedRight
<1> QED BY <1>1, InvInit, InvStep, PTL DEF Spec

\* For any number of bytes, buffer and queue sizes, any modulus of sequence
\* numbers the stream does not exceed and any first one, any ports and number of
\* connections, whatever is lost, partly written or strays: the relay passes
\* every byte once and in order; the tun programs acknowledge only what was
\* sent, and without loss only what they read; at most one connection is spoilt
\* per stray packet.
THEOREM StreamsExactHolds == Spec => []StreamsExact
<1>1. Inv => StreamsExact
  BY RelayOrder, TunAcksSent, TunAcksRead, ManyEstablished DEF Inv, StreamsExact
<1> QED BY <1>1, InvInit, InvStep, PTL DEF Spec
==============================================================================
