--------------------------- MODULE ProgramsProofs ---------------------------
(***************************************************************************)
(* Proofs about the programs of Programs, for all values of their          *)
(* constants.  Each section is about one program, under the name of its    *)
(* instance (Rot!IInv is IInv of AioRot13), and begins with the variables  *)
(* that m1, m2, ... stand for in it.                                       *)
(***************************************************************************)
EXTENDS Programs, FiniteSetTheorems, SequenceTheorems, TLAPS

-----------------------------------------------------------------------------
(* Rot is AioRot13: the asynchronous copier.                               *)
(*                                                                         *)
(* m1 st_size, m2 op, m3 last, m4 blk, m5 rot, m6 aio, m7 aiolist,         *)
(* m8 numop, m9 off, m10 i, m11 out, m12 status, m13 recount.              *)

\* The cardinality of FiniteSets as AioRot13 knows it.
LEMMA RotCard == \A S : Rot!Cardinality(S) = Cardinality(S)
  BY DEF Rot!Cardinality, Cardinality

LEMMA RotInit == Rot!Init => Rot!IInv
<1> SUFFICES ASSUME Rot!Init PROVE Rot!IInv
  OBVIOUS
<1>1. Rot!TypeOK
  <2>1. m1 \in 0 .. NBlocks /\ m9 \in 0 .. m1 /\ m10 \in 0 .. NBUF /\ m8 \in Int
    BY RotAssumption DEF Rot!Init
  <2>2. /\ m2 \in [Rot!Buf -> {"UNUSED", "READ_PENDING", "WRITE_PENDING"}]
        /\ m3 \in [Rot!Buf -> BOOLEAN] /\ m4 \in [Rot!Buf -> Rot!Block \cup {Rot!None}] /\ m5 \in [Rot!Buf -> {0, 1}]
        /\ m6 \in [Rot!Buf -> {"idle", "reading", "writing", "done", "short", "error"}]
        /\ m7 \in [Rot!Buf -> BOOLEAN] /\ m11 \in [Rot!Block -> {Rot!None, 0, 1}]
    BY DEF Rot!Init
  <2> QED BY <2>1, <2>2 DEF Rot!Init, Rot!TypeOK
<1>2. \A b \in Rot!Buf : Rot!BufOK(b)
  BY DEF Rot!Init, Rot!BufOK
<1>3. Rot!TranslatedOnce
  BY DEF Rot!Init, Rot!TranslatedOnce
<1>4. Rot!BlocksAccounted
  <2>1. {m4[b] : b \in Rot!Buf} \ {Rot!None} = {}
    BY DEF Rot!Init
  <2>2. 0 .. m9 - 1 = {}
    BY DEF Rot!Init
  <2> QED BY <2>1, <2>2 DEF Rot!Init, Rot!BlocksAccounted
<1>5. Rot!ExitComplete
  <2>1. {b \in Rot!Buf : m7[b]} = {}
    BY DEF Rot!Init
  <2> QED BY <2>1, FS_EmptySet, RotCard DEF Rot!Init, Rot!ExitComplete
<1> QED BY <1>1, <1>2, <1>3, <1>4, <1>5 DEF Rot!IInv

LEMMA RotListed == ASSUME Rot!TypeOK PROVE IsFiniteSet(Rot!Listed) /\ Cardinality(Rot!Listed) \in Nat
<1>1. IsFiniteSet(Rot!Buf)
  BY RotAssumption, FS_Interval DEF Rot!Buf
<1> QED BY <1>1, FS_Subset, FS_CardinalityType DEF Rot!Listed

LEMMA RotIdle ==
  ASSUME Rot!IInv, Rot!Idle, m10' \in 0 .. NBUF, m12' \in {"loop", "suspend", "exit", "err"},
         m12' = "exit" => m12 = "exit" \/ (m8 = 0 /\ m9 >= m1)
  PROVE  Rot!IInv'
<1>1. Rot!TypeOK'
  BY DEF Rot!IInv, Rot!TypeOK, Rot!Idle
<1>2. \A b \in Rot!Buf : Rot!BufOK(b)'
  BY DEF Rot!IInv, Rot!BufOK, Rot!Idle
<1>3. Rot!TranslatedOnce' /\ Rot!BlocksAccounted'
  BY DEF Rot!IInv, Rot!TranslatedOnce, Rot!BlocksAccounted, Rot!Idle
<1>4. Rot!ExitComplete'
  <2> SUFFICES ASSUME ~m13, m12' = "exit", NEW k \in 0 .. m1 - 1
               PROVE  m11[k] # Rot!None
    BY DEF Rot!IInv, Rot!ExitComplete, Rot!Idle
  <2>1. CASE m12 = "exit"
    BY <2>1 DEF Rot!IInv, Rot!ExitComplete
  <2>2. CASE m8 = 0 /\ m9 >= m1
    <3>1. Cardinality(Rot!Listed) = 0
      BY <2>2, RotCard DEF Rot!IInv, Rot!ExitComplete, Rot!Listed
    <3>2. Rot!Listed = {}
      BY <3>1, RotListed, FS_EmptySet DEF Rot!IInv
    <3>3. k \in 0 .. m9 - 1 /\ m9 \in Int
      BY <2>2 DEF Rot!IInv, Rot!TypeOK
    <3>4. PICK b \in Rot!Buf : m4[b] = k
      BY <3>3 DEF Rot!IInv, Rot!BlocksAccounted
    <3>5. m2[b] = "WRITE_PENDING" /\ ~m7[b]
      BY <3>2, <3>3, <3>4 DEF Rot!IInv, Rot!TypeOK, Rot!BufOK, Rot!Listed, Rot!None
    <3> QED BY <3>4, <3>5 DEF Rot!IInv, Rot!BufOK, Rot!None
  <2> QED BY <2>1, <2>2
<1> QED BY <1>1, <1>2, <1>3, <1>4 DEF Rot!IInv

LEMMA RotStartRead == ASSUME Rot!IInv, Rot!StartRead PROVE Rot!IInv'
<1> USE DEF Rot!StartRead, Rot!Visit, Rot!NextBuf, Rot!aio_offset
<1>1. m10 \in Rot!Buf /\ m9 \in Rot!Block /\ m9 \in 0 .. NBlocks /\ m9 + 1 \in 0 .. m1 /\ m10 + 1 \in 0 .. NBUF /\ m1' = m1
  BY RotAssumption DEF Rot!IInv, Rot!TypeOK, Rot!Buf, Rot!Block
<1>2. /\ \A b \in Rot!Buf : b # m10 => /\ m2'[b] = m2[b] /\ m4'[b] = m4[b] /\ m5'[b] = m5[b]
                                       /\ m6'[b] = m6[b] /\ m7'[b] = m7[b]
      /\ m2'[m10] = "READ_PENDING" /\ m4'[m10] = m9 /\ m5'[m10] = 0 /\ m6'[m10] = "reading" /\ m7'[m10] = TRUE
  BY <1>1 DEF Rot!IInv, Rot!TypeOK
<1>3. Rot!TypeOK'
  BY <1>1 DEF Rot!IInv, Rot!TypeOK
<1>4. \A b \in Rot!Buf : Rot!BufOK(b)'
  <2> TAKE b \in Rot!Buf
  <2>1. CASE b = m10
    BY <2>1, <1>1, <1>2 DEF Rot!BufOK, Rot!IInv, Rot!TypeOK
  <2>2. CASE b # m10
    <3>1. Rot!BufOK(b) /\ 0 .. m9 - 1 \subseteq 0 .. m9' - 1
      BY <1>1 DEF Rot!IInv, Rot!TypeOK
    <3> QED BY <2>2, <1>2, <3>1 DEF Rot!BufOK
  <2> QED BY <2>1, <2>2
<1>5. Rot!TranslatedOnce'
  BY DEF Rot!IInv, Rot!TranslatedOnce
<1>6. Rot!BlocksAccounted'
  <2>1. \A b \in Rot!Buf : b # m10 /\ m4[b] # Rot!None => m4[b] \in 0 .. m9 - 1
    BY DEF Rot!IInv, Rot!BlocksAccounted
  <2>2. \A b, c \in Rot!Buf : b # c /\ m4'[b] # Rot!None => m4'[b] # m4'[c]
    BY <2>1, <1>1, <1>2 DEF Rot!IInv, Rot!BlocksAccounted, Rot!None
  <2>3. m4[m10] = Rot!None
    BY <1>1 DEF Rot!IInv, Rot!BufOK
  <2>4. ASSUME NEW x PROVE x \in {m4'[b] : b \in Rot!Buf} \ {Rot!None} <=> x \in 0 .. m9
    <3>1. ASSUME x \in {m4'[b] : b \in Rot!Buf} \ {Rot!None} PROVE x \in 0 .. m9
      BY <3>1, <2>1, <1>1, <1>2 
    <3>2. ASSUME x \in 0 .. m9 PROVE x \in {m4'[b] : b \in Rot!Buf} \ {Rot!None}
      <4>1. CASE x = m9
        BY <4>1, <1>1, <1>2 DEF Rot!None, Rot!Block
      <4>2. CASE x # m9
        <5>1. x \in 0 .. m9 - 1
          BY <3>2, <4>2, <1>1
        <5>2. PICK b \in Rot!Buf : m4[b] = x /\ x # Rot!None
          BY <5>1 DEF Rot!IInv, Rot!BlocksAccounted
        <5> QED BY <5>2, <2>3, <1>2
      <4> QED BY <4>1, <4>2
    <3> QED BY <3>1, <3>2
  <2>5. m9' - 1 = m9
    BY <1>1
  <2> QED BY <2>2, <2>4, <2>5, Zenon DEF Rot!BlocksAccounted
<1>7. Rot!ExitComplete'
  <2>1. Rot!Listed' = Rot!Listed \cup {m10} /\ m10 \notin Rot!Listed
    BY <1>1, <1>2 DEF Rot!Listed, Rot!IInv, Rot!BufOK
  <2>2. Cardinality(Rot!Listed') = Cardinality(Rot!Listed) + 1
    BY <2>1, RotListed, FS_AddElement DEF Rot!IInv
  <2> QED BY <2>2, RotListed, RotCard DEF Rot!IInv, Rot!ExitComplete, Rot!Listed
<1> QED BY <1>3, <1>4, <1>5, <1>6, <1>7 DEF Rot!IInv

LEMMA RotReadDone == ASSUME Rot!IInv, Rot!ReadDone PROVE Rot!IInv'
<1> USE DEF Rot!ReadDone, Rot!Visit, Rot!NextBuf
<1>1. m10 \in Rot!Buf /\ m10 + 1 \in 0 .. NBUF
  BY RotAssumption DEF Rot!IInv, Rot!TypeOK, Rot!Buf
<1>2. m5[m10] = 0 /\ m7[m10]
  BY <1>1 DEF Rot!IInv, Rot!BufOK
<1>3. /\ \A b \in Rot!Buf : b # m10 => m2'[b] = m2[b] /\ m5'[b] = m5[b] /\ m6'[b] = m6[b]
      /\ m2'[m10] = "WRITE_PENDING" /\ m5'[m10] = 1 /\ m6'[m10] = "writing"
  BY <1>1, <1>2 DEF Rot!IInv, Rot!TypeOK, Rot!translate
<1>4. Rot!TypeOK'
  <2>1. m5' \in [Rot!Buf -> {0, 1}]
    BY <1>1, <1>2 DEF Rot!IInv, Rot!TypeOK, Rot!translate
  <2> QED BY <1>1, <2>1 DEF Rot!IInv, Rot!TypeOK
<1>5. \A b \in Rot!Buf : Rot!BufOK(b)'
  <2> TAKE b \in Rot!Buf
  <2>1. Rot!BufOK(b) 
    BY DEF Rot!IInv
  <2>2. CASE b = m10
    BY <2>1, <2>2, <1>1, <1>2, <1>3 DEF Rot!BufOK
  <2>3. CASE b # m10
    BY <2>1, <2>3, <1>3 DEF Rot!BufOK
  <2> QED BY <2>2, <2>3
<1>6. Rot!TranslatedOnce' /\ Rot!BlocksAccounted' /\ Rot!ExitComplete'
  BY DEF Rot!IInv, Rot!TranslatedOnce, Rot!BlocksAccounted, Rot!ExitComplete
<1> QED BY <1>4, <1>5, <1>6 DEF Rot!IInv

LEMMA RotWriteDone == ASSUME Rot!IInv, Rot!WriteDone PROVE Rot!IInv'
<1> USE DEF Rot!WriteDone, Rot!Visit, Rot!NextBuf
<1>1. m10 \in Rot!Buf /\ m10 + 1 \in 0 .. NBUF
  BY RotAssumption DEF Rot!IInv, Rot!TypeOK, Rot!Buf
<1>2. /\ \A b \in Rot!Buf : b # m10 => m7'[b] = m7[b]
      /\ m7'[m10] = FALSE
  BY <1>1 DEF Rot!IInv, Rot!TypeOK
<1>3. Rot!TypeOK'
  BY <1>1, RotAssumption DEF Rot!IInv, Rot!TypeOK
<1>4. \A b \in Rot!Buf : Rot!BufOK(b)'
  <2> TAKE b \in Rot!Buf
  <2>1. Rot!BufOK(b) 
    BY DEF Rot!IInv
  <2>2. CASE b = m10
    BY <2>1, <2>2, <1>1, <1>2 DEF Rot!BufOK
  <2>3. CASE b # m10
    BY <2>1, <2>3, <1>2 DEF Rot!BufOK
  <2> QED BY <2>2, <2>3
<1>5. Rot!TranslatedOnce' /\ Rot!BlocksAccounted' 
  BY DEF Rot!IInv, Rot!TranslatedOnce, Rot!BlocksAccounted
<1>6. Rot!ExitComplete'
  <2> SUFFICES ASSUME ~m13, m7[m10] PROVE m8' = Cardinality(Rot!Listed')
    BY RotCard DEF Rot!IInv, Rot!ExitComplete, Rot!Listed
  <2>1. Rot!Listed' = Rot!Listed \ {m10} /\ m10 \in Rot!Listed
    BY <1>1, <1>2 DEF Rot!Listed, Rot!IInv, Rot!BufOK
  <2>2. Cardinality(Rot!Listed') = Cardinality(Rot!Listed) - 1 
    BY <2>1, RotListed, FS_RemoveElement DEF Rot!IInv
  <2>3. Cardinality(Rot!Listed) # 0
    BY <2>1, RotListed, FS_EmptySet DEF Rot!IInv
  <2>4. m8 = Cardinality(Rot!Listed) /\ m8 \in Nat
    BY RotListed, RotCard DEF Rot!IInv, Rot!ExitComplete, Rot!Listed
  <2> QED BY <2>2, <2>3, <2>4, RotAssumption 
<1> QED BY <1>3, <1>4, <1>5, <1>6 DEF Rot!IInv

LEMMA RotComplete == ASSUME Rot!IInv, NEW c \in Rot!Buf, Rot!Complete(c) PROVE Rot!IInv'
<1> USE DEF Rot!Complete
<1>1. PICK r \in {"done", "short", "error"} :
        /\ m6' = [m6 EXCEPT ![c] = r]
        /\ m11' = IF m6[c] = "writing" /\ r = "done" THEN [m11 EXCEPT ![m4[c]] = m5[c]] ELSE m11
  OBVIOUS
<1>2. /\ \A b \in Rot!Buf : b # c => m6'[b] = m6[b]
      /\ m6'[c] = r
  BY <1>1 DEF Rot!IInv, Rot!TypeOK
<1>3. m2[c] # "UNUSED" /\ m4[c] \in Rot!Block /\ m4[c] \in 0 .. m9 - 1 /\ m7[c]
  BY RotAssumption DEF Rot!IInv, Rot!TypeOK, Rot!BufOK, Rot!InProgress, Rot!Block
<1>4. m6[c] = "writing" => m5[c] = 1 /\ m2[c] = "WRITE_PENDING"
  BY DEF Rot!IInv, Rot!TypeOK, Rot!BufOK
<1>5. /\ \A k \in Rot!Block : m11'[k] = m11[k] \/ m11'[k] = 1
      /\ m6[c] = "writing" /\ r = "done" => m11'[m4[c]] = 1
      /\ m11' \in [Rot!Block -> {Rot!None, 0, 1}]
  BY <1>1, <1>3, <1>4 DEF Rot!IInv, Rot!TypeOK
<1>6. Rot!TypeOK'
  BY <1>1, <1>5 DEF Rot!IInv, Rot!TypeOK
<1>7. \A b \in Rot!Buf : Rot!BufOK(b)'
  <2> TAKE b \in Rot!Buf
  <2>1. Rot!BufOK(b) /\ m6[b] \in {"idle", "reading", "writing", "done", "short", "error"} /\ 0 .. m9 - 1 \subseteq Rot!Block
    BY RotAssumption DEF Rot!IInv, Rot!TypeOK, Rot!Block
  <2>2. CASE b = c
    BY <2>1, <2>2, <1>2, <1>3, <1>4, <1>5 DEF Rot!BufOK, Rot!InProgress
  <2>3. CASE b # c
    BY <2>1, <2>3, <1>2, <1>5 DEF Rot!BufOK
  <2> QED BY <2>2, <2>3
<1>8. Rot!TranslatedOnce' 
  BY <1>5 DEF Rot!IInv, Rot!TranslatedOnce
<1>9. Rot!BlocksAccounted'
  BY DEF Rot!IInv, Rot!BlocksAccounted
<1>10. Rot!ExitComplete'
  BY DEF Rot!IInv, Rot!ExitComplete
<1> QED BY <1>6, <1>7, <1>8, <1>9, <1>10 DEF Rot!IInv

LEMMA RotStep == ASSUME Rot!IInv, [Rot!Next]_(Rot!vars) PROVE Rot!IInv'
<1>1. CASE Rot!StartRead
  BY <1>1, RotStartRead
<1>2. CASE Rot!Pass
  BY <1>2, RotIdle, RotAssumption DEF Rot!Pass, Rot!Skip, Rot!Visit, Rot!Idle, Rot!IInv, Rot!TypeOK
<1>3. CASE Rot!ReadFailed \/ Rot!WriteFailed
  BY <1>3, RotIdle DEF Rot!ReadFailed, Rot!WriteFailed, Rot!Fail, Rot!Idle, Rot!IInv, Rot!TypeOK
<1>4. CASE Rot!ReadDone
  BY <1>4, RotReadDone
<1>5. CASE Rot!WriteDone
  BY <1>5, RotWriteDone
<1>6. CASE Rot!PassEnd
  <2>1. Rot!Idle /\ m10' \in 0 .. NBUF
    BY <1>6, RotAssumption DEF Rot!PassEnd, Rot!Idle
  <2>2. /\ m12' \in {"loop", "suspend", "exit", "err"}
        /\ m12' = "exit" => m8 = 0 /\ m9 >= m1
    BY <1>6 DEF Rot!PassEnd
  <2> QED BY <2>1, <2>2, RotIdle
<1>7. CASE Rot!Resume
  BY <1>7, RotIdle DEF Rot!Resume, Rot!Idle, Rot!IInv, Rot!TypeOK
<1>8. CASE \E b \in Rot!Buf : Rot!Complete(b)
  BY <1>8, RotComplete
<1>9. CASE UNCHANGED Rot!vars
  BY <1>9, RotIdle DEF Rot!vars, Rot!Idle, Rot!IInv, Rot!TypeOK
<1> QED BY <1>1, <1>2, <1>3, <1>4, <1>5, <1>6, <1>7, <1>8, <1>9 DEF Rot!Next, Rot!Step

LEMMA RotNoReuse == ASSUME Rot!IInv, [Rot!Next]_(Rot!vars) PROVE Rot!NoReuse
<1> SUFFICES ASSUME NEW b \in Rot!Buf, Rot!InProgress(b), m6'[b] # m6[b]
             PROVE  m6'[b] \in {"done", "short", "error"} /\ UNCHANGED <<m2, m8, m10>>
  BY DEF Rot!NoReuse
<1> USE DEF Rot!IInv, Rot!TypeOK
<1>1. ~Rot!StartRead
  <2>1. ASSUME Rot!StartRead PROVE m10 \in Rot!Buf /\ m6[m10] = "idle"
    BY <2>1, RotAssumption DEF Rot!StartRead, Rot!Visit, Rot!BufOK, Rot!Buf
  <2> QED BY <2>1 DEF Rot!StartRead, Rot!InProgress
<1>2. ~Rot!ReadDone
  BY DEF Rot!ReadDone, Rot!Ready, Rot!InProgress
<1>3. CASE \E c \in Rot!Buf : Rot!Complete(c)
  BY <1>3 DEF Rot!Complete
<1> QED BY <1>1, <1>2, <1>3 DEF Rot!Next, Rot!Step, Rot!Pass, Rot!Skip, Rot!Fail, Rot!ReadFailed, Rot!WriteFailed, Rot!WriteDone, Rot!PassEnd, Rot!Resume, Rot!vars

-----------------------------------------------------------------------------
(* Dmn is Daemon: daemons that detach, lock and re-read.                   *)
(*                                                                         *)
(* m1 pc, m2 fds, m3 leader, m4 tty, m5 locker, m6 file, m7 careless,      *)
(* m8 hup, m9 term, m10 sigs, m11 owed.                                    *)

LEMMA DmnInit == Dmn!Init => Dmn!IInv
<1> SUFFICES ASSUME Dmn!Init PROVE Dmn!IInv
  OBVIOUS
<1>1. Dmn!TypeOK
  BY DEF Dmn!Init, Dmn!TypeOK
<1>2. ASSUME NEW c \in Copy PROVE Dmn!LockOK(c) /\ Dmn!DetachOK(c)
  <2>1. m2[c] \in {[n \in S |-> "shell"] : S \in {{}, {0, 1, 2}, {0, 2, FdLimit}, {1, FdLimit - 1}}}
    BY DEF Dmn!Init
  <2>2. PICK S \in {{}, {0, 1, 2}, {0, 2, FdLimit}, {1, FdLimit - 1}} : m2[c] = [n \in S |-> "shell"]
    BY <2>1
  <2>3. DOMAIN m2[c] \subseteq Int
    BY <2>2, DmnAssumption
  <2>4. m1[c] = "start"
    BY DEF Dmn!Init
  <2> QED BY <2>3, <2>4 DEF Dmn!LockOK, Dmn!DetachOK, Dmn!Running
<1> QED BY <1>1, <1>2 DEF Dmn!IInv

\* Another copy's state is not disturbed by a step of c.
LEMMA DmnOther ==
  ASSUME Dmn!IInv, NEW c \in Copy, NEW d \in Copy, c # d,
         m1'[d] = m1[d], m2'[d] = m2[d],
         m7 \subseteq m7',
         m5' = m5 \/ m5 \in {c, Dmn!None}, m6' = m6 \/ (m1[c] \in {"truncate", "write"} /\ UNCHANGED m7),
         m4' \subseteq m4, d \in m3' => d \in m3
  PROVE  Dmn!LockOK(d)' /\ Dmn!DetachOK(d)'
<1>1. Dmn!Running(d)' = Dmn!Running(d)
  BY DEF Dmn!Running
<1>2. Dmn!LockOK(d) /\ Dmn!DetachOK(d) /\ Dmn!LockOK(c)
  BY DEF Dmn!IInv
<1>3. d # Dmn!None
  BY DmnAssumption DEF Dmn!None
<1>4. Dmn!DetachOK(d)'
  BY <1>1, <1>2 DEF Dmn!DetachOK
<1>5. Dmn!Running(d)' /\ d \notin m7' => m5' = d
  BY <1>1, <1>2, <1>3 DEF Dmn!LockOK
<1>6. ASSUME Dmn!Running(d)', m7' = {}, m1'[d] \notin {"truncate", "write"} PROVE m6' = d
  <2>1. m7 = {}
    BY <1>6
  <2>2. CASE m1[c] \in {"truncate", "write"}
    <3>1. Dmn!Running(c)
      BY <2>2 DEF Dmn!Running
    <3>2. m5 = c /\ m5 = d
      BY <3>1, <2>1, <1>1, <1>2, <1>6 DEF Dmn!LockOK
    <3> QED BY <3>2
  <2> QED BY <2>1, <2>2, <1>1, <1>2, <1>6 DEF Dmn!LockOK
<1> QED BY <1>4, <1>5, <1>6 DEF Dmn!LockOK

\* A copy that is gone claims nothing.
LEMMA DmnGone == ASSUME NEW c \in Copy, m1'[c] = "gone" PROVE Dmn!LockOK(c)' /\ Dmn!DetachOK(c)'
  BY DEF Dmn!LockOK, Dmn!DetachOK, Dmn!Running

LEMMA DmnExit ==
  ASSUME Dmn!IInv, NEW c \in Copy, Dmn!exit(c), m2' = [d \in Copy |-> m2'[d]],
         \A d \in Copy : d # c => m2'[d] = m2[d],
         UNCHANGED <<m3, m4, m6, m7>>
  PROVE  Dmn!IInv'
<1>1. /\ m1' = [d \in Copy |-> m1'[d]] /\ m1'[c] = "gone" 
      /\ \A d \in Copy : d # c => m1'[d] = m1[d]
  BY DEF Dmn!IInv, Dmn!TypeOK, Dmn!exit, Dmn!Go
<1>2. m5' = m5 \/ m5 = c
  BY DEF Dmn!exit
<1>3. ASSUME NEW d \in Copy PROVE Dmn!LockOK(d)' /\ Dmn!DetachOK(d)'
  <2>1. CASE d = c
    BY <2>1, <1>1, DmnGone
  <2>2. CASE d # c
    BY <2>2, <1>1, <1>2, DmnOther
  <2> QED BY <2>1, <2>2
<1> QED BY <1>1, <1>3 DEF Dmn!IInv, Dmn!TypeOK

\* What opening a descriptor does to a table.
LEMMA DmnOpened ==
  ASSUME NEW f, NEW what
  PROVE  /\ DOMAIN f \subseteq DOMAIN Dmn!Opened(f, what)
         /\ \A n \in DOMAIN f : Dmn!Opened(f, what)[n] = f[n]
         /\ \A n \in DOMAIN Dmn!Opened(f, what) : n \notin DOMAIN f => Dmn!Opened(f, what)[n] = what
  BY DEF Dmn!Opened

\* A step of c that only moves it on, without closing or opening anything.
LEMMA DmnMove ==
  ASSUME Dmn!IInv, NEW c \in Copy, NEW l, Dmn!Go(c, l), UNCHANGED m2, m7' = m7,
         m5' = m5, m6' = m6 \/ m1[c] \in {"truncate", "write"},
         m4' \subseteq m4, \A d \in Copy \ {c} : d \in m3' => d \in m3,
         Dmn!LockOK(c)', Dmn!DetachOK(c)'
  PROVE  Dmn!IInv'
<1>1. /\ m1' = [d \in Copy |-> m1'[d]] /\ \A d \in Copy : d # c => m1'[d] = m1[d]
  BY DEF Dmn!IInv, Dmn!TypeOK, Dmn!Go
<1>2. ASSUME NEW d \in Copy, d # c PROVE Dmn!LockOK(d)' /\ Dmn!DetachOK(d)'
  BY <1>1, <1>2, DmnOther
<1> QED BY <1>1, <1>2 DEF Dmn!IInv, Dmn!TypeOK

LEMMA DmnDaemonize == ASSUME Dmn!IInv, NEW c \in Copy, Dmn!daemonize(c) PROVE Dmn!IInv'
<1> USE DEF Dmn!daemonize, Dmn!Files, Dmn!Signals
<1>1. PICK l \in {"session", "fork", "close"} : Dmn!Go(c, l) /\ m1'[c] = l
  BY DEF Dmn!Go, Dmn!IInv, Dmn!TypeOK
<1>2. Dmn!LockOK(c)'
  BY <1>1 DEF Dmn!LockOK, Dmn!Running
<1>3. Dmn!DetachOK(c)'
  BY <1>1 DEF Dmn!DetachOK, Dmn!Running, Dmn!IInv, Dmn!Go
<1> QED BY <1>1, <1>2, <1>3, DmnMove

LEMMA DmnClose == ASSUME Dmn!IInv, NEW c \in Copy, Dmn!CloseAll(c) PROVE Dmn!IInv'
<1> DEFINE left == [n \in {k \in DOMAIN m2[c] : k >= FdLimit} |-> "shell"]
           one == Dmn!Opened(left, "null")
           two == Dmn!Opened(one, "null")
           null == Dmn!Opened(two, "null")
<1>1. m1[c] = "close" /\ m2' = [m2 EXCEPT ![c] = null] /\ UNCHANGED <<m3, m4, m6, m7>>
  BY DEF Dmn!CloseAll, Dmn!Files
<1>2. /\ m2' = [d \in Copy |-> m2'[d]] /\ m2'[c] = null
      /\ \A d \in Copy : d # c => m2'[d] = m2[d]
  BY <1>1 DEF Dmn!IInv, Dmn!TypeOK
<1>3. CASE Dmn!exit(c)
  BY <1>1, <1>2, <1>3, DmnExit
<1>4. CASE /\ \A n \in 0..2 : n \in DOMAIN null /\ null[n] = "null"
           /\ Dmn!Go(c, "open") /\ UNCHANGED <<m5, m6, m7>>
  <2>1. /\ m1' = [d \in Copy |-> m1'[d]] /\ m1'[c] = "open" 
        /\ \A d \in Copy : d # c => m1'[d] = m1[d]
    BY <1>4 DEF Dmn!IInv, Dmn!TypeOK, Dmn!Go
  <2>2. ASSUME NEW n \in DOMAIN null, null[n] = "shell" PROVE n \in Int /\ n >= FdLimit
    <3> HIDE DEF null, two, one, left
    <3>1. n \in DOMAIN two /\ two[n] = "shell"
      BY <2>2, DmnOpened, Zenon DEF null
    <3>2. n \in DOMAIN one /\ one[n] = "shell"
      BY <3>1, DmnOpened, Zenon DEF two
    <3>3. n \in DOMAIN left /\ left[n] = "shell"
      BY <3>2, DmnOpened, Zenon DEF one
    <3> QED BY <3>3, <1>1 DEF Dmn!IInv, Dmn!DetachOK, left
  <2>3. Dmn!DetachOK(c)'
    BY <2>1, <2>2, <1>1, <1>2, <1>4 DEF Dmn!DetachOK, Dmn!IInv, Dmn!Running
  <2>4. Dmn!LockOK(c)'
    BY <2>1 DEF Dmn!LockOK, Dmn!Running
  <2>5. ASSUME NEW d \in Copy, d # c PROVE Dmn!LockOK(d)' /\ Dmn!DetachOK(d)'
    BY <2>1, <2>5, <1>1, <1>2, <1>4, DmnOther
  <2> QED BY <1>1, <1>2, <2>1, <2>3, <2>4, <2>5 DEF Dmn!IInv, Dmn!TypeOK
<1> QED BY <1>3, <1>4 DEF Dmn!CloseAll, Dmn!Files

LEMMA DmnLock == ASSUME Dmn!IInv, NEW c \in Copy, Dmn!Lock(c) PROVE Dmn!IInv'
<1> DEFINE new == Dmn!Opened(m2[c], "lock")
<1>1. /\ m1[c] = "open" /\ m2' = [m2 EXCEPT ![c] = new] /\ UNCHANGED <<m3, m4, m6>>
  BY DEF Dmn!Lock
<1>2. /\ m2' = [d \in Copy |-> m2'[d]] /\ m2'[c] = new
      /\ \A d \in Copy : d # c => m2'[d] = m2[d]
  BY <1>1 DEF Dmn!IInv, Dmn!TypeOK
<1>3. CASE Dmn!exit(c) /\ UNCHANGED m7
  BY <1>1, <1>2, <1>3, DmnExit
<1>4. CASE /\ Dmn!Go(c, "truncate")
           /\ \/ m5 = Dmn!None /\ m5' = c /\ m7' = m7
              \/ m5' = m5 /\ m7' = m7 \cup {c}
  <2>1. /\ m1' = [d \in Copy |-> m1'[d]] /\ m1'[c] = "truncate" 
        /\ \A d \in Copy : d # c => m1'[d] = m1[d]
    BY <1>4 DEF Dmn!IInv, Dmn!TypeOK, Dmn!Go
  <2>2. Dmn!LockOK(c)'
    BY <2>1, <1>4 DEF Dmn!LockOK
  <2>3. \A n \in DOMAIN new : new[n] = "shell" => n \in Int /\ n >= FdLimit
    <3> TAKE n \in DOMAIN new
    <3>1. CASE n \in DOMAIN m2[c]
      BY <3>1, <1>1, DmnOpened DEF Dmn!IInv, Dmn!DetachOK
    <3>2. CASE n \notin DOMAIN m2[c]
      BY <3>2, DmnOpened
    <3> QED BY <3>1, <3>2
  <2>4. \A n \in 0..2 : n \in DOMAIN new /\ new[n] = "null"
    <3> TAKE n \in 0..2
    <3>1. n \in DOMAIN m2[c] /\ m2[c][n] = "null"
      BY <1>1 DEF Dmn!IInv, Dmn!DetachOK
    <3> QED BY <3>1, DmnOpened
  <2>5. Dmn!DetachOK(c)'
    <3> HIDE DEF new
    <3> QED BY <2>1, <2>3, <2>4, <1>1, <1>2 DEF Dmn!DetachOK, Dmn!IInv
  <2>6. ASSUME NEW d \in Copy, d # c PROVE Dmn!LockOK(d)' /\ Dmn!DetachOK(d)'
    BY <2>1, <2>6, <1>1, <1>2, <1>4, DmnOther
  <2> QED BY <1>2, <1>4, <2>1, <2>2, <2>5, <2>6 DEF Dmn!IInv, Dmn!TypeOK
<1> QED BY <1>3, <1>4 DEF Dmn!Lock

LEMMA DmnRunning == ASSUME Dmn!IInv, NEW c \in Copy, Dmn!already_running(c) PROVE Dmn!IInv'
<1>1. CASE Dmn!Lock(c)
  BY <1>1, DmnLock
<1>2. CASE m1[c] = "truncate" /\ Dmn!Go(c, "write") /\ m6' = Dmn!None /\ UNCHANGED <<m2, m3, m4, m5, m7>>
  <2>1. m1'[c] = "write"
    BY <1>2 DEF Dmn!IInv, Dmn!TypeOK, Dmn!Go
  <2>2. Dmn!LockOK(c)' /\ Dmn!DetachOK(c)'
    BY <1>2, <2>1 DEF Dmn!IInv, Dmn!LockOK, Dmn!DetachOK, Dmn!Running
  <2> QED BY <1>2, <2>2, DmnMove
<1>3. CASE /\ m1[c] = "write" /\ m6' = c /\ Dmn!Go(c, IF c \in Threaded THEN "default" ELSE "sigterm")
           /\ UNCHANGED <<m2, m3, m4, m5, m7>>
  <2>1. m1'[c] \in {"default", "sigterm"}
    BY <1>3 DEF Dmn!IInv, Dmn!TypeOK, Dmn!Go
  <2>2. Dmn!LockOK(c)' /\ Dmn!DetachOK(c)'
    BY <1>3, <2>1 DEF Dmn!IInv, Dmn!LockOK, Dmn!DetachOK, Dmn!Running
  <2> QED BY <1>3, <2>2, DmnMove
<1> QED BY <1>1, <1>2, <1>3 DEF Dmn!already_running

LEMMA DmnReady == ASSUME Dmn!IInv, NEW c \in Copy, Dmn!Thread(c) \/ Dmn!Handlers(c) PROVE Dmn!IInv'
<1>1. PICK l \in {"block", "run", "sighup"} : Dmn!Go(c, l) /\ m1'[c] = l
  BY DEF Dmn!Go, Dmn!IInv, Dmn!TypeOK, Dmn!Thread, Dmn!Handlers
<1>2. Dmn!Running(c) /\ m1[c] \notin {"truncate", "write"} /\ UNCHANGED <<m2, m3, m4, m5, m6, m7>>
  BY DEF Dmn!Thread, Dmn!Handlers, Dmn!Running, Dmn!Files
<1>3. Dmn!LockOK(c)' /\ Dmn!DetachOK(c)'
  BY <1>1, <1>2 DEF Dmn!IInv, Dmn!LockOK, Dmn!DetachOK, Dmn!Running
<1> QED BY <1>1, <1>2, <1>3, DmnMove

LEMMA DmnUnmoved == ASSUME Dmn!IInv, UNCHANGED <<m1, m2, m3, m4, m5, m6, m7>> PROVE Dmn!IInv'
<1>1. \A c \in Copy : Dmn!LockOK(c)' /\ Dmn!DetachOK(c)'
  BY DEF Dmn!IInv, Dmn!LockOK, Dmn!DetachOK, Dmn!Running
<1> QED BY <1>1 DEF Dmn!IInv, Dmn!TypeOK

LEMMA DmnSend == ASSUME Dmn!IInv, NEW c \in Copy, Dmn!Send(c) PROVE Dmn!IInv'
<1>1. CASE Dmn!exit(c) /\ UNCHANGED <<m6, m7>>
  BY <1>1, DmnExit DEF Dmn!Send, Dmn!IInv, Dmn!TypeOK
<1>2. CASE UNCHANGED <<m1, m5, m6, m7>>
  BY <1>2, DmnUnmoved DEF Dmn!Send
<1> QED BY <1>1, <1>2 DEF Dmn!Send, Dmn!Files

LEMMA DmnStep == ASSUME Dmn!IInv, [Dmn!Next]_(Dmn!vars) PROVE Dmn!IInv'
<1>1. CASE UNCHANGED Dmn!vars
  BY <1>1, DmnUnmoved DEF Dmn!vars
<1>2. ASSUME NEW c \in Copy, Dmn!Main(c) PROVE Dmn!IInv'
  BY <1>2, DmnDaemonize, DmnClose, DmnRunning, DmnReady DEF Dmn!Main
<1>3. ASSUME NEW c \in Copy, Dmn!reread(c) PROVE Dmn!IInv'
  BY <1>3, DmnUnmoved DEF Dmn!reread, Dmn!Files
<1>4. ASSUME NEW c \in Copy, Dmn!sigterm(c) \/ Dmn!Finish(c) PROVE Dmn!IInv'
  BY <1>4, DmnExit DEF Dmn!sigterm, Dmn!Finish, Dmn!IInv, Dmn!TypeOK
<1>5. ASSUME NEW c \in Copy, Dmn!Send(c) PROVE Dmn!IInv'
  BY <1>5, DmnSend
<1> QED BY <1>1, <1>2, <1>3, <1>4, <1>5 DEF Dmn!Next, Dmn!Serve, Dmn!Rest

LEMMA DmnProps == Dmn!IInv => Dmn!OneDaemon /\ Dmn!Detached
<1> SUFFICES ASSUME Dmn!IInv PROVE Dmn!OneDaemon /\ Dmn!Detached
  OBVIOUS
<1>1. Dmn!OneDaemon
  BY DEF Dmn!IInv, Dmn!OneDaemon, Dmn!LockOK, Dmn!Running
<1>2. Dmn!Detached
  <2> SUFFICES ASSUME NEW c \in Copy, m1[c] = "run"
               PROVE  /\ c \notin m4 \cup m3
                      /\ \A n \in DOMAIN m2[c] : n < FdLimit => m2[c][n] # "shell"
                      /\ \A n \in 0..2 : m2[c][n] = "null"
    BY DEF Dmn!Detached
  <2> QED BY DmnAssumption DEF Dmn!IInv, Dmn!DetachOK, Dmn!Running
<1> QED BY <1>1, <1>2

-----------------------------------------------------------------------------
(* Sem is Semaph: the semaphore library.                                   *)
(*                                                                         *)
(* m1 gen, m2 made, m3 val, m4 adj, m5 pc, m6 id, m7 asleep.               *)

LEMMA SemCard == \A S : Sem!Cardinality(S) = Cardinality(S)
  BY DEF Sem!Cardinality, Cardinality

\* The sets counted are finite, and a process outside them leaves room for one.
LEMMA SemFinite ==
  /\ IsFiniteSet(Sem!Users) /\ IsFiniteSet(Sem!Waited) /\ Sem!Waited \subseteq Sem!Users
  /\ Cardinality(Sem!Users) \in Nat /\ Cardinality(Sem!Waited) \in Nat
  /\ \A p \in Proc : p \notin Sem!Users => Cardinality(Sem!Users) < BIGCOUNT
<1>1. Sem!Users \subseteq Proc /\ Sem!Waited \subseteq Proc /\ Sem!Waited \subseteq Sem!Users
  BY DEF Sem!Users, Sem!Waited, Sem!Using, Sem!InUse
<1>2. IsFiniteSet(Sem!Users) /\ IsFiniteSet(Sem!Waited) /\ Cardinality(Sem!Users) \in Nat /\ Cardinality(Sem!Waited) \in Nat
  BY <1>1, SemAssumption, FS_Subset, FS_CardinalityType
<1>3. ASSUME NEW p \in Proc, p \notin Sem!Users PROVE Cardinality(Sem!Users) < BIGCOUNT
  <2>1. Sem!Users \cup {p} \subseteq Proc
    BY <1>1
  <2>2. Cardinality(Sem!Users \cup {p}) = Cardinality(Sem!Users) + 1
    BY <1>2, <1>3, FS_AddElement
  <2>3. Cardinality(Sem!Users \cup {p}) <= Cardinality(Proc)
    BY <2>1, SemAssumption, FS_Subset
  <2>4. Cardinality(Proc) \in Nat
    BY SemAssumption, FS_CardinalityType
  <2> QED BY <1>2, <2>2, <2>3, <2>4, SemAssumption
<1> QED BY <1>1, <1>2, <1>3

LEMMA SemInit == Sem!Init => Sem!IInv
<1> SUFFICES ASSUME Sem!Init PROVE Sem!IInv
  OBVIOUS
<1>1. Sem!TypeOK
  BY DEF Sem!Init, Sem!TypeOK, Sem!Zero, Sem!Member
<1>2. Sem!Users = {} /\ Sem!Waited = {} /\ \A p \in Proc : ~Sem!Holder(p)
  BY DEF Sem!Init, Sem!Users, Sem!Waited, Sem!Using, Sem!InUse, Sem!Holder
<1>3. Sem!LockOK
  BY <1>2 DEF Sem!LockOK, Sem!Init, Sem!Zero, Sem!Member
<1>4. Sem!CountOK
  BY <1>2 DEF Sem!CountOK, Sem!Init, Sem!Zero, Sem!Member
<1>5. ASSUME NEW p \in Proc PROVE Sem!AdjOK(p) /\ Sem!IdOK(p) /\ Sem!HeldOK(p)
  BY <1>2 DEF Sem!AdjOK, Sem!IdOK, Sem!HeldOK, Sem!Init, Sem!Zero, Sem!Member, Sem!InUse, Sem!Holder
<1> QED BY <1>1, <1>3, <1>4, <1>5 DEF Sem!IInv

\* What a move of p leaves alone.
LEMMA SemMoved ==
  ASSUME Sem!TypeOK, NEW p \in Proc, NEW l, Sem!Go(p, l), UNCHANGED <<m1, m6>>
  PROVE  /\ m5' = [q \in Proc |-> m5'[q]] /\ m5'[p] = l
         /\ \A q \in Proc : q # p => /\ m5'[q] = m5[q]
                                     /\ Sem!Holder(q)' <=> Sem!Holder(q)
                                     /\ q \in Sem!Users' <=> q \in Sem!Users
                                     /\ q \in Sem!Waited' <=> q \in Sem!Waited
<1>1. m5' = [q \in Proc |-> m5'[q]] /\ m5'[p] = l /\ \A q \in Proc : q # p => m5'[q] = m5[q]
  BY DEF Sem!TypeOK, Sem!Go
<1> QED BY <1>1 DEF Sem!Holder, Sem!Users, Sem!Waited, Sem!Using, Sem!InUse

LEMMA SemOther ==
  ASSUME Sem!IInv, NEW p \in Proc, NEW l, Sem!Go(p, l), UNCHANGED <<m1, m6>>,
         NEW q \in Proc, q # p, m4'[q] = m4[q]
  PROVE  Sem!AdjOK(q)' /\ Sem!IdOK(q)'
<1>1. Sem!AdjOK(q) /\ Sem!IdOK(q)
  BY DEF Sem!IInv
<1>2. /\ m5'[q] = m5[q]
      /\ Sem!Holder(q)' <=> Sem!Holder(q)
      /\ q \in Sem!Users' <=> q \in Sem!Users
      /\ q \in Sem!Waited' <=> q \in Sem!Waited
  BY SemMoved DEF Sem!IInv
<1>3. Sem!AdjOK(q)'
  BY <1>1, <1>2 DEF Sem!AdjOK
<1>4. Sem!IdOK(q)'
  BY <1>1, <1>2 DEF Sem!IdOK, Sem!InUse
<1> QED BY <1>3, <1>4

\* Who does not hold the lock relies on nothing.
LEMMA SemNotHeld == ASSUME NEW q \in Proc, ~Sem!Holder(q)' PROVE Sem!HeldOK(q)'
  BY DEF Sem!HeldOK, Sem!Holder

\* A step of p that moves it without taking or giving back anything.
LEMMA SemQuiet ==
  ASSUME Sem!IInv, NEW p \in Proc, NEW l, Sem!Go(p, l), UNCHANGED <<m1, m2, m3, m4, m6>>,
         Sem!Holder(p)' <=> Sem!Holder(p), p \in Sem!Users' <=> p \in Sem!Users, p \in Sem!Waited' <=> p \in Sem!Waited,
         Sem!IdOK(p)', Sem!HeldOK(p)'
  PROVE  Sem!IInv'
<1>1. /\ m5' = [q \in Proc |-> m5'[q]]
      /\ \A q \in Proc : q # p => /\ m5'[q] = m5[q]
                                  /\ Sem!Holder(q)' <=> Sem!Holder(q)
                                  /\ q \in Sem!Users' <=> q \in Sem!Users
                                  /\ q \in Sem!Waited' <=> q \in Sem!Waited
  BY SemMoved DEF Sem!IInv
<1>2. Sem!Users' = Sem!Users /\ Sem!Waited' = Sem!Waited /\ \A q \in Proc : Sem!Holder(q)' <=> Sem!Holder(q)
  BY <1>1 DEF Sem!Users, Sem!Waited
<1>3. Sem!TypeOK'
  BY <1>1 DEF Sem!IInv, Sem!TypeOK
<1>4. Sem!LockOK'
  BY <1>2 DEF Sem!IInv, Sem!LockOK
<1>5. Sem!CountOK'
  BY <1>2 DEF Sem!IInv, Sem!CountOK
<1>6. ASSUME NEW q \in Proc PROVE Sem!AdjOK(q)' /\ Sem!IdOK(q)' /\ Sem!HeldOK(q)'
  <2>1. Sem!AdjOK(q)'
    BY <1>2 DEF Sem!IInv, Sem!AdjOK
  <2>2. CASE q # p
    <3>1. Sem!HeldOK(q)'
      BY <1>1, <1>2, <2>2 DEF Sem!IInv, Sem!HeldOK
    <3> QED BY <2>1, <2>2, <3>1, SemOther
  <2> QED BY <2>1, <2>2
<1> QED BY <1>3, <1>4, <1>5, <1>6 DEF Sem!IInv

LEMMA SemOps ==
  /\ Sem!op_lock.add[0] = 0 /\ Sem!op_lock.add[1] = 0 /\ Sem!op_lock.add[2] = 1 /\ Sem!op_lock.lock
  /\ Sem!op_endcreate.add[0] = 0 /\ Sem!op_endcreate.add[1] = -1 /\ Sem!op_endcreate.add[2] = -1
  /\ Sem!op_open.add[0] = 0 /\ Sem!op_open.add[1] = -1 /\ Sem!op_open.add[2] = 0
  /\ Sem!op_close.add[0] = 0 /\ Sem!op_close.add[1] = 1 /\ Sem!op_close.add[2] = 1 /\ Sem!op_close.lock
  /\ Sem!op_unlock.add[0] = 0 /\ Sem!op_unlock.add[1] = 0 /\ Sem!op_unlock.add[2] = -1
<1>1. Sem!op_lock.add[0] = 0 /\ Sem!op_lock.add[1] = 0 /\ Sem!op_lock.add[2] = 1 /\ Sem!op_lock.lock
  BY DEF Sem!op_lock, Sem!Op, Sem!Member
<1>2. Sem!op_endcreate.add[0] = 0 /\ Sem!op_endcreate.add[1] = -1 /\ Sem!op_endcreate.add[2] = -1
  BY DEF Sem!op_endcreate, Sem!Op, Sem!Member
<1>3. Sem!op_open.add[0] = 0 /\ Sem!op_open.add[1] = -1 /\ Sem!op_open.add[2] = 0
  BY DEF Sem!op_open, Sem!Op, Sem!Member
<1>4. Sem!op_close.add[0] = 0 /\ Sem!op_close.add[1] = 1 /\ Sem!op_close.add[2] = 1 /\ Sem!op_close.lock
  BY DEF Sem!op_close, Sem!Op, Sem!Member
<1>5. Sem!op_unlock.add[0] = 0 /\ Sem!op_unlock.add[1] = 0 /\ Sem!op_unlock.add[2] = -1
  BY DEF Sem!op_unlock, Sem!Op, Sem!Member
<1> QED BY <1>1, <1>2, <1>3, <1>4, <1>5

LEMMA SemOpOp == ASSUME NEW v \in Int PROVE Sem!op_op(v).add[0] = v /\ Sem!op_op(v).add[1] = 0 /\ Sem!op_op(v).add[2] = 0
  BY DEF Sem!op_op, Sem!Op, Sem!Member

LEMMA SemSemop ==
  ASSUME Sem!TypeOK, NEW p \in Proc, NEW op, NEW l, Sem!semop(p, op, l),
         NEW d0 \in Int, NEW d1 \in Int, NEW d2 \in Int,
         op.add[0] = d0, op.add[1] = d1, op.add[2] = d2
  PROVE  /\ m6[p] = m1
         /\ \/ UNCHANGED <<m1, m2, m3, m4, m5, m6>>
            \/ Sem!Did(p, d0, d1, d2, l) /\ (op.lock => m3[2] = 0)
<1>1. op.add[0] = d0 /\ op.add[1] = d1 /\ op.add[2] = d2
  OBVIOUS
<1>2. \A k \in Sem!Member : op.add[k] \in Int
  BY DEF Sem!Member
<1>3. Sem!semop(p, op, l)
  OBVIOUS
<1>4. m6[p] = m1 /\ UNCHANGED <<m1, m2, m6>>
  BY <1>3 DEF Sem!semop
<1>5. CASE /\ op.lock => m3[2] = 0
           /\ \A k \in Sem!Member : m3[k] + op.add[k] >= 0
           /\ m3' = [k \in Sem!Member |-> m3[k] + op.add[k]]
           /\ m4' = [m4 EXCEPT ![p] = [k \in Sem!Member |-> @[k] - op.add[k]]]
           /\ Sem!Go(p, l)
  <2>1. \A k \in Sem!Member : m3[k] + op.add[k] \in Nat
    BY <1>2, <1>5 DEF Sem!TypeOK
  <2>2. m3' \in [Sem!Member -> Nat]
    BY <1>5, <2>1
  <2>3. m3'[0] = m3[0] + d0 /\ m3'[1] = m3[1] + d1 /\ m3'[2] = m3[2] + d2
    BY <1>1, <1>5 DEF Sem!Member
  <2>4. [k \in Sem!Member |-> m4[p][k] - op.add[k]] \in [Sem!Member -> Int]
    BY <1>2 DEF Sem!TypeOK
  <2>5. /\ m4' \in [Proc -> [Sem!Member -> Int]]
        /\ m4'[p] = [k \in Sem!Member |-> m4[p][k] - op.add[k]]
        /\ \A q \in Proc : q # p => m4'[q] = m4[q]
    BY <1>5, <2>4 DEF Sem!TypeOK
  <2>6. m4'[p][0] = m4[p][0] - d0 /\ m4'[p][1] = m4[p][1] - d1 /\ m4'[p][2] = m4[p][2] - d2
    BY <2>5, <1>1 DEF Sem!Member
  <2> QED BY <1>1, <1>4, <1>5, <2>2, <2>3, <2>5, <2>6 DEF Sem!Did
<1>6. CASE UNCHANGED <<m3, m4, m5>>
  BY <1>4, <1>6
<1> QED BY <1>3, <1>5, <1>6 DEF Sem!semop

LEMMA SemDidType == ASSUME Sem!IInv, NEW p \in Proc, NEW d0, NEW d1, NEW d2, NEW l, Sem!Did(p, d0, d1, d2, l) PROVE Sem!TypeOK'
<1>1. m5' = [q \in Proc |-> m5'[q]]
  BY SemMoved DEF Sem!IInv, Sem!Did
<1> QED BY <1>1 DEF Sem!Did, Sem!TypeOK, Sem!IInv

LEMMA SemStill == ASSUME Sem!IInv, UNCHANGED <<m1, m2, m3, m4, m5, m6>> PROVE Sem!IInv'
<1>1. Sem!Users' = Sem!Users /\ Sem!Waited' = Sem!Waited /\ \A q \in Proc : Sem!Holder(q)' <=> Sem!Holder(q)
  BY DEF Sem!Users, Sem!Waited, Sem!Using, Sem!InUse, Sem!Holder
<1>2. Sem!TypeOK' /\ Sem!LockOK' /\ Sem!CountOK'
  BY <1>1 DEF Sem!IInv, Sem!TypeOK, Sem!LockOK, Sem!CountOK
<1>3. ASSUME NEW q \in Proc PROVE Sem!AdjOK(q)' /\ Sem!IdOK(q)' /\ Sem!HeldOK(q)'
  BY <1>1 DEF Sem!IInv, Sem!AdjOK, Sem!IdOK, Sem!HeldOK, Sem!InUse
<1> QED BY <1>2, <1>3 DEF Sem!IInv

\* A semop by a process that has the lock before it or after it.
LEMMA SemLocked ==
  ASSUME Sem!IInv, NEW p \in Proc, NEW d0, NEW d1, NEW d2, NEW l, Sem!Did(p, d0, d1, d2, l),
         Sem!Holder(p) \/ m3[2] = 0,
         m3'[2] = IF Sem!Holder(p)' THEN 1 ELSE 0, Sem!CountOK',
         Sem!AdjOK(p)', Sem!IdOK(p)', Sem!HeldOK(p)'
  PROVE  Sem!IInv'
<1>1. Sem!TypeOK' /\ Sem!Go(p, l) /\ UNCHANGED <<m1, m6>>
  BY SemDidType DEF Sem!Did
<1>2. \A q \in Proc : q # p => ~Sem!Holder(q) /\ m4'[q] = m4[q]
  BY DEF Sem!IInv, Sem!LockOK, Sem!Did
<1>3. \A q \in Proc : q # p => ~Sem!Holder(q)'
  BY <1>1, <1>2, SemMoved DEF Sem!IInv
<1>4. Sem!LockOK'
  BY <1>3 DEF Sem!LockOK
<1>5. ASSUME NEW q \in Proc, q # p PROVE Sem!AdjOK(q)' /\ Sem!IdOK(q)' /\ Sem!HeldOK(q)'
  BY <1>1, <1>2, <1>3, <1>5, SemOther, SemNotHeld
<1> QED BY <1>1, <1>4, <1>5 DEF Sem!IInv

\* The end of a process: the kernel gives back what it had.
LEMMA SemExit == ASSUME Sem!IInv, NEW p \in Proc, NEW l \in {"dead", "done", "failed"}, Sem!Exit(p, l) PROVE Sem!IInv'
<1>1. Sem!Go(p, l) /\ UNCHANGED <<m1, m2, m6>>
  BY DEF Sem!Exit
<1>2. /\ m5' = [q \in Proc |-> m5'[q]] /\ m5'[p] = l
      /\ \A q \in Proc : q # p => /\ m5'[q] = m5[q]
                                  /\ Sem!Holder(q)' <=> Sem!Holder(q)
                                  /\ q \in Sem!Users' <=> q \in Sem!Users
                                  /\ q \in Sem!Waited' <=> q \in Sem!Waited
  BY <1>1, SemMoved DEF Sem!IInv
<1>3. p \notin Sem!Users' /\ p \notin Sem!Waited' /\ ~Sem!Holder(p)'
  BY <1>2 DEF Sem!Users, Sem!Using, Sem!InUse, Sem!Waited, Sem!Holder
<1>4. Sem!Users' = Sem!Users \ {p} /\ Sem!Waited' = Sem!Waited \ {p}
  BY <1>2, <1>3 DEF Sem!Users, Sem!Waited
<1>5. Sem!AdjOK(p) /\ Sem!IdOK(p) /\ m3[0] \in Nat /\ m3[1] \in Nat /\ m3[2] \in Nat
  BY DEF Sem!IInv, Sem!TypeOK, Sem!Member
<1>6. Sem!Holder(p) => m3[2] = 1
  BY DEF Sem!IInv, Sem!LockOK
<1>7. /\ m3'[0] = m3[0] + m4[p][0] /\ m3'[1] = m3[1] + m4[p][1] /\ m3'[2] = m3[2] + m4[p][2]
      /\ m3' \in [Sem!Member -> Nat]
  <2>1. CASE m6[p] # m1
    <3>1. m4[p][0] = 0 /\ m4[p][1] = 0 /\ m4[p][2] = 0
      BY <1>5, <2>1 DEF Sem!AdjOK, Sem!IdOK, Sem!Users, Sem!Waited, Sem!Using
    <3> QED BY <2>1, <3>1, <1>5 DEF Sem!Exit, Sem!IInv, Sem!TypeOK
  <2>2. CASE m6[p] = m1
    <3>1. m3' = [k \in Sem!Member |-> IF m3[k] + m4[p][k] < 0 THEN 0 ELSE m3[k] + m4[p][k]]
      BY <2>2 DEF Sem!Exit
    <3>2. \A k \in Sem!Member : m3[k] + m4[p][k] \in Int
      BY DEF Sem!IInv, Sem!TypeOK
    <3>3. m3' \in [Sem!Member -> Nat]
      BY <3>1, <3>2
    <3>4. m3[0] + m4[p][0] >= 0 /\ m3[1] + m4[p][1] >= 0 /\ m3[2] + m4[p][2] >= 0
      BY <1>5, <1>6 DEF Sem!AdjOK
    <3> QED BY <3>1, <3>2, <3>3, <3>4 DEF Sem!Member
  <2> QED BY <2>1, <2>2
<1>8. /\ m4' \in [Proc -> [Sem!Member -> Int]] /\ \A q \in Proc : q # p => m4'[q] = m4[q]
      /\ m4'[p][0] = 0 /\ m4'[p][1] = 0 /\ m4'[p][2] = 0
  BY DEF Sem!Exit, Sem!Zero, Sem!Member, Sem!IInv, Sem!TypeOK
<1>9. Sem!TypeOK'
  BY <1>1, <1>2, <1>7, <1>8 DEF Sem!IInv, Sem!TypeOK
<1>10. Sem!LockOK'
  <2>1. \A q, r \in Proc : Sem!Holder(q)' /\ Sem!Holder(r)' => q = r
    BY <1>2, <1>3 DEF Sem!IInv, Sem!LockOK
  <2>2. CASE Sem!Holder(p)
    <3>1. \A q \in Proc : ~Sem!Holder(q)'
      BY <2>2, <1>2, <1>3 DEF Sem!IInv, Sem!LockOK
    <3> QED BY <2>1, <2>2, <3>1, <1>5, <1>6, <1>7 DEF Sem!LockOK, Sem!AdjOK
  <2>3. CASE ~Sem!Holder(p)
    <3>1. (\E q \in Proc : Sem!Holder(q)') <=> (\E q \in Proc : Sem!Holder(q))
      BY <2>3, <1>2, <1>3
    <3> QED BY <2>1, <2>3, <3>1, <1>5, <1>7 DEF Sem!LockOK, Sem!AdjOK, Sem!IInv
  <2> QED BY <2>2, <2>3
<1>11. Sem!CountOK'
  <2>1. CASE p \in Sem!Users
    <3>1. Cardinality(Sem!Users') = Cardinality(Sem!Users) - 1
      BY <1>4, <2>1, SemFinite, FS_RemoveElement
    <3>2. m3'[1] = m3[1] + 1
      BY <2>1, <1>5, <1>7 DEF Sem!AdjOK
    <3>3. m3'[0] - m3[0] = Cardinality(Sem!Waited) - Cardinality(Sem!Waited')
      <4>1. CASE p \in Sem!Waited
        <5>1. Cardinality(Sem!Waited') = Cardinality(Sem!Waited) - 1
          BY <1>4, <4>1, SemFinite, FS_RemoveElement
        <5> QED BY <4>1, <5>1, <1>5, <1>7, SemFinite DEF Sem!AdjOK
      <4>2. CASE p \notin Sem!Waited
        <5>1. Sem!Waited' = Sem!Waited
          BY <1>4, <4>2
        <5> QED BY <4>2, <5>1, <1>5, <1>7, SemFinite DEF Sem!AdjOK
      <4> QED BY <4>1, <4>2
    <3>4. m3[1] = BIGCOUNT - Cardinality(Sem!Users) /\ m3[0] = initval - Cardinality(Sem!Waited)
      BY <2>1, SemCard DEF Sem!IInv, Sem!CountOK
    <3>5. Cardinality(Sem!Waited') \in Nat
      BY <1>4, SemFinite, FS_Subset, FS_CardinalityType
    <3>6. m3'[1] = BIGCOUNT - Cardinality(Sem!Users') /\ m3'[0] = initval - Cardinality(Sem!Waited')
      BY <3>1, <3>2, <3>3, <3>4, <3>5, <1>5, <1>7, SemFinite, SemAssumption DEF Sem!Member
    <3> QED BY <3>6, SemCard DEF Sem!CountOK
  <2>2. CASE p \notin Sem!Users
    <3>1. p \notin Sem!Waited /\ Sem!Users' = Sem!Users /\ Sem!Waited' = Sem!Waited
      BY <1>4, <2>2, SemFinite
    <3>2. m3'[1] = m3[1] /\ m3'[0] = m3[0]
      BY <2>2, <3>1, <1>5, <1>7 DEF Sem!AdjOK
    <3> QED BY <3>1, <3>2 DEF Sem!IInv, Sem!CountOK
  <2> QED BY <2>1, <2>2
<1>12. ASSUME NEW q \in Proc PROVE Sem!AdjOK(q)' /\ Sem!IdOK(q)' /\ Sem!HeldOK(q)'
  <2>1. CASE q = p
    <3>1. Sem!AdjOK(p)'
      BY <1>3, <1>8 DEF Sem!AdjOK
    <3>2. Sem!IdOK(p)'
      BY <1>2, <1>3 DEF Sem!IdOK, Sem!InUse
    <3> QED BY <2>1, <3>1, <3>2, <1>3, SemNotHeld
  <2>2. CASE q # p
    <3>1. Sem!AdjOK(q)' /\ Sem!IdOK(q)'
      BY <1>1, <1>8, <2>2, SemOther
    <3>2. m5'[q] = m5[q] /\ Sem!HeldOK(q)
      BY <1>2, <2>2 DEF Sem!IInv
    <3>3. Sem!Users' \subseteq Sem!Users
      BY <1>4
    <3>4. CASE p \in Sem!Users
      <4>1. m3'[1] = m3[1] + 1
        BY <3>4, <1>5, <1>7 DEF Sem!AdjOK
      <4> QED BY <3>1, <3>2, <3>3, <3>4, <4>1, <1>5 DEF Sem!HeldOK
    <3>5. CASE p \notin Sem!Users
      <4>1. m3'[1] = m3[1] /\ m3'[0] = m3[0]
        BY <3>5, <1>5, <1>7, SemFinite DEF Sem!AdjOK
      <4> QED BY <3>1, <3>2, <3>3, <4>1 DEF Sem!HeldOK
    <3> QED BY <3>4, <3>5
  <2> QED BY <2>1, <2>2
<1> QED BY <1>9, <1>10, <1>11, <1>12 DEF Sem!IInv

LEMMA SemLock == ASSUME Sem!IInv, NEW p \in Proc, Sem!Lock(p) PROVE Sem!IInv'
<1>1. m5[p] = "lock" /\ Sem!AdjOK(p) /\ Sem!IdOK(p)
  BY DEF Sem!Lock, Sem!IInv
<1>2. CASE Sem!semop(p, Sem!op_lock, "count")
  <2>1. CASE UNCHANGED <<m1, m2, m3, m4, m5, m6>>
    BY <2>1, SemStill
  <2>2. CASE Sem!Did(p, 0, 0, 1, "count") /\ m3[2] = 0
    <3>1. Sem!Go(p, "count") /\ UNCHANGED <<m1, m6>>
      BY <2>2 DEF Sem!Did
    <3>2. m5'[p] = "count" /\ Sem!Holder(p)'
      BY <3>1, SemMoved DEF Sem!IInv, Sem!Holder
    <3>3. p \notin Sem!Users /\ p \notin Sem!Users' /\ p \notin Sem!Waited /\ p \notin Sem!Waited' /\ ~Sem!Holder(p)
      BY <1>1, <3>2 DEF Sem!Users, Sem!Using, Sem!InUse, Sem!Waited, Sem!Holder
    <3>4. Sem!Users' = Sem!Users /\ Sem!Waited' = Sem!Waited
      BY <3>1, <3>3, SemMoved DEF Sem!IInv, Sem!Users, Sem!Waited
    <3>5. m3'[0] = m3[0] /\ m3'[1] = m3[1] /\ m3'[2] = 1
      BY <2>2 DEF Sem!Did, Sem!IInv, Sem!TypeOK, Sem!Member
    <3>6. Sem!CountOK'
      BY <3>4, <3>5 DEF Sem!IInv, Sem!CountOK
    <3>7. m4'[p][0] = 0 /\ m4'[p][1] = 0 /\ m4'[p][2] = -1
      BY <1>1, <2>2, <3>3 DEF Sem!Did, Sem!AdjOK
    <3>8. Sem!AdjOK(p)'
      BY <3>2, <3>3, <3>7 DEF Sem!AdjOK
    <3>9. m6[p] = m1
      BY <1>2 DEF Sem!semop
    <3>10. Sem!IdOK(p)' /\ Sem!HeldOK(p)'
      BY <1>1, <3>1, <3>2, <3>9 DEF Sem!IdOK, Sem!HeldOK, Sem!InUse
    <3> QED BY <2>2, <3>2, <3>5, <3>6, <3>8, <3>10, SemLocked
  <2>3. \/ UNCHANGED <<m1, m2, m3, m4, m5, m6>>
        \/ Sem!Did(p, 0, 0, 1, "count") /\ m3[2] = 0
    BY <1>2, SemSemop, SemOps DEF Sem!IInv
  <2> QED BY <2>1, <2>2, <2>3
<1>3. CASE Sem!EINVAL(p) /\ Sem!Go(p, "get") /\ UNCHANGED <<m1, m2, m3, m4, m6>>
  <2>1. m5'[p] = "get"
    BY <1>3, SemMoved DEF Sem!IInv
  <2>2. /\ ~Sem!Holder(p) /\ ~Sem!Holder(p)'
        /\ p \notin Sem!Users /\ p \notin Sem!Users' /\ p \notin Sem!Waited /\ p \notin Sem!Waited'
    BY <1>1, <2>1 DEF Sem!Users, Sem!Using, Sem!InUse, Sem!Waited, Sem!Holder
  <2>3. Sem!IdOK(p)' /\ Sem!HeldOK(p)'
    BY <2>1, <2>2 DEF Sem!IdOK, Sem!HeldOK, Sem!InUse
  <2> QED BY <1>3, <2>2, <2>3, SemQuiet
<1>4. CASE Sem!err_sys(p)
  BY <1>4, SemExit DEF Sem!err_sys
<1> QED BY <1>2, <1>3, <1>4 DEF Sem!Lock

LEMMA SemGet == ASSUME Sem!IInv, NEW p \in Proc, Sem!semget(p) PROVE Sem!IInv'
<1>1. m5[p] = "get" /\ Sem!Go(p, "lock")
  BY DEF Sem!semget
<1>2. /\ m5' = [q \in Proc |-> m5'[q]] /\ m5'[p] = "lock"
      /\ \A q \in Proc : q # p => m5'[q] = m5[q]
  BY <1>1 DEF Sem!Go, Sem!IInv, Sem!TypeOK
<1>3. m6' = [m6 EXCEPT ![p] = m1']
  BY DEF Sem!semget
<1>4. p \notin Sem!Users /\ p \notin Sem!Users' /\ p \notin Sem!Waited /\ p \notin Sem!Waited' /\ ~Sem!Holder(p) /\ ~Sem!Holder(p)'
  BY <1>1, <1>2 DEF Sem!Users, Sem!Using, Sem!InUse, Sem!Waited, Sem!Holder
<1>5. CASE m1 # 0
  <2>1. UNCHANGED <<m1, m2, m3, m4>>
    BY <1>5 DEF Sem!semget
  <2>2. m6' \in [Proc -> Nat] /\ m6'[p] = m1 /\ \A q \in Proc : q # p => m6'[q] = m6[q]
    BY <1>3, <2>1 DEF Sem!IInv, Sem!TypeOK
  <2>3. Sem!Users' = Sem!Users /\ Sem!Waited' = Sem!Waited /\ \A q \in Proc : Sem!Holder(q)' <=> Sem!Holder(q)
    BY <1>2, <1>4, <2>1, <2>2 DEF Sem!Users, Sem!Waited, Sem!Using, Sem!InUse, Sem!Holder
  <2>4. Sem!TypeOK'
    BY <1>2, <2>1, <2>2 DEF Sem!IInv, Sem!TypeOK
  <2>5. Sem!LockOK' /\ Sem!CountOK'
    BY <2>1, <2>3 DEF Sem!IInv, Sem!LockOK, Sem!CountOK
  <2>6. ASSUME NEW q \in Proc PROVE Sem!AdjOK(q)' /\ Sem!IdOK(q)' /\ Sem!HeldOK(q)'
    <3>1. Sem!AdjOK(q)'
      BY <2>1, <2>3 DEF Sem!IInv, Sem!AdjOK
    <3>2. Sem!IdOK(q)' /\ Sem!HeldOK(q)'
      BY <1>2, <1>5, <2>1, <2>2, <2>3 DEF Sem!IInv, Sem!IdOK, Sem!HeldOK, Sem!InUse, Sem!Holder
    <3> QED BY <3>1, <3>2
  <2> QED BY <2>4, <2>5, <2>6 DEF Sem!IInv
<1>6. CASE m1 = 0
  <2>1. m2' = m2 + 1 /\ m1' = m2 + 1 /\ m3' = Sem!Zero /\ m4' = [q \in Proc |-> Sem!Zero]
    BY <1>6 DEF Sem!semget
  <2>2. m2 \in Nat /\ \A q \in Proc : m6[q] \in Nat /\ m6[q] <= m2
    BY DEF Sem!IInv, Sem!TypeOK
  <2>3. m6' \in [Proc -> Nat] /\ m6'[p] = m2 + 1 /\ \A q \in Proc : q # p => m6'[q] = m6[q]
    BY <1>3, <2>1, <2>2 DEF Sem!IInv, Sem!TypeOK
  <2>4. Sem!Users' = {} /\ Sem!Waited' = {}
    BY <1>2, <1>4, <2>1, <2>2, <2>3 DEF Sem!Users, Sem!Waited, Sem!Using, Sem!InUse
  <2>5. \A q \in Proc : ~Sem!Holder(q)'
    BY <1>2, <1>4, <1>6 DEF Sem!IInv, Sem!IdOK, Sem!Holder
  <2>6. Sem!TypeOK'
    <3>1. m3' \in [Sem!Member -> Nat] /\ m4' \in [Proc -> [Sem!Member -> Int]]
      BY <2>1 DEF Sem!Zero
    <3> QED BY <1>2, <2>1, <2>2, <2>3, <3>1 DEF Sem!TypeOK
  <2>7. Sem!LockOK' /\ Sem!CountOK'
    BY <2>1, <2>4, <2>5 DEF Sem!LockOK, Sem!CountOK, Sem!Zero, Sem!Member
  <2>8. ASSUME NEW q \in Proc PROVE Sem!AdjOK(q)' /\ Sem!IdOK(q)' /\ Sem!HeldOK(q)'
    <3>1. Sem!AdjOK(q)'
      BY <2>1, <2>4, <2>5 DEF Sem!AdjOK, Sem!Zero, Sem!Member
    <3>2. Sem!HeldOK(q)'
      BY <2>5, SemNotHeld
    <3>3. CASE q = p
      BY <1>2, <2>2, <2>3, <2>5, <3>1, <3>2, <3>3 DEF Sem!IdOK, Sem!InUse
    <3>4. CASE q # p
      <4>1. Sem!IdOK(q) /\ m5'[q] = m5[q] /\ m6'[q] = m6[q]
        BY <1>2, <2>3, <3>4 DEF Sem!IInv
      <4> QED BY <1>6, <2>5, <3>1, <3>2, <4>1 DEF Sem!IdOK, Sem!InUse
    <3> QED BY <3>3, <3>4
  <2> QED BY <2>6, <2>7, <2>8 DEF Sem!IInv
<1> QED BY <1>5, <1>6

\* A SETVAL by the holder while nobody uses the set.
LEMMA SemSetVal ==
  ASSUME Sem!IInv, NEW p \in Proc, NEW k \in {0, 1}, NEW v \in Nat, NEW l, Sem!SetVal(k, v), Sem!Go(p, l),
         UNCHANGED <<m1, m2, m6>>, Sem!Users = {}, Sem!Holder(p), l \in {"set1", "endcreate"}
  PROVE  /\ Sem!TypeOK' /\ Sem!LockOK' /\ Sem!Users' = {} /\ Sem!Waited' = {}
         /\ \A q \in Proc : Sem!AdjOK(q)' /\ Sem!IdOK(q)' /\ (q # p => Sem!HeldOK(q)')
         /\ m3'[k] = v /\ \A j \in Sem!Member : j # k => m3'[j] = m3[j]
         /\ m5'[p] = l
<1>1. /\ m5' = [q \in Proc |-> m5'[q]] /\ m5'[p] = l
      /\ \A q \in Proc : q # p => /\ m5'[q] = m5[q]
                                  /\ Sem!Holder(q)' <=> Sem!Holder(q)
                                  /\ q \in Sem!Users' <=> q \in Sem!Users
                                  /\ q \in Sem!Waited' <=> q \in Sem!Waited
  BY SemMoved DEF Sem!IInv
<1>2. Sem!Holder(p)' /\ p \notin Sem!Users' /\ p \notin Sem!Waited' 
  BY <1>1 DEF Sem!Holder, Sem!Users, Sem!Waited, Sem!Using, Sem!InUse
<1>3. Sem!Waited = {}
  BY SemFinite
<1>4. Sem!Users' = {} /\ Sem!Waited' = {}
  BY <1>1, <1>2, <1>3 DEF Sem!Users, Sem!Waited
<1>5. k \in Sem!Member /\ m3' \in [Sem!Member -> Nat] /\ m3'[k] = v /\ \A j \in Sem!Member : j # k => m3'[j] = m3[j]
  BY DEF Sem!SetVal, Sem!Member, Sem!IInv, Sem!TypeOK
<1>6. \A q \in Proc : m4[q] \in [Sem!Member -> Int] /\ m4[q][0] = 0 /\ m4[q][1] = 0
  BY <1>3 DEF Sem!IInv, Sem!TypeOK, Sem!AdjOK
<1>7. \A q \in Proc : m4'[q] = m4[q] /\ m4'[q] \in [Sem!Member -> Int]
  <2> TAKE q \in Proc
  <2>1. m4'[q] = [m4[q] EXCEPT ![k] = 0]
    BY DEF Sem!SetVal
  <2>2. m4[q] \in [Sem!Member -> Int] /\ m4[q][k] = 0
    BY <1>6
  <2> QED BY <2>1, <2>2
<1>8. m4' \in [Proc -> [Sem!Member -> Int]]
  BY <1>7 DEF Sem!SetVal
<1>9. Sem!TypeOK'
  BY <1>1, <1>5, <1>8 DEF Sem!IInv, Sem!TypeOK
<1>10. m3'[2] = m3[2]
  BY <1>5 DEF Sem!Member
<1>11. Sem!LockOK'
  BY <1>1, <1>2, <1>10 DEF Sem!IInv, Sem!LockOK
<1>12. \A q \in Proc : q # p => ~Sem!Holder(q)'
  BY <1>1, <1>2 DEF Sem!IInv, Sem!LockOK
<1>13. \A q \in Proc : q # p => Sem!HeldOK(q)'
  BY <1>12, SemNotHeld
<1>14. \A q \in Proc : Sem!AdjOK(q)'
  BY <1>1, <1>2, <1>3, <1>4, <1>7 DEF Sem!IInv, Sem!AdjOK
<1>15. \A q \in Proc : Sem!IdOK(q)'
  BY <1>1, <1>2 DEF Sem!IInv, Sem!IdOK, Sem!InUse
<1> QED BY <1>1, <1>4, <1>5, <1>9, <1>11, <1>13, <1>14, <1>15

LEMMA SemInitialise == ASSUME Sem!IInv, NEW p \in Proc, Sem!Initialise(p) PROVE Sem!IInv'
<1>0. Sem!IdOK(p) /\ Sem!HeldOK(p)
  BY DEF Sem!IInv
<1>1. CASE m5[p] = "count" /\ Sem!Go(p, IF m3[1] = 0 THEN "set0" ELSE "endcreate") /\ UNCHANGED <<m1, m2, m3, m4, m6>>
  <2>1. m5'[p] = IF m3[1] = 0 THEN "set0" ELSE "endcreate"
    BY <1>1, SemMoved DEF Sem!IInv
  <2>2. /\ Sem!Holder(p) /\ Sem!Holder(p)'
        /\ p \notin Sem!Users /\ p \notin Sem!Users' /\ p \notin Sem!Waited /\ p \notin Sem!Waited'
    BY <1>1, <2>1 DEF Sem!Users, Sem!Using, Sem!InUse, Sem!Waited, Sem!Holder
  <2>3. Sem!Users' = Sem!Users
    BY <1>1, <2>2, SemMoved DEF Sem!IInv, Sem!Users
  <2>4. m3[1] = 0 => Sem!Users = {}
    <3>1. Sem!Users # {} => m3[1] = BIGCOUNT - Cardinality(Sem!Users)
      BY SemCard DEF Sem!IInv, Sem!CountOK
    <3>2. Cardinality(Sem!Users) < BIGCOUNT /\ Cardinality(Sem!Users) \in Nat
      BY <2>2, SemFinite
    <3> QED BY <3>1, <3>2, SemAssumption
  <2>5. Sem!HeldOK(p)'
    BY <1>1, <2>1, <2>3, <2>4 DEF Sem!HeldOK
  <2>6. Sem!IdOK(p)'
    BY <1>0, <1>1, <2>1, <2>2 DEF Sem!IdOK, Sem!InUse
  <2> QED BY <1>1, <2>2, <2>5, <2>6, SemQuiet
<1>2. CASE m5[p] = "set0" /\ Sem!SetVal(0, initval) /\ Sem!Go(p, "set1") /\ UNCHANGED <<m1, m2, m6>>
  <2>1. Sem!Users = {} /\ m3[1] = 0 /\ Sem!Holder(p)
    BY <1>0, <1>2 DEF Sem!HeldOK, Sem!Holder
  <2>2. /\ Sem!TypeOK' /\ Sem!LockOK' /\ Sem!Users' = {} /\ Sem!Waited' = {}
        /\ \A q \in Proc : Sem!AdjOK(q)' /\ Sem!IdOK(q)' /\ (q # p => Sem!HeldOK(q)')
        /\ m3'[0] = initval /\ \A j \in Sem!Member : j # 0 => m3'[j] = m3[j]
        /\ m5'[p] = "set1"
    BY <1>2, <2>1, SemSetVal, SemAssumption
  <2>3. m3'[1] = 0
    BY <2>1, <2>2 DEF Sem!Member
  <2>4. Sem!HeldOK(p)' /\ Sem!CountOK'
    BY <2>2, <2>3 DEF Sem!HeldOK, Sem!CountOK
  <2> QED BY <2>2, <2>4 DEF Sem!IInv
<1>3. CASE m5[p] = "set1" /\ Sem!SetVal(1, BIGCOUNT) /\ Sem!Go(p, "endcreate") /\ UNCHANGED <<m1, m2, m6>>
  <2>1. Sem!Users = {} /\ m3[0] = initval /\ Sem!Holder(p)
    BY <1>0, <1>3 DEF Sem!HeldOK, Sem!Holder
  <2>2. /\ Sem!TypeOK' /\ Sem!LockOK' /\ Sem!Users' = {} /\ Sem!Waited' = {}
        /\ \A q \in Proc : Sem!AdjOK(q)' /\ Sem!IdOK(q)' /\ (q # p => Sem!HeldOK(q)')
        /\ m3'[1] = BIGCOUNT /\ \A j \in Sem!Member : j # 1 => m3'[j] = m3[j]
        /\ m5'[p] = "endcreate"
    BY <1>3, <2>1, SemSetVal, SemAssumption
  <2>3. m3'[0] = initval
    BY <2>1, <2>2 DEF Sem!Member
  <2>4. Sem!HeldOK(p)' 
    BY <2>2, SemAssumption DEF Sem!HeldOK
  <2>5. Sem!CountOK'
    BY <2>2, <2>3, SemCard, FS_EmptySet, SemAssumption DEF Sem!CountOK
  <2> QED BY <2>2, <2>4, <2>5 DEF Sem!IInv
<1> QED BY <1>1, <1>2, <1>3 DEF Sem!Initialise

LEMMA SemEndCreate == ASSUME Sem!IInv, NEW p \in Proc, Sem!EndCreate(p) PROVE Sem!IInv'
<1>1. m5[p] = "endcreate" /\ Sem!AdjOK(p) /\ Sem!IdOK(p) /\ Sem!HeldOK(p) /\ Sem!Holder(p)
  BY DEF Sem!EndCreate, Sem!IInv, Sem!Holder
<1>2. CASE UNCHANGED <<m1, m2, m3, m4, m5, m6>>
  BY <1>2, SemStill
<1>3. CASE Sem!Did(p, 0, -1, -1, "idle")
  <2>1. Sem!Go(p, "idle") /\ UNCHANGED <<m1, m6>>
    BY <1>3 DEF Sem!Did
  <2>2. m5'[p] = "idle" /\ ~Sem!Holder(p)'
    BY <2>1, SemMoved DEF Sem!IInv, Sem!Holder
  <2>3. p \notin Sem!Users /\ p \in Sem!Users' /\ p \notin Sem!Waited /\ p \notin Sem!Waited' /\ m6[p] = m1 /\ m1 # 0
    BY <1>1, <2>1, <2>2 DEF Sem!Users, Sem!Using, Sem!InUse, Sem!Waited, Sem!Holder, Sem!IdOK
  <2>4. Sem!Users' = Sem!Users \cup {p} /\ Sem!Waited' = Sem!Waited
    BY <2>1, <2>3, SemMoved DEF Sem!IInv, Sem!Users, Sem!Waited
  <2>5. m3[2] = 1 /\ m3[1] # 0 /\ m3[0] \in Nat /\ m3[1] \in Nat
    BY <1>1 DEF Sem!IInv, Sem!LockOK, Sem!HeldOK, Sem!TypeOK, Sem!Member
  <2>6. m3'[0] = m3[0] /\ m3'[1] = m3[1] - 1 /\ m3'[2] = 0
    BY <1>3, <2>5 DEF Sem!Did
  <2>7. Sem!CountOK'
    <3>1. Cardinality(Sem!Users') = Cardinality(Sem!Users) + 1
      BY <2>3, <2>4, SemFinite, FS_AddElement
    <3>2. m3[1] = BIGCOUNT - Cardinality(Sem!Users) /\ m3[0] = initval - Cardinality(Sem!Waited)
      BY <2>5, SemCard DEF Sem!IInv, Sem!CountOK
    <3>3. m3'[1] = BIGCOUNT - Cardinality(Sem!Users') /\ m3'[0] = initval - Cardinality(Sem!Waited')
      BY <3>1, <3>2, <2>4, <2>6, SemFinite, SemAssumption
    <3> QED BY <3>3, SemCard DEF Sem!CountOK
  <2>8. Sem!AdjOK(p)'
    <3>1. m4'[p][0] = 0 /\ m4'[p][1] = 1 /\ m4'[p][2] = 0
      BY <1>1, <1>3, <2>3 DEF Sem!Did, Sem!AdjOK
    <3> QED BY <3>1, <2>2, <2>3 DEF Sem!AdjOK
  <2>9. Sem!IdOK(p)' /\ Sem!HeldOK(p)'
    BY <2>1, <2>2, <2>3, SemNotHeld DEF Sem!IdOK
  <2> QED BY <1>1, <1>3, <2>2, <2>6, <2>7, <2>8, <2>9, SemLocked
<1> QED BY <1>2, <1>3, SemSemop, SemOps DEF Sem!EndCreate, Sem!IInv

\* A semop without the lock by a process that uses the set or begins to.
LEMMA SemUnlocked ==
  ASSUME Sem!IInv, NEW p \in Proc, NEW d0, NEW d1, NEW l, Sem!Did(p, d0, d1, 0, l),
         ~Sem!Holder(p), ~Sem!Holder(p)', Sem!CountOK', Sem!AdjOK(p)', Sem!IdOK(p)',
         \A q \in Proc : q # p => Sem!HeldOK(q)'
  PROVE  Sem!IInv'
<1>1. Sem!TypeOK' /\ Sem!Go(p, l) /\ UNCHANGED <<m1, m6>>
  BY SemDidType DEF Sem!Did
<1>2. \A q \in Proc : Sem!Holder(q)' <=> Sem!Holder(q)
  BY <1>1, SemMoved DEF Sem!IInv
<1>3. m3'[2] = m3[2]
  BY DEF Sem!Did, Sem!IInv, Sem!TypeOK, Sem!Member
<1>4. Sem!LockOK'
  BY <1>2, <1>3 DEF Sem!LockOK, Sem!IInv
<1>5. ASSUME NEW q \in Proc, q # p PROVE Sem!AdjOK(q)' /\ Sem!IdOK(q)'
  BY <1>1, <1>5, SemOther DEF Sem!Did
<1>6. Sem!HeldOK(p)'
  BY SemNotHeld
<1> QED BY <1>1, <1>4, <1>5, <1>6 DEF Sem!IInv

LEMMA SemNextFinite ==
  /\ Cardinality(Sem!Users') \in Nat
  /\ \A p \in Proc : p \notin Sem!Users' => Cardinality(Sem!Users') < BIGCOUNT
<1>1. Sem!Users' \subseteq Proc
  BY DEF Sem!Users
<1>2. IsFiniteSet(Sem!Users') /\ Cardinality(Sem!Users') \in Nat
  BY <1>1, SemAssumption, FS_Subset, FS_CardinalityType
<1>3. ASSUME NEW p \in Proc, p \notin Sem!Users' PROVE Cardinality(Sem!Users') < BIGCOUNT
  <2>1. Cardinality(Sem!Users' \cup {p}) = Cardinality(Sem!Users') + 1
    BY <1>2, <1>3, FS_AddElement
  <2>2. Cardinality(Sem!Users' \cup {p}) <= Cardinality(Proc)
    BY <1>1, SemAssumption, FS_Subset
  <2>3. Cardinality(Proc) \in Nat
    BY SemAssumption, FS_CardinalityType
  <2> QED BY <1>2, <2>1, <2>2, <2>3, SemAssumption
<1> QED BY <1>2, <1>3

LEMMA SemOpen == ASSUME Sem!IInv, NEW p \in Proc, Sem!sem_open(p) PROVE Sem!IInv'
<1>0. Sem!AdjOK(p) /\ Sem!IdOK(p)
  BY DEF Sem!IInv
<1>1. CASE m5[p] = "find" /\ m1 = 0 /\ Sem!Go(p, "failed") /\ UNCHANGED <<m1, m2, m3, m4, m6>>
  <2>1. m5'[p] = "failed"
    BY <1>1, SemMoved DEF Sem!IInv
  <2>2. /\ ~Sem!Holder(p) /\ ~Sem!Holder(p)'
        /\ p \notin Sem!Users /\ p \notin Sem!Users' /\ p \notin Sem!Waited /\ p \notin Sem!Waited'
    BY <1>1, <2>1 DEF Sem!Users, Sem!Using, Sem!InUse, Sem!Waited, Sem!Holder
  <2>3. Sem!IdOK(p)' /\ Sem!HeldOK(p)'
    BY <2>1, <2>2, SemNotHeld DEF Sem!IdOK, Sem!InUse
  <2> QED BY <1>1, <2>2, <2>3, SemQuiet
<1>2. CASE /\ m5[p] = "find" /\ m1 # 0 /\ Sem!Go(p, "open") /\ m6' = [m6 EXCEPT ![p] = m1]
           /\ UNCHANGED <<m1, m2, m3, m4>>
  <2>1. /\ m5' = [q \in Proc |-> m5'[q]] /\ m5'[p] = "open"
        /\ \A q \in Proc : q # p => m5'[q] = m5[q]
    BY <1>2 DEF Sem!Go, Sem!IInv, Sem!TypeOK
  <2>2. m6' \in [Proc -> Nat] /\ m6'[p] = m1 /\ \A q \in Proc : q # p => m6'[q] = m6[q]
    BY <1>2 DEF Sem!IInv, Sem!TypeOK
  <2>3. p \notin Sem!Users /\ p \notin Sem!Users' /\ p \notin Sem!Waited /\ p \notin Sem!Waited' /\ ~Sem!Holder(p) /\ ~Sem!Holder(p)'
    BY <1>2, <2>1 DEF Sem!Users, Sem!Using, Sem!InUse, Sem!Waited, Sem!Holder
  <2>4. Sem!Users' = Sem!Users /\ Sem!Waited' = Sem!Waited /\ \A q \in Proc : Sem!Holder(q)' <=> Sem!Holder(q)
    BY <1>2, <2>1, <2>2, <2>3 DEF Sem!Users, Sem!Waited, Sem!Using, Sem!InUse, Sem!Holder
  <2>5. Sem!TypeOK'
    BY <1>2, <2>1, <2>2 DEF Sem!IInv, Sem!TypeOK
  <2>6. Sem!LockOK' /\ Sem!CountOK'
    BY <1>2, <2>4 DEF Sem!IInv, Sem!LockOK, Sem!CountOK
  <2>7. ASSUME NEW q \in Proc PROVE Sem!AdjOK(q)' /\ Sem!IdOK(q)' /\ Sem!HeldOK(q)'
    <3>1. Sem!AdjOK(q)'
      BY <1>2, <2>4 DEF Sem!IInv, Sem!AdjOK
    <3>2. CASE q = p
      BY <1>0, <1>2, <2>1, <2>2, <2>3, <3>1, <3>2, SemNotHeld DEF Sem!IdOK, Sem!InUse
    <3>3. CASE q # p
      <4>1. Sem!IdOK(q) /\ Sem!HeldOK(q) /\ m5'[q] = m5[q] /\ m6'[q] = m6[q]
        BY <2>1, <2>2, <3>3 DEF Sem!IInv
      <4> QED BY <1>2, <2>4, <3>1, <4>1 DEF Sem!IdOK, Sem!HeldOK, Sem!InUse
    <3> QED BY <3>2, <3>3
  <2> QED BY <2>5, <2>6, <2>7 DEF Sem!IInv
<1>3. CASE m5[p] = "open" /\ Sem!semop(p, Sem!op_open, "idle")
  <2>1. CASE UNCHANGED <<m1, m2, m3, m4, m5, m6>>
    BY <2>1, SemStill
  <2>2. CASE Sem!Did(p, 0, -1, 0, "idle")
    <3>1. Sem!Go(p, "idle") /\ UNCHANGED <<m1, m6>>
      BY <2>2 DEF Sem!Did
    <3>2. m5'[p] = "idle" /\ ~Sem!Holder(p)' /\ ~Sem!Holder(p)
      BY <1>3, <3>1, SemMoved DEF Sem!IInv, Sem!Holder
    <3>3. m6[p] = m1
      BY <1>3 DEF Sem!semop
    <3>4. p \notin Sem!Users /\ p \in Sem!Users' /\ p \notin Sem!Waited /\ p \notin Sem!Waited'
      BY <1>3, <3>1, <3>2, <3>3 DEF Sem!Users, Sem!Using, Sem!InUse, Sem!Waited
    <3>5. Sem!Users' = Sem!Users \cup {p} /\ Sem!Waited' = Sem!Waited
      BY <3>1, <3>4, SemMoved DEF Sem!IInv, Sem!Users, Sem!Waited
    <3>6. m3'[0] = m3[0] /\ m3'[1] = m3[1] - 1 /\ m3[1] # 0 /\ m3[0] \in Nat /\ m3[1] \in Nat
      BY <2>2 DEF Sem!Did, Sem!IInv, Sem!TypeOK, Sem!Member
    <3>7. m3[1] = BIGCOUNT - Cardinality(Sem!Users) /\ m3[0] = initval - Cardinality(Sem!Waited)
      BY <3>6, SemCard DEF Sem!IInv, Sem!CountOK
    <3>8. Cardinality(Sem!Users') = Cardinality(Sem!Users) + 1
      BY <3>4, <3>5, SemFinite, FS_AddElement
    <3>9. m3'[1] = BIGCOUNT - Cardinality(Sem!Users') /\ m3'[0] = initval - Cardinality(Sem!Waited')
      BY <3>5, <3>6, <3>7, <3>8, SemFinite, SemAssumption
    <3>10. Sem!CountOK'
      BY <3>9, SemCard DEF Sem!CountOK
    <3>11. Sem!AdjOK(p)'
      <4>1. m4'[p][0] = 0 /\ m4'[p][1] = 1 /\ m4'[p][2] = 0
        BY <1>0, <2>2, <3>2, <3>4 DEF Sem!Did, Sem!AdjOK
      <4> QED BY <4>1, <3>2, <3>4 DEF Sem!AdjOK
    <3>12. p \in Opener /\ Sem!IdOK(p)'
      BY <1>0, <1>3, <3>1, <3>2, <3>3 DEF Sem!IdOK
    <3>13. ASSUME NEW q \in Proc, q # p PROVE Sem!HeldOK(q)'
      <4>1. Sem!HeldOK(q) /\ m5'[q] = m5[q] /\ (q \in Sem!Users' <=> q \in Sem!Users)
        BY <3>1, <3>13, SemMoved DEF Sem!IInv
      <4>2. m5[q] \notin {"set0", "set1"}
        BY <3>6, <4>1 DEF Sem!HeldOK
      <4>3. m5[q] \in {"endcreate", "last", "remove", "unlock"} => m3'[1] # 0
        <5> SUFFICES ASSUME m5[q] \in {"endcreate", "last", "remove", "unlock"} PROVE m3'[1] # 0
          OBVIOUS
        <5>1. q \notin Sem!Users'
          BY <4>1 DEF Sem!Users, Sem!Using, Sem!InUse
        <5>2. Cardinality(Sem!Users') < BIGCOUNT /\ Cardinality(Sem!Users') \in Nat
          BY <5>1, SemNextFinite
        <5> QED BY <5>2, <3>9, SemAssumption
      <4> QED BY <4>1, <4>2, <4>3, <3>5, <3>12 DEF Sem!HeldOK
    <3> QED BY <2>2, <3>2, <3>10, <3>11, <3>12, <3>13, SemUnlocked
  <2> QED BY <1>3, <2>1, <2>2, SemSemop, SemOps DEF Sem!IInv
<1>4. CASE Sem!err_sys(p)
  BY <1>4, SemExit DEF Sem!err_sys
<1> QED BY <1>1, <1>2, <1>3, <1>4 DEF Sem!sem_open

LEMMA SemWait == ASSUME Sem!IInv, NEW p \in Proc, Sem!sem_wait(p) PROVE Sem!IInv'
<1>1. m5[p] = "idle" /\ Sem!AdjOK(p) /\ Sem!IdOK(p)
  BY DEF Sem!sem_wait, Sem!sem_op, Sem!IInv
<1>2. CASE Sem!err_sys(p)
  BY <1>2, SemExit DEF Sem!err_sys
<1>3. CASE Sem!semop(p, Sem!op_op(-1), "hold")
  <2>1. CASE UNCHANGED <<m1, m2, m3, m4, m5, m6>>
    BY <2>1, SemStill
  <2>2. CASE Sem!Did(p, -1, 0, 0, "hold")
    <3>1. Sem!Go(p, "hold") /\ UNCHANGED <<m1, m6>>
      BY <2>2 DEF Sem!Did
    <3>2. m5'[p] = "hold" /\ ~Sem!Holder(p)' /\ ~Sem!Holder(p)
      BY <1>1, <3>1, SemMoved DEF Sem!IInv, Sem!Holder
    <3>3. m6[p] = m1
      BY <1>3 DEF Sem!semop
    <3>4. p \in Sem!Users /\ p \in Sem!Users' /\ p \notin Sem!Waited /\ p \in Sem!Waited'
      BY <1>1, <3>1, <3>2, <3>3 DEF Sem!Users, Sem!Using, Sem!InUse, Sem!Waited
    <3>5. Sem!Users' = Sem!Users /\ Sem!Waited' = Sem!Waited \cup {p}
      BY <3>1, <3>4, SemMoved DEF Sem!IInv, Sem!Users, Sem!Waited
    <3>6. m3'[0] = m3[0] - 1 /\ m3'[1] = m3[1] /\ m3[0] \in Nat /\ m3[1] \in Nat
      BY <2>2 DEF Sem!Did, Sem!IInv, Sem!TypeOK, Sem!Member
    <3>7. m3[1] = BIGCOUNT - Cardinality(Sem!Users) /\ m3[0] = initval - Cardinality(Sem!Waited)
      BY <3>4, SemCard DEF Sem!IInv, Sem!CountOK
    <3>8. Cardinality(Sem!Waited') = Cardinality(Sem!Waited) + 1
      BY <3>4, <3>5, SemFinite, FS_AddElement
    <3>9. m3'[1] = BIGCOUNT - Cardinality(Sem!Users') /\ m3'[0] = initval - Cardinality(Sem!Waited')
      BY <3>5, <3>6, <3>7, <3>8, SemFinite, SemAssumption
    <3>10. Sem!CountOK'
      BY <3>9, SemCard DEF Sem!CountOK
    <3>11. Sem!AdjOK(p)'
      <4>1. m4'[p][0] = 1 /\ m4'[p][1] = 1 /\ m4'[p][2] = 0
        BY <1>1, <2>2, <3>2, <3>4 DEF Sem!Did, Sem!AdjOK
      <4> QED BY <4>1, <3>2, <3>4 DEF Sem!AdjOK
    <3>12. Sem!IdOK(p)'
      BY <1>1, <3>1, <3>2, <3>3 DEF Sem!IdOK, Sem!InUse
    <3>13. ASSUME NEW q \in Proc, q # p PROVE Sem!HeldOK(q)'
      BY <3>1, <3>4, <3>5, <3>6, <3>13, SemMoved DEF Sem!IInv, Sem!HeldOK
    <3> QED BY <2>2, <3>2, <3>10, <3>11, <3>12, <3>13, SemUnlocked
  <2>3. Sem!op_op(-1).add[0] = -1 /\ Sem!op_op(-1).add[1] = 0 /\ Sem!op_op(-1).add[2] = 0
    BY SemOpOp
  <2> QED BY <1>3, <2>1, <2>2, <2>3, SemSemop DEF Sem!IInv
<1> QED BY <1>2, <1>3 DEF Sem!sem_wait, Sem!sem_op

LEMMA SemSignal == ASSUME Sem!IInv, NEW p \in Proc, Sem!sem_signal(p) PROVE Sem!IInv'
<1>1. m5[p] = "hold" /\ Sem!AdjOK(p) /\ Sem!IdOK(p)
  BY DEF Sem!sem_signal, Sem!sem_op, Sem!IInv
<1>2. CASE Sem!err_sys(p)
  BY <1>2, SemExit DEF Sem!err_sys
<1>3. CASE Sem!semop(p, Sem!op_op(1), "spent")
  <2>1. CASE UNCHANGED <<m1, m2, m3, m4, m5, m6>>
    BY <2>1, SemStill
  <2>2. CASE Sem!Did(p, 1, 0, 0, "spent")
    <3>1. Sem!Go(p, "spent") /\ UNCHANGED <<m1, m6>>
      BY <2>2 DEF Sem!Did
    <3>2. m5'[p] = "spent" /\ ~Sem!Holder(p)' /\ ~Sem!Holder(p)
      BY <1>1, <3>1, SemMoved DEF Sem!IInv, Sem!Holder
    <3>3. m6[p] = m1
      BY <1>3 DEF Sem!semop
    <3>4. p \in Sem!Users /\ p \in Sem!Users' /\ p \in Sem!Waited /\ p \notin Sem!Waited'
      BY <1>1, <3>1, <3>2, <3>3 DEF Sem!Users, Sem!Using, Sem!InUse, Sem!Waited
    <3>5. Sem!Users' = Sem!Users /\ Sem!Waited' = Sem!Waited \ {p}
      BY <3>1, <3>4, SemMoved DEF Sem!IInv, Sem!Users, Sem!Waited
    <3>6. m3'[0] = m3[0] + 1 /\ m3'[1] = m3[1] /\ m3[0] \in Nat /\ m3[1] \in Nat
      BY <2>2 DEF Sem!Did, Sem!IInv, Sem!TypeOK, Sem!Member
    <3>7. m3[1] = BIGCOUNT - Cardinality(Sem!Users) /\ m3[0] = initval - Cardinality(Sem!Waited)
      BY <3>4, SemCard DEF Sem!IInv, Sem!CountOK
    <3>8. Cardinality(Sem!Waited') = Cardinality(Sem!Waited) - 1
      BY <3>4, <3>5, SemFinite, FS_RemoveElement
    <3>9. m3'[1] = BIGCOUNT - Cardinality(Sem!Users') /\ m3'[0] = initval - Cardinality(Sem!Waited')
      BY <3>5, <3>6, <3>7, <3>8, SemFinite, SemAssumption
    <3>10. Sem!CountOK'
      BY <3>9, SemCard DEF Sem!CountOK
    <3>11. Sem!AdjOK(p)'
      <4>1. m4'[p][0] = 0 /\ m4'[p][1] = 1 /\ m4'[p][2] = 0
        BY <1>1, <2>2, <3>2, <3>4 DEF Sem!Did, Sem!AdjOK
      <4> QED BY <4>1, <3>2, <3>4 DEF Sem!AdjOK
    <3>12. Sem!IdOK(p)'
      BY <1>1, <3>1, <3>2, <3>3 DEF Sem!IdOK, Sem!InUse
    <3>13. ASSUME NEW q \in Proc, q # p PROVE Sem!HeldOK(q)'
      BY <3>1, <3>4, <3>5, <3>6, <3>13, SemMoved DEF Sem!IInv, Sem!HeldOK
    <3> QED BY <2>2, <3>2, <3>10, <3>11, <3>12, <3>13, SemUnlocked
  <2>3. Sem!op_op(1).add[0] = 1 /\ Sem!op_op(1).add[1] = 0 /\ Sem!op_op(1).add[2] = 0
    BY SemOpOp
  <2> QED BY <1>3, <2>1, <2>2, <2>3, SemSemop DEF Sem!IInv
<1> QED BY <1>2, <1>3 DEF Sem!sem_signal, Sem!sem_op

LEMMA SemCountOut == ASSUME Sem!IInv, NEW p \in Proc, Sem!CountOut(p) PROVE Sem!IInv'
<1>1. m5[p] \in {"idle", "spent", "close"} /\ Sem!AdjOK(p) /\ Sem!IdOK(p)
  BY DEF Sem!CountOut, Sem!IInv
<1>2. CASE Sem!err_sys(p)
  BY <1>2, SemExit DEF Sem!err_sys
<1>3. CASE m5[p] # "close" /\ Sem!Go(p, "close") /\ UNCHANGED <<m1, m2, m3, m4, m6>>
  <2>1. m5'[p] = "close"
    BY <1>3, SemMoved DEF Sem!IInv
  <2>2. /\ ~Sem!Holder(p) /\ ~Sem!Holder(p)' /\ p \notin Sem!Waited /\ p \notin Sem!Waited'
        /\ p \in Sem!Users' <=> p \in Sem!Users
    BY <1>1, <1>3, <2>1 DEF Sem!Users, Sem!Using, Sem!InUse, Sem!Waited, Sem!Holder
  <2>3. Sem!IdOK(p)' /\ Sem!HeldOK(p)'
    BY <1>1, <1>3, <2>1, <2>2, SemNotHeld DEF Sem!IdOK, Sem!InUse
  <2> QED BY <1>3, <2>2, <2>3, SemQuiet
<1>4. CASE Sem!semop(p, Sem!op_close, "last")
  <2>1. CASE UNCHANGED <<m1, m2, m3, m4, m5, m6>>
    BY <2>1, SemStill
  <2>2. CASE Sem!Did(p, 0, 1, 1, "last") /\ m3[2] = 0
    <3>1. Sem!Go(p, "last") /\ UNCHANGED <<m1, m6>>
      BY <2>2 DEF Sem!Did
    <3>2. m5'[p] = "last" /\ Sem!Holder(p)' /\ ~Sem!Holder(p)
      BY <1>1, <3>1, SemMoved DEF Sem!IInv, Sem!Holder
    <3>3. m6[p] = m1 /\ m1 # 0
      BY <1>1, <1>4 DEF Sem!semop, Sem!IdOK, Sem!InUse
    <3>4. p \in Sem!Users /\ p \notin Sem!Users' /\ p \notin Sem!Waited /\ p \notin Sem!Waited'
      BY <1>1, <3>1, <3>2, <3>3 DEF Sem!Users, Sem!Using, Sem!InUse, Sem!Waited
    <3>5. Sem!Users' = Sem!Users \ {p} /\ Sem!Waited' = Sem!Waited
      BY <3>1, <3>4, SemMoved DEF Sem!IInv, Sem!Users, Sem!Waited
    <3>6. m3'[0] = m3[0] /\ m3'[1] = m3[1] + 1 /\ m3'[2] = 1 /\ m3[0] \in Nat /\ m3[1] \in Nat
      BY <2>2 DEF Sem!Did, Sem!IInv, Sem!TypeOK, Sem!Member
    <3>7. m3[1] = BIGCOUNT - Cardinality(Sem!Users) /\ m3[0] = initval - Cardinality(Sem!Waited)
      BY <3>4, SemCard DEF Sem!IInv, Sem!CountOK
    <3>8. Cardinality(Sem!Users') = Cardinality(Sem!Users) - 1
      BY <3>4, <3>5, SemFinite, FS_RemoveElement
    <3>9. m3'[1] = BIGCOUNT - Cardinality(Sem!Users') /\ m3'[0] = initval - Cardinality(Sem!Waited')
      BY <3>5, <3>6, <3>7, <3>8, SemFinite, SemAssumption
    <3>10. Sem!CountOK'
      BY <3>9, SemCard DEF Sem!CountOK
    <3>11. Sem!AdjOK(p)'
      <4>1. m4'[p][0] = 0 /\ m4'[p][1] = 0 /\ m4'[p][2] = -1
        BY <1>1, <2>2, <3>2, <3>4 DEF Sem!Did, Sem!AdjOK
      <4> QED BY <4>1, <3>2, <3>4 DEF Sem!AdjOK
    <3>12. Sem!IdOK(p)'
      BY <1>1, <3>1, <3>2, <3>3 DEF Sem!IdOK, Sem!InUse
    <3>13. Sem!HeldOK(p)'
      BY <3>2, <3>6 DEF Sem!HeldOK
    <3> QED BY <2>2, <3>2, <3>6, <3>10, <3>11, <3>12, <3>13, SemLocked
  <2> QED BY <1>4, <2>1, <2>2, SemSemop, SemOps DEF Sem!IInv
<1> QED BY <1>2, <1>3, <1>4 DEF Sem!CountOut

LEMMA SemLast == ASSUME Sem!IInv, NEW p \in Proc, Sem!Last(p) PROVE Sem!IInv'
<1>1. m5[p] = "last" /\ Sem!IdOK(p) /\ Sem!HeldOK(p)
  BY DEF Sem!Last, Sem!IInv
<1>2. CASE Sem!err_sys(p)
  BY <1>2, SemExit DEF Sem!err_sys
<1>3. CASE /\ Sem!Go(p, IF m3[1] = BIGCOUNT THEN "remove" ELSE "unlock")
           /\ UNCHANGED <<m1, m2, m3, m4, m6>>
  <2>1. m5'[p] = IF m3[1] = BIGCOUNT THEN "remove" ELSE "unlock"
    BY <1>3, SemMoved DEF Sem!IInv
  <2>2. /\ Sem!Holder(p) /\ Sem!Holder(p)'
        /\ p \notin Sem!Users /\ p \notin Sem!Users' /\ p \notin Sem!Waited /\ p \notin Sem!Waited'
    BY <1>1, <2>1 DEF Sem!Users, Sem!Using, Sem!InUse, Sem!Waited, Sem!Holder
  <2>3. Sem!Users' = Sem!Users
    BY <1>3, <2>2, SemMoved DEF Sem!IInv, Sem!Users
  <2>4. m3[1] = BIGCOUNT => Sem!Users = {}
    <3>1. m3[1] = BIGCOUNT - Cardinality(Sem!Users)
      BY <1>1, SemCard DEF Sem!IInv, Sem!CountOK, Sem!HeldOK
    <3>2. m3[1] = BIGCOUNT => Cardinality(Sem!Users) = 0
      BY <3>1, SemFinite, SemAssumption
    <3> QED BY <3>2, SemFinite, FS_EmptySet
  <2>5. Sem!HeldOK(p)'
    BY <1>1, <1>3, <2>1, <2>3, <2>4 DEF Sem!HeldOK
  <2>6. Sem!IdOK(p)'
    BY <1>1, <1>3, <2>1, <2>2 DEF Sem!IdOK, Sem!InUse
  <2> QED BY <1>3, <2>2, <2>5, <2>6, SemQuiet
<1> QED BY <1>2, <1>3 DEF Sem!Last

LEMMA SemRm == ASSUME Sem!IInv, NEW p \in Proc, Sem!sem_rm(p) PROVE Sem!IInv'
<1>1. /\ m5[p] = "remove" /\ Sem!Go(p, "done") /\ m1' = 0 /\ m3' = Sem!Zero /\ m4' = [q \in Proc |-> Sem!Zero]
      /\ UNCHANGED <<m2, m6>>
  BY DEF Sem!sem_rm
<1>2. /\ m5' = [q \in Proc |-> m5'[q]] /\ m5'[p] = "done"
      /\ \A q \in Proc : q # p => m5'[q] = m5[q]
  BY <1>1 DEF Sem!Go, Sem!IInv, Sem!TypeOK
<1>3. \A q \in Proc : ~Sem!Holder(q)'
  BY <1>1, <1>2 DEF Sem!IInv, Sem!LockOK, Sem!Holder
<1>4. Sem!Users' = {} /\ Sem!Waited' = {}
  BY <1>1, <1>2 DEF Sem!IInv, Sem!IdOK, Sem!Users, Sem!Waited, Sem!Using, Sem!InUse
<1>5. Sem!TypeOK'
  <2>1. m3' \in [Sem!Member -> Nat] /\ m4' \in [Proc -> [Sem!Member -> Int]]
    BY <1>1 DEF Sem!Zero
  <2> QED BY <1>1, <1>2, <2>1 DEF Sem!IInv, Sem!TypeOK
<1>6. Sem!LockOK' /\ Sem!CountOK'
  BY <1>1, <1>3, <1>4 DEF Sem!LockOK, Sem!CountOK, Sem!Zero, Sem!Member
<1>7. ASSUME NEW q \in Proc PROVE Sem!AdjOK(q)' /\ Sem!IdOK(q)' /\ Sem!HeldOK(q)'
  <2>1. Sem!AdjOK(q)'
    BY <1>1, <1>3, <1>4 DEF Sem!AdjOK, Sem!Zero, Sem!Member
  <2>2. Sem!HeldOK(q)'
    BY <1>3, SemNotHeld
  <2>3. CASE q = p
    BY <1>2, <1>3, <2>1, <2>2, <2>3 DEF Sem!IdOK, Sem!InUse
  <2>4. CASE q # p
    <3>1. Sem!IdOK(q) /\ m5'[q] = m5[q] /\ m6'[q] = m6[q]
      BY <1>1, <1>2, <2>4 DEF Sem!IInv
    <3>2. Sem!Users \subseteq Opener
      BY <1>1 DEF Sem!IInv, Sem!HeldOK
    <3>3. q \notin Opener => ~Sem!InUse(q)
      BY <3>1, <3>2 DEF Sem!IdOK, Sem!Users, Sem!Using
    <3> QED BY <1>3, <2>1, <2>2, <3>1, <3>3 DEF Sem!IdOK, Sem!InUse
  <2> QED BY <2>3, <2>4
<1> QED BY <1>5, <1>6, <1>7 DEF Sem!IInv

LEMMA SemUnlock == ASSUME Sem!IInv, NEW p \in Proc, m5[p] = "unlock", Sem!semop(p, Sem!op_unlock, "done") PROVE Sem!IInv'
<1>1. Sem!AdjOK(p) /\ Sem!IdOK(p) /\ Sem!Holder(p)
  BY DEF Sem!IInv, Sem!Holder
<1>2. CASE UNCHANGED <<m1, m2, m3, m4, m5, m6>>
  BY <1>2, SemStill
<1>3. CASE Sem!Did(p, 0, 0, -1, "done")
  <2>1. Sem!Go(p, "done") /\ UNCHANGED <<m1, m6>>
    BY <1>3 DEF Sem!Did
  <2>2. m5'[p] = "done" /\ ~Sem!Holder(p)'
    BY <2>1, SemMoved DEF Sem!IInv, Sem!Holder
  <2>3. p \notin Sem!Users /\ p \notin Sem!Users' /\ p \notin Sem!Waited /\ p \notin Sem!Waited'
    BY <2>2 DEF Sem!Users, Sem!Using, Sem!InUse, Sem!Waited
  <2>4. Sem!Users' = Sem!Users /\ Sem!Waited' = Sem!Waited
    BY <2>1, <2>3, SemMoved DEF Sem!IInv, Sem!Users, Sem!Waited
  <2>5. m3[2] = 1 /\ m3[0] \in Nat /\ m3[1] \in Nat
    BY <1>1 DEF Sem!IInv, Sem!LockOK, Sem!TypeOK, Sem!Member
  <2>6. m3'[0] = m3[0] /\ m3'[1] = m3[1] /\ m3'[2] = 0
    BY <1>3, <2>5 DEF Sem!Did
  <2>7. Sem!CountOK'
    BY <2>4, <2>6 DEF Sem!IInv, Sem!CountOK
  <2>8. Sem!AdjOK(p)'
    <3>1. m4'[p][0] = 0 /\ m4'[p][1] = 0 /\ m4'[p][2] = 0
      BY <1>1, <1>3, <2>3 DEF Sem!Did, Sem!AdjOK
    <3> QED BY <3>1, <2>2, <2>3 DEF Sem!AdjOK
  <2>9. Sem!IdOK(p)' /\ Sem!HeldOK(p)'
    BY <2>2, SemNotHeld DEF Sem!IdOK, Sem!InUse
  <2> QED BY <1>1, <1>3, <2>2, <2>6, <2>7, <2>8, <2>9, SemLocked
<1> QED BY <1>2, <1>3, SemSemop, SemOps DEF Sem!IInv

LEMMA SemStep == ASSUME Sem!IInv, [Sem!Next]_(Sem!vars) PROVE Sem!IInv'
<1>1. CASE UNCHANGED Sem!vars
  BY <1>1, SemStill DEF Sem!vars
<1>2. ASSUME NEW p \in Proc, Sem!sem_create(p) PROVE Sem!IInv'
  BY <1>2, SemGet, SemLock, SemInitialise, SemEndCreate DEF Sem!sem_create
<1>3. ASSUME NEW p \in Proc, Sem!sem_close(p) PROVE Sem!IInv'
  BY <1>3, SemCountOut, SemLast, SemRm, SemUnlock DEF Sem!sem_close
<1>4. ASSUME NEW p \in Proc, Sem!Kill(p) PROVE Sem!IInv'
  BY <1>4, SemExit DEF Sem!Kill, Sem!err_sys
<1> QED BY <1>1, <1>2, <1>3, <1>4, SemOpen, SemWait, SemSignal DEF Sem!Next, Sem!Call

LEMMA SemProps == Sem!IInv => Sem!CountsExact /\ Sem!CreatorsSafe
<1> SUFFICES ASSUME Sem!IInv PROVE Sem!CountsExact /\ Sem!CreatorsSafe
  OBVIOUS
<1>1. Sem!CountsExact
  BY DEF Sem!IInv, Sem!CountOK, Sem!CountsExact, Sem!Users, Sem!Waited
<1>2. Sem!CreatorsSafe
  BY DEF Sem!IInv, Sem!LockOK, Sem!IdOK, Sem!CreatorsSafe
<1> QED BY <1>1, <1>2

-----------------------------------------------------------------------------
(* Tel is TellWait: parent and child taking turns.                         *)
(*                                                                         *)
(* m1 prog, m2 way, m3 pc, m4 i, m5 area, m6 counter, m7 sigflag,          *)
(* m8 blocked, m9 told, m10 locker, m11 failed, m12 missed.                *)

LEMMA TelCard == \A S : Tel!Cardinality(S) = Cardinality(S)
  BY DEF Tel!Cardinality, Cardinality

LEMMA TelOther ==
  ASSUME NEW p \in Tel!Side
  PROVE  /\ Tel!Other(p) \in Tel!Side /\ Tel!Other(p) # p /\ Tel!Other(Tel!Other(p)) = p
         /\ \A r \in Tel!Side : r = p \/ r = Tel!Other(p)
  BY DEF Tel!Side, Tel!Other

LEMMA TelInit == Tel!Init => Tel!IInv
<1> SUFFICES ASSUME Tel!Init PROVE Tel!IInv
  OBVIOUS
<1>1. Tel!TypeOK
  BY DEF Tel!Init, Tel!TypeOK, Tel!Side
<1>2. ASSUME m1 = "zero" PROVE Tel!ZeroOK
  <2>1. m3["parent"] = "load" /\ m3["child"] = "wait" /\ m4["parent"] = 0 /\ m4["child"] = 1
    BY <1>2 DEF Tel!Init, Tel!First, Tel!Side
  <2>2. \A p \in Tel!Side : m9[p] = 0 /\ ~ m7[p] /\ m3[p] = IF p = "parent" THEN "load" ELSE "wait"
    BY <1>2 DEF Tel!Init, Tel!First, Tel!Side
  <2>3. ~ Tel!Given("child") /\ ~ Tel!Given("parent") /\ ~ Tel!Turn("child")
    BY <2>1, <2>2 DEF Tel!Given, Tel!Turn, Tel!Side
  <2>4. \A p \in Tel!Side : Tel!GivenOK(p)
    BY <2>2 DEF Tel!GivenOK, Tel!Given, Tel!Parked
  <2>5. \A p \in Tel!Side : /\ Tel!Turn(p) => ~ Tel!Turn(Tel!Other(p)) /\ m3[p] \notin Tel!Done
                            /\ Tel!Turn(p) \/ m3[p] \in Tel!Parked \cup Tel!Done
                            /\ m3[p] # "store"
    BY <2>1, <2>2, <2>3 DEF Tel!Turn, Tel!Given, Tel!Side, Tel!Other, Tel!Done, Tel!Parked
  <2>6. m11 = {} /\ m5 = 0
    BY DEF Tel!Init
  <2> QED BY <2>1, <2>3, <2>4, <2>5, <2>6, TelAssumption DEF Tel!ZeroOK, Tel!Done, Tel!Side
<1>3. ASSUME m1 = "lock", NEW p \in Tel!Side PROVE Tel!LockOK(p)
  <2>1. \A r \in Tel!Side : m3[r] = "first" /\ m9[r] = 0 /\ ~ m7[r]
    BY <1>3 DEF Tel!Init, Tel!First
  <2>2. \A b \in {0, 1} : m10[b] = "none"
    BY DEF Tel!Init
  <2>3. m11 = {} /\ Tel!Slot(p, "first") \in {0, 1}
    BY DEF Tel!Init, Tel!Slot
  <2> QED BY <2>1, <2>2, <2>3 DEF Tel!LockOK, Tel!Given, Tel!Parked, Tel!Done
<1> QED BY <1>1, <1>2, <1>3 DEF Tel!IInv

\* The counter: a step of the parent, and of the child.
LEMMA TelZero ==
  ASSUME Tel!IInv, m1 = "zero", NEW p \in Tel!Side, Tel!Step(p) PROVE Tel!IInv'
<1> DEFINE q == Tel!Other(p)
<1>o. /\ q \in Tel!Side /\ q # p /\ Tel!Other(q) = p /\ \A r \in Tel!Side : r = p \/ r = q
      /\ p = "parent" => q = "child"
      /\ p = "child" => q = "parent"
      /\ p = "parent" \/ p = "child"
  BY TelOther DEF Tel!Side, Tel!Other
<1>t. Tel!TypeOK /\ Tel!ZeroOK
  BY DEF Tel!IInv
<1>f. m3[p] \in Tel!Parked \cup Tel!Done \cup {"load", "store", "tell", "clear", "unblock"}
  BY <1>t DEF Tel!ZeroOK, Tel!Turn, Tel!Given, Tel!GivenOK
<1>1. CASE Tel!Load(p)
  <2>1. /\ m3[p] = "load" /\ m3' = [m3 EXCEPT ![p] = "store"]
        /\ m6' = [m6 EXCEPT ![p] = m5]
        /\ UNCHANGED <<m1, m2, m4, m5, m7, m9, m10, m11>>
    BY <1>1 DEF Tel!Load, Tel!At, Tel!Go
  <2>2. /\ m3'[p] = "store" /\ m3'[q] = m3[q] /\ m6'[p] = m5 /\ m6'[q] = m6[q]
        /\ m3' = [r \in Tel!Side |-> m3'[r]] /\ m6' \in [Tel!Side -> Nat]
    BY <2>1, <1>t, <1>o DEF Tel!TypeOK
  <2>3. Tel!TypeOK'
    BY <2>1, <2>2, <1>t DEF Tel!TypeOK
  <2>5. \A r \in Tel!Side : Tel!Given(r)' = Tel!Given(r) /\ Tel!Turn(r)' = Tel!Turn(r) /\ (m3[r] \in Tel!Done <=> m3'[r] \in Tel!Done)
    BY <2>1, <2>2, <1>o DEF Tel!Given, Tel!Turn, Tel!Done
  <2>6. \A r \in Tel!Side : Tel!GivenOK(r)'
    BY <2>1, <2>2, <2>5, <1>t, <1>o DEF Tel!ZeroOK, Tel!GivenOK, Tel!Parked
  <2>7. \A r \in Tel!Side : /\ Tel!Turn(r)' => ~ Tel!Turn(Tel!Other(r))' /\ m3'[r] \notin Tel!Done
                            /\ Tel!Turn(r)' \/ m3'[r] \in Tel!Parked \cup Tel!Done
                            /\ m3'[r] = "store" => m6'[r] = m5'
    <3> SUFFICES ASSUME NEW r \in Tel!Side
                 PROVE  /\ Tel!Turn(r)' => ~ Tel!Turn(Tel!Other(r))' /\ m3'[r] \notin Tel!Done
                        /\ Tel!Turn(r)' \/ m3'[r] \in Tel!Parked \cup Tel!Done
                        /\ m3'[r] = "store" => m6'[r] = m5'
      OBVIOUS
    <3>0. Tel!Other(r) \in Tel!Side
      BY TelOther
    <3>1. Tel!Turn(r)' => ~ Tel!Turn(Tel!Other(r))' /\ m3'[r] \notin Tel!Done
      BY <3>0, <2>5, <1>t DEF Tel!ZeroOK
    <3>2. m3[r] \in Tel!Parked => m3'[r] \in Tel!Parked
      BY <2>1, <2>2, <1>o DEF Tel!Parked
    <3>3. Tel!Turn(r)' \/ m3'[r] \in Tel!Parked \cup Tel!Done
      BY <3>2, <2>5, <1>t DEF Tel!ZeroOK
    <3>4. m3'[r] = "store" => m6'[r] = m5'
      BY <2>1, <2>2, <1>t, <1>o DEF Tel!ZeroOK
    <3> QED BY <3>1, <3>3, <3>4
  <2>4. Tel!ZeroOK'
    BY <2>1, <2>2, <2>5, <2>6, <2>7, <1>t, <1>o DEF Tel!ZeroOK
  <2> QED BY <2>1, <2>3, <2>4 DEF Tel!IInv
<1>2. CASE Tel!Store(p)
  <2>1. /\ m3[p] = "store" /\ m6[p] = m4[p]
    BY <1>2, <1>t, <1>o DEF Tel!Store, Tel!At, Tel!ZeroOK, Tel!Turn
  <2>2. /\ m3' = [m3 EXCEPT ![p] = "tell"] /\ m5' = m6[p] + 1
        /\ UNCHANGED <<m1, m2, m4, m6, m7, m9, m10, m11>>
    BY <1>2, <2>1 DEF Tel!Store, Tel!Go
  <2>3. /\ m3'[p] = "tell" /\ m3'[q] = m3[q] /\ m3' = [r \in Tel!Side |-> m3'[r]]
        /\ m5' = m4[p] + 1 /\ m5' \in Nat
    BY <2>1, <2>2, <1>t, <1>o DEF Tel!TypeOK
  <2>4. Tel!TypeOK'
    BY <2>2, <2>3, <1>t DEF Tel!TypeOK
  <2>5. Tel!ZeroOK'
    <3>1. \A r \in Tel!Side : Tel!Given(r)' = Tel!Given(r) /\ Tel!Turn(r)' = Tel!Turn(r) /\ (m3[r] \in Tel!Done <=> m3'[r] \in Tel!Done)
      BY <2>1, <2>2, <2>3, <1>o DEF Tel!Given, Tel!Turn, Tel!Done
    <3>2. \A r \in Tel!Side : Tel!GivenOK(r)'
      BY <2>1, <2>2, <2>3, <3>1, <1>t, <1>o DEF Tel!ZeroOK, Tel!GivenOK, Tel!Parked
    <3>3. ASSUME NEW r \in Tel!Side
          PROVE  /\ Tel!Turn(r)' => ~ Tel!Turn(Tel!Other(r))' /\ m3'[r] \notin Tel!Done
                 /\ Tel!Turn(r)' \/ m3'[r] \in Tel!Parked \cup Tel!Done
                 /\ m3'[r] = "store" => m6'[r] = m5'
      <4>0. Tel!Other(r) \in Tel!Side
        BY TelOther
      <4>1. Tel!Turn(r)' => ~ Tel!Turn(Tel!Other(r))' /\ m3'[r] \notin Tel!Done
        BY <4>0, <3>1, <1>t DEF Tel!ZeroOK
      <4>2. m3[r] \in Tel!Parked => m3'[r] \in Tel!Parked
        BY <2>1, <2>3, <1>o DEF Tel!Parked
      <4>3. Tel!Turn(r)' \/ m3'[r] \in Tel!Parked \cup Tel!Done
        BY <4>2, <3>1, <1>t DEF Tel!ZeroOK
      <4>4. m3'[r] # "store"
        <5>1. Tel!Turn(p)
          BY <2>1 DEF Tel!Turn
        <5>2. m3[q] # "store"
          BY <5>1, <1>t, <1>o DEF Tel!ZeroOK, Tel!Turn
        <5> QED BY <5>2, <2>3, <1>o
      <4> QED BY <4>1, <4>3, <4>4
    <3>4. Tel!Turn(p) /\ ~ Tel!Turn(q) /\ ~ Tel!Given(p) /\ m3[p] \notin Tel!Done
      BY <2>1, <1>t, <1>o DEF Tel!ZeroOK, Tel!Turn, Tel!GivenOK, Tel!Parked, Tel!Done
    <3>5. m4["parent"] \in Nat /\ m4["child"] \in Nat /\ NLOOPS \in Nat
      BY <1>t, TelAssumption DEF Tel!TypeOK, Tel!Side
    <3>6. m4["child"] = m4["parent"] + 1
      BY <2>1, <3>4, <1>t, <1>o DEF Tel!ZeroOK
    <3>7. m3["parent"] \notin Tel!Done
      BY <3>4, <3>5, <3>6, <1>t, <1>o DEF Tel!ZeroOK
    <3>8. /\ m4' = m4 /\ m11' = m11
          /\ m4["parent"] % 2 = 0 /\ m4["child"] % 2 = 1 /\ m11 = {} /\ m4["parent"] < NLOOPS
          /\ IF m3'["child"] \in Tel!Done THEN m4["child"] = NLOOPS + 1 ELSE m4["child"] < NLOOPS + 1
          /\ m3'["parent"] \notin Tel!Done
      BY <2>2, <3>1, <3>7, <1>t DEF Tel!ZeroOK, Tel!Side
    <3>9. /\ m3'["parent"] \notin {"load", "store"}
          /\ m3'["parent"] = "tell" => m5' = m4["child"]
      BY <2>3, <3>4, <3>6, <1>o DEF Tel!Turn
    <3>10. /\ Tel!Turn("child")' => m5' = IF m3'["child"] = "tell" THEN m4["child"] + 1 ELSE m4["child"]
           /\ ~ Tel!Given("parent")'
      <4>1. CASE p = "parent"
        <5>1. ~ Tel!Turn("child")' /\ ~ Tel!Given("parent")'
          BY <4>1, <3>1, <3>4, <1>o DEF Tel!Side
        <5> QED BY <5>1
      <4>2. CASE p = "child"
        <5>1. ~ Tel!Given("parent")
          BY <4>2, <3>4, <1>o DEF Tel!Turn
        <5>2. ~ Tel!Given("parent")'
          BY <5>1, <3>1 DEF Tel!Side
        <5> QED BY <4>2, <2>3, <5>2
      <4> QED BY <4>1, <4>2, <1>o
    <3> QED BY <3>2, <3>3, <3>6, <3>8, <3>9, <3>10 DEF Tel!ZeroOK
  <2> QED BY <2>2, <2>4, <2>5 DEF Tel!IInv
<1>3. CASE Tel!tell(p)
  <2>1. /\ m3[p] = "tell" /\ m9[q] = 0 /\ ~ Tel!Turn(q)
    BY <1>3, <1>t, <1>o DEF Tel!tell, Tel!At, Tel!ZeroOK, Tel!Turn, Tel!Given, Tel!TypeOK
  <2>2. /\ m9' = [m9 EXCEPT ![q] = 1]
        /\ UNCHANGED <<m1, m2, m5, m6, m7, m10, m11>>
    BY <1>3, <2>1, <1>t DEF Tel!tell, Tel!TypeOK
  <2>3. m9'[q] = 1 /\ m9'[p] = m9[p] /\ m9' \in [Tel!Side -> {0, 1}]
    BY <2>2, <1>t, <1>o DEF Tel!TypeOK
  <2>4. m3[q] \in Tel!Parked
    <3>1. m3[q] \in Tel!Done => (m4[q] = IF q = "parent" THEN NLOOPS ELSE NLOOPS + 1)
      BY <1>t, <1>o DEF Tel!ZeroOK
    <3>2. m4[q] \in Nat /\ m4[p] \in Nat /\ NLOOPS \in Nat
      BY <1>t, <1>o, TelAssumption DEF Tel!TypeOK
    <3>3. p = "parent" => m4[q] = m4[p] + 1 /\ m4[p] < NLOOPS
      BY <2>1, <1>t, <1>o DEF Tel!ZeroOK, Tel!Done
    <3>4. p = "child" => m4[p] = m4[q] + 1 /\ m4[p] < NLOOPS + 1
      BY <2>1, <1>t, <1>o DEF Tel!ZeroOK, Tel!Done, Tel!Turn
    <3>5. m3[q] \notin Tel!Done
      BY <3>1, <3>2, <3>3, <3>4, <1>o
    <3> QED BY <3>5, <2>1, <1>t, <1>o DEF Tel!ZeroOK
  <2>5. CASE p = "parent"
    <3>1. m3' = [m3 EXCEPT ![p] = "wait"] /\ m4' = m4
      BY <1>3, <2>5 DEF Tel!tell, Tel!Go
    <3>2. m3'[p] = "wait" /\ m3'[q] = m3[q] /\ m3' = [r \in Tel!Side |-> m3'[r]]
      BY <3>1, <1>t, <1>o DEF Tel!TypeOK
    <3>3. Tel!TypeOK'
      BY <2>2, <2>3, <3>1, <3>2, <1>t DEF Tel!TypeOK
    <3>4. Tel!ZeroOK'
      BY <2>1, <2>2, <2>3, <2>4, <2>5, <3>1, <3>2, <1>t, <1>o DEF Tel!TypeOK, Tel!ZeroOK, Tel!GivenOK, Tel!Given, Tel!Turn, Tel!Parked, Tel!Done
    <3> QED BY <2>2, <3>3, <3>4 DEF Tel!IInv
  <2>6. CASE p = "child"
    <3>0. /\ m3' = [m3 EXCEPT ![p] = IF m4[p] + 2 < NLOOPS + 1 THEN "wait" ELSE "end"]
          /\ m4' = [m4 EXCEPT ![p] = m4[p] + 2]
      BY <1>3, <2>6 DEF Tel!tell, Tel!Go
    <3>1. m4'[p] = m4[p] + 2 /\ m4'[q] = m4[q] /\ m4' \in [Tel!Side -> Nat]
      BY <3>0, <1>t, <1>o DEF Tel!TypeOK
    <3>2. /\ m3'[p] = (IF m4[p] + 2 < NLOOPS + 1 THEN "wait" ELSE "end") /\ m3'[q] = m3[q]
          /\ m3' = [r \in Tel!Side |-> m3'[r]]
      BY <3>0, <1>t, <1>o DEF Tel!TypeOK
    <3>3. Tel!TypeOK'
      BY <2>2, <2>3, <3>1, <3>2, <1>t DEF Tel!TypeOK
    <3>4. m4[p] \in Nat /\ m4[p] < NLOOPS + 1 /\ m4[p] % 2 = 1 /\ (m4[p] + 2) % 2 = 1 /\ m4[p] = m4[q] + 1
      BY <2>1, <2>6, <1>t, <1>o DEF Tel!TypeOK, Tel!ZeroOK, Tel!Turn, Tel!Done
    <3>5. ~ (m4[p] + 2 < NLOOPS + 1) => m4[p] + 2 = NLOOPS + 1
      BY <3>4, TelAssumption
    <3>6. Tel!ZeroOK'
      BY <2>1, <2>2, <2>3, <2>4, <2>6, <3>1, <3>2, <3>4, <3>5, <1>t, <1>o
         DEF Tel!TypeOK, Tel!ZeroOK, Tel!GivenOK, Tel!Given, Tel!Turn, Tel!Parked, Tel!Done
    <3> QED BY <2>2, <3>3, <3>6 DEF Tel!IInv
  <2> QED BY <2>5, <2>6, <1>o
\* wait_child or wait_parent returns, the byte read or the mask reset.
<1>r. ASSUME Tel!Resume(p), Tel!Turn(p), Tel!Given(p), m9'[p] = 0, m9'[q] = m9[q], ~ m7[p], m9' \in [Tel!Side -> {0, 1}],
             UNCHANGED <<m1, m2, m5, m6, m7, m10, m11>>
      PROVE  Tel!IInv'
  <2>1. CASE p = "child"
    <3>1. m3' = [m3 EXCEPT ![p] = "load"] /\ m4' = m4
      BY <1>r, <2>1 DEF Tel!Resume, Tel!Go
    <3>2. m3'[p] = "load" /\ m3'[q] = m3[q] /\ m3' = [r \in Tel!Side |-> m3'[r]]
      BY <3>1, <1>t, <1>o DEF Tel!TypeOK
    <3>3. Tel!TypeOK'
      BY <1>r, <3>1, <3>2, <1>t DEF Tel!TypeOK
    <3>4. Tel!ZeroOK'
      <4>1. /\ Tel!Turn(p)' /\ ~ Tel!Given(p)' /\ Tel!GivenOK(p)' /\ Tel!Given(q)' = Tel!Given(q)
            /\ Tel!Turn(q)' = Tel!Turn(q) /\ Tel!GivenOK(q)' = Tel!GivenOK(q)
        BY <1>r, <3>2 DEF Tel!Turn, Tel!Given, Tel!GivenOK, Tel!Parked, Tel!Done
      <4>2. m11' = {} /\ \A r \in Tel!Side : Tel!GivenOK(r)'
        BY <1>r, <1>t, <1>o, <4>1 DEF Tel!ZeroOK
      <4>3. \A r \in Tel!Side : /\ Tel!Turn(r)' => ~ Tel!Turn(Tel!Other(r))' /\ m3'[r] \notin Tel!Done
                                /\ Tel!Turn(r)' \/ m3'[r] \in Tel!Parked \cup Tel!Done
                                /\ m3'[r] = "store" => m6'[r] = m5'
        BY <1>r, <1>t, <1>o, <3>2, <4>1 DEF Tel!ZeroOK, Tel!Done
      <4>4. m4["child"] = m4["parent"] + 1 /\ m5 = m4["child"] /\ m3["parent"] \in Tel!Parked \cup Tel!Done
        BY <1>r, <1>t, <1>o, <2>1 DEF Tel!ZeroOK, Tel!GivenOK, Tel!Given, Tel!Parked, Tel!Done
      <4> QED BY <1>r, <2>1, <3>1, <3>2, <4>1, <4>2, <4>3, <4>4, <1>t, <1>o DEF Tel!ZeroOK, Tel!Parked, Tel!Done
    <3> QED BY <1>r, <3>3, <3>4 DEF Tel!IInv
  <2>2. CASE p = "parent"
    <3>0. /\ m3' = [m3 EXCEPT ![p] = IF m4[p] + 2 < NLOOPS THEN "load" ELSE "end"]
          /\ m4' = [m4 EXCEPT ![p] = m4[p] + 2]
      BY <1>r, <2>2 DEF Tel!Resume, Tel!Go
    <3>1. m4'[p] = m4[p] + 2 /\ m4'[q] = m4[q] /\ m4' \in [Tel!Side -> Nat]
      BY <3>0, <1>t, <1>o DEF Tel!TypeOK
    <3>2. /\ m3'[p] = (IF m4[p] + 2 < NLOOPS THEN "load" ELSE "end") /\ m3'[q] = m3[q]
          /\ m3' = [r \in Tel!Side |-> m3'[r]]
      BY <3>0, <1>t, <1>o DEF Tel!TypeOK
    <3>3. Tel!TypeOK'
      BY <1>r, <3>1, <3>2, <1>t DEF Tel!TypeOK
    <3>4. m4[p] \in Nat /\ m4[p] < NLOOPS /\ m4[p] % 2 = 0 /\ (m4[p] + 2) % 2 = 0
      BY <1>r, <2>2, <1>t, <1>o DEF Tel!TypeOK, Tel!ZeroOK, Tel!Given, Tel!Done
    <3>5. ~ (m4[p] + 2 < NLOOPS) => m4[p] + 2 = NLOOPS
      BY <3>4, TelAssumption
    <3>6. Tel!ZeroOK'
      BY <1>r, <2>2, <3>1, <3>2, <3>4, <3>5, <1>t, <1>o
         DEF Tel!TypeOK, Tel!ZeroOK, Tel!GivenOK, Tel!Given, Tel!Turn, Tel!Parked, Tel!Done
    <3> QED BY <1>r, <3>3, <3>6 DEF Tel!IInv
  <2> QED BY <2>1, <2>2, <1>o
<1>4. CASE Tel!read(p)
  <2>0. m9[p] = 1
    <3>1. m9[p] \in {0, 1} /\ m9[p] > 0
      BY <1>4, <1>t DEF Tel!read, Tel!TypeOK
    <3> QED BY <3>1
  <2>1. /\ m9' = [m9 EXCEPT ![p] = 0] /\ Tel!Resume(p)
        /\ UNCHANGED <<m1, m2, m5, m6, m7, m10, m11>>
    BY <1>4, <2>0 DEF Tel!read
  <2>2. m9'[p] = 0 /\ m9'[q] = m9[q] /\ m9' \in [Tel!Side -> {0, 1}]
    BY <2>1, <1>t, <1>o DEF Tel!TypeOK
  <2>3. Tel!Turn(p) /\ Tel!Given(p) /\ ~ m7[p]
    BY <2>0, <1>t DEF Tel!Turn, Tel!Given, Tel!ZeroOK, Tel!GivenOK
  <2> QED BY <2>1, <2>2, <2>3, <1>r
<1>5. CASE Tel!Unblock(p)
  <2>1. /\ m3[p] = "unblock" /\ Tel!Resume(p)
        /\ UNCHANGED <<m1, m2, m5, m6, m7, m9, m10, m11>>
    BY <1>5 DEF Tel!Unblock, Tel!At
  <2>2. Tel!Turn(p) /\ Tel!Given(p) /\ ~ m7[p] /\ m9'[p] = 0 /\ m9'[q] = m9[q] /\ m9' \in [Tel!Side -> {0, 1}]
    BY <2>1, <1>t DEF Tel!Turn, Tel!Given, Tel!ZeroOK, Tel!GivenOK, Tel!TypeOK
  <2> QED BY <2>1, <2>2, <1>r
\* A step inside the loop around sigsuspend.
<1>w. ASSUME NEW a, m3' = [m3 EXCEPT ![p] = a], m7'[q] = m7[q], m7' \in [Tel!Side -> BOOLEAN],
             m9'[q] = m9[q], m9' \in [Tel!Side -> {0, 1}],
             m2 = "signal", m3[p] \in Tel!Parked \cup {"clear"}, a \in Tel!Parked \cup {"clear", "unblock"},
             Tel!Given(p)' = Tel!Given(p), Tel!GivenOK(p)',
             UNCHANGED <<m1, m2, m4, m5, m6, m10, m11>>
      PROVE  Tel!IInv'
  <2>1. m3'[p] = a /\ m3'[q] = m3[q] /\ m3' = [r \in Tel!Side |-> m3'[r]]
    BY <1>w, <1>t, <1>o DEF Tel!TypeOK
  <2>2. Tel!TypeOK'
    BY <1>w, <2>1, <1>t DEF Tel!TypeOK
  <2>3. /\ Tel!Given(q)' = Tel!Given(q) /\ Tel!GivenOK(q)' = Tel!GivenOK(q)
        /\ Tel!Turn(q)' = Tel!Turn(q) /\ Tel!Turn(p)' = Tel!Turn(p)
    BY <1>w, <2>1, <1>o DEF Tel!Given, Tel!GivenOK, Tel!Turn, Tel!Parked
  <2>4. Tel!ZeroOK'
    <3>1. m11' = {} /\ \A r \in Tel!Side : Tel!GivenOK(r)'
      BY <1>w, <1>t, <1>o, <2>3 DEF Tel!ZeroOK
    <3>2. \A r \in Tel!Side : /\ Tel!Turn(r)' => ~ Tel!Turn(Tel!Other(r))' /\ m3'[r] \notin Tel!Done
                              /\ Tel!Turn(r)' \/ m3'[r] \in Tel!Parked \cup Tel!Done
                              /\ m3'[r] = "store" => m6'[r] = m5'
      <4>1. Tel!Turn(p)' \/ m3'[p] \in Tel!Parked
        BY <1>w, <2>1 DEF Tel!GivenOK, Tel!Given, Tel!Turn
      <4> QED BY <1>w, <1>t, <1>o, <2>1, <2>3, <4>1 DEF Tel!ZeroOK, Tel!Parked, Tel!Done
    <3>3. \A r \in Tel!Side : /\ (m3'[r] \in Tel!Done) = (m3[r] \in Tel!Done)
                              /\ (m3'[r] = "tell") = (m3[r] = "tell")
                              /\ (m3'[r] \in {"load", "store"}) = (m3[r] \in {"load", "store"})
                              /\ Tel!Turn(r)' = Tel!Turn(r) /\ Tel!Given(r)' = Tel!Given(r)
      BY <1>w, <1>o, <2>1, <2>3 DEF Tel!Parked, Tel!Done
    <3> QED BY <1>w, <3>1, <3>2, <3>3, <1>t DEF Tel!ZeroOK, Tel!Side
  <2> QED BY <1>w, <2>2, <2>4 DEF Tel!IInv
<1>6. CASE Tel!TestFlag(p)
  <2> DEFINE a == IF m7[p] THEN "clear" ELSE "suspend"
  <2>1. /\ m3[p] = "wait" /\ m3' = [m3 EXCEPT ![p] = a] /\ m2 = "signal"
        /\ UNCHANGED <<m1, m2, m4, m5, m6, m7, m9, m10, m11>>
    BY <1>6 DEF Tel!TestFlag, Tel!At, Tel!Go
  <2>2. m3'[p] = a /\ a \in Tel!Parked \cup {"clear"}
    BY <2>1, <1>t DEF Tel!TypeOK, Tel!Parked
  <2>3. Tel!Given(p)' = Tel!Given(p) /\ Tel!GivenOK(p)'
    BY <2>1, <2>2, <1>t DEF Tel!Given, Tel!GivenOK, Tel!ZeroOK, Tel!TypeOK, Tel!Parked, Tel!Done
  <2>4. m7' \in [Tel!Side -> BOOLEAN] /\ m9' \in [Tel!Side -> {0, 1}]
    BY <2>1, <1>t DEF Tel!TypeOK
  <2> HIDE DEF a
  <2> QED BY <2>1, <2>2, <2>3, <2>4, <1>w DEF Tel!Parked
<1>7. CASE Tel!sigsuspend(p)
  <2>1. /\ m3[p] = "suspend" /\ m3' = [m3 EXCEPT ![p] = "suspended"]
        /\ UNCHANGED <<m1, m2, m4, m5, m6, m7, m9, m10, m11>>
    BY <1>7 DEF Tel!sigsuspend, Tel!At, Tel!Go
  <2>2. m3'[p] = "suspended" /\ m2 = "signal"
    BY <2>1, <1>t DEF Tel!TypeOK, Tel!ZeroOK, Tel!GivenOK
  <2>3. Tel!Given(p)' = Tel!Given(p) /\ Tel!GivenOK(p)'
    BY <2>1, <2>2, <1>t DEF Tel!Given, Tel!GivenOK, Tel!ZeroOK, Tel!TypeOK, Tel!Parked, Tel!Done
  <2>4. m7' \in [Tel!Side -> BOOLEAN] /\ m9' \in [Tel!Side -> {0, 1}]
    BY <2>1, <1>t DEF Tel!TypeOK
  <2> QED BY <2>1, <2>2, <2>3, <2>4, <1>w DEF Tel!Parked
<1>8. CASE Tel!Clear(p)
  <2>1. /\ m3[p] = "clear" /\ m3' = [m3 EXCEPT ![p] = "unblock"] /\ m7' = [m7 EXCEPT ![p] = FALSE]
        /\ UNCHANGED <<m1, m2, m4, m5, m6, m9, m10, m11>>
    BY <1>8 DEF Tel!Clear, Tel!At, Tel!Go
  <2>2. m3'[p] = "unblock" /\ m2 = "signal" /\ m7[p] /\ m9[p] = 0
    BY <2>1, <1>t DEF Tel!TypeOK, Tel!ZeroOK, Tel!GivenOK
  <2>4. ~ m7'[p] /\ m7'[q] = m7[q] /\ m7' \in [Tel!Side -> BOOLEAN] /\ m9' \in [Tel!Side -> {0, 1}]
    BY <2>1, <1>t, <1>o DEF Tel!TypeOK
  <2>3. Tel!Given(p)' = Tel!Given(p) /\ Tel!GivenOK(p)'
    BY <2>1, <2>2, <2>4, <1>t DEF Tel!Given, Tel!GivenOK
  <2> QED BY <2>1, <2>2, <2>3, <2>4, <1>w DEF Tel!Parked
<1>9. CASE Tel!sig_usr(p)
  <2> DEFINE a == IF m3[p] = "suspended" THEN "wait" ELSE m3[p]
  <2>1. /\ m9[p] = 1 /\ m3' = [m3 EXCEPT ![p] = a] /\ m2 = "signal"
        /\ m7' = [m7 EXCEPT ![p] = TRUE] /\ m9' = [m9 EXCEPT ![p] = 0]
        /\ UNCHANGED <<m1, m2, m4, m5, m6, m10, m11>>
    <3>1. m9[p] \in {0, 1} /\ m9[p] > 0 /\ m3 = [r \in Tel!Side |-> m3[r]]
      BY <1>9, <1>t DEF Tel!sig_usr, Tel!TypeOK
    <3>2. m3' = [m3 EXCEPT ![p] = a]
      BY <1>9, <3>1 DEF Tel!sig_usr
    <3>3. m9[p] = 1
      BY <3>1
    <3> QED BY <1>9, <3>2, <3>3 DEF Tel!sig_usr
  <2>2. Tel!Turn(p) /\ m3[p] \in Tel!Parked /\ a \in Tel!Parked /\ m3'[p] = a
    <3>1. Tel!Given(p) /\ Tel!Turn(p)
      BY <2>1 DEF Tel!Given, Tel!Turn
    <3>2. Tel!GivenOK(p) /\ m3[p] \notin Tel!Done
      BY <3>1, <1>t DEF Tel!ZeroOK
    <3>3. m3[p] \in Tel!Parked
      BY <3>1, <3>2, <2>1, <1>t DEF Tel!GivenOK, Tel!Parked, Tel!Done, Tel!TypeOK
    <3>4. a \in Tel!Parked
      BY <3>3 DEF Tel!Parked
    <3>5. m3'[p] = a
      BY <2>1, <1>t DEF Tel!TypeOK
    <3> QED BY <3>1, <3>3, <3>4, <3>5
  <2>4. /\ m7'[p] /\ m7'[q] = m7[q] /\ m7' \in [Tel!Side -> BOOLEAN]
        /\ m9'[p] = 0 /\ m9'[q] = m9[q] /\ m9' \in [Tel!Side -> {0, 1}]
    BY <2>1, <1>t, <1>o DEF Tel!TypeOK
  <2>3. Tel!Given(p)' = Tel!Given(p) /\ Tel!GivenOK(p)'
    BY <2>1, <2>2, <2>4, <1>t DEF Tel!Given, Tel!GivenOK, Tel!Parked
  <2> HIDE DEF a
  <2> QED BY <2>1, <2>2, <2>3, <2>4, <1>w DEF Tel!Parked
<1>10. CASE Tel!Exit(p)
  <2>1. /\ m3[p] = "end" /\ m3' = [m3 EXCEPT ![p] = "gone"]
        /\ m10' = [b \in {0, 1} |-> IF m10[b] = p THEN "none" ELSE m10[b]]
        /\ UNCHANGED <<m1, m2, m4, m5, m6, m7, m9, m11>>
    BY <1>10 DEF Tel!Exit, Tel!Go
  <2>2. /\ m3'[p] = "gone" /\ m3'[q] = m3[q] /\ m3' = [r \in Tel!Side |-> m3'[r]]
        /\ m10' = [b \in {0, 1} |-> m10'[b]]
    BY <2>1, <1>t, <1>o DEF Tel!TypeOK
  <2>3. Tel!TypeOK'
    BY <2>1, <2>2, <1>t DEF Tel!TypeOK
  <2>4. Tel!ZeroOK'
    BY <2>1, <2>2, <1>t, <1>o DEF Tel!TypeOK, Tel!ZeroOK, Tel!GivenOK, Tel!Given, Tel!Turn, Tel!Parked, Tel!Done
  <2> QED BY <2>1, <2>3, <2>4 DEF Tel!IInv
<1>11. ~ Tel!Locked(p) /\ \A s \in {"first", "second"} : ~ Tel!lockabyte(p, s)
  BY <1>f DEF Tel!Locked, Tel!lockabyte, Tel!At, Tel!Parked, Tel!Done
<1> QED BY <1>1, <1>2, <1>3, <1>4, <1>5, <1>6, <1>7, <1>8, <1>9, <1>10, <1>11 DEF Tel!Step
\* The two locks.
LEMMA TelLock ==
  ASSUME Tel!IInv, m1 = "lock", NEW p \in Tel!Side, Tel!Step(p) PROVE Tel!IInv'
<1> DEFINE q == Tel!Other(p)
<1> DEFINE mine == Tel!Slot(p, "first")
<1> DEFINE its == Tel!Slot(q, "first")
<1>o. /\ q \in Tel!Side /\ q # p /\ Tel!Other(q) = p /\ Tel!Other(p) = q /\ \A r \in Tel!Side : r = p \/ r = q
  BY TelOther
<1>b. /\ Tel!Slot(p, "second") = its /\ mine # its
      /\ mine \in {0, 1} /\ its \in {0, 1} /\ \A b \in {0, 1} : b = mine \/ b = its
  BY DEF Tel!Slot, Tel!Side, Tel!Other
<1>n. p # "none" /\ q # "none"
  BY <1>o DEF Tel!Side
<1>t. Tel!TypeOK /\ Tel!LockOK(p) /\ Tel!LockOK(q)
  BY <1>o DEF Tel!IInv
<1>f. m3[p] \in Tel!Parked \cup Tel!Done \cup {"first", "tell", "clear", "unblock", "second", "waits"}
  BY <1>t DEF Tel!LockOK
<1> HIDE DEF q, mine, its
<1>x. ASSUME Tel!TypeOK', Tel!LockOK(p)', Tel!LockOK(q)', m1' = m1 PROVE Tel!IInv'
  BY <1>x, <1>o DEF Tel!IInv
\* A step that leaves the locks alone, between the first lock and the second.
<1>w. ASSUME NEW a, m3' = [m3 EXCEPT ![p] = a], m7'[q] = m7[q], m7' \in [Tel!Side -> BOOLEAN],
             m9'[q] = m9[q], m9' \in [Tel!Side -> {0, 1}],
             m3[p] \in Tel!Parked \cup {"tell", "clear", "unblock"} => a \in Tel!Parked \cup {"clear", "unblock", "second"},
             m3[p] \in Tel!Parked \cup {"tell", "clear", "unblock"} \/ a = m3[p],
             m3[p] = "tell" => a = "wait",
             Tel!Given(p)' \/ a \in Tel!Done \cup {"clear", "second", "waits"}
               => Tel!Given(p) \/ m3[p] \in Tel!Done \cup {"clear", "second", "waits"},
             UNCHANGED <<m1, m2, m4, m5, m6, m10, m11>>
      PROVE  Tel!IInv'
  <2>1. m3'[p] = a /\ m3'[q] = m3[q] /\ m3' = [r \in Tel!Side |-> m3'[r]]
    BY <1>w, <1>t, <1>o DEF Tel!TypeOK
  <2>2. Tel!TypeOK'
    BY <1>w, <2>1, <1>t DEF Tel!TypeOK
  <2>3. Tel!Given(q)' = Tel!Given(q)
    BY <1>w, <2>1 DEF Tel!Given
  <2>4. Tel!LockOK(p)'
    BY <1>w, <2>1, <1>t, <1>o DEF Tel!LockOK, Tel!Parked, Tel!Done
  <2>5. Tel!LockOK(q)'
    BY <1>w, <2>1, <2>3, <1>t, <1>o DEF Tel!LockOK, Tel!Parked, Tel!Done
  <2> QED BY <1>w, <1>x, <2>2, <2>4, <2>5
<1>1. CASE Tel!tell(p)
  <2>1. /\ m3[p] = "tell" /\ m9[q] = 0 /\ ~ Tel!Given(q)
    BY <1>1, <1>t, <1>o DEF Tel!tell, Tel!At, Tel!LockOK, Tel!Given, Tel!TypeOK
  <2>2. /\ m9' = [m9 EXCEPT ![q] = 1] /\ m3' = [m3 EXCEPT ![p] = "wait"]
        /\ UNCHANGED <<m1, m2, m4, m5, m6, m7, m10, m11>>
    <3>1. m9[q] + 1 = 1
      BY <2>1
    <3>2. m9' = [m9 EXCEPT ![q] = IF m2 = "pipe" THEN m9[q] + 1 ELSE 1]
      BY <1>1, <1>o DEF Tel!tell
    <3>3. m9' = [m9 EXCEPT ![q] = 1]
      BY <3>1, <3>2
    <3> QED BY <1>1, <3>3 DEF Tel!tell, Tel!Go
  <2>3. /\ m9'[q] = 1 /\ m9'[p] = m9[p] /\ m9' \in [Tel!Side -> {0, 1}]
        /\ m3'[p] = "wait" /\ m3'[q] = m3[q] /\ m3' = [r \in Tel!Side |-> m3'[r]]
    BY <2>2, <1>t, <1>o DEF Tel!TypeOK
  <2>4. Tel!TypeOK'
    BY <2>2, <2>3, <1>t DEF Tel!TypeOK
  <2>5. Tel!LockOK(p)'
    BY <2>1, <2>2, <2>3, <1>t, <1>o DEF Tel!LockOK, Tel!Given, Tel!Parked, Tel!Done
  <2>6. Tel!LockOK(q)'
    BY <2>1, <2>2, <2>3, <1>t, <1>o DEF Tel!LockOK, Tel!Given, Tel!Parked, Tel!Done
  <2> QED BY <2>2, <1>x, <2>4, <2>5, <2>6
<1>2. CASE Tel!read(p)
  <2>0. m9[p] = 1
    <3>1. m9[p] \in {0, 1} /\ m9[p] > 0
      BY <1>2, <1>t DEF Tel!read, Tel!TypeOK
    <3> QED BY <3>1
  <2>1. /\ m9' = [m9 EXCEPT ![p] = 0] /\ m3[p] = "wait" /\ m3' = [m3 EXCEPT ![p] = "second"]
        /\ UNCHANGED <<m1, m2, m4, m5, m6, m7, m10, m11>>
    BY <1>2, <2>0 DEF Tel!read, Tel!At, Tel!Resume, Tel!Go
  <2>2. /\ m9'[q] = m9[q] /\ m9' \in [Tel!Side -> {0, 1}] /\ m7' \in [Tel!Side -> BOOLEAN] /\ Tel!Given(p)
    BY <2>0, <2>1, <1>t, <1>o DEF Tel!TypeOK, Tel!Given
  <2> QED BY <2>1, <2>2, <1>w DEF Tel!Parked
<1>3. CASE Tel!TestFlag(p)
  <2> DEFINE a == IF m7[p] THEN "clear" ELSE "suspend"
  <2>1. /\ m3[p] = "wait" /\ m3' = [m3 EXCEPT ![p] = a]
        /\ UNCHANGED <<m1, m2, m4, m5, m6, m7, m9, m10, m11>>
    BY <1>3 DEF Tel!TestFlag, Tel!At, Tel!Go
  <2>2. m3'[p] = a /\ a \in Tel!Parked \cup {"clear"} /\ m7' \in [Tel!Side -> BOOLEAN] /\ m9' \in [Tel!Side -> {0, 1}]
    BY <2>1, <1>t DEF Tel!TypeOK, Tel!Parked
  <2>3. Tel!Given(p)' \/ a \in Tel!Done \cup {"clear", "second", "waits"} => Tel!Given(p)
    BY <2>1, <2>2 DEF Tel!Given, Tel!Done
  <2> HIDE DEF a
  <2> QED BY <2>1, <2>2, <2>3, <1>w DEF Tel!Parked
<1>4. CASE Tel!sigsuspend(p)
  <2>1. /\ m3[p] = "suspend" /\ m3' = [m3 EXCEPT ![p] = "suspended"]
        /\ UNCHANGED <<m1, m2, m4, m5, m6, m7, m9, m10, m11>>
    BY <1>4 DEF Tel!sigsuspend, Tel!At, Tel!Go
  <2>2. m3'[p] = "suspended" /\ m7' \in [Tel!Side -> BOOLEAN] /\ m9' \in [Tel!Side -> {0, 1}]
    BY <2>1, <1>t DEF Tel!TypeOK, Tel!Parked
  <2>3. Tel!Given(p)' => Tel!Given(p)
    BY <2>1, <2>2 DEF Tel!Given
  <2> QED BY <2>1, <2>2, <2>3, <1>w DEF Tel!Parked, Tel!Done
<1>5. CASE Tel!Clear(p)
  <2>1. /\ m3[p] = "clear" /\ m3' = [m3 EXCEPT ![p] = "unblock"] /\ m7' = [m7 EXCEPT ![p] = FALSE]
        /\ UNCHANGED <<m1, m2, m4, m5, m6, m9, m10, m11>>
    BY <1>5 DEF Tel!Clear, Tel!At, Tel!Go
  <2>2. m7'[q] = m7[q] /\ m7' \in [Tel!Side -> BOOLEAN] /\ m9' \in [Tel!Side -> {0, 1}]
    BY <2>1, <1>t, <1>o DEF Tel!TypeOK
  <2> QED BY <2>1, <2>2, <1>w DEF Tel!Parked, Tel!Done
<1>6. CASE Tel!Unblock(p)
  <2>1. /\ m3[p] = "unblock" /\ m3' = [m3 EXCEPT ![p] = "second"]
        /\ UNCHANGED <<m1, m2, m4, m5, m6, m7, m9, m10, m11>>
    BY <1>6 DEF Tel!Unblock, Tel!At, Tel!Resume, Tel!Go
  <2>2. m7' \in [Tel!Side -> BOOLEAN] /\ m9' \in [Tel!Side -> {0, 1}] /\ Tel!Given(p)
    BY <2>1, <1>t DEF Tel!TypeOK, Tel!Given
  <2> QED BY <2>1, <2>2, <1>w DEF Tel!Parked
<1>7. CASE Tel!sig_usr(p)
  <2> DEFINE a == IF m3[p] = "suspended" THEN "wait" ELSE m3[p]
  <2>1. /\ m9[p] = 1 /\ m3' = [m3 EXCEPT ![p] = a]
        /\ m7' = [m7 EXCEPT ![p] = TRUE] /\ m9' = [m9 EXCEPT ![p] = 0]
        /\ UNCHANGED <<m1, m2, m4, m5, m6, m10, m11>>
    <3>1. m9[p] \in {0, 1} /\ m9[p] > 0 /\ m3 = [r \in Tel!Side |-> m3[r]]
      BY <1>7, <1>t DEF Tel!sig_usr, Tel!TypeOK
    <3>2. m3' = [m3 EXCEPT ![p] = a]
      BY <1>7, <3>1 DEF Tel!sig_usr
    <3>3. m9[p] = 1
      BY <3>1
    <3> QED BY <1>7, <3>2, <3>3 DEF Tel!sig_usr
  <2>2. /\ m7'[q] = m7[q] /\ m7' \in [Tel!Side -> BOOLEAN]
        /\ m9'[q] = m9[q] /\ m9' \in [Tel!Side -> {0, 1}] /\ Tel!Given(p)
    BY <2>1, <1>t, <1>o DEF Tel!TypeOK, Tel!Given
  <2>3. /\ m3[p] \in Tel!Parked => a \in Tel!Parked
        /\ m3[p] \in Tel!Parked \/ a = m3[p]
        /\ a \in {"tell", "clear", "unblock"} => a = m3[p]
    BY DEF Tel!Parked
  <2>5. CASE m3[p] = "tell"
    <3>1. m3'[p] = "tell" /\ m3'[q] = m3[q] /\ m3' = [r \in Tel!Side |-> m3'[r]]
      BY <2>1, <2>5, <1>t, <1>o DEF Tel!TypeOK
    <3>2. Tel!TypeOK'
      BY <3>1, <2>1, <2>2, <1>t DEF Tel!TypeOK
    <3>3. Tel!LockOK(p)'
      BY <3>1, <2>1, <2>2, <2>5, <1>t, <1>o DEF Tel!LockOK, Tel!Given, Tel!Parked, Tel!Done
    <3>4. Tel!LockOK(q)'
      BY <3>1, <2>1, <2>2, <2>5, <1>t, <1>o DEF Tel!LockOK, Tel!Given, Tel!Parked, Tel!Done
    <3> QED BY <2>1, <1>x, <3>2, <3>3, <3>4
  <2>6. CASE m3[p] # "tell"
    <3> HIDE DEF a
    <3> QED BY <2>1, <2>2, <2>3, <2>6, <1>w
  <2> QED BY <2>5, <2>6
<1>8. CASE Tel!lockabyte(p, "first")
  <2>1. /\ m3[p] = "first" /\ m3' = [m3 EXCEPT ![p] = "tell"] /\ m10' = [m10 EXCEPT ![mine] = p]
        /\ UNCHANGED <<m1, m2, m4, m5, m6, m7, m9, m11>>
    <3>1. m3[p] = "first" /\ m10[mine] = "none"
      BY <1>8, <1>t DEF Tel!lockabyte, Tel!At, Tel!LockOK, mine
    <3> QED BY <1>8, <3>1, <1>n, <1>o DEF Tel!lockabyte, Tel!Go, mine
  <2>2. /\ m3'[p] = "tell" /\ m3'[q] = m3[q] /\ m3' = [r \in Tel!Side |-> m3'[r]]
        /\ m10'[mine] = p /\ m10'[its] = m10[its] /\ m10' = [b \in {0, 1} |-> m10'[b]]
    BY <2>1, <1>t, <1>o, <1>b DEF Tel!TypeOK
  <2>3. Tel!TypeOK'
    BY <2>1, <2>2, <1>t DEF Tel!TypeOK
  <2>4. Tel!LockOK(p)'
    BY <2>1, <2>2, <1>t, <1>o DEF Tel!LockOK, Tel!Given, Tel!Parked, Tel!Done, mine
  <2>5. Tel!LockOK(q)'
    BY <2>1, <2>2, <1>t, <1>o DEF Tel!LockOK, Tel!Given, Tel!Parked, Tel!Done, its
  <2> QED BY <2>1, <1>x, <2>3, <2>4, <2>5
<1>9. CASE Tel!lockabyte(p, "second")
  <2>0. m3[p] = "second" /\ m10[its] = q /\ p \notin m11
    <3>1. m3[p] = "second" /\ (m10[its] = "none" \/ m10[its] = q)
      BY <1>9, <1>b, <1>o DEF Tel!lockabyte, Tel!At
    <3>2. m3[q] # "first" /\ m3[q] # "gone" /\ p \notin m11
      BY <3>1, <1>t, <1>o DEF Tel!LockOK, Tel!Done
    <3> QED BY <3>1, <3>2, <1>t DEF Tel!LockOK, its
  <2>1. CASE m3[q] = "waits"
    <3>1. /\ m3' = [m3 EXCEPT ![p] = "end"] /\ m11' = m11 \cup {p}
          /\ UNCHANGED <<m1, m2, m4, m5, m6, m7, m9, m10>>
      BY <1>9, <2>0, <2>1, <1>b, <1>o, <1>n DEF Tel!lockabyte, Tel!Quit, Tel!Go
    <3>2. m3'[p] = "end" /\ m3'[q] = m3[q] /\ m3' = [r \in Tel!Side |-> m3'[r]]
      BY <3>1, <1>t, <1>o DEF Tel!TypeOK
    <3>3. Tel!TypeOK'
      BY <3>1, <3>2, <1>t DEF Tel!TypeOK
    <3>4. q \notin m11
      BY <2>1, <1>t DEF Tel!LockOK, Tel!Done
    <3>5. Tel!LockOK(p)'
      BY <3>1, <3>2, <3>4, <2>0, <2>1, <1>t, <1>o DEF Tel!LockOK, Tel!Given, Tel!Parked, Tel!Done
    <3>6. Tel!LockOK(q)'
      BY <3>1, <3>2, <3>4, <2>0, <2>1, <1>t, <1>o DEF Tel!LockOK, Tel!Given, Tel!Parked, Tel!Done
    <3> QED BY <3>1, <1>x, <3>3, <3>5, <3>6
  <2>2. CASE m3[q] # "waits"
    <3>1. /\ m3' = [m3 EXCEPT ![p] = "waits"]
          /\ UNCHANGED <<m1, m2, m4, m5, m6, m7, m9, m10, m11>>
      BY <1>9, <2>0, <2>2, <1>b, <1>o, <1>n DEF Tel!lockabyte, Tel!Go
    <3>2. m3'[p] = "waits" /\ m3'[q] = m3[q] /\ m3' = [r \in Tel!Side |-> m3'[r]]
      BY <3>1, <1>t, <1>o DEF Tel!TypeOK
    <3>3. Tel!TypeOK'
      BY <3>1, <3>2, <1>t DEF Tel!TypeOK
    <3>5. Tel!LockOK(p)'
      BY <3>1, <3>2, <2>0, <2>2, <1>t, <1>o DEF Tel!LockOK, Tel!Given, Tel!Parked, Tel!Done
    <3>6. Tel!LockOK(q)'
      BY <3>1, <3>2, <2>0, <2>2, <1>t, <1>o DEF Tel!LockOK, Tel!Given, Tel!Parked, Tel!Done
    <3> QED BY <3>1, <1>x, <3>3, <3>5, <3>6
  <2> QED BY <2>1, <2>2
<1>10. CASE Tel!Locked(p)
  <2>1. /\ m3[p] = "waits" /\ m3' = [m3 EXCEPT ![p] = "end"] /\ m10' = [m10 EXCEPT ![its] = p]
        /\ m10[its] = "none"
        /\ UNCHANGED <<m1, m2, m4, m5, m6, m7, m9, m11>>
    BY <1>10, <1>b DEF Tel!Locked, Tel!At, Tel!Go
  <2>2. /\ m3'[p] = "end" /\ m3'[q] = m3[q] /\ m3' = [r \in Tel!Side |-> m3'[r]]
        /\ m10'[its] = p /\ m10'[mine] = m10[mine] /\ m10' = [b \in {0, 1} |-> m10'[b]]
    BY <2>1, <1>t, <1>o, <1>b DEF Tel!TypeOK
  <2>3. Tel!TypeOK'
    BY <2>1, <2>2, <1>t DEF Tel!TypeOK
  <2>4. m3[q] = "gone" /\ q \in m11 /\ p \notin m11
    BY <2>1, <1>t, <1>o, <1>n DEF Tel!LockOK, its, Tel!Done
  <2>5. Tel!LockOK(p)'
    BY <2>1, <2>2, <2>4, <1>t, <1>o DEF Tel!LockOK, Tel!Given, Tel!Parked, Tel!Done, mine
  <2>6. Tel!LockOK(q)'
    BY <2>1, <2>2, <2>4, <1>t, <1>o DEF Tel!LockOK, Tel!Given, Tel!Parked, Tel!Done, its
  <2> QED BY <2>1, <1>x, <2>3, <2>5, <2>6
<1>11. CASE Tel!Exit(p)
  <2>1. /\ m3[p] = "end" /\ m3' = [m3 EXCEPT ![p] = "gone"]
        /\ m10' = [b \in {0, 1} |-> IF m10[b] = p THEN "none" ELSE m10[b]]
        /\ UNCHANGED <<m1, m2, m4, m5, m6, m7, m9, m11>>
    BY <1>11 DEF Tel!Exit, Tel!Go
  <2>2. /\ m3'[p] = "gone" /\ m3'[q] = m3[q] /\ m3' = [r \in Tel!Side |-> m3'[r]]
        /\ m10'[its] = (IF m10[its] = p THEN "none" ELSE m10[its])
        /\ m10'[mine] # p /\ m10' = [b \in {0, 1} |-> m10'[b]]
    BY <2>1, <1>t, <1>o, <1>b, <1>n DEF Tel!TypeOK
  <2>3. Tel!TypeOK'
    BY <2>1, <2>2, <1>t DEF Tel!TypeOK
  <2>5. Tel!LockOK(p)'
    BY <2>1, <2>2, <1>t, <1>o DEF Tel!LockOK, Tel!Given, Tel!Parked, Tel!Done, mine
  <2>6. Tel!LockOK(q)'
    BY <2>1, <2>2, <1>t, <1>o, <1>n DEF Tel!LockOK, Tel!Given, Tel!Parked, Tel!Done, its
  <2> QED BY <2>1, <1>x, <2>3, <2>5, <2>6
<1>12. ~ Tel!Load(p) /\ ~ Tel!Store(p)
  BY <1>f DEF Tel!Load, Tel!Store, Tel!At, Tel!Parked, Tel!Done
<1> QED BY <1>1, <1>2, <1>3, <1>4, <1>5, <1>6, <1>7, <1>8, <1>9, <1>10, <1>11, <1>12 DEF Tel!Step

LEMMA TelStep == ASSUME Tel!IInv, [Tel!Next]_(Tel!vars) PROVE Tel!IInv'
<1>1. CASE UNCHANGED Tel!vars
  <2>1. UNCHANGED <<m1, m2, m3, m4, m5, m6, m7, m9, m10, m11>>
    BY <1>1 DEF Tel!vars
  <2>2. Tel!TypeOK' = Tel!TypeOK
    BY <2>1 DEF Tel!TypeOK
  <2>3. \A r \in Tel!Side : Tel!Given(r)' = Tel!Given(r) /\ Tel!Turn(r)' = Tel!Turn(r) /\ Tel!GivenOK(r)' = Tel!GivenOK(r)
    BY <2>1 DEF Tel!Turn, Tel!Given, Tel!GivenOK
  <2>4. Tel!ZeroOK => Tel!ZeroOK'
    BY <2>1, <2>3, TelOther DEF Tel!ZeroOK, Tel!Side
  <2>5. \A r \in Tel!Side : Tel!LockOK(r)' = Tel!LockOK(r)
    BY <2>1, <2>3 DEF Tel!LockOK
  <2> QED BY <2>1, <2>2, <2>4, <2>5 DEF Tel!IInv
<1>2. CASE Tel!Next
  <2>1. PICK p \in Tel!Side : Tel!Step(p)
    BY <1>2 DEF Tel!Next
  <2>2. m1 = "zero" \/ m1 = "lock"
    BY DEF Tel!IInv, Tel!TypeOK
  <2> QED BY <2>1, <2>2, TelZero, TelLock
<1> QED BY <1>1, <1>2

LEMMA TelProps == Tel!IInv => Tel!TurnsTaken
<1> SUFFICES ASSUME Tel!IInv PROVE Tel!TurnsTaken
  OBVIOUS
<1>1. ASSUME m1 = "zero"
      PROVE  /\ m11 = {}
             /\ ~ (\A p \in Tel!Side : m3[p] \in {"load", "store"})
             /\ (\A p \in Tel!Side : m3[p] = "gone") => m5 = NLOOPS
  BY <1>1 DEF Tel!IInv, Tel!ZeroOK, Tel!Turn, Tel!Side, Tel!Other, Tel!Done
<1>2. ASSUME m1 = "lock"
      PROVE  /\ \A p \in Tel!Side : m3[p] = "second" => m3[Tel!Other(p)] # "first"
             /\ Cardinality(m11) <= 1
             /\ (\A p \in Tel!Side : m3[p] = "gone") => Cardinality(m11) = 1
  <2>1. \A p \in Tel!Side : m3[p] = "second" => m3[Tel!Other(p)] # "first"
    BY <1>2 DEF Tel!IInv, Tel!LockOK
  <2>2. m11 = {} \/ m11 = {"parent"} \/ m11 = {"child"}
    <3>1. m11 \subseteq {"parent", "child"}
      BY DEF Tel!IInv, Tel!TypeOK, Tel!Side
    <3>2. ~ ("parent" \in m11 /\ "child" \in m11)
      BY <1>2 DEF Tel!IInv, Tel!LockOK, Tel!Side, Tel!Other
    <3> QED BY <3>1, <3>2
  <2>3. (\A p \in Tel!Side : m3[p] = "gone") => m11 # {}
    BY <1>2 DEF Tel!IInv, Tel!LockOK, Tel!Side, Tel!Other, Tel!Done
  <2>4. Cardinality({}) = 0 /\ Cardinality({"parent"}) = 1 /\ Cardinality({"child"}) = 1
    BY FS_EmptySet, FS_Singleton
  <2> QED BY <2>1, <2>2, <2>3, <2>4
<1> QED BY <1>1, <1>2, TelCard DEF Tel!TurnsTaken

-----------------------------------------------------------------------------
(* Pass is FdPass: calls of the open server, and descriptors passed.       *)
(*                                                                         *)
(* m1 cpc, m2 calls, m3 got, m4 spc, m5 errmsg, m6 answer, m7 c2s,         *)
(* m8 s2c, m9 cut.                                                         *)

\* Short sequences.
LEMMA TwoSeq == ASSUME NEW S, NEW s \in Seq(S), Len(s) = 2 PROVE s = <<s[1], s[2]>>
  OBVIOUS

LEMMA OneSeq == ASSUME NEW S, NEW s \in Seq(S), Len(s) = 1 PROVE s = <<s[1]>>
  OBVIOUS

LEMMA SubSeqTwo == ASSUME NEW a, NEW b PROVE SubSeq(<<a, b>>, 2, 2) = <<b>>
<1> DEFINE t == <<a, b>>
           s == SubSeq(t, 2, 2)
<1>1. t \in Seq({a, b}) /\ Len(t) = 2 /\ t[2] = b
  OBVIOUS
<1> HIDE DEF t
<1>2. s \in Seq({a, b}) /\ Len(s) = 1 /\ s[1] = b
  BY <1>1
<1> QED BY <1>1, <1>2, OneSeq DEF t

LEMMA TailTwo == ASSUME NEW a, NEW b PROVE Len(<<a, b>>) = 2 /\ Head(<<a, b>>) = a /\ Tail(<<a, b>>) = <<b>>
  OBVIOUS

LEMMA AppendSeq ==
  ASSUME NEW S, NEW t \in Seq(S), NEW b \in S
  PROVE  /\ Append(t, b) \in Seq(S) /\ Len(Append(t, b)) = Len(t) + 1
         /\ \A n \in 1 .. Len(t) : Append(t, b)[n] = t[n]
         /\ Append(t, b)[Len(t) + 1] = b
  BY AppendProperties

LEMMA AppendOne == ASSUME NEW a, NEW b PROVE Append(<<a>>, b) = <<a, b>>
<1> DEFINE t == <<a>>
           s == Append(t, b)
           S == {a, b}
<1>1. t \in Seq(S) /\ Len(t) = 1 /\ t[1] = a /\ b \in S
  OBVIOUS
<1> HIDE DEF t, S, s
<1>2. s \in Seq(S) /\ Len(s) = 2 /\ s[1] = a /\ s[2] = b
  <2>1. /\ s \in Seq(S) /\ Len(s) = Len(t) + 1
        /\ \A n \in 1 .. Len(t) : s[n] = t[n]
        /\ s[Len(t) + 1] = b
    BY <1>1, AppendSeq DEF s
  <2>2. 1 \in 1 .. Len(t) /\ Len(t) + 1 = 2
    BY <1>1
  <2> QED BY <1>1, <2>1, <2>2
<1>3. s = <<s[1], s[2]>>
  BY <1>2, TwoSeq
<1> QED BY <1>2, <1>3 DEF t, s

LEMMA ConcatOne == ASSUME NEW a, NEW b PROVE <<a>> \o <<b>> = <<a, b>>
<1>1. <<a>> \in Seq({a, b})
  OBVIOUS
<1>2. <<a>> \o <<b>> = Append(<<a>>, b)
  BY <1>1
<1> QED BY <1>2, AppendOne

LEMMA PassInit == Pass!Init => Pass!IInv
<1> SUFFICES ASSUME Pass!Init PROVE Pass!IInv
  OBVIOUS
<1>1. m2 \in Nat /\ m9 \in BOOLEAN
  BY DEF Pass!Init
<1>2. m1 = "idle" /\ m7 = <<>> /\ m8 = <<>> /\ m4 = "read" /\ m3 = m2
  BY DEF Pass!Init
<1> QED BY <1>1, <1>2 DEF Pass!IInv

\* A request that is not cut is answered by an optional text and a status.
LEMMA PassAnswer ==
  ASSUME NEW r, NEW e, r.of = m2
  PROVE  \/ Pass!Answer(r, e) = <<Pass!Answer(r, e)[1]>> /\ Pass!Final(Pass!Answer(r, e)[1])
         \/ /\ Pass!Answer(r, e) = <<Pass!Answer(r, e)[1], Pass!Answer(r, e)[2]>>
            /\ Pass!Text(Pass!Answer(r, e)[1]) /\ Pass!Final(Pass!Answer(r, e)[2])
<1> DEFINE f == [k |-> "fd", of |-> r.of]
           x == [k |-> "text", of |-> e]
           y == [k |-> "err", of |-> r.of]
<1>1. Pass!Final(f) /\ Pass!Text(x) /\ Pass!Final(y)
  BY DEF Pass!Final, Pass!Text
<1>2. Pass!Answer(r, e) = <<f>> \/ Pass!Answer(r, e) = <<>> \o <<y>> \/ Pass!Answer(r, e) = <<x>> \o <<y>>
  BY DEF Pass!Answer, Pass!ErrAnswer
<1> HIDE DEF f, x, y
<1>3. <<>> \o <<y>> = <<y>> /\ <<x>> \o <<y>> = <<x, y>>
  BY ConcatOne
<1>4. Pass!Answer(r, e) = <<f>> \/ Pass!Answer(r, e) = <<y>> \/ Pass!Answer(r, e) = <<x, y>>
  BY <1>2, <1>3
<1>5. CASE Pass!Answer(r, e) = <<f>>
  BY <1>5, <1>1
<1>6. CASE Pass!Answer(r, e) = <<y>>
  BY <1>6, <1>1
<1>7. CASE Pass!Answer(r, e) = <<x, y>>
  BY <1>7, <1>1
<1> QED BY <1>4, <1>5, <1>6, <1>7

LEMMA PassStep == ASSUME Pass!IInv, [Pass!Next]_(Pass!vars) PROVE Pass!IInv'
<1>0. m2 \in Nat /\ m9 \in BOOLEAN
  BY DEF Pass!IInv
<1>1. ASSUME NEW k \in Kind, Pass!csopen(k) PROVE Pass!IInv'
  <2>1. m1 = "idle" /\ m1' = "wait" /\ m2' = m2 + 1 /\ UNCHANGED <<m4, m8>>
    BY <1>1 DEF Pass!csopen
  <2>2. CASE k = "long"
    <3>1. m9' = TRUE
      BY <1>1, <2>2 DEF Pass!csopen
    <3> QED BY <3>1, <2>1, <1>0 DEF Pass!IInv
  <2>3. CASE k # "long"
    <3>1. m9' = m9 /\ m7' = m7 \o <<Pass!Piece(k, "whole")>>
      BY <1>0, <1>1, <2>3 DEF Pass!csopen
    <3>2. ASSUME ~ m9 PROVE Pass!Asked'
      <4>1. m7 = <<>> /\ m8 = <<>> /\ m4 = "read"
        BY <3>2, <2>1 DEF Pass!IInv
      <4> DEFINE b == Pass!Piece(k, "whole")
      <4>2. b.part = "whole" /\ b.of = m2'
        BY <2>1 DEF Pass!Piece
      <4> HIDE DEF b
      <4>3. m7' = <<b>>
        BY <3>1, <4>1 DEF b
      <4> QED BY <4>1, <4>2, <4>3, <2>1 DEF Pass!Asked
    <3> QED BY <3>1, <3>2, <2>1, <1>0 DEF Pass!IInv
  <2> QED BY <2>2, <2>3
<1>2. CASE Pass!recv_fd
  <2>0. m1 = "wait" /\ UNCHANGED <<m2, m4, m6, m7, m9>>
    BY <1>2 DEF Pass!recv_fd
  <2>1. CASE m9
    BY <2>0, <2>1, <1>0 DEF Pass!IInv
  <2>2. CASE ~ m9
    <3>1. PICK n \in 1 .. Len(m8) :
            /\ m8' = SubSeq(m8, n + 1, Len(m8))
            /\ LET st == {m \in 1 .. n : Pass!Status(m)} IN
               /\ m1' = IF st = {} THEN "wait" ELSE IF st = {n} THEN "idle" ELSE "dump"
               /\ m3' = IF st = {n} THEN m8[n].of ELSE m3
      BY <1>2 DEF Pass!recv_fd
    <3> DEFINE st == {m \in 1 .. n : Pass!Status(m)}
    <3>2. /\ m1' = IF st = {} THEN "wait" ELSE IF st = {n} THEN "idle" ELSE "dump"
          /\ m3' = IF st = {n} THEN m8[n].of ELSE m3
      BY <3>1
    <3>a. Pass!Asked \/ Pass!Answering \/ Pass!Answered
      BY <2>0, <2>2 DEF Pass!IInv
    <3>3. m8 # <<>>
      BY <3>1
    <3>4. CASE m8 = <<m8[1]>> /\ Pass!Text(m8[1])
      <4>0. Len(m8) = 1
        BY <3>4
      <4>n. n = 1
        BY <4>0
      <4>x. SubSeq(<<m8[1]>>, 2, 1) = <<>>
        OBVIOUS
      <4>1. n = 1 /\ m8' = <<>>
        BY <4>n, <4>x, <4>0, <3>1, <3>4
      <4>2. st = {}
        BY <4>1, <3>4 DEF Pass!Text, Pass!Status
      <4>3. m1' = "wait"
        BY <3>2, <4>2
      <4>4. Pass!Answering
        BY <3>a, <3>4 DEF Pass!Asked, Pass!Answered, Pass!Text, Pass!Final
      <4>5. Pass!Answering'
        BY <4>4, <4>1, <3>4, <2>0 DEF Pass!Answering, Pass!Final, Pass!Text
      <4> QED BY <4>3, <4>5, <2>0, <1>0 DEF Pass!IInv
    <3>5. CASE m8 = <<m8[1]>> /\ Pass!Final(m8[1]) /\ Pass!Answered
      <4>0. Len(m8) = 1
        BY <3>5
      <4>n. n = 1
        BY <4>0
      <4>x. SubSeq(<<m8[1]>>, 2, 1) = <<>>
        OBVIOUS
      <4>1. n = 1 /\ m8' = <<>>
        BY <4>n, <4>x, <4>0, <3>1, <3>5
      <4>2. st = {n}
        BY <4>1, <3>5 DEF Pass!Final, Pass!Status
      <4>3. m1' = "idle" /\ m3' = m2
        BY <3>2, <4>1, <4>2, <3>5 DEF Pass!Final
      <4> QED BY <4>1, <4>3, <2>0, <1>0, <3>5 DEF Pass!IInv, Pass!Answered
    <3>6. CASE m8 = <<m8[1], m8[2]>> /\ Pass!Text(m8[1]) /\ Pass!Final(m8[2]) /\ Pass!Answered
      <4>0. Len(m8) = 2 /\ ~ Pass!Status(1) /\ Pass!Status(2)
        BY <3>6 DEF Pass!Text, Pass!Final, Pass!Status
      <4>1. CASE n = 1
        <5>1. st = {}
          BY <4>0, <4>1
        <5>2. m1' = "wait"
          BY <5>1, <3>2
        <5>3. m8' = <<m8[2]>>
          BY <4>0, <4>1, <3>1, <3>6, SubSeqTwo
        <5>4. Pass!Answered'
          BY <5>3, <3>6, <2>0 DEF Pass!Answered, Pass!Final
        <5> QED BY <5>2, <5>4, <2>0, <1>0 DEF Pass!IInv
      <4>2. CASE n = 2
        <5>1. st = {n}
          BY <4>0, <4>2
        <5>2. m1' = "idle" /\ m3' = m2
          BY <5>1, <3>2, <4>2, <3>6 DEF Pass!Final
        <5>3. m8' = <<>>
          BY <4>0, <4>2, <3>1, <3>6
        <5> QED BY <5>2, <5>3, <2>0, <1>0, <3>6 DEF Pass!IInv, Pass!Answered
      <4> QED BY <4>0, <4>1, <4>2, <3>1
    <3> QED BY <3>a, <3>3, <3>4, <3>5, <3>6 DEF Pass!Asked, Pass!Answering, Pass!Answered
  <2> QED BY <2>1, <2>2
<1>3. CASE Pass!Exit
  BY <1>3, <1>0 DEF Pass!Exit, Pass!IInv
<1>4. CASE Pass!handle_request
  <2>0. m4 = "read" /\ m7 # <<>> /\ m4' = "send" /\ UNCHANGED <<m1, m2, m3, m8, m9>>
    BY <1>4 DEF Pass!handle_request
  <2>1. CASE m1 = "wait" /\ ~ m9
    <3>1. Pass!Asked
      BY <2>0, <2>1 DEF Pass!IInv, Pass!Answering, Pass!Answered
    <3>2. Len(m7) = 1 /\ m7[1].part = "whole" /\ m7[1].of = m2 /\ m8 = <<>>
      BY <3>1 DEF Pass!Asked
    <3>3. {n \in 1 .. Len(m7) : m7[n].part = "head"} = {}
      BY <3>2
    <3>4. Pass!Arrived = 1
      BY <3>2, <3>3 DEF Pass!Arrived
    <3>5. m6' = Pass!Answer(m7[1], Pass!ErrText(m7[1])) /\ m7' = SubSeq(m7, 2, 1)
      BY <3>2, <3>4, <1>4 DEF Pass!handle_request
    <3>6. m7' = <<>>
      BY <3>5, <3>1, <3>2 DEF Pass!Asked
    <3>7. Pass!Answering'
      <4> DEFINE r == m7[1]
                 e == Pass!ErrText(r)
      <4>1. \/ m6' = <<m6'[1]>> /\ Pass!Final(m6'[1])
            \/ /\ m6' = <<m6'[1], m6'[2]>>
               /\ Pass!Text(m6'[1]) /\ Pass!Final(m6'[2])
        <5> HIDE DEF e, r
        <5>1. r.of = m2
          BY <3>2 DEF r
        <5>2. m6' = Pass!Answer(r, e)
          BY <3>5 DEF e, r
        <5> QED BY <5>1, <5>2, PassAnswer
      <4> QED BY <4>1, <3>2, <3>6, <2>0 DEF Pass!Answering, Pass!Final, Pass!Text
    <3> QED BY <3>7, <2>0, <2>1, <1>0 DEF Pass!IInv
  <2>2. CASE ~ (m1 = "wait" /\ ~ m9)
    BY <2>0, <2>2, <1>0 DEF Pass!IInv
  <2> QED BY <2>1, <2>2
<1>5. CASE Pass!Send
  <2>0. m4 = "send" /\ UNCHANGED <<m1, m2, m3, m7, m9>>
    BY <1>5 DEF Pass!Send
  <2>1. CASE m1 = "wait" /\ ~ m9
    <3>1. Pass!Answering
      BY <2>0, <2>1 DEF Pass!IInv, Pass!Asked, Pass!Answered
    <3>2. /\ m8' = Append(m8, Head(m6)) /\ m6' = Tail(m6)
          /\ m4' = IF Len(m6) = 1 THEN "read" ELSE "send"
      BY <1>5, <2>1 DEF Pass!Send, Pass!ClientGone
    <3>3. CASE m8 = <<>> /\ m6 = <<m6[1]>> /\ Pass!Final(m6[1])
      <4>1. m8' = <<m6[1]>> /\ m4' = "read"
        BY <3>2, <3>3
      <4>2. Pass!Answered'
        BY <4>1, <3>1, <3>3, <2>0 DEF Pass!Answered, Pass!Answering, Pass!Final
      <4> QED BY <4>2, <2>0, <2>1, <1>0 DEF Pass!IInv
    <3>4. CASE m8 = <<>> /\ m6 = <<m6[1], m6[2]>> /\ Pass!Text(m6[1]) /\ Pass!Final(m6[2])
      <4>1. m8' = <<m6[1]>> /\ m6' = <<m6[2]>> /\ m4' = "send"
        <5>1. Len(m6) = 2 /\ Head(m6) = m6[1] /\ Tail(m6) = <<m6[2]>>
          BY <3>4, TailTwo
        <5> QED BY <5>1, <3>2, <3>4
      <4>2. Pass!Answering'
        BY <4>1, <3>1, <3>4, <2>0 DEF Pass!Answering, Pass!Final, Pass!Text
      <4> QED BY <4>2, <2>0, <2>1, <1>0 DEF Pass!IInv
    <3>5. CASE m8 = <<m8[1]>> /\ Pass!Text(m8[1]) /\ m6 = <<m6[1]>> /\ Pass!Final(m6[1])
      <4>1. m8' = <<m8[1], m6[1]>> /\ m4' = "read"
        <5>1. Len(m6) = 1 /\ Head(m6) = m6[1]
          BY <3>5
        <5>2. Append(m8, m6[1]) = <<m8[1], m6[1]>>
          BY <3>5, AppendOne
        <5> QED BY <5>1, <5>2, <3>2
      <4>2. Pass!Answered'
        BY <4>1, <3>1, <3>5, <2>0 DEF Pass!Answered, Pass!Answering, Pass!Final, Pass!Text
      <4> QED BY <4>2, <2>0, <2>1, <1>0 DEF Pass!IInv
    <3> QED BY <3>1, <3>3, <3>4, <3>5 DEF Pass!Answering
  <2>2. CASE ~ (m1 = "wait" /\ ~ m9)
    BY <2>0, <2>2, <1>0 DEF Pass!IInv
  <2> QED BY <2>1, <2>2
<1>6. CASE Pass!Eof
  BY <1>6, <1>0 DEF Pass!Eof, Pass!ClientGone, Pass!IInv
<1>7. CASE UNCHANGED Pass!vars
  BY <1>7 DEF Pass!vars, Pass!IInv, Pass!Asked, Pass!Answering, Pass!Answered, Pass!Final, Pass!Text
<1> QED BY <1>1, <1>2, <1>3, <1>4, <1>5, <1>6, <1>7 DEF Pass!Next, Pass!Server

LEMMA PassProps == Pass!IInv => Pass!ReplyIsMine /\ Pass!NoDump /\ Pass!Settled
  BY DEF Pass!IInv, Pass!ReplyIsMine, Pass!NoDump, Pass!Settled

-----------------------------------------------------------------------------
(* Xsi is XsiPoll: queue messages that helper threads turn into datagrams. *)
(*                                                                         *)
(* m1 prog, m2 queue, m3 sock, m4 m, m5 helper, m6 msg, m7 ready,          *)
(* m8 main, m9 printed, m10 spurious.                                      *)

LEMMA XsiSent ==
  /\ Xsi!Sent \in Seq(Xsi!Message) /\ Len(Xsi!Sent) = MAXMSZ
  /\ \A n \in 1..MAXMSZ : Xsi!Sent[n] \in Xsi!Message /\ Xsi!Sent[n][2] < MAXMSZ
<1>1. ASSUME NEW n \in 1..MAXMSZ PROVE <<n, Xsi!strncpy(n)>> \in Xsi!Message /\ Xsi!strncpy(n) < MAXMSZ
  BY XsiAssumption DEF Xsi!strncpy, Xsi!Message
<1>2. \A n \in 1..MAXMSZ : Xsi!Sent[n] \in Xsi!Message /\ Xsi!Sent[n][2] < MAXMSZ
  BY <1>1 DEF Xsi!Sent
<1>3. Xsi!Sent = [n \in 1..MAXMSZ |-> Xsi!Sent[n]] /\ MAXMSZ \in Nat
  BY XsiAssumption DEF Xsi!Sent
<1>4. Xsi!Sent \in Seq(Xsi!Message) /\ Len(Xsi!Sent) = MAXMSZ
  BY <1>2, <1>3
<1> QED BY <1>2, <1>4

\* The first message of a sequence and the rest.
LEMMA XsiTail ==
  ASSUME NEW t \in Seq(Xsi!Message), Len(t) > 0
  PROVE  /\ Head(t) = t[1] /\ t[1] \in Xsi!Message /\ Tail(t) \in Seq(Xsi!Message)
         /\ Len(Tail(t)) = Len(t) - 1
         /\ \A n \in 1..Len(t) - 1 : Tail(t)[n] = t[n + 1]
  OBVIOUS

LEMMA XsiInit == Xsi!Init => Xsi!IInv
<1> SUFFICES ASSUME Xsi!Init PROVE Xsi!IInv
  OBVIOUS
<1>0. Xsi!None \in Xsi!Message /\ Xsi!None[2] = 0
  BY DEF Xsi!None, Xsi!Message
<1>1. Xsi!TypeOK
  BY <1>0, XsiSent DEF Xsi!Init, Xsi!TypeOK
<1>2. ASSUME NEW q \in Queue PROVE Xsi!QOK(q)
  <2>1. /\ m2[q] = Xsi!Sent /\ m3[q] = <<>> /\ m9[q] = <<>> /\ m6[q] = Xsi!None /\ m5[q] = "recv"
        /\ m7 = {} /\ m8 = "poll"
    BY DEF Xsi!Init
  <2>2. Len(m2[q]) = MAXMSZ /\ Len(m3[q]) = 0 /\ Len(m9[q]) = 0 /\ Xsi!Received(q) = 0
    BY <2>1, XsiSent, XsiAssumption DEF Xsi!Received
  <2>3. Xsi!QueueOK(q)
    BY <2>1, <2>2, XsiAssumption DEF Xsi!QueueOK
  <2>4. Xsi!SizeOK(q) /\ Xsi!InOrder(q)
    BY <2>1, <2>2, <1>0, XsiAssumption DEF Xsi!SizeOK, Xsi!InOrder
  <2>5. Xsi!DatagramOK(q)
    BY <2>1, <2>2 DEF Xsi!DatagramOK
  <2>6. Xsi!SharedOK(q)
    BY <2>1, <2>2, XsiAssumption DEF Xsi!SharedOK
  <2> QED BY <2>3, <2>4, <2>5, <2>6 DEF Xsi!QOK
<1> QED BY <1>1, <1>2 DEF Xsi!IInv

\* What happens to one queue leaves the others as they are.
LEMMA XsiOther ==
  ASSUME Xsi!IInv, NEW q \in Queue, UNCHANGED m1,
         m2'[q] = m2[q], m3'[q] = m3[q], m4'[q] = m4[q], m5'[q] = m5[q],
         m6'[q] = m6[q], m9'[q] = m9[q],
         q \in m7' => q \in m7, m8' = q <=> m8 = q, m10' = 0 => m10 = 0
  PROVE  Xsi!QOK(q)'
<1>0. Xsi!QOK(q)
  BY DEF Xsi!IInv
<1>1. Xsi!Received(q)' = Xsi!Received(q)
  BY DEF Xsi!Received
<1>2. Xsi!QueueOK(q)' /\ Xsi!SizeOK(q)'
  BY <1>0, <1>1 DEF Xsi!QOK, Xsi!QueueOK, Xsi!SizeOK
<1>3. Xsi!InOrder(q) => Xsi!InOrder(q)'
  BY DEF Xsi!InOrder
<1>4. Xsi!DatagramOK(q) => Xsi!DatagramOK(q)'
  BY <1>1 DEF Xsi!DatagramOK
<1>5. Xsi!SharedOK(q) => Xsi!SharedOK(q)'
  BY <1>1 DEF Xsi!SharedOK
<1> QED BY <1>0, <1>2, <1>3, <1>4, <1>5 DEF Xsi!QOK

LEMMA XsiRecv == ASSUME Xsi!IInv, NEW q \in Queue, Xsi!msgrcv(q) PROVE Xsi!IInv'
<1>t. Xsi!TypeOK /\ Xsi!QOK(q)
  BY DEF Xsi!IInv
<1> DEFINE x == Head(m2[q])
<1>1. /\ m5[q] = "recv" /\ m2[q] # <<>> /\ m6' = [m6 EXCEPT ![q] = x]
      /\ m2' = [m2 EXCEPT ![q] = Tail(m2[q])] /\ m5' = [m5 EXCEPT ![q] = "write"]
      /\ m4' = IF m1 = "shared" THEN [m4 EXCEPT ![q] = x] ELSE m4
      /\ UNCHANGED <<m1, m3, m7, m8, m9, m10>>
  BY DEF Xsi!msgrcv, Xsi!Go
<1>2. m2[q] \in Seq(Xsi!Message) /\ Len(m2[q]) > 0
  BY <1>1, <1>t DEF Xsi!TypeOK
<1>3. /\ x = m2[q][1] /\ x \in Xsi!Message /\ Tail(m2[q]) \in Seq(Xsi!Message)
      /\ Len(Tail(m2[q])) = Len(m2[q]) - 1
      /\ \A n \in 1..Len(m2[q]) - 1 : Tail(m2[q])[n] = m2[q][n + 1]
  BY <1>2, XsiTail
<1> HIDE DEF x
<1>4. /\ m2'[q] = Tail(m2[q]) /\ m6'[q] = x /\ m5'[q] = "write"
      /\ m1 = "shared" => m4'[q] = x
  BY <1>1, <1>t DEF Xsi!TypeOK
<1>5. \A r \in Queue \ {q} : m2'[r] = m2[r] /\ m6'[r] = m6[r] /\ m5'[r] = m5[r] /\ m4'[r] = m4[r]
  BY <1>1, <1>t DEF Xsi!TypeOK
<1>6. Xsi!TypeOK'
  BY <1>1, <1>3, <1>t DEF Xsi!TypeOK
<1>7. ASSUME NEW r \in Queue, r # q PROVE Xsi!QOK(r)'
  BY <1>1, <1>5, <1>7, XsiOther
<1>8. Xsi!QOK(q)'
  <2>0. Len(m2[q]) \in Nat /\ Len(m2[q]) <= MAXMSZ /\ MAXMSZ \in Nat
    BY <1>2, <1>t, XsiAssumption DEF Xsi!QOK, Xsi!QueueOK
  <2>1. Xsi!Received(q)' = Xsi!Received(q) + 1 /\ Xsi!Received(q) \in Nat /\ Xsi!Received(q) + 1 \in 1..MAXMSZ
    <3>1. Len(m2'[q]) = Len(m2[q]) - 1 /\ Len(m2[q]) > 0
      BY <1>2, <1>3, <1>4
    <3>2. Xsi!Received(q)' = MAXMSZ - Len(m2'[q]) /\ Xsi!Received(q) = MAXMSZ - Len(m2[q])
      BY DEF Xsi!Received
    <3> QED BY ONLY <3>1, <3>2, <2>0
  <2>2. x = Xsi!Sent[Xsi!Received(q)']
    BY <1>2, <1>3, <2>0, <2>1, <1>t DEF Xsi!QOK, Xsi!QueueOK
  <2>3. Xsi!QueueOK(q)'
    <3>1. Len(m2'[q]) <= MAXMSZ /\ Len(m2'[q]) = Len(m2[q]) - 1
      BY <1>3, <1>4, <2>0
    <3>2. ASSUME NEW n \in 1..Len(m2'[q]) PROVE m2'[q][n] = Xsi!Sent[Xsi!Received(q)' + n]
      <4>1. n \in 1..Len(m2[q]) - 1 /\ n + 1 \in 1..Len(m2[q])
        BY <3>1, <2>0
      <4>2. m2'[q][n] = m2[q][n + 1]
        BY <4>1, <1>3, <1>4
      <4>3. m2[q][n + 1] = Xsi!Sent[Xsi!Received(q) + (n + 1)]
        BY <4>1, <1>t DEF Xsi!QOK, Xsi!QueueOK
      <4>4. Xsi!Received(q) + (n + 1) = Xsi!Received(q)' + n
        BY <2>1
      <4> QED BY <4>2, <4>3, <4>4
    <3> QED BY <3>1, <3>2 DEF Xsi!QueueOK
  <2>4. Xsi!SizeOK(q)'
    <3>1. x[2] < MAXMSZ
      BY <2>1, <2>2, XsiSent
    <3> QED BY <3>1, <1>1, <1>4, <1>t DEF Xsi!QOK, Xsi!SizeOK
  <2>5. Xsi!InOrder(q) => Xsi!InOrder(q)'
    BY <1>1 DEF Xsi!InOrder
  <2>6. ASSUME m1 = "datagram" PROVE Xsi!DatagramOK(q)'
    <3>1. Xsi!DatagramOK(q)
      BY <2>6, <1>t DEF Xsi!QOK
    <3>2. Xsi!Received(q) = Len(m9[q]) + Len(m3[q]) + 0
      BY <3>1, <1>1 DEF Xsi!DatagramOK
    <3>3. Len(m9[q]) \in Nat /\ Len(m3[q]) \in Nat
      BY <1>t DEF Xsi!TypeOK
    <3>4. Xsi!Received(q)' = Len(m9[q]) + Len(m3[q]) + 1
      BY ONLY <3>2, <3>3, <2>1
    <3>5. \A n \in 1..Len(m3[q]) : m3[q][n] = Xsi!Sent[Len(m9[q]) + n]
      BY <3>1 DEF Xsi!DatagramOK
    <3> QED BY <3>4, <3>5, <1>1, <1>4, <2>2 DEF Xsi!DatagramOK
  <2>7. ASSUME m1 = "shared", m10 = 0 PROVE Xsi!SharedOK(q)'
    <3>1. Xsi!SharedOK(q)
      BY <2>7, <1>t DEF Xsi!QOK
    <3>2. Xsi!Received(q) = Len(m9[q]) + 0 /\ m8 # q /\ Len(m3[q]) = 0
      BY <3>1, <1>1 DEF Xsi!SharedOK
    <3>3. Len(m9[q]) \in Nat
      BY <1>t DEF Xsi!TypeOK
    <3>4. Xsi!Received(q)' = Len(m9[q]) + 1
      BY ONLY <3>2, <3>3, <2>1
    <3> QED BY <3>2, <3>4, <2>7, <1>1, <1>4, <2>2 DEF Xsi!SharedOK
  <2> QED BY <1>1, <2>3, <2>4, <2>5, <2>6, <2>7, <1>t DEF Xsi!QOK
<1> QED BY <1>6, <1>7, <1>8 DEF Xsi!IInv

LEMMA XsiWrite == ASSUME Xsi!IInv, NEW q \in Queue, Xsi!write(q) PROVE Xsi!IInv'
<1>t. Xsi!TypeOK /\ Xsi!QOK(q)
  BY DEF Xsi!IInv
<1> DEFINE s == m3[q]
           x == m6[q]
           h == IF m1 = "shared" THEN "wait" ELSE "recv"
<1>1. /\ m5[q] = "write" /\ m3' = [m3 EXCEPT ![q] = Append(s, x)]
      /\ m5' = [m5 EXCEPT ![q] = h]
      /\ UNCHANGED <<m1, m2, m4, m6, m7, m8, m9, m10>>
  BY DEF Xsi!write, Xsi!Go
<1>2. s \in Seq(Xsi!Message) /\ x \in Xsi!Message /\ Len(s) \in Nat
  BY <1>t DEF Xsi!TypeOK
<1>3. /\ Append(s, x) \in Seq(Xsi!Message) /\ Len(Append(s, x)) = Len(s) + 1
      /\ \A n \in 1 .. Len(s) : Append(s, x)[n] = s[n]
      /\ Append(s, x)[Len(s) + 1] = x
  BY <1>2, AppendSeq
<1>4. m3'[q] = Append(s, x) /\ m5'[q] = h
  BY <1>1, <1>t DEF Xsi!TypeOK
<1>5. \A r \in Queue \ {q} : m3'[r] = m3[r] /\ m5'[r] = m5[r]
  BY <1>1, <1>t DEF Xsi!TypeOK
<1>6. Xsi!TypeOK'
  BY <1>1, <1>3, <1>t DEF Xsi!TypeOK
<1>7. ASSUME NEW r \in Queue, r # q PROVE Xsi!QOK(r)'
  BY <1>1, <1>5, <1>7, XsiOther
<1>8. Xsi!QOK(q)'
  <2>1. Xsi!Received(q)' = Xsi!Received(q) /\ Xsi!QueueOK(q)'
    BY <1>1, <1>t DEF Xsi!QOK, Xsi!QueueOK, Xsi!Received
  <2>2. Xsi!InOrder(q) => Xsi!InOrder(q)'
    BY <1>1 DEF Xsi!InOrder
  <2>3. \A n \in 1..Len(m3'[q]) : (n \in 1..Len(s) /\ m3'[q][n] = s[n]) \/ (n = Len(s) + 1 /\ m3'[q][n] = x)
    BY <1>2, <1>3, <1>4
  <2>4. Xsi!SizeOK(q)'
    <3>1. x[2] < MAXMSZ /\ \A n \in 1..Len(s) : s[n][2] < MAXMSZ
      BY <1>t DEF Xsi!QOK, Xsi!SizeOK
    <3>2. Len(m3'[q]) > 0
      BY <1>2, <1>3, <1>4
    <3> QED BY <3>1, <3>2, <2>3, <1>1 DEF Xsi!SizeOK
  <2>5. ASSUME m1 = "datagram" PROVE Xsi!DatagramOK(q)'
    <3>1. Xsi!DatagramOK(q) /\ m5'[q] = "recv"
      BY <2>5, <1>4, <1>t DEF Xsi!QOK
    <3>2. Len(m9[q]) \in Nat /\ Xsi!Received(q) = Len(m9[q]) + Len(s) + 1 /\ x = Xsi!Sent[Xsi!Received(q)]
      BY <3>1, <1>1, <1>t DEF Xsi!DatagramOK, Xsi!TypeOK
    <3>3. ASSUME NEW n \in 1..Len(m3'[q]) PROVE m3'[q][n] = Xsi!Sent[Len(m9[q]) + n]
      <4>1. CASE n \in 1..Len(s) /\ m3'[q][n] = s[n]
        BY <4>1, <3>1 DEF Xsi!DatagramOK
      <4>2. CASE n = Len(s) + 1 /\ m3'[q][n] = x
        <5> DEFINE a == Len(m9[q])
                   c == Len(s)
                   e == Xsi!Received(q)
        <5>1. e = a + c + 1 /\ a \in Nat /\ c \in Nat /\ n = c + 1
          BY <1>2, <3>2, <4>2
        <5> HIDE DEF a, c, e
        <5>2. a + n = e
          BY ONLY <5>1
        <5> QED BY <5>2, <4>2, <3>2 DEF a, e
      <4> QED BY <4>1, <4>2, <2>3
    <3>4. Xsi!Received(q)' = Len(m9[q]) + Len(m3'[q])
      <4> DEFINE a == Len(m9[q])
                 c == Len(s)
                 d == Len(m3'[q])
                 e == Xsi!Received(q)
      <4>1. d = c + 1 /\ e = a + c + 1 /\ a \in Nat /\ c \in Nat
        BY <1>2, <1>3, <1>4, <3>2
      <4> HIDE DEF a, c, d, e
      <4>2. e = a + d
        BY ONLY <4>1
      <4> QED BY <4>2, <2>1 DEF a, d, e
    <3> QED BY <3>1, <3>2, <3>3, <3>4, <1>1, <1>3, <1>4, <1>2 DEF Xsi!DatagramOK
  <2>6. ASSUME m1 = "shared", m10 = 0 PROVE Xsi!SharedOK(q)'
    <3>1. Xsi!SharedOK(q) /\ m5'[q] = "wait"
      BY <2>6, <1>4, <1>t DEF Xsi!QOK
    <3>2. Len(m3'[q]) = 1 /\ m8 # q
      BY <3>1, <1>1, <1>3, <1>4 DEF Xsi!SharedOK
    <3> QED BY <3>1, <3>2, <2>1, <1>1 DEF Xsi!SharedOK
  <2> QED BY <1>1, <2>1, <2>2, <2>4, <2>5, <2>6, <1>t DEF Xsi!QOK
<1> QED BY <1>6, <1>7, <1>8 DEF Xsi!IInv

LEMMA XsiWoken == ASSUME Xsi!IInv, NEW q \in Queue, Xsi!Woken(q) \/ Xsi!Spurious(q) PROVE Xsi!IInv'
<1>t. Xsi!TypeOK /\ Xsi!QOK(q)
  BY DEF Xsi!IInv
<1>1. CASE Xsi!Woken(q)
  <2>1. /\ m5[q] = "woken" /\ m5' = [m5 EXCEPT ![q] = "recv"] /\ m4' = [m4 EXCEPT ![q] = Xsi!None]
        /\ UNCHANGED <<m1, m2, m3, m6, m7, m8, m9, m10>>
    BY <1>1 DEF Xsi!Woken, Xsi!Go
  <2>2. m5'[q] = "recv"
    BY <2>1, <1>t DEF Xsi!TypeOK
  <2>3. \A r \in Queue \ {q} : m4'[r] = m4[r] /\ m5'[r] = m5[r]
    BY <2>1, <1>t DEF Xsi!TypeOK
  <2>4. Xsi!None \in Xsi!Message
    BY DEF Xsi!None, Xsi!Message
  <2>5. Xsi!TypeOK'
    BY <2>1, <2>4, <1>t DEF Xsi!TypeOK
  <2>6. ASSUME NEW r \in Queue, r # q PROVE Xsi!QOK(r)'
    BY <2>1, <2>3, <2>6, XsiOther
  <2>7. Xsi!QOK(q)'
    <3>1. Xsi!Received(q)' = Xsi!Received(q) /\ Xsi!QueueOK(q)' /\ Xsi!SizeOK(q)'
      BY <2>1, <1>t DEF Xsi!QOK, Xsi!QueueOK, Xsi!Received, Xsi!SizeOK
    <3>2. Xsi!InOrder(q) => Xsi!InOrder(q)'
      BY <2>1 DEF Xsi!InOrder
    <3>3. ~ Xsi!DatagramOK(q)
      BY <2>1 DEF Xsi!DatagramOK
    <3>4. Xsi!SharedOK(q) => Xsi!SharedOK(q)'
      BY <2>1, <2>2, <3>1 DEF Xsi!SharedOK
    <3> QED BY <2>1, <3>1, <3>2, <3>3, <3>4, <1>t DEF Xsi!QOK
  <2> QED BY <2>5, <2>6, <2>7 DEF Xsi!IInv
<1>2. CASE Xsi!Spurious(q)
  <2>1. /\ m5[q] = "wait" /\ m5' = [m5 EXCEPT ![q] = "woken"] /\ m10' = m10 + 1
        /\ UNCHANGED <<m1, m2, m3, m4, m6, m7, m8, m9>>
    BY <1>2 DEF Xsi!Spurious, Xsi!Go
  <2>2. m10' # 0 /\ m10' \in Nat
    BY <2>1, <1>t DEF Xsi!TypeOK
  <2>3. \A r \in Queue \ {q} : m5'[r] = m5[r]
    BY <2>1, <1>t DEF Xsi!TypeOK
  <2>5. Xsi!TypeOK'
    BY <2>1, <2>2, <1>t DEF Xsi!TypeOK
  <2>6. ASSUME NEW r \in Queue, r # q PROVE Xsi!QOK(r)'
    BY <2>1, <2>2, <2>3, <2>6, XsiOther
  <2>7. Xsi!QOK(q)'
    <3>1. Xsi!QueueOK(q)' /\ Xsi!SizeOK(q)'
      BY <2>1, <1>t DEF Xsi!QOK, Xsi!QueueOK, Xsi!Received, Xsi!SizeOK
    <3>3. ~ Xsi!DatagramOK(q)
      BY <2>1 DEF Xsi!DatagramOK
    <3> QED BY <2>1, <2>2, <3>1, <3>3, <1>t DEF Xsi!QOK
  <2> QED BY <2>5, <2>6, <2>7 DEF Xsi!IInv
<1> QED BY <1>1, <1>2

LEMMA XsiPolls == ASSUME Xsi!IInv, Xsi!poll PROVE Xsi!IInv'
<1>t. Xsi!TypeOK
  BY DEF Xsi!IInv
<1>1. /\ m7' = {q \in Queue : m3[q] # <<>>}
      /\ UNCHANGED <<m1, m2, m3, m4, m5, m6, m8, m9, m10>>
  BY DEF Xsi!poll
<1>2. Xsi!TypeOK'
  BY <1>1, <1>t DEF Xsi!TypeOK
<1>3. ASSUME NEW q \in Queue PROVE Xsi!QOK(q)'
  <2>0. Xsi!QOK(q)
    BY DEF Xsi!IInv
  <2>1. q \in m7' => Len(m3'[q]) > 0
    BY <1>1, <1>t DEF Xsi!TypeOK
  <2>2. Xsi!Received(q)' = Xsi!Received(q) /\ Xsi!QueueOK(q)' /\ Xsi!SizeOK(q)'
    BY <1>1, <2>0, <2>1 DEF Xsi!QOK, Xsi!QueueOK, Xsi!Received, Xsi!SizeOK
  <2>3. Xsi!InOrder(q) => Xsi!InOrder(q)'
    BY <1>1 DEF Xsi!InOrder
  <2>4. Xsi!DatagramOK(q) => Xsi!DatagramOK(q)'
    BY <1>1, <2>2 DEF Xsi!DatagramOK
  <2>5. Xsi!SharedOK(q) => Xsi!SharedOK(q)'
    BY <1>1, <2>2 DEF Xsi!SharedOK
  <2> QED BY <1>1, <2>0, <2>2, <2>3, <2>4, <2>5 DEF Xsi!QOK
<1> QED BY <1>2, <1>3 DEF Xsi!IInv

LEMMA XsiRead == ASSUME Xsi!IInv, NEW q \in Queue, Xsi!read(q) PROVE Xsi!IInv'
<1>t. Xsi!TypeOK /\ Xsi!QOK(q)
  BY DEF Xsi!IInv
<1> DEFINE s == m3[q]
<1>1. /\ m8 = "poll" /\ q \in m7 /\ m3' = [m3 EXCEPT ![q] = Tail(s)] /\ m7' = m7 \ {q}
      /\ UNCHANGED <<m1, m2, m4, m5, m6, m10>>
  BY DEF Xsi!read
<1>2. s \in Seq(Xsi!Message) /\ Len(s) > 0 /\ Len(s) \in Nat
  BY <1>1, <1>t DEF Xsi!TypeOK, Xsi!QOK, Xsi!SizeOK
<1>3. /\ Head(s) = s[1] /\ s[1] \in Xsi!Message /\ Tail(s) \in Seq(Xsi!Message)
      /\ Len(Tail(s)) = Len(s) - 1
      /\ \A n \in 1..Len(s) - 1 : Tail(s)[n] = s[n + 1]
  BY <1>2, XsiTail
<1>4. m3'[q] = Tail(s) /\ \A r \in Queue \ {q} : m3'[r] = m3[r]
  BY <1>1, <1>t DEF Xsi!TypeOK
<1>5. Xsi!Received(q)' = Xsi!Received(q) /\ Xsi!QueueOK(q)'
  BY <1>1, <1>t DEF Xsi!QOK, Xsi!QueueOK, Xsi!Received
<1>6. Xsi!SizeOK(q)'
  <2>1. ASSUME NEW n \in 1..Len(m3'[q]) PROVE m3'[q][n][2] < MAXMSZ
    <3>1. n + 1 \in 1..Len(s) /\ m3'[q][n] = s[n + 1]
      BY <1>2, <1>3, <1>4
    <3> QED BY <3>1, <1>t DEF Xsi!QOK, Xsi!SizeOK
  <2> QED BY <2>1, <1>1, <1>t DEF Xsi!QOK, Xsi!SizeOK
<1>7. CASE m1 = "datagram" /\ m9' = [m9 EXCEPT ![q] = Append(m9[q], Head(s))] /\ UNCHANGED m8
  <2>0. Xsi!DatagramOK(q) /\ Xsi!InOrder(q) /\ m9[q] \in Seq(Xsi!Message) /\ Len(m9[q]) \in Nat
    BY <1>7, <1>t DEF Xsi!QOK, Xsi!TypeOK
  <2>1. /\ Append(m9[q], Head(s)) \in Seq(Xsi!Message)
        /\ Len(Append(m9[q], Head(s))) = Len(m9[q]) + 1
        /\ \A n \in 1 .. Len(m9[q]) : Append(m9[q], Head(s))[n] = m9[q][n]
        /\ Append(m9[q], Head(s))[Len(m9[q]) + 1] = s[1]
    BY <2>0, <1>3, AppendSeq
  <2>2. m9'[q] = Append(m9[q], Head(s)) /\ \A r \in Queue \ {q} : m9'[r] = m9[r]
    BY <1>7, <1>t DEF Xsi!TypeOK
  <2>3. Xsi!TypeOK'
    BY <1>1, <1>3, <1>7, <2>1, <1>t DEF Xsi!TypeOK
  <2>4. ASSUME NEW r \in Queue, r # q PROVE Xsi!QOK(r)'
    BY <1>1, <1>4, <1>7, <2>2, <2>4, XsiOther
  <2>5. s[1] = Xsi!Sent[Len(m9[q]) + 1]
    BY <2>0, <1>2 DEF Xsi!DatagramOK
  <2>6. Len(m9[q]) + 1 <= MAXMSZ
    <3>1. Xsi!Received(q) = Len(m9[q]) + Len(s) + 0 \/ Xsi!Received(q) = Len(m9[q]) + Len(s) + 1
      BY <2>0 DEF Xsi!DatagramOK
    <3>2. Xsi!Received(q) <= MAXMSZ
      BY <1>t, XsiAssumption DEF Xsi!Received, Xsi!TypeOK
    <3>3. Xsi!Received(q) \in Int
      BY <1>t, XsiAssumption DEF Xsi!Received, Xsi!TypeOK
    <3>4. Len(m9[q]) \in Nat /\ MAXMSZ \in Nat
      BY <2>0, XsiAssumption
    <3> DEFINE a == Len(m9[q])
               c == Len(s)
               e == Xsi!Received(q)
    <3>5. /\ e = a + c + 0 \/ e = a + c + 1
          /\ e <= MAXMSZ /\ a \in Nat /\ MAXMSZ \in Nat /\ c \in Nat /\ c > 0
      BY <3>1, <3>2, <3>4, <1>2
    <3> HIDE DEF a, c, e
    <3>6. a + 1 <= MAXMSZ
      BY ONLY <3>5
    <3> QED BY <3>6 DEF a
  <2>7. Xsi!InOrder(q)'
    <3>1. ASSUME NEW n \in 1..Len(m9'[q]) PROVE m9'[q][n] = Xsi!Sent[n]
      <4>1. n \in 1..Len(m9[q]) \/ n = Len(m9[q]) + 1
        BY <2>0, <2>1, <2>2
      <4> QED BY <4>1, <2>0, <2>1, <2>2, <2>5 DEF Xsi!InOrder
    <3> QED BY <3>1, <2>1, <2>2, <2>6 DEF Xsi!InOrder
  <2>8. Xsi!DatagramOK(q)'
    <3>1. ASSUME NEW n \in 1..Len(m3'[q]) PROVE m3'[q][n] = Xsi!Sent[Len(m9'[q]) + n]
      <4>1. n + 1 \in 1..Len(s) /\ m3'[q][n] = s[n + 1]
        BY <1>2, <1>3, <1>4
      <4>2. s[n + 1] = Xsi!Sent[Len(m9[q]) + (n + 1)]
        BY <4>1, <2>0 DEF Xsi!DatagramOK
      <4>3. Len(m9[q]) + (n + 1) = Len(m9'[q]) + n
        <5> DEFINE a == Len(m9[q])
                   b == Len(m9'[q])
        <5>1. b = a + 1 /\ n \in Int /\ a \in Nat
          BY <2>0, <2>1, <2>2
        <5> HIDE DEF a, b
        <5>2. a + (n + 1) = b + n
          BY ONLY <5>1
        <5> QED BY <5>2 DEF a, b
      <4> QED BY <4>1, <4>2, <4>3
    <3>2. Len(m9'[q]) + Len(m3'[q]) = Len(m9[q]) + Len(s)
      <4> DEFINE a == Len(m9[q])
                 b == Len(m9'[q])
                 c == Len(s)
                 d == Len(m3'[q])
      <4>1. b = a + 1 /\ a \in Nat
        BY <2>0, <2>1, <2>2
      <4>2. d = c - 1 /\ c \in Nat
        BY <1>2, <1>3, <1>4
      <4> HIDE DEF a, b, c, d
      <4>3. b + d = a + c
        BY ONLY <4>1, <4>2
      <4> QED BY <4>3 DEF a, b, c, d
    <3> QED BY <3>1, <3>2, <2>0, <1>1, <1>5 DEF Xsi!DatagramOK
  <2>9. Xsi!QOK(q)'
    BY <1>1, <1>5, <1>6, <1>7, <2>7, <2>8 DEF Xsi!QOK
  <2> QED BY <2>3, <2>4, <2>9 DEF Xsi!IInv
<1>8. CASE m1 = "shared" /\ m8' = q /\ UNCHANGED m9
  <2>1. Xsi!TypeOK'
    BY <1>1, <1>3, <1>8, <1>t DEF Xsi!TypeOK
  <2>2. ASSUME NEW r \in Queue, r # q PROVE Xsi!QOK(r)'
    <3>1. m8 # r /\ m8' # r
      BY <1>1, <1>8, <2>2, XsiAssumption
    <3> QED BY <3>1, <1>1, <1>4, <1>8, <2>2, XsiOther
  <2>3. ASSUME m10 = 0 PROVE Xsi!InOrder(q)' /\ Xsi!SharedOK(q)'
    <3>1. Xsi!InOrder(q) /\ Xsi!SharedOK(q)
      BY <2>3, <1>8, <1>t DEF Xsi!QOK
    <3>2. m8 # q
      BY <1>1, XsiAssumption
    <3>3. m5[q] = "wait" /\ Len(s) = 1
      BY <3>1, <3>2, <1>2 DEF Xsi!SharedOK
    <3>4. Xsi!InOrder(q)'
      BY <3>1, <1>8 DEF Xsi!InOrder
    <3>5. Len(m3'[q]) = 0
      BY <3>3, <1>3, <1>4
    <3>6. Xsi!Received(q) = Len(m9[q]) + 1 /\ m4[q] = Xsi!Sent[Xsi!Received(q)] /\ m6[q] = m4[q]
      BY <3>1, <3>3 DEF Xsi!SharedOK
    <3>7. /\ Xsi!Received(q)' = Len(m9'[q]) + 1 /\ m4'[q] = Xsi!Sent[Xsi!Received(q)'] /\ m6'[q] = m4'[q]
          /\ m5'[q] = "wait" /\ m8' = q
      BY <3>3, <3>6, <1>1, <1>5, <1>8
    <3> QED BY <3>4, <3>5, <3>7 DEF Xsi!SharedOK
  <2>4. Xsi!QOK(q)'
    BY <1>1, <1>5, <1>6, <1>8, <2>3 DEF Xsi!QOK
  <2> QED BY <2>1, <2>2, <2>4 DEF Xsi!IInv
<1> QED BY <1>7, <1>8 DEF Xsi!read

LEMMA XsiPrint == ASSUME Xsi!IInv, NEW q \in Queue, Xsi!PrintShared(q) PROVE Xsi!IInv'
<1>t. Xsi!TypeOK /\ Xsi!QOK(q)
  BY DEF Xsi!IInv
<1> DEFINE h == IF m5[q] = "wait" THEN "woken" ELSE m5[q]
           p == Append(m9[q], m4[q])
<1>0. m5 = [r \in Queue |-> m5[r]]
  BY <1>t DEF Xsi!TypeOK
<1>1. /\ m8 = q /\ m8' = "poll" /\ m9' = [m9 EXCEPT ![q] = p]
      /\ m5' = [m5 EXCEPT ![q] = h]
      /\ UNCHANGED <<m1, m2, m3, m4, m6, m7, m10>>
  BY <1>0 DEF Xsi!PrintShared
<1>2. m1 = "shared" /\ m8 # "poll"
  BY <1>1, <1>t, XsiAssumption DEF Xsi!TypeOK
<1>3. m9[q] \in Seq(Xsi!Message) /\ m4[q] \in Xsi!Message /\ Len(m9[q]) \in Nat
  BY <1>t DEF Xsi!TypeOK
<1>4. /\ p \in Seq(Xsi!Message) /\ Len(p) = Len(m9[q]) + 1
      /\ \A n \in 1 .. Len(m9[q]) : p[n] = m9[q][n]
      /\ p[Len(m9[q]) + 1] = m4[q]
  BY <1>3, AppendSeq
<1> HIDE DEF p
<1>5. m9'[q] = p /\ m5'[q] = h
  BY <1>1, <1>t DEF Xsi!TypeOK
<1>6. \A r \in Queue \ {q} : m9'[r] = m9[r] /\ m5'[r] = m5[r]
  BY <1>1, <1>t DEF Xsi!TypeOK
<1>7. Xsi!TypeOK'
  <2>1. h \in {"recv", "write", "wait", "woken"}
    BY <1>t DEF Xsi!TypeOK
  <2> QED BY <2>1, <1>1, <1>2, <1>4, <1>t DEF Xsi!TypeOK
<1>8. ASSUME NEW r \in Queue, r # q PROVE Xsi!QOK(r)'
  <2>1. m8 # r /\ m8' # r
    BY <1>1, <1>8, XsiAssumption
  <2> QED BY <2>1, <1>1, <1>6, <1>8, XsiOther
<1>9. ASSUME m10 = 0 PROVE Xsi!InOrder(q)' /\ Xsi!SharedOK(q)'
  <2>1. Xsi!InOrder(q) /\ Xsi!SharedOK(q)
    BY <1>9, <1>2, <1>t DEF Xsi!QOK
  <2>2. m5[q] = "wait"
    BY <2>1, <1>1 DEF Xsi!SharedOK
  <2>3. /\ Xsi!Received(q) = Len(m9[q]) + 1 /\ m4[q] = Xsi!Sent[Xsi!Received(q)] /\ Len(m3[q]) = 0
    BY <2>1, <2>2, <1>1 DEF Xsi!SharedOK
  <2>4. Xsi!Received(q) <= MAXMSZ
    BY <1>t, XsiAssumption DEF Xsi!Received, Xsi!TypeOK
  <2>5. Xsi!InOrder(q)'
    <3>1. ASSUME NEW n \in 1..Len(m9'[q]) PROVE m9'[q][n] = Xsi!Sent[n]
      <4>1. n \in 1..Len(m9[q]) \/ n = Len(m9[q]) + 1
        BY <1>3, <1>4, <1>5
      <4> QED BY <4>1, <2>1, <2>3, <1>3, <1>4, <1>5 DEF Xsi!InOrder
    <3> QED BY <3>1, <1>4, <1>5, <2>3, <2>4 DEF Xsi!InOrder
  <2>6. Xsi!Received(q)' = Xsi!Received(q)
    BY <1>1 DEF Xsi!Received
  <2>7. m5'[q] = "woken" /\ m8' # q
    BY <2>2, <1>1, <1>5, XsiAssumption
  <2> QED BY <2>3, <2>5, <2>6, <2>7, <1>1, <1>3, <1>4, <1>5 DEF Xsi!SharedOK
<1>10. Xsi!QueueOK(q)' /\ Xsi!SizeOK(q)'
  BY <1>1, <1>t DEF Xsi!QOK, Xsi!QueueOK, Xsi!Received, Xsi!SizeOK
<1>11. Xsi!QOK(q)'
  BY <1>1, <1>2, <1>9, <1>10 DEF Xsi!QOK
<1> QED BY <1>7, <1>8, <1>11 DEF Xsi!IInv

LEMMA XsiStep == ASSUME Xsi!IInv, [Xsi!Next]_(Xsi!vars) PROVE Xsi!IInv'
<1>1. CASE UNCHANGED Xsi!vars
  <2>1. UNCHANGED <<m1, m2, m3, m4, m5, m6, m7, m8, m9, m10>>
    BY <1>1 DEF Xsi!vars
  <2>2. Xsi!TypeOK'
    BY <2>1 DEF Xsi!IInv, Xsi!TypeOK
  <2>3. ASSUME NEW q \in Queue PROVE Xsi!QOK(q)'
    BY <2>1, XsiOther
  <2> QED BY <2>2, <2>3 DEF Xsi!IInv
<1> QED BY <1>1, XsiRecv, XsiWrite, XsiWoken, XsiPolls, XsiRead, XsiPrint DEF Xsi!Next, Xsi!MainStep, Xsi!HelperStep

LEMMA XsiProps == Xsi!IInv => Xsi!PrintedInOrder
<1> SUFFICES ASSUME Xsi!IInv PROVE Xsi!PrintedInOrder
  OBVIOUS
<1>1. ASSUME m10 = 0 \/ m1 = "datagram", NEW q \in Queue PROVE Xsi!InOrder(q)
  BY <1>1 DEF Xsi!IInv, Xsi!QOK, Xsi!TypeOK
<1>2. ASSUME NEW q \in Queue, NEW n \in DOMAIN m3[q] PROVE m3[q][n][2] < MAXMSZ
  <2>1. m3[q] \in Seq(Xsi!Message) /\ Xsi!SizeOK(q)
    BY DEF Xsi!IInv, Xsi!QOK, Xsi!TypeOK
  <2>2. n \in 1..Len(m3[q])
    BY <2>1
  <2> QED BY <2>1, <2>2 DEF Xsi!SizeOK
<1> QED BY <1>1, <1>2 DEF Xsi!PrintedInOrder

-----------------------------------------------------------------------------
(* Tty is TtyModes: terminal modes.                                        *)
(*                                                                         *)
(* m1 tty, m2 orig, m3 lib, m4 save_termios, m5 ttystate, m6 pc,           *)
(* m7 mode, m8 excuse.                                                     *)

LEMMA TtyInit == Tty!Init => Tty!IInv
  BY DEF Tty!Init, Tty!IInv, Tty!Found

\* A restoration that is made leaves what was found, or an excuse.
LEMMA TtyRestore ==
  ASSUME Tty!Saved, m8 \in BOOLEAN, m8' = (m8 \/ m1' # m4), UNCHANGED m2
  PROVE  Tty!Found' /\ m8' \in BOOLEAN
  BY DEF Tty!Saved, Tty!Found

LEMMA TtyStep == ASSUME Tty!IInv, [Tty!Next]_(Tty!vars) PROVE Tty!IInv'
<1>0. /\ m7 \in {"RAW", "CBREAK"} /\ m8 \in BOOLEAN
      /\ m6 \in {"call", "set", "verify", "state", "read", "end"}
  BY DEF Tty!IInv
<1>1. CASE Tty!tcgetattr1
  <2>1. /\ m5 = "RESET" /\ Tty!Found /\ m5' = "RESET" /\ Tty!Found'
        /\ UNCHANGED <<m7, m8, m2>>
    BY <1>1 DEF Tty!tcgetattr1, Tty!IInv, Tty!Found
  <2>2. m6' = "end" \/ (m6' = "set" /\ m4' = m1)
    BY <1>1 DEF Tty!tcgetattr1, Tty!err_sys
  <2> QED BY <2>1, <2>2, <1>0 DEF Tty!IInv, Tty!Saved, Tty!Found
<1>2. CASE Tty!SetMode
  <2>1. /\ m5 = "RESET" /\ Tty!Saved /\ Tty!Found
        /\ UNCHANGED <<m7, m8, m2, m5, m4>>
    BY <1>2 DEF Tty!SetMode, Tty!IInv
  <2>2. (m6' = "end" /\ m1' = m1) \/ m6' = "verify"
    BY <1>2 DEF Tty!SetMode, Tty!err_sys
  <2> QED BY <2>1, <2>2, <1>0 DEF Tty!IInv, Tty!Saved, Tty!Found
<1>3. CASE Tty!Verify
  <2>1. /\ m5 = "RESET" /\ Tty!Saved
        /\ UNCHANGED <<m7, m2, m5, m4>>
    BY <1>3 DEF Tty!Verify, Tty!IInv
  <2>2. CASE m6' = "end" /\ Tty!Restore
    <3>1. m8' = (m8 \/ m1' # m4)
      BY <2>2 DEF Tty!Restore
    <3>2. Tty!Found' /\ m8' \in BOOLEAN
      BY <3>1, <2>1, <1>0, TtyRestore
    <3> QED BY <3>2, <2>1, <2>2, <1>0 DEF Tty!IInv
  <2>3. CASE m6' = "state" /\ Tty!InMode /\ UNCHANGED <<m1, m8>>
    BY <2>3, <2>1, <1>0 DEF Tty!IInv, Tty!InMode, Tty!Saved, Tty!Required
  <2> QED BY <2>2, <2>3, <1>3 DEF Tty!Verify, Tty!err_sys, Tty!InMode
<1>4. CASE Tty!Entered
  BY <1>4, <1>0 DEF Tty!Entered, Tty!IInv, Tty!InMode, Tty!Saved, Tty!Required
<1>5. CASE Tty!Reset
  <2>1. /\ m5 = m7 /\ Tty!Saved /\ Tty!InMode /\ m7 # "RESET"
        /\ UNCHANGED <<m2, m4>>
    BY <1>5, <1>0 DEF Tty!Reset, Tty!IInv
  <2>2. CASE m1' = m1 /\ m5' = m5 /\ m8' = TRUE
    <3>1. m6' = "end" /\ m7' = m7
      BY <2>1, <2>2, <1>5 DEF Tty!Reset, Tty!err_sys
    <3>2. Tty!InMode' /\ Tty!Found'
      BY <2>1, <2>2, <3>1 DEF Tty!InMode, Tty!Required, Tty!Found
    <3> QED BY <2>1, <2>2, <3>1, <3>2, <1>0 DEF Tty!IInv
  <2>3. CASE m5' = "RESET" /\ m8' = (m8 \/ m1' # m4)
    <3>1. Tty!Found' /\ m8' \in BOOLEAN
      BY <2>1, <2>3, <1>0, TtyRestore
    <3>2. (m6' = "end" /\ m7' = m7) \/ (m6' = "call" /\ m7' = "CBREAK")
      BY <1>5 DEF Tty!Reset, Tty!err_sys
    <3> QED BY <2>3, <3>1, <3>2, <1>0 DEF Tty!IInv
  <2> QED BY <2>2, <2>3, <1>5 DEF Tty!Reset, Tty!tty_reset
<1>6. CASE Tty!sig_catch
  <2>0. /\ m6' = "end" /\ m6 # "end" /\ UNCHANGED <<m2, m4, m7>>
    BY <1>6 DEF Tty!sig_catch
  <2>1. CASE m5 = "RESET"
    <3>1. /\ m8' = (m8 \/ m6 \in {"verify", "state"}) /\ m1' = m1 /\ m5' = "RESET"
      BY <1>6, <2>1 DEF Tty!sig_catch
    <3>2. Tty!Found \/ m6 \in {"verify", "state"}
      BY <2>0, <2>1, <1>0 DEF Tty!IInv
    <3>3. Tty!Found' /\ m8' \in BOOLEAN
      BY <3>1, <3>2, <2>0, <1>0 DEF Tty!Found
    <3> QED BY <2>0, <3>1, <3>3, <1>0 DEF Tty!IInv
  <2>2. CASE m5 # "RESET"
    <3>1. Tty!Saved /\ Tty!InMode /\ m5 = m7
      BY <2>0, <2>2, <1>0 DEF Tty!IInv
    <3>2. CASE m1' = m1 /\ m5' = m5 /\ m8' = TRUE
      <4>1. Tty!InMode' /\ Tty!Found'
        BY <3>1, <3>2, <2>0 DEF Tty!InMode, Tty!Required, Tty!Found
      <4> QED BY <4>1, <3>1, <3>2, <2>0, <1>0 DEF Tty!IInv
    <3>3. CASE m5' = "RESET" /\ m8' = (m8 \/ m1' # m4)
      <4>1. Tty!Found' /\ m8' \in BOOLEAN
        BY <3>1, <3>3, <2>0, <1>0, TtyRestore
      <4> QED BY <4>1, <3>3, <2>0, <1>0 DEF Tty!IInv
    <3> QED BY <3>2, <3>3, <2>2, <1>6 DEF Tty!sig_catch, Tty!tty_reset
  <2> QED BY <2>1, <2>2
<1>7. CASE UNCHANGED Tty!vars
  BY <1>7 DEF Tty!vars, Tty!IInv, Tty!Found, Tty!Saved, Tty!InMode, Tty!Required
<1> QED BY <1>1, <1>2, <1>3, <1>4, <1>5, <1>6, <1>7 DEF Tty!Next, Tty!Ended

LEMMA TtyProps == Tty!IInv => Tty!ModeTrue
  BY DEF Tty!IInv, Tty!ModeTrue, Tty!Found, Tty!InMode

-----------------------------------------------------------------------------
(* Pty is Pty: a command run in a pseudo terminal.                         *)
(*                                                                         *)
(* m1 opt, m2 tty, m3 hook, m4 main, m5 child, m6 cmd, m7 drv, m8 eof,     *)
(* m9 left, m10 out, m11 sigcaught.                                        *)

LEMMA PtyInit == Pty!Init => Pty!IInv
  BY DEF Pty!Init, Pty!IInv, Pty!HookOK, Pty!DrainOK

LEMMA PtyStep == ASSUME Pty!IInv, [Pty!Next]_(Pty!vars) PROVE Pty!IInv'
<1>0. Pty!HookOK /\ Pty!DrainOK /\ m3 \in BOOLEAN /\ m11 \in BOOLEAN
  BY DEF Pty!IInv
<1>1. CASE Pty!pty_fork
  BY <1>0, <1>1 DEF Pty!IInv, Pty!HookOK, Pty!DrainOK, Pty!pty_fork
<1>2. CASE Pty!tty_raw
  <2>1. /\ m4 = "raw" /\ ~ m1.driver /\ m3 = FALSE
        /\ UNCHANGED <<m1, m5, m6, m7, m10, m11>>
    BY <1>0, <1>2 DEF Pty!tty_raw, Pty!HookOK
  <2>2. CASE m4' = "end" /\ UNCHANGED <<m2, m3>>
    BY <1>0, <2>1, <2>2 DEF Pty!IInv, Pty!HookOK, Pty!DrainOK
  <2>3. CASE m4' = "fork" /\ m3' = TRUE
    BY <1>0, <2>1, <2>3 DEF Pty!IInv, Pty!HookOK, Pty!DrainOK
  <2>4. CASE m4' = "end" /\ m3' = FALSE
    BY <1>0, <2>1, <2>4 DEF Pty!IInv, Pty!HookOK, Pty!DrainOK
  <2> QED BY <1>2, <2>2, <2>3, <2>4 DEF Pty!tty_raw
<1>3. CASE Pty!do_driver
  BY <1>0, <1>3 DEF Pty!IInv, Pty!HookOK, Pty!DrainOK, Pty!do_driver
<1>4. CASE Pty!fork
  BY <1>0, <1>4 DEF Pty!IInv, Pty!HookOK, Pty!DrainOK, Pty!fork, Pty!exit
<1>5. CASE Pty!signal_intr
  BY <1>0, <1>5 DEF Pty!IInv, Pty!HookOK, Pty!DrainOK, Pty!signal_intr
<1>6. CASE Pty!ReadMaster
  BY <1>0, <1>6 DEF Pty!IInv, Pty!HookOK, Pty!DrainOK, Pty!ReadMaster
<1>7. CASE Pty!WriteOut
  BY <1>0, <1>7 DEF Pty!IInv, Pty!HookOK, Pty!DrainOK, Pty!WriteOut, Pty!exit
<1>8. CASE Pty!KillChild
  BY <1>0, <1>8 DEF Pty!IInv, Pty!HookOK, Pty!DrainOK, Pty!KillChild
<1>9. CASE Pty!Return
  BY <1>0, <1>9 DEF Pty!IInv, Pty!HookOK, Pty!DrainOK, Pty!Return, Pty!exit
<1>10. CASE Pty!CopyIn
  BY <1>0, <1>10 DEF Pty!IInv, Pty!HookOK, Pty!DrainOK, Pty!CopyIn, Pty!exit
<1>11. CASE Pty!KillParent
  BY <1>0, <1>11 DEF Pty!IInv, Pty!HookOK, Pty!DrainOK, Pty!KillParent, Pty!Term
<1>12. CASE Pty!ChildExit
  BY <1>0, <1>12 DEF Pty!IInv, Pty!HookOK, Pty!DrainOK, Pty!ChildExit, Pty!exit
<1>13. CASE Pty!CmdStep
  BY <1>0, <1>13 DEF Pty!IInv, Pty!HookOK, Pty!DrainOK, Pty!CmdStep, Pty!ptys_open, Pty!Command
<1>14. CASE Pty!Driver \/ Pty!Hangup
  BY <1>0, <1>14 DEF Pty!IInv, Pty!HookOK, Pty!DrainOK, Pty!Driver, Pty!Hangup
<1>15. CASE UNCHANGED Pty!vars
  BY <1>0, <1>15 DEF Pty!IInv, Pty!HookOK, Pty!DrainOK, Pty!vars
<1> QED BY <1>1, <1>2, <1>3, <1>4, <1>5, <1>6, <1>7, <1>8, <1>9, <1>10, <1>11, <1>12, <1>13, <1>14, <1>15
        DEF Pty!Next, Pty!MainStep, Pty!ChildStep, Pty!Finished

LEMMA PtyProps == Pty!IInv => Pty!TtyRestored /\ Pty!OutputShown
  BY DEF Pty!IInv, Pty!HookOK, Pty!DrainOK, Pty!TtyRestored, Pty!OutputShown, Pty!Gone

-----------------------------------------------------------------------------
(* Thr is SigThread: signals taken by a thread.                            *)
(*                                                                         *)
(* m1 blocked, m2 pend, m3 mpc, m4 tpc, m5 quitflag, m6 lock, m7 end,      *)
(* m8 quit, m9 left, m10 spurious.                                         *)

LEMMA ThrInit == Thr!Init => Thr!IInv
  BY DEF Thr!Init, Thr!IInv, Thr!QuitOK, Thr!BlockOK

LEMMA ThrStep == ASSUME Thr!IInv, [Thr!Next]_(Thr!vars) PROVE Thr!IInv'
<1>0. Thr!QuitOK /\ Thr!BlockOK /\ m1 \in BOOLEAN /\ m8 \in BOOLEAN /\ m5 \in BOOLEAN
  BY DEF Thr!IInv
<1>1. CASE Thr!Main
  <2>0. m7 = "no" /\ (m1 \/ m2 = {})
    BY <1>1 DEF Thr!Main
  <2>1. CASE Thr!Block
    BY <1>0, <2>0, <2>1 DEF Thr!IInv, Thr!QuitOK, Thr!BlockOK, Thr!Block
  <2>2. CASE Thr!Create \/ Thr!LockMain
    BY <1>0, <2>0, <2>2 DEF Thr!IInv, Thr!QuitOK, Thr!BlockOK, Thr!Create, Thr!LockMain
  <2>3. CASE Thr!TestWait \/ Thr!Tested
    BY <1>0, <2>0, <2>3 DEF Thr!IInv, Thr!QuitOK, Thr!BlockOK, Thr!TestWait, Thr!Tested
  <2>4. CASE Thr!Clear \/ Thr!Unblock
    BY <1>0, <2>0, <2>4 DEF Thr!IInv, Thr!QuitOK, Thr!BlockOK, Thr!Clear, Thr!Unblock
  <2>5. CASE Thr!Exit
    BY <1>0, <2>0, <2>5 DEF Thr!IInv, Thr!QuitOK, Thr!BlockOK, Thr!Exit
  <2> QED BY <1>1, <2>1, <2>2, <2>3, <2>4, <2>5 DEF Thr!Main
<1>2. CASE Thr!thr_fn
  <2>1. CASE Thr!sigwait
    <3>1. PICK s \in m2 : /\ m2' = m2 \ {s}
                          /\ m4' = IF s = "QUIT" THEN "lock" ELSE m4
      BY <2>1 DEF Thr!sigwait
    <3>2. m4 = "sigwait" /\ UNCHANGED <<m1, m3, m5, m7, m8>>
      BY <2>1 DEF Thr!sigwait
    <3>3. m3 = "exit" \/ m1
      BY <1>0, <3>2 DEF Thr!BlockOK
    <3>4. s = "QUIT" => m8
      BY <1>0, <3>1, <3>3 DEF Thr!QuitOK
    <3>5. Thr!QuitOK'
      BY <1>0, <3>1, <3>2, <3>4 DEF Thr!QuitOK
    <3>6. Thr!BlockOK'
      BY <1>0, <3>1, <3>2 DEF Thr!BlockOK
    <3> QED BY <1>0, <3>2, <3>5, <3>6 DEF Thr!IInv
  <2>2. CASE Thr!LockThread
    BY <1>0, <2>2 DEF Thr!IInv, Thr!QuitOK, Thr!BlockOK, Thr!LockThread
  <2>4. CASE Thr!Set
    <3>1. m8 /\ m5' = TRUE /\ m4' = "unlock" /\ m4 # "none"
      BY <1>0, <2>4 DEF Thr!QuitOK, Thr!Set
    <3>2. UNCHANGED <<m1, m2, m3, m7, m8>>
      BY <2>4 DEF Thr!Set
    <3> QED BY <1>0, <3>1, <3>2 DEF Thr!IInv, Thr!QuitOK, Thr!BlockOK
  <2>3. CASE Thr!UnlockThread \/ Thr!CondSignal
    BY <1>0, <2>3 DEF Thr!IInv, Thr!QuitOK, Thr!BlockOK, Thr!UnlockThread, Thr!CondSignal
  <2> QED BY <1>2, <2>1, <2>2, <2>3, <2>4 DEF Thr!thr_fn
<1>3. CASE Thr!Deliver
  <2>1. ~ m1 /\ UNCHANGED <<m1, m3, m4, m5, m8>>
    BY <1>3 DEF Thr!Deliver
  <2>2. m3 \in {"block", "exit"}
    BY <1>0, <2>1 DEF Thr!BlockOK
  <2> QED BY <1>0, <2>1, <2>2 DEF Thr!IInv, Thr!QuitOK, Thr!BlockOK
<1>4. CASE Thr!Spurious
  BY <1>0, <1>4 DEF Thr!IInv, Thr!QuitOK, Thr!BlockOK, Thr!Spurious
<1>5. ASSUME NEW s \in {"INT", "QUIT"}, Thr!Send(s) PROVE Thr!IInv'
  BY <1>0, <1>5 DEF Thr!IInv, Thr!QuitOK, Thr!BlockOK, Thr!Send
<1>6. CASE UNCHANGED Thr!vars
  BY <1>0, <1>6 DEF Thr!IInv, Thr!QuitOK, Thr!BlockOK, Thr!vars
<1> QED BY <1>1, <1>2, <1>3, <1>4, <1>5, <1>6 DEF Thr!Next

LEMMA ThrProps == Thr!IInv => Thr!OnlyQuit
  BY DEF Thr!IInv, Thr!QuitOK, Thr!BlockOK, Thr!OnlyQuit

-----------------------------------------------------------------------------
(* Sgn is Signals: calls under signals.                                    *)
(*                                                                         *)
(* m1 call, m2 pc, m3 disp, m4 mask, m5 pend, m6 frames, m7 saved,         *)
(* m8 entry, m9 timer, m10 cmd, m11 status, m12 end, m13 marks,            *)
(* m14 left.                                                               *)

LEMMA SgnInit == Sgn!Init => Sgn!IInv
<1> SUFFICES ASSUME Sgn!Init PROVE Sgn!IInv
  OBVIOUS
<1>1. m1 \in {"system", "system8", "sleep", "sleep2", "abort", "suspend2"} /\ m2 = Sgn!First[m1]
  BY DEF Sgn!Init, Sgn!First
<1>2. /\ m3 \in [Sgn!Sig -> {"DFL", "IGN", "h"}] /\ m4 \in SUBSET Sgn!Blocks(m1)
      /\ m5 = {} /\ m6 = <<>> /\ m11 = "0" /\ m12 = "no"
      /\ m7 = [disp |-> m3, mask |-> {}, susp |-> {}]
      /\ m8 = [disp |-> m3, mask |-> m4]
      /\ m10 = [st |-> "none", ign |-> {}, mask |-> {}]
      /\ m9 \in {"off"} \union (IF m1 = "sleep" THEN {"set"} ELSE {})
      /\ "cut" \notin m13
  BY DEF Sgn!Init
<1>3. m4 \subseteq Sgn!Sig
  BY <1>1, <1>2 DEF Sgn!Blocks, Sgn!Sig
<1>4. Sgn!TypeOK
  BY <1>1, <1>2, <1>3 DEF Sgn!TypeOK
<1>5. /\ m7.disp = m3 /\ m8.disp = m3 /\ m8.mask = m4 /\ m10.st = "none" /\ Sgn!Base = m4
      /\ \A s \in Sgn!Sig : m3[s] # "jump"
  BY <1>2 DEF Sgn!Base
<1>6. Sgn!OnlyOwn
  <2>1. m2 # "exit"
    BY <1>1 DEF Sgn!First
  <2> QED BY <1>2, <1>5, <2>1 DEF Sgn!OnlyOwn
<1>7. ASSUME m1 = "system" PROVE Sgn!SystemOK
  <2>1. m2 = "ignoreINT"
    BY <1>1, <1>7 DEF Sgn!First
  <2> QED BY <2>1, <1>2, <1>5 DEF Sgn!SystemOK
<1>8. ASSUME m1 = "system8" PROVE Sgn!System8OK
  <2>1. m2 = "fork"
    BY <1>1, <1>8 DEF Sgn!First
  <2> QED BY <2>1, <1>5 DEF Sgn!System8OK
<1>9. ASSUME m1 = "sleep" PROVE Sgn!SleepOK
  <2>1. m2 = "act"
    BY <1>1, <1>9 DEF Sgn!First
  <2> QED BY <2>1, <1>2, <1>5 DEF Sgn!SleepOK
<1>10. ASSUME m1 = "sleep2" PROVE Sgn!Sleep2OK
  <2>1. m2 = "act"
    BY <1>1, <1>10 DEF Sgn!First
  <2> QED BY <2>1, <1>2, <1>5 DEF Sgn!Sleep2OK
<1>11. ASSUME m1 = "abort" PROVE Sgn!AbortOK
  <2>1. m2 = "query"
    BY <1>1, <1>11 DEF Sgn!First
  <2>2. m4 \subseteq {"ABRT"}
    BY <1>2, <1>11 DEF Sgn!Blocks
  <2> QED BY <2>1, <2>2, <1>2, <1>5 DEF Sgn!AbortOK
<1>12. ASSUME m1 = "suspend2" PROVE Sgn!Suspend2OK
  BY <1>1, <1>12 DEF Sgn!First, Sgn!Suspend2OK
<1> QED BY <1>4, <1>6, <1>7, <1>8, <1>9, <1>10, <1>11, <1>12 DEF Sgn!IInv

\* A step of the call itself is made with no handler running.
LEMMA SgnAt ==
  ASSUME NEW p, NEW q, Sgn!At(p, q)
  PROVE  /\ m2 = p /\ m2' = q /\ m12 = "no" /\ m12' = "no" /\ m6 = <<>> /\ m6' = <<>>
         /\ \A s \in m5 : s \in m4
         /\ UNCHANGED <<m1, m8, m14>>
         /\ Sgn!Base = m4 /\ Sgn!Base' = m4'
         /\ \A s \in Sgn!Sig : /\ Sgn!AllBlock(s) <=> s \in m4
                               /\ Sgn!AllBlock(s)' <=> s \in m4'
                               /\ Sgn!Absent(s) <=> s \notin m5
                               /\ Sgn!Absent(s)' <=> s \notin m5'
<1>1. /\ m2 = p /\ m2' = q /\ m12 = "no" /\ m12' = "no" /\ m6 = <<>> /\ m6' = <<>>
      /\ \A s \in m5 : s \in m4
      /\ UNCHANGED <<m1, m8, m14>>
  BY DEF Sgn!At, Sgn!Running
<1>2. \A s \in Sgn!Sig : s # "no"
  BY DEF Sgn!Sig
<1>3. 1..Len(m6) = {} /\ 1..Len(m6') = {}
  BY <1>1
<1> QED BY <1>1, <1>2, <1>3 DEF Sgn!Base, Sgn!AllBlock, Sgn!Absent

\* A handler is entered.
LEMMA SgnPush ==
  ASSUME Sgn!TypeOK, NEW s \in Sgn!Sig, m6' = Append(m6, [sig |-> s, mask |-> m4]),
         m4' = m4 \union {s}
  PROVE  /\ m6' \in Seq(Sgn!Frame) /\ Len(m6') = Len(m6) + 1 /\ m4' \subseteq Sgn!Sig
         /\ Sgn!Base' = Sgn!Base
         /\ \A t \in Sgn!Sig : Sgn!AllBlock(t) => Sgn!AllBlock(t)'
         /\ \A t \in Sgn!Sig : t # s /\ t \notin m5' /\ m12' # t /\ Sgn!Absent(t) => Sgn!Absent(t)'
<1> DEFINE f == [sig |-> s, mask |-> m4]
<1>1. m6 \in Seq(Sgn!Frame) /\ m4 \subseteq Sgn!Sig /\ Len(m6) \in Nat
  BY DEF Sgn!TypeOK
<1>2. f \in Sgn!Frame /\ f.sig = s /\ f.mask = m4
  BY <1>1 DEF Sgn!Frame
<1> HIDE DEF f
<1>3. m6' = Append(m6, f)
  BY DEF f
<1>4. /\ m6' \in Seq(Sgn!Frame) /\ Len(m6') = Len(m6) + 1
      /\ \A n \in 1 .. Len(m6) : m6'[n] = m6[n]
      /\ m6'[Len(m6) + 1] = f
  BY <1>1, <1>2, <1>3, AppendSeq
<1>5. \A n \in 1..Len(m6') : (n \in 1..Len(m6) /\ m6'[n] = m6[n]) \/ m6'[n] = f
  BY <1>1, <1>4
<1>6. m6' # <<>>
  BY <1>1, <1>4
<1>7. Sgn!Base' = Sgn!Base
  <2>1. CASE m6 = <<>>
    BY <2>1, <1>2, <1>4, <1>6 DEF Sgn!Base
  <2>2. CASE m6 # <<>>
    <3>1. 1 \in 1..Len(m6)
      BY <2>2, <1>1
    <3> QED BY <2>2, <3>1, <1>4, <1>6 DEF Sgn!Base
  <2> QED BY <2>1, <2>2
<1>8. ASSUME NEW t \in Sgn!Sig, Sgn!AllBlock(t) PROVE Sgn!AllBlock(t)'
  BY <1>8, <1>2, <1>5 DEF Sgn!AllBlock
<1>9. ASSUME NEW t \in Sgn!Sig, t # s, t \notin m5', m12' # t, Sgn!Absent(t) PROVE Sgn!Absent(t)'
  BY <1>9, <1>2, <1>5 DEF Sgn!Absent
<1> QED BY <1>1, <1>4, <1>7, <1>8, <1>9

\* A handler is left.
LEMMA SgnPop ==
  ASSUME Sgn!TypeOK, m6 # <<>>, m6' = SubSeq(m6, 1, Len(m6) - 1),
         m4' = m6[Len(m6)].mask
  PROVE  /\ m6' \in Seq(Sgn!Frame) /\ m4' \subseteq Sgn!Sig
         /\ Sgn!Base' = Sgn!Base
         /\ \A t \in Sgn!Sig : Sgn!AllBlock(t) => Sgn!AllBlock(t)'
         /\ \A t \in Sgn!Sig : t \notin m5' /\ m12' # t /\ Sgn!Absent(t) => Sgn!Absent(t)'
         /\ Len(m6) = 1 => m6' = <<>>
<1>1. m6 \in Seq(Sgn!Frame) /\ Len(m6) \in Nat /\ Len(m6) >= 1
  BY DEF Sgn!TypeOK
<1>2. m6[Len(m6)] \in Sgn!Frame
  BY <1>1
<1>3. m4' \subseteq Sgn!Sig
  BY <1>2 DEF Sgn!Frame
<1>4. /\ m6' \in Seq(Sgn!Frame) /\ Len(m6') = Len(m6) - 1
      /\ \A n \in 1..Len(m6) - 1 : m6'[n] = m6[n]
  <2> DEFINE k == Len(m6) - 1
  <2>1. k \in 0..Len(m6) /\ k \in Nat
    BY <1>1
  <2> HIDE DEF k
  <2>2. m6' = SubSeq(m6, 1, k)
    BY DEF k
  <2>3. /\ SubSeq(m6, 1, k) \in Seq(Sgn!Frame) /\ Len(SubSeq(m6, 1, k)) = k
        /\ \A n \in 1..k : SubSeq(m6, 1, k)[n] = m6[n]
    BY <1>1, <2>1
  <2> QED BY <2>2, <2>3 DEF k
<1>5. \A n \in 1..Len(m6') : n \in 1..Len(m6) /\ m6'[n] = m6[n]
  BY <1>1, <1>4
<1>6. Sgn!Base' = Sgn!Base
  <2>1. CASE Len(m6) = 1
    <3>1. m6' = <<>>
      BY <2>1, <1>4
    <3> QED BY <3>1, <2>1 DEF Sgn!Base
  <2>2. CASE Len(m6) # 1
    <3> DEFINE k == Len(m6)
    <3>0. k \in Nat /\ k >= 1 /\ k # 1
      BY <2>2, <1>1
    <3> HIDE DEF k
    <3>2. 1 \in 1..k - 1 /\ k - 1 # 0
      BY <3>0
    <3>1. 1 \in 1..Len(m6) - 1 /\ m6' # <<>>
      BY <3>2, <1>4 DEF k
    <3> QED BY <3>1, <1>4 DEF Sgn!Base
  <2> QED BY <2>1, <2>2
<1>7. ASSUME NEW t \in Sgn!Sig, Sgn!AllBlock(t) PROVE Sgn!AllBlock(t)'
  BY <1>7, <1>1, <1>5 DEF Sgn!AllBlock
<1>8. ASSUME NEW t \in Sgn!Sig, t \notin m5', m12' # t, Sgn!Absent(t) PROVE Sgn!Absent(t)'
  BY <1>8, <1>5 DEF Sgn!Absent
<1>9. Len(m6) = 1 => m6' = <<>>
  BY <1>4
<1> QED BY <1>3, <1>4, <1>6, <1>7, <1>8, <1>9

LEMMA SgnDeliver ==
  ASSUME NEW s \in Sgn!Sig, Sgn!Deliver(s)
  PROVE  /\ m12 = "no" /\ s \in m5 /\ s \notin m4 /\ m5' = m5 \ {s}
         /\ UNCHANGED <<m1, m3, m7, m8, m9, m14>>
         /\ \/ /\ m3[s] = "DFL" /\ UNCHANGED <<m2, m4, m6, m10, m11, m13>>
               /\ m12' = IF s = "CHLD" THEN m12 ELSE s
            \/ /\ m3[s] = "jump" /\ m2' = "unalarm" /\ m6' = <<>> /\ m4' = m4 \union {s}
               /\ m13 \subseteq m13' /\ UNCHANGED <<m10, m11, m12>>
            \/ /\ m3[s] # "DFL" /\ m3[s] # "jump"
               /\ m6' = Append(m6, [sig |-> s, mask |-> m4]) /\ m4' = m4 \union {s}
               /\ m10' = IF s = "CHLD" /\ m10.st = "dead" THEN [m10 EXCEPT !.st = "stolen"] ELSE m10
               /\ m11' = IF m3[s] = "sig_int" /\ s = "QUIT" THEN "quit" ELSE m11
               /\ UNCHANGED <<m2, m12, m13>>
<1>1. /\ m12 = "no" /\ s \in m5 /\ s \notin m4 /\ m5' = m5 \ {s}
      /\ UNCHANGED <<m1, m3, m7, m8, m9, m14>>
  BY DEF Sgn!Deliver
<1>2. CASE m3[s] = "DFL"
  BY <1>1, <1>2 DEF Sgn!Deliver
<1>3. CASE m3[s] = "jump"
  <2>1. /\ m2' = "unalarm" /\ m6' = <<>> /\ m4' = m4 \union {s}
        /\ m13' = IF m6 = <<>> THEN m13 ELSE m13 \union {"cut"}
        /\ UNCHANGED <<m10, m11, m12>>
    BY <1>3 DEF Sgn!Deliver
  <2>2. m13 \subseteq m13'
    BY <2>1
  <2> QED BY <1>1, <1>3, <2>1, <2>2
<1>4. CASE m3[s] # "DFL" /\ m3[s] # "jump"
  <2>1. /\ m6' = Append(m6, [sig |-> s, mask |-> m4]) /\ m4' = m4 \union {s}
        /\ m10' = IF s = "CHLD" /\ m10.st = "dead" THEN [m10 EXCEPT !.st = "stolen"] ELSE m10
        /\ m11' = IF m3[s] = "sig_int" /\ s = "QUIT" THEN "quit" ELSE m11
        /\ UNCHANGED <<m2, m12, m13>>
    BY <1>4 DEF Sgn!Deliver
  <2> QED BY <1>1, <1>4, <2>1
<1> QED BY <1>2, <1>3, <1>4

LEMMA SgnHandlerEnd ==
  ASSUME Sgn!HandlerEnd
  PROVE  /\ m12 = "no" /\ m6 # <<>> /\ (\A s \in m5 : s \in m4)
         /\ m6' = SubSeq(m6, 1, Len(m6) - 1)
         /\ m13 \subseteq m13' /\ m13' \subseteq m13 \union {"dirty"}
         /\ UNCHANGED <<m1, m3, m5, m7, m8, m9, m10, m11, m12, m14>>
         /\ \/ m2' = m2 /\ m4' = m6[Len(m6)].mask
               /\ ~ (Len(m6) = 1 /\ m2 = "wait for one")
            \/ /\ Len(m6) = 1 /\ m2 = "wait for one"
               /\ m2' = IF m1 = "suspend2" THEN "test" ELSE "unalarm"
               /\ m4' = IF m1 # "sleep2" THEN m7.susp ELSE m6[1].mask
<1>1. /\ m12 = "no" /\ m6 # <<>> /\ (\A s \in m5 : s \in m4)
      /\ m6' = SubSeq(m6, 1, Len(m6) - 1)
      /\ UNCHANGED <<m1, m3, m5, m7, m8, m9, m10, m11, m12, m14>>
  BY DEF Sgn!HandlerEnd, Sgn!Running
<1>2. m13 \subseteq m13' /\ m13' \subseteq m13 \union {"dirty"}
  BY DEF Sgn!HandlerEnd
<1>3. CASE Len(m6) = 1 /\ m2 = "wait for one"
  BY <1>1, <1>2, <1>3 DEF Sgn!HandlerEnd
<1>4. CASE ~ (Len(m6) = 1 /\ m2 = "wait for one")
  BY <1>1, <1>2, <1>4 DEF Sgn!HandlerEnd
<1> QED BY <1>3, <1>4

LEMMA SgnSend ==
  ASSUME NEW s \in Sgn!Sig, Sgn!Send(s)
  PROVE  /\ m5 \subseteq m5' /\ m5' \subseteq m5 \union {s}
         /\ m3[s] = "IGN" => m5' = m5
         /\ m13 \subseteq m13' /\ m13' \subseteq m13 \union {"late"}
         /\ Sgn!Late(s) => "late" \in m13'
  BY DEF Sgn!Send

\* Actions are saved as the call was made with them.
LEMMA SgnSave ==
  ASSUME Sgn!TypeOK, NEW s \in Sgn!Sig, m3[s] = m8.disp[s], Sgn!Save(s) PROVE m7' = m7
<1> DEFINE d == m7.disp
<1>1. /\ m7 = [disp |-> d, mask |-> m7.mask, susp |-> m7.susp]
      /\ d \in [Sgn!Sig -> {"DFL", "IGN", "h"}] /\ m3[s] = d[s]
  BY DEF Sgn!TypeOK
<1>2. [d EXCEPT ![s] = d[s]] = d
  BY <1>1
<1>3. m7' = [m7 EXCEPT !.disp = [d EXCEPT ![s] = d[s]]]
  BY <1>1 DEF Sgn!Save
<1>4. m7' = [m7 EXCEPT !.disp = d]
  BY <1>2, <1>3
<1> QED BY <1>1, <1>4

\* The steps of a call are at its own labels.
LEMMA SgnPc ==
  ASSUME Sgn!IInv
  PROVE  /\ m2 \in {"ignoreINT", "ignoreQUIT", "undoINT", "undoQUIT"} => m1 = "system"
         /\ m2 \in {"fork", "wait"} => m1 \in {"system", "system8"}
         /\ m2 \in {"act", "alarm", "unalarm"} => m1 \in {"sleep", "sleep2"}
         /\ m2 = "topause" => m1 = "sleep2"
         /\ m2 = "undoALRM" => m1 = "sleep"
         /\ m2 \in {"query", "flush", "fill", "kill", "caught", "dfl", "fill2", "kill2", "exit"} => m1 = "abort"
         /\ m2 \in {"int", "quit", "test", "clear"} => m1 = "suspend2"
         /\ m2 = "block" => m1 \in {"system", "sleep", "suspend2"}
         /\ m2 = "suspend" => m1 \in {"sleep", "suspend2"}
         /\ m2 = "unblock" => m1 \in {"system", "sleep", "suspend2"}
<1>0. m1 \in {"system", "system8", "sleep", "sleep2", "abort", "suspend2"}
  BY DEF Sgn!IInv, Sgn!TypeOK
<1>1. CASE m1 = "system"
  BY <1>1 DEF Sgn!IInv, Sgn!SystemOK
<1>2. CASE m1 = "system8"
  BY <1>2 DEF Sgn!IInv, Sgn!System8OK
<1>3. CASE m1 = "sleep"
  BY <1>3 DEF Sgn!IInv, Sgn!SleepOK
<1>4. CASE m1 = "sleep2"
  BY <1>4 DEF Sgn!IInv, Sgn!Sleep2OK
<1>5. CASE m1 = "abort"
  BY <1>5 DEF Sgn!IInv, Sgn!AbortOK
<1>6. CASE m1 = "suspend2"
  BY <1>6 DEF Sgn!IInv, Sgn!Suspend2OK
<1> QED BY <1>0, <1>1, <1>2, <1>3, <1>4, <1>5, <1>6

\* A step that leaves actions and handlers alone.
LEMMA SgnSameType ==
  ASSUME Sgn!TypeOK, UNCHANGED <<m1, m6, m8>>, m3' = [t \in Sgn!Sig |-> m3'[t]],
         m4' \subseteq Sgn!Sig, m5' \subseteq Sgn!Sig,
         \/ m7' = m7
         \/ m7' = [m7 EXCEPT !.mask = m4]
         \/ m7' = [m7 EXCEPT !.susp = m4],
         m10' = [st |-> m10'.st, ign |-> m10'.ign, mask |-> m10'.mask]
  PROVE  Sgn!TypeOK'
<1>1. /\ m7' = [disp |-> m7'.disp, mask |-> m7'.mask, susp |-> m7'.susp]
      /\ m7'.mask \subseteq Sgn!Sig /\ m7'.susp \subseteq Sgn!Sig /\ m7'.disp = m8.disp
  BY DEF Sgn!TypeOK
<1> QED BY <1>1 DEF Sgn!TypeOK

LEMMA SgnSigaction ==
  ASSUME Sgn!TypeOK, NEW s \in Sgn!Sig, NEW act, Sgn!sigaction(s, act)
  PROVE  /\ m3' = [t \in Sgn!Sig |-> m3'[t]] /\ m5' \subseteq m5
         /\ m3'[s] = act /\ (\A t \in Sgn!Sig \ {s} : m3'[t] = m3[t])
         /\ act = "IGN" => s \notin m5'
         /\ \A t \in Sgn!Sig \ {s} : t \in m5' <=> t \in m5
         /\ act # "IGN" => m5' = m5
<1>1. m3 = [t \in Sgn!Sig |-> m3[t]] /\ m3' = [m3 EXCEPT ![s] = act]
  BY DEF Sgn!TypeOK, Sgn!sigaction
<1>2. m3' = [t \in Sgn!Sig |-> IF t = s THEN act ELSE m3[t]]
  BY <1>1
<1>3. /\ m3' = [t \in Sgn!Sig |-> m3'[t]] /\ m3'[s] = act
      /\ (\A t \in Sgn!Sig \ {s} : m3'[t] = m3[t])
  BY <1>2
<1>4. m5' = IF act = "IGN" THEN m5 \ {s} ELSE m5
  BY DEF Sgn!sigaction
<1> QED BY <1>3, <1>4

LEMMA SgnSystemOnly ==
  ASSUME Sgn!IInv, m1 = "system", Sgn!Next
  PROVE  \/ Sgn!Ignore("INT", "ignoreINT", "ignoreQUIT") \/ Sgn!Ignore("QUIT", "ignoreQUIT", "block")
         \/ Sgn!Block \/ Sgn!fork \/ Sgn!waitpid \/ Sgn!Undo("INT", "undoINT", "undoQUIT")
         \/ Sgn!Undo("QUIT", "undoQUIT", "unblock") \/ Sgn!Unblock \/ Sgn!HandlerEnd
         \/ Sgn!Fire \/ Sgn!Ends \/ Sgn!Exec \/ (\E s \in Sgn!Sig : Sgn!Deliver(s)) \/ (\E s \in {"INT", "QUIT"} : Sgn!Type(s))
<1>1. m2 \in {"ignoreINT", "ignoreQUIT", "block", "fork", "wait", "undoINT", "undoQUIT", "unblock", "ret"}
  BY DEF Sgn!IInv, Sgn!SystemOK
<1>2. \A p, q : p \notin {"ignoreINT", "ignoreQUIT", "block", "fork", "wait", "undoINT", "undoQUIT", "unblock", "ret"} => ~ Sgn!At(p, q)
  BY <1>1, SgnAt
<1>3. ~ Sgn!sleep
  BY <1>2 DEF Sgn!sleep, Sgn!Act, Sgn!alarm, Sgn!pause, Sgn!alarm0, Sgn!Undo
<1>4. ~ Sgn!abort
  BY <1>2 DEF Sgn!abort, Sgn!Query, Sgn!Flush, Sgn!Fill, Sgn!Kill, Sgn!Caught, Sgn!Default
<1>5. ~ Sgn!suspend2 /\ ~ Sgn!sigsuspend
  BY <1>2 DEF Sgn!suspend2, Sgn!Catch, Sgn!Test, Sgn!Clear, Sgn!sigsuspend
<1> QED BY <1>3, <1>4, <1>5 DEF Sgn!Next, Sgn!Main, Sgn!Kernel, Sgn!system

\* Every step is one of these, and what it does with the state all calls share.
LEMMA SgnTypeStep == ASSUME Sgn!IInv, Sgn!Next PROVE Sgn!TypeOK'
<1>0. /\ Sgn!TypeOK /\ m3 = [t \in Sgn!Sig |-> m3[t]] /\ m4 \subseteq Sgn!Sig /\ m5 \subseteq Sgn!Sig
      /\ m10 = [st |-> m10.st, ign |-> m10.ign, mask |-> m10.mask]
      /\ m7.mask \subseteq Sgn!Sig /\ m7.susp \subseteq Sgn!Sig
  BY DEF Sgn!IInv, Sgn!TypeOK
<1>a. /\ "INT" \in Sgn!Sig /\ "QUIT" \in Sgn!Sig /\ "CHLD" \in Sgn!Sig /\ "ALRM" \in Sgn!Sig /\ "ABRT" \in Sgn!Sig
  BY DEF Sgn!Sig
<1>1. ASSUME NEW s \in {"INT", "QUIT"}, NEW p \in {"ignoreINT", "ignoreQUIT"}, NEW q, Sgn!Ignore(s, p, q),
             s = IF p = "ignoreINT" THEN "INT" ELSE "QUIT"
      PROVE  Sgn!TypeOK'
  <2>1. m2 = p /\ UNCHANGED <<m1, m6, m8>>
    BY <1>1, SgnAt DEF Sgn!Ignore
  <2>2. m1 = "system"
    BY <1>1, <2>1, SgnPc
  <2>3. m3[s] = m8.disp[s]
    BY <1>1, <2>1, <2>2 DEF Sgn!IInv, Sgn!SystemOK
  <2>4. m7' = m7
    BY <1>0, <1>1, <1>a, <2>3, SgnSave DEF Sgn!Ignore
  <2>5. m3' = [t \in Sgn!Sig |-> m3'[t]] /\ m5' \subseteq m5
    BY <1>0, <1>1, <1>a, SgnSigaction DEF Sgn!Ignore
  <2>6. UNCHANGED <<m4, m10>>
    BY <1>1 DEF Sgn!Ignore
  <2> QED BY <1>0, <2>1, <2>4, <2>5, <2>6, SgnSameType
<1>2. ASSUME NEW s \in Sgn!Sig, NEW p, NEW q, Sgn!Undo(s, p, q) PROVE Sgn!TypeOK'
  <2>1. UNCHANGED <<m1, m6, m8>>
    BY <1>2, SgnAt DEF Sgn!Undo
  <2>5. m3' = [t \in Sgn!Sig |-> m3'[t]] /\ m5' \subseteq m5
    BY <1>0, <1>2, SgnSigaction DEF Sgn!Undo
  <2>6. UNCHANGED <<m7, m4, m10>>
    BY <1>2 DEF Sgn!Undo
  <2> QED BY <1>0, <2>1, <2>5, <2>6, SgnSameType
<1>3. CASE Sgn!Block
  <2>1. m2 = "block" /\ UNCHANGED <<m1, m6, m8>>
    BY <1>3, SgnAt DEF Sgn!Block
  <2>2. m1 \in {"system", "sleep", "suspend2"}
    BY <2>1, SgnPc
  <2>3. Sgn!Blocked[m1] \in Sgn!Sig
    BY <2>2, <1>a DEF Sgn!Blocked
  <2>4. m4' \subseteq Sgn!Sig /\ m7' = [m7 EXCEPT !.mask = m4] /\ UNCHANGED <<m3, m5, m10>>
    BY <1>0, <1>3, <2>3 DEF Sgn!Block
  <2> QED BY <1>0, <2>1, <2>4, SgnSameType
<1>4. CASE Sgn!Unblock
  <2>1. UNCHANGED <<m1, m6, m8>>
    BY <1>4, SgnAt DEF Sgn!Unblock
  <2>4. m4' \subseteq Sgn!Sig /\ UNCHANGED <<m7, m3, m5, m10>>
    BY <1>0, <1>4 DEF Sgn!Unblock
  <2> QED BY <1>0, <2>1, <2>4, SgnSameType
<1>5. CASE Sgn!fork
  <2>1. UNCHANGED <<m1, m6, m8>>
    BY <1>5, SgnAt DEF Sgn!fork
  <2>2. UNCHANGED <<m4, m7, m3, m5>>
    BY <1>5 DEF Sgn!fork
  <2>3. m10' = [st |-> m10'.st, ign |-> m10'.ign, mask |-> m10'.mask]
    BY <1>0, <1>5 DEF Sgn!fork
  <2> QED BY <1>0, <2>1, <2>2, <2>3, SgnSameType
<1>6. CASE Sgn!waitpid
  <2>1. UNCHANGED <<m1, m6, m8>>
    BY <1>6, SgnAt DEF Sgn!waitpid
  <2>2. UNCHANGED <<m4, m7, m3, m5>>
    BY <1>6 DEF Sgn!waitpid
  <2>3. m10' = [st |-> m10'.st, ign |-> m10'.ign, mask |-> m10'.mask]
    BY <1>0, <1>6 DEF Sgn!waitpid
  <2> QED BY <1>0, <2>1, <2>2, <2>3, SgnSameType
<1>7. CASE Sgn!Act
  <2>1. m2 = "act" /\ UNCHANGED <<m1, m6, m8>>
    BY <1>7, SgnAt DEF Sgn!Act
  <2>2. m1 \in {"sleep", "sleep2"}
    BY <2>1, SgnPc
  <2>3. m3["ALRM"] = m8.disp["ALRM"]
    BY <2>1, <2>2 DEF Sgn!IInv, Sgn!SleepOK, Sgn!Sleep2OK
  <2>4. m7' = m7
    BY <1>0, <1>7, <1>a, <2>3, SgnSave DEF Sgn!Act
  <2>5. m3' = [t \in Sgn!Sig |-> m3'[t]] /\ m5' \subseteq m5
    BY <1>0, <1>7, <1>a, SgnSigaction DEF Sgn!Act
  <2>6. UNCHANGED <<m4, m10>>
    BY <1>7 DEF Sgn!Act
  <2> QED BY <1>0, <2>1, <2>4, <2>5, <2>6, SgnSameType
<1>8. CASE Sgn!alarm \/ Sgn!pause \/ Sgn!alarm0 \/ Sgn!Flush \/ Sgn!Caught \/ Sgn!Test \/ Sgn!Clear
  <2>1. UNCHANGED <<m1, m6, m8>>
    BY <1>8, SgnAt DEF Sgn!alarm, Sgn!pause, Sgn!alarm0, Sgn!Flush, Sgn!Caught, Sgn!Test, Sgn!Clear
  <2>2. UNCHANGED <<m3, m4, m5, m7, m10>>
    BY <1>8 DEF Sgn!alarm, Sgn!pause, Sgn!alarm0, Sgn!Flush, Sgn!Caught, Sgn!Test, Sgn!Clear
  <2> QED BY <1>0, <2>1, <2>2, SgnSameType
<1>9. CASE Sgn!sigsuspend
  <2>1. UNCHANGED <<m1, m6, m8>>
    BY <1>9, SgnAt DEF Sgn!sigsuspend
  <2>4. m4' \subseteq Sgn!Sig /\ m7' = [m7 EXCEPT !.susp = m4] /\ UNCHANGED <<m3, m5, m10>>
    BY <1>0, <1>9 DEF Sgn!sigsuspend
  <2> QED BY <1>0, <2>1, <2>4, SgnSameType
<1>10. CASE Sgn!Query \/ Sgn!Default
  <2>1. UNCHANGED <<m1, m6, m8>>
    BY <1>10, SgnAt DEF Sgn!Query, Sgn!Default
  <2>5. m3' = [t \in Sgn!Sig |-> m3'[t]] /\ m5' \subseteq m5
    BY <1>0, <1>10, <1>a, SgnSigaction DEF Sgn!Query, Sgn!Default
  <2>6. UNCHANGED <<m7, m4, m10>>
    BY <1>10 DEF Sgn!Query, Sgn!Default
  <2> QED BY <1>0, <2>1, <2>5, <2>6, SgnSameType
<1>11. ASSUME NEW p, NEW q, Sgn!Fill(p, q) \/ Sgn!Kill(p, q) PROVE Sgn!TypeOK'
  <2>1. UNCHANGED <<m1, m6, m8>>
    BY <1>11, SgnAt DEF Sgn!Fill, Sgn!Kill
  <2>2. UNCHANGED <<m3, m7, m10>> /\ m4' \subseteq Sgn!Sig /\ m5' \subseteq Sgn!Sig
    BY <1>0, <1>11, <1>a DEF Sgn!Fill, Sgn!Kill
  <2> QED BY <1>0, <2>1, <2>2, SgnSameType
<1>12. ASSUME NEW s \in Sgn!Sig, NEW p, NEW q, Sgn!Catch(s, p, q) PROVE Sgn!TypeOK'
  <2>1. UNCHANGED <<m1, m6, m8>>
    BY <1>12, SgnAt DEF Sgn!Catch
  <2>5. m3' = [t \in Sgn!Sig |-> m3'[t]] /\ m5' \subseteq m5
    BY <1>0, <1>12, SgnSigaction DEF Sgn!Catch
  <2>6. UNCHANGED <<m7, m4, m10>>
    BY <1>12 DEF Sgn!Catch
  <2> QED BY <1>0, <2>1, <2>5, <2>6, SgnSameType
<1>13. CASE Sgn!HandlerEnd
  <2>1. /\ m6 # <<>> /\ m6' = SubSeq(m6, 1, Len(m6) - 1)
        /\ UNCHANGED <<m1, m3, m5, m7, m8, m10>>
        /\ m4' = m6[Len(m6)].mask \/ m4' = m7.susp
    BY <1>13, SgnHandlerEnd
  <2>2. /\ m6 \in Seq(Sgn!Frame) /\ Len(m6) \in Nat /\ Len(m6) >= 1
    BY <1>0, <2>1 DEF Sgn!TypeOK
  <2>3. m6' \in Seq(Sgn!Frame)
    <3> DEFINE k == Len(m6) - 1
    <3>1. k \in 0..Len(m6) /\ k \in Nat
      BY <2>2
    <3> HIDE DEF k
    <3>2. m6' = SubSeq(m6, 1, k)
      BY <2>1 DEF k
    <3> QED BY <2>2, <3>1, <3>2
  <2>4. m4' \subseteq Sgn!Sig
    <3>1. m6[Len(m6)] \in Sgn!Frame
      BY <2>2
    <3> QED BY <2>1, <3>1, <1>0 DEF Sgn!Frame
  <2> QED BY <1>0, <2>1, <2>3, <2>4 DEF Sgn!TypeOK
<1>14. CASE Sgn!Exec
  <2>1. UNCHANGED <<m1, m6, m8, m3, m4, m5, m7>>
    BY <1>14 DEF Sgn!Exec
  <2>2. m10' = [st |-> m10'.st, ign |-> m10'.ign, mask |-> m10'.mask]
    <3>1. CASE m1 = "system"
      BY <1>14, <3>1 DEF Sgn!Exec
    <3>2. CASE m1 # "system"
      BY <1>0, <1>14, <3>2 DEF Sgn!Exec
    <3> QED BY <3>1, <3>2
  <2> QED BY <1>0, <2>1, <2>2, SgnSameType
<1>15. CASE Sgn!Fire \/ Sgn!Ends \/ \E s \in {"INT", "QUIT"} : Sgn!Type(s)
  <2>1. PICK s \in Sgn!Sig : Sgn!Send(s)
    BY <1>15, <1>a DEF Sgn!Fire, Sgn!Ends, Sgn!Type
  <2>2. m5' \subseteq Sgn!Sig
    BY <1>0, <2>1, SgnSend
  <2>3. UNCHANGED <<m1, m6, m8, m3, m4, m7>>
    BY <1>15 DEF Sgn!Fire, Sgn!Ends, Sgn!Type
  <2>4. m10' = [st |-> m10'.st, ign |-> m10'.ign, mask |-> m10'.mask]
    BY <1>0, <1>15 DEF Sgn!Fire, Sgn!Ends, Sgn!Type
  <2> QED BY <1>0, <2>2, <2>3, <2>4, SgnSameType
<1>16. ASSUME NEW s \in Sgn!Sig, Sgn!Deliver(s) PROVE Sgn!TypeOK'
  <2>1. /\ m5' = m5 \ {s} /\ UNCHANGED <<m1, m3, m7, m8, m9, m14>>
        /\ \/ UNCHANGED <<m4, m6, m10>>
           \/ m6' = <<>> /\ m4' = m4 \union {s} /\ UNCHANGED m10
           \/ /\ m6' = Append(m6, [sig |-> s, mask |-> m4]) /\ m4' = m4 \union {s}
              /\ m10' = IF s = "CHLD" /\ m10.st = "dead" THEN [m10 EXCEPT !.st = "stolen"] ELSE m10
    BY <1>16, SgnDeliver
  <2>2. m5' \subseteq Sgn!Sig /\ m4' \subseteq Sgn!Sig
    BY <1>0, <2>1
  <2>3. m10' = [st |-> m10'.st, ign |-> m10'.ign, mask |-> m10'.mask]
    BY <1>0, <2>1
  <2>4. m6 \in Seq(Sgn!Frame)
    BY <1>0 DEF Sgn!TypeOK
  <2>5. m6' \in Seq(Sgn!Frame)
    <3>1. <<>> \in Seq(Sgn!Frame)
      OBVIOUS
    <3>2. CASE m6' = Append(m6, [sig |-> s, mask |-> m4]) /\ m4' = m4 \union {s}
      BY <3>2, <1>0, <1>16, SgnPush
    <3> QED BY <2>1, <2>4, <3>1, <3>2
  <2> QED BY <1>0, <2>1, <2>2, <2>3, <2>5 DEF Sgn!TypeOK
<1>17. Sgn!system => Sgn!TypeOK'
  <2>1. Sgn!Ignore("INT", "ignoreINT", "ignoreQUIT") => Sgn!TypeOK'
    BY <1>1
  <2>2. Sgn!Ignore("QUIT", "ignoreQUIT", "block") => Sgn!TypeOK'
    BY <1>1
  <2> QED BY <2>1, <2>2, <1>2, <1>5, <1>6, <1>a DEF Sgn!system
<1>18. Sgn!sleep \/ Sgn!abort \/ Sgn!suspend2 => Sgn!TypeOK'
  BY <1>2, <1>7, <1>8, <1>10, <1>11, <1>12, <1>a DEF Sgn!sleep, Sgn!abort, Sgn!suspend2
<1> QED BY <1>3, <1>4, <1>9, <1>13, <1>14, <1>15, <1>16, <1>17, <1>18 DEF Sgn!Next, Sgn!Main, Sgn!Kernel

\* A step that sends no signal, and runs no command and no timer.
LEMMA SgnQuiet ==
  ASSUME Sgn!IInv, UNCHANGED <<m1, m12, m9>>, m5' \subseteq m5, m10'.st = m10.st,
         m13' \subseteq m13 \union {"dirty"},
         m1 # "sleep2" => \A t \in Sgn!Sig : m3'[t] # "jump"
  PROVE  Sgn!OnlyOwn'
  BY DEF Sgn!IInv, Sgn!OnlyOwn

LEMMA SgnOwnStep == ASSUME Sgn!IInv, Sgn!Next PROVE Sgn!OnlyOwn'
<1>0. Sgn!TypeOK /\ Sgn!OnlyOwn /\ m7.disp = m8.disp /\ m8.disp \in [Sgn!Sig -> {"DFL", "IGN", "h"}]
  BY DEF Sgn!IInv, Sgn!TypeOK
<1>a. /\ "INT" \in Sgn!Sig /\ "QUIT" \in Sgn!Sig /\ "CHLD" \in Sgn!Sig /\ "ALRM" \in Sgn!Sig /\ "ABRT" \in Sgn!Sig
  BY DEF Sgn!Sig
<1>1. CASE Sgn!Block \/ Sgn!Unblock \/ Sgn!pause \/ Sgn!sigsuspend \/ Sgn!Test \/ Sgn!Clear \/ Sgn!Flush \/ Sgn!Caught
  <2>1. UNCHANGED <<m1, m12>>
    BY <1>1, SgnAt DEF Sgn!Block, Sgn!Unblock, Sgn!pause, Sgn!sigsuspend, Sgn!Test, Sgn!Clear, Sgn!Flush, Sgn!Caught
  <2>2. UNCHANGED <<m3, m9, m5, m10>> /\ m13' \subseteq m13
    BY <1>1 DEF Sgn!Block, Sgn!Unblock, Sgn!pause, Sgn!sigsuspend, Sgn!Test, Sgn!Clear, Sgn!Flush, Sgn!Caught
  <2>3. m1 # "sleep2" => \A t \in Sgn!Sig : m3'[t] # "jump"
    BY <1>0, <2>2 DEF Sgn!OnlyOwn
  <2> QED BY <2>1, <2>2, <2>3, SgnQuiet
<1>2. ASSUME NEW p, NEW q, Sgn!Fill(p, q) PROVE Sgn!OnlyOwn'
  <2>1. UNCHANGED <<m1, m12>>
    BY <1>2, SgnAt DEF Sgn!Fill
  <2>2. UNCHANGED <<m3, m9, m5, m10, m13>>
    BY <1>2 DEF Sgn!Fill
  <2>3. m1 # "sleep2" => \A t \in Sgn!Sig : m3'[t] # "jump"
    BY <1>0, <2>2 DEF Sgn!OnlyOwn
  <2> QED BY <2>1, <2>2, <2>3, SgnQuiet
<1>3. ASSUME NEW s \in Sgn!Sig, NEW act, Sgn!sigaction(s, act), UNCHANGED <<m1, m12, m9, m10, m13>>,
             m1 # "sleep2" => act # "jump"
      PROVE  Sgn!OnlyOwn'
  <2>1. /\ m5' \subseteq m5
        /\ m3'[s] = act /\ (\A t \in Sgn!Sig \ {s} : m3'[t] = m3[t])
    BY <1>0, <1>3, SgnSigaction
  <2>2. m1 # "sleep2" => \A t \in Sgn!Sig : m3'[t] # "jump"
    BY <1>0, <1>3, <2>1 DEF Sgn!OnlyOwn
  <2> QED BY <1>3, <2>1, <2>2, SgnQuiet
<1>4. ASSUME NEW s \in Sgn!Sig, NEW p, NEW q, Sgn!Ignore(s, p, q) \/ Sgn!Undo(s, p, q) \/ Sgn!Catch(s, p, q) PROVE Sgn!OnlyOwn'
  <2>1. UNCHANGED <<m1, m12>>
    BY <1>4, SgnAt DEF Sgn!Ignore, Sgn!Undo, Sgn!Catch
  <2>2. UNCHANGED <<m9, m10, m13>>
    BY <1>4 DEF Sgn!Ignore, Sgn!Undo, Sgn!Catch
  <2>3. m7.disp[s] # "jump"
    BY <1>0
  <2>4. Sgn!sigaction(s, "IGN") \/ Sgn!sigaction(s, "sig_int") \/ Sgn!sigaction(s, m7.disp[s])
    BY <1>4 DEF Sgn!Ignore, Sgn!Undo, Sgn!Catch
  <2> QED BY <2>1, <2>2, <2>3, <2>4, <1>3
<1>5. CASE Sgn!Act
  <2>1. UNCHANGED <<m1, m12>> /\ m2 = "act"
    BY <1>5, SgnAt DEF Sgn!Act
  <2>2. UNCHANGED <<m9, m10, m13>>
    BY <1>5 DEF Sgn!Act
  <2>3. m1 \in {"sleep", "sleep2"}
    BY <2>1, SgnPc
  <2>4. Sgn!sigaction("ALRM", IF m1 = "sleep" THEN "alrm" ELSE "jump")
    BY <1>5 DEF Sgn!Act
  <2> QED BY <2>1, <2>2, <2>3, <2>4, <1>3, <1>a
<1>6. CASE Sgn!Query \/ Sgn!Default
  <2>1. UNCHANGED <<m1, m12>>
    BY <1>6, SgnAt DEF Sgn!Query, Sgn!Default
  <2>2. UNCHANGED <<m9, m10, m13>>
    BY <1>6 DEF Sgn!Query, Sgn!Default
  <2>3. CASE Sgn!sigaction("ABRT", "DFL")
    BY <2>1, <2>2, <2>3, <1>3, <1>a
  <2>4. CASE UNCHANGED <<m3, m5>>
    <3>1. m1 # "sleep2" => \A t \in Sgn!Sig : m3'[t] # "jump"
      BY <1>0, <2>4 DEF Sgn!OnlyOwn
    <3> QED BY <2>1, <2>2, <2>4, <3>1, SgnQuiet
  <2> QED BY <1>6, <2>3, <2>4 DEF Sgn!Query, Sgn!Default
<1>7. CASE Sgn!fork \/ Sgn!waitpid
  <2>1. UNCHANGED <<m1, m12>> /\ m2 \in {"fork", "wait"}
    BY <1>7, SgnAt DEF Sgn!fork, Sgn!waitpid
  <2>2. UNCHANGED <<m3, m5, m9, m13>>
    BY <1>7 DEF Sgn!fork, Sgn!waitpid
  <2>3. m1 \in {"system", "system8"}
    BY <2>1, SgnPc
  <2> QED BY <1>0, <2>1, <2>2, <2>3 DEF Sgn!OnlyOwn
<1>8. CASE Sgn!alarm \/ Sgn!alarm0
  <2>1. UNCHANGED <<m1, m12>> /\ m2 \in {"alarm", "unalarm"}
    BY <1>8, SgnAt DEF Sgn!alarm, Sgn!alarm0
  <2>2. UNCHANGED <<m3, m5, m10, m13>>
    BY <1>8 DEF Sgn!alarm, Sgn!alarm0
  <2>3. m1 \in {"sleep", "sleep2"}
    BY <2>1, SgnPc
  <2> QED BY <1>0, <2>1, <2>2, <2>3 DEF Sgn!OnlyOwn
<1>9. ASSUME NEW p \in {"kill", "kill2"}, NEW q, Sgn!Kill(p, q) PROVE Sgn!OnlyOwn'
  <2>1. UNCHANGED <<m1, m12>> /\ m2 \in {"kill", "kill2"}
    BY <1>9, SgnAt DEF Sgn!Kill
  <2>2. UNCHANGED <<m3, m9, m10, m13>> /\ m5' = m5 \union {"ABRT"}
    BY <1>9 DEF Sgn!Kill
  <2>3. m1 = "abort"
    BY <2>1, SgnPc
  <2> QED BY <1>0, <2>1, <2>2, <2>3 DEF Sgn!OnlyOwn
<1>10. CASE Sgn!HandlerEnd
  <2>1. /\ m13' \subseteq m13 \union {"dirty"}
        /\ UNCHANGED <<m1, m3, m5, m9, m10, m12>>
    BY <1>10, SgnHandlerEnd
  <2>3. m1 # "sleep2" => \A t \in Sgn!Sig : m3'[t] # "jump"
    BY <1>0, <2>1 DEF Sgn!OnlyOwn
  <2> QED BY <2>1, <2>3, SgnQuiet
<1>11. CASE Sgn!Exec
  <2>1. UNCHANGED <<m1, m3, m5, m9, m12, m13>> /\ m10.st = "born"
    BY <1>11 DEF Sgn!Exec
  <2> QED BY <1>0, <2>1 DEF Sgn!OnlyOwn
<1>12. CASE Sgn!Fire
  <2>1. /\ UNCHANGED <<m1, m3, m10, m12>> /\ m9 = "set" /\ m9' = "fired"
        /\ m5' \subseteq m5 \union {"ALRM"} /\ m13' \subseteq m13 \union {"late"}
    BY <1>12, <1>a, SgnSend DEF Sgn!Fire
  <2> QED BY <1>0, <2>1 DEF Sgn!OnlyOwn
<1>13. CASE Sgn!Ends
  <2>1. /\ UNCHANGED <<m1, m3, m9, m12>> /\ m10.st = "runs"
        /\ m5' \subseteq m5 \union {"CHLD"} /\ m13' \subseteq m13 \union {"late"}
    BY <1>13, <1>a, SgnSend DEF Sgn!Ends
  <2> QED BY <1>0, <2>1 DEF Sgn!OnlyOwn
<1>14. ASSUME NEW s \in {"INT", "QUIT"}, Sgn!Type(s) PROVE Sgn!OnlyOwn'
  <2>1. /\ UNCHANGED <<m1, m3, m9, m12, m10>>
        /\ m5' \subseteq m5 \union {s} /\ m13' \subseteq m13 \union {"late"}
    BY <1>14, <1>a, SgnSend DEF Sgn!Type
  <2> QED BY <1>0, <2>1 DEF Sgn!OnlyOwn
<1>15. ASSUME NEW s \in Sgn!Sig, Sgn!Deliver(s) PROVE Sgn!OnlyOwn'
  <2>1. /\ s \in m5 /\ m5' = m5 \ {s} /\ UNCHANGED <<m1, m3, m9>>
        /\ \/ m3[s] = "DFL" /\ UNCHANGED <<m10, m13>> /\ (m12' = m12 \/ m12' = s)
           \/ m3[s] = "jump" /\ UNCHANGED <<m10, m12>>
           \/ /\ UNCHANGED <<m12, m13>>
              /\ m10' = IF s = "CHLD" /\ m10.st = "dead" THEN [m10 EXCEPT !.st = "stolen"] ELSE m10
    BY <1>15, SgnDeliver
  <2>2. m10.st = "none" => m10'.st = "none"
    BY <2>1
  <2> QED BY <1>0, <2>1, <2>2 DEF Sgn!OnlyOwn
<1>16. Sgn!system \/ Sgn!sleep \/ Sgn!abort \/ Sgn!suspend2 => Sgn!OnlyOwn'
  BY <1>1, <1>2, <1>4, <1>5, <1>6, <1>7, <1>8, <1>9, <1>a DEF Sgn!system, Sgn!sleep, Sgn!abort, Sgn!suspend2
<1> QED BY <1>1, <1>10, <1>11, <1>12, <1>13, <1>14, <1>15, <1>16 DEF Sgn!Next, Sgn!Main, Sgn!Kernel

\* What stays as it is when handlers and mask do.
LEMMA SgnSameFrames ==
  ASSUME UNCHANGED <<m6, m4>>
  PROVE  /\ Sgn!Base' = Sgn!Base /\ \A t \in Sgn!Sig : Sgn!AllBlock(t)' <=> Sgn!AllBlock(t)
         /\ \A t \in Sgn!Sig : t \notin m5' /\ m12' # t /\ Sgn!Absent(t) => Sgn!Absent(t)'
  BY DEF Sgn!Base, Sgn!AllBlock, Sgn!Absent

LEMMA SgnSystemStep == ASSUME Sgn!IInv, m1 = "system", Sgn!Next PROVE Sgn!SystemOK'
<1>0. /\ Sgn!TypeOK /\ Sgn!SystemOK /\ Sgn!OnlyOwn /\ m7.disp = m8.disp
      /\ m8.disp \in [Sgn!Sig -> {"DFL", "IGN", "h"}]
      /\ m9 = "off" /\ (\A s \in Sgn!Sig : m3[s] # "jump")
  BY DEF Sgn!IInv, Sgn!TypeOK, Sgn!OnlyOwn
<1>a. /\ "INT" \in Sgn!Sig /\ "QUIT" \in Sgn!Sig /\ "CHLD" \in Sgn!Sig /\ "ALRM" \in Sgn!Sig /\ "ABRT" \in Sgn!Sig
  BY DEF Sgn!Sig
<1>b. m2 \in {"ignoreINT", "ignoreQUIT", "block", "fork", "wait", "undoINT", "undoQUIT", "unblock", "ret"}
  BY <1>0 DEF Sgn!SystemOK
<1>1. CASE Sgn!Ignore("INT", "ignoreINT", "ignoreQUIT")
  <2>1. /\ m2 = "ignoreINT" /\ m2' = "ignoreQUIT" /\ m8' = m8
        /\ Sgn!Base' = m4' /\ Sgn!Base = m4 /\ (Sgn!Absent("INT")' <=> "INT" \notin m5')
    BY <1>1, <1>a, SgnAt DEF Sgn!Ignore
  <2>2. /\ m3'["INT"] = "IGN" /\ (\A t \in Sgn!Sig \ {"INT"} : m3'[t] = m3[t])
        /\ "INT" \notin m5'
    BY <1>0, <1>1, <1>a, SgnSigaction DEF Sgn!Ignore
  <2>3. UNCHANGED <<m4, m10, m11>>
    BY <1>1 DEF Sgn!Ignore
  <2> QED BY <1>0, <1>a, <2>1, <2>2, <2>3 DEF Sgn!SystemOK
<1>2. CASE Sgn!Ignore("QUIT", "ignoreQUIT", "block")
  <2>1. /\ m2 = "ignoreQUIT" /\ m2' = "block" /\ m8' = m8
        /\ Sgn!Base' = m4' /\ Sgn!Base = m4 /\ (Sgn!Absent("QUIT")' <=> "QUIT" \notin m5')
        /\ (Sgn!Absent("INT")' <=> "INT" \notin m5') /\ (Sgn!Absent("INT") <=> "INT" \notin m5)
    BY <1>2, <1>a, SgnAt DEF Sgn!Ignore
  <2>2. /\ m3'["QUIT"] = "IGN" /\ (\A t \in Sgn!Sig \ {"QUIT"} : m3'[t] = m3[t])
        /\ "QUIT" \notin m5' /\ m5' \subseteq m5
    BY <1>0, <1>2, <1>a, SgnSigaction DEF Sgn!Ignore
  <2>3. UNCHANGED <<m4, m10, m11>>
    BY <1>2 DEF Sgn!Ignore
  <2>4. /\ m3["INT"] = "IGN" /\ Sgn!Absent("INT") /\ Sgn!Base = m8.mask /\ m10.st = "none" /\ m11 = "0"
        /\ \A s \in Sgn!Sig \ {"INT", "QUIT"} : m3[s] = m8.disp[s]
    BY <1>0, <2>1 DEF Sgn!SystemOK
  <2>5. m3'["INT"] = "IGN" /\ \A s \in Sgn!Sig \ {"INT", "QUIT"} : m3'[s] = m8'.disp[s]
    BY <1>a, <2>1, <2>2, <2>4
  <2> QED BY <2>1, <2>2, <2>3, <2>4, <2>5 DEF Sgn!SystemOK
<1>3. CASE Sgn!Block
  <2>1. /\ m2 = "block" /\ m2' = "fork" /\ m8' = m8
        /\ Sgn!Base' = m4' /\ Sgn!Base = m4 /\ (Sgn!AllBlock("CHLD")' <=> "CHLD" \in m4')
        /\ (Sgn!Absent("INT")' <=> "INT" \notin m5') /\ (Sgn!Absent("INT") <=> "INT" \notin m5)
        /\ (Sgn!Absent("QUIT")' <=> "QUIT" \notin m5') /\ (Sgn!Absent("QUIT") <=> "QUIT" \notin m5)
    BY <1>3, <1>a, SgnAt DEF Sgn!Block, Sgn!Unblocked
  <2>2. UNCHANGED <<m3, m5, m10, m11>> /\ m7' = [m7 EXCEPT !.mask = m4] /\ "CHLD" \in m4'
    BY <1>3 DEF Sgn!Block, Sgn!Blocked
  <2>3. m7'.mask = m4
    BY <1>0, <2>2 DEF Sgn!TypeOK
  <2> QED BY <1>0, <2>1, <2>2, <2>3 DEF Sgn!SystemOK
<1>4. CASE Sgn!fork
  <2>1. /\ m2 = "fork" /\ m8' = m8
        /\ (Sgn!AllBlock("CHLD")' <=> "CHLD" \in m4') /\ (Sgn!AllBlock("CHLD") <=> "CHLD" \in m4)
        /\ (Sgn!Absent("INT")' <=> "INT" \notin m5') /\ (Sgn!Absent("INT") <=> "INT" \notin m5)
        /\ (Sgn!Absent("QUIT")' <=> "QUIT" \notin m5') /\ (Sgn!Absent("QUIT") <=> "QUIT" \notin m5)
    BY <1>4, <1>a, SgnAt DEF Sgn!fork
  <2>2. UNCHANGED <<m3, m4, m5, m7>>
    BY <1>4 DEF Sgn!fork
  <2>3. \/ m2' = "wait" /\ m10'.st = "born" /\ m11' = m11
        \/ m2' = "undoINT" /\ m10' = m10 /\ m11' = "-1"
    BY <1>4, SgnAt DEF Sgn!fork, Sgn!Waited
  <2> QED BY <1>0, <2>1, <2>2, <2>3 DEF Sgn!SystemOK
<1>5. CASE Sgn!waitpid
  <2>1. /\ m2 = "wait" /\ m2' = "undoINT" /\ m8' = m8
        /\ (Sgn!AllBlock("CHLD")' <=> "CHLD" \in m4') /\ (Sgn!AllBlock("CHLD") <=> "CHLD" \in m4)
    BY <1>5, <1>a, SgnAt DEF Sgn!waitpid, Sgn!Waited
  <2>2. UNCHANGED <<m3, m4, m5, m7>>
    BY <1>5 DEF Sgn!waitpid
  <2>3. m10.st = "dead"
    BY <1>0, <1>5, <2>1 DEF Sgn!waitpid, Sgn!SystemOK
  <2>4. m10'.st = "reaped" /\ m11' = "its"
    BY <1>0, <1>5, <2>3 DEF Sgn!waitpid, Sgn!TypeOK
  <2> QED BY <1>0, <2>1, <2>2, <2>4 DEF Sgn!SystemOK
<1>6. CASE Sgn!Undo("INT", "undoINT", "undoQUIT")
  <2>1. /\ m2 = "undoINT" /\ m2' = "undoQUIT" /\ m8' = m8
        /\ (Sgn!AllBlock("CHLD")' <=> "CHLD" \in m4') /\ (Sgn!AllBlock("CHLD") <=> "CHLD" \in m4)
    BY <1>6, <1>a, SgnAt DEF Sgn!Undo
  <2>2. m3'["INT"] = m8.disp["INT"] /\ (\A t \in Sgn!Sig \ {"INT"} : m3'[t] = m3[t])
    BY <1>0, <1>6, <1>a, SgnSigaction DEF Sgn!Undo
  <2>3. UNCHANGED <<m4, m10, m11, m7>>
    BY <1>6 DEF Sgn!Undo
  <2> QED BY <1>0, <1>a, <2>1, <2>2, <2>3 DEF Sgn!SystemOK
<1>7. CASE Sgn!Undo("QUIT", "undoQUIT", "unblock")
  <2>1. /\ m2 = "undoQUIT" /\ m2' = "unblock" /\ m8' = m8
        /\ (Sgn!AllBlock("CHLD")' <=> "CHLD" \in m4') /\ (Sgn!AllBlock("CHLD") <=> "CHLD" \in m4)
    BY <1>7, <1>a, SgnAt DEF Sgn!Undo
  <2>2. m3'["QUIT"] = m8.disp["QUIT"] /\ (\A t \in Sgn!Sig \ {"QUIT"} : m3'[t] = m3[t])
    BY <1>0, <1>7, <1>a, SgnSigaction DEF Sgn!Undo
  <2>3. UNCHANGED <<m4, m10, m11, m7>>
    BY <1>7 DEF Sgn!Undo
  <2> QED BY <1>0, <1>a, <2>1, <2>2, <2>3 DEF Sgn!SystemOK
<1>8. CASE Sgn!Unblock
  <2>1. m2 = "unblock" /\ m2' = "ret" /\ m8' = m8 /\ Sgn!Base' = m4'
    BY <1>8, SgnAt DEF Sgn!Unblock
  <2>2. UNCHANGED <<m3, m10, m11>> /\ m4' = m7.mask
    BY <1>8 DEF Sgn!Unblock
  <2> QED BY <1>0, <2>1, <2>2 DEF Sgn!SystemOK
<1>9. CASE Sgn!HandlerEnd
  <2>1. /\ m6 # <<>> /\ m6' = SubSeq(m6, 1, Len(m6) - 1)
        /\ UNCHANGED <<m3, m5, m7, m8, m10, m11, m12, m2>>
        /\ m4' = m6[Len(m6)].mask
    BY <1>9, <1>b, SgnHandlerEnd
  <2>2. /\ Sgn!Base' = Sgn!Base /\ (Sgn!AllBlock("CHLD") => Sgn!AllBlock("CHLD")')
        /\ \A t \in Sgn!Sig : t \notin m5' /\ m12' # t /\ Sgn!Absent(t) => Sgn!Absent(t)'
    BY <1>0, <1>a, <2>1, SgnPop
  <2>3. \A t \in Sgn!Sig : Sgn!Absent(t) => Sgn!Absent(t)'
    BY <2>1, <2>2 DEF Sgn!Absent
  <2>4. (Sgn!Absent("INT") => Sgn!Absent("INT")') /\ (Sgn!Absent("QUIT") => Sgn!Absent("QUIT")')
    BY <1>a, <2>3
  <2> QED BY <1>0, <2>1, <2>2, <2>4 DEF Sgn!SystemOK
<1>10. CASE Sgn!Fire
  BY <1>0, <1>10 DEF Sgn!Fire
<1>11. CASE Sgn!Ends
  <2>1. /\ UNCHANGED <<m3, m4, m6, m7, m8, m11, m12, m2>> /\ m10.st = "runs"
        /\ m5' \subseteq m5 \union {"CHLD"} /\ m10' = [m10 EXCEPT !.st = "dead"]
    BY <1>11, <1>a, SgnSend DEF Sgn!Ends
  <2>2. m2 = "wait" /\ m10'.st = "dead"
    BY <1>0, <1>b, <2>1 DEF Sgn!SystemOK, Sgn!TypeOK
  <2>3. /\ (Sgn!AllBlock("CHLD") => Sgn!AllBlock("CHLD")')
        /\ \A t \in Sgn!Sig : t \notin m5' /\ m12' # t /\ Sgn!Absent(t) => Sgn!Absent(t)'
    BY <1>a, <2>1, SgnSameFrames
  <2>4. (Sgn!Absent("INT") => Sgn!Absent("INT")') /\ (Sgn!Absent("QUIT") => Sgn!Absent("QUIT")')
    BY <1>a, <2>1, <2>3 DEF Sgn!Absent
  <2> QED BY <1>0, <2>1, <2>2, <2>3, <2>4 DEF Sgn!SystemOK
<1>12. CASE Sgn!Exec
  <2>1. /\ UNCHANGED <<m3, m4, m6, m7, m8, m11, m12, m2, m5>> /\ m10.st = "born"
        /\ m10' = [st |-> "runs", ign |-> Sgn!Ignoring(m7.disp), mask |-> m7.mask]
    BY <1>12 DEF Sgn!Exec
  <2>2. m2 = "wait" /\ m7.mask = m8.mask
    BY <1>0, <1>b, <2>1 DEF Sgn!SystemOK
  <2>3. /\ (Sgn!AllBlock("CHLD") => Sgn!AllBlock("CHLD")')
        /\ \A t \in Sgn!Sig : t \notin m5' /\ m12' # t /\ Sgn!Absent(t) => Sgn!Absent(t)'
    BY <1>a, <2>1, SgnSameFrames
  <2>4. (Sgn!Absent("INT") => Sgn!Absent("INT")') /\ (Sgn!Absent("QUIT") => Sgn!Absent("QUIT")')
    BY <1>a, <2>1, <2>3 DEF Sgn!Absent
  <2>5. m10'.st = "runs" /\ m10'.ign = Sgn!Ignoring(m8'.disp) /\ m10'.mask = m8'.mask
    BY <1>0, <2>1, <2>2
  <2> QED BY <1>0, <2>1, <2>2, <2>3, <2>4, <2>5 DEF Sgn!SystemOK
<1>13. ASSUME NEW s \in {"INT", "QUIT"}, Sgn!Type(s) PROVE Sgn!SystemOK'
  <2>1. /\ UNCHANGED <<m3, m4, m6, m7, m8, m11, m12, m2, m10>>
        /\ m5' \subseteq m5 \union {s} /\ (m3[s] = "IGN" => m5' = m5)
    BY <1>13, <1>a, SgnSend DEF Sgn!Type
  <2>3. /\ Sgn!Base' = Sgn!Base /\ (Sgn!AllBlock("CHLD") => Sgn!AllBlock("CHLD")')
        /\ \A t \in Sgn!Sig : t \notin m5' /\ m12' # t /\ Sgn!Absent(t) => Sgn!Absent(t)'
    BY <1>a, <2>1, SgnSameFrames
  <2>4. /\ m3["INT"] = "IGN" => (Sgn!Absent("INT") => Sgn!Absent("INT")')
        /\ m3["QUIT"] = "IGN" => (Sgn!Absent("QUIT") => Sgn!Absent("QUIT")')
    BY <1>a, <2>1, <2>3, <1>13 DEF Sgn!Absent
  <2> QED BY <1>0, <2>1, <2>3, <2>4 DEF Sgn!SystemOK
<1>14. ASSUME NEW s \in Sgn!Sig, Sgn!Deliver(s) PROVE Sgn!SystemOK'
  <2>1. /\ m12 = "no" /\ s \in m5 /\ s \notin m4 /\ m5' = m5 \ {s}
        /\ UNCHANGED <<m3, m7, m8, m2>>
        /\ \/ UNCHANGED <<m4, m6, m10, m11>> /\ (m12' = m12 \/ m12' = s)
           \/ /\ m6' = Append(m6, [sig |-> s, mask |-> m4]) /\ m4' = m4 \union {s}
              /\ m10' = IF s = "CHLD" /\ m10.st = "dead" THEN [m10 EXCEPT !.st = "stolen"] ELSE m10
              /\ m11' = IF m3[s] = "sig_int" /\ s = "QUIT" THEN "quit" ELSE m11
              /\ m12' = m12
    BY <1>0, <1>14, SgnDeliver
  <2>2. m10' = m10
    <3>1. m10.st = "dead" => Sgn!AllBlock("CHLD")
      BY <1>0, <1>b DEF Sgn!SystemOK
    <3> QED BY <2>1, <3>1 DEF Sgn!AllBlock
  <2>3. m11' = m11
    <3>1. m3["QUIT"] # "sig_int"
      BY <1>0, <1>a DEF Sgn!SystemOK
    <3> QED BY <2>1, <3>1
  <2>4. /\ Sgn!Base' = Sgn!Base /\ (Sgn!AllBlock("CHLD") => Sgn!AllBlock("CHLD")')
        /\ \A t \in Sgn!Sig : t # s /\ t \notin m5' /\ m12' # t /\ Sgn!Absent(t) => Sgn!Absent(t)'
    BY <1>0, <1>a, <2>1, SgnSameFrames, SgnPush
  <2>5. (Sgn!Absent("INT") => Sgn!Absent("INT")') /\ (Sgn!Absent("QUIT") => Sgn!Absent("QUIT")')
    <3>1. ASSUME NEW t \in Sgn!Sig, Sgn!Absent(t) PROVE Sgn!Absent(t)'
      <4>1. t \notin m5 /\ m12 # t /\ t # s
        BY <3>1, <2>1 DEF Sgn!Absent
      <4>2. t \notin m5' /\ m12' # t
        BY <4>1, <2>1
      <4> QED BY <4>1, <4>2, <3>1, <2>4
    <3> QED BY <1>a, <3>1
  <2> QED BY <1>0, <2>1, <2>2, <2>3, <2>4, <2>5 DEF Sgn!SystemOK
<1> QED BY <1>1, <1>2, <1>3, <1>4, <1>5, <1>6, <1>7, <1>8, <1>9, <1>10, <1>11, <1>12, <1>13, <1>14, SgnSystemOnly

LEMMA SgnSystem8Only ==
  ASSUME Sgn!IInv, m1 = "system8", Sgn!Next
  PROVE  \/ Sgn!fork \/ Sgn!waitpid \/ Sgn!HandlerEnd
         \/ Sgn!Fire \/ Sgn!Ends \/ Sgn!Exec \/ (\E s \in Sgn!Sig : Sgn!Deliver(s)) \/ (\E s \in {"INT", "QUIT"} : Sgn!Type(s))
<1>1. m2 \in {"fork", "wait", "ret"}
  BY DEF Sgn!IInv, Sgn!System8OK
<1>2. \A p, q : p \notin {"fork", "wait", "ret"} => ~ Sgn!At(p, q)
  BY <1>1, SgnAt
<1>3. ~ Sgn!sleep /\ ~ Sgn!Block /\ ~ Sgn!Unblock
  BY <1>2 DEF Sgn!sleep, Sgn!Act, Sgn!alarm, Sgn!pause, Sgn!alarm0, Sgn!Undo, Sgn!Block, Sgn!Unblock
<1>4. ~ Sgn!abort
  BY <1>2 DEF Sgn!abort, Sgn!Query, Sgn!Flush, Sgn!Fill, Sgn!Kill, Sgn!Caught, Sgn!Default
<1>5. ~ Sgn!suspend2 /\ ~ Sgn!sigsuspend
  BY <1>2 DEF Sgn!suspend2, Sgn!Catch, Sgn!Test, Sgn!Clear, Sgn!sigsuspend
<1>6. Sgn!system => Sgn!fork \/ Sgn!waitpid
  BY <1>2 DEF Sgn!system, Sgn!Ignore, Sgn!Undo
<1> QED BY <1>3, <1>4, <1>5, <1>6 DEF Sgn!Next, Sgn!Main, Sgn!Kernel

LEMMA SgnSystem8Step == ASSUME Sgn!IInv, m1 = "system8", Sgn!Next PROVE Sgn!System8OK'
<1>0. /\ Sgn!TypeOK /\ Sgn!System8OK
      /\ m8.disp \in [Sgn!Sig -> {"DFL", "IGN", "h"}]
      /\ m9 = "off" /\ (\A s \in Sgn!Sig : m3[s] # "jump")
  BY DEF Sgn!IInv, Sgn!TypeOK, Sgn!OnlyOwn
<1>a. /\ "INT" \in Sgn!Sig /\ "QUIT" \in Sgn!Sig /\ "CHLD" \in Sgn!Sig
  BY DEF Sgn!Sig
<1>b. m2 \in {"fork", "wait", "ret"}
  BY <1>0 DEF Sgn!System8OK
<1>1. CASE Sgn!fork
  <2>1. m2 = "fork" /\ m8' = m8 /\ Sgn!Base' = m4' /\ Sgn!Base = m4 /\ m2' \in {"wait", "ret"}
    BY <1>1, SgnAt DEF Sgn!fork, Sgn!Waited
  <2>2. UNCHANGED <<m3, m4>>
    BY <1>1 DEF Sgn!fork
  <2>3. m10' = [st |-> "born", ign |-> Sgn!Ignoring(m3), mask |-> m4] \/ m10' = m10
    BY <1>1 DEF Sgn!fork
  <2>4. Sgn!Ignoring(m3) = Sgn!Ignoring(m8.disp)
    BY <1>0, <1>a DEF Sgn!Ignoring, Sgn!System8OK
  <2>5. m10'.st \in {"born", "runs"} => m10'.ign = Sgn!Ignoring(m8'.disp) /\ m10'.mask = m8'.mask
    BY <1>0, <2>1, <2>3, <2>4 DEF Sgn!System8OK
  <2> QED BY <1>0, <2>1, <2>2, <2>5 DEF Sgn!System8OK
<1>2. CASE Sgn!waitpid
  <2>1. m2 = "wait" /\ m2' = "ret" /\ m8' = m8 /\ Sgn!Base' = m4' /\ Sgn!Base = m4
    BY <1>2, SgnAt DEF Sgn!waitpid, Sgn!Waited
  <2>2. UNCHANGED <<m3, m4>> /\ m10'.st = "reaped"
    BY <1>0, <1>2 DEF Sgn!waitpid, Sgn!TypeOK
  <2> QED BY <1>0, <2>1, <2>2 DEF Sgn!System8OK
<1>3. CASE Sgn!HandlerEnd
  <2>1. /\ m6 # <<>> /\ m6' = SubSeq(m6, 1, Len(m6) - 1)
        /\ UNCHANGED <<m3, m8, m10, m2>>
        /\ m4' = m6[Len(m6)].mask
    BY <1>3, <1>b, SgnHandlerEnd
  <2>2. Sgn!Base' = Sgn!Base
    BY <1>0, <2>1, SgnPop
  <2> QED BY <1>0, <2>1, <2>2 DEF Sgn!System8OK
<1>4. CASE Sgn!Fire
  BY <1>0, <1>4 DEF Sgn!Fire
<1>5. CASE Sgn!Ends
  <2>1. UNCHANGED <<m3, m4, m6, m8, m2>> /\ m10'.st = "dead"
    BY <1>0, <1>5 DEF Sgn!Ends, Sgn!TypeOK
  <2>2. Sgn!Base' = Sgn!Base
    BY <2>1, SgnSameFrames
  <2> QED BY <1>0, <2>1, <2>2 DEF Sgn!System8OK
<1>6. CASE Sgn!Exec
  <2>1. /\ UNCHANGED <<m3, m4, m6, m8, m2>> /\ m10.st = "born"
        /\ m10' = [m10 EXCEPT !.st = "runs"]
    BY <1>6 DEF Sgn!Exec
  <2>2. Sgn!Base' = Sgn!Base
    BY <2>1, SgnSameFrames
  <2>3. m10'.ign = m10.ign /\ m10'.mask = m10.mask
    BY <1>0, <2>1 DEF Sgn!TypeOK
  <2> QED BY <1>0, <2>1, <2>2, <2>3 DEF Sgn!System8OK
<1>7. ASSUME NEW s \in {"INT", "QUIT"}, Sgn!Type(s) PROVE Sgn!System8OK'
  <2>1. UNCHANGED <<m3, m4, m6, m8, m2, m10>>
    BY <1>7 DEF Sgn!Type
  <2>2. Sgn!Base' = Sgn!Base
    BY <2>1, SgnSameFrames
  <2> QED BY <1>0, <2>1, <2>2 DEF Sgn!System8OK
<1>8. ASSUME NEW s \in Sgn!Sig, Sgn!Deliver(s) PROVE Sgn!System8OK'
  <2>1. /\ UNCHANGED <<m3, m8, m2>>
        /\ \/ UNCHANGED <<m4, m6, m10>>
           \/ /\ m6' = Append(m6, [sig |-> s, mask |-> m4]) /\ m4' = m4 \union {s}
              /\ m10' = IF s = "CHLD" /\ m10.st = "dead" THEN [m10 EXCEPT !.st = "stolen"] ELSE m10
    BY <1>0, <1>8, SgnDeliver
  <2>2. m10' = m10 \/ m10'.st = "stolen"
    BY <1>0, <2>1 DEF Sgn!TypeOK
  <2>3. Sgn!Base' = Sgn!Base
    BY <1>0, <2>1, SgnSameFrames, SgnPush
  <2> QED BY <1>0, <2>1, <2>2, <2>3 DEF Sgn!System8OK
<1> QED BY <1>1, <1>2, <1>3, <1>4, <1>5, <1>6, <1>7, <1>8, SgnSystem8Only

LEMMA SgnSleep2Only ==
  ASSUME Sgn!IInv, m1 = "sleep2", Sgn!Next
  PROVE  \/ Sgn!Act \/ Sgn!alarm \/ Sgn!pause \/ Sgn!alarm0 \/ Sgn!HandlerEnd
         \/ Sgn!Fire \/ (\E s \in Sgn!Sig : Sgn!Deliver(s)) \/ (\E s \in {"INT", "QUIT"} : Sgn!Type(s))
<1>1. m2 \in {"act", "alarm", "topause", "wait for one", "unalarm", "ret"} /\ m10.st = "none"
  BY DEF Sgn!IInv, Sgn!Sleep2OK, Sgn!OnlyOwn
<1>2. \A p, q : p \notin {"act", "alarm", "topause", "wait for one", "unalarm", "ret"} => ~ Sgn!At(p, q)
  BY <1>1, SgnAt
<1>3. ~ Sgn!system /\ ~ Sgn!Block /\ ~ Sgn!Unblock
  BY <1>2 DEF Sgn!system, Sgn!Ignore, Sgn!fork, Sgn!waitpid, Sgn!Undo, Sgn!Block, Sgn!Unblock
<1>4. ~ Sgn!abort
  BY <1>2 DEF Sgn!abort, Sgn!Query, Sgn!Flush, Sgn!Fill, Sgn!Kill, Sgn!Caught, Sgn!Default
<1>5. ~ Sgn!suspend2 /\ ~ Sgn!sigsuspend
  BY <1>2 DEF Sgn!suspend2, Sgn!Catch, Sgn!Test, Sgn!Clear, Sgn!sigsuspend
<1>6. Sgn!sleep => Sgn!Act \/ Sgn!alarm \/ Sgn!pause \/ Sgn!alarm0
  BY <1>2 DEF Sgn!sleep, Sgn!Undo
<1>7. ~ Sgn!Ends /\ ~ Sgn!Exec
  BY <1>1 DEF Sgn!Ends, Sgn!Exec
<1> QED BY <1>3, <1>4, <1>5, <1>6, <1>7 DEF Sgn!Next, Sgn!Main, Sgn!Kernel

LEMMA SgnSleep2Step == ASSUME Sgn!IInv, m1 = "sleep2", Sgn!Next PROVE Sgn!Sleep2OK'
<1>0. Sgn!TypeOK /\ Sgn!Sleep2OK /\ m8.disp \in [Sgn!Sig -> {"DFL", "IGN", "h"}]
  BY DEF Sgn!IInv, Sgn!TypeOK
<1>a. "ALRM" \in Sgn!Sig
  BY DEF Sgn!Sig
<1>1. CASE Sgn!Act
  <2>1. m2 = "act" /\ m2' = "alarm" /\ m8' = m8 /\ m12' = "no"
    BY <1>1, SgnAt DEF Sgn!Act
  <2>2. m3'["ALRM"] = "jump" /\ \A t \in Sgn!Sig \ {"ALRM"} : m3'[t] = m3[t]
    BY <1>0, <1>1, <1>a, SgnSigaction DEF Sgn!Act
  <2> QED BY <1>0, <2>1, <2>2 DEF Sgn!Sleep2OK
<1>2. CASE Sgn!alarm \/ Sgn!pause
  <2>1. m8' = m8 /\ m12' = "no" /\ m2 # "act" /\ m2' \in {"topause", "wait for one"}
    <3>1. Sgn!alarm => m8' = m8 /\ m12' = "no" /\ m2 = "alarm" /\ m2' = "topause"
      BY SgnAt DEF Sgn!alarm
    <3>2. Sgn!pause => m8' = m8 /\ m12' = "no" /\ m2 = "topause" /\ m2' = "wait for one"
      BY SgnAt DEF Sgn!pause
    <3> QED BY <1>2, <3>1, <3>2
  <2>2. UNCHANGED m3
    BY <1>2 DEF Sgn!alarm, Sgn!pause
  <2> QED BY <1>0, <2>1, <2>2 DEF Sgn!Sleep2OK
<1>2a. CASE Sgn!alarm0
  <2>1. m8' = m8 /\ m12' = "no" /\ m2 = "unalarm" /\ m2' = "ret"
    BY <1>2a, SgnAt DEF Sgn!alarm0
  <2>2. m3' = m3 /\ m9' # "set"
    BY <1>2a DEF Sgn!alarm0
  <2> QED BY <1>0, <2>1, <2>2 DEF Sgn!Sleep2OK
<1>3. CASE Sgn!HandlerEnd
  <2>1. /\ UNCHANGED <<m3, m8, m9, m12>> /\ m12 = "no"
        /\ m2' = m2 \/ (m2 = "wait for one" /\ m2' = "unalarm")
    BY <1>3, SgnHandlerEnd
  <2> QED BY <1>0, <2>1 DEF Sgn!Sleep2OK
<1>4. CASE Sgn!Fire
  BY <1>0, <1>4 DEF Sgn!Fire, Sgn!Sleep2OK
<1>5. ASSUME NEW s \in {"INT", "QUIT"}, Sgn!Type(s) PROVE Sgn!Sleep2OK'
  BY <1>0, <1>5 DEF Sgn!Type, Sgn!Sleep2OK
<1>6. ASSUME NEW s \in Sgn!Sig, Sgn!Deliver(s) PROVE Sgn!Sleep2OK'
  <2>1. /\ m12 = "no" /\ UNCHANGED <<m3, m8, m9>>
        /\ \/ m3[s] = "DFL" /\ m2' = m2 /\ (m12' = m12 \/ m12' = s)
           \/ m3[s] = "jump" /\ m2' = "unalarm" /\ m12' = m12
           \/ m2' = m2 /\ m12' = m12
    BY <1>6, SgnDeliver
  <2>2. m3[s] = "jump" => m2 # "act"
    BY <1>0 DEF Sgn!Sleep2OK
  <2>3. s = "ALRM" /\ m3[s] = "DFL" => m2 = "act"
    BY <1>0 DEF Sgn!Sleep2OK
  <2> QED BY <1>0, <2>1, <2>2, <2>3 DEF Sgn!Sleep2OK
<1> QED BY <1>1, <1>2, <1>2a, <1>3, <1>4, <1>5, <1>6, SgnSleep2Only

LEMMA SgnSuspend2Step == ASSUME Sgn!IInv, m1 = "suspend2", Sgn!Next PROVE Sgn!Suspend2OK'
<1>1. /\ m2 \in {"int", "quit", "block", "test", "suspend", "wait for one", "clear", "unblock", "ret"}
      /\ Sgn!TypeOK /\ m10.st = "none" /\ m9 = "off" /\ \A s \in Sgn!Sig : m3[s] # "jump"
  BY DEF Sgn!IInv, Sgn!Suspend2OK, Sgn!OnlyOwn
<1>2. \A p, q : p \notin {"int", "quit", "block", "test", "suspend", "wait for one", "clear", "unblock", "ret"}
                  => ~ Sgn!At(p, q)
  BY <1>1, SgnAt
<1>3. ~ Sgn!system
  BY <1>2 DEF Sgn!system, Sgn!Ignore, Sgn!fork, Sgn!waitpid, Sgn!Undo
<1>4. ~ Sgn!abort /\ ~ Sgn!sleep
  BY <1>2 DEF Sgn!abort, Sgn!Query, Sgn!Flush, Sgn!Fill, Sgn!Kill, Sgn!Caught, Sgn!Default, Sgn!sleep, Sgn!Act, Sgn!alarm, Sgn!pause, Sgn!alarm0, Sgn!Undo
<1>5. CASE Sgn!Block \/ Sgn!Unblock \/ Sgn!sigsuspend
  BY <1>5, SgnAt DEF Sgn!Block, Sgn!Unblocked, Sgn!Unblock, Sgn!sigsuspend, Sgn!Suspend2OK
<1>6. CASE Sgn!suspend2
  BY <1>6, SgnAt DEF Sgn!suspend2, Sgn!Catch, Sgn!Test, Sgn!Clear, Sgn!Suspend2OK
<1>7. CASE Sgn!HandlerEnd
  <2>1. m2' = m2 \/ m2' = "test"
    BY <1>7, SgnHandlerEnd
  <2> QED BY <1>1, <2>1 DEF Sgn!Suspend2OK
<1>8. ASSUME NEW s \in Sgn!Sig, Sgn!Deliver(s) PROVE Sgn!Suspend2OK'
  <2>1. m2' = m2
    BY <1>1, <1>8, SgnDeliver
  <2> QED BY <1>1, <2>1 DEF Sgn!Suspend2OK
<1>9. CASE Sgn!Fire \/ Sgn!Ends \/ Sgn!Exec \/ \E s \in {"INT", "QUIT"} : Sgn!Type(s)
  <2>1. m2' = m2
    BY <1>9 DEF Sgn!Fire, Sgn!Ends, Sgn!Exec, Sgn!Type
  <2> QED BY <1>1, <2>1 DEF Sgn!Suspend2OK
<1> QED BY <1>3, <1>4, <1>5, <1>6, <1>7, <1>8, <1>9 DEF Sgn!Next, Sgn!Main, Sgn!Kernel

LEMMA SgnSleepOnly ==
  ASSUME Sgn!IInv, m1 = "sleep", Sgn!Next
  PROVE  \/ Sgn!Act \/ Sgn!Block \/ Sgn!alarm \/ Sgn!sigsuspend \/ Sgn!alarm0 \/ Sgn!Undo("ALRM", "undoALRM", "unblock")
         \/ Sgn!Unblock \/ Sgn!HandlerEnd
         \/ Sgn!Fire \/ (\E s \in Sgn!Sig : Sgn!Deliver(s)) \/ (\E s \in {"INT", "QUIT"} : Sgn!Type(s))
<1> DEFINE L == {"act", "block", "alarm", "suspend", "wait for one", "unalarm", "undoALRM", "unblock", "ret"}
<1>1. m2 \in L /\ m10.st = "none"
  BY DEF Sgn!IInv, Sgn!SleepOK, Sgn!OnlyOwn
<1>2. \A p, q : p \notin L => ~ Sgn!At(p, q)
  BY <1>1, SgnAt
<1>3. ~ Sgn!system
  BY <1>2 DEF Sgn!system, Sgn!Ignore, Sgn!fork, Sgn!waitpid, Sgn!Undo
<1>4. ~ Sgn!abort
  BY <1>2 DEF Sgn!abort, Sgn!Query, Sgn!Flush, Sgn!Fill, Sgn!Kill, Sgn!Caught, Sgn!Default
<1>5. ~ Sgn!suspend2 /\ ~ Sgn!pause
  BY <1>2 DEF Sgn!suspend2, Sgn!Catch, Sgn!Test, Sgn!Clear, Sgn!pause
<1>7. ~ Sgn!Ends /\ ~ Sgn!Exec
  BY <1>1 DEF Sgn!Ends, Sgn!Exec
<1> QED BY <1>3, <1>4, <1>5, <1>7 DEF Sgn!Next, Sgn!Main, Sgn!Kernel, Sgn!sleep

LEMMA SgnSleepStep == ASSUME Sgn!IInv, m1 = "sleep", Sgn!Next PROVE Sgn!SleepOK'
<1>0. /\ Sgn!TypeOK /\ Sgn!SleepOK /\ m8.disp \in [Sgn!Sig -> {"DFL", "IGN", "h"}] /\ m7.disp = m8.disp
      /\ \A s \in Sgn!Sig : m3[s] # "jump"
  BY DEF Sgn!IInv, Sgn!TypeOK, Sgn!OnlyOwn
<1>a. "INT" \in Sgn!Sig /\ "QUIT" \in Sgn!Sig /\ "ALRM" \in Sgn!Sig /\ "ALRM" # "INT" /\ "ALRM" # "QUIT"
  BY DEF Sgn!Sig
<1>1. CASE Sgn!Act
  <2>1. m2 = "act" /\ m2' = "block" /\ m8' = m8 /\ m12' = "no" /\ Sgn!Base = m4 /\ Sgn!Base' = m4'
    BY <1>1, SgnAt DEF Sgn!Act
  <2>2. /\ m3'["ALRM"] = "alrm" /\ \A t \in Sgn!Sig \ {"ALRM"} : m3'[t] = m3[t]
        /\ m4' = m4
    BY <1>0, <1>1, <1>a, SgnSigaction DEF Sgn!Act
  <2> QED BY <1>0, <2>1, <2>2 DEF Sgn!SleepOK
<1>2. CASE Sgn!Block
  <2>1. /\ m2 = "block" /\ m2' = "alarm" /\ m8' = m8 /\ m12' = "no" /\ Sgn!Base = m4 /\ Sgn!Base' = m4'
        /\ (Sgn!AllBlock("ALRM")' <=> "ALRM" \in m4')
    BY <1>2, <1>a, SgnAt DEF Sgn!Block, Sgn!Unblocked
  <2>2. UNCHANGED <<m3, m5, m13, m9>> /\ m7' = [m7 EXCEPT !.mask = m4] /\ m4' = m4 \union {"ALRM"}
    BY <1>2 DEF Sgn!Block, Sgn!Blocked
  <2>3. m7'.mask = m4
    BY <1>0, <2>2 DEF Sgn!TypeOK
  <2> QED BY <1>0, <2>1, <2>2, <2>3 DEF Sgn!SleepOK
<1>3. CASE Sgn!alarm
  <2>1. /\ m2 = "alarm" /\ m2' = "suspend" /\ m8' = m8 /\ m12' = "no" /\ Sgn!Base = m4 /\ Sgn!Base' = m4'
        /\ (Sgn!AllBlock("ALRM")' <=> "ALRM" \in m4') /\ (Sgn!AllBlock("ALRM") <=> "ALRM" \in m4)
    BY <1>3, <1>a, SgnAt DEF Sgn!alarm
  <2>2. UNCHANGED <<m3, m4, m7>>
    BY <1>3 DEF Sgn!alarm
  <2> QED BY <1>0, <2>1, <2>2 DEF Sgn!SleepOK
<1>4. CASE Sgn!sigsuspend
  <2>1. m2 = "suspend" /\ m2' = "wait for one" /\ m8' = m8 /\ m12' = "no" /\ Sgn!Base = m4
    BY <1>4, SgnAt DEF Sgn!sigsuspend
  <2>2. UNCHANGED m3 /\ m7' = [m7 EXCEPT !.susp = m4] /\ "ALRM" \notin m4'
    BY <1>4 DEF Sgn!sigsuspend
  <2>3. m7'.mask = m7.mask /\ m7'.susp = m4
    BY <1>0, <2>2 DEF Sgn!TypeOK
  <2> QED BY <1>0, <2>1, <2>2, <2>3 DEF Sgn!SleepOK
<1>5. CASE Sgn!alarm0
  <2>1. /\ m2 = "unalarm" /\ m2' = "undoALRM" /\ m8' = m8 /\ m12' = "no"
        /\ (Sgn!AllBlock("ALRM")' <=> "ALRM" \in m4') /\ (Sgn!AllBlock("ALRM") <=> "ALRM" \in m4)
    BY <1>5, <1>a, SgnAt DEF Sgn!alarm0
  <2>2. UNCHANGED <<m3, m4, m7, m5, m13>> /\ m9' # "set"
    BY <1>5 DEF Sgn!alarm0
  <2> QED BY <1>0, <2>1, <2>2 DEF Sgn!SleepOK
<1>6. CASE Sgn!Undo("ALRM", "undoALRM", "unblock")
  <2>1. /\ m2 = "undoALRM" /\ m2' = "unblock" /\ m8' = m8 /\ m12' = "no"
        /\ (Sgn!AllBlock("ALRM")' <=> "ALRM" \in m4') /\ (Sgn!AllBlock("ALRM") <=> "ALRM" \in m4)
    BY <1>6, <1>a, SgnAt DEF Sgn!Undo
  <2>2. m3'["ALRM"] = m8.disp["ALRM"] /\ (\A t \in Sgn!Sig \ {"ALRM"} : m3'[t] = m3[t]) /\ m5' \subseteq m5
    BY <1>0, <1>6, <1>a, SgnSigaction DEF Sgn!Undo
  <2>3. UNCHANGED <<m4, m7, m13, m9>>
    BY <1>6 DEF Sgn!Undo
  <2> QED BY <1>0, <2>1, <2>2, <2>3 DEF Sgn!SleepOK
<1>7. CASE Sgn!Unblock
  <2>1. m2 = "unblock" /\ m2' = "ret" /\ m8' = m8 /\ m12' = "no" /\ Sgn!Base' = m4'
    BY <1>7, SgnAt DEF Sgn!Unblock
  <2>2. UNCHANGED <<m3, m7, m5, m13, m9>> /\ m4' = m7.mask
    BY <1>7 DEF Sgn!Unblock
  <2> QED BY <1>0, <2>1, <2>2 DEF Sgn!SleepOK
<1>8. CASE Sgn!HandlerEnd
  <2>1. /\ m12 = "no" /\ m6 # <<>> /\ (\A s \in m5 : s \in m4)
        /\ m6' = SubSeq(m6, 1, Len(m6) - 1) /\ m13 \subseteq m13'
        /\ UNCHANGED <<m3, m5, m7, m8, m9, m12>>
        /\ \/ m2' = m2 /\ m4' = m6[Len(m6)].mask
           \/ /\ Len(m6) = 1 /\ m2 = "wait for one" /\ m2' = "unalarm" /\ m4' = m7.susp
    BY <1>8, SgnHandlerEnd
  <2>2. CASE m2' = m2 /\ m4' = m6[Len(m6)].mask
    <3>1. Sgn!Base' = Sgn!Base /\ (Sgn!AllBlock("ALRM") => Sgn!AllBlock("ALRM")')
      BY <1>0, <1>a, <2>1, <2>2, SgnPop
    <3>2. m2 = "wait for one" /\ "ALRM" \in m5 => "late" \in m13'
      BY <1>0, <2>1 DEF Sgn!SleepOK
    <3>3. m2 \in {"unalarm", "undoALRM", "unblock", "ret"} /\ "ALRM" \in m5 => "late" \in m13'
      BY <1>0, <2>1 DEF Sgn!SleepOK
    <3> QED BY <1>0, <2>1, <2>2, <3>1, <3>2, <3>3 DEF Sgn!SleepOK
  <2>3. CASE Len(m6) = 1 /\ m2 = "wait for one" /\ m2' = "unalarm" /\ m4' = m7.susp
    <3>1. "ALRM" \in m5 => "late" \in m13'
      BY <1>0, <2>1, <2>3 DEF Sgn!SleepOK
    <3>2. "ALRM" \in m4'
      BY <1>0, <2>3 DEF Sgn!SleepOK
    <3>3. Sgn!AllBlock("ALRM")'
      <4>0. SubSeq(m6, 1, 0) \in Seq(Sgn!Frame) /\ Len(SubSeq(m6, 1, 0)) = 0
        BY <1>0 DEF Sgn!TypeOK
      <4>3. Len(m6) - 1 = 0
        <5> DEFINE k == Len(m6)
        <5>1. k = 1
          BY <2>3
        <5> HIDE DEF k
        <5>2. k - 1 = 0
          BY <5>1
        <5> QED BY <5>2 DEF k
      <4>4. m6' = SubSeq(m6, 1, 0)
        BY <2>1, <4>3
      <4>1. m6' = <<>>
        BY <4>0, <4>4
      <4>2. 1..Len(m6') = {}
        BY <4>1
      <4> QED BY <3>2, <4>2 DEF Sgn!AllBlock
    <3> QED BY <1>0, <2>1, <2>3, <3>1, <3>3 DEF Sgn!SleepOK
  <2> QED BY <2>1, <2>2, <2>3
<1>9. CASE Sgn!Fire
  <2>1. /\ UNCHANGED <<m3, m4, m6, m7, m8, m2, m12>> /\ m12 = "no" /\ m9 = "set" /\ m9' # "set"
        /\ m13 \subseteq m13' /\ (Sgn!Late("ALRM") => "late" \in m13')
    BY <1>9, <1>a, SgnSend DEF Sgn!Fire
  <2>2. Sgn!Base' = Sgn!Base /\ (Sgn!AllBlock("ALRM") => Sgn!AllBlock("ALRM")')
    BY <1>a, <2>1, SgnSameFrames
  <2>3. m2 = "wait for one" => "ALRM" \notin m4 \/ "late" \in m13'
    BY <2>1 DEF Sgn!Late
  <2>4. m2 = "unalarm" => "late" \in m13'
    <3>1. m2 = "unalarm" => Sgn!AllBlock("ALRM")
      BY <1>0 DEF Sgn!SleepOK
    <3> QED BY <2>1, <3>1 DEF Sgn!Late, Sgn!AllBlock
  <2>5. m2 \notin {"undoALRM", "unblock", "ret"}
    BY <1>0, <2>1 DEF Sgn!SleepOK
  <2> QED BY <1>0, <2>1, <2>2, <2>3, <2>4, <2>5 DEF Sgn!SleepOK
<1>10. ASSUME NEW s \in {"INT", "QUIT"}, Sgn!Type(s) PROVE Sgn!SleepOK'
  <2>1. /\ UNCHANGED <<m3, m4, m6, m7, m8, m2, m12, m9>> /\ m12 = "no"
        /\ m13 \subseteq m13' /\ m5' \subseteq m5 \union {s}
    BY <1>10, <1>a, SgnSend DEF Sgn!Type
  <2>2. Sgn!Base' = Sgn!Base /\ (Sgn!AllBlock("ALRM") => Sgn!AllBlock("ALRM")')
    BY <1>a, <2>1, SgnSameFrames
  <2>3. ("ALRM" \in m5' => "ALRM" \in m5) /\ ("late" \in m13 => "late" \in m13')
    BY <2>1, <1>10, <1>a
  <2> QED BY <1>0, <2>1, <2>2, <2>3 DEF Sgn!SleepOK
<1>11. ASSUME NEW s \in Sgn!Sig, Sgn!Deliver(s) PROVE Sgn!SleepOK'
  <2>1. /\ m12 = "no" /\ s \in m5 /\ m5' = m5 \ {s}
        /\ UNCHANGED <<m3, m7, m8, m9, m2, m13>>
        /\ \/ m3[s] = "DFL" /\ UNCHANGED <<m4, m6>> /\ (m12' = m12 \/ m12' = s)
           \/ /\ m6' = Append(m6, [sig |-> s, mask |-> m4]) /\ m4' = m4 \union {s} /\ m12' = m12
    BY <1>0, <1>11, SgnDeliver
  <2>2. Sgn!Base' = Sgn!Base /\ (Sgn!AllBlock("ALRM") => Sgn!AllBlock("ALRM")')
    BY <1>0, <1>a, <2>1, SgnSameFrames, SgnPush
  <2>3. "ALRM" \in m5' => "ALRM" \in m5 /\ ("ALRM" \in m4' <=> "ALRM" \in m4)
    BY <2>1
  <2>4. m12' = "ALRM" => m2 = "act" \/ "late" \in m13
    <3>1. m12' = "ALRM" => s = "ALRM" /\ m3["ALRM"] = "DFL" /\ "ALRM" \in m5
      BY <2>1
    <3>2. m3["ALRM"] = "DFL" => m2 \in {"act", "unblock", "ret"}
      BY <1>0 DEF Sgn!SleepOK
    <3> QED BY <1>0, <3>1, <3>2 DEF Sgn!SleepOK
  <2> QED BY <1>0, <2>1, <2>2, <2>3, <2>4 DEF Sgn!SleepOK
<1> QED BY <1>1, <1>2, <1>3, <1>4, <1>5, <1>6, <1>7, <1>8, <1>9, <1>10, <1>11, SgnSleepOnly

LEMMA SgnAbortOnly ==
  ASSUME Sgn!IInv, m1 = "abort", Sgn!Next
  PROVE  \/ Sgn!Query \/ Sgn!Flush \/ Sgn!Fill("fill", "kill") \/ Sgn!Kill("kill", "caught")
         \/ Sgn!Caught \/ Sgn!Default \/ Sgn!Fill("fill2", "kill2") \/ Sgn!Kill("kill2", "exit") \/ Sgn!HandlerEnd
         \/ (\E s \in Sgn!Sig : Sgn!Deliver(s)) \/ (\E s \in {"INT", "QUIT"} : Sgn!Type(s))
<1> DEFINE L == {"query", "flush", "fill", "kill", "caught", "dfl", "fill2", "kill2", "exit"}
<1>1. m2 \in L /\ m10.st = "none" /\ m9 = "off"
  BY DEF Sgn!IInv, Sgn!AbortOK, Sgn!OnlyOwn
<1>2. \A p, q : p \notin L => ~ Sgn!At(p, q)
  BY <1>1, SgnAt
<1>3. ~ Sgn!system /\ ~ Sgn!Block /\ ~ Sgn!Unblock
  BY <1>2 DEF Sgn!system, Sgn!Ignore, Sgn!fork, Sgn!waitpid, Sgn!Undo, Sgn!Block, Sgn!Unblock
<1>4. ~ Sgn!sleep
  BY <1>2 DEF Sgn!sleep, Sgn!Act, Sgn!alarm, Sgn!pause, Sgn!alarm0, Sgn!Undo
<1>5. ~ Sgn!suspend2 /\ ~ Sgn!sigsuspend
  BY <1>2 DEF Sgn!suspend2, Sgn!Catch, Sgn!Test, Sgn!Clear, Sgn!sigsuspend
<1>7. ~ Sgn!Ends /\ ~ Sgn!Exec /\ ~ Sgn!Fire
  BY <1>1 DEF Sgn!Ends, Sgn!Exec, Sgn!Fire
<1> QED BY <1>3, <1>4, <1>5, <1>7 DEF Sgn!Next, Sgn!Main, Sgn!Kernel, Sgn!abort

LEMMA SgnAbortStep == ASSUME Sgn!IInv, m1 = "abort", Sgn!Next PROVE Sgn!AbortOK'
<1>0. /\ Sgn!TypeOK /\ Sgn!AbortOK /\ m5 \subseteq Sgn!Sig /\ m4 \subseteq Sgn!Sig /\ \A s \in Sgn!Sig : m3[s] # "jump"
  BY DEF Sgn!IInv, Sgn!TypeOK, Sgn!OnlyOwn
<1>a. "INT" \in Sgn!Sig /\ "QUIT" \in Sgn!Sig /\ "ABRT" \in Sgn!Sig /\ "ABRT" # "INT" /\ "ABRT" # "QUIT"
  BY DEF Sgn!Sig
<1>b. m2 \in {"query", "flush", "fill", "kill", "caught", "dfl", "fill2", "kill2", "exit"}
  BY <1>0 DEF Sgn!AbortOK
<1>1. CASE Sgn!Query
  <2>1. m2 = "query" /\ m2' = "flush" /\ m12' = "no" /\ Sgn!Base = m4 /\ Sgn!Base' = m4'
    BY <1>1, SgnAt DEF Sgn!Query
  <2>2. m5' \subseteq m5 /\ m4' = m4
    BY <1>0, <1>1, <1>a, SgnSigaction DEF Sgn!Query
  <2> QED BY <1>0, <2>1, <2>2 DEF Sgn!AbortOK
<1>2. CASE Sgn!Flush
  <2>1. /\ m2 = "flush" /\ m2' = "fill" /\ m12' = "no" /\ Sgn!Base = m4 /\ m6' = <<>>
        /\ \A s \in m5 : s \in m4
    BY <1>2, SgnAt DEF Sgn!Flush
  <2>2. UNCHANGED <<m3, m5>> /\ (m3["ABRT"] = "DFL" => "dirty" \notin m13')
    BY <1>2 DEF Sgn!Flush
  <2>3. m5 = {}
    BY <1>0, <2>1 DEF Sgn!AbortOK
  <2>4. m3'["ABRT"] = "DFL" => Sgn!Clean'
    BY <2>2 DEF Sgn!Clean
  <2> QED BY <2>1, <2>2, <2>3, <2>4 DEF Sgn!AbortOK
<1>3. CASE Sgn!Fill("fill", "kill")
  <2>1. m2 = "fill" /\ m2' = "kill" /\ m12' = "no" /\ m6' = <<>>
    BY <1>3, SgnAt DEF Sgn!Fill
  <2>2. UNCHANGED <<m3, m5, m13>> /\ m4' = Sgn!Sig \ {"ABRT"}
    BY <1>3 DEF Sgn!Fill
  <2>3. Sgn!Clean' <=> Sgn!Clean
    BY <2>2 DEF Sgn!Clean
  <2> QED BY <1>0, <2>1, <2>2, <2>3 DEF Sgn!AbortOK
<1>4. CASE Sgn!Kill("kill", "caught")
  <2>1. m2 = "kill" /\ m2' = "caught" /\ m12' = "no" /\ m6' = <<>>
    BY <1>4, SgnAt DEF Sgn!Kill
  <2>2. UNCHANGED <<m3, m4, m13>>
    BY <1>4 DEF Sgn!Kill
  <2>3. Sgn!Clean' <=> Sgn!Clean
    BY <2>2 DEF Sgn!Clean
  <2> QED BY <1>0, <2>1, <2>2, <2>3 DEF Sgn!AbortOK
<1>5. CASE Sgn!Caught
  <2>1. /\ m2 = "caught" /\ m2' = "dfl" /\ m12' = "no" /\ m6' = <<>> /\ m6 = <<>>
        /\ \A s \in m5 : s \in m4
    BY <1>5, SgnAt DEF Sgn!Caught
  <2>2. UNCHANGED <<m3, m4, m5>> /\ "dirty" \notin m13'
    BY <1>5 DEF Sgn!Caught
  <2>3. m4 = Sgn!Sig \ {"ABRT"}
    <3>1. Len(m6) # 1
      BY <2>1
    <3> QED BY <1>0, <2>1, <3>1 DEF Sgn!AbortOK
  <2>4. Sgn!Clean' /\ "ABRT" \notin m5'
    BY <2>1, <2>2, <2>3 DEF Sgn!Clean
  <2> QED BY <2>1, <2>2, <2>3, <2>4 DEF Sgn!AbortOK
<1>6. CASE Sgn!Default
  <2>1. m2 = "dfl" /\ m2' = "fill2" /\ m12' = "no" /\ m6' = <<>>
    BY <1>6, SgnAt DEF Sgn!Default
  <2>2. m3'["ABRT"] = "DFL" /\ m5' \subseteq m5 /\ UNCHANGED <<m4, m13>>
    BY <1>0, <1>6, <1>a, SgnSigaction DEF Sgn!Default
  <2>3. Sgn!Clean' <=> Sgn!Clean
    BY <2>2 DEF Sgn!Clean
  <2> QED BY <1>0, <2>1, <2>2, <2>3 DEF Sgn!AbortOK
<1>7. CASE Sgn!Fill("fill2", "kill2")
  <2>1. m2 = "fill2" /\ m2' = "kill2" /\ m12' = "no" /\ m6' = <<>>
    BY <1>7, SgnAt DEF Sgn!Fill
  <2>2. UNCHANGED <<m3, m5, m13>> /\ m4' = Sgn!Sig \ {"ABRT"}
    BY <1>7 DEF Sgn!Fill
  <2>3. Sgn!Clean' <=> Sgn!Clean
    BY <2>2 DEF Sgn!Clean
  <2> QED BY <1>0, <2>1, <2>2, <2>3 DEF Sgn!AbortOK
<1>8. CASE Sgn!Kill("kill2", "exit")
  <2>1. m2 = "kill2" /\ m2' = "exit" /\ m12' = "no" /\ m6' = <<>>
    BY <1>8, SgnAt DEF Sgn!Kill
  <2>2. UNCHANGED <<m3, m4, m13>> /\ "ABRT" \in m5'
    BY <1>8 DEF Sgn!Kill
  <2>3. Sgn!Clean' <=> Sgn!Clean
    BY <2>2 DEF Sgn!Clean
  <2> QED BY <1>0, <2>1, <2>2, <2>3 DEF Sgn!AbortOK
<1>9. CASE Sgn!HandlerEnd
  <2>1. /\ m12 = "no" /\ m6 # <<>> /\ m6' = SubSeq(m6, 1, Len(m6) - 1)
        /\ m13 \subseteq m13' /\ UNCHANGED <<m3, m5, m12, m2>>
        /\ m4' = m6[Len(m6)].mask
    BY <1>9, <1>b, SgnHandlerEnd
  <2>2. Sgn!Base' = Sgn!Base /\ (Len(m6) = 1 => m6' = <<>>)
    BY <1>0, <2>1, SgnPop
  <2>3. m2 \in {"query", "flush", "fill", "caught"}
    BY <1>0, <1>b, <2>1 DEF Sgn!AbortOK
  <2>4. CASE m2 \in {"query", "flush"}
    BY <1>0, <2>1, <2>2, <2>4 DEF Sgn!AbortOK
  <2>5. CASE m2 = "fill"
    <3>1. "late" \in m13'
      BY <1>0, <2>1, <2>5 DEF Sgn!AbortOK
    <3>2. Sgn!Clean'
      BY <3>1 DEF Sgn!Clean
    <3> QED BY <1>0, <2>1, <2>5, <3>1, <3>2 DEF Sgn!AbortOK
  <2>6. CASE m2 = "caught"
    <3>1. Len(m6) = 1 /\ m6[1].mask = Sgn!Sig \ {"ABRT"} /\ m3["ABRT"] # "DFL"
      BY <1>0, <2>1, <2>6 DEF Sgn!AbortOK
    <3>2. m6' = <<>> /\ m4' = Sgn!Sig \ {"ABRT"}
      BY <2>1, <2>2, <3>1
    <3> QED BY <1>0, <2>1, <2>6, <3>1, <3>2 DEF Sgn!AbortOK
  <2> QED BY <2>3, <2>4, <2>5, <2>6
<1>10. ASSUME NEW s \in {"INT", "QUIT"}, Sgn!Type(s) PROVE Sgn!AbortOK'
  <2>1. /\ UNCHANGED <<m3, m4, m6, m2, m12>> /\ m12 = "no"
        /\ m13 \subseteq m13' /\ m13' \subseteq m13 \union {"late"}
        /\ m5 \subseteq m5' /\ m5' \subseteq m5 \union {s} /\ (Sgn!Late(s) => "late" \in m13')
    BY <1>10, <1>a, SgnSend DEF Sgn!Type
  <2>2. Sgn!Base' = Sgn!Base
    BY <2>1, SgnSameFrames
  <2>3. "ABRT" \in m5' <=> "ABRT" \in m5
    BY <2>1, <1>10, <1>a
  <2>4. m2 = "fill" => "late" \in m13'
    BY <2>1, <1>10 DEF Sgn!Late
  <2>5. Sgn!Clean => Sgn!Clean'
    BY <2>1 DEF Sgn!Clean
  <2> QED BY <1>0, <2>1, <2>2, <2>3, <2>4, <2>5 DEF Sgn!AbortOK
<1>11. ASSUME NEW s \in Sgn!Sig, Sgn!Deliver(s) PROVE Sgn!AbortOK'
  <2>1. /\ m12 = "no" /\ s \in m5 /\ s \notin m4 /\ m5' = m5 \ {s}
        /\ UNCHANGED <<m3, m2, m13>>
        /\ \/ m3[s] = "DFL" /\ UNCHANGED <<m4, m6>> /\ m12' = (IF s = "CHLD" THEN m12 ELSE s)
           \/ /\ m3[s] # "DFL" /\ m6' = Append(m6, [sig |-> s, mask |-> m4])
              /\ m4' = m4 \union {s} /\ m12' = m12
    BY <1>0, <1>11, SgnDeliver
  <2>2. Sgn!Base' = Sgn!Base /\ (Sgn!Clean' <=> Sgn!Clean)
    BY <1>0, <2>1, SgnSameFrames, SgnPush DEF Sgn!Clean
  <2>3. m2 \in {"query", "flush", "fill", "caught", "exit"}
    BY <1>0, <1>b, <2>1 DEF Sgn!AbortOK
  <2>4. CASE m2 \in {"query", "flush"}
    <3>1. s # "ABRT" /\ m12' # "ABRT"
      BY <1>0, <2>1, <2>4 DEF Sgn!AbortOK
    <3> QED BY <1>0, <2>1, <2>2, <2>4, <3>1 DEF Sgn!AbortOK
  <2>5. CASE m2 = "fill"
    <3>1. s # "ABRT" /\ m12' # "ABRT" /\ "late" \in m13
      BY <1>0, <2>1, <2>5 DEF Sgn!AbortOK
    <3> QED BY <1>0, <2>1, <2>2, <2>5, <3>1 DEF Sgn!AbortOK
  <2>6. CASE m2 = "caught"
    <3>1. m6 = <<>> /\ m4 = Sgn!Sig \ {"ABRT"} /\ s = "ABRT"
      BY <1>0, <2>1, <2>6 DEF Sgn!AbortOK
    <3>2. "ABRT" \notin m5'
      BY <2>1, <3>1
    <3>3. CASE m3[s] = "DFL"
      <4>1. UNCHANGED <<m4, m6>> /\ Sgn!Clean'
        BY <1>0, <2>1, <2>2, <2>6, <3>1, <3>3 DEF Sgn!AbortOK
      <4> QED BY <1>0, <2>1, <2>6, <3>1, <3>2, <3>3, <4>1 DEF Sgn!AbortOK
    <3>4. CASE m3[s] # "DFL"
      <4>1. m4' = Sgn!Sig /\ m12' = "no"
        BY <1>a, <2>1, <3>1, <3>4
      <4>2. Len(m6) = 0 /\ Len(m6') = Len(m6) + 1 /\ Sgn!Base = m4
        BY <1>0, <2>1, <3>1, <3>4, SgnPush DEF Sgn!Base
      <4>3. Len(m6') = 1 /\ m6' # <<>>
        BY <4>2
      <4>4. m6'[1].mask = Sgn!Sig \ {"ABRT"}
        BY <2>2, <3>1, <4>2, <4>3 DEF Sgn!Base
      <4> QED BY <2>1, <2>6, <3>1, <3>2, <3>4, <4>1, <4>3, <4>4 DEF Sgn!AbortOK
    <3> QED BY <3>3, <3>4
  <2>7. CASE m2 = "exit"
    <3>1. m6 = <<>> /\ m4 = Sgn!Sig \ {"ABRT"} /\ s = "ABRT" /\ m3[s] = "DFL" /\ Sgn!Clean
      BY <1>0, <2>1, <2>7 DEF Sgn!AbortOK
    <3>2. UNCHANGED <<m4, m6>> /\ m12' = "ABRT"
      BY <2>1, <3>1
    <3> QED BY <1>0, <2>1, <2>2, <2>7, <3>1, <3>2 DEF Sgn!AbortOK
  <2> QED BY <2>3, <2>4, <2>5, <2>6, <2>7
<1> QED BY <1>1, <1>2, <1>3, <1>4, <1>5, <1>6, <1>7, <1>8, <1>9, <1>10, <1>11, SgnAbortOnly

LEMMA SgnStep == Sgn!IInv /\ [Sgn!Next]_(Sgn!vars) => Sgn!IInv'
<1> SUFFICES ASSUME Sgn!IInv, [Sgn!Next]_(Sgn!vars) PROVE Sgn!IInv'
  OBVIOUS
<1>1. CASE Sgn!Next
  <2>1. m1' = m1
    <3>1. \A p, q : Sgn!At(p, q) => m1' = m1
      BY SgnAt
    <3>2. Sgn!system \/ Sgn!sleep \/ Sgn!suspend2 => m1' = m1
      BY <3>1 DEF Sgn!system, Sgn!Ignore, Sgn!fork, Sgn!waitpid, Sgn!Undo, Sgn!sleep, Sgn!Act, Sgn!alarm, Sgn!pause, Sgn!alarm0, Sgn!suspend2, Sgn!Catch, Sgn!Test, Sgn!Clear
    <3>3. Sgn!abort \/ Sgn!Block \/ Sgn!sigsuspend \/ Sgn!Unblock \/ Sgn!HandlerEnd => m1' = m1
      BY <3>1 DEF Sgn!abort, Sgn!Query, Sgn!Flush, Sgn!Fill, Sgn!Kill, Sgn!Caught, Sgn!Default, Sgn!Block, Sgn!sigsuspend, Sgn!Unblock, Sgn!HandlerEnd
    <3>4. Sgn!Kernel \/ (\E s \in {"INT", "QUIT"} : Sgn!Type(s)) => m1' = m1
      BY DEF Sgn!Kernel, Sgn!Fire, Sgn!Ends, Sgn!Exec, Sgn!Deliver, Sgn!Type
    <3> QED BY <1>1, <3>2, <3>3, <3>4 DEF Sgn!Next, Sgn!Main
  <2>2. Sgn!TypeOK' /\ Sgn!OnlyOwn'
    BY <1>1, SgnTypeStep, SgnOwnStep
  <2>3. m1 = "system" => Sgn!SystemOK'
    BY <1>1, SgnSystemStep
  <2>4. m1 = "system8" => Sgn!System8OK'
    BY <1>1, SgnSystem8Step
  <2>5. m1 = "sleep" => Sgn!SleepOK'
    BY <1>1, SgnSleepStep
  <2>6. m1 = "sleep2" => Sgn!Sleep2OK'
    BY <1>1, SgnSleep2Step
  <2>7. m1 = "abort" => Sgn!AbortOK'
    BY <1>1, SgnAbortStep
  <2>8. m1 = "suspend2" => Sgn!Suspend2OK'
    BY <1>1, SgnSuspend2Step
  <2> QED BY <2>1, <2>2, <2>3, <2>4, <2>5, <2>6, <2>7, <2>8 DEF Sgn!IInv
<1>2. CASE UNCHANGED Sgn!vars
  <2> USE <1>2 DEF Sgn!vars
  <2>1. Sgn!TypeOK' /\ Sgn!OnlyOwn'
    BY DEF Sgn!IInv, Sgn!TypeOK, Sgn!OnlyOwn
  <2>2. Sgn!Base' = Sgn!Base /\ (Sgn!Clean' <=> Sgn!Clean) /\ \A s : (Sgn!AllBlock(s)' <=> Sgn!AllBlock(s)) /\ (Sgn!Absent(s)' <=> Sgn!Absent(s))
    BY DEF Sgn!Base, Sgn!Clean, Sgn!AllBlock, Sgn!Absent
  <2>3. (Sgn!SystemOK => Sgn!SystemOK') /\ (Sgn!System8OK => Sgn!System8OK')
    BY <2>2 DEF Sgn!SystemOK, Sgn!System8OK
  <2>4. (Sgn!SleepOK => Sgn!SleepOK') /\ (Sgn!Sleep2OK => Sgn!Sleep2OK')
    BY <2>2 DEF Sgn!SleepOK, Sgn!Sleep2OK
  <2>5. (Sgn!AbortOK => Sgn!AbortOK') /\ (Sgn!Suspend2OK => Sgn!Suspend2OK')
    BY <2>2 DEF Sgn!AbortOK, Sgn!Suspend2OK
  <2> QED BY <2>1, <2>3, <2>4, <2>5 DEF Sgn!IInv
<1> QED BY <1>1, <1>2

LEMMA SgnProps == Sgn!IInv => Sgn!SystemRight /\ Sgn!SleepRight /\ Sgn!AbortRight
<1> SUFFICES ASSUME Sgn!IInv PROVE Sgn!SystemRight /\ Sgn!SleepRight /\ Sgn!AbortRight
  OBVIOUS
<1>0. Sgn!TypeOK /\ Sgn!OnlyOwn /\ "CHLD" \in Sgn!Sig /\ "INT" \in Sgn!Sig /\ "QUIT" \in Sgn!Sig
  BY DEF Sgn!IInv, Sgn!Sig
<1>1. Sgn!SystemRight
  <2>1. ASSUME m1 = "system", m10.st \in {"born", "runs", "dead", "stolen"}
        PROVE  m12 \notin {"INT", "QUIT"} /\ \A i \in 1..Len(m6) : m6[i].sig \notin {"INT", "QUIT"}
    <3>1. Sgn!Absent("INT") /\ Sgn!Absent("QUIT")
      BY <2>1 DEF Sgn!IInv, Sgn!SystemOK
    <3> QED BY <3>1 DEF Sgn!Absent
  <2>2. ASSUME m1 = "system", m2 = "ret", m6 = <<>>
        PROVE  m3 = m8.disp /\ m4 = m8.mask /\ (m11 = "-1" => m10.st = "none")
    <3>1. Sgn!SystemOK
      BY <2>2 DEF Sgn!IInv
    <3>2. \A s \in Sgn!Sig : m3[s] = m8.disp[s]
      BY <3>1, <2>2 DEF Sgn!SystemOK
    <3>3. m3 = m8.disp
      BY <1>0, <3>2 DEF Sgn!TypeOK
    <3>4. m4 = m8.mask /\ (m11 = "-1" => m10.st = "none")
      BY <2>2, <3>1 DEF Sgn!SystemOK, Sgn!Base
    <3> QED BY <3>3, <3>4
  <2>3. m10.st = "runs" => m10.ign = Sgn!Ignoring(m8.disp) /\ m10.mask = m8.mask
    BY <1>0 DEF Sgn!IInv, Sgn!OnlyOwn, Sgn!SystemOK, Sgn!System8OK
  <2> QED BY <2>1, <2>2, <2>3 DEF Sgn!SystemRight
<1>2. Sgn!SleepRight
  <2>1. m1 \in {"sleep", "sleep2"} /\ m2 = "ret" => m9 # "set"
    BY DEF Sgn!IInv, Sgn!SleepOK, Sgn!Sleep2OK
  <2>2. ASSUME m1 = "sleep", m2 = "ret", m6 = <<>> PROVE m3 = m8.disp /\ m4 = m8.mask
    <3>1. Sgn!SleepOK
      BY <2>2 DEF Sgn!IInv
    <3>2. \A s \in Sgn!Sig : m3[s] = m8.disp[s]
      BY <3>1, <2>2 DEF Sgn!SleepOK
    <3>3. m3 = m8.disp
      BY <1>0, <3>2 DEF Sgn!TypeOK
    <3>4. m4 = m8.mask
      BY <2>2, <3>1 DEF Sgn!SleepOK, Sgn!Base
    <3> QED BY <3>3, <3>4
  <2>3. m12 = "ALRM" => m2 = "act" \/ "late" \in m13
    BY <1>0 DEF Sgn!IInv, Sgn!OnlyOwn, Sgn!SleepOK, Sgn!Sleep2OK
  <2>4. "cut" \in m13 => m1 = "sleep2"
    BY <1>0 DEF Sgn!OnlyOwn
  <2> QED BY <2>1, <2>2, <2>3, <2>4 DEF Sgn!SleepRight
<1>3. Sgn!AbortRight
  <2>1. ASSUME m2 = "exit" PROVE m12 = "ABRT" \/ "ABRT" \in m5 \ m4
    <3>1. m1 = "abort"
      BY <2>1, SgnPc
    <3> QED BY <2>1, <3>1 DEF Sgn!IInv, Sgn!AbortOK
  <2>2. m12 = "ABRT" => "dirty" \notin m13 \/ "late" \in m13
    BY <1>0 DEF Sgn!IInv, Sgn!OnlyOwn, Sgn!AbortOK, Sgn!Clean
  <2> QED BY <2>1, <2>2 DEF Sgn!AbortRight
<1> QED BY <1>1, <1>2, <1>3

-----------------------------------------------------------------------------
(* Tim is Timeout: a call made at a time to come.                          *)
(*                                                                         *)
(* m1 clock, m2 mpc, m3 when, m4 tip, m5 hpc, m6 until, m7 owner,          *)
(* m8 depth, m9 calls, m10 now.                                            *)

\* A time is split into seconds and nanoseconds, and put together again.
LEMMA TimSplit == ASSUME NEW t \in Nat PROVE Tim!IsTimespec(Tim!Timespec(t)) /\ Tim!Time(Tim!Timespec(t)) = t
<1> DEFINE q == t \div SECTONSEC
           r == t % SECTONSEC
<1>1. SECTONSEC \in Nat /\ SECTONSEC > 0 /\ t \in Int
  BY TimAssumption
<1>2. q \in Nat
  BY <1>1
<1>3. r \in 0..(SECTONSEC - 1)
  BY <1>1
<1>4. r \in Int
  BY <1>1
<1>5. q \in Int /\ q = t \div SECTONSEC /\ r = t % SECTONSEC
  BY <1>2
<1>6. Tim!Timespec(t) = [tv_sec |-> q, tv_nsec |-> r]
  BY DEF Tim!Timespec
<1> HIDE DEF q, r
<1>7. q * SECTONSEC + r = t
  BY <1>1, <1>4, <1>5
<1>8. Tim!Time(Tim!Timespec(t)) = q * SECTONSEC + r
  BY <1>6 DEF Tim!Time
<1>9. Tim!IsTimespec(Tim!Timespec(t))
  BY <1>2, <1>3, <1>6 DEF Tim!IsTimespec
<1> QED BY <1>7, <1>8, <1>9

LEMMA TimNat == ASSUME NEW w, Tim!IsTimespec(w) PROVE Tim!Time(w) \in Nat
<1> DEFINE s == w.tv_sec
           n == w.tv_nsec
<1>1. s \in Nat /\ n \in Nat /\ SECTONSEC \in Nat
  BY TimAssumption DEF Tim!IsTimespec
<1> HIDE DEF s, n
<1>2. s * SECTONSEC + n \in Nat
  BY <1>1
<1> QED BY <1>2 DEF Tim!Time, s, n

\* The time left, with a second borrowed if need be.
LEMMA TimWait ==
  ASSUME NEW w, NEW n, Tim!IsTimespec(w), Tim!IsTimespec(n), Tim!Later(w, n)
  PROVE  Tim!IsTimespec(Tim!to_wait(w, n)) /\ Tim!Time(Tim!to_wait(w, n)) = Tim!Time(w) - Tim!Time(n)
<1> DEFINE a == w.tv_sec
           b == n.tv_sec
           c == w.tv_nsec
           d == n.tv_nsec
<1>1. /\ a \in Nat /\ b \in Nat /\ c \in 0..(SECTONSEC - 1) /\ d \in 0..(SECTONSEC - 1)
      /\ SECTONSEC \in Nat /\ SECTONSEC > 0
      /\ (a > b \/ (a = b /\ c > d))
      /\ Tim!Time(w) = a * SECTONSEC + c /\ Tim!Time(n) = b * SECTONSEC + d
  BY TimAssumption DEF Tim!IsTimespec, Tim!Later, Tim!Time
<1>2. Tim!to_wait(w, n) = IF c >= d THEN [tv_sec |-> a - b, tv_nsec |-> c - d]
                      ELSE [tv_sec |-> a - b - 1, tv_nsec |-> SECTONSEC - d + c]
  BY DEF Tim!to_wait
<1> HIDE DEF a, b, c, d
<1>3. CASE c >= d
  <2>1. a - b \in Nat /\ c - d \in 0..(SECTONSEC - 1)
    BY <1>1, <1>3
  <2>2. (a - b) * SECTONSEC + (c - d) = (a * SECTONSEC + c) - (b * SECTONSEC + d)
    BY <1>1
  <2> QED BY <1>1, <1>2, <1>3, <2>1, <2>2 DEF Tim!IsTimespec, Tim!Time
<1>4. CASE ~ (c >= d)
  <2>1. a - b - 1 \in Nat /\ SECTONSEC - d + c \in 0..(SECTONSEC - 1)
    BY <1>1, <1>4
  <2>2. (a - b - 1) * SECTONSEC + (SECTONSEC - d + c) = (a * SECTONSEC + c) - (b * SECTONSEC + d)
    BY <1>1
  <2> QED BY <1>1, <1>2, <1>4, <2>1, <2>2 DEF Tim!IsTimespec, Tim!Time
<1> QED BY <1>3, <1>4

LEMMA TimInit == Tim!Init => Tim!IInv
<1> SUFFICES ASSUME Tim!Init PROVE Tim!IInv
  OBVIOUS
<1>1. m1 \in Nat
  BY TimAssumption DEF Tim!Init
<1>2. Tim!IsTimespec(m3) /\ Tim!IsTimespec(m4)
  BY TimSplit DEF Tim!Init
<1> QED BY <1>1, <1>2 DEF Tim!Init, Tim!IInv, Tim!CallsOK, Tim!SleepOK

LEMMA TimStep == ASSUME Tim!IInv, [Tim!Next]_(Tim!vars) PROVE Tim!IInv'
<1>0. /\ m1 \in Nat /\ m10 \in Nat /\ m10 <= m1 /\ Tim!IsTimespec(m3) /\ Tim!IsTimespec(m4)
      /\ m5 \in {"none", "start", "sleep", "retry", "retried", "done"}
      /\ Tim!CallsOK /\ Tim!SleepOK /\ Tim!Time(m3) \in Nat /\ Tim!Time(m4) \in Nat
  BY TimNat DEF Tim!IInv
<1>1. CASE Tim!timeout
  <2>0. m2 = "timeout" /\ m10' = m1 /\ UNCHANGED <<m1, m3, m6, m9>>
    BY <1>1 DEF Tim!timeout
  <2>1. m5 = "none" /\ m9 = {}
    BY <1>0, <2>0 DEF Tim!CallsOK
  <2>2. CASE Tim!Later(m3, Tim!Timespec(m1)) /\ m4' = Tim!to_wait(m3, Tim!Timespec(m1))
             /\ m5' = "start" /\ m2' = "unlock"
    <3>1. Tim!IsTimespec(m4') /\ Tim!Time(m4') = Tim!Time(m3) - m1
      BY <1>0, <2>2, TimSplit, TimWait
    <3>2. Tim!CallsOK' /\ Tim!SleepOK'
      BY <2>0, <2>1, <2>2, <3>1 DEF Tim!CallsOK, Tim!SleepOK
    <3> QED BY <1>0, <2>0, <2>2, <3>1, <3>2 DEF Tim!IInv
  <2>3. CASE m2' = "retry" /\ UNCHANGED <<m4, m5>>
    BY <1>0, <2>0, <2>1, <2>3 DEF Tim!IInv, Tim!CallsOK, Tim!SleepOK
  <2> QED BY <1>1, <2>2, <2>3 DEF Tim!timeout
<1>2. CASE m2 = "retry" /\ Tim!retryLock("main") /\ m2' = "retried" /\ UNCHANGED <<m1, m3, m4, m5, m6, m10>>
  <2>1. m5 = "none" /\ m9 = {} /\ m9' = m9 \cup {<<"main", m1>>}
    BY <1>0, <1>2 DEF Tim!CallsOK, Tim!retryLock
  <2>2. m9' = {<<"main", m1>>}
    BY <2>1
  <2>3. Tim!CallsOK'
    BY <1>0, <1>2, <2>1, <2>2 DEF Tim!CallsOK
  <2> QED BY <1>0, <1>2, <2>3 DEF Tim!IInv, Tim!SleepOK
<1>3. CASE m2 = "when" /\ m2' = "timeout" /\ m3' = Tim!Timespec(m1 + Delay * SECTONSEC)
           /\ UNCHANGED <<m1, m4, m5, m6, m7, m8, m9, m10>>
  <2>1. Delay * SECTONSEC \in Nat
    BY TimAssumption
  <2>2. m1 + Delay * SECTONSEC \in Nat
    BY <1>0, <2>1
  <2>3. Tim!IsTimespec(m3')
    BY <1>3, <2>2, TimSplit
  <2>4. m5 = "none" /\ m9 = {}
    BY <1>0, <1>3 DEF Tim!CallsOK
  <2> QED BY <1>0, <1>3, <2>3, <2>4 DEF Tim!IInv, Tim!CallsOK, Tim!SleepOK
<1>4. CASE /\ UNCHANGED <<m1, m3, m4, m5, m6, m9, m10>>
           /\ \/ m2 = "lock" /\ m2' = "when"
              \/ m2 = "retried" /\ m2' = "unlock"
              \/ m2 = "unlock" /\ m2' = "sleep"
              \/ m2 = "sleep" /\ m2' = "exit"
  <2>1. Tim!CallsOK'
    BY <1>0, <1>4 DEF Tim!CallsOK
  <2> QED BY <1>0, <1>4, <2>1 DEF Tim!IInv, Tim!SleepOK
<1>5. CASE Tim!Main
  <2>1. CASE m2 = "lock" /\ Tim!Lock("main") /\ m2' = "when" /\ UNCHANGED <<m1, m3, m4, m5, m6, m9, m10>>
    BY <1>4, <2>1
  <2>2. CASE /\ m2 \in {"retried", "unlock"} /\ m2' = (IF m2 = "retried" THEN "unlock" ELSE "sleep")
             /\ UNCHANGED <<m1, m3, m4, m5, m6, m9, m10>>
    BY <1>4, <2>2
  <2>3. CASE m2 = "sleep" /\ m2' = "exit" /\ UNCHANGED <<m1, m3, m4, m5, m6, m7, m8, m9, m10>>
    BY <1>4, <2>3
  <2> QED BY <1>5, <1>1, <1>2, <1>3, <2>1, <2>2, <2>3 DEF Tim!Main
<1>6. CASE Tim!timeout_helper
  <2>0. m2 # "exit" /\ UNCHANGED <<m1, m2, m3, m4, m10>>
    BY <1>6 DEF Tim!timeout_helper
  <2>1. CASE m5 = "start" /\ m5' = "sleep" /\ m6' = m1 + Tim!Time(m4) /\ UNCHANGED m9
    <3>1. m6' \in Int /\ m6' >= Tim!Time(m3)
      <4> DEFINE w == Tim!Time(m3)
                 d == Tim!Time(m4)
      <4>1. d = w - m10 /\ w \in Nat /\ d \in Nat /\ m6' = m1 + d
        BY <1>0, <2>1 DEF Tim!SleepOK
      <4> HIDE DEF w, d
      <4>2. m6' \in Int /\ m6' >= w
        BY <1>0, <4>1
      <4> QED BY <4>2 DEF w
    <3> QED BY <1>0, <2>0, <2>1, <3>1 DEF Tim!IInv, Tim!CallsOK, Tim!SleepOK
  <2>2. CASE m5 = "sleep" /\ m1 >= m6 /\ m5' = "retry" /\ UNCHANGED <<m6, m9>>
    <3>1. m1 >= Tim!Time(m3)
      <4> DEFINE w == Tim!Time(m3)
      <4>1. w \in Nat /\ m6 \in Int /\ m6 >= w
        BY <1>0, <2>2 DEF Tim!SleepOK
      <4> HIDE DEF w
      <4>2. m1 >= w
        BY <1>0, <2>2, <4>1
      <4> QED BY <4>2 DEF w
    <3> QED BY <1>0, <2>0, <2>2, <3>1 DEF Tim!IInv, Tim!CallsOK, Tim!SleepOK
  <2>3. CASE m5 = "retry" /\ Tim!retryLock("helper") /\ m5' = "retried" /\ UNCHANGED m6
    <3>1. m9 = {} /\ m9' = m9 \cup {<<"helper", m1>>} /\ m1 >= Tim!Time(m3)
      BY <1>0, <2>3 DEF Tim!CallsOK, Tim!SleepOK, Tim!retryLock
    <3>2. m9' = {<<"helper", m1>>}
      BY <3>1
    <3>3. Tim!CallsOK'
      BY <1>0, <2>0, <2>3, <3>1, <3>2 DEF Tim!CallsOK
    <3> QED BY <1>0, <2>0, <2>3, <3>3 DEF Tim!IInv, Tim!SleepOK
  <2>4. CASE m5 = "retried" /\ m5' = "done" /\ UNCHANGED <<m6, m9>>
    BY <1>0, <2>0, <2>4 DEF Tim!IInv, Tim!CallsOK, Tim!SleepOK
  <2> QED BY <1>6, <2>1, <2>2, <2>3, <2>4 DEF Tim!timeout_helper
<1>7. CASE Tim!Tick
  <2>1. /\ m1' = m1 + 1 /\ UNCHANGED <<m2, m3, m4, m5, m6, m9, m10>>
    BY <1>7 DEF Tim!Tick
  <2>2. m1' \in Nat /\ m10 <= m1' /\ m1' >= m1
    BY <1>0, <2>1
  <2>3. m5 = "retry" => m1' >= Tim!Time(m3)
    <3> DEFINE w == Tim!Time(m3)
    <3>1. w \in Nat /\ (m5 = "retry" => m1 >= w)
      BY <1>0 DEF Tim!SleepOK
    <3> HIDE DEF w
    <3>2. m5 = "retry" => m1' >= w
      BY <1>0, <2>2, <3>1
    <3> QED BY <3>2 DEF w
  <2> QED BY <1>0, <2>1, <2>2, <2>3 DEF Tim!IInv, Tim!CallsOK, Tim!SleepOK
<1>8. CASE UNCHANGED Tim!vars
  BY <1>0, <1>8 DEF Tim!vars, Tim!IInv, Tim!CallsOK, Tim!SleepOK
<1> QED BY <1>5, <1>6, <1>7, <1>8 DEF Tim!Next, Tim!Stop

LEMMA TimProps == Tim!IInv => Tim!RetryInTime
<1> SUFFICES ASSUME Tim!IInv PROVE Tim!RetryInTime
  OBVIOUS
<1>1. m9 = {} \/ (\E t \in Nat : m9 = {<<"main", t>>})
      \/ (\E t \in Nat : t >= Tim!Time(m3) /\ m9 = {<<"helper", t>>})
  BY DEF Tim!IInv, Tim!CallsOK
<1>2. \A a, b \in m9 : a = b
  BY <1>1
<1>3. \A a \in m9 : a[1] = "helper" => a[2] >= Tim!Time(m3)
  BY <1>1
<1>4. m5 # "none" => m4.tv_nsec \in 0..(SECTONSEC - 1) /\ Tim!Time(m4) = Tim!Time(m3) - m10
  BY DEF Tim!IInv, Tim!IsTimespec, Tim!SleepOK
<1> QED BY <1>2, <1>3, <1>4 DEF Tim!RetryInTime

-----------------------------------------------------------------------------
(* Mem is MemStream: a stream over a buffer.                               *)
(*                                                                         *)
(* m1 open, m2 flags, m3 buf, m4 rsize, m5 vsize, m6 curpos, m7 file.      *)

LEMMA MemPut ==
  ASSUME NEW b \in Seq(Byte), NEW d \in Seq(Byte), NEW off \in Nat, off <= Len(b)
  PROVE  /\ Mem!Put(b, off, d) \in Seq(Byte) /\ Len(Mem!Put(b, off, d)) = Mem!Greater(Len(b), off + Len(d))
         /\ \A i \in 1..Mem!Greater(Len(b), off + Len(d)) :
              Mem!Put(b, off, d)[i] = IF i \in off + 1 .. off + Len(d) THEN d[i - off] ELSE b[i]
<1> DEFINE m == Len(b)
           n == Len(d)
           t == Mem!Put(b, off, d)
<1>1. m \in Nat /\ n \in Nat /\ off <= m
  OBVIOUS
<1>2. t = [i \in 1..Mem!Greater(m, off + n) |-> IF i \in off + 1 .. off + n THEN d[i - off] ELSE b[i]]
  BY DEF Mem!Put
<1>3. /\ \A i \in 1..m : b[i] \in Byte
      /\ \A i \in 1..n : d[i] \in Byte
  OBVIOUS
<1> HIDE DEF m, n, t
<1>4. Mem!Greater(m, off + n) \in Nat
  BY <1>1 DEF Mem!Greater
<1>5. ASSUME NEW i \in 1..Mem!Greater(m, off + n) PROVE t[i] \in Byte
  <2>1. CASE i \in off + 1 .. off + n
    <3>1. i - off \in 1..n
      BY <1>1, <2>1
    <3> QED BY <1>2, <1>3, <2>1, <3>1
  <2>2. CASE i \notin off + 1 .. off + n
    <3>1. i \in 1..m
      BY <1>1, <2>2 DEF Mem!Greater
    <3> QED BY <1>2, <1>3, <2>2, <3>1
  <2> QED BY <2>1, <2>2
<1>6. t \in [1..Mem!Greater(m, off + n) -> Byte]
  BY <1>2, <1>5
<1>7. t \in Seq(Byte) /\ Len(t) = Mem!Greater(m, off + n)
  BY <1>4, <1>6
<1> QED BY <1>2, <1>7 DEF m, n, t

LEMMA MemNul ==
  ASSUME NEW b \in Seq(Byte), NEW k \in Nat, k < Len(b)
  PROVE  /\ Mem!Nul(b, k) \in Seq(Byte) /\ Len(Mem!Nul(b, k)) = Len(b)
         /\ \A i \in 1..Len(b) : i # k + 1 => Mem!Nul(b, k)[i] = b[i]
<1> DEFINE m == Len(b)
           d == <<0>>
<1>1. d \in Seq(Byte) /\ Len(d) = 1 /\ m \in Nat /\ k < m
  BY MemAssumption
<1>2. Mem!Nul(b, k) = Mem!Put(b, k, d)
  BY DEF Mem!Nul
<1> HIDE DEF d
<1>3. /\ Mem!Put(b, k, d) \in Seq(Byte) /\ Len(Mem!Put(b, k, d)) = Mem!Greater(m, k + 1)
      /\ \A i \in 1..Mem!Greater(m, k + 1) :
              Mem!Put(b, k, d)[i] = IF i \in k + 1 .. k + 1 THEN d[i - k] ELSE b[i]
  <2>1. k <= Len(b) /\ k \in Nat
    BY <1>1
  <2>2. /\ Mem!Put(b, k, d) \in Seq(Byte) /\ Len(Mem!Put(b, k, d)) = Mem!Greater(Len(b), k + Len(d))
        /\ \A i \in 1..Mem!Greater(Len(b), k + Len(d)) :
              Mem!Put(b, k, d)[i] = IF i \in k + 1 .. k + Len(d) THEN d[i - k] ELSE b[i]
    BY <1>1, <2>1, MemPut
  <2> QED BY <1>1, <2>2
<1> HIDE DEF m
<1>4. Mem!Greater(m, k + 1) = m
  BY <1>1 DEF Mem!Greater
<1>5. ASSUME NEW i \in 1..m, i # k + 1 PROVE i \notin k + 1 .. k + 1
  BY <1>1, <1>5
<1> QED BY <1>2, <1>3, <1>4, <1>5 DEF m

LEMMA MemInit == Mem!Init => Mem!IInv
<1> SUFFICES ASSUME Mem!Init PROVE Mem!IInv
  OBVIOUS
<1>1. m4 \in Nat \ {0} /\ m1 = "before"
  BY MemAssumption DEF Mem!Init
<1>2. PICK x \in Byte : m3 = [i \in 1..m4 |-> x]
  BY DEF Mem!Init
<1>3. m3 \in Seq(Byte) /\ Len(m3) = m4
  BY <1>1, <1>2
<1> QED BY <1>1, <1>3 DEF Mem!IInv

LEMMA MemFirst ==
  ASSUME NEW b \in Seq(Byte), NEW v \in 0..Len(b) PROVE SubSeq(b, 1, v) = [i \in 1..v |-> b[i]]
<1> DEFINE t == SubSeq(b, 1, v)
<1>1. t \in Seq(Byte) /\ Len(t) = v /\ \A i \in 1..v : t[i] = b[i]
  OBVIOUS
<1>2. v \in Nat
  OBVIOUS
<1> HIDE DEF t
<1>3. t = [i \in 1..v |-> t[i]]
  BY <1>1, <1>2
<1>4. t = [i \in 1..v |-> b[i]]
  BY <1>1, <1>3
<1> QED BY <1>4 DEF t

LEMMA MemOpen == ASSUME Mem!IInv, Mem!fmemopen PROVE Mem!IInv'
<1>0. m1 = "before" /\ m4' = m4 /\ m4 \in Nat \ {0} /\ m3 \in Seq(Byte) /\ Len(m3) = m4
  BY DEF Mem!IInv, Mem!fmemopen
<1>1. CASE m1' = "refused" /\ UNCHANGED m3
  BY <1>0, <1>1 DEF Mem!IInv
<1>2. ASSUME NEW type \in Mem!Type, NEW mine \in BOOLEAN,
             m3' \in IF mine THEN [1..m4 -> Byte] ELSE {m3},
             m2' = Mem!type_to_flags(type) \cup (IF mine THEN {"MYBUF"} ELSE {}),
             m6' \in IF "APPEND" \in m2' /\ ~ mine THEN Mem!find_end(m3) ELSE {0},
             m5' = CASE "APPEND" \in m2' -> m6' [] "TRUNCATE" \in m2' -> 0
                        [] OTHER -> m4,
             m1' = "open", m7' = SubSeq(m3', 1, m5')
      PROVE  Mem!IInv'
  <2>1. m3' \in Seq(Byte) /\ Len(m3') = m4
    <3>1. CASE mine
      BY <1>0, <1>2, <3>1
    <3>2. CASE ~ mine
      BY <1>0, <1>2, <3>2
    <3> QED BY <3>1, <3>2
  <2>2. m6' \in 0..m4
    BY <1>0, <1>2 DEF Mem!find_end
  <2>3. m5' \in 0..m4 /\ m6' \in 0..m5'
    <3>0. "APPEND" \in m2' => "TRUNCATE" \notin m2'
      BY <1>2 DEF Mem!type_to_flags, Mem!Type
    <3>1. CASE "APPEND" \in m2'
      <4>1. m5' = m6'
        BY <1>2, <3>0, <3>1
      <4> QED BY <1>0, <2>2, <4>1
    <3>2. CASE "APPEND" \notin m2'
      BY <1>0, <1>2, <3>2
    <3> QED BY <3>1, <3>2
  <2>4. "READ" \in m2' /\ m2' \cap {"APPEND", "WRITE"} # {} => "WRITE" \in m2'
    BY <1>2 DEF Mem!type_to_flags, Mem!Type
  <2>5. m7' = [i \in 1..m5' |-> m3'[i]]
    BY <1>2, <2>1, <2>3, MemFirst
  <2> QED BY <1>0, <2>1, <2>3, <2>4, <2>5 DEF Mem!IInv, Mem!OpenOK
<1> QED BY <1>1, <1>2 DEF Mem!fmemopen

LEMMA MemWrite == ASSUME Mem!IInv, Mem!mstream_write PROVE Mem!IInv'
<1>0. /\ m1 = "open" /\ UNCHANGED <<m1, m2, m4>> /\ m2 \cap {"APPEND", "WRITE"} # {}
      /\ m4 \in Nat \ {0} /\ m3 \in Seq(Byte) /\ Len(m3) = m4
      /\ m5 \in 0..m4 /\ m6 \in 0..m5
      /\ "READ" \in m2 => Mem!Readable
      /\ "READ" \in m2 => m7 = [i \in 1..m5 |-> m3[i]]
  BY DEF Mem!IInv, Mem!OpenOK, Mem!mstream_write, Mem!Readable
<1>1. Mem!Where \in 0..m5
  BY <1>0 DEF Mem!Where
<1>2. PICK s \in Mem!Strings(MaxLen) :
        /\ m3' = Mem!Written(SubSeq(s, 1, Mem!Lesser(Len(s), m4 - Mem!Where)))
        /\ m6' = Mem!Where + Len(SubSeq(s, 1, Mem!Lesser(Len(s), m4 - Mem!Where)))
        /\ m5' = Mem!Greater(m5, m6')
        /\ m7' = Mem!Put(m7, Mem!Where, SubSeq(s, 1, Mem!Lesser(Len(s), m4 - Mem!Where)))
  BY DEF Mem!mstream_write
<1> DEFINE w == Mem!Where
           l == Len(s)
           d == SubSeq(s, 1, Mem!Lesser(l, m4 - w))
           n == Len(d)
           pos == w + n
           b1 == Mem!Put(m3, w, d)
           b2 == IF Mem!Readable /\ pos > m5 /\ pos < m4 THEN Mem!Nul(b1, pos) ELSE b1
<1>3. s \in Seq(Byte) /\ l \in Nat
  BY MemAssumption DEF Mem!Strings
<1>4. m3' = (IF "READ" \in m2 THEN b2 ELSE Mem!Nul(b2, IF pos < m4 THEN pos ELSE m4 - 1))
  BY <1>2 DEF Mem!Written
<1>5. m6' = pos /\ m5' = Mem!Greater(m5, pos) /\ m7' = Mem!Put(m7, w, d)
  BY <1>2
<1>6. d \in Seq(Byte) /\ n \in Nat /\ n <= m4 - w
  <2>1. w \in Nat /\ w <= m4
    BY <1>0, <1>1
  <2> HIDE DEF w, l
  <2>2. Mem!Lesser(l, m4 - w) \in 0..l /\ Mem!Lesser(l, m4 - w) <= m4 - w
    BY <1>0, <1>3, <2>1 DEF Mem!Lesser
  <2> DEFINE k == Mem!Lesser(l, m4 - w)
  <2>3. k \in 0..Len(s) /\ k <= m4 - w
    BY <2>2 DEF l
  <2> HIDE DEF k
  <2>4. SubSeq(s, 1, k) \in Seq(Byte) /\ Len(SubSeq(s, 1, k)) = k
    BY <1>3, <2>3
  <2> QED BY <2>3, <2>4 DEF k
<1> HIDE DEF w, d, n
<1>7. w \in Nat /\ w <= m5 /\ m5 <= m4 /\ pos \in Nat /\ pos <= m4 /\ m5 \in Nat
  BY <1>0, <1>1, <1>6 DEF w
<1>8. /\ b1 \in Seq(Byte) /\ Len(b1) = m4
      /\ \A i \in 1..m4 : b1[i] = IF i \in w + 1 .. w + n THEN d[i - w] ELSE m3[i]
  <2>1. Mem!Greater(m4, w + n) = m4
    BY <1>0, <1>7 DEF Mem!Greater
  <2>2. w \in Nat /\ w <= Len(m3)
    BY <1>0, <1>7
  <2>3. /\ b1 \in Seq(Byte) /\ Len(b1) = Mem!Greater(Len(m3), w + Len(d))
        /\ \A i \in 1..Mem!Greater(Len(m3), w + Len(d)) :
              b1[i] = IF i \in w + 1 .. w + Len(d) THEN d[i - w] ELSE m3[i]
    BY <1>0, <1>6, <2>2, MemPut
  <2>4. Len(m3) = m4 /\ Len(d) = n
    BY <1>0 DEF n
  <2> HIDE DEF b1
  <2> QED BY <2>1, <2>3, <2>4
<1> HIDE DEF b1, pos
<1>9. b2 \in Seq(Byte) /\ Len(b2) = m4
  BY <1>7, <1>8, MemNul
<1> HIDE DEF b2
<1>10. m3' \in Seq(Byte) /\ Len(m3') = m4
  <2>1. CASE "READ" \in m2
    BY <1>4, <1>9, <2>1
  <2>2. CASE "READ" \notin m2
    <3> DEFINE k == IF pos < m4 THEN pos ELSE m4 - 1
    <3>1. k \in Nat /\ k < m4
      BY <1>0, <1>7
    <3> HIDE DEF k
    <3>2. m3' = Mem!Nul(b2, k)
      BY <1>4, <2>2 DEF k
    <3> QED BY <1>9, <3>1, <3>2, MemNul
  <2> QED BY <2>1, <2>2
<1>11. m5' \in 0..m4 /\ m6' \in 0..m5'
  BY <1>0, <1>5, <1>7 DEF Mem!Greater
<1>12. ASSUME "READ" \in m2 PROVE m7' = [i \in 1..m5' |-> m3'[i]]
  <2>1. m3' = b2 /\ Mem!Readable /\ m7 = [i \in 1..m5 |-> m3[i]]
    BY <1>0, <1>4, <1>12
  <2>2. \A i \in 1..m5' : b2[i] = b1[i]
    <3>1. CASE Mem!Readable /\ pos > m5 /\ pos < m4
      <4>1. b2 = Mem!Nul(b1, pos) /\ m5' = pos
        BY <1>5, <1>7, <3>1 DEF b2, Mem!Greater
      <4>2. \A i \in 1..m4 : i # pos + 1 => b2[i] = b1[i]
        BY <1>7, <1>8, <3>1, <4>1, MemNul
      <4>3. \A i \in 1..pos : i \in 1..m4 /\ i # pos + 1
        BY <1>0, <1>7
      <4> QED BY <4>1, <4>2, <4>3
    <3>2. CASE ~ (Mem!Readable /\ pos > m5 /\ pos < m4)
      BY <3>2 DEF b2
    <3> QED BY <3>1, <3>2
  <2>3. Len(m7) = m5
    BY <1>7, <2>1
  <2>4. m7' = [i \in 1..m5' |-> IF i \in w + 1 .. w + n THEN d[i - w] ELSE m7[i]]
    BY <1>5, <2>3 DEF Mem!Put, pos, n
  <2>5. ASSUME NEW i \in 1..m5' PROVE m7'[i] = m3'[i]
    <3>1. i \in 1..m4 /\ m3'[i] = b1[i]
      BY <1>0, <1>11, <2>1, <2>2
    <3>2. CASE i \in w + 1 .. w + n
      BY <1>8, <2>4, <3>1, <3>2
    <3>3. CASE i \notin w + 1 .. w + n
      <4>1. i \in 1..m5
        BY <1>5, <1>6, <1>7, <3>3 DEF pos, Mem!Greater
      <4> QED BY <1>8, <2>1, <2>4, <3>1, <3>3, <4>1
    <3> QED BY <3>2, <3>3
  <2> QED BY <2>4, <2>5
<1> QED BY <1>0, <1>10, <1>11, <1>12 DEF Mem!IInv, Mem!OpenOK, Mem!Readable

LEMMA MemStep == ASSUME Mem!IInv, [Mem!Next]_(Mem!vars) PROVE Mem!IInv'
<1>1. CASE Mem!mstream_read
  <2>1. PICK len \in 1..MaxLen : m6' = m6 + Mem!Lesser(len, m5 - m6)
    BY <1>1 DEF Mem!mstream_read
  <2>2. m1 = "open" /\ UNCHANGED <<m1, m2, m3, m4, m5, m7>> /\ m4 \in Nat
        /\ m5 \in 0..m4 /\ m6 \in 0..m5
    BY <1>1 DEF Mem!mstream_read, Mem!IInv, Mem!OpenOK
  <2>3. m6' \in 0..m5
    BY <2>1, <2>2, MemAssumption DEF Mem!Lesser
  <2> QED BY <2>2, <2>3 DEF Mem!IInv, Mem!OpenOK
<1>2. CASE Mem!mstream_seek
  <2>1. m6' \in 0..m5 /\ m1 = "open" /\ UNCHANGED <<m1, m2, m3, m4, m5, m7>>
    BY <1>2 DEF Mem!mstream_seek
  <2> QED BY <2>1 DEF Mem!IInv, Mem!OpenOK
<1>3. CASE Mem!mstream_close
  BY <1>3 DEF Mem!mstream_close, Mem!IInv
<1>4. CASE UNCHANGED Mem!vars
  BY <1>4 DEF Mem!vars, Mem!IInv, Mem!OpenOK
<1> QED BY <1>1, <1>2, <1>3, <1>4, MemOpen, MemWrite DEF Mem!Next, Mem!Closed

LEMMA MemProps == Mem!IInv => Mem!HoldsFile
<1> SUFFICES ASSUME Mem!IInv, m1 = "open" PROVE
      /\ m6 <= m5 /\ m5 <= m4 /\ Len(m3) = m4
      /\ "READ" \in m2 => SubSeq(m3, 1, m5) = m7
  BY DEF Mem!HoldsFile
<1>1. m3 \in Seq(Byte) /\ Len(m3) = m4 /\ m5 \in 0..m4 /\ m6 \in 0..m5
  BY DEF Mem!IInv, Mem!OpenOK
<1>2. SubSeq(m3, 1, m5) = [i \in 1..m5 |-> m3[i]]
  BY <1>1, MemFirst
<1> QED BY <1>1, <1>2 DEF Mem!IInv, Mem!OpenOK

-----------------------------------------------------------------------------
(* Ftw is Ftw: the walk of a hierarchy.                                    *)
(*                                                                         *)
(* m1 parent, m2 isdir, m3 namelen, m4 pathlen, m5 len, m6 stack,          *)
(* m7 pc, m8 called, m9 counted, m10 full.                                 *)

LEMMA FtwInit == Ftw!Init => Ftw!IInv
<1> SUFFICES ASSUME Ftw!Init PROVE Ftw!IInv
  OBVIOUS
<1> DEFINE L == m3[1]
           F == Ftw!Frame(1)
<1>1. 1 \in Ftw!File /\ Ftw!File \subseteq Nat \ {0}
  BY FtwAssumption DEF Ftw!File
<1>2. m3 \in [Ftw!File -> Nat] /\ \A f \in Ftw!File \ {1} : m3[f] <= NAME_MAX
  BY FtwAssumption DEF Ftw!Init
<1>3. L \in Nat
  BY <1>1, <1>2
<1>4. m5 = L /\ m4 = Ftw!StartLen(L) /\ m7 = "call"
  BY DEF Ftw!Init
<1>5. m1 \in [Ftw!File -> Ftw!File] /\ \A f \in Ftw!File \ {1} : m1[f] < f
  BY DEF Ftw!Init
<1>6. m8 = [f \in Ftw!File |-> <<>>] /\ m10 = [f \in Ftw!File |-> IF f = 1 THEN L ELSE 0]
  BY DEF Ftw!Init
<1>7. m6 = <<F>>
  BY DEF Ftw!Init
<1>8. F \in Ftw!Frames /\ F.file = 1 /\ F.n = 0 /\ F.todo = {}
  BY <1>1 DEF Ftw!Frame, Ftw!Frames
<1> HIDE DEF L, F
<1>9. m6 \in Seq(Ftw!Frames) /\ Len(m6) = 1 /\ m6[1] = F /\ Ftw!Top = F
  BY <1>7, <1>8 DEF Ftw!Top
<1>10. m5 < m4 /\ NAME_MAX < m4 /\ m4 \in Nat
  BY <1>3, <1>4, FtwAssumption DEF Ftw!StartLen, Ftw!path_alloc
<1>11. m8 \in [Ftw!File -> Ftw!Reports] /\ m10 \in [Ftw!File -> Nat] /\ m10[1] = L
  <2>1. <<>> \in Ftw!Reports
    BY DEF Ftw!Reports
  <2> QED BY <1>1, <1>3, <1>6, <2>1
<1>12. Ftw!TypeOK
  BY <1>2, <1>3, <1>4, <1>5, <1>9, <1>10, <1>11 DEF Ftw!TypeOK
<1>13. 1..Len(m6) = {1}
  BY <1>9
<1>14. Ftw!StackOK
  BY <1>8, <1>9, <1>13 DEF Ftw!StackOK
<1>15. Ftw!VisitOK
  <2>1. \A f \in Ftw!File : m8[f] = <<>>
    BY <1>6
  <2>2. \A f \in Ftw!File : Ftw!Reached(f) => f = 1
    BY <1>5, <2>1 DEF Ftw!Reached
  <2>3. Ftw!Waiting(1)
    BY <1>4, <1>8, <1>9 DEF Ftw!Waiting
  <2>4. Ftw!Top.todo = {} /\ m8[Ftw!Top.file] = <<>>
    BY <1>1, <1>8, <1>9, <2>1
  <2>5. \A i \in 1..Len(m6) : ~ (i < Len(m6))
    BY <1>9
  <2> QED BY <1>4, <2>1, <2>2, <2>3, <2>4, <2>5 DEF Ftw!VisitOK
<1>16. Ftw!BufferOK
  <2>1. \A i \in 1..Len(m6) : ~ (i < Len(m6))
    BY <1>9
  <2>2. \A i \in 1..Len(m6) : m6[i].n = 0
    BY <1>8, <1>9, <1>13
  <2>3. 0 + NAME_MAX < m4
    BY <1>10, FtwAssumption
  <2>4. m5 = m10[Ftw!Top.file]
    BY <1>4, <1>8, <1>9, <1>11
  <2> QED BY <1>4, <1>10, <2>1, <2>2, <2>3, <2>4 DEF Ftw!BufferOK
<1> QED BY <1>12, <1>14, <1>15, <1>16 DEF Ftw!IInv

LEMMA FtwTop ==
  ASSUME Ftw!IInv, m7 # "done"
  PROVE  /\ Len(m6) \in Nat \ {0} /\ Len(m6) \in 1..Len(m6)
         /\ Ftw!Top = m6[Len(m6)] /\ Ftw!Top \in Ftw!Frames
         /\ Ftw!Top.file \in Ftw!File /\ Ftw!Top.n \in Nat /\ Ftw!Top.todo \subseteq Ftw!Below(Ftw!Top.file)
         /\ Ftw!File \subseteq Nat \ {0} /\ 1 \in Ftw!File
         /\ \A i \in 1..Len(m6) : m6[i] \in Ftw!Frames
<1>1. m6 \in Seq(Ftw!Frames) /\ Len(m6) # 0
  BY DEF Ftw!IInv, Ftw!TypeOK
<1>2. Len(m6) \in Nat /\ \A i \in 1..Len(m6) : m6[i] \in Ftw!Frames
  BY <1>1
<1>3. Len(m6) \in 1..Len(m6)
  BY <1>1, <1>2
<1>4. Ftw!Top \in Ftw!Frames
  BY <1>2, <1>3 DEF Ftw!Top
<1>5. Ftw!Top.todo \subseteq Ftw!Below(Ftw!Top.file)
  BY <1>3 DEF Ftw!IInv, Ftw!StackOK, Ftw!Top
<1> QED BY <1>1, <1>2, <1>3, <1>4, <1>5, FtwAssumption DEF Ftw!Top, Ftw!Frames, Ftw!File

\* The file on top was reached, is no name still to be read, and is none of the
\* files of the calls below.
LEMMA FtwFresh ==
  ASSUME Ftw!IInv, m7 # "done"
  PROVE  /\ Ftw!Reached(Ftw!Top.file) /\ (Ftw!Top.file # 1 => m1[Ftw!Top.file] < Ftw!Top.file)
         /\ \A i \in 1..Len(m6) : Ftw!Top.file \notin m6[i].todo
         /\ \A i \in 1..Len(m6) : i < Len(m6) => m6[i].file # Ftw!Top.file
         /\ \A f \in Ftw!Below(Ftw!Top.file) : f # Ftw!Top.file /\ f # 1 /\ f \in Ftw!File /\ m1[f] = Ftw!Top.file
<1> DEFINE k == Len(m6)
           t == Ftw!Top.file
<1>1. k \in Nat \ {0} /\ k \in 1..k /\ t = m6[k].file /\ t \in Ftw!File /\ Ftw!File \subseteq Nat \ {0}
  BY FtwTop
<1>2. /\ \A i \in 1..k : m6[i].todo \subseteq Ftw!Below(m6[i].file)
      /\ \A i \in 1..k : i = 1 => m6[i].file = 1
      /\ \A i \in 1..k : i > 1 => /\ m6[i].file # 1 /\ m1[m6[i].file] = m6[i - 1].file
                                  /\ m6[i].file \notin m6[i - 1].todo
      /\ \A i, j \in 1..k : i < j => m6[i].file < m6[j].file
  BY DEF Ftw!IInv, Ftw!StackOK
<1>3. \A f \in Ftw!File \ {1} : m1[f] < f /\ m1[f] \in Ftw!File
  BY DEF Ftw!IInv, Ftw!TypeOK
<1>4. \A i \in 1..k : i < k => m6[i].file \in Ftw!File /\ m8[m6[i].file] = <<"FTW_D">>
  BY FtwTop DEF Ftw!IInv, Ftw!VisitOK, Ftw!Frames
<1>5. \A f \in Ftw!Below(t) : f # 1 /\ f \in Ftw!File /\ m1[f] = t
  BY DEF Ftw!Below
<1> HIDE DEF k, t
<1>6. \A f \in Ftw!Below(t) : f # t
  BY <1>1, <1>3, <1>5
<1>7. \A i \in 1..k : i < k => m6[i].file # t
  BY <1>1, <1>2, <1>4
<1>8. CASE k = 1
  <2>1. t = 1
    BY <1>1, <1>2, <1>8
  <2>2. \A i \in 1..k : i = k
    BY <1>8
  <2>3. \A i \in 1..k : t \notin m6[i].todo
    BY <1>1, <1>2, <1>6, <2>2
  <2> QED BY <1>5, <1>6, <1>7, <2>1, <2>3 DEF k, t, Ftw!Reached
<1>9. CASE k # 1
  <2>1. k > 1 /\ k - 1 \in 1..k /\ k - 1 < k
    BY <1>1, <1>9
  <2>2. t # 1 /\ m1[t] = m6[k - 1].file /\ t \notin m6[k - 1].todo
    BY <1>1, <1>2, <2>1
  <2>3. Ftw!Reached(t)
    BY <1>4, <2>1, <2>2 DEF Ftw!Reached
  <2>4. ASSUME NEW i \in 1..k PROVE t \notin m6[i].todo
    <3>1. CASE i = k
      BY <1>1, <1>2, <1>6, <3>1
    <3>2. CASE i = k - 1
      BY <2>2, <3>2
    <3>3. CASE i # k /\ i # k - 1
      <4>1. i < k - 1 /\ i < k
        BY <1>1, <3>3
      <4>2. m6[i].file < m6[k - 1].file /\ m6[i].file \in Nat /\ m6[k - 1].file \in Nat
        BY <1>1, <1>2, <1>4, <2>1, <4>1
      <4>3. m6[i].file # m1[t]
        BY <2>2, <4>2
      <4> QED BY <1>2, <4>3 DEF Ftw!Below
    <3> QED BY <3>1, <3>2, <3>3
  <2>5. m1[t] < t
    BY <1>1, <1>3, <2>2
  <2> QED BY <1>5, <1>6, <1>7, <2>2, <2>3, <2>4, <2>5 DEF k, t
<1> QED BY <1>8, <1>9

LEMMA FtwReturn ==
  ASSUME Ftw!IInv, m7 # "done", Ftw!Return
  PROVE  /\ m6' \in Seq(Ftw!Frames) /\ Len(m6') = Len(m6) - 1 /\ Len(m6') \in Nat
         /\ m7' \in {"loop", "done"} /\ (m7' = "done" <=> Len(m6') = 0)
         /\ \A i \in 1..Len(m6') : /\ m6'[i] = m6[i] /\ i \in 1..Len(m6)
                                   /\ i < Len(m6) /\ i - 1 < Len(m6')
         /\ \A i \in 1..Len(m6) : i # Len(m6) => i \in 1..Len(m6')
<1> DEFINE n == Len(m6)
           k == Len(m6) - 1
<1>1. n \in Nat \ {0} /\ m6 \in Seq(Ftw!Frames) /\ k = n - 1
  BY FtwTop DEF Ftw!IInv, Ftw!TypeOK
<1>2. m6' = SubSeq(m6, 1, k) /\ m7' = IF n = 1 THEN "done" ELSE "loop"
  BY DEF Ftw!Return
<1>3. n = Len(m6)
  OBVIOUS
<1> HIDE DEF n, k
<1>4. k \in Nat /\ k <= Len(m6) /\ \A i \in 1..k : i \in 1..n /\ i < n /\ i - 1 < k
  BY <1>1, <1>3
<1>5. m6' \in Seq(Ftw!Frames) /\ Len(m6') = k /\ \A i \in 1..k : m6'[i] = m6[i]
  BY <1>1, <1>2, <1>4
<1>6. m7' \in {"loop", "done"} /\ (m7' = "done" <=> k = 0)
  BY <1>1, <1>2
<1>7. \A i \in 1..n : i # n => i \in 1..k
  BY <1>1
<1> QED BY <1>1, <1>4, <1>5, <1>6, <1>7 DEF n, k

LEMMA FtwWithTop ==
  ASSUME Ftw!IInv, m7 # "done", NEW fr \in Ftw!Frames
  PROVE  /\ Ftw!WithTop(fr) \in Seq(Ftw!Frames) /\ Len(Ftw!WithTop(fr)) = Len(m6)
         /\ Ftw!WithTop(fr)[Len(m6)] = fr
         /\ \A i \in 1..Len(m6) : i # Len(m6) => Ftw!WithTop(fr)[i] = m6[i]
<1>1. Len(m6) \in 1..Len(m6) /\ m6 \in Seq(Ftw!Frames)
  BY FtwTop DEF Ftw!IInv, Ftw!TypeOK
<1> QED BY <1>1 DEF Ftw!WithTop

LEMMA FtwPush ==
  ASSUME NEW s \in Seq(Ftw!Frames), NEW fr \in Ftw!Frames
  PROVE  /\ Append(s, fr) \in Seq(Ftw!Frames) /\ Len(Append(s, fr)) = Len(s) + 1
         /\ Append(s, fr)[Len(s) + 1] = fr /\ \A i \in 1..Len(s) : Append(s, fr)[i] = s[i]
  OBVIOUS

\* A call returns: the file on top was reported with r, or was read to its end.
LEMMA FtwReturnInv ==
  ASSUME Ftw!IInv, m7 # "done", Ftw!Return, UNCHANGED <<Ftw!Hierarchy, m4, m10>>,
         Ftw!Top.todo = {}, m5' \in Nat, m5' < m4,
         \/ m7 = "loop" /\ m8' = m8
         \/ /\ \A f \in Ftw!Below(Ftw!Top.file) : m8[f] = <<>>
            /\ \E r \in Ftw!Reports \ {<<>>, <<"FTW_D">>} : m8' = [m8 EXCEPT ![Ftw!Top.file] = r]
  PROVE  Ftw!IInv'
<1> DEFINE t == Ftw!Top.file
           n == Len(m6)
           k == Len(m6')
<1>a. n \in Nat \ {0} /\ t \in Ftw!File /\ Ftw!File \subseteq Nat \ {0} /\ Ftw!Top = m6[n]
  BY FtwTop
<1>b. /\ Ftw!Reached(t) /\ (t # 1 => m1[t] < t)
      /\ \A i \in 1..n : t \notin m6[i].todo
      /\ \A i \in 1..n : i < n => m6[i].file # t
      /\ \A f \in Ftw!Below(t) : f # t /\ f # 1 /\ f \in Ftw!File /\ m1[f] = t
  BY FtwFresh
<1>c. /\ m6' \in Seq(Ftw!Frames) /\ k = n - 1 /\ k \in Nat
      /\ m7' \in {"loop", "done"} /\ (m7' = "done" <=> k = 0)
      /\ \A i \in 1..k : m6'[i] = m6[i] /\ i \in 1..n /\ i < n /\ i - 1 < k
      /\ \A i \in 1..n : i # n => i \in 1..k
  BY FtwReturn
<1>d. /\ m1' = m1 /\ m2' = m2 /\ m3' = m3
      /\ m4' = m4 /\ m10' = m10
  BY DEF Ftw!Hierarchy
<1>e. m8 \in [Ftw!File -> Ftw!Reports] /\ m1 \in [Ftw!File -> Ftw!File]
  BY DEF Ftw!IInv, Ftw!TypeOK
<1>f. /\ m8' \in [Ftw!File -> Ftw!Reports] /\ m8'[t] # <<>>
      /\ \A f \in Ftw!File : f # t => m8'[f] = m8[f]
  <2>1. CASE m7 = "loop" /\ m8' = m8
    <3>1. m8[t] = <<"FTW_D">>
      BY <1>a, <2>1, FtwTop DEF Ftw!IInv, Ftw!VisitOK
    <3> QED BY <1>e, <2>1, <3>1
  <2>2. CASE \E r \in Ftw!Reports \ {<<>>, <<"FTW_D">>} : m8' = [m8 EXCEPT ![t] = r]
    BY <1>a, <1>e, <2>2
  <2> QED BY <2>1, <2>2
<1>g. Ftw!File' = Ftw!File
  BY DEF Ftw!File
<1> HIDE DEF t, n, k
<1>1. Ftw!TypeOK'
  BY <1>c, <1>d, <1>f DEF Ftw!IInv, Ftw!TypeOK, k
<1>2. Ftw!StackOK'
  <2> SUFFICES ASSUME NEW i \in 1..k
      PROVE  /\ m6'[i].todo \subseteq {g \in Ftw!File : g # 1 /\ m1'[g] = m6'[i].file}
             /\ \A f \in m6'[i].todo : m8'[f] = <<>>
             /\ i = 1 => m6'[i].file = 1
             /\ i > 1 => /\ m6'[i].file # 1 /\ m1'[m6'[i].file] = m6'[i - 1].file
                         /\ m6'[i].file \notin m6'[i - 1].todo
             /\ \A j \in 1..k : i < j => m6'[i].file < m6'[j].file
    BY <1>g DEF Ftw!StackOK, Ftw!Below, k
  <2>1. m6'[i] = m6[i] /\ i \in 1..n /\ m6[i].file \in Ftw!File
    BY <1>c, FtwTop DEF Ftw!Frames, n
  <2>2. m6[i].todo \subseteq Ftw!Below(m6[i].file) /\ m6[i].todo \subseteq Ftw!File
    BY <2>1 DEF Ftw!IInv, Ftw!StackOK, n, Ftw!Below
  <2>3. \A f \in m6[i].todo : m8'[f] = <<>>
    BY <1>b, <1>f, <2>1, <2>2 DEF Ftw!IInv, Ftw!StackOK, n
  <2>4. i > 1 => m6'[i - 1] = m6[i - 1]
    <3>1. i > 1 => i - 1 \in 1..k
      BY <1>c
    <3> QED BY <1>c, <3>1
  <2>5. i > 1 => /\ m6[i].file # 1 /\ m1[m6[i].file] = m6[i - 1].file
                 /\ m6[i].file \notin m6[i - 1].todo
    BY <2>1 DEF Ftw!IInv, Ftw!StackOK, n
  <2>6. i = 1 => m6[i].file = 1
    BY <2>1 DEF Ftw!IInv, Ftw!StackOK, n
  <2>7. \A j \in 1..k : i < j => m6'[i].file < m6'[j].file
    BY <1>c, <2>1 DEF Ftw!IInv, Ftw!StackOK, n
  <2>8. m6'[i].todo \subseteq {g \in Ftw!File : g # 1 /\ m1'[g] = m6'[i].file}
    BY <1>d, <2>1, <2>2 DEF Ftw!Below
  <2> QED BY <1>d, <2>1, <2>3, <2>4, <2>5, <2>6, <2>7, <2>8
<1>3. \A i \in 1..k : m8'[m6'[i].file] = <<"FTW_D">>
  <2> SUFFICES ASSUME NEW i \in 1..k PROVE m8'[m6'[i].file] = <<"FTW_D">>
    OBVIOUS
  <2>1. m6'[i] = m6[i] /\ i \in 1..n /\ i < n /\ m6[i].file \in Ftw!File
    BY <1>c, FtwTop DEF Ftw!Frames, n
  <2>2. m8[m6[i].file] = <<"FTW_D">>
    BY <2>1 DEF Ftw!IInv, Ftw!VisitOK, n
  <2> QED BY <1>b, <1>f, <2>1, <2>2
<1>4. \A f \in Ftw!File : Ftw!Reached(f)' => Ftw!Reached(f) /\ (m7 = "loop" \/ f \notin Ftw!Below(t))
  <2> SUFFICES ASSUME NEW f \in Ftw!File, Ftw!Reached(f)' PROVE Ftw!Reached(f) /\ (m7 = "loop" \/ f \notin Ftw!Below(t))
    OBVIOUS
  <2>1. CASE f = 1
    BY <1>b, <2>1 DEF Ftw!Reached
  <2>2. CASE f # 1
    <3>1. m8'[m1[f]] = <<"FTW_D">> /\ m1[f] \in Ftw!File
      BY <1>d, <1>e, <2>2 DEF Ftw!Reached
    <3>2. CASE m7 = "loop" /\ m8' = m8
      BY <3>1, <3>2 DEF Ftw!Reached
    <3>3. CASE \E r \in Ftw!Reports \ {<<>>, <<"FTW_D">>} : m8' = [m8 EXCEPT ![t] = r]
      <4>1. m8'[t] # <<"FTW_D">>
        BY <1>a, <1>e, <3>3
      <4>2. m1[f] # t
        BY <3>1, <4>1
      <4> QED BY <1>b, <1>f, <3>1, <4>2 DEF Ftw!Reached
    <3> QED BY <3>2, <3>3 DEF t
  <2> QED BY <2>1, <2>2
<1>5. \A f \in Ftw!File : m8'[f] # <<>> => Ftw!Reached(f)'
  <2> SUFFICES ASSUME NEW f \in Ftw!File, m8'[f] # <<>> PROVE Ftw!Reached(f)'
    OBVIOUS
  <2>1. Ftw!Reached(f)
    BY <1>b, <1>f DEF Ftw!IInv, Ftw!VisitOK
  <2>2. CASE f = 1
    BY <2>2 DEF Ftw!Reached
  <2>3. CASE f # 1
    <3>1. m8[m1[f]] = <<"FTW_D">> /\ m1[f] \in Ftw!File /\ m1[f] < f
      BY <1>e, <2>1, <2>3 DEF Ftw!Reached, Ftw!IInv, Ftw!TypeOK
    <3>2. m8'[m1[f]] = <<"FTW_D">>
      <4>1. CASE m7 = "loop" /\ m8' = m8
        BY <3>1, <4>1
      <4>2. CASE \A g \in Ftw!Below(t) : m8[g] = <<>>
        <5>1. m1[f] # t
          <6> SUFFICES ASSUME m1[f] = t PROVE FALSE
            OBVIOUS
          <6>1. f \in Ftw!Below(t)
            BY <2>3 DEF Ftw!Below
          <6>2. m8[f] = <<>> /\ f # t
            BY <1>b, <4>2, <6>1
          <6> QED BY <1>f, <6>2
        <5> QED BY <1>f, <3>1, <5>1
      <4> QED BY <4>1, <4>2 DEF t
    <3> QED BY <1>d, <3>2 DEF Ftw!Reached
  <2> QED BY <2>2, <2>3
<1>6. \A f \in Ftw!File : Ftw!Reached(f)' /\ m8'[f] = <<>> => Ftw!Waiting(f)'
  <2> SUFFICES ASSUME NEW f \in Ftw!File, Ftw!Reached(f)', m8'[f] = <<>> PROVE Ftw!Waiting(f)'
    OBVIOUS
  <2>1. Ftw!Reached(f) /\ f # t /\ m8[f] = <<>> /\ (m7 = "loop" \/ f \notin Ftw!Below(t))
    BY <1>4, <1>f
  <2>2. Ftw!Waiting(f)
    BY <2>1 DEF Ftw!IInv, Ftw!VisitOK
  <2>3. PICK i \in 1..n : f \in m6[i].todo
    <3>1. m7 = "loop" => ~ (m7 \in {"grow", "open"})
      OBVIOUS
    <3> QED BY <2>1, <2>2, <3>1 DEF Ftw!Waiting, n, t
  <2>4. i # n
    BY <1>a, <2>3
  <2>5. i \in 1..k /\ f \in m6'[i].todo
    BY <1>c, <2>3, <2>4
  <2> QED BY <2>5 DEF Ftw!Waiting, k
<1>7. Ftw!VisitOK'
  BY <1>c, <1>3, <1>5, <1>6 DEF Ftw!VisitOK, k
<1>8. Ftw!BufferOK'
  <2>1. \A i \in 1..k : m6'[i].n + NAME_MAX < m4 /\ m6'[i].n = m10[m6'[i].file] + 1
    BY <1>c DEF Ftw!IInv, Ftw!BufferOK, n
  <2> QED BY <1>c, <1>d, <2>1 DEF Ftw!IInv, Ftw!BufferOK, k
<1> QED BY <1>1, <1>2, <1>7, <1>8 DEF Ftw!IInv

\* A step of the call on top, which keeps its file.
LEMMA FtwStack ==
  ASSUME Ftw!IInv, m7 # "done", Len(m6') = Len(m6), m1' = m1,
         \A i \in 1..Len(m6) : m6'[i].file = m6[i].file,
         \A i \in 1..Len(m6) : i # Len(m6) => m6'[i] = m6[i],
         m6'[Len(m6)].todo \subseteq Ftw!Below(Ftw!Top.file),
         \A i \in 1..Len(m6) : \A f \in m6'[i].todo : m8'[f] = <<>>
  PROVE  Ftw!StackOK'
<1> DEFINE n == Len(m6)
<1>a. n \in Nat \ {0} /\ Ftw!Top = m6[n]
  BY FtwTop
<1>b. Ftw!File' = Ftw!File
  BY DEF Ftw!File
<1>c. Len(m6') = n
  OBVIOUS
<1>d. n = Len(m6)
  OBVIOUS
<1> HIDE DEF n
<1> SUFFICES ASSUME NEW i \in 1..n
    PROVE  /\ m6'[i].todo \subseteq {g \in Ftw!File : g # 1 /\ m1'[g] = m6'[i].file}
           /\ \A f \in m6'[i].todo : m8'[f] = <<>>
           /\ i = 1 => m6'[i].file = 1
           /\ i > 1 => /\ m6'[i].file # 1 /\ m1'[m6'[i].file] = m6'[i - 1].file
                       /\ m6'[i].file \notin m6'[i - 1].todo
           /\ \A j \in 1..n : i < j => m6'[i].file < m6'[j].file
  BY <1>b, <1>c DEF Ftw!StackOK, Ftw!Below
<1>1. /\ m6[i].todo \subseteq Ftw!Below(m6[i].file)
      /\ i = 1 => m6[i].file = 1
      /\ i > 1 => /\ m6[i].file # 1 /\ m1[m6[i].file] = m6[i - 1].file
                  /\ m6[i].file \notin m6[i - 1].todo
      /\ \A j \in 1..n : i < j => m6[i].file < m6[j].file
  BY <1>d DEF Ftw!IInv, Ftw!StackOK
<1>2. m6'[i].todo \subseteq Ftw!Below(m6[i].file)
  BY <1>a, <1>d, <1>1
<1>3. m6'[i].todo \subseteq {g \in Ftw!File : g # 1 /\ m1'[g] = m6'[i].file}
  BY <1>d, <1>2 DEF Ftw!Below
<1>4. i > 1 => i - 1 \in 1..n /\ i - 1 # n
  BY <1>a
<1>5. i > 1 => m6'[i - 1] = m6[i - 1]
  BY <1>4, <1>d
<1>6. \A j \in 1..n : i < j => m6'[i].file < m6'[j].file
  BY <1>1, <1>d
<1>7. \A f \in m6'[i].todo : m8'[f] = <<>>
  BY <1>d
<1>8. m6'[i].file = m6[i].file
  BY <1>d
<1> QED BY <1>1, <1>3, <1>5, <1>6, <1>7, <1>8

\* Nothing below a file dopath was just called for was reported.
LEMMA FtwNoneBelow ==
  ASSUME Ftw!IInv, m7 = "call" PROVE \A f \in Ftw!Below(Ftw!Top.file) : m8[f] = <<>>
<1> SUFFICES ASSUME NEW f \in Ftw!Below(Ftw!Top.file), m8[f] # <<>> PROVE FALSE
  OBVIOUS
<1>1. f # 1 /\ f \in Ftw!File /\ m1[f] = Ftw!Top.file
  BY FtwFresh
<1>2. Ftw!Reached(f)
  BY <1>1 DEF Ftw!IInv, Ftw!VisitOK
<1>3. m8[Ftw!Top.file] = <<"FTW_D">>
  BY <1>1, <1>2 DEF Ftw!Reached
<1>4. m8[Ftw!Top.file] = <<>>
  BY DEF Ftw!IInv, Ftw!VisitOK
<1> QED BY <1>3, <1>4

LEMMA FtwPair ==
  ASSUME NEW S, NEW b \in Seq(S), NEW x \in S, Len(b) = 1 PROVE Append(b, x) = <<b[1], x>>
<1> DEFINE c == Append(b, x)
<1>1. /\ c \in Seq(S) /\ Len(c) = Len(b) + 1 /\ c[Len(b) + 1] = x
      /\ \A i \in 1..Len(b) : c[i] = b[i]
  OBVIOUS
<1> HIDE DEF c
<1>2. Len(c) = 2 /\ c[2] = x
  BY <1>1
<1>3. c[1] = b[1]
  BY <1>1
<1>4. c = <<c[1], c[2]>>
  BY <1>1, <1>2
<1> QED BY <1>2, <1>3, <1>4 DEF c

LEMMA FtwReport ==
  ASSUME Ftw!IInv, m7 # "done", NEW type \in {"FTW_NS", "FTW_F", "FTW_D", "FTW_DNR"}, Ftw!myfunc(Ftw!Top.file, type)
  PROVE  /\ m7 = "call" => m8' = [m8 EXCEPT ![Ftw!Top.file] = <<type>>]
         /\ m7 = "open" => m8' = [m8 EXCEPT ![Ftw!Top.file] = <<"FTW_D", type>>]
<1> DEFINE t == Ftw!Top.file
<1>1. t \in Ftw!File /\ m8 \in [Ftw!File -> Ftw!Reports]
  BY FtwTop DEF Ftw!IInv, Ftw!TypeOK
<1>2. m8' = [m8 EXCEPT ![t] = Append(m8[t], type)]
  BY DEF Ftw!myfunc
<1>3. m7 = "call" => m8[t] = <<>>
  BY DEF Ftw!IInv, Ftw!VisitOK
<1>4. m7 = "open" => m8[t] = <<"FTW_D">>
  BY FtwTop DEF Ftw!IInv, Ftw!VisitOK
<1> HIDE DEF t
<1>5. Append(<<>>, type) = <<type>>
  OBVIOUS
<1>6. Append(<<"FTW_D">>, type) = <<"FTW_D", type>>
  <2>1. <<"FTW_D">> \in Seq({"FTW_D", type}) /\ Len(<<"FTW_D">>) = 1 /\ <<"FTW_D">>[1] = "FTW_D"
    OBVIOUS
  <2> QED BY <2>1, FtwPair
<1> QED BY <1>2, <1>3, <1>4, <1>5, <1>6 DEF t

LEMMA FtwLstat == ASSUME Ftw!IInv, Ftw!lstat PROVE Ftw!IInv'
<1> DEFINE t == Ftw!Top.file
           n == Len(m6)
<1>a. m7 = "call" /\ UNCHANGED <<Ftw!Hierarchy, m4, m5, m10>>
  BY DEF Ftw!lstat
<1>b. n \in Nat \ {0} /\ n \in 1..n /\ t \in Ftw!File /\ Ftw!Top = m6[n]
  BY <1>a, FtwTop
<1>c. Ftw!Top.todo = {} /\ \A f \in Ftw!Below(t) : m8[f] = <<>>
  BY <1>a, FtwNoneBelow DEF Ftw!IInv, Ftw!VisitOK
<1>d. m5' \in Nat /\ m5' < m4
  BY <1>a DEF Ftw!IInv, Ftw!TypeOK, Ftw!BufferOK
<1>1. ASSUME NEW type \in {"FTW_NS", "FTW_F"}, Ftw!myfunc(t, type), Ftw!Return PROVE Ftw!IInv'
  <2>1. m8' = [m8 EXCEPT ![t] = <<type>>]
    BY <1>1, <1>a, FtwReport
  <2>2. <<type>> \in Ftw!Reports \ {<<>>, <<"FTW_D">>}
    BY DEF Ftw!Reports
  <2>3. \E r \in Ftw!Reports \ {<<>>, <<"FTW_D">>} : m8' = [m8 EXCEPT ![t] = r]
    BY <2>1, <2>2
  <2> QED BY <1>1, <1>a, <1>c, <1>d, <2>3, FtwReturnInv
<1>2. ASSUME Ftw!myfunc(t, "FTW_D"), m7' = "grow", m6' = m6 PROVE Ftw!IInv'
  <2>a. m8 \in [Ftw!File -> Ftw!Reports] /\ m1 \in [Ftw!File -> Ftw!File]
    BY DEF Ftw!IInv, Ftw!TypeOK
  <2>1. m8' = [m8 EXCEPT ![t] = <<"FTW_D">>]
    BY <1>2, <1>a, FtwReport
  <2>2. /\ m8' \in [Ftw!File -> Ftw!Reports] /\ m8'[t] = <<"FTW_D">>
        /\ \A f \in Ftw!File : f # t => m8'[f] = m8[f]
    BY <1>b, <2>1, <2>a DEF Ftw!Reports
  <2>3. m1' = m1 /\ m3' = m3 /\ m5' = m5 /\ m4' = m4 /\ m10' = m10
    BY <1>a DEF Ftw!Hierarchy
  <2>4. Ftw!Top' = Ftw!Top /\ t' = t /\ Ftw!File' = Ftw!File /\ Ftw!Below(Ftw!Top.file)' = Ftw!Below(t) /\ n' = n
    BY <1>2, <2>3 DEF Ftw!Top, Ftw!File, Ftw!Below
  <2>5. Ftw!TypeOK'
    <3>1. m7' # "done" /\ m7 # "done"
      BY <1>2, <1>a
    <3> QED BY <1>2, <1>a, <2>2, <2>3, <2>4, <3>1 DEF Ftw!IInv, Ftw!TypeOK
  <2>6. \A i \in 1..n : \A f \in m6[i].todo : f # t /\ f \in Ftw!File /\ m8[f] = <<>>
    <3>1. \A i \in 1..n : m6[i].todo \subseteq Ftw!Below(m6[i].file) /\ t \notin m6[i].todo
      BY <1>a, FtwFresh DEF Ftw!IInv, Ftw!StackOK
    <3> QED BY <3>1 DEF Ftw!IInv, Ftw!StackOK, Ftw!Below
  <2>7. Ftw!StackOK'
    <3>1. \A i \in 1..Len(m6) : \A f \in m6'[i].todo : m8'[f] = <<>>
      BY <1>2, <2>2, <2>6
    <3>2. m6'[Len(m6)].todo \subseteq Ftw!Below(Ftw!Top.file)
      BY <1>2, <1>b, <1>c
    <3>3. Len(m6') = Len(m6)
      BY <1>2
    <3> QED BY <1>2, <1>a, <2>3, <3>1, <3>2, <3>3, FtwStack
  <2>8. \A i \in 1..n : m8'[m6[i].file] = <<"FTW_D">>
    <3> SUFFICES ASSUME NEW i \in 1..n PROVE m8'[m6[i].file] = <<"FTW_D">>
      OBVIOUS
    <3>1. CASE i = n
      BY <1>b, <2>2, <3>1
    <3>2. CASE i # n
      <4>1. i < n /\ m6[i].file \in Ftw!File
        BY <1>a, <1>b, <3>2, FtwTop DEF Ftw!Frames
      <4>2. m6[i].file # t /\ m8[m6[i].file] = <<"FTW_D">>
        BY <1>a, <4>1, FtwFresh DEF Ftw!IInv, Ftw!VisitOK
      <4> QED BY <2>2, <4>1, <4>2
    <3> QED BY <3>1, <3>2
  <2>9. \A f \in Ftw!Below(t) : m8'[f] = <<>>
    <3>1. \A f \in Ftw!Below(t) : f # t /\ f \in Ftw!File
      BY <1>a, FtwFresh
    <3> QED BY <1>c, <2>2, <3>1
  <2>10. \A f \in Ftw!File : Ftw!Reached(f) => Ftw!Reached(f)'
    <3> SUFFICES ASSUME NEW f \in Ftw!File, Ftw!Reached(f) PROVE Ftw!Reached(f)'
      OBVIOUS
    <3>1. f = 1 \/ m8'[m1[f]] = <<"FTW_D">>
      BY <2>2, <2>a DEF Ftw!Reached
    <3> QED BY <2>3, <3>1 DEF Ftw!Reached
  <2>11. \A f \in Ftw!File : m8'[f] # <<>> => Ftw!Reached(f)'
    <3> SUFFICES ASSUME NEW f \in Ftw!File, m8'[f] # <<>> PROVE Ftw!Reached(f)'
      OBVIOUS
    <3>1. f = t \/ m8[f] # <<>>
      BY <2>2
    <3>2. Ftw!Reached(f)
      BY <1>a, <3>1, FtwFresh DEF Ftw!IInv, Ftw!VisitOK
    <3> QED BY <2>10, <3>2
  <2>12. \A f \in Ftw!File : Ftw!Reached(f)' /\ m8'[f] = <<>> => Ftw!Waiting(f)'
    <3> SUFFICES ASSUME NEW f \in Ftw!File, Ftw!Reached(f)', m8'[f] = <<>> PROVE Ftw!Waiting(f)'
      OBVIOUS
    <3>1. f # t /\ m8[f] = <<>>
      BY <2>2
    <3>2. CASE Ftw!Reached(f)
      <4>1. Ftw!Waiting(f)
        BY <3>1, <3>2 DEF Ftw!IInv, Ftw!VisitOK
      <4>2. \E i \in 1..n : f \in m6[i].todo
        BY <1>a, <3>1, <4>1 DEF Ftw!Waiting
      <4> QED BY <1>2, <4>2 DEF Ftw!Waiting
    <3>3. CASE ~ Ftw!Reached(f)
      <4>1. f # 1 /\ m8[m1[f]] # <<"FTW_D">> /\ m8'[m1[f]] = <<"FTW_D">> /\ m1[f] \in Ftw!File
        BY <2>3, <2>a, <3>3 DEF Ftw!Reached
      <4>2. m1[f] = t
        BY <2>2, <4>1
      <4>3. f \in Ftw!Below(t)
        BY <4>1, <4>2 DEF Ftw!Below
      <4>4. f \in Ftw!Below(Ftw!Top.file)'
        BY <2>4, <4>3
      <4>5. m7' \in {"grow", "open"}
        BY <1>2
      <4> QED BY <4>4, <4>5 DEF Ftw!Waiting
    <3> QED BY <3>2, <3>3
  <2>13. Ftw!VisitOK'
    <3>1. m7' # "call" /\ Ftw!Top'.todo = {}
      BY <1>2, <1>c, <2>4
    <3>2. \A i \in 1..Len(m6') : m8'[m6'[i].file] = <<"FTW_D">>
      BY <1>2, <2>8
    <3>3. \A f \in Ftw!Below(Ftw!Top.file)' : m8'[f] = <<>>
      BY <2>4, <2>9
    <3> QED BY <2>4, <2>11, <2>12, <3>1, <3>2, <3>3 DEF Ftw!VisitOK
  <2>14. Ftw!BufferOK'
    <3>1. m7' = "grow" /\ m7 = "call"
      BY <1>2, <1>a
    <3> QED BY <1>2, <2>3, <2>4, <3>1 DEF Ftw!IInv, Ftw!BufferOK
  <2> QED BY <2>5, <2>7, <2>13, <2>14 DEF Ftw!IInv
<1> QED BY <1>1, <1>2 DEF Ftw!lstat

LEMMA FtwGrow == ASSUME Ftw!IInv, Ftw!grow PROVE Ftw!IInv'
<1> DEFINE n == Len(m6)
           fr == [Ftw!Top EXCEPT !.n = m5']
<1>a. m7 = "grow" /\ m7' = "open" /\ m5' = m5 + 1 /\ m6' = Ftw!WithTop(fr)
  BY DEF Ftw!grow
<1>b. m1' = m1 /\ m3' = m3 /\ m8' = m8 /\ m10' = m10
  BY DEF Ftw!grow, Ftw!Hierarchy
<1>c. /\ n \in Nat \ {0} /\ n \in 1..n /\ Ftw!Top = m6[n] /\ Ftw!Top \in Ftw!Frames
      /\ \A i \in 1..n : m6[i] \in Ftw!Frames
  BY <1>a, FtwTop
<1>d. /\ m5 \in Nat /\ m4 \in Nat /\ m5 < m4 /\ NAME_MAX < m4 /\ m5 = m10[Ftw!Top.file]
      /\ \A i \in 1..n : m6[i].n + NAME_MAX < m4
  BY <1>a DEF Ftw!IInv, Ftw!TypeOK, Ftw!BufferOK
<1>e. m4' = IF m5 + NAME_MAX + 2 > m4 THEN m4 * 2 ELSE m4
  BY DEF Ftw!grow, Ftw!Expand
<1>f. m5' \in Nat /\ fr \in Ftw!Frames /\ fr.file = Ftw!Top.file /\ fr.todo = Ftw!Top.todo /\ fr.n = m5'
  <2>1. m5' \in Nat
    BY <1>a, <1>d
  <2> QED BY <1>c, <2>1 DEF Ftw!Frames
<1> HIDE DEF fr
<1>g. /\ m6' \in Seq(Ftw!Frames) /\ Len(m6') = n /\ m6'[n] = fr
      /\ \A i \in 1..n : i # n => m6'[i] = m6[i]
  BY <1>a, <1>f, FtwWithTop
<1>h. m4' \in Nat /\ m4 <= m4' /\ m5' + NAME_MAX < m4' /\ m5' < m4'
  BY <1>a, <1>d, <1>e, FtwAssumption
<1>i. Ftw!Top' = fr /\ Ftw!File' = Ftw!File /\ Ftw!Below(Ftw!Top.file)' = Ftw!Below(Ftw!Top.file) /\ Len(m6)' = n
  BY <1>b, <1>f, <1>g DEF Ftw!Top, Ftw!File, Ftw!Below
<1>j. \A i \in 1..n : m6'[i].file = m6[i].file /\ m6'[i].todo = m6[i].todo
  BY <1>c, <1>f, <1>g
<1>k. Ftw!Top.todo \subseteq Ftw!Below(Ftw!Top.file)
  BY <1>a, FtwTop
<1>1. Ftw!TypeOK'
  <2>1. m7' # "done" /\ Len(m6') # 0
    BY <1>a, <1>c, <1>g
  <2> QED BY <1>a, <1>b, <1>f, <1>g, <1>h, <1>i, <2>1 DEF Ftw!IInv, Ftw!TypeOK
<1>2. Ftw!StackOK'
  <2>1. \A i \in 1..Len(m6) : \A f \in m6'[i].todo : m8'[f] = <<>>
    BY <1>b, <1>j DEF Ftw!IInv, Ftw!StackOK
  <2> QED BY <1>a, <1>b, <1>f, <1>g, <1>j, <1>k, <2>1, FtwStack
<1>3. Ftw!VisitOK'
  <2>1. \A f \in Ftw!File : Ftw!Reached(f)' <=> Ftw!Reached(f)
    BY <1>b DEF Ftw!Reached
  <2>2. \A f \in Ftw!File : Ftw!Waiting(f) => Ftw!Waiting(f)'
    <3> SUFFICES ASSUME NEW f \in Ftw!File, Ftw!Waiting(f) PROVE Ftw!Waiting(f)'
      OBVIOUS
    <3>1. CASE \E i \in 1..n : f \in m6[i].todo
      <4>1. \E i \in 1..Len(m6') : f \in m6'[i].todo
        BY <1>g, <1>j, <3>1
      <4> QED BY <4>1 DEF Ftw!Waiting
    <3>2. CASE f \in Ftw!Below(Ftw!Top.file)
      <4>1. f \in Ftw!Below(Ftw!Top.file)' /\ m7' \in {"grow", "open"}
        BY <1>a, <1>i, <3>2
      <4> QED BY <4>1 DEF Ftw!Waiting
    <3> QED BY <1>a, <3>1, <3>2 DEF Ftw!Waiting
  <2>3. \A i \in 1..Len(m6') : m8'[m6'[i].file] = <<"FTW_D">>
    BY <1>a, <1>b, <1>g, <1>j DEF Ftw!IInv, Ftw!VisitOK
  <2>4. Ftw!Top'.todo = {} /\ m7' # "call"
    BY <1>a, <1>f, <1>i DEF Ftw!IInv, Ftw!VisitOK
  <2>5. \A f \in Ftw!Below(Ftw!Top.file)' : m8'[f] = <<>>
    BY <1>a, <1>b, <1>i DEF Ftw!IInv, Ftw!VisitOK
  <2>6. \A f \in Ftw!File : m8'[f] # <<>> => Ftw!Reached(f)'
    BY <1>b, <2>1 DEF Ftw!IInv, Ftw!VisitOK
  <2>7. \A f \in Ftw!File : Ftw!Reached(f)' /\ m8'[f] = <<>> => Ftw!Waiting(f)'
    BY <1>b, <2>1, <2>2 DEF Ftw!IInv, Ftw!VisitOK
  <2> QED BY <1>i, <2>3, <2>4, <2>5, <2>6, <2>7 DEF Ftw!VisitOK
<1>4. Ftw!BufferOK'
  <2>1. NAME_MAX < m4'
    BY <1>d, <1>h, FtwAssumption
  <2>2. ASSUME NEW i \in 1..n
        PROVE  m6'[i].n + NAME_MAX < m4' /\ m6'[i].n = m10[m6'[i].file] + 1
    <3>1. CASE i = n
      <4>1. m6'[i].n = m5' /\ m6'[i].file = Ftw!Top.file
        BY <1>f, <1>g, <3>1
      <4> QED BY <1>a, <1>d, <1>h, <4>1
    <3>2. CASE i # n
      <4>1. m6'[i] = m6[i] /\ i < n
        BY <1>c, <1>g, <3>2
      <4>2. m6[i].n \in Nat /\ m6[i].n + NAME_MAX < m4
        BY <1>c, <1>d DEF Ftw!Frames
      <4>3. m6[i].n = m10[m6[i].file] + 1
        BY <4>1 DEF Ftw!IInv, Ftw!BufferOK
      <4>4. m6[i].n + NAME_MAX < m4'
        BY <1>d, <1>h, <4>2, FtwAssumption
      <4> QED BY <4>1, <4>3, <4>4
    <3> QED BY <3>1, <3>2
  <2>3. m5' = Ftw!Top'.n
    BY <1>f, <1>i
  <2> QED BY <1>a, <1>b, <1>g, <1>h, <2>1, <2>2, <2>3 DEF Ftw!BufferOK
<1> QED BY <1>1, <1>2, <1>3, <1>4 DEF Ftw!IInv

LEMMA FtwOpendir == ASSUME Ftw!IInv, Ftw!opendir PROVE Ftw!IInv'
<1> DEFINE n == Len(m6)
           fr == [Ftw!Top EXCEPT !.todo = Ftw!Below(Ftw!Top.file)]
<1>a. m7 = "open" /\ UNCHANGED <<Ftw!Hierarchy, m4, m5, m10>>
  BY DEF Ftw!opendir
<1>b. m1' = m1 /\ m3' = m3 /\ m4' = m4 /\ m5' = m5 /\ m10' = m10
  BY <1>a DEF Ftw!Hierarchy
<1>c. /\ n \in Nat \ {0} /\ n \in 1..n /\ Ftw!Top = m6[n] /\ Ftw!Top \in Ftw!Frames
      /\ \A i \in 1..n : m6[i] \in Ftw!Frames
  BY <1>a, FtwTop
<1>d. Ftw!Top.todo = {} /\ \A f \in Ftw!Below(Ftw!Top.file) : m8[f] = <<>>
  BY <1>a DEF Ftw!IInv, Ftw!VisitOK
<1>1. ASSUME Ftw!myfunc(Ftw!Top.file, "FTW_DNR"), Ftw!Return PROVE Ftw!IInv'
  <2>1. m8' = [m8 EXCEPT ![Ftw!Top.file] = <<"FTW_D", "FTW_DNR">>]
    BY <1>1, <1>a, FtwReport
  <2>2. <<"FTW_D", "FTW_DNR">> \in Ftw!Reports \ {<<>>, <<"FTW_D">>}
    BY DEF Ftw!Reports
  <2>3. \E r \in Ftw!Reports \ {<<>>, <<"FTW_D">>} : m8' = [m8 EXCEPT ![Ftw!Top.file] = r]
    BY <2>1, <2>2
  <2>4. m5' \in Nat /\ m5' < m4
    BY <1>b DEF Ftw!IInv, Ftw!TypeOK, Ftw!BufferOK
  <2> QED BY <1>1, <1>a, <1>d, <2>3, <2>4, FtwReturnInv
<1>2. ASSUME m8' = m8, m6' = Ftw!WithTop(fr), m7' = "loop" PROVE Ftw!IInv'
  <2>a. fr \in Ftw!Frames /\ fr.file = Ftw!Top.file /\ fr.n = Ftw!Top.n /\ fr.todo = Ftw!Below(Ftw!Top.file)
    BY <1>c DEF Ftw!Frames, Ftw!Below
  <2> HIDE DEF fr
  <2>b. /\ m6' \in Seq(Ftw!Frames) /\ Len(m6') = n /\ m6'[n] = fr
        /\ \A i \in 1..n : i # n => m6'[i] = m6[i]
    BY <1>2, <1>a, <2>a, FtwWithTop
  <2>c. \A i \in 1..n : m6'[i].file = m6[i].file /\ m6'[i].n = m6[i].n
    BY <1>c, <2>a, <2>b
  <2>d. Ftw!File' = Ftw!File
    BY DEF Ftw!File
  <2>1. Ftw!TypeOK'
    <3>1. m7' # "done" /\ Len(m6') # 0
      BY <1>2, <1>c, <2>b
    <3> QED BY <1>2, <1>b, <2>b, <2>d, <3>1 DEF Ftw!IInv, Ftw!TypeOK
  <2>2. Ftw!StackOK'
    <3>1. ASSUME NEW i \in 1..n, NEW f \in m6'[i].todo PROVE m8'[f] = <<>>
      <4>1. CASE i = n
        BY <1>2, <1>d, <2>a, <2>b, <4>1
      <4>2. CASE i # n
        BY <1>2, <2>b, <4>2 DEF Ftw!IInv, Ftw!StackOK
      <4> QED BY <4>1, <4>2
    <3>2. \A i \in 1..Len(m6) : \A f \in m6'[i].todo : m8'[f] = <<>>
      BY <3>1
    <3>3. m6'[Len(m6)].todo \subseteq Ftw!Below(Ftw!Top.file)
      BY <2>a, <2>b
    <3> QED BY <1>a, <1>b, <2>b, <2>c, <3>2, <3>3, FtwStack
  <2>3. Ftw!VisitOK'
    <3>1. \A f \in Ftw!File : Ftw!Reached(f)' <=> Ftw!Reached(f)
      BY <1>2, <1>b DEF Ftw!Reached
    <3>2. \A f \in Ftw!File : Ftw!Waiting(f) => Ftw!Waiting(f)'
      <4> SUFFICES ASSUME NEW f \in Ftw!File, Ftw!Waiting(f)
                   PROVE \E i \in 1..Len(m6') : f \in m6'[i].todo
        BY DEF Ftw!Waiting
      <4>1. CASE \E i \in 1..n : f \in m6[i].todo
        <5>1. PICK i \in 1..n : f \in m6[i].todo
          BY <4>1
        <5>2. i # n
          BY <1>c, <1>d, <5>1
        <5> QED BY <2>b, <5>1, <5>2
      <4>2. CASE f \in Ftw!Below(Ftw!Top.file)
        BY <1>c, <2>a, <2>b, <4>2
      <4> QED BY <1>a, <4>1, <4>2 DEF Ftw!Waiting
    <3>3. \A i \in 1..Len(m6') : m8'[m6'[i].file] = <<"FTW_D">>
      BY <1>2, <1>a, <2>b, <2>c DEF Ftw!IInv, Ftw!VisitOK
    <3>4. \A f \in Ftw!File : m8'[f] # <<>> => Ftw!Reached(f)'
      BY <1>2, <3>1 DEF Ftw!IInv, Ftw!VisitOK
    <3>5. \A f \in Ftw!File : Ftw!Reached(f)' /\ m8'[f] = <<>> => Ftw!Waiting(f)'
      BY <1>2, <3>1, <3>2 DEF Ftw!IInv, Ftw!VisitOK
    <3>6. m7' = "loop"
      BY <1>2
    <3> QED BY <2>d, <3>3, <3>4, <3>5, <3>6 DEF Ftw!VisitOK
  <2>4. Ftw!BufferOK'
    <3>1. \A i \in 1..n : m6'[i].n + NAME_MAX < m4
      BY <2>c DEF Ftw!IInv, Ftw!BufferOK
    <3>2. \A i \in 1..n : m6'[i].n = m10[m6'[i].file] + 1
      BY <1>a, <2>c DEF Ftw!IInv, Ftw!BufferOK
    <3>3. m7' = "loop"
      BY <1>2
    <3> QED BY <1>b, <2>b, <3>1, <3>2, <3>3 DEF Ftw!IInv, Ftw!BufferOK
  <2> QED BY <2>1, <2>2, <2>3, <2>4 DEF Ftw!IInv
<1> QED BY <1>1, <1>2 DEF Ftw!opendir

LEMMA FtwReaddir == ASSUME Ftw!IInv, Ftw!readdir PROVE Ftw!IInv'
<1> DEFINE n == Len(m6)
           t == Ftw!Top.file
<1>a. m7 = "loop" /\ UNCHANGED <<Ftw!Hierarchy, m4, m8, m9>>
  BY DEF Ftw!readdir
<1>b. m1' = m1 /\ m3' = m3 /\ m4' = m4 /\ m8' = m8
  BY <1>a DEF Ftw!Hierarchy
<1>c. /\ n \in Nat \ {0} /\ n \in 1..n /\ Ftw!Top = m6[n] /\ Ftw!Top \in Ftw!Frames
      /\ t \in Ftw!File /\ Ftw!Top.n \in Nat /\ Ftw!File \subseteq Nat \ {0}
      /\ \A i \in 1..n : m6[i] \in Ftw!Frames
  BY <1>a, FtwTop
<1>d. /\ Ftw!Top.n = m10[t] + 1 /\ Ftw!Top.n + NAME_MAX < m4 /\ m10[t] \in Nat
      /\ m5 \in Nat /\ m4 \in Nat
  BY <1>a, <1>c DEF Ftw!IInv, Ftw!TypeOK, Ftw!BufferOK
<1>1. ASSUME Ftw!Top.todo = {}, m5' = Ftw!Top.n - 1, Ftw!Return, m10' = m10 PROVE Ftw!IInv'
  <2>1. m5' \in Nat /\ m5' < m4
    BY <1>1, <1>d, FtwAssumption
  <2>2. UNCHANGED <<Ftw!Hierarchy, m4, m10>>
    BY <1>1, <1>a
  <2> QED BY <1>1, <1>a, <2>1, <2>2, FtwReturnInv
<1>2. ASSUME NEW f \in Ftw!Top.todo, m5' = Ftw!Top.n + m3[f],
             m10' = [m10 EXCEPT ![f] = m10[t] + 1 + m3[f]],
             m6' = Append(Ftw!WithTop([Ftw!Top EXCEPT !.todo = @ \ {f}]), Ftw!Frame(f)), m7' = "call"
      PROVE  Ftw!IInv'
  <2> DEFINE fr == [Ftw!Top EXCEPT !.todo = @ \ {f}]
             w == Ftw!WithTop(fr)
             top == Ftw!Frame(f)
  <2>a. f # t /\ f # 1 /\ f \in Ftw!File /\ m1[f] = t /\ m1[f] < f /\ m8[f] = <<>>
    <3>1. f \in Ftw!Below(t)
      BY <1>a, FtwTop
    <3>2. f # t /\ f # 1 /\ f \in Ftw!File /\ m1[f] = t
      BY <1>a, <3>1, FtwFresh
    <3>3. m1[f] < f
      BY <3>2 DEF Ftw!IInv, Ftw!TypeOK
    <3>4. m8[f] = <<>>
      BY <1>c DEF Ftw!IInv, Ftw!StackOK
    <3> QED BY <3>2, <3>3, <3>4
  <2>b. fr \in Ftw!Frames /\ fr.file = t /\ fr.n = Ftw!Top.n /\ fr.todo = Ftw!Top.todo \ {f}
    BY <1>c DEF Ftw!Frames
  <2>c. top \in Ftw!Frames /\ top.file = f /\ top.n = 0 /\ top.todo = {}
    BY <2>a DEF Ftw!Frames, Ftw!Frame
  <2>d. m6' = Append(w, top)
    BY <1>2
  <2>e. m3[f] \in Nat /\ m3[f] <= NAME_MAX
    BY <2>a DEF Ftw!IInv, Ftw!TypeOK
  <2>f. m10 \in [Ftw!File -> Nat] /\ Ftw!File' = Ftw!File
    BY DEF Ftw!IInv, Ftw!TypeOK, Ftw!File
  <2> HIDE DEF fr, top
  <2>g. /\ w \in Seq(Ftw!Frames) /\ Len(w) = n /\ w[n] = fr
        /\ \A i \in 1..n : i # n => w[i] = m6[i]
    BY <1>a, <2>b, FtwWithTop
  <2> HIDE DEF w
  <2>h. /\ m6' \in Seq(Ftw!Frames) /\ Len(m6') = n + 1 /\ m6'[n + 1] = top
        /\ \A i \in 1..n : m6'[i] = w[i]
    BY <2>c, <2>d, <2>g, FtwPush
  <2>i. n = Len(m6)
    OBVIOUS
  <2> HIDE DEF n
  <2>j. n + 1 \in Nat /\ n + 1 # 0 /\ \A i \in 1..n + 1 : i \in 1..n \/ i = n + 1
    BY <1>c
  <2>k. \A i \in 1..n : /\ m6'[i].file = m6[i].file /\ m6'[i].n = m6[i].n
                        /\ m6'[i].todo \subseteq m6[i].todo /\ i < n + 1
                        /\ \A g \in m6[i].todo : g # f => g \in m6'[i].todo
    <3> SUFFICES ASSUME NEW i \in 1..n
          PROVE  /\ m6'[i].file = m6[i].file /\ m6'[i].n = m6[i].n
                 /\ m6'[i].todo \subseteq m6[i].todo /\ i < n + 1
                 /\ \A g \in m6[i].todo : g # f => g \in m6'[i].todo
      OBVIOUS
    <3>1. i < n + 1
      BY <1>c
    <3>2. CASE i = n
      BY <1>c, <2>b, <2>g, <2>h, <3>1, <3>2
    <3>3. CASE i # n
      BY <2>g, <2>h, <3>1, <3>3
    <3> QED BY <3>2, <3>3
  <2>l. Ftw!Top' = top
    BY <2>h DEF Ftw!Top
  <2>m. \A i \in 1..n : m6[i].file \in Ftw!File /\ m6[i].file < f
    <3> SUFFICES ASSUME NEW i \in 1..n PROVE m6[i].file \in Ftw!File /\ m6[i].file < f
      OBVIOUS
    <3>1. m6[i].file \in Ftw!File
      BY <1>c DEF Ftw!Frames
    <3>2. CASE i = n
      BY <1>c, <2>a, <3>1, <3>2
    <3>3. CASE i # n
      <4>1. i < n
        BY <1>c, <3>3
      <4>2. m6[i].file < t
        BY <1>c, <2>i, <4>1 DEF Ftw!IInv, Ftw!StackOK
      <4>3. t < f /\ t \in Nat /\ f \in Nat /\ m6[i].file \in Nat
        BY <1>c, <2>a, <3>1
      <4> QED BY <3>1, <4>2, <4>3
    <3> QED BY <3>2, <3>3
  <2>1. m10' \in [Ftw!File -> Nat] /\ m10'[f] = m10[t] + 1 + m3[f]
        /\ \A g \in Ftw!File : g # f => m10'[g] = m10[g]
    <3>1. m10[t] + 1 + m3[f] \in Nat
      BY <1>d, <2>e
    <3> QED BY <1>2, <2>a, <2>f, <3>1
  <2>2. m5' \in Nat /\ m5' < m4 /\ m5' = m10'[f]
    <3>1. m5' = Ftw!Top.n + m3[f]
      BY <1>2
    <3>2. m10'[f] = m10[t] + 1 + m3[f]
      BY <2>1
    <3> QED BY <1>c, <1>d, <2>e, <3>1, <3>2, FtwAssumption
  <2>3. Ftw!TypeOK'
    <3>1. m7' = "call" /\ Len(m6') # 0
      BY <1>2, <2>h, <2>j
    <3> QED BY <1>b, <2>1, <2>2, <2>f, <2>h, <3>1 DEF Ftw!IInv, Ftw!TypeOK
  <2>4. Ftw!StackOK'
    <3> SUFFICES ASSUME NEW i \in 1..n + 1
        PROVE  /\ m6'[i].todo \subseteq {g \in Ftw!File : g # 1 /\ m1'[g] = m6'[i].file}
               /\ \A g \in m6'[i].todo : m8'[g] = <<>>
               /\ i = 1 => m6'[i].file = 1
               /\ i > 1 => /\ m6'[i].file # 1 /\ m1'[m6'[i].file] = m6'[i - 1].file
                           /\ m6'[i].file \notin m6'[i - 1].todo
               /\ \A j \in 1..n + 1 : i < j => m6'[i].file < m6'[j].file
      BY <2>f, <2>h DEF Ftw!StackOK, Ftw!Below
    <3>1. CASE i = n + 1
      <4>1. m6'[i] = top /\ i # 1 /\ i - 1 = n
        BY <1>c, <2>h, <3>1
      <4>2. m6'[n].file = t /\ f \notin m6'[n].todo
        BY <1>c, <2>b, <2>g, <2>h
      <4>3. \A j \in 1..n + 1 : ~ (i < j)
        BY <1>c, <3>1
      <4> QED BY <1>b, <2>a, <2>c, <4>1, <4>2, <4>3
    <3>2. CASE i \in 1..n
      <4>1. /\ m6[i].todo \subseteq Ftw!Below(m6[i].file) /\ \A g \in m6[i].todo : m8[g] = <<>>
            /\ i = 1 => m6[i].file = 1
            /\ i > 1 => /\ m6[i].file # 1 /\ m1[m6[i].file] = m6[i - 1].file
                        /\ m6[i].file \notin m6[i - 1].todo
            /\ \A j \in 1..n : i < j => m6[i].file < m6[j].file
        BY <2>i, <3>2 DEF Ftw!IInv, Ftw!StackOK
      <4>2. m6'[i].todo \subseteq {g \in Ftw!File : g # 1 /\ m1'[g] = m6'[i].file}
        BY <1>b, <2>k, <3>2, <4>1 DEF Ftw!Below
      <4>3. \A g \in m6'[i].todo : m8'[g] = <<>>
        BY <1>b, <2>k, <3>2, <4>1
      <4>4. i > 1 => i - 1 \in 1..n
        BY <1>c, <3>2
      <4>5. i > 1 => /\ m6'[i].file # 1 /\ m1'[m6'[i].file] = m6'[i - 1].file
                     /\ m6'[i].file \notin m6'[i - 1].todo
        BY <1>b, <2>k, <3>2, <4>1, <4>4
      <4>6. ASSUME NEW j \in 1..n + 1, i < j PROVE m6'[i].file < m6'[j].file
        <5>1. CASE j = n + 1
          BY <2>c, <2>h, <2>k, <2>m, <3>2, <5>1
        <5>2. CASE j \in 1..n
          BY <2>k, <3>2, <4>1, <4>6, <5>2
        <5> QED BY <2>j, <5>1, <5>2
      <4>7. m6'[i].file = m6[i].file
        BY <2>k, <3>2
      <4> QED BY <4>1, <4>2, <4>3, <4>5, <4>6, <4>7
    <3> QED BY <2>j, <3>1, <3>2
  <2>5. Ftw!VisitOK'
    <3>1. \A g \in Ftw!File : Ftw!Reached(g)' <=> Ftw!Reached(g)
      BY <1>b DEF Ftw!Reached
    <3>2. \A g \in Ftw!File : Ftw!Waiting(g) => Ftw!Waiting(g)'
      <4> SUFFICES ASSUME NEW g \in Ftw!File, Ftw!Waiting(g) PROVE Ftw!Waiting(g)'
        OBVIOUS
      <4>1. PICK i \in 1..n : g \in m6[i].todo
        BY <1>a, <2>i DEF Ftw!Waiting
      <4>2. CASE g = f
        <5>1. m7' = "call" /\ g = Ftw!Top'.file
          BY <1>2, <2>c, <2>l, <4>2
        <5> QED BY <5>1 DEF Ftw!Waiting
      <4>3. CASE g # f
        <5>1. g \in m6'[i].todo /\ i \in 1..n + 1
          BY <1>c, <2>k, <4>1, <4>3
        <5>2. \E j \in 1..Len(m6') : g \in m6'[j].todo
          BY <2>h, <5>1
        <5> QED BY <5>2 DEF Ftw!Waiting
      <4> QED BY <4>2, <4>3
    <3>3. ASSUME NEW i \in 1..n + 1, i < n + 1 PROVE m8'[m6'[i].file] = <<"FTW_D">>
      <4>1. i \in 1..n
        BY <2>j, <3>3
      <4>2. m8[m6[i].file] = <<"FTW_D">>
        BY <1>a, <2>i, <4>1 DEF Ftw!IInv, Ftw!VisitOK
      <4> QED BY <1>b, <2>k, <4>1, <4>2
    <3>4. \A g \in Ftw!File : m8'[g] # <<>> => Ftw!Reached(g)'
      BY <1>b, <3>1 DEF Ftw!IInv, Ftw!VisitOK
    <3>5. \A g \in Ftw!File : Ftw!Reached(g)' /\ m8'[g] = <<>> => Ftw!Waiting(g)'
      BY <1>b, <3>1, <3>2 DEF Ftw!IInv, Ftw!VisitOK
    <3>6. m7' = "call" /\ Ftw!Top'.todo = {} /\ m8'[Ftw!Top'.file] = <<>>
      BY <1>2, <1>b, <2>a, <2>c, <2>l
    <3>7. \A i \in 1..Len(m6') : i < Len(m6') \/ m7' # "call" => m8'[m6'[i].file] = <<"FTW_D">>
      BY <2>h, <3>3, <3>6
    <3> QED BY <2>f, <3>4, <3>5, <3>6, <3>7 DEF Ftw!VisitOK
  <2>6. Ftw!BufferOK'
    <3>1. ASSUME NEW i \in 1..n PROVE m6'[i].n + NAME_MAX < m4 /\ m6'[i].n = m10'[m6'[i].file] + 1
      <4>1. m6[i].n + NAME_MAX < m4 /\ m6[i].n = m10[m6[i].file] + 1
        BY <1>a, <2>i DEF Ftw!IInv, Ftw!BufferOK
      <4>2. m6[i].file # f /\ m6[i].file \in Ftw!File
        <5>1. m6[i].file \in Ftw!File /\ m6[i].file < f
          BY <2>m
        <5>2. m6[i].file \in Nat /\ f \in Nat
          BY <1>c, <2>a, <5>1
        <5> QED BY <5>1, <5>2
      <4> QED BY <2>1, <2>k, <4>1, <4>2
    <3>2. 0 + NAME_MAX < m4
      BY FtwAssumption DEF Ftw!IInv, Ftw!BufferOK
    <3>3. ASSUME NEW i \in 1..n + 1 PROVE m6'[i].n + NAME_MAX < m4
      <4>1. CASE i = n + 1
        BY <2>c, <2>h, <3>2, <4>1
      <4> QED BY <2>j, <3>1, <4>1
    <3>4. ASSUME NEW i \in 1..n + 1, i < n + 1 PROVE m6'[i].n = m10'[m6'[i].file] + 1
      <4>1. i \in 1..n
        BY <2>j, <3>4
      <4> QED BY <3>1, <4>1
    <3>5. m7' = "call" /\ m5' = m10'[Ftw!Top'.file]
      BY <1>2, <2>2, <2>c, <2>l
    <3>6. NAME_MAX < m4
      BY DEF Ftw!IInv, Ftw!BufferOK
    <3>7. \A i \in 1..Len(m6') : i < Len(m6') \/ m7' \in {"open", "loop"} => m6'[i].n = m10'[m6'[i].file] + 1
      BY <2>h, <3>4, <3>5
    <3>8. \A i \in 1..Len(m6') : m6'[i].n + NAME_MAX < m4'
      BY <1>b, <2>h, <3>3
    <3> QED BY <1>b, <2>2, <3>5, <3>6, <3>7, <3>8 DEF Ftw!BufferOK
  <2> QED BY <2>3, <2>4, <2>5, <2>6 DEF Ftw!IInv
<1> QED BY <1>1, <1>2 DEF Ftw!readdir, Ftw!NameAt

LEMMA FtwStep == Ftw!IInv /\ [Ftw!Next]_(Ftw!vars) => Ftw!IInv'
<1> SUFFICES ASSUME Ftw!IInv, [Ftw!Next]_(Ftw!vars) PROVE Ftw!IInv'
  OBVIOUS
<1>1. CASE UNCHANGED Ftw!vars
  <2>1. Ftw!File' = Ftw!File /\ Ftw!Top' = Ftw!Top /\ Ftw!Frames' = Ftw!Frames /\ Ftw!Reports' = Ftw!Reports
    BY <1>1 DEF Ftw!vars, Ftw!File, Ftw!Top, Ftw!Frames, Ftw!Reports
  <2>2. \A f : Ftw!Reached(f)' <=> Ftw!Reached(f)
    BY <1>1 DEF Ftw!vars, Ftw!Reached
  <2>3. \A f : Ftw!Waiting(f)' <=> Ftw!Waiting(f)
    BY <1>1 DEF Ftw!vars, Ftw!Waiting, Ftw!Top, Ftw!Below, Ftw!File
  <2>4. Ftw!TypeOK'
    BY <1>1, <2>1 DEF Ftw!vars, Ftw!IInv, Ftw!TypeOK
  <2>5. Ftw!StackOK'
    BY <1>1 DEF Ftw!vars, Ftw!IInv, Ftw!StackOK, Ftw!Below, Ftw!File
  <2>6. Ftw!BufferOK'
    BY <1>1, <2>1 DEF Ftw!vars, Ftw!IInv, Ftw!BufferOK
  <2>7. Ftw!Below(Ftw!Top.file)' = Ftw!Below(Ftw!Top.file)
    BY <1>1 DEF Ftw!vars, Ftw!Below, Ftw!File, Ftw!Top
  <2>8. Ftw!VisitOK'
    BY <1>1, <2>1, <2>2, <2>3, <2>7 DEF Ftw!vars, Ftw!IInv, Ftw!VisitOK
  <2> QED BY <2>4, <2>5, <2>6, <2>8 DEF Ftw!IInv
<1> QED BY <1>1, FtwLstat, FtwGrow, FtwOpendir, FtwReaddir DEF Ftw!Next, Ftw!Done

LEMMA FtwProps == Ftw!IInv => Ftw!WalkRight
<1> SUFFICES ASSUME Ftw!IInv PROVE Ftw!WalkRight
  OBVIOUS
<1>1. m5 < m4
  BY DEF Ftw!IInv, Ftw!BufferOK
<1>2. m7 = "open" => m5 + NAME_MAX < m4
  <2> SUFFICES ASSUME m7 = "open" PROVE m5 + NAME_MAX < m4
    OBVIOUS
  <2>1. Ftw!Top = m6[Len(m6)] /\ Len(m6) \in 1..Len(m6)
    BY FtwTop
  <2> QED BY <2>1 DEF Ftw!IInv, Ftw!BufferOK
<1>3. m7 = "call" => m5 = m10[Ftw!Top.file]
  BY DEF Ftw!IInv, Ftw!BufferOK
<1>4. ASSUME m7 = "done" PROVE \A f \in Ftw!File : Ftw!Reached(f) <=> m8[f] # <<>>
  <2>1. Len(m6) = 0
    BY <1>4 DEF Ftw!IInv, Ftw!TypeOK
  <2>2. 1..Len(m6) = {}
    BY <2>1
  <2>3. \A f \in Ftw!File : ~ Ftw!Waiting(f)
    BY <1>4, <2>2 DEF Ftw!Waiting
  <2> QED BY <2>3 DEF Ftw!IInv, Ftw!VisitOK
<1>5. \A f \in Ftw!File : Len(m8[f]) <= 1 \/ m8[f] = <<"FTW_D", "FTW_DNR">>
  <2>1. \A f \in Ftw!File : m8[f] \in Ftw!Reports
    BY DEF Ftw!IInv, Ftw!TypeOK
  <2>2. \A r \in Ftw!Reports : Len(r) <= 1 \/ r = <<"FTW_D", "FTW_DNR">>
    <3> SUFFICES ASSUME NEW r \in Ftw!Reports PROVE Len(r) <= 1 \/ r = <<"FTW_D", "FTW_DNR">>
      OBVIOUS
    <3>1. r = <<>> => Len(r) = 0
      OBVIOUS
    <3>2. \A x : r = <<x>> => Len(r) = 1
      OBVIOUS
    <3>3. r = <<>> \/ (\E x : r = <<x>>) \/ r = <<"FTW_D", "FTW_DNR">>
      BY Zenon DEF Ftw!Reports
    <3> QED BY <3>1, <3>2, <3>3
  <2> QED BY <2>1, <2>2
<1> QED BY <1>1, <1>2, <1>3, <1>4, <1>5 DEF Ftw!WalkRight
=============================================================================
