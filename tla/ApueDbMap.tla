----------------------------- MODULE ApueDbMap -----------------------------
(***************************************************************************)
(* The library is an atomic map, for any number of processes, chains, keys *)
(* and records: every system call of ApueDb is a step of KVStore or none.  *)
(***************************************************************************)
EXTENDS ApueDbProofs

(***************************************************************************)
(* The inductive invariant.  No two records share their data; data that is *)
(* appended belongs to no record yet; a record that was not deleted has    *)
(* data unless its deletion has begun; and the result of a call is pending *)
(* until the call takes effect.                                            *)
(***************************************************************************)
NewDatPC == {"ap_dunlock", "ap_ilock", "ap_idx"}
BlankedPC == {"del_free", "del_idx"}
AppendPC == {"ap_dlock", "ap_dat"} \cup NewDatPC

DataApart ==
  \A s, t \in Allocated : rec[s].datoff = rec[t].datoff => s = t

NewApart(p) ==
  pc[p] \in NewDatPC =>
    /\ \A s \in Allocated : rec[s].datoff # db[p].datoff
    /\ \A q \in Proc \ {p} : pc[q] \in NewDatPC => db[q].datoff # db[p].datoff

IOwn == DataApart /\ \A p \in Proc : NewApart(p)

\* The new data is in place when the index record is written, and the old
\* data is blank until a deleted record loses its key.
Fresh(p) ==
  /\ pc[p] \in NewDatPC \cup {"ru_idx"} => dat[db[p].datoff].val = call[p].data
  /\ pc[p] \in BlankedPC => dat[db[p].datoff].val = Blank

\* The record a scan is about to return is still there.
Scans(p) ==
  pc[p] = "nx_dat" => db[p].key \in Key /\ rec[db[p].idxoff].key = db[p].key

Filled ==
  \A s \in Allocated :
    rec[s].key # Blank =>
      \/ dat[rec[s].datoff].val # Blank
      \/ \E p \in Proc : pc[p] \in BlankedPC /\ db[p].idxoff = s

WaitPC == {"idle", "lock", "head", "hdr", "body", "dat", "del_lock", "del_dat",
           "rw_dat", "st_head", "ru_dat", "ru_idx"} \cup FreePC
            \cup (NextPC \ {"nx_unlock"})
DonePC == {"del_free", "del_idx", "del_head", "del_link", "del_unlock",
           "re_head", "ap_iunlock", "st_link"}

RetAt(p) ==
  /\ pc[p] \in WaitPC => ret[p] = Pending
  /\ pc[p] \in DonePC => ret[p] = Res("0")
  /\ pc[p] \in AppendPC => ret[p] \in {Pending, Res("0")}
  /\ pc[p] \in {"unlock", "nx_unlock"} => ret[p] # Pending

FlagAt(p) ==
  /\ pc[p] \in FreePC \cup {"st_head", "ru_dat", "ru_idx"} => call[p].flag # "replace"
  /\ pc[p] \in AppendPC /\ ret[p] = Pending => call[p].flag # "replace"
  /\ pc[p] \in DelPC \cup {"rw_dat"} => call[p].flag # "insert"

MapAt(p) == Fresh(p) /\ Scans(p) /\ RetAt(p) /\ FlagAt(p)

IMap == IOwn /\ Filled /\ \A p \in Proc : MapAt(p)

-----------------------------------------------------------------------------
(* Records keep their data to themselves.                                  *)

LEMMA OwnFrame ==
  ASSUME IOwn, Grows, Allocated' = Allocated,
         \A q \in Proc : pc'[q] \in NewDatPC =>
           pc[q] \in NewDatPC /\ db'[q].datoff = db[q].datoff
  PROVE  IOwn'
<1>1. DataApart'
  BY DEF IOwn, DataApart, Grows
<1>2. ASSUME NEW p \in Proc PROVE NewApart(p)'
  BY DEF IOwn, NewApart, Grows
<1> QED BY <1>1, <1>2 DEF IOwn

\* A step that appends nothing.
LEMMA OwnKept ==
  ASSUME IFormat, NEW p \in Proc,
         \/ Step(p) /\ ~AppDat(p) /\ ~AppIdx(p)
         \/ (\E e \in Calls : Call(p, e)) \/ db_rewind(p) \/ Crash(p)
  PROVE  /\ Allocated' = Allocated
         /\ \A q \in Proc : pc'[q] \in NewDatPC =>
              pc[q] \in NewDatPC /\ db'[q].datoff = db[q].datoff
<1>0. /\ db \in [Proc -> Handle] /\ db[p] \in Handle /\ pc \in [Proc -> PC]
  BY DEF IFormat, IType, TypeOK
<1> USE <1>0 DEF Goto, files, locks, NewDatPC, Allocated
<1>1. CASE LockChain(p) \/ DelLock(p) \/ DelDat(p) \/ DelFree(p) \/ DelIdx(p) \/ DelHead(p)
  BY <1>1 DEF LockChain, DelLock, DelDat, DelFree, DelIdx, DelHead
<1>2. CASE DelLink(p) \/ DelUnlock(p) \/ StoreHead(p) \/ FreeLock(p) \/ FreeHead(p)
  BY <1>2 DEF DelLink, DelUnlock, StoreHead, FreeLock, FreeHead
<1>3. CASE FreeTake(p) \/ FreeUnlock(p) \/ AppDatLock(p) \/ AppDatUnlock(p) \/ AppIdxLock(p)
  BY <1>3 DEF FreeTake, FreeUnlock, AppDatLock, AppDatUnlock, AppIdxLock
<1>4. CASE AppIdxUnlock(p) \/ ReuseDat(p) \/ ReuseIdx(p) \/ RewriteDat(p) \/ NextLock(p)
  BY <1>4 DEF AppIdxUnlock, ReuseDat, ReuseIdx, RewriteDat, NextLock
<1>5. CASE ReadHead(p) \/ ReadHdr(p) \/ ReadDat(p)
  BY <1>5 DEF ReadHead, NotFound, ReadHdr, ReadDat, Gone
<1>6. CASE ReadBody(p)
  BY <1>6 DEF ReadBody, NotFound, Found, Gone
<1>7. CASE FreeBody(p) \/ NextHdr(p) \/ NextBody(p)
  BY <1>7 DEF FreeBody, NextHdr, NextBody, Gone
<1>8. CASE StoreLink(p) \/ Return(p) \/ Crash(p)
  BY <1>8 DEF StoreLink, Return, Crash, Gone
<1>9. CASE (\E e \in Calls : Call(p, e)) \/ db_rewind(p)
  BY <1>9 DEF Call, db_rewind
<1> QED BY <1>1, <1>2, <1>3, <1>4, <1>5, <1>6, <1>7, <1>8, <1>9 DEF Step

LEMMA OwnAppDat ==
  ASSUME IFormat, IOwn, Grows, NEW p \in Proc, AppDat(p)
  PROVE  IOwn'
<1>0. /\ db \in [Proc -> Handle] /\ db[p] \in Handle /\ pc \in [Proc -> PC]
      /\ dat \in Seq(DatRec) /\ Len(dat) \in Nat
  BY DEF IFormat, IType, TypeOK
<1>1. /\ Allocated' = Allocated /\ rec' = rec /\ db'[p].datoff = Len(dat) + 1
      /\ \A q \in Proc \ {p} : pc'[q] = pc[q] /\ db'[q] = db[q]
      /\ pc[p] = "ap_dat" /\ pc'[p] = "ap_dunlock"
  BY <1>0 DEF AppDat, Goto, Allocated, Handle
<1>2. DataApart'
  BY <1>1 DEF IOwn, DataApart
<1>3. \A s \in Allocated : rec[s].datoff # Len(dat) + 1
  BY <1>0 DEF IFormat, DatOK
<1>4. \A q \in Proc : pc[q] \in NewDatPC => db[q].datoff # Len(dat) + 1
  BY <1>0 DEF IFormat, HandlesOK, HandleOK, NewDatPC
<1>5. ASSUME NEW q \in Proc PROVE NewApart(q)'
  BY <1>1, <1>3, <1>4 DEF IOwn, NewApart, NewDatPC
<1> QED BY <1>2, <1>5 DEF IOwn

LEMMA OwnAppIdx ==
  ASSUME IFormat, IOwn, Grows, NEW p \in Proc, AppIdx(p)
  PROVE  IOwn'
<1>0. /\ db \in [Proc -> Handle] /\ db[p] \in Handle /\ pc \in [Proc -> PC]
      /\ rec \in [RecOff -> Slot] /\ idxEnd \in FirstRec .. MaxOff + 1
      /\ idxEnd <= MaxOff /\ pc[p] = "ap_idx"
  BY DEF IFormat, IType, TypeOK, AppIdx
<1>x. PICK x : x = idxEnd
  OBVIOUS
<1>1. x \in RecOff /\ x \notin Allocated /\ x \in Nat
  BY <1>0, <1>x, DbConst DEF RecOff, FirstRec, Allocated
<1>2. Allocated' = Allocated \cup {x}
  <2>1. idxEnd' = x + 1
    BY <1>x DEF AppIdx
  <2>2. \A s \in RecOff : s < x + 1 <=> s < x \/ s = x
    BY <1>1, DbConst DEF RecOff, FirstRec
  <2> QED BY <1>1, <1>x, <2>1, <2>2 DEF Allocated
<1>3. /\ \A s \in Allocated : rec'[s] = rec[s]
      /\ rec'[x].datoff = db[p].datoff
      /\ \A q \in Proc \ {p} : pc'[q] = pc[q] /\ db'[q] = db[q]
      /\ pc'[p] = "ap_iunlock"
  BY <1>0, <1>1, <1>x DEF AppIdx, Goto, NewSlot, Allocated
<1>4. \A s \in Allocated : rec[s].datoff # db[p].datoff
  BY <1>0 DEF IOwn, NewApart, NewDatPC
<1>5. DataApart'
  BY <1>2, <1>3, <1>4 DEF IOwn, DataApart
<1>6. ASSUME NEW q \in Proc PROVE NewApart(q)'
  <2> SUFFICES ASSUME pc'[q] \in NewDatPC
               PROVE  /\ \A s \in Allocated' : rec'[s].datoff # db'[q].datoff
                      /\ \A t \in Proc \ {q} : pc'[t] \in NewDatPC =>
                           db'[t].datoff # db'[q].datoff
    BY DEF NewApart
  <2>1. q # p /\ pc[q] \in NewDatPC /\ pc[p] \in NewDatPC
    BY <1>0, <1>3 DEF NewDatPC
  <2>2. /\ \A s \in Allocated : rec[s].datoff # db[q].datoff
        /\ \A t \in Proc \ {q} : pc[t] \in NewDatPC => db[t].datoff # db[q].datoff
    BY <2>1 DEF IOwn, NewApart
  <2>3. \A t \in Proc : pc'[t] \in NewDatPC => t # p
    BY <1>3 DEF NewDatPC
  <2> QED BY <1>2, <1>3, <2>1, <2>2, <2>3
<1> QED BY <1>5, <1>6 DEF IOwn

LEMMA OwnNext == Rewinds /\ IFormat /\ IOwn /\ [Next]_vars => IOwn'
<1> SUFFICES ASSUME Rewinds, IFormat, IOwn, [Next]_vars PROVE IOwn'
  OBVIOUS
<1>1. IFormat' /\ Grows
  BY FormatNext
<1>2. CASE UNCHANGED vars
  BY <1>2 DEF vars, IOwn, DataApart, NewApart, Allocated
<1>3. CASE Next
  <2>1. PICK p \in Proc : Step(p) \/ (\E e \in Calls : Call(p, e)) \/ db_rewind(p) \/ Crash(p)
    BY <1>3 DEF Next
  <2>2. CASE AppDat(p)
    BY <1>1, <2>2, OwnAppDat
  <2>3. CASE AppIdx(p)
    BY <1>1, <2>3, OwnAppIdx
  <2>4. CASE ~AppDat(p) /\ ~AppIdx(p)
    <3>1. /\ Allocated' = Allocated
          /\ \A q \in Proc : pc'[q] \in NewDatPC =>
               pc[q] \in NewDatPC /\ db'[q].datoff = db[q].datoff
      BY <2>1, <2>4, OwnKept
    <3> QED BY <1>1, <3>1, OwnFrame
  <2> QED BY <2>2, <2>3, <2>4
<1> QED BY <1>2, <1>3

LEMMA OwnInit == Init => IOwn
<1> SUFFICES ASSUME Init PROVE IOwn
  OBVIOUS
<1>1. Allocated = {}
  BY FormatInit, DbConst DEF Init, Allocated, RecOff, FirstRec
<1> QED BY <1>1 DEF Init, IOwn, DataApart, NewApart, NewDatPC

-----------------------------------------------------------------------------
(* What a step may do to the records that are in the index.                *)

TouchPC == {"del_dat", "rw_dat", "del_idx", "ru_dat", "ru_idx"}

\* The steps that write records or data.
Writes(p) ==
  \/ DelDat(p) \/ RewriteDat(p) \/ ReuseDat(p) \/ DelIdx(p) \/ ReuseIdx(p)
  \/ AppIdx(p) \/ AppDat(p)

Acts(p) == Step(p) \/ (\E e \in Calls : Call(p, e)) \/ db_rewind(p) \/ Crash(p)

LEMMA IndexStep ==
  ASSUME NEW p, Acts(p) PROVE Writes(p) \/ UNCHANGED <<rec, idxEnd, dat>>
<1>1. ASSUME \/ LockChain(p) \/ DelLock(p) \/ DelFree(p) \/ DelHead(p) \/ DelLink(p)
             \/ DelUnlock(p) \/ StoreHead(p) \/ FreeLock(p) \/ FreeHead(p)
             \/ FreeTake(p) \/ FreeUnlock(p) \/ AppDatLock(p) \/ AppDatUnlock(p)
             \/ AppIdxLock(p) \/ AppIdxUnlock(p) \/ NextLock(p) \/ ReadHead(p)
      PROVE  UNCHANGED <<rec, idxEnd, dat>>
  BY <1>1 DEF LockChain, DelLock, DelFree, DelHead, DelLink, DelUnlock, StoreHead,
     FreeLock, FreeHead, FreeTake, FreeUnlock, AppDatLock, AppDatUnlock, AppIdxLock,
     AppIdxUnlock, NextLock, ReadHead, files
<1>2. ASSUME \/ ReadHdr(p) \/ ReadDat(p) \/ ReadBody(p) \/ FreeBody(p) \/ NextHdr(p)
             \/ NextBody(p) \/ StoreLink(p) \/ Return(p) \/ Crash(p)
             \/ (\E e \in Calls : Call(p, e)) \/ db_rewind(p)
      PROVE  UNCHANGED <<rec, idxEnd, dat>>
  BY <1>2 DEF ReadHdr, ReadDat, ReadBody, FreeBody, NextHdr, NextBody, StoreLink,
     Return, Crash, Call, db_rewind, Gone, files
<1> QED BY <1>1, <1>2 DEF Acts, Step, Writes

\* A record that p does not touch.
Spared(p, s) == pc[p] \in TouchPC => s # db[p].idxoff

LEMMA TouchStep ==
  ASSUME IFormat, IOwn, NEW p \in Proc, Acts(p), NEW s \in Allocated, Spared(p, s)
  PROVE  /\ rec'[s].key = rec[s].key /\ s \in Allocated'
         /\ dat'[rec[s].datoff].val = dat[rec[s].datoff].val
<1>0. /\ db \in [Proc -> Handle] /\ db[p] \in Handle /\ pc \in [Proc -> PC]
      /\ rec \in [RecOff -> Slot] /\ dat \in Seq(DatRec) /\ Len(dat) \in Nat
      /\ idxEnd \in Nat
  BY DbConst DEF IFormat, IType, TypeOK, FirstRec
<1>1. s \in RecOff /\ s # idxEnd /\ rec[s].datoff \in 1 .. Len(dat) /\ s < idxEnd
  <2>1. s \in RecOff /\ s < idxEnd
    BY DEF Allocated
  <2>2. s \in Nat
    BY <2>1, DbConst DEF RecOff, FirstRec
  <2> QED BY <1>0, <2>1, <2>2 DEF IFormat, DatOK
<1>2. ASSUME pc[p] \in TouchPC
      PROVE  /\ db[p].datoff # rec[s].datoff /\ db[p].idxoff # s
             /\ db[p].datoff \in 1 .. Len(dat)
  <2>1. db[p].idxoff \in Allocated /\ db[p].datoff = rec[db[p].idxoff].datoff
    BY <1>2 DEF IFormat, HandlesOK, HandleOK, HasBody, TouchPC, DelPC
  <2>2. db[p].idxoff # s
    BY <1>2 DEF Spared
  <2> QED BY <2>1, <2>2 DEF IOwn, DataApart, IFormat, DatOK
<1>3. CASE DelDat(p)
  BY <1>0, <1>1, <1>2, <1>3 DEF DelDat, TouchPC, Allocated
<1>4. CASE RewriteDat(p)
  BY <1>0, <1>1, <1>2, <1>4 DEF RewriteDat, TouchPC, Allocated
<1>5. CASE ReuseDat(p)
  BY <1>0, <1>1, <1>2, <1>5 DEF ReuseDat, TouchPC, Allocated
<1>6. CASE DelIdx(p)
  BY <1>0, <1>1, <1>2, <1>6 DEF DelIdx, TouchPC, Allocated
<1>7. CASE ReuseIdx(p)
  BY <1>0, <1>1, <1>2, <1>7 DEF ReuseIdx, TouchPC, Allocated
<1>8. CASE AppIdx(p)
  <2>1. rec' = [rec EXCEPT ![idxEnd] = NewSlot(p)] /\ dat' = dat /\ idxEnd' = idxEnd + 1
    BY <1>8 DEF AppIdx
  <2> QED BY <1>0, <1>1, <2>1 DEF Allocated, RecOff, FirstRec
<1>9. CASE AppDat(p)
  <2>1. dat' = Append(dat, NewData(p)) /\ rec' = rec /\ idxEnd' = idxEnd
    BY <1>9 DEF AppDat
  <2>2. dat'[rec[s].datoff] = dat[rec[s].datoff]
    BY <1>0, <1>1, <2>1
  <2> QED BY <2>1, <2>2 DEF Allocated
<1>10. CASE UNCHANGED <<rec, idxEnd, dat>>
  BY <1>10 DEF Allocated
<1> QED BY <1>3, <1>4, <1>5, <1>6, <1>7, <1>8, <1>9, <1>10, IndexStep DEF Writes

\* A record gets no key but that of the call.
LEMMA KeyStep ==
  ASSUME IFormat, NEW p \in Proc, Acts(p), NEW s \in Allocated
  PROVE  /\ rec'[s].key \in {rec[s].key, Blank, call[p].key}
         /\ s \in Allocated' /\ s \in RecOff
<1>0. rec \in [RecOff -> Slot] /\ idxEnd \in Nat /\ s \in RecOff /\ s # idxEnd /\ s < idxEnd
  <2>1. s \in RecOff /\ s < idxEnd
    BY DEF Allocated
  <2>2. s \in Nat /\ idxEnd \in Nat
    BY <2>1, DbConst DEF RecOff, FirstRec, IFormat, IType, TypeOK
  <2> QED BY <2>1, <2>2 DEF IFormat, IType, TypeOK
<1>1. CASE DelDat(p) \/ RewriteDat(p) \/ ReuseDat(p) \/ AppDat(p)
  BY <1>1 DEF DelDat, RewriteDat, ReuseDat, AppDat, Allocated
<1>2. CASE DelIdx(p)
  BY <1>0, <1>2 DEF DelIdx, Allocated
<1>3. CASE ReuseIdx(p)
  BY <1>0, <1>3 DEF ReuseIdx, NewSlot, Allocated
<1>4. CASE AppIdx(p)
  <2>1. rec' = [rec EXCEPT ![idxEnd] = NewSlot(p)] /\ idxEnd' = idxEnd + 1
    BY <1>4 DEF AppIdx
  <2> QED BY <1>0, <2>1 DEF Allocated, RecOff, FirstRec
<1>5. CASE UNCHANGED <<rec, idxEnd, dat>>
  BY <1>0, <1>5 DEF Allocated
<1> QED BY <1>1, <1>2, <1>3, <1>4, <1>5, IndexStep DEF Writes

LEMMA StepMoves ==
  ASSUME IType, NEW p \in Proc, Step(p)
  PROVE  /\ pc'[p] # pc[p] /\ crashes' = crashes
         /\ \A q \in Proc \ {p} : pc'[q] = pc[q] /\ call'[q] = call[q] /\ db'[q] = db[q]
<1>0. /\ pc \in [Proc -> PC] /\ db \in [Proc -> Handle]
      /\ call \in [Proc -> Calls \cup {NoCall}]
  BY DEF IType, TypeOK
<1> USE <1>0 DEF Goto, Gone, files, locks
<1>1. CASE ReadHead(p) \/ ReadHdr(p)
  BY <1>1 DEF ReadHead, ReadHdr, NotFound, Found
<1>2. CASE ReadBody(p)
  BY <1>2 DEF ReadBody, NotFound, Found
<1>3. CASE ReadDat(p) \/ Return(p)
  BY <1>3 DEF ReadDat, Return
<1>4. CASE FreeBody(p) \/ FreeHead(p)
  BY <1>4 DEF FreeBody, FreeHead
<1>5. CASE NextLock(p) \/ NextHdr(p) \/ NextBody(p)
  BY <1>5 DEF NextLock, NextHdr, NextBody
<1>6. CASE LockChain(p) \/ DelLock(p) \/ DelDat(p) \/ DelFree(p) \/ DelIdx(p) \/ DelHead(p)
  BY <1>6 DEF LockChain, DelLock, DelDat, DelFree, DelIdx, DelHead
<1>7. CASE DelLink(p) \/ DelUnlock(p) \/ StoreHead(p) \/ FreeLock(p) \/ FreeTake(p) \/ FreeUnlock(p)
  BY <1>7 DEF DelLink, DelUnlock, StoreHead, FreeLock, FreeTake, FreeUnlock
<1>8. CASE AppDatLock(p) \/ AppDat(p) \/ AppDatUnlock(p) \/ AppIdxLock(p) \/ AppIdx(p) \/ AppIdxUnlock(p)
  BY <1>8 DEF AppDatLock, AppDat, AppDatUnlock, AppIdxLock, AppIdx, AppIdxUnlock
<1>9. CASE ReuseDat(p) \/ ReuseIdx(p) \/ RewriteDat(p) \/ StoreLink(p)
  BY <1>9 DEF ReuseDat, ReuseIdx, RewriteDat, StoreLink
<1> QED BY <1>1, <1>2, <1>3, <1>4, <1>5, <1>6, <1>7, <1>8, <1>9 DEF Step

-----------------------------------------------------------------------------
(* What is bound to a key on its chain.                                    *)

ReachIs ==
  IFormat /\ IExcl =>
    \A m, r, f, g, b : ListsOK(m, r, f, g, b) =>
      \A c \in 1 .. NHASH : Reach(c) = m[c]

LEMMA ReachAlways == ReachIs
  BY Members DEF ReachIs

LEMMA ReachNext == ReachIs'
  BY ReachAlways, PTL

LEMMA BindingKept ==
  ASSUME NEW k \in Key, NEW M, NEW M2, Reach(chainoff(k)) = M, Reach(chainoff(k))' = M2,
         \A s : (s \in M /\ rec[s].key = k) <=> (s \in M2 /\ rec'[s].key = k),
         \A s, t \in M : rec[s].key = k /\ rec[t].key = k => s = t,
         \A s \in M : rec[s].key = k => dat'[rec'[s].datoff].val = dat[rec[s].datoff].val
  PROVE  Binding(k)' = Binding(k)
<1>1. CASE \E s \in M : rec[s].key = k
  <2>1. PICK s \in M : rec[s].key = k
    BY <1>1
  <2>2. {t \in Reach(chainoff(k)) : rec[t].key = k} = {s}
    BY <2>1
  <2>3. {t \in Reach(chainoff(k))' : rec'[t].key = k} = {s}
    BY <2>1
  <2>4. (CHOOSE t \in {s} : TRUE) = s
    OBVIOUS
  <2>5. Binding(k) = dat[rec[s].datoff].val
    BY <2>2, <2>4 DEF Binding
  <2>6. Binding(k)' = dat'[rec'[s].datoff].val
    BY <2>3, <2>4 DEF Binding
  <2> QED BY <2>1, <2>5, <2>6
<1>2. CASE ~\E s \in M : rec[s].key = k
  <2>1. {t \in Reach(chainoff(k)) : rec[t].key = k} = {}
    BY <1>2
  <2>2. {t \in Reach(chainoff(k))' : rec'[t].key = k} = {}
    BY <1>2
  <2> QED BY <2>1, <2>2 DEF Binding, Missing
<1> QED BY <1>1, <1>2

LEMMA KillBinding ==
  ASSUME ILists, IFormat', IExcl', CleanKills, NEW p \in Proc, Crash(p), NEW k \in Key
  PROVE  Binding(k)' = Binding(k)
<1>1. PICK m, r, f, g, b : ListsOK(m, r, f, g, b)
  BY DEF ILists
<1>2. ListsOK(m, r, f, g, b)'
  BY <1>1, CrashLists DEF ILists
<1>c. PICK c : c = chainoff(k)
  OBVIOUS
<1>3. c \in 1 .. NHASH
  BY <1>c, DbConst DEF chainoff
<1>4. Reach(c) = m[c] /\ Reach(c)' = m[c]
  BY <1>1, <1>2, <1>3, ReachAlways, ReachNext DEF ReachIs, ILists
<1>5. rec' = rec /\ dat' = dat
  BY DEF Crash, files
<1>6. \A s, t \in m[c] : rec[s].key = k /\ rec[t].key = k => s = t
  BY <1>1, <1>3, DbConst DEF ListsOK, ChainsOK, ChainOK
<1> QED BY <1>c, <1>4, <1>5, <1>6, BindingKept

LEMMA OwnKeyStep ==
  ASSUME ILists, IFormat', IExcl', IOwn, Grows, NEW p \in Proc,
         Step(p) \/ (\E e \in Calls : Call(p, e)) \/ db_rewind(p),
         NEW k \in Key, ~(call[p].key = k /\ call[p].op \in {"delete", "store"})
  PROVE  Binding(k)' = Binding(k)
<1>0. IFormat /\ IExcl
  BY DEF ILists
<1>1. PICK m, r, f, g, b : ListsOK(m, r, f, g, b)
  BY DEF ILists
<1>2. PICK m2, r2, f2, g2, b2 : ListsOK(m2, r2, f2, g2, b2)' /\ Moves(p, m, m2)
  BY <1>0, <1>1, ListsStep
<1>c. PICK c : c = chainoff(k)
  OBVIOUS
<1>3. c \in 1 .. NHASH
  BY <1>c, DbConst DEF chainoff
<1>4. Reach(c) = m[c] /\ Reach(c)' = m2[c]
  BY <1>0, <1>1, <1>2, <1>3, ReachAlways, ReachNext DEF ReachIs
<1>5. \A s, t \in m[c] : rec[s].key = k /\ rec[t].key = k => s = t
  BY <1>1, <1>3, DbConst DEF ListsOK, ChainsOK, ChainOK
<1>6. PlaceOK(p, m, r, f) /\ m[c] \subseteq Allocated /\ Acts(p) /\ k # Blank
  BY <1>1, <1>3, DbConst DEF ListsOK, PlacesOK, ChainsOK, ChainOK, Acts
<1>x. PICK x : x = db[p].idxoff
  OBVIOUS
<1>7. ASSUME pc[p] \in TouchPC \cup UnlinkPC \cup LinkPC
      PROVE  /\ call[p].key # k /\ call[p].key \in Key /\ pc[p] \in ChainPC
             /\ x \in Allocated /\ x \in RecOff
  <2>1. call[p] \in Delete \cup Store /\ pc[p] \in ChainPC
    BY <1>0, <1>7 DEF IExcl, IType, CallOK, CallAt, TouchPC, UnlinkPC, LinkPC, DelPC,
       StorePC, ChainPC
  <2>2. call[p].op \in {"delete", "store"} /\ call[p].key \in Key
    BY <2>1 DEF Delete, Store
  <2>3. x \in Allocated
    BY <1>0, <1>7, <1>x DEF IFormat, HandlesOK, HandleOK, HasBody, TouchPC, UnlinkPC,
       LinkPC, DelPC
  <2> QED BY <2>1, <2>2, <2>3 DEF Allocated
<1>8. ASSUME pc[p] \in TouchPC \cup UnlinkPC \cup LinkPC, rec[x].key = k
      PROVE  FALSE
  <2>d. PICK d : d = chainoff(call[p].key)
    OBVIOUS
  <2>1. AtChain(p, d, m[d], r) /\ AtFree(p, f) /\ Holding(p, m, f)
    BY <1>6, <1>7, <1>8, <2>d DEF PlaceOK
  <2>2. CASE pc[p] \in FoundPC
    BY <1>7, <1>8, <1>x, <2>1, <2>2 DEF AtChain
  <2>3. CASE pc[p] \in UnlinkPC
    BY <1>6, <1>8, <1>x, <2>1, <2>3 DEF AtFree
  <2>4. CASE pc[p] \in LinkPC
    BY <1>7, <1>8, <1>x, <2>1, <2>4 DEF AtChain
  <2>5. CASE pc[p] \in TakenPC
    BY <1>6, <1>8, <1>x, <2>1, <2>5 DEF Holding
  <2> QED BY <1>8, <2>2, <2>3, <2>4, <2>5 DEF TouchPC, FoundPC, TakenPC
\* The records that carry k keep it and their data.
<1>9. ASSUME NEW s \in Allocated, rec[s].key = k
      PROVE  rec'[s].key = k /\ dat'[rec'[s].datoff].val = dat[rec[s].datoff].val
  <2>1. Spared(p, s)
    BY <1>8, <1>9, <1>x DEF Spared
  <2>2. rec'[s].key = rec[s].key /\ dat'[rec[s].datoff].val = dat[rec[s].datoff].val
    BY <1>0, <1>6, <2>1, TouchStep
  <2> QED BY <1>9, <2>2 DEF Grows
\* No record gets the key k.
<1>10. ASSUME NEW s \in Allocated, rec'[s].key = k PROVE rec[s].key = k
  <2>1. rec'[s].key \in {rec[s].key, Blank, call[p].key}
    BY <1>0, <1>6, KeyStep
  <2>2. CASE pc[p] \in TouchPC /\ s = x
    BY <1>6, <1>7, <1>10, <2>1, <2>2
  <2>3. CASE ~(pc[p] \in TouchPC /\ s = x)
    <3>1. Spared(p, s)
      BY <1>x, <2>3 DEF Spared
    <3> QED BY <1>0, <1>6, <1>10, <3>1, TouchStep
  <2> QED BY <2>2, <2>3
<1>11. \A s : (s \in m[c] /\ rec[s].key = k) <=> (s \in m2[c] /\ rec'[s].key = k)
  <2>1. CASE m2[c] = m[c]
    BY <1>6, <1>9, <1>10, <2>1
  <2>2. CASE pc[p] = "del_link" /\ m2[c] = m[c] \ {x}
    <3>1. rec[x].key # k
      BY <1>8, <2>2 DEF UnlinkPC
    <3> QED BY <1>6, <1>9, <1>10, <2>2, <3>1
  <2>3. CASE pc[p] = "st_link" /\ m2[c] = m[c] \cup {x}
    <3>1. rec[x].key # k /\ x \in Allocated
      BY <1>7, <1>8, <2>3 DEF LinkPC
    <3>2. rec'[x].key # k
      BY <1>10, <3>1
    <3> QED BY <1>6, <1>9, <1>10, <2>3, <3>1, <3>2
  <2> QED BY <1>2, <1>3, <1>x, <2>1, <2>2, <2>3 DEF Moves
<1>12. \A s \in m[c] : rec[s].key = k => dat'[rec'[s].datoff].val = dat[rec[s].datoff].val
  BY <1>6, <1>9
<1> QED BY <1>c, <1>4, <1>5, <1>11, <1>12, BindingKept

IBind == ILists /\ IOwn

\* A step changes what is bound to a key only on behalf of a process that
\* was called to change that key, and a kill changes nothing: the writes of
\* db_store and _db_dodelete reach no other record and no other data.
THEOREM KeysKeepToThemselves == Rewinds /\ CleanKills => (Spec => OnlyOwnKey)
<1> SUFFICES ASSUME Rewinds, CleanKills PROVE Spec => OnlyOwnKey
  OBVIOUS
<1>1. Init => IBind
  BY ListsInit, OwnInit DEF IBind
<1>2. IBind /\ [Next]_vars => IBind'
  BY ListsNext, OwnNext DEF IBind, ILists
<1>3. IBind /\ [Next]_vars =>
        [\A k \in Key : Binding(k)' # Binding(k) =>
           \E p \in Proc : /\ call[p].key = k
                           /\ call[p].op \in {"delete", "store"}
                           /\ pc'[p] # pc[p]
                           /\ crashes' = crashes]_vars
  <2> SUFFICES ASSUME IBind, Next, NEW k \in Key, Binding(k)' # Binding(k)
               PROVE  \E p \in Proc : /\ call[p].key = k
                                      /\ call[p].op \in {"delete", "store"}
                                      /\ pc'[p] # pc[p]
                                      /\ crashes' = crashes
    OBVIOUS
  <2>0. ILists /\ IFormat /\ IExcl /\ IOwn /\ IFormat' /\ IExcl' /\ Grows
    BY FormatNext, ExclNext DEF IBind, ILists
  <2>1. PICK p \in Proc : Step(p) \/ (\E e \in Calls : Call(p, e)) \/ db_rewind(p) \/ Crash(p)
    BY DEF Next
  <2>2. ~Crash(p)
    BY <2>0, KillBinding
  <2>3. call[p].key = k /\ call[p].op \in {"delete", "store"}
    BY <2>0, <2>1, <2>2, OwnKeyStep
  <2>4. Step(p)
    <3>1. pc[p] # "idle"
      BY <2>0, <2>3 DEF IExcl, IType, CallOK, CallAt, NoCall
    <3> QED BY <2>1, <2>2, <3>1 DEF Call, db_rewind
  <2>5. pc'[p] # pc[p] /\ crashes' = crashes
    BY <2>0, <2>4, StepMoves DEF IExcl
  <2> QED BY <2>3, <2>5
<1> QED BY <1>1, <1>2, <1>3, PTL DEF Spec, OnlyOwnKey

-----------------------------------------------------------------------------
(* What the lists say of the keys while nobody is killed and every offset  *)
(* fits a pointer field.                                                   *)

Once == \A k \in Key : \A s, t \in Live(k) : s = t

KeyAt(p) ==
  LET h == db[p]
      k == call[p].key
  IN
  /\ pc[p] \in FoundPC \cup LinkPC => h.idxoff \in Live(k)
  /\ pc[p] \in AbsentPC \ LinkPC => Live(k) = {}
  /\ pc[p] \in TakenPC => rec[h.idxoff].key = Blank
  /\ pc[p] = "head" /\ ptr[h.ptroff] = 0 => Live(k) = {}
  /\ pc[p] = "body" /\ rec[h.idxoff].key # k /\ h.ptrval = 0 => Live(k) = {}

View == Once /\ Apart /\ \A p \in Proc : KeyAt(p)

\* A record with the key k is on its chain or in the hands of its writer.
LEMMA LiveOn ==
  ASSUME IFormat, IExcl, crashes = 0, MaxOff <= PTR_MAX, NEW m, NEW r, NEW f, NEW g, NEW b,
         ListsOK(m, r, f, g, b), NEW k \in Key, NEW s \in Live(k)
  PROVE  \/ s \in m[chainoff(k)]
         \/ \E p \in Proc : /\ pc[p] \in LinkPC /\ db[p].idxoff = s /\ call[p].key = k
                            /\ pc[p] \in ChainPC /\ call[p].op # "fetch"
<1>1. s \in Allocated /\ s \in RecOff /\ rec[s].key = k /\ k # Blank
  BY DbConst DEF Live, Allocated
<1>2. s <= PTR_MAX
  BY <1>1, DbConst DEF RecOff, FirstRec
<1>3. ASSUME NEW p \in Proc, pc[p] \in LinkPC, db[p].idxoff = s
      PROVE  call[p].key = k /\ pc[p] \in ChainPC /\ call[p].op # "fetch"
  <2>1. pc[p] \in ChainPC /\ call[p].op # "fetch" /\ call[p].key \in Key
    BY <1>3, OneWriter DEF LinkPC, StorePC
  <2>2. PlacesOK(m, r, f)
    BY DEF ListsOK
  <2>3. rec[db[p].idxoff].key = call[p].key
    BY <1>3, <2>1, <2>2, OthersHold
  <2> QED BY <1>1, <1>3, <2>1, <2>3
<1> QED BY <1>1, <1>2, <1>3 DEF ListsOK, Complete

LEMMA OnceHolds ==
  ASSUME IFormat, IExcl, crashes = 0, MaxOff <= PTR_MAX, NEW m, NEW r, NEW f, NEW g, NEW b,
         ListsOK(m, r, f, g, b)
  PROVE  Once
<1>1. UniqueKey
  BY ExactHolds DEF ILists
<1>2. \A s \in RecOff : s <= PTR_MAX
  BY DbConst DEF RecOff, FirstRec
<1> QED BY <1>1, <1>2 DEF Once, UniqueKey, Live, Allocated

\* A process of the chain sees no record in the hands of another writer.
LEMMA KeyHolds ==
  ASSUME IFormat, IExcl, crashes = 0, MaxOff <= PTR_MAX, NEW m, NEW r, NEW f, NEW g, NEW b,
         ListsOK(m, r, f, g, b), NEW p \in Proc
  PROVE  KeyAt(p)
<1>0. PlaceOK(p, m, r, f) /\ ChainsOK(m, r)
  BY DEF ListsOK, PlacesOK
<1>1. pc[p] \in TakenPC => rec[db[p].idxoff].key = Blank
  BY <1>0 DEF PlaceOK, Holding
<1>2. CASE pc[p] \notin ChainPC
  BY <1>1, <1>2 DEF KeyAt, FoundPC, LinkPC, AbsentPC, ChainPC, FindPC, DelPC, FreePC, StorePC
<1>3. CASE pc[p] \in ChainPC
  <2>k. PICK k : k = call[p].key
    OBVIOUS
  <2>c. PICK c : c = chainoff(k)
    OBVIOUS
  <2>1. k \in Key /\ c \in 1 .. NHASH /\ AtChain(p, c, m[c], r) /\ ChainOK(c, m, r)
    BY <1>0, <1>3, <2>k, <2>c, OneWriter DEF PlaceOK, ChainsOK
  \* No record of m[c] has the key, and p holds none.
  <2>2. ASSUME pc[p] \notin LinkPC, \A u \in m[c] : rec[u].key # k
        PROVE  Live(k) = {}
    <3> SUFFICES ASSUME NEW s \in Live(k) PROVE FALSE
      OBVIOUS
    <3>1. s \notin m[c]
      BY <2>2 DEF Live
    <3>2. PICK q \in Proc : /\ pc[q] \in LinkPC /\ db[q].idxoff = s /\ call[q].key = k
                            /\ pc[q] \in ChainPC /\ call[q].op # "fetch"
      BY <2>c, <2>1, <3>1, LiveOn
    <3>3. p = q
      BY <1>3, <2>k, <3>2, OneWriter
    <3> QED BY <2>2, <3>2, <3>3
  <2>3. pc[p] \in FoundPC => db[p].idxoff \in Live(k)
    BY <2>k, <2>1 DEF AtChain, ChainOK, Live
  <2>4. pc[p] \in LinkPC => db[p].idxoff \in Live(k)
    <3>1. pc[p] \in LinkPC => db[p].idxoff \in Allocated
      BY DEF IFormat, HandlesOK, HandleOK, LinkPC
    <3> QED BY <2>k, <2>1, <3>1 DEF AtChain, Live
  <2>5. pc[p] \in AbsentPC \ LinkPC => Live(k) = {}
    BY <2>k, <2>1, <2>2 DEF AtChain
  <2>6. pc[p] = "head" /\ ptr[db[p].ptroff] = 0 => Live(k) = {}
    <3> SUFFICES ASSUME pc[p] = "head", ptr[db[p].ptroff] = 0 PROVE Live(k) = {}
      OBVIOUS
    <3>1. ptr[c] = 0
      BY <2>1 DEF AtChain
    <3>2. m[c] = {}
      BY <2>1, <3>1 DEF ChainOK, IsList
    <3> QED BY <2>2, <3>2 DEF LinkPC
  <2>7. pc[p] = "body" /\ rec[db[p].idxoff].key # k /\ db[p].ptrval = 0 => Live(k) = {}
    <3> SUFFICES ASSUME pc[p] = "body", rec[db[p].idxoff].key # k, db[p].ptrval = 0
                 PROVE  Live(k) = {}
      OBVIOUS
    <3>o. PICK o : o = db[p].offset
      OBVIOUS
    <3>1. /\ o \in m[c] /\ \A u \in m[c] : rec[u].key = k => r[u] <= r[o]
          /\ db[p].idxoff = o /\ ptr[o] = 0
      BY <2>k, <2>1, <3>o DEF AtChain
    <3>2. Nxt[o] = ptr[o]
      BY <1>3, <2>c, <2>k, <3>1, ChainSteady DEF UnlinkPC
    <3>3. IsList(ptr[c], Nxt, m[c], r)
      BY <2>1 DEF ChainOK
    <3>4. /\ \A u \in m[c] : r[o] <= r[u]
          /\ \A u, v \in m[c] : r[u] = r[v] => u = v
      BY <3>1, <3>2, <3>3 DEF IsList
    <3>5. \A u \in m[c] : r[u] \in Int
      <4>1. m[c] \in SUBSET RecOff /\ r \in [RecOff -> 0 .. b] /\ b \in Nat
        BY <2>1 DEF ListsOK, Witness
      <4> QED BY <4>1
    <3>6. \A u \in m[c] : rec[u].key = k => u = o
      BY <3>1, <3>4, <3>5
    <3> QED BY <2>2, <3>1, <3>6 DEF LinkPC
  <2> QED BY <1>1, <2>k, <2>3, <2>4, <2>5, <2>6, <2>7 DEF KeyAt
<1> QED BY <1>2, <1>3

Calm == ILists /\ crashes = 0 /\ MaxOff <= PTR_MAX

ViewIs == Calm => View

LEMMA ViewAlways == ViewIs
<1> SUFFICES ASSUME Calm PROVE View
  BY DEF ViewIs
<1>0. IFormat /\ IExcl /\ crashes = 0 /\ MaxOff <= PTR_MAX
  BY DEF Calm, ILists
<1>1. PICK m, r, f, g, b : ListsOK(m, r, f, g, b)
  BY DEF Calm, ILists
<1>2. \A p \in Proc : KeyAt(p)
  BY <1>0, <1>1, KeyHolds
<1>3. Once
  BY <1>0, <1>1, OnceHolds
<1> QED BY <1>1, <1>2, <1>3 DEF View, ListsOK

LEMMA ViewNext == ViewIs'
  BY ViewAlways, PTL

-----------------------------------------------------------------------------
(* The map that the files stand for.                                       *)

KvIs ==
  IExcl /\ Once =>
    \A k \in Key :
      /\ \A p \in Proc : Replacing(p, k) => kvMap[k] = call[p].data
      /\ (\A p \in Proc : ~Replacing(p, k)) =>
           /\ Live(k) = {} => kvMap[k] = Blank
           /\ \A s \in Live(k) : kvMap[k] = dat[rec[s].datoff].val

LEMMA KvAlways == KvIs
<1> SUFFICES ASSUME IExcl, Once, NEW k \in Key
             PROVE  /\ \A p \in Proc : Replacing(p, k) => kvMap[k] = call[p].data
                    /\ (\A p \in Proc : ~Replacing(p, k)) =>
                         /\ Live(k) = {} => kvMap[k] = Blank
                         /\ \A s \in Live(k) : kvMap[k] = dat[rec[s].datoff].val
  BY DEF KvIs
<1>1. kvMap[k] = IF \E p \in Proc : Replacing(p, k)
              THEN call[CHOOSE p \in Proc : Replacing(p, k)].data
            ELSE IF Live(k) = {} THEN Blank
            ELSE dat[rec[CHOOSE s \in Live(k) : TRUE].datoff].val
  BY DEF kvMap, Missing
<1>2. \A p, q \in Proc : Replacing(p, k) /\ Replacing(q, k) => p = q
  <2> SUFFICES ASSUME NEW p \in Proc, NEW q \in Proc, Replacing(p, k), Replacing(q, k)
               PROVE  p = q
    OBVIOUS
  <2>1. /\ pc[p] \in DelPC \cup FreePC \cup StorePC /\ pc[q] \in DelPC \cup FreePC \cup StorePC
        /\ call[p].key = k /\ call[q].key = k
    BY DEF Replacing, DelPC, StorePC
  <2> QED BY <2>1, OneWriter
<1>3. \A p \in Proc : Replacing(p, k) => (CHOOSE q \in Proc : Replacing(q, k)) = p
  BY <1>2
<1>4. \A s \in Live(k) : (CHOOSE t \in Live(k) : TRUE) = s
  BY DEF Once
<1> QED BY <1>1, <1>3, <1>4

LEMMA KvNext == KvIs'
  BY KvAlways, PTL

\* A key whose record and data a step leaves alone.
LEMMA KvSame ==
  ASSUME IExcl, Once, IExcl', Once', NEW k \in Key,
         \A q \in Proc : Replacing(q, k)' <=> Replacing(q, k),
         \A q \in Proc : Replacing(q, k) => call'[q].data = call[q].data,
         (\A q \in Proc : ~Replacing(q, k)) =>
           /\ Live(k)' = Live(k)
           /\ \A s \in Live(k) : dat'[rec'[s].datoff].val = dat[rec[s].datoff].val
  PROVE  kvMap'[k] = kvMap[k]
<1>1. CASE \E q \in Proc : Replacing(q, k)
  <2>1. PICK q \in Proc : Replacing(q, k)
    BY <1>1
  <2>2. kvMap[k] = call[q].data
    BY <2>1, KvAlways DEF KvIs
  <2>3. kvMap'[k] = call'[q].data
    BY <2>1, KvNext DEF KvIs
  <2> QED BY <2>1, <2>2, <2>3
<1>2. CASE \A q \in Proc : ~Replacing(q, k)
  <2>1. Live(k) = {} => kvMap[k] = Blank
    BY <1>2, KvAlways DEF KvIs
  <2>2. \A s \in Live(k) : kvMap[k] = dat[rec[s].datoff].val
    BY <1>2, KvAlways DEF KvIs
  <2>3. Live(k)' = {} => kvMap'[k] = Blank
    BY <1>2, KvNext DEF KvIs
  <2>4. \A s \in Live(k)' : kvMap'[k] = dat'[rec'[s].datoff].val
    BY <1>2, KvNext DEF KvIs
  <2> HIDE DEF Live
  <2> QED BY <1>2, <2>1, <2>2, <2>3, <2>4
<1> QED BY <1>1, <1>2

\* The steps that change the record of their own key.
OwnPC == {"del_dat", "rw_dat", "del_idx", "ru_idx", "ap_idx"}

LEMMA LiveSame ==
  ASSUME IFormat, IOwn, Grows, View, NEW p \in Proc, Acts(p), NEW k \in Key,
         pc[p] \in OwnPC => k # call[p].key
  PROVE  /\ Live(k)' = Live(k)
         /\ \A s \in Live(k) : dat'[rec'[s].datoff].val = dat[rec[s].datoff].val
<1>0. KeyAt(p) /\ k # Blank
  BY DbConst DEF View
<1>x. PICK x : x = db[p].idxoff
  OBVIOUS
<1>1. ASSUME pc[p] \in TouchPC PROVE rec[x].key \in {Blank, call[p].key}
  BY <1>0, <1>1, <1>x DEF KeyAt, TouchPC, FoundPC, TakenPC, Live
<1>2. pc[p] = "ru_dat" => rec[x].key = Blank
  BY <1>0, <1>x DEF KeyAt, TakenPC
<1>3. ASSUME NEW s \in Live(k) PROVE Spared(p, s)
  BY <1>0, <1>1, <1>2, <1>3, <1>x DEF Spared, Live, TouchPC, OwnPC
<1>4. ASSUME NEW s \in Live(k)
      PROVE  s \in Live(k)' /\ dat'[rec'[s].datoff].val = dat[rec[s].datoff].val
  <2>1. s \in Allocated /\ rec[s].key = k
    BY DEF Live
  <2>2. /\ rec'[s].key = rec[s].key /\ s \in Allocated'
        /\ dat'[rec[s].datoff].val = dat[rec[s].datoff].val
    BY <1>3, <2>1, TouchStep
  <2> QED BY <2>1, <2>2 DEF Live, Grows
<1>5. ASSUME NEW s \in Live(k)' PROVE s \in Live(k)
  <2>0. s \in Allocated' /\ rec'[s].key = k
    BY DEF Live
  <2>1. CASE s \in Allocated
    <3>1. rec'[s].key \in {rec[s].key, Blank, call[p].key}
      BY <2>1, KeyStep
    <3>2. CASE Spared(p, s)
      BY <2>0, <2>1, <3>2, TouchStep DEF Live
    <3>3. CASE ~Spared(p, s)
      <4>1. pc[p] \in TouchPC
        BY <3>3 DEF Spared
      <4>2. CASE pc[p] = "ru_dat"
        <5>1. UNCHANGED rec
          <6>1. ReuseDat(p) \/ UNCHANGED <<rec, idxEnd, dat>>
            BY <4>2, IndexStep DEF Writes, DelDat, RewriteDat, DelIdx, ReuseIdx, AppIdx, AppDat
          <6> QED BY <6>1 DEF ReuseDat
        <5> QED BY <2>0, <2>1, <5>1 DEF Live
      <4>3. CASE pc[p] # "ru_dat"
        BY <1>0, <2>0, <2>1, <3>1, <4>1, <4>3 DEF Live, OwnPC, TouchPC
      <4> QED BY <4>2, <4>3
    <3> QED BY <3>2, <3>3
  <2>2. CASE s \notin Allocated
    <3>1. AppIdx(p)
      BY <2>0, <2>2, OwnKept DEF Acts, AppDat, Allocated
    <3>2. s = idxEnd
      <4>1. idxEnd \in Nat /\ \A o \in RecOff : o \in Nat
        BY DbConst DEF IFormat, IType, TypeOK, RecOff, FirstRec
      <4>2. idxEnd' = idxEnd + 1
        BY <3>1 DEF AppIdx
      <4> QED BY <2>0, <2>2, <4>1, <4>2 DEF Allocated
    <3>3. rec'[s].key = call[p].key
      <4>1. rec' = [rec EXCEPT ![idxEnd] = NewSlot(p)] /\ rec \in [RecOff -> Slot] /\ s \in RecOff
        BY <2>0, <3>1 DEF AppIdx, IFormat, IType, TypeOK, Allocated
      <4> QED BY <3>2, <4>1 DEF NewSlot
    <3> QED BY <2>0, <3>1, <3>3 DEF AppIdx, OwnPC
  <2> QED BY <2>1, <2>2
<1>6. \A s : s \in Live(k)' <=> s \in Live(k)
  BY <1>4, <1>5
<1> QED BY <1>4, <1>6

-----------------------------------------------------------------------------
(* What a step of p does to the processes.                                 *)

Runs(p) == Step(p) \/ (\E e \in Calls : Call(p, e)) \/ db_rewind(p)

\* The steps that KVStore does not see.
Hidden(p) ==
  \/ LockChain(p) \/ ReadHdr(p) \/ DelLock(p) \/ DelFree(p) \/ DelIdx(p)
  \/ DelHead(p) \/ DelLink(p) \/ DelUnlock(p) \/ StoreHead(p) \/ FreeLock(p)
  \/ FreeHead(p) \/ FreeBody(p) \/ FreeTake(p) \/ FreeUnlock(p) \/ AppDatLock(p)
  \/ AppDat(p) \/ AppDatUnlock(p) \/ AppIdxLock(p) \/ AppIdxUnlock(p)
  \/ ReuseDat(p) \/ StoreLink(p) \/ NextLock(p) \/ NextBody(p) \/ db_rewind(p)

Present(p) == pc'[p] # "dump" /\ pc'[p] # "quit"

LEMMA PresentAlways ==
  ASSUME Calm, IFormat', NEW p \in Proc, Runs(p)
  PROVE  Present(p)
<1>0. pc \in [Proc -> PC] /\ db[p] \in Handle
  BY DEF Calm, ILists, IFormat, IType, TypeOK
<1>1. pc'[p] # "dump"
  BY DEF IFormat, HandlesOK, HandleOK
<1>2. ~PtrOverflow(db[p].idxoff)
  BY <1>0, DbConst DEF PtrOverflow, Handle, Off, Calm
<1>3. pc'[p] # "quit"
  <2> USE <1>0 DEF Goto, Gone
  <2>1. CASE ReadHead(p) \/ ReadHdr(p) \/ ReadBody(p) \/ ReadDat(p) \/ Return(p)
    BY <2>1 DEF ReadHead, ReadHdr, ReadBody, ReadDat, Return, NotFound, Found
  <2>2. CASE FreeBody(p) \/ FreeHead(p) \/ NextLock(p) \/ NextHdr(p) \/ NextBody(p)
    BY <2>2 DEF FreeBody, FreeHead, NextLock, NextHdr, NextBody
  <2>3. CASE LockChain(p) \/ DelLock(p) \/ DelDat(p) \/ DelFree(p) \/ DelIdx(p) \/ DelHead(p)
    BY <2>3 DEF LockChain, DelLock, DelDat, DelFree, DelIdx, DelHead
  <2>4. CASE DelLink(p) \/ DelUnlock(p) \/ StoreHead(p) \/ FreeLock(p) \/ FreeTake(p) \/ FreeUnlock(p)
    BY <2>4 DEF DelLink, DelUnlock, StoreHead, FreeLock, FreeTake, FreeUnlock
  <2>5. CASE AppDatLock(p) \/ AppDat(p) \/ AppDatUnlock(p) \/ AppIdxLock(p) \/ AppIdx(p) \/ AppIdxUnlock(p)
    BY <2>5 DEF AppDatLock, AppDat, AppDatUnlock, AppIdxLock, AppIdx, AppIdxUnlock
  <2>6. CASE ReuseDat(p) \/ ReuseIdx(p) \/ RewriteDat(p) \/ StoreLink(p)
    BY <1>2, <2>6 DEF ReuseDat, ReuseIdx, RewriteDat, StoreLink
  <2>7. CASE (\E e \in Calls : Call(p, e)) \/ db_rewind(p)
    BY <2>7 DEF Call, db_rewind
  <2> QED BY <2>1, <2>2, <2>3, <2>4, <2>5, <2>6, <2>7 DEF Runs, Step
<1> QED BY <1>1, <1>3 DEF Present

LEMMA HiddenStep ==
  ASSUME IType, NEW p \in Proc, Hidden(p), Present(p)
  PROVE  UNCHANGED <<call, ret>> /\ Others(p)
<1>0. /\ pc \in [Proc -> PC] /\ db \in [Proc -> Handle]
      /\ call \in [Proc -> Calls \cup {NoCall}]
  BY DEF IType, TypeOK
<1> USE <1>0 DEF Goto, Gone, Others, Present
<1>1. CASE ReadHdr(p) \/ FreeBody(p) \/ FreeHead(p)
  BY <1>1 DEF ReadHdr, FreeBody, FreeHead
<1>2. CASE NextLock(p) \/ NextBody(p) \/ db_rewind(p) \/ LockChain(p)
  BY <1>2 DEF NextLock, NextBody, db_rewind, LockChain
<1>3. CASE DelLock(p) \/ DelFree(p) \/ DelIdx(p) \/ DelHead(p)
  BY <1>3 DEF DelLock, DelFree, DelIdx, DelHead
<1>4. CASE DelLink(p) \/ DelUnlock(p) \/ StoreHead(p) \/ FreeLock(p) \/ FreeTake(p) \/ FreeUnlock(p)
  BY <1>4 DEF DelLink, DelUnlock, StoreHead, FreeLock, FreeTake, FreeUnlock
<1>5. CASE AppDatLock(p) \/ AppDat(p) \/ AppDatUnlock(p) \/ AppIdxLock(p) \/ AppIdxUnlock(p)
  BY <1>5 DEF AppDatLock, AppDat, AppDatUnlock, AppIdxLock, AppIdxUnlock
<1>6. CASE ReuseDat(p) \/ StoreLink(p)
  BY <1>6 DEF ReuseDat, StoreLink
<1> QED BY <1>1, <1>2, <1>3, <1>4, <1>5, <1>6 DEF Hidden

\* The steps that set the result of p.
SetsRet(p) ==
  \/ ReadHead(p) \/ ReadBody(p) \/ ReadDat(p) \/ DelDat(p) \/ AppIdx(p)
  \/ ReuseIdx(p) \/ RewriteDat(p) \/ NextHdr(p)

LEMMA RetStep ==
  ASSUME IType, NEW p \in Proc, SetsRet(p), Present(p)
  PROVE  UNCHANGED call /\ Others(p) /\ \E v : ret' = [ret EXCEPT ![p] = v]
<1>0. /\ pc \in [Proc -> PC] /\ db \in [Proc -> Handle] /\ ret \in [Proc -> Result]
      /\ call \in [Proc -> Calls \cup {NoCall}]
  BY DEF IType, TypeOK
<1>1. ret' = ret => ret' = [ret EXCEPT ![p] = ret[p]]
  BY <1>0
<1> USE <1>0, <1>1 DEF Goto, Gone, Others, Present
<1>2. CASE ReadHead(p)
  BY <1>2 DEF ReadHead, NotFound
<1>3. CASE ReadBody(p)
  BY <1>3 DEF ReadBody, NotFound, Found
<1>4. CASE ReadDat(p) \/ NextHdr(p)
  BY <1>4 DEF ReadDat, NextHdr
<1>5. CASE DelDat(p) \/ AppIdx(p)
  BY <1>5 DEF DelDat, AppIdx
<1>6. CASE ReuseIdx(p) \/ RewriteDat(p)
  BY <1>6 DEF ReuseIdx, RewriteDat
<1> QED BY <1>2, <1>3, <1>4, <1>5, <1>6 DEF SetsRet

LEMMA RunsCases ==
  ASSUME NEW p, Runs(p)
  PROVE  Hidden(p) \/ SetsRet(p) \/ Return(p) \/ (\E e \in Calls : Call(p, e))
  BY DEF Runs, Hidden, SetsRet, Step

LEMMA Alone ==
  ASSUME IType, NEW p \in Proc, Runs(p), Present(p)
  PROVE  Others(p) /\ \A q \in Proc \ {p} : ret'[q] = ret[q]
<1>0. /\ pc \in [Proc -> PC] /\ db \in [Proc -> Handle] /\ ret \in [Proc -> Result]
      /\ call \in [Proc -> Calls \cup {NoCall}]
  BY DEF IType, TypeOK
<1>1. CASE Hidden(p)
  BY <1>1, HiddenStep
<1>2. CASE SetsRet(p)
  BY <1>0, <1>2, RetStep
<1>3. CASE Return(p)
  BY <1>0, <1>3 DEF Return, Goto, Others
<1>4. CASE \E e \in Calls : Call(p, e)
  BY <1>0, <1>4 DEF Call, Goto, Others
<1> QED BY <1>1, <1>2, <1>3, <1>4, RunsCases

-----------------------------------------------------------------------------
(* The invariant of the process that takes the step.                       *)

LEMMA Results ==
  /\ Res("0") # Pending /\ Res("1") # Pending /\ Res("-1") # Pending
  /\ Res("null") # Pending
  /\ \A v : v.rc = "ptr" => v # Pending
  BY DEF Res, Pending

\* The result and the flag of the process that takes the step.
LEMMA RetKept ==
  ASSUME IType, NEW p \in Proc, Runs(p), Present(p), RetAt(p), FlagAt(p)
  PROVE  RetAt(p)' /\ FlagAt(p)'
<1>0. /\ pc \in [Proc -> PC] /\ call \in [Proc -> Calls \cup {NoCall}]
      /\ ret \in [Proc -> Result] /\ CallAt(p)
  BY DEF IType, TypeOK, CallOK
<1> USE <1>0, Results DEF Goto, Gone, Present, RetAt, FlagAt, WaitPC, DonePC, AppendPC,
        NewDatPC, FreePC, NextPC, DelPC
<1>1. CASE LockChain(p) \/ DelLock(p) \/ DelDat(p) \/ DelFree(p) \/ DelIdx(p)
  BY <1>1 DEF LockChain, DelLock, DelDat, DelFree, DelIdx
<1>2. CASE DelHead(p) \/ DelLink(p) \/ StoreHead(p) \/ FreeLock(p) \/ FreeHead(p)
  BY <1>2 DEF DelHead, DelLink, StoreHead, FreeLock, FreeHead
<1>3. CASE DelUnlock(p)
  BY <1>3 DEF DelUnlock
<1>4. CASE FreeTake(p) \/ FreeUnlock(p) \/ AppDatLock(p) \/ AppDat(p) \/ AppDatUnlock(p)
  BY <1>4 DEF FreeTake, FreeUnlock, AppDatLock, AppDat, AppDatUnlock
<1>5. CASE AppIdxLock(p) \/ AppIdx(p) \/ AppIdxUnlock(p) \/ ReuseDat(p) \/ ReuseIdx(p)
  BY <1>5 DEF AppIdxLock, AppIdx, AppIdxUnlock, ReuseDat, ReuseIdx
<1>6. CASE RewriteDat(p) \/ StoreLink(p) \/ NextLock(p) \/ Return(p)
  BY <1>6 DEF RewriteDat, StoreLink, NextLock, Return
<1>7. CASE ReadHead(p) \/ ReadHdr(p)
  BY <1>7 DEF ReadHead, NotFound, ReadHdr
<1>8. CASE ReadBody(p)
  <2>1. call[p] \in Fetch \cup Delete \cup Store
    BY <1>8 DEF ReadBody, CallAt, FindPC
  <2>2. CASE NotFound(p) /\ UNCHANGED call
    BY <1>8, <2>1, <2>2 DEF ReadBody, NotFound
  <2>3. CASE (\E l : Found(p, l)) /\ UNCHANGED call
    BY <1>8, <2>1, <2>3 DEF ReadBody, Found, Fetch, Delete, Store
  <2>4. CASE pc'[p] = "hdr" /\ UNCHANGED <<call, ret>>
    BY <1>8, <2>4 DEF ReadBody
  <2> QED BY <1>8, <2>2, <2>3, <2>4 DEF ReadBody
<1>9. CASE ReadDat(p)
  BY <1>9 DEF ReadDat
<1>10. CASE FreeBody(p) \/ NextHdr(p) \/ NextBody(p)
  BY <1>10 DEF FreeBody, NextHdr, NextBody
<1>11. CASE (\E e \in Calls : Call(p, e)) \/ db_rewind(p)
  BY <1>11 DEF Call, db_rewind
<1> QED BY <1>1, <1>2, <1>3, <1>4, <1>5, <1>6, <1>7, <1>8, <1>9, <1>10, <1>11
        DEF Runs, Step

\* The data and the record of the process that takes the step.
LEMMA FreshKept ==
  ASSUME IFormat, NEW p \in Proc, Runs(p), Present(p), Fresh(p)
  PROVE  Fresh(p)' /\ Scans(p)'
<1>0. /\ pc \in [Proc -> PC] /\ db \in [Proc -> Handle] /\ db[p] \in Handle
      /\ call \in [Proc -> Calls \cup {NoCall}] /\ dat \in Seq(DatRec) /\ Len(dat) \in Nat
      /\ rec \in [RecOff -> Slot]
  BY DEF IFormat, IType, TypeOK
<1>1. pc[p] \in {"ru_dat", "del_dat"} => db[p].datoff \in 1 .. Len(dat)
  <2>1. pc[p] \in {"ru_dat", "del_dat"} =>
          db[p].idxoff \in Allocated /\ db[p].datoff = rec[db[p].idxoff].datoff
    BY DEF IFormat, HandlesOK, HandleOK, HasBody, DelPC
  <2> QED BY <2>1 DEF IFormat, DatOK
<1>2. CASE AppDat(p)
  <2>1. /\ dat' = Append(dat, NewData(p)) /\ db'[p].datoff = Len(dat) + 1
        /\ pc'[p] = "ap_dunlock" /\ call' = call
    BY <1>0, <1>2 DEF AppDat, Goto, Handle
  <2>2. dat'[Len(dat) + 1] = NewData(p)
    BY <1>0, <2>1
  <2> QED BY <2>1, <2>2 DEF Fresh, Scans, NewData, NewDatPC, BlankedPC
<1> USE <1>0 DEF Goto, Gone, Present, NewDatPC, BlankedPC
<1>3. CASE ReuseDat(p)
  <2>1. /\ dat' = [dat EXCEPT ![db[p].datoff] = NewData(p)] /\ db'[p].datoff = db[p].datoff
        /\ pc'[p] = "ru_idx" /\ call' = call /\ pc[p] = "ru_dat"
    BY <1>3 DEF ReuseDat, Handle
  <2> QED BY <1>1, <2>1 DEF Fresh, Scans, NewData
<1>4. CASE DelDat(p)
  <2>1. /\ dat' = [dat EXCEPT ![db[p].datoff] = [val |-> Blank, len |-> db[p].datlen]]
        /\ db' = db /\ pc'[p] = "del_free" /\ call' = call /\ pc[p] = "del_dat"
    BY <1>4 DEF DelDat
  <2> QED BY <1>1, <2>1 DEF Fresh, Scans
<1>5. CASE NextBody(p)
  <2>h. PICK h : h = BodyOf(db[p])
    OBVIOUS
  <2>1. /\ db' = [db EXCEPT ![p] = h] /\ rec' = rec
        /\ pc'[p] = IF h.key = Blank THEN "nx_hdr" ELSE "nx_dat"
    BY <1>5, <2>h DEF NextBody, files
  <2>2. h.key = rec[db[p].idxoff].key /\ h.idxoff = db[p].idxoff /\ db[p].idxoff \in RecOff
    <3>1. db[p].idxoff \in RecOff
      BY <1>5 DEF NextBody, IFormat, IType, RecordOK, OnRecord
    <3> QED BY <2>h, <3>1 DEF BodyOf, Handle
  <2>3. h.key # Blank => h.key \in Key
    BY <2>2 DEF Slot
  <2> QED BY <2>1, <2>2, <2>3 DEF Fresh, Scans
<1>6. CASE DelFree(p) \/ AppDatUnlock(p) \/ AppIdxLock(p)
  BY <1>6 DEF DelFree, AppDatUnlock, AppIdxLock, Fresh, Scans, files, Handle
\* The other steps do not lead to a label at which there is something to keep.
<1>7. ASSUME pc'[p] \notin NewDatPC \cup BlankedPC \cup {"ru_idx", "nx_dat"}
      PROVE  Fresh(p)' /\ Scans(p)'
  BY <1>7 DEF Fresh, Scans
<1>8. CASE LockChain(p) \/ DelLock(p) \/ DelIdx(p) \/ DelHead(p) \/ DelLink(p) \/ DelUnlock(p)
  BY <1>7, <1>8 DEF LockChain, DelLock, DelIdx, DelHead, DelLink, DelUnlock
<1>9. CASE StoreHead(p) \/ FreeLock(p) \/ FreeHead(p) \/ FreeBody(p) \/ FreeTake(p) \/ FreeUnlock(p)
  BY <1>7, <1>9 DEF StoreHead, FreeLock, FreeHead, FreeBody, FreeTake, FreeUnlock
<1>10. CASE AppDatLock(p) \/ AppIdx(p) \/ AppIdxUnlock(p) \/ ReuseIdx(p) \/ RewriteDat(p) \/ StoreLink(p)
  BY <1>7, <1>10 DEF AppDatLock, AppIdx, AppIdxUnlock, ReuseIdx, RewriteDat, StoreLink
<1>11. CASE NextLock(p) \/ NextHdr(p) \/ ReadHead(p) \/ ReadHdr(p) \/ ReadDat(p) \/ Return(p)
  BY <1>7, <1>11 DEF NextLock, NextHdr, ReadHead, ReadHdr, ReadDat, Return, NotFound
<1>12. CASE ReadBody(p)
  BY <1>7, <1>12 DEF ReadBody, NotFound, Found
<1>13. CASE (\E e \in Calls : Call(p, e)) \/ db_rewind(p)
  BY <1>7, <1>13 DEF Call, db_rewind
<1> QED BY <1>2, <1>3, <1>4, <1>5, <1>6, <1>8, <1>9, <1>10, <1>11, <1>12, <1>13
        DEF Runs, Step

-----------------------------------------------------------------------------
(* The invariant of the other processes, and of the records.               *)

\* Data that belongs to no record is written by its owner only.
LEMMA NewDataStep ==
  ASSUME IFormat, IOwn, NEW p \in Proc, Runs(p), NEW q \in Proc \ {p}, pc[q] \in NewDatPC
  PROVE  dat'[db[q].datoff].val = dat[db[q].datoff].val
<1>0. /\ db[p] \in Handle /\ pc \in [Proc -> PC]
      /\ dat \in Seq(DatRec) /\ Len(dat) \in Nat
  BY DEF IFormat, IType, TypeOK
<1>d. PICK d : d = db[q].datoff
  OBVIOUS
<1>1. d \in 1 .. Len(dat) /\ \A s \in Allocated : rec[s].datoff # d
  BY <1>d DEF IFormat, HandlesOK, HandleOK, IOwn, NewApart, NewDatPC
<1>2. ASSUME pc[p] \in TouchPC PROVE db[p].datoff # d
  <2>1. db[p].idxoff \in Allocated /\ db[p].datoff = rec[db[p].idxoff].datoff
    BY <1>2 DEF IFormat, HandlesOK, HandleOK, HasBody, TouchPC, DelPC
  <2> QED BY <1>1, <2>1
<1>3. CASE DelDat(p) \/ RewriteDat(p) \/ ReuseDat(p)
  BY <1>0, <1>1, <1>2, <1>3, <1>d DEF DelDat, RewriteDat, ReuseDat, TouchPC
<1>4. CASE AppDat(p)
  <2>1. dat' = Append(dat, NewData(p))
    BY <1>4 DEF AppDat
  <2>2. dat'[d] = dat[d]
    BY <1>0, <1>1, <2>1
  <2> QED BY <1>d, <2>2
<1>5. CASE DelIdx(p) \/ ReuseIdx(p) \/ AppIdx(p)
  BY <1>5 DEF DelIdx, ReuseIdx, AppIdx
<1>6. Acts(p)
  BY DEF Acts, Runs
<1> QED BY <1>3, <1>4, <1>5, <1>6, IndexStep DEF Writes

\* No step of p touches the record that q is writing.
LEMMA HeldApart ==
  ASSUME IExcl, View, NEW p \in Proc, NEW q \in Proc \ {p}, pc[q] \in BlankedPC \cup {"ru_idx"}
  PROVE  Spared(p, db[q].idxoff)
<1> SUFFICES ASSUME pc[p] \in TouchPC, db[p].idxoff = db[q].idxoff PROVE FALSE
  BY DEF Spared
<1>0. KeyAt(p) /\ KeyAt(q) /\ Apart
  BY DEF View
<1>1. /\ pc[p] \in ChainPC /\ pc[q] \in ChainPC /\ call[p].op # "fetch"
      /\ call[p].key \in Key /\ call[q].key \in Key
  BY OneWriter DEF TouchPC, BlankedPC, DelPC, StorePC
<1>2. call[p].key # Blank /\ call[q].key # Blank
  BY <1>1, DbConst
<1>3. pc[q] \in BlankedPC => rec[db[q].idxoff].key = call[q].key
  BY <1>0 DEF KeyAt, BlankedPC, FoundPC, Live
<1>4. pc[q] = "ru_idx" => rec[db[q].idxoff].key = Blank
  BY <1>0 DEF KeyAt, TakenPC
<1>5. CASE pc[p] \in {"ru_dat", "ru_idx"}
  <2>1. rec[db[p].idxoff].key = Blank
    BY <1>0, <1>5 DEF KeyAt, TakenPC
  <2> QED BY <1>0, <1>2, <1>3, <1>5, <2>1 DEF Apart, TakenPC
<1>6. CASE pc[p] \in {"del_dat", "rw_dat", "del_idx"}
  <2>1. rec[db[p].idxoff].key = call[p].key
    BY <1>0, <1>6 DEF KeyAt, FoundPC, Live
  <2> QED BY <1>1, <1>2, <1>3, <1>4, <2>1, OneWriter
<1> QED BY <1>5, <1>6 DEF TouchPC

LEMMA FreshOther ==
  ASSUME IFormat, IExcl, IOwn, View, NEW p \in Proc, Runs(p), Others(p),
         NEW q \in Proc \ {p}, Fresh(q)
  PROVE  Fresh(q)'
<1>1. pc'[q] = pc[q] /\ call'[q] = call[q] /\ db'[q] = db[q]
  BY DEF Others
<1>2. CASE pc[q] \in NewDatPC
  BY <1>1, <1>2, NewDataStep DEF Fresh, NewDatPC, BlankedPC
<1>3. CASE pc[q] \in BlankedPC \cup {"ru_idx"}
  <2>y. PICK y : y = db[q].idxoff
    OBVIOUS
  <2>1. y \in Allocated /\ db[q].datoff = rec[y].datoff
    BY <1>3, <2>y DEF IFormat, HandlesOK, HandleOK, HasBody, BlankedPC, DelPC
  <2>2. Spared(p, y) /\ Acts(p)
    BY <1>3, <2>y, HeldApart DEF Runs, Acts
  <2>3. dat'[rec[y].datoff].val = dat[rec[y].datoff].val
    BY <2>1, <2>2, TouchStep
  <2> QED BY <1>1, <1>3, <2>1, <2>3 DEF Fresh, NewDatPC, BlankedPC
<1>4. CASE pc[q] \notin NewDatPC \cup BlankedPC \cup {"ru_idx"}
  BY <1>1, <1>4 DEF Fresh
<1> QED BY <1>2, <1>3, <1>4

LEMMA ScansOther ==
  ASSUME IFormat, IExcl, IOwn, View, NEW p \in Proc, Runs(p), Others(p),
         NEW q \in Proc \ {p}, Scans(q)
  PROVE  Scans(q)'
<1>1. pc'[q] = pc[q] /\ db'[q] = db[q]
  BY DEF Others
<1> SUFFICES ASSUME pc[q] = "nx_dat" PROVE rec'[db[q].idxoff].key = rec[db[q].idxoff].key
  BY <1>1 DEF Scans
<1>y. PICK y : y = db[q].idxoff
  OBVIOUS
<1>2. y \in Allocated /\ rec[y].key \in Key /\ rec[y].key # Blank
  BY <1>y, DbConst DEF IFormat, HandlesOK, HandleOK, HasBody, Scans
<1>3. pc[p] \notin {"del_dat", "del_idx"}
  <2>1. Exclusion
    BY ExclHolds
  <2> QED BY <2>1 DEF Exclusion, ListPC, ScanPC, NextPC, DelPC
<1>4. pc[p] \in {"ru_dat", "ru_idx"} => db[p].idxoff # y
  BY <1>2 DEF View, KeyAt, TakenPC
<1>5. Acts(p)
  BY DEF Acts, Runs
<1>6. CASE Spared(p, y)
  BY <1>2, <1>5, <1>6, <1>y, TouchStep
<1>7. CASE ~Spared(p, y)
  <2>1. pc[p] = "rw_dat"
    BY <1>3, <1>4, <1>7 DEF Spared, TouchPC
  <2>2. RewriteDat(p) \/ UNCHANGED <<rec, idxEnd, dat>>
    BY <1>5, <2>1, IndexStep DEF Writes, DelDat, ReuseDat, DelIdx, ReuseIdx, AppIdx, AppDat
  <2> QED BY <1>y, <2>2 DEF RewriteDat
<1> QED BY <1>6, <1>7

\* What a process does at the labels where it changes a record.
ChangePC == TouchPC \cup BlankedPC \cup {"ap_idx"}

LEMMA AtLabel ==
  ASSUME NEW p \in Proc, Runs(p), pc[p] \in ChangePC
  PROVE  \/ DelDat(p) \/ RewriteDat(p) \/ DelIdx(p) \/ ReuseDat(p) \/ ReuseIdx(p)
         \/ DelFree(p) \/ AppIdx(p)
<1> USE DEF ChangePC, TouchPC, BlankedPC
<1>1. ~(LockChain(p) \/ ReadHead(p) \/ ReadHdr(p) \/ ReadBody(p) \/ ReadDat(p) \/ Return(p))
  BY DEF LockChain, ReadHead, ReadHdr, ReadBody, ReadDat, Return
<1>2. ~(DelLock(p) \/ DelHead(p) \/ DelLink(p) \/ DelUnlock(p) \/ StoreHead(p) \/ FreeLock(p))
  BY DEF DelLock, DelHead, DelLink, DelUnlock, StoreHead, FreeLock
<1>3. ~(FreeHead(p) \/ FreeBody(p) \/ FreeTake(p) \/ FreeUnlock(p) \/ AppDatLock(p) \/ AppDat(p))
  BY DEF FreeHead, FreeBody, FreeTake, FreeUnlock, AppDatLock, AppDat
<1>4. ~(AppDatUnlock(p) \/ AppIdxLock(p) \/ AppIdxUnlock(p) \/ StoreLink(p))
  BY DEF AppDatUnlock, AppIdxLock, AppIdxUnlock, StoreLink
<1>5. ~(NextLock(p) \/ NextHdr(p) \/ NextBody(p) \/ (\E e \in Calls : Call(p, e)) \/ db_rewind(p))
  BY DEF NextLock, NextHdr, NextBody, Call, db_rewind
<1> QED BY <1>1, <1>2, <1>3, <1>4, <1>5 DEF Runs, Step

\* The record that the step appends.
LEMMA NewRecord ==
  ASSUME IFormat, NEW p \in Proc, Runs(p), NEW s \in Allocated', s \notin Allocated
  PROVE  /\ AppIdx(p) /\ s = idxEnd /\ rec'[s] = NewSlot(p) /\ dat' = dat
         /\ s \in RecOff
<1>1. AppIdx(p)
  BY OwnKept DEF Runs, AppDat, Allocated
<1>2. s \in RecOff /\ s < idxEnd' /\ ~(s < idxEnd)
  BY DEF Allocated
<1>3. s = idxEnd
  <2>1. idxEnd \in Nat /\ \A o \in RecOff : o \in Nat
    BY DbConst DEF IFormat, IType, TypeOK, RecOff, FirstRec
  <2>2. idxEnd' = idxEnd + 1
    BY <1>1 DEF AppIdx
  <2> QED BY <1>2, <2>1, <2>2
<1>4. rec' = [rec EXCEPT ![idxEnd] = NewSlot(p)] /\ rec \in [RecOff -> Slot] /\ dat' = dat
  BY <1>1 DEF AppIdx, IFormat, IType, TypeOK
<1> QED BY <1>1, <1>2, <1>3, <1>4

LEMMA FilledKept ==
  ASSUME IFormat, IExcl, IOwn, Grows, View, NEW p \in Proc, Runs(p), Others(p),
         Filled, Fresh(p)
  PROVE  Filled'
<1>0. /\ pc \in [Proc -> PC] /\ db \in [Proc -> Handle] /\ db[p] \in Handle
      /\ dat \in Seq(DatRec) /\ Len(dat) \in Nat /\ rec \in [RecOff -> Slot]
      /\ CallAt(p)
  BY DEF IFormat, IType, TypeOK, CallOK
<1>x. PICK x : x = db[p].idxoff
  OBVIOUS
<1> SUFFICES ASSUME NEW s \in Allocated', rec'[s].key # Blank,
                    dat'[rec'[s].datoff].val = Blank
             PROVE  \E q \in Proc : pc'[q] \in BlankedPC /\ db'[q].idxoff = s
  BY DEF Filled
<1>1. CASE s \in Allocated /\ Spared(p, s)
  <2>1. /\ rec'[s].key = rec[s].key /\ rec'[s].datoff = rec[s].datoff
        /\ dat'[rec[s].datoff].val = dat[rec[s].datoff].val
    BY <1>1, TouchStep DEF Grows, Runs, Acts
  <2>2. PICK q \in Proc : pc[q] \in BlankedPC /\ db[q].idxoff = s
    BY <1>1, <2>1 DEF Filled
  <2>3. CASE q # p
    BY <2>2, <2>3 DEF Others
  <2>4. CASE q = p
    <3>1. pc[p] = "del_free"
      BY <1>1, <2>2, <2>4 DEF Spared, TouchPC, BlankedPC
    <3>2. DelFree(p)
      BY <3>1, AtLabel DEF ChangePC, BlankedPC, DelDat, RewriteDat, DelIdx, ReuseDat,
         ReuseIdx, AppIdx
    <3>3. pc'[p] = "del_idx" /\ db'[p].idxoff = db[p].idxoff
      BY <1>0, <3>2 DEF DelFree, Goto, Handle
    <3> QED BY <2>2, <2>4, <3>3 DEF BlankedPC
  <2> QED BY <2>3, <2>4
<1>2. CASE s \in Allocated /\ ~Spared(p, s)
  <2>1. pc[p] \in TouchPC /\ s = x /\ x \in RecOff
    BY <1>2, <1>x DEF Spared, Allocated
  <2>2. x \in Allocated /\ db[p].datoff = rec[x].datoff
    BY <1>x, <2>1 DEF IFormat, HandlesOK, HandleOK, HasBody, TouchPC, DelPC
  <2>3. rec[x].datoff \in 1 .. Len(dat) /\ rec'[x].datoff = rec[x].datoff
    BY <2>2 DEF IFormat, DatOK, Grows
  <2>4. pc[p] \in {"rw_dat", "ru_idx"} => call[p].data \in Data /\ call[p].data # Blank
    <3>1. pc[p] \in {"rw_dat", "ru_idx"} => call[p] \in Store
      BY <1>0 DEF CallAt, StorePC
    <3> QED BY <3>1, DbConst DEF Store
  <2>5. CASE DelDat(p)
    BY <1>0, <1>x, <2>1, <2>5 DEF DelDat, Goto, BlankedPC
  <2>6. CASE RewriteDat(p)
    BY <1>0, <2>1, <2>2, <2>3, <2>4, <2>6 DEF RewriteDat, NewData
  <2>7. CASE DelIdx(p)
    BY <1>0, <1>x, <2>1, <2>7 DEF DelIdx
  <2>8. CASE ReuseDat(p)
    <3>1. rec[x].key = Blank
      BY <1>x, <2>8 DEF ReuseDat, View, KeyAt, TakenPC
    <3> QED BY <2>1, <2>8, <3>1 DEF ReuseDat
  <2>9. CASE ReuseIdx(p)
    <3>1. dat' = dat /\ pc[p] = "ru_idx"
      BY <2>9 DEF ReuseIdx
    <3> QED BY <2>1, <2>2, <2>3, <2>4, <3>1 DEF Fresh
  <2>10. CASE DelFree(p) \/ AppIdx(p)
    BY <2>1, <2>10 DEF DelFree, AppIdx, TouchPC
  <2> QED BY <2>1, <2>5, <2>6, <2>7, <2>8, <2>9, <2>10, AtLabel DEF ChangePC
<1>3. CASE s \notin Allocated
  <2>1. AppIdx(p) /\ rec'[s] = NewSlot(p) /\ dat' = dat
    BY <1>3, NewRecord
  <2>2. pc[p] = "ap_idx" /\ call[p] \in Store
    BY <1>0, <2>1 DEF AppIdx, CallAt, StorePC
  <2>3. call[p].data # Blank
    BY <2>2, DbConst DEF Store
  <2> QED BY <2>1, <2>2, <2>3 DEF Fresh, NewDatPC, NewSlot
<1> QED BY <1>1, <1>2, <1>3

\* The invariant is kept by every step while nobody is killed.
LEMMA MapNext ==
  ASSUME IFormat', Calm, IMap, Grows, IOwn', NEW p \in Proc, Runs(p)
  PROVE  IMap'
<1>0. IFormat /\ IExcl /\ IType /\ IOwn /\ View /\ Filled /\ \A q \in Proc : MapAt(q)
  BY ViewAlways DEF ViewIs, Calm, ILists, IMap, IExcl
<1>1. Present(p)
  BY PresentAlways
<1>2. Others(p) /\ \A q \in Proc \ {p} : ret'[q] = ret[q]
  BY <1>0, <1>1, Alone
<1>3. Filled'
  BY <1>0, <1>2, FilledKept DEF MapAt
<1>4. MapAt(p)'
  BY <1>0, <1>1, RetKept, FreshKept DEF MapAt
<1>5. ASSUME NEW q \in Proc \ {p} PROVE MapAt(q)'
  <2>1. MapAt(q)
    BY <1>0
  <2>2. Fresh(q)' /\ Scans(q)'
    BY <1>0, <1>2, <2>1, FreshOther, ScansOther DEF MapAt
  <2>3. RetAt(q)' /\ FlagAt(q)'
    BY <1>2, <2>1 DEF MapAt, RetAt, FlagAt, Others
  <2> QED BY <2>2, <2>3 DEF MapAt
<1> QED BY <1>3, <1>4, <1>5 DEF IMap

LEMMA MapInit == Init => IMap
<1> SUFFICES ASSUME Init PROVE IMap
  OBVIOUS
<1>1. Allocated = {}
  BY FormatInit, DbConst DEF Init, Allocated, RecOff, FirstRec
<1>2. ASSUME NEW p \in Proc PROVE MapAt(p)
  <2>1. pc[p] = "idle" /\ ret[p] = Pending
    BY DEF Init
  <2> QED BY <2>1 DEF MapAt, Fresh, Scans, RetAt, FlagAt, NewDatPC, BlankedPC, WaitPC,
          DonePC, AppendPC, FreePC, DelPC, NextPC
<1> QED BY <1>1, <1>2, OwnInit DEF IMap, Filled

-----------------------------------------------------------------------------
(* What a step does to the map.                                            *)

LEMMA ReplacingKept ==
  ASSUME IType, NEW p \in Proc, Runs(p), Present(p), RetAt(p), NEW k,
         pc[p] \notin {"del_dat", "ap_idx"}
  PROVE  /\ Replacing(p, k)' <=> Replacing(p, k)
         /\ Replacing(p, k) => call'[p] = call[p]
<1>0. /\ pc \in [Proc -> PC] /\ call \in [Proc -> Calls \cup {NoCall}]
      /\ ret \in [Proc -> Result]
  BY DEF IType, TypeOK
<1>1. pc[p] = "re_head" => ret[p].rc = "0"
  BY DEF RetAt, DonePC, Res
<1>2. pc[p] = "ff_miss" => ret[p].rc # "0"
  BY DEF RetAt, WaitPC, FreePC, Pending, Res
<1>3. CASE Hidden(p)
  <2>0. UNCHANGED <<call, ret>>
    BY <1>3, HiddenStep
  <2> USE <1>0, <1>1, <1>2, <2>0 DEF Goto, Gone, Present, Replacing
  <2>1. CASE LockChain(p) \/ ReadHdr(p) \/ DelLock(p) \/ DelFree(p) \/ DelIdx(p)
    BY <2>1 DEF LockChain, ReadHdr, DelLock, DelFree, DelIdx
  <2>2. CASE DelHead(p) \/ DelLink(p) \/ DelUnlock(p) \/ FreeLock(p)
    BY <2>2 DEF DelHead, DelLink, DelUnlock, FreeLock
  <2>3. CASE StoreHead(p) \/ FreeUnlock(p)
    BY <2>3 DEF StoreHead, FreeUnlock
  <2>4. CASE FreeHead(p) \/ FreeBody(p) \/ FreeTake(p) \/ AppDatLock(p)
    BY <2>4 DEF FreeHead, FreeBody, FreeTake, AppDatLock
  <2>5. CASE AppDat(p) \/ AppDatUnlock(p) \/ AppIdxLock(p) \/ AppIdxUnlock(p)
    BY <2>5 DEF AppDat, AppDatUnlock, AppIdxLock, AppIdxUnlock
  <2>6. CASE ReuseDat(p) \/ StoreLink(p) \/ NextLock(p) \/ NextBody(p) \/ db_rewind(p)
    BY <2>6 DEF ReuseDat, StoreLink, NextLock, NextBody, db_rewind
  <2> QED BY <1>3, <2>1, <2>2, <2>3, <2>4, <2>5, <2>6 DEF Hidden
<1> USE <1>0 DEF Goto, Gone, Present, Replacing
<1>4. CASE ReadHead(p) \/ ReadDat(p) \/ ReuseIdx(p) \/ RewriteDat(p) \/ NextHdr(p)
  BY <1>4 DEF ReadHead, NotFound, ReadDat, ReuseIdx, RewriteDat, NextHdr
<1>5. CASE ReadBody(p)
  BY <1>5 DEF ReadBody, NotFound, Found
<1>6. CASE Return(p) \/ (\E e \in Calls : Call(p, e))
  BY <1>6 DEF Return, Call
<1>7. ~DelDat(p) /\ ~AppIdx(p)
  BY DEF DelDat, AppIdx
<1> QED BY <1>3, <1>4, <1>5, <1>6, <1>7, RunsCases DEF SetsRet

\* The hypotheses of the steps that follow.
Running(p) ==
  /\ Calm /\ Calm' /\ IMap /\ Grows /\ Runs(p) /\ Present(p)
  /\ View /\ View' /\ Others(p) /\ \A q \in Proc \ {p} : ret'[q] = ret[q]

LEMMA RunningIs ==
  ASSUME Calm, Calm', IMap, Grows, NEW p \in Proc, Runs(p)
  PROVE  Running(p)
<1>0. IType /\ IFormat'
  BY DEF Calm, ILists, IExcl
<1>1. Present(p)
  BY <1>0, PresentAlways
<1>2. View /\ View'
  BY ViewAlways, ViewNext DEF ViewIs
<1> QED BY <1>0, <1>1, <1>2, Alone DEF Running

LEMMA KvKept ==
  ASSUME NEW p \in Proc, Running(p), NEW k \in Key,
         pc[p] \in OwnPC => k # call[p].key
  PROVE  kvMap'[k] = kvMap[k]
<1>0. /\ IFormat /\ IExcl /\ IExcl' /\ IType /\ IOwn /\ Grows /\ View /\ Once /\ Once' /\ Acts(p)
      /\ RetAt(p) /\ Runs(p) /\ Present(p) /\ Others(p)
      /\ \A q \in Proc \ {p} : ret'[q] = ret[q]
  BY DEF Running, Calm, ILists, IExcl, View, Runs, Acts, IMap, MapAt
<1>1. /\ Live(k)' = Live(k)
      /\ \A s \in Live(k) : dat'[rec'[s].datoff].val = dat[rec[s].datoff].val
  BY <1>0, LiveSame
<1>2. ASSUME NEW q \in Proc \ {p}
      PROVE  /\ Replacing(q, k)' <=> Replacing(q, k)
             /\ call'[q].data = call[q].data
  BY <1>0 DEF Others, Replacing
<1>3. /\ Replacing(p, k)' <=> Replacing(p, k)
      /\ Replacing(p, k) => call'[p].data = call[p].data
  <2>1. CASE pc[p] \notin {"del_dat", "ap_idx"}
    BY <1>0, <2>1, ReplacingKept
  <2>2. CASE pc[p] \in {"del_dat", "ap_idx"}
    <3>1. DelDat(p) \/ AppIdx(p)
      BY <1>0, <2>2, AtLabel DEF ChangePC, TouchPC, RewriteDat, DelIdx, ReuseDat, ReuseIdx,
         DelFree
    <3>2. call' = call
      BY <3>1 DEF DelDat, AppIdx
    <3>3. call[p].key # k
      BY <2>2 DEF OwnPC
    <3> QED BY <3>2, <3>3 DEF Replacing
  <2> QED BY <2>1, <2>2
<1> QED BY <1>0, <1>1, <1>2, <1>3, KvSame

LEMMA KvAll ==
  ASSUME \A k \in Key : kvMap'[k] = kvMap[k]
  PROVE  kvMap' = kvMap
  BY DEF kvMap

LEMMA KvOne ==
  ASSUME NEW k \in Key, NEW v, kvMap'[k] = v, \A j \in Key \ {k} : kvMap'[j] = kvMap[j]
  PROVE  kvMap' = [kvMap EXCEPT ![k] = v]
<1>1. DOMAIN kvMap = Key /\ DOMAIN kvMap' = Key
  BY DEF kvMap
<1>2. kvMap = [j \in Key |-> kvMap[j]] /\ kvMap' = [j \in Key |-> kvMap'[j]]
  BY DEF kvMap
<1> QED BY <1>1, <1>2

-----------------------------------------------------------------------------
(* The steps in which a call takes effect.                                 *)

\* What a process of the chain knows of the map.
LEMMA KvNow ==
  ASSUME NEW p \in Proc, Running(p), pc[p] \in ChainPC, NEW k \in Key, k = call[p].key,
         ~Replacing(p, k)
  PROVE  /\ Live(k) = {} => kvMap[k] = Blank
         /\ pc[p] \notin BlankedPC => \A s \in Live(k) :
              kvMap[k] = dat[rec[s].datoff].val /\ kvMap[k] # Blank
<1>0. IExcl /\ Once /\ View /\ Filled
  BY DEF Running, Calm, ILists, View, IMap
<1>1. ASSUME NEW q \in Proc, Replacing(q, k) PROVE FALSE
  <2>1. pc[q] \in DelPC \cup FreePC \cup StorePC /\ call[q].key = k /\ call[q].op # "fetch"
    BY <1>1 DEF Replacing, DelPC, StorePC
  <2> QED BY <1>0, <1>1, <2>1, OneWriter
<1>2. /\ Live(k) = {} => kvMap[k] = Blank
      /\ \A s \in Live(k) : kvMap[k] = dat[rec[s].datoff].val
  BY <1>0, <1>1, KvAlways DEF KvIs
<1>3. ASSUME pc[p] \notin BlankedPC, NEW s \in Live(k) PROVE dat[rec[s].datoff].val # Blank
  <2>1. s \in Allocated /\ rec[s].key = k /\ k # Blank
    BY DbConst DEF Live
  <2> SUFFICES ASSUME NEW q \in Proc, pc[q] \in BlankedPC, db[q].idxoff = s PROVE FALSE
    BY <1>0, <2>1 DEF Filled
  <2>2. rec[s].key = call[q].key
    BY <1>0 DEF View, KeyAt, BlankedPC, FoundPC, Live
  <2>3. pc[q] \in ChainPC /\ call[q].op # "fetch"
    BY <1>0, OneWriter DEF BlankedPC, DelPC
  <2>4. p = q
    BY <1>0, <2>1, <2>2, <2>3, OneWriter
  <2> QED BY <1>3, <2>4
<1> QED BY <1>2, <1>3

MapStep == KV!Next \/ UNCHANGED <<kvMap, call, ret>>

\* The key was not found.
LEMMA NotFoundMap ==
  ASSUME NEW p \in Proc, Running(p), pc[p] \in {"head", "body"}, Live(call[p].key) = {},
         NotFound(p), UNCHANGED call
  PROVE  MapStep
<1>0. /\ ret \in [Proc -> Result] /\ CallAt(p) /\ IExcl /\ RetAt(p)
  BY DEF Running, Calm, ILists, IFormat, IType, TypeOK, CallOK, IMap, MapAt
<1>k. PICK k : k = call[p].key
  OBVIOUS
<1>1. /\ call[p] \in Fetch \cup Delete \cup Store /\ pc[p] \in ChainPC /\ k \in Key
      /\ ret[p] = Pending
  BY <1>0, <1>k, OneWriter DEF CallAt, FindPC, ChainPC, RetAt, WaitPC
<1>2. kvMap[k] = Blank
  <2>1. ~Replacing(p, k)
    BY DEF Replacing
  <2> QED BY <1>k, <1>1, <2>1, KvNow
<1>3. kvMap' = kvMap
  <2>1. pc[p] \notin OwnPC
    BY DEF OwnPC
  <2>2. \A j \in Key : kvMap'[j] = kvMap[j]
    BY <2>1, KvKept
  <2> QED BY <2>2, KvAll
<1>4. [kvMap EXCEPT ![k] = Blank] = kvMap
  BY <1>2 DEF kvMap
<1>5. CASE call[p] \in Fetch
  <2>1. ret' = [ret EXCEPT ![p] = Res("null")]
    BY <1>5 DEF NotFound, Fetch
  <2>2. KV!DoFetch(p)
    BY <1>k, <1>1, <1>2, <1>3, <1>5, <2>1
       DEF KV!DoFetch, KV!Effect, KV!Res, KV!Pending, Res, Pending
  <2> QED BY <2>2 DEF MapStep, KV!Next
<1>6. CASE call[p] \in Delete
  <2>1. ret' = [ret EXCEPT ![p] = Res("-1")]
    BY <1>6 DEF NotFound, Delete
  <2>2. KV!DoDelete(p)
    BY <1>k, <1>1, <1>2, <1>3, <1>4, <1>6, <2>1
       DEF KV!DoDelete, KV!Effect, KV!Res, KV!Pending, Res, Pending
  <2> QED BY <2>2 DEF MapStep, KV!Next
<1>7. CASE call[p] \in Store /\ call[p].flag = "replace"
  <2>1. ret' = [ret EXCEPT ![p] = Res("-1")]
    BY <1>7 DEF NotFound, Store
  <2>2. KV!DoStore(p)
    BY <1>k, <1>1, <1>2, <1>3, <1>7, <2>1
       DEF KV!DoStore, KV!Effect, KV!Res, KV!Pending, Res, Pending
  <2> QED BY <2>2 DEF MapStep, KV!Next
<1>8. CASE call[p] \in Store /\ call[p].flag # "replace"
  <2>1. ret' = ret
    BY <1>0, <1>1, <1>8 DEF NotFound, Store
  <2> QED BY <1>3, <2>1 DEF MapStep
<1> QED BY <1>1, <1>5, <1>6, <1>7, <1>8

\* A step that reads leaves the map alone.
LEMMA QuietMap ==
  ASSUME NEW p \in Proc, Running(p), pc[p] \notin OwnPC
  PROVE  kvMap' = kvMap
<1>1. \A j \in Key : kvMap'[j] = kvMap[j]
  BY KvKept
<1> QED BY <1>1, KvAll

LEMMA ReadHeadMap ==
  ASSUME NEW p \in Proc, Running(p), ReadHead(p)
  PROVE  MapStep
<1>1. CASE ptr[db[p].ptroff] = 0
  <2>1. Live(call[p].key) = {}
    BY <1>1 DEF Running, View, KeyAt, ReadHead
  <2> QED BY <1>1, <2>1, NotFoundMap DEF ReadHead
<1>2. CASE ptr[db[p].ptroff] # 0
  BY <1>2, QuietMap DEF ReadHead, OwnPC, MapStep
<1> QED BY <1>1, <1>2

LEMMA ReadBodyMap ==
  ASSUME NEW p \in Proc, Running(p), ReadBody(p)
  PROVE  MapStep
<1>0. /\ ret \in [Proc -> Result] /\ CallAt(p) /\ IExcl /\ RetAt(p) /\ IFormat
      /\ db[p] \in Handle /\ pc \in [Proc -> PC]
  BY DEF Running, Calm, ILists, IFormat, IType, TypeOK, CallOK, IMap, MapAt
<1>k. PICK k : k = call[p].key
  OBVIOUS
<1>x. PICK x : x = db[p].idxoff
  OBVIOUS
<1>h. PICK h : h = BodyOf(db[p])
  OBVIOUS
<1>1. /\ call[p] \in Fetch \cup Delete \cup Store /\ pc[p] \in ChainPC /\ k \in Key
      /\ ret[p] = Pending /\ x \in Allocated /\ pc[p] = "body"
  BY <1>0, <1>k, <1>x, OneWriter DEF ReadBody, CallAt, FindPC, ChainPC, RetAt, WaitPC,
     IFormat, HandlesOK, HandleOK, HasHdr
<1>2. h.key = rec[x].key /\ h.ptrval = db[p].ptrval
  BY <1>0, <1>x, <1>h DEF BodyOf, Handle
<1>3. /\ IF h.key = call[p].key THEN Found(p, h.datlen)
         ELSE IF h.ptrval = 0 THEN NotFound(p) ELSE UNCHANGED ret
      /\ UNCHANGED call
  BY <1>0, <1>h DEF ReadBody, Running, Present, Gone, Goto
<1>4. kvMap' = kvMap
  BY <1>1, QuietMap DEF OwnPC
<1>5. CASE rec[x].key # k
  <2>1. h.ptrval = 0 => Live(call[p].key) = {}
    BY <1>k, <1>x, <1>1, <1>2, <1>5 DEF Running, View, KeyAt
  <2> QED BY <1>k, <1>1, <1>2, <1>3, <1>4, <1>5, <2>1, NotFoundMap DEF MapStep
<1>6. CASE rec[x].key = k
  <2>1. Found(p, h.datlen)
    BY <1>k, <1>2, <1>3, <1>6
  <2>2. CASE call[p] \in Store /\ call[p].flag = "insert"
    <3>1. ret' = [ret EXCEPT ![p] = Res("1")]
      BY <2>1, <2>2 DEF Found, Store
    <3>2. kvMap[k] # Blank
      <4>1. ~Replacing(p, k) /\ x \in Live(k) /\ pc[p] \notin BlankedPC
        BY <1>1, <1>6 DEF Replacing, Live, BlankedPC
      <4> QED BY <1>k, <1>1, <4>1, KvNow
    <3>3. KV!DoStore(p)
      BY <1>k, <1>1, <1>3, <1>4, <2>2, <3>1, <3>2
         DEF KV!DoStore, KV!Effect, KV!Res, KV!Pending, Res, Pending
    <3> QED BY <3>3 DEF MapStep, KV!Next
  <2>3. CASE ~(call[p] \in Store /\ call[p].flag = "insert")
    <3>1. ret' = ret
      BY <1>0, <1>1, <2>1, <2>3 DEF Found, Fetch, Delete, Store
    <3> QED BY <1>3, <1>4, <3>1 DEF MapStep
  <2> QED BY <2>2, <2>3
<1> QED BY <1>5, <1>6

\* db_fetch and db_nextrec have read the data.
LEMMA ReadDatMap ==
  ASSUME NEW p \in Proc, Running(p), ReadDat(p)
  PROVE  MapStep
<1>0. /\ CallAt(p) /\ IExcl /\ RetAt(p) /\ IFormat /\ View /\ Scans(p) /\ Filled
      /\ pc \in [Proc -> PC]
  BY DEF Running, Calm, ILists, IFormat, IType, TypeOK, CallOK, IMap, MapAt
<1>x. PICK x : x = db[p].idxoff
  OBVIOUS
<1>1. /\ x \in Allocated /\ db[p].datoff = rec[x].datoff /\ ret[p] = Pending
      /\ pc[p] \in {"dat", "nx_dat"}
  BY <1>0, <1>x DEF ReadDat, IFormat, HandlesOK, HandleOK, HasBody, RetAt, WaitPC, NextPC
<1>2. /\ ret' = [ret EXCEPT ![p] = [rc |-> "ptr", val |-> dat[rec[x].datoff].val,
                     key |-> IF pc[p] = "dat" THEN Blank ELSE db[p].key]]
      /\ UNCHANGED call
  BY <1>0, <1>1 DEF ReadDat, Running, Present, Gone, Goto
<1>3. kvMap' = kvMap
  BY <1>1, QuietMap DEF OwnPC
<1>4. CASE pc[p] = "dat"
  <2>k. PICK k : k = call[p].key
    OBVIOUS
  <2>1. call[p] \in Fetch /\ pc[p] \in ChainPC /\ k \in Key
    BY <1>0, <1>4, <2>k, OneWriter DEF CallAt, ChainPC, FindPC
  <2>2. ~Replacing(p, k) /\ x \in Live(k) /\ pc[p] \notin BlankedPC
    BY <1>0, <1>4, <1>x, <2>k DEF Replacing, View, KeyAt, FoundPC, BlankedPC
  <2>3. kvMap[k] = dat[rec[x].datoff].val /\ kvMap[k] # Blank
    BY <2>k, <2>1, <2>2, KvNow
  <2>4. KV!DoFetch(p)
    BY <1>1, <1>2, <1>3, <1>4, <2>k, <2>1, <2>3
       DEF KV!DoFetch, KV!Effect, KV!Ptr, KV!Res, KV!Pending, Res, Pending
  <2> QED BY <2>4 DEF MapStep, KV!Next
<1>5. CASE pc[p] = "nx_dat"
  <2>k. PICK k : k = db[p].key
    OBVIOUS
  <2>1. call[p] \in Nextrec /\ k \in Key /\ x \in Live(k) /\ k # Blank
    BY <1>0, <1>1, <1>5, <1>x, <2>k, DbConst DEF CallAt, NextPC, Scans, Live
  <2>2. ASSUME NEW q \in Proc PROVE pc[q] \notin {"del_free", "del_idx", "del_head", "del_link", "del_unlock"}
    <3>1. Exclusion
      BY <1>0, ExclHolds
    <3> QED BY <1>5, <3>1 DEF Exclusion, ListPC, ScanPC, NextPC, DelPC
  <2>3. ASSUME NEW q \in Proc, Replacing(q, k) PROVE FALSE
    <3>1. pc[q] \in AbsentPC \ LinkPC /\ call[q].key = k
      BY <2>2, <2>3 DEF Replacing, AbsentPC, StorePC, LinkPC
    <3> QED BY <1>0, <2>1, <3>1 DEF View, KeyAt
  <2>4. kvMap[k] = dat[rec[x].datoff].val
    BY <1>0, <2>1, <2>3, KvAlways DEF KvIs, View
  <2>5. kvMap[k] # Blank
    <3>1. rec[x].key # Blank
      BY <2>1 DEF Live
    <3> QED BY <1>0, <1>1, <2>2, <2>4, <3>1 DEF Filled, BlankedPC
  <2>6. KV!Effect(p, kvMap, KV!Ptr(k, kvMap[k]))
    BY <1>1, <1>2, <1>3, <1>5, <2>k, <2>4
       DEF KV!Effect, KV!Ptr, KV!Res, KV!Pending, Res, Pending
  <2>7. KV!DoNextrec(p)
    BY <2>1, <2>5, <2>6 DEF KV!DoNextrec
  <2> QED BY <2>7 DEF MapStep, KV!Next
<1> QED BY <1>1, <1>4, <1>5

LEMMA NextHdrMap ==
  ASSUME NEW p \in Proc, Running(p), NextHdr(p)
  PROVE  MapStep
<1>0. CallAt(p) /\ RetAt(p) /\ pc \in [Proc -> PC] /\ pc[p] = "nx_hdr"
  BY DEF Running, Calm, ILists, IFormat, IType, TypeOK, CallOK, IMap, MapAt, NextHdr
<1>1. kvMap' = kvMap
  BY <1>0, QuietMap DEF OwnPC
<1>2. call[p] \in Nextrec /\ ret[p] = Pending
  BY <1>0 DEF CallAt, NextPC, RetAt, WaitPC
<1>3. UNCHANGED call /\ (ret' = ret \/ ret' = [ret EXCEPT ![p] = Res("null")])
  BY <1>0 DEF NextHdr, Running, Present, Gone, Goto
<1>4. CASE ret' = ret
  BY <1>1, <1>3, <1>4 DEF MapStep
<1>5. CASE ret' = [ret EXCEPT ![p] = Res("null")]
  <2>1. KV!DoNextrec(p)
    BY <1>1, <1>2, <1>3, <1>5
       DEF KV!DoNextrec, KV!Effect, KV!Res, KV!Pending, Res, Pending
  <2> QED BY <2>1 DEF MapStep, KV!Next
<1> QED BY <1>3, <1>4, <1>5

LEMMA CallMap ==
  ASSUME NEW p \in Proc, Running(p), (\E e \in Calls : Call(p, e)) \/ Return(p)
  PROVE  MapStep
<1>0. CallAt(p) /\ RetAt(p)
  BY DEF Running, Calm, ILists, IFormat, IType, CallOK, IMap, MapAt
<1>1. kvMap' = kvMap
  BY QuietMap DEF OwnPC, Call, Return
<1>2. CASE \E e \in Calls : Call(p, e)
  <2>1. PICK e \in Calls : Call(p, e)
    BY <1>2
  <2>2. KV!Invoke(p, e)
    BY <1>0, <1>1, <2>1 DEF KV!Invoke, Call, CallAt
  <2> QED BY <2>2 DEF MapStep, KV!Next, Calls
<1>3. CASE Return(p)
  <2>1. call[p] # NoCall /\ ret[p] # Pending
    <3>1. call[p] \in Fetch \cup Delete \cup Store \cup Nextrec
      BY <1>0, <1>3 DEF Return, CallAt, FindPC, NextPC
    <3>2. call[p].op # "none"
      BY <3>1 DEF Fetch, Delete, Store, Nextrec
    <3> QED BY <1>0, <1>3, <3>2 DEF Return, RetAt, NoCall
  <2>2. KV!Return(p)
    BY <1>1, <1>3, <2>1 DEF KV!Return, KV!Pending, KV!Res, Return, Pending, Res
  <2> QED BY <2>2 DEF MapStep, KV!Next
<1> QED BY <1>2, <1>3

\* Nobody else is replacing the data of a key whose chain p is in.
LEMMA NoneElse ==
  ASSUME NEW p \in Proc, Running(p), pc[p] \in ChainPC, NEW k \in Key, k = call[p].key,
         NEW q \in Proc \ {p}
  PROVE  ~Replacing(q, k) /\ ~Replacing(q, k)'
<1>0. IExcl
  BY DEF Running, Calm, ILists
<1>1. ~Replacing(q, k)
  <2> SUFFICES ASSUME Replacing(q, k) PROVE FALSE
    OBVIOUS
  <2>1. pc[q] \in DelPC \cup FreePC \cup StorePC /\ call[q].key = k /\ call[q].op # "fetch"
    BY DEF Replacing, DelPC, StorePC
  <2> QED BY <1>0, <2>1, OneWriter
<1>2. Replacing(q, k)' <=> Replacing(q, k)
  BY DEF Running, Others, Replacing
<1> QED BY <1>1, <1>2

\* The map after a step of p that writes: the new data of its own key.
LEMMA OwnKey ==
  ASSUME NEW p \in Proc, Running(p), pc[p] \in ChainPC, NEW k \in Key, k = call[p].key
  PROVE  /\ Replacing(p, k)' => kvMap' = [kvMap EXCEPT ![k] = call'[p].data]
         /\ ~Replacing(p, k)' =>
              /\ Live(k)' = {} => kvMap' = [kvMap EXCEPT ![k] = Blank]
              /\ \A s \in Live(k)' : kvMap' = [kvMap EXCEPT ![k] = dat'[rec'[s].datoff].val]
<1>0. IExcl' /\ Once'
  BY DEF Running, Calm, ILists, View
<1>1. \A j \in Key \ {k} : kvMap'[j] = kvMap[j]
  BY KvKept
<1>2. \A v : kvMap'[k] = v => kvMap' = [kvMap EXCEPT ![k] = v]
  BY <1>1, KvOne
<1>3. Replacing(p, k)' => kvMap'[k] = call'[p].data
  BY <1>0, KvNext DEF KvIs
<1>4. ~Replacing(p, k)' => \A q \in Proc : ~Replacing(q, k)'
  BY NoneElse
<1>5. ~Replacing(p, k)' =>
         /\ Live(k)' = {} => kvMap'[k] = Blank
         /\ \A s \in Live(k)' : kvMap'[k] = dat'[rec'[s].datoff].val
  BY <1>0, <1>4, KvNext DEF KvIs
<1> QED BY <1>2, <1>3, <1>5

\* A call that takes effect with the result 0.
LEMMA Takes ==
  ASSUME NEW p \in Proc, Running(p), ret[p] = Pending, UNCHANGED call,
         ret' = [ret EXCEPT ![p] = Res("0")], NEW k \in Key, k = call[p].key,
         \/ /\ call[p] \in Delete /\ kvMap[k] # Blank
            /\ kvMap' = [kvMap EXCEPT ![k] = Blank]
         \/ /\ call[p] \in Store /\ kvMap' = [kvMap EXCEPT ![k] = call[p].data]
            /\ kvMap[k] # Blank => call[p].flag # "insert"
            /\ kvMap[k] = Blank => call[p].flag # "replace"
  PROVE  MapStep
<1>1. CASE call[p] \in Delete /\ kvMap[k] # Blank /\ kvMap' = [kvMap EXCEPT ![k] = Blank]
  <2>1. KV!DoDelete(p)
    BY <1>1 DEF KV!DoDelete, KV!Effect, KV!Res, KV!Pending, Res, Pending
  <2> QED BY <2>1 DEF MapStep, KV!Next
<1>2. CASE /\ call[p] \in Store /\ kvMap' = [kvMap EXCEPT ![k] = call[p].data]
           /\ kvMap[k] # Blank => call[p].flag # "insert"
           /\ kvMap[k] = Blank => call[p].flag # "replace"
  <2>1. KV!DoStore(p)
    BY <1>2 DEF KV!DoStore, KV!Effect, KV!Res, KV!Pending, Res, Pending
  <2> QED BY <2>1 DEF MapStep, KV!Next
<1> QED BY <1>1, <1>2

\* What the invariants say of a process that writes.
LEMMA Writer ==
  ASSUME NEW p \in Proc, Running(p), pc[p] \in OwnPC
  PROVE  /\ pc[p] \in ChainPC /\ call[p].key \in Key /\ call[p] \in Delete \cup Store
         /\ pc[p] \notin DelPC => call[p] \in Store
         /\ MapAt(p) /\ KeyAt(p) /\ KeyAt(p)' /\ IFormat /\ Grows
         /\ db \in [Proc -> Handle] /\ db[p] \in Handle /\ pc \in [Proc -> PC]
         /\ ret \in [Proc -> Result]
         /\ rec \in [RecOff -> Slot] /\ dat \in Seq(DatRec) /\ Len(dat) \in Nat
         /\ pc[p] # "ap_idx" =>
              /\ db[p].idxoff \in Allocated /\ db[p].idxoff \in RecOff
              /\ db[p].datoff = rec[db[p].idxoff].datoff
              /\ db[p].datoff \in 1 .. Len(dat)
<1>0. IExcl /\ IFormat /\ CallAt(p) /\ HandleOK(p) /\ Grows
  BY DEF Running, Calm, ILists, IFormat, HandlesOK, IType, CallOK
<1>1. pc[p] \in DelPC \cup StorePC /\ pc[p] \in ChainPC /\ call[p].key \in Key
  BY <1>0, OneWriter DEF OwnPC, DelPC, StorePC, ChainPC
<1>2. call[p] \in Delete \cup Store /\ (pc[p] \notin DelPC => call[p] \in Store)
  BY <1>0, <1>1 DEF CallAt
<1>3. MapAt(p) /\ KeyAt(p) /\ KeyAt(p)'
  BY DEF Running, IMap, View
<1>4. /\ db \in [Proc -> Handle] /\ db[p] \in Handle /\ pc \in [Proc -> PC]
      /\ ret \in [Proc -> Result]
      /\ rec \in [RecOff -> Slot] /\ dat \in Seq(DatRec) /\ Len(dat) \in Nat
  BY <1>0 DEF IFormat, IType, TypeOK
<1>5. pc[p] # "ap_idx" =>
        db[p].idxoff \in Allocated /\ db[p].datoff = rec[db[p].idxoff].datoff
  BY <1>0 DEF HandleOK, HasBody, OwnPC, DelPC
<1>6. pc[p] # "ap_idx" => db[p].idxoff \in RecOff /\ db[p].datoff \in 1 .. Len(dat)
  BY <1>0, <1>5 DEF IFormat, DatOK, Allocated
<1> QED BY <1>0, <1>1, <1>2, <1>3, <1>4, <1>5, <1>6

\* The old data is blanked, or overwritten by data of the same length.
LEMMA DatMap ==
  ASSUME NEW p \in Proc, Running(p), DelDat(p) \/ RewriteDat(p)
  PROVE  MapStep
<1>k. PICK k : k = call[p].key
  OBVIOUS
<1>x. PICK x : x = db[p].idxoff
  OBVIOUS
<1>1. pc[p] \in {"del_dat", "rw_dat"}
  BY DEF DelDat, RewriteDat
<1>2. pc[p] \in OwnPC
  BY <1>1 DEF OwnPC
<1>3. /\ pc[p] \in ChainPC /\ k \in Key /\ call[p] \in Delete \cup Store
      /\ pc[p] = "rw_dat" => call[p] \in Store
      /\ ret[p] = Pending /\ x \in Live(k) /\ call[p].flag # "insert"
      /\ x \in Allocated /\ x \in RecOff /\ db[p].datoff = rec[x].datoff
      /\ rec[x].datoff \in 1 .. Len(dat) /\ dat \in Seq(DatRec) /\ pc \in [Proc -> PC]
  BY <1>k, <1>x, <1>1, <1>2, Writer
     DEF MapAt, RetAt, WaitPC, KeyAt, FoundPC, FlagAt, DelPC
<1>4. kvMap[k] # Blank
  <2>1. ~Replacing(p, k) /\ pc[p] \notin BlankedPC
    BY <1>1 DEF Replacing, BlankedPC
  <2> QED BY <1>k, <1>3, <2>1, KvNow
<1>5. /\ UNCHANGED call /\ ret' = [ret EXCEPT ![p] = Res("0")] /\ rec' = rec
      /\ idxEnd' = idxEnd
  BY DEF DelDat, RewriteDat
<1>6. x \in Live(k)' /\ rec'[x].datoff = rec[x].datoff
  BY <1>3, <1>5 DEF Live, Allocated
<1>7. CASE DelDat(p) /\ call[p] \in Store
  <2>1. Replacing(p, k)'
    BY <1>k, <1>3, <1>5, <1>7 DEF DelDat, Goto, Replacing, Store
  <2>2. kvMap' = [kvMap EXCEPT ![k] = call[p].data]
    BY <1>k, <1>3, <1>5, <2>1, OwnKey
  <2> QED BY <1>k, <1>3, <1>4, <1>5, <1>7, <2>2, Takes
<1>8. CASE DelDat(p) /\ call[p] \in Delete
  <2>1. ~Replacing(p, k)'
    BY <1>5, <1>8 DEF Replacing, Delete
  <2>2. dat'[rec[x].datoff].val = Blank
    BY <1>3, <1>8 DEF DelDat
  <2>3. kvMap' = [kvMap EXCEPT ![k] = Blank]
    BY <1>k, <1>3, <1>6, <2>1, <2>2, OwnKey
  <2> QED BY <1>k, <1>3, <1>4, <1>5, <1>8, <2>3, Takes
<1>9. CASE RewriteDat(p)
  <2>1. pc'[p] = "unlock" /\ call[p] \in Store
    BY <1>3, <1>9 DEF RewriteDat, Goto
  <2>2. ~Replacing(p, k)'
    BY <2>1 DEF Replacing
  <2>3. dat'[rec[x].datoff].val = call[p].data
    BY <1>3, <1>9 DEF RewriteDat, NewData
  <2>4. kvMap' = [kvMap EXCEPT ![k] = call[p].data]
    BY <1>k, <1>3, <1>6, <2>2, <2>3, OwnKey
  <2> QED BY <1>k, <1>3, <1>4, <1>5, <2>1, <2>4, Takes
<1> QED BY <1>3, <1>7, <1>8, <1>9

\* A new index record carries the key.
LEMMA IdxMap ==
  ASSUME NEW p \in Proc, Running(p), ReuseIdx(p) \/ AppIdx(p)
  PROVE  MapStep
<1>k. PICK k : k = call[p].key
  OBVIOUS
<1>1. pc[p] \in {"ru_idx", "ap_idx"} /\ pc[p] \in OwnPC
  BY DEF ReuseIdx, AppIdx, OwnPC
<1>2. /\ pc[p] \in ChainPC /\ k \in Key /\ call[p] \in Store /\ Live(k) = {}
      /\ ret[p] \in {Pending, Res("0")} /\ (pc[p] = "ru_idx" => ret[p] = Pending)
      /\ dat[db[p].datoff].val = call[p].data
      /\ ret[p] = Pending => call[p].flag # "replace"
      /\ ret \in [Proc -> Result] /\ pc \in [Proc -> PC]
  <2>1. /\ pc[p] \in ChainPC /\ k \in Key /\ call[p] \in Store /\ MapAt(p) /\ KeyAt(p)
        /\ ret \in [Proc -> Result] /\ pc \in [Proc -> PC]
    BY <1>k, <1>1, Writer DEF DelPC
  <2>2. Live(k) = {}
    BY <1>k, <1>1, <2>1 DEF KeyAt, AbsentPC, LinkPC, StorePC
  <2> QED BY <1>1, <2>1, <2>2 DEF MapAt, RetAt, WaitPC, AppendPC, NewDatPC, Fresh, FlagAt
<1>3. /\ UNCHANGED call /\ ret' = [ret EXCEPT ![p] = Res("0")] /\ dat' = dat
      /\ pc'[p] \in {"st_link", "ap_iunlock"}
  BY <1>2 DEF ReuseIdx, AppIdx, Goto
<1>4. \E s \in Live(k)' : rec'[s].datoff = db[p].datoff
  <2>1. CASE ReuseIdx(p)
    <3>1. db[p].idxoff \in Allocated /\ db[p].idxoff \in RecOff /\ rec \in [RecOff -> Slot]
      BY <1>1, <2>1, Writer DEF ReuseIdx
    <3>2. rec'[db[p].idxoff] = NewSlot(p) /\ idxEnd' = idxEnd
      BY <2>1, <3>1 DEF ReuseIdx
    <3>3. db[p].idxoff \in Live(k)'
      BY <1>k, <3>1, <3>2 DEF Live, Allocated, NewSlot
    <3> QED BY <3>2, <3>3 DEF NewSlot
  <2>2. CASE AppIdx(p)
    <3>0. rec \in [RecOff -> Slot] /\ idxEnd \in FirstRec .. MaxOff + 1 /\ idxEnd <= MaxOff
      BY <2>2 DEF Running, Calm, ILists, IFormat, IType, TypeOK, AppIdx
    <3>1. idxEnd \in RecOff /\ idxEnd < idxEnd + 1
      BY <3>0, DbConst DEF RecOff, FirstRec
    <3>2. rec'[idxEnd] = NewSlot(p) /\ idxEnd' = idxEnd + 1
      BY <2>2, <3>0, <3>1 DEF AppIdx
    <3>3. idxEnd \in Live(k)'
      BY <1>k, <3>1, <3>2 DEF Live, Allocated, NewSlot
    <3> QED BY <3>2, <3>3 DEF NewSlot
  <2> QED BY <2>1, <2>2
<1>5. kvMap' = [kvMap EXCEPT ![k] = call[p].data]
  <2>1. ~Replacing(p, k)'
    BY <1>3 DEF Replacing
  <2> QED BY <1>k, <1>2, <1>3, <1>4, <2>1, OwnKey
<1>6. CASE ret[p] = Pending
  <2>1. kvMap[k] = Blank
    <3>1. ~Replacing(p, k)
      BY <1>1, <1>6 DEF Replacing, Pending, Res
    <3> QED BY <1>k, <1>2, <3>1, KvNow
  <2> QED BY <1>k, <1>2, <1>3, <1>5, <1>6, <2>1, Takes
<1>7. CASE ret[p] = Res("0")
  <2>1. Replacing(p, k)
    <3>1. pc[p] = "ap_idx"
      BY <1>1, <1>2, <1>7, Results
    <3> QED BY <1>k, <1>2, <1>7, <3>1 DEF Replacing, Store, Res
  <2>2. kvMap[k] = call[p].data
    BY <1>2, <2>1, KvAlways DEF KvIs, Running, Calm, ILists, View
  <2>3. kvMap' = kvMap
    BY <1>5, <2>2 DEF kvMap
  <2>4. ret' = ret
    BY <1>2, <1>3, <1>7
  <2> QED BY <1>3, <2>3, <2>4 DEF MapStep
<1> QED BY <1>2, <1>6, <1>7

\* The deleted record loses its key when its data is already gone.
LEMMA DelIdxMap ==
  ASSUME NEW p \in Proc, Running(p), DelIdx(p)
  PROVE  kvMap' = kvMap
<1>k. PICK k : k = call[p].key
  OBVIOUS
<1>x. PICK x : x = db[p].idxoff
  OBVIOUS
<1>1. pc[p] = "del_idx" /\ pc[p] \in OwnPC /\ UNCHANGED <<call, ret>>
  BY DEF DelIdx, OwnPC
<1>2. /\ pc[p] \in ChainPC /\ k \in Key /\ call[p] \in Delete \cup Store
      /\ x \in Live(k) /\ dat[rec[x].datoff].val = Blank /\ pc'[p] = "del_head"
      /\ Live(k)' = {}
  <2>1. /\ pc[p] \in ChainPC /\ k \in Key /\ call[p] \in Delete \cup Store /\ MapAt(p)
        /\ KeyAt(p) /\ KeyAt(p)' /\ pc \in [Proc -> PC] /\ db[p].datoff = rec[x].datoff
    BY <1>k, <1>x, <1>1, Writer
  <2>2. pc'[p] = "del_head"
    BY <2>1 DEF DelIdx, Goto
  <2>3. x \in Live(k) /\ dat[rec[x].datoff].val = Blank
    BY <1>k, <1>x, <1>1, <2>1 DEF KeyAt, FoundPC, MapAt, Fresh, BlankedPC
  <2>4. Live(k)' = {}
    BY <1>k, <1>1, <2>1, <2>2 DEF KeyAt, AbsentPC, LinkPC
  <2> QED BY <2>1, <2>2, <2>3, <2>4
<1>3. IExcl /\ Once
  BY DEF Running, Calm, ILists, View
<1>4. CASE call[p] \in Store
  <2>1. Replacing(p, k) /\ Replacing(p, k)'
    BY <1>k, <1>1, <1>2, <1>4 DEF Replacing, Store
  <2>2. kvMap[k] = call[p].data
    BY <1>2, <1>3, <2>1, KvAlways DEF KvIs
  <2>3. kvMap' = [kvMap EXCEPT ![k] = call[p].data]
    BY <1>k, <1>1, <1>2, <2>1, OwnKey
  <2> QED BY <2>2, <2>3 DEF kvMap
<1>5. CASE call[p] \in Delete
  <2>1. ~Replacing(p, k) /\ ~Replacing(p, k)'
    BY <1>1, <1>5 DEF Replacing, Delete
  <2>2. \A q \in Proc : ~Replacing(q, k)
    BY <1>k, <1>2, <2>1, NoneElse
  <2>3. kvMap[k] = Blank
    BY <1>2, <1>3, <2>2, KvAlways DEF KvIs
  <2>4. kvMap' = [kvMap EXCEPT ![k] = Blank]
    BY <1>k, <1>2, <2>1, OwnKey
  <2> QED BY <2>3, <2>4 DEF kvMap
<1> QED BY <1>2, <1>4, <1>5

-----------------------------------------------------------------------------
(* The theorem.                                                            *)

LEMMA HiddenMap ==
  ASSUME NEW p \in Proc, Running(p), Hidden(p)
  PROVE  MapStep
<1>0. IType /\ Present(p)
  BY DEF Running, Calm, ILists, IExcl
<1>1. UNCHANGED <<call, ret>>
  BY <1>0, HiddenStep
<1>2. CASE DelIdx(p)
  BY <1>1, <1>2, DelIdxMap DEF MapStep
<1>3. CASE ~DelIdx(p)
  <2>1. pc[p] \notin OwnPC
    <3> USE DEF OwnPC
    <3>1. CASE LockChain(p) \/ ReadHdr(p) \/ DelLock(p) \/ DelFree(p) \/ DelHead(p) \/ DelLink(p)
      BY <3>1 DEF LockChain, ReadHdr, DelLock, DelFree, DelHead, DelLink
    <3>2. CASE DelUnlock(p) \/ StoreHead(p) \/ FreeLock(p) \/ FreeHead(p) \/ FreeBody(p) \/ FreeTake(p)
      BY <3>2 DEF DelUnlock, StoreHead, FreeLock, FreeHead, FreeBody, FreeTake
    <3>3. CASE FreeUnlock(p) \/ AppDatLock(p) \/ AppDat(p) \/ AppDatUnlock(p) \/ AppIdxLock(p)
      BY <3>3 DEF FreeUnlock, AppDatLock, AppDat, AppDatUnlock, AppIdxLock
    <3>4. CASE AppIdxUnlock(p) \/ ReuseDat(p) \/ StoreLink(p) \/ NextLock(p) \/ NextBody(p) \/ db_rewind(p)
      BY <3>4 DEF AppIdxUnlock, ReuseDat, StoreLink, NextLock, NextBody, db_rewind
    <3> QED BY <1>3, <3>1, <3>2, <3>3, <3>4 DEF Hidden
  <2> QED BY <1>1, <2>1, QuietMap DEF MapStep
<1> QED BY <1>2, <1>3

LEMMA RunsMap ==
  ASSUME NEW p \in Proc, Running(p)
  PROVE  MapStep
<1>1. Runs(p)
  BY DEF Running
<1>2. CASE Hidden(p)
  BY <1>2, HiddenMap
<1>3. CASE SetsRet(p)
  BY <1>3, ReadHeadMap, ReadBodyMap, ReadDatMap, NextHdrMap, DatMap, IdxMap DEF SetsRet
<1> QED BY <1>1, <1>2, <1>3, CallMap, RunsCases

IMapped == Calm /\ IMap

\* The library implements the atomic map, for any number of processes, keys,
\* chains and records: db_fetch, db_delete and db_store take effect in one
\* of their system calls and return what the map holds then, and db_nextrec
\* returns a pair that is bound at that moment.  No process is killed, and
\* the index file stays within the offsets that a pointer field can hold.
THEOREM LibraryIsMap ==
  Rewinds /\ MaxCrash = 0 /\ MaxOff <= PTR_MAX => (Spec => Linearizable)
<1> SUFFICES ASSUME Rewinds, MaxCrash = 0, MaxOff <= PTR_MAX PROVE Spec => KV!Spec
  BY DEF Linearizable
<1>1. Init => IMapped
  BY ListsInit, MapInit DEF IMapped, Calm, Init
<1>2. Init => KV!Init
  <2> SUFFICES ASSUME Init PROVE KV!Init
    OBVIOUS
  <2>0. IExcl /\ Once
    <3>1. Calm
      BY <1>1 DEF IMapped
    <3> QED BY <3>1, ViewAlways DEF ViewIs, View, Calm, ILists
  <2>1. ASSUME NEW k \in Key PROVE kvMap[k] = Blank
    <3>1. Live(k) = {}
      BY DbConst DEF Init, Live, Allocated, RecOff, FirstRec
    <3>2. \A p \in Proc : ~Replacing(p, k)
      BY DEF Init, Replacing
    <3> QED BY <2>0, <3>1, <3>2, KvAlways DEF KvIs
  <2>2. kvMap = [k \in Key |-> Blank]
    BY <2>1 DEF kvMap
  <2> QED BY <2>2 DEF Init, KV!Init, KV!Pending, KV!Res, Pending, Res
<1>3. IMapped /\ [Next]_vars => IMapped' /\ [KV!Next]_<<kvMap, call, ret>>
  <2> SUFFICES ASSUME IMapped, [Next]_vars
               PROVE  IMapped' /\ [KV!Next]_<<kvMap, call, ret>>
    OBVIOUS
  <2>0. IFormat /\ IExcl /\ IType /\ IOwn /\ Calm /\ IMap /\ crashes = 0
    BY DEF IMapped, Calm, ILists, IExcl, IMap
  <2>1. IFormat' /\ Grows /\ IOwn' /\ crashes' = 0
    <3>1. IFormat' /\ Grows /\ IOwn'
      BY <2>0, FormatNext, OwnNext
    <3>2. crashes' \in 0 .. MaxCrash
      BY <3>1 DEF IFormat, IType, TypeOK
    <3> QED BY <3>1, <3>2
  <2>2. Calm'
    BY <2>0, <2>1, ListsNext DEF Calm
  <2>3. CASE UNCHANGED vars
    <3>1. IMap'
      BY <2>0, <2>3 DEF vars, IMap, IOwn, DataApart, NewApart, Filled, MapAt, Fresh, Scans,
         RetAt, FlagAt, Allocated
    <3>2. kvMap' = kvMap
      BY <2>3 DEF vars, kvMap, Replacing, Live, Allocated
    <3> QED BY <2>2, <2>3, <3>1, <3>2 DEF vars, IMapped
  <2>4. CASE Next
    <3>1. PICK p \in Proc : Runs(p) \/ Crash(p)
      BY <2>4 DEF Next, Runs
    <3>2. ~Crash(p)
      BY <2>0 DEF Crash
    <3>3. IMap'
      BY <2>0, <2>1, <3>1, <3>2, MapNext
    <3>4. Running(p)
      BY <2>0, <2>1, <2>2, <3>1, <3>2, RunningIs
    <3>5. MapStep
      BY <3>4, RunsMap
    <3> QED BY <2>2, <3>3, <3>5 DEF MapStep, IMapped
  <2> QED BY <2>3, <2>4
<1> QED BY <1>1, <1>2, <1>3, PTL DEF Spec, KV!Spec, KV!vars
=============================================================================
