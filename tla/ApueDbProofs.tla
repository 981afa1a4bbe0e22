---------------------------- MODULE ApueDbProofs ----------------------------
(***************************************************************************)
(* Proofs about ApueDb, for any number of processes, chains and records:   *)
(* types, locks and formats first, then the lists, which end, hold only    *)
(* their own records, and until a process is killed lose none.             *)
(***************************************************************************)
EXTENDS ApueDb, FiniteSetTheorems, WellFoundedInduction, TLAPS

(***************************************************************************)
(* The strengthening of TypeOK: which calls a process can be in at each    *)
(* label, and the labels at which its handle is positioned on a record.    *)
(***************************************************************************)
OnRecord == {"body", "ff_body", "nx_body", "dat", "nx_dat", "ff_take",
             "ff_done", "ru_dat", "ru_idx", "rw_dat"} \cup DelPC

CallAt(p) ==
  /\ pc[p] \in {"idle"} \cup GonePC => call[p] = NoCall
  /\ pc[p] \in FindPC \ {"dat"} => call[p] \in Fetch \cup Delete \cup Store
  /\ pc[p] = "dat" => call[p] \in Fetch
  /\ pc[p] \in DelPC => call[p] \in Delete \cup Store
  /\ pc[p] \in FreePC \cup StorePC => call[p] \in Store
  /\ pc[p] \in NextPC => call[p] \in Nextrec

CallOK == \A p \in Proc : CallAt(p)
RecordOK == \A p \in Proc : pc[p] \in OnRecord => db[p].idxoff \in RecOff

IType == TypeOK /\ CallOK /\ RecordOK

FilesType ==
  /\ ptr \in [Off -> Off]
  /\ rec \in [RecOff -> Slot]
  /\ idxEnd \in FirstRec .. MaxOff + 1
  /\ dat \in Seq(DatRec)

LocksType == rlk \in [Lock -> SUBSET Proc] /\ wlk \in [Lock -> SUBSET Proc]

-----------------------------------------------------------------------------
(* Facts about the helpers.                                                *)

LEMMA LockStep ==
  ASSUME LocksType, NEW l, NEW p \in Proc,
         ReadLock(l, p) \/ WriteLock(l, p) \/ UnLock(l, p) \/ DropLocks(p)
  PROVE  LocksType'
<1>1. CASE ReadLock(l, p) BY <1>1 DEF LocksType, ReadLock
<1>2. CASE WriteLock(l, p) BY <1>2 DEF LocksType, WriteLock
<1>3. CASE UnLock(l, p) BY <1>3 DEF LocksType, UnLock
<1>4. CASE DropLocks(p) BY <1>4 DEF LocksType, DropLocks
<1> QED BY <1>1, <1>2, <1>3, <1>4

LEMMA DB0Type == DB0 \in Handle
  BY DbConst DEF DB0, Handle, Off

LEMMA ResType == \A rc \in {"pending", "0", "1", "-1", "null"} : Res(rc) \in Result
  BY DEF Res, Result

LEMMA HandleOff ==
  ASSUME NEW h \in Handle, NEW o \in Off
  PROVE  /\ [h EXCEPT !.offset = o] \in Handle
         /\ [h EXCEPT !.idxoff = o] \in Handle
         /\ [h EXCEPT !.ptrval = o] \in Handle
         /\ [h EXCEPT !.ptroff = o] \in Handle
         /\ [h EXCEPT !.saveoff = o] \in Handle
         /\ [h EXCEPT !.freeptr = o] \in Handle
         /\ [h EXCEPT !.hptr = o] \in Handle
  BY DEF Handle

LEMMA HandleDat ==
  ASSUME NEW h \in Handle, NEW o \in Nat, NEW n \in Nat
  PROVE  /\ [h EXCEPT !.datlen = n] \in Handle
         /\ [h EXCEPT !.datoff = o, !.datlen = n] \in Handle
  BY DEF Handle

LEMMA HandleHdr ==
  ASSUME NEW h \in Handle, NEW o \in Off, NEW q \in Off,
         NEW n \in Nat \X Nat \X Nat
  PROVE  /\ [h EXCEPT !.idxoff = o, !.ptrval = q, !.idxlen = n] \in Handle
         /\ [h EXCEPT !.idxoff = o, !.ptrval = q, !.idxlen = n].idxoff = o
  BY DEF Handle

LEMMA DatUpd ==
  ASSUME NEW d \in Seq(DatRec), NEW r \in DatRec, NEW i
  PROVE  [d EXCEPT ![i] = r] \in Seq(DatRec) /\ Append(d, r) \in Seq(DatRec)
<1>1. Append(d, r) \in Seq(DatRec)
  OBVIOUS
<1>2. Len(d) \in Nat /\ d \in [1 .. Len(d) -> DatRec]
  OBVIOUS
<1>3. [d EXCEPT ![i] = r] \in [1 .. Len(d) -> DatRec]
  BY <1>2
<1>4. \A n \in Nat : \A f \in [1 .. n -> DatRec] : f \in Seq(DatRec)
  OBVIOUS
<1> QED BY <1>1, <1>2, <1>3, <1>4

LEMMA Layout ==
  /\ FREE_OFF \in Off /\ FREE_OFF \in Lock
  /\ RecOff \subseteq Off /\ 0 \notin RecOff
  /\ FirstRec \in RecOff
  /\ \A k \in Key : chainoff(k) \in Off /\ chainoff(k) \in Lock
  /\ DAT \in Lock /\ TAIL \in Lock
  /\ 0 \in Pos /\ FirstRec \in Pos
  BY DbConst
  DEF FREE_OFF, Off, Lock, DAT, TAIL, RecOff, FirstRec, chainoff, Pos

LEMMA TypeInit == Init => IType
<1> SUFFICES ASSUME Init PROVE IType OBVIOUS
<1>1. TypeOK
  BY DbConst, DB0Type, ResType, Layout
  DEF Init, TypeOK, Off, RecOff, FirstRec, NoSlot, Slot, Lock, DAT, PC, Pending
<1>2. CallOK /\ RecordOK
  BY DEF Init, CallOK, CallAt, RecordOK, OnRecord, FindPC, DelPC, FreePC,
         StorePC, NextPC, GonePC
<1> QED BY <1>1, <1>2 DEF IType

LEMMA GoneStep ==
  ASSUME IType, NEW p \in Proc, NEW how \in GonePC, Gone(p, how)
  PROVE  IType'
<1>1. LocksType'
  BY LockStep DEF IType, TypeOK, LocksType, Gone
<1>2. TypeOK'
  BY <1>1, DB0Type, ResType
  DEF IType, TypeOK, LocksType, Gone, Goto, files, Pending, PC, GonePC
<1>3. CallOK' /\ RecordOK'
  BY DEF IType, TypeOK, CallOK, CallAt, RecordOK, OnRecord, FindPC, DelPC,
         FreePC, StorePC, NextPC, GonePC, PC, Gone, Goto
<1> QED BY <1>2, <1>3 DEF IType

LEMMA LockChainStep ==
  ASSUME IType, NEW p \in Proc, LockChain(p)
  PROVE  IType'
<1>1. LocksType'
  BY LockStep DEF IType, TypeOK, LocksType, LockChain, ChainLock
<1>2. TypeOK'
  BY <1>1
  DEF IType, TypeOK, LocksType, LockChain, Goto, files, PC, FindPC
<1>3. CallOK' /\ RecordOK'
  BY DEF IType, TypeOK, CallOK, CallAt, RecordOK, OnRecord, FindPC, DelPC,
         FreePC, StorePC, NextPC, GonePC, PC, LockChain, Goto
<1> QED BY <1>2, <1>3 DEF IType

LEMMA DelLockStep ==
  ASSUME IType, NEW p \in Proc, DelLock(p)
  PROVE  IType'
<1>1. LocksType'
  BY LockStep DEF IType, TypeOK, LocksType, DelLock
<1>2. TypeOK'
  BY <1>1
  DEF IType, TypeOK, LocksType, DelLock, Goto, files, PC, FindPC, DelPC, FreePC,
      StorePC, NextPC
<1>3. CallOK' /\ RecordOK'
  BY DEF IType, TypeOK, CallOK, CallAt, RecordOK, OnRecord, FindPC, DelPC,
         FreePC, StorePC, NextPC, GonePC, PC, DelLock, Goto,
         Fetch, Delete, Store, Nextrec
<1> QED BY <1>2, <1>3 DEF IType

LEMMA DelUnlockStep ==
  ASSUME IType, NEW p \in Proc, DelUnlock(p)
  PROVE  IType'
<1>1. LocksType'
  BY LockStep DEF IType, TypeOK, LocksType, DelUnlock
<1>2. TypeOK'
  BY <1>1
  DEF IType, TypeOK, LocksType, DelUnlock, Goto, files, PC, FindPC, DelPC, FreePC,
      StorePC, NextPC
<1>3. CallOK' /\ RecordOK'
  BY DEF IType, TypeOK, CallOK, CallAt, RecordOK, OnRecord, FindPC, DelPC,
         FreePC, StorePC, NextPC, GonePC, PC, DelUnlock, Goto,
         Fetch, Delete, Store, Nextrec
<1> QED BY <1>2, <1>3 DEF IType

LEMMA FreeLockStep ==
  ASSUME IType, NEW p \in Proc, FreeLock(p)
  PROVE  IType'
<1>1. LocksType'
  BY LockStep DEF IType, TypeOK, LocksType, FreeLock
<1>2. TypeOK'
  BY <1>1
  DEF IType, TypeOK, LocksType, FreeLock, Goto, files, PC, FindPC, DelPC, FreePC,
      StorePC, NextPC
<1>3. CallOK' /\ RecordOK'
  BY DEF IType, TypeOK, CallOK, CallAt, RecordOK, OnRecord, FindPC, DelPC,
         FreePC, StorePC, NextPC, GonePC, PC, FreeLock, Goto,
         Fetch, Delete, Store, Nextrec
<1> QED BY <1>2, <1>3 DEF IType

LEMMA FreeUnlockStep ==
  ASSUME IType, NEW p \in Proc, FreeUnlock(p)
  PROVE  IType'
<1>1. LocksType'
  BY LockStep DEF IType, TypeOK, LocksType, FreeUnlock
<1>2. TypeOK'
  BY <1>1
  DEF IType, TypeOK, LocksType, FreeUnlock, Goto, files, PC, FindPC, DelPC, FreePC,
      StorePC, NextPC
<1>3. CallOK' /\ RecordOK'
  BY DEF IType, TypeOK, CallOK, CallAt, RecordOK, OnRecord, FindPC, DelPC,
         FreePC, StorePC, NextPC, GonePC, PC, FreeUnlock, Goto,
         Fetch, Delete, Store, Nextrec
<1> QED BY <1>2, <1>3 DEF IType

LEMMA AppDatLockStep ==
  ASSUME IType, NEW p \in Proc, AppDatLock(p)
  PROVE  IType'
<1>1. LocksType'
  BY LockStep DEF IType, TypeOK, LocksType, AppDatLock
<1>2. TypeOK'
  BY <1>1
  DEF IType, TypeOK, LocksType, AppDatLock, Goto, files, PC, FindPC, DelPC, FreePC,
      StorePC, NextPC
<1>3. CallOK' /\ RecordOK'
  BY DEF IType, TypeOK, CallOK, CallAt, RecordOK, OnRecord, FindPC, DelPC,
         FreePC, StorePC, NextPC, GonePC, PC, AppDatLock, Goto,
         Fetch, Delete, Store, Nextrec
<1> QED BY <1>2, <1>3 DEF IType

LEMMA AppDatUnlockStep ==
  ASSUME IType, NEW p \in Proc, AppDatUnlock(p)
  PROVE  IType'
<1>1. LocksType'
  BY LockStep DEF IType, TypeOK, LocksType, AppDatUnlock
<1>2. TypeOK'
  BY <1>1
  DEF IType, TypeOK, LocksType, AppDatUnlock, Goto, files, PC, FindPC, DelPC, FreePC,
      StorePC, NextPC
<1>3. CallOK' /\ RecordOK'
  BY DEF IType, TypeOK, CallOK, CallAt, RecordOK, OnRecord, FindPC, DelPC,
         FreePC, StorePC, NextPC, GonePC, PC, AppDatUnlock, Goto,
         Fetch, Delete, Store, Nextrec
<1> QED BY <1>2, <1>3 DEF IType

LEMMA AppIdxLockStep ==
  ASSUME IType, NEW p \in Proc, AppIdxLock(p)
  PROVE  IType'
<1>1. LocksType'
  BY LockStep DEF IType, TypeOK, LocksType, AppIdxLock
<1>2. TypeOK'
  BY <1>1
  DEF IType, TypeOK, LocksType, AppIdxLock, Goto, files, PC, FindPC, DelPC, FreePC,
      StorePC, NextPC
<1>3. CallOK' /\ RecordOK'
  BY DEF IType, TypeOK, CallOK, CallAt, RecordOK, OnRecord, FindPC, DelPC,
         FreePC, StorePC, NextPC, GonePC, PC, AppIdxLock, Goto,
         Fetch, Delete, Store, Nextrec
<1> QED BY <1>2, <1>3 DEF IType

LEMMA AppIdxUnlockStep ==
  ASSUME IType, NEW p \in Proc, AppIdxUnlock(p)
  PROVE  IType'
<1>1. LocksType'
  BY LockStep DEF IType, TypeOK, LocksType, AppIdxUnlock
<1>2. TypeOK'
  BY <1>1
  DEF IType, TypeOK, LocksType, AppIdxUnlock, Goto, files, PC, FindPC, DelPC, FreePC,
      StorePC, NextPC
<1>3. CallOK' /\ RecordOK'
  BY DEF IType, TypeOK, CallOK, CallAt, RecordOK, OnRecord, FindPC, DelPC,
         FreePC, StorePC, NextPC, GonePC, PC, AppIdxUnlock, Goto,
         Fetch, Delete, Store, Nextrec
<1> QED BY <1>2, <1>3 DEF IType

LEMMA NextLockStep ==
  ASSUME IType, NEW p \in Proc, NextLock(p)
  PROVE  IType'
<1>1. LocksType'
  BY LockStep DEF IType, TypeOK, LocksType, NextLock
<1>2. TypeOK'
  BY <1>1
  DEF IType, TypeOK, LocksType, NextLock, Goto, files, PC, FindPC, DelPC, FreePC,
      StorePC, NextPC
<1>3. CallOK' /\ RecordOK'
  BY DEF IType, TypeOK, CallOK, CallAt, RecordOK, OnRecord, FindPC, DelPC,
         FreePC, StorePC, NextPC, GonePC, PC, NextLock, Goto,
         Fetch, Delete, Store, Nextrec
<1> QED BY <1>2, <1>3 DEF IType

LEMMA FoundType ==
  ASSUME IType, NEW p \in Proc, NEW n, NotFound(p) \/ Found(p, n)
  PROVE  ret' \in [Proc -> Result] /\ pc' \in [Proc -> PC]
<1>0. ret \in [Proc -> Result] /\ pc \in [Proc -> PC]
  BY DEF IType, TypeOK
<1>1. CASE NotFound(p)
  <2>1. PICK r \in Result : ret' = [ret EXCEPT ![p] = r]
    BY <1>1, ResType DEF NotFound, Pending
  <2>2. PICK l \in PC : pc' = [pc EXCEPT ![p] = l]
    BY <1>1 DEF NotFound, Goto, PC, FindPC, StorePC
  <2> QED BY <1>0, <2>1, <2>2
<1>2. CASE Found(p, n)
  <2>1. PICK r \in Result : ret' = [ret EXCEPT ![p] = r]
    BY <1>2, ResType DEF Found, Pending
  <2>2. PICK l \in PC : pc' = [pc EXCEPT ![p] = l]
    BY <1>2 DEF Found, Goto, PC, FindPC, DelPC, StorePC
  <2> QED BY <1>0, <2>1, <2>2
<1> QED BY <1>1, <1>2

LEMMA ReadHeadStep ==
  ASSUME IType, NEW p \in Proc, ReadHead(p)
  PROVE  IType'
<1>0. db[p] \in Handle BY DEF IType, TypeOK
<1>1. db' \in [Proc -> Handle]
  <2>1. [db[p] EXCEPT !.offset = ptr[db[p].ptroff]] \in Handle
    BY <1>0, Layout, HandleOff, HandleDat, DbConst
    DEF IType, TypeOK, ReadHead, Handle
  <2> QED BY <2>1 DEF IType, TypeOK, ReadHead
<1>3. pc' \in [Proc -> PC]
  BY DEF IType, TypeOK, ReadHead, Goto, PC, FindPC, FreePC, StorePC, DelPC, NotFound
<1>4. FilesType'
  BY <1>0, ResType, Layout, DbConst
  DEF IType, TypeOK, FilesType, ReadHead, files
<1>5. /\ LocksType' /\ call' \in [Proc -> Calls \cup {NoCall}]
      /\ pos' \in [Proc -> Pos] /\ ret' \in [Proc -> Result]
      /\ crashes' \in 0 .. MaxCrash
  <2>1. ret' \in [Proc -> Result]
    <3>1. CASE ptr[db[p].ptroff] = 0
      BY <3>1, FoundType DEF ReadHead
    <3>2. CASE ptr[db[p].ptroff] # 0
      BY <3>2 DEF ReadHead, IType, TypeOK
    <3> QED BY <3>1, <3>2
  <2>2. pos' \in [Proc -> Pos]
    BY Layout DEF IType, TypeOK, ReadHead
  <2>3. UNCHANGED <<locks, call, crashes>>
    BY DEF ReadHead
  <2> QED BY <2>1, <2>2, <2>3 DEF IType, TypeOK, LocksType, locks
<1>6. TypeOK'
  BY <1>1, <1>3, <1>4, <1>5 DEF TypeOK, FilesType, LocksType
<1>7. CallOK' /\ RecordOK'
  BY Layout DEF IType, TypeOK, CallOK, CallAt, RecordOK, OnRecord, FindPC, DelPC,
         FreePC, StorePC, NextPC, GonePC, PC, ReadHead, Goto, NotFound, Fetch, Delete, Store
<1> QED BY <1>6, <1>7 DEF IType

LEMMA DelDatStep ==
  ASSUME IType, NEW p \in Proc, DelDat(p)
  PROVE  IType'
<1>0. db[p] \in Handle BY DEF IType, TypeOK
<1>2. dat' \in Seq(DatRec)
  <2>1. [val |-> Blank, len |-> db[p].datlen] \in DatRec
    BY <1>0, DbConst
    DEF IType, TypeOK, DelDat, CallOK, CallAt, DatRec, Handle, NewData, Store,
        StorePC, FreePC
  <2> QED BY <2>1, DatUpd DEF IType, TypeOK, DelDat
<1>3. TypeOK'
  BY <1>0, <1>2, ResType, Layout
  DEF IType, TypeOK, DelDat, Goto, files, locks, PC, FindPC, DelPC, FreePC,
      StorePC, NextPC
<1>4. CallOK' /\ RecordOK'
  BY DEF IType, TypeOK, CallOK, CallAt, RecordOK, OnRecord, FindPC, DelPC,
         FreePC, StorePC, NextPC, GonePC, PC, DelDat, Goto
<1> QED BY <1>3, <1>4 DEF IType

LEMMA DelFreeStep ==
  ASSUME IType, NEW p \in Proc, DelFree(p)
  PROVE  IType'
<1>0. db[p] \in Handle BY DEF IType, TypeOK
<1>1. db' \in [Proc -> Handle]
  <2>1. [db[p] EXCEPT !.freeptr = ptr[FREE_OFF]] \in Handle
    BY <1>0, Layout, HandleOff, HandleDat, DbConst
    DEF IType, TypeOK, DelFree
  <2> QED BY <2>1 DEF IType, TypeOK, DelFree
<1>3. pc' \in [Proc -> PC]
  BY DEF IType, TypeOK, DelFree, Goto, PC, FindPC, FreePC, StorePC, DelPC
<1>4. FilesType'
  BY <1>0, ResType, Layout, DbConst
  DEF IType, TypeOK, FilesType, DelFree, files
<1>5. /\ LocksType' /\ call' \in [Proc -> Calls \cup {NoCall}]
      /\ pos' \in [Proc -> Pos] /\ ret' \in [Proc -> Result]
      /\ crashes' \in 0 .. MaxCrash
  BY ResType, Layout
  DEF IType, TypeOK, LocksType, DelFree, locks
<1>6. TypeOK'
  BY <1>1, <1>3, <1>4, <1>5 DEF TypeOK, FilesType, LocksType
<1>7. CallOK' /\ RecordOK'
  BY DEF IType, TypeOK, CallOK, CallAt, RecordOK, OnRecord, FindPC, DelPC,
         FreePC, StorePC, NextPC, GonePC, PC, DelFree, Goto
<1> QED BY <1>6, <1>7 DEF IType

LEMMA DelIdxStep ==
  ASSUME IType, NEW p \in Proc, DelIdx(p)
  PROVE  IType'
<1>0. db[p] \in Handle BY DEF IType, TypeOK
<1>3. TypeOK'
  BY <1>0, ResType, Layout
  DEF IType, TypeOK, DelIdx, Goto, files, locks, PC, FindPC, DelPC, FreePC,
      StorePC, NextPC, Handle, Slot
<1>4. CallOK' /\ RecordOK'
  BY DEF IType, TypeOK, CallOK, CallAt, RecordOK, OnRecord, FindPC, DelPC,
         FreePC, StorePC, NextPC, GonePC, PC, DelIdx, Goto
<1> QED BY <1>3, <1>4 DEF IType

LEMMA DelHeadStep ==
  ASSUME IType, NEW p \in Proc, DelHead(p)
  PROVE  IType'
<1>0. db[p] \in Handle BY DEF IType, TypeOK
<1>3. TypeOK'
  BY <1>0, ResType, Layout
  DEF IType, TypeOK, DelHead, Goto, files, locks, PC, FindPC, DelPC, FreePC,
      StorePC, NextPC, Handle
<1>4. CallOK' /\ RecordOK'
  BY DEF IType, TypeOK, CallOK, CallAt, RecordOK, OnRecord, FindPC, DelPC,
         FreePC, StorePC, NextPC, GonePC, PC, DelHead, Goto
<1> QED BY <1>3, <1>4 DEF IType

LEMMA DelLinkStep ==
  ASSUME IType, NEW p \in Proc, DelLink(p)
  PROVE  IType'
<1>0. db[p] \in Handle BY DEF IType, TypeOK
<1>3. TypeOK'
  BY <1>0, ResType, Layout
  DEF IType, TypeOK, DelLink, Goto, files, locks, PC, FindPC, DelPC, FreePC,
      StorePC, NextPC, Handle, ChainPred
<1>4. CallOK' /\ RecordOK'
  BY DEF IType, TypeOK, CallOK, CallAt, RecordOK, OnRecord, FindPC, DelPC,
         FreePC, StorePC, NextPC, GonePC, PC, DelLink, Goto
<1> QED BY <1>3, <1>4 DEF IType

LEMMA StoreHeadStep ==
  ASSUME IType, NEW p \in Proc, StoreHead(p)
  PROVE  IType'
<1>0. db[p] \in Handle BY DEF IType, TypeOK
<1>1. db' \in [Proc -> Handle]
  <2>1. [db[p] EXCEPT !.hptr = ptr[chainoff(call[p].key)]] \in Handle
    BY <1>0, Layout, HandleOff, HandleDat, DbConst
    DEF IType, TypeOK, StoreHead, CallOK, CallAt, Store, StorePC, FreePC
  <2> QED BY <2>1 DEF IType, TypeOK, StoreHead
<1>3. pc' \in [Proc -> PC]
  BY DEF IType, TypeOK, StoreHead, Goto, PC, FindPC, FreePC, StorePC, DelPC
<1>4. FilesType'
  BY <1>0, ResType, Layout, DbConst
  DEF IType, TypeOK, FilesType, StoreHead, files
<1>5. /\ LocksType' /\ call' \in [Proc -> Calls \cup {NoCall}]
      /\ pos' \in [Proc -> Pos] /\ ret' \in [Proc -> Result]
      /\ crashes' \in 0 .. MaxCrash
  BY ResType, Layout
  DEF IType, TypeOK, LocksType, StoreHead, locks
<1>6. TypeOK'
  BY <1>1, <1>3, <1>4, <1>5 DEF TypeOK, FilesType, LocksType
<1>7. CallOK' /\ RecordOK'
  BY DEF IType, TypeOK, CallOK, CallAt, RecordOK, OnRecord, FindPC, DelPC,
         FreePC, StorePC, NextPC, GonePC, PC, StoreHead, Goto
<1> QED BY <1>6, <1>7 DEF IType

LEMMA FreeHeadStep ==
  ASSUME IType, NEW p \in Proc, FreeHead(p)
  PROVE  IType'
<1>0. db[p] \in Handle BY DEF IType, TypeOK
<1>1. db' \in [Proc -> Handle]
  <2>0. FREE_OFF \in Off /\ ptr[FREE_OFF] \in Off
    BY Layout DEF IType, TypeOK
  <2>1. [db[p] EXCEPT !.saveoff = FREE_OFF, !.offset = ptr[FREE_OFF]] \in Handle
    BY <1>0, <2>0 DEF Handle
  <2> QED BY <2>1 DEF IType, TypeOK, FreeHead
<1>3. pc' \in [Proc -> PC]
  BY DEF IType, TypeOK, FreeHead, Goto, PC, FindPC, FreePC, StorePC, DelPC
<1>4. FilesType'
  BY <1>0, ResType, Layout, DbConst
  DEF IType, TypeOK, FilesType, FreeHead, files
<1>5. /\ LocksType' /\ call' \in [Proc -> Calls \cup {NoCall}]
      /\ pos' \in [Proc -> Pos] /\ ret' \in [Proc -> Result]
      /\ crashes' \in 0 .. MaxCrash
  BY ResType, Layout
  DEF IType, TypeOK, LocksType, FreeHead, locks
<1>6. TypeOK'
  BY <1>1, <1>3, <1>4, <1>5 DEF TypeOK, FilesType, LocksType
<1>7. CallOK' /\ RecordOK'
  BY DEF IType, TypeOK, CallOK, CallAt, RecordOK, OnRecord, FindPC, DelPC,
         FreePC, StorePC, NextPC, GonePC, PC, FreeHead, Goto
<1> QED BY <1>6, <1>7 DEF IType

LEMMA FreeTakeStep ==
  ASSUME IType, NEW p \in Proc, FreeTake(p)
  PROVE  IType'
<1>0. db[p] \in Handle BY DEF IType, TypeOK
<1>3. TypeOK'
  BY <1>0, ResType, Layout
  DEF IType, TypeOK, FreeTake, Goto, files, locks, PC, FindPC, DelPC, FreePC,
      StorePC, NextPC, Handle, FreePred
<1>4. CallOK' /\ RecordOK'
  BY DEF IType, TypeOK, CallOK, CallAt, RecordOK, OnRecord, FindPC, DelPC,
         FreePC, StorePC, NextPC, GonePC, PC, FreeTake, Goto
<1> QED BY <1>3, <1>4 DEF IType

LEMMA AppDatStep ==
  ASSUME IType, NEW p \in Proc, AppDat(p)
  PROVE  IType'
<1>0. db[p] \in Handle BY DEF IType, TypeOK
<1>1. db' \in [Proc -> Handle]
  <2>0. DatLen[call[p].data] \in Nat /\ Len(dat) + 1 \in Nat
    BY DbConst
    DEF IType, TypeOK, AppDat, CallOK, CallAt, Store, StorePC, FreePC
  <2>1. [db[p] EXCEPT !.datoff = Len(dat) + 1,
                      !.datlen = DatLen[call[p].data]] \in Handle
    BY <1>0, <2>0, HandleDat
  <2> QED BY <2>1 DEF IType, TypeOK, AppDat
<1>2. dat' \in Seq(DatRec)
  <2>1. NewData(p) \in DatRec
    BY <1>0, DbConst
    DEF IType, TypeOK, AppDat, CallOK, CallAt, DatRec, Handle, NewData, Store,
        StorePC, FreePC
  <2> QED BY <2>1, DatUpd DEF IType, TypeOK, AppDat
<1>3. pc' \in [Proc -> PC]
  BY DEF IType, TypeOK, AppDat, Goto, PC, FindPC, FreePC, StorePC, DelPC
<1>4. FilesType'
  BY <1>0, <1>2, ResType, Layout, DbConst
  DEF IType, TypeOK, FilesType, AppDat, files
<1>5. /\ LocksType' /\ call' \in [Proc -> Calls \cup {NoCall}]
      /\ pos' \in [Proc -> Pos] /\ ret' \in [Proc -> Result]
      /\ crashes' \in 0 .. MaxCrash
  BY ResType, Layout
  DEF IType, TypeOK, LocksType, AppDat, locks
<1>6. TypeOK'
  BY <1>1, <1>3, <1>4, <1>5 DEF TypeOK, FilesType, LocksType
<1>7. CallOK' /\ RecordOK'
  BY DEF IType, TypeOK, CallOK, CallAt, RecordOK, OnRecord, FindPC, DelPC,
         FreePC, StorePC, NextPC, GonePC, PC, AppDat, Goto
<1> QED BY <1>6, <1>7 DEF IType

LEMMA AppIdxStep ==
  ASSUME IType, NEW p \in Proc, AppIdx(p)
  PROVE  IType'
<1>0. db[p] \in Handle BY DEF IType, TypeOK
<1>1. db' \in [Proc -> Handle]
  <2>0. idxEnd \in Off
    BY DbConst DEF IType, TypeOK, AppIdx, Off, FirstRec
  <2>1. [db[p] EXCEPT !.idxoff = idxEnd] \in Handle
    BY <1>0, <2>0, HandleOff
  <2> QED BY <2>1 DEF IType, TypeOK, AppIdx, AppOff
<1>3. pc' \in [Proc -> PC]
  BY DEF IType, TypeOK, AppIdx, Goto, PC, FindPC, FreePC, StorePC, DelPC
<1>4. FilesType'
  <2>1. NewSlot(p) \in Slot
    BY <1>0, DbConst
    DEF IType, AppIdx, Handle, CallOK, CallAt, StorePC, FreePC, Store,
        NewSlot, Slot
  <2>2. ChainTail(p) \in Off
    BY <1>0 DEF Handle, ChainTail
  <2>3. idxEnd + 1 \in FirstRec .. MaxOff + 1
    BY DbConst DEF IType, TypeOK, AppIdx, FirstRec
  <2> QED BY <2>1, <2>2, <2>3 DEF IType, TypeOK, FilesType, AppIdx
<1>5. /\ LocksType' /\ call' \in [Proc -> Calls \cup {NoCall}]
      /\ pos' \in [Proc -> Pos] /\ ret' \in [Proc -> Result]
      /\ crashes' \in 0 .. MaxCrash
  BY ResType, Layout
  DEF IType, TypeOK, LocksType, AppIdx, locks
<1>6. TypeOK'
  BY <1>1, <1>3, <1>4, <1>5 DEF TypeOK, FilesType, LocksType
<1>7. CallOK' /\ RecordOK'
  BY DEF IType, TypeOK, CallOK, CallAt, RecordOK, OnRecord, FindPC, DelPC,
         FreePC, StorePC, NextPC, GonePC, PC, AppIdx, Goto
<1> QED BY <1>6, <1>7 DEF IType

LEMMA ReuseDatStep ==
  ASSUME IType, NEW p \in Proc, ReuseDat(p)
  PROVE  IType'
<1>0. db[p] \in Handle BY DEF IType, TypeOK
<1>1. db' \in [Proc -> Handle]
  <2>1. [db[p] EXCEPT !.datlen = DatLen[call[p].data]] \in Handle
    BY <1>0, Layout, HandleOff, HandleDat, DbConst
    DEF IType, TypeOK, ReuseDat, CallOK, CallAt, Store, StorePC, FreePC
  <2> QED BY <2>1 DEF IType, TypeOK, ReuseDat
<1>2. dat' \in Seq(DatRec)
  <2>1. NewData(p) \in DatRec
    BY <1>0, DbConst
    DEF IType, TypeOK, ReuseDat, CallOK, CallAt, DatRec, Handle, NewData, Store,
        StorePC, FreePC
  <2> QED BY <2>1, DatUpd DEF IType, TypeOK, ReuseDat
<1>3. pc' \in [Proc -> PC]
  BY DEF IType, TypeOK, ReuseDat, Goto, PC, FindPC, FreePC, StorePC, DelPC
<1>4. FilesType'
  BY <1>0, <1>2, ResType, Layout, DbConst
  DEF IType, TypeOK, FilesType, ReuseDat, files
<1>5. /\ LocksType' /\ call' \in [Proc -> Calls \cup {NoCall}]
      /\ pos' \in [Proc -> Pos] /\ ret' \in [Proc -> Result]
      /\ crashes' \in 0 .. MaxCrash
  BY ResType, Layout
  DEF IType, TypeOK, LocksType, ReuseDat, locks
<1>6. TypeOK'
  BY <1>1, <1>3, <1>4, <1>5 DEF TypeOK, FilesType, LocksType
<1>7. CallOK' /\ RecordOK'
  BY DEF IType, TypeOK, CallOK, CallAt, RecordOK, OnRecord, FindPC, DelPC,
         FreePC, StorePC, NextPC, GonePC, PC, ReuseDat, Goto
<1> QED BY <1>6, <1>7 DEF IType

LEMMA ReuseIdxStep ==
  ASSUME IType, NEW p \in Proc, ReuseIdx(p)
  PROVE  IType'
<1>0. db[p] \in Handle BY DEF IType, TypeOK
<1>3. TypeOK'
  BY <1>0, ResType, Layout, DbConst
  DEF IType, TypeOK, ReuseIdx, Goto, files, locks, PC, FindPC, DelPC, FreePC,
      StorePC, NextPC, Handle, CallOK, CallAt, Store, NewSlot, Slot, ChainTail
<1>4. CallOK' /\ RecordOK'
  BY DEF IType, TypeOK, CallOK, CallAt, RecordOK, OnRecord, FindPC, DelPC,
         FreePC, StorePC, NextPC, GonePC, PC, ReuseIdx, Goto
<1> QED BY <1>3, <1>4 DEF IType

LEMMA RewriteDatStep ==
  ASSUME IType, NEW p \in Proc, RewriteDat(p)
  PROVE  IType'
<1>0. db[p] \in Handle BY DEF IType, TypeOK
<1>2. dat' \in Seq(DatRec)
  <2>1. NewData(p) \in DatRec
    BY <1>0, DbConst
    DEF IType, TypeOK, RewriteDat, CallOK, CallAt, DatRec, Handle, NewData, Store,
        StorePC, FreePC
  <2> QED BY <2>1, DatUpd DEF IType, TypeOK, RewriteDat
<1>3. TypeOK'
  BY <1>0, <1>2, ResType, Layout
  DEF IType, TypeOK, RewriteDat, Goto, files, locks, PC, FindPC, DelPC, FreePC,
      StorePC, NextPC
<1>4. CallOK' /\ RecordOK'
  BY DEF IType, TypeOK, CallOK, CallAt, RecordOK, OnRecord, FindPC, DelPC,
         FreePC, StorePC, NextPC, GonePC, PC, RewriteDat, Goto, Store
<1> QED BY <1>3, <1>4 DEF IType

LEMMA db_rewindStep ==
  ASSUME IType, NEW p \in Proc, db_rewind(p)
  PROVE  IType'
<1>0. db[p] \in Handle BY DEF IType, TypeOK
<1>3. TypeOK'
  BY <1>0, ResType, Layout, DbConst
  DEF IType, TypeOK, db_rewind, Goto, files, locks, PC, FindPC, DelPC, FreePC,
      StorePC, NextPC, FirstRec
<1>4. CallOK' /\ RecordOK'
  BY DEF IType, TypeOK, CallOK, CallAt, RecordOK, OnRecord, FindPC, DelPC,
         FreePC, StorePC, NextPC, GonePC, PC, db_rewind, Goto
<1> QED BY <1>3, <1>4 DEF IType

LEMMA RecLenType ==
  ASSUME IType, NEW o \in RecOff
  PROVE  RecLen(o) \in Nat \X Nat \X Nat /\ ptr[o] \in Off
  BY Layout DEF IType, TypeOK, RecLen, Slot

LEMMA BodyType ==
  ASSUME IType, NEW h \in Handle, h.idxoff \in RecOff
  PROVE  /\ BodyOf(h) \in Handle
         /\ BodyOf(h).idxoff = h.idxoff
         /\ [BodyOf(h) EXCEPT !.ptroff = h.offset, !.offset = h.ptrval] \in Handle
         /\ [BodyOf(h) EXCEPT !.saveoff = h.offset, !.offset = h.ptrval] \in Handle
  BY DEF IType, TypeOK, BodyOf, Handle, Slot

LEMMA ReadHdrStep ==
  ASSUME IType, NEW p \in Proc, ReadHdr(p)
  PROVE  IType'
<1> DEFINE o == db[p].offset
<1>1. CASE ~(o \in RecOff /\ o < idxEnd)
  BY <1>1, GoneStep DEF ReadHdr, GonePC
<1>2. CASE o \in RecOff /\ o < idxEnd
  <2>0. db[p] \in Handle /\ RecLen(o) \in Nat \X Nat \X Nat /\ ptr[o] \in Off /\ o \in Off
    BY <1>2, RecLenType, Layout DEF IType, TypeOK
  <2>1. db' \in [Proc -> Handle] /\ db'[p].idxoff = o
    <3> DEFINE h == [db[p] EXCEPT !.idxoff = o, !.ptrval = ptr[o],
                                  !.idxlen = RecLen(o)]
    <3>1. h \in Handle /\ h.idxoff = o
      <4>1. PICK n \in Nat \X Nat \X Nat : n = RecLen(o)
        BY <2>0
      <4> QED BY <2>0, <4>1 DEF Handle
    <3>2. db \in [Proc -> Handle] /\ db' = [db EXCEPT ![p] = h]
      BY <1>2 DEF IType, TypeOK, ReadHdr
    <3> HIDE DEF h
    <3> QED BY <3>1, <3>2
  <2>2. pc' \in [Proc -> PC]
    BY <1>2 DEF IType, TypeOK, ReadHdr, Goto, PC, FindPC, FreePC
  <2>3. FilesType' /\ LocksType' /\ call' \in [Proc -> Calls \cup {NoCall}]
      /\ pos' \in [Proc -> Pos] /\ ret' \in [Proc -> Result]
      /\ crashes' \in 0 .. MaxCrash
    BY <1>2 DEF IType, TypeOK, FilesType, LocksType, ReadHdr, files, locks
  <2>4. TypeOK'
    BY <2>1, <2>2, <2>3 DEF TypeOK, FilesType, LocksType
  <2>5. CallOK'
    BY <1>2 DEF IType, TypeOK, CallOK, CallAt, ReadHdr, Goto, FindPC, DelPC, FreePC, StorePC, NextPC, GonePC, PC
  <2>6. RecordOK'
    <3>1. \A q \in Proc : q # p => pc'[q] = pc[q] /\ db'[q] = db[q]
      BY <1>2 DEF IType, TypeOK, ReadHdr, Goto
    <3> QED BY <1>2, <2>1, <3>1 DEF IType, RecordOK
  <2> QED BY <2>4, <2>5, <2>6 DEF IType
<1> QED BY <1>1, <1>2

LEMMA ReadBodyStep ==
  ASSUME IType, NEW p \in Proc, ReadBody(p)
  PROVE  IType'
<1> DEFINE h == BodyOf(db[p])
           g == [h EXCEPT !.ptroff = h.offset, !.offset = h.ptrval]
<1>0. /\ db \in [Proc -> Handle] /\ pc \in [Proc -> PC] /\ ret \in [Proc -> Result]
      /\ pc[p] = "body" /\ db[p].idxoff \in RecOff
      /\ h \in Handle /\ g \in Handle /\ h.idxoff \in RecOff
  <2>1. db[p] \in Handle /\ db[p].idxoff \in RecOff /\ pc[p] = "body"
    BY DEF IType, TypeOK, RecordOK, OnRecord, ReadBody
  <2>2. h \in Handle /\ h.idxoff \in RecOff
    BY <2>1, BodyType
  <2>3. h.offset = db[p].offset /\ h.ptrval = db[p].ptrval
    BY <2>1 DEF BodyOf, Handle
  <2>4. g \in Handle
    BY <2>1, <2>3, BodyType
  <2> QED BY <2>1, <2>2, <2>4 DEF IType, TypeOK
<1>1. CASE RecLen(h.idxoff) # h.idxlen
  BY <1>1, GoneStep DEF ReadBody, GonePC
<1>2. CASE RecLen(h.idxoff) = h.idxlen
  <2>0. /\ IF h.key = call[p].key
             THEN db' = [db EXCEPT ![p] = h] /\ Found(p, h.datlen)
             ELSE /\ db' = [db EXCEPT ![p] = g]
                  /\ IF h.ptrval = 0 THEN NotFound(p)
                     ELSE Goto(p, "hdr") /\ UNCHANGED ret
        /\ pos' = [pos EXCEPT ![p] = h.idxoff + 1]
        /\ UNCHANGED <<files, locks, call, crashes>>
    BY <1>2 DEF ReadBody
  <2> HIDE DEF h, g
  <2>1. db' \in [Proc -> Handle]
    BY <1>0, <2>0
  <2>2. pc' \in [Proc -> PC] /\ ret' \in [Proc -> Result]
    BY <1>0, <2>0, FoundType DEF Goto, PC, FindPC
  <2>3. h.idxoff + 1 \in Pos
    BY <1>0, DbConst DEF RecOff, FirstRec, Pos
  <2>4. /\ FilesType' /\ LocksType' /\ call' \in [Proc -> Calls \cup {NoCall}]
        /\ pos' \in [Proc -> Pos] /\ crashes' \in 0 .. MaxCrash
    BY <2>0, <2>3 DEF IType, TypeOK, FilesType, LocksType, files, locks
  <2>5. TypeOK'
    BY <2>1, <2>2, <2>4 DEF TypeOK, FilesType, LocksType
  <2>6. /\ call' = call
        /\ pc'[p] \in {"st_head", "unlock", "dat", "del_lock", "rw_dat", "hdr"}
        /\ pc'[p] = "st_head" => call[p].op = "store"
        /\ pc'[p] = "dat" => call[p].op = "fetch" /\ db'[p] = h
        /\ pc'[p] = "del_lock" => call[p].op # "fetch" /\ db'[p] = h
        /\ pc'[p] = "rw_dat" => call[p].op \notin {"fetch", "delete"} /\ db'[p] = h
    BY <1>0, <2>0 DEF Found, NotFound, Goto
  <2>7. \A q \in Proc : q # p => pc'[q] = pc[q] /\ db'[q] = db[q]
    BY <1>0, <2>0 DEF Found, NotFound, Goto
  <2>8. CallOK'
    BY <1>0, <2>6, <2>7 DEF IType, CallOK, CallAt, FindPC, DelPC, FreePC,
       StorePC, NextPC, GonePC, Fetch, Delete, Store
  <2>9. RecordOK'
    BY <1>0, <2>6, <2>7 DEF IType, RecordOK, OnRecord, DelPC
  <2> QED BY <2>5, <2>8, <2>9 DEF IType
<1> QED BY <1>1, <1>2

LEMMA FreeBodyStep ==
  ASSUME IType, NEW p \in Proc, FreeBody(p)
  PROVE  IType'
<1> DEFINE h == BodyOf(db[p])
           g == [h EXCEPT !.saveoff = h.offset, !.offset = h.ptrval]
<1>0. /\ db \in [Proc -> Handle] /\ pc \in [Proc -> PC] /\ pc[p] = "ff_body"
      /\ h \in Handle /\ g \in Handle /\ h.idxoff \in RecOff
  <2>1. db[p] \in Handle /\ db[p].idxoff \in RecOff /\ pc[p] = "ff_body"
    BY DEF IType, TypeOK, RecordOK, OnRecord, FreeBody
  <2>2. h \in Handle /\ h.idxoff \in RecOff
    BY <2>1, BodyType
  <2>3. h.offset = db[p].offset /\ h.ptrval = db[p].ptrval
    BY <2>1 DEF BodyOf, Handle
  <2>4. g \in Handle
    BY <2>1, <2>3, BodyType
  <2> QED BY <2>1, <2>2, <2>4 DEF IType, TypeOK
<1>1. CASE RecLen(h.idxoff) # h.idxlen
  BY <1>1, GoneStep DEF FreeBody, GonePC
<1>2. CASE RecLen(h.idxoff) = h.idxlen
  <2> DEFINE fits == Fits(h, call[p])
  <2>0. /\ db' = [db EXCEPT ![p] = IF fits THEN h ELSE g]
        /\ Goto(p, IF fits THEN "ff_take"
                   ELSE IF h.ptrval = 0 THEN "ff_miss" ELSE "ff_hdr")
        /\ UNCHANGED <<files, locks, call, pos, ret, crashes>>
    BY <1>2 DEF FreeBody
  <2> HIDE DEF h, g, fits
  <2>1. db' \in [Proc -> Handle] /\ pc' \in [Proc -> PC]
    BY <1>0, <2>0 DEF Goto, PC, FreePC
  <2>2. /\ FilesType' /\ LocksType' /\ call' \in [Proc -> Calls \cup {NoCall}]
        /\ pos' \in [Proc -> Pos] /\ crashes' \in 0 .. MaxCrash /\ ret' \in [Proc -> Result]
    BY <2>0 DEF IType, TypeOK, FilesType, LocksType, files, locks
  <2>3. TypeOK'
    BY <2>1, <2>2 DEF TypeOK, FilesType, LocksType
  <2>4. /\ call' = call /\ pc'[p] \in {"ff_take", "ff_miss", "ff_hdr"}
        /\ pc'[p] = "ff_take" => db'[p] = h
        /\ \A q \in Proc : q # p => pc'[q] = pc[q] /\ db'[q] = db[q]
    BY <1>0, <2>0 DEF Goto
  <2>5. CallOK'
    BY <1>0, <2>4 DEF IType, CallOK, CallAt, FindPC, DelPC, FreePC, StorePC,
       NextPC, GonePC
  <2>6. RecordOK'
    BY <1>0, <2>4 DEF IType, RecordOK, OnRecord, DelPC
  <2> QED BY <2>3, <2>5, <2>6 DEF IType
<1> QED BY <1>1, <1>2

LEMMA NextBodyStep ==
  ASSUME IType, NEW p \in Proc, NextBody(p)
  PROVE  IType'
<1> DEFINE h == BodyOf(db[p])
<1>0. /\ db \in [Proc -> Handle] /\ pc \in [Proc -> PC] /\ pc[p] = "nx_body"
      /\ h \in Handle /\ h.idxoff \in RecOff
  <2>1. db[p] \in Handle /\ db[p].idxoff \in RecOff /\ pc[p] = "nx_body"
    BY DEF IType, TypeOK, RecordOK, OnRecord, NextBody
  <2>2. h \in Handle /\ h.idxoff \in RecOff
    BY <2>1, BodyType
  <2> QED BY <2>1, <2>2 DEF IType, TypeOK
<1>1. CASE RecLen(h.idxoff) # h.idxlen
  BY <1>1, GoneStep DEF NextBody, GonePC
<1>2. CASE RecLen(h.idxoff) = h.idxlen
  <2>0. /\ db' = [db EXCEPT ![p] = h]
        /\ pos' = [pos EXCEPT ![p] = h.idxoff + 1]
        /\ Goto(p, IF h.key = Blank THEN "nx_hdr" ELSE "nx_dat")
        /\ UNCHANGED <<files, locks, call, ret, crashes>>
    BY <1>2 DEF NextBody
  <2> HIDE DEF h
  <2>1. db' \in [Proc -> Handle] /\ pc' \in [Proc -> PC]
    BY <1>0, <2>0 DEF Goto, PC, NextPC
  <2>2. h.idxoff + 1 \in Pos
    BY <1>0, DbConst DEF RecOff, FirstRec, Pos
  <2>3. /\ FilesType' /\ LocksType' /\ call' \in [Proc -> Calls \cup {NoCall}]
        /\ pos' \in [Proc -> Pos] /\ crashes' \in 0 .. MaxCrash /\ ret' \in [Proc -> Result]
    BY <2>0, <2>2 DEF IType, TypeOK, FilesType, LocksType, files, locks
  <2>4. TypeOK'
    BY <2>1, <2>3 DEF TypeOK, FilesType, LocksType
  <2>5. /\ call' = call /\ pc'[p] \in {"nx_hdr", "nx_dat"} /\ db'[p] = h
        /\ \A q \in Proc : q # p => pc'[q] = pc[q] /\ db'[q] = db[q]
    BY <1>0, <2>0 DEF Goto
  <2>6. CallOK'
    BY <1>0, <2>5 DEF IType, CallOK, CallAt, FindPC, DelPC, FreePC, StorePC,
       NextPC, GonePC
  <2>7. RecordOK'
    BY <1>0, <2>5 DEF IType, RecordOK
  <2> QED BY <2>4, <2>6, <2>7 DEF IType
<1> QED BY <1>1, <1>2

LEMMA ReadDatStep ==
  ASSUME IType, NEW p \in Proc, ReadDat(p)
  PROVE  IType'
<1> DEFINE h == db[p]
           ok == h.datoff \in 1 .. Len(dat) /\ dat[h.datoff].len = h.datlen
<1>1. CASE ~ok
  BY <1>1, GoneStep DEF ReadDat, GonePC
<1>2. CASE ok
  <2>0. h \in Handle /\ dat[h.datoff] \in DatRec
    BY <1>2 DEF IType, TypeOK
  <2>1. PICK r \in Result : ret' = [ret EXCEPT ![p] = r]
    <3> DEFINE r == [rc |-> "ptr", val |-> dat[h.datoff].val,
                     key |-> IF pc[p] = "dat" THEN Blank ELSE h.key]
    <3>1. r \in Result
      BY <2>0 DEF Handle, DatRec, Result
    <3> QED BY <1>2, <3>1 DEF ReadDat
  <2>2. UNCHANGED <<files, locks, call, db, pos, crashes>>
        /\ pc' = [pc EXCEPT ![p] = IF pc[p] = "dat" THEN "unlock" ELSE "nx_unlock"]
        /\ pc[p] \in {"dat", "nx_dat"}
    BY <1>2 DEF ReadDat, Goto
  <2> HIDE DEF ok
  <2>3. TypeOK'
    BY <2>1, <2>2 DEF IType, TypeOK, files, locks, PC, FindPC, NextPC
  <2>4. CallOK' /\ RecordOK'
    BY <2>2 DEF IType, TypeOK, CallOK, CallAt, RecordOK, OnRecord, FindPC,
       DelPC, FreePC, StorePC, NextPC, GonePC, PC
  <2> QED BY <2>3, <2>4 DEF IType
<1> QED BY <1>1, <1>2

LEMMA ReturnStep ==
  ASSUME IType, NEW p \in Proc, Return(p)
  PROVE  IType'
<1>1. LocksType'
  BY LockStep DEF IType, TypeOK, LocksType, Return
<1>2. TypeOK'
  BY <1>1, DB0Type, ResType
  DEF IType, TypeOK, LocksType, Return, Goto, files, Pending, PC
<1>3. CallOK' /\ RecordOK'
  BY DEF IType, TypeOK, CallOK, CallAt, RecordOK, OnRecord, FindPC, DelPC,
         FreePC, StorePC, NextPC, GonePC, PC, Return, Goto
<1> QED BY <1>2, <1>3 DEF IType

LEMMA StoreLinkStep ==
  ASSUME IType, NEW p \in Proc, StoreLink(p)
  PROVE  IType'
<1>1. CASE PtrOverflow(db[p].idxoff)
  BY <1>1, GoneStep DEF StoreLink, GonePC
<1>2. CASE ~PtrOverflow(db[p].idxoff)
  <2>0. db[p].idxoff \in Off
    BY DEF IType, TypeOK, Handle
  <2>1. TypeOK'
    <3>1. FilesType' /\ LocksType'
      BY <1>2, <2>0 DEF IType, TypeOK, FilesType, LocksType, StoreLink, locks
    <3>2. pos' \in [Proc -> Pos] /\ pc' \in [Proc -> PC]
      BY <1>2, Layout DEF IType, TypeOK, StoreLink, Goto, PC, FindPC
    <3>3. UNCHANGED <<call, db, ret, crashes>>
      BY <1>2 DEF StoreLink
    <3> QED BY <3>1, <3>2, <3>3 DEF IType, TypeOK, FilesType, LocksType
  <2>2. CallOK' /\ RecordOK'
    BY <1>2 DEF IType, TypeOK, CallOK, CallAt, RecordOK, OnRecord, FindPC,
       DelPC, FreePC, StorePC, NextPC, GonePC, PC, StoreLink, Goto
  <2> QED BY <2>1, <2>2 DEF IType
<1> QED BY <1>1, <1>2

LEMMA NextHdrStep ==
  ASSUME IType, NEW p \in Proc, NextHdr(p)
  PROVE  IType'
<1> DEFINE o == pos[p]
<1>1. CASE o = 0
  BY <1>1, GoneStep DEF NextHdr, GonePC
<1>2. CASE o # 0 /\ o >= idxEnd
  <2>1. /\ ret' = [ret EXCEPT ![p] = Res("null")] /\ Goto(p, "nx_unlock")
        /\ UNCHANGED <<files, locks, call, db, pos, crashes>> /\ pc[p] = "nx_hdr"
    BY <1>2 DEF NextHdr
  <2>2. TypeOK'
    BY <2>1, ResType DEF IType, TypeOK, Goto, files, locks, PC, NextPC
  <2>3. CallOK' /\ RecordOK'
    BY <2>1 DEF IType, TypeOK, CallOK, CallAt, RecordOK, OnRecord, FindPC,
       DelPC, FreePC, StorePC, NextPC, GonePC, PC, Goto
  <2> QED BY <2>2, <2>3 DEF IType
<1>3. CASE o # 0 /\ ~(o >= idxEnd)
  <2> DEFINE h == [db[p] EXCEPT !.idxoff = o, !.ptrval = ptr[o],
                                !.idxlen = RecLen(o)]
  <2>0. /\ db' = [db EXCEPT ![p] = h] /\ Goto(p, "nx_body")
        /\ UNCHANGED <<files, locks, call, pos, ret, crashes>> /\ pc[p] = "nx_hdr"
    BY <1>3 DEF NextHdr
  <2>1. /\ o \in RecOff /\ o \in Off /\ ptr[o] \in Off
        /\ RecLen(o) \in Nat \X Nat \X Nat /\ db[p] \in Handle
    <3>1. o \in RecOff
      BY <1>3, DbConst DEF IType, TypeOK, Pos, RecOff, FirstRec
    <3> QED BY <3>1, Layout, RecLenType DEF IType, TypeOK
  <2>2. h \in Handle /\ h.idxoff = o
    <3>1. PICK n \in Nat \X Nat \X Nat : n = RecLen(o)
      BY <2>1
    <3> QED BY <2>1, <3>1 DEF Handle
  <2> HIDE DEF h
  <2>3. db' \in [Proc -> Handle] /\ pc' \in [Proc -> PC]
    BY <2>0, <2>2 DEF IType, TypeOK, Goto, PC, NextPC
  <2>4. TypeOK'
    BY <2>0, <2>3 DEF IType, TypeOK, files, locks
  <2>5. /\ call' = call /\ pc'[p] = "nx_body" /\ db'[p].idxoff \in RecOff
        /\ \A q \in Proc : q # p => pc'[q] = pc[q] /\ db'[q] = db[q]
    BY <2>0, <2>1, <2>2 DEF IType, TypeOK, Goto
  <2>6. CallOK'
    BY <2>0, <2>5 DEF IType, CallOK, CallAt, FindPC, DelPC, FreePC, StorePC,
       NextPC, GonePC
  <2>7. RecordOK'
    BY <2>5 DEF IType, RecordOK
  <2> QED BY <2>4, <2>6, <2>7 DEF IType
<1> QED BY <1>1, <1>2, <1>3

LEMMA CallStep ==
  ASSUME IType, NEW p \in Proc, NEW c \in Calls, Call(p, c)
  PROVE  IType'
<1> DEFINE h == [DB0 EXCEPT !.ptroff = chainoff(c.key)]
<1>1. CASE c.op = "nextrec"
  <2>1. c \in Nextrec
    BY <1>1 DEF Calls, Fetch, Delete, Store, Nextrec
  <2>2. TypeOK'
    BY <1>1, <2>1
    DEF IType, TypeOK, Call, Goto, files, locks, PC, NextPC, Calls
  <2>3. CallOK' /\ RecordOK'
    BY <1>1, <2>1 DEF IType, TypeOK, CallOK, CallAt, RecordOK, OnRecord,
       FindPC, DelPC, FreePC, StorePC, NextPC, GonePC, PC, Call, Goto
  <2> QED BY <2>2, <2>3 DEF IType
<1>2. CASE c.op # "nextrec"
  <2>1. c \in Fetch \cup Delete \cup Store /\ c.key \in Key
    BY <1>2 DEF Calls, Fetch, Delete, Store, Nextrec
  <2>2. h \in Handle
    BY <2>1, Layout, DB0Type, HandleOff
  <2>3. /\ call' = [call EXCEPT ![p] = c] /\ Goto(p, "lock")
        /\ db' = [db EXCEPT ![p] = h]
        /\ UNCHANGED <<files, locks, pos, ret, crashes>>
    BY <1>2 DEF Call
  <2> HIDE DEF h
  <2>4. TypeOK'
    BY <2>2, <2>3 DEF IType, TypeOK, Goto, files, locks, PC, FindPC
  <2>5. CallOK' /\ RecordOK'
    BY <2>1, <2>3 DEF IType, TypeOK, CallOK, CallAt, RecordOK, OnRecord,
       FindPC, DelPC, FreePC, StorePC, NextPC, GonePC, PC, Goto
  <2> QED BY <2>4, <2>5 DEF IType
<1> QED BY <1>1, <1>2

LEMMA CrashStep ==
  ASSUME IType, NEW p \in Proc, Crash(p)
  PROVE  IType'
<1>1. LocksType'
  BY LockStep DEF IType, TypeOK, LocksType, Crash
<1>2. TypeOK'
  BY <1>1, DB0Type, ResType, Layout, DbConst
  DEF IType, TypeOK, LocksType, Crash, Goto, files, Pending, PC
<1>3. CallOK' /\ RecordOK'
  BY DEF IType, TypeOK, CallOK, CallAt, RecordOK, OnRecord, FindPC, DelPC,
         FreePC, StorePC, NextPC, GonePC, PC, Crash, Goto
<1> QED BY <1>2, <1>3 DEF IType

-----------------------------------------------------------------------------

LEMMA TypeNext == IType /\ [Next]_vars => IType'
<1> SUFFICES ASSUME IType, [Next]_vars PROVE IType'
  OBVIOUS
<1>1. CASE UNCHANGED vars
  BY <1>1 DEF vars, IType, TypeOK, CallOK, CallAt, RecordOK
<1>2. ASSUME NEW p \in Proc, Step(p) PROVE IType'
  BY <1>2, LockChainStep, ReadHeadStep, ReadHdrStep, ReadBodyStep, ReadDatStep,
     ReturnStep, DelLockStep, DelDatStep, DelFreeStep, DelIdxStep, DelHeadStep,
     DelLinkStep, DelUnlockStep, StoreHeadStep, FreeLockStep, FreeHeadStep,
     FreeBodyStep, FreeTakeStep, FreeUnlockStep, AppDatLockStep, AppDatStep,
     AppDatUnlockStep, AppIdxLockStep, AppIdxStep, AppIdxUnlockStep,
     ReuseDatStep, ReuseIdxStep, RewriteDatStep, StoreLinkStep, NextLockStep,
     NextHdrStep, NextBodyStep
  DEF Step
<1>3. CASE Next
  BY <1>2, <1>3, CallStep, db_rewindStep, CrashStep DEF Next
<1> QED BY <1>1, <1>3

\* The variables keep their types in every reachable state, whatever the
\* number of processes, chains, keys and records: every handle is built from
\* values the code has really read, no pointer leaves the index file, and
\* _db_readidx is only asked for the body of a record it has the header of.
THEOREM TypeCorrect == Spec => []TypeOK
<1>1. Init => IType
  BY TypeInit
<1>2. IType /\ [Next]_vars => IType'
  BY TypeNext
<1>3. IType => TypeOK
  BY DEF IType
<1> QED BY <1>1, <1>2, <1>3, PTL DEF Spec

-----------------------------------------------------------------------------
(***************************************************************************)
(* The record locks exclude what they are meant to exclude, for any number *)
(* of processes and chains, kills included.                                *)
(***************************************************************************)

(***************************************************************************)
(* The inductive invariant: an exclusive lock has one holder and no other  *)
(* sharer, and at each label a process holds the locks that db.c has taken *)
(* and not yet released there.                                             *)
(***************************************************************************)
LockOK ==
  \A l \in Lock : \A p \in wlk[l] : wlk[l] \cup rlk[l] \subseteq {p}

Holds(p) ==
  /\ pc[p] \in ChainPC /\ call[p].op = "fetch"
       => p \in rlk[chainoff(call[p].key)]
  /\ pc[p] \in ChainPC /\ call[p].op # "fetch"
       => p \in wlk[chainoff(call[p].key)]
  /\ pc[p] \in ListPC => p \in wlk[FREE_OFF]
  /\ pc[p] \in ScanPC => p \in rlk[FREE_OFF]
  /\ pc[p] \in {"ap_dat", "ap_dunlock"} => p \in wlk[DAT]
  /\ pc[p] \in {"ap_idx", "ap_iunlock"} => p \in wlk[TAIL]

HoldsOK == \A p \in Proc : Holds(p)

IExcl == IType /\ LockOK /\ HoldsOK

-----------------------------------------------------------------------------

\* A lock operation of p keeps LockOK and what the other processes hold.
LEMMA LockFrame ==
  ASSUME LocksType, LockOK, NEW l \in Lock, NEW p \in Proc,
         ReadLock(l, p) \/ WriteLock(l, p) \/ UnLock(l, p) \/ DropLocks(p)
  PROVE  /\ LockOK'
         /\ \A q \in Proc \ {p} : \A m \in Lock :
              (q \in rlk[m] => q \in rlk'[m]) /\ (q \in wlk[m] => q \in wlk'[m])
<1>1. CASE ReadLock(l, p) BY <1>1 DEF LocksType, LockOK, ReadLock
<1>2. CASE WriteLock(l, p) BY <1>2 DEF LocksType, LockOK, WriteLock
<1>3. CASE UnLock(l, p) BY <1>3 DEF LocksType, LockOK, UnLock
<1>4. CASE DropLocks(p) BY <1>4 DEF LocksType, LockOK, DropLocks
<1> QED BY <1>1, <1>2, <1>3, <1>4

\* A lock operation of p on l changes what p holds at l only.
LEMMA LockOwn ==
  ASSUME LocksType, NEW l \in Lock, NEW p \in Proc
  PROVE  /\ ReadLock(l, p) => /\ p \in rlk'[l]
                              /\ \A m \in Lock : p \in rlk[m] => p \in rlk'[m]
                              /\ \A m \in Lock : p \in wlk[m] => p \in wlk'[m]
         /\ WriteLock(l, p) => /\ p \in wlk'[l]
                               /\ \A m \in Lock : p \in rlk[m] => p \in rlk'[m]
                               /\ \A m \in Lock : p \in wlk[m] => p \in wlk'[m]
         /\ UnLock(l, p) => \A m \in Lock \ {l} :
              /\ p \in rlk[m] => p \in rlk'[m]
              /\ p \in wlk[m] => p \in wlk'[m]
  BY DEF LocksType, ReadLock, WriteLock, UnLock

\* The locks lie on different bytes.
LEMMA LocksDiffer ==
  /\ \A k \in Key : chainoff(k) # FREE_OFF /\ chainoff(k) # DAT /\ chainoff(k) # TAIL
  /\ FREE_OFF # DAT /\ FREE_OFF # TAIL /\ DAT # TAIL
  BY DbConst DEF chainoff, FREE_OFF, DAT, TAIL

\* A process that moves without touching what others hold keeps HoldsOK.
LEMMA HoldsFrame ==
  ASSUME HoldsOK, NEW p \in Proc, IType,
         \A q \in Proc \ {p} :
           /\ pc'[q] = pc[q] /\ call'[q] = call[q]
           /\ \A m \in Lock : /\ q \in rlk[m] => q \in rlk'[m]
                              /\ q \in wlk[m] => q \in wlk'[m],
         Holds(p)'
  PROVE  HoldsOK'
<1> SUFFICES ASSUME NEW q \in Proc \ {p} PROVE Holds(q)'
  BY DEF HoldsOK
<1>1. Holds(q) /\ CallAt(q)
  BY DEF HoldsOK, IType, CallOK
<1>2. pc[q] \in ChainPC => call[q].key \in Key
  BY <1>1 DEF CallAt, ChainPC, FindPC, DelPC, FreePC, StorePC, Fetch, Delete, Store
<1> QED BY <1>1, <1>2, Layout DEF Holds

LEMMA ExclInit == Init => IExcl
<1> SUFFICES ASSUME Init PROVE IExcl OBVIOUS
<1>1. IType BY TypeInit
<1>2. LockOK BY DEF Init, LockOK
<1>3. HoldsOK
  BY DEF Init, HoldsOK, Holds, ChainPC, ListPC, ScanPC, FindPC, DelPC, FreePC,
         StorePC, NextPC
<1> QED BY <1>1, <1>2, <1>3 DEF IExcl

-----------------------------------------------------------------------------
(* Steps that take or release no lock stay within the same sections.       *)

Within(p) ==
  /\ pc'[p] \in ChainPC => pc[p] \in ChainPC
  /\ pc'[p] \in ListPC => pc[p] \in ListPC
  /\ pc'[p] \in ScanPC => pc[p] \in ScanPC
  /\ pc'[p] \in {"ap_dat", "ap_dunlock"} => pc[p] \in {"ap_dat", "ap_dunlock"}
  /\ pc'[p] \in {"ap_idx", "ap_iunlock"} => pc[p] \in {"ap_idx", "ap_iunlock"}

LEMMA PlainExcl ==
  ASSUME IExcl, NEW p \in Proc, UNCHANGED <<locks, call>>, Within(p),
         \A q \in Proc \ {p} : pc'[q] = pc[q]
  PROVE  LockOK' /\ HoldsOK'
<1>1. LockOK'
  BY DEF IExcl, LockOK, locks
<1>2. Holds(p)'
  BY DEF IExcl, HoldsOK, Holds, Within, locks
<1>3. HoldsOK'
  BY <1>2, HoldsFrame DEF IExcl, locks
<1> QED BY <1>1, <1>3

LEMMA GoneExcl ==
  ASSUME IExcl, NEW p \in Proc, DropLocks(p),
         pc'[p] \in GonePC \cup {"idle"},
         \A q \in Proc \ {p} : pc'[q] = pc[q] /\ call'[q] = call[q]
  PROVE  LockOK' /\ HoldsOK'
<1>1. LocksType /\ LockOK
  BY DEF IExcl, IType, TypeOK, LocksType
<1>2. /\ LockOK'
      /\ \A q \in Proc \ {p} : \A m \in Lock :
           (q \in rlk[m] => q \in rlk'[m]) /\ (q \in wlk[m] => q \in wlk'[m])
  BY <1>1, LockFrame, Layout
<1>3. Holds(p)'
  BY DEF Holds, ChainPC, ListPC, ScanPC, FindPC, DelPC, FreePC, StorePC,
         NextPC, GonePC
<1>4. HoldsOK'
  BY <1>2, <1>3, HoldsFrame DEF IExcl
<1> QED BY <1>2, <1>4

LEMMA WithinSteps ==
  ASSUME IExcl, NEW p \in Proc,
         \/ ReadHead(p) \/ DelDat(p) \/ DelFree(p) \/ DelIdx(p) \/ DelHead(p)
         \/ DelLink(p) \/ StoreHead(p) \/ FreeHead(p) \/ FreeTake(p)
         \/ AppDat(p) \/ AppIdx(p) \/ ReuseDat(p) \/ ReuseIdx(p)
         \/ RewriteDat(p) \/ db_rewind(p)
  PROVE  LockOK' /\ HoldsOK'
<1>0. pc \in [Proc -> PC] BY DEF IExcl, IType, TypeOK
<1> SUFFICES /\ UNCHANGED <<locks, call>> /\ Within(p)
             /\ \A q \in Proc \ {p} : pc'[q] = pc[q]
  BY PlainExcl
<1>1. CASE ReadHead(p)
  BY <1>0, <1>1 DEF ReadHead, NotFound, Goto, Within, ChainPC, ListPC, ScanPC, FindPC,
         DelPC, FreePC, StorePC, NextPC
<1>2. CASE DelDat(p)
  BY <1>0, <1>2 DEF DelDat, Goto, Within, ChainPC, ListPC, ScanPC, FindPC,
         DelPC, FreePC, StorePC, NextPC
<1>3. CASE DelFree(p)
  BY <1>0, <1>3 DEF DelFree, Goto, Within, ChainPC, ListPC, ScanPC, FindPC,
         DelPC, FreePC, StorePC, NextPC
<1>4. CASE DelIdx(p)
  BY <1>0, <1>4 DEF DelIdx, Goto, Within, ChainPC, ListPC, ScanPC, FindPC,
         DelPC, FreePC, StorePC, NextPC
<1>5. CASE DelHead(p)
  BY <1>0, <1>5 DEF DelHead, Goto, Within, ChainPC, ListPC, ScanPC, FindPC,
         DelPC, FreePC, StorePC, NextPC
<1>6. CASE DelLink(p)
  BY <1>0, <1>6 DEF DelLink, Goto, Within, ChainPC, ListPC, ScanPC, FindPC,
         DelPC, FreePC, StorePC, NextPC
<1>7. CASE StoreHead(p)
  BY <1>0, <1>7 DEF StoreHead, Goto, Within, ChainPC, ListPC, ScanPC, FindPC,
         DelPC, FreePC, StorePC, NextPC
<1>8. CASE FreeHead(p)
  BY <1>0, <1>8 DEF FreeHead, Goto, Within, ChainPC, ListPC, ScanPC, FindPC,
         DelPC, FreePC, StorePC, NextPC
<1>9. CASE FreeTake(p)
  BY <1>0, <1>9 DEF FreeTake, Goto, Within, ChainPC, ListPC, ScanPC, FindPC,
         DelPC, FreePC, StorePC, NextPC
<1>10. CASE AppDat(p)
  BY <1>0, <1>10 DEF AppDat, Goto, Within, ChainPC, ListPC, ScanPC, FindPC,
         DelPC, FreePC, StorePC, NextPC
<1>11. CASE AppIdx(p)
  BY <1>0, <1>11 DEF AppIdx, Goto, Within, ChainPC, ListPC, ScanPC, FindPC,
         DelPC, FreePC, StorePC, NextPC
<1>12. CASE ReuseDat(p)
  BY <1>0, <1>12 DEF ReuseDat, Goto, Within, ChainPC, ListPC, ScanPC, FindPC,
         DelPC, FreePC, StorePC, NextPC
<1>13. CASE ReuseIdx(p)
  BY <1>0, <1>13 DEF ReuseIdx, Goto, Within, ChainPC, ListPC, ScanPC, FindPC,
         DelPC, FreePC, StorePC, NextPC
<1>14. CASE RewriteDat(p)
  BY <1>0, <1>14 DEF RewriteDat, Goto, Within, ChainPC, ListPC, ScanPC, FindPC,
         DelPC, FreePC, StorePC, NextPC
<1>15. CASE db_rewind(p)
  BY <1>0, <1>15 DEF db_rewind, Goto, Within, ChainPC, ListPC, ScanPC, FindPC,
         DelPC, FreePC, StorePC, NextPC
<1> QED BY <1>1, <1>2, <1>3, <1>4, <1>5, <1>6, <1>7, <1>8, <1>9, <1>10, <1>11, <1>12, <1>13, <1>14, <1>15

(* The steps that end in err_dump or err_quit on one branch.               *)
LEMMA DumpSteps ==
  ASSUME IExcl, NEW p \in Proc,
         \/ ReadHdr(p) \/ ReadBody(p) \/ ReadDat(p) \/ FreeBody(p)
         \/ StoreLink(p) \/ NextHdr(p) \/ NextBody(p)
  PROVE  LockOK' /\ HoldsOK'
<1>0. pc \in [Proc -> PC] /\ call \in [Proc -> Calls \cup {NoCall}]
  BY DEF IExcl, IType, TypeOK
<1>1. CASE \E how \in GonePC : Gone(p, how)
  BY <1>0, <1>1, GoneExcl DEF Gone, Goto
<1>2. CASE ~\E how \in GonePC : Gone(p, how)
  <2> SUFFICES /\ UNCHANGED <<locks, call>> /\ Within(p)
               /\ \A q \in Proc \ {p} : pc'[q] = pc[q]
    BY PlainExcl
  <2>1. CASE ReadHdr(p)
    BY <1>0, <1>2, <2>1
    DEF ReadHdr, Goto, GonePC, Within, ChainPC, ListPC, ScanPC, FindPC, DelPC, FreePC, StorePC, NextPC
  <2>2. CASE ReadBody(p)
    BY <1>0, <1>2, <2>2
    DEF ReadBody, Found, NotFound, Goto, GonePC, Within, ChainPC, ListPC, ScanPC, FindPC, DelPC, FreePC, StorePC, NextPC
  <2>3. CASE ReadDat(p)
    BY <1>0, <1>2, <2>3
    DEF ReadDat, Goto, GonePC, Within, ChainPC, ListPC, ScanPC, FindPC, DelPC, FreePC, StorePC, NextPC
  <2>4. CASE FreeBody(p)
    BY <1>0, <1>2, <2>4
    DEF FreeBody, Goto, GonePC, Within, ChainPC, ListPC, ScanPC, FindPC, DelPC, FreePC, StorePC, NextPC
  <2>5. CASE StoreLink(p)
    BY <1>0, <1>2, <2>5
    DEF StoreLink, Goto, GonePC, Within, ChainPC, ListPC, ScanPC, FindPC, DelPC, FreePC, StorePC, NextPC
  <2>6. CASE NextHdr(p)
    BY <1>0, <1>2, <2>6
    DEF NextHdr, Goto, GonePC, Within, ChainPC, ListPC, ScanPC, FindPC, DelPC, FreePC, StorePC, NextPC
  <2>7. CASE NextBody(p)
    BY <1>0, <1>2, <2>7
    DEF NextBody, Goto, GonePC, Within, ChainPC, ListPC, ScanPC, FindPC, DelPC, FreePC, StorePC, NextPC
  <2> QED BY <2>1, <2>2, <2>3, <2>4, <2>5, <2>6, <2>7
<1> QED BY <1>1, <1>2

-----------------------------------------------------------------------------
(* Steps that take or release one lock.                                    *)

LEMMA LockSteps ==
  ASSUME IExcl, NEW p \in Proc, NEW l \in Lock,
         ReadLock(l, p) \/ WriteLock(l, p) \/ UnLock(l, p),
         \A q \in Proc \ {p} : pc'[q] = pc[q] /\ call'[q] = call[q],
         Holds(p)'
  PROVE  LockOK' /\ HoldsOK'
<1>1. LocksType /\ LockOK
  BY DEF IExcl, IType, TypeOK, LocksType
<1>2. /\ LockOK'
      /\ \A q \in Proc \ {p} : \A m \in Lock :
           (q \in rlk[m] => q \in rlk'[m]) /\ (q \in wlk[m] => q \in wlk'[m])
  BY <1>1, LockFrame
<1>3. HoldsOK'
  BY <1>2, HoldsFrame DEF IExcl
<1> QED BY <1>2, <1>3

LEMMA LockChainExcl ==
  ASSUME IExcl, NEW p \in Proc, LockChain(p)
  PROVE  LockOK' /\ HoldsOK'
<1>0. /\ LocksType /\ Holds(p) /\ CallAt(p) /\ pc \in [Proc -> PC]
      /\ call \in [Proc -> Calls \cup {NoCall}]
  BY DEF IExcl, IType, TypeOK, LocksType, HoldsOK, CallOK
<1>1. call[p] \in Fetch \cup Delete \cup Store => call[p].key \in Key
  BY DEF Fetch, Delete, Store
<1>2. chainoff(call[p].key) \in Lock
  BY <1>0, <1>1, Layout
  DEF LockChain, CallAt, FindPC, DelPC, FreePC, StorePC, NextPC
<1>3. \/ call[p].op = "fetch" /\ ReadLock(chainoff(call[p].key), p)
      \/ call[p].op # "fetch" /\ WriteLock(chainoff(call[p].key), p)
  BY DEF LockChain, ChainLock
<1>4. Holds(p)'
  <2>1. call'[p] = call[p] /\ pc'[p] # pc[p] /\ LockChain(p)
    BY <1>0 DEF LockChain, Goto
  <2> QED
    BY <1>0, <1>1, <1>2, <1>3, <2>1, LockOwn, LocksDiffer, Layout
    DEF LockChain, Goto, Holds, CallAt, ChainPC, ListPC, ScanPC, FindPC, DelPC,
        FreePC, StorePC, NextPC, Fetch, Delete, Store
<1>5. \A q \in Proc \ {p} : pc'[q] = pc[q] /\ call'[q] = call[q]
  BY <1>0 DEF LockChain, Goto
<1> QED BY <1>2, <1>3, <1>4, <1>5, LockSteps

LEMMA DelLockExcl ==
  ASSUME IExcl, NEW p \in Proc, DelLock(p)
  PROVE  LockOK' /\ HoldsOK'
<1>0. /\ LocksType /\ Holds(p) /\ CallAt(p) /\ pc \in [Proc -> PC]
      /\ call \in [Proc -> Calls \cup {NoCall}]
  BY DEF IExcl, IType, TypeOK, LocksType, HoldsOK, CallOK
<1>1. call[p] \in Fetch \cup Delete \cup Store => call[p].key \in Key
  BY DEF Fetch, Delete, Store
<1>2. FREE_OFF \in Lock
  BY <1>0, <1>1, Layout
  DEF DelLock, CallAt, FindPC, DelPC, FreePC, StorePC, NextPC
<1>3. WriteLock(FREE_OFF, p)
  BY DEF DelLock
<1>4. Holds(p)'
  <2>1. call'[p] = call[p] /\ pc'[p] # pc[p] /\ DelLock(p)
    BY <1>0 DEF DelLock, Goto
  <2> QED
    BY <1>0, <1>1, <1>2, <1>3, <2>1, LockOwn, LocksDiffer, Layout
    DEF DelLock, Goto, Holds, CallAt, ChainPC, ListPC, ScanPC, FindPC, DelPC,
        FreePC, StorePC, NextPC, Fetch, Delete, Store
<1>5. \A q \in Proc \ {p} : pc'[q] = pc[q] /\ call'[q] = call[q]
  BY <1>0 DEF DelLock, Goto
<1> QED BY <1>2, <1>3, <1>4, <1>5, LockSteps

LEMMA DelUnlockExcl ==
  ASSUME IExcl, NEW p \in Proc, DelUnlock(p)
  PROVE  LockOK' /\ HoldsOK'
<1>0. /\ LocksType /\ Holds(p) /\ CallAt(p) /\ pc \in [Proc -> PC]
      /\ call \in [Proc -> Calls \cup {NoCall}]
  BY DEF IExcl, IType, TypeOK, LocksType, HoldsOK, CallOK
<1>1. call[p] \in Fetch \cup Delete \cup Store => call[p].key \in Key
  BY DEF Fetch, Delete, Store
<1>2. FREE_OFF \in Lock
  BY <1>0, <1>1, Layout
  DEF DelUnlock, CallAt, FindPC, DelPC, FreePC, StorePC, NextPC
<1>3. UnLock(FREE_OFF, p)
  BY DEF DelUnlock
<1>4. Holds(p)'
  <2>1. call'[p] = call[p] /\ pc'[p] # pc[p] /\ DelUnlock(p)
    BY <1>0 DEF DelUnlock, Goto
  <2> QED
    BY <1>0, <1>1, <1>2, <1>3, <2>1, LockOwn, LocksDiffer, Layout
    DEF DelUnlock, Goto, Holds, CallAt, ChainPC, ListPC, ScanPC, FindPC, DelPC,
        FreePC, StorePC, NextPC, Fetch, Delete, Store
<1>5. \A q \in Proc \ {p} : pc'[q] = pc[q] /\ call'[q] = call[q]
  BY <1>0 DEF DelUnlock, Goto
<1> QED BY <1>2, <1>3, <1>4, <1>5, LockSteps

LEMMA FreeLockExcl ==
  ASSUME IExcl, NEW p \in Proc, FreeLock(p)
  PROVE  LockOK' /\ HoldsOK'
<1>0. /\ LocksType /\ Holds(p) /\ CallAt(p) /\ pc \in [Proc -> PC]
      /\ call \in [Proc -> Calls \cup {NoCall}]
  BY DEF IExcl, IType, TypeOK, LocksType, HoldsOK, CallOK
<1>1. call[p] \in Fetch \cup Delete \cup Store => call[p].key \in Key
  BY DEF Fetch, Delete, Store
<1>2. FREE_OFF \in Lock
  BY <1>0, <1>1, Layout
  DEF FreeLock, CallAt, FindPC, DelPC, FreePC, StorePC, NextPC
<1>3. WriteLock(FREE_OFF, p)
  BY DEF FreeLock
<1>4. Holds(p)'
  <2>1. call'[p] = call[p] /\ pc'[p] # pc[p] /\ FreeLock(p)
    BY <1>0 DEF FreeLock, Goto
  <2> QED
    BY <1>0, <1>1, <1>2, <1>3, <2>1, LockOwn, LocksDiffer, Layout
    DEF FreeLock, Goto, Holds, CallAt, ChainPC, ListPC, ScanPC, FindPC, DelPC,
        FreePC, StorePC, NextPC, Fetch, Delete, Store
<1>5. \A q \in Proc \ {p} : pc'[q] = pc[q] /\ call'[q] = call[q]
  BY <1>0 DEF FreeLock, Goto
<1> QED BY <1>2, <1>3, <1>4, <1>5, LockSteps

LEMMA FreeUnlockExcl ==
  ASSUME IExcl, NEW p \in Proc, FreeUnlock(p)
  PROVE  LockOK' /\ HoldsOK'
<1>0. /\ LocksType /\ Holds(p) /\ CallAt(p) /\ pc \in [Proc -> PC]
      /\ call \in [Proc -> Calls \cup {NoCall}]
  BY DEF IExcl, IType, TypeOK, LocksType, HoldsOK, CallOK
<1>1. call[p] \in Fetch \cup Delete \cup Store => call[p].key \in Key
  BY DEF Fetch, Delete, Store
<1>2. FREE_OFF \in Lock
  BY <1>0, <1>1, Layout
  DEF FreeUnlock, CallAt, FindPC, DelPC, FreePC, StorePC, NextPC
<1>3. UnLock(FREE_OFF, p)
  BY DEF FreeUnlock
<1>4. Holds(p)'
  <2>1. call'[p] = call[p] /\ pc'[p] # pc[p] /\ FreeUnlock(p)
    BY <1>0 DEF FreeUnlock, Goto
  <2> QED
    BY <1>0, <1>1, <1>2, <1>3, <2>1, LockOwn, LocksDiffer, Layout
    DEF FreeUnlock, Goto, Holds, CallAt, ChainPC, ListPC, ScanPC, FindPC, DelPC,
        FreePC, StorePC, NextPC, Fetch, Delete, Store
<1>5. \A q \in Proc \ {p} : pc'[q] = pc[q] /\ call'[q] = call[q]
  BY <1>0 DEF FreeUnlock, Goto
<1> QED BY <1>2, <1>3, <1>4, <1>5, LockSteps

LEMMA AppDatLockExcl ==
  ASSUME IExcl, NEW p \in Proc, AppDatLock(p)
  PROVE  LockOK' /\ HoldsOK'
<1>0. /\ LocksType /\ Holds(p) /\ CallAt(p) /\ pc \in [Proc -> PC]
      /\ call \in [Proc -> Calls \cup {NoCall}]
  BY DEF IExcl, IType, TypeOK, LocksType, HoldsOK, CallOK
<1>1. call[p] \in Fetch \cup Delete \cup Store => call[p].key \in Key
  BY DEF Fetch, Delete, Store
<1>2. DAT \in Lock
  BY <1>0, <1>1, Layout
  DEF AppDatLock, CallAt, FindPC, DelPC, FreePC, StorePC, NextPC
<1>3. WriteLock(DAT, p)
  BY DEF AppDatLock
<1>4. Holds(p)'
  <2>1. call'[p] = call[p] /\ pc'[p] # pc[p] /\ AppDatLock(p)
    BY <1>0 DEF AppDatLock, Goto
  <2> QED
    BY <1>0, <1>1, <1>2, <1>3, <2>1, LockOwn, LocksDiffer, Layout
    DEF AppDatLock, Goto, Holds, CallAt, ChainPC, ListPC, ScanPC, FindPC, DelPC,
        FreePC, StorePC, NextPC, Fetch, Delete, Store
<1>5. \A q \in Proc \ {p} : pc'[q] = pc[q] /\ call'[q] = call[q]
  BY <1>0 DEF AppDatLock, Goto
<1> QED BY <1>2, <1>3, <1>4, <1>5, LockSteps

LEMMA AppDatUnlockExcl ==
  ASSUME IExcl, NEW p \in Proc, AppDatUnlock(p)
  PROVE  LockOK' /\ HoldsOK'
<1>0. /\ LocksType /\ Holds(p) /\ CallAt(p) /\ pc \in [Proc -> PC]
      /\ call \in [Proc -> Calls \cup {NoCall}]
  BY DEF IExcl, IType, TypeOK, LocksType, HoldsOK, CallOK
<1>1. call[p] \in Fetch \cup Delete \cup Store => call[p].key \in Key
  BY DEF Fetch, Delete, Store
<1>2. DAT \in Lock
  BY <1>0, <1>1, Layout
  DEF AppDatUnlock, CallAt, FindPC, DelPC, FreePC, StorePC, NextPC
<1>3. UnLock(DAT, p)
  BY DEF AppDatUnlock
<1>4. Holds(p)'
  <2>1. call'[p] = call[p] /\ pc'[p] # pc[p] /\ AppDatUnlock(p)
    BY <1>0 DEF AppDatUnlock, Goto
  <2> QED
    BY <1>0, <1>1, <1>2, <1>3, <2>1, LockOwn, LocksDiffer, Layout
    DEF AppDatUnlock, Goto, Holds, CallAt, ChainPC, ListPC, ScanPC, FindPC, DelPC,
        FreePC, StorePC, NextPC, Fetch, Delete, Store
<1>5. \A q \in Proc \ {p} : pc'[q] = pc[q] /\ call'[q] = call[q]
  BY <1>0 DEF AppDatUnlock, Goto
<1> QED BY <1>2, <1>3, <1>4, <1>5, LockSteps

LEMMA AppIdxLockExcl ==
  ASSUME IExcl, NEW p \in Proc, AppIdxLock(p)
  PROVE  LockOK' /\ HoldsOK'
<1>0. /\ LocksType /\ Holds(p) /\ CallAt(p) /\ pc \in [Proc -> PC]
      /\ call \in [Proc -> Calls \cup {NoCall}]
  BY DEF IExcl, IType, TypeOK, LocksType, HoldsOK, CallOK
<1>1. call[p] \in Fetch \cup Delete \cup Store => call[p].key \in Key
  BY DEF Fetch, Delete, Store
<1>2. TAIL \in Lock
  BY <1>0, <1>1, Layout
  DEF AppIdxLock, CallAt, FindPC, DelPC, FreePC, StorePC, NextPC
<1>3. WriteLock(TAIL, p)
  BY DEF AppIdxLock
<1>4. Holds(p)'
  <2>1. call'[p] = call[p] /\ pc'[p] # pc[p] /\ AppIdxLock(p)
    BY <1>0 DEF AppIdxLock, Goto
  <2> QED
    BY <1>0, <1>1, <1>2, <1>3, <2>1, LockOwn, LocksDiffer, Layout
    DEF AppIdxLock, Goto, Holds, CallAt, ChainPC, ListPC, ScanPC, FindPC, DelPC,
        FreePC, StorePC, NextPC, Fetch, Delete, Store
<1>5. \A q \in Proc \ {p} : pc'[q] = pc[q] /\ call'[q] = call[q]
  BY <1>0 DEF AppIdxLock, Goto
<1> QED BY <1>2, <1>3, <1>4, <1>5, LockSteps

LEMMA AppIdxUnlockExcl ==
  ASSUME IExcl, NEW p \in Proc, AppIdxUnlock(p)
  PROVE  LockOK' /\ HoldsOK'
<1>0. /\ LocksType /\ Holds(p) /\ CallAt(p) /\ pc \in [Proc -> PC]
      /\ call \in [Proc -> Calls \cup {NoCall}]
  BY DEF IExcl, IType, TypeOK, LocksType, HoldsOK, CallOK
<1>1. call[p] \in Fetch \cup Delete \cup Store => call[p].key \in Key
  BY DEF Fetch, Delete, Store
<1>2. TAIL \in Lock
  BY <1>0, <1>1, Layout
  DEF AppIdxUnlock, CallAt, FindPC, DelPC, FreePC, StorePC, NextPC
<1>3. UnLock(TAIL, p)
  BY DEF AppIdxUnlock
<1>4. Holds(p)'
  <2>1. call'[p] = call[p] /\ pc'[p] # pc[p] /\ AppIdxUnlock(p)
    BY <1>0 DEF AppIdxUnlock, Goto
  <2> QED
    BY <1>0, <1>1, <1>2, <1>3, <2>1, LockOwn, LocksDiffer, Layout
    DEF AppIdxUnlock, Goto, Holds, CallAt, ChainPC, ListPC, ScanPC, FindPC, DelPC,
        FreePC, StorePC, NextPC, Fetch, Delete, Store
<1>5. \A q \in Proc \ {p} : pc'[q] = pc[q] /\ call'[q] = call[q]
  BY <1>0 DEF AppIdxUnlock, Goto
<1> QED BY <1>2, <1>3, <1>4, <1>5, LockSteps

LEMMA NextLockExcl ==
  ASSUME IExcl, NEW p \in Proc, NextLock(p)
  PROVE  LockOK' /\ HoldsOK'
<1>0. /\ LocksType /\ Holds(p) /\ CallAt(p) /\ pc \in [Proc -> PC]
      /\ call \in [Proc -> Calls \cup {NoCall}]
  BY DEF IExcl, IType, TypeOK, LocksType, HoldsOK, CallOK
<1>1. call[p] \in Fetch \cup Delete \cup Store => call[p].key \in Key
  BY DEF Fetch, Delete, Store
<1>2. FREE_OFF \in Lock
  BY <1>0, <1>1, Layout
  DEF NextLock, CallAt, FindPC, DelPC, FreePC, StorePC, NextPC
<1>3. ReadLock(FREE_OFF, p)
  BY DEF NextLock
<1>4. Holds(p)'
  <2>1. call'[p] = call[p] /\ pc'[p] # pc[p] /\ NextLock(p)
    BY <1>0 DEF NextLock, Goto
  <2> QED
    BY <1>0, <1>1, <1>2, <1>3, <2>1, LockOwn, LocksDiffer, Layout
    DEF NextLock, Goto, Holds, CallAt, ChainPC, ListPC, ScanPC, FindPC, DelPC,
        FreePC, StorePC, NextPC, Fetch, Delete, Store
<1>5. \A q \in Proc \ {p} : pc'[q] = pc[q] /\ call'[q] = call[q]
  BY <1>0 DEF NextLock, Goto
<1> QED BY <1>2, <1>3, <1>4, <1>5, LockSteps

LEMMA ReturnExcl ==
  ASSUME IExcl, NEW p \in Proc, Return(p)
  PROVE  LockOK' /\ HoldsOK'
<1> DEFINE l == IF pc[p] = "unlock" THEN chainoff(call[p].key) ELSE FREE_OFF
<1>0. /\ CallAt(p) /\ pc \in [Proc -> PC]
      /\ call \in [Proc -> Calls \cup {NoCall}]
  BY DEF IExcl, IType, TypeOK, CallOK
<1>1. l \in Lock
  BY <1>0, Layout DEF Return, CallAt, FindPC, Fetch, Delete, Store
<1>2. UnLock(l, p)
  BY DEF Return
<1>3. Holds(p)'
  BY <1>0 DEF Return, Goto, Holds, ChainPC, ListPC, ScanPC, FindPC, DelPC,
     FreePC, StorePC, NextPC
<1>4. \A q \in Proc \ {p} : pc'[q] = pc[q] /\ call'[q] = call[q]
  BY <1>0 DEF Return, Goto
<1> HIDE DEF l
<1> QED BY <1>1, <1>2, <1>3, <1>4, LockSteps

LEMMA CallExcl ==
  ASSUME IExcl, NEW p \in Proc, NEW c \in Calls, Call(p, c)
  PROVE  LockOK' /\ HoldsOK'
<1>0. /\ pc \in [Proc -> PC] /\ call \in [Proc -> Calls \cup {NoCall}]
  BY DEF IExcl, IType, TypeOK
<1>1. UNCHANGED locks /\ pc'[p] \in {"lock", "nx_lock"}
  BY <1>0 DEF Call, Goto
<1>2. Holds(p)'
  BY <1>1 DEF Holds, ChainPC, ListPC, ScanPC, FindPC, DelPC, FreePC, StorePC,
     NextPC
<1>3. \A q \in Proc \ {p} : pc'[q] = pc[q] /\ call'[q] = call[q]
  BY <1>0 DEF Call, Goto
<1>4. HoldsOK'
  BY <1>1, <1>2, <1>3, HoldsFrame DEF IExcl, locks
<1> QED BY <1>1, <1>4 DEF IExcl, LockOK, locks

LEMMA CrashExcl ==
  ASSUME IExcl, NEW p \in Proc, Crash(p)
  PROVE  LockOK' /\ HoldsOK'
<1>0. /\ pc \in [Proc -> PC] /\ call \in [Proc -> Calls \cup {NoCall}]
  BY DEF IExcl, IType, TypeOK
<1> QED BY <1>0, GoneExcl DEF Crash, Goto

LEMMA ExclNext == IExcl /\ [Next]_vars => IExcl'
<1> SUFFICES ASSUME IExcl, [Next]_vars PROVE IExcl'
  OBVIOUS
<1>0. IType'
  BY TypeNext DEF IExcl
<1>1. CASE UNCHANGED vars
  <2>1. LockOK' BY <1>1 DEF IExcl, LockOK, vars
  <2>2. HoldsOK' BY <1>1 DEF IExcl, HoldsOK, Holds, vars
  <2> QED BY <1>0, <2>1, <2>2 DEF IExcl
<1>2. ASSUME NEW p \in Proc, Step(p) PROVE LockOK' /\ HoldsOK'
  BY <1>2, WithinSteps, DumpSteps, LockChainExcl, ReturnExcl, DelLockExcl,
     DelUnlockExcl, FreeLockExcl, FreeUnlockExcl, AppDatLockExcl,
     AppDatUnlockExcl, AppIdxLockExcl, AppIdxUnlockExcl, NextLockExcl
  DEF Step
<1>3. CASE Next
  BY <1>0, <1>2, <1>3, CallExcl, WithinSteps, CrashExcl DEF Next, IExcl
<1> QED BY <1>1, <1>3

LEMMA ExclHolds == IExcl => Exclusion
<1> SUFFICES ASSUME IExcl, NEW p \in Proc, NEW q \in Proc \ {p}
             PROVE  /\ pc[p] \in ChainPC /\ pc[q] \in ChainPC
                         /\ chainoff(call[p].key) = chainoff(call[q].key)
                       => call[p].op = "fetch" /\ call[q].op = "fetch"
                    /\ pc[p] \in ListPC => pc[q] \notin ListPC \cup ScanPC
                    /\ pc[p] \in {"ap_dat", "ap_dunlock"}
                         => pc[q] \notin {"ap_dat", "ap_dunlock"}
                    /\ pc[p] \in {"ap_idx", "ap_iunlock"}
                         => pc[q] \notin {"ap_idx", "ap_iunlock"}
  BY DEF Exclusion
<1>1. Holds(p) /\ Holds(q) /\ CallAt(p) /\ LockOK
  BY DEF IExcl, HoldsOK, IType, CallOK
<1>2. pc[p] \in ChainPC => chainoff(call[p].key) \in Lock
  BY <1>1, Layout
  DEF CallAt, ChainPC, FindPC, DelPC, FreePC, StorePC, Fetch, Delete, Store
<1>3. FREE_OFF \in Lock /\ DAT \in Lock /\ TAIL \in Lock
  BY Layout
<1> QED BY <1>1, <1>2, <1>3 DEF Holds, LockOK

\* However many processes run, and wherever they are killed: two of them are
\* in one chain together only to fetch, one at a time works on the free list
\* and none scans meanwhile, and appends to a file never overlap.
THEOREM LocksExclude == Spec => []Exclusion
<1>1. Init => IExcl BY ExclInit
<1>2. IExcl /\ [Next]_vars => IExcl' BY ExclNext
<1>3. IExcl => Exclusion BY ExclHolds
<1> QED BY <1>1, <1>2, <1>3, PTL DEF Spec

-----------------------------------------------------------------------------
(***************************************************************************)
(* No process ever meets a record it cannot parse, for any number of       *)
(* processes, chains, keys and records, and wherever processes are killed. *)
(***************************************************************************)
(***************************************************************************)
(* The inductive invariant.  Whatever the lists look like, every pointer   *)
(* field and every offset in a handle names a record that was written; a   *)
(* record and the data it names agree on the length; and a handle that has *)
(* read a header or a body agrees with the record as it is now, because    *)
(* nobody ever changes the lengths of a record.                            *)
(***************************************************************************)
Link == {0} \cup Allocated

PtrOK == \A o \in Off : ptr[o] \in Link

DatOK == \A s \in Allocated : /\ rec[s].datoff \in 1 .. Len(dat)
                              /\ dat[rec[s].datoff].len = rec[s].datlen

HasBody == {"dat", "nx_dat", "rw_dat", "ff_take", "ff_done", "ru_dat",
            "ru_idx"} \cup DelPC
HasHdr == {"body", "ff_body", "nx_body"}

HandleOK(p) ==
  LET h == db[p] IN
  /\ h.offset \in Link /\ h.ptrval \in Link /\ h.freeptr \in Link
  /\ h.hptr \in Link
  /\ pc[p] \in {"hdr", "ff_hdr"} => h.offset # 0
  /\ pc[p] \in {"ap_iunlock", "st_link"} => h.idxoff \in Allocated
  /\ pc[p] \in HasHdr => h.idxoff \in Allocated /\ h.idxlen = RecLen(h.idxoff)
  /\ pc[p] \in HasBody => /\ h.idxoff \in Allocated
                          /\ h.klen = rec[h.idxoff].klen
                          /\ h.datoff = rec[h.idxoff].datoff
                          /\ h.datlen = rec[h.idxoff].datlen
  /\ pc[p] \in {"ff_take", "ff_done", "ru_dat", "ru_idx"} =>
       h.klen = KeyLen[call[p].key] /\ h.datlen = DatLen[call[p].data]
  /\ pc[p] = "rw_dat" => h.datlen = DatLen[call[p].data]
  /\ pc[p] \in {"ap_dunlock", "ap_ilock", "ap_idx"} =>
       h.datoff \in 1 .. Len(dat) /\ dat[h.datoff].len = h.datlen
  /\ pc[p] \in {"nx_lock", "nx_hdr"} => pos[p] # 0
  /\ pc[p] # "dump"

HandlesOK == \A p \in Proc : HandleOK(p)

IFormat == IType /\ PtrOK /\ DatOK /\ HandlesOK

-----------------------------------------------------------------------------
(* How the files may change under a process that is not looking.           *)

Grows ==
  /\ Allocated \subseteq Allocated'
  /\ \A s \in Allocated : /\ rec'[s].klen = rec[s].klen
                          /\ rec'[s].datoff = rec[s].datoff
                          /\ rec'[s].datlen = rec[s].datlen
  /\ Len(dat) <= Len(dat') /\ Len(dat') \in Nat
  /\ \A i \in 1 .. Len(dat) : dat'[i].len = dat[i].len

LEMMA HandleFrame ==
  ASSUME IFormat, Grows, NEW q \in Proc, pc'[q] = pc[q], call'[q] = call[q],
         db'[q] = db[q], pos'[q] = pos[q]
  PROVE  HandleOK(q)'
<1>0. HandleOK(q) /\ Len(dat) \in Nat
  BY DEF IFormat, HandlesOK, IType, TypeOK
<1>1. \A o \in Link : o \in Link'
  BY DEF Link, Grows
<1>2. /\ db[q].offset \in Link' /\ db[q].ptrval \in Link'
      /\ db[q].freeptr \in Link' /\ db[q].hptr \in Link'
  BY <1>0, <1>1 DEF HandleOK
<1>3. \A s \in Allocated : RecLen(s)' = RecLen(s) /\ s \in Allocated'
  BY DEF Grows, RecLen
<1>4. \A i \in 1 .. Len(dat) : i \in 1 .. Len(dat') /\ dat'[i].len = dat[i].len
  BY <1>0 DEF Grows
<1> QED BY <1>0, <1>2, <1>3, <1>4 DEF HandleOK, Grows

LEMMA FormatFrame ==
  ASSUME IFormat, Grows, NEW p \in Proc,
         \A q \in Proc \ {p} : /\ pc'[q] = pc[q] /\ call'[q] = call[q]
                               /\ db'[q] = db[q] /\ pos'[q] = pos[q],
         HandleOK(p)'
  PROVE  HandlesOK'
<1> SUFFICES ASSUME NEW q \in Proc \ {p} PROVE HandleOK(q)'
  BY DEF HandlesOK
<1> QED BY HandleFrame

LEMMA SameFiles ==
  ASSUME IFormat, UNCHANGED files
  PROVE  Grows /\ PtrOK' /\ DatOK' /\ Allocated' = Allocated /\ Link' = Link
<1>0. Len(dat) \in Nat
  BY DEF IFormat, IType, TypeOK
<1>1. Allocated' = Allocated
  BY DEF files, Allocated
<1> QED BY <1>0, <1>1 DEF IFormat, files, Grows, PtrOK, DatOK, Link

\* A write to one pointer field.
LEMMA PtrWrite ==
  ASSUME IFormat, NEW o, NEW v \in Link, ptr' = [ptr EXCEPT ![o] = v],
         UNCHANGED <<rec, idxEnd, dat>>
  PROVE  Grows /\ PtrOK' /\ DatOK' /\ Allocated' = Allocated /\ Link' = Link
<1>0. Len(dat) \in Nat /\ ptr \in [Off -> Off]
  BY DEF IFormat, IType, TypeOK
<1>1. Allocated' = Allocated
  BY DEF Allocated
<1> QED BY <1>0, <1>1 DEF IFormat, Grows, PtrOK, DatOK, Link

\* An overwritten data record of the same length.
LEMMA DatWrite ==
  ASSUME IFormat, NEW i \in 1 .. Len(dat), NEW r \in DatRec,
         r.len = dat[i].len, dat' = [dat EXCEPT ![i] = r],
         UNCHANGED <<ptr, rec, idxEnd>>
  PROVE  Grows /\ PtrOK' /\ DatOK' /\ Allocated' = Allocated /\ Link' = Link
<1>0. dat \in Seq(DatRec) /\ Len(dat) \in Nat
  BY DEF IFormat, IType, TypeOK
<1>1. Allocated' = Allocated
  BY DEF Allocated
<1>2. Len(dat') = Len(dat) /\ \A j \in 1 .. Len(dat) : dat'[j].len = dat[j].len
  BY <1>0
<1> QED BY <1>0, <1>1, <1>2 DEF IFormat, Grows, PtrOK, DatOK, Link

\* An overwritten index record of the same lengths.
LEMMA RecWrite ==
  ASSUME IFormat, NEW s \in Allocated, NEW r \in Slot, NEW v \in Link,
         r.klen = rec[s].klen, r.datoff = rec[s].datoff, r.datlen = rec[s].datlen,
         rec' = [rec EXCEPT ![s] = r], ptr' = [ptr EXCEPT ![s] = v],
         UNCHANGED <<idxEnd, dat>>
  PROVE  Grows /\ PtrOK' /\ DatOK' /\ Allocated' = Allocated /\ Link' = Link
<1>0. Len(dat) \in Nat /\ ptr \in [Off -> Off] /\ rec \in [RecOff -> Slot]
  BY DEF IFormat, IType, TypeOK
<1>1. Allocated' = Allocated /\ Allocated \subseteq RecOff
  BY DEF Allocated
<1>2. \A z \in Allocated : /\ rec'[z].klen = rec[z].klen
                           /\ rec'[z].datoff = rec[z].datoff
                           /\ rec'[z].datlen = rec[z].datlen
  BY <1>0, <1>1
<1> QED BY <1>0, <1>1, <1>2 DEF IFormat, Grows, PtrOK, DatOK, Link

LEMMA FormatInit == Init => IFormat
<1> SUFFICES ASSUME Init PROVE IFormat OBVIOUS
<1>1. IType BY TypeInit
<1>2. Allocated = {}
  BY <1>1, DbConst DEF Init, Allocated, RecOff, FirstRec
<1>3. PtrOK /\ DatOK
  BY <1>2 DEF Init, PtrOK, DatOK, Link
<1>4. HandlesOK
  BY <1>2 DEF Init, HandlesOK, HandleOK, HasHdr, HasBody, DelPC, Link, DB0
<1> QED BY <1>1, <1>3, <1>4 DEF IFormat

-----------------------------------------------------------------------------
(* Steps that leave the files alone.                                       *)

LEMMA LockChainFormat ==
  ASSUME IFormat, NEW p \in Proc, LockChain(p)
  PROVE  Grows /\ PtrOK' /\ DatOK' /\ HandlesOK'
<1>0. /\ HandleOK(p) /\ db \in [Proc -> Handle] /\ db[p] \in Handle
      /\ pc \in [Proc -> PC] /\ call \in [Proc -> Calls \cup {NoCall}]
      /\ pos \in [Proc -> Pos] /\ CallAt(p)
  BY DEF IFormat, HandlesOK, IType, TypeOK, CallOK
<1>1. Grows /\ PtrOK' /\ DatOK' /\ Allocated' = Allocated /\ Link' = Link /\ UNCHANGED files
  BY SameFiles DEF LockChain
<1>2. HandleOK(p)'
  BY <1>0, <1>1
  DEF LockChain, Goto, HandleOK, HasHdr, HasBody, DelPC, files, RecLen
<1>3. \A q \in Proc \ {p} : /\ pc'[q] = pc[q] /\ call'[q] = call[q]
                            /\ db'[q] = db[q] /\ pos'[q] = pos[q]
  BY <1>0 DEF LockChain, Goto
<1> QED BY <1>1, <1>2, <1>3, FormatFrame

LEMMA DelLockFormat ==
  ASSUME IFormat, NEW p \in Proc, DelLock(p)
  PROVE  Grows /\ PtrOK' /\ DatOK' /\ HandlesOK'
<1>0. /\ HandleOK(p) /\ db \in [Proc -> Handle] /\ db[p] \in Handle
      /\ pc \in [Proc -> PC] /\ call \in [Proc -> Calls \cup {NoCall}]
      /\ pos \in [Proc -> Pos] /\ CallAt(p)
  BY DEF IFormat, HandlesOK, IType, TypeOK, CallOK
<1>1. Grows /\ PtrOK' /\ DatOK' /\ Allocated' = Allocated /\ Link' = Link /\ UNCHANGED files
  BY SameFiles DEF DelLock
<1>2. HandleOK(p)'
  BY <1>0, <1>1
  DEF DelLock, Goto, HandleOK, HasHdr, HasBody, DelPC, files, RecLen
<1>3. \A q \in Proc \ {p} : /\ pc'[q] = pc[q] /\ call'[q] = call[q]
                            /\ db'[q] = db[q] /\ pos'[q] = pos[q]
  BY <1>0 DEF DelLock, Goto
<1> QED BY <1>1, <1>2, <1>3, FormatFrame

LEMMA DelUnlockFormat ==
  ASSUME IFormat, NEW p \in Proc, DelUnlock(p)
  PROVE  Grows /\ PtrOK' /\ DatOK' /\ HandlesOK'
<1>0. /\ HandleOK(p) /\ db \in [Proc -> Handle] /\ db[p] \in Handle
      /\ pc \in [Proc -> PC] /\ call \in [Proc -> Calls \cup {NoCall}]
      /\ pos \in [Proc -> Pos] /\ CallAt(p)
  BY DEF IFormat, HandlesOK, IType, TypeOK, CallOK
<1>1. Grows /\ PtrOK' /\ DatOK' /\ Allocated' = Allocated /\ Link' = Link /\ UNCHANGED files
  BY SameFiles DEF DelUnlock
<1>2. HandleOK(p)'
  BY <1>0, <1>1
  DEF DelUnlock, Goto, HandleOK, HasHdr, HasBody, DelPC, files, RecLen
<1>3. \A q \in Proc \ {p} : /\ pc'[q] = pc[q] /\ call'[q] = call[q]
                            /\ db'[q] = db[q] /\ pos'[q] = pos[q]
  BY <1>0 DEF DelUnlock, Goto
<1> QED BY <1>1, <1>2, <1>3, FormatFrame

LEMMA FreeLockFormat ==
  ASSUME IFormat, NEW p \in Proc, FreeLock(p)
  PROVE  Grows /\ PtrOK' /\ DatOK' /\ HandlesOK'
<1>0. /\ HandleOK(p) /\ db \in [Proc -> Handle] /\ db[p] \in Handle
      /\ pc \in [Proc -> PC] /\ call \in [Proc -> Calls \cup {NoCall}]
      /\ pos \in [Proc -> Pos] /\ CallAt(p)
  BY DEF IFormat, HandlesOK, IType, TypeOK, CallOK
<1>1. Grows /\ PtrOK' /\ DatOK' /\ Allocated' = Allocated /\ Link' = Link /\ UNCHANGED files
  BY SameFiles DEF FreeLock
<1>2. HandleOK(p)'
  BY <1>0, <1>1
  DEF FreeLock, Goto, HandleOK, HasHdr, HasBody, DelPC, files, RecLen
<1>3. \A q \in Proc \ {p} : /\ pc'[q] = pc[q] /\ call'[q] = call[q]
                            /\ db'[q] = db[q] /\ pos'[q] = pos[q]
  BY <1>0 DEF FreeLock, Goto
<1> QED BY <1>1, <1>2, <1>3, FormatFrame

LEMMA FreeUnlockFormat ==
  ASSUME IFormat, NEW p \in Proc, FreeUnlock(p)
  PROVE  Grows /\ PtrOK' /\ DatOK' /\ HandlesOK'
<1>0. /\ HandleOK(p) /\ db \in [Proc -> Handle] /\ db[p] \in Handle
      /\ pc \in [Proc -> PC] /\ call \in [Proc -> Calls \cup {NoCall}]
      /\ pos \in [Proc -> Pos] /\ CallAt(p)
  BY DEF IFormat, HandlesOK, IType, TypeOK, CallOK
<1>1. Grows /\ PtrOK' /\ DatOK' /\ Allocated' = Allocated /\ Link' = Link /\ UNCHANGED files
  BY SameFiles DEF FreeUnlock
<1>2. HandleOK(p)'
  BY <1>0, <1>1
  DEF FreeUnlock, Goto, HandleOK, HasHdr, HasBody, DelPC, files, RecLen
<1>3. \A q \in Proc \ {p} : /\ pc'[q] = pc[q] /\ call'[q] = call[q]
                            /\ db'[q] = db[q] /\ pos'[q] = pos[q]
  BY <1>0 DEF FreeUnlock, Goto
<1> QED BY <1>1, <1>2, <1>3, FormatFrame

LEMMA AppDatLockFormat ==
  ASSUME IFormat, NEW p \in Proc, AppDatLock(p)
  PROVE  Grows /\ PtrOK' /\ DatOK' /\ HandlesOK'
<1>0. /\ HandleOK(p) /\ db \in [Proc -> Handle] /\ db[p] \in Handle
      /\ pc \in [Proc -> PC] /\ call \in [Proc -> Calls \cup {NoCall}]
      /\ pos \in [Proc -> Pos] /\ CallAt(p)
  BY DEF IFormat, HandlesOK, IType, TypeOK, CallOK
<1>1. Grows /\ PtrOK' /\ DatOK' /\ Allocated' = Allocated /\ Link' = Link /\ UNCHANGED files
  BY SameFiles DEF AppDatLock
<1>2. HandleOK(p)'
  BY <1>0, <1>1
  DEF AppDatLock, Goto, HandleOK, HasHdr, HasBody, DelPC, files, RecLen
<1>3. \A q \in Proc \ {p} : /\ pc'[q] = pc[q] /\ call'[q] = call[q]
                            /\ db'[q] = db[q] /\ pos'[q] = pos[q]
  BY <1>0 DEF AppDatLock, Goto
<1> QED BY <1>1, <1>2, <1>3, FormatFrame

LEMMA AppDatUnlockFormat ==
  ASSUME IFormat, NEW p \in Proc, AppDatUnlock(p)
  PROVE  Grows /\ PtrOK' /\ DatOK' /\ HandlesOK'
<1>0. /\ HandleOK(p) /\ db \in [Proc -> Handle] /\ db[p] \in Handle
      /\ pc \in [Proc -> PC] /\ call \in [Proc -> Calls \cup {NoCall}]
      /\ pos \in [Proc -> Pos] /\ CallAt(p)
  BY DEF IFormat, HandlesOK, IType, TypeOK, CallOK
<1>1. Grows /\ PtrOK' /\ DatOK' /\ Allocated' = Allocated /\ Link' = Link /\ UNCHANGED files
  BY SameFiles DEF AppDatUnlock
<1>2. HandleOK(p)'
  BY <1>0, <1>1
  DEF AppDatUnlock, Goto, HandleOK, HasHdr, HasBody, DelPC, files, RecLen
<1>3. \A q \in Proc \ {p} : /\ pc'[q] = pc[q] /\ call'[q] = call[q]
                            /\ db'[q] = db[q] /\ pos'[q] = pos[q]
  BY <1>0 DEF AppDatUnlock, Goto
<1> QED BY <1>1, <1>2, <1>3, FormatFrame

LEMMA AppIdxLockFormat ==
  ASSUME IFormat, NEW p \in Proc, AppIdxLock(p)
  PROVE  Grows /\ PtrOK' /\ DatOK' /\ HandlesOK'
<1>0. /\ HandleOK(p) /\ db \in [Proc -> Handle] /\ db[p] \in Handle
      /\ pc \in [Proc -> PC] /\ call \in [Proc -> Calls \cup {NoCall}]
      /\ pos \in [Proc -> Pos] /\ CallAt(p)
  BY DEF IFormat, HandlesOK, IType, TypeOK, CallOK
<1>1. Grows /\ PtrOK' /\ DatOK' /\ Allocated' = Allocated /\ Link' = Link /\ UNCHANGED files
  BY SameFiles DEF AppIdxLock
<1>2. HandleOK(p)'
  BY <1>0, <1>1
  DEF AppIdxLock, Goto, HandleOK, HasHdr, HasBody, DelPC, files, RecLen
<1>3. \A q \in Proc \ {p} : /\ pc'[q] = pc[q] /\ call'[q] = call[q]
                            /\ db'[q] = db[q] /\ pos'[q] = pos[q]
  BY <1>0 DEF AppIdxLock, Goto
<1> QED BY <1>1, <1>2, <1>3, FormatFrame

LEMMA AppIdxUnlockFormat ==
  ASSUME IFormat, NEW p \in Proc, AppIdxUnlock(p)
  PROVE  Grows /\ PtrOK' /\ DatOK' /\ HandlesOK'
<1>0. /\ HandleOK(p) /\ db \in [Proc -> Handle] /\ db[p] \in Handle
      /\ pc \in [Proc -> PC] /\ call \in [Proc -> Calls \cup {NoCall}]
      /\ pos \in [Proc -> Pos] /\ CallAt(p)
  BY DEF IFormat, HandlesOK, IType, TypeOK, CallOK
<1>1. Grows /\ PtrOK' /\ DatOK' /\ Allocated' = Allocated /\ Link' = Link /\ UNCHANGED files
  BY SameFiles DEF AppIdxUnlock
<1>2. HandleOK(p)'
  BY <1>0, <1>1
  DEF AppIdxUnlock, Goto, HandleOK, HasHdr, HasBody, DelPC, files, RecLen
<1>3. \A q \in Proc \ {p} : /\ pc'[q] = pc[q] /\ call'[q] = call[q]
                            /\ db'[q] = db[q] /\ pos'[q] = pos[q]
  BY <1>0 DEF AppIdxUnlock, Goto
<1> QED BY <1>1, <1>2, <1>3, FormatFrame

LEMMA NextLockFormat ==
  ASSUME IFormat, NEW p \in Proc, NextLock(p)
  PROVE  Grows /\ PtrOK' /\ DatOK' /\ HandlesOK'
<1>0. /\ HandleOK(p) /\ db \in [Proc -> Handle] /\ db[p] \in Handle
      /\ pc \in [Proc -> PC] /\ call \in [Proc -> Calls \cup {NoCall}]
      /\ pos \in [Proc -> Pos] /\ CallAt(p)
  BY DEF IFormat, HandlesOK, IType, TypeOK, CallOK
<1>1. Grows /\ PtrOK' /\ DatOK' /\ Allocated' = Allocated /\ Link' = Link /\ UNCHANGED files
  BY SameFiles DEF NextLock
<1>2. HandleOK(p)'
  BY <1>0, <1>1
  DEF NextLock, Goto, HandleOK, HasHdr, HasBody, DelPC, files, RecLen
<1>3. \A q \in Proc \ {p} : /\ pc'[q] = pc[q] /\ call'[q] = call[q]
                            /\ db'[q] = db[q] /\ pos'[q] = pos[q]
  BY <1>0 DEF NextLock, Goto
<1> QED BY <1>1, <1>2, <1>3, FormatFrame

LEMMA db_rewindFormat ==
  ASSUME IFormat, NEW p \in Proc, db_rewind(p)
  PROVE  Grows /\ PtrOK' /\ DatOK' /\ HandlesOK'
<1>0. /\ HandleOK(p) /\ db \in [Proc -> Handle] /\ db[p] \in Handle
      /\ pc \in [Proc -> PC] /\ call \in [Proc -> Calls \cup {NoCall}]
      /\ pos \in [Proc -> Pos] /\ CallAt(p)
  BY DEF IFormat, HandlesOK, IType, TypeOK, CallOK
<1>1. Grows /\ PtrOK' /\ DatOK' /\ Allocated' = Allocated /\ Link' = Link /\ UNCHANGED files
  BY SameFiles DEF db_rewind
<1>2. HandleOK(p)'
  BY <1>0, <1>1, DbConst
  DEF db_rewind, Goto, HandleOK, HasHdr, HasBody, DelPC, files, RecLen, FirstRec
<1>3. \A q \in Proc \ {p} : /\ pc'[q] = pc[q] /\ call'[q] = call[q]
                            /\ db'[q] = db[q] /\ pos'[q] = pos[q]
  BY <1>0 DEF db_rewind, Goto
<1> QED BY <1>1, <1>2, <1>3, FormatFrame

LEMMA DelFreeFormat ==
  ASSUME IFormat, NEW p \in Proc, DelFree(p)
  PROVE  Grows /\ PtrOK' /\ DatOK' /\ HandlesOK'
<1>0. /\ HandleOK(p) /\ db \in [Proc -> Handle] /\ db[p] \in Handle
      /\ pc \in [Proc -> PC] /\ call \in [Proc -> Calls \cup {NoCall}]
      /\ pos \in [Proc -> Pos] /\ CallAt(p)
  BY DEF IFormat, HandlesOK, IType, TypeOK, CallOK
<1>1. Grows /\ PtrOK' /\ DatOK' /\ Allocated' = Allocated /\ Link' = Link /\ UNCHANGED files
  BY SameFiles DEF DelFree
<1>2. HandleOK(p)'
  BY <1>0, <1>1, Layout
  DEF DelFree, Goto, HandleOK, HasHdr, HasBody, DelPC, files, RecLen, Handle, IFormat, PtrOK
<1>3. \A q \in Proc \ {p} : /\ pc'[q] = pc[q] /\ call'[q] = call[q]
                            /\ db'[q] = db[q] /\ pos'[q] = pos[q]
  BY <1>0 DEF DelFree, Goto
<1> QED BY <1>1, <1>2, <1>3, FormatFrame

LEMMA StoreHeadFormat ==
  ASSUME IFormat, NEW p \in Proc, StoreHead(p)
  PROVE  Grows /\ PtrOK' /\ DatOK' /\ HandlesOK'
<1>0. /\ HandleOK(p) /\ db \in [Proc -> Handle] /\ db[p] \in Handle
      /\ pc \in [Proc -> PC] /\ call \in [Proc -> Calls \cup {NoCall}]
      /\ pos \in [Proc -> Pos] /\ CallAt(p)
  BY DEF IFormat, HandlesOK, IType, TypeOK, CallOK
<1>1. Grows /\ PtrOK' /\ DatOK' /\ Allocated' = Allocated /\ Link' = Link /\ UNCHANGED files
  BY SameFiles DEF StoreHead
<1>2. HandleOK(p)'
  BY <1>0, <1>1, Layout
  DEF StoreHead, Goto, HandleOK, HasHdr, HasBody, DelPC, files, RecLen, Handle, IFormat, PtrOK, CallAt, Store, StorePC, FreePC
<1>3. \A q \in Proc \ {p} : /\ pc'[q] = pc[q] /\ call'[q] = call[q]
                            /\ db'[q] = db[q] /\ pos'[q] = pos[q]
  BY <1>0 DEF StoreHead, Goto
<1> QED BY <1>1, <1>2, <1>3, FormatFrame

LEMMA FreeHeadFormat ==
  ASSUME IFormat, NEW p \in Proc, FreeHead(p)
  PROVE  Grows /\ PtrOK' /\ DatOK' /\ HandlesOK'
<1>0. /\ HandleOK(p) /\ db \in [Proc -> Handle] /\ db[p] \in Handle
      /\ pc \in [Proc -> PC] /\ call \in [Proc -> Calls \cup {NoCall}]
      /\ pos \in [Proc -> Pos] /\ CallAt(p)
  BY DEF IFormat, HandlesOK, IType, TypeOK, CallOK
<1>1. Grows /\ PtrOK' /\ DatOK' /\ Allocated' = Allocated /\ Link' = Link /\ UNCHANGED files
  BY SameFiles DEF FreeHead
<1>2. HandleOK(p)'
  BY <1>0, <1>1, Layout
  DEF FreeHead, Goto, HandleOK, HasHdr, HasBody, DelPC, files, RecLen, Handle, IFormat, PtrOK
<1>3. \A q \in Proc \ {p} : /\ pc'[q] = pc[q] /\ call'[q] = call[q]
                            /\ db'[q] = db[q] /\ pos'[q] = pos[q]
  BY <1>0 DEF FreeHead, Goto
<1> QED BY <1>1, <1>2, <1>3, FormatFrame

LEMMA ReadHeadFormat ==
  ASSUME IFormat, NEW p \in Proc, ReadHead(p)
  PROVE  Grows /\ PtrOK' /\ DatOK' /\ HandlesOK'
<1>0. /\ HandleOK(p) /\ db \in [Proc -> Handle] /\ db[p] \in Handle
      /\ pc \in [Proc -> PC] /\ call \in [Proc -> Calls \cup {NoCall}]
      /\ pos \in [Proc -> Pos] /\ CallAt(p)
  BY DEF IFormat, HandlesOK, IType, TypeOK, CallOK
<1>1. Grows /\ PtrOK' /\ DatOK' /\ Allocated' = Allocated /\ Link' = Link /\ UNCHANGED files
  BY SameFiles DEF ReadHead
<1>2. HandleOK(p)'
  BY <1>0, <1>1, Layout
  DEF ReadHead, Goto, HandleOK, HasHdr, HasBody, DelPC, files, RecLen, NotFound, Handle, IFormat, PtrOK
<1>3. \A q \in Proc \ {p} : /\ pc'[q] = pc[q] /\ call'[q] = call[q]
                            /\ db'[q] = db[q] /\ pos'[q] = pos[q]
  BY <1>0 DEF ReadHead, Goto, NotFound
<1> QED BY <1>1, <1>2, <1>3, FormatFrame

LEMMA ReturnFormat ==
  ASSUME IFormat, NEW p \in Proc, Return(p)
  PROVE  Grows /\ PtrOK' /\ DatOK' /\ HandlesOK'
<1>0. /\ HandleOK(p) /\ db \in [Proc -> Handle] /\ db[p] \in Handle
      /\ pc \in [Proc -> PC] /\ call \in [Proc -> Calls \cup {NoCall}]
      /\ pos \in [Proc -> Pos] /\ CallAt(p)
  BY DEF IFormat, HandlesOK, IType, TypeOK, CallOK
<1>1. Grows /\ PtrOK' /\ DatOK' /\ Allocated' = Allocated /\ Link' = Link
  BY SameFiles DEF Return
<1>2. HandleOK(p)'
  BY <1>0, <1>1 DEF Return, Goto, HandleOK, HasHdr, HasBody, DelPC, DB0, Link
<1>3. \A q \in Proc \ {p} : /\ pc'[q] = pc[q] /\ call'[q] = call[q]
                            /\ db'[q] = db[q] /\ pos'[q] = pos[q]
  BY <1>0 DEF Return, Goto
<1> QED BY <1>1, <1>2, <1>3, FormatFrame

LEMMA CrashFormat ==
  ASSUME IFormat, NEW p \in Proc, Crash(p)
  PROVE  Grows /\ PtrOK' /\ DatOK' /\ HandlesOK'
<1>0. /\ HandleOK(p) /\ db \in [Proc -> Handle] /\ db[p] \in Handle
      /\ pc \in [Proc -> PC] /\ call \in [Proc -> Calls \cup {NoCall}]
      /\ pos \in [Proc -> Pos] /\ CallAt(p)
  BY DEF IFormat, HandlesOK, IType, TypeOK, CallOK
<1>1. Grows /\ PtrOK' /\ DatOK' /\ Allocated' = Allocated /\ Link' = Link
  BY SameFiles DEF Crash
<1>2. HandleOK(p)'
  BY <1>0, <1>1 DEF Crash, Goto, HandleOK, HasHdr, HasBody, DelPC, DB0, Link
<1>3. \A q \in Proc \ {p} : /\ pc'[q] = pc[q] /\ call'[q] = call[q]
                            /\ db'[q] = db[q] /\ pos'[q] = pos[q]
  BY <1>0 DEF Crash, Goto
<1> QED BY <1>1, <1>2, <1>3, FormatFrame

\* The one step that needs the caller to rewind before a scan.
LEMMA CallFormat ==
  ASSUME IFormat, Rewinds, NEW p \in Proc, NEW c \in Calls, Call(p, c)
  PROVE  Grows /\ PtrOK' /\ DatOK' /\ HandlesOK'
<1>0. /\ HandleOK(p) /\ db \in [Proc -> Handle] /\ db[p] \in Handle
      /\ pc \in [Proc -> PC] /\ call \in [Proc -> Calls \cup {NoCall}]
      /\ pos \in [Proc -> Pos] /\ CallAt(p)
  BY DEF IFormat, HandlesOK, IType, TypeOK, CallOK
<1>1. Grows /\ PtrOK' /\ DatOK' /\ Allocated' = Allocated /\ Link' = Link
  BY SameFiles DEF Call
<1>2. HandleOK(p)'
  <2>1. CASE c.op = "nextrec"
    BY <1>0, <1>1, <2>1 DEF Call, Goto, HandleOK, HasHdr, HasBody, DelPC
  <2>2. CASE c.op # "nextrec"
    <3>1. db'[p] = [DB0 EXCEPT !.ptroff = chainoff(c.key)] /\ pc'[p] = "lock"
      BY <1>0, <2>2 DEF Call, Goto
    <3> QED BY <1>1, <3>1 DEF HandleOK, HasHdr, HasBody, DelPC, DB0, Link
  <2> QED BY <2>1, <2>2
<1>3. \A q \in Proc \ {p} : /\ pc'[q] = pc[q] /\ call'[q] = call[q]
                            /\ db'[q] = db[q] /\ pos'[q] = pos[q]
  BY <1>0 DEF Call, Goto
<1> QED BY <1>1, <1>2, <1>3, FormatFrame

-----------------------------------------------------------------------------
(* The steps of _db_readidx and _db_readdat: no check of theirs fails.     *)

LEMMA ReadHdrFormat ==
  ASSUME IFormat, NEW p \in Proc, ReadHdr(p)
  PROVE  Grows /\ PtrOK' /\ DatOK' /\ HandlesOK'
<1>0. /\ HandleOK(p) /\ db \in [Proc -> Handle] /\ db[p] \in Handle
      /\ pc \in [Proc -> PC] /\ call \in [Proc -> Calls \cup {NoCall}]
      /\ pos \in [Proc -> Pos] /\ CallAt(p)
  BY DEF IFormat, HandlesOK, IType, TypeOK, CallOK
<1> DEFINE o == db[p].offset
<1>4. o \in RecOff /\ o < idxEnd
  BY <1>0 DEF ReadHdr, HandleOK, Link, Allocated
<1>5. /\ db' = [db EXCEPT ![p].idxoff = o, ![p].ptrval = ptr[o],
                         ![p].idxlen = RecLen(o)]
      /\ Goto(p, IF pc[p] = "hdr" THEN "body" ELSE "ff_body")
      /\ UNCHANGED <<files, locks, call, pos, ret, crashes>>
  BY <1>4 DEF ReadHdr
<1>1. Grows /\ PtrOK' /\ DatOK' /\ Allocated' = Allocated /\ Link' = Link /\ UNCHANGED files
  BY <1>5, SameFiles
<1>2. HandleOK(p)'
  <2>1. /\ db'[p].offset = o /\ db'[p].idxoff = o /\ db'[p].ptrval = ptr[o]
        /\ db'[p].freeptr = db[p].freeptr /\ db'[p].hptr = db[p].hptr
        /\ db'[p].idxlen = RecLen(o) /\ pc'[p] \in {"body", "ff_body"}
    BY <1>0, <1>5 DEF Handle, Goto
  <2>2. ptr[o] \in Link /\ o \in Allocated /\ o \in Link
    BY <1>4, Layout DEF IFormat, PtrOK, Allocated, Link
  <2>3. \A z \in Allocated : RecLen(z)' = RecLen(z)
    BY <1>1 DEF RecLen, files
  <2> HIDE DEF o
  <2> QED BY <1>0, <1>1, <2>1, <2>2, <2>3 DEF HandleOK, HasHdr, HasBody, DelPC
<1>3. \A q \in Proc \ {p} : /\ pc'[q] = pc[q] /\ call'[q] = call[q]
                            /\ db'[q] = db[q] /\ pos'[q] = pos[q]
  BY <1>0, <1>5 DEF Goto
<1> QED BY <1>1, <1>2, <1>3, FormatFrame

LEMMA NextHdrFormat ==
  ASSUME IFormat, NEW p \in Proc, NextHdr(p)
  PROVE  Grows /\ PtrOK' /\ DatOK' /\ HandlesOK'
<1>0. /\ HandleOK(p) /\ db \in [Proc -> Handle] /\ db[p] \in Handle
      /\ pc \in [Proc -> PC] /\ call \in [Proc -> Calls \cup {NoCall}]
      /\ pos \in [Proc -> Pos] /\ CallAt(p)
  BY DEF IFormat, HandlesOK, IType, TypeOK, CallOK
<1> DEFINE o == pos[p]
<1>4. o # 0
  BY <1>0 DEF NextHdr, HandleOK
<1>1. Grows /\ PtrOK' /\ DatOK' /\ Allocated' = Allocated /\ Link' = Link /\ UNCHANGED files
  BY <1>4, SameFiles DEF NextHdr
<1>2. HandleOK(p)'
  <2>1. CASE o >= idxEnd
    <3>1. pc'[p] = "nx_unlock" /\ db'[p] = db[p]
      BY <1>0, <1>4, <2>1 DEF NextHdr, Goto
    <3> QED BY <1>0, <1>1, <3>1 DEF HandleOK, HasHdr, HasBody, DelPC
  <2>2. CASE ~(o >= idxEnd)
    <3>1. /\ db' = [db EXCEPT ![p].idxoff = o, ![p].ptrval = ptr[o],
                             ![p].idxlen = RecLen(o)]
          /\ Goto(p, "nx_body")
      BY <1>4, <2>2 DEF NextHdr
    <3>2. /\ db'[p].offset = db[p].offset /\ db'[p].idxoff = o
          /\ db'[p].ptrval = ptr[o]
          /\ db'[p].freeptr = db[p].freeptr /\ db'[p].hptr = db[p].hptr
          /\ db'[p].idxlen = RecLen(o) /\ pc'[p] = "nx_body"
      BY <1>0, <3>1 DEF Handle, Goto
    <3>3. o \in RecOff /\ o < idxEnd
      BY <1>0, <1>4, <2>2, DbConst
      DEF Pos, RecOff, FirstRec, IFormat, IType, TypeOK
    <3>4. ptr[o] \in Link /\ o \in Allocated
      BY <3>3, Layout DEF IFormat, PtrOK, Allocated
    <3>5. \A z \in Allocated : RecLen(z)' = RecLen(z)
      BY <1>1 DEF RecLen, files
    <3> HIDE DEF o
    <3> QED BY <1>0, <1>1, <3>2, <3>4, <3>5 DEF HandleOK, HasHdr, HasBody, DelPC
  <2> QED BY <2>1, <2>2
<1>3. \A q \in Proc \ {p} : /\ pc'[q] = pc[q] /\ call'[q] = call[q]
                            /\ db'[q] = db[q] /\ pos'[q] = pos[q]
  BY <1>0, <1>4 DEF NextHdr, Goto
<1> QED BY <1>1, <1>2, <1>3, FormatFrame

\* The body that is read is the one the header announced.
LEMMA BodyReads ==
  ASSUME IFormat, NEW p \in Proc, pc[p] \in HasHdr
  PROVE  LET h == BodyOf(db[p]) IN
         /\ RecLen(h.idxoff) = h.idxlen
         /\ h.idxoff = db[p].idxoff /\ h.idxoff \in Allocated
         /\ h.idxoff \in RecOff
         /\ h.offset = db[p].offset /\ h.ptrval = db[p].ptrval
         /\ h.freeptr = db[p].freeptr /\ h.hptr = db[p].hptr
         /\ h.klen = rec[h.idxoff].klen /\ h.datoff = rec[h.idxoff].datoff
         /\ h.datlen = rec[h.idxoff].datlen
         /\ h \in Handle
<1>0. HandleOK(p) /\ db[p] \in Handle /\ IType
  BY DEF IFormat, HandlesOK, IType, TypeOK
<1>1. db[p].idxoff \in Allocated /\ db[p].idxlen = RecLen(db[p].idxoff)
  BY <1>0 DEF HandleOK
<1>2. db[p].idxoff \in RecOff
  BY <1>1 DEF Allocated
<1>3. BodyOf(db[p]) \in Handle
  BY <1>0, <1>2, BodyType
<1> QED BY <1>0, <1>1, <1>2, <1>3 DEF BodyOf, Handle

LEMMA ReadBodyFormat ==
  ASSUME IFormat, NEW p \in Proc, ReadBody(p)
  PROVE  Grows /\ PtrOK' /\ DatOK' /\ HandlesOK'
<1>0. /\ HandleOK(p) /\ db \in [Proc -> Handle] /\ db[p] \in Handle
      /\ pc \in [Proc -> PC] /\ call \in [Proc -> Calls \cup {NoCall}]
      /\ pos \in [Proc -> Pos] /\ CallAt(p)
  BY DEF IFormat, HandlesOK, IType, TypeOK, CallOK
<1> DEFINE h == BodyOf(db[p])
           g == [h EXCEPT !.ptroff = h.offset, !.offset = h.ptrval]
<1>4. /\ RecLen(h.idxoff) = h.idxlen /\ h.idxoff \in Allocated /\ h \in Handle
      /\ h.offset \in Link /\ h.ptrval \in Link
      /\ h.freeptr \in Link /\ h.hptr \in Link
      /\ h.klen = rec[h.idxoff].klen /\ h.datoff = rec[h.idxoff].datoff
      /\ h.datlen = rec[h.idxoff].datlen
  BY <1>0, BodyReads DEF ReadBody, HandleOK, HasHdr
<1>5. /\ IF h.key = call[p].key
           THEN db' = [db EXCEPT ![p] = h] /\ Found(p, h.datlen)
           ELSE /\ db' = [db EXCEPT ![p] = g]
                /\ IF h.ptrval = 0 THEN NotFound(p)
                   ELSE Goto(p, "hdr") /\ UNCHANGED ret
      /\ pos' = [pos EXCEPT ![p] = h.idxoff + 1]
      /\ UNCHANGED <<files, locks, call, crashes>>
  BY <1>4 DEF ReadBody
<1>1. Grows /\ PtrOK' /\ DatOK' /\ Allocated' = Allocated /\ Link' = Link /\ UNCHANGED files
  BY <1>5, SameFiles
<1>6. /\ g.offset = h.ptrval /\ g.ptrval = h.ptrval /\ g.freeptr = h.freeptr
      /\ g.hptr = h.hptr
  BY <1>4 DEF Handle
<1> HIDE DEF h, g
<1>2. HandleOK(p)'
  <2>1. CASE h.key = call[p].key
    <3>1. /\ db'[p] = h /\ pc'[p] \in {"dat", "del_lock", "unlock", "rw_dat"}
          /\ pc'[p] = "rw_dat" => DatLen[call[p].data] = h.datlen
          /\ call' = call
      BY <1>0, <1>5, <2>1 DEF Found, Goto
    <3> QED BY <1>1, <1>4, <3>1 DEF HandleOK, HasHdr, HasBody, DelPC, files
  <2>2. CASE h.key # call[p].key
    <3>1. /\ db'[p] = g /\ pc'[p] \in {"st_head", "unlock", "hdr"}
          /\ pc'[p] = "hdr" => h.ptrval # 0
      BY <1>0, <1>5, <2>2 DEF NotFound, Goto
    <3> QED BY <1>1, <1>4, <1>6, <3>1 DEF HandleOK, HasHdr, HasBody, DelPC
  <2> QED BY <2>1, <2>2
<1>3. \A q \in Proc \ {p} : /\ pc'[q] = pc[q] /\ call'[q] = call[q]
                            /\ db'[q] = db[q] /\ pos'[q] = pos[q]
  BY <1>0, <1>5 DEF Found, NotFound, Goto
<1> QED BY <1>1, <1>2, <1>3, FormatFrame

LEMMA FreeBodyFormat ==
  ASSUME IFormat, NEW p \in Proc, FreeBody(p)
  PROVE  Grows /\ PtrOK' /\ DatOK' /\ HandlesOK'
<1>0. /\ HandleOK(p) /\ db \in [Proc -> Handle] /\ db[p] \in Handle
      /\ pc \in [Proc -> PC] /\ call \in [Proc -> Calls \cup {NoCall}]
      /\ pos \in [Proc -> Pos] /\ CallAt(p)
  BY DEF IFormat, HandlesOK, IType, TypeOK, CallOK
<1> DEFINE h == BodyOf(db[p])
           g == [h EXCEPT !.saveoff = h.offset, !.offset = h.ptrval]
           fits == Fits(h, call[p])
<1>4. /\ RecLen(h.idxoff) = h.idxlen /\ h.idxoff \in Allocated /\ h \in Handle
      /\ h.offset \in Link /\ h.ptrval \in Link
      /\ h.freeptr \in Link /\ h.hptr \in Link
      /\ h.klen = rec[h.idxoff].klen /\ h.datoff = rec[h.idxoff].datoff
      /\ h.datlen = rec[h.idxoff].datlen
  BY <1>0, BodyReads DEF FreeBody, HandleOK, HasHdr
<1>5. /\ db' = [db EXCEPT ![p] = IF fits THEN h ELSE g]
      /\ Goto(p, IF fits THEN "ff_take"
                 ELSE IF h.ptrval = 0 THEN "ff_miss" ELSE "ff_hdr")
      /\ UNCHANGED <<files, locks, call, pos, ret, crashes>>
  BY <1>4 DEF FreeBody
<1>1. Grows /\ PtrOK' /\ DatOK' /\ Allocated' = Allocated /\ Link' = Link /\ UNCHANGED files
  BY <1>5, SameFiles
<1>6. /\ g.offset = h.ptrval /\ g.ptrval = h.ptrval /\ g.freeptr = h.freeptr
      /\ g.hptr = h.hptr
      /\ fits => h.klen = KeyLen[call[p].key] /\ h.datlen = DatLen[call[p].data]
  BY <1>4 DEF Handle, Fits
<1> HIDE DEF h, g, fits
<1>2. HandleOK(p)'
  <2>1. CASE fits
    BY <1>0, <1>1, <1>4, <1>5, <1>6, <2>1 DEF Goto, HandleOK, HasHdr, HasBody, DelPC, files
  <2>2. CASE ~fits
    BY <1>0, <1>1, <1>4, <1>5, <1>6, <2>2 DEF Goto, HandleOK, HasHdr, HasBody, DelPC, files
  <2> QED BY <2>1, <2>2
<1>3. \A q \in Proc \ {p} : /\ pc'[q] = pc[q] /\ call'[q] = call[q]
                            /\ db'[q] = db[q] /\ pos'[q] = pos[q]
  BY <1>0, <1>5 DEF Goto
<1> QED BY <1>1, <1>2, <1>3, FormatFrame

LEMMA NextBodyFormat ==
  ASSUME IFormat, NEW p \in Proc, NextBody(p)
  PROVE  Grows /\ PtrOK' /\ DatOK' /\ HandlesOK'
<1>0. /\ HandleOK(p) /\ db \in [Proc -> Handle] /\ db[p] \in Handle
      /\ pc \in [Proc -> PC] /\ call \in [Proc -> Calls \cup {NoCall}]
      /\ pos \in [Proc -> Pos] /\ CallAt(p)
  BY DEF IFormat, HandlesOK, IType, TypeOK, CallOK
<1> DEFINE h == BodyOf(db[p])
<1>4. /\ RecLen(h.idxoff) = h.idxlen /\ h.idxoff \in Allocated /\ h \in Handle
      /\ h.idxoff \in RecOff
      /\ h.offset \in Link /\ h.ptrval \in Link
      /\ h.freeptr \in Link /\ h.hptr \in Link
      /\ h.klen = rec[h.idxoff].klen /\ h.datoff = rec[h.idxoff].datoff
      /\ h.datlen = rec[h.idxoff].datlen
  BY <1>0, BodyReads DEF NextBody, HandleOK, HasHdr
<1>5. /\ db' = [db EXCEPT ![p] = h] /\ pos' = [pos EXCEPT ![p] = h.idxoff + 1]
      /\ Goto(p, IF h.key = Blank THEN "nx_hdr" ELSE "nx_dat")
      /\ UNCHANGED <<files, locks, call, ret, crashes>>
  BY <1>4 DEF NextBody
<1>1. Grows /\ PtrOK' /\ DatOK' /\ Allocated' = Allocated /\ Link' = Link /\ UNCHANGED files
  BY <1>5, SameFiles
<1>6. h.idxoff + 1 # 0
  BY <1>4, DbConst DEF RecOff, FirstRec
<1> HIDE DEF h
<1>2. HandleOK(p)'
  BY <1>0, <1>1, <1>4, <1>5, <1>6 DEF Goto, HandleOK, HasHdr, HasBody, DelPC, files
<1>3. \A q \in Proc \ {p} : /\ pc'[q] = pc[q] /\ call'[q] = call[q]
                            /\ db'[q] = db[q] /\ pos'[q] = pos[q]
  BY <1>0, <1>5 DEF Goto
<1> QED BY <1>1, <1>2, <1>3, FormatFrame

LEMMA ReadDatFormat ==
  ASSUME IFormat, NEW p \in Proc, ReadDat(p)
  PROVE  Grows /\ PtrOK' /\ DatOK' /\ HandlesOK'
<1>0. /\ HandleOK(p) /\ db \in [Proc -> Handle] /\ db[p] \in Handle
      /\ pc \in [Proc -> PC] /\ call \in [Proc -> Calls \cup {NoCall}]
      /\ pos \in [Proc -> Pos] /\ CallAt(p)
  BY DEF IFormat, HandlesOK, IType, TypeOK, CallOK
<1>4. db[p].datoff \in 1 .. Len(dat) /\ dat[db[p].datoff].len = db[p].datlen
  BY <1>0 DEF ReadDat, HandleOK, HasBody, IFormat, DatOK
<1>5. /\ pc' = [pc EXCEPT ![p] = IF pc[p] = "dat" THEN "unlock" ELSE "nx_unlock"]
      /\ UNCHANGED <<files, locks, call, db, pos, crashes>>
  BY <1>4 DEF ReadDat, Goto
<1>1. Grows /\ PtrOK' /\ DatOK' /\ Allocated' = Allocated /\ Link' = Link /\ UNCHANGED files
  BY <1>5, SameFiles
<1>2. HandleOK(p)'
  BY <1>0, <1>1, <1>5 DEF HandleOK, HasHdr, HasBody, DelPC
<1>3. \A q \in Proc \ {p} : /\ pc'[q] = pc[q] /\ call'[q] = call[q]
                            /\ db'[q] = db[q] /\ pos'[q] = pos[q]
  BY <1>0, <1>5
<1> QED BY <1>1, <1>2, <1>3, FormatFrame

-----------------------------------------------------------------------------
(* The steps that write.                                                   *)

LEMMA DelDatFormat ==
  ASSUME IFormat, NEW p \in Proc, DelDat(p)
  PROVE  Grows /\ PtrOK' /\ DatOK' /\ HandlesOK'
<1>0. /\ HandleOK(p) /\ db \in [Proc -> Handle] /\ db[p] \in Handle
      /\ pc \in [Proc -> PC] /\ call \in [Proc -> Calls \cup {NoCall}]
      /\ pos \in [Proc -> Pos] /\ CallAt(p)
  BY DEF IFormat, HandlesOK, IType, TypeOK, CallOK
<1>4. /\ db[p].idxoff \in Allocated /\ db[p].datoff \in 1 .. Len(dat)
      /\ dat[db[p].datoff].len = db[p].datlen
  BY <1>0 DEF DelDat, HandleOK, HasHdr, HasBody, DelPC, IFormat, DatOK
<1>5. [val |-> Blank, len |-> db[p].datlen] \in DatRec
  BY <1>0 DEF DatRec, Handle
<1>1. Grows /\ PtrOK' /\ DatOK' /\ Allocated' = Allocated /\ Link' = Link /\ UNCHANGED rec
  BY <1>4, <1>5, DatWrite DEF DelDat
<1>2. HandleOK(p)'
  BY <1>0, <1>1
  DEF DelDat, Goto, HandleOK, HasHdr, HasBody, DelPC
<1>3. \A q \in Proc \ {p} : /\ pc'[q] = pc[q] /\ call'[q] = call[q]
                            /\ db'[q] = db[q] /\ pos'[q] = pos[q]
  BY <1>0 DEF DelDat, Goto
<1> QED BY <1>1, <1>2, <1>3, FormatFrame

LEMMA ReuseDatFormat ==
  ASSUME IFormat, NEW p \in Proc, ReuseDat(p)
  PROVE  Grows /\ PtrOK' /\ DatOK' /\ HandlesOK'
<1>0. /\ HandleOK(p) /\ db \in [Proc -> Handle] /\ db[p] \in Handle
      /\ pc \in [Proc -> PC] /\ call \in [Proc -> Calls \cup {NoCall}]
      /\ pos \in [Proc -> Pos] /\ CallAt(p)
  BY DEF IFormat, HandlesOK, IType, TypeOK, CallOK
<1>4. /\ db[p].idxoff \in Allocated /\ db[p].datoff \in 1 .. Len(dat)
      /\ dat[db[p].datoff].len = db[p].datlen
  BY <1>0 DEF ReuseDat, HandleOK, HasHdr, HasBody, DelPC, IFormat, DatOK
<1>5. NewData(p) \in DatRec /\ NewData(p).len = db[p].datlen
  BY <1>0, DbConst
  DEF ReuseDat, HandleOK, HasHdr, HasBody, DelPC, CallAt, StorePC, FreePC, Store, NewData, DatRec
<1>1. Grows /\ PtrOK' /\ DatOK' /\ Allocated' = Allocated /\ Link' = Link /\ UNCHANGED rec
  BY <1>4, <1>5, DatWrite DEF ReuseDat
<1>2. HandleOK(p)'
  BY <1>0, <1>1
  DEF ReuseDat, Goto, HandleOK, HasHdr, HasBody, DelPC, Handle
<1>3. \A q \in Proc \ {p} : /\ pc'[q] = pc[q] /\ call'[q] = call[q]
                            /\ db'[q] = db[q] /\ pos'[q] = pos[q]
  BY <1>0 DEF ReuseDat, Goto
<1> QED BY <1>1, <1>2, <1>3, FormatFrame

LEMMA RewriteDatFormat ==
  ASSUME IFormat, NEW p \in Proc, RewriteDat(p)
  PROVE  Grows /\ PtrOK' /\ DatOK' /\ HandlesOK'
<1>0. /\ HandleOK(p) /\ db \in [Proc -> Handle] /\ db[p] \in Handle
      /\ pc \in [Proc -> PC] /\ call \in [Proc -> Calls \cup {NoCall}]
      /\ pos \in [Proc -> Pos] /\ CallAt(p)
  BY DEF IFormat, HandlesOK, IType, TypeOK, CallOK
<1>4. /\ db[p].idxoff \in Allocated /\ db[p].datoff \in 1 .. Len(dat)
      /\ dat[db[p].datoff].len = db[p].datlen
  BY <1>0 DEF RewriteDat, HandleOK, HasHdr, HasBody, DelPC, IFormat, DatOK
<1>5. NewData(p) \in DatRec /\ NewData(p).len = db[p].datlen
  BY <1>0, DbConst
  DEF RewriteDat, HandleOK, HasHdr, HasBody, DelPC, CallAt, StorePC, FreePC, Store, NewData, DatRec
<1>1. Grows /\ PtrOK' /\ DatOK' /\ Allocated' = Allocated /\ Link' = Link /\ UNCHANGED rec
  BY <1>4, <1>5, DatWrite DEF RewriteDat
<1>2. HandleOK(p)'
  BY <1>0, <1>1
  DEF RewriteDat, Goto, HandleOK, HasHdr, HasBody, DelPC
<1>3. \A q \in Proc \ {p} : /\ pc'[q] = pc[q] /\ call'[q] = call[q]
                            /\ db'[q] = db[q] /\ pos'[q] = pos[q]
  BY <1>0 DEF RewriteDat, Goto
<1> QED BY <1>1, <1>2, <1>3, FormatFrame

LEMMA DelIdxFormat ==
  ASSUME IFormat, NEW p \in Proc, DelIdx(p)
  PROVE  Grows /\ PtrOK' /\ DatOK' /\ HandlesOK'
<1>0. /\ HandleOK(p) /\ db \in [Proc -> Handle] /\ db[p] \in Handle
      /\ pc \in [Proc -> PC] /\ call \in [Proc -> Calls \cup {NoCall}]
      /\ pos \in [Proc -> Pos] /\ CallAt(p)
  BY DEF IFormat, HandlesOK, IType, TypeOK, CallOK
<1>4. db[p].idxoff \in Allocated /\ db[p].freeptr \in Link
  BY <1>0 DEF DelIdx, HandleOK, HasHdr, HasBody, DelPC
<1> DEFINE r == [key |-> Blank, klen |-> db[p].klen,
                 datoff |-> db[p].datoff, datlen |-> db[p].datlen]
           s == db[p].idxoff
<1>5. /\ r \in Slot /\ r.klen = rec[s].klen
      /\ r.datoff = rec[s].datoff /\ r.datlen = rec[s].datlen
  BY <1>0 DEF DelIdx, HandleOK, HasHdr, HasBody, DelPC, Slot, Handle
<1>6. /\ rec' = [rec EXCEPT ![s] = r] /\ ptr' = [ptr EXCEPT ![s] = db[p].freeptr]
      /\ UNCHANGED <<idxEnd, dat>>
  BY DEF DelIdx
<1>1. Grows /\ PtrOK' /\ DatOK' /\ Allocated' = Allocated /\ Link' = Link
  <2> HIDE DEF r, s
  <2> QED BY <1>4, <1>5, <1>6, RecWrite DEF s
<1>2. HandleOK(p)'
  BY <1>0, <1>1
  DEF DelIdx, Goto, HandleOK, HasHdr, HasBody, DelPC, Grows
<1>3. \A q \in Proc \ {p} : /\ pc'[q] = pc[q] /\ call'[q] = call[q]
                            /\ db'[q] = db[q] /\ pos'[q] = pos[q]
  BY <1>0 DEF DelIdx, Goto
<1> QED BY <1>1, <1>2, <1>3, FormatFrame

LEMMA ReuseIdxFormat ==
  ASSUME IFormat, NEW p \in Proc, ReuseIdx(p)
  PROVE  Grows /\ PtrOK' /\ DatOK' /\ HandlesOK'
<1>0. /\ HandleOK(p) /\ db \in [Proc -> Handle] /\ db[p] \in Handle
      /\ pc \in [Proc -> PC] /\ call \in [Proc -> Calls \cup {NoCall}]
      /\ pos \in [Proc -> Pos] /\ CallAt(p)
  BY DEF IFormat, HandlesOK, IType, TypeOK, CallOK
<1>4. db[p].idxoff \in Allocated /\ ChainTail(p) \in Link
  BY <1>0 DEF ReuseIdx, ChainTail, HandleOK, HasHdr, HasBody, DelPC
<1> DEFINE s == db[p].idxoff
<1>5. /\ NewSlot(p) \in Slot /\ NewSlot(p).klen = rec[s].klen
      /\ NewSlot(p).datoff = rec[s].datoff /\ NewSlot(p).datlen = rec[s].datlen
  BY <1>0, DbConst
  DEF ReuseIdx, HandleOK, HasHdr, HasBody, DelPC, Slot, Handle, NewSlot, CallAt, StorePC, FreePC, Store
<1>6. /\ rec' = [rec EXCEPT ![s] = NewSlot(p)]
      /\ ptr' = [ptr EXCEPT ![s] = ChainTail(p)] /\ UNCHANGED <<idxEnd, dat>>
  BY DEF ReuseIdx
<1>1. Grows /\ PtrOK' /\ DatOK' /\ Allocated' = Allocated /\ Link' = Link
  <2> HIDE DEF s
  <2> QED BY <1>4, <1>5, <1>6, RecWrite DEF s
<1>2. HandleOK(p)'
  BY <1>0, <1>1
  DEF ReuseIdx, Goto, HandleOK, HasHdr, HasBody, DelPC
<1>3. \A q \in Proc \ {p} : /\ pc'[q] = pc[q] /\ call'[q] = call[q]
                            /\ db'[q] = db[q] /\ pos'[q] = pos[q]
  BY <1>0 DEF ReuseIdx, Goto
<1> QED BY <1>1, <1>2, <1>3, FormatFrame

LEMMA DelHeadFormat ==
  ASSUME IFormat, NEW p \in Proc, DelHead(p)
  PROVE  Grows /\ PtrOK' /\ DatOK' /\ HandlesOK'
<1>0. /\ HandleOK(p) /\ db \in [Proc -> Handle] /\ db[p] \in Handle
      /\ pc \in [Proc -> PC] /\ call \in [Proc -> Calls \cup {NoCall}]
      /\ pos \in [Proc -> Pos] /\ CallAt(p)
  BY DEF IFormat, HandlesOK, IType, TypeOK, CallOK
<1>4. db[p].idxoff \in Link
  BY <1>0 DEF DelHead, HandleOK, HasHdr, HasBody, DelPC, Link
<1>1. Grows /\ PtrOK' /\ DatOK' /\ Allocated' = Allocated /\ Link' = Link /\ UNCHANGED <<rec, dat>>
  BY <1>4, PtrWrite DEF DelHead
<1>2. HandleOK(p)'
  BY <1>0, <1>1
  DEF DelHead, Goto, HandleOK, HasHdr, HasBody, DelPC
<1>3. \A q \in Proc \ {p} : /\ pc'[q] = pc[q] /\ call'[q] = call[q]
                            /\ db'[q] = db[q] /\ pos'[q] = pos[q]
  BY <1>0 DEF DelHead, Goto
<1> QED BY <1>1, <1>2, <1>3, FormatFrame

LEMMA DelLinkFormat ==
  ASSUME IFormat, NEW p \in Proc, DelLink(p)
  PROVE  Grows /\ PtrOK' /\ DatOK' /\ HandlesOK'
<1>0. /\ HandleOK(p) /\ db \in [Proc -> Handle] /\ db[p] \in Handle
      /\ pc \in [Proc -> PC] /\ call \in [Proc -> Calls \cup {NoCall}]
      /\ pos \in [Proc -> Pos] /\ CallAt(p)
  BY DEF IFormat, HandlesOK, IType, TypeOK, CallOK
<1>4. db[p].ptrval \in Link
  BY <1>0 DEF DelLink, HandleOK, HasHdr, HasBody, DelPC, Link
<1>1. Grows /\ PtrOK' /\ DatOK' /\ Allocated' = Allocated /\ Link' = Link /\ UNCHANGED <<rec, dat>>
  BY <1>4, PtrWrite DEF DelLink
<1>2. HandleOK(p)'
  BY <1>0, <1>1
  DEF DelLink, Goto, HandleOK, HasHdr, HasBody, DelPC
<1>3. \A q \in Proc \ {p} : /\ pc'[q] = pc[q] /\ call'[q] = call[q]
                            /\ db'[q] = db[q] /\ pos'[q] = pos[q]
  BY <1>0 DEF DelLink, Goto
<1> QED BY <1>1, <1>2, <1>3, FormatFrame

LEMMA FreeTakeFormat ==
  ASSUME IFormat, NEW p \in Proc, FreeTake(p)
  PROVE  Grows /\ PtrOK' /\ DatOK' /\ HandlesOK'
<1>0. /\ HandleOK(p) /\ db \in [Proc -> Handle] /\ db[p] \in Handle
      /\ pc \in [Proc -> PC] /\ call \in [Proc -> Calls \cup {NoCall}]
      /\ pos \in [Proc -> Pos] /\ CallAt(p)
  BY DEF IFormat, HandlesOK, IType, TypeOK, CallOK
<1>4. db[p].ptrval \in Link
  BY <1>0 DEF FreeTake, HandleOK, HasHdr, HasBody, DelPC, Link
<1>1. Grows /\ PtrOK' /\ DatOK' /\ Allocated' = Allocated /\ Link' = Link /\ UNCHANGED <<rec, dat>>
  BY <1>4, PtrWrite DEF FreeTake
<1>2. HandleOK(p)'
  BY <1>0, <1>1
  DEF FreeTake, Goto, HandleOK, HasHdr, HasBody, DelPC
<1>3. \A q \in Proc \ {p} : /\ pc'[q] = pc[q] /\ call'[q] = call[q]
                            /\ db'[q] = db[q] /\ pos'[q] = pos[q]
  BY <1>0 DEF FreeTake, Goto
<1> QED BY <1>1, <1>2, <1>3, FormatFrame

LEMMA StoreLinkFormat ==
  ASSUME IFormat, NEW p \in Proc, StoreLink(p)
  PROVE  Grows /\ PtrOK' /\ DatOK' /\ HandlesOK'
<1>0. /\ HandleOK(p) /\ db \in [Proc -> Handle] /\ db[p] \in Handle
      /\ pc \in [Proc -> PC] /\ call \in [Proc -> Calls \cup {NoCall}]
      /\ pos \in [Proc -> Pos] /\ CallAt(p)
  BY DEF IFormat, HandlesOK, IType, TypeOK, CallOK
<1>4. CASE PtrOverflow(db[p].idxoff)
  <2>0. Gone(p, "quit")
    BY <1>4 DEF StoreLink
  <2>1. Grows /\ PtrOK' /\ DatOK' /\ Allocated' = Allocated /\ Link' = Link
    BY <2>0, SameFiles DEF Gone
  <2>2. HandleOK(p)'
    BY <1>0, <2>0, <2>1 DEF Gone, Goto, HandleOK, HasHdr, HasBody, DelPC, DB0, Link
  <2>3. \A q \in Proc \ {p} : /\ pc'[q] = pc[q] /\ call'[q] = call[q]
                            /\ db'[q] = db[q] /\ pos'[q] = pos[q]
    BY <1>0, <2>0 DEF Gone, Goto
  <2> QED BY <2>1, <2>2, <2>3, FormatFrame
<1>5. CASE ~PtrOverflow(db[p].idxoff)
  <2>0. db[p].idxoff \in Link
    BY <1>0 DEF StoreLink, HandleOK, HasHdr, HasBody, DelPC, Link
  <2>1. Grows /\ PtrOK' /\ DatOK' /\ Allocated' = Allocated /\ Link' = Link
    BY <1>5, <2>0, PtrWrite DEF StoreLink
  <2>2. HandleOK(p)'
    BY <1>0, <1>5, <2>1 DEF StoreLink, Goto, HandleOK, HasHdr, HasBody, DelPC
  <2>3. \A q \in Proc \ {p} : /\ pc'[q] = pc[q] /\ call'[q] = call[q]
                            /\ db'[q] = db[q] /\ pos'[q] = pos[q]
    BY <1>0, <1>5 DEF StoreLink, Goto
  <2> QED BY <2>1, <2>2, <2>3, FormatFrame
<1> QED BY <1>4, <1>5

LEMMA AppDatFormat ==
  ASSUME IFormat, NEW p \in Proc, AppDat(p)
  PROVE  Grows /\ PtrOK' /\ DatOK' /\ HandlesOK'
<1>0. /\ HandleOK(p) /\ db \in [Proc -> Handle] /\ db[p] \in Handle
      /\ pc \in [Proc -> PC] /\ call \in [Proc -> Calls \cup {NoCall}]
      /\ pos \in [Proc -> Pos] /\ CallAt(p)
  BY DEF IFormat, HandlesOK, IType, TypeOK, CallOK
<1>4. /\ NewData(p) \in DatRec /\ NewData(p).len = DatLen[call[p].data]
      /\ dat \in Seq(DatRec) /\ Len(dat) \in Nat
  BY <1>0, DbConst
  DEF AppDat, CallAt, StorePC, FreePC, Store, NewData, DatRec, IFormat, IType, TypeOK
<1>5. /\ dat' = Append(dat, NewData(p)) /\ UNCHANGED <<ptr, rec, idxEnd>>
      /\ db' = [db EXCEPT ![p].datoff = Len(dat) + 1,
                         ![p].datlen = DatLen[call[p].data]]
      /\ Goto(p, "ap_dunlock") /\ UNCHANGED <<call, pos>>
  BY DEF AppDat
<1>6. /\ Len(dat') = Len(dat) + 1 /\ dat'[Len(dat) + 1] = NewData(p)
      /\ \A i \in 1 .. Len(dat) : dat'[i] = dat[i] /\ i \in 1 .. Len(dat')
  BY <1>4, <1>5
<1>1. Grows /\ PtrOK' /\ DatOK' /\ Link' = Link
  <2>1. Allocated' = Allocated
    BY <1>5 DEF Allocated
  <2> QED BY <1>4, <1>5, <1>6, <2>1 DEF Grows, IFormat, PtrOK, DatOK, Link
<1>2. HandleOK(p)'
  <2>1. /\ db'[p].offset = db[p].offset /\ db'[p].ptrval = db[p].ptrval
        /\ db'[p].freeptr = db[p].freeptr /\ db'[p].hptr = db[p].hptr
        /\ db'[p].datoff = Len(dat) + 1
        /\ db'[p].datlen = DatLen[call[p].data] /\ pc'[p] = "ap_dunlock"
    BY <1>0, <1>5 DEF Handle, Goto
  <2>2. Len(dat) + 1 \in 1 .. Len(dat')
    BY <1>4, <1>6
  <2> QED BY <1>0, <1>1, <1>4, <1>6, <2>1, <2>2 DEF HandleOK, HasHdr, HasBody, DelPC
<1>3. \A q \in Proc \ {p} : /\ pc'[q] = pc[q] /\ call'[q] = call[q]
                            /\ db'[q] = db[q] /\ pos'[q] = pos[q]
  BY <1>0, <1>5 DEF Goto
<1> QED BY <1>1, <1>2, <1>3, FormatFrame

LEMMA AppIdxFormat ==
  ASSUME IFormat, NEW p \in Proc, AppIdx(p)
  PROVE  Grows /\ PtrOK' /\ DatOK' /\ HandlesOK'
<1>0. /\ HandleOK(p) /\ db \in [Proc -> Handle] /\ db[p] \in Handle
      /\ pc \in [Proc -> PC] /\ call \in [Proc -> Calls \cup {NoCall}]
      /\ pos \in [Proc -> Pos] /\ CallAt(p)
  BY DEF IFormat, HandlesOK, IType, TypeOK, CallOK
<1>4. /\ idxEnd \in RecOff /\ idxEnd \notin Allocated /\ Len(dat) \in Nat
      /\ rec \in [RecOff -> Slot] /\ ptr \in [Off -> Off] /\ idxEnd \in Nat
  BY DbConst
  DEF AppIdx, IFormat, IType, TypeOK, RecOff, FirstRec, Allocated
<1>5. /\ rec' = [rec EXCEPT ![idxEnd] = NewSlot(p)]
      /\ ptr' = [ptr EXCEPT ![idxEnd] = ChainTail(p)]
      /\ db' = [db EXCEPT ![p].idxoff = idxEnd]
      /\ idxEnd' = idxEnd + 1 /\ Goto(p, "ap_iunlock")
      /\ UNCHANGED <<dat, call, pos>>
  BY DEF AppIdx, AppOff
<1>6. Allocated' = Allocated \cup {idxEnd} /\ Allocated \subseteq RecOff
  BY <1>4, <1>5, DbConst DEF Allocated, RecOff, FirstRec
<1>7. /\ \A s \in Allocated : rec'[s] = rec[s]
      /\ rec'[idxEnd] = NewSlot(p)
  BY <1>4, <1>5, <1>6
<1>8. /\ NewSlot(p).datoff = db[p].datoff /\ NewSlot(p).datlen = db[p].datlen
      /\ db[p].datoff \in 1 .. Len(dat) /\ dat[db[p].datoff].len = db[p].datlen
      /\ ChainTail(p) \in Link
  BY <1>0 DEF AppIdx, NewSlot, ChainTail, HandleOK, HasHdr, HasBody, DelPC
<1>1. Grows /\ PtrOK' /\ DatOK'
  <2>1. Grows
    BY <1>4, <1>5, <1>6, <1>7 DEF Grows
  <2>2. PtrOK'
    BY <1>4, <1>5, <1>6, <1>8 DEF IFormat, PtrOK, Link
  <2>3. DatOK'
    BY <1>5, <1>6, <1>7, <1>8 DEF IFormat, DatOK
  <2> QED BY <2>1, <2>2, <2>3
<1>2. HandleOK(p)'
  <2>1. /\ db'[p].offset = db[p].offset /\ db'[p].ptrval = db[p].ptrval
        /\ db'[p].freeptr = db[p].freeptr /\ db'[p].hptr = db[p].hptr
        /\ db'[p].idxoff = idxEnd /\ pc'[p] = "ap_iunlock"
    BY <1>0, <1>4, <1>5 DEF Handle, Goto
  <2>2. \A o \in Link : o \in Link'
    BY <1>6 DEF Link
  <2> QED BY <1>0, <1>6, <2>1, <2>2 DEF HandleOK, HasHdr, HasBody, DelPC
<1>3. \A q \in Proc \ {p} : /\ pc'[q] = pc[q] /\ call'[q] = call[q]
                            /\ db'[q] = db[q] /\ pos'[q] = pos[q]
  BY <1>0, <1>5 DEF Goto
<1> QED BY <1>1, <1>2, <1>3, FormatFrame

-----------------------------------------------------------------------------

LEMMA FormatNext == Rewinds /\ IFormat /\ [Next]_vars => IFormat' /\ Grows
<1> SUFFICES ASSUME Rewinds, IFormat, [Next]_vars PROVE IFormat' /\ Grows
  OBVIOUS
<1>0. IType'
  BY TypeNext DEF IFormat
<1>1. CASE UNCHANGED vars
  <2>1. PtrOK' /\ DatOK' /\ Grows
    BY <1>1, SameFiles DEF vars, files
  <2>2. \A q \in Proc : HandleOK(q)'
    BY <1>1, <2>1, HandleFrame DEF vars
  <2> QED BY <1>0, <2>1, <2>2 DEF IFormat, HandlesOK
<1>2. ASSUME NEW p \in Proc, Step(p)
     PROVE  Grows /\ PtrOK' /\ DatOK' /\ HandlesOK'
  BY <1>2, LockChainFormat, ReadHeadFormat, ReadHdrFormat, ReadBodyFormat,
     ReadDatFormat, ReturnFormat, DelLockFormat, DelDatFormat, DelFreeFormat,
     DelIdxFormat, DelHeadFormat, DelLinkFormat, DelUnlockFormat,
     StoreHeadFormat, FreeLockFormat, FreeHeadFormat, FreeBodyFormat,
     FreeTakeFormat, FreeUnlockFormat, AppDatLockFormat, AppDatFormat,
     AppDatUnlockFormat, AppIdxLockFormat, AppIdxFormat, AppIdxUnlockFormat,
     ReuseDatFormat, ReuseIdxFormat, RewriteDatFormat, StoreLinkFormat,
     NextLockFormat, NextHdrFormat, NextBodyFormat
  DEF Step
<1>3. CASE Next
  BY <1>0, <1>2, <1>3, CallFormat, db_rewindFormat, CrashFormat
  DEF Next, IFormat
<1> QED BY <1>1, <1>3

\* If callers rewind before a scan whose offset was lost, no check of
\* _db_readidx or _db_readdat ever fails: not for any number of processes,
\* chains and records, and not after kills between any two system calls.
THEOREM NeverDumps == Rewinds => (Spec => []NoDump)
<1> SUFFICES ASSUME Rewinds PROVE Spec => []NoDump
  OBVIOUS
<1>1. Init => IFormat BY FormatInit
<1>2. IFormat /\ [Next]_vars => IFormat' BY FormatNext
<1>3. IFormat => NoDump
  BY DEF IFormat, HandlesOK, HandleOK, NoDump
<1> QED BY <1>1, <1>2, <1>3, PTL DEF Spec

\* Under the same condition a record never changes its lengths or the place
\* of its data once it is written, through deletion, reuse and kills.
THEOREM LengthsStable == Rewinds => (Spec => LenStable)
<1> SUFFICES ASSUME Rewinds PROVE Spec => LenStable
  OBVIOUS
<1>1. Init => IFormat BY FormatInit
<1>2. IFormat /\ [Next]_vars => IFormat' BY FormatNext
<1>3. IFormat /\ [Next]_vars => [\A s \in Allocated : RecLen(s)' = RecLen(s)]_vars
  BY FormatNext DEF Grows, RecLen
<1> QED BY <1>1, <1>2, <1>3, PTL DEF Spec, LenStable

-----------------------------------------------------------------------------

-----------------------------------------------------------------------------
(* A list without its order of insertion: the members M have distinct      *)
(* ranks, the head has the highest, and the successor of a member is the   *)
(* member of the next lower rank (0 for the lowest).                       *)

IsList(h, nxt, M, rk) ==
  /\ \A u, v \in M : rk[u] = rk[v] => u = v
  /\ h = 0 => M = {}
  /\ h # 0 => h \in M /\ \A u \in M : rk[u] <= rk[h]
  /\ \A s \in M :
       /\ nxt[s] = 0 => \A u \in M : rk[s] <= rk[u]
       /\ nxt[s] # 0 => /\ nxt[s] \in M /\ rk[nxt[s]] < rk[s]
                        /\ \A u \in M : rk[u] < rk[s] => rk[u] <= rk[nxt[s]]

LEMMA LeastNat ==
  ASSUME NEW T \in SUBSET Nat, T # {}
  PROVE  \E m \in T : \A x \in T : m <= x
<1> DEFINE R == OpToRel(<, Nat)
<1>1. IsWellFoundedOn(R, Nat)
  BY NatLessThanWellFounded
<1>2. PICK m \in T : \A y \in T : <<y, m>> \notin R
  BY <1>1, WFMin
<1>3. \A y \in T : ~(y < m)
  BY <1>2 DEF OpToRel
<1> QED BY <1>3

LEMMA ListFrame ==
  ASSUME NEW h, NEW n, NEW M, NEW r, IsList(h, n, M, r), NEW n2, NEW r2,
         \A s \in M : n2[s] = n[s] /\ r2[s] = r[s]
  PROVE  IsList(h, n2, M, r2)
  BY DEF IsList

LEMMA ListPush ==
  ASSUME NEW M, NEW B \in Nat, NEW r, NEW h, NEW n, IsList(h, n, M, r),
         NEW x, x \notin M, x # 0, 0 \notin M, \A s \in M : r[s] \in 0 .. B,
         NEW n2, n2[x] = h, \A s \in M : n2[s] = n[s],
         NEW r2, r2[x] = B + 1, \A s \in M : r2[s] = r[s]
  PROVE  IsList(x, n2, M \cup {x}, r2)
  BY DEF IsList

\* The ranks after a push.
LEMMA RankPush ==
  ASSUME NEW S, NEW B \in Nat, NEW r \in [S -> 0 .. B], NEW x \in S,
         NEW r2, r2 = [r EXCEPT ![x] = B + 1]
  PROVE  /\ r2[x] = B + 1 /\ \A s \in S : s # x => r2[s] = r[s]
         /\ r2 \in [S -> 0 .. B + 1]
  OBVIOUS

LEMMA ListPop ==
  ASSUME NEW M, NEW r, \A s \in M : r[s] \in Nat, 0 \notin M,
         NEW h, NEW n, IsList(h, n, M, r), h # 0
  PROVE  IsList(n[h], n, M \ {h}, r)
  BY DEF IsList

LEMMA ListSkip ==
  ASSUME NEW M, NEW r, \A s \in M : r[s] \in Nat, 0 \notin M,
         NEW h, NEW n, IsList(h, n, M, r), NEW y \in M, NEW x, n[y] = x, x # 0,
         NEW n2, n2[y] = n[x], \A s \in M \ {x, y} : n2[s] = n[s]
  PROVE  IsList(h, n2, M \ {x}, r)
<1>1. x \in M /\ r[x] < r[y] /\ x # y
  BY DEF IsList
<1>2. \A s \in M : n[s] = x => s = y
  BY <1>1 DEF IsList
<1>3. h # x /\ h # 0
  BY <1>1 DEF IsList
<1>4. h \in M \ {x} /\ \A u \in M \ {x} : r[u] <= r[h]
  BY <1>3 DEF IsList
<1>5. ASSUME NEW s \in M \ {x}
      PROVE  /\ n2[s] = 0 => \A u \in M \ {x} : r[s] <= r[u]
             /\ n2[s] # 0 => /\ n2[s] \in M \ {x} /\ r[n2[s]] < r[s]
                        /\ \A u \in M \ {x} : r[u] < r[s] => r[u] <= r[n2[s]]
  <2>1. CASE s = y BY <2>1, <1>1 DEF IsList
  <2>2. CASE s # y BY <2>2, <1>1, <1>2 DEF IsList
  <2> QED BY <2>1, <2>2
<1> QED BY <1>3, <1>4, <1>5 DEF IsList


Follow(h, n, w, N) ==
  w = [i \in 0 .. N |-> IF i = 0 THEN h
                        ELSE IF w[i - 1] = 0 THEN 0 ELSE n[w[i - 1]]]

LEMMA FollowExists ==
  ASSUME NEW N \in Nat, NEW S, 0 \in S, NEW h \in S, NEW n \in [S -> S]
  PROVE  \E w \in [0 .. N -> S] : Follow(h, n, w, N)
<1> DEFINE Upto(k) == \E w \in [0 .. k -> S] : Follow(h, n, w, k)
           Bad == {k \in Nat : ~Upto(k)}
<1>1. SUFFICES ASSUME Bad # {} PROVE FALSE
  OBVIOUS
<1>b. Bad \in SUBSET Nat /\ \A k \in Nat : k \in Bad <=> ~Upto(k)
  OBVIOUS
<1> HIDE DEF Bad
<1>2. PICK k \in Bad : \A x \in Bad : k <= x
  BY <1>1, <1>b, LeastNat
<1>3. Upto(0)
  <2>1. [i \in 0 .. 0 |-> h] \in [0 .. 0 -> S] /\ Follow(h, n, [i \in 0 .. 0 |-> h], 0)
    BY DEF Follow
  <2> QED BY <2>1
<1> HIDE DEF Upto
<1>4. k - 1 \in Nat /\ k \in Nat /\ k # 0 /\ k - 1 < k
  BY <1>3, <1>b, <1>2
<1>5. Upto(k - 1)
  BY <1>2, <1>4, <1>b
<1> USE DEF Upto
<1>6. PICK w \in [0 .. k - 1 -> S] : Follow(h, n, w, k - 1)
  BY <1>5
<1> DEFINE e == IF w[k - 1] = 0 THEN 0 ELSE n[w[k - 1]]
           v == [i \in 0 .. k |-> IF i = k THEN e ELSE w[i]]
<1>7. v \in [0 .. k -> S]
  BY <1>4
<1>8. ASSUME NEW i \in 0 .. k
      PROVE  v[i] = IF i = 0 THEN h
                        ELSE IF v[i - 1] = 0 THEN 0 ELSE n[v[i - 1]]
  <2>1. CASE i = k BY <2>1, <1>4
  <2>2. CASE i # k
    <3>1. i \in 0 .. k - 1 /\ v[i] = w[i] /\ (i # 0 => v[i - 1] = w[i - 1])
      BY <2>2, <1>4
    <3>2. w[i] = IF i = 0 THEN h ELSE IF w[i - 1] = 0 THEN 0 ELSE n[w[i - 1]]
      BY <3>1, <1>6 DEF Follow
    <3> QED BY <3>1, <3>2
  <2> QED BY <2>1, <2>2
<1>9. Follow(h, n, v, k)
  <2> HIDE DEF v
  <2> QED BY <1>7, <1>8 DEF Follow
<1>10. Upto(k)
  BY <1>7, <1>9
<1> QED BY <1>2, <1>10, <1>b

LEMMA FollowType ==
  ASSUME NEW N \in Nat, NEW S, 0 \in S, NEW h \in S, NEW n \in [S -> S],
         NEW w, Follow(h, n, w, N)
  PROVE  w \in [0 .. N -> S]
<1> DEFINE Bad == {k \in 0 .. N : w[k] \notin S}
<1>1. SUFFICES ASSUME Bad # {} PROVE FALSE
  BY DEF Follow
<1>b. Bad \in SUBSET Nat
  OBVIOUS
<1>2. PICK k \in Bad : \A x \in Bad : k <= x
  <2> HIDE DEF Bad
  <2> QED BY <1>1, <1>b, LeastNat
<1>3. k \in 0 .. N /\ w[k] = IF k = 0 THEN h
                        ELSE IF w[k - 1] = 0 THEN 0 ELSE n[w[k - 1]]
  BY <1>2 DEF Follow
<1>4. CASE k = 0 BY <1>3, <1>4
<1>5. CASE k # 0
  <2>1. k - 1 \in 0 .. N /\ w[k - 1] \in S
    BY <1>2, <1>5
  <2> QED BY <2>1, <1>3, <1>5
<1> QED BY <1>4, <1>5

\* A walk w of at most N steps along the list of M, whose ranks are at most B.
WalksList(w, N, h, n, M, r, B) ==
  /\ N \in Nat /\ M \in SUBSET (1 .. N) /\ B \in Nat /\ \A s \in M : r[s] \in 0 .. B
  /\ IsList(h, n, M, r) /\ Follow(h, n, w, N)

\* Following a list reaches its end, and exactly its members.
LEMMA FollowList ==
  ASSUME NEW w, NEW N, NEW h, NEW n, NEW M, NEW r, NEW B,
         WalksList(w, N, h, n, M, r, B)
  PROVE  w[N] = 0 /\ {w[i] : i \in 0 .. N} \ {0} = M
<1> USE DEF WalksList
<1>r. \A s \in M : r[s] \in Int
  OBVIOUS
<1>0. /\ DOMAIN w = 0 .. N /\ w[0] = h
      /\ \A i \in 1 .. N : w[i] = IF w[i - 1] = 0 THEN 0 ELSE n[w[i - 1]]
  BY DEF Follow
<1>1. \A i \in 0 .. N : w[i] \in M \cup {0}
  <2> DEFINE Bad == {i \in 0 .. N : w[i] \notin M \cup {0}}
  <2>1. SUFFICES ASSUME Bad # {} PROVE FALSE
    OBVIOUS
  <2>b. Bad \in SUBSET Nat
    OBVIOUS
  <2>2. PICK k \in Bad : \A x \in Bad : k <= x
    <3> HIDE DEF Bad
    <3> QED BY <2>1, <2>b, LeastNat
  <2>3. k # 0
    BY <1>0 DEF IsList
  <2>4. k - 1 \in 0 .. N /\ k - 1 \notin Bad /\ k \in 1 .. N
    BY <2>2, <2>3
  <2>5. w[k - 1] = 0 \/ w[k - 1] \in M
    BY <2>4
  <2>6. w[k] = IF w[k - 1] = 0 THEN 0 ELSE n[w[k - 1]]
    BY <2>4, <1>0
  <2>7. w[k] # 0 /\ w[k] \notin M
    OBVIOUS
  <2> QED BY <2>5, <2>6, <2>7 DEF IsList
<1>2. \A i, j \in 0 .. N : i < j /\ w[j] # 0 => w[i] # 0 /\ r[w[j]] < r[w[i]]
  <2> DEFINE Bad == {j \in 0 .. N : \E i \in 0 .. N : i < j /\ w[j] # 0 /\ ~(w[i] # 0 /\ r[w[j]] < r[w[i]])}
  <2>1. SUFFICES ASSUME Bad # {} PROVE FALSE
    OBVIOUS
  <2>b. Bad \in SUBSET Nat
    OBVIOUS
  <2>2. PICK j \in Bad : \A x \in Bad : j <= x
    <3> HIDE DEF Bad
    <3> QED BY <2>1, <2>b, LeastNat
  <2>3. PICK i \in 0 .. N : i < j /\ w[j] # 0 /\ ~(w[i] # 0 /\ r[w[j]] < r[w[i]])
    OBVIOUS
  <2>4. j - 1 \in 0 .. N /\ j - 1 \notin Bad /\ j \in 1 .. N
    BY <2>2, <2>3
  <2>5. w[j - 1] # 0 /\ w[j - 1] \in M /\ r[w[j]] < r[w[j - 1]]
    BY <1>0, <1>1, <2>3, <2>4 DEF IsList
  <2>6. i # j - 1
    BY <2>3, <2>5
  <2>7. i < j - 1
    BY <2>3, <2>4, <2>6
  <2>8. w[i] # 0 /\ r[w[j - 1]] < r[w[i]]
    BY <2>4, <2>5, <2>7
  <2>9. w[i] \in M /\ w[j] \in M
    BY <2>8, <2>3, <1>1
  <2>10. r[w[i]] \in Int /\ r[w[j]] \in Int /\ r[w[j - 1]] \in Int
    BY <1>r, <2>5, <2>9
  <2> QED BY <2>3, <2>5, <2>8, <2>10
<1>3. w[N] = 0
  <2> SUFFICES ASSUME w[N] # 0 PROVE FALSE
    OBVIOUS
  <2>0. \A i \in 0 .. N : w[i] # 0
    BY <1>2
  <2>1. \A i \in 0 .. N : w[i] \in 1 .. N
    BY <1>1, <2>0
  <2>2. w \in [0 .. N -> 1 .. N]
    <3>1. w = [i \in 0 .. N |-> w[i]]
      BY DEF Follow
    <3> QED BY <3>1, <2>1
  <2>3. /\ IsFiniteSet(0 .. N) /\ Cardinality(0 .. N) = N + 1
        /\ IsFiniteSet(1 .. N) /\ Cardinality(1 .. N) = N
    BY FS_Interval
  <2>4. PICK i, j \in 0 .. N : i # j /\ w[i] = w[j]
    <3>1. Cardinality(1 .. N) < Cardinality(0 .. N)
      BY <2>3
    <3> QED BY <2>2, <2>3, <3>1, FS_PigeonHole
  <2>5. w[i] \in M /\ w[j] \in M /\ r[w[i]] \in Int /\ w[i] # 0
    BY <2>1, <1>1
  <2> QED BY <2>4, <2>5, <1>2
<1>4. ASSUME NEW m \in M PROVE \E i \in 0 .. N : w[i] = m
  <2> DEFINE Lost == {x \in M : \A i \in 0 .. N : w[i] # x}
             T == {B - r[x] : x \in Lost}
  <2>1. SUFFICES ASSUME Lost # {} PROVE FALSE
    OBVIOUS
  <2>k. \A x \in Lost : x \in M /\ B - r[x] \in T
    OBVIOUS
  <2>l. \A x \in Lost : r[x] \in 0 .. B /\ B - r[x] \in Nat /\ B - r[x] \in T
    <3> HIDE DEF T, Lost
    <3>1. \A x \in Lost : r[x] \in 0 .. B
      BY <2>k
    <3>2. \A z \in 0 .. B : B - z \in Nat
      OBVIOUS
    <3> QED BY <2>k, <3>1, <3>2
  <2>2. T \in SUBSET Nat /\ T # {}
    BY <2>1, <2>l
  <2>3. PICK t \in T : \A y \in T : t <= y
    <3> HIDE DEF T
    <3> QED BY <2>2, LeastNat
  <2>t. PICK x \in Lost : t = B - r[x]
    OBVIOUS
  <2>4. \A y \in Lost : r[y] <= r[x]
    <3> SUFFICES ASSUME NEW y \in Lost PROVE r[y] <= r[x]
      OBVIOUS
    <3>1. t <= B - r[y] /\ r[x] \in Int /\ r[y] \in Int
      BY <2>3, <2>l
    <3> QED BY <3>1, <2>t
  <2>5. h # 0 /\ h # x /\ h \in M /\ w[0] = h /\ x \in M
    BY <1>0 DEF IsList
  \* The last member met whose rank exceeds that of x.
  <2> DEFINE P == {i \in 0 .. N : w[i] = 0 \/ r[w[i]] < r[x]}
  <2>6. N \in P /\ P \in SUBSET Nat
    BY <1>3
  <2>7. PICK i \in P : \A y \in P : i <= y
    <3> HIDE DEF P
    <3> QED BY <2>6, LeastNat
  <2>8. i # 0
    BY <2>5 DEF IsList
  <2>9. i - 1 \in 0 .. N /\ i \in 1 .. N /\ i - 1 \notin P
    BY <2>7, <2>8
  <2> DEFINE a == w[i - 1]
  <2>10. a \in M /\ a # 0 /\ ~(r[a] < r[x]) /\ a # x
    BY <2>9, <1>1
  <2>p. w[i] = 0 \/ r[w[i]] < r[x]
    OBVIOUS
  <2>12. w[i] = n[a] /\ (w[i] = 0 \/ w[i] \in M)
    BY <1>0, <1>1, <2>9, <2>10
  <2> HIDE DEF a
  <2>11. r[x] < r[a] /\ r[a] \in Int /\ r[x] \in Int
    BY <2>5, <2>10 DEF IsList
  <2>13. /\ n[a] = 0 => r[a] <= r[x]
         /\ n[a] # 0 => r[x] <= r[n[a]] /\ n[a] \in M
    BY <2>5, <2>10, <2>11 DEF IsList
  <2>14. n[a] # 0 => r[n[a]] \in Int
    BY <1>r, <2>13
  <2> QED BY <2>11, <2>12, <2>13, <2>14, <2>p
<1>5. M \subseteq {w[i] : i \in 0 .. N} /\ 0 \notin M
  BY <1>4
<1> QED BY <1>1, <1>3, <1>5

-----------------------------------------------------------------------------
(***************************************************************************)
(* The inductive invariant.  There are members and ranks that make every   *)
(* chain a list of live records (m and r) and the free list a list of      *)
(* blank ones (f and g); each process that walks or changes a list stands  *)
(* where its handle says; and while no process was killed every record is  *)
(* on its list or in the hands of one process.                             *)
(***************************************************************************)
Nxt == [s \in Off |-> Succ(s)]

UnlinkPC == {"del_head", "del_link"}
LinkPC == {"ap_iunlock", "st_link"}
TakenPC == {"ff_done", "ru_dat", "ru_idx"}
FoundPC == {"dat", "rw_dat", "del_lock", "del_dat", "del_free", "del_idx"}
PredPC == {"del_lock", "del_dat", "del_free", "del_idx", "del_head", "del_link"}
AbsentPC == {"del_head", "del_link", "del_unlock"} \cup FreePC
              \cup (StorePC \ {"rw_dat"})
HeadPC == (FreePC \cup StorePC)
            \ {"st_head", "re_head", "rw_dat", "ap_iunlock", "st_link"}

ChainOK(c, m, r) ==
  /\ IsList(ptr[c], Nxt, m[c], r)
  /\ \A s \in m[c] :
       /\ s \in Allocated /\ s <= PTR_MAX
       /\ rec[s].key # Blank => chainoff(rec[s].key) = c
       /\ rec[s].key = Blank =>
            \E p \in Proc : Unlinking(p, s) /\ chainoff(call[p].key) = c
  /\ \A s, t \in m[c] : rec[s].key = rec[t].key /\ rec[s].key # Blank => s = t

ChainsOK(m, r) == \A c \in 1 .. NHASH : ChainOK(c, m, r)

FreeOK(f, g) ==
  /\ IsList(ptr[FREE_OFF], ptr, f, g)
  /\ \A s \in f : s \in Allocated /\ rec[s].key = Blank

\* A process inside the chain c with members M.
AtChain(p, c, M, r) ==
  LET h == db[p]
      k == call[p].key
  IN
  /\ pc[p] \in {"lock", "head"} => h.ptroff = c
  /\ pc[p] \in {"hdr", "body"} =>
       /\ h.offset \in M /\ h.ptroff \in M \cup {c} /\ ptr[h.ptroff] = h.offset
       /\ \A u \in M : rec[u].key = k => r[u] <= r[h.offset]
  /\ pc[p] = "body" => h.idxoff = h.offset /\ h.ptrval = ptr[h.idxoff]
  /\ pc[p] \in FoundPC => h.idxoff \in M /\ rec[h.idxoff].key = k
  /\ pc[p] \in PredPC =>
       /\ h.idxoff \in M /\ h.ptroff \in M \cup {c} /\ ptr[h.ptroff] = h.idxoff
       /\ h.ptroff # h.idxoff
  /\ pc[p] \in PredPC \ UnlinkPC => h.ptrval = ptr[h.idxoff]
  /\ pc[p] \in AbsentPC => \A u \in M : rec[u].key # k
  /\ pc[p] \in HeadPC => h.hptr = ptr[c]
  /\ pc[p] \in LinkPC => ptr[h.idxoff] = ptr[c] /\ rec[h.idxoff].key = k

\* A process inside the free list.
AtFree(p, f) ==
  LET h == db[p] IN
  /\ pc[p] \in {"ff_hdr", "ff_body", "ff_take"} =>
       h.offset \in f /\ h.saveoff \in f \cup {FREE_OFF} /\ ptr[h.saveoff] = h.offset
  /\ pc[p] \in {"ff_body", "ff_take"} =>
       h.idxoff = h.offset /\ h.ptrval = ptr[h.idxoff]
  /\ pc[p] = "del_idx" => h.freeptr = ptr[FREE_OFF]
  /\ pc[p] = "del_head" => ptr[h.idxoff] = ptr[FREE_OFF] /\ h.idxoff \notin f
  /\ pc[p] \in UnlinkPC => rec[h.idxoff].key = Blank

\* A process that holds a record which is on no list.
Holding(p, m, f) ==
  LET s == db[p].idxoff IN
  /\ pc[p] \in TakenPC => rec[s].key = Blank /\ s \notin f
  /\ pc[p] \in TakenPC \cup LinkPC => \A c \in 1 .. NHASH : s \notin m[c]

Apart == \A p, q \in Proc :
           pc[p] \in TakenPC /\ pc[q] \in TakenPC /\ db[p].idxoff = db[q].idxoff
             => p = q

PlaceOK(p, m, r, f) ==
  /\ call[p].key \in Key =>
       AtChain(p, chainoff(call[p].key), m[chainoff(call[p].key)], r)
  /\ AtFree(p, f) /\ Holding(p, m, f)

PlacesOK(m, r, f) == \A p \in Proc : PlaceOK(p, m, r, f)

\* Nothing is lost while nobody is killed.
Complete(m, f) ==
  crashes = 0 =>
    \A s \in Allocated :
      /\ rec[s].key # Blank /\ s <= PTR_MAX =>
           \/ s \in m[chainoff(rec[s].key)]
           \/ \E p \in Proc : pc[p] \in LinkPC /\ db[p].idxoff = s
      /\ rec[s].key = Blank =>
           \/ s \in f
           \/ \E p \in Proc : pc[p] \in TakenPC \cup {"del_head"} /\ db[p].idxoff = s

Witness(m, r, f, g, b) ==
  /\ m \in [1 .. NHASH -> SUBSET RecOff] /\ f \in SUBSET RecOff
  /\ b \in Nat /\ r \in [RecOff -> 0 .. b] /\ g \in [RecOff -> 0 .. b]

ListsOK(m, r, f, g, b) ==
  /\ Witness(m, r, f, g, b)
  /\ ChainsOK(m, r) /\ FreeOK(f, g) /\ PlacesOK(m, r, f) /\ Apart
  /\ Complete(m, f)

ILists == IFormat /\ IExcl /\ \E m, r, f, g, b : ListsOK(m, r, f, g, b)

LEMMA WalkFollows ==
  ASSUME IFormat, NEW o \in 0 .. NHASH, NEW n \in [Off -> Off],
         \A s \in Off : n[s] = IF o = FREE_OFF THEN ptr[s] ELSE Succ(s)
  PROVE  Follow(ptr[o], n, Walk(o), MaxOff)
<1>0. MaxOff \in Nat /\ 0 \in Off /\ o \in Off /\ ptr[o] \in Off
  <2>1. MaxOff \in Nat /\ NHASH \in Nat /\ NHASH < MaxOff /\ ptr \in [Off -> Off]
    BY DbConst DEF IFormat, IType, TypeOK
  <2>2. o \in Off /\ 0 \in Off
    BY <2>1 DEF Off
  <2> QED BY <2>1, <2>2
<1> DEFINE Eq(w) == w = [i \in 0 .. MaxOff |->
        IF i = 0 THEN ptr[o]
        ELSE IF w[i - 1] = 0 THEN 0
        ELSE IF o = FREE_OFF THEN ptr[w[i - 1]] ELSE Succ(w[i - 1])]
<1>1. PICK v \in [0 .. MaxOff -> Off] : Follow(ptr[o], n, v, MaxOff)
  BY <1>0, FollowExists
<1>2. Eq(v)
  <2>1. ASSUME NEW i \in 0 .. MaxOff
        PROVE  v[i] = IF i = 0 THEN ptr[o]
        ELSE IF v[i - 1] = 0 THEN 0
        ELSE IF o = FREE_OFF THEN ptr[v[i - 1]] ELSE Succ(v[i - 1])
    <3>1. i # 0 => v[i - 1] \in Off
      BY <1>0
    <3>2. v[i] = IF i = 0 THEN ptr[o]
        ELSE IF v[i - 1] = 0 THEN 0 ELSE n[v[i - 1]]
      BY <1>1 DEF Follow
    <3> QED BY <3>1, <3>2
  <2> QED BY <2>1, <1>1
<1>3. Walk(o) = CHOOSE w : Eq(w)
  BY DEF Walk
<1>4. Eq(Walk(o))
  BY <1>2, <1>3
<1> DEFINE w == Walk(o)
<1>5. ASSUME NEW i \in 0 .. MaxOff
      PROVE  w[i] = IF i = 0 THEN ptr[o]
        ELSE IF w[i - 1] = 0 THEN 0
        ELSE IF o = FREE_OFF THEN ptr[w[i - 1]] ELSE Succ(w[i - 1])
  BY <1>4
<1>6. w = [i \in 0 .. MaxOff |-> w[i]]
  BY <1>4
<1> HIDE DEF w
<1>7. \A i \in 0 .. MaxOff : w[i] \in Off
  <2> DEFINE Bad == {k \in 0 .. MaxOff : w[k] \notin Off}
  <2>1. SUFFICES ASSUME Bad # {} PROVE FALSE
    OBVIOUS
  <2>2. Bad \in SUBSET Nat
    OBVIOUS
  <2>3. PICK k \in Bad : \A x \in Bad : k <= x
    <3> HIDE DEF Bad
    <3> QED BY <2>1, <2>2, LeastNat
  <2>4. CASE k = 0
    BY <2>4, <1>0, <1>5
  <2>5. CASE k # 0
    <3>1. k - 1 \in 0 .. MaxOff /\ k - 1 \notin Bad
      BY <2>3, <2>5, <1>0
    <3>2. w[k - 1] \in Off
      BY <3>1
    <3>3. n[w[k - 1]] \in Off
      BY <3>2
    <3> QED BY <3>2, <3>3, <1>0, <1>5, <2>5
  <2> QED BY <2>4, <2>5
<1>8. ASSUME NEW i \in 0 .. MaxOff
      PROVE  w[i] = IF i = 0 THEN ptr[o]
        ELSE IF w[i - 1] = 0 THEN 0 ELSE n[w[i - 1]]
  <2>1. i # 0 => w[i - 1] \in Off
    BY <1>0, <1>7
  <2> QED BY <2>1, <1>5
<1>9. Follow(ptr[o], n, w, MaxOff)
  BY <1>6, <1>8 DEF Follow
<1> QED BY <1>9 DEF w

-----------------------------------------------------------------------------
(* What the locks and the types give.                                      *)

LEMMA OneWriter ==
  ASSUME IExcl
  PROVE  /\ \A p, q \in Proc :
              /\ pc[p] \in ChainPC /\ pc[q] \in ChainPC /\ call[p].op # "fetch"
              /\ chainoff(call[p].key) = chainoff(call[q].key)
              => p = q
         /\ \A p, q \in Proc : pc[p] \in ListPC /\ pc[q] \in ListPC => p = q
         /\ \A p \in Proc : pc[p] \in ChainPC \cup {"lock"} =>
              call[p].key \in Key /\ chainoff(call[p].key) \in 1 .. NHASH
         /\ \A p \in Proc : pc[p] \in DelPC \cup FreePC \cup StorePC => 
              call[p].op # "fetch" /\ pc[p] \in ChainPC
<1>1. Exclusion
  BY ExclHolds
<1>2. \A p \in Proc : pc[p] \in ChainPC \cup {"lock"} =>
              call[p].key \in Key /\ chainoff(call[p].key) \in 1 .. NHASH
  <2> SUFFICES ASSUME NEW p \in Proc, pc[p] \in ChainPC \cup {"lock"}
               PROVE  call[p].key \in Key /\ chainoff(call[p].key) \in 1 .. NHASH
    OBVIOUS
  <2>1. CallAt(p)
    BY DEF IExcl, IType, CallOK
  <2>2. call[p] \in Fetch \cup Delete \cup Store
    BY <2>1 DEF CallAt, ChainPC, FindPC
  <2>3. call[p].key \in Key
    BY <2>2 DEF Fetch, Delete, Store
  <2> QED BY <2>3, DbConst DEF chainoff
<1>3. \A p \in Proc : pc[p] \in DelPC \cup FreePC \cup StorePC =>
              call[p].op # "fetch" /\ pc[p] \in ChainPC
  BY DEF IExcl, IType, CallOK, CallAt, Delete, Store, ChainPC
<1> QED BY <1>1, <1>2, <1>3 DEF Exclusion

LEMMA SuccIs ==
  ASSUME IExcl
  PROVE  /\ \A p \in Proc, s \in Off : Unlinking(p, s) => Nxt[s] = db[p].ptrval
         /\ \A s \in Off : (\A p \in Proc : ~Unlinking(p, s)) => Nxt[s] = ptr[s]
<1>1. \A p, q \in Proc, s \in Off : Unlinking(p, s) /\ Unlinking(q, s) => p = q
  BY OneWriter DEF Unlinking, ListPC, DelPC
<1>2. \A p \in Proc, s \in Off : Unlinking(p, s) =>
        p = CHOOSE q \in Proc : Unlinking(q, s)
  BY <1>1
<1> QED BY <1>2 DEF Nxt, Succ

LEMMA SuccIsNext ==
  ASSUME IExcl'
  PROVE  /\ \A p \in Proc, s \in Off : Unlinking(p, s)' => Nxt'[s] = db'[p].ptrval
         /\ \A s \in Off : (\A p \in Proc : ~Unlinking(p, s)') => Nxt'[s] = ptr'[s]
<1>0. \A p, q \in Proc : pc'[p] \in ListPC /\ pc'[q] \in ListPC => p = q
  <2>1. \A p \in Proc : pc'[p] \in ListPC => p \in wlk'[FREE_OFF]
    BY DEF IExcl, HoldsOK, Holds
  <2>2. \A p, q \in wlk'[FREE_OFF] : p = q
    BY Layout DEF IExcl, LockOK
  <2> QED BY <2>1, <2>2
<1>1. \A p, q \in Proc, s \in Off : Unlinking(p, s)' /\ Unlinking(q, s)' => p = q
  BY <1>0 DEF Unlinking, ListPC, DelPC
<1>2. \A p \in Proc, s \in Off : Unlinking(p, s)' =>
        p = CHOOSE q \in Proc : Unlinking(q, s)'
  BY <1>1
<1> QED BY <1>2 DEF Nxt, Succ

-----------------------------------------------------------------------------
(* What a step leaves alone.                                               *)

Others(p) == \A q \in Proc \ {p} :
               pc'[q] = pc[q] /\ call'[q] = call[q] /\ db'[q] = db[q]

\* A chain whose records nobody touches.
LEMMA ChainFrame ==
  ASSUME NEW c \in 1 .. NHASH, NEW m, NEW r, ChainOK(c, m, r),
         NEW m2, NEW r2, m2[c] = m[c], ptr'[c] = ptr[c],
         Allocated \subseteq Allocated',
         \A u \in m[c] : /\ rec'[u].key = rec[u].key /\ r2[u] = r[u]
                         /\ Nxt'[u] = Nxt[u],
         \A u \in m[c], p \in Proc :
           Unlinking(p, u) => Unlinking(p, u)' /\ call'[p].key = call[p].key
  PROVE  ChainOK(c, m2, r2)'
<1>1. IsList(ptr'[c], Nxt', m2[c], r2)
  BY ListFrame DEF ChainOK
<1>2. ASSUME NEW s \in m2[c]
      PROVE  /\ s \in Allocated' /\ s <= PTR_MAX
             /\ rec'[s].key # Blank => chainoff(rec'[s].key) = c
             /\ rec'[s].key = Blank =>
                 \E p \in Proc : Unlinking(p, s)' /\ chainoff(call'[p].key) = c
  BY DEF ChainOK
<1>3. \A s, t \in m2[c] :
        rec'[s].key = rec'[t].key /\ rec'[s].key # Blank => s = t
  BY DEF ChainOK
<1> QED BY <1>1, <1>2, <1>3 DEF ChainOK

\* A process whose chain, free list and records nobody touches.
LEMMA PlaceFrame ==
  ASSUME IExcl, NEW q \in Proc, NEW m, NEW r, NEW f, PlaceOK(q, m, r, f),
         pc'[q] = pc[q], call'[q] = call[q], db'[q] = db[q],
         NEW m2, NEW r2, NEW f2,
         pc[q] \in ChainPC =>
           LET c == chainoff(call[q].key) IN
           /\ m2[c] = m[c] /\ ptr'[c] = ptr[c]
           /\ \A u \in m[c] : /\ rec'[u].key = rec[u].key /\ r2[u] = r[u]
                              /\ ptr'[u] = ptr[u],
         pc[q] \in ListPC =>
           f2 = f /\ ptr'[FREE_OFF] = ptr[FREE_OFF] /\ \A u \in f : ptr'[u] = ptr[u],
         pc[q] \in TakenPC \cup LinkPC =>
           LET s == db[q].idxoff IN
           /\ rec'[s].key = rec[s].key /\ ptr'[s] = ptr[s]
           /\ \A c \in 1 .. NHASH : s \notin m2[c],
         pc[q] \in TakenPC => db[q].idxoff \notin f2
  PROVE  PlaceOK(q, m2, r2, f2)'
<1>c. PICK c : c = chainoff(call[q].key)
  OBVIOUS
<1>1. Holding(q, m2, f2)'
  BY DEF PlaceOK, Holding
<1>2. ASSUME call[q].key \in Key PROVE AtChain(q, c, m2[c], r2)'
  <2>0. AtChain(q, c, m[c], r)
    BY <1>2, <1>c DEF PlaceOK
  <2>1. CASE pc[q] \in ChainPC
    <3>1. /\ m2[c] = m[c] /\ ptr'[c] = ptr[c]
          /\ \A u \in m[c] : /\ rec'[u].key = rec[u].key /\ r2[u] = r[u]
                              /\ ptr'[u] = ptr[u]
      BY <1>c, <2>1
    <3> QED BY <2>0, <3>1 DEF AtChain
  <2>2. CASE pc[q] \notin ChainPC
    BY <2>0, <2>2 DEF AtChain, ChainPC, FindPC, FoundPC, PredPC, UnlinkPC,
       AbsentPC, HeadPC, LinkPC, DelPC, StorePC, FreePC
  <2> QED BY <2>1, <2>2
<1>3. AtFree(q, f2)'
  <2>0. AtFree(q, f) /\ (call[q].key \in Key => AtChain(q, c, m[c], r))
    BY <1>c DEF PlaceOK
  <2>1. CASE pc[q] \in UnlinkPC
    <3>1. pc[q] \in ChainPC /\ pc[q] \in ListPC /\ call[q].key \in Key
      BY <2>1, OneWriter DEF UnlinkPC, ChainPC, ListPC, DelPC
    <3>2. db[q].idxoff \in m[c]
      BY <2>0, <2>1, <3>1 DEF AtChain, UnlinkPC, PredPC
    <3>3. rec'[db[q].idxoff].key = rec[db[q].idxoff].key /\ ptr'[db[q].idxoff] = ptr[db[q].idxoff]
      BY <1>c, <3>1, <3>2
    <3> QED BY <2>0, <2>1, <3>1, <3>3 DEF AtFree, UnlinkPC
  <2>2. CASE pc[q] \in ListPC \ UnlinkPC
    BY <2>0, <2>2 DEF AtFree, UnlinkPC
  <2>3. CASE pc[q] \notin ListPC
    BY <2>0, <2>3 DEF AtFree, UnlinkPC, ListPC, DelPC, FreePC
  <2> QED BY <2>1, <2>2, <2>3
<1> QED BY <1>c, <1>1, <1>2, <1>3 DEF PlaceOK

\* A step of p that touches no index record and starts or ends no unlinking.
LEMMA QuietLists ==
  ASSUME IExcl, IExcl', NEW p \in Proc, Others(p), UNCHANGED <<ptr, rec, idxEnd>>,
         NEW m, NEW r, NEW f, NEW g, NEW b, ListsOK(m, r, f, g, b),
         pc[p] \notin UnlinkPC, pc'[p] \notin UnlinkPC,
         pc'[p] \in TakenPC => pc[p] \in TakenPC /\ db'[p].idxoff = db[p].idxoff,
         PlaceOK(p, m, r, f)', Complete(m, f)'
  PROVE  ListsOK(m, r, f, g, b)'
<1>0. /\ Witness(m, r, f, g, b) /\ ChainsOK(m, r) /\ FreeOK(f, g)
      /\ PlacesOK(m, r, f) /\ Apart
  BY DEF ListsOK
<1>1. \A q \in Proc, s \in Off : Unlinking(q, s)' <=> Unlinking(q, s)
  BY DEF Others, Unlinking, UnlinkPC
<1>2. \A s \in Off : Nxt'[s] = Nxt[s]
  <2> SUFFICES ASSUME NEW s \in Off PROVE Nxt'[s] = Nxt[s]
    OBVIOUS
  <2>1. CASE \E q \in Proc : Unlinking(q, s)
    <3>1. PICK q \in Proc : Unlinking(q, s)
      BY <2>1
    <3>2. Nxt[s] = db[q].ptrval /\ Nxt'[s] = db'[q].ptrval
      BY <1>1, <3>1, SuccIs, SuccIsNext
    <3>3. q # p
      BY <3>1 DEF Unlinking, UnlinkPC
    <3> QED BY <3>2, <3>3 DEF Others
  <2>2. CASE ~\E q \in Proc : Unlinking(q, s)
    BY <1>1, <2>2, SuccIs, SuccIsNext
  <2> QED BY <2>1, <2>2
<1>3. Allocated' = Allocated
  BY DEF Allocated
<1>4. ChainsOK(m, r)'
  <2> SUFFICES ASSUME NEW c \in 1 .. NHASH PROVE ChainOK(c, m, r)'
    BY DEF ChainsOK
  <2>1. m[c] \subseteq Off
    BY <1>0, Layout DEF Witness
  <2>2. \A u \in m[c], q \in Proc :
          Unlinking(q, u) => Unlinking(q, u)' /\ call'[q].key = call[q].key
    BY <1>1, <2>1 DEF Unlinking, UnlinkPC, Others
  <2>3. ChainOK(c, m, r)
    BY <1>0 DEF ChainsOK
  <2>4. \A u \in m[c] : Nxt'[u] = Nxt[u]
    BY <1>2, <2>1
  <2> QED BY <1>3, <2>2, <2>3, <2>4, ChainFrame
<1>5. FreeOK(f, g)'
  BY <1>0, <1>3 DEF FreeOK
<1>6. PlacesOK(m, r, f)'
  <2> SUFFICES ASSUME NEW q \in Proc \ {p} PROVE PlaceOK(q, m, r, f)'
    BY DEF PlacesOK
  <2>1. PlaceOK(q, m, r, f)
    BY <1>0 DEF PlacesOK
  <2>2. /\ pc[q] \in TakenPC => db[q].idxoff \notin f
        /\ pc[q] \in TakenPC \cup LinkPC => \A c \in 1 .. NHASH : db[q].idxoff \notin m[c]
    BY <2>1 DEF PlaceOK, Holding
  <2> QED BY <2>1, <2>2, PlaceFrame DEF Others
<1>7. Apart'
  BY <1>0 DEF Apart, Others
<1> QED BY <1>0, <1>4, <1>5, <1>6, <1>7 DEF ListsOK

\* A step of p that puts down no record it holds.
LEMMA QuietComplete ==
  ASSUME NEW p \in Proc, Others(p), UNCHANGED <<rec, idxEnd, crashes>>,
         NEW m, NEW f, Complete(m, f),
         pc[p] \in LinkPC => pc'[p] \in LinkPC /\ db'[p].idxoff = db[p].idxoff,
         pc[p] \in TakenPC => pc'[p] \in TakenPC /\ db'[p].idxoff = db[p].idxoff,
         pc[p] # "del_head"
  PROVE  Complete(m, f)'
<1>1. Allocated' = Allocated
  BY DEF Allocated
<1>2. ASSUME NEW s, \E q \in Proc : pc[q] \in LinkPC /\ db[q].idxoff = s
      PROVE  \E q \in Proc : pc'[q] \in LinkPC /\ db'[q].idxoff = s
  BY <1>2 DEF Others
<1>3. ASSUME NEW s, \E q \in Proc : pc[q] \in TakenPC \cup {"del_head"} /\ db[q].idxoff = s
      PROVE  \E q \in Proc : pc'[q] \in TakenPC \cup {"del_head"} /\ db'[q].idxoff = s
  BY <1>3 DEF Others
<1> QED BY <1>1, <1>2, <1>3 DEF Complete

-----------------------------------------------------------------------------
(* Steps that leave the index file alone.                                  *)

\* The fields of the handle that place a process.
SameHandle(p) ==
  /\ db'[p].offset = db[p].offset /\ db'[p].idxoff = db[p].idxoff
  /\ db'[p].ptrval = db[p].ptrval /\ db'[p].ptroff = db[p].ptroff
  /\ db'[p].saveoff = db[p].saveoff /\ db'[p].hptr = db[p].hptr
  /\ db'[p].freeptr = db[p].freeptr

\* The steps that only move a process on, and the labels between them.
Forward ==
  {<<"lock", "head">>, <<"del_lock", "del_dat">>, <<"del_dat", "del_free">>,
   <<"del_unlock", "unlock">>, <<"del_unlock", "re_head">>,
   <<"ff_lock", "ff_head">>, <<"ff_miss", "ap_dlock">>, <<"ff_done", "ru_dat">>,
   <<"ap_dlock", "ap_dat">>, <<"ap_dat", "ap_dunlock">>,
   <<"ap_dunlock", "ap_ilock">>, <<"ap_ilock", "ap_idx">>,
   <<"ap_iunlock", "st_link">>, <<"ru_dat", "ru_idx">>, <<"rw_dat", "unlock">>}

LEMMA ForwardLists ==
  ASSUME IExcl, IExcl', NEW p \in Proc, Others(p),
         UNCHANGED <<ptr, rec, idxEnd, crashes>>,
         NEW m, NEW r, NEW f, NEW g, NEW b, ListsOK(m, r, f, g, b),
         SameHandle(p), call'[p] = call[p], <<pc[p], pc'[p]>> \in Forward
  PROVE  ListsOK(m, r, f, g, b)'
<1>0. PlaceOK(p, m, r, f) /\ Complete(m, f)
  BY DEF ListsOK, PlacesOK
<1>c. PICK c : c = chainoff(call[p].key)
  OBVIOUS
<1>1. ASSUME call[p].key \in Key PROVE AtChain(p, c, m[c], r)'
  <2>1. AtChain(p, c, m[c], r)
    BY <1>0, <1>1, <1>c DEF PlaceOK
  <2> QED BY <2>1 DEF AtChain, SameHandle, Forward, FoundPC, PredPC, UnlinkPC,
       AbsentPC, HeadPC, LinkPC, StorePC, FreePC
<1>2. AtFree(p, f)' /\ Holding(p, m, f)'
  BY <1>0 DEF PlaceOK, AtFree, Holding, SameHandle, Forward, UnlinkPC, TakenPC, LinkPC
<1>3. PlaceOK(p, m, r, f)'
  BY <1>c, <1>1, <1>2 DEF PlaceOK
<1>4. Complete(m, f)'
  BY <1>0, QuietComplete DEF Forward, LinkPC, TakenPC, SameHandle
<1> QED BY <1>3, <1>4, QuietLists DEF Forward, UnlinkPC, TakenPC, SameHandle

LEMMA ForwardSteps ==
  ASSUME IFormat, IExcl, IExcl', NEW p \in Proc,
         \/ LockChain(p) \/ DelLock(p) \/ DelDat(p) \/ DelUnlock(p) \/ FreeLock(p)
         \/ FreeUnlock(p) \/ AppDatLock(p) \/ AppDat(p) \/ AppDatUnlock(p)
         \/ AppIdxLock(p) \/ AppIdxUnlock(p) \/ ReuseDat(p) \/ RewriteDat(p),
         NEW m, NEW r, NEW f, NEW g, NEW b, ListsOK(m, r, f, g, b)
  PROVE  ListsOK(m, r, f, g, b)'
<1>0. /\ db \in [Proc -> Handle] /\ db[p] \in Handle /\ pc \in [Proc -> PC]
      /\ call \in [Proc -> Calls \cup {NoCall}]
  BY DEF IFormat, IType, TypeOK
<1>1. ASSUME LockChain(p)
     PROVE  /\ Others(p) /\ UNCHANGED <<ptr, rec, idxEnd, crashes>>
            /\ SameHandle(p) /\ call'[p] = call[p] /\ <<pc[p], pc'[p]>> \in Forward
  BY <1>0, <1>1 DEF LockChain, Goto, Others, SameHandle, Forward, files, locks
<1>2. ASSUME DelLock(p)
     PROVE  /\ Others(p) /\ UNCHANGED <<ptr, rec, idxEnd, crashes>>
            /\ SameHandle(p) /\ call'[p] = call[p] /\ <<pc[p], pc'[p]>> \in Forward
  BY <1>0, <1>2 DEF DelLock, Goto, Others, SameHandle, Forward, files, locks
<1>3. ASSUME DelDat(p)
     PROVE  /\ Others(p) /\ UNCHANGED <<ptr, rec, idxEnd, crashes>>
            /\ SameHandle(p) /\ call'[p] = call[p] /\ <<pc[p], pc'[p]>> \in Forward
  BY <1>0, <1>3 DEF DelDat, Goto, Others, SameHandle, Forward, files, locks
<1>4. ASSUME DelUnlock(p)
     PROVE  /\ Others(p) /\ UNCHANGED <<ptr, rec, idxEnd, crashes>>
            /\ SameHandle(p) /\ call'[p] = call[p] /\ <<pc[p], pc'[p]>> \in Forward
  BY <1>0, <1>4 DEF DelUnlock, Goto, Others, SameHandle, Forward, files, locks
<1>5. ASSUME FreeLock(p)
     PROVE  /\ Others(p) /\ UNCHANGED <<ptr, rec, idxEnd, crashes>>
            /\ SameHandle(p) /\ call'[p] = call[p] /\ <<pc[p], pc'[p]>> \in Forward
  BY <1>0, <1>5 DEF FreeLock, Goto, Others, SameHandle, Forward, files, locks
<1>6. ASSUME FreeUnlock(p)
     PROVE  /\ Others(p) /\ UNCHANGED <<ptr, rec, idxEnd, crashes>>
            /\ SameHandle(p) /\ call'[p] = call[p] /\ <<pc[p], pc'[p]>> \in Forward
  BY <1>0, <1>6 DEF FreeUnlock, Goto, Others, SameHandle, Forward, files, locks
<1>7. ASSUME AppDatLock(p)
     PROVE  /\ Others(p) /\ UNCHANGED <<ptr, rec, idxEnd, crashes>>
            /\ SameHandle(p) /\ call'[p] = call[p] /\ <<pc[p], pc'[p]>> \in Forward
  BY <1>0, <1>7 DEF AppDatLock, Goto, Others, SameHandle, Forward, files, locks
<1>8. ASSUME AppDat(p)
     PROVE  /\ Others(p) /\ UNCHANGED <<ptr, rec, idxEnd, crashes>>
            /\ SameHandle(p) /\ call'[p] = call[p] /\ <<pc[p], pc'[p]>> \in Forward
  BY <1>0, <1>8 DEF AppDat, Goto, Others, SameHandle, Forward, files, locks, Handle
<1>9. ASSUME AppDatUnlock(p)
     PROVE  /\ Others(p) /\ UNCHANGED <<ptr, rec, idxEnd, crashes>>
            /\ SameHandle(p) /\ call'[p] = call[p] /\ <<pc[p], pc'[p]>> \in Forward
  BY <1>0, <1>9 DEF AppDatUnlock, Goto, Others, SameHandle, Forward, files, locks
<1>10. ASSUME AppIdxLock(p)
     PROVE  /\ Others(p) /\ UNCHANGED <<ptr, rec, idxEnd, crashes>>
            /\ SameHandle(p) /\ call'[p] = call[p] /\ <<pc[p], pc'[p]>> \in Forward
  BY <1>0, <1>10 DEF AppIdxLock, Goto, Others, SameHandle, Forward, files, locks
<1>11. ASSUME AppIdxUnlock(p)
     PROVE  /\ Others(p) /\ UNCHANGED <<ptr, rec, idxEnd, crashes>>
            /\ SameHandle(p) /\ call'[p] = call[p] /\ <<pc[p], pc'[p]>> \in Forward
  BY <1>0, <1>11 DEF AppIdxUnlock, Goto, Others, SameHandle, Forward, files, locks
<1>12. ASSUME ReuseDat(p)
     PROVE  /\ Others(p) /\ UNCHANGED <<ptr, rec, idxEnd, crashes>>
            /\ SameHandle(p) /\ call'[p] = call[p] /\ <<pc[p], pc'[p]>> \in Forward
  BY <1>0, <1>12 DEF ReuseDat, Goto, Others, SameHandle, Forward, files, locks, Handle
<1>13. ASSUME RewriteDat(p)
     PROVE  /\ Others(p) /\ UNCHANGED <<ptr, rec, idxEnd, crashes>>
            /\ SameHandle(p) /\ call'[p] = call[p] /\ <<pc[p], pc'[p]>> \in Forward
  BY <1>0, <1>13 DEF RewriteDat, Goto, Others, SameHandle, Forward, files, locks
<1> QED BY <1>1, <1>2, <1>3, <1>4, <1>5, <1>6, <1>7, <1>8, <1>9, <1>10, <1>11, <1>12, <1>13, ForwardLists

\* Labels at which a process stands on no list.
Away == {"idle", "quit", "unlock"} \cup NextPC

LEMMA AwayPlace ==
  ASSUME NEW p, NEW m, NEW r, NEW f, pc'[p] \in Away
  PROVE  PlaceOK(p, m, r, f)'
  BY DEF PlaceOK, AtChain, AtFree, Holding, Away, NextPC, FoundPC, PredPC,
     UnlinkPC, AbsentPC, HeadPC, LinkPC, TakenPC, StorePC, FreePC

LEMMA AwayLists ==
  ASSUME IExcl, IExcl', NEW p \in Proc, Others(p),
         UNCHANGED <<ptr, rec, idxEnd>>, pc'[p] \in Away, pc[p] \notin UnlinkPC,
         NEW m, NEW r, NEW f, NEW g, NEW b, ListsOK(m, r, f, g, b), Complete(m, f)'
  PROVE  ListsOK(m, r, f, g, b)'
<1>1. pc'[p] \notin UnlinkPC /\ pc'[p] \notin TakenPC
  BY DEF Away, NextPC, UnlinkPC, TakenPC
<1> QED BY <1>1, AwayPlace, QuietLists

LEMMA AwaySteps ==
  ASSUME IFormat, IFormat', IExcl, IExcl', NEW p \in Proc,
         \/ ReadDat(p) \/ Return(p) \/ NextLock(p) \/ NextHdr(p) \/ NextBody(p)
         \/ db_rewind(p),
         NEW m, NEW r, NEW f, NEW g, NEW b, ListsOK(m, r, f, g, b)
  PROVE  ListsOK(m, r, f, g, b)'
<1>0. /\ db \in [Proc -> Handle] /\ db[p] \in Handle /\ pc \in [Proc -> PC]
      /\ call \in [Proc -> Calls \cup {NoCall}] /\ pc'[p] # "dump"
  BY DEF IFormat, IType, TypeOK, HandlesOK, HandleOK
<1>h. ASSUME Others(p), UNCHANGED <<ptr, rec, idxEnd, crashes>>,
             pc'[p] \in Away, pc[p] \in Away \cup {"dat"}
      PROVE  ListsOK(m, r, f, g, b)'
  <2>1. /\ pc[p] \notin UnlinkPC /\ pc[p] \notin LinkPC /\ pc[p] \notin TakenPC
        /\ pc[p] # "del_head"
    BY <1>h DEF Away, NextPC, UnlinkPC, LinkPC, TakenPC
  <2>2. Complete(m, f)'
    BY <1>h, <2>1, QuietComplete DEF ListsOK
  <2> QED BY <1>h, <2>1, <2>2, AwayLists
<1>1. CASE ReadDat(p)
  BY <1>0, <1>h, <1>1 DEF ReadDat, Gone, Goto, Others, files, Away, NextPC
<1>2. CASE Return(p)
  BY <1>0, <1>h, <1>2 DEF Return, Goto, Others, files, Away, NextPC
<1>3. CASE NextLock(p)
  BY <1>0, <1>h, <1>3 DEF NextLock, Goto, Others, files, Away, NextPC
<1>4. CASE NextHdr(p)
  BY <1>0, <1>h, <1>4 DEF NextHdr, Gone, Goto, Others, files, Away, NextPC
<1>5. CASE NextBody(p)
  BY <1>0, <1>h, <1>5 DEF NextBody, Gone, Goto, Others, files, Away, NextPC
<1>6. CASE db_rewind(p)
  <2>1. /\ Others(p) /\ UNCHANGED <<ptr, rec, idxEnd, crashes>>
        /\ pc'[p] \in Away /\ pc[p] \in Away \cup {"dat"}
    BY <1>6 DEF db_rewind, Others, files, locks, Away
  <2> QED BY <2>1, <1>h
<1> QED BY <1>1, <1>2, <1>3, <1>4, <1>5, <1>6

\* A kill loses at most the record that the process held; between the last
\* two pointer writes of _db_dodelete it would also break a chain.
CleanKills == CrashAt \cap UnlinkPC = {}

LEMMA CrashLists ==
  ASSUME IFormat, IExcl, IExcl', CleanKills, NEW p \in Proc, Crash(p),
         NEW m, NEW r, NEW f, NEW g, NEW b, ListsOK(m, r, f, g, b)
  PROVE  ListsOK(m, r, f, g, b)'
<1>0. /\ db \in [Proc -> Handle] /\ pc \in [Proc -> PC]
      /\ call \in [Proc -> Calls \cup {NoCall}] /\ crashes \in Nat
  BY DbConst DEF IFormat, IType, TypeOK
<1>1. /\ Others(p) /\ UNCHANGED <<ptr, rec, idxEnd>> /\ pc'[p] \in Away
      /\ pc[p] \notin UnlinkPC /\ crashes' # 0
  BY <1>0 DEF Crash, CleanKills, Goto, Others, files, Away
<1> QED BY <1>1, AwayLists DEF Complete

LEMMA CallLists ==
  ASSUME IFormat, IExcl, IExcl', NEW p \in Proc, NEW e \in Calls, Call(p, e),
         NEW m, NEW r, NEW f, NEW g, NEW b, ListsOK(m, r, f, g, b)
  PROVE  ListsOK(m, r, f, g, b)'
<1>0. /\ db \in [Proc -> Handle] /\ pc \in [Proc -> PC]
      /\ call \in [Proc -> Calls \cup {NoCall}]
  BY DEF IFormat, IType, TypeOK
<1>1. /\ Others(p) /\ UNCHANGED <<ptr, rec, idxEnd, crashes>>
      /\ pc[p] = "idle" /\ pc'[p] \in {"lock", "nx_lock"} /\ call'[p] = e
      /\ pc'[p] = "lock" => db'[p].ptroff = chainoff(e.key)
  BY <1>0 DEF Call, Goto, Others, files, locks, DB0
<1>2. Complete(m, f)'
  BY <1>1, QuietComplete DEF ListsOK, LinkPC, TakenPC
<1>3. PlaceOK(p, m, r, f)'
  <2>1. CASE pc'[p] = "nx_lock"
    BY <2>1, AwayPlace DEF Away, NextPC
  <2>2. CASE pc'[p] = "lock"
    BY <1>1, <2>2 DEF PlaceOK, AtChain, AtFree, Holding, FoundPC, PredPC,
      UnlinkPC, AbsentPC, HeadPC, LinkPC, TakenPC, StorePC, FreePC
  <2> QED BY <1>1, <2>1, <2>2
<1> QED BY <1>1, <1>2, <1>3, QuietLists DEF UnlinkPC, TakenPC

-----------------------------------------------------------------------------
(* Steps that walk a list.                                                 *)

\* Nobody is unlinking a record of the chain that a process walks.
LEMMA ChainSteady ==
  ASSUME IExcl, NEW m, NEW r, NEW f, NEW g, NEW b, ListsOK(m, r, f, g, b),
         NEW p \in Proc, pc[p] \in ChainPC \ UnlinkPC,
         NEW s \in m[chainoff(call[p].key)]
  PROVE  /\ s \in RecOff /\ rec[s].key # Blank /\ Nxt[s] = ptr[s] /\ s \notin f
         /\ \A q \in Proc : ~Unlinking(q, s)
<1>c. PICK c : c = chainoff(call[p].key)
  OBVIOUS
<1>1. c \in 1 .. NHASH /\ ChainOK(c, m, r) /\ s \in RecOff /\ s \in Off /\ s \in m[c]
  BY <1>c, OneWriter, Layout DEF ListsOK, Witness, ChainsOK
<1>2. rec[s].key # Blank
  <2> SUFFICES ASSUME rec[s].key = Blank PROVE FALSE
    OBVIOUS
  <2>1. PICK q \in Proc : Unlinking(q, s) /\ chainoff(call[q].key) = c
    BY <1>1 DEF ChainOK
  <2>2. pc[q] \in ChainPC /\ call[q].op # "fetch" /\ pc[q] \in UnlinkPC
    BY <2>1, OneWriter DEF Unlinking, DelPC, UnlinkPC
  <2> QED BY <1>c, <2>1, <2>2, OneWriter
<1>3. \A q \in Proc : ~Unlinking(q, s)
  BY <1>2 DEF ListsOK, PlacesOK, PlaceOK, AtFree, Unlinking, UnlinkPC
<1>4. s \notin f
  BY <1>2 DEF ListsOK, FreeOK
<1> QED BY <1>1, <1>2, <1>3, <1>4, SuccIs

\* A step that only reads, and the place it leaves the process at.
LEMMA ReadLists ==
  ASSUME IFormat, IExcl, IExcl', NEW p \in Proc, Others(p), UNCHANGED <<files, call, crashes>>,
         NEW m, NEW r, NEW f, NEW g, NEW b, ListsOK(m, r, f, g, b),
         pc[p] \in {"head", "hdr", "body", "del_free", "st_head", "re_head",
                    "ff_head", "ff_hdr", "ff_body"},
         pc'[p] \notin UnlinkPC, pc'[p] \notin TakenPC,
         PlaceOK(p, m, r, f)'
  PROVE  ListsOK(m, r, f, g, b)'
<1>1. pc[p] \notin UnlinkPC /\ pc[p] \notin LinkPC /\ pc[p] \notin TakenPC /\ pc[p] # "del_head"
  BY DEF UnlinkPC, LinkPC, TakenPC
<1>2. UNCHANGED <<ptr, rec, idxEnd>>
  BY DEF files
<1>3. Complete(m, f)'
  BY <1>1, <1>2, QuietComplete DEF ListsOK
<1> QED BY <1>1, <1>2, <1>3, QuietLists

LEMMA ReadHeadLists ==
  ASSUME IFormat, IExcl, IExcl', NEW p \in Proc, ReadHead(p),
         NEW m, NEW r, NEW f, NEW g, NEW b, ListsOK(m, r, f, g, b)
  PROVE  ListsOK(m, r, f, g, b)'
<1>0. /\ db \in [Proc -> Handle] /\ db[p] \in Handle /\ pc \in [Proc -> PC]
      /\ call \in [Proc -> Calls \cup {NoCall}]
  BY DEF IFormat, IType, TypeOK
<1>c. PICK c : c = chainoff(call[p].key)
  OBVIOUS
<1>1. pc[p] = "head" /\ call[p].key \in Key /\ c \in 1 .. NHASH
  BY <1>c, OneWriter DEF ReadHead, ChainPC, FindPC
<1>2. AtChain(p, c, m[c], r) /\ ChainOK(c, m, r)
  BY <1>c, <1>1 DEF ListsOK, PlacesOK, PlaceOK, ChainsOK
<1>3. db[p].ptroff = c
  BY <1>1, <1>2 DEF AtChain
<1>4. /\ db'[p].offset = ptr[c] /\ db'[p].ptroff = c /\ Others(p) /\ call' = call
      /\ UNCHANGED files /\ crashes' = crashes
      /\ ptr[c] = 0 => pc'[p] \in {"st_head", "unlock"}
      /\ ptr[c] # 0 => pc'[p] = "hdr"
  BY <1>0, <1>3 DEF ReadHead, NotFound, Goto, Others, Handle
<1>5. PlaceOK(p, m, r, f)'
  <2>1. AtFree(p, f)' /\ Holding(p, m, f)'
    BY <1>4 DEF AtFree, Holding, UnlinkPC, TakenPC, LinkPC
  <2>2. CASE ptr[c] = 0
    <3>1. m[c] = {}
      BY <1>2, <2>2 DEF ChainOK, IsList
    <3>2. AtChain(p, c, m[c], r)'
      BY <1>4, <2>2, <3>1 DEF AtChain, FoundPC, PredPC, UnlinkPC, HeadPC, LinkPC, StorePC, FreePC
    <3> QED BY <1>c, <1>4, <2>1, <3>2 DEF PlaceOK
  <2>3. CASE ptr[c] # 0
    <3>1. ptr[c] \in m[c] /\ \A u \in m[c] : r[u] <= r[ptr[c]]
      BY <1>2, <2>3 DEF ChainOK, IsList
    <3>2. AtChain(p, c, m[c], r)'
      BY <1>4, <2>3, <3>1 DEF AtChain, FoundPC, PredPC, UnlinkPC, AbsentPC, HeadPC, LinkPC, StorePC, FreePC, files
    <3> QED BY <1>c, <1>4, <2>1, <3>2 DEF PlaceOK
  <2> QED BY <2>2, <2>3
<1> QED BY <1>1, <1>4, <1>5, ReadLists DEF UnlinkPC, TakenPC

LEMMA ReadHdrLists ==
  ASSUME IFormat, IFormat', IExcl, IExcl', NEW p \in Proc, ReadHdr(p),
         NEW m, NEW r, NEW f, NEW g, NEW b, ListsOK(m, r, f, g, b)
  PROVE  ListsOK(m, r, f, g, b)'
<1>0. /\ db \in [Proc -> Handle] /\ db[p] \in Handle /\ pc \in [Proc -> PC]
      /\ call \in [Proc -> Calls \cup {NoCall}] /\ pc'[p] # "dump"
  BY DEF IFormat, IType, TypeOK, HandlesOK, HandleOK
<1>c. PICK c : c = chainoff(call[p].key)
  OBVIOUS
<1>1. /\ db'[p].offset = db[p].offset /\ db'[p].ptroff = db[p].ptroff
      /\ db'[p].saveoff = db[p].saveoff /\ db'[p].hptr = db[p].hptr
      /\ db'[p].idxoff = db[p].offset /\ db'[p].ptrval = ptr[db[p].offset]
      /\ Others(p) /\ call' = call /\ UNCHANGED files /\ crashes' = crashes
      /\ \/ pc[p] = "hdr" /\ pc'[p] = "body"
         \/ pc[p] = "ff_hdr" /\ pc'[p] = "ff_body"
  BY <1>0 DEF ReadHdr, Gone, Goto, Others, Handle
<1>2. PlaceOK(p, m, r, f)
  BY DEF ListsOK, PlacesOK
<1>3. ASSUME call[p].key \in Key PROVE AtChain(p, c, m[c], r)'
  <2>1. AtChain(p, c, m[c], r)
    BY <1>c, <1>2, <1>3 DEF PlaceOK
  <2> QED BY <1>1, <2>1 DEF AtChain, FoundPC, PredPC, UnlinkPC, AbsentPC,
         HeadPC, LinkPC, StorePC, FreePC, files
<1>4. AtFree(p, f)' /\ Holding(p, m, f)'
  BY <1>1, <1>2 DEF PlaceOK, AtFree, Holding, UnlinkPC, TakenPC, LinkPC, files
<1>5. PlaceOK(p, m, r, f)'
  BY <1>c, <1>1, <1>3, <1>4 DEF PlaceOK
<1> QED BY <1>1, <1>5, ReadLists DEF UnlinkPC, TakenPC

LEMMA ReadBodyLists ==
  ASSUME IFormat, IExcl, IExcl', NEW p \in Proc, ReadBody(p),
         NEW m, NEW r, NEW f, NEW g, NEW b, ListsOK(m, r, f, g, b)
  PROVE  ListsOK(m, r, f, g, b)'
<1>0. /\ db \in [Proc -> Handle] /\ db[p] \in Handle /\ pc \in [Proc -> PC]
      /\ call \in [Proc -> Calls \cup {NoCall}]
  BY DEF IFormat, IType, TypeOK
<1>c. PICK c : c = chainoff(call[p].key)
  OBVIOUS
<1>1. pc[p] = "body" /\ call[p].key \in Key /\ c \in 1 .. NHASH
      /\ pc[p] \in ChainPC \ UnlinkPC
  BY <1>c, OneWriter DEF ReadBody, ChainPC, FindPC, UnlinkPC
<1>2. AtChain(p, c, m[c], r) /\ ChainOK(c, m, r)
  BY <1>c, <1>1 DEF ListsOK, PlacesOK, PlaceOK, ChainsOK
<1> DEFINE o == db[p].offset
<1>3. /\ o \in m[c] /\ db[p].ptroff \in m[c] \cup {c} /\ ptr[db[p].ptroff] = o
      /\ \A u \in m[c] : rec[u].key = call[p].key => r[u] <= r[o]
      /\ db[p].idxoff = o /\ db[p].ptrval = ptr[o]
  BY <1>1, <1>2 DEF AtChain
<1>4. Nxt[o] = ptr[o] /\ o \in RecOff
  BY <1>c, <1>1, <1>3, ChainSteady
<1>5. /\ Others(p) /\ call' = call /\ UNCHANGED files /\ crashes' = crashes
      /\ db'[p].idxoff = o /\ db'[p].ptrval = ptr[o]
      /\ rec[o].key = call[p].key =>
           /\ pc'[p] \in {"dat", "del_lock", "unlock", "rw_dat"}
           /\ db'[p].ptroff = db[p].ptroff
      /\ rec[o].key # call[p].key =>
           /\ db'[p].ptroff = o /\ db'[p].offset = ptr[o]
           /\ pc'[p] \in {"st_head", "unlock", "hdr"}
           /\ pc'[p] = "hdr" <=> ptr[o] # 0
  <2> DEFINE h == BodyOf(db[p])
  <2>1. /\ RecLen(h.idxoff) = h.idxlen /\ h \in Handle
    BY <1>1, BodyReads DEF HasHdr
  <2>2. /\ h.key = rec[o].key /\ h.idxoff = o /\ h.ptrval = ptr[o]
        /\ h.offset = o /\ h.ptroff = db[p].ptroff
    BY <1>0, <1>3 DEF BodyOf, Handle
  <2>3. /\ IF h.key = call[p].key
           THEN db' = [db EXCEPT ![p] = h] /\ Found(p, h.datlen)
           ELSE /\ db' = [db EXCEPT ![p] = [h EXCEPT !.ptroff = h.offset,
                                        !.offset = h.ptrval]]
                /\ IF h.ptrval = 0 THEN NotFound(p)
                   ELSE Goto(p, "hdr") /\ UNCHANGED ret
      /\ UNCHANGED <<files, locks, call, crashes>>
    BY <2>1 DEF ReadBody
  <2> HIDE DEF h
  <2>4. CASE h.key = call[p].key
    BY <1>0, <2>2, <2>3, <2>4 DEF Found, Goto, Others
  <2>5. CASE h.key # call[p].key
    <3> DEFINE k == [h EXCEPT !.ptroff = h.offset, !.offset = h.ptrval]
    <3>1. k.idxoff = o /\ k.ptrval = ptr[o] /\ k.ptroff = o /\ k.offset = ptr[o]
      BY <2>1, <2>2 DEF Handle
    <3>2. db' = [db EXCEPT ![p] = k]
      BY <2>3, <2>5
    <3> HIDE DEF k
    <3> QED BY <1>0, <2>2, <2>3, <2>5, <3>1, <3>2 DEF NotFound, Goto, Others
  <2> QED BY <2>2, <2>4, <2>5
<1> HIDE DEF o
<1>6. AtFree(p, f)' /\ Holding(p, m, f)'
  BY <1>5 DEF AtFree, Holding, UnlinkPC, TakenPC, LinkPC
<1>7. AtChain(p, c, m[c], r)'
  <2>1. CASE rec[o].key = call[p].key
    <3>1. db[p].ptroff # o
      <4>1. CASE db[p].ptroff = c
        BY <1>1, <1>4, <4>1, DbConst DEF RecOff, FirstRec
      <4>2. CASE db[p].ptroff \in m[c]
        <5>1. Nxt[db[p].ptroff] = o /\ o # 0
          BY <1>c, <1>1, <1>3, <1>4, <4>2, ChainSteady, Layout
        <5>2. r[o] < r[db[p].ptroff] /\ r[o] \in Int
          BY <1>1, <1>2, <1>3, <4>2, <5>1 DEF ChainOK, IsList, ListsOK, Witness
        <5> QED BY <5>2
      <4> QED BY <1>3, <4>1, <4>2
    <3> QED BY <1>3, <1>5, <2>1, <3>1 DEF AtChain, FoundPC, PredPC, UnlinkPC, AbsentPC,
         HeadPC, LinkPC, StorePC, FreePC, files
  <2>2. CASE rec[o].key # call[p].key /\ ptr[o] = 0
    <3>1. \A u \in m[c] : r[o] <= r[u] /\ (r[u] = r[o] => u = o)
      BY <1>2, <1>3, <1>4, <2>2 DEF ChainOK, IsList
    <3>2. \A u \in m[c] : r[u] \in Int
      BY <1>1 DEF ListsOK, Witness
    <3>3. \A u \in m[c] : rec[u].key # call[p].key
      BY <1>3, <2>2, <3>1, <3>2
    <3> QED BY <1>5, <2>2, <3>3 DEF AtChain, FoundPC, PredPC, UnlinkPC,
         HeadPC, LinkPC, StorePC, FreePC, files
  <2>3. CASE rec[o].key # call[p].key /\ ptr[o] # 0
    <3>1. /\ ptr[o] \in m[c]
          /\ \A u \in m[c] : (r[u] < r[o] => r[u] <= r[ptr[o]]) /\ (r[u] = r[o] => u = o)
      BY <1>2, <1>3, <1>4, <2>3 DEF ChainOK, IsList
    <3>2. \A u \in m[c] : r[u] \in Int
      BY <1>1 DEF ListsOK, Witness
    <3>3. \A u \in m[c] : rec[u].key = call[p].key => r[u] <= r[ptr[o]]
      BY <1>3, <2>3, <3>1, <3>2
    <3> QED BY <1>3, <1>5, <2>3, <3>1, <3>3 DEF AtChain, FoundPC, PredPC, UnlinkPC,
         AbsentPC, HeadPC, LinkPC, StorePC, FreePC, files
  <2> QED BY <2>1, <2>2, <2>3
<1>8. PlaceOK(p, m, r, f)'
  BY <1>c, <1>5, <1>6, <1>7 DEF PlaceOK
<1>9. pc'[p] \notin UnlinkPC /\ pc'[p] \notin TakenPC
  BY <1>5 DEF UnlinkPC, TakenPC
<1> QED BY <1>1, <1>5, <1>8, <1>9, ReadLists

LEMMA DelFreeLists ==
  ASSUME IFormat, IExcl, IExcl', NEW p \in Proc, DelFree(p) \/ StoreHead(p),
         NEW m, NEW r, NEW f, NEW g, NEW b, ListsOK(m, r, f, g, b)
  PROVE  ListsOK(m, r, f, g, b)'
<1>0. /\ db \in [Proc -> Handle] /\ db[p] \in Handle /\ pc \in [Proc -> PC]
      /\ call \in [Proc -> Calls \cup {NoCall}]
  BY DEF IFormat, IType, TypeOK
<1>c. PICK c : c = chainoff(call[p].key)
  OBVIOUS
<1>1. /\ db'[p].offset = db[p].offset /\ db'[p].ptroff = db[p].ptroff
      /\ db'[p].idxoff = db[p].idxoff /\ db'[p].ptrval = db[p].ptrval
      /\ db'[p].saveoff = db[p].saveoff
      /\ Others(p) /\ call' = call /\ UNCHANGED files /\ crashes' = crashes
      /\ \/ pc[p] = "del_free" /\ pc'[p] = "del_idx" /\ db'[p].freeptr = ptr[FREE_OFF]
         \/ /\ \/ pc[p] = "st_head" /\ pc'[p] = "ff_lock"
               \/ pc[p] = "re_head" /\ pc'[p] = "ap_dlock"
            /\ db'[p].hptr = ptr[c]
  BY <1>0, <1>c DEF DelFree, StoreHead, Goto, Others, Handle
<1>2. PlaceOK(p, m, r, f)
  BY DEF ListsOK, PlacesOK
<1>3. ASSUME call[p].key \in Key PROVE AtChain(p, c, m[c], r)'
  <2>1. AtChain(p, c, m[c], r)
    BY <1>c, <1>2, <1>3 DEF PlaceOK
  <2> QED BY <1>1, <2>1 DEF AtChain, FoundPC, PredPC, UnlinkPC, AbsentPC,
         HeadPC, LinkPC, StorePC, FreePC, files
<1>4. AtFree(p, f)' /\ Holding(p, m, f)'
  BY <1>1, <1>2 DEF PlaceOK, AtFree, Holding, UnlinkPC, TakenPC, LinkPC, files
<1>5. PlaceOK(p, m, r, f)'
  BY <1>c, <1>1, <1>3, <1>4 DEF PlaceOK
<1> QED BY <1>1, <1>5, ReadLists DEF UnlinkPC, TakenPC

LEMMA FreeHeadLists ==
  ASSUME IFormat, IExcl, IExcl', NEW p \in Proc, FreeHead(p),
         NEW m, NEW r, NEW f, NEW g, NEW b, ListsOK(m, r, f, g, b)
  PROVE  ListsOK(m, r, f, g, b)'
<1>0. /\ db \in [Proc -> Handle] /\ db[p] \in Handle /\ pc \in [Proc -> PC]
      /\ call \in [Proc -> Calls \cup {NoCall}]
  BY DEF IFormat, IType, TypeOK
<1>c. PICK c : c = chainoff(call[p].key)
  OBVIOUS
<1>1. /\ db'[p].hptr = db[p].hptr /\ db'[p].offset = ptr[FREE_OFF]
      /\ db'[p].saveoff = FREE_OFF /\ pc[p] = "ff_head"
      /\ Others(p) /\ call' = call /\ UNCHANGED files /\ crashes' = crashes
      /\ \/ pc'[p] = "ff_miss"
         \/ pc'[p] = "ff_hdr" /\ ptr[FREE_OFF] # 0
  BY <1>0 DEF FreeHead, Goto, Others, Handle
<1>2. PlaceOK(p, m, r, f) /\ FreeOK(f, g)
  BY DEF ListsOK, PlacesOK
<1>3. ASSUME call[p].key \in Key PROVE AtChain(p, c, m[c], r)'
  <2>1. AtChain(p, c, m[c], r)
    BY <1>c, <1>2, <1>3 DEF PlaceOK
  <2> QED BY <1>1, <2>1 DEF AtChain, FoundPC, PredPC, UnlinkPC, AbsentPC,
         HeadPC, LinkPC, StorePC, FreePC, files
<1>4. AtFree(p, f)' /\ Holding(p, m, f)'
  <2>1. ptr[FREE_OFF] # 0 => ptr[FREE_OFF] \in f
    BY <1>2 DEF FreeOK, IsList
  <2> QED BY <1>1, <2>1 DEF AtFree, Holding, UnlinkPC, TakenPC, LinkPC, files
<1>5. PlaceOK(p, m, r, f)'
  BY <1>c, <1>1, <1>3, <1>4 DEF PlaceOK
<1> QED BY <1>1, <1>5, ReadLists DEF UnlinkPC, TakenPC

LEMMA FreeBodyLists ==
  ASSUME IFormat, IExcl, IExcl', NEW p \in Proc, FreeBody(p),
         NEW m, NEW r, NEW f, NEW g, NEW b, ListsOK(m, r, f, g, b)
  PROVE  ListsOK(m, r, f, g, b)'
<1>0. /\ db \in [Proc -> Handle] /\ db[p] \in Handle /\ pc \in [Proc -> PC]
      /\ call \in [Proc -> Calls \cup {NoCall}] /\ pc[p] = "ff_body"
  BY DEF IFormat, IType, TypeOK, FreeBody
<1>c. PICK c : c = chainoff(call[p].key)
  OBVIOUS
<1>2. PlaceOK(p, m, r, f) /\ FreeOK(f, g)
  BY DEF ListsOK, PlacesOK
<1> DEFINE o == db[p].offset
<1>3. /\ o \in f /\ db[p].saveoff \in f \cup {FREE_OFF} /\ ptr[db[p].saveoff] = o
      /\ db[p].idxoff = o /\ db[p].ptrval = ptr[o]
  BY <1>0, <1>2 DEF PlaceOK, AtFree
<1>4. ptr[o] # 0 => ptr[o] \in f
  BY <1>2, <1>3 DEF FreeOK, IsList
<1>5. /\ Others(p) /\ call' = call /\ UNCHANGED files /\ crashes' = crashes
      /\ db'[p].idxoff = o /\ db'[p].ptrval = ptr[o] /\ db'[p].hptr = db[p].hptr
      /\ \/ /\ pc'[p] = "ff_take" /\ db'[p].offset = o
            /\ db'[p].saveoff = db[p].saveoff
         \/ pc'[p] = "ff_miss"
         \/ /\ pc'[p] = "ff_hdr" /\ ptr[o] # 0 /\ db'[p].offset = ptr[o]
            /\ db'[p].saveoff = o
  <2> DEFINE h == BodyOf(db[p])
             k == [h EXCEPT !.saveoff = h.offset, !.offset = h.ptrval]
             fits == Fits(h, call[p])
  <2>1. /\ RecLen(h.idxoff) = h.idxlen /\ h \in Handle
    BY <1>0, BodyReads DEF HasHdr
  <2>2. /\ h.idxoff = o /\ h.ptrval = ptr[o] /\ h.hptr = db[p].hptr
        /\ h.offset = o /\ h.saveoff = db[p].saveoff
    BY <1>0, <1>3 DEF BodyOf, Handle
  <2>3. /\ db' = [db EXCEPT ![p] = IF fits THEN h ELSE k]
        /\ Goto(p, IF fits THEN "ff_take"
                   ELSE IF h.ptrval = 0 THEN "ff_miss" ELSE "ff_hdr")
        /\ UNCHANGED <<files, locks, call, pos, ret, crashes>>
    BY <2>1 DEF FreeBody
  <2>4. /\ k.idxoff = o /\ k.ptrval = ptr[o] /\ k.hptr = db[p].hptr
        /\ k.offset = ptr[o] /\ k.saveoff = o
    BY <2>1, <2>2 DEF Handle
  <2> HIDE DEF h, k, fits
  <2> QED BY <1>0, <2>2, <2>3, <2>4 DEF Goto, Others
<1> HIDE DEF o
<1>6. ASSUME call[p].key \in Key PROVE AtChain(p, c, m[c], r)'
  <2>1. AtChain(p, c, m[c], r)
    BY <1>c, <1>2, <1>6 DEF PlaceOK
  <2> QED BY <1>0, <1>5, <2>1 DEF AtChain, FoundPC, PredPC, UnlinkPC, AbsentPC,
         HeadPC, LinkPC, StorePC, FreePC, files
<1>7. AtFree(p, f)' /\ Holding(p, m, f)'
  BY <1>3, <1>4, <1>5 DEF AtFree, Holding, UnlinkPC, TakenPC, LinkPC, files
<1>8. PlaceOK(p, m, r, f)'
  BY <1>c, <1>5, <1>6, <1>7 DEF PlaceOK
<1> QED BY <1>0, <1>5, <1>8, ReadLists DEF UnlinkPC, TakenPC

-----------------------------------------------------------------------------
(* Steps that change a list or an index record.                            *)

\* A writer of the chain c touches no other process's chain, and the free
\* list only if it has locked it.
LEMMA OthersStay ==
  ASSUME IExcl, NEW p \in Proc, Others(p), NEW m, NEW r, NEW f, PlacesOK(m, r, f),
         NEW m2, NEW r2, NEW f2, pc[p] \in DelPC \cup FreePC \cup StorePC,
         NEW c, c = chainoff(call[p].key),
         \A d \in 1 .. NHASH : d # c =>
           /\ m2[d] = m[d] /\ ptr'[d] = ptr[d]
           /\ \A u \in m[d] : /\ rec'[u].key = rec[u].key /\ r2[u] = r[u]
                              /\ ptr'[u] = ptr[u],
         \/ pc[p] \in ListPC
         \/ /\ f2 = f /\ ptr'[FREE_OFF] = ptr[FREE_OFF]
            /\ \A u \in f : ptr'[u] = ptr[u],
         \A q \in Proc \ {p} : pc[q] \in TakenPC \cup LinkPC =>
           /\ rec'[db[q].idxoff].key = rec[db[q].idxoff].key
           /\ ptr'[db[q].idxoff] = ptr[db[q].idxoff]
           /\ \A d \in 1 .. NHASH : db[q].idxoff \notin m2[d],
         \A q \in Proc \ {p} : pc[q] \in TakenPC => db[q].idxoff \notin f2
  PROVE  \A q \in Proc \ {p} : PlaceOK(q, m2, r2, f2)'
<1> SUFFICES ASSUME NEW q \in Proc \ {p} PROVE PlaceOK(q, m2, r2, f2)'
  OBVIOUS
<1>1. PlaceOK(q, m, r, f)
  BY DEF PlacesOK
<1>2. pc'[q] = pc[q] /\ call'[q] = call[q] /\ db'[q] = db[q]
  BY DEF Others
<1>d. PICK d : d = chainoff(call[q].key)
  OBVIOUS
<1>3. pc[q] \in ChainPC => d \in 1 .. NHASH /\ d # c
  BY <1>d, OneWriter
<1>4. pc[q] \in ChainPC => /\ m2[d] = m[d] /\ ptr'[d] = ptr[d]
           /\ \A u \in m[d] : /\ rec'[u].key = rec[u].key /\ r2[u] = r[u]
                              /\ ptr'[u] = ptr[u]
  BY <1>3
<1>5. pc[q] \in ListPC => pc[p] \notin ListPC
  BY OneWriter
<1> QED BY <1>1, <1>2, <1>4, <1>5, <1>d, PlaceFrame

\* A chain is foreign to a process that is not in it: no record of it is
\* being unlinked there.
LEMMA Foreign ==
  ASSUME IExcl, NEW m, NEW r, NEW f, NEW g, NEW b, ListsOK(m, r, f, g, b),
         NEW c \in 1 .. NHASH, NEW d \in 1 .. NHASH, c # d
  PROVE  \A s \in m[c] : s \notin m[d]
<1> SUFFICES ASSUME NEW s \in m[c], s \in m[d] PROVE FALSE
  OBVIOUS
<1>1. ChainOK(c, m, r) /\ ChainOK(d, m, r) /\ s \in Off
  BY Layout DEF ListsOK, ChainsOK, Witness
<1>2. CASE rec[s].key # Blank
  BY <1>1, <1>2 DEF ChainOK
<1>3. CASE rec[s].key = Blank
  <2>1. PICK p \in Proc : Unlinking(p, s) /\ chainoff(call[p].key) = c
    BY <1>1, <1>3 DEF ChainOK
  <2>2. PICK q \in Proc : Unlinking(q, s) /\ chainoff(call[q].key) = d
    BY <1>1, <1>3 DEF ChainOK
  <2>3. p = q
    BY <2>1, <2>2, OneWriter DEF Unlinking, ListPC, DelPC
  <2> QED BY <2>1, <2>2, <2>3
<1> QED BY <1>2, <1>3

LEMMA DelIdxLists ==
  ASSUME IFormat, IExcl, IExcl', NEW p \in Proc, DelIdx(p),
         NEW m, NEW r, NEW f, NEW g, NEW b, ListsOK(m, r, f, g, b)
  PROVE  ListsOK(m, r, f, g, b)'
<1>0. /\ db \in [Proc -> Handle] /\ db[p] \in Handle /\ pc \in [Proc -> PC]
      /\ rec \in [RecOff -> Slot] /\ ptr \in [Off -> Off] /\ pc[p] = "del_idx"
  BY DEF IFormat, IType, TypeOK, DelIdx
<1>w. /\ Witness(m, r, f, g, b) /\ ChainsOK(m, r) /\ FreeOK(f, g)
      /\ PlacesOK(m, r, f) /\ Apart /\ Complete(m, f)
  BY DEF ListsOK
<1>c. PICK c : c = chainoff(call[p].key)
  OBVIOUS
<1>x. PICK x : x = db[p].idxoff
  OBVIOUS
<1>y. PICK y : y = db[p].ptroff
  OBVIOUS
<1>1. /\ call[p].key \in Key /\ c \in 1 .. NHASH /\ pc[p] \in ListPC
      /\ pc[p] \in ChainPC \ UnlinkPC /\ call[p].key # Blank
  BY <1>0, <1>c, OneWriter, DbConst DEF ChainPC, ListPC, DelPC, UnlinkPC
<1>2. AtChain(p, c, m[c], r) /\ ChainOK(c, m, r) /\ AtFree(p, f)
  BY <1>c, <1>1, <1>w DEF PlacesOK, PlaceOK, ChainsOK
<1>3. /\ x \in m[c] /\ rec[x].key = call[p].key /\ y \in m[c] \cup {c}
      /\ ptr[y] = x /\ y # x /\ db[p].ptrval = ptr[x]
      /\ db[p].freeptr = ptr[FREE_OFF]
  BY <1>0, <1>2, <1>x, <1>y DEF AtChain, AtFree, FoundPC, PredPC, UnlinkPC
<1>4. x \in RecOff /\ x \in Off /\ x # FREE_OFF /\ x \notin f /\ Nxt[x] = ptr[x]
      /\ \A d \in 1 .. NHASH : d # x
  BY <1>c, <1>1, <1>3, ChainSteady, Layout, DbConst DEF FREE_OFF, RecOff, FirstRec
<1>5. /\ ptr' = [ptr EXCEPT ![x] = ptr[FREE_OFF]]
      /\ rec'[x].key = Blank /\ \A s \in RecOff : s # x => rec'[s] = rec[s]
      /\ Others(p) /\ call' = call /\ db' = db /\ crashes' = crashes
      /\ pc'[p] = "del_head" /\ idxEnd' = idxEnd
  BY <1>0, <1>3, <1>4, <1>x DEF DelIdx, Goto, Others
<1>6. /\ \A o \in Off : o # x => ptr'[o] = ptr[o]
      /\ ptr'[x] = ptr[FREE_OFF] /\ ptr'[FREE_OFF] = ptr[FREE_OFF]
      /\ \A d \in 1 .. NHASH : ptr'[d] = ptr[d] /\ d \in Off
      /\ Allocated' = Allocated
  <2>1. \A d \in 1 .. NHASH : d \in Off
    BY DbConst DEF Off
  <2> QED BY <1>0, <1>4, <1>5, <2>1, Layout DEF Allocated
<1>7. /\ \A q \in Proc, s \in Off : ~Unlinking(q, s)
      /\ \A q \in Proc, s \in Off : Unlinking(q, s)' <=> q = p /\ s = x
  <2>1. \A q \in Proc : pc[q] \in UnlinkPC => q = p
    BY <1>1, OneWriter DEF UnlinkPC, ListPC, DelPC
  <2>2. \A q \in Proc : pc'[q] \in UnlinkPC => q = p
    BY <1>5, <2>1 DEF Others
  <2> QED BY <1>0, <1>5, <1>x, <2>1, <2>2 DEF Unlinking, UnlinkPC
<1>8. \A s \in Off : Nxt'[s] = Nxt[s]
  <2> SUFFICES ASSUME NEW s \in Off PROVE Nxt'[s] = Nxt[s]
    OBVIOUS
  <2>1. Nxt[s] = ptr[s]
    BY <1>7, SuccIs
  <2>2. s = x => Nxt'[s] = db'[p].ptrval
    BY <1>7, SuccIsNext
  <2>3. s # x => Nxt'[s] = ptr'[s]
    BY <1>7, SuccIsNext
  <2> QED BY <1>3, <1>5, <1>6, <2>1, <2>2, <2>3
<1>9. ChainsOK(m, r)'
  <2> SUFFICES ASSUME NEW d \in 1 .. NHASH PROVE ChainOK(d, m, r)'
    BY DEF ChainsOK
  <2>0. ChainOK(d, m, r) /\ m[d] \subseteq RecOff /\ m[d] \subseteq Off
    BY <1>w, Layout DEF ChainsOK, Witness
  <2>1. CASE d # c
    <3>1. \A u \in m[d] : u # x
      BY <1>1, <1>3, <2>1, Foreign
    <3>2. \A u \in m[d] : rec'[u].key = rec[u].key /\ r[u] = r[u] /\ Nxt'[u] = Nxt[u]
      BY <1>5, <1>8, <2>0, <3>1
    <3>3. \A u \in m[d], q \in Proc : ~Unlinking(q, u)
      BY <1>7, <2>0
    <3> QED BY <1>6, <2>0, <3>2, <3>3, ChainFrame
  <2>2. CASE d = c
    <3>1. IsList(ptr'[c], Nxt', m[c], r)
      BY <1>2, <1>6, <1>8, <2>0, <2>2, ListFrame DEF ChainOK
    <3>2. ASSUME NEW s \in m[c]
          PROVE  /\ s \in Allocated' /\ s <= PTR_MAX
                 /\ rec'[s].key # Blank => chainoff(rec'[s].key) = c
                 /\ rec'[s].key = Blank =>
                     \E q \in Proc : Unlinking(q, s)' /\ chainoff(call'[q].key) = c
      <4>1. CASE s = x
        BY <1>2, <1>3, <1>4, <1>5, <1>6, <1>7, <1>c, <4>1 DEF ChainOK
      <4>2. CASE s # x
        BY <1>2, <1>5, <1>6, <1>7, <2>0, <2>2, <4>2 DEF ChainOK
      <4> QED BY <4>1, <4>2
    <3>3. \A s, t \in m[c] :
            rec'[s].key = rec'[t].key /\ rec'[s].key # Blank => s = t
      BY <1>2, <1>5, <2>0, <2>2 DEF ChainOK
    <3> QED BY <2>2, <3>1, <3>2, <3>3 DEF ChainOK
  <2> QED BY <2>1, <2>2
<1>10. FreeOK(f, g)'
  <2>0. f \subseteq RecOff /\ f \subseteq Off
    BY <1>w, Layout DEF Witness
  <2>1. \A u \in f : ptr'[u] = ptr[u] /\ g[u] = g[u]
    BY <1>4, <1>6, <2>0
  <2>2. IsList(ptr'[FREE_OFF], ptr', f, g)
    BY <1>w, <1>6, <2>1, ListFrame DEF FreeOK
  <2> QED BY <1>w, <1>4, <1>5, <1>6, <2>0, <2>2 DEF FreeOK
<1>11. \A q \in Proc \ {p} : PlaceOK(q, m, r, f)'
  <2>1. \A d \in 1 .. NHASH : d # c =>
           /\ m[d] = m[d] /\ ptr'[d] = ptr[d]
           /\ \A u \in m[d] : /\ rec'[u].key = rec[u].key /\ r[u] = r[u]
                              /\ ptr'[u] = ptr[u]
    <3> SUFFICES ASSUME NEW d \in 1 .. NHASH, d # c, NEW u \in m[d]
                 PROVE  rec'[u].key = rec[u].key /\ ptr'[u] = ptr[u]
      BY <1>6
    <3>1. u # x /\ u \in RecOff /\ u \in Off
      BY <1>1, <1>3, <1>w, Foreign, Layout DEF Witness
    <3> QED BY <1>5, <1>6, <3>1
  <2>2. \A q \in Proc \ {p} : pc[q] \in TakenPC \cup LinkPC =>
           /\ rec'[db[q].idxoff].key = rec[db[q].idxoff].key
           /\ ptr'[db[q].idxoff] = ptr[db[q].idxoff]
           /\ \A d \in 1 .. NHASH : db[q].idxoff \notin m[d]
    <3> SUFFICES ASSUME NEW q \in Proc \ {p}, pc[q] \in TakenPC \cup LinkPC
                 PROVE  /\ rec'[db[q].idxoff].key = rec[db[q].idxoff].key
                        /\ ptr'[db[q].idxoff] = ptr[db[q].idxoff]
                        /\ \A d \in 1 .. NHASH : db[q].idxoff \notin m[d]
      OBVIOUS
    <3>1. \A d \in 1 .. NHASH : db[q].idxoff \notin m[d]
      BY <1>w DEF PlacesOK, PlaceOK, Holding
    <3>2. db[q].idxoff # x
      BY <1>1, <1>3, <3>1
    <3>3. db[q].idxoff \in Allocated
      BY DEF IFormat, HandlesOK, HandleOK, TakenPC, LinkPC, HasBody
    <3>4. db[q].idxoff \in RecOff /\ db[q].idxoff \in Off
      BY <3>3, Layout DEF Allocated
    <3> QED BY <1>5, <1>6, <3>1, <3>2, <3>4
  <2>3. \A q \in Proc \ {p} : pc[q] \in TakenPC => db[q].idxoff \notin f
    BY <1>w DEF PlacesOK, PlaceOK, Holding
  <2> QED BY <1>0, <1>1, <1>5, <1>c, <1>w, <2>1, <2>2, <2>3, OthersStay DEF DelPC
<1>12. PlaceOK(p, m, r, f)'
  <2>1. AtChain(p, c, m[c], r)'
    <3>1. \A u \in m[c] : rec'[u].key # call[p].key
      <4>1. m[c] \subseteq RecOff
        BY <1>1, <1>w DEF Witness
      <4> QED BY <1>1, <1>2, <1>3, <1>5, <4>1 DEF ChainOK
    <3>2. ptr'[y] = x
      <4>1. y \in Off
        BY <1>1, <1>3, <1>6, <1>w, Layout DEF Witness
      <4> QED BY <1>3, <1>6, <4>1
    <3> QED BY <1>3, <1>5, <1>x, <1>y, <3>1, <3>2 DEF AtChain, FoundPC, PredPC,
         UnlinkPC, HeadPC, LinkPC, StorePC, FreePC
  <2>2. AtFree(p, f)' /\ Holding(p, m, f)'
    BY <1>4, <1>5, <1>6, <1>x DEF AtFree, Holding, UnlinkPC, TakenPC, LinkPC
  <2> QED BY <1>5, <1>c, <2>1, <2>2 DEF PlaceOK
<1>13. Apart'
  BY <1>w, <1>0, <1>5 DEF Apart, Others, TakenPC
<1>14. Complete(m, f)'
  <2> SUFFICES ASSUME crashes = 0, NEW s \in Allocated
               PROVE  /\ rec'[s].key # Blank /\ s <= PTR_MAX =>
                         \/ s \in m[chainoff(rec'[s].key)]
                         \/ \E q \in Proc : pc'[q] \in LinkPC /\ db'[q].idxoff = s
                      /\ rec'[s].key = Blank =>
                         \/ s \in f
                         \/ \E q \in Proc : pc'[q] \in TakenPC \cup {"del_head"} /\ db'[q].idxoff = s
    BY <1>5, <1>6 DEF Complete
  <2>1. CASE s = x
    BY <1>5, <1>x, <2>1
  <2>2. CASE s # x
    <3>1. rec'[s] = rec[s]
      BY <1>5, <2>2 DEF Allocated
    <3>2. ASSUME NEW q \in Proc, pc[q] \in LinkPC \/ pc[q] \in TakenPC \cup {"del_head"}
          PROVE  pc'[q] = pc[q] /\ db'[q] = db[q]
      BY <1>0, <1>5, <3>2 DEF Others, LinkPC, TakenPC
    <3> QED BY <1>w, <3>1, <3>2 DEF Complete
  <2> QED BY <2>1, <2>2
<1> QED BY <1>w, <1>9, <1>10, <1>11, <1>12, <1>13, <1>14 DEF ListsOK, PlacesOK

\* The record in the hands of another process lies on no list.
LEMMA OthersHold ==
  ASSUME IFormat, NEW m, NEW r, NEW f, PlacesOK(m, r, f), NEW q \in Proc,
         pc[q] \in TakenPC \cup LinkPC
  PROVE  /\ db[q].idxoff \in Allocated /\ db[q].idxoff \in RecOff /\ db[q].idxoff \in Off
         /\ \A d \in 1 .. NHASH : db[q].idxoff \notin m[d]
         /\ pc[q] \in TakenPC => db[q].idxoff \notin f /\ rec[db[q].idxoff].key = Blank
         /\ pc[q] \in LinkPC /\ call[q].key \in Key => rec[db[q].idxoff].key = call[q].key
<1>1. db[q].idxoff \in Allocated
  BY DEF IFormat, HandlesOK, HandleOK, TakenPC, LinkPC, HasBody
<1>2. db[q].idxoff \in RecOff /\ db[q].idxoff \in Off
  BY <1>1, Layout DEF Allocated
<1>3. PlaceOK(q, m, r, f)
  BY DEF PlacesOK
<1> QED BY <1>1, <1>2, <1>3 DEF PlaceOK, Holding, AtChain

\* Records, chain pointers and the free-list pointer do not overlap.
LEMMA Offsets ==
  /\ FREE_OFF \in Off /\ 0 \notin RecOff
  /\ \A o \in RecOff : o \in Off /\ o # FREE_OFF
  /\ \A d \in 1 .. NHASH : d \in Off /\ d # FREE_OFF /\ d \notin RecOff
<1>1. \A d \in 1 .. NHASH : d \in Off /\ d # FREE_OFF
  BY DbConst DEF Off, FREE_OFF
<1>2. \A d \in 1 .. NHASH : d \notin RecOff
  BY DbConst DEF RecOff, FirstRec
<1>3. \A o \in RecOff : o \in Off /\ o # FREE_OFF /\ o # 0
  BY DbConst DEF Off, RecOff, FirstRec, FREE_OFF
<1> QED BY <1>1, <1>2, <1>3, DbConst DEF Off, FREE_OFF

\* Complete, one record at a time.
LEMMA CompleteNext ==
  ASSUME NEW m, NEW f,
         crashes' = 0 => \A s \in Allocated' :
           /\ rec'[s].key # Blank /\ s <= PTR_MAX =>
                \/ s \in m[chainoff(rec'[s].key)]
                \/ \E q \in Proc : pc'[q] \in LinkPC /\ db'[q].idxoff = s
           /\ rec'[s].key = Blank =>
                \/ s \in f
                \/ \E q \in Proc : pc'[q] \in TakenPC \cup {"del_head"} /\ db'[q].idxoff = s
  PROVE  Complete(m, f)'
  BY DEF Complete

LEMMA DelHeadLists ==
  ASSUME IFormat, IExcl, IExcl', NEW p \in Proc, DelHead(p),
         NEW m, NEW r, NEW f, NEW g, NEW b, ListsOK(m, r, f, g, b)
  PROVE  \E f2, g2, b2 : ListsOK(m, r, f2, g2, b2)'
<1>0. /\ db \in [Proc -> Handle] /\ db[p] \in Handle /\ pc \in [Proc -> PC]
      /\ ptr \in [Off -> Off] /\ pc[p] = "del_head"
  BY DEF IFormat, IType, TypeOK, DelHead
<1>w. /\ Witness(m, r, f, g, b) /\ ChainsOK(m, r) /\ FreeOK(f, g)
      /\ PlacesOK(m, r, f) /\ Apart /\ Complete(m, f)
  BY DEF ListsOK
<1>c. PICK c : c = chainoff(call[p].key)
  OBVIOUS
<1>x. PICK x : x = db[p].idxoff
  OBVIOUS
<1>1. /\ call[p].key \in Key /\ c \in 1 .. NHASH /\ pc[p] \in ListPC
      /\ pc[p] \in ChainPC
  BY <1>0, <1>c, OneWriter DEF ChainPC, ListPC, DelPC
<1>2. AtChain(p, c, m[c], r) /\ AtFree(p, f)
  BY <1>c, <1>1, <1>w DEF PlacesOK, PlaceOK
<1>3. /\ x \in m[c] /\ ptr[x] = ptr[FREE_OFF] /\ x \notin f /\ rec[x].key = Blank
      /\ db[p].ptroff \in m[c] \cup {c}
  BY <1>0, <1>2, <1>x DEF AtChain, AtFree, PredPC, UnlinkPC
<1>4. x \in RecOff /\ x \in Off /\ x \in Allocated
  BY <1>1, <1>3, <1>w, Layout DEF Witness, ChainsOK, ChainOK
<1>5. /\ ptr' = [ptr EXCEPT ![FREE_OFF] = x] /\ UNCHANGED <<rec, idxEnd, call, db, crashes>>
      /\ Others(p) /\ pc'[p] = "del_link"
  BY <1>0, <1>x DEF DelHead, Goto, Others
<1>6. /\ \A o \in RecOff : ptr'[o] = ptr[o] /\ o \in Off
      /\ ptr'[FREE_OFF] = x /\ \A d \in 1 .. NHASH : ptr'[d] = ptr[d]
      /\ Allocated' = Allocated /\ 0 \notin RecOff
  <2>1. /\ \A d \in 1 .. NHASH : d \in Off /\ d # FREE_OFF
        /\ \A o \in RecOff : o \in Off /\ o # FREE_OFF
    BY DbConst, Layout DEF Off, FREE_OFF
  <2> QED BY <1>0, <1>5, <2>1, Layout DEF Allocated
<1>7. \A q \in Proc, s \in Off : Unlinking(q, s)' <=> Unlinking(q, s)
  BY <1>0, <1>5 DEF Others, Unlinking
<1>8. \A s \in RecOff : Nxt'[s] = Nxt[s]
  <2> SUFFICES ASSUME NEW s \in RecOff PROVE Nxt'[s] = Nxt[s]
    OBVIOUS
  <2>0. s \in Off /\ ptr'[s] = ptr[s]
    BY <1>6
  <2>1. CASE \E q \in Proc : Unlinking(q, s)
    BY <1>5, <1>7, <2>0, <2>1, SuccIs, SuccIsNext
  <2>2. CASE ~\E q \in Proc : Unlinking(q, s)
    BY <1>7, <2>0, <2>2, SuccIs, SuccIsNext
  <2> QED BY <2>1, <2>2
<1> DEFINE f2 == f \cup {x}
<1>g. PICK g2 : g2 = [g EXCEPT ![x] = b + 1]
  OBVIOUS
<1>9. ChainsOK(m, r)'
  <2> SUFFICES ASSUME NEW d \in 1 .. NHASH PROVE ChainOK(d, m, r)'
    BY DEF ChainsOK
  <2>0. ChainOK(d, m, r) /\ m[d] \subseteq RecOff
    BY <1>w DEF ChainsOK, Witness
  <2>1. \A u \in m[d] : rec'[u].key = rec[u].key /\ r[u] = r[u] /\ Nxt'[u] = Nxt[u]
    BY <1>5, <1>8, <2>0
  <2>2. \A u \in m[d], q \in Proc :
          Unlinking(q, u) => Unlinking(q, u)' /\ call'[q].key = call[q].key
    BY <1>5, <1>6, <1>7, <2>0
  <2> QED BY <1>6, <2>0, <2>1, <2>2, ChainFrame
<1>10. FreeOK(f2, g2)' /\ g2 \in [RecOff -> 0 .. b + 1]
  <2>0. f \in SUBSET RecOff /\ b \in Nat /\ g \in [RecOff -> 0 .. b] /\ x \in RecOff \ f /\ x # 0
    BY <1>w, <1>3, <1>4, <1>6 DEF Witness
  <2>1. ptr'[x] = ptr[FREE_OFF] /\ \A s \in f : ptr'[s] = ptr[s]
    BY <1>3, <1>4, <1>6, <2>0
  <2>2. IsList(ptr[FREE_OFF], ptr, f, g)
    BY <1>w DEF FreeOK
  <2>n. PICK n, n2, h : n = ptr /\ n2 = ptr' /\ h = ptr[FREE_OFF]
    OBVIOUS
  <2>z. 0 \notin RecOff
    BY <1>6
  <2>3. IsList(x, ptr', f \cup {x}, g2) /\ g2 \in [RecOff -> 0 .. b + 1]
    <3>1. IsList(h, n, f, g) /\ n2[x] = h /\ \A s \in f : n2[s] = n[s]
      BY <2>1, <2>2, <2>n
    <3>2. /\ g2[x] = b + 1 /\ \A s \in RecOff : s # x => g2[s] = g[s]
          /\ g2 \in [RecOff -> 0 .. b + 1]
      BY <1>g, <2>0, RankPush
    <3>3. /\ \A s \in f : g2[s] = g[s] /\ g[s] \in 0 .. b
          /\ 0 \notin f /\ x # 0 /\ x \notin f
      BY <2>0, <2>z, <3>2
    <3>4. IsList(x, n2, f \cup {x}, g2)
      BY <2>0, <3>1, <3>2, <3>3, ListPush
    <3> QED BY <2>n, <3>2, <3>4
  <2> QED BY <1>w, <1>3, <1>4, <1>5, <1>6, <2>3 DEF FreeOK
<1>11. \A q \in Proc \ {p} : PlaceOK(q, m, r, f2)'
  <2>1. \A d \in 1 .. NHASH : d # c =>
           /\ m[d] = m[d] /\ ptr'[d] = ptr[d]
           /\ \A u \in m[d] : /\ rec'[u].key = rec[u].key /\ r[u] = r[u]
                              /\ ptr'[u] = ptr[u]
    BY <1>5, <1>6, <1>w DEF Witness
  <2>2. ASSUME NEW q \in Proc \ {p}, pc[q] \in TakenPC \cup LinkPC
        PROVE  /\ rec'[db[q].idxoff].key = rec[db[q].idxoff].key
               /\ ptr'[db[q].idxoff] = ptr[db[q].idxoff]
               /\ \A d \in 1 .. NHASH : db[q].idxoff \notin m[d]
               /\ pc[q] \in TakenPC => db[q].idxoff \notin f2
    BY <1>1, <1>3, <1>5, <1>6, <1>w, <2>2, OthersHold
  <2> QED BY <1>0, <1>1, <1>5, <1>c, <1>w, <2>1, <2>2, OthersStay DEF DelPC
<1>12. PlaceOK(p, m, r, f2)'
  <2>1. AtChain(p, c, m[c], r)'
    <3>1. ptr'[db[p].ptroff] = ptr[db[p].ptroff]
      BY <1>1, <1>3, <1>6, <1>w DEF Witness
    <3> QED BY <1>0, <1>2, <1>5, <3>1 DEF AtChain, FoundPC, PredPC, UnlinkPC,
         AbsentPC, HeadPC, LinkPC, StorePC, FreePC
  <2>2. AtFree(p, f2)' /\ Holding(p, m, f2)'
    BY <1>3, <1>5, <1>x DEF AtFree, Holding, UnlinkPC, TakenPC, LinkPC
  <2> QED BY <1>5, <1>c, <2>1, <2>2 DEF PlaceOK
<1>13. Apart'
  BY <1>w, <1>0, <1>5 DEF Apart, Others, TakenPC
<1>14. Complete(m, f2)'
  <2> SUFFICES ASSUME crashes' = 0, NEW s \in Allocated'
               PROVE  /\ rec'[s].key # Blank /\ s <= PTR_MAX =>
                         \/ s \in m[chainoff(rec'[s].key)]
                         \/ \E q \in Proc : pc'[q] \in LinkPC /\ db'[q].idxoff = s
                      /\ rec'[s].key = Blank =>
                         \/ s \in f2
                         \/ \E q \in Proc : pc'[q] \in TakenPC \cup {"del_head"} /\ db'[q].idxoff = s
    BY CompleteNext
  <2>1. CASE s = x
    BY <1>3, <1>5, <2>1
  <2>2. CASE s # x
    <3>1. ASSUME NEW q \in Proc, db[q].idxoff = s,
                 pc[q] \in LinkPC \/ pc[q] \in TakenPC \cup {"del_head"}
          PROVE  pc'[q] = pc[q] /\ db'[q] = db[q]
      BY <1>x, <1>5, <2>2, <3>1 DEF Others
    <3> QED BY <1>5, <1>6, <1>w, <3>1 DEF Complete
  <2> QED BY <2>1, <2>2
<1>15. Witness(m, r, f2, g2, b + 1)
  BY <1>w, <1>4, <1>10 DEF Witness
<1>16. ListsOK(m, r, f2, g2, b + 1)'
  BY <1>9, <1>10, <1>11, <1>12, <1>13, <1>14, <1>15 DEF ListsOK, PlacesOK, Witness
<1> QED BY <1>16

\* How a step may change the members of a chain.
Moves(p, m, m2) ==
  \A c \in 1 .. NHASH :
    \/ m2[c] = m[c]
    \/ pc[p] = "del_link" /\ m2[c] = m[c] \ {db[p].idxoff}
    \/ pc[p] = "st_link" /\ m2[c] = m[c] \cup {db[p].idxoff}

\* The predecessor skips the record, which leaves the chain for the free list.
LEMMA DelLinkLists ==
  ASSUME IFormat, IExcl, IExcl', NEW p \in Proc, DelLink(p),
         NEW m, NEW r, NEW f, NEW g, NEW b, ListsOK(m, r, f, g, b)
  PROVE  \E m2 : ListsOK(m2, r, f, g, b)' /\ Moves(p, m, m2)
<1>0. /\ db \in [Proc -> Handle] /\ db[p] \in Handle /\ pc \in [Proc -> PC]
      /\ ptr \in [Off -> Off] /\ pc[p] = "del_link"
  BY DEF IFormat, IType, TypeOK, DelLink
<1>w. /\ Witness(m, r, f, g, b) /\ ChainsOK(m, r) /\ FreeOK(f, g)
      /\ PlacesOK(m, r, f) /\ Apart /\ Complete(m, f)
  BY DEF ListsOK
<1>c. PICK c : c = chainoff(call[p].key)
  OBVIOUS
<1>x. PICK x : x = db[p].idxoff
  OBVIOUS
<1>y. PICK y : y = db[p].ptroff
  OBVIOUS
<1>1. /\ call[p].key \in Key /\ c \in 1 .. NHASH /\ pc[p] \in ListPC
      /\ pc[p] \in ChainPC
  BY <1>0, <1>c, OneWriter DEF ChainPC, ListPC, DelPC
<1>2. AtChain(p, c, m[c], r) /\ ChainOK(c, m, r)
  BY <1>c, <1>1, <1>w DEF PlacesOK, PlaceOK, ChainsOK
<1>3. /\ x \in m[c] /\ y \in m[c] \cup {c} /\ ptr[y] = x /\ y # x
      /\ \A u \in m[c] : rec[u].key # call[p].key
  BY <1>0, <1>2, <1>x, <1>y DEF AtChain, PredPC, AbsentPC
<1>4. /\ m[c] \subseteq RecOff /\ \A o \in RecOff : o \in Off /\ o # FREE_OFF
      /\ \A d \in 1 .. NHASH : d \in Off /\ d # FREE_OFF /\ d \notin RecOff
      /\ x \in RecOff
  BY <1>1, <1>3, <1>w, Offsets DEF Witness
<1>5. /\ ptr' = [ptr EXCEPT ![y] = db[p].ptrval]
      /\ UNCHANGED <<rec, idxEnd, call, db, crashes>>
      /\ Others(p) /\ pc'[p] = "del_unlock"
  BY <1>0, <1>y DEF DelLink, ChainPred, Goto, Others
<1>6. /\ \A o \in Off : o # y => ptr'[o] = ptr[o]
      /\ ptr'[y] = db[p].ptrval /\ y \in Off /\ y # FREE_OFF
      /\ Allocated' = Allocated
  BY <1>0, <1>1, <1>3, <1>4, <1>5 DEF Allocated
<1>7. /\ \A q \in Proc, s \in Off : Unlinking(q, s) <=> q = p /\ s = x
      /\ \A q \in Proc, s \in Off : ~Unlinking(q, s)'
  <2>1. \A q \in Proc : pc[q] \in UnlinkPC => q = p
    BY <1>1, OneWriter DEF UnlinkPC, ListPC, DelPC
  <2>2. \A q \in Proc : pc'[q] \notin UnlinkPC
    BY <1>5, <2>1 DEF Others, UnlinkPC
  <2> QED BY <1>0, <1>x, <2>1, <2>2 DEF Unlinking, UnlinkPC
<1>8. /\ \A s \in RecOff : s # x /\ s # y => Nxt'[s] = Nxt[s]
      /\ Nxt[x] = db[p].ptrval /\ (y \in m[c] => Nxt[y] = x)
      /\ y \in m[c] => Nxt'[y] = db[p].ptrval
  <2>1. \A s \in Off : Nxt'[s] = ptr'[s]
    BY <1>7, SuccIsNext
  <2>2. \A s \in Off : s # x => Nxt[s] = ptr[s]
    BY <1>7, SuccIs
  <2>3. Nxt[x] = db[p].ptrval
    BY <1>4, <1>7, SuccIs
  <2> QED BY <1>3, <1>4, <1>6, <2>1, <2>2, <2>3
<1>m. PICK m2 : m2 = [m EXCEPT ![c] = m[c] \ {x}]
  OBVIOUS
<1>n. /\ m2[c] = m[c] \ {x} /\ \A d \in 1 .. NHASH : d # c => m2[d] = m[d]
      /\ \A d \in 1 .. NHASH : m2[d] \subseteq m[d]
      /\ m2 \in [1 .. NHASH -> SUBSET RecOff]
  BY <1>m, <1>1, <1>w DEF Witness
<1>t. /\ \A s \in m[c] : r[s] \in Nat
      /\ 0 \notin m[c] /\ x # 0
  BY <1>4, <1>w DEF Witness, FREE_OFF
<1>9. IsList(ptr'[c], Nxt', m[c] \ {x}, r)
  <2>0. IsList(ptr[c], Nxt, m[c], r)
    BY <1>2 DEF ChainOK
  <2>n. PICK n, n2, h : n = Nxt /\ n2 = Nxt' /\ h = ptr[c]
    OBVIOUS
  <2>1. CASE y = c
    <3>1. h = x /\ ptr'[c] = n[x] /\ IsList(h, n, m[c], r) /\ h # 0
      BY <1>3, <1>6, <1>8, <1>t, <2>0, <2>1, <2>n
    <3>2. IsList(n[h], n, m[c] \ {h}, r)
      BY <1>t, <3>1, ListPop
    <3>3. \A s \in m[c] \ {x} : n2[s] = n[s] /\ r[s] = r[s]
      BY <1>1, <1>4, <1>8, <2>1, <2>n
    <3>4. IsList(n[h], n2, m[c] \ {x}, r)
      BY <3>1, <3>2, <3>3, ListFrame
    <3> QED BY <2>n, <3>1, <3>4
  <2>2. CASE y \in m[c]
    <3>1. /\ IsList(h, n, m[c], r) /\ n[y] = x /\ n2[y] = n[x]
          /\ \A s \in m[c] \ {x, y} : n2[s] = n[s]
      BY <1>4, <1>8, <2>0, <2>2, <2>n
    <3>2. IsList(h, n2, m[c] \ {x}, r)
      BY <1>t, <2>2, <3>1, ListSkip
    <3>3. ptr'[c] = h
      BY <1>1, <1>4, <1>6, <2>2, <2>n
    <3> QED BY <2>n, <3>2, <3>3
  <2> QED BY <1>3, <2>1, <2>2
<1>10. ChainsOK(m2, r)'
  <2> SUFFICES ASSUME NEW d \in 1 .. NHASH PROVE ChainOK(d, m2, r)'
    BY DEF ChainsOK
  <2>0. ChainOK(d, m, r) /\ m[d] \subseteq RecOff
    BY <1>w DEF ChainsOK, Witness
  <2>1. CASE d # c
    <3>1. \A u \in m[d] : u # x /\ u # y
      BY <1>1, <1>3, <1>4, <2>0, <2>1, Foreign
    <3>2. \A u \in m[d] : rec'[u].key = rec[u].key /\ r[u] = r[u] /\ Nxt'[u] = Nxt[u]
      BY <1>5, <1>8, <2>0, <3>1
    <3>3. \A u \in m[d], q \in Proc : ~Unlinking(q, u)
      BY <1>4, <1>7, <2>0, <3>1
    <3>4. ptr'[d] = ptr[d] /\ m2[d] = m[d]
      BY <1>3, <1>4, <1>6, <1>n, <2>1
    <3> QED BY <1>6, <2>0, <3>2, <3>3, <3>4, ChainFrame
  <2>2. CASE d = c
    <3>1. \A s \in m2[c] : rec[s].key # Blank /\ s \in m[c]
      BY <1>2, <1>4, <1>7, <1>n DEF ChainOK
    <3> QED BY <1>2, <1>5, <1>6, <1>9, <1>n, <2>2, <3>1 DEF ChainOK
  <2> QED BY <2>1, <2>2
<1>y2. y \notin f
  <2>1. f \subseteq RecOff /\ \A s \in f : rec[s].key = Blank
    BY <1>w DEF Witness, FreeOK
  <2>2. y \in m[c] => rec[y].key # Blank
    BY <1>2, <1>3, <1>6, <1>7 DEF ChainOK
  <2> QED BY <1>1, <1>3, <1>4, <2>1, <2>2
<1>11. FreeOK(f, g)'
  <2>1. \A u \in f : ptr'[u] = ptr[u] /\ g[u] = g[u]
    BY <1>4, <1>6, <1>w, <1>y2 DEF Witness
  <2>2. ptr'[FREE_OFF] = ptr[FREE_OFF]
    BY <1>6, Layout
  <2>3. IsList(ptr'[FREE_OFF], ptr', f, g)
    BY <1>w, <2>1, <2>2, ListFrame DEF FreeOK
  <2> QED BY <1>w, <1>5, <1>6, <2>3 DEF FreeOK
<1>12. \A q \in Proc \ {p} : PlaceOK(q, m2, r, f)'
  <2>1. \A d \in 1 .. NHASH : d # c =>
           /\ m2[d] = m[d] /\ ptr'[d] = ptr[d]
           /\ \A u \in m[d] : /\ rec'[u].key = rec[u].key /\ r[u] = r[u]
                              /\ ptr'[u] = ptr[u]
    <3> SUFFICES ASSUME NEW d \in 1 .. NHASH, d # c
                 PROVE  ptr'[d] = ptr[d] /\ \A u \in m[d] : ptr'[u] = ptr[u]
      BY <1>5, <1>n
    <3>1. \A u \in m[d] : u # y /\ u \in Off
      BY <1>1, <1>3, <1>4, <1>w, Foreign DEF Witness
    <3> QED BY <1>3, <1>4, <1>6, <3>1
  <2>2. ASSUME NEW q \in Proc \ {p}, pc[q] \in TakenPC \cup LinkPC
        PROVE  /\ rec'[db[q].idxoff].key = rec[db[q].idxoff].key
               /\ ptr'[db[q].idxoff] = ptr[db[q].idxoff]
               /\ \A d \in 1 .. NHASH : db[q].idxoff \notin m2[d]
               /\ pc[q] \in TakenPC => db[q].idxoff \notin f
    <3>1. /\ db[q].idxoff \in RecOff /\ \A d \in 1 .. NHASH : db[q].idxoff \notin m[d]
          /\ pc[q] \in TakenPC => db[q].idxoff \notin f
      BY <1>w, <2>2, OthersHold
    <3>2. db[q].idxoff # y
      BY <1>1, <1>3, <1>4, <3>1
    <3> QED BY <1>4, <1>5, <1>6, <1>n, <3>1, <3>2
  <2> QED BY <1>0, <1>1, <1>5, <1>c, <1>w, <2>1, <2>2, OthersStay DEF DelPC
<1>13. PlaceOK(p, m2, r, f)'
  <2>1. AtChain(p, c, m2[c], r)'
    BY <1>3, <1>5, <1>n DEF AtChain, FoundPC, PredPC, UnlinkPC, HeadPC, LinkPC,
       StorePC, FreePC
  <2>2. AtFree(p, f)' /\ Holding(p, m2, f)'
    BY <1>5 DEF AtFree, Holding, UnlinkPC, TakenPC, LinkPC
  <2> QED BY <1>5, <1>c, <2>1, <2>2 DEF PlaceOK
<1>14. Apart'
  BY <1>w, <1>0, <1>5 DEF Apart, Others, TakenPC
<1>15. Complete(m2, f)'
  <2> SUFFICES ASSUME crashes' = 0, NEW s \in Allocated'
               PROVE  /\ rec'[s].key # Blank /\ s <= PTR_MAX =>
                         \/ s \in m2[chainoff(rec'[s].key)]
                         \/ \E q \in Proc : pc'[q] \in LinkPC /\ db'[q].idxoff = s
                      /\ rec'[s].key = Blank =>
                         \/ s \in f
                         \/ \E q \in Proc : pc'[q] \in TakenPC \cup {"del_head"} /\ db'[q].idxoff = s
    BY CompleteNext
  <2>1. ASSUME NEW q \in Proc, pc[q] \in LinkPC \/ pc[q] \in TakenPC \cup {"del_head"}
        PROVE  pc'[q] = pc[q] /\ db'[q] = db[q]
    BY <1>0, <1>5, <2>1 DEF Others, LinkPC, TakenPC
  <2>2. rec[s].key # Blank => s # x
    <3>1. AtFree(p, f)
      BY <1>w DEF PlacesOK, PlaceOK
    <3> QED BY <1>0, <1>x, <3>1 DEF AtFree, UnlinkPC
  <2>3. ASSUME rec[s].key # Blank, s \in m[chainoff(rec[s].key)]
        PROVE  s \in m2[chainoff(rec[s].key)]
    <3>1. rec \in [RecOff -> Slot] /\ s \in RecOff
      BY <1>6 DEF IFormat, IType, TypeOK, Allocated
    <3>2. rec[s].key \in Key
      BY <2>3, <3>1 DEF Slot
    <3>3. chainoff(rec[s].key) \in 1 .. NHASH
      BY <3>2, DbConst DEF chainoff
    <3> QED BY <1>n, <2>2, <2>3, <3>3
  <2> QED BY <1>5, <1>6, <1>w, <2>1, <2>3 DEF Complete
<1>16. ListsOK(m2, r, f, g, b)'
  BY <1>w, <1>n, <1>10, <1>11, <1>12, <1>13, <1>14, <1>15 DEF ListsOK, PlacesOK, Witness
<1>17. Moves(p, m, m2)
  BY <1>0, <1>n, <1>x DEF Moves
<1> QED BY <1>16, <1>17

\* The record leaves the free list and is in the hands of one process.
LEMMA FreeTakeLists ==
  ASSUME IFormat, IExcl, IExcl', NEW p \in Proc, FreeTake(p),
         NEW m, NEW r, NEW f, NEW g, NEW b, ListsOK(m, r, f, g, b)
  PROVE  \E f2 : ListsOK(m, r, f2, g, b)'
<1>0. /\ db \in [Proc -> Handle] /\ db[p] \in Handle /\ pc \in [Proc -> PC]
      /\ ptr \in [Off -> Off] /\ pc[p] = "ff_take"
  BY DEF IFormat, IType, TypeOK, FreeTake
<1>w. /\ Witness(m, r, f, g, b) /\ ChainsOK(m, r) /\ FreeOK(f, g)
      /\ PlacesOK(m, r, f) /\ Apart /\ Complete(m, f)
  BY DEF ListsOK
<1>c. PICK c : c = chainoff(call[p].key)
  OBVIOUS
<1>x. PICK x : x = db[p].idxoff
  OBVIOUS
<1>y. PICK y : y = db[p].saveoff
  OBVIOUS
<1>1. /\ call[p].key \in Key /\ c \in 1 .. NHASH /\ pc[p] \in ListPC
      /\ pc[p] \in ChainPC
  BY <1>0, <1>c, OneWriter DEF ChainPC, ListPC, FreePC
<1>2. AtChain(p, c, m[c], r) /\ AtFree(p, f)
  BY <1>c, <1>1, <1>w DEF PlacesOK, PlaceOK
<1>3. /\ x \in f /\ y \in f \cup {FREE_OFF} /\ ptr[y] = x /\ db[p].ptrval = ptr[x]
      /\ \A u \in f : u \in RecOff /\ rec[u].key = Blank /\ u \in Allocated
      /\ \A u \in f : g[u] \in Nat
  BY <1>0, <1>2, <1>x, <1>y, <1>w DEF AtFree, FreeOK, Witness
<1>4. y # x /\ x # 0 /\ 0 \notin f /\ y \in Off /\ x \in Off
  <2>1. x # 0 /\ 0 \notin f /\ y \in Off /\ x # FREE_OFF /\ x \in Off
    BY <1>3, Offsets
  <2> QED BY <1>3, <1>w, <2>1 DEF FreeOK, IsList
<1>5. /\ ptr' = [ptr EXCEPT ![y] = ptr[x]]
      /\ UNCHANGED <<rec, idxEnd, call, db, crashes>>
      /\ Others(p) /\ pc'[p] = "ff_done"
  BY <1>0, <1>3, <1>y DEF FreeTake, FreePred, Goto, Others
<1>6. /\ \A o \in Off : o # y => ptr'[o] = ptr[o]
      /\ ptr'[y] = ptr[x] /\ Allocated' = Allocated
  BY <1>0, <1>4, <1>5 DEF Allocated
<1>7. /\ \A q \in Proc, s \in Off : ~Unlinking(q, s)
      /\ \A q \in Proc, s \in Off : ~Unlinking(q, s)'
  <2>1. \A q \in Proc : pc[q] \in UnlinkPC => q = p
    BY <1>1, OneWriter DEF UnlinkPC, ListPC, DelPC
  <2>2. \A q \in Proc : pc'[q] \notin UnlinkPC
    BY <1>0, <1>5, <2>1 DEF Others, UnlinkPC
  <2> QED BY <1>0, <2>1, <2>2 DEF Unlinking, UnlinkPC
<1>8. \A d \in 1 .. NHASH : \A u \in m[d] :
         /\ u \in RecOff /\ u \notin f /\ u # y /\ u # x /\ rec[u].key # Blank
         /\ ptr'[u] = ptr[u]
  <2> SUFFICES ASSUME NEW d \in 1 .. NHASH, NEW u \in m[d]
               PROVE  /\ u \in RecOff /\ u \notin f /\ u # y /\ u # x
                      /\ rec[u].key # Blank /\ ptr'[u] = ptr[u]
    OBVIOUS
  <2>1. u \in RecOff /\ u \in Off /\ u # FREE_OFF /\ ChainOK(d, m, r)
    BY <1>w, Offsets DEF Witness, ChainsOK
  <2>2. rec[u].key # Blank
    BY <1>7, <2>1 DEF ChainOK
  <2> QED BY <1>3, <1>6, <2>1, <2>2
<1>9. ChainsOK(m, r)'
  <2> SUFFICES ASSUME NEW d \in 1 .. NHASH PROVE ChainOK(d, m, r)'
    BY DEF ChainsOK
  <2>0. ChainOK(d, m, r) /\ m[d] \subseteq Off
    BY <1>w, <1>8, Offsets DEF ChainsOK
  <2>1. \A s \in Off : Nxt'[s] = ptr'[s] /\ Nxt[s] = ptr[s]
    BY <1>7, SuccIs, SuccIsNext
  <2>2. \A u \in m[d] : rec'[u].key = rec[u].key /\ r[u] = r[u] /\ Nxt'[u] = Nxt[u]
    BY <1>5, <1>8, <2>0, <2>1
  <2>3. \A u \in m[d], q \in Proc : ~Unlinking(q, u)
    BY <1>7, <2>0
  <2>4. ptr'[d] = ptr[d] /\ m[d] = m[d]
    BY <1>3, <1>6, Offsets
  <2> QED BY <1>6, <2>0, <2>2, <2>3, <2>4, ChainFrame
<1> DEFINE f2 == f \ {x}
<1>10. FreeOK(f2, g)'
  <2>0. IsList(ptr[FREE_OFF], ptr, f, g)
    BY <1>w DEF FreeOK
  <2>n. PICK n, n2, h : n = ptr /\ n2 = ptr' /\ h = ptr[FREE_OFF]
    OBVIOUS
  <2>1. IsList(ptr'[FREE_OFF], ptr', f \ {x}, g)
    <3>1. CASE y = FREE_OFF
      <4>1. h = x /\ ptr'[FREE_OFF] = n[x] /\ IsList(h, n, f, g) /\ h # 0
        BY <1>3, <1>4, <1>6, <2>0, <2>n, <3>1
      <4>2. IsList(n[h], n, f \ {h}, g)
        BY <1>3, <1>4, <4>1, ListPop
      <4>3. \A s \in f \ {x} : n2[s] = n[s] /\ g[s] = g[s]
        BY <1>3, <1>6, <2>n, <3>1, Offsets
      <4>4. IsList(n[h], n2, f \ {x}, g)
        BY <4>1, <4>2, <4>3, ListFrame
      <4> QED BY <2>n, <4>1, <4>4
    <3>2. CASE y \in f
      <4>1. /\ IsList(h, n, f, g) /\ n[y] = x /\ n2[y] = n[x]
            /\ \A s \in f \ {x, y} : n2[s] = n[s]
        BY <1>3, <1>6, <2>0, <2>n, Offsets
      <4>2. IsList(h, n2, f \ {x}, g)
        BY <1>3, <1>4, <3>2, <4>1, ListSkip
      <4>3. ptr'[FREE_OFF] = h
        BY <1>3, <1>6, <2>n, <3>2, Offsets
      <4> QED BY <2>n, <4>2, <4>3
    <3> QED BY <1>3, <3>1, <3>2
  <2> QED BY <1>3, <1>5, <1>6, <2>1 DEF FreeOK
<1>11. \A q \in Proc : pc[q] \in TakenPC \cup LinkPC =>
           /\ db[q].idxoff \notin f /\ db[q].idxoff \in RecOff /\ db[q].idxoff \in Off
           /\ \A d \in 1 .. NHASH : db[q].idxoff \notin m[d]
  <2> SUFFICES ASSUME NEW q \in Proc, pc[q] \in TakenPC \cup LinkPC
               PROVE  /\ db[q].idxoff \notin f /\ db[q].idxoff \in RecOff
                      /\ db[q].idxoff \in Off
                      /\ \A d \in 1 .. NHASH : db[q].idxoff \notin m[d]
    OBVIOUS
  <2>1. pc[q] \in LinkPC => call[q].key \in Key /\ call[q].key # Blank
    BY OneWriter, DbConst DEF LinkPC, ChainPC, StorePC
  <2> QED BY <1>3, <1>w, <2>1, OthersHold
<1>12. \A q \in Proc \ {p} : PlaceOK(q, m, r, f2)'
  <2>1. \A d \in 1 .. NHASH : d # c =>
           /\ m[d] = m[d] /\ ptr'[d] = ptr[d]
           /\ \A u \in m[d] : /\ rec'[u].key = rec[u].key /\ r[u] = r[u]
                              /\ ptr'[u] = ptr[u]
    BY <1>3, <1>5, <1>6, <1>8, Offsets
  <2>2. ASSUME NEW q \in Proc \ {p}, pc[q] \in TakenPC \cup LinkPC
        PROVE  /\ rec'[db[q].idxoff].key = rec[db[q].idxoff].key
               /\ ptr'[db[q].idxoff] = ptr[db[q].idxoff]
               /\ \A d \in 1 .. NHASH : db[q].idxoff \notin m[d]
               /\ pc[q] \in TakenPC => db[q].idxoff \notin f2
    BY <1>3, <1>5, <1>6, <1>11, <2>2, Offsets
  <2> QED BY <1>0, <1>1, <1>5, <1>c, <1>w, <2>1, <2>2, OthersStay DEF FreePC
<1>13. PlaceOK(p, m, r, f2)'
  <2>1. AtChain(p, c, m[c], r)'
    <3>1. ptr'[c] = ptr[c]
      BY <1>1, <1>3, <1>6, Offsets
    <3> QED BY <1>0, <1>2, <1>5, <3>1 DEF AtChain, FoundPC, PredPC, UnlinkPC,
         AbsentPC, HeadPC, LinkPC, StorePC, FreePC
  <2>2. AtFree(p, f2)' /\ Holding(p, m, f2)'
    BY <1>3, <1>5, <1>8, <1>x DEF AtFree, Holding, UnlinkPC, TakenPC, LinkPC
  <2> QED BY <1>5, <1>c, <2>1, <2>2 DEF PlaceOK
<1>14. Apart'
  <2> SUFFICES ASSUME NEW q \in Proc, NEW t \in Proc, pc'[q] \in TakenPC,
                      pc'[t] \in TakenPC, db'[q].idxoff = db'[t].idxoff
               PROVE  q = t
    BY DEF Apart
  <2>1. \A u \in Proc : u # p => pc'[u] = pc[u] /\ db'[u] = db[u]
    BY <1>5 DEF Others
  <2>2. db'[p].idxoff \in f /\ db' = db
    BY <1>3, <1>5, <1>x
  <2> QED BY <1>11, <1>w, <2>1, <2>2 DEF Apart
<1>15. Complete(m, f2)'
  <2> SUFFICES ASSUME crashes' = 0, NEW s \in Allocated'
               PROVE  /\ rec'[s].key # Blank /\ s <= PTR_MAX =>
                         \/ s \in m[chainoff(rec'[s].key)]
                         \/ \E q \in Proc : pc'[q] \in LinkPC /\ db'[q].idxoff = s
                      /\ rec'[s].key = Blank =>
                         \/ s \in f2
                         \/ \E q \in Proc : pc'[q] \in TakenPC \cup {"del_head"} /\ db'[q].idxoff = s
    BY CompleteNext
  <2>1. ASSUME NEW q \in Proc, pc[q] \in LinkPC \/ pc[q] \in TakenPC \cup {"del_head"}
        PROVE  pc'[q] = pc[q] /\ db'[q] = db[q]
    BY <1>0, <1>5, <2>1 DEF Others, LinkPC, TakenPC
  <2>2. s = x => pc'[p] \in TakenPC /\ db'[p].idxoff = s
    BY <1>5, <1>x DEF TakenPC
  <2> QED BY <1>5, <1>6, <1>w, <2>1, <2>2 DEF Complete
<1>16. ListsOK(m, r, f2, g, b)'
  BY <1>w, <1>9, <1>10, <1>12, <1>13, <1>14, <1>15 DEF ListsOK, PlacesOK, Witness
<1> QED BY <1>16

\* A record on no list is written, ready to head its chain.
LEMMA PlaceRecord ==
  ASSUME IExcl, IExcl', IFormat, NEW p \in Proc,
         NEW m, NEW r, NEW f, NEW g, NEW b, ListsOK(m, r, f, g, b),
         NEW x \in RecOff, x \notin f, \A d \in 1 .. NHASH : x \notin m[d],
         \A q \in Proc \ {p} : pc[q] \in TakenPC \cup LinkPC => db[q].idxoff # x,
         pc[p] \in {"ap_idx", "ru_idx"}, pc[p] = "ru_idx" => db[p].idxoff = x,
         pc'[p] \in LinkPC, Others(p), call'[p] = call[p], crashes' = crashes,
         db'[p].idxoff = x,
         \A o \in Off : o # x => ptr'[o] = ptr[o], ptr'[x] = db[p].hptr,
         \A s \in RecOff : s # x => rec'[s] = rec[s], rec'[x].key = call[p].key,
         Allocated' = Allocated \cup {x}
  PROVE  ListsOK(m, r, f, g, b)'
<1>w. /\ Witness(m, r, f, g, b) /\ ChainsOK(m, r) /\ FreeOK(f, g)
      /\ PlacesOK(m, r, f) /\ Apart /\ Complete(m, f)
  BY DEF ListsOK
<1>c. PICK c : c = chainoff(call[p].key)
  OBVIOUS
<1>1. /\ call[p].key \in Key /\ call[p].key # Blank /\ c \in 1 .. NHASH
      /\ pc[p] \in StorePC /\ pc[p] \notin LinkPC /\ pc[p] \notin UnlinkPC
      /\ pc'[p] \notin TakenPC /\ pc'[p] \notin UnlinkPC
  BY <1>c, OneWriter, DbConst DEF ChainPC, StorePC, LinkPC, TakenPC, UnlinkPC
<1>2. AtChain(p, c, m[c], r)
  BY <1>c, <1>1, <1>w DEF PlacesOK, PlaceOK
<1>3. \A d \in 1 .. NHASH : m[d] \subseteq RecOff /\ d # x /\ ptr'[d] = ptr[d]
  BY <1>w, Offsets DEF Witness
<1>4. \A q \in Proc, s \in Off : Unlinking(q, s)' <=> Unlinking(q, s)
  BY <1>1 DEF Others, Unlinking, UnlinkPC
<1>5. \A s \in Off : s # x => Nxt'[s] = Nxt[s]
  <2> SUFFICES ASSUME NEW s \in Off, s # x PROVE Nxt'[s] = Nxt[s]
    OBVIOUS
  <2>1. ASSUME NEW q \in Proc, Unlinking(q, s) PROVE Nxt'[s] = Nxt[s]
    <3>1. q # p
      BY <1>1, <2>1 DEF Unlinking, UnlinkPC
    <3>2. db'[q] = db[q]
      BY <3>1 DEF Others
    <3> QED BY <1>4, <2>1, <3>2, SuccIs, SuccIsNext
  <2>2. CASE ~\E q \in Proc : Unlinking(q, s)
    BY <1>4, <2>2, SuccIs, SuccIsNext
  <2> QED BY <2>1, <2>2
<1>6. ChainsOK(m, r)'
  <2> SUFFICES ASSUME NEW d \in 1 .. NHASH PROVE ChainOK(d, m, r)'
    BY DEF ChainsOK
  <2>0. ChainOK(d, m, r) /\ \A u \in m[d] : u \in RecOff /\ u \in Off /\ u # x
    BY <1>w, <1>3, Offsets DEF ChainsOK
  <2>1. \A u \in m[d] : rec'[u].key = rec[u].key /\ r[u] = r[u] /\ Nxt'[u] = Nxt[u]
    BY <1>5, <2>0
  <2>2. \A u \in m[d], q \in Proc :
          Unlinking(q, u) => Unlinking(q, u)' /\ call'[q].key = call[q].key
    BY <1>4, <2>0 DEF Others
  <2> QED BY <1>3, <2>0, <2>1, <2>2, ChainFrame
<1>7. \A u \in f : u \in RecOff /\ u # x /\ ptr'[u] = ptr[u] /\ g[u] = g[u]
  BY <1>w, Offsets DEF Witness
<1>8. ptr'[FREE_OFF] = ptr[FREE_OFF]
  BY Offsets
<1>9. FreeOK(f, g)'
  <2>1. IsList(ptr'[FREE_OFF], ptr', f, g)
    BY <1>w, <1>7, <1>8, ListFrame DEF FreeOK
  <2> QED BY <1>w, <1>7, <2>1 DEF FreeOK
<1>10. \A q \in Proc \ {p} : PlaceOK(q, m, r, f)'
  <2>1. \A d \in 1 .. NHASH : d # c =>
           /\ m[d] = m[d] /\ ptr'[d] = ptr[d]
           /\ \A u \in m[d] : /\ rec'[u].key = rec[u].key /\ r[u] = r[u]
                              /\ ptr'[u] = ptr[u]
    BY <1>3, Offsets
  <2>2. ASSUME NEW q \in Proc \ {p}, pc[q] \in TakenPC \cup LinkPC
        PROVE  /\ rec'[db[q].idxoff].key = rec[db[q].idxoff].key
               /\ ptr'[db[q].idxoff] = ptr[db[q].idxoff]
               /\ \A d \in 1 .. NHASH : db[q].idxoff \notin m[d]
               /\ pc[q] \in TakenPC => db[q].idxoff \notin f
    BY <1>w, <2>2, OthersHold
  <2> QED BY <1>1, <1>7, <1>8, <1>c, <1>w, <2>1, <2>2, OthersStay
<1>11. PlaceOK(p, m, r, f)'
  <2>1. AtChain(p, c, m[c], r)'
    <3>1. db[p].hptr = ptr[c] /\ \A u \in m[c] : rec[u].key # call[p].key
      BY <1>2 DEF AtChain, HeadPC, AbsentPC, StorePC, FreePC
    <3>2. \A u \in m[c] : rec'[u].key # call[p].key
      BY <1>1, <1>3, <3>1
    <3>3. ptr'[x] = ptr'[c]
      BY <1>1, <1>3, <3>1
    <3> QED BY <3>2, <3>3 DEF AtChain, FoundPC, PredPC, UnlinkPC, HeadPC, LinkPC
  <2>2. AtFree(p, f)' /\ Holding(p, m, f)'
    BY <1>1 DEF AtFree, Holding, UnlinkPC, LinkPC
  <2> QED BY <1>c, <2>1, <2>2 DEF PlaceOK
<1>12. Apart'
  BY <1>w, <1>1 DEF Apart, Others
<1>13. Complete(m, f)'
  <2> SUFFICES ASSUME crashes' = 0, NEW s \in Allocated'
               PROVE  /\ rec'[s].key # Blank /\ s <= PTR_MAX =>
                         \/ s \in m[chainoff(rec'[s].key)]
                         \/ \E q \in Proc : pc'[q] \in LinkPC /\ db'[q].idxoff = s
                      /\ rec'[s].key = Blank =>
                         \/ s \in f
                         \/ \E q \in Proc : pc'[q] \in TakenPC \cup {"del_head"} /\ db'[q].idxoff = s
    BY CompleteNext
  <2>1. CASE s = x
    BY <1>1, <2>1
  <2>2. CASE s # x
    <3>1. ASSUME NEW q \in Proc, db[q].idxoff = s,
                 pc[q] \in LinkPC \/ pc[q] \in TakenPC \cup {"del_head"}
          PROVE  pc'[q] = pc[q] /\ db'[q] = db[q]
      BY <1>1, <2>2, <3>1 DEF Others, TakenPC
    <3>2. s \in Allocated /\ rec'[s] = rec[s]
      BY <2>2 DEF Allocated
    <3> QED BY <1>w, <3>1, <3>2 DEF Complete
  <2> QED BY <2>1, <2>2
<1> QED BY <1>w, <1>6, <1>9, <1>10, <1>11, <1>12, <1>13 DEF ListsOK, PlacesOK, Witness

LEMMA AppIdxLists ==
  ASSUME IFormat, IExcl, IExcl', NEW p \in Proc, AppIdx(p),
         NEW m, NEW r, NEW f, NEW g, NEW b, ListsOK(m, r, f, g, b)
  PROVE  ListsOK(m, r, f, g, b)'
<1>0. /\ db \in [Proc -> Handle] /\ db[p] \in Handle /\ pc \in [Proc -> PC]
      /\ ptr \in [Off -> Off] /\ rec \in [RecOff -> Slot] /\ pc[p] = "ap_idx"
      /\ idxEnd \in FirstRec .. MaxOff + 1 /\ idxEnd <= MaxOff
  BY DEF IFormat, IType, TypeOK, AppIdx
<1>x. PICK x : x = idxEnd
  OBVIOUS
<1>1. x \in RecOff /\ x \in Off /\ x \notin Allocated /\ x \in Nat
  BY <1>0, <1>x, DbConst DEF RecOff, Off, FirstRec, Allocated
<1>2. Allocated' = Allocated \cup {x}
  <2>1. idxEnd' = x + 1
    BY <1>x DEF AppIdx
  <2>2. \A s \in RecOff : s < x + 1 <=> s < x \/ s = x
    BY <1>1, DbConst DEF RecOff, FirstRec
  <2> QED BY <1>1, <1>x, <2>1, <2>2 DEF Allocated
<1>3. /\ x \notin f /\ \A d \in 1 .. NHASH : x \notin m[d]
  BY <1>1 DEF ListsOK, FreeOK, ChainsOK, ChainOK
<1>4. \A q \in Proc : pc[q] \in TakenPC \cup LinkPC => db[q].idxoff # x
  BY <1>1, OthersHold DEF ListsOK
<1>5. /\ pc'[p] \in LinkPC /\ Others(p) /\ call'[p] = call[p] /\ crashes' = crashes
      /\ db'[p].idxoff = x
  BY <1>0, <1>x DEF AppIdx, AppOff, Goto, Others, LinkPC, Handle
<1>6. /\ \A o \in Off : o # x => ptr'[o] = ptr[o]
      /\ ptr'[x] = db[p].hptr
      /\ \A s \in RecOff : s # x => rec'[s] = rec[s]
      /\ rec'[x].key = call[p].key
  BY <1>0, <1>1, <1>x DEF AppIdx, ChainTail, NewSlot
<1> QED BY <1>0, <1>1, <1>2, <1>3, <1>4, <1>5, <1>6, PlaceRecord

LEMMA ReuseIdxLists ==
  ASSUME IFormat, IExcl, IExcl', NEW p \in Proc, ReuseIdx(p),
         NEW m, NEW r, NEW f, NEW g, NEW b, ListsOK(m, r, f, g, b)
  PROVE  ListsOK(m, r, f, g, b)'
<1>0. /\ db \in [Proc -> Handle] /\ db[p] \in Handle /\ pc \in [Proc -> PC]
      /\ ptr \in [Off -> Off] /\ rec \in [RecOff -> Slot] /\ pc[p] = "ru_idx"
  BY DEF IFormat, IType, TypeOK, ReuseIdx
<1>x. PICK x : x = db[p].idxoff
  OBVIOUS
<1>1. /\ x \in RecOff /\ x \in Off /\ x \in Allocated /\ x \notin f
      /\ rec[x].key = Blank /\ \A d \in 1 .. NHASH : x \notin m[d]
  BY <1>0, <1>x, OthersHold DEF ListsOK, TakenPC
<1>2. Allocated' = Allocated \cup {x}
  BY <1>1 DEF ReuseIdx, Allocated
<1>4. ASSUME NEW q \in Proc \ {p}, pc[q] \in TakenPC \cup LinkPC
      PROVE  db[q].idxoff # x
  <2>1. CASE pc[q] \in TakenPC
    BY <1>0, <1>4, <1>x, <2>1 DEF ListsOK, Apart, TakenPC
  <2>2. CASE pc[q] \in LinkPC
    <3>1. call[q].key \in Key /\ call[q].key # Blank
      BY <2>2, OneWriter, DbConst DEF LinkPC, ChainPC, StorePC
    <3>2. rec[db[q].idxoff].key = call[q].key
      BY <1>4, <2>2, <3>1, OthersHold DEF ListsOK
    <3> QED BY <1>1, <3>1, <3>2
  <2> QED BY <1>4, <2>1, <2>2
<1>5. /\ pc'[p] \in LinkPC /\ Others(p) /\ call'[p] = call[p] /\ crashes' = crashes
      /\ db'[p].idxoff = x
  BY <1>0, <1>x DEF ReuseIdx, Goto, Others, LinkPC
<1>6. /\ \A o \in Off : o # x => ptr'[o] = ptr[o]
      /\ ptr'[x] = db[p].hptr
      /\ \A s \in RecOff : s # x => rec'[s] = rec[s]
      /\ rec'[x].key = call[p].key
  BY <1>0, <1>1, <1>x DEF ReuseIdx, ChainTail, NewSlot
<1> QED BY <1>0, <1>1, <1>2, <1>4, <1>5, <1>6, <1>x, PlaceRecord

\* The record heads its chain; a process that cannot link it quits.
LEMMA StoreLinkLists ==
  ASSUME IFormat, IExcl, IExcl', NEW p \in Proc, StoreLink(p),
         NEW m, NEW r, NEW f, NEW g, NEW b, ListsOK(m, r, f, g, b)
  PROVE  \E m2, r2, b2 : ListsOK(m2, r2, f, g, b2)' /\ Moves(p, m, m2)
<1>0. /\ db \in [Proc -> Handle] /\ db[p] \in Handle /\ pc \in [Proc -> PC]
      /\ ptr \in [Off -> Off] /\ call \in [Proc -> Calls \cup {NoCall}]
      /\ pc[p] = "st_link" /\ pc[p] \in LinkPC /\ pc[p] \notin UnlinkPC
  BY DEF IFormat, IType, TypeOK, StoreLink, LinkPC, UnlinkPC
<1>w. /\ Witness(m, r, f, g, b) /\ ChainsOK(m, r) /\ FreeOK(f, g)
      /\ PlacesOK(m, r, f) /\ Apart /\ Complete(m, f)
  BY DEF ListsOK
<1>c. PICK c : c = chainoff(call[p].key)
  OBVIOUS
<1>x. PICK x : x = db[p].idxoff
  OBVIOUS
<1>1. /\ call[p].key \in Key /\ call[p].key # Blank /\ c \in 1 .. NHASH
      /\ pc[p] \in StorePC /\ pc[p] \in ChainPC /\ call[p].op # "fetch"
  BY <1>0, <1>c, OneWriter, DbConst DEF ChainPC, StorePC
<1>2. AtChain(p, c, m[c], r) /\ ChainOK(c, m, r)
  BY <1>c, <1>1, <1>w DEF PlacesOK, PlaceOK, ChainsOK
<1>3. /\ x \in Allocated /\ x \in RecOff /\ x \in Off /\ rec[x].key = call[p].key
      /\ \A d \in 1 .. NHASH : x \notin m[d]
      /\ ptr[x] = ptr[c] /\ \A u \in m[c] : rec[u].key # call[p].key
      /\ x \notin f
  <2>1. /\ x \in Allocated /\ x \in RecOff /\ x \in Off /\ rec[x].key = call[p].key
        /\ \A d \in 1 .. NHASH : x \notin m[d]
    BY <1>0, <1>1, <1>w, <1>x, OthersHold
  <2>2. ptr[x] = ptr[c] /\ \A u \in m[c] : rec[u].key # call[p].key
    BY <1>0, <1>2, <1>x DEF AtChain, AbsentPC, StorePC
  <2>3. x \notin f
    BY <1>1, <1>w, <2>1 DEF FreeOK
  <2> QED BY <2>1, <2>2, <2>3
<1>a. CASE x > PTR_MAX
  <2>1. /\ Others(p) /\ UNCHANGED <<ptr, rec, idxEnd, crashes>> /\ pc'[p] \in Away
    BY <1>0, <1>a, <1>x DEF StoreLink, PtrOverflow, Gone, Goto, Others, files, Away
  <2>2. Complete(m, f)'
    <3> SUFFICES ASSUME crashes' = 0, NEW s \in Allocated'
                 PROVE  /\ rec'[s].key # Blank /\ s <= PTR_MAX =>
                           \/ s \in m[chainoff(rec'[s].key)]
                           \/ \E q \in Proc : pc'[q] \in LinkPC /\ db'[q].idxoff = s
                        /\ rec'[s].key = Blank =>
                           \/ s \in f
                           \/ \E q \in Proc : pc'[q] \in TakenPC \cup {"del_head"} /\ db'[q].idxoff = s
      BY CompleteNext
    <3>1. ASSUME NEW q \in Proc, q # p
          PROVE  pc'[q] = pc[q] /\ db'[q] = db[q]
      BY <2>1, <3>1 DEF Others
    <3>2. s <= PTR_MAX => s # x
      BY <1>3, <1>a, DbConst DEF Off
    <3>3. pc[p] \notin TakenPC \cup {"del_head"}
      BY <1>0 DEF TakenPC
    <3>4. s \in Allocated
      BY <2>1 DEF Allocated
    <3> QED BY <1>w, <1>x, <2>1, <3>1, <3>2, <3>3, <3>4 DEF Complete
  <2>3. ListsOK(m, r, f, g, b)' /\ Moves(p, m, m)
    BY <1>0, <2>1, <2>2, AwayLists DEF Moves
  <2> QED BY <2>3
<1>b. CASE ~(x > PTR_MAX)
  <2>1. /\ ptr' = [ptr EXCEPT ![c] = x] /\ UNCHANGED <<rec, idxEnd, call, db, crashes>>
        /\ Others(p) /\ pc'[p] = "unlock" /\ pc'[p] \in Away /\ x <= PTR_MAX
    <3>1. x <= PTR_MAX
      BY <1>3, <1>b, DbConst DEF Off
    <3> QED BY <1>0, <1>b, <1>c, <1>x, <3>1 DEF StoreLink, PtrOverflow, Goto, Others, Away
  <2>2. /\ \A o \in Off : o # c => ptr'[o] = ptr[o]
        /\ ptr'[c] = x /\ Allocated' = Allocated
        /\ \A o \in RecOff : ptr'[o] = ptr[o] /\ o \in Off
        /\ ptr'[FREE_OFF] = ptr[FREE_OFF]
    BY <1>0, <1>1, <2>1, Offsets DEF Allocated
  <2>3. \A q \in Proc, s \in Off : Unlinking(q, s)' <=> Unlinking(q, s)
    BY <1>0, <2>1 DEF Others, Unlinking, UnlinkPC
  <2>4. \A s \in RecOff : Nxt'[s] = Nxt[s]
    <3> SUFFICES ASSUME NEW s \in RecOff PROVE Nxt'[s] = Nxt[s]
      OBVIOUS
    <3>0. s \in Off /\ ptr'[s] = ptr[s]
      BY <2>2
    <3>1. CASE \E q \in Proc : Unlinking(q, s)
      BY <2>1, <2>3, <3>0, <3>1, SuccIs, SuccIsNext
    <3>2. CASE ~\E q \in Proc : Unlinking(q, s)
      BY <2>3, <3>0, <3>2, SuccIs, SuccIsNext
    <3> QED BY <3>1, <3>2
  <2>5. Nxt'[x] = ptr[c]
    <3>1. \A q \in Proc : ~Unlinking(q, x)
      BY <1>1, <1>3, <1>w DEF PlacesOK, PlaceOK, AtFree, Unlinking, UnlinkPC
    <3>2. Nxt[x] = ptr[x]
      BY <1>3, <3>1, SuccIs
    <3> QED BY <1>3, <2>4, <3>2
  <2>m. PICK m2 : m2 = [m EXCEPT ![c] = m[c] \cup {x}]
    OBVIOUS
  <2>r. PICK r2 : r2 = [r EXCEPT ![x] = b + 1]
    OBVIOUS
  <2>6. /\ m2[c] = m[c] \cup {x} /\ \A d \in 1 .. NHASH : d # c => m2[d] = m[d]
        /\ m2 \in [1 .. NHASH -> SUBSET RecOff]
    BY <1>1, <1>3, <1>w, <2>m DEF Witness
  <2>7. /\ r2[x] = b + 1 /\ \A s \in RecOff : s # x => r2[s] = r[s]
        /\ r2 \in [RecOff -> 0 .. b + 1]
    BY <1>3, <1>w, <2>r, RankPush DEF Witness
  <2>8. \A d \in 1 .. NHASH : \A u \in m[d] : u \in RecOff /\ u # x /\ r2[u] = r[u]
    BY <1>3, <1>w, <2>7 DEF Witness
  <2>9. IsList(ptr'[c], Nxt', m[c] \cup {x}, r2)
    <3>0. IsList(ptr[c], Nxt, m[c], r)
      BY <1>2 DEF ChainOK
    <3>n. PICK n, n2, h : n = Nxt /\ n2 = Nxt' /\ h = ptr[c]
      OBVIOUS
    <3>1. IsList(h, n, m[c], r) /\ n2[x] = h /\ \A s \in m[c] : n2[s] = n[s]
      BY <1>1, <2>4, <2>5, <2>8, <3>0, <3>n
    <3>2. /\ \A s \in m[c] : r2[s] = r[s] /\ r[s] \in 0 .. b
          /\ 0 \notin m[c] /\ x # 0 /\ x \notin m[c] /\ b \in Nat
      BY <1>1, <1>3, <1>w, <2>8, Offsets DEF Witness
    <3>3. IsList(x, n2, m[c] \cup {x}, r2)
      BY <2>7, <3>1, <3>2, ListPush
    <3> QED BY <2>2, <3>n, <3>3
  <2>10. ChainsOK(m2, r2)'
    <3> SUFFICES ASSUME NEW d \in 1 .. NHASH PROVE ChainOK(d, m2, r2)'
      BY DEF ChainsOK
    <3>0. ChainOK(d, m, r) /\ m[d] \subseteq RecOff
      BY <1>w DEF ChainsOK, Witness
    <3>1. CASE d # c
      <4>1. \A u \in m[d] : rec'[u].key = rec[u].key /\ r2[u] = r[u] /\ Nxt'[u] = Nxt[u]
        BY <2>1, <2>4, <2>8, <3>0
      <4>2. \A u \in m[d], q \in Proc :
              Unlinking(q, u) => Unlinking(q, u)' /\ call'[q].key = call[q].key
        BY <2>1, <2>2, <2>3, <3>0
      <4>3. ptr'[d] = ptr[d] /\ m2[d] = m[d]
        BY <2>2, <2>6, <3>1, Offsets
      <4> QED BY <2>2, <3>0, <4>1, <4>2, <4>3, ChainFrame
    <3>2. CASE d = c
      <4>1. ASSUME NEW s \in m2[c]
            PROVE  /\ s \in Allocated' /\ s <= PTR_MAX
                   /\ rec'[s].key # Blank => chainoff(rec'[s].key) = c
                   /\ rec'[s].key = Blank =>
                       \E q \in Proc : Unlinking(q, s)' /\ chainoff(call'[q].key) = c
        <5>1. CASE s = x
          BY <1>1, <1>3, <1>c, <2>1, <2>2, <5>1
        <5>2. CASE s \in m[c]
          <6>1. s \in Off
            BY <2>2, <3>0, <3>2, <5>2
          <6>2. /\ s \in Allocated /\ s <= PTR_MAX
                /\ rec[s].key # Blank => chainoff(rec[s].key) = c
                /\ rec[s].key = Blank =>
                    \E q \in Proc : Unlinking(q, s) /\ chainoff(call[q].key) = c
            BY <1>2, <5>2 DEF ChainOK
          <6>3. \A q \in Proc : Unlinking(q, s) => Unlinking(q, s)'
            BY <2>3, <6>1
          <6> QED BY <2>1, <2>2, <6>2, <6>3
        <5> QED BY <2>6, <5>1, <5>2
      <4>2. \A s, t \in m2[c] :
              rec'[s].key = rec'[t].key /\ rec'[s].key # Blank => s = t
        BY <1>2, <1>3, <2>1, <2>6 DEF ChainOK
      <4> QED BY <2>6, <2>9, <3>2, <4>1, <4>2 DEF ChainOK
    <3> QED BY <3>1, <3>2
  <2>11. \A u \in f : u \in RecOff /\ ptr'[u] = ptr[u] /\ g[u] = g[u]
    BY <1>w, <2>2 DEF Witness
  <2>12. FreeOK(f, g)'
    <3>1. IsList(ptr'[FREE_OFF], ptr', f, g)
      BY <1>w, <2>2, <2>11, ListFrame DEF FreeOK
    <3> QED BY <1>w, <2>1, <2>2, <3>1 DEF FreeOK
  <2>13. \A q \in Proc \ {p} : PlaceOK(q, m2, r2, f)'
    <3>1. \A d \in 1 .. NHASH : d # c =>
             /\ m2[d] = m[d] /\ ptr'[d] = ptr[d]
             /\ \A u \in m[d] : /\ rec'[u].key = rec[u].key /\ r2[u] = r[u]
                                /\ ptr'[u] = ptr[u]
      BY <2>1, <2>2, <2>6, <2>8, Offsets
    <3>2. ASSUME NEW q \in Proc \ {p}, pc[q] \in TakenPC \cup LinkPC
          PROVE  /\ rec'[db[q].idxoff].key = rec[db[q].idxoff].key
                 /\ ptr'[db[q].idxoff] = ptr[db[q].idxoff]
                 /\ \A d \in 1 .. NHASH : db[q].idxoff \notin m2[d]
                 /\ pc[q] \in TakenPC => db[q].idxoff \notin f
      <4>1. /\ db[q].idxoff \in RecOff /\ \A d \in 1 .. NHASH : db[q].idxoff \notin m[d]
            /\ pc[q] \in TakenPC => db[q].idxoff \notin f /\ rec[db[q].idxoff].key = Blank
            /\ pc[q] \in LinkPC /\ call[q].key \in Key => rec[db[q].idxoff].key = call[q].key
        BY <1>w, <3>2, OthersHold
      <4>2. ASSUME db[q].idxoff = x PROVE FALSE
        <5>1. pc[q] \in LinkPC
          BY <1>1, <1>3, <3>2, <4>1, <4>2
        <5>2. pc[q] \in ChainPC /\ call[q].key \in Key
          BY <5>1, OneWriter DEF LinkPC, ChainPC, StorePC
        <5>3. call[q].key = call[p].key
          BY <1>3, <4>1, <4>2, <5>1, <5>2
        <5> QED BY <1>1, <5>2, <5>3, OneWriter
      <4> QED BY <2>1, <2>2, <2>6, <4>1, <4>2
    <3> QED BY <1>1, <1>c, <1>w, <2>1, <2>2, <2>11, <3>1, <3>2, OthersStay
  <2>14. PlaceOK(p, m2, r2, f)'
    BY <2>1, AwayPlace
  <2>15. Apart'
    BY <1>w, <2>1 DEF Apart, Others, TakenPC
  <2>16. Complete(m2, f)'
    <3> SUFFICES ASSUME crashes' = 0, NEW s \in Allocated'
                 PROVE  /\ rec'[s].key # Blank /\ s <= PTR_MAX =>
                           \/ s \in m2[chainoff(rec'[s].key)]
                           \/ \E q \in Proc : pc'[q] \in LinkPC /\ db'[q].idxoff = s
                        /\ rec'[s].key = Blank =>
                           \/ s \in f
                           \/ \E q \in Proc : pc'[q] \in TakenPC \cup {"del_head"} /\ db'[q].idxoff = s
      BY CompleteNext
    <3>0. s \in Allocated /\ rec' = rec /\ s \in RecOff /\ crashes = 0
      BY <2>1, <2>2 DEF Allocated
    <3>1. CASE s = x
      BY <1>1, <1>3, <1>c, <2>6, <3>0, <3>1
    <3>2. CASE s # x
      <4>1. ASSUME NEW q \in Proc, db[q].idxoff = s
            PROVE  pc'[q] = pc[q] /\ db'[q] = db[q]
        BY <1>x, <2>1, <3>2, <4>1 DEF Others
      <4>2. ASSUME rec[s].key # Blank, s \in m[chainoff(rec[s].key)]
            PROVE  s \in m2[chainoff(rec[s].key)]
        <5>1. rec \in [RecOff -> Slot]
          BY DEF IFormat, IType, TypeOK
        <5>2. rec[s].key \in Key
          BY <3>0, <4>2, <5>1 DEF Slot
        <5>3. chainoff(rec[s].key) \in 1 .. NHASH
          BY <5>2, DbConst DEF chainoff
        <5> QED BY <2>6, <4>2, <5>3
      <4> QED BY <1>w, <3>0, <4>1, <4>2 DEF Complete
    <3> QED BY <3>1, <3>2
  <2>17. Witness(m2, r2, f, g, b + 1)
    BY <1>w, <2>6, <2>7 DEF Witness
  <2>18. ListsOK(m2, r2, f, g, b + 1)'
    BY <2>10, <2>12, <2>13, <2>14, <2>15, <2>16, <2>17 DEF ListsOK, PlacesOK, Witness
  <2>19. Moves(p, m, m2)
    BY <1>0, <1>x, <2>6 DEF Moves
  <2> QED BY <2>18, <2>19
<1> QED BY <1>a, <1>b

-----------------------------------------------------------------------------
(* The lists hold together from the first step to the last.                *)

LEMMA ListsInit == Init => ILists
<1> SUFFICES ASSUME Init PROVE ILists
  OBVIOUS
<1>1. IFormat /\ IExcl
  BY FormatInit, ExclInit
<1>2. Allocated = {}
  BY <1>1, DbConst DEF Init, Allocated, RecOff, FirstRec
<1>m. PICK m : m = [c \in 1 .. NHASH |-> {}]
  OBVIOUS
<1>r. PICK r : r = [o \in RecOff |-> 0]
  OBVIOUS
<1>3. Witness(m, r, {}, r, 0) /\ \A c \in 1 .. NHASH : m[c] = {}
  BY <1>m, <1>r DEF Witness
<1>4. \A c \in 1 .. NHASH : ptr[c] = 0
  BY Offsets DEF Init
<1>5. ptr[FREE_OFF] = 0
  BY Offsets DEF Init
<1>6. ChainsOK(m, r) /\ FreeOK({}, r)
  BY <1>3, <1>4, <1>5 DEF ChainsOK, ChainOK, FreeOK, IsList
<1>7. PlacesOK(m, r, {})
  BY DEF Init, PlacesOK, PlaceOK, AtChain, AtFree, Holding, FoundPC, PredPC,
     UnlinkPC, AbsentPC, HeadPC, LinkPC, TakenPC, StorePC, FreePC
<1>8. Apart /\ Complete(m, {})
  BY <1>2 DEF Init, Apart, TakenPC, Complete
<1>9. ListsOK(m, r, {}, r, 0)
  BY <1>3, <1>6, <1>7, <1>8 DEF ListsOK
<1> QED BY <1>1, <1>9 DEF ILists

\* Every step but a kill.
LEMMA ListsStep ==
  ASSUME IFormat, IFormat', IExcl, IExcl', NEW p \in Proc,
         Step(p) \/ (\E e \in Calls : Call(p, e)) \/ db_rewind(p),
         NEW m, NEW r, NEW f, NEW g, NEW b, ListsOK(m, r, f, g, b)
  PROVE  \E m2, r2, f2, g2, b2 : ListsOK(m2, r2, f2, g2, b2)' /\ Moves(p, m, m2)
<1>0. Moves(p, m, m)
  BY DEF Moves
<1>1. CASE \/ LockChain(p) \/ DelLock(p) \/ DelDat(p) \/ DelUnlock(p) \/ FreeLock(p)
           \/ FreeUnlock(p) \/ AppDatLock(p) \/ AppDat(p) \/ AppDatUnlock(p)
           \/ AppIdxLock(p) \/ AppIdxUnlock(p) \/ ReuseDat(p) \/ RewriteDat(p)
  <2>1. ListsOK(m, r, f, g, b)' BY <1>1, ForwardSteps
  <2> QED BY <1>0, <2>1
<1>2. CASE \/ ReadDat(p) \/ Return(p) \/ NextLock(p) \/ NextHdr(p) \/ NextBody(p)
           \/ db_rewind(p)
  <2>1. ListsOK(m, r, f, g, b)' BY <1>2, AwaySteps
  <2> QED BY <1>0, <2>1
<1>3. CASE \E e \in Calls : Call(p, e)
  <2>1. ListsOK(m, r, f, g, b)' BY <1>3, CallLists
  <2> QED BY <1>0, <2>1
<1>4. CASE ReadHead(p)
  <2>1. ListsOK(m, r, f, g, b)' BY <1>4, ReadHeadLists
  <2> QED BY <1>0, <2>1
<1>5. CASE ReadHdr(p)
  <2>1. ListsOK(m, r, f, g, b)' BY <1>5, ReadHdrLists
  <2> QED BY <1>0, <2>1
<1>6. CASE ReadBody(p)
  <2>1. ListsOK(m, r, f, g, b)' BY <1>6, ReadBodyLists
  <2> QED BY <1>0, <2>1
<1>7. CASE DelFree(p) \/ StoreHead(p)
  <2>1. ListsOK(m, r, f, g, b)' BY <1>7, DelFreeLists
  <2> QED BY <1>0, <2>1
<1>8. CASE FreeHead(p)
  <2>1. ListsOK(m, r, f, g, b)' BY <1>8, FreeHeadLists
  <2> QED BY <1>0, <2>1
<1>9. CASE FreeBody(p)
  <2>1. ListsOK(m, r, f, g, b)' BY <1>9, FreeBodyLists
  <2> QED BY <1>0, <2>1
<1>10. CASE DelIdx(p)
  <2>1. ListsOK(m, r, f, g, b)' BY <1>10, DelIdxLists
  <2> QED BY <1>0, <2>1
<1>11. CASE DelHead(p)
  <2>1. \E f2, g2, b2 : ListsOK(m, r, f2, g2, b2)' BY <1>11, DelHeadLists
  <2> QED BY <1>0, <2>1
<1>12. CASE DelLink(p)
  <2>1. \E m2 : ListsOK(m2, r, f, g, b)' /\ Moves(p, m, m2) BY <1>12, DelLinkLists
  <2> QED BY <1>0, <2>1
<1>13. CASE FreeTake(p)
  <2>1. \E f2 : ListsOK(m, r, f2, g, b)' BY <1>13, FreeTakeLists
  <2> QED BY <1>0, <2>1
<1>14. CASE AppIdx(p)
  <2>1. ListsOK(m, r, f, g, b)' BY <1>14, AppIdxLists
  <2> QED BY <1>0, <2>1
<1>15. CASE ReuseIdx(p)
  <2>1. ListsOK(m, r, f, g, b)' BY <1>15, ReuseIdxLists
  <2> QED BY <1>0, <2>1
<1>16. CASE StoreLink(p)
  <2>1. \E m2, r2, b2 : ListsOK(m2, r2, f, g, b2)' /\ Moves(p, m, m2) BY <1>16, StoreLinkLists
  <2> QED BY <1>0, <2>1
<1> QED BY <1>1, <1>2, <1>3, <1>4, <1>5, <1>6, <1>7, <1>8, <1>9, <1>10, <1>11,
     <1>12, <1>13, <1>14, <1>15, <1>16 DEF Step

\* The invariant is inductive as long as no kill falls between the last two
\* writes of _db_dodelete; without kills it always is.
LEMMA ListsNext ==
  Rewinds /\ ILists /\ [Next]_vars /\ (CleanKills \/ crashes' = 0) => ILists'
<1> SUFFICES ASSUME Rewinds, ILists, [Next]_vars, CleanKills \/ crashes' = 0
             PROVE  ILists'
  OBVIOUS
<1>1. IFormat /\ IExcl /\ IFormat' /\ IExcl'
  BY FormatNext, ExclNext DEF ILists
<1>2. PICK m, r, f, g, b : ListsOK(m, r, f, g, b)
  BY DEF ILists
<1>3. CASE UNCHANGED vars
  <2>1. ListsOK(m, r, f, g, b)'
    BY <1>2, <1>3 DEF vars, ListsOK, ChainsOK, ChainOK, FreeOK, PlacesOK, PlaceOK,
       AtChain, AtFree, Holding, Apart, Complete, Allocated, Nxt, Succ, Unlinking
  <2> QED BY <1>1, <2>1 DEF ILists
<1>4. ASSUME NEW p \in Proc, Step(p) \/ (\E e \in Calls : Call(p, e)) \/ db_rewind(p)
      PROVE  ILists'
  BY <1>1, <1>2, <1>4, ListsStep DEF ILists
<1>5. ASSUME NEW p \in Proc, Crash(p) PROVE ILists'
  <2>1. crashes' # 0
    <3>1. crashes \in Nat
      BY <1>1, DbConst DEF IFormat, IType, TypeOK
    <3> QED BY <1>5, <3>1 DEF Crash
  <2>2. ListsOK(m, r, f, g, b)'
    BY <1>1, <1>2, <1>5, <2>1, CrashLists
  <2> QED BY <1>1, <2>2 DEF ILists
<1> QED BY <1>3, <1>4, <1>5 DEF Next

-----------------------------------------------------------------------------
(* What a walk finds.                                                      *)

LEMMA Members ==
  ASSUME IFormat, IExcl, NEW m, NEW r, NEW f, NEW g, NEW b, ListsOK(m, r, f, g, b)
  PROVE  /\ Ends(FREE_OFF) /\ Reach(FREE_OFF) = f
         /\ \A c \in 1 .. NHASH : Ends(c) /\ Reach(c) = m[c]
<1>0. /\ db \in [Proc -> Handle] /\ ptr \in [Off -> Off] /\ MaxOff \in Nat
      /\ Witness(m, r, f, g, b) /\ ChainsOK(m, r) /\ FreeOK(f, g)
  BY DbConst DEF ListsOK, IFormat, IType, TypeOK
<1>1. Nxt \in [Off -> Off]
  <2> SUFFICES ASSUME NEW s \in Off PROVE Succ(s) \in Off
    BY DEF Nxt
  <2>1. ASSUME NEW p \in Proc, Unlinking(p, s) PROVE Succ(s) \in Off
    <3>1. Nxt[s] = db[p].ptrval
      BY <2>1, SuccIs
    <3> QED BY <1>0, <3>1 DEF Nxt, Handle
  <2>2. CASE ~\E p \in Proc : Unlinking(p, s)
    BY <1>0, <2>2 DEF Succ
  <2> QED BY <2>1, <2>2
<1>2. RecOff \subseteq 1 .. MaxOff
  BY DbConst DEF RecOff, FirstRec
<1>3. Ends(FREE_OFF) /\ Reach(FREE_OFF) = f
  <2>w. PICK w : w = Walk(FREE_OFF)
    OBVIOUS
  <2>1. Follow(ptr[FREE_OFF], ptr, w, MaxOff)
    <3>1. FREE_OFF \in 0 .. NHASH
      BY DbConst DEF FREE_OFF
    <3> QED BY <1>0, <2>w, <3>1, WalkFollows
  <2>2. IsList(ptr[FREE_OFF], ptr, f, g)
    BY <1>0 DEF FreeOK
  <2>3. f \in SUBSET (1 .. MaxOff) /\ b \in Nat /\ \A s \in f : g[s] \in 0 .. b
    BY <1>0, <1>2 DEF Witness
  <2>4. WalksList(w, MaxOff, ptr[FREE_OFF], ptr, f, g, b)
    BY <1>0, <2>1, <2>2, <2>3 DEF WalksList
  <2>5. w[MaxOff] = 0 /\ {w[i] : i \in 0 .. MaxOff} \ {0} = f
    BY <2>4, FollowList
  <2> QED BY <2>5, <2>w DEF Ends, Reach
<1>4. ASSUME NEW c \in 1 .. NHASH PROVE Ends(c) /\ Reach(c) = m[c]
  <2>w. PICK w : w = Walk(c)
    OBVIOUS
  <2>1. Follow(ptr[c], Nxt, w, MaxOff)
    <3>1. c \in 0 .. NHASH /\ c # FREE_OFF
      BY DbConst DEF FREE_OFF
    <3>2. \A s \in Off : Nxt[s] = Succ(s)
      BY DEF Nxt
    <3> QED BY <1>1, <2>w, <3>1, <3>2, WalkFollows
  <2>2. IsList(ptr[c], Nxt, m[c], r)
    BY <1>0 DEF ChainsOK, ChainOK
  <2>3. m[c] \in SUBSET (1 .. MaxOff) /\ b \in Nat /\ \A s \in m[c] : r[s] \in 0 .. b
    BY <1>0, <1>2 DEF Witness
  <2>4. WalksList(w, MaxOff, ptr[c], Nxt, m[c], r, b)
    BY <1>0, <2>1, <2>2, <2>3 DEF WalksList
  <2>5. w[MaxOff] = 0 /\ {w[i] : i \in 0 .. MaxOff} \ {0} = m[c]
    BY <2>4, FollowList
  <2> QED BY <2>5, <2>w DEF Ends, Reach
<1> QED BY <1>3, <1>4

LEMMA SoundHolds == ILists => ListsSound
<1> SUFFICES ASSUME ILists PROVE ListsSound
  OBVIOUS
<1>1. IFormat /\ IExcl
  BY DEF ILists
<1>2. PICK m, r, f, g, b : ListsOK(m, r, f, g, b)
  BY DEF ILists
<1>3. /\ Ends(FREE_OFF) /\ Reach(FREE_OFF) = f
      /\ \A c \in 1 .. NHASH : Ends(c) /\ Reach(c) = m[c]
  BY <1>1, <1>2, Members
<1>4. ASSUME NEW c \in 1 .. NHASH, wlk[c] = {} PROVE m[c] \subseteq LiveIn(c)
  <2> SUFFICES ASSUME NEW s \in m[c] PROVE s \in LiveIn(c)
    OBVIOUS
  <2>1. /\ s \in Allocated /\ s <= PTR_MAX
        /\ rec[s].key # Blank => chainoff(rec[s].key) = c
        /\ rec[s].key = Blank =>
             \E p \in Proc : Unlinking(p, s) /\ chainoff(call[p].key) = c
    BY <1>2 DEF ListsOK, ChainsOK, ChainOK
  <2>2. ASSUME NEW p \in Proc, Unlinking(p, s), chainoff(call[p].key) = c PROVE FALSE
    <3>1. pc[p] \in ChainPC /\ call[p].op # "fetch"
      BY <1>1, <2>2, OneWriter DEF Unlinking, DelPC
    <3> QED BY <1>1, <1>4, <2>2, <3>1 DEF IExcl, HoldsOK, Holds
  <2> QED BY <2>1, <2>2 DEF LiveIn
<1>5. \A s \in f : rec[s].key = Blank
  BY <1>2 DEF ListsOK, FreeOK
<1> QED BY <1>3, <1>4, <1>5 DEF ListsSound

LEMMA ExactHolds == ILists /\ crashes = 0 => UniqueKey /\ ChainsExact /\ FreeExact
<1> SUFFICES ASSUME ILists, crashes = 0 PROVE UniqueKey /\ ChainsExact /\ FreeExact
  OBVIOUS
<1>1. IFormat /\ IExcl
  BY DEF ILists
<1>2. PICK m, r, f, g, b : ListsOK(m, r, f, g, b)
  BY DEF ILists
<1>3. /\ Ends(FREE_OFF) /\ Reach(FREE_OFF) = f
      /\ \A c \in 1 .. NHASH : Ends(c) /\ Reach(c) = m[c]
  BY <1>1, <1>2, Members
<1>w. PlacesOK(m, r, f) /\ ChainsOK(m, r) /\ FreeOK(f, g) /\ Complete(m, f)
  BY <1>2 DEF ListsOK
\* A live record is on its chain or in the hands of its writer.
<1>4. ASSUME NEW s \in Allocated, rec[s].key # Blank, s <= PTR_MAX
      PROVE  /\ chainoff(rec[s].key) \in 1 .. NHASH /\ rec[s].key \in Key
             /\ \/ s \in m[chainoff(rec[s].key)]
                \/ \E p \in Proc : /\ pc[p] \in LinkPC /\ db[p].idxoff = s
                                   /\ call[p].key = rec[s].key
                                   /\ pc[p] \in ChainPC /\ call[p].op # "fetch"
  <2>1. rec[s].key \in Key
    <3>1. rec \in [RecOff -> Slot] /\ s \in RecOff
      BY <1>1 DEF IFormat, IType, TypeOK, Allocated
    <3> QED BY <1>4, <3>1 DEF Slot
  <2>2. chainoff(rec[s].key) \in 1 .. NHASH
    BY <2>1, DbConst DEF chainoff
  <2>3. ASSUME NEW p \in Proc, pc[p] \in LinkPC, db[p].idxoff = s
        PROVE  call[p].key = rec[s].key /\ pc[p] \in ChainPC /\ call[p].op # "fetch"
    <3>1. pc[p] \in ChainPC /\ call[p].op # "fetch" /\ call[p].key \in Key
      BY <1>1, <2>3, OneWriter DEF LinkPC, StorePC
    <3> QED BY <1>1, <1>w, <2>3, <3>1, OthersHold
  <2> QED BY <1>4, <1>w, <2>1, <2>2, <2>3 DEF Complete
<1>5. UniqueKey
  <2> SUFFICES ASSUME NEW k \in Key, NEW s \in Live(k), NEW t \in Live(k),
                      s <= PTR_MAX, t <= PTR_MAX
               PROVE  s = t
    BY DEF UniqueKey
  <2>0. /\ s \in Allocated /\ t \in Allocated /\ rec[s].key = k /\ rec[t].key = k
        /\ k # Blank
    BY DbConst DEF Live
  <2>c. PICK c : c = chainoff(k)
    OBVIOUS
  <2>1. c \in 1 .. NHASH
    BY <1>4, <2>0, <2>c
  <2>a. \/ s \in m[c]
        \/ \E p \in Proc : /\ pc[p] \in LinkPC /\ db[p].idxoff = s /\ call[p].key = k
                           /\ pc[p] \in ChainPC /\ call[p].op # "fetch"
    BY <1>4, <2>0, <2>c
  <2>b. \/ t \in m[c]
        \/ \E p \in Proc : /\ pc[p] \in LinkPC /\ db[p].idxoff = t /\ call[p].key = k
                           /\ pc[p] \in ChainPC /\ call[p].op # "fetch"
    BY <1>4, <2>0, <2>c
  <2>2. \A p \in Proc : pc[p] \in LinkPC /\ call[p].key = k =>
           \A u \in m[c] : rec[u].key # k
    <3> SUFFICES ASSUME NEW p \in Proc, pc[p] \in LinkPC, call[p].key = k
                 PROVE  \A u \in m[c] : rec[u].key # k
      OBVIOUS
    <3>1. AtChain(p, c, m[c], r)
      BY <1>w, <2>c DEF PlacesOK, PlaceOK
    <3> QED BY <3>1 DEF AtChain, LinkPC, AbsentPC, StorePC
  <2>3. \A p, q \in Proc : /\ call[p].key = k /\ call[q].key = k
                           /\ pc[p] \in ChainPC /\ pc[q] \in ChainPC
                           /\ call[p].op # "fetch"
                           => p = q
    BY <1>1, OneWriter
  <2>4. s \in m[c] /\ t \in m[c] => s = t
    BY <1>w, <2>0, <2>1 DEF ChainsOK, ChainOK
  <2> QED BY <2>0, <2>a, <2>b, <2>2, <2>3, <2>4
<1>6. ChainsExact
  <2> SUFFICES ASSUME NEW c \in 1 .. NHASH, wlk[c] = {}
               PROVE  Ends(c) /\ Reach(c) = LiveIn(c)
    BY DEF ChainsExact
  <2>1. Reach(c) \subseteq LiveIn(c)
    BY SoundHolds DEF ListsSound
  <2>2. ASSUME NEW s \in LiveIn(c) PROVE s \in m[c]
    <3>1. s \in Allocated /\ rec[s].key # Blank /\ chainoff(rec[s].key) = c /\ s <= PTR_MAX
      BY DEF LiveIn
    <3>2. ASSUME NEW p \in Proc, pc[p] \in ChainPC, call[p].op # "fetch",
                 call[p].key = rec[s].key
          PROVE  FALSE
      BY <1>1, <3>1, <3>2 DEF IExcl, HoldsOK, Holds
    <3> QED BY <1>4, <3>1, <3>2
  <2> QED BY <1>3, <2>1, <2>2
<1>7. FreeExact
  <2> SUFFICES ASSUME wlk[FREE_OFF] = {}
               PROVE  /\ Ends(FREE_OFF)
                      /\ f = {s \in Allocated : rec[s].key = Blank} \ Taken
    BY <1>3 DEF FreeExact
  <2>1. \A s \in f : s \in Allocated /\ rec[s].key = Blank /\ s \notin Taken
    <3>1. \A p \in Proc : pc[p] \in TakenPC => db[p].idxoff \notin f
      BY <1>w DEF PlacesOK, PlaceOK, Holding
    <3> QED BY <1>w, <3>1 DEF FreeOK, Taken, TakenPC
  <2>2. ASSUME NEW s \in Allocated, rec[s].key = Blank, s \notin Taken PROVE s \in f
    <3>1. \/ s \in f
          \/ \E p \in Proc : pc[p] \in TakenPC \cup {"del_head"} /\ db[p].idxoff = s
      BY <1>w, <2>2 DEF Complete
    <3>2. \A p \in Proc : pc[p] # "del_head"
      BY <1>1 DEF IExcl, HoldsOK, Holds, ListPC, DelPC
    <3> QED BY <2>2, <3>1, <3>2 DEF Taken, TakenPC
  <2> QED BY <1>3, <2>1, <2>2
<1> QED BY <1>5, <1>6, <1>7

-----------------------------------------------------------------------------
(* The theorems.                                                           *)

\* Until a process is killed the invariant holds whatever CrashAt allows.
UntilKilled == IFormat /\ IExcl /\ (crashes = 0 => ILists)

LEMMA UntilKilledNext == Rewinds /\ UntilKilled /\ [Next]_vars => UntilKilled'
<1> SUFFICES ASSUME Rewinds, UntilKilled, [Next]_vars PROVE UntilKilled'
  OBVIOUS
<1>1. IFormat /\ IExcl /\ IFormat' /\ IExcl'
  BY FormatNext, ExclNext DEF UntilKilled
<1>2. crashes' = 0 => crashes = 0
  <2>1. crashes \in Nat
    BY <1>1, DbConst DEF IFormat, IType, TypeOK
  <2>2. CASE UNCHANGED vars
    BY <2>1, <2>2 DEF vars
  <2>3. ASSUME NEW p \in Proc, Step(p) PROVE crashes' = crashes
    <3>1. CASE LockChain(p) \/ ReadHead(p) \/ ReadHdr(p) \/ ReadBody(p) \/ ReadDat(p) \/ Return(p)
      BY <3>1 DEF LockChain, ReadHead, ReadHdr, ReadBody, ReadDat, Return, Gone
    <3>2. CASE DelLock(p) \/ DelDat(p) \/ DelFree(p) \/ DelIdx(p) \/ DelHead(p) \/ DelLink(p)
      BY <3>2 DEF DelLock, DelDat, DelFree, DelIdx, DelHead, DelLink, Gone
    <3>3. CASE DelUnlock(p) \/ StoreHead(p) \/ FreeLock(p) \/ FreeHead(p) \/ FreeBody(p) \/ FreeTake(p)
      BY <3>3 DEF DelUnlock, StoreHead, FreeLock, FreeHead, FreeBody, FreeTake, Gone
    <3>4. CASE FreeUnlock(p) \/ AppDatLock(p) \/ AppDat(p) \/ AppDatUnlock(p) \/ AppIdxLock(p) \/ AppIdx(p)
      BY <3>4 DEF FreeUnlock, AppDatLock, AppDat, AppDatUnlock, AppIdxLock, AppIdx, Gone
    <3>5. CASE AppIdxUnlock(p) \/ ReuseDat(p) \/ ReuseIdx(p) \/ RewriteDat(p) \/ StoreLink(p) \/ NextLock(p)
      BY <3>5 DEF AppIdxUnlock, ReuseDat, ReuseIdx, RewriteDat, StoreLink, NextLock, Gone
    <3>6. CASE NextHdr(p) \/ NextBody(p)
      BY <3>6 DEF NextHdr, NextBody, Gone
    <3> QED BY <2>3, <3>1, <3>2, <3>3, <3>4, <3>5, <3>6 DEF Step
  <2>4. ASSUME NEW p \in Proc, (\E e \in Calls : Call(p, e)) \/ db_rewind(p)
        PROVE  crashes' = crashes
    BY <2>4 DEF Call, db_rewind
  <2>5. ASSUME NEW p \in Proc, Crash(p) PROVE crashes' = crashes + 1
    BY <2>5 DEF Crash
  <2> QED BY <2>1, <2>2, <2>3, <2>4, <2>5 DEF Next
<1>3. crashes' = 0 => ILists'
  BY <1>2, ListsNext DEF UntilKilled
<1> QED BY <1>1, <1>3 DEF UntilKilled

LEMMA UntilKilledInit == Init => UntilKilled
  BY ListsInit DEF UntilKilled, ILists

\* No kill between two writes, other than the last two of _db_dodelete, makes
\* a chain or the free list endless, or puts a foreign record on it.
THEOREM ListsStaySound == Rewinds /\ CleanKills => (Spec => []ListsSound)
<1> SUFFICES ASSUME Rewinds, CleanKills PROVE Spec => []ListsSound
  OBVIOUS
<1>1. Init => ILists BY ListsInit
<1>2. ILists /\ [Next]_vars => ILists' BY ListsNext
<1>3. ILists => ListsSound BY SoundHolds
<1> QED BY <1>1, <1>2, <1>3, PTL DEF Spec

\* Until a process is killed, a chain that nobody is changing holds exactly
\* the live records whose key hashes to it (_db_find_and_lock finds them all).
THEOREM ChainsStayExact == Rewinds => (Spec => [](crashes = 0 => ChainsExact))
<1> SUFFICES ASSUME Rewinds PROVE Spec => [](crashes = 0 => ChainsExact)
  OBVIOUS
<1>1. Init => UntilKilled BY UntilKilledInit
<1>2. UntilKilled /\ [Next]_vars => UntilKilled' BY UntilKilledNext
<1>3. UntilKilled => (crashes = 0 => ChainsExact) BY ExactHolds DEF UntilKilled
<1> QED BY <1>1, <1>2, <1>3, PTL DEF Spec

\* Until a process is killed, a free list that nobody is changing holds
\* exactly the deleted records that no db_store has taken.
THEOREM FreeStaysExact == Rewinds => (Spec => [](crashes = 0 => FreeExact))
<1> SUFFICES ASSUME Rewinds PROVE Spec => [](crashes = 0 => FreeExact)
  OBVIOUS
<1>1. Init => UntilKilled BY UntilKilledInit
<1>2. UntilKilled /\ [Next]_vars => UntilKilled' BY UntilKilledNext
<1>3. UntilKilled => (crashes = 0 => FreeExact) BY ExactHolds DEF UntilKilled
<1> QED BY <1>1, <1>2, <1>3, PTL DEF Spec

\* Until a process is killed, no two records that can be linked carry the
\* same key, however the db_store calls interleave.
THEOREM KeysStayUnique == Rewinds => (Spec => [](crashes = 0 => UniqueKey))
<1> SUFFICES ASSUME Rewinds PROVE Spec => [](crashes = 0 => UniqueKey)
  OBVIOUS
<1>1. Init => UntilKilled BY UntilKilledInit
<1>2. UntilKilled /\ [Next]_vars => UntilKilled' BY UntilKilledNext
<1>3. UntilKilled => (crashes = 0 => UniqueKey) BY ExactHolds DEF UntilKilled
<1> QED BY <1>1, <1>2, <1>3, PTL DEF Spec
=============================================================================
