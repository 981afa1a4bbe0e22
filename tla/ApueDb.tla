------------------------------- MODULE ApueDb -------------------------------
(***************************************************************************)
(* The multi-process record database of apue/20db/db.c: a hashed index     *)
(* file (free-list pointer, hash table of chain pointers, index records)   *)
(* and a data file, shared by processes that synchronise with fcntl record *)
(* locks only.  One action is one system call on a shared file or lock     *)
(* (lseek+read and lseek+write are one step: the file offset is private to *)
(* the process); everything between two such calls is local to the process.*)
(* An append finds the end of the file with lseek(SEEK_END), which is      *)
(* shared, and is one step too (AppDat, AppIdx): both calls are made under *)
(* the lock of the data file or of the index tail, and Exclusion shows     *)
(* that nobody else is then between that lock and its release, so nobody   *)
(* moves the end between the two calls.                                    *)
(*                                                                         *)
(* Offsets in the index file keep their layout with every field one unit   *)
(* wide: 0 is FREE_OFF, 1..NHASH are the chain pointers of the hash table, *)
(* and index records follow.  As in the code, 0 also ends a chain.         *)
(***************************************************************************)
EXTENDS Naturals, Sequences, FiniteSets

CONSTANTS
  Proc,      \* the processes, one open handle each
  Key,       \* well-formed keys (no separator, not all blank)
  Data,      \* data strings of legal length
  Blank,     \* a key or data string overwritten with spaces
  NHASH,     \* number of hash chains (NHASH_DEF)
  Hash,      \* _db_hash: Key -> 0..NHASH-1
  KeyLen,    \* strlen of each key
  DatLen,    \* strlen of each data string, plus one for the newline
  PTR_MAX,   \* largest offset a pointer field can hold
  MaxOff,    \* model bound: last offset of the index file
  Rewinds,   \* TRUE if a caller rewinds before a scan whose offset was lost
  CrashAt,   \* the labels at which a process may be killed
  MaxCrash   \* model bound: number of kills

FREE_OFF == 0
FirstRec == NHASH + 1
Off == 0 .. MaxOff
RecOff == FirstRec .. MaxOff
Pos == {0} \cup FirstRec .. MaxOff + 1

\* The byte ranges that are locked: FREE_OFF, one byte per chain, the index
\* records up to end of file, and the whole data file.
TAIL == NHASH + 1
DAT == NHASH + 2
Lock == 0 .. DAT

ASSUME DbConst ==
  /\ NHASH \in Nat \ {0} /\ MaxOff \in Nat /\ NHASH < MaxOff
  /\ PTR_MAX \in Nat /\ MaxCrash \in Nat
  /\ Hash \in [Key -> 0 .. NHASH - 1]
  /\ KeyLen \in [Key -> Nat] /\ DatLen \in [Data -> Nat]
  /\ Blank \notin Key /\ Blank \notin Data
  /\ Rewinds \in BOOLEAN

chainoff(k) == Hash[k] + 1

-----------------------------------------------------------------------------
(* The calls of apue_db.h and what they return.                            *)

Fetch   == [op : {"fetch"}, key : Key, data : {Blank}, flag : {"none"}]
Delete  == [op : {"delete"}, key : Key, data : {Blank}, flag : {"none"}]
Store   == [op : {"store"}, key : Key, data : Data,
            flag : {"insert", "replace", "store"}]
Nextrec == [op : {"nextrec"}, key : {Blank}, data : {Blank}, flag : {"none"}]
NoCall  == [op |-> "none", key |-> Blank, data |-> Blank, flag |-> "none"]
Calls   == Fetch \cup Delete \cup Store \cup Nextrec

\* rc: "0", "1", "-1" are the integer results; "null" is a NULL pointer,
\* "ptr" a pointer to data (and, for db_nextrec, a key copied out).
Result == [rc : {"pending", "0", "1", "-1", "null", "ptr"},
           key : Key \cup {Blank}, val : Data \cup {Blank}]
Res(rc) == [rc |-> rc, key |-> Blank, val |-> Blank]
Pending == Res("pending")

-----------------------------------------------------------------------------

VARIABLES
  ptr,      \* index file: the pointer field at each offset
  rec,      \* index file: key, data offset and data length of each record
  idxEnd,   \* index file: the offset at end of file
  dat,      \* data file: a sequence of data records
  rlk, wlk, \* fcntl locks: the processes that hold each range shared/exclusive
  pc,       \* where each process is
  call,     \* the arguments of its current call
  db,       \* its DB structure and the locals of the call
  pos,      \* its offset in the index file: a record's, or 0 for any other
  ret,      \* the result its current call will return
  crashes   \* number of kills so far

files == <<ptr, rec, idxEnd, dat>>
locks == <<rlk, wlk>>
vars == <<ptr, rec, idxEnd, dat, rlk, wlk, pc, call, db, pos, ret, crashes>>

Slot == [key : Key \cup {Blank}, klen : Nat, datoff : Nat, datlen : Nat]
NoSlot == [key |-> Blank, klen |-> 0, datoff |-> 0, datlen |-> 0]
DatRec == [val : Data \cup {Blank}, len : Nat]

Handle == [key : Key \cup {Blank}, klen : Nat, datoff : Nat, datlen : Nat,
           idxoff : Off, ptrval : Off, ptroff : Off, offset : Off,
           saveoff : Off, freeptr : Off, hptr : Off,
           idxlen : Nat \X Nat \X Nat]
DB0 == [key |-> Blank, klen |-> 0, datoff |-> 0, datlen |-> 0,
        idxoff |-> 0, ptrval |-> 0, ptroff |-> 0, offset |-> 0,
        saveoff |-> 0, freeptr |-> 0, hptr |-> 0, idxlen |-> <<0, 0, 0>>]

FindPC  == {"lock", "head", "hdr", "body", "dat", "unlock"}
DelPC   == {"del_lock", "del_dat", "del_free", "del_idx", "del_head",
            "del_link", "del_unlock"}
FreePC  == {"ff_lock", "ff_head", "ff_hdr", "ff_body", "ff_take",
            "ff_miss", "ff_done"}
StorePC == {"st_head", "re_head", "ap_dlock", "ap_dat", "ap_dunlock",
            "ap_ilock", "ap_idx", "ap_iunlock", "ru_dat", "ru_idx",
            "rw_dat", "st_link"}
NextPC  == {"nx_lock", "nx_hdr", "nx_body", "nx_dat", "nx_unlock"}
GonePC  == {"quit", "dump"}
PC == {"idle"} \cup FindPC \cup DelPC \cup FreePC \cup StorePC \cup NextPC
        \cup GonePC

TypeOK ==
  /\ ptr \in [Off -> Off]
  /\ rec \in [RecOff -> Slot]
  /\ idxEnd \in FirstRec .. MaxOff + 1
  /\ dat \in Seq(DatRec)
  /\ rlk \in [Lock -> SUBSET Proc]
  /\ wlk \in [Lock -> SUBSET Proc]
  /\ pc \in [Proc -> PC]
  /\ call \in [Proc -> Calls \cup {NoCall}]
  /\ db \in [Proc -> Handle]
  /\ pos \in [Proc -> Pos]
  /\ ret \in [Proc -> Result]
  /\ crashes \in 0 .. MaxCrash

\* db_open has created and initialised the files and each process has
\* opened them; db_open ends with db_rewind.
Init ==
  /\ ptr = [o \in Off |-> 0]
  /\ rec = [o \in RecOff |-> NoSlot]
  /\ idxEnd = FirstRec
  /\ dat = <<>>
  /\ rlk = [l \in Lock |-> {}]
  /\ wlk = [l \in Lock |-> {}]
  /\ pc = [p \in Proc |-> "idle"]
  /\ call = [p \in Proc |-> NoCall]
  /\ db = [p \in Proc |-> DB0]
  /\ pos = [p \in Proc |-> FirstRec]
  /\ ret = [p \in Proc |-> Pending]
  /\ crashes = 0

-----------------------------------------------------------------------------
(* Record locks (readw_lock, writew_lock, un_lock wait until granted).     *)

ReadLock(l, p) ==
  /\ wlk[l] \subseteq {p}
  /\ rlk' = [rlk EXCEPT ![l] = @ \cup {p}]
  /\ UNCHANGED wlk

WriteLock(l, p) ==
  /\ wlk[l] \cup rlk[l] \subseteq {p}
  /\ wlk' = [wlk EXCEPT ![l] = @ \cup {p}]
  /\ UNCHANGED rlk

UnLock(l, p) ==
  /\ rlk' = [rlk EXCEPT ![l] = @ \ {p}]
  /\ wlk' = [wlk EXCEPT ![l] = @ \ {p}]

\* The kernel drops every lock of a process that exits.
DropLocks(p) ==
  /\ rlk' = [l \in Lock |-> rlk[l] \ {p}]
  /\ wlk' = [l \in Lock |-> wlk[l] \ {p}]

Goto(p, l) == pc' = [pc EXCEPT ![p] = l]

\* err_quit and err_dump: the process is gone, its writes stay.
Gone(p, how) ==
  /\ Goto(p, how)
  /\ DropLocks(p)
  /\ call' = [call EXCEPT ![p] = NoCall]
  /\ db' = [db EXCEPT ![p] = DB0]
  /\ ret' = [ret EXCEPT ![p] = Pending]
  /\ UNCHANGED <<files, pos, crashes>>

\* The length field of the index record at o.  Key, data offset and data
\* length determine it.
RecLen(o) == <<rec[o].klen, rec[o].datoff, rec[o].datlen>>

-----------------------------------------------------------------------------
(* Starting a call.                                                        *)

\* Model bound: every db_store in progress may still append one record.
Room == idxEnd + Cardinality({p \in Proc : call[p].op = "store"}) <= MaxOff

Call(p, c) ==
  /\ pc[p] = "idle"
  /\ c.op = "store" => Room
  /\ c.op = "nextrec" /\ Rewinds => pos[p] # 0
  /\ call' = [call EXCEPT ![p] = c]
  /\ IF c.op = "nextrec"
       THEN /\ Goto(p, "nx_lock")
            /\ UNCHANGED db
       ELSE /\ Goto(p, "lock")
            /\ db' = [db EXCEPT ![p] = [DB0 EXCEPT !.ptroff = chainoff(c.key)]]
  /\ UNCHANGED <<files, locks, pos, ret, crashes>>

db_rewind(p) ==
  /\ pc[p] = "idle"
  /\ pos' = [pos EXCEPT ![p] = FirstRec]
  /\ UNCHANGED <<files, locks, pc, call, db, ret, crashes>>

-----------------------------------------------------------------------------
(* _db_find_and_lock                                                       *)

\* Mutant: writers share the chain's lock.
ChainLockShared(p) == ReadLock(chainoff(call[p].key), p)

\* db_fetch searches with writelock = 0, db_delete and db_store with 1.
ChainLock(p) ==
  IF call[p].op = "fetch"
    THEN ReadLock(chainoff(call[p].key), p)
    ELSE WriteLock(chainoff(call[p].key), p)

LockChain(p) ==
  /\ pc[p] = "lock"
  /\ ChainLock(p)
  /\ Goto(p, "head")
  /\ UNCHANGED <<files, call, db, pos, ret, crashes>>

\* The key is not on the chain: what the caller of _db_find_and_lock does.
NotFound(p) ==
  LET c == call[p]
      inserts == c.op = "store" /\ c.flag # "replace"
  IN  /\ Goto(p, IF inserts THEN "st_head" ELSE "unlock")
      /\ ret' = [ret EXCEPT ![p] =
                   IF inserts THEN Pending
                   ELSE Res(IF c.op = "fetch" THEN "null" ELSE "-1")]

\* The key is on the chain, with data of length len.
Found(p, len) ==
  LET c == call[p]
      exists == c.op = "store" /\ c.flag = "insert"
  IN  /\ Goto(p, IF c.op = "fetch" THEN "dat"
                 ELSE IF c.op = "delete" THEN "del_lock"
                 ELSE IF exists THEN "unlock"
                 ELSE IF DatLen[c.data] # len THEN "del_lock" ELSE "rw_dat")
      /\ ret' = [ret EXCEPT ![p] = IF exists THEN Res("1") ELSE Pending]

\* offset = _db_readptr(db, db->ptroff)
ReadHead(p) ==
  /\ pc[p] = "head"
  /\ LET o == ptr[db[p].ptroff] IN
       /\ db' = [db EXCEPT ![p].offset = o]
       /\ IF o = 0 THEN NotFound(p) ELSE Goto(p, "hdr") /\ UNCHANGED ret
  /\ pos' = [pos EXCEPT ![p] = 0]
  /\ UNCHANGED <<files, locks, call, crashes>>

\* First read of _db_readidx: pointer and length of the record at offset.
ReadHdr(p) ==
  /\ pc[p] \in {"hdr", "ff_hdr"}
  /\ LET o == db[p].offset IN
       IF o \in RecOff /\ o < idxEnd
         THEN /\ db' = [db EXCEPT ![p].idxoff = o, ![p].ptrval = ptr[o],
                                  ![p].idxlen = RecLen(o)]
              /\ Goto(p, IF pc[p] = "hdr" THEN "body" ELSE "ff_body")
              /\ UNCHANGED <<files, locks, call, pos, ret, crashes>>
         ELSE Gone(p, "dump")

\* What the second read of _db_readidx leaves in the handle.
BodyOf(h) == [h EXCEPT !.key = rec[h.idxoff].key,
                       !.klen = rec[h.idxoff].klen,
                       !.datoff = rec[h.idxoff].datoff,
                       !.datlen = rec[h.idxoff].datlen]

\* Second read of _db_readidx, the comparison and the advance of the loop.
ReadBody(p) ==
  /\ pc[p] = "body"
  /\ LET h == BodyOf(db[p]) IN
       IF RecLen(h.idxoff) = h.idxlen
         THEN /\ IF h.key = call[p].key
                   THEN /\ db' = [db EXCEPT ![p] = h]
                        /\ Found(p, h.datlen)
                   ELSE /\ db' = [db EXCEPT ![p] =
                              [h EXCEPT !.ptroff = h.offset,
                                        !.offset = h.ptrval]]
                        /\ IF h.ptrval = 0 THEN NotFound(p)
                           ELSE Goto(p, "hdr") /\ UNCHANGED ret
              /\ pos' = [pos EXCEPT ![p] = h.idxoff + 1]
              /\ UNCHANGED <<files, locks, call, crashes>>
         ELSE Gone(p, "dump")

\* _db_readdat for db_fetch and db_nextrec.
ReadDat(p) ==
  /\ pc[p] \in {"dat", "nx_dat"}
  /\ LET h == db[p] IN
       IF h.datoff \in 1 .. Len(dat) /\ dat[h.datoff].len = h.datlen
         THEN /\ ret' = [ret EXCEPT ![p] =
                    [rc |-> "ptr", val |-> dat[h.datoff].val,
                     key |-> IF pc[p] = "dat" THEN Blank ELSE h.key]]
              /\ Goto(p, IF pc[p] = "dat" THEN "unlock" ELSE "nx_unlock")
              /\ UNCHANGED <<files, locks, call, db, pos, crashes>>
         ELSE Gone(p, "dump")

\* un_lock of the chain and return to the caller.  The DB structure and the
\* locals are not read again before the next call sets them.
Return(p) ==
  /\ pc[p] \in {"unlock", "nx_unlock"}
  /\ UnLock(IF pc[p] = "unlock" THEN chainoff(call[p].key) ELSE FREE_OFF, p)
  /\ Goto(p, "idle")
  /\ call' = [call EXCEPT ![p] = NoCall]
  /\ db' = [db EXCEPT ![p] = DB0]
  /\ ret' = [ret EXCEPT ![p] = Pending]
  /\ UNCHANGED <<files, pos, crashes>>

-----------------------------------------------------------------------------
(* _db_dodelete, for db_delete and for a db_store of another length.       *)

DelLock(p) ==
  /\ pc[p] = "del_lock"
  /\ WriteLock(FREE_OFF, p)
  /\ Goto(p, "del_dat")
  /\ UNCHANGED <<files, call, db, pos, ret, crashes>>

\* The data record is overwritten with blanks.
DelDat(p) ==
  /\ pc[p] = "del_dat"
  /\ dat' = [dat EXCEPT ![db[p].datoff] = [val |-> Blank, len |-> db[p].datlen]]
  /\ ret' = [ret EXCEPT ![p] = Res("0")]
  /\ Goto(p, "del_free")
  /\ UNCHANGED <<ptr, rec, idxEnd, locks, call, db, pos, crashes>>

\* freeptr = _db_readptr(db, FREE_OFF); saveptr is the handle's ptrval.
DelFree(p) ==
  /\ pc[p] = "del_free"
  /\ db' = [db EXCEPT ![p].freeptr = ptr[FREE_OFF]]
  /\ pos' = [pos EXCEPT ![p] = 0]
  /\ Goto(p, "del_idx")
  /\ UNCHANGED <<files, locks, call, ret, crashes>>

\* The index record gets a blank key and the free list as its successor.
DelIdx(p) ==
  /\ pc[p] = "del_idx"
  /\ LET h == db[p] IN
       /\ rec' = [rec EXCEPT ![h.idxoff] =
                    [key |-> Blank, klen |-> h.klen,
                     datoff |-> h.datoff, datlen |-> h.datlen]]
       /\ ptr' = [ptr EXCEPT ![h.idxoff] = h.freeptr]
  /\ Goto(p, "del_head")
  /\ UNCHANGED <<idxEnd, dat, locks, call, db, pos, ret, crashes>>

DelHead(p) ==
  /\ pc[p] = "del_head"
  /\ ptr' = [ptr EXCEPT ![FREE_OFF] = db[p].idxoff]
  /\ Goto(p, "del_link")
  /\ UNCHANGED <<rec, idxEnd, dat, locks, call, db, pos, ret, crashes>>

\* Mutant: the head of the chain is taken for the predecessor.
ChainPredHead(p) == chainoff(call[p].key)

ChainPred(p) == db[p].ptroff

\* The predecessor on the chain skips the record.
DelLink(p) ==
  /\ pc[p] = "del_link"
  /\ ptr' = [ptr EXCEPT ![ChainPred(p)] = db[p].ptrval]
  /\ Goto(p, "del_unlock")
  /\ UNCHANGED <<rec, idxEnd, dat, locks, call, db, pos, ret, crashes>>

\* Mutant: the free list stays locked.
DelUnlockForgotten(p) ==
  /\ pc[p] = "del_unlock"
  /\ Goto(p, IF call[p].op = "delete" THEN "unlock" ELSE "re_head")
  /\ UNCHANGED <<files, locks, call, db, pos, ret, crashes>>

DelUnlock(p) ==
  /\ pc[p] = "del_unlock"
  /\ UnLock(FREE_OFF, p)
  /\ Goto(p, IF call[p].op = "delete" THEN "unlock" ELSE "re_head")
  /\ UNCHANGED <<files, call, db, pos, ret, crashes>>

-----------------------------------------------------------------------------
(* db_store: the head of the chain is read before a new record is placed.  *)

\* Mutant: the head of the chain is redirected before the record exists.
StoreHeadLinksFirst(p) ==
  /\ pc[p] \in {"st_head", "re_head"}
  /\ idxEnd <= MaxOff
  /\ db' = [db EXCEPT ![p].hptr = ptr[chainoff(call[p].key)]]
  /\ ptr' = [ptr EXCEPT ![chainoff(call[p].key)] = idxEnd]
  /\ pos' = [pos EXCEPT ![p] = 0]
  /\ Goto(p, IF pc[p] = "st_head" THEN "ff_lock" ELSE "ap_dlock")
  /\ UNCHANGED <<rec, idxEnd, dat, locks, call, ret, crashes>>

StoreHead(p) ==
  /\ pc[p] \in {"st_head", "re_head"}
  /\ db' = [db EXCEPT ![p].hptr = ptr[chainoff(call[p].key)]]
  /\ pos' = [pos EXCEPT ![p] = 0]
  /\ Goto(p, IF pc[p] = "st_head" THEN "ff_lock" ELSE "ap_dlock")
  /\ UNCHANGED <<files, locks, call, ret, crashes>>

(* _db_findfree                                                            *)

FreeLock(p) ==
  /\ pc[p] = "ff_lock"
  /\ WriteLock(FREE_OFF, p)
  /\ Goto(p, "ff_head")
  /\ UNCHANGED <<files, call, db, pos, ret, crashes>>

FreeHead(p) ==
  /\ pc[p] = "ff_head"
  /\ db' = [db EXCEPT ![p].saveoff = FREE_OFF, ![p].offset = ptr[FREE_OFF]]
  /\ Goto(p, IF ptr[FREE_OFF] = 0 THEN "ff_miss" ELSE "ff_hdr")
  /\ UNCHANGED <<files, locks, call, pos, ret, crashes>>

\* Mutant: only the key lengths are compared.
FitsKeyOnly(h, c) == h.klen = KeyLen[c.key]

\* strlen(db->idxbuf) == keylen && db->datlen == datlen
Fits(h, c) == h.klen = KeyLen[c.key] /\ h.datlen = DatLen[c.data]

\* Second read of _db_readidx; a record of exactly these sizes is taken.
FreeBody(p) ==
  /\ pc[p] = "ff_body"
  /\ LET h == BodyOf(db[p])
         fits == Fits(h, call[p])
     IN IF RecLen(h.idxoff) = h.idxlen
          THEN /\ db' = [db EXCEPT ![p] =
                     IF fits THEN h
                     ELSE [h EXCEPT !.saveoff = h.offset, !.offset = h.ptrval]]
               /\ Goto(p, IF fits THEN "ff_take"
                          ELSE IF h.ptrval = 0 THEN "ff_miss" ELSE "ff_hdr")
               /\ UNCHANGED <<files, locks, call, pos, ret, crashes>>
          ELSE Gone(p, "dump")

\* Mutant: the head of the free list is taken for the predecessor.
FreePredHead(p) == FREE_OFF

\* Mutant: the record is given out but stays on the free list.
FreeTakeForgotten(p) ==
  /\ pc[p] = "ff_take"
  /\ Goto(p, "ff_done")
  /\ UNCHANGED <<files, locks, call, db, pos, ret, crashes>>

FreePred(p) == db[p].saveoff

\* _db_writeptr(db, saveoffset, db->ptrval)
FreeTake(p) ==
  /\ pc[p] = "ff_take"
  /\ ptr' = [ptr EXCEPT ![FreePred(p)] = db[p].ptrval]
  /\ Goto(p, "ff_done")
  /\ UNCHANGED <<rec, idxEnd, dat, locks, call, db, pos, ret, crashes>>

FreeUnlock(p) ==
  /\ pc[p] \in {"ff_miss", "ff_done"}
  /\ UnLock(FREE_OFF, p)
  /\ Goto(p, IF pc[p] = "ff_miss" THEN "ap_dlock" ELSE "ru_dat")
  /\ UNCHANGED <<files, call, db, pos, ret, crashes>>

-----------------------------------------------------------------------------
(* _db_writedat and _db_writeidx: append (SEEK_END) or overwrite (SEEK_SET)*)

AppDatLock(p) ==
  /\ pc[p] = "ap_dlock"
  /\ WriteLock(DAT, p)
  /\ Goto(p, "ap_dat")
  /\ UNCHANGED <<files, call, db, pos, ret, crashes>>

NewData(p) == [val |-> call[p].data, len |-> DatLen[call[p].data]]

AppDat(p) ==
  /\ pc[p] = "ap_dat"
  /\ dat' = Append(dat, NewData(p))
  /\ db' = [db EXCEPT ![p].datoff = Len(dat) + 1,
                      ![p].datlen = DatLen[call[p].data]]
  /\ Goto(p, "ap_dunlock")
  /\ UNCHANGED <<ptr, rec, idxEnd, locks, call, pos, ret, crashes>>

AppDatUnlock(p) ==
  /\ pc[p] = "ap_dunlock"
  /\ UnLock(DAT, p)
  /\ Goto(p, "ap_ilock")
  /\ UNCHANGED <<files, call, db, pos, ret, crashes>>

AppIdxLock(p) ==
  /\ pc[p] = "ap_ilock"
  /\ WriteLock(TAIL, p)
  /\ Goto(p, "ap_idx")
  /\ UNCHANGED <<files, call, db, pos, ret, crashes>>

NewSlot(p) == [key |-> call[p].key, klen |-> KeyLen[call[p].key],
               datoff |-> db[p].datoff, datlen |-> db[p].datlen]

\* Mutant: idxoff is the offset after the write.
AppOffAfter(e) == e + 1

\* Mutant: the new record ends its chain.
ChainTailEmpty(p) == 0

\* idxoff = lseek(idxfd, 0, SEEK_END), before the write.
AppOff(e) == e

\* The ptrval _db_writeidx is given: the old head of the chain.
ChainTail(p) == db[p].hptr

\* idxEnd <= MaxOff is the model bound; Room keeps it true here.
AppIdx(p) ==
  /\ pc[p] = "ap_idx"
  /\ idxEnd <= MaxOff
  /\ rec' = [rec EXCEPT ![idxEnd] = NewSlot(p)]
  /\ ptr' = [ptr EXCEPT ![idxEnd] = ChainTail(p)]
  /\ db' = [db EXCEPT ![p].idxoff = AppOff(idxEnd)]
  /\ idxEnd' = idxEnd + 1
  /\ ret' = [ret EXCEPT ![p] = Res("0")]
  /\ Goto(p, "ap_iunlock")
  /\ UNCHANGED <<dat, locks, call, pos, crashes>>

AppIdxUnlock(p) ==
  /\ pc[p] = "ap_iunlock"
  /\ UnLock(TAIL, p)
  /\ Goto(p, "st_link")
  /\ UNCHANGED <<files, call, db, pos, ret, crashes>>

\* A reused record: data first, then the index record.
ReuseDat(p) ==
  /\ pc[p] = "ru_dat"
  /\ dat' = [dat EXCEPT ![db[p].datoff] = NewData(p)]
  /\ db' = [db EXCEPT ![p].datlen = DatLen[call[p].data]]
  /\ Goto(p, "ru_idx")
  /\ UNCHANGED <<ptr, rec, idxEnd, locks, call, pos, ret, crashes>>

ReuseIdx(p) ==
  /\ pc[p] = "ru_idx"
  /\ rec' = [rec EXCEPT ![db[p].idxoff] = NewSlot(p)]
  /\ ptr' = [ptr EXCEPT ![db[p].idxoff] = ChainTail(p)]
  /\ ret' = [ret EXCEPT ![p] = Res("0")]
  /\ Goto(p, "st_link")
  /\ UNCHANGED <<idxEnd, dat, locks, call, db, pos, crashes>>

\* Same length: only the data record is rewritten.
RewriteDat(p) ==
  /\ pc[p] = "rw_dat"
  /\ dat' = [dat EXCEPT ![db[p].datoff] = NewData(p)]
  /\ ret' = [ret EXCEPT ![p] = Res("0")]
  /\ Goto(p, "unlock")
  /\ UNCHANGED <<ptr, rec, idxEnd, locks, call, db, pos, crashes>>

\* Mutant: off by one.
PtrOverflowLate(o) == o > PTR_MAX + 1

\* if (ptrval < 0 || ptrval > PTR_MAX) err_quit
PtrOverflow(o) == o > PTR_MAX

\* _db_writeptr(db, db->chainoff, db->idxoff): the new record heads its
\* chain; err_quit if its offset does not fit a pointer field.
StoreLink(p) ==
  /\ pc[p] = "st_link"
  /\ IF PtrOverflow(db[p].idxoff)
       THEN Gone(p, "quit")
       ELSE /\ ptr' = [ptr EXCEPT ![chainoff(call[p].key)] = db[p].idxoff]
            /\ pos' = [pos EXCEPT ![p] = 0]
            /\ Goto(p, "unlock")
            /\ UNCHANGED <<rec, idxEnd, dat, locks, call, db, ret, crashes>>

-----------------------------------------------------------------------------
(* db_nextrec                                                              *)

\* Mutant: the scan takes no lock.
NextLockForgotten(p) ==
  /\ pc[p] = "nx_lock"
  /\ Goto(p, "nx_hdr")
  /\ UNCHANGED <<files, locks, call, db, pos, ret, crashes>>

NextLock(p) ==
  /\ pc[p] = "nx_lock"
  /\ ReadLock(FREE_OFF, p)
  /\ Goto(p, "nx_hdr")
  /\ UNCHANGED <<files, call, db, pos, ret, crashes>>

\* _db_readidx(db, 0) reads from the current offset.  An offset that is not
\* a record's is inside the hash table or a record, where the length field
\* read is not a length: err_dump.
NextHdr(p) ==
  /\ pc[p] = "nx_hdr"
  /\ IF pos[p] = 0
       THEN Gone(p, "dump")
       ELSE /\ IF pos[p] >= idxEnd
                 THEN /\ ret' = [ret EXCEPT ![p] = Res("null")]
                      /\ Goto(p, "nx_unlock")
                      /\ UNCHANGED db
                 ELSE /\ db' = [db EXCEPT ![p].idxoff = pos[p],
                                          ![p].ptrval = ptr[pos[p]],
                                          ![p].idxlen = RecLen(pos[p])]
                      /\ Goto(p, "nx_body")
                      /\ UNCHANGED ret
            /\ UNCHANGED <<files, locks, call, pos, crashes>>

\* Records with a blank key are skipped.
NextBody(p) ==
  /\ pc[p] = "nx_body"
  /\ LET h == BodyOf(db[p]) IN
       IF RecLen(h.idxoff) = h.idxlen
         THEN /\ db' = [db EXCEPT ![p] = h]
              /\ pos' = [pos EXCEPT ![p] = h.idxoff + 1]
              /\ Goto(p, IF h.key = Blank THEN "nx_hdr" ELSE "nx_dat")
              /\ UNCHANGED <<files, locks, call, ret, crashes>>
         ELSE Gone(p, "dump")

-----------------------------------------------------------------------------

\* A process is killed; a new one takes its place with a fresh handle.
Crash(p) ==
  /\ pc[p] \in CrashAt
  /\ crashes < MaxCrash
  /\ crashes' = crashes + 1
  /\ Goto(p, "idle")
  /\ DropLocks(p)
  /\ call' = [call EXCEPT ![p] = NoCall]
  /\ db' = [db EXCEPT ![p] = DB0]
  /\ ret' = [ret EXCEPT ![p] = Pending]
  /\ pos' = [pos EXCEPT ![p] = FirstRec]
  /\ UNCHANGED files

Step(p) ==
  \/ LockChain(p) \/ ReadHead(p) \/ ReadHdr(p) \/ ReadBody(p) \/ ReadDat(p)
  \/ Return(p)
  \/ DelLock(p) \/ DelDat(p) \/ DelFree(p) \/ DelIdx(p) \/ DelHead(p)
  \/ DelLink(p) \/ DelUnlock(p)
  \/ StoreHead(p) \/ FreeLock(p) \/ FreeHead(p) \/ FreeBody(p)
  \/ FreeTake(p) \/ FreeUnlock(p)
  \/ AppDatLock(p) \/ AppDat(p) \/ AppDatUnlock(p)
  \/ AppIdxLock(p) \/ AppIdx(p) \/ AppIdxUnlock(p)
  \/ ReuseDat(p) \/ ReuseIdx(p) \/ RewriteDat(p) \/ StoreLink(p)
  \/ NextLock(p) \/ NextHdr(p) \/ NextBody(p)

Next ==
  \E p \in Proc :
    \/ Step(p)
    \/ \E c \in Calls : Call(p, c)
    \/ db_rewind(p)
    \/ Crash(p)

Spec == Init /\ [][Next]_vars

\* A process inside the library keeps running until it waits for a lock.
FairSpec == Spec /\ \A p \in Proc : WF_vars(Step(p))

-----------------------------------------------------------------------------
(* What the shared files must satisfy whatever the processes do.          *)

Allocated == {s \in RecOff : s < idxEnd}
Live(k) == {s \in Allocated : rec[s].key = k}
Missing == Blank

-----------------------------------------------------------------------------
(* The lists as a reader would walk them.                                  *)

\* A process between the two last writes of _db_dodelete still holds the
\* successor of the record it is unlinking.
Unlinking(p, s) == pc[p] \in {"del_head", "del_link"} /\ db[p].idxoff = s

Succ(s) == IF \E p \in Proc : Unlinking(p, s)
             THEN db[CHOOSE p \in Proc : Unlinking(p, s)].ptrval
             ELSE ptr[s]

\* The first MaxOff records of the list whose pointer field is at o.
Walk(o) ==
  LET w[n \in 0 .. MaxOff] ==
        IF n = 0 THEN ptr[o]
        ELSE IF w[n - 1] = 0 THEN 0
        ELSE IF o = FREE_OFF THEN ptr[w[n - 1]] ELSE Succ(w[n - 1])
  IN  w

Ends(o) == Walk(o)[MaxOff] = 0
Reach(o) == {Walk(o)[n] : n \in 0 .. MaxOff} \ {0}

\* A record taken off the free list that a db_store has not rewritten yet.
Taken == {db[p].idxoff : p \in {q \in Proc :
                                  pc[q] \in {"ff_done", "ru_dat", "ru_idx"}}}

LiveIn(c) == {s \in Allocated : /\ rec[s].key # Blank
                                /\ chainoff(rec[s].key) = c
                                /\ s <= PTR_MAX}

-----------------------------------------------------------------------------
(* Invariants.                                                             *)

\* No process meets a record it cannot parse: none of the err_dump checks of
\* _db_readidx and _db_readdat (lengths, newlines, offsets) ever fires,
\* however the calls of the processes interleave.
NoDump == \A p \in Proc : pc[p] # "dump"

\* Two records never carry the same key, although db_store decides that a
\* key is new long before it writes the record.  A record beyond PTR_MAX,
\* written by a db_store that then quits in _db_writeptr, is on no chain.
UniqueKey ==
  \A k \in Key : \A s, t \in Live(k) : s <= PTR_MAX /\ t <= PTR_MAX => s = t

\* A chain that nobody is changing ends, and holds exactly the live records
\* whose key hashes to it: no record is lost, none is on a foreign chain.
ChainsExact ==
  \A c \in 1 .. NHASH :
    wlk[c] = {} => Ends(c) /\ Reach(c) = LiveIn(c)

\* A free list that nobody is changing ends, and holds exactly the deleted
\* records that no db_store has claimed: nothing leaks, and no record is
\* both free and in use.
FreeExact ==
  wlk[FREE_OFF] = {} =>
    /\ Ends(FREE_OFF)
    /\ Reach(FREE_OFF) = {s \in Allocated : rec[s].key = Blank} \ Taken

\* What survives a kill between two writes: a list that nobody is changing
\* still ends and still holds only its own records (some may be lost to
\* every list).
ListsSound ==
  /\ \A c \in 1 .. NHASH : wlk[c] = {} => Ends(c) /\ Reach(c) \subseteq LiveIn(c)
  /\ wlk[FREE_OFF] = {} => /\ Ends(FREE_OFF)
                           /\ \A s \in Reach(FREE_OFF) : rec[s].key = Blank

\* Where a process relies on its record locks: inside its chain, on the free
\* list, scanning, and between finding an end of file and writing there.
ChainPC == (FindPC \ {"lock"}) \cup DelPC \cup FreePC \cup StorePC
ListPC  == (DelPC \ {"del_lock"}) \cup (FreePC \ {"ff_lock"})
ScanPC  == NextPC \ {"nx_lock"}

\* The record locks do exclude: two processes are in one chain together only
\* to fetch, one process at a time changes the free list and none scans
\* meanwhile, and two appends to one file never overlap.
Exclusion ==
  \A p \in Proc : \A q \in Proc \ {p} :
    /\ pc[p] \in ChainPC /\ pc[q] \in ChainPC
         /\ chainoff(call[p].key) = chainoff(call[q].key)
       => call[p].op = "fetch" /\ call[q].op = "fetch"
    /\ pc[p] \in ListPC => pc[q] \notin ListPC \cup ScanPC
    /\ pc[p] \in {"ap_dat", "ap_dunlock"} => pc[q] \notin {"ap_dat", "ap_dunlock"}
    /\ pc[p] \in {"ap_idx", "ap_iunlock"} => pc[q] \notin {"ap_idx", "ap_iunlock"}

-----------------------------------------------------------------------------
(* Action properties.                                                      *)

\* The sizes of a record and the place of its data never change once it is
\* written: deletion and reuse keep them, so a reader that has read a
\* record's length may read its body later, under no common lock.
LenStable == [][\A s \in Allocated : RecLen(s)' = RecLen(s)]_vars

\* The data a walk of k's chain would find, blank if it finds no record.
Binding(k) ==
  LET at == {s \in Reach(chainoff(k)) : rec[s].key = k}
  IN  IF at = {} THEN Missing ELSE dat[rec[CHOOSE s \in at : TRUE].datoff].val

\* A step changes what is bound to a key only on behalf of a process that
\* was called to change that key; a kill changes nothing.
OnlyOwnKey ==
  [][\A k \in Key : Binding(k)' # Binding(k) =>
       \E p \in Proc : /\ call[p].key = k
                       /\ call[p].op \in {"delete", "store"}
                       /\ pc'[p] # pc[p]
                       /\ crashes' = crashes]_vars

-----------------------------------------------------------------------------
(* Liveness.                                                               *)

\* Whenever a process is in a call, some process completes a call, or all are
\* between calls or gone (db_store exits at PTR_MAX, which frees its locks): no
\* deadlock among the locks and no endless walk of a chain.
Progress ==
  (\E p \in Proc : pc[p] \notin GonePC \cup {"idle"}) ~>
    (\/ \E p \in Proc : pc[p] \in {"unlock", "nx_unlock"}
     \/ \A p \in Proc : pc[p] \in GonePC \cup {"idle"})

-----------------------------------------------------------------------------
(* The library implements the atomic map KVStore.  A call takes effect when*)
(* its record is written (a new key), its data is overwritten (the same    *)
(* length, or a deletion), or the chain has been searched (the rest).  A   *)
(* replacement by data of another length takes effect when the old data is *)
(* blanked, so the new data is already bound while its record is missing.  *)

Replacing(p, k) ==
  /\ call[p].op = "store" /\ call[p].key = k
  /\ pc[p] \in {"del_free", "del_idx", "del_head", "del_link", "del_unlock",
                "re_head"} \/ (pc[p] \in {"ap_dlock", "ap_dat", "ap_dunlock",
                               "ap_ilock", "ap_idx"} /\ ret[p].rc = "0")

kvMap == [k \in Key |->
            IF \E p \in Proc : Replacing(p, k)
              THEN call[CHOOSE p \in Proc : Replacing(p, k)].data
            ELSE IF Live(k) = {} THEN Missing
            ELSE dat[rec[CHOOSE s \in Live(k) : TRUE].datoff].val]

KV == INSTANCE KVStore WITH kv <- kvMap

\* Every behaviour of the interleaved system calls is a behaviour of the
\* atomic map: db_fetch, db_delete and db_store are linearizable and
\* db_nextrec returns only a pair that is bound at that moment.
Linearizable == KV!Spec
=============================================================================
