------------------------------- MODULE DbOpen -------------------------------
(***************************************************************************)
(* db_open and db_close of src/apue/20db/db.c by several processes, while  *)
(* others store.  Only the index file matters: whether it has bytes, its   *)
(* header (the free list and the hash table of null pointers), and whether *)
(* stores have linked records to that header.  A store that began before   *)
(* another process's O_TRUNC and writes after it leaves a file with bytes  *)
(* and no header.                                                          *)
(***************************************************************************)
EXTENDS Naturals, TLAPS

CONSTANTS Proc, Nobody

ASSUME DbOpenAssumption == Nobody \notin Proc

VARIABLES exists, bytes,   \* the file is there; st_size > 0
          header, records, \* it begins with a header; which leads to records
          lock,            \* owner of the write lock on the whole file
          empty,           \* what a process's fstat returned: st_size = 0
          pc,
          again,           \* processes under whose lock the file was truncated
          caught           \* the last O_TRUNC came in the middle of a db_store
file == <<exists, bytes, header, records>>
past == <<again, caught>>
vars == <<file, lock, empty, pc, past>>

Init == /\ exists = FALSE /\ bytes = FALSE /\ header = FALSE /\ records = FALSE
        /\ lock = Nobody
        /\ empty = [p \in Proc |-> FALSE]
        /\ pc = [p \in Proc |-> "closed"]
        /\ again = {} /\ caught = FALSE

Flow(p, from, to) == pc[p] = from /\ pc' = [pc EXCEPT ![p] = to]

\* open(2) with O_TRUNC, under no lock.
Truncate ==
  /\ exists' = TRUE /\ bytes' = FALSE /\ header' = FALSE /\ records' = FALSE
  /\ again' = Proc
  /\ caught' = \E q \in Proc : pc[q] = "store"

\* db_open with O_CREAT | O_TRUNC goes on to initialise the file.
OpenInit(p) == Flow(p, "closed", "lock") /\ Truncate /\ UNCHANGED <<lock, empty>>

\* With O_TRUNC alone it is done, and the file stays empty.
OpenTrunc(p) == exists /\ Flow(p, "closed", "open") /\ Truncate /\ UNCHANGED <<lock, empty>>

\* Without O_TRUNC too: O_CREAT may make an empty file, else there must be one.
OpenCreate(p) ==
  /\ Flow(p, "closed", "open")
  /\ exists' = TRUE
  /\ UNCHANGED <<bytes, header, records, lock, empty, past>>

OpenOld(p) == exists /\ Flow(p, "closed", "open") /\ UNCHANGED <<file, lock, empty, past>>

\* The mutant without writew_lock.
LockForgotten(p) ==
  /\ Flow(p, "lock", "stat")
  /\ again' = again \ {p}
  /\ UNCHANGED <<file, lock, empty, caught>>

\* writew_lock(idxfd, 0, SEEK_SET, 0) waits for every other lock, those of
\* stores included.
Lock(p) ==
  /\ lock = Nobody /\ \A q \in Proc : pc[q] # "store"
  /\ Flow(p, "lock", "stat")
  /\ lock' = p
  /\ again' = again \ {p}
  /\ UNCHANGED <<file, empty, caught>>

Stat(p) ==
  /\ Flow(p, "stat", "init")
  /\ empty' = [empty EXCEPT ![p] = ~bytes]
  /\ UNCHANGED <<file, lock, past>>

\* The mutant that leaves the file as O_TRUNC made it.
HeaderForgotten(p) == Flow(p, "init", "unlock") /\ UNCHANGED <<file, lock, empty, past>>

\* If fstat found the file empty, the header is written over whatever is there.
WriteHeader(p) ==
  /\ Flow(p, "init", "unlock")
  /\ bytes' = (bytes \/ empty[p])
  /\ header' = (header \/ empty[p])
  /\ records' = (records /\ ~empty[p])
  /\ UNCHANGED <<exists, lock, empty, past>>

UnlockAll(p) ==
  /\ Flow(p, "unlock", "open")
  /\ lock' = IF lock = p THEN Nobody ELSE lock
  /\ UNCHANGED <<file, empty, past>>

\* db_store locks its chain, which the whole-file lock excludes, and reads
\* the chain pointer; in an empty file it fails to and aborts (Close).  A
\* db_delete locks and writes alike and is not told apart.
BeginStore(p) ==
  /\ bytes /\ lock = Nobody
  /\ Flow(p, "open", "store")
  /\ UNCHANGED <<file, lock, empty, past>>

\* Its writes: at the end of the file, and the pointer that links the record,
\* which leads to it only if there is a header still.
StoreWrite(p) ==
  /\ pc[p] = "store" /\ UNCHANGED pc
  /\ bytes' = TRUE
  /\ records' \in {records, header}
  /\ UNCHANGED <<exists, header, lock, empty, past>>

EndStore(p) == Flow(p, "store", "open") /\ UNCHANGED <<file, lock, empty, past>>

\* db_close, a kill or an abort: the locks go with the descriptor.
Close(p) ==
  /\ pc[p] # "closed" /\ pc' = [pc EXCEPT ![p] = "closed"]
  /\ lock' = IF lock = p THEN Nobody ELSE lock
  /\ empty' = [empty EXCEPT ![p] = FALSE]
  /\ UNCHANGED <<file, past>>

Next == \E p \in Proc :
  \/ OpenInit(p) \/ OpenTrunc(p) \/ OpenCreate(p) \/ OpenOld(p)
  \/ Lock(p) \/ Stat(p) \/ WriteHeader(p) \/ UnlockAll(p)
  \/ BeginStore(p) \/ StoreWrite(p) \/ EndStore(p) \/ Close(p)
Spec == Init /\ [][Next]_vars

-----------------------------------------------------------------------------
\* Initialisation never wipes anything out: from the fstat that found the
\* file empty to the write nobody else has put a byte into it, be it a
\* header or a store's record.
InitOnce == \A p \in Proc : pc[p] = "init" /\ empty[p] => ~bytes

\* Records are lost only with all the file's bytes, that is by an open with
\* O_TRUNC, never by another process's late initialisation.
KeepsRecords == [][records /\ ~records' => ~bytes']_vars

\* When db_open with O_CREAT | O_TRUNC has done its part, the index file has
\* a header, whoever else opened, stored or was killed meanwhile, on two
\* conditions: no other process truncated it once this one had locked it, and
\* the last truncation did not come in the middle of a db_store (such a store
\* writes into the emptied file, whose size then hides the missing header).
OpenedHasHeader ==
  \A p \in Proc : pc[p] = "unlock" => header \/ p \in again \/ caught

-----------------------------------------------------------------------------
\* Proofs, for any number of processes.

\* The types of the state, as far as the proofs need them.
TypeOK ==
  /\ exists \in BOOLEAN /\ bytes \in BOOLEAN /\ header \in BOOLEAN /\ records \in BOOLEAN
  /\ lock \in Proc \cup {Nobody}
  /\ empty \in [Proc -> BOOLEAN]
  /\ pc \in [Proc -> {"closed", "lock", "stat", "init", "unlock", "open", "store"}]
  /\ again \in SUBSET Proc /\ caught \in BOOLEAN

\* Between writew_lock and un_lock a process owns the lock, and nobody stores.
Owns == \A p \in Proc : pc[p] \in {"stat", "init", "unlock"} =>
          lock = p /\ \A q \in Proc : pc[q] # "store"

\* Records hang on a header, and a header is bytes.
Hang == (records => header) /\ (header => bytes)

\* Bytes without a header, or a store under way without one, come from a
\* last truncation in the middle of a store.
Torn == caught \/ ((bytes \/ \E q \in Proc : pc[q] = "store") => header)

\* A file that fstat found initialised still is, unless it was truncated since.
Found == \A p \in Proc : pc[p] = "init" /\ ~empty[p] => header \/ p \in again \/ caught

\* The inductive invariant.  InitOnce alone is not inductive: another
\* process could write between fstat and write, which Owns excludes, and
\* OpenedHasHeader needs to know what fstat saw (Found) and that a file with
\* bytes has a header (Torn).
IInv == TypeOK /\ Owns /\ Hang /\ Torn /\ Found /\ InitOnce /\ OpenedHasHeader

\* Before anybody opens the database the invariant holds.
LEMMA InitHolds == Init => IInv
  BY DEF Init, IInv, TypeOK, Owns, Hang, Torn, Found, InitOnce, OpenedHasHeader

\* Each step of db_open, db_store or db_close keeps the invariant.
LEMMA Preserved == IInv /\ [Next]_vars => IInv'
<1> SUFFICES ASSUME IInv, [Next]_vars PROVE IInv'
  OBVIOUS
<1> USE DbOpenAssumption
    DEF IInv, TypeOK, Owns, Hang, Torn, Found, InitOnce, OpenedHasHeader, Flow, file, past
<1>1. ASSUME NEW p \in Proc, OpenInit(p) PROVE IInv'
  BY <1>1 DEF OpenInit, Truncate
<1>2. ASSUME NEW p \in Proc, OpenTrunc(p) PROVE IInv'
  BY <1>2 DEF OpenTrunc, Truncate
<1>3. ASSUME NEW p \in Proc, OpenCreate(p) PROVE IInv'
  BY <1>3 DEF OpenCreate
<1>4. ASSUME NEW p \in Proc, OpenOld(p) PROVE IInv'
  BY <1>4 DEF OpenOld
<1>5. ASSUME NEW p \in Proc, Lock(p) PROVE IInv'
  BY <1>5 DEF Lock
<1>6. ASSUME NEW p \in Proc, Stat(p) PROVE IInv'
  BY <1>6 DEF Stat
<1>7. ASSUME NEW p \in Proc, WriteHeader(p) PROVE IInv'
  BY <1>7 DEF WriteHeader
<1>8. ASSUME NEW p \in Proc, UnlockAll(p) PROVE IInv'
  BY <1>8 DEF UnlockAll
<1>9. ASSUME NEW p \in Proc, BeginStore(p) PROVE IInv'
  BY <1>9 DEF BeginStore
<1>10. ASSUME NEW p \in Proc, StoreWrite(p) PROVE IInv'
  BY <1>10 DEF StoreWrite
<1>11. ASSUME NEW p \in Proc, EndStore(p) PROVE IInv'
  BY <1>11 DEF EndStore
<1>12. ASSUME NEW p \in Proc, Close(p) PROVE IInv'
  BY <1>12 DEF Close
<1>13. CASE UNCHANGED vars
  BY <1>13 DEF vars
<1> QED BY <1>1, <1>2, <1>3, <1>4, <1>5, <1>6, <1>7, <1>8, <1>9, <1>10, <1>11, <1>12, <1>13
        DEF Next

\* A step that takes records away leaves no byte.
LEMMA Keeps == IInv /\ [Next]_vars => (records /\ ~records' => ~bytes')
  BY DEF IInv, TypeOK, Hang, InitOnce, Next, vars, file, Flow, Truncate, OpenInit, OpenTrunc,
         OpenCreate, OpenOld, Lock, Stat, WriteHeader, UnlockAll, BeginStore, StoreWrite,
         EndStore, Close

-----------------------------------------------------------------------------
\* db_open initialises an index file only while it is empty, whatever other
\* processes do between its fstat and its write.
THEOREM InitialisedOnce == Spec => []InitOnce
<1>1. IInv => InitOnce BY DEF IInv
<1> QED BY <1>1, InitHolds, Preserved, PTL DEF Spec

\* When db_open with O_CREAT | O_TRUNC has done its part the file has a
\* header, unless it was truncated again under this process's lock, or the
\* last truncation came in the middle of a store.
THEOREM HeaderWritten == Spec => []OpenedHasHeader
<1>1. IInv => OpenedHasHeader BY DEF IInv
<1> QED BY <1>1, InitHolds, Preserved, PTL DEF Spec

\* No call but an open with O_TRUNC ever takes records away.
THEOREM RecordsKept == Spec => KeepsRecords
<1>1. IInv /\ [Next]_vars => [records /\ ~records' => ~bytes']_vars
  BY Keeps
<1> QED BY <1>1, InitHolds, Preserved, PTL DEF Spec, KeepsRecords
=============================================================================
