------------------------------- MODULE BookDb -------------------------------
(***************************************************************************)
(* src/apue/apue.3e/db/db.c, the book's own database library, used by one  *)
(* process: one action per call.  ApueDb models the reader's copy of it    *)
(* with several processes, lock by lock; here it is the calls on one       *)
(* handle in any order, with the file offset they leave behind.            *)
(*                                                                         *)
(* An index record is found by its number, 1 the first; pointer 0 is none. *)
(* Recursive, so nothing is proved about this module.                      *)
(***************************************************************************)
EXTENDS Naturals, Sequences

CONSTANTS Key, Data, KeyLen, DatLen, Hash, NHASH, Blank,   \* Hash is 1..NHASH
          MaxRec   \* bound: index records

VARIABLES idx, dat,      \* the two files: index records and data records
          chain,         \* chain[FREE_OFF] heads the free list, the others the chains
          pos,           \* offset of the index file: a record, or 0 in the table
          dict,          \* what the calls so far amount to
          out,           \* the last call's result and the one expected of dict
          seen           \* keys a scan has returned since db_rewind, or "lost"
files == <<idx, dat, chain>>
vars == <<files, pos, dict, out, seen>>

FREE_OFF == 0

\* db_open of a new database ends with db_rewind.
Init == /\ idx = <<>> /\ dat = <<>> /\ chain = [h \in 0..NHASH |-> 0]
        /\ pos = 1 /\ dict = <<>> /\ out = <<"none", "none">> /\ seen = {}

Known == DOMAIN dict
Without(k) == [x \in Known \ {k} |-> dict[x]]
With(k, d) == [x \in Known \cup {k} |-> IF x = k THEN d ELSE dict[x]]

-----------------------------------------------------------------------------
\* The loop of _db_find_and_lock: the record and the one that points to it, 0 for
\* the hash table.
Walk(key, offset, ptroff) ==
  LET w[o \in 0..Len(idx), from \in 0..Len(idx)] ==
        IF o = 0 \/ idx[o].key = key THEN [off |-> o, from |-> from] ELSE w[idx[o].ptr, o]
  IN  w[offset, ptroff]
_db_find_and_lock(key) == Walk(key, chain[Hash[key]], 0)

\* _db_findfree: the first free record whose key and data have these lengths.
Fitting(keylen, datlen, offset, saveoffset) ==
  LET w[o \in 0..Len(idx), from \in 0..Len(idx)] ==
        IF o = 0 \/ (idx[o].klen = keylen /\ idx[o].datlen = datlen)
        THEN [off |-> o, from |-> from] ELSE w[idx[o].ptr, o]
  IN  w[offset, saveoffset]

\* Files with a pointer changed: the pointer of record from, or its list's head.
Files == [idx |-> idx, dat |-> dat, chain |-> chain]
_db_writeptr(f, list, from, ptrval) ==
  IF from # 0 THEN [f EXCEPT !.idx[from].ptr = ptrval] ELSE [f EXCEPT !.chain[list] = ptrval]

\* Data and key become blank, the record heads the free list, and the pointer to
\* it skips it.
_db_dodelete(f, h, at) ==
  LET r == f.idx[at.off]
      g == [f EXCEPT !.dat[r.datoff] = Blank, !.chain[FREE_OFF] = at.off,
                     !.idx[at.off] = [r EXCEPT !.key = Blank, !.ptr = f.chain[FREE_OFF]]]
  IN _db_writeptr(g, h, at.from, r.ptr)

\* The mutant that does not link the new record to the rest of its chain.
Append2Alone(f, key, data) ==
  [f EXCEPT !.dat = Append(@, data), !.chain[Hash[key]] = Len(f.idx) + 1,
            !.idx = Append(@, [key |-> key, klen |-> KeyLen[key], datoff |-> Len(f.dat) + 1,
                               datlen |-> DatLen[data], ptr |-> 0])]

\* _db_writedat, _db_writeidx and _db_writeptr at the ends of the files.
Append2(f, key, data) ==
  [f EXCEPT !.dat = Append(@, data), !.chain[Hash[key]] = Len(f.idx) + 1,
            !.idx = Append(@, [key |-> key, klen |-> KeyLen[key], datoff |-> Len(f.dat) + 1,
                               datlen |-> DatLen[data], ptr |-> f.chain[Hash[key]]])]

\* The same in the place of a free record, which leaves the free list.
Reuse(f, key, data, at) ==
  LET g == _db_writeptr(f, FREE_OFF, at.from, f.idx[at.off].ptr)
  IN [g EXCEPT !.dat[g.idx[at.off].datoff] = data, !.chain[Hash[key]] = at.off,
               !.idx[at.off].key = key, !.idx[at.off].ptr = f.chain[Hash[key]]]

Set(f) == /\ idx' = f.idx /\ dat' = f.dat /\ chain' = f.chain
Lost == seen' = {"lost"}

-----------------------------------------------------------------------------
db_fetch(key) ==
  LET at == _db_find_and_lock(key) IN
  /\ out' = <<IF at.off = 0 THEN "null" ELSE dat[idx[at.off].datoff],
              IF key \in Known THEN dict[key] ELSE "null">>
  /\ pos' = IF at.off = 0 THEN at.from + (IF at.from = 0 THEN 0 ELSE 1) ELSE at.off + 1
  /\ Lost /\ UNCHANGED <<files, dict>>

db_delete(key) ==
  LET at == _db_find_and_lock(key) IN
  /\ Set(IF at.off = 0 THEN Files ELSE _db_dodelete(Files, Hash[key], at))
  /\ dict' = Without(key)
  /\ out' = <<IF at.off = 0 THEN "-1" ELSE "0", IF key \in Known THEN "0" ELSE "-1">>
  /\ pos' = 0 /\ Lost

\* The four ways to store a record and the two refusals.
db_store(key, data, flag) ==
  LET at == _db_find_and_lock(key)
      fit == Fitting(KeyLen[key], DatLen[data], chain[FREE_OFF], 0)
      refused == (at.off = 0 /\ flag = "replace") \/ (at.off # 0 /\ flag = "insert")
      f == CASE refused -> Files
             [] at.off = 0 /\ fit.off = 0 -> Append2(Files, key, data)
             [] at.off = 0 /\ fit.off # 0 -> Reuse(Files, key, data, fit)
             [] at.off # 0 /\ idx[at.off].datlen # DatLen[data] ->
                  Append2(_db_dodelete(Files, Hash[key], at), key, data)
             [] OTHER -> [Files EXCEPT !.dat[idx[at.off].datoff] = data]
  IN /\ Len(f.idx) <= MaxRec
     /\ Set(f)
     /\ out' = <<IF ~refused THEN "0" ELSE IF at.off = 0 THEN "-1" ELSE "1",
                 CASE key \in Known /\ flag = "insert" -> "1"
                   [] key \notin Known /\ flag = "replace" -> "-1"
                   [] OTHER -> "0">>
     /\ dict' = IF out'[2] = "0" THEN With(key, data) ELSE dict
     /\ pos' = 0 /\ Lost

db_rewind == pos' = 1 /\ seen' = {} /\ out' = <<"none", "none">> /\ UNCHANGED <<files, dict>>

\* Records with a blank key are skipped; at the end the result is null.  A caller
\* whose offset is in the hash table rewinds first.
db_nextrec ==
  LET live == {r \in pos..Len(idx) : idx[r].key # Blank}
      r == CHOOSE x \in live : \A y \in live : x <= y
  IN /\ pos # 0
     /\ IF live = {}
        THEN /\ pos' = Len(idx) + 1 /\ UNCHANGED seen
             /\ out' = <<"null", IF seen = {"lost"} \/ seen = Known THEN "null" ELSE "more">>
        ELSE /\ pos' = r + 1
             /\ out' = <<dat[idx[r].datoff], IF idx[r].key \in Known \ seen THEN dict[idx[r].key] ELSE "null">>
             /\ seen' = IF seen = {"lost"} THEN seen ELSE seen \cup {idx[r].key}
     /\ UNCHANGED <<files, dict>>

Next == \/ \E k \in Key : db_fetch(k) \/ db_delete(k)
        \/ \E k \in Key, d \in Data, f \in {"insert", "replace", "store"} : db_store(k, d, f)
        \/ db_rewind \/ db_nextrec
Spec == Init /\ [][Next]_vars

-----------------------------------------------------------------------------
\* Every call returns what a dictionary would, whichever of the four ways earlier
\* stores took; and a scan that is not interrupted returns each record once and
\* ends after the last.
AsDictionary == out[1] = out[2]
=============================================================================
