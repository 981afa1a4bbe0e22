------------------------------ MODULE KVStore ------------------------------
(***************************************************************************)
(* What apue_db.h promises its callers: an atomic map from keys to data.   *)
(* A call is invoked, takes effect in one step, and returns.  db_nextrec   *)
(* returns some current binding, or NULL at the end of the scan.           *)
(***************************************************************************)
CONSTANTS Proc, Key, Data, Blank, Fetch, Delete, Store, Nextrec, NoCall

VARIABLES
  kv,    \* the data bound to each key, Blank when there is none
  call,  \* the call each process is in, NoCall outside one
  ret    \* its result, rc "pending" before the call takes effect

vars == <<kv, call, ret>>

Res(rc) == [rc |-> rc, key |-> Blank, val |-> Blank]
Ptr(k, d) == [rc |-> "ptr", key |-> k, val |-> d]
Pending == Res("pending")

Init ==
  /\ kv = [k \in Key |-> Blank]
  /\ call = [p \in Proc |-> NoCall]
  /\ ret = [p \in Proc |-> Pending]

Invoke(p, c) ==
  /\ call[p] = NoCall
  /\ call' = [call EXCEPT ![p] = c]
  /\ UNCHANGED <<kv, ret>>

\* The step in which a call takes effect: the new map m and the result r.
Effect(p, m, r) ==
  /\ ret[p] = Pending
  /\ kv' = m
  /\ ret' = [ret EXCEPT ![p] = r]
  /\ UNCHANGED call

DoFetch(p) ==
  LET d == kv[call[p].key] IN
  /\ call[p] \in Fetch
  /\ Effect(p, kv, IF d = Blank THEN Res("null") ELSE Ptr(Blank, d))

DoDelete(p) ==
  LET k == call[p].key IN
  /\ call[p] \in Delete
  /\ Effect(p, [kv EXCEPT ![k] = Blank],
            Res(IF kv[k] = Blank THEN "-1" ELSE "0"))

DoStore(p) ==
  LET k == call[p].key
      bound == kv[k] # Blank
  IN  /\ call[p] \in Store
      /\ IF bound /\ call[p].flag = "insert" THEN Effect(p, kv, Res("1"))
         ELSE IF ~bound /\ call[p].flag = "replace"
           THEN Effect(p, kv, Res("-1"))
         ELSE Effect(p, [kv EXCEPT ![k] = call[p].data], Res("0"))

DoNextrec(p) ==
  /\ call[p] \in Nextrec
  /\ \/ Effect(p, kv, Res("null"))
     \/ \E k \in Key : kv[k] # Blank /\ Effect(p, kv, Ptr(k, kv[k]))

Return(p) ==
  /\ call[p] # NoCall
  /\ ret[p] # Pending
  /\ call' = [call EXCEPT ![p] = NoCall]
  /\ ret' = [ret EXCEPT ![p] = Pending]
  /\ UNCHANGED kv

Next ==
  \E p \in Proc :
    \/ \E c \in Fetch \cup Delete \cup Store \cup Nextrec : Invoke(p, c)
    \/ DoFetch(p) \/ DoDelete(p) \/ DoStore(p) \/ DoNextrec(p)
    \/ Return(p)

Spec == Init /\ [][Next]_vars
=============================================================================
