------------------------------- MODULE PyDb -------------------------------
(***************************************************************************)
(* transwarp/db.py of src/lxf-python/awesome-python-webapp/www: lazy       *)
(* connections, the nested connection and transaction blocks, and the      *)
(* statements.  The context is thread local, so this is one thread; what   *)
(* the server does with concurrent transactions is not this code.          *)
(*                                                                         *)
(* A write is a number; the statement that made it is in outermost         *)
(* transaction of[w], or in none (0) and committed by itself.              *)
(***************************************************************************)
EXTENDS Naturals, Sequences

CONSTANTS MaxDepth, MaxWrite, MaxTx   \* bounds

VARIABLES connection,     \* _db_ctx.connection: "none", "lazy" or "open"
          transactions,   \* _db_ctx.transactions
          blocks,         \* the with statements entered, innermost last
          exc,            \* an exception is on its way out
          pending,        \* writes the open connection has not committed
          table,          \* writes committed
          of, failed,     \* history: the transaction of a write; statements that raised
          tx, ended       \* history: transactions begun, and how each ended
ctx == <<connection, transactions, blocks, exc>>
hist == <<of, failed, tx, ended>>
vars == <<ctx, pending, table, hist>>

Init == /\ connection = "none" /\ transactions = 0 /\ blocks = <<>> /\ exc = FALSE
        /\ pending = {} /\ table = {}
        /\ of = <<>> /\ failed = {} /\ tx = 0 /\ ended = <<>>

-----------------------------------------------------------------------------
\* __enter__ of both contexts opens a lazy connection if there is none, and
\* remembers to close it.
Enter(kind) ==
  /\ ~exc /\ Len(blocks) < MaxDepth
  /\ blocks' = Append(blocks, [kind |-> kind, close |-> connection = "none"])
  /\ connection' = IF connection = "none" THEN "lazy" ELSE connection
  /\ UNCHANGED <<exc, pending, table>>

EnterConnection ==
  /\ Enter("connection")
  /\ UNCHANGED <<transactions, hist>>

EnterTransaction ==
  /\ Enter("transaction")
  /\ transactions' = (IF connection = "none" THEN 0 ELSE transactions) + 1
  /\ tx < MaxTx \/ transactions > 0
  /\ IF transactions = 0 THEN tx' = tx + 1 /\ ended' = Append(ended, "open")
                         ELSE UNCHANGED <<tx, ended>>
  /\ UNCHANGED <<of, failed>>

Top == blocks[Len(blocks)]

\* cleanup of the context: the connection is closed, the server forgets what was
\* not committed.
cleanup(close, left) ==
  /\ connection' = IF close THEN "none" ELSE connection
  /\ pending' = IF close THEN {} ELSE left
  /\ blocks' = SubSeq(blocks, 1, Len(blocks) - 1)

ExitConnection ==
  /\ blocks # <<>> /\ Top.kind = "connection"
  /\ cleanup(Top.close, pending)
  /\ UNCHANGED <<transactions, exc, table, hist>>

\* commit of _TransactionCtx: what is left pending, the table and whether it
\* raises.  A lazy connection that never opened has no connection to commit.
commit ==
  {[left |-> {}, table |-> table, exc |-> TRUE]} \cup
  (IF connection = "open" THEN {[left |-> {}, table |-> table \cup pending, exc |-> FALSE]} ELSE {})

rollback == {[left |-> {}, table |-> table, exc |-> TRUE]}

\* The mutant that commits at the end of every transaction block.
OutermostNot(n) == TRUE
Outermost(n) == n = 0

\* __exit__: only the outermost block commits or rolls back.
ExitTransaction ==
  /\ blocks # <<>> /\ Top.kind = "transaction"
  /\ transactions' = transactions - 1
  /\ \E r \in IF ~Outermost(transactions') THEN {[left |-> pending, table |-> table, exc |-> exc]}
              ELSE IF exc THEN rollback ELSE commit :
       /\ cleanup(Top.close, r.left)
       /\ table' = r.table /\ exc' = r.exc
       /\ ended' = IF transactions' = 0 THEN [ended EXCEPT ![tx] = IF r.exc THEN "raised" ELSE "ok"]
                   ELSE ended
  /\ UNCHANGED <<of, failed, tx>>

\* The program raises, or catches what is on its way out.
Raise == /\ exc' = ~exc
         /\ UNCHANGED <<connection, transactions, blocks, pending, table, hist>>

\* A statement runs in a connection block of its own: outside any block the
\* connection lasts as long as the statement.
After == IF connection = "none" THEN "none" ELSE "open"

\* The mutant that commits every statement by itself.
AutocommitAlways == TRUE
Autocommit == transactions = 0

\* insert and update: connecting, executing or the automatic commit may fail.  A
\* commit fails when the connection is lost, and the write with it.
_update ==
  /\ ~exc /\ Len(of) < MaxWrite
  /\ of' = Append(of, IF transactions = 0 THEN 0 ELSE tx)
  /\ LET w == Len(of) + 1 IN
     \/ /\ connection' \in {connection, After} /\ exc' = TRUE /\ failed' = failed \cup {w}
        /\ UNCHANGED <<pending, table>>
     \/ /\ connection' = After /\ UNCHANGED <<exc, failed>>
        /\ IF Autocommit THEN table' = table \cup pending \cup {w} /\ pending' = {}
                         ELSE pending' = pending \cup {w} /\ UNCHANGED table
  /\ UNCHANGED <<transactions, blocks, tx, ended>>

\* select, select_one and select_int: the last raises when there is no row or
\* more than one column.
_select ==
  /\ ~exc
  /\ \/ connection' \in {connection, After} /\ exc' = TRUE
     \/ connection' = After /\ UNCHANGED exc
  /\ UNCHANGED <<transactions, blocks, pending, table, hist>>

Next == \/ EnterConnection \/ EnterTransaction \/ ExitConnection \/ ExitTransaction
        \/ Raise \/ _update \/ _select
Spec == Init /\ [][Next]_vars

-----------------------------------------------------------------------------
\* Each statement that succeeded in a transaction is in the table when the
\* outermost block has ended without an exception, and never before or
\* otherwise, however blocks are nested and exceptions caught; a statement
\* outside transactions is in the table at once.  One that failed never is.
AllOrNothing ==
  \A w \in DOMAIN of :
    w \in table <=> w \notin failed /\ (of[w] = 0 \/ ended[of[w]] = "ok")

\* The connection is closed when the last block is left, and a count of
\* transactions that ended does not leak into the next one.
NothingLeft ==
  /\ blocks = <<>> => connection = "none" /\ pending = {} /\ transactions = 0
  /\ connection = "none" => blocks = <<>>
=============================================================================
