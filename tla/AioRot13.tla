------------------------------ MODULE AioRot13 ------------------------------
(***************************************************************************)
(* The asynchronous translator src/apue/14.5.3rot_13_aio.c: a loop over    *)
(* NBUF buffers that starts a read in an unused one, turns a finished read *)
(* into a write, and counts a finished write off.  The kernel (external)   *)
(* completes the operations in any order, fully, short, or with an error.  *)
(* Offsets count blocks of BSZ bytes; the last block may be a partial one. *)
(***************************************************************************)
EXTENDS Integers, FiniteSets

CONSTANTS NBUF, NBlocks,  \* buffers; bound: blocks of an input file
          MaxOver         \* bound: how far below zero numop is counted

VARIABLES st_size,             \* blocks of the input file
          op, last, blk, rot,  \* per buffer: its op and last fields, the block
                               \* it holds, and how often it was translated (mod 2)
          aio, aiolist,        \* state of the control block; listed for aio_suspend
          numop, off, i,
          out,                 \* the output file
          status,              \* "loop", "suspend", "exit" or "err"
          recount              \* a finished write has been counted off twice
vars == <<st_size, op, last, blk, rot, aio, aiolist, numop, off, i, out, status, recount>>

Buf == 0 .. NBUF - 1
Block == 0 .. NBlocks - 1
None == -1

Init ==
  /\ st_size \in 0 .. NBlocks
  /\ op = [b \in Buf |-> "UNUSED"] /\ last = [b \in Buf |-> FALSE]
  /\ blk = [b \in Buf |-> None] /\ rot = [b \in Buf |-> 0]
  /\ aio = [b \in Buf |-> "idle"] /\ aiolist = [b \in Buf |-> FALSE]
  /\ numop = 0 /\ off = 0 /\ i = 0
  /\ out = [k \in Block |-> None]
  /\ status = "loop" /\ recount = FALSE

\* The mutant that translates a character back.
TranslateTwice(r) == r

\* translate applied to the whole buffer: rot13 twice is the identity.
translate(r) == (r + 1) % 2

-----------------------------------------------------------------------------
Visit(o) == status = "loop" /\ i < NBUF /\ op[i] = o
NextBuf == i' = i + 1 /\ UNCHANGED status

Skip ==
  /\ i' = i + 1
  /\ UNCHANGED <<st_size, op, last, blk, rot, aio, aiolist, numop, off, out, status, recount>>

\* err_sys, err_exit and err_quit end the process.
Fail ==
  /\ status' = "err"
  /\ UNCHANGED <<st_size, op, last, blk, rot, aio, aiolist, numop, off, i, out, recount>>

\* The mutant that moves off one read too late.
aio_offsetLate == IF off = 0 THEN 0 ELSE off - 1

\* The block the next read is for.
aio_offset == off

\* The mutant that does not count the read.
StartReadUncounted ==
  /\ Visit("UNUSED") /\ off < st_size
  /\ op' = [op EXCEPT ![i] = "READ_PENDING"]
  /\ blk' = [blk EXCEPT ![i] = aio_offset]
  /\ off' = off + 1
  /\ last' = [last EXCEPT ![i] = @ \/ off + 1 >= st_size]
  /\ rot' = [rot EXCEPT ![i] = 0]
  /\ aio' = [aio EXCEPT ![i] = "reading"]
  /\ aiolist' = [aiolist EXCEPT ![i] = TRUE]
  /\ NextBuf /\ UNCHANGED <<st_size, out, numop, recount>>

StartRead ==
  /\ Visit("UNUSED") /\ off < st_size
  /\ op' = [op EXCEPT ![i] = "READ_PENDING"]
  /\ blk' = [blk EXCEPT ![i] = aio_offset]
  /\ off' = off + 1
  /\ last' = [last EXCEPT ![i] = @ \/ off + 1 >= st_size]
  /\ rot' = [rot EXCEPT ![i] = 0]
  /\ aio' = [aio EXCEPT ![i] = "reading"]
  /\ aiolist' = [aiolist EXCEPT ![i] = TRUE]
  /\ numop' = numop + 1
  /\ NextBuf /\ UNCHANGED <<st_size, out, recount>>

InProgress(b) == aio[b] \in {"reading", "writing"}
\* The mutant that does not ask aio_error whether the operation is over.
NeverAsks(b) == TRUE

Ready(b) == ~InProgress(b)

\* Nothing to do for this buffer: no block is left, or EINPROGRESS.
Pass == \/ Visit("UNUSED") /\ off >= st_size /\ Skip
        \/ Visit("READ_PENDING") /\ ~Ready(i) /\ Skip
        \/ Visit("WRITE_PENDING") /\ ~Ready(i) /\ Skip

ReadFailed ==
  /\ Visit("READ_PENDING") /\ Ready(i)
  /\ aio[i] = "error" \/ (aio[i] = "short" /\ ~last[i])
  /\ Fail

ReadDone ==
  /\ Visit("READ_PENDING") /\ Ready(i)
  /\ ~(aio[i] = "error" \/ (aio[i] = "short" /\ ~last[i]))
  /\ rot' = [rot EXCEPT ![i] = translate(@)]
  /\ op' = [op EXCEPT ![i] = "WRITE_PENDING"]
  /\ aio' = [aio EXCEPT ![i] = "writing"]
  /\ NextBuf
  /\ UNCHANGED <<st_size, last, blk, aiolist, numop, off, out, recount>>

WriteFailed ==
  /\ Visit("WRITE_PENDING") /\ Ready(i)
  /\ aio[i] \in {"error", "short"}
  /\ Fail

\* op keeps the value WRITE_PENDING: the buffer is counted again next time.
\* Once negative, numop never returns to 0: it is not counted below -MaxOver.
WriteDone ==
  /\ Visit("WRITE_PENDING") /\ Ready(i)
  /\ aio[i] = "done"
  /\ aiolist' = [aiolist EXCEPT ![i] = FALSE]
  /\ numop' = IF numop = -MaxOver THEN numop ELSE numop - 1
  /\ recount' = (recount \/ ~aiolist[i])
  /\ NextBuf
  /\ UNCHANGED <<st_size, op, last, blk, rot, aio, off, out>>

\* After a pass over the buffers: leave (after aio_fsync), go on or suspend.
PassEnd ==
  /\ status = "loop" /\ i = NBUF
  /\ i' = 0
  /\ \/ numop = 0 /\ off >= st_size /\ status' \in {"exit", "err"}
     \/ numop = 0 /\ off < st_size /\ status' = "loop"
     \/ numop # 0 /\ status' = "suspend"
  /\ UNCHANGED <<st_size, op, last, blk, rot, aio, aiolist, numop, off, out, recount>>

\* aio_suspend returns when a listed operation is over, or none is in progress.
Resume ==
  /\ status = "suspend"
  /\ \/ \E b \in Buf : aiolist[b] /\ ~InProgress(b)
     \/ \A b \in Buf : ~aiolist[b]
  /\ status' = "loop"
  /\ UNCHANGED <<st_size, op, last, blk, rot, aio, aiolist, numop, off, i, out, recount>>

-----------------------------------------------------------------------------
(* The kernel.  Operations in flight when the process ends are lost.       *)

Complete(b) ==
  /\ status \in {"loop", "suspend"}
  /\ InProgress(b)
  /\ \E r \in {"done", "short", "error"} :
       /\ aio' = [aio EXCEPT ![b] = r]
       /\ out' = IF aio[b] = "writing" /\ r = "done"
                   THEN [out EXCEPT ![blk[b]] = rot[b]] ELSE out
  /\ UNCHANGED <<st_size, op, last, blk, rot, aiolist, numop, off, i, status, recount>>

Step == \/ StartRead \/ Pass \/ ReadFailed \/ ReadDone \/ WriteFailed
        \/ WriteDone \/ PassEnd \/ Resume
Next == Step \/ \E b \in Buf : Complete(b)

Spec == Init /\ [][Next]_vars

-----------------------------------------------------------------------------
\* Whatever the order in which the operations complete, a block that has
\* reached the output file was translated exactly once.
TranslatedOnce == \A k \in Block : out[k] \in {None, 1}

\* No two buffers carry the same block, and none is passed over: the blocks
\* before off are exactly those some buffer carries.
BlocksAccounted ==
  /\ \A b, c \in Buf : b # c /\ blk[b] # None => blk[b] # blk[c]
  /\ {blk[b] : b \in Buf} \ {None} = 0 .. off - 1

\* The loop never reuses a control block whose operation the kernel has not
\* finished; only the kernel ends an operation.
NoReuse == \A b \in Buf : InProgress(b) /\ aio'[b] # aio[b] =>
             aio'[b] \in {"done", "short", "error"} /\ UNCHANGED <<op, numop, i>>
NoReuseInFlight == [][NoReuse]_vars

\* As long as every finished write was counted off once, numop counts the
\* operations under way and the program exits only when every block of the
\* input has been written.
ExitComplete ==
  ~recount => /\ numop = Cardinality({b \in Buf : aiolist[b]})
              /\ status = "exit" => \A k \in 0 .. st_size - 1 : out[k] # None

-----------------------------------------------------------------------------
(* The inductive invariant the proofs of these properties rest on.         *)

TypeOK ==
  /\ st_size \in 0 .. NBlocks /\ off \in 0 .. st_size /\ i \in 0 .. NBUF
  /\ op \in [Buf -> {"UNUSED", "READ_PENDING", "WRITE_PENDING"}]
  /\ last \in [Buf -> BOOLEAN] /\ blk \in [Buf -> Block \cup {None}] /\ rot \in [Buf -> {0, 1}]
  /\ aio \in [Buf -> {"idle", "reading", "writing", "done", "short", "error"}]
  /\ aiolist \in [Buf -> BOOLEAN] /\ numop \in Int
  /\ out \in [Block -> {None, 0, 1}]
  /\ status \in {"loop", "suspend", "exit", "err"} /\ recount \in BOOLEAN

\* What the fields of a buffer say of each other.
BufOK(b) ==
  /\ op[b] = "UNUSED" => blk[b] = None /\ aio[b] = "idle" /\ ~aiolist[b]
  /\ op[b] # "UNUSED" => blk[b] \in 0 .. off - 1
  /\ op[b] = "READ_PENDING" =>
       rot[b] = 0 /\ aiolist[b] /\ aio[b] \in {"reading", "done", "short", "error"}
  /\ op[b] = "WRITE_PENDING" =>
       /\ rot[b] = 1 /\ aio[b] \in {"writing", "done", "short", "error"}
       /\ aio[b] = "done" => out[blk[b]] = 1
       /\ ~aiolist[b] => aio[b] = "done"

IInv == /\ TypeOK /\ \A b \in Buf : BufOK(b)
        /\ TranslatedOnce /\ BlocksAccounted /\ ExitComplete

\* The buffers listed for aio_suspend.
Listed == {b \in Buf : aiolist[b]}

\* A step that touches no buffer.
Idle == UNCHANGED <<st_size, op, last, blk, rot, aio, aiolist, numop, off, out, recount>>
=============================================================================
