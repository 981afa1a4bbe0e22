------------------------------ MODULE MemStream ------------------------------
(***************************************************************************)
(* The book's fmemopen, src/apue/apue.3e/exercises/fmemopen.c: a standard  *)
(* I/O stream over a buffer, with the read, write, seek and close          *)
(* functions given to funopen.  Beside it, file is what an ordinary file   *)
(* opened with the same type would hold after the same calls.              *)
(***************************************************************************)
EXTENDS Integers, Sequences

CONSTANTS Byte,     \* byte values, 0 among them
          MaxSize,  \* bound: size of the buffer
          MaxLen    \* bound: bytes in one read or write

VARIABLES open,     \* "before", "open", "closed" or "refused"
          flags, buf, rsize, vsize, curpos,  \* struct memstream
          file      \* the ordinary file
vars == <<open, flags, buf, rsize, vsize, curpos, file>>

Strings(n) == UNION {[1..k -> Byte] : k \in 0..n}
At(b, i) == b[i + 1]     \* C's b[i]
Lesser(x, y) == IF x <= y THEN x ELSE y
Greater(x, y) == IF x >= y THEN x ELSE y

\* The types type_to_flags accepts, "b" apart, and their flags.
Type == {"r", "w", "a", "r+", "w+", "a+"}
type_to_flags(type) ==
  (CASE type \in {"r", "r+"} -> {"READ"} [] type \in {"w", "w+"} -> {"WRITE", "TRUNCATE"}
     [] OTHER -> {"APPEND"})
  \cup (IF type \in {"r+", "w+", "a+"} THEN {"READ", "WRITE"} ELSE {})

\* What find_end returns: the first zero byte, or the size of the buffer.
find_end(b) == {e \in 0..Len(b) : /\ e = Len(b) \/ At(b, e) = 0
                                  /\ \A i \in 0..e - 1 : At(b, i) # 0}

Init == /\ open = "before" /\ flags = {} /\ vsize = 0 /\ curpos = 0 /\ file = <<>>
        /\ rsize \in 1..MaxSize
        /\ \E x \in Byte : buf = [i \in 1..rsize |-> x]

\* The type is bad or memory is short; or buf is the caller's or, for an update
\* type, a new one, whose bytes are whatever malloc left there.
fmemopen ==
  /\ open = "before" /\ UNCHANGED rsize
  /\ \/ open' = "refused" /\ UNCHANGED <<flags, buf, vsize, curpos, file>>
     \/ \E type \in Type, mine \in BOOLEAN :
          /\ mine => {"READ", "WRITE"} \subseteq type_to_flags(type)
          /\ buf' \in IF mine THEN [1..rsize -> Byte] ELSE {buf}
          /\ flags' = type_to_flags(type) \cup (IF mine THEN {"MYBUF"} ELSE {})
          /\ curpos' \in IF "APPEND" \in flags' /\ ~ mine THEN find_end(buf) ELSE {0}
          /\ vsize' = CASE "APPEND" \in flags' -> curpos' [] "TRUNCATE" \in flags' -> 0
                        [] OTHER -> rsize
          /\ open' = "open" /\ file' = SubSeq(buf', 1, vsize')

mstream_read ==
  /\ open = "open" /\ "READ" \in flags /\ curpos < vsize
  /\ \E len \in 1..MaxLen : curpos' = curpos + Lesser(len, vsize - curpos)
  /\ UNCHANGED <<open, flags, buf, rsize, vsize, file>>

\* b with d put at offset off.
Put(b, off, d) == [i \in 1..Greater(Len(b), off + Len(d)) |->
                     IF i \in off + 1 .. off + Len(d) THEN d[i - off] ELSE b[i]]
Nul(b, i) == Put(b, i, <<0>>)
Where == IF "APPEND" \in flags THEN vsize ELSE curpos
Readable == {"READ", "WRITE"} \subseteq flags

\* As if an update stream were always terminated at its position too.
WrittenTerminated(d) == Nul(Put(buf, Where, d), Lesser(Where + Len(d), rsize - 1))

\* The bytes, and the terminators: after the new end of an update stream if
\* there is room, and at the position of a stream open for writing only.
Written(d) ==
  LET pos  == Where + Len(d)
      b1   == Put(buf, Where, d)
      b2   == IF Readable /\ pos > vsize /\ pos < rsize THEN Nul(b1, pos) ELSE b1
  IN IF "READ" \in flags THEN b2 ELSE Nul(b2, IF pos < rsize THEN pos ELSE rsize - 1)

mstream_write ==
  /\ open = "open" /\ flags \cap {"APPEND", "WRITE"} # {}
  /\ \E s \in Strings(MaxLen) :
       LET d == SubSeq(s, 1, Lesser(Len(s), rsize - Where)) IN
       /\ buf' = Written(d) /\ curpos' = Where + Len(d)
       /\ vsize' = Greater(vsize, curpos')
       /\ file' = Put(file, Where, d)
  /\ UNCHANGED <<open, flags, rsize>>

\* An offset outside the stream is refused.
mstream_seek ==
  /\ open = "open"
  /\ \E pos \in -MaxSize..MaxSize, base \in {0, vsize, curpos} :
       /\ base + pos \in 0..vsize /\ curpos' = base + pos
  /\ UNCHANGED <<open, flags, buf, rsize, vsize, file>>

mstream_close ==
  /\ open = "open" /\ open' = "closed"
  /\ UNCHANGED <<flags, buf, rsize, vsize, curpos, file>>

Closed == open \in {"closed", "refused"} /\ UNCHANGED vars
Next == \/ fmemopen \/ mstream_read \/ mstream_write \/ mstream_seek
        \/ mstream_close \/ Closed
Spec == Init /\ [][Next]_vars

-----------------------------------------------------------------------------
\* A stream that can be read holds, between its beginning and its size, what an
\* ordinary file would after the same writes and seeks, and no call writes
\* outside the buffer.  A stream open for writing only is left out: its
\* terminator replaces a byte when it is moved back or its buffer is full.
HoldsFile ==
  open = "open" =>
    /\ curpos <= vsize /\ vsize <= rsize /\ Len(buf) = rsize
    /\ "READ" \in flags => SubSeq(buf, 1, vsize) = file

-----------------------------------------------------------------------------
(* The inductive invariant the proof of HoldsFile rests on: the position   *)
(* is in the stream, the stream in the buffer, and a stream that can be    *)
(* read and written is of an update type.                                  *)

OpenOK == /\ vsize \in 0..rsize /\ curpos \in 0..vsize
          /\ "READ" \in flags /\ flags \cap {"APPEND", "WRITE"} # {} => "WRITE" \in flags
          /\ "READ" \in flags => file = [i \in 1..vsize |-> buf[i]]

IInv == /\ rsize \in Nat \ {0} /\ buf \in Seq(Byte) /\ Len(buf) = rsize
        /\ open = "open" => OpenOK
=============================================================================
