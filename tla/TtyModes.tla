------------------------------ MODULE TtyModes ------------------------------
(***************************************************************************)
(* Terminal modes: tty_cbreak, tty_raw and tty_reset, once in              *)
(* src/apue/18.11break_and_raw.c and once in the book's lib/ttymodes.c,    *)
(* driven by the program apue.3e/termios/t_raw.c, which goes raw, back,    *)
(* cbreak, back, and which a signal may end at any moment.                 *)
(*                                                                         *)
(* A terminal is the set of the attributes still on; one attribute stands  *)
(* for each group the code clears together.                                *)
(***************************************************************************)
EXTENDS Naturals

CONSTANT Attr   \* attributes a terminal may have on at the start

VARIABLES tty,          \* the terminal
          orig,         \* the terminal before the program
          lib,          \* which of the two libraries is linked
          save_termios, ttystate, \* the library's statics
          pc, mode,     \* the program, and the mode it is entering or in
          excuse        \* why the terminal may be left as it is
vars == <<tty, orig, lib, save_termios, ttystate, pc, mode, excuse>>

Init == /\ tty \in SUBSET Attr /\ orig = tty /\ lib \in {"user", "book"}
        /\ save_termios = {} /\ ttystate = "RESET"
        /\ pc = "call" /\ mode = "RAW" /\ excuse = FALSE

-----------------------------------------------------------------------------
\* What cbreak mode clears, what raw mode must find cleared, and what
\* tty_raw clears: 18.11break_and_raw.c forgets INPCK.
CbreakOff == {"ECHO", "ICANON", "VMIN"}
RawOff == CbreakOff \cup {"ISIG", "INPCK", "PARENB", "OPOST"}
Required(m) == IF m = "RAW" THEN RawOff ELSE CbreakOff
Cleared(m) == IF m = "RAW" /\ lib = "user" THEN RawOff \ {"INPCK"} ELSE Required(m)

err_sys == pc' = "end"

\* tcsetattr returns 0 when it made some of the changes; -1 when it made none.
tcsetattr(to) == tty' \in {t \in SUBSET (to \cup tty) : to \cap tty \subseteq t}
\* A restoration whose result nobody looks at.
Restore == tcsetattr(save_termios) /\ excuse' = (excuse \/ tty' # save_termios)

tcgetattr1 ==
  /\ pc = "call" /\ UNCHANGED <<tty, orig, lib, ttystate, mode, excuse>>
  /\ \/ err_sys /\ UNCHANGED save_termios   \* in a mode already, or not a terminal
     \/ ttystate = "RESET" /\ save_termios' = tty /\ pc' = "set"

SetMode ==
  /\ pc = "set" /\ UNCHANGED <<orig, lib, save_termios, ttystate, mode, excuse>>
  /\ \/ err_sys /\ UNCHANGED tty
     \/ tcsetattr(tty \ Cleared(mode)) /\ pc' = "verify"

\* As if a failed check returned without restoring.
VerifyLeaving ==
  /\ pc = "verify" /\ UNCHANGED <<orig, lib, save_termios, ttystate, mode>>
  /\ UNCHANGED <<tty, excuse>>
  /\ IF tty \cap Required(mode) # {} THEN err_sys ELSE pc' = "state"

\* The second tcgetattr fails, shows that not all was done, or all is well.
Verify ==
  /\ pc = "verify" /\ UNCHANGED <<orig, lib, save_termios, ttystate, mode>>
  /\ \/ Restore /\ err_sys
     \/ tty \cap Required(mode) # {} /\ Restore /\ err_sys
     \/ tty \cap Required(mode) = {} /\ pc' = "state" /\ UNCHANGED <<tty, excuse>>

Entered ==
  /\ pc = "state" /\ ttystate' = mode /\ pc' = "read"
  /\ UNCHANGED <<tty, orig, lib, save_termios, mode, excuse>>

\* tty_reset, its result examined.
tty_reset ==
  \/ tty' = tty /\ ttystate' = ttystate /\ excuse' = TRUE        \* refused
  \/ tcsetattr(save_termios) /\ ttystate' = "RESET"
     /\ excuse' = (excuse \/ tty' # save_termios)

\* The loop of reads ends: DELETE in raw mode, an error, end of file.
Reset ==
  /\ pc = "read" /\ UNCHANGED <<orig, lib, save_termios>>
  /\ \E readOk \in BOOLEAN :
       /\ mode = "CBREAK" => ~ readOk
       /\ tty_reset
       /\ IF ttystate' = "RESET" /\ readOk
          THEN mode' = "CBREAK" /\ pc' = "call" ELSE err_sys /\ UNCHANGED mode

\* SIGINT, SIGQUIT or SIGTERM: sig_catch calls tty_reset and exits.  Between
\* tcsetattr and the assignment to ttystate tty_reset finds RESET and leaves
\* the terminal as it is.
sig_catch ==
  /\ pc # "end" /\ pc' = "end" /\ UNCHANGED <<orig, lib, save_termios, mode>>
  /\ IF ttystate = "RESET" THEN /\ excuse' = (excuse \/ pc \in {"verify", "state"})
                                /\ UNCHANGED <<tty, ttystate>>
                           ELSE tty_reset

Ended == pc = "end" /\ UNCHANGED vars

Next == tcgetattr1 \/ SetMode \/ Verify \/ Entered \/ Reset \/ sig_catch \/ Ended
Spec == Init /\ [][Next]_vars

-----------------------------------------------------------------------------
\* The library says RAW or CBREAK only of a terminal that really is in that
\* mode, whatever tcsetattr made of the changes it was asked for; and a program
\* that has ended left the terminal as it found it, unless a restoration was
\* itself refused or cut short, or the signal came in the window before
\* ttystate is set.
ModeTrue == /\ ttystate # "RESET" => tty \cap Required(ttystate) = {}
            /\ pc = "end" /\ ~ excuse => tty = orig

-----------------------------------------------------------------------------
(* The inductive invariant the proof of ModeTrue rests on.                 *)

\* From the first tcgetattr on, what was saved is what was found; until the
\* terminal is changed it is what was found.
Saved == save_termios = orig \/ excuse
Found == tty = orig \/ excuse
InMode == tty \cap Required(mode) = {}

IInv == /\ mode \in {"RAW", "CBREAK"} /\ excuse \in BOOLEAN
        /\ pc \in {"call", "set", "verify", "state", "read", "end"}
        /\ pc = "call" => ttystate = "RESET" /\ Found
        /\ pc = "set" => ttystate = "RESET" /\ Found /\ Saved
        /\ pc = "verify" => ttystate = "RESET" /\ Saved
        /\ pc = "state" => ttystate = "RESET" /\ Saved /\ InMode
        /\ pc = "read" => ttystate = mode /\ Saved /\ InMode
        /\ pc = "end" => Found /\ (ttystate = "RESET" \/ (ttystate = mode /\ InMode))
=============================================================================
