--------------------------- MODULE ProcessesProofs ---------------------------
(***************************************************************************)
(* What is proved of the programs run together: the inductive invariant of *)
(* each holds in its behaviours, and the properties follow.                *)
(***************************************************************************)
EXTENDS Processes, ProgramsProofs

\* Whatever program a behaviour is of, its inductive invariant holds.
Inv ==
  /\ prog = "Rot" => Rot!IInv
  /\ prog = "Dmn" => Dmn!IInv
  /\ prog = "Sem" => Sem!IInv
  /\ prog = "Tel" => Tel!IInv
  /\ prog = "Pass" => Pass!IInv
  /\ prog = "Xsi" => Xsi!IInv
  /\ prog = "Tty" => Tty!IInv
  /\ prog = "Pty" => Pty!IInv
  /\ prog = "Thr" => Thr!IInv
  /\ prog = "Sgn" => Sgn!IInv
  /\ prog = "Tim" => Tim!IInv
  /\ prog = "Mem" => Mem!IInv
  /\ prog = "Ftw" => Ftw!IInv

LEMMA InvInit == Init => Inv
  BY RotInit, DmnInit, SemInit, TelInit, PassInit, XsiInit, TtyInit, PtyInit, ThrInit, SgnInit, TimInit, MemInit, FtwInit DEF Init, Inv

LEMMA InvStep == ASSUME Inv, [Next]_vars PROVE Inv'
<1>0. UNCHANGED prog
  BY DEF Next, vars
<1>1. CASE prog = "Rot"
  <2>1. [Rot!Next]_(Rot!vars)
    BY <1>1 DEF Next, vars, Rot!vars
  <2> QED BY <2>1, <1>0, <1>1, RotStep DEF Inv
<1>2. CASE prog = "Dmn"
  <2>1. [Dmn!Next]_(Dmn!vars)
    BY <1>2 DEF Next, vars, Dmn!vars
  <2> QED BY <2>1, <1>0, <1>2, DmnStep DEF Inv
<1>3. CASE prog = "Sem"
  <2>1. [Sem!Next]_(Sem!vars)
    BY <1>3 DEF Next, vars, Sem!vars
  <2> QED BY <2>1, <1>0, <1>3, SemStep DEF Inv
<1>4. CASE prog = "Tel"
  <2>1. [Tel!Next]_(Tel!vars)
    BY <1>4 DEF Next, vars, Tel!vars
  <2> QED BY <2>1, <1>0, <1>4, TelStep DEF Inv
<1>5. CASE prog = "Pass"
  <2>1. [Pass!Next]_(Pass!vars)
    BY <1>5 DEF Next, vars, Pass!vars
  <2> QED BY <2>1, <1>0, <1>5, PassStep DEF Inv
<1>6. CASE prog = "Xsi"
  <2>1. [Xsi!Next]_(Xsi!vars)
    BY <1>6 DEF Next, vars, Xsi!vars
  <2> QED BY <2>1, <1>0, <1>6, XsiStep DEF Inv
<1>7. CASE prog = "Tty"
  <2>1. [Tty!Next]_(Tty!vars)
    BY <1>7 DEF Next, vars, Tty!vars
  <2> QED BY <2>1, <1>0, <1>7, TtyStep DEF Inv
<1>8. CASE prog = "Pty"
  <2>1. [Pty!Next]_(Pty!vars)
    BY <1>8 DEF Next, vars, Pty!vars
  <2> QED BY <2>1, <1>0, <1>8, PtyStep DEF Inv
<1>9. CASE prog = "Thr"
  <2>1. [Thr!Next]_(Thr!vars)
    BY <1>9 DEF Next, vars, Thr!vars
  <2> QED BY <2>1, <1>0, <1>9, ThrStep DEF Inv
<1>10. CASE prog = "Sgn"
  <2>1. [Sgn!Next]_(Sgn!vars)
    BY <1>10 DEF Next, vars, Sgn!vars
  <2> QED BY <2>1, <1>0, <1>10, SgnStep DEF Inv
<1>11. CASE prog = "Tim"
  <2>1. [Tim!Next]_(Tim!vars)
    BY <1>11 DEF Next, vars, Tim!vars
  <2> QED BY <2>1, <1>0, <1>11, TimStep DEF Inv
<1>12. CASE prog = "Mem"
  <2>1. [Mem!Next]_(Mem!vars)
    BY <1>12 DEF Next, vars, Mem!vars
  <2> QED BY <2>1, <1>0, <1>12, MemStep DEF Inv
<1>13. CASE prog = "Ftw"
  <2>1. [Ftw!Next]_(Ftw!vars)
    BY <1>13 DEF Next, vars, Ftw!vars
  <2> QED BY <2>1, <1>0, <1>13, FtwStep DEF Inv
<1> QED BY <1>0, <1>1, <1>2, <1>3, <1>4, <1>5, <1>6, <1>7, <1>8, <1>9, <1>10, <1>11, <1>12, <1>13 DEF Inv

\* The asynchronous copier (14.5.3) never takes a control block whose
\* operation the kernel has not finished: only the kernel ends one, for any
\* number of buffers and blocks and any order of completions.
THEOREM NoReuseHolds == Spec => NoReuseInFlight
<1>1. ASSUME Inv, [Next]_vars PROVE [prog = "Rot" => Rot!NoReuse]_vars
  <2> SUFFICES ASSUME prog = "Rot" PROVE Rot!NoReuse
    OBVIOUS
  <2>1. [Rot!Next]_(Rot!vars)
    BY <1>1 DEF Next, vars, Rot!vars
  <2> QED BY <1>1, <2>1, RotNoReuse DEF Inv
<1> QED BY <1>1, InvInit, InvStep, PTL DEF Spec, NoReuseInFlight

\* For any copies of the daemon, any processes of a semaphore, any number of
\* turns, and whatever fails or is killed on the way: one daemon at most runs
\* with LOCKFILE (13.5), no set of semaphores goes away under a process that
\* sem_create let in, and parent and child take every turn, one at a time
\* (15.2.3, 10.16).
THEOREM OneOwnerHolds == Spec => []OneOwner
<1>1. Inv => OneOwner
  BY DmnProps, SemProps, TelProps DEF Inv, OneOwner
<1> QED BY <1>1, InvInit, InvStep, PTL DEF Spec

\* For any number of buffers, blocks, queues, calls and signals, under the
\* conditions the property names: no block of the copier is passed over, carried
\* twice, or written other than translated once (14.5.3; not that all are
\* written); until a request is cut in two, an answer of the open server is that
\* of the call which gets it (17.5); messages of a queue come out once and in
\* order, of the shared buffer unless its wait returns unsignalled (17.2); a
\* command's output is shown before pty leaves its loop, unless by SIGTERM
\* (19.5); only SIGQUIT ends the wait of 12.8.
THEOREM HandedOverHolds == Spec => []HandedOver
<1>1. Rot!IInv => Rot!TranslatedOnce /\ Rot!BlocksAccounted
  BY DEF Rot!IInv
<1>2. Inv => HandedOver
  BY <1>1, PassProps, XsiProps, PtyProps, ThrProps DEF Inv, HandedOver
<1> QED BY <1>2, InvInit, InvStep, PTL DEF Spec

\* For any number of signals and failures, under the conditions the property
\* names: the library says raw or cbreak only of a terminal that is, and gives
\* its attributes back unless the restoration is refused or a signal falls
\* between tcsetattr and ttystate (18.11); pty leaves raw mode once tty_atexit
\* is registered (19.5); a daemon keeps nothing of its shell (13.3); system
\* (apue.3e/signals/system.c) and sleep (10.19) give actions, mask and status
\* back, abort (10.17) ends by SIGABRT, the late signals apart.
THEOREM LeftAsFoundHolds == Spec => []LeftAsFound
<1>1. Inv => LeftAsFound
  BY TtyProps, PtyProps, DmnProps, SgnProps DEF Inv, LeftAsFound
<1> QED BY <1>1, InvInit, InvStep, PTL DEF Spec

\* For any hierarchy, buffer, file and delay: the walk (4.22) never writes
\* behind fullpath, calls myfunc for a file when fullpath holds its path, and
\* leaves out no file below a directory it could read; the memory stream
\* (fmemopen) holds what a file would; the time asked of the helper is a proper
\* timespec, and retry runs once, not before its time.
THEOREM EdgesRightHolds == Spec => []EdgesRight
<1>1. Inv => EdgesRight
  BY TimProps, MemProps, FtwProps DEF Inv, EdgesRight
<1> QED BY <1>1, InvInit, InvStep, PTL DEF Spec
==============================================================================
