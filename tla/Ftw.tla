--------------------------------- MODULE Ftw ---------------------------------
(***************************************************************************)
(* The walk of src/apue/4.22ftw.c: myftw and dopath descend a hierarchy    *)
(* and call myfunc for every file.  All levels of the recursion share one  *)
(* buffer, fullpath, which grows; each level keeps the length of its own   *)
(* path and an open directory.  The stack of calls is explicit.            *)
(*                                                                         *)
(* A hierarchy is a set of numbered files, each below an earlier one.      *)
(* External: lstat and opendir may fail, opendir also because too many     *)
(* directories are open at once.                                           *)
(***************************************************************************)
EXTENDS Integers, Sequences

CONSTANTS NFiles,       \* files, 1 the starting one
          NAME_MAX,     \* longest name
          OPEN_MAX      \* directories that may be open at once

VARIABLES parent, isdir, namelen,   \* the hierarchy
          pathlen, len,             \* size of fullpath, and strlen(fullpath)
          stack,     \* calls of dopath: the file, n, the names not yet read
          pc,        \* "call", "loop" or "done"
          called,    \* file -> the types myfunc was called with, in order
          counted,   \* nreg and the like, ndir, and messages printed
          full       \* history: the length of the path of each file met
vars == <<parent, isdir, namelen, pathlen, len, stack, pc, called, counted, full>>

File == 1..NFiles
Below(f) == {g \in File : g # 1 /\ parent[g] = f}
Frame(f) == [file |-> f, n |-> 0, todo |-> {}]
Top == stack[Len(stack)]
WithTop(frame) == [stack EXCEPT ![Len(stack)] = frame]

\* path_alloc's first size, and myftw's own growth for a long starting path.
path_alloc == NAME_MAX + 1
StartLen(l) == IF path_alloc <= l THEN l * 2 ELSE path_alloc

Init == /\ isdir \in [File -> BOOLEAN]
        /\ parent \in {p \in [File -> File] : /\ p[1] = 1
             /\ \A f \in File \ {1} : p[f] < f /\ isdir[p[f]]}
        /\ namelen \in {l \in [File -> {1, NAME_MAX, NAME_MAX + 2}] :
                          \A f \in File : f # 1 => l[f] <= NAME_MAX}
        /\ pathlen = StartLen(namelen[1]) /\ len = namelen[1]
        /\ stack = <<Frame(1)>> /\ pc = "call"
        /\ called = [f \in File |-> <<>>] /\ counted = [file |-> 0, dir |-> 0, said |-> 0]
        /\ full = [f \in File |-> IF f = 1 THEN namelen[1] ELSE 0]

-----------------------------------------------------------------------------
\* myfunc: files and directories are counted; a directory that cannot be read
\* and a file that cannot be examined are reported, and so is every directory:
\* case FTW_D has no break and falls through.
myfunc(f, type) ==
  /\ called' = [called EXCEPT ![f] = Append(@, type)]
  /\ counted' = [file |-> counted.file + (IF type = "FTW_F" THEN 1 ELSE 0),
                 dir |-> counted.dir + (IF type = "FTW_D" THEN 1 ELSE 0),
                 said |-> counted.said + (IF type = "FTW_F" THEN 0 ELSE 1)]

Return == /\ stack' = SubSeq(stack, 1, Len(stack) - 1)
          /\ pc' = IF Len(stack) = 1 THEN "done" ELSE "loop"
Hierarchy == <<parent, isdir, namelen>>

\* The start of dopath: lstat, and a file that is no directory.
lstat ==
  /\ pc = "call" /\ UNCHANGED <<Hierarchy, pathlen, len, full>>
  /\ \/ myfunc(Top.file, "FTW_NS") /\ Return
     \/ ~ isdir[Top.file] /\ myfunc(Top.file, "FTW_F") /\ Return
     \/ isdir[Top.file] /\ myfunc(Top.file, "FTW_D") /\ pc' = "grow" /\ UNCHANGED stack

\* As if only the slash had to fit.
ExpandSlash == pathlen' = IF len + 2 > pathlen THEN pathlen * 2 ELSE pathlen
\* Room for a slash and the longest name: doubled once when there is not.
Expand == pathlen' = IF len + NAME_MAX + 2 > pathlen THEN pathlen * 2 ELSE pathlen
grow ==
  /\ pc = "grow" /\ pc' = "open" /\ Expand /\ len' = len + 1
  /\ stack' = WithTop([Top EXCEPT !.n = len'])
  /\ UNCHANGED <<Hierarchy, called, counted, full>>

OpenDirs == Len(stack) - 1
opendir ==
  /\ pc = "open" /\ UNCHANGED <<Hierarchy, pathlen, len, full>>
  /\ \/ myfunc(Top.file, "FTW_DNR") /\ Return
     \/ /\ OpenDirs < OPEN_MAX /\ UNCHANGED <<called, counted>>
        /\ stack' = WithTop([Top EXCEPT !.todo = Below(Top.file)]) /\ pc' = "loop"

\* As if the name were put after what fullpath holds now.
NameAtEnd == len
\* The name goes after this level's own slash, over what deeper calls left.
NameAt == Top.n
readdir ==
  /\ pc = "loop" /\ UNCHANGED <<Hierarchy, pathlen, called, counted>>
  /\ \/ \E f \in Top.todo :
          /\ len' = NameAt + namelen[f]
          /\ full' = [full EXCEPT ![f] = full[Top.file] + 1 + namelen[f]]
          /\ stack' = Append(WithTop([Top EXCEPT !.todo = @ \ {f}]), Frame(f))
          /\ pc' = "call"
     \/ Top.todo = {} /\ len' = Top.n - 1 /\ Return /\ UNCHANGED full

Done == pc = "done" /\ UNCHANGED vars
Next == lstat \/ grow \/ opendir \/ readdir \/ Done
Spec == Init /\ [][Next]_vars

-----------------------------------------------------------------------------
Reached(f) == f = 1 \/ (called[parent[f]] = <<"FTW_D">>)

\* Every file below a directory that could be read is reported once, whatever
\* other parts of the hierarchy failed; the shared buffer never overflows, the
\* slash and the longest name included; and at every call of myfunc for a file
\* it holds that file's path, not the remains of a deeper one.
WalkRight ==
  /\ len < pathlen
  /\ pc = "open" => len + NAME_MAX < pathlen
  /\ pc = "call" => len = full[Top.file]
  /\ pc = "done" => /\ \A f \in File : Reached(f) <=> called[f] # <<>>
                    /\ \A f \in File : Len(called[f]) <= 1
                                       \/ called[f] = <<"FTW_D", "FTW_DNR">>

-----------------------------------------------------------------------------
(* The inductive invariant the proof of WalkRight rests on.                *)

Frames == [file : File, n : Nat, todo : SUBSET File]
Reports == {<<>>, <<"FTW_NS">>, <<"FTW_F">>, <<"FTW_D">>, <<"FTW_D", "FTW_DNR">>}
TypeOK ==
  /\ parent \in [File -> File] /\ namelen \in [File -> Nat] /\ full \in [File -> Nat]
  /\ pathlen \in Nat /\ len \in Nat /\ stack \in Seq(Frames) /\ called \in [File -> Reports]
  /\ pc \in {"call", "grow", "open", "loop", "done"} /\ (pc = "done" <=> Len(stack) = 0)
  /\ \A f \in File \ {1} : parent[f] < f /\ namelen[f] <= NAME_MAX

\* The calls are those on the way down from the starting file.
StackOK ==
  \A i \in 1..Len(stack) :
    /\ stack[i].todo \subseteq Below(stack[i].file) /\ \A f \in stack[i].todo : called[f] = <<>>
    /\ i = 1 => stack[i].file = 1
    /\ i > 1 => /\ stack[i].file # 1 /\ parent[stack[i].file] = stack[i - 1].file
                /\ stack[i].file \notin stack[i - 1].todo
    /\ \A j \in 1..Len(stack) : i < j => stack[i].file < stack[j].file

\* A file that should be reported and is not yet is the one dopath was called
\* for, or a name still to be read.
Waiting(f) == \/ \E i \in 1..Len(stack) : f \in stack[i].todo
              \/ pc = "call" /\ f = Top.file
              \/ pc \in {"grow", "open"} /\ f \in Below(Top.file)
VisitOK ==
  /\ \A i \in 1..Len(stack) : i < Len(stack) \/ pc # "call" => called[stack[i].file] = <<"FTW_D">>
  /\ pc = "call" => called[Top.file] = <<>>
  /\ pc \in {"call", "grow", "open"} => Top.todo = {}
  /\ pc \in {"grow", "open"} => \A f \in Below(Top.file) : called[f] = <<>>
  /\ \A f \in File : called[f] # <<>> => Reached(f)
  /\ \A f \in File : Reached(f) /\ called[f] = <<>> => Waiting(f)

\* Each level knows where its own path ends, and has room for a name behind it.
BufferOK ==
  /\ len < pathlen /\ NAME_MAX < pathlen
  /\ \A i \in 1..Len(stack) : stack[i].n + NAME_MAX < pathlen
  /\ pc \in {"call", "grow"} => len = full[Top.file]
  /\ pc = "open" => len = Top.n
  /\ \A i \in 1..Len(stack) :
       i < Len(stack) \/ pc \in {"open", "loop"} => stack[i].n = full[stack[i].file] + 1

IInv == TypeOK /\ StackOK /\ VisitOK /\ BufferOK
=============================================================================
