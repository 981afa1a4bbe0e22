# A verification project for CodeLearning

CodeLearning is a repository of systems programming studies: the programs of
*Advanced Programming in the UNIX Environment* written anew (`apue/`) beside the
book's own source (`apue/apue.3e`), data structures and algorithms in C
(`data_structure_and_algorithm/`, `clrs/`), network tools (`network/`), and
Python, Django and crawler exercises.  Its demanding parts are the programs in
which several processes or threads share files, memory, sockets, signals or a
terminal.  This project models those, and the data structures and algorithms,
checks them with TLC, and proves the most important results with TLAPS.

Paths below are relative to the repository's root.

## 1. Inventory

### Record database library: `apue/20db/db.c`, `apue/apue.3e/db/db.c`

Processes that open the same database share two files and nothing else.

| state | kept in | shared by |
|---|---|---|
| free-list pointer, `NHASH` chain pointers, index records (pointer, length, key, data offset and length) | `.idx` file | all processes |
| data records | `.dat` file | all processes |
| record locks: `FREE_OFF`, one byte per chain, the index tail, the data file | kernel (`fcntl`) | all processes |
| the `DB` structure: offsets and lengths of the record in hand, file offset | memory | one process |

Operations: `db_open`, `db_close`, `db_fetch`, `db_store` (insert, replace,
store), `db_delete`, `db_rewind`, `db_nextrec`.  Hard: there is no server, so
the order of system calls and the locks around them carry all correctness;
record lengths are read in one call and used in a later one; `db_nextrec`
holds another lock than the stores it runs beside; kills between two writes;
pointer fields of fixed width.  Correct when: the lists are exact, a key is
unique, no process meets a record it cannot parse, calls are atomic.

### Print spooler: `apue/apue.3e/printer`

`print` sends a document to `printd`, whose client thread spools it under a job
number and acknowledges it; one printer thread sends the jobs to the printer and
waits for its answer.  State: the job number file, data and control files on
disk; the job list with its mutex and condition variable; the flag `reread`.
Hard: a daemon that dies between two files, job numbers after a restart,
signalling after the unlock, timed reads, the printer's answer cut into reads.
Correct when: an acknowledged job is kept, whole, and printed in the end.

### Open servers: `apue/17.3*.c`, `apue/17.4*.c`, `apue/17.5open_serv_1`, `apue/17.6open_serv_2`

Version 1 forks a server per client and talks over a stream pipe; version 2 is
a daemon with a UNIX socket, a `select` or a `poll` loop, and a table of
clients.  Both open files and pass descriptors.  State: streams without record
boundaries, the global `errmsg`, the client table, `allset`/`maxi` or the packed
`pollfd` array.  Hard: reads that cut or join messages, clients that vanish,
descriptors reused by the kernel, two tables indexed differently.  Correct
when: a call returns its own answer, tables and watched descriptors agree, no
read blocks, requests are answered.

### Threads: chapters 11, 12 and 14.5

Counted objects in a hash table with two levels of mutexes (`11.6.2`, and the
book's `mutex3.c` with one), a doubly linked queue under a read-write lock
(`11.6.4`), a message queue with a condition variable (`11.6.6`), a sort with a
barrier (`11.6.8`), a timeout that may run in a thread (`12.4.1`), a thread that
takes the signals of a process (`12.8`), a copier with requests in the kernel
(`14.5.3`).  Hard: a lock given up and taken again around a test, a walk with no
end test, a signal sent after the unlock, completions in any order.  Correct
when: counts equal references, nothing is used after it is destroyed, lists are
exact, no wakeup is lost, each block is copied once.

### Processes and signals: chapters 8, 10, 13, 14.3, 15 and 19

`system`, `sleep`, `abort` and `sigsuspend` change signal actions, mask and timer
and have to give them back; `tell_wait` makes parent and child take turns by pipe
or by signal; `popen` keeps a table of children and closes inherited pipes;
`semaph.c` counts users in a System V set that is removed with the last;
`daemonize`, `already_running` and re-reading; terminal modes and `pty`, whose two
copying processes must end together and leave the terminal as it was.  Hard:
signals between any two system calls, a step of several that fails, a pipe end
held by the wrong process, processes killed inside a critical section.

### Files and queues: `4.22ftw.c`, `fmemopen.c`, `17.2*`

The directory walk with its growing path buffer, a stream over a memory buffer,
and XSI message queues made pollable by a thread and a socket each.

### Network: chapter 16, `network/`

The uptime services with forking, popen and datagram servers; `lcx`, which
relays two connections with `select` and partial writes; the TCP programs behind
a tun device, which answer each packet from that packet alone; the TLS file
transfer.  Hard: loss, wrap-around, partial writes, a stray packet, failures
after fork.

### Database layer of the web application: `lxf-python/awesome-python-webapp/www/transwarp/db.py`

A thread-local context with a lazy connection and a depth of transactions;
nested `with` blocks through which exceptions pass.  Correct when: a transaction
is all or nothing however blocks nest, and nothing is left open.

### Algorithms and data structures: `clrs/`, `data_structure_and_algorithm/`

Sorts, inversions, maximum subarrays; an AVL tree, a hash table, list, stack,
queue, disjoint sets, three priority queues.  Sequential; correct when they
compute what a reference definition does.

### The rest

Listed in PROJECT.json under `components` with the reason it is not modelled.
What each of the modelled parts is exposed to is listed there under `hazards`,
at the line where it bites.

## 2. Modules

| module | models | state and actions |
|---|---|---|
| `ApueDb` | `20db/db.c` after `db_open` | one action per system call on a shared file or lock; `pc` labels name the place in the code, `db[p]` is the `DB` structure with the locals; the properties, and the refinement of `KVStore` |
| `KVStore` | what `apue_db.h` promises | an atomic map |
| `ApueDbProofs` | - | proofs: types, exclusion, format, chains, free list, keys |
| `ApueDbMap` | - | proofs: bindings, refinement of `KVStore` |
| `DbOpen` | `db_open`, `db_close` by several processes, beside stores | whether the index file has bytes, a header, records linked to it; the whole-file lock, stores in several steps; its proofs |
| `BookDb` | `apue.3e/db/db.c` | one process, one action per call, the file offset the calls leave |
| `Printd` | `printd.c`, `print.c`, `util.c` of the spooler | the disk, the job list, one action per critical section, file operation or message of a client, of its thread, of the printer thread; crash and restart |
| `PrintdProofs` | - | proofs: what was accepted, wakeups |
| `PrinterStatus` | `printer_status`, `readmore` | one action per read or state of the parser |
| `FooTable`, `FooLocked` | `11.6.2avoid_deadlock1.c`; the book's `mutex3.c` | one action per mutex operation or pointer step; one per critical section |
| `JobQueue` | `11.6.4job_queue.c` and the book's `rwlock.c` | one action per call (each holds the lock throughout) |
| `MsgQueue` | `11.6.6cond.c` | one action per mutex or condition operation |
| `BarrierSort` | `barrier.c` | one action per thread's half of a sort, arrival, step of the merge |
| `Timeout` | `12.4.1recursive_mutex.c` | main, the helper thread, a clock |
| `SigThread` | `12.8pthread_signal.c` | main, the signal thread, the kernel |
| `AioRot13` | `14.5.3rot_13_aio.c` | one action per buffer visited, per pass end, per completion |
| `Signals` | `8.13`, `10.10`, `10.16`, `10.17`, `10.19`, the book's `system.c` | one action per system call, delivery, handler's return |
| `TellWait` | `15.2.3`, `10.16sigsuspend3`, `15.9`, `14.3.3` | one action per tell, wait, lock and half of an update |
| `Popen` | `15.3popen_and_pclose.c`, `lib/popen.c` | the descriptors of the caller and of each child |
| `Semaph` | `lib/semaph.c` | one action per `semget`, `semop` or `semctl`, kills with undo |
| `Daemon` | `13.3`, `13.5`, `13.6.1`, `13.6.2` | copies of a daemon, step by step |
| `TtyModes` | `18.11break_and_raw.c` and the book's `ttymodes.c` | one action per terminal call, signals |
| `Pty` | chapter 19: `main`, `pty_fork`, `driver`, `loop` | the two copying processes, the command, the driver |
| `Ftw` | `4.22ftw.c` | one action per entry of a hierarchy |
| `MemStream` | `exercises/fmemopen.c` | one action per call of the stream |
| `XsiPoll` | `17.2*` | helper threads, main, the sender |
| `FdPass` | `17.5open_serv_1`, `17.4*` | one action per write, read or message |
| `OpenServer` | clients, `17.3*`, `control_client.c`, `handle_request.c`; `loop_select.c`, `loop_poll.c`; `main_server.c` linked with either | one action per step of a client; one per select or poll, accept and turn of the for loop; `loop` says which is linked in |
| `OpenServerProofs` | - | proofs: tables, watched descriptors, reads |
| `Ruptime` | `16.5.*`, `16.4`, `clconn2.c` | server processes, clients, queue and datagrams |
| `LcxRelay`, `LcxMain` | `network/lcx/lcx.c` | `transdata` read by read and write by write; arguments, pairs and children |
| `TunTcp`, `TunMany` | `network/tun` | a program and the kernel's TCP, packets that may be lost; `connectmany` |
| `SslFile` | `network/ssl` | clients and server around the TLS library |
| `PyDb` | `transwarp/db.py` | one action per block entered, left or passed by an exception, per statement |
| `Operators` | `clrs`, `data_structure_and_algorithm` | operators on arrays and on values |
| `Algorithms` | - | every array, every sequence of calls, against references |
| `Programs`, `Processes`, `Network` | - | the programs above, together (below) |
| `ProgramsProofs` | - | proofs: the inductive invariants of thirteen programs |
| `ProcessesProofs` | - | proofs: the properties of `Processes` that rest on them |
| `NetworkProofs` | - | proofs: the inductive invariants of seven programs of `Network`, and the two properties that rest on them |
| `MCApueDb` | - | values of constants for TLC |

*Processes and Network.*  A small program needs no run of its own.  These two
modules take many: `prog` is the program a behaviour is of, `m1`, `m2`, ... are
its variables in the order its module declares them.  The thirteen programs the
proofs are about are instances in `Programs`, which `Processes` extends, with their
parameters as constants, and so are those of the four of `Network`; the `INSTANCE`
of any other holds its bounds.  `prog`
never changes, so every program is explored completely and none
sees another.  A property such as `OneOwner` states one idea and says for each
program what it means there, by the name of a property of the program's own
module, where it is explained.  The programs do interact in two places, and there
they are one module: the loops and the client table (`OpenServer`), and the
spooler with its clients (`Printd`).

*Abstractions.*  Keys, data, names and messages are opaque; where a length or a
hash decides something it is a constant function (`KeyLen`, `DatLen`, `Hash`,
`HASH`).  Offsets in the index file keep their layout with every field one unit
wide.  A buffer that is passed whole is one unit (a chunk, a block); a stream
whose cuts matter is a sequence.  Failures of a system call that end the process
at once are modelled as ends of the process, not call by call.

*Merged steps.*  The moves of a file offset that only the process itself sees
are merged with the system call after them: `lseek` to the end and `writev` in
`_db_writedat` and `_db_writeidx` are one step (`AppDat`, `AppIdx`).  The merge
hides no race: `Exclusion` says that one process at most is at an append to a file,
between its append lock and the release, and it is proved for any number of chains.

*Slips that do not compile.*  `11.6.4job_queue.c:34`, `11.6.6cond.c:5`,
`loop_poll.c:49` (`ser_accept`), `10.17`, two names in `15.3popen_and_pclose.c`
and several of the data structures do not compile as they stand; each is modelled
with the slip read as meant, and the module says so.  Where reading it as meant
would repair what the code does, the code is left out instead (section 7).

*Mutants.*  Definitions named "the mutant ..." in a comment are deliberate
faults.  None is part of a specification; PROJECT.json pairs each with the
property that must fail when it replaces the definition it imitates.

## 3. Runs

| run | instance | shows |
|---|---|---|
| `db_chain` | 2 fair processes, 1 chain, 2 keys, 3 record places, the last past `PTR_MAX` | `Exclusion`, `UniqueKey`, `ChainsExact`, `FreeExact` under every interleaving of system calls; a store that cannot link its record exits and damages nothing; `Progress`: as long as a process is in a call, one completes one or all are gone |
| `db_refine` | 2 processes, 2 chains, 3 keys of 2 lengths, 2 places | `Linearizable` (implements `KVStore`), `LenStable`, `TypeOK` |
| `db_crash` | one kill anywhere but at two labels | `ListsSound`, `NoDump`, `OnlyOwnKey` |
| `db_open` | 3 processes | `InitOnce`, `OpenedHasHeader`, `KeepsRecords` |
| `open_server` | 2 client places, tables that grow by 1, either loop | `TableExact`, `WatchedExact`, `NeverBlocks`, `UidRightSelect`, `DownOnlyByMishap`, `Answered` |
| `printd` | 2 clients, 2 starts of the daemon, job numbers that wrap | `AckedKept`, `NoLostWakeup`, `WholeUnlessSilent`, `EventuallyPrinted` |
| `algorithms` | arrays of up to 5 numbers, up to 6 calls | `SortsRight`, `ExercisesRight`, `TreesRight`, `TablesRight`, `HeapsRight` |
| `processes` | 19 programs of one machine | `TablesExact`, `HandedOver`, `OneOwner`, `LeftAsFound`, `EdgesRight`, `NoReuseInFlight`, `Returns` |
| `network` | 9 programs that talk over a network or store for others | `StreamsExact`, `ServedRight`, `StoresExact`, `Delivered` |
| `job_find` | 3 jobs | `FindsQueued` fails, see section 6 |
| `open_uid` | 3 client places | `UidRight` fails for the poll loop, see section 6 |
| `ssl_mode` | 1 client, every value of the macros | `ModeAsDocumented` fails, see section 6 |

*Bounds.*  Three record places are needed for a record that is neither first nor
last on a list (a fault in `_db_findfree`'s predecessor goes unseen with two);
two chains and a longer key are needed for records that move from one chain to
another through the free list.  Two processes or threads meet at every lock, and
the hazards listed in PROJECT.json are races of two; a third is left to the
proofs, where there are any: they hold for any number.  A client place stands for
one client process after another, so two places give tables with holes, moved
entries and reused descriptors; growth by one makes the tables grow.  In
`processes` and `network` a buffer, a table or a count is made as small as lets it
be empty, partly full, full and past full: sockets of 1 or 2 messages, a
`childpid` of 4 with a limit of 5, sequence numbers modulo 16 that start at 14,
ports 1 to 3 for 7 connections, 3 nanoseconds to the second, path buffers that
grow.  Signals, kills, losses and spurious wakeups are limited to one to
three, which puts each at every place and two of them together.  Constants whose
declaration says "bound" are not in the code.

*Symmetry* is used in `db_refine` and `db_crash` (processes) and in
`open_uid` (clients, with the identity as uid), never with liveness.

*Deadlock* is checked in `db_refine`, `db_crash` and `db_open`.  In the
others the program may end or stop: every process of `db_chain` may exit, the
server has no more to do, a program of `processes` or `network` is over.

### Fairness

Weak fairness of a process's or thread's own steps, everywhere: the scheduler
runs what is not blocked.  No caller is obliged to call, no client to ask, no
sleeper to wake by itself, no signal to be sent, and no mutex is assumed fair.
Beyond that:

| where | assumed | because |
|---|---|---|
| `Signals`, `SigThread` | a pending signal that is not blocked is delivered, a set alarm fires | the kernel does |
| `Timeout` | the clock goes on | - |
| `Popen`, `Pty` | a command whose input has ended ends | the contract of a filter; a command that never ends keeps `pclose` waiting by design |
| `TunTcp` | the kernel retransmits, losses are finitely many | TCP's timer |
| `LcxRelay` | peers send what they have and read what came | `Arrived` asks delivery as long as both are there |
| `Ruptime` | a waiting client's alarm goes off | the datagram client sets it |
| `Printd` | strong fairness of a printer that answers, and takes a job, now and then | a job is tried again until the printer accepts it; a printer that always fails prints nothing.  The loop of `printer_status` over a header cut between two reads is not assumed to end: it is a state of its own (`endless`), which only the end of the daemon leaves, and `EventuallyPrinted` says so |

## 4. Proofs

All proofs hold for any sets of processes, clients, keys and data and any sizes.
The assumptions on constants are the `ASSUME`s of the modules: `DbConst` (at
least one chain, a file with room behind the chain pointers, a hash within the
table), `PrintdAssumption` (a document has at least one block, there is at least
one job number), `OpenAssumption` (finitely many clients, so a new descriptor
exists; tables that grow).  Every inductive invariant below was checked by TLC
before it was proved.

### Record database

*Types.*  `TypeCorrect` (`ApueDbProofs`): `Spec => []TypeOK`.  `TypeOK` is not
inductive: a step at a label needs to know which calls can be there and that the
handle is on a record.  `IType` adds `CallOK` and `RecordOK`.

*Exclusion.*  `LocksExclude` (`ApueDbProofs`): `Spec => []Exclusion`, kills
included.  `IExcl` adds `LockOK` (an exclusive lock has one holder and no
sharer) and `HoldsOK` (at each label a process holds the locks the code has
taken and not released).  One lemma per action that touches a lock; the rest
share a frame lemma.

*Format.*  `NeverDumps` and `LengthsStable` (`ApueDbProofs`):
`Rewinds => (Spec => []NoDump)` and `Rewinds => (Spec => LenStable)`, kills
included.  `Rewinds` is the assumption that a caller who has made another call
rewinds before the next `db_nextrec`; the code needs it (section 6).  `IFormat`
says every pointer and every offset in a handle names a written record, a record
agrees with its data on the length, and a handle that has read a header or body
agrees with the record as it is now.  That last part is what makes reads without
a common lock safe, and it holds because nobody changes a record's lengths
(`Grows`).  The locks are not needed for it.

*Lists.*  `ListsStaySound` (`ApueDbProofs`):
`Rewinds /\ CleanKills => (Spec => []ListsSound)`, and `ChainsStayExact`,
`FreeStaysExact`, `KeysStayUnique`:
`Rewinds => (Spec => [](crashes = 0 => P))` for `ChainsExact`, `FreeExact` and
`UniqueKey`.  A list in the file is a walk of pointers, and what a walk computes
would need induction over data.  The proof goes round this: `IsList` describes a
list by its members and a rank that falls along the pointers, each pointer naming
the member of the next lower rank.  An insertion at the head and a removal in
the middle keep `IsList` by first-order reasoning; that a walk of such a list
ends and passes exactly its members follows once, from the existence of a least
element of a set of numbers (`LeastNat`).  `ILists` says that such members and
ranks exist for every chain and the free list, and adds for every process inside
a chain or the free list the place it has walked to (`AtChain`, `AtFree`), the
record it holds that is on no list (`Holding`, `Apart`) and, until a kill, that
no record is missing (`Complete`).  `UniqueKey` is about records up to `PTR_MAX`:
a record beyond it is written but cannot be linked, the store that wrote it
exits, and no search ever meets it.  `CleanKills` excludes the two labels of `_db_dodelete` at which a
kill does break a chain (section 5); without a kill it is not needed, which is
what `crashes = 0` says.

*One key at a time.*  `KeysKeepToThemselves` (`ApueDbMap`):
`Rewinds /\ CleanKills => (Spec => OnlyOwnKey)`.  `IOwn` adds to `ILists` that no
two records share their data and that data just appended belongs to no record
yet; `ILists` already says that a process writes only to a record which is on its
chain under its own key or on no list at all.

*The library is a map.*  `LibraryIsMap` (`ApueDbMap`):
`Rewinds /\ MaxCrash = 0 /\ MaxOff <= PTR_MAX => (Spec => Linearizable)`, the
refinement of `KVStore` that `db_refine` checks.  Every action maps to a step of
`KVStore` or to a stutter: a fetch takes effect at its read of the data, or where
the chain ends; a deletion, and a replacement by data of another length, where
the old data is blanked; any other store where the index record is written or the
data overwritten.  `IMap` adds that a record in use has data unless its deletion
has begun (`Filled`), and at which labels the result of a call is decided.  The
two hypotheses beyond `Rewinds` are necessary: a killed process may leave a deletion half done, which is no step of
an atomic map, and a store beyond `PTR_MAX` exits in the middle of a call.

*Opening.*  `InitialisedOnce`, `HeaderWritten` and `RecordsKept`
(`DbOpen`): the three properties of `db_open` for any number of
processes.  The invariant adds who owns the whole-file lock, what `fstat` saw,
and that bytes without a header come from a store that a truncation caught.
`HeaderWritten` is conditional, and the conditions are the code's: `db.c:103`
tests the size, so a store that goes on after another process's `O_TRUNC` leaves a
file of some bytes in which the header is never written (`caught`), and a
truncation needs no lock (`again`).

### Print spooler

`AcceptedIsKept`, `AcceptedIsWhole`, `NoWakeupLost` and `SpoolTyped`
(`PrintdProofs`): `Spec => []P` for `AckedKept`, `WholeUnlessSilent`,
`NoLostWakeup` and `TypeOK`, with crashes, SIGTERM and restarts at any point.
`ISpool` has a part per actor.  `MainOK`: clients are served only between the scan
of the spool and the end of the daemon; `PrinterOK`: what the printer thread
holds at each label, and that what was printed had a number; `FilesOK`: the files
and jobs of a number belong to clients that were given it; `ClientOK` follows one
client: how much it sent and its thread stored (`SentOK`), that it has one number
(`NumberOK`), that nobody prints it before it is added (`AloneOK`), and that,
unless its number was given twice, its files stay until it is printed (`KeptOK`)
and are whole if it sent them to the end (`WholeOK`).
`NoLostWakeup` is then preserved by each action on its own: the thread looks at
the list under `joblock` before it waits, and whoever makes the list non-empty
under `joblock` signals afterwards.

### Open server

`ClientTableExact`, `EveryConnectionWatched`, `ReadsOnlyReady`,
`SelectUsesOwnUid` and `EndsOnlyByMishap` (`OpenServerProofs`): `Spec => []P` for
`TableExact`, `WatchedExact`, `NeverBlocks`, `UidRightSelect` and
`DownOnlyByMishap`, with either loop.  `IServer` has a part that both share,
`NetOK`, and one for each loop.  `NetOK`: an open connection has a descriptor of
its own, the queue holds clients not yet accepted, the table has one entry for
each open connection; that a free descriptor exists for the next client is a
counting argument (`NewFdIs`).  `SelectOK` adds that what the pass over `client[]`
has still to visit of `rset` is ready; it survives an accept, which may give a
closed connection's descriptor away again, because `loop_select.c` selects anew
after each accept.  `PollOK` adds that `pollfd` holds every open connection once
(`WatchOK`) and that what is still to visit with `revents` set is ready
(`ReadyOK`); closing replaces an entry by the last one, and the pass looks at the
same place again, so nothing is skipped or read twice.  `DownOnlyByMishap` names
three endings: a client gone before its answer was written (SIGPIPE), one gone
before it read the answer (`read` fails with ECONNRESET and `log_sys` exits,
`loop_select.c:40`, `loop_poll.c:64`), and one whose socket file is stale.  `UidRight` is not among
the theorems: it fails for the poll loop (section 6).

### Programs of one machine

`ProcessesProofs`: `Spec => []P` for `OneOwner`, `HandedOver`, `LeftAsFound` and
`EdgesRight` of `Processes`, and `Spec => NoReuseInFlight`.  A step of `Processes`
is a step of one program, so an invariant that says "if this is a behaviour of the
copier, the copier's invariant holds", and so on for each, is inductive as soon as
each part is.  `ProgramsProofs` has for each of the thirteen programs that `Init`
implies its `IInv`, that a step keeps it, and that it implies the program's
properties; `IInv` stands at the end of the program's module.

| program | what `IInv` adds to the property, and why it is inductive |
|---|---|
| `AioRot13` | what the fields of a buffer say of each other (`BufOK`): a buffer read into is listed and not translated, one written from is translated and its block in place once the write is done.  With it the three properties are inductive, whatever order operations complete in |
| `Daemon` | whoever is past `lockfile` holds the lock and `LOCKFILE` is its own; at each label of `daemonize`, what of terminal, session and descriptors is given up |
| `Semaph` | what the kernel would undo for a process is what it has taken (`AdjOK`), which makes a kill a step like any other; the lock has one holder, between two labels, and what it may rely on there; the counters are cardinalities of the sets of users and of those between wait and signal |
| `TellWait` | one process at most has the turn, and what it was told is in one form at a time (byte, signal, flag); the counter is what the one whose turn it is expects.  Of the two locks: who was told knows that the other has its first one |
| `FdPass` | until a request is cut, the one the client waits for is in one place: on its way (`Asked`), being answered, or answered, with text before status |
| `XsiPoll` | every message received is printed, in the socket or with the helper, and the rest is in the queue, in this order; in the shared version main prints only while the helper waits, until a spurious wakeup |
| `TtyModes` | what was saved is what was found, and the terminal is in the mode `ttystate` says or between two calls that say so |
| `Pty` | once the hook is registered the terminal is raw only while a process is left that will run it; the loop ends by itself only when the command has ended and nothing is left to show |
| `SigThread` | signals are blocked from before the thread exists to the end, so a SIGQUIT that waits, is being told of or was told of came while blocked |
| `Signals` | for each call and label, which actions, mask and timer are set, what the kernel has saved in frames of handlers, and what a signal at that moment does: seven invariants, one per call |
| `Timeout` | the times are proper timespecs, the helper's wait is exactly what is left and it does not wake before; of main and the helper one calls retry, once |
| `MemStream` | the position is in the stream and the stream in the buffer; a stream that can be read and written is of an update type, and holds the file |
| `Ftw` | the calls of `dopath` are the files from the start down to the one in hand; each knows where its path ends and has room for the longest name behind; a file that should be reported and is not is in hand or among the names still to be read |

In `Ftw` one doubling of the buffer is enough because it always holds more than
the longest name and more than the path in it; `full`, a history variable, has the
length of each path, which a definition could give only by recursion.

The assumptions are those of `Programs`: sizes and counts are numbers;
`SemAssumption`, no more processes than the counter can count (`BIGCOUNT`);
`TelAssumption`, an even number of turns, as the program has; `DmnAssumption` and
`XsiAssumption`, names that are told apart; `MemAssumption`, a null byte.

### Programs on a network

`ServedRightHolds` and `StreamsExactHolds` (`NetworkProofs`): `Spec =>
[]ServedRight` and `Spec => []StreamsExact`, along the same lines.

| program | what `IInv` adds to the property, and why it is inductive |
|---|---|
| `Ruptime` | the processes of the forking server that wait form a chain, and one at most has the turn: at `accept`, at a client, or back because the child it waits for has ended.  A fork hands the turn on, an end gives it back |
| `SslFile` | what is under way from the client of the moment is its name, then the chunks from the first the server has not written, unless its file could not be opened; every other client has not begun, has its file stored, or was lost; one whose handshake failed without ending the server (`SSL_accept` of 0) sends nothing; what is on disk came from clients the mode variables admit, in order |
| `PrinterStatus` | as long as every answer comes in a read of its own, the stream is some 1xx answers and the final one, or the final one is in the buffer and `i` is where the code takes it to be |
| `LcxMain` | for each form of the command line, at which arguments the loop can be and what it has filled in by then (`Reading`); which descriptors are held at each place of the three loops |
| `LcxRelay` | the five places a stream is in (read by the receiver, in its socket, in the buffer, in the sender's socket, unsent) hold consecutive numbers, each beginning where the one before ends (`Line`): a partial read or write moves the border between two of them |
| `TunTcp` | counted from `ISS`, every segment and every answer is of numbers that were sent; as long as nothing is lost, a number sent has been read or is in a segment under way that comes before all segments of later numbers, and an answer covers read numbers only.  The lemmas on `Dist` and `Seq1` reduce wrap-around to these counts |
| `TunMany` | the sources in use are those before the next one in order of address and port, so none is used twice; until main serves, every connection not yet established has its answer in the queue, whose length is the number of stray packets (and the answer waited for).  As each answer has a place of its own, no more connections are open by half than packets strayed |

Assumed are numbers (`RupAssumption`, `IppAssumption`, `RelayAssumption`), a size
for every file (`SslAssumption`), at least one port (`ManyAssumption`), and that a
connection sends fewer bytes than there are sequence numbers (`TunAssumption`):
beyond that a number names two bytes.

### Only model-checked

All liveness (`Progress`, `Answered`, `EventuallyPrinted`, `Returns`,
`Delivered`): fairness and ENABLED are outside the prover.  What the sorts,
trees, tables and heaps compute (`algorithms`): they are recursive
operators, whose results for every input would need induction over data.
`TablesExact` of `Processes`: reference counts that are sums over threads and
objects (`FooTable`), walks along chains and the merge of sorted shares are
recursive too; its part about `Semaph` is an invariant of the proof above.
`StoresExact` of `Network`: the book's database walks chains of files, and
transactions nest to any depth.

## 5. Assumptions and what is left out of the modelled parts

- Keys hold no separator and are not all blank; `db_store` does not check
  (`db.c:362`).
- A process killed between the last two pointer writes of `_db_dodelete`
  leaves a chain running into the free list.  `db_crash` excludes these two
  labels (`Benign`); the code has no recovery.
- `db_open`'s data file is opened and truncated without a lock and never
  initialised; only the index file is in `DbOpen`.
- A signal that interrupts a system call is modelled where the code is about
  signals, and not elsewhere; `malloc` failure is left out.
- In `OpenServer` a request and its answer are one message; `FdPass` takes
  them apart for version 1, whose parsing and passing code version 2 shares.
- `Printd`: the list of worker threads (`add_worker`, `kill_workers`), the
  re-reading on SIGHUP and the building of headers are left out.
- `Semaph`: `sem_rm` removes a set in use by design and is not called.
- `PyDb`: one thread; what a server does with concurrent transactions is not
  this code.  An older copy of the file is left out.

## 6. What the models show about the code

Three disagreements between code and documentation have a run of their own:

- `11.6.4job_queue.c:59`: `if (qp->q_tail = jp)` assigns, so removing the head
  from before other jobs loses the tail, and a later append loses the rest
  (run `job_find`).  The book's version does not (`BookFinds`).
- `loop_poll.c:80`: `client[i].uid` is indexed by the position in `pollfd`, which
  changes when a connection closes (run `open_uid`).
- `ssl_client.c:54`: the Makefile and the README of `network/ssl` say that
  `CMODE=0` does not verify the server's certificate and `CMODE=1` does; the code
  does the opposite, as `CLIENT_SSL_VERIFY_NONE` is 1 and the misspelt
  `CLIENT_SSL_VERIFY_PERR` is not defined, hence 0 (run `ssl_mode`).  `ServedRight`
  is about the mode the code sets.

In the following places a property holds only up to a condition, which the model
keeps in a variable or states in the property, because the code does something
else beyond it:

- `14.5.3rot_13_aio.c:121`: a finished write keeps `WRITE_PENDING` and is counted
  again on every pass, so `numop` may reach 0 early, or pass it.  `HandedOver`
  says how blocks are carried and translated, not that all are written.
- `main_server.c:12` of version 1: a request longer than `MAXLINE` is read in two
  parts and answered twice (`cut`).  `buf_args.c:16` gives up on too many words
  without writing `errmsg`, so the client gets an earlier text.
- `db.c:233`: `db_nextrec` continues at the descriptor's offset, which every other
  call moves; one rewind before the first call, as the book's comment asks, is
  not enough.  The runs and proofs assume `Rewinds`.
- `printd.c`: only the printer thread saves `nextjob`, so a restart may give a
  number again; `printer_status` reads on for ever when the end of a header is cut
  between two reads (`endless` in `Printd`, `whole` in `PrinterStatus`), though the
  comment at 885-886 describes it.
- `db.c:98-103`: `O_TRUNC` takes effect before the lock, so a store of another
  process may put bytes into the emptied file, and its size then hides that the
  header is missing (`caught`).
- `semaph.c:189` says of `sem_open` "We don't need a lock to do this.": the last
  user's `sem_close` may remove the set under a process that is opening it, and
  `sem_create` dies when its `semop` finds the set removed.  `CreatorsSafe` is
  about processes that `sem_create` let in.
- `10.19` loses an alarm the caller had set, and a late SIGALRM kills the caller
  (`late`);
  `10.10` `sleep2` cuts other handlers short and leaves SIGALRM blocked; `system`
  of `8.13` loses the status to a SIGCHLD handler and dies of SIGINT; `abort` may
  leave what a handler wrote unflushed.
- `15.9` with the signal version of `tell_wait` may hang: a wait unblocks the
  signals when it returns and the next one does not block them again, so a signal
  between its test of `sigflag` and `sigsuspend` is gone (`missed`).
- `15.3`: a failing `fork` or `fdopen` leaks pipe ends; a failing `fclose` makes
  `pclose` return without waiting (`unwaited`); lines 30 and 85 admit a descriptor
  equal to `maxfd`, one past the table, where the model stops (`overrun`).  The
  book's version tests `>=` and does not; `TablesExact` says both.
- `18.11` `tty_raw` does not clear INPCK, which it then asks to be clear, so it
  fails whenever the terminal has it; a signal before `ttystate` is set leaves the
  terminal raw (`excuse`).
- `pty`: option `d` falls through to `e`; with `ignoreeof` the child's `exit` resets
  the terminal while the parent goes on; a SIGTERM between two reads is noticed
  only after the next one; the master's read does not end if the command never
  opened the slave.  The terminal is given back once `tty_atexit` is registered
  (`hook`).
- `4.22ftw.c`: `FTW_D` falls through, so every directory is also reported.
- `13.5already_running.c`: every lock error but two is taken for success
  (`careless`).
- `17.2`: the helper waits on its condition without a predicate, so a spurious
  wakeup overwrites a message (`spurious`); the receiver writes `buf[n] = 0`, past
  the end for a message of 512 bytes, which only the sender avoids.
- `fmemopen.c`: a write to a write-only stream puts a terminator over the byte
  after it when the stream was moved back, and over its last one when it is full.
- `16.5`: a server child whose `execl` fails goes on accepting while its parent
  waits for it; the datagram client's alarm may go off before `recvfrom` and the
  client then waits for ever (`early`).
- `connectmany.cc:142`: a stray packet is taken for the answer to the last SYN.
- `discardtcp.cc:75`: after a lost segment the answer to the next one acknowledges
  the gap too, so bytes that were never read (`StreamsExact` claims this only as
  long as nothing is lost).
- `ssl_server.c:173-190`: a handshake that returns 0 and a file that cannot be
  opened do not stop the server at once; the first chunk does, whose write fails.
- `avltree.c`: a deletion that calls for a rotation takes the double one and may go
  through a null pointer, or leave the tree out of balance; `TreesRight` claims
  balance and no null pointer up to the first such deletion, and of the trees that
  come back only that they are in order and hold the right elements.
  `setunion_high` joins by the wrong height; `quicksort` reads, and puts back, the
  word behind the array.  The properties of `algorithms` state what each does
  compute.

Several hazards of PROJECT.json are such places: they name no property, or one
that is about the behaviours without them, and their notes say so.

## 7. Not modelled

Demonstrations of one system call (most of chapters 1 to 9, parts of 10 to 15),
which keep no state; the user's `system` (`10.18my_system.c`), which does not
compile, and which would return -1 at line 25, where it calls `sigaction` with the
arguments of `sigprocmask`; the plain search tree, whose `Insert` has no return
statement (`binary_search_tree.c:51-68`), and the table of lists, whose array is
never allocated (`hashsep.c:32`); of `clrs`, `binary_search`, which drops the values
of its recursive calls (`02.3.5binary_search.c:28-31`), `find_sum`, which may pair
a number with itself (`02.3.7.c`), and `crandom`, which leaves the range it is asked
for (`05.1.2random_ab.c:41-63`); the control messages with credentials (`17.4 *_cert`), whose
exchange is `FdPass`'s; multicast, which is one loop of sends; `arpspoof` and the
netfilter module; generated code (SWIG wrapper); the Django and crawler tutorials,
which are views over a framework or depend on fetched pages; the rest of the
book's source, one-call libraries and demonstrations.  PROJECT.json gives the
reason part by part.

## 8. Plan

1. Done: the database and its opening, with types, exclusion, format, lists, keys,
   bindings and the refinement of the atomic map proved; the spooler and the open
   server of version 2, with the safety properties of their runs proved; the
   programs of `processes`, with five of its properties proved; those of `network`,
   with two; those of `algorithms`.
2. Proofs, in this order: `Conserved` of `MsgQueue`; `NoUseAfterDestroy` of
   `FooTable`, with its lock invariant; `AllOrNothing` of `PyDb`.
3. Models: the worker list of the spooler and its cancellation.
