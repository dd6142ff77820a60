# Verification of parts of Apple's developer tools: ld64 and Git

The repository is Apple's *Developer Tools 15.1* source drop: the linker `ld64`, the
object file tools `cctools`, `tapi`, `bootstrap_cmds` (MIG) and a number of imported
programs (Git, libgit2, GNU make, bison, flex, m4, gperf, headerdoc). This directory
verifies parts where control, rather than data, is hard:

* in `ld64`: how it reads its input files concurrently, pulls definitions out of
  libraries, decides between definitions with the same name, and strips dead code;
* in Git: how commands that run at the same time read, write, pack and delete references,
  and how the threads of `git pack-objects` share out the search for deltas.

Paths of ld64 are relative to `src/ld64/src/ld`, those of Git to `src/Git/src/git`.

## The systems

### ld64

A link is one process (`ld.cpp`): `Options` parses the command line, the constructor of
`InputFiles` parses the files, `Resolver::resolve` builds the graph of atoms, passes
transform it and `OutputFile` writes the image. `resolve` (Resolver.cpp:2371) runs, in
this order: `buildAtomList` (which calls `InputFiles::forEachInitialAtom`),
`addInitialUndefines`, `resolveAllUndefines`, `deadStripOptimize`, `checkUndefines`,
`removeCoalescedAwayAtoms`, `linkTimeOptimize` (which may call `deadStripOptimize(true)`)
and `checkDuplicateSymbols`.

| Part | State | Operations | Module |
|---|---|---|---|
| Input files, libdispatch | `_inputFiles`, `firstError`, `_exception` | dispatch block, `forEachInitialAtom` | `ParseDispatch` |
| Input files, pthreads | the same, `_parseLock`, two condition variables, cursor, five counters, the listener's `fileMap` | `parseWorkerThread`, `waitForInputFiles`, `forEachInitialAtom` | `ParsePool` |
| What both promise | files parsed, delivered, failed | - | `OrderedDelivery` |
| Searching libraries | symbol table slots, loaded members, search list, two generation counts | `resolveAllUndefines`, `searchLibraries`, `addLinkerOptionLibraries` | `Undefines` |
| Collisions of names | slot, coalesced bits, two lists of duplicates | `addByName`, `NameCollisionResolution`, `checkDuplicateSymbols` | `NameCollision` |
| Dead stripping | `_atoms`, live bits, call stack of `markLive` | `deadStripOptimize`, `markLive`, sweep, second run | `DeadStrip` |

### Git

A reference is a file of its own under `refs/` (loose), or a line of `packed-refs`
(packed); the loose value counts if there is one. Every git command is a process.
Processes share nothing but these files and the lock files beside them:
`files_transaction_prepare` and `_finish` (refs/files-backend.c) take the locks, check old
values and rename or unlink files; `files_pack_refs` rewrites `packed-refs` and prunes;
`files_delete_refs` deletes many references; `read_ref_internal` reads without a lock.

`ll_find_deltas` (builtin/pack-objects.c) gives each thread a part of the list of objects
and then moves halves of what is left from busy threads to idle ones.

| Part | State | Operations | Module |
|---|---|---|---|
| References | loose files, `packed-refs`, lock files, what each command knows | transactions, `pack-refs`, `delete_refs`, reads, failures, crashes | `RefStore` |
| Delta search | parts, `working` and `data_ready` flags, two kinds of condition variables | `ll_find_deltas`, `threaded_find_deltas`, `find_deltas` | `DeltaSearch` |

The two programs do not interact. Not modelled, and why, is listed at the end and in
`PROJECT.json`.

## Modules

### OrderedDelivery

The abstract specification of reading the input: files are parsed in any order, delivered
to the resolver in the order of the command line and only once parsed; from the moment
reading failed nothing more is delivered and the end is an exception. Both
builds of InputFiles.cpp are shown to implement it.

### ParseDispatch (the build the sources select)

InputFiles.cpp:26 defines `HAVE_LIBDISPATCH`, and InputFiles.h:28 `HAVE_PTHREADS`: the
constructor parses with `dispatch_apply`, and `forEachInitialAtom` still has the loop that
waits for a worker. One process per block. Each access to what blocks share is a step of
its own, so the test and the assignment of `firstError` (993-994) interleave with other
blocks. The variables keep the source's names; `bpc` and `mpc` are program counters,
`failures` is a history of who threw.

### ParsePool (the build without libdispatch)

`main`, a set of workers and the listener, with `_parseLock` as the name of its holder and
the two condition variables as thread states: `"waiting"` is inside `pthread_cond_wait`,
`"woken"` still has to take the lock. A critical section is one action where nothing in
it depends on the position of another thread, and several where it has an early exit.
`SpuriousWakeup` is what POSIX allows. A parsed file is named by the slot it was made for,
so publishing in the wrong slot shows. Main keeps the lock while it sleeps before it throws
(InputFiles.cpp:1299), as the code does; how long a second is, compared with what the
workers do, is left open.

### Undefines

Starts when the initial files are read. The whole input (members of the archives with what
they define, refer to and list in the table of contents; exports of the dylibs; options) is
chosen in `Init`, so one run covers a family of links. A step handles one name of the list
being worked on, with everything that a load entails: all definitions of the member are
merged, its references get slots, its linker options extend the search list. `Merge` is
`addByName` reduced to what the loops distinguish. `updateCount` is the number of slots.

### NameCollision

One name and its atoms, added in any order. `Choices` is `pickAtom`. For duplicates that
are errors the code leaves `_chosen` uninitialized (SymbolTable.cpp:296): the model lets
either atom be used. `CheckDuplicateSymbols` lets any set of added atoms be live.

### DeadStrip

`stack` and `left` are the active calls of `markLive` and the fixups each has still to
visit, so the recursion is explicit and interleaves with nothing but can be stopped at
every fixup. The graph is state: all small graphs are initial states, and `CodeGen`
(libLTO, any result) replaces it before the second run. `refs` are the fixups `markLive`
follows, `otherRefs` the other bound ones, which `atomHasLiveRef` looks at too.

### RefStore

One process per command; what it does (update, pack, delete or read) and with which
references is chosen when it starts. A step is what other processes can tell apart:
creating a lock file, a rename, an unlink, a read of one file. So `packed-refs` is read
after the lookup of the loose file, the loose file of a deletion goes after the packed
entry, and a packer resolves a reference after the directory scan found it
(`PackStat`, `PackResolve`). `Verify` is `lock_ref_for_update` after the lock is held.
`Fail` is any error inside a transaction, with its cleanup; `Quit` the exit of a command
outside one, with the handlers of tempfile.c; `Crash` a killed process, whose lock files
stay. `had`, `seen` and `unsettled` are history: the values a reference has had, what a
reader may return, and the references of which a deletion has removed the packed entry
without their lock, or not yet the loose file. The code makes no promise about those
until the deletion is completed: a packer may write the entry again, a pruner may remove
the loose file.

### DeltaSearch

Main and the threads. A step is what happens under one lock or between two; the read of
`me->list` for the call of `find_deltas` (builtin/pack-objects.c:2844), which takes no
lock, is a step of its own (`Enter`). Parts are intervals of the list; splitting follows
the path boundaries, that is the hashes chosen in `Init`. `SpuriousWakeup` is what POSIX
allows, `CreateFails` the `die` after a failed `pthread_create`.

## Runs

Passing runs check exhaustively; `violation` runs show where the code does something else
than its documentation says.

| Run | Instance | Checks |
|---|---|---|
| `dispatch` | 4 files, all failures | errors not lost, main never waits, refinement, termination |
| `pool` | 4 files (2 pipelined), 2 workers, 1 spurious wake-up, all failures | assertion, no double parse, counters, wake-ups, never stuck, no idle round, refinement, termination, errors are thrown |
| `pool_repeated` (violation) | 3 files, first and last with one path | listed files are linked |
| `dead_strip` | all graphs of 3 atoms; with bitcode, two graphs with one fixup per atom | closure, minimality, bounded recursion, in both runs |
| `dead_strip_support` (violation) | 3 atoms | live support is complete |
| `undefines` | 3 members in 2 archives; 2 members of an archive between 2 dylibs, all `-commons` modes; 2 members with linker options | nothing left unsearched, commons, weak exports, only what is needed |
| `undefines_live` | linker options, 2 members, name 2 or names 1 and 3 undefined at first | no idle round, termination |
| `undefines_options` (violation) | linker options | nothing left unsearched |
| `collisions` | 3 atoms of any kind | one survivor, the best one, duplicates noticed |
| `delta` | 16 objects, 3 threads, window 2, three ways to name objects | every object once, hand-over, joining, the unlocked read, never stuck, no idle round, termination |
| `refs` | 2 commands on 2 references, or 3 on one with a lock left by a crash | lock, checked changes, obsolete values, reads, locks are in use |
| `refs_prune` (violation) | the same, commands that write a value used before | pruning keeps the value |

### Bounds

Two workers are enough for one to hold a file while the other waits, scans, starts or
leaves; four files with two from the pipeline let the cursor move back behind two parsed
slots. The safety properties are proved for any number of both. Three atoms make every
kind of cycle and a live-support atom that depends on another. Three names and three members are the smallest instance in which a member that
overrides a common symbol needs a name which a second member defines with a reference of
its own. Collisions are decided pairwise; three atoms are the least for which the order can
matter. `MaxSpurious`, `MaxFanOut`, `MaxRoots` and `MaxSupports` name the other bounds;
the proofs need none of them. In `delta` 16 objects with a window of 2 are enough for
parts to be split at every stage of their owners' work, and the longest path is longer
than a half, so that both exits of the loop at 2962 happen. In `refs` a bug needs a
packer, a deletion and a third command: three commands meet on one reference, two on two.
A command runs once; a state in which others have run before it is an initial state. The third attempt of a reader
(`Retries`) needs three changes between its steps, so the branch that gives up is not
reached by TLC, only by the proof. The symmetry sets permute atoms, and commands,
which the specifications treat alike, and are not used in runs with liveness.

### Deadlock

Deadlock checking is off because every model ends: main returns or throws, and threads
exit or stay blocked for ever after the process throws. That nobody gets stuck before is
checked, and proved, as the invariant `NeverStuck` of `ParsePool` and `DeltaSearch`: it
spells out the guards of main (`MainCanGo`), the threads and the listener, and says that
one of them holds until the end. Spurious wake-ups do not count. The first slot of a path
that a pipelined file list repeats is its one exception (`pool_repeated`). A git command
that finds a lock left behind by a crash may wait for it and then fail; `LocksAreInUse`
says that only killed commands leave locks behind, and that a command which has
`packed-refs.lock` waits for no other lock. Two transactions that lock the same references
in different orders may still wait for each other, until one gives up (`Fail`).

### Fairness

`ParseDispatch`: every block runs (libdispatch) and main is scheduled. `ParsePool`: weak
fairness for each thread, and a fifo whose writer goes on until all paths are written or
the stream breaks. Weak fairness is enough although threads compete for the lock, because
a thread takes it only a bounded number of times. Nothing is assumed about spurious
wake-ups. `Undefines` is one thread. `DeltaSearch`: weak fairness for main and for each
thread; no spurious wake-up is relied on. `RefStore` has no liveness property: commands
give up on a lock after a timeout, and nothing says that they succeed.

## What the code does differently from its documentation

* `pool_repeated` (pthread build): the listener keeps one entry per path (1228), so a path
  that a pipelined file list names twice leaves a slot nobody fills; main waits for ever.
* `dead_strip_support`: live support is decided in a single pass (Resolver.cpp:1353), so
  the result depends on the order of atoms.
* `undefines_options`: the pass for linker options (Resolver.cpp:1020) is not repeated; a
  name first needed by what it loads is not searched for.
* `refs_prune`: `prune_ref` (refs/files-backend.c:1120) compares the value with the one
  that was packed. If the reference was deleted and made again with the same value since
  `packed-refs.lock` was released, the values agree, but `packed-refs` no longer has it:
  the only copy is unlinked.

Two more observations are exemptions of properties rather than runs. `LoopsOverrideCommons`
leaves out names that a dylib exports: with `-commons ignore_dylibs` a common symbol can
replace a dylib's symbol during the last search for overrides, which adds no slot, and is
then not looked up (Resolver.cpp:1008). And `files_delete_refs` removes packed entries
without the locks of the references (refs/files-backend.c:1267), so the value that a
transaction has read may vanish although it holds the lock, which the comment at
refs/files-backend.c:645 rules out ("without fear that its value will change"); a deletion
that was interrupted after this step leaves references that a packer or a pruner can bring
back or remove. `LockedValueStable`, `OnlyCheckedChanges` and `NothingObsoleteExposed` say
that nothing else of this kind happens.

## Proofs

`*_proofs.tla` and `RefStore_inv.tla` hold theorems checked by TLAPS for every value of the
constants: any number of files, workers, atoms, names, members, libraries, objects,
threads, commands and references, any graph and any program.

* **ParsePool_proofs.** `IInv` strengthens the properties by who holds the lock at which
  program point (`LockInv`), by the four places a slot can be in and the cursor being at
  or before every ready slot (`SlotInv`), by what main waits for (`MainInv`) and by
  some worker having been started (`CrewInv`). `CountersExact` needs
  cardinality facts of `FiniteSetTheorems`. One lemma per group of conjuncts, each with a
  step per action. `AssertHolds` follows since a positive counter means a non-empty ready
  set, and all of it lies at or after the cursor. The refinement maps each step to a step
  of `OrderedDelivery` or a stutter. `NeverStuck` needs `SupplyInv` on top: a file that
  main will ask for is parsed, ready, in a worker's hands, or still to come from the
  listener, unless an error is pending. `NoIdleRound` is described below.
* **ParseDispatch_proofs.** `BlockInv` ties a block's position to its slot, and says that a
  failure is either stored already or in the hands of a block that is about to look.
* **DeadStrip_proofs.** `MarkInv`: what a live atom refers to is live except for the fixups
  its active call has still to visit; `StackInv`: active calls are for distinct live atoms.
  Minimality is inductive as stated, since it quantifies over all closed sets.
* **NameCollision_proofs.** `NotBetterTransitive` (not being better is transitive) and
  `ChoiceIsBest` (each pairwise choice keeps an atom that the other is not better than)
  give `BestKept` by induction over the additions.
* **Undefines_proofs.** The loops end when no slot was added, although what they must
  achieve is that every undefined name was searched for. `SearchInv` and `CommonsInv` close
  the gap: a name is searched for, or on the list of the round, or the number of slots
  differs from the one the round began with (`CountInv`), and then there will be another
  round. It is preserved because a name can become undefined only in a new slot
  (`Grows`), a new slot raises the count (`CountGrows`, a cardinality argument), and a
  library that had nothing for a name has nothing later (`FactsStay`: members are loaded
  once, the list of libraries does not grow without linker options). `ProxyInv` gives
  `WeakOnlyAsLastResort`. `OnlyNeededLoaded` needs only the types. Assumed:
  `ConstantsOK`, and `TocOK`, that a table of contents lists members under names that they
  define. `NoIdleRound` holds with linker options, too.
* **DeltaSearch_proofs.** `PartsInv`: the parts are disjoint intervals, and an object is in
  one, or not given out yet, or searched. `IdleInv`: a thread is marked idle only while it
  waits, and once main has picked it either main is about to set `data_ready` or has.
  `ExitInv`: a thread ends only when main is about to join it. `MainInv` counts the threads
  that are not joined. `NeverStuck` needs `WaitInv` on top (main waits only while no thread
  is marked idle and some are not joined), and that what main looks for exists: the end of each part,
  the first idle thread, the victim with most left and its split at a path boundary.
  Each is the least or greatest element of a set of numbers (`Least`, by
  well-foundedness).
* **RefStore_inv, RefStore_proofs.** `LockInv`: which locks a process has at which point;
  `ValueInv`: all values are in the history, those still to be written are not; `PackInv`:
  what a pruner is about to unlink is in `packed-refs`, and what a packer has read and is
  no longer loose is there already; `StableInv`: what a transaction has read under a lock
  is still so. Frame lemmas say what a step of one process may change without breaking
  these; `QuietStep` combines them for all steps that change no file, and each step that
  does has a lemma of its own. Reads need a second invariant on top (`ReadInv`): a reader
  about to read `packed-refs` may return the value there and every value that a packer is
  about to write there. Assumed: `ConstantsOK`, and `FreshValues`, that no command writes a
  value that another one writes or that was there before. This is how histories are told
  apart; without it `PruneKeepsValue` fails as above, and with it obsolete values.
  `LocksAreInUse` does not need it: it is inductive together with the range of the
  program counters, each step being one that keeps, takes or removes locks
  (`LockStepKinds`).

`TypeOK` of every module is proved and not repeated in the runs.

**Termination.** The prover has neither fairness nor `ENABLED`, so `MainTerminates`,
`ErrorReported`, `Terminates` and `SearchEnds` are only model-checked. What they rest on is
proved for every value of the constants: `NeverStuck`, and `NoIdleRound`, which gives a
measure that every step lowers in a well-founded order.

* `ParsePool`: first, how far the files, main's index, the listener and the lives of the
  threads have come, none of which is ever set back; then, as long as these stay the same,
  how far each thread is from blocking. Spurious wake-ups count as progress, and are
  bounded by `MaxSpurious`.
* `DeltaSearch`: first, the objects not yet searched; then how far each thread is from its
  next object or its end (`Rank`); then how far main is from waiting (`MainRank`). Handing
  a part to an idle thread lowers the rank of that thread and raises no other, so parts do
  not travel for ever.
* `Undefines`: first, the slots that are not there yet; then the place in the nested loops,
  where a round that is about to be repeated ranks higher only if a slot was added since
  its count was taken (`LoopRank`); then the list of the round.

Not machine-checked is the last inference: from `NeverStuck`, a measure that falls and weak
fairness to the end of the run. Nor is it proved that `MainCanGo` and its like are exactly
the cases in which a step is enabled; they are the conjunctions of the actions' guards. For
`Undefines` there is no `NeverStuck`: that a list can always be gone through in its order
is induction over data. For links with linker options the theorems about `Undefines` say
only what `TypeCorrect`, `OnlyNeededMembersLoaded` and `LoopsGetCloser` say: the others
are false there (`undefines_options`).

## Not modelled, and what comes next

* Inside the modelled parts: what `makeFile`, `addDylib` and the atom handlers do beyond
  succeeding or throwing; `_objc_msgSend$` stubs, indirect dylibs, `-ObjC` and
  `-force_load` in the search; coalescing by content and by references, group
  subordinates, the path comparison in `addDuplicateSymbol` (SymbolTable.cpp:146) and
  two atoms of one file; the library search while dead-strip roots are collected
  (Resolver.cpp:1273); absolute symbols are modelled in `NameCollision`, but `BestKept` and
  `DuplicatesNoticed` leave them out, because a tentative definition meeting an absolute one
  is treated differently from the reverse (SymbolTable.cpp:386, 400).
* In Git: reflogs, symbolic references, conflicts between a reference and a directory,
  renaming and copying, hooks, the in-memory cache of `packed-refs`, whose validity is
  tested by file times; what `find_deltas` finds.
* Other parts of ld64: parsers, passes, options, layout and output are sequential data
  processing. The other programs of the repository are listed in `PROJECT.json`.

Plan, in order: the dylib graph (`createIndirectDylibs`, re-exports, client restrictions);
coalescing by content and references; a composition of `Undefines` with the
duplicate lists of `NameCollision`; symbolic references and reflogs in `RefStore`; GNU
make's job server as a separate development.
