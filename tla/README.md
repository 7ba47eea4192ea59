# Latino: verification models

Latino is a fork of Clang 11 (namespace `latino`): a C, C++ and Objective-C compiler, its driver, and the
tooling libraries built on it. This directory holds TLA+ models of the parts of it whose correctness depends
on the order in which things happen: threads, processes that share files, stacks of saved states that are
returned to, and what is kept from one call to the next. TLC checks the models on small instances, and TLAPS proves the most important properties for every
value of the constants.

Contents: [1 The system](#1-the-system) · [2 The models](#2-the-models) · [3 What is checked](#3-what-is-checked)
· [4 What is proved](#4-what-is-proved) · [5 Where the code and its documentation disagree](#5-where-the-code-and-its-documentation-disagree)
· [6 What is not modelled](#6-what-is-not-modelled) · [7 Plan](#7-plan) · [8 How to run](#8-how-to-run)

## 1 The system

### Components and how they interact

| Component | State | Operations | Talks to |
|---|---|---|---|
| **DirectoryWatcher** (`lib/DirectoryWatcher`, Linux) | inotify and epoll descriptors, a stop pipe, an event queue, two threads | create (with or without a synchronous scan), destroy; polling loop, receiving loop | the kernel's inotify queue; the client's `Receiver` callback |
| **InMemoryModuleCache** (`lib/Serialization`) | one entry per PCM: Unknown, Tentative, ToBuild, Final | addPCM, addBuiltPCM, tryToDropPCM, finalizePCM | ModuleManager, ASTReader, ASTWriter; shared by all CompilerInstances of a process |
| **Implicit module builds** (`CompilerInstance`, `ModuleManager`, control block of `ASTReader`, end of `ASTWriter`) | per process: stack of CompilerInstances, loaded modules, failed modules; shared on disk: PCM files, lock files, headers | import a module: read its PCM, or build it in a nested instance under a lock, or wait for the process that does | other compiler processes, through files; `llvm::LockFileManager`; FileManager |
| **Dependency scanning** (`lib/Tooling/DependencyScanning`) | shared cache of file entries with a lock each, a cache per worker, ignored files per command | status, openFileForRead; the collector of one compilation's modules | threads of a scan; the disk |
| **Token caching and tentative parsing** (`lib/Lex/PPCaching.cpp`, `Preprocessor.h`, `Parser.h`) | cached tokens, read position, stack of positions, the current token | Lex, LookAhead, EnterToken, EnterTokenStream, EnableBacktrack/Commit/Backtrack, annotate, split, correct, revert | the lexers below, the parser above |
| **Replacements** (`lib/Tooling/Core`) | an ordered set of edits of one file | add, merge, canonical form, apply | clients of refactoring tools, the formatter |
| GlobalModuleIndex | index of identifiers to PCMs on disk | readIndex, writeIndex under a lock | the processes of the module builds |
| **PrecompiledPreamble, ASTUnit** (`lib/Frontend`) | the preamble and hashes of what it was built from, a countdown to the next attempt, declarations and diagnostics of the preamble and of the rest | load, reparse, complete, list the declarations | an editor that changes buffers and files |
| AllTUsExecution | thread pool, results, two mutexes | run an action on every translation unit | Tooling |
| **SourceManager** (`lib/Basic`) | two tables of entries that share one space of offsets, the last entry found | createFileID, createExpansionLoc, AllocateLoadedSLocEntries, getFileID, clearIDTables | the lexer and the preprocessor; ASTReader and ASTWriter |
| FileManager, Diagnostics | files by name and inode, states of diagnostics by location | getFile; push, pop | everybody |
| Rewrite, Edit, ARCMigrate | delta trees, ropes, commits of edits, transactions | insert, remove, commit, abort | refactorings |
| StaticAnalyzer (engine, checkers), Analysis | exploded graph, work list; data flow states | explore until a limit | AST |
| Driver | actions, jobs, results | run jobs, skip and clean up after failures | the compiler processes |
| Lex, Parse, Sema, AST, CodeGen, Format, Index, CrossTU, Serialization of the AST, frontends, tools | the language itself | | |

A compilation runs `Driver` → one compiler process per job → `CompilerInstance` → Lex/Parse/Sema → CodeGen, all
sequential. Concurrency enters in four places: the threads of a DirectoryWatcher; the worker threads of a dependency
scan and of AllTUsExecution; and several compiler processes that share one module cache directory. Failure enters with
the files: those processes are killed, time out on each other's locks, find files gone or replaced, and headers are
edited while they run.

### Hard behaviours, and what makes each component correct

* **DirectoryWatcher.** The directory changes before, while and after the scan looks at an entry; events wait in
  three queues; three parties run `StopWork`, in any order and number; the destructor joins two threads that block on different
  things. Correct: nothing the client must know is lost or reordered; calls of the Receiver keep the documented
  protocol; destruction ends, after `WatcherGotInvalidated` was delivered; a watcher that stops says so.
* **Implicit modules.** Locks are "only necessary for performance" (`CompilerInstance.cpp:1292`): any number of processes may
  build, replace and read the same PCM while headers change. Correct: what a process has accepted fits together and
  fits its own view of the headers, no module outlives its buffer, the cache's assertions hold, a compilation fails
  only for what it sees itself, and it ends.
* **Dependency scanning.** Files change during the scan; entries are filled under a lock and read without. Correct: one
  view of each file for all workers, filled once; assertions hold; calls end though mutexes owe nobody a turn.
* **Tentative parsing.** Positions saved in a vector that other operations insert into and erase from. Correct: the
  parser loses no token and reads none twice, and a reverted trial is read again.
* **Preamble.** A preamble outlives the AST it was built for; headers change while it is built, unsaved buffers come and go, builds fail.
  Correct: a preamble is used again only if its files read the same now; failed builds are tried again when they should be, and
  declarations and diagnostics are those of the preamble the AST has.
* **Source locations.** One word is an offset that grows from below for the main file and from above for AST files, in
  unsigned arithmetic, and is looked up through a cache and two searches. Correct: no location is handed out twice, and each is found.
* **Replacements.** Edits are accepted in any order if the order does not matter, which is decided by merging shifted copies in both orders.
  Correct: the merge does what both sets do one after the other, and what is accepted neither overlaps nor depends on the order.

`PROJECT.json` lists every component with its status and every hazard with its line and the properties that would show it.

## 2 The models

Names follow the source wherever TLA+ allows it. Each program counter value is a place between two effects that another
thread or process can see; what lies in between is one action. Each action's comment names the code.

| Module | Models | Kind |
|---|---|---|
| `DirectoryWatcher` | `DirectoryWatcher-linux.cpp`, `DirectoryScanner.cpp` | detailed specification |
| `WatcherContract` | what `DirectoryWatcher.h` promises to the Receiver | abstract specification |
| `InMemoryModuleCache` | `InMemoryModuleCache.cpp`: operators on a cache, each with its assertions | data type |
| `ModuleCacheContract` | the state diagram of `InMemoryModuleCache.h` | abstract specification |
| `ImplicitModules` | `CompilerInstance`, `ASTReader`, `ModuleManager`, `ASTWriter`, as far as modules are imported and built | detailed specification; instantiates `InMemoryModuleCache` |
| `DependencyScanningFilesystem` | `DependencyScanningFilesystem.cpp` | detailed specification |
| `DependencyScanningView` | one view per file | abstract specification |
| `TokenCaching` | `PPCaching.cpp`, inline functions of `Preprocessor.h`: operators on a preprocessor, with their assertions | data type |
| `TentativeParsing` | the parser's use of them (`Parser.h`, `Parser.cpp`, `ParseTemplate.cpp`, `ParseExpr.cpp`, ...) | detailed specification; extends `TokenCaching` |
| `TokenStream` | a stream of tokens with trials that can be returned to | abstract specification |
| `PrecompiledPreamble` | `ASTUnit.cpp`, `PrecompiledPreamble.cpp`: reparses and completions with a preamble | detailed specification |
| `SourceManager` | `SourceManager.cpp` and `.h`: allocation and lookup of locations | detailed specification |
| `Replacements` | `Replacement.cpp`: the algorithms as operators, and a client that adds and merges | algorithm and reference |
| `MC*` | instances for TLC | model checking |
| `*Proofs` | theorems | proofs |

**DirectoryWatcher.** `mainPc`, `pollPc`, `recvPc` are where the client's thread, `InotifyPollingLoop` and
`EventReceivingLoop` are. An event goes `inotify` (kernel) → `batch` (the buffer of one read) → `queue` (`EventQueue`) →
`event` (inside the Receiver) → `view` (a client that keeps a mirror of the directory). `toScan`, `found` and `scanFailed` are the initial scan,
which runs on the client's or on the receiving thread (`waitForInitialSync`). `StopWork` is two actions, the push and the
signal on the pipe, for each of its three callers. The kernel merges equal unread events, drops events past its limit
and then queues `IN_Q_OVERFLOW`, and stops reporting writes to unlinked files (`IN_EXCL_UNLINK`). `llvm_unreachable` may abort or fall through.

**ImplicitModules.** A PCM is the version of the headers it was made from and the PCMs it imports: a signature, being a hash of the
contents, is the PCM itself (`PCMs` are the finite trees of this kind). `stack[p]` holds the process's CompilerInstances: each has the imports left to make
(`todo`) and its `ModuleManager`'s chain. `path[p]` holds the PCMs that the current `ReadAST` is in the middle of. `Add*` are the
outcomes of `ModuleManager::addModule`, `Validate` the end of the control block, `Unwind` the failure path, one dropped PCM a step.
`LockOwned`, `LockShared`, `LockError`, `WaitForUnlock`, `WaitTimeout` are the cases of
`compileModuleAndReadAST`; `WriteAST`, `Rename` and `CompileFailed` the ends of a nested compilation. External:
the disk, the lock files (which name their owner; a dead owner's is removed by whoever finds it), edits, crashes, pruning.

**DependencyScanningFilesystem.** `shared` and `valueLock` are the shared entries; `local` is which names a worker's own cache has
pointers for; one action each for the lock, `FS.status` (with its early return), `createFileEntry`, the unlock at the end of the
scope, and the read of the entry through the pointer.

**TentativeParsing.** A token is the interval of source positions it stands for and its kind, so that "no token is lost
or read twice" is adjacency of intervals. `pp` is the preprocessor (a record of `TokenCaching`), `Tok` the parser's
token, `PrevToks` the token each open `TentativeParsingAction` began at. The grammar is external: the parser of the model does any of
these operations at any time, within the rules stated in the module's head, which the callers keep.

**PrecompiledPreamble.** A header has a stamp (its size and time of modification), and the text that it tells; `PreambleFileHash` is
the stamp of a file or the text of a buffer. `uPc` is where a reparse is: opening and reading the preamble's headers one after the
other (edits may come between them, and between the open and the read), or parsing. Each of the ways out of
`getMainBufferWithPrecompiledPreamble` is an action. `topLevelDecls` and `storedDiags` say of which part of the main file (the
preamble, the rest) the `ASTUnit` has the declarations and diagnostics. The text that was read is kept in the record of each file
and never looked at by the code's actions: it is there for `PreambleIsCurrent`.

**SourceManager.** `local`, `loaded` are the two tables, as the offsets their entries begin at; entries that the `ASTReader`
cannot load (`unreadable`) are at offset 0, as the code makes them up. `given` has every location that was handed out with its entry; it is
the reference that the lookup is compared with. Offsets are unsigned words, `2 * MaxLoadedOffset` of them (the upper half is the macro bit), and sums wrap.
The searches are recursive functions on the range that is left (`LocalSearch`, `LoadedSearch`). `AllocateLoadedSLocEntries` makes the code's only test (`Admits`), on a difference that
may wrap; the `ASTReader`'s assertion on the base offset it got is `BaseInRange`, and where it fails the model stops.

**Replacements.** Letters of the original code are distinct, so that one can see which are left. `merge`, `add` and what they call are
translated as operators; `changedCode` is the reference, to which each step is applied directly.

## 3 What is checked

Distinct states, and time with two workers, are of one run on an ordinary machine.

| Run | Instance | States | Shows |
|---|---|---|---|
| `threads` | two parts, see below | 543 330, 3 min | the next two rows |
| — watcher | 1 name, reads of 2, kernel queue of 3, 3 changes | | no interleaving of scan, changes and deliveries loses or reorders what the client must know (`NothingLost`, `MirrorIsExact`); the destructor's promise (`InvalidatedWhenDestroyed`); whoever stops wakes the other (`StopReachesBoth`); the watcher implements `WatcherContract`; joins end (`DestructorReturns`); a stop is reported (`StopIsReported`); the mirror becomes exact (`Converges`) |
| — scan | 2 workers; a header and a module file that come, go and become directories | | one view per file (`OneView`, `KeepsView`), assertions hold, calls end (`CallsEnd`) |
| `watcher_limit` | kernel queue of 1 | — | *finding*: the overflow event reaches `llvm_unreachable` |
| `modules_builds` | 2 processes, each header edited once, three projects: main imports a, b, both import c, any PCMs left over; a imports c, whose first version does not compile, with crashes, timeouts, lock errors; main imports a (which imports c) and c, PCMs deleted, renames fail | 1 879 135, 2 min | accepted PCMs fit together (`FinalConsistent`) and fit the process's view (`FinalFresh`); buffers outlive modules (`LoadedAlive`); assertions hold (`NoCacheAssertFails`); a process fails only when it sees a broken version itself (`FailsForAReason`); entries move as the contract says (`KeepsCacheContract`) |
| `modules_turned` | an edit turns an import round; crashes and timeouts | 657 033, 100 s | two processes can each hold the lock the other waits for; still every compilation ends, consistently |
| `modules_tentative` | the same, one importing a, no timeouts | — | *finding*: `addBuiltPCM` meets a tentative PCM |
| `scan_kept` | 1 worker, a module file | — | *finding*: a failure that was meant not to be kept is kept |
| `scan_ignored` | 2 workers, one ignores the file | — | *finding*: an ignored file is minimized |
| `frontend` | four parts, see below | 1 162 499, 2 min | the next four rows |
| — tokens | 7 tokens with a qualified name, `>=` `=` and `>>`; 2 nested trials, lookahead 1 | | assertions hold, nothing is skipped or read twice, every trial can be reverted, the layer implements `TokenStream` |
| — preamble | 3 main texts, a header that may be in 2 directories, each edited once, removed and restored at any time, any one unsaved buffer | | a preamble that is used again is current (`PreambleIsCurrent`); after a failure builds are attempted when they are due, neither earlier nor later (`RetriesOnSchedule`); the assertion of `RealizeTopLevelDeclsFromPreamble` holds (`RealizeFindsPreamble`); no diagnostic is forgotten (`DiagnosticsComplete`) |
| — locations | 16 offsets, words of twice that, AST files of 1 and 4 entries, files of every size | | locations are unique and below the limit (`LocationsAreUnique`), and found whatever was looked up before (`LookupIsRight`) |
| — replacements | a code of 3 letters, 3 texts, up to 3 steps, additions and then a merge | | `MergeIsBothApplied`, `StaysOrderIndependent`, `OrderDoesNotMatter`, `AddRemovesItsRange` |
| `preamble_decls` | as above, without edits | — | *finding*: declarations of a preamble are no longer listed |
| `merge_touching` | as above, sets with replacements that touch | — | *finding*: a merge loses an insertion |
| `loaded_overflow` | the locations of `frontend` | — | *finding*: an AST file that is larger than what is left is admitted |
| `tokens_putback` | tokens put back within a trial | — | *finding*: a token is read twice after the revert |

The parts of `frontend`, and those of `threads`, share no state. Exploring them together would multiply their states and show nothing more, so `part` picks one and the
others rest in one of their initial states (`MCFrontend`, `MCThreads`); each part's actions and properties are as in a run of its own. While the scan is explored, creating the
watcher has failed, and while the watcher is, no worker has been asked anything: no thread of a resting part can run, so the fairness of both parts is assumed throughout and is met.

Every property of a passing run is broken by a plausible bug in a modelled function (`"mutants"` in `PROJECT.json`; their definitions are next
to the ones they change, marked `Mutant`).

### Bounds, and why they are enough

* *Watcher.* Names are independent except through order in the queues, and the safety theorems are for any set of names. A batch
  of 2 in a queue of 3 makes reads partial and lets a return from the loop drop events of the batch; three changes suffice to delete and recreate
  an entry behind the scan's back, to remove the directory after a change, and, with nobody reading, the next event past
  the limit is reached in `watcher_limit`. `MaxChanges` is the only bound without a counterpart in the code.
* *Modules.* Two processes are enough for each role (owner and waiter, builder and reader); the diamond is the smallest graph in which a
  module is reached on two paths with different recorded signatures; one edit of each header (two where an import
  is turned round) gives PCMs of both versions everywhere. `LeftPCMs` gives starting disks left by earlier builds.
* *Scan.* Two workers race for one entry; one file of each kind (stat failures cached, or not). In `threads` contents have
  one version, as the directory/file/absent distinction already gives three different answers and the theorems cover any number of versions.
* *Preamble.* One header gives every case of the comparison (file, buffer, missing, found in another directory, gone). One
  edit of each may come before, in and after its look-up and its read; that a file is removed and put back, and the buffers, give
  the ways back to what there was. Three main texts are two with different preambles and one without. The countdown starts at 0 (never a preamble) or 2.
* *Locations.* The code's 2^31 offsets (half of its words) are 16 (`MaxLoadedOffset`) and its 8 linear probes 2, so that tables of a few entries reach the
  binary search, and the space is full after a few files. Files have every size a word can hold, so that sums wrap. There is room for two of the longer AST files and not for three, so that the base
offset wraps, too.
* *Replacements.* Three letters give room for two replacements that touch or not, and one across them; a third addition meets two others, the
  least for which it matters that all that overlap are looked at. Texts are none, one, and two letters that begin
  with it (insertions that commute and those that do not).
* *Tokens.* The file has each kind of token that is treated in a special way; two trials are needed for "an inner edit harms an
  outer position". `MaxCached` bounds the only operation that can grow the cache for ever (put back). The theorems have no bounds.

### Fairness

* *Watcher.* Each thread that can run does (`WF` on the actions of each thread); `ReadBatch` is strongly fair: `read(2)` may fail,
  not for ever. The client need not destroy the watcher, the directory need not change, `epoll_wait` need not fail.
* *Modules.* `WF(Step(p))`: the scheduler runs every process; `WF(WaitTimeout(p))`: `waitForUnlock` gives up after its time limit if the
  wait lasts. Edits, crashes and lock errors need not happen. Without the timeout two processes whose views turn an import
  round would wait for each other for ever: the timeout is what `CompilationsEnd` rests on.
* *Scan.* A worker inside a call goes on. **No** fairness of mutexes is assumed: `std::mutex` gives none, and `CallsEnd` holds because an entry
  is filled once. Its hypothesis excludes exactly the file that keeps being absent and whose absence is not cached.

### Deadlock

It is checked in `scan_kept`, `scan_ignored` and `tokens_putback` (in the scan a file can change at any time, so that it says little there). In the other runs the system may stop: a destroyed watcher, an ended compilation, an
editor whose edits are used up, a full space of locations, a set of replacements that is not added to.

## 4 What is proved

All proofs are checked by TLAPS to the last leaf; assumptions are the named `ASSUME`s of the modules, which TLC evaluates on every run.

**DirectoryWatcherProofs** (from `WatcherAssumption`: limits are positive, the empty name is no file's).
`ControlInv` relates the control points of the three threads, the phase of the client, and the buffers (for instance: an unhandled
batch only exists in `handle` or after a stop). It is needed because the safety properties speak of one or two threads and are not inductive:
that the receiving thread does not call before the scan's call has ended follows only from where the client's thread is. From it: `TypeCorrect`,
`DestructionComplete`, `StopPropagates`, `ContractKept` (a step-by-step refinement of `WatcherContract`).
`NothingIsLost` is inductive together with `TypeCorrect` and `ControlInv`. Its argument: what the client will know of a name is a fold over four layers
(`Final`: the last event that names it decides), and moving an event from the head of one queue to the tail of the next leaves the composition unchanged
(`FinalSplit`, `FinalAppend`, `FinalHead`, `Layers`); the kernel changes the outermost layer together with the directory; the scan looks
at an entry when all events about earlier changes are still ahead of it. `MirrorExact` is the case of four empty layers.

**DependencyScanningProofs** (`ScanningAssumption`, `ValuesAssumption`: the special values differ). `EntryInv` (theorem `FilledUnderLock`): a
worker is between lock and unlock only as the owner, an entry is being filled only while it is empty, and whatever is in a local cache is filled. `NoAssertFails` follows.
`AnswersAgree`: an answer stays equal to its entry because `FilledOnce` shows that a step fills one locked empty entry or none.
`ViewKept`: each fill is a `Decide` of the abstract specification, every other step a stutter or a change of the disk.

**TokenCachingProofs, TentativeParsingProofs** (`SourceIsAFile`, `BoundsAreNumbers`, and `PutsBackInTrials = FALSE`, without which the properties are
false: section 5). The first has lemmas about every function of the layer, the second one lemma per action. The invariant `IInv` looks at
`All(q)`, the cached tokens and then what the lexers have, as one sequence: from the read position and from every saved position the rest of
the file *follows* the token remembered with it (`Follows`, entry by entry, so that edits in the middle can be tracked). `NothingIsSkipped` and `RelexesTheSame` alone are not
inductive: an annotation or a split may replace the entry *before* a saved position, so `Current` and `Trials` also say when that
entry stands for the same text as the remembered token (`Same`). Theorems: `TypeCorrect`, `AssertionsHold`, `NothingSkipped`, `Relexed`, for any file and any depth of nesting or lookahead.
`StreamKept` is the refinement of `TokenStream`. The mapping is read off `All(q)`: ahead is its tail from the read position (`Coming`), and each open trial remembers its
tail from a saved position (`Remembered`; `ReadBefore` and `ReadAfter` show that these are what `TentativeParsing` substitutes). One lemma per action shows, beside `IInv'`,
which step of the stream it is (`StreamMoves`). The hard ones edit the cache in the middle: positions behind the edit move, `TokenStream` looks for the replaced tokens by
their text, and `MemoryReplaced` shows that both find the same entries, since the text of what follows a token only ascends (`FollowsOrdered`), in every trial
begun before the edit and in none begun right behind it. Lookahead, reading a scope again and putting back are stutters.

**PrecompiledPreambleProofs** (`PreambleAssumption`: include lists and search paths are sequences, no main text is `Absent`). The properties speak of an idle ASTUnit,
so `IInv` adds what its calls are about to do: a build runs without a preamble and has as many records and includes to come as the
main file has includes (`BuildInv`), the stamp of the header that is open is not later than the one on disk (`OpenedInv`), a parse that is to use a preamble has one
(`ReadyInv`), the diagnostics are there exactly if the preamble is (`DiagsInv`), and without a preamble the countdown and the reparses
since the last failure add up (`CountdownInv`, from which `AttemptIsDue` reads off when the next attempt comes). `HashesTell` carries `PreambleIsCurrent`: a file that still has its
recorded stamp has the text that was read, since stamps only grow (`StampsGrow`) and the stamp is taken before the text; a hash of a file that was edited says nothing and
is never equal again (`TellsAfterEdit`). Theorems: `PreambleInductive`, `PreambleTypeCorrect`, `ReusedIsCurrent`, `RetriesKept`,
`RealizeAssertHolds`, `DiagnosticsKept`, for any number of headers, paths, main files and edits.

**ImplicitModulesProofs** (`ModulesAssumption`, `PCMsAssumption`: finitely many modules, imports name modules of the project, PCMs left on the disk are
PCMs). Any number of processes, any import graph (cyclic ones too), any edits and faults. A PCM is a tree of PCMs, so the type `PCMs` must be
closed under `WriteAST`: heights are defined (`HeightProperties`), and `FinalHeights` shows, by a count of the pairs of module and version, that a tree of final PCMs
is never higher than `PCMs` allows (a tree in which a module occurs below itself in the same version cannot be final in one process). The inductive `Inv` says, for each process that
runs: a chain below `base` is *Settled* (its modules are final with the contents that were read); *Finals* are consistent, fresh and have a height; building instances are
*Nested*, each with the view of the headers it was started with; and while PCMs are read, the modules on `path` go down a tree (*Descending*), each with its imports
so far accepted (*Loading*). None of the properties is inductive without the last two: that a PCM may be finalized follows from where its
imports were read, and that a failed `ReadAST` drops nothing that a chain still points to from what was read since `base`.
Theorems: `TypeCorrect`, `FinalsFit`, `FinalsAreFresh`, `LoadedModulesLive`, `CachesKeepContract` (the refinement of `ModuleCacheContract`: a step changes one entry of one cache,
and as the contract says).

**SourceManagerProofs** (`SourceAssumption`; `ASTFileAssumption`: an AST file was written from a SourceManager that had no more offsets than this one). `SourceInv`: local entries ascend from offset 0, loaded
ones descend from `MaxLoadedOffset`, the two halves do not meet, and every location that was handed out lies in its entry (`Holds`), which determines the entry. The sums and
differences of the code may wrap; `WordArithmetic`, `FitsExactly` and `Placed` show that none that is accepted has, but for one: the base offset of an AST file
that there is no room for. `WrappedStep` shows that it then has the macro bit, which is where the `ASTReader`'s assertion fails, and that is all the invariant `UntilAsserted` lets go wrong. The searches are recursive functions: `LoopDefined` shows that they are
defined where they are called (the range shrinks), `SetInduction` on the size of the range that they find the entry. Theorems: `SourceTypeCorrect`,
`LocationsUnique`, `LookupFindsAll` (for every number of probes, whatever the last lookup left; entries that cannot be loaded excepted, as in the property), for spaces of any width.

**LayeredModulesProofs** (as `ImplicitModulesProofs`, and a hypothesis: modules have ranks such that no version of a module imports one of its own rank or a higher one,
`Layered`). The code does not check this, it is the user's headers that are layered or not, and without it the properties are false: `modules_tentative` violates
`NoCacheAssertFails` where an edit turns an import round, and a cycle is a failure without a broken header. (`MCLayered` lets TLC see that the instances of `modules_builds` are layered
and those with `turned` are not.) `LayeredInv` adds three things to `Inv`. What is imported, read or yet to be imported in a nested instance is of lower rank than everything under construction, so that reading
never puts the PCM of a module that is being built into the cache (*Unbuilt*: the assertion of `addBuiltPCM`). Below a final PCM there are only final ones, all of which the
FileManager has looked up (*Reads*, *OpenedImports*), so that a failed `ReadAST` was not reading a final goal; the goal is dropped with it (*Unwinds*, *Returns*), and each PCM on the path has a buffer
until it is dropped or finalized (the assertions of `tryToDropPCM` and `finalizePCM`). Third, a PCM in the cache whose file was never looked up is one that this process wrote itself (*NotReadYet*): the
case in which a missing file would leave a PCM behind. `ExplainedInv` then gives every entry of `failed` and every error of an instance a reason; it needs that what was just built is found again
(*Rereads*: its file is in place, it is final, hence so is all it imports), that a cycle is never diagnosed, and that views of headers do not change. Theorems: `LayeredImportsAreSafe`, `LayeredImportsFailForAReason`.

**Only model-checked**: every liveness property (fairness and ENABLED are out of the prover's reach); the
four properties of `Replacements`, whose merge is recursive over data.

## 5 Where the code and its documentation disagree

1. `watcher_limit`: `DirectoryWatcher.h:76` names resource limits as the prime case of `WatcherGotInvalidated`, but `IN_Q_OVERFLOW` has no branch in
   the polling loop and reaches `llvm_unreachable` (`DirectoryWatcher-linux.cpp:271`), after `StopWork`.
2. `modules_tentative`: a PCM whose signature is not the recorded one stays Tentative (`ModuleManager.cpp:209-218`); `addBuiltPCM` requires that it is
   not (`InMemoryModuleCache.h:73`). Two processes and an edit that turns an import round get there.
3. `scan_kept`: failures about files that are not sources must not be cached (comment at `DependencyScanningFilesystem.cpp:176`), but one of
   `createFileEntry`, between `status` and the open, is.
4. `scan_ignored`: ignored files "should not be minimized" (`DependencyScanningFilesystem.h:156`), but whoever fills the entry decides for all.
5. `tokens_putback`: `EnterToken` within a trial (`Parser.h:567`, `ParseExpr.cpp:433`, ...) makes a revert read a token twice, against `PPCaching.cpp:17`.
6. `preamble_decls`: `TopLevelDeclsInPreamble` is "a list of the serialization ID numbers for each of the top-level declarations parsed within the
   precompiled preamble" (`ASTUnit.h:240`), but it is emptied when they are resolved, when the main file is parsed without the preamble, and when a completion
   drops it: afterwards `top_level_begin` lists the rest of the main file only, with the same preamble in use (`ASTUnit.cpp:1443`, 1173, 1340).
7. `merge_touching`: `merge` (`Replacement.cpp:467`) stops extending a merged replacement when the set it takes from is exhausted, without a
   look at what touches in the other one. Inserting "a" and then merging {replace that "a" by "a", insert "a" behind it} gives two equal
   replacements of which the set keeps one. `Replacement.h:260` and `RefactoringTest.cpp:938` promise the effect of both. `frontend` merges sets that do not touch.

8. `loaded_overflow`: `AllocateLoadedSLocEntries` (`SourceManager.cpp:499`) is to "make sure we're not about to run out of source locations", but it subtracts unsigned
   numbers, so that an AST file larger than `CurrentLoadedOffset` passes, with a base offset that wrapped. `ASTReader.cpp:3396` says the base offset is "lower than
   MaxLoadedOffset and decreasing"; its assertion (3397) fails, and without assertions the file's locations have the bit of macro locations, instead of the error at line 3385.

Three more, without a run:

* *How many reparses a failed preamble is not tried for.* `ASTUnit.cpp:230-233` says 5 is "the number of reparses during which we'll skip even trying to precompile the
  preamble". The code (1349-1352) counts 5, 4, 3, 2 down to 1 and builds in the reparse that finds 1: it skips 4, as `ASTUnit.h:205-210` says ("When it hits 1, we'll attempt to
  rebuild"). `RetriesOnSchedule` states what the code does: exactly 4 are skipped (`IsDue`).
* *Replacements at one offset.* `Replacement.h:206-208` counts as a conflict that two replacements "overlap or have the same offset (i.e. order-dependent)". `Replacements::add`
  (`Replacement.cpp:287`) takes an insertion where another replacement begins to be order-independent and adds it, and `AddAdjacentInsertionAndReplacement`
  (`RefactoringTest.cpp:207`) expects that. `StaysOrderIndependent` states what is kept: no overlaps, no two insertions at one offset.
* *Entries that could not be loaded*: one that is remembered as the last one looked up takes every later lookup with it (`SourceManager.cpp:485`);
  `LookupIsRight` says nothing of such states.

## 6 What is not modelled

Within the modelled components:

* *DirectoryWatcher*: file descriptors (`create` leaks one when it fails), destroying a watcher from inside its Receiver (it would join itself;
  the header is silent), the macOS and Windows implementations, and the text of errors.
* *ImplicitModules*: prebuilt and explicit modules, PCHs, submodules and module maps, configuration and version mismatches, content validation
  of inputs, the global index, the AST block. Pruning is "a PCM disappears at any moment", which covers `pruneModuleCache` and its timestamps. A header is
  read at the moment it is looked up. A module whose build failed is remembered by every instance (`failed`); in the code the set is made with the first nested
  instance (`CompilerInstance.cpp:1102`), so that an outermost instance that so far only waited for others would try such a module again at a later import (1844), with an error reported already. Reuse of inodes by the file system (a listed hazard) is planned.
* *DependencyScanningFilesystem*: locks of the shards of the map (each is held for one lookup); a file rewritten in place between `fstat`
  and the read; ranges to skip (`computeSkippedRanges` computes none in this fork).
* *Preamble*: files that are remapped to other files (only buffers are), a main file that cannot be read, a parse that fails at
  `BeginSourceFile`, ASTUnits loaded from AST files, cached completion results. The stamp identifies the text: an edit within the same second
  that keeps the size, which the code cannot notice either, does not happen. Nor does a header appear *earlier* in the search path than
  the one that was found, a case that the code leaves out (the comment of `MissingFileCollector`): `PreambleIsCurrent` speaks of the files that were read.
* *SourceManager*: lines and columns, contents, `#line`, chains of includes and expansions. For an expansion that it fits is an assertion, which
  the model takes to hold; without assertions nothing is checked there. Nor does the model follow a release build past the assertion on a base offset.
* *Replacements*: several files, header insertions (offset `UINT_MAX`), affected ranges, construction from source ranges. Whether a third replacement
  is *accepted* may depend on the order of the first two; `OrderDoesNotMatter` compares the results when both are.
* *Tentative parsing*: `RevertCachedTokens(2)` of the decltype recovery (a re-read), lexers, macros and grammar.

Components left out are listed in `PROJECT.json` with the reason: mostly sequential passes whose subject is the language (Lexer, Parser, Sema,
AST, CodeGen, Analysis, checkers, Format) or conversions of data.

## 7 Plan

Built, in this order: `WatcherContract`/`DirectoryWatcher` and its proofs; `InMemoryModuleCache`, `ModuleCacheContract`, `ImplicitModules`;
`DependencyScanningView`/`DependencyScanningFilesystem` and its proofs; `TokenCaching`, `TokenStream`, `TentativeParsing` and their proofs;
`PrecompiledPreamble` and its proofs, `SourceManager`, `Replacements`; the proofs of `ImplicitModules` (in general, and for layered imports), of `SourceManager` and of `KeepsStream`. Next:

1. **GlobalModuleIndex**: `writeIndex` under its lock, instantiated with the processes of `ImplicitModules`; its test for lock files (line 890)
   compares an extension with ".pcm.lock". **FileManager** by inode, an extension of `ImplicitModules`' disk.
2. **ModuleDepCollector** (callbacks of one compilation), **AllTUsExecution**, pragma states of **Diagnostics** over `SourceManager`.
3. **Driver** jobs and clean-up, **DeltaTree**/**RewriteRope** against a sequence, **Edit::Commit**, the analyzer's work list.

## 8 How to run

    tlc -workers 2 -config Threads.cfg MCThreads
    tlapm DirectoryWatcherProofs.tla

`PROJECT.json` gives module and configuration of each run; `map` relates every definition to the lines it models.
