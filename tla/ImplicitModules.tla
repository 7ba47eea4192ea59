-------------------------- MODULE ImplicitModules --------------------------
(***************************************************************************)
(* Implicitly built modules.  Several compiler processes share a directory  *)
(* of PCM files; each imports modules, reads their PCMs (with the PCMs      *)
(* these import), and compiles the ones that are missing or out of date in  *)
(* a nested CompilerInstance, under a lock file, while headers are edited.  *)
(*                                                                          *)
(*   CompilerInstance  findOrCompileModuleAndReadAST, compileModule...      *)
(*   ASTReader         ReadAST, ReadASTCore, ReadControlBlock               *)
(*   ModuleManager     addModule, removeModules                            *)
(*   InMemoryModuleCache, shared by the instances of one process            *)
(* External: the file system and llvm::LockFileManager.                     *)
(***************************************************************************)
EXTENDS Naturals, Sequences, FiniteSets, SequencesExt

CONSTANTS
  Procs,          \* the compiler processes
  Modules,        \* the modules
  Nobody,         \* the owner of a lock file that does not exist
  NoPCM,          \* no PCM file, no buffer, no expected signature
  Unseen,         \* a header the process's FileManager has not looked at
  MaxVersion,     \* bound: a header's versions are 0..MaxVersion
  Projects,       \* what there is to build: of each project
  Imports,        \*   Imports[j][m][v]: what version v of its module m imports
  MainImports,    \*   what each process's main file imports
  Broken,         \*   the <<m, v>> such that version v of m does not compile
  LeftPCMs,       \*   LeftPCMs[j][m]: the PCMs that earlier builds may have left
  Faults          \*   what may go wrong, out of FaultKinds

FaultKinds == {"crash", "timeout", "lockError", "rename", "prune"}
Versions == 0..MaxVersion

ASSUME ModulesAssumption ==
  /\ IsFiniteSet(Modules) /\ Nobody \notin Procs \cup Modules
  /\ MaxVersion \in Nat /\ Unseen \notin Versions
  /\ \A j \in Projects :
       /\ DOMAIN Imports[j] \subseteq Modules
       /\ \A m \in DOMAIN Imports[j] : Imports[j][m] \in [Versions -> Seq(DOMAIN Imports[j])]
       /\ MainImports[j] \in [Procs -> Seq(DOMAIN Imports[j])]
       /\ Broken[j] \subseteq Modules \X Versions
       /\ Faults[j] \subseteq FaultKinds

VARIABLES
  project,        \* the one that is built
  \* Shared by the processes.
  header,         \* the current version of each module's headers
  disk,           \* the PCM file of each module, or NoPCM
  lock,           \* the owner named by each module's lock file, or Nobody
  \* Of each process.
  pc,
  cache,          \* its InMemoryModuleCache
  known,          \* PCM files its FileManager has a FileEntry for
  seen,           \* the header versions its FileManager has stat'ed
  failed,         \* its FailedModulesSet
  stack,          \* its CompilerInstances: the main one and the nested ones
  path,           \* the PCMs the current ReadAST is in the middle of
  base,           \* NumModules: the ModuleManager's size when it started
  attempt,        \* why that ReadAST was called
  result,         \* what it returned
  waitsFor        \* the lock's owner when waitForUnlock was called

sharedVars == <<header, disk, lock>>
memoryVars == <<cache, known, seen, failed>>
readVars   == <<path, base, attempt, result>>
vars == <<project, sharedVars, pc, memoryVars, stack, readVars, waitsFor>>

INSTANCE InMemoryModuleCache

\* A PCM's signature is a hash of its contents: it is the PCM itself.  A PCM
\* imports other PCMs by name and signature, so that PCMs are finite trees.
PCMsOfDepth[n \in Nat] ==
  [src : Versions,
   imports : IF n = 0 THEN {<<>>}
             ELSE Seq([mod : Modules, sig : PCMsOfDepth[n - 1]])]
PCMs == PCMsOfDepth[Cardinality(Modules) * (MaxVersion + 1)]

ASSUME PCMsAssumption ==
  /\ NoPCM \notin PCMs
  /\ \A j \in Projects : \A m \in DOMAIN Imports[j] : LeftPCMs[j][m] \subseteq PCMs

Ended == {"done", "failed", "crashed", "aborted"}
Pcs == Ended \cup {"import", "read", "unwind", "result", "lock", "wait", "rename"}

\* A CompilerInstance: the module it builds (none for the main one), the imports
\* its source still has to make, its ModuleManager's Chain, hasErrorOccurred, and
\* the LockFileManager state under which it was started.
Instances ==
  [mod : Modules \cup {Nobody}, todo : Seq(Modules),
   chain : Seq([mod : Modules, pcm : PCMs, direct : BOOLEAN]),
   err : BOOLEAN, locked : {"owned", "error"}]

TypeOK ==
  /\ project \in Projects
  /\ header \in [Modules -> Versions]
  /\ disk \in [Modules -> PCMs \cup {NoPCM}]
  /\ lock \in [Modules -> Procs \cup {Nobody}]
  /\ pc \in [Procs -> Pcs]
  /\ cache \in [Procs -> [Modules -> [present : BOOLEAN, isFinal : BOOLEAN,
                                      buffer : PCMs \cup {NoPCM}]]]
  /\ known \in [Procs -> SUBSET Modules]
  /\ seen \in [Procs -> [Modules -> Versions \cup {Unseen}]]
  /\ failed \in [Procs -> SUBSET Modules]
  /\ stack \in [Procs -> Seq(Instances)]
  /\ path \in [Procs -> Seq([mod : Modules, src : Versions,
                             todo : Seq([mod : Modules, sig : PCMs])])]
  /\ base \in [Procs -> Nat]
  /\ attempt \in [Procs -> {"first", "owned", "error", "waited"}]
  /\ result \in [Procs -> {"Success", "OutOfDate", "Missing"}]
  /\ waitsFor \in [Procs -> Procs \cup {Nobody}]

\* The modules whose headers the project has.
Sources == DOMAIN Imports[project]

MainInstance(p) ==
  [mod |-> Nobody, todo |-> MainImports[project][p], chain |-> <<>>, err |-> FALSE,
   locked |-> "owned"]

Init ==
  /\ project \in Projects
  /\ header \in [Modules -> Versions] /\ \A m \in Modules \ Sources : header[m] = 0
  /\ disk \in [Modules -> UNION {LeftPCMs[project][m] : m \in Sources} \cup {NoPCM}]
  /\ \A m \in Modules : disk[m] # NoPCM => m \in Sources /\ disk[m] \in LeftPCMs[project][m]
  /\ lock = [m \in Modules |-> Nobody]
  /\ pc = [p \in Procs |-> "import"]
  /\ cache = [p \in Procs |-> EmptyCache]
  /\ known = [p \in Procs |-> {}]
  /\ seen = [p \in Procs |-> [m \in Modules |-> Unseen]]
  /\ failed = [p \in Procs |-> {}]
  /\ stack = [p \in Procs |-> <<MainInstance(p)>>]
  /\ path = [p \in Procs |-> <<>>] /\ base = [p \in Procs |-> 0]
  /\ attempt = [p \in Procs |-> "first"]
  /\ result = [p \in Procs |-> "Success"]
  /\ waitsFor = [p \in Procs |-> Nobody]

Goto(p, l) == pc' = [pc EXCEPT ![p] = l]

\* The innermost CompilerInstance and the module it is importing.
Current(p) == Last(stack[p])
Goal(p) == Head(Current(p).todo)
SetCurrent(p, i) == stack' = [stack EXCEPT ![p] = Append(Front(@), i)]

\* Mutant: every use of a header looks at the file.
StatAlways(p, m) == [seen[p] EXCEPT ![m] = header[m]]

\* FileManager: a file is looked at once, and then remembered.
Stat(p, m) ==
  IF seen[p][m] = Unseen THEN [seen[p] EXCEPT ![m] = header[m]] ELSE seen[p]

-----------------------------------------------------------------------------
(* ReadAST: the PCM of the goal, then the PCMs it imports, depth first. *)

StartRead(p, a) ==
  /\ attempt' = [attempt EXCEPT ![p] = a]
  /\ Goto(p, "read")

\* The PCM to add next, with the signature its importer recorded.
Wanted(p) ==
  IF path[p] = <<>> THEN [mod |-> Goal(p), sig |-> NoPCM]
  ELSE Head(Last(path[p]).todo)

Adding(p) == pc[p] = "read" /\ (path[p] # <<>> => Last(path[p]).todo # <<>>)

ChainMods(p) == {e.mod : e \in ToSet(Current(p).chain)}
State(p, m) == getPCMState(cache[p], m)
CanOpen(p, m) == m \in known[p] \/ disk[m] # NoPCM
Lookup(p, m) == known' = [known EXCEPT ![p] = @ \cup {m}]

\* The buffer addModule works on: the cache's, or the file's contents.
Buffer(p, m) == IF cache[p][m].buffer # NoPCM THEN cache[p][m].buffer ELSE disk[m]
Keep(p, m) ==
  cache' = IF State(p, m) = "Unknown"
           THEN [cache EXCEPT ![p] = addPCM(@, m, Buffer(p, m))] ELSE cache

\* Mutant: the signature is not checked.
NeverMismatch(b, sig) == FALSE

Mismatch(b, sig) == sig # NoPCM /\ b # sig

\* The wanted PCM is there: its importer goes on to its next import.
Advance(p, s) ==
  IF s = <<>> THEN s ELSE Append(Front(s), [Last(s) EXCEPT !.todo = Tail(@)])

Succeed(p, s) ==
  /\ path' = [path EXCEPT ![p] = Advance(p, s)]
  /\ IF s = <<>> THEN Goto(p, "result") /\ result' = [result EXCEPT ![p] = "Success"]
                 ELSE Goto(p, "read") /\ UNCHANGED result

\* An import that is missing makes its importer out of date.
Fail(p, r) ==
  /\ result' = [result EXCEPT ![p] = IF path[p] = <<>> THEN r ELSE "OutOfDate"]
  /\ Goto(p, IF path[p] = <<>> THEN "result" ELSE "unwind")

\* addModule: no file, or the file has gone since it was first looked at.
AddMissing(p) ==
  LET m == Wanted(p).mod IN
  /\ Adding(p)
  /\ \/ ~CanOpen(p, m) /\ UNCHANGED known
     \/ /\ CanOpen(p, m) /\ Lookup(p, m)
        /\ m \notin ChainMods(p) /\ State(p, m) = "Unknown" /\ disk[m] = NoPCM
  /\ Fail(p, "Missing")
  /\ UNCHANGED <<sharedVars, cache, seen, failed, stack, path, base, attempt, waitsFor>>

\* addModule: this ModuleManager has the module.
AddAgain(p) ==
  LET w == Wanted(p)
      chain == Current(p).chain IN
  /\ Adding(p) /\ CanOpen(p, w.mod) /\ Lookup(p, w.mod)
  /\ \E i \in DOMAIN chain :
       /\ chain[i].mod = w.mod
       /\ \/ /\ Mismatch(chain[i].pcm, w.sig) /\ Fail(p, "OutOfDate")
             /\ UNCHANGED <<stack, path>>
          \/ /\ ~Mismatch(chain[i].pcm, w.sig) /\ Succeed(p, path[p])
             /\ SetCurrent(p, [Current(p) EXCEPT
                                 !.chain[i].direct = @ \/ path[p] = <<>>])
  /\ UNCHANGED <<sharedVars, cache, seen, failed, base, attempt, waitsFor>>

\* addModule: its PCM has been found out of date before, or the signature that its
\* importer recorded is another one (the PCM then stays in the cache).
AddOutOfDate(p) ==
  LET w == Wanted(p) IN
  /\ Adding(p) /\ CanOpen(p, w.mod) /\ Lookup(p, w.mod)
  /\ w.mod \notin ChainMods(p)
  /\ \/ State(p, w.mod) = "ToBuild" /\ UNCHANGED cache
     \/ /\ State(p, w.mod) # "ToBuild" /\ Buffer(p, w.mod) # NoPCM
        /\ Mismatch(Buffer(p, w.mod), w.sig) /\ Keep(p, w.mod)
  /\ Fail(p, "OutOfDate")
  /\ UNCHANGED <<sharedVars, seen, failed, stack, path, base, attempt, waitsFor>>

\* addModule: the module is new; ReadControlBlock turns to its imports.
AddNew(p) ==
  LET w == Wanted(p)
      buf == Buffer(p, w.mod) IN
  /\ Adding(p) /\ CanOpen(p, w.mod) /\ Lookup(p, w.mod)
  /\ w.mod \notin ChainMods(p) /\ State(p, w.mod) # "ToBuild"
  /\ buf # NoPCM /\ ~Mismatch(buf, w.sig) /\ Keep(p, w.mod)
  /\ SetCurrent(p, [Current(p) EXCEPT
       !.chain = Append(@, [mod |-> w.mod, pcm |-> buf, direct |-> path[p] = <<>>])])
  /\ path' = [path EXCEPT
       ![p] = Append(@, [mod |-> w.mod, src |-> buf.src, todo |-> buf.imports])]
  /\ UNCHANGED <<sharedVars, pc, seen, failed, base, attempt, result, waitsFor>>

\* The end of the control block: the input files are compared with what the
\* FileManager says of them; a PCM that passes is finalized.
Validate(p) ==
  LET e == Last(path[p]) IN
  /\ pc[p] = "read" /\ path[p] # <<>> /\ e.todo = <<>>
  /\ seen' = [seen EXCEPT ![p] = Stat(p, e.mod)]
  /\ IF seen'[p][e.mod] # e.src
     THEN Goto(p, "unwind") /\ result' = [result EXCEPT ![p] = "OutOfDate"]
          /\ UNCHANGED <<cache, path>>
     ELSE IF finalizePCMAsserts(cache[p], e.mod)
     THEN cache' = [cache EXCEPT ![p] = finalizePCM(@, e.mod)]
          /\ Succeed(p, Front(path[p]))
     ELSE Goto(p, "aborted") /\ UNCHANGED <<cache, path, result>>
  /\ UNCHANGED <<sharedVars, known, failed, stack, base, attempt, waitsFor>>

\* Mutant: ReadAST fails without removing the modules it has added.
UnwindKeepsModules(p) ==
  /\ pc[p] = "unwind"
  /\ cache' = [cache EXCEPT ![p] = tryToDropPCM(@, Last(path[p]).mod)]
  /\ path' = [path EXCEPT ![p] = Front(@)]
  /\ Goto(p, IF Len(path[p]) = 1 THEN "result" ELSE "unwind")
  /\ UNCHANGED <<sharedVars, known, seen, failed, stack, base, attempt, result, waitsFor>>

\* A failure: each PCM that was being read is dropped, the last one first; then
\* ReadAST removes the modules it has added.
Unwind(p) ==
  LET e == Last(path[p]) IN
  /\ pc[p] = "unwind"
  /\ IF tryToDropPCMAsserts(cache[p], e.mod)
     THEN /\ cache' = [cache EXCEPT ![p] = tryToDropPCM(@, e.mod)]
          /\ path' = [path EXCEPT ![p] = Front(@)]
          /\ IF Len(path[p]) = 1
             THEN /\ Goto(p, "result")
                  /\ SetCurrent(p, [Current(p) EXCEPT !.chain = SubSeq(@, 1, base[p])])
             ELSE UNCHANGED <<pc, stack>>
     ELSE Goto(p, "aborted") /\ UNCHANGED <<cache, path, stack>>
  /\ UNCHANGED <<sharedVars, known, seen, failed, base, attempt, result, waitsFor>>

ReadAST(p) ==
  AddMissing(p) \/ AddAgain(p) \/ AddOutOfDate(p) \/ AddNew(p) \/ Validate(p) \/ Unwind(p)

-----------------------------------------------------------------------------
(* findOrCompileModuleAndReadAST and compileModuleAndReadAST. *)

\* The preprocessor meets the next import.  An #include has already looked up the
\* header; an import declaration has not.
BeginImport(p) ==
  /\ pc[p] = "import" /\ Current(p).todo # <<>>
  /\ \E s \in {seen[p], Stat(p, Goal(p))} : seen' = [seen EXCEPT ![p] = s]
  /\ base' = [base EXCEPT ![p] = Len(Current(p).chain)]
  /\ StartRead(p, "first")
  /\ UNCHANGED <<sharedVars, cache, known, failed, stack, path, result, waitsFor>>

\* The import is over, well or not.  The LockFileManager of the attempt, if it owns
\* the lock, removes the lock file (whoever it belongs to by then).
Unlocked(p, m, l) == IF l = "owned" THEN [lock EXCEPT ![m] = Nobody] ELSE lock
AfterImport(i, ok) == [i EXCEPT !.todo = Tail(@), !.err = @ \/ ~ok]

Imported(p) ==
  /\ pc[p] = "result" /\ result[p] = "Success"
  /\ lock' = Unlocked(p, Goal(p), attempt[p])
  /\ SetCurrent(p, AfterImport(Current(p), TRUE))
  /\ Goto(p, "import")
  /\ UNCHANGED <<header, disk, memoryVars, readVars, waitsFor>>

\* The first attempt failed: err_module_cycle, a module that has already failed, or
\* the module is to be built.
BuildStack(p) == {i.mod : i \in ToSet(stack[p])}
NeedsBuild(p) ==
  /\ pc[p] = "result" /\ result[p] # "Success" /\ attempt[p] = "first"
  /\ IF Goal(p) \in BuildStack(p) \cup failed[p]
     THEN Goto(p, "import") /\ SetCurrent(p, AfterImport(Current(p), FALSE))
     ELSE Goto(p, "lock") /\ UNCHANGED stack
  /\ UNCHANGED <<sharedVars, memoryVars, readVars, waitsFor>>

\* After waiting for another process, a PCM that is out of date is no failure.
TryAgain(p) ==
  /\ pc[p] = "result" /\ result[p] = "OutOfDate" /\ attempt[p] = "waited"
  /\ Goto(p, "lock")
  /\ UNCHANGED <<sharedVars, memoryVars, stack, readVars, waitsFor>>

\* err_module_not_built, and the module is in FailedModules.
NotBuilt(p) ==
  /\ pc[p] = "result"
  /\ \/ attempt[p] = "waited" /\ result[p] = "Missing"
     \/ attempt[p] \in {"owned", "error"} /\ result[p] # "Success"
  /\ lock' = Unlocked(p, Goal(p), attempt[p])
  /\ failed' = [failed EXCEPT ![p] = @ \cup {Goal(p)}]
  /\ SetCurrent(p, AfterImport(Current(p), FALSE))
  /\ Goto(p, "import")
  /\ UNCHANGED <<header, disk, cache, known, seen, readVars, waitsFor>>

\* compileModuleImpl: a new CompilerInstance for the goal, with the importing one's
\* ModuleCache, FileManager and FailedModules.  It enters the module's headers.
Compile(p, l) ==
  /\ seen' = [seen EXCEPT ![p] = Stat(p, Goal(p))]
  /\ stack' = [stack EXCEPT ![p] = Append(@,
       [mod |-> Goal(p), todo |-> Imports[project][Goal(p)][seen'[p][Goal(p)]],
        chain |-> <<>>, err |-> FALSE, locked |-> l])]
  /\ Goto(p, "import")
  /\ UNCHANGED <<header, disk, cache, known, failed, readVars, waitsFor>>

\* The LockFileManager's constructor.  A lock file of a process that no longer runs
\* is removed.
LockIsFree(m) == lock[m] # Nobody => pc[lock[m]] \in Ended
LockOwned(p) ==
  /\ pc[p] = "lock" /\ LockIsFree(Goal(p))
  /\ lock' = [lock EXCEPT ![Goal(p)] = p]
  /\ Compile(p, "owned")
LockShared(p) ==
  /\ pc[p] = "lock" /\ ~LockIsFree(Goal(p))
  /\ waitsFor' = [waitsFor EXCEPT ![p] = lock[Goal(p)]]
  /\ Goto(p, "wait")
  /\ UNCHANGED <<sharedVars, memoryVars, stack, readVars>>

\* LFS_Error: the lock file is removed, and the module built without a lock.
LockError(p) ==
  /\ "lockError" \in Faults[project] /\ pc[p] = "lock"
  /\ lock' = [lock EXCEPT ![Goal(p)] = Nobody]
  /\ Compile(p, "error")

\* Mutant: the owner's death is taken for success.
WaitForUnlockOrDeath(p) ==
  /\ pc[p] = "wait"
  /\ lock[Goal(p)] # Nobody => pc[waitsFor[p]] \in Ended
  /\ base' = [base EXCEPT ![p] = Len(Current(p).chain)]
  /\ StartRead(p, "waited")
  /\ UNCHANGED <<sharedVars, memoryVars, stack, path, result, waitsFor>>

\* waitForUnlock: success when the lock file has gone and the PCM exists; otherwise
\* the owner counts as dead, as it does when it no longer runs.
WaitForUnlock(p) ==
  LET m == Goal(p) IN
  /\ pc[p] = "wait"
  /\ \/ /\ lock[m] = Nobody /\ disk[m] # NoPCM
        /\ base' = [base EXCEPT ![p] = Len(Current(p).chain)]
        /\ StartRead(p, "waited")
     \/ /\ \/ lock[m] = Nobody /\ disk[m] = NoPCM
           \/ lock[m] # Nobody /\ pc[waitsFor[p]] \in Ended
        /\ Goto(p, "lock") /\ UNCHANGED <<base, attempt>>
  /\ UNCHANGED <<sharedVars, memoryVars, stack, path, result, waitsFor>>

\* Mutant: after a timeout the lock file stays.
WaitTimeoutKeepsLock(p) ==
  /\ "timeout" \in Faults[project] /\ pc[p] = "wait"
  /\ Goto(p, "lock")
  /\ UNCHANGED <<sharedVars, memoryVars, stack, readVars, waitsFor>>

\* Res_Timeout: the lock file is removed.
WaitTimeout(p) ==
  /\ "timeout" \in Faults[project] /\ pc[p] = "wait"
  /\ lock' = [lock EXCEPT ![Goal(p)] = Nobody]
  /\ Goto(p, "lock")
  /\ UNCHANGED <<header, disk, memoryVars, stack, readVars, waitsFor>>

-----------------------------------------------------------------------------
(* The end of a compilation. *)

AtEnd(p) == pc[p] = "import" /\ Current(p).todo = <<>>
Nested(p) == Len(stack[p]) > 1
HasErrors(p) ==
  LET i == Current(p) IN
  i.err \/ (i.mod # Nobody /\ <<i.mod, seen[p][i.mod]>> \in Broken[project])

\* The modules of a chain that were directly imported, in its order.
Direct(chain) ==
  LET first[k \in 0..Len(chain)] ==
        IF k = 0 THEN <<>>
        ELSE IF chain[k].direct THEN Append(first[k - 1], chain[k]) ELSE first[k - 1]
  IN first[Len(chain)]

\* Mutant: imports are recorded without their signatures.
ImportsUnsigned(i) ==
  LET direct == Direct(i.chain) IN
  [k \in DOMAIN direct |-> [mod |-> direct[k].mod, sig |-> NoPCM]]

\* The IMPORTS record: the direct imports with the signatures that were read.
ImportsOf(i) ==
  LET direct == Direct(i.chain) IN
  [k \in DOMAIN direct |-> [mod |-> direct[k].mod, sig |-> direct[k].pcm]]

\* PCHGenerator and ASTWriter::WriteAST: a PCM is made, and cached, if all went well.
WriteAST(p) ==
  LET i == Current(p) IN
  /\ AtEnd(p) /\ Nested(p) /\ ~HasErrors(p)
  /\ IF addBuiltPCMAsserts(cache[p], i.mod)
     THEN /\ cache' = [cache EXCEPT ![p] = addBuiltPCM(@, i.mod,
                         [src |-> seen[p][i.mod], imports |-> ImportsOf(i)])]
          /\ Goto(p, "rename")
     ELSE Goto(p, "aborted") /\ UNCHANGED cache
  /\ UNCHANGED <<sharedVars, known, seen, failed, stack, readVars, waitsFor>>

\* clearOutputFiles puts the file in place; compileModuleAndReadAST reads it.
Rename(p) ==
  LET i == Current(p) IN
  /\ pc[p] = "rename"
  /\ disk' = [disk EXCEPT ![i.mod] = cache[p][i.mod].buffer]
  /\ stack' = [stack EXCEPT ![p] = Front(@)]
  /\ base' = [base EXCEPT ![p] = Len(Last(Front(stack[p])).chain)]
  /\ StartRead(p, i.locked)
  /\ UNCHANGED <<header, lock, memoryVars, path, result, waitsFor>>

\* Mutant: the failure is not remembered.
CompileFailedForgotten(p) ==
  LET i == Current(p) IN
  /\ \/ AtEnd(p) /\ Nested(p) /\ HasErrors(p)
     \/ "rename" \in Faults[project] /\ pc[p] = "rename"
  /\ lock' = Unlocked(p, i.mod, i.locked)
  /\ stack' = [stack EXCEPT ![p] =
       Append(Front(Front(@)), AfterImport(Last(Front(@)), FALSE))]
  /\ Goto(p, "import")
  /\ UNCHANGED <<header, disk, memoryVars, readVars, waitsFor>>

\* compileModule returned false: back in the importing instance.
CompileFailed(p) ==
  LET i == Current(p) IN
  /\ \/ AtEnd(p) /\ Nested(p) /\ HasErrors(p)
     \/ "rename" \in Faults[project] /\ pc[p] = "rename"  \* err_unable_to_rename_temp
  /\ lock' = Unlocked(p, i.mod, i.locked)
  /\ failed' = [failed EXCEPT ![p] = @ \cup {i.mod}]
  /\ stack' = [stack EXCEPT ![p] =
       Append(Front(Front(@)), AfterImport(Last(Front(@)), FALSE))]
  /\ Goto(p, "import")
  /\ UNCHANGED <<header, disk, cache, known, seen, readVars, waitsFor>>

Finish(p) ==
  /\ AtEnd(p) /\ ~Nested(p)
  /\ Goto(p, IF HasErrors(p) THEN "failed" ELSE "done")
  /\ UNCHANGED <<sharedVars, memoryVars, stack, readVars, waitsFor>>

\* The process is killed; what it had on disk stays.
Crash(p) ==
  /\ "crash" \in Faults[project] /\ pc[p] \notin Ended
  /\ Goto(p, "crashed")
  /\ UNCHANGED <<sharedVars, memoryVars, stack, readVars, waitsFor>>

-----------------------------------------------------------------------------
\* Somebody edits a module's headers.
Edit(m) ==
  /\ m \in Sources /\ header[m] < MaxVersion
  /\ header' = [header EXCEPT ![m] = @ + 1]
  /\ UNCHANGED <<disk, lock, pc, memoryVars, stack, readVars, waitsFor>>

\* pruneModuleCache in any process, or whoever empties the module cache, removes a PCM.
Prune(m) ==
  /\ "prune" \in Faults[project] /\ disk[m] # NoPCM
  /\ disk' = [disk EXCEPT ![m] = NoPCM]
  /\ UNCHANGED <<header, lock, pc, memoryVars, stack, readVars, waitsFor>>

Step(p) ==
  \/ BeginImport(p) \/ ReadAST(p)
  \/ Imported(p) \/ NeedsBuild(p) \/ TryAgain(p) \/ NotBuilt(p)
  \/ LockOwned(p) \/ LockShared(p) \/ WaitForUnlock(p)
  \/ WriteAST(p) \/ Rename(p) \/ CompileFailed(p) \/ Finish(p)

Next ==
  /\ \/ \E p \in Procs : Step(p) \/ LockError(p) \/ WaitTimeout(p) \/ Crash(p)
     \/ \E m \in Modules : Edit(m) \/ Prune(m)
  /\ UNCHANGED project

Spec == Init /\ [][Next]_vars

\* Every process that can run does, and a wait that lasts ends in a timeout; nothing
\* else need ever happen.
FairSpec ==
  /\ Spec
  /\ \A p \in Procs : /\ WF_vars(Step(p) /\ UNCHANGED project)
                       /\ WF_vars(WaitTimeout(p) /\ UNCHANGED project)

-----------------------------------------------------------------------------
(* Properties. *)

\* Whatever a process has accepted fits together: a final PCM's imports are final
\* too, with the contents it was built against.
FinalConsistent ==
  \A p \in Procs, m \in Modules :
    cache[p][m].isFinal =>
      \A i \in ToSet(cache[p][m].buffer.imports) :
        cache[p][i.mod].isFinal /\ cache[p][i.mod].buffer = i.sig

\* And it agrees with the one view of the headers that the process has, however often
\* they are edited.
FinalFresh ==
  \A p \in Procs, m \in Modules :
    cache[p][m].isFinal => cache[p][m].buffer.src = seen[p][m]

\* No ModuleFile outlives the buffer it points into: a module in any instance's chain
\* is final, or is being read by the current ReadAST.
LoadedAlive ==
  \A p \in Procs : pc[p] \notin Ended =>
    \A i \in DOMAIN stack[p] : \A j \in DOMAIN stack[p][i].chain :
      LET e == stack[p][i].chain[j] IN
      /\ cache[p][e.mod].buffer = e.pcm \/ (i = Len(stack[p]) /\ pc[p] = "unwind")
      /\ cache[p][e.mod].isFinal \/ (i = Len(stack[p]) /\ j > base[p])

\* The assertions of InMemoryModuleCache hold.
NoCacheAssertFails == \A p \in Procs : pc[p] # "aborted"

\* When PCMs do not vanish, only a header that does not compile, as this very process
\* sees it, makes a compilation fail: not another process's failure, crash, timeout,
\* lock trouble, or an edit.
FailsForAReason ==
  Faults[project] \cap {"prune", "rename"} = {} =>
    \A p \in Procs : pc[p] = "failed" =>
      \E m \in failed[p] : <<m, seen[p][m]>> \in Broken[project]

\* Imports are layered: nothing imports a module of its own rank or a higher one,
\* whichever version of its headers it is made from.
Layered(rank) ==
  /\ rank \in [Modules -> Nat]
  /\ \A j \in Projects : \A m \in DOMAIN Imports[j] :
       /\ \A v \in Versions : \A i \in DOMAIN Imports[j][m][v] :
            rank[Imports[j][m][v][i]] < rank[m]
       /\ \A x \in LeftPCMs[j][m] : \A i \in DOMAIN x.imports :
            rank[x.imports[i].mod] < rank[m]

\* The states of a process's PCMs only increase, and a final one never changes.
Pcms == [p \in Procs |-> [m \in Modules |->
          [state |-> State(p, m), buffer |-> cache[p][m].buffer]]]
CacheContract == INSTANCE ModuleCacheContract WITH pcms <- Pcms
KeepsCacheContract == CacheContract!ContractSpec

\* Every compilation ends, whatever the others do.
CompilationsEnd == \A p \in Procs : <>(pc[p] \in Ended)
=============================================================================
