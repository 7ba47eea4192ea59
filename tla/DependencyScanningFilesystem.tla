-------------------- MODULE DependencyScanningFilesystem --------------------
(***************************************************************************)
(* The file system that the threads of a dependency scan share              *)
(* (DependencyScanningWorkerFilesystem): each worker looks into its own     *)
(* cache, then into the shared one, whose entries it fills from the real    *)
(* file system under the entry's lock.  The disk is external.               *)
(***************************************************************************)
EXTENDS Naturals

CONSTANTS
  Workers,          \* the worker threads
  Paths,            \* file names
  Minimizable,      \* shouldMinimize: an extension of a source file, or none
  Bare,             \* names without an extension (perhaps the module cache)
  MayBeIgnored,     \* names a build setting may mention
  Nobody,           \* no owner of a lock
  Absent, Directory, \* what a name stands for on disk, if not a file
  Undecided,        \* an entry that is not valid yet
  Failure,          \* an entry with an error; a call that returned one
  MaxVersion        \* bound: the versions of a file's contents are 0..MaxVersion

ASSUME ScanningAssumption ==
  /\ Nobody \notin Workers /\ MaxVersion \in Nat
  /\ Bare \subseteq Minimizable /\ Minimizable \subseteq Paths
  /\ MayBeIgnored \subseteq Paths

Versions == 0..MaxVersion
shouldCacheStatFailures(f) == f \in Minimizable \ Bare

\* A CachedFileSystemEntry: invalid, an error, a directory, or contents.
Contents == [version : Versions, minimized : BOOLEAN]
Entries == {Undecided, Failure, Directory} \cup Contents

ASSUME ValuesAssumption ==
  /\ Directory \notin {Absent, Undecided, Failure} /\ Undecided # Failure
  /\ Absent \notin Versions /\ Directory \notin Versions
  /\ {Undecided, Failure, Directory} \cap Contents = {}

VARIABLES
  disk,             \* what each name stands for
  shared,           \* SharedFileSystemEntry::Value
  valueLock,        \* SharedFileSystemEntry::ValueLock: its owner
  local,            \* the names in each worker's own Cache (of pointers to shared)
  ignored,          \* IgnoredFiles
  pc,               \* where each worker is
  file,             \* the name it was asked about
  operation,        \* and the call: status or openFileForRead
  answer            \* what the last call returned: Undecided until it has

workerVars == <<local, ignored, pc, file, operation, answer>>
scanningVars == <<disk, shared, valueLock, workerVars>>

Pcs == {"idle", "lock", "status", "open", "unlock", "return"}

ScanningTypeOK ==
  /\ disk \in [Paths -> {Absent, Directory} \cup Versions]
  /\ shared \in [Paths -> Entries]
  /\ valueLock \in [Paths -> Workers \cup {Nobody}]
  /\ local \in [Workers -> SUBSET Paths]
  /\ ignored \in [Workers -> SUBSET Paths]
  /\ pc \in [Workers -> Pcs]
  /\ file \in [Workers -> Paths]
  /\ operation \in [Workers -> {"status", "openFileForRead"}]
  /\ answer \in [Workers -> Entries]

ScanningInit ==
  /\ disk \in [Paths -> {Absent, Directory} \cup Versions]
  /\ shared = [f \in Paths |-> Undecided]
  /\ valueLock = [f \in Paths |-> Nobody]
  /\ local = [w \in Workers |-> {}]
  /\ ignored = [w \in Workers |-> {}]
  /\ pc = [w \in Workers |-> "idle"]
  /\ file \in [Workers -> Paths]
  /\ operation = [w \in Workers |-> "status"]
  /\ answer = [w \in Workers |-> Undecided]

-----------------------------------------------------------------------------
\* Somebody creates, replaces or removes what f stands for.
ChangeFile(f) ==
  /\ \E c \in {Absent, Directory} \cup Versions : disk' = [disk EXCEPT ![f] = c]
  /\ UNCHANGED <<shared, valueLock, workerVars>>

Goto(w, l) == pc' = [pc EXCEPT ![w] = l]
isValid(e) == e # Undecided

\* createFile: a directory cannot be opened for reading.
AnswerOf(op, e) ==
  IF op = "openFileForRead" /\ e = Directory THEN Failure ELSE e

\* The next compile command of the worker sets IgnoredFiles.
NewCommand(w) ==
  /\ pc[w] = "idle"
  /\ \E S \in SUBSET MayBeIgnored : ignored' = [ignored EXCEPT ![w] = S]
  /\ answer' = [answer EXCEPT ![w] = Undecided]
  /\ UNCHANGED <<disk, shared, valueLock, local, pc, file, operation>>

\* status or openFileForRead: answered from the worker's own cache, or taken to the
\* shared one.
Call(w, op, f) ==
  /\ pc[w] = "idle"
  /\ file' = [file EXCEPT ![w] = f]
  /\ operation' = [operation EXCEPT ![w] = op]
  /\ IF f \in local[w]
     THEN answer' = [answer EXCEPT ![w] = AnswerOf(op, shared[f])] /\ UNCHANGED pc
     ELSE Goto(w, "lock") /\ answer' = [answer EXCEPT ![w] = Undecided]
  /\ UNCHANGED <<disk, shared, valueLock, local, ignored>>

\* Mutant: the entry is not looked at again under the lock.
LockWithoutCheck(w) ==
  /\ pc[w] = "lock" /\ valueLock[file[w]] = Nobody
  /\ valueLock' = [valueLock EXCEPT ![file[w]] = w]
  /\ Goto(w, "status")
  /\ UNCHANGED <<disk, shared, local, ignored, file, operation, answer>>

\* Mutant: the entry has no lock.
LockBusy(w) ==
  /\ pc[w] = "lock"
  /\ valueLock' = [valueLock EXCEPT ![file[w]] = w]
  /\ Goto(w, IF isValid(shared[file[w]]) THEN "unlock" ELSE "status")
  /\ UNCHANGED <<disk, shared, local, ignored, file, operation, answer>>

\* SharedCache.get and ValueLock; whoever comes first fills the entry.
LockEntry(w) ==
  /\ pc[w] = "lock" /\ valueLock[file[w]] = Nobody
  /\ valueLock' = [valueLock EXCEPT ![file[w]] = w]
  /\ Goto(w, IF isValid(shared[file[w]]) THEN "unlock" ELSE "status")
  /\ UNCHANGED <<disk, shared, local, ignored, file, operation, answer>>

Fill(w, e) == shared' = [shared EXCEPT ![file[w]] = e]

\* Mutant: the early return leaves the entry locked.
StatusFailsLocked(w) ==
  /\ pc[w] = "status" /\ disk[file[w]] = Absent
  /\ ~shouldCacheStatFailures(file[w])
  /\ answer' = [answer EXCEPT ![w] = Failure]
  /\ Goto(w, "idle")
  /\ UNCHANGED <<disk, shared, valueLock, local, ignored, file, operation>>

\* Mutant: the early return keeps a pointer to the entry it has not filled.
StatusFailsRemembered(w) ==
  /\ pc[w] = "status" /\ disk[file[w]] = Absent
  /\ ~shouldCacheStatFailures(file[w])
  /\ answer' = [answer EXCEPT ![w] = Failure]
  /\ valueLock' = [valueLock EXCEPT ![file[w]] = Nobody]
  /\ local' = [local EXCEPT ![w] = @ \cup {file[w]}]
  /\ Goto(w, "idle")
  /\ UNCHANGED <<disk, shared, ignored, file, operation>>

\* A failure that is not cached is returned at once; the lock goes with its scope.
StatusFails(w) ==
  /\ pc[w] = "status" /\ disk[file[w]] = Absent
  /\ ~shouldCacheStatFailures(file[w])
  /\ answer' = [answer EXCEPT ![w] = Failure]
  /\ valueLock' = [valueLock EXCEPT ![file[w]] = Nobody]
  /\ Goto(w, "idle")
  /\ UNCHANGED <<disk, shared, local, ignored, file, operation>>

\* Mutant: the status of a missing file is stored as if there were one.
StatusUnchecked(w) ==
  LET f == file[w] IN
  /\ pc[w] = "status"
  /\ \/ disk[f] \in {Absent, Directory} /\ Fill(w, disk[f]) /\ Goto(w, "unlock")
     \/ disk[f] \in Versions /\ Goto(w, "open") /\ UNCHANGED shared
  /\ UNCHANGED <<disk, valueLock, local, ignored, file, operation, answer>>

\* FS.status: an error that is cached, a directory, or a file to be opened.
Status(w) ==
  LET f == file[w] IN
  /\ pc[w] = "status"
  /\ \/ disk[f] = Absent /\ shouldCacheStatFailures(f) /\ Fill(w, Failure) /\ Goto(w, "unlock")
     \/ disk[f] = Directory /\ Fill(w, Directory) /\ Goto(w, "unlock")
     \/ disk[f] \in Versions /\ Goto(w, "open") /\ UNCHANGED shared
  /\ UNCHANGED <<disk, valueLock, local, ignored, file, operation, answer>>

\* createFileEntry: the file is opened (which may fail by now), read and minimized
\* unless it is to be kept, or cannot be.
KeepOriginalSource(w, f) == f \in ignored[w] \/ f \notin Minimizable
CreateFileEntry(w) ==
  LET f == file[w] IN
  /\ pc[w] = "open"
  /\ \/ disk[f] \notin Versions /\ Fill(w, Failure)
     \/ /\ disk[f] \in Versions
        /\ \E min \in BOOLEAN :
             /\ min => ~KeepOriginalSource(w, f)
             /\ Fill(w, [version |-> disk[f], minimized |-> min])
  /\ Goto(w, "unlock")
  /\ UNCHANGED <<disk, valueLock, local, ignored, file, operation, answer>>

\* The lock goes with its scope.
Unlock(w) ==
  /\ pc[w] = "unlock"
  /\ valueLock' = [valueLock EXCEPT ![file[w]] = Nobody]
  /\ Goto(w, "return")
  /\ UNCHANGED <<disk, shared, local, ignored, file, operation, answer>>

\* A pointer to the entry is kept, and the entry read, without the lock.
Return(w) ==
  /\ pc[w] = "return"
  /\ local' = [local EXCEPT ![w] = @ \cup {file[w]}]
  /\ answer' = [answer EXCEPT ![w] = AnswerOf(operation[w], shared[file[w]])]
  /\ Goto(w, "idle")
  /\ UNCHANGED <<disk, shared, valueLock, ignored, file, operation>>

Lookup(w) ==
  LockEntry(w) \/ StatusFails(w) \/ Status(w) \/ CreateFileEntry(w)
  \/ Unlock(w) \/ Return(w)

ScanningNext ==
  \/ \E f \in Paths : ChangeFile(f)
  \/ \E w \in Workers :
       \/ NewCommand(w) \/ Lookup(w)
       \/ \E op \in {"status", "openFileForRead"}, f \in Paths : Call(w, op, f)

ScanningSpec == ScanningInit /\ [][ScanningNext]_scanningVars

\* A thread in the middle of a call goes on.  Nobody need ever make a call, and
\* std::mutex owes no one who waits a turn.
ScanningFairness == \A w \in Workers : WF_scanningVars(Lookup(w))

-----------------------------------------------------------------------------
\* The scan sees one file system although the files change under it: whatever any
\* thread was told of a file is what the entry it shares with the others says now, so
\* two answers about a file never differ.  Only a failure that is not cached is told
\* without an entry.
OneView ==
  \A w \in Workers :
    /\ pc[w] = "idle" /\ answer[w] # Undecided
    /\ ~(answer[w] = Failure /\ ~shouldCacheStatFailures(file[w]))
    => answer[w] = AnswerOf(operation[w], shared[file[w]])

\* The assertions "not initialized" and "local cache is updated more than once" never
\* fail: a pointer in a thread's own cache, or one about to be put there, is to an entry
\* that was filled, and it is put there once.
NoAssertFails ==
  \A w \in Workers :
    /\ \A f \in local[w] : isValid(shared[f])
    /\ pc[w] = "return" => isValid(shared[file[w]]) /\ file[w] \notin local[w]

\* The shared cache implements DependencyScanningView: each file's view is decided once,
\* by one thread, from what the disk holds at that moment.
View ==
  INSTANCE DependencyScanningView WITH Files <- Paths,
    view <- [f \in Paths |-> IF shared[f] \in Contents THEN shared[f].version ELSE shared[f]]
KeepsView == View!ViewSpec

\* Every call ends although the mutexes are unfair (none is under way for ever): a thread
\* takes the lock of an entry that gets filled only once more, so no one can keep it from
\* the others forever, unless the file is missing time and again and its absence is not
\* cached.
CallsEnd ==
  \A w \in Workers, f \in Paths :
    shouldCacheStatFailures(f) \/ <>[](disk[f] # Absent)
    => []<>~(pc[w] # "idle" /\ file[w] = f)

\* "HACK: We need to always restat non source files if the stat fails" (the comment in
\* getOrCreateFileSystemEntry): no failure is kept of a file that may yet be built.
NonSourceFailuresNotKept ==
  \A f \in Paths : ~shouldCacheStatFailures(f) => shared[f] # Failure

\* "The set of files that should not be minimized" (IgnoredFiles): a thread gets their
\* original contents.
IgnoredFilesNotMinimized ==
  \A w \in Workers :
    pc[w] = "idle" /\ file[w] \in ignored[w] /\ answer[w] \in Contents
    => ~answer[w].minimized
=============================================================================
