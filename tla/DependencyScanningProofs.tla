---------------------- MODULE DependencyScanningProofs ----------------------
(***************************************************************************)
(* Proofs about DependencyScanningFilesystem, for every set of workers and  *)
(* of files.                                                                *)
(***************************************************************************)
EXTENDS DependencyScanningFilesystem, TLAPS

(* ---- Types ---- *)

\* What a call returns is made from an entry.
LEMMA AnswerType ==
  ASSUME NEW op, NEW e \in Entries
  PROVE  AnswerOf(op, e) \in Entries
  BY DEF AnswerOf, Entries

\* Every value has its type in every reachable state.
THEOREM TypeCorrect == ScanningSpec => []ScanningTypeOK
<1>1. ScanningInit => ScanningTypeOK
  BY DEF ScanningInit, ScanningTypeOK, Entries, Pcs
<1>2. ScanningTypeOK /\ [ScanningNext]_scanningVars => ScanningTypeOK'
  <2> SUFFICES ASSUME ScanningTypeOK, [ScanningNext]_scanningVars PROVE ScanningTypeOK'
    OBVIOUS
  <2> USE DEF ScanningTypeOK, Goto, Pcs
  <2>1. ASSUME NEW f \in Paths, ChangeFile(f) PROVE ScanningTypeOK'
    BY <2>1 DEF ChangeFile, workerVars
  <2>2. ASSUME NEW w \in Workers, NewCommand(w) PROVE ScanningTypeOK'
    <3>1. \A S \in SUBSET MayBeIgnored : S \in SUBSET Paths
      BY ScanningAssumption
    <3> QED BY <2>2, <3>1 DEF NewCommand, Entries
  <2>3. ASSUME NEW w \in Workers, NEW op \in {"status", "openFileForRead"},
               NEW f \in Paths, Call(w, op, f)
        PROVE  ScanningTypeOK'
    BY <2>3, AnswerType DEF Call, Entries
  <2>4. ASSUME NEW w \in Workers, LockEntry(w) PROVE ScanningTypeOK'
    BY <2>4 DEF LockEntry
  <2>5. ASSUME NEW w \in Workers, StatusFails(w) PROVE ScanningTypeOK'
    BY <2>5 DEF StatusFails, Entries
  <2>6. ASSUME NEW w \in Workers, Status(w) PROVE ScanningTypeOK'
    BY <2>6 DEF Status, Fill, Entries
  <2>7. ASSUME NEW w \in Workers, CreateFileEntry(w) PROVE ScanningTypeOK'
    <3>1. \A v \in Versions, min \in BOOLEAN : [version |-> v, minimized |-> min] \in Entries
      BY DEF Entries, Contents
    <3>2. shared' \in [Paths -> Entries]
      <4>1. Failure \in Entries
        BY DEF Entries
      <4> QED BY <2>7, <3>1, <4>1 DEF CreateFileEntry, Fill
    <3> QED BY <2>7, <3>2 DEF CreateFileEntry
  <2>8. ASSUME NEW w \in Workers, Unlock(w) PROVE ScanningTypeOK'
    BY <2>8 DEF Unlock
  <2>9. ASSUME NEW w \in Workers, Return(w) PROVE ScanningTypeOK'
    BY <2>9, AnswerType DEF Return
  <2>10. CASE UNCHANGED scanningVars
    BY <2>10 DEF scanningVars, workerVars
  <2> QED
    BY <2>1, <2>2, <2>3, <2>4, <2>5, <2>6, <2>7, <2>8, <2>9, <2>10 DEF ScanningNext, Lookup
<1> QED BY <1>1, <1>2, PTL DEF ScanningSpec

-----------------------------------------------------------------------------
(* ---- Who may fill an entry ---- *)

\* A thread fills an entry only while it holds its lock and the entry is empty; an entry
\* on its way to the thread's own cache is filled.
EntryInv ==
  \A w \in Workers :
    /\ pc[w] \in {"status", "open", "unlock"} => valueLock[file[w]] = w
    /\ pc[w] \in {"status", "open"} => shared[file[w]] = Undecided
    /\ pc[w] \in {"unlock", "return"} => isValid(shared[file[w]])
    /\ pc[w] # "idle" => file[w] \notin local[w]
    /\ \A f \in local[w] : isValid(shared[f])

\* What a step fills is valid.
LEMMA FilledIsValid ==
  /\ isValid(Failure) /\ isValid(Directory)
  /\ \A v \in Versions, min \in BOOLEAN : isValid([version |-> v, minimized |-> min])
  BY ValuesAssumption DEF isValid, Contents

\* A step fills one entry, which was empty and which the thread has locked, or none.
LEMMA FilledOnce ==
  ASSUME ScanningTypeOK, EntryInv, [ScanningNext]_scanningVars
  PROVE  \/ UNCHANGED shared
         \/ \E w \in Workers :
              /\ pc[w] \in {"status", "open"} /\ shared[file[w]] = Undecided
              /\ pc' = [pc EXCEPT ![w] = "unlock"]
              /\ UNCHANGED <<disk, valueLock, local, file, operation, answer>>
              /\ \E e \in Entries : isValid(e) /\ shared' = [shared EXCEPT ![file[w]] = e]
<1>1. ASSUME NEW w \in Workers, Status(w), shared' # shared
      PROVE  /\ pc[w] \in {"status", "open"} /\ shared[file[w]] = Undecided
             /\ pc' = [pc EXCEPT ![w] = "unlock"]
             /\ UNCHANGED <<disk, valueLock, local, file, operation, answer>>
             /\ \E e \in Entries : isValid(e) /\ shared' = [shared EXCEPT ![file[w]] = e]
  BY <1>1, FilledIsValid DEF EntryInv, Status, Goto, Fill, Entries
<1>2. ASSUME NEW w \in Workers, CreateFileEntry(w)
      PROVE  /\ pc[w] \in {"status", "open"} /\ shared[file[w]] = Undecided
             /\ pc' = [pc EXCEPT ![w] = "unlock"]
             /\ UNCHANGED <<disk, valueLock, local, file, operation, answer>>
             /\ \E e \in Entries : isValid(e) /\ shared' = [shared EXCEPT ![file[w]] = e]
  <2>1. \A v \in Versions, min \in BOOLEAN : [version |-> v, minimized |-> min] \in Entries
    BY DEF Entries, Contents
  <2>2. \E e \in Entries : isValid(e) /\ shared' = [shared EXCEPT ![file[w]] = e]
    <3>1. CASE disk[file[w]] \notin Versions
      BY <1>2, <3>1, FilledIsValid DEF CreateFileEntry, Fill, Entries
    <3>2. CASE disk[file[w]] \in Versions
      BY <1>2, <3>2, <2>1, FilledIsValid DEF CreateFileEntry, Fill
    <3> QED BY <3>1, <3>2
  <2> QED BY <1>2, <2>2 DEF EntryInv, CreateFileEntry, Goto
<1>3. \/ UNCHANGED shared
      \/ \E w \in Workers : (Status(w) /\ shared' # shared) \/ CreateFileEntry(w)
  BY DEF ScanningNext, Lookup, ChangeFile, NewCommand, Call, LockEntry, StatusFails, Unlock, Return,
         scanningVars
<1> QED BY <1>1, <1>2, <1>3

\* The discipline of the lock is kept.
THEOREM FilledUnderLock == ScanningSpec => []EntryInv
<1>1. ScanningInit => EntryInv
  BY DEF ScanningInit, EntryInv
<1>2. ScanningTypeOK /\ EntryInv /\ [ScanningNext]_scanningVars => EntryInv'
  <2> SUFFICES ASSUME ScanningTypeOK, EntryInv, [ScanningNext]_scanningVars PROVE EntryInv'
    OBVIOUS
  <2> USE DEF ScanningTypeOK, Goto
  <2>1. ASSUME NEW w \in Workers, pc[w] \in {"status", "open"}, shared[file[w]] = Undecided,
               pc' = [pc EXCEPT ![w] = "unlock"],
               UNCHANGED <<disk, valueLock, local, file, operation, answer>>,
               NEW e \in Entries, isValid(e), shared' = [shared EXCEPT ![file[w]] = e]
        PROVE  EntryInv'
    <3> SUFFICES ASSUME NEW u \in Workers
        PROVE /\ pc'[u] \in {"status", "open", "unlock"} => valueLock'[file'[u]] = u
              /\ pc'[u] \in {"status", "open"} => shared'[file'[u]] = Undecided
              /\ pc'[u] \in {"unlock", "return"} => isValid(shared'[file'[u]])
              /\ pc'[u] # "idle" => file'[u] \notin local'[u]
              /\ \A f \in local'[u] : isValid(shared'[f])
      BY DEF EntryInv
    <3>1. \A f \in Paths : isValid(shared[f]) => isValid(shared'[f])
      BY <2>1
    <3>2. pc'[u] \in {"status", "open"} => shared'[file'[u]] = Undecided
      BY <2>1 DEF EntryInv
    <3> QED BY <2>1, <3>1, <3>2 DEF EntryInv
  <2>2. ASSUME UNCHANGED shared PROVE EntryInv'
    <3> USE <2>2
    <3>1. ASSUME NEW f \in Paths, ChangeFile(f) PROVE EntryInv'
      BY <3>1 DEF ChangeFile, workerVars, EntryInv
    <3>2. ASSUME NEW w \in Workers, NewCommand(w) PROVE EntryInv'
      BY <3>2 DEF NewCommand, EntryInv
    <3>3. ASSUME NEW w \in Workers, NEW op \in {"status", "openFileForRead"},
                 NEW f \in Paths, Call(w, op, f)
          PROVE  EntryInv'
      <4>1. CASE f \in local[w]
        BY <3>3, <4>1 DEF Call, EntryInv
      <4>2. CASE f \notin local[w]
        BY <3>3, <4>2 DEF Call, EntryInv
      <4> QED BY <4>1, <4>2
    <3>4. ASSUME NEW w \in Workers, LockEntry(w) PROVE EntryInv'
      BY <3>4, ScanningAssumption DEF LockEntry, EntryInv, isValid
    <3>5. ASSUME NEW w \in Workers, StatusFails(w) PROVE EntryInv'
      BY <3>5 DEF StatusFails, EntryInv
    <3>6. ASSUME NEW w \in Workers, Status(w) PROVE EntryInv'
      <4>1. pc' = [pc EXCEPT ![w] = "open"]
        BY <3>6, FilledIsValid DEF Status, Fill, EntryInv, isValid
      <4> QED BY <3>6, <4>1 DEF Status, EntryInv
    <3>7. ASSUME NEW w \in Workers, CreateFileEntry(w) PROVE EntryInv'
      <4>1. shared' # shared
        <5>1. shared'[file[w]] # Undecided
          BY <3>7, FilledIsValid DEF CreateFileEntry, Fill, isValid
        <5> QED BY <3>7, <5>1 DEF EntryInv, CreateFileEntry
      <4> QED BY <4>1
    <3>8. ASSUME NEW w \in Workers, Unlock(w) PROVE EntryInv'
      BY <3>8 DEF Unlock, EntryInv
    <3>9. ASSUME NEW w \in Workers, Return(w) PROVE EntryInv'
      BY <3>9 DEF Return, EntryInv
    <3>10. CASE UNCHANGED scanningVars
      BY <3>10 DEF scanningVars, workerVars, EntryInv
    <3> QED
      BY <3>1, <3>2, <3>3, <3>4, <3>5, <3>6, <3>7, <3>8, <3>9, <3>10 DEF ScanningNext, Lookup
  <2> QED BY <2>1, <2>2, FilledOnce
<1> QED BY <1>1, <1>2, TypeCorrect, PTL DEF ScanningSpec

\* No thread ever has a pointer to an entry that is not initialized.
THEOREM AssertsHold == ScanningSpec => []NoAssertFails
<1>1. EntryInv => NoAssertFails
  BY DEF EntryInv, NoAssertFails
<1> QED BY <1>1, FilledUnderLock, PTL

-----------------------------------------------------------------------------
(* ---- One view of the files ---- *)

\* Answers given about a file never differ.
THEOREM AnswersAgree == ScanningSpec => []OneView
<1>1. ScanningInit => OneView
  BY DEF ScanningInit, OneView
<1>2. ScanningTypeOK /\ EntryInv /\ OneView /\ [ScanningNext]_scanningVars => OneView'
  <2> SUFFICES ASSUME ScanningTypeOK, EntryInv, OneView, [ScanningNext]_scanningVars PROVE OneView'
    OBVIOUS
  <2> USE DEF ScanningTypeOK, Goto
  <2>1. ASSUME NEW w \in Workers, pc[w] \in {"status", "open"}, shared[file[w]] = Undecided,
               pc' = [pc EXCEPT ![w] = "unlock"],
               UNCHANGED <<disk, valueLock, local, file, operation, answer>>,
               NEW e \in Entries, isValid(e), shared' = [shared EXCEPT ![file[w]] = e]
        PROVE  OneView'
    <3> SUFFICES ASSUME NEW u \in Workers, pc'[u] = "idle", answer'[u] # Undecided,
                        ~(answer'[u] = Failure /\ ~shouldCacheStatFailures(file'[u]))
        PROVE answer'[u] = AnswerOf(operation'[u], shared'[file'[u]])
      BY DEF OneView
    <3>1. u # w
      BY <2>1
    <3>2. pc[u] = "idle" /\ answer[u] = AnswerOf(operation[u], shared[file[u]])
      BY <2>1, <3>1 DEF OneView
    <3>3. Undecided # Directory
      BY ValuesAssumption
    <3>4. shared[file[u]] # Undecided
      BY <2>1, <3>2, <3>3 DEF AnswerOf
    <3> QED BY <2>1, <3>2, <3>4
  <2>2. ASSUME UNCHANGED shared PROVE OneView'
    <3> USE <2>2
    <3>1. ASSUME NEW f \in Paths, ChangeFile(f) PROVE OneView'
      BY <3>1 DEF ChangeFile, workerVars, OneView
    <3>2. ASSUME NEW w \in Workers, NewCommand(w) PROVE OneView'
      BY <3>2 DEF NewCommand, OneView
    <3>3. ASSUME NEW w \in Workers, NEW op \in {"status", "openFileForRead"},
                 NEW f \in Paths, Call(w, op, f)
          PROVE  OneView'
      BY <3>3 DEF Call, OneView
    <3>4. ASSUME NEW w \in Workers, LockEntry(w) PROVE OneView'
      BY <3>4 DEF LockEntry, OneView
    <3>5. ASSUME NEW w \in Workers, StatusFails(w) PROVE OneView'
      BY <3>5 DEF StatusFails, OneView
    <3>6. ASSUME NEW w \in Workers, Status(w) \/ CreateFileEntry(w) PROVE OneView'
      BY <3>6 DEF Status, CreateFileEntry, OneView
    <3>7. ASSUME NEW w \in Workers, Unlock(w) PROVE OneView'
      BY <3>7 DEF Unlock, OneView
    <3>8. ASSUME NEW w \in Workers, Return(w) PROVE OneView'
      BY <3>8 DEF Return, OneView
    <3>9. CASE UNCHANGED scanningVars
      BY <3>9 DEF scanningVars, workerVars, OneView
    <3> QED
      BY <3>1, <3>2, <3>3, <3>4, <3>5, <3>6, <3>7, <3>8, <3>9 DEF ScanningNext, Lookup
  <2> QED BY <2>1, <2>2, FilledOnce
<1> QED BY <1>1, <1>2, TypeCorrect, FilledUnderLock, PTL DEF ScanningSpec

-----------------------------------------------------------------------------
(* ---- The shared cache implements the view ---- *)

ViewOf == [f \in Paths |-> IF shared[f] \in Contents THEN shared[f].version ELSE shared[f]]

\* A step that changes no entry changes no view.
LEMMA SameView == UNCHANGED shared => UNCHANGED ViewOf
  BY DEF ViewOf

\* A step that fills an entry from what is on the disk decides the view of one file.
LEMMA FillDecides ==
  ASSUME ScanningTypeOK, NEW w \in Workers, shared[file[w]] = Undecided, UNCHANGED disk,
         NEW e \in Entries, shared' = [shared EXCEPT ![file[w]] = e],
         \/ e = Failure /\ disk[file[w]] \in {Absent, Directory}
         \/ e = Directory /\ disk[file[w]] = Directory
         \/ e \in Contents /\ e.version = disk[file[w]] /\ disk[file[w]] \in Versions
  PROVE  View!Decide(file[w])
<1> DEFINE f == file[w]
<1>1. f \in Paths
  BY DEF ScanningTypeOK
<1>2. ViewOf[f] = Undecided
  BY <1>1, ValuesAssumption DEF ViewOf
<1>3. ViewOf' = [ViewOf EXCEPT ![f] = IF e \in Contents THEN e.version ELSE e]
  BY <1>1 DEF ViewOf, ScanningTypeOK
<1>4. \/ ViewOf' = [ViewOf EXCEPT ![f] = disk[f]] /\ disk[f] # Absent
      \/ ViewOf' = [ViewOf EXCEPT ![f] = Failure] /\ disk[f] \in {Absent, Directory}
  <2>1. CASE e \in Contents
    BY <1>3, <2>1, ValuesAssumption
  <2>2. CASE e \notin Contents
    BY <1>3, <2>2, ValuesAssumption
  <2> QED BY <2>1, <2>2
<1> QED BY <1>2, <1>4 DEF View!Decide, ViewOf

\* The view of every file is decided once, from the disk.
THEOREM ViewKept == ScanningSpec => KeepsView
<1>1. ScanningInit => View!ViewInit
  BY ValuesAssumption DEF ScanningInit, View!ViewInit
<1>2. ScanningTypeOK /\ EntryInv /\ [ScanningNext]_scanningVars => [View!ViewNext]_(View!viewVars)
  <2> SUFFICES ASSUME ScanningTypeOK, EntryInv, [ScanningNext]_scanningVars PROVE [View!ViewNext]_(View!viewVars)
    OBVIOUS
  <2>1. ASSUME UNCHANGED shared PROVE View!ViewNext
    BY <2>1, SameView DEF View!ViewNext, View!DiskChanges, ViewOf
  <2>2. ASSUME NEW w \in Workers, Status(w), shared' # shared PROVE View!Decide(file[w])
    <3>1. pc[w] = "status" /\ shared[file[w]] = Undecided
      BY <2>2 DEF Status, EntryInv
    <3>2. CASE disk[file[w]] = Absent
      BY <2>2, <3>1, <3>2, FillDecides, ValuesAssumption DEF Status, Fill, Entries
    <3>3. CASE disk[file[w]] = Directory
      BY <2>2, <3>1, <3>3, FillDecides, ValuesAssumption DEF Status, Fill, Entries
    <3> QED BY <2>2, <3>2, <3>3 DEF Status
  <2>3. ASSUME NEW w \in Workers, CreateFileEntry(w) PROVE View!Decide(file[w])
    <3>1. shared[file[w]] = Undecided /\ UNCHANGED disk
      BY <2>3 DEF CreateFileEntry, EntryInv
    <3>2. CASE disk[file[w]] \notin Versions
      <4>1. disk[file[w]] \in {Absent, Directory}
        BY <3>2 DEF ScanningTypeOK
      <4> QED BY <2>3, <3>1, <3>2, <4>1, FillDecides DEF CreateFileEntry, Fill, Entries
    <3>3. CASE disk[file[w]] \in Versions
      <4>1. PICK min \in BOOLEAN : Fill(w, [version |-> disk[file[w]], minimized |-> min])
        BY <2>3, <3>3 DEF CreateFileEntry
      <4> DEFINE e == [version |-> disk[file[w]], minimized |-> min]
      <4>2. e \in Contents /\ e \in Entries /\ e.version = disk[file[w]]
        BY <3>3 DEF Entries, Contents
      <4>3. shared' = [shared EXCEPT ![file[w]] = e]
        BY <4>1 DEF Fill
      <4> QED BY <3>1, <3>3, <4>2, <4>3, FillDecides
    <3> QED BY <3>2, <3>3
  <2>4. \/ UNCHANGED shared
        \/ \E w \in Workers : (Status(w) /\ shared' # shared) \/ CreateFileEntry(w)
    BY DEF ScanningNext, Lookup, ChangeFile, NewCommand, Call, LockEntry, StatusFails, Unlock, Return,
           scanningVars
  <2>5. \A w \in Workers : file[w] \in Paths
    BY DEF ScanningTypeOK
  <2>6. UNCHANGED shared \/ \E f \in Paths : View!Decide(f)
    BY <2>2, <2>3, <2>4, <2>5 DEF View!Decide
  <2>7. View!ViewNext
    BY <2>1, <2>6 DEF View!ViewNext
  <2> QED BY <2>7
<1> QED
  BY <1>1, <1>2, TypeCorrect, FilledUnderLock, PTL DEF ScanningSpec, KeepsView, View!ViewSpec
=============================================================================
