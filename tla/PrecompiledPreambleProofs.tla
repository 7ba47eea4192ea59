---------------------- MODULE PrecompiledPreambleProofs ----------------------
(***************************************************************************)
(* PrecompiledPreamble keeps its invariants for every set of paths, main   *)
(* files, include lists and search paths, and for every number of edits.   *)
(*                                                                         *)
(* What the properties say of an idle ASTUnit follows from what its calls  *)
(* are about to do, so the inductive invariant adds to them what holds     *)
(* while a preamble is built (Build) and before the main file is parsed    *)
(* (Ready), and what a recorded hash tells of the file it was taken of.    *)
(***************************************************************************)
EXTENDS PrecompiledPreamble, FiniteSetTheorems, SequenceTheorems, TLAPS

\* A build is of a main file that has a preamble, and starts without one.
BuildInv ==
  uPc \in {"open", "read"} =>
    /\ preamble = None /\ mainBuffer \in MainTexts /\ HasPreamble(mainBuffer)
    /\ Len(draft) + Len(todo) = Len(Includes[mainBuffer])

OpenedInv ==
  uPc = "read" =>
    /\ todo # <<>> /\ opened.path \in Paths /\ opened.stamp \in Stamps
    /\ opened.stamp <= disk[opened.path].stamp

\* The parse is given a preamble only if there is one.
ReadyInv ==
  uPc = "parse" /\ overridden =>
    preamble # None /\ mainBuffer \in MainTexts /\ HasPreamble(mainBuffer)

DiagsInv == preambleDiags <=> preamble # None

\* A file that still has the stamp that was recorded still has the text that was read.
Tells(f) ==
  f.hash = "file" =>
    /\ f.stamp <= disk[f.path].stamp
    /\ f.stamp = disk[f.path].stamp => f.text = TextOf(f.stamp)
HashesTell ==
  /\ \A i \in DOMAIN preamble.files : Tells(preamble.files[i])
  /\ \A i \in DOMAIN draft : Tells(draft[i])

\* The countdown agrees with what went before, so that the tests for 1 come out as IsDue.
CountdownInv ==
  /\ preamble = None /\ lastFailure = "other" =>
       /\ countdown \in 1..DefaultPreambleRebuildInterval
       /\ skipped = DefaultPreambleRebuildInterval - countdown
  /\ preamble = None /\ lastFailure \in {"none", "temp"} => countdown = 1 /\ skipped = 0
  /\ preamble # None => countdown = 1

IInv ==
  /\ PreambleTypeOK /\ BuildInv /\ OpenedInv /\ ReadyInv /\ DiagsInv
  /\ CountdownInv /\ RealizeFindsPreamble /\ DiagnosticsComplete /\ HashesTell

-----------------------------------------------------------------------------
(* Facts about the data. *)

\* Absent is no main text, so a preamble that was built is not None.
LEMMA BuiltIsNotNone ==
  ASSUME NEW t \in MainTexts, NEW fs PROVE [text |-> t, files |-> fs] # None
BY PreambleAssumption DEF None

LEMMA NoBuffersUnsaved == NoBuffers \in UnsavedBuffers
<1>1. {p \in Paths : NoBuffers[p] # Absent} = {}
  BY DEF NoBuffers
<1>2. Cardinality({p \in Paths : NoBuffers[p] # Absent}) = 0
  BY <1>1, FS_EmptySet
<1> QED BY <1>2 DEF UnsavedBuffers, Buffers, NoBuffers

LEMMA FilesShape ==
  /\ NotFound \in Files
  /\ \A p \in Paths, t \in Texts : OfBuffer(p, t) \in Files
  /\ \A p \in Paths, s \in Stamps, t \in Texts : OfFile(p, s, t) \in Files
BY DEF Files

LEMMA FilesCases ==
  ASSUME NEW f \in Files
  PROVE  /\ f.hash = "file" => f.path \in Paths /\ f.stamp \in Stamps
         /\ f.hash = "missing" => f = NotFound
BY DEF Files, OfBuffer, OfFile, NotFound

\* One header less to come, one more recorded.
LEMMA RecordsOne ==
  ASSUME NEW f \in Files, draft \in Seq(Files), todo \in Seq(DOMAIN Candidates),
         todo # <<>>, Records(f)
  PROVE  /\ draft' \in Seq(Files) /\ todo' \in Seq(DOMAIN Candidates)
         /\ Len(draft') + Len(todo') = Len(draft) + Len(todo)
         /\ \A i \in DOMAIN draft' : (i \in DOMAIN draft /\ draft'[i] = draft[i]) \/ draft'[i] = f
<1>1. /\ Append(draft, f) \in Seq(Files) /\ Len(Append(draft, f)) = Len(draft) + 1
      /\ \A i \in 1..Len(draft) : Append(draft, f)[i] = draft[i]
      /\ Append(draft, f)[Len(draft) + 1] = f
  BY AppendProperties
<1>2. Tail(todo) \in Seq(DOMAIN Candidates) /\ Len(Tail(todo)) = Len(todo) - 1
  BY HeadTailProperties
<1>3. Len(draft) \in Nat /\ Len(todo) \in Nat
  BY LenProperties
<1>4. DOMAIN draft = 1..Len(draft) /\ DOMAIN Append(draft, f) = 1..(Len(draft) + 1)
  BY <1>1, LenProperties
<1> QED BY <1>1, <1>2, <1>3, <1>4 DEF Records

\* A file that is first on the search path is there.
LEMMA FirstIsPath ==
  ASSUME NEW h \in DOMAIN Candidates, NEW k \in DOMAIN Candidates[h]
  PROVE  Candidates[h][k] \in Paths
BY PreambleAssumption, ElementOfSeq

LEMMA MainFiles ==
  ASSUME NEW t \in MainTexts
  PROVE  Includes[t] \in Seq(DOMAIN Candidates) /\ t # Absent /\ Len(Includes[t]) \in Nat
BY PreambleAssumption, LenProperties

-----------------------------------------------------------------------------
(* The initial states. *)

LEMMA InitInv == PreambleInit => IInv
<1> SUFFICES ASSUME PreambleInit PROVE IInv
  OBVIOUS
<1>1. PreambleTypeOK
  <2>1. /\ disk \in [Paths -> [there : BOOLEAN, stamp : Stamps]] /\ countdown \in Nat
    BY PreambleAssumption DEF PreambleInit, Stamps
  <2>2. unsaved \in UnsavedBuffers
    BY NoBuffersUnsaved DEF PreambleInit
  <2>3. draft \in Seq(Files) /\ todo \in Seq(DOMAIN Candidates) /\ preamble = None
    BY DEF PreambleInit
  <2>4. topLevelDecls \subseteq Parts /\ storedDiags \subseteq Parts
    BY DEF PreambleInit
  <2> QED BY <2>1, <2>2, <2>3, <2>4 DEF PreambleInit, PreambleTypeOK
<1>2. BuildInv /\ OpenedInv /\ ReadyInv /\ DiagsInv
  BY DEF PreambleInit, BuildInv, OpenedInv, ReadyInv, DiagsInv
<1>3. CountdownInv /\ RealizeFindsPreamble /\ DiagnosticsComplete
  BY DEF PreambleInit, CountdownInv, RealizeFindsPreamble, DiagnosticsComplete
<1>4. HashesTell
  BY DEF PreambleInit, HashesTell, None
<1> QED BY <1>1, <1>2, <1>3, <1>4 DEF IInv

-----------------------------------------------------------------------------
(* Types. *)

PreambleTyped(pre) ==
  pre = None \/ /\ pre.text \in MainTexts /\ pre.files \in Seq(Files)
                /\ Len(pre.files) = Len(Includes[pre.text])

LEMMA TypeStep == IInv /\ [PreambleNext]_preambleVars => PreambleTypeOK'
<1> SUFFICES ASSUME IInv, [PreambleNext]_preambleVars PROVE PreambleTypeOK'
  OBVIOUS
<1> USE DEF IInv
<1>1. CASE UNCHANGED preambleVars
  BY <1>1 DEF PreambleTypeOK, preambleVars, editorVars, declVars, buildVars, retryVars
<1>2. ASSUME NEW u \in UnsavedBuffers, ReparseWithout(u) PROVE PreambleTypeOK'
  BY <1>2 DEF PreambleTypeOK, ReparseWithout, CallStarts, editorVars, declVars, buildVars, retryVars
<1>3. ASSUME NEW u \in UnsavedBuffers, ReparseReuses(u) PROVE PreambleTypeOK'
  BY <1>3 DEF PreambleTypeOK, ReparseReuses, CallStarts, editorVars, declVars, buildVars, retryVars
<1>4. ASSUME NEW u \in UnsavedBuffers, ReparseWaits(u) PROVE PreambleTypeOK'
  <2>1. countdown' \in Nat /\ skipped' \in Nat
    BY <1>4 DEF PreambleTypeOK, ReparseWaits
  <2> QED BY <1>4, <2>1 DEF PreambleTypeOK, ReparseWaits, CallStarts, editorVars, declVars, buildVars
<1>5. ASSUME NEW u \in UnsavedBuffers, ReparseBuilds(u) PROVE PreambleTypeOK'
  <2>1. /\ mainText \in MainTexts /\ todo' \in Seq(DOMAIN Candidates)
        /\ draft' = <<>> /\ draft' \in Seq(Files)
    BY <1>5, MainFiles DEF PreambleTypeOK, ReparseBuilds
  <2>2. /\ preamble' = None /\ countdown' \in Nat /\ skipped' \in Nat
        /\ declIDs' \in BOOLEAN /\ preambleDiags' \in BOOLEAN
        /\ lastFailure' \in {"never", "none", "temp", "other"}
    <3>1. CASE DropPreamble
      BY <3>1 DEF DropPreamble
    <3>2. CASE preamble = None /\ UNCHANGED <<preamble, countdown, declIDs, preambleDiags, retryVars>>
      BY <3>2 DEF PreambleTypeOK, retryVars
    <3> QED BY <1>5, <3>1, <3>2 DEF ReparseBuilds
  <2>3. /\ uPc' \in {"idle", "open", "read", "parse"} /\ unsaved' \in UnsavedBuffers
        /\ mainBuffer' \in MainTexts \cup {Absent}
        /\ UNCHANGED <<disk, mainText, topLevelDecls, storedDiags, overridden>>
    BY <1>5, <2>1 DEF ReparseBuilds, CallStarts, editorVars
  <2> QED BY <2>1, <2>2, <2>3 DEF PreambleTypeOK
<1>6. ASSUME NEW u \in UnsavedBuffers, CompleteReuses(u) PROVE PreambleTypeOK'
  BY <1>6 DEF PreambleTypeOK, CompleteReuses, editorVars, declVars, buildVars, retryVars
<1>7. ASSUME NEW u \in UnsavedBuffers, NEW cut \in BOOLEAN, CompleteDrops(u, cut)
      PROVE PreambleTypeOK'
  BY <1>7 DEF PreambleTypeOK, CompleteDrops, DropPreamble, editorVars, buildVars
<1>8. CASE BuildOpens
  <2>1. ASSUME NEW f \in Files, Records(f), todo # <<>>
        PROVE  draft' \in Seq(Files) /\ todo' \in Seq(DOMAIN Candidates)
    BY <2>1, RecordsOne DEF PreambleTypeOK
  <2>2. draft' \in Seq(Files) /\ todo' \in Seq(DOMAIN Candidates) /\ uPc' \in {"open", "read"}
    <3>1. CASE Records(NotFound) /\ UNCHANGED uPc
      BY <1>8, <2>1, <3>1, FilesShape DEF BuildOpens
    <3>2. ASSUME NEW k \in DOMAIN Candidates[Head(todo)],
                 NEW p, p = Candidates[Head(todo)][k],
                 unsaved[p] # Absent, Records(OfBuffer(p, unsaved[p])), UNCHANGED uPc
          PROVE  draft' \in Seq(Files) /\ todo' \in Seq(DOMAIN Candidates) /\ uPc' \in {"open", "read"}
      <4>1. Head(todo) \in DOMAIN Candidates
        BY <1>8, HeadTailProperties DEF BuildOpens, PreambleTypeOK
      <4>2. p \in Paths
        BY <3>2, <4>1, FirstIsPath
      <4>3. unsaved[p] \in Texts
        BY <3>2, <4>2 DEF PreambleTypeOK, UnsavedBuffers, Buffers
      <4> QED BY <1>8, <2>1, <3>2, <4>2, <4>3, FilesShape DEF BuildOpens
    <3>3. CASE uPc' = "read" /\ UNCHANGED <<draft, todo>>
      BY <3>3 DEF PreambleTypeOK
    <3> QED BY <1>8, <3>1, <3>2, <3>3 DEF BuildOpens
  <2>3. UNCHANGED Building
    BY <1>8 DEF BuildOpens
  <2> QED BY <2>2, <2>3 DEF PreambleTypeOK, Building, editorVars, declVars, retryVars
<1>9. CASE BuildReads
  <2>1. opened.path \in Paths /\ opened.stamp \in Stamps /\ todo # <<>>
    BY <1>9 DEF BuildReads, OpenedInv
  <2>2. PICK s : Records(OfFile(opened.path, opened.stamp, TextOf(s)))
                 /\ s \in {opened.stamp, disk[opened.path].stamp}
    BY <1>9 DEF BuildReads
  <2>3. s \in Nat
    BY <2>1, <2>2 DEF PreambleTypeOK, Stamps
  <2>4. TextOf(s) \in Texts
    BY <2>3 DEF TextOf, Texts
  <2>5. draft' \in Seq(Files) /\ todo' \in Seq(DOMAIN Candidates)
    BY <2>1, <2>2, <2>4, FilesShape, RecordsOne DEF PreambleTypeOK
  <2> QED BY <1>9, <2>5 DEF BuildReads, PreambleTypeOK, Building, editorVars, declVars, retryVars
<1>10. CASE BuildSucceeds
  <2>1. /\ mainBuffer \in MainTexts /\ Len(draft) + Len(todo) = Len(Includes[mainBuffer])
        /\ draft \in Seq(Files) /\ todo = <<>>
    BY <1>10 DEF BuildSucceeds, BuildInv, PreambleTypeOK
  <2>2. Len(draft) = Len(Includes[mainBuffer])
    BY <2>1, LenProperties
  <2>3. preamble' = [text |-> mainBuffer, files |-> draft]
    BY <1>10 DEF BuildSucceeds
  <2>4. PreambleTyped(preamble')
    BY <2>1, <2>2, <2>3 DEF PreambleTyped
  <2>5. draft' = <<>> /\ draft' \in Seq(Files)
    BY <1>10 DEF BuildSucceeds
  <2> QED BY <1>10, <2>4, <2>5 DEF PreambleTyped, BuildSucceeds, PreambleTypeOK, Parts, editorVars
<1>11. CASE BuildFails
  <2>1. draft' \in Seq(Files) /\ todo' \in Seq(DOMAIN Candidates) /\ countdown' \in Nat
    BY <1>11 DEF BuildFails, DefaultPreambleRebuildInterval
  <2> QED BY <1>11, <2>1 DEF BuildFails, PreambleTypeOK, editorVars, declVars
<1>12. CASE Parse
  <2>1. topLevelDecls' \subseteq Parts /\ storedDiags' \subseteq Parts
    BY <1>12 DEF Parse, PartsOf, Parts
  <2>2. declIDs' \in BOOLEAN /\ unsaved' \in UnsavedBuffers /\ mainBuffer' = Absent
    BY <1>12, NoBuffersUnsaved DEF Parse, PreambleTypeOK
  <2> QED BY <1>12, <2>1, <2>2 DEF Parse, PreambleTypeOK, editorVars, buildVars, retryVars
<1>13. CASE Traverse
  BY <1>13 DEF Traverse, PreambleTypeOK, Parts, editorVars, buildVars, retryVars
<1>14. CASE EditMain
  BY <1>14 DEF EditMain, PreambleTypeOK, declVars, buildVars, retryVars
<1>15. ASSUME NEW p \in Paths, EditHeader(p) PROVE PreambleTypeOK'
  <2>1. disk' \in [Paths -> [there : BOOLEAN, stamp : Stamps]]
    <3>1. disk[p].there \in BOOLEAN /\ disk[p].stamp \in Stamps
      BY <1>15 DEF PreambleTypeOK
    <3>2. CASE disk[p].stamp < MaxStamp
               /\ disk' = [disk EXCEPT ![p] = [there |-> TRUE, stamp |-> disk[p].stamp + 1]]
      <4>1. disk[p].stamp + 1 \in Stamps
        BY <3>1, <3>2, PreambleAssumption DEF Stamps
      <4> QED BY <1>15, <3>2, <4>1 DEF PreambleTypeOK
    <3>3. CASE disk' = [disk EXCEPT ![p].there = ~disk[p].there]
      <4> DEFINE b == ~disk[p].there
      <4>1. b \in BOOLEAN
        BY Zenon
      <4>2. disk' = [disk EXCEPT ![p].there = b]
        BY <3>3
      <4> HIDE DEF b
      <4> QED BY <1>15, <4>1, <4>2 DEF PreambleTypeOK
    <3> QED BY <1>15, <3>2, <3>3 DEF EditHeader
  <2> QED BY <1>15, <2>1 DEF EditHeader, PreambleTypeOK, declVars, buildVars, retryVars
<1> QED
  BY <1>1, <1>2, <1>3, <1>4, <1>5, <1>6, <1>7, <1>8, <1>9, <1>10, <1>11, <1>12, <1>13,
     <1>14, <1>15 DEF PreambleNext

-----------------------------------------------------------------------------
(* What a build and a parse are given. *)

\* A file's stamp is never taken back, whether the file goes, comes or is written.
LEMMA StampsGrow ==
  ASSUME PreambleTypeOK, NEW p \in Paths, EditHeader(p), NEW q \in Paths
  PROVE  /\ disk[q].stamp \in Nat /\ disk'[q].stamp \in Nat
         /\ disk[q].stamp <= disk'[q].stamp
<1>1. disk[q].stamp \in Nat /\ disk[p].stamp \in Nat
  BY PreambleAssumption DEF PreambleTypeOK, Stamps
<1>2. CASE disk' = [disk EXCEPT ![p] = [there |-> TRUE, stamp |-> disk[p].stamp + 1]]
  <2>1. disk'[q] = IF q = p THEN [there |-> TRUE, stamp |-> disk[p].stamp + 1] ELSE disk[q]
    BY <1>2 DEF PreambleTypeOK
  <2> QED BY <1>1, <2>1
<1>3. CASE disk' = [disk EXCEPT ![p].there = ~disk[p].there]
  <2> DEFINE b == ~disk[p].there
  <2>1. disk' = [disk EXCEPT ![p].there = b]
    BY <1>3
  <2> HIDE DEF b
  <2>2. disk'[q] = IF q = p THEN [disk[p] EXCEPT !.there = b] ELSE disk[q]
    BY <2>1 DEF PreambleTypeOK
  <2>3. disk[p] \in [there : BOOLEAN, stamp : Stamps]
    BY DEF PreambleTypeOK
  <2>4. disk'[q].stamp = disk[q].stamp
    BY <2>2, <2>3
  <2> QED BY <1>1, <2>4
<1> QED BY <1>2, <1>3 DEF EditHeader

(* Builds. *)

LEMMA BuildStep == IInv /\ [PreambleNext]_preambleVars => BuildInv'
<1> SUFFICES ASSUME IInv, [PreambleNext]_preambleVars PROVE BuildInv'
  OBVIOUS
<1> USE DEF IInv, BuildInv
<1>1. CASE UNCHANGED preambleVars
  BY <1>1 DEF preambleVars, editorVars, declVars, buildVars, retryVars
<1>2. ASSUME NEW u \in UnsavedBuffers, ReparseWithout(u) PROVE BuildInv'
  BY <1>2 DEF ReparseWithout, CallStarts, editorVars, declVars, buildVars, retryVars
<1>3. ASSUME NEW u \in UnsavedBuffers, ReparseReuses(u) PROVE BuildInv'
  BY <1>3 DEF ReparseReuses, CallStarts, editorVars, declVars, buildVars, retryVars
<1>4. ASSUME NEW u \in UnsavedBuffers, ReparseWaits(u) PROVE BuildInv'
  BY <1>4 DEF ReparseWaits, CallStarts, editorVars, declVars, buildVars
<1>5. ASSUME NEW u \in UnsavedBuffers, ReparseBuilds(u) PROVE BuildInv'
  <2>1. mainText \in MainTexts /\ Len(Includes[mainText]) \in Nat
    BY MainFiles DEF PreambleTypeOK
  <2>2. preamble' = None
    BY <1>5 DEF ReparseBuilds, DropPreamble
  <2>3. mainBuffer' = mainText /\ HasPreamble(mainText) /\ todo' = Includes[mainText] /\ draft' = <<>>
    BY <1>5 DEF ReparseBuilds, CallStarts
  <2>4. Len(draft') = 0
    BY <2>3
  <2> QED BY <2>1, <2>2, <2>3, <2>4 DEF HasPreamble
<1>6. ASSUME NEW u \in UnsavedBuffers, CompleteReuses(u) PROVE BuildInv'
  BY <1>6 DEF CompleteReuses, editorVars, declVars, buildVars, retryVars
<1>7. ASSUME NEW u \in UnsavedBuffers, NEW cut \in BOOLEAN, CompleteDrops(u, cut)
      PROVE BuildInv'
  BY <1>7 DEF CompleteDrops, DropPreamble, editorVars, buildVars
<1>8. CASE BuildOpens
  <2>1. ASSUME NEW f \in Files, Records(f), todo # <<>>
        PROVE  Len(draft') + Len(todo') = Len(draft) + Len(todo)
    BY <2>1, RecordsOne DEF PreambleTypeOK
  <2>2. Len(draft') + Len(todo') = Len(draft) + Len(todo)
    <3>1. CASE Records(NotFound)
      BY <1>8, <2>1, <3>1, FilesShape DEF BuildOpens
    <3>2. ASSUME NEW k \in DOMAIN Candidates[Head(todo)],
                 NEW p, p = Candidates[Head(todo)][k],
                 unsaved[p] # Absent, Records(OfBuffer(p, unsaved[p]))
          PROVE  Len(draft') + Len(todo') = Len(draft) + Len(todo)
      <4>1. Head(todo) \in DOMAIN Candidates
        BY <1>8, HeadTailProperties DEF BuildOpens, PreambleTypeOK
      <4>2. p \in Paths
        BY <3>2, <4>1, FirstIsPath
      <4>3. unsaved[p] \in Texts
        BY <3>2, <4>2 DEF PreambleTypeOK, UnsavedBuffers, Buffers
      <4> QED BY <1>8, <2>1, <3>2, <4>2, <4>3, FilesShape DEF BuildOpens
    <3>3. CASE UNCHANGED <<draft, todo>>
      BY <3>3
    <3> QED BY <1>8, <3>1, <3>2, <3>3 DEF BuildOpens
  <2> QED BY <1>8, <2>2 DEF BuildOpens, Building, editorVars, declVars, retryVars, HasPreamble
<1>9. CASE BuildReads
  <2>1. opened.path \in Paths /\ opened.stamp \in Stamps /\ todo # <<>>
    BY <1>9 DEF BuildReads, OpenedInv
  <2>2. PICK s : Records(OfFile(opened.path, opened.stamp, TextOf(s)))
                 /\ s \in {opened.stamp, disk[opened.path].stamp}
    BY <1>9 DEF BuildReads
  <2>3. s \in Nat
    BY <2>1, <2>2 DEF PreambleTypeOK, Stamps
  <2>4. TextOf(s) \in Texts
    BY <2>3 DEF TextOf, Texts
  <2>5. Len(draft') + Len(todo') = Len(draft) + Len(todo)
    BY <2>1, <2>2, <2>4, FilesShape, RecordsOne DEF PreambleTypeOK
  <2> QED BY <1>9, <2>5 DEF BuildReads, Building, editorVars, declVars, retryVars, HasPreamble
<1>10. CASE BuildSucceeds
  BY <1>10 DEF BuildSucceeds, editorVars
<1>11. CASE BuildFails
  BY <1>11 DEF BuildFails, editorVars, declVars
<1>12. CASE Parse
  BY <1>12 DEF Parse, editorVars, buildVars, retryVars
<1>13. CASE Traverse
  BY <1>13 DEF Traverse, editorVars, buildVars, retryVars
<1>14. CASE EditMain
  BY <1>14 DEF EditMain, declVars, buildVars, retryVars
<1>15. ASSUME NEW p \in Paths, EditHeader(p) PROVE BuildInv'
  BY <1>15 DEF EditHeader, declVars, buildVars, retryVars
<1> QED
  BY <1>1, <1>2, <1>3, <1>4, <1>5, <1>6, <1>7, <1>8, <1>9, <1>10, <1>11, <1>12, <1>13,
     <1>14, <1>15 DEF PreambleNext

(* The header that is open. *)

LEMMA OpenedStep == IInv /\ [PreambleNext]_preambleVars => OpenedInv'
<1> SUFFICES ASSUME IInv, [PreambleNext]_preambleVars PROVE OpenedInv'
  OBVIOUS
<1> USE DEF IInv, OpenedInv
<1>1. CASE UNCHANGED preambleVars
  BY <1>1 DEF preambleVars, editorVars, declVars, buildVars, retryVars
<1>2. ASSUME NEW u \in UnsavedBuffers, ReparseWithout(u) PROVE OpenedInv'
  BY <1>2 DEF ReparseWithout, CallStarts, editorVars, declVars, buildVars, retryVars
<1>3. ASSUME NEW u \in UnsavedBuffers, ReparseReuses(u) PROVE OpenedInv'
  BY <1>3 DEF ReparseReuses, CallStarts, editorVars, declVars, buildVars, retryVars
<1>4. ASSUME NEW u \in UnsavedBuffers, ReparseWaits(u) PROVE OpenedInv'
  BY <1>4 DEF ReparseWaits, CallStarts, editorVars, declVars, buildVars
<1>5. ASSUME NEW u \in UnsavedBuffers, ReparseBuilds(u) PROVE OpenedInv'
  BY <1>5 DEF ReparseBuilds, CallStarts, DropPreamble, editorVars, retryVars
<1>6. ASSUME NEW u \in UnsavedBuffers, CompleteReuses(u) PROVE OpenedInv'
  BY <1>6 DEF CompleteReuses, editorVars, declVars, buildVars, retryVars
<1>7. ASSUME NEW u \in UnsavedBuffers, NEW cut \in BOOLEAN, CompleteDrops(u, cut)
      PROVE OpenedInv'
  BY <1>7 DEF CompleteDrops, DropPreamble, editorVars, buildVars
<1>8. CASE BuildOpens
  <2>1. CASE UNCHANGED uPc
    BY <1>8, <2>1 DEF BuildOpens
  <2>2. ASSUME NEW k \in DOMAIN Candidates[Head(todo)],
               NEW p, p = Candidates[Head(todo)][k],
               opened' = [path |-> p, stamp |-> disk[p].stamp], UNCHANGED <<draft, todo>>
        PROVE  OpenedInv'
    <3>1. Head(todo) \in DOMAIN Candidates
      BY <1>8, HeadTailProperties DEF BuildOpens, PreambleTypeOK
    <3>2. p \in Paths
      BY <2>2, <3>1, FirstIsPath
    <3>3. disk[p].stamp \in Stamps /\ disk[p].stamp <= disk[p].stamp
      BY <3>2, PreambleAssumption DEF PreambleTypeOK, Stamps
    <3> QED BY <1>8, <2>2, <3>2, <3>3 DEF BuildOpens, Building, editorVars, declVars, retryVars
  <2> QED BY <1>8, <2>1, <2>2 DEF BuildOpens
<1>9. CASE BuildReads
  BY <1>9 DEF BuildReads, Building, editorVars, declVars, retryVars
<1>10. CASE BuildSucceeds
  BY <1>10 DEF BuildSucceeds, editorVars
<1>11. CASE BuildFails
  BY <1>11 DEF BuildFails, editorVars, declVars
<1>12. CASE Parse
  BY <1>12 DEF Parse, editorVars, buildVars, retryVars
<1>13. CASE Traverse
  BY <1>13 DEF Traverse, editorVars, buildVars, retryVars
<1>14. CASE EditMain
  BY <1>14 DEF EditMain, declVars, buildVars, retryVars
<1>15. ASSUME NEW p \in Paths, EditHeader(p) PROVE OpenedInv'
  <2>1. ASSUME NEW q \in Paths
        PROVE  disk[q].stamp \in Nat /\ disk[q].stamp <= disk'[q].stamp
    BY <1>15, StampsGrow
  <2>2. disk'[opened.path].stamp \in Nat \/ opened.path \notin Paths
    BY TypeStep DEF PreambleTypeOK, Stamps
  <2> QED BY <1>15, <2>1, <2>2 DEF EditHeader, declVars, buildVars, retryVars, Stamps
<1> QED
  BY <1>1, <1>2, <1>3, <1>4, <1>5, <1>6, <1>7, <1>8, <1>9, <1>10, <1>11, <1>12, <1>13,
     <1>14, <1>15 DEF PreambleNext

(* The parse to come. *)

LEMMA ReadyStep == IInv /\ [PreambleNext]_preambleVars => ReadyInv'
<1> SUFFICES ASSUME IInv, [PreambleNext]_preambleVars PROVE ReadyInv'
  OBVIOUS
<1> USE DEF IInv, ReadyInv
<1>1. CASE UNCHANGED preambleVars
  BY <1>1 DEF preambleVars, editorVars, declVars, buildVars, retryVars
<1>2. ASSUME NEW u \in UnsavedBuffers, ReparseWithout(u) PROVE ReadyInv'
  BY <1>2 DEF ReparseWithout, CallStarts, editorVars, declVars, buildVars, retryVars
<1>3. ASSUME NEW u \in UnsavedBuffers, ReparseReuses(u) PROVE ReadyInv'
  <2>1. mainText \in MainTexts
    BY DEF PreambleTypeOK
  <2> QED BY <1>3, <2>1 DEF ReparseReuses, CallStarts, editorVars, declVars, buildVars, retryVars, HasPreamble
<1>4. ASSUME NEW u \in UnsavedBuffers, ReparseWaits(u) PROVE ReadyInv'
  BY <1>4 DEF ReparseWaits, CallStarts, editorVars, declVars, buildVars
<1>5. ASSUME NEW u \in UnsavedBuffers, ReparseBuilds(u) PROVE ReadyInv'
  BY <1>5 DEF ReparseBuilds, CallStarts, DropPreamble, editorVars, retryVars
<1>6. ASSUME NEW u \in UnsavedBuffers, CompleteReuses(u) PROVE ReadyInv'
  BY <1>6 DEF CompleteReuses, editorVars, declVars, buildVars, retryVars
<1>7. ASSUME NEW u \in UnsavedBuffers, NEW cut \in BOOLEAN, CompleteDrops(u, cut)
      PROVE ReadyInv'
  BY <1>7 DEF CompleteDrops, DropPreamble, editorVars, buildVars
<1>8. CASE BuildOpens
  BY <1>8 DEF BuildOpens, Building, editorVars, declVars, retryVars
<1>9. CASE BuildReads
  BY <1>9 DEF BuildReads, Building, editorVars, declVars, retryVars
<1>10. CASE BuildSucceeds
  <2>1. mainBuffer \in MainTexts /\ HasPreamble(mainBuffer)
    BY <1>10 DEF BuildSucceeds, BuildInv
  <2> QED BY <1>10, <2>1, BuiltIsNotNone DEF BuildSucceeds, HasPreamble
<1>11. CASE BuildFails
  BY <1>11 DEF BuildFails, editorVars, declVars
<1>12. CASE Parse
  BY <1>12 DEF Parse, editorVars, buildVars, retryVars
<1>13. CASE Traverse
  BY <1>13 DEF Traverse, editorVars, buildVars, retryVars
<1>14. CASE EditMain
  BY <1>14 DEF EditMain, declVars, buildVars, retryVars
<1>15. ASSUME NEW p \in Paths, EditHeader(p) PROVE ReadyInv'
  BY <1>15 DEF EditHeader, declVars, buildVars, retryVars
<1> QED
  BY <1>1, <1>2, <1>3, <1>4, <1>5, <1>6, <1>7, <1>8, <1>9, <1>10, <1>11, <1>12, <1>13,
     <1>14, <1>15 DEF PreambleNext

(* The diagnostics of the preamble. *)

LEMMA DiagsStep == IInv /\ [PreambleNext]_preambleVars => DiagsInv'
<1> SUFFICES ASSUME IInv, [PreambleNext]_preambleVars PROVE DiagsInv'
  OBVIOUS
<1> USE DEF IInv, DiagsInv
<1>1. CASE UNCHANGED preambleVars
  BY <1>1 DEF preambleVars, editorVars, declVars, buildVars, retryVars
<1>2. ASSUME NEW u \in UnsavedBuffers, ReparseWithout(u) PROVE DiagsInv'
  BY <1>2 DEF ReparseWithout, CallStarts, editorVars, declVars, buildVars, retryVars
<1>3. ASSUME NEW u \in UnsavedBuffers, ReparseReuses(u) PROVE DiagsInv'
  BY <1>3 DEF ReparseReuses, CallStarts, editorVars, declVars, buildVars, retryVars
<1>4. ASSUME NEW u \in UnsavedBuffers, ReparseWaits(u) PROVE DiagsInv'
  BY <1>4 DEF ReparseWaits, CallStarts, editorVars, declVars, buildVars
<1>5. ASSUME NEW u \in UnsavedBuffers, ReparseBuilds(u) PROVE DiagsInv'
  BY <1>5 DEF ReparseBuilds, CallStarts, DropPreamble, editorVars, retryVars
<1>6. ASSUME NEW u \in UnsavedBuffers, CompleteReuses(u) PROVE DiagsInv'
  BY <1>6 DEF CompleteReuses, editorVars, declVars, buildVars, retryVars
<1>7. ASSUME NEW u \in UnsavedBuffers, NEW cut \in BOOLEAN, CompleteDrops(u, cut)
      PROVE DiagsInv'
  BY <1>7 DEF CompleteDrops, DropPreamble, editorVars, buildVars
<1>8. CASE BuildOpens
  BY <1>8 DEF BuildOpens, Building, editorVars, declVars, retryVars
<1>9. CASE BuildReads
  BY <1>9 DEF BuildReads, Building, editorVars, declVars, retryVars
<1>10. CASE BuildSucceeds
  <2>1. mainBuffer \in MainTexts
    BY <1>10 DEF BuildSucceeds, BuildInv
  <2> QED BY <1>10, <2>1, BuiltIsNotNone DEF BuildSucceeds
<1>11. CASE BuildFails
  BY <1>11 DEF BuildFails, editorVars, declVars
<1>12. CASE Parse
  BY <1>12 DEF Parse, editorVars, buildVars, retryVars
<1>13. CASE Traverse
  BY <1>13 DEF Traverse, editorVars, buildVars, retryVars
<1>14. CASE EditMain
  BY <1>14 DEF EditMain, declVars, buildVars, retryVars
<1>15. ASSUME NEW p \in Paths, EditHeader(p) PROVE DiagsInv'
  BY <1>15 DEF EditHeader, declVars, buildVars, retryVars
<1> QED
  BY <1>1, <1>2, <1>3, <1>4, <1>5, <1>6, <1>7, <1>8, <1>9, <1>10, <1>11, <1>12, <1>13,
     <1>14, <1>15 DEF PreambleNext

(* The countdown. *)

LEMMA RetryStep == IInv /\ [PreambleNext]_preambleVars => CountdownInv'
<1> SUFFICES ASSUME IInv, [PreambleNext]_preambleVars PROVE CountdownInv'
  OBVIOUS
<1> USE DEF IInv, CountdownInv, DefaultPreambleRebuildInterval
<1>1. CASE UNCHANGED preambleVars
  BY <1>1 DEF preambleVars, editorVars, declVars, buildVars, retryVars
<1>2. ASSUME NEW u \in UnsavedBuffers, ReparseWithout(u) PROVE CountdownInv'
  BY <1>2 DEF ReparseWithout, CallStarts, editorVars, declVars, buildVars, retryVars
<1>3. ASSUME NEW u \in UnsavedBuffers, ReparseReuses(u) PROVE CountdownInv'
  BY <1>3 DEF ReparseReuses, CallStarts, editorVars, declVars, buildVars, retryVars
<1>4. ASSUME NEW u \in UnsavedBuffers, ReparseWaits(u) PROVE CountdownInv'
  <2>1. countdown \in Nat /\ skipped \in Nat
    BY DEF PreambleTypeOK
  <2> QED BY <1>4, <2>1 DEF ReparseWaits, CallStarts, editorVars, declVars, buildVars
<1>5. ASSUME NEW u \in UnsavedBuffers, ReparseBuilds(u) PROVE CountdownInv'
  BY <1>5 DEF ReparseBuilds, CallStarts, DropPreamble, editorVars, retryVars
<1>6. ASSUME NEW u \in UnsavedBuffers, CompleteReuses(u) PROVE CountdownInv'
  BY <1>6 DEF CompleteReuses, editorVars, declVars, buildVars, retryVars
<1>7. ASSUME NEW u \in UnsavedBuffers, NEW cut \in BOOLEAN, CompleteDrops(u, cut)
      PROVE CountdownInv'
  BY <1>7 DEF CompleteDrops, DropPreamble, editorVars, buildVars
<1>8. CASE BuildOpens
  BY <1>8 DEF BuildOpens, Building, editorVars, declVars, retryVars
<1>9. CASE BuildReads
  BY <1>9 DEF BuildReads, Building, editorVars, declVars, retryVars
<1>10. CASE BuildSucceeds
  <2>1. mainBuffer \in MainTexts
    BY <1>10 DEF BuildSucceeds, BuildInv
  <2> QED BY <1>10, <2>1, BuiltIsNotNone DEF BuildSucceeds
<1>11. CASE BuildFails
  <2>1. preamble = None
    BY <1>11 DEF BuildFails, BuildInv
  <2> QED BY <1>11, <2>1 DEF BuildFails, editorVars, declVars
<1>12. CASE Parse
  BY <1>12 DEF Parse, editorVars, buildVars, retryVars
<1>13. CASE Traverse
  BY <1>13 DEF Traverse, editorVars, buildVars, retryVars
<1>14. CASE EditMain
  BY <1>14 DEF EditMain, declVars, buildVars, retryVars
<1>15. ASSUME NEW p \in Paths, EditHeader(p) PROVE CountdownInv'
  BY <1>15 DEF EditHeader, declVars, buildVars, retryVars
<1> QED
  BY <1>1, <1>2, <1>3, <1>4, <1>5, <1>6, <1>7, <1>8, <1>9, <1>10, <1>11, <1>12, <1>13,
     <1>14, <1>15 DEF PreambleNext

(* The declarations. *)

LEMMA RealizeStep == IInv /\ [PreambleNext]_preambleVars => RealizeFindsPreamble'
<1> SUFFICES ASSUME IInv, [PreambleNext]_preambleVars PROVE RealizeFindsPreamble'
  OBVIOUS
<1> USE DEF IInv, RealizeFindsPreamble
<1>1. CASE UNCHANGED preambleVars
  BY <1>1 DEF preambleVars, editorVars, declVars, buildVars, retryVars
<1>2. ASSUME NEW u \in UnsavedBuffers, ReparseWithout(u) PROVE RealizeFindsPreamble'
  BY <1>2 DEF ReparseWithout, CallStarts, editorVars, declVars, buildVars, retryVars
<1>3. ASSUME NEW u \in UnsavedBuffers, ReparseReuses(u) PROVE RealizeFindsPreamble'
  BY <1>3 DEF ReparseReuses, CallStarts, editorVars, declVars, buildVars, retryVars
<1>4. ASSUME NEW u \in UnsavedBuffers, ReparseWaits(u) PROVE RealizeFindsPreamble'
  BY <1>4 DEF ReparseWaits, CallStarts, editorVars, declVars, buildVars
<1>5. ASSUME NEW u \in UnsavedBuffers, ReparseBuilds(u) PROVE RealizeFindsPreamble'
  BY <1>5 DEF ReparseBuilds, CallStarts, DropPreamble, editorVars, retryVars
<1>6. ASSUME NEW u \in UnsavedBuffers, CompleteReuses(u) PROVE RealizeFindsPreamble'
  BY <1>6 DEF CompleteReuses, editorVars, declVars, buildVars, retryVars
<1>7. ASSUME NEW u \in UnsavedBuffers, NEW cut \in BOOLEAN, CompleteDrops(u, cut)
      PROVE RealizeFindsPreamble'
  BY <1>7 DEF CompleteDrops, DropPreamble, editorVars, buildVars
<1>8. CASE BuildOpens
  BY <1>8 DEF BuildOpens, Building, editorVars, declVars, retryVars
<1>9. CASE BuildReads
  BY <1>9 DEF BuildReads, Building, editorVars, declVars, retryVars
<1>10. CASE BuildSucceeds
  BY <1>10 DEF BuildSucceeds, editorVars
<1>11. CASE BuildFails
  BY <1>11 DEF BuildFails, editorVars, declVars
<1>12. CASE Parse
  <2>1. CASE overridden
    <3>1. preamble # None
      BY <1>12, <2>1 DEF Parse, ReadyInv
    <3> QED BY <1>12, <2>1, <3>1 DEF Parse
  <2>2. CASE ~overridden
    BY <1>12, <2>2 DEF Parse
  <2> QED BY <2>1, <2>2
<1>13. CASE Traverse
  BY <1>13 DEF Traverse, editorVars, buildVars, retryVars
<1>14. CASE EditMain
  BY <1>14 DEF EditMain, declVars, buildVars, retryVars
<1>15. ASSUME NEW p \in Paths, EditHeader(p) PROVE RealizeFindsPreamble'
  BY <1>15 DEF EditHeader, declVars, buildVars, retryVars
<1> QED
  BY <1>1, <1>2, <1>3, <1>4, <1>5, <1>6, <1>7, <1>8, <1>9, <1>10, <1>11, <1>12, <1>13,
     <1>14, <1>15 DEF PreambleNext

(* The diagnostics of a parse. *)

LEMMA DiagnosticsStep == IInv /\ [PreambleNext]_preambleVars => DiagnosticsComplete'
<1> SUFFICES ASSUME IInv, [PreambleNext]_preambleVars PROVE DiagnosticsComplete'
  OBVIOUS
<1> USE DEF IInv, DiagnosticsComplete
<1>1. CASE UNCHANGED preambleVars
  BY <1>1 DEF preambleVars, editorVars, declVars, buildVars, retryVars
<1>2. ASSUME NEW u \in UnsavedBuffers, ReparseWithout(u) PROVE DiagnosticsComplete'
  BY <1>2 DEF ReparseWithout, CallStarts, editorVars, declVars, buildVars, retryVars
<1>3. ASSUME NEW u \in UnsavedBuffers, ReparseReuses(u) PROVE DiagnosticsComplete'
  BY <1>3 DEF ReparseReuses, CallStarts, editorVars, declVars, buildVars, retryVars
<1>4. ASSUME NEW u \in UnsavedBuffers, ReparseWaits(u) PROVE DiagnosticsComplete'
  BY <1>4 DEF ReparseWaits, CallStarts, editorVars, declVars, buildVars
<1>5. ASSUME NEW u \in UnsavedBuffers, ReparseBuilds(u) PROVE DiagnosticsComplete'
  BY <1>5 DEF ReparseBuilds, CallStarts, DropPreamble, editorVars, retryVars
<1>6. ASSUME NEW u \in UnsavedBuffers, CompleteReuses(u) PROVE DiagnosticsComplete'
  BY <1>6 DEF CompleteReuses, editorVars, declVars, buildVars, retryVars
<1>7. ASSUME NEW u \in UnsavedBuffers, NEW cut \in BOOLEAN, CompleteDrops(u, cut)
      PROVE DiagnosticsComplete'
  BY <1>7 DEF CompleteDrops, DropPreamble, editorVars, buildVars
<1>8. CASE BuildOpens
  BY <1>8 DEF BuildOpens, Building, editorVars, declVars, retryVars
<1>9. CASE BuildReads
  BY <1>9 DEF BuildReads, Building, editorVars, declVars, retryVars
<1>10. CASE BuildSucceeds
  BY <1>10 DEF BuildSucceeds, editorVars
<1>11. CASE BuildFails
  BY <1>11 DEF BuildFails, editorVars, declVars
<1>12. CASE Parse
  <2>1. CASE overridden
    <3>1. preambleDiags /\ HasPreamble(mainBuffer)
      BY <1>12, <2>1 DEF Parse, ReadyInv, DiagsInv
    <3>2. parsed'.text = mainBuffer /\ storedDiags' = {"rest"} \cup {"preamble"}
      BY <1>12, <2>1, <3>1 DEF Parse
    <3> QED BY <3>1, <3>2 DEF PartsOf, Parts, HasPreamble
  <2>2. CASE ~overridden
    BY <1>12, <2>2 DEF Parse, PartsOf, HasPreamble
  <2> QED BY <2>1, <2>2
<1>13. CASE Traverse
  BY <1>13 DEF Traverse, editorVars, buildVars, retryVars
<1>14. CASE EditMain
  BY <1>14 DEF EditMain, declVars, buildVars, retryVars
<1>15. ASSUME NEW p \in Paths, EditHeader(p) PROVE DiagnosticsComplete'
  BY <1>15 DEF EditHeader, declVars, buildVars, retryVars
<1> QED
  BY <1>1, <1>2, <1>3, <1>4, <1>5, <1>6, <1>7, <1>8, <1>9, <1>10, <1>11, <1>12, <1>13,
     <1>14, <1>15 DEF PreambleNext

-----------------------------------------------------------------------------
(* What the recorded hashes tell. *)

LEMMA TellsOthers ==
  /\ Tells(NotFound)
  /\ \A p \in Paths, t \in Texts : Tells(OfBuffer(p, t))
BY DEF Tells, NotFound, OfBuffer

\* Of a file that was edited since it was hashed, the hash tells nothing any more.
LEMMA TellsAfterEdit ==
  ASSUME PreambleTypeOK, NEW p \in Paths, EditHeader(p), NEW f \in Files, Tells(f)
  PROVE  Tells(f)'
<1> SUFFICES ASSUME f.hash = "file"
             PROVE  /\ f.stamp <= disk'[f.path].stamp
                    /\ f.stamp = disk'[f.path].stamp => f.text = TextOf(f.stamp)
  BY DEF Tells
<1>1. f.path \in Paths /\ f.stamp \in Nat
  BY FilesCases, PreambleAssumption DEF Stamps
<1>2. /\ disk[f.path].stamp \in Nat /\ disk'[f.path].stamp \in Nat
      /\ disk[f.path].stamp <= disk'[f.path].stamp
  BY <1>1, StampsGrow
<1>3. f.stamp <= disk[f.path].stamp
      /\ (f.stamp = disk[f.path].stamp => f.text = TextOf(f.stamp))
  BY DEF Tells
<1> QED BY <1>1, <1>2, <1>3

DraftTells == \A i \in DOMAIN draft : Tells(draft[i])
PreambleTells == \A i \in DOMAIN preamble.files : Tells(preamble.files[i])

(* The records of a build. *)

LEMMA DraftTellsStep == IInv /\ [PreambleNext]_preambleVars => DraftTells'
<1> SUFFICES ASSUME IInv, [PreambleNext]_preambleVars PROVE DraftTells'
  OBVIOUS
<1> USE DEF IInv, HashesTell, DraftTells, Tells
<1>1. CASE UNCHANGED preambleVars
  BY <1>1 DEF preambleVars, editorVars, declVars, buildVars, retryVars
<1>2. ASSUME NEW u \in UnsavedBuffers, ReparseWithout(u) PROVE DraftTells'
  BY <1>2 DEF ReparseWithout, CallStarts, editorVars, declVars, buildVars, retryVars
<1>3. ASSUME NEW u \in UnsavedBuffers, ReparseReuses(u) PROVE DraftTells'
  BY <1>3 DEF ReparseReuses, CallStarts, editorVars, declVars, buildVars, retryVars
<1>4. ASSUME NEW u \in UnsavedBuffers, ReparseWaits(u) PROVE DraftTells'
  BY <1>4 DEF ReparseWaits, CallStarts, editorVars, declVars, buildVars
<1>5. ASSUME NEW u \in UnsavedBuffers, ReparseBuilds(u) PROVE DraftTells'
  BY <1>5 DEF ReparseBuilds
<1>6. ASSUME NEW u \in UnsavedBuffers, CompleteReuses(u) PROVE DraftTells'
  BY <1>6 DEF CompleteReuses, editorVars, declVars, buildVars, retryVars
<1>7. ASSUME NEW u \in UnsavedBuffers, NEW cut \in BOOLEAN, CompleteDrops(u, cut)
      PROVE DraftTells'
  BY <1>7 DEF CompleteDrops, DropPreamble, editorVars, buildVars
<1>8. CASE BuildOpens
  <2>0. UNCHANGED disk /\ todo # <<>>
    BY <1>8 DEF BuildOpens, Building, editorVars
  <2>1. ASSUME NEW f \in Files, Records(f), Tells(f)
        PROVE  DraftTells'
    BY <2>0, <2>1, RecordsOne DEF PreambleTypeOK
  <2>2. CASE Records(NotFound)
    BY <2>1, <2>2, FilesShape, TellsOthers
  <2>3. ASSUME NEW k \in DOMAIN Candidates[Head(todo)],
               NEW p, p = Candidates[Head(todo)][k],
               unsaved[p] # Absent, Records(OfBuffer(p, unsaved[p]))
        PROVE  DraftTells'
    <3>1. Head(todo) \in DOMAIN Candidates
      BY <2>0, HeadTailProperties DEF PreambleTypeOK
    <3>2. p \in Paths
      BY <2>3, <3>1, FirstIsPath
    <3>3. unsaved[p] \in Texts
      BY <2>3, <3>2 DEF PreambleTypeOK, UnsavedBuffers, Buffers
    <3> HIDE DEF DraftTells, Tells
    <3> QED BY <2>1, <2>3, <3>2, <3>3, FilesShape, TellsOthers
  <2>4. CASE UNCHANGED <<draft, todo>>
    BY <2>0, <2>4
  <2> HIDE DEF DraftTells
  <2> QED BY <1>8, <2>2, <2>3, <2>4 DEF BuildOpens
<1>9. CASE BuildReads
  <2>0. UNCHANGED disk
    BY <1>9 DEF BuildReads, Building, editorVars
  <2>1. /\ opened.path \in Paths /\ opened.stamp \in Stamps /\ todo # <<>>
        /\ opened.stamp <= disk[opened.path].stamp
    BY <1>9 DEF BuildReads, OpenedInv
  <2>2. PICK s : Records(OfFile(opened.path, opened.stamp, TextOf(s)))
                 /\ s \in {opened.stamp, disk[opened.path].stamp}
    BY <1>9 DEF BuildReads
  <2> DEFINE f == OfFile(opened.path, opened.stamp, TextOf(s))
  <2>3. s \in Nat
    BY <2>1, <2>2 DEF PreambleTypeOK, Stamps
  <2>4. TextOf(s) \in Texts
    BY <2>3 DEF TextOf, Texts
  <2>5. f \in Files
    BY <2>1, <2>4, FilesShape
  <2>6. Tells(f)
    BY <2>1, <2>2 DEF OfFile
  <2>7. Records(f)
    BY <2>2
  <2> HIDE DEF f
  <2> QED BY <2>0, <2>1, <2>5, <2>6, <2>7, RecordsOne DEF PreambleTypeOK
<1>10. CASE BuildSucceeds
  BY <1>10 DEF BuildSucceeds
<1>11. CASE BuildFails
  BY <1>11 DEF BuildFails
<1>12. CASE Parse
  BY <1>12 DEF Parse, editorVars, buildVars, retryVars
<1>13. CASE Traverse
  BY <1>13 DEF Traverse, editorVars, buildVars, retryVars
<1>14. CASE EditMain
  BY <1>14 DEF EditMain, declVars, buildVars, retryVars
<1>15. ASSUME NEW p \in Paths, EditHeader(p) PROVE DraftTells'
  <2>1. draft' = draft
    BY <1>15 DEF EditHeader, buildVars
  <2>2. ASSUME NEW i \in DOMAIN draft PROVE Tells(draft[i])'
    <3>1. draft[i] \in Files
      BY ElementOfSeq, LenProperties DEF PreambleTypeOK
    <3>2. Tells(draft[i])
      OBVIOUS
    <3> HIDE DEF Tells
    <3>3. \A f \in Files : Tells(f) => Tells(f)'
      BY <1>15, TellsAfterEdit
    <3> QED BY <2>1, <3>1, <3>2, <3>3
  <2> HIDE DEF Tells
  <2> QED BY <2>1, <2>2
<1> QED
  BY <1>1, <1>2, <1>3, <1>4, <1>5, <1>6, <1>7, <1>8, <1>9, <1>10, <1>11, <1>12, <1>13,
     <1>14, <1>15 DEF PreambleNext

(* The files of the preamble. *)

LEMMA PreambleTellsStep == IInv /\ [PreambleNext]_preambleVars => PreambleTells'
<1> SUFFICES ASSUME IInv, [PreambleNext]_preambleVars PROVE PreambleTells'
  OBVIOUS
<1> USE DEF IInv, HashesTell, PreambleTells, Tells
<1>1. CASE UNCHANGED preambleVars
  BY <1>1 DEF preambleVars, editorVars, declVars, buildVars, retryVars
<1>2. ASSUME NEW u \in UnsavedBuffers, ReparseWithout(u) PROVE PreambleTells'
  BY <1>2 DEF ReparseWithout, CallStarts, editorVars, declVars, buildVars, retryVars
<1>3. ASSUME NEW u \in UnsavedBuffers, ReparseReuses(u) PROVE PreambleTells'
  BY <1>3 DEF ReparseReuses, CallStarts, editorVars, declVars, buildVars, retryVars
<1>4. ASSUME NEW u \in UnsavedBuffers, ReparseWaits(u) PROVE PreambleTells'
  BY <1>4 DEF ReparseWaits, CallStarts, editorVars, declVars, buildVars
<1>5. ASSUME NEW u \in UnsavedBuffers, ReparseBuilds(u) PROVE PreambleTells'
  <2>1. preamble' = None
    BY <1>5 DEF ReparseBuilds, DropPreamble
  <2> QED BY <2>1 DEF None
<1>6. ASSUME NEW u \in UnsavedBuffers, CompleteReuses(u) PROVE PreambleTells'
  BY <1>6 DEF CompleteReuses, editorVars, declVars, buildVars, retryVars
<1>7. ASSUME NEW u \in UnsavedBuffers, NEW cut \in BOOLEAN, CompleteDrops(u, cut)
      PROVE PreambleTells'
  <2>1. preamble' = None
    BY <1>7 DEF CompleteDrops, DropPreamble
  <2> QED BY <2>1 DEF None
<1>8. CASE BuildOpens
  BY <1>8 DEF BuildOpens, Building, editorVars, declVars, retryVars
<1>9. CASE BuildReads
  BY <1>9 DEF BuildReads, Building, editorVars, declVars, retryVars
<1>10. CASE BuildSucceeds
  BY <1>10 DEF BuildSucceeds, editorVars
<1>11. CASE BuildFails
  BY <1>11 DEF BuildFails, editorVars, declVars
<1>12. CASE Parse
  BY <1>12 DEF Parse, editorVars, buildVars, retryVars
<1>13. CASE Traverse
  BY <1>13 DEF Traverse, editorVars, buildVars, retryVars
<1>14. CASE EditMain
  BY <1>14 DEF EditMain, declVars, buildVars, retryVars
<1>15. ASSUME NEW p \in Paths, EditHeader(p) PROVE PreambleTells'
  <2>1. preamble' = preamble
    BY <1>15 DEF EditHeader
  <2>2. ASSUME NEW i \in DOMAIN preamble.files PROVE Tells(preamble.files[i])'
    <3>1. preamble.files[i] \in Files
      <4>1. preamble.files \in Seq(Files)
        <5>1. CASE preamble = None
          BY <5>1 DEF None
        <5> QED BY <5>1 DEF PreambleTypeOK
      <4> QED BY <4>1, ElementOfSeq, LenProperties
    <3>2. Tells(preamble.files[i])
      OBVIOUS
    <3> HIDE DEF Tells
    <3>3. \A f \in Files : Tells(f) => Tells(f)'
      BY <1>15, TellsAfterEdit
    <3> QED BY <2>1, <3>1, <3>2, <3>3
  <2> HIDE DEF Tells
  <2> QED BY <2>1, <2>2
<1> QED
  BY <1>1, <1>2, <1>3, <1>4, <1>5, <1>6, <1>7, <1>8, <1>9, <1>10, <1>11, <1>12, <1>13,
     <1>14, <1>15 DEF PreambleNext

-----------------------------------------------------------------------------
(* The theorems. *)

LEMMA StepInv == IInv /\ [PreambleNext]_preambleVars => IInv'
<1> SUFFICES ASSUME IInv, [PreambleNext]_preambleVars PROVE IInv'
  OBVIOUS
<1>1. HashesTell'
  BY DraftTellsStep, PreambleTellsStep DEF HashesTell, DraftTells, PreambleTells
<1> QED
  BY <1>1, TypeStep, BuildStep, OpenedStep, ReadyStep, DiagsStep, RetryStep, RealizeStep,
     DiagnosticsStep DEF IInv

\* What every other theorem rests on: builds and parses are given what they need, and a
\* recorded hash tells the text that was read as long as the file has that stamp.
THEOREM PreambleInductive == PreambleSpec => []IInv
BY InitInv, StepInv, PTL DEF PreambleSpec

\* Every variable has its type; a preamble has one record for each of its includes.
THEOREM PreambleTypeCorrect == PreambleSpec => []PreambleTypeOK
<1>1. IInv => PreambleTypeOK
  BY DEF IInv
<1> QED BY <1>1, PreambleInductive, PTL

\* RealizeTopLevelDeclsFromPreamble finds the preamble that its declaration IDs are of.
THEOREM RealizeAssertHolds == PreambleSpec => []RealizeFindsPreamble
<1>1. IInv => RealizeFindsPreamble
  BY DEF IInv
<1> QED BY <1>1, PreambleInductive, PTL

\* After every parse StoredDiagnostics are those of the whole main file.
THEOREM DiagnosticsKept == PreambleSpec => []DiagnosticsComplete
<1>1. IInv => DiagnosticsComplete
  BY DEF IInv
<1> QED BY <1>1, PreambleInductive, PTL

\* CanReuse compares stamps and unsaved buffers only: that is enough for every header
\* that was read to read the same.
LEMMA ReusableIsCurrent ==
  ASSUME IInv, NEW u \in UnsavedBuffers, preamble # None, CanReuse(mainText, u)
  PROVE  IsCurrent(u)
<1>1. preamble.text = mainText /\ preamble.files \in Seq(Files)
  BY DEF CanReuse, IInv, PreambleTypeOK
<1>2. ASSUME NEW i \in DOMAIN preamble.files,
             NEW f, f = preamble.files[i], f # NotFound
      PROVE  /\ Exists(f.path, u)
             /\ f.text = IF u[f.path] # Absent THEN u[f.path] ELSE TextOf(disk[f.path].stamp)
  <2>1. Tells(f) /\ SameHash(f, u)
    BY <1>2 DEF IInv, HashesTell, CanReuse
  <2>2. CASE u[f.path] # Absent
    BY <2>1, <2>2 DEF SameHash, Exists
  <2>3. CASE u[f.path] = Absent
    <3>1. f.hash = "file" /\ disk[f.path].there /\ disk[f.path].stamp = f.stamp
      BY <2>1, <2>3 DEF SameHash
    <3>2. f.text = TextOf(f.stamp)
      BY <2>1, <3>1 DEF Tells
    <3> QED BY <2>3, <3>1, <3>2 DEF Exists
  <2> QED BY <2>2, <2>3
<1>3. ASSUME NEW i \in DOMAIN preamble.files, preamble.files[i] = NotFound
      PROVE  NotThere(Includes[mainText][i], u)
  BY <1>3 DEF CanReuse
<1> QED BY <1>1, <1>2, <1>3 DEF IsCurrent

\* A preamble is used again only if its headers read the same now, whatever was edited,
\* overridden, saved, created or removed since it was built, and while it was.
THEOREM ReusedIsCurrent == PreambleSpec => PreambleIsCurrent
<1> DEFINE Current == \A u \in UnsavedBuffers :
                        ReparseReuses(u) \/ CompleteReuses(u) => IsCurrent(u)
<1>1. IInv => Current
  BY ReusableIsCurrent DEF ReparseReuses, CompleteReuses
<1>2. IInv /\ [PreambleNext]_preambleVars => [Current]_preambleVars
  BY <1>1
<1> HIDE DEF Current
<1>3. PreambleSpec => [][Current]_preambleVars
  BY <1>2, PreambleInductive, PTL DEF PreambleSpec
<1> QED BY <1>3 DEF PreambleIsCurrent, Current

\* A reparse attempts a build if and only if IsDue says so.
LEMMA AttemptIsDue ==
  ASSUME IInv, PreambleNext, preamble = None, lastFailure # "never"
  PROVE  (AttemptsBuild => IsDue) /\ (GoesWithout => ~IsDue)
<1>1. /\ lastFailure \in {"none", "temp", "other"} /\ countdown \in Nat /\ skipped \in Nat
      /\ countdown = 1 => IsDue
      /\ countdown # 1 => ~IsDue
      /\ countdown >= 1
  BY DEF IInv, PreambleTypeOK, CountdownInv, IsDue, DefaultPreambleRebuildInterval
<1>2. AttemptsBuild => countdown = 1
  <2> SUFFICES ASSUME uPc = "idle", uPc' = "open" PROVE countdown = 1
    BY DEF AttemptsBuild
  <2>1. PICK u \in UnsavedBuffers : ReparseBuilds(u)
    BY DEF PreambleNext, ReparseWithout, ReparseReuses, ReparseWaits, CompleteReuses,
           CompleteDrops, BuildOpens, BuildReads, BuildSucceeds, BuildFails, Parse, Traverse,
           EditMain, EditHeader
  <2> QED BY <2>1 DEF ReparseBuilds
<1>3. GoesWithout => countdown # 1
  <2> SUFFICES ASSUME uPc = "idle", uPc' = "parse", ~overridden', HasPreamble(mainText)
      PROVE  countdown # 1
    BY DEF GoesWithout
  <2>1. PICK u \in UnsavedBuffers : ReparseWithout(u) \/ ReparseWaits(u)
    BY DEF PreambleNext, ReparseReuses, ReparseBuilds, CompleteReuses, CompleteDrops,
           BuildOpens, BuildReads, BuildSucceeds, BuildFails, Parse, Traverse, EditMain,
           EditHeader
  <2> QED BY <1>1, <2>1 DEF ReparseWithout, ReparseWaits, TriesPreamble
<1> QED BY <1>1, <1>2, <1>3

\* After a failure, builds are attempted when they are due and at no other reparse,
\* whatever reparses, completions and drops come between.
THEOREM RetriesKept == PreambleSpec => RetriesOnSchedule
<1> DEFINE OnSchedule == preamble = None /\ lastFailure # "never" =>
                           (AttemptsBuild => IsDue) /\ (GoesWithout => ~IsDue)
<1>1. IInv /\ [PreambleNext]_preambleVars => [OnSchedule]_preambleVars
  BY AttemptIsDue
<1> HIDE DEF OnSchedule
<1>2. PreambleSpec => [][OnSchedule]_preambleVars
  BY <1>1, PreambleInductive, PTL DEF PreambleSpec
<1> QED BY <1>2 DEF RetriesOnSchedule, OnSchedule

=============================================================================
