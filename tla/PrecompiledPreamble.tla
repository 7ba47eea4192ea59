------------------------ MODULE PrecompiledPreamble ------------------------
(***************************************************************************)
(* An ASTUnit and its PrecompiledPreamble.  An editor asks for reparses of  *)
(* one main file and for code completions in it, with unsaved buffers; the  *)
(* includes at the top of the main file (its preamble) are compiled once    *)
(* and used again while nothing they were built from has changed.  Headers  *)
(* and the main file are edited at any moment, during builds too.           *)
(*                                                                          *)
(*   ASTUnit              Reparse, CodeComplete, Parse, top_level_begin,    *)
(*                        getMainBufferWithPrecompiledPreamble              *)
(*   PrecompiledPreamble  Build, CanReuse                                   *)
(* External: the file system and the editor.                                *)
(***************************************************************************)
EXTENDS Naturals, Sequences, FiniteSets

CONSTANTS
  Paths,          \* where headers may be
  Absent,         \* no such file, no unsaved buffer
  MaxStamp,       \* bound: a file's (size, time of modification) is in 0..MaxStamp
  MainTexts,      \* what the main file may contain
  Includes,       \* Includes[t]: the headers t's preamble includes; none: no preamble
  Candidates,     \* Candidates[h]: the paths at which header h is looked for, in order
  FirstCountdowns \* PrecompilePreambleAfterNParses may be any of these

\* The size and the time of modification of a file: each write gives it another, later
\* one, and they tell what is in it (it may be what was there before).
Stamps == 0..MaxStamp
Texts == {0, 1}
TextOf(s) == s % 2

ASSUME PreambleAssumption ==
  /\ MaxStamp \in Nat /\ Absent \notin Nat \cup MainTexts
  /\ \A t \in MainTexts : Includes[t] \in Seq(DOMAIN Candidates)
  /\ \A h \in DOMAIN Candidates : Candidates[h] \in Seq(Paths)
  /\ FirstCountdowns \subseteq Nat

VARIABLES
  \* The editor's side.
  disk,           \* each path's file, if it is there
  mainText,       \* the main file
  \* The ASTUnit.
  preamble,       \* Preamble
  countdown,      \* PreambleRebuildCountdown
  declIDs,        \* TopLevelDeclsInPreamble is not empty
  topLevelDecls,  \* TopLevelDecls: those of the preamble, those of the rest
  preambleDiags,  \* PreambleDiagnostics is what building Preamble reported
  storedDiags,    \* StoredDiagnostics: those of the preamble, those of the rest
  parsed,         \* the text the AST is of, and the preamble it was parsed with
  \* The call in progress.
  uPc,
  unsaved,        \* RemappedFileBuffers: the text of each path, or Absent
  mainBuffer,     \* MainFileBuffer
  overridden,     \* OverrideMainBuffer is not null
  todo, opened, draft,   \* Build: includes to come, the header open, what was found
  \* For RetriesOnSchedule only.
  lastFailure,    \* how the last attempt to build a preamble failed, if it did
  skipped         \* reparses since then that did without a preamble for that

editorVars == <<disk, mainText>>
declVars   == <<declIDs, topLevelDecls, preambleDiags, storedDiags, parsed>>
buildVars  == <<todo, opened, draft>>
retryVars  == <<lastFailure, skipped>>
preambleVars == <<editorVars, preamble, countdown, declVars, uPc, unsaved, mainBuffer,
                  overridden, buildVars, retryVars>>

DefaultPreambleRebuildInterval == 5

None == [text |-> Absent, files |-> <<>>]
NothingOpen == [path |-> Absent, stamp |-> 0]

\* PreambleFileHash: of an unsaved buffer its contents, of a file its stamp.  The text
\* that was read is not part of it.
OfBuffer(p, t) == [path |-> p, hash |-> "buffer", stamp |-> Absent, text |-> t]
OfFile(p, s, t) == [path |-> p, hash |-> "file", stamp |-> s, text |-> t]
NotFound == [path |-> Absent, hash |-> "missing", stamp |-> Absent, text |-> Absent]
Files == {NotFound} \cup {OfBuffer(p, t) : p \in Paths, t \in Texts}
         \cup {OfFile(p, s, t) : p \in Paths, s \in Stamps, t \in Texts}

HasPreamble(t) == Includes[t] # <<>>
Parts == {"preamble", "rest"}
PartsOf(t) == IF HasPreamble(t) THEN Parts ELSE {"rest"}

\* One unsaved buffer at a time is enough to override what a preamble is built from.
Buffers == [Paths -> Texts \cup {Absent}]
UnsavedBuffers == {u \in Buffers : Cardinality({p \in Paths : u[p] # Absent}) <= 1}

PreambleTypeOK ==
  /\ disk \in [Paths -> [there : BOOLEAN, stamp : Stamps]] /\ mainText \in MainTexts
  /\ preamble = None \/ /\ preamble.text \in MainTexts
                        /\ preamble.files \in Seq(Files)
                        /\ Len(preamble.files) = Len(Includes[preamble.text])
  /\ countdown \in Nat /\ declIDs \in BOOLEAN /\ preambleDiags \in BOOLEAN
  /\ topLevelDecls \subseteq Parts /\ storedDiags \subseteq Parts
  /\ uPc \in {"idle", "open", "read", "parse"} /\ unsaved \in UnsavedBuffers
  /\ overridden \in BOOLEAN /\ mainBuffer \in MainTexts \cup {Absent}
  /\ draft \in Seq(Files) /\ todo \in Seq(DOMAIN Candidates)
  /\ lastFailure \in {"never", "none", "temp", "other"} /\ skipped \in Nat

NoBuffers == [p \in Paths |-> Absent]

\* Before LoadFromCompilerInvocation: the first parse is a reparse of nothing.
PreambleInit ==
  /\ disk \in [Paths -> [there : BOOLEAN, stamp : {0}]] /\ mainText \in MainTexts
  /\ preamble = None /\ countdown \in FirstCountdowns
  /\ declIDs = FALSE /\ topLevelDecls = {} /\ preambleDiags = FALSE /\ storedDiags = {}
  /\ parsed = [text |-> Absent, preamble |-> None]
  /\ uPc = "idle" /\ unsaved = NoBuffers /\ mainBuffer = Absent /\ overridden = FALSE
  /\ todo = <<>> /\ opened = NothingOpen /\ draft = <<>>
  /\ lastFailure = "never" /\ skipped = 0

-----------------------------------------------------------------------------
(* CanReuse. *)

Exists(p, u) == u[p] # Absent \/ disk[p].there

\* The header is at none of the places where it is looked for.
NotThere(h, u) == \A k \in DOMAIN Candidates[h] : ~Exists(Candidates[h][k], u)

\* What Build would record of a file now, without reading it.
SameHash(f, u) ==
  IF u[f.path] # Absent THEN f.hash = "buffer" /\ f.text = u[f.path]
  ELSE f.hash = "file" /\ disk[f.path] = [there |-> TRUE, stamp |-> f.stamp]

CanReuse(t, u) ==
  /\ preamble.text = t
  /\ \A i \in DOMAIN preamble.files :
       IF preamble.files[i] = NotFound
       THEN NotThere(Includes[t][i], u)
       ELSE SameHash(preamble.files[i], u)

-----------------------------------------------------------------------------
(* Reparse: up to the parse of the main file, and the four ways               *)
(* getMainBufferWithPrecompiledPreamble ends.                                 *)

CallStarts(u) ==
  /\ uPc = "idle" /\ unsaved' = u /\ mainBuffer' = mainText

TriesPreamble == preamble # None \/ countdown > 0

\* Preamble.reset() and what goes with it.
DropPreamble ==
  /\ preamble' = None /\ countdown' = 1 /\ declIDs' = FALSE /\ preambleDiags' = FALSE
  /\ lastFailure' = "none" /\ skipped' = 0

\* No preamble is wanted, or the main file begins with something else: a preamble
\* that is there stays.
ReparseWithout(u) ==
  /\ CallStarts(u) /\ ~(TriesPreamble /\ HasPreamble(mainText))
  /\ uPc' = "parse" /\ overridden' = FALSE
  /\ UNCHANGED <<editorVars, preamble, countdown, declVars, buildVars, retryVars>>

ReparseReuses(u) ==
  /\ CallStarts(u) /\ HasPreamble(mainText) /\ preamble # None
  /\ CanReuse(mainText, u)
  /\ countdown' = 1 /\ uPc' = "parse" /\ overridden' = TRUE
  /\ UNCHANGED <<editorVars, preamble, declVars, buildVars, retryVars>>

ReparseWaits(u) ==
  /\ CallStarts(u) /\ HasPreamble(mainText) /\ preamble = None /\ countdown > 1
  /\ countdown' = countdown - 1 /\ skipped' = skipped + 1
  /\ uPc' = "parse" /\ overridden' = FALSE
  /\ UNCHANGED <<editorVars, preamble, declVars, buildVars, lastFailure>>

\* Mutant: the countdown ends one reparse early.
ReparseBuildsEarly(u) ==
  /\ CallStarts(u) /\ HasPreamble(mainText)
  /\ \/ preamble # None /\ ~CanReuse(mainText, u) /\ DropPreamble
     \/ /\ preamble = None /\ countdown \in {1, 2}
        /\ UNCHANGED <<preamble, countdown, declIDs, preambleDiags, retryVars>>
  /\ uPc' = "open" /\ todo' = Includes[mainText] /\ draft' = <<>>
  /\ UNCHANGED <<editorVars, topLevelDecls, storedDiags, parsed, overridden, opened>>

ReparseBuilds(u) ==
  /\ CallStarts(u) /\ HasPreamble(mainText)
  /\ \/ preamble # None /\ ~CanReuse(mainText, u) /\ DropPreamble
     \/ /\ preamble = None /\ countdown = 1
        /\ UNCHANGED <<preamble, countdown, declIDs, preambleDiags, retryVars>>
  /\ uPc' = "open" /\ todo' = Includes[mainText] /\ draft' = <<>>
  /\ UNCHANGED <<editorVars, topLevelDecls, storedDiags, parsed, overridden, opened>>

-----------------------------------------------------------------------------
(* Build: the preprocessor enters one header after the other. *)

Building == <<editorVars, preamble, countdown, declVars, unsaved, mainBuffer,
              overridden, retryVars>>

\* Mutant: only the files that were found are recorded.
RecordsIfFound(f) ==
  /\ draft' = IF f = NotFound THEN draft ELSE Append(draft, f)
  /\ todo' = Tail(todo)

Records(f) == draft' = Append(draft, f) /\ todo' = Tail(todo)

\* The header is looked up along the search path.  An unsaved buffer is a virtual
\* file; of a file on disk the stamp is taken when it is opened.
IsFirst(k, h) ==
  /\ Exists(Candidates[h][k], unsaved)
  /\ \A j \in 1..(k - 1) : ~Exists(Candidates[h][j], unsaved)

BuildOpens ==
  /\ uPc = "open" /\ todo # <<>>
  /\ \/ NotThere(Head(todo), unsaved) /\ Records(NotFound) /\ UNCHANGED <<uPc, opened>>
     \/ \E k \in DOMAIN Candidates[Head(todo)] :
          LET p == Candidates[Head(todo)][k] IN
          /\ IsFirst(k, Head(todo))
          /\ \/ /\ unsaved[p] # Absent
                /\ Records(OfBuffer(p, unsaved[p])) /\ UNCHANGED <<uPc, opened>>
             \/ /\ unsaved[p] = Absent
                /\ opened' = [path |-> p, stamp |-> disk[p].stamp] /\ uPc' = "read"
                /\ UNCHANGED <<draft, todo>>
  /\ UNCHANGED Building

\* Mutant: the stamp is that of the file when the build is over.
BuildReadsThenStats ==
  LET p == opened.path IN
  /\ uPc = "read"
  /\ Records(OfFile(p, disk[p].stamp, TextOf(opened.stamp))) /\ opened' = NothingOpen /\ uPc' = "open"
  /\ UNCHANGED Building

\* The open file is read: it was perhaps replaced meanwhile, or edited in place.
BuildReads ==
  LET p == opened.path IN
  /\ uPc = "read"
  /\ \E s \in {opened.stamp, disk[p].stamp} :
       Records(OfFile(p, opened.stamp, TextOf(s)))
  /\ opened' = NothingOpen /\ uPc' = "open"
  /\ UNCHANGED Building

BuildSucceeds ==
  /\ uPc = "open" /\ todo = <<>>
  /\ preamble' = [text |-> mainBuffer, files |-> draft]
  /\ countdown' = 1 /\ declIDs' = TRUE /\ preambleDiags' = TRUE
  /\ topLevelDecls' = {} /\ storedDiags' = {"preamble"}
  /\ lastFailure' = "none" /\ skipped' = 0
  /\ uPc' = "parse" /\ overridden' = TRUE /\ draft' = <<>>
  /\ UNCHANGED <<editorVars, parsed, unsaved, mainBuffer, todo, opened>>

\* CouldntCreateTempFile, before anything is read, or another error.
BuildFails ==
  /\ uPc = "open"
  /\ \/ /\ draft = <<>> /\ todo = Includes[mainBuffer]
        /\ countdown' = 1 /\ lastFailure' = "temp"
     \/ countdown' = DefaultPreambleRebuildInterval /\ lastFailure' = "other"
  /\ skipped' = 0 /\ uPc' = "parse" /\ overridden' = FALSE /\ todo' = <<>> /\ draft' = <<>>
  /\ UNCHANGED <<editorVars, preamble, declVars, unsaved, mainBuffer, opened>>

-----------------------------------------------------------------------------
(* Parse, and what clients do between reparses. *)

\* Mutant: without a preamble its diagnostics are forgotten, as its declarations are.
ParseForgetsDiags ==
  /\ uPc = "parse"
  /\ LET t == IF overridden THEN mainBuffer ELSE mainText IN
     /\ parsed' = [text |-> t, preamble |-> IF overridden THEN preamble ELSE None]
     /\ topLevelDecls' = IF overridden THEN {"rest"} ELSE PartsOf(t)
     /\ storedDiags' = IF overridden
                       THEN {"rest"} \cup (IF preambleDiags THEN {"preamble"} ELSE {})
                       ELSE PartsOf(t)
  /\ declIDs' = (declIDs /\ overridden) /\ preambleDiags' = (preambleDiags /\ overridden)
  /\ uPc' = "idle" /\ unsaved' = NoBuffers /\ mainBuffer' = Absent /\ overridden' = FALSE
  /\ UNCHANGED <<editorVars, preamble, countdown, buildVars, retryVars>>

\* With a preamble, only the rest of the main file is parsed; without, all of the main
\* file as it is by then.
Parse ==
  /\ uPc = "parse"
  /\ LET t == IF overridden THEN mainBuffer ELSE mainText IN
     /\ parsed' = [text |-> t, preamble |-> IF overridden THEN preamble ELSE None]
     /\ topLevelDecls' = IF overridden THEN {"rest"} ELSE PartsOf(t)
     /\ storedDiags' = IF overridden
                       THEN {"rest"} \cup (IF preambleDiags THEN {"preamble"} ELSE {})
                       ELSE PartsOf(t)
  /\ declIDs' = (declIDs /\ overridden)
  /\ uPc' = "idle" /\ unsaved' = NoBuffers /\ mainBuffer' = Absent /\ overridden' = FALSE
  /\ UNCHANGED <<editorVars, preamble, countdown, preambleDiags, buildVars, retryVars>>

\* top_level_begin: RealizeTopLevelDeclsFromPreamble.
Traverse ==
  /\ uPc = "idle" /\ declIDs
  /\ topLevelDecls' = topLevelDecls \cup {"preamble"} /\ declIDs' = FALSE
  /\ UNCHANGED <<editorVars, preamble, countdown, preambleDiags, storedDiags, parsed, uPc,
                 unsaved, mainBuffer, overridden, buildVars, retryVars>>

\* Mutant: the preamble goes, its declarations stay.
CompleteKeepsDecls(u, cut) ==
  /\ uPc = "idle" /\ preamble # None /\ HasPreamble(mainText)
  /\ cut \/ ~CanReuse(mainText, u)
  /\ preamble' = None /\ countdown' = 1
  /\ lastFailure' = "none" /\ skipped' = 0
  /\ UNCHANGED <<editorVars, declVars, uPc, unsaved, mainBuffer, overridden, buildVars>>

\* CodeComplete.  The main file's preamble is computed up to the line of the completion:
\* it is cut short if that is within it.  Where it differs from the one that was built, or
\* its files do, that one is dropped, never rebuilt.  The completion has its own
\* CompilerInstance.
CompleteDrops(u, cut) ==
  /\ uPc = "idle" /\ preamble # None /\ HasPreamble(mainText)
  /\ cut \/ ~CanReuse(mainText, u)
  /\ DropPreamble
  /\ UNCHANGED <<editorVars, topLevelDecls, storedDiags, parsed, uPc, unsaved, mainBuffer,
                 overridden, buildVars>>
CompleteReuses(u) ==
  /\ uPc = "idle" /\ preamble # None /\ HasPreamble(mainText) /\ CanReuse(mainText, u)
  /\ countdown' = 1
  /\ UNCHANGED <<editorVars, preamble, declVars, uPc, unsaved, mainBuffer, overridden,
                 buildVars, retryVars>>

\* The editor, or anybody else, writes files, moves them away and puts them back.
EditHeader(p) ==
  /\ \/ /\ disk[p].stamp < MaxStamp
        /\ disk' = [disk EXCEPT ![p] = [there |-> TRUE, stamp |-> @.stamp + 1]]
     \/ disk' = [disk EXCEPT ![p].there = ~@]
  /\ UNCHANGED <<mainText, preamble, countdown, declVars, uPc, unsaved, mainBuffer,
                 overridden, buildVars, retryVars>>
EditMain ==
  /\ \E t \in MainTexts : t # mainText /\ mainText' = t
  /\ UNCHANGED <<disk, preamble, countdown, declVars, uPc, unsaved, mainBuffer,
                 overridden, buildVars, retryVars>>

PreambleNext ==
  \/ \E u \in UnsavedBuffers :
       \/ ReparseWithout(u) \/ ReparseReuses(u) \/ ReparseWaits(u) \/ ReparseBuilds(u)
       \/ CompleteReuses(u) \/ \E cut \in BOOLEAN : CompleteDrops(u, cut)
  \/ BuildOpens \/ BuildReads \/ BuildSucceeds \/ BuildFails
  \/ Parse \/ Traverse
  \/ EditMain \/ \E p \in Paths : EditHeader(p)

PreambleSpec == PreambleInit /\ [][PreambleNext]_preambleVars

-----------------------------------------------------------------------------
(* Properties. *)

\* Whatever was edited, overridden, saved, created or removed since, and during the
\* build: when a preamble is used again, each header it was built from reads the same
\* now, and a header that could not be found still cannot.
IsCurrent(u) ==
  /\ preamble.text = mainText
  /\ \A i \in DOMAIN preamble.files :
       LET f == preamble.files[i] IN
       IF f = NotFound
       THEN NotThere(Includes[mainText][i], u)
       ELSE /\ Exists(f.path, u)
            /\ f.text = IF u[f.path] # Absent THEN u[f.path] ELSE TextOf(disk[f.path].stamp)
PreambleIsCurrent ==
  [][\A u \in UnsavedBuffers : ReparseReuses(u) \/ CompleteReuses(u) => IsCurrent(u)]_preambleVars

\* ASTUnit.h on PreambleRebuildCountdown: it "decrements each time we reparse without
\* the benefit of a precompiled preamble.  When it hits 1, we'll attempt to rebuild".  So
\* of the reparses of a main file that has a preamble, the next one after a failure for
\* want of a temporary file, or after a preamble was dropped, attempts a build; after any
\* other failure those that do without are exactly one fewer than the interval, whatever
\* main files and completions come between (ASTUnit.cpp:230 says as many as the interval).
AttemptsBuild == uPc = "idle" /\ uPc' = "open"
GoesWithout == uPc = "idle" /\ uPc' = "parse" /\ ~overridden' /\ HasPreamble(mainText)
IsDue ==
  \/ lastFailure \in {"none", "temp"} /\ skipped = 0
  \/ lastFailure = "other" /\ skipped = DefaultPreambleRebuildInterval - 1
RetriesOnSchedule ==
  [][preamble = None /\ lastFailure # "never" =>
       (AttemptsBuild => IsDue) /\ (GoesWithout => ~IsDue)]_preambleVars

\* The assertion of RealizeTopLevelDeclsFromPreamble, and what it stands for: between
\* reparses, declaration IDs are of the preamble that the AST was parsed with, and
\* that preamble is still there.
RealizeFindsPreamble ==
  uPc = "idle" /\ declIDs => preamble # None /\ parsed.preamble = preamble

\* A parse reports what the preamble's build reported, however often it is used again
\* and whatever parses without it come between.
DiagnosticsComplete ==
  uPc = "idle" /\ parsed.text # Absent => storedDiags = PartsOf(parsed.text)

\* ASTUnit.h: TopLevelDeclsInPreamble is "a list of the serialization ID numbers for
\* each of the top-level declarations parsed within the precompiled preamble", with
\* which top_level_begin completes the declarations of the rest.
TopLevelDeclsComplete ==
  uPc = "idle" /\ parsed.text # Absent =>
    topLevelDecls \cup (IF declIDs THEN {"preamble"} ELSE {}) = PartsOf(parsed.text)
=============================================================================
