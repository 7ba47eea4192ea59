--------------------------- MODULE SourceManager ---------------------------
(***************************************************************************)
(* How a SourceManager hands out source locations and finds the file or     *)
(* macro expansion that one is in.  Files and expansions of the main file   *)
(* take offsets from below, AST files that are loaded take them from above, *)
(* in one space of unsigned offsets; a lookup goes through a cache of one   *)
(* entry, a few linear probes and a binary search.                          *)
(*                                                                          *)
(*   SourceManager        createFileID, createExpansionLoc,                 *)
(*                        AllocateLoadedSLocEntries, clearIDTables,         *)
(*                        getFileID, isOffsetInFileID                       *)
(*   ASTReader, ASTWriter the record SOURCE_LOCATION_OFFSETS                *)
(* External: the AST files, and what is done with locations.                *)
(***************************************************************************)
EXTENDS Integers, Sequences, FiniteSets, FiniteSetsExt, SequencesExt

CONSTANTS
  MaxLoadedOffset, \* half the words that an offset can be (2^31 in the code)
  LinearProbes,  \* how many entries a linear search looks at (8 in the code)
  ASTFiles       \* the AST files there are: the lengths of their entries, in order

Word == 2 * MaxLoadedOffset

ASSUME SourceAssumption ==
  /\ MaxLoadedOffset \in Nat \ {0, 1} /\ LinearProbes \in Nat \ {0}
  /\ ASTFiles \subseteq Seq(Nat \ {0})

VARIABLES
  local,         \* LocalSLocEntryTable: entry i begins at local[i + 1]
  nextLocal,     \* NextLocalOffset
  loaded,        \* LoadedSLocEntryTable, entry i at loaded[i + 1], as the AST files say
  currentLoaded, \* CurrentLoadedOffset
  unreadable,    \* the entries (FileIDs) that the ASTReader cannot load: a file is gone
  last,          \* LastFileIDLookup
  given          \* every location that was handed out, and the entry it is of

sourceVars == <<local, nextLocal, loaded, currentLoaded, unreadable, last, given>>

\* FileIDs: 0 is invalid, i > 0 is local entry i, -2 - i is loaded entry i, -1 a sentinel.
Locals == 0..(Len(local) - 1)
Loadeds == {-2 - i : i \in 0..(Len(loaded) - 1)}
Sentinel == -1

\* What the ASTReader asserts of the base offset that it is given (ASTReader.cpp:3397):
\* it does not have the bit of macro locations.
BaseInRange == currentLoaded <= MaxLoadedOffset

SourceTypeOK ==
  /\ local \in Seq(0..(MaxLoadedOffset - 1)) /\ nextLocal \in 2..MaxLoadedOffset
  /\ loaded \in Seq(0..(Word - 1)) /\ currentLoaded \in 2..(Word - 1)
  /\ BaseInRange => loaded \in Seq(2..(MaxLoadedOffset - 1))
  /\ unreadable \subseteq Loadeds /\ last \in Locals \cup Loadeds
  /\ \A g \in given : g.loc \in Nat /\ g.of \in Locals \cup Loadeds

SourceInit ==
  /\ local = <<0>> /\ nextLocal = 2 /\ loaded = <<>> /\ currentLoaded = MaxLoadedOffset
  /\ unreadable = {} /\ last = 0 /\ given = {}

-----------------------------------------------------------------------------
(* Where an entry is. *)

\* An entry is loaded when it is asked for; one that cannot be is made up, at offset 0.
EntryOffset(id) ==
  IF id >= 0 THEN local[id + 1] ELSE IF id \in unreadable THEN 0 ELSE loaded[-id - 1]

isOffsetInFileID(id, o) ==
  /\ EntryOffset(id) <= o
  /\ \/ id = -2
     \/ id + 1 = Len(local) /\ o < nextLocal
     \/ id # -2 /\ id + 1 # Len(local) /\ o < EntryOffset(id + 1)

-----------------------------------------------------------------------------
(* The search. *)

\* From the cached entry down, or from the newest.
LocalStart(o) == IF last < 0 \/ local[last + 1] < o THEN Len(local) ELSE last

\* Between an entry that begins after o and one that does not.
LocalSearch(o) ==
  LET search[range \in Locals \X Locals] ==
        LET greater == range[1]
            less == range[2]
            middle == (greater - less) \div 2 + less IN
        IF local[middle + 1] > o THEN search[<<middle, less>>]
        ELSE IF middle + 1 = Len(local) \/ o < local[middle + 2] THEN middle
        ELSE search[<<greater, middle>>]
  IN search

getFileIDLocal(o) ==
  LET start == LocalStart(o)
      near == {i \in (start - LinearProbes)..(start - 1) : i >= 0 /\ local[i + 1] <= o}
  IN IF near # {} THEN Max(near) ELSE LocalSearch(o)[<<start - LinearProbes, 0>>]

\* Mutant: the entry after the cached one is passed over.
LoadedStartFurther(o) == IF last >= 0 \/ EntryOffset(last) < o THEN 0 ELSE -last

\* From the entry after the cached one, which begins below it, or from the newest.
LoadedStart(o) == IF last >= 0 \/ EntryOffset(last) < o THEN 0 ELSE -last - 1

\* The table of loaded entries is sorted the other way round.  Where the code asserts
\* that the search has not missed the entry, it has found the Sentinel.
LoadedSearch(o) ==
  LET size == Len(loaded)
      search[range \in (0..size) \X (0..size)] ==
        LET greater == range[1]
            less == range[2]
            middle == (less - greater) \div 2 + greater
            offset == EntryOffset(-middle - 2) IN
        IF middle >= size THEN Sentinel
        ELSE IF offset = 0 THEN 0
        ELSE IF offset > o
             THEN IF greater = middle THEN Sentinel ELSE search[<<middle, less>>]
        ELSE IF isOffsetInFileID(-middle - 2, o) THEN -middle - 2
        ELSE IF less = middle THEN Sentinel ELSE search[<<greater, middle>>]
  IN search

getFileIDLoaded(o) ==
  LET start == LoadedStart(o)
      size == Len(loaded)
      near == {i \in start..(start + LinearProbes - 1) : i < size /\ EntryOffset(-i - 2) <= o}
  IN IF o < currentLoaded THEN Sentinel
     ELSE IF near # {} THEN -Min(near) - 2
     ELSE IF start + LinearProbes > size THEN Sentinel
     ELSE LoadedSearch(o)[<<start + LinearProbes, size>>]

getFileID(o) ==
  IF isOffsetInFileID(last, o) THEN last
  ELSE IF o < nextLocal THEN getFileIDLocal(o) ELSE getFileIDLoaded(o)

-----------------------------------------------------------------------------
(* Operations. *)

\* What an entry takes: one offset more than it is long, for the location of its end.
NextOffset(size) == (nextLocal + size + 1) % Word
\* Mutant: sums do not wrap.
FitsUnlessWrapped(size) == NextOffset(size) <= currentLoaded

Fits(size) == NextOffset(size) > nextLocal /\ NextOffset(size) <= currentLoaded

Created(size) ==
  /\ local' = Append(local, nextLocal) /\ nextLocal' = NextOffset(size)
  /\ given' = given \cup {[loc |-> nextLocal + i, of |-> Len(local)] : i \in 0..size}
  /\ UNCHANGED <<loaded, currentLoaded, unreadable>>

\* A file of any size: if it does not fit, that is reported and nothing changes.
createFileID(size) == Fits(size) /\ Created(size) /\ last' = Len(local)

\* For an expansion, that it fits is only asserted.
createExpansionLoc(length) == Fits(length) /\ Created(length) /\ UNCHANGED last

\* What an AST file was written from: the local entries of another SourceManager, these
\* lengths (with their ends).  Its locations begin at 2, where its dummy entry ends.
WrittenAt(f, k) ==
  LET at[i \in 1..(Len(f) + 1)] == IF i = 1 THEN 2 ELSE at[i - 1] + f[i - 1] IN at[k]
TotalSize(f) == WrittenAt(f, Len(f) + 1) - 1

\* The SourceManager that an AST file was written from had no more offsets than this one.
ASSUME ASTFileAssumption == \A f \in ASTFiles : TotalSize(f) < MaxLoadedOffset

\* Unsigned arithmetic: of a file that is larger than what is left, the base offset
\* wraps, and the file is admitted.
BaseOffset(f) == (currentLoaded - TotalSize(f)) % Word
Admits(f) == BaseOffset(f) >= nextLocal

\* The file's entry k has FileID BaseID + k - 1, and its locations are moved so that 2
\* becomes BaseOffset.
BaseID(f) == -(Len(loaded) + Len(f)) - 1
Remapped(f, loc) == (loc + BaseOffset(f) - 2) % Word

AllocateLoadedSLocEntries(f) ==
  /\ Admits(f)
  /\ loaded' = loaded \o [i \in DOMAIN f |-> Remapped(f, WrittenAt(f, Len(f) + 1 - i))]
  /\ currentLoaded' = BaseOffset(f)
  /\ given' = given \cup UNION {{[loc |-> Remapped(f, WrittenAt(f, k) + i), of |-> BaseID(f) + k - 1]
                                  : i \in 0..(f[k] - 1)} : k \in DOMAIN f}
  /\ \E lost \in SUBSET {BaseID(f) + k - 1 : k \in DOMAIN f} : unreadable' = unreadable \cup lost
  /\ UNCHANGED <<local, nextLocal, last>>

\* Only what was found is remembered.
Lookup(o) ==
  /\ last' = IF getFileID(o) \in {0, Sentinel} /\ o >= nextLocal THEN last ELSE getFileID(o)
  /\ UNCHANGED <<local, nextLocal, loaded, currentLoaded, unreadable, given>>

\* Mutant: the cache of the lookup is not cleared.
ClearKeepsLookup ==
  /\ local' = <<0>> /\ nextLocal' = 2 /\ loaded' = <<>> /\ currentLoaded' = MaxLoadedOffset
  /\ unreadable' = {} /\ given' = {} /\ UNCHANGED last

\* Between two main files.
clearIDTables ==
  /\ local' = <<0>> /\ nextLocal' = 2 /\ loaded' = <<>> /\ currentLoaded' = MaxLoadedOffset
  /\ unreadable' = {} /\ last' = 0 /\ given' = {}

\* Where the ASTReader's assertion fails, the program ends.
SourceNext ==
  /\ BaseInRange
  /\ \/ \E size \in 0..(Word - 1) : createFileID(size) \/ createExpansionLoc(size)
     \/ \E f \in ASTFiles : AllocateLoadedSLocEntries(f)
     \/ \E g \in given : Lookup(g.loc)
     \/ clearIDTables

SourceSpec == SourceInit /\ [][SourceNext]_sourceVars

-----------------------------------------------------------------------------
(* Properties. *)

\* SourceManager.h: "the highest possible offset is 2^31-1", and no location is handed
\* out for two entries, however full the space is and whatever sizes files, expansions
\* and AST files have, until the ASTReader's assertion fails (LoadedBasesDecrease).
LocationsAreUnique ==
  BaseInRange =>
    \A g \in given : g.loc < MaxLoadedOffset /\ \A h \in given : h.loc = g.loc => h = g

\* getFileID finds the entry a location was handed out for, from whatever the lookups
\* before have left in the cache, as long as every entry can be loaded.
LookupIsRight ==
  BaseInRange /\ unreadable = {} => \A g \in given : getFileID(g.loc) = g.of

\* ASTReader.cpp:3396: "SLocEntryBaseOffset is lower than MaxLoadedOffset and
\* decreasing."  For AllocateLoadedSLocEntries is to "make sure we're not about to run
\* out of source locations".
LoadedBasesDecrease ==
  [][\A f \in ASTFiles : AllocateLoadedSLocEntries(f) =>
       currentLoaded' < MaxLoadedOffset /\ currentLoaded' < currentLoaded]_sourceVars
=============================================================================
