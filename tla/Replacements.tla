---------------------------- MODULE Replacements ----------------------------
(***************************************************************************)
(* A set of replacements for one file, as refactorings and the formatter    *)
(* build it: replacements of the original code are added, in any order, as  *)
(* long as their order does not matter, and sets of replacements of the     *)
(* changed code are merged in.  Text is a sequence of letters, those of the *)
(* original code are distinct.                                              *)
(*                                                                          *)
(*   Replacements  add, merge, mergeIfOrderIndependent,                     *)
(*                 getCanonicalReplacements, getShiftedCodePosition         *)
(*   applyAllReplacements                                                   *)
(***************************************************************************)
EXTENDS Integers, Sequences, FiniteSets, FiniteSetsExt, SequencesExt

CONSTANTS
  Code,         \* the original code
  NewTexts,     \* what is inserted
  MaxSteps,     \* bound: replacements that are added and sets that are merged in
  MaxMerges,    \* bound: sets that are merged in, after all that is added
  TouchingSets  \* whether the replacements of a set that is merged in may touch

ASSUME ReplacementsAssumption ==
  /\ IsInjective(Code) /\ <<>> \in NewTexts
  /\ MaxSteps \in Nat /\ MaxMerges \in Nat /\ TouchingSets \in BOOLEAN

VARIABLES
  replaces,     \* the set
  changedCode,  \* the code as the client sees it: what was done one after the other
  adds, merges  \* how many there were

replacementVars == <<replaces, changedCode, adds, merges>>

Replacement(o, l, t) == [offset |-> o, length |-> l, text |-> t]
EndOf(r) == r.offset + r.length
Growth(r) == Len(r.text) - r.length
FirstOf(t, n) == SubSeq(t, 1, IF n < Len(t) THEN n ELSE Len(t))
Rest(t, n) == SubSeq(t, n + 1, Len(t))

\* Replacements of some code of length n that change something.
Changes(r) == r.length > 0 \/ r.text # <<>>
ReplacementsOf(n) ==
  {r \in {Replacement(o, l, t) : o, l \in 0..n, t \in NewTexts} : EndOf(r) <= n /\ Changes(r)}

\* The order of the std::set.
IsBefore(r, s) == r.offset < s.offset \/ (r.offset = s.offset /\ r.length < s.length)
InOrder(rs) == SetToSortSeq(rs, IsBefore)

\* applyAllReplacements, from the last to the first.
ReplaceText(r, code) == SubSeq(code, 1, r.offset) \o r.text \o Rest(code, EndOf(r))
applyAllReplacements(code, rs) == FoldRight(ReplaceText, InOrder(rs), code)

overlapsWith(r, s) == EndOf(r) > s.offset /\ r.offset < EndOf(s)

-----------------------------------------------------------------------------
(* merge: both sets in one pass, by position in the original code. *)

\* MergedReplacement: it is extended by the next of `Second' or of `First', whichever
\* may still overlap with what was merged last.
Begun(r, fromFirst, delta) ==
  LET shift == IF fromFirst THEN 0 ELSE delta IN
  [mergeSecond |-> fromFirst, offset |-> r.offset + shift, length |-> r.length, text |-> r.text,
   delta |-> IF fromFirst THEN delta ELSE delta + Growth(r),
   deltaFirst |-> IF fromFirst THEN Growth(r) ELSE 0]

WithSecond(m, r) ==
  LET end == m.offset + Len(m.text)
      rEnd == EndOf(r) + m.delta
  IN [m EXCEPT !.length = @ + Max({rEnd - end, 0}), !.mergeSecond = rEnd <= end,
               !.text = FirstOf(@, r.offset + m.delta - m.offset) \o r.text \o Rest(@, rEnd - m.offset),
               !.delta = @ + Growth(r)]

WithFirst(m, r) ==
  LET end == m.offset + m.length
      goesOn == r.offset + Len(r.text) > end
  IN [m EXCEPT !.text = @ \o Rest(r.text, end - r.offset), !.mergeSecond = goesOn,
               !.length = IF goesOn THEN EndOf(r) - m.offset ELSE @ - Growth(r),
               !.deltaFirst = @ + Growth(r)]

\* Mutant: what touches is not merged.
endsBeforeOrAt(m, r) ==
  IF m.mergeSecond THEN m.offset + Len(m.text) <= r.offset + m.delta
                   ELSE m.offset + m.length <= r.offset

endsBefore(m, r) ==
  IF m.mergeSecond THEN m.offset + Len(m.text) < r.offset + m.delta
                   ELSE m.offset + m.length < r.offset

RECURSIVE MergeFrom(_, _, _, _), Extended(_, _, _)
MergeFrom(first, second, delta, result) ==
  IF first = <<>> /\ second = <<>> THEN result
  ELSE IF \/ second = <<>>
          \/ first # <<>> /\ Head(first).offset < Head(second).offset + delta
       THEN LET e == Extended(Begun(Head(first), TRUE, delta), Tail(first), second)
            IN MergeFrom(e.first, e.second, delta - e.m.deltaFirst, result \cup {e.r})
       ELSE LET e == Extended(Begun(Head(second), FALSE, delta), first, Tail(second))
            IN MergeFrom(e.first, e.second, delta - e.m.deltaFirst, result \cup {e.r})
Extended(m, first, second) ==
  LET next == IF m.mergeSecond THEN second ELSE first IN
  IF next = <<>> \/ endsBefore(m, Head(next))
  THEN [m |-> m, first |-> first, second |-> second, r |-> Replacement(m.offset, m.length, m.text)]
  ELSE IF m.mergeSecond THEN Extended(WithSecond(m, Head(second)), first, Tail(second))
                        ELSE Extended(WithFirst(m, Head(first)), Tail(first), second)

merge(first, second) ==
  IF first = {} THEN second ELSE IF second = {} THEN first
  ELSE MergeFrom(InOrder(first), InOrder(second), 0, {})

-----------------------------------------------------------------------------
(* add. *)

getShiftedCodePosition(rs, position) ==
  LET over == {r \in rs : EndOf(r) > position /\ r.offset < position
                          /\ r.offset + Len(r.text) <= position}
      moved == IF over = {} THEN position
               ELSE LET r == CHOOSE r \in over : TRUE
                    IN r.offset + Max({Len(r.text) - 1, 0})
  IN moved + MapThenSumSet(Growth, {r \in rs : EndOf(r) <= position})

getReplacementInChangedCode(rs, r) ==
  LET start == getShiftedCodePosition(rs, r.offset)
  IN Replacement(start, getShiftedCodePosition(rs, EndOf(r)) - start, r.text)

\* Replacements that touch become one.
getCanonicalReplacements(rs) ==
  LET joined(done, r) ==
        IF done = <<>> \/ EndOf(Last(done)) < r.offset THEN Append(done, r)
        ELSE Append(Front(done), Replacement(Last(done).offset, Last(done).length + r.length,
                                             Last(done).text \o r.text))
  IN FoldLeft(joined, <<>>, InOrder(rs))

Conflict == {Replacement(-1, 0, <<>>)}

\* Mutant: a replacement that overlaps goes last.
mergeInAnyCase(rs, r) == merge(rs, {getReplacementInChangedCode(rs, r)})

\* rs, then r, or r, then rs.
mergeIfOrderIndependent(rs, r) ==
  LET rLast == merge(rs, {getReplacementInChangedCode(rs, r)})
      rFirst == merge({r}, {getReplacementInChangedCode({r}, s) : s \in rs})
  IN IF getCanonicalReplacements(rLast) = getCanonicalReplacements(rFirst) THEN rLast ELSE Conflict

\* r is an insertion where i begins.
InsertedAlong(rs, r, i) ==
  IF i.length > 0 THEN rs \cup {r}
  ELSE IF r.text \o i.text # i.text \o r.text THEN Conflict
  ELSE (rs \ {i}) \cup {Replacement(r.offset, 0, r.text \o i.text)}

\* Mutant: only the last one before r's end is looked at.
TouchedLast(s, r, n) == {s[i] : i \in {j \in 1..n : j = n /\ overlapsWith(r, s[j])}}

\* From the nth of the replacements s downwards, as long as they overlap with r.
Touched(s, r, n) ==
  {s[i] : i \in {j \in 1..n : \A k \in j..n : overlapsWith(r, s[k])}}

add(rs, r) ==
  LET s == InOrder(rs)
      n == Cardinality({i \in DOMAIN s : s[i].offset < EndOf(r)})
      touched == Touched(s, r, n)
      merged == mergeIfOrderIndependent(touched, r)
  IN IF n < Len(s) /\ s[n + 1].offset = r.offset THEN InsertedAlong(rs, r, s[n + 1])
     ELSE IF touched = {} THEN rs \cup {r}
     ELSE IF merged = Conflict THEN Conflict
     ELSE (rs \ touched) \cup merged

-----------------------------------------------------------------------------
(* A client: it adds replacements of the original code, then merges in sets of  *)
(* replacements of what the code has become.                                     *)

\* What a set is that add builds: nothing overlaps, and at one offset there is at most one
\* insertion and one other replacement, before which the insertion goes.
IsInsertion(r) == r.length = 0
IsOrderIndependent(rs) ==
  \A r, s \in rs : r # s =>
    /\ ~overlapsWith(r, s)
    /\ r.offset = s.offset => IsInsertion(r) # IsInsertion(s)
Touch(rs) == \E r, s \in rs : r # s /\ EndOf(r) = s.offset

ReplacementsInit == replaces = {} /\ changedCode = Code /\ adds = 0 /\ merges = 0

Add(r) ==
  /\ adds < MaxSteps /\ merges = 0
  /\ add(replaces, r) # Conflict
  /\ replaces' = add(replaces, r)
  /\ changedCode' = applyAllReplacements(Code, replaces')
  /\ adds' = adds + 1 /\ UNCHANGED merges

\* Sets of one and of two tell all there is about neighbours.
SetsOfTwo(n) ==
  {{r, s} : <<r, s>> \in {p \in ReplacementsOf(n) \X ReplacementsOf(n) :
                            p[1] = p[2] \/ EndOf(p[1]) <= p[2].offset}}
MergeIn ==
  /\ merges < MaxMerges /\ adds + merges < MaxSteps
  /\ \E rs \in SetsOfTwo(Len(changedCode)) :
       /\ IsOrderIndependent(rs) /\ (TouchingSets \/ ~Touch(rs))
       /\ replaces' = merge(replaces, rs)
       /\ changedCode' = applyAllReplacements(changedCode, rs)
  /\ merges' = merges + 1 /\ UNCHANGED adds

ReplacementsNext == (\E r \in ReplacementsOf(Len(Code)) : Add(r)) \/ MergeIn

ReplacementsSpec == ReplacementsInit /\ [][ReplacementsNext]_replacementVars

-----------------------------------------------------------------------------
(* Properties. *)

\* merge: to apply the merged set is to apply the first set and then, to what came of
\* it, the second one.
MergeIsBothApplied == changedCode = applyAllReplacements(Code, replaces)

\* Replacement.h:206: "Maintains a set of replacements that are conflict-free.  Two
\* replacements are considered conflicts if they overlap or have the same offset (i.e.
\* order-dependent)."  Whatever is added and merged, of those that change something none
\* overlap, and no two insertions have the same offset.  The comment's "same offset" is
\* not all kept: Replacement.cpp:287 takes an insertion where another replacement begins to
\* be order-independent, and adds it.
StaysOrderIndependent == IsOrderIndependent({r \in replaces : Changes(r)})

\* add accepts a replacement only if the order does not matter: if another one can be
\* added after it and before it, the code becomes the same.
SameCode(rs, sr) ==
  Conflict \notin {rs, sr} => applyAllReplacements(Code, rs) = applyAllReplacements(Code, sr)
OrderDoesNotMatter ==
  [][adds' = adds + 1 =>
       \A r \in ReplacementsOf(Len(Code)) : Add(r) =>
         \A s \in ReplacementsOf(Len(Code)) : add(replaces, s) # Conflict =>
           SameCode(add(replaces', s), add(add(replaces, s), r))]_replacementVars

\* An accepted replacement takes away what it says, no less and nothing else, whatever
\* it was merged with.
Left(rs) == ToSet(applyAllReplacements(Code, rs)) \cap ToSet(Code)
AddRemovesItsRange ==
  [][adds' = adds + 1 =>
       \A r \in ReplacementsOf(Len(Code)) : Add(r) =>
         Left(replaces') = Left(replaces) \ ToSet(SubSeq(Code, r.offset + 1, EndOf(r)))]_replacementVars
=============================================================================
