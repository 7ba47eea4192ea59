-------------------------- MODULE TokenCachingProofs --------------------------
(***************************************************************************)
(* What every function of the caching layer keeps, for every file and any  *)
(* cache.                                                                  *)
(*                                                                         *)
(* The properties of TentativeParsing are about the sequences that can be  *)
(* read from a position; the lemmas are about the one sequence All(q),     *)
(* read and unread, and positions in it: the current token and the token   *)
(* of every trial are followed by what comes next (Follows), and where the *)
(* entry before a position may be replaced it stands for the same text as  *)
(* the token the parser holds (Current, Trials).                           *)
(***************************************************************************)
EXTENDS TentativeParsing, SequenceTheorems, WellFoundedInduction, TLAPS

\* Tokens of a file (SourceIsAFile).
GoodToken ==
    {t \in Token :
        /\ t.first <= t.last
        /\ (t.kind = "eof") <=> (t.last = End)
        /\ t.kind \in {"greatergreater", "greaterequal"} => t.first < t.last}

PPType ==
    [CachedTokens : Seq(GoodToken), CachedLexPos : Nat, BacktrackPositions : Seq(Nat),
     caching : BOOLEAN, lexers : Seq(GoodToken)]

\* The tokens stand for the same text, and can be split in the same way.
Same(t, u) ==
    /\ t.first = u.first /\ t.last = u.last
    /\ t.kind = "greatergreater" <=> u.kind = "greatergreater"
    /\ t.kind = "greaterequal" <=> u.kind = "greaterequal"

\* Everything the preprocessor has, read and unread.
All(q) == q.CachedTokens \o q.lexers

\* From position p of s on there is the rest of the file after its e-th
\* character.
Follows(s, e, p) ==
    /\ p <= Len(s)
    /\ p = Len(s) => e = End
    /\ p < Len(s) => s[p + 1].first = e + 1 /\ s[Len(s)].last = End
    /\ \A i \in (p + 1)..(Len(s) - 1) : s[i + 1].first = s[i].last + 1

\* The layer by itself: positions are ordered, and there is a layer if anything
\* is cached or may be returned to.
Cached(q) ==
    /\ q \in PPType
    /\ q.CachedLexPos <= Len(q.CachedTokens)
    /\ \A k \in 1..Len(q.BacktrackPositions) :
          q.BacktrackPositions[k] <= q.CachedLexPos
    /\ \A k \in 1..Len(q.BacktrackPositions) : \A j \in 1..k :
          q.BacktrackPositions[j] <= q.BacktrackPositions[k]
    /\ q.BacktrackPositions # << >> => q.caching
    /\ ~q.caching => q.CachedTokens = << >>

\* t is the current token: what follows it is right, and the most recent
\* cached token is t if t may be annotated alone or if a trial began before it.
Current(s, pos, back, t) ==
    /\ t \in GoodToken
    /\ Follows(s, t.last, pos)
    /\ (t.kind = "name" /\ pos # 0) => Same(s[pos], t)
    /\ \A k \in 1..Len(back) : back[k] < pos => Same(s[pos], t)

\* ts are the tokens the open trials began at.
Trials(s, back, ts) ==
    /\ ts \in Seq(GoodToken)
    /\ Len(ts) = Len(back)
    /\ \A k \in 1..Len(back) :
          /\ Follows(s, ts[k].last, back[k])
          /\ (ts[k].kind = "name" /\ back[k] # 0) => Same(s[back[k]], ts[k])
          /\ \A j \in 1..k : back[j] < back[k] => Same(s[back[k]], ts[k])

Good(q, t, ts) ==
    /\ Cached(q)
    /\ Current(All(q), q.CachedLexPos, q.BacktrackPositions, t)
    /\ Trials(All(q), q.BacktrackPositions, ts)

-----------------------------------------------------------------------------
\* Sequences: what Splice and the stacks return.

\* What Splice returns (SmallVector::insert and erase).  Positions that are
\* the same are related by equations, which the provers match better.
IsSplice(r, s, a, b, ts) ==
    /\ Len(r) = Len(s) - (b - a) + Len(ts)
    /\ \A i \in 1..a : r[i] = s[i]
    /\ \A i \in 1..Len(ts), j \in Nat : j = a + i => r[j] = ts[i]
    /\ \A i \in (b + 1)..Len(s), j \in Nat : j = i - b + a + Len(ts) => r[j] = s[i]

\* Splice returns such a sequence.
LEMMA SpliceProperties ==
  ASSUME NEW S, NEW s \in Seq(S), NEW ts \in Seq(S),
         NEW a \in 0..Len(s), NEW b \in a..Len(s)
  PROVE  Splice(s, a, b, ts) \in Seq(S) /\ IsSplice(Splice(s, a, b, ts), s, a, b, ts)
<1> DEFINE left == SubSeq(s, 1, a)
           right == SubSeq(s, b + 1, Len(s))
           lt == left \o ts
<1>0. Len(s) \in Nat /\ Len(ts) \in Nat /\ \A i \in 1..Len(s) : s[i] \in S
  BY LenProperties, ElementOfSeq
<1>1. /\ left \in Seq(S) /\ Len(left) = a
      /\ \A i \in 1..a : left[i] = s[i]
  <2>1. \A i \in 1..a : s[i] \in S
    BY <1>0
  <2>2. /\ SubSeq(s, 1, a) \in Seq(S)
        /\ Len(SubSeq(s, 1, a)) = IF 1 <= a THEN a - 1 + 1 ELSE 0
        /\ \A i \in 1..(a - 1 + 1) : SubSeq(s, 1, a)[i] = s[1 + i - 1]
    BY <2>1, <1>0, SubSeqProperties
  <2> QED BY <2>2, <1>0
<1>2. /\ right \in Seq(S) /\ Len(right) = Len(s) - b
      /\ \A i \in 1..(Len(s) - b) : right[i] = s[b + i]
  <2>1. \A i \in (b + 1)..Len(s) : s[i] \in S
    BY <1>0
  <2>2. /\ SubSeq(s, b + 1, Len(s)) \in Seq(S)
        /\ Len(SubSeq(s, b + 1, Len(s))) = IF b + 1 <= Len(s) THEN Len(s) - (b + 1) + 1 ELSE 0
        /\ \A i \in 1..(Len(s) - (b + 1) + 1) : SubSeq(s, b + 1, Len(s))[i] = s[(b + 1) + i - 1]
    BY <2>1, <1>0, SubSeqProperties
  <2> QED BY <2>2, <1>0
<1>3. /\ lt \in Seq(S) /\ Len(lt) = a + Len(ts)
      /\ \A i \in 1..(a + Len(ts)) : lt[i] = IF i <= a THEN left[i] ELSE ts[i - a]
  BY <1>1, ConcatProperties
<1>4. /\ lt \o right \in Seq(S) /\ Len(lt \o right) = a + Len(ts) + Len(s) - b
      /\ \A i \in 1..(a + Len(ts) + Len(s) - b) :
            (lt \o right)[i] = IF i <= a + Len(ts) THEN lt[i] ELSE right[i - (a + Len(ts))]
  <2> HIDE DEF lt, right
  <2>1. /\ lt \o right \in Seq(S) /\ Len(lt \o right) = Len(lt) + Len(right)
        /\ \A i \in 1..(Len(lt) + Len(right)) :
            (lt \o right)[i] = IF i <= Len(lt) THEN lt[i] ELSE right[i - Len(lt)]
    BY <1>2, <1>3, ConcatProperties
  <2> QED BY <2>1, <1>0, <1>2, <1>3
<1> DEFINE r == lt \o right
<1>5. Splice(s, a, b, ts) = r
  BY DEF Splice
<1>6. ASSUME NEW i \in 1..a PROVE r[i] = s[i]
  <2>1. i \in 1..(a + Len(ts) + Len(s) - b) /\ i <= a + Len(ts) /\ i \in 1..(a + Len(ts))
    BY <1>0
  <2> HIDE DEF lt, left, right
  <2>2. r[i] = lt[i]
    BY <1>4, <2>1
  <2>3. lt[i] = left[i]
    BY <2>1, <1>3
  <2>4. left[i] = s[i]
    BY <1>1
  <2> QED BY <2>2, <2>3, <2>4
<1>7. ASSUME NEW i \in 1..Len(ts), NEW j \in Nat, j = a + i PROVE r[j] = ts[i]
  <2>1. /\ j \in 1..(a + Len(ts) + Len(s) - b) /\ j <= a + Len(ts)
        /\ j \in 1..(a + Len(ts)) /\ ~(j <= a) /\ j - a = i
    BY <1>0, <1>7
  <2> HIDE DEF lt, left, right
  <2>2. r[j] = lt[j]
    BY <1>4, <2>1
  <2> QED BY <2>1, <2>2, <1>3
<1>8. ASSUME NEW i \in (b + 1)..Len(s), NEW j \in Nat, j = i - b + a + Len(ts)
      PROVE  r[j] = s[i]
  <2>1. /\ j \in 1..(a + Len(ts) + Len(s) - b) /\ ~(j <= a + Len(ts))
        /\ j - (a + Len(ts)) = i - b /\ i - b \in 1..(Len(s) - b) /\ b + (i - b) = i
    BY <1>0, <1>8
  <2> HIDE DEF lt, left, right
  <2>2. r[j] = right[i - b]
    BY <1>4, <2>1
  <2>3. right[i - b] = s[b + (i - b)]
    BY <1>2, <2>1
  <2> QED BY <2>1, <2>2, <2>3
<1>9. r \in Seq(S) /\ Len(r) = Len(s) - (b - a) + Len(ts)
  <2> HIDE DEF lt, left, right
  <2>1. a + Len(ts) + Len(s) - b = Len(s) - (b - a) + Len(ts)
    BY <1>0
  <2> QED BY <1>4, <2>1
<1> HIDE DEF r
<1>10. IsSplice(r, s, a, b, ts)
  BY <1>6, <1>7, <1>8, <1>9 DEF IsSplice
<1> QED BY <1>5, <1>9, <1>10

\* Sequences that have the same elements at the same places are the same.
LEMMA SameElements ==
  ASSUME NEW S, NEW r \in Seq(S), NEW s \in Seq(S), Len(r) = Len(s),
         \A i \in 1..Len(r) : r[i] = s[i]
  PROVE  r = s
BY SeqEqual

\* A splice is determined by what it replaces and with what.
LEMMA SpliceUnique ==
  ASSUME NEW S, NEW s \in Seq(S), NEW ts \in Seq(S), NEW r \in Seq(S),
         NEW a \in 0..Len(s), NEW b \in a..Len(s), IsSplice(r, s, a, b, ts)
  PROVE  r = Splice(s, a, b, ts)
<1> DEFINE r2 == Splice(s, a, b, ts)
           L == Len(s)
           n == Len(ts)
<1>0. L \in Nat /\ n \in Nat /\ a \in Nat /\ b \in Nat /\ a <= b /\ b <= L
  BY LenProperties
<1>1. r2 \in Seq(S) /\ IsSplice(r2, s, a, b, ts)
  BY SpliceProperties
<1> HIDE DEF r2, L, n
<1>2. Len(r) = L - (b - a) + n /\ Len(r2) = L - (b - a) + n
  BY <1>1 DEF IsSplice, L, n
<1>3. /\ \A i \in 1..a : r[i] = s[i] /\ r2[i] = s[i]
      /\ \A i \in 1..n, j \in Nat : j = a + i => r[j] = ts[i] /\ r2[j] = ts[i]
      /\ \A i \in (b + 1)..L, j \in Nat :
            j = i - b + a + n => r[j] = s[i] /\ r2[j] = s[i]
  BY <1>1 DEF IsSplice, L, n
<1>4. ASSUME NEW j \in 1..Len(r) PROVE r[j] = r2[j]
  <2>1. CASE j <= a
    BY <2>1, <1>0, <1>3
  <2>2. CASE a < j /\ j <= a + n
    <3>1. j - a \in 1..n /\ j \in Nat /\ j = a + (j - a)
      BY <2>2, <1>0
    <3> QED BY <3>1, <1>3
  <2>3. CASE a + n < j
    <3> DEFINE i == j - n - a + b
    <3>1. i \in (b + 1)..L /\ j \in Nat /\ j = i - b + a + n
      BY <2>3, <1>0, <1>2
    <3> HIDE DEF i
    <3> QED BY <3>1, <1>3
  <2> QED BY <1>0, <2>1, <2>2, <2>3
<1> QED BY <1>1, <1>2, <1>4, SameElements DEF r2

\* The first tokens are dropped.
LEMMA SpliceFront ==
  ASSUME NEW S, NEW s \in Seq(S), NEW r \in Seq(S), NEW b \in 0..Len(s),
         Len(r) = Len(s) - b,
         \A i \in (b + 1)..Len(s), j \in Nat : j = i - b => r[j] = s[i]
  PROVE  r = Splice(s, 0, b, << >>)
<1> DEFINE none == << >>
           a == 0
<1>1. Len(none) = 0 /\ none \in Seq(S) /\ a = 0
  OBVIOUS
<1> HIDE DEF none, a
<1>2. Len(s) \in Nat /\ b \in Nat /\ a \in 0..Len(s) /\ b \in a..Len(s)
  BY <1>1, LenProperties
<1>3. Len(r) = Len(s) - (b - a) + Len(none)
  BY <1>1, <1>2
<1>4. ASSUME NEW i \in (b + 1)..Len(s), NEW j \in Nat, j = i - b + a + Len(none)
      PROVE  r[j] = s[i]
  <2>1. j = i - b
    BY <1>4, <1>1, <1>2
  <2> QED BY <2>1
<1>5. \A i \in 1..a : r[i] = s[i]
  BY <1>1
<1>6. \A i \in 1..Len(none), j \in Nat : j = a + i => r[j] = none[i]
  BY <1>1
<1>7. IsSplice(r, s, a, b, none)
  <2>1. \A i \in (b + 1)..Len(s), j \in Nat : j = i - b + a + Len(none) => r[j] = s[i]
    BY <1>4
  <2> QED BY <1>3, <2>1, <1>5, <1>6, Zenon DEF IsSplice
<1>8. r = Splice(s, a, b, none)
  <2>1. none \in Seq(S) /\ a \in 0..Len(s) /\ b \in a..Len(s) /\ r \in Seq(S)
    BY <1>1, <1>2
  <2> QED BY <2>1, <1>7, SpliceUnique
<1> QED BY <1>8 DEF none, a

\* Two tokens are inserted one after the other.
LEMMA SpliceThenInsert ==
  ASSUME NEW S, NEW s \in Seq(S), NEW t \in S, NEW u \in S,
         NEW a \in 0..Len(s), NEW b \in a..Len(s)
  PROVE  Splice(Splice(s, a, b, <<t>>), a + 1, a + 1, <<u>>) = Splice(s, a, b, <<t, u>>)
<1> DEFINE r1 == Splice(s, a, b, <<t>>)
           r2 == Splice(r1, a + 1, a + 1, <<u>>)
           L == Len(s)
<1>0. L \in Nat /\ a \in Nat /\ b \in Nat /\ a <= b /\ b <= L
  BY LenProperties
<1>1. <<t>> \in Seq(S) /\ <<u>> \in Seq(S) /\ <<t, u>> \in Seq(S)
  OBVIOUS
<1>2. Len(<<t>>) = 1 /\ Len(<<u>>) = 1 /\ Len(<<t, u>>) = 2 /\ <<t>>[1] = t /\ <<u>>[1] = u
      /\ <<t, u>>[1] = t /\ <<t, u>>[2] = u
  OBVIOUS
<1>3. r1 \in Seq(S) /\ IsSplice(r1, s, a, b, <<t>>)
  BY <1>1, SpliceProperties
<1> HIDE DEF r1, L
<1>4. /\ Len(r1) = L - (b - a) + 1
      /\ \A i \in 1..a : r1[i] = s[i]
      /\ r1[a + 1] = t
      /\ \A i \in (b + 1)..L, j \in Nat : j = i - b + a + 1 => r1[j] = s[i]
  <2>1. 1 \in 1..1 /\ a + 1 \in Nat
    BY <1>0
  <2> QED BY <2>1, <1>2, <1>3 DEF IsSplice, L
<1>5. a + 1 \in 0..Len(r1) /\ a + 1 \in (a + 1)..Len(r1) /\ Len(r1) \in Nat
  BY <1>0, <1>4
<1>6. r2 \in Seq(S) /\ IsSplice(r2, r1, a + 1, a + 1, <<u>>)
  BY <1>1, <1>3, <1>5, SpliceProperties
<1> HIDE DEF r2
<1>7. /\ Len(r2) = Len(r1) - (a + 1 - (a + 1)) + 1
      /\ \A i \in 1..(a + 1) : r2[i] = r1[i]
      /\ r2[a + 2] = u
      /\ \A i \in (a + 1 + 1)..Len(r1), j \in Nat : j = i - (a + 1) + (a + 1) + 1 => r2[j] = r1[i]
  <2>1. 1 \in 1..1 /\ a + 2 \in Nat /\ a + 2 = a + 1 + 1
    BY <1>0
  <2> QED BY <2>1, <1>2, <1>6 DEF IsSplice
<1>8. Len(r2) = L - (b - a) + 2
  BY <1>0, <1>4, <1>7
<1>9. ASSUME NEW i \in 1..a PROVE r2[i] = s[i]
  <2>1. i \in 1..(a + 1)
    BY <1>0
  <2> QED BY <2>1, <1>4, <1>7
<1>10. r2[a + 1] = t
  <2>1. a + 1 \in 1..(a + 1)
    BY <1>0
  <2> QED BY <2>1, <1>4, <1>7
<1>11. ASSUME NEW i \in 1..2, NEW j \in Nat, j = a + i PROVE r2[j] = <<t, u>>[i]
  <2>1. CASE i = 1
    BY <2>1, <1>2, <1>10, <1>11
  <2>2. CASE i = 2
    BY <2>2, <1>2, <1>7, <1>11
  <2> QED BY <2>1, <2>2
<1>12. ASSUME NEW i \in (b + 1)..L, NEW j \in Nat, j = i - b + a + 2 PROVE r2[j] = s[i]
  <2>1. j - 1 \in Nat /\ j - 1 = i - b + a + 1 /\ j - 1 \in (a + 1 + 1)..Len(r1)
        /\ j = (j - 1) - (a + 1) + (a + 1) + 1
    BY <1>0, <1>4, <1>12
  <2>2. r2[j] = r1[j - 1]
    BY <2>1, <1>7
  <2>3. r1[j - 1] = s[i]
    BY <2>1, <1>4
  <2> QED BY <2>2, <2>3
<1>13. IsSplice(r2, s, a, b, <<t, u>>)
  BY <1>2, <1>8, <1>9, <1>11, <1>12 DEF IsSplice, L
<1>14. r2 = Splice(s, a, b, <<t, u>>)
  BY <1>1, <1>6, <1>13, SpliceUnique
<1> QED BY <1>14 DEF r1, r2

\* A token is removed, and then those before it are replaced.
LEMMA RemoveThenSplice ==
  ASSUME NEW S, NEW s \in Seq(S), NEW ts \in Seq(S),
         NEW a \in Nat, a + 1 < Len(s)
  PROVE  Splice(Splice(s, a + 1, a + 2, << >>), a, a + 1, ts) = Splice(s, a, a + 2, ts)
<1> DEFINE r1 == Splice(s, a + 1, a + 2, << >>)
           r2 == Splice(r1, a, a + 1, ts)
           L == Len(s)
           n == Len(ts)
<1>0. L \in Nat /\ n \in Nat /\ a + 2 <= L /\ a + 1 \in 0..L /\ a + 2 \in (a + 1)..L
      /\ a \in 0..L /\ a + 2 \in a..L
  BY LenProperties
<1>1. << >> \in Seq(S) /\ Len(<< >>) = 0
  OBVIOUS
<1>2. r1 \in Seq(S) /\ IsSplice(r1, s, a + 1, a + 2, << >>)
  BY <1>0, <1>1, SpliceProperties
<1> HIDE DEF r1, L, n
<1>3. /\ Len(r1) = L - (a + 2 - (a + 1)) + 0
      /\ \A i \in 1..(a + 1) : r1[i] = s[i]
      /\ \A i \in (a + 2 + 1)..L, j \in Nat : j = i - (a + 2) + (a + 1) + 0 => r1[j] = s[i]
  BY <1>1, <1>2 DEF IsSplice, L
<1>4. Len(r1) = L - 1 /\ a \in 0..Len(r1) /\ a + 1 \in a..Len(r1)
  BY <1>0, <1>3
<1>5. r2 \in Seq(S) /\ IsSplice(r2, r1, a, a + 1, ts)
  BY <1>2, <1>4, SpliceProperties
<1> HIDE DEF r2
<1>6. /\ Len(r2) = Len(r1) - (a + 1 - a) + n
      /\ \A i \in 1..a : r2[i] = r1[i]
      /\ \A i \in 1..n, j \in Nat : j = a + i => r2[j] = ts[i]
      /\ \A i \in (a + 1 + 1)..Len(r1), j \in Nat : j = i - (a + 1) + a + n => r2[j] = r1[i]
  BY <1>5 DEF IsSplice, n
<1>7. Len(r2) = L - (a + 2 - a) + n
  BY <1>0, <1>4, <1>6
<1>8. ASSUME NEW i \in 1..a PROVE r2[i] = s[i]
  <2>1. i \in 1..(a + 1)
    OBVIOUS
  <2> QED BY <2>1, <1>3, <1>6
<1>9. ASSUME NEW i \in (a + 2 + 1)..L, NEW j \in Nat, j = i - (a + 2) + a + n PROVE r2[j] = s[i]
  <2>1. i - 1 \in Nat /\ i - 1 = i - (a + 2) + (a + 1) + 0 /\ i - 1 \in (a + 1 + 1)..Len(r1)
        /\ j = (i - 1) - (a + 1) + a + n
    BY <1>0, <1>4, <1>9
  <2>2. r2[j] = r1[i - 1]
    BY <2>1, <1>6
  <2>3. r1[i - 1] = s[i]
    BY <2>1, <1>3
  <2> QED BY <2>2, <2>3
<1>10. IsSplice(r2, s, a, a + 2, ts)
  BY <1>6, <1>7, <1>8, <1>9 DEF IsSplice, L, n
<1>11. r2 = Splice(s, a, a + 2, ts)
  BY <1>0, <1>5, <1>10, SpliceUnique DEF L
<1> QED BY <1>11 DEF r1, r2

\* The most recent cached token is overwritten.
LEMMA OverwriteLast ==
  ASSUME NEW S, NEW s \in Seq(S), NEW t \in S, NEW p \in 1..Len(s)
  PROVE  [s EXCEPT ![p] = t] = Splice(s, p - 1, p, <<t>>)
<1> DEFINE r == [s EXCEPT ![p] = t]
           x == <<t>>
           a == p - 1
           L == Len(s)
<1>1. L \in Nat
  BY LenProperties
<1>2. r \in Seq(S) /\ Len(r) = L /\ \A i \in 1..L : r[i] = IF i = p THEN t ELSE s[i]
  <2>1. s \in [1..L -> S] /\ p \in 1..L
    BY LenProperties
  <2>2. r \in [1..L -> S] /\ DOMAIN r = 1..L
    BY <2>1
  <2>3. r \in Seq(S)
    BY <2>2, <1>1, SeqDef
  <2>4. Len(r) = L
    BY <2>2, <2>3, <1>1, LenProperties
  <2> QED BY <2>1, <2>3, <2>4
<1>3. x \in Seq(S) /\ Len(x) = 1 /\ x[1] = t
  OBVIOUS
<1> HIDE DEF r, x, L
<1>4. a \in 0..L /\ p \in a..L /\ L = L - (p - a) + 1 /\ p \in 1..L /\ p \in Nat /\ a + 1 = p
  BY <1>1 DEF L
<1>5. \A i \in 1..a : r[i] = s[i]
  BY <1>1, <1>2, <1>4
<1>6. ASSUME NEW i \in 1..Len(x), NEW j \in Nat, j = a + i PROVE r[j] = x[i]
  <2>1. i = 1 /\ j = p
    BY <1>3, <1>4, <1>6
  <2> QED BY <2>1, <1>2, <1>3, <1>4
<1>7. ASSUME NEW i \in (p + 1)..L, NEW j \in Nat, j = i - p + a + Len(x) PROVE r[j] = s[i]
  <2>1. j = i /\ i \in 1..L /\ i # p
    BY <1>1, <1>3, <1>4, <1>7
  <2> QED BY <2>1, <1>2
<1> HIDE DEF a
<1>8. IsSplice(r, s, a, p, x)
  <2>1. Len(r) = L - (p - a) + Len(x)
    BY <1>2, <1>3, <1>4
  <2> QED BY <2>1, <1>5, <1>6, <1>7 DEF IsSplice, L
<1>9. r = Splice(s, a, p, x)
  BY <1>2, <1>3, <1>4, <1>8, SpliceUnique DEF L
<1> QED BY <1>9 DEF r, x, a

\* A stack without its top.
LEMMA PoppedProperties ==
  ASSUME NEW S, NEW s \in Seq(S), s # << >>
  PROVE  /\ Popped(s) \in Seq(S) /\ Len(s) \in Nat \ {0} /\ Len(Popped(s)) = Len(s) - 1
         /\ \A i \in 1..Len(Popped(s)) : i \in 1..Len(s) /\ Popped(s)[i] = s[i]
<1>1. Len(s) \in Nat /\ Len(s) # 0
  BY LenProperties
<1>2. \A i \in 1..(Len(s) - 1) : s[i] \in S
  BY <1>1, ElementOfSeq
<1>3. /\ SubSeq(s, 1, Len(s) - 1) \in Seq(S)
      /\ Len(SubSeq(s, 1, Len(s) - 1)) = IF 1 <= Len(s) - 1 THEN Len(s) - 1 - 1 + 1 ELSE 0
      /\ \A i \in 1..(Len(s) - 1 - 1 + 1) : SubSeq(s, 1, Len(s) - 1)[i] = s[1 + i - 1]
  BY <1>1, <1>2, SubSeqProperties
<1>4. /\ Popped(s) \in Seq(S)
      /\ Len(Popped(s)) = IF 1 <= Len(s) - 1 THEN Len(s) - 1 - 1 + 1 ELSE 0
      /\ \A i \in 1..(Len(s) - 1 - 1 + 1) : Popped(s)[i] = s[1 + i - 1]
  BY <1>3 DEF Popped
<1>5. Len(Popped(s)) = Len(s) - 1
  <2> DEFINE n == Len(s)
  <2>1. n \in Nat /\ n # 0 /\ Len(Popped(s)) = IF 1 <= n - 1 THEN n - 1 - 1 + 1 ELSE 0
    BY <1>1, <1>4
  <2> HIDE DEF n
  <2>2. CASE 1 <= n - 1
    BY <2>1, <2>2 DEF n
  <2>3. CASE n = 1
    BY <2>1, <2>3 DEF n
  <2> QED BY <2>1, <2>2, <2>3
<1>6. ASSUME NEW i \in 1..Len(Popped(s)) PROVE i \in 1..Len(s) /\ Popped(s)[i] = s[i]
  <2>1. i \in 1..Len(s) /\ i \in 1..(Len(s) - 1 - 1 + 1) /\ 1 + i - 1 = i
    BY <1>1, <1>5
  <2> QED BY <2>1, <1>4
<1> QED BY <1>1, <1>4, <1>5, <1>6

\* The search from the back finds the last of the places.
LEMMA NearestProperties ==
  ASSUME NEW n \in Nat, NEW is \in SUBSET (1..n), is # {}
  PROVE  Nearest(is) \in is /\ \A j \in is : j <= Nearest(is)
<1> DEFINE Less == {ss \in Nat \X Nat : ss[1] < ss[2]}
           T == {n - i : i \in is}
<1>1. IsWellFoundedOn(Less, Nat)
  BY NatLessThanWellFounded DEF OpToRel
<1>2. T \subseteq Nat /\ T # {}
  <2>1. T \subseteq Nat
    OBVIOUS
  <2>2. PICK k \in is : TRUE
    OBVIOUS
  <2>3. n - k \in T
    BY <2>2
  <2> QED BY <2>1, <2>3
<1> HIDE DEF Less, T
<1>3. PICK m \in T : \A y \in T : <<y, m>> \notin Less
  BY <1>1, <1>2, WFMin
<1>4. PICK i \in is : m = n - i
  BY <1>3 DEF T
<1>5. ASSUME NEW j \in is PROVE j <= i
  <2>1. n - j \in T
    BY DEF T
  <2>2. ~(n - j < m)
    BY <2>1, <1>2, <1>3 DEF Less
  <2> QED BY <2>2, <1>4
<1>6. \E k \in is : \A j \in is : j <= k
  BY <1>4, <1>5
<1> QED BY <1>6 DEF Nearest

-----------------------------------------------------------------------------
\* Tokens that follow each other.

\* The size of the file is a number, and so are the positions of its tokens.
LEMMA EndProperties == End \in Nat /\ \A t \in GoodToken : t.first \in 1..End /\ t.last \in 1..End
<1>1. Len(Source) \in 1..Len(Source)
  BY SourceIsAFile, LenProperties
<1>2. Source[Len(Source)] \in Token
  BY <1>1, SourceIsAFile, ElementOfSeq
<1>3. End \in 1..End
  BY <1>2 DEF Token, End
<1>4. \A t \in GoodToken : t.first \in 1..End /\ t.last \in 1..End
  BY DEF GoodToken, Token
<1>5. End \in Nat
  BY <1>3
<1> QED BY <1>4, <1>5

\* A token that is not the end of the file does not end where it ends.
LEMMA NotAtEnd == ASSUME NEW t \in GoodToken, t.kind # "eof" PROVE t.last # End
BY DEF GoodToken

\* What is behind the place where tokens are replaced moves with it.
LEMMA FollowsBehind ==
  ASSUME NEW s \in Seq(GoodToken), NEW ts \in Seq(GoodToken), NEW e \in Nat,
         NEW a \in 0..Len(s), NEW b \in a..Len(s), NEW p \in b..Len(s),
         Follows(s, e, p)
  PROVE  Follows(Splice(s, a, b, ts), e, p - (b - a) + Len(ts))
<1> DEFINE r == Splice(s, a, b, ts)
           L == Len(s)
           n == Len(ts)
           q == p - (b - a) + n
<1>0. L \in Nat /\ n \in Nat
  BY LenProperties
<1>1. IsSplice(r, s, a, b, ts)
  BY SpliceProperties
<1> HIDE DEF r, n, L
<1>2. Len(r) = L - (b - a) + n
  BY <1>1 DEF IsSplice, n, L
<1>3. \A i \in (b + 1)..L, j \in Nat : j = i - b + a + n => r[j] = s[i]
  BY <1>1 DEF IsSplice, n, L
<1>4. p \in Nat /\ a \in Nat /\ b \in Nat /\ a <= b /\ b <= p /\ p <= L
  BY <1>0 DEF L
<1>5. q \in Nat /\ q <= Len(r) /\ (q = Len(r) => p = L) /\ (q < Len(r) => p < L)
  BY <1>0, <1>2, <1>4
<1>6. /\ p = L => e = End
      /\ p < L => s[p + 1].first = e + 1 /\ s[L].last = End
      /\ \A i \in (p + 1)..(L - 1) : s[i + 1].first = s[i].last + 1
  BY DEF Follows, L
<1>7. ASSUME q < Len(r) PROVE r[q + 1].first = e + 1 /\ r[Len(r)].last = End
  <2>1. p < L
    BY <1>5, <1>7
  <2>2. /\ p + 1 \in (b + 1)..L /\ q + 1 \in Nat /\ q + 1 = (p + 1) - b + a + n
        /\ L \in (b + 1)..L /\ Len(r) \in Nat /\ Len(r) = L - b + a + n
    BY <2>1, <1>0, <1>2, <1>4, <1>5
  <2>3. r[q + 1] = s[p + 1] /\ r[Len(r)] = s[L]
    BY <2>2, <1>3
  <2> QED BY <2>1, <2>3, <1>6
<1>8. ASSUME NEW j \in (q + 1)..(Len(r) - 1) PROVE r[j + 1].first = r[j].last + 1
  <2> DEFINE i == j + b - a - n
  <2>1. /\ i \in (p + 1)..(L - 1) /\ i \in (b + 1)..L /\ i + 1 \in (b + 1)..L
        /\ j \in Nat /\ j + 1 \in Nat
        /\ j = i - b + a + n /\ j + 1 = (i + 1) - b + a + n
    BY <1>0, <1>2, <1>4, <1>5
  <2> HIDE DEF i
  <2>2. r[j] = s[i] /\ r[j + 1] = s[i + 1]
    BY <2>1, <1>3
  <2> QED BY <2>1, <2>2, <1>6
<1>9. q = Len(r) => e = End
  BY <1>5, <1>6
<1> HIDE DEF q
<1> QED BY <1>5, <1>7, <1>8, <1>9 DEF Follows, r, q, n

\* Tokens can be put where they come from: before what follows their last one.
LEMMA FollowsInserted ==
  ASSUME NEW s \in Seq(GoodToken), NEW ts \in Seq(GoodToken), NEW e \in Nat,
         NEW a \in 0..Len(s), NEW b \in a..Len(s),
         Len(ts) # 0, Adjacent(ts), ts[1].first = e + 1,
         Follows(s, ts[Len(ts)].last, b)
  PROVE  Follows(Splice(s, a, b, ts), e, a)
<1> DEFINE r == Splice(s, a, b, ts)
           L == Len(s)
           n == Len(ts)
<1>0. L \in Nat /\ n \in Nat /\ n >= 1
  BY LenProperties
<1>1. IsSplice(r, s, a, b, ts)
  BY SpliceProperties
<1> HIDE DEF r, n, L
<1>2. Len(r) = L - (b - a) + n
  BY <1>1 DEF IsSplice, n, L
<1>3. \A i \in (b + 1)..L, j \in Nat : j = i - b + a + n => r[j] = s[i]
  BY <1>1 DEF IsSplice, n, L
<1>4. \A i \in 1..n, j \in Nat : j = a + i => r[j] = ts[i]
  BY <1>1 DEF IsSplice, n
<1>5. a \in Nat /\ b \in Nat /\ a <= b /\ b <= L
  BY <1>0 DEF L
<1>6. /\ b = L => ts[n].last = End
      /\ b < L => s[b + 1].first = ts[n].last + 1 /\ s[L].last = End
      /\ \A i \in (b + 1)..(L - 1) : s[i + 1].first = s[i].last + 1
  BY DEF Follows, L, n
<1>7. a < Len(r) /\ a <= Len(r) /\ a # Len(r) /\ Len(r) \in Nat /\ a + 1 \in Nat /\ 1 \in 1..n
  BY <1>0, <1>2, <1>5
<1>8. r[a + 1].first = e + 1
  <2>1. r[a + 1] = ts[1]
    BY <1>4, <1>7
  <2> QED BY <2>1
<1>9. r[Len(r)].last = End
  <2>1. CASE b = L
    <3>1. n \in 1..n /\ Len(r) = a + n
      BY <2>1, <1>0, <1>2, <1>5
    <3>2. r[Len(r)] = ts[n]
      BY <3>1, <1>4, <1>7
    <3> QED BY <3>2, <2>1, <1>6
  <2>2. CASE b < L
    <3>1. L \in (b + 1)..L /\ Len(r) = L - b + a + n
      BY <2>2, <1>0, <1>2, <1>5
    <3>2. r[Len(r)] = s[L]
      BY <3>1, <1>3, <1>7
    <3> QED BY <3>2, <2>2, <1>6
  <2> QED BY <1>0, <1>5, <2>1, <2>2
<1>10. ASSUME NEW j \in (a + 1)..(Len(r) - 1) PROVE r[j + 1].first = r[j].last + 1
  <2>0. j \in Nat /\ j + 1 \in Nat
    BY <1>5, <1>7
  <2>1. CASE j < a + n
    <3> DEFINE i == j - a
    <3>1. /\ i \in 1..(n - 1) /\ i \in 1..n /\ i + 1 \in 1..n
          /\ j = a + i /\ j + 1 = a + (i + 1)
      BY <2>1, <1>0, <1>5, <1>7
    <3> HIDE DEF i
    <3>2. r[j] = ts[i] /\ r[j + 1] = ts[i + 1]
      BY <2>0, <3>1, <1>4
    <3>3. ts[i + 1].first = ts[i].last + 1
      BY <3>1 DEF Adjacent, n
    <3> QED BY <3>2, <3>3
  <2>2. CASE j = a + n
    <3>1. /\ n \in 1..n /\ b < L /\ b + 1 \in (b + 1)..L
          /\ j + 1 = (b + 1) - b + a + n
      BY <2>2, <1>0, <1>2, <1>5, <1>7
    <3>2. r[j] = ts[n] /\ r[j + 1] = s[b + 1]
      BY <2>0, <2>2, <3>1, <1>3, <1>4
    <3> QED BY <3>1, <3>2, <1>6
  <2>3. CASE j > a + n
    <3> DEFINE i == j - n - a + b
    <3>1. /\ i \in (b + 1)..L /\ i + 1 \in (b + 1)..L /\ i \in (b + 1)..(L - 1)
          /\ j = i - b + a + n /\ j + 1 = (i + 1) - b + a + n
      BY <2>3, <1>0, <1>2, <1>5, <1>7
    <3> HIDE DEF i
    <3>2. r[j] = s[i] /\ r[j + 1] = s[i + 1]
      BY <2>0, <3>1, <1>3
    <3> QED BY <3>1, <3>2, <1>6
  <2> QED BY <2>0, <1>0, <1>5, <2>1, <2>2, <2>3
<1> QED BY <1>7, <1>8, <1>9, <1>10 DEF Follows, r

\* What follows a token inside what is right follows it rightly.
LEMMA FollowsWithin ==
  ASSUME NEW s \in Seq(GoodToken), NEW e \in Nat, NEW p \in Nat, Follows(s, e, p),
         NEW b \in (p + 1)..Len(s)
  PROVE  Follows(s, s[b].last, b)
<1>1. Len(s) \in Nat /\ b \in Nat /\ b <= Len(s) /\ p < b
  BY LenProperties
<1>2. \A i \in (p + 1)..(Len(s) - 1) : s[i + 1].first = s[i].last + 1
  BY DEF Follows
<1>3. s[Len(s)].last = End
  BY <1>1 DEF Follows
<1>4. b < Len(s) => s[b + 1].first = s[b].last + 1
  BY <1>1, <1>2
<1>5. \A i \in (b + 1)..(Len(s) - 1) : i \in (p + 1)..(Len(s) - 1)
  BY <1>1
<1> QED BY <1>1, <1>2, <1>3, <1>4, <1>5 DEF Follows

\* Tokens can be replaced by tokens that stand for the same text.
LEMMA FollowsReplaced ==
  ASSUME NEW s \in Seq(GoodToken), NEW ts \in Seq(GoodToken), NEW e \in Nat,
         NEW p \in Nat, NEW a \in p..Len(s), NEW b \in (a + 1)..Len(s),
         Len(ts) # 0, Adjacent(ts),
         ts[1].first = s[a + 1].first, ts[Len(ts)].last = s[b].last,
         Follows(s, e, p)
  PROVE  Follows(Splice(s, a, b, ts), e, p)
<1>0. a \in 0..Len(s) /\ b \in a..Len(s) /\ b \in (p + 1)..Len(s) /\ Len(s) \in Nat
  BY LenProperties
<1>1. Follows(s, ts[Len(ts)].last, b)
  BY <1>0, FollowsWithin
<1>2. CASE p = a
  <2>1. ts[1].first = e + 1
    BY <1>2, <1>0 DEF Follows
  <2> QED BY <2>1, <1>0, <1>1, <1>2, FollowsInserted
<1>3. CASE p < a
  <2> DEFINE r == Splice(s, a, b, ts)
  <2>0. a \in (p + 1)..Len(s) /\ a \in Nat /\ a < Len(s) /\ p + 1 \in 1..a
    BY <1>0, <1>3
  <2>1. ts[1].first = s[a].last + 1
    BY <2>0, <1>0 DEF Follows
  <2>2. s[a].last \in Nat
    <3>1. s[a] \in GoodToken
      BY <2>0, ElementOfSeq
    <3> QED BY <3>1, EndProperties
  <2>3. Follows(r, s[a].last, a)
    BY <2>1, <2>2, <1>0, <1>1, FollowsInserted
  <2>4. /\ Len(r) = Len(s) - (b - a) + Len(ts)
        /\ \A i \in 1..a : r[i] = s[i]
    BY <1>0, SpliceProperties DEF IsSplice
  <2>5. Len(r) \in Nat /\ a < Len(r)
    <3>1. Len(ts) \in Nat /\ Len(ts) >= 1
      BY LenProperties
    <3> QED BY <3>1, <2>0, <2>4, <1>0
  <2> HIDE DEF r
  <2>6. r[p + 1].first = e + 1 /\ r[Len(r)].last = End
    <3>1. r[p + 1] = s[p + 1]
      BY <2>0, <2>4
    <3>2. s[p + 1].first = e + 1
      BY <2>0, <1>0 DEF Follows
    <3>3. r[Len(r)].last = End
      BY <2>3, <2>5 DEF Follows
    <3> QED BY <3>1, <3>2, <3>3
  <2>7. ASSUME NEW j \in (p + 1)..(Len(r) - 1) PROVE r[j + 1].first = r[j].last + 1
    <3>1. CASE j < a
      <4>1. j \in 1..a /\ j + 1 \in 1..a /\ j \in (p + 1)..(Len(s) - 1)
        BY <3>1, <1>0, <2>0
      <4>2. s[j + 1].first = s[j].last + 1
        BY <4>1 DEF Follows
      <4> QED BY <4>1, <4>2, <2>4
    <3>2. CASE j = a
      <4>1. r[j] = s[j] /\ r[j + 1].first = s[a].last + 1
        BY <3>2, <2>0, <2>3, <2>4, <2>5 DEF Follows
      <4> QED BY <4>1, <3>2
    <3>3. CASE j > a
      <4>1. j \in (a + 1)..(Len(r) - 1)
        BY <3>3, <2>0, <2>5
      <4> QED BY <4>1, <2>3 DEF Follows
    <3> QED BY <2>0, <2>5, <3>1, <3>2, <3>3
  <2>8. p < Len(r) /\ p <= Len(r) /\ p # Len(r)
    BY <2>0, <2>5, <1>3
  <2> QED BY <2>6, <2>7, <2>8 DEF Follows, r
<1> QED BY <1>0, <1>2, <1>3

\* What follows a token that is at position p + 1 follows it there.
LEMMA FollowsStep ==
  ASSUME NEW s \in Seq(GoodToken), NEW p \in Nat, NEW e \in Nat, p + 1 \in 1..Len(s),
         s[p + 1].first = e + 1, Follows(s, s[p + 1].last, p + 1)
  PROVE  Follows(s, e, p)
<1> DEFINE L == Len(s)
<1>0. L \in Nat /\ p < L /\ p <= L /\ p # L
  BY LenProperties
<1>1. \A i \in (p + 2)..(L - 1) : s[i + 1].first = s[i].last + 1
  <2>1. \A i \in (p + 1 + 1)..(L - 1) : s[i + 1].first = s[i].last + 1
    BY DEF Follows
  <2>2. p + 1 + 1 = p + 2
    OBVIOUS
  <2> HIDE DEF L
  <2> QED BY <2>1, <2>2
<1>2. p + 1 < L => s[p + 1 + 1].first = s[p + 1].last + 1
  BY DEF Follows
<1>3. s[L].last = End
  BY <1>0 DEF Follows
<1> HIDE DEF L
<1>4. \A i \in (p + 1)..(L - 1) : s[i + 1].first = s[i].last + 1
  BY <1>0, <1>1, <1>2
<1> QED BY <1>0, <1>3, <1>4 DEF Follows, L

-----------------------------------------------------------------------------
\* Every function of the layer, as a change of All(q) and the position.

\* The cache comes first in everything the preprocessor has.
LEMMA AllProperties ==
  ASSUME NEW q \in PPType
  PROVE  /\ All(q) \in Seq(GoodToken)
         /\ Len(q.CachedTokens) \in Nat /\ Len(q.lexers) \in Nat
         /\ Len(All(q)) = Len(q.CachedTokens) + Len(q.lexers)
         /\ \A i \in 1..Len(q.CachedTokens) : All(q)[i] = q.CachedTokens[i]
         /\ \A i \in 1..Len(q.lexers), j \in Nat :
               j = Len(q.CachedTokens) + i => All(q)[j] = q.lexers[i]
<1>1. q.CachedTokens \in Seq(GoodToken) /\ q.lexers \in Seq(GoodToken)
  BY DEF PPType
<1> DEFINE c == q.CachedTokens
           l == q.lexers
<1>2. Len(c) \in Nat /\ Len(l) \in Nat
  BY <1>1, LenProperties
<1> HIDE DEF c, l
<1>3. /\ c \o l \in Seq(GoodToken) /\ Len(c \o l) = Len(c) + Len(l)
      /\ \A i \in 1..(Len(c) + Len(l)) :
            (c \o l)[i] = IF i <= Len(c) THEN c[i] ELSE l[i - Len(c)]
  BY <1>1, ConcatProperties DEF c, l
<1>4. ASSUME NEW i \in 1..Len(c) PROVE (c \o l)[i] = c[i]
  <2>1. i \in 1..(Len(c) + Len(l)) /\ i <= Len(c)
    BY <1>2
  <2> QED BY <2>1, <1>3
<1>5. ASSUME NEW i \in 1..Len(l), NEW j \in Nat, j = Len(c) + i PROVE (c \o l)[j] = l[i]
  <2>1. j \in 1..(Len(c) + Len(l)) /\ ~(j <= Len(c)) /\ j - Len(c) = i
    BY <1>2, <1>5
  <2> QED BY <2>1, <1>3
<1> QED BY <1>2, <1>3, <1>4, <1>5 DEF All, c, l

\* To replace in the cache is to replace in everything.
LEMMA AllSplice ==
  ASSUME NEW q \in PPType, NEW r \in PPType, NEW ts \in Seq(GoodToken),
         NEW a \in 0..Len(q.CachedTokens), NEW b \in a..Len(q.CachedTokens),
         r.CachedTokens = Splice(q.CachedTokens, a, b, ts), r.lexers = q.lexers
  PROVE  All(r) = Splice(All(q), a, b, ts)
<1> DEFINE c == q.CachedTokens
           l == q.lexers
           s == All(q)
           c2 == r.CachedTokens
           s2 == All(r)
           n == Len(ts)
<1>1. c \in Seq(GoodToken) /\ l \in Seq(GoodToken) /\ c2 \in Seq(GoodToken)
  BY DEF PPType
<1>2. Len(c) \in Nat /\ Len(l) \in Nat /\ Len(c2) \in Nat /\ n \in Nat
  BY <1>1, LenProperties
<1>3. /\ s \in Seq(GoodToken) /\ Len(s) = Len(c) + Len(l)
      /\ \A i \in 1..Len(c) : s[i] = c[i]
      /\ \A i \in 1..Len(l), j \in Nat : j = Len(c) + i => s[j] = l[i]
  BY AllProperties
<1>4. /\ s2 \in Seq(GoodToken) /\ Len(s2) = Len(c2) + Len(l)
      /\ \A i \in 1..Len(c2) : s2[i] = c2[i]
      /\ \A i \in 1..Len(l), j \in Nat : j = Len(c2) + i => s2[j] = l[i]
  <2>1. /\ All(r) \in Seq(GoodToken) /\ Len(All(r)) = Len(r.CachedTokens) + Len(r.lexers)
        /\ \A i \in 1..Len(r.CachedTokens) : All(r)[i] = r.CachedTokens[i]
        /\ \A i \in 1..Len(r.lexers), j \in Nat :
              j = Len(r.CachedTokens) + i => All(r)[j] = r.lexers[i]
    BY AllProperties
  <2> QED BY <2>1
<1>5. IsSplice(c2, c, a, b, ts)
  BY <1>1, SpliceProperties
<1> HIDE DEF c, l, s, c2, s2, n
<1>6. /\ Len(c2) = Len(c) - (b - a) + n
      /\ \A i \in 1..a : c2[i] = c[i]
      /\ \A i \in 1..n, j \in Nat : j = a + i => c2[j] = ts[i]
      /\ \A i \in (b + 1)..Len(c), j \in Nat : j = i - b + a + n => c2[j] = c[i]
  BY <1>5 DEF IsSplice, n
<1>7. a \in Nat /\ b \in Nat /\ a <= b /\ b <= Len(c)
  BY <1>2 DEF c
<1>8. Len(s2) = Len(s) - (b - a) + n
  BY <1>2, <1>3, <1>4, <1>6, <1>7
<1>9. ASSUME NEW i \in 1..a PROVE s2[i] = s[i]
  <2>1. i \in 1..Len(c) /\ i \in 1..Len(c2)
    BY <1>2, <1>6, <1>7
  <2> QED BY <2>1, <1>3, <1>4, <1>6
<1>10. ASSUME NEW i \in 1..n, NEW j \in Nat, j = a + i PROVE s2[j] = ts[i]
  <2>1. j \in 1..Len(c2)
    BY <1>2, <1>6, <1>7, <1>10
  <2> QED BY <2>1, <1>4, <1>6, <1>10
<1>11. ASSUME NEW i \in (b + 1)..Len(s), NEW j \in Nat, j = i - b + a + n PROVE s2[j] = s[i]
  <2>1. CASE i <= Len(c)
    <3>1. i \in (b + 1)..Len(c) /\ i \in 1..Len(c) /\ j \in 1..Len(c2)
      <4>1. Len(c2) = Len(c) - (b - a) + n /\ Len(c) \in Nat /\ n \in Nat /\ Len(s) \in Nat
        BY <1>2, <1>6
      <4> QED BY <4>1, <2>1, <1>7, <1>11
    <3>2. c2[j] = c[i]
      BY <3>1, <1>6, <1>11
    <3>3. s2[j] = c2[j]
      BY <3>1, <1>4
    <3>4. s[i] = c[i]
      BY <3>1, <1>3
    <3> QED BY <3>2, <3>3, <3>4
  <2>2. CASE i > Len(c)
    <3> DEFINE k == i - Len(c)
    <3>1. k \in 1..Len(l) /\ i \in Nat /\ i = Len(c) + k /\ j = Len(c2) + k
      BY <2>2, <1>2, <1>3, <1>6, <1>7, <1>11
    <3> HIDE DEF k
    <3>2. s[i] = l[k] /\ s2[j] = l[k]
      BY <3>1, <1>3, <1>4
    <3> QED BY <3>2
  <2> QED BY <1>2, <1>7, <2>1, <2>2
<1>12. IsSplice(s2, s, a, b, ts)
  BY <1>8, <1>9, <1>10, <1>11 DEF IsSplice, n
<1>13. a \in 0..Len(s) /\ b \in a..Len(s)
  BY <1>2, <1>3, <1>7
<1>14. s2 = Splice(s, a, b, ts)
  BY <1>3, <1>4, <1>12, <1>13, SpliceUnique
<1> QED BY <1>14 DEF s, s2

\* EnterToken: the token is put where the next one is read from.
LEMMA EnterTokenProperties ==
  ASSUME NEW q, Cached(q), NEW t \in GoodToken
  PROVE  LET r == EnterToken(q, t)
         IN /\ Cached(r)
            /\ All(r) = Splice(All(q), q.CachedLexPos, q.CachedLexPos, <<t>>)
            /\ r.CachedLexPos = q.CachedLexPos
            /\ r.BacktrackPositions = q.BacktrackPositions
            /\ r.caching /\ Unread(r)
            /\ r.CachedTokens[r.CachedLexPos + 1] = t
<1> DEFINE r == EnterToken(q, t)
           c == q.CachedTokens
           p == q.CachedLexPos
<1>1. q \in PPType /\ c \in Seq(GoodToken) /\ p \in Nat /\ p <= Len(c) /\ Len(c) \in Nat
  BY LenProperties DEF Cached, PPType
<1>2. p \in 0..Len(c) /\ p \in p..Len(c) /\ <<t>> \in Seq(GoodToken)
  BY <1>1
<1>3. /\ Splice(c, p, p, <<t>>) \in Seq(GoodToken)
      /\ IsSplice(Splice(c, p, p, <<t>>), c, p, p, <<t>>)
  BY <1>1, <1>2, SpliceProperties
<1>4. /\ r.CachedTokens = Splice(c, p, p, <<t>>) /\ r.lexers = q.lexers
      /\ r.CachedLexPos = p /\ r.BacktrackPositions = q.BacktrackPositions
      /\ r.caching = TRUE /\ r \in PPType
  BY <1>1, <1>3 DEF EnterToken, PPType
<1>5. Len(r.CachedTokens) = Len(c) + 1 /\ r.CachedTokens[p + 1] = t
  <2>1. Len(<<t>>) = 1 /\ <<t>>[1] = t /\ 1 \in 1..1 /\ p + 1 \in Nat /\ p - p = 0
    BY <1>1
  <2> QED BY <2>1, <1>1, <1>3, <1>4 DEF IsSplice
<1>6. All(r) = Splice(All(q), p, p, <<t>>)
  <2> DEFINE x == <<t>>
  <2>1. /\ q \in PPType /\ r \in PPType /\ x \in Seq(GoodToken)
        /\ p \in 0..Len(q.CachedTokens) /\ p \in p..Len(q.CachedTokens)
        /\ r.CachedTokens = Splice(q.CachedTokens, p, p, x) /\ r.lexers = q.lexers
    BY <1>1, <1>2, <1>4
  <2> HIDE DEF x, r, p
  <2>2. All(r) = Splice(All(q), p, p, x)
    BY <2>1, AllSplice
  <2> QED BY <2>2 DEF x
<1> HIDE DEF r
<1>7. Cached(r)
  BY <1>1, <1>4, <1>5 DEF Cached
<1> QED BY <1>1, <1>4, <1>5, <1>6, <1>7 DEF Unread, r

\* One token more was read.
LEMMA LexProperties ==
  ASSUME NEW q, Cached(q), q.CachedLexPos < Len(All(q))
  PROVE  LET r == Lex(q)
             p == q.CachedLexPos
         IN /\ Cached(r)
            /\ LexResult(q) = All(q)[p + 1] /\ LexResult(q) \in GoodToken
            /\ r.BacktrackPositions = q.BacktrackPositions
            /\ \/ All(r) = All(q) /\ r.CachedLexPos = p + 1
               \/ /\ q.BacktrackPositions = << >>
                  /\ ~(q.caching /\ Unread(q))
                  /\ r.CachedLexPos = 0
                  /\ All(r) = Splice(All(q), 0, p + 1, << >>)
<1> DEFINE c == q.CachedTokens
           l == q.lexers
           p == q.CachedLexPos
           back == q.BacktrackPositions
           s == All(q)
           r == Lex(q)
<1>1. /\ q \in PPType /\ c \in Seq(GoodToken) /\ l \in Seq(GoodToken) /\ back \in Seq(Nat)
      /\ p \in Nat /\ p <= Len(c) /\ Len(c) \in Nat /\ Len(l) \in Nat
  BY LenProperties DEF Cached, PPType
<1>2. /\ s \in Seq(GoodToken) /\ Len(s) = Len(c) + Len(l)
      /\ \A i \in 1..Len(c) : s[i] = c[i]
      /\ \A i \in 1..Len(l), j \in Nat : j = Len(c) + i => s[j] = l[i]
  BY <1>1, AllProperties
<1>3. p < Len(s)
  OBVIOUS
<1>4. /\ Unread(q) <=> p < Len(c)
      /\ \A k \in 1..Len(back) : back[k] \in Nat /\ back[k] <= p
      /\ \A k \in 1..Len(back) : \A j \in 1..k : back[j] <= back[k]
      /\ back # << >> => q.caching
      /\ q.caching \in BOOLEAN
      /\ ~q.caching => c = << >>
  BY <1>1, ElementOfSeq DEF Cached, Unread, PPType
<1>5. \A k \in 1..Len(back) : back[k] <= p + 1
  BY <1>1, <1>4
<1> HIDE DEF c, l, p, back, s
<1>6. s[p + 1] \in GoodToken
  <2>1. p + 1 \in 1..Len(s)
    BY <1>1, <1>2, <1>3
  <2> QED BY <2>1, <1>2, ElementOfSeq
<1>7. CASE q.caching /\ Unread(q)
  <2>1. p + 1 \in 1..Len(c)
    BY <1>1, <1>4, <1>7
  <2> DEFINE n == p + 1
  <2>2. r = [q EXCEPT !.CachedLexPos = n] /\ LexResult(q) = c[p + 1] /\ n \in Nat
    BY <1>1, <1>7 DEF Lex, LexResult, c, p
  <2> HIDE DEF r, n
  <2>3. /\ r \in PPType /\ r.CachedTokens = c /\ r.lexers = l /\ r.CachedLexPos = p + 1
        /\ r.BacktrackPositions = back /\ r.caching = q.caching
    <3>1. /\ r \in PPType /\ r.CachedTokens = q.CachedTokens /\ r.lexers = q.lexers
          /\ r.CachedLexPos = n /\ r.BacktrackPositions = q.BacktrackPositions
          /\ r.caching = q.caching
      BY <1>1, <2>2 DEF PPType
    <3> QED BY <3>1 DEF c, l, back, n
  <2>4. c[p + 1] = s[p + 1]
    BY <2>1, <1>2
  <2>5. All(r) = s
    BY <2>3 DEF All, c, l, s
  <2>6. p + 1 <= Len(c)
    BY <2>1, <1>1
  <2>7. Cached(r)
    BY <2>3, <2>6, <1>4, <1>5 DEF Cached
  <2> QED BY <2>2, <2>3, <2>4, <2>5, <2>7, <1>6 DEF r, s, p, back
<1>8. CASE ~(q.caching /\ Unread(q))
  <2>1. p = Len(c)
    <3>1. CASE q.caching
      BY <3>1, <1>1, <1>4, <1>8
    <3>2. CASE ~q.caching
      <4>1. Len(c) = 0
        BY <3>2, <1>4
      <4> QED BY <4>1, <1>1
    <3> QED BY <3>1, <3>2
  <2>2. Len(l) > 0 /\ 1 \in 1..Len(l)
    BY <2>1, <1>1, <1>2, <1>3
  <2>3. LexResult(q) = s[p + 1] /\ l[1] = s[p + 1] /\ l[1] \in GoodToken
    <3>1. LexResult(q) = l[1]
      BY <1>8 DEF LexResult, l
    <3>2. p + 1 \in Nat /\ p + 1 = Len(c) + 1
      BY <1>1, <2>1
    <3>3. s[p + 1] = l[1]
      BY <3>2, <2>2, <1>2
    <3> QED BY <3>1, <3>3, <1>6
  <2>4. /\ Tail(l) \in Seq(GoodToken) /\ Len(Tail(l)) = Len(l) - 1
        /\ \A i \in 1..(Len(l) - 1) : Tail(l)[i] = l[i + 1]
    <3>1. l # << >>
      BY <2>2
    <3> QED BY <3>1, <1>1, HeadTailProperties
  <2>5. CASE q.caching /\ isBacktrackEnabled(q)
    <3> DEFINE c2 == Append(c, l[1])
               l2 == Tail(l)
               n == p + 1
    <3>1. r = [q EXCEPT !.CachedTokens = c2, !.CachedLexPos = n, !.lexers = l2] /\ n \in Nat
      BY <1>1, <1>8, <2>5 DEF Lex, c, l, p
    <3>2. /\ c2 \in Seq(GoodToken) /\ Len(c2) = Len(c) + 1
          /\ \A i \in 1..Len(c) : c2[i] = c[i]
          /\ c2[Len(c) + 1] = l[1]
      BY <2>3, <1>1, AppendProperties
    <3> HIDE DEF r, n
    <3>3. /\ r.CachedTokens = c2 /\ r.lexers = l2 /\ r.CachedLexPos = p + 1
          /\ r.BacktrackPositions = back /\ r.caching = TRUE /\ r \in PPType
      <4>1. l2 \in Seq(GoodToken)
        BY <2>4
      <4> HIDE DEF c2, l2
      <4>2. /\ r.CachedTokens = c2 /\ r.lexers = l2 /\ r.CachedLexPos = n
            /\ r.BacktrackPositions = q.BacktrackPositions /\ r.caching = q.caching
            /\ r \in PPType
        BY <4>1, <1>1, <3>1, <3>2 DEF PPType
      <4>3. q.caching = TRUE
        BY <1>4, <2>5
      <4> QED BY <4>2, <4>3 DEF n, back
    <3> DEFINE s2 == All(r)
    <3>4. /\ s2 \in Seq(GoodToken) /\ Len(s2) = Len(c2) + Len(l2)
          /\ \A i \in 1..Len(c2) : s2[i] = c2[i]
          /\ \A i \in 1..Len(l2), j \in Nat : j = Len(c2) + i => s2[j] = l2[i]
      <4>1. /\ s2 \in Seq(GoodToken) /\ Len(s2) = Len(r.CachedTokens) + Len(r.lexers)
            /\ \A i \in 1..Len(r.CachedTokens) : s2[i] = r.CachedTokens[i]
            /\ \A i \in 1..Len(r.lexers), j \in Nat :
                  j = Len(r.CachedTokens) + i => s2[j] = r.lexers[i]
        BY <3>3, AllProperties
      <4> HIDE DEF s2, l2, c2
      <4> QED BY <4>1, <3>3 DEF l2
    <3>5. s2 = s
      <4> HIDE DEF s2, l2, c2
      <4>1. Len(s2) = Len(s)
        BY <3>2, <3>4, <2>4, <1>1, <1>2 DEF l2
      <4>2. ASSUME NEW j \in 1..Len(s2) PROVE s2[j] = s[j]
        <5>1. CASE j <= Len(c)
          <6>1. j \in 1..Len(c) /\ j \in 1..Len(c2)
            BY <5>1, <3>2, <1>1
          <6> QED BY <6>1, <3>2, <3>4, <1>2
        <5>2. CASE j = Len(c) + 1
          <6>1. j \in 1..Len(c2) /\ j \in Nat
            BY <5>2, <3>2, <1>1
          <6> QED BY <6>1, <5>2, <3>2, <3>4, <1>2, <2>2
        <5>3. CASE j > Len(c) + 1
          <6> DEFINE i == j - Len(c) - 1
          <6>1. /\ i \in 1..(Len(l) - 1) /\ i \in 1..Len(l2) /\ i + 1 \in 1..Len(l) /\ j \in Nat
                /\ j = Len(c2) + i /\ j = Len(c) + (i + 1)
            <7>1. Len(s2) = Len(c) + Len(l) /\ Len(l2) = Len(l) - 1 /\ Len(c2) = Len(c) + 1
              BY <4>1, <1>2, <2>4, <3>2 DEF l2
            <7> QED BY <7>1, <5>3, <1>1
          <6> HIDE DEF i
          <6>2. s2[j] = l2[i] /\ l2[i] = l[i + 1] /\ s[j] = l[i + 1]
            BY <6>1, <3>4, <2>4, <1>2 DEF l2
          <6> QED BY <6>2
        <5>4. j \in Nat /\ Len(c) \in Nat
          BY <1>1
        <5> QED BY <5>1, <5>2, <5>3, <5>4
      <4> QED BY <4>1, <4>2, <3>4, <1>2, SameElements
    <3>6. p + 1 <= Len(c2)
      BY <3>2, <2>1, <1>1
    <3>7. Cached(r)
      BY <3>3, <3>6, <1>4, <1>5 DEF Cached
    <3> QED BY <3>3, <3>5, <3>7, <2>3, <1>6 DEF r, s, p, back
  <2>6. CASE ~(q.caching /\ isBacktrackEnabled(q))
    <3>1. back = << >>
      BY <2>6, <1>4 DEF back, isBacktrackEnabled
    <3>2. /\ r.CachedTokens = << >> /\ r.lexers = Tail(l) /\ r.CachedLexPos = 0
          /\ r.BacktrackPositions = << >> /\ r.caching = FALSE /\ r \in PPType
      <4>1. CASE q.caching
        <5>1. r = [q EXCEPT !.CachedTokens = << >>, !.CachedLexPos = 0,
                            !.caching = FALSE, !.lexers = Tail(l)]
          BY <4>1, <1>8, <2>6 DEF Lex, l
        <5>2. << >> \in Seq(GoodToken)
          OBVIOUS
        <5> HIDE DEF r
        <5> QED BY <5>1, <5>2, <3>1, <1>1, <2>4 DEF PPType, back
      <4>2. CASE ~q.caching
        <5>1. r = [q EXCEPT !.lexers = Tail(l)]
          BY <4>2 DEF Lex, l
        <5>2. c = << >> /\ p = 0 /\ q.caching = FALSE
          <6>1. c = << >> /\ q.caching = FALSE
            BY <4>2, <1>4
          <6>2. Len(c) = 0
            BY <6>1
          <6> QED BY <6>1, <6>2, <2>1
        <5> HIDE DEF r
        <5> QED BY <5>1, <5>2, <3>1, <1>1, <2>4 DEF PPType, c, p, back
      <4> QED BY <4>1, <4>2
    <3> HIDE DEF r
    <3> DEFINE s2 == All(r)
               l2 == Tail(l)
    <3>3. s2 = Splice(s, 0, p + 1, << >>)
      <4>1. Len(<< >>) = 0 /\ << >> \in Seq(GoodToken)
        OBVIOUS
      <4>2. /\ s2 \in Seq(GoodToken) /\ Len(s2) = 0 + Len(l2)
            /\ \A i \in 1..Len(l2), j \in Nat : j = 0 + i => s2[j] = l2[i]
        <5>1. /\ s2 \in Seq(GoodToken) /\ Len(s2) = Len(r.CachedTokens) + Len(r.lexers)
              /\ \A i \in 1..Len(r.lexers), j \in Nat :
                    j = Len(r.CachedTokens) + i => s2[j] = r.lexers[i]
          BY <3>2, AllProperties
        <5> QED BY <5>1, <4>1, <3>2
      <4> HIDE DEF s2, l2
      <4>3. 0 \in 0..Len(s) /\ p + 1 \in 0..Len(s)
        BY <1>1, <1>2, <1>3
      <4>4. Len(s2) = Len(s) - (p + 1)
        BY <4>2, <2>1, <2>4, <1>1, <1>2 DEF l2
      <4>5. ASSUME NEW i \in (p + 1 + 1)..Len(s), NEW j \in Nat, j = i - (p + 1)
            PROVE  s2[j] = s[i]
        <5>1. /\ j \in 1..(Len(l) - 1) /\ j + 1 \in 1..Len(l) /\ i \in Nat
              /\ i = Len(c) + (j + 1) /\ j = 0 + j
          <6>1. Len(s) = Len(c) + Len(l) /\ i \in (Len(c) + 2)..Len(s) /\ j = i - Len(c) - 1
            BY <1>1, <1>2, <2>1, <4>5
          <6> QED BY <6>1, <1>1
        <5>2. Len(l2) = Len(l) - 1
          BY <2>4 DEF l2
        <5>3. s2[j] = l2[j] /\ l2[j] = l[j + 1] /\ s[i] = l[j + 1]
          BY <5>1, <5>2, <4>2, <2>4, <1>2 DEF l2
        <5> QED BY <5>3
      <4>6. s \in Seq(GoodToken)
        BY <1>2
      <4> QED BY <4>2, <4>3, <4>4, <4>5, <4>6, SpliceFront
    <3>4. Cached(r)
      BY <3>2 DEF Cached
    <3> QED BY <3>1, <3>2, <3>3, <3>4, <2>3, <1>6, <1>8 DEF r, s, p, back
  <2> QED BY <2>5, <2>6
<1> QED BY <1>7, <1>8

\* No trial began after position n.
NoneAfter(q, n) ==
    \A k \in 1..Len(q.BacktrackPositions) : q.BacktrackPositions[k] <= n

\* Cached tokens are replaced and the position moves.
Moved(q, c, n) == [q EXCEPT !.CachedTokens = c, !.CachedLexPos = n]

\* Replacing in the cache keeps it a cache if no trial began after the new
\* position.
LEMMA ReplacedInCache ==
  ASSUME NEW q, Cached(q), q.caching = TRUE, NEW ts \in Seq(GoodToken),
         NEW a \in 0..Len(q.CachedTokens), NEW b \in a..Len(q.CachedTokens),
         NEW n \in Nat, n <= Len(q.CachedTokens) - (b - a) + Len(ts),
         NoneAfter(q, n)
  PROVE  LET r == Moved(q, Splice(q.CachedTokens, a, b, ts), n)
         IN /\ Cached(r)
            /\ All(r) = Splice(All(q), a, b, ts)
            /\ r.CachedTokens = Splice(q.CachedTokens, a, b, ts)
            /\ r.CachedLexPos = n
            /\ r.BacktrackPositions = q.BacktrackPositions
            /\ r.caching = TRUE
            /\ Len(r.CachedTokens) = Len(q.CachedTokens) - (b - a) + Len(ts)
<1> DEFINE c == q.CachedTokens
           c2 == Splice(c, a, b, ts)
           r == Moved(q, c2, n)
<1>1. q \in PPType /\ c \in Seq(GoodToken)
  BY DEF Cached, PPType
<1>2. c2 \in Seq(GoodToken) /\ IsSplice(c2, c, a, b, ts)
  BY <1>1, SpliceProperties
<1>3. Len(c2) = Len(c) - (b - a) + Len(ts)
  BY <1>2 DEF IsSplice
<1>4. r = [q EXCEPT !.CachedTokens = c2, !.CachedLexPos = n]
  BY DEF Moved
<1> HIDE DEF c2, r
<1>5. /\ r \in PPType /\ r.CachedTokens = c2 /\ r.CachedLexPos = n /\ r.lexers = q.lexers
      /\ r.BacktrackPositions = q.BacktrackPositions /\ r.caching = q.caching
  BY <1>1, <1>2, <1>4 DEF PPType
<1>6. All(r) = Splice(All(q), a, b, ts)
  BY <1>1, <1>5, AllSplice DEF c2
<1>7. r.CachedLexPos <= Len(r.CachedTokens)
  BY <1>3, <1>5
<1>8. Cached(r)
  BY <1>5, <1>7 DEF Cached, NoneAfter
<1> QED BY <1>3, <1>5, <1>6, <1>8 DEF c2, r

\* Looking ahead only moves tokens into the cache.
LEMMA LookAheadProperties ==
  ASSUME NEW q, Cached(q), NEW n \in Nat, Missing(q, n) <= Len(q.lexers)
  PROVE  LET r == LookAhead(q, n)
         IN /\ Cached(r)
            /\ All(r) = All(q)
            /\ r.CachedLexPos = q.CachedLexPos
            /\ r.BacktrackPositions = q.BacktrackPositions
            /\ r.caching = TRUE
            /\ r.CachedLexPos + n < Len(r.CachedTokens)
<1> DEFINE c == q.CachedTokens
           l == q.lexers
           p == q.CachedLexPos
           back == q.BacktrackPositions
           r == LookAhead(q, n)
           m == Missing(q, n)
<1>1. /\ q \in PPType /\ c \in Seq(GoodToken) /\ l \in Seq(GoodToken)
      /\ p \in Nat /\ p <= Len(c) /\ Len(c) \in Nat /\ Len(l) \in Nat /\ q.caching \in BOOLEAN
  BY LenProperties DEF Cached, PPType
<1>2. ~q.caching => Len(c) = 0
  BY DEF Cached
<1> HIDE DEF c, l, p
<1>3. CASE p + n < Len(c)
  <2>1. r = q
    BY <1>3 DEF LookAhead, c, p
  <2>2. q.caching = TRUE
    BY <1>1, <1>2, <1>3
  <2> QED BY <2>1, <2>2, <1>3 DEF c, p
<1>4. CASE ~(p + n < Len(c))
  <2>1. m = p + n + 1 - Len(c) /\ m \in 1..Len(l)
    <3>1. m = p + n + 1 - Len(c)
      BY DEF Missing, p, c
    <3>2. m <= Len(l)
      BY DEF l
    <3> HIDE DEF m
    <3> QED BY <3>1, <3>2, <1>1, <1>4
  <2> DEFINE front == SubSeq(l, 1, m)
             c2 == c \o front
             l2 == SubSeq(l, m + 1, Len(l))
  <2>2. r = [q EXCEPT !.CachedTokens = c2, !.lexers = l2, !.caching = TRUE]
    BY <1>4 DEF LookAhead, c, p, l
  <2> HIDE DEF r, m
  <2>3. \A i \in 1..Len(l) : l[i] \in GoodToken
    BY <1>1, ElementOfSeq
  <2>4. /\ front \in Seq(GoodToken) /\ Len(front) = m
        /\ \A i \in 1..m : front[i] = l[i]
    <3>1. \A i \in 1..m : l[i] \in GoodToken
      BY <2>1, <2>3, <1>1
    <3>2. /\ front \in Seq(GoodToken)
          /\ Len(front) = IF 1 <= m THEN m - 1 + 1 ELSE 0
          /\ \A i \in 1..(m - 1 + 1) : front[i] = l[1 + i - 1]
      BY <2>1, <3>1, SubSeqProperties
    <3> HIDE DEF front
    <3>3. m - 1 + 1 = m /\ \A i \in 1..m : 1 + i - 1 = i
      BY <2>1
    <3> QED BY <2>1, <3>2, <3>3
  <2>5. /\ l2 \in Seq(GoodToken) /\ Len(l2) = Len(l) - m
        /\ \A i \in 1..(Len(l) - m) : l2[i] = l[m + i]
    <3>1. \A i \in (m + 1)..Len(l) : l[i] \in GoodToken
      BY <2>1, <2>3, <1>1
    <3>2. /\ l2 \in Seq(GoodToken)
          /\ Len(l2) = IF m + 1 <= Len(l) THEN Len(l) - (m + 1) + 1 ELSE 0
          /\ \A i \in 1..(Len(l) - (m + 1) + 1) : l2[i] = l[m + 1 + i - 1]
      BY <2>1, <1>1, <3>1, SubSeqProperties
    <3> HIDE DEF l2
    <3>3. /\ Len(l) - (m + 1) + 1 = Len(l) - m /\ \A i \in 1..(Len(l) - m) : m + 1 + i - 1 = m + i
          /\ (IF m + 1 <= Len(l) THEN Len(l) - m ELSE 0) = Len(l) - m
      BY <2>1, <1>1
    <3> QED BY <3>2, <3>3
  <2> HIDE DEF front, l2
  <2>6. /\ c2 \in Seq(GoodToken) /\ Len(c2) = Len(c) + m
        /\ \A i \in 1..Len(c) : c2[i] = c[i]
        /\ \A i \in 1..m, j \in Nat : j = Len(c) + i => c2[j] = l[i]
    <3>1. /\ c2 \in Seq(GoodToken) /\ Len(c2) = Len(c) + Len(front)
          /\ \A i \in 1..(Len(c) + Len(front)) :
                c2[i] = IF i <= Len(c) THEN c[i] ELSE front[i - Len(c)]
      BY <1>1, <2>4, ConcatProperties
    <3> HIDE DEF c2
    <3>2. ASSUME NEW i \in 1..Len(c) PROVE c2[i] = c[i]
      <4>1. i \in 1..(Len(c) + m) /\ i <= Len(c)
        BY <1>1, <2>1
      <4> QED BY <4>1, <3>1, <2>4
    <3>3. ASSUME NEW i \in 1..m, NEW j \in Nat, j = Len(c) + i PROVE c2[j] = l[i]
      <4>1. j \in 1..(Len(c) + m) /\ ~(j <= Len(c)) /\ j - Len(c) = i
        BY <1>1, <2>1, <3>3
      <4> QED BY <4>1, <3>1, <2>4
    <3> QED BY <3>1, <3>2, <3>3, <2>4
  <2> HIDE DEF c2
  <2>7. /\ r \in PPType /\ r.CachedTokens = c2 /\ r.lexers = l2 /\ r.CachedLexPos = p
        /\ r.BacktrackPositions = back /\ r.caching = TRUE
    BY <1>1, <2>2, <2>5, <2>6 DEF PPType, p
  <2> DEFINE s == All(q)
             s2 == All(r)
  <2>8. /\ s \in Seq(GoodToken) /\ Len(s) = Len(c) + Len(l)
        /\ \A i \in 1..Len(c) : s[i] = c[i]
        /\ \A i \in 1..Len(l), j \in Nat : j = Len(c) + i => s[j] = l[i]
    BY <1>1, AllProperties DEF c, l
  <2>9. /\ s2 \in Seq(GoodToken) /\ Len(s2) = Len(c2) + Len(l2)
        /\ \A i \in 1..Len(c2) : s2[i] = c2[i]
        /\ \A i \in 1..Len(l2), j \in Nat : j = Len(c2) + i => s2[j] = l2[i]
    <3>1. /\ s2 \in Seq(GoodToken) /\ Len(s2) = Len(r.CachedTokens) + Len(r.lexers)
          /\ \A i \in 1..Len(r.CachedTokens) : s2[i] = r.CachedTokens[i]
          /\ \A i \in 1..Len(r.lexers), j \in Nat :
                j = Len(r.CachedTokens) + i => s2[j] = r.lexers[i]
      BY <2>7, AllProperties
    <3> HIDE DEF s2
    <3> QED BY <3>1, <2>7
  <2> HIDE DEF s, s2
  <2>10. Len(s2) = Len(s)
    BY <2>1, <2>5, <2>6, <2>8, <2>9, <1>1
  <2>11. ASSUME NEW j \in 1..Len(s2) PROVE s2[j] = s[j]
    <3>0. Len(s2) = Len(c) + Len(l) /\ Len(c2) = Len(c) + m /\ Len(l2) = Len(l) - m
      BY <2>5, <2>6, <2>8, <2>10
    <3>1. CASE j <= Len(c)
      <4>1. j \in 1..Len(c) /\ j \in 1..Len(c2)
        BY <3>0, <3>1, <1>1, <2>1
      <4> QED BY <4>1, <2>6, <2>8, <2>9
    <3>2. CASE Len(c) < j /\ j <= Len(c) + m
      <4> DEFINE i == j - Len(c)
      <4>1. i \in 1..m /\ i \in 1..Len(l) /\ j \in Nat /\ j = Len(c) + i /\ j \in 1..Len(c2)
        BY <3>0, <3>2, <1>1, <2>1
      <4> HIDE DEF i
      <4>2. s2[j] = c2[j] /\ c2[j] = l[i] /\ s[j] = l[i]
        BY <4>1, <2>6, <2>8, <2>9
      <4> QED BY <4>2
    <3>3. CASE Len(c) + m < j
      <4> DEFINE i == j - Len(c) - m
      <4>1. /\ i \in 1..(Len(l) - m) /\ i \in 1..Len(l2) /\ m + i \in 1..Len(l) /\ j \in Nat
            /\ j = Len(c2) + i /\ j = Len(c) + (m + i)
        BY <3>0, <3>3, <1>1, <2>1
      <4> HIDE DEF i
      <4>2. s2[j] = l2[i] /\ l2[i] = l[m + i] /\ s[j] = l[m + i]
        BY <4>1, <2>5, <2>8, <2>9
      <4> QED BY <4>2
    <3>4. j \in Nat /\ Len(c) \in Nat /\ m \in Nat
      BY <1>1, <2>1
    <3> QED BY <3>1, <3>2, <3>3, <3>4
  <2>12. s2 = s
    BY <2>8, <2>9, <2>10, <2>11, SameElements
  <2>13. p <= Len(c2) /\ p + n < Len(c2)
    BY <2>1, <2>6, <1>1
  <2>14. Cached(r)
    BY <2>7, <2>13, <1>1 DEF Cached, p
  <2> QED BY <2>7, <2>12, <2>13, <2>14 DEF r, s, s2, p
<1> QED BY <1>3, <1>4

\* A stream of tokens is put where the next token is read from.
LEMMA EnterTokenStreamProperties ==
  ASSUME NEW q, Cached(q), q.BacktrackPositions = << >>, NEW ts \in Seq(GoodToken)
  PROVE  LET r == EnterTokenStream(q, ts)
         IN /\ Cached(r)
            /\ All(r) = Splice(All(q), q.CachedLexPos, q.CachedLexPos, ts)
            /\ r.CachedLexPos = q.CachedLexPos
            /\ r.BacktrackPositions = << >>
<1> DEFINE c == q.CachedTokens
           l == q.lexers
           p == q.CachedLexPos
           r == EnterTokenStream(q, ts)
           n == Len(ts)
<1>1. /\ q \in PPType /\ c \in Seq(GoodToken) /\ l \in Seq(GoodToken)
      /\ p \in Nat /\ p <= Len(c) /\ Len(c) \in Nat /\ Len(l) \in Nat /\ q.caching \in BOOLEAN
      /\ n \in Nat
  BY LenProperties DEF Cached, PPType
<1>2. p \in 0..Len(c) /\ p \in p..Len(c)
  BY <1>1
<1>3. CASE q.caching /\ Unread(q)
  <2> DEFINE c2 == Splice(c, p, p, ts)
  <2>1. r = [q EXCEPT !.CachedTokens = c2]
    BY <1>3 DEF EnterTokenStream
  <2>2. c2 \in Seq(GoodToken) /\ IsSplice(c2, c, p, p, ts)
    BY <1>1, <1>2, SpliceProperties
  <2>3. Len(c2) = Len(c) - (p - p) + n
    BY <2>2 DEF IsSplice
  <2> HIDE DEF r, c2
  <2>4. /\ r \in PPType /\ r.CachedTokens = c2 /\ r.CachedLexPos = p /\ r.lexers = l
        /\ r.BacktrackPositions = << >> /\ r.caching = q.caching
    BY <2>1, <2>2, <1>1 DEF PPType
  <2>5. All(r) = Splice(All(q), p, p, ts)
    BY <2>4, <1>1, <1>2, AllSplice DEF c2
  <2> HIDE DEF c, p, n
  <2>6. p <= Len(c2)
    BY <2>3, <1>1
  <2>7. Cached(r)
    <3>1. r.caching = TRUE /\ r.CachedLexPos <= Len(r.CachedTokens)
      BY <2>4, <2>6, <1>3
    <3> QED BY <2>4, <3>1 DEF Cached
  <2> QED BY <2>4, <2>5, <2>7 DEF r, p
<1>4. CASE ~(q.caching /\ Unread(q))
  <2>1. p = Len(c)
    <3>1. ~q.caching => Len(c) = 0
      BY DEF Cached
    <3>2. Unread(q) <=> p < Len(c)
      BY DEF Unread
    <3> HIDE DEF c, p
    <3> QED BY <3>1, <3>2, <1>1, <1>4
  <2> DEFINE l2 == ts \o l
             s == All(q)
             s2 == All(r)
  <2>2. r = [q EXCEPT !.lexers = l2]
    BY <1>4 DEF EnterTokenStream
  <2>3. /\ l2 \in Seq(GoodToken) /\ Len(l2) = n + Len(l)
        /\ \A i \in 1..(n + Len(l)) : l2[i] = IF i <= n THEN ts[i] ELSE l[i - n]
    BY <1>1, ConcatProperties
  <2> HIDE DEF r, l2
  <2>4. /\ r \in PPType /\ r.CachedTokens = c /\ r.CachedLexPos = p /\ r.lexers = l2
        /\ r.BacktrackPositions = << >> /\ r.caching = q.caching
    BY <2>2, <2>3, <1>1 DEF PPType
  <2>5. /\ s \in Seq(GoodToken) /\ Len(s) = Len(c) + Len(l)
        /\ \A i \in 1..Len(c) : s[i] = c[i]
        /\ \A i \in 1..Len(l), j \in Nat : j = Len(c) + i => s[j] = l[i]
    BY <1>1, AllProperties
  <2>6. /\ s2 \in Seq(GoodToken) /\ Len(s2) = Len(c) + Len(l2)
        /\ \A i \in 1..Len(c) : s2[i] = c[i]
        /\ \A i \in 1..Len(l2), j \in Nat : j = Len(c) + i => s2[j] = l2[i]
    <3>1. /\ s2 \in Seq(GoodToken) /\ Len(s2) = Len(r.CachedTokens) + Len(r.lexers)
          /\ \A i \in 1..Len(r.CachedTokens) : s2[i] = r.CachedTokens[i]
          /\ \A i \in 1..Len(r.lexers), j \in Nat :
                j = Len(r.CachedTokens) + i => s2[j] = r.lexers[i]
      BY <2>4, AllProperties
    <3> HIDE DEF s2, c
    <3> QED BY <3>1, <2>4
  <2>7. Cached(r)
    BY <2>4 DEF Cached
  <2> HIDE DEF s, s2, c, l, p, n
  <2>8. Len(s2) = Len(s) - (p - p) + n
    BY <2>3, <2>5, <2>6, <1>1
  <2>9. ASSUME NEW i \in 1..p PROVE s2[i] = s[i]
    BY <2>1, <2>5, <2>6
  <2>10. ASSUME NEW i \in 1..n, NEW j \in Nat, j = p + i PROVE s2[j] = ts[i]
    <3>1. i \in 1..Len(l2) /\ i \in 1..(n + Len(l)) /\ i <= n /\ j = Len(c) + i
      BY <2>1, <2>3, <2>10, <1>1
    <3>2. s2[j] = l2[i] /\ l2[i] = ts[i]
      BY <3>1, <2>3, <2>6
    <3> QED BY <3>2
  <2>11. ASSUME NEW i \in (p + 1)..Len(s), NEW j \in Nat, j = i - p + p + n PROVE s2[j] = s[i]
    <3> DEFINE k == i - p
               m == j - p
    <3>1. /\ k \in 1..Len(l) /\ i \in Nat /\ i = Len(c) + k
          /\ m \in 1..Len(l2) /\ m \in 1..(n + Len(l)) /\ ~(m <= n) /\ m - n = k
          /\ j = Len(c) + m
      <4>1. Len(s) = Len(c) + Len(l) /\ Len(l2) = n + Len(l)
        BY <2>3, <2>5
      <4> QED BY <4>1, <2>1, <2>11, <1>1
    <3> HIDE DEF k, m
    <3>2. s2[j] = l2[m] /\ l2[m] = l[k] /\ s[i] = l[k]
      BY <3>1, <2>3, <2>5, <2>6
    <3> QED BY <3>2
  <2>12. IsSplice(s2, s, p, p, ts)
    BY <2>8, <2>9, <2>10, <2>11 DEF IsSplice, n
  <2>13. p \in 0..Len(s) /\ p \in p..Len(s)
    BY <2>5, <1>1
  <2>14. s2 = Splice(s, p, p, ts)
    BY <2>5, <2>6, <2>12, <2>13, SpliceUnique
  <2> QED BY <2>4, <2>7, <2>14 DEF r, s, s2, p
<1> QED BY <1>3, <1>4

\* The most recent tokens of the cache are replaced by one, at position i.
LEMMA ReplacedByOne ==
  ASSUME NEW q, Cached(q), NEW t \in GoodToken, NEW i \in 1..q.CachedLexPos,
         NoneAfter(q, i),
         NEW r, r = Moved(q, Splice(q.CachedTokens, i - 1, q.CachedLexPos, <<t>>), i)
  PROVE  /\ Cached(r)
         /\ All(r) = Splice(All(q), i - 1, q.CachedLexPos, <<t>>)
         /\ r.CachedLexPos = i
         /\ r.BacktrackPositions = q.BacktrackPositions
<1> DEFINE c == q.CachedTokens
           p == q.CachedLexPos
           ts == <<t>>
<1>1. /\ p \in Nat /\ p <= Len(c) /\ Len(c) \in Nat
  BY LenProperties DEF Cached, PPType
<1>2. ts \in Seq(GoodToken) /\ Len(ts) = 1
  OBVIOUS
<1>3. q.caching = TRUE
  <2>1. q.caching \in BOOLEAN /\ (~q.caching => Len(c) = 0)
    BY DEF Cached, PPType
  <2> HIDE DEF c, p
  <2>2. Len(c) # 0
    BY <1>1 DEF p
  <2> QED BY <2>1, <2>2
<1> HIDE DEF c, ts
<1>4. i - 1 \in 0..Len(c) /\ p \in (i - 1)..Len(c) /\ i \in Nat
      /\ i <= Len(c) - (p - (i - 1)) + 1
  <2> HIDE DEF p
  <2>1. i \in 1..p
    BY DEF p
  <2> QED BY <1>1, <2>1
<1>5. r = Moved(q, Splice(q.CachedTokens, i - 1, p, ts), i)
  BY DEF ts
<1>6. /\ Cached(r)
      /\ All(r) = Splice(All(q), i - 1, p, ts)
      /\ r.CachedLexPos = i
      /\ r.BacktrackPositions = q.BacktrackPositions
  <2> HIDE DEF p
  <2> DEFINE a == i - 1
  <2>1. i <= Len(c) - (p - a) + Len(ts)
    BY <1>2, <1>4
  <2>2. a \in 0..Len(c) /\ p \in a..Len(c)
    BY <1>4
  <2>3. r = Moved(q, Splice(q.CachedTokens, a, p, ts), i)
    BY <1>5
  <2> HIDE DEF a
  <2>4. /\ ts \in Seq(GoodToken) /\ i \in Nat /\ q.caching = TRUE
        /\ a \in 0..Len(q.CachedTokens) /\ p \in a..Len(q.CachedTokens)
        /\ i <= Len(q.CachedTokens) - (p - a) + Len(ts)
    BY <2>1, <2>2, <1>2, <1>3, <1>4 DEF c
  <2>5. LET m == Moved(q, Splice(q.CachedTokens, a, p, ts), i)
        IN /\ Cached(m) /\ All(m) = Splice(All(q), a, p, ts) /\ m.CachedLexPos = i
           /\ m.BacktrackPositions = q.BacktrackPositions
    BY <2>4, ReplacedInCache
  <2> QED BY <2>3, <2>5 DEF a
<1> QED BY <1>6 DEF ts

\* ReplacePreviousCachedToken.
LEMMA ReplacePreviousProperties ==
  ASSUME NEW q, Cached(q), q.caching = TRUE, q.CachedLexPos # 0,
         NEW x \in Seq(GoodToken), NEW n \in Nat, n = q.CachedLexPos + Len(x) - 1,
         NoneAfter(q, n)
  PROVE  LET r == ReplacePreviousCachedToken(q, x)
         IN /\ Cached(r)
            /\ All(r) = Splice(All(q), q.CachedLexPos - 1, q.CachedLexPos, x)
            /\ r.CachedLexPos = n
            /\ r.BacktrackPositions = q.BacktrackPositions
            /\ r.caching = TRUE
<1> DEFINE p == q.CachedLexPos
           c == q.CachedTokens
           a == p - 1
           r == ReplacePreviousCachedToken(q, x)
<1>1. /\ q \in PPType /\ p \in Nat /\ p # 0 /\ p <= Len(c) /\ c \in Seq(GoodToken)
      /\ Len(c) \in Nat /\ Len(x) \in Nat /\ n = p + Len(x) - 1
  BY LenProperties DEF Cached, PPType
<1>2. r = Moved(q, Splice(c, a, p, x), p + Len(x) - 1)
  BY DEF ReplacePreviousCachedToken, Moved
<1> HIDE DEF p, c, r
<1>3. /\ a \in 0..Len(c) /\ p \in a..Len(c) /\ n <= Len(c) - (p - a) + Len(x)
  BY <1>1
<1>4. r = Moved(q, Splice(c, a, p, x), n)
  BY <1>1, <1>2
<1> HIDE DEF a
<1>5. LET m == Moved(q, Splice(c, a, p, x), n)
      IN /\ Cached(m) /\ All(m) = Splice(All(q), a, p, x) /\ m.CachedLexPos = n
         /\ m.BacktrackPositions = q.BacktrackPositions /\ m.caching = TRUE
  <2>1. /\ a \in 0..Len(q.CachedTokens) /\ p \in a..Len(q.CachedTokens)
        /\ n <= Len(q.CachedTokens) - (p - a) + Len(x)
        /\ Cached(q) /\ q.caching = TRUE /\ NoneAfter(q, n)
        /\ x \in Seq(GoodToken) /\ n \in Nat
    BY <1>3 DEF c
  <2>2. LET m == Moved(q, Splice(q.CachedTokens, a, p, x), n)
        IN /\ Cached(m) /\ All(m) = Splice(All(q), a, p, x) /\ m.CachedLexPos = n
           /\ m.BacktrackPositions = q.BacktrackPositions /\ m.caching = TRUE
    BY ONLY <2>1, ReplacedInCache
  <2> QED BY <2>2 DEF c
<1> QED BY <1>4, <1>5 DEF r, a, p

\* What SplitGreater does in the cache: it drops the token after the one at p if
\* the two are merged, and replaces the one at p.
LEMMA SplitInCache ==
  ASSUME NEW q, Cached(q), q.caching = TRUE, NEW p \in Nat, p # 0, NEW merge \in BOOLEAN,
         q.CachedLexPos = IF merge THEN p + 1 ELSE p, NoneAfter(q, p),
         NEW x \in Seq(GoodToken), Len(x) \in 1..2
  PROVE  LET dropped == IF merge THEN ReplacePreviousCachedToken(q, << >>) ELSE q
             r == ReplacePreviousCachedToken(dropped, x)
         IN /\ ReplacePreviousCachedTokenAsserts(q)
            /\ ReplacePreviousCachedTokenAsserts(dropped)
            /\ Cached(r)
            /\ All(r) = Splice(All(q), p - 1, q.CachedLexPos, x)
            /\ r.CachedLexPos = p + Len(x) - 1
            /\ r.BacktrackPositions = q.BacktrackPositions
<1> DEFINE dropped == IF merge THEN ReplacePreviousCachedToken(q, << >>) ELSE q
           r == ReplacePreviousCachedToken(dropped, x)
           s == All(q)
           none == << >>
           n == p + Len(x) - 1
<1>1. none \in Seq(GoodToken) /\ Len(none) = 0
  OBVIOUS
<1>2. s \in Seq(GoodToken) /\ q.CachedLexPos <= Len(s) /\ Len(s) \in Nat
  <2>1. /\ q \in PPType /\ Len(q.CachedTokens) \in Nat /\ q.CachedLexPos \in Nat
        /\ q.CachedLexPos <= Len(q.CachedTokens)
    BY LenProperties DEF Cached, PPType
  <2>2. /\ s \in Seq(GoodToken) /\ Len(s) = Len(q.CachedTokens) + Len(q.lexers)
        /\ Len(q.lexers) \in Nat
    BY <2>1, AllProperties
  <2> DEFINE c == Len(q.CachedTokens)
             l == Len(q.lexers)
             p1 == q.CachedLexPos
  <2>3. Len(s) = c + l /\ c \in Nat /\ l \in Nat /\ p1 \in Nat /\ p1 <= c
    BY <2>1, <2>2
  <2> HIDE DEF s, c, l, p1
  <2>4. p1 <= Len(s) /\ Len(s) \in Nat
    BY <2>3
  <2> QED BY <2>2, <2>4 DEF p1
<1> HIDE DEF s, none
<1>3. /\ Cached(dropped) /\ dropped.caching = TRUE /\ dropped.CachedLexPos = p
      /\ dropped.BacktrackPositions = q.BacktrackPositions
      /\ All(dropped) = IF merge THEN Splice(s, p, p + 1, none) ELSE s
  <2>1. CASE merge
    <3>1. q.CachedLexPos = p + 1 /\ p + 1 # 0 /\ p + 1 - 1 = p /\ p = p + 1 + Len(none) - 1
      BY <2>1, <1>1
    <3>2. q.CachedLexPos # 0 /\ p = q.CachedLexPos + Len(none) - 1
      BY <3>1
    <3>3. LET d == ReplacePreviousCachedToken(q, none)
          IN /\ Cached(d) /\ All(d) = Splice(All(q), q.CachedLexPos - 1, q.CachedLexPos, none)
             /\ d.CachedLexPos = p
             /\ d.BacktrackPositions = q.BacktrackPositions /\ d.caching = TRUE
      BY <3>2, <1>1, ReplacePreviousProperties
    <3>4. dropped = ReplacePreviousCachedToken(q, none)
      BY <2>1 DEF none
    <3> HIDE DEF dropped
    <3> QED BY <3>1, <3>3, <3>4, <2>1 DEF s
  <2>2. CASE ~merge
    BY <2>2 DEF s
  <2> QED BY <2>1, <2>2
<1>4. ReplacePreviousCachedTokenAsserts(q) /\ ReplacePreviousCachedTokenAsserts(dropped)
  <2>1. q.CachedLexPos # 0
    OBVIOUS
  <2> QED BY <2>1, <1>3 DEF ReplacePreviousCachedTokenAsserts
<1> HIDE DEF dropped
<1>5. n \in Nat /\ p <= n /\ n = p + Len(x) - 1
  <2> DEFINE l == Len(x)
  <2>1. l \in 1..2 /\ n = p + l - 1
    OBVIOUS
  <2> HIDE DEF l, n
  <2>2. n \in Nat /\ p <= n
    BY <2>1
  <2> QED BY <2>1, <2>2 DEF l
<1> HIDE DEF n
<1>6. NoneAfter(dropped, n)
  <2>1. \A k \in 1..Len(q.BacktrackPositions) :
            q.BacktrackPositions[k] <= p /\ q.BacktrackPositions[k] \in Nat
    BY ElementOfSeq DEF NoneAfter, Cached, PPType
  <2> QED BY <2>1, <1>3, <1>5 DEF NoneAfter
<1>7. /\ Cached(r) /\ All(r) = Splice(All(dropped), p - 1, p, x) /\ r.CachedLexPos = n
      /\ r.BacktrackPositions = q.BacktrackPositions
  BY <1>3, <1>5, <1>6, ReplacePreviousProperties
<1> HIDE DEF r
<1>8. All(r) = Splice(s, p - 1, q.CachedLexPos, x)
  <2>1. CASE merge
    <3> DEFINE a == p - 1
    <3>1. a \in Nat /\ a + 1 = p /\ a + 2 = p + 1 /\ q.CachedLexPos = p + 1 /\ a + 1 < Len(s)
      BY <2>1, <1>2
    <3>2. All(r) = Splice(Splice(s, a + 1, a + 2, none), a, a + 1, x)
      BY <3>1, <2>1, <1>3, <1>7
    <3> HIDE DEF a
    <3>3. All(r) = Splice(s, a, a + 2, x)
      BY <3>1, <3>2, <1>2, RemoveThenSplice DEF none
    <3> QED BY <3>1, <3>3 DEF a
  <2>2. CASE ~merge
    BY <2>2, <1>3, <1>7
  <2> QED BY <2>1, <2>2
<1> QED BY <1>4, <1>5, <1>7, <1>8 DEF dropped, r, s

\* No position is after the one of the innermost trial.
LEMMA InnermostIsLast ==
  ASSUME NEW q, Cached(q), q.BacktrackPositions # << >>
  PROVE  /\ q.caching = TRUE
         /\ LastBacktrack(q) \in 0..q.CachedLexPos
         /\ \A k \in 1..Len(q.BacktrackPositions) : q.BacktrackPositions[k] <= LastBacktrack(q)
         /\ Len(q.BacktrackPositions) \in 1..Len(q.BacktrackPositions)
<1> DEFINE back == q.BacktrackPositions
           n == Len(back)
<1>1. back \in Seq(Nat) /\ q.CachedLexPos \in Nat /\ q.caching \in BOOLEAN
  BY DEF Cached, PPType
<1>2. n \in 1..n /\ \A k \in 1..n : back[k] \in Nat
  BY <1>1, PoppedProperties, ElementOfSeq
<1>3. back[n] <= q.CachedLexPos /\ \A k \in 1..n : back[k] <= back[n]
  BY <1>2 DEF Cached
<1>4. LastBacktrack(q) = back[n]
  BY DEF LastBacktrack
<1>5. q.caching = TRUE
  BY <1>1 DEF Cached
<1> QED BY <1>1, <1>2, <1>3, <1>4, <1>5

\* What is right entry by entry is the rest of the file.
LEMMA FollowsIsWhole ==
  ASSUME NEW q \in PPType, NEW t \in GoodToken, NEW p \in Nat, p <= Len(q.CachedTokens),
         Follows(All(q), t.last, p)
  PROVE  Whole(t, SubSeq(q.CachedTokens, p + 1, Len(q.CachedTokens)) \o q.lexers)
<1> DEFINE c == q.CachedTokens
           l == q.lexers
           s == All(q)
           right == SubSeq(c, p + 1, Len(c))
           w == right \o l
           x == <<t>>
           all == x \o w
           n == Len(s) - p
<1>1. /\ c \in Seq(GoodToken) /\ l \in Seq(GoodToken) /\ Len(c) \in Nat /\ Len(l) \in Nat
      /\ p <= Len(c) /\ \A i \in 1..Len(c) : c[i] \in GoodToken
  BY LenProperties, ElementOfSeq DEF PPType
<1>2. /\ s \in Seq(GoodToken) /\ Len(s) = Len(c) + Len(l)
      /\ \A i \in 1..Len(c) : s[i] = c[i]
      /\ \A i \in 1..Len(l), j \in Nat : j = Len(c) + i => s[j] = l[i]
  BY AllProperties
<1> HIDE DEF c, l, s, n
<1>3. /\ right \in Seq(GoodToken) /\ Len(right) = Len(c) - p
      /\ \A i \in 1..(Len(c) - p) : right[i] = c[p + i]
  <2>1. \A i \in (p + 1)..Len(c) : c[i] \in GoodToken
    BY <1>1
  <2>2. /\ right \in Seq(GoodToken)
        /\ Len(right) = IF p + 1 <= Len(c) THEN Len(c) - (p + 1) + 1 ELSE 0
        /\ \A i \in 1..(Len(c) - (p + 1) + 1) : right[i] = c[(p + 1) + i - 1]
    BY <2>1, <1>1, SubSeqProperties
  <2> HIDE DEF right
  <2> QED BY <2>2, <1>1
<1> HIDE DEF right
<1>4. /\ w \in Seq(GoodToken) /\ Len(w) = n
      /\ \A i \in 1..n : w[i] = s[p + i]
  <2>1. /\ w \in Seq(GoodToken) /\ Len(w) = Len(right) + Len(l)
        /\ \A i \in 1..(Len(right) + Len(l)) : w[i] = IF i <= Len(right) THEN right[i]
                                                      ELSE l[i - Len(right)]
    BY <1>1, <1>3, ConcatProperties
  <2> HIDE DEF w
  <2>2. Len(right) + Len(l) = n
    BY <1>1, <1>2, <1>3 DEF n
  <2>3. ASSUME NEW i \in 1..n PROVE w[i] = s[p + i]
    <3>1. CASE i <= Len(right)
      <4>1. i \in 1..(Len(c) - p) /\ p + i \in 1..Len(c)
        BY <3>1, <1>1, <1>3
      <4> QED BY <4>1, <3>1, <2>1, <2>2, <1>2, <1>3
    <3>2. CASE ~(i <= Len(right))
      <4> DEFINE k == i - Len(right)
      <4>1. k \in 1..Len(l) /\ p + i \in Nat /\ p + i = Len(c) + k
        BY <3>2, <2>2, <1>1, <1>3
      <4> HIDE DEF k
      <4>2. w[i] = l[k]
        BY <3>2, <2>1, <2>2 DEF k
      <4> QED BY <4>1, <4>2, <1>2
    <3> QED BY <3>1, <3>2
  <2> QED BY <2>1, <2>2, <2>3
<1>5. x \in Seq(GoodToken) /\ Len(x) = 1 /\ x[1] = t
  OBVIOUS
<1> HIDE DEF w, x
<1>6. n \in Nat /\ Len(s) \in Nat /\ p <= Len(s)
  BY <1>1, <1>2 DEF n
<1>7. /\ Len(all) = n + 1 /\ all[1] = t
      /\ \A i \in 1..n, j \in Nat : j = i + 1 => all[j] = s[p + i]
  <2>1. /\ Len(all) = 1 + n
        /\ \A j \in 1..(1 + n) : all[j] = IF j <= 1 THEN x[j] ELSE w[j - 1]
    <3>0. x \in Seq(GoodToken) /\ w \in Seq(GoodToken)
      BY <1>4, <1>5
    <3>1. /\ Len(all) = Len(x) + Len(w)
          /\ \A j \in 1..(Len(x) + Len(w)) : all[j] = IF j <= Len(x) THEN x[j] ELSE w[j - Len(x)]
      BY <3>0, ConcatProperties
    <3> HIDE DEF all
    <3> QED BY <3>1, <1>4, <1>5
  <2> HIDE DEF all
  <2>2. all[1] = t
    BY <2>1, <1>5, <1>6
  <2>3. ASSUME NEW i \in 1..n, NEW j \in Nat, j = i + 1 PROVE all[j] = s[p + i]
    <3>1. j \in 1..(1 + n) /\ ~(j <= 1) /\ j - 1 = i
      BY <2>3, <1>6
    <3> QED BY <3>1, <2>1, <1>4
  <2> QED BY <2>1, <2>2, <2>3, <1>6
<1> HIDE DEF all
<1>8. /\ p = Len(s) => t.last = End
      /\ p < Len(s) => s[p + 1].first = t.last + 1 /\ s[Len(s)].last = End
      /\ \A i \in (p + 1)..(Len(s) - 1) : s[i + 1].first = s[i].last + 1
  BY DEF Follows, s
<1>9. ASSUME NEW j \in 1..(Len(all) - 1) PROVE all[j + 1].first = all[j].last + 1
  <2>1. CASE j = 1
    <3>1. 1 \in 1..n /\ p < Len(s) /\ j + 1 \in Nat /\ j + 1 = 1 + 1
      BY <2>1, <1>6, <1>7 DEF n
    <3>2. all[j + 1] = s[p + 1]
      BY <3>1, <1>7
    <3> QED BY <3>1, <3>2, <2>1, <1>7, <1>8
  <2>2. CASE j # 1
    <3> DEFINE i == j - 1
    <3>1. /\ i \in 1..n /\ i + 1 \in 1..n /\ j \in Nat /\ j + 1 \in Nat /\ j = i + 1
          /\ j + 1 = (i + 1) + 1 /\ p + i \in (p + 1)..(Len(s) - 1) /\ p + (i + 1) = (p + i) + 1
      BY <2>2, <1>6, <1>7 DEF n
    <3> HIDE DEF i
    <3>2. all[j] = s[p + i] /\ all[j + 1] = s[(p + i) + 1]
      BY <3>1, <1>7
    <3> QED BY <3>1, <3>2, <1>8
  <2> QED BY <2>1, <2>2
<1>10. all[Len(all)].last = End
  <2>1. CASE n = 0
    <3>1. p = Len(s) /\ Len(all) = 1
      BY <2>1, <1>6, <1>7 DEF n
    <3> QED BY <3>1, <1>7, <1>8
  <2>2. CASE n # 0
    <3>0. n = Len(s) - p
      BY DEF n
    <3>1. n \in 1..n /\ Len(all) \in Nat /\ Len(all) = n + 1 /\ p + n = Len(s) /\ p < Len(s)
      BY <3>0, <2>2, <1>6, <1>7
    <3>2. all[Len(all)] = s[p + n]
      BY <3>1, <1>7
    <3> QED BY <3>1, <3>2, <1>8
  <2> QED BY <2>1, <2>2
<1>11. Adjacent(all)
  BY <1>9 DEF Adjacent
<1> QED BY <1>10, <1>11 DEF Whole, all, x, w, right, c, l

-----------------------------------------------------------------------------
\* Every function of the layer, as a step from Good to Good.

\* The trials outlast a replacement after the positions they return to, or of
\* the token before such a position by one that stands for the same text.
LEMMA TrialsReplaced ==
  ASSUME NEW s \in Seq(GoodToken), NEW x \in Seq(GoodToken), NEW back \in Seq(Nat), NEW ts,
         NEW a \in Nat, NEW b \in (a + 1)..Len(s),
         Trials(s, back, ts), Len(x) # 0, Adjacent(x),
         x[1].first = s[a + 1].first, x[Len(x)].last = s[b].last,
         \A k \in 1..Len(back) :
            \/ back[k] <= a
            \/ back[k] = b /\ b = a + 1 /\ Len(x) = 1 /\ Same(x[1], s[b])
  PROVE  Trials(Splice(s, a, b, x), back, ts)
<1> DEFINE r == Splice(s, a, b, x)
<1>1. /\ a \in 0..Len(s) /\ b \in a..Len(s) /\ b \in Nat /\ b <= Len(s) /\ a < b
      /\ Len(s) \in Nat /\ Len(x) \in Nat
  BY LenProperties
<1>2. r \in Seq(GoodToken) /\ IsSplice(r, s, a, b, x)
  BY <1>1, SpliceProperties
<1>3. /\ ts \in Seq(GoodToken) /\ Len(ts) = Len(back)
      /\ \A k \in 1..Len(back) : back[k] \in Nat /\ ts[k] \in GoodToken /\ ts[k].last \in Nat
  <2>1. ts \in Seq(GoodToken) /\ Len(ts) = Len(back)
    BY DEF Trials
  <2>2. \A k \in 1..Len(back) : back[k] \in Nat /\ ts[k] \in GoodToken
    BY <2>1, ElementOfSeq
  <2>4. ASSUME NEW t \in GoodToken PROVE t.last \in Nat
    BY EndProperties
  <2>3. \A k \in 1..Len(back) : ts[k].last \in Nat
    BY <2>2, <2>4
  <2> QED BY <2>1, <2>2, <2>3
<1>4. \A k \in 1..Len(back) :
         /\ Follows(s, ts[k].last, back[k])
         /\ (ts[k].kind = "name" /\ back[k] # 0) => Same(s[back[k]], ts[k])
         /\ \A j \in 1..k : back[j] < back[k] => Same(s[back[k]], ts[k])
  BY DEF Trials
<1>5. ASSUME NEW k \in 1..Len(back)
      PROVE  /\ Follows(r, ts[k].last, back[k])
             /\ back[k] # 0 => (Same(s[back[k]], ts[k]) => Same(r[back[k]], ts[k]))
  <2>1. CASE back[k] <= a
    <3> DEFINE p == back[k]
               e == ts[k].last
    <3>0. p \in Nat /\ e \in Nat /\ Follows(s, e, p)
      BY <1>3, <1>4
    <3>1. a \in p..Len(s)
      BY <1>1, <1>3, <2>1
    <3> HIDE DEF p, e
    <3>2. Follows(r, e, p)
      BY <3>0, <3>1, FollowsReplaced
    <3> HIDE DEF r
    <3>3. p # 0 => r[p] = s[p]
      <4>1. p # 0 => p \in 1..a
        BY <3>0, <3>1, <1>1
      <4> QED BY <4>1, <1>2 DEF IsSplice
    <3> QED BY <3>2, <3>3 DEF p, e
  <2>2. CASE back[k] = b /\ b = a + 1 /\ Len(x) = 1 /\ Same(x[1], s[b])
    <3>0. ts[k].last \in Nat /\ Follows(s, ts[k].last, b)
      BY <1>3, <1>4, <2>2
    <3>1. b \in b..Len(s) /\ b - (b - a) + Len(x) = b
      BY <1>1, <2>2
    <3>2. Follows(r, ts[k].last, b - (b - a) + Len(x))
      BY <3>0, <3>1, <1>1, FollowsBehind
    <3> HIDE DEF r
    <3>3. r[b] = x[1]
      <4>1. 1 \in 1..Len(x)
        BY <2>2
      <4> QED BY <4>1, <2>2, <1>1, <1>2 DEF IsSplice
    <3>4. Same(s[b], ts[k]) => Same(r[b], ts[k])
      BY <3>3, <2>2 DEF Same
    <3> QED BY <3>1, <3>2, <3>4, <2>2
  <2> QED BY <2>1, <2>2
<1> HIDE DEF r
<1>6. ASSUME NEW k \in 1..Len(back), NEW j \in 1..k, back[j] < back[k] PROVE back[k] # 0
  <2>1. j \in 1..Len(back)
    BY LenProperties
  <2> QED BY <2>1, <1>3, <1>6
<1> QED BY <1>3, <1>4, <1>5, <1>6 DEF Trials, r

\* Reading a token.
LEMMA GoodLex ==
  ASSUME NEW q, NEW t, NEW ts, Good(q, t, ts), t.last # End
  PROVE  /\ Good(Lex(q), LexResult(q), ts)
         /\ LexResult(q).first = t.last + 1
         /\ Lex(q).BacktrackPositions = q.BacktrackPositions
         /\ q.BacktrackPositions # << >> =>
               All(Lex(q)) = All(q) /\ Lex(q).CachedLexPos = q.CachedLexPos + 1
<1> DEFINE s == All(q)
           p == q.CachedLexPos
           back == q.BacktrackPositions
           r == Lex(q)
           u == LexResult(q)
<1>1. Cached(q) /\ Current(s, p, back, t) /\ Trials(s, back, ts)
  BY DEF Good
<1>2. q \in PPType /\ p \in Nat /\ back \in Seq(Nat)
  BY <1>1 DEF Cached, PPType
<1>3. s \in Seq(GoodToken) /\ Len(s) \in Nat
  BY <1>2, AllProperties, LenProperties
<1>4. /\ t \in GoodToken /\ p < Len(s) /\ s[p + 1].first = t.last + 1
      /\ Follows(s, t.last, p) /\ t.last \in Nat
  <2>1. t \in GoodToken /\ Follows(s, t.last, p)
    BY <1>1 DEF Current
  <2>2. p < Len(s)
    <3>1. p <= Len(s) /\ p # Len(s)
      BY <2>1 DEF Follows
    <3> HIDE DEF p, s
    <3> QED BY <3>1, <1>2, <1>3
  <2> QED BY <2>1, <2>2, EndProperties DEF Follows
<1>5. /\ Cached(r) /\ u = s[p + 1] /\ u \in GoodToken /\ r.BacktrackPositions = back
      /\ \/ All(r) = s /\ r.CachedLexPos = p + 1
         \/ /\ back = << >> /\ r.CachedLexPos = 0
            /\ All(r) = Splice(s, 0, p + 1, << >>)
  BY <1>1, <1>4, LexProperties
<1> HIDE DEF s, p, back, r, u
<1>6. p + 1 \in (p + 1)..Len(s) /\ p + 1 \in 0..Len(s) /\ 0 \in 0..Len(s)
      /\ p + 1 \in (p + 1)..Len(s)
  BY <1>2, <1>3, <1>4
<1>7. Follows(s, u.last, p + 1)
  BY <1>2, <1>3, <1>4, <1>5, <1>6, FollowsWithin
<1>8. Current(All(r), r.CachedLexPos, back, u) /\ Trials(All(r), back, ts)
  <2>1. CASE All(r) = s /\ r.CachedLexPos = p + 1
    <3>1. Same(s[p + 1], u)
      BY <1>5 DEF Same
    <3>2. Current(s, p + 1, back, u)
      BY <3>1, <1>5, <1>7 DEF Current
    <3> QED BY <2>1, <3>2, <1>1
  <2>2. CASE back = << >> /\ r.CachedLexPos = 0 /\ All(r) = Splice(s, 0, p + 1, << >>)
    <3>1. Follows(Splice(s, 0, p + 1, << >>), u.last, 0)
      <4> DEFINE none == << >>
                 zero == 0
                 m == p + 1
                 e == u.last
      <4>1. /\ none \in Seq(GoodToken) /\ Len(none) = 0 /\ zero = 0 /\ e \in Nat /\ m \in Nat
            /\ zero \in 0..Len(s) /\ m \in zero..Len(s) /\ m \in m..Len(s) /\ Follows(s, e, m)
        BY <1>2, <1>5, <1>6, <1>7, EndProperties
      <4> HIDE DEF none, zero, m, e
      <4>2. Follows(Splice(s, zero, m, none), e, m - (m - zero) + Len(none))
        BY <4>1, <1>3, FollowsBehind
      <4>3. m - (m - zero) + Len(none) = zero
        BY <4>1
      <4> QED BY <4>2, <4>3 DEF none, zero, m, e
    <3>2. Current(All(r), 0, back, u)
      <4>1. Len(back) = 0
        BY <2>2
      <4> QED BY <4>1, <3>1, <2>2, <1>5 DEF Current
    <3>3. Trials(All(r), back, ts)
      <4>1. Len(back) = 0
        BY <2>2
      <4> QED BY <4>1, <1>1 DEF Trials
    <3> QED BY <3>2, <3>3, <2>2
  <2> QED BY <2>1, <2>2, <1>5
<1>9. Good(r, u, ts)
  BY <1>5, <1>8 DEF Good
<1> QED BY <1>4, <1>5, <1>9 DEF s, p, back, r, u

\* Looking ahead.
LEMMA GoodLook ==
  ASSUME NEW q, NEW t, NEW ts, Good(q, t, ts), NEW n \in Nat, Missing(q, n) <= Len(q.lexers)
  PROVE  Good(LookAhead(q, n), t, ts)
<1>1. Cached(q)
  BY DEF Good
<1> QED BY <1>1, LookAheadProperties DEF Good

\* Putting tokens back where nobody can go back to: u becomes current again.
LEMMA GoodEnter ==
  ASSUME NEW q, NEW ts, q.BacktrackPositions = << >>,
         NEW t, Good(q, t, ts),
         NEW u \in GoodToken, u.kind # "name", t.first = u.last + 1
  PROVE  Good(EnterToken(q, t), u, ts) /\ Good(EnterTokenStream(q, <<t>>), u, ts)
<1> DEFINE s == All(q)
           p == q.CachedLexPos
           x == <<t>>
           s2 == Splice(s, p, p, x)
<1>1. /\ Cached(q) /\ q \in PPType /\ p \in Nat /\ Trials(s, << >>, ts)
      /\ t \in GoodToken /\ Follows(s, t.last, p)
  BY DEF Good, Cached, Current, PPType
<1>2. s \in Seq(GoodToken) /\ Len(s) \in Nat
  BY <1>1, AllProperties, LenProperties
<1>3. /\ x \in Seq(GoodToken) /\ Len(x) = 1 /\ x[1] = t /\ Adjacent(x)
  BY <1>1 DEF Adjacent
<1>4. p \in 0..Len(s) /\ p \in p..Len(s) /\ u.last \in Nat
  <2>1. p <= Len(s)
    BY <1>1 DEF Follows
  <2> HIDE DEF p, s
  <2> QED BY <2>1, <1>1, <1>2, EndProperties
<1> HIDE DEF x, s, p
<1>5. Follows(s2, u.last, p)
  <2>1. Len(x) # 0 /\ x[1].first = u.last + 1 /\ Follows(s, x[Len(x)].last, p)
    BY <1>1, <1>3
  <2> QED BY <2>1, <1>2, <1>3, <1>4, FollowsInserted
<1> HIDE DEF s2
<1>6. Current(s2, p, << >>, u) /\ Trials(s2, << >>, ts)
  <2>1. Len(<< >>) = 0
    OBVIOUS
  <2> QED BY <2>1, <1>1, <1>5 DEF Current, Trials
<1>7. /\ Cached(EnterToken(q, t)) /\ All(EnterToken(q, t)) = s2
      /\ EnterToken(q, t).CachedLexPos = p /\ EnterToken(q, t).BacktrackPositions = << >>
  BY <1>1, EnterTokenProperties DEF s, p, x, s2
<1>8. /\ Cached(EnterTokenStream(q, x)) /\ All(EnterTokenStream(q, x)) = s2
      /\ EnterTokenStream(q, x).CachedLexPos = p
      /\ EnterTokenStream(q, x).BacktrackPositions = << >>
  BY <1>1, <1>3, EnterTokenStreamProperties DEF s, p, s2
<1> QED BY <1>6, <1>7, <1>8 DEF Good, x

\* The trials that remain are not touched when the innermost one is committed
\* or reverted, and a reverted one restores the token it began at.
LEMMA TrialsPopped ==
  ASSUME NEW q, NEW t, NEW ts, Good(q, t, ts), ts # << >>
  PROVE  /\ isBacktrackEnabled(q)
         /\ Good(CommitBacktrackedTokens(q), t, Popped(ts))
         /\ Good(Backtrack(q), ts[Len(ts)], Popped(ts))
<1> DEFINE s == All(q)
           p == q.CachedLexPos
           back == q.BacktrackPositions
           back2 == Popped(back)
           ts2 == Popped(ts)
           n == Len(back)
<1>1. /\ Cached(q) /\ q \in PPType /\ p \in Nat /\ back \in Seq(Nat)
      /\ Current(s, p, back, t) /\ Trials(s, back, ts)
  BY DEF Good, Cached, PPType
<1>2. ts \in Seq(GoodToken) /\ Len(ts) = n /\ t \in GoodToken
  BY <1>1 DEF Trials, Current
<1>3. back # << >>
  <2>1. Len(ts) # 0
    BY <1>2, PoppedProperties
  <2> QED BY <2>1, <1>2
<1>4. /\ ts2 \in Seq(GoodToken) /\ Len(ts2) = n - 1
      /\ \A i \in 1..Len(ts2) : i \in 1..Len(ts) /\ ts2[i] = ts[i]
  BY <1>2, PoppedProperties
<1>5. /\ back2 \in Seq(Nat) /\ n \in Nat \ {0} /\ Len(back2) = n - 1
      /\ \A i \in 1..Len(back2) : i \in 1..Len(back) /\ back2[i] = back[i]
  BY <1>1, <1>3, PoppedProperties
<1>6. /\ \A k \in 1..Len(back) : back[k] \in Nat /\ back[k] <= p
      /\ \A k \in 1..Len(back) : \A j \in 1..k : back[j] <= back[k]
  BY <1>1, ElementOfSeq DEF Cached
<1>7. n \in 1..Len(back) /\ n = Len(back) /\ LastBacktrack(q) = back[n]
  BY <1>5 DEF LastBacktrack
<1> DEFINE r1 == CommitBacktrackedTokens(q)
           r2 == Backtrack(q)
<1>8. /\ r1 = [q EXCEPT !.BacktrackPositions = back2]
      /\ r2 = [q EXCEPT !.CachedLexPos = back[n], !.BacktrackPositions = back2]
  BY <1>7 DEF CommitBacktrackedTokens, Backtrack
<1> HIDE DEF s, back2, ts2, n, r1, r2
<1>9. /\ r1 \in PPType /\ r1.CachedTokens = q.CachedTokens /\ r1.CachedLexPos = p
      /\ r1.lexers = q.lexers /\ r1.BacktrackPositions = back2 /\ r1.caching = q.caching
  BY <1>1, <1>5, <1>8 DEF PPType
<1>10. /\ r2 \in PPType /\ r2.CachedTokens = q.CachedTokens /\ r2.CachedLexPos = back[n]
       /\ r2.lexers = q.lexers /\ r2.BacktrackPositions = back2 /\ r2.caching = q.caching
  <2>1. back[n] \in Nat
    BY <1>6, <1>7
  <2> QED BY <2>1, <1>1, <1>5, <1>8 DEF PPType
<1>11. All(r1) = s /\ All(r2) = s
  BY <1>9, <1>10 DEF All, s
<1>12. /\ p <= Len(q.CachedTokens) /\ q.caching = TRUE
       /\ Len(q.CachedTokens) \in Nat
  BY <1>1, <1>3, LenProperties DEF Cached, PPType
<1> HIDE DEF p, back
<1>13. \A k \in 1..Len(back2) :
          back2[k] <= p /\ \A j \in 1..k : j \in 1..Len(back2) /\ back2[j] <= back2[k]
  <2>1. ASSUME NEW k \in 1..Len(back2), NEW j \in 1..k PROVE j \in 1..Len(back2)
    BY <1>5
  <2> QED BY <2>1, <1>5, <1>6
<1>14. \A k \in 1..Len(back2) : back2[k] <= back[n]
  <2>1. ASSUME NEW k \in 1..Len(back2) PROVE back2[k] <= back[n]
    <3>1. k \in 1..n /\ back2[k] = back[k]
      BY <1>5, <1>7
    <3> QED BY <3>1, <1>6, <1>7
  <2> QED BY <2>1
<1>15. Trials(s, back2, ts2)
  <2>1. ASSUME NEW k \in 1..Len(back2)
        PROVE  /\ Follows(s, ts2[k].last, back2[k])
               /\ (ts2[k].kind = "name" /\ back2[k] # 0) => Same(s[back2[k]], ts2[k])
               /\ \A j \in 1..k : back2[j] < back2[k] => Same(s[back2[k]], ts2[k])
    <3>1. k \in 1..Len(back) /\ back2[k] = back[k] /\ ts2[k] = ts[k]
      BY <1>4, <1>5
    <3>2. \A j \in 1..k : back2[j] = back[j]
      BY <1>5, <1>13
    <3> QED BY <3>1, <3>2, <1>1 DEF Trials
  <2> QED BY <2>1, <1>4, <1>5 DEF Trials
<1>16. Good(r1, t, ts2)
  <2>1. Cached(r1)
    BY <1>9, <1>12, <1>13 DEF Cached
  <2>2. Current(s, p, back2, t)
    BY <1>1, <1>5 DEF Current
  <2> QED BY <2>1, <2>2, <1>9, <1>11, <1>15 DEF Good
<1>17. Good(r2, ts[n], ts2)
  <2>1. Cached(r2)
    <3>1. back[n] <= Len(q.CachedTokens)
      <4> DEFINE c == Len(q.CachedTokens)
      <4>1. p <= c /\ c \in Nat
        BY <1>12
      <4> HIDE DEF c
      <4>2. back[n] <= c
        BY <4>1, <1>1, <1>6, <1>7
      <4> QED BY <4>2 DEF c
    <3> QED BY <3>1, <1>10, <1>12, <1>13, <1>14 DEF Cached
  <2>2. Current(s, back[n], back2, ts[n])
    <3>1. ts[n] \in GoodToken
      BY <1>2, <1>7, ElementOfSeq DEF n
    <3>2. ASSUME NEW k \in 1..Len(back2), back2[k] < back[n] PROVE Same(s[back[n]], ts[n])
      <4>1. k \in 1..n /\ back[k] < back[n]
        BY <3>2, <1>5, <1>7
      <4> QED BY <4>1, <1>1, <1>7 DEF Trials
    <3> QED BY <3>1, <3>2, <1>1, <1>7 DEF Current, Trials
  <2> QED BY <2>1, <2>2, <1>10, <1>11, <1>15 DEF Good
<1> QED BY <1>2, <1>3, <1>16, <1>17 DEF isBacktrackEnabled, r1, r2, ts2, n, back

\* The cached tokens from position i on become u, the current token.
LEMMA GoodAnnotated ==
  ASSUME NEW q, NEW ts, Cached(q), Trials(All(q), q.BacktrackPositions, ts),
         NEW u \in GoodToken, Follows(All(q), u.last, q.CachedLexPos),
         NEW i \in 1..q.CachedLexPos,
         q.CachedTokens[i].first = u.first, q.CachedTokens[q.CachedLexPos].last = u.last,
         \A k \in 1..Len(q.BacktrackPositions) :
            \/ q.BacktrackPositions[k] <= i - 1
            \/ /\ q.BacktrackPositions[k] = q.CachedLexPos /\ i = q.CachedLexPos
               /\ Same(u, q.CachedTokens[i])
  PROVE  Good(Moved(q, Splice(q.CachedTokens, i - 1, q.CachedLexPos, <<u>>), i), u, ts)
<1> DEFINE c == q.CachedTokens
           p == q.CachedLexPos
           back == q.BacktrackPositions
           s == All(q)
           x == <<u>>
           r == Moved(q, Splice(c, i - 1, p, x), i)
           s2 == All(r)
<1>1. /\ q \in PPType /\ p \in Nat /\ p <= Len(c) /\ c \in Seq(GoodToken) /\ Len(c) \in Nat
      /\ back \in Seq(Nat)
  BY LenProperties DEF Cached, PPType
<1>2. /\ s \in Seq(GoodToken) /\ Len(s) \in Nat /\ Len(c) <= Len(s)
      /\ \A k \in 1..Len(c) : s[k] = c[k]
  <2>1. /\ s \in Seq(GoodToken) /\ Len(s) = Len(c) + Len(q.lexers) /\ Len(q.lexers) \in Nat
        /\ \A k \in 1..Len(c) : s[k] = c[k]
    BY <1>1, AllProperties
  <2> HIDE DEF s, c
  <2> QED BY <2>1, <1>1
<1>3. x \in Seq(GoodToken) /\ Len(x) = 1 /\ x[1] = u /\ Adjacent(x)
  BY DEF Adjacent
<1>4. u.last \in Nat
  BY EndProperties
<1> DEFINE a == i - 1
<1>5. i \in 1..p /\ c[i].first = u.first /\ c[p].last = u.last /\ Follows(s, u.last, p)
      /\ Trials(s, back, ts)
      /\ \A k \in 1..Len(back) : back[k] <= a \/ (back[k] = p /\ i = p /\ Same(u, c[i]))
  OBVIOUS
<1>6. \A k \in 1..Len(back) : back[k] \in Nat
  BY <1>1, ElementOfSeq
<1>7. NoneAfter(q, i)
  <2>1. ASSUME NEW k \in 1..Len(back) PROVE back[k] <= i
    <3> HIDE DEF c, p, back, s, x
    <3>1. back[k] <= a \/ back[k] = i
      BY <1>5
    <3>2. back[k] \in Nat /\ i \in Nat
      BY <1>1, <1>5, <1>6
    <3> QED BY <3>1, <3>2
  <2> QED BY <2>1 DEF NoneAfter
<1>8. /\ Cached(r) /\ s2 = Splice(s, a, p, x) /\ r.CachedLexPos = i
      /\ r.BacktrackPositions = back
  BY <1>7, ReplacedByOne
<1> HIDE DEF c, p, back, s, x, r, s2
<1>9. /\ a \in Nat /\ i \in Nat /\ a + 1 = i /\ p \in (a + 1)..Len(s) /\ p \in a..Len(s) /\ a \in 0..Len(s)
      /\ p \in p..Len(s) /\ p - (p - a) + Len(x) = i /\ i \in 1..Len(c) /\ p \in 1..Len(c)
  BY <1>1, <1>2, <1>3, <1>5
<1> HIDE DEF a
<1>10. Trials(Splice(s, a, p, x), back, ts)
  <2>1. x[1].first = s[a + 1].first /\ x[Len(x)].last = s[p].last
    BY <1>2, <1>3, <1>5, <1>9
  <2>2. \A k \in 1..Len(back) :
            \/ back[k] <= a
            \/ back[k] = p /\ p = a + 1 /\ Len(x) = 1 /\ Same(x[1], s[p])
    BY <1>2, <1>3, <1>5, <1>9
  <2>3. /\ s \in Seq(GoodToken) /\ x \in Seq(GoodToken) /\ back \in Seq(Nat)
        /\ a \in Nat /\ p \in (a + 1)..Len(s) /\ Trials(s, back, ts)
        /\ Len(x) # 0 /\ Adjacent(x)
    BY <1>1, <1>2, <1>3, <1>5, <1>9
  <2> QED BY <2>1, <2>2, <2>3, TrialsReplaced
<1>11. Follows(Splice(s, a, p, x), u.last, i)
  <2>1. Follows(Splice(s, a, p, x), u.last, p - (p - a) + Len(x))
    BY <1>2, <1>3, <1>4, <1>5, <1>9, FollowsBehind
  <2> QED BY <2>1, <1>9
<1>12. s2[i] = u
  <2>1. IsSplice(s2, s, a, p, x)
    BY <1>2, <1>3, <1>8, <1>9, SpliceProperties
  <2>2. 1 \in 1..Len(x) /\ i = a + 1
    BY <1>3, <1>9
  <2> QED BY <2>1, <2>2, <1>3, <1>9 DEF IsSplice
<1>13. Current(s2, i, back, u)
  BY <1>8, <1>11, <1>12 DEF Current, Same
<1> QED BY <1>8, <1>10, <1>13 DEF Good, r, s2, c, p, x, a

\* An annotation that ends at the most recent token, and begins at a token
\* read since the innermost trial began or is for the most recent token alone.
LEMMA GoodSummary ==
  ASSUME NEW q, NEW ts, Cached(q), Trials(All(q), q.BacktrackPositions, ts),
         q.BacktrackPositions # << >>, q.CachedLexPos # 0,
         NEW u \in GoodToken, Follows(All(q), u.last, q.CachedLexPos),
         q.CachedTokens[q.CachedLexPos].last = u.last,
         NEW j \in Begins(q, u.first),
         \/ LastBacktrack(q) < j
         \/ j = q.CachedLexPos /\ Same(u, q.CachedTokens[j])
  PROVE  AnnotateCachedTokensAsserts(q, u) /\ Good(AnnotateCachedTokens(q, u), u, ts)
<1> DEFINE p == q.CachedLexPos
           c == q.CachedTokens
           back == q.BacktrackPositions
           is == Begins(q, u.first)
           i == Nearest(is)
           last == LastBacktrack(q)
<1>1. /\ p \in Nat /\ last \in 0..p /\ \A k \in 1..Len(back) : back[k] \in Nat /\ back[k] <= last
  BY InnermostIsLast, ElementOfSeq DEF Cached, PPType
<1>2. is \in SUBSET (1..p) /\ is # {} /\ j \in is /\ \A k \in is : c[k].first = u.first
  BY DEF Begins
<1> HIDE DEF is, i
<1>3. i \in is /\ \A k \in is : k <= i
  BY <1>1, <1>2, NearestProperties DEF i
<1>4. i \in 1..p /\ i \in Nat /\ j \in 1..p /\ j <= i /\ c[i].first = u.first
  BY <1>1, <1>2, <1>3
<1>5. last < j \/ (j = p /\ Same(u, c[j]))
  OBVIOUS
<1> HIDE DEF last, p, back
<1>6. /\ last <= i
      /\ last < j => \A k \in 1..Len(back) : back[k] <= i - 1
      /\ j = p => i = p
      /\ \A k \in 1..Len(back) : back[k] <= p - 1 \/ back[k] = p
  BY <1>1, <1>4, <1>5
<1>7. \A k \in 1..Len(back) : back[k] <= i - 1 \/ (back[k] = p /\ i = p /\ Same(u, c[i]))
  BY <1>4, <1>5, <1>6
<1>8. AnnotateCachedTokensAsserts(q, u)
  BY <1>6 DEF AnnotateCachedTokensAsserts, i, is, last
<1>9. AnnotateCachedTokens(q, u) = Moved(q, Splice(c, i - 1, p, <<u>>), i)
  BY <1>2 DEF AnnotateCachedTokens, Moved, isBacktrackEnabled, i, is, p
<1>10. Good(Moved(q, Splice(c, i - 1, p, <<u>>), i), u, ts)
  BY <1>4, <1>7, GoodAnnotated DEF p, back
<1> QED BY <1>8, <1>9, <1>10

\* The token at p, and those up to b that were merged with it, became g and
\* rest, and one of the two is the current token.
LEMMA GoodSplit ==
  ASSUME NEW r, NEW ts, Cached(r), NEW s \in Seq(GoodToken),
         NEW p \in 1..Len(s), NEW b \in p..Len(s),
         NEW g \in GoodToken, NEW rest \in GoodToken, g.kind # "name", rest.kind # "name",
         rest.first = g.last + 1,
         All(r) = Splice(s, p - 1, b, <<g, rest>>),
         Follows(s, rest.last, b), Trials(s, r.BacktrackPositions, ts),
         \A k \in 1..Len(r.BacktrackPositions) : r.BacktrackPositions[k] <= p - 1,
         r.BacktrackPositions # << >> => g.first = s[p].first /\ rest.last = s[b].last
  PROVE  /\ r.CachedLexPos = p + 1 => Good(r, rest, ts)
         /\ r.CachedLexPos = p => Good(r, g, ts)
<1> DEFINE back == r.BacktrackPositions
           a == p - 1
           x == <<g, rest>>
           s2 == All(r)
<1>1. /\ x \in Seq(GoodToken) /\ Len(x) = 2 /\ x[1] = g /\ x[2] = rest /\ Adjacent(x)
  BY DEF Adjacent
<1> HIDE DEF x
<1>2. /\ Len(s) \in Nat /\ a \in Nat /\ a + 1 = p /\ p \in Nat /\ a \in 0..Len(s) /\ b \in a..Len(s)
      /\ b \in (a + 1)..Len(s) /\ b \in b..Len(s) /\ b - (b - a) + Len(x) = p + 1
  BY <1>1, LenProperties
<1> HIDE DEF a
<1>3. s2 = Splice(s, a, b, x) /\ back \in Seq(Nat)
  BY DEF Cached, PPType, a, x
<1> HIDE DEF s2
<1>4. s2 \in Seq(GoodToken) /\ s2[p] = g /\ s2[p + 1] = rest /\ p + 1 \in 1..Len(s2)
  <2>1. s2 \in Seq(GoodToken) /\ IsSplice(s2, s, a, b, x)
    BY <1>1, <1>2, <1>3, SpliceProperties
  <2>2. 1 \in 1..Len(x) /\ 2 \in 1..Len(x) /\ p = a + 1 /\ p + 1 = a + 2 /\ p + 1 \in Nat
    BY <1>1, <1>2
  <2>3. s2[p] = g /\ s2[p + 1] = rest
    BY <2>1, <2>2, <1>1, <1>2 DEF IsSplice
  <2>4. Len(s2) = Len(s) - (b - a) + Len(x)
    BY <2>1 DEF IsSplice
  <2> QED BY <2>1, <2>3, <2>4, <1>1, <1>2
<1>5. Follows(s2, rest.last, p + 1)
  <2>1. rest.last \in Nat
    BY EndProperties
  <2>2. Follows(s2, rest.last, b - (b - a) + Len(x))
    BY <2>1, <1>1, <1>2, <1>3, FollowsBehind
  <2> QED BY <2>2, <1>2
<1>6. Follows(s2, g.last, p)
  <2>1. g.last \in Nat
    BY EndProperties
  <2> QED BY <2>1, <1>2, <1>4, <1>5, FollowsStep
<1>7. Trials(s2, back, ts)
  <2>1. CASE back = << >>
    <3>1. Len(back) = 0
      BY <2>1
    <3>2. ts \in Seq(GoodToken) /\ Len(ts) = Len(back)
      BY DEF Trials
    <3> HIDE DEF back
    <3> QED BY <3>1, <3>2 DEF Trials
  <2>2. CASE back # << >>
    <3>1. x[1].first = s[a + 1].first /\ x[Len(x)].last = s[b].last
      BY <2>2, <1>1, <1>2
    <3>2. \A k \in 1..Len(back) : back[k] <= a
      BY DEF a
    <3>3. Len(x) # 0 /\ Trials(s, back, ts)
      BY <1>1
    <3> HIDE DEF back
    <3>4. Trials(Splice(s, a, b, x), back, ts)
      BY <3>1, <3>2, <3>3, <1>1, <1>2, <1>3, TrialsReplaced
    <3> QED BY <3>4, <1>3
  <2> QED BY <2>1, <2>2
<1>8. Current(s2, p + 1, back, rest) /\ Current(s2, p, back, g)
  BY <1>4, <1>5, <1>6 DEF Current, Same
<1> QED BY <1>7, <1>8 DEF Good, s2

-----------------------------------------------------------------------------
\* TokenStream has sequences where the cache has positions: what is ahead is
\* what is read from a position on.
Rest(s, p) == SubSeq(s, p + 1, Len(s))

\* It has the entries after the position, in order.
LEMMA RestProperties ==
  ASSUME NEW S, NEW s \in Seq(S), NEW p \in 0..Len(s)
  PROVE  /\ Rest(s, p) \in Seq(S) /\ Len(Rest(s, p)) = Len(s) - p
         /\ \A i \in 1..(Len(s) - p) : Rest(s, p)[i] = s[p + i]
<1> DEFINE n == Len(s)
<1>1. n \in Nat /\ p \in Nat /\ p <= n /\ \A i \in 1..n : s[i] \in S
  BY LenProperties, ElementOfSeq
<1> HIDE DEF n
<1>2. p + 1 \in Int /\ n \in Int /\ \A i \in (p + 1)..n : s[i] \in S
  BY <1>1
<1>3. /\ SubSeq(s, p + 1, n) \in Seq(S)
      /\ Len(SubSeq(s, p + 1, n)) = IF p + 1 <= n THEN n - (p + 1) + 1 ELSE 0
      /\ \A i \in 1..(n - (p + 1) + 1) : SubSeq(s, p + 1, n)[i] = s[(p + 1) + i - 1]
  BY <1>2, SubSeqProperties
<1> DEFINE r == SubSeq(s, p + 1, n)
<1> HIDE DEF r
<1>4. /\ r \in Seq(S) /\ Len(r) = IF p + 1 <= n THEN n - (p + 1) + 1 ELSE 0
      /\ \A i \in 1..(n - (p + 1) + 1) : r[i] = s[(p + 1) + i - 1]
  BY <1>3 DEF r
<1>5. Len(r) = n - p
  BY <1>1, <1>4
<1>6. ASSUME NEW i \in 1..(n - p) PROVE r[i] = s[p + i]
  <2>1. i \in 1..(n - (p + 1) + 1) /\ (p + 1) + i - 1 = p + i
    BY <1>1
  <2> QED BY <2>1, <1>4
<1> QED BY <1>4, <1>5, <1>6 DEF Rest, r, n

\* One token is read.
LEMMA RestStep ==
  ASSUME NEW S, NEW s \in Seq(S), NEW p \in Nat, p < Len(s)
  PROVE  /\ Rest(s, p) # << >>
         /\ Head(Rest(s, p)) = s[p + 1] /\ Tail(Rest(s, p)) = Rest(s, p + 1)
<1>1. Len(s) \in Nat
  BY LenProperties
<1>2. p + 1 \in 1..Len(s) /\ Len(s) \in (p + 1)..Len(s) /\ p \in 0..Len(s) /\ Len(s) - p # 0
  BY <1>1
<1>3. Rest(s, p) # << >>
  <2>1. Len(Rest(s, p)) # 0
    BY <1>2, RestProperties
  <2> QED BY <2>1
<1> QED BY <1>2, <1>3, HeadTailOfSubSeq DEF Rest

\* A sequence is its first element and the others.
LEMMA SameHeadTail ==
  ASSUME NEW S, NEW r \in Seq(S), NEW s \in Seq(S), r # << >>, s # << >>,
         Head(r) = Head(s), Tail(r) = Tail(s)
  PROVE  r = s
<1>1. /\ Len(r) \in Nat /\ Len(Tail(r)) = Len(r) - 1 /\ \A i \in 1..Len(Tail(r)) : Tail(r)[i] = r[i + 1]
      /\ Len(s) \in Nat /\ Len(Tail(s)) = Len(s) - 1 /\ \A i \in 1..Len(Tail(s)) : Tail(s)[i] = s[i + 1]
      /\ Head(r) = r[1] /\ Head(s) = s[1]
  BY LenProperties, HeadTailProperties
<1>2. Len(r) = Len(s)
  <2>1. Len(r) \in Nat /\ Len(s) \in Nat /\ Len(r) - 1 = Len(s) - 1
    BY <1>1
  <2> QED BY <2>1
<1>3. ASSUME NEW i \in 1..Len(r) PROVE r[i] = s[i]
  <2>1. CASE i = 1
    BY <2>1, <1>1
  <2>2. CASE i # 1
    <3> DEFINE j == i - 1
    <3>1. j \in 1..Len(Tail(r)) /\ j + 1 = i /\ j \in 1..Len(Tail(s))
      BY <2>2, <1>1, <1>2
    <3> HIDE DEF j
    <3> QED BY <3>1, <1>1
  <2> QED BY <2>1, <2>2
<1> QED BY <1>2, <1>3, SameElements

\* What is behind the place where tokens are replaced stays what is read.
LEMMA RestBehind ==
  ASSUME NEW S, NEW s \in Seq(S), NEW x \in Seq(S),
         NEW a \in 0..Len(s), NEW b \in a..Len(s), NEW p \in b..Len(s),
         NEW q, q = p - (b - a) + Len(x)
  PROVE  /\ q \in 0..Len(Splice(s, a, b, x))
         /\ Rest(Splice(s, a, b, x), q) = Rest(s, p)
<1> DEFINE r == Splice(s, a, b, x)
           n == Len(s)
           m == Len(x)
<1>1. n \in Nat /\ m \in Nat /\ a \in Nat /\ b \in Nat /\ p \in Nat /\ a <= b /\ b <= p /\ p <= n
  BY LenProperties
<1>2. r \in Seq(S) /\ IsSplice(r, s, a, b, x)
  BY SpliceProperties
<1> HIDE DEF r, n, m
<1>3. /\ Len(r) = n - (b - a) + m
      /\ \A i \in (b + 1)..n, j \in Nat : j = i - b + a + m => r[j] = s[i]
  BY <1>2 DEF IsSplice, n, m
<1>4. q = p - (b - a) + m
  BY DEF m
<1>5. q \in 0..Len(r) /\ q \in Nat /\ Len(r) - q = n - p /\ p \in 0..n
  BY <1>1, <1>3, <1>4
<1>6. /\ Rest(r, q) \in Seq(S) /\ Len(Rest(r, q)) = n - p
      /\ \A i \in 1..(n - p) : Rest(r, q)[i] = r[q + i]
  BY <1>2, <1>5, RestProperties
<1>7. /\ Rest(s, p) \in Seq(S) /\ Len(Rest(s, p)) = n - p
      /\ \A i \in 1..(n - p) : Rest(s, p)[i] = s[p + i]
  BY <1>5, RestProperties DEF n
<1>8. ASSUME NEW i \in 1..(n - p) PROVE r[q + i] = s[p + i]
  <2>1. p + i \in (b + 1)..n /\ q + i \in Nat /\ q + i = (p + i) - b + a + m
    BY <1>1, <1>4, <1>5
  <2> QED BY <2>1, <1>3
<1>9. Rest(r, q) = Rest(s, p)
  <2> DEFINE u == Rest(r, q)
             v == Rest(s, p)
  <2>1. /\ u \in Seq(S) /\ v \in Seq(S) /\ Len(u) = Len(v) /\ Len(u) = n - p
        /\ \A i \in 1..(n - p) : u[i] = v[i]
    BY <1>6, <1>7, <1>8
  <2> HIDE DEF u, v
  <2>2. u = v
    BY <2>1, SameElements
  <2> QED BY <2>2 DEF u, v
<1> QED BY <1>5, <1>9 DEF r

\* What is read from before that place has the tokens replaced too.
LEMMA RestWithin ==
  ASSUME NEW S, NEW s \in Seq(S), NEW x \in Seq(S),
         NEW a \in 0..Len(s), NEW b \in a..Len(s), NEW p \in 0..a
  PROVE  Rest(Splice(s, a, b, x), p) = Splice(Rest(s, p), a - p, b - p, x)
<1> DEFINE r == Splice(s, a, b, x)
           n == Len(s)
           m == Len(x)
           u == Rest(r, p)
           v == Rest(s, p)
<1>1. n \in Nat /\ m \in Nat /\ a \in Nat /\ b \in Nat /\ p \in Nat /\ a <= b /\ b <= n /\ p <= a
  BY LenProperties
<1>2. r \in Seq(S) /\ IsSplice(r, s, a, b, x)
  BY SpliceProperties
<1> HIDE DEF r, n, m
<1>3. /\ Len(r) = n - (b - a) + m
      /\ \A i \in 1..a : r[i] = s[i]
      /\ \A i \in 1..m, j \in Nat : j = a + i => r[j] = x[i]
      /\ \A i \in (b + 1)..n, j \in Nat : j = i - b + a + m => r[j] = s[i]
  BY <1>2 DEF IsSplice, n, m
<1>4. p \in 0..Len(r) /\ p \in 0..n
  BY <1>1, <1>3
<1>5. /\ u \in Seq(S) /\ Len(u) = Len(r) - p /\ \A i \in 1..(Len(r) - p) : u[i] = r[p + i]
  BY <1>2, <1>4, RestProperties
<1>6. /\ v \in Seq(S) /\ Len(v) = n - p /\ \A i \in 1..(n - p) : v[i] = s[p + i]
  BY <1>4, RestProperties DEF n
<1> HIDE DEF u, v
<1>7. a - p \in 0..Len(v) /\ b - p \in (a - p)..Len(v)
  BY <1>1, <1>6
<1>8. Len(u) = Len(v) - ((b - p) - (a - p)) + m
  BY <1>1, <1>3, <1>5, <1>6
<1>9. ASSUME NEW i \in 1..(a - p) PROVE u[i] = v[i]
  <2>1. i \in 1..(Len(r) - p) /\ i \in 1..(n - p) /\ p + i \in 1..a
    BY <1>1, <1>3
  <2> QED BY <2>1, <1>3, <1>5, <1>6
<1>10. ASSUME NEW i \in 1..m, NEW j \in Nat, j = (a - p) + i PROVE u[j] = x[i]
  <2>1. j \in 1..(Len(r) - p) /\ p + j \in Nat /\ p + j = a + i
    BY <1>1, <1>3, <1>10
  <2> QED BY <2>1, <1>3, <1>5
<1>11. ASSUME NEW i \in ((b - p) + 1)..Len(v), NEW j \in Nat, j = i - (b - p) + (a - p) + m
       PROVE  u[j] = v[i]
  <2>1. /\ i \in 1..(n - p) /\ p + i \in (b + 1)..n /\ p + j \in Nat /\ p + j = (p + i) - b + a + m
        /\ j \in 1..(Len(r) - p)
    <3>1. Len(r) = n - (b - a) + m /\ Len(v) = n - p
      BY <1>3, <1>6
    <3> QED BY <3>1, <1>1, <1>11
  <2>2. u[j] = r[p + j] /\ v[i] = s[p + i]
    BY <2>1, <1>5, <1>6
  <2>3. r[p + j] = s[p + i]
    BY <2>1, <1>3
  <2> QED BY <2>2, <2>3
<1>12. IsSplice(u, v, a - p, b - p, x)
  <2> DEFINE a2 == a - p
             b2 == b - p
  <2>1. /\ Len(u) = Len(v) - (b2 - a2) + m
        /\ \A i \in 1..a2 : u[i] = v[i]
        /\ \A i \in 1..m, j \in Nat : j = a2 + i => u[j] = x[i]
        /\ \A i \in (b2 + 1)..Len(v), j \in Nat : j = i - b2 + a2 + m => u[j] = v[i]
    BY <1>8, <1>9, <1>10, <1>11
  <2> HIDE DEF a2, b2
  <2>2. IsSplice(u, v, a2, b2, x)
    BY <2>1 DEF IsSplice, m
  <2> QED BY <2>2 DEF a2, b2
<1>13. u = Splice(v, a - p, b - p, x)
  BY <1>5, <1>6, <1>7, <1>12, SpliceUnique
<1> QED BY <1>13 DEF u, v, r

-----------------------------------------------------------------------------
\* A token that comes later in the file begins after an earlier one ends.
LEMMA FollowsOrdered ==
  ASSUME NEW s \in Seq(GoodToken), NEW e \in Nat, NEW p \in Nat, Follows(s, e, p),
         NEW i \in (p + 1)..Len(s), NEW j \in (i + 1)..Len(s)
  PROVE  s[i].last < s[j].first
<1> DEFINE n == Len(s)
           Less == {ss \in Nat \X Nat : ss[1] < ss[2]}
           T == {k \in (i + 1)..n : ~(s[i].last < s[k].first)}
<1>1. n \in Nat /\ i \in Nat /\ p < i /\ i <= n /\ j \in (i + 1)..n
  BY LenProperties
<1>2. /\ \A k \in (p + 1)..(n - 1) : s[k + 1].first = s[k].last + 1
      /\ \A k \in 1..n : s[k] \in GoodToken
  BY ElementOfSeq DEF Follows
<1>3. \A k \in 1..n : s[k].first \in Nat /\ s[k].last \in Nat /\ s[k].first <= s[k].last
  <2> SUFFICES ASSUME NEW k \in 1..n PROVE s[k].first \in Nat /\ s[k].last \in Nat /\ s[k].first <= s[k].last
    OBVIOUS
  <2>1. s[k] \in GoodToken
    BY <1>2
  <2>2. s[k].first \in 1..End /\ s[k].last \in 1..End /\ End \in Nat
    BY <2>1, EndProperties
  <2>3. s[k].first <= s[k].last
    BY <2>1 DEF GoodToken
  <2> QED BY <2>2, <2>3
<1> HIDE DEF n
<1>4. IsWellFoundedOn(Less, Nat)
  BY NatLessThanWellFounded DEF OpToRel
<1> SUFFICES ASSUME ~(s[i].last < s[j].first) PROVE FALSE
  OBVIOUS
<1>5. T \subseteq Nat /\ T # {}
  BY <1>1
<1> HIDE DEF Less, T
<1>6. PICK k \in T : \A y \in T : <<y, k>> \notin Less
  BY <1>4, <1>5, WFMin
<1>7. k \in (i + 1)..n /\ ~(s[i].last < s[k].first)
  BY <1>6 DEF T
<1>8. CASE k = i + 1
  <2>1. i \in (p + 1)..(n - 1) /\ i \in 1..n
    BY <1>1, <1>7, <1>8
  <2>2. s[k].first = s[i].last + 1 /\ s[i].last \in Nat
    BY <2>1, <1>2, <1>3, <1>8
  <2> QED BY <2>2, <1>7
<1>9. CASE k # i + 1
  <2> DEFINE h == k - 1
  <2>1. /\ h \in (i + 1)..n /\ h \in (p + 1)..(n - 1) /\ h + 1 = k /\ h < k /\ h \in Nat /\ k \in Nat
        /\ h \in 1..n /\ i \in 1..n
    BY <1>1, <1>7, <1>9
  <2> HIDE DEF h
  <2>2. h \notin T
    BY <2>1, <1>6 DEF Less
  <2>3. s[i].last < s[h].first
    BY <2>1, <2>2 DEF T
  <2>4. s[k].first = s[h].last + 1
    BY <2>1, <1>2
  <2>5. s[h].first \in Nat /\ s[h].last \in Nat /\ s[h].first <= s[h].last /\ s[i].last \in Nat
    BY <2>1, <1>3
  <2>6. s[i].last < s[k].first
    <3> DEFINE l == s[i].last
               f == s[h].first
               z == s[h].last
               g == s[k].first
    <3>1. l < f /\ g = z + 1 /\ f \in Nat /\ z \in Nat /\ f <= z /\ l \in Nat
      BY <2>3, <2>4, <2>5
    <3> HIDE DEF l, f, z, g
    <3>2. l < g
      BY <3>1
    <3> QED BY <3>2 DEF l, g
  <2> QED BY <2>6, <1>7
<1> QED BY <1>8, <1>9

\* The first and the last of consecutive numbers.
LEMMA MinMaxInterval ==
  ASSUME NEW l \in Nat, NEW h \in Nat, l <= h
  PROVE  Contract!Min(l..h) = l /\ Contract!Max(l..h) = h
<1>1. l \in l..h /\ \A y \in l..h : l <= y
  OBVIOUS
<1>2. h \in l..h /\ \A y \in l..h : h >= y
  OBVIOUS
<1>3. ASSUME NEW z \in l..h, \A y \in l..h : z <= y PROVE z = l
  BY <1>1, <1>3
<1>4. ASSUME NEW z \in l..h, \A y \in l..h : z >= y PROVE z = h
  BY <1>2, <1>4
<1>5. Contract!Min(l..h) = l
  BY <1>1, <1>3 DEF Contract!Min
<1>6. Contract!Max(l..h) = h
  BY <1>2, <1>4 DEF Contract!Max
<1> QED BY <1>5, <1>6

\* Positions of tokens are numbers.
LEMMA TokenNumbers ==
  ASSUME NEW s \in Seq(GoodToken), NEW i \in 1..Len(s)
  PROVE  s[i].first \in Nat /\ s[i].last \in Nat /\ s[i].first <= s[i].last
<1>1. s[i] \in GoodToken
  BY ElementOfSeq
<1> DEFINE t == s[i]
<1> HIDE DEF t
<1>2. t.first \in 1..End /\ t.last \in 1..End /\ End \in Nat /\ t \in GoodToken
  BY <1>1, EndProperties DEF t
<1>3. t.first <= t.last
  BY <1>2 DEF GoodToken
<1>4. t.first \in Nat /\ t.last \in Nat
  BY <1>2
<1> QED BY <1>3, <1>4 DEF t

\* The tokens read from p on that lie within x are those from a to b, which x
\* stands for: TokenStream replaces what the cache replaces.
LEMMA ReplacedInside ==
  ASSUME NEW s \in Seq(GoodToken), NEW x \in Seq(GoodToken), NEW e \in Nat, NEW p \in Nat,
         NEW a \in p..Len(s), NEW b \in (a + 1)..Len(s), Follows(s, e, p), Len(x) # 0,
         x[1].first = s[a + 1].first, x[Len(x)].last = s[b].last
  PROVE  Contract!Replaced(Rest(s, p), x) = Rest(Splice(s, a, b, x), p)
<1> DEFINE n == Len(s)
           w == Rest(s, p)
           f == x[1].first
           z == x[Len(x)].last
           inside == {i \in DOMAIN w : w[i].first >= f /\ w[i].last <= z}
           l == a - p + 1
           h == b - p
<1>1. n \in Nat /\ a \in Nat /\ b \in Nat /\ p <= a /\ a < b /\ b <= n
  BY LenProperties
<1>2. /\ p \in 0..n /\ a \in 0..n /\ b \in a..n /\ p \in 0..a /\ a + 1 \in (p + 1)..n
      /\ b \in (p + 1)..n /\ a + 1 \in 1..n /\ b \in 1..n /\ l \in Nat /\ h \in Nat /\ l <= h
      /\ l - 1 = a - p
  BY <1>1
<1>3. w \in Seq(GoodToken) /\ Len(w) = n - p /\ DOMAIN w = 1..(n - p)
  BY <1>2, RestProperties, LenProperties
<1>4. \A i \in 1..(n - p) : w[i] = s[p + i]
  BY <1>2, RestProperties
<1>5. \A i \in 1..n : s[i].first \in Nat /\ s[i].last \in Nat /\ s[i].first <= s[i].last
  BY TokenNumbers
<1>6. \A i \in (p + 1)..n, j \in (p + 1)..n : i < j => s[i].last < s[j].first
  <2> SUFFICES ASSUME NEW i \in (p + 1)..n, NEW j \in (p + 1)..n, i < j PROVE s[i].last < s[j].first
    OBVIOUS
  <2>1. j \in (i + 1)..n
    BY <1>1
  <2> QED BY <2>1, FollowsOrdered
<1>7. f = s[a + 1].first /\ z = s[b].last
  OBVIOUS
<1>i. inside = {i \in DOMAIN w : w[i].first >= f /\ w[i].last <= z}
  OBVIOUS
<1>l. l = a - p + 1 /\ h = b - p
  OBVIOUS
<1> HIDE DEF n, w, f, z, inside, l, h
<1>8. ASSUME NEW i \in (p + 1)..n PROVE s[i].first >= f /\ s[i].last <= z <=> i \in (a + 1)..b
  <2>0. i \in 1..n
    BY <1>1
  <2> DEFINE fi == s[i].first
             zi == s[i].last
  <2>1. /\ fi \in Nat /\ zi \in Nat /\ fi <= zi /\ f \in Nat /\ z \in Nat
        /\ s[a + 1].last \in Nat /\ s[a + 1].first \in Nat /\ s[b].first \in Nat /\ s[b].first <= z
    BY <2>0, <1>2, <1>5, <1>7
  <2>2. CASE i < a + 1
    <3>1. zi < f
      BY <2>2, <1>2, <1>6, <1>7
    <3> HIDE DEF fi, zi
    <3>2. ~(fi >= f)
      BY <3>1, <2>1
    <3> QED BY <3>2, <2>2, <1>1 DEF fi, zi
  <2>3. CASE i > b
    <3>1. z < fi
      BY <2>3, <1>2, <1>6, <1>7
    <3> HIDE DEF fi, zi
    <3>2. ~(zi <= z)
      BY <3>1, <2>1
    <3> QED BY <3>2, <2>3, <1>1 DEF fi, zi
  <2>4. CASE i \in (a + 1)..b
    <3>1. fi >= f
      <4>1. CASE i = a + 1
        BY <4>1, <2>1, <1>7
      <4>2. CASE a + 1 < i
        <5> DEFINE za == s[a + 1].last
        <5>1. za < fi /\ f <= za /\ za \in Nat
          BY <4>2, <2>1, <1>2, <1>5, <1>6, <1>7
        <5> HIDE DEF za, fi
        <5> QED BY <5>1, <2>1
      <4> QED BY <4>1, <4>2, <2>4, <1>1
    <3>2. zi <= z
      <4>1. CASE i = b
        BY <4>1, <2>1, <1>7
      <4>2. CASE i < b
        <5> DEFINE fb == s[b].first
        <5>1. zi < fb /\ fb <= z /\ fb \in Nat
          BY <4>2, <2>1, <1>2, <1>6
        <5> HIDE DEF fb, zi
        <5> QED BY <5>1, <2>1
      <4> QED BY <4>1, <4>2, <2>4, <1>1
    <3> QED BY <3>1, <3>2, <2>4
  <2> QED BY <2>2, <2>3, <2>4, <1>1
<1>9. ASSUME NEW i \in 1..(n - p) PROVE i \in inside <=> i \in l..h
  <2>1. p + i \in (p + 1)..n /\ w[i] = s[p + i] /\ i \in DOMAIN w
    BY <1>1, <1>3, <1>4
  <2>2. i \in inside <=> p + i \in (a + 1)..b
    BY <2>1, <1>8, <1>i
  <2>3. p + i \in (a + 1)..b <=> i \in l..h
    BY <1>1, <1>l
  <2> QED BY <2>2, <2>3
<1>10. inside = l..h
  <2>1. \A i \in inside : i \in 1..(n - p)
    BY <1>3, <1>i
  <2>2. \A i \in l..h : i \in 1..(n - p)
    BY <1>1, <1>l
  <2>3. \A i : i \in inside <=> i \in l..h
    BY <2>1, <2>2, <1>9
  <2> HIDE DEF l, h
  <2> QED BY <2>3
<1>11. inside # {} /\ Contract!Min(inside) = l /\ Contract!Max(inside) = h
  <2>1. Contract!Min(l..h) = l /\ Contract!Max(l..h) = h
    BY <1>2, MinMaxInterval
  <2>2. l \in l..h
    BY <1>2
  <2> QED BY <2>1, <2>2, <1>10
<1>12. Contract!Replaced(w, x)
         = SubSeq(w, 1, Contract!Min(inside) - 1) \o x \o SubSeq(w, Contract!Max(inside) + 1, Len(w))
  <2>1. Contract!Replaced(w, x)
          = IF inside = {} THEN w
            ELSE SubSeq(w, 1, Contract!Min(inside) - 1) \o x
                 \o SubSeq(w, Contract!Max(inside) + 1, Len(w))
    BY Zenon DEF Contract!Replaced, inside, f, z
  <2> QED BY <2>1, <1>11
<1>13. Contract!Replaced(w, x) = Splice(w, a - p, b - p, x)
  BY <1>2, <1>11, <1>12, <1>l DEF Splice
<1>14. Rest(Splice(s, a, b, x), p) = Splice(w, a - p, b - p, x)
  BY <1>2, RestWithin DEF w, n
<1> QED BY <1>13, <1>14 DEF w

\* Where everything that is read comes after x, TokenStream replaces nothing.
LEMMA ReplacedOutside ==
  ASSUME NEW s \in Seq(GoodToken), NEW x \in Seq(GoodToken), NEW e \in Nat, NEW p \in Nat,
         Follows(s, e, p), Len(x) # 0, x[Len(x)].last <= e
  PROVE  Contract!Replaced(Rest(s, p), x) = Rest(s, p)
<1> DEFINE n == Len(s)
           w == Rest(s, p)
           f == x[1].first
           z == x[Len(x)].last
           inside == {i \in DOMAIN w : w[i].first >= f /\ w[i].last <= z}
<1>1. n \in Nat /\ p <= n
  BY LenProperties DEF Follows
<1>2. p \in 0..n
  BY <1>1
<1>3. w \in Seq(GoodToken) /\ Len(w) = n - p /\ DOMAIN w = 1..(n - p)
  BY <1>2, RestProperties, LenProperties
<1>4. \A i \in 1..(n - p) : w[i] = s[p + i]
  BY <1>2, RestProperties
<1>5. \A i \in 1..n : s[i].first \in Nat /\ s[i].last \in Nat /\ s[i].first <= s[i].last
  BY TokenNumbers
<1>6. z <= e /\ z \in Nat
  <2>1. Len(x) \in Nat /\ Len(x) \in 1..Len(x)
    BY LenProperties
  <2>2. x[Len(x)] \in GoodToken
    BY <2>1, ElementOfSeq
  <2> QED BY <2>2, EndProperties
<1> HIDE DEF n, w, f, z
<1>7. ASSUME NEW i \in (p + 1)..n PROVE e < s[i].last
  <2>1. i \in 1..n /\ p + 1 \in (p + 1)..n /\ p + 1 \in 1..n /\ p < n
    BY <1>1
  <2> DEFINE fp == s[p + 1].first
             zp == s[p + 1].last
             fi == s[i].first
             zi == s[i].last
  <2>2. fp = e + 1
    BY <2>1 DEF Follows, n
  <2>3. fp \in Nat /\ zp \in Nat /\ fi \in Nat /\ zi \in Nat /\ fp <= zp /\ fi <= zi
    BY <2>1, <1>5
  <2>4. i = p + 1 \/ zp < fi
    <3> SUFFICES ASSUME i # p + 1 PROVE zp < fi
      OBVIOUS
    <3>1. i \in ((p + 1) + 1)..n
      BY <1>1
    <3> QED BY <3>1, <2>1, FollowsOrdered DEF n
  <2>5. i = p + 1 => zi = zp
    OBVIOUS
  <2> HIDE DEF fp, zp, fi, zi
  <2>6. e < zi
    BY <2>2, <2>3, <2>4, <2>5
  <2> QED BY <2>6 DEF zi
<1>8. ASSUME NEW i \in DOMAIN w PROVE ~(w[i].last <= z)
  <2>1. p + i \in (p + 1)..n /\ p + i \in 1..n /\ w[i] = s[p + i]
    BY <1>1, <1>3, <1>4
  <2> DEFINE zi == s[p + i].last
  <2>2. e < zi /\ zi \in Nat
    BY <2>1, <1>5, <1>7
  <2> HIDE DEF zi
  <2>3. ~(zi <= z)
    BY <2>2, <1>6
  <2> QED BY <2>1, <2>3 DEF zi
<1>9. inside = {}
  BY <1>8
<1>10. Contract!Replaced(w, x) = w
  BY <1>9 DEF Contract!Replaced, f, z
<1> QED BY <1>10 DEF w

\* What the parser may still read, and what every open trial goes back to.
Coming(q) == Rest(All(q), q.CachedLexPos)
Memory(s, back, ts) == [k \in 1..Len(ts) |-> [tok |-> ts[k], ahead |-> Rest(s, back[k])]]
Remembered(q, ts) == Memory(All(q), q.BacktrackPositions, ts)
Rewrite(m, x) == [k \in DOMAIN m |-> [m[k] EXCEPT !.ahead = Contract!Replaced(@, x)]]

\* What is read from a position of the cache on is the rest of the whole from there.
LEMMA ReadIsRest ==
  ASSUME NEW q \in PPType, NEW p \in Nat, p <= Len(q.CachedTokens)
  PROVE  /\ SubSeq(q.CachedTokens, p + 1, Len(q.CachedTokens)) \o q.lexers = Rest(All(q), p)
         /\ All(q) \in Seq(GoodToken) /\ p \in 0..Len(All(q))
<1> DEFINE c == q.CachedTokens
           l == q.lexers
           s == All(q)
           right == SubSeq(c, p + 1, Len(c))
           w == right \o l
           n == Len(s) - p
           v == Rest(s, p)
<1>1. /\ c \in Seq(GoodToken) /\ l \in Seq(GoodToken) /\ Len(c) \in Nat /\ Len(l) \in Nat
      /\ p <= Len(c) /\ \A i \in 1..Len(c) : c[i] \in GoodToken
  BY LenProperties, ElementOfSeq DEF PPType
<1>2. /\ s \in Seq(GoodToken) /\ Len(s) = Len(c) + Len(l)
      /\ \A i \in 1..Len(c) : s[i] = c[i]
      /\ \A i \in 1..Len(l), j \in Nat : j = Len(c) + i => s[j] = l[i]
  BY AllProperties
<1> HIDE DEF c, l, s, n
<1>3. /\ right \in Seq(GoodToken) /\ Len(right) = Len(c) - p
      /\ \A i \in 1..(Len(c) - p) : right[i] = c[p + i]
  <2>1. \A i \in (p + 1)..Len(c) : c[i] \in GoodToken
    BY <1>1
  <2>2. /\ right \in Seq(GoodToken)
        /\ Len(right) = IF p + 1 <= Len(c) THEN Len(c) - (p + 1) + 1 ELSE 0
        /\ \A i \in 1..(Len(c) - (p + 1) + 1) : right[i] = c[(p + 1) + i - 1]
    BY <2>1, <1>1, SubSeqProperties
  <2> HIDE DEF right
  <2>3. \A k \in Nat, m \in Nat : k <= m =>
          /\ (IF k + 1 <= m THEN m - (k + 1) + 1 ELSE 0) = m - k
          /\ \A i \in 1..(m - k) : i \in 1..(m - (k + 1) + 1) /\ (k + 1) + i - 1 = k + i
    OBVIOUS
  <2>4. /\ (IF p + 1 <= Len(c) THEN Len(c) - (p + 1) + 1 ELSE 0) = Len(c) - p
        /\ \A i \in 1..(Len(c) - p) :
              i \in 1..(Len(c) - (p + 1) + 1) /\ (p + 1) + i - 1 = p + i
    BY <2>3, <1>1
  <2>5. ASSUME NEW i \in 1..(Len(c) - p) PROVE right[i] = c[p + i]
    <3>1. i \in 1..(Len(c) - (p + 1) + 1) /\ (p + 1) + i - 1 = p + i
      BY <2>4
    <3>2. right[i] = c[(p + 1) + i - 1]
      BY <2>2, <3>1
    <3> QED BY <3>1, <3>2
  <2> QED BY <2>2, <2>4, <2>5
<1> HIDE DEF right
<1>4. /\ w \in Seq(GoodToken) /\ Len(w) = n
      /\ \A i \in 1..n : w[i] = s[p + i]
  <2>1. /\ w \in Seq(GoodToken) /\ Len(w) = Len(right) + Len(l)
        /\ \A i \in 1..(Len(right) + Len(l)) : w[i] = IF i <= Len(right) THEN right[i]
                                                      ELSE l[i - Len(right)]
    BY <1>1, <1>3, ConcatProperties
  <2> HIDE DEF w
  <2>2. Len(right) + Len(l) = n
    BY <1>1, <1>2, <1>3 DEF n
  <2>3. ASSUME NEW i \in 1..n PROVE w[i] = s[p + i]
    <3>1. CASE i <= Len(right)
      <4>1. i \in 1..(Len(c) - p) /\ p + i \in 1..Len(c)
        BY <3>1, <1>1, <1>3
      <4> QED BY <4>1, <3>1, <2>1, <2>2, <1>2, <1>3
    <3>2. CASE ~(i <= Len(right))
      <4> DEFINE k == i - Len(right)
      <4>1. k \in 1..Len(l) /\ p + i \in Nat /\ p + i = Len(c) + k
        BY <3>2, <2>2, <1>1, <1>3
      <4> HIDE DEF k
      <4>2. w[i] = l[k]
        BY <3>2, <2>1, <2>2 DEF k
      <4> QED BY <4>1, <4>2, <1>2
    <3> QED BY <3>1, <3>2
  <2> QED BY <2>1, <2>2, <2>3
<1>5. p \in 0..Len(s)
  BY <1>1, <1>2
<1>6. /\ v \in Seq(GoodToken) /\ Len(v) = n /\ \A i \in 1..n : v[i] = s[p + i]
  BY <1>2, <1>5, RestProperties DEF n
<1> HIDE DEF w, v
<1>7. w = v
  BY <1>4, <1>6, SeqEqual
<1> QED BY <1>2, <1>5, <1>7 DEF w, v, right, c, l, s

\* Without a layer nothing is cached.
LEMMA ComingIsRead ==
  ASSUME NEW q, Cached(q)
  PROVE  (IF q.caching
          THEN SubSeq(q.CachedTokens, q.CachedLexPos + 1, Len(q.CachedTokens)) \o q.lexers
          ELSE q.lexers) = Coming(q)
<1> DEFINE p == q.CachedLexPos
           c == q.CachedTokens
           l == q.lexers
<1>1. q \in PPType /\ p \in Nat /\ p <= Len(c) /\ l \in Seq(GoodToken) /\ (~q.caching => c = << >>)
  BY DEF Cached, PPType
<1>2. SubSeq(c, p + 1, Len(c)) \o l = Coming(q)
  BY <1>1, ReadIsRest DEF Coming
<1>3. ASSUME ~q.caching PROVE SubSeq(c, p + 1, Len(c)) \o l = l
  <2> DEFINE none == << >>
  <2>1. c = none /\ Len(none) = 0 /\ none \in Seq(GoodToken)
    BY <1>1, <1>3
  <2> HIDE DEF none, p, c, l
  <2>2. p = 0
    BY <2>1, <1>1
  <2>3. SubSeq(none, 1, 0) \in Seq(GoodToken) /\ Len(SubSeq(none, 1, 0)) = 0
    <3>1. \A i \in 1..0 : none[i] \in GoodToken
      OBVIOUS
    <3>2. /\ SubSeq(none, 1, 0) \in Seq(GoodToken)
          /\ Len(SubSeq(none, 1, 0)) = IF 1 <= 0 THEN 0 - 1 + 1 ELSE 0
      BY <3>1, SubSeqProperties
    <3> QED BY <3>2
  <2>4. SubSeq(c, p + 1, Len(c)) = << >>
    BY <2>1, <2>2, <2>3, EmptySeq
  <2>5. << >> \o l = l
    BY <1>1, ConcatEmptySeq
  <2> QED BY <2>4, <2>5
<1> QED BY <1>2, <1>3

\* The trials of TokenStream are read from the saved positions.
LEMMA RememberedIsRead ==
  ASSUME NEW q, NEW ts, Cached(q), Len(ts) = Len(q.BacktrackPositions)
  PROVE  [k \in 1..Len(ts) |->
            [tok |-> ts[k],
             ahead |-> SubSeq(q.CachedTokens, q.BacktrackPositions[k] + 1, Len(q.CachedTokens))
                         \o q.lexers]]
         = Remembered(q, ts)
<1> DEFINE back == q.BacktrackPositions
           p == q.CachedLexPos
           n == Len(q.CachedTokens)
           read(k) == SubSeq(q.CachedTokens, back[k] + 1, Len(q.CachedTokens)) \o q.lexers
<1>1. /\ q \in PPType /\ back \in Seq(Nat) /\ p \in Nat /\ p <= n /\ n \in Nat
      /\ \A k \in 1..Len(back) : back[k] <= p
  BY LenProperties DEF Cached, PPType
<1>2. ASSUME NEW k \in 1..Len(ts) PROVE read(k) = Rest(All(q), back[k])
  <2>1. back[k] \in Nat /\ back[k] <= p
    BY <1>1, ElementOfSeq
  <2>2. back[k] <= n
    <3> HIDE DEF p, n, back
    <3> QED BY <2>1, <1>1
  <2> QED BY <2>1, <2>2, <1>1, ReadIsRest
<1> HIDE DEF read
<1>3. [k \in 1..Len(ts) |-> [tok |-> ts[k], ahead |-> read(k)]]
        = [k \in 1..Len(ts) |-> [tok |-> ts[k], ahead |-> Rest(All(q), back[k])]]
  BY <1>2
<1> QED BY <1>3 DEF read, Remembered, Memory

\* Two tokens that are followed by the same end at the same place.
LEMMA SameEnd ==
  ASSUME NEW s \in Seq(GoodToken), NEW e \in Nat, NEW f \in Nat, NEW p \in Nat,
         Follows(s, e, p), Follows(s, f, p)
  PROVE  e = f
<1>1. Len(s) \in Nat
  BY LenProperties
<1>2. p <= Len(s) /\ (p = Len(s) => e = End /\ f = End)
      /\ (p < Len(s) => s[p + 1].first = e + 1 /\ s[p + 1].first = f + 1)
  BY DEF Follows
<1>3. CASE p < Len(s)
  <2>1. e + 1 = f + 1
    BY <1>2, <1>3
  <2> QED BY <2>1
<1> QED BY <1>1, <1>2, <1>3

\* Nothing is remembered where no trial is open.
LEMMA NoneRemembered ==
  ASSUME NEW s, NEW s2, NEW back, NEW back2, NEW ts, Len(ts) = 0, NEW x
  PROVE  /\ Memory(s2, back2, ts) = Memory(s, back, ts)
         /\ Memory(s2, back2, ts) = Rewrite(Memory(s, back, ts), x)
<1>1. 1..Len(ts) = {}
  OBVIOUS
<1>2. Memory(s2, back2, ts) = Memory(s, back, ts)
  BY <1>1 DEF Memory
<1>3. DOMAIN Memory(s, back, ts) = {}
  BY <1>1 DEF Memory
<1>4. Rewrite(Memory(s, back, ts), x) = Memory(s, back, ts)
  <2> DEFINE m == Memory(s, back, ts)
             at(k) == [m[k] EXCEPT !.ahead = Contract!Replaced(@, x)]
  <2>1. m = [k \in DOMAIN m |-> m[k]]
    BY DEF Memory
  <2>2. Rewrite(m, x) = [k \in DOMAIN m |-> at(k)]
    BY DEF Rewrite
  <2>3. DOMAIN m = {}
    BY <1>3
  <2> HIDE DEF m, at
  <2>4. [k \in DOMAIN m |-> m[k]] = [k \in DOMAIN m |-> at(k)]
    BY <2>3
  <2> QED BY <2>1, <2>2, <2>4 DEF m
<1> QED BY <1>2, <1>4

\* What is remembered is replaced trial by trial.
LEMMA RewriteMemory ==
  ASSUME NEW s, NEW s2, NEW back, NEW ts, NEW x,
         \A k \in 1..Len(ts) :
            Contract!Replaced(Rest(s, back[k]), x) = Rest(s2, back[k])
  PROVE  Memory(s2, back, ts) = Rewrite(Memory(s, back, ts), x)
<1> DEFINE m == Memory(s, back, ts)
           at(k) == [m[k] EXCEPT !.ahead = Contract!Replaced(@, x)]
           new(k) == [tok |-> ts[k], ahead |-> Rest(s2, back[k])]
<1>1. DOMAIN m = 1..Len(ts)
  BY DEF Memory
<1>2. ASSUME NEW k \in 1..Len(ts) PROVE at(k) = new(k)
  <2>1. m[k] = [tok |-> ts[k], ahead |-> Rest(s, back[k])]
    BY DEF Memory
  <2>2. Contract!Replaced(Rest(s, back[k]), x) = Rest(s2, back[k])
    OBVIOUS
  <2> HIDE DEF m
  <2> QED BY <2>1, <2>2
<1> HIDE DEF m, at, new
<1>3. [k \in DOMAIN m |-> at(k)] = [k \in 1..Len(ts) |-> new(k)]
  BY <1>1, <1>2
<1> QED BY <1>3 DEF at, new, m, Memory, Rewrite

\* Every trial remembers a replacement of tokens that were read since it began,
\* and one of the last token read before it began leaves no trace.
LEMMA MemoryReplaced ==
  ASSUME NEW s \in Seq(GoodToken), NEW x \in Seq(GoodToken), NEW back \in Seq(Nat), NEW ts,
         NEW a \in Nat, NEW b \in (a + 1)..Len(s),
         Trials(s, back, ts), Len(x) # 0,
         x[1].first = s[a + 1].first, x[Len(x)].last = s[b].last,
         Follows(s, x[Len(x)].last, b),
         \A k \in 1..Len(back) : back[k] <= a \/ (back[k] = b /\ b = a + Len(x))
  PROVE  Memory(Splice(s, a, b, x), back, ts) = Rewrite(Memory(s, back, ts), x)
<1> DEFINE s2 == Splice(s, a, b, x)
           e == x[Len(x)].last
<1>1. Len(s) \in Nat /\ Len(x) \in Nat \ {0} /\ Len(ts) = Len(back) /\ ts \in Seq(GoodToken)
  BY LenProperties DEF Trials
<1>2. e \in Nat
  BY <1>1, TokenNumbers
<1>3. ASSUME NEW k \in 1..Len(ts)
      PROVE  Contract!Replaced(Rest(s, back[k]), x) = Rest(s2, back[k])
  <2> DEFINE p == back[k]
             f == ts[k].last
  <2>1. /\ k \in 1..Len(back) /\ p \in Nat /\ Follows(s, f, p)
        /\ p <= a \/ (p = b /\ b = a + Len(x))
    BY <1>1, ElementOfSeq DEF Trials
  <2>2. f \in Nat
    BY <1>1, TokenNumbers
  <2> HIDE DEF p, f
  <2>3. CASE p <= a
    <3>1. a \in p..Len(s)
      BY <2>1, <2>3, <1>1
    <3>2. s \in Seq(GoodToken) /\ x \in Seq(GoodToken) /\ b \in (a + 1)..Len(s) /\ Len(x) # 0
          /\ x[1].first = s[a + 1].first /\ x[Len(x)].last = s[b].last
      BY <1>1
    <3>3. Contract!Replaced(Rest(s, p), x) = Rest(s2, p)
      BY <3>1, <3>2, <2>1, <2>2, ReplacedInside
    <3> QED BY <3>3 DEF p
  <2>4. CASE p = b /\ b = a + Len(x)
    <3>1. f = e
      BY <2>1, <2>2, <2>4, <1>2, SameEnd
    <3>2. Contract!Replaced(Rest(s, p), x) = Rest(s, p)
      <4>1. x[Len(x)].last <= f
        BY <3>1, <2>2
      <4> QED BY <4>1, <1>1, <2>1, <2>2, ReplacedOutside
    <3>3. a \in 0..Len(s) /\ b \in a..Len(s) /\ b \in b..Len(s) /\ b = b - (b - a) + Len(x)
      <4>1. \A i, j, n, m \in Nat : i + 1 <= j /\ j <= n /\ j = i + m =>
              i \in 0..n /\ j \in i..n /\ j \in j..n /\ j = j - (j - i) + m
        OBVIOUS
      <4>2. a \in Nat /\ b \in Nat /\ Len(s) \in Nat /\ Len(x) \in Nat /\ a + 1 <= b /\ b <= Len(s)
        BY <1>1
      <4> QED BY <4>1, <4>2, <2>4
    <3>4. Rest(Splice(s, a, b, x), b) = Rest(s, b)
      <4>1. s \in Seq(GoodToken) /\ x \in Seq(GoodToken)
        OBVIOUS
      <4> DEFINE to == b - (b - a) + Len(x)
      <4>2. to = b
        BY <3>3
      <4> HIDE DEF to
      <4>3. Rest(Splice(s, a, b, x), to) = Rest(s, b)
        BY <4>1, <3>3, RestBehind DEF to
      <4> QED BY <4>2, <4>3
    <3> QED BY <3>2, <3>4, <2>4 DEF p
  <2> QED BY <2>1, <2>3, <2>4
<1> HIDE DEF s2
<1>4. Memory(s2, back, ts) = Rewrite(Memory(s, back, ts), x)
  BY <1>3, RewriteMemory
<1> QED BY <1>4 DEF s2

\* Tokens up to the place every trial goes back to are not ahead of it.
LEMMA MemoryUntouched ==
  ASSUME NEW s \in Seq(GoodToken), NEW x \in Seq(GoodToken), NEW back \in Seq(Nat), NEW ts,
         NEW p \in Nat, Trials(s, back, ts), Len(x) # 0,
         Follows(s, x[Len(x)].last, p),
         \A k \in 1..Len(back) : back[k] = p
  PROVE  Memory(s, back, ts) = Rewrite(Memory(s, back, ts), x)
<1>1. Len(x) \in Nat \ {0} /\ Len(ts) = Len(back) /\ ts \in Seq(GoodToken)
  BY LenProperties DEF Trials
<1>2. x[Len(x)].last \in Nat
  BY <1>1, TokenNumbers
<1>3. ASSUME NEW k \in 1..Len(ts)
      PROVE  Contract!Replaced(Rest(s, back[k]), x) = Rest(s, back[k])
  <2> DEFINE f == ts[k].last
             e == x[Len(x)].last
  <2>1. back[k] = p /\ Follows(s, f, p)
    BY <1>1 DEF Trials
  <2>2. f \in Nat
    BY <1>1, TokenNumbers
  <2> HIDE DEF f
  <2>3. f = e
    BY <2>1, <2>2, <1>2, SameEnd
  <2>4. e <= f
    BY <2>3, <2>2
  <2> QED BY <2>1, <2>2, <2>4, <1>1, ReplacedOutside
<1> QED BY <1>3, RewriteMemory

\* What is entered comes before the rest.
LEMMA RestEntered ==
  ASSUME NEW S, NEW s \in Seq(S), NEW x \in Seq(S), NEW p \in 0..Len(s)
  PROVE  /\ p + Len(x) \in 0..Len(Splice(s, p, p, x))
         /\ Rest(Splice(s, p, p, x), p + Len(x)) = Rest(s, p)
<1> DEFINE to == p - (p - p) + Len(x)
<1>1. p \in Nat /\ Len(s) \in Nat /\ Len(x) \in Nat /\ p <= Len(s)
  BY LenProperties
<1>2. to = p + Len(x)
  BY <1>1
<1>3. p \in p..Len(s) /\ p \in 0..Len(s)
  BY <1>1
<1> HIDE DEF to
<1>4. to \in 0..Len(Splice(s, p, p, x)) /\ Rest(Splice(s, p, p, x), to) = Rest(s, p)
  BY <1>3, RestBehind DEF to
<1> QED BY <1>2, <1>4

\* What is dropped at the beginning is not in the rest.
LEMMA RestDropped ==
  ASSUME NEW S, NEW s \in Seq(S), NEW b \in 0..Len(s)
  PROVE  Rest(Splice(s, 0, b, << >>), 0) = Rest(s, b)
<1> DEFINE r == Rest(s, b)
           w == Rest(r, 0)
<1>1. b \in Nat /\ Len(s) \in Nat /\ b <= Len(s)
  BY LenProperties
<1>2. r \in Seq(S) /\ Len(r) = Len(s) - b /\ \A i \in 1..(Len(s) - b) : r[i] = s[b + i]
  BY RestProperties
<1> HIDE DEF r
<1>3. ASSUME NEW i \in (b + 1)..Len(s), NEW j \in Nat, j = i - b PROVE r[j] = s[i]
  <2>1. j \in 1..(Len(s) - b) /\ b + j = i
    BY <1>1, <1>3
  <2> QED BY <2>1, <1>2
<1>4. r = Splice(s, 0, b, << >>)
  BY <1>2, <1>3, SpliceFront
<1>5. 0 \in 0..Len(r) /\ Len(r) - 0 = Len(r) /\ \A i \in 1..Len(r) : 0 + i = i
  BY <1>1, <1>2
<1>6. w \in Seq(S) /\ Len(w) = Len(r) - 0 /\ \A i \in 1..(Len(r) - 0) : w[i] = r[0 + i]
  BY <1>2, <1>5, RestProperties
<1> HIDE DEF w
<1>7. Len(w) = Len(r) /\ \A i \in 1..Len(w) : w[i] = r[i]
  BY <1>5, <1>6
<1>8. w = r
  BY <1>2, <1>6, <1>7, SameElements
<1> QED BY <1>4, <1>8 DEF w, r

\* One token is entered, and two.
LEMMA RestEnteredOne ==
  ASSUME NEW S, NEW s \in Seq(S), NEW t \in S, NEW p \in 0..Len(s)
  PROVE  LET w == Rest(Splice(s, p, p, <<t>>), p)
         IN w # << >> /\ Head(w) = t /\ Tail(w) = Rest(s, p)
<1> DEFINE x == <<t>>
           to == p + Len(x)
           s2 == Splice(s, p, p, x)
<1>1. x \in Seq(S) /\ Len(x) = 1 /\ x[1] = t
  OBVIOUS
<1> HIDE DEF x
<1>2. p \in Nat /\ Len(s) \in Nat /\ p <= Len(s)
  BY LenProperties
<1>3. p \in p..Len(s) /\ 1 \in 1..Len(x) /\ to = p + 1 /\ p + 1 \in Nat
  BY <1>1, <1>2
<1>4. Rest(s2, to) = Rest(s, p)
  BY <1>1, RestEntered
<1>5. s2 \in Seq(S) /\ IsSplice(s2, s, p, p, x)
  BY <1>1, <1>3, SpliceProperties
<1> HIDE DEF s2, to
<1>6. Len(s2) = Len(s) - (p - p) + Len(x) /\ s2[p + 1] = t
  BY <1>1, <1>3, <1>5 DEF IsSplice
<1>7. p < Len(s2)
  BY <1>1, <1>2, <1>6
<1>8. /\ Rest(s2, p) # << >> /\ Head(Rest(s2, p)) = s2[p + 1]
      /\ Tail(Rest(s2, p)) = Rest(s2, p + 1)
  BY <1>2, <1>5, <1>7, RestStep
<1> QED BY <1>3, <1>4, <1>6, <1>8 DEF x, s2

\* Two tokens entered at the position are ahead, in order, of what was.
LEMMA RestEnteredTwo ==
  ASSUME NEW S, NEW s \in Seq(S), NEW t \in S, NEW u \in S, NEW p \in 0..Len(s)
  PROVE  LET w == Rest(Splice(s, p, p, <<t, u>>), p)
         IN /\ w # << >> /\ Head(w) = t /\ Tail(w) # << >> /\ Head(Tail(w)) = u
            /\ Tail(Tail(w)) = Rest(s, p)
            /\ w \in Seq(S) /\ Tail(w) \in Seq(S)
<1> DEFINE x == <<t, u>>
           to == p + Len(x)
           p1 == p + 1
           s2 == Splice(s, p, p, x)
<1>1. x \in Seq(S) /\ Len(x) = 2 /\ x[1] = t /\ x[2] = u
  OBVIOUS
<1> HIDE DEF x
<1>2. p \in Nat /\ Len(s) \in Nat /\ p <= Len(s)
  BY LenProperties
<1>3. /\ p \in p..Len(s) /\ 1 \in 1..Len(x) /\ 2 \in 1..Len(x)
      /\ to = p1 + 1 /\ p1 \in Nat /\ p1 = p + 1 /\ p1 + 1 \in Nat /\ p1 + 1 = p + 2
  BY <1>1, <1>2
<1>4. Rest(s2, to) = Rest(s, p)
  BY <1>1, RestEntered
<1>5. s2 \in Seq(S) /\ IsSplice(s2, s, p, p, x)
  BY <1>1, <1>3, SpliceProperties
<1> HIDE DEF s2, to, p1
<1>6. Len(s2) = Len(s) - (p - p) + Len(x) /\ s2[p1] = t /\ s2[p1 + 1] = u
  BY <1>1, <1>3, <1>5 DEF IsSplice
<1>7. p < Len(s2) /\ p1 < Len(s2) /\ p \in 0..Len(s2) /\ p1 \in 0..Len(s2)
  BY <1>1, <1>2, <1>3, <1>6
<1>8. /\ Rest(s2, p) # << >> /\ Head(Rest(s2, p)) = s2[p + 1]
      /\ Tail(Rest(s2, p)) = Rest(s2, p + 1)
  BY <1>2, <1>5, <1>7, RestStep
<1>9. /\ Rest(s2, p1) # << >> /\ Head(Rest(s2, p1)) = s2[p1 + 1]
      /\ Tail(Rest(s2, p1)) = Rest(s2, p1 + 1)
  BY <1>3, <1>5, <1>7, RestStep
<1>10. Rest(s2, p) \in Seq(S) /\ Rest(s2, p1) \in Seq(S)
  BY <1>5, <1>7, RestProperties
<1> QED BY <1>3, <1>4, <1>6, <1>8, <1>9, <1>10 DEF x, s2

\* Reading a token takes it off what is ahead, and every trial still remembers
\* it.
LEMMA StreamLex ==
  ASSUME NEW q, NEW t, NEW ts, Good(q, t, ts), t.last # End
  PROVE  /\ Coming(q) # << >> /\ LexResult(q) = Head(Coming(q))
         /\ Coming(Lex(q)) = Tail(Coming(q))
         /\ Remembered(Lex(q), ts) = Remembered(q, ts)
<1> DEFINE s == All(q)
           p == q.CachedLexPos
           back == q.BacktrackPositions
           r == Lex(q)
<1>1. /\ Cached(q) /\ q \in PPType /\ p \in Nat /\ Follows(s, t.last, p)
      /\ Len(ts) = Len(back)
  BY DEF Good, Current, Trials, Cached, PPType
<1>2. s \in Seq(GoodToken) /\ Len(s) \in Nat
  BY <1>1, AllProperties, LenProperties
<1>3. p < Len(s)
  <2>1. p <= Len(s) /\ p # Len(s)
    BY <1>1 DEF Follows
  <2> HIDE DEF s, p
  <2> QED BY <2>1, <1>1, <1>2
<1>4. /\ LexResult(q) = s[p + 1] /\ r.BacktrackPositions = back
      /\ \/ All(r) = s /\ r.CachedLexPos = p + 1
         \/ back = << >> /\ r.CachedLexPos = 0 /\ All(r) = Splice(s, 0, p + 1, << >>)
  BY <1>1, <1>3, LexProperties
<1>5. /\ Rest(s, p) # << >> /\ Head(Rest(s, p)) = s[p + 1]
      /\ Tail(Rest(s, p)) = Rest(s, p + 1)
  BY <1>1, <1>2, <1>3, RestStep
<1> HIDE DEF s, p, back, r
<1>6. CASE All(r) = s /\ r.CachedLexPos = p + 1
  BY <1>4, <1>5, <1>6 DEF Coming, Remembered, s, p, back, r
<1>7. CASE back = << >> /\ r.CachedLexPos = 0 /\ All(r) = Splice(s, 0, p + 1, << >>)
  <2>1. p + 1 \in 0..Len(s)
    BY <1>1, <1>2, <1>3
  <2>2. Rest(Splice(s, 0, p + 1, << >>), 0) = Rest(s, p + 1)
    BY <2>1, <1>2, RestDropped
  <2>6. Coming(r) = Rest(s, p + 1)
    BY <2>2, <1>7 DEF Coming
  <2>7. Len(ts) = 0
    BY <1>7, <1>1
  <2>8. Remembered(r, ts) = Remembered(q, ts)
    BY <2>7, NoneRemembered DEF Remembered
  <2> QED BY <2>6, <2>8, <1>4, <1>5 DEF Coming, s, p, r
<1> QED BY <1>4, <1>6, <1>7

\* Looking ahead changes nothing.
LEMMA StreamLook ==
  ASSUME NEW q, Cached(q), NEW ts, NEW n \in Nat, Missing(q, n) <= Len(q.lexers)
  PROVE  Coming(LookAhead(q, n)) = Coming(q) /\ Remembered(LookAhead(q, n), ts) = Remembered(q, ts)
<1> DEFINE r == LookAhead(q, n)
<1>1. /\ All(r) = All(q) /\ r.CachedLexPos = q.CachedLexPos
      /\ r.BacktrackPositions = q.BacktrackPositions
  BY LookAheadProperties
<1> HIDE DEF r
<1> QED BY <1>1 DEF Coming, Remembered, r

\* A token that is entered is ahead of what was.
LEMMA StreamEnter ==
  ASSUME NEW q, q \in PPType, q.CachedLexPos <= Len(All(q)), NEW t \in GoodToken, NEW r,
         All(r) = Splice(All(q), q.CachedLexPos, q.CachedLexPos, <<t>>),
         r.CachedLexPos = q.CachedLexPos
  PROVE  Coming(r) # << >> /\ Head(Coming(r)) = t /\ Tail(Coming(r)) = Coming(q)
<1> DEFINE s == All(q)
           p == q.CachedLexPos
<1>1. s \in Seq(GoodToken) /\ p \in 0..Len(s)
  <2>1. s \in Seq(GoodToken) /\ Len(s) \in Nat /\ p \in Nat /\ p <= Len(s)
    BY AllProperties, LenProperties DEF PPType
  <2> HIDE DEF s, p
  <2> QED BY <2>1
<1>2. Coming(r) = Rest(Splice(s, p, p, <<t>>), p) /\ Coming(q) = Rest(s, p)
  BY DEF Coming
<1> HIDE DEF s, p
<1> QED BY <1>1, <1>2, RestEnteredOne

\* Two tokens that are entered are ahead of what was, in their order.
LEMMA StreamEnterTwo ==
  ASSUME NEW q, q \in PPType, q.CachedLexPos <= Len(All(q)), NEW t \in GoodToken,
         NEW u \in GoodToken, NEW r,
         All(r) = Splice(All(q), q.CachedLexPos, q.CachedLexPos, <<t, u>>),
         r.CachedLexPos = q.CachedLexPos
  PROVE  /\ Coming(r) # << >> /\ Head(Coming(r)) = t
         /\ Tail(Coming(r)) # << >> /\ Head(Tail(Coming(r))) = u
         /\ Tail(Tail(Coming(r))) = Coming(q)
         /\ Coming(r) \in Seq(GoodToken) /\ Tail(Coming(r)) \in Seq(GoodToken)
<1> DEFINE s == All(q)
           p == q.CachedLexPos
<1>1. s \in Seq(GoodToken) /\ p \in 0..Len(s)
  <2>1. s \in Seq(GoodToken) /\ Len(s) \in Nat /\ p \in Nat /\ p <= Len(s)
    BY AllProperties, LenProperties DEF PPType
  <2> HIDE DEF s, p
  <2> QED BY <2>1
<1>2. Coming(r) = Rest(Splice(s, p, p, <<t, u>>), p) /\ Coming(q) = Rest(s, p)
  BY DEF Coming
<1> HIDE DEF s, p
<1>3. LET w == Rest(Splice(s, p, p, <<t, u>>), p)
      IN /\ w # << >> /\ Head(w) = t /\ Tail(w) # << >> /\ Head(Tail(w)) = u
         /\ Tail(Tail(w)) = Rest(s, p)
         /\ w \in Seq(GoodToken) /\ Tail(w) \in Seq(GoodToken)
  BY <1>1, RestEnteredTwo
<1> QED BY <1>2, <1>3

\* RestBehind where the place after the replaced tokens is meant.
LEMMA RestAfter ==
  ASSUME NEW S, NEW s \in Seq(S), NEW x \in Seq(S),
         NEW a \in 0..Len(s), NEW b \in a..Len(s)
  PROVE  /\ a + Len(x) \in 0..Len(Splice(s, a, b, x))
         /\ Rest(Splice(s, a, b, x), a + Len(x)) = Rest(s, b)
<1> DEFINE to == b - (b - a) + Len(x)
<1>1. a \in Nat /\ b \in Nat /\ Len(s) \in Nat /\ Len(x) \in Nat /\ a <= b /\ b <= Len(s)
  BY LenProperties
<1>2. to = a + Len(x)
  BY <1>1
<1>3. b \in b..Len(s)
  BY <1>1
<1> HIDE DEF to
<1>4. to \in 0..Len(Splice(s, a, b, x)) /\ Rest(Splice(s, a, b, x), to) = Rest(s, b)
  BY <1>3, RestBehind DEF to
<1> QED BY <1>2, <1>4

\* The cached tokens from position i on become u: what is ahead stays, and the
\* trials that began before them find u there.
LEMMA StreamAnnotated ==
  ASSUME NEW q, NEW ts, Cached(q), Trials(All(q), q.BacktrackPositions, ts),
         NEW u \in GoodToken, Follows(All(q), u.last, q.CachedLexPos),
         NEW i \in 1..q.CachedLexPos,
         q.CachedTokens[i].first = u.first, q.CachedTokens[q.CachedLexPos].last = u.last,
         \A k \in 1..Len(q.BacktrackPositions) :
            \/ q.BacktrackPositions[k] <= i - 1
            \/ q.BacktrackPositions[k] = q.CachedLexPos /\ i = q.CachedLexPos
  PROVE  LET r == Moved(q, Splice(q.CachedTokens, i - 1, q.CachedLexPos, <<u>>), i)
         IN /\ Coming(r) = Coming(q)
            /\ Remembered(r, ts) = Rewrite(Remembered(q, ts), <<u>>)
<1> DEFINE c == q.CachedTokens
           p == q.CachedLexPos
           back == q.BacktrackPositions
           s == All(q)
           x == <<u>>
           r == Moved(q, Splice(c, i - 1, p, x), i)
           s2 == All(r)
<1>1. /\ q \in PPType /\ p \in Nat /\ p <= Len(c) /\ c \in Seq(GoodToken) /\ Len(c) \in Nat
      /\ back \in Seq(Nat)
  BY LenProperties DEF Cached, PPType
<1>2. /\ s \in Seq(GoodToken) /\ Len(s) \in Nat /\ Len(c) <= Len(s)
      /\ \A k \in 1..Len(c) : s[k] = c[k]
  <2>1. /\ s \in Seq(GoodToken) /\ Len(s) = Len(c) + Len(q.lexers) /\ Len(q.lexers) \in Nat
        /\ \A k \in 1..Len(c) : s[k] = c[k]
    BY <1>1, AllProperties
  <2> HIDE DEF s, c
  <2> QED BY <2>1, <1>1
<1>3. x \in Seq(GoodToken) /\ Len(x) = 1 /\ x[1] = u
  OBVIOUS
<1> DEFINE a == i - 1
<1>5. i \in 1..p /\ c[i].first = u.first /\ c[p].last = u.last /\ Follows(s, u.last, p)
      /\ Trials(s, back, ts)
      /\ \A k \in 1..Len(back) : back[k] <= a \/ (back[k] = p /\ i = p)
  OBVIOUS
<1>6. \A k \in 1..Len(back) : back[k] \in Nat
  BY <1>1, ElementOfSeq
<1>7. NoneAfter(q, i)
  <2>1. ASSUME NEW k \in 1..Len(back) PROVE back[k] <= i
    <3> HIDE DEF c, p, back, s, x
    <3>1. back[k] <= a \/ back[k] = i
      BY <1>5
    <3>2. back[k] \in Nat /\ i \in Nat
      BY <1>1, <1>5, <1>6
    <3> QED BY <3>1, <3>2
  <2> QED BY <2>1 DEF NoneAfter
<1>8. /\ Cached(r) /\ s2 = Splice(s, a, p, x) /\ r.CachedLexPos = i
      /\ r.BacktrackPositions = back
  BY <1>7, ReplacedByOne
<1> HIDE DEF c, p, back, s, x, r, s2
<1>9. /\ a \in Nat /\ i \in Nat /\ a + 1 = i /\ p \in (a + 1)..Len(s) /\ p \in a..Len(s) /\ a \in 0..Len(s)
      /\ p \in p..Len(s) /\ i = p - (p - a) + Len(x) /\ i \in 1..Len(c) /\ p \in 1..Len(c)
      /\ a + Len(x) = i
  BY <1>1, <1>2, <1>3, <1>5
<1> HIDE DEF a
<1>10. Memory(Splice(s, a, p, x), back, ts) = Rewrite(Memory(s, back, ts), x)
  <2>1. x[1].first = s[a + 1].first /\ x[Len(x)].last = s[p].last
    BY <1>2, <1>3, <1>5, <1>9
  <2>2. \A k \in 1..Len(back) : back[k] <= a \/ (back[k] = p /\ p = a + Len(x))
    BY <1>5, <1>9
  <2>3. /\ s \in Seq(GoodToken) /\ x \in Seq(GoodToken) /\ back \in Seq(Nat)
        /\ a \in Nat /\ p \in (a + 1)..Len(s) /\ Trials(s, back, ts)
        /\ Len(x) # 0 /\ Follows(s, x[Len(x)].last, p)
    BY <1>1, <1>2, <1>3, <1>5, <1>9
  <2> QED BY <2>1, <2>2, <2>3, MemoryReplaced
<1>11. Rest(Splice(s, a, p, x), i) = Rest(s, p)
  <2> DEFINE to == a + Len(x)
  <2>1. to = i
    BY <1>9
  <2>2. s \in Seq(GoodToken) /\ x \in Seq(GoodToken) /\ a \in 0..Len(s) /\ p \in a..Len(s)
    BY <1>2, <1>3, <1>9
  <2>3. Rest(Splice(s, a, p, x), to) = Rest(s, p)
    BY <2>2, RestAfter
  <2> HIDE DEF to
  <2> QED BY <2>1, <2>3
<1>12. /\ Coming(r) = Rest(s2, i) /\ Coming(q) = Rest(s, p)
       /\ Remembered(r, ts) = Memory(s2, back, ts) /\ Remembered(q, ts) = Memory(s, back, ts)
  BY <1>8 DEF Coming, Remembered, s2, s, p, back
<1> QED BY <1>8, <1>10, <1>11, <1>12 DEF r, c, p, x

\* The same when it is AnnotateCachedTokens that replaces them.
LEMMA StreamSummary ==
  ASSUME NEW q, NEW ts, Cached(q), Trials(All(q), q.BacktrackPositions, ts),
         q.BacktrackPositions # << >>, q.CachedLexPos # 0,
         NEW u \in GoodToken, Follows(All(q), u.last, q.CachedLexPos),
         q.CachedTokens[q.CachedLexPos].last = u.last,
         NEW j \in Begins(q, u.first),
         LastBacktrack(q) < j \/ j = q.CachedLexPos
  PROVE  /\ Coming(AnnotateCachedTokens(q, u)) = Coming(q)
         /\ Remembered(AnnotateCachedTokens(q, u), ts) = Rewrite(Remembered(q, ts), <<u>>)
<1> DEFINE p == q.CachedLexPos
           c == q.CachedTokens
           back == q.BacktrackPositions
           is == Begins(q, u.first)
           i == Nearest(is)
           last == LastBacktrack(q)
<1>1. /\ p \in Nat /\ last \in 0..p /\ \A k \in 1..Len(back) : back[k] \in Nat /\ back[k] <= last
  BY InnermostIsLast, ElementOfSeq DEF Cached, PPType
<1>2. is \in SUBSET (1..p) /\ is # {} /\ j \in is /\ \A k \in is : c[k].first = u.first
  BY DEF Begins
<1> HIDE DEF is, i
<1>3. i \in is /\ \A k \in is : k <= i
  BY <1>1, <1>2, NearestProperties DEF i
<1>4. i \in 1..p /\ i \in Nat /\ j \in 1..p /\ j <= i /\ c[i].first = u.first
  BY <1>1, <1>2, <1>3
<1>5. last < j \/ j = p
  OBVIOUS
<1> HIDE DEF last, p, back
<1>6. /\ last < j => \A k \in 1..Len(back) : back[k] <= i - 1
      /\ j = p => i = p
      /\ \A k \in 1..Len(back) : back[k] <= p - 1 \/ back[k] = p
  BY <1>1, <1>4, <1>5
<1>7. \A k \in 1..Len(back) : back[k] <= i - 1 \/ (back[k] = p /\ i = p)
  BY <1>4, <1>5, <1>6
<1> DEFINE r == Moved(q, Splice(c, i - 1, p, <<u>>), i)
<1>8. AnnotateCachedTokens(q, u) = r
  BY <1>2 DEF AnnotateCachedTokens, Moved, isBacktrackEnabled, i, is, p
<1>9. Coming(r) = Coming(q) /\ Remembered(r, ts) = Rewrite(Remembered(q, ts), <<u>>)
  BY <1>4, <1>7, StreamAnnotated DEF p, back
<1> QED BY <1>8, <1>9

\* r has g and rest in place of the tokens of s from p up to b, and no trial
\* began at one of these.
SplitIn(r, ts, s, p, b, g, rest) ==
    /\ Cached(r) /\ s \in Seq(GoodToken) /\ p \in 1..Len(s) /\ b \in p..Len(s)
    /\ g \in GoodToken /\ rest \in GoodToken
    /\ All(r) = Splice(s, p - 1, b, <<g, rest>>)
    /\ Follows(s, rest.last, b) /\ Trials(s, r.BacktrackPositions, ts)
    /\ \A k \in 1..Len(r.BacktrackPositions) : r.BacktrackPositions[k] <= p - 1
    /\ r.BacktrackPositions # << >> => g.first = s[p].first /\ rest.last = s[b].last

\* The token at p, and those up to b that were merged with it, became g and
\* rest: what was ahead of them is ahead of rest.
LEMMA StreamSplit ==
  ASSUME NEW r, NEW ts, NEW s, NEW p, NEW b, NEW g, NEW rest,
         SplitIn(r, ts, s, p, b, g, rest)
  PROVE  /\ r.CachedLexPos = p + 1 => Coming(r) = Rest(s, b)
         /\ r.CachedLexPos = p =>
               Coming(r) # << >> /\ Head(Coming(r)) = rest /\ Tail(Coming(r)) = Rest(s, b)
         /\ Remembered(r, ts) = Rewrite(Memory(s, r.BacktrackPositions, ts), <<g, rest>>)
<1> SUFFICES ASSUME
           Cached(r), s \in Seq(GoodToken), p \in 1..Len(s), b \in p..Len(s),
           g \in GoodToken, rest \in GoodToken,
           All(r) = Splice(s, p - 1, b, <<g, rest>>),
           Follows(s, rest.last, b), Trials(s, r.BacktrackPositions, ts),
           \A k \in 1..Len(r.BacktrackPositions) : r.BacktrackPositions[k] <= p - 1,
           r.BacktrackPositions # << >> => g.first = s[p].first /\ rest.last = s[b].last
         PROVE
         /\ r.CachedLexPos = p + 1 => Coming(r) = Rest(s, b)
         /\ r.CachedLexPos = p =>
               Coming(r) # << >> /\ Head(Coming(r)) = rest /\ Tail(Coming(r)) = Rest(s, b)
         /\ Remembered(r, ts) = Rewrite(Memory(s, r.BacktrackPositions, ts), <<g, rest>>)
  BY Zenon DEF SplitIn
<1> DEFINE back == r.BacktrackPositions
           a == p - 1
           x == <<g, rest>>
           s2 == All(r)
           p1 == p + 1
<1>1. /\ x \in Seq(GoodToken) /\ Len(x) = 2 /\ x[1] = g /\ x[2] = rest
  OBVIOUS
<1> HIDE DEF x
<1>2. /\ Len(s) \in Nat /\ a \in Nat /\ a + 1 = p /\ p \in Nat /\ a \in 0..Len(s) /\ b \in a..Len(s)
      /\ b \in (a + 1)..Len(s) /\ b \in b..Len(s) /\ p1 = b - (b - a) + Len(x)
      /\ p1 = p + 1 /\ p1 \in Nat /\ p1 = a + 2
  BY <1>1, LenProperties
<1> HIDE DEF a, p1
<1>3. s2 = Splice(s, a, b, x) /\ back \in Seq(Nat)
  BY DEF Cached, PPType, a, x
<1> HIDE DEF s2
<1>4. s2 \in Seq(GoodToken) /\ s2[p1] = rest
  <2>1. s2 \in Seq(GoodToken) /\ IsSplice(s2, s, a, b, x)
    BY <1>1, <1>2, <1>3, SpliceProperties
  <2>2. 2 \in 1..Len(x) /\ p1 = a + 2 /\ p1 \in Nat
    BY <1>1, <1>2
  <2> QED BY <2>1, <2>2, <1>1 DEF IsSplice
<1>5. p1 \in 0..Len(s2) /\ Rest(s2, p1) = Rest(s, b)
  <2> DEFINE to == a + Len(x)
  <2>1. to = p1
    BY <1>1, <1>2
  <2>2. to \in 0..Len(Splice(s, a, b, x)) /\ Rest(Splice(s, a, b, x), to) = Rest(s, b)
    BY <1>1, <1>2, RestAfter
  <2> HIDE DEF to
  <2> QED BY <2>1, <2>2, <1>3
<1>6. Rest(s2, p) # << >> /\ Head(Rest(s2, p)) = rest /\ Tail(Rest(s2, p)) = Rest(s, b)
  <2>1. Len(s2) \in Nat
    BY <1>4, LenProperties
  <2>2. p \in Nat /\ p < Len(s2)
    BY <2>1, <1>2, <1>5
  <2>3. /\ Rest(s2, p) # << >> /\ Head(Rest(s2, p)) = s2[p + 1]
        /\ Tail(Rest(s2, p)) = Rest(s2, p + 1)
    BY <2>2, <1>4, RestStep
  <2> QED BY <2>3, <1>2, <1>4, <1>5
<1>7. Memory(s2, back, ts) = Rewrite(Memory(s, back, ts), x)
  <2>1. CASE back = << >>
    <3>1. Len(back) = 0
      BY <2>1
    <3>2. Len(ts) = Len(back)
      BY DEF Trials
    <3> QED BY <3>1, <3>2, NoneRemembered
  <2>2. CASE back # << >>
    <3>1. x[1].first = s[a + 1].first /\ x[Len(x)].last = s[b].last
      BY <2>2, <1>1, <1>2
    <3>2. \A k \in 1..Len(back) : back[k] <= a \/ (back[k] = b /\ b = a + Len(x))
      BY DEF a
    <3>3. Len(x) # 0 /\ Trials(s, back, ts) /\ Follows(s, x[Len(x)].last, b)
      BY <1>1
    <3> HIDE DEF back
    <3>4. Memory(Splice(s, a, b, x), back, ts) = Rewrite(Memory(s, back, ts), x)
      <4>1. /\ s \in Seq(GoodToken) /\ x \in Seq(GoodToken) /\ back \in Seq(Nat)
            /\ a \in Nat /\ b \in (a + 1)..Len(s)
        BY <1>1, <1>2, <1>3
      <4> QED BY <4>1, <3>1, <3>2, <3>3, MemoryReplaced
    <3> QED BY <3>4, <1>3
  <2> QED BY <2>1, <2>2
<1>8. /\ r.CachedLexPos = p1 => Coming(r) = Rest(s2, p1)
      /\ r.CachedLexPos = p => Coming(r) = Rest(s2, p)
      /\ Remembered(r, ts) = Memory(s2, back, ts)
  BY DEF Coming, Remembered, s2
<1> QED BY <1>2, <1>5, <1>6, <1>7, <1>8 DEF x, back

\* What a trial remembers.
Trial == [tok : GoodToken, ahead : Seq(GoodToken)]

\* What the open trials remember is a stack.
LEMMA MemoryProperties ==
  ASSUME NEW s \in Seq(GoodToken), NEW back \in Seq(Nat), NEW ts, Trials(s, back, ts)
  PROVE  /\ Memory(s, back, ts) \in Seq(Trial) /\ Len(Memory(s, back, ts)) = Len(ts)
         /\ \A k \in 1..Len(ts) :
               Memory(s, back, ts)[k] = [tok |-> ts[k], ahead |-> Rest(s, back[k])]
<1> DEFINE m == Memory(s, back, ts)
           at(k) == [tok |-> ts[k], ahead |-> Rest(s, back[k])]
<1>1. ts \in Seq(GoodToken) /\ Len(ts) \in Nat /\ Len(back) = Len(ts) /\ Len(s) \in Nat
  BY LenProperties DEF Trials
<1>2. ASSUME NEW k \in 1..Len(ts) PROVE at(k) \in Trial
  <2>1. back[k] \in Nat /\ ts[k] \in GoodToken
    BY <1>1, ElementOfSeq
  <2>2. back[k] <= Len(s)
    BY <1>1 DEF Trials, Follows
  <2>3. back[k] \in 0..Len(s)
    BY <2>1, <2>2, <1>1
  <2>4. Rest(s, back[k]) \in Seq(GoodToken)
    BY <2>3, RestProperties
  <2> QED BY <2>1, <2>4 DEF Trial
<1>3. m = [k \in 1..Len(ts) |-> at(k)]
  BY DEF Memory
<1> HIDE DEF at, m
<1>4. m \in Seq(Trial) /\ DOMAIN m = 1..Len(ts) /\ \A k \in 1..Len(ts) : m[k] = at(k)
  BY <1>1, <1>2, <1>3
<1>5. Len(m) = Len(ts)
  BY <1>1, <1>4, LenProperties
<1> QED BY <1>4, <1>5 DEF m, at

\* A trial begins: it remembers what is ahead.
LEMMA MemoryPushed ==
  ASSUME NEW s \in Seq(GoodToken), NEW back \in Seq(Nat), NEW ts, Trials(s, back, ts),
         NEW p \in Nat, NEW t \in GoodToken,
         Trials(s, Append(back, p), Append(ts, t))
  PROVE  Memory(s, Append(back, p), Append(ts, t))
           = Append(Memory(s, back, ts), [tok |-> t, ahead |-> Rest(s, p)])
<1> DEFINE back2 == Append(back, p)
           ts2 == Append(ts, t)
           m == Memory(s, back, ts)
           m2 == Memory(s, back2, ts2)
           e == [tok |-> t, ahead |-> Rest(s, p)]
           a == Append(m, e)
           n == Len(ts)
<1>1. ts \in Seq(GoodToken) /\ n \in Nat /\ Len(back) = n
  BY LenProperties DEF Trials
<1>2. /\ back2 \in Seq(Nat) /\ Len(back2) = n + 1
      /\ \A k \in 1..n : back2[k] = back[k]
      /\ back2[n + 1] = p
  <2> HIDE DEF n
  <2>1. /\ Len(back2) = Len(back) + 1 /\ back2 \in Seq(Nat)
        /\ \A k \in 1..Len(back) : back2[k] = back[k]
        /\ back2[Len(back) + 1] = p
    BY AppendProperties
  <2> HIDE DEF back2
  <2> QED BY <2>1, <1>1
<1>3. /\ Len(ts2) = n + 1
      /\ \A k \in 1..n : ts2[k] = ts[k]
      /\ ts2[n + 1] = t
  BY <1>1, AppendProperties
<1>4. /\ m \in Seq(Trial) /\ Len(m) = n
      /\ \A k \in 1..n : m[k] = [tok |-> ts[k], ahead |-> Rest(s, back[k])]
  BY MemoryProperties
<1> HIDE DEF m, back2, ts2
<1>5. /\ m2 \in Seq(Trial) /\ Len(m2) = n + 1
      /\ \A k \in 1..(n + 1) : m2[k] = [tok |-> ts2[k], ahead |-> Rest(s, back2[k])]
  <2>1. Trials(s, back2, ts2)
    BY DEF back2, ts2
  <2>2. s \in Seq(GoodToken) /\ back2 \in Seq(Nat)
    BY <1>2
  <2>3. /\ m2 \in Seq(Trial) /\ Len(m2) = Len(ts2)
        /\ \A k \in 1..Len(ts2) : m2[k] = [tok |-> ts2[k], ahead |-> Rest(s, back2[k])]
    BY <2>1, <2>2, MemoryProperties
  <2> HIDE DEF m2
  <2> QED BY <2>3, <1>3
<1> HIDE DEF m2, n
<1>6. m2[n + 1] = e
  <2>1. n + 1 \in 1..(n + 1)
    BY <1>1
  <2> QED BY <2>1, <1>2, <1>3, <1>5
<1>7. e \in Trial
  <2>1. n + 1 \in 1..(n + 1)
    BY <1>1
  <2>2. m2[n + 1] \in Trial
    BY <2>1, <1>5, ElementOfSeq
  <2> QED BY <2>2, <1>6
<1> HIDE DEF e
<1>8. /\ a \in Seq(Trial) /\ Len(a) = n + 1
      /\ \A k \in 1..n : a[k] = m[k]
      /\ a[n + 1] = e
  BY <1>4, <1>7, AppendProperties
<1> HIDE DEF a
<1>9. ASSUME NEW k \in 1..(n + 1) PROVE m2[k] = a[k]
  <2>1. k \in 1..n \/ k = n + 1
    BY <1>1
  <2>2. CASE k \in 1..n
    <3>1. k \in 1..(n + 1)
      OBVIOUS
    <3>2. m2[k] = [tok |-> ts2[k], ahead |-> Rest(s, back2[k])]
      BY <3>1, <1>5
    <3>3. ts2[k] = ts[k] /\ back2[k] = back[k] /\ a[k] = m[k]
      BY <2>2, <1>2, <1>3, <1>8
    <3>4. m[k] = [tok |-> ts[k], ahead |-> Rest(s, back[k])]
      BY <2>2, <1>4
    <3> QED BY <3>2, <3>3, <3>4
  <2>3. CASE k = n + 1
    BY <2>3, <1>6, <1>8
  <2> QED BY <2>1, <2>2, <2>3
<1>10. m2 = a
  BY <1>5, <1>8, <1>9, SameElements
<1> QED BY <1>10 DEF m2, a, m, e, back2, ts2

\* A trial ends: the others remember what they did.
LEMMA MemoryPopped ==
  ASSUME NEW s \in Seq(GoodToken), NEW back \in Seq(Nat), NEW ts, Trials(s, back, ts),
         ts # << >>, Trials(s, Popped(back), Popped(ts))
  PROVE  /\ Memory(s, Popped(back), Popped(ts)) = Popped(Memory(s, back, ts))
         /\ Memory(s, back, ts) # << >>
         /\ LET n == Len(Memory(s, back, ts))
            IN Memory(s, back, ts)[n] = [tok |-> ts[Len(ts)], ahead |-> Rest(s, back[Len(back)])]
<1> DEFINE back2 == Popped(back)
           ts2 == Popped(ts)
           m == Memory(s, back, ts)
           m2 == Memory(s, back2, ts2)
           a == Popped(m)
           n == Len(ts)
<1>1. ts \in Seq(GoodToken) /\ n \in Nat \ {0} /\ Len(back) = n /\ back # << >>
  <2>1. ts \in Seq(GoodToken) /\ Len(back) = n
    BY DEF Trials
  <2>2. n \in Nat \ {0}
    BY <2>1, PoppedProperties
  <2>3. back = << >> => Len(back) = 0
    OBVIOUS
  <2> QED BY <2>1, <2>2, <2>3
<1>2. /\ back2 \in Seq(Nat) /\ Len(back2) = n - 1
      /\ \A k \in 1..Len(back2) : back2[k] = back[k]
  BY <1>1, PoppedProperties
<1>3. /\ ts2 \in Seq(GoodToken) /\ Len(ts2) = n - 1
      /\ \A k \in 1..Len(ts2) : ts2[k] = ts[k]
  BY <1>1, PoppedProperties
<1>4. /\ m \in Seq(Trial) /\ Len(m) = n
      /\ \A k \in 1..n : m[k] = [tok |-> ts[k], ahead |-> Rest(s, back[k])]
  BY MemoryProperties
<1> HIDE DEF m, back2, ts2
<1>5. /\ m2 \in Seq(Trial) /\ Len(m2) = Len(ts2)
      /\ \A k \in 1..Len(ts2) : m2[k] = [tok |-> ts2[k], ahead |-> Rest(s, back2[k])]
  <2>1. Trials(s, back2, ts2)
    BY DEF back2, ts2
  <2>2. s \in Seq(GoodToken) /\ back2 \in Seq(Nat)
    BY <1>2
  <2> QED BY <2>1, <2>2, MemoryProperties
<1> HIDE DEF m2, n
<1>6. m # << >>
  <2>1. m = << >> => Len(m) = 0
    OBVIOUS
  <2> QED BY <2>1, <1>1, <1>4
<1>7. /\ a \in Seq(Trial) /\ Len(a) = n - 1
      /\ \A k \in 1..Len(a) : a[k] = m[k]
  BY <1>4, <1>6, PoppedProperties
<1> HIDE DEF a
<1>8. ASSUME NEW k \in 1..(n - 1) PROVE m2[k] = a[k]
  <2>1. k \in 1..n
    BY <1>1
  <2> QED BY <2>1, <1>2, <1>3, <1>4, <1>5, <1>7
<1>9. m2 = a
  BY <1>3, <1>5, <1>7, <1>8, SameElements
<1>10. m[n] = [tok |-> ts[n], ahead |-> Rest(s, back[n])]
  <2>1. n \in 1..n
    BY <1>1
  <2> QED BY <2>1, <1>4
<1> QED BY <1>1, <1>4, <1>6, <1>9, <1>10 DEF m2, a, m, back2, ts2, n

\* A trial ends: what it remembers is ahead again if it is reverted, and the
\* other trials remember what they did.
LEMMA StreamPopped ==
  ASSUME NEW q, NEW t, NEW ts, Good(q, t, ts), ts # << >>
  PROVE  LET m == Remembered(q, ts)
         IN /\ m # << >>
            /\ Coming(CommitBacktrackedTokens(q)) = Coming(q)
            /\ Remembered(CommitBacktrackedTokens(q), Popped(ts)) = Popped(m)
            /\ ts[Len(ts)] = m[Len(m)].tok
            /\ Coming(Backtrack(q)) = m[Len(m)].ahead
            /\ Remembered(Backtrack(q), Popped(ts)) = Popped(m)
<1> DEFINE s == All(q)
           back == q.BacktrackPositions
           last == back[Len(back)]
           r1 == CommitBacktrackedTokens(q)
           r2 == Backtrack(q)
           m == Memory(s, back, ts)
           l == Len(m)
<1>1. /\ q \in PPType /\ back \in Seq(Nat) /\ s \in Seq(GoodToken) /\ Trials(s, back, ts)
  BY AllProperties DEF Good, Cached, PPType
<1>2. /\ r1 = [q EXCEPT !.BacktrackPositions = Popped(back)]
      /\ r2 = [q EXCEPT !.CachedLexPos = last, !.BacktrackPositions = Popped(back)]
  BY DEF CommitBacktrackedTokens, Backtrack, LastBacktrack
<1>3. Good(r1, t, Popped(ts))
  BY TrialsPopped
<1> HIDE DEF r1, r2, last
<1>4. /\ r1.CachedTokens = q.CachedTokens /\ r1.lexers = q.lexers
      /\ r1.CachedLexPos = q.CachedLexPos /\ r1.BacktrackPositions = Popped(back)
  BY <1>1, <1>2 DEF PPType
<1>5. /\ r2.CachedTokens = q.CachedTokens /\ r2.lexers = q.lexers
      /\ r2.CachedLexPos = last /\ r2.BacktrackPositions = Popped(back)
  BY <1>1, <1>2 DEF PPType
<1>6. All(r1) = s /\ All(r2) = s
  BY <1>4, <1>5 DEF All
<1>7. Trials(s, Popped(back), Popped(ts))
  BY <1>3, <1>4, <1>6 DEF Good
<1> HIDE DEF s, back
<1>8. /\ Memory(s, Popped(back), Popped(ts)) = Popped(m) /\ m # << >>
      /\ m[l] = [tok |-> ts[Len(ts)], ahead |-> Rest(s, last)]
  BY <1>1, <1>7, MemoryPopped DEF last
<1> HIDE DEF m, l
<1>9. m[l].tok = ts[Len(ts)] /\ m[l].ahead = Rest(s, last)
  BY <1>8
<1>10. /\ Coming(r1) = Coming(q) /\ Coming(r2) = Rest(s, last)
       /\ Remembered(r1, Popped(ts)) = Memory(s, Popped(back), Popped(ts))
       /\ Remembered(r2, Popped(ts)) = Memory(s, Popped(back), Popped(ts))
       /\ Remembered(q, ts) = m
  BY <1>4, <1>5, <1>6 DEF Coming, Remembered, m, s, back
<1> QED BY <1>8, <1>9, <1>10 DEF r1, r2, l

\* The sequences of tokens that are ahead.
LEMMA ComingType == ASSUME NEW q, Cached(q), q.CachedLexPos <= Len(All(q))
                    PROVE  Coming(q) \in Seq(GoodToken)
<1> DEFINE s == All(q)
           p == q.CachedLexPos
<1>1. s \in Seq(GoodToken) /\ Len(s) \in Nat /\ p \in Nat /\ p <= Len(s)
  BY AllProperties, LenProperties DEF Cached, PPType
<1> HIDE DEF s, p
<1>2. p \in 0..Len(s)
  BY <1>1
<1>3. Rest(s, p) \in Seq(GoodToken)
  BY <1>1, <1>2, RestProperties
<1> QED BY <1>3 DEF Coming, s, p

\* What was read is entered again.
LEMMA StreamReentered ==
  ASSUME NEW q, NEW t, NEW ts, Good(q, t, ts), t.last # End, q.BacktrackPositions = << >>,
         NEW r, Cached(r),
         All(r) = Splice(All(Lex(q)), Lex(q).CachedLexPos, Lex(q).CachedLexPos,
                         <<LexResult(q)>>),
         r.CachedLexPos = Lex(q).CachedLexPos
  PROVE  Coming(r) = Coming(q) /\ Remembered(r, ts) = Remembered(q, ts)
<1> DEFINE one == Lex(q)
           n == LexResult(q)
<1>1. /\ Coming(q) # << >> /\ n = Head(Coming(q)) /\ Coming(one) = Tail(Coming(q))
  BY StreamLex
<1>2. Good(one, n, ts)
  BY GoodLex
<1>3. Cached(q) /\ q.CachedLexPos <= Len(All(q)) /\ Len(ts) = 0
  BY DEF Good, Current, Trials, Follows
<1> HIDE DEF one, n
<1>4. /\ one \in PPType /\ one.CachedLexPos <= Len(All(one)) /\ n \in GoodToken
  BY <1>2 DEF Good, Cached, Current, Follows
<1>5. /\ All(r) = Splice(All(one), one.CachedLexPos, one.CachedLexPos, <<n>>)
      /\ r.CachedLexPos = one.CachedLexPos
  BY DEF one, n
<1>6. Coming(r) # << >> /\ Head(Coming(r)) = n /\ Tail(Coming(r)) = Coming(one)
  BY <1>4, <1>5, StreamEnter
<1>7. Coming(q) \in Seq(GoodToken)
  BY <1>3, ComingType
<1>8. Coming(r) \in Seq(GoodToken)
  <2>1. r.CachedLexPos \in 0..Len(All(r))
    <3>1. r.CachedLexPos <= Len(r.CachedTokens)
      BY DEF Cached
    <3>2. r \in PPType /\ r.CachedLexPos \in Nat
      BY DEF Cached, PPType
    <3> QED BY <3>1, <3>2, ReadIsRest
  <2>2. All(r) \in Seq(GoodToken)
    BY AllProperties DEF Cached
  <2> QED BY <2>1, <2>2, RestProperties DEF Coming
<1>9. Coming(r) = Coming(q)
  BY <1>1, <1>6, <1>7, <1>8, SameHeadTail
<1>10. Remembered(r, ts) = Remembered(q, ts)
  BY <1>3, NoneRemembered DEF Remembered
<1> QED BY <1>9, <1>10

\* Two tokens that were read are entered again, as a stream.
LEMMA StreamReenteredTwo ==
  ASSUME NEW q, NEW t, NEW ts, Good(q, t, ts), t.last # End, q.BacktrackPositions = << >>,
         LexResult(q).last # End,
         NEW two, two = Lex(Lex(q)),
         NEW r,
         All(r) = Splice(All(two), two.CachedLexPos, two.CachedLexPos,
                         <<LexResult(q), LexResult(Lex(q))>>),
         r.CachedLexPos = two.CachedLexPos
  PROVE  Coming(r) = Coming(q) /\ Remembered(r, ts) = Remembered(q, ts)
<1> DEFINE one == Lex(q)
           n == LexResult(q)
           n2 == LexResult(one)
<1>1. /\ Coming(q) # << >> /\ n = Head(Coming(q)) /\ Coming(one) = Tail(Coming(q))
  BY StreamLex
<1>2. Good(one, n, ts)
  BY GoodLex
<1>3. Cached(q) /\ q.CachedLexPos <= Len(All(q)) /\ Len(ts) = 0
  BY DEF Good, Current, Trials, Follows
<1>4. n.last # End /\ two = Lex(one)
  OBVIOUS
<1> HIDE DEF one, n
<1>5. /\ Coming(one) # << >> /\ n2 = Head(Coming(one)) /\ Coming(two) = Tail(Coming(one))
  BY <1>2, <1>4, StreamLex
<1>6. Good(two, n2, ts)
  BY <1>2, <1>4, GoodLex
<1> HIDE DEF n2
<1>7. /\ two \in PPType /\ two.CachedLexPos <= Len(All(two)) /\ n \in GoodToken /\ n2 \in GoodToken
      /\ Cached(one) /\ one.CachedLexPos <= Len(All(one))
  BY <1>2, <1>6 DEF Good, Cached, Current, Follows
<1>8. /\ All(r) = Splice(All(two), two.CachedLexPos, two.CachedLexPos, <<n, n2>>)
  BY DEF one, n, n2
<1>9. /\ Coming(r) # << >> /\ Head(Coming(r)) = n
      /\ Tail(Coming(r)) # << >> /\ Head(Tail(Coming(r))) = n2
      /\ Tail(Tail(Coming(r))) = Coming(two)
      /\ Coming(r) \in Seq(GoodToken) /\ Tail(Coming(r)) \in Seq(GoodToken)
  BY <1>7, <1>8, StreamEnterTwo
<1>10. Coming(q) \in Seq(GoodToken) /\ Coming(one) \in Seq(GoodToken)
  BY <1>3, <1>7, ComingType
<1>11. Tail(Coming(r)) = Coming(one)
  BY <1>5, <1>9, <1>10, SameHeadTail
<1>12. Coming(r) = Coming(q)
  BY <1>1, <1>9, <1>10, <1>11, SameHeadTail
<1>13. Remembered(r, ts) = Remembered(q, ts)
  BY <1>3, NoneRemembered DEF Remembered
<1> QED BY <1>12, <1>13

\* Where no trial began before the most recent token, a token that takes its
\* place is not ahead of any trial.
LEMMA StreamUntouched ==
  ASSUME NEW q, NEW ts, Cached(q), Trials(All(q), q.BacktrackPositions, ts),
         NEW u \in GoodToken, Follows(All(q), u.last, q.CachedLexPos),
         q.CachedLexPos = 0 \/ q.BacktrackPositions = << >>
  PROVE  Remembered(q, ts) = Rewrite(Remembered(q, ts), <<u>>)
<1> DEFINE s == All(q)
           p == q.CachedLexPos
           back == q.BacktrackPositions
           x == <<u>>
<1>1. /\ s \in Seq(GoodToken) /\ back \in Seq(Nat) /\ p \in Nat
      /\ Trials(s, back, ts) /\ Follows(s, u.last, p)
      /\ \A k \in 1..Len(back) : back[k] <= p
  BY AllProperties DEF Cached, PPType
<1>2. x \in Seq(GoodToken) /\ Len(x) = 1 /\ x[1] = u
  OBVIOUS
<1>3. ASSUME NEW k \in 1..Len(back) PROVE back[k] = p
  <2>1. back[k] \in Nat /\ back[k] <= p
    BY <1>1, ElementOfSeq
  <2>2. back = << >> => Len(back) = 0
    OBVIOUS
  <2>3. p = 0 \/ back = << >>
    OBVIOUS
  <2> HIDE DEF p, back
  <2> QED BY <2>1, <2>2, <2>3
<1> HIDE DEF s, p, back, x
<1>4. Len(x) # 0 /\ Follows(s, x[Len(x)].last, p)
  BY <1>1, <1>2
<1>5. Memory(s, back, ts) = Rewrite(Memory(s, back, ts), x)
  BY <1>1, <1>2, <1>3, <1>4, MemoryUntouched
<1> QED BY <1>5 DEF Remembered, s, back, x

=============================================================================
