------------------------- MODULE SourceManagerProofs -------------------------
(***************************************************************************)
(* That locations are handed out once, and that getFileID finds the entry   *)
(* of each of them, for every number of probes, every width of offsets and  *)
(* all AST files, until the assertion on a base offset fails.               *)
(*                                                                          *)
(*   the invariant   SourceInv: the local entries ascend from offset 0, the *)
(*                   loaded ones descend from MaxLoadedOffset, the halves   *)
(*                   do not meet, and a location lies in its entry (Holds)  *)
(*   the searches    recursive functions, so what they return is proved in  *)
(*                   two parts: that they are defined where they are        *)
(*                   called, a loop that halves a distance (LoopDefined),   *)
(*                   and that they find the entry, by induction over that   *)
(*                   distance (SetInduction)                                *)
(*   UntilAsserted   SourceInv, until a file that there is no room for is   *)
(*                   loaded: its base offset has the macro bit              *)
(*   the steps       an entry is appended above the last local one, or      *)
(*                   below the lowest loaded one; sums that could wrap do   *)
(*                   not (WordArithmetic, FitsExactly, Placed), or end the  *)
(*                   program (WrappedStep)                                  *)
(***************************************************************************)
EXTENDS SourceManager, SequenceTheorems, WellFoundedInduction, TLAPS

-----------------------------------------------------------------------------
(* Sets of numbers. *)

LEMMA Least ==
  ASSUME NEW S \in SUBSET Nat, S # {}
  PROVE  \E n \in S : \A k \in S : n <= k
<1> DEFINE Less == {ss \in Nat \X Nat : ss[1] < ss[2]}
<1>1. IsWellFoundedOn(Less, Nat)
  BY NatLessThanWellFounded DEF OpToRel
<1> HIDE DEF Less
<1>2. PICK n \in S : \A k \in S : <<k, n>> \notin Less
  BY <1>1, WFMin
<1>3. ASSUME NEW k \in S PROVE n <= k
  <2>1. k < n => <<k, n>> \in Less
    BY DEF Less
  <2> QED BY <1>2, <2>1
<1> QED BY <1>3

LEMMA SetInduction ==
  ASSUME NEW S \in SUBSET Nat, 0 \in S, \A n \in S : n + 1 \in S
  PROVE  S = Nat
<1> DEFINE T == Nat \ S
<1>1. SUFFICES ASSUME T # {} PROVE FALSE
  OBVIOUS
<1>2. PICK n \in T : \A k \in T : n <= k
  <2> HIDE DEF T
  <2>1. T \in SUBSET Nat
    BY DEF T
  <2> QED BY <1>1, <2>1, Least
<1>3. n - 1 \in S /\ (n - 1) + 1 = n
  BY <1>2
<1> QED BY <1>3

\* What the linear searches take: the last entry, or the first.
LEMMA MaxProperties ==
  ASSUME NEW N \in Nat, NEW S \in SUBSET 0..N, S # {}
  PROVE  Max(S) \in S /\ \A k \in S : k <= Max(S)
<1> DEFINE T == {N - k : k \in S}
<1>1. PICK n \in T : \A k \in T : n <= k
  <2>1. T \in SUBSET Nat /\ T # {}
    OBVIOUS
  <2> HIDE DEF T
  <2> QED BY <2>1, Least
<1>2. N - n \in S /\ \A k \in S : N - n >= k
  <2>1. ASSUME NEW k \in S PROVE N - n >= k
    <3>1. N - k \in T
      OBVIOUS
    <3>2. n \in Nat /\ n <= N - k
      BY <1>1, <3>1
    <3> HIDE DEF T
    <3> QED BY <3>2
  <2> QED BY <1>1, <2>1
<1>3. Max(S) \in S /\ \A k \in S : Max(S) >= k
  BY <1>2 DEF Max
<1> QED BY <1>3

LEMMA MinProperties ==
  ASSUME NEW S \in SUBSET Nat, S # {}
  PROVE  Min(S) \in S /\ \A k \in S : Min(S) <= k
<1>1. \E n \in S : \A k \in S : n <= k
  BY Least
<1> QED BY <1>1 DEF Min

-----------------------------------------------------------------------------
(* Loops: a function that goes from one argument to the next, until it knows its value. *)

IsLoop(f, D, T, value, next) == f = [x \in D |-> IF x \in T THEN value[x] ELSE f[next[x]]]

\* There is one whether or not the loop ends: the least relation of arguments and values
\* says which do.
LEMMA LoopDefined ==
  ASSUME NEW D, NEW T \in SUBSET D, NEW value, NEW next,
         \A x \in D \ T : next[x] \in D
  PROVE  \E f : IsLoop(f, D, T, value, next)
<1> DEFINE V == {value[x] : x \in T}
           Closed(G) == /\ \A x \in T : <<x, value[x]>> \in G
                        /\ \A x \in D \ T, v \in V : <<next[x], v>> \in G => <<x, v>> \in G
           All == D \X V
           Answer(x, v) == \A G \in SUBSET All : Closed(G) => <<x, v>> \in G
           f == [x \in D |-> IF x \in T THEN value[x] ELSE CHOOSE v : v \in V /\ Answer(x, v)]
<1>1. Closed(All)
  OBVIOUS
<1>2. ASSUME NEW x \in T, NEW v \in V
      PROVE  Answer(x, v) <=> v = value[x]
  <2>1. ASSUME v # value[x] PROVE ~Answer(x, v)
    <3> DEFINE G == All \ {<<x, v>>}
    <3>1. Closed(G)
      BY <2>1
    <3>2. G \in SUBSET All /\ <<x, v>> \notin G
      OBVIOUS
    <3> HIDE DEF Closed, G
    <3> QED BY <3>1, <3>2
  <2>2. ASSUME v = value[x] PROVE Answer(x, v)
    BY <2>2
  <2> QED BY <2>1, <2>2
<1>3. ASSUME NEW x \in D \ T, NEW v \in V
      PROVE  Answer(x, v) <=> Answer(next[x], v)
  <2>1. ASSUME Answer(next[x], v) PROVE Answer(x, v)
    BY <2>1
  <2>2. ASSUME Answer(x, v) PROVE Answer(next[x], v)
    <3> SUFFICES ASSUME NEW G \in SUBSET All, Closed(G), <<next[x], v>> \notin G
                 PROVE  FALSE
      OBVIOUS
    <3> DEFINE H == G \ {<<x, v>>}
    <3>1. Closed(H)
      <4>1. ASSUME NEW y \in T PROVE <<y, value[y]>> \in H
        OBVIOUS
      <4>2. ASSUME NEW y \in D \ T, NEW w \in V, <<next[y], w>> \in H PROVE <<y, w>> \in H
        <5>1. <<y, w>> \in G
          BY <4>2
        <5>2. ~(y = x /\ w = v)
          BY <4>2
        <5> QED BY <5>1, <5>2
      <4> QED BY <4>1, <4>2
    <3>2. H \in SUBSET All /\ <<x, v>> \notin H
      OBVIOUS
    <3> HIDE DEF Closed, H
    <3> QED BY <2>2, <3>1, <3>2
  <2> QED BY <2>1, <2>2
<1>4. ASSUME NEW x \in D PROVE f[x] = IF x \in T THEN value[x] ELSE f[next[x]]
  <2>1. CASE x \in T
    BY <2>1
  <2>2. CASE x \notin T
    <3>0. next[x] \in D
      BY <2>2
    <3>1. \A v : v \in V /\ Answer(x, v) <=> v \in V /\ Answer(next[x], v)
      BY <1>3, <2>2
    <3> HIDE DEF Answer, V
    <3>2. (CHOOSE v : v \in V /\ Answer(x, v)) = CHOOSE v : v \in V /\ Answer(next[x], v)
      BY <3>1
    <3>3. CASE next[x] \in T
      <4>1. value[next[x]] \in V
        BY <3>3 DEF V
      <4>2. (CHOOSE v : v \in V /\ Answer(next[x], v)) = value[next[x]]
        BY <1>2, <3>3, <4>1
      <4> QED BY <2>2, <3>0, <3>2, <3>3, <4>2
    <3>4. CASE next[x] \notin T
      <4>1. f[x] = CHOOSE v : v \in V /\ Answer(x, v)
        BY <2>2
      <4>2. f[next[x]] = CHOOSE v : v \in V /\ Answer(next[x], v)
        BY <3>0, <3>4
      <4> HIDE DEF f
      <4> QED BY <2>2, <3>2, <4>1, <4>2
    <3> QED BY <3>3, <3>4
  <2> QED BY <2>1, <2>2
<1> HIDE DEF f
<1>5. f = [x \in D |-> IF x \in T THEN value[x] ELSE f[next[x]]]
  <2>1. f = [x \in D |-> f[x]]
    BY DEF f
  <2> QED BY <1>4, <2>1
<1> QED BY <1>5 DEF IsLoop

\* The two searches are such loops.
Middle(r) == (r[1] - r[2]) \div 2 + r[2]

LEMMA LocalSearchUnfolds ==
  ASSUME NEW o, Len(local) \in Nat, NEW greater \in Locals, NEW less \in Locals
  PROVE  LET middle == (greater - less) \div 2 + less IN
         LocalSearch(o)[<<greater, less>>] =
           IF local[middle + 1] > o THEN LocalSearch(o)[<<middle, less>>]
           ELSE IF middle + 1 = Len(local) \/ o < local[middle + 2] THEN middle
           ELSE LocalSearch(o)[<<greater, middle>>]
<1> DEFINE D == Locals \X Locals
           Above(r) == local[Middle(r) + 1] > o
           Here(r) == Middle(r) + 1 = Len(local) \/ o < local[Middle(r) + 2]
           T == {r \in D : ~Above(r) /\ Here(r)}
           value == [r \in D |-> Middle(r)]
           next == [r \in D |-> IF Above(r) THEN <<Middle(r), r[2]>> ELSE <<r[1], Middle(r)>>]
           Step(f, r) == IF Above(r) THEN f[<<Middle(r), r[2]>>]
                         ELSE IF Here(r) THEN Middle(r) ELSE f[<<r[1], Middle(r)>>]
<1>1. ASSUME NEW r \in D PROVE Middle(r) \in Locals
  BY DEF Locals, Middle
<1>2. PICK f : IsLoop(f, D, T, value, next)
  <2>1. \A x \in D \ T : next[x] \in D
    BY <1>1
  <2> HIDE DEF D, T, value, next
  <2>2. T \in SUBSET D
    BY DEF T
  <2> QED BY <2>1, <2>2, LoopDefined
<1>3. ASSUME NEW r \in D PROVE (IF r \in T THEN value[r] ELSE f[next[r]]) = Step(f, r)
  <2> HIDE DEF Middle
  <2> QED OBVIOUS
<1>4. f = [r \in D |-> Step(f, r)]
  <2> HIDE DEF Step, value, next, T
  <2> QED BY <1>2, <1>3 DEF IsLoop
<1>5. LocalSearch(o) = CHOOSE g : g = [r \in D |-> Step(g, r)]
  BY DEF LocalSearch, Middle
<1>6. LocalSearch(o) = [r \in D |-> Step(LocalSearch(o), r)]
  <2> HIDE DEF Step, D
  <2> QED BY <1>4, <1>5
<1> HIDE DEF Step
<1>7. <<greater, less>> \in D
  OBVIOUS
<1> HIDE DEF D
<1>8. LocalSearch(o)[<<greater, less>>] = Step(LocalSearch(o), <<greater, less>>)
  <2> DEFINE h == [r \in D |-> Step(LocalSearch(o), r)]
  <2>1. h[<<greater, less>>] = Step(LocalSearch(o), <<greater, less>>)
    BY <1>7
  <2> HIDE DEF h
  <2>2. LocalSearch(o) = h
    BY <1>6 DEF h
  <2> QED BY <2>1, <2>2
<1> QED BY <1>8 DEF Step, Middle

Halfway(r) == (r[2] - r[1]) \div 2 + r[1]

LEMMA LoadedSearchUnfolds ==
  ASSUME NEW o, Len(loaded) \in Nat,
         NEW greater \in 0..Len(loaded), NEW less \in 0..Len(loaded)
  PROVE  LET middle == (less - greater) \div 2 + greater
             offset == EntryOffset(-middle - 2) IN
         LoadedSearch(o)[<<greater, less>>] =
           IF middle >= Len(loaded) THEN Sentinel
           ELSE IF offset = 0 THEN 0
           ELSE IF offset > o
                THEN IF greater = middle THEN Sentinel ELSE LoadedSearch(o)[<<middle, less>>]
           ELSE IF isOffsetInFileID(-middle - 2, o) THEN -middle - 2
           ELSE IF less = middle THEN Sentinel ELSE LoadedSearch(o)[<<greater, middle>>]
<1> DEFINE D == (0..Len(loaded)) \X (0..Len(loaded))
           Offset(r) == EntryOffset(-Halfway(r) - 2)
           Found(r) == isOffsetInFileID(-Halfway(r) - 2, o)
           Past(r) == Halfway(r) >= Len(loaded)
           T == {r \in D : \/ Past(r)
                           \/ Offset(r) = 0
                           \/ Offset(r) > o /\ r[1] = Halfway(r)
                           \/ ~(Offset(r) > o) /\ (Found(r) \/ r[2] = Halfway(r))}
           value == [r \in D |-> IF Past(r) THEN Sentinel
                                 ELSE IF Offset(r) = 0 THEN 0
                                 ELSE IF Offset(r) > o THEN Sentinel
                                 ELSE IF Found(r) THEN -Halfway(r) - 2 ELSE Sentinel]
           next == [r \in D |-> IF Offset(r) > o THEN <<Halfway(r), r[2]>>
                                ELSE <<r[1], Halfway(r)>>]
           Step(f, r) == IF Past(r) THEN Sentinel
                         ELSE IF Offset(r) = 0 THEN 0
                         ELSE IF Offset(r) > o
                              THEN IF r[1] = Halfway(r) THEN Sentinel ELSE f[<<Halfway(r), r[2]>>]
                         ELSE IF Found(r) THEN -Halfway(r) - 2
                         ELSE IF r[2] = Halfway(r) THEN Sentinel ELSE f[<<r[1], Halfway(r)>>]
<1>1. ASSUME NEW r \in D PROVE Halfway(r) \in 0..Len(loaded)
  BY DEF Halfway
<1>2. PICK f : IsLoop(f, D, T, value, next)
  <2> HIDE DEF Offset, Found
  <2>1. \A x \in D \ T : next[x] \in D
    BY <1>1
  <2> HIDE DEF D, T, value, next
  <2>2. T \in SUBSET D
    BY DEF T
  <2> QED BY <2>1, <2>2, LoopDefined
<1>3. ASSUME NEW r \in D PROVE (IF r \in T THEN value[r] ELSE f[next[r]]) = Step(f, r)
  <2> HIDE DEF Offset, Found, Past
  <2> QED OBVIOUS
<1>4. f = [r \in D |-> Step(f, r)]
  <2> HIDE DEF Step, value, next, T
  <2> QED BY <1>2, <1>3 DEF IsLoop
<1>5. LoadedSearch(o) = CHOOSE g : g = [r \in D |-> Step(g, r)]
  BY DEF LoadedSearch, Halfway
<1>6. LoadedSearch(o) = [r \in D |-> Step(LoadedSearch(o), r)]
  <2> HIDE DEF Step, D
  <2> QED BY <1>4, <1>5
<1> HIDE DEF Step
<1>7. <<greater, less>> \in D
  OBVIOUS
<1> HIDE DEF D
<1>8. LoadedSearch(o)[<<greater, less>>] = Step(LoadedSearch(o), <<greater, less>>)
  <2> DEFINE h == [r \in D |-> Step(LoadedSearch(o), r)]
  <2>1. h[<<greater, less>>] = Step(LoadedSearch(o), <<greater, less>>)
    BY <1>7
  <2> HIDE DEF h
  <2>2. LoadedSearch(o) = h
    BY <1>6 DEF h
  <2> QED BY <2>1, <2>2
<1> QED BY <1>8 DEF Step, Halfway

-----------------------------------------------------------------------------
(* The offsets in an AST file. *)

LEMMA WrittenAtSums ==
  ASSUME NEW f \in Seq(Nat \ {0})
  PROVE  /\ WrittenAt(f, 1) = 2
         /\ \A k \in 1..(Len(f) + 1) : WrittenAt(f, k) \in Nat
         /\ \A k \in 1..Len(f) : WrittenAt(f, k + 1) = WrittenAt(f, k) + f[k]
<1> DEFINE Sum(g, i) == IF i = 1 THEN 2 ELSE g[i - 1] + f[i - 1]
           Upto(n, g) == g = [i \in 1..n |-> Sum(g, i)]
           at == CHOOSE g : Upto(Len(f) + 1, g)
<1>0. Len(f) \in Nat /\ \A k \in 1..Len(f) : f[k] \in Nat \ {0}
  BY LenProperties, ElementOfSeq
<1>1. \A n \in Nat : \E g : Upto(n + 1, g)
  <2> DEFINE N == {n \in Nat : \E g : Upto(n + 1, g)}
  <2>1. 0 \in N
    <3> DEFINE g == [i \in 1..1 |-> 2]
    <3>1. g = [i \in 1..1 |-> Sum(g, i)]
      OBVIOUS
    <3>2. Upto(0 + 1, g)
      BY <3>1
    <3> HIDE DEF g, Upto
    <3> QED BY <3>2
  <2>2. ASSUME NEW n \in N PROVE n + 1 \in N
    <3>1. PICK g : Upto(n + 1, g)
      OBVIOUS
    <3> DEFINE h == [i \in 1..(n + 2) |-> IF i <= n + 1 THEN g[i] ELSE Sum(g, i)]
    <3>2. ASSUME NEW i \in 1..(n + 2) PROVE h[i] = Sum(h, i)
      <4>1. h[i] = Sum(g, i)
        <5>1. CASE i <= n + 1
          <6> DEFINE k == [x \in 1..(n + 1) |-> Sum(g, x)]
          <6>1. g = k
            BY <3>1
          <6>2. k[i] = Sum(g, i)
            BY <5>1
          <6> QED BY <6>1, <6>2, <5>1
        <5> QED BY <5>1
      <4>2. i # 1 => h[i - 1] = g[i - 1]
        OBVIOUS
      <4> HIDE DEF h
      <4> QED BY <4>1, <4>2
    <3>3. Upto((n + 1) + 1, h)
      BY <3>2
    <3> HIDE DEF h, Upto
    <3> QED BY <3>3
  <2> HIDE DEF N
  <2>3. N = Nat
    <3>1. N \in SUBSET Nat
      BY DEF N
    <3> QED BY <3>1, <2>1, <2>2, SetInduction
  <2> QED BY <2>3 DEF N
<1>2. at = [i \in 1..(Len(f) + 1) |-> Sum(at, i)]
  BY <1>0, <1>1
<1>3. \A k : WrittenAt(f, k) = at[k]
  BY DEF WrittenAt
<1> HIDE DEF at
<1>4. ASSUME NEW k \in 1..(Len(f) + 1) PROVE at[k] = Sum(at, k)
  <2> DEFINE g == [x \in 1..(Len(f) + 1) |-> Sum(at, x)]
  <2>1. at = g
    BY <1>2
  <2>2. g[k] = Sum(at, k)
    OBVIOUS
  <2> QED BY <2>1, <2>2
<1>5. at[1] = 2 /\ \A k \in 1..Len(f) : at[k + 1] = at[k] + f[k]
  <2>1. at[1] = Sum(at, 1)
    BY <1>0, <1>4
  <2>2. ASSUME NEW k \in 1..Len(f) PROVE at[k + 1] = at[k] + f[k]
    <3>1. k + 1 \in 1..(Len(f) + 1) /\ k + 1 # 1 /\ (k + 1) - 1 = k
      BY <1>0
    <3>2. at[k + 1] = Sum(at, k + 1)
      BY <1>4, <3>1
    <3> QED BY <3>1, <3>2
  <2> QED BY <2>1, <2>2
<1> DEFINE N == {n \in Nat : n <= Len(f) => at[n + 1] \in Nat}
<1>6. N = Nat
  <2>1. 0 \in N
    BY <1>5
  <2>2. ASSUME NEW n \in N PROVE n + 1 \in N
    <3>1. n + 1 <= Len(f) => at[(n + 1) + 1] = at[n + 1] + f[n + 1] /\ f[n + 1] \in Nat
      BY <1>0, <1>5
    <3> QED BY <3>1, <1>0
  <2>3. N \in SUBSET Nat
    OBVIOUS
  <2> HIDE DEF N
  <2> QED BY <2>1, <2>2, <2>3, SetInduction
<1>7. ASSUME NEW k \in 1..(Len(f) + 1) PROVE at[k] \in Nat
  <2>1. k - 1 \in Nat /\ k - 1 <= Len(f) /\ (k - 1) + 1 = k
    BY <1>0
  <2>2. k - 1 \in N
    <3> HIDE DEF N
    <3> QED BY <1>6, <2>1
  <2> QED BY <2>1, <2>2
<1> QED BY <1>3, <1>5, <1>7, <1>0

LEMMA WrittenInOrder ==
  ASSUME NEW f \in Seq(Nat \ {0}), NEW j \in 1..(Len(f) + 1), NEW k \in 1..(Len(f) + 1), j < k
  PROVE  WrittenAt(f, j) + f[j] <= WrittenAt(f, k)
<1>0. Len(f) \in Nat /\ \A i \in 1..Len(f) : f[i] \in Nat \ {0}
  BY LenProperties, ElementOfSeq
<1>1. /\ \A i \in 1..(Len(f) + 1) : WrittenAt(f, i) \in Nat
      /\ \A i \in 1..Len(f) : WrittenAt(f, i + 1) = WrittenAt(f, i) + f[i]
  BY WrittenAtSums
<1> DEFINE N == {n \in Nat : j + 1 + n <= Len(f) + 1
                             => WrittenAt(f, j) + f[j] <= WrittenAt(f, j + 1 + n)}
<1>2. N = Nat
  <2>1. 0 \in N
    <3>1. WrittenAt(f, j + 1) = WrittenAt(f, j) + f[j] /\ j + 1 + 0 = j + 1
      BY <1>0, <1>1
    <3>2. WrittenAt(f, j) \in Nat /\ f[j] \in Nat
      BY <1>0, <1>1
    <3> QED BY <3>1, <3>2
  <2>2. ASSUME NEW n \in N PROVE n + 1 \in N
    <3> SUFFICES ASSUME j + 1 + (n + 1) <= Len(f) + 1
                 PROVE  WrittenAt(f, j) + f[j] <= WrittenAt(f, j + 1 + (n + 1))
      OBVIOUS
    <3> DEFINE i == j + 1 + n
    <3>1. i \in 1..Len(f) /\ j + 1 + (n + 1) = i + 1
      BY <1>0
    <3>2. WrittenAt(f, j) + f[j] <= WrittenAt(f, i)
      BY <3>1
    <3>6. i \in 1..(Len(f) + 1) /\ j \in 1..Len(f)
      BY <1>0, <3>1
    <3> HIDE DEF i
    <3>7. WrittenAt(f, i + 1) = WrittenAt(f, i) + f[i]
      BY <1>1, <3>1
    <3>3. WrittenAt(f, i + 1) = WrittenAt(f, i) + f[i] /\ f[i] \in Nat
          /\ WrittenAt(f, i) \in Nat
      BY <1>0, <1>1, <3>1, <3>6, <3>7
    <3>5. WrittenAt(f, j) \in Nat /\ f[j] \in Nat
      BY <1>0, <1>1, <3>6
    <3>4. WrittenAt(f, j) + f[j] <= WrittenAt(f, i + 1)
      BY <3>2, <3>3, <3>5
    <3> QED BY <3>1, <3>4
  <2>3. N \in SUBSET Nat
    OBVIOUS
  <2> HIDE DEF N
  <2> QED BY <2>1, <2>2, <2>3, SetInduction
<1>3. k - (j + 1) \in Nat /\ j + 1 + (k - (j + 1)) = k
  BY <1>0
<1>4. k - (j + 1) \in N
  <2> HIDE DEF N
  <2> QED BY <1>2, <1>3
<1> QED BY <1>3, <1>4

-----------------------------------------------------------------------------
(* What the tables and the locations have in common. *)

\* Entries are in order, the local ones from below and the loaded ones from above.
LocalsInOrder ==
  /\ local # <<>> /\ local[1] = 0
  /\ \A i, j \in DOMAIN local : i < j => local[i] < local[j]
  /\ \A i \in DOMAIN local : local[i] < nextLocal
LoadedsInOrder ==
  /\ \A i, j \in DOMAIN loaded : i < j => loaded[j] < loaded[i]
  /\ \A i \in DOMAIN loaded : currentLoaded <= loaded[i]

\* A location is behind the offset of its entry, and before the next one.
Holds(id, o) ==
  \/ /\ id \in Locals /\ local[id + 1] <= o
     /\ o < IF id + 1 = Len(local) THEN nextLocal ELSE local[id + 2]
  \/ /\ id \in Loadeds /\ loaded[-id - 1] <= o
     /\ o < IF id = -2 THEN MaxLoadedOffset ELSE loaded[-id - 2]

\* SourceTypeOK while the base offset is in range.
InRange ==
  /\ local \in Seq(0..(MaxLoadedOffset - 1)) /\ nextLocal \in 2..MaxLoadedOffset
  /\ loaded \in Seq(2..(MaxLoadedOffset - 1)) /\ currentLoaded \in 2..MaxLoadedOffset
  /\ unreadable \subseteq Loadeds /\ last \in Locals \cup Loadeds
  /\ \A g \in given : g.loc \in Nat /\ g.of \in Locals \cup Loadeds

\* The two halves do not meet.
SourceInv ==
  /\ InRange
  /\ LocalsInOrder /\ LoadedsInOrder /\ nextLocal <= currentLoaded
  /\ given \subseteq [loc : Nat, of : Int]
  /\ \A g \in given : g.loc >= 2 /\ Holds(g.of, g.loc)

LEMMA Tables ==
  ASSUME SourceInv
  PROVE  /\ Len(local) \in Nat /\ Len(local) >= 1 /\ DOMAIN local = 1..Len(local)
         /\ Len(loaded) \in Nat /\ DOMAIN loaded = 1..Len(loaded)
         /\ \A i \in 1..Len(local) : local[i] \in Nat /\ local[i] < nextLocal
         /\ \A i \in 1..Len(loaded) : loaded[i] \in Nat /\ currentLoaded <= loaded[i]
                                      /\ 2 <= loaded[i] /\ loaded[i] < MaxLoadedOffset
         /\ nextLocal \in Nat /\ currentLoaded \in Nat /\ nextLocal <= currentLoaded
         /\ 2 <= nextLocal /\ currentLoaded <= MaxLoadedOffset /\ MaxLoadedOffset \in Nat
<1>1. MaxLoadedOffset \in Nat
  BY SourceAssumption
<1>2. /\ local \in Seq(0..(MaxLoadedOffset - 1)) /\ local # <<>>
      /\ loaded \in Seq(2..(MaxLoadedOffset - 1))
  BY DEF SourceInv, InRange, LocalsInOrder
<1>3. /\ Len(local) \in Nat /\ Len(local) >= 1 /\ DOMAIN local = 1..Len(local)
      /\ Len(loaded) \in Nat /\ DOMAIN loaded = 1..Len(loaded)
  BY <1>2, LenProperties, EmptySeq
<1>4. /\ \A i \in 1..Len(local) : local[i] \in 0..(MaxLoadedOffset - 1)
      /\ \A i \in 1..Len(loaded) : loaded[i] \in 2..(MaxLoadedOffset - 1)
  BY <1>2, ElementOfSeq
<1>5. /\ \A i \in DOMAIN local : local[i] < nextLocal
      /\ \A i \in DOMAIN loaded : currentLoaded <= loaded[i]
  BY DEF SourceInv, LocalsInOrder, LoadedsInOrder
<1>6. /\ nextLocal \in 2..MaxLoadedOffset /\ currentLoaded \in 2..MaxLoadedOffset
      /\ nextLocal <= currentLoaded
  BY DEF SourceInv, InRange
<1>7. \A i \in 1..Len(local) : local[i] \in Nat /\ local[i] < nextLocal
  BY <1>3, <1>4, <1>5
<1>8. \A i \in 1..Len(loaded) : loaded[i] \in Nat /\ currentLoaded <= loaded[i]
                                 /\ 2 <= loaded[i] /\ loaded[i] < MaxLoadedOffset
  BY <1>1, <1>3, <1>4, <1>5
<1>9. /\ nextLocal \in Nat /\ currentLoaded \in Nat /\ nextLocal <= currentLoaded
      /\ 2 <= nextLocal /\ currentLoaded <= MaxLoadedOffset
  BY <1>1, <1>6
<1> QED BY <1>1, <1>3, <1>7, <1>8, <1>9

LEMMA FileIDs ==
  ASSUME Len(local) \in Nat, Len(loaded) \in Nat
  PROVE  /\ \A id : id \in Loadeds <=> id \in Int /\ -id - 1 \in 1..Len(loaded)
         /\ \A id : id \in Locals <=> id \in Int /\ id + 1 \in 1..Len(local)
<1>1. ASSUME NEW id PROVE id \in Loadeds <=> id \in Int /\ -id - 1 \in 1..Len(loaded)
  <2>1. ASSUME id \in Int, -id - 1 \in 1..Len(loaded) PROVE id \in Loadeds
    <3>1. -id - 2 \in 0..(Len(loaded) - 1) /\ -2 - (-id - 2) = id
      BY <2>1
    <3> QED BY <3>1 DEF Loadeds
  <2>2. ASSUME id \in Loadeds PROVE id \in Int /\ -id - 1 \in 1..Len(loaded)
    BY <2>2 DEF Loadeds
  <2> QED BY <2>1, <2>2
<1> QED BY <1>1 DEF Locals

\* A location is of one entry only.
LEMMA HoldsUnique ==
  ASSUME SourceInv, NEW o \in Nat, NEW a, NEW b, Holds(a, o), Holds(b, o)
  PROVE  a = b
<1>0. /\ Len(local) \in Nat /\ Len(loaded) \in Nat
      /\ \A id : id \in Loadeds <=> id \in Int /\ -id - 1 \in 1..Len(loaded)
      /\ \A id : id \in Locals <=> id \in Int /\ id + 1 \in 1..Len(local)
  BY Tables, FileIDs
<1>1. ASSUME NEW c, c \in Locals, Holds(c, o)
      PROVE  c \in Nat /\ c + 1 \in 1..Len(local) /\ local[c + 1] <= o /\ o < nextLocal
             /\ (c + 1 # Len(local) => o < local[c + 2])
  <2>1. c \in Nat /\ c + 1 \in 1..Len(local) /\ c \notin Loadeds
    BY <1>0, <1>1
  <2>2. local[c + 1] <= o /\ o < IF c + 1 = Len(local) THEN nextLocal ELSE local[c + 2]
    BY <1>1, <2>1 DEF Holds
  <2>3. CASE c + 1 # Len(local)
    <3>1. c + 2 \in 1..Len(local)
      BY <1>0, <2>1, <2>3
    <3>2. local[c + 2] < nextLocal /\ local[c + 2] \in Nat /\ nextLocal \in Nat
      BY <3>1, Tables
    <3> QED BY <2>1, <2>2, <2>3, <3>2
  <2> QED BY <2>1, <2>2, <2>3
<1>2. ASSUME NEW c, c \in Loadeds, Holds(c, o)
      PROVE  c \in Int /\ -c - 1 \in 1..Len(loaded) /\ loaded[-c - 1] <= o /\ currentLoaded <= o
             /\ (c # -2 => o < loaded[-c - 2])
  <2>1. c \in Int /\ -c - 1 \in 1..Len(loaded) /\ c \notin Locals
    BY <1>0, <1>2
  <2>2. loaded[-c - 1] <= o /\ o < IF c = -2 THEN MaxLoadedOffset ELSE loaded[-c - 2]
    BY <1>2, <2>1 DEF Holds
  <2>3. currentLoaded <= loaded[-c - 1] /\ loaded[-c - 1] \in Nat /\ currentLoaded \in Nat
    BY <2>1, Tables
  <2> QED BY <2>1, <2>2, <2>3
<1>3. ASSUME NEW c, NEW d, c \in Locals, d \in Locals, Holds(c, o), Holds(d, o), c < d
      PROVE  FALSE
  <2>1. c \in Nat /\ c + 1 \in 1..Len(local) /\ (c + 1 # Len(local) => o < local[c + 2])
    BY <1>1, <1>3
  <2>2. d \in Nat /\ d + 1 \in 1..Len(local) /\ local[d + 1] <= o
    BY <1>1, <1>3
  <2>3. c + 2 \in 1..Len(local) /\ c + 1 # Len(local) /\ (c + 2 = d + 1 \/ c + 2 < d + 1)
    BY <1>0, <1>3, <2>1, <2>2
  <2>4. local[c + 2] \in Nat /\ local[d + 1] \in Nat /\ DOMAIN local = 1..Len(local)
    BY <2>2, <2>3, Tables
  <2>5. c + 2 < d + 1 => local[c + 2] < local[d + 1]
    BY <2>2, <2>3, <2>4 DEF SourceInv, LocalsInOrder
  <2>6. c + 2 = d + 1 => local[c + 2] = local[d + 1]
    OBVIOUS
  <2>7. local[c + 2] <= local[d + 1]
    BY <2>3, <2>4, <2>5, <2>6
  <2>8. o < local[c + 2]
    BY <2>1, <2>3
  <2>9. local[d + 1] <= o /\ local[d + 1] \in Nat /\ local[c + 2] \in Nat
    BY <2>2, <2>4
  <2> QED BY <2>7, <2>8, <2>9
<1>4. ASSUME NEW c, NEW d, c \in Loadeds, d \in Loadeds, Holds(c, o), Holds(d, o), c < d
      PROVE  FALSE
  <2>1. c \in Int /\ -c - 1 \in 1..Len(loaded) /\ (c # -2 => o < loaded[-c - 2])
    BY <1>2, <1>4
  <2>2. d \in Int /\ -d - 1 \in 1..Len(loaded) /\ loaded[-d - 1] <= o
    BY <1>2, <1>4
  <2>3. -c - 2 \in 1..Len(loaded) /\ c # -2 /\ (-d - 1 = -c - 2 \/ -d - 1 < -c - 2)
    <3>1. \A n \in Nat : \A i, j \in Int : -i - 1 \in 1..n /\ -j - 1 \in 1..n /\ i < j
             => -i - 2 \in 1..n /\ i # -2 /\ (-j - 1 = -i - 2 \/ -j - 1 < -i - 2)
      OBVIOUS
    <3>2. /\ Len(loaded) \in Nat /\ c \in Int /\ d \in Int /\ c < d
          /\ -c - 1 \in 1..Len(loaded) /\ -d - 1 \in 1..Len(loaded)
      BY <1>0, <1>4, <2>1, <2>2
    <3> QED BY <3>1, <3>2
  <2>4. loaded[-c - 2] \in Nat /\ loaded[-d - 1] \in Nat /\ DOMAIN loaded = 1..Len(loaded)
    BY <2>2, <2>3, Tables
  <2>5. -d - 1 < -c - 2 => loaded[-c - 2] < loaded[-d - 1]
    BY <2>2, <2>3, <2>4 DEF SourceInv, LoadedsInOrder
  <2>6. -d - 1 = -c - 2 => loaded[-c - 2] = loaded[-d - 1]
    OBVIOUS
  <2>7. loaded[-c - 2] <= loaded[-d - 1]
    BY <2>3, <2>4, <2>5, <2>6
  <2> QED BY <2>1, <2>2, <2>3, <2>4, <2>7
<1>5. (a \in Locals \/ a \in Loadeds) /\ (b \in Locals \/ b \in Loadeds)
  BY DEF Holds
<1>6. ~(a \in Locals /\ b \in Loadeds) /\ ~(b \in Locals /\ a \in Loadeds)
  BY <1>1, <1>2, Tables
<1>7. a \in Int /\ b \in Int
  BY <1>1, <1>2, <1>5
<1> QED BY <1>3, <1>4, <1>5, <1>6, <1>7

-----------------------------------------------------------------------------
(* The search among the local entries. *)

\* What the other lemmas use of the tables, about FileIDs.
LEMMA LocalEntries ==
  ASSUME SourceInv, NEW i \in Locals, NEW j \in Locals
  PROVE  /\ i \in Nat /\ i + 1 \in 1..Len(local) /\ local[i + 1] \in Nat
         /\ i < j => local[i + 1] < local[j + 1]
<1>1. /\ i \in Nat /\ i + 1 \in 1..Len(local) /\ j \in Nat /\ j + 1 \in 1..Len(local)
  BY Tables DEF Locals
<1>2. local[i + 1] \in Nat /\ DOMAIN local = 1..Len(local)
  BY <1>1, Tables
<1>3. i < j => local[i + 1] < local[j + 1]
  BY <1>1, <1>2 DEF SourceInv, LocalsInOrder
<1> QED BY <1>1, <1>2, <1>3

LEMMA HoldsLocal ==
  ASSUME SourceInv, NEW i \in Locals, NEW o \in Nat, o < nextLocal, local[i + 1] <= o,
         i + 1 # Len(local) => o < local[i + 2]
  PROVE  Holds(i, o)
BY DEF Holds

LEMMA LocalSearchFinds ==
  ASSUME SourceInv, NEW o \in Nat, o < nextLocal,
         NEW greater \in Locals, NEW less \in Locals,
         less < greater, local[less + 1] <= o, o < local[greater + 1]
  PROVE  LET id == LocalSearch(o)[<<greater, less>>] IN id \in Locals /\ Holds(id, o)
<1> DEFINE Finds(id) == id \in Locals /\ Holds(id, o)
           Around(g, l) == l < g /\ local[l + 1] <= o /\ o < local[g + 1]
           N == {n \in Nat : \A g, l \in Locals :
                   Around(g, l) /\ g - l <= n => Finds(LocalSearch(o)[<<g, l>>])}
<1>0. Len(local) \in Nat /\ Locals \subseteq Nat
  BY Tables DEF Locals
<1>1. 0 \in N
  BY <1>0
<1>2. ASSUME NEW n \in N PROVE n + 1 \in N
  <2> SUFFICES ASSUME NEW g \in Locals, NEW l \in Locals, Around(g, l), g - l <= n + 1
               PROVE  Finds(LocalSearch(o)[<<g, l>>])
    OBVIOUS
  <2> DEFINE m == (g - l) \div 2 + l
  <2>1. /\ g \in Nat /\ l \in Nat /\ m \in Nat /\ l <= m /\ m < g
        /\ m = l => g = l + 1
    BY <1>0
  <2>2. m \in Locals /\ m + 1 \in Locals
    BY <1>0, <2>1 DEF Locals
  <2>3. LocalSearch(o)[<<g, l>>] =
           IF local[m + 1] > o THEN LocalSearch(o)[<<m, l>>]
           ELSE IF m + 1 = Len(local) \/ o < local[m + 2] THEN m
           ELSE LocalSearch(o)[<<g, m>>]
    <3>1. Len(local) \in Nat
      BY <1>0
    <3> HIDE DEF Finds, Around, N
    <3> QED BY <3>1, LocalSearchUnfolds
  <2> HIDE DEF m, Finds
  <2>4. local[m + 1] \in Nat /\ m + 1 # Len(local) /\ local[m + 2] \in Nat
        /\ local[l + 1] \in Nat /\ local[g + 1] \in Nat
    <3>1. m + 1 # Len(local)
      BY <1>0, <2>1 DEF Locals
    <3>2. (m + 1) + 1 = m + 2
      BY <2>1
    <3> QED BY <2>2, <3>1, <3>2, LocalEntries
  <2>5. CASE local[m + 1] > o
    <3>1. m # l
      BY <2>4, <2>5
    <3>2. Around(m, l) /\ m - l <= n
      BY <2>1, <2>4, <2>5, <3>1
    <3> QED BY <2>2, <2>3, <2>5, <3>2
  <2>6. CASE ~(local[m + 1] > o) /\ o < local[m + 2]
    <3>1. Finds(m)
      BY <2>2, <2>4, <2>6, HoldsLocal DEF Finds
    <3> QED BY <2>3, <2>6, <3>1
  <2>7. CASE ~(local[m + 1] > o) /\ ~(o < local[m + 2])
    <3>1. m # l
      <4>1. m = l => local[m + 2] = local[g + 1]
        BY <2>1
      <4> QED BY <2>7, <4>1
    <3>2. Around(g, m) /\ g - m <= n
      BY <2>1, <2>4, <2>7, <3>1
    <3>3. LocalSearch(o)[<<g, l>>] = LocalSearch(o)[<<g, m>>]
      BY <2>3, <2>4, <2>7
    <3> QED BY <2>2, <3>2, <3>3
  <2> QED BY <2>5, <2>6, <2>7
<1>3. N = Nat
  <2>1. N \in SUBSET Nat
    OBVIOUS
  <2> HIDE DEF N
  <2> QED BY <1>1, <1>2, <2>1, SetInduction
<1>4. greater - less \in Nat
  BY <1>0
<1>5. greater - less \in N
  <2> HIDE DEF N
  <2> QED BY <1>3, <1>4
<1> QED BY <1>4, <1>5

\* The cached entry, if it is a local one behind the location, is a bound from above.
LEMMA LocalStartBounds ==
  ASSUME SourceInv, NEW o \in Nat, 2 <= o, o < nextLocal, ~isOffsetInFileID(last, o)
  PROVE  /\ LocalStart(o) \in 1..Len(local)
         /\ LocalStart(o) # Len(local) => o < local[LocalStart(o) + 1]
<1>0. Len(local) \in Nat /\ Len(local) >= 1 /\ last \in Int
  <2>1. Len(local) \in Nat /\ Len(local) >= 1 /\ Len(loaded) \in Nat
    BY Tables
  <2>2. last \in Locals \/ last \in Loadeds
    BY DEF SourceInv, InRange
  <2> QED BY <2>1, <2>2, FileIDs
<1>1. CASE last < 0 \/ local[last + 1] < o
  BY <1>0, <1>1 DEF LocalStart
<1>2. CASE ~(last < 0 \/ local[last + 1] < o)
  <2>1. LocalStart(o) = last /\ last \in Nat
    BY <1>0, <1>2 DEF LocalStart
  <2>2. last \in Locals
    <3>1. Len(loaded) \in Nat /\ (last \in Locals \/ last \in Loadeds)
      BY Tables DEF SourceInv, InRange
    <3> QED BY <1>0, <2>1, <3>1, FileIDs
  <2>3. local[last + 1] \in Nat /\ last + 1 \in 1..Len(local)
    BY <2>2, LocalEntries
  <2>4. last # 0
    BY <1>2, <2>3 DEF SourceInv, LocalsInOrder
  <2>5. local[last + 1] # o
    <3> SUFFICES ASSUME local[last + 1] = o PROVE isOffsetInFileID(last, o)
      OBVIOUS
    <3>1. EntryOffset(last) = o /\ last # -2
      BY <2>1 DEF EntryOffset
    <3>2. CASE last + 1 = Len(local)
      BY <3>1, <3>2 DEF isOffsetInFileID
    <3>3. CASE last + 1 # Len(local)
      <4>1. last + 1 \in Locals
        BY <1>0, <2>3, <3>3 DEF Locals
      <4>2. local[last + 1] < local[(last + 1) + 1]
        BY <2>1, <2>2, <4>1, LocalEntries
      <4>3. EntryOffset(last + 1) = local[(last + 1) + 1]
        BY <2>1 DEF EntryOffset
      <4> QED BY <3>1, <3>3, <4>2, <4>3 DEF isOffsetInFileID
    <3> QED BY <3>2, <3>3
  <2> QED BY <1>2, <2>1, <2>3, <2>4, <2>5
<1> QED BY <1>1, <1>2

LEMMA LocalLookup ==
  ASSUME SourceInv, NEW o \in Nat, 2 <= o, o < nextLocal, ~isOffsetInFileID(last, o)
  PROVE  getFileIDLocal(o) \in Locals /\ Holds(getFileIDLocal(o), o)
<1> DEFINE start == LocalStart(o)
           near == {i \in (start - LinearProbes)..(start - 1) : i >= 0 /\ local[i + 1] <= o}
<1>0. /\ Len(local) \in Nat /\ start \in 1..Len(local) /\ LinearProbes \in Nat \ {0}
      /\ start # Len(local) => o < local[start + 1]
      /\ local[1] = 0
  BY Tables, LocalStartBounds, SourceAssumption DEF SourceInv, LocalsInOrder
<1>1. getFileIDLocal(o) = IF near # {} THEN Max(near)
                          ELSE LocalSearch(o)[<<start - LinearProbes, 0>>]
  BY DEF getFileIDLocal
<1> HIDE DEF start
<1>2. \A i \in (start - LinearProbes)..(start - 1) : i >= 0 => i \in Locals
  BY <1>0 DEF Locals
<1>3. CASE near # {}
  <2> DEFINE id == Max(near)
  <2>1. id \in near /\ \A i \in near : i <= id
    <3>1. near \in SUBSET 0..start
      BY <1>0
    <3>2. start \in Nat
      BY <1>0
    <3> HIDE DEF near
    <3> QED BY <1>3, <3>1, <3>2, MaxProperties
  <2> HIDE DEF id
  <2>2. id \in Locals /\ id \in Nat /\ local[id + 1] <= o /\ id <= start - 1
    BY <1>0, <1>2, <2>1
  <2>3. ASSUME id + 1 # Len(local) PROVE o < local[id + 2]
    <3>1. CASE id + 1 = start
      <4>1. start + 1 = id + 2
        BY <2>2, <3>1
      <4> QED BY <1>0, <2>3, <3>1, <4>1
    <3>2. CASE id + 1 # start
      <4>1. id + 1 \in (start - LinearProbes)..(start - 1) /\ id + 1 >= 0 /\ ~(id + 1 <= id)
        BY <1>0, <2>1, <2>2, <3>2
      <4>2. id + 1 \notin near
        <5> HIDE DEF near
        <5> QED BY <2>1, <4>1
      <4>3. ~(local[(id + 1) + 1] <= o)
        BY <4>1, <4>2
      <4>4. (id + 1) + 1 = id + 2
        BY <2>2
      <4>5. local[(id + 1) + 1] \in Nat
        BY <1>2, <4>1, LocalEntries
      <4> QED BY <4>3, <4>4, <4>5
    <3> QED BY <3>1, <3>2
  <2>4. Holds(id, o)
    BY <2>2, <2>3, HoldsLocal
  <2> QED BY <1>1, <1>3, <2>2, <2>4 DEF id
<1>4. CASE near = {}
  <2>1. start - LinearProbes >= 1
    <3>1. ASSUME start - LinearProbes <= 0 PROVE 0 \in near
      <4>1. 0 \in (start - LinearProbes)..(start - 1)
        BY <1>0, <3>1
      <4> QED BY <1>0, <4>1
    <3> HIDE DEF near
    <3> QED BY <1>0, <1>4, <3>1
  <2>2. start - LinearProbes \in (start - LinearProbes)..(start - 1)
    BY <1>0
  <2>3. start - LinearProbes \in Locals /\ 0 \in Locals
    BY <1>0, <1>2, <2>1, <2>2 DEF Locals
  <2>4. o < local[(start - LinearProbes) + 1]
    <3>3. start - LinearProbes \notin near
      <4> HIDE DEF near
      <4> QED BY <1>4
    <3>1. ~(local[(start - LinearProbes) + 1] <= o)
      BY <1>0, <2>1, <2>2, <3>3
    <3>2. local[(start - LinearProbes) + 1] \in Nat
      BY <2>3, LocalEntries
    <3> QED BY <3>1, <3>2
  <2>5. 0 < start - LinearProbes /\ local[0 + 1] <= o
    BY <1>0, <2>1
  <2> HIDE DEF near
  <2> QED BY <1>1, <1>4, <2>3, <2>4, <2>5, LocalSearchFinds
<1> QED BY <1>3, <1>4

-----------------------------------------------------------------------------
(* The search among the loaded entries. *)

\* FileID and index of an entry.
LEMMA LoadedIndex ==
  ASSUME SourceInv, NEW i \in 0..(Len(loaded) - 1)
  PROVE  /\ -i - 2 \in Loadeds /\ -i - 2 \in Int /\ i \in Nat
         /\ -(-i - 2) - 1 = i + 1 /\ -i - 2 < 0 /\ -i - 2 # -1
         /\ loaded[i + 1] \in Nat /\ 2 <= loaded[i + 1]
<1>1. Len(loaded) \in Nat /\ Len(local) \in Nat
  BY Tables
<1>2. i \in Nat /\ -i - 2 \in Int /\ -(-i - 2) - 1 = i + 1 /\ -i - 2 < 0 /\ -i - 2 # -1
      /\ i + 1 \in 1..Len(loaded)
  BY <1>1
<1>3. -i - 2 \in Loadeds
  BY <1>1, <1>2, FileIDs
<1>4. loaded[i + 1] \in Nat /\ 2 <= loaded[i + 1]
  BY <1>2, Tables
<1> QED BY <1>2, <1>3, <1>4

\* Whatever entries cannot be loaded, the search ends, and finds an entry, or none, or
\* the invalid FileID.
LEMMA LoadedSearchTyped ==
  ASSUME SourceInv, NEW o, NEW greater \in 0..Len(loaded), NEW less \in 0..Len(loaded),
         greater <= less
  PROVE  LoadedSearch(o)[<<greater, less>>] \in Loadeds \cup {0, Sentinel}
<1> DEFINE Typed(id) == id \in Loadeds \cup {0, Sentinel}
           N == {n \in Nat : \A g, l \in 0..Len(loaded) :
                   g <= l /\ l - g <= n => Typed(LoadedSearch(o)[<<g, l>>])}
<1>0. Len(loaded) \in Nat
  BY Tables
<1>a. ASSUME NEW g \in 0..Len(loaded), NEW l \in 0..Len(loaded), g <= l,
             LET m == (l - g) \div 2 + g IN
             /\ m # g => Typed(LoadedSearch(o)[<<m, l>>])
             /\ m # l => Typed(LoadedSearch(o)[<<g, m>>])
      PROVE  Typed(LoadedSearch(o)[<<g, l>>])
  <2> DEFINE m == (l - g) \div 2 + g
             offset == EntryOffset(-m - 2)
  <2>1. m \in Nat /\ (m < Len(loaded) => m \in 0..(Len(loaded) - 1))
    BY <1>0, <1>a
  <2>2. m < Len(loaded) => Typed(-m - 2)
    BY <2>1, LoadedIndex
  <2>3. LoadedSearch(o)[<<g, l>>] =
           IF m >= Len(loaded) THEN Sentinel
           ELSE IF offset = 0 THEN 0
           ELSE IF offset > o
                THEN IF g = m THEN Sentinel ELSE LoadedSearch(o)[<<m, l>>]
           ELSE IF isOffsetInFileID(-m - 2, o) THEN -m - 2
           ELSE IF l = m THEN Sentinel ELSE LoadedSearch(o)[<<g, m>>]
    BY <1>0, LoadedSearchUnfolds
  <2>4. /\ m # g => Typed(LoadedSearch(o)[<<m, l>>])
        /\ m # l => Typed(LoadedSearch(o)[<<g, m>>])
    BY <1>a
  <2>5. Typed(Sentinel) /\ Typed(0)
    OBVIOUS
  <2> HIDE DEF m, offset, Typed
  <2>6. m >= Len(loaded) \/ m < Len(loaded)
    BY <1>0, <2>1
  <2> QED BY <2>2, <2>3, <2>4, <2>5, <2>6
<1> HIDE DEF Typed
<1>1. 0 \in N
  <2> SUFFICES ASSUME NEW g \in 0..Len(loaded), NEW l \in 0..Len(loaded), g <= l, l - g <= 0
               PROVE  Typed(LoadedSearch(o)[<<g, l>>])
    OBVIOUS
  <2>1. (l - g) \div 2 + g = g /\ g = l
    BY <1>0
  <2> QED BY <1>a, <2>1
<1>2. ASSUME NEW n \in N PROVE n + 1 \in N
  <2> SUFFICES ASSUME NEW g \in 0..Len(loaded), NEW l \in 0..Len(loaded), g <= l, l - g <= n + 1
               PROVE  Typed(LoadedSearch(o)[<<g, l>>])
    OBVIOUS
  <2> DEFINE m == (l - g) \div 2 + g
  <2>1. /\ m \in 0..Len(loaded) /\ g <= m /\ m <= l
        /\ m # g => l - m <= n
        /\ m # l => m - g <= n
    BY <1>0
  <2> HIDE DEF m
  <2>2. /\ m # g => Typed(LoadedSearch(o)[<<m, l>>])
        /\ m # l => Typed(LoadedSearch(o)[<<g, m>>])
    BY <2>1
  <2> QED BY <1>a, <2>2 DEF m
<1>3. N = Nat
  <2>1. N \in SUBSET Nat
    OBVIOUS
  <2> HIDE DEF N
  <2> QED BY <1>1, <1>2, <2>1, SetInduction
<1>4. less - greater \in Nat
  BY <1>0
<1>5. less - greater \in N
  <2> HIDE DEF N
  <2> QED BY <1>3, <1>4
<1> QED BY <1>4, <1>5 DEF Typed

\* Where everything can be loaded, offsets are what the tables say.
LEMMA OffsetInLoaded ==
  ASSUME SourceInv, unreadable = {}, NEW i \in 0..(Len(loaded) - 1),
         NEW o \in Nat, o < MaxLoadedOffset
  PROVE  /\ EntryOffset(-i - 2) = loaded[i + 1]
         /\ isOffsetInFileID(-i - 2, o) <=> Holds(-i - 2, o)
         /\ Holds(-i - 2, o) <=> loaded[i + 1] <= o /\ (i # 0 => o < loaded[i])
<1> DEFINE id == -i - 2
<1>1. /\ id \in Loadeds /\ id \in Int /\ i \in Nat /\ -id - 1 = i + 1 /\ id < 0 /\ id # -1
      /\ -id - 2 = i /\ (id = -2 <=> i = 0)
  BY LoadedIndex
<1>2. Len(local) \in Nat /\ Len(local) >= 1 /\ Len(loaded) \in Nat
  BY Tables
<1>3. id \notin Locals /\ id + 1 # Len(local)
  BY <1>1, <1>2 DEF Locals
<1> HIDE DEF id
<1>4. EntryOffset(id) = loaded[i + 1]
  BY <1>1 DEF EntryOffset
<1>5. Holds(id, o) <=> loaded[i + 1] <= o /\ (i # 0 => o < loaded[i])
  BY <1>1, <1>3 DEF Holds
<1>6. i # 0 => EntryOffset(id + 1) = loaded[i]
  <2>1. ~(id + 1 >= 0) /\ -(id + 1) - 1 = i
    BY <1>1
  <2> QED BY <2>1 DEF EntryOffset
<1>7. isOffsetInFileID(id, o) <=> loaded[i + 1] <= o /\ (i # 0 => o < loaded[i])
  BY <1>1, <1>3, <1>4, <1>6 DEF isOffsetInFileID
<1> QED BY <1>4, <1>5, <1>7 DEF id

\* The table is sorted the other way round: what begins above is before.
LEMMA LoadedBefore ==
  ASSUME SourceInv, unreadable = {}, NEW i \in 0..(Len(loaded) - 1),
         NEW a \in 0..(Len(loaded) - 1), NEW o \in Nat, o < MaxLoadedOffset, Holds(-a - 2, o)
  PROVE  /\ loaded[i + 1] > o => i < a
         /\ ~(loaded[i + 1] > o) => a <= i
<1>0. Len(loaded) \in Nat /\ DOMAIN loaded = 1..Len(loaded)
  BY Tables
<1>1. loaded[a + 1] <= o /\ (a # 0 => o < loaded[a])
  BY OffsetInLoaded
<1>2. /\ i \in Nat /\ a \in Nat /\ loaded[i + 1] \in Nat /\ loaded[a + 1] \in Nat
      /\ i + 1 \in DOMAIN loaded /\ a + 1 \in DOMAIN loaded
  BY <1>0, LoadedIndex
<1>3. ASSUME loaded[i + 1] > o PROVE i < a
  <2>1. a + 1 < i + 1 => loaded[i + 1] < loaded[a + 1]
    BY <1>2 DEF SourceInv, LoadedsInOrder
  <2>2. a # i
    BY <1>1, <1>2, <1>3
  <2> QED BY <1>1, <1>2, <1>3, <2>1, <2>2
<1>4. ASSUME ~(loaded[i + 1] > o), i < a PROVE FALSE
  <2>1. a \in DOMAIN loaded /\ a # 0
    BY <1>0, <1>2, <1>4
  <2>2. loaded[a] \in Nat
    BY <1>0, <2>1, Tables
  <2>3. i + 1 < a => loaded[a] < loaded[i + 1]
    BY <1>2, <2>1 DEF SourceInv, LoadedsInOrder
  <2>4. i + 1 = a => loaded[a] = loaded[i + 1]
    OBVIOUS
  <2>5. loaded[a] <= loaded[i + 1]
    BY <1>2, <1>4, <2>2, <2>3, <2>4
  <2> QED BY <1>1, <1>2, <1>4, <2>1, <2>2, <2>5
<1> QED BY <1>2, <1>3, <1>4

LEMMA LoadedSearchFinds ==
  ASSUME SourceInv, unreadable = {}, NEW a \in 0..(Len(loaded) - 1),
         NEW o \in Nat, o < MaxLoadedOffset, Holds(-a - 2, o),
         NEW greater \in 0..Len(loaded), NEW less \in 0..Len(loaded),
         greater <= a, a < less
  PROVE  LoadedSearch(o)[<<greater, less>>] = -a - 2
<1> DEFINE Finds(id) == id = -a - 2
           N == {n \in Nat : \A g, l \in 0..Len(loaded) :
                   g <= a /\ a < l /\ l - g <= n => Finds(LoadedSearch(o)[<<g, l>>])}
<1>0. Len(loaded) \in Nat /\ a \in Nat
  BY Tables
<1>1. 0 \in N
  BY <1>0
<1>2. ASSUME NEW n \in N PROVE n + 1 \in N
  <2> SUFFICES ASSUME NEW g \in 0..Len(loaded), NEW l \in 0..Len(loaded),
                      g <= a, a < l, l - g <= n + 1
               PROVE  Finds(LoadedSearch(o)[<<g, l>>])
    OBVIOUS
  <2> DEFINE m == (l - g) \div 2 + g
             offset == EntryOffset(-m - 2)
  <2>1. /\ m \in 0..(Len(loaded) - 1) /\ m \in 0..Len(loaded) /\ g <= m /\ m < l /\ m \in Nat
        /\ m # g => l - m <= n
        /\ m - g <= n
        /\ m = g => l = g + 1
        /\ g \in Nat /\ l \in Nat
    BY <1>0
  <2>2. LoadedSearch(o)[<<g, l>>] =
           IF m >= Len(loaded) THEN Sentinel
           ELSE IF offset = 0 THEN 0
           ELSE IF offset > o
                THEN IF g = m THEN Sentinel ELSE LoadedSearch(o)[<<m, l>>]
           ELSE IF isOffsetInFileID(-m - 2, o) THEN -m - 2
           ELSE IF l = m THEN Sentinel ELSE LoadedSearch(o)[<<g, m>>]
    BY <1>0, LoadedSearchUnfolds
  <2> HIDE DEF m, offset, Finds
  <2>3. /\ offset = loaded[m + 1] /\ loaded[m + 1] \in Nat /\ 2 <= loaded[m + 1]
        /\ isOffsetInFileID(-m - 2, o) <=> Holds(-m - 2, o)
    BY <2>1, OffsetInLoaded, LoadedIndex DEF offset
  <2>4. ~(m >= Len(loaded)) /\ offset # 0 /\ l # m
    <3>1. ~(m >= Len(loaded)) /\ l # m
      BY <1>0, <2>1
    <3>2. offset = loaded[m + 1] /\ loaded[m + 1] \in Nat /\ 2 <= loaded[m + 1]
      BY <2>3
    <3> QED BY <3>1, <3>2
  <2>5. CASE offset > o
    <3>1. m < a
      BY <2>1, <2>3, <2>5, LoadedBefore
    <3>2. m # g
      BY <1>0, <2>1, <3>1
    <3>3. Finds(LoadedSearch(o)[<<m, l>>])
      BY <1>0, <2>1, <3>1, <3>2
    <3> QED BY <2>2, <2>4, <2>5, <3>2, <3>3
  <2>6. CASE ~(offset > o)
    <3>1. a <= m
      BY <2>1, <2>3, <2>6, LoadedBefore
    <3>2. CASE Holds(-m - 2, o)
      <4>1. -m - 2 = -a - 2
        BY <3>2, HoldsUnique
      <4> QED BY <2>2, <2>3, <2>4, <2>6, <3>2, <4>1 DEF Finds
    <3>3. CASE ~Holds(-m - 2, o)
      <4>1. m # a
        BY <3>3
      <4>2. Finds(LoadedSearch(o)[<<g, m>>])
        BY <1>0, <2>1, <3>1, <4>1
      <4> QED BY <2>2, <2>3, <2>4, <2>6, <3>3, <4>2
    <3> QED BY <3>2, <3>3
  <2> QED BY <2>5, <2>6
<1>3. N = Nat
  <2>1. N \in SUBSET Nat
    OBVIOUS
  <2> HIDE DEF N
  <2> QED BY <1>1, <1>2, <2>1, SetInduction
<1>4. less - greater \in Nat
  BY <1>0
<1>5. less - greater \in N
  <2> HIDE DEF N
  <2> QED BY <1>3, <1>4
<1> QED BY <1>4, <1>5

LEMMA LastIsLoaded ==
  ASSUME SourceInv, last < 0
  PROVE  -last - 2 \in 0..(Len(loaded) - 1) /\ -(-last - 2) - 2 = last
<1>1. Len(local) \in Nat /\ Len(loaded) \in Nat
  BY Tables
<1>2. last \in Locals \/ last \in Loadeds
  BY DEF SourceInv, InRange
<1>3. last \in Int /\ -last - 1 \in 1..Len(loaded)
  BY <1>1, <1>2, FileIDs
<1> QED BY <1>1, <1>3

LEMMA LoadedStartTyped ==
  ASSUME SourceInv, NEW o
  PROVE  LoadedStart(o) \in 0..Len(loaded)
<1>1. Len(loaded) \in Nat /\ Len(local) \in Nat
  BY Tables
<1>2. last >= 0 \/ last < 0
  BY <1>1, FileIDs DEF SourceInv, InRange
<1>3. last < 0 => -last - 1 \in 0..Len(loaded)
  BY <1>1, LastIsLoaded, <1>2
<1> QED BY <1>1, <1>2, <1>3 DEF LoadedStart

\* The cached entry, if it begins behind the location, is before the one that is looked for.
LEMMA LoadedStartBounds ==
  ASSUME SourceInv, unreadable = {}, NEW a \in 0..(Len(loaded) - 1),
         NEW o \in Nat, o < MaxLoadedOffset, Holds(-a - 2, o), ~isOffsetInFileID(last, o)
  PROVE  LoadedStart(o) <= a
<1>0. a \in Nat /\ Len(loaded) \in Nat /\ DOMAIN loaded = 1..Len(loaded)
  BY Tables
<1>1. CASE last >= 0 \/ EntryOffset(last) < o
  BY <1>0, <1>1 DEF LoadedStart
<1>2. CASE ~(last >= 0 \/ EntryOffset(last) < o)
  <2>1. last < 0
    <3>1. last \in Int
      BY Tables, FileIDs DEF SourceInv, InRange
    <3> QED BY <1>2, <3>1
  <2> DEFINE i == -last - 2
  <2>2. i \in 0..(Len(loaded) - 1) /\ -i - 2 = last
    BY <2>1, LastIsLoaded
  <2>3. LoadedStart(o) = i + 1
    <3>1. LoadedStart(o) = -last - 1 /\ last \in Int
      BY <1>2, Tables, FileIDs DEF LoadedStart, SourceInv, InRange
    <3> QED BY <3>1
  <2> HIDE DEF i
  <2>4. /\ EntryOffset(last) = loaded[i + 1] /\ loaded[i + 1] \in Nat
        /\ isOffsetInFileID(last, o) <=> loaded[i + 1] <= o /\ (i # 0 => o < loaded[i])
    <3>1. /\ EntryOffset(-i - 2) = loaded[i + 1]
          /\ isOffsetInFileID(-i - 2, o) <=> Holds(-i - 2, o)
          /\ Holds(-i - 2, o) <=> loaded[i + 1] <= o /\ (i # 0 => o < loaded[i])
      BY <2>2, OffsetInLoaded
    <3>2. loaded[i + 1] \in Nat
      BY <2>2, LoadedIndex
    <3> QED BY <2>2, <3>1, <3>2
  <2>5. loaded[i + 1] # o
    <3> SUFFICES ASSUME loaded[i + 1] = o, i # 0 PROVE o < loaded[i]
      BY <2>4
    <3>1. i \in DOMAIN loaded /\ i + 1 \in DOMAIN loaded /\ i < i + 1
      BY <1>0, <2>2
    <3> QED BY <3>1 DEF SourceInv, LoadedsInOrder
  <2>6. i < a
    <3>1. loaded[i + 1] > o
      BY <1>2, <2>4, <2>5
    <3> QED BY <2>2, <3>1, LoadedBefore
  <2> QED BY <1>0, <2>2, <2>3, <2>6
<1> QED BY <1>1, <1>2

\* What the linear probes look at.
Probes(o) ==
  {i \in LoadedStart(o)..(LoadedStart(o) + LinearProbes - 1) :
     i < Len(loaded) /\ EntryOffset(-i - 2) <= o}

LEMMA LoadedLookupUnfolds ==
  ASSUME SourceInv, NEW o
  PROVE  /\ getFileIDLoaded(o) =
              IF o < currentLoaded THEN Sentinel
              ELSE IF Probes(o) # {} THEN -Min(Probes(o)) - 2
              ELSE IF LoadedStart(o) + LinearProbes > Len(loaded) THEN Sentinel
              ELSE LoadedSearch(o)[<<LoadedStart(o) + LinearProbes, Len(loaded)>>]
         /\ Probes(o) \subseteq 0..(Len(loaded) - 1)
         /\ Probes(o) # {} => /\ Min(Probes(o)) \in Probes(o)
                              /\ \A i \in Probes(o) : Min(Probes(o)) <= i
         /\ LoadedStart(o) + LinearProbes <= Len(loaded)
              => LoadedStart(o) + LinearProbes \in 0..Len(loaded)
<1>1. getFileIDLoaded(o) =
              IF o < currentLoaded THEN Sentinel
              ELSE IF Probes(o) # {} THEN -Min(Probes(o)) - 2
              ELSE IF LoadedStart(o) + LinearProbes > Len(loaded) THEN Sentinel
              ELSE LoadedSearch(o)[<<LoadedStart(o) + LinearProbes, Len(loaded)>>]
  BY DEF getFileIDLoaded, Probes
<1>2. LoadedStart(o) \in Nat /\ Len(loaded) \in Nat /\ LinearProbes \in Nat
  BY LoadedStartTyped, Tables, SourceAssumption
<1>3. Probes(o) \subseteq 0..(Len(loaded) - 1) /\ Probes(o) \in SUBSET Nat
  BY <1>2 DEF Probes
<1>4. Probes(o) # {} => /\ Min(Probes(o)) \in Probes(o)
                        /\ \A i \in Probes(o) : Min(Probes(o)) <= i
  BY <1>3, MinProperties
<1>5. LoadedStart(o) + LinearProbes <= Len(loaded)
        => LoadedStart(o) + LinearProbes \in 0..Len(loaded)
  BY <1>2
<1> QED BY <1>1, <1>3, <1>4, <1>5

LEMMA LoadedLookupTyped ==
  ASSUME SourceInv, NEW o
  PROVE  getFileIDLoaded(o) \in Loadeds \cup {0, Sentinel}
<1>1. Probes(o) # {} => -Min(Probes(o)) - 2 \in Loadeds
  BY LoadedLookupUnfolds, LoadedIndex
<1>2. LoadedStart(o) + LinearProbes <= Len(loaded) =>
        LoadedSearch(o)[<<LoadedStart(o) + LinearProbes, Len(loaded)>>]
          \in Loadeds \cup {0, Sentinel}
  <2>1. Len(loaded) \in 0..Len(loaded)
    BY Tables
  <2> QED BY <2>1, LoadedLookupUnfolds, LoadedSearchTyped
<1>3. LoadedStart(o) + LinearProbes > Len(loaded) \/ LoadedStart(o) + LinearProbes <= Len(loaded)
  BY LoadedStartTyped, Tables, SourceAssumption
<1> QED BY <1>1, <1>2, <1>3, LoadedLookupUnfolds

LEMMA LoadedLookup ==
  ASSUME SourceInv, unreadable = {}, NEW a \in 0..(Len(loaded) - 1),
         NEW o \in Nat, o < MaxLoadedOffset, Holds(-a - 2, o), ~isOffsetInFileID(last, o)
  PROVE  getFileIDLoaded(o) = -a - 2
<1>0. /\ a \in Nat /\ Len(loaded) \in Nat /\ LoadedStart(o) \in Nat /\ LinearProbes \in Nat \ {0}
      /\ currentLoaded \in Nat /\ LoadedStart(o) <= a
  BY Tables, LoadedStartTyped, LoadedStartBounds, SourceAssumption
<1>1. ~(o < currentLoaded)
  <2>1. loaded[a + 1] <= o
    BY OffsetInLoaded
  <2>2. currentLoaded <= loaded[a + 1] /\ loaded[a + 1] \in Nat
    BY <1>0, Tables
  <2> QED BY <1>0, <2>1, <2>2
<1>2. ASSUME NEW i \in 0..(Len(loaded) - 1), LoadedStart(o) <= i,
             i < LoadedStart(o) + LinearProbes
      PROVE  i \in Probes(o) <=> ~(i < a)
  <2>1. EntryOffset(-i - 2) = loaded[i + 1] /\ loaded[i + 1] \in Nat
    BY OffsetInLoaded, LoadedIndex
  <2>2. /\ loaded[i + 1] > o => i < a
        /\ ~(loaded[i + 1] > o) => a <= i
    BY LoadedBefore
  <2>3. i \in Probes(o) <=> loaded[i + 1] <= o
    BY <1>0, <1>2, <2>1 DEF Probes
  <2> QED BY <1>0, <2>1, <2>2, <2>3
<1>3. CASE Probes(o) # {}
  <2> DEFINE i == Min(Probes(o))
  <2>1. i \in Probes(o) /\ \A k \in Probes(o) : i <= k
    BY <1>3, LoadedLookupUnfolds
  <2> HIDE DEF i
  <2>2. i \in 0..(Len(loaded) - 1) /\ LoadedStart(o) <= i /\ i < LoadedStart(o) + LinearProbes
    <3>1. i \in 0..(Len(loaded) - 1)
      BY <2>1, LoadedLookupUnfolds
    <3> QED BY <1>0, <2>1, <3>1 DEF Probes
  <2>3. ~(i < a)
    BY <1>2, <2>1, <2>2
  <2>4. a \in Probes(o)
    BY <1>0, <1>2, <2>2, <2>3
  <2>5. i = a
    BY <1>0, <2>1, <2>2, <2>3, <2>4
  <2> QED BY <1>1, <1>3, <2>5, LoadedLookupUnfolds DEF i
<1>4. CASE Probes(o) = {}
  <2>1. LoadedStart(o) + LinearProbes <= a
    <3>1. a < LoadedStart(o) + LinearProbes => a \in Probes(o)
      BY <1>0, <1>2
    <3> QED BY <1>0, <1>4, <3>1
  <2>2. /\ LoadedStart(o) + LinearProbes \in 0..Len(loaded) /\ Len(loaded) \in 0..Len(loaded)
        /\ a < Len(loaded) /\ ~(LoadedStart(o) + LinearProbes > Len(loaded))
    BY <1>0, <2>1
  <2>3. LoadedSearch(o)[<<LoadedStart(o) + LinearProbes, Len(loaded)>>] = -a - 2
    BY <2>1, <2>2, LoadedSearchFinds
  <2> QED BY <1>1, <1>4, <2>2, <2>3, LoadedLookupUnfolds
<1> QED BY <1>3, <1>4

-----------------------------------------------------------------------------
(* The lookup, from whatever the cache holds. *)

LEMMA LookupTyped ==
  ASSUME SourceInv, NEW o \in Nat, 2 <= o
  PROVE  /\ o < nextLocal => getFileID(o) \in Locals \cup Loadeds
         /\ getFileID(o) \in Locals \cup Loadeds \cup {0, Sentinel}
<1>1. last \in Locals \cup Loadeds
  BY DEF SourceInv, InRange
<1>2. ~isOffsetInFileID(last, o) /\ o < nextLocal => getFileIDLocal(o) \in Locals
  BY LocalLookup
<1>3. getFileIDLoaded(o) \in Loadeds \cup {0, Sentinel}
  BY LoadedLookupTyped
<1> QED BY <1>1, <1>2, <1>3 DEF getFileID

\* The cached entry is the answer only if it is the right one.
LEMMA CachedIsRight ==
  ASSUME SourceInv, unreadable = {}, NEW o \in Nat, o < MaxLoadedOffset,
         isOffsetInFileID(last, o)
  PROVE  Holds(last, o)
<1>0. Len(local) \in Nat /\ Len(loaded) \in Nat /\ last \in Locals \cup Loadeds
  BY Tables DEF SourceInv, InRange
<1>1. CASE last \in Loadeds
  <2>1. last \in Int /\ -last - 1 \in 1..Len(loaded)
    BY <1>0, <1>1, FileIDs
  <2>2. -last - 2 \in 0..(Len(loaded) - 1) /\ -(-last - 2) - 2 = last
    BY <1>0, <2>1
  <2>3. isOffsetInFileID(-(-last - 2) - 2, o) <=> Holds(-(-last - 2) - 2, o)
    BY <2>2, OffsetInLoaded
  <2> QED BY <2>2, <2>3
<1>2. CASE last \in Locals
  <2>1. last \in Nat /\ last # -2 /\ last + 1 \in 1..Len(local)
    BY <1>2, LocalEntries
  <2>2. EntryOffset(last) = local[last + 1] /\ EntryOffset(last + 1) = local[last + 2]
    <3>1. (last + 1) + 1 = last + 2 /\ last >= 0 /\ last + 1 >= 0
      BY <2>1
    <3> QED BY <3>1 DEF EntryOffset
  <2> QED BY <1>2, <2>1, <2>2 DEF isOffsetInFileID, Holds
<1> QED BY <1>0, <1>1, <1>2

LEMMA LookupFinds ==
  ASSUME SourceInv, unreadable = {}, NEW o \in Nat, 2 <= o, NEW id, Holds(id, o)
  PROVE  getFileID(o) = id
<1>0. /\ Len(local) \in Nat /\ Len(loaded) \in Nat /\ nextLocal \in Nat /\ currentLoaded \in Nat
      /\ nextLocal <= currentLoaded /\ currentLoaded <= MaxLoadedOffset /\ MaxLoadedOffset \in Nat
  BY Tables
<1>1. CASE id \in Locals
  <2>1. id \in Nat /\ id + 1 \in 1..Len(local)
    BY <1>1, LocalEntries
  <2>2. id \notin Loadeds
    BY <1>0, <2>1, FileIDs
  <2>3. o < IF id + 1 = Len(local) THEN nextLocal ELSE local[id + 2]
    BY <2>2 DEF Holds
  <2>4. o < nextLocal
    <3>1. CASE id + 1 # Len(local)
      <4>1. id + 2 \in 1..Len(local)
        BY <1>0, <2>1, <3>1
      <4>2. local[id + 2] \in Nat /\ local[id + 2] < nextLocal
        BY <4>1, Tables
      <4> QED BY <1>0, <2>3, <3>1, <4>2
    <3> QED BY <2>3, <3>1
  <2>5. o < MaxLoadedOffset
    BY <1>0, <2>4
  <2>6. CASE isOffsetInFileID(last, o)
    BY <2>5, <2>6, CachedIsRight, HoldsUnique DEF getFileID
  <2>7. CASE ~isOffsetInFileID(last, o)
    <3>1. Holds(getFileIDLocal(o), o)
      BY <2>4, <2>7, LocalLookup
    <3> QED BY <2>4, <2>7, <3>1, HoldsUnique DEF getFileID
  <2> QED BY <2>6, <2>7
<1>2. CASE id \in Loadeds
  <2>1. id \in Int /\ -id - 1 \in 1..Len(loaded)
    BY <1>0, <1>2, FileIDs
  <2> DEFINE a == -id - 2
  <2>2. a \in 0..(Len(loaded) - 1) /\ -a - 2 = id /\ -id - 1 = a + 1
    BY <1>0, <2>1
  <2>3. id \notin Locals
    BY <1>0, <2>1, FileIDs
  <2>4. loaded[-id - 1] <= o /\ o < IF id = -2 THEN MaxLoadedOffset ELSE loaded[-id - 2]
    BY <2>3 DEF Holds
  <2>5. o < MaxLoadedOffset
    <3>1. CASE id # -2
      <4>1. -id - 2 \in 1..Len(loaded)
        BY <1>0, <2>1, <3>1
      <4>2. loaded[-id - 2] \in Nat /\ loaded[-id - 2] < MaxLoadedOffset
        BY <4>1, Tables
      <4> QED BY <1>0, <2>4, <3>1, <4>2
    <3> QED BY <2>4, <3>1
  <2>6. ~(o < nextLocal)
    <3>1. currentLoaded <= loaded[-id - 1] /\ loaded[-id - 1] \in Nat
      BY <2>1, Tables
    <3> QED BY <1>0, <2>4, <3>1
  <2> HIDE DEF a
  <2>7. CASE isOffsetInFileID(last, o)
    BY <2>5, <2>7, CachedIsRight, HoldsUnique DEF getFileID
  <2>8. CASE ~isOffsetInFileID(last, o)
    <3>1. getFileIDLoaded(o) = -a - 2
      BY <2>2, <2>5, <2>8, LoadedLookup
    <3> QED BY <2>2, <2>6, <2>8, <3>1 DEF getFileID
  <2> QED BY <2>7, <2>8
<1> QED BY <1>1, <1>2 DEF Holds

-----------------------------------------------------------------------------
(* Files and expansions of the main file. *)

LEMMA WordArithmetic ==
  ASSUME NEW w \in Nat \ {0}, NEW x \in Nat
  PROVE  /\ x < w => x % w = x
         /\ w <= x /\ x < 2 * w => x % w = x - w
<1> DEFINE r == x % w
           q == x \div w
<1>1. r \in Int /\ q \in Int /\ 0 <= r /\ r < w /\ x = w * q + r
  OBVIOUS
<1> HIDE DEF r, q
<1>2. q <= 0 \/ q = 1 \/ q >= 2
  BY <1>1
<1>3. q <= 0 => w * q <= 0
  BY <1>1
<1>4. q >= 2 => w * q >= 2 * w
  BY <1>1
<1>5. q < 0 => w * q <= -w
  BY <1>1
<1>6. x < w => q = 0
  <2>1. q = 1 => w * q = w
    BY <1>1
  <2> QED BY <1>1, <1>2, <1>4, <1>5, <2>1
<1>7. w <= x /\ x < 2 * w => q = 1
  BY <1>1, <1>2, <1>3, <1>4
<1>8. (q = 0 => w * q = 0) /\ (q = 1 => w * q = w)
  BY <1>1
<1>9. /\ x < w => r = x
      /\ w <= x /\ x < 2 * w => r = x - w
  BY <1>1, <1>6, <1>7, <1>8
<1> QED BY <1>9 DEF r

\* The test on the unsigned sum is exact: a sum that wraps is not above nextLocal.
LEMMA FitsExactly ==
  ASSUME SourceInv, NEW size \in 0..(Word - 1), Fits(size)
  PROVE  NextOffset(size) = nextLocal + size + 1 /\ nextLocal + size + 1 <= currentLoaded
<1>1. /\ nextLocal \in Nat /\ MaxLoadedOffset \in Nat \ {0} /\ nextLocal <= MaxLoadedOffset
      /\ currentLoaded \in Nat
  BY Tables, SourceAssumption
<1> DEFINE sum == nextLocal + size + 1
<1>2. Word \in Nat \ {0} /\ sum \in Nat /\ sum < 2 * Word /\ Word = 2 * MaxLoadedOffset
      /\ size \in Nat /\ size < Word
  BY <1>1 DEF Word
<1> HIDE DEF sum
<1>3. /\ sum < Word => sum % Word = sum
      /\ Word <= sum /\ sum < 2 * Word => sum % Word = sum - Word
  BY <1>2, WordArithmetic
<1>4. NextOffset(size) = sum % Word
  BY DEF NextOffset, sum
<1>5. sum % Word > nextLocal /\ sum % Word <= currentLoaded
  BY <1>4 DEF Fits
<1>6. sum < Word
  <2>1. sum - Word <= nextLocal
    BY <1>1, <1>2 DEF sum
  <2> QED BY <1>1, <1>2, <1>3, <1>5, <2>1
<1> QED BY <1>3, <1>4, <1>5, <1>6 DEF sum

LEMMA CreatedStep ==
  ASSUME SourceInv, NEW size \in 0..(Word - 1), Fits(size), Created(size),
         last' = last \/ last' = Len(local)
  PROVE  SourceInv'
<1> DEFINE n == Len(local)
           next == nextLocal + size + 1
           new == {[loc |-> nextLocal + i, of |-> Len(local)] : i \in 0..size}
<1>0. /\ n \in Nat /\ n >= 1 /\ Len(loaded) \in Nat /\ nextLocal \in Nat /\ 2 <= nextLocal
      /\ currentLoaded \in Nat /\ currentLoaded <= MaxLoadedOffset /\ MaxLoadedOffset \in Nat
      /\ size \in Nat
  BY Tables, SourceAssumption DEF Word
<1>1. /\ nextLocal' = next /\ next <= currentLoaded /\ nextLocal < next /\ next \in Nat
      /\ local' = Append(local, nextLocal) /\ given' = given \cup new
      /\ loaded' = loaded /\ currentLoaded' = currentLoaded /\ unreadable' = unreadable
  BY <1>0, FitsExactly DEF Created
<1>2. /\ local \in Seq(0..(MaxLoadedOffset - 1)) /\ nextLocal \in 0..(MaxLoadedOffset - 1)
      /\ loaded \in Seq(2..(MaxLoadedOffset - 1)) /\ currentLoaded \in 2..MaxLoadedOffset
      /\ unreadable \subseteq Loadeds /\ last \in Locals \cup Loadeds
  BY <1>0, <1>1 DEF SourceInv, InRange
<1>3. /\ local' \in Seq(0..(MaxLoadedOffset - 1)) /\ Len(local') = n + 1
      /\ DOMAIN local' = 1..(n + 1)
      /\ \A i \in 1..n : local'[i] = local[i]
      /\ local'[n + 1] = nextLocal
  BY <1>1, <1>2, AppendProperties, LenProperties
<1> HIDE DEF next, new
<1>4. Loadeds' = Loadeds /\ Locals' = Locals \cup {n} /\ Locals = 0..(n - 1)
  BY <1>0, <1>1, <1>3 DEF Loadeds, Locals
<1>5. LocalsInOrder'
  <2>1. local' # <<>>
    BY <1>0, <1>3, EmptySeq
  <2>2. local'[1] = 0
    BY <1>0, <1>3 DEF SourceInv, LocalsInOrder
  <2>3. ASSUME NEW i \in 1..n PROVE local'[i] \in Nat /\ local'[i] < nextLocal
    BY <1>3, Tables
  <2>4. ASSUME NEW i \in 1..(n + 1), NEW j \in 1..(n + 1), i < j PROVE local'[i] < local'[j]
    <3>1. i \in 1..n
      BY <1>0, <2>4
    <3>2. CASE j = n + 1
      BY <1>3, <2>3, <3>1, <3>2
    <3>3. CASE j # n + 1
      <4>1. j \in 1..n /\ DOMAIN local = 1..n
        BY <1>0, <3>3, Tables
      <4>2. local[i] < local[j]
        BY <2>4, <3>1, <4>1 DEF SourceInv, LocalsInOrder
      <4> QED BY <1>3, <3>1, <4>1, <4>2
    <3> QED BY <3>2, <3>3
  <2>5. ASSUME NEW i \in 1..(n + 1) PROVE local'[i] < nextLocal'
    <3>1. CASE i = n + 1
      BY <1>1, <1>3, <3>1
    <3>2. CASE i # n + 1
      <4>1. i \in 1..n
        BY <1>0, <3>2
      <4>2. local'[i] \in Nat /\ local'[i] < nextLocal
        BY <2>3, <4>1
      <4> QED BY <1>0, <1>1, <4>2
    <3> QED BY <3>1, <3>2
  <2> QED BY <1>3, <2>1, <2>2, <2>4, <2>5 DEF LocalsInOrder
<1>6. LoadedsInOrder'
  BY <1>1 DEF SourceInv, LoadedsInOrder
<1>7. ASSUME NEW g \in given PROVE Holds(g.of, g.loc)' /\ g \in [loc : Nat, of : Int] /\ g.loc >= 2
  <2>1. Holds(g.of, g.loc) /\ g \in [loc : Nat, of : Int] /\ g.loc >= 2
    BY DEF SourceInv
  <2> DEFINE id == g.of
             o == g.loc
  <2>2. o \in Nat /\ id \in Int
    BY <2>1
  <2> HIDE DEF id, o
  <2>3. CASE id \in Locals
    <3>1. id + 1 \in 1..n /\ id \notin Loadeds /\ id \in Locals'
      BY <1>0, <1>4, <2>2, <2>3, FileIDs
    <3>2. local[id + 1] <= o /\ o < IF id + 1 = n THEN nextLocal ELSE local[id + 2]
      BY <2>1, <3>1 DEF Holds, id, o
    <3>3. local'[id + 1] <= o /\ id + 1 # n + 1
      BY <1>0, <1>3, <3>1, <3>2
    <3>4. o < local'[id + 2]
      <4>1. CASE id + 1 = n
        <5>1. id + 2 = n + 1
          BY <4>1, <2>2
        <5> QED BY <1>3, <3>2, <4>1, <5>1
      <4>2. CASE id + 1 # n
        <5>1. id + 2 \in 1..n
          BY <1>0, <2>2, <3>1, <4>2
        <5> QED BY <1>3, <3>2, <4>2, <5>1
      <4> QED BY <4>1, <4>2
    <3>5. Holds(id, o)'
      BY <1>3, <3>1, <3>3, <3>4 DEF Holds
    <3> QED BY <2>1, <3>5 DEF id, o
  <2>4. CASE id \notin Locals
    <3>1. Holds(id, o)'
      BY <1>1, <1>4, <2>1, <2>4 DEF Holds, id, o
    <3> QED BY <2>1, <3>1 DEF id, o
  <2> QED BY <2>3, <2>4
<1>8. ASSUME NEW g \in new PROVE Holds(g.of, g.loc)' /\ g \in [loc : Nat, of : Int] /\ g.loc >= 2
  <2>1. PICK i \in 0..size : g = [loc |-> nextLocal + i, of |-> n]
    BY DEF new
  <2>2. g.of = n /\ g.loc = nextLocal + i /\ g \in [loc : Nat, of : Int] /\ g.loc >= 2
        /\ nextLocal <= g.loc /\ g.loc < nextLocal'
    BY <1>0, <1>1, <2>1 DEF next
  <2>3. g.of \in Locals' /\ g.of + 1 = Len(local') /\ local'[g.of + 1] <= g.loc
    BY <1>3, <1>4, <2>2
  <2>4. Holds(g.of, g.loc)'
    BY <2>2, <2>3 DEF Holds
  <2> QED BY <2>2, <2>4
<1>9. \A g \in given' : g.loc \in Nat /\ g.of \in Locals' \cup Loadeds'
  <2>1. ASSUME NEW g \in given' PROVE g.loc \in Nat /\ g.of \in Locals' \cup Loadeds'
    <3>1. Holds(g.of, g.loc)' /\ g \in [loc : Nat, of : Int]
      BY <1>1, <1>7, <1>8
    <3> QED BY <3>1 DEF Holds
  <2> QED BY <2>1
<1>10. InRange'
  <2>1. nextLocal' \in 2..MaxLoadedOffset
    BY <1>0, <1>1
  <2>2. last' \in Locals' \cup Loadeds'
    BY <1>0, <1>2, <1>4
  <2> QED BY <1>1, <1>2, <1>3, <1>4, <1>9, <2>1, <2>2 DEF InRange
<1>11. nextLocal' <= currentLoaded'
  BY <1>1
<1>12. given' \subseteq [loc : Nat, of : Int] /\ \A g \in given' : g.loc >= 2 /\ Holds(g.of, g.loc)'
  BY <1>1, <1>7, <1>8
<1> QED BY <1>5, <1>6, <1>10, <1>11, <1>12 DEF SourceInv

-----------------------------------------------------------------------------
(* AST files. *)

\* A file that is not larger than the space goes right below what was loaded before.
LEMMA Placed ==
  ASSUME SourceInv, NEW f \in Seq(Nat \ {0}), TotalSize(f) <= currentLoaded
  PROVE  /\ Len(f) \in Nat /\ DOMAIN f = 1..Len(f) /\ \A k \in 1..Len(f) : f[k] \in Nat \ {0}
         /\ BaseOffset(f) \in Nat /\ BaseOffset(f) <= currentLoaded
         /\ \A k \in 1..(Len(f) + 1) : WrittenAt(f, k) \in Nat /\ 2 <= WrittenAt(f, k)
         /\ \A j, k \in 1..(Len(f) + 1) : j < k => WrittenAt(f, j) + f[j] <= WrittenAt(f, k)
         /\ BaseOffset(f) - 2 + WrittenAt(f, Len(f) + 1) = currentLoaded - 1
         /\ \A o \in Nat : 2 <= o /\ o <= WrittenAt(f, Len(f) + 1)
                           => Remapped(f, o) = BaseOffset(f) - 2 + o
<1> DEFINE n == Len(f)
           W(k) == WrittenAt(f, k)
           B == BaseOffset(f)
<1>1. n \in Nat /\ DOMAIN f = 1..n /\ \A k \in 1..n : f[k] \in Nat \ {0}
  BY LenProperties, ElementOfSeq
<1>2. W(1) = 2 /\ \A k \in 1..(n + 1) : W(k) \in Nat
  BY WrittenAtSums
<1>3. \A j, k \in 1..(n + 1) : j < k => W(j) + f[j] <= W(k)
  BY WrittenInOrder
<1>4. ASSUME NEW k \in 1..(n + 1) PROVE 2 <= W(k)
  <2>1. CASE k = 1
    BY <1>2, <2>1
  <2>2. CASE k # 1
    <3>1. 1 \in 1..n /\ 1 \in 1..(n + 1) /\ 1 < k
      BY <1>1, <2>2
    <3>2. W(1) + f[1] <= W(k) /\ f[1] \in Nat /\ W(k) \in Nat
      BY <1>1, <1>2, <1>3, <3>1
    <3> HIDE DEF W
    <3> QED BY <1>2, <3>2
  <2> QED BY <2>1, <2>2
<1>5. /\ currentLoaded \in Nat /\ currentLoaded <= MaxLoadedOffset /\ MaxLoadedOffset \in Nat \ {0}
      /\ Word = 2 * MaxLoadedOffset /\ Word \in Nat \ {0} /\ currentLoaded < Word
  BY Tables, SourceAssumption DEF Word
<1>6. n + 1 \in 1..(n + 1) /\ W(n + 1) \in Nat /\ 2 <= W(n + 1)
      /\ TotalSize(f) = W(n + 1) - 1
  BY <1>1, <1>2, <1>4 DEF TotalSize
<1> HIDE DEF W
<1>7. B = currentLoaded - TotalSize(f)
  <2> DEFINE x == currentLoaded - TotalSize(f)
  <2>1. x \in Nat /\ x < Word
    BY <1>5, <1>6
  <2> HIDE DEF x
  <2>2. x % Word = x
    BY <1>5, <2>1, WordArithmetic
  <2>3. B = x % Word
    BY DEF BaseOffset, x
  <2> QED BY <2>2, <2>3 DEF x
<1>8. B \in Nat /\ B <= currentLoaded /\ B - 2 + W(n + 1) = currentLoaded - 1
  BY <1>5, <1>6, <1>7
<1>9. ASSUME NEW o \in Nat, 2 <= o, o <= W(n + 1) PROVE Remapped(f, o) = B - 2 + o
  <2> DEFINE x == o + B - 2
  <2>1. x \in Nat /\ x < Word /\ x = B - 2 + o
    <3> HIDE DEF B
    <3> QED BY <1>5, <1>6, <1>8, <1>9
  <2>2. Remapped(f, o) = x % Word
    BY DEF Remapped
  <2> HIDE DEF x
  <2>3. x % Word = x
    BY <1>5, <2>1, WordArithmetic
  <2> QED BY <2>1, <2>2, <2>3
<1> HIDE DEF B
<1>10. \A k \in 1..(n + 1) : W(k) \in Nat /\ 2 <= W(k)
  BY <1>2, <1>4 DEF W
<1> QED BY <1>1, <1>3, <1>8, <1>9, <1>10 DEF B, W

\* An AST file that there is room for.
LEMMA AllocateStep ==
  ASSUME SourceInv, NEW f \in ASTFiles, TotalSize(f) <= currentLoaded,
         AllocateLoadedSLocEntries(f)
  PROVE  SourceInv'
<1> DEFINE n == Len(f)
           L == Len(loaded)
           W(k) == WrittenAt(f, k)
           B == BaseOffset(f)
           more == [i \in DOMAIN f |-> Remapped(f, WrittenAt(f, Len(f) + 1 - i))]
           of(k) == BaseID(f) + k - 1
           new == UNION {{[loc |-> Remapped(f, WrittenAt(f, k) + i), of |-> BaseID(f) + k - 1]
                            : i \in 0..(f[k] - 1)} : k \in DOMAIN f}
<1>0. f \in Seq(Nat \ {0}) /\ TotalSize(f) <= currentLoaded
  BY SourceAssumption
<1>1. n \in Nat /\ DOMAIN f = 1..n /\ \A k \in 1..n : f[k] \in Nat \ {0}
  BY <1>0, Placed
<1>b. B \in Nat /\ B <= currentLoaded /\ B - 2 + W(n + 1) = currentLoaded - 1
  BY <1>0, Placed
<1>w. /\ \A k \in 1..(n + 1) : W(k) \in Nat /\ 2 <= W(k)
      /\ \A j, k \in 1..(n + 1) : j < k => W(j) + f[j] <= W(k)
  BY <1>0, Placed
<1>r. \A o \in Nat : 2 <= o /\ o <= W(n + 1) => Remapped(f, o) = B - 2 + o
  BY <1>0, Placed
<1>2. /\ Len(local) \in Nat /\ L \in Nat /\ nextLocal \in Nat /\ currentLoaded \in Nat
      /\ 2 <= nextLocal /\ currentLoaded <= MaxLoadedOffset /\ MaxLoadedOffset \in Nat
      /\ DOMAIN loaded = 1..L
  BY Tables
<1>l. \A i \in 1..L : loaded[i] \in Nat /\ currentLoaded <= loaded[i]
  BY Tables
<1>3. /\ loaded' = loaded \o more /\ currentLoaded' = B /\ given' = given \cup new
      /\ local' = local /\ nextLocal' = nextLocal /\ last' = last /\ nextLocal <= B
      /\ \E lost \in SUBSET {of(k) : k \in DOMAIN f} : unreadable' = unreadable \cup lost
  BY DEF AllocateLoadedSLocEntries, Admits
<1>a. ASSUME NEW k \in 1..n
      PROVE  /\ W(k) \in Nat /\ 2 <= W(k) /\ f[k] \in Nat \ {0} /\ k \in Nat
             /\ W(k) + f[k] <= W(k + 1) /\ W(k + 1) \in Nat /\ W(k + 1) <= W(n + 1)
  <2>1. k \in Nat /\ k \in 1..(n + 1) /\ k + 1 \in 1..(n + 1) /\ n + 1 \in 1..(n + 1)
        /\ k < k + 1 /\ (k + 1 = n + 1 \/ (k + 1 < n + 1 /\ k + 1 \in 1..n))
    BY <1>1
  <2> HIDE DEF W
  <2>2. W(k) \in Nat /\ 2 <= W(k) /\ f[k] \in Nat \ {0} /\ W(k) + f[k] <= W(k + 1)
        /\ W(k + 1) \in Nat /\ W(n + 1) \in Nat
    BY <1>1, <1>w, <2>1
  <2>3. k + 1 < n + 1 => W(k + 1) + f[k + 1] <= W(n + 1) /\ f[k + 1] \in Nat
    <3>1. \A j, i \in 1..(n + 1) : j < i => W(j) + f[j] <= W(i)
      BY <1>w
    <3>2. k + 1 < n + 1 => k + 1 \in 1..n
      BY <2>1
    <3>3. k + 1 < n + 1 => f[k + 1] \in Nat
      BY <1>1, <3>2
    <3> QED BY <2>1, <3>1, <3>3
  <2>4. k + 1 = n + 1 => W(k + 1) = W(n + 1)
    OBVIOUS
  <2>5. W(k + 1) <= W(n + 1)
    BY <2>1, <2>2, <2>3, <2>4
  <2> QED BY <2>1, <2>2, <2>5
<1>4. ASSUME NEW i \in 1..n
      PROVE  more[i] = B - 2 + W(n + 1 - i) /\ more[i] \in Nat /\ nextLocal <= more[i]
             /\ more[i] < currentLoaded - 1 /\ n + 1 - i \in 1..n
  <2>1. n + 1 - i \in 1..n
    BY <1>1
  <2>2. W(n + 1 - i) \in Nat /\ 2 <= W(n + 1 - i) /\ W(n + 1 - i) < W(n + 1)
        /\ W(n + 1) \in Nat
    <3> DEFINE k == n + 1 - i
    <3>1. k \in 1..n
      BY <2>1
    <3> HIDE DEF k, W
    <3>2. /\ W(k) \in Nat /\ 2 <= W(k) /\ f[k] \in Nat \ {0}
          /\ W(k) + f[k] <= W(k + 1) /\ W(k + 1) \in Nat /\ W(k + 1) <= W(n + 1)
      BY <1>a, <3>1
    <3>3. n + 1 \in 1..(n + 1)
      BY <1>1
    <3>4. W(n + 1) \in Nat
      BY <1>w, <3>3
    <3> QED BY <3>2, <3>4 DEF k
  <2>3. more[i] = Remapped(f, W(n + 1 - i))
    BY <1>1
  <2> HIDE DEF W, more, B
  <2>4. more[i] = B - 2 + W(n + 1 - i)
    BY <1>r, <2>2, <2>3
  <2> QED BY <1>b, <1>2, <1>3, <2>1, <2>2, <2>4
<1>5. more \in Seq(2..(MaxLoadedOffset - 1)) /\ Len(more) = n
  <2>1. more = [i \in 1..n |-> more[i]]
    BY <1>1
  <2>2. \A i \in 1..n : more[i] \in 2..(MaxLoadedOffset - 1)
    <3> HIDE DEF more, B, W
    <3> QED BY <1>2, <1>4
  <2> HIDE DEF more
  <2> DEFINE S == 2..(MaxLoadedOffset - 1)
  <2> HIDE DEF S
  <2>3. more \in [1..n -> S]
    BY <2>1, <2>2 DEF S
  <2>4. more \in Seq(S)
    <3> HIDE DEF n
    <3> QED BY <1>1, <2>3
  <2>5. Len(more) \in Nat /\ DOMAIN more = 1..Len(more)
    BY <2>4, LenProperties
  <2>6. DOMAIN more = 1..n
    BY <2>3
  <2>7. Len(more) = n
    <3> DEFINE m == Len(more)
    <3>1. m \in Nat /\ n \in Nat /\ 1..m = 1..n
      BY <1>1, <2>5, <2>6
    <3> HIDE DEF m, n
    <3>2. (m # 0 => m \in 1..m) /\ (n # 0 => n \in 1..n)
      BY <3>1
    <3>3. (m # 0 => m <= n) /\ (n # 0 => n <= m)
      BY <3>1, <3>2
    <3>4. m = n
      BY <3>1, <3>3
    <3> QED BY <3>4 DEF m
  <2> QED BY <2>4, <2>7 DEF S
<1>6. loaded \in Seq(2..(MaxLoadedOffset - 1)) /\ unreadable \subseteq Loadeds
      /\ local \in Seq(0..(MaxLoadedOffset - 1)) /\ last \in Locals \cup Loadeds
      /\ nextLocal \in 2..MaxLoadedOffset
  BY DEF SourceInv, InRange
<1> HIDE DEF more
<1>7. /\ loaded' \in Seq(2..(MaxLoadedOffset - 1)) /\ Len(loaded') = L + n
      /\ DOMAIN loaded' = 1..(L + n)
      /\ \A i \in 1..L : loaded'[i] = loaded[i]
      /\ \A i \in 1..n : loaded'[L + i] = more[i]
  <2> DEFINE S == 2..(MaxLoadedOffset - 1)
  <2> HIDE DEF S
  <2>4. loaded \in Seq(S) /\ more \in Seq(S)
    BY <1>5, <1>6 DEF S
  <2>5. /\ loaded \o more \in Seq(S)
        /\ Len(loaded \o more) = Len(loaded) + Len(more)
        /\ \A i \in 1..(Len(loaded) + Len(more)) :
             (loaded \o more)[i] = IF i <= Len(loaded) THEN loaded[i] ELSE more[i - Len(loaded)]
    BY <2>4, ConcatProperties
  <2>1. loaded \o more \in Seq(S) /\ Len(loaded \o more) = L + n
        /\ \A i \in 1..(L + n) : (loaded \o more)[i] = IF i <= L THEN loaded[i] ELSE more[i - L]
    BY <1>5, <2>5
  <2>2. \A i \in 1..L : i \in 1..(L + n) /\ i <= L
    BY <1>1, <1>2
  <2>3. \A i \in 1..n : L + i \in 1..(L + n) /\ ~(L + i <= L) /\ (L + i) - L = i
    BY <1>1, <1>2
  <2>6. loaded' \in Seq(S) /\ DOMAIN loaded' = 1..Len(loaded')
    BY <1>3, <2>1, LenProperties
  <2> QED BY <1>3, <2>1, <2>2, <2>3, <2>6 DEF S
<1> HIDE DEF W, B, new
<1>8. Locals' = Locals /\ Loadeds \subseteq Loadeds'
      /\ \A id : id \in Loadeds' <=> id \in Int /\ -id - 1 \in 1..(L + n)
  <2>1. Locals' = Locals
    BY <1>3 DEF Locals
  <2>2. \A id : id \in Loadeds' <=> id \in Int /\ -id - 1 \in 1..(L + n)
    <3>1. Len(loaded') = L + n /\ L + n \in Nat
      BY <1>1, <1>2, <1>7
    <3> DEFINE T == {-2 - i : i \in 0..((L + n) - 1)}
    <3>2. Loadeds' = T
      BY <3>1 DEF Loadeds
    <3>3. ASSUME NEW id PROVE id \in T <=> id \in Int /\ -id - 1 \in 1..(L + n)
      <4>1. ASSUME id \in Int, -id - 1 \in 1..(L + n) PROVE id \in T
        <5>1. -id - 2 \in 0..((L + n) - 1) /\ -2 - (-id - 2) = id
          BY <3>1, <4>1
        <5> QED BY <5>1
      <4>2. ASSUME id \in T PROVE id \in Int /\ -id - 1 \in 1..(L + n)
        BY <3>1, <4>2
      <4> QED BY <4>1, <4>2
    <3> QED BY <3>2, <3>3
  <2>3. ASSUME NEW id \in Loadeds PROVE id \in Loadeds'
    <3>1. id \in Int /\ -id - 1 \in 1..L
      BY <1>2, FileIDs
    <3>2. -id - 1 \in 1..(L + n)
      BY <1>1, <1>2, <3>1
    <3> QED BY <2>2, <3>1, <3>2
  <2> QED BY <2>1, <2>2, <2>3
<1>h. n = Len(f) /\ L = Len(loaded)
  OBVIOUS
<1> HIDE DEF n, L
<1>9. LoadedsInOrder'
  <2>1. ASSUME NEW i \in 1..(L + n) PROVE currentLoaded' <= loaded'[i]
    <3>1. CASE i \in 1..L
      BY <1>b, <1>l, <1>2, <1>3, <1>7, <3>1
    <3>2. CASE i \notin 1..L
      <4>1. i - L \in 1..n /\ L + (i - L) = i
        BY <1>1, <1>2, <3>2
      <4>2. loaded'[i] = more[i - L]
        BY <1>7, <4>1
      <4>3. more[i - L] = B - 2 + W(n + 1 - (i - L)) /\ n + 1 - (i - L) \in 1..n
        BY <1>4, <4>1
      <4>4. W(n + 1 - (i - L)) \in Nat /\ 2 <= W(n + 1 - (i - L))
        BY <1>a, <4>3
      <4> QED BY <1>b, <1>2, <1>3, <4>2, <4>3, <4>4
    <3> QED BY <3>1, <3>2
  <2>2. ASSUME NEW i \in 1..(L + n), NEW j \in 1..(L + n), i < j
        PROVE  loaded'[j] < loaded'[i]
    <3>1. CASE j \in 1..L
      <4>1. i \in 1..L
        BY <1>2, <2>2, <3>1
      <4>2. loaded[j] < loaded[i]
        BY <1>2, <2>2, <3>1, <4>1 DEF SourceInv, LoadedsInOrder
      <4> QED BY <1>7, <3>1, <4>1, <4>2
    <3>2. CASE j \notin 1..L /\ i \in 1..L
      <4>1. j - L \in 1..n /\ L + (j - L) = j
        BY <1>1, <1>2, <3>2
      <4>2. loaded'[j] = more[j - L] /\ more[j - L] \in Nat /\ more[j - L] < currentLoaded - 1
        BY <1>4, <1>7, <4>1
      <4>3. loaded'[i] = loaded[i] /\ loaded[i] \in Nat /\ currentLoaded <= loaded[i]
        BY <1>l, <1>7, <3>2
      <4> QED BY <1>2, <4>2, <4>3
    <3>3. CASE j \notin 1..L /\ i \notin 1..L
      <4>1. /\ j - L \in 1..n /\ L + (j - L) = j /\ i - L \in 1..n /\ L + (i - L) = i
        BY <1>1, <1>2, <3>3
      <4> DEFINE a == n + 1 - (j - L)
                 b == n + 1 - (i - L)
      <4>2. a \in 1..n /\ b \in 1..n /\ a < b /\ a \in 1..(n + 1) /\ b \in 1..(n + 1)
        BY <1>1, <1>2, <2>2, <4>1
      <4>3. loaded'[j] = B - 2 + W(a) /\ loaded'[i] = B - 2 + W(b)
        BY <1>4, <1>7, <4>1
      <4> HIDE DEF a, b
      <4>4. W(a) + f[a] <= W(b) /\ f[a] \in Nat \ {0} /\ W(a) \in Nat /\ W(b) \in Nat
        BY <1>1, <1>w, <4>2
      <4> QED BY <1>b, <4>3, <4>4
    <3> QED BY <3>1, <3>2, <3>3
  <2> QED BY <1>7, <2>1, <2>2 DEF LoadedsInOrder
<1>10. ASSUME NEW g \in given PROVE Holds(g.of, g.loc)' /\ g \in [loc : Nat, of : Int] /\ g.loc >= 2
  <2>1. Holds(g.of, g.loc) /\ g \in [loc : Nat, of : Int] /\ g.loc >= 2
    BY DEF SourceInv
  <2>2. CASE g.of \in Locals
    <3>1. g.of \notin Loadeds
      BY <1>2, <1>h, <2>2, FileIDs
    <3> QED BY <1>3, <1>8, <2>1, <2>2, <3>1 DEF Holds
  <2>3. CASE g.of \notin Locals
    <3> DEFINE id == g.of
               o == g.loc
    <3>1. /\ id \in Loadeds /\ loaded[-id - 1] <= o
          /\ o < IF id = -2 THEN MaxLoadedOffset ELSE loaded[-id - 2]
      BY <2>1, <2>3 DEF Holds
    <3>2. id \in Int /\ -id - 1 \in 1..L
      BY <1>2, <1>h, <3>1, FileIDs
    <3>3. loaded'[-id - 1] = loaded[-id - 1]
      BY <1>7, <3>2
    <3>4. id # -2 => loaded'[-id - 2] = loaded[-id - 2]
      <4>1. id # -2 => -id - 2 \in 1..L
        BY <1>2, <3>2
      <4> QED BY <1>7, <4>1
    <3>5. id \in Loadeds'
      BY <1>8, <3>1
    <3> HIDE DEF id, o
    <3>6. Holds(id, o)'
      BY <3>1, <3>3, <3>4, <3>5 DEF Holds
    <3> QED BY <2>1, <3>6 DEF id, o
  <2> QED BY <2>2, <2>3
<1>11. ASSUME NEW k \in 1..n
       PROVE  /\ of(k) \in Int /\ of(k) \in Loadeds'
              /\ -of(k) - 1 = L + (n + 1 - k)
              /\ loaded'[-of(k) - 1] = B - 2 + W(k)
              /\ B - 2 + W(k) + f[k] <= IF of(k) = -2 THEN MaxLoadedOffset ELSE loaded'[-of(k) - 2]
  <2>1. of(k) = -(L + n) - 2 + k /\ k \in Nat
    BY <1>1, <1>2, <1>h DEF BaseID
  <2> DEFINE id == -(L + n) - 2 + k
             i == n + 1 - k
  <2>2. i \in 1..n /\ id \in Int /\ -id - 1 = L + i /\ -id - 1 \in 1..(L + n) /\ n + 1 - i = k
        /\ -id - 2 = L + (n - k)
    BY <1>1, <1>2
  <2>3. loaded'[-id - 1] = B - 2 + W(k)
    BY <1>4, <1>7, <2>2
  <2>4. /\ W(k) \in Nat /\ 2 <= W(k) /\ f[k] \in Nat \ {0}
        /\ W(k) + f[k] <= W(k + 1) /\ W(k + 1) \in Nat /\ W(k + 1) <= W(n + 1)
        /\ W(n + 1) \in Nat
    <3>1. n + 1 \in 1..(n + 1)
      BY <1>1
    <3> QED BY <1>a, <1>w, <3>1
  <2> DEFINE e == B - 2 + W(k) + f[k]
  <2>7. e \in Int /\ e <= currentLoaded - 1 /\ e <= B - 2 + W(k + 1)
    <3> HIDE DEF W, B
    <3> QED BY <1>b, <2>4
  <2>8. currentLoaded \in Nat /\ currentLoaded <= MaxLoadedOffset /\ MaxLoadedOffset \in Nat
    BY <1>2
  <2> HIDE DEF e
  <2>5. CASE k # n
    <3>1. n - k \in 1..n /\ n + 1 - (n - k) = k + 1 /\ id # -2
      BY <1>1, <1>2, <2>5
    <3>2. loaded'[-id - 2] = B - 2 + W(k + 1)
      <4>1. loaded'[L + (n - k)] = more[n - k]
        BY <1>7, <3>1
      <4>2. more[n - k] = B - 2 + W(n + 1 - (n - k))
        BY <1>4, <3>1
      <4>3. W(n + 1 - (n - k)) = W(k + 1)
        BY <3>1
      <4> HIDE DEF id
      <4> QED BY <2>2, <4>1, <4>2, <4>3
    <3>3. e <= loaded'[-id - 2]
      BY <2>7, <3>2
    <3> QED BY <1>8, <2>1, <2>2, <2>3, <3>1, <3>3 DEF e
  <2>6. CASE k = n
    <3>2. CASE L = 0
      <4>1. id = -2
        BY <1>1, <2>6, <3>2
      <4>2. e <= MaxLoadedOffset
        BY <2>7, <2>8
      <4> QED BY <1>8, <2>1, <2>2, <2>3, <4>1, <4>2 DEF e
    <3>3. CASE L # 0
      <4>1. id # -2 /\ -id - 2 = L /\ L \in 1..L
        BY <1>1, <1>2, <2>6, <3>3
      <4>2. loaded'[-id - 2] \in Nat /\ currentLoaded <= loaded'[-id - 2]
        BY <1>l, <1>7, <4>1
      <4>3. e <= loaded'[-id - 2]
        BY <2>7, <2>8, <4>2
      <4> QED BY <1>8, <2>1, <2>2, <2>3, <4>1, <4>3 DEF e
    <3> QED BY <3>2, <3>3
  <2> QED BY <2>5, <2>6
<1>12. ASSUME NEW g \in new PROVE Holds(g.of, g.loc)' /\ g \in [loc : Nat, of : Int] /\ g.loc >= 2
  <2>0. PICK k \in 1..n : g \in {[loc |-> Remapped(f, W(k) + i), of |-> of(k)]
                                   : i \in 0..(f[k] - 1)}
    BY <1>1 DEF new, W
  <2>1. PICK i \in 0..(f[k] - 1) : g = [loc |-> Remapped(f, W(k) + i), of |-> of(k)]
    BY <2>0
  <2>2. /\ W(k) \in Nat /\ 2 <= W(k) /\ f[k] \in Nat \ {0} /\ i \in Nat /\ i < f[k]
        /\ W(k) + f[k] <= W(k + 1) /\ W(k + 1) \in Nat /\ W(k + 1) <= W(n + 1)
        /\ W(n + 1) \in Nat
    <3>1. n + 1 \in 1..(n + 1) /\ f[k] \in Nat \ {0}
      BY <1>1
    <3> QED BY <1>a, <1>w, <3>1
  <2>3. W(k) + i \in Nat /\ 2 <= W(k) + i /\ W(k) + i <= W(n + 1)
    BY <2>2
  <2>4. Remapped(f, W(k) + i) = B - 2 + (W(k) + i)
    BY <1>r, <2>3
  <2> DEFINE o == B - 2 + (W(k) + i)
  <2>5. o \in Nat /\ 2 <= o /\ B - 2 + W(k) <= o /\ o < B - 2 + W(k) + f[k]
    <3>1. B \in Nat /\ 2 <= B
      BY <1>b, <1>2, <1>3
    <3>2. \A w, l \in Nat : 2 <= w /\ i < l => /\ B - 2 + (w + i) \in Nat /\ 2 <= B - 2 + (w + i)
                                            /\ B - 2 + w <= B - 2 + (w + i)
                                            /\ B - 2 + (w + i) < B - 2 + w + l
      BY <2>2, <3>1
    <3> QED BY <2>2, <3>2
  <2>6. g.of = of(k) /\ g.loc = o
    BY <2>1, <2>4
  <2> HIDE DEF o, of
  <2>7. /\ g.of \in Int /\ g.of \in Loadeds' /\ loaded'[-g.of - 1] = B - 2 + W(k)
        /\ B - 2 + W(k) + f[k]
             <= IF g.of = -2 THEN MaxLoadedOffset ELSE loaded'[-g.of - 2]
    BY <1>11, <2>6
  <2>8. g.of # -2 => loaded'[-g.of - 2] \in Nat
    <3> SUFFICES ASSUME g.of # -2 PROVE loaded'[-g.of - 2] \in Nat
      OBVIOUS
    <3>1. -g.of - 1 \in 1..(L + n)
      BY <1>8, <2>7
    <3> DEFINE j == -g.of - 2
    <3>4. \A x \in Nat : \A a \in Int : -a - 1 \in 1..x /\ a # -2 => -a - 2 \in 1..x
      OBVIOUS
    <3>5. L + n \in Nat
      BY <1>1, <1>2
    <3>2. j \in 1..(L + n)
      BY <2>7, <3>1, <3>4, <3>5
    <3> HIDE DEF j
    <3>3. loaded'[j] \in 2..(MaxLoadedOffset - 1)
      BY <1>7, <3>2, ElementOfSeq
    <3> QED BY <1>2, <3>3 DEF j
  <2>9. g.loc < IF g.of = -2 THEN MaxLoadedOffset ELSE loaded'[-g.of - 2]
    <3> DEFINE e == B - 2 + W(k) + f[k]
               u == IF g.of = -2 THEN MaxLoadedOffset ELSE loaded'[-g.of - 2]
    <3>1. g.loc \in Nat /\ g.loc < e /\ e <= u
      BY <2>5, <2>6, <2>7
    <3>2. e \in Int
      BY <1>b, <2>2
    <3>3. u \in Int
      BY <1>2, <2>8
    <3> HIDE DEF e, u
    <3>4. g.loc < u
      BY <3>1, <3>2, <3>3
    <3> QED BY <3>4 DEF u
  <2>10. loaded'[-g.of - 1] <= g.loc
    BY <2>5, <2>6, <2>7
  <2>11. Holds(g.of, g.loc)'
    BY <2>7, <2>9, <2>10 DEF Holds
  <2>12. g \in [loc : Nat, of : Int] /\ g.loc >= 2
    <3>1. g = [loc |-> o, of |-> of(k)]
      BY <2>1, <2>4 DEF o
    <3> QED BY <2>5, <2>6, <2>7, <3>1
  <2> QED BY <2>11, <2>12
<1>13. \A g \in given' : g.loc \in Nat /\ g.of \in Locals' \cup Loadeds'
  <2>1. ASSUME NEW g \in given' PROVE g.loc \in Nat /\ g.of \in Locals' \cup Loadeds'
    <3>1. Holds(g.of, g.loc)' /\ g \in [loc : Nat, of : Int]
      BY <1>3, <1>10, <1>12
    <3> QED BY <3>1 DEF Holds
  <2> QED BY <2>1
<1>14. unreadable' \subseteq Loadeds'
  <2>1. \A k \in DOMAIN f : of(k) \in Loadeds'
    BY <1>1, <1>11
  <2> HIDE DEF of
  <2> QED BY <1>3, <1>6, <1>8, <2>1
<1>15. InRange'
  <2>1. currentLoaded' \in 2..MaxLoadedOffset
    BY <1>b, <1>2, <1>3
  <2>2. last' \in Locals' \cup Loadeds'
    BY <1>3, <1>6, <1>8
  <2> QED BY <1>3, <1>6, <1>7, <1>13, <1>14, <2>1, <2>2 DEF InRange
<1>16. LocalsInOrder' /\ nextLocal' <= currentLoaded'
  BY <1>3 DEF SourceInv, LocalsInOrder
<1>17. given' \subseteq [loc : Nat, of : Int] /\ \A g \in given' : g.loc >= 2 /\ Holds(g.of, g.loc)'
  BY <1>3, <1>10, <1>12
<1> QED BY <1>9, <1>15, <1>16, <1>17 DEF SourceInv

\* A difference that is below zero wraps.
LEMMA NegativeWraps ==
  ASSUME NEW w \in Nat \ {0}, NEW d \in Int, -w < d, d < 0
  PROVE  d % w = d + w
<1> DEFINE r == d % w
           q == d \div w
<1>1. r \in Int /\ q \in Int /\ 0 <= r /\ r < w /\ d = w * q + r
  OBVIOUS
<1> HIDE DEF r, q
<1>2. q <= -2 \/ q = -1 \/ q >= 0
  BY <1>1
<1>3. q >= 0 => w * q >= 0
  BY <1>1
<1>4. q <= -2 => w * q <= -2 * w
  BY <1>1
<1>5. q = -1
  BY <1>1, <1>2, <1>3, <1>4
<1>6. r = d + w
  BY <1>1, <1>5
<1> QED BY <1>6 DEF r

LEMMA SequenceOfLength ==
  ASSUME NEW S, NEW n \in Nat, NEW s \in [1..n -> S]
  PROVE  s \in Seq(S) /\ Len(s) = n
  OBVIOUS

\* A larger one: its base offset wraps to one with the macro bit, where the assertion
\* that it is below MaxLoadedOffset fails.
LEMMA WrappedStep ==
  ASSUME SourceInv, NEW f \in ASTFiles, ~(TotalSize(f) <= currentLoaded),
         AllocateLoadedSLocEntries(f)
  PROVE  SourceTypeOK' /\ ~BaseInRange'
<1> DEFINE n == Len(f)
           L == Len(loaded)
           T == TotalSize(f)
           S == 0..(Word - 1)
           of(k) == BaseID(f) + k - 1
           new == UNION {{[loc |-> Remapped(f, WrittenAt(f, k) + i), of |-> BaseID(f) + k - 1]
                            : i \in 0..(f[k] - 1)} : k \in DOMAIN f}
           more == [i \in DOMAIN f |-> Remapped(f, WrittenAt(f, Len(f) + 1 - i))]
<1>0. f \in Seq(Nat \ {0}) /\ MaxLoadedOffset \in Nat /\ 2 <= MaxLoadedOffset
  BY SourceAssumption
<1>1. n \in Nat /\ DOMAIN f = 1..n /\ \A k \in 1..n : f[k] \in Nat \ {0}
  BY <1>0, LenProperties, ElementOfSeq
<1>2. /\ Len(local) \in Nat /\ L \in Nat /\ currentLoaded \in Nat /\ 2 <= currentLoaded
      /\ currentLoaded <= MaxLoadedOffset /\ DOMAIN loaded = 1..L
  <2>1. /\ nextLocal \in Nat /\ currentLoaded \in Nat /\ nextLocal <= currentLoaded
        /\ 2 <= nextLocal /\ currentLoaded <= MaxLoadedOffset
        /\ Len(local) \in Nat /\ Len(loaded) \in Nat /\ DOMAIN loaded = 1..Len(loaded)
    BY Tables
  <2> QED BY <2>1
<1>3. T \in Nat /\ currentLoaded < T /\ T < MaxLoadedOffset
  <2>1. WrittenAt(f, n + 1) \in Nat
    BY <1>0, <1>1, WrittenAtSums
  <2>2. T \in Int
    BY <2>1 DEF TotalSize
  <2>3. T < MaxLoadedOffset
    BY ASTFileAssumption
  <2>4. ~(T <= currentLoaded)
    OBVIOUS
  <2> HIDE DEF T
  <2> QED BY <1>2, <2>2, <2>3, <2>4
<1>4. BaseOffset(f) \in 2..(Word - 1) /\ ~(BaseOffset(f) <= MaxLoadedOffset)
  <2> DEFINE d == currentLoaded - T
             M == MaxLoadedOffset
  <2>1. BaseOffset(f) = d % Word
    BY DEF BaseOffset
  <2> HIDE DEF T
  <2>2. d \in Int /\ -M < d /\ d < 0 /\ M \in Nat /\ 2 <= M /\ Word = 2 * M
    BY <1>0, <1>2, <1>3 DEF Word
  <2> HIDE DEF d
  <2>3. d % Word = d + Word
    BY <2>2, NegativeWraps
  <2> QED BY <2>1, <2>2, <2>3
<1>5. ASSUME NEW o \in Int PROVE Remapped(f, o) \in S
  <2>1. BaseOffset(f) \in Int /\ Word \in Nat \ {0}
    BY <1>0, <1>4 DEF Word
  <2> DEFINE x == o + BaseOffset(f) - 2
  <2>2. x \in Int /\ Remapped(f, o) = x % Word
    BY <2>1 DEF Remapped
  <2> HIDE DEF x
  <2> QED BY <2>1, <2>2
<1>6. \A k \in 1..(n + 1) : WrittenAt(f, k) \in Nat
  BY <1>0, <1>1, WrittenAtSums
<1>7. /\ loaded' = loaded \o more /\ currentLoaded' = BaseOffset(f)
      /\ given' = given \cup new /\ local' = local /\ nextLocal' = nextLocal /\ last' = last
      /\ \E lost \in SUBSET {of(k) : k \in DOMAIN f} : unreadable' = unreadable \cup lost
  BY DEF AllocateLoadedSLocEntries
<1>8. ~BaseInRange'
  BY <1>4, <1>7 DEF BaseInRange
<1>9. more \in Seq(S) /\ Len(more) = n
  <2>1. \A i \in 1..n : n + 1 - i \in 1..(n + 1)
    BY <1>1
  <2>2. \A i \in 1..n : more[i] \in S
    <3>1. ASSUME NEW i \in 1..n PROVE more[i] \in S
      <4>1. WrittenAt(f, n + 1 - i) \in Int
        BY <1>6, <2>1
      <4>2. more[i] = Remapped(f, WrittenAt(f, n + 1 - i))
        BY <1>1
      <4> HIDE DEF S, more
      <4> QED BY <1>5, <4>1, <4>2
    <3> QED BY <3>1
  <2>3. more = [i \in 1..n |-> more[i]]
    BY <1>1
  <2> HIDE DEF S, more, n
  <2>4. more \in [1..n -> S]
    BY <2>2, <2>3
  <2> QED BY <1>1, <2>4, SequenceOfLength
<1>10. loaded \in Seq(S) /\ InRange
  <2>1. InRange
    BY DEF SourceInv
  <2> DEFINE R == 2..(MaxLoadedOffset - 1)
  <2>2. R \subseteq S /\ loaded \in Seq(R)
    BY <1>0, <2>1 DEF InRange, Word
  <2> HIDE DEF R, S
  <2> QED BY <2>1, <2>2
<1> HIDE DEF S, more
<1>11. loaded' \in Seq(S) /\ Len(loaded') = L + n
  <2>1. loaded \o more \in Seq(S) /\ Len(loaded \o more) = Len(loaded) + Len(more)
    BY <1>9, <1>10, ConcatProperties
  <2> QED BY <1>7, <1>9, <2>1
<1>12. Loadeds \subseteq Loadeds' /\ Locals' = Locals
  <2>1. \A i \in 0..(L - 1) : i \in 0..(L + n - 1)
    BY <1>1, <1>2
  <2> QED BY <1>7, <1>11, <2>1 DEF Loadeds, Locals
<1>13. ASSUME NEW k \in 1..n PROVE of(k) \in Loadeds'
  <2> DEFINE i == L + n - k
  <2>1. i \in 0..(L + n - 1) /\ of(k) = -2 - i
    BY <1>1, <1>2 DEF BaseID
  <2> HIDE DEF i, of
  <2> QED BY <1>11, <2>1 DEF Loadeds
<1>14. ASSUME NEW g \in new PROVE g.loc \in Nat /\ g.of \in Loadeds'
  <2>0. PICK k \in 1..n : \E i \in 0..(f[k] - 1) :
          g = [loc |-> Remapped(f, WrittenAt(f, k) + i), of |-> of(k)]
    BY <1>1, <1>14
  <2>1. PICK i \in 0..(f[k] - 1) : g = [loc |-> Remapped(f, WrittenAt(f, k) + i), of |-> of(k)]
    BY <2>0
  <2>2. k \in 1..(n + 1) /\ i \in Int
    BY <1>1
  <2>3. WrittenAt(f, k) + i \in Int
    BY <1>6, <2>2
  <2>4. Remapped(f, WrittenAt(f, k) + i) \in Nat
    BY <1>0, <1>5, <2>3 DEF S, Word
  <2> HIDE DEF of
  <2> QED BY <1>13, <2>1, <2>4
<1> HIDE DEF new
<1>15. \A g \in given' : g.loc \in Nat /\ g.of \in Locals' \cup Loadeds'
  BY <1>7, <1>10, <1>12, <1>14 DEF InRange
<1>16. unreadable' \subseteq Loadeds'
  <2>1. \A k \in DOMAIN f : of(k) \in Loadeds'
    BY <1>1, <1>13
  <2> HIDE DEF of
  <2> QED BY <1>7, <1>10, <1>12, <2>1 DEF InRange
<1>17. SourceTypeOK'
  BY <1>4, <1>7, <1>8, <1>10, <1>11, <1>12, <1>15, <1>16 DEF InRange, SourceTypeOK, S
<1> QED BY <1>8, <1>17

-----------------------------------------------------------------------------
(* The invariant. *)

LEMMA Started == SourceInit => SourceInv
<1> SUFFICES ASSUME SourceInit PROVE SourceInv
  OBVIOUS
<1>1. /\ local = <<0>> /\ nextLocal = 2 /\ loaded = <<>> /\ currentLoaded = MaxLoadedOffset
      /\ unreadable = {} /\ last = 0 /\ given = {}
  BY DEF SourceInit
<1>2. MaxLoadedOffset \in Nat /\ 2 <= MaxLoadedOffset
  BY SourceAssumption
<1>3. Len(local) = 1 /\ local[1] = 0 /\ Len(loaded) = 0
  BY <1>1
<1>4. local \in Seq(0..(MaxLoadedOffset - 1)) /\ loaded \in Seq(2..(MaxLoadedOffset - 1))
  <2>1. 0 \in 0..(MaxLoadedOffset - 1)
    BY <1>2
  <2> DEFINE S == 0..(MaxLoadedOffset - 1)
  <2> HIDE DEF S
  <2>2. <<0>> \in Seq(S)
    BY <2>1 DEF S
  <2> QED BY <1>1, <2>2 DEF S
<1>5. last \in Locals
  BY <1>1, <1>3 DEF Locals
<1>6. InRange
  BY <1>1, <1>2, <1>4, <1>5 DEF InRange
<1>7. LocalsInOrder /\ LoadedsInOrder
  BY <1>1, <1>2, <1>3 DEF LocalsInOrder, LoadedsInOrder
<1> QED BY <1>1, <1>2, <1>6, <1>7 DEF SourceInv

LEMMA ClearStep == clearIDTables => SourceInv'
<1> SUFFICES ASSUME clearIDTables PROVE SourceInv'
  OBVIOUS
<1>1. /\ local' = <<0>> /\ nextLocal' = 2 /\ loaded' = <<>> /\ currentLoaded' = MaxLoadedOffset
      /\ unreadable' = {} /\ last' = 0 /\ given' = {}
  BY DEF clearIDTables
<1>2. SourceInit'
  BY <1>1 DEF SourceInit
<1> QED BY <1>2, Started, PTL

\* A lookup changes only what it remembers, and that is an entry.
LEMMA LookupStep ==
  ASSUME SourceInv, NEW g \in given, Lookup(g.loc)
  PROVE  SourceInv'
<1> DEFINE o == g.loc
<1>1. o \in Nat /\ 2 <= o
  BY DEF SourceInv
<1>2. /\ last' = IF getFileID(o) \in {0, Sentinel} /\ o >= nextLocal THEN last ELSE getFileID(o)
      /\ UNCHANGED <<local, nextLocal, loaded, currentLoaded, unreadable, given>>
  BY DEF Lookup
<1> HIDE DEF o
<1>3. /\ o < nextLocal => getFileID(o) \in Locals \cup Loadeds
      /\ getFileID(o) \in Locals \cup Loadeds \cup {0, Sentinel}
  BY <1>1, LookupTyped
<1>4. nextLocal \in Nat /\ last \in Locals \cup Loadeds
  BY Tables DEF SourceInv, InRange
<1> DEFINE found == getFileID(o)
<1> HIDE DEF found
<1>5. last' \in Locals \cup Loadeds
  <2>1. ~(o >= nextLocal) => o < nextLocal
    BY <1>1, <1>4
  <2> QED BY <1>2, <1>3, <1>4, <2>1
<1>6. Locals' = Locals /\ Loadeds' = Loadeds
  BY <1>2 DEF Locals, Loadeds
<1>7. InRange'
  BY <1>2, <1>5, <1>6 DEF SourceInv, InRange
<1>8. LocalsInOrder' /\ LoadedsInOrder' /\ nextLocal' <= currentLoaded'
  BY <1>2 DEF SourceInv, LocalsInOrder, LoadedsInOrder
<1>9. given' \subseteq [loc : Nat, of : Int] /\ \A h \in given' : h.loc >= 2 /\ Holds(h.of, h.loc)'
  BY <1>2, <1>6 DEF SourceInv, Holds
<1> QED BY <1>7, <1>8, <1>9 DEF SourceInv

\* The invariant: until the assertion on the base offset fails, SourceInv.
UntilAsserted == SourceTypeOK /\ (BaseInRange => SourceInv)

LEMMA StaysAsserted == UntilAsserted /\ UNCHANGED sourceVars => UntilAsserted'
<1> SUFFICES ASSUME UntilAsserted, UNCHANGED sourceVars PROVE UntilAsserted'
  OBVIOUS
<1>1. Locals' = Locals /\ Loadeds' = Loadeds /\ (BaseInRange' <=> BaseInRange)
  BY DEF sourceVars, Locals, Loadeds, BaseInRange
<1>2. SourceTypeOK'
  BY <1>1 DEF sourceVars, UntilAsserted, SourceTypeOK
<1>3. BaseInRange => SourceInv'
  <2> SUFFICES ASSUME SourceInv PROVE SourceInv'
    BY DEF UntilAsserted
  <2>1. InRange' /\ LocalsInOrder' /\ LoadedsInOrder' /\ nextLocal' <= currentLoaded'
    BY <1>1 DEF sourceVars, SourceInv, InRange, LocalsInOrder, LoadedsInOrder
  <2>2. /\ given' \subseteq [loc : Nat, of : Int]
        /\ \A h \in given' : h.loc >= 2 /\ Holds(h.of, h.loc)'
    BY <1>1 DEF sourceVars, SourceInv, Holds
  <2> QED BY <2>1, <2>2 DEF SourceInv
<1> QED BY <1>1, <1>2, <1>3 DEF UntilAsserted

LEMMA NotYetAsserted == SourceInv => UntilAsserted
<1> SUFFICES ASSUME SourceInv PROVE SourceTypeOK
  BY DEF UntilAsserted
<1>1. InRange
  BY DEF SourceInv
<1> DEFINE S == 2..(MaxLoadedOffset - 1)
           T == 0..(Word - 1)
<1>2. S \subseteq T
  BY SourceAssumption DEF Word
<1>3. currentLoaded \in 2..(Word - 1)
  BY <1>1, SourceAssumption DEF InRange, Word
<1>4. loaded \in Seq(S)
  BY <1>1 DEF InRange
<1> HIDE DEF S, T
<1>5. loaded \in Seq(T)
  BY <1>2, <1>4
<1> QED BY <1>1, <1>3, <1>4, <1>5 DEF InRange, SourceTypeOK, S, T

LEMMA Invariant == SourceSpec => []UntilAsserted
<1>1. SourceInit => UntilAsserted
  BY Started, NotYetAsserted
<1>2. UntilAsserted /\ [SourceNext]_sourceVars => UntilAsserted'
  <2> SUFFICES ASSUME UntilAsserted, [SourceNext]_sourceVars PROVE UntilAsserted'
    OBVIOUS
  <2>i. SourceInv' => UntilAsserted'
    BY NotYetAsserted, PTL
  <2>u. CASE UNCHANGED sourceVars
    BY <2>u, StaysAsserted
  <2> SUFFICES ASSUME SourceNext PROVE UntilAsserted'
    BY <2>u
  <2>0. SourceInv
    BY DEF UntilAsserted, SourceNext
  <2>1. ASSUME NEW size \in 0..(Word - 1), createFileID(size) PROVE UntilAsserted'
    BY <2>0, <2>1, <2>i, CreatedStep DEF createFileID
  <2>2. ASSUME NEW size \in 0..(Word - 1), createExpansionLoc(size) PROVE UntilAsserted'
    BY <2>0, <2>2, <2>i, CreatedStep DEF createExpansionLoc
  <2>3. ASSUME NEW f \in ASTFiles, AllocateLoadedSLocEntries(f) PROVE UntilAsserted'
    <3>1. TotalSize(f) <= currentLoaded => UntilAsserted'
      BY <2>0, <2>3, <2>i, AllocateStep
    <3>2. ~(TotalSize(f) <= currentLoaded) => UntilAsserted'
      BY <2>0, <2>3, WrappedStep DEF UntilAsserted
    <3> QED BY <3>1, <3>2
  <2>4. ASSUME NEW g \in given, Lookup(g.loc) PROVE UntilAsserted'
    BY <2>0, <2>4, <2>i, LookupStep
  <2>5. CASE clearIDTables
    BY <2>5, <2>i, ClearStep
  <2> QED BY <2>1, <2>2, <2>3, <2>4, <2>5 DEF SourceNext
<1> QED BY <1>1, <1>2, PTL DEF SourceSpec

-----------------------------------------------------------------------------
(* The theorems.  They hold in every state up to the one where an AST file that  *)
(* there is no room for has got a base offset that wrapped.                      *)

\* Both tables stay within the offsets, and every FileID that is kept, the
\* remembered one (LastFileIDLookup) and those of locations, is one of a table.
THEOREM SourceTypeCorrect == SourceSpec => []SourceTypeOK
<1>1. UntilAsserted => SourceTypeOK
  BY DEF UntilAsserted
<1> QED BY <1>1, Invariant, PTL

\* createFileID, createExpansionLoc and AllocateLoadedSLocEntries never hand a
\* location out twice, nor one that has the macro bit, whatever the sizes are.
THEOREM LocationsUnique == SourceSpec => []LocationsAreUnique
<1>1. UntilAsserted => LocationsAreUnique
  <2> SUFFICES ASSUME SourceInv, NEW g \in given
               PROVE  g.loc < MaxLoadedOffset /\ \A h \in given : h.loc = g.loc => h = g
    BY DEF UntilAsserted, LocationsAreUnique
  <2> DEFINE id == g.of
             o == g.loc
  <2>1. \A h \in given : h \in [loc : Nat, of : Int] /\ Holds(h.of, h.loc)
    BY DEF SourceInv
  <2>2. ASSUME NEW h \in given, h.loc = g.loc PROVE h = g
    <3>1. Holds(h.of, o) /\ Holds(id, o) /\ o \in Nat
      BY <2>1, <2>2
    <3>2. h.of = g.of
      BY <3>1, HoldsUnique
    <3>3. h \in [loc : Nat, of : Int] /\ g \in [loc : Nat, of : Int]
      BY <2>1
    <3> QED BY <2>2, <3>2, <3>3
  <2>3. o < MaxLoadedOffset
    <3>1. Holds(id, o) /\ o \in Nat
      BY <2>1
    <3> HIDE DEF id, o
    <3>2. CASE /\ id \in Locals /\ local[id + 1] <= o
               /\ o < IF id + 1 = Len(local) THEN nextLocal ELSE local[id + 2]
      <4>1. id \in Nat /\ id + 1 \in 1..Len(local)
        BY <3>2, LocalEntries, Tables
      <4>2. id + 1 # Len(local) => id + 2 \in 1..Len(local)
        <5>1. Len(local) \in Nat
          BY Tables
        <5> QED BY <4>1, <5>1
      <4>3. id + 1 # Len(local) => local[id + 2] \in Nat /\ local[id + 2] < nextLocal
        <5>1. \A i \in 1..Len(local) : local[i] \in Nat /\ local[i] < nextLocal
          BY Tables
        <5> QED BY <4>2, <5>1
      <4>4. nextLocal \in Nat /\ MaxLoadedOffset \in Nat /\ nextLocal <= MaxLoadedOffset
        <5>1. /\ nextLocal \in Nat /\ currentLoaded \in Nat /\ MaxLoadedOffset \in Nat
              /\ nextLocal <= currentLoaded /\ currentLoaded <= MaxLoadedOffset
          BY Tables
        <5> QED BY <5>1
      <4>5. CASE id + 1 = Len(local)
        <5>1. o < nextLocal
          BY <3>2, <4>5
        <5> QED BY <3>1, <4>4, <5>1
      <4>6. CASE id + 1 # Len(local)
        <5>1. o < local[id + 2]
          BY <3>2, <4>6
        <5> QED BY <3>1, <4>3, <4>4, <4>6, <5>1
      <4> QED BY <4>5, <4>6
    <3>3. CASE /\ id \in Loadeds /\ loaded[-id - 1] <= o
               /\ o < IF id = -2 THEN MaxLoadedOffset ELSE loaded[-id - 2]
      <4>1. id \in Int /\ -id - 1 \in 1..Len(loaded) /\ Len(loaded) \in Nat
        BY <3>3, FileIDs, Tables
      <4>2. id # -2 => -id - 2 \in 1..Len(loaded)
        BY <4>1
      <4>3. id # -2 => /\ loaded[-id - 2] \in Nat /\ loaded[-id - 2] < MaxLoadedOffset
                       /\ MaxLoadedOffset \in Nat
        <5>1. /\ MaxLoadedOffset \in Nat
              /\ \A i \in 1..Len(loaded) : loaded[i] \in Nat /\ loaded[i] < MaxLoadedOffset
          BY Tables
        <5> QED BY <4>2, <5>1
      <4>4. id # -2 => o < loaded[-id - 2]
        BY <3>3
      <4>5. id = -2 => o < MaxLoadedOffset
        BY <3>3
      <4> QED BY <3>1, <4>3, <4>4, <4>5
    <3> QED BY <3>1, <3>2, <3>3 DEF Holds
  <2> QED BY <2>2, <2>3
<1> QED BY <1>1, Invariant, PTL

\* getFileID answers for every location the entry it was handed out for, whatever
\* LastFileIDLookup is, as long as the ASTReader can load every entry.
THEOREM LookupFindsAll == SourceSpec => []LookupIsRight
<1>1. UntilAsserted => LookupIsRight
  <2> SUFFICES ASSUME SourceInv, unreadable = {}, NEW g \in given
               PROVE  getFileID(g.loc) = g.of
    BY DEF UntilAsserted, LookupIsRight
  <2>1. g.loc \in Nat /\ 2 <= g.loc /\ Holds(g.of, g.loc)
    BY DEF SourceInv
  <2> QED BY <2>1, LookupFinds
<1> QED BY <1>1, Invariant, PTL
=============================================================================
