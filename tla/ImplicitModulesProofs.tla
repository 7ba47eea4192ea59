------------------------ MODULE ImplicitModulesProofs ------------------------
(***************************************************************************)
(* What any number of compiler processes make of each other's PCMs, for    *)
(* every graph of imports, every set of PCMs left on the disk, and however *)
(* headers change and processes die.                                       *)
(*                                                                         *)
(* A PCM is a tree of PCMs (those it was built against), and trees have    *)
(* heights.  While a process reads PCMs, path[p] goes down a tree          *)
(* (Descending): so no module is met below itself, and what is read does   *)
(* not change under the hands of who waits for it.  When a process has     *)
(* written a PCM, the modules it has accepted bound its height             *)
(* (FinalHeights): it is a PCM of the model.                               *)
(***************************************************************************)
EXTENDS ImplicitModules, FiniteSetTheorems, SequenceTheorems, WellFoundedInduction, TLAPS

-----------------------------------------------------------------------------
(* Induction, over sets of numbers. *)

LEMMA SetInduction ==
  ASSUME NEW S \in SUBSET Nat, 0 \in S, \A n \in S : n + 1 \in S
  PROVE  S = Nat
<1> DEFINE Less == {ss \in Nat \X Nat : ss[1] < ss[2]}
           T == Nat \ S
<1>1. IsWellFoundedOn(Less, Nat)
  BY NatLessThanWellFounded DEF OpToRel
<1>2. SUFFICES ASSUME T # {} PROVE FALSE
  OBVIOUS
<1>3. T \subseteq Nat
  OBVIOUS
<1> HIDE DEF Less, T
<1>4. PICK m \in T : \A y \in T : <<y, m>> \notin Less
  BY <1>1, <1>2, <1>3, WFMin
<1>5. m \in Nat /\ m \notin S /\ m # 0
  BY <1>4 DEF T
<1>6. m - 1 \in Nat /\ m - 1 < m /\ (m - 1) + 1 = m
  BY <1>5
<1>7. m - 1 \notin S
  BY <1>5, <1>6
<1>8. <<m - 1, m>> \in Less
  BY <1>5, <1>6 DEF Less
<1> QED BY <1>4, <1>6, <1>7, <1>8 DEF T

-----------------------------------------------------------------------------
(* PCMs are finite trees. *)

Shape(g, n) ==
  [src : Versions,
   imports : IF n = 0 THEN {<<>>} ELSE Seq([mod : Modules, sig : g[n - 1]])]

\* The recursive definition defines the function it looks like.
LEMMA DepthDefined == PCMsOfDepth = [n \in Nat |-> Shape(PCMsOfDepth, n)]
<1> DEFINE Upto(n, f) == f = [i \in 0..n |-> Shape(f, i)]
           F(n) == CHOOSE f : Upto(n, f)
           h == [n \in Nat |-> F(n)[n]]
<1>0. ASSUME NEW f, NEW g, NEW n \in Nat, n # 0 => f[n - 1] = g[n - 1]
      PROVE  Shape(f, n) = Shape(g, n)
  BY <1>0 DEF Shape
<1>a. ASSUME NEW n \in Nat, NEW f, Upto(n, f), NEW i \in 0..n
      PROVE  f[i] = Shape(f, i)
  <2> DEFINE k == [x \in 0..n |-> Shape(f, x)]
  <2>1. f = k
    BY <1>a
  <2>2. k[i] = Shape(f, i)
    OBVIOUS
  <2> QED BY <2>1, <2>2
<1>1. \A n \in Nat : \E f : Upto(n, f)
  <2> DEFINE S == {n \in Nat : \E f : Upto(n, f)}
  <2>1. 0 \in S
    <3> DEFINE f == [i \in 0..0 |-> Shape(<<>>, i)]
    <3>1. f = [i \in 0..0 |-> Shape(f, i)]
      BY <1>0
    <3> QED BY <3>1
  <2>2. ASSUME NEW n \in S PROVE n + 1 \in S
    <3>1. PICK f : Upto(n, f)
      OBVIOUS
    <3> DEFINE g == [i \in 0..(n + 1) |-> IF i <= n THEN f[i] ELSE Shape(f, i)]
    <3>2. ASSUME NEW i \in 0..(n + 1) PROVE g[i] = Shape(g, i)
      <4>1. g[i] = Shape(f, i)
        BY <3>1
      <4>2. i # 0 => g[i - 1] = f[i - 1]
        OBVIOUS
      <4> QED BY <4>1, <4>2, <1>0
    <3>3. Upto(n + 1, g)
      BY <3>2
    <3> HIDE DEF g
    <3>4. \E k : Upto(n + 1, k)
      BY <3>3
    <3> QED BY <3>4
  <2> HIDE DEF S
  <2>3. S = Nat
    <3>1. S \in SUBSET Nat
      BY DEF S
    <3> QED BY <3>1, <2>1, <2>2, SetInduction
  <2> QED BY <2>3 DEF S
<1>2. ASSUME NEW n \in Nat, NEW m \in Nat, NEW f, NEW g, Upto(n, f), Upto(m, g)
      PROVE  \A i \in Nat : i <= n /\ i <= m => f[i] = g[i]
  <2> HIDE DEF Upto
  <2> DEFINE S == {i \in Nat : i <= n /\ i <= m => f[i] = g[i]}
  <2>1. 0 \in S
    <3>1. f[0] = Shape(f, 0) /\ g[0] = Shape(g, 0)
      BY <1>2, <1>a
    <3> QED BY <3>1, <1>0
  <2>2. ASSUME NEW i \in S PROVE i + 1 \in S
    <3> SUFFICES ASSUME i + 1 <= n, i + 1 <= m PROVE f[i + 1] = g[i + 1]
      OBVIOUS
    <3>1. f[i + 1] = Shape(f, i + 1) /\ g[i + 1] = Shape(g, i + 1)
      BY <1>2, <1>a
    <3>2. f[(i + 1) - 1] = g[(i + 1) - 1]
      OBVIOUS
    <3> QED BY <3>1, <3>2, <1>0
  <2> HIDE DEF S
  <2>3. S = Nat
    <3>1. S \in SUBSET Nat
      BY DEF S
    <3> QED BY <3>1, <2>1, <2>2, SetInduction
  <2> QED BY <2>3 DEF S
<1>3. \A n \in Nat : Upto(n, F(n))
  BY <1>1
<1> HIDE DEF F
<1>4. ASSUME NEW n \in Nat PROVE h[n] = Shape(h, n)
  <2>1. h[n] = Shape(F(n), n)
    BY <1>3
  <2>2. n # 0 => F(n)[n - 1] = h[n - 1]
    <3> SUFFICES ASSUME n # 0 PROVE F(n)[n - 1] = h[n - 1]
      OBVIOUS
    <3>1. n - 1 \in Nat /\ n - 1 <= n /\ n - 1 <= n - 1
      OBVIOUS
    <3>2. h[n - 1] = F(n - 1)[n - 1]
      BY <3>1
    <3> HIDE DEF h, Upto
    <3> QED BY <3>1, <3>2, <1>2, <1>3
  <2> QED BY <2>1, <2>2, <1>0
<1>5. h = [n \in Nat |-> Shape(h, n)]
  BY <1>4
<1>6. \E g : g = [n \in Nat |-> Shape(g, n)]
  BY <1>5
<1> QED BY <1>6 DEF PCMsOfDepth, Shape

PCMRefs(n) == [mod : Modules, sig : PCMsOfDepth[n]]

LEMMA DepthUnfolded ==
  /\ PCMsOfDepth[0] = [src : Versions, imports : {<<>>}]
  /\ \A n \in Nat : PCMsOfDepth[n + 1] = [src : Versions, imports : Seq(PCMRefs(n))]
<1>1. PCMsOfDepth[0] = Shape(PCMsOfDepth, 0)
  BY DepthDefined
<1>2. ASSUME NEW n \in Nat PROVE PCMsOfDepth[n + 1] = Shape(PCMsOfDepth, n + 1)
  BY DepthDefined
<1>3. ASSUME NEW n \in Nat PROVE n + 1 # 0 /\ (n + 1) - 1 = n
  OBVIOUS
<1> QED BY <1>1, <1>2, <1>3 DEF Shape, PCMRefs

LEMMA DepthGrows ==
  ASSUME NEW n \in Nat, NEW m \in Nat, n <= m
  PROVE  PCMsOfDepth[n] \subseteq PCMsOfDepth[m]
<1> DEFINE S == {k \in Nat : PCMsOfDepth[k] \subseteq PCMsOfDepth[k + 1]}
           R == {k \in Nat : PCMsOfDepth[n] \subseteq PCMsOfDepth[n + k]}
<1>1. S = Nat
  <2>1. 0 \in S
    <3>1. <<>> \in Seq(PCMRefs(0))
      OBVIOUS
    <3>2. PCMsOfDepth[0 + 1] = [src : Versions, imports : Seq(PCMRefs(0))]
      BY DepthUnfolded
    <3>3. [src : Versions, imports : {<<>>}]
            \subseteq [src : Versions, imports : Seq(PCMRefs(0))]
      BY <3>1
    <3> QED BY <3>2, <3>3, DepthUnfolded
  <2>2. ASSUME NEW k \in S PROVE k + 1 \in S
    <3>1. PCMRefs(k) \subseteq PCMRefs(k + 1)
      BY DEF PCMRefs
    <3>2. Seq(PCMRefs(k)) \subseteq Seq(PCMRefs(k + 1))
      BY <3>1, SeqMonotonic
    <3>3. /\ PCMsOfDepth[k + 1] = [src : Versions, imports : Seq(PCMRefs(k))]
          /\ PCMsOfDepth[(k + 1) + 1] = [src : Versions, imports : Seq(PCMRefs(k + 1))]
      <4>1. k \in Nat /\ k + 1 \in Nat
        OBVIOUS
      <4> HIDE DEF S
      <4> QED BY <4>1, DepthUnfolded
    <3>4. [src : Versions, imports : Seq(PCMRefs(k))]
            \subseteq [src : Versions, imports : Seq(PCMRefs(k + 1))]
      BY <3>2
    <3>5. PCMsOfDepth[k + 1] \subseteq PCMsOfDepth[(k + 1) + 1]
      BY <3>3, <3>4
    <3> QED BY <3>5
  <2> HIDE DEF S
  <2>3. S \in SUBSET Nat
    BY DEF S
  <2> QED BY <2>1, <2>2, <2>3, SetInduction
<1>2. R = Nat
  <2>1. 0 \in R
    OBVIOUS
  <2>2. ASSUME NEW k \in R PROVE k + 1 \in R
    <3>1. n + k \in S /\ n + (k + 1) = (n + k) + 1
      BY <1>1
    <3> QED BY <3>1
  <2> HIDE DEF R, S
  <2>3. R \in SUBSET Nat
    BY DEF R
  <2> QED BY <2>1, <2>2, <2>3, SetInduction
<1>3. m - n \in Nat /\ n + (m - n) = m
  OBVIOUS
<1>4. m - n \in R
  BY <1>2, <1>3
<1> QED BY <1>3, <1>4

MaxDepth == Cardinality(Modules) * (MaxVersion + 1)

LEMMA MaxDepthProperties ==
  /\ Cardinality(Modules) \in Nat /\ MaxDepth \in Nat /\ Cardinality(Modules) <= MaxDepth
  /\ PCMs = PCMsOfDepth[MaxDepth]
<1>1. Cardinality(Modules) \in Nat /\ MaxVersion \in Nat
  BY ModulesAssumption, FS_CardinalityType
<1>2. ASSUME NEW x \in Nat, NEW y \in Nat PROVE x * (y + 1) \in Nat /\ x <= x * (y + 1)
  <2>1. x * y \in Nat /\ x * (y + 1) = x * y + x
    OBVIOUS
  <2> QED BY <2>1
<1> QED BY <1>1, <1>2 DEF MaxDepth, PCMs

IsHeight(x, n) == x \in PCMsOfDepth[n] /\ \A k \in 0..(n - 1) : x \notin PCMsOfDepth[k]
Height(x) == CHOOSE n \in Nat : IsHeight(x, n)

LEMMA HeightProperties ==
  ASSUME NEW x, NEW n \in Nat, x \in PCMsOfDepth[n]
  PROVE  /\ Height(x) \in Nat /\ IsHeight(x, Height(x)) /\ Height(x) <= n
<1> DEFINE Less == {ss \in Nat \X Nat : ss[1] < ss[2]}
           T == {k \in Nat : x \in PCMsOfDepth[k]}
<1>1. IsWellFoundedOn(Less, Nat)
  BY NatLessThanWellFounded DEF OpToRel
<1>2. T \subseteq Nat /\ n \in T /\ T # {}
  OBVIOUS
<1> HIDE DEF Less, T
<1>3. PICK m \in T : \A y \in T : <<y, m>> \notin Less
  BY <1>1, <1>2, WFMin
<1>4. m \in Nat /\ x \in PCMsOfDepth[m]
  BY <1>3 DEF T
<1>5. ASSUME NEW k \in 0..(m - 1) PROVE x \notin PCMsOfDepth[k]
  <2>1. k \in Nat /\ k < m
    BY <1>4
  <2>2. <<k, m>> \in Less
    BY <2>1, <1>4 DEF Less
  <2> QED BY <2>1, <2>2, <1>3 DEF T
<1>6. \E k \in Nat : IsHeight(x, k)
  BY <1>4, <1>5 DEF IsHeight
<1>7. Height(x) \in Nat /\ IsHeight(x, Height(x))
  BY <1>6 DEF Height
<1>8. ~(n < Height(x))
  <2> SUFFICES ASSUME n < Height(x) PROVE FALSE
    OBVIOUS
  <2>1. n \in 0..(Height(x) - 1)
    BY <1>7
  <2> QED BY <2>1, <1>7 DEF IsHeight
<1> QED BY <1>7, <1>8

\* A PCM's imports are lower than it is, and one of them by one only.
LEMMA PCMProperties ==
  ASSUME NEW x \in PCMs
  PROVE  /\ x.src \in Versions /\ x.imports \in Seq([mod : Modules, sig : PCMs])
         /\ Height(x) \in Nat /\ Height(x) <= MaxDepth
         /\ \A i \in DOMAIN x.imports :
              /\ x.imports[i] \in [mod : Modules, sig : PCMs]
              /\ Height(x.imports[i].sig) \in Nat
              /\ Height(x.imports[i].sig) < Height(x)
         /\ Height(x) > 0 =>
              \E i \in DOMAIN x.imports : Height(x.imports[i].sig) = Height(x) - 1
<1> DEFINE h == Height(x)
<1>1. h \in Nat /\ IsHeight(x, h) /\ h <= MaxDepth
  BY MaxDepthProperties, HeightProperties
<1>2. CASE h = 0
  <2>1. x \in [src : Versions, imports : {<<>>}]
    BY <1>1, <1>2, DepthUnfolded DEF IsHeight
  <2>2. x.imports = <<>> /\ x.src \in Versions
    BY <2>1
  <2>3. x.imports \in Seq([mod : Modules, sig : PCMs]) /\ DOMAIN x.imports = {}
    BY <2>2
  <2> QED BY <1>1, <1>2, <2>2, <2>3
<1>3. CASE h # 0
  <2> DEFINE g == h - 1
  <2>0. g \in Nat /\ g + 1 = h /\ g < h /\ g <= MaxDepth
    BY <1>1, <1>3, MaxDepthProperties
  <2> HIDE DEF g
  <2>1. x \in [src : Versions, imports : Seq(PCMRefs(g))]
    BY <1>1, <2>0, DepthUnfolded DEF IsHeight
  <2>2. x.src \in Versions /\ x.imports \in Seq(PCMRefs(g))
    BY <2>1
  <2>3. PCMRefs(g) \subseteq [mod : Modules, sig : PCMs]
    BY <2>0, DepthGrows, MaxDepthProperties DEF PCMRefs
  <2>4. x.imports \in Seq([mod : Modules, sig : PCMs])
    BY <2>2, <2>3, SeqMonotonic
  <2>5. ASSUME NEW i \in DOMAIN x.imports
        PROVE  /\ x.imports[i] \in PCMRefs(g)
               /\ x.imports[i] \in [mod : Modules, sig : PCMs]
               /\ Height(x.imports[i].sig) \in Nat
               /\ Height(x.imports[i].sig) <= g
    <3>1. x.imports[i] \in PCMRefs(g)
      BY <2>2, ElementOfSeq, LenProperties
    <3>2. x.imports[i].sig \in PCMsOfDepth[g]
      BY <3>1 DEF PCMRefs
    <3> QED BY <2>0, <2>3, <3>1, <3>2, HeightProperties
  <2>6. \E i \in DOMAIN x.imports : Height(x.imports[i].sig) = g
    <3> SUFFICES ASSUME \A i \in DOMAIN x.imports : Height(x.imports[i].sig) # g
                 PROVE  FALSE
      OBVIOUS
    <3>1. CASE g = 0
      <4>1. x.imports = <<>>
        <5>1. Len(x.imports) \in Nat /\ DOMAIN x.imports = 1..Len(x.imports)
          BY <2>2, LenProperties
        <5>2. ASSUME NEW i \in DOMAIN x.imports PROVE FALSE
          BY <2>5, <3>1
        <5>3. Len(x.imports) = 0
          <6>1. Len(x.imports) # 0 => 1 \in DOMAIN x.imports
            BY <5>1
          <6> QED BY <5>2, <6>1
        <5> QED BY <2>2, <5>3
      <4>2. x \in [src : Versions, imports : {<<>>}]
        BY <2>1, <4>1
      <4>3. x \in PCMsOfDepth[0] /\ 0 \in 0..(h - 1)
        BY <4>2, <1>1, <1>3, DepthUnfolded
      <4> QED BY <4>3, <1>1 DEF IsHeight
    <3>2. CASE g # 0
      <4> DEFINE f == g - 1
      <4>1. f \in Nat /\ f + 1 = g /\ g \in 0..(h - 1)
        BY <3>2, <2>0, <1>1
      <4> HIDE DEF f
      <4>2. ASSUME NEW i \in DOMAIN x.imports PROVE x.imports[i] \in PCMRefs(f)
        <5> DEFINE s == x.imports[i].sig
        <5>1. s \in PCMsOfDepth[g] /\ x.imports[i] \in PCMRefs(g)
          BY <2>5 DEF PCMRefs
        <5>2. Height(s) \in Nat /\ s \in PCMsOfDepth[Height(s)] /\ Height(s) <= f
          BY <5>1, <2>0, <2>5, <4>1, HeightProperties DEF IsHeight
        <5>3. s \in PCMsOfDepth[f]
          BY <5>2, <4>1, DepthGrows
        <5> QED BY <5>1, <5>3 DEF PCMRefs
      <4>3. x.imports \in Seq(PCMRefs(f))
        <5>1. Len(x.imports) \in Nat /\ DOMAIN x.imports = 1..Len(x.imports)
              /\ x.imports = [i \in 1..Len(x.imports) |-> x.imports[i]]
          BY <2>2, LenProperties
        <5> QED BY <4>2, <5>1, IsASeq
      <4>4. x \in [src : Versions, imports : Seq(PCMRefs(f))]
        BY <2>1, <4>3
      <4>5. x \in PCMsOfDepth[g]
        BY <4>1, <4>4, DepthUnfolded
      <4> QED BY <4>1, <4>5, <1>1 DEF IsHeight
    <3> QED BY <3>1, <3>2
  <2> QED BY <1>1, <2>0, <2>2, <2>4, <2>5, <2>6
<1> QED BY <1>2, <1>3

\* A PCM that imports PCMs which are not too high is one.
LEMMA PCMMade ==
  ASSUME NEW v \in Versions, NEW s \in Seq([mod : Modules, sig : PCMs]),
         \A i \in DOMAIN s : Height(s[i].sig) < Cardinality(Modules)
  PROVE  [src |-> v, imports |-> s] \in PCMs
<1> DEFINE n == Cardinality(Modules)
           x == [src |-> v, imports |-> s]
<1>1. n \in Nat /\ MaxDepth \in Nat /\ n <= MaxDepth /\ PCMs = PCMsOfDepth[MaxDepth]
  BY MaxDepthProperties
<1>2. Len(s) \in Nat /\ DOMAIN s = 1..Len(s) /\ s = [i \in 1..Len(s) |-> s[i]]
      /\ \A i \in DOMAIN s : s[i] \in [mod : Modules, sig : PCMs]
  BY LenProperties, ElementOfSeq
<1>3. ASSUME NEW i \in DOMAIN s PROVE n # 0 /\ s[i] \in PCMRefs(n - 1)
  <2>1. s[i].sig \in PCMs /\ s[i].mod \in Modules /\ s[i] \in [mod : Modules, sig : PCMs]
    BY <1>2
  <2>2. Height(s[i].sig) \in Nat /\ s[i].sig \in PCMsOfDepth[Height(s[i].sig)]
    BY <1>1, <2>1, HeightProperties DEF IsHeight
  <2>3. n - 1 \in Nat /\ Height(s[i].sig) <= n - 1
    BY <1>1, <2>2
  <2>4. s[i].sig \in PCMsOfDepth[n - 1]
    BY <2>2, <2>3, DepthGrows
  <2> QED BY <2>1, <2>3, <2>4 DEF PCMRefs
<1>4. CASE s = <<>>
  <2>1. x \in [src : Versions, imports : {<<>>}]
    BY <1>4
  <2>2. x \in PCMsOfDepth[0]
    BY <2>1, DepthUnfolded
  <2>3. 0 <= MaxDepth
    BY <1>1
  <2>4. PCMsOfDepth[0] \subseteq PCMsOfDepth[MaxDepth]
    BY <1>1, <2>3, DepthGrows
  <2> QED BY <1>1, <2>2, <2>4
<1>5. CASE s # <<>>
  <2>1. 1 \in DOMAIN s
    BY <1>2, <1>5
  <2>2. n - 1 \in Nat /\ (n - 1) + 1 = n
    BY <1>1, <1>3, <2>1
  <2>3. s \in Seq(PCMRefs(n - 1))
    BY <1>2, <1>3, IsASeq
  <2>4. x \in [src : Versions, imports : Seq(PCMRefs(n - 1))]
    BY <2>3
  <2>5. PCMsOfDepth[(n - 1) + 1] = [src : Versions, imports : Seq(PCMRefs(n - 1))]
    BY <2>2, DepthUnfolded
  <2>6. x \in PCMsOfDepth[n] /\ PCMsOfDepth[n] \subseteq PCMsOfDepth[MaxDepth]
    BY <1>1, <2>2, <2>4, <2>5, DepthGrows
  <2> QED BY <1>1, <2>6
<1> QED BY <1>4, <1>5

-----------------------------------------------------------------------------
(* What a process knows of the PCMs it has read. *)

\* No buffer but in an entry, none that is accepted without one.
Entries(c) ==
  \A m \in Modules : /\ ~c[m].present => c[m].buffer = NoPCM /\ ~c[m].isFinal
                     /\ c[m].isFinal => c[m].present /\ c[m].buffer # NoPCM

\* A PCM r, of module m, has been accepted.
Accepted(c, m, r) == c[m].isFinal /\ c[m].buffer = r
Settled(c, chain, n) == \A j \in 1..n : Accepted(c, chain[j].mod, chain[j].pcm)

\* What has been accepted was compared with the headers, after its imports.
Finals(c, s) ==
  \A m \in Modules : c[m].isFinal =>
    /\ c[m].buffer.src = s[m]
    /\ \A i \in DOMAIN c[m].buffer.imports :
         Accepted(c, c[m].buffer.imports[i].mod, c[m].buffer.imports[i].sig)

\* The instances: each nested one builds the first import its parent has to make, and
\* no parent is in the middle of a PCM.
Building(c, s, st) ==
  /\ st # <<>> /\ st[1].mod = Nobody
  /\ \A k \in 2..Len(st) : st[k].mod \in Modules /\ s[st[k].mod] \in Versions
  /\ \A k \in 1..(Len(st) - 1) :
       /\ st[k].todo # <<>> /\ Head(st[k].todo) = st[k + 1].mod
       /\ Settled(c, st[k].chain, Len(st[k].chain))

\* The PCMs on the path: what each still has to import is what it has not got.
OnPath(c, e) ==
  LET x == c[e.mod].buffer IN
  /\ x # NoPCM /\ x.src = e.src
  /\ \A j \in DOMAIN e.todo : \E i \in DOMAIN x.imports : e.todo[j] = x.imports[i]
  /\ \A i \in DOMAIN x.imports :
       \/ Accepted(c, x.imports[i].mod, x.imports[i].sig)
       \/ \E j \in DOMAIN e.todo : e.todo[j] = x.imports[i]
OnPaths(c, pa) == \A k \in DOMAIN pa : OnPath(c, pa[k])

\* Each PCM on the path is the first one its predecessor waits for.
Nesting(c, pa) ==
  \A k \in 1..(Len(pa) - 1) :
    /\ pa[k].todo # <<>>
    /\ Head(pa[k].todo).mod = pa[k + 1].mod
    /\ Head(pa[k].todo).sig = c[pa[k + 1].mod].buffer

\* They get lower: no PCM is met again below itself.
Descending(c, pa) ==
  \A j, k \in DOMAIN pa :
    j < k => Height(c[pa[k].mod].buffer) < Height(c[pa[j].mod].buffer)

\* A ModuleManager's modules: accepted, or on the path.
Loading(c, chain, pa) ==
  \A j \in DOMAIN chain :
    /\ c[chain[j].mod].buffer = chain[j].pcm
    /\ c[chain[j].mod].isFinal \/ \E k \in DOMAIN pa : pa[k].mod = chain[j].mod

\* The innermost instance.
Reading(l, c, i, pa, b) ==
  /\ l = "rename" => i.mod # Nobody
  /\ l \notin {"import", "rename"} => i.todo # <<>>
  /\ l \notin {"read", "unwind"} => pa = <<>> /\ Settled(c, i.chain, Len(i.chain))
  /\ l \in {"read", "unwind"} => b <= Len(i.chain) /\ Settled(c, i.chain, b)
  /\ l = "unwind" => pa # <<>>
  /\ l = "read" => /\ OnPaths(c, pa)
                   /\ Nesting(c, pa) /\ Descending(c, pa)
                   /\ Loading(c, i.chain, pa)

ProcessOK(l, c, s, st, pa, b) ==
  /\ Entries(c) /\ Finals(c, s)
  /\ l \notin Ended => Building(c, s, st) /\ Reading(l, c, st[Len(st)], pa, b)

\* What is still to be imported has sources.
HasSources(st) == \A k \in DOMAIN st : st[k].todo \in Seq(Sources)

Inv ==
  /\ TypeOK
  /\ \A p \in Procs :
       /\ HasSources(stack[p])
       /\ ProcessOK(pc[p], cache[p], seen[p], stack[p], path[p], base[p])

-----------------------------------------------------------------------------
(* Of the PCMs a process has accepted, each height below the highest is the height of
   another one: they are lower than there are modules. *)

Caches == [Modules -> [present : BOOLEAN, isFinal : BOOLEAN, buffer : PCMs \cup {NoPCM}]]

LEMMA FinalHeights ==
  ASSUME NEW c \in Caches, NEW s, Entries(c), Finals(c, s), NEW m \in Modules, c[m].isFinal
  PROVE  c[m].buffer \in PCMs /\ Height(c[m].buffer) < Cardinality(Modules)
<1> DEFINE h == Height(c[m].buffer)
           Has(k) == \E x \in Modules : c[x].isFinal /\ Height(c[x].buffer) = k
           S == {n \in Nat : n <= h => Has(h - n)}
           f == [x \in Modules |-> IF c[x].isFinal THEN Height(c[x].buffer) ELSE 0]
           T == {f[x] : x \in Modules}
<1>1. ASSUME NEW x \in Modules, c[x].isFinal
      PROVE  c[x].buffer \in PCMs /\ Height(c[x].buffer) \in Nat
  <2>1. c[x].buffer \in PCMs
    BY <1>1 DEF Caches, Entries
  <2> QED BY <2>1, PCMProperties
<1>2. h \in Nat
  BY <1>1
<1>3. 0 \in S
  BY <1>2
<1>4. ASSUME NEW n \in S PROVE n + 1 \in S
  <2> SUFFICES ASSUME n + 1 <= h PROVE Has(h - (n + 1))
    OBVIOUS
  <2>1. PICK x \in Modules : c[x].isFinal /\ Height(c[x].buffer) = h - n
    BY <1>2
  <2> DEFINE b == c[x].buffer
  <2>2. b \in PCMs /\ Height(b) > 0 /\ Height(b) - 1 = h - (n + 1)
    BY <1>1, <1>2, <2>1
  <2>3. PICK i \in DOMAIN b.imports : Height(b.imports[i].sig) = Height(b) - 1
    BY <2>2, PCMProperties
  <2>4. b.imports[i] \in [mod : Modules, sig : PCMs]
    BY <2>2, <2>3, PCMProperties
  <2>5. Accepted(c, b.imports[i].mod, b.imports[i].sig)
    BY <2>1, <2>3 DEF Finals
  <2> QED BY <2>2, <2>3, <2>4, <2>5 DEF Accepted
<1> HIDE DEF S
<1>5. S = Nat
  <2>1. S \in SUBSET Nat
    BY DEF S
  <2> QED BY <2>1, <1>3, <1>4, SetInduction
<1>6. 0..h \subseteq T
  <2> SUFFICES ASSUME NEW k \in 0..h PROVE k \in T
    OBVIOUS
  <2>1. h - k \in Nat /\ h - k <= h /\ h - (h - k) = k
    BY <1>2
  <2>2. Has(k)
    BY <1>5, <2>1 DEF S
  <2> QED BY <2>2
<1>7. f \in Surjection(Modules, T)
  BY DEF Surjection
<1> HIDE DEF f, T, h
<1>8. IsFiniteSet(T) /\ Cardinality(T) <= Cardinality(Modules)
  BY <1>7, FS_Surjection, ModulesAssumption
<1>9. Cardinality(0..h) = h + 1 /\ Cardinality(0..h) <= Cardinality(T)
      /\ Cardinality(T) \in Nat /\ Cardinality(Modules) \in Nat
  <2>1. Cardinality(0..h) = h + 1
    BY <1>2, FS_Interval
  <2>2. Cardinality(0..h) <= Cardinality(T)
    BY <1>6, <1>8, FS_Subset
  <2> QED BY <2>1, <2>2, <1>8, ModulesAssumption, FS_CardinalityType
<1>10. h < Cardinality(Modules)
  BY <1>2, <1>8, <1>9
<1> QED BY <1>1, <1>10 DEF h

-----------------------------------------------------------------------------
(* Sequences: what the model does to chains, paths and stacks. *)

\* The direct modules of a chain are modules of it.
LEMMA DirectProperties ==
  ASSUME NEW S, NEW chain \in Seq(S)
  PROVE  /\ Direct(chain) \in Seq(S)
         /\ \A i \in DOMAIN Direct(chain) : \E j \in 1..Len(chain) : Direct(chain)[i] = chain[j]
<1> DEFINE D(f, k) == IF k = 0 THEN <<>>
                      ELSE IF chain[k].direct THEN Append(f[k - 1], chain[k]) ELSE f[k - 1]
           Upto(n, f) == f = [k \in 0..n |-> D(f, k)]
           first == CHOOSE f : Upto(Len(chain), f)
           From(s) == /\ s \in Seq(S)
                      /\ \A i \in DOMAIN s : \E j \in 1..Len(chain) : s[i] = chain[j]
<1>0. Len(chain) \in Nat /\ \A k \in 1..Len(chain) : chain[k] \in S
  BY LenProperties, ElementOfSeq
<1>1. ASSUME NEW f, NEW g, NEW n \in Nat, n # 0 => f[n - 1] = g[n - 1]
      PROVE  D(f, n) = D(g, n)
  BY <1>1
<1>2. \A n \in Nat : \E f : Upto(n, f)
  <2> DEFINE N == {n \in Nat : \E f : Upto(n, f)}
  <2> HIDE DEF D
  <2>1. 0 \in N
    <3> DEFINE f == [i \in 0..0 |-> D(<<>>, i)]
    <3>1. f = [i \in 0..0 |-> D(f, i)]
      BY <1>1
    <3> QED BY <3>1
  <2>2. ASSUME NEW n \in N PROVE n + 1 \in N
    <3>1. PICK f : Upto(n, f)
      OBVIOUS
    <3> DEFINE g == [i \in 0..(n + 1) |-> IF i <= n THEN f[i] ELSE D(f, i)]
    <3>2. ASSUME NEW i \in 0..(n + 1) PROVE g[i] = D(g, i)
      <4>1. g[i] = D(f, i)
        <5>1. CASE i <= n
          <6> DEFINE k == [x \in 0..n |-> D(f, x)]
          <6>1. f = k
            BY <3>1
          <6>2. k[i] = D(f, i)
            BY <5>1
          <6> QED BY <6>1, <6>2, <5>1
        <5> QED BY <5>1
      <4>2. i # 0 => g[i - 1] = f[i - 1]
        OBVIOUS
      <4> HIDE DEF g
      <4>3. i \in Nat
        OBVIOUS
      <4> QED BY <4>1, <4>2, <4>3, <1>1
    <3>3. Upto(n + 1, g)
      BY <3>2
    <3> HIDE DEF g
    <3>4. \E k : Upto(n + 1, k)
      BY <3>3
    <3> QED BY <3>4
  <2> HIDE DEF N
  <2>3. N = Nat
    <3>1. N \in SUBSET Nat
      BY DEF N
    <3> QED BY <3>1, <2>1, <2>2, SetInduction
  <2> QED BY <2>3 DEF N
<1>3. first = [k \in 0..Len(chain) |-> D(first, k)]
  BY <1>0, <1>2
<1>4. Direct(chain) = first[Len(chain)]
  BY DEF Direct
<1> HIDE DEF first
<1>5. ASSUME NEW k \in 0..Len(chain) PROVE first[k] = D(first, k)
  <2> DEFINE g == [x \in 0..Len(chain) |-> D(first, x)]
  <2>1. first = g
    BY <1>3
  <2>2. g[k] = D(first, k)
    OBVIOUS
  <2> QED BY <2>1, <2>2
<1> DEFINE P == {k \in Nat : k <= Len(chain) => From(first[k])}
<1>6. 0 \in P
  <2>1. first[0] = <<>>
    BY <1>0, <1>5
  <2>2. <<>> \in Seq(S) /\ DOMAIN <<>> = {}
    BY EmptySeq
  <2>3. From(<<>>)
    BY <2>2
  <2> HIDE DEF From
  <2> QED BY <2>1, <2>3
<1>7. ASSUME NEW k \in P PROVE k + 1 \in P
  <2> SUFFICES ASSUME k + 1 <= Len(chain) PROVE From(first[k + 1])
    OBVIOUS
  <2> DEFINE s == first[k]
  <2>1. From(s)
    BY <1>0
  <2>2. k + 1 \in 1..Len(chain) /\ (k + 1) - 1 = k /\ k + 1 # 0 /\ k + 1 \in 0..Len(chain)
    BY <1>0
  <2>3. first[k + 1] = IF chain[k + 1].direct THEN Append(s, chain[k + 1]) ELSE s
    BY <1>5, <2>2
  <2> HIDE DEF s
  <2>4. chain[k + 1] \in S
    BY <1>0, <2>2
  <2>5. From(Append(s, chain[k + 1]))
    <3> DEFINE t == Append(s, chain[k + 1])
    <3>1. t \in Seq(S) /\ Len(t) = Len(s) + 1 /\ t[Len(s) + 1] = chain[k + 1]
          /\ \A i \in 1..Len(s) : t[i] = s[i]
      BY <2>1, <2>4, AppendProperties
    <3>2. Len(s) \in Nat /\ DOMAIN s = 1..Len(s) /\ DOMAIN t = 1..(Len(s) + 1)
      BY <2>1, <3>1, LenProperties
    <3> HIDE DEF t
    <3>3. ASSUME NEW i \in DOMAIN t PROVE \E j \in 1..Len(chain) : t[i] = chain[j]
      <4>1. CASE i = Len(s) + 1
        BY <4>1, <3>1, <2>2
      <4>2. CASE i # Len(s) + 1
        <5>1. i \in DOMAIN s /\ t[i] = s[i]
          BY <4>2, <3>1, <3>2
        <5> QED BY <5>1, <2>1
      <4> QED BY <4>1, <4>2
    <3> QED BY <3>1, <3>3 DEF t
  <2> QED BY <2>1, <2>3, <2>5
<1> HIDE DEF P
<1>8. P = Nat
  <2>1. P \in SUBSET Nat
    BY DEF P
  <2> QED BY <2>1, <1>6, <1>7, SetInduction
<1>9. From(first[Len(chain)])
  BY <1>0, <1>8 DEF P
<1> QED BY <1>4, <1>9

LEMMA FrontProperties ==
  ASSUME NEW S, NEW s \in Seq(S), s # <<>>
  PROVE  /\ Len(s) \in Nat \ {0} /\ DOMAIN s = 1..Len(s) /\ Last(s) \in S
         /\ Front(s) \in Seq(S) /\ Len(Front(s)) = Len(s) - 1
         /\ \A i \in 1..(Len(s) - 1) : Front(s)[i] = s[i]
<1>1. Len(s) \in Nat \ {0} /\ DOMAIN s = 1..Len(s) /\ \A i \in 1..Len(s) : s[i] \in S
  BY EmptySeq, LenProperties, ElementOfSeq
<1>2. /\ SubSeq(s, 1, Len(s) - 1) \in Seq(S)
      /\ Len(SubSeq(s, 1, Len(s) - 1)) = Len(s) - 1
      /\ \A i \in 1..(Len(s) - 1) : SubSeq(s, 1, Len(s) - 1)[i] = s[i]
  <2>1. 1 \in Int /\ Len(s) - 1 \in Int /\ \A i \in 1..(Len(s) - 1) : s[i] \in S
    BY <1>1
  <2>2. /\ SubSeq(s, 1, Len(s) - 1) \in Seq(S)
        /\ Len(SubSeq(s, 1, Len(s) - 1))
             = IF 1 <= Len(s) - 1 THEN (Len(s) - 1) - 1 + 1 ELSE 0
        /\ \A i \in 1..((Len(s) - 1) - 1 + 1) :
             SubSeq(s, 1, Len(s) - 1)[i] = s[1 + i - 1]
    BY <2>1, SubSeqProperties
  <2> QED BY <1>1, <2>2
<1> QED BY <1>1, <1>2 DEF Front, Last

LEMMA ReplaceLast ==
  ASSUME NEW S, NEW s \in Seq(S), s # <<>>, NEW e \in S
  PROVE  /\ Append(Front(s), e) \in Seq(S) /\ Len(Append(Front(s), e)) = Len(s)
         /\ Append(Front(s), e) # <<>>
         /\ \A i \in 1..(Len(s) - 1) : Append(Front(s), e)[i] = s[i]
         /\ Append(Front(s), e)[Len(s)] = e
BY FrontProperties, AppendProperties

-----------------------------------------------------------------------------
(* What a change of the cache, and a look at a header, leave as it was. *)

Chains == Seq([mod : Modules, pcm : PCMs, direct : BOOLEAN])
Todos == Seq([mod : Modules, sig : PCMs])
Paths == Seq([mod : Modules, src : Versions, todo : Todos])
Seens == [Modules -> Versions \cup {Unseen}]

KeepsFinals(c, d) ==
  \A m \in Modules : c[m].isFinal => d[m].isFinal /\ d[m].buffer = c[m].buffer
KeepsBuffers(c, d) ==
  \A m \in Modules : c[m].buffer # NoPCM => d[m].buffer = c[m].buffer
StillSeen(s, t) == \A m \in Modules : s[m] # Unseen => t[m] = s[m]

LEMMA ImportsTyped ==
  ASSUME NEW x \in PCMs, NEW i \in DOMAIN x.imports
  PROVE  x.imports[i].mod \in Modules /\ x.imports[i].sig \in PCMs
<1>1. x.imports[i] \in [mod : Modules, sig : PCMs]
  BY PCMProperties
<1> QED BY <1>1

\* The new final PCMs have to be checked.
LEMMA FinalsKept ==
  ASSUME NEW c \in Caches, NEW d \in Caches, NEW s \in Seens, NEW t \in Seens,
         Entries(c), Finals(c, s), Entries(d), KeepsFinals(c, d), StillSeen(s, t),
         \A m \in Modules : d[m].isFinal /\ ~c[m].isFinal =>
           /\ d[m].buffer.src = t[m]
           /\ \A i \in DOMAIN d[m].buffer.imports :
                Accepted(c, d[m].buffer.imports[i].mod, d[m].buffer.imports[i].sig)
  PROVE  Finals(d, t)
<1> SUFFICES ASSUME NEW m \in Modules, d[m].isFinal
             PROVE  /\ d[m].buffer.src = t[m]
                    /\ \A i \in DOMAIN d[m].buffer.imports :
                         Accepted(d, d[m].buffer.imports[i].mod, d[m].buffer.imports[i].sig)
  BY DEF Finals
<1> DEFINE x == d[m].buffer
<1>1. x \in PCMs
  BY DEF Caches, Entries
<1>2. x.src = t[m]
  <2>1. CASE c[m].isFinal
    <3>1. c[m].buffer = x /\ x.src = s[m]
      BY <2>1 DEF KeepsFinals, Finals
    <3>2. x.src \in Versions /\ x.src # Unseen
      BY <1>1, PCMProperties, ModulesAssumption
    <3> QED BY <3>1, <3>2 DEF StillSeen
  <2> QED BY <2>1
<1>3. ASSUME NEW i \in DOMAIN x.imports
      PROVE  Accepted(d, x.imports[i].mod, x.imports[i].sig)
  <2>1. Accepted(c, x.imports[i].mod, x.imports[i].sig)
    <3>1. CASE c[m].isFinal
      <4>1. c[m].buffer = x
        BY <3>1 DEF KeepsFinals
      <4> QED BY <3>1, <4>1, <1>3 DEF Finals
    <3> QED BY <3>1, <1>3
  <2>2. x.imports[i].mod \in Modules
    BY <1>1, ImportsTyped
  <2> QED BY <2>1, <2>2 DEF Accepted, KeepsFinals
<1> QED BY <1>2, <1>3

LEMMA SettledKept ==
  ASSUME NEW c, NEW d, KeepsFinals(c, d), NEW chain \in Chains,
         NEW n \in 0..Len(chain), Settled(c, chain, n)
  PROVE  Settled(d, chain, n)
<1>1. ASSUME NEW j \in 1..n PROVE chain[j].mod \in Modules
  <2>1. j \in 1..Len(chain)
    BY LenProperties DEF Chains
  <2>2. chain[j] \in [mod : Modules, pcm : PCMs, direct : BOOLEAN]
    BY <2>1, ElementOfSeq DEF Chains
  <2> QED BY <2>2
<1> QED BY <1>1 DEF Settled, Accepted, KeepsFinals

LEMMA InstancesTyped ==
  ASSUME NEW st \in Seq(Instances), NEW k \in 1..Len(st)
  PROVE  /\ st[k] \in Instances /\ st[k].todo \in Seq(Modules) /\ st[k].chain \in Chains
         /\ Len(st[k].chain) \in Nat /\ DOMAIN st[k].chain = 1..Len(st[k].chain)
         /\ st[k].mod \in Modules \cup {Nobody}
         /\ \A j \in 1..Len(st[k].chain) :
              st[k].chain[j].mod \in Modules /\ st[k].chain[j].pcm \in PCMs
<1>1. st[k] \in Instances
  BY ElementOfSeq
<1>2. st[k].todo \in Seq(Modules) /\ st[k].chain \in Chains
      /\ st[k].mod \in Modules \cup {Nobody}
  BY <1>1 DEF Instances, Chains
<1>3. ASSUME NEW j \in 1..Len(st[k].chain)
      PROVE  st[k].chain[j] \in [mod : Modules, pcm : PCMs, direct : BOOLEAN]
  BY <1>2, ElementOfSeq DEF Chains
<1>4. \A j \in 1..Len(st[k].chain) :
        st[k].chain[j].mod \in Modules /\ st[k].chain[j].pcm \in PCMs
  BY <1>3
<1> QED BY <1>1, <1>2, <1>4, LenProperties DEF Chains

LEMMA BuildingKept ==
  ASSUME NEW c, NEW d, NEW s \in Seens, NEW t \in Seens, NEW st \in Seq(Instances),
         KeepsFinals(c, d), StillSeen(s, t), Building(c, s, st)
  PROVE  Building(d, t, st)
<1>0. Len(st) \in Nat
  BY LenProperties
<1>1. ASSUME NEW k \in 2..Len(st) PROVE st[k].mod \in Modules /\ t[st[k].mod] \in Versions
  <2>1. st[k].mod \in Modules /\ s[st[k].mod] \in Versions
    BY DEF Building
  <2> QED BY <2>1, ModulesAssumption DEF StillSeen
<1>2. ASSUME NEW k \in 1..(Len(st) - 1) PROVE Settled(d, st[k].chain, Len(st[k].chain))
  <2>1. k \in 1..Len(st) /\ Settled(c, st[k].chain, Len(st[k].chain))
    BY <1>0 DEF Building
  <2>2. st[k].chain \in Chains /\ Len(st[k].chain) \in 0..Len(st[k].chain)
    BY <2>1, InstancesTyped
  <2> QED BY <2>1, <2>2, SettledKept
<1> QED BY <1>1, <1>2 DEF Building

LEMMA PathsTyped ==
  ASSUME NEW pa \in Paths, NEW k \in DOMAIN pa
  PROVE  /\ pa[k].mod \in Modules /\ pa[k].src \in Versions /\ pa[k].todo \in Todos
         /\ \A j \in DOMAIN pa[k].todo :
              pa[k].todo[j].mod \in Modules /\ pa[k].todo[j].sig \in PCMs
<1>1. pa[k] \in [mod : Modules, src : Versions, todo : Todos]
  <2>1. DOMAIN pa = 1..Len(pa)
    BY LenProperties DEF Paths
  <2> QED BY <2>1, ElementOfSeq DEF Paths
<1>2. pa[k].todo \in Todos
  BY <1>1
<1>3. ASSUME NEW j \in DOMAIN pa[k].todo
      PROVE  pa[k].todo[j] \in [mod : Modules, sig : PCMs]
  <2>1. DOMAIN pa[k].todo = 1..Len(pa[k].todo)
    BY <1>2, LenProperties DEF Todos
  <2> QED BY <1>2, <2>1, ElementOfSeq DEF Todos
<1> QED BY <1>1, <1>2, <1>3

LEMMA OnPathKept ==
  ASSUME NEW c \in Caches, NEW d \in Caches, NEW pa \in Paths, NEW k \in DOMAIN pa,
         KeepsFinals(c, d), KeepsBuffers(c, d), OnPath(c, pa[k])
  PROVE  OnPath(d, pa[k])
<1> DEFINE x == c[pa[k].mod].buffer
<1>1. pa[k].mod \in Modules
  BY PathsTyped
<1>2. d[pa[k].mod].buffer = x /\ x \in PCMs
  BY <1>1 DEF KeepsBuffers, OnPath, Caches
<1>3. ASSUME NEW i \in DOMAIN x.imports, Accepted(c, x.imports[i].mod, x.imports[i].sig)
      PROVE  Accepted(d, x.imports[i].mod, x.imports[i].sig)
  <2>1. x.imports[i].mod \in Modules
    BY <1>2, ImportsTyped
  <2> QED BY <1>3, <2>1 DEF Accepted, KeepsFinals
<1> QED BY <1>2, <1>3 DEF OnPath

LEMMA PathKept ==
  ASSUME NEW c \in Caches, NEW d \in Caches, NEW pa \in Paths,
         KeepsFinals(c, d), KeepsBuffers(c, d),
         OnPaths(c, pa), Nesting(c, pa), Descending(c, pa)
  PROVE  OnPaths(d, pa) /\ Nesting(d, pa) /\ Descending(d, pa)
<1>1. ASSUME NEW k \in DOMAIN pa PROVE d[pa[k].mod].buffer = c[pa[k].mod].buffer
  BY PathsTyped DEF KeepsBuffers, OnPath, OnPaths
<1>2. Len(pa) \in Nat /\ DOMAIN pa = 1..Len(pa)
  BY LenProperties DEF Paths
<1>3. Nesting(d, pa)
  BY <1>1, <1>2 DEF Nesting
<1>4. Descending(d, pa)
  BY <1>1 DEF Descending
<1> QED BY <1>3, <1>4, OnPathKept DEF OnPaths

LEMMA LoadingKept ==
  ASSUME NEW c \in Caches, NEW d \in Caches, NEW pa, NEW chain \in Chains,
         KeepsFinals(c, d), KeepsBuffers(c, d), Loading(c, chain, pa)
  PROVE  Loading(d, chain, pa)
<1>1. ASSUME NEW j \in DOMAIN chain
      PROVE  chain[j].mod \in Modules /\ chain[j].pcm \in PCMs
  <2>1. DOMAIN chain = 1..Len(chain)
    BY LenProperties DEF Chains
  <2>2. chain[j] \in [mod : Modules, pcm : PCMs, direct : BOOLEAN]
    BY <2>1, ElementOfSeq DEF Chains
  <2> QED BY <2>2
<1> QED BY <1>1, PCMsAssumption DEF Loading, KeepsFinals, KeepsBuffers

-----------------------------------------------------------------------------
(* One process's step. *)

\* Nothing of another process changes.
Local(p) ==
  /\ project' = project
  /\ pc' = [pc EXCEPT ![p] = pc'[p]]
  /\ cache' = [cache EXCEPT ![p] = cache'[p]]
  /\ known' = [known EXCEPT ![p] = known'[p]]
  /\ seen' = [seen EXCEPT ![p] = seen'[p]]
  /\ failed' = [failed EXCEPT ![p] = failed'[p]]
  /\ stack' = [stack EXCEPT ![p] = stack'[p]]
  /\ path' = [path EXCEPT ![p] = path'[p]]
  /\ base' = [base EXCEPT ![p] = base'[p]]
  /\ attempt' = [attempt EXCEPT ![p] = attempt'[p]]
  /\ result' = [result EXCEPT ![p] = result'[p]]
  /\ waitsFor' = [waitsFor EXCEPT ![p] = waitsFor'[p]]

SharedTypes ==
  /\ header \in [Modules -> Versions]
  /\ disk \in [Modules -> PCMs \cup {NoPCM}]
  /\ lock \in [Modules -> Procs \cup {Nobody}]

\* The small variables, and those whose values are built up.
SmallTypes(p) ==
  /\ pc[p] \in Pcs /\ known[p] \in SUBSET Modules /\ failed[p] \in SUBSET Modules
  /\ attempt[p] \in {"first", "owned", "error", "waited"}
  /\ result[p] \in {"Success", "OutOfDate", "Missing"}
  /\ waitsFor[p] \in Procs \cup {Nobody}
LargeTypes(p) ==
  /\ cache[p] \in Caches /\ seen[p] \in Seens /\ stack[p] \in Seq(Instances)
  /\ path[p] \in Paths /\ base[p] \in Nat

OK(p) ==
  /\ HasSources(stack[p])
  /\ ProcessOK(pc[p], cache[p], seen[p], stack[p], path[p], base[p])

LEMMA TypesSplit ==
  TypeOK => /\ project \in Projects /\ SharedTypes
            /\ \A p \in Procs : SmallTypes(p) /\ LargeTypes(p)
BY DEF TypeOK, SharedTypes, SmallTypes, LargeTypes, Caches, Seens, Paths, Todos

LEMMA InvKept ==
  ASSUME Inv, NEW p \in Procs, Local(p), SharedTypes', SmallTypes(p)', LargeTypes(p)', OK(p)'
  PROVE  Inv'
<1>0. TypeOK /\ project' = project /\ Sources' = Sources
  BY DEF Inv, Local, Sources
<1>1. TypeOK'
  <2>1. project' \in Projects
    BY <1>0 DEF TypeOK
  <2>2. header' \in [Modules -> Versions] /\ disk' \in [Modules -> PCMs \cup {NoPCM}]
        /\ lock' \in [Modules -> Procs \cup {Nobody}]
    BY DEF SharedTypes
  <2>3. pc' \in [Procs -> Pcs] /\ known' \in [Procs -> SUBSET Modules]
    BY <1>0 DEF TypeOK, Local, SmallTypes
  <2>4. failed' \in [Procs -> SUBSET Modules]
    BY <1>0 DEF TypeOK, Local, SmallTypes
  <2>5. attempt' \in [Procs -> {"first", "owned", "error", "waited"}]
    BY <1>0 DEF TypeOK, Local, SmallTypes
  <2>6. result' \in [Procs -> {"Success", "OutOfDate", "Missing"}]
    BY <1>0 DEF TypeOK, Local, SmallTypes
  <2>7. waitsFor' \in [Procs -> Procs \cup {Nobody}]
    BY <1>0 DEF TypeOK, Local, SmallTypes
  <2>8. cache' \in [Procs -> Caches]
    <3>1. cache \in [Procs -> Caches] /\ cache'[p] \in Caches
      BY <1>0 DEF TypeOK, LargeTypes, Caches
    <3> QED BY <3>1 DEF Local
  <2>9. seen' \in [Procs -> Seens]
    <3>1. seen \in [Procs -> Seens] /\ seen'[p] \in Seens
      BY <1>0 DEF TypeOK, LargeTypes, Seens
    <3> QED BY <3>1 DEF Local
  <2>10. stack' \in [Procs -> Seq(Instances)]
    <3>1. stack \in [Procs -> Seq(Instances)] /\ stack'[p] \in Seq(Instances)
      BY <1>0 DEF TypeOK, LargeTypes
    <3> QED BY <3>1 DEF Local
  <2>11. path' \in [Procs -> Paths]
    <3>1. path \in [Procs -> Paths] /\ path'[p] \in Paths
      BY <1>0 DEF TypeOK, LargeTypes, Paths, Todos
    <3> QED BY <3>1 DEF Local
  <2>12. base' \in [Procs -> Nat]
    BY <1>0 DEF TypeOK, Local, LargeTypes
  <2> QED BY <2>1, <2>2, <2>3, <2>4, <2>5, <2>6, <2>7, <2>8, <2>9, <2>10, <2>11, <2>12
      DEF TypeOK, Caches, Seens, Paths, Todos
<1>2. ASSUME NEW q \in Procs PROVE OK(q)'
  <2>1. CASE q = p
    BY <2>1
  <2>2. CASE q # p
    <3>1. /\ pc'[q] = pc[q] /\ cache'[q] = cache[q] /\ seen'[q] = seen[q]
          /\ stack'[q] = stack[q] /\ path'[q] = path[q] /\ base'[q] = base[q]
      BY <1>0, <2>2 DEF TypeOK, Local
    <3>2. HasSources(stack[q])'
      BY <1>0, <3>1 DEF Inv, HasSources
    <3> QED BY <3>1, <3>2 DEF OK, Inv
  <2> QED BY <2>1, <2>2
<1> QED BY <1>1, <1>2 DEF Inv, OK

\* What is known of a process that has not ended.
Running(p) ==
  /\ SharedTypes /\ SmallTypes(p) /\ LargeTypes(p)
  /\ HasSources(stack[p]) /\ Entries(cache[p]) /\ Finals(cache[p], seen[p])
  /\ Building(cache[p], seen[p], stack[p])
  /\ Reading(pc[p], cache[p], Current(p), path[p], base[p])
  /\ Len(stack[p]) \in Nat \ {0} /\ stack[p] # <<>>
  /\ Current(p) = stack[p][Len(stack[p])] /\ Current(p) \in Instances
  /\ Current(p).chain \in Chains /\ Len(Current(p).chain) \in Nat
  /\ Current(p).todo \in Seq(Sources) /\ Current(p).todo \in Seq(Modules)
  /\ Current(p).todo # <<>> =>
       /\ Goal(p) \in Sources /\ Goal(p) \in Modules
       /\ Tail(Current(p).todo) \in Seq(Sources) /\ Tail(Current(p).todo) \in Seq(Modules)

LEMMA RunningProcess ==
  ASSUME Inv, NEW p \in Procs, pc[p] \notin Ended
  PROVE  Running(p)
<1>1. /\ SharedTypes /\ SmallTypes(p) /\ LargeTypes(p)
      /\ HasSources(stack[p]) /\ Entries(cache[p]) /\ Finals(cache[p], seen[p])
      /\ Building(cache[p], seen[p], stack[p])
      /\ Reading(pc[p], cache[p], stack[p][Len(stack[p])], path[p], base[p])
  BY TypesSplit DEF Inv, ProcessOK
<1>2. stack[p] \in Seq(Instances) /\ stack[p] # <<>>
  BY <1>1 DEF LargeTypes, Building
<1>3. Len(stack[p]) \in Nat \ {0} /\ DOMAIN stack[p] = 1..Len(stack[p])
  BY <1>2, EmptySeq, LenProperties
<1>4. Current(p) = stack[p][Len(stack[p])]
  BY DEF Current, Last
<1>5. /\ Current(p) \in Instances /\ Current(p).chain \in Chains
      /\ Len(Current(p).chain) \in Nat /\ Current(p).todo \in Seq(Modules)
  BY <1>2, <1>3, <1>4, InstancesTyped
<1>6. Current(p).todo \in Seq(Sources)
  BY <1>1, <1>3, <1>4 DEF HasSources
<1>7. Current(p).todo # <<>> =>
       /\ Goal(p) \in Sources /\ Goal(p) \in Modules
       /\ Tail(Current(p).todo) \in Seq(Sources) /\ Tail(Current(p).todo) \in Seq(Modules)
  BY <1>5, <1>6, HeadTailProperties DEF Goal
<1> QED BY <1>1, <1>2, <1>3, <1>4, <1>5, <1>6, <1>7 DEF Running

-----------------------------------------------------------------------------
(* The initial states. *)

LEMMA InitInv == Init => Inv
<1> SUFFICES ASSUME Init PROVE Inv
  OBVIOUS
<1>0. project \in Projects /\ Sources \subseteq Modules
  BY ModulesAssumption DEF Init, Sources
<1>1. /\ EmptyCache \in Caches
      /\ \A m \in Modules : EmptyCache[m] = [present |-> FALSE, buffer |-> NoPCM, isFinal |-> FALSE]
  BY DEF EmptyCache, Absent, Caches
<1>2. ASSUME NEW p \in Procs
      PROVE  /\ MainInstance(p) \in Instances /\ MainInstance(p).todo \in Seq(Sources)
             /\ MainInstance(p).mod = Nobody /\ MainInstance(p).chain = <<>>
  <2>1. MainImports[project][p] \in Seq(Sources)
    BY <1>0, ModulesAssumption DEF Sources
  <2>2. MainImports[project][p] \in Seq(Modules)
    BY <1>0, <2>1, SeqMonotonic
  <2>3. <<>> \in Seq([mod : Modules, pcm : PCMs, direct : BOOLEAN])
    OBVIOUS
  <2> QED BY <2>1, <2>2, <2>3 DEF MainInstance, Instances
<1>3. ASSUME NEW p \in Procs
      PROVE  /\ stack[p] = <<MainInstance(p)>> /\ stack[p] \in Seq(Instances)
             /\ Len(stack[p]) = 1 /\ DOMAIN stack[p] = 1..1 /\ stack[p][1] = MainInstance(p)
  BY <1>2 DEF Init
<1>4. disk \in [Modules -> PCMs \cup {NoPCM}]
  <2>1. ASSUME NEW m \in Modules PROVE disk[m] \in PCMs \cup {NoPCM}
    <3>1. CASE disk[m] # NoPCM
      <4>1. m \in Sources /\ disk[m] \in LeftPCMs[project][m]
        BY <3>1 DEF Init
      <4> QED BY <4>1, <1>0, PCMsAssumption DEF Sources
    <3> QED BY <3>1
  <2> QED BY <2>1 DEF Init
<1>5. TypeOK
  <2>1. cache \in [Procs -> Caches]
    BY <1>1 DEF Init
  <2>2. stack \in [Procs -> Seq(Instances)]
    BY <1>3 DEF Init
  <2>3. path \in [Procs -> Paths]
    BY DEF Init, Paths
  <2>4. seen \in [Procs -> [Modules -> Versions \cup {Unseen}]]
    BY DEF Init
  <2>5. pc \in [Procs -> Pcs]
    BY DEF Init, Pcs
  <2> QED BY <2>1, <2>2, <2>3, <2>4, <2>5, <1>4 DEF Init, TypeOK, Caches, Paths, Todos
<1>6. ASSUME NEW p \in Procs PROVE OK(p)
  <2>1. HasSources(stack[p])
    BY <1>2, <1>3 DEF HasSources
  <2>2. cache[p] = EmptyCache /\ pc[p] = "import" /\ path[p] = <<>> /\ base[p] = 0
    BY DEF Init
  <2>3. Entries(EmptyCache) /\ Finals(EmptyCache, seen[p])
    BY <1>1 DEF Entries, Finals
  <2>4. Building(EmptyCache, seen[p], stack[p])
    <3>1. Len(stack[p]) = 1 /\ 2..1 = {} /\ 1..(1 - 1) = {}
      BY <1>3
    <3> QED BY <1>2, <1>3, <3>1 DEF Building
  <2>5. Reading("import", EmptyCache, stack[p][Len(stack[p])], <<>>, 0)
    <3>1. stack[p][Len(stack[p])].chain = <<>> /\ 1..Len(<<>>) = {}
      BY <1>2, <1>3
    <3> QED BY <3>1 DEF Reading, Settled
  <2> QED BY <2>1, <2>2, <2>3, <2>4, <2>5 DEF OK, ProcessOK
<1> QED BY <1>5, <1>6 DEF Inv, OK

-----------------------------------------------------------------------------
(* The steps that only turn to something else. *)

LEMMA StartsReading ==
  ASSUME NEW c, NEW i, i.todo # <<>>, Len(i.chain) \in Nat, DOMAIN i.chain = 1..Len(i.chain),
         Settled(c, i.chain, Len(i.chain))
  PROVE  Reading("read", c, i, <<>>, Len(i.chain))
<1>1. DOMAIN <<>> = {} /\ 1..(Len(<<>>) - 1) = {}
  OBVIOUS
<1>2. Loading(c, i.chain, <<>>)
  BY DEF Loading, Settled, Accepted
<1> QED BY <1>1, <1>2 DEF Reading, Nesting, Descending, OnPaths

\* A look at a header.
LEMMA StatSees ==
  ASSUME Inv, NEW p \in Procs, NEW m \in Modules
  PROVE  /\ Stat(p, m) \in Seens /\ StillSeen(seen[p], Stat(p, m))
         /\ Stat(p, m)[m] \in Versions
         /\ StillSeen(seen[p], seen[p])
BY DEF Inv, TypeOK, Stat, Seens, StillSeen

\* The steps of a process that change neither cache nor instances.
LEMMA Turns ==
  ASSUME Inv, NEW p \in Procs, Running(p),
         Local(p), SharedTypes', SmallTypes(p)',
         UNCHANGED <<cache, stack, path>>, base'[p] \in Nat,
         seen'[p] \in Seens, StillSeen(seen[p], seen'[p]),
         pc'[p] \notin Ended => Reading(pc'[p], cache[p], Current(p), path[p], base'[p])
  PROVE  Inv'
<1>1. /\ cache[p] \in Caches /\ seen[p] \in Seens /\ stack[p] \in Seq(Instances)
      /\ path[p] \in Paths
  BY DEF Running, LargeTypes
<1>2. LargeTypes(p)'
  BY <1>1 DEF LargeTypes
<1>3. KeepsFinals(cache[p], cache[p])
  BY DEF KeepsFinals
<1>4. Finals(cache[p], seen'[p]) /\ Building(cache[p], seen'[p], stack[p])
  BY <1>1, <1>3, FinalsKept, BuildingKept DEF Running
<1>5. HasSources(stack[p])'
  BY DEF Running, HasSources, Local, Sources
<1>6. OK(p)'
  BY <1>4, <1>5 DEF OK, ProcessOK, Running
<1> QED BY <1>2, <1>6, InvKept

LEMMA BeginImportStep ==
  ASSUME Inv, NEW p \in Procs, BeginImport(p), UNCHANGED project
  PROVE  Inv'
<1>1. Running(p)
  BY RunningProcess DEF BeginImport, Ended
<1>2. Goal(p) \in Modules /\ Len(Current(p).chain) \in Nat
  BY <1>1 DEF Running, BeginImport
<1>3. PICK s \in {seen[p], Stat(p, Goal(p))} : seen' = [seen EXCEPT ![p] = s]
  BY DEF BeginImport
<1>4. /\ seen'[p] \in Seens /\ StillSeen(seen[p], seen'[p])
      /\ seen' = [seen EXCEPT ![p] = seen'[p]]
  <2>1. seen'[p] = s
    BY <1>3 DEF Inv, TypeOK
  <2>2. s \in Seens /\ StillSeen(seen[p], s)
    BY <1>1, <1>2, StatSees DEF Running, LargeTypes
  <2> QED BY <1>3, <2>1, <2>2
<1>5. Local(p)
  BY <1>4 DEF Local, BeginImport, StartRead, Goto, Inv, TypeOK
<1>6. SharedTypes' /\ SmallTypes(p)'
  BY <1>1 DEF Running, SharedTypes, SmallTypes, Inv, TypeOK, BeginImport, StartRead, Goto, sharedVars, Pcs
<1>7. Reading("read", cache[p], Current(p), <<>>, Len(Current(p).chain))
  BY <1>1, StartsReading, LenProperties DEF Running, BeginImport, Reading, Chains
<1>8. pc'[p] = "read" /\ base'[p] = Len(Current(p).chain) /\ path[p] = <<>>
  BY <1>1 DEF BeginImport, StartRead, Goto, Inv, TypeOK, Running, Reading
<1> QED BY <1>1, <1>2, <1>4, <1>5, <1>6, <1>7, <1>8, Turns DEF BeginImport

LEMMA TryAgainStep ==
  ASSUME Inv, NEW p \in Procs, TryAgain(p), UNCHANGED project
  PROVE  Inv'
<1>1. Running(p)
  BY RunningProcess DEF TryAgain, Ended
<1>2. Local(p)
  BY DEF Local, TryAgain, Goto, memoryVars, readVars, Inv, TypeOK
<1>3. SharedTypes' /\ SmallTypes(p)'
  BY <1>1 DEF Running, SharedTypes, SmallTypes, Inv, TypeOK, TryAgain, Goto, sharedVars,
     memoryVars, readVars, Pcs
<1>4. Reading("lock", cache[p], Current(p), path[p], base[p])
  BY <1>1 DEF Running, TryAgain, Reading
<1>5. pc'[p] = "lock" /\ base'[p] = base[p] /\ seen'[p] = seen[p]
  BY DEF TryAgain, Goto, memoryVars, readVars, Inv, TypeOK
<1> QED BY <1>1, <1>2, <1>3, <1>4, <1>5, Turns
    DEF TryAgain, memoryVars, readVars, Running, LargeTypes, StillSeen

LEMMA LockSharedStep ==
  ASSUME Inv, NEW p \in Procs, LockShared(p), UNCHANGED project
  PROVE  Inv'
<1>1. Running(p)
  BY RunningProcess DEF LockShared, Ended
<1>2. Local(p)
  BY DEF Local, LockShared, Goto, memoryVars, readVars, Inv, TypeOK
<1>3. Goal(p) \in Modules
  BY <1>1 DEF Running, LockShared, Reading
<1>4. SharedTypes' /\ SmallTypes(p)'
  BY <1>1, <1>3 DEF Running, SharedTypes, SmallTypes, Inv, TypeOK, LockShared, Goto, sharedVars,
     memoryVars, readVars, Pcs
<1>5. Reading("wait", cache[p], Current(p), path[p], base[p])
  BY <1>1 DEF Running, LockShared, Reading
<1>6. pc'[p] = "wait" /\ base'[p] = base[p] /\ seen'[p] = seen[p]
  BY DEF LockShared, Goto, memoryVars, readVars, Inv, TypeOK
<1> QED BY <1>1, <1>2, <1>4, <1>5, <1>6, Turns
    DEF LockShared, memoryVars, readVars, Running, LargeTypes, StillSeen

LEMMA WaitForUnlockStep ==
  ASSUME Inv, NEW p \in Procs, WaitForUnlock(p), UNCHANGED project
  PROVE  Inv'
<1>1. Running(p)
  BY RunningProcess DEF WaitForUnlock, Ended
<1>2. Local(p)
  BY DEF Local, WaitForUnlock, StartRead, Goto, memoryVars, Inv, TypeOK
<1>3. SharedTypes' /\ SmallTypes(p)'
  BY <1>1 DEF Running, SharedTypes, SmallTypes, Inv, TypeOK, WaitForUnlock, StartRead, Goto,
     sharedVars, memoryVars, Pcs
<1>4. Reading("lock", cache[p], Current(p), path[p], base[p])
  BY <1>1 DEF Running, WaitForUnlock, Reading
<1>5. Reading("read", cache[p], Current(p), <<>>, Len(Current(p).chain))
  BY <1>1, StartsReading, LenProperties DEF Running, WaitForUnlock, Reading, Chains
<1>6. path[p] = <<>>
  BY <1>1 DEF Running, WaitForUnlock, Reading
<1>7. \/ pc'[p] = "read" /\ base'[p] = Len(Current(p).chain)
      \/ pc'[p] = "lock" /\ base'[p] = base[p]
  BY DEF WaitForUnlock, StartRead, Goto, Inv, TypeOK
<1> QED BY <1>1, <1>2, <1>3, <1>4, <1>5, <1>6, <1>7, Turns
    DEF WaitForUnlock, memoryVars, Running, LargeTypes, StillSeen

LEMMA WaitTimeoutStep ==
  ASSUME Inv, NEW p \in Procs, WaitTimeout(p), UNCHANGED project
  PROVE  Inv'
<1>1. Running(p)
  BY RunningProcess DEF WaitTimeout, Ended
<1>2. Local(p)
  BY DEF Local, WaitTimeout, Goto, memoryVars, readVars, Inv, TypeOK
<1>3. SharedTypes' /\ SmallTypes(p)'
  BY <1>1 DEF Running, SharedTypes, SmallTypes, Inv, TypeOK, WaitTimeout, Goto,
     memoryVars, readVars, Pcs
<1>4. Reading("lock", cache[p], Current(p), path[p], base[p])
  BY <1>1 DEF Running, WaitTimeout, Reading
<1>5. pc'[p] = "lock" /\ base'[p] = base[p] /\ seen'[p] = seen[p]
  BY DEF WaitTimeout, Goto, memoryVars, readVars, Inv, TypeOK
<1> QED BY <1>1, <1>2, <1>3, <1>4, <1>5, Turns
    DEF WaitTimeout, memoryVars, readVars, Running, LargeTypes, StillSeen

LEMMA FinishStep ==
  ASSUME Inv, NEW p \in Procs, Finish(p), UNCHANGED project
  PROVE  Inv'
<1>1. Running(p)
  BY RunningProcess DEF Finish, AtEnd, Ended
<1>2. Local(p)
  BY DEF Local, Finish, Goto, memoryVars, readVars, Inv, TypeOK
<1>3. pc'[p] \in Ended /\ base'[p] = base[p] /\ seen'[p] = seen[p]
  BY DEF Finish, Goto, memoryVars, readVars, Inv, TypeOK, Ended
<1>4. SharedTypes' /\ SmallTypes(p)'
  BY <1>1, <1>3 DEF Running, SharedTypes, SmallTypes, Finish, sharedVars,
     memoryVars, readVars, Pcs
<1> QED BY <1>1, <1>2, <1>3, <1>4, Turns
    DEF Finish, memoryVars, readVars, Running, LargeTypes, StillSeen

LEMMA CrashStep ==
  ASSUME Inv, NEW p \in Procs, Crash(p), UNCHANGED project
  PROVE  Inv'
<1>1. Running(p)
  BY RunningProcess DEF Crash
<1>2. Local(p)
  BY DEF Local, Crash, Goto, memoryVars, readVars, Inv, TypeOK
<1>3. pc'[p] \in Ended /\ base'[p] = base[p] /\ seen'[p] = seen[p]
  BY DEF Crash, Goto, memoryVars, readVars, Inv, TypeOK, Ended
<1>4. SharedTypes' /\ SmallTypes(p)'
  BY <1>1, <1>3 DEF Running, SharedTypes, SmallTypes, Crash, sharedVars,
     memoryVars, readVars, Pcs
<1> QED BY <1>1, <1>2, <1>3, <1>4, Turns
    DEF Crash, memoryVars, readVars, Running, LargeTypes, StillSeen

\* A failed ReadAST has nothing to undo when it is not in the middle of a PCM.
LEMMA FailsReading ==
  ASSUME NEW c, NEW i, NEW pa, NEW b, Reading("read", c, i, pa, b),
         DOMAIN i.chain = 1..Len(i.chain)
  PROVE  Reading(IF pa = <<>> THEN "result" ELSE "unwind", c, i, pa, b)
<1>1. CASE pa = <<>>
  <2>1. DOMAIN <<>> = {}
    OBVIOUS
  <2>2. Settled(c, i.chain, Len(i.chain))
    BY <1>1, <2>1 DEF Reading, Loading, Settled, Accepted
  <2> QED BY <1>1, <2>2 DEF Reading
<1>2. CASE pa # <<>>
  BY <1>2 DEF Reading
<1> QED BY <1>1, <1>2

LEMMA ChainIndices ==
  ASSUME NEW p, Running(p)
  PROVE  /\ DOMAIN Current(p).chain = 1..Len(Current(p).chain)
         /\ \A j \in DOMAIN Current(p).chain :
              /\ Current(p).chain[j] \in [mod : Modules, pcm : PCMs, direct : BOOLEAN]
              /\ Current(p).chain[j].mod \in Modules /\ Current(p).chain[j].pcm \in PCMs
<1>1. Current(p).chain \in Seq([mod : Modules, pcm : PCMs, direct : BOOLEAN])
  BY DEF Running, Chains
<1>2. DOMAIN Current(p).chain = 1..Len(Current(p).chain)
  BY <1>1, LenProperties
<1>3. \A j \in DOMAIN Current(p).chain :
        Current(p).chain[j] \in [mod : Modules, pcm : PCMs, direct : BOOLEAN]
  BY <1>1, <1>2, ElementOfSeq
<1> QED BY <1>2, <1>3

\* The PCM to add is one that can be: the goal, or an import of the last on the path.
LEMMA WantedTyped ==
  ASSUME NEW p \in Procs, Running(p), Adding(p)
  PROVE  /\ Wanted(p).mod \in Modules
         /\ path[p] = <<>> => Wanted(p).sig = NoPCM
         /\ path[p] # <<>> => /\ Len(path[p]) \in DOMAIN path[p]
                              /\ path[p][Len(path[p])].todo # <<>>
                              /\ Wanted(p) = Head(path[p][Len(path[p])].todo)
                              /\ Wanted(p).sig \in PCMs
<1>1. Current(p).todo # <<>>
  BY DEF Running, Adding, Reading
<1>2. CASE path[p] = <<>>
  BY <1>1, <1>2 DEF Wanted, Running
<1>3. CASE path[p] # <<>>
  <2> DEFINE n == Len(path[p])
  <2>1. path[p] \in Paths
    BY DEF Running, LargeTypes
  <2>2. n \in DOMAIN path[p]
    BY <2>1, <1>3, EmptySeq, LenProperties DEF Paths
  <2>3. path[p][n].todo \in Todos /\ path[p][n].todo # <<>>
    BY <1>3, <2>1, <2>2, PathsTyped DEF Adding, Last
  <2>4. Wanted(p) = Head(path[p][n].todo)
    BY <1>3 DEF Wanted, Last
  <2>5. Wanted(p) \in [mod : Modules, sig : PCMs]
    BY <2>3, <2>4, HeadTailProperties DEF Todos
  <2> QED BY <1>3, <2>2, <2>3, <2>4, <2>5
<1> QED BY <1>2, <1>3

LEMMA AddMissingStep ==
  ASSUME Inv, NEW p \in Procs, AddMissing(p), UNCHANGED project
  PROVE  Inv'
<1>1. Running(p) /\ Adding(p) /\ pc[p] = "read"
  BY RunningProcess DEF AddMissing, Adding, Ended
<1>2. Local(p)
  BY DEF Local, AddMissing, Fail, Lookup, Goto, Inv, TypeOK
<1>3. Wanted(p).mod \in Modules
  BY <1>1, WantedTyped
<1>4. /\ pc'[p] = IF path[p] = <<>> THEN "result" ELSE "unwind"
      /\ result'[p] \in {"Success", "OutOfDate", "Missing"}
      /\ known'[p] \in SUBSET Modules
      /\ base'[p] = base[p] /\ seen'[p] = seen[p]
  BY <1>1, <1>3 DEF AddMissing, Fail, Lookup, Goto, Inv, TypeOK
<1>5. SharedTypes' /\ SmallTypes(p)'
  BY <1>1, <1>4 DEF Running, SharedTypes, SmallTypes, AddMissing, sharedVars, Pcs
<1>6. Reading(pc'[p], cache[p], Current(p), path[p], base[p])
  BY <1>1, <1>4, FailsReading, ChainIndices DEF Running
<1> QED BY <1>1, <1>2, <1>4, <1>5, <1>6, Turns
    DEF AddMissing, Running, LargeTypes, StillSeen

-----------------------------------------------------------------------------
(* The path. *)

\* An entry of the path whose first import has been accepted waits for the others.
LEMMA OnPathWithout ==
  ASSUME NEW c, NEW e, NEW f, OnPath(c, e), e.todo \in Todos, e.todo # <<>>,
         f.mod = e.mod, f.src = e.src, f.todo = Tail(e.todo),
         Accepted(c, Head(e.todo).mod, Head(e.todo).sig)
  PROVE  OnPath(c, f)
<1> DEFINE x == c[e.mod].buffer
           todo == e.todo
           rest == f.todo
<1>1. /\ x # NoPCM /\ x.src = e.src
      /\ \A j \in DOMAIN todo : \E i \in DOMAIN x.imports : todo[j] = x.imports[i]
      /\ \A i \in DOMAIN x.imports :
           \/ Accepted(c, x.imports[i].mod, x.imports[i].sig)
           \/ \E j \in DOMAIN todo : todo[j] = x.imports[i]
  BY DEF OnPath
<1>2. /\ \A j \in 1..Len(rest) : rest[j] = todo[j + 1]
      /\ Len(todo) \in Nat \ {0} /\ DOMAIN todo = 1..Len(todo)
      /\ DOMAIN rest = 1..(Len(todo) - 1) /\ Len(rest) = Len(todo) - 1
  BY EmptySeq, LenProperties, HeadTailProperties DEF Todos
<1>3. Accepted(c, todo[1].mod, todo[1].sig)
  OBVIOUS
<1>4. c[f.mod].buffer = x /\ f.src = e.src
  OBVIOUS
<1>5. OnPath(c, f) <=>
        LET y == c[f.mod].buffer IN
        /\ y # NoPCM /\ y.src = f.src
        /\ \A j \in DOMAIN f.todo : \E i \in DOMAIN y.imports : f.todo[j] = y.imports[i]
        /\ \A i \in DOMAIN y.imports :
             \/ Accepted(c, y.imports[i].mod, y.imports[i].sig)
             \/ \E j \in DOMAIN f.todo : f.todo[j] = y.imports[i]
  BY Zenon DEF OnPath
<1>6. OnPath(c, f) <=>
        /\ x # NoPCM /\ x.src = e.src
        /\ \A j \in DOMAIN rest : \E i \in DOMAIN x.imports : rest[j] = x.imports[i]
        /\ \A i \in DOMAIN x.imports :
             \/ Accepted(c, x.imports[i].mod, x.imports[i].sig)
             \/ \E j \in DOMAIN rest : rest[j] = x.imports[i]
  BY <1>4, <1>5
<1> HIDE DEF x, todo, rest
<1>7. ASSUME NEW j \in DOMAIN rest PROVE \E i \in DOMAIN x.imports : rest[j] = x.imports[i]
  <2>1. j + 1 \in DOMAIN todo /\ rest[j] = todo[j + 1]
    BY <1>2
  <2> QED BY <1>1, <2>1
<1>8. ASSUME NEW i \in DOMAIN x.imports, ~Accepted(c, x.imports[i].mod, x.imports[i].sig)
      PROVE  \E j \in DOMAIN rest : rest[j] = x.imports[i]
  <2>1. PICK j \in DOMAIN todo : todo[j] = x.imports[i]
    BY <1>1, <1>8
  <2>2. j # 1
    BY <1>3, <1>8, <2>1
  <2>3. j \in 1..Len(todo) /\ Len(todo) \in Nat
    BY <1>2
  <2>4. j - 1 \in 1..(Len(todo) - 1) /\ (j - 1) + 1 = j
    BY <2>2, <2>3
  <2>5. j - 1 \in DOMAIN rest /\ rest[j - 1] = todo[j]
    BY <1>2, <2>4
  <2> QED BY <2>1, <2>5
<1> QED BY <1>1, <1>6, <1>7, <1>8

\* The last on the path has got the import it waited for.
LEMMA PathAdvanced ==
  ASSUME NEW c \in Caches, NEW pa \in Paths, pa # <<>>, Last(pa).todo # <<>>,
         OnPaths(c, pa), Nesting(c, pa), Descending(c, pa),
         Accepted(c, Head(Last(pa).todo).mod, Head(Last(pa).todo).sig),
         NEW q, q = Append(Front(pa), [Last(pa) EXCEPT !.todo = Tail(@)])
  PROVE  /\ q \in Paths /\ OnPaths(c, q) /\ Nesting(c, q) /\ Descending(c, q)
         /\ \A chain : Loading(c, chain, pa) => Loading(c, chain, q)
<1> DEFINE n == Len(pa)
           e == [Last(pa) EXCEPT !.todo = Tail(@)]
<1>1. n \in Nat \ {0} /\ DOMAIN pa = 1..n /\ n \in DOMAIN pa
  BY EmptySeq, LenProperties DEF Paths
<1>h. n = Len(pa)
  OBVIOUS
<1> HIDE DEF n
<1>2. Last(pa) = pa[n] /\ pa[n].todo \in Todos
      /\ pa[n] \in [mod : Modules, src : Versions, todo : Todos]
  BY <1>1, <1>h, PathsTyped, ElementOfSeq DEF Last, Paths
<1>3. Tail(pa[n].todo) \in Todos /\ Len(Tail(pa[n].todo)) = Len(pa[n].todo) - 1
      /\ \A j \in 1..Len(Tail(pa[n].todo)) : Tail(pa[n].todo)[j] = pa[n].todo[j + 1]
      /\ Len(pa[n].todo) \in Nat \ {0} /\ DOMAIN pa[n].todo = 1..Len(pa[n].todo)
      /\ DOMAIN Tail(pa[n].todo) = 1..(Len(pa[n].todo) - 1)
  BY <1>2, EmptySeq, LenProperties, HeadTailProperties DEF Todos
<1>4. /\ e \in [mod : Modules, src : Versions, todo : Todos]
      /\ e.mod = pa[n].mod /\ e.src = pa[n].src /\ e.todo = Tail(pa[n].todo)
  BY <1>2, <1>3
<1> HIDE DEF e
<1>5. /\ q \in Paths /\ Len(q) = n /\ DOMAIN q = 1..n /\ q[n] = e
      /\ \A k \in 1..(n - 1) : q[k] = pa[k]
  <2>1. /\ q \in Paths /\ Len(q) = n /\ q[n] = e
        /\ \A k \in 1..(n - 1) : q[k] = pa[k]
    BY <1>4, <1>h, ReplaceLast DEF e, Paths
  <2> QED BY <2>1, LenProperties DEF Paths
<1>6. ASSUME NEW k \in 1..n PROVE q[k].mod = pa[k].mod /\ q[k].src = pa[k].src
  <2>1. k = n \/ k \in 1..(n - 1)
    BY <1>1
  <2> QED BY <2>1, <1>4, <1>5
<1>7. ASSUME NEW k \in 1..n PROVE OnPath(c, q[k])
  <2>1. OnPath(c, pa[k])
    BY <1>1 DEF OnPaths
  <2>2. CASE k # n
    <3>1. q[k] = pa[k]
      BY <1>1, <1>5, <2>2
    <3> QED BY <2>1, <3>1
  <2>3. CASE k = n
    <3>1. pa[n].todo # <<>> /\ Accepted(c, Head(pa[n].todo).mod, Head(pa[n].todo).sig)
      BY <1>2
    <3>2. OnPath(c, e)
      BY <1>2, <1>4, <2>1, <2>3, <3>1, OnPathWithout
    <3> QED BY <1>5, <2>3, <3>2
  <2> QED BY <2>2, <2>3
<1>8. Nesting(c, q)
  <2> SUFFICES ASSUME NEW k \in 1..(n - 1)
               PROVE  /\ q[k].todo # <<>> /\ Head(q[k].todo).mod = q[k + 1].mod
                      /\ Head(q[k].todo).sig = c[q[k + 1].mod].buffer
    BY <1>5 DEF Nesting
  <2>0. k \in 1..n /\ k + 1 \in 1..n
    BY <1>1
  <2>1. k + 1 \in 1..n /\ q[k] = pa[k] /\ q[k + 1].mod = pa[k + 1].mod
    BY <2>0, <1>5, <1>6
  <2> QED BY <2>1, <1>h DEF Nesting
<1>9. Descending(c, q)
  BY <1>1, <1>5, <1>6 DEF Descending
<1>10. ASSUME NEW chain, Loading(c, chain, pa) PROVE Loading(c, chain, q)
  BY <1>1, <1>5, <1>6, <1>10 DEF Loading
<1> QED BY <1>5, <1>7, <1>8, <1>9, <1>10 DEF OnPaths

\* The last on the path is done with.
LEMMA PathPopped ==
  ASSUME NEW c \in Caches, NEW pa \in Paths, pa # <<>>,
         OnPaths(c, pa), Nesting(c, pa), Descending(c, pa)
  PROVE  /\ Front(pa) \in Paths /\ OnPaths(c, Front(pa))
         /\ Nesting(c, Front(pa)) /\ Descending(c, Front(pa))
         /\ Front(pa) # <<>> =>
              /\ Last(Front(pa)).todo # <<>>
              /\ Head(Last(Front(pa)).todo).mod = Last(pa).mod
              /\ Head(Last(Front(pa)).todo).sig = c[Last(pa).mod].buffer
         /\ \A chain : /\ Loading(c, chain, pa)
                       /\ \A j \in DOMAIN chain : chain[j].mod = Last(pa).mod => c[chain[j].mod].isFinal
                       => Loading(c, chain, Front(pa))
<1> DEFINE n == Len(pa)
           q == Front(pa)
<1>h. n = Len(pa)
  OBVIOUS
<1>1. /\ n \in Nat \ {0} /\ DOMAIN pa = 1..n /\ q \in Paths /\ Len(q) = n - 1
      /\ \A k \in 1..(n - 1) : q[k] = pa[k]
  BY FrontProperties DEF Paths
<1>2. DOMAIN q = 1..(n - 1) /\ (q # <<>> => n - 1 \in 1..(n - 1))
  <2>1. DOMAIN q = 1..(n - 1)
    BY <1>1, LenProperties DEF Paths
  <2>2. q # <<>> => n - 1 # 0
    BY <1>1, EmptySeq DEF Paths
  <2> QED BY <1>1, <2>1, <2>2
<1> HIDE DEF q, n
<1>3. OnPaths(c, q)
  BY <1>1, <1>2 DEF OnPaths
<1>4. Nesting(c, q)
  <2> SUFFICES ASSUME NEW k \in 1..((n - 1) - 1)
               PROVE  /\ q[k].todo # <<>> /\ Head(q[k].todo).mod = q[k + 1].mod
                      /\ Head(q[k].todo).sig = c[q[k + 1].mod].buffer
    BY <1>1 DEF Nesting
  <2>1. k \in 1..(n - 1) /\ k + 1 \in 1..(n - 1)
    BY <1>1
  <2> QED BY <1>1, <2>1, <1>h DEF Nesting
<1>5. Descending(c, q)
  BY <1>1, <1>2 DEF Descending
<1>6. ASSUME q # <<>>
      PROVE  /\ Last(q).todo # <<>> /\ Head(Last(q).todo).mod = Last(pa).mod
             /\ Head(Last(q).todo).sig = c[Last(pa).mod].buffer
  <2>1. Last(q) = pa[n - 1] /\ Last(pa) = pa[(n - 1) + 1] /\ n - 1 \in 1..(n - 1)
    BY <1>1, <1>2, <1>6, <1>h DEF Last
  <2> QED BY <2>1, <1>h DEF Nesting
<1>7. ASSUME NEW chain, Loading(c, chain, pa),
             \A j \in DOMAIN chain : chain[j].mod = Last(pa).mod => c[chain[j].mod].isFinal
      PROVE  Loading(c, chain, q)
  <2> SUFFICES ASSUME NEW j \in DOMAIN chain, ~c[chain[j].mod].isFinal
               PROVE  \E k \in DOMAIN q : q[k].mod = chain[j].mod
    BY <1>7 DEF Loading
  <2>1. PICK k \in 1..n : pa[k].mod = chain[j].mod
    BY <1>1, <1>7 DEF Loading
  <2>2. k # n
    BY <1>7, <2>1, <1>h DEF Last
  <2>3. k \in 1..(n - 1)
    BY <1>1, <2>2
  <2> QED BY <1>1, <1>2, <2>1, <2>3
<1> QED BY <1>1, <1>3, <1>4, <1>5, <1>6, <1>7 DEF q

Pushed(c, pa, m) ==
  Append(pa, [mod |-> m, src |-> c[m].buffer.src, todo |-> c[m].buffer.imports])

\* A PCM is put on the path: the one the last waits for, if there is a last.
LEMMA PathPushed ==
  ASSUME NEW c \in Caches, NEW pa \in Paths, OnPaths(c, pa), Nesting(c, pa), Descending(c, pa),
         NEW m \in Modules, c[m].buffer \in PCMs,
         pa # <<>> => /\ Last(pa).todo # <<>>
                      /\ Head(Last(pa).todo).mod = m /\ Head(Last(pa).todo).sig = c[m].buffer,
         NEW q, q = Pushed(c, pa, m)
  PROVE  /\ q \in Paths /\ OnPaths(c, q) /\ Nesting(c, q) /\ Descending(c, q)
         /\ \A k \in DOMAIN pa : k \in DOMAIN q /\ q[k] = pa[k]
         /\ \E k \in DOMAIN q : q[k].mod = m
<1> DEFINE n == Len(pa)
           x == c[m].buffer
           e == [mod |-> m, src |-> x.src, todo |-> x.imports]
<1>h. n = Len(pa)
  OBVIOUS
<1>1. n \in Nat /\ DOMAIN pa = 1..n /\ (pa # <<>> => n # 0)
  BY EmptySeq, LenProperties DEF Paths
<1>2. x.src \in Versions /\ x.imports \in Todos
  BY PCMProperties DEF Todos
<1>3. e \in [mod : Modules, src : Versions, todo : Todos]
      /\ e.mod = m /\ e.src = x.src /\ e.todo = x.imports
  BY <1>2
<1> HIDE DEF e
<1>4. /\ q \in Paths /\ Len(q) = n + 1 /\ DOMAIN q = 1..(n + 1) /\ q[n + 1] = e
      /\ \A k \in 1..n : q[k] = pa[k]
  <2>1. /\ q \in Paths /\ Len(q) = n + 1 /\ q[n + 1] = e
        /\ \A k \in 1..n : q[k] = pa[k]
    BY <1>3, AppendProperties DEF e, Paths, Pushed
  <2> QED BY <2>1, LenProperties DEF Paths
<1> HIDE DEF n
<1>5. ASSUME NEW k \in 1..(n + 1) PROVE OnPath(c, q[k])
  <2>1. CASE k = n + 1
    BY <2>1, <1>3, <1>4, PCMsAssumption DEF OnPath
  <2>2. CASE k # n + 1
    <3>1. k \in DOMAIN pa /\ q[k] = pa[k]
      BY <1>1, <1>4, <2>2
    <3> QED BY <3>1 DEF OnPaths
  <2> QED BY <2>1, <2>2
<1>6. Nesting(c, q)
  <2> SUFFICES ASSUME NEW k \in 1..n
               PROVE  /\ q[k].todo # <<>> /\ Head(q[k].todo).mod = q[k + 1].mod
                      /\ Head(q[k].todo).sig = c[q[k + 1].mod].buffer
    BY <1>1, <1>4, <1>h DEF Nesting
  <2>1. CASE k = n
    <3>1. pa # <<>> /\ q[k] = Last(pa) /\ q[k + 1] = e
      <4>1. pa # <<>>
        BY <1>1, <2>1
      <4> QED BY <1>1, <1>4, <1>h, <2>1, <4>1 DEF Last
    <3> QED BY <1>3, <3>1
  <2>2. CASE k # n
    <3>1. k \in 1..(n - 1) /\ k + 1 \in 1..n
      BY <1>1, <2>2
    <3> QED BY <1>1, <1>4, <1>h, <3>1 DEF Nesting
  <2> QED BY <2>1, <2>2
<1>7. Descending(c, q)
  <2> DEFINE ht(k) == Height(c[q[k].mod].buffer)
  <2> SUFFICES ASSUME NEW j \in 1..(n + 1), NEW k \in 1..(n + 1), j < k
               PROVE  ht(k) < ht(j)
    BY <1>4 DEF Descending
  <2>0. ASSUME NEW i \in 1..n PROVE q[i] = pa[i] /\ c[pa[i].mod].buffer \in PCMs /\ ht(i) \in Nat
    <3>1. q[i] = pa[i] /\ pa[i].mod \in Modules /\ OnPath(c, pa[i])
      BY <1>1, <1>4, PathsTyped DEF OnPaths
    <3>2. c[pa[i].mod].buffer \in PCMs
      BY <3>1 DEF OnPath, Caches
    <3> QED BY <3>1, <3>2, PCMProperties
  <2>1. CASE k = n + 1
    <3> DEFINE y == c[pa[n].mod].buffer
    <3>1. n \in 1..n /\ pa # <<>> /\ j \in 1..n
      <4>1. n # 0 /\ j \in 1..n
        BY <1>1, <2>1
      <4> QED BY <1>1, <4>1
    <3>2. pa[n].todo # <<>> /\ Head(pa[n].todo).sig = x /\ pa[n].todo \in Todos
      BY <1>1, <1>h, <3>1, PathsTyped DEF Last
    <3>3. 1 \in DOMAIN pa[n].todo /\ Head(pa[n].todo) = pa[n].todo[1]
      <4>1. Len(pa[n].todo) \in Nat \ {0} /\ DOMAIN pa[n].todo = 1..Len(pa[n].todo)
        BY <3>2, EmptySeq, LenProperties DEF Todos
      <4> QED BY <3>2, <4>1
    <3>4. PICK i \in DOMAIN y.imports : pa[n].todo[1] = y.imports[i]
      BY <1>1, <3>1, <3>3 DEF OnPaths, OnPath
    <3>5. Height(x) < ht(n) /\ Height(x) \in Nat
      <4>1. y \in PCMs /\ q[n] = pa[n]
        BY <2>0, <3>1
      <4>2. y.imports[i].sig = x
        BY <3>2, <3>3, <3>4
      <4>3. Height(y.imports[i].sig) < Height(y) /\ Height(y.imports[i].sig) \in Nat
        BY <4>1, PCMProperties
      <4> QED BY <4>1, <4>2, <4>3
    <3>6. j # n => ht(n) < ht(j)
      <4>1. j # n => j < n
        BY <1>1, <3>1
      <4> QED BY <1>1, <2>0, <3>1, <4>1 DEF Descending
    <3>7. ht(k) = Height(x)
      BY <2>1, <1>3, <1>4
    <3>8. ht(j) \in Nat /\ ht(n) \in Nat
      BY <2>0, <3>1
    <3> HIDE DEF ht
    <3>9. CASE j = n
      BY <3>5, <3>7, <3>9
    <3>10. CASE j # n
      BY <3>5, <3>6, <3>7, <3>8, <3>10
    <3> QED BY <3>9, <3>10
  <2>2. CASE k # n + 1
    <3>1. j \in 1..n /\ k \in 1..n
      BY <1>1, <2>2
    <3> QED BY <1>1, <2>0, <3>1 DEF Descending
  <2> QED BY <2>1, <2>2
<1>8. n + 1 \in DOMAIN q /\ q[n + 1].mod = m
  BY <1>1, <1>3, <1>4
<1>9. \A k \in DOMAIN pa : k \in DOMAIN q /\ q[k] = pa[k]
  BY <1>1, <1>4
<1> QED BY <1>4, <1>5, <1>6, <1>7, <1>8, <1>9 DEF OnPaths

-----------------------------------------------------------------------------
(* The steps of ReadAST. *)

\* A CompilerInstance goes on with other contents.
LEMMA LastReplaced ==
  ASSUME NEW c, NEW s, NEW st \in Seq(Instances), Building(c, s, st), HasSources(st),
         NEW i \in Instances, i.mod = st[Len(st)].mod, i.todo \in Seq(Sources)
  PROVE  LET new == Append(Front(st), i) IN
         /\ new \in Seq(Instances) /\ new[Len(new)] = i
         /\ HasSources(new) /\ Building(c, s, new)
<1> DEFINE n == Len(st)
           new == Append(Front(st), i)
<1>1. st # <<>> /\ n \in Nat \ {0} /\ DOMAIN st = 1..n
  BY EmptySeq, LenProperties DEF Building
<1>2. /\ new \in Seq(Instances) /\ Len(new) = n /\ new # <<>> /\ new[n] = i
      /\ \A k \in 1..(n - 1) : new[k] = st[k]
  <2>1. st # <<>>
    BY <1>1
  <2>2. /\ Append(Front(st), i) \in Seq(Instances) /\ Len(Append(Front(st), i)) = Len(st)
        /\ Append(Front(st), i) # <<>>
        /\ \A k \in 1..(Len(st) - 1) : Append(Front(st), i)[k] = st[k]
        /\ Append(Front(st), i)[Len(st)] = i
    BY <2>1, ReplaceLast, Zenon
  <2> QED BY <2>2
<1>3. DOMAIN new = 1..n
  BY <1>2, LenProperties
<1>h. n = Len(st)
  OBVIOUS
<1> HIDE DEF n, new
<1>4. ASSUME NEW k \in 1..n PROVE new[k].mod = st[k].mod
  <2>1. k = n \/ k \in 1..(n - 1)
    BY <1>1
  <2> QED BY <1>2, <1>h, <2>1
<1>5. Building(c, s, new)
  <2>1. new[1].mod = Nobody
    <3>1. 1 \in 1..n
      BY <1>1
    <3> QED BY <1>4, <3>1 DEF Building
  <2>2. ASSUME NEW k \in 2..n PROVE new[k].mod \in Modules /\ s[new[k].mod] \in Versions
    <3>1. k \in 1..n
      OBVIOUS
    <3> QED BY <1>4, <1>h, <3>1 DEF Building
  <2>3. ASSUME NEW k \in 1..(n - 1)
        PROVE  /\ new[k].todo # <<>> /\ Head(new[k].todo) = new[k + 1].mod
               /\ Settled(c, new[k].chain, Len(new[k].chain))
    <3>1. k + 1 \in 1..n
      BY <1>1
    <3> QED BY <1>2, <1>4, <1>h, <3>1 DEF Building
  <2> QED BY <1>2, <2>1, <2>2, <2>3 DEF Building
<1>6. HasSources(new)
  <2> SUFFICES ASSUME NEW k \in 1..n PROVE new[k].todo \in Seq(Sources)
    BY <1>3 DEF HasSources
  <2>1. k = n \/ k \in 1..(n - 1)
    BY <1>1
  <2> QED BY <1>1, <1>2, <2>1 DEF HasSources
<1> QED BY <1>2, <1>5, <1>6 DEF new

LEMMA CurrentReplaced ==
  ASSUME Inv, NEW p \in Procs, Running(p), UNCHANGED project,
         NEW i \in Instances, i.mod = Current(p).mod, i.todo \in Seq(Sources), SetCurrent(p, i),
         NEW d, NEW t \in Seens, KeepsFinals(cache[p], d), StillSeen(seen[p], t)
  PROVE  /\ stack' = [stack EXCEPT ![p] = stack'[p]]
         /\ stack'[p] \in Seq(Instances) /\ stack'[p][Len(stack'[p])] = i
         /\ HasSources(stack[p])' /\ Building(d, t, stack'[p])
<1> DEFINE st == stack[p]
           new == Append(Front(st), i)
<1>1. /\ st \in Seq(Instances) /\ seen[p] \in Seens /\ HasSources(st)
      /\ Current(p) = st[Len(st)]
  BY DEF Running, LargeTypes
<1>2. stack'[p] = new /\ stack' = [stack EXCEPT ![p] = stack'[p]]
  BY DEF SetCurrent, Inv, TypeOK
<1>3. Building(d, t, st)
  BY <1>1, BuildingKept DEF Running
<1> HIDE DEF st
<1>4. /\ new \in Seq(Instances) /\ new[Len(new)] = i
      /\ HasSources(new) /\ Building(d, t, new)
  BY <1>1, <1>3, LastReplaced
<1> HIDE DEF new
<1>5. HasSources(stack[p])'
  BY <1>2, <1>4 DEF HasSources, Sources
<1> QED BY <1>2, <1>4, <1>5

LEMMA SameSettled ==
  ASSUME NEW c, NEW chain, NEW new, NEW n \in Nat, NEW b \in Nat, b <= n,
         \A k \in 1..n : new[k].mod = chain[k].mod /\ new[k].pcm = chain[k].pcm,
         Settled(c, chain, b)
  PROVE  Settled(c, new, b)
BY DEF Settled, Accepted

\* A module is found to be imported directly.
WithDirect(i, j, b) == [i EXCEPT !.chain[j].direct = b]

LEMMA DirectSet ==
  ASSUME NEW i \in Instances, NEW j \in DOMAIN i.chain, NEW b \in BOOLEAN,
         NEW r, r = WithDirect(i, j, b)
  PROVE  /\ r \in Instances /\ r.mod = i.mod /\ r.todo = i.todo /\ r.chain \in Chains
         /\ Len(r.chain) = Len(i.chain) /\ DOMAIN r.chain = DOMAIN i.chain
         /\ \A k \in DOMAIN i.chain :
              r.chain[k].mod = i.chain[k].mod /\ r.chain[k].pcm = i.chain[k].pcm
<1> DEFINE E == [mod : Modules, pcm : PCMs, direct : BOOLEAN]
           e == [i.chain[j] EXCEPT !.direct = b]
           new == [i.chain EXCEPT ![j] = e]
<1>1. i.chain \in Seq(E) /\ DOMAIN i.chain = 1..Len(i.chain)
  BY LenProperties DEF Instances
<1>2. i.chain[j] \in E
  BY <1>1, ElementOfSeq
<1>3. e \in E /\ e.mod = i.chain[j].mod /\ e.pcm = i.chain[j].pcm
  BY <1>2
<1> HIDE DEF e
<1>4. /\ new \in Seq(E) /\ Len(new) = Len(i.chain)
      /\ \A k \in 1..Len(i.chain) : new[k] = IF k = j THEN e ELSE i.chain[k]
  BY <1>1, <1>3, ExceptSeq
<1>5. DOMAIN new = 1..Len(i.chain)
  BY <1>4, LenProperties
<1>6. r.chain = new /\ r.mod = i.mod /\ r.todo = i.todo
  BY DEF e, Instances, WithDirect
<1>7. r \in Instances
  <2>1. r = [i EXCEPT !.chain = new]
    BY DEF e, WithDirect
  <2> HIDE DEF new
  <2> QED BY <1>4, <2>1 DEF Instances
<1> QED BY <1>1, <1>3, <1>4, <1>5, <1>6, <1>7 DEF Chains

\* The PCM that is waited for is not on the path.
LEMMA NotBelowItself ==
  ASSUME NEW c \in Caches, NEW pa \in Paths, OnPaths(c, pa), Descending(c, pa),
         pa # <<>>, Last(pa).todo # <<>>, NEW k \in DOMAIN pa,
         Head(Last(pa).todo).sig = c[pa[k].mod].buffer
  PROVE  FALSE
<1> DEFINE n == Len(pa)
           y == c[pa[n].mod].buffer
<1>1. n \in Nat \ {0} /\ DOMAIN pa = 1..n /\ n \in DOMAIN pa
  BY EmptySeq, LenProperties DEF Paths
<1>2. ASSUME NEW i \in DOMAIN pa
      PROVE  c[pa[i].mod].buffer \in PCMs /\ Height(c[pa[i].mod].buffer) \in Nat
  <2>1. pa[i].mod \in Modules /\ OnPath(c, pa[i])
    BY PathsTyped DEF OnPaths
  <2>2. c[pa[i].mod].buffer \in PCMs
    BY <2>1 DEF OnPath, Caches
  <2> QED BY <2>2, PCMProperties
<1>3. pa[n].todo \in Todos /\ pa[n].todo # <<>>
  BY <1>1, PathsTyped DEF Last
<1>4. 1 \in DOMAIN pa[n].todo /\ Head(pa[n].todo) = pa[n].todo[1]
  <2>1. Len(pa[n].todo) \in Nat \ {0} /\ DOMAIN pa[n].todo = 1..Len(pa[n].todo)
    BY <1>3, EmptySeq, LenProperties DEF Todos
  <2> QED BY <1>3, <2>1
<1>5. PICK i \in DOMAIN y.imports : pa[n].todo[1] = y.imports[i]
  BY <1>1, <1>4 DEF OnPaths, OnPath
<1>6. y.imports[i].sig = c[pa[k].mod].buffer
  BY <1>4, <1>5 DEF Last
<1>7. Height(c[pa[k].mod].buffer) < Height(y)
  BY <1>1, <1>2, <1>6, PCMProperties
<1>8. CASE k = n
  BY <1>1, <1>2, <1>7, <1>8
<1>9. CASE k # n
  <2>1. k < n
    BY <1>1, <1>9
  <2>2. Height(y) < Height(c[pa[k].mod].buffer)
    BY <1>1, <2>1 DEF Descending
  <2> QED BY <1>1, <1>2, <1>7, <2>2
<1> QED BY <1>8, <1>9

\* A module has been added: its importer, if there is one, goes on.
LEMMA SucceedsReading ==
  ASSUME NEW p, NEW c \in Caches, NEW i, NEW pa \in Paths, NEW b, Reading("read", c, i, pa, b),
         DOMAIN i.chain = 1..Len(i.chain),
         pa # <<>> => /\ Last(pa).todo # <<>>
                      /\ Accepted(c, Head(Last(pa).todo).mod, Head(Last(pa).todo).sig)
  PROVE  /\ Advance(p, pa) \in Paths
         /\ Reading(IF pa = <<>> THEN "result" ELSE "read", c, i, Advance(p, pa), b)
<1>1. CASE pa = <<>>
  <2>1. Advance(p, pa) = <<>>
    BY <1>1 DEF Advance
  <2> QED BY <1>1, <2>1, FailsReading
<1>2. CASE pa # <<>>
  <2> DEFINE q == Append(Front(pa), [Last(pa) EXCEPT !.todo = Tail(@)])
  <2>1. Advance(p, pa) = q
    BY <1>2 DEF Advance
  <2>2. OnPaths(c, pa) /\ Nesting(c, pa) /\ Descending(c, pa) /\ Loading(c, i.chain, pa)
    BY DEF Reading
  <2> HIDE DEF q
  <2>3. q = Append(Front(pa), [Last(pa) EXCEPT !.todo = Tail(@)])
    BY DEF q
  <2>4. /\ q \in Paths /\ OnPaths(c, q) /\ Nesting(c, q) /\ Descending(c, q)
        /\ Loading(c, i.chain, q)
    BY <1>2, <2>2, <2>3, PathAdvanced
  <2> QED BY <1>2, <2>1, <2>4 DEF Reading
<1> QED BY <1>1, <1>2

LEMMA AddAgainStep ==
  ASSUME Inv, NEW p \in Procs, AddAgain(p), UNCHANGED project
  PROVE  Inv'
<1> DEFINE w == Wanted(p)
           cur == Current(p)
<1>1. Running(p) /\ Adding(p) /\ pc[p] = "read" /\ w.mod \in Modules
  BY RunningProcess, WantedTyped DEF AddAgain, Adding, Ended
<1>2. PICK i \in DOMAIN cur.chain :
        /\ cur.chain[i].mod = w.mod
        /\ \/ /\ Mismatch(cur.chain[i].pcm, w.sig) /\ Fail(p, "OutOfDate")
              /\ UNCHANGED <<stack, path>>
           \/ /\ ~Mismatch(cur.chain[i].pcm, w.sig) /\ Succeed(p, path[p])
              /\ SetCurrent(p, [cur EXCEPT !.chain[i].direct = @ \/ path[p] = <<>>])
  BY DEF AddAgain
<1>3. /\ UNCHANGED <<sharedVars, cache, seen, failed, base, attempt, waitsFor>>
      /\ known' = [known EXCEPT ![p] = @ \cup {w.mod}]
  BY DEF AddAgain, Lookup
<1> HIDE DEF w, cur
<1>4. CASE Fail(p, "OutOfDate") /\ UNCHANGED <<stack, path>>
  <2>1. Local(p)
    BY <1>3, <1>4 DEF Local, Fail, Goto, Inv, TypeOK
  <2>2. /\ pc'[p] = IF path[p] = <<>> THEN "result" ELSE "unwind"
        /\ result'[p] \in {"Success", "OutOfDate", "Missing"}
        /\ known'[p] \in SUBSET Modules
        /\ base'[p] = base[p] /\ seen'[p] = seen[p]
    BY <1>1, <1>3, <1>4 DEF Fail, Goto, Inv, TypeOK
  <2>3. SharedTypes' /\ SmallTypes(p)'
    BY <1>1, <1>3, <2>2 DEF Running, SharedTypes, SmallTypes, sharedVars, Pcs
  <2>4. Reading(pc'[p], cache[p], Current(p), path[p], base[p])
    BY <1>1, <2>2, FailsReading, ChainIndices DEF Running
  <2> QED BY <1>1, <1>3, <1>4, <2>1, <2>2, <2>3, <2>4, Turns DEF Running, LargeTypes, StillSeen
<1>5. CASE /\ ~Mismatch(cur.chain[i].pcm, w.sig) /\ Succeed(p, path[p])
           /\ SetCurrent(p, [cur EXCEPT !.chain[i].direct = @ \/ path[p] = <<>>])
  <2> DEFINE r == [cur EXCEPT !.chain[i].direct = @ \/ path[p] = <<>>]
             c == cache[p]
             q == Advance(p, path[p])
             direct == cur.chain[i].direct \/ path[p] = <<>>
  <2>1. /\ cur \in Instances /\ DOMAIN cur.chain = 1..Len(cur.chain) /\ Len(cur.chain) \in Nat
        /\ cur.chain[i] \in [mod : Modules, pcm : PCMs, direct : BOOLEAN]
    BY <1>1, ChainIndices DEF Running, cur
  <2>2. direct \in BOOLEAN
    OBVIOUS
  <2>3. r = WithDirect(cur, i, direct)
    BY DEF WithDirect
  <2> HIDE DEF r, direct
  <2>4. /\ r \in Instances /\ r.mod = cur.mod /\ r.todo = cur.todo /\ r.chain \in Chains
        /\ Len(r.chain) = Len(cur.chain) /\ DOMAIN r.chain = DOMAIN cur.chain
        /\ \A k \in DOMAIN cur.chain :
             r.chain[k].mod = cur.chain[k].mod /\ r.chain[k].pcm = cur.chain[k].pcm
    <3>1. i \in DOMAIN cur.chain
      BY <1>2
    <3> QED BY <2>1, <2>2, <2>3, <3>1, DirectSet
  <2>5. /\ c \in Caches /\ seen[p] \in Seens /\ path[p] \in Paths /\ base[p] \in Nat
        /\ Reading("read", c, cur, path[p], base[p])
    BY <1>1 DEF Running, LargeTypes, cur
  <2>6. Reading("read", c, r, path[p], base[p])
    <3>1. Loading(c, r.chain, path[p])
      BY <2>4, <2>5 DEF Reading, Loading
    <3>2. base[p] <= Len(r.chain) /\ Settled(c, r.chain, base[p])
      BY <2>1, <2>4, <2>5, SameSettled DEF Reading
    <3> QED BY <2>4, <2>5, <3>1, <3>2 DEF Reading
  <2>7. path[p] # <<>> =>
          /\ Last(path[p]).todo # <<>>
          /\ Accepted(c, Head(Last(path[p]).todo).mod, Head(Last(path[p]).todo).sig)
    <3> SUFFICES ASSUME path[p] # <<>>
                 PROVE  Last(path[p]).todo # <<>> /\ Accepted(c, w.mod, w.sig)
      BY DEF Wanted, w
    <3>1. Last(path[p]).todo # <<>> /\ w = Head(Last(path[p]).todo) /\ w.sig \in PCMs
      BY <1>1, WantedTyped DEF Last, w
    <3>2. cur.chain[i].pcm = w.sig /\ c[w.mod].buffer = w.sig
      <4>1. cur.chain[i].pcm = w.sig
        BY <1>5, <3>1, PCMsAssumption DEF Mismatch
      <4> QED BY <1>2, <2>5, <4>1 DEF Reading, Loading
    <3>3. c[w.mod].isFinal
      <4> SUFFICES ASSUME ~c[w.mod].isFinal PROVE FALSE
        OBVIOUS
      <4>1. PICK k \in DOMAIN path[p] : path[p][k].mod = w.mod
        BY <1>2, <2>5 DEF Reading, Loading
      <4>2. Head(Last(path[p]).todo).sig = c[path[p][k].mod].buffer
        BY <3>1, <3>2, <4>1
      <4> QED BY <2>5, <3>1, <4>2, NotBelowItself DEF Reading
    <3> QED BY <3>1, <3>2, <3>3 DEF Accepted
  <2>8. /\ q \in Paths
        /\ Reading(IF path[p] = <<>> THEN "result" ELSE "read", c, r, q, base[p])
    BY <2>1, <2>4, <2>5, <2>6, <2>7, SucceedsReading
  <2>9. /\ path' = [path EXCEPT ![p] = q]
        /\ pc' = [pc EXCEPT ![p] = IF path[p] = <<>> THEN "result" ELSE "read"]
        /\ result' = [result EXCEPT ![p] = result'[p]]
        /\ result'[p] \in {"Success", "OutOfDate", "Missing"}
    BY <1>5 DEF Succeed, Goto, Inv, TypeOK
  <2> HIDE DEF q
  <2>10. /\ stack' = [stack EXCEPT ![p] = stack'[p]]
         /\ stack'[p] \in Seq(Instances) /\ stack'[p][Len(stack'[p])] = r
         /\ HasSources(stack[p])' /\ Building(c, seen[p], stack'[p])
    <3>1. SetCurrent(p, r)
      BY <1>5 DEF r
    <3>2. KeepsFinals(c, c) /\ StillSeen(seen[p], seen[p]) /\ r.todo \in Seq(Sources)
      BY <1>1, <2>4 DEF KeepsFinals, StillSeen, Running, cur
    <3>3. r.mod = Current(p).mod
      BY <2>4 DEF cur
    <3> QED BY <1>1, <2>4, <2>5, <3>1, <3>2, <3>3, CurrentReplaced
  <2>11. /\ path'[p] = q /\ pc'[p] = IF path[p] = <<>> THEN "result" ELSE "read"
         /\ path' = [path EXCEPT ![p] = path'[p]] /\ pc' = [pc EXCEPT ![p] = pc'[p]]
    BY <2>9 DEF Inv, TypeOK
  <2>12. /\ known' = [known EXCEPT ![p] = known'[p]] /\ known'[p] \in SUBSET Modules
    BY <1>1, <1>3 DEF Inv, TypeOK
  <2>13. Local(p)
    BY <1>3, <2>9, <2>10, <2>11, <2>12 DEF Local, Inv, TypeOK
  <2>14. SharedTypes' /\ SmallTypes(p)'
    BY <1>1, <1>3, <2>9, <2>11, <2>12 DEF Running, SharedTypes, SmallTypes, sharedVars, Pcs
  <2>15. LargeTypes(p)'
    BY <1>1, <1>3, <2>8, <2>10, <2>11 DEF Running, LargeTypes
  <2>16. OK(p)'
    BY <1>1, <1>3, <2>8, <2>10, <2>11 DEF Running, OK, ProcessOK
  <2> QED BY <2>13, <2>14, <2>15, <2>16, InvKept
<1> QED BY <1>2, <1>4, <1>5

\* What addModule does to the cache.
LEMMA KeepsPCM ==
  ASSUME Inv, NEW p \in Procs, Running(p), NEW m \in Modules,
         State(p, m) # "ToBuild", Buffer(p, m) # NoPCM, Keep(p, m)
  PROVE  /\ cache' = [cache EXCEPT ![p] = cache'[p]] /\ cache'[p] \in Caches
         /\ Entries(cache'[p]) /\ Finals(cache'[p], seen[p])
         /\ KeepsFinals(cache[p], cache'[p]) /\ KeepsBuffers(cache[p], cache'[p])
         /\ Buffer(p, m) \in PCMs /\ cache'[p][m].buffer = Buffer(p, m)
<1> DEFINE c == cache[p]
           d == cache'[p]
           x == Buffer(p, m)
<1>0. /\ c \in Caches /\ Entries(c) /\ Finals(c, seen[p]) /\ seen[p] \in Seens
      /\ disk[m] \in PCMs \cup {NoPCM}
  BY DEF Running, LargeTypes, SharedTypes
<1>1. x \in PCMs
  BY <1>0 DEF Buffer, Caches
<1>2. CASE State(p, m) = "Unknown"
  <2>1. d = [c EXCEPT ![m] = [present |-> TRUE, buffer |-> x, isFinal |-> FALSE]]
        /\ cache' = [cache EXCEPT ![p] = d]
    BY <1>2 DEF Keep, addPCM, Inv, TypeOK
  <2>2. ~c[m].present
    BY <1>2 DEF State, getPCMState
  <2>3. c[m].buffer = NoPCM /\ ~c[m].isFinal
    BY <1>0, <2>2 DEF Entries
  <2> HIDE DEF c, d, x
  <2>4. d \in Caches
    BY <1>0, <1>1, <2>1 DEF Caches
  <2>5. d[m] = [present |-> TRUE, buffer |-> x, isFinal |-> FALSE]
        /\ \A k \in Modules : k # m => d[k] = c[k]
    BY <1>0, <2>1 DEF Caches
  <2>6. Entries(d)
    BY <1>0, <2>5 DEF Entries
  <2>7. KeepsFinals(c, d) /\ KeepsBuffers(c, d) /\ d[m].buffer = x
    BY <2>3, <2>5 DEF KeepsFinals, KeepsBuffers
  <2>8. \A k \in Modules : d[k].isFinal => c[k].isFinal
    BY <2>5
  <2>9. Finals(d, seen[p])
    BY <1>0, <2>4, <2>6, <2>7, <2>8, FinalsKept DEF StillSeen
  <2> QED BY <1>1, <2>1, <2>4, <2>6, <2>7, <2>9 DEF c, d, x
<1>3. CASE State(p, m) # "Unknown"
  <2>1. cache' = cache
    BY <1>3 DEF Keep
  <2>2. c[m].buffer # NoPCM
    BY <1>0, <1>3 DEF State, getPCMState, Entries
  <2> QED BY <1>0, <1>1, <2>1, <2>2 DEF Buffer, KeepsFinals, KeepsBuffers, Inv, TypeOK
<1> QED BY <1>2, <1>3

\* The cache grows, and the path is as it was.
LEMMA ReadingKept ==
  ASSUME NEW c \in Caches, NEW d \in Caches, NEW i, i.chain \in Chains, NEW pa \in Paths,
         NEW b \in Nat, KeepsFinals(c, d), KeepsBuffers(c, d), Reading("read", c, i, pa, b)
  PROVE  Reading("read", d, i, pa, b)
<1>1. Len(i.chain) \in Nat
  BY LenProperties DEF Chains
<1>2. b <= Len(i.chain) /\ Settled(d, i.chain, b)
  BY <1>1, SettledKept DEF Reading
<1>3. OnPaths(d, pa) /\ Nesting(d, pa) /\ Descending(d, pa)
  BY PathKept DEF Reading
<1>4. Loading(d, i.chain, pa)
  BY LoadingKept DEF Reading
<1> QED BY <1>2, <1>3, <1>4 DEF Reading

LEMMA AddOutOfDateStep ==
  ASSUME Inv, NEW p \in Procs, AddOutOfDate(p), UNCHANGED project
  PROVE  Inv'
<1> DEFINE m == Wanted(p).mod
           c == cache[p]
           d == cache'[p]
<1>1. Running(p) /\ Adding(p) /\ pc[p] = "read" /\ m \in Modules
  BY RunningProcess, WantedTyped DEF AddOutOfDate, Adding, Ended
<1>2. /\ c \in Caches /\ seen[p] \in Seens /\ path[p] \in Paths /\ base[p] \in Nat
      /\ Entries(c) /\ Finals(c, seen[p]) /\ stack[p] \in Seq(Instances)
      /\ Reading("read", c, Current(p), path[p], base[p])
      /\ Current(p).chain \in Chains /\ Building(c, seen[p], stack[p])
  BY <1>1 DEF Running, LargeTypes
<1>3. /\ cache' = [cache EXCEPT ![p] = d] /\ d \in Caches
      /\ Entries(d) /\ Finals(d, seen[p]) /\ KeepsFinals(c, d) /\ KeepsBuffers(c, d)
  <2>1. CASE UNCHANGED cache
    BY <1>2, <2>1 DEF KeepsFinals, KeepsBuffers, Inv, TypeOK
  <2>2. CASE State(p, m) # "ToBuild" /\ Buffer(p, m) # NoPCM /\ Keep(p, m)
    BY <1>1, <2>2, KeepsPCM
  <2> QED BY <2>1, <2>2 DEF AddOutOfDate
<1>4. /\ known' = [known EXCEPT ![p] = @ \cup {m}] /\ Fail(p, "OutOfDate")
      /\ UNCHANGED <<sharedVars, seen, failed, stack, path, base, attempt, waitsFor>>
  BY DEF AddOutOfDate, Lookup
<1> HIDE DEF m, c, d
<1>5. /\ pc' = [pc EXCEPT ![p] = pc'[p]] /\ known' = [known EXCEPT ![p] = known'[p]]
      /\ result' = [result EXCEPT ![p] = result'[p]]
      /\ pc'[p] = IF path[p] = <<>> THEN "result" ELSE "unwind"
      /\ result'[p] \in {"Success", "OutOfDate", "Missing"}
      /\ known'[p] \in SUBSET Modules
  BY <1>1, <1>4 DEF Fail, Goto, Inv, TypeOK
<1>6. Local(p)
  BY <1>3, <1>4, <1>5 DEF Local, Inv, TypeOK, d
<1>7. SharedTypes' /\ SmallTypes(p)'
  BY <1>1, <1>4, <1>5 DEF Running, SharedTypes, SmallTypes, sharedVars, Pcs
<1>8. LargeTypes(p)'
  BY <1>1, <1>3, <1>4 DEF Running, LargeTypes, d
<1>9. Reading(pc'[p], d, Current(p), path[p], base[p])
  <2>1. Reading("read", d, Current(p), path[p], base[p])
    BY <1>2, <1>3, ReadingKept
  <2> QED BY <1>1, <1>5, <2>1, FailsReading, ChainIndices
<1>10. Building(d, seen[p], stack[p])
  BY <1>2, <1>3, BuildingKept DEF StillSeen
<1>11. HasSources(stack[p])'
  BY <1>1, <1>4 DEF Running, HasSources, Sources
<1>12. OK(p)'
  BY <1>1, <1>3, <1>4, <1>9, <1>10, <1>11 DEF Running, OK, ProcessOK, d
<1> QED BY <1>6, <1>7, <1>8, <1>12, InvKept

LEMMA AddNewStep ==
  ASSUME Inv, NEW p \in Procs, AddNew(p), UNCHANGED project
  PROVE  Inv'
<1> DEFINE m == Wanted(p).mod
           x == Buffer(p, m)
           c == cache[p]
           d == cache'[p]
           pa == path[p]
           cur == Current(p)
           n == Len(cur.chain)
           e == [mod |-> m, pcm |-> x, direct |-> pa = <<>>]
           new == Append(cur.chain, e)
           r == [cur EXCEPT !.chain = new]
           q == Append(pa, [mod |-> m, src |-> x.src, todo |-> x.imports])
<1>1. Running(p) /\ Adding(p) /\ pc[p] = "read" /\ m \in Modules
  BY RunningProcess, WantedTyped DEF AddNew, Adding, Ended
<1>2. /\ c \in Caches /\ seen[p] \in Seens /\ pa \in Paths /\ base[p] \in Nat
      /\ Reading("read", c, cur, pa, base[p]) /\ cur \in Instances
      /\ cur.chain \in Chains /\ n \in Nat /\ DOMAIN cur.chain = 1..n
      /\ cur.todo \in Seq(Sources)
  BY <1>1, ChainIndices DEF Running, LargeTypes
<1>3. /\ cache' = [cache EXCEPT ![p] = d] /\ d \in Caches
      /\ Entries(d) /\ Finals(d, seen[p]) /\ KeepsFinals(c, d) /\ KeepsBuffers(c, d)
      /\ x \in PCMs /\ d[m].buffer = x
  BY <1>1, KeepsPCM DEF AddNew
<1>4. /\ SetCurrent(p, r) /\ path' = [path EXCEPT ![p] = q]
      /\ known' = [known EXCEPT ![p] = @ \cup {m}]
      /\ ~Mismatch(x, Wanted(p).sig)
      /\ UNCHANGED <<sharedVars, pc, seen, failed, base, attempt, result, waitsFor>>
  BY DEF AddNew, Lookup
<1>5. pa # <<>> => /\ Last(pa).todo # <<>> /\ Head(Last(pa).todo).mod = m
                   /\ Head(Last(pa).todo).sig = d[m].buffer
  <2> SUFFICES ASSUME pa # <<>>
               PROVE  /\ Last(pa).todo # <<>> /\ Head(Last(pa).todo).mod = m
                      /\ Head(Last(pa).todo).sig = d[m].buffer
    OBVIOUS
  <2>1. Last(pa).todo # <<>> /\ Wanted(p) = Head(Last(pa).todo) /\ Wanted(p).sig \in PCMs
    BY <1>1, WantedTyped DEF Last
  <2>2. Wanted(p).sig = x
    BY <1>4, <2>1, PCMsAssumption DEF Mismatch
  <2> QED BY <1>3, <2>1, <2>2
<1> HIDE DEF m, x, c, d, pa, cur
<1>6. Reading("read", d, cur, pa, base[p])
  BY <1>2, <1>3, ReadingKept
<1>7. q = Pushed(d, pa, m)
  BY <1>3 DEF Pushed
<1> HIDE DEF q
<1>8. /\ q \in Paths /\ OnPaths(d, q) /\ Nesting(d, q) /\ Descending(d, q)
      /\ \A k \in DOMAIN pa : k \in DOMAIN q /\ q[k] = pa[k]
      /\ \E k \in DOMAIN q : q[k].mod = m
  <2>1. OnPaths(d, pa) /\ Nesting(d, pa) /\ Descending(d, pa)
    BY <1>6 DEF Reading
  <2>2. m \in Modules /\ d[m].buffer \in PCMs
    BY <1>1, <1>3 DEF m
  <2> QED BY <1>2, <1>3, <1>5, <1>7, <2>1, <2>2, PathPushed
<1>9. e \in [mod : Modules, pcm : PCMs, direct : BOOLEAN] /\ e.mod = m /\ e.pcm = x
  BY <1>1, <1>3 DEF m
<1> HIDE DEF e
<1>10. /\ new \in Chains /\ Len(new) = n + 1 /\ new[n + 1] = e
       /\ \A j \in 1..n : new[j] = cur.chain[j]
  BY <1>2, <1>9, AppendProperties DEF Chains
<1>11. DOMAIN new = 1..(n + 1)
  BY <1>10, LenProperties DEF Chains
<1> HIDE DEF new
<1>12. r \in Instances /\ r.mod = cur.mod /\ r.todo = cur.todo /\ r.chain = new
  BY <1>2, <1>10 DEF Instances, Chains
<1> HIDE DEF r, n
<1>13. Loading(d, new, q)
  <2> SUFFICES ASSUME NEW j \in 1..(n + 1)
               PROVE  /\ d[new[j].mod].buffer = new[j].pcm
                      /\ d[new[j].mod].isFinal \/ \E k \in DOMAIN q : q[k].mod = new[j].mod
    BY <1>11 DEF Loading
  <2>1. CASE j = n + 1
    BY <1>3, <1>8, <1>9, <1>10, <2>1
  <2>2. CASE j # n + 1
    <3>1. j \in DOMAIN cur.chain /\ new[j] = cur.chain[j]
      BY <1>2, <1>10, <2>2
    <3>2. Loading(d, cur.chain, pa)
      BY <1>6 DEF Reading
    <3>3. \/ d[new[j].mod].isFinal
          \/ \E k \in DOMAIN pa : pa[k].mod = new[j].mod
      BY <3>1, <3>2 DEF Loading
    <3>4. d[new[j].mod].buffer = new[j].pcm
      BY <3>1, <3>2 DEF Loading
    <3> QED BY <1>8, <3>3, <3>4
  <2> QED BY <2>1, <2>2
<1>14. base[p] <= Len(new) /\ Settled(d, new, base[p])
  <2>1. base[p] <= n /\ Settled(d, cur.chain, base[p])
    BY <1>6 DEF Reading, n
  <2>2. \A j \in 1..n : new[j].mod = cur.chain[j].mod /\ new[j].pcm = cur.chain[j].pcm
    BY <1>10
  <2>3. n \in Nat
    BY <1>2
  <2>4. Settled(d, new, base[p])
    BY <1>2, <2>1, <2>2, <2>3, SameSettled
  <2> QED BY <1>2, <1>10, <2>1, <2>3, <2>4
<1>15. Reading("read", d, r, q, base[p])
  BY <1>6, <1>8, <1>12, <1>13, <1>14 DEF Reading
<1>16. /\ stack' = [stack EXCEPT ![p] = stack'[p]]
       /\ stack'[p] \in Seq(Instances) /\ stack'[p][Len(stack'[p])] = r
       /\ HasSources(stack[p])' /\ Building(d, seen[p], stack'[p])
  <2>1. StillSeen(seen[p], seen[p]) /\ KeepsFinals(cache[p], d)
    BY <1>3 DEF StillSeen, c
  <2>2. r.mod = Current(p).mod /\ r.todo \in Seq(Sources)
    BY <1>2, <1>12 DEF cur
  <2> QED BY <1>1, <1>2, <1>4, <1>12, <2>1, <2>2, CurrentReplaced
<1>17. /\ path'[p] = q /\ path' = [path EXCEPT ![p] = path'[p]]
       /\ known' = [known EXCEPT ![p] = known'[p]] /\ known'[p] \in SUBSET Modules
  BY <1>1, <1>4 DEF Inv, TypeOK, m
<1>18. Local(p)
  BY <1>3, <1>4, <1>16, <1>17 DEF Local, Inv, TypeOK, d
<1>19. SharedTypes' /\ SmallTypes(p)'
  BY <1>1, <1>4, <1>17 DEF Running, SharedTypes, SmallTypes, sharedVars
<1>20. LargeTypes(p)'
  BY <1>1, <1>3, <1>4, <1>8, <1>16, <1>17 DEF Running, LargeTypes, d
<1>21. OK(p)'
  BY <1>1, <1>3, <1>4, <1>15, <1>16, <1>17 DEF OK, ProcessOK, d
<1> QED BY <1>18, <1>19, <1>20, <1>21, InvKept

\* A PCM that is as it was built, with its imports accepted, is accepted.
LEMMA ValidateStep ==
  ASSUME Inv, NEW p \in Procs, Validate(p), UNCHANGED project
  PROVE  Inv'
<1> DEFINE pa == path[p]
           e == Last(pa)
           c == cache[p]
           t == seen'[p]
           d == finalizePCM(c, e.mod)
           q == Front(pa)
           cur == Current(p)
<1>1. Running(p) /\ pc[p] = "read" /\ pa # <<>> /\ e.todo = <<>>
  BY RunningProcess DEF Validate, Ended
<1>2. /\ c \in Caches /\ seen[p] \in Seens /\ pa \in Paths /\ base[p] \in Nat
      /\ Entries(c) /\ Finals(c, seen[p]) /\ stack[p] \in Seq(Instances)
      /\ Reading("read", c, cur, pa, base[p]) /\ Building(c, seen[p], stack[p])
      /\ cur.chain \in Chains /\ DOMAIN cur.chain = 1..Len(cur.chain)
  BY <1>1, ChainIndices DEF Running, LargeTypes
<1>3. /\ e = pa[Len(pa)] /\ Len(pa) \in DOMAIN pa /\ e.mod \in Modules
      /\ OnPath(c, e)
  <2>1. Len(pa) \in DOMAIN pa
    BY <1>1, <1>2, EmptySeq, LenProperties DEF Paths
  <2> QED BY <1>2, <2>1, PathsTyped DEF Last, Reading, OnPaths
<1>4. /\ seen' = [seen EXCEPT ![p] = t] /\ t \in Seens /\ StillSeen(seen[p], t)
  <2>1. seen' = [seen EXCEPT ![p] = Stat(p, e.mod)]
    BY DEF Validate
  <2>2. t = Stat(p, e.mod)
    BY <2>1 DEF Inv, TypeOK
  <2> QED BY <1>3, <2>1, <2>2, StatSees
<1>5. UNCHANGED <<sharedVars, known, failed, stack, base, attempt, waitsFor>>
  BY DEF Validate
<1>6. \/ Goto(p, "unwind") /\ result' = [result EXCEPT ![p] = "OutOfDate"]
         /\ UNCHANGED <<cache, path>>
      \/ /\ t[e.mod] = e.src
         /\ cache' = [cache EXCEPT ![p] = d] /\ Succeed(p, q)
      \/ Goto(p, "aborted") /\ UNCHANGED <<cache, path, result>>
  BY DEF Validate
<1> HIDE DEF pa, e, c, t, d, q, cur
<1>7. CASE /\ Goto(p, "unwind") /\ result' = [result EXCEPT ![p] = "OutOfDate"]
           /\ UNCHANGED <<cache, path>>
  <2>1. Local(p) /\ pc'[p] = "unwind"
    BY <1>4, <1>5, <1>7 DEF Local, Goto, Inv, TypeOK, t
  <2>2. SharedTypes' /\ SmallTypes(p)'
    BY <1>1, <1>5, <1>7 DEF Running, SharedTypes, SmallTypes, sharedVars, Pcs, Goto, Inv, TypeOK
  <2>3. Reading("unwind", c, cur, pa, base[p])
    BY <1>1, <1>2, FailsReading DEF pa
  <2> QED BY <1>1, <1>2, <1>4, <1>5, <1>7, <2>1, <2>2, <2>3, Turns DEF c, cur, pa, t
<1>8. CASE Goto(p, "aborted") /\ UNCHANGED <<cache, path, result>>
  <2>1. Local(p) /\ pc'[p] = "aborted"
    BY <1>4, <1>5, <1>8 DEF Local, Goto, Inv, TypeOK, t
  <2>2. SharedTypes' /\ SmallTypes(p)'
    BY <1>1, <1>5, <1>8 DEF Running, SharedTypes, SmallTypes, sharedVars, Pcs, Ended, Goto, Inv, TypeOK
  <2>3. pc'[p] \in Ended
    BY <2>1 DEF Ended
  <2> QED BY <1>1, <1>2, <1>4, <1>5, <1>8, <2>1, <2>2, <2>3, Turns DEF c, cur, pa, t
<1>9. CASE /\ t[e.mod] = e.src
           /\ cache' = [cache EXCEPT ![p] = d] /\ Succeed(p, q)
  <2> DEFINE x == c[e.mod].buffer
  <2>1. /\ d = [c EXCEPT ![e.mod].isFinal = TRUE]
        /\ x # NoPCM /\ x \in PCMs /\ x.src = e.src
        /\ \A i \in DOMAIN x.imports : Accepted(c, x.imports[i].mod, x.imports[i].sig)
    <3>1. x # NoPCM /\ x \in PCMs /\ x.src = e.src
      BY <1>2, <1>3 DEF OnPath, Caches
    <3>2. DOMAIN e.todo = {}
      BY <1>1 DEF e, pa
    <3>3. \A i \in DOMAIN x.imports : Accepted(c, x.imports[i].mod, x.imports[i].sig)
      BY <1>3, <3>2 DEF OnPath
    <3> QED BY <3>1, <3>3 DEF finalizePCM, d
  <2> HIDE DEF x
  <2>2. /\ d \in Caches /\ d[e.mod].isFinal /\ d[e.mod].buffer = c[e.mod].buffer
        /\ d[e.mod].present = c[e.mod].present
        /\ \A m \in Modules : m # e.mod => d[m] = c[m]
    BY <1>2, <1>3, <2>1 DEF Caches
  <2>3. Entries(d)
    BY <1>2, <2>1, <2>2 DEF Entries, x
  <2>4. KeepsFinals(c, d) /\ KeepsBuffers(c, d)
    BY <2>2 DEF KeepsFinals, KeepsBuffers
  <2>5. Finals(d, t)
    <3>1. \A m \in Modules : d[m].isFinal /\ ~c[m].isFinal =>
            /\ d[m].buffer.src = t[m]
            /\ \A i \in DOMAIN d[m].buffer.imports :
                 Accepted(c, d[m].buffer.imports[i].mod, d[m].buffer.imports[i].sig)
      BY <1>9, <2>1, <2>2 DEF x
    <3> QED BY <1>2, <1>4, <2>2, <2>3, <2>4, <3>1, FinalsKept
  <2>6. Reading("read", d, cur, pa, base[p])
    BY <1>2, <2>2, <2>4, ReadingKept
  <2>7. /\ q \in Paths /\ OnPaths(d, q) /\ Nesting(d, q) /\ Descending(d, q)
        /\ Loading(d, cur.chain, q)
        /\ q # <<>> => /\ Last(q).todo # <<>>
                       /\ Accepted(d, Head(Last(q).todo).mod, Head(Last(q).todo).sig)
    <3>1. OnPaths(d, pa) /\ Nesting(d, pa) /\ Descending(d, pa) /\ Loading(d, cur.chain, pa)
      BY <2>6 DEF Reading
    <3>2. pa # <<>> /\ e = Last(pa)
      BY <1>1 DEF pa, e
    <3>3. /\ q \in Paths /\ OnPaths(d, q) /\ Nesting(d, q) /\ Descending(d, q)
          /\ q # <<>> => /\ Last(q).todo # <<>> /\ Head(Last(q).todo).mod = e.mod
                         /\ Head(Last(q).todo).sig = d[e.mod].buffer
      BY <1>2, <2>2, <3>1, <3>2, PathPopped DEF q
    <3>4. Loading(d, cur.chain, q)
      <4>1. \A j \in DOMAIN cur.chain :
              cur.chain[j].mod = Last(pa).mod => d[cur.chain[j].mod].isFinal
        BY <2>2, <3>2
      <4> QED BY <1>2, <2>2, <3>1, <3>2, <4>1, PathPopped DEF q
    <3> QED BY <2>2, <3>3, <3>4 DEF Accepted
  <2>8. Reading("read", d, cur, q, base[p])
    BY <2>6, <2>7 DEF Reading
  <2>9. /\ Advance(p, q) \in Paths
        /\ Reading(IF q = <<>> THEN "result" ELSE "read", d, cur, Advance(p, q), base[p])
    BY <1>2, <2>2, <2>7, <2>8, SucceedsReading
  <2>10. /\ path'[p] = Advance(p, q) /\ path' = [path EXCEPT ![p] = path'[p]]
         /\ pc'[p] = IF q = <<>> THEN "result" ELSE "read"
         /\ pc' = [pc EXCEPT ![p] = pc'[p]] /\ result' = [result EXCEPT ![p] = result'[p]]
         /\ result'[p] \in {"Success", "OutOfDate", "Missing"}
         /\ cache'[p] = d /\ cache' = [cache EXCEPT ![p] = cache'[p]]
    BY <1>9 DEF Succeed, Goto, Inv, TypeOK
  <2>11. Local(p)
    BY <1>4, <1>5, <2>10 DEF Local, Inv, TypeOK, t
  <2>12. SharedTypes' /\ SmallTypes(p)'
    BY <1>1, <1>5, <2>10 DEF Running, SharedTypes, SmallTypes, sharedVars, Pcs
  <2>13. LargeTypes(p)'
    BY <1>1, <1>4, <1>5, <2>2, <2>9, <2>10 DEF Running, LargeTypes, t
  <2>14. Building(d, t, stack[p])
    BY <1>2, <1>4, <2>4, BuildingKept
  <2>15. HasSources(stack[p])'
    BY <1>1, <1>5 DEF Running, HasSources, Sources
  <2>16. OK(p)'
    BY <1>1, <1>5, <2>3, <2>5, <2>9, <2>10, <2>14, <2>15 DEF Running, OK, ProcessOK, t, cur
  <2> QED BY <2>11, <2>12, <2>13, <2>16, InvKept
<1> QED BY <1>6, <1>7, <1>8, <1>9

LEMMA ChainCut ==
  ASSUME NEW chain \in Chains, NEW b \in 0..Len(chain)
  PROVE  /\ SubSeq(chain, 1, b) \in Chains /\ Len(SubSeq(chain, 1, b)) = b
         /\ \A j \in 1..b : SubSeq(chain, 1, b)[j] = chain[j]
<1> DEFINE E == [mod : Modules, pcm : PCMs, direct : BOOLEAN]
<1>1. chain \in Seq(E) /\ b \in Nat /\ b <= Len(chain)
  BY LenProperties DEF Chains
<1>2. \A j \in 1..b : chain[j] \in E
  <2>1. \A j \in 1..b : j \in 1..Len(chain)
    BY <1>1, LenProperties
  <2> QED BY <1>1, <2>1, ElementOfSeq
<1>3. /\ SubSeq(chain, 1, b) \in Seq(E)
      /\ Len(SubSeq(chain, 1, b)) = IF 1 <= b THEN b - 1 + 1 ELSE 0
      /\ \A j \in 1..(b - 1 + 1) : SubSeq(chain, 1, b)[j] = chain[1 + j - 1]
  <2>1. 1 \in Int /\ b \in Int
    BY <1>1
  <2> QED BY <1>2, <2>1, SubSeqProperties
<1> QED BY <1>1, <1>3 DEF Chains

\* The PCMs that were being read are dropped.
LEMMA UnwindStep ==
  ASSUME Inv, NEW p \in Procs, Unwind(p), UNCHANGED project
  PROVE  Inv'
<1> DEFINE pa == path[p]
           e == Last(pa)
           c == cache[p]
           d == tryToDropPCM(c, e.mod)
           q == Front(pa)
           cur == Current(p)
           cut == SubSeq(cur.chain, 1, base[p])
           r == [cur EXCEPT !.chain = cut]
<1>1. Running(p) /\ pc[p] = "unwind"
  BY RunningProcess DEF Unwind, Ended
<1>2. /\ c \in Caches /\ seen[p] \in Seens /\ pa \in Paths /\ base[p] \in Nat
      /\ Entries(c) /\ Finals(c, seen[p]) /\ stack[p] \in Seq(Instances) /\ stack[p] # <<>>
      /\ Reading("unwind", c, cur, pa, base[p]) /\ Building(c, seen[p], stack[p])
      /\ cur \in Instances /\ cur.chain \in Chains /\ Len(cur.chain) \in Nat
      /\ cur.todo \in Seq(Sources)
  BY <1>1 DEF Running, LargeTypes
<1>3. pa # <<>> /\ base[p] \in 0..Len(cur.chain) /\ cur.todo # <<>>
      /\ Settled(c, cur.chain, base[p])
  BY <1>2 DEF Reading
<1>4. e.mod \in Modules
  <2>1. Len(pa) \in DOMAIN pa
    BY <1>2, <1>3, EmptySeq, LenProperties DEF Paths
  <2> QED BY <1>2, <2>1, PathsTyped DEF Last
<1>5. /\ q \in Paths /\ (q = <<>> <=> Len(pa) = 1)
  <2>1. q \in Paths /\ Len(q) = Len(pa) - 1 /\ Len(pa) \in Nat \ {0}
    BY <1>2, <1>3, FrontProperties DEF Paths
  <2>2. q = <<>> <=> Len(q) = 0
    BY <2>1, EmptySeq DEF Paths
  <2> QED BY <2>1, <2>2
<1>6. /\ d \in Caches /\ Entries(d) /\ KeepsFinals(c, d)
      /\ \A m \in Modules : d[m].isFinal => c[m].isFinal
  <2>1. CASE c[e.mod].isFinal
    BY <1>2, <2>1 DEF tryToDropPCM, KeepsFinals
  <2>2. CASE ~c[e.mod].isFinal
    <3>1. d = [c EXCEPT ![e.mod].buffer = NoPCM]
      BY <2>2 DEF tryToDropPCM
    <3> HIDE DEF d, c, e
    <3>2. /\ d \in Caches /\ d[e.mod].buffer = NoPCM /\ ~d[e.mod].isFinal
          /\ \A m \in Modules : m # e.mod => d[m] = c[m]
      BY <1>2, <1>4, <2>2, <3>1 DEF Caches
    <3>3. Entries(d)
      BY <1>2, <3>2 DEF Entries
    <3> QED BY <2>2, <3>2, <3>3 DEF KeepsFinals
  <2> QED BY <2>1, <2>2
<1>7. /\ UNCHANGED <<sharedVars, known, seen, failed, base, attempt, result, waitsFor>>
      /\ \/ /\ cache' = [cache EXCEPT ![p] = d] /\ path' = [path EXCEPT ![p] = q]
            /\ \/ Len(pa) = 1 /\ Goto(p, "result") /\ SetCurrent(p, r)
               \/ Len(pa) # 1 /\ UNCHANGED <<pc, stack>>
         \/ Goto(p, "aborted") /\ UNCHANGED <<cache, path, stack>>
  BY DEF Unwind
<1> HIDE DEF pa, e, c, d, q, cur
<1>8. CASE Goto(p, "aborted") /\ UNCHANGED <<cache, path, stack>>
  <2>1. Local(p) /\ pc'[p] = "aborted"
    BY <1>7, <1>8 DEF Local, Goto, Inv, TypeOK
  <2>2. SharedTypes' /\ SmallTypes(p)'
    BY <1>1, <1>7, <1>8 DEF Running, SharedTypes, SmallTypes, sharedVars, Pcs, Ended, Goto, Inv, TypeOK
  <2>3. pc'[p] \in Ended
    BY <2>1 DEF Ended
  <2> QED BY <1>1, <1>2, <1>7, <1>8, <2>1, <2>2, <2>3, Turns DEF StillSeen
<1>9. CASE cache' = [cache EXCEPT ![p] = d] /\ path' = [path EXCEPT ![p] = q]
  <2>1. Finals(d, seen[p]) /\ Building(d, seen[p], stack[p]) /\ Settled(d, cur.chain, base[p])
    <3>1. StillSeen(seen[p], seen[p])
      BY DEF StillSeen
    <3> QED BY <1>2, <1>3, <1>6, <3>1, FinalsKept, BuildingKept, SettledKept
  <2>2. /\ cache'[p] = d /\ cache' = [cache EXCEPT ![p] = cache'[p]]
        /\ path'[p] = q /\ path' = [path EXCEPT ![p] = path'[p]]
    BY <1>9 DEF Inv, TypeOK
  <2>3. CASE Len(pa) = 1 /\ Goto(p, "result") /\ SetCurrent(p, r)
    <3>1. cut \in Chains /\ Len(cut) = base[p] /\ \A j \in 1..base[p] : cut[j] = cur.chain[j]
      BY <1>2, <1>3, ChainCut
    <3> HIDE DEF cut
    <3>2. r \in Instances /\ r.mod = cur.mod /\ r.todo = cur.todo /\ r.chain = cut
      BY <1>2, <3>1 DEF Instances, Chains
    <3> HIDE DEF r
    <3>3. Settled(d, cut, base[p])
      <4>1. \A j \in 1..base[p] : cut[j].mod = cur.chain[j].mod /\ cut[j].pcm = cur.chain[j].pcm
        BY <3>1
      <4>2. base[p] \in Nat /\ base[p] <= base[p]
        BY <1>2
      <4> QED BY <2>1, <4>1, <4>2, SameSettled
    <3>4. Reading("result", d, r, q, base[p])
      BY <1>3, <1>5, <2>3, <3>1, <3>2, <3>3 DEF Reading
    <3>5. /\ stack' = [stack EXCEPT ![p] = stack'[p]]
          /\ stack'[p] \in Seq(Instances) /\ stack'[p][Len(stack'[p])] = r
          /\ HasSources(stack[p])' /\ Building(d, seen[p], stack'[p])
      <4>1. r.mod = Current(p).mod /\ r.todo \in Seq(Sources) /\ KeepsFinals(cache[p], d)
            /\ StillSeen(seen[p], seen[p])
        BY <1>2, <1>6, <3>2 DEF cur, c, StillSeen
      <4> QED BY <1>1, <1>2, <2>3, <3>2, <4>1, CurrentReplaced
    <3>6. pc'[p] = "result" /\ pc' = [pc EXCEPT ![p] = pc'[p]]
      BY <2>3 DEF Goto, Inv, TypeOK
    <3>7. Local(p)
      BY <1>7, <2>2, <3>5, <3>6 DEF Local, Inv, TypeOK
    <3>8. SharedTypes' /\ SmallTypes(p)'
      BY <1>1, <1>7, <3>6 DEF Running, SharedTypes, SmallTypes, sharedVars, Pcs
    <3>9. LargeTypes(p)'
      BY <1>1, <1>5, <1>6, <1>7, <2>2, <3>5 DEF Running, LargeTypes
    <3>10. OK(p)'
      BY <1>6, <1>7, <2>1, <2>2, <3>4, <3>5, <3>6 DEF OK, ProcessOK
    <3> QED BY <3>7, <3>8, <3>9, <3>10, InvKept
  <2>4. CASE Len(pa) # 1 /\ UNCHANGED <<pc, stack>>
    <3>1. Reading("unwind", d, cur, q, base[p])
      BY <1>2, <1>3, <1>5, <2>1, <2>4 DEF Reading
    <3>2. Local(p)
      BY <1>7, <2>2, <2>4 DEF Local, Inv, TypeOK
    <3>3. SharedTypes' /\ SmallTypes(p)'
      BY <1>1, <1>7, <2>4 DEF Running, SharedTypes, SmallTypes, sharedVars, Pcs
    <3>4. LargeTypes(p)'
      BY <1>1, <1>5, <1>6, <1>7, <2>2, <2>4 DEF Running, LargeTypes
    <3>5. HasSources(stack[p])'
      BY <1>1, <2>4 DEF Running, HasSources, Sources
    <3>6. cur = stack[p][Len(stack[p])]
      BY DEF cur, Current, Last
    <3>7. OK(p)'
      BY <1>1, <1>6, <1>7, <2>1, <2>2, <2>4, <3>1, <3>5, <3>6 DEF OK, ProcessOK
    <3> QED BY <3>2, <3>3, <3>4, <3>7, InvKept
  <2> QED BY <1>7, <1>8, <2>3, <2>4
<1> QED BY <1>7, <1>8, <1>9

LEMMA ReadASTStep ==
  ASSUME Inv, NEW p \in Procs, ReadAST(p), UNCHANGED project
  PROVE  Inv'
BY AddMissingStep, AddAgainStep, AddOutOfDateStep, AddNewStep, ValidateStep, UnwindStep
   DEF ReadAST

-----------------------------------------------------------------------------
(* The steps of findOrCompileModuleAndReadAST. *)

LEMMA AfterImportTyped ==
  ASSUME NEW i \in Instances, i.todo # <<>>, NEW ok \in BOOLEAN
  PROVE  /\ AfterImport(i, ok) \in Instances
         /\ AfterImport(i, ok).mod = i.mod /\ AfterImport(i, ok).chain = i.chain
         /\ AfterImport(i, ok).todo = Tail(i.todo)
<1>1. i.todo \in Seq(Modules) /\ Tail(i.todo) \in Seq(Modules) /\ i.err \in BOOLEAN
  BY HeadTailProperties DEF Instances
<1> QED BY <1>1 DEF AfterImport, Instances

\* Back to the preprocessor.
LEMMA ImportOver ==
  ASSUME Inv, NEW p \in Procs, Running(p), pc[p] = "result", NEW ok \in BOOLEAN,
         SetCurrent(p, AfterImport(Current(p), ok)), Goto(p, "import"),
         UNCHANGED <<cache, seen, path, base>>,
         Local(p), SharedTypes', SmallTypes(p)'
  PROVE  Inv'
<1> DEFINE r == AfterImport(Current(p), ok)
<1>1. /\ Current(p).todo # <<>> /\ path[p] = <<>> /\ seen[p] \in Seens
      /\ Settled(cache[p], Current(p).chain, Len(Current(p).chain))
      /\ Current(p) \in Instances
  BY DEF Running, Reading, LargeTypes
<1>2. /\ r \in Instances /\ r.mod = Current(p).mod /\ r.chain = Current(p).chain
      /\ r.todo \in Seq(Sources)
  BY <1>1, AfterImportTyped DEF Running
<1>3. SetCurrent(p, r)
  OBVIOUS
<1> HIDE DEF r
<1>4. /\ stack'[p] \in Seq(Instances) /\ stack'[p][Len(stack'[p])] = r
      /\ HasSources(stack[p])' /\ Building(cache[p], seen[p], stack'[p])
  <2>1. StillSeen(seen[p], seen[p]) /\ KeepsFinals(cache[p], cache[p]) /\ UNCHANGED project
    BY DEF StillSeen, KeepsFinals, Local
  <2> QED BY <1>1, <1>2, <1>3, <2>1, CurrentReplaced
<1>5. Reading("import", cache[p], r, path[p], base[p])
  BY <1>1, <1>2 DEF Reading
<1>6. pc'[p] = "import"
  BY DEF Goto, Inv, TypeOK
<1>7. LargeTypes(p)'
  BY <1>4 DEF Running, LargeTypes
<1>8. OK(p)'
  BY <1>4, <1>5, <1>6 DEF Running, OK, ProcessOK
<1> QED BY <1>7, <1>8, InvKept

LEMMA ImportedStep ==
  ASSUME Inv, NEW p \in Procs, Imported(p), UNCHANGED project
  PROVE  Inv'
<1>1. Running(p) /\ pc[p] = "result"
  BY RunningProcess DEF Imported, Ended
<1>2. Goal(p) \in Modules
  BY <1>1 DEF Running, Reading
<1>3. Local(p)
  BY DEF Local, Imported, SetCurrent, Goto, memoryVars, readVars, Inv, TypeOK
<1>4. SharedTypes' /\ SmallTypes(p)'
  BY <1>1, <1>2 DEF Running, SharedTypes, SmallTypes, Inv, TypeOK, Imported, Unlocked, Goto,
     memoryVars, readVars, Pcs
<1> QED BY <1>1, <1>3, <1>4, ImportOver DEF Imported, memoryVars, readVars

LEMMA NeedsBuildStep ==
  ASSUME Inv, NEW p \in Procs, NeedsBuild(p), UNCHANGED project
  PROVE  Inv'
<1>1. Running(p) /\ pc[p] = "result"
  BY RunningProcess DEF NeedsBuild, Ended
<1>2. UNCHANGED <<sharedVars, memoryVars, readVars, waitsFor>>
  BY DEF NeedsBuild
<1>3. CASE Goto(p, "import") /\ SetCurrent(p, AfterImport(Current(p), FALSE))
  <2>1. Local(p)
    BY <1>2, <1>3 DEF Local, SetCurrent, Goto, memoryVars, readVars, Inv, TypeOK
  <2>2. SharedTypes' /\ SmallTypes(p)'
    BY <1>1, <1>2, <1>3 DEF Running, SharedTypes, SmallTypes, Inv, TypeOK, Goto,
       sharedVars, memoryVars, readVars, Pcs
  <2> QED BY <1>1, <1>2, <1>3, <2>1, <2>2, ImportOver DEF memoryVars, readVars
<1>4. CASE Goto(p, "lock") /\ UNCHANGED stack
  <2>1. Local(p)
    BY <1>2, <1>4 DEF Local, Goto, memoryVars, readVars, Inv, TypeOK
  <2>2. SharedTypes' /\ SmallTypes(p)'
    BY <1>1, <1>2, <1>4 DEF Running, SharedTypes, SmallTypes, Inv, TypeOK, Goto,
       sharedVars, memoryVars, readVars, Pcs
  <2>3. Reading("lock", cache[p], Current(p), path[p], base[p])
    BY <1>1 DEF Running, Reading
  <2>4. pc'[p] = "lock" /\ base'[p] = base[p] /\ seen'[p] = seen[p]
    BY <1>2, <1>4 DEF Goto, memoryVars, readVars, Inv, TypeOK
  <2> QED BY <1>1, <1>2, <1>4, <2>1, <2>2, <2>3, <2>4, Turns
      DEF memoryVars, readVars, Running, LargeTypes, StillSeen
<1> QED BY <1>3, <1>4 DEF NeedsBuild

LEMMA NotBuiltStep ==
  ASSUME Inv, NEW p \in Procs, NotBuilt(p), UNCHANGED project
  PROVE  Inv'
<1>1. Running(p) /\ pc[p] = "result"
  BY RunningProcess DEF NotBuilt, Ended
<1>2. Goal(p) \in Modules
  BY <1>1 DEF Running, Reading
<1>3. Local(p)
  BY DEF Local, NotBuilt, SetCurrent, Goto, memoryVars, readVars, Inv, TypeOK
<1>4. SharedTypes' /\ SmallTypes(p)'
  BY <1>1, <1>2 DEF Running, SharedTypes, SmallTypes, Inv, TypeOK, NotBuilt, Unlocked, Goto,
     readVars, Pcs
<1> QED BY <1>1, <1>3, <1>4, ImportOver DEF NotBuilt, readVars

\* A nested CompilerInstance.
LEMMA CompileStep ==
  ASSUME Inv, NEW p \in Procs, pc[p] = "lock", NEW l \in {"owned", "error"}, Compile(p, l),
         SharedTypes', UNCHANGED project
  PROVE  Inv'
<1> DEFINE m == Goal(p)
           st == stack[p]
           n == Len(st)
           c == cache[p]
           t == seen'[p]
           i == [mod |-> m, todo |-> Imports[project][m][t[m]], chain |-> <<>>,
                 err |-> FALSE, locked |-> l]
           new == Append(st, i)
<1>1. Running(p)
  BY RunningProcess DEF Ended
<1>2. /\ Current(p).todo # <<>> /\ path[p] = <<>>
      /\ Settled(c, Current(p).chain, Len(Current(p).chain))
      /\ m \in Modules /\ m \in Sources
      /\ st \in Seq(Instances) /\ n \in Nat \ {0} /\ Current(p) = st[n]
      /\ DOMAIN st = 1..n /\ HasSources(st) /\ Building(c, seen[p], st)
      /\ seen[p] \in Seens /\ c \in Caches /\ Entries(c) /\ Finals(c, seen[p])
  BY <1>1, LenProperties DEF Running, Reading, LargeTypes
<1>3. /\ seen' = [seen EXCEPT ![p] = t] /\ t \in Seens /\ StillSeen(seen[p], t)
      /\ t[m] \in Versions
  <2>1. seen' = [seen EXCEPT ![p] = Stat(p, m)]
    BY DEF Compile
  <2>2. t = Stat(p, m)
    BY <2>1 DEF Inv, TypeOK
  <2> QED BY <1>2, <2>1, <2>2, StatSees
<1>4. i.todo \in Seq(Sources) /\ i.todo \in Seq(Modules)
  <2>1. Imports[project][m] \in [Versions -> Seq(Sources)] /\ Sources \subseteq Modules
    BY <1>2, ModulesAssumption DEF Sources, Inv, TypeOK
  <2>2. i.todo \in Seq(Sources)
    BY <1>3, <2>1
  <2> QED BY <2>1, <2>2, SeqMonotonic
<1>5. i \in Instances /\ i.mod = m /\ i.chain = <<>>
  <2>1. <<>> \in Seq([mod : Modules, pcm : PCMs, direct : BOOLEAN])
    OBVIOUS
  <2> QED BY <1>2, <1>4, <2>1 DEF Instances
<1>6. /\ stack' = [stack EXCEPT ![p] = new] /\ Goto(p, "import")
      /\ UNCHANGED <<header, disk, cache, known, failed, readVars, waitsFor>>
  BY DEF Compile
<1>7. Goal(p) = Head(st[n].todo)
  BY <1>2 DEF Goal
<1>h. n = Len(st)
  OBVIOUS
<1> HIDE DEF m, st, c, t, i, n
<1>8. /\ new \in Seq(Instances) /\ Len(new) = n + 1 /\ new # <<>> /\ new[n + 1] = i
      /\ \A k \in 1..n : new[k] = st[k]
  BY <1>2, <1>5, <1>h, AppendProperties
<1>9. DOMAIN new = 1..(n + 1)
  BY <1>8, LenProperties
<1> HIDE DEF new
<1>10. Building(c, t, st)
  BY <1>2, <1>3, BuildingKept DEF KeepsFinals
<1>11. Building(c, t, new)
  <2>1. new[1].mod = Nobody
    <3>1. 1 \in 1..n
      BY <1>2
    <3> QED BY <1>8, <1>10, <3>1 DEF Building
  <2>2. ASSUME NEW k \in 2..(n + 1) PROVE new[k].mod \in Modules /\ t[new[k].mod] \in Versions
    <3>1. CASE k = n + 1
      BY <1>2, <1>3, <1>5, <1>8, <3>1
    <3>2. CASE k # n + 1
      <4>1. k \in 1..n /\ k \in 2..n
        BY <1>2, <3>2
      <4> QED BY <1>8, <1>10, <1>h, <4>1 DEF Building
    <3> QED BY <3>1, <3>2
  <2>3. ASSUME NEW k \in 1..((n + 1) - 1)
        PROVE  /\ new[k].todo # <<>> /\ Head(new[k].todo) = new[k + 1].mod
               /\ Settled(c, new[k].chain, Len(new[k].chain))
    <3>1. CASE k = n
      <4>1. new[k] = Current(p) /\ new[k + 1] = i
        BY <1>2, <1>8, <3>1
      <4>2. Head(Current(p).todo) = m
        BY <1>2, <1>7 DEF m
      <4> QED BY <1>2, <1>5, <4>1, <4>2
    <3>2. CASE k # n
      <4>1. k \in 1..n /\ k + 1 \in 1..n /\ k \in 1..(n - 1)
        BY <1>2, <3>2
      <4>2. new[k] = st[k] /\ new[k + 1] = st[k + 1]
        BY <1>8, <4>1
      <4> QED BY <1>10, <1>h, <4>1, <4>2 DEF Building
    <3> QED BY <3>1, <3>2
  <2> QED BY <1>8, <2>1, <2>2, <2>3 DEF Building
<1>12. HasSources(new)
  <2> SUFFICES ASSUME NEW k \in 1..(n + 1) PROVE new[k].todo \in Seq(Sources)
    BY <1>9 DEF HasSources
  <2>1. k = n + 1 \/ k \in 1..n
    BY <1>2
  <2> QED BY <1>2, <1>4, <1>8, <2>1 DEF HasSources
<1>13. Reading("import", c, i, path[p], base[p])
  <2>1. Len(<<>>) = 0 /\ 1..0 = {}
    OBVIOUS
  <2> QED BY <1>2, <1>5, <2>1 DEF Reading, Settled
<1>14. /\ stack'[p] = new /\ stack' = [stack EXCEPT ![p] = stack'[p]]
       /\ pc'[p] = "import" /\ pc' = [pc EXCEPT ![p] = pc'[p]]
  BY <1>6 DEF Goto, Inv, TypeOK
<1>15. Local(p)
  BY <1>3, <1>6, <1>14 DEF Local, readVars, Inv, TypeOK, t
<1>16. SmallTypes(p)'
  BY <1>1, <1>6, <1>14 DEF Running, SmallTypes, readVars, Pcs
<1>17. LargeTypes(p)'
  BY <1>1, <1>3, <1>6, <1>8, <1>14 DEF Running, LargeTypes, readVars, t
<1>18. HasSources(stack[p])'
  BY <1>12, <1>14 DEF HasSources, Sources
<1>19. Finals(c, t)
  BY <1>2, <1>3, FinalsKept DEF KeepsFinals
<1>20. OK(p)'
  BY <1>2, <1>6, <1>8, <1>11, <1>13, <1>14, <1>18, <1>19 DEF OK, ProcessOK, readVars, c, t
<1> QED BY <1>15, <1>16, <1>17, <1>20, InvKept

LEMMA LockOwnedStep ==
  ASSUME Inv, NEW p \in Procs, LockOwned(p), UNCHANGED project
  PROVE  Inv'
<1>1. Running(p)
  BY RunningProcess DEF LockOwned, Ended
<1>2. SharedTypes'
  BY <1>1 DEF Running, Reading, SharedTypes, LockOwned, Compile
<1> QED BY <1>2, CompileStep DEF LockOwned

LEMMA LockErrorStep ==
  ASSUME Inv, NEW p \in Procs, LockError(p), UNCHANGED project
  PROVE  Inv'
<1>1. Running(p)
  BY RunningProcess DEF LockError, Ended
<1>2. SharedTypes'
  BY <1>1 DEF Running, Reading, SharedTypes, LockError, Compile
<1> QED BY <1>2, CompileStep DEF LockError

-----------------------------------------------------------------------------
(* The end of a nested compilation. *)

\* Its instance, and the one that imports its module.
LEMMA NestedInstance ==
  ASSUME NEW p \in Procs, Running(p), Current(p).mod # Nobody \/ Nested(p)
  PROVE  /\ Nested(p) /\ Current(p).mod \in Modules /\ seen[p][Current(p).mod] \in Versions
         /\ Front(stack[p]) \in Seq(Instances) /\ Front(stack[p]) # <<>>
         /\ HasSources(Front(stack[p])) /\ Building(cache[p], seen[p], Front(stack[p]))
         /\ LET i == Last(Front(stack[p])) IN
            /\ i \in Instances /\ i.todo # <<>> /\ i.todo \in Seq(Sources)
            /\ Settled(cache[p], i.chain, Len(i.chain))
            /\ DOMAIN i.chain = 1..Len(i.chain) /\ Len(i.chain) \in Nat
            /\ i = Front(stack[p])[Len(Front(stack[p]))]
<1> DEFINE st == stack[p]
           n == Len(st)
           f == Front(st)
           i == Last(f)
           c == cache[p]
<1>1. /\ st \in Seq(Instances) /\ st # <<>> /\ n \in Nat \ {0} /\ DOMAIN st = 1..n
      /\ Current(p) = st[n] /\ Building(c, seen[p], st) /\ HasSources(st)
  BY LenProperties DEF Running, LargeTypes
<1>2. Nested(p) /\ n > 1
  BY <1>1 DEF Nested, Building
<1>3. Current(p).mod \in Modules /\ seen[p][Current(p).mod] \in Versions
  <2>1. n \in 2..n
    BY <1>1, <1>2
  <2> QED BY <1>1, <2>1 DEF Building
<1>4. /\ f \in Seq(Instances) /\ Len(f) = n - 1 /\ \A k \in 1..(n - 1) : f[k] = st[k]
  BY <1>1, FrontProperties
<1>h. n = Len(st)
  OBVIOUS
<1> HIDE DEF st, n, f, c
<1>5. f # <<>> /\ DOMAIN f = 1..(n - 1) /\ n - 1 \in 1..(n - 1) /\ i = st[n - 1]
      /\ i = f[Len(f)]
  <2>1. f # <<>>
    <3>1. Len(f) \in Nat \ {0}
      BY <1>1, <1>2, <1>4
    <3>2. Len(<<>>) = 0
      OBVIOUS
    <3> QED BY <3>1, <3>2
  <2>2. DOMAIN f = 1..(n - 1)
    BY <1>4, LenProperties
  <2>3. n - 1 \in 1..(n - 1)
    BY <1>1, <1>2
  <2> QED BY <1>4, <2>1, <2>2, <2>3 DEF Last
<1>6. HasSources(f)
  <2> SUFFICES ASSUME NEW k \in 1..(n - 1) PROVE f[k].todo \in Seq(Sources)
    BY <1>5 DEF HasSources
  <2>1. k \in 1..n
    BY <1>1
  <2> QED BY <1>1, <1>4, <2>1 DEF HasSources
<1>7. Building(c, seen[p], f)
  <2>1. f[1].mod = Nobody
    <3>1. 1 \in 1..(n - 1)
      BY <1>1, <1>2
    <3> QED BY <1>1, <1>4, <3>1 DEF Building
  <2>2. ASSUME NEW k \in 2..(n - 1) PROVE f[k].mod \in Modules /\ seen[p][f[k].mod] \in Versions
    <3>1. k \in 1..(n - 1) /\ k \in 2..n
      BY <1>1
    <3> QED BY <1>1, <1>4, <1>h, <3>1 DEF Building
  <2>3. ASSUME NEW k \in 1..((n - 1) - 1)
        PROVE  /\ f[k].todo # <<>> /\ Head(f[k].todo) = f[k + 1].mod
               /\ Settled(c, f[k].chain, Len(f[k].chain))
    <3>1. k \in 1..(n - 1) /\ k + 1 \in 1..(n - 1)
      BY <1>1
    <3> QED BY <1>1, <1>4, <1>h, <3>1 DEF Building
  <2> QED BY <1>4, <1>5, <2>1, <2>2, <2>3 DEF Building
<1>8. /\ i \in Instances /\ i.todo # <<>> /\ i.todo \in Seq(Sources)
      /\ Settled(c, i.chain, Len(i.chain))
      /\ DOMAIN i.chain = 1..Len(i.chain) /\ Len(i.chain) \in Nat
  <2>1. n - 1 \in 1..n
    BY <1>1, <1>2
  <2>2. /\ i \in Instances /\ DOMAIN i.chain = 1..Len(i.chain) /\ Len(i.chain) \in Nat
    BY <1>1, <1>5, <1>h, <2>1, InstancesTyped
  <2> QED BY <1>1, <1>5, <1>h, <2>1, <2>2 DEF Building, HasSources
<1> QED BY <1>2, <1>3, <1>4, <1>5, <1>6, <1>7, <1>8 DEF st, f, c

LEMMA RenameStep ==
  ASSUME Inv, NEW p \in Procs, Rename(p), UNCHANGED project
  PROVE  Inv'
<1> DEFINE f == Front(stack[p])
           i == Last(f)
           m == Current(p).mod
           c == cache[p]
<1>1. Running(p) /\ pc[p] = "rename" /\ m # Nobody /\ path[p] = <<>>
  <2>1. Running(p) /\ pc[p] = "rename"
    BY RunningProcess DEF Rename, Ended
  <2> QED BY <2>1 DEF Running, Reading
<1>2. /\ m \in Modules /\ f \in Seq(Instances) /\ f # <<>> /\ HasSources(f)
      /\ Building(c, seen[p], f) /\ i = f[Len(f)] /\ i \in Instances /\ i.todo # <<>>
      /\ Settled(c, i.chain, Len(i.chain))
      /\ DOMAIN i.chain = 1..Len(i.chain) /\ Len(i.chain) \in Nat
  BY <1>1, NestedInstance
<1>3. Reading("read", c, i, <<>>, Len(i.chain))
  BY <1>2, StartsReading
<1>4. /\ disk' = [disk EXCEPT ![m] = c[m].buffer]
      /\ stack' = [stack EXCEPT ![p] = f] /\ base' = [base EXCEPT ![p] = Len(i.chain)]
      /\ attempt' = [attempt EXCEPT ![p] = Current(p).locked]
      /\ pc' = [pc EXCEPT ![p] = "read"]
      /\ UNCHANGED <<header, lock, memoryVars, path, result, waitsFor>>
  BY DEF Rename, StartRead, Goto
<1>5. Current(p).locked \in {"owned", "error"} /\ c[m].buffer \in PCMs \cup {NoPCM}
  BY <1>1, <1>2 DEF Running, Instances, LargeTypes, Caches
<1> HIDE DEF f, i, m, c
<1>6. /\ stack'[p] = f /\ stack' = [stack EXCEPT ![p] = stack'[p]]
      /\ base'[p] = Len(i.chain) /\ base' = [base EXCEPT ![p] = base'[p]]
      /\ attempt'[p] \in {"first", "owned", "error", "waited"}
      /\ attempt' = [attempt EXCEPT ![p] = attempt'[p]]
      /\ pc'[p] = "read" /\ pc' = [pc EXCEPT ![p] = pc'[p]]
  BY <1>4, <1>5 DEF Inv, TypeOK
<1>7. Local(p)
  BY <1>4, <1>6 DEF Local, memoryVars, Inv, TypeOK
<1>8. SharedTypes'
  BY <1>1, <1>4, <1>5 DEF Running, SharedTypes
<1>9. SmallTypes(p)'
  BY <1>1, <1>4, <1>6 DEF Running, SmallTypes, memoryVars, Pcs
<1>10. LargeTypes(p)'
  BY <1>1, <1>2, <1>4, <1>6 DEF Running, LargeTypes, memoryVars
<1>11. HasSources(stack[p])'
  BY <1>2, <1>6 DEF HasSources, Sources
<1>12. OK(p)'
  BY <1>1, <1>2, <1>3, <1>4, <1>6, <1>11 DEF Running, OK, ProcessOK, memoryVars, c
<1> QED BY <1>7, <1>8, <1>9, <1>10, <1>12, InvKept

LEMMA CompileFailedStep ==
  ASSUME Inv, NEW p \in Procs, CompileFailed(p), UNCHANGED project
  PROVE  Inv'
<1> DEFINE f == Front(stack[p])
           i == Last(f)
           m == Current(p).mod
           c == cache[p]
           r == AfterImport(i, FALSE)
           new == Append(Front(f), r)
<1>1. Running(p) /\ path[p] = <<>> /\ (m # Nobody \/ Nested(p))
  <2>1. pc[p] \in {"import", "rename"} /\ (Nested(p) \/ pc[p] = "rename")
    BY DEF CompileFailed, AtEnd
  <2>2. Running(p)
    BY <2>1, RunningProcess DEF Ended
  <2> QED BY <2>1, <2>2 DEF Running, Reading
<1>2. /\ m \in Modules /\ f \in Seq(Instances) /\ f # <<>> /\ HasSources(f)
      /\ Building(c, seen[p], f) /\ i = f[Len(f)] /\ i \in Instances /\ i.todo # <<>>
      /\ i.todo \in Seq(Sources) /\ Settled(c, i.chain, Len(i.chain))
  BY <1>1, NestedInstance
<1>3. /\ r \in Instances /\ r.mod = i.mod /\ r.chain = i.chain /\ r.todo \in Seq(Sources)
  BY <1>2, AfterImportTyped, HeadTailProperties
<1>4. /\ lock' = Unlocked(p, m, Current(p).locked)
      /\ failed' = [failed EXCEPT ![p] = @ \cup {m}]
      /\ stack' = [stack EXCEPT ![p] = new] /\ pc' = [pc EXCEPT ![p] = "import"]
      /\ UNCHANGED <<header, disk, cache, known, seen, readVars, waitsFor>>
  BY DEF CompileFailed, Goto
<1> HIDE DEF f, i, m, c, r
<1>5. /\ new \in Seq(Instances) /\ new[Len(new)] = r
      /\ HasSources(new) /\ Building(c, seen[p], new)
  BY <1>2, <1>3, LastReplaced
<1> HIDE DEF new
<1>6. Reading("import", c, r, path[p], base[p])
  BY <1>1, <1>2, <1>3 DEF Reading
<1>7. /\ stack'[p] = new /\ stack' = [stack EXCEPT ![p] = stack'[p]]
      /\ failed'[p] \in SUBSET Modules /\ failed' = [failed EXCEPT ![p] = failed'[p]]
      /\ pc'[p] = "import" /\ pc' = [pc EXCEPT ![p] = pc'[p]]
  BY <1>2, <1>4 DEF Inv, TypeOK
<1>8. Local(p)
  BY <1>4, <1>7 DEF Local, readVars, Inv, TypeOK
<1>9. SharedTypes'
  BY <1>1, <1>2, <1>4 DEF Running, SharedTypes, Unlocked
<1>10. SmallTypes(p)'
  BY <1>1, <1>4, <1>7 DEF Running, SmallTypes, readVars, Pcs
<1>11. LargeTypes(p)'
  BY <1>1, <1>4, <1>5, <1>7 DEF Running, LargeTypes, readVars
<1>12. HasSources(stack[p])'
  BY <1>5, <1>7 DEF HasSources, Sources
<1>13. OK(p)'
  BY <1>1, <1>4, <1>5, <1>6, <1>7, <1>12 DEF Running, OK, ProcessOK, readVars, c
<1> QED BY <1>8, <1>9, <1>10, <1>11, <1>13, InvKept

\* The PCM that a nested instance makes of what it has imported.
LEMMA MadePCM ==
  ASSUME NEW c \in Caches, NEW s, Entries(c), Finals(c, s), NEW i \in Instances,
         Settled(c, i.chain, Len(i.chain)), NEW v \in Versions
  PROVE  LET x == [src |-> v, imports |-> ImportsOf(i)] IN
         /\ x \in PCMs
         /\ \A k \in DOMAIN x.imports : Accepted(c, x.imports[k].mod, x.imports[k].sig)
<1> DEFINE E == [mod : Modules, pcm : PCMs, direct : BOOLEAN]
           di == Direct(i.chain)
           im == ImportsOf(i)
<1>1. i.chain \in Seq(E)
  BY DEF Instances
<1>2. /\ di \in Seq(E)
      /\ \A k \in DOMAIN di : \E j \in 1..Len(i.chain) : di[k] = i.chain[j]
  BY <1>1, DirectProperties
<1>3. Len(di) \in Nat /\ DOMAIN di = 1..Len(di)
  BY <1>2, LenProperties
<1>4. im = [k \in 1..Len(di) |-> [mod |-> di[k].mod, sig |-> di[k].pcm]]
  BY <1>3 DEF ImportsOf
<1> HIDE DEF di, im
<1>5. ASSUME NEW k \in 1..Len(di)
      PROVE  /\ im[k] = [mod |-> di[k].mod, sig |-> di[k].pcm]
             /\ im[k] \in [mod : Modules, sig : PCMs]
             /\ Accepted(c, im[k].mod, im[k].sig)
             /\ Height(im[k].sig) < Cardinality(Modules)
  <2>1. im[k] = [mod |-> di[k].mod, sig |-> di[k].pcm]
    BY <1>4
  <2>2. di[k] \in E
    BY <1>2, <1>3, ElementOfSeq
  <2>3. PICK j \in 1..Len(i.chain) : di[k] = i.chain[j]
    BY <1>2, <1>3
  <2>4. Accepted(c, di[k].mod, di[k].pcm)
    BY <2>3 DEF Settled
  <2>5. im[k] \in [mod : Modules, sig : PCMs] /\ im[k].mod = di[k].mod /\ im[k].sig = di[k].pcm
        /\ di[k].mod \in Modules
    BY <2>1, <2>2
  <2>6. Height(im[k].sig) < Cardinality(Modules)
    BY <2>4, <2>5, FinalHeights DEF Accepted
  <2> QED BY <2>1, <2>4, <2>5, <2>6
<1>6. im \in Seq([mod : Modules, sig : PCMs]) /\ DOMAIN im = 1..Len(di)
  BY <1>3, <1>4, <1>5, IsASeq
<1>7. [src |-> v, imports |-> im] \in PCMs
  BY <1>5, <1>6, PCMMade
<1> QED BY <1>5, <1>6, <1>7 DEF im

LEMMA WriteASTStep ==
  ASSUME Inv, NEW p \in Procs, WriteAST(p), UNCHANGED project
  PROVE  Inv'
<1> DEFINE i == Current(p)
           m == i.mod
           c == cache[p]
           x == [src |-> seen[p][m], imports |-> ImportsOf(i)]
           d == addBuiltPCM(c, m, x)
<1>1. Running(p) /\ pc[p] = "import" /\ Nested(p)
  BY RunningProcess DEF WriteAST, AtEnd, Ended
<1>2. /\ c \in Caches /\ seen[p] \in Seens /\ stack[p] \in Seq(Instances)
      /\ Entries(c) /\ Finals(c, seen[p]) /\ Building(c, seen[p], stack[p])
      /\ i \in Instances /\ i.chain \in Chains /\ Len(i.chain) \in Nat
      /\ Settled(c, i.chain, Len(i.chain)) /\ path[p] = <<>>
      /\ i = stack[p][Len(stack[p])]
  BY <1>1 DEF Running, LargeTypes, Reading
<1>3. m \in Modules /\ seen[p][m] \in Versions /\ m # Nobody
  BY <1>1, NestedInstance, ModulesAssumption
<1>4. /\ x \in PCMs /\ x # NoPCM /\ x.src = seen[p][m]
      /\ \A k \in DOMAIN x.imports : Accepted(c, x.imports[k].mod, x.imports[k].sig)
  <2>1. /\ x \in PCMs
        /\ \A k \in DOMAIN x.imports : Accepted(c, x.imports[k].mod, x.imports[k].sig)
    BY <1>2, <1>3, MadePCM
  <2> QED BY <2>1, PCMsAssumption
<1>5. /\ UNCHANGED <<sharedVars, known, seen, failed, stack, readVars, waitsFor>>
      /\ \/ /\ ~c[m].isFinal /\ c[m].buffer = NoPCM
            /\ cache' = [cache EXCEPT ![p] = d] /\ Goto(p, "rename")
         \/ Goto(p, "aborted") /\ UNCHANGED cache
  BY DEF WriteAST, addBuiltPCMAsserts
<1>6. d = [c EXCEPT ![m] = [present |-> TRUE, buffer |-> x, isFinal |-> TRUE]]
  BY DEF addBuiltPCM
<1> HIDE DEF i, m, c, x, d
<1>7. CASE Goto(p, "aborted") /\ UNCHANGED cache
  <2>1. Local(p) /\ pc'[p] = "aborted"
    BY <1>5, <1>7 DEF Local, Goto, readVars, Inv, TypeOK
  <2>2. SharedTypes' /\ SmallTypes(p)'
    BY <1>1, <1>5, <1>7 DEF Running, SharedTypes, SmallTypes, sharedVars, readVars, Pcs, Ended,
       Goto, Inv, TypeOK
  <2>3. pc'[p] \in Ended
    BY <2>1 DEF Ended
  <2> QED BY <1>1, <1>2, <1>5, <1>7, <2>1, <2>2, <2>3, Turns
      DEF StillSeen, readVars, Running, LargeTypes
<1>8. CASE /\ ~c[m].isFinal /\ c[m].buffer = NoPCM
           /\ cache' = [cache EXCEPT ![p] = d] /\ Goto(p, "rename")
  <2>1. /\ d \in Caches /\ d[m] = [present |-> TRUE, buffer |-> x, isFinal |-> TRUE]
        /\ \A k \in Modules : k # m => d[k] = c[k]
    BY <1>2, <1>3, <1>4, <1>6 DEF Caches
  <2>2. Entries(d) /\ KeepsFinals(c, d)
    BY <1>2, <1>4, <1>8, <2>1 DEF Entries, KeepsFinals
  <2>3. StillSeen(seen[p], seen[p])
    BY DEF StillSeen
  <2>4. Finals(d, seen[p])
    <3>1. \A k \in Modules : d[k].isFinal /\ ~c[k].isFinal =>
            /\ d[k].buffer.src = seen[p][k]
            /\ \A j \in DOMAIN d[k].buffer.imports :
                 Accepted(c, d[k].buffer.imports[j].mod, d[k].buffer.imports[j].sig)
      BY <1>4, <2>1
    <3> QED BY <1>2, <2>1, <2>2, <2>3, <3>1, FinalsKept
  <2>5. Building(d, seen[p], stack[p]) /\ Settled(d, i.chain, Len(i.chain))
    BY <1>2, <2>2, <2>3, BuildingKept, SettledKept
  <2>6. Reading("rename", d, i, path[p], base[p])
    BY <1>2, <1>3, <2>5 DEF Reading, m
  <2>7. /\ cache'[p] = d /\ cache' = [cache EXCEPT ![p] = cache'[p]]
        /\ pc'[p] = "rename" /\ pc' = [pc EXCEPT ![p] = pc'[p]]
    BY <1>8 DEF Goto, Inv, TypeOK
  <2>8. Local(p)
    BY <1>5, <2>7 DEF Local, readVars, Inv, TypeOK
  <2>9. SharedTypes' /\ SmallTypes(p)'
    BY <1>1, <1>5, <2>7 DEF Running, SharedTypes, SmallTypes, sharedVars, readVars, Pcs
  <2>10. LargeTypes(p)'
    BY <1>1, <1>5, <2>1, <2>7 DEF Running, LargeTypes, readVars
  <2>11. HasSources(stack[p])'
    BY <1>1, <1>5 DEF Running, HasSources, Sources
  <2>12. OK(p)'
    BY <1>2, <1>5, <2>2, <2>4, <2>5, <2>6, <2>7, <2>11 DEF OK, ProcessOK, readVars
  <2> QED BY <2>8, <2>9, <2>10, <2>12, InvKept
<1> QED BY <1>5, <1>7, <1>8

-----------------------------------------------------------------------------
(* The invariant holds, and what it is for. *)

\* A step of nobody's.
LEMMA Elsewhere ==
  ASSUME Inv, SharedTypes', UNCHANGED <<project, pc, memoryVars, stack, readVars, waitsFor>>
  PROVE  Inv'
<1>1. TypeOK'
  BY DEF Inv, TypeOK, SharedTypes, memoryVars, readVars
<1>2. ASSUME NEW p \in Procs
      PROVE  OK(p)'
  <2>1. HasSources(stack[p]) /\ ProcessOK(pc[p], cache[p], seen[p], stack[p], path[p], base[p])
    BY DEF Inv
  <2>2. HasSources(stack[p])'
    BY <2>1 DEF HasSources, Sources
  <2> QED BY <2>1, <2>2 DEF OK, memoryVars, readVars
<1> QED BY <1>1, <1>2 DEF Inv, OK

LEMMA InvPreserved == Inv /\ [Next]_vars => Inv'
<1> SUFFICES ASSUME Inv, [Next]_vars PROVE Inv'
  OBVIOUS
<1>0. SharedTypes
  BY DEF Inv, TypeOK, SharedTypes
<1>1. ASSUME NEW p \in Procs, Step(p) \/ LockError(p) \/ WaitTimeout(p) \/ Crash(p),
             UNCHANGED project
      PROVE  Inv'
  <2>1. CASE BeginImport(p) BY <1>1, <2>1, BeginImportStep
  <2>2. CASE ReadAST(p) BY <1>1, <2>2, ReadASTStep
  <2>3. CASE Imported(p) BY <1>1, <2>3, ImportedStep
  <2>4. CASE NeedsBuild(p) BY <1>1, <2>4, NeedsBuildStep
  <2>5. CASE TryAgain(p) BY <1>1, <2>5, TryAgainStep
  <2>6. CASE NotBuilt(p) BY <1>1, <2>6, NotBuiltStep
  <2>7. CASE LockOwned(p) BY <1>1, <2>7, LockOwnedStep
  <2>8. CASE LockShared(p) BY <1>1, <2>8, LockSharedStep
  <2>9. CASE WaitForUnlock(p) BY <1>1, <2>9, WaitForUnlockStep
  <2>10. CASE WriteAST(p) BY <1>1, <2>10, WriteASTStep
  <2>11. CASE Rename(p) BY <1>1, <2>11, RenameStep
  <2>12. CASE CompileFailed(p) BY <1>1, <2>12, CompileFailedStep
  <2>13. CASE Finish(p) BY <1>1, <2>13, FinishStep
  <2>14. CASE LockError(p) BY <1>1, <2>14, LockErrorStep
  <2>15. CASE WaitTimeout(p) BY <1>1, <2>15, WaitTimeoutStep
  <2>16. CASE Crash(p) BY <1>1, <2>16, CrashStep
  <2> QED BY <1>1, <2>1, <2>2, <2>3, <2>4, <2>5, <2>6, <2>7, <2>8, <2>9, <2>10, <2>11, <2>12,
             <2>13, <2>14, <2>15, <2>16 DEF Step
<1>2. ASSUME NEW m \in Modules, Edit(m), UNCHANGED project PROVE Inv'
  <2>1. header[m] \in Versions /\ header[m] + 1 \in Versions
    BY <1>0, <1>2, ModulesAssumption DEF SharedTypes, Edit, Versions
  <2>2. SharedTypes'
    BY <1>0, <1>2, <2>1 DEF SharedTypes, Edit
  <2> QED BY <1>2, <2>2, Elsewhere DEF Edit
<1>3. ASSUME NEW m \in Modules, Prune(m), UNCHANGED project PROVE Inv'
  <2>1. SharedTypes'
    BY <1>0, <1>3 DEF SharedTypes, Prune
  <2> QED BY <1>3, <2>1, Elsewhere DEF Prune
<1>4. CASE UNCHANGED vars
  <2>1. SharedTypes'
    BY <1>0, <1>4 DEF SharedTypes, vars, sharedVars
  <2> QED BY <1>4, <2>1, Elsewhere DEF vars
<1> QED BY <1>1, <1>2, <1>3, <1>4 DEF Next

LEMMA Invariant == Spec => []Inv
BY InitInv, InvPreserved, PTL DEF Spec

\* Type correctness: whatever is read and built, every PCM a process makes is one of the
\* finitely deep PCMs that the model has.
THEOREM TypeCorrect == Spec => []TypeOK
<1>1. Inv => TypeOK
  BY DEF Inv
<1> QED BY <1>1, Invariant, PTL

\* ASTReader and InMemoryModuleCache: a final PCM's imports are final, with the contents
\* it was built against; in every interleaving of any number of processes, whatever fails.
THEOREM FinalsFit == Spec => []FinalConsistent
<1>1. ASSUME Inv, NEW p \in Procs, NEW m \in Modules, cache[p][m].isFinal,
             NEW i \in ToSet(cache[p][m].buffer.imports)
      PROVE  cache[p][i.mod].isFinal /\ cache[p][i.mod].buffer = i.sig
  <2>1. Finals(cache[p], seen[p])
    BY <1>1 DEF Inv, ProcessOK
  <2>2. PICK k \in DOMAIN cache[p][m].buffer.imports : i = cache[p][m].buffer.imports[k]
    BY DEF ToSet
  <2> QED BY <1>1, <2>1, <2>2 DEF Finals, Accepted
<1>2. Inv => FinalConsistent
  BY <1>1 DEF FinalConsistent
<1> QED BY <1>2, Invariant, PTL

\* A final PCM agrees with what the process's FileManager says of the module's headers,
\* however often they are edited while it runs.
THEOREM FinalsAreFresh == Spec => []FinalFresh
<1>1. Inv => FinalFresh
  BY DEF Inv, ProcessOK, Finals, FinalFresh
<1> QED BY <1>1, Invariant, PTL

\* The modules the innermost instance has loaded are in the cache.
LEMMA ReadingChain ==
  ASSUME NEW l, NEW c, NEW i, NEW pa, NEW b \in Nat, Reading(l, c, i, pa, b),
         NEW j \in 1..Len(i.chain), Len(i.chain) \in Nat, DOMAIN i.chain = 1..Len(i.chain)
  PROVE  /\ c[i.chain[j].mod].buffer = i.chain[j].pcm \/ l = "unwind"
         /\ c[i.chain[j].mod].isFinal \/ j > b
<1>1. ASSUME NEW n \in Nat, j <= n, Settled(c, i.chain, n)
      PROVE  c[i.chain[j].mod].isFinal /\ c[i.chain[j].mod].buffer = i.chain[j].pcm
  <2>1. j \in 1..n
    BY <1>1
  <2> QED BY <1>1, <2>1 DEF Settled, Accepted
<1>2. CASE l \notin {"read", "unwind"}
  <2>1. Settled(c, i.chain, Len(i.chain))
    BY <1>2 DEF Reading
  <2>2. j <= Len(i.chain)
    OBVIOUS
  <2> QED BY <1>1, <2>1, <2>2
<1>3. CASE l \in {"read", "unwind"}
  <2>1. Settled(c, i.chain, b)
    BY <1>3 DEF Reading
  <2>2. j <= b => c[i.chain[j].mod].isFinal
    BY <1>1, <2>1
  <2>3. ASSUME l = "read" PROVE c[i.chain[j].mod].buffer = i.chain[j].pcm
    <3>1. Loading(c, i.chain, pa)
      BY <2>3 DEF Reading
    <3> QED BY <3>1 DEF Loading
  <2>4. j <= b \/ j > b
    OBVIOUS
  <2> QED BY <1>3, <2>2, <2>3, <2>4
<1> QED BY <1>2, <1>3

\* ModuleManager: in every CompilerInstance of a process, a module that is loaded has its
\* buffer in the cache, and only the current ReadAST has modules that are not final.
THEOREM LoadedModulesLive == Spec => []LoadedAlive
<1>1. ASSUME Inv, NEW p \in Procs, pc[p] \notin Ended, NEW i \in DOMAIN stack[p],
             NEW j \in DOMAIN stack[p][i].chain
      PROVE  LET e == stack[p][i].chain[j] IN
             /\ cache[p][e.mod].buffer = e.pcm \/ (i = Len(stack[p]) /\ pc[p] = "unwind")
             /\ cache[p][e.mod].isFinal \/ (i = Len(stack[p]) /\ j > base[p])
  <2> DEFINE chain == stack[p][i].chain
             n == Len(stack[p])
  <2>1. Running(p) /\ stack[p] \in Seq(Instances)
    BY <1>1, RunningProcess DEF Running, LargeTypes
  <2>2. n \in Nat \ {0} /\ DOMAIN stack[p] = 1..n
    BY <2>1, LenProperties DEF Running
  <2>3. j \in 1..Len(chain) /\ Len(chain) \in Nat /\ DOMAIN chain = 1..Len(chain)
    BY <2>1, <2>2, InstancesTyped
  <2>4. CASE i # n
    <3>1. i \in 1..(n - 1)
      BY <2>2, <2>4
    <3>2. Building(cache[p], seen[p], stack[p])
      BY <2>1 DEF Running
    <3>3. Settled(cache[p], chain, Len(chain))
      BY <3>1, <3>2 DEF Building
    <3> QED BY <2>3, <3>3 DEF Settled, Accepted
  <2>5. CASE i = n
    <3>1. Reading(pc[p], cache[p], stack[p][i], path[p], base[p]) /\ base[p] \in Nat
      <4>1. Reading(pc[p], cache[p], Current(p), path[p], base[p])
            /\ Current(p) = stack[p][n]
        BY <2>1 DEF Running
      <4>2. base[p] \in Nat
        BY <2>1 DEF Running, LargeTypes
      <4> QED BY <2>5, <4>1, <4>2
    <3>2. /\ cache[p][chain[j].mod].buffer = chain[j].pcm \/ pc[p] = "unwind"
          /\ cache[p][chain[j].mod].isFinal \/ j > base[p]
      BY <2>3, <3>1, ReadingChain
    <3> QED BY <2>5, <3>2
  <2> QED BY <2>4, <2>5
<1>2. Inv => LoadedAlive
  BY <1>1 DEF LoadedAlive
<1> QED BY <1>2, Invariant, PTL

-----------------------------------------------------------------------------
(* The caches do what InMemoryModuleCache.h says, step by step. *)

\* One entry of one cache changes.
Put(p, d) == cache' = [cache EXCEPT ![p] = d]
Entry(c, m) == [state |-> getPCMState(c, m), buffer |-> c[m].buffer]
PutEntry(p, m, e) == Pcms' = [Pcms EXCEPT ![p][m] = e]

LEMMA OneEntry ==
  ASSUME Inv, NEW p \in Procs, NEW m \in Modules, NEW d \in Caches,
         Put(p, d), \A k \in Modules : k # m => d[k] = cache[p][k]
  PROVE  /\ PutEntry(p, m, Entry(d, m))
         /\ Pcms'[p][m] = Entry(d, m)
         /\ Pcms[p][m] = Entry(cache[p], m)
<1> DEFINE new == [state |-> getPCMState(d, m), buffer |-> d[m].buffer]
<1>1. cache'[p] = d /\ \A q \in Procs : q # p => cache'[q] = cache[q]
  BY DEF Inv, TypeOK, Put
<1>2. /\ Pcms = [q \in Procs |-> [k \in Modules |->
                   [state |-> getPCMState(cache[q], k), buffer |-> cache[q][k].buffer]]]
      /\ Pcms' = [q \in Procs |-> [k \in Modules |->
                   [state |-> getPCMState(cache'[q], k), buffer |-> cache'[q][k].buffer]]]
  BY DEF Pcms, State
<1>3. ASSUME NEW k \in Modules, k # m
      PROVE  getPCMState(d, k) = getPCMState(cache[p], k) /\ d[k].buffer = cache[p][k].buffer
  BY <1>3 DEF getPCMState
<1>4. ASSUME NEW q \in Procs, NEW k \in Modules
      PROVE  Pcms'[q][k] = IF q = p /\ k = m THEN new ELSE Pcms[q][k]
  <2>1. Pcms'[q][k] = [state |-> getPCMState(cache'[q], k), buffer |-> cache'[q][k].buffer]
        /\ Pcms[q][k] = [state |-> getPCMState(cache[q], k), buffer |-> cache[q][k].buffer]
    BY <1>2
  <2> HIDE DEF Pcms
  <2> QED BY <1>1, <1>3, <2>1
<1> HIDE DEF new
<1>5. Pcms' = [Pcms EXCEPT ![p][m] = new]
  <2> DEFINE e == [Pcms EXCEPT ![p][m] = new]
  <2>1. /\ e = [q \in Procs |-> [k \in Modules |-> IF q = p /\ k = m THEN new ELSE Pcms[q][k]]]
    BY <1>2
  <2>2. Pcms' = [q \in Procs |-> [k \in Modules |-> Pcms'[q][k]]]
    BY <1>2
  <2> QED BY <1>4, <2>1, <2>2
<1> QED BY <1>2, <1>4, <1>5 DEF new, Entry, PutEntry

LEMMA KeepMoves ==
  ASSUME Inv, NEW p \in Procs, NEW m \in Modules, pc[p] \notin Ended,
         State(p, m) # "ToBuild", Buffer(p, m) # NoPCM, Keep(p, m)
  PROVE  [CacheContract!ContractNext]_Pcms
<1> DEFINE d == addPCM(cache[p], m, Buffer(p, m))
<1>1. CASE State(p, m) = "Unknown"
  <2>1. Put(p, d) /\ cache[p] \in Caches /\ Entries(cache[p]) /\ Buffer(p, m) \in PCMs
    BY <1>1, RunningProcess, KeepsPCM DEF Keep, Put, Running, LargeTypes
  <2>2. /\ d \in Caches /\ \A k \in Modules : k # m => d[k] = cache[p][k]
        /\ d[m] = [present |-> TRUE, buffer |-> Buffer(p, m), isFinal |-> FALSE]
    BY <2>1 DEF addPCM, Caches
  <2>3. getPCMState(d, m) = "Tentative" /\ getPCMState(cache[p], m) = "Unknown"
    BY <1>1, <2>2 DEF getPCMState, State
  <2> HIDE DEF d
  <2>4. /\ PutEntry(p, m, Entry(d, m))
        /\ Pcms'[p][m] = Entry(d, m)
        /\ Pcms[p][m] = Entry(cache[p], m)
    BY <2>1, <2>2, OneEntry
  <2>5. CacheContract!Adds(p, m) /\ Pcms'[p][m].state # Pcms[p][m].state
    <3>1. /\ Entry(d, m) = [state |-> "Tentative", buffer |-> d[m].buffer]
          /\ Pcms'[p][m].buffer = d[m].buffer /\ Pcms'[p][m].state = "Tentative"
          /\ Pcms[p][m].state = "Unknown"
      BY <2>3, <2>4 DEF Entry
    <3>2. Pcms' = [Pcms EXCEPT ![p][m] = [state |-> "Tentative", buffer |-> d[m].buffer]]
      BY <2>4, <3>1 DEF PutEntry
    <3> HIDE DEF Pcms
    <3> QED BY <3>1, <3>2 DEF CacheContract!Adds, CacheContract!Moves
  <2> QED BY <2>5 DEF CacheContract!ContractNext
<1>2. CASE State(p, m) # "Unknown"
  BY <1>2 DEF Keep, Pcms, State
<1> QED BY <1>1, <1>2

LEMMA ValidateMoves ==
  ASSUME Inv, NEW p \in Procs, Validate(p)
  PROVE  [CacheContract!ContractNext]_Pcms
<1> DEFINE m == Last(path[p]).mod
           c == cache[p]
           d == finalizePCM(c, m)
<1>1. CASE UNCHANGED cache
  BY <1>1 DEF Pcms, State
<1>2. CASE cache' = [cache EXCEPT ![p] = d] /\ finalizePCMAsserts(c, m)
  <2>1. /\ path[p] \in Paths /\ path[p] # <<>> /\ c \in Caches
    BY RunningProcess DEF Validate, Ended, Running, LargeTypes
  <2>2. m \in Modules
    <3>1. Len(path[p]) \in DOMAIN path[p]
      BY <2>1, EmptySeq, LenProperties DEF Paths
    <3> QED BY <2>1, <3>1, PathsTyped DEF Last
  <2> HIDE DEF m, c
  <2>3. d = [c EXCEPT ![m].isFinal = TRUE]
    BY DEF finalizePCM
  <2> HIDE DEF d
  <2>4. /\ d \in Caches /\ \A k \in Modules : k # m => d[k] = c[k]
        /\ d[m].present = c[m].present /\ d[m].buffer = c[m].buffer /\ d[m].isFinal
    BY <2>1, <2>2, <2>3 DEF Caches
  <2>5. c[m].present /\ c[m].buffer # NoPCM
    BY <1>2 DEF finalizePCMAsserts
  <2>6. /\ PutEntry(p, m, Entry(d, m))
        /\ Pcms'[p][m] = Entry(d, m)
        /\ Pcms[p][m] = Entry(c, m)
    <3>1. Put(p, d)
      BY <1>2 DEF Put
    <3> QED BY <2>2, <2>4, <3>1, OneEntry DEF c
  <2>7. getPCMState(d, m) = "Final"
    BY <2>4, <2>5 DEF getPCMState
  <2>8. CASE c[m].isFinal
    <3>1. d = c
      <4>1. d[m] = c[m]
        BY <2>1, <2>2, <2>4, <2>8 DEF Caches
      <4> QED BY <2>1, <2>4, <4>1 DEF Caches
    <3>2. cache' = cache
      BY <1>2, <3>1 DEF Inv, TypeOK, c
    <3> QED BY <3>2 DEF Pcms, State
  <2>9. CASE ~c[m].isFinal
    <3>1. getPCMState(c, m) = "Tentative"
      BY <2>5, <2>9 DEF getPCMState
    <3>2. CacheContract!Finalizes(p, m) /\ Pcms'[p][m].state # Pcms[p][m].state
      BY <2>4, <2>6, <2>7, <3>1
         DEF CacheContract!Finalizes, CacheContract!Moves, PutEntry, Entry
    <3> QED BY <2>2, <3>2 DEF CacheContract!ContractNext
  <2> QED BY <2>8, <2>9
<1>3. UNCHANGED cache \/ (cache' = [cache EXCEPT ![p] = d] /\ finalizePCMAsserts(c, m))
  BY DEF Validate
<1> QED BY <1>1, <1>2, <1>3

LEMMA UnwindMoves ==
  ASSUME Inv, NEW p \in Procs, Unwind(p)
  PROVE  [CacheContract!ContractNext]_Pcms
<1> DEFINE m == Last(path[p]).mod
           c == cache[p]
           d == tryToDropPCM(c, m)
<1>1. CASE UNCHANGED cache
  BY <1>1 DEF Pcms, State
<1>2. CASE cache' = [cache EXCEPT ![p] = d] /\ tryToDropPCMAsserts(c, m)
  <2>1. path[p] \in Paths /\ path[p] # <<>> /\ c \in Caches
    BY RunningProcess DEF Unwind, Ended, Running, LargeTypes, Reading
  <2>2. m \in Modules
    <3>1. Len(path[p]) \in DOMAIN path[p]
      BY <2>1, EmptySeq, LenProperties DEF Paths
    <3> QED BY <2>1, <3>1, PathsTyped DEF Last
  <2>3. CASE c[m].isFinal
    <3>1. cache' = cache
      BY <1>2, <2>3 DEF tryToDropPCM, Inv, TypeOK
    <3> QED BY <3>1 DEF Pcms, State
  <2>4. CASE ~c[m].isFinal
    <3>1. d = [c EXCEPT ![m].buffer = NoPCM] /\ c[m].present /\ c[m].buffer # NoPCM
      BY <1>2, <2>4 DEF tryToDropPCM, tryToDropPCMAsserts
    <3> HIDE DEF d, m, c
    <3>2. /\ d \in Caches /\ \A k \in Modules : k # m => d[k] = c[k]
          /\ d[m].present = c[m].present /\ d[m].buffer = NoPCM /\ ~d[m].isFinal
      BY <2>1, <2>2, <2>4, <3>1 DEF Caches
    <3>3. getPCMState(d, m) = "ToBuild" /\ getPCMState(c, m) = "Tentative"
      BY <2>4, <3>1, <3>2 DEF getPCMState
    <3>6. Put(p, d)
      BY <1>2 DEF Put
    <3>4. /\ PutEntry(p, m, Entry(d, m))
          /\ Pcms'[p][m] = Entry(d, m)
          /\ Pcms[p][m] = Entry(c, m)
      BY <2>2, <3>2, <3>6, OneEntry DEF c
    <3>5. CacheContract!Drops(p, m) /\ Pcms'[p][m].state # Pcms[p][m].state
      BY <3>2, <3>3, <3>4 DEF CacheContract!Drops, CacheContract!Moves, PutEntry, Entry
    <3> QED BY <2>2, <3>5 DEF CacheContract!ContractNext
  <2> QED BY <2>3, <2>4
<1>3. UNCHANGED cache \/ (cache' = [cache EXCEPT ![p] = d] /\ tryToDropPCMAsserts(c, m))
  BY DEF Unwind
<1> QED BY <1>1, <1>2, <1>3

LEMMA WriteASTMoves ==
  ASSUME Inv, NEW p \in Procs, WriteAST(p)
  PROVE  [CacheContract!ContractNext]_Pcms
<1> DEFINE i == Current(p)
           m == i.mod
           c == cache[p]
           x == [src |-> seen[p][m], imports |-> ImportsOf(i)]
           d == addBuiltPCM(c, m, x)
<1>1. CASE UNCHANGED cache
  BY <1>1 DEF Pcms, State
<1>2. CASE cache' = [cache EXCEPT ![p] = d] /\ addBuiltPCMAsserts(c, m)
  <2>1. Running(p) /\ pc[p] = "import" /\ Nested(p)
    BY RunningProcess DEF WriteAST, AtEnd, Ended
  <2>2. /\ c \in Caches /\ Entries(c) /\ Finals(c, seen[p]) /\ i \in Instances
        /\ Settled(c, i.chain, Len(i.chain)) /\ m \in Modules /\ seen[p][m] \in Versions
    BY <2>1, NestedInstance DEF Running, LargeTypes, Reading
  <2>3. x \in PCMs
    BY <2>2, MadePCM
  <2>4. d = [c EXCEPT ![m] = [present |-> TRUE, buffer |-> x, isFinal |-> TRUE]]
        /\ ~c[m].isFinal /\ c[m].buffer = NoPCM
    BY <1>2 DEF addBuiltPCM, addBuiltPCMAsserts
  <2> HIDE DEF x, d, c, m
  <2>5. /\ d \in Caches /\ \A k \in Modules : k # m => d[k] = c[k]
        /\ d[m] = [present |-> TRUE, buffer |-> x, isFinal |-> TRUE]
    BY <2>2, <2>3, <2>4 DEF Caches
  <2>6. getPCMState(d, m) = "Final" /\ getPCMState(c, m) \in {"Unknown", "ToBuild"}
    BY <2>4, <2>5 DEF getPCMState
  <2>9. Put(p, d)
    BY <1>2 DEF Put
  <2>7. /\ PutEntry(p, m, Entry(d, m))
        /\ Pcms'[p][m] = Entry(d, m)
        /\ Pcms[p][m] = Entry(c, m)
    BY <2>2, <2>5, <2>9, OneEntry DEF c
  <2>8. CacheContract!AddsBuilt(p, m) /\ Pcms'[p][m].state # Pcms[p][m].state
    <3>1. /\ Entry(d, m) = [state |-> "Final", buffer |-> d[m].buffer]
          /\ Pcms'[p][m].buffer = d[m].buffer /\ Pcms'[p][m].state = "Final"
          /\ Pcms[p][m].state \in {"Unknown", "ToBuild"}
      BY <2>6, <2>7 DEF Entry
    <3>2. Pcms' = [Pcms EXCEPT ![p][m] = [state |-> "Final", buffer |-> d[m].buffer]]
      BY <2>7, <3>1 DEF PutEntry
    <3> HIDE DEF Pcms
    <3> QED BY <3>1, <3>2 DEF CacheContract!AddsBuilt, CacheContract!Moves
  <2> QED BY <2>2, <2>8 DEF CacheContract!ContractNext
<1>3. UNCHANGED cache \/ (cache' = [cache EXCEPT ![p] = d] /\ addBuiltPCMAsserts(c, m))
  BY DEF WriteAST
<1> QED BY <1>1, <1>2, <1>3

\* The caches of any number of processes keep InMemoryModuleCache.h's contract: the four
\* states only increase, by the calls that are allowed in them, and a PCM that a process
\* has accepted is never replaced.
THEOREM CachesKeepContract == Spec => KeepsCacheContract
<1>1. Init => CacheContract!ContractInit
  BY DEF Init, CacheContract!ContractInit, Pcms, State, getPCMState, EmptyCache, Absent
<1>2. ASSUME Inv, [Next]_vars PROVE [CacheContract!ContractNext]_Pcms
  <2>1. CASE UNCHANGED cache
    BY <2>1 DEF Pcms, State
  <2>2. ASSUME NEW p \in Procs, AddOutOfDate(p) \/ AddNew(p)
        PROVE  [CacheContract!ContractNext]_Pcms
    <3>1. pc[p] \notin Ended /\ Adding(p) /\ pc[p] = "read"
      BY <2>2 DEF AddOutOfDate, AddNew, Adding, Ended
    <3>2. Wanted(p).mod \in Modules
      BY <1>2, <3>1, RunningProcess, WantedTyped
    <3>3. \/ UNCHANGED cache
          \/ /\ State(p, Wanted(p).mod) # "ToBuild" /\ Buffer(p, Wanted(p).mod) # NoPCM
             /\ Keep(p, Wanted(p).mod)
      BY <2>2 DEF AddOutOfDate, AddNew
    <3> QED BY <1>2, <2>1, <3>1, <3>2, <3>3, KeepMoves
  <2>3. ASSUME NEW p \in Procs, Step(p) \/ LockError(p) \/ WaitTimeout(p) \/ Crash(p)
        PROVE  \/ UNCHANGED cache
               \/ AddOutOfDate(p) \/ AddNew(p) \/ Validate(p) \/ Unwind(p) \/ WriteAST(p)
    BY <2>3 DEF Step, LockError, WaitTimeout, Crash, Compile, BeginImport, ReadAST, AddMissing,
       AddAgain, Imported, NeedsBuild, TryAgain, NotBuilt, LockOwned, LockShared, WaitForUnlock,
       Rename, CompileFailed, Finish, memoryVars
  <2>4. ASSUME NEW m \in Modules, Edit(m) \/ Prune(m) PROVE UNCHANGED cache
    BY <2>4 DEF Edit, Prune, memoryVars
  <2>5. UNCHANGED vars => UNCHANGED cache
    BY DEF vars, memoryVars
  <2> QED BY <1>2, <2>1, <2>2, <2>3, <2>4, <2>5, ValidateMoves, UnwindMoves, WriteASTMoves
      DEF Next
<1> QED BY <1>1, <1>2, Invariant, PTL DEF Spec, KeepsCacheContract, CacheContract!ContractSpec

=============================================================================
