------------------------- MODULE LayeredModulesProofs -------------------------
(***************************************************************************)
(* What implicit builds promise when imports are layered, as they are when  *)
(* no edit turns an import round: the assertions of the module cache hold,  *)
(* and a compilation only fails because of a header that does not compile.  *)
(*                                                                          *)
(* LayeredInv says why nothing is dropped, built or missed that should not  *)
(* be: what is loaded or read lies below all that is being built.           *)
(* ExplainedInv adds that each failure has a reason.  Both rest on Inv of   *)
(* ImplicitModulesProofs.                                                   *)
(***************************************************************************)
EXTENDS ImplicitModulesProofs

\* Module m is lower than module k; lower than those that are built by the first n
\* instances.
Lower(rank, m, k) == rank[m] < rank[k]
Under(rank, st, n, m) == \A k \in 2..n : Lower(rank, m, st[k].mod)

\* PCMs, on the disk and in a cache, import what is lower.
ImportsLower(rank, m, x) == \A i \in DOMAIN x.imports : Lower(rank, x.imports[i].mod, m)
PCMsLower(rank, b) == \A m \in Modules : b[m] # NoPCM => ImportsLower(rank, m, b[m])
Buffers(c) == [m \in Modules |-> c[m].buffer]

\* What an instance has imported is lower than what it builds, what it still has to
\* import is lower than all that is being built.
InstanceLayered(rank, st, k) ==
  /\ \A j \in DOMAIN st[k].todo : Under(rank, st, k, st[k].todo[j])
  /\ k # 1 => \A j \in DOMAIN st[k].chain : Lower(rank, st[k].chain[j].mod, st[k].mod)
StackLayered(rank, st) == \A k \in 1..Len(st) : InstanceLayered(rank, st, k)

\* A module that is being built has no PCM in the cache before it is written.
Unbuilt(l, c, st) ==
  \A k \in 2..Len(st) : c[st[k].mod].buffer = NoPCM \/ (k = Len(st) /\ l = "rename")

\* The FileManager has looked up what accepted PCMs import, and all loaded modules.
OpenedImports(c, kn) ==
  \A m \in Modules : c[m].isFinal =>
    \A i \in DOMAIN c[m].buffer.imports : c[m].buffer.imports[i].mod \in kn
OpenedChain(kn, chain) == \A j \in DOMAIN chain : chain[j].mod \in kn
OpenedChains(kn, st) == \A k \in 1..Len(st) : OpenedChain(kn, st[k].chain)

\* The only PCMs in the cache whose file has not been looked up are those this process
\* has just written, and those it could not put in place.
NotReadYet(l, c, kn, fl, i, at) ==
  \A m \in Modules : c[m].buffer # NoPCM /\ m \notin kn =>
    \/ m \in fl
    \/ l = "rename" /\ m = i.mod
    \/ l \in {"read", "unwind", "result"} /\ at \in {"owned", "error"} /\ m = Head(i.todo)

\* An import of a PCM on the path has been looked up, or is still to come.
LookedUp(c, kn, e) ==
  /\ e.mod \in kn
  /\ \A i \in DOMAIN c[e.mod].buffer.imports :
       \/ c[e.mod].buffer.imports[i].mod \in kn
       \/ \E j \in DOMAIN e.todo : e.todo[j] = c[e.mod].buffer.imports[i]

\* ReadAST of module g: below an accepted PCM there are only accepted ones.
Reads(rank, c, kn, st, pa, g) ==
  /\ pa # <<>> => pa[1].mod = g
  /\ \A k \in DOMAIN pa : Under(rank, st, Len(st), pa[k].mod) /\ LookedUp(c, kn, pa[k])
  /\ c[g].isFinal => \A k \in DOMAIN pa : c[pa[k].mod].isFinal

\* So that g has not been accepted when ReadAST fails, and is dropped in the end.
Unwinds(c, pa, g, rs) ==
  /\ pa[1].mod = g /\ ~c[g].isFinal /\ rs = "OutOfDate"
  /\ \A k \in DOMAIN pa : c[pa[k].mod].buffer # NoPCM
  /\ \A j, k \in DOMAIN pa : pa[j].mod = pa[k].mod => j = k

Returns(c, kn, fl, g, at, rs) ==
  /\ rs = "Success" => g \in kn
  /\ rs = "OutOfDate" => c[g].buffer = NoPCM
  /\ rs = "Missing" => at \in {"owned", "error"} \/ c[g].buffer = NoPCM \/ g \in fl

LayeredOK(rank, l, c, kn, fl, st, pa, at, rs) ==
  /\ l # "aborted"
  /\ l \notin Ended =>
       LET i == st[Len(st)]
           g == Head(i.todo) IN
       /\ PCMsLower(rank, Buffers(c)) /\ StackLayered(rank, st) /\ Unbuilt(l, c, st)
       /\ OpenedImports(c, kn) /\ OpenedChains(kn, st)
       /\ NotReadYet(l, c, kn, fl, i, at)
       /\ l = "read" => Reads(rank, c, kn, st, pa, g)
       /\ l = "unwind" => Unwinds(c, pa, g, rs)
       /\ l = "result" => Returns(c, kn, fl, g, at, rs)
       /\ l \in {"lock", "wait"} => c[g].buffer = NoPCM

LayeredAt(rank, p) ==
  LayeredOK(rank, pc[p], cache[p], known[p], failed[p], stack[p], path[p], attempt[p], result[p])
LayeredInv(rank) == PCMsLower(rank, disk) /\ \A p \in Procs : LayeredAt(rank, p)

-----------------------------------------------------------------------------
(* Ranks, and sequences. *)

LEMMA LowerOrder ==
  ASSUME NEW rank, Layered(rank)
  PROVE  /\ \A m, k, n \in Modules : Lower(rank, m, k) /\ Lower(rank, k, n) => Lower(rank, m, n)
         /\ \A m \in Modules : ~Lower(rank, m, m)
<1>1. \A m \in Modules : rank[m] \in Nat
  BY DEF Layered
<1> QED BY <1>1 DEF Lower

LEMMA TailIndices ==
  ASSUME NEW S, NEW s \in Seq(S), s # <<>>
  PROVE  /\ 1 \in DOMAIN s /\ Head(s) = s[1]
         /\ \A j \in DOMAIN Tail(s) : j + 1 \in DOMAIN s /\ Tail(s)[j] = s[j + 1]
<1>1. Len(s) \in Nat \ {0} /\ DOMAIN s = 1..Len(s)
  BY EmptySeq, LenProperties
<1>2. /\ Tail(s) \in Seq(S) /\ Len(Tail(s)) = Len(s) - 1
      /\ \A j \in 1..(Len(s) - 1) : Tail(s)[j] = s[j + 1]
  BY HeadTailProperties
<1>3. DOMAIN Tail(s) = 1..(Len(s) - 1)
  BY <1>2, LenProperties
<1> QED BY <1>1, <1>2, <1>3

-----------------------------------------------------------------------------
(* Stacks of instances. *)

\* What is under the first n of one stack is under those of another.
LEMMA UnderSame ==
  ASSUME NEW rank, NEW st, NEW new, NEW n \in Nat, NEW m, Under(rank, st, n, m),
         \A k \in 1..n : new[k].mod = st[k].mod
  PROVE  Under(rank, new, n, m)
BY DEF Under

\* The innermost instance changes.
LEMMA ReplacedLayered ==
  ASSUME NEW rank, NEW st \in Seq(Instances), st # <<>>, StackLayered(rank, st),
         NEW r \in Instances, r.mod = st[Len(st)].mod,
         \A j \in DOMAIN r.todo : Under(rank, st, Len(st), r.todo[j]),
         Len(st) # 1 => \A j \in DOMAIN r.chain : Lower(rank, r.chain[j].mod, r.mod),
         NEW new, new = Append(Front(st), r)
  PROVE  /\ new \in Seq(Instances) /\ Len(new) = Len(st) /\ new[Len(new)] = r
         /\ StackLayered(rank, new)
         /\ \A m : Under(rank, st, Len(st), m) => Under(rank, new, Len(new), m)
<1> DEFINE n == Len(st)
<1>1. n \in Nat \ {0} /\ new \in Seq(Instances) /\ Len(new) = n /\ new[n] = r
      /\ \A k \in 1..(n - 1) : new[k] = st[k]
  BY ReplaceLast, FrontProperties
<1>h. n = Len(st)
  OBVIOUS
<1> HIDE DEF n
<1>2. ASSUME NEW k \in 1..n PROVE k \in 1..(n - 1) \/ k = n
  BY <1>1
<1>3. ASSUME NEW k \in 1..n PROVE new[k].mod = st[k].mod
  BY <1>1, <1>2, <1>h
<1>4. ASSUME NEW k \in 1..n, NEW m, Under(rank, st, k, m) PROVE Under(rank, new, k, m)
  <2>1. k \in Nat /\ \A j \in 1..k : j \in 1..n
    BY <1>1
  <2> QED BY <1>3, <1>4, <2>1, UnderSame
<1>5. ASSUME NEW k \in 1..n PROVE InstanceLayered(rank, new, k)
  <2>1. CASE k \in 1..(n - 1)
    <3>1. new[k] = st[k] /\ InstanceLayered(rank, st, k)
      BY <1>1, <1>h, <2>1 DEF StackLayered
    <3> QED BY <1>4, <3>1 DEF InstanceLayered
  <2>2. CASE k = n
    BY <1>1, <1>4, <1>h, <2>2 DEF InstanceLayered
  <2> QED BY <1>2, <2>1, <2>2
<1>6. n \in 1..n
  BY <1>1
<1> QED BY <1>1, <1>4, <1>5, <1>6, <1>h DEF StackLayered

LEMMA ReplacedOpened ==
  ASSUME NEW st \in Seq(Instances), st # <<>>, NEW r \in Instances, r.mod = st[Len(st)].mod,
         NEW new, new = Append(Front(st), r),
         NEW kn, OpenedChains(kn, st), OpenedChain(kn, r.chain),
         NEW l, NEW c, Unbuilt(l, c, st)
  PROVE  Unbuilt(l, c, new) /\ OpenedChains(kn, new)
<1> DEFINE n == Len(st)
<1>1. n \in Nat \ {0} /\ Len(new) = n /\ new[n] = r /\ \A k \in 1..(n - 1) : new[k] = st[k]
  BY ReplaceLast, FrontProperties
<1>h. n = Len(st)
  OBVIOUS
<1> HIDE DEF n
<1>2. ASSUME NEW k \in 1..n PROVE new[k].mod = st[k].mod /\ (new[k] = st[k] \/ new[k] = r)
  <2>1. k \in 1..(n - 1) \/ k = n
    BY <1>1
  <2> QED BY <1>1, <1>h, <2>1
<1>3. \A k \in 2..n : k \in 1..n
  BY <1>1
<1>4. Unbuilt(l, c, new)
  BY <1>1, <1>2, <1>3, <1>h DEF Unbuilt
<1>5. OpenedChains(kn, new)
  BY <1>1, <1>2, <1>h DEF OpenedChains
<1> QED BY <1>4, <1>5

\* A nested instance has ended.
LEMMA PoppedLayered ==
  ASSUME NEW rank, NEW st \in Seq(Instances), Len(st) > 1, StackLayered(rank, st)
  PROVE  /\ Front(st) \in Seq(Instances) /\ Front(st) # <<>> /\ Len(Front(st)) = Len(st) - 1
         /\ StackLayered(rank, Front(st))
         /\ \A l, k, c : Unbuilt(l, c, st) => Unbuilt(k, c, Front(st))
         /\ \A kn : OpenedChains(kn, st) => OpenedChains(kn, Front(st))
<1> DEFINE n == Len(st)
           f == Front(st)
<1>0. st # <<>>
  BY EmptySeq
<1>1. n \in Nat /\ f \in Seq(Instances) /\ Len(f) = n - 1 /\ \A k \in 1..(n - 1) : f[k] = st[k]
  BY <1>0, FrontProperties
<1>2. f # <<>>
  <2>1. Len(f) # 0
    BY <1>1
  <2> QED BY <1>1, <2>1, EmptySeq
<1>h. n = Len(st) /\ n > 1
  OBVIOUS
<1> HIDE DEF n, f
<1>3. ASSUME NEW k \in 1..(n - 1)
      PROVE  k \in 1..n /\ k \in Nat /\ f[k] = st[k] /\ \A j \in 1..k : f[j].mod = st[j].mod
  <2>1. \A j \in 1..k : j \in 1..(n - 1)
    BY <1>1
  <2> QED BY <1>1, <2>1
<1>4. ASSUME NEW k \in 1..(n - 1) PROVE InstanceLayered(rank, f, k)
  <2>1. InstanceLayered(rank, st, k) /\ f[k] = st[k] /\ k \in Nat
        /\ \A j \in 1..k : f[j].mod = st[j].mod
    BY <1>3, <1>h DEF StackLayered
  <2> QED BY <2>1, UnderSame DEF InstanceLayered
<1>5. ASSUME NEW l, NEW k, NEW c, Unbuilt(l, c, st) PROVE Unbuilt(k, c, f)
  <2> SUFFICES ASSUME NEW j \in 2..(n - 1) PROVE c[f[j].mod].buffer = NoPCM
    BY <1>1 DEF Unbuilt
  <2>1. j \in 1..(n - 1) /\ j \in 2..n /\ j # n
    BY <1>1
  <2> QED BY <1>1, <1>5, <1>h, <2>1 DEF Unbuilt
<1>6. ASSUME NEW kn, OpenedChains(kn, st) PROVE OpenedChains(kn, f)
  BY <1>1, <1>3, <1>6, <1>h DEF OpenedChains
<1> QED BY <1>1, <1>2, <1>4, <1>5, <1>6 DEF StackLayered, f, n

\* A nested instance is started, for a module that is lower than all that are being built.
LEMMA PushedLayered ==
  ASSUME NEW rank, Layered(rank), NEW st \in Seq(Instances), st # <<>>, StackLayered(rank, st),
         \A k \in 2..Len(st) : st[k].mod \in Modules,
         NEW i \in Instances, i.mod \in Modules, i.chain = <<>>, i.todo \in Seq(Modules),
         Under(rank, st, Len(st), i.mod),
         \A j \in DOMAIN i.todo : Lower(rank, i.todo[j], i.mod),
         NEW new, new = Append(st, i)
  PROVE  /\ new \in Seq(Instances) /\ Len(new) = Len(st) + 1 /\ new[Len(new)] = i
         /\ StackLayered(rank, new)
         /\ \A kn : OpenedChains(kn, st) => OpenedChains(kn, new)
<1> DEFINE n == Len(st)
<1>1. n \in Nat \ {0} /\ new \in Seq(Instances) /\ Len(new) = n + 1 /\ new[n + 1] = i
      /\ \A k \in 1..n : new[k] = st[k]
  BY EmptySeq, LenProperties, AppendProperties
<1>h. n = Len(st)
  OBVIOUS
<1> HIDE DEF n
<1>2. ASSUME NEW k \in 1..(n + 1) PROVE k \in 1..n \/ k = n + 1
  BY <1>1
<1>3. ASSUME NEW k \in 1..(n + 1) PROVE InstanceLayered(rank, new, k)
  <2>1. CASE k \in 1..n
    <3>1. InstanceLayered(rank, st, k) /\ new[k] = st[k] /\ k \in Nat
          /\ \A j \in 1..k : new[j].mod = st[j].mod
      <4>1. \A j \in 1..k : j \in 1..n
        BY <1>1, <2>1
      <4> QED BY <1>1, <1>h, <2>1, <4>1 DEF StackLayered
    <3> QED BY <3>1, UnderSame DEF InstanceLayered
  <2>2. CASE k = n + 1
    <3>1. ASSUME NEW j \in DOMAIN i.todo, NEW a \in 2..(n + 1)
          PROVE  Lower(rank, i.todo[j], new[a].mod)
      <4>1. i.todo[j] \in Modules /\ Lower(rank, i.todo[j], i.mod)
        BY ElementOfSeq, LenProperties
      <4>2. CASE a = n + 1
        BY <1>1, <4>1, <4>2
      <4>3. CASE a # n + 1
        <5>1. a \in 1..n /\ a \in 2..n
          BY <1>1, <4>3
        <5>2. Lower(rank, i.mod, st[a].mod) /\ st[a].mod \in Modules /\ new[a] = st[a]
          BY <1>1, <1>h, <5>1 DEF Under
        <5> QED BY <4>1, <5>2, LowerOrder
      <4> QED BY <4>2, <4>3
    <3>2. DOMAIN i.chain = {}
      OBVIOUS
    <3> QED BY <1>1, <2>2, <3>1, <3>2 DEF InstanceLayered, Under
  <2> QED BY <1>2, <2>1, <2>2
<1>5. ASSUME NEW kn, OpenedChains(kn, st) PROVE OpenedChains(kn, new)
  <2>1. DOMAIN i.chain = {}
    OBVIOUS
  <2>2. OpenedChain(kn, i.chain)
    BY <2>1 DEF OpenedChain
  <2> QED BY <1>1, <1>2, <1>5, <1>h, <2>2 DEF OpenedChains
<1> QED BY <1>1, <1>3, <1>5, <1>h DEF StackLayered

-----------------------------------------------------------------------------
(* One process's step. *)

LEMMA LocalSteps ==
  ASSUME Inv, NEW p \in Procs, Step(p) \/ LockError(p) \/ WaitTimeout(p) \/ Crash(p),
         UNCHANGED project
  PROVE  Local(p)
<1> USE DEF Local, Goto, Inv, TypeOK, sharedVars, memoryVars, readVars
<1>1. CASE BeginImport(p) BY <1>1 DEF BeginImport, StartRead
<1>2. CASE AddMissing(p) BY <1>2 DEF AddMissing, Fail, Lookup
<1>3. CASE AddAgain(p) BY <1>3 DEF AddAgain, Fail, Succeed, Lookup, SetCurrent
<1>4. CASE AddOutOfDate(p) BY <1>4 DEF AddOutOfDate, Fail, Lookup, Keep
<1>5. CASE AddNew(p) BY <1>5 DEF AddNew, Lookup, Keep, SetCurrent
<1>6. CASE Validate(p) BY <1>6 DEF Validate, Succeed
<1>7. CASE Unwind(p) BY <1>7 DEF Unwind, SetCurrent
<1>8. CASE Imported(p) BY <1>8 DEF Imported, SetCurrent
<1>9. CASE NeedsBuild(p) BY <1>9 DEF NeedsBuild, SetCurrent
<1>10. CASE TryAgain(p) BY <1>10 DEF TryAgain
<1>11. CASE NotBuilt(p) BY <1>11 DEF NotBuilt, SetCurrent
<1>12. CASE LockOwned(p) BY <1>12 DEF LockOwned, Compile
<1>13. CASE LockShared(p) BY <1>13 DEF LockShared
<1>14. CASE WaitForUnlock(p) BY <1>14 DEF WaitForUnlock, StartRead
<1>15. CASE WriteAST(p) BY <1>15 DEF WriteAST
<1>16. CASE Rename(p) BY <1>16 DEF Rename, StartRead
<1>17. CASE CompileFailed(p) BY <1>17 DEF CompileFailed
<1>18. CASE Finish(p) BY <1>18 DEF Finish
<1>19. CASE LockError(p) BY <1>19 DEF LockError, Compile
<1>20. CASE WaitTimeout(p) BY <1>20 DEF WaitTimeout
<1>21. CASE Crash(p) BY <1>21 DEF Crash
<1> QED BY <1>1, <1>2, <1>3, <1>4, <1>5, <1>6, <1>7, <1>8, <1>9, <1>10, <1>11, <1>12, <1>13,
           <1>14, <1>15, <1>16, <1>17, <1>18, <1>19, <1>20, <1>21 DEF Step, ReadAST

LEMMA LayeredKept ==
  ASSUME NEW rank, LayeredInv(rank), Inv, NEW p \in Procs, Local(p),
         PCMsLower(rank, disk'), LayeredAt(rank, p)'
  PROVE  LayeredInv(rank)'
<1> SUFFICES ASSUME NEW q \in Procs, q # p PROVE LayeredAt(rank, q)'
  BY DEF LayeredInv
<1>1. /\ pc'[q] = pc[q] /\ cache'[q] = cache[q] /\ known'[q] = known[q]
      /\ failed'[q] = failed[q] /\ stack'[q] = stack[q] /\ path'[q] = path[q]
      /\ attempt'[q] = attempt[q] /\ result'[q] = result[q]
  BY DEF Local, Inv, TypeOK
<1> QED BY <1>1 DEF LayeredInv, LayeredAt

\* What the invariant says of a process that has not ended.
LayeredFacts(rank, p) ==
  LET i == Current(p)
      g == Goal(p)
      c == cache[p] IN
  /\ PCMsLower(rank, Buffers(c)) /\ StackLayered(rank, stack[p]) /\ Unbuilt(pc[p], c, stack[p])
  /\ OpenedImports(c, known[p]) /\ OpenedChains(known[p], stack[p])
  /\ NotReadYet(pc[p], c, known[p], failed[p], i, attempt[p])
  /\ pc[p] = "read" => Reads(rank, c, known[p], stack[p], path[p], g)
  /\ pc[p] = "unwind" => Unwinds(c, path[p], g, result[p])
  /\ pc[p] = "result" => Returns(c, known[p], failed[p], g, attempt[p], result[p])
  /\ pc[p] \in {"lock", "wait"} => c[g].buffer = NoPCM

LEMMA FactsOfLayered ==
  ASSUME NEW rank, NEW p
  PROVE  LayeredAt(rank, p) <=> /\ pc[p] # "aborted"
                                /\ pc[p] \notin Ended => LayeredFacts(rank, p)
BY DEF LayeredAt, LayeredOK, LayeredFacts, Current, Goal, Last

LEMMA FactsAfterwards ==
  ASSUME NEW rank, NEW p, pc'[p] # "aborted", pc'[p] \notin Ended => LayeredFacts(rank, p)'
  PROVE  LayeredAt(rank, p)'
BY DEF LayeredAt, LayeredOK, LayeredFacts, Current, Goal, Last

-----------------------------------------------------------------------------
(* Steps between two reads. *)

\* Most steps outside ReadAST change neither cache nor instances.
LEMMA TurnsLayered ==
  ASSUME NEW rank, NEW p, LayeredFacts(rank, p), Running(p), pc[p] \notin {"rename", "read", "unwind"},
         cache'[p] = cache[p], known'[p] = known[p], failed'[p] = failed[p], stack'[p] = stack[p],
         path'[p] = path[p], pc'[p] \in {"read", "lock", "wait"},
         pc'[p] = "read" => attempt'[p] \notin {"owned", "error"},
         pc[p] = "result" => attempt[p] \notin {"owned", "error"},
         pc'[p] \in {"lock", "wait"} => cache[p][Goal(p)].buffer = NoPCM
  PROVE  LayeredAt(rank, p)'
<1>1. Current(p)' = Current(p) /\ Goal(p)' = Goal(p)
  BY DEF Current, Goal
<1>2. path[p] = <<>> /\ DOMAIN <<>> = {}
  BY DEF Running, Reading
<1>3. Unbuilt(pc'[p], cache[p], stack[p])
  BY DEF LayeredFacts, Unbuilt
<1>4. NotReadYet(pc'[p], cache[p], known[p], failed[p], Current(p), attempt'[p])
  <2>1. \A m \in Modules : cache[p][m].buffer # NoPCM /\ m \notin known[p] => m \in failed[p]
    BY DEF LayeredFacts, NotReadYet
  <2> QED BY <2>1 DEF NotReadYet
<1>5. pc'[p] = "read" => Reads(rank, cache[p], known[p], stack[p], path[p], Goal(p))
  BY <1>2 DEF Reads
<1>6. pc'[p] \notin Ended
  BY DEF Ended
<1>7. LayeredFacts(rank, p)'
  BY <1>1, <1>3, <1>4, <1>5 DEF LayeredFacts
<1> QED BY <1>6, <1>7, FactsAfterwards DEF Ended

LEMMA BeginImportLayered ==
  ASSUME Inv, NEW rank, NEW p \in Procs, LayeredFacts(rank, p), Running(p), BeginImport(p)
  PROVE  LayeredAt(rank, p)'
<1>1. /\ pc[p] = "import" /\ pc'[p] = "read" /\ attempt'[p] = "first"
      /\ cache'[p] = cache[p] /\ known'[p] = known[p] /\ failed'[p] = failed[p]
      /\ stack'[p] = stack[p] /\ path'[p] = path[p]
  BY DEF BeginImport, StartRead, Goto, Inv, TypeOK
<1> QED BY <1>1, TurnsLayered

LEMMA TryAgainLayered ==
  ASSUME Inv, NEW rank, NEW p \in Procs, LayeredFacts(rank, p), Running(p), TryAgain(p)
  PROVE  LayeredAt(rank, p)'
<1>1. /\ pc[p] = "result" /\ result[p] = "OutOfDate" /\ attempt[p] = "waited" /\ pc'[p] = "lock"
      /\ cache'[p] = cache[p] /\ known'[p] = known[p] /\ failed'[p] = failed[p]
      /\ stack'[p] = stack[p] /\ path'[p] = path[p]
  BY DEF TryAgain, Goto, memoryVars, readVars, Inv, TypeOK
<1>2. cache[p][Goal(p)].buffer = NoPCM
  BY <1>1 DEF LayeredFacts, Returns
<1> QED BY <1>1, <1>2, TurnsLayered

LEMMA WaitingLayered ==
  ASSUME Inv, NEW rank, NEW p \in Procs, LayeredFacts(rank, p), Running(p),
         LockShared(p) \/ WaitForUnlock(p) \/ WaitTimeout(p)
  PROVE  LayeredAt(rank, p)'
<1>1. /\ pc[p] \in {"lock", "wait"} /\ pc'[p] \in {"read", "lock", "wait"}
      /\ pc'[p] = "read" => attempt'[p] = "waited"
      /\ cache'[p] = cache[p] /\ known'[p] = known[p] /\ failed'[p] = failed[p]
      /\ stack'[p] = stack[p] /\ path'[p] = path[p]
  BY DEF LockShared, WaitForUnlock, WaitTimeout, StartRead, Goto, memoryVars, readVars, Inv, TypeOK
<1>2. cache[p][Goal(p)].buffer = NoPCM
  BY <1>1 DEF LayeredFacts
<1> QED BY <1>1, <1>2, TurnsLayered

LEMMA EndsLayered ==
  ASSUME Inv, NEW rank, NEW p \in Procs, Finish(p) \/ Crash(p)
  PROVE  LayeredAt(rank, p)'
<1>1. pc'[p] \in {"done", "failed", "crashed"}
  BY DEF Finish, Crash, Goto, Inv, TypeOK
<1> QED BY <1>1, FactsAfterwards DEF Ended

\* The goal is no longer to be imported.
LEMMA ImportOverStack ==
  ASSUME NEW rank, NEW st \in Seq(Instances), st # <<>>, StackLayered(rank, st),
         st[Len(st)].todo # <<>>, NEW ok \in BOOLEAN,
         NEW new, new = Append(Front(st), AfterImport(st[Len(st)], ok))
  PROVE  /\ new \in Seq(Instances) /\ Len(new) = Len(st)
         /\ new[Len(new)] = AfterImport(st[Len(st)], ok) /\ StackLayered(rank, new)
<1> DEFINE n == Len(st)
           i == st[n]
           r == AfterImport(i, ok)
<1>1. n \in 1..n /\ i \in Instances /\ i.todo \in Seq(Modules)
  <2>1. n \in 1..n
    BY EmptySeq, LenProperties
  <2> QED BY <2>1, InstancesTyped
<1>2. r \in Instances /\ r.mod = i.mod /\ r.chain = i.chain /\ r.todo = Tail(i.todo)
  BY <1>1, AfterImportTyped
<1>h. n = Len(st) /\ i = st[n] /\ new = Append(Front(st), r)
  OBVIOUS
<1> HIDE DEF n, i, r
<1>3. InstanceLayered(rank, st, n)
  BY <1>1, <1>h DEF StackLayered
<1>4. \A j \in DOMAIN r.todo : Under(rank, st, n, r.todo[j])
  <2>1. \A j \in DOMAIN r.todo : j + 1 \in DOMAIN i.todo /\ r.todo[j] = i.todo[j + 1]
    BY <1>1, <1>2, <1>h, TailIndices
  <2> QED BY <1>3, <1>h, <2>1 DEF InstanceLayered
<1>5. n # 1 => \A j \in DOMAIN r.chain : Lower(rank, r.chain[j].mod, r.mod)
  BY <1>2, <1>3, <1>h DEF InstanceLayered
<1>6. /\ r \in Instances /\ new = Append(Front(st), r)
      /\ r.mod = st[Len(st)].mod /\ \A j \in DOMAIN r.todo : Under(rank, st, Len(st), r.todo[j])
      /\ Len(st) # 1 => \A j \in DOMAIN r.chain : Lower(rank, r.chain[j].mod, r.mod)
  BY <1>2, <1>4, <1>5, <1>h
<1>7. StackLayered(rank, new)
  BY <1>6, ReplacedLayered, ZenonT(40)
<1>8. new \in Seq(Instances) /\ Len(new) = Len(st) /\ new[Len(new)] = r
  BY <1>6, ReplaceLast
<1> QED BY <1>7, <1>8, <1>h DEF r, i

LEMMA ImportOverOpened ==
  ASSUME NEW st \in Seq(Instances), st # <<>>, st[Len(st)].todo # <<>>, NEW ok \in BOOLEAN,
         NEW new, new = Append(Front(st), AfterImport(st[Len(st)], ok)),
         NEW kn, OpenedChains(kn, st), NEW l, NEW c, Unbuilt(l, c, st)
  PROVE  Unbuilt(l, c, new) /\ OpenedChains(kn, new)
<1> DEFINE n == Len(st)
           r == AfterImport(st[n], ok)
<1>1. n \in 1..n /\ st[n] \in Instances
  <2>1. n \in 1..n
    BY EmptySeq, LenProperties
  <2> QED BY <2>1, InstancesTyped
<1>2. r \in Instances /\ r.mod = st[n].mod /\ r.chain = st[n].chain
  BY <1>1, AfterImportTyped
<1>3. OpenedChain(kn, r.chain)
  BY <1>1, <1>2 DEF OpenedChains
<1> HIDE DEF r
<1> QED BY <1>2, <1>3, ReplacedOpened DEF r

LEMMA ImportOverLayered ==
  ASSUME NEW rank, NEW p, LayeredFacts(rank, p), Running(p), pc[p] = "result", NEW ok \in BOOLEAN,
         stack'[p] = Append(Front(stack[p]), AfterImport(Current(p), ok)), pc'[p] = "import",
         cache'[p] = cache[p], known'[p] = known[p], failed[p] \subseteq failed'[p],
         attempt[p] \in {"owned", "error"} => Goal(p) \in known[p] \cup failed'[p]
  PROVE  LayeredAt(rank, p)'
<1> DEFINE st == stack[p]
           new == stack'[p]
<1>1. /\ st \in Seq(Instances) /\ st # <<>> /\ Current(p) = st[Len(st)]
      /\ Current(p).todo # <<>>
  BY DEF Running, LargeTypes, Reading
<1>2. /\ StackLayered(rank, st) /\ Unbuilt("result", cache[p], st) /\ OpenedChains(known[p], st)
  BY DEF LayeredFacts
<1>h. new = Append(Front(st), AfterImport(st[Len(st)], ok))
  BY <1>1
<1> HIDE DEF st, new
<1>3. /\ StackLayered(rank, new) /\ Unbuilt("result", cache[p], new)
      /\ OpenedChains(known[p], new)
  <2>1. st[Len(st)].todo # <<>>
    BY <1>1
  <2>2. StackLayered(rank, new)
    BY <1>1, <1>2, <1>h, <2>1, ImportOverStack
  <2>3. Unbuilt("result", cache[p], new) /\ OpenedChains(known[p], new)
    BY <1>1, <1>2, <1>h, <2>1, ImportOverOpened
  <2> QED BY <2>2, <2>3
<1>4. Unbuilt("import", cache[p], new)
  BY <1>3 DEF Unbuilt
<1>5. \A i, at : NotReadYet("import", cache[p], known[p], failed'[p], i, at)
  BY DEF LayeredFacts, NotReadYet, Goal
<1>6. LayeredFacts(rank, p)'
  BY <1>3, <1>4, <1>5 DEF LayeredFacts, new
<1> QED BY <1>6, FactsAfterwards DEF Ended

LEMMA ImportedLayered ==
  ASSUME Inv, NEW rank, NEW p \in Procs, LayeredFacts(rank, p), Running(p), Imported(p)
  PROVE  LayeredAt(rank, p)'
<1>1. /\ pc[p] = "result" /\ pc'[p] = "import" /\ result[p] = "Success"
      /\ stack'[p] = Append(Front(stack[p]), AfterImport(Current(p), TRUE))
      /\ cache'[p] = cache[p] /\ known'[p] = known[p] /\ failed'[p] = failed[p]
  BY DEF Imported, SetCurrent, Goto, memoryVars, Inv, TypeOK
<1>2. Goal(p) \in known[p]
  BY <1>1 DEF LayeredFacts, Returns
<1> QED BY <1>1, <1>2, ImportOverLayered

LEMMA NotBuiltLayered ==
  ASSUME Inv, NEW rank, NEW p \in Procs, LayeredFacts(rank, p), Running(p), NotBuilt(p)
  PROVE  LayeredAt(rank, p)'
<1>1. /\ pc[p] = "result" /\ pc'[p] = "import" /\ failed'[p] = failed[p] \cup {Goal(p)}
      /\ stack'[p] = Append(Front(stack[p]), AfterImport(Current(p), FALSE))
      /\ cache'[p] = cache[p] /\ known'[p] = known[p]
  BY DEF NotBuilt, SetCurrent, Goto, Inv, TypeOK
<1> QED BY <1>1, ImportOverLayered

LEMMA NeedsBuildLayered ==
  ASSUME Inv, NEW rank, NEW p \in Procs, LayeredFacts(rank, p), Running(p), NeedsBuild(p)
  PROVE  LayeredAt(rank, p)'
<1>1. /\ pc[p] = "result" /\ result[p] # "Success" /\ attempt[p] = "first"
      /\ cache'[p] = cache[p] /\ known'[p] = known[p] /\ failed'[p] = failed[p]
      /\ path'[p] = path[p]
      /\ \/ /\ pc'[p] = "import"
            /\ stack'[p] = Append(Front(stack[p]), AfterImport(Current(p), FALSE))
         \/ pc'[p] = "lock" /\ stack'[p] = stack[p] /\ Goal(p) \notin failed[p]
  BY DEF NeedsBuild, SetCurrent, Goto, memoryVars, readVars, Inv, TypeOK
<1>2. CASE stack'[p] = Append(Front(stack[p]), AfterImport(Current(p), FALSE)) /\ pc'[p] = "import"
  BY <1>1, <1>2, ImportOverLayered
<1>3. CASE pc'[p] = "lock" /\ stack'[p] = stack[p] /\ Goal(p) \notin failed[p]
  <2>1. result[p] \in {"Success", "OutOfDate", "Missing"}
    BY DEF Running, SmallTypes
  <2>2. cache[p][Goal(p)].buffer = NoPCM
    BY <1>1, <1>3, <2>1 DEF LayeredFacts, Returns
  <2> QED BY <1>1, <1>3, <2>2, TurnsLayered
<1> QED BY <1>1, <1>2, <1>3


-----------------------------------------------------------------------------
(* Nested instances. *)

\* The goal is lower than all that is being built.
LEMMA GoalUnder ==
  ASSUME NEW rank, NEW p, LayeredFacts(rank, p), Running(p), Current(p).todo # <<>>
  PROVE  Under(rank, stack[p], Len(stack[p]), Goal(p))
<1> DEFINE st == stack[p]
           n == Len(st)
<1>1. n \in 1..n /\ st[n] = Current(p) /\ st[n].todo \in Seq(Modules) /\ st[n].todo # <<>>
  BY DEF Running
<1>2. InstanceLayered(rank, st, n)
  BY <1>1 DEF LayeredFacts, StackLayered
<1>3. 1 \in DOMAIN st[n].todo /\ Goal(p) = st[n].todo[1]
  BY <1>1, TailIndices DEF Goal
<1> QED BY <1>2, <1>3 DEF InstanceLayered

\* A module that has no PCM in the cache is going to be built.
LEMMA PushedUnbuilt ==
  ASSUME NEW st \in Seq(Instances), NEW i \in Instances, NEW new, new = Append(st, i),
         NEW l, NEW k, NEW c, Unbuilt(l, c, st), l # "rename", c[i.mod].buffer = NoPCM
  PROVE  Unbuilt(k, c, new)
<1> DEFINE n == Len(st)
<1>1. n \in Nat /\ Len(new) = n + 1 /\ new[n + 1] = i /\ \A j \in 1..n : new[j] = st[j]
  BY LenProperties, AppendProperties
<1>h. n = Len(st)
  OBVIOUS
<1> HIDE DEF n
<1> SUFFICES ASSUME NEW j \in 2..(n + 1) PROVE c[new[j].mod].buffer = NoPCM
  BY <1>1 DEF Unbuilt
<1>2. CASE j = n + 1
  BY <1>1, <1>2
<1>3. CASE j # n + 1
  <2>1. j \in 1..n /\ j \in 2..n
    BY <1>1, <1>3
  <2> QED BY <1>1, <1>h, <2>1 DEF Unbuilt
<1> QED BY <1>2, <1>3

LEMMA CompileLayered ==
  ASSUME Inv, NEW rank, Layered(rank), NEW p \in Procs, LayeredFacts(rank, p), Running(p),
         pc[p] = "lock", NEW l \in {"owned", "error"}, Compile(p, l)
  PROVE  LayeredAt(rank, p)'
<1> DEFINE g == Goal(p)
           st == stack[p]
           n == Len(st)
           v == seen'[p][g]
           i == [mod |-> g, todo |-> Imports[project][g][v], chain |-> <<>>,
                 err |-> FALSE, locked |-> l]
           new == stack'[p]
<1>1. /\ Current(p).todo # <<>> /\ g \in Modules /\ g \in Sources
      /\ st \in Seq(Instances) /\ st # <<>> /\ Building(cache[p], seen[p], st)
  BY DEF Running, Reading, LargeTypes
<1>2. v \in Versions
  <2>1. seen'[p] = Stat(p, g)
    BY DEF Compile, Inv, TypeOK
  <2> QED BY <1>1, <2>1, StatSees
<1>3. /\ new = Append(st, i) /\ pc'[p] = "import" /\ cache'[p] = cache[p]
      /\ known'[p] = known[p] /\ failed'[p] = failed[p]
  BY DEF Compile, Goto, Inv, TypeOK
<1>4. project \in Projects /\ g \in DOMAIN Imports[project]
  BY <1>1 DEF Sources, Inv, TypeOK
<1>5. i.todo \in Seq(Modules)
  <2>1. Imports[project][g] \in [Versions -> Seq(DOMAIN Imports[project])]
        /\ DOMAIN Imports[project] \subseteq Modules
    BY <1>4, ModulesAssumption
  <2>2. i.todo \in Seq(DOMAIN Imports[project])
    BY <1>2, <2>1
  <2> QED BY <2>1, <2>2, SeqMonotonic
<1>6. \A j \in DOMAIN i.todo : Lower(rank, i.todo[j], i.mod)
  BY <1>2, <1>4 DEF Layered, Lower
<1>7. i \in Instances /\ i.mod = g /\ i.chain = <<>>
  <2>1. <<>> \in Seq([mod : Modules, pcm : PCMs, direct : BOOLEAN])
    OBVIOUS
  <2> QED BY <1>1, <1>5, <2>1 DEF Instances
<1>8. /\ StackLayered(rank, st) /\ Unbuilt("lock", cache[p], st) /\ OpenedChains(known[p], st)
      /\ cache[p][g].buffer = NoPCM /\ OpenedImports(cache[p], known[p])
      /\ PCMsLower(rank, Buffers(cache[p]))
  BY DEF LayeredFacts
<1>9. \A x, at : NotReadYet("import", cache[p], known[p], failed[p], x, at)
  BY DEF LayeredFacts, NotReadYet
<1>10. Under(rank, st, n, g)
  BY <1>1, GoalUnder
<1>11. \A k \in 2..n : st[k].mod \in Modules
  BY <1>1 DEF Building
<1> HIDE DEF g, st, v, i, new
<1>12. /\ i.mod \in Modules /\ i.todo \in Seq(Modules) /\ i.chain = <<>>
       /\ Under(rank, st, Len(st), i.mod) /\ \A j \in DOMAIN i.todo : Lower(rank, i.todo[j], i.mod)
       /\ i \in Instances /\ \A k \in 2..Len(st) : st[k].mod \in Modules
       /\ cache[p][i.mod].buffer = NoPCM
  BY <1>1, <1>5, <1>6, <1>7, <1>8, <1>10, <1>11
<1>13. StackLayered(rank, new)
  BY <1>1, <1>3, <1>8, <1>12, PushedLayered
<1>14. Unbuilt("import", cache[p], new)
  BY <1>1, <1>3, <1>8, <1>12, PushedUnbuilt
<1>15. OpenedChains(known[p], new)
  BY <1>1, <1>3, <1>8, <1>12, PushedLayered
<1>16. LayeredFacts(rank, p)'
  BY <1>3, <1>8, <1>9, <1>13, <1>14, <1>15 DEF LayeredFacts, new
<1> QED BY <1>3, <1>16, FactsAfterwards DEF Ended

LEMMA RenameLayered ==
  ASSUME Inv, NEW rank, NEW p \in Procs, LayeredFacts(rank, p), Running(p), Rename(p)
  PROVE  LayeredAt(rank, p)'
<1> DEFINE f == Front(stack[p])
           m == Current(p).mod
           c == cache[p]
           g == Goal(p)'
<1>1. /\ pc[p] = "rename" /\ pc'[p] = "read" /\ attempt'[p] = Current(p).locked /\ cache'[p] = c
      /\ known'[p] = known[p] /\ failed'[p] = failed[p] /\ stack'[p] = f /\ path'[p] = path[p]
  BY DEF Rename, StartRead, Goto, memoryVars, Inv, TypeOK
<1>2. path[p] = <<>> /\ m # Nobody /\ Current(p).locked \in {"owned", "error"}
      /\ stack[p] \in Seq(Instances)
  BY <1>1 DEF Running, Reading, Instances, LargeTypes
<1>3. Nested(p)
  BY <1>2, NestedInstance
<1>4. Len(stack[p]) > 1 /\ Len(f) = Len(stack[p]) - 1 /\ Len(stack[p]) \in Nat
  <2>1. Len(stack[p]) > 1
    BY <1>3 DEF Nested
  <2>2. stack[p] # <<>>
    BY DEF Running
  <2>3. Len(f) = Len(stack[p]) - 1 /\ Len(stack[p]) \in Nat
    BY <1>2, <2>2, FrontProperties
  <2> QED BY <2>1, <2>3
<1>5. g = m
  <2>1. Goal(p)' = Head(f[Len(f)].todo)
    BY <1>1 DEF Goal, Current, Last
  <2>2. Len(f) \in 1..(Len(stack[p]) - 1) /\ f[Len(f)] = stack[p][Len(f)] /\ Len(f) + 1 = Len(stack[p])
    <3>1. \A k \in 1..(Len(stack[p]) - 1) : f[k] = stack[p][k]
      <4>1. stack[p] # <<>>
        BY DEF Running
      <4> QED BY <1>2, <4>1, FrontProperties
    <3>2. Len(f) \in 1..(Len(stack[p]) - 1) /\ Len(f) + 1 = Len(stack[p])
      BY <1>4
    <3> QED BY <3>1, <3>2
  <2>3. Current(p) = stack[p][Len(stack[p])]
    BY DEF Running
  <2>4. Building(c, seen[p], stack[p])
    BY DEF Running
  <2> HIDE DEF f
  <2>5. Head(stack[p][Len(f)].todo) = stack[p][Len(f) + 1].mod
    BY <2>2, <2>4 DEF Building
  <2> QED BY <2>1, <2>2, <2>3, <2>5
<1>6. /\ StackLayered(rank, stack[p]) /\ Unbuilt("rename", c, stack[p])
      /\ OpenedChains(known[p], stack[p]) /\ OpenedImports(c, known[p])
      /\ PCMsLower(rank, Buffers(c))
  BY <1>1 DEF LayeredFacts
<1>7. StackLayered(rank, f) /\ Unbuilt("read", c, f) /\ OpenedChains(known[p], f)
  <2>1. StackLayered(rank, f)
    BY <1>2, <1>4, <1>6, PoppedLayered
  <2>2. Unbuilt("read", c, f)
    BY <1>2, <1>4, <1>6, PoppedLayered
  <2>3. OpenedChains(known[p], f)
    BY <1>2, <1>4, <1>6, PoppedLayered
  <2> QED BY <2>1, <2>2, <2>3
<1>8. NotReadYet("read", c, known[p], failed[p], Current(p)', attempt'[p])
  <2>1. \A k \in Modules : c[k].buffer # NoPCM /\ k \notin known[p] => k \in failed[p] \/ k = m
    BY <1>1 DEF LayeredFacts, NotReadYet
  <2>2. Head(Current(p)'.todo) = m
    BY <1>5 DEF Goal
  <2> QED BY <1>1, <1>2, <2>1, <2>2 DEF NotReadYet
<1>9. Reads(rank, c, known[p], f, path'[p], g)
  BY <1>1, <1>2 DEF Reads
<1> HIDE DEF f, c
<1>10. LayeredFacts(rank, p)'
  BY <1>1, <1>6, <1>7, <1>8, <1>9 DEF LayeredFacts
<1> QED BY <1>1, <1>10, FactsAfterwards DEF Ended

LEMMA CompileFailedLayered ==
  ASSUME Inv, NEW rank, NEW p \in Procs, LayeredFacts(rank, p), Running(p), CompileFailed(p)
  PROVE  LayeredAt(rank, p)'
<1> DEFINE f == Front(stack[p])
           m == Current(p).mod
           c == cache[p]
           new == stack'[p]
<1>1. /\ (pc[p] = "import" /\ Nested(p)) \/ pc[p] = "rename"
      /\ pc'[p] = "import" /\ cache'[p] = c /\ known'[p] = known[p]
      /\ failed'[p] = failed[p] \cup {m}
      /\ stack'[p] = Append(Front(f), AfterImport(Last(f), FALSE))
  BY DEF CompileFailed, AtEnd, Goto, Inv, TypeOK
<1>2. m # Nobody \/ Nested(p)
  BY <1>1 DEF Running, Reading
<1>3. /\ Nested(p) /\ f \in Seq(Instances) /\ f # <<>> /\ Last(f) = f[Len(f)]
      /\ f[Len(f)].todo # <<>>
  BY <1>2, NestedInstance
<1>4. Len(stack[p]) > 1 /\ stack[p] \in Seq(Instances)
  BY <1>3 DEF Nested, Running, LargeTypes
<1>5. /\ StackLayered(rank, stack[p]) /\ Unbuilt(pc[p], c, stack[p])
      /\ OpenedChains(known[p], stack[p]) /\ OpenedImports(c, known[p])
      /\ PCMsLower(rank, Buffers(c))
  BY DEF LayeredFacts
<1>6. StackLayered(rank, f) /\ Unbuilt("import", c, f) /\ OpenedChains(known[p], f)
  <2>1. StackLayered(rank, f)
    BY <1>4, <1>5, PoppedLayered
  <2>2. Unbuilt("import", c, f)
    BY <1>4, <1>5, PoppedLayered
  <2>3. OpenedChains(known[p], f)
    BY <1>4, <1>5, PoppedLayered
  <2> QED BY <2>1, <2>2, <2>3
<1>7. new = Append(Front(f), AfterImport(f[Len(f)], FALSE)) /\ FALSE \in BOOLEAN
  BY <1>1, <1>3
<1>8. \A i, at : NotReadYet("import", c, known[p], failed'[p], i, at)
  BY <1>1 DEF LayeredFacts, NotReadYet
<1> HIDE DEF f, new, c
<1>9. StackLayered(rank, new)
  BY <1>3, <1>6, <1>7, ImportOverStack
<1>10. Unbuilt("import", c, new) /\ OpenedChains(known[p], new)
  BY <1>3, <1>6, <1>7, ImportOverOpened
<1>11. LayeredFacts(rank, p)'
  BY <1>1, <1>5, <1>8, <1>9, <1>10 DEF LayeredFacts, new
<1> QED BY <1>1, <1>11, FactsAfterwards DEF Ended

\* A PCM imports what has been loaded.
LEMMA ImportsLoaded ==
  ASSUME NEW i, i.chain \in Chains
  PROVE  \A k \in DOMAIN ImportsOf(i) : \E j \in DOMAIN i.chain : ImportsOf(i)[k].mod = i.chain[j].mod
<1> DEFINE E == [mod : Modules, pcm : PCMs, direct : BOOLEAN]
           di == Direct(i.chain)
<1>1. \A k \in DOMAIN di : \E j \in 1..Len(i.chain) : di[k] = i.chain[j]
  BY DirectProperties DEF Chains
<1>2. ImportsOf(i) = [k \in DOMAIN di |-> [mod |-> di[k].mod, sig |-> di[k].pcm]]
  BY DEF ImportsOf
<1>3. DOMAIN i.chain = 1..Len(i.chain)
  BY LenProperties DEF Chains
<1> HIDE DEF di
<1> QED BY <1>1, <1>2, <1>3

\* The module that the innermost instance builds is built by no other one.
LEMMA BuiltOnce ==
  ASSUME NEW rank, Layered(rank), NEW p \in Procs, LayeredFacts(rank, p), Running(p), Nested(p)
  PROVE  \A k \in 2..(Len(stack[p]) - 1) : stack[p][k].mod # Current(p).mod
<1> DEFINE st == stack[p]
           n == Len(st)
<1>1. /\ n \in Nat /\ n > 1 /\ st \in Seq(Instances) /\ Building(cache[p], seen[p], st)
      /\ Current(p) = st[n]
  BY DEF Running, Nested, LargeTypes
<1>2. StackLayered(rank, st)
  BY DEF LayeredFacts
<1>h. n = Len(st)
  OBVIOUS
<1> HIDE DEF n, st
<1>3. n - 1 \in 1..n /\ n - 1 \in 1..(n - 1) /\ (n - 1) + 1 = n /\ n \in 2..n
  BY <1>1
<1>4. st[n - 1].todo # <<>> /\ Head(st[n - 1].todo) = st[n].mod /\ st[n].mod \in Modules
  BY <1>1, <1>3, <1>h DEF Building
<1>5. InstanceLayered(rank, st, n - 1)
  BY <1>2, <1>3, <1>h DEF StackLayered
<1>6. st[n - 1].todo \in Seq(Modules)
  BY <1>1, <1>3, <1>h, InstancesTyped
<1>7. 1 \in DOMAIN st[n - 1].todo /\ st[n - 1].todo[1] = st[n].mod
  BY <1>4, <1>6, TailIndices
<1>8. Under(rank, st, n - 1, st[n].mod)
  BY <1>5, <1>7 DEF InstanceLayered
<1>9. ASSUME NEW k \in 2..(n - 1), st[k].mod = st[n].mod PROVE FALSE
  <2>1. Lower(rank, st[n].mod, st[n].mod)
    BY <1>8, <1>9 DEF Under
  <2> QED BY <1>4, <2>1, LowerOrder
<1> QED BY <1>1, <1>9 DEF n, st

LEMMA WriteASTLayered ==
  ASSUME Inv, NEW rank, Layered(rank), NEW p \in Procs, LayeredFacts(rank, p), Running(p), WriteAST(p)
  PROVE  LayeredAt(rank, p)'
<1> DEFINE i == Current(p)
           m == i.mod
           c == cache[p]
           d == cache'[p]
           st == stack[p]
           n == Len(st)
           x == [src |-> seen[p][m], imports |-> ImportsOf(i)]
<1>1. /\ pc[p] = "import" /\ Nested(p) /\ known'[p] = known[p] /\ failed'[p] = failed[p]
      /\ stack'[p] = st /\ attempt'[p] = attempt[p]
  BY DEF WriteAST, AtEnd, readVars, Inv, TypeOK
<1>2. /\ c \in Caches /\ Entries(c) /\ st \in Seq(Instances) /\ n \in Nat /\ n > 1
      /\ i.chain \in Chains /\ i = st[n]
  BY <1>1 DEF Running, LargeTypes, Nested
<1>3. m \in Modules
  BY <1>1, NestedInstance
<1>4. /\ PCMsLower(rank, Buffers(c)) /\ StackLayered(rank, st) /\ Unbuilt("import", c, st)
      /\ OpenedImports(c, known[p]) /\ OpenedChains(known[p], st)
      /\ NotReadYet("import", c, known[p], failed[p], i, attempt[p])
  BY <1>1 DEF LayeredFacts
<1>5. c[m].buffer = NoPCM /\ ~c[m].isFinal
  <2>1. n \in 2..Len(st)
    BY <1>2
  <2> QED BY <1>2, <1>3, <1>4, <2>1 DEF Unbuilt, Entries
<1>6. pc'[p] = "rename" /\ d = [c EXCEPT ![m] = [present |-> TRUE, buffer |-> x, isFinal |-> TRUE]]
  BY <1>5 DEF WriteAST, Goto, addBuiltPCMAsserts, addBuiltPCM, Inv, TypeOK
<1>7. /\ d[m].buffer = x /\ \A k \in Modules : k # m => d[k] = c[k]
  BY <1>2, <1>3, <1>6 DEF Caches
<1>8. \A k \in 2..(n - 1) : st[k].mod \in Modules /\ st[k].mod # m
  <2>1. \A k \in 2..(n - 1) : st[k].mod # m
    BY <1>1, BuiltOnce
  <2>2. \A k \in 2..n : st[k].mod \in Modules
    BY DEF Running, Building
  <2>3. \A k \in 2..(n - 1) : k \in 2..n
    BY <1>2
  <2> QED BY <2>1, <2>2, <2>3
<1>9. \A j \in DOMAIN i.chain : Lower(rank, i.chain[j].mod, m) /\ i.chain[j].mod \in known[p]
  <2>1. n \in 1..Len(st) /\ n # 1
    BY <1>2
  <2> QED BY <1>2, <1>4, <2>1 DEF StackLayered, InstanceLayered, OpenedChains, OpenedChain
<1>h. n = Len(st) /\ x.imports = ImportsOf(i)
  OBVIOUS
<1> HIDE DEF n, st, i, m, c, d, x
<1>10. \A k \in DOMAIN x.imports : Lower(rank, x.imports[k].mod, m) /\ x.imports[k].mod \in known[p]
  <2>1. \A k \in DOMAIN x.imports : \E j \in DOMAIN i.chain : x.imports[k].mod = i.chain[j].mod
    BY <1>2, <1>h, ImportsLoaded
  <2> QED BY <1>9, <2>1
<1>11. PCMsLower(rank, Buffers(d))
  <2> SUFFICES ASSUME NEW k \in Modules, d[k].buffer # NoPCM
               PROVE  ImportsLower(rank, k, d[k].buffer)
    BY DEF PCMsLower, Buffers
  <2>1. CASE k = m
    BY <1>7, <1>10, <2>1 DEF ImportsLower
  <2>2. CASE k # m
    BY <1>4, <1>7, <2>2 DEF PCMsLower, Buffers
  <2> QED BY <2>1, <2>2
<1>12. Unbuilt("rename", d, st)
  <2> SUFFICES ASSUME NEW k \in 2..n, k # n PROVE d[st[k].mod].buffer = NoPCM
    BY <1>h DEF Unbuilt
  <2>1. k \in 2..(n - 1)
    BY <1>2
  <2>2. d[st[k].mod] = c[st[k].mod]
    BY <1>7, <1>8, <2>1
  <2> QED BY <1>4, <1>h, <2>2 DEF Unbuilt
<1>13. OpenedImports(d, known[p])
  <2> SUFFICES ASSUME NEW k \in Modules, d[k].isFinal, NEW j \in DOMAIN d[k].buffer.imports
               PROVE  d[k].buffer.imports[j].mod \in known[p]
    BY DEF OpenedImports
  <2>1. CASE k = m
    BY <1>7, <1>10, <2>1
  <2>2. CASE k # m
    BY <1>4, <1>7, <2>2 DEF OpenedImports
  <2> QED BY <2>1, <2>2
<1>14. NotReadYet("rename", d, known[p], failed[p], i, attempt[p])
  <2> SUFFICES ASSUME NEW k \in Modules, d[k].buffer # NoPCM, k \notin known[p], k # m
               PROVE  k \in failed[p]
    BY DEF NotReadYet, m
  <2> QED BY <1>4, <1>7 DEF NotReadYet
<1>15. Current(p)' = i
  BY <1>1 DEF Current, st, i
<1>16. LayeredFacts(rank, p)'
  BY <1>1, <1>4, <1>6, <1>11, <1>12, <1>13, <1>14, <1>15 DEF LayeredFacts, d
<1> QED BY <1>6, <1>16, FactsAfterwards DEF Ended

-----------------------------------------------------------------------------
(* ReadAST. *)

\* The PCM to add is an import of the last one on the path.
LEMMA WantedImport ==
  ASSUME NEW p \in Procs, Running(p), Adding(p), path[p] # <<>>,
         NEW e, e = path[p][Len(path[p])]
  PROVE  /\ Len(path[p]) \in DOMAIN path[p] /\ e.mod \in Modules
         /\ cache[p][e.mod].buffer # NoPCM
         /\ \E i \in DOMAIN cache[p][e.mod].buffer.imports :
              Wanted(p) = cache[p][e.mod].buffer.imports[i]
<1>1. /\ Len(path[p]) \in DOMAIN path[p] /\ e.todo # <<>> /\ Wanted(p) = Head(e.todo)
  BY WantedTyped
<1>2. path[p] \in Paths /\ OnPaths(cache[p], path[p])
  BY DEF Running, LargeTypes, Reading, Adding
<1>3. e.mod \in Modules /\ e.todo \in Todos /\ OnPath(cache[p], e)
  BY <1>1, <1>2, PathsTyped DEF OnPaths
<1>4. 1 \in DOMAIN e.todo /\ Head(e.todo) = e.todo[1]
  BY <1>1, <1>3, TailIndices DEF Todos
<1>5. cache[p][e.mod].buffer # NoPCM
  BY <1>3 DEF OnPath
<1>6. \E i \in DOMAIN cache[p][e.mod].buffer.imports :
        e.todo[1] = cache[p][e.mod].buffer.imports[i]
  BY <1>3, <1>4 DEF OnPath
<1> QED BY <1>1, <1>3, <1>4, <1>5, <1>6

\* It is lower than all that is being built.
LEMMA WantedUnder ==
  ASSUME NEW rank, Layered(rank), NEW p \in Procs, LayeredFacts(rank, p), Running(p), Adding(p)
  PROVE  Under(rank, stack[p], Len(stack[p]), Wanted(p).mod)
<1> DEFINE st == stack[p]
           n == Len(st)
           w == Wanted(p).mod
           e == path[p][Len(path[p])]
           x == cache[p][e.mod].buffer
<1>1. Current(p).todo # <<>> /\ pc[p] = "read"
  BY DEF Running, Adding, Reading
<1>2. CASE path[p] = <<>>
  BY <1>1, <1>2, GoalUnder DEF Wanted
<1>3. CASE path[p] # <<>>
  <2>1. /\ Len(path[p]) \in DOMAIN path[p] /\ e.mod \in Modules /\ x # NoPCM
        /\ \E i \in DOMAIN x.imports : Wanted(p) = x.imports[i]
    BY <1>3, WantedImport
  <2>2. Under(rank, st, n, e.mod)
    BY <1>1, <2>1 DEF LayeredFacts, Reads
  <2>3. ImportsLower(rank, e.mod, x)
    BY <2>1 DEF LayeredFacts, PCMsLower, Buffers
  <2>4. w \in Modules /\ \A k \in 2..n : st[k].mod \in Modules
    BY WantedTyped DEF Running, Building
  <2> HIDE DEF st, n, w, e, x
  <2>5. Lower(rank, w, e.mod)
    BY <2>1, <2>3 DEF ImportsLower, w
  <2>6. Under(rank, st, n, w)
    BY <2>1, <2>2, <2>4, <2>5, LowerOrder DEF Under
  <2> QED BY <2>6 DEF st, n, w
<1> QED BY <1>2, <1>3

\* Below the goal, once that is accepted, all is accepted and all is there.
LEMMA AcceptedBelow ==
  ASSUME NEW rank, NEW p \in Procs, LayeredFacts(rank, p), Running(p), Adding(p),
         path[p] # <<>>, cache[p][Goal(p)].isFinal
  PROVE  /\ Accepted(cache[p], Wanted(p).mod, Wanted(p).sig)
         /\ Wanted(p).mod \in known[p]
<1> DEFINE c == cache[p]
           e == path[p][Len(path[p])]
           x == c[e.mod].buffer
<1>1. /\ Len(path[p]) \in DOMAIN path[p] /\ e.mod \in Modules
      /\ \E i \in DOMAIN x.imports : Wanted(p) = x.imports[i]
  BY WantedImport
<1>2. Reads(rank, c, known[p], stack[p], path[p], Goal(p)) /\ OpenedImports(c, known[p])
  BY DEF LayeredFacts, Adding
<1>3. c[e.mod].isFinal
  BY <1>1, <1>2 DEF Reads
<1>4. Finals(c, seen[p])
  BY DEF Running
<1> HIDE DEF c, e, x
<1>5. \A i \in DOMAIN x.imports : Accepted(c, x.imports[i].mod, x.imports[i].sig)
  BY <1>1, <1>3, <1>4 DEF Finals, x
<1>6. \A i \in DOMAIN x.imports : x.imports[i].mod \in known[p]
  BY <1>1, <1>2, <1>3 DEF OpenedImports, x
<1> QED BY <1>1, <1>5, <1>6 DEF c

\* The PCMs on the path are PCMs of different modules.
LEMMA PathDistinct ==
  ASSUME NEW c \in Caches, NEW pa \in Paths, OnPaths(c, pa), Descending(c, pa)
  PROVE  /\ \A k \in DOMAIN pa : c[pa[k].mod].buffer # NoPCM
         /\ \A j, k \in DOMAIN pa : pa[j].mod = pa[k].mod => j = k
<1>1. DOMAIN pa = 1..Len(pa) /\ Len(pa) \in Nat
  BY LenProperties DEF Paths
<1>2. ASSUME NEW k \in DOMAIN pa
      PROVE  c[pa[k].mod].buffer # NoPCM /\ Height(c[pa[k].mod].buffer) \in Nat
  <2>1. pa[k].mod \in Modules /\ OnPath(c, pa[k])
    BY PathsTyped DEF OnPaths
  <2>2. c[pa[k].mod].buffer \in PCMs /\ c[pa[k].mod].buffer # NoPCM
    BY <2>1 DEF OnPath, Caches
  <2> QED BY <2>2, PCMProperties
<1>3. ASSUME NEW j \in DOMAIN pa, NEW k \in DOMAIN pa, pa[j].mod = pa[k].mod, j < k PROVE FALSE
  <2>1. Height(c[pa[k].mod].buffer) < Height(c[pa[j].mod].buffer)
    BY <1>3 DEF Descending
  <2>2. Height(c[pa[j].mod].buffer) = Height(c[pa[k].mod].buffer)
    BY <1>3
  <2> QED BY <1>2, <2>1, <2>2
<1>4. ASSUME NEW j \in DOMAIN pa, NEW k \in DOMAIN pa, pa[j].mod = pa[k].mod PROVE j = k
  <2>1. j < k \/ k < j \/ j = k
    BY <1>1
  <2> QED BY <1>3, <1>4, <2>1
<1> QED BY <1>2, <1>4

\* A PCM file that is read, which is not one of a module that is being built.
LEMMA KeepLayered ==
  ASSUME Inv, NEW rank, Layered(rank), PCMsLower(rank, disk), NEW p \in Procs,
         LayeredFacts(rank, p), Running(p), Adding(p),
         NEW m, m = Wanted(p).mod, State(p, m) # "ToBuild", Buffer(p, m) # NoPCM, Keep(p, m)
  PROVE  LET c == cache[p]
             d == cache'[p] IN
         /\ \A k \in Modules : d[k].isFinal <=> c[k].isFinal
         /\ \A k \in Modules : k # m => d[k] = c[k]
         /\ c[m].buffer # NoPCM => d[m].buffer = c[m].buffer
         /\ d[m].buffer = Buffer(p, m)
         /\ PCMsLower(rank, Buffers(d)) /\ Unbuilt("read", d, stack[p]) /\ OpenedImports(d, known[p])
<1> DEFINE c == cache[p]
           d == cache'[p]
           x == Buffer(p, m)
           st == stack[p]
           n == Len(st)
<1>1. m \in Modules
  BY WantedTyped
<1>2. /\ c \in Caches /\ Entries(c) /\ \A k \in 2..n : st[k].mod \in Modules
  BY DEF Running, LargeTypes, Building
<1>3. Under(rank, st, n, m)
  BY WantedUnder
<1>4. PCMsLower(rank, Buffers(c)) /\ Unbuilt("read", c, st) /\ OpenedImports(c, known[p])
  BY DEF LayeredFacts, Adding
<1>5. ImportsLower(rank, m, x)
  BY <1>1, <1>4 DEF Buffer, PCMsLower, Buffers
<1>6. CASE State(p, m) = "Unknown"
  <2>1. d = [c EXCEPT ![m] = [present |-> TRUE, buffer |-> x, isFinal |-> FALSE]]
    BY <1>6 DEF Keep, addPCM, Inv, TypeOK
  <2>2. ~c[m].present
    BY <1>6 DEF State, getPCMState
  <2>3. c[m].buffer = NoPCM /\ ~c[m].isFinal
    BY <1>1, <1>2, <2>2 DEF Entries
  <2>h. n = Len(st)
    OBVIOUS
  <2> HIDE DEF c, d, x, st, n
  <2>4. d[m] = [present |-> TRUE, buffer |-> x, isFinal |-> FALSE]
        /\ \A k \in Modules : k # m => d[k] = c[k]
    BY <1>1, <1>2, <2>1 DEF Caches
  <2>5. \A k \in Modules : d[k].isFinal <=> c[k].isFinal
    BY <2>3, <2>4
  <2>6. PCMsLower(rank, Buffers(d))
    BY <1>4, <1>5, <2>4 DEF PCMsLower, Buffers
  <2>7. Unbuilt("read", d, st)
    <3> SUFFICES ASSUME NEW k \in 2..n PROVE d[st[k].mod].buffer = NoPCM
      BY <2>h DEF Unbuilt
    <3>1. Lower(rank, m, st[k].mod) /\ st[k].mod \in Modules
      BY <1>2, <1>3 DEF Under
    <3>2. st[k].mod # m
      BY <3>1, LowerOrder
    <3> QED BY <1>4, <2>4, <2>h, <3>1, <3>2 DEF Unbuilt
  <2>8. OpenedImports(d, known[p])
    <3> SUFFICES ASSUME NEW k \in Modules, d[k].isFinal, NEW i \in DOMAIN d[k].buffer.imports
                 PROVE  d[k].buffer.imports[i].mod \in known[p]
      BY DEF OpenedImports
    <3>1. d[k] = c[k] /\ c[k].isFinal
      BY <2>3, <2>4
    <3> QED BY <1>4, <3>1 DEF OpenedImports
  <2> QED BY <2>3, <2>4, <2>5, <2>6, <2>7, <2>8 DEF c, d, x, st
<1>7. CASE State(p, m) # "Unknown"
  <2>1. cache' = cache
    BY <1>7 DEF Keep
  <2>2. c[m].buffer # NoPCM
    BY <1>1, <1>2, <1>7 DEF State, getPCMState, Entries
  <2> QED BY <1>4, <2>1, <2>2 DEF Buffer
<1> QED BY <1>6, <1>7

\* ReadAST of the goal goes on, returns or fails.
LEMMA ReadFacts ==
  ASSUME NEW p, NEW rank, Running(p), LayeredFacts(rank, p), pc[p] = "read"
  PROVE  /\ cache[p] \in Caches /\ Entries(cache[p]) /\ Finals(cache[p], seen[p])
         /\ seen[p] \in Seens /\ path[p] \in Paths /\ OnPaths(cache[p], path[p])
         /\ Nesting(cache[p], path[p]) /\ Descending(cache[p], path[p])
         /\ Loading(cache[p], Current(p).chain, path[p])
         /\ Current(p).todo # <<>> /\ Goal(p) \in Modules
         /\ PCMsLower(rank, Buffers(cache[p])) /\ StackLayered(rank, stack[p])
         /\ Unbuilt("read", cache[p], stack[p]) /\ OpenedImports(cache[p], known[p])
         /\ OpenedChains(known[p], stack[p])
         /\ NotReadYet("read", cache[p], known[p], failed[p], Current(p), attempt[p])
         /\ Reads(rank, cache[p], known[p], stack[p], path[p], Goal(p))
         /\ stack[p] \in Seq(Instances) /\ stack[p] # <<>>
         /\ Current(p) = stack[p][Len(stack[p])] /\ Current(p) \in Instances
<1>1. /\ cache[p] \in Caches /\ Entries(cache[p]) /\ Finals(cache[p], seen[p])
      /\ seen[p] \in Seens /\ path[p] \in Paths
      /\ stack[p] \in Seq(Instances) /\ stack[p] # <<>>
      /\ Current(p) = stack[p][Len(stack[p])] /\ Current(p) \in Instances
  BY DEF Running, LargeTypes
<1>2. Reading("read", cache[p], Current(p), path[p], base[p])
  BY DEF Running
<1>3. Current(p).todo # <<>>
  BY <1>2 DEF Reading
<1>4. Goal(p) \in Modules
  BY <1>3 DEF Running
<1>5. OnPaths(cache[p], path[p]) /\ Nesting(cache[p], path[p]) /\ Descending(cache[p], path[p])
      /\ Loading(cache[p], Current(p).chain, path[p])
  BY <1>2 DEF Reading
<1> QED BY <1>1, <1>3, <1>4, <1>5 DEF LayeredFacts

\* It fails: of a PCM that has been accepted, it does not.
LEMMA FailLayered ==
  ASSUME NEW rank, NEW p, Running(p), LayeredFacts(rank, p), pc[p] = "read", NEW r,
         pc'[p] = IF path[p] = <<>> THEN "result" ELSE "unwind",
         result'[p] = IF path[p] = <<>> THEN r ELSE "OutOfDate",
         failed'[p] = failed[p], stack'[p] = stack[p], path'[p] = path[p],
         attempt'[p] = attempt[p], known[p] \subseteq known'[p],
         NEW d, d = cache'[p],
         PCMsLower(rank, Buffers(d)), Unbuilt("read", d, stack[p]), OpenedImports(d, known[p]),
         \A m \in Modules : d[m].buffer # NoPCM /\ m \notin known'[p] => d[m] = cache[p][m],
         \A m \in Modules : d[m].isFinal <=> cache[p][m].isFinal,
         \A m \in Modules : cache[p][m].buffer # NoPCM => d[m].buffer # NoPCM,
         path[p] # <<>> => ~cache[p][Goal(p)].isFinal,
         path[p] = <<>> => Returns(d, known'[p], failed[p], Goal(p), attempt[p], r)
  PROVE  LayeredAt(rank, p)'
<1> DEFINE c == cache[p]
           pa == path[p]
           g == Goal(p)
<1>1. Current(p)' = Current(p) /\ Goal(p)' = g
  BY DEF Current, Goal
<1>2. /\ c \in Caches /\ pa \in Paths /\ OnPaths(c, pa) /\ Descending(c, pa) /\ g \in Modules
      /\ StackLayered(rank, stack[p]) /\ OpenedChains(known[p], stack[p])
      /\ NotReadYet("read", c, known[p], failed[p], Current(p), attempt[p])
      /\ pa # <<>> => pa[1].mod = g
  BY ReadFacts DEF Reads
<1>3. /\ \A k \in DOMAIN pa : c[pa[k].mod].buffer # NoPCM
      /\ \A j, k \in DOMAIN pa : pa[j].mod = pa[k].mod => j = k
      /\ \A k \in DOMAIN pa : pa[k].mod \in Modules
  <2>1. \A k \in DOMAIN pa : pa[k].mod \in Modules
    BY <1>2, PathsTyped
  <2> QED BY <1>2, <2>1, PathDistinct
<1>4. pa # <<>> => Unwinds(d, pa, g, "OutOfDate")
  BY <1>2, <1>3 DEF Unwinds
<1>5. OpenedChains(known'[p], stack[p]) /\ OpenedImports(d, known'[p])
  BY <1>2 DEF OpenedChains, OpenedChain, OpenedImports
<1>6. \A l : l \in {"result", "unwind"} =>
        Unbuilt(l, d, stack[p]) /\ NotReadYet(l, d, known'[p], failed[p], Current(p), attempt[p])
  <2>1. \A l : l \in {"result", "unwind"} => Unbuilt(l, d, stack[p])
    BY DEF Unbuilt
  <2>2. \A l : l \in {"result", "unwind"} =>
          NotReadYet(l, d, known'[p], failed[p], Current(p), attempt[p])
    BY <1>2 DEF NotReadYet
  <2> QED BY <2>1, <2>2
<1>7. pc'[p] \in {"result", "unwind"} /\ pc'[p] \notin Ended
  BY DEF Ended
<1>8. pc'[p] = "unwind" => Unwinds(d, pa, g, result'[p])
  BY <1>4
<1>9. pc'[p] = "result" => Returns(d, known'[p], failed[p], g, attempt[p], result'[p])
  OBVIOUS
<1> HIDE DEF c, pa, g
<1>10. LayeredFacts(rank, p)'
  <2>1. /\ PCMsLower(rank, Buffers(cache'[p])) /\ StackLayered(rank, stack'[p])
        /\ Unbuilt(pc'[p], cache'[p], stack'[p]) /\ OpenedImports(cache'[p], known'[p])
        /\ OpenedChains(known'[p], stack'[p])
        /\ NotReadYet(pc'[p], cache'[p], known'[p], failed'[p], Current(p)', attempt'[p])
    BY <1>1, <1>2, <1>5, <1>6, <1>7
  <2>2. pc'[p] = "unwind" => Unwinds(cache'[p], path'[p], Goal(p)', result'[p])
    BY <1>1, <1>8 DEF pa
  <2>3. pc'[p] = "result" =>
          Returns(cache'[p], known'[p], failed'[p], Goal(p)', attempt'[p], result'[p])
    BY <1>1, <1>9
  <2> QED BY <1>7, <2>1, <2>2, <2>3 DEF LayeredFacts
<1> QED BY <1>7, <1>10, FactsAfterwards DEF Ended

\* The file is not there, and the PCM is not known.
LEMMA AddMissingLayered ==
  ASSUME Inv, NEW rank, NEW p \in Procs, LayeredFacts(rank, p), Running(p), AddMissing(p)
  PROVE  LayeredAt(rank, p)'
<1> DEFINE c == cache[p]
           m == Wanted(p).mod
           pa == path[p]
           g == Goal(p)
<1>1. /\ Adding(p) /\ pc[p] = "read"
      /\ pc'[p] = IF pa = <<>> THEN "result" ELSE "unwind"
      /\ result'[p] = IF pa = <<>> THEN "Missing" ELSE "OutOfDate"
      /\ failed'[p] = failed[p] /\ stack'[p] = stack[p] /\ path'[p] = pa
      /\ attempt'[p] = attempt[p] /\ cache'[p] = c
  BY DEF AddMissing, Adding, Fail, Goto, Inv, TypeOK
<1>2. known[p] \subseteq known'[p]
  BY DEF AddMissing, Lookup, Inv, TypeOK
<1>3. m \notin known[p] \/ State(p, m) = "Unknown"
  BY DEF AddMissing, CanOpen
<1>4. m \in Modules
  BY <1>1, WantedTyped
<1>5. /\ Entries(c) /\ PCMsLower(rank, Buffers(c)) /\ Unbuilt("read", c, stack[p])
      /\ OpenedImports(c, known[p])
      /\ NotReadYet("read", c, known[p], failed[p], Current(p), attempt[p])
  BY <1>1, ReadFacts
<1>6. State(p, m) = "Unknown" => c[m].buffer = NoPCM /\ ~c[m].isFinal
  BY <1>4, <1>5 DEF State, getPCMState, Entries
<1>7. pa # <<>> => ~c[g].isFinal
  BY <1>1, <1>3, <1>6, AcceptedBelow DEF Accepted
<1>8. pa = <<>> => Returns(c, known'[p], failed[p], g, attempt[p], "Missing")
  <2> SUFFICES ASSUME pa = <<>>, attempt[p] \notin {"owned", "error"}, c[g].buffer # NoPCM
               PROVE  g \in failed[p]
    BY DEF Returns
  <2>1. m = g
    BY DEF Wanted
  <2>2. g \notin known[p]
    BY <1>3, <1>6, <2>1
  <2> QED BY <1>4, <1>5, <2>1, <2>2 DEF NotReadYet
<1> HIDE DEF c, m, pa, g
<1>9. \A k \in Modules : cache'[p][k] = cache[p][k]
  BY <1>1 DEF c
<1> QED BY <1>1, <1>2, <1>5, <1>7, <1>8, <1>9, FailLayered DEF c, pa, g

\* The PCM has been found out of date before, or is not the one its importer was built
\* against.
LEMMA AddOutOfDateLayered ==
  ASSUME Inv, NEW rank, Layered(rank), PCMsLower(rank, disk), NEW p \in Procs,
         LayeredFacts(rank, p), Running(p), AddOutOfDate(p)
  PROVE  LayeredAt(rank, p)'
<1> DEFINE c == cache[p]
           d == cache'[p]
           m == Wanted(p).mod
           pa == path[p]
           g == Goal(p)
           r == "OutOfDate"
<1>1. /\ Adding(p) /\ pc[p] = "read"
      /\ pc'[p] = IF pa = <<>> THEN "result" ELSE "unwind"
      /\ result'[p] = IF pa = <<>> THEN r ELSE "OutOfDate"
      /\ failed'[p] = failed[p] /\ stack'[p] = stack[p] /\ path'[p] = pa
      /\ attempt'[p] = attempt[p]
  BY DEF AddOutOfDate, Adding, Fail, Goto, Inv, TypeOK
<1>2. known'[p] = known[p] \cup {m}
  BY DEF AddOutOfDate, Lookup, Inv, TypeOK
<1>3. \/ State(p, m) = "ToBuild" /\ d = c
      \/ /\ State(p, m) # "ToBuild" /\ Buffer(p, m) # NoPCM
         /\ Mismatch(Buffer(p, m), Wanted(p).sig) /\ Keep(p, m)
  BY DEF AddOutOfDate
<1>4. m \in Modules /\ (pa = <<>> => Wanted(p).sig = NoPCM)
  BY <1>1, WantedTyped
<1>5. /\ c \in Caches /\ Entries(c) /\ PCMsLower(rank, Buffers(c)) /\ Unbuilt("read", c, stack[p])
      /\ OpenedImports(c, known[p])
      /\ NotReadYet("read", c, known[p], failed[p], Current(p), attempt[p])
  BY <1>1, ReadFacts
<1>6. pa # <<>> => ~c[g].isFinal
  <2> SUFFICES ASSUME pa # <<>>, c[g].isFinal PROVE FALSE
    OBVIOUS
  <2>1. c[m].isFinal /\ c[m].buffer = Wanted(p).sig
    BY <1>1, AcceptedBelow DEF Accepted
  <2>2. c[m].present /\ c[m].buffer # NoPCM
    BY <1>4, <1>5, <2>1 DEF Entries
  <2>3. State(p, m) = "Final"
    BY <2>1, <2>2 DEF State, getPCMState
  <2>4. Buffer(p, m) = Wanted(p).sig
    BY <2>1, <2>2 DEF Buffer
  <2> QED BY <1>3, <2>3, <2>4 DEF Mismatch
<1>7. /\ \A k \in Modules : d[k].isFinal <=> c[k].isFinal
      /\ \A k \in Modules : k # m => d[k] = c[k]
      /\ c[m].buffer # NoPCM => d[m].buffer = c[m].buffer
      /\ PCMsLower(rank, Buffers(d)) /\ Unbuilt("read", d, stack[p]) /\ OpenedImports(d, known[p])
  <2>1. CASE State(p, m) = "ToBuild" /\ d = c
    BY <1>5, <2>1
  <2>2. CASE State(p, m) # "ToBuild" /\ Buffer(p, m) # NoPCM /\ Keep(p, m)
    BY <1>1, <2>2, KeepLayered
  <2> QED BY <1>3, <2>1, <2>2
<1>8. pa = <<>> => Returns(d, known'[p], failed[p], g, attempt[p], r)
  <2> SUFFICES ASSUME pa = <<>> PROVE d[g].buffer = NoPCM
    BY DEF Returns
  <2>1. m = g
    BY DEF Wanted
  <2>2. State(p, m) = "ToBuild" /\ d = c
    BY <1>3, <1>4 DEF Mismatch
  <2>3. ~c[m].isFinal /\ c[m].buffer = NoPCM
    BY <2>2 DEF State, getPCMState
  <2> QED BY <2>1, <2>2, <2>3
<1> HIDE DEF c, d, m, pa, g, r
<1>9. /\ \A k \in Modules : d[k].buffer # NoPCM /\ k \notin known'[p] => d[k] = c[k]
      /\ \A k \in Modules : c[k].buffer # NoPCM => d[k].buffer # NoPCM
      /\ known[p] \subseteq known'[p]
  BY <1>2, <1>7
<1>10. /\ pc'[p] = IF path[p] = <<>> THEN "result" ELSE "unwind"
       /\ result'[p] = IF path[p] = <<>> THEN r ELSE "OutOfDate"
       /\ path'[p] = path[p]
       /\ path[p] # <<>> => ~cache[p][Goal(p)].isFinal
       /\ path[p] = <<>> => Returns(d, known'[p], failed[p], Goal(p), attempt[p], r)
  BY <1>1, <1>6, <1>8 DEF c, pa, g
<1>11. /\ \A k \in Modules : d[k].buffer # NoPCM /\ k \notin known'[p] => d[k] = cache[p][k]
       /\ \A k \in Modules : d[k].isFinal <=> cache[p][k].isFinal
       /\ \A k \in Modules : cache[p][k].buffer # NoPCM => d[k].buffer # NoPCM
  BY <1>7, <1>9 DEF c
<1>12. /\ pc[p] = "read"
       /\ failed'[p] = failed[p] /\ stack'[p] = stack[p] /\ attempt'[p] = attempt[p]
       /\ d = cache'[p]
       /\ PCMsLower(rank, Buffers(d)) /\ Unbuilt("read", d, stack[p]) /\ OpenedImports(d, known[p])
       /\ known[p] \subseteq known'[p]
  BY <1>1, <1>7, <1>9 DEF d
<1> QED BY <1>10, <1>11, <1>12, FailLayered

\* Another PCM of the module has been loaded.
LEMMA AddAgainFailsLayered ==
  ASSUME Inv, NEW rank, NEW p \in Procs, LayeredFacts(rank, p), Running(p), AddAgain(p),
         NEW j \in DOMAIN Current(p).chain, Current(p).chain[j].mod = Wanted(p).mod,
         Mismatch(Current(p).chain[j].pcm, Wanted(p).sig), Fail(p, "OutOfDate"),
         UNCHANGED <<stack, path>>
  PROVE  LayeredAt(rank, p)'
<1> DEFINE c == cache[p]
           pa == path[p]
           g == Goal(p)
<1>1. /\ Adding(p) /\ pc[p] = "read"
      /\ pc'[p] = IF pa = <<>> THEN "result" ELSE "unwind"
      /\ result'[p] = IF pa = <<>> THEN "OutOfDate" ELSE "OutOfDate"
      /\ failed'[p] = failed[p] /\ stack'[p] = stack[p] /\ path'[p] = pa
      /\ attempt'[p] = attempt[p] /\ cache'[p] = c
  BY DEF AddAgain, Adding, Fail, Goto, Inv, TypeOK
<1>2. known[p] \subseteq known'[p]
  BY DEF AddAgain, Lookup, Inv, TypeOK
<1>3. /\ PCMsLower(rank, Buffers(c)) /\ Unbuilt("read", c, stack[p]) /\ OpenedImports(c, known[p])
      /\ Loading(c, Current(p).chain, pa)
  BY <1>1, ReadFacts
<1>4. pa # <<>>
  BY <1>1, WantedTyped DEF Mismatch
<1>5. ~c[g].isFinal
  <2> SUFFICES ASSUME c[g].isFinal PROVE FALSE
    OBVIOUS
  <2>1. c[Wanted(p).mod].buffer = Wanted(p).sig
    BY <1>1, <1>4, AcceptedBelow DEF Accepted
  <2>2. c[Wanted(p).mod].buffer = Current(p).chain[j].pcm
    BY <1>3 DEF Loading
  <2> QED BY <2>1, <2>2 DEF Mismatch
<1> HIDE DEF c, pa, g
<1>6. \A k \in Modules : cache'[p][k] = cache[p][k]
  BY <1>1 DEF c
<1> QED BY <1>1, <1>2, <1>3, <1>4, <1>5, <1>6, FailLayered DEF c, pa, g

\* What the last PCM on the path has waited for is there.
LEMMA AdvancedReads ==
  ASSUME NEW rank, NEW c, NEW kn, NEW st, NEW g, NEW pa \in Paths, pa # <<>>,
         Reads(rank, c, kn, st, pa, g), Last(pa).todo # <<>>, Head(Last(pa).todo).mod \in kn,
         NEW q, q = Append(Front(pa), [Last(pa) EXCEPT !.todo = Tail(@)])
  PROVE  Reads(rank, c, kn, st, q, g)
<1> DEFINE n == Len(pa)
           e == [Last(pa) EXCEPT !.todo = Tail(@)]
<1>1. n \in Nat \ {0} /\ DOMAIN pa = 1..n /\ n \in DOMAIN pa
  BY EmptySeq, LenProperties DEF Paths
<1>h. n = Len(pa)
  OBVIOUS
<1> HIDE DEF n
<1>2. Last(pa) = pa[n] /\ pa[n].todo \in Todos /\ pa[n].todo # <<>>
      /\ pa[n] \in [mod : Modules, src : Versions, todo : Todos]
  BY <1>1, <1>h, PathsTyped, ElementOfSeq DEF Last, Paths
<1>3. Tail(pa[n].todo) \in Todos /\ Len(pa[n].todo) \in Nat \ {0}
      /\ DOMAIN pa[n].todo = 1..Len(pa[n].todo)
      /\ DOMAIN Tail(pa[n].todo) = 1..(Len(pa[n].todo) - 1)
      /\ \A j \in 1..(Len(pa[n].todo) - 1) : Tail(pa[n].todo)[j] = pa[n].todo[j + 1]
  BY <1>2, EmptySeq, LenProperties, HeadTailProperties DEF Todos
<1>4. /\ e \in [mod : Modules, src : Versions, todo : Todos]
      /\ e.mod = pa[n].mod /\ e.todo = Tail(pa[n].todo)
  BY <1>2, <1>3
<1> HIDE DEF e
<1>5. /\ Len(q) = n /\ DOMAIN q = 1..n /\ q[n] = e /\ \A k \in 1..(n - 1) : q[k] = pa[k]
  <2>1. /\ q \in Paths /\ Len(q) = n /\ q[n] = e /\ \A k \in 1..(n - 1) : q[k] = pa[k]
    BY <1>4, <1>h, ReplaceLast DEF e, Paths
  <2> QED BY <2>1, LenProperties DEF Paths
<1>6. ASSUME NEW k \in 1..n PROVE q[k].mod = pa[k].mod /\ (q[k] = pa[k] \/ k = n)
  <2>1. k = n \/ k \in 1..(n - 1)
    BY <1>1
  <2> QED BY <2>1, <1>4, <1>5
<1>7. LookedUp(c, kn, e)
  <2> DEFINE x == c[pa[n].mod].buffer
  <2>1. LookedUp(c, kn, pa[n])
    BY <1>1 DEF Reads
  <2>2. ASSUME NEW i \in DOMAIN x.imports, x.imports[i].mod \notin kn
        PROVE  \E j \in DOMAIN e.todo : e.todo[j] = x.imports[i]
    <3>1. PICK j \in DOMAIN pa[n].todo : pa[n].todo[j] = x.imports[i]
      BY <2>1, <2>2 DEF LookedUp
    <3>2. Head(pa[n].todo) = pa[n].todo[1]
      BY <1>2
    <3>3. j # 1
      BY <1>2, <2>2, <3>1, <3>2
    <3>4. j - 1 \in DOMAIN e.todo /\ e.todo[j - 1] = pa[n].todo[j]
      BY <1>3, <1>4, <3>3
    <3> QED BY <3>1, <3>4
  <2> QED BY <1>4, <2>1, <2>2 DEF LookedUp
<1>8. q[1].mod = g
  <2>1. 1 \in 1..n /\ pa[1].mod = g
    BY <1>1 DEF Reads
  <2> QED BY <1>6, <2>1
<1>9. ASSUME NEW k \in 1..n PROVE Under(rank, st, Len(st), q[k].mod) /\ LookedUp(c, kn, q[k])
  <2>1. Under(rank, st, Len(st), pa[k].mod) /\ LookedUp(c, kn, pa[k])
    BY <1>1 DEF Reads
  <2> QED BY <1>5, <1>6, <1>7, <2>1
<1>10. c[g].isFinal => \A k \in 1..n : c[q[k].mod].isFinal
  BY <1>1, <1>6 DEF Reads
<1> QED BY <1>5, <1>8, <1>9, <1>10 DEF Reads

\* It is loaded: its importer goes on, or ReadAST returns.
LEMMA SucceedLayered ==
  ASSUME NEW rank, NEW p, NEW pa \in Paths, path'[p] = Advance(p, pa),
         pc'[p] = IF pa = <<>> THEN "result" ELSE "read", pa = <<>> => result'[p] = "Success",
         pa = <<>> => Goal(p)' \in known'[p],
         pa # <<>> => Last(pa).todo # <<>> /\ Head(Last(pa).todo).mod \in known'[p],
         Reads(rank, cache'[p], known'[p], stack'[p], pa, Goal(p)'),
         PCMsLower(rank, Buffers(cache'[p])), StackLayered(rank, stack'[p]),
         Unbuilt("read", cache'[p], stack'[p]), OpenedImports(cache'[p], known'[p]),
         OpenedChains(known'[p], stack'[p]),
         NotReadYet("read", cache'[p], known'[p], failed'[p], Current(p)', attempt'[p])
  PROVE  LayeredAt(rank, p)'
<1>1. pc'[p] \in {"read", "result"} /\ pc'[p] \notin Ended
  BY DEF Ended
<1>2. Unbuilt(pc'[p], cache'[p], stack'[p])
  BY <1>1 DEF Unbuilt
<1>3. NotReadYet(pc'[p], cache'[p], known'[p], failed'[p], Current(p)', attempt'[p])
  BY <1>1 DEF NotReadYet
<1>4. pc'[p] = "read" =>
        Reads(rank, cache'[p], known'[p], stack'[p], path'[p], Goal(p)')
  <2> SUFFICES ASSUME pa # <<>>
               PROVE  Reads(rank, cache'[p], known'[p], stack'[p], path'[p], Goal(p)')
    OBVIOUS
  <2>1. path'[p] = Append(Front(pa), [Last(pa) EXCEPT !.todo = Tail(@)])
    BY DEF Advance
  <2> QED BY <2>1, AdvancedReads
<1>5. pc'[p] = "result" =>
        Returns(cache'[p], known'[p], failed'[p], Goal(p)', attempt'[p], result'[p])
  BY DEF Returns
<1>6. LayeredFacts(rank, p)'
  BY <1>1, <1>2, <1>3, <1>4, <1>5 DEF LayeredFacts
<1> QED BY <1>1, <1>6, FactsAfterwards DEF Ended

\* A module that is new or known to be imported directly: the instance that loads it.
LEMMA LoadedStack ==
  ASSUME NEW rank, NEW st \in Seq(Instances), st # <<>>, StackLayered(rank, st),
         NEW r \in Instances, r.mod = st[Len(st)].mod, r.todo = st[Len(st)].todo,
         Len(st) # 1 => \A j \in DOMAIN r.chain : Lower(rank, r.chain[j].mod, r.mod),
         NEW new, new = Append(Front(st), r)
  PROVE  /\ StackLayered(rank, new) /\ new[Len(new)] = r
         /\ \A m : Under(rank, st, Len(st), m) => Under(rank, new, Len(new), m)
<1>1. Len(st) \in 1..Len(st)
  BY EmptySeq, LenProperties
<1>2. \A j \in DOMAIN r.todo : Under(rank, st, Len(st), r.todo[j])
  BY <1>1 DEF StackLayered, InstanceLayered
<1>3. StackLayered(rank, new)
  BY <1>2, ReplacedLayered
<1>4. \A m : Under(rank, st, Len(st), m) => Under(rank, new, Len(new), m)
  BY <1>2, ReplacedLayered
<1>5. new[Len(new)] = r
  BY <1>2, ReplacedLayered
<1> QED BY <1>3, <1>4, <1>5

LEMMA ReadsKept ==
  ASSUME NEW rank, NEW c, NEW kn, NEW st, NEW pa, NEW g, Reads(rank, c, kn, st, pa, g),
         NEW new, \A m : Under(rank, st, Len(st), m) => Under(rank, new, Len(new), m),
         NEW k2, kn \subseteq k2
  PROVE  Reads(rank, c, k2, new, pa, g)
<1>1. ASSUME NEW e, LookedUp(c, kn, e) PROVE LookedUp(c, k2, e)
  BY <1>1 DEF LookedUp
<1> QED BY <1>1 DEF Reads

LEMMA AddAgainLayered ==
  ASSUME Inv, NEW rank, Layered(rank), NEW p \in Procs, LayeredFacts(rank, p), Running(p), AddAgain(p)
  PROVE  LayeredAt(rank, p)'
<1> DEFINE c == cache[p]
           cur == Current(p)
           w == Wanted(p)
           st == stack[p]
           pa == path[p]
           kn == known[p]
           new == stack'[p]
           k2 == known'[p]
<1>1. Adding(p) /\ pc[p] = "read" /\ w.mod \in Modules
  BY WantedTyped DEF AddAgain, Adding
<1>2. PICK i \in DOMAIN cur.chain :
        /\ cur.chain[i].mod = w.mod
        /\ \/ /\ Mismatch(cur.chain[i].pcm, w.sig) /\ Fail(p, "OutOfDate")
              /\ UNCHANGED <<stack, path>>
           \/ /\ ~Mismatch(cur.chain[i].pcm, w.sig) /\ Succeed(p, pa)
              /\ SetCurrent(p, [cur EXCEPT !.chain[i].direct = @ \/ pa = <<>>])
  BY DEF AddAgain
<1>3. CASE /\ Mismatch(cur.chain[i].pcm, w.sig) /\ Fail(p, "OutOfDate")
           /\ UNCHANGED <<stack, path>>
  BY <1>2, <1>3, AddAgainFailsLayered
<1>4. CASE /\ Succeed(p, pa)
           /\ SetCurrent(p, [cur EXCEPT !.chain[i].direct = @ \/ pa = <<>>])
  <2> DEFINE direct == cur.chain[i].direct \/ pa = <<>>
             r == WithDirect(cur, i, direct)
  <2>1. /\ cache'[p] = c /\ k2 = kn \cup {w.mod} /\ failed'[p] = failed[p] /\ attempt'[p] = attempt[p]
        /\ path'[p] = Advance(p, pa) /\ pc'[p] = IF pa = <<>> THEN "result" ELSE "read"
        /\ (pa = <<>> => result'[p] = "Success")
    BY <1>4 DEF AddAgain, Lookup, Succeed, Goto, Inv, TypeOK
  <2>2. new = Append(Front(st), r)
    BY <1>4 DEF SetCurrent, WithDirect, Inv, TypeOK
  <2>3. /\ pa \in Paths /\ Entries(c) /\ PCMsLower(rank, Buffers(c)) /\ StackLayered(rank, st)
        /\ Unbuilt("read", c, st) /\ OpenedImports(c, kn) /\ OpenedChains(kn, st)
        /\ NotReadYet("read", c, kn, failed[p], cur, attempt[p])
        /\ Reads(rank, c, kn, st, pa, Goal(p)) /\ st \in Seq(Instances) /\ st # <<>>
        /\ cur = st[Len(st)] /\ cur \in Instances
    BY <1>1, ReadFacts
  <2>4. /\ r \in Instances /\ r.mod = cur.mod /\ r.todo = cur.todo /\ DOMAIN r.chain = DOMAIN cur.chain
        /\ \A k \in DOMAIN cur.chain : r.chain[k].mod = cur.chain[k].mod
    <3>1. direct \in BOOLEAN /\ r = WithDirect(cur, i, direct)
      OBVIOUS
    <3>2. i \in DOMAIN cur.chain
      BY <1>2
    <3> HIDE DEF direct, r, cur
    <3> QED BY <2>3, <3>1, <3>2, DirectSet
  <2>5. pa # <<>> => Last(pa).todo # <<>> /\ Head(Last(pa).todo).mod \in k2
    BY <1>1, <2>1 DEF Adding, Wanted
  <2>6. pa = <<>> => Goal(p) \in k2
    BY <2>1 DEF Wanted
  <2> HIDE DEF c, cur, w, st, pa, kn, new, k2, direct, r
  <2>7. kn \subseteq k2 /\ Len(st) \in 1..Len(st)
    <3>1. Len(st) \in 1..Len(st)
      BY <2>3, EmptySeq, LenProperties
    <3> QED BY <2>1, <3>1
  <2>8. Len(st) # 1 => \A j \in DOMAIN r.chain : Lower(rank, r.chain[j].mod, r.mod)
    BY <2>3, <2>4, <2>7 DEF StackLayered, InstanceLayered
  <2>9. OpenedChains(k2, st) /\ OpenedChain(k2, r.chain) /\ OpenedImports(c, k2)
    <3>1. OpenedChains(k2, st) /\ OpenedImports(c, k2)
      BY <2>3, <2>7 DEF OpenedChains, OpenedChain, OpenedImports
    <3>2. OpenedChain(k2, cur.chain)
      BY <2>3, <2>7, <3>1 DEF OpenedChains
    <3> QED BY <2>4, <3>1, <3>2 DEF OpenedChain
  <2>10. /\ StackLayered(rank, new) /\ Unbuilt("read", c, new) /\ OpenedChains(k2, new)
         /\ \A m : Under(rank, st, Len(st), m) => Under(rank, new, Len(new), m)
         /\ new[Len(new)] = r
    <3>1. /\ st \in Seq(Instances) /\ st # <<>> /\ StackLayered(rank, st) /\ r \in Instances
          /\ r.mod = st[Len(st)].mod /\ r.todo = st[Len(st)].todo
          /\ Len(st) # 1 => \A j \in DOMAIN r.chain : Lower(rank, r.chain[j].mod, r.mod)
          /\ OpenedChains(k2, st) /\ OpenedChain(k2, r.chain) /\ Unbuilt("read", c, st)
          /\ new = Append(Front(st), r)
      BY <2>2, <2>3, <2>4, <2>8, <2>9
    <3>2. StackLayered(rank, new) /\ new[Len(new)] = r
          /\ \A m : Under(rank, st, Len(st), m) => Under(rank, new, Len(new), m)
      BY <3>1, LoadedStack
    <3>3. Unbuilt("read", c, new) /\ OpenedChains(k2, new)
      BY <3>1, ReplacedOpened
    <3> QED BY <3>2, <3>3
  <2>11. Reads(rank, c, k2, new, pa, Goal(p))
    BY <2>3, <2>7, <2>10, ReadsKept
  <2>12. Goal(p)' = Goal(p) /\ Current(p)' = r
    <3>1. Current(p)' = r
      BY <2>10 DEF Current, Last, new
    <3> QED BY <2>4, <3>1 DEF Goal, cur
  <2>13. NotReadYet("read", c, k2, failed[p], r, attempt[p])
    BY <2>3, <2>4, <2>7 DEF NotReadYet
  <2>14. /\ path'[p] = Advance(p, pa) /\ pc'[p] = IF pa = <<>> THEN "result" ELSE "read"
         /\ pa = <<>> => result'[p] = "Success"
         /\ pa = <<>> => Goal(p)' \in known'[p]
         /\ pa # <<>> => Last(pa).todo # <<>> /\ Head(Last(pa).todo).mod \in known'[p]
         /\ Reads(rank, cache'[p], known'[p], stack'[p], pa, Goal(p)')
         /\ PCMsLower(rank, Buffers(cache'[p])) /\ StackLayered(rank, stack'[p])
         /\ Unbuilt("read", cache'[p], stack'[p]) /\ OpenedImports(cache'[p], known'[p])
         /\ OpenedChains(known'[p], stack'[p])
         /\ NotReadYet("read", cache'[p], known'[p], failed'[p], Current(p)', attempt'[p])
    BY <2>1, <2>3, <2>5, <2>6, <2>9, <2>10, <2>11, <2>12, <2>13 DEF new, k2
  <2> QED BY <2>3, <2>14, SucceedLayered
<1> QED BY <1>2, <1>3, <1>4

\* A PCM is added: its imports come next.
LEMMA AddNewLayered ==
  ASSUME Inv, NEW rank, Layered(rank), PCMsLower(rank, disk), NEW p \in Procs,
         LayeredFacts(rank, p), Running(p), AddNew(p)
  PROVE  LayeredAt(rank, p)'
<1> DEFINE c == cache[p]
           d == cache'[p]
           cur == Current(p)
           m == Wanted(p).mod
           x == Buffer(p, m)
           st == stack[p]
           pa == path[p]
           kn == known[p]
           new == stack'[p]
           k2 == known'[p]
           g == Goal(p)
           e == [mod |-> m, pcm |-> x, direct |-> pa = <<>>]
           r == [cur EXCEPT !.chain = Append(@, e)]
           q == Append(pa, [mod |-> m, src |-> x.src, todo |-> x.imports])
<1>1. /\ Adding(p) /\ pc[p] = "read" /\ m \in Modules /\ State(p, m) # "ToBuild" /\ x # NoPCM
      /\ Keep(p, m)
  BY WantedTyped DEF AddNew, Adding
<1>2. /\ k2 = kn \cup {m} /\ failed'[p] = failed[p] /\ attempt'[p] = attempt[p]
      /\ pc'[p] = "read" /\ path'[p] = q /\ new = Append(Front(st), r)
  BY <1>1 DEF AddNew, Lookup, SetCurrent, Inv, TypeOK
<1>3. /\ pa \in Paths /\ Entries(c) /\ StackLayered(rank, st) /\ OpenedChains(kn, st)
      /\ NotReadYet("read", c, kn, failed[p], cur, attempt[p])
      /\ Reads(rank, c, kn, st, pa, g) /\ st \in Seq(Instances) /\ st # <<>>
      /\ cur = st[Len(st)] /\ cur \in Instances /\ g \in Modules /\ cur.todo # <<>>
      /\ OnPaths(c, pa) /\ c \in Caches
  BY <1>1, ReadFacts
<1>4. /\ \A k \in Modules : d[k].isFinal <=> c[k].isFinal
      /\ \A k \in Modules : k # m => d[k] = c[k]
      /\ c[m].buffer # NoPCM => d[m].buffer = c[m].buffer
      /\ d[m].buffer = x
      /\ PCMsLower(rank, Buffers(d)) /\ Unbuilt("read", d, st) /\ OpenedImports(d, kn)
  BY <1>1, KeepLayered
<1>5. x \in PCMs
  BY <1>1, KeepsPCM
<1>6. Under(rank, st, Len(st), m)
  BY <1>1, WantedUnder
<1>7. c[g].isFinal => c[m].isFinal
  <2>1. pa = <<>> => m = g
    BY DEF Wanted
  <2>2. pa # <<>> /\ c[g].isFinal => c[m].isFinal
    BY <1>1, AcceptedBelow DEF Accepted
  <2> QED BY <2>1, <2>2
<1>8. pa = <<>> => m = g
  BY DEF Wanted
<1>9. e \in [mod : Modules, pcm : PCMs, direct : BOOLEAN] /\ e.mod = m
  BY <1>1, <1>5
<1>10. cur.chain \in Seq([mod : Modules, pcm : PCMs, direct : BOOLEAN])
  BY <1>3 DEF Instances
<1>h. r = [cur EXCEPT !.chain = Append(@, e)]
      /\ q = Append(pa, [mod |-> m, src |-> x.src, todo |-> x.imports])
  OBVIOUS
<1> HIDE DEF c, d, cur, m, x, st, pa, kn, new, k2, g, e, r, q
<1>11. /\ Append(cur.chain, e) \in Seq([mod : Modules, pcm : PCMs, direct : BOOLEAN])
       /\ DOMAIN Append(cur.chain, e) = 1..(Len(cur.chain) + 1) /\ Len(cur.chain) \in Nat
       /\ \A j \in 1..Len(cur.chain) : Append(cur.chain, e)[j] = cur.chain[j]
       /\ Append(cur.chain, e)[Len(cur.chain) + 1] = e
       /\ DOMAIN cur.chain = 1..Len(cur.chain)
  BY <1>9, <1>10, AppendProperties, LenProperties
<1>12. r \in Instances /\ r.mod = cur.mod /\ r.todo = cur.todo /\ r.chain = Append(cur.chain, e)
  BY <1>3, <1>11, <1>h DEF Instances
<1>13. ASSUME NEW j \in DOMAIN r.chain
       PROVE  r.chain[j].mod = m \/ (j \in DOMAIN cur.chain /\ r.chain[j] = cur.chain[j])
  <2>1. j = Len(cur.chain) + 1 \/ j \in 1..Len(cur.chain)
    BY <1>11, <1>12
  <2> QED BY <1>9, <1>11, <1>12, <2>1
<1>14. kn \subseteq k2 /\ m \in k2 /\ Len(st) \in 1..Len(st) /\ Len(st) \in Nat
  <2>1. Len(st) \in 1..Len(st) /\ Len(st) \in Nat
    BY <1>3, EmptySeq, LenProperties
  <2> QED BY <1>2, <2>1
<1>15. Len(st) # 1 => \A j \in DOMAIN r.chain : Lower(rank, r.chain[j].mod, r.mod)
  <2> SUFFICES ASSUME Len(st) # 1, NEW j \in DOMAIN r.chain PROVE Lower(rank, r.chain[j].mod, r.mod)
    OBVIOUS
  <2>1. Lower(rank, m, r.mod)
    <3>1. Len(st) \in 2..Len(st)
      <4>1. \A a \in Nat : a # 1 /\ a \in 1..a => a \in 2..a
        OBVIOUS
      <4> QED BY <1>14, <4>1
    <3> QED BY <1>3, <1>6, <1>12, <3>1 DEF Under
  <2>2. j \in DOMAIN cur.chain => Lower(rank, cur.chain[j].mod, r.mod)
    BY <1>3, <1>12, <1>14 DEF StackLayered, InstanceLayered
  <2> QED BY <1>13, <2>1, <2>2
<1>16. OpenedChains(k2, st) /\ OpenedImports(d, k2) /\ OpenedChain(k2, r.chain)
  <2>1. OpenedChains(k2, st) /\ OpenedImports(d, k2)
    BY <1>3, <1>4, <1>14 DEF OpenedChains, OpenedChain, OpenedImports
  <2>2. OpenedChain(k2, cur.chain)
    BY <1>3, <1>14, <2>1 DEF OpenedChains
  <2> QED BY <1>13, <1>14, <2>1, <2>2 DEF OpenedChain
<1>17. /\ StackLayered(rank, new) /\ Unbuilt("read", d, new) /\ OpenedChains(k2, new)
       /\ \A k : Under(rank, st, Len(st), k) => Under(rank, new, Len(new), k)
       /\ new[Len(new)] = r
  <2>1. /\ st \in Seq(Instances) /\ st # <<>> /\ StackLayered(rank, st) /\ r \in Instances
        /\ r.mod = st[Len(st)].mod /\ r.todo = st[Len(st)].todo
        /\ Len(st) # 1 => \A j \in DOMAIN r.chain : Lower(rank, r.chain[j].mod, r.mod)
        /\ OpenedChains(k2, st) /\ OpenedChain(k2, r.chain) /\ Unbuilt("read", d, st)
        /\ new = Append(Front(st), r)
    BY <1>2, <1>3, <1>4, <1>12, <1>15, <1>16
  <2>2. StackLayered(rank, new) /\ new[Len(new)] = r
        /\ \A k : Under(rank, st, Len(st), k) => Under(rank, new, Len(new), k)
    BY <2>1, LoadedStack
  <2>3. Unbuilt("read", d, new) /\ OpenedChains(k2, new)
    BY <2>1, ReplacedOpened
  <2> QED BY <2>2, <2>3
<1>18. Current(p)' = r /\ Goal(p)' = g
  <2>1. Current(p)' = r
    BY <1>17 DEF Current, Last, new
  <2> QED BY <1>12, <2>1 DEF Goal, cur, g
<1>19. NotReadYet("read", d, k2, failed[p], r, attempt[p])
  BY <1>2, <1>3, <1>4, <1>12 DEF NotReadYet
<1>20. Reads(rank, d, k2, new, q, g)
  <2> DEFINE n == Len(pa)
             f == [mod |-> m, src |-> x.src, todo |-> x.imports]
  <2>1. /\ n \in Nat /\ DOMAIN pa = 1..n /\ (pa = <<>> <=> n = 0)
    BY <1>3, EmptySeq, LenProperties DEF Paths
  <2>2. f \in [mod : Modules, src : Versions, todo : Todos]
    BY <1>1, <1>5, PCMProperties DEF Todos, m
  <2>3. f.mod = m /\ f.todo = x.imports
    OBVIOUS
  <2>4. DOMAIN q = 1..(n + 1) /\ q[n + 1] = f /\ \A k \in 1..n : q[k] = pa[k]
    <3>1. q \in Seq([mod : Modules, src : Versions, todo : Todos]) /\ Len(q) = n + 1
          /\ q[n + 1] = f /\ \A k \in 1..n : q[k] = pa[k]
      BY <1>3, <1>h, <2>2, AppendProperties DEF Paths
    <3> QED BY <3>1, LenProperties
  <2> HIDE DEF n, f
  <2>5. ASSUME NEW k \in 1..(n + 1) PROVE k = n + 1 \/ k \in 1..n
    BY <2>1
  <2>6. LookedUp(d, k2, f)
    BY <1>4, <1>14, <2>3 DEF LookedUp
  <2>7. ASSUME NEW k \in 1..n
        PROVE  /\ Under(rank, new, Len(new), pa[k].mod) /\ LookedUp(d, k2, pa[k])
               /\ c[g].isFinal => d[pa[k].mod].isFinal
    <3>1. /\ Under(rank, st, Len(st), pa[k].mod) /\ LookedUp(c, kn, pa[k])
          /\ c[g].isFinal => c[pa[k].mod].isFinal
      BY <1>3, <2>1 DEF Reads
    <3>2. pa[k].mod \in Modules /\ c[pa[k].mod].buffer # NoPCM
      BY <1>3, <2>1, PathsTyped DEF OnPaths, OnPath
    <3>3. d[pa[k].mod].buffer = c[pa[k].mod].buffer
      BY <1>4, <3>2
    <3>4. LookedUp(d, k2, pa[k])
      BY <1>14, <3>1, <3>3 DEF LookedUp
    <3> QED BY <1>4, <1>17, <3>1, <3>2, <3>4
  <2>8. Under(rank, new, Len(new), m) /\ m \in Modules
    BY <1>1, <1>6, <1>17 DEF m
  <2>9. q[1].mod = g
    <3>1. CASE n = 0
      BY <1>8, <2>1, <2>3, <2>4, <3>1
    <3>2. CASE n # 0
      <4>1. 1 \in 1..n /\ pa # <<>>
        BY <2>1, <3>2
      <4> QED BY <1>3, <2>4, <4>1 DEF Reads
    <3> QED BY <3>1, <3>2
  <2>10. ASSUME NEW k \in 1..(n + 1)
         PROVE  /\ Under(rank, new, Len(new), q[k].mod) /\ LookedUp(d, k2, q[k])
                /\ d[g].isFinal => d[q[k].mod].isFinal
    <3>1. d[g].isFinal <=> c[g].isFinal
      BY <1>3, <1>4
    <3>2. CASE k = n + 1
      BY <1>4, <1>7, <2>3, <2>4, <2>6, <2>8, <3>1, <3>2
    <3>3. CASE k \in 1..n
      BY <2>4, <2>7, <3>1, <3>3
    <3> QED BY <2>5, <3>2, <3>3
  <2> QED BY <2>4, <2>9, <2>10 DEF Reads
<1>21. LayeredFacts(rank, p)'
  <2>1. /\ PCMsLower(rank, Buffers(cache'[p])) /\ StackLayered(rank, stack'[p])
        /\ Unbuilt("read", cache'[p], stack'[p]) /\ OpenedImports(cache'[p], known'[p])
        /\ OpenedChains(known'[p], stack'[p])
        /\ NotReadYet("read", cache'[p], known'[p], failed'[p], Current(p)', attempt'[p])
        /\ Reads(rank, cache'[p], known'[p], stack'[p], path'[p], Goal(p)')
    BY <1>2, <1>4, <1>16, <1>17, <1>18, <1>19, <1>20 DEF d, new, k2
  <2> QED BY <1>2, <2>1 DEF LayeredFacts
<1> QED BY <1>2, <1>21, FactsAfterwards DEF Ended

\* The last on the path is done with.
LEMMA PoppedReads ==
  ASSUME NEW rank, NEW c, NEW kn, NEW st, NEW g, NEW pa \in Paths, pa # <<>>,
         Reads(rank, c, kn, st, pa, g), \A j, k \in DOMAIN pa : pa[j].mod = pa[k].mod => j = k,
         NEW d, \A k \in DOMAIN pa : d[pa[k].mod].buffer = c[pa[k].mod].buffer,
         \A k \in DOMAIN pa : c[pa[k].mod].isFinal => d[pa[k].mod].isFinal,
         g # Last(pa).mod => d[g] = c[g]
  PROVE  Reads(rank, d, kn, st, Front(pa), g)
<1> DEFINE n == Len(pa)
           f == Front(pa)
<1>1. n \in Nat \ {0} /\ DOMAIN pa = 1..n /\ n \in DOMAIN pa
  BY EmptySeq, LenProperties DEF Paths
<1>2. f \in Paths /\ Len(f) = n - 1 /\ \A k \in 1..(n - 1) : f[k] = pa[k]
  BY FrontProperties DEF Paths
<1>3. DOMAIN f = 1..(n - 1) /\ (f # <<>> => n > 1) /\ (f = <<>> => n = 1)
  <2>1. DOMAIN f = 1..(n - 1)
    BY <1>2, LenProperties DEF Paths
  <2>2. f # <<>> => Len(f) # 0
    BY <1>2, EmptySeq DEF Paths
  <2>3. f = <<>> => Len(f) = 0
    OBVIOUS
  <2> QED BY <1>1, <1>2, <2>1, <2>2, <2>3
<1>4. Last(pa) = pa[n]
  BY DEF Last
<1> HIDE DEF n, f
<1>5. \A k \in 1..(n - 1) : k \in 1..n /\ k # n
  BY <1>1
<1>6. f # <<>> => f[1].mod = g /\ g # pa[n].mod
  <2> SUFFICES ASSUME f # <<>> PROVE f[1].mod = g /\ g # pa[n].mod
    OBVIOUS
  <2>1. 1 \in 1..(n - 1) /\ pa[1].mod = g
    BY <1>1, <1>3 DEF Reads
  <2> QED BY <1>1, <1>2, <1>5, <2>1
<1>7. ASSUME NEW k \in 1..(n - 1) PROVE Under(rank, st, Len(st), f[k].mod) /\ LookedUp(d, kn, f[k])
  <2>1. Under(rank, st, Len(st), pa[k].mod) /\ LookedUp(c, kn, pa[k])
    BY <1>1, <1>5 DEF Reads
  <2>2. d[pa[k].mod].buffer = c[pa[k].mod].buffer
    BY <1>1, <1>5
  <2>3. LookedUp(d, kn, pa[k])
    BY <2>1, <2>2 DEF LookedUp
  <2> QED BY <1>2, <2>1, <2>3
<1>8. ASSUME d[g].isFinal, NEW k \in 1..(n - 1) PROVE d[f[k].mod].isFinal
  <2>1. f # <<>>
    <3>1. n # 1
      BY <1>1
    <3> QED BY <1>3, <3>1
  <2>2. d[g] = c[g]
    BY <1>4, <1>6, <2>1
  <2>3. c[pa[k].mod].isFinal
    BY <1>1, <1>5, <1>8, <2>2 DEF Reads
  <2> QED BY <1>1, <1>2, <1>5, <2>3
<1> QED BY <1>3, <1>6, <1>7, <1>8 DEF Reads, f

\* A PCM is as it was built, or it is out of date; its assertions hold.
LEMMA ValidateLayered ==
  ASSUME Inv, NEW rank, NEW p \in Procs, LayeredFacts(rank, p), Running(p), Validate(p)
  PROVE  LayeredAt(rank, p)'
<1> DEFINE c == cache[p]
           pa == path[p]
           e == Last(pa)
           m == e.mod
           g == Goal(p)
           kn == known[p]
           st == stack[p]
<1>1. /\ pc[p] = "read" /\ pa # <<>> /\ e.todo = <<>>
      /\ known'[p] = kn /\ failed'[p] = failed[p] /\ stack'[p] = st /\ attempt'[p] = attempt[p]
      /\ seen'[p] = Stat(p, m)
  BY DEF Validate, Inv, TypeOK
<1>2. /\ c \in Caches /\ Entries(c) /\ Finals(c, seen[p]) /\ seen[p] \in Seens /\ pa \in Paths
      /\ OnPaths(c, pa) /\ Nesting(c, pa) /\ Descending(c, pa) /\ g \in Modules
      /\ PCMsLower(rank, Buffers(c)) /\ StackLayered(rank, st) /\ Unbuilt("read", c, st)
      /\ OpenedImports(c, kn) /\ OpenedChains(kn, st)
      /\ NotReadYet("read", c, kn, failed[p], Current(p), attempt[p])
      /\ Reads(rank, c, kn, st, pa, g)
  BY <1>1, ReadFacts
<1>3. Len(pa) \in DOMAIN pa /\ e = pa[Len(pa)] /\ 1 \in DOMAIN pa
  BY <1>1, <1>2, EmptySeq, LenProperties DEF Paths, Last
<1>4. m \in Modules /\ e.src \in Versions /\ OnPath(c, e) /\ LookedUp(c, kn, e)
  BY <1>2, <1>3, PathsTyped DEF OnPaths, Reads
<1>5. c[m].buffer # NoPCM /\ c[m].buffer.src = e.src /\ c[m].present
  BY <1>2, <1>4 DEF OnPath, Entries
<1>6. Current(p)' = Current(p) /\ Goal(p)' = g
  BY <1>1 DEF Current, Goal
<1>7. CASE seen'[p][m] # e.src
  <2>1. /\ pc'[p] = "unwind" /\ result'[p] = "OutOfDate" /\ cache'[p] = c /\ path'[p] = pa
    BY <1>7 DEF Validate, Goto, Inv, TypeOK
  <2>2. ~c[g].isFinal
    <3> SUFFICES ASSUME c[g].isFinal PROVE FALSE
      OBVIOUS
    <3>1. c[m].isFinal
      BY <1>2, <1>3 DEF Reads
    <3>2. seen[p][m] = e.src
      BY <1>2, <1>4, <1>5, <3>1 DEF Finals
    <3>3. seen[p][m] # Unseen
      BY <1>4, <3>2, ModulesAssumption
    <3> QED BY <1>1, <1>7, <3>2, <3>3 DEF Stat
  <2> HIDE DEF c, pa, e, m, g, kn, st
  <2>3. \A k \in Modules : cache'[p][k] = cache[p][k]
    BY <2>1 DEF c
  <2>4. path[p] # <<>>
    BY <1>1 DEF pa
  <2>5. known[p] \subseteq known'[p]
    BY <1>1 DEF kn
  <2>6. /\ PCMsLower(rank, Buffers(cache'[p])) /\ Unbuilt("read", cache'[p], stack[p])
        /\ OpenedImports(cache'[p], known[p])
    BY <1>2, <2>1 DEF c, st, kn
  <2>7. ~cache[p][Goal(p)].isFinal
    BY <2>2 DEF c, g
  <2> QED BY <1>1, <2>1, <2>3, <2>4, <2>5, <2>6, <2>7, FailLayered DEF pa, st
<1>8. CASE seen'[p][m] = e.src
  <2> DEFINE d == cache'[p]
             f == Front(pa)
  <2>1. finalizePCMAsserts(c, m)
    BY <1>5 DEF finalizePCMAsserts
  <2>2. cache' = [cache EXCEPT ![p] = finalizePCM(c, m)] /\ Succeed(p, f)
    BY <1>8, <2>1 DEF Validate
  <2>3. /\ d = [c EXCEPT ![m].isFinal = TRUE]
        /\ path'[p] = Advance(p, f) /\ pc'[p] = IF f = <<>> THEN "result" ELSE "read"
        /\ (f = <<>> => result'[p] = "Success")
    BY <2>2 DEF Succeed, finalizePCM, Goto, Inv, TypeOK
  <2>4. /\ f \in Paths
        /\ f # <<>> => Last(f).todo # <<>> /\ Head(Last(f).todo).mod = m
    BY <1>1, <1>2, PathPopped
  <2>5. \A j, k \in DOMAIN pa : pa[j].mod = pa[k].mod => j = k
    BY <1>2, PathDistinct
  <2>6. m \in kn /\ \A i \in DOMAIN c[m].buffer.imports : c[m].buffer.imports[i].mod \in kn
    <3>1. DOMAIN e.todo = {}
      BY <1>1
    <3> QED BY <1>4, <3>1 DEF LookedUp
  <2>7. f = <<>> => g \in kn
    <3> SUFFICES ASSUME f = <<>> PROVE g \in kn
      OBVIOUS
    <3>1. Len(pa) = 1
      <4>1. Len(f) = Len(pa) - 1 /\ Len(pa) \in Nat
        BY <1>1, <1>2, FrontProperties DEF Paths
      <4>2. Len(f) = 0
        OBVIOUS
      <4> QED BY <4>1, <4>2
    <3>2. pa[1].mod = g
      BY <1>1, <1>2 DEF Reads
    <3> QED BY <1>3, <2>6, <3>1, <3>2
  <2>8. \A k \in DOMAIN pa : pa[k].mod \in Modules
    BY <1>2, PathsTyped
  <2>h. f = Front(pa) /\ e = Last(pa) /\ m = e.mod
    OBVIOUS
  <2> HIDE DEF c, pa, e, m, g, kn, st, d, f
  <2>9. /\ d \in Caches /\ d[m].isFinal /\ d[m].buffer = c[m].buffer
        /\ \A k \in Modules : k # m => d[k] = c[k]
    BY <1>2, <1>4, <2>3 DEF Caches
  <2>10. \A k \in Modules : d[k].buffer = c[k].buffer /\ (c[k].isFinal => d[k].isFinal)
    BY <2>9
  <2>11. Reads(rank, d, kn, st, f, g)
    <3>1. \A k \in DOMAIN pa : d[pa[k].mod].buffer = c[pa[k].mod].buffer
      BY <2>8, <2>10
    <3>2. \A k \in DOMAIN pa : c[pa[k].mod].isFinal => d[pa[k].mod].isFinal
      BY <2>8, <2>10
    <3>3. g # Last(pa).mod => d[g] = c[g]
      BY <1>2, <2>9, <2>h
    <3> QED BY <1>1, <1>2, <2>5, <2>h, <3>1, <3>2, <3>3, PoppedReads
  <2>12. PCMsLower(rank, Buffers(d))
    BY <1>2, <2>10 DEF PCMsLower, Buffers
  <2>13. Unbuilt("read", d, st)
    <3>1. \A k \in 2..Len(st) : st[k].mod \in Modules
      BY DEF Running, Building, st
    <3> QED BY <1>2, <2>10, <3>1 DEF Unbuilt
  <2>14. OpenedImports(d, kn)
    <3> SUFFICES ASSUME NEW k \in Modules, d[k].isFinal, NEW i \in DOMAIN d[k].buffer.imports
                 PROVE  d[k].buffer.imports[i].mod \in kn
      BY DEF OpenedImports
    <3>1. CASE k = m
      BY <2>6, <2>9, <3>1
    <3>2. CASE k # m
      BY <1>2, <2>9, <3>2 DEF OpenedImports
    <3> QED BY <3>1, <3>2
  <2>15. NotReadYet("read", d, kn, failed[p], Current(p), attempt[p])
    BY <1>2, <2>10 DEF NotReadYet
  <2>16. /\ path'[p] = Advance(p, f) /\ pc'[p] = IF f = <<>> THEN "result" ELSE "read"
         /\ f = <<>> => result'[p] = "Success"
         /\ f = <<>> => Goal(p)' \in known'[p]
         /\ f # <<>> => Last(f).todo # <<>> /\ Head(Last(f).todo).mod \in known'[p]
         /\ Reads(rank, cache'[p], known'[p], stack'[p], f, Goal(p)')
         /\ PCMsLower(rank, Buffers(cache'[p])) /\ StackLayered(rank, stack'[p])
         /\ Unbuilt("read", cache'[p], stack'[p]) /\ OpenedImports(cache'[p], known'[p])
         /\ OpenedChains(known'[p], stack'[p])
         /\ NotReadYet("read", cache'[p], known'[p], failed'[p], Current(p)', attempt'[p])
    BY <1>1, <1>2, <1>6, <2>3, <2>4, <2>6, <2>7, <2>11, <2>12, <2>13, <2>14, <2>15 DEF d
  <2> QED BY <2>4, <2>16, SucceedLayered
<1> QED BY <1>7, <1>8

\* A failed read drops what it was in the middle of: the first on the path too.
LEMMA UnwoundPath ==
  ASSUME NEW c \in Caches, NEW d, NEW g, NEW rs, NEW pa \in Paths, pa # <<>>, Unwinds(c, pa, g, rs),
         ~c[Last(pa).mod].isFinal => d[Last(pa).mod].buffer = NoPCM,
         \A m \in Modules : m # Last(pa).mod => d[m] = c[m]
  PROVE  /\ Len(pa) = 1 => d[g].buffer = NoPCM
         /\ Len(pa) # 1 => Unwinds(d, Front(pa), g, rs)
<1> DEFINE n == Len(pa)
           f == Front(pa)
<1>1. n \in Nat \ {0} /\ DOMAIN pa = 1..n /\ n \in DOMAIN pa /\ 1 \in DOMAIN pa
  BY EmptySeq, LenProperties DEF Paths
<1>2. f \in Paths /\ Len(f) = n - 1 /\ \A k \in 1..(n - 1) : f[k] = pa[k]
  BY FrontProperties DEF Paths
<1>3. DOMAIN f = 1..(n - 1)
  BY <1>2, LenProperties DEF Paths
<1>4. Last(pa) = pa[n]
  BY DEF Last
<1>5. \A k \in DOMAIN pa : pa[k].mod \in Modules
  BY PathsTyped
<1>h. n = Len(pa) /\ f = Front(pa)
  OBVIOUS
<1> HIDE DEF n, f
<1>6. CASE n = 1
  <2>1. g = pa[n].mod /\ ~c[g].isFinal
    BY <1>6 DEF Unwinds
  <2> QED BY <1>4, <1>6, <1>h, <2>1
<1>7. CASE n # 1
  <2>1. \A k \in 1..(n - 1) : k \in DOMAIN pa /\ k # n
    BY <1>1
  <2>2. 1 \in 1..(n - 1)
    BY <1>1, <1>7
  <2>3. \A k \in 1..(n - 1) : f[k] = pa[k] /\ pa[k].mod \in Modules /\ pa[k].mod # pa[n].mod
    BY <1>1, <1>2, <1>5, <2>1 DEF Unwinds
  <2>4. \A k \in 1..(n - 1) : d[f[k].mod] = c[pa[k].mod]
    BY <1>4, <2>3
  <2>5. f[1].mod = g /\ pa[1].mod = g /\ d[g] = c[g]
    BY <2>2, <2>3, <2>4 DEF Unwinds
  <2>6. \A k \in 1..(n - 1) : d[f[k].mod].buffer # NoPCM
    BY <2>1, <2>4 DEF Unwinds
  <2>7. \A j, k \in 1..(n - 1) : f[j].mod = f[k].mod => j = k
    BY <2>1, <2>3 DEF Unwinds
  <2>8. Unwinds(d, f, g, rs)
    BY <1>3, <2>5, <2>6, <2>7 DEF Unwinds
  <2> QED BY <1>7, <1>h, <2>8
<1> QED BY <1>6, <1>7

\* What a dropped PCM leaves.
LEMMA DroppedLayered ==
  ASSUME NEW rank, NEW c \in Caches, NEW d \in Caches, NEW m \in Modules, ~c[m].isFinal,
         d[m].buffer = NoPCM, ~d[m].isFinal, \A k \in Modules : k # m => d[k] = c[k],
         PCMsLower(rank, Buffers(c)), NEW kn, OpenedImports(c, kn)
  PROVE  /\ PCMsLower(rank, Buffers(d)) /\ OpenedImports(d, kn)
         /\ \A k \in Modules : d[k].buffer # NoPCM => c[k].buffer # NoPCM
<1>1. \A k \in Modules : d[k].buffer # NoPCM => k # m /\ d[k] = c[k]
  OBVIOUS
<1>2. \A k \in Modules : d[k].isFinal => k # m /\ d[k] = c[k]
  OBVIOUS
<1>3. OpenedImports(d, kn)
  <2> SUFFICES ASSUME NEW k \in Modules, d[k].isFinal, NEW i \in DOMAIN d[k].buffer.imports
               PROVE  d[k].buffer.imports[i].mod \in kn
    BY DEF OpenedImports
  <2>1. d[k] = c[k]
    BY <1>2
  <2> QED BY <2>1 DEF OpenedImports
<1>4. PCMsLower(rank, Buffers(d))
  <2> SUFFICES ASSUME NEW k \in Modules, d[k].buffer # NoPCM
               PROVE  ImportsLower(rank, k, d[k].buffer)
    BY DEF PCMsLower, Buffers
  <2>1. d[k] = c[k]
    BY <1>1
  <2>2. c[k].buffer # NoPCM
    BY <2>1
  <2> QED BY <2>1, <2>2 DEF PCMsLower, Buffers
<1> QED BY <1>1, <1>3, <1>4

\* A part of a chain is as low, and as well known, as the chain.
LEMMA CutLayered ==
  ASSUME NEW rank, NEW st \in Seq(Instances), st # <<>>, StackLayered(rank, st),
         NEW kn, OpenedChains(kn, st), NEW b \in 0..Len(st[Len(st)].chain),
         NEW cut, cut = SubSeq(st[Len(st)].chain, 1, b)
  PROVE  /\ Len(st) # 1 => \A j \in DOMAIN cut : Lower(rank, cut[j].mod, st[Len(st)].mod)
         /\ OpenedChain(kn, cut) /\ cut \in Chains
<1> DEFINE n == Len(st)
           chain == st[n].chain
<1>1. n \in 1..n
  BY EmptySeq, LenProperties
<1>2. chain \in Chains /\ Len(chain) \in Nat /\ DOMAIN chain = 1..Len(chain)
  BY <1>1, InstancesTyped
<1>3. cut \in Chains /\ Len(cut) = b /\ \A j \in 1..b : cut[j] = chain[j]
  BY <1>2, ChainCut
<1>4. DOMAIN cut = 1..b
  BY <1>3, LenProperties DEF Chains
<1>5. n # 1 => \A j \in DOMAIN chain : Lower(rank, chain[j].mod, st[n].mod)
  BY <1>1 DEF StackLayered, InstanceLayered
<1>6. \A j \in DOMAIN chain : chain[j].mod \in kn
  BY <1>1 DEF OpenedChains, OpenedChain
<1>b. b \in 0..Len(chain)
  OBVIOUS
<1> HIDE DEF n, chain
<1>7. \A j \in 1..b : j \in 1..Len(chain)
  BY <1>2, <1>b
<1>8. \A j \in DOMAIN cut : j \in DOMAIN chain /\ cut[j] = chain[j]
  BY <1>2, <1>3, <1>4, <1>7
<1>9. OpenedChain(kn, cut)
  BY <1>6, <1>8 DEF OpenedChain
<1> QED BY <1>3, <1>5, <1>8, <1>9 DEF n

\* The PCMs that were being read are dropped; those that are to be dropped are there.
LEMMA UnwindLayered ==
  ASSUME Inv, NEW rank, NEW p \in Procs, LayeredFacts(rank, p), Running(p), Unwind(p)
  PROVE  LayeredAt(rank, p)'
<1> DEFINE pa == path[p]
           m == Last(pa).mod
           c == cache[p]
           d == tryToDropPCM(c, m)
           f == Front(pa)
           g == Goal(p)
           cur == Current(p)
           cut == SubSeq(cur.chain, 1, base[p])
           r == [cur EXCEPT !.chain = cut]
           kn == known[p]
           st == stack[p]
<1>1. pc[p] = "unwind"
  BY DEF Unwind
<1>2. /\ c \in Caches /\ pa \in Paths /\ Entries(c) /\ st \in Seq(Instances) /\ st # <<>>
      /\ cur = st[Len(st)] /\ cur \in Instances /\ pa # <<>> /\ cur.todo # <<>>
      /\ base[p] \in 0..Len(cur.chain)
  BY <1>1 DEF Running, LargeTypes, Reading
<1>3. /\ PCMsLower(rank, Buffers(c)) /\ StackLayered(rank, st) /\ Unbuilt("unwind", c, st)
      /\ OpenedImports(c, kn) /\ OpenedChains(kn, st)
      /\ NotReadYet("unwind", c, kn, failed[p], cur, attempt[p])
      /\ Unwinds(c, pa, g, result[p])
  BY <1>1 DEF LayeredFacts
<1>4. m \in Modules /\ c[m].buffer # NoPCM
  <2>1. Len(pa) \in DOMAIN pa
    BY <1>2, EmptySeq, LenProperties DEF Paths
  <2> QED BY <1>2, <1>3, <2>1, PathsTyped DEF Last, Unwinds
<1>5. tryToDropPCMAsserts(c, m)
  BY <1>2, <1>4 DEF tryToDropPCMAsserts, Entries
<1>6. /\ cache'[p] = d /\ path'[p] = f
      /\ known'[p] = kn /\ failed'[p] = failed[p] /\ attempt'[p] = attempt[p]
      /\ result'[p] = result[p]
      /\ Len(pa) = 1 => pc'[p] = "result" /\ stack'[p] = Append(Front(st), r)
      /\ Len(pa) # 1 => pc'[p] = "unwind" /\ stack'[p] = st
  BY <1>1, <1>5 DEF Unwind, Goto, SetCurrent, Inv, TypeOK
<1>7. /\ d \in Caches /\ \A k \in Modules : k # m => d[k] = c[k]
      /\ ~c[m].isFinal => d[m].buffer = NoPCM /\ ~d[m].isFinal
      /\ c[m].isFinal => d = c
  <2>1. CASE c[m].isFinal
    BY <1>2, <2>1 DEF tryToDropPCM
  <2>2. CASE ~c[m].isFinal
    <3>1. d = [c EXCEPT ![m].buffer = NoPCM]
      BY <2>2 DEF tryToDropPCM
    <3> HIDE DEF d, c, m
    <3> QED BY <1>2, <1>4, <2>2, <3>1 DEF Caches
  <2> QED BY <2>1, <2>2
<1>8. /\ cut \in Chains /\ OpenedChain(kn, cut)
      /\ Len(st) # 1 => \A j \in DOMAIN cut : Lower(rank, cut[j].mod, cur.mod)
  BY <1>2, <1>3, CutLayered
<1>m. m = Last(pa).mod /\ f = Front(pa) /\ g = Head(cur.todo)
  BY DEF Goal
<1> HIDE DEF pa, m, c, d, f, g, cur, kn, st, cut
<1>9. r \in Instances /\ r.mod = cur.mod /\ r.todo = cur.todo /\ r.chain = cut
  BY <1>2, <1>8 DEF Instances, Chains
<1> HIDE DEF r
<1>10. /\ PCMsLower(rank, Buffers(d)) /\ OpenedImports(d, kn)
       /\ \A k \in Modules : d[k].buffer # NoPCM => c[k].buffer # NoPCM
  <2>1. CASE c[m].isFinal
    BY <1>3, <1>7, <2>1
  <2>2. CASE ~c[m].isFinal
    BY <1>2, <1>3, <1>4, <1>7, <2>2, DroppedLayered
  <2> QED BY <2>1, <2>2
<1>11. /\ Len(pa) = 1 => d[g].buffer = NoPCM
       /\ Len(pa) # 1 => Unwinds(d, f, g, result[p])
  <2> DEFINE rs == result[p]
  <2>1. /\ c \in Caches /\ pa \in Paths /\ pa # <<>> /\ Unwinds(c, pa, g, rs)
        /\ ~c[Last(pa).mod].isFinal => d[Last(pa).mod].buffer = NoPCM
        /\ \A k \in Modules : k # Last(pa).mod => d[k] = c[k]
    BY <1>2, <1>3, <1>7, <1>m
  <2> HIDE DEF rs
  <2>2. /\ Len(pa) = 1 => d[g].buffer = NoPCM
        /\ Len(pa) # 1 => Unwinds(d, Front(pa), g, rs)
    BY <2>1, UnwoundPath
  <2> QED BY <2>2, <1>m DEF rs
<1>12. Unbuilt("unwind", d, st)
  <2>1. \A k \in 2..Len(st) : st[k].mod \in Modules
    BY DEF Running, Building, st
  <2>2. \A k \in Modules : c[k].buffer = NoPCM => d[k].buffer = NoPCM
    BY <1>10
  <2> QED BY <1>3, <2>1, <2>2 DEF Unbuilt
<1>13. \A l \in {"unwind", "result"} : Unbuilt(l, d, st)
  BY <1>12 DEF Unbuilt
<1>14. \A l \in {"unwind", "result"} : NotReadYet(l, d, kn, failed[p], cur, attempt[p])
  BY <1>3, <1>10 DEF NotReadYet
<1>15. CASE Len(pa) = 1
  <2>1. pc'[p] = "result" /\ stack'[p] = Append(Front(st), r)
    BY <1>6, <1>15
  <2>2. StackLayered(rank, stack'[p]) /\ Last(stack'[p]) = r
    <3>1. StackLayered(rank, stack'[p]) /\ stack'[p][Len(stack'[p])] = r
      <4>1. /\ r.mod = st[Len(st)].mod /\ r.todo = st[Len(st)].todo
            /\ Len(st) # 1 => \A j \in DOMAIN r.chain : Lower(rank, r.chain[j].mod, r.mod)
        BY <1>2, <1>8, <1>9
      <4> QED BY <1>2, <1>3, <1>9, <2>1, <4>1, LoadedStack
    <3> QED BY <3>1 DEF Last
  <2>3. Unbuilt("result", d, stack'[p]) /\ OpenedChains(kn, stack'[p])
    <3>1. OpenedChain(kn, r.chain)
      BY <1>8, <1>9
    <3>2. Unbuilt("result", d, st) /\ r.mod = st[Len(st)].mod
      BY <1>2, <1>9, <1>13
    <3> QED BY <1>2, <1>3, <1>9, <2>1, <3>1, <3>2, ReplacedOpened
  <2>4. Current(p)' = r /\ Goal(p)' = g
    BY <1>9, <1>m, <2>2 DEF Current, Goal
  <2>5. NotReadYet("result", d, kn, failed[p], r, attempt[p])
    <3>1. NotReadYet("result", d, kn, failed[p], cur, attempt[p])
      BY <1>14
    <3> QED BY <1>9, <3>1 DEF NotReadYet
  <2>6. Returns(d, kn, failed[p], g, attempt[p], result[p])
    BY <1>3, <1>11, <1>15 DEF Returns, Unwinds
  <2>7. LayeredFacts(rank, p)'
    BY <1>6, <1>10, <2>1, <2>2, <2>3, <2>4, <2>5, <2>6 DEF LayeredFacts, kn
  <2> QED BY <2>1, <2>7, FactsAfterwards
<1>16. CASE Len(pa) # 1
  <2>1. pc'[p] = "unwind" /\ stack'[p] = st
    BY <1>6, <1>16
  <2>2. Current(p)' = cur /\ Goal(p)' = g
    BY <2>1 DEF Current, Goal, st, cur, g
  <2>3. LayeredFacts(rank, p)'
    BY <1>3, <1>6, <1>10, <1>11, <1>13, <1>14, <1>16, <2>1, <2>2 DEF LayeredFacts, kn
  <2> QED BY <2>1, <2>3, FactsAfterwards
<1> QED BY <1>15, <1>16

-----------------------------------------------------------------------------
(* The assertions hold. *)

LEMMA InitLayered ==
  ASSUME NEW rank, Layered(rank), Init
  PROVE  LayeredInv(rank)
<1>1. PCMsLower(rank, disk)
  <2> SUFFICES ASSUME NEW m \in Modules, disk[m] # NoPCM
               PROVE  ImportsLower(rank, m, disk[m])
    BY DEF PCMsLower
  <2>1. project \in Projects /\ m \in DOMAIN Imports[project] /\ disk[m] \in LeftPCMs[project][m]
    BY DEF Init, Sources
  <2> QED BY <2>1 DEF Layered, ImportsLower, Lower
<1>2. ASSUME NEW p \in Procs PROVE LayeredAt(rank, p)
  <2>1. /\ pc[p] = "import" /\ stack[p] = <<MainInstance(p)>>
        /\ \A m \in Modules : cache[p][m].buffer = NoPCM /\ ~cache[p][m].isFinal
    BY DEF Init, EmptyCache, Absent
  <2>2. Len(stack[p]) = 1 /\ stack[p][1].chain = <<>>
    BY <2>1 DEF MainInstance
  <2>3. StackLayered(rank, stack[p])
    BY <2>2 DEF StackLayered, InstanceLayered, Under
  <2>4. OpenedChains(known[p], stack[p])
    BY <2>2 DEF OpenedChains, OpenedChain
  <2>5. Unbuilt("import", cache[p], stack[p])
    BY <2>2 DEF Unbuilt
  <2>6. PCMsLower(rank, Buffers(cache[p])) /\ OpenedImports(cache[p], known[p])
    BY <2>1 DEF PCMsLower, Buffers, OpenedImports
  <2>7. NotReadYet("import", cache[p], known[p], failed[p], Current(p), attempt[p])
    BY <2>1 DEF NotReadYet
  <2>8. LayeredFacts(rank, p)
    BY <2>1, <2>3, <2>4, <2>5, <2>6, <2>7 DEF LayeredFacts
  <2> QED BY <2>1, <2>8, FactsOfLayered
<1> QED BY <1>1, <1>2 DEF LayeredInv

LEMMA OnlyRename ==
  ASSUME NEW p \in Procs, Step(p) \/ LockError(p) \/ WaitTimeout(p) \/ Crash(p), ~Rename(p)
  PROVE  disk' = disk
<1>1. CASE ReadAST(p)
  BY <1>1 DEF ReadAST, AddMissing, AddAgain, AddOutOfDate, AddNew, Validate, Unwind, sharedVars
<1>2. CASE BeginImport(p) \/ Imported(p) \/ NeedsBuild(p) \/ TryAgain(p) \/ NotBuilt(p)
  BY <1>2 DEF BeginImport, Imported, NeedsBuild, TryAgain, NotBuilt, sharedVars
<1>3. CASE LockOwned(p) \/ LockShared(p) \/ WaitForUnlock(p) \/ LockError(p) \/ WaitTimeout(p)
  BY <1>3 DEF LockOwned, LockShared, WaitForUnlock, LockError, WaitTimeout, Compile, sharedVars
<1>4. CASE WriteAST(p) \/ CompileFailed(p) \/ Finish(p) \/ Crash(p)
  BY <1>4 DEF WriteAST, CompileFailed, Finish, Crash, sharedVars
<1> QED BY <1>1, <1>2, <1>3, <1>4 DEF Step

\* Only Rename puts a PCM in place: one that is in the cache.
LEMMA DiskLayered ==
  ASSUME Inv, NEW rank, PCMsLower(rank, disk), NEW p \in Procs, LayeredFacts(rank, p), Running(p),
         Step(p) \/ LockError(p) \/ WaitTimeout(p) \/ Crash(p)
  PROVE  PCMsLower(rank, disk')
<1>1. CASE Rename(p)
  <2>1. disk' = [disk EXCEPT ![Current(p).mod] = cache[p][Current(p).mod].buffer]
    BY <1>1 DEF Rename
  <2>2. PCMsLower(rank, Buffers(cache[p]))
    BY DEF LayeredFacts
  <2>3. disk \in [Modules -> PCMs \cup {NoPCM}]
    BY DEF Running, SharedTypes
  <2> SUFFICES ASSUME NEW m \in Modules, disk'[m] # NoPCM
               PROVE  ImportsLower(rank, m, disk'[m])
    BY DEF PCMsLower
  <2>4. disk'[m] = disk[m] \/ disk'[m] = Buffers(cache[p])[m]
    BY <2>1, <2>3 DEF Buffers
  <2> QED BY <2>2, <2>4 DEF PCMsLower
<1>2. CASE ~Rename(p)
  BY <1>2, OnlyRename
<1> QED BY <1>1, <1>2

LEMMA StepIsOfOneRunning ==
  ASSUME NEW p \in Procs, Step(p) \/ LockError(p) \/ WaitTimeout(p) \/ Crash(p)
  PROVE  pc[p] \notin Ended
<1>1. CASE ReadAST(p)
  BY <1>1 DEF ReadAST, AddMissing, AddAgain, AddOutOfDate, AddNew, Adding, Validate, Unwind, Ended
<1>2. CASE BeginImport(p) \/ Imported(p) \/ NeedsBuild(p) \/ TryAgain(p) \/ NotBuilt(p)
  BY <1>2 DEF BeginImport, Imported, NeedsBuild, TryAgain, NotBuilt, Ended
<1>3. CASE LockOwned(p) \/ LockShared(p) \/ WaitForUnlock(p) \/ LockError(p) \/ WaitTimeout(p)
  BY <1>3 DEF LockOwned, LockShared, WaitForUnlock, LockError, WaitTimeout, Ended
<1>4. CASE WriteAST(p) \/ Rename(p) \/ CompileFailed(p) \/ Finish(p) \/ Crash(p)
  BY <1>4 DEF WriteAST, Rename, CompileFailed, Finish, Crash, AtEnd, Ended
<1> QED BY <1>1, <1>2, <1>3, <1>4 DEF Step

LEMMA StepLayered ==
  ASSUME Inv, NEW rank, Layered(rank), LayeredInv(rank), NEW p \in Procs,
         Step(p) \/ LockError(p) \/ WaitTimeout(p) \/ Crash(p), UNCHANGED project
  PROVE  LayeredInv(rank)'
<1>1. pc[p] \notin Ended
  BY StepIsOfOneRunning
<1>2. Running(p)
  BY <1>1, RunningProcess
<1>3. PCMsLower(rank, disk) /\ LayeredFacts(rank, p)
  <2>1. LayeredAt(rank, p)
    BY DEF LayeredInv
  <2> QED BY <1>1, <2>1, FactsOfLayered DEF LayeredInv
<1>4. LayeredAt(rank, p)'
  <2>1. CASE ReadAST(p)
    BY <1>2, <1>3, <2>1, AddMissingLayered, AddAgainLayered, AddOutOfDateLayered, AddNewLayered,
       ValidateLayered, UnwindLayered DEF ReadAST
  <2>2. CASE BeginImport(p) \/ Imported(p) \/ NeedsBuild(p) \/ TryAgain(p) \/ NotBuilt(p)
    BY <1>2, <1>3, <2>2, BeginImportLayered, ImportedLayered, NeedsBuildLayered, TryAgainLayered,
       NotBuiltLayered
  <2>3. CASE LockOwned(p) \/ LockError(p)
    <3>1. pc[p] = "lock" /\ \E l \in {"owned", "error"} : Compile(p, l)
      BY <2>3 DEF LockOwned, LockError
    <3> QED BY <1>2, <1>3, <3>1, CompileLayered
  <2>4. CASE LockShared(p) \/ WaitForUnlock(p) \/ WaitTimeout(p)
    BY <1>2, <1>3, <2>4, WaitingLayered
  <2>5. CASE WriteAST(p) \/ Rename(p) \/ CompileFailed(p)
    BY <1>2, <1>3, <2>5, WriteASTLayered, RenameLayered, CompileFailedLayered
  <2>6. CASE Finish(p) \/ Crash(p)
    BY <2>6, EndsLayered
  <2> QED BY <2>1, <2>2, <2>3, <2>4, <2>5, <2>6 DEF Step
<1>5. PCMsLower(rank, disk')
  BY <1>2, <1>3, DiskLayered
<1>6. Local(p)
  BY LocalSteps
<1> QED BY <1>4, <1>5, <1>6, LayeredKept

LEMMA LayeredPreserved ==
  ASSUME NEW rank, Layered(rank)
  PROVE  Inv /\ LayeredInv(rank) /\ [Next]_vars => LayeredInv(rank)'
<1> SUFFICES ASSUME Inv, LayeredInv(rank), [Next]_vars PROVE LayeredInv(rank)'
  OBVIOUS
<1>1. ASSUME NEW p \in Procs, Step(p) \/ LockError(p) \/ WaitTimeout(p) \/ Crash(p), UNCHANGED project
      PROVE  LayeredInv(rank)'
  BY <1>1, StepLayered
<1>2. ASSUME UNCHANGED <<pc, memoryVars, stack, readVars>>, PCMsLower(rank, disk')
      PROVE  LayeredInv(rank)'
  <2>1. \A p \in Procs : LayeredAt(rank, p)'
    BY <1>2 DEF LayeredInv, LayeredAt, memoryVars, readVars
  <2> QED BY <1>2, <2>1 DEF LayeredInv
<1>3. ASSUME NEW m \in Modules, Edit(m) PROVE LayeredInv(rank)'
  BY <1>2, <1>3 DEF Edit, LayeredInv
<1>4. ASSUME NEW m \in Modules, Prune(m) PROVE LayeredInv(rank)'
  <2>1. PCMsLower(rank, disk')
    <3>1. disk' = [disk EXCEPT ![m] = NoPCM]
      BY <1>4 DEF Prune
    <3>2. disk \in [Modules -> PCMs \cup {NoPCM}]
      BY DEF Inv, TypeOK
    <3>3. \A k \in Modules : disk'[k] # NoPCM => disk'[k] = disk[k]
      BY <3>1, <3>2
    <3> QED BY <3>3 DEF PCMsLower, LayeredInv
  <2> QED BY <1>2, <1>4, <2>1 DEF Prune
<1>5. CASE UNCHANGED vars
  BY <1>2, <1>5 DEF vars, sharedVars, LayeredInv
<1> QED BY <1>1, <1>3, <1>4, <1>5 DEF Next

LEMMA LayeredInvariant ==
  ASSUME NEW rank, Layered(rank)
  PROVE  Spec => []LayeredInv(rank)
<1>1. Init => LayeredInv(rank)
  BY InitLayered
<1>2. Inv /\ LayeredInv(rank) /\ [Next]_vars => LayeredInv(rank)'
  BY LayeredPreserved
<1> QED BY <1>1, <1>2, Invariant, PTL DEF Spec

\* When imports are layered, no assertion of the module cache fails: what a PCM was read
\* from is there when it is accepted or dropped, and a module is not in the cache when its
\* PCM is written, whatever the other processes and the headers' authors do.
THEOREM LayeredImportsAreSafe ==
  ASSUME NEW rank, Layered(rank)
  PROVE  Spec => []NoCacheAssertFails
<1>1. LayeredInv(rank) => NoCacheAssertFails
  BY DEF LayeredInv, LayeredAt, LayeredOK, NoCacheAssertFails
<1> QED BY <1>1, LayeredInvariant, PTL

-----------------------------------------------------------------------------
(* A compilation fails for a reason. *)

Calm == Faults[project] \cap {"prune", "rename"} = {}

\* A failed module does not compile, as this process sees it.
Reason(b, fl, s) == \E m \in fl : <<m, s[m]>> \in b
ErrorsExplained(b, l, s, fl, st) ==
  /\ fl # {} => Reason(b, fl, s)
  /\ l = "failed" => Reason(b, fl, s)
  /\ l \notin Ended => \A k \in 1..Len(st) : st[k].err => Reason(b, fl, s)

\* What this process has just built is in place and accepted, so that ReadAST finds it;
\* what it has waited for is in place.
Rereads(l, c, st, pa, at, rs, d) ==
  l \notin Ended =>
    LET i == st[Len(st)]
        g == Head(i.todo) IN
    /\ l = "rename" => c[i.mod].isFinal
    /\ l \in {"read", "unwind", "result"} /\ at \in {"owned", "error"} =>
         d[g] # NoPCM /\ c[g].isFinal /\ l # "unwind" /\ (l = "result" => rs = "Success")
    /\ l = "read" /\ at = "waited" /\ pa = <<>> => d[g] # NoPCM
    /\ l = "result" /\ at = "waited" => rs # "Missing"

ErrorsAt(p) == ErrorsExplained(Broken[project], pc[p], seen[p], failed[p], stack[p])
RereadsAt(p) == Rereads(pc[p], cache[p], stack[p], path[p], attempt[p], result[p], disk)
ExplainedInv == Calm => \A p \in Procs : ErrorsAt(p) /\ RereadsAt(p)

\* A header that has been looked at stays as it was seen.
LEMMA SeenKept ==
  ASSUME Inv, NEW p \in Procs, Step(p) \/ LockError(p) \/ WaitTimeout(p) \/ Crash(p)
  PROVE  StillSeen(seen[p], seen'[p])
<1>1. seen[p] \in Seens /\ seen \in [Procs -> Seens]
  BY DEF Inv, TypeOK, Seens
<1>2. StillSeen(seen[p], seen[p]) /\ \A m : StillSeen(seen[p], Stat(p, m))
  BY <1>1 DEF StillSeen, Stat, Seens
<1>3. seen'[p] = seen[p] \/ \E m : seen'[p] = Stat(p, m)
  <2>1. CASE AddMissing(p) \/ AddAgain(p) \/ AddOutOfDate(p) \/ AddNew(p) \/ Unwind(p)
    BY <2>1 DEF AddMissing, AddAgain, AddOutOfDate, AddNew, Unwind
  <2>2. CASE Validate(p) \/ BeginImport(p)
    BY <1>1, <2>2 DEF Validate, BeginImport
  <2>3. CASE Imported(p) \/ NeedsBuild(p) \/ TryAgain(p) \/ NotBuilt(p)
    BY <2>3 DEF Imported, NeedsBuild, TryAgain, NotBuilt, memoryVars
  <2>4. CASE LockOwned(p) \/ LockError(p)
    BY <1>1, <2>4 DEF LockOwned, LockError, Compile
  <2>5. CASE LockShared(p) \/ WaitForUnlock(p) \/ WaitTimeout(p)
    BY <2>5 DEF LockShared, WaitForUnlock, WaitTimeout, memoryVars
  <2>6. CASE WriteAST(p) \/ Rename(p) \/ CompileFailed(p) \/ Finish(p) \/ Crash(p)
    BY <2>6 DEF WriteAST, Rename, CompileFailed, Finish, Crash, memoryVars
  <2> QED BY <2>1, <2>2, <2>3, <2>4, <2>5, <2>6 DEF Step, ReadAST
<1> QED BY <1>2, <1>3

LEMMA ReasonKept ==
  ASSUME Inv, NEW fl, NEW s, NEW new, NEW t, fl \subseteq new, StillSeen(s, t),
         Reason(Broken[project], fl, s)
  PROVE  Reason(Broken[project], new, t)
<1>1. PICK m \in fl : <<m, s[m]>> \in Broken[project]
  BY DEF Reason
<1>2. Broken[project] \subseteq Modules \X Versions
  BY ModulesAssumption DEF Inv, TypeOK
<1>3. m \in Modules /\ s[m] \in Versions
  BY <1>1, <1>2
<1>4. t[m] = s[m]
  BY <1>3, ModulesAssumption DEF StillSeen
<1> QED BY <1>1, <1>4 DEF Reason

\* Neither a new failure nor a new error.
LEMMA ErrorsKept ==
  ASSUME Inv, UNCHANGED project, NEW p \in Procs, ErrorsAt(p), StillSeen(seen[p], seen'[p]),
         pc[p] \notin Ended, pc'[p] # "failed", failed'[p] = failed[p],
         \A k \in 1..Len(stack'[p]) : stack'[p][k].err =>
           \E j \in 1..Len(stack[p]) : stack[p][j].err
  PROVE  ErrorsAt(p)'
<1>1. Reason(Broken[project], failed[p], seen[p]) =>
        Reason(Broken[project], failed'[p], seen'[p])
  BY ReasonKept
<1> QED BY <1>1 DEF ErrorsAt, ErrorsExplained

\* The innermost instance changes, with a reason if it has an error now.
LEMMA ReplacedErrors ==
  ASSUME Inv, UNCHANGED project, NEW p \in Procs, Running(p), ErrorsAt(p),
         StillSeen(seen[p], seen'[p]), pc[p] \notin Ended, pc'[p] # "failed",
         failed[p] \subseteq failed'[p],
         failed'[p] # failed[p] => Reason(Broken[project], failed'[p], seen'[p]),
         NEW r \in Instances, stack'[p] = Append(Front(stack[p]), r),
         r.err => Current(p).err \/ Reason(Broken[project], failed'[p], seen'[p])
  PROVE  ErrorsAt(p)'
<1> DEFINE st == stack[p]
           new == stack'[p]
           why == Reason(Broken[project], failed'[p], seen'[p])
<1>1. Reason(Broken[project], failed[p], seen[p]) => why
  BY ReasonKept
<1>2. st \in Seq(Instances) /\ Len(st) \in Nat \ {0} /\ st # <<>> /\ Current(p) = st[Len(st)]
  BY DEF Running, LargeTypes
<1>3. /\ Len(new) = Len(st) /\ new[Len(st)] = r
      /\ \A k \in 1..(Len(st) - 1) : new[k] = st[k]
  BY <1>2, ReplaceLast
<1>4. \A k \in 1..Len(st) : st[k].err => why
  BY <1>1 DEF ErrorsAt, ErrorsExplained
<1>5. Current(p).err => why
  BY <1>2, <1>4
<1> DEFINE n == Len(st)
<1> HIDE DEF st, new, why, n
<1>6. \A k \in 1..n : k = n \/ k \in 1..(n - 1)
  BY <1>2 DEF n
<1>7. \A k \in 1..(n - 1) : k \in 1..n
  BY <1>2 DEF n
<1>8. \A k \in 1..Len(new) : new[k].err => why
  <2> SUFFICES ASSUME NEW k \in 1..n, new[k].err PROVE why
    BY <1>3 DEF n
  <2>1. CASE k = n
    BY <1>3, <1>5, <2>1 DEF n, why
  <2>2. CASE k \in 1..(n - 1)
    BY <1>3, <1>4, <1>7, <2>2 DEF n
  <2> QED BY <1>6, <2>1, <2>2
<1>9. failed'[p] # {} => why
  BY <1>1 DEF why, ErrorsAt, ErrorsExplained
<1> QED BY <1>8, <1>9 DEF why, new, ErrorsAt, ErrorsExplained

LEMMA DirectErr ==
  ASSUME NEW i \in Instances, NEW j, NEW b
  PROVE  WithDirect(i, j, b).err = i.err
BY DEF Instances, WithDirect

\* ReadAST makes no errors of its own.
LEMMA ReadErrors ==
  ASSUME Inv, UNCHANGED project, NEW p \in Procs, Running(p), ErrorsAt(p),
         StillSeen(seen[p], seen'[p]), pc[p] \notin Ended, pc'[p] # "failed", ReadAST(p)
  PROVE  ErrorsAt(p)'
<1> DEFINE cur == Current(p)
<1>1. failed'[p] = failed[p]
  BY DEF ReadAST, AddMissing, AddAgain, AddOutOfDate, AddNew, Validate, Unwind
<1>2. CASE stack'[p] = stack[p]
  BY <1>1, <1>2, ErrorsKept
<1>3. ASSUME NEW r \in Instances, stack'[p] = Append(Front(stack[p]), r), r.err = cur.err
      PROVE  ErrorsAt(p)'
  BY <1>1, <1>3, ReplacedErrors
<1>4. cur \in Instances /\ cur.chain \in Chains
  BY DEF Running
<1>5. CASE AddAgain(p)
  <2>1. \/ UNCHANGED stack
        \/ \E i \in DOMAIN cur.chain :
             SetCurrent(p, [cur EXCEPT !.chain[i].direct = @ \/ path[p] = <<>>])
    BY <1>5 DEF AddAgain
  <2>2. CASE UNCHANGED stack
    BY <1>2, <2>2
  <2>3. ASSUME NEW i \in DOMAIN cur.chain,
               SetCurrent(p, [cur EXCEPT !.chain[i].direct = @ \/ path[p] = <<>>])
        PROVE  ErrorsAt(p)'
    <3> DEFINE direct == cur.chain[i].direct \/ path[p] = <<>>
               r == WithDirect(cur, i, direct)
    <3>1. stack'[p] = Append(Front(stack[p]), r)
      BY <2>3 DEF SetCurrent, WithDirect, Inv, TypeOK
    <3>2. direct \in BOOLEAN /\ r = WithDirect(cur, i, direct)
      OBVIOUS
    <3> HIDE DEF direct, r, cur
    <3>3. r \in Instances /\ r.err = cur.err
      BY <1>4, <3>2, DirectSet, DirectErr
    <3> QED BY <1>3, <3>1, <3>3
  <2> QED BY <2>1, <2>2, <2>3
<1>6. CASE AddNew(p)
  <2> DEFINE m == Wanted(p).mod
             e == [mod |-> m, pcm |-> Buffer(p, m), direct |-> path[p] = <<>>]
             r == [cur EXCEPT !.chain = Append(@, e)]
  <2>1. stack'[p] = Append(Front(stack[p]), r)
    BY <1>6 DEF AddNew, SetCurrent, Inv, TypeOK
  <2>2. m \in Modules /\ Buffer(p, m) \in PCMs
    <3>1. Adding(p) /\ State(p, m) # "ToBuild" /\ Buffer(p, m) # NoPCM /\ Keep(p, m)
      BY <1>6 DEF AddNew
    <3>2. m \in Modules
      BY <3>1, WantedTyped
    <3> QED BY <3>1, <3>2, KeepsPCM
  <2>3. e \in [mod : Modules, pcm : PCMs, direct : BOOLEAN]
    BY <2>2
  <2> HIDE DEF e, cur
  <2>4. Append(cur.chain, e) \in Chains
    BY <1>4, <2>3, AppendProperties DEF Chains
  <2>5. r \in Instances /\ r.err = cur.err
    BY <1>4, <2>4 DEF Instances, Chains
  <2> QED BY <1>3, <2>1, <2>5
<1>7. CASE Unwind(p)
  <2> DEFINE cut == SubSeq(cur.chain, 1, base[p])
             r == [cur EXCEPT !.chain = cut]
  <2>1. stack'[p] = stack[p] \/ stack'[p] = Append(Front(stack[p]), r)
    BY <1>7 DEF Unwind, SetCurrent, Inv, TypeOK
  <2>2. base[p] \in 0..Len(cur.chain)
    BY <1>7 DEF Running, Reading, Unwind, LargeTypes
  <2>3. cut \in Chains
    BY <1>4, <2>2, ChainCut
  <2> HIDE DEF cut, cur
  <2>4. r \in Instances /\ r.err = cur.err
    BY <1>4, <2>3 DEF Instances, Chains
  <2> QED BY <1>2, <1>3, <2>1, <2>4
<1>8. CASE AddMissing(p) \/ AddOutOfDate(p) \/ Validate(p)
  BY <1>2, <1>8 DEF AddMissing, AddOutOfDate, Validate
<1> QED BY <1>5, <1>6, <1>7, <1>8 DEF ReadAST

\* An import that fails has a reason: in layered imports there are no cycles.
LEMMA NeedsBuildErrors ==
  ASSUME Inv, UNCHANGED project, NEW rank, Layered(rank), NEW p \in Procs, Running(p),
         LayeredFacts(rank, p), ErrorsAt(p), NeedsBuild(p)
  PROVE  ErrorsAt(p)'
<1> DEFINE g == Goal(p)
           st == stack[p]
           r == AfterImport(Current(p), FALSE)
<1>1. /\ pc[p] = "result" /\ failed'[p] = failed[p] /\ seen'[p] = seen[p]
      /\ StillSeen(seen[p], seen'[p])
  BY DEF NeedsBuild, memoryVars, StillSeen
<1>2. /\ Current(p).todo # <<>> /\ Current(p) \in Instances /\ g \in Modules
      /\ st \in Seq(Instances)
  BY <1>1 DEF Running, Reading, LargeTypes
<1>3. g \notin BuildStack(p)
  <2> SUFFICES ASSUME NEW k \in 1..Len(st), st[k].mod = g PROVE FALSE
    BY <1>2, LenProperties DEF BuildStack, ToSet
  <2>1. st[1].mod = Nobody /\ Nobody \notin Modules
    BY ModulesAssumption DEF Running, Building
  <2>2. k \in 2..Len(st)
    <3>1. k # 1
      BY <1>2, <2>1
    <3>2. Len(st) \in Nat
      BY DEF Running
    <3> QED BY <3>1, <3>2
  <2>3. Lower(rank, g, st[k].mod)
    BY <1>2, <2>2, GoalUnder DEF Under
  <2> QED BY <1>2, <2>3, LowerOrder
<1>4. CASE g \in failed[p]
  <2>1. Reason(Broken[project], failed[p], seen[p])
    BY <1>4 DEF ErrorsAt, ErrorsExplained
  <2>2. pc'[p] = "import" /\ stack'[p] = Append(Front(stack[p]), r)
    BY <1>4 DEF NeedsBuild, Goto, SetCurrent, Inv, TypeOK
  <2>3. r \in Instances
    BY <1>2, AfterImportTyped
  <2> HIDE DEF r
  <2> QED BY <1>1, <2>1, <2>2, <2>3, ReplacedErrors DEF Ended
<1>5. CASE g \notin failed[p]
  <2>1. pc'[p] = "lock" /\ stack'[p] = stack[p]
    BY <1>3, <1>5 DEF NeedsBuild, Goto, Inv, TypeOK
  <2> QED BY <1>1, <2>1, ErrorsKept DEF Ended
<1> QED BY <1>4, <1>5

\* The failure of a compilation that was entered is that of a header, or has been
\* explained before.
LEMMA CompileFailedErrors ==
  ASSUME Inv, UNCHANGED project, Calm, NEW p \in Procs, Running(p), ErrorsAt(p), CompileFailed(p)
  PROVE  ErrorsAt(p)'
<1> DEFINE st == stack[p]
           i == Current(p)
           m == i.mod
           why == Reason(Broken[project], failed'[p], seen'[p])
<1>1. /\ AtEnd(p) /\ Nested(p) /\ HasErrors(p) /\ pc'[p] = "import"
      /\ failed'[p] = failed[p] \cup {m} /\ seen'[p] = seen[p]
  BY DEF CompileFailed, Calm, Goto, Inv, TypeOK
<1>2. Len(st) \in 1..Len(st) /\ i = st[Len(st)]
  <2>1. Len(st) \in Nat \ {0} /\ i = st[Len(st)]
    BY DEF Running
  <2> QED BY <2>1
<1>3. StillSeen(seen[p], seen'[p])
  BY <1>1 DEF StillSeen
<1>4. Reason(Broken[project], failed[p], seen[p]) => why
  BY <1>1, <1>3, ReasonKept
<1>5. why
  <2>1. CASE i.err
    BY <1>1, <1>2, <1>4, <2>1 DEF ErrorsAt, ErrorsExplained, AtEnd, Ended
  <2>2. CASE <<m, seen[p][m]>> \in Broken[project]
    BY <1>1, <2>2 DEF Reason
  <2> QED BY <1>1, <2>1, <2>2 DEF HasErrors
<1> QED BY <1>1, <1>5 DEF ErrorsAt, ErrorsExplained

\* A process fails because of an error in its main instance.
LEMMA FinishErrors ==
  ASSUME Inv, UNCHANGED project, NEW p \in Procs, Running(p), ErrorsAt(p), Finish(p)
  PROVE  ErrorsAt(p)'
<1>1. /\ AtEnd(p) /\ ~Nested(p) /\ pc'[p] \in Ended /\ (pc'[p] = "failed" => HasErrors(p))
      /\ failed'[p] = failed[p] /\ seen'[p] = seen[p]
  BY DEF Finish, Goto, Ended, memoryVars, Inv, TypeOK
<1>2. Len(stack[p]) = 1 /\ Current(p) = stack[p][1] /\ Current(p).mod = Nobody
  <2>1. Len(stack[p]) \in Nat \ {0} /\ Current(p) = stack[p][Len(stack[p])]
        /\ stack[p][1].mod = Nobody
    BY DEF Running, Building
  <2> DEFINE n == Len(stack[p])
  <2>2. n \in Nat \ {0} /\ ~(n > 1)
    BY <1>1, <2>1 DEF Nested
  <2>3. n = 1
    <3> HIDE DEF n
    <3> QED BY <2>2
  <2> QED BY <2>1, <2>3
<1>3. HasErrors(p) => Current(p).err
  BY <1>2 DEF HasErrors
<1>4. Current(p).err => Reason(Broken[project], failed[p], seen[p])
  BY <1>1, <1>2 DEF ErrorsAt, ErrorsExplained, AtEnd, Ended
<1> QED BY <1>1, <1>3, <1>4 DEF ErrorsAt, ErrorsExplained

LEMMA ErrorsStep ==
  ASSUME Inv, UNCHANGED project, Calm, NEW rank, Layered(rank), NEW p \in Procs, Running(p),
         LayeredFacts(rank, p), pc'[p] # "aborted", pc[p] \notin Ended, ErrorsAt(p), RereadsAt(p),
         Step(p) \/ LockError(p) \/ WaitTimeout(p) \/ Crash(p)
  PROVE  ErrorsAt(p)'
<1> DEFINE st == stack[p]
<1>1. StillSeen(seen[p], seen'[p])
  BY SeenKept
<1>2. st \in Seq(Instances) /\ Len(st) \in Nat \ {0} /\ st # <<>> /\ Current(p) = st[Len(st)]
  BY DEF Running, LargeTypes
<1>3. CASE failed'[p] = failed[p] /\ stack'[p] = st /\ pc'[p] # "failed"
  BY <1>1, <1>3, ErrorsKept
<1>4. CASE ReadAST(p)
  <2>1. pc'[p] # "failed"
    BY <1>4 DEF ReadAST, AddMissing, AddAgain, AddOutOfDate, AddNew, Adding, Validate, Unwind,
                Succeed, Fail, Goto, Inv, TypeOK
  <2> QED BY <1>1, <1>4, <2>1, ReadErrors
<1>5. CASE BeginImport(p) \/ TryAgain(p) \/ LockShared(p) \/ WaitForUnlock(p) \/ WaitTimeout(p)
  BY <1>3, <1>5 DEF BeginImport, TryAgain, LockShared, WaitForUnlock, WaitTimeout, StartRead,
                    Goto, memoryVars, Inv, TypeOK
<1>6. CASE WriteAST(p) \/ Crash(p)
  BY <1>3, <1>6 DEF WriteAST, Crash, Goto, memoryVars, Inv, TypeOK
<1>7. CASE Imported(p)
  <2> DEFINE r == AfterImport(Current(p), TRUE)
  <2>1. pc'[p] = "import" /\ failed'[p] = failed[p] /\ stack'[p] = Append(Front(st), r)
    BY <1>7 DEF Imported, Goto, SetCurrent, memoryVars, Inv, TypeOK
  <2>2. Current(p) \in Instances /\ Current(p).todo # <<>>
    BY <1>7 DEF Imported, Running, Reading
  <2>3. r \in Instances
    BY <2>2, AfterImportTyped
  <2>4. r.err => Current(p).err
    BY <2>2 DEF AfterImport, Instances
  <2> HIDE DEF r
  <2> QED BY <1>1, <2>1, <2>3, <2>4, ReplacedErrors
<1>8. CASE NotBuilt(p)
  BY <1>8 DEF NotBuilt, RereadsAt, Rereads
<1>9. CASE LockOwned(p) \/ LockError(p)
  <2>1. PICK l \in {"owned", "error"} : Compile(p, l)
    BY <1>9 DEF LockOwned, LockError
  <2> DEFINE i == [mod |-> Goal(p), todo |-> Imports[project][Goal(p)][seen'[p][Goal(p)]],
                   chain |-> <<>>, err |-> FALSE, locked |-> l]
  <2>2. stack'[p] = Append(st, i) /\ pc'[p] = "import" /\ failed'[p] = failed[p]
    BY <2>1 DEF Compile, Goto, Inv, TypeOK
  <2>3. ~i.err
    OBVIOUS
  <2> HIDE DEF i, st
  <2>4. Len(stack'[p]) = Len(st) + 1 /\ stack'[p][Len(st) + 1] = i
        /\ \A k \in 1..Len(st) : stack'[p][k] = st[k]
    BY <1>2, <2>2
  <2>5. \A k \in 1..(Len(st) + 1) : k = Len(st) + 1 \/ k \in 1..Len(st)
    BY <1>2
  <2>6. \A k \in 1..Len(stack'[p]) : stack'[p][k].err => \E j \in 1..Len(st) : st[j].err
    BY <2>3, <2>4, <2>5
  <2> QED BY <1>1, <2>2, <2>6, ErrorsKept DEF st
<1>10. CASE Rename(p)
  <2>1. stack'[p] = Front(st) /\ failed'[p] = failed[p] /\ pc'[p] = "read"
    BY <1>10 DEF Rename, StartRead, Goto, memoryVars, Inv, TypeOK
  <2>2. Len(Front(st)) = Len(st) - 1 /\ \A k \in 1..(Len(st) - 1) : Front(st)[k] = st[k]
    BY <1>2, FrontProperties
  <2>3. \A k \in 1..(Len(st) - 1) : k \in 1..Len(st)
    BY <1>2
  <2>4. \A k \in 1..Len(stack'[p]) : stack'[p][k].err => \E j \in 1..Len(st) : st[j].err
    BY <2>1, <2>2, <2>3
  <2> QED BY <1>1, <2>1, <2>4, ErrorsKept
<1> QED BY <1>4, <1>5, <1>6, <1>7, <1>8, <1>9, <1>10, NeedsBuildErrors, CompileFailedErrors,
           FinishErrors DEF Step

\* What was built just now is there, and so is what it imports.
LEMMA WantedThere ==
  ASSUME NEW rank, NEW p \in Procs, LayeredFacts(rank, p), Running(p), RereadsAt(p), Adding(p),
         attempt[p] \in {"owned", "error"},
         NEW m, m = Wanted(p).mod, NEW sig, sig = Wanted(p).sig
  PROVE  /\ CanOpen(p, m) /\ cache[p][m].isFinal /\ State(p, m) = "Final"
         /\ ~Mismatch(cache[p][m].buffer, sig) /\ Buffer(p, m) = cache[p][m].buffer
<1> DEFINE g == Goal(p)
<1>1. disk[g] # NoPCM /\ cache[p][g].isFinal
  BY DEF RereadsAt, Rereads, Adding, Ended, Goal, Current, Last
<1>2. m \in Modules
  BY WantedTyped
<1>3. CanOpen(p, m) /\ cache[p][m].isFinal /\ ~Mismatch(cache[p][m].buffer, sig)
  <2>1. CASE path[p] = <<>>
    <3>1. m = g /\ sig = NoPCM
      BY <2>1 DEF Wanted
    <3> QED BY <1>1, <3>1 DEF CanOpen, Mismatch
  <2>2. CASE path[p] # <<>>
    <3>1. Accepted(cache[p], m, sig) /\ m \in known[p]
      BY <1>1, <2>2, AcceptedBelow
    <3> QED BY <3>1 DEF Accepted, CanOpen, Mismatch
  <2> QED BY <2>1, <2>2
<1>4. cache[p][m].present /\ cache[p][m].buffer # NoPCM
  BY <1>2, <1>3 DEF Running, Entries
<1> QED BY <1>3, <1>4 DEF State, getPCMState, Buffer

\* A step of ReadAST.
LEMMA ReadRereads ==
  ASSUME NEW p, RereadsAt(p), pc[p] = "read",
         Goal(p)' = Goal(p), attempt'[p] = attempt[p], disk' = disk,
         cache[p][Goal(p)].isFinal => cache'[p][Goal(p)].isFinal,
         pc'[p] \in {"read", "unwind", "result"}, pc'[p] = "read" => path'[p] # <<>>,
         attempt[p] \in {"owned", "error"} =>
           pc'[p] # "unwind" /\ (pc'[p] = "result" => result'[p] = "Success"),
         attempt[p] = "waited" /\ pc'[p] = "result" => result'[p] # "Missing"
  PROVE  RereadsAt(p)'
BY DEF RereadsAt, Rereads, Ended, Goal, Current, Last

LEMMA FailRereads ==
  ASSUME Inv, NEW p \in Procs, RereadsAt(p), pc[p] = "read", NEW r, Fail(p, r),
         stack' = stack, attempt' = attempt, disk' = disk,
         cache[p][Goal(p)].isFinal => cache'[p][Goal(p)].isFinal,
         attempt[p] \notin {"owned", "error"},
         attempt[p] = "waited" /\ path[p] = <<>> => r # "Missing"
  PROVE  RereadsAt(p)'
<1>1. /\ pc'[p] = IF path[p] = <<>> THEN "result" ELSE "unwind"
      /\ result'[p] = IF path[p] = <<>> THEN r ELSE "OutOfDate"
  BY DEF Fail, Goto, Inv, TypeOK
<1>2. Goal(p)' = Goal(p)
  BY DEF Goal, Current
<1>3. attempt[p] = "waited" /\ pc'[p] = "result" => result'[p] # "Missing"
  BY <1>1
<1>4. pc'[p] \in {"read", "unwind", "result"} /\ pc'[p] # "read"
  BY <1>1
<1> QED BY <1>2, <1>3, <1>4, ReadRereads

\* The goal is the same after the innermost instance has been changed.
LEMMA SameGoal ==
  ASSUME NEW p, Running(p), NEW r \in Instances, r.todo = Current(p).todo,
         stack'[p] = Append(Front(stack[p]), r)
  PROVE  Goal(p)' = Goal(p)
<1>1. stack[p] \in Seq(Instances) /\ stack[p] # <<>>
  BY DEF Running, LargeTypes
<1>2. Len(stack'[p]) = Len(stack[p]) /\ stack'[p][Len(stack[p])] = r
  BY <1>1, ReplaceLast
<1> QED BY <1>2 DEF Goal, Current, Last

LEMMA AdvancedPath ==
  ASSUME NEW p, NEW s \in Paths, s # <<>>
  PROVE  Advance(p, s) # <<>>
<1> DEFINE e == [Last(s) EXCEPT !.todo = Tail(@)]
           f == Front(s)
<1>1. f \in Paths /\ Advance(p, s) = Append(f, e)
  BY FrontProperties DEF Paths, Advance
<1> HIDE DEF e, f
<1>2. f \in Seq([mod : Modules, src : Versions, todo : Todos])
  BY <1>1 DEF Paths
<1>3. Len(f) \in Nat /\ Append(f, e)[Len(f) + 1] = e /\ Len(Append(f, e)) = Len(f) + 1
  BY <1>2
<1>4. Len(f) + 1 # 0 /\ Len(<<>>) = 0
  BY <1>3
<1> QED BY <1>1, <1>3, <1>4

LEMMA AddMissingRereads ==
  ASSUME Inv, NEW rank, NEW p \in Procs, LayeredFacts(rank, p), Running(p), RereadsAt(p), AddMissing(p)
  PROVE  RereadsAt(p)'
<1> DEFINE m == Wanted(p).mod
<1>1. /\ Adding(p) /\ pc[p] = "read" /\ Fail(p, "Missing")
      /\ stack' = stack /\ attempt' = attempt /\ disk' = disk /\ cache' = cache
      /\ ~CanOpen(p, m) \/ (State(p, m) = "Unknown" /\ disk[m] = NoPCM)
  BY DEF AddMissing, Adding, sharedVars
<1>2. attempt[p] \notin {"owned", "error"}
  BY <1>1, WantedThere
<1>3. ~(attempt[p] = "waited" /\ path[p] = <<>>)
  <2> SUFFICES ASSUME attempt[p] = "waited", path[p] = <<>> PROVE FALSE
    OBVIOUS
  <2>1. disk[Goal(p)] # NoPCM /\ m = Goal(p)
    BY <1>1 DEF RereadsAt, Rereads, Ended, Goal, Current, Last, Wanted
  <2> QED BY <1>1, <2>1 DEF CanOpen
<1> QED BY <1>1, <1>2, <1>3, FailRereads

LEMMA AddOutOfDateRereads ==
  ASSUME Inv, NEW rank, NEW p \in Procs, LayeredFacts(rank, p), Running(p), RereadsAt(p),
         AddOutOfDate(p)
  PROVE  RereadsAt(p)'
<1> DEFINE m == Wanted(p).mod
           g == Goal(p)
<1>1. /\ Adding(p) /\ pc[p] = "read" /\ Fail(p, "OutOfDate")
      /\ stack' = stack /\ attempt' = attempt /\ disk' = disk
      /\ \/ State(p, m) = "ToBuild" /\ cache' = cache
         \/ /\ State(p, m) # "ToBuild" /\ Buffer(p, m) # NoPCM
            /\ Mismatch(Buffer(p, m), Wanted(p).sig) /\ Keep(p, m)
  BY DEF AddOutOfDate, Adding, sharedVars
<1>2. attempt[p] \notin {"owned", "error"}
  <2> SUFFICES ASSUME attempt[p] \in {"owned", "error"} PROVE FALSE
    OBVIOUS
  <2>1. /\ State(p, m) = "Final" /\ Buffer(p, m) = cache[p][m].buffer
        /\ ~Mismatch(cache[p][m].buffer, Wanted(p).sig)
    BY <1>1, WantedThere
  <2> QED BY <1>1, <2>1
<1>3. cache[p][g].isFinal => cache'[p][g].isFinal
  <2>1. CASE cache' = cache
    BY <2>1
  <2>2. CASE cache' # cache
    <3>1. m \in Modules /\ g \in Modules
      BY <1>1, WantedTyped DEF Running, Reading, Adding
    <3>2. KeepsFinals(cache[p], cache'[p])
      BY <1>1, <2>2, <3>1, KeepsPCM
    <3> QED BY <3>1, <3>2 DEF KeepsFinals
  <2> QED BY <2>1, <2>2
<1> QED BY <1>1, <1>2, <1>3, FailRereads

LEMMA AddAgainRereads ==
  ASSUME Inv, NEW rank, NEW p \in Procs, LayeredFacts(rank, p), Running(p), RereadsAt(p), AddAgain(p)
  PROVE  RereadsAt(p)'
<1> DEFINE w == Wanted(p)
           m == w.mod
           cur == Current(p)
           pa == path[p]
<1>1. /\ Adding(p) /\ pc[p] = "read"
      /\ attempt' = attempt /\ disk' = disk /\ cache' = cache
  BY DEF AddAgain, Adding, sharedVars
<1>2. PICK i \in DOMAIN cur.chain :
        /\ cur.chain[i].mod = m
        /\ \/ Mismatch(cur.chain[i].pcm, w.sig) /\ Fail(p, "OutOfDate") /\ UNCHANGED <<stack, path>>
           \/ /\ Succeed(p, pa)
              /\ SetCurrent(p, [cur EXCEPT !.chain[i].direct = @ \/ pa = <<>>])
  BY DEF AddAgain
<1>3. CASE Mismatch(cur.chain[i].pcm, w.sig) /\ Fail(p, "OutOfDate") /\ UNCHANGED <<stack, path>>
  <2>1. attempt[p] \notin {"owned", "error"}
    <3> SUFFICES ASSUME attempt[p] \in {"owned", "error"} PROVE FALSE
      OBVIOUS
    <3>1. ~Mismatch(cache[p][m].buffer, w.sig)
      BY <1>1, WantedThere
    <3>2. cache[p][cur.chain[i].mod].buffer = cur.chain[i].pcm
      BY <1>1 DEF Running, Reading, Loading
    <3> QED BY <1>2, <1>3, <3>1, <3>2
  <2> QED BY <1>1, <1>3, <2>1, FailRereads
<1>4. CASE /\ Succeed(p, pa)
           /\ SetCurrent(p, [cur EXCEPT !.chain[i].direct = @ \/ pa = <<>>])
  <2> DEFINE direct == cur.chain[i].direct \/ pa = <<>>
             r == WithDirect(cur, i, direct)
  <2>1. stack'[p] = Append(Front(stack[p]), r)
    BY <1>4 DEF SetCurrent, WithDirect, Inv, TypeOK
  <2>2. /\ direct \in BOOLEAN /\ r = WithDirect(cur, i, direct)
        /\ cur \in Instances /\ pa \in Paths
    BY DEF Running, LargeTypes
  <2>3. /\ path'[p] = Advance(p, pa) /\ pc'[p] = IF pa = <<>> THEN "result" ELSE "read"
        /\ (pa = <<>> => result'[p] = "Success")
    BY <1>4 DEF Succeed, Goto, Inv, TypeOK
  <2> HIDE DEF direct, r, cur, pa
  <2>4. r \in Instances /\ r.todo = cur.todo
    BY <1>2, <2>2, DirectSet
  <2>5. Goal(p)' = Goal(p)
    BY <2>1, <2>4, SameGoal DEF cur
  <2>6. pa # <<>> => Advance(p, pa) # <<>>
    BY <2>2, AdvancedPath
  <2>7. /\ pc'[p] \in {"read", "result"} /\ (pc'[p] = "read" => path'[p] # <<>>)
        /\ pc'[p] = "result" => result'[p] = "Success"
    BY <2>3, <2>6
  <2> QED BY <1>1, <2>5, <2>7, ReadRereads
<1> QED BY <1>2, <1>3, <1>4

LEMMA AddNewRereads ==
  ASSUME Inv, NEW p \in Procs, Running(p), RereadsAt(p), AddNew(p)
  PROVE  RereadsAt(p)'
<1> DEFINE m == Wanted(p).mod
           g == Goal(p)
           cur == Current(p)
           e == [mod |-> m, pcm |-> Buffer(p, m), direct |-> path[p] = <<>>]
           r == [cur EXCEPT !.chain = Append(@, e)]
           q == [mod |-> m, src |-> Buffer(p, m).src, todo |-> Buffer(p, m).imports]
<1>1. /\ Adding(p) /\ pc[p] = "read" /\ pc'[p] = "read" /\ attempt' = attempt /\ disk' = disk
      /\ State(p, m) # "ToBuild" /\ Buffer(p, m) # NoPCM /\ Keep(p, m)
      /\ stack'[p] = Append(Front(stack[p]), r) /\ path'[p] = Append(path[p], q)
  BY DEF AddNew, Adding, SetCurrent, sharedVars, Inv, TypeOK
<1>2. m \in Modules /\ g \in Modules /\ cur \in Instances /\ cur.chain \in Chains /\ path[p] \in Paths
  BY <1>1, WantedTyped DEF Running, Reading, LargeTypes
<1>3. Buffer(p, m) \in PCMs /\ KeepsFinals(cache[p], cache'[p])
  BY <1>1, <1>2, KeepsPCM
<1>4. e \in [mod : Modules, pcm : PCMs, direct : BOOLEAN]
  BY <1>2, <1>3
<1>5. path'[p] # <<>>
  <2> HIDE DEF q
  <2>1. path[p] \in Seq([mod : Modules, src : Versions, todo : Todos])
    BY <1>2 DEF Paths
  <2>2. Len(path[p]) \in Nat /\ Len(Append(path[p], q)) = Len(path[p]) + 1
    BY <2>1
  <2>3. Len(path[p]) + 1 # 0 /\ Len(<<>>) = 0
    BY <2>2
  <2> QED BY <1>1, <2>2, <2>3
<1> HIDE DEF e, cur
<1>6. Append(cur.chain, e) \in Chains
  BY <1>2, <1>4, AppendProperties DEF Chains
<1>7. r \in Instances /\ r.todo = cur.todo
  BY <1>2, <1>6 DEF Instances, Chains
<1>8. Goal(p)' = g
  BY <1>1, <1>7, SameGoal DEF cur
<1>9. cache[p][g].isFinal => cache'[p][g].isFinal
  BY <1>2, <1>3 DEF KeepsFinals
<1> QED BY <1>1, <1>5, <1>8, <1>9, ReadRereads

LEMMA ValidateRereads ==
  ASSUME Inv, NEW rank, NEW p \in Procs, LayeredFacts(rank, p), Running(p), RereadsAt(p), Validate(p)
  PROVE  RereadsAt(p)'
<1> DEFINE c == cache[p]
           pa == path[p]
           e == Last(pa)
           m == e.mod
           g == Goal(p)
           f == Front(pa)
<1>1. /\ pc[p] = "read" /\ pa # <<>> /\ seen'[p] = Stat(p, m)
      /\ stack' = stack /\ attempt' = attempt /\ disk' = disk
  BY DEF Validate, sharedVars, Inv, TypeOK
<1>2. /\ c \in Caches /\ Entries(c) /\ Finals(c, seen[p]) /\ pa \in Paths
      /\ OnPaths(c, pa) /\ g \in Modules
      /\ c[g].isFinal => \A k \in DOMAIN pa : c[pa[k].mod].isFinal
  BY <1>1, ReadFacts DEF Reads
<1>3. Len(pa) \in DOMAIN pa /\ e = pa[Len(pa)]
  BY <1>1, <1>2, EmptySeq, LenProperties DEF Paths, Last
<1>4. m \in Modules /\ e.src \in Versions /\ OnPath(c, e)
  BY <1>2, <1>3, PathsTyped DEF OnPaths
<1>5. c[m].buffer.src = e.src
  BY <1>4 DEF OnPath
<1>6. Goal(p)' = g
  BY <1>1 DEF Goal, Current
<1>7. CASE seen'[p][m] # e.src
  <2>1. /\ pc'[p] = "unwind" /\ cache' = cache
    BY <1>7 DEF Validate, Goto, Inv, TypeOK
  <2>2. ~c[g].isFinal
    <3> SUFFICES ASSUME c[g].isFinal PROVE FALSE
      OBVIOUS
    <3>1. c[m].isFinal
      BY <1>2, <1>3
    <3>2. seen[p][m] = e.src
      BY <1>2, <1>4, <1>5, <3>1 DEF Finals
    <3>3. seen[p][m] # Unseen
      BY <1>4, <3>2, ModulesAssumption
    <3> QED BY <1>1, <1>7, <3>2, <3>3 DEF Stat
  <2>3. attempt[p] \notin {"owned", "error"}
    BY <1>1, <2>2 DEF RereadsAt, Rereads, Ended, Goal, Current, Last
  <2> HIDE DEF c, pa, e, m, g, f
  <2> QED BY <1>1, <1>6, <2>1, <2>3, ReadRereads DEF g
<1>8. CASE seen'[p][m] = e.src /\ finalizePCMAsserts(c, m)
  <2>1. cache' = [cache EXCEPT ![p] = finalizePCM(c, m)] /\ Succeed(p, f)
    BY <1>8 DEF Validate
  <2>2. /\ cache'[p] = [c EXCEPT ![m].isFinal = TRUE]
        /\ path'[p] = Advance(p, f) /\ pc'[p] = IF f = <<>> THEN "result" ELSE "read"
        /\ (f = <<>> => result'[p] = "Success")
    BY <2>1 DEF Succeed, finalizePCM, Goto, Inv, TypeOK
  <2>3. f \in Paths
    BY <1>1, <1>2, FrontProperties DEF Paths
  <2> HIDE DEF f
  <2>4. f # <<>> => Advance(p, f) # <<>>
    BY <2>3, AdvancedPath
  <2>5. /\ pc'[p] \in {"read", "result"} /\ (pc'[p] = "read" => path'[p] # <<>>)
        /\ pc'[p] = "result" => result'[p] = "Success"
    BY <2>2, <2>4
  <2> HIDE DEF c, pa, e, m, g
  <2>6. c[g].isFinal => cache'[p][g].isFinal
    BY <1>2, <1>4, <2>2 DEF Caches
  <2> QED BY <1>1, <1>6, <2>5, <2>6, ReadRereads DEF c, g
<1>9. CASE seen'[p][m] = e.src /\ ~finalizePCMAsserts(c, m)
  <2>1. pc'[p] = "aborted"
    BY <1>9 DEF Validate, Goto, Inv, TypeOK
  <2> QED BY <2>1 DEF RereadsAt, Rereads, Ended
<1> QED BY <1>7, <1>8, <1>9

\* What fails is out of date, and not what was just built.
LEMMA UnwindRereads ==
  ASSUME Inv, NEW rank, NEW p \in Procs, LayeredFacts(rank, p), Running(p), RereadsAt(p), Unwind(p)
  PROVE  RereadsAt(p)'
<1>1. /\ pc[p] = "unwind" /\ attempt' = attempt /\ result' = result
      /\ pc'[p] \in {"unwind", "result", "aborted"}
  BY DEF Unwind, Goto, Inv, TypeOK
<1>2. attempt[p] \notin {"owned", "error"}
  BY <1>1 DEF RereadsAt, Rereads, Ended
<1>3. result[p] = "OutOfDate"
  BY <1>1 DEF LayeredFacts, Unwinds
<1> QED BY <1>1, <1>2, <1>3 DEF RereadsAt, Rereads, Ended

\* A PCM is put in place: the one that has been accepted.
LEMMA RenameRereads ==
  ASSUME Inv, NEW p \in Procs, Running(p), RereadsAt(p), Rename(p)
  PROVE  /\ RereadsAt(p)'
         /\ \A m \in Modules : disk[m] # NoPCM => disk'[m] # NoPCM
<1> DEFINE m == Current(p).mod
           f == Front(stack[p])
<1>1. /\ pc[p] = "rename" /\ pc'[p] = "read" /\ stack'[p] = f /\ cache' = cache
      /\ attempt'[p] = Current(p).locked /\ disk' = [disk EXCEPT ![m] = cache[p][m].buffer]
  BY DEF Rename, StartRead, Goto, memoryVars, Inv, TypeOK
<1>2. cache[p][m].isFinal
  BY <1>1 DEF RereadsAt, Rereads, Ended, Current, Last
<1>3. /\ m # Nobody /\ Current(p).locked \in {"owned", "error"}
      /\ disk \in [Modules -> PCMs \cup {NoPCM}]
  BY <1>1 DEF Running, Reading, Instances, SharedTypes
<1>4. m \in Modules /\ f # <<>> /\ Last(f) = f[Len(f)] /\ Nested(p)
  BY <1>3, NestedInstance
<1>5. cache[p][m].buffer # NoPCM
  BY <1>2, <1>4 DEF Running, Entries
<1>6. disk'[m] # NoPCM /\ \A k \in Modules : disk[k] # NoPCM => disk'[k] # NoPCM
  BY <1>1, <1>3, <1>4, <1>5
<1>7. Head(f[Len(f)].todo) = m
  <2> DEFINE n == Len(stack[p])
  <2>1. /\ stack[p] \in Seq(Instances) /\ stack[p] # <<>> /\ n > 1 /\ n \in Nat
        /\ Current(p) = stack[p][n]
    BY <1>4 DEF Running, LargeTypes, Nested
  <2>2. Len(f) = n - 1 /\ \A k \in 1..(n - 1) : f[k] = stack[p][k]
    BY <2>1, FrontProperties
  <2>3. \A k \in 1..(n - 1) : Head(stack[p][k].todo) = stack[p][k + 1].mod
    BY DEF Running, Building
  <2> HIDE DEF n, f
  <2>4. n - 1 \in 1..(n - 1) /\ n - 1 + 1 = n
    BY <2>1
  <2>5. f[Len(f)] = stack[p][n - 1] /\ Head(stack[p][n - 1].todo) = stack[p][n - 1 + 1].mod
    BY <2>2, <2>3, <2>4
  <2> QED BY <2>1, <2>4, <2>5
<1>8. RereadsAt(p)'
  BY <1>1, <1>2, <1>3, <1>6, <1>7 DEF RereadsAt, Rereads
<1> QED BY <1>6, <1>8

\* The file of what is waited for was there a moment ago.
LEMMA WaitForUnlockRereads ==
  ASSUME Inv, NEW p \in Procs, Running(p), RereadsAt(p), WaitForUnlock(p)
  PROVE  RereadsAt(p)'
<1>1. /\ stack' = stack /\ disk' = disk
      /\ \/ pc'[p] = "read" /\ attempt'[p] = "waited" /\ disk[Goal(p)] # NoPCM
         \/ pc'[p] = "lock"
  BY DEF WaitForUnlock, StartRead, Goto, sharedVars, Inv, TypeOK
<1> QED BY <1>1 DEF RereadsAt, Rereads, Ended, Goal, Current, Last

LEMMA WriteASTRereads ==
  ASSUME Inv, NEW p \in Procs, Running(p), WriteAST(p)
  PROVE  RereadsAt(p)'
<1> DEFINE m == Current(p).mod
<1>1. stack' = stack /\ Nested(p) /\ cache[p] \in Caches
  BY DEF WriteAST, Running, LargeTypes
<1>2. m \in Modules
  BY <1>1, NestedInstance
<1>3. CASE pc'[p] = "aborted"
  BY <1>3 DEF RereadsAt, Rereads, Ended
<1>4. CASE pc'[p] # "aborted"
  <2>1. pc'[p] = "rename"
    BY <1>4 DEF WriteAST, Goto, Inv, TypeOK
  <2>2. \E x : cache'[p] = addBuiltPCM(cache[p], m, x)
    BY <1>4 DEF WriteAST, Goto, Inv, TypeOK
  <2>3. cache'[p][m].isFinal
    BY <1>1, <1>2, <2>2 DEF addBuiltPCM, Caches
  <2> QED BY <1>1, <2>1, <2>3 DEF RereadsAt, Rereads, Ended, Current, Last
<1> QED BY <1>3, <1>4

LEMMA RereadsStep ==
  ASSUME Inv, NEW rank, NEW p \in Procs, LayeredFacts(rank, p), Running(p), RereadsAt(p),
         Step(p) \/ LockError(p) \/ WaitTimeout(p) \/ Crash(p)
  PROVE  /\ RereadsAt(p)'
         /\ \A m \in Modules : disk[m] # NoPCM => disk'[m] # NoPCM
<1>1. RereadsAt(p)'
  <2>1. CASE ReadAST(p)
    BY <2>1, AddMissingRereads, AddAgainRereads, AddOutOfDateRereads, AddNewRereads,
       ValidateRereads, UnwindRereads DEF ReadAST
  <2>2. CASE WaitForUnlock(p) \/ WriteAST(p) \/ Rename(p)
    BY <2>2, WaitForUnlockRereads, WriteASTRereads, RenameRereads
  <2>3. CASE BeginImport(p)
    <3>1. pc'[p] = "read" /\ attempt'[p] = "first"
      BY <2>3 DEF BeginImport, StartRead, Goto, Inv, TypeOK
    <3> QED BY <3>1 DEF RereadsAt, Rereads
  <2>4. ASSUME pc'[p] \in Ended \cup {"import", "lock", "wait"} PROVE RereadsAt(p)'
    BY <2>4 DEF RereadsAt, Rereads, Ended
  <2>5. CASE Imported(p) \/ NeedsBuild(p) \/ TryAgain(p) \/ NotBuilt(p)
    BY <2>4, <2>5 DEF Imported, NeedsBuild, TryAgain, NotBuilt, Goto, Inv, TypeOK
  <2>6. CASE LockOwned(p) \/ LockError(p) \/ LockShared(p) \/ WaitTimeout(p)
    BY <2>4, <2>6 DEF LockOwned, LockError, LockShared, WaitTimeout, Compile, Goto, Inv, TypeOK
  <2>7. CASE CompileFailed(p) \/ Finish(p) \/ Crash(p)
    BY <2>4, <2>7 DEF CompileFailed, Finish, Crash, Goto, Ended, Inv, TypeOK
  <2> QED BY <2>1, <2>2, <2>3, <2>5, <2>6, <2>7 DEF Step
<1>2. CASE Rename(p)
  BY <1>1, <1>2, RenameRereads
<1>3. CASE ~Rename(p)
  BY <1>1, <1>3, OnlyRename
<1> QED BY <1>2, <1>3

\* The other processes see that no file vanishes.
LEMMA OthersExplained ==
  ASSUME Inv, UNCHANGED project, NEW q \in Procs, ErrorsAt(q), RereadsAt(q),
         pc'[q] = pc[q], cache'[q] = cache[q], seen'[q] = seen[q], failed'[q] = failed[q],
         stack'[q] = stack[q], path'[q] = path[q], attempt'[q] = attempt[q], result'[q] = result[q],
         \A m \in Modules : disk[m] # NoPCM => disk'[m] # NoPCM
  PROVE  ErrorsAt(q)' /\ RereadsAt(q)'
<1>1. ErrorsAt(q)'
  BY DEF ErrorsAt
<1>2. CASE pc[q] \in Ended
  BY <1>1, <1>2 DEF RereadsAt, Rereads
<1>3. CASE pc[q] \notin {"read", "unwind", "result"}
  BY <1>1, <1>3 DEF RereadsAt, Rereads
<1>4. CASE pc[q] \in {"read", "unwind", "result"}
  <2>1. Running(q) /\ Current(q).todo # <<>>
    BY <1>4, RunningProcess DEF Running, Reading, Ended
  <2>2. Goal(q) \in Modules
    BY <2>1 DEF Running
  <2>3. disk[Goal(q)] # NoPCM => disk'[Goal(q)] # NoPCM
    BY <2>2
  <2> QED BY <1>1, <1>4, <2>3 DEF RereadsAt, Rereads, Goal, Current, Last
<1> QED BY <1>2, <1>3, <1>4

LEMMA InitExplained == Init => ExplainedInv
<1> SUFFICES ASSUME Init, NEW p \in Procs PROVE ErrorsAt(p) /\ RereadsAt(p)
  BY DEF ExplainedInv
<1>1. pc[p] = "import" /\ failed[p] = {} /\ stack[p] = <<MainInstance(p)>>
  BY DEF Init
<1>2. Len(stack[p]) = 1 /\ ~stack[p][1].err
  BY <1>1 DEF MainInstance
<1>3. ErrorsAt(p)
  BY <1>1, <1>2 DEF ErrorsAt, ErrorsExplained
<1>4. RereadsAt(p)
  BY <1>1 DEF RereadsAt, Rereads
<1> QED BY <1>3, <1>4

LEMMA ExplainedPreserved ==
  ASSUME NEW rank, Layered(rank)
  PROVE  Inv /\ LayeredInv(rank) /\ LayeredInv(rank)' /\ ExplainedInv /\ [Next]_vars
         => ExplainedInv'
<1> SUFFICES ASSUME Inv, LayeredInv(rank), LayeredInv(rank)', ExplainedInv, [Next]_vars, Calm',
                    NEW q \in Procs
             PROVE  ErrorsAt(q)' /\ RereadsAt(q)'
  BY DEF ExplainedInv
<1>1. UNCHANGED project
  BY DEF Next, vars
<1>2. Calm /\ \A p \in Procs : ErrorsAt(p) /\ RereadsAt(p)
  BY <1>1 DEF Calm, ExplainedInv
<1>3. ASSUME NEW p \in Procs, Step(p) \/ LockError(p) \/ WaitTimeout(p) \/ Crash(p)
      PROVE  ErrorsAt(q)' /\ RereadsAt(q)'
  <2>1. pc[p] \notin Ended
    BY <1>3, StepIsOfOneRunning
  <2>2. Running(p) /\ LayeredFacts(rank, p)
    BY <2>1, RunningProcess, FactsOfLayered DEF LayeredInv
  <2>3. pc'[p] # "aborted"
    BY DEF LayeredInv, LayeredAt, LayeredOK
  <2>4. ErrorsAt(p)'
    BY <1>1, <1>2, <1>3, <2>1, <2>2, <2>3, ErrorsStep
  <2>5. RereadsAt(p)' /\ \A m \in Modules : disk[m] # NoPCM => disk'[m] # NoPCM
    BY <1>2, <1>3, <2>2, RereadsStep
  <2>6. CASE q = p
    BY <2>4, <2>5, <2>6
  <2>7. CASE q # p
    <3>1. Local(p)
      BY <1>1, <1>3, LocalSteps
    <3>2. /\ pc'[q] = pc[q] /\ cache'[q] = cache[q] /\ seen'[q] = seen[q] /\ failed'[q] = failed[q]
          /\ stack'[q] = stack[q] /\ path'[q] = path[q] /\ attempt'[q] = attempt[q]
          /\ result'[q] = result[q]
      BY <2>7, <3>1 DEF Local, Inv, TypeOK
    <3> QED BY <1>1, <1>2, <2>5, <3>2, OthersExplained
  <2> QED BY <2>6, <2>7
<1>4. ASSUME UNCHANGED <<disk, pc, memoryVars, stack, readVars>>
      PROVE  ErrorsAt(q)' /\ RereadsAt(q)'
  BY <1>1, <1>2, <1>4, OthersExplained DEF memoryVars, readVars
<1>5. ASSUME NEW m \in Modules, Edit(m) \/ Prune(m) PROVE ErrorsAt(q)' /\ RereadsAt(q)'
  <2>1. Edit(m)
    BY <1>2, <1>5 DEF Calm, Prune
  <2> QED BY <1>4, <2>1 DEF Edit
<1>6. CASE UNCHANGED vars
  BY <1>4, <1>6 DEF vars, sharedVars
<1> QED BY <1>3, <1>5, <1>6 DEF Next

\* When imports are layered and PCMs do not vanish, a compilation fails only because of a
\* header that does not compile, as this very process sees it.  Another process that
\* fails, crashes, is late or takes the lock away is no reason, and neither is an edit.
THEOREM LayeredImportsFailForAReason ==
  ASSUME NEW rank, Layered(rank)
  PROVE  Spec => []FailsForAReason
<1>1. Inv /\ LayeredInv(rank) /\ LayeredInv(rank)' /\ ExplainedInv /\ [Next]_vars
      => ExplainedInv'
  BY ExplainedPreserved
<1>2. ExplainedInv => FailsForAReason
  BY DEF ExplainedInv, Calm, ErrorsAt, ErrorsExplained, Reason, FailsForAReason
<1>3. Spec => []Inv
  BY Invariant
<1>4. Spec => []LayeredInv(rank)
  BY LayeredInvariant
<1> QED BY <1>1, <1>2, <1>3, <1>4, InitExplained, PTL DEF Spec
=============================================================================
