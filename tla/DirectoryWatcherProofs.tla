----------------------- MODULE DirectoryWatcherProofs -----------------------
(***************************************************************************)
(* Proofs about DirectoryWatcher, for every set of names, every size of     *)
(* the buffers and every number of changes.                                 *)
(***************************************************************************)
EXTENDS DirectoryWatcher, TLAPS

(* ---- Types ---- *)

\* An inotify event names what its kind says it names.
LEMMA TranslateType ==
  ASSUME NEW e \in InotifyEvent, e.kind \in PresentMasks \cup AbsentMasks \cup SelfMasks
  PROVE  Translate(e) \in Event
  BY WatcherAssumption
  DEF InotifyEvent, Event, Translate, PresentMasks, AbsentMasks, SelfMasks

\* Every value has its type in every reachable state.
THEOREM TypeCorrect == Spec => []TypeOK
<1>1. ASSUME Init PROVE TypeOK
  <2>1. Invalidated \in Event
    BY DEF Invalidated, Event
  <2>2. inotify \in Seq(InotifyEvent) /\ queue \in Seq(Event) /\ batch \in Seq(InotifyEvent)
    BY <1>1 DEF Init
  <2>3. changes \in 0..MaxChanges
    BY <1>1, WatcherAssumption DEF Init
  <2> QED
    BY <1>1, <2>1, <2>2, <2>3 DEF Init, TypeOK, MainPcs, PollPcs, RecvPcs
<1>2. TypeOK /\ [Next]_vars => TypeOK'
  <2> SUFFICES ASSUME TypeOK, [Next]_vars PROVE TypeOK'
    OBVIOUS
  <2> USE DEF TypeOK
  <2>1. ASSUME Kernel PROVE TypeOK'
    <3>1. ASSUME NEW e \in InotifyEvent PROVE Enqueue(inotify, e) \in Seq(InotifyEvent)
      BY DEF Enqueue, Overflow, InotifyEvent
    <3>2. ASSUME NEW f \in Files, NEW m \in PresentMasks \cup AbsentMasks
          PROVE [kind |-> m, name |-> f] \in InotifyEvent
      BY DEF InotifyEvent
    <3>3. ASSUME NEW m \in SelfMasks \cup {"IN_UNMOUNT"}
          PROVE [kind |-> m, name |-> NoFile] \in InotifyEvent
      BY DEF InotifyEvent
    <3>4. ASSUME NEW e \in InotifyEvent, Change(e), files' \subseteq Files,
                 dirExists' \in BOOLEAN
          PROVE TypeOK'
      BY <3>1, <3>4, WatcherAssumption DEF Change, scanVars, threadVars, clientVars
    <3>5. ASSUME NEW f \in Files, FileAppears(f) PROVE TypeOK'
      BY <3>5, <3>2, <3>4 DEF FileAppears
    <3>6. ASSUME NEW f \in Files, FileDisappears(f) PROVE TypeOK'
      BY <3>6, <3>2, <3>4 DEF FileDisappears
    <3>7. ASSUME DirectoryGoes PROVE TypeOK'
      BY <3>7, <3>3, <3>4 DEF DirectoryGoes
    <3> QED BY <2>1, <3>5, <3>6, <3>7 DEF Kernel
  <2>2. ASSUME Polling PROVE TypeOK'
    <3> USE DEF kernelVars, scanVars, clientVars, PollPcs
    <3>1. CASE PollSetup BY <3>1 DEF PollSetup
    <3>2. CASE EpollWait \/ EpollFails BY <3>2 DEF EpollWait, EpollFails
    <3>3. CASE ReadBatch
      BY <3>3, WatcherAssumption DEF ReadBatch
    <3>4. CASE ReadFails BY <3>4 DEF ReadFails
    <3>5. CASE HandleEvent
      <4>1. CASE batch = <<>>
        BY <3>5, <4>1 DEF HandleEvent
      <4>2. CASE batch # <<>>
        <5>1. Head(batch) \in InotifyEvent /\ Tail(batch) \in Seq(InotifyEvent)
          BY <4>2
        <5>2. queue' \in Seq(Event)
          <6>1. CASE Head(batch).kind \in PresentMasks \cup AbsentMasks \cup SelfMasks
            <7>1. Translate(Head(batch)) \in Event
              BY <5>1, <6>1, TranslateType
            <7>2. queue' = Append(queue, Translate(Head(batch)))
              BY <3>5, <4>2, <6>1 DEF HandleEvent, Push
            <7> QED BY <7>1, <7>2
          <6>2. CASE Head(batch).kind \notin PresentMasks \cup AbsentMasks \cup SelfMasks
            BY <3>5, <4>2, <6>2 DEF HandleEvent
          <6> QED BY <6>1, <6>2
        <5>3. pollPc' \in PollPcs
          BY <3>5, <4>2 DEF HandleEvent
        <5> QED BY <3>5, <4>2, <5>1, <5>2, <5>3 DEF HandleEvent
      <4> QED BY <4>1, <4>2
    <3>6. CASE PollStopPush BY <3>6, WatcherAssumption DEF PollStopPush, Push, Invalidated, Event
    <3>7. CASE PollStopSignal BY <3>7 DEF PollStopSignal
    <3>8. CASE HitUnreachable BY <3>8 DEF HitUnreachable
    <3> QED BY <2>2, <3>1, <3>2, <3>3, <3>4, <3>5, <3>6, <3>7, <3>8 DEF Polling, PollingWorks
  <2>3. ASSUME Scan PROVE TypeOK'
    <3> USE DEF kernelVars, scanVars, threadVars, clientVars, MainPcs, RecvPcs
    <3>1. CASE ScanEntry BY <3>1 DEF ScanEntry
    <3>2. CASE ScanError BY <3>2 DEF ScanError
    <3>3. CASE CallInitial BY <3>3 DEF CallInitial
    <3>4. CASE InitialCallReturns BY <3>4 DEF InitialCallReturns
    <3> QED BY <2>3, <3>1, <3>2, <3>3, <3>4 DEF Scan
  <2>4. ASSUME Receiving PROVE TypeOK'
    <3> USE DEF kernelVars, scanVars, clientVars, RecvPcs
    <3>1. CASE PopFront BY <3>1 DEF PopFront
    <3>2. CASE CallReturns
      <4>1. event.kind \in {"Modified", "Removed"} => event.name \in Files
        BY DEF Event
      <4> QED BY <3>2, <4>1 DEF CallReturns
    <3>3. CASE RecvStopPush BY <3>3 DEF RecvStopPush, Push, Invalidated, Event
    <3>4. CASE RecvStopSignal BY <3>4 DEF RecvStopSignal
    <3> QED BY <2>4, <3>1, <3>2, <3>3, <3>4 DEF Receiving
  <2>5. ASSUME Constructor \/ Destroy \/ Destructor PROVE TypeOK'
    <3> USE DEF kernelVars, scanVars, clientVars, MainPcs, PollPcs, RecvPcs
    <3>1. CASE CreateWatch BY <3>1 DEF CreateWatch
    <3>2. CASE StartPolling BY <3>2 DEF StartPolling
    <3>3. CASE StartReceiving BY <3>3 DEF StartReceiving
    <3>4. CASE Destroy BY <3>4 DEF Destroy
    <3>5. CASE MainStopPush BY <3>5 DEF MainStopPush, Push, Invalidated, Event
    <3>6. CASE MainStopSignal BY <3>6 DEF MainStopSignal
    <3>7. CASE Join BY <3>7 DEF Join
    <3> QED BY <2>5, <3>1, <3>2, <3>3, <3>4, <3>5, <3>6, <3>7 DEF Constructor, Destructor
  <2>6. CASE UNCHANGED vars
    BY <2>6 DEF vars, kernelVars, scanVars, threadVars, clientVars
  <2> QED BY <2>1, <2>2, <2>3, <2>4, <2>5, <2>6 DEF Next
<1> QED BY <1>1, <1>2, PTL DEF Spec

-----------------------------------------------------------------------------
(* ---- What a sequence of events says of a name ---- *)

\* One event after b.
After(e, f, b) == (e.name = f /\ Shows(e)) \/ (e.name # f /\ b)

LEMMA FinalEmpty ==
  ASSUME NEW f, NEW b \in BOOLEAN
  PROVE  Final(<<>>, f, b) <=> b
  BY DEF Final

LEMMA FinalOne ==
  ASSUME NEW e, NEW f, NEW b \in BOOLEAN
  PROVE  Final(<<e>>, f, b) <=> After(e, f, b)
  BY DEF Final, After

\* s is a first part p and then the rest r.
Consists(S, s, p, r) ==
  /\ s \in Seq(S) /\ p \in Seq(S) /\ r \in Seq(S)
  /\ Len(s) = Len(p) + Len(r)
  /\ \A i \in 1..Len(p) : s[i] = p[i]
  /\ \A i \in 1..Len(r) : s[Len(p) + i] = r[i]

\* Reading s is reading a first part p of it, and then the rest r.
LEMMA FinalSplit ==
  ASSUME NEW S, NEW s, NEW p, NEW r, Consists(S, s, p, r), NEW f, NEW b \in BOOLEAN
  PROVE  Final(s, f, b) <=> Final(r, f, Final(p, f, b))
<1>0. /\ s \in Seq(S) /\ p \in Seq(S) /\ r \in Seq(S)
      /\ Len(s) = Len(p) + Len(r)
      /\ \A i \in 1..Len(p) : s[i] = p[i]
      /\ \A i \in 1..Len(r) : s[Len(p) + i] = r[i]
  BY DEF Consists
<1> DEFINE n == Len(p)
           LastIn(q, i) == q[i].name = f /\ \A j \in DOMAIN q : j > i => q[j].name # f
           Decides(q) == \E i \in DOMAIN q : LastIn(q, i) /\ Shows(q[i])
           Silent(q) == \A i \in DOMAIN q : q[i].name # f
<1>1. /\ n \in Nat /\ Len(r) \in Nat
      /\ DOMAIN s = 1..(n + Len(r)) /\ DOMAIN p = 1..n /\ DOMAIN r = 1..Len(r)
  BY <1>0
<1>2. ASSUME NEW i \in DOMAIN s
      PROVE  \/ i \in DOMAIN p /\ s[i] = p[i]
             \/ i - n \in DOMAIN r /\ s[i] = r[i - n] /\ i = n + (i - n)
  <2>1. CASE i <= n
    <3>1. i \in 1..n
      BY <1>1, <2>1
    <3> QED BY <1>0, <1>1, <3>1
  <2>2. CASE i > n
    <3>1. i - n \in 1..Len(r) /\ n + (i - n) = i
      BY <1>1, <2>2
    <3>2. s[n + (i - n)] = r[i - n]
      BY <1>0, <3>1
    <3> QED BY <1>1, <3>1, <3>2
  <2> QED BY <1>1, <2>1, <2>2
<1>3. ASSUME NEW i \in DOMAIN p PROVE i \in DOMAIN s /\ s[i] = p[i]
  BY <1>0, <1>1
<1>4. ASSUME NEW i \in DOMAIN r PROVE n + i \in DOMAIN s /\ s[n + i] = r[i]
  BY <1>0, <1>1
<1> HIDE DEF n
<1>5. Silent(s) <=> Silent(p) /\ Silent(r)
  <2>1. ASSUME Silent(s), NEW i \in DOMAIN p PROVE p[i].name # f
    BY <1>3, <2>1
  <2>2. ASSUME Silent(s), NEW i \in DOMAIN r PROVE r[i].name # f
    BY <1>4, <2>2
  <2>3. ASSUME Silent(p), Silent(r), NEW i \in DOMAIN s PROVE s[i].name # f
    BY <1>2, <2>3
  <2> QED BY <2>1, <2>2, <2>3
<1>6. ASSUME NEW i \in DOMAIN p PROVE LastIn(s, i) <=> LastIn(p, i) /\ Silent(r)
  <2>1. ASSUME LastIn(s, i) PROVE LastIn(p, i) /\ Silent(r)
    <3>1. ASSUME NEW j \in DOMAIN r PROVE r[j].name # f
      <4>1. n + j > i
        BY <1>1
      <4> QED BY <1>4, <2>1, <4>1
    <3> QED BY <1>3, <2>1, <3>1
  <2>2. ASSUME LastIn(p, i), Silent(r) PROVE LastIn(s, i)
    BY <1>2, <1>3, <2>2
  <2> QED BY <2>1, <2>2
<1>7. ASSUME NEW i \in DOMAIN r PROVE LastIn(s, n + i) <=> LastIn(r, i)
  <2>1. ASSUME LastIn(s, n + i) PROVE LastIn(r, i)
    <3>1. ASSUME NEW j \in DOMAIN r, j > i PROVE r[j].name # f
      <4>1. n + j > n + i
        BY <1>1, <3>1
      <4> QED BY <1>4, <2>1, <4>1
    <3> QED BY <1>4, <2>1, <3>1
  <2>2. ASSUME LastIn(r, i) PROVE LastIn(s, n + i)
    <3>1. ASSUME NEW j \in DOMAIN s, j > n + i PROVE s[j].name # f
      <4>1. j \notin DOMAIN p /\ j - n > i
        BY <1>1, <3>1
      <4> QED BY <1>2, <2>2, <4>1
    <3> QED BY <1>4, <2>2, <3>1
  <2> QED BY <2>1, <2>2
<1>8. Decides(s) <=> (Decides(p) /\ Silent(r)) \/ Decides(r)
  <2>1. ASSUME NEW i \in DOMAIN p, LastIn(p, i), Shows(p[i]), Silent(r) PROVE Decides(s)
    BY <1>3, <1>6, <2>1
  <2>2. ASSUME NEW i \in DOMAIN r, LastIn(r, i), Shows(r[i]) PROVE Decides(s)
    <3>1. n + i \in DOMAIN s /\ LastIn(s, n + i) /\ Shows(s[n + i])
      BY <1>4, <1>7, <2>2
    <3> HIDE DEF LastIn
    <3> QED BY <3>1
  <2>3. ASSUME NEW i \in DOMAIN s, LastIn(s, i), Shows(s[i])
        PROVE  (Decides(p) /\ Silent(r)) \/ Decides(r)
    <3>1. CASE i \in DOMAIN p
      BY <1>3, <1>6, <2>3, <3>1
    <3>2. CASE i - n \in DOMAIN r /\ s[i] = r[i - n] /\ i = n + (i - n)
      <4>1. LastIn(r, i - n) /\ Shows(r[i - n])
        BY <1>7, <2>3, <3>2
      <4> HIDE DEF LastIn
      <4> QED BY <3>2, <4>1
    <3> QED BY <1>2, <3>1, <3>2
  <2> HIDE DEF LastIn, Silent
  <2> QED BY <2>1, <2>2, <2>3
<1>9. ASSUME NEW q, NEW c \in BOOLEAN PROVE Final(q, f, c) <=> Decides(q) \/ (Silent(q) /\ c)
  BY DEF Final
<1>10. Final(p, f, b) \in BOOLEAN
  BY DEF Final
<1> HIDE DEF Decides, Silent
<1>11. Final(p, f, b) <=> Decides(p) \/ (Silent(p) /\ b)
  BY <1>9
<1>12. Final(r, f, Final(p, f, b)) <=> Decides(r) \/ (Silent(r) /\ Final(p, f, b))
  BY <1>9, <1>10
<1>13. Final(s, f, b) <=> Decides(s) \/ (Silent(s) /\ b)
  BY <1>9
<1> QED BY <1>5, <1>8, <1>11, <1>12, <1>13

\* A new event comes after all of s.
LEMMA FinalAppend ==
  ASSUME NEW S, NEW s \in Seq(S), NEW e \in S, NEW f, NEW b \in BOOLEAN
  PROVE  Final(Append(s, e), f, b) <=> After(e, f, Final(s, f, b))
<1>1. Final(s, f, b) \in BOOLEAN
  BY DEF Final
<1>2. Final(Append(s, e), f, b) <=> Final(<<e>>, f, Final(s, f, b))
  <2> DEFINE t == Append(s, e)
             r == <<e>>
  <2>1. /\ t \in Seq(S) /\ r \in Seq(S) /\ Len(t) = Len(s) + Len(r)
        /\ \A i \in 1..Len(s) : t[i] = s[i]
        /\ \A i \in 1..Len(r) : t[Len(s) + i] = r[i]
    OBVIOUS
  <2> HIDE DEF t, r
  <2>2. Consists(S, t, s, r)
    BY <2>1 DEF Consists
  <2>3. Final(t, f, b) <=> Final(r, f, Final(s, f, b))
    BY <2>2, FinalSplit
  <2> QED BY <2>3 DEF t, r
<1> QED BY <1>1, <1>2, FinalOne

\* The first event of s comes before the others.
LEMMA FinalHead ==
  ASSUME NEW S, NEW s \in Seq(S), s # <<>>, NEW f, NEW b \in BOOLEAN
  PROVE  Final(s, f, b) <=> Final(Tail(s), f, After(Head(s), f, b))
<1> DEFINE p == <<Head(s)>>
           r == Tail(s)
<1>1. /\ p \in Seq(S) /\ r \in Seq(S) /\ Len(s) = Len(p) + Len(r)
      /\ \A i \in 1..Len(p) : s[i] = p[i]
      /\ \A i \in 1..Len(r) : s[Len(p) + i] = r[i]
  OBVIOUS
<1>2. Final(p, f, b) = After(Head(s), f, b)
  <2>1. Final(p, f, b) \in BOOLEAN /\ After(Head(s), f, b) \in BOOLEAN
    BY DEF Final, After
  <2> QED BY <2>1, FinalOne
<1> HIDE DEF p, r
<1>4. Consists(S, s, p, r)
  BY <1>1 DEF Consists
<1>3. Final(s, f, b) <=> Final(r, f, Final(p, f, b))
  BY <1>4, FinalSplit
<1> QED BY <1>2, <1>3 DEF r

-----------------------------------------------------------------------------
(* ---- Where the threads are ---- *)

Stopped == {"stopPush", "stopSignal", "done"}

\* What the control points of the three threads say of each other, of the phase
\* of the client and of the buffers: the strengthening the safety properties need.
ControlInv ==
  /\ mainPc \in {"create", "watched", "failed"} => pollPc = "none"
  /\ mainPc \in {"create", "watched", "failed", "scan", "initialCall"} =>
       recvPc = "none" /\ phase = "none"
  /\ mainPc \in {"scan", "initialCall"} => waitForInitialSync
  /\ mainPc = "startReceiving" =>
       recvPc = "none" /\ phase = (IF waitForInitialSync THEN "watching" ELSE "none")
  /\ recvPc = "none" => mainPc \in {"create", "watched", "failed", "scan",
                                    "initialCall", "startReceiving"}
  /\ recvPc \in {"scan", "initialCall"} => phase = "none"
  /\ recvPc \in {"pop", "call"} => phase = "watching"
  /\ recvPc \in Stopped <=> phase = "invalidated"
  /\ "initialCall" \in {mainPc, recvPc} \/ phase # "none" => toScan = {}
  /\ phase = "none" => view = {}
  /\ found \cap toScan = {}
  /\ mainPc \in {"joinReceiving", "rmWatch", "destroyed"} => pollPc = "done"
  /\ mainPc \in {"rmWatch", "destroyed"} => recvPc = "done"
  /\ pollPc \in {"none", "setup", "wait", "read"} => batch = <<>>

\* ControlInv holds of every reachable state.
LEMMA ControlInvariant == Spec => []ControlInv
<1>1. Init => ControlInv
  BY DEF Init, ControlInv, Stopped
<1>2. TypeOK /\ ControlInv /\ [Next]_vars => ControlInv'
  <2> SUFFICES ASSUME TypeOK, ControlInv, [Next]_vars PROVE ControlInv'
    OBVIOUS
  <2> USE DEF ControlInv, Stopped, kernelVars, scanVars, clientVars, threadVars
  <2>1. ASSUME Kernel PROVE ControlInv'
    <3>1. UNCHANGED <<waitForInitialSync, batch, scanVars, threadVars, clientVars>>
      BY <2>1 DEF Kernel, FileAppears, FileDisappears, DirectoryGoes, Change
    <3> QED BY <3>1
  <2>2. ASSUME Polling PROVE ControlInv'
    <3>1. CASE PollSetup BY <3>1 DEF PollSetup
    <3>2. CASE EpollWait \/ EpollFails BY <3>2 DEF EpollWait, EpollFails
    <3>3. CASE ReadBatch BY <3>3 DEF ReadBatch
    <3>4. CASE ReadFails BY <3>4 DEF ReadFails
    <3>5. CASE HandleEvent
      <4>1. pollPc' \in {"wait", "handle", "stopPush", "badPush"}
        BY <3>5 DEF HandleEvent
      <4>2. pollPc' = "wait" => batch' = <<>>
        BY <3>5 DEF HandleEvent
      <4> QED BY <3>5, <4>1, <4>2 DEF HandleEvent
    <3>6. CASE PollStopPush BY <3>6 DEF PollStopPush
    <3>7. CASE PollStopSignal BY <3>7 DEF PollStopSignal
    <3>8. CASE HitUnreachable BY <3>8 DEF HitUnreachable
    <3> QED BY <2>2, <3>1, <3>2, <3>3, <3>4, <3>5, <3>6, <3>7, <3>8 DEF Polling, PollingWorks
  <2>3. ASSUME Scan PROVE ControlInv'
    <3>1. CASE ScanEntry
      <4>1. found' \cap toScan' = {}
        BY <3>1 DEF ScanEntry
      <4> QED BY <3>1, <4>1 DEF ScanEntry
    <3>2. CASE ScanError BY <3>2 DEF ScanError
    <3>3. CASE CallInitial BY <3>3 DEF CallInitial
    <3>4. CASE InitialCallReturns BY <3>4 DEF InitialCallReturns
    <3> QED BY <2>3, <3>1, <3>2, <3>3, <3>4 DEF Scan
  <2>4. ASSUME Receiving PROVE ControlInv'
    <3>1. CASE PopFront BY <3>1 DEF PopFront
    <3>2. CASE CallReturns BY <3>2 DEF CallReturns
    <3>3. CASE RecvStopPush BY <3>3 DEF RecvStopPush
    <3>4. CASE RecvStopSignal BY <3>4 DEF RecvStopSignal
    <3> QED BY <2>4, <3>1, <3>2, <3>3, <3>4 DEF Receiving
  <2>5. ASSUME Constructor \/ Destroy \/ Destructor PROVE ControlInv'
    <3>1. CASE CreateWatch BY <3>1 DEF CreateWatch
    <3>2. CASE StartPolling BY <3>2 DEF StartPolling
    <3>3. CASE StartReceiving BY <3>3 DEF StartReceiving
    <3>4. CASE Destroy BY <3>4 DEF Destroy
    <3>5. CASE MainStopPush BY <3>5 DEF MainStopPush
    <3>6. CASE MainStopSignal BY <3>6 DEF MainStopSignal
    <3>7. CASE Join BY <3>7 DEF Join
    <3> QED BY <2>5, <3>1, <3>2, <3>3, <3>4, <3>5, <3>6, <3>7 DEF Constructor, Destructor
  <2>6. CASE UNCHANGED vars
    BY <2>6 DEF vars
  <2> QED BY <2>1, <2>2, <2>3, <2>4, <2>5, <2>6 DEF Next
<1> QED BY <1>1, <1>2, TypeCorrect, PTL DEF Spec

\* A destroyed watcher has told its client so, and no thread of it is left.
THEOREM DestructionComplete == Spec => []InvalidatedWhenDestroyed
<1>1. ControlInv => InvalidatedWhenDestroyed
  BY DEF ControlInv, InvalidatedWhenDestroyed, Stopped
<1> QED BY <1>1, ControlInvariant, PTL

\* Each of the two threads, when it stops, has left what stops the other one.
THEOREM StopPropagates == Spec => []StopReachesBoth
<1> DEFINE Pill(q) == \E i \in DOMAIN q : q[i] = Invalidated
<1>1. Init => StopReachesBoth
  BY DEF Init, StopReachesBoth
<1>2. TypeOK /\ ControlInv /\ StopReachesBoth /\ [Next]_vars => StopReachesBoth'
  <2> SUFFICES ASSUME TypeOK, ControlInv, StopReachesBoth, [Next]_vars
               PROVE  StopReachesBoth'
    OBVIOUS
  <2> USE DEF kernelVars, scanVars, clientVars, threadVars
  <2>1. /\ queue \in Seq(Event) /\ Invalidated \in Event
    BY DEF TypeOK, Event, Invalidated
  <2>2. ASSUME NEW e \in Event, queue' = Append(queue, e)
        PROVE  Pill(queue) \/ e = Invalidated => Pill(queue')
    <3>1. /\ DOMAIN queue \subseteq DOMAIN queue'
          /\ \A i \in DOMAIN queue : queue'[i] = queue[i]
          /\ Len(queue) + 1 \in DOMAIN queue' /\ queue'[Len(queue) + 1] = e
      BY <2>1, <2>2
    <3> QED BY <3>1
  <2>3. ASSUME UNCHANGED <<queue, event, pollPc, recvPc, phase, stopPipe>>
        PROVE  StopReachesBoth'
    BY <2>3 DEF StopReachesBoth
  <2>4. ASSUME UNCHANGED <<event, phase>>, recvPc' = recvPc \/ recvPc # "call",
               Pill(queue) => Pill(queue'), Pill(queue') \/ pollPc' = pollPc,
               recvPc' = "done" => stopPipe'
        PROVE  StopReachesBoth'
    BY <2>4 DEF StopReachesBoth
  <2>5. ASSUME Kernel PROVE StopReachesBoth'
    BY <2>3, <2>5 DEF Kernel, FileAppears, FileDisappears, DirectoryGoes, Change
  <2>6. ASSUME Polling PROVE StopReachesBoth'
    <3>1. CASE PollSetup \/ EpollWait \/ EpollFails \/ ReadBatch \/ ReadFails
      BY <3>1 DEF PollSetup, EpollWait, EpollFails, ReadBatch, ReadFails, StopReachesBoth
    <3>2. CASE HandleEvent
      <4>1. Pill(queue) => Pill(queue')
        <5>1. CASE UNCHANGED queue BY <5>1
        <5>2. CASE batch # <<>> /\ queue' = Append(queue, Translate(Head(batch)))
          <6>1. /\ Len(queue) \in Nat /\ DOMAIN queue \subseteq DOMAIN queue'
                /\ \A i \in DOMAIN queue : queue'[i] = queue[i]
            BY <2>1, <5>2
          <6> QED BY <6>1
        <5> QED BY <3>2, <5>1, <5>2 DEF HandleEvent, Push
      <4>2. pollPc' \in {"wait", "handle", "stopPush", "badPush"} /\ pollPc = "handle"
        BY <3>2 DEF HandleEvent
      <4>3. UNCHANGED <<event, phase, recvPc, stopPipe>>
        BY <3>2 DEF HandleEvent
      <4> QED BY <4>1, <4>2, <4>3 DEF StopReachesBoth
    <3>3. CASE PollStopPush
      BY <2>1, <2>2, <3>3 DEF PollStopPush, Push, StopReachesBoth
    <3>4. CASE PollStopSignal \/ HitUnreachable
      BY <3>4 DEF PollStopSignal, HitUnreachable, StopReachesBoth
    <3> QED BY <2>6, <3>1, <3>2, <3>3, <3>4 DEF Polling, PollingWorks
  <2>7. ASSUME Scan PROVE StopReachesBoth'
    BY <2>7 DEF Scan, ScanEntry, ScanError, CallInitial, InitialCallReturns,
                StopReachesBoth, ControlInv, Stopped
  <2>8. ASSUME Receiving PROVE StopReachesBoth'
    <3>1. CASE PopFront
      <4>1. Pill(queue) => Pill(Tail(queue)) \/ Head(queue) = Invalidated
        <5>1. ASSUME NEW i \in DOMAIN queue, queue[i] = Invalidated, i # 1
              PROVE  Pill(Tail(queue))
          <6>1. i - 1 \in DOMAIN Tail(queue) /\ Tail(queue)[i - 1] = queue[i]
            BY <2>1, <5>1
          <6> QED BY <5>1, <6>1
        <5>2. queue # <<>> => Head(queue) = queue[1]
          BY <2>1
        <5> QED BY <3>1, <5>1, <5>2 DEF PopFront
      <4> QED BY <3>1, <4>1 DEF PopFront, StopReachesBoth
    <3>2. CASE CallReturns BY <3>2 DEF CallReturns, StopReachesBoth
    <3>3. CASE RecvStopPush
      BY <2>1, <2>2, <3>3 DEF RecvStopPush, Push, StopReachesBoth
    <3>4. CASE RecvStopSignal BY <3>4 DEF RecvStopSignal, StopReachesBoth
    <3> QED BY <2>8, <3>1, <3>2, <3>3, <3>4 DEF Receiving
  <2>9. ASSUME Constructor \/ Destroy \/ Destructor PROVE StopReachesBoth'
    <3>1. CASE CreateWatch \/ Destroy \/ MainStopSignal \/ Join
      BY <3>1 DEF CreateWatch, Destroy, MainStopSignal, Join, StopReachesBoth
    <3>2. CASE StartPolling
      BY <3>2 DEF StartPolling, StopReachesBoth
    <3>3. CASE StartReceiving
      BY <3>3 DEF StartReceiving, StopReachesBoth, ControlInv
    <3>4. CASE MainStopPush
      BY <2>1, <2>2, <3>4 DEF MainStopPush, Push, StopReachesBoth
    <3> QED BY <2>9, <3>1, <3>2, <3>3, <3>4 DEF Constructor, Destructor
  <2>10. CASE UNCHANGED vars
    BY <2>3, <2>10 DEF vars
  <2> QED BY <2>5, <2>6, <2>7, <2>8, <2>9, <2>10 DEF Next
<1> QED BY <1>1, <1>2, TypeCorrect, ControlInvariant, PTL DEF Spec

-----------------------------------------------------------------------------
(* ---- The contract of the Receiver ---- *)

\* Every behaviour of the watcher is one the class comment promises the Receiver.
THEOREM ContractKept == Spec => KeepsContract
<1>1. Init => Contract!ContractInit
  BY DEF Init, Contract!ContractInit, Calls
<1>2. TypeOK /\ ControlInv /\ [Next]_vars
        => [Contract!ContractNext]_Contract!contractVars
  <2> SUFFICES ASSUME TypeOK, ControlInv, [Next]_vars
               PROVE  [Contract!ContractNext]_Contract!contractVars
    OBVIOUS
  <2> USE DEF kernelVars, scanVars, clientVars, threadVars
  <2>1. ASSUME UNCHANGED <<phase, view>>, Calls' = Calls
        PROVE  UNCHANGED Contract!contractVars
    BY <2>1 DEF Contract!contractVars
  <2>2. ASSUME Kernel PROVE UNCHANGED Contract!contractVars
    <3>1. UNCHANGED <<mainPc, recvPc, phase, view>>
      BY <2>2 DEF Kernel, FileAppears, FileDisappears, DirectoryGoes, Change
    <3> QED BY <2>1, <3>1 DEF Calls
  <2>3. ASSUME Polling PROVE UNCHANGED Contract!contractVars
    <3>1. UNCHANGED <<mainPc, recvPc, phase, view>>
      BY <2>3 DEF Polling, PollingWorks, PollSetup, EpollWait, EpollFails, ReadBatch, ReadFails, HandleEvent,
                  PollStopPush, PollStopSignal, HitUnreachable
    <3> QED BY <2>1, <3>1 DEF Calls
  <2>4. CASE ScanEntry \/ ScanError
    BY <2>1, <2>4 DEF ScanEntry, ScanError, Calls
  <2>5. CASE CallInitial
    <3>1. Calls = {} /\ phase = "none"
      BY <2>5 DEF CallInitial, Calls, ControlInv
    <3>2. \E t \in {"main", "receiving"} : Calls' = {t}
      BY <2>5 DEF CallInitial, Calls, ControlInv
    <3>3. Contract!BeginCall
      BY <2>5, <3>1, <3>2 DEF CallInitial, Contract!BeginCall
    <3> QED BY <3>3 DEF Contract!ContractNext
  <2>6. CASE InitialCallReturns
    <3>1. phase = "none" /\ Calls # {} /\ Calls' = {}
      BY <2>6 DEF InitialCallReturns, Calls, ControlInv
    <3>2. view' \subseteq Files
      BY <2>6 DEF InitialCallReturns, TypeOK
    <3>3. Contract!EndInitialCall
      BY <2>6, <3>1, <3>2 DEF InitialCallReturns, Contract!EndInitialCall
    <3> QED BY <3>3 DEF Contract!ContractNext
  <2>7. CASE PopFront
    <3>1. Calls = {} /\ Calls' = {"receiving"} /\ phase = "watching"
      BY <2>7 DEF PopFront, Calls, ControlInv
    <3>2. Contract!BeginCall
      BY <2>7, <3>1 DEF PopFront, Contract!BeginCall
    <3> QED BY <3>2 DEF Contract!ContractNext
  <2>8. CASE CallReturns
    <3>1. Calls # {} /\ Calls' = {} /\ phase = "watching"
      <4>1. /\ recvPc = "call" /\ recvPc' \in {"pop", "stopPush"} /\ mainPc' = mainPc
            /\ mainPc # "initialCall" /\ phase = "watching"
        BY <2>8 DEF CallReturns, ControlInv
      <4> QED BY <4>1 DEF Calls
    <3>2. CASE event = Invalidated
      <4>1. Contract!EndInvalidatedCall
        <5>1. view' = view /\ phase' = "invalidated"
          BY <2>8, <3>2, WatcherAssumption DEF CallReturns, Invalidated, TypeOK
        <5> QED BY <3>1, <5>1 DEF Contract!EndInvalidatedCall
      <4> QED BY <4>1 DEF Contract!ContractNext
    <3>3. CASE event # Invalidated
      <4>1. view' \in {view} \cup {view \cup {f} : f \in Files} \cup {view \ {f} : f \in Files}
        <5>1. event.name \in Files \/ (event.name = NoFile /\ event.kind # "Modified")
          BY DEF TypeOK, Event
        <5>2. view \ {NoFile} = view
          BY WatcherAssumption DEF TypeOK
        <5>3. view' = view \cup {event.name} \/ view' = view \ {event.name}
          BY <2>8 DEF CallReturns
        <5>4. view' = view \cup {event.name} => event.name \in Files \/ view' = view
          BY <2>8, <5>1, <5>2 DEF CallReturns
        <5> QED BY <5>1, <5>2, <5>3, <5>4
      <4>2. Contract!EndChangeCall
        BY <2>8, <3>1, <3>3, <4>1 DEF CallReturns, Contract!EndChangeCall
      <4> QED BY <4>2 DEF Contract!ContractNext
    <3> QED BY <3>2, <3>3
  <2>9. CASE RecvStopPush \/ RecvStopSignal
    BY <2>1, <2>9 DEF RecvStopPush, RecvStopSignal, Calls
  <2>10. CASE Constructor \/ Destroy \/ Destructor
    BY <2>1, <2>10 DEF Constructor, Destructor, CreateWatch, StartPolling,
       StartReceiving, Destroy, MainStopPush, MainStopSignal, Join, Calls, ControlInv
  <2>11. CASE UNCHANGED vars
    BY <2>1, <2>11 DEF vars, Calls
  <2> QED BY <2>2, <2>3, <2>4, <2>5, <2>6, <2>7, <2>8, <2>9, <2>10, <2>11
          DEF Next, Scan, Receiving
<1> QED BY <1>1, <1>2, TypeCorrect, ControlInvariant, PTL
        DEF Spec, KeepsContract, Contract!ContractSpec

-----------------------------------------------------------------------------
(* ---- Nothing is lost ---- *)

LEMMA FinalBoolean ==
  ASSUME NEW s, NEW f, NEW b PROVE Final(s, f, b) \in BOOLEAN
  BY DEF Final

\* The hypotheses of NothingLost: once one of them fails, it fails for ever.
Sound == phase # "invalidated" /\ dirExists /\ ~overflowed /\ ~scanFailed

\* What the client will know of f, seen from each of the places events wait in.
AfterScan(f)  == Final(InHand, f, Base(f))
AfterQueue(f) == Final(queue, f, AfterScan(f))
AfterBatch(f) == Final(batch, f, AfterQueue(f))

LEMMA Layers ==
  ASSUME NEW f
  PROVE  /\ WillShow(f) <=> Final(inotify, f, AfterBatch(f))
         /\ AfterScan(f) \in BOOLEAN /\ AfterQueue(f) \in BOOLEAN
         /\ AfterBatch(f) \in BOOLEAN
  BY FinalBoolean DEF WillShow, AfterBatch, AfterQueue, AfterScan

\* No event of the three queues and no entry of the scan is lost or reordered.
THEOREM NothingIsLost == Spec => []NothingLost
<1> USE DEF kernelVars, scanVars, clientVars, threadVars
<1>1. Init => NothingLost
  BY DEF Init, NothingLost, WillShow, Final, InHand, Base
<1>2. TypeOK /\ ControlInv /\ NothingLost /\ [Next]_vars => NothingLost'
  <2> SUFFICES ASSUME TypeOK, ControlInv, NothingLost, [Next]_vars, Sound',
                      NEW f \in Files
               PROVE  WillShow(f)' <=> f \in files'
    BY DEF NothingLost, Sound
  <2>1. Sound
    <3>1. (dirExists' => dirExists) /\ (overflowed => overflowed')
      <4>1. CASE Kernel
        BY <4>1 DEF TypeOK, Kernel, FileAppears, FileDisappears, DirectoryGoes, Change
      <4>2. CASE ~Kernel
        BY <4>2 DEF Next, Polling, PollingWorks, PollSetup, EpollWait, EpollFails, ReadBatch, ReadFails, HandleEvent,
           PollStopPush, PollStopSignal, HitUnreachable, Scan, ScanEntry, ScanError,
           CallInitial, InitialCallReturns, Receiving, PopFront, CallReturns, RecvStopPush,
           RecvStopSignal, Constructor, CreateWatch, StartPolling, StartReceiving, Destroy,
           Destructor, MainStopPush, MainStopSignal, Join, vars
      <4> QED BY <4>1, <4>2
    <3>2. (scanFailed => scanFailed') /\ (phase = "invalidated" => phase' = "invalidated")
      <4>1. CASE Kernel
        <5>1. UNCHANGED <<scanVars, clientVars>>
          BY <4>1 DEF Kernel, FileAppears, FileDisappears, DirectoryGoes, Change
        <5> QED BY <5>1
      <4>2. CASE Scan
        BY <4>2 DEF ControlInv, Stopped, Scan, ScanEntry, ScanError, CallInitial,
           InitialCallReturns
      <4>3. CASE Receiving
        BY <4>3 DEF ControlInv, Stopped, Receiving, PopFront, CallReturns, RecvStopPush,
           RecvStopSignal
      <4>4. CASE Polling
        BY <4>4 DEF Polling, PollingWorks, PollSetup, EpollWait, EpollFails, ReadBatch, ReadFails, HandleEvent,
           PollStopPush, PollStopSignal, HitUnreachable
      <4>5. CASE Constructor \/ Destroy \/ Destructor \/ UNCHANGED vars
        BY <4>5 DEF Constructor, CreateWatch, StartPolling, StartReceiving, Destroy,
           Destructor, MainStopPush, MainStopSignal, Join, vars
      <4> QED BY <4>1, <4>2, <4>3, <4>4, <4>5 DEF Next
    <3> QED BY <3>1, <3>2 DEF Sound
  <2>2. WillShow(f) <=> f \in files
    BY <2>1 DEF NothingLost, Sound
  <2>3. f # NoFile
    BY WatcherAssumption
  <2>4. ASSUME UNCHANGED <<files, inotify, batch, queue, InHand, Base(f)>>
        PROVE  WillShow(f)' <=> f \in files'
    BY <2>2, <2>4 DEF WillShow
  <2>5. \* One more event for the receiving thread that is not about a file.
        ASSUME NEW e \in Event, queue' = Append(queue, e), e.name = NoFile
        PROVE  \A b \in BOOLEAN : Final(queue', f, b) = Final(queue, f, b)
    <3>1. ASSUME NEW b \in BOOLEAN PROVE Final(queue', f, b) <=> Final(queue, f, b)
      BY <2>3, <2>5, <3>1, FinalAppend, FinalBoolean DEF After, TypeOK
    <3> QED BY <3>1, FinalBoolean
  <2>6. ASSUME queue' = Append(queue, Invalidated),
               UNCHANGED <<files, inotify, batch, InHand, Base(f)>>
        PROVE  WillShow(f)' <=> f \in files'
    <3>1. Invalidated \in Event /\ Invalidated.name = NoFile
      BY DEF Invalidated, Event
    <3>2. AfterScan(f)' = AfterScan(f)
      BY <2>6 DEF AfterScan
    <3>3. AfterQueue(f)' = AfterQueue(f)
      BY <2>5, <2>6, <3>1, <3>2, Layers DEF AfterQueue
    <3>4. AfterBatch(f)' = AfterBatch(f)
      BY <2>6, <3>3 DEF AfterBatch
    <3> QED BY <2>2, <2>6, <3>4 DEF WillShow, AfterBatch, AfterQueue, AfterScan
  <2>7. CASE Kernel
    <3>1. ~DirectoryGoes
      BY DEF DirectoryGoes, Sound
    <3>2. PICK g \in Files : FileAppears(g) \/ FileDisappears(g)
      BY <2>7, <3>1 DEF Kernel
    <3>3. PICK m \in PresentMasks \cup AbsentMasks :
            /\ Change([kind |-> m, name |-> g])
            /\ m \in PresentMasks => files' = files \cup {g}
            /\ m \in AbsentMasks => files' = files \ {g}
      BY <3>2 DEF FileAppears, FileDisappears, PresentMasks, AbsentMasks
    <3> DEFINE e == [kind |-> m, name |-> g]
    <3>4. e \in InotifyEvent /\ e.name = g /\ (Shows(e) <=> m \in PresentMasks)
      BY DEF InotifyEvent, Shows, PresentMasks, AbsentMasks
    <3>5. /\ inotify' = IF LastIs(inotify, e) THEN inotify ELSE Append(inotify, e)
          /\ UNCHANGED <<batch, queue, event, toScan, found, recvPc, phase, view>>
      BY <3>3 DEF Change, Enqueue, Full, Sound
    <3> HIDE DEF e
    <3>6. CASE f = g
      <4>1. f \in files' <=> Shows(e)
        BY <3>3, <3>4, <3>6 DEF PresentMasks, AbsentMasks
      <4>2. ASSUME NEW b \in BOOLEAN PROVE Final(inotify', f, b) <=> Shows(e)
        <5>1. CASE LastIs(inotify, e)
          <6>1. inotify' = inotify /\ inotify[Len(inotify)] = e /\ Len(inotify) \in DOMAIN inotify
                /\ \A i \in DOMAIN inotify : ~(i > Len(inotify)) /\ (i # Len(inotify) => Len(inotify) > i)
            BY <3>5, <5>1 DEF LastIs, TypeOK
          <6> QED BY <3>4, <3>6, <6>1 DEF Final
        <5>2. CASE ~LastIs(inotify, e)
          BY <3>4, <3>5, <3>6, <4>2, <5>2, FinalAppend DEF TypeOK, After
        <5> QED BY <5>1, <5>2
      <4> QED BY <4>1, <4>2, FinalBoolean DEF WillShow
    <3>7. CASE f # g
      <4>1. UNCHANGED AfterBatch(f) /\ AfterBatch(f) \in BOOLEAN
        <5>1. UNCHANGED <<InHand, Base(f)>>
          BY <3>3, <3>5, <3>7 DEF InHand, Base, PresentMasks, AbsentMasks
        <5> QED BY <3>5, <5>1, FinalBoolean DEF AfterBatch, AfterQueue, AfterScan
      <4>2. Final(inotify', f, AfterBatch(f)) <=> Final(inotify, f, AfterBatch(f))
        BY <3>4, <3>5, <3>7, <4>1, FinalAppend DEF TypeOK, After
      <4>3. f \in files' <=> f \in files
        BY <3>3, <3>7 DEF PresentMasks, AbsentMasks
      <4> QED BY <2>2, <4>1, <4>2, <4>3 DEF WillShow, AfterBatch, AfterQueue, AfterScan
    <3> QED BY <3>6, <3>7
  <2>8. CASE ReadBatch
    <3> DEFINE n == IF Len(inotify) < ReadLimit THEN Len(inotify) ELSE ReadLimit
    <3>1. /\ batch = <<>> /\ batch' = SubSeq(inotify, 1, n)
          /\ inotify' = SubSeq(inotify, n + 1, Len(inotify))
          /\ UNCHANGED <<files, queue, event, toScan, found, recvPc, phase, view>>
      BY <2>8 DEF ReadBatch, ControlInv
    <3>2. n \in 0..Len(inotify)
      BY WatcherAssumption DEF TypeOK
    <3> HIDE DEF n
    <3>3. /\ batch' \in Seq(InotifyEvent) /\ inotify' \in Seq(InotifyEvent)
          /\ Len(inotify) = Len(batch') + Len(inotify')
          /\ \A i \in 1..Len(batch') : inotify[i] = batch'[i]
          /\ \A i \in 1..Len(inotify') : inotify[Len(batch') + i] = inotify'[i]
      <4>1. inotify \in Seq(InotifyEvent) /\ Len(inotify) \in Nat /\ n \in Nat /\ n <= Len(inotify)
        BY <3>2 DEF TypeOK
      <4>2. /\ batch' \in Seq(InotifyEvent) /\ Len(batch') = n
            /\ \A i \in 1..n : batch'[i] = inotify[i]
        BY <3>1, <4>1
      <4>3. /\ inotify' \in Seq(InotifyEvent) /\ Len(inotify') = Len(inotify) - n
            /\ \A i \in 1..(Len(inotify) - n) : inotify'[i] = inotify[n + i]
        BY <3>1, <4>1
      <4>4. Len(inotify) = n + (Len(inotify) - n)
        BY <4>1
      <4> HIDE DEF n
      <4> QED BY <4>2, <4>3, <4>4
    <3>4. UNCHANGED AfterQueue(f) /\ AfterQueue(f) \in BOOLEAN /\ AfterBatch(f) = AfterQueue(f)
      <4>1. UNCHANGED AfterQueue(f)
        BY <3>1 DEF AfterQueue, AfterScan, InHand, Base
      <4>2. AfterBatch(f) <=> AfterQueue(f)
        BY <3>1, Layers, FinalEmpty DEF AfterBatch
      <4> QED BY <4>1, <4>2, Layers
    <3>5. Final(inotify, f, AfterQueue(f)) <=> Final(inotify', f, Final(batch', f, AfterQueue(f)))
      <4> DEFINE s == inotify
                 p == batch'
                 r == inotify'
                 b == AfterQueue(f)
      <4>1. /\ s \in Seq(InotifyEvent) /\ p \in Seq(InotifyEvent) /\ r \in Seq(InotifyEvent)
            /\ Len(s) = Len(p) + Len(r)
            /\ \A i \in 1..Len(p) : s[i] = p[i]
            /\ \A i \in 1..Len(r) : s[Len(p) + i] = r[i]
            /\ b \in BOOLEAN
        BY <3>3, <3>4 DEF TypeOK
      <4> HIDE DEF s, p, r, b
      <4>3. Consists(InotifyEvent, s, p, r)
        BY <4>1 DEF Consists
      <4>2. Final(s, f, b) <=> Final(r, f, Final(p, f, b))
        BY <4>1, <4>3, FinalSplit
      <4> QED BY <4>2 DEF s, p, r, b
    <3> QED BY <2>2, <3>1, <3>4, <3>5, Layers
            DEF WillShow, AfterBatch, AfterQueue, AfterScan
  <2>9. CASE HandleEvent
    <3>1. UNCHANGED <<files, inotify, event, toScan, found, recvPc, phase, view>>
      BY <2>9 DEF HandleEvent
    <3>2. UNCHANGED <<AfterScan(f), InHand, Base(f)>> /\ AfterScan(f) \in BOOLEAN
      BY <3>1, Layers DEF AfterScan, InHand, Base
    <3>3. CASE batch = <<>>
      BY <2>4, <2>9, <3>1, <3>2, <3>3 DEF HandleEvent
    <3>4. CASE batch # <<>>
      <4> DEFINE e == Head(batch)
      <4>1. /\ batch \in Seq(InotifyEvent) /\ e \in InotifyEvent /\ queue \in Seq(Event)
            /\ batch' = Tail(batch)
            /\ queue' = IF e.kind \in PresentMasks \cup AbsentMasks \cup SelfMasks
                        THEN Append(queue, Translate(e)) ELSE queue
        BY <2>9, <3>4 DEF HandleEvent, Push, TypeOK
      <4> HIDE DEF e
      <4>2. AfterQueue(f)' <=> After(e, f, AfterQueue(f))
        <5>1. CASE e.kind \in PresentMasks \cup AbsentMasks \cup SelfMasks
          <6>1. Translate(e) \in Event /\ Translate(e).name = e.name
            BY <4>1, <5>1, TranslateType DEF Translate
          <6>2. e.name = f => (Shows(Translate(e)) <=> Shows(e))
            <7>1. e.name = f => e.kind \in PresentMasks \cup AbsentMasks
              BY <2>3, <4>1 DEF InotifyEvent
            <7> QED BY <7>1 DEF Translate, Shows, PresentMasks, AbsentMasks
          <6>3. Final(queue', f, AfterScan(f)) <=> After(Translate(e), f, Final(queue, f, AfterScan(f)))
            BY <3>2, <4>1, <5>1, <6>1, FinalAppend
          <6> QED BY <3>2, <6>1, <6>2, <6>3 DEF AfterQueue, After
        <5>2. CASE e.kind \notin PresentMasks \cup AbsentMasks \cup SelfMasks
          <6>1. e.name # f
            BY <2>3, <4>1, <5>2 DEF InotifyEvent
          <6> QED BY <3>2, <4>1, <5>2, <6>1 DEF AfterQueue, After
        <5> QED BY <5>1, <5>2
      <4>3. Final(batch, f, AfterQueue(f)) <=> Final(Tail(batch), f, After(e, f, AfterQueue(f)))
        BY <3>4, <4>1, FinalHead, Layers DEF e
      <4>4. AfterQueue(f)' = After(e, f, AfterQueue(f))
        <5>1. AfterQueue(f)' \in BOOLEAN
          BY FinalBoolean DEF AfterQueue
        <5>2. After(e, f, AfterQueue(f)) \in BOOLEAN
          BY DEF After
        <5> QED BY <4>2, <5>1, <5>2
      <4>5. AfterBatch(f)' = AfterBatch(f)
        <5>1. AfterBatch(f)' <=> AfterBatch(f)
          BY <4>1, <4>3, <4>4 DEF AfterBatch
        <5>2. AfterBatch(f)' \in BOOLEAN /\ AfterBatch(f) \in BOOLEAN
          BY FinalBoolean DEF AfterBatch
        <5> QED BY <5>1, <5>2
      <4> QED BY <2>2, <3>1, <4>5 DEF WillShow, AfterBatch, AfterQueue, AfterScan
    <3> QED BY <3>3, <3>4
  <2>10. CASE PollSetup \/ EpollWait \/ EpollFails \/ ReadFails \/ PollStopSignal \/ HitUnreachable
    BY <2>4, <2>10 DEF PollSetup, EpollWait, EpollFails, ReadFails, PollStopSignal, HitUnreachable,
                       InHand, Base
  <2>11. CASE PollStopPush
    BY <2>6, <2>11 DEF PollStopPush, Push, InHand, Base
  <2>12. CASE ScanEntry
    <3>1. /\ UNCHANGED <<files, inotify, batch, queue, event, recvPc, phase, view>>
          /\ phase = "none"
      BY <2>12 DEF ScanEntry, ControlInv
    <3>2. Base(f)' <=> Base(f)
      BY <2>12, <3>1 DEF ScanEntry, Base, ControlInv
    <3>3. Base(f)' = Base(f)
      BY <3>2 DEF Base
    <3> QED BY <2>4, <3>1, <3>3 DEF InHand
  <2>13. CASE ScanError
    BY <2>13 DEF ScanError, Sound
  <2>14. CASE CallInitial
    BY <2>4, <2>14 DEF CallInitial, InHand, Base, ControlInv
  <2>15. CASE InitialCallReturns
    <3>1. /\ UNCHANGED <<files, inotify, batch, queue, InHand>>
          /\ toScan = {} /\ toScan' = {} /\ phase = "none" /\ phase' = "watching"
          /\ view = {} /\ view' = found /\ found' = found
      BY <2>15 DEF InitialCallReturns, InHand, ControlInv
    <3>2. Base(f)' = Base(f)
      BY <3>1 DEF Base
    <3> QED BY <2>4, <3>1, <3>2
  <2>16. CASE PopFront
    <3>1. /\ queue \in Seq(Event) /\ queue # <<>> /\ queue' = Tail(queue)
          /\ InHand = <<>> /\ InHand' = <<Head(queue)>>
          /\ UNCHANGED <<files, inotify, batch, toScan, found, phase, view>>
      BY <2>16 DEF PopFront, InHand, TypeOK
    <3>2. Base(f)' = Base(f) /\ Base(f) \in BOOLEAN
      BY <3>1 DEF Base
    <3>3. AfterScan(f) = Base(f)
      BY <3>1, <3>2, FinalEmpty, FinalBoolean DEF AfterScan
    <3>4. AfterScan(f)' = After(Head(queue), f, Base(f))
      <4>1. AfterScan(f)' <=> After(Head(queue), f, Base(f))
        BY <3>1, <3>2, FinalOne DEF AfterScan
      <4>2. AfterScan(f)' \in BOOLEAN /\ After(Head(queue), f, Base(f)) \in BOOLEAN
        BY FinalBoolean DEF AfterScan, After
      <4> QED BY <4>1, <4>2
    <3>5. AfterQueue(f)' = AfterQueue(f)
      <4>1. Final(queue, f, Base(f)) <=> Final(Tail(queue), f, After(Head(queue), f, Base(f)))
        BY <3>1, <3>2, FinalHead
      <4>2. AfterQueue(f)' <=> AfterQueue(f)
        BY <3>1, <3>3, <3>4, <4>1 DEF AfterQueue
      <4>3. AfterQueue(f)' \in BOOLEAN /\ AfterQueue(f) \in BOOLEAN
        BY FinalBoolean DEF AfterQueue
      <4> QED BY <4>2, <4>3
    <3> QED BY <2>2, <3>1, <3>5 DEF WillShow, AfterQueue, AfterScan
  <2>17. CASE CallReturns
    <3>1. /\ event # Invalidated /\ toScan = {} /\ toScan' = {} /\ phase = "watching"
          /\ phase' = "watching" /\ InHand = <<event>> /\ InHand' = <<>>
          /\ UNCHANGED <<files, inotify, batch, queue>>
      BY <2>17 DEF CallReturns, InHand, ControlInv, Sound
    <3>2. view' = IF event.kind = "Modified" THEN view \cup {event.name}
                  ELSE view \ {event.name}
      BY <2>17 DEF CallReturns
    <3>3. event.name = f => (Shows(event) <=> event.kind = "Modified")
      BY <2>3 DEF TypeOK, Event, Shows, PresentMasks
    <3>4. f \in view' <=> (event.name = f /\ Shows(event)) \/ (event.name # f /\ f \in view)
      BY <3>2, <3>3
    <3>5. AfterScan(f)' <=> f \in view'
      <4> DEFINE b == Base(f)'
      <4>1. b \in BOOLEAN /\ (b <=> f \in view')
        BY <3>1 DEF Base
      <4>2. AfterScan(f)' <=> Final(<<>>, f, b)
        BY <3>1 DEF AfterScan
      <4> HIDE DEF b
      <4> QED BY <4>1, <4>2, FinalEmpty
    <3>6. AfterScan(f) <=> (event.name = f /\ Shows(event)) \/ (event.name # f /\ f \in view)
      <4> DEFINE b == Base(f)
      <4>1. b \in BOOLEAN /\ (b <=> f \in view)
        BY <3>1 DEF Base
      <4>2. AfterScan(f) <=> Final(<<event>>, f, b)
        BY <3>1 DEF AfterScan
      <4> HIDE DEF b
      <4> QED BY <4>1, <4>2, FinalOne DEF After
    <3>7. AfterScan(f)' = AfterScan(f)
      <4>1. AfterScan(f)' \in BOOLEAN /\ AfterScan(f) \in BOOLEAN
        BY FinalBoolean DEF AfterScan
      <4> QED BY <3>4, <3>5, <3>6, <4>1
    <3> QED BY <2>2, <3>1, <3>7 DEF WillShow, AfterScan
  <2>18. CASE RecvStopPush
    BY <2>6, <2>18 DEF RecvStopPush, Push, InHand, Base
  <2>19. CASE RecvStopSignal
    BY <2>4, <2>19 DEF RecvStopSignal, InHand, Base
  <2>20. CASE CreateWatch \/ StartPolling \/ Destroy \/ MainStopSignal \/ Join
    BY <2>4, <2>20 DEF CreateWatch, StartPolling, Destroy, MainStopSignal, Join, InHand, Base
  <2>21. CASE StartReceiving
    BY <2>4, <2>21 DEF StartReceiving, InHand, Base, ControlInv
  <2>22. CASE MainStopPush
    BY <2>6, <2>22 DEF MainStopPush, Push, InHand, Base
  <2>23. CASE UNCHANGED vars
    BY <2>4, <2>23 DEF vars, InHand, Base
  <2> QED BY <2>7, <2>8, <2>9, <2>10, <2>11, <2>12, <2>13, <2>14, <2>15, <2>16, <2>17,
             <2>18, <2>19, <2>20, <2>21, <2>22, <2>23
          DEF Next, Polling, PollingWorks, Scan, Receiving, Constructor, Destructor
<1> QED BY <1>1, <1>2, TypeCorrect, ControlInvariant, PTL DEF Spec

\* A client to which everything has been delivered has an exact mirror.
THEOREM MirrorExact == Spec => []MirrorIsExact
<1>1. TypeOK /\ ControlInv /\ NothingLost => MirrorIsExact
  <2> SUFFICES ASSUME TypeOK, ControlInv, NothingLost, phase = "watching", Sound,
                      inotify = <<>>, batch = <<>>, queue = <<>>, recvPc # "call",
                      NEW f \in Files
               PROVE  f \in view <=> f \in files
    BY DEF MirrorIsExact, Sound, TypeOK
  <2> DEFINE b == Base(f)
  <2>1. InHand = <<>> /\ b \in BOOLEAN /\ (b <=> f \in view)
    BY DEF Base, InHand, ControlInv
  <2>2. WillShow(f) <=> Final(<<>>, f, Final(<<>>, f, Final(<<>>, f, Final(<<>>, f, b))))
    BY <2>1 DEF WillShow
  <2> HIDE DEF b
  <2>3. Final(<<>>, f, b) = b
    BY <2>1, FinalEmpty, FinalBoolean
  <2>4. WillShow(f) <=> f \in view
    BY <2>1, <2>2, <2>3
  <2> QED BY <2>4 DEF NothingLost, Sound
<1> QED BY <1>1, TypeCorrect, ControlInvariant, NothingIsLost, PTL
=============================================================================
