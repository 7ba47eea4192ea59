-------------------------- MODULE DirectoryWatcher --------------------------
(***************************************************************************)
(* latino::DirectoryWatcher on Linux (lib/DirectoryWatcher).  Three threads *)
(* work on one watcher: the client's (which creates and destroys it), the   *)
(* inotify polling thread and the events receiving thread.  The kernel's    *)
(* side (the directory and its inotify queue) is external and is modelled   *)
(* from the calls and the masks the code uses.                              *)
(***************************************************************************)
EXTENDS Naturals, Sequences

CONSTANTS
  Files,             \* the names a directory entry may have
  NoFile,            \* the empty name: the event is about the directory itself
  ReadLimit,         \* inotify events that fit in InotifyPollingLoop's Buf
  MaxQueuedEvents,   \* the kernel's limit on unread inotify events
  MaxChanges         \* bound: changes made to the directory in a behaviour

ASSUME WatcherAssumption ==
  /\ NoFile \notin Files
  /\ ReadLimit \in Nat \ {0}
  /\ MaxQueuedEvents \in Nat \ {0}
  /\ MaxChanges \in Nat

VARIABLES
  \* The directory and the kernel.
  files,             \* names present at WatchedDirPath
  dirExists,         \* WatchedDirPath still is the watched directory
  changes,           \* changes made so far (bounded by MaxChanges)
  inotify,           \* unread inotify events, oldest first
  overflowed,        \* the kernel has dropped an event
  \* The watcher object.
  waitForInitialSync, \* constructor argument
  stopPipe,          \* InotifyPollingStopSignal.FDRead is readable
  queue,             \* EventQueue::Events
  batch,             \* events read into Buf and not handled yet
  event,             \* the event popped by EventReceivingLoop
  toScan,            \* names InitialScan has not looked at yet
  found,             \* names InitialScan has found
  scanFailed,        \* the directory iterator stopped with an error
  \* Where each thread is.
  mainPc, pollPc, recvPc,
  \* The client behind Receiver.
  phase, view

kernelVars == <<files, dirExists, changes, inotify, overflowed>>
scanVars   == <<toScan, found, scanFailed>>
clientVars == <<phase, view>>
threadVars == <<mainPc, pollPc, recvPc>>
vars == <<kernelVars, waitForInitialSync, stopPipe, queue, batch, event,
          scanVars, threadVars, clientVars>>

Names == Files \cup {NoFile}

PresentMasks == {"IN_CREATE", "IN_MOVED_TO", "IN_MODIFY"}
AbsentMasks  == {"IN_DELETE", "IN_MOVED_FROM"}
SelfMasks    == {"IN_DELETE_SELF", "IN_MOVE_SELF"}
InotifyEvent ==
  [kind : PresentMasks \cup AbsentMasks, name : Files] \cup
  [kind : SelfMasks \cup {"IN_UNMOUNT", "IN_Q_OVERFLOW"}, name : {NoFile}]

\* DirectoryWatcher::Event.
Event == [kind : {"Modified", "Removed"}, name : Files] \cup
         [kind : {"WatchedDirRemoved", "WatcherGotInvalidated"},
          name : {NoFile}]
Invalidated == [kind |-> "WatcherGotInvalidated", name |-> NoFile]

MainPcs == {"create", "watched", "failed", "scan", "initialCall", "startReceiving",
            "running", "stopPush", "stopSignal", "joinPolling", "joinReceiving",
            "rmWatch", "destroyed"}
PollPcs == {"none", "setup", "wait", "read", "handle", "stopPush", "stopSignal",
            "badPush", "badSignal", "unreachable", "done", "aborted"}
RecvPcs == {"none", "scan", "initialCall", "pop", "call", "stopPush",
            "stopSignal", "done"}

TypeOK ==
  /\ files \subseteq Files /\ dirExists \in BOOLEAN /\ changes \in 0..MaxChanges
  /\ inotify \in Seq(InotifyEvent) /\ overflowed \in BOOLEAN
  /\ waitForInitialSync \in BOOLEAN /\ stopPipe \in BOOLEAN
  /\ queue \in Seq(Event) /\ batch \in Seq(InotifyEvent) /\ event \in Event
  /\ toScan \subseteq Files /\ found \subseteq Files /\ scanFailed \in BOOLEAN
  /\ mainPc \in MainPcs /\ pollPc \in PollPcs /\ recvPc \in RecvPcs
  /\ phase \in {"none", "watching", "invalidated"} /\ view \subseteq Files

Init ==
  /\ files \in SUBSET Files /\ dirExists = TRUE /\ changes = 0
  /\ inotify = <<>> /\ overflowed = FALSE
  /\ waitForInitialSync \in BOOLEAN
  /\ stopPipe = FALSE /\ queue = <<>> /\ batch = <<>> /\ event = Invalidated
  /\ toScan = Files /\ found = {} /\ scanFailed = FALSE
  /\ mainPc = "create" /\ pollPc = "none" /\ recvPc = "none"
  /\ phase = "none" /\ view = {}

-----------------------------------------------------------------------------
(* The kernel and the programs that change the directory. *)

\* The watch exists from inotify_add_watch to inotify_rm_watch.
Watching == mainPc \notin {"create", "failed", "destroyed"}

\* The kernel merges an event with an identical unread last one, and past its
\* limit replaces what it cannot store by a single IN_Q_OVERFLOW.
LastIs(q, e) == q # <<>> /\ q[Len(q)] = e
Overflow  == [kind |-> "IN_Q_OVERFLOW", name |-> NoFile]
Full(q, e) == ~LastIs(q, e) /\ Len(q) >= MaxQueuedEvents
Enqueue(q, e) ==
  IF LastIs(q, e) \/ (Full(q, e) /\ LastIs(q, Overflow)) THEN q
  ELSE Append(q, IF Full(q, e) THEN Overflow ELSE e)

Change(e) ==
  /\ Watching /\ dirExists /\ changes < MaxChanges
  /\ changes' = changes + 1
  /\ inotify' = Enqueue(inotify, e)
  /\ overflowed' = (overflowed \/ Full(inotify, e))
  /\ UNCHANGED <<waitForInitialSync, stopPipe, queue, batch, event, scanVars,
                 threadVars, clientVars>>

\* creat, write, rename into (perhaps over an existing name).  The watch asks
\* for IN_EXCL_UNLINK, so that writes to an unlinked file are not reported.
FileAppears(f) ==
  /\ \E m \in PresentMasks :
       /\ (m = "IN_CREATE" => f \notin files) /\ (m = "IN_MODIFY" => f \in files)
       /\ Change([kind |-> m, name |-> f])
  /\ files' = files \cup {f} /\ UNCHANGED dirExists

\* unlink, rename away.
FileDisappears(f) ==
  /\ f \in files
  /\ \E m \in AbsentMasks : Change([kind |-> m, name |-> f])
  /\ files' = files \ {f} /\ UNCHANGED dirExists

\* The watched directory is removed (once empty), renamed or unmounted: the path
\* no longer names it.  (After the first event of these the polling loop returns;
\* the IN_IGNORED that follows a removal or an unmount is never read.)
DirectoryGoes ==
  /\ \E m \in SelfMasks \cup {"IN_UNMOUNT"} :
       /\ m = "IN_DELETE_SELF" => files = {}
       /\ Change([kind |-> m, name |-> NoFile])
  /\ files' = {} /\ dirExists' = FALSE

Kernel ==
  \/ \E f \in Files : FileAppears(f) \/ FileDisappears(f)
  \/ DirectoryGoes

-----------------------------------------------------------------------------
(* The inotify polling thread: InotifyPollingLoop. *)

\* Mutant: a stack.
PushFirst(e) == queue' = <<e>> \o queue
\* EventQueue::push_back, under Mtx; notify_one is the guard of PopFront.
Push(e) == queue' = Append(queue, e)

\* Mutant: a failing setup returns without StopWork.
PollSetupWithoutStop ==
  /\ pollPc = "setup"
  /\ pollPc' \in {"wait", "done"}
  /\ UNCHANGED <<kernelVars, waitForInitialSync, stopPipe, queue, batch, event,
                 scanVars, mainPc, recvPc, clientVars>>

\* epoll_create1 and the two epoll_ctl: a failure stops the watcher.
PollSetup ==
  /\ pollPc = "setup"
  /\ pollPc' \in {"wait", "stopPush"}
  /\ UNCHANGED <<kernelVars, waitForInitialSync, stopPipe, queue, batch, event,
                 scanVars, mainPc, recvPc, clientVars>>

\* Mutant: only the inotify descriptor is waited for.
EpollWaitInotifyOnly ==
  /\ pollPc = "wait"
  /\ inotify # <<>> /\ pollPc' = "read"
  /\ UNCHANGED <<kernelVars, waitForInitialSync, stopPipe, queue, batch, event,
                 scanVars, mainPc, recvPc, clientVars>>

\* epoll_wait returns the descriptors that are ready.  The stop pipe is looked at
\* first, and only in this snapshot.
EpollWait ==
  /\ pollPc = "wait" /\ (stopPipe \/ inotify # <<>>)
  /\ pollPc' = IF stopPipe THEN "stopPush" ELSE "read"
  /\ UNCHANGED <<kernelVars, waitForInitialSync, stopPipe, queue, batch, event,
                 scanVars, mainPc, recvPc, clientVars>>
EpollFails ==
  /\ pollPc = "wait" /\ pollPc' = "stopPush"
  /\ UNCHANGED <<kernelVars, waitForInitialSync, stopPipe, queue, batch, event,
                 scanVars, mainPc, recvPc, clientVars>>

\* Mutant: the events that do not fit in Buf are lost.
ReadBatchDropsRest ==
  /\ pollPc = "read"
  /\ batch' = SubSeq(inotify, 1, IF Len(inotify) < ReadLimit THEN Len(inotify)
                                 ELSE ReadLimit)
  /\ inotify' = <<>> /\ pollPc' = "handle"
  /\ UNCHANGED <<files, dirExists, changes, overflowed, waitForInitialSync,
                 stopPipe, queue, event, scanVars, mainPc, recvPc, clientVars>>

\* read(InotifyFD): as many unread events as fit in Buf, or an error, after which
\* the loop over Buf has nothing to do.
ReadBatch ==
  /\ pollPc = "read"
  /\ LET n == IF Len(inotify) < ReadLimit THEN Len(inotify) ELSE ReadLimit
     IN /\ batch' = SubSeq(inotify, 1, n)
        /\ inotify' = SubSeq(inotify, n + 1, Len(inotify))
  /\ pollPc' = "handle"
  /\ UNCHANGED <<files, dirExists, changes, overflowed, waitForInitialSync,
                 stopPipe, queue, event, scanVars, mainPc, recvPc, clientVars>>
ReadFails ==
  /\ pollPc = "read" /\ pollPc' = "wait"
  /\ UNCHANGED <<kernelVars, waitForInitialSync, stopPipe, queue, batch, event,
                 scanVars, mainPc, recvPc, clientVars>>

\* Mutant: the inotify event is passed on as it is.
TranslateNothing(e) == e
\* Mutant: a file that is renamed away counts as modified.
TranslateMovedFrom(e) ==
  [kind |-> IF e.kind \in PresentMasks \cup {"IN_MOVED_FROM"} THEN "Modified"
            ELSE IF e.kind \in AbsentMasks THEN "Removed"
            ELSE "WatchedDirRemoved",
   name |-> e.name]

\* One turn of the loop over Buf.  What is left in Buf at a return is dropped.
Translate(e) ==
  [kind |-> IF e.kind \in PresentMasks THEN "Modified"
            ELSE IF e.kind \in AbsentMasks THEN "Removed"
            ELSE "WatchedDirRemoved",
   name |-> e.name]

HandleEvent ==
  /\ pollPc = "handle"
  /\ \/ /\ batch = <<>>
        /\ pollPc' = "wait" /\ UNCHANGED <<queue, batch>>
     \/ /\ batch # <<>>
        /\ batch' = Tail(batch)
        /\ IF Head(batch).kind \in PresentMasks \cup AbsentMasks \cup SelfMasks
           THEN Push(Translate(Head(batch))) ELSE UNCHANGED queue
        /\ pollPc' = IF Head(batch).kind \in PresentMasks \cup AbsentMasks THEN "handle"
                     ELSE IF Head(batch).kind \in SelfMasks THEN "stopPush"
                     ELSE "badPush"
  /\ UNCHANGED <<kernelVars, waitForInitialSync, stopPipe, event, scanVars,
                 mainPc, recvPc, clientVars>>

\* Mutant: StopWork only signals the pipe.
PollStopWithoutPush ==
  /\ pollPc \in {"stopPush", "badPush"}
  /\ pollPc' = IF pollPc = "stopPush" THEN "stopSignal" ELSE "badSignal"
  /\ UNCHANGED <<kernelVars, waitForInitialSync, stopPipe, queue, batch, event,
                 scanVars, mainPc, recvPc, clientVars>>

\* StopWork: push WatcherGotInvalidated, then signal the pipe.
PollStopPush ==
  /\ pollPc \in {"stopPush", "badPush"}
  /\ Push(Invalidated)
  /\ pollPc' = IF pollPc = "stopPush" THEN "stopSignal" ELSE "badSignal"
  /\ UNCHANGED <<kernelVars, waitForInitialSync, stopPipe, batch, event,
                 scanVars, mainPc, recvPc, clientVars>>
PollStopSignal ==
  /\ pollPc \in {"stopSignal", "badSignal"}
  /\ stopPipe' = TRUE
  /\ pollPc' = IF pollPc = "stopSignal" THEN "done" ELSE "unreachable"
  /\ UNCHANGED <<kernelVars, waitForInitialSync, queue, batch, event, scanVars,
                 mainPc, recvPc, clientVars>>

\* llvm_unreachable("Unknown event type."): a build with assertions aborts the
\* process; in the others the loop may return all the same.
HitUnreachable ==
  /\ pollPc = "unreachable"
  /\ pollPc' \in {"aborted", "done"}
  /\ UNCHANGED <<kernelVars, waitForInitialSync, stopPipe, queue, batch, event,
                 scanVars, mainPc, recvPc, clientVars>>

PollingWorks ==
  \/ PollSetup \/ EpollWait \/ ReadBatch \/ HandleEvent
  \/ PollStopPush \/ PollStopSignal \/ HitUnreachable
Polling == PollingWorks \/ EpollFails \/ ReadFails

-----------------------------------------------------------------------------
(* InitialScan, on the client's thread or on the receiving one. *)

\* readdir and stat of one entry; the order of the entries is the kernel's.
ScanEntry ==
  /\ "scan" \in {mainPc, recvPc}
  /\ \E f \in toScan :
       /\ toScan' = toScan \ {f}
       /\ found' = IF f \in files THEN found \cup {f} ELSE found
  /\ UNCHANGED <<kernelVars, waitForInitialSync, stopPipe, queue, batch, event,
                 scanFailed, threadVars, clientVars>>

\* The iterator reports an error: the loop ends and what was found is kept.
ScanError ==
  /\ "scan" \in {mainPc, recvPc} /\ toScan # {}
  /\ toScan' = {} /\ scanFailed' = TRUE
  /\ UNCHANGED <<kernelVars, waitForInitialSync, stopPipe, queue, batch, event,
                 found, threadVars, clientVars>>

\* The scan is over: Receiver(Events, IsInitial = true) begins.
CallInitial ==
  /\ toScan = {}
  /\ \/ mainPc = "scan" /\ mainPc' = "initialCall" /\ UNCHANGED recvPc
     \/ recvPc = "scan" /\ recvPc' = "initialCall" /\ UNCHANGED mainPc
  /\ UNCHANGED <<kernelVars, waitForInitialSync, stopPipe, queue, batch, event,
                 scanVars, pollPc, clientVars>>

\* ... and returns.
InitialCallReturns ==
  /\ \/ mainPc = "initialCall" /\ mainPc' = "startReceiving" /\ UNCHANGED recvPc
     \/ recvPc = "initialCall" /\ recvPc' = "pop" /\ UNCHANGED mainPc
  /\ phase' = "watching" /\ view' = view \cup found
  /\ UNCHANGED <<kernelVars, waitForInitialSync, stopPipe, queue, batch, event,
                 scanVars, pollPc>>

Scan == ScanEntry \/ ScanError \/ CallInitial \/ InitialCallReturns

-----------------------------------------------------------------------------
(* The events receiving thread: EventReceivingLoop. *)

\* EventQueue::pop_front_blocking, then Receiver(Event, false) begins.
PopFront ==
  /\ recvPc = "pop" /\ queue # <<>>
  /\ event' = Head(queue) /\ queue' = Tail(queue)
  /\ recvPc' = "call"
  /\ UNCHANGED <<kernelVars, waitForInitialSync, stopPipe, batch, scanVars,
                 mainPc, pollPc, clientVars>>

\* Receiver returns; WatcherGotInvalidated ends the loop.  (The events that are not
\* about a file have the empty name: they leave view alone.)
CallReturns ==
  /\ recvPc = "call"
  /\ IF event = Invalidated
     THEN recvPc' = "stopPush" /\ phase' = "invalidated"
     ELSE recvPc' = "pop" /\ UNCHANGED phase
  /\ view' = IF event.kind = "Modified" THEN view \cup {event.name}
             ELSE view \ {event.name}
  /\ UNCHANGED <<kernelVars, waitForInitialSync, stopPipe, queue, batch, event,
                 scanVars, mainPc, pollPc>>

RecvStopPush ==
  /\ recvPc = "stopPush"
  /\ Push(Invalidated) /\ recvPc' = "stopSignal"
  /\ UNCHANGED <<kernelVars, waitForInitialSync, stopPipe, batch, event,
                 scanVars, mainPc, pollPc, clientVars>>
RecvStopSignal ==
  /\ recvPc = "stopSignal"
  /\ stopPipe' = TRUE /\ recvPc' = "done"
  /\ UNCHANGED <<kernelVars, waitForInitialSync, queue, batch, event, scanVars,
                 mainPc, pollPc, clientVars>>

Receiving == PopFront \/ CallReturns \/ RecvStopPush \/ RecvStopSignal

-----------------------------------------------------------------------------
(* The client's thread: create, the constructor and the destructor. *)

\* inotify_init1 and inotify_add_watch: an error is returned to the client.
CreateWatch ==
  /\ mainPc = "create" /\ mainPc' \in {"watched", "failed"}
  /\ UNCHANGED <<kernelVars, waitForInitialSync, stopPipe, queue, batch, event,
                 scanVars, pollPc, recvPc, clientVars>>

\* Mutant: both threads are started before the synchronous scan.
StartBoth ==
  /\ mainPc = "watched"
  /\ mainPc' = IF waitForInitialSync THEN "scan" ELSE "startReceiving"
  /\ recvPc' = IF waitForInitialSync THEN "pop" ELSE "none"
  /\ pollPc' = "setup"
  /\ UNCHANGED <<kernelVars, waitForInitialSync, stopPipe, queue, batch, event,
                 scanVars, clientVars>>

\* SemaphorePipe::create, then the polling thread is started.
StartPolling ==
  /\ mainPc = "watched"
  /\ \/ mainPc' = "failed" /\ UNCHANGED pollPc
     \/ /\ mainPc' = IF waitForInitialSync THEN "scan" ELSE "startReceiving"
        /\ pollPc' = "setup"
  /\ UNCHANGED <<kernelVars, waitForInitialSync, stopPipe, queue, batch, event,
                 scanVars, recvPc, clientVars>>

\* The receiving thread scans first when the constructor did not.
StartReceiving ==
  /\ mainPc = "startReceiving" /\ mainPc' = "running"
  /\ recvPc' = IF waitForInitialSync THEN "pop" ELSE "scan"
  /\ UNCHANGED <<kernelVars, waitForInitialSync, stopPipe, queue, batch, event,
                 scanVars, pollPc, clientVars>>

\* The client destroys the watcher, at any time.
Destroy ==
  /\ mainPc = "running" /\ mainPc' = "stopPush"
  /\ UNCHANGED <<kernelVars, waitForInitialSync, stopPipe, queue, batch, event,
                 scanVars, pollPc, recvPc, clientVars>>

MainStopPush ==
  /\ mainPc = "stopPush"
  /\ Push(Invalidated) /\ mainPc' = "stopSignal"
  /\ UNCHANGED <<kernelVars, waitForInitialSync, stopPipe, batch, event,
                 scanVars, pollPc, recvPc, clientVars>>
MainStopSignal ==
  /\ mainPc = "stopSignal"
  /\ stopPipe' = TRUE /\ mainPc' = "joinPolling"
  /\ UNCHANGED <<kernelVars, waitForInitialSync, queue, batch, event, scanVars,
                 pollPc, recvPc, clientVars>>

\* Mutant: the receiving thread is not joined.
JoinPollingOnly ==
  /\ \/ mainPc = "joinPolling" /\ pollPc = "done" /\ mainPc' = "rmWatch"
     \/ mainPc = "rmWatch" /\ mainPc' = "destroyed"
  /\ UNCHANGED <<kernelVars, waitForInitialSync, stopPipe, queue, batch, event,
                 scanVars, pollPc, recvPc, clientVars>>

\* The two joins, then inotify_rm_watch and close.
Join ==
  /\ \/ mainPc = "joinPolling" /\ pollPc = "done" /\ mainPc' = "joinReceiving"
     \/ mainPc = "joinReceiving" /\ recvPc = "done" /\ mainPc' = "rmWatch"
     \/ mainPc = "rmWatch" /\ mainPc' = "destroyed"
  /\ UNCHANGED <<kernelVars, waitForInitialSync, stopPipe, queue, batch, event,
                 scanVars, pollPc, recvPc, clientVars>>

Constructor == CreateWatch \/ StartPolling \/ StartReceiving
Destructor == MainStopPush \/ MainStopSignal \/ Join

-----------------------------------------------------------------------------
\* An abort stops every thread of the process.
Alive == pollPc # "aborted"

Next ==
  /\ Alive
  /\ Kernel \/ Polling \/ Scan \/ Receiving \/ Constructor \/ Destroy \/ Destructor

Spec == Init /\ [][Next]_vars

\* Every thread that can run does; the client need not destroy the watcher, the
\* directory need not change, epoll_wait(2) need not fail, and read(2) does not fail
\* for ever.
Fairness ==
  /\ WF_vars(Alive /\ PollingWorks) /\ SF_vars(Alive /\ ReadBatch)
  /\ WF_vars(Alive /\ Scan) /\ WF_vars(Alive /\ Receiving)
  /\ WF_vars(Alive /\ Constructor) /\ WF_vars(Alive /\ Destructor)
FairSpec == Spec /\ Fairness

-----------------------------------------------------------------------------
(* Properties. *)

\* What the events of s say of name f (present or not), starting from b: the
\* last event that names f decides.
Shows(e) == e.kind \in PresentMasks \cup {"Modified"}
Final(s, f, b) ==
  \/ \E i \in DOMAIN s :
       /\ s[i].name = f /\ \A j \in DOMAIN s : j > i => s[j].name # f
       /\ Shows(s[i])
  \/ (\A i \in DOMAIN s : s[i].name # f) /\ b

\* What the client will know of f once everything under way has been delivered:
\* the scan, the event in the Receiver, the queue, the batch, the inotify queue.
InHand == IF recvPc = "call" THEN <<event>> ELSE <<>>
Base(f) ==
  f \in (files \cap toScan) \cup ((IF phase = "none" THEN found ELSE view) \ toScan)
WillShow(f) ==
  Final(inotify, f, Final(batch, f, Final(queue, f, Final(InHand, f, Base(f)))))

\* While the watcher is valid, nothing was lost and the scan was complete, every
\* difference between the directory and the client's mirror is on its way: no
\* interleaving of scan, changes and deliveries loses or reorders an event.
NothingLost ==
  phase # "invalidated" /\ dirExists /\ ~overflowed /\ ~scanFailed
    => \A f \in Files : (WillShow(f) <=> f \in files)

\* So a client that has been told everything has an exact mirror.
MirrorIsExact ==
  /\ phase = "watching" /\ dirExists /\ ~overflowed /\ ~scanFailed
  /\ inotify = <<>> /\ batch = <<>> /\ queue = <<>> /\ recvPc # "call"
  => view = files

\* DirectoryWatcher.h: when an instance is destroyed, WatcherGotInvalidated is
\* guaranteed to have been received.  And the members the threads use are gone
\* only after the threads.
InvalidatedWhenDestroyed ==
  mainPc \in {"rmWatch", "destroyed"} =>
    phase = "invalidated" /\ pollPc = "done" /\ recvPc = "done"

\* StopWork by either thread reaches the other one: a polling thread that stops
\* leaves WatcherGotInvalidated for the receiving one, and a receiving thread
\* that stops leaves the pipe readable for the polling one.  The joins rely on it.
StopReachesBoth ==
  /\ pollPc \in {"stopSignal", "badSignal", "unreachable", "done"} =>
       \/ phase = "invalidated" \/ (recvPc = "call" /\ event = Invalidated)
       \/ \E i \in DOMAIN queue : queue[i] = Invalidated
  /\ recvPc = "done" => stopPipe

\* The watcher keeps the promise the class comment makes to its Receiver: calls
\* never overlap, the initial one is first, none follows the invalidation.
Calls == {t \in {"main", "receiving"} :
            IF t = "main" THEN mainPc = "initialCall"
            ELSE recvPc \in {"initialCall", "call"}}
Contract == INSTANCE WatcherContract WITH calls <- Calls
KeepsContract == Contract!ContractSpec

\* The destructor returns (unless the process aborts).
DestructorReturns == (mainPc = "stopPush") ~> (mainPc = "destroyed" \/ ~Alive)

\* A polling thread that stops for an error, or because the directory went, is
\* reported to the client although the client does nothing.
StopIsReported == (pollPc = "done") ~> (phase = "invalidated")

\* Once the directory no longer changes, the client's mirror becomes exact and
\* stays so, or the client has been told that the watcher is no longer valid.
Converges ==
  <>[](\/ phase = "invalidated" \/ (phase = "watching" /\ view = files)
       \/ mainPc = "failed" \/ ~Alive \/ scanFailed)

\* DirectoryWatcher.h has "kernel signalling ... some resource limit being hit"
\* as the prime case of WatcherGotInvalidated: the code that handles it is not
\* meant to be unreachable.
LimitIsHandled == overflowed /\ dirExists => pollPc # "unreachable"
=============================================================================
