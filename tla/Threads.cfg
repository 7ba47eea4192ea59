\* Of the watcher, one name (the theorems are for any set of them).  A batch smaller than
\* the kernel's queue and able to hold several events: reads are partial, and a return
\* from the loop drops events; the queue can overflow.
\* Of the scan, a header, whose stat failures are cached, and a module file, whose are
\* not; both come and go and become directories.  No symmetry: liveness.
CONSTANTS
  Files = {f1}
  NoFile = NoFile
  ReadLimit = 2
  MaxQueuedEvents = 3
  MaxChanges = 3

  w1 = w1
  w2 = w2
  header = header
  pcm = pcm
  Nobody = Nobody
  Absent = Absent
  Directory = Directory
  Undecided = Undecided
  Failure = Failure
  Workers = {w1, w2}
  Paths = {header, pcm}
  Minimizable = {header}
  Bare = {}
  MayBeIgnored = {}
  MaxVersion = 0
SPECIFICATION ThreadsSpec
INVARIANTS
  TypeOK
  NothingLost
  MirrorIsExact
  InvalidatedWhenDestroyed
  StopReachesBoth
  ScanningTypeOK
  NoAssertFails
  OneView
PROPERTIES
  KeepsContract
  DestructorReturns
  StopIsReported
  Converges
  KeepsView
  CallsEnd
\* A destroyed watcher, a failed creation and an aborted process stop.
CHECK_DEADLOCK FALSE
