CONSTANTS
  w1 = w1
  pcm = pcm
  Nobody = Nobody
  Absent = Absent
  Directory = Directory
  Undecided = Undecided
  Failure = Failure
  Workers = {w1}
  Paths = {pcm}
  Minimizable = {}
  Bare = {}
  MayBeIgnored = {}
  MaxVersion = 1
SPECIFICATION ScanningSpec
INVARIANTS NonSourceFailuresNotKept
