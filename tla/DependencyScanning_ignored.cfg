CONSTANTS
  w1 = w1
  w2 = w2
  overlay = overlay
  Nobody = Nobody
  Absent = Absent
  Directory = Directory
  Undecided = Undecided
  Failure = Failure
  Workers = {w1, w2}
  Paths = {overlay}
  Minimizable = {overlay}
  Bare = {overlay}
  MayBeIgnored = {overlay}
  MaxVersion = 0
SPECIFICATION ScanningSpec
INVARIANTS IgnoredFilesNotMinimized
