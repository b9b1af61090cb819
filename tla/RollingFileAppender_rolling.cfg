CONSTANTS
  w1 = w1
  w2 = w2
  Writers = {w1, w2}
  log = log
  Names = {log}
  DefaultName = log
  DefaultMaxFiles = 2
  DefaultSize = 0
  MinFileSize = 2
  MaxFilesArgs = {0, 3}
  SizeArgs = {0, 3}
  Absent = Absent
  Free = Free
  MaxRecords = 6
  MaxFaults = 2
  MaxCrashes = 1
SPECIFICATION Spec
SYMMETRY WriterSymmetry
INVARIANTS
  TypeOK
  Chronological
  SizeKnown
  NoGaps
  DroppedWhenFull
  HeaderOnce
