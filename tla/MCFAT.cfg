SPECIFICATION FATSpec
CONSTANTS
  Name = {n1, n2}
  Byte = {b1, b2}
  FD = {d1, d2}
  NotOpen = NotOpen
  NoFile = NoFile
  Garbage = Garbage
  NoName = NoName
  bytes_per_cluster = 2
  EntriesPerCluster = 1
  LastCluster = 6
  MaxLen = 2
  MaxSize = 3
  Crossing = FALSE
INVARIANT ChainsSound
PROPERTY ImplementsFiles
SYMMETRY Symmetric
