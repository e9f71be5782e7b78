CONSTANTS
  Slots = 2
  MaxPcm = 6
  MaxRaw = 1
  MaxRawTotal = 1
  Second = 3
  Prefix = 1
  Chunk = 2
  PerRead = 4
  Ahead = 4
  Quarter = 2
  Cap = 5
  Waves <- Effects
  Tracks <- Songs
  MaxSeeks = 0
SPECIFICATION FairSpec
PROPERTY TracksServed
