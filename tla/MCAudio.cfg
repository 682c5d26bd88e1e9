CONSTANTS
  RingSize = 3
  BufSize = 2
  Header = 1
  Refill = 1
  Chunk = 2
  Rounds = 2
  MaxFile = 4
  MaxPlays = 2
  MaxTimeouts = 1
  RecRing = 2
  RecChunk = 3
  DrainChunk = 1
  DrainRounds = 2
  MaxPut = 5
  MaxRecords = 2
  MaxLate = 1
SPECIFICATION SpecAudio
INVARIANTS MemoryOutlivesTask DoneIsCurrent PlayedWhole RecordedWhole RecorderMemory
PROPERTIES StopsReturn TrackEnds
CHECK_DEADLOCK FALSE
