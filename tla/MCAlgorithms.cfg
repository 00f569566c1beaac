SPECIFICATION Spec
CHECK_DEADLOCK FALSE
CONSTANTS
  MaxLinks = 4
  BufSize = 9
  MagicLen = 3
  GzipHeader = 1
  ZipMagicLen = 2
  ChunkAdd = 12
  LineSize = 10
  Base = 4
  Chunk = 3
INVARIANTS
  ReservationSuffices
  DevicesCovered
  CanonicalFollowsLinks
  OptionsReadBack
  ReadersAgree
  ConfigExtracted
  OptionsAreRead
  TimeoutsApply
  NotesAreFound
  UrlsMeanTargets
  MultipathKeepsFile
  PacketsAreRead
