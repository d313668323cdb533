SPECIFICATION Spec
CONSTANTS
  MaxMem = 17
  DATA_PARSE_MIN_SIZE = 12
  Streams <- MCStreams
  Beyond = {0, 1, 255}
  bsb_size = 8
  MaxFrame = 2
  UseqLength = 1
  UpesLength = 1
  EosLength = 1
  HEADER_SIZE = 3
  EosRequest = 1
  Safe = 1
  Numbers = 8
  MaxUnasked = 1
  bsb_mem_size = 7
  GOP_HEADER_SIZE = 2
  EosSize = 1
  Recordings <- MCRecordings
  IDX_SIZE = 2
  Videos <- MCVideos
  MaxUsec = 1
  MaxPosts = 2
  Clients = {1, 2}
  window = 2
  SocketSize = 2
  MaxSent = 3
INVARIANTS
  TypeOK
  NoSignalLost
  WholeFramesFed
  HeadersWritten
  FramesIntact
  BsbNotOverrun
  Mp4FileSound
PROPERTIES
  CondtestEnds
  FeedingGoesOn
  RingFreshForTask
  PlaybackEnds
  DifferencesPrinted
  ClientsRecorded
CHECK_DEADLOCK FALSE
