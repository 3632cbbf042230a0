SPECIFICATION StackFairSpec
CONSTANTS
  root = root
  seq = seq
  w1 = w1
  w2 = w2
  Jobs <- TwoJobs
  Parents <- FirstThenSecond
  Channels <- TwoChannels
  Root = root
  Path <- Downstream
  ChannelOf <- OneInSequence
  Capacity <- OneEach
  Sequential <- OneSequential
  Throttled <- OneSequential
  Workers <- OneWorker
  MaxRetries = 1
  MaxMishaps = 2
  r1 = r1
  r2 = r2
  a = a
  b = b
  MaxJobs = 3
  MaxCompounds = 2
  MaxParts = 2
  MaxPromises = 1
  Segments <- TwoSegments
  MaxDepth = 3
  MaxEntries = 2
  MaxLookups = 2
  Servers <- TwoServers
  Databases <- TwoDatabases
  MaxTroubles = 2
  QueueParts <- LiveParts
PROPERTY ActiveSettles
PROPERTY PendingIsServed
PROPERTY OneMasterEmerges
CHECK_DEADLOCK FALSE
