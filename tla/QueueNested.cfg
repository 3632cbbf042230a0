SPECIFICATION StackSpec
CONSTANTS
  root = root
  seq = seq
  w1 = w1
  w2 = w2
  Jobs <- ThreeJobs
  Parents <- TwoThenLast
  Channels <- TwoChannels
  Root = root
  Path <- Downstream
  ChannelOf <- TwoInSequence
  Capacity <- TwoAtRoot
  Sequential <- OneSequential
  Throttled <- OneSequential
  Workers <- TwoWorkers
  MaxRetries = 2
  MaxMishaps = 1
  r1 = r1
  r2 = r2
  a = a
  b = b
  MaxJobs = 3
  MaxCompounds = 2
  MaxParts = 2
  MaxPromises = 1
  Segments <- TwoSegments
  MaxDepth = 3
  MaxEntries = 2
  MaxLookups = 2
  Servers <- TwoServers
  Databases <- TwoDatabases
  MaxTroubles = 2
  QueueParts = {"graph"}
INVARIANT ChainsInOrder
CHECK_DEADLOCK FALSE
