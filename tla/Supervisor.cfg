SPECIFICATION Spec
CHECK_DEADLOCK FALSE
CONSTANTS
  h1 = h1
  h2 = h2
  None = None
  Uids <- MCUids
  Ids <- MCIds
  IdOf <- MCIdOf
  Identity <- MCIdentity
  Handlers = {h1, h2}
  Service = service
  ServiceRuns <- MCRuns
  KeepRuns = 1
  Links = {"key", "file"}
  Aliased <- MCAliased
  Projected <- MCProjected
  Clients = {"whole", "quick"}
  Lossless = {"whole"}
  Framed = {"whole"}
  QueueCap = 1
  TranscriptMax = 2
  Loads <- MCLoads
INVARIANTS AtMostOnce AliasesLive ShutdownComplete StreamsWhole
PROPERTY ShutdownEnds
