SPECIFICATION FairSpec
CONSTANTS
  Roles = {"client", "server"}
  DataCapacity = 2
  ControlCapacity = 2
  MaxFrames = 3
  MaxBatch = 2
  MaxInbound = 1
  MaxCommits = 1
INVARIANTS
  OccupancyOK
  Accounted
  InOrder
  LastWords
PROPERTIES
  FatalCuts
  QuietAfterClose
  ShutdownEnds
  LossEndsConnection
