SPECIFICATION Spec
CONSTANTS
  Roles = {"client"}
  DataCapacity = 2
  ControlCapacity = 2
  MaxFrames = 1
  MaxBatch = 1
  MaxInbound = 1
  MaxCommits = 0
INVARIANT NoReconnectAfterFatal
