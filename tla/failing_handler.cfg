SPECIFICATION Spec
CONSTANTS
  Role = "server"
  Vocabulary <- Reasons
  ConversationIds = {1}
  InputIds = {1}
  ResponseIds = {1}
  MaxId = 2
  Formats = {"pcm"}
  Texts = {"a"}
  MaxChunk = 1
  MaxRevision = 1
  MaxDeltas = 1
  MaxOutput = 1
  MaxInputFrames = 1
  MaxInputAudioFrames = 1
  MaxOutputAudioFrames = 1
  EventCapacity = 3
  AudioCapacity = 1
  ControlCapacity = 4
  DataCapacity = 1
  Stories <- FailingStory
CHECK_DEADLOCK FALSE
INVARIANT NarrowestScope
