SPECIFICATION FairSpec
CONSTANTS
  Role = "client"
  Vocabulary <- Listening
  Said <- SpokenAnswer
  ConversationIds = {1}
  InputIds = {1}
  ResponseIds = {1}
  MaxId = 1
  Formats = {"pcm"}
  Texts = {"a"}
  MaxChunk = 1
  MaxRevision = 0
  MaxDeltas = 0
  MaxOutput = 1
  MaxInputFrames = 2
  MaxInputAudioFrames = 1
  MaxOutputAudioFrames = 1
  InputQueueFrames = 1
  PreRollFrames = 0
  ControlCapacity = 1
  Ends = {"close"}
CHECK_DEADLOCK FALSE
PROPERTIES
  CloseBounded
