SPECIFICATION FairSpec
CONSTANTS
  Role = "client"
  Vocabulary <- TalkingOver
  Said <- AnswersAloud
  ConversationIds = {1}
  InputIds = {1, 2}
  ResponseIds = {1}
  MaxId = 2
  Formats = {"pcm"}
  Texts = {"a"}
  MaxChunk = 1
  MaxRevision = 0
  MaxDeltas = 0
  MaxOutput = 0
  MaxInputFrames = 3
  MaxInputAudioFrames = 1
  MaxOutputAudioFrames = 1
  InputQueueFrames = 1
  PreRollFrames = 0
  ControlCapacity = 2
  Ends = {}
CHECK_DEADLOCK FALSE
PROPERTIES
  HandedOff
