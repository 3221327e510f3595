SPECIFICATION FairSpec
CONSTANTS
  Role = "client"
  Vocabulary <- Conversing
  Said <- SpokenAnswer
  ConversationIds = {1}
  InputIds = {1, 2}
  ResponseIds = {1}
  MaxId = 2
  Formats = {"pcm"}
  Texts = {"a"}
  MaxChunk = 2
  MaxRevision = 0
  MaxDeltas = 0
  MaxOutput = 0
  MaxInputFrames = 3
  MaxInputAudioFrames = 1
  MaxOutputAudioFrames = 1
  InputQueueFrames = 2
  PreRollFrames = 1
  ControlCapacity = 1
  Ends = {"close", "loss"}
CONSTRAINT OneStory
CHECK_DEADLOCK FALSE
INVARIANTS
  Counted
  ClosedInputIsSilent
  Gapless
  Agreed
  BacklogGone
PROPERTIES
  CloseCompletes
  WakeUpsArrive
