SPECIFICATION Spec
CONSTANTS
  Role = "client"
  Vocabulary <- WholeResponses
  ConversationIds = {1, 2}
  InputIds = {1}
  ResponseIds = {1}
  MaxId = 2
  Formats = {"pcm"}
  Texts = {"a"}
  MaxChunk = 0
  MaxRevision = 0
  MaxDeltas = 1
  MaxOutput = 1
  MaxInputFrames = 1
  MaxInputAudioFrames = 1
  MaxOutputAudioFrames = 1
INVARIANTS PlaysWhatWasSent SilencedIsStale TombstonesTellTheEnd
PROPERTY ImplementsTurn
