SPECIFICATION Spec
CONSTANTS
  Role = "server"
  Vocabulary <- TurnsAndInputs
  ConversationIds = {1}
  InputIds = {1, 2}
  ResponseIds = {1, 2}
  MaxId = 2
  Formats = {"pcm"}
  Texts = {"a"}
  MaxChunk = 3
  MaxRevision = 1
  MaxDeltas = 0
  MaxOutput = 1
  MaxInputFrames = 3
  MaxInputAudioFrames = 2
  MaxOutputAudioFrames = 1
CONSTRAINT OneStory
INVARIANTS TypeOK TurnsOK OneSpeakerAtATime TerminalIntent CommitsWholeChunks ServerFailsAtOnce
PROPERTIES ImplementsTurn TerminalIsFinal
