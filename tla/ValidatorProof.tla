--------------------------- MODULE ValidatorProof ----------------------------
(***************************************************************************)
(* For every value of the constants, and whatever messages are submitted,  *)
(* one validator's data stays well formed, keeps Turns, Objects, Ledger    *)
(* and Intent, and moves the turn as module Turn allows.  ProtocolProof    *)
(* and ProtocolSteps have what each handler does; here each action is      *)
(* traced to its handler and the steps are put together.                   *)
(***************************************************************************)
EXTENDS ValidatorTurn, ProtocolSteps

-----------------------------------------------------------------------------
(* The inductive invariant, and the four kinds of step.                    *)

Proper(d) == Good(d) /\ Objects(d) /\ Ledger(d) /\ Intent(d)
IInv == Proper(data)

(* A handler of the rules ran.                                             *)
Stepped ==
  /\ data.connection_state \notin {"disconnected", "handshaking"}
  /\ Good(data') /\ Step(data, data')

(* transport_connected and transport_disconnected start over.              *)
StartsOver ==
  \E s \in {"disconnected", "handshaking"} :
    /\ data' = NewData(s)
    /\ s = "handshaking" => data.connection_state = "disconnected"

(* A hello, the begin of the close and a fatal error change the connection *)
(* and none of its objects.                                                *)
SameTalk(d, e) ==
  /\ e.inputs = d.inputs /\ e.responses = d.responses /\ e.conversation = d.conversation
  /\ e.tombstones = d.tombstones /\ e.ended_conversations = d.ended_conversations
  /\ e.conversation_ids = d.conversation_ids
  /\ e.input_ids = d.input_ids /\ e.response_ids = d.response_ids
Greets ==
  /\ Good(data') /\ SameTalk(data, data')
  /\ data.connection_state = "handshaking"
  /\ data'.connection_state \in {"handshaking", "ready"}
Closes ==
  /\ Good(data') /\ SameTalk(data, data')
  /\ data.connection_state \in {"handshaking", "ready"}
  /\ data'.connection_state = "closing"

-----------------------------------------------------------------------------
LEMMA NewDataProper ==
  ASSUME NEW s \in {"disconnected", "handshaking"}
  PROVE  Proper(NewData(s))
<1> DEFINE e == NewData(s)
<1>1. s \in ConnectionState
  BY DEF ConnectionState
<1>2. Good(e)
  BY <1>1, NewDataGood
<1>3. /\ \A i \in Ids : e.inputs[i] = NoInput /\ e.responses[i] = NoResponse
                        /\ e.ended_conversations[i] = "none"
      /\ e.conversation = NoConversation
      /\ e.conversation_ids = 1 /\ e.input_ids = 1
  BY DEF NewData
<1> HIDE DEF e
<1>4. CommittedByChunk(NoInput) /\ FailedAtOnce(NoInput)
  <2>1. NoInput.boundaries = {} /\ NoInput.received = 0 /\ NoInput.committed = 0
        /\ NoInput.terminal.kind = "none" /\ NoInput.failure = "none"
    BY DEF NoInput, NoTerminal
  <2>2. MaxInputFrames \in Nat
    BY ProtocolAssumption
  <2> QED BY <2>1, <2>2 DEF CommittedByChunk, FailedAtOnce
<1>5. PlayedWasSent(NoResponse) /\ Hushed(NoResponse) /\ NoResponse.failure = "none"
      /\ NoResponse.terminal = "none"
  BY DEF PlayedWasSent, Hushed, NoResponse, NoOutput, NoPlayback, IsCancelled,
         ResponseCancelReason
<1>6. Objects(e)
  BY <1>3, <1>4, <1>5 DEF Objects
<1>7. /\ NoConversation.id = 0 /\ NoConversation.input_id = 0
      /\ NoConversation.response_id = 0 /\ NoConversation.failure = "none"
      /\ NoInput.conversation_id = 0 /\ NoResponse.conversation_id = 0
      /\ NoInput.interrupts_response_id = 0
  BY DEF NoConversation, NoInput, NoResponse
<1>8. Newest(e)
  BY <1>3, <1>7 DEF Newest
<1>9. Past(e)
  BY <1>3, <1>7 DEF Past
<1>10. SilencedByOthers(e) /\ ServerLives(e)
  BY <1>3, <1>7, NoneIds DEF SilencedByOthers, ServerLives
<1>11. Fresh(e)
  BY <1>3, <1>7 DEF Fresh
<1>12. Intent(e)
  BY <1>3, <1>5 DEF Intent, IntentHonoured
<1> QED BY <1>2, <1>6, <1>8, <1>9, <1>10, <1>11, <1>12 DEF Proper, Ledger, e

(* Changing the connection alone.                                          *)
LEMMA SameTalkProper ==
  ASSUME NEW d, NEW e, Proper(d), Good(e), SameTalk(d, e),
         e.connection_state \in {"disconnected", "handshaking"} =>
           d.connection_state \in {"disconnected", "handshaking"}
  PROVE  Proper(e)
<1>1. Objects(e)
  BY DEF Proper, Objects, SameTalk
<1>2. Newest(e) /\ Past(e) /\ SilencedByOthers(e) /\ ServerLives(e) /\ Fresh(e)
  BY DEF Proper, Ledger, Newest, Past, SilencedByOthers, ServerLives, Fresh, SameTalk
<1>3. Intent(e)
  BY DEF Proper, Intent, IntentHonoured, SameTalk
<1> QED BY <1>1, <1>2, <1>3 DEF Proper, Ledger

-----------------------------------------------------------------------------
(* The connection.                                                         *)

LEMMA ConnectionSteps ==
  ASSUME TransportConnected \/ TransportDisconnected
  PROVE  StartsOver
BY DEF TransportConnected, TransportDisconnected, StartsOver

(* The state of the connection is set to closing.                          *)
LEMMA ClosingCloses ==
  ASSUME Proper(data), data.connection_state \in {"handshaking", "ready"},
         data' = [data EXCEPT !.connection_state = "closing"]
  PROVE  Closes
<1> DEFINE e == [data EXCEPT !.connection_state = "closing"]
<1>1. data \in Data
  BY DEF Proper, Good
<1>2. e \in Data
  BY <1>1 DEF Data, ConnectionState
<1>3. SameTalk(data, e) /\ e.connection_state = "closing"
  BY <1>1 DEF Data, SameTalk
<1>4. data' = e
  OBVIOUS
<1> HIDE DEF e
<1>5. Good(e)
  BY <1>2, <1>3, TurnsFrame DEF Proper, SameTalk
<1> QED BY <1>3, <1>4, <1>5 DEF Closes

LEMMA BeginCloseSteps ==
  ASSUME Proper(data), BeginClose
  PROVE  Closes
BY ClosingCloses DEF BeginClose

LEMMA HandshakeSteps ==
  ASSUME Proper(data), AcceptHandshake
  PROVE  Greets
<1>1. PICK m \in ClientHellos \cup ServerHellos :
        Accepts(data, m) /\ data' = After(data, m)
  BY DEF AcceptHandshake, Accept
<1>2. m.type \in {"client.hello", "server.hello"}
  BY DEF ClientHellos, ServerHellos
<1>3. data.connection_state = "handshaking" /\ CanAcceptHello(data, m)
  BY <1>1, <1>2 DEF Accepts, CanHandle
<1>4. After(data, m) = AfterHello(data, m)
  BY <1>3 DEF After
<1>5. m \in ClientHellos \cup ServerHellos \cup AnyErrors
  OBVIOUS
<1>6. Good(data')
  BY <1>1, <1>3, <1>4, <1>5, HelloGood DEF Proper
<1>7. data \in Data
  BY DEF Proper, Good
<1>8. SameTalk(data, AfterHello(data, m))
      /\ AfterHello(data, m).connection_state \in {"handshaking", "ready"}
  <2>1. CASE m.type = "client.hello"
    BY <1>3, <1>7, <2>1 DEF AfterHello, SameTalk, Data
  <2>2. CASE m.type = "server.hello"
    BY <1>3, <1>7, <2>2 DEF AfterHello, SameTalk, Data
  <2> QED BY <1>2, <2>1, <2>2
<1> QED BY <1>1, <1>3, <1>4, <1>6, <1>8 DEF Greets

-----------------------------------------------------------------------------
(* One lemma per action: the messages of its set reach its handler.        *)

LEMMA StartConversationSteps ==
  ASSUME Proper(data), StartConversation
  PROVE  Stepped
<1>1. PICK m \in AnyConversationStarts :
        Accepts(data, m) /\ data' = After(data, m)
  BY Unbounded DEF StartConversation, Accept
<1>2. m.type = "conversation.start"
  BY DEF AnyConversationStarts
<1>3. data.connection_state = "ready" /\ CanStartConversation(data, m)
  BY <1>1, <1>2 DEF Accepts, CanAcceptHello, CanHandle
<1>4. After(data, m) = AfterStartConversation(data, m)
  BY <1>2, <1>3 DEF After
<1>5. Good(AfterStartConversation(data, m)) /\ Step(data, AfterStartConversation(data, m))
  BY <1>3, StartConversationGood, StartConversationStep DEF Proper, Ledger
<1> QED BY <1>1, <1>3, <1>4, <1>5 DEF Stepped

LEMMA StartInputSteps ==
  ASSUME Proper(data), StartInput
  PROVE  Stepped
<1>1. PICK m \in AnyInputStarts :
        Accepts(data, m) /\ data' = After(data, m)
  BY Unbounded DEF StartInput, Accept
<1>2. m.type = "input.start"
  BY DEF AnyInputStarts
<1>3. data.connection_state = "ready" /\ CanStartInput(data, m)
  BY <1>1, <1>2 DEF Accepts, CanAcceptHello, CanHandle
<1>4. After(data, m) = AfterStartInput(data, m)
  BY <1>2, <1>3 DEF After
<1>5. Good(AfterStartInput(data, m)) /\ Step(data, AfterStartInput(data, m))
  BY <1>3, StartInputGood, StartInputStep DEF Proper, Ledger
<1> QED BY <1>1, <1>3, <1>4, <1>5 DEF Stepped

LEMMA AcceptInputAudioSteps ==
  ASSUME Proper(data), AcceptInputAudio
  PROVE  Stepped
<1>1. PICK m \in AnyInputAudios :
        Accepts(data, m) /\ data' = After(data, m)
  BY Unbounded DEF AcceptInputAudio, Accept
<1>2. m.type = "input.audio"
  BY DEF AnyInputAudios
<1>3. data.connection_state = "ready" /\ CanAcceptInputAudio(data, m)
  BY <1>1, <1>2 DEF Accepts, CanAcceptHello, CanHandle
<1>4. After(data, m) = AfterInputAudio(data, m)
  BY <1>2, <1>3 DEF After
<1>5. Good(AfterInputAudio(data, m)) /\ Step(data, AfterInputAudio(data, m))
  BY <1>3, InputAudioGood, InputAudioStep DEF Proper, Ledger
<1> QED BY <1>1, <1>3, <1>4, <1>5 DEF Stepped

LEMMA AbortInputSteps ==
  ASSUME Proper(data), AbortInput
  PROVE  Stepped
<1>1. PICK m \in AnyInputAborts :
        Accepts(data, m) /\ data' = After(data, m)
  BY Unbounded DEF AbortInput, Accept
<1>2. m.type = "input.abort"
  BY DEF AnyInputAborts
<1>3. data.connection_state = "ready" /\ CanAbortInput(data, m)
  BY <1>1, <1>2 DEF Accepts, CanAcceptHello, CanHandle
<1>4. After(data, m) = AfterAbortInput(data, m)
  BY <1>2, <1>3 DEF After
<1>5. Good(AfterAbortInput(data, m)) /\ Step(data, AfterAbortInput(data, m))
  BY <1>3, AbortInputGood, AbortInputStep DEF Proper, Ledger
<1> QED BY <1>1, <1>3, <1>4, <1>5 DEF Stepped

LEMMA CloseInputSteps ==
  ASSUME Proper(data), CloseInput
  PROVE  Stepped
<1>1. PICK m \in AnyInputCloses :
        Accepts(data, m) /\ data' = After(data, m)
  BY Unbounded DEF CloseInput, Accept
<1>2. m.type = "input.closed"
  BY DEF AnyInputCloses
<1>3. data.connection_state = "ready" /\ CanCloseInput(data, m)
  BY <1>1, <1>2 DEF Accepts, CanAcceptHello, CanHandle
<1>4. After(data, m) = AfterCloseInput(data, m)
  BY <1>2, <1>3 DEF After
<1>5. Good(AfterCloseInput(data, m)) /\ Step(data, AfterCloseInput(data, m))
  BY <1>3, CloseInputGood, CloseInputStep DEF Proper, Ledger
<1> QED BY <1>1, <1>3, <1>4, <1>5 DEF Stepped

LEMMA AcceptTranscriptUpdateSteps ==
  ASSUME Proper(data), AcceptTranscriptUpdate
  PROVE  Stepped
<1>1. PICK m \in AnyTranscriptUpdates :
        Accepts(data, m) /\ data' = After(data, m)
  BY Unbounded DEF AcceptTranscriptUpdate, Accept
<1>2. m.type = "transcript.update"
  BY DEF AnyTranscriptUpdates, Positive
<1>3. data.connection_state = "ready" /\ CanAcceptTranscriptUpdate(data, m)
  BY <1>1, <1>2 DEF Accepts, CanAcceptHello, CanHandle
<1>4. After(data, m) = AfterTranscriptUpdate(data, m)
  BY <1>2, <1>3 DEF After
<1>5. Good(AfterTranscriptUpdate(data, m)) /\ Step(data, AfterTranscriptUpdate(data, m))
  BY <1>3, TranscriptUpdateGood, TranscriptUpdateStep DEF Proper, Ledger
<1> QED BY <1>1, <1>3, <1>4, <1>5 DEF Stepped

LEMMA AcceptTranscriptFinalSteps ==
  ASSUME Proper(data), AcceptTranscriptFinal
  PROVE  Stepped
<1>1. PICK m \in AnyTranscriptFinals :
        Accepts(data, m) /\ data' = After(data, m)
  BY Unbounded DEF AcceptTranscriptFinal, Accept
<1>2. m.type = "transcript.final"
  BY DEF AnyTranscriptFinals
<1>3. data.connection_state = "ready" /\ CanAcceptTranscriptFinal(data, m)
  BY <1>1, <1>2 DEF Accepts, CanAcceptHello, CanHandle
<1>4. After(data, m) = AfterTranscriptFinal(data, m)
  BY <1>2, <1>3 DEF After
<1>5. Good(AfterTranscriptFinal(data, m)) /\ Step(data, AfterTranscriptFinal(data, m))
  BY <1>3, TranscriptFinalGood, TranscriptFinalStep DEF Proper, Ledger
<1> QED BY <1>1, <1>3, <1>4, <1>5 DEF Stepped

LEMMA StartResponseSteps ==
  ASSUME Proper(data), StartResponse
  PROVE  Stepped
<1>1. PICK m \in AnyResponseStarts :
        Accepts(data, m) /\ data' = After(data, m)
  BY Unbounded DEF StartResponse, Accept
<1>2. m.type = "response.start"
  BY DEF AnyResponseStarts
<1>3. data.connection_state = "ready" /\ CanStartResponse(data, m)
  BY <1>1, <1>2 DEF Accepts, CanAcceptHello, CanHandle
<1>4. After(data, m) = AfterStartResponse(data, m)
  BY <1>2, <1>3 DEF After
<1>5. Good(AfterStartResponse(data, m)) /\ Step(data, AfterStartResponse(data, m))
  BY <1>3, StartResponseGood, StartResponseStep DEF Proper, Ledger
<1> QED BY <1>1, <1>3, <1>4, <1>5 DEF Stepped

LEMMA AcceptResponseTextDeltaSteps ==
  ASSUME Proper(data), AcceptResponseTextDelta
  PROVE  Stepped
<1>1. PICK m \in AnyTextDeltas :
        Accepts(data, m) /\ data' = After(data, m)
  BY Unbounded DEF AcceptResponseTextDelta, Accept
<1>2. m.type = "response.text.delta"
  BY DEF AnyTextDeltas
<1>3. data.connection_state = "ready" /\ CanAcceptTextDelta(data, m)
  BY <1>1, <1>2 DEF Accepts, CanAcceptHello, CanHandle
<1>4. After(data, m) = AfterTextDelta(data, m)
  BY <1>2, <1>3 DEF After
<1>5. Good(AfterTextDelta(data, m)) /\ Step(data, AfterTextDelta(data, m))
  BY <1>3, TextDeltaGood, TextDeltaStep DEF Proper, Ledger
<1> QED BY <1>1, <1>3, <1>4, <1>5 DEF Stepped

LEMMA AcceptResponseTextFinalSteps ==
  ASSUME Proper(data), AcceptResponseTextFinal
  PROVE  Stepped
<1>1. PICK m \in AnyTextFinals :
        Accepts(data, m) /\ data' = After(data, m)
  BY Unbounded DEF AcceptResponseTextFinal, Accept
<1>2. m.type = "response.text.final"
  BY DEF AnyTextFinals
<1>3. data.connection_state = "ready" /\ CanAcceptTextFinal(data, m)
  BY <1>1, <1>2 DEF Accepts, CanAcceptHello, CanHandle
<1>4. After(data, m) = AfterTextFinal(data, m)
  BY <1>2, <1>3 DEF After
<1>5. Good(AfterTextFinal(data, m)) /\ Step(data, AfterTextFinal(data, m))
  BY <1>3, TextFinalGood, TextFinalStep DEF Proper, Ledger
<1> QED BY <1>1, <1>3, <1>4, <1>5 DEF Stepped

LEMMA StartOutputSteps ==
  ASSUME Proper(data), StartOutput
  PROVE  Stepped
<1>1. PICK m \in AnyOutputStarts :
        Accepts(data, m) /\ data' = After(data, m)
  BY Unbounded DEF StartOutput, Accept
<1>2. m.type = "output.start"
  BY DEF AnyOutputStarts
<1>3. data.connection_state = "ready" /\ CanStartOutput(data, m)
  BY <1>1, <1>2 DEF Accepts, CanAcceptHello, CanHandle
<1>4. After(data, m) = AfterStartOutput(data, m)
  BY <1>2, <1>3 DEF After
<1>5. Good(AfterStartOutput(data, m)) /\ Step(data, AfterStartOutput(data, m))
  BY <1>3, StartOutputGood, StartOutputStep DEF Proper, Ledger
<1> QED BY <1>1, <1>3, <1>4, <1>5 DEF Stepped

LEMMA AcceptOutputAudioSteps ==
  ASSUME Proper(data), AcceptOutputAudio
  PROVE  Stepped
<1>1. PICK m \in AnyOutputAudios :
        Accepts(data, m) /\ data' = After(data, m)
  BY Unbounded DEF AcceptOutputAudio, Accept
<1>2. m.type = "output.audio"
  BY DEF AnyOutputAudios
<1>3. data.connection_state = "ready" /\ CanAcceptOutputAudio(data, m)
  BY <1>1, <1>2 DEF Accepts, CanAcceptHello, CanHandle
<1>4. After(data, m) = AfterOutputAudio(data, m)
  BY <1>2, <1>3 DEF After
<1>5. Good(AfterOutputAudio(data, m)) /\ Step(data, AfterOutputAudio(data, m))
  BY <1>3, OutputAudioGood, OutputAudioStep DEF Proper, Ledger
<1> QED BY <1>1, <1>3, <1>4, <1>5 DEF Stepped

LEMMA EndOutputSteps ==
  ASSUME Proper(data), EndOutput
  PROVE  Stepped
<1>1. PICK m \in AnyOutputEnds :
        Accepts(data, m) /\ data' = After(data, m)
  BY Unbounded DEF EndOutput, Accept
<1>2. m.type = "output.end"
  BY DEF AnyOutputEnds
<1>3. data.connection_state = "ready" /\ CanEndOutput(data, m)
  BY <1>1, <1>2 DEF Accepts, CanAcceptHello, CanHandle
<1>4. After(data, m) = AfterEndOutput(data, m)
  BY <1>2, <1>3 DEF After
<1>5. Good(AfterEndOutput(data, m)) /\ Step(data, AfterEndOutput(data, m))
  BY <1>3, EndOutputGood, EndOutputStep DEF Proper, Ledger
<1> QED BY <1>1, <1>3, <1>4, <1>5 DEF Stepped

LEMMA EndResponseSteps ==
  ASSUME Proper(data), EndResponse
  PROVE  Stepped
<1>1. PICK m \in AnyResponseEnds :
        Accepts(data, m) /\ data' = After(data, m)
  BY Unbounded DEF EndResponse, Accept
<1>2. m.type = "response.end"
  BY DEF AnyResponseEnds
<1>3. data.connection_state = "ready" /\ CanEndResponse(data, m)
  BY <1>1, <1>2 DEF Accepts, CanAcceptHello, CanHandle
<1>4. After(data, m) = AfterEndResponse(data, m)
  BY <1>2, <1>3 DEF After
<1>5. Good(AfterEndResponse(data, m)) /\ Step(data, AfterEndResponse(data, m))
  BY <1>3, EndResponseGood, EndResponseStep DEF Proper, Ledger
<1> QED BY <1>1, <1>3, <1>4, <1>5 DEF Stepped

LEMMA CancelConversationSteps ==
  ASSUME Proper(data), CancelConversation
  PROVE  Stepped
<1>1. PICK m \in AnyConversationCancels :
        Accepts(data, m) /\ data' = After(data, m)
  BY Unbounded DEF CancelConversation, Accept
<1>2. m.type = "conversation.cancel"
  BY DEF AnyConversationCancels
<1>3. data.connection_state = "ready" /\ CanCancelConversation(data, m)
  BY <1>1, <1>2 DEF Accepts, CanAcceptHello, CanHandle
<1>4. After(data, m) = AfterCancelConversation(data, m)
  BY <1>2, <1>3 DEF After
<1>5. Good(AfterCancelConversation(data, m)) /\ Step(data, AfterCancelConversation(data, m))
  BY <1>3, CancelConversationGood, CancelConversationStep DEF Proper, Ledger
<1> QED BY <1>1, <1>3, <1>4, <1>5 DEF Stepped

LEMMA AcceptStateSteps ==
  ASSUME Proper(data), AcceptState
  PROVE  Stepped
<1>1. PICK m \in AnyStates :
        Accepts(data, m) /\ data' = After(data, m)
  BY Unbounded DEF AcceptState, Accept
<1>2. m.type = "state"
  BY DEF AnyStates, Positive
<1>3. data.connection_state = "ready" /\ CanAcceptState(data, m)
  BY <1>1, <1>2 DEF Accepts, CanAcceptHello, CanHandle
<1>4. After(data, m) = AfterState(data, m)
  BY <1>2, <1>3 DEF After
<1>5. Good(AfterState(data, m)) /\ Step(data, AfterState(data, m))
  BY <1>3, StateGood, StateStep DEF Proper, Ledger
<1> QED BY <1>1, <1>3, <1>4, <1>5 DEF Stepped

LEMMA CancelResponseSteps ==
  ASSUME Proper(data), CancelResponse
  PROVE  Stepped
<1>1. PICK m \in AnyResponseCancels :
        Accepts(data, m) /\ data' = After(data, m)
  BY Unbounded DEF CancelResponse, Accept
<1>2. /\ m.type = "response.cancelled" /\ m.response_id \in Ids
      /\ m.reason \in ResponseCancelReason
  BY DEF AnyResponseCancels
<1>3. data.connection_state = "ready" /\ CanCancelResponse(data, m)
  BY <1>1, <1>2 DEF Accepts, CanAcceptHello, CanHandle
<1>4. After(data, m) = AfterCancelResponse(data, m)
  BY <1>2, <1>3 DEF After
<1>5. Good(AfterCancelResponse(data, m)) /\ Step(data, AfterCancelResponse(data, m))
  BY <1>2, <1>3, CancelResponseGood, CancelResponseStep DEF Proper, Ledger
<1> QED BY <1>1, <1>3, <1>4, <1>5 DEF Stepped

LEMMA EndConversationSteps ==
  ASSUME Proper(data), EndConversation
  PROVE  Stepped
<1>1. PICK m \in AnyConversationEnds :
        Accepts(data, m) /\ data' = After(data, m)
  BY Unbounded DEF EndConversation, Accept
<1>2. /\ m.type = "conversation.end" /\ m.conversation_id \in Ids
      /\ m.reason \in ConversationEndReason
  BY DEF AnyConversationEnds
<1>3. data.connection_state = "ready" /\ CanEndConversation(data, m)
  BY <1>1, <1>2 DEF Accepts, CanAcceptHello, CanHandle
<1>4. After(data, m) = AfterEndConversation(data, m)
  BY <1>2, <1>3 DEF After
<1>5. Good(AfterEndConversation(data, m)) /\ Step(data, AfterEndConversation(data, m))
  BY <1>2, <1>3, EndConversationGood, EndConversationStep DEF Proper, Ledger
<1> QED BY <1>1, <1>3, <1>4, <1>5 DEF Stepped

LEMMA AcceptPlaybackOutcomeSteps ==
  ASSUME Proper(data), AcceptPlaybackOutcome
  PROVE  Stepped
<1>1. PICK m \in AnyPlaybackFinishes \cup AnyPlaybackInterrupts :
        Accepts(data, m) /\ data' = After(data, m)
  BY Unbounded DEF AcceptPlaybackOutcome, Accept
<1>2. m.type \in {"playback.finished", "playback.interrupted"}
  BY DEF AnyPlaybackFinishes, AnyPlaybackInterrupts
<1>3. data.connection_state = "ready" /\ CanAcceptPlaybackOutcome(data, m)
  BY <1>1, <1>2 DEF Accepts, CanAcceptHello, CanHandle
<1>4. After(data, m) = AfterPlaybackOutcome(data, m)
  BY <1>2, <1>3 DEF After
<1>5. Good(AfterPlaybackOutcome(data, m)) /\ Step(data, AfterPlaybackOutcome(data, m))
  BY <1>3, PlaybackOutcomeGood, PlaybackOutcomeStep DEF Proper, Ledger
<1> QED BY <1>1, <1>3, <1>4, <1>5 DEF Stepped

(* A fatal error closes, also during the handshake; any other error is a   *)
(* step of the rules.                                                      *)
LEMMA AcceptErrorSteps ==
  ASSUME Proper(data), AcceptError
  PROVE  Stepped \/ Closes
<1>1. PICK m \in AnyErrors : Accepts(data, m) /\ data' = After(data, m)
  BY Unbounded DEF AcceptError, Accept
<1>2. m.type = "error"
  BY DEF AnyErrors, ConnectionErrors, AnyConversationErrors, AnyInputErrors, AnyResponseErrors, Error
<1>3. CASE data.connection_state = "handshaking"
  <2>1. data' = [data EXCEPT !.connection_state = "closing"]
    BY <1>1, <1>2, <1>3 DEF After, AfterHello
  <2> QED BY <1>3, <2>1, ClosingCloses
<1>4. CASE data.connection_state # "handshaking"
  <2>1. data.connection_state = "ready" /\ CanAcceptError(data, m)
    BY <1>1, <1>2, <1>4 DEF Accepts, CanHandle
  <2>2. data' = AfterError(data, m)
    BY <1>1, <1>2, <1>4 DEF After
  <2>3. CASE m \in ConnectionErrors
    <3>1. m.scope = "connection"
      BY <2>3 DEF ConnectionErrors, Error
    <3>2. data' = [data EXCEPT !.connection_state = "closing"]
      BY <2>2, <3>1 DEF AfterError
    <3> QED BY <2>1, <3>2, ClosingCloses
  <2>4. CASE m \notin ConnectionErrors
    <3>1. Good(AfterError(data, m))
      BY <2>1, ErrorGood DEF Proper
    <3>2. Step(data, AfterError(data, m))
      BY <2>1, <2>4, ErrorStep DEF Proper, Ledger
    <3> QED BY <2>1, <2>2, <3>1, <3>2 DEF Stepped
  <2> QED BY <2>3, <2>4
<1> QED BY <1>3, <1>4

(* commit_input_audio asks for no state of the connection; before the      *)
(* handshake is over there is no input to commit.                          *)
LEMMA CommitSteps ==
  ASSUME Proper(data), CommitInputAudio
  PROVE  Stepped
<1>1. PICK i \in Ids, end \in 0..MaxInputFrames :
        CanCommitInputAudio(data, i, end) /\ data' = AfterCommitInputAudio(data, i, end)
  BY DEF CommitInputAudio
<1>2. end \in Nat
  BY ProtocolAssumption
<1>3. Good(data') /\ Step(data, data')
  BY <1>1, <1>2, CommitInputAudioGood, CommitInputAudioStep DEF Proper
<1>4. data.inputs[i].conversation_id # 0
  BY <1>1 DEF CanCommitInputAudio
<1>5. i < data.input_ids /\ i \in Nat /\ i # 0
  BY <1>4, Numbers DEF Proper, Good, Turns, Allocated
<1>6. data.input_ids # 1
  BY <1>5
<1>7. data.connection_state \notin {"disconnected", "handshaking"}
  BY <1>6 DEF Proper, Ledger, Fresh
<1> QED BY <1>3, <1>7 DEF Stepped

(* Every step of the specification is of one of the four kinds.            *)
LEMMA Kinds ==
  ASSUME Proper(data), Next
  PROVE  Stepped \/ StartsOver \/ Greets \/ Closes
<1>1. CASE TransportConnected
  BY <1>1, ConnectionSteps
<1>2. CASE TransportDisconnected
  BY <1>2, ConnectionSteps
<1>3. CASE BeginClose
  BY <1>3, BeginCloseSteps
<1>4. CASE AcceptHandshake
  BY <1>4, HandshakeSteps
<1>5. CASE StartConversation
  BY <1>5, StartConversationSteps
<1>6. CASE StartInput
  BY <1>6, StartInputSteps
<1>7. CASE AcceptInputAudio
  BY <1>7, AcceptInputAudioSteps
<1>8. CASE AbortInput
  BY <1>8, AbortInputSteps
<1>9. CASE CloseInput
  BY <1>9, CloseInputSteps
<1>10. CASE AcceptTranscriptUpdate
  BY <1>10, AcceptTranscriptUpdateSteps
<1>11. CASE AcceptTranscriptFinal
  BY <1>11, AcceptTranscriptFinalSteps
<1>12. CASE StartResponse
  BY <1>12, StartResponseSteps
<1>13. CASE AcceptResponseTextDelta
  BY <1>13, AcceptResponseTextDeltaSteps
<1>14. CASE AcceptResponseTextFinal
  BY <1>14, AcceptResponseTextFinalSteps
<1>15. CASE StartOutput
  BY <1>15, StartOutputSteps
<1>16. CASE AcceptOutputAudio
  BY <1>16, AcceptOutputAudioSteps
<1>17. CASE EndOutput
  BY <1>17, EndOutputSteps
<1>18. CASE EndResponse
  BY <1>18, EndResponseSteps
<1>19. CASE CancelConversation
  BY <1>19, CancelConversationSteps
<1>20. CASE AcceptState
  BY <1>20, AcceptStateSteps
<1>21. CASE CancelResponse
  BY <1>21, CancelResponseSteps
<1>22. CASE EndConversation
  BY <1>22, EndConversationSteps
<1>23. CASE AcceptPlaybackOutcome
  BY <1>23, AcceptPlaybackOutcomeSteps
<1>24. CASE AcceptError
  BY <1>24, AcceptErrorSteps
<1>25. CASE CommitInputAudio
  BY <1>25, CommitSteps
<1> QED
  BY <1>1, <1>2, <1>3, <1>4, <1>5, <1>6, <1>7, <1>8, <1>9, <1>10, <1>11, <1>12,
     <1>13, <1>14, <1>15, <1>16, <1>17, <1>18, <1>19, <1>20, <1>21, <1>22,
     <1>23, <1>24, <1>25
     DEF Next

-----------------------------------------------------------------------------
(* The invariants.                                                         *)

(* Every step of the validator, whichever message it accepts, keeps the    *)
(* data well formed, the turns in order and the history of the objects     *)
(* consistent.                                                             *)
THEOREM Inductive == Spec => []IInv
<1>1. Init => IInv
  BY NewDataProper DEF Init, IInv
<1>2. IInv /\ [Next]_data => IInv'
  <2> SUFFICES ASSUME Proper(data), [Next]_data PROVE Proper(data')
    BY DEF IInv
  <2>1. CASE Stepped
    <3>1. /\ Good(data) /\ Objects(data) /\ Ledger(data) /\ Intent(data)
          /\ Good(data') /\ Step(data, data')
          /\ data.connection_state \notin {"disconnected", "handshaking"}
      BY <2>1 DEF Proper, Stepped
    <3>2. Objects(data')
      BY <3>1, KeptObjects DEF Step
    <3>3. Ledger(data')
      BY <3>1, StepKeepsLedger
    <3>4. Intent(data')
      BY <3>1, StepKeepsIntent
    <3> QED BY <3>1, <3>2, <3>3, <3>4 DEF Proper
  <2>2. CASE StartsOver
    BY <2>2, NewDataProper DEF StartsOver
  <2>3. CASE Greets \/ Closes
    BY <2>3, SameTalkProper DEF Greets, Closes
  <2>4. CASE data' = data
    BY <2>4
  <2> QED BY <2>1, <2>2, <2>3, <2>4, Kinds
<1> QED BY <1>1, <1>2, PTL DEF Spec

(* The data of a validator is always well formed (_ValidatorData).         *)
THEOREM DataWellFormed == Spec => []TypeOK
<1>1. IInv => TypeOK
  BY DEF IInv, Proper, Good, TypeOK
<1> QED BY <1>1, Inductive, PTL

(* An open input excludes a current response, the current response is the  *)
(* one unfinished one and answers the current input, inputs and responses  *)
(* pair off: what the handlers assume when they look objects up.           *)
THEOREM TurnsHold == Spec => []TurnsOK
<1>1. IInv => TurnsOK
  BY DEF IInv, Proper, Good, TurnsOK
<1> QED BY <1>1, Inductive, PTL

(* "Conversations and user inputs are sequential": at most one input or    *)
(* response is in progress on a connection, in an open conversation.       *)
THEOREM OneSpeakerHolds == Spec => []OneSpeakerAtATime
<1>1. IInv => OneSpeakerAtATime
  <2> SUFFICES ASSUME Good(data) PROVE OneSpeaker(data)
    BY DEF IInv, Proper, OneSpeakerAtATime
  <2> DEFINE Listening == {i \in Ids : OpenInput(data.inputs[i])}
             Answering == {r \in Ids : Unfinished(data.responses[r])}
             speaking == {<<"input", i>> : i \in Listening}
                         \cup {<<"response", r>> : r \in Answering}
  <2>1. /\ \A i \in Listening : /\ data.conversation.input_id = i
                                /\ data.conversation.response_id = 0
                                /\ data.conversation.id # 0
    BY DEF Good, Turns, InputTurn, OpenInput
  <2>2. \A r \in Answering : data.conversation.response_id = r /\ r # 0
                             /\ data.conversation.id # 0
    BY NoneIds DEF Good, Turns, ResponseTurn, Unfinished
  <2> HIDE DEF Listening, Answering
  <2>3. \A s, t \in speaking : s = t
    BY <2>1, <2>2
  <2>4. speaking # {} => data.conversation.id # 0
    BY <2>1, <2>2
  <2> QED BY <2>3, <2>4 DEF OneSpeaker, Listening, Answering
<1> QED BY <1>1, Inductive, PTL

(* Only whole chunks the peer sent are committed, and a closed input        *)
(* accepted what was committed, however much audio arrives late            *)
(* (_accept_input_audio, _commit_input_audio, _close_input).               *)
THEOREM ChunksCommitted == Spec => []CommitsWholeChunks
<1>1. IInv => CommitsWholeChunks
  BY DEF IInv, Proper, Objects, CommitsWholeChunks
<1> QED BY <1>1, Inductive, PTL

(* Playback never claims more than was sent, and finishes only when all of *)
(* it was (_accept_playback_outcome against the output handlers).          *)
THEOREM PlayedIsSent == Spec => []PlaysWhatWasSent
<1>1. IInv => PlaysWhatWasSent
  BY DEF IInv, Proper, Objects, PlaysWhatWasSent
<1> QED BY <1>1, Inductive, PTL

(* Whatever silences a response, an interrupted playback, its own failure, *)
(* that of its conversation or a barge-in, makes what follows of it stale. *)
THEOREM SilencedAreStale == Spec => []SilencedIsStale
<1>1. IInv => SilencedIsStale
  BY SilencedStale DEF IInv, Proper, Ledger, SilencedIsStale
<1> QED BY <1>1, Inductive, PTL

(* On the server a failure is terminal in the step that records it         *)
(* (_fail_input, _fail_response, _fail_conversation).                      *)
THEOREM FailureIsTerminal == Spec => []ServerFailsAtOnce
<1>1. IInv => ServerFailsAtOnce
  BY DEF IInv, Proper, Ledger, ServerLives, Objects, FailedAtOnce, ServerFailsAtOnce
<1> QED BY <1>1, Inductive, PTL

(* A response that was to end its conversation and played to its end is    *)
(* the last of it; one cut short by a barge-in ends nothing.               *)
THEOREM IntentIsHonoured == Spec => []TerminalIntent
<1>1. IInv => TerminalIntent
  BY DEF IInv, Proper, Intent, TerminalIntent
<1> QED BY <1>1, Inductive, PTL

(* While a connection lasts, no handler undoes a terminal fact.            *)
THEOREM TerminalStays == Spec => TerminalIsFinal
<1>1. IInv /\ [Next]_data => [Settled]_data
  <2> SUFFICES ASSUME Proper(data), Next,
                      data'.connection_state \in {"ready", "closing"},
                      data.connection_state = "ready"
               PROVE  Settled
    BY DEF IInv, Settled
  <2>1. ~ StartsOver
    BY DEF StartsOver, NewData
  <2>2. CASE Stepped
    <3>1. Kept(data, data')
      BY <2>2 DEF Stepped, Step
    <3>2. \A i \in Ids :
            /\ data.inputs[i].terminal # NoTerminal =>
                 data'.inputs[i].terminal = data.inputs[i].terminal
            /\ data.inputs[i].final # "none" => data'.inputs[i].final = data.inputs[i].final
            /\ data.inputs[i].failure # "none" =>
                 data'.inputs[i].failure = data.inputs[i].failure
            /\ data.inputs[i].boundaries \subseteq data'.inputs[i].boundaries
      BY <3>1 DEF Kept, InputKept
    <3>3. \A r \in Ids :
            /\ IsCancelled(data.responses[r]) =>
                 data'.responses[r].terminal = data.responses[r].terminal
            /\ data.responses[r].playback # NoPlayback =>
                 data'.responses[r].playback = data.responses[r].playback
            /\ data.responses[r].stale => data'.responses[r].stale
            /\ data.responses[r].end => data'.responses[r].end
      BY <3>1 DEF Kept, ResponseKept
    <3> QED BY <3>1, <3>2, <3>3 DEF Settled, Kept
  <2>3. CASE Greets \/ Closes
    BY <2>3 DEF Greets, Closes, SameTalk, Settled
  <2> QED BY <2>1, <2>2, <2>3, Kinds
<1> QED BY <1>1, Inductive, PTL DEF Spec, TerminalIsFinal
-----------------------------------------------------------------------------
(* The refinement of Turn.                                                 *)

(* The counts of Turn are numbers of identifiers.                          *)
LEMMA Counts ==
  ASSUME NEW d \in Data, d.connection_state = "ready"
  PROVE  LET conversations == Count(d, d.conversation_ids)
             inputs == Count(d, d.input_ids)
         IN
         /\ conversations \in Nat /\ conversations + 1 = d.conversation_ids
         /\ inputs \in Nat /\ inputs + 1 = d.input_ids
         /\ conversations # 0 => conversations \in Ids
         /\ 1..inputs \subseteq Ids
         /\ AnswersOf(d) = {i \in 1..inputs : d.inputs[i].response_id # 0}
         /\ LastOutcome(d) = IF conversations = 0 THEN "none"
                             ELSE d.ended_conversations[conversations]
<1>1. /\ MaxId \in Nat /\ Ids = 1..MaxId
      /\ d.conversation_ids \in 1..(MaxId + 1) /\ d.input_ids \in 1..(MaxId + 1)
  BY ProtocolAssumption DEF Data, NextIds, Ids
<1>2. /\ Count(d, d.conversation_ids) = d.conversation_ids - 1
      /\ Count(d, d.input_ids) = d.input_ids - 1
  BY DEF Count
<1>3. /\ AnswersOf(d) = {i \in 1..Count(d, d.input_ids) : d.inputs[i].response_id # 0}
      /\ LastOutcome(d) = IF Count(d, d.conversation_ids) = 0 THEN "none"
                          ELSE d.ended_conversations[Count(d, d.conversation_ids)]
  BY DEF AnswersOf, LastOutcome
<1> QED BY <1>1, <1>2, <1>3

(* A connection that is not ready is off.                                  *)
LEMMA OffView ==
  ASSUME NEW d, d.connection_state # "ready"
  PROVE  /\ PhaseOf(d) = "off"
         /\ Count(d, d.conversation_ids) = 0 /\ Count(d, d.input_ids) = 0
         /\ AnswersOf(d) = {} /\ LastOutcome(d) = "none"
<1>1. Count(d, d.conversation_ids) = 0 /\ Count(d, d.input_ids) = 0
  BY DEF Count
<1>2. AnswersOf(d) = {i \in 1..0 : d.inputs[i].response_id # 0}
  BY <1>1 DEF AnswersOf
<1> QED BY <1>1, <1>2 DEF PhaseOf, LastOutcome

(* One that has just become ready is silent.                               *)
LEMMA SilentView ==
  ASSUME NEW d, d.connection_state = "ready", d.conversation.id = 0,
         d.conversation_ids = 1, d.input_ids = 1
  PROVE  /\ PhaseOf(d) = "silent"
         /\ Count(d, d.conversation_ids) = 0 /\ Count(d, d.input_ids) = 0
         /\ AnswersOf(d) = {} /\ LastOutcome(d) = "none"
<1>1. Count(d, d.conversation_ids) = 0 /\ Count(d, d.input_ids) = 0
  BY DEF Count
<1>2. AnswersOf(d) = {i \in 1..0 : d.inputs[i].response_id # 0}
  BY <1>1 DEF AnswersOf
<1> QED BY <1>1, <1>2 DEF PhaseOf, LastOutcome

(* What most moves leave alone.                                            *)
SameView(d, e) ==
  /\ Count(e, e.conversation_ids) = Count(d, d.conversation_ids)
  /\ Count(e, e.input_ids) = Count(d, d.input_ids)
  /\ AnswersOf(e) = AnswersOf(d)

LEMMA SameObjectsView ==
  ASSUME NEW d \in Data, NEW e \in Data, SameObjects(d, e),
         d.connection_state = "ready"
  PROVE  SameView(d, e)
<1>1. e.connection_state = "ready" /\ e.input_ids = d.input_ids
      /\ e.conversation_ids = d.conversation_ids
      /\ \A i \in Ids : e.inputs[i].response_id = d.inputs[i].response_id
  BY DEF SameObjects
<1>2. Count(e, e.conversation_ids) = Count(d, d.conversation_ids)
      /\ Count(e, e.input_ids) = Count(d, d.input_ids)
  BY <1>1 DEF Count
<1>3. 1..Count(d, d.input_ids) \subseteq Ids
  BY Counts
<1> QED BY <1>1, <1>2, <1>3 DEF SameView, AnswersOf

LEMMA SameEndingsView ==
  ASSUME NEW d, NEW e, SameView(d, e), SameEndings(d, e)
  PROVE  LastOutcome(e) = LastOutcome(d)
BY DEF SameView, SameEndings, LastOutcome

(* Whose turn it is in a conversation that lives.                          *)
LEMMA AliveView ==
  ASSUME NEW d, d.connection_state = "ready", Alive(d)
  PROVE  PhaseOf(d) = IF d.conversation.expected_end_reason # "none" THEN "ending"
                      ELSE IF d.conversation.response_id # 0 THEN "responding"
                      ELSE IF d.conversation.input_id = 0 THEN "waiting"
                      ELSE IF d.inputs[d.conversation.input_id].terminal = NoTerminal
                           THEN "listening" ELSE "processing"
BY DEF PhaseOf, Alive

(* An input may close, and then the user falls silent.                     *)
LEMMA SteadyView ==
  ASSUME NEW d, NEW e, Good(d), Good(e), d.connection_state = "ready",
         Kept(d, e), Steady(d, e)
  PROVE  /\ SameView(d, e) /\ LastOutcome(e) = LastOutcome(d)
         /\ \/ PhaseOf(e) = PhaseOf(d)
            \/ PhaseOf(d) = "listening" /\ PhaseOf(e) = "processing"
<1> DEFINE c == d.conversation
           i == c.input_id
<1>1. SameObjects(d, e) /\ SameEndings(d, e) /\ SameFate(d, e) /\ SameTurn(d, e)
  BY DEF Steady
<1>2. SameView(d, e) /\ LastOutcome(e) = LastOutcome(d)
  BY <1>1, SameObjectsView, SameEndingsView DEF Good
<1>3. e.connection_state = "ready"
  BY <1>1 DEF SameObjects
<1>4. /\ e.conversation.id = c.id /\ e.conversation.cancel = c.cancel
      /\ e.conversation.failure = c.failure
      /\ e.conversation.expected_end_reason = c.expected_end_reason
      /\ e.conversation.response_id = c.response_id /\ e.conversation.input_id = i
  BY <1>1 DEF SameFate, SameTurn
<1>5. CASE i # 0 /\ d.inputs[i].terminal = NoTerminal /\ e.inputs[i].terminal # NoTerminal
  BY <1>3, <1>4, <1>5, <1>2 DEF PhaseOf
<1>6. CASE ~ (i # 0 /\ d.inputs[i].terminal = NoTerminal /\ e.inputs[i].terminal # NoTerminal)
  <2>1. i # 0 => (e.inputs[i].terminal = NoTerminal <=> d.inputs[i].terminal = NoTerminal)
    <3>1. i # 0 => i \in Ids
      BY Numbers DEF Good
    <3> QED BY <1>6, <3>1 DEF Kept, InputKept
  <2>2. PhaseOf(e) = PhaseOf(d)
    BY <1>3, <1>4, <2>1 DEF PhaseOf
  <2> QED BY <1>2, <2>2
<1> QED BY <1>5, <1>6

(* The answer is over; in a doomed conversation that is no turn.           *)
LEMMA ReleasesView ==
  ASSUME NEW d, NEW e, Good(d), Good(e), d.connection_state = "ready", Releases(d, e)
  PROVE  /\ SameView(d, e) /\ LastOutcome(e) = LastOutcome(d)
         /\ \/ PhaseOf(e) = PhaseOf(d)
            \/ PhaseOf(d) = "responding" /\ PhaseOf(e) \in {"waiting", "ending"}
<1>1. /\ SameObjects(d, e) /\ SameEndings(d, e) /\ SameFate(d, e)
      /\ d.conversation.response_id # 0
      /\ e.conversation.input_id = 0 /\ e.conversation.response_id = 0
  BY DEF Releases
<1>2. SameView(d, e) /\ LastOutcome(e) = LastOutcome(d)
  BY <1>1, SameObjectsView, SameEndingsView DEF Good
<1>3. d.conversation.id # 0 /\ d.conversation.expected_end_reason = "none"
  BY <1>1, CurrentResponse
<1>4. e.connection_state = "ready"
  BY <1>1 DEF SameObjects
<1> QED BY <1>1, <1>2, <1>3, <1>4 DEF PhaseOf, SameFate

LEMMA OpensView ==
  ASSUME NEW d, NEW e, Good(d), Good(e), Past(d), d.connection_state = "ready", Opens(d, e)
  PROVE  /\ PhaseOf(d) = "silent" /\ PhaseOf(e) = "waiting"
         /\ Count(e, e.conversation_ids) = Count(d, d.conversation_ids) + 1
         /\ LastOutcome(e) = "none"
         /\ Count(e, e.input_ids) = Count(d, d.input_ids) /\ AnswersOf(e) = AnswersOf(d)
<1>1. /\ e.connection_state = "ready" /\ e.inputs = d.inputs /\ e.input_ids = d.input_ids
      /\ e.conversation_ids = d.conversation_ids + 1
      /\ e.ended_conversations = d.ended_conversations /\ d.conversation.id = 0
      /\ e.conversation = [NoConversation EXCEPT !.id = d.conversation_ids]
  BY DEF Opens, SameEndings
<1>2. d \in Data /\ e \in Data
  BY DEF Good
<1>3. /\ e.conversation.id = d.conversation_ids /\ e.conversation.cancel = "none"
      /\ e.conversation.failure = "none" /\ e.conversation.expected_end_reason = "none"
      /\ e.conversation.response_id = 0 /\ e.conversation.input_id = 0
  BY <1>1 DEF NoConversation
<1>4. /\ Count(d, d.conversation_ids) \in Nat
      /\ Count(d, d.conversation_ids) + 1 = d.conversation_ids
      /\ Count(e, e.conversation_ids) \in Nat
      /\ Count(e, e.conversation_ids) + 1 = e.conversation_ids
      /\ Count(e, e.conversation_ids) # 0 => Count(e, e.conversation_ids) \in Ids
      /\ LastOutcome(e) = IF Count(e, e.conversation_ids) = 0 THEN "none"
                          ELSE e.ended_conversations[Count(e, e.conversation_ids)]
  BY <1>1, <1>2, Counts
<1>5. /\ Count(e, e.conversation_ids) = Count(d, d.conversation_ids) + 1
      /\ Count(e, e.conversation_ids) = d.conversation_ids
      /\ d.conversation_ids # 0 /\ d.conversation_ids \in Ids /\ d.conversation_ids \in Nat
  BY <1>1, <1>4
<1>6. d.ended_conversations[d.conversation_ids] = "none"
  BY <1>5 DEF Past
<1>7. LastOutcome(e) = "none"
  BY <1>1, <1>4, <1>5, <1>6
<1>8. PhaseOf(d) = "silent" /\ PhaseOf(e) = "waiting"
  BY <1>1, <1>3, <1>5 DEF PhaseOf
<1>9. Count(e, e.input_ids) = Count(d, d.input_ids)
  BY <1>1 DEF Count
<1>10. AnswersOf(e) = AnswersOf(d)
  BY <1>1, <1>9 DEF AnswersOf
<1> QED BY <1>5, <1>7, <1>8, <1>9, <1>10

LEMMA SpeaksView ==
  ASSUME NEW d, NEW e, Good(d), Good(e), d.connection_state = "ready", Speaks(d, e)
  PROVE  /\ PhaseOf(d) \in {"waiting", "responding"} /\ PhaseOf(e) = "listening"
         /\ Count(e, e.input_ids) = Count(d, d.input_ids) + 1
         /\ Count(e, e.conversation_ids) = Count(d, d.conversation_ids)
         /\ AnswersOf(e) = AnswersOf(d) /\ LastOutcome(e) = LastOutcome(d)
<1> DEFINE n == Count(d, d.input_ids)
           i == d.input_ids
<1>1. /\ e.connection_state = "ready" /\ e.conversation_ids = d.conversation_ids
      /\ e.input_ids = d.input_ids + 1 /\ SameEndings(d, e) /\ SameFate(d, e)
      /\ Alive(d) /\ d.conversation.expected_end_reason = "none"
      /\ d.conversation.response_id # 0 \/ d.conversation.input_id = 0
      /\ i \in Ids /\ e.inputs[i].terminal = NoTerminal /\ e.inputs[i].response_id = 0
      /\ \A k \in Ids : k # i => e.inputs[k] = d.inputs[k]
      /\ e.conversation.input_id = i /\ e.conversation.response_id = 0
      /\ e.conversation.expected_end_reason = "none"
  BY DEF Speaks
<1>2. d \in Data /\ e \in Data
  BY DEF Good
<1>3. Alive(e) /\ i # 0
  BY <1>1, NoneIds DEF Alive, SameFate
<1>4. PhaseOf(d) \in {"waiting", "responding"}
  BY <1>1, AliveView
<1>5. PhaseOf(e) = "listening"
  BY <1>1, <1>3, AliveView
<1>6. Count(e, e.conversation_ids) = Count(d, d.conversation_ids)
  BY <1>1 DEF Count
<1>7. LastOutcome(e) = LastOutcome(d)
  BY <1>1, <1>6 DEF LastOutcome, SameEndings
<1>8. /\ n \in Nat /\ n + 1 = i /\ 1..n \subseteq Ids
      /\ AnswersOf(d) = {k \in 1..n : d.inputs[k].response_id # 0}
  BY <1>1, <1>2, Counts
<1>9. Count(e, e.input_ids) = n + 1
      /\ AnswersOf(e) = {k \in 1..(n + 1) : e.inputs[k].response_id # 0}
  <2>1. Count(e, e.input_ids) \in Nat /\ Count(e, e.input_ids) + 1 = e.input_ids
        /\ AnswersOf(e) = {k \in 1..Count(e, e.input_ids) : e.inputs[k].response_id # 0}
    BY <1>1, <1>2, Counts
  <2>2. Count(e, e.input_ids) = n + 1
    BY <1>1, <1>8, <2>1
  <2> QED BY <2>1, <2>2
<1> HIDE DEF n
<1>10. AnswersOf(e) = AnswersOf(d)
  <2>1. \A k \in 1..n : e.inputs[k] = d.inputs[k]
    BY <1>1, <1>8
  <2>2. e.inputs[n + 1].response_id = 0
    BY <1>1, <1>8
  <2>3. ASSUME NEW k PROVE k \in 1..(n + 1) <=> (k \in 1..n \/ k = n + 1)
    BY <1>8
  <2> QED BY <1>8, <1>9, <2>1, <2>2, <2>3
<1> QED BY <1>4, <1>5, <1>6, <1>7, <1>9, <1>10 DEF n

LEMMA AnswersView ==
  ASSUME NEW d, NEW e, Good(d), Good(e), Newest(d), d.connection_state = "ready",
         Answers(d, e)
  PROVE  /\ PhaseOf(d) = "processing" /\ PhaseOf(e) = "responding"
         /\ Count(d, d.input_ids) \notin AnswersOf(d)
         /\ AnswersOf(e) = AnswersOf(d) \cup {Count(d, d.input_ids)}
         /\ Count(e, e.input_ids) = Count(d, d.input_ids)
         /\ Count(e, e.conversation_ids) = Count(d, d.conversation_ids)
         /\ LastOutcome(e) = LastOutcome(d)
<1> DEFINE n == Count(d, d.input_ids)
           r == d.response_ids
           i == d.conversation.input_id
<1>1. /\ e.connection_state = "ready" /\ e.conversation_ids = d.conversation_ids
      /\ e.input_ids = d.input_ids /\ SameEndings(d, e) /\ SameFate(d, e)
      /\ Alive(d) /\ d.conversation.expected_end_reason = "none"
      /\ d.conversation.response_id = 0 /\ i \in Ids /\ r \in Ids
      /\ d.inputs[i].terminal # NoTerminal /\ d.inputs[i].response_id = 0
      /\ \A k \in Ids : e.inputs[k].response_id = IF k = i THEN r ELSE d.inputs[k].response_id
      /\ e.conversation.response_id = r /\ e.conversation.expected_end_reason = "none"
  BY DEF Answers
<1>2. Alive(e) /\ i # 0 /\ r # 0
  BY <1>1, NoneIds DEF Alive, SameFate
<1>3. PhaseOf(d) = "processing"
  BY <1>1, <1>2, AliveView
<1>4. PhaseOf(e) = "responding"
  BY <1>1, <1>2, AliveView
<1>5. Count(e, e.conversation_ids) = Count(d, d.conversation_ids) /\ Count(e, e.input_ids) = n
  BY <1>1 DEF Count
<1>6. LastOutcome(e) = LastOutcome(d)
  BY <1>1, <1>5 DEF LastOutcome, SameEndings
<1>7. /\ n \in Nat /\ n + 1 = d.input_ids /\ 1..n \subseteq Ids
      /\ AnswersOf(d) = {k \in 1..n : d.inputs[k].response_id # 0}
  BY <1>1, Counts DEF Good
<1>8. AnswersOf(e) = {k \in 1..n : e.inputs[k].response_id # 0}
  BY <1>5 DEF AnswersOf
<1>9. n = i /\ n \in 1..n
  <2>1. i + 1 = d.input_ids
    BY <1>2 DEF Newest
  <2>2. i \in Nat
    BY <1>1 DEF Ids
  <2> QED BY <1>2, <1>7, <2>1, <2>2
<1> HIDE DEF n
<1>10. n \notin AnswersOf(d)
  BY <1>1, <1>7, <1>9
<1>11. AnswersOf(e) = AnswersOf(d) \cup {n}
  BY <1>1, <1>2, <1>7, <1>8, <1>9
<1> QED BY <1>3, <1>4, <1>5, <1>6, <1>10, <1>11 DEF n

(* A cancellation or a failure on a client dooms what lives.               *)
LEMMA DoomView ==
  ASSUME NEW d, NEW e, Good(d), Good(e), d.connection_state = "ready",
         Cancels(d, e) \/ Fails(d, e)
  PROVE  /\ SameView(d, e) /\ LastOutcome(e) = LastOutcome(d)
         /\ \/ PhaseOf(e) = PhaseOf(d)
            \/ PhaseOf(d) \in T!Living /\ PhaseOf(e) \in T!Doomed
<1>1. /\ SameObjects(d, e) /\ SameEndings(d, e)
      /\ e.conversation.id = d.conversation.id /\ d.conversation.id # 0
      /\ d.conversation.failure = "none"
      /\ e.conversation.cancel # "none" \/ (d.conversation.cancel = "none"
                                            /\ e.conversation.failure # "none")
  BY DEF Cancels, Fails, Alive
<1>2. SameView(d, e) /\ LastOutcome(e) = LastOutcome(d)
  BY <1>1, SameObjectsView, SameEndingsView DEF Good
<1>3. e.connection_state = "ready"
  BY <1>1 DEF SameObjects
<1>4. PhaseOf(e) \in {"cancelled", "failed"}
  BY <1>1, <1>3 DEF PhaseOf
<1>5. CASE d.conversation.cancel # "none"
  <2>1. Cancels(d, e)
    BY <1>5 DEF Fails, Alive
  <2>2. PhaseOf(d) = "cancelled" /\ PhaseOf(e) = "cancelled"
    BY <1>1, <1>3, <1>5, <2>1 DEF PhaseOf, Cancels
  <2> QED BY <1>2, <2>2
<1>6. CASE d.conversation.cancel = "none"
  <2>1. PhaseOf(d) \in T!Living
    BY <1>1, <1>6, AliveView DEF T!Living, Alive
  <2> QED BY <1>2, <1>4, <2>1 DEF T!Doomed
<1> QED BY <1>5, <1>6

LEMMA GivesUpView ==
  ASSUME NEW d, NEW e, Good(d), Good(e), d.connection_state = "ready", GivesUp(d, e)
  PROVE  /\ SameView(d, e) /\ LastOutcome(e) = LastOutcome(d)
         /\ PhaseOf(d) \in {"listening", "processing"} /\ PhaseOf(e) = "waiting"
<1>1. /\ SameObjects(d, e) /\ SameEndings(d, e) /\ SameFate(d, e) /\ Alive(d)
      /\ d.conversation.expected_end_reason = "none"
      /\ d.conversation.input_id # 0 /\ d.conversation.response_id = 0
      /\ e.conversation.input_id = 0 /\ e.conversation.response_id = 0
      /\ e.conversation.expected_end_reason = "none"
  BY DEF GivesUp
<1>2. SameView(d, e) /\ LastOutcome(e) = LastOutcome(d)
  BY <1>1, SameObjectsView, SameEndingsView DEF Good
<1>3. e.connection_state = "ready" /\ Alive(e)
  BY <1>1 DEF SameObjects, SameFate, Alive
<1>4. PhaseOf(d) \in {"listening", "processing"}
  BY <1>1, AliveView
<1>5. PhaseOf(e) = "waiting"
  BY <1>1, <1>3, AliveView
<1> QED BY <1>2, <1>4, <1>5

LEMMA EndsView ==
  ASSUME NEW d, NEW e, Good(d), Good(e), Newest(d), d.connection_state = "ready",
         Ends(d, e)
  PROVE  /\ SameView(d, e) /\ PhaseOf(e) = "silent"
         /\ \/ /\ PhaseOf(d) \in {"waiting", "processing", "ending"} \cup T!Doomed
               /\ LastOutcome(e) \in T!Outcomes
               /\ PhaseOf(d) = "cancelled" => LastOutcome(e) = "cancelled"
               /\ PhaseOf(d) = "failed" => LastOutcome(e) \in T!Failures
            \/ /\ PhaseOf(d) \in T!Living
               /\ \/ LastOutcome(e) \in T!Failures
                  \/ PhaseOf(d) = "responding" /\ LastOutcome(e) = "cancelled"
<1> DEFINE c == d.conversation
           reason == e.ended_conversations[c.id]
<1>1. /\ SameObjects(d, e) /\ c.id \in Ids /\ reason \in ConversationEndReason
      /\ e.conversation = NoConversation
      /\ EndsQuiet(d, reason) \/ EndsFailed(d, reason)
  BY DEF Ends
<1>2. SameView(d, e)
  BY <1>1, SameObjectsView DEF Good
<1>3. e.connection_state = "ready" /\ e.conversation_ids = d.conversation_ids
  BY <1>1 DEF SameObjects
<1>4. PhaseOf(e) = "silent"
  BY <1>1, <1>3 DEF PhaseOf, NoConversation
<1>5. c.id # 0
  BY <1>1, NoneIds
<1>6. LastOutcome(e) = reason
  <2>1. c.id + 1 = e.conversation_ids
    BY <1>3, <1>5 DEF Newest
  <2>2. Count(e, e.conversation_ids) \in Nat
        /\ Count(e, e.conversation_ids) + 1 = e.conversation_ids
        /\ LastOutcome(e) = IF Count(e, e.conversation_ids) = 0 THEN "none"
                            ELSE e.ended_conversations[Count(e, e.conversation_ids)]
    BY <1>3, Counts DEF Good
  <2>3. c.id \in Nat
    BY <1>1 DEF Ids
  <2>4. Count(e, e.conversation_ids) = c.id
    BY <2>1, <2>2, <2>3
  <2> QED BY <1>5, <2>2, <2>4
<1> HIDE DEF reason
<1>7. reason \in T!Outcomes
  BY <1>1 DEF ConversationEndReason, T!Outcomes, T!Failures
<1>8. CASE EndsQuiet(d, reason)
  <2>1. /\ c.response_id = 0
        /\ c.input_id # 0 => d.inputs[c.input_id].terminal # NoTerminal
        /\ c.cancel # "none" => reason = "cancelled"
        /\ c.failure # "none" => reason = FailureEndReason(c.failure)
    BY <1>8 DEF EndsQuiet
  <2>2. PhaseOf(d) \in {"waiting", "processing", "ending"} \cup T!Doomed
    BY <1>5, <2>1 DEF PhaseOf, T!Doomed
  <2>3. PhaseOf(d) = "cancelled" => c.cancel # "none"
    BY DEF PhaseOf
  <2>4. PhaseOf(d) = "failed" => c.failure # "none"
    BY DEF PhaseOf
  <2>5. FailureEndReason(c.failure) \in T!Failures
    BY DEF FailureEndReason, T!Failures
  <2> QED BY <1>2, <1>4, <1>6, <1>7, <2>1, <2>2, <2>3, <2>4, <2>5
<1>9. CASE EndsFailed(d, reason)
  <2>1. /\ Alive(d)
        /\ \/ reason \in {"idle_timeout", "server_failed", "playback_failed"}
           \/ reason = "cancelled" /\ c.response_id # 0
    BY <1>9 DEF EndsFailed
  <2>2. PhaseOf(d) \in T!Living
    BY <2>1, AliveView DEF T!Living
  <2>3. reason = "cancelled" /\ c.response_id # 0 => PhaseOf(d) = "responding"
    BY <2>1, AliveView, CurrentResponse
  <2>4. reason \in {"idle_timeout", "server_failed", "playback_failed"} => reason \in T!Failures
    BY DEF T!Failures
  <2> QED BY <1>2, <1>4, <1>6, <2>1, <2>2, <2>3, <2>4
<1> QED BY <1>1, <1>8, <1>9
(* Every step of the validator is a step of Turn, or changes none of its   *)
(* variables.                                                              *)
LEMMA StepsTurn ==
  ASSUME Proper(data), Proper(data'), Stepped
  PROVE  [T!Next]_T!turn
<1> DEFINE d == data
           e == data'
<1>1. /\ Good(d) /\ Good(e) /\ Newest(d) /\ Past(d) /\ Kept(d, e) /\ Move(d, e)
      /\ e.connection_state = d.connection_state
  <2>1. Good(d) /\ Good(e) /\ Newest(d) /\ Past(d) /\ Kept(d, e) /\ Move(d, e)
    BY SMTT(30) DEF Proper, Ledger, Stepped, Step
  <2>2. e.connection_state = d.connection_state
    BY <2>1 DEF Move, Steady, Releases, Opens, Speaks, Answers, Cancels, GivesUp, Fails,
                Ends, SameObjects
  <2> QED BY <2>1, <2>2
<1>2. CASE d.connection_state # "ready"
  BY <1>1, <1>2, OffView DEF T!turn
<1>3. CASE d.connection_state = "ready" /\ Steady(d, e)
  BY <1>1, <1>3, SteadyView DEF SameView, T!turn, T!Next, T!FallSilent
<1>4. CASE d.connection_state = "ready" /\ Releases(d, e)
  BY <1>1, <1>4, ReleasesView DEF SameView, T!turn, T!Next, T!Finish
<1>5. CASE d.connection_state = "ready" /\ Opens(d, e)
  BY <1>1, <1>5, OpensView DEF T!turn, T!Next, T!Open
<1>6. CASE d.connection_state = "ready" /\ Speaks(d, e)
  BY <1>1, <1>6, SpeaksView DEF T!turn, T!Next, T!Speak, T!Interrupt
<1>7. CASE d.connection_state = "ready" /\ Answers(d, e)
  BY <1>1, <1>7, AnswersView DEF T!turn, T!Next, T!Answer
<1>8. CASE d.connection_state = "ready" /\ (Cancels(d, e) \/ Fails(d, e))
  BY <1>1, <1>8, DoomView DEF SameView, T!turn, T!Next, T!Doom
<1>9. CASE d.connection_state = "ready" /\ GivesUp(d, e)
  BY <1>1, <1>9, GivesUpView DEF SameView, T!turn, T!Next, T!GiveUp
<1>10. CASE d.connection_state = "ready" /\ Ends(d, e)
  BY <1>1, <1>10, EndsView DEF SameView, T!turn, T!Next, T!End, T!Fail
<1> QED BY <1>1, <1>2, <1>3, <1>4, <1>5, <1>6, <1>7, <1>8, <1>9, <1>10 DEF Move

(* Outside the rules the connection becomes ready, or stops being so.      *)
LEMMA ConnectionTurn ==
  ASSUME Proper(data), StartsOver \/ Greets \/ Closes
  PROVE  [T!Next]_T!turn
<1> DEFINE d == data
           e == data'
<1>1. CASE d.connection_state = "ready"
  <2>1. e.connection_state # "ready"
    BY <1>1 DEF StartsOver, NewData, Greets, Closes
  <2>2. PhaseOf(d) # "off"
    BY <1>1 DEF PhaseOf
  <2>3. T!Disconnect
    BY <2>1, <2>2, OffView DEF T!Disconnect, T!Nothing
  <2> QED BY <2>3 DEF T!Next
<1>2. CASE d.connection_state # "ready" /\ e.connection_state # "ready"
  BY <1>2, OffView DEF T!turn
<1>3. CASE d.connection_state # "ready" /\ e.connection_state = "ready"
  <2>1. d.connection_state = "handshaking" /\ SameTalk(d, e)
    BY <1>3 DEF StartsOver, NewData, Greets, Closes
  <2>2. e.conversation.id = 0 /\ e.conversation_ids = 1 /\ e.input_ids = 1
    BY <2>1 DEF Proper, Ledger, Fresh, SameTalk
  <2>3. T!Connect
    BY <1>3, <2>2, OffView, SilentView DEF T!Connect, T!Nothing
  <2> QED BY <2>3 DEF T!Next
<1> QED BY <1>1, <1>2, <1>3

(* Validator implements Turn: whatever the messages, nobody speaks out of  *)
(* turn, an input is answered at most once and when it is over, and a      *)
(* conversation ends for the reason that doomed it.                        *)
THEOREM RefinesTurn == Spec => ImplementsTurn
<1>1. Init => T!Init
  <2> SUFFICES ASSUME Init PROVE T!Init
    OBVIOUS
  <2>1. data.connection_state = "disconnected"
    BY DEF Init, NewData
  <2> QED BY <2>1, OffView DEF T!Init, T!Nothing
<1>2. IInv /\ IInv' /\ [Next]_data => [T!Next]_T!turn
  <2> SUFFICES ASSUME Proper(data), Proper(data'), [Next]_data PROVE [T!Next]_T!turn
    BY DEF IInv
  <2>1. CASE Next
    BY <2>1, Kinds, StepsTurn, ConnectionTurn
  <2>2. CASE data' = data
    BY <2>2 DEF T!turn
  <2> QED BY <2>1, <2>2
<1> QED BY <1>1, <1>2, Inductive, PTL DEF Spec, ImplementsTurn, T!Spec

-----------------------------------------------------------------------------
(* TombstonesTellTheEnd: whatever a handler of Protocol makes terminal it  *)
(* buries in the same step, under the state it ended in, and it buries     *)
(* nothing else (_protocol.py, where each handler appends its own          *)
(* ProtocolTombstone).                                                     *)

(* The graves of one object, of which Buried is made.                      *)

Honest(d) == d.tombstones = Buried(d)

InputGraves(x, i) ==
  IF x.terminal = NoTerminal THEN {}
  ELSE {Grave("input", i, IF x.terminal.kind = "closed" THEN "closed" ELSE "aborted")}

ResponseGrave(x, r) ==
  IF x.conversation_id # 0 /\ ~ Unfinished(x)
  THEN {Grave("response", r, IF IsCancelled(x) THEN "cancelled" ELSE "completed")} ELSE {}

OutputGrave(x) ==
  IF x.output.terminal # "none" THEN {Grave("output", x.output.id, x.output.terminal)} ELSE {}

EndGraves(reason, c) == IF reason # "none" THEN {Grave("conversation", c, reason)} ELSE {}

InputsBuried(d) == UNION {InputGraves(d.inputs[i], i) : i \in Ids}
ResponsesBuried(d) == UNION {ResponseGrave(d.responses[r], r) : r \in Ids}
OutputsBuried(d) == UNION {OutputGrave(d.responses[r]) : r \in Ids}
EndsBuried(d) == UNION {EndGraves(d.ended_conversations[c], c) : c \in Ids}

LEMMA BuriedIs ==
  ASSUME NEW d
  PROVE  Buried(d) = InputsBuried(d) \cup ResponsesBuried(d) \cup OutputsBuried(d)
                       \cup EndsBuried(d)
<1>1. InputsBuried(d) =
        {Grave("input", i, IF d.inputs[i].terminal.kind = "closed" THEN "closed" ELSE "aborted") :
           i \in {j \in Ids : d.inputs[j].terminal # NoTerminal}}
  BY DEF InputsBuried, InputGraves
<1>2. ResponsesBuried(d) =
        {Grave("response", r, IF IsCancelled(d.responses[r]) THEN "cancelled" ELSE "completed") :
           r \in {q \in Ids : d.responses[q].conversation_id # 0 /\ ~ Unfinished(d.responses[q])}}
  BY DEF ResponsesBuried, ResponseGrave
<1>3. OutputsBuried(d) =
        {Grave("output", d.responses[r].output.id, d.responses[r].output.terminal) :
           r \in {q \in Ids : d.responses[q].output.terminal # "none"}}
  BY DEF OutputsBuried, OutputGrave
<1>4. EndsBuried(d) =
        {Grave("conversation", c, d.ended_conversations[c]) :
           c \in {b \in Ids : d.ended_conversations[b] # "none"}}
  BY DEF EndsBuried, EndGraves
<1> QED BY <1>1, <1>2, <1>3, <1>4 DEF Buried, Grave

(* An input becomes x, and its graves are those it had and the new ones.   *)
LEMMA HonestByInput ==
  ASSUME NEW d, d \in Data, Honest(d), NEW e, NEW id \in Ids, NEW x, NEW graves,
         InputBecomes(d, e, id, x, graves),
         InputGraves(x, id) = InputGraves(d.inputs[id], id) \cup graves
  PROVE  Honest(e)
<1>1. DOMAIN d.inputs = Ids
  BY Parts
<1>2. /\ e.inputs[id] = x /\ \A i \in Ids : i # id => e.inputs[i] = d.inputs[i]
      /\ e.responses = d.responses /\ e.ended_conversations = d.ended_conversations
      /\ e.tombstones = d.tombstones \cup graves
  BY <1>1 DEF InputBecomes, Rest
<1>3. InputsBuried(e) = InputsBuried(d) \cup graves
  BY <1>2 DEF InputsBuried
<1>4. /\ ResponsesBuried(e) = ResponsesBuried(d) /\ OutputsBuried(e) = OutputsBuried(d)
      /\ EndsBuried(e) = EndsBuried(d)
  BY <1>2 DEF ResponsesBuried, OutputsBuried, EndsBuried
<1> QED BY <1>2, <1>3, <1>4, BuriedIs DEF Honest

(* The same of a response and its output.                                  *)
LEMMA HonestByResponse ==
  ASSUME NEW d, d \in Data, Honest(d), NEW e, NEW id \in Ids, NEW x, NEW y,
         NEW graves, NEW g, NEW h, graves = g \cup h,
         ResponseBecomes(d, e, id, x, y, graves),
         ResponseGrave(x, id) = ResponseGrave(d.responses[id], id) \cup g,
         OutputGrave(x) = OutputGrave(d.responses[id]) \cup h
  PROVE  Honest(e)
<1>1. DOMAIN d.responses = Ids
  BY Parts
<1>2. /\ e.responses[id] = x /\ \A r \in Ids : r # id => e.responses[r] = d.responses[r]
      /\ e.inputs = d.inputs /\ e.ended_conversations = d.ended_conversations
      /\ e.tombstones = d.tombstones \cup graves
  BY <1>1 DEF ResponseBecomes, Rest
<1>3. ResponsesBuried(e) = ResponsesBuried(d) \cup g
  BY <1>2 DEF ResponsesBuried
<1>4. OutputsBuried(e) = OutputsBuried(d) \cup h
  BY <1>2 DEF OutputsBuried
<1>5. InputsBuried(e) = InputsBuried(d) /\ EndsBuried(e) = EndsBuried(d)
  BY <1>2 DEF InputsBuried, EndsBuried
<1> QED BY <1>2, <1>3, <1>4, <1>5, BuriedIs DEF Honest

(* The end of a conversation, and changes of anything that has no grave.   *)
LEMMA HonestByEnd ==
  ASSUME NEW d, d \in Data, Honest(d), NEW e, NEW id \in Ids, NEW reason, reason # "none",
         EndBecomes(d, e, id, reason), d.ended_conversations[id] = "none"
  PROVE  Honest(e)
<1>1. DOMAIN d.ended_conversations = Ids
  BY DEF Data
<1>2. /\ e.ended_conversations[id] = reason
      /\ \A c \in Ids : c # id => e.ended_conversations[c] = d.ended_conversations[c]
      /\ e.inputs = d.inputs /\ e.responses = d.responses
      /\ e.tombstones = d.tombstones \cup {Grave("conversation", id, reason)}
  BY <1>1 DEF EndBecomes
<1>3. EndsBuried(e) = EndsBuried(d) \cup {Grave("conversation", id, reason)}
  BY <1>2 DEF EndsBuried, EndGraves
<1>4. /\ InputsBuried(e) = InputsBuried(d) /\ ResponsesBuried(e) = ResponsesBuried(d)
      /\ OutputsBuried(e) = OutputsBuried(d)
  BY <1>2 DEF InputsBuried, ResponsesBuried, OutputsBuried
<1> QED BY <1>2, <1>3, <1>4, BuriedIs DEF Honest

LEMMA HonestSame ==
  ASSUME NEW d, Honest(d), NEW e, e.inputs = d.inputs, e.responses = d.responses,
         e.ended_conversations = d.ended_conversations, e.tombstones = d.tombstones
  PROVE  Honest(e)
BY DEF Honest, Buried

(* An input changed where it has no grave.                                 *)
LEMMA HonestWithInput ==
  ASSUME NEW d, d \in Data, Honest(d), NEW id \in Ids, NEW x \in Inputs,
         x.terminal = d.inputs[id].terminal
  PROVE  Honest(WithInput(d, id, x))
<1>1. InputBecomes(d, WithInput(d, id, x), id, x, {})
  BY ByInput
<1>2. InputGraves(x, id) = InputGraves(d.inputs[id], id) \cup {}
  BY DEF InputGraves
<1> QED BY <1>1, <1>2, HonestByInput

(* A response changed where neither it nor its output has a grave.         *)
SameGraves(x, y) ==
  /\ y.conversation_id = x.conversation_id
  /\ (Unfinished(y) <=> Unfinished(x)) /\ (IsCancelled(y) <=> IsCancelled(x))
  /\ y.output.id = x.output.id /\ y.output.terminal = x.output.terminal

LEMMA HonestWithResponse ==
  ASSUME NEW d, d \in Data, Honest(d), NEW id \in Ids, NEW x \in Responses,
         SameGraves(d.responses[id], x)
  PROVE  Honest(WithResponse(d, id, x))
<1>1. ResponseBecomes(d, WithResponse(d, id, x), id, x, d.conversation, {})
  BY ByResponse
<1>2. /\ ResponseGrave(x, id) = ResponseGrave(d.responses[id], id) \cup {}
      /\ OutputGrave(x) = OutputGrave(d.responses[id]) \cup {}
  BY DEF SameGraves, ResponseGrave, OutputGrave
<1>3. {} = {} \cup {}
  OBVIOUS
<1> QED BY <1>1, <1>2, <1>3, HonestByResponse

-----------------------------------------------------------------------------
(* The handlers of inputs.                                                 *)

(* _terminalize_input.                                                     *)
LEMMA TerminalizeHonest ==
  ASSUME NEW d, Good(d), Honest(d), NEW id \in Ids, NEW t \in Terminations,
         t.kind \in {"closed", "aborted"}, d.inputs[id].terminal = NoTerminal
  PROVE  Honest(Terminalize(d, id, t))
<1> DEFINE x == [d.inputs[id] EXCEPT !.terminal = t]
<1>1. d \in Data /\ d.inputs[id] \in Inputs
  BY Parts DEF Good
<1>2. InputBecomes(d, Terminalize(d, id, t), id, x, {Grave("input", id, t.kind)})
  BY TerminalizeBecomes
<1>3. x.terminal = t
  BY <1>1 DEF Inputs
<1>4. t # NoTerminal
  BY <1>1, TerminalInputs
<1>5. InputGraves(x, id) = InputGraves(d.inputs[id], id) \cup {Grave("input", id, t.kind)}
  BY <1>3, <1>4 DEF InputGraves
<1> HIDE DEF x
<1> QED BY <1>1, <1>2, <1>5, HonestByInput

LEMMA AbortInputHonest ==
  ASSUME NEW d, Good(d), Honest(d), NEW m \in AnyInputAborts
  PROVE  Honest(AfterAbortInput(d, m))
<1>1. m.input_id \in Ids /\ Aborted(m.reason) \in Terminations
  BY DEF AnyInputAborts, Terminations
<1>2. Aborted(m.reason).kind = "aborted"
  BY DEF Aborted
<1> QED BY <1>1, <1>2, TerminalizeHonest DEF AfterAbortInput

(* _close_input and _commit_input_audio.                                   *)
LEMMA CommittedHonest ==
  ASSUME NEW d, Good(d), Honest(d), NEW id \in Ids, NEW end \in Nat
  PROVE  /\ Honest(WithCommitted(d, id, end))
         /\ WithCommitted(d, id, end).inputs[id].terminal = d.inputs[id].terminal
<1> DEFINE x == [d.inputs[id] EXCEPT !.committed = end]
<1>1. d \in Data /\ d.inputs[id] \in Inputs /\ DOMAIN d.inputs = Ids
  BY Parts DEF Good
<1>2. x \in Inputs /\ x.terminal = d.inputs[id].terminal
  BY <1>1 DEF Inputs
<1> HIDE DEF x
<1>3. WithInput(d, id, x).inputs[id] = x
  <2>1. WithInput(d, id, x).inputs = [d.inputs EXCEPT ![id] = x]
    BY <1>1, <1>2, WithInputParts
  <2> QED BY <1>1, <2>1
<1>4. WithCommitted(d, id, end) = WithInput(d, id, x)
  BY DEF WithCommitted, x
<1> QED BY <1>1, <1>2, <1>3, <1>4, HonestWithInput

LEMMA CommitAndCloseHonest ==
  ASSUME NEW d, Good(d), Honest(d), NEW id \in Ids, NEW end \in Nat,
         NEW reason \in InputCloseReason, d.inputs[id].terminal = NoTerminal
  PROVE  Honest(Terminalize(WithCommitted(d, id, end), id, Closed(end, reason)))
<1>1. Good(WithCommitted(d, id, end))
  BY CommittedGood
<1>2. /\ Honest(WithCommitted(d, id, end))
      /\ WithCommitted(d, id, end).inputs[id].terminal = NoTerminal
  BY CommittedHonest
<1>3. Closed(end, reason) \in Terminations /\ Closed(end, reason).kind = "closed"
  BY DEF Closed, Terminations
<1> QED BY <1>1, <1>2, <1>3, TerminalizeHonest

LEMMA CloseInputHonest ==
  ASSUME NEW d, Good(d), Honest(d), NEW m \in AnyInputCloses
  PROVE  Honest(AfterCloseInput(d, m))
<1>1. /\ m.input_id \in Ids /\ m.reason \in InputCloseReason
      /\ m.accepted_end_frame \in Nat
  BY DEF AnyInputCloses
<1> QED BY <1>1, CommitAndCloseHonest DEF AfterCloseInput

LEMMA CommitInputAudioHonest ==
  ASSUME NEW d, Good(d), Honest(d), NEW id \in Ids, NEW end \in Nat
  PROVE  Honest(AfterCommitInputAudio(d, id, end))
<1>1. "max_duration" \in InputCloseReason
  BY DEF InputCloseReason
<1>2. CASE ClosesAtLimit(d, id, end)
  <2>1. d.inputs[id].terminal = NoTerminal
    BY <1>2 DEF ClosesAtLimit
  <2> QED BY <1>1, <1>2, <2>1, CommitAndCloseHonest DEF AfterCommitInputAudio
<1>3. CASE ~ ClosesAtLimit(d, id, end)
  BY <1>3, CommittedHonest DEF AfterCommitInputAudio
<1> QED BY <1>2, <1>3

(* _fail_input.                                                            *)
LEMMA CloseIfOpenHonest ==
  ASSUME NEW d, Good(d), Honest(d), NEW id \in Ids
  PROVE  Honest(CloseIfOpen(d, id))
<1>1. d.inputs[id] \in Inputs
  BY Parts DEF Good
<1>2. d.inputs[id].committed \in Nat /\ "failed" \in InputCloseReason
  BY <1>1 DEF Inputs, InputCloseReason
<1>3. FailedClose(d, id) \in Terminations /\ FailedClose(d, id).kind = "closed"
  BY <1>2 DEF FailedClose, Closed, Terminations
<1> QED BY <1>3, TerminalizeHonest DEF CloseIfOpen

LEMMA FinalizeIfMissingHonest ==
  ASSUME NEW d, Good(d), Honest(d), NEW id \in Ids
  PROVE  Honest(FinalizeIfMissing(d, id))
<1> DEFINE x == [d.inputs[id] EXCEPT !.final = IF @ = "none" THEN "empty" ELSE @]
<1>1. d \in Data /\ d.inputs[id] \in Inputs
  BY Parts DEF Good
<1>2. x \in Inputs /\ x.terminal = d.inputs[id].terminal
  BY <1>1 DEF Inputs
<1>3. FinalizeIfMissing(d, id) = WithInput(d, id, x)
  BY DEF FinalizeIfMissing
<1> HIDE DEF x
<1> QED BY <1>1, <1>2, <1>3, HonestWithInput

LEMMA RecordedInputFailureHonest ==
  ASSUME NEW d, Good(d), Honest(d), NEW id \in Ids, NEW code \in InputErrorCode
  PROVE  Honest(WithInputFailure(d, id, code))
<1> DEFINE x == [d.inputs[id] EXCEPT !.failure = code]
<1>1. d \in Data /\ d.inputs[id] \in Inputs
  BY Parts DEF Good
<1>2. x \in Inputs /\ x.terminal = d.inputs[id].terminal
  BY <1>1 DEF Inputs
<1>3. WithInputFailure(d, id, code) = WithInput(d, id, x)
  BY DEF WithInputFailure
<1> HIDE DEF x
<1> QED BY <1>1, <1>2, <1>3, HonestWithInput

LEMMA FailInputHonest ==
  ASSUME NEW d, Good(d), Honest(d), NEW id \in Ids, NEW code \in InputErrorCode
  PROVE  Honest(AfterFailInput(d, id, code))
<1>1. Good(CloseIfOpen(d, id)) /\ Honest(CloseIfOpen(d, id))
  BY CloseIfOpenGood, CloseIfOpenHonest
<1>2. /\ Good(FinalizeIfMissing(CloseIfOpen(d, id), id))
      /\ Honest(FinalizeIfMissing(CloseIfOpen(d, id), id))
  BY <1>1, FinalizeIfMissingGood, FinalizeIfMissingHonest
<1> QED BY <1>2, RecordedInputFailureHonest DEF AfterFailInput

(* input.audio, also beyond the aggregate limit.                           *)
LEMMA InputAudioHonest ==
  ASSUME NEW d, Good(d), Honest(d), NEW m \in AnyInputAudios, CanAcceptInputAudio(d, m)
  PROVE  Honest(AfterInputAudio(d, m))
<1> DEFINE id == m.input_id
           end == m.start_frame + m.frames
           x == [d.inputs[id] EXCEPT !.received = end, !.boundaries = @ \cup {end}]
<1>1. id \in Ids
  BY DEF AnyInputAudios
<1>2. d \in Data /\ d.inputs[id] \in Inputs
  BY <1>1, Parts DEF Good
<1>3. CASE end > MaxInputFrames
  <2>1. "input_too_long" \in InputErrorCode
    BY DEF InputErrorCode
  <2> QED BY <1>1, <1>3, <2>1, FailInputHonest DEF AfterInputAudio
<1>4. CASE ~ (end > MaxInputFrames)
  <2>1. AfterInputAudio(d, m) = WithInput(d, id, x)
    BY <1>4 DEF AfterInputAudio
  <2>2. x \in Inputs /\ x.terminal = d.inputs[id].terminal
    <3>1. end \in Nat /\ end # 0
      BY <1>2 DEF AnyInputAudios, Positive, Inputs, CanAcceptInputAudio
    <3> QED BY <1>2, <3>1 DEF Inputs
  <2> HIDE DEF x
  <2> QED BY <1>1, <1>2, <2>1, <2>2, HonestWithInput
<1> QED BY <1>3, <1>4
(* transcript.update and transcript.final.                                 *)
LEMMA TranscriptUpdateHonest ==
  ASSUME NEW d, Good(d), Honest(d), NEW m \in AnyTranscriptUpdates
  PROVE  Honest(AfterTranscriptUpdate(d, m))
<1> DEFINE u == [revision |-> m.revision, text |-> m.text]
           x == [d.inputs[m.input_id] EXCEPT !.update = u]
<1>1. m.input_id \in Ids /\ m.revision \in Nat /\ m.text \in Texts
  BY DEF AnyTranscriptUpdates, Positive
<1>2. d \in Data /\ d.inputs[m.input_id] \in Inputs
  BY <1>1, Parts DEF Good
<1>3. x \in Inputs /\ x.terminal = d.inputs[m.input_id].terminal
  BY <1>1, <1>2 DEF Inputs
<1>4. AfterTranscriptUpdate(d, m) = WithInput(d, m.input_id, x)
  BY DEF AfterTranscriptUpdate
<1> HIDE DEF x
<1> QED BY <1>1, <1>2, <1>3, <1>4, HonestWithInput

LEMMA TranscriptFinalHonest ==
  ASSUME NEW d, Good(d), Honest(d), NEW m \in AnyTranscriptFinals
  PROVE  Honest(AfterTranscriptFinal(d, m))
<1> DEFINE x == [d.inputs[m.input_id] EXCEPT !.final = m.text]
<1>1. m.input_id \in Ids /\ m.text \in Texts \cup {"empty"}
  BY DEF AnyTranscriptFinals
<1>2. d \in Data /\ d.inputs[m.input_id] \in Inputs
  BY <1>1, Parts DEF Good
<1>3. x \in Inputs /\ x.terminal = d.inputs[m.input_id].terminal
  BY <1>1, <1>2 DEF Inputs
<1>4. AfterTranscriptFinal(d, m) = WithInput(d, m.input_id, x)
  BY DEF AfterTranscriptFinal
<1> HIDE DEF x
<1> QED BY <1>1, <1>2, <1>3, <1>4, HonestWithInput

-----------------------------------------------------------------------------
(* The handlers of responses.                                              *)

(* _cancel_response buries the response, and its output if it was open.    *)
LEMMA CancelHonest ==
  ASSUME NEW d, Good(d), Honest(d), NEW m, m.response_id \in Ids,
         m.reason \in ResponseCancelReason,
         d.conversation.response_id = m.response_id
  PROVE  Honest(AfterCancelResponse(d, m))
<1> DEFINE id == m.response_id
           r == d.responses[id]
           x == CancelledResponse(r, m.reason)
           y == Released(d.conversation, 0, CancellationEnd(d.conversation, r, m.reason))
           g == {Grave("response", id, "cancelled")}
           h == IF OpenOutput(r) THEN {Grave("output", r.output.id, "cancelled")} ELSE {}
<1>1. d \in Data /\ r \in Responses /\ r.output \in Outputs
  BY Parts DEF Good, Responses
<1>2. Unfinished(r)
  BY NoInputDuringResponse
<1>3. /\ x.conversation_id = r.conversation_id /\ x.terminal = m.reason
      /\ x.output = IF OpenOutput(r) THEN [r.output EXCEPT !.terminal = "cancelled"]
                                     ELSE r.output
  BY <1>1 DEF CancelledResponse, Responses
<1>4. ResponseBecomes(d, AfterCancelResponse(d, m), id, x, y, CancelGraves(id, r))
  BY CancelBecomes
<1> HIDE DEF x, y
<1>5. CancelGraves(id, r) = g \cup h
  BY DEF CancelGraves
<1>6. ResponseGrave(x, id) = ResponseGrave(r, id) \cup g
  <2>1. ResponseGrave(r, id) = {}
    BY <1>2 DEF ResponseGrave
  <2>2. m.reason # "none" /\ m.reason # "ended"
    BY DEF ResponseCancelReason
  <2>3. x.conversation_id # 0 /\ ~ Unfinished(x) /\ IsCancelled(x)
    BY <1>2, <1>3, <2>2 DEF Unfinished, IsCancelled
  <2> QED BY <2>1, <2>3 DEF ResponseGrave
<1>7. OutputGrave(x) = OutputGrave(r) \cup h
  <2>1. CASE OpenOutput(r)
    <3>1. x.output.id = r.output.id /\ x.output.terminal = "cancelled"
      BY <1>1, <1>3, <2>1 DEF Outputs
    <3>2. r.output.terminal = "none"
      BY <2>1 DEF OpenOutput
    <3> QED BY <2>1, <3>1, <3>2 DEF OutputGrave
  <2>2. CASE ~ OpenOutput(r)
    BY <1>3, <2>2 DEF OutputGrave
  <2> QED BY <2>1, <2>2
<1> HIDE DEF g, h
<1> QED BY <1>1, <1>4, <1>5, <1>6, <1>7, HonestByResponse

LEMMA CancelResponseHonest ==
  ASSUME NEW d, Good(d), Honest(d), NEW m, m.response_id \in Ids,
         m.reason \in ResponseCancelReason, CanCancelResponse(d, m)
  PROVE  Honest(AfterCancelResponse(d, m))
<1>1. CASE IsCancelled(d.responses[m.response_id])
  BY <1>1 DEF AfterCancelResponse
<1>2. CASE ~ IsCancelled(d.responses[m.response_id])
  <2>1. d.conversation.response_id = m.response_id
    BY <1>2 DEF CanCancelResponse, IsCancelled
  <2> QED BY <2>1, CancelHonest
<1> QED BY <1>1, <1>2

(* _complete_response.                                                     *)
LEMMA CompleteHonest ==
  ASSUME NEW d, Good(d), Honest(d), NEW id \in Ids, NEW x \in Responses,
         d.conversation.response_id = id, ResponseKept(d.responses[id], x),
         x.terminal = "ended", ~ Unfinished(x),
         x.conversation_id = d.responses[id].conversation_id,
         x.output = d.responses[id].output
  PROVE  Honest(CompleteResponse(WithResponse(d, id, x), id))
<1> DEFINE r == d.responses[id]
           y == Released(d.conversation, 0, IF x.end_conversation THEN "completed" ELSE "none")
           g == {Grave("response", id, "completed")}
<1>1. d \in Data
  BY DEF Good
<1>2. ResponseBecomes(d, CompleteResponse(WithResponse(d, id, x), id), id, x, y, g)
  BY CompleteStep
<1>3. ResponseGrave(x, id) = ResponseGrave(r, id) \cup g
  <2>1. Unfinished(r)
    BY NoInputDuringResponse
  <2>2. ResponseGrave(r, id) = {}
    BY <2>1 DEF ResponseGrave
  <2>3. x.conversation_id # 0 /\ ~ IsCancelled(x)
    BY <2>1 DEF Unfinished, IsCancelled, ResponseCancelReason
  <2>4. ResponseGrave(x, id) = g
    BY <2>3 DEF ResponseGrave
  <2> QED BY <2>2, <2>4
<1>4. OutputGrave(x) = OutputGrave(r) \cup {} /\ g = g \cup {}
  BY DEF OutputGrave
<1> HIDE DEF y, g
<1> QED BY <1>1, <1>2, <1>3, <1>4, HonestByResponse, ZenonT(30)
(* response.text.delta and response.text.final.                            *)
LEMMA TextDeltaHonest ==
  ASSUME NEW d, Good(d), Honest(d), NEW m \in AnyTextDeltas
  PROVE  Honest(AfterTextDelta(d, m))
<1> DEFINE r == d.responses[m.response_id]
           x == [r EXCEPT !.text = Append(r.text, m.text)]
<1>1. m.response_id \in Ids /\ m.text \in Texts
  BY DEF AnyTextDeltas
<1>2. d \in Data /\ r \in Responses /\ r.text \in Seq(Texts)
  BY <1>1, Parts DEF Good, Responses
<1>3. Append(r.text, m.text) \in Seq(Texts)
  BY <1>1, <1>2
<1>4. /\ x \in Responses /\ x.conversation_id = r.conversation_id
      /\ x.terminal = r.terminal /\ x.output = r.output /\ x.playback = r.playback
  BY <1>2, <1>3 DEF Responses
<1>5. AfterTextDelta(d, m) = WithResponse(d, m.response_id, x)
  BY DEF AfterTextDelta
<1> HIDE DEF x
<1>6. SameGraves(r, x)
  BY <1>4 DEF SameGraves, Unfinished, IsCancelled
<1> QED BY <1>1, <1>2, <1>4, <1>5, <1>6, HonestWithResponse

LEMMA TextFinalHonest ==
  ASSUME NEW d, Good(d), Honest(d), NEW m \in AnyTextFinals
  PROVE  Honest(AfterTextFinal(d, m))
<1> DEFINE r == d.responses[m.response_id]
           x == [r EXCEPT !.text_final = TRUE]
<1>1. m.response_id \in Ids
  BY DEF AnyTextFinals
<1>2. d \in Data /\ r \in Responses
  BY <1>1, Parts DEF Good
<1>3. /\ x \in Responses /\ x.conversation_id = r.conversation_id
      /\ x.terminal = r.terminal /\ x.output = r.output /\ x.playback = r.playback
  BY <1>2 DEF Responses
<1>4. AfterTextFinal(d, m) = WithResponse(d, m.response_id, x)
  BY DEF AfterTextFinal
<1> HIDE DEF x
<1>5. SameGraves(r, x)
  BY <1>3 DEF SameGraves, Unfinished, IsCancelled
<1> QED BY <1>1, <1>2, <1>3, <1>4, <1>5, HonestWithResponse

(* output.start: the output of a stale response is born buried.            *)
LEMMA StartOutputHonest ==
  ASSUME NEW d, Good(d), Honest(d), NEW m \in AnyOutputStarts, CanStartOutput(d, m)
  PROVE  Honest(AfterStartOutput(d, m))
<1> DEFINE id == m.response_id
           r == d.responses[id]
           t == IF Stale(r) THEN "cancelled" ELSE "none"
           o == [NoOutput EXCEPT !.id = m.output_id, !.terminal = t]
           x == [r EXCEPT !.output = o]
           y == AfterStartOutput(d, m).conversation
           h == OutputGraves(r, m.output_id)
<1>1. id \in Ids
  BY DEF AnyOutputStarts
<1>2. d \in Data /\ r \in Responses /\ r.output = NoOutput
  BY <1>1, Parts, SMTT(30) DEF Good, CanStartOutput
<1>3. ResponseBecomes(d, AfterStartOutput(d, m), id, x, y, h)
  BY StartOutputBecomes
<1>4. o.id = m.output_id /\ o.terminal = t /\ t \in {"none", "cancelled"}
  BY DEF NoOutput
<1>5. /\ x.conversation_id = r.conversation_id /\ x.terminal = r.terminal
      /\ x.output = o /\ x.playback = r.playback
  BY <1>2 DEF Responses
<1> HIDE DEF x, o, y
<1>6. ResponseGrave(x, id) = ResponseGrave(r, id) \cup {}
  <2>1. r.output.terminal # "ended" /\ x.output.terminal # "ended"
    BY <1>2, <1>4, <1>5 DEF NoOutput
  <2>2. (Unfinished(x) <=> Unfinished(r)) /\ (IsCancelled(x) <=> IsCancelled(r))
    BY <1>5, <2>1 DEF Unfinished, IsCancelled
  <2> QED BY <1>5, <2>2 DEF ResponseGrave
<1>7. OutputGrave(x) = OutputGrave(r) \cup h
  <2>1. OutputGrave(r) = {}
    BY <1>2 DEF OutputGrave, NoOutput
  <2>2. OutputGrave(x) = h
    BY <1>4, <1>5 DEF OutputGrave, OutputGraves
  <2> QED BY <2>1, <2>2
<1>8. h = {} \cup h
  OBVIOUS
<1> HIDE DEF h, t
<1> QED BY <1>1, <1>2, <1>3, <1>6, <1>7, <1>8, HonestByResponse

(* output.audio.                                                           *)
LEMMA OutputAudioHonest ==
  ASSUME NEW d, Good(d), Honest(d), NEW m \in AnyOutputAudios
  PROVE  Honest(AfterOutputAudio(d, m))
<1> DEFINE r == d.responses[m.response_id]
           o == [r.output EXCEPT !.received = @ + m.frames]
           x == [r EXCEPT !.output = o]
<1>1. m.response_id \in Ids /\ m.frames \in Nat
  BY DEF AnyOutputAudios, Positive
<1>2. d \in Data /\ r \in Responses /\ r.output \in Outputs
  BY <1>1, Parts DEF Good, Responses
<1>3. o \in Outputs /\ o.id = r.output.id /\ o.terminal = r.output.terminal
  BY <1>1, <1>2 DEF Outputs
<1>4. AfterOutputAudio(d, m) = WithResponse(d, m.response_id, x)
  BY <1>2 DEF AfterOutputAudio, Responses, Outputs
<1> HIDE DEF o
<1>5. /\ x \in Responses /\ x.conversation_id = r.conversation_id
      /\ x.terminal = r.terminal /\ x.output = o /\ x.playback = r.playback
  BY <1>2, <1>3 DEF Responses
<1> HIDE DEF x
<1>6. SameGraves(r, x)
  BY <1>3, <1>5 DEF SameGraves, Unfinished, IsCancelled
<1> QED BY <1>1, <1>2, <1>4, <1>5, <1>6, HonestWithResponse

(* output.end.                                                             *)
LEMMA EndOutputHonest ==
  ASSUME NEW d, Good(d), Honest(d), Objects(d), NEW m \in AnyOutputEnds, CanEndOutput(d, m)
  PROVE  Honest(AfterEndOutput(d, m))
<1> DEFINE id == m.response_id
           r == d.responses[id]
           x == [r EXCEPT !.output = [@ EXCEPT !.terminal = "ended",
                                               !.total = m.total_frames]]
           h == {Grave("output", m.output_id, "ended")}
<1>1. id \in Ids /\ m.output_id \in Ids
  BY DEF AnyOutputEnds
<1>2. d \in Data /\ r \in Responses /\ r.output \in Outputs
  BY <1>1, Parts DEF Good, Responses
<1>3. CASE r.output.terminal = "ended" \/ Stale(r)
  BY <1>3 DEF AfterEndOutput
<1>4. CASE r.output.terminal # "ended" /\ ~ Stale(r)
  <2>1. r.output.id = m.output_id /\ r.terminal = "none"
    BY <1>4 DEF CanEndOutput, KnownOutput, Writable
  <2>2. r.output.terminal = "none"
    <3>1. Hushed(r)
      BY <1>1 DEF Objects
    <3> HIDE DEF r, x
    <3>2. r.output.terminal # "cancelled"
      BY <1>4, <3>1, SMTT(30) DEF Hushed, Stale
    <3> QED BY <1>2, <1>4, <3>2 DEF Outputs
  <2>3. ResponseBecomes(d, AfterEndOutput(d, m), id, x, d.conversation, h)
    BY <1>4, EndOutputBecomes
  <2>4. /\ x.conversation_id = r.conversation_id /\ x.terminal = r.terminal
        /\ x.output = [r.output EXCEPT !.terminal = "ended", !.total = m.total_frames]
    BY <1>2 DEF Responses
  <2>5. x.output.id = m.output_id /\ x.output.terminal = "ended"
    <3> DEFINE o == r.output
               p == [o EXCEPT !.terminal = "ended", !.total = m.total_frames]
    <3>1. o \in Outputs
      BY <1>2
    <3> HIDE DEF o, x, r
    <3>2. p.id = o.id /\ p.terminal = "ended"
      BY <3>1 DEF Outputs
    <3>3. x.output = p
      BY <2>4 DEF o
    <3> HIDE DEF p
    <3> QED BY <2>1, <3>2, <3>3 DEF o
  <2> HIDE DEF x
  <2>6. ResponseGrave(x, id) = ResponseGrave(r, id) \cup {}
    <3>1. x.terminal = "none"
      BY <2>1, <2>4
    <3> QED BY <2>1, <2>4, <3>1 DEF ResponseGrave, Unfinished
  <2>7. OutputGrave(x) = OutputGrave(r) \cup h
    <3>1. OutputGrave(r) = {}
      BY <2>2 DEF OutputGrave
    <3>2. OutputGrave(x) = h
      BY <2>5 DEF OutputGrave
    <3> QED BY <3>1, <3>2
  <2>8. h = {} \cup h
    OBVIOUS
  <2> HIDE DEF h
  <2> QED BY <1>1, <1>2, <2>3, <2>6, <2>7, <2>8, HonestByResponse
<1> QED BY <1>3, <1>4

(* response.end.                                                           *)
LEMMA EndResponseHonest ==
  ASSUME NEW d, Good(d), Honest(d), NEW m \in AnyResponseEnds, CanEndResponse(d, m)
  PROVE  Honest(AfterEndResponse(d, m))
<1> DEFINE id == m.response_id
           r == d.responses[id]
           x == [r EXCEPT !.end = TRUE, !.terminal = "ended"]
<1>1. id \in Ids /\ m.conversation_id \in Ids
  BY DEF AnyResponseEnds
<1>2. r \in Responses /\ d \in Data
  BY <1>1, Parts DEF Good
<1>3. CASE r.end
  BY <1>3 DEF AfterEndResponse
<1>4. CASE ~ r.end
  <2>1. /\ r.terminal = "none" /\ r.conversation_id # 0
        /\ r.output # NoOutput => r.output.terminal = "ended"
    BY <1>1, <1>4, NoneIds DEF CanEndResponse, KnownResponse
  <2>2. Unfinished(r)
    BY <2>1 DEF Unfinished
  <2>3. d.conversation.response_id = id
    BY <1>1, <2>2 DEF Good, Turns, ResponseTurn
  <2>4. /\ x \in Responses /\ x.terminal = "ended" /\ x.output = r.output
        /\ x.conversation_id = r.conversation_id /\ x.playback = r.playback
    BY <1>2 DEF Responses
  <2>5. ResponseKept(r, x)
    BY <1>2, <2>1, ResponseEnded
  <2>6. AfterEndResponse(d, m) =
          IF r.output = NoOutput \/ r.playback.kind = "finished"
          THEN CompleteResponse(WithResponse(d, id, x), id)
          ELSE WithResponse(d, id, x)
    BY <1>4 DEF AfterEndResponse
  <2> HIDE DEF x
  <2>7. CASE r.output = NoOutput \/ r.playback.kind = "finished"
    <3>1. ~ Unfinished(x)
      BY <2>4, <2>7 DEF Unfinished, NoOutput
    <3>2. Honest(CompleteResponse(WithResponse(d, id, x), id))
      BY <1>1, <2>3, <2>4, <2>5, <3>1, CompleteHonest
    <3> QED BY <2>6, <2>7, <3>2
  <2>8. CASE ~ (r.output = NoOutput \/ r.playback.kind = "finished")
    <3>1. Unfinished(x)
      BY <2>1, <2>4, <2>8 DEF Unfinished
    <3>2. ~ IsCancelled(r) /\ ~ IsCancelled(x)
      BY <2>1, <2>4 DEF IsCancelled, ResponseCancelReason
    <3>3. SameGraves(r, x)
      BY <2>2, <2>4, <3>1, <3>2 DEF SameGraves
    <3>4. Honest(WithResponse(d, id, x))
      BY <1>1, <1>2, <2>4, <3>3, HonestWithResponse
    <3> QED BY <2>6, <2>8, <3>4
  <2> QED BY <2>7, <2>8
<1> QED BY <1>3, <1>4
-----------------------------------------------------------------------------
(* Failures and playback outcomes.                                         *)

LEMMA RecordedResponseFailureHonest ==
  ASSUME NEW d, Good(d), Honest(d), NEW id \in Ids, NEW code \in ResponseErrorCode
  PROVE  Honest(WithResponseFailure(d, id, code))
<1> DEFINE r == d.responses[id]
           x == [r EXCEPT !.failure = code, !.stale = TRUE]
<1>1. d \in Data /\ r \in Responses
  BY Parts DEF Good
<1>2. /\ x \in Responses /\ x.conversation_id = r.conversation_id
      /\ x.terminal = r.terminal /\ x.output = r.output /\ x.playback = r.playback
  BY <1>1 DEF Responses
<1>3. WithResponseFailure(d, id, code) = WithResponse(d, id, x)
  BY DEF WithResponseFailure
<1> HIDE DEF x
<1>4. SameGraves(r, x)
  BY <1>2 DEF SameGraves, Unfinished, IsCancelled
<1> QED BY <1>1, <1>2, <1>3, <1>4, HonestWithResponse

LEMMA StaleResponseHonest ==
  ASSUME NEW d, Good(d), Honest(d)
  PROVE  Honest(WithStaleResponse(d))
<1> DEFINE id == d.conversation.response_id
           r == d.responses[id]
           x == [r EXCEPT !.stale = TRUE]
<1>1. CASE id = 0
  BY <1>1 DEF WithStaleResponse
<1>2. CASE id # 0
  <2>1. d \in Data /\ id \in Ids
    BY <1>2, Numbers DEF Good
  <2>2. r \in Responses
    BY <2>1, Parts
  <2>3. /\ x \in Responses /\ x.conversation_id = r.conversation_id
        /\ x.terminal = r.terminal /\ x.output = r.output /\ x.playback = r.playback
    BY <2>2 DEF Responses
  <2>4. WithStaleResponse(d) = WithResponse(d, id, x)
    BY <1>2 DEF WithStaleResponse
  <2> HIDE DEF x
  <2>5. SameGraves(r, x)
    BY <2>3 DEF SameGraves, Unfinished, IsCancelled
  <2> QED BY <2>1, <2>3, <2>4, <2>5, HonestWithResponse
<1> QED BY <1>1, <1>2

LEMMA HonestWithConversation ==
  ASSUME NEW d \in Data, Honest(d), NEW y \in Conversations
  PROVE  Honest(WithConversation(d, y))
<1>1. LET e == WithConversation(d, y) IN
      e.inputs = d.inputs /\ e.responses = d.responses /\ e.tombstones = d.tombstones
        /\ Rest(d, e)
  BY ByConversation
<1> QED BY <1>1, HonestSame DEF Rest

LEMMA FailureHonest ==
  ASSUME NEW d, Good(d), Honest(d), NEW code \in ConversationErrorCode
  PROVE  Honest(WithFailure(d, code))
<1> DEFINE y == [d.conversation EXCEPT !.failure = code]
<1>1. d \in Data /\ y \in Conversations
  BY Parts, ConversationFields DEF Good
<1>2. WithFailure(d, code) = WithConversation(d, y)
  BY DEF WithFailure
<1> HIDE DEF y
<1> QED BY <1>1, <1>2, HonestWithConversation

(* _end_conversation buries the conversation.                              *)
LEMMA EndConversationHonest ==
  ASSUME NEW d, Good(d), Honest(d), NEW m, m.conversation_id \in Ids,
         m.reason \in ConversationEndReason
  PROVE  Honest(AfterEndConversation(d, m))
<1>1. CASE d.ended_conversations[m.conversation_id] # "none"
  BY <1>1 DEF AfterEndConversation
<1>2. CASE d.ended_conversations[m.conversation_id] = "none"
  <2>1. d \in Data /\ m.reason # "none"
    BY DEF Good, ConversationEndReason
  <2>2. EndBecomes(d, AfterEndConversation(d, m), m.conversation_id, m.reason)
    BY <1>2, <2>1, EndConversationBecomes
  <2> QED BY <1>2, <2>1, <2>2, HonestByEnd
<1> QED BY <1>1, <1>2

(* _fail_response: the cancellation, and the end it may imply.             *)
LEMMA FailResponseHonest ==
  ASSUME NEW d, Good(d), Honest(d), NEW id \in Ids, NEW code \in ResponseErrorCode,
         d.responses[id].conversation_id \in Ids, CanFailResponse(d, id, code)
  PROVE  Honest(AfterFailResponse(d, id, code))
<1> DEFINE a == WithResponseFailure(d, id, code)
           cancel == FailCancel(d, id, code)
           b == AfterFailCancel(d, id, code)
           end == FailEnd(d, id, code)
<1>1. d.conversation \in Conversations /\ Unfinished(d.responses[id])
  BY NoneIds, Parts DEF Good, CanFailResponse, Unfinished
<1>2. d.conversation.response_id = id
  BY <1>1 DEF Good, Turns, ResponseTurn
<1>3. Good(a) /\ Honest(a)
  BY RecordedResponseFailureGood, RecordedResponseFailureHonest
<1>4. cancel.response_id = id /\ cancel.reason \in ResponseCancelReason
  BY FailureReasons DEF FailCancel, ResponseCancelled
<1>5. CanCancelResponse(a, cancel)
  BY DEF CanFailResponse
<1>6. b = AfterCancelResponse(a, cancel)
  BY DEF AfterFailCancel
<1> HIDE DEF a, cancel
<1>7. Good(b) /\ Honest(b)
  BY <1>3, <1>4, <1>5, <1>6, CancelResponseGood, CancelResponseHonest
<1>8. AfterFailResponse(d, id, code) =
        IF end.reason # "none" THEN AfterEndConversation(b, end) ELSE b
  BY DEF AfterFailResponse
<1>9. CASE end.reason = "none"
  BY <1>7, <1>8, <1>9
<1>10. CASE end.reason # "none"
  <2>1. end.conversation_id \in Ids
    BY <1>2, NoInputDuringResponse DEF FailEnd, ConversationEnded
  <2>2. end.reason \in ConversationEndReason
    BY <1>7, <1>10, Parts DEF FailEnd, ConversationEnded, Conversations, Good
  <2> HIDE DEF end, b
  <2> QED BY <1>7, <1>8, <1>10, <2>1, <2>2, EndConversationHonest
<1> QED BY <1>9, <1>10

(* _fail_conversation.                                                     *)
LEMMA FailConversationHonest ==
  ASSUME NEW d, Good(d), Honest(d), NEW code \in ConversationErrorCode,
         d.conversation.id \in Ids
  PROVE  Honest(AfterEndConversation(FailedConversation(d, code),
                                     FailConversationEnd(d, code)))
<1> DEFINE c == d.conversation
           a == WithStaleResponse(d)
           b == WithFailure(a, code)
           f == IF c.input_id = 0 THEN b
                ELSE FinalizeIfMissing(CloseIfOpen(b, c.input_id), c.input_id)
           cancel == ResponseCancelled(c.id, c.response_id, "conversation_cancelled")
           g == FailedConversation(d, code)
           end == FailConversationEnd(d, code)
<1>1. c.response_id \in OptionalIds /\ c.input_id \in OptionalIds
  BY Parts DEF Good, Conversations
<1>2. Good(a) /\ Honest(a)
  BY StaleResponseGood, StaleResponseHonest
<1>3. Good(b) /\ Honest(b)
  BY <1>2, RecordedConversationFailureGood, FailureHonest
<1>4. b.conversation.response_id = c.response_id
  <2>1. b.conversation = [c EXCEPT !.failure = code]
    BY FailureMarked
  <2> QED BY <2>1, Parts DEF Good, Conversations
<1>5. g = IF c.response_id = 0 THEN f ELSE AfterCancelResponse(f, cancel)
  BY DEF FailedConversation
<1> HIDE DEF a, b, g
<1>6. Good(f) /\ Honest(f) /\ f.conversation.response_id = c.response_id
  <2>1. CASE c.input_id = 0
    BY <1>3, <1>4, <2>1
  <2>2. CASE c.input_id # 0
    <3>1. c.input_id \in Ids
      BY <1>1, <2>2, NoneIds
    <3>2. /\ Good(CloseIfOpen(b, c.input_id)) /\ Honest(CloseIfOpen(b, c.input_id))
          /\ CloseIfOpen(b, c.input_id).conversation = b.conversation
      BY <1>3, <3>1, CloseIfOpenGood, CloseIfOpenHonest
    <3> QED BY <1>4, <2>2, <3>1, <3>2, FinalizeIfMissingGood, FinalizeIfMissingHonest
  <2> QED BY <2>1, <2>2
<1> HIDE DEF f
<1>7. Good(g) /\ Honest(g)
  <2>1. CASE c.response_id = 0
    BY <1>5, <1>6, <2>1
  <2>2. CASE c.response_id # 0
    <3>1. /\ cancel.response_id \in Ids /\ cancel.response_id = c.response_id
          /\ cancel.reason \in ResponseCancelReason
      BY <1>1, <2>2, NoneIds DEF ResponseCancelled, ResponseCancelReason
    <3> HIDE DEF cancel
    <3> QED BY <1>5, <1>6, <2>2, <3>1, CancelGood, CancelHonest
  <2> QED BY <2>1, <2>2
<1>8. end.conversation_id \in Ids /\ end.reason \in ConversationEndReason
  BY DEF FailConversationEnd, ConversationEnded, FailureEndReason, ConversationEndReason
<1> HIDE DEF end
<1>9. Honest(AfterEndConversation(g, end))
  BY <1>7, <1>8, EndConversationHonest
<1> QED BY <1>9 DEF g, end
(* playback.finished and playback.interrupted.                             *)
LEMMA InterruptedHonest ==
  ASSUME NEW d, Good(d), Honest(d), NEW m, m.response_id \in Ids,
         PlaybackOf(m) \in Playbacks, m.type # "playback.finished",
         d.responses[m.response_id].playback = NoPlayback
  PROVE  Honest(Interrupted(d, m))
<1> DEFINE r == d.responses[m.response_id]
           p == PlaybackOf(m)
           x == [r EXCEPT !.playback = p, !.stale = TRUE]
<1>1. d \in Data /\ r \in Responses
  BY Parts DEF Good
<1>2. p.kind = "interrupted" /\ r.playback.kind = "none"
  BY DEF PlaybackOf, NoPlayback
<1>3. Interrupted(d, m) = WithResponse(d, m.response_id, x)
  BY DEF Interrupted
<1> HIDE DEF p
<1>4. /\ x \in Responses /\ x.conversation_id = r.conversation_id
      /\ x.terminal = r.terminal /\ x.output = r.output /\ x.playback = p
  BY <1>1 DEF Responses, p
<1> HIDE DEF x
<1>5. SameGraves(r, x)
  BY <1>2, <1>4 DEF SameGraves, Unfinished, IsCancelled
<1> QED BY <1>1, <1>3, <1>4, <1>5, HonestWithResponse

LEMMA FinishedHonest ==
  ASSUME NEW d, Good(d), Honest(d), NEW m \in AnyPlaybackFinishes \cup AnyPlaybackInterrupts,
         CanAcceptPlaybackOutcome(d, m), m.type = "playback.finished",
         d.responses[m.response_id].playback = NoPlayback
  PROVE  Honest(AfterPlaybackOutcome(d, m))
<1> DEFINE id == m.response_id
           r == d.responses[id]
           p == PlaybackOf(m)
           x == [r EXCEPT !.playback = p]
<1>1. id \in Ids /\ m.conversation_id \in Ids /\ m.played_frames \in Nat
  BY DEF AnyPlaybackFinishes, AnyPlaybackInterrupts
<1>2. r \in Responses /\ r.output \in Outputs /\ d \in Data
  BY <1>1, Parts DEF Good, Responses
<1>3. p.kind = "finished" /\ p.frames = m.played_frames /\ p # NoPlayback /\ p \in Playbacks
  BY <1>1 DEF PlaybackOf, NoPlayback, Playbacks
<1>4. r.conversation_id # 0
  BY <1>1, NoneIds DEF CanAcceptPlaybackOutcome, KnownOutput, KnownResponse
<1>5. r.output.terminal = "ended" /\ m.played_frames = r.output.total
  BY <1>3 DEF CanAcceptPlaybackOutcome
<1>6. AfterPlaybackOutcome(d, m) =
        IF r.end /\ ~ IsCancelled(r)
        THEN CompleteResponse(WithResponse(d, id, x), id)
        ELSE WithResponse(d, id, x)
  BY DEF AfterPlaybackOutcome, WithPlayback
<1> HIDE DEF p
<1>7. /\ x \in Responses /\ x.conversation_id = r.conversation_id
      /\ x.terminal = r.terminal /\ x.output = r.output /\ x.playback = p
  BY <1>2, <1>3 DEF Responses
<1>8. ResponseKept(r, x)
  <2>1. r.output.received \in Nat
    BY <1>2 DEF Outputs
  <2> QED BY <1>2, <1>3, <1>4, <1>5, <2>1, PlaybackFinished
<1> HIDE DEF x
<1>9. EndRecorded(r)
  BY <1>1 DEF Good, Turns, ResponseTurn
<1>10. CASE r.end /\ ~ IsCancelled(r)
  <2>1. r.terminal = "ended"
    BY <1>2, <1>9, <1>10 DEF EndRecorded, IsCancelled, Responses
  <2>2. Unfinished(r) /\ ~ Unfinished(x)
    BY <1>3, <1>4, <1>5, <1>7, <2>1 DEF Unfinished, NoPlayback
  <2>3. d.conversation.response_id = id
    BY <1>1, <2>2 DEF Good, Turns, ResponseTurn
  <2> QED BY <1>1, <1>6, <1>7, <1>8, <1>10, <2>1, <2>2, <2>3, CompleteHonest
<1>11. CASE ~ (r.end /\ ~ IsCancelled(r))
  <2>1. r.terminal # "ended"
    BY <1>9, <1>11 DEF EndRecorded, IsCancelled, ResponseCancelReason
  <2>2. SameGraves(r, x)
    BY <1>7, <2>1 DEF SameGraves, Unfinished, IsCancelled
  <2> QED BY <1>1, <1>2, <1>6, <1>7, <1>11, <2>2, HonestWithResponse
<1> QED BY <1>10, <1>11

LEMMA PlaybackOutcomeHonest ==
  ASSUME NEW d, Good(d), Honest(d), NEW m \in AnyPlaybackFinishes \cup AnyPlaybackInterrupts,
         CanAcceptPlaybackOutcome(d, m)
  PROVE  Honest(AfterPlaybackOutcome(d, m))
<1> DEFINE id == m.response_id
           r == d.responses[id]
           a == Interrupted(d, m)
           cancel == PlaybackCancel(m)
<1>1. id \in Ids /\ m.conversation_id \in Ids /\ m.played_frames \in Nat
  BY DEF AnyPlaybackFinishes, AnyPlaybackInterrupts
<1>2. \/ m.type = "playback.finished"
      \/ m.type = "playback.interrupted" /\ m.reason \in PlaybackInterruptReason
  BY DEF AnyPlaybackFinishes, AnyPlaybackInterrupts
<1>3. CASE r.playback # NoPlayback
  BY <1>3 DEF AfterPlaybackOutcome
<1>4. CASE r.playback = NoPlayback /\ m.type = "playback.finished"
  BY <1>4, FinishedHonest
<1>5. CASE r.playback = NoPlayback /\ m.type # "playback.finished"
  <2>1. m.type = "playback.interrupted" /\ m.reason \in PlaybackInterruptReason
    BY <1>2, <1>5
  <2>2. PlaybackOf(m) \in Playbacks /\ PlaybackOf(m) # NoPlayback
    BY <1>1, <2>1 DEF PlaybackOf, Playbacks, NoPlayback
  <2>3. /\ Good(a) /\ a.responses[id].conversation_id = r.conversation_id
    BY <1>1, <1>5, <2>1, <2>2, InterruptedGood
  <2>4. Honest(a)
    BY <1>1, <1>5, <2>1, <2>2, InterruptedHonest
  <2>5. AfterPlaybackOutcome(d, m) =
          IF AccountingOnly(d, m) THEN a
          ELSE IF ~ FailsPlayback(m) THEN AfterCancelResponse(a, cancel)
          ELSE IF Role = "server" THEN AfterFailResponse(a, id, "playback_failed") ELSE a
    BY <1>5 DEF AfterPlaybackOutcome
  <2>6. r.conversation_id \in Ids
    BY <1>1 DEF CanAcceptPlaybackOutcome, KnownOutput, KnownResponse
  <2>7. /\ ~ AccountingOnly(d, m) /\ ~ FailsPlayback(m) => CanCancelResponse(a, cancel)
        /\ ~ AccountingOnly(d, m) /\ FailsPlayback(m) /\ Role = "server"
             => CanFailResponse(a, id, "playback_failed")
    BY <1>5, <2>2, ProtocolAssumption DEF CanAcceptPlaybackOutcome, AccountingOnly
  <2>8. cancel.response_id \in Ids /\ cancel.reason \in ResponseCancelReason
    BY <1>1, <2>1 DEF PlaybackCancel, ResponseCancelled, PlaybackInterruptReason,
       ResponseCancelReason
  <2> HIDE DEF a, cancel
  <2>9. ~ AccountingOnly(d, m) /\ ~ FailsPlayback(m) => Honest(AfterCancelResponse(a, cancel))
    BY <2>3, <2>4, <2>7, <2>8, CancelResponseHonest
  <2>10. ~ AccountingOnly(d, m) /\ FailsPlayback(m) /\ Role = "server"
           => Honest(AfterFailResponse(a, id, "playback_failed"))
    <3>1. "playback_failed" \in ResponseErrorCode
      BY DEF ResponseErrorCode
    <3> QED BY <1>1, <2>3, <2>4, <2>6, <2>7, <3>1, FailResponseHonest
  <2> QED BY <2>4, <2>5, <2>9, <2>10
<1> QED BY <1>3, <1>4, <1>5
-----------------------------------------------------------------------------
(* Conversations, and the objects that are started.                        *)

LEMMA StartConversationHonest ==
  ASSUME NEW d, Good(d), Honest(d), NEW m \in AnyConversationStarts
  PROVE  Honest(AfterStartConversation(d, m))
<1> DEFINE y == [NoConversation EXCEPT !.id = m.conversation_id]
           a == WithConversation(d, y)
           e == [a EXCEPT !.conversation_ids = @ + 1]
<1>1. m.conversation_id \in Ids
  BY DEF AnyConversationStarts
<1>2. y \in Conversations /\ d \in Data
  BY <1>1, NoneIds, EmptyRecords DEF Conversations, NoConversation, Good
<1>3. e = AfterStartConversation(d, m)
  BY DEF AfterStartConversation
<1> HIDE DEF y
<1>4. Honest(a) /\ a \in Data
  BY <1>2, HonestWithConversation, WithConversationParts
<1> HIDE DEF a
<1>5. /\ e.inputs = a.inputs /\ e.responses = a.responses
      /\ e.tombstones = a.tombstones /\ e.ended_conversations = a.ended_conversations
  BY <1>4 DEF Data
<1> QED BY <1>3, <1>4, <1>5, HonestSame

(* _cancel_conversation aborts the open input.                             *)
LEMMA CancelledInputHonest ==
  ASSUME NEW d, Good(d), Honest(d), d.conversation.input_id # 0,
         d.inputs[d.conversation.input_id].terminal = NoTerminal
  PROVE  LET id == d.conversation.input_id
             x == [d.inputs[id] EXCEPT !.terminal = CancelledInput]
             e == WithTombstone(WithInput(d, id, x), "input", id, "aborted")
         IN  e \in Data /\ Honest(e)
<1> DEFINE id == d.conversation.input_id
           x == [d.inputs[id] EXCEPT !.terminal = CancelledInput]
           e == WithTombstone(WithInput(d, id, x), "input", id, "aborted")
           g == CancelledInputGraves(d)
<1>1. d \in Data /\ id \in Ids
  BY Numbers DEF Good
<1>2. e \in Data /\ InputBecomes(d, e, id, x, g)
  BY CancelledInputTouches
<1>3. x.terminal = CancelledInput
  BY <1>1, Parts DEF Inputs
<1>4. g = {Grave("input", id, "aborted")}
  BY DEF CancelledInputGraves
<1>5. InputGraves(x, id) = InputGraves(d.inputs[id], id) \cup g
  BY <1>3, <1>4 DEF InputGraves, CancelledInput, NoTerminal
<1> HIDE DEF x, g, e
<1>6. Honest(e)
  BY <1>1, <1>2, <1>5, HonestByInput
<1> QED BY <1>2, <1>6 DEF e, x

LEMMA CancelConversationHonest ==
  ASSUME NEW d, Good(d), Honest(d), NEW m \in AnyConversationCancels
  PROVE  Honest(AfterCancelConversation(d, m))
<1> DEFINE c == d.conversation
           openInput == c.input_id # 0 /\ d.inputs[c.input_id].terminal = NoTerminal
           x == [d.inputs[c.input_id] EXCEPT !.terminal = CancelledInput]
           b == WithTombstone(WithInput(d, c.input_id, x), "input", c.input_id, "aborted")
           t == IF openInput THEN b ELSE d
           y == [c EXCEPT !.cancel = m.reason]
           f == WithConversation(t, y)
           e == [f EXCEPT !.cancelled_conversations[m.conversation_id] = m.reason]
<1>1. m.conversation_id \in Ids /\ m.reason \in ConversationCancelReason
  BY DEF AnyConversationCancels
<1>2. d \in Data /\ c \in Conversations
  BY Parts DEF Good
<1>3. CASE d.cancelled_conversations[m.conversation_id] # "none"
  BY <1>3 DEF AfterCancelConversation
<1>4. CASE d.cancelled_conversations[m.conversation_id] = "none"
  <2>1. AfterCancelConversation(d, m) = e
    BY <1>4 DEF AfterCancelConversation
  <2>2. t \in Data /\ Honest(t)
    <3>1. CASE openInput
      BY <3>1, CancelledInputHonest
    <3>2. CASE ~ openInput
      BY <1>2, <3>2
    <3> QED BY <3>1, <3>2
  <2> HIDE DEF t
  <2>3. y \in Conversations
    BY <1>1, <1>2, ConversationFields
  <2> HIDE DEF y
  <2>4. f \in Data /\ Honest(f)
    BY <2>2, <2>3, WithConversationParts, HonestWithConversation
  <2> HIDE DEF f
  <2>5. /\ e.inputs = f.inputs /\ e.responses = f.responses
        /\ e.tombstones = f.tombstones /\ e.ended_conversations = f.ended_conversations
    BY <2>4 DEF Data
  <2> HIDE DEF e
  <2> QED BY <2>1, <2>4, <2>5, HonestSame
<1> QED BY <1>3, <1>4

(* state.                                                                  *)
LEMMA StateHonest ==
  ASSUME NEW d, Good(d), Honest(d), NEW m \in AnyStates
  PROVE  Honest(AfterState(d, m))
<1> DEFINE c == d.conversation
           j == IF m.state = "waiting" THEN 0 ELSE c.input_id
           y == [c EXCEPT !.state = StateOf(m), !.input_id = j]
<1>1. m.revision \in Nat /\ m.state \in CoarseState
  BY DEF AnyStates, Positive
<1>2. d \in Data /\ c \in Conversations
  BY Parts DEF Good
<1>3. StateOf(m) \in StateValues
  BY <1>1 DEF StateOf, StateValues
<1>4. AfterState(d, m) = d \/ AfterState(d, m) = WithConversation(d, y)
  BY <1>2 DEF AfterState, Conversations
<1>5. j \in OptionalIds
  BY <1>2, NoneIds DEF Conversations
<1> HIDE DEF j
<1>6. y \in Conversations
  BY <1>2, <1>3, <1>5 DEF Conversations
<1> HIDE DEF y
<1> QED BY <1>2, <1>4, <1>6, HonestWithConversation

(* error of an input, a response or the conversation.                      *)
LEMMA ErrorHonest ==
  ASSUME NEW d, Good(d), Honest(d), NEW m \in AnyErrors \ ConnectionErrors,
         CanAcceptError(d, m)
  PROVE  Honest(AfterError(d, m))
<1>1. CASE m \in AnyConversationErrors
  <2>1. /\ m.scope = "conversation" /\ m.conversation_id \in Ids
        /\ m.code \in ConversationErrorCode
    BY <1>1 DEF AnyConversationErrors, Error
  <2>2. AfterError(d, m) = AfterConversationError(d, m)
    BY <2>1 DEF AfterError
  <2>3. d.conversation.id \in Ids
    BY <2>1 DEF CanAcceptError, Live, Open
  <2>4. CASE Role = "server"
    BY <2>1, <2>2, <2>3, <2>4, FailConversationHonest DEF AfterConversationError
  <2>5. CASE Role # "server"
    BY <2>1, <2>2, <2>5, StaleResponseGood, StaleResponseHonest, FailureHonest
       DEF AfterConversationError
  <2> QED BY <2>4, <2>5
<1>2. CASE m \in AnyInputErrors
  <2>1. m.scope = "input" /\ m.input_id \in Ids /\ m.code \in InputErrorCode
    BY <1>2 DEF AnyInputErrors, Error
  <2>2. AfterError(d, m) = AfterInputError(d, m)
    BY <2>1 DEF AfterError
  <2> QED BY <2>1, <2>2, FailInputHonest, RecordedInputFailureHonest DEF AfterInputError
<1>3. CASE m \in AnyResponseErrors
  <2>1. /\ m.scope = "response" /\ m.response_id \in Ids /\ m.conversation_id \in Ids
        /\ m.code \in ResponseErrorCode
    BY <1>3 DEF AnyResponseErrors, Error
  <2>2. AfterError(d, m) = AfterResponseError(d, m)
    BY <2>1 DEF AfterError
  <2>3. /\ d.responses[m.response_id].conversation_id \in Ids
        /\ Role = "server" => CanFailResponse(d, m.response_id, m.code)
    BY <2>1 DEF CanAcceptError, KnownResponse
  <2> QED BY <2>1, <2>2, <2>3, FailResponseHonest, RecordedResponseFailureHonest
          DEF AfterResponseError
<1> QED BY <1>1, <1>2, <1>3 DEF AnyErrors
(* Objects change, and none of their graves does.                          *)
LEMMA HonestKept ==
  ASSUME NEW d, Honest(d), NEW e,
         \A i \in Ids : InputGraves(e.inputs[i], i) = InputGraves(d.inputs[i], i),
         \A r \in Ids : /\ ResponseGrave(e.responses[r], r) = ResponseGrave(d.responses[r], r)
                        /\ OutputGrave(e.responses[r]) = OutputGrave(d.responses[r]),
         e.ended_conversations = d.ended_conversations, e.tombstones = d.tombstones
  PROVE  Honest(e)
<1>1. InputsBuried(e) = InputsBuried(d)
  BY DEF InputsBuried
<1>2. ResponsesBuried(e) = ResponsesBuried(d)
  BY DEF ResponsesBuried
<1>3. OutputsBuried(e) = OutputsBuried(d)
  BY DEF OutputsBuried
<1>4. EndsBuried(e) = EndsBuried(d)
  BY DEF EndsBuried
<1> QED BY <1>1, <1>2, <1>3, <1>4, BuriedIs DEF Honest

(* response.start.                                                         *)
LEMMA StartResponseHonest ==
  ASSUME NEW d, Good(d), Honest(d), Objects(d), NEW m \in AnyResponseStarts,
         CanStartResponse(d, m)
  PROVE  Honest(AfterStartResponse(d, m))
<1> DEFINE id == m.response_id
           j == m.input_id
           answered == [d.inputs[j] EXCEPT !.response_id = id]
           y == [d.conversation EXCEPT !.response_id = id]
           x == NewResponse(m)
           a == WithInput(d, j, answered)
           b == WithConversation(a, y)
           f == WithResponse(b, id, x)
           e == [f EXCEPT !.response_ids = @ + 1]
<1>1. id \in Ids /\ j \in Ids /\ m.conversation_id \in Ids /\ m.end_conversation \in BOOLEAN
  BY DEF AnyResponseStarts
<1>2. /\ d \in Data /\ d.conversation \in Conversations /\ d.inputs[j] \in Inputs
      /\ DOMAIN d.inputs = Ids /\ DOMAIN d.responses = Ids
  BY <1>1, Parts DEF Good
<1>3. d.responses[id] = NoResponse
  <2>1. d.response_ids \in Nat /\ id = d.response_ids
    BY <1>2, Numbers DEF CanStartResponse
  <2>2. ~ (id < d.response_ids)
    BY <2>1
  <2>3. d.responses[id].conversation_id = 0
    BY <1>1, <2>2 DEF Good, Turns, Allocated
  <2> QED BY <1>1, <2>3 DEF Objects
<1>4. e = AfterStartResponse(d, m)
  BY DEF AfterStartResponse
<1>5. answered \in Inputs /\ answered.terminal = d.inputs[j].terminal
  BY <1>1, <1>2, NoneIds, InputFields DEF Inputs
<1> HIDE DEF answered
<1>6. y \in Conversations
  BY <1>1, <1>2, NoneIds, ConversationFields
<1> HIDE DEF y
<1>7. x \in Responses /\ x.output = NoOutput /\ x.terminal = "none"
  BY <1>1, NoneIds, EmptyRecords DEF NewResponse, NoResponse, Responses
<1> HIDE DEF x
<1>8. a \in Data /\ Honest(a) /\ a.responses = d.responses
  BY <1>1, <1>2, <1>5, WithInputParts, HonestWithInput
<1> HIDE DEF a
<1>9. b \in Data /\ Honest(b) /\ b.responses = d.responses
  BY <1>6, <1>8, WithConversationParts, HonestWithConversation
<1> HIDE DEF b
<1>10. f \in Data /\ ResponseBecomes(b, f, id, x, b.conversation, {})
  BY <1>1, <1>7, <1>9, WithResponseParts, ByResponse
<1>11. Honest(f)
  <2>1. ResponseGrave(x, id) = ResponseGrave(b.responses[id], id) \cup {}
    <3>1. NoResponse.conversation_id = 0
      BY DEF NoResponse
    <3> QED BY <1>3, <1>7, <1>9, <3>1 DEF ResponseGrave, Unfinished
  <2>2. OutputGrave(x) = OutputGrave(b.responses[id]) \cup {}
    <3>1. NoResponse.output = NoOutput
      BY DEF NoResponse
    <3> QED BY <1>3, <1>7, <1>9, <3>1 DEF OutputGrave
  <2>3. {} = {} \cup {}
    OBVIOUS
  <2> HIDE DEF f
  <2> QED BY <1>1, <1>9, <1>10, <2>1, <2>2, <2>3, HonestByResponse
<1> HIDE DEF f
<1>12. /\ e.inputs = f.inputs /\ e.responses = f.responses
       /\ e.tombstones = f.tombstones /\ e.ended_conversations = f.ended_conversations
  BY <1>10 DEF Data
<1> HIDE DEF e
<1> QED BY <1>4, <1>11, <1>12, HonestSame

(* input.start, with the cancellation a barge-in may imply.                *)
LEMMA StartInputHonest ==
  ASSUME NEW d, Good(d), Honest(d), Objects(d), Newest(d), NEW m \in AnyInputStarts,
         CanStartInput(d, m)
  PROVE  Honest(AfterStartInput(d, m))
<1> DEFINE id == m.input_id
           k == m.interrupts_response_id
           x == NewInput(m)
           base == IF CancelsOnBarge(d, m) THEN AfterCancelResponse(d, BargeCancel(m)) ELSE d
           y == [base.conversation EXCEPT !.input_id = id]
           e == [WithInput(WithConversation(base, y), id, x) EXCEPT !.input_ids = @ + 1]
<1>1. /\ id \in Ids /\ m.conversation_id \in Ids
      /\ m.reason \in InputStartReason /\ k \in OptionalIds
      /\ m.reason = "barge_in" => k \in Ids
  BY NoneIds DEF AnyInputStarts, InputStartReason
<1>2. d \in Data /\ DOMAIN d.inputs = Ids /\ id = d.input_ids
  BY Parts DEF Good, CanStartInput
<1>3. Good(base) /\ Rest(d, base) /\ base.inputs = d.inputs
  BY BargeBase
<1>4. Honest(base)
  <2>1. CASE CancelsOnBarge(d, m)
    <3>1. m.reason = "barge_in" /\ CanInterrupt(d, m)
      BY <2>1 DEF CancelsOnBarge, CanStartInput
    <3>2. CanCancelResponse(d, BargeCancel(m))
      BY <2>1, <3>1 DEF CanInterrupt
    <3>3. BargeCancel(m).response_id \in Ids
          /\ BargeCancel(m).reason \in ResponseCancelReason
      BY <1>1, <3>1 DEF BargeCancel, ResponseCancelled, ResponseCancelReason
    <3> QED BY <2>1, <3>2, <3>3, CancelResponseHonest
  <2>2. CASE ~ CancelsOnBarge(d, m)
    BY <2>2
  <2> QED BY <2>1, <2>2
<1>5. e = AfterStartInput(d, m)
  BY DEF AfterStartInput
<1> HIDE DEF base
<1>6. x \in Inputs /\ x.terminal = NoTerminal
  BY <1>1, EmptyRecords, NoneIds DEF NewInput, NoInput, Inputs
<1> HIDE DEF x
<1>7. id = base.input_ids /\ base \in Data
  BY <1>2, <1>3 DEF Rest, Good
<1>8. /\ e.inputs = [base.inputs EXCEPT ![id] = x] /\ e.responses = base.responses
      /\ e.tombstones = base.tombstones
      /\ e.ended_conversations = base.ended_conversations
  BY <1>1, <1>6, <1>7, NewInputBecomes
<1> HIDE DEF e, y
<1>9. d.inputs[id].terminal = NoTerminal
  <2>1. d.input_ids \in Nat
    BY <1>2, Numbers
  <2>2. ~ (id < d.input_ids)
    BY <1>2, <2>1
  <2>3. d.inputs[id].conversation_id = 0
    BY <1>1, <2>2 DEF Good, Turns, Allocated
  <2>4. d.inputs[id] = NoInput
    BY <1>1, <2>3 DEF Objects
  <2> QED BY <2>4 DEF NoInput
<1>10. \A i \in Ids : InputGraves(e.inputs[i], i) = InputGraves(base.inputs[i], i)
  <2> SUFFICES ASSUME NEW i \in Ids
               PROVE  InputGraves(e.inputs[i], i) = InputGraves(base.inputs[i], i)
    OBVIOUS
  <2>1. e.inputs[i].terminal = base.inputs[i].terminal
    BY <1>2, <1>3, <1>6, <1>8, <1>9
  <2> QED BY <2>1 DEF InputGraves
<1> QED BY <1>4, <1>5, <1>8, <1>10, HonestKept

(* A new _ValidatorData has no graves.                                     *)
LEMMA NewDataHonest ==
  ASSUME NEW s
  PROVE  Honest(NewData(s))
<1> DEFINE e == NewData(s)
<1>1. /\ \A i \in Ids : e.inputs[i] = NoInput /\ e.responses[i] = NoResponse
                        /\ e.ended_conversations[i] = "none"
      /\ e.tombstones = {}
  BY DEF NewData
<1> HIDE DEF e
<1>2. InputsBuried(e) = {}
  BY <1>1 DEF InputsBuried, InputGraves, NoInput
<1>3. ResponsesBuried(e) = {} /\ OutputsBuried(e) = {}
  BY <1>1 DEF ResponsesBuried, ResponseGrave, OutputsBuried, OutputGrave, NoResponse, NoOutput
<1>4. EndsBuried(e) = {}
  BY <1>1 DEF EndsBuried, EndGraves
<1> QED BY <1>1, <1>2, <1>3, <1>4, BuriedIs DEF Honest, e
-----------------------------------------------------------------------------
(* Every action reaches its handler (as in ValidatorProof), so every step  *)
(* leaves the graves honest.                                               *)

Buries == Honest(data')

LEMMA StartConversationBuries ==
  ASSUME Proper(data), Honest(data), StartConversation
  PROVE  Buries
<1>1. PICK m \in AnyConversationStarts : Accepts(data, m) /\ data' = After(data, m)
  BY Unbounded DEF StartConversation, Accept
<1>2. m.type = "conversation.start"
  BY DEF AnyConversationStarts
<1>3. data.connection_state = "ready" /\ CanStartConversation(data, m)
  BY <1>1, <1>2 DEF Accepts, CanAcceptHello, CanHandle
<1>4. After(data, m) = AfterStartConversation(data, m)
  BY <1>2, <1>3 DEF After
<1> QED BY <1>1, <1>3, <1>4, StartConversationHonest DEF Proper, Ledger, Buries

LEMMA StartInputBuries ==
  ASSUME Proper(data), Honest(data), StartInput
  PROVE  Buries
<1>1. PICK m \in AnyInputStarts : Accepts(data, m) /\ data' = After(data, m)
  BY Unbounded DEF StartInput, Accept
<1>2. m.type = "input.start"
  BY DEF AnyInputStarts
<1>3. data.connection_state = "ready" /\ CanStartInput(data, m)
  BY <1>1, <1>2 DEF Accepts, CanAcceptHello, CanHandle
<1>4. After(data, m) = AfterStartInput(data, m)
  BY <1>2, <1>3 DEF After
<1> QED BY <1>1, <1>3, <1>4, StartInputHonest DEF Proper, Ledger, Buries

LEMMA AcceptInputAudioBuries ==
  ASSUME Proper(data), Honest(data), AcceptInputAudio
  PROVE  Buries
<1>1. PICK m \in AnyInputAudios : Accepts(data, m) /\ data' = After(data, m)
  BY Unbounded DEF AcceptInputAudio, Accept
<1>2. m.type = "input.audio"
  BY DEF AnyInputAudios
<1>3. data.connection_state = "ready" /\ CanAcceptInputAudio(data, m)
  BY <1>1, <1>2 DEF Accepts, CanAcceptHello, CanHandle
<1>4. After(data, m) = AfterInputAudio(data, m)
  BY <1>2, <1>3 DEF After
<1> QED BY <1>1, <1>3, <1>4, InputAudioHonest DEF Proper, Ledger, Buries

LEMMA AbortInputBuries ==
  ASSUME Proper(data), Honest(data), AbortInput
  PROVE  Buries
<1>1. PICK m \in AnyInputAborts : Accepts(data, m) /\ data' = After(data, m)
  BY Unbounded DEF AbortInput, Accept
<1>2. m.type = "input.abort"
  BY DEF AnyInputAborts
<1>3. data.connection_state = "ready" /\ CanAbortInput(data, m)
  BY <1>1, <1>2 DEF Accepts, CanAcceptHello, CanHandle
<1>4. After(data, m) = AfterAbortInput(data, m)
  BY <1>2, <1>3 DEF After
<1> QED BY <1>1, <1>3, <1>4, AbortInputHonest DEF Proper, Ledger, Buries

LEMMA CloseInputBuries ==
  ASSUME Proper(data), Honest(data), CloseInput
  PROVE  Buries
<1>1. PICK m \in AnyInputCloses : Accepts(data, m) /\ data' = After(data, m)
  BY Unbounded DEF CloseInput, Accept
<1>2. m.type = "input.closed"
  BY DEF AnyInputCloses
<1>3. data.connection_state = "ready" /\ CanCloseInput(data, m)
  BY <1>1, <1>2 DEF Accepts, CanAcceptHello, CanHandle
<1>4. After(data, m) = AfterCloseInput(data, m)
  BY <1>2, <1>3 DEF After
<1> QED BY <1>1, <1>3, <1>4, CloseInputHonest DEF Proper, Ledger, Buries

LEMMA AcceptTranscriptUpdateBuries ==
  ASSUME Proper(data), Honest(data), AcceptTranscriptUpdate
  PROVE  Buries
<1>1. PICK m \in AnyTranscriptUpdates : Accepts(data, m) /\ data' = After(data, m)
  BY Unbounded DEF AcceptTranscriptUpdate, Accept
<1>2. m.type = "transcript.update"
  BY DEF AnyTranscriptUpdates, Positive
<1>3. data.connection_state = "ready" /\ CanAcceptTranscriptUpdate(data, m)
  BY <1>1, <1>2 DEF Accepts, CanAcceptHello, CanHandle
<1>4. After(data, m) = AfterTranscriptUpdate(data, m)
  BY <1>2, <1>3 DEF After
<1> QED BY <1>1, <1>3, <1>4, TranscriptUpdateHonest DEF Proper, Ledger, Buries

LEMMA AcceptTranscriptFinalBuries ==
  ASSUME Proper(data), Honest(data), AcceptTranscriptFinal
  PROVE  Buries
<1>1. PICK m \in AnyTranscriptFinals : Accepts(data, m) /\ data' = After(data, m)
  BY Unbounded DEF AcceptTranscriptFinal, Accept
<1>2. m.type = "transcript.final"
  BY DEF AnyTranscriptFinals
<1>3. data.connection_state = "ready" /\ CanAcceptTranscriptFinal(data, m)
  BY <1>1, <1>2 DEF Accepts, CanAcceptHello, CanHandle
<1>4. After(data, m) = AfterTranscriptFinal(data, m)
  BY <1>2, <1>3 DEF After
<1> QED BY <1>1, <1>3, <1>4, TranscriptFinalHonest DEF Proper, Ledger, Buries

LEMMA StartResponseBuries ==
  ASSUME Proper(data), Honest(data), StartResponse
  PROVE  Buries
<1>1. PICK m \in AnyResponseStarts : Accepts(data, m) /\ data' = After(data, m)
  BY Unbounded DEF StartResponse, Accept
<1>2. m.type = "response.start"
  BY DEF AnyResponseStarts
<1>3. data.connection_state = "ready" /\ CanStartResponse(data, m)
  BY <1>1, <1>2 DEF Accepts, CanAcceptHello, CanHandle
<1>4. After(data, m) = AfterStartResponse(data, m)
  BY <1>2, <1>3 DEF After
<1> QED BY <1>1, <1>3, <1>4, StartResponseHonest DEF Proper, Ledger, Buries

LEMMA AcceptResponseTextDeltaBuries ==
  ASSUME Proper(data), Honest(data), AcceptResponseTextDelta
  PROVE  Buries
<1>1. PICK m \in AnyTextDeltas : Accepts(data, m) /\ data' = After(data, m)
  BY Unbounded DEF AcceptResponseTextDelta, Accept
<1>2. m.type = "response.text.delta"
  BY DEF AnyTextDeltas
<1>3. data.connection_state = "ready" /\ CanAcceptTextDelta(data, m)
  BY <1>1, <1>2 DEF Accepts, CanAcceptHello, CanHandle
<1>4. After(data, m) = AfterTextDelta(data, m)
  BY <1>2, <1>3 DEF After
<1> QED BY <1>1, <1>3, <1>4, TextDeltaHonest DEF Proper, Ledger, Buries

LEMMA AcceptResponseTextFinalBuries ==
  ASSUME Proper(data), Honest(data), AcceptResponseTextFinal
  PROVE  Buries
<1>1. PICK m \in AnyTextFinals : Accepts(data, m) /\ data' = After(data, m)
  BY Unbounded DEF AcceptResponseTextFinal, Accept
<1>2. m.type = "response.text.final"
  BY DEF AnyTextFinals
<1>3. data.connection_state = "ready" /\ CanAcceptTextFinal(data, m)
  BY <1>1, <1>2 DEF Accepts, CanAcceptHello, CanHandle
<1>4. After(data, m) = AfterTextFinal(data, m)
  BY <1>2, <1>3 DEF After
<1> QED BY <1>1, <1>3, <1>4, TextFinalHonest DEF Proper, Ledger, Buries

LEMMA StartOutputBuries ==
  ASSUME Proper(data), Honest(data), StartOutput
  PROVE  Buries
<1>1. PICK m \in AnyOutputStarts : Accepts(data, m) /\ data' = After(data, m)
  BY Unbounded DEF StartOutput, Accept
<1>2. m.type = "output.start"
  BY DEF AnyOutputStarts
<1>3. data.connection_state = "ready" /\ CanStartOutput(data, m)
  BY <1>1, <1>2 DEF Accepts, CanAcceptHello, CanHandle
<1>4. After(data, m) = AfterStartOutput(data, m)
  BY <1>2, <1>3 DEF After
<1> QED BY <1>1, <1>3, <1>4, StartOutputHonest DEF Proper, Ledger, Buries

LEMMA AcceptOutputAudioBuries ==
  ASSUME Proper(data), Honest(data), AcceptOutputAudio
  PROVE  Buries
<1>1. PICK m \in AnyOutputAudios : Accepts(data, m) /\ data' = After(data, m)
  BY Unbounded DEF AcceptOutputAudio, Accept
<1>2. m.type = "output.audio"
  BY DEF AnyOutputAudios
<1>3. data.connection_state = "ready" /\ CanAcceptOutputAudio(data, m)
  BY <1>1, <1>2 DEF Accepts, CanAcceptHello, CanHandle
<1>4. After(data, m) = AfterOutputAudio(data, m)
  BY <1>2, <1>3 DEF After
<1> QED BY <1>1, <1>3, <1>4, OutputAudioHonest DEF Proper, Ledger, Buries

LEMMA EndOutputBuries ==
  ASSUME Proper(data), Honest(data), EndOutput
  PROVE  Buries
<1>1. PICK m \in AnyOutputEnds : Accepts(data, m) /\ data' = After(data, m)
  BY Unbounded DEF EndOutput, Accept
<1>2. m.type = "output.end"
  BY DEF AnyOutputEnds
<1>3. data.connection_state = "ready" /\ CanEndOutput(data, m)
  BY <1>1, <1>2 DEF Accepts, CanAcceptHello, CanHandle
<1>4. After(data, m) = AfterEndOutput(data, m)
  BY <1>2, <1>3 DEF After
<1> QED BY <1>1, <1>3, <1>4, EndOutputHonest DEF Proper, Ledger, Buries

LEMMA EndResponseBuries ==
  ASSUME Proper(data), Honest(data), EndResponse
  PROVE  Buries
<1>1. PICK m \in AnyResponseEnds : Accepts(data, m) /\ data' = After(data, m)
  BY Unbounded DEF EndResponse, Accept
<1>2. m.type = "response.end"
  BY DEF AnyResponseEnds
<1>3. data.connection_state = "ready" /\ CanEndResponse(data, m)
  BY <1>1, <1>2 DEF Accepts, CanAcceptHello, CanHandle
<1>4. After(data, m) = AfterEndResponse(data, m)
  BY <1>2, <1>3 DEF After
<1> QED BY <1>1, <1>3, <1>4, EndResponseHonest DEF Proper, Ledger, Buries

LEMMA CancelConversationBuries ==
  ASSUME Proper(data), Honest(data), CancelConversation
  PROVE  Buries
<1>1. PICK m \in AnyConversationCancels : Accepts(data, m) /\ data' = After(data, m)
  BY Unbounded DEF CancelConversation, Accept
<1>2. m.type = "conversation.cancel"
  BY DEF AnyConversationCancels
<1>3. data.connection_state = "ready" /\ CanCancelConversation(data, m)
  BY <1>1, <1>2 DEF Accepts, CanAcceptHello, CanHandle
<1>4. After(data, m) = AfterCancelConversation(data, m)
  BY <1>2, <1>3 DEF After
<1> QED BY <1>1, <1>3, <1>4, CancelConversationHonest DEF Proper, Ledger, Buries

LEMMA AcceptStateBuries ==
  ASSUME Proper(data), Honest(data), AcceptState
  PROVE  Buries
<1>1. PICK m \in AnyStates : Accepts(data, m) /\ data' = After(data, m)
  BY Unbounded DEF AcceptState, Accept
<1>2. m.type = "state"
  BY DEF AnyStates, Positive
<1>3. data.connection_state = "ready" /\ CanAcceptState(data, m)
  BY <1>1, <1>2 DEF Accepts, CanAcceptHello, CanHandle
<1>4. After(data, m) = AfterState(data, m)
  BY <1>2, <1>3 DEF After
<1> QED BY <1>1, <1>3, <1>4, StateHonest DEF Proper, Ledger, Buries

LEMMA CancelResponseBuries ==
  ASSUME Proper(data), Honest(data), CancelResponse
  PROVE  Buries
<1>1. PICK m \in AnyResponseCancels : Accepts(data, m) /\ data' = After(data, m)
  BY Unbounded DEF CancelResponse, Accept
<1>2. /\ m.type = "response.cancelled" /\ m.response_id \in Ids
      /\ m.reason \in ResponseCancelReason
  BY DEF AnyResponseCancels
<1>3. data.connection_state = "ready" /\ CanCancelResponse(data, m)
  BY <1>1, <1>2 DEF Accepts, CanAcceptHello, CanHandle
<1>4. After(data, m) = AfterCancelResponse(data, m)
  BY <1>2, <1>3 DEF After
<1> QED BY <1>1, <1>2, <1>3, <1>4, CancelResponseHonest DEF Proper, Buries

LEMMA EndConversationBuries ==
  ASSUME Proper(data), Honest(data), EndConversation
  PROVE  Buries
<1>1. PICK m \in AnyConversationEnds : Accepts(data, m) /\ data' = After(data, m)
  BY Unbounded DEF EndConversation, Accept
<1>2. /\ m.type = "conversation.end" /\ m.conversation_id \in Ids
      /\ m.reason \in ConversationEndReason
  BY DEF AnyConversationEnds
<1>3. data.connection_state = "ready"
  BY <1>1, <1>2 DEF Accepts, CanAcceptHello
<1>4. After(data, m) = AfterEndConversation(data, m)
  BY <1>2, <1>3 DEF After
<1> QED BY <1>1, <1>2, <1>4, EndConversationHonest DEF Proper, Buries

LEMMA AcceptPlaybackOutcomeBuries ==
  ASSUME Proper(data), Honest(data), AcceptPlaybackOutcome
  PROVE  Buries
<1>1. PICK m \in AnyPlaybackFinishes \cup AnyPlaybackInterrupts :
        Accepts(data, m) /\ data' = After(data, m)
  BY Unbounded DEF AcceptPlaybackOutcome, Accept
<1>2. m.type \in {"playback.finished", "playback.interrupted"}
  BY DEF AnyPlaybackFinishes, AnyPlaybackInterrupts
<1>3. data.connection_state = "ready" /\ CanAcceptPlaybackOutcome(data, m)
  BY <1>1, <1>2 DEF Accepts, CanAcceptHello, CanHandle
<1>4. After(data, m) = AfterPlaybackOutcome(data, m)
  BY <1>2, <1>3 DEF After
<1> QED BY <1>1, <1>3, <1>4, PlaybackOutcomeHonest DEF Proper, Buries

LEMMA AcceptErrorBuries ==
  ASSUME Proper(data), Honest(data), AcceptError
  PROVE  Buries
<1>1. PICK m \in AnyErrors : Accepts(data, m) /\ data' = After(data, m)
  BY Unbounded DEF AcceptError, Accept
<1>2. m.type = "error"
  BY DEF AnyErrors, ConnectionErrors, AnyConversationErrors, AnyInputErrors, AnyResponseErrors, Error
<1>3. data \in Data
  BY DEF Proper, Good
<1>4. CASE data.connection_state = "handshaking" \/ m \in ConnectionErrors
  <2>1. data' = [data EXCEPT !.connection_state = "closing"]
    BY <1>1, <1>2, <1>4 DEF After, AfterHello, AfterError, ConnectionErrors, Error
  <2>2. /\ data'.inputs = data.inputs /\ data'.responses = data.responses
        /\ data'.ended_conversations = data.ended_conversations
        /\ data'.tombstones = data.tombstones
    BY <1>3, <2>1 DEF Data
  <2> QED BY <2>2, HonestSame DEF Buries
<1>5. CASE data.connection_state # "handshaking" /\ m \notin ConnectionErrors
  <2>1. CanAcceptError(data, m)
    BY <1>1, <1>2, <1>5 DEF Accepts, CanHandle
  <2>2. data' = AfterError(data, m)
    BY <1>1, <1>2, <1>5 DEF After
  <2>3. Honest(AfterError(data, m))
    BY <1>5, <2>1, ErrorHonest DEF Proper
  <2> QED BY <2>2, <2>3 DEF Buries
<1> QED BY <1>4, <1>5

LEMMA CommitBuries ==
  ASSUME Proper(data), Honest(data), CommitInputAudio
  PROVE  Buries
<1>1. PICK i \in Ids, end \in 0..MaxInputFrames :
        CanCommitInputAudio(data, i, end) /\ data' = AfterCommitInputAudio(data, i, end)
  BY DEF CommitInputAudio
<1>2. end \in Nat
  BY ProtocolAssumption
<1> QED BY <1>1, <1>2, CommitInputAudioHonest DEF Proper, Buries

(* Starting over, the handshake and the close.                             *)
LEMMA ConnectionBuries ==
  ASSUME Proper(data), Honest(data), StartsOver \/ Greets \/ Closes
  PROVE  Buries
<1>1. CASE StartsOver
  BY <1>1, NewDataHonest DEF StartsOver, Buries
<1>2. CASE Greets \/ Closes
  <2>1. SameTalk(data, data')
    BY <1>2 DEF Greets, Closes
  <2> QED BY <2>1, HonestSame DEF SameTalk, Buries
<1> QED BY <1>1, <1>2

LEMMA EveryStepBuries ==
  ASSUME Proper(data), Honest(data), Next
  PROVE  Buries
<1>1. CASE TransportConnected
  BY <1>1, ConnectionSteps, ConnectionBuries
<1>2. CASE TransportDisconnected
  BY <1>2, ConnectionSteps, ConnectionBuries
<1>3. CASE BeginClose
  BY <1>3, BeginCloseSteps, ConnectionBuries
<1>4. CASE AcceptHandshake
  BY <1>4, HandshakeSteps, ConnectionBuries
<1>5. CASE StartConversation
  BY <1>5, StartConversationBuries
<1>6. CASE StartInput
  BY <1>6, StartInputBuries
<1>7. CASE AcceptInputAudio
  BY <1>7, AcceptInputAudioBuries
<1>8. CASE AbortInput
  BY <1>8, AbortInputBuries
<1>9. CASE CloseInput
  BY <1>9, CloseInputBuries
<1>10. CASE AcceptTranscriptUpdate
  BY <1>10, AcceptTranscriptUpdateBuries
<1>11. CASE AcceptTranscriptFinal
  BY <1>11, AcceptTranscriptFinalBuries
<1>12. CASE StartResponse
  BY <1>12, StartResponseBuries
<1>13. CASE AcceptResponseTextDelta
  BY <1>13, AcceptResponseTextDeltaBuries
<1>14. CASE AcceptResponseTextFinal
  BY <1>14, AcceptResponseTextFinalBuries
<1>15. CASE StartOutput
  BY <1>15, StartOutputBuries
<1>16. CASE AcceptOutputAudio
  BY <1>16, AcceptOutputAudioBuries
<1>17. CASE EndOutput
  BY <1>17, EndOutputBuries
<1>18. CASE EndResponse
  BY <1>18, EndResponseBuries
<1>19. CASE CancelConversation
  BY <1>19, CancelConversationBuries
<1>20. CASE AcceptState
  BY <1>20, AcceptStateBuries
<1>21. CASE CancelResponse
  BY <1>21, CancelResponseBuries
<1>22. CASE EndConversation
  BY <1>22, EndConversationBuries
<1>23. CASE AcceptPlaybackOutcome
  BY <1>23, AcceptPlaybackOutcomeBuries
<1>24. CASE AcceptError
  BY <1>24, AcceptErrorBuries
<1>25. CASE CommitInputAudio
  BY <1>25, CommitBuries
<1> QED BY <1>1, <1>2, <1>3, <1>4, <1>5, <1>6, <1>7, <1>8, <1>9, <1>10, <1>11, <1>12, <1>13, <1>14, <1>15, <1>16, <1>17, <1>18, <1>19, <1>20, <1>21, <1>22, <1>23, <1>24, <1>25 DEF Next

(* The objects that are terminal, and no others, have a tombstone, each    *)
(* under the state it ended in, at every moment of every run of one        *)
(* validator: each of the handlers that end something has to append the    *)
(* ProtocolTombstone, and none may append it twice or for what goes on.    *)
THEOREM TombstonesTell == Spec => []TombstonesTellTheEnd
<1>1. Init => Honest(data)
  BY NewDataHonest DEF Init
<1>2. ASSUME IInv, Honest(data), [Next]_data PROVE Honest(data)'
  <2>1. CASE Next
    BY <1>2, <2>1, EveryStepBuries DEF IInv, Buries
  <2>2. CASE UNCHANGED data
    BY <1>2, <2>2 DEF Honest, Buried
  <2> QED BY <1>2, <2>1, <2>2
<1>3. Honest(data) => TombstonesTellTheEnd
  BY DEF Honest, TombstonesTellTheEnd
<1> QED BY <1>1, <1>2, <1>3, Inductive, PTL DEF Spec
=============================================================================
