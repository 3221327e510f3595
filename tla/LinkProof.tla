----------------------------- MODULE LinkProof ------------------------------
(***************************************************************************)
(* Proofs about Link: whatever the application, the client, the handlers   *)
(* and the timers do, and in whatever order, the lifecycle timer is set    *)
(* for exactly what the server waits for, the application holds a writer   *)
(* for exactly the response that is going on, and of a response cut short  *)
(* no PCM stays in the queue.                                              *)
(*                                                                         *)
(* An operator of Session changes the validator's data through Transition  *)
(* or Put, the timer through Sync and the writer on its own.  Bottom up,   *)
(* each is shown to keep the data whole (ProtocolProof and ProtocolSteps   *)
(* have that of the rules) and timer, writer and queue as right as it      *)
(* found them; the actions are then cases of these.                        *)
(***************************************************************************)
EXTENDS Link, ProtocolSteps, SequenceLemmas

-----------------------------------------------------------------------------
(* What the session's data always is.                                      *)

Whole(d) == Good(d) /\ Objects(d) /\ Ledger(d) /\ d.connection_state # "handshaking"

(* The response that is going on, or 0, and its output, or 0.              *)
Speaker(d) ==
  LET r == d.conversation.response_id IN
  IF r # 0 /\ d.responses[r].terminal = "none" THEN r ELSE 0
OutputOf(d, r) == IF r = 0 THEN 0 ELSE d.responses[r].output.id

(* A response cut short before the application finished it.                *)
Loose(d, r) == IsCancelled(d.responses[r]) /\ ~ d.responses[r].end

(* What a step does to these.                                              *)
Same(d, e) ==
  Speaker(e) = Speaker(d) /\ OutputOf(e, Speaker(e)) = OutputOf(d, Speaker(d))
Calm(d, e) == e.conversation.cancel \in {"none", d.conversation.cancel}
Steps(d, e) == Whole(e) /\ Step(d, e)

LEMMA StepWhole ==
  ASSUME NEW d, Whole(d), d.connection_state # "disconnected", NEW e, Good(e), Step(d, e)
  PROVE  Steps(d, e)
<1>1. Objects(e)
  BY KeptObjects DEF Whole, Step
<1>2. Ledger(e)
  BY StepKeepsLedger, SMTT(30) DEF Whole
<1>3. e.connection_state = d.connection_state
  BY SMTT(30) DEF Step, Move, Steady, Releases, Opens, Speaks, Answers, Cancels, GivesUp,
                  Fails, Ends, SameObjects
<1> QED BY <1>1, <1>2, <1>3 DEF Whole, Steps

LEMMA SpeakerIs ==
  ASSUME NEW d, Whole(d)
  PROVE  /\ Speaker(d) # 0 =>
              /\ Speaker(d) \in Ids /\ d.conversation.response_id = Speaker(d)
              /\ d.responses[Speaker(d)].terminal = "none"
              /\ d.responses[Speaker(d)].failure = "none"
              /\ ~ d.responses[Speaker(d)].end
         /\ d.conversation.response_id = 0 => Speaker(d) = 0
<1>1. Role = "server" /\ ~ IsCancelled([terminal |-> "none"])
  BY SessionAssumption DEF IsCancelled, ResponseCancelReason
<1>2. ASSUME Speaker(d) # 0
      PROVE  /\ d.conversation.response_id = Speaker(d)
             /\ d.responses[Speaker(d)].terminal = "none"
  BY <1>2 DEF Speaker
<1>3. ASSUME Speaker(d) # 0
      PROVE  /\ Speaker(d) \in Ids /\ d.responses[Speaker(d)].failure = "none"
             /\ ~ d.responses[Speaker(d)].end
  <2>1. Speaker(d) \in Ids
    BY <1>2, <1>3, CurrentResponse DEF Whole
  <2>2. ~ IsCancelled(d.responses[Speaker(d)])
    BY <1>2, <1>3 DEF IsCancelled, ResponseCancelReason
  <2>3. d.responses[Speaker(d)].failure = "none"
    BY <1>1, <2>1, <2>2 DEF Whole, Objects
  <2>4. ~ d.responses[Speaker(d)].end
    BY <1>2, <1>3, <2>1 DEF Whole, Good, Turns, ResponseTurn, EndRecorded
  <2> QED BY <2>1, <2>3, <2>4
<1> QED BY <1>2, <1>3 DEF Speaker

(* A step cuts loose at most the response that was going on.               *)
LEMMA StepCuts ==
  ASSUME NEW d, Whole(d), NEW e, Whole(e), Step(d, e), NEW x \in Ids, Loose(e, x)
  PROVE  Loose(d, x) \/ x = Speaker(d)
<1>1. ResponseKept(d.responses[x], e.responses[x]) /\ ~ d.responses[x].end
  BY DEF Step, Kept, ResponseKept, Loose
<1>2. CASE d.conversation.response_id # x
  BY <1>1, <1>2 DEF Step, OthersStand, Loose, IsCancelled
<1>3. CASE d.conversation.response_id = x
  <2>1. x # 0 /\ Unfinished(d.responses[x]) /\ EndRecorded(d.responses[x])
    BY <1>3, NoneIds DEF Whole, Good, Turns, ResponseTurn
  <2>2. d.responses[x].terminal = "none"
    BY <1>1, <2>1, SMTT(30) DEF Unfinished, EndRecorded
  <2> QED BY <1>3, <2>1, <2>2 DEF Speaker
<1> QED BY <1>2, <1>3

LEMMA SameByParts ==
  ASSUME NEW d, NEW e, e.conversation.response_id = d.conversation.response_id,
         d.conversation.response_id # 0 =>
           LET r == d.conversation.response_id IN
           /\ e.responses[r].terminal = d.responses[r].terminal
           /\ e.responses[r].output.id = d.responses[r].output.id
  PROVE  Same(d, e)
BY DEF Same, Speaker, OutputOf

-----------------------------------------------------------------------------
(* What the rules accept keeps the data whole.                             *)

FromClient ==
  AnyConversationStarts \cup AnyInputStarts \cup AnyInputAudios \cup AnyInputAborts
  \cup AnyPlaybackFinishes \cup AnyPlaybackInterrupts \cup AnyConversationCancels

(* The server's messages: those that leave the response that is going on   *)
(* as it is, those that may end it, and the two that begin something.      *)
Quiets ==
  AnyInputCloses \cup AnyTranscriptUpdates \cup AnyTranscriptFinals \cup AnyTextDeltas
  \cup AnyTextFinals \cup AnyOutputAudios \cup AnyOutputEnds \cup AnyConversationEnds
  \cup AnyStates \cup AnyInputErrors
Silencers ==
  AnyResponseEnds \cup AnyResponseCancels \cup AnyConversationErrors \cup AnyResponseErrors

LEMMA ErrorTypes ==
  /\ AnyConversationErrors \cup AnyInputErrors \cup AnyResponseErrors
       \subseteq AnyErrors \ ConnectionErrors
  /\ \A m \in AnyErrors : m.type = "error"
  /\ \A m \in AnyConversationErrors : m.scope = "conversation" /\ m.conversation_id \in Ids
                                      /\ m.code \in ConversationErrorCode
  /\ \A m \in AnyInputErrors : m.scope = "input" /\ m.input_id \in Ids
                               /\ m.code \in InputErrorCode
  /\ \A m \in AnyResponseErrors : m.scope = "response" /\ m.response_id \in Ids
                                  /\ m.code \in ResponseErrorCode
BY DEF AnyErrors, ConnectionErrors, AnyConversationErrors, AnyInputErrors, AnyResponseErrors,
       Error

LEMMA MessageTypes ==
  /\ \A m \in AnyInputCloses : m.type = "input.closed"
  /\ \A m \in AnyTranscriptUpdates : m.type = "transcript.update"
  /\ \A m \in AnyTranscriptFinals : m.type = "transcript.final"
  /\ \A m \in AnyTextDeltas : m.type = "response.text.delta" /\ m.response_id \in Ids
  /\ \A m \in AnyTextFinals : m.type = "response.text.final" /\ m.response_id \in Ids
  /\ \A m \in AnyOutputAudios : m.type = "output.audio" /\ m.response_id \in Ids
  /\ \A m \in AnyOutputEnds : m.type = "output.end" /\ m.response_id \in Ids
  /\ \A m \in AnyConversationEnds : m.type = "conversation.end" /\ m.conversation_id \in Ids
                                    /\ m.reason \in ConversationEndReason
  /\ \A m \in AnyStates : m.type = "state"
  /\ \A m \in AnyResponseEnds : m.type = "response.end" /\ m.response_id \in Ids
  /\ \A m \in AnyResponseCancels : m.type = "response.cancelled" /\ m.response_id \in Ids
                                   /\ m.reason \in ResponseCancelReason
  /\ \A m \in AnyResponseStarts : m.type = "response.start" /\ m.response_id \in Ids
  /\ \A m \in AnyOutputStarts : m.type = "output.start" /\ m.response_id \in Ids
<1>1. /\ \A m \in AnyInputCloses : m.type = "input.closed"
      /\ \A m \in AnyTranscriptUpdates : m.type = "transcript.update"
      /\ \A m \in AnyTranscriptFinals : m.type = "transcript.final"
      /\ \A m \in AnyStates : m.type = "state"
  BY DEF AnyInputCloses, AnyTranscriptUpdates, AnyTranscriptFinals, AnyStates
<1>2. /\ \A m \in AnyTextDeltas : m.type = "response.text.delta" /\ m.response_id \in Ids
      /\ \A m \in AnyTextFinals : m.type = "response.text.final" /\ m.response_id \in Ids
      /\ \A m \in AnyOutputAudios : m.type = "output.audio" /\ m.response_id \in Ids
      /\ \A m \in AnyOutputEnds : m.type = "output.end" /\ m.response_id \in Ids
      /\ \A m \in AnyOutputStarts : m.type = "output.start" /\ m.response_id \in Ids
  BY DEF AnyTextDeltas, AnyTextFinals, AnyOutputAudios, AnyOutputEnds, AnyOutputStarts
<1>3. /\ \A m \in AnyConversationEnds : m.type = "conversation.end" /\ m.conversation_id \in Ids
                                        /\ m.reason \in ConversationEndReason
      /\ \A m \in AnyResponseEnds : m.type = "response.end" /\ m.response_id \in Ids
      /\ \A m \in AnyResponseCancels : m.type = "response.cancelled" /\ m.response_id \in Ids
                                       /\ m.reason \in ResponseCancelReason
      /\ \A m \in AnyResponseStarts : m.type = "response.start" /\ m.response_id \in Ids
  BY DEF AnyConversationEnds, AnyResponseEnds, AnyResponseCancels, AnyResponseStarts
<1> QED BY <1>1, <1>2, <1>3

LEMMA Handled ==
  ASSUME NEW d, Whole(d), NEW m, Accepts(d, m)
  PROVE  /\ d.connection_state = "ready" /\ CanHandle(d, m)
         /\ d \in Data /\ Good(d) /\ Objects(d) /\ Newest(d) /\ Past(d) /\ ServerLives(d)
BY DEF Whole, Accepts, Good, Ledger

(* What concerns inputs only.                                              *)
LEMMA InputsOnly ==
  ASSUME NEW d \in Data, NEW e, e.conversation = d.conversation, e.responses = d.responses
  PROVE  Calm(d, e) /\ Same(d, e)
BY SameByParts DEF Calm

LEMMA InputMessage ==
  ASSUME NEW d, Whole(d), NEW m, Accepts(d, m),
         m \in AnyInputCloses \cup AnyTranscriptUpdates \cup AnyTranscriptFinals
               \cup AnyInputErrors
  PROVE  LET e == After(d, m) IN Steps(d, e) /\ Calm(d, e) /\ Same(d, e)
<1> DEFINE e == After(d, m)
<1>1. /\ d.connection_state = "ready" /\ CanHandle(d, m) /\ d \in Data /\ Good(d)
      /\ Past(d) /\ ServerLives(d) /\ Role = "server"
  BY Handled, SessionAssumption
<1>2. CASE m \in AnyInputCloses
  <2>1. CanCloseInput(d, m) /\ After(d, m) = AfterCloseInput(d, m)
    BY <1>1, <1>2, MessageTypes DEF CanHandle, After
  <2>2. Good(e) /\ Step(d, e)
    BY <1>1, <1>2, <2>1, CloseInputGood, CloseInputStep
  <2>3. e.conversation = d.conversation /\ e.responses = d.responses
    BY <1>1, <2>1 DEF AfterCloseInput, Terminalize, WithCommitted, WithInput, WithTombstone,
                      Data
  <2> HIDE DEF e
  <2> QED BY <1>1, <2>2, <2>3, StepWhole, InputsOnly DEF e
<1>3. CASE m \in AnyTranscriptUpdates
  <2>1. CanAcceptTranscriptUpdate(d, m) /\ After(d, m) = AfterTranscriptUpdate(d, m)
    BY <1>1, <1>3, MessageTypes DEF CanHandle, After
  <2>2. Good(e) /\ Step(d, e)
    BY <1>1, <1>3, <2>1, TranscriptUpdateGood, TranscriptUpdateStep
  <2>3. e.conversation = d.conversation /\ e.responses = d.responses
    BY <1>1, <2>1 DEF AfterTranscriptUpdate, WithInput, Data
  <2> HIDE DEF e
  <2> QED BY <1>1, <2>2, <2>3, StepWhole, InputsOnly DEF e
<1>4. CASE m \in AnyTranscriptFinals
  <2>1. CanAcceptTranscriptFinal(d, m) /\ After(d, m) = AfterTranscriptFinal(d, m)
    BY <1>1, <1>4, MessageTypes DEF CanHandle, After
  <2>2. Good(e) /\ Step(d, e)
    BY <1>1, <1>4, <2>1, TranscriptFinalGood, TranscriptFinalStep
  <2>3. e.conversation = d.conversation /\ e.responses = d.responses
    BY <1>1, <2>1 DEF AfterTranscriptFinal, WithInput, Data
  <2> HIDE DEF e
  <2> QED BY <1>1, <2>2, <2>3, StepWhole, InputsOnly DEF e
<1>5. CASE m \in AnyInputErrors
  <2>1. /\ m.type = "error" /\ m.scope = "input" /\ m \in AnyErrors \ ConnectionErrors
        /\ m.input_id \in Ids
    BY <1>5, ErrorTypes
  <2>2. CanAcceptError(d, m) /\ After(d, m) = AfterError(d, m)
    BY <1>1, <2>1 DEF CanHandle, After
  <2>3. Good(e) /\ Step(d, e)
    BY <1>1, <2>1, <2>2, ErrorGood, ErrorStep
  <2>4. e = AfterFailInput(d, m.input_id, m.code)
    BY <1>1, <2>1, <2>2 DEF AfterError, AfterInputError
  <2>5. e.conversation = d.conversation /\ e.responses = d.responses
    BY <1>1, <2>4 DEF AfterFailInput, FinalizeIfMissing, CloseIfOpen, WithInputFailure,
                      Terminalize, WithInput, WithTombstone, Data
  <2> HIDE DEF e
  <2> QED BY <1>1, <2>3, <2>5, StepWhole, InputsOnly DEF e
<1> QED BY <1>2, <1>3, <1>4, <1>5

(* What fills the response without ending it.                              *)
LEMMA RewritesOnly ==
  ASSUME NEW d \in Data, NEW id \in Ids, NEW x, x.terminal = d.responses[id].terminal,
         x.output.id = d.responses[id].output.id, NEW e,
         e.responses = [d.responses EXCEPT ![id] = x], e.conversation = d.conversation
  PROVE  Calm(d, e) /\ Same(d, e)
<1>1. DOMAIN d.responses = Ids
  BY Parts
<1>2. \A r : /\ e.responses[r].terminal = d.responses[r].terminal
             /\ e.responses[r].output.id = d.responses[r].output.id
  BY <1>1
<1> QED BY <1>2, SameByParts, ZenonT(30) DEF Calm

LEMMA ContentMessage ==
  ASSUME NEW d, Whole(d), NEW m, Accepts(d, m),
         m \in AnyTextDeltas \cup AnyTextFinals \cup AnyOutputAudios \cup AnyOutputEnds
  PROVE  LET e == After(d, m) IN Steps(d, e) /\ Calm(d, e) /\ Same(d, e)
<1> DEFINE e == After(d, m)
           id == m.response_id
           r == d.responses[id]
<1>1. /\ d.connection_state = "ready" /\ CanHandle(d, m) /\ d \in Data /\ Good(d)
  BY Handled
<1>2. id \in Ids /\ r \in Responses /\ r.output \in Outputs
  BY <1>1, MessageTypes, Parts DEF Responses
<1>3. CASE m \in AnyTextDeltas
  <2> DEFINE x == [r EXCEPT !.text = Append(@, m.text)]
  <2>1. CanAcceptTextDelta(d, m) /\ After(d, m) = AfterTextDelta(d, m)
    BY <1>1, <1>3, MessageTypes DEF CanHandle, After
  <2>2. Good(e) /\ Step(d, e)
    BY <1>1, <1>3, <2>1, TextDeltaGood, TextDeltaStep
  <2>3. x.terminal = r.terminal /\ x.output.id = r.output.id
    BY <1>2 DEF Responses
  <2>4. e = WithResponse(d, id, x)
    BY <2>1 DEF AfterTextDelta
  <2> HIDE DEF x
  <2>5. e.responses = [d.responses EXCEPT ![id] = x] /\ e.conversation = d.conversation
    BY <1>1, <2>4 DEF WithResponse, Data
  <2> HIDE DEF e
  <2> QED BY <1>1, <1>2, <2>2, <2>3, <2>5, StepWhole, RewritesOnly DEF e
<1>4. CASE m \in AnyTextFinals
  <2> DEFINE x == [r EXCEPT !.text_final = TRUE]
  <2>1. CanAcceptTextFinal(d, m) /\ After(d, m) = AfterTextFinal(d, m)
    BY <1>1, <1>4, MessageTypes DEF CanHandle, After
  <2>2. Good(e) /\ Step(d, e)
    BY <1>1, <1>4, <2>1, TextFinalGood, TextFinalStep
  <2>3. x.terminal = r.terminal /\ x.output.id = r.output.id
    BY <1>2 DEF Responses
  <2>4. e = WithResponse(d, id, x)
    BY <2>1 DEF AfterTextFinal
  <2> HIDE DEF x
  <2>5. e.responses = [d.responses EXCEPT ![id] = x] /\ e.conversation = d.conversation
    BY <1>1, <2>4 DEF WithResponse, Data
  <2> HIDE DEF e
  <2> QED BY <1>1, <1>2, <2>2, <2>3, <2>5, StepWhole, RewritesOnly DEF e
<1>5. CASE m \in AnyOutputAudios
  <2> DEFINE x == [r EXCEPT !.output.received = @ + m.frames]
  <2>1. CanAcceptOutputAudio(d, m) /\ After(d, m) = AfterOutputAudio(d, m)
    BY <1>1, <1>5, MessageTypes DEF CanHandle, After
  <2>2. Good(e) /\ Step(d, e)
    BY <1>1, <1>5, <2>1, OutputAudioGood, OutputAudioStep
  <2>3. x.terminal = r.terminal /\ x.output.id = r.output.id
    BY <1>2 DEF Responses, Outputs
  <2>4. e = WithResponse(d, id, x)
    BY <2>1 DEF AfterOutputAudio
  <2> HIDE DEF x
  <2>5. e.responses = [d.responses EXCEPT ![id] = x] /\ e.conversation = d.conversation
    BY <1>1, <2>4 DEF WithResponse, Data
  <2> HIDE DEF e
  <2> QED BY <1>1, <1>2, <2>2, <2>3, <2>5, StepWhole, RewritesOnly, SMTT(30) DEF e
<1>6. CASE m \in AnyOutputEnds
  <2> DEFINE x == [r EXCEPT !.output = [@ EXCEPT !.terminal = "ended",
                                                 !.total = m.total_frames]]
  <2>1. CanEndOutput(d, m) /\ After(d, m) = AfterEndOutput(d, m)
    BY <1>1, <1>6, MessageTypes DEF CanHandle, After
  <2>2. Good(e) /\ Step(d, e)
    BY <1>1, <1>6, <2>1, EndOutputGood, EndOutputStep
  <2>3. x.terminal = r.terminal /\ x.output.id = r.output.id
    BY <1>2 DEF Responses, Outputs
  <2>4. e = d \/ e = WithTombstone(WithResponse(d, id, x), "output", m.output_id, "ended")
    BY <2>1 DEF AfterEndOutput
  <2> HIDE DEF x
  <2>5. \/ e.responses = d.responses /\ e.conversation = d.conversation
        \/ e.responses = [d.responses EXCEPT ![id] = x] /\ e.conversation = d.conversation
    BY <1>1, <2>4 DEF WithResponse, WithTombstone, Data
  <2> HIDE DEF e
  <2> QED BY <1>1, <1>2, <2>2, <2>3, <2>5, StepWhole, RewritesOnly, InputsOnly DEF e
<1> QED BY <1>3, <1>4, <1>5, <1>6

(* The conversation ends only when no response is going on.                *)
LEMMA TurnMessage ==
  ASSUME NEW d, Whole(d), NEW m, Accepts(d, m), m \in AnyConversationEnds \cup AnyStates
  PROVE  LET e == After(d, m) IN
         /\ Steps(d, e) /\ Calm(d, e) /\ Same(d, e)
         /\ m \in AnyConversationEnds =>
              \/ e = d /\ d.ended_conversations[m.conversation_id] # "none"
              \/ e.conversation = NoConversation
<1> DEFINE e == After(d, m)
           id == m.conversation_id
<1>1. /\ d.connection_state = "ready" /\ CanHandle(d, m) /\ d \in Data /\ Good(d)
  BY Handled
<1>2. CASE m \in AnyConversationEnds
  <2>1. id \in Ids /\ m.reason \in ConversationEndReason
    BY <1>2, MessageTypes
  <2>2. CanEndConversation(d, m) /\ After(d, m) = AfterEndConversation(d, m)
    BY <1>1, <1>2, MessageTypes DEF CanHandle, After
  <2>3. Good(e) /\ Step(d, e)
    BY <1>1, <2>1, <2>2, EndConversationGood, EndConversationStep
  <2>4. CASE d.ended_conversations[id] # "none"
    <3>1. e = d
      BY <2>2, <2>4 DEF AfterEndConversation
    <3> HIDE DEF e
    <3> QED BY <1>1, <2>3, <2>4, <3>1, StepWhole, InputsOnly DEF e
  <2>5. CASE d.ended_conversations[id] = "none"
    <3>1. d.conversation.response_id = 0
      BY <2>2, <2>5 DEF CanEndConversation
    <3>2. e.conversation = NoConversation /\ e.responses = d.responses
      <4>1. EndBecomes(d, AfterEndConversation(d, m), m.conversation_id, m.reason)
        BY <1>1, <2>1, <2>5, EndConversationBecomes
      <4> QED BY <2>2, <4>1 DEF EndBecomes
    <3>3. NoConversation.response_id = 0 /\ NoConversation.cancel = "none"
      BY DEF NoConversation
    <3> HIDE DEF e
    <3>4. Same(d, e) /\ Calm(d, e)
      BY <3>1, <3>2, <3>3, SameByParts DEF Calm
    <3> QED BY <2>3, <3>2, <3>4, StepWhole, <1>1 DEF e
  <2> QED BY <2>4, <2>5
<1>3. CASE m \in AnyStates
  <2>1. CanAcceptState(d, m) /\ After(d, m) = AfterState(d, m)
    BY <1>1, <1>3, MessageTypes DEF CanHandle, After
  <2>2. Good(e) /\ Step(d, e)
    BY <1>1, <1>3, <2>1, StateGood, StateStep
  <2>3. /\ e.responses = d.responses /\ e.conversation.cancel = d.conversation.cancel
        /\ e.conversation.response_id = d.conversation.response_id
    BY <1>1, <2>1 DEF AfterState, WithConversation, Data, Conversations
  <2>4. m \notin AnyConversationEnds
    BY <1>3, MessageTypes
  <2> HIDE DEF e
  <2>5. Same(d, e) /\ Calm(d, e)
    BY <2>3, SameByParts DEF Calm
  <2> QED BY <1>1, <2>2, <2>4, <2>5, StepWhole DEF e
<1> QED BY <1>2, <1>3

LEMMA QuietMessage ==
  ASSUME NEW d, Whole(d), NEW m \in Quiets, Accepts(d, m)
  PROVE  LET e == After(d, m) IN Steps(d, e) /\ Calm(d, e) /\ Same(d, e)
<1>1. \/ m \in AnyInputCloses \cup AnyTranscriptUpdates \cup AnyTranscriptFinals
               \cup AnyInputErrors
      \/ m \in AnyTextDeltas \cup AnyTextFinals \cup AnyOutputAudios \cup AnyOutputEnds
      \/ m \in AnyConversationEnds \cup AnyStates
  BY DEF Quiets
<1> QED BY <1>1, InputMessage, ContentMessage, TurnMessage

(* m silences the response that is going on.                               *)
Stills(d, m) == m \in AnyConversationErrors \/ m.response_id = Speaker(d)

LEMMA ResponseEndSilences ==
  ASSUME NEW d, Whole(d), NEW m \in AnyResponseEnds, Accepts(d, m)
  PROVE  LET e == After(d, m) IN
         /\ Steps(d, e) /\ Calm(d, e)
         /\ Speaker(e) \in {0, Speaker(d)} /\ (m.response_id = Speaker(d) => Speaker(e) = 0)
         /\ e.responses[m.response_id].end
<1> DEFINE e == After(d, m)
           id == m.response_id
           r == d.responses[id]
           x == [r EXCEPT !.end = TRUE, !.terminal = "ended"]
<1>1. /\ d.connection_state = "ready" /\ CanHandle(d, m) /\ d \in Data /\ Good(d)
  BY Handled
<1>2. id \in Ids /\ r \in Responses /\ DOMAIN d.responses = Ids
  BY <1>1, MessageTypes, Parts
<1>3. CanEndResponse(d, m) /\ e = AfterEndResponse(d, m)
  BY <1>1, MessageTypes DEF CanHandle, After
<1>4. Good(e) /\ Step(d, e)
  BY <1>1, <1>3, EndResponseGood, EndResponseStep
<1>5. Steps(d, e)
  <2> HIDE DEF e
  <2> QED BY <1>1, <1>4, StepWhole
<1>6. CASE r.end
  <2>1. e = d
    BY <1>3, <1>6 DEF AfterEndResponse
  <2> HIDE DEF e
  <2>2. id # Speaker(d) \/ Speaker(d) = 0
    BY <1>6, SpeakerIs
  <2> QED BY <1>5, <1>6, <2>1, <2>2 DEF e, Calm
<1>7. CASE ~ r.end
  <2>1. x.terminal = "ended" /\ x.end = TRUE
    BY <1>2 DEF Responses
  <2>2. /\ e.responses = [d.responses EXCEPT ![id] = x]
        /\ e.conversation.response_id \in {0, d.conversation.response_id}
        /\ e.conversation.cancel = d.conversation.cancel
    <3> DEFINE w == WithResponse(d, id, x)
    <3>1. w.responses = [d.responses EXCEPT ![id] = x] /\ w.conversation = d.conversation
          /\ DOMAIN w = DOMAIN d
      BY <1>1 DEF WithResponse, Data
    <3> HIDE DEF w
    <3>2. /\ CompleteResponse(w, id).responses = w.responses
          /\ CompleteResponse(w, id).conversation.response_id = 0
          /\ CompleteResponse(w, id).conversation.cancel = d.conversation.cancel
      BY <1>1, <3>1 DEF CompleteResponse, WithTombstone, WithConversation, Released, Data,
                        Conversations
    <3>3. e \in {w, CompleteResponse(w, id)}
      BY <1>3, <1>7 DEF AfterEndResponse, w
    <3> HIDE DEF e, x
    <3> QED BY <3>1, <3>2, <3>3
  <2> HIDE DEF x, e
  <2>3. /\ e.responses[id].terminal = "ended" /\ e.responses[id].end
        /\ \A k : k # id => e.responses[k].terminal = d.responses[k].terminal
    BY <1>2, <2>1, <2>2
  <2>4. Speaker(e) \in {0, Speaker(d)} /\ (id = Speaker(d) => Speaker(e) = 0)
    BY <2>2, <2>3 DEF Speaker
  <2> QED BY <1>5, <2>2, <2>3, <2>4 DEF e, Calm
<1> QED BY <1>6, <1>7

LEMMA ResponseCancelSilences ==
  ASSUME NEW d, Whole(d), NEW m \in AnyResponseCancels, Accepts(d, m)
  PROVE  LET e == After(d, m) IN
         /\ Steps(d, e) /\ Calm(d, e)
         /\ Speaker(e) \in {0, Speaker(d)} /\ (m.response_id = Speaker(d) => Speaker(e) = 0)
         /\ e.conversation.id = d.conversation.id
<1> DEFINE e == After(d, m)
           id == m.response_id
           r == d.responses[id]
<1>1. /\ d.connection_state = "ready" /\ CanHandle(d, m) /\ d \in Data /\ Good(d)
  BY Handled
<1>2. id \in Ids /\ m.reason \in ResponseCancelReason /\ d.conversation \in Conversations
  BY <1>1, MessageTypes, Parts DEF Data
<1>3. CanCancelResponse(d, m) /\ e = AfterCancelResponse(d, m)
  BY <1>1, MessageTypes DEF CanHandle, After
<1>4. Good(e) /\ Step(d, e)
  BY <1>1, <1>2, <1>3, CancelResponseGood, CancelResponseStep
<1>5. Steps(d, e)
  <2> HIDE DEF e
  <2> QED BY <1>1, <1>4, StepWhole
<1>6. CASE IsCancelled(r)
  <2>1. e = d
    BY <1>3, <1>6 DEF AfterCancelResponse
  <2>2. r.terminal # "none"
    BY <1>6 DEF IsCancelled, ResponseCancelReason
  <2>3. id # Speaker(d) \/ Speaker(d) = 0
    BY <2>2, SpeakerIs
  <2> HIDE DEF e
  <2> QED BY <1>5, <2>1, <2>3 DEF e, Calm
<1>7. CASE ~ IsCancelled(r)
  <2>1. d.conversation.response_id = id
    BY <1>2, <1>3, <1>7 DEF CanCancelResponse, IsCancelled
  <2> DEFINE end == CancellationEnd(d.conversation, r, m.reason)
             y == Released(d.conversation, 0, end)
  <2>2. e.conversation = y
    <3>1. ResponseBecomes(d, AfterCancelResponse(d, m), m.response_id,
                          CancelledResponse(d.responses[m.response_id], m.reason), y,
                          CancelGraves(m.response_id, d.responses[m.response_id]))
      BY <1>1, <1>2, <1>3, <1>7, <2>1, CancelBecomes
    <3> QED BY <1>3, <3>1 DEF ResponseBecomes
  <2> HIDE DEF end
  <2>3. y.response_id = 0 /\ y.cancel = d.conversation.cancel /\ y.id = d.conversation.id
    BY <1>2, ReleasedFields
  <2> HIDE DEF y, e
  <2> QED BY <1>5, <2>2, <2>3 DEF e, Calm, Speaker
<1> QED BY <1>6, <1>7

(* A failure of the response that is going on silences it.                 *)
LEMMA FailSilences ==
  ASSUME NEW d \in Data, NEW id \in Ids, NEW code, d.responses[id].terminal = "none"
  PROVE  LET e == AfterFailResponse(d, id, code) IN
         /\ e.conversation.response_id = 0
         /\ e.conversation.cancel \in {"none", d.conversation.cancel}
<1> DEFINE w == WithResponseFailure(d, id, code)
           a == AfterFailCancel(d, id, code)
           e == AfterFailResponse(d, id, code)
<1>1. /\ w.conversation = d.conversation /\ DOMAIN w = DOMAIN d
      /\ w.responses[id].terminal = "none"
  BY Parts, SMTT(30) DEF WithResponseFailure, WithResponse, Data, Responses
<1>2. /\ a.conversation.response_id = 0 /\ a.conversation.cancel = d.conversation.cancel
      /\ DOMAIN a = DOMAIN d
  <2> DEFINE cancel == FailCancel(d, id, code)
  <2>1. cancel.response_id = id
    BY DEF FailCancel, ResponseCancelled
  <2>2. a = AfterCancelResponse(w, cancel)
    BY DEF AfterFailCancel
  <2> HIDE DEF a, w, cancel
  <2>3. ~ IsCancelled(w.responses[cancel.response_id])
    BY <1>1, <2>1 DEF IsCancelled, ResponseCancelReason
  <2> QED BY <1>1, <2>2, <2>3
          DEF AfterCancelResponse, WithTombstone, WithConversation, WithResponse, Released,
              Data, Conversations
<1> DEFINE f(n) == AfterEndConversation(a, n)
<1>3. e = a \/ \E n : e = f(n)
  BY DEF AfterFailResponse
<1> HIDE DEF a, e
<1>4. \A n : f(n) = a \/ f(n).conversation = NoConversation
  BY <1>2 DEF AfterEndConversation, WithTombstone, WithConversation, Data
<1>5. NoConversation.response_id = 0 /\ NoConversation.cancel = "none"
  BY DEF NoConversation
<1> HIDE DEF f
<1> QED BY <1>2, <1>3, <1>4, <1>5 DEF e

LEMMA ResponseErrorSilences ==
  ASSUME NEW d, Whole(d), NEW m \in AnyResponseErrors, Accepts(d, m)
  PROVE  LET e == After(d, m) IN Steps(d, e) /\ Calm(d, e) /\ Speaker(e) = 0
<1> DEFINE e == After(d, m)
           id == m.response_id
<1>1. /\ d.connection_state = "ready" /\ CanHandle(d, m) /\ d \in Data /\ Good(d)
      /\ Past(d) /\ ServerLives(d) /\ Role = "server"
  BY Handled, SessionAssumption
<1>2. /\ m.type = "error" /\ m.scope = "response" /\ m \in AnyErrors \ ConnectionErrors
      /\ id \in Ids
  BY ErrorTypes
<1>3. CanAcceptError(d, m) /\ e = AfterError(d, m)
  BY <1>1, <1>2 DEF CanHandle, After
<1>4. Good(e) /\ Step(d, e)
  BY <1>1, <1>2, <1>3, ErrorGood, ErrorStep
<1>5. Steps(d, e)
  <2> HIDE DEF e
  <2> QED BY <1>1, <1>4, StepWhole
<1>6. d.responses[id].terminal = "none" /\ e = AfterFailResponse(d, id, m.code)
  BY <1>1, <1>2, <1>3 DEF CanAcceptError, AfterError, AfterResponseError
<1> HIDE DEF e
<1>7. /\ e.conversation.response_id = 0
      /\ e.conversation.cancel \in {"none", d.conversation.cancel}
  BY <1>1, <1>2, <1>6, FailSilences
<1> QED BY <1>5, <1>7 DEF e, Calm, Speaker

LEMMA ConversationErrorSilences ==
  ASSUME NEW d, Whole(d), NEW m \in AnyConversationErrors, Accepts(d, m)
  PROVE  LET e == After(d, m) IN
         Steps(d, e) /\ Calm(d, e) /\ Speaker(e) = 0
<1> DEFINE e == After(d, m)
           c == d.conversation
           marked == WithFailure(WithStaleResponse(d), m.code)
           finalized == IF c.input_id = 0 THEN marked
                        ELSE FinalizeIfMissing(CloseIfOpen(marked, c.input_id), c.input_id)
           a == FailedConversation(d, m.code)
<1>1. /\ d.connection_state = "ready" /\ CanHandle(d, m) /\ d \in Data /\ Good(d)
      /\ Past(d) /\ ServerLives(d) /\ Role = "server"
  BY Handled, SessionAssumption
<1>2. /\ m.type = "error" /\ m.scope = "conversation" /\ m \in AnyErrors \ ConnectionErrors
      /\ m.conversation_id \in Ids
  BY ErrorTypes
<1>3. CanAcceptError(d, m) /\ e = AfterError(d, m)
  BY <1>1, <1>2 DEF CanHandle, After
<1>4. Good(e) /\ Step(d, e)
  BY <1>1, <1>2, <1>3, ErrorGood, ErrorStep
<1>5. Steps(d, e)
  <2> HIDE DEF e
  <2> QED BY <1>1, <1>4, StepWhole
<1>6. /\ c.id \in Ids /\ d.ended_conversations[c.id] = "none"
      /\ e = AfterEndConversation(a, FailConversationEnd(d, m.code))
  BY <1>1, <1>2, <1>3
     DEF CanAcceptError, AfterError, AfterConversationError, Live, Open, Past
<1>7. DOMAIN marked = DOMAIN d /\ marked.ended_conversations = d.ended_conversations
  BY <1>1 DEF WithFailure, WithStaleResponse, WithConversation, WithResponse, Data
<1>8. DOMAIN finalized = DOMAIN d /\ finalized.ended_conversations = d.ended_conversations
  <2> HIDE DEF marked
  <2> QED BY <1>1, <1>7 DEF FinalizeIfMissing, CloseIfOpen, Terminalize, WithInput,
                            WithTombstone, Data
<1>9. DOMAIN a = DOMAIN d /\ a.ended_conversations = d.ended_conversations
  <2> DEFINE cancel == ResponseCancelled(c.id, c.response_id, "conversation_cancelled")
  <2>1. a \in {finalized, AfterCancelResponse(finalized, cancel)}
    BY DEF FailedConversation
  <2> HIDE DEF finalized, a, cancel
  <2> QED
    BY <1>1, <1>8, <2>1, ZenonT(30)
    DEF AfterCancelResponse, WithTombstone, WithConversation, WithResponse, Data
<1>10. e.conversation = NoConversation
  <2> DEFINE end == FailConversationEnd(d, m.code)
  <2>1. end.conversation_id = c.id
    BY DEF FailConversationEnd, ConversationEnded
  <2> HIDE DEF a, e, end
  <2> QED BY <1>1, <1>6, <1>9, <2>1 DEF AfterEndConversation, WithTombstone,
                                        WithConversation, Data, end
<1> HIDE DEF e
<1> QED BY <1>5, <1>10 DEF e, Calm, Speaker, NoConversation

LEMMA SilencingMessage ==
  ASSUME NEW d, Whole(d), NEW m \in Silencers, Accepts(d, m)
  PROVE  LET e == After(d, m) IN
         /\ Steps(d, e) /\ Calm(d, e)
         /\ Speaker(e) \in {0, Speaker(d)}
         /\ Stills(d, m) => Speaker(e) = 0
<1>1. \/ m \in AnyResponseEnds \/ m \in AnyResponseCancels
      \/ m \in AnyConversationErrors \/ m \in AnyResponseErrors
  BY DEF Silencers
<1>2. m \in AnyConversationErrors => m \notin AnyResponseEnds /\ m \notin AnyResponseCancels
  BY MessageTypes, ErrorTypes
<1> QED BY <1>1, <1>2, ResponseEndSilences, ResponseCancelSilences, ResponseErrorSilences,
           ConversationErrorSilences DEF Stills

(* A response begins, with the output it may have.                         *)
LEMMA ResponseStartMessage ==
  ASSUME NEW d, Whole(d), NEW m \in AnyResponseStarts, Accepts(d, m)
  PROVE  LET e == After(d, m) IN
         /\ Steps(d, e) /\ Calm(d, e)
         /\ Speaker(d) = 0 /\ Speaker(e) = m.response_id /\ OutputOf(e, Speaker(e)) = 0
<1> DEFINE e == After(d, m)
           id == m.response_id
<1>1. /\ d.connection_state = "ready" /\ CanHandle(d, m) /\ d \in Data /\ Good(d)
      /\ Objects(d)
  BY Handled
<1>2. id \in Ids /\ DOMAIN d.responses = Ids /\ d.conversation \in Conversations
  BY <1>1, MessageTypes, Parts DEF Data
<1>3. CanStartResponse(d, m) /\ e = AfterStartResponse(d, m)
  BY <1>1, MessageTypes DEF CanHandle, After
<1>4. Good(e) /\ Step(d, e)
  BY <1>1, <1>3, StartResponseGood, StartResponseStep
<1>5. /\ e.conversation.response_id = id /\ e.conversation.cancel = d.conversation.cancel
      /\ e.responses[id] = NewResponse(m)
  BY <1>1, <1>2, <1>3 DEF AfterStartResponse, WithResponse, WithConversation, WithInput, Data,
                          Conversations
<1>6. NewResponse(m).terminal = "none" /\ NewResponse(m).output.id = 0
  BY DEF NewResponse, NoResponse, NoOutput
<1>7. d.conversation.response_id = 0 /\ id # 0
  BY <1>2, <1>3, NoneIds DEF CanStartResponse
<1> HIDE DEF e
<1>8. Steps(d, e) /\ Speaker(d) = 0
  BY <1>1, <1>4, <1>7, StepWhole, SpeakerIs
<1> QED BY <1>5, <1>6, <1>7, <1>8 DEF e, Calm, Speaker, OutputOf

LEMMA OutputStartMessage ==
  ASSUME NEW d, Whole(d), NEW m \in AnyOutputStarts, Accepts(d, m)
  PROVE  LET e == After(d, m) IN
         /\ Steps(d, e) /\ Calm(d, e) /\ Speaker(e) = Speaker(d)
         /\ m.response_id = Speaker(d) => OutputOf(e, Speaker(e)) = m.output_id
<1> DEFINE e == After(d, m)
           id == m.response_id
           r == d.responses[id]
           t == IF Stale(r) THEN "cancelled" ELSE "none"
           o == [NoOutput EXCEPT !.id = m.output_id, !.terminal = t]
           x == [r EXCEPT !.output = o]
<1>1. /\ d.connection_state = "ready" /\ CanHandle(d, m) /\ d \in Data /\ Good(d)
  BY Handled
<1>2. id \in Ids /\ r \in Responses /\ DOMAIN d.responses = Ids
  BY <1>1, MessageTypes, Parts
<1>3. CanStartOutput(d, m) /\ e = AfterStartOutput(d, m)
  BY <1>1, MessageTypes DEF CanHandle, After
<1>4. Good(e) /\ Step(d, e)
  BY <1>1, <1>3, StartOutputGood, StartOutputStep, SMTT(30)
<1>5. /\ ResponseBecomes(d, AfterStartOutput(d, m), m.response_id, x,
                         AfterStartOutput(d, m).conversation, OutputGraves(r, m.output_id))
      /\ SameFate(d, AfterStartOutput(d, m)) /\ SameTurn(d, AfterStartOutput(d, m))
  BY <1>1, <1>3, StartOutputBecomes
<1>6. /\ e.responses = [d.responses EXCEPT ![id] = x]
      /\ e.conversation.cancel = d.conversation.cancel
      /\ e.conversation.response_id = d.conversation.response_id
  BY <1>3, <1>5 DEF ResponseBecomes, SameFate, SameTurn
<1>7. x.terminal = r.terminal /\ x.output.id = m.output_id
  BY <1>2 DEF Responses, NoOutput
<1> HIDE DEF e, x
<1>8. Steps(d, e)
  BY <1>1, <1>4, StepWhole
<1>9. \A k : e.responses[k].terminal = d.responses[k].terminal
  BY <1>2, <1>6, <1>7
<1>10. e.responses[id].output.id = m.output_id
  BY <1>2, <1>6, <1>7
<1>11. Speaker(e) = Speaker(d)
  BY <1>6, <1>9 DEF Speaker
<1>12. id # 0
  BY <1>2, NoneIds
<1> QED BY <1>6, <1>8, <1>10, <1>11, <1>12 DEF e, Calm, OutputOf

-----------------------------------------------------------------------------
(* What the client says: it silences the response exactly where            *)
(* cancellation_targets says so, and only it cancels the conversation.     *)

LEMMA InputStartMessage ==
  ASSUME NEW d, Whole(d), NEW m \in AnyInputStarts, Accepts(d, m)
  PROVE  LET e == After(d, m) IN
         /\ Steps(d, e) /\ Calm(d, e)
         /\ IF CancelsResponse(d, m) THEN Speaker(e) = 0 ELSE Same(d, e)
<1> DEFINE e == After(d, m)
           base == IF CancelsOnBarge(d, m)
                   THEN AfterCancelResponse(d, BargeCancel(m)) ELSE d
<1>1. /\ d.connection_state = "ready" /\ CanHandle(d, m) /\ d \in Data /\ Good(d)
      /\ Objects(d) /\ Newest(d)
  BY Handled
<1>2. m.type = "input.start"
  BY DEF AnyInputStarts
<1>3. CanStartInput(d, m) /\ e = AfterStartInput(d, m)
  BY <1>1, <1>2 DEF CanHandle, After
<1>4. Good(e) /\ Step(d, e)
  BY <1>1, <1>3, StartInputGood, StartInputStep
<1>5. base.conversation.response_id = 0 /\ base.conversation.cancel = d.conversation.cancel
      /\ Good(base)
  BY <1>1, <1>3, BargeBase
<1>6. base.conversation \in Conversations /\ DOMAIN base = DOMAIN d
  BY <1>1, <1>5 DEF Good, Data
<1>7. /\ e.conversation.response_id = 0 /\ e.conversation.cancel = d.conversation.cancel
  <2>1. e = [WithInput(WithConversation(base, [base.conversation EXCEPT !.input_id = m.input_id]),
                       m.input_id, NewInput(m)) EXCEPT !.input_ids = @ + 1]
    BY <1>3 DEF AfterStartInput
  <2> HIDE DEF base, e
  <2> QED BY <1>1, <1>5, <1>6, <2>1 DEF WithInput, WithConversation, Data, Conversations
<1>8. ~ CancelsResponse(d, m) => d.conversation.response_id = 0
  <2>1. ~ CancelsResponse(d, m) => base = d
    BY <1>2 DEF CancelsResponse
  <2> QED BY <1>5, <2>1
<1> HIDE DEF e, base
<1> QED BY <1>1, <1>4, <1>7, <1>8, StepWhole, SameByParts DEF e, Calm, Speaker

LEMMA PlaybackMessage ==
  ASSUME NEW d, Whole(d), NEW m \in AnyPlaybackFinishes \cup AnyPlaybackInterrupts,
         Accepts(d, m)
  PROVE  LET e == After(d, m) IN
         /\ Steps(d, e) /\ Calm(d, e)
         /\ IF CancelsResponse(d, m) THEN Speaker(e) = 0 ELSE Same(d, e)
<1> DEFINE e == After(d, m)
           id == m.response_id
           r == d.responses[id]
           a == Interrupted(d, m)
           w == [r EXCEPT !.playback = PlaybackOf(m), !.stale = TRUE]
           x == [r EXCEPT !.playback = PlaybackOf(m)]
<1>1. /\ d.connection_state = "ready" /\ CanHandle(d, m) /\ d \in Data /\ Good(d)
      /\ Past(d) /\ ServerLives(d) /\ Role = "server"
  BY Handled, SessionAssumption
<1>2. m.type \in {"playback.finished", "playback.interrupted"} /\ id \in Ids
  BY DEF AnyPlaybackFinishes, AnyPlaybackInterrupts
<1>3. CanAcceptPlaybackOutcome(d, m) /\ e = AfterPlaybackOutcome(d, m)
  BY <1>1, <1>2 DEF CanHandle, After
<1>4. Good(e) /\ Step(d, e)
  BY <1>1, <1>3, PlaybackOutcomeGood, PlaybackOutcomeStep
<1>5. Steps(d, e)
  <2> HIDE DEF e
  <2> QED BY <1>1, <1>4, StepWhole
<1>6. r \in Responses /\ DOMAIN d.responses = Ids
  BY <1>1, <1>2, Parts
<1>7. CASE r.playback # NoPlayback
  <2>1. e = d /\ ~ CancelsResponse(d, m)
    BY <1>2, <1>3, <1>7 DEF AfterPlaybackOutcome, CancelsResponse
  <2> HIDE DEF e
  <2> QED BY <1>5, <2>1, InputsOnly, <1>1 DEF e
<1>8. CASE r.playback = NoPlayback /\ m.type = "playback.finished"
  <2>1. x.terminal = r.terminal /\ x.output.id = r.output.id
    BY <1>6 DEF Responses
  <2>2. /\ WithPlayback(d, m).responses = [d.responses EXCEPT ![id] = x]
        /\ WithPlayback(d, m).conversation = d.conversation
        /\ DOMAIN WithPlayback(d, m) = DOMAIN d
    BY <1>1 DEF WithPlayback, WithResponse, Data
  <2>3. ~ CancelsResponse(d, m)
    BY <1>8 DEF CancelsResponse
  <2>4. CASE ~ (r.end /\ ~ IsCancelled(r))
    <3>1. e = WithPlayback(d, m)
      BY <1>3, <1>8, <2>4 DEF AfterPlaybackOutcome
    <3> HIDE DEF e, x
    <3> QED BY <1>1, <1>2, <1>5, <2>1, <2>2, <2>3, <3>1, RewritesOnly DEF e
  <2>5. CASE r.end /\ ~ IsCancelled(r)
    <3>1. e = CompleteResponse(WithPlayback(d, m), id)
      BY <1>3, <1>8, <2>5 DEF AfterPlaybackOutcome
    <3>2. r.terminal = "ended"
      BY <1>1, <1>2, <1>6, <2>5
         DEF Good, Turns, ResponseTurn, EndRecorded, IsCancelled, Responses
    <3>3. PlaybackOf(m).kind = "finished" /\ NoPlayback.kind # "finished"
      BY <1>8 DEF PlaybackOf, NoPlayback
    <3>4. r.output.terminal = "ended" /\ r.conversation_id # 0
      <4>1. m.conversation_id \in Ids
        BY DEF AnyPlaybackFinishes, AnyPlaybackInterrupts
      <4>2. PlaybackOf(m) # NoPlayback
        BY <3>3
      <4> QED BY <1>3, <1>8, <4>1, <4>2, NoneIds
              DEF CanAcceptPlaybackOutcome, KnownOutput, KnownResponse
    <3>5. d.conversation.response_id = id
      <4>1. Unfinished(r)
        BY <1>8, <3>2, <3>3, <3>4 DEF Unfinished
      <4> QED BY <1>1, <1>2, <4>1 DEF Good, Turns, ResponseTurn
    <3>6. Speaker(d) = 0
      BY <3>2, <3>5 DEF Speaker
    <3>7. /\ e.conversation.response_id = 0
          /\ e.conversation.cancel = d.conversation.cancel
      <4> HIDE DEF e, x
      <4> QED BY <1>1, <2>2, <3>1 DEF CompleteResponse, WithTombstone, WithConversation,
                                      Released, Data, Conversations
    <3> HIDE DEF e
    <3>8. Speaker(e) = 0
      BY <3>7 DEF Speaker
    <3> QED BY <1>5, <2>3, <3>6, <3>7, <3>8 DEF e, Calm, Same, OutputOf
  <2> QED BY <2>4, <2>5
<1>9. CASE r.playback = NoPlayback /\ m.type = "playback.interrupted"
  <2>1. w.terminal = r.terminal /\ w.output.id = r.output.id
    BY <1>6 DEF Responses
  <2>2. /\ a.responses = [d.responses EXCEPT ![id] = w] /\ a.conversation = d.conversation
        /\ a.responses[id] = w
    BY <1>1, <1>2, <1>6 DEF Interrupted, WithResponse, Data
  <2>3. AccountingOnly(d, m) <=> ~ CancelsResponse(d, m)
    BY <1>9 DEF CancelsResponse
  <2>4. Good(a)
    <3>1. m.played_frames \in Nat /\ m.reason \in PlaybackInterruptReason
      BY <1>9 DEF AnyPlaybackFinishes, AnyPlaybackInterrupts
    <3>2. PlaybackOf(m) \in Playbacks
      BY <1>9, <3>1 DEF PlaybackOf, Playbacks
    <3> QED BY <1>1, <1>2, <1>9, <3>2, InterruptedGood
  <2>5. CASE AccountingOnly(d, m)
    <3>1. e = a
      BY <1>3, <1>9, <2>5 DEF AfterPlaybackOutcome
    <3> HIDE DEF e, a, w
    <3> QED BY <1>1, <1>2, <1>5, <2>1, <2>2, <2>3, <2>5, <3>1, RewritesOnly DEF e
  <2>6. CASE ~ AccountingOnly(d, m)
    <3>1. ~ IsCancelled(r) /\ PlaybackOf(m) # NoPlayback
      BY <1>9, <2>6 DEF AccountingOnly, PlaybackOf, NoPlayback
    <3>2. CASE ~ FailsPlayback(m)
      <4> DEFINE cancel == PlaybackCancel(m)
      <4>1. e = AfterCancelResponse(a, cancel) /\ cancel.response_id = id
        BY <1>3, <1>9, <2>6, <3>2 DEF AfterPlaybackOutcome, PlaybackCancel, ResponseCancelled
      <4>2. ~ IsCancelled(a.responses[id]) /\ a \in Data
        BY <2>1, <2>2, <2>4, <3>1 DEF IsCancelled, Good
      <4> HIDE DEF e, a, cancel, w
      <4>3. /\ e.conversation.response_id = 0
            /\ e.conversation.cancel = d.conversation.cancel
        BY <2>2, <4>1, <4>2 DEF AfterCancelResponse, WithTombstone, WithConversation,
                                WithResponse, Released, Data, Conversations
      <4> QED BY <1>5, <2>3, <2>6, <4>3 DEF e, Calm, Speaker
    <3>3. CASE FailsPlayback(m)
      <4>1. e = AfterFailResponse(a, id, "playback_failed")
        BY <1>1, <1>3, <1>9, <2>6, <3>3 DEF AfterPlaybackOutcome
      <4>2. CanFailResponse(a, id, "playback_failed")
        BY <1>1, <1>3, <1>9, <2>6, <3>1, <3>3 DEF CanAcceptPlaybackOutcome, AccountingOnly
      <4>3. a.responses[id].terminal = "none" /\ a \in Data
        BY <2>4, <4>2 DEF CanFailResponse, Good
      <4> HIDE DEF e, a, w
      <4>4. /\ e.conversation.response_id = 0
            /\ e.conversation.cancel \in {"none", d.conversation.cancel}
        BY <1>2, <2>2, <4>1, <4>3, FailSilences
      <4> QED BY <1>5, <2>3, <2>6, <4>4 DEF e, Calm, Speaker
    <3> QED BY <3>2, <3>3
  <2> QED BY <2>5, <2>6
<1> QED BY <1>2, <1>7, <1>8, <1>9

LEMMA ClientMessage ==
  ASSUME NEW d, Whole(d), NEW m \in FromClient, Accepts(d, m)
  PROVE  LET e == After(d, m) IN
         /\ Steps(d, e) /\ (Calm(d, e) \/ m.type = "conversation.cancel")
         /\ IF CancelsResponse(d, m) THEN Speaker(e) = 0 ELSE Same(d, e)
<1> DEFINE e == After(d, m)
<1>1. /\ d.connection_state = "ready" /\ CanHandle(d, m) /\ d \in Data /\ Good(d)
  BY Handled
<1>2. CASE m \in AnyConversationStarts
  <2>1. m.type = "conversation.start"
    BY <1>2 DEF AnyConversationStarts
  <2>2. CanStartConversation(d, m) /\ e = AfterStartConversation(d, m)
    BY <1>1, <2>1 DEF CanHandle, After
  <2>3. Good(e) /\ Step(d, e)
    BY <1>1, <1>2, <2>2, StartConversationGood, StartConversationStep
  <2>4. /\ e.conversation.response_id = 0 /\ e.conversation.cancel = "none"
    BY <1>1, <2>2 DEF AfterStartConversation, WithConversation, NoConversation, Data
  <2>5. d.conversation.response_id = 0
    <3>1. d.conversation.id = 0
      BY <2>2 DEF CanStartConversation
    <3> QED BY <1>1, <3>1, CurrentResponse
  <2> HIDE DEF e
  <2>6. Steps(d, e) /\ Same(d, e) /\ Calm(d, e)
    BY <1>1, <2>3, <2>4, <2>5, StepWhole, SameByParts DEF Calm
  <2> QED BY <2>1, <2>6 DEF e, CancelsResponse
<1>3. CASE m \in AnyInputAudios
  <2>1. m.type = "input.audio"
    BY <1>3 DEF AnyInputAudios
  <2>2. CanAcceptInputAudio(d, m) /\ e = AfterInputAudio(d, m)
    BY <1>1, <2>1 DEF CanHandle, After
  <2>3. Good(e) /\ Step(d, e)
    BY <1>1, <1>3, <2>2, InputAudioGood, InputAudioStep
  <2>4. e.conversation = d.conversation /\ e.responses = d.responses
    BY <1>1, <2>2 DEF AfterInputAudio, AfterFailInput, FinalizeIfMissing, CloseIfOpen,
                      WithInputFailure, Terminalize, WithInput, WithTombstone, Data
  <2> HIDE DEF e
  <2>5. Steps(d, e) /\ Same(d, e) /\ Calm(d, e)
    BY <1>1, <2>3, <2>4, StepWhole, InputsOnly
  <2> QED BY <2>1, <2>5 DEF e, CancelsResponse
<1>4. CASE m \in AnyInputAborts
  <2>1. m.type = "input.abort"
    BY <1>4 DEF AnyInputAborts
  <2>2. CanAbortInput(d, m) /\ e = AfterAbortInput(d, m)
    BY <1>1, <2>1 DEF CanHandle, After
  <2>3. Good(e) /\ Step(d, e)
    BY <1>1, <1>4, <2>2, AbortInputGood, AbortInputStep
  <2>4. e.conversation = d.conversation /\ e.responses = d.responses
    BY <1>1, <2>2 DEF AfterAbortInput, Terminalize, WithInput, WithTombstone, Data
  <2> HIDE DEF e
  <2>5. Steps(d, e) /\ Same(d, e) /\ Calm(d, e)
    BY <1>1, <2>3, <2>4, StepWhole, InputsOnly
  <2> QED BY <2>1, <2>5 DEF e, CancelsResponse
<1>5. CASE m \in AnyConversationCancels
  <2>1. m.type = "conversation.cancel"
    BY <1>5 DEF AnyConversationCancels
  <2>2. CanCancelConversation(d, m) /\ e = AfterCancelConversation(d, m)
    BY <1>1, <2>1 DEF CanHandle, After
  <2>3. Good(e) /\ Step(d, e)
    BY <1>1, <1>5, <2>2, CancelConversationGood, CancelConversationStep
  <2>4. /\ e.conversation.response_id = d.conversation.response_id
        /\ e.responses = d.responses
    BY <1>1, <2>2 DEF AfterCancelConversation, WithConversation, WithInput, WithTombstone,
                      Data, Conversations
  <2> HIDE DEF e
  <2>5. Steps(d, e) /\ Same(d, e)
    BY <1>1, <2>3, <2>4, StepWhole, SameByParts
  <2> QED BY <2>1, <2>5 DEF e, CancelsResponse
<1> QED BY <1>2, <1>3, <1>4, <1>5, InputStartMessage, PlaybackMessage DEF FromClient
-----------------------------------------------------------------------------
(* Transition, message by message: run is what the recursion computes.     *)

Runs(run, n, d, messages) ==
  /\ DOMAIN run = 0..n
  /\ run[0] = [ok |-> TRUE, data |-> d, wire |-> <<>>]
  /\ \A k \in 1..n : run[k] = Transited(run[k - 1], messages[k])

LEMMA RunExists ==
  ASSUME NEW d, NEW messages, NEW N \in Nat
  PROVE  \E run : Runs(run, N, d, messages)
<1> DEFINE start == [ok |-> TRUE, data |-> d, wire |-> <<>>]
           T == {n \in 0..N : \E run : Runs(run, n, d, messages)}
<1>1. 0 \in T
  <2>1. Runs([k \in 0..0 |-> start], 0, d, messages)
    BY DEF Runs
  <2> QED BY <2>1
<1>2. ASSUME NEW n \in 1..N, n - 1 \in T PROVE n \in T
  <2>1. PICK run : Runs(run, n - 1, d, messages)
    BY <1>2
  <2> DEFINE next == Transited(run[n - 1], messages[n])
             h == [k \in 0..n |-> IF k = n THEN next ELSE run[k]]
  <2> HIDE DEF next
  <2>2. DOMAIN h = 0..n /\ h[0] = start
    <3>1. 0 \in 0..n /\ 0 # n /\ run[0] = start
      BY <2>1 DEF Runs
    <3> HIDE DEF start
    <3> QED BY <3>1
  <2>3. ASSUME NEW k \in 1..n PROVE h[k] = Transited(h[k - 1], messages[k])
    <3>1. h[k - 1] = run[k - 1]
      OBVIOUS
    <3>2. CASE k = n
      <4>1. h[n] = next
        OBVIOUS
      <4> HIDE DEF h
      <4> QED BY <3>1, <3>2, <4>1 DEF next
    <3>3. CASE k # n
      <4>1. k \in 1..(n - 1) /\ h[k] = run[k]
        BY <3>3
      <4> HIDE DEF h
      <4> QED BY <2>1, <3>1, <4>1 DEF Runs
    <3> QED BY <3>2, <3>3
  <2> HIDE DEF h
  <2>4. Runs(h, n, d, messages)
    BY <2>2, <2>3 DEF Runs
  <2> QED BY <2>4
<1> HIDE DEF T
<1>3. 0..N \subseteq T
  BY <1>1, <1>2, BoundedInduction
<1>4. N \in T
  BY <1>3
<1> QED BY <1>4 DEF T

LEMMA TransitionRuns ==
  ASSUME NEW d, NEW messages, Len(messages) \in Nat
  PROVE  \E run : /\ Runs(run, Len(messages), d, messages)
                  /\ Transition(d, messages) = run[Len(messages)]
<1> DEFINE N == Len(messages)
           start == [ok |-> TRUE, data |-> d, wire |-> <<>>]
           Rule(g) == [k \in 0..N |-> IF k = 0 THEN start ELSE Transited(g[k - 1], messages[k])]
           run == CHOOSE g : g = Rule(g)
<1>1. N \in Nat
  OBVIOUS
<1> HIDE DEF N
<1>2. PICK g : Runs(g, N, d, messages)
  BY <1>1, RunExists
<1> DEFINE f == [k \in 0..N |-> g[k]]
<1>3. f = Rule(f)
  <2>1. ASSUME NEW k \in 0..N
        PROVE  f[k] = IF k = 0 THEN start ELSE Transited(f[k - 1], messages[k])
    <3>1. CASE k = 0
      BY <1>2, <3>1 DEF Runs
    <3>2. CASE k # 0
      <4>1. k \in 1..N /\ k - 1 \in 0..N
        BY <1>1, <3>2
      <4>2. f[k] = g[k] /\ f[k - 1] = g[k - 1]
        BY <4>1
      <4> HIDE DEF f, start
      <4> QED BY <1>2, <3>2, <4>1, <4>2 DEF Runs
    <3> QED BY <3>1, <3>2
  <2>2. f = [k \in 0..N |-> f[k]]
    OBVIOUS
  <2> HIDE DEF f, start
  <2> QED BY <2>1, <2>2
<1>4. run = Rule(run)
  <2> HIDE DEF Rule, f
  <2> QED BY <1>3
<1>5. Transition(d, messages) = run[N]
  BY DEF Transition, N
<1> HIDE DEF run, start
<1>6. /\ DOMAIN run = 0..N /\ run[0] = start
      /\ \A k \in 1..N : run[k] = Transited(run[k - 1], messages[k])
  <2>1. DOMAIN run = 0..N /\ \A k \in 0..N : run[k] = Rule(run)[k]
    BY <1>4
  <2>2. 0 \in 0..N /\ \A k \in 1..N : k \in 0..N /\ k # 0
    BY <1>1
  <2> QED BY <2>1, <2>2
<1> HIDE DEF Rule
<1> QED BY <1>5, <1>6 DEF Runs, N, start

(* What an accepted message adds to what the batch has come to.            *)
Grows(b, a, m) ==
  /\ b.ok /\ Accepts(b.data, m) /\ a.data = After(b.data, m)
  /\ a.wire = (b.wire \o <<m>>) \o Outbound(b.data, m)

LEMMA RunSteps ==
  ASSUME NEW d, NEW messages, NEW N \in Nat, NEW run, Runs(run, N, d, messages)
  PROVE  \A k \in 1..N : run[k].ok => Grows(run[k - 1], run[k], messages[k])
<1> DEFINE Fields == {"ok", "data", "wire"}
           T == {k \in 0..N : DOMAIN run[k] = Fields}
<1>1. 0 \in T
  BY DEF Runs
<1>2. ASSUME NEW b, DOMAIN b = Fields, NEW m
      PROVE  /\ DOMAIN Transited(b, m) = Fields
             /\ Transited(b, m).ok => Grows(b, Transited(b, m), m)
  <2>1. CASE b.ok /\ Accepts(b.data, m)
    BY <1>2, <2>1 DEF Transited, Grows
  <2>2. CASE ~ (b.ok /\ Accepts(b.data, m))
    <3>1. Transited(b, m) = [b EXCEPT !.ok = FALSE]
      BY <2>2 DEF Transited
    <3> QED BY <1>2, <3>1
  <2> QED BY <2>1, <2>2
<1>3. ASSUME NEW k \in 1..N, k - 1 \in T PROVE k \in T
  <2> HIDE DEF Fields
  <2>1. run[k] = Transited(run[k - 1], messages[k]) /\ DOMAIN run[k - 1] = Fields
    BY <1>3 DEF Runs
  <2> DEFINE b == run[k - 1]
  <2> HIDE DEF b
  <2>2. DOMAIN Transited(b, messages[k]) = Fields
    BY <1>2, <2>1 DEF b
  <2> QED BY <2>1, <2>2 DEF b
<1> HIDE DEF T, Fields
<1>4. 0..N \subseteq T
  BY <1>1, <1>3, BoundedInduction
<1>5. ASSUME NEW k \in 1..N
      PROVE  DOMAIN run[k - 1] = Fields /\ run[k] = Transited(run[k - 1], messages[k])
  <2>1. k - 1 \in 0..N
    OBVIOUS
  <2> QED BY <1>4, <2>1 DEF Runs, T
<1>6. ASSUME NEW k \in 1..N PROVE run[k].ok => Grows(run[k - 1], run[k], messages[k])
  BY ONLY <1>2, <1>5, k \in 1..N
<1> QED BY <1>6

(* If all are accepted, the data passes from one of these sets to the      *)
(* next.                                                                   *)
LEMMA TransitionReaches ==
  ASSUME NEW d, NEW messages, Len(messages) \in Nat, NEW W, d \in W[0],
         \A k \in 1..Len(messages) : \A e \in W[k - 1] :
           Accepts(e, messages[k]) => After(e, messages[k]) \in W[k],
         Transition(d, messages).ok
  PROVE  Transition(d, messages).data \in W[Len(messages)]
<1> DEFINE N == Len(messages)
<1>1. PICK run : Runs(run, N, d, messages) /\ Transition(d, messages) = run[N]
  BY TransitionRuns
<1> DEFINE T == {k \in 0..N : run[k].ok => run[k].data \in W[k]}
<1>2. 0 \in T
  BY <1>1 DEF Runs
<1>3. ASSUME NEW k \in 1..N, k - 1 \in T PROVE k \in T
  <2>1. run[k].ok => Grows(run[k - 1], run[k], messages[k])
    BY <1>1, RunSteps
  <2>2. ASSUME run[k].ok PROVE run[k].data \in W[k]
    <3>1. /\ run[k - 1].ok /\ Accepts(run[k - 1].data, messages[k])
          /\ run[k].data = After(run[k - 1].data, messages[k])
      BY <2>1, <2>2 DEF Grows
    <3>2. run[k - 1].data \in W[k - 1]
      BY <1>3, <3>1
    <3> QED BY <3>1, <3>2
  <2> QED BY <2>2
<1> HIDE DEF T
<1>4. 0..N \subseteq T
  BY <1>2, <1>3, BoundedInduction
<1>5. N \in T
  BY <1>4
<1> QED BY <1>1, <1>5 DEF T

LEMMA TwoAccepted ==
  ASSUME NEW d, NEW m, NEW n, Accepts(d, m), Accepts(After(d, m), n)
  PROVE  LET t == Transition(d, <<m, n>>) IN
         t.ok /\ t.data = After(After(d, m), n)
<1> DEFINE messages == <<m, n>>
<1>1. Len(messages) = 2 /\ messages[1] = m /\ messages[2] = n
  OBVIOUS
<1> HIDE DEF messages
<1> DEFINE N == Len(messages)
<1>0. N \in Nat
  BY <1>1
<1>2. PICK run : Runs(run, N, d, messages) /\ Transition(d, messages) = run[N]
  BY <1>0, TransitionRuns
<1>3. run[1] = Transited(run[0], m) /\ run[2] = Transited(run[1], n)
  <2>1. \A k \in 1..2 : run[k] = Transited(run[k - 1], messages[k])
    BY <1>1, <1>2 DEF Runs
  <2>2. 1 \in 1..2 /\ 2 \in 1..2 /\ 1 - 1 = 0 /\ 2 - 1 = 1
    OBVIOUS
  <2> QED BY <1>1, <2>1, <2>2
<1>4. run[0] = [ok |-> TRUE, data |-> d, wire |-> <<>>]
  BY <1>2 DEF Runs
<1>5. run[1].ok /\ run[1].data = After(d, m)
  BY <1>3, <1>4, SMTT(30) DEF Transited
<1>6. run[2].ok /\ run[2].data = After(After(d, m), n)
  BY <1>3, <1>5, SMTT(30) DEF Transited
<1> QED BY <1>2, <1>6 DEF messages

-----------------------------------------------------------------------------
(* Messages in a row.                                                      *)

(* From d to e at most the response that was going on was cut loose, and   *)
(* nobody asked for a cancellation.                                        *)
Leads(d, e) ==
  /\ Whole(e) /\ Kept(d, e) /\ e.connection_state = d.connection_state /\ Calm(d, e)
  /\ \A x \in Ids : Loose(e, x) => Loose(d, x) \/ x = Speaker(d)

LEMMA LeadsSame == ASSUME NEW d, Whole(d) PROVE Leads(d, d) /\ Same(d, d)
<1>1. Kept(d, d)
  BY KeptByNone
<1> QED BY <1>1 DEF Leads, Same, Calm

LEMMA StepLeads ==
  ASSUME NEW d, Whole(d), NEW e, Steps(d, e), Calm(d, e)
  PROVE  Leads(d, e)
<1>1. e.connection_state = d.connection_state
  BY SMTT(30) DEF Steps, Step, Move, Steady, Releases, Opens, Speaks, Answers, Cancels,
                  GivesUp, Fails, Ends, SameObjects
<1> QED BY <1>1, StepCuts, SMTT(30) DEF Leads, Steps, Step

LEMMA LeadsChain ==
  ASSUME NEW d, NEW e, NEW f, Leads(d, e), Leads(e, f),
         Speaker(e) \in {0, Speaker(d), Speaker(f)}
  PROVE  Leads(d, f)
<1>1. Kept(d, f)
  BY KeptChain DEF Leads
<1>2. Calm(d, f) /\ f.connection_state = d.connection_state /\ Whole(f)
  BY DEF Leads, Calm
<1>3. ASSUME NEW x \in Ids, Loose(f, x) PROVE Loose(d, x) \/ x = Speaker(d)
  <2>1. x # 0 /\ f.responses[x].terminal # "none"
    BY <1>3, NoneIds DEF Loose, IsCancelled, ResponseCancelReason
  <2>2. x # Speaker(f)
    BY <1>2, <2>1, SpeakerIs
  <2> QED BY <1>3, <2>1, <2>2 DEF Leads
<1> QED BY <1>1, <1>2, <1>3 DEF Leads

LEMMA SameLeads ==
  ASSUME NEW d, NEW e, NEW f, Leads(d, e), Same(d, e), Leads(e, f), Same(e, f)
  PROVE  Leads(d, f) /\ Same(d, f)
<1>1. Leads(d, f)
  BY LeadsChain DEF Same
<1> QED BY <1>1 DEF Same

LEMMA QuietLeads ==
  ASSUME NEW d, Whole(d), NEW m \in Quiets, Accepts(d, m)
  PROVE  Leads(d, After(d, m)) /\ Same(d, After(d, m))
BY QuietMessage, StepLeads

LEMMA QuietBatch ==
  ASSUME NEW d, Whole(d), NEW messages \in Seq(Quiets), Transition(d, messages).ok
  PROVE  LET e == Transition(d, messages).data IN Leads(d, e) /\ Same(d, e)
<1> DEFINE V == {e \in Data : Leads(d, e) /\ Same(d, e)}
           W == [k \in 0..Len(messages) |-> V]
<1>1. d \in V /\ Len(messages) \in Nat
  BY LeadsSame DEF Whole, Good
<1>2. ASSUME NEW k \in 1..Len(messages), NEW e \in V, Accepts(e, messages[k])
      PROVE  After(e, messages[k]) \in V
  <2> DEFINE f == After(e, messages[k])
  <2>1. messages[k] \in Quiets /\ Leads(d, e) /\ Same(d, e) /\ Whole(e)
    BY DEF Leads
  <2>2. Leads(e, f) /\ Same(e, f)
    BY <1>2, <2>1, QuietLeads
  <2> HIDE DEF f
  <2>3. Leads(d, f) /\ Same(d, f)
    BY <2>1, <2>2, SameLeads
  <2>4. f \in Data
    BY <2>3 DEF Leads, Whole, Good
  <2> QED BY <2>3, <2>4 DEF f
<1> HIDE DEF V
<1>3. \A k \in 0..Len(messages) : W[k] = V
  OBVIOUS
<1> HIDE DEF W
<1>4. Transition(d, messages).data \in W[Len(messages)]
  <2>1. d \in W[0]
    BY <1>1, <1>3
  <2>2. \A k \in 1..Len(messages) : \A e \in W[k - 1] :
          Accepts(e, messages[k]) => After(e, messages[k]) \in W[k]
    BY <1>1, <1>2, <1>3
  <2> QED BY <1>1, <2>1, <2>2, TransitionReaches
<1>5. Transition(d, messages).data \in V
  BY <1>1, <1>3, <1>4
<1> QED BY <1>5 DEF V

(* Messages of which one may end the response, if one does.                *)
Hushes(d, messages) ==
  \/ Speaker(d) = 0
  \/ \E k \in 1..Len(messages) : messages[k] \in Silencers /\ Stills(d, messages[k])

LEMMA HushedSoFar ==
  ASSUME NEW d, NEW e, Leads(d, e), Speaker(e) \in {0, Speaker(d)},
         NEW m \in Quiets \cup Silencers, Accepts(e, m)
  PROVE  /\ Leads(d, After(e, m)) /\ Speaker(After(e, m)) \in {0, Speaker(d)}
         /\ Speaker(e) = 0 \/ (m \in Silencers /\ Stills(d, m)) => Speaker(After(e, m)) = 0
<1> DEFINE f == After(e, m)
<1>1. Whole(e)
  BY DEF Leads
<1>2. CASE m \in Quiets
  <2>1. Leads(e, f) /\ Speaker(f) = Speaker(e)
    BY <1>1, <1>2, QuietLeads DEF Same
  <2>2. m \notin Silencers
    BY <1>2, MessageTypes, ErrorTypes DEF Quiets, Silencers
  <2> HIDE DEF f
  <2> QED BY <2>1, <2>2, LeadsChain DEF f
<1>3. CASE m \in Silencers
  <2>1. /\ Steps(e, f) /\ Calm(e, f) /\ Speaker(f) \in {0, Speaker(e)}
        /\ Stills(e, m) => Speaker(f) = 0
    BY <1>1, <1>3, SilencingMessage
  <2> HIDE DEF f
  <2>2. Leads(d, f)
    BY <1>1, <2>1, StepLeads, LeadsChain
  <2>3. Speaker(e) # 0 => (Stills(d, m) <=> Stills(e, m))
    BY DEF Stills
  <2> QED BY <2>1, <2>2, <2>3 DEF f
<1> QED BY <1>2, <1>3

LEMMA HushBatch ==
  ASSUME NEW d, Whole(d), NEW messages \in Seq(Quiets \cup Silencers), Hushes(d, messages),
         Transition(d, messages).ok
  PROVE  LET e == Transition(d, messages).data IN Leads(d, e) /\ Speaker(e) = 0
<1> DEFINE N == Len(messages)
           Told(k) == \E j \in 1..k : messages[j] \in Silencers /\ Stills(d, messages[j])
           V(k) == {e \in Data : /\ Leads(d, e) /\ Speaker(e) \in {0, Speaker(d)}
                                 /\ Told(k) => Speaker(e) = 0}
           W == [k \in 0..N |-> V(k)]
<1>1. N \in Nat
  OBVIOUS
<1>2. d \in V(0)
  BY LeadsSame DEF Whole, Good
<1>3. ASSUME NEW k \in 1..N, NEW e \in V(k - 1), Accepts(e, messages[k])
      PROVE  After(e, messages[k]) \in V(k)
  <2> DEFINE f == After(e, messages[k])
  <2>1. messages[k] \in Quiets \cup Silencers
    OBVIOUS
  <2>2. /\ Leads(d, e) /\ Speaker(e) \in {0, Speaker(d)}
        /\ Told(k - 1) => Speaker(e) = 0
    OBVIOUS
  <2> HIDE DEF Told
  <2>3. /\ Leads(d, f) /\ Speaker(f) \in {0, Speaker(d)}
        /\ Speaker(e) = 0 \/ (messages[k] \in Silencers /\ Stills(d, messages[k])) => Speaker(f) = 0
    BY <1>3, <2>1, <2>2, HushedSoFar
  <2>4. Told(k) => Told(k - 1) \/ (messages[k] \in Silencers /\ Stills(d, messages[k]))
    <3>1. \A j \in 1..k : j \in 1..(k - 1) \/ j = k
      BY <1>1
    <3> QED BY <3>1 DEF Told
  <2> HIDE DEF f
  <2>5. f \in Data
    BY <2>3 DEF Leads, Whole, Good
  <2> QED BY <2>2, <2>3, <2>4, <2>5 DEF f
<1> HIDE DEF V
<1>4. /\ W[0] = V(0) /\ W[N] = V(N)
      /\ \A k \in 1..N : W[k] = V(k) /\ W[k - 1] = V(k - 1)
  BY <1>1
<1> HIDE DEF W
<1>5. Transition(d, messages).data \in W[N]
  <2>1. d \in W[0]
    BY <1>2, <1>4
  <2>2. \A k \in 1..N : \A e \in W[k - 1] :
          Accepts(e, messages[k]) => After(e, messages[k]) \in W[k]
    BY <1>3, <1>4
  <2> QED BY <1>1, <2>1, <2>2, TransitionReaches
<1> DEFINE e == Transition(d, messages).data
<1>6. e \in V(N)
  BY <1>4, <1>5
<1> HIDE DEF e
<1>7. Leads(d, e) /\ Speaker(e) \in {0, Speaker(d)} /\ (Told(N) => Speaker(e) = 0)
  BY <1>6 DEF V
<1> QED BY <1>7 DEF Hushes, e

(* One message, and others that leave the response alone.                  *)
LEMMA HeadBatch ==
  ASSUME NEW d, NEW m, NEW q \in Seq(Quiets), Transition(d, <<m>> \o q).ok,
         Accepts(d, m) => Whole(After(d, m))
  PROVE  LET e == Transition(d, <<m>> \o q).data IN
         Accepts(d, m) /\ Leads(After(d, m), e) /\ Same(After(d, m), e)
<1> DEFINE messages == <<m>> \o q
           N == Len(messages)
           b == After(d, m)
           R == {e \in Data : Accepts(d, m) /\ Leads(b, e) /\ Same(b, e)}
           V(k) == IF k = 0 THEN {d} ELSE R
           W == [k \in 0..N |-> V(k)]
<1>1. /\ N \in Nat /\ N # 0 /\ messages[1] = m
      /\ \A k \in 1..N : k # 1 => messages[k] \in Quiets
  OBVIOUS
<1> HIDE DEF messages
<1>2. Accepts(d, m) => b \in R
  BY LeadsSame DEF Whole, Good
<1>3. ASSUME NEW k \in 1..N, k # 1, NEW e \in R, Accepts(e, messages[k])
      PROVE  After(e, messages[k]) \in R
  <2> DEFINE f == After(e, messages[k])
  <2>1. messages[k] \in Quiets
    BY <1>1, <1>3
  <2>2. Accepts(d, m) /\ Leads(b, e) /\ Same(b, e) /\ Whole(e)
    BY DEF Leads
  <2>3. Leads(e, f) /\ Same(e, f)
    BY <1>3, <2>1, <2>2, QuietLeads
  <2> HIDE DEF f, b
  <2>4. Leads(b, f) /\ Same(b, f)
    BY <2>2, <2>3, SameLeads
  <2>5. f \in Data
    BY <2>4 DEF Leads, Whole, Good
  <2> QED BY <2>2, <2>4, <2>5 DEF f
<1> HIDE DEF R
<1>4. /\ W[0] = {d} /\ W[N] = R
      /\ \A k \in 1..N : W[k] = R /\ (k # 1 => W[k - 1] = R)
  BY <1>1
<1> HIDE DEF W
<1>5. Transition(d, messages).data \in W[N]
  <2>1. ASSUME NEW k \in 1..N, NEW e \in W[k - 1], Accepts(e, messages[k])
        PROVE  After(e, messages[k]) \in W[k]
    <3>1. CASE k = 1
      <4>1. e = d /\ messages[k] = m
        BY <1>1, <1>4, <3>1
      <4> QED BY <1>2, <1>4, <2>1, <4>1
    <3>2. CASE k # 1
      BY <1>3, <1>4, <2>1, <3>2
    <3> QED BY <3>1, <3>2
  <2>2. Transition(d, messages).ok /\ d \in W[0]
    BY <1>4 DEF messages
  <2> QED BY <1>1, <2>1, <2>2, TransitionReaches
<1>6. Transition(d, messages).data \in R
  BY <1>4, <1>5
<1> QED BY <1>6 DEF R, messages

(* PCM of one response: it adds nothing of its own, and leaves everything  *)
(* alone that the timer depends on.                                        *)
AudioOf(r) == {m \in AnyOutputAudios : m.response_id = r}

LEMMA AudioWire ==
  ASSUME NEW d, NEW r, NEW messages \in Seq(AudioOf(r)), messages # <<>>,
         Transition(d, messages).ok
  PROVE  LET wire == Transition(d, messages).wire IN wire \in Seq(AudioOf(r)) /\ wire # <<>>
<1> DEFINE N == Len(messages)
           S == AudioOf(r)
<1>1. N \in Nat /\ N # 0
  OBVIOUS
<1>2. PICK run : Runs(run, N, d, messages) /\ Transition(d, messages) = run[N]
  BY <1>1, TransitionRuns
<1> DEFINE T == {k \in 0..N : run[k].ok => run[k].wire \in Seq(S) /\ (k # 0 => run[k].wire # <<>>)}
<1>3. 0 \in T
  <2>1. run[0] = [ok |-> TRUE, data |-> d, wire |-> <<>>]
    BY <1>2 DEF Runs
  <2> HIDE DEF S
  <2>2. <<>> \in Seq(S) /\ 0 \in 0..N
    BY <1>1
  <2>3. run[0].wire = <<>>
    BY <2>1
  <2> QED BY <2>2, <2>3
<1>4. ASSUME NEW k \in 1..N, k - 1 \in T PROVE k \in T
  <2>1. ASSUME run[k].ok PROVE run[k].wire \in Seq(S) /\ run[k].wire # <<>>
    <3> DEFINE b == run[k - 1]
               m == messages[k]
    <3>1. Grows(b, run[k], m)
      BY <1>1, <1>2, <2>1, RunSteps
    <3>2. b.wire \in Seq(S)
      BY <1>4, <3>1 DEF Grows
    <3>3. m \in S /\ m.type = "output.audio"
      BY MessageTypes DEF AudioOf
    <3>4. Outbound(b.data, m) = <<>>
      BY <3>3 DEF Outbound
    <3> HIDE DEF b, m, S
    <3>5. run[k].wire = (b.wire \o <<m>>) \o <<>>
      BY <3>1, <3>4 DEF Grows
    <3> QED BY <3>2, <3>3, <3>5
  <2> QED BY <2>1
<1> HIDE DEF T
<1>5. 0..N \subseteq T
  BY <1>1, <1>3, <1>4, BoundedInduction
<1>6. N \in T
  BY <1>1, <1>5
<1> QED BY <1>1, <1>2, <1>6 DEF T

LEMMA AudioKeepsPhase ==
  ASSUME NEW d, Whole(d), NEW r, NEW messages \in Seq(AudioOf(r)), Transition(d, messages).ok
  PROVE  LET e == Transition(d, messages).data IN
         /\ Leads(d, e) /\ Same(d, e)
         /\ e.conversation = d.conversation /\ e.inputs = d.inputs
         /\ e.connection_state = d.connection_state
<1> DEFINE e == Transition(d, messages).data
<1>1. messages \in Seq(Quiets)
  <2>1. AudioOf(r) \subseteq Quiets
    BY DEF AudioOf, Quiets
  <2> QED BY <2>1
<1>2. Leads(d, e) /\ Same(d, e)
  BY <1>1, QuietBatch
<1> DEFINE V == {f \in Data : Good(f) /\ f.conversation = d.conversation /\ f.inputs = d.inputs}
           W == [k \in 0..Len(messages) |-> V]
<1>3. d \in V /\ Len(messages) \in Nat
  BY DEF Whole, Good
<1>4. ASSUME NEW k \in 1..Len(messages), NEW f \in V, Accepts(f, messages[k])
      PROVE  After(f, messages[k]) \in V
  <2> DEFINE m == messages[k]
  <2>1. m \in AnyOutputAudios /\ m.type = "output.audio" /\ m.response_id \in Ids
    BY MessageTypes DEF AudioOf
  <2> HIDE DEF m
  <2>2. f.connection_state = "ready"
    BY <1>4, <2>1 DEF m, Accepts, CanAcceptHello
  <2>3. After(f, m) = AfterOutputAudio(f, m) /\ f \in Data
    BY <2>1, <2>2 DEF After
  <2>4. /\ After(f, m).conversation = f.conversation /\ After(f, m).inputs = f.inputs
    BY <2>3 DEF AfterOutputAudio, WithResponse, Data
  <2>5. Good(After(f, m)) /\ After(f, m) \in Data
    BY <2>1, <2>3, OutputAudioGood DEF Good
  <2> QED BY <2>4, <2>5 DEF m
<1> HIDE DEF V
<1>5. \A k \in 0..Len(messages) : W[k] = V
  OBVIOUS
<1> HIDE DEF W
<1>6. Transition(d, messages).data \in W[Len(messages)]
  <2>1. d \in W[0]
    BY <1>3, <1>5
  <2>2. \A k \in 1..Len(messages) : \A f \in W[k - 1] :
          Accepts(f, messages[k]) => After(f, messages[k]) \in W[k]
    BY <1>3, <1>4, <1>5
  <2> QED BY <1>3, <2>1, <2>2, TransitionReaches
<1>7. e \in V
  BY <1>3, <1>5, <1>6
<1> HIDE DEF e
<1> QED BY <1>2, <1>7 DEF V, Leads, e

-----------------------------------------------------------------------------
(* The session's record: its data, timer, writer and queue.                *)

SessionFields ==
  {"data", "queue", "sealed", "code", "error", "events", "writer", "closed_inputs",
   "key", "raised"}
WriterFields == {"response", "output", "open"}
Sound(s) ==
  /\ DOMAIN s = SessionFields
  /\ Whole(s.data)
  /\ s.events \in Seq(FromClient)

(* PCM in the queue is tagged with its response's output.  If that         *)
(* response was cut loose, the output is o, which is then discarded.       *)
Decent(d, b, o) ==
  b.lane = "data" =>
    LET x == Head(b.frames).response_id IN
    /\ x \in Ids /\ b.tag # 0 /\ d.responses[x].output.id = b.tag
    /\ Loose(d, x) => b.tag = o
Queued(d, q, o) == \E S : q \in Seq(S) /\ \A b \in S : Decent(d, b, o)
Free(q, o) == \E S : q \in Seq(S) /\ \A b \in S : o # 0 => b.tag # o

(* The timer is set for what the server waits for; the application holds   *)
(* the writer of what is going on, and no PCM is queued of what was cut    *)
(* loose; and nobody has asked for a cancellation that is still pending.   *)
Timed(s) == s.code = NoCode => s.key = Phase(s)
Held(s) ==
  /\ DOMAIN s.writer = WriterFields
  /\ Queued(s.data, s.queue, 0)
  /\ s.code = NoCode =>
       /\ s.data.connection_state # "closing"
       /\ s.writer.response = Speaker(s.data)
       /\ s.writer.output = OutputOf(s.data, s.writer.response)
Tame(s) == s.code = NoCode => Current(s).cancel = "none"

Firm(s, t) == Sound(t) /\ (Held(s) => Held(t)) /\ (Tame(s) => Tame(t))
Fine(s, t) == Firm(s, t) /\ (Timed(s) => Timed(t))

LEMMA FirmTrans == ASSUME NEW s, NEW t, NEW u, Firm(s, t), Firm(t, u) PROVE Firm(s, u)
BY DEF Firm

LEMMA FineTrans == ASSUME NEW s, NEW t, NEW u, Fine(s, t), Fine(t, u) PROVE Fine(s, u)
BY DEF Fine, Firm

LEMMA FineSelf == ASSUME NEW s, Sound(s) PROVE Fine(s, s)
BY DEF Fine, Firm

LEMMA FineSound == ASSUME NEW s, NEW t, Fine(s, t) PROVE Sound(t) /\ Firm(s, t)
BY DEF Fine, Firm

(* The queue.                                                              *)

LEMMA QueuedAppend ==
  ASSUME NEW d, NEW q, NEW o, Queued(d, q, o), NEW b, Decent(d, b, o)
  PROVE  Queued(d, Append(q, b), o)
<1>1. PICK S : q \in Seq(S) /\ \A c \in S : Decent(d, c, o)
  BY DEF Queued
<1> DEFINE R == S \cup {b}
<1>2. \A c \in R : Decent(d, c, o)
  BY <1>1
<1>3. Append(q, b) \in Seq(R)
  BY <1>1
<1> HIDE DEF R
<1> QED BY <1>2, <1>3 DEF Queued

LEMMA QueuedControl ==
  ASSUME NEW d, NEW q, NEW o, Queued(d, q, o), NEW b, b.lane # "data"
  PROVE  Queued(d, Append(q, b), o)
BY QueuedAppend DEF Decent

LEMMA QueuedTail ==
  ASSUME NEW d, NEW q, NEW o, Queued(d, q, o), q # <<>>
  PROVE  Queued(d, Tail(q), o)
<1>1. PICK S : q \in Seq(S) /\ \A c \in S : Decent(d, c, o)
  BY DEF Queued
<1>2. Tail(q) \in Seq(S)
  BY <1>1
<1> QED BY <1>1, <1>2 DEF Queued

LEMMA QueuedNone == ASSUME NEW d, NEW o PROVE Queued(d, <<>>, o)
<1> DEFINE S == {}
<1>1. <<>> \in Seq(S) /\ \A b \in S : Decent(d, b, o)
  OBVIOUS
<1> HIDE DEF S
<1> QED BY <1>1 DEF Queued

LEMMA QueuedOne == ASSUME NEW d, NEW o, NEW b, b.lane # "data" PROVE Queued(d, <<b>>, o)
<1> DEFINE S == {b}
<1>1. <<b>> \in Seq(S) /\ \A c \in S : Decent(d, c, o)
  BY DEF Decent
<1> HIDE DEF S
<1> QED BY <1>1 DEF Queued

LEMMA QueuedByResponses ==
  ASSUME NEW d, NEW q, NEW o, Queued(d, q, o), NEW e, e.responses = d.responses
  PROVE  Queued(e, q, o)
<1>1. \A b : Decent(d, b, o) => Decent(e, b, o)
  BY DEF Decent, Loose
<1> QED BY <1>1 DEF Queued

LEMMA QueuedFree ==
  ASSUME NEW d, NEW q, NEW o, Queued(d, q, o), Free(q, o)
  PROVE  Queued(d, q, 0)
<1>1. PICK S : q \in Seq(S) /\ \A b \in S : Decent(d, b, o)
  BY DEF Queued
<1>2. PICK R : q \in Seq(R) /\ \A b \in R : o # 0 => b.tag # o
  BY DEF Free
<1>3. q \in Seq(Range(q)) /\ Range(q) \subseteq S /\ Range(q) \subseteq R
  BY <1>1, <1>2, InRange
<1>4. \A b \in Range(q) : Decent(d, b, o) /\ (o # 0 => b.tag # o)
  BY <1>1, <1>2, <1>3
<1>5. \A b \in Range(q) : Decent(d, b, 0)
  BY <1>4 DEF Decent
<1> QED BY <1>3, <1>5 DEF Queued

(* What was cut loose on the way is what was going on.                     *)
LEMMA QueuedLeads ==
  ASSUME NEW d, NEW e, Whole(d), Leads(d, e), NEW q, Queued(d, q, 0)
  PROVE  /\ Queued(e, q, OutputOf(d, Speaker(d)))
         /\ Speaker(d) = 0 \/ ~ Loose(e, Speaker(d)) => Queued(e, q, 0)
<1> DEFINE o == OutputOf(d, Speaker(d))
<1>1. ASSUME NEW b, Decent(d, b, 0)
      PROVE  /\ Decent(e, b, o)
             /\ Speaker(d) = 0 \/ ~ Loose(e, Speaker(d)) => Decent(e, b, 0)
  <2> DEFINE x == Head(b.frames).response_id
  <2>1. CASE b.lane # "data"
    BY <2>1 DEF Decent
  <2>2. CASE b.lane = "data"
    <3>1. x \in Ids /\ b.tag # 0 /\ d.responses[x].output.id = b.tag /\ ~ Loose(d, x)
      BY <1>1, <2>2 DEF Decent
    <3> HIDE DEF x
    <3>2. e.responses[x].output.id = b.tag /\ x # 0
      BY <3>1, NoneIds DEF Leads, Kept, ResponseKept
    <3>3. Loose(e, x) => x = Speaker(d)
      BY <3>1 DEF Leads
    <3>4. Loose(e, x) => b.tag = o
      BY <3>1, <3>2, <3>3 DEF OutputOf
    <3>5. Loose(e, x) => Speaker(d) # 0 /\ Loose(e, Speaker(d))
      BY <3>2, <3>3
    <3> HIDE DEF o
    <3> QED BY <2>2, <3>1, <3>2, <3>4, <3>5 DEF Decent, x
  <2> QED BY <2>1, <2>2
<1> HIDE DEF o
<1>2. Queued(e, q, o)
  BY <1>1 DEF Queued
<1>3. Speaker(d) = 0 \/ ~ Loose(e, Speaker(d)) => Queued(e, q, 0)
  BY <1>1 DEF Queued
<1> QED BY <1>2, <1>3 DEF o

LEMMA QueuedSpeaks ==
  ASSUME NEW d, NEW e, Whole(d), Leads(d, e), Speaker(d) \in {0, Speaker(e)},
         NEW q, Queued(d, q, 0)
  PROVE  Queued(e, q, 0)
<1>1. Speaker(d) # 0 => ~ Loose(e, Speaker(d))
  BY SpeakerIs DEF Leads, Loose, IsCancelled, ResponseCancelReason
<1> QED BY <1>1, QueuedLeads

LEMMA DiscardOutputIs ==
  ASSUME NEW s, DOMAIN s = SessionFields, NEW d, Queued(d, s.queue, s.writer.output)
  PROVE  LET t == DiscardOutput(s) IN
         /\ Queued(d, t.queue, 0) /\ Free(t.queue, s.writer.output)
         /\ DOMAIN t = SessionFields
         /\ t.data = s.data /\ t.key = s.key /\ t.code = s.code /\ t.raised = s.raised
         /\ t.events = s.events /\ t.writer = s.writer
<1> DEFINE o == s.writer.output
           t == DiscardOutput(s)
           kept == {b \in Range(s.queue) : b.tag # o}
           left == Only(kept, s.queue)
<1>1. PICK S : s.queue \in Seq(S) /\ \A b \in S : Decent(d, b, o)
  BY DEF Queued
<1>2. CASE o = 0
  <2>1. t = s
    BY <1>2 DEF DiscardOutput
  <2>2. Free(s.queue, o)
    BY <1>1, <1>2 DEF Free
  <2> QED BY <1>2, <2>1, <2>2
<1>3. CASE o # 0
  <2>1. left \in Seq(S \cap kept)
    <3> DEFINE none == [b \in S |-> 0]
    <3>1. none \in [S -> Nat]
      OBVIOUS
    <3> HIDE DEF none, kept
    <3> QED BY <1>1, <3>1, TotalOfOnly
  <2>2. \A b \in S \cap kept : b.tag # o /\ Decent(d, b, 0)
    BY <1>1 DEF Decent
  <2>3. Queued(d, left, 0) /\ Free(left, o)
    <3> HIDE DEF left, kept
    <3> QED BY <2>1, <2>2 DEF Queued, Free
  <2>4. t = [s EXCEPT !.queue = left]
    BY <1>3 DEF DiscardOutput
  <2> HIDE DEF left, kept
  <2> QED BY <2>3, <2>4 DEF SessionFields
<1> QED BY <1>2, <1>3

-----------------------------------------------------------------------------
(* Small changes of the record.                                            *)

LEMMA PhaseOfData == ASSUME NEW s, NEW t, s.data = t.data PROVE Phase(s) = Phase(t)
BY DEF Phase, Current

(* t differs from s only in what none of this depends on.                  *)
Alike(s, t) ==
  /\ DOMAIN t = SessionFields
  /\ t.data = s.data /\ t.key = s.key /\ t.code = s.code
  /\ t.queue = s.queue /\ t.writer = s.writer
  /\ t.events \in Seq(FromClient)

LEMMA AlikeFine == ASSUME NEW s, Sound(s), NEW t, Alike(s, t) PROVE Fine(s, t)
<1>1. Phase(t) = Phase(s)
  BY PhaseOfData DEF Alike
<1> QED BY <1>1 DEF Alike, Fine, Firm, Sound, Timed, Held, Tame, Current

LEMMA ThenAlike == ASSUME NEW s, NEW t, Fine(s, t), NEW u, Alike(t, u) PROVE Fine(s, u)
BY AlikeFine, FineTrans, FineSound

(* Whoever asks the core to close need only leave a queue in order.        *)
LEMMA FineClosed ==
  ASSUME NEW s, NEW t, Sound(t), t.code # NoCode,
         Held(s) => DOMAIN t.writer = WriterFields /\ Queued(t.data, t.queue, 0)
  PROVE  Fine(s, t)
BY DEF Fine, Firm, Timed, Held, Tame

LEMMA RaiseAlike ==
  ASSUME NEW s, Sound(s), NEW e
  PROVE  Alike(s, Raise(s, e)) /\ Raise(s, e).raised = e
BY DEF Sound, SessionFields, Raise, Alike

LEMMA RaiseIsFine == ASSUME NEW s, Sound(s), NEW e PROVE Fine(s, Raise(s, e))
BY RaiseAlike, AlikeFine

LEMMA ThenRaise == ASSUME NEW s, NEW t, Fine(s, t), NEW e PROVE Fine(s, Raise(t, e))
BY RaiseIsFine, FineTrans, FineSound

LEMMA SyncIs ==
  ASSUME NEW s, Sound(s)
  PROVE  LET t == Sync(s) IN
         /\ Fine(s, t) /\ Sound(t) /\ (~ Raised(s) => Timed(t)) /\ (Raised(s) => t = s)
         /\ t.data = s.data /\ t.queue = s.queue /\ t.writer = s.writer
         /\ t.code = s.code /\ t.raised = s.raised
<1> DEFINE t == Sync(s)
<1>1. CASE Raised(s)
  <2>1. t = s
    BY <1>1 DEF Sync
  <2> QED BY <1>1, <2>1, FineSelf
<1>2. CASE ~ Raised(s)
  <2>1. /\ DOMAIN t = SessionFields /\ t.data = s.data /\ t.key = Phase(s) /\ t.code = s.code
        /\ t.queue = s.queue /\ t.events = s.events /\ t.writer = s.writer
        /\ t.raised = s.raised
    BY <1>2 DEF Sound, SessionFields, Sync
  <2> HIDE DEF t
  <2>2. Sound(t) /\ Timed(t)
    BY <2>1, PhaseOfData DEF Sound, Timed
  <2>3. (Held(s) => Held(t)) /\ (Tame(s) => Tame(t))
    BY <2>1 DEF Held, Tame, Current
  <2> QED BY <1>2, <2>1, <2>2, <2>3 DEF Fine, Firm, t
<1> QED BY <1>1, <1>2

(* begin_close leaves the objects alone.                                   *)
LEMMA ClosingWhole ==
  ASSUME NEW d, Whole(d)
  PROVE  LET e == [d EXCEPT !.connection_state = "closing"] IN
         Whole(e) /\ e.responses = d.responses
<1> DEFINE e == [d EXCEPT !.connection_state = "closing"]
<1>1. /\ e \in Data /\ e.inputs = d.inputs /\ e.responses = d.responses
      /\ e.conversation = d.conversation
      /\ e.input_ids = d.input_ids /\ e.response_ids = d.response_ids
      /\ e.conversation_ids = d.conversation_ids
      /\ e.ended_conversations = d.ended_conversations /\ e.tombstones = d.tombstones
      /\ e.connection_state = "closing"
  BY DEF Whole, Good, Data, ConnectionState
<1> HIDE DEF e
<1>2. Good(e)
  BY <1>1, TurnsFrame DEF Whole
<1>3. Objects(e)
  BY <1>1 DEF Whole, Objects
<1>4. Ledger(e)
  BY <1>1 DEF Whole, Ledger, Newest, Past, SilencedByOthers, ServerLives, Fresh
<1> QED BY <1>1, <1>2, <1>3, <1>4 DEF Whole, e

LEMMA RequestCloseFine ==
  ASSUME NEW s, Sound(s), NEW code, code # NoCode, NEW drain
  PROVE  LET t == RequestClose(s, code, drain) IN
         Fine(s, t) /\ t.code # NoCode /\ t.raised = s.raised
<1> DEFINE t == RequestClose(s, code, drain)
<1>1. CASE s.code # NoCode
  <2>1. t = s
    BY <1>1 DEF RequestClose
  <2> QED BY <1>1, <2>1, FineSelf
<1>2. CASE s.code = NoCode
  <2>1. /\ DOMAIN t = SessionFields /\ t.events = s.events /\ t.code = code
        /\ t.data = [s.data EXCEPT !.connection_state = "closing"] /\ t.raised = s.raised
        /\ t.writer = s.writer /\ t.queue \in {s.queue, <<>>}
    BY <1>2 DEF Sound, SessionFields, RequestClose
  <2> HIDE DEF t
  <2>2. Whole(t.data) /\ t.data.responses = s.data.responses
    BY <2>1, ClosingWhole DEF Sound
  <2>3. Sound(t)
    BY <2>1, <2>2 DEF Sound
  <2>4. Queued(s.data, s.queue, 0) => Queued(t.data, t.queue, 0)
    <3>1. CASE t.queue = s.queue
      BY <2>2, <3>1, QueuedByResponses
    <3>2. CASE t.queue = <<>>
      BY <3>2, QueuedNone
    <3> QED BY <2>1, <3>1, <3>2
  <2>5. Held(s) => DOMAIN t.writer = WriterFields /\ Queued(t.data, t.queue, 0)
    BY <2>1, <2>4 DEF Held
  <2> QED BY <2>1, <2>3, <2>5, FineClosed DEF t
<1> QED BY <1>1, <1>2

LEMMA DiscardOutputFine ==
  ASSUME NEW s, Sound(s) PROVE Fine(s, DiscardOutput(s))
<1> DEFINE t == DiscardOutput(s)
<1>1. /\ DOMAIN t = SessionFields
      /\ t.data = s.data /\ t.key = s.key /\ t.code = s.code /\ t.raised = s.raised
      /\ t.events = s.events /\ t.writer = s.writer
  BY DEF Sound, SessionFields, DiscardOutput
<1>2. Queued(s.data, s.queue, 0) => Queued(s.data, t.queue, 0)
  <2>1. Queued(s.data, s.queue, 0) => Queued(s.data, s.queue, s.writer.output)
    <3>1. \A b : Decent(s.data, b, 0) => Decent(s.data, b, s.writer.output)
      BY DEF Decent
    <3> QED BY <3>1 DEF Queued
  <2> QED BY <2>1, DiscardOutputIs DEF Sound
<1> HIDE DEF t
<1>3. Phase(t) = Phase(s)
  BY <1>1, PhaseOfData
<1>4. Fine(s, t)
  BY <1>1, <1>2, <1>3 DEF Fine, Firm, Sound, Timed, Held, Tame, Current
<1> QED BY <1>4 DEF t

(* A hook or handler that raises ends the connection.                      *)
LEMMA GuardedSettles ==
  ASSUME NEW s, NEW t, Sound(t), Held(s) => Held(t),
         ~ Raised(t) => (Tame(s) => Tame(t)) /\ (Timed(s) => Timed(t))
  PROVE  LET g == Guarded(t) IN Fine(s, g) /\ ~ Raised(g) /\ (Raised(t) => g.code # NoCode)
<1> DEFINE no == FALSE
           c == RequestClose(t, 1011, no)
           u == [c EXCEPT !.raised = "none"]
<1>1. CASE Raised(t)
  <2>1. 1011 # NoCode
    BY DEF NoCode
  <2> HIDE DEF no
  <2>2. Fine(t, c) /\ c.code # NoCode
    BY <2>1, RequestCloseFine
  <2> HIDE DEF c
  <2>3. Alike(c, u) /\ u.raised = "none" /\ u.code = c.code
    BY <2>2 DEF Fine, Firm, Sound, SessionFields, Alike
  <2> HIDE DEF u
  <2>4. Fine(t, u)
    BY <2>2, <2>3, ThenAlike
  <2>5. Fine(s, u)
    BY <2>2, <2>3, <2>4, FineClosed DEF Fine, Firm, Held
  <2>6. Guarded(t) = u
    BY <1>1, ZenonT(30) DEF Guarded, u, c, no
  <2> QED BY <2>2, <2>3, <2>5, <2>6 DEF Raised
<1>2. CASE ~ Raised(t)
  <2>1. Guarded(t) = t
    BY <1>2 DEF Guarded
  <2> QED BY <1>2, <2>1 DEF Fine, Firm
<1> QED BY <1>1, <1>2

LEMMA GuardedFine ==
  ASSUME NEW s, NEW t, Fine(s, t)
  PROVE  Fine(s, Guarded(t)) /\ ~ Raised(Guarded(t))
BY GuardedSettles DEF Fine, Firm

-----------------------------------------------------------------------------
(* Putting messages into the queue.  An operation that does not raise has  *)
(* changed the data, and its caller has the timer follow.                  *)

SameBut(s, t) == t.key = s.key /\ t.code = s.code /\ t.writer = s.writer

LEMMA PutIs ==
  ASSUME NEW s, Sound(s), NEW d, Whole(d), NEW wire, NEW lane, NEW weight, NEW tag
  PROVE  LET t == Put(s, d, wire, lane, weight, tag)
             b == [frames |-> wire, lane |-> lane, weight |-> weight, tag |-> tag]
         IN
         \/ Raised(t) /\ Alike(s, t)
         \/ /\ t.data = d /\ t.queue = Append(s.queue, b) /\ Sound(t) /\ SameBut(s, t)
            /\ t.raised = s.raised
<1> DEFINE t == Put(s, d, wire, lane, weight, tag)
           b == [frames |-> wire, lane |-> lane, weight |-> weight, tag |-> tag]
<1>1. CASE \E e \in {"closed", "overflow"} : t = Raise(s, e)
  <2>1. PICK e \in {"closed", "overflow"} : t = Raise(s, e)
    BY <1>1
  <2> HIDE DEF t
  <2>2. Raised(t) /\ Alike(s, t)
    BY <2>1, RaiseAlike DEF Raised
  <2> QED BY <2>2 DEF t
<1>2. CASE t = [s EXCEPT !.data = d, !.queue = Append(@, b)]
  <2> HIDE DEF t, b
  <2>1. /\ DOMAIN t = SessionFields /\ t.data = d /\ t.events = s.events
        /\ t.queue = Append(s.queue, b)
        /\ t.key = s.key /\ t.code = s.code /\ t.writer = s.writer /\ t.raised = s.raised
    BY <1>2 DEF Sound, SessionFields
  <2>2. Sound(t) /\ SameBut(s, t)
    BY <2>1 DEF Sound, SameBut
  <2> QED BY <2>1, <2>2 DEF t, b
<1> QED BY <1>1, <1>2 DEF Put

Enqueued(s, t, messages, lane, tag) ==
  LET u == Transition(s.data, messages) IN
  /\ u.ok /\ Sound(t) /\ SameBut(s, t) /\ ~ Raised(s) /\ ~ Raised(t) /\ s.code = NoCode
  /\ t.data = u.data
  /\ \E weight : t.queue = Append(s.queue, [frames |-> u.wire, lane |-> lane,
                                            weight |-> weight, tag |-> tag])

LEMMA EnqueueBatchIs ==
  ASSUME NEW s, Sound(s), NEW messages, NEW lane, NEW weight, NEW tag,
         Transition(s.data, messages).ok => Whole(Transition(s.data, messages).data)
  PROVE  LET t == EnqueueBatch(s, messages, lane, weight, tag) IN
         (Raised(t) /\ Alike(s, t)) \/ Enqueued(s, t, messages, lane, tag)
<1> DEFINE t == EnqueueBatch(s, messages, lane, weight, tag)
           u == Transition(s.data, messages)
           w == IF weight = 0 THEN Len(u.wire) ELSE weight
           v == Put(s, u.data, u.wire, lane, w, tag)
<1>1. CASE t = s /\ Raised(s)
  BY <1>1 DEF Alike, Sound
<1>2. CASE \E e \in {"closed", "violation"} : t = Raise(s, e)
  <2>1. PICK e \in {"closed", "violation"} : t = Raise(s, e)
    BY <1>2
  <2> HIDE DEF t
  <2>2. Raised(t) /\ Alike(s, t)
    BY <2>1, RaiseAlike DEF Raised
  <2> QED BY <2>2 DEF t
<1>3. CASE t = v /\ ~ Raised(s) /\ u.ok /\ s.code = NoCode
  <2>1. Whole(u.data)
    BY <1>3
  <2> DEFINE b == [frames |-> u.wire, lane |-> lane, weight |-> w, tag |-> tag]
  <2> HIDE DEF w, u
  <2>2. \/ Raised(v) /\ Alike(s, v)
        \/ /\ v.data = u.data /\ v.queue = Append(s.queue, b) /\ Sound(v) /\ SameBut(s, v)
           /\ v.raised = s.raised
    BY <2>1, PutIs
  <2> HIDE DEF v, t
  <2>3. CASE Raised(v) /\ Alike(s, v)
    BY <1>3, <2>3 DEF t
  <2>4. CASE /\ v.data = u.data /\ v.queue = Append(s.queue, b) /\ Sound(v) /\ SameBut(s, v)
             /\ v.raised = s.raised
    <3>1. Enqueued(s, v, messages, lane, tag)
      BY <1>3, <2>4 DEF Enqueued, Raised, u
    <3> QED BY <1>3, <3>1 DEF t
  <2> QED BY <2>2, <2>3, <2>4
<1> HIDE DEF v, u
<1>4. \/ t = s /\ Raised(s)
      \/ \E e \in {"closed", "violation"} : t = Raise(s, e)
      \/ t = v /\ ~ Raised(s) /\ u.ok /\ s.code = NoCode
  BY DEF EnqueueBatch, PutTransition, v, u
<1> QED BY <1>1, <1>2, <1>3, <1>4

(* What a control batch that is accepted does.                             *)
Reached(s, t, messages) ==
  LET u == Transition(s.data, messages) IN
  /\ u.ok /\ Sound(t) /\ Timed(t) /\ ~ Raised(s) /\ ~ Raised(t)
  /\ s.code = NoCode /\ t.code = NoCode /\ t.writer = s.writer /\ t.data = u.data
  /\ \A d, o : Queued(d, s.queue, o) => Queued(d, t.queue, o)

LEMMA EnqueueControlIs ==
  ASSUME NEW s, Sound(s), NEW messages,
         Transition(s.data, messages).ok => Whole(Transition(s.data, messages).data)
  PROVE  LET t == EnqueueControl(s, messages) IN
         /\ (Raised(t) /\ Fine(s, t)) \/ Reached(s, t, messages)
         /\ Raised(s) => t = s
<1> DEFINE b == EnqueueBatch(s, messages, "control", 0, 0)
           t == OverflowCloses(s, b)
<1>1. (Raised(b) /\ Alike(s, b)) \/ Enqueued(s, b, messages, "control", 0)
  BY EnqueueBatchIs
<1>2. Raised(s) => b = s
  BY DEF EnqueueBatch
<1> HIDE DEF b
<1>3. Sound(b)
  BY <1>1, AlikeFine, FineSound DEF Enqueued
<1>4. CASE ~ Raised(s) /\ b.raised = "overflow"
  <2> DEFINE no == FALSE
  <2>1. t = RequestClose(b, 1011, no)
    BY <1>4 DEF OverflowCloses
  <2>2. 1011 # NoCode
    BY DEF NoCode
  <2> HIDE DEF t, no
  <2>3. Fine(b, t) /\ t.raised = b.raised
    BY <1>3, <2>1, <2>2, RequestCloseFine
  <2>4. Raised(t) /\ Raised(b)
    BY <1>4, <2>3 DEF Raised
  <2>5. Fine(s, b)
    BY <1>1, <2>4, AlikeFine DEF Enqueued
  <2>6. Fine(s, t)
    BY <2>3, <2>5, FineTrans
  <2> QED BY <1>4, <2>4, <2>6 DEF EnqueueControl, b, t
<1>5. CASE ~ (~ Raised(s) /\ b.raised = "overflow")
  <2>1. t = Sync(b)
    BY <1>5, ZenonT(30) DEF OverflowCloses
  <2> HIDE DEF t
  <2>2. /\ Fine(b, t) /\ Sound(t) /\ (~ Raised(b) => Timed(t)) /\ (Raised(b) => t = b)
        /\ t.data = b.data /\ t.queue = b.queue /\ t.writer = b.writer
        /\ t.code = b.code /\ t.raised = b.raised
    BY <1>3, <2>1, SyncIs
  <2>3. CASE Raised(b) /\ Alike(s, b)
    <3>1. t = b /\ Fine(s, b)
      BY <2>2, <2>3, AlikeFine
    <3> QED BY <1>2, <2>3, <3>1 DEF EnqueueControl, b, t
  <2>4. CASE Enqueued(s, b, messages, "control", 0)
    <3>1. PICK c : b.queue = Append(s.queue, c) /\ c.lane # "data"
      BY <2>4 DEF Enqueued
    <3>2. \A d, o : Queued(d, s.queue, o) => Queued(d, t.queue, o)
      BY <2>2, <3>1, QueuedControl
    <3>3. ~ Raised(b) /\ ~ Raised(s)
      BY <2>4 DEF Enqueued
    <3>4. Reached(s, t, messages)
      BY <2>2, <2>4, <3>2, <3>3 DEF Enqueued, Reached, SameBut, Raised
    <3> QED BY <3>3, <3>4 DEF EnqueueControl, b, t
  <2> QED BY <1>1, <2>3, <2>4
<1> QED BY <1>4, <1>5

-----------------------------------------------------------------------------
(* Batches that leave the response alone, and batches that end it.         *)

Batches == Seq(Quiets)
LEMMA BatchesAre ==
  /\ <<>> \in Batches
  /\ \A m \in Quiets : <<m>> \in Batches
  /\ \A p, q \in Batches : p \o q \in Batches
BY DEF Batches

Hushing(d) == {messages \in Seq(Quiets \cup Silencers) : Hushes(d, messages)}
LEMMA HushingAre ==
  ASSUME NEW d
  PROVE  /\ \A m \in Silencers : (Speaker(d) # 0 => Stills(d, m)) => <<m>> \in Hushing(d)
         /\ \A p \in Batches, q \in Hushing(d) : p \o q \in Hushing(d) /\ q \o p \in Hushing(d)
         /\ Speaker(d) = 0 => Batches \subseteq Hushing(d)
<1>1. ASSUME NEW m \in Silencers, Speaker(d) # 0 => Stills(d, m)
      PROVE  <<m>> \in Hushing(d)
  <2>1. <<m>> \in Seq(Quiets \cup Silencers) /\ <<m>>[1] = m /\ 1 \in 1..Len(<<m>>)
    OBVIOUS
  <2> QED BY <1>1, <2>1 DEF Hushing, Hushes
<1>2. ASSUME NEW p \in Batches, NEW q \in Seq(Quiets \cup Silencers), Hushes(d, q)
      PROVE  /\ p \o q \in Seq(Quiets \cup Silencers) /\ Hushes(d, p \o q)
             /\ q \o p \in Seq(Quiets \cup Silencers) /\ Hushes(d, q \o p)
  <2>1. p \in Seq(Quiets \cup Silencers)
    BY DEF Batches
  <2>2. \A k \in 1..Len(q) : /\ Len(p) + k \in 1..Len(p \o q) /\ (p \o q)[Len(p) + k] = q[k]
                             /\ k \in 1..Len(q \o p) /\ (q \o p)[k] = q[k]
    BY <2>1
  <2>3. p \o q \in Seq(Quiets \cup Silencers) /\ q \o p \in Seq(Quiets \cup Silencers)
    BY <2>1
  <2>4. ASSUME NEW k \in 1..Len(q), q[k] \in Silencers /\ Stills(d, q[k])
        PROVE  Hushes(d, p \o q) /\ Hushes(d, q \o p)
    BY <2>2, <2>4 DEF Hushes
  <2> QED BY <1>2, <2>3, <2>4 DEF Hushes
<1>3. Speaker(d) = 0 => Batches \subseteq Hushing(d)
  BY DEF Hushing, Hushes, Batches
<1> QED BY <1>1, <1>2, <1>3 DEF Hushing

LEMMA EnqueueFine ==
  ASSUME NEW s, Sound(s), NEW messages \in Batches
  PROVE  Fine(s, EnqueueControl(s, messages))
<1> DEFINE t == EnqueueControl(s, messages)
           d == s.data
           e == Transition(d, messages).data
<1>1. Whole(d)
  BY DEF Sound
<1>2. Transition(d, messages).ok => Leads(d, e) /\ Same(d, e)
  BY <1>1, QuietBatch DEF Batches
<1>3. (Raised(t) /\ Fine(s, t)) \/ Reached(s, t, messages)
  BY <1>2, EnqueueControlIs DEF Leads
<1> HIDE DEF t
<1>4. ASSUME Reached(s, t, messages) PROVE Fine(s, t)
  <2>1. /\ Sound(t) /\ Timed(t) /\ t.data = e /\ t.writer = s.writer
        /\ s.code = NoCode /\ t.code = NoCode /\ Leads(d, e) /\ Same(d, e)
        /\ \A f, o : Queued(f, s.queue, o) => Queued(f, t.queue, o)
    BY <1>2, <1>4 DEF Reached
  <2> HIDE DEF e
  <2>2. ASSUME Held(s) PROVE Held(t)
    <3>1. Queued(e, s.queue, 0)
      BY <1>1, <2>1, <2>2, QueuedSpeaks DEF Held, Same
    <3>2. Queued(t.data, t.queue, 0)
      BY <2>1, <3>1
    <3> QED BY <2>1, <2>2, <3>2 DEF Held, Leads, Same
  <2>3. Tame(s) => Tame(t)
    BY <2>1 DEF Tame, Current, Leads, Calm
  <2> QED BY <2>1, <2>2, <2>3 DEF Fine, Firm
<1> QED BY <1>3, <1>4 DEF t

(* The response has ended and its PCM is still queued.                     *)
Pending(s, t) ==
  Held(s) =>
    /\ DOMAIN t.writer = WriterFields
    /\ Queued(t.data, t.queue, t.writer.output)
    /\ t.code = NoCode => t.data.connection_state # "closing" /\ Speaker(t.data) = 0
Silent(s, t) ==
  IF Raised(t) THEN Fine(s, t)
  ELSE Sound(t) /\ Timed(t) /\ (Tame(s) => Tame(t)) /\ Pending(s, t)

LEMMA EnqueueSilent ==
  ASSUME NEW s, Sound(s), NEW messages \in Hushing(s.data)
  PROVE  Silent(s, EnqueueControl(s, messages))
<1> DEFINE t == EnqueueControl(s, messages)
           d == s.data
           e == Transition(d, messages).data
<1>1. Whole(d)
  BY DEF Sound
<1>2. Transition(d, messages).ok => Leads(d, e) /\ Speaker(e) = 0
  BY <1>1, HushBatch DEF Hushing
<1>3. (Raised(t) /\ Fine(s, t)) \/ Reached(s, t, messages)
  BY <1>2, EnqueueControlIs DEF Leads
<1> HIDE DEF t
<1>4. ASSUME Reached(s, t, messages) PROVE Silent(s, t)
  <2>1. /\ Sound(t) /\ Timed(t) /\ t.data = e /\ t.writer = s.writer /\ ~ Raised(t)
        /\ s.code = NoCode /\ t.code = NoCode /\ Leads(d, e) /\ Speaker(e) = 0
        /\ \A f, o : Queued(f, s.queue, o) => Queued(f, t.queue, o)
    BY <1>2, <1>4 DEF Reached
  <2> HIDE DEF e
  <2>2. ASSUME Held(s)
        PROVE  /\ DOMAIN t.writer = WriterFields
               /\ Queued(t.data, t.queue, t.writer.output)
               /\ t.data.connection_state # "closing"
    <3>1. t.writer.output = OutputOf(d, Speaker(d))
      BY <2>1, <2>2 DEF Held
    <3>2. Queued(e, s.queue, t.writer.output)
      BY <1>1, <2>1, <2>2, <3>1, QueuedLeads DEF Held
    <3> QED BY <2>1, <2>2, <3>2 DEF Held, Leads
  <2>3. Tame(s) => Tame(t)
    BY <2>1 DEF Tame, Current, Leads, Calm
  <2> QED BY <2>1, <2>2, <2>3 DEF Silent, Pending
<1> QED BY <1>3, <1>4 DEF Silent, t

(* _response_terminated makes up for it.                                   *)
LEMMA PendingTerminated ==
  ASSUME NEW s, NEW t, Sound(t), ~ Raised(t), Pending(s, t)
  PROVE  LET u == ResponseTerminated(t, TRUE) IN
         /\ Sound(u) /\ (Held(s) => Held(u))
         /\ u.data = t.data /\ u.key = t.key /\ u.code = t.code /\ u.raised = t.raised
<1> DEFINE c == DiscardOutput(t)
           u == [c EXCEPT !.writer = NoWriter]
<1>1. ResponseTerminated(t, TRUE) = u
  BY DEF ResponseTerminated
<1>2. /\ DOMAIN c = SessionFields
      /\ c.data = t.data /\ c.key = t.key /\ c.code = t.code /\ c.raised = t.raised
      /\ c.events = t.events
  BY DEF Sound, SessionFields, DiscardOutput
<1>3. Held(s) => Queued(t.data, c.queue, 0)
  BY DiscardOutputIs DEF Pending, Sound
<1> HIDE DEF c
<1>4. /\ DOMAIN u = SessionFields
      /\ u.data = t.data /\ u.key = t.key /\ u.code = t.code /\ u.raised = t.raised
      /\ u.events = t.events /\ u.queue = c.queue /\ u.writer = NoWriter
  BY <1>2 DEF SessionFields
<1> HIDE DEF u
<1>5. Sound(u)
  BY <1>4 DEF Sound
<1>6. Held(s) => Held(u)
  BY <1>3, <1>4 DEF Held, Pending, NoWriter, WriterFields, OutputOf
<1> QED BY <1>1, <1>4, <1>5, <1>6

LEMMA ThenTerminated ==
  ASSUME NEW s, NEW t, Silent(s, t)
  PROVE  LET u == ResponseTerminated(t, TRUE) IN Fine(s, u) /\ (~ Raised(u) => Timed(u))
<1> DEFINE u == ResponseTerminated(t, TRUE)
<1>1. CASE Raised(t)
  <2>1. u = t
    BY <1>1 DEF ResponseTerminated
  <2> QED BY <1>1, <2>1 DEF Silent
<1>2. CASE ~ Raised(t)
  <2>1. /\ Sound(u) /\ (Held(s) => Held(u))
        /\ u.data = t.data /\ u.key = t.key /\ u.code = t.code /\ u.raised = t.raised
    BY <1>2, PendingTerminated DEF Silent
  <2> HIDE DEF u
  <2>2. Phase(u) = Phase(t)
    BY <2>1, PhaseOfData
  <2>3. Timed(u) /\ (Tame(s) => Tame(u))
    BY <1>2, <2>1, <2>2 DEF Silent, Timed, Tame, Current
  <2> QED BY <2>1, <2>3 DEF Fine, Firm, u
<1> QED BY <1>1, <1>2

LEMMA MarkedAlike ==
  ASSUME NEW s, Sound(s), NEW ids, NEW id
  PROVE  /\ Alike(s, MarkAllClosed(s, ids)) /\ MarkAllClosed(s, ids).raised = s.raised
         /\ Alike(s, MarkClosed(s, id)) /\ MarkClosed(s, id).raised = s.raised
<1>1. Alike(s, MarkAllClosed(s, ids)) /\ MarkAllClosed(s, ids).raised = s.raised
  BY DEF MarkAllClosed, Alike, Sound, SessionFields
<1>2. Alike(s, MarkClosed(s, id)) /\ MarkClosed(s, id).raised = s.raised
  BY DEF MarkClosed, Alike, Sound, SessionFields
<1> QED BY <1>1, <1>2

LEMMA ThenMarked ==
  ASSUME NEW s, NEW t, Fine(s, t), NEW ids, NEW id
  PROVE  Fine(s, MarkAllClosed(t, ids)) /\ Fine(s, MarkClosed(t, id))
<1>1. Sound(t)
  BY FineSound
<1>2. Alike(t, MarkAllClosed(t, ids)) /\ Alike(t, MarkClosed(t, id))
  BY <1>1, MarkedAlike
<1> QED BY <1>2, ThenAlike

LEMMA ThenMarkedSilent ==
  ASSUME NEW s, NEW t, Silent(s, t), NEW ids
  PROVE  Silent(s, MarkAllClosed(t, ids))
<1> DEFINE u == MarkAllClosed(t, ids)
<1>1. Sound(t)
  BY FineSound DEF Silent
<1>2. Alike(t, u) /\ u.raised = t.raised
  BY <1>1, MarkedAlike
<1> HIDE DEF u
<1>3. Phase(t) = Phase(u)
  BY <1>2, PhaseOfData DEF Alike
<1>4. CASE Raised(t)
  BY <1>2, <1>4, ThenAlike DEF Silent, Raised, u
<1>5. CASE ~ Raised(t)
  <2>1. Sound(u) /\ ~ Raised(u)
    BY <1>1, <1>2, <1>5 DEF Alike, Sound, Raised
  <2>2. Timed(u) /\ (Tame(s) => Tame(u)) /\ Pending(s, u)
    BY <1>2, <1>3, <1>5 DEF Silent, Alike, Timed, Tame, Current, Pending
  <2> QED BY <2>1, <2>2 DEF Silent, u
<1> QED BY <1>4, <1>5

LEMMA DiscardAudioAlike ==
  ASSUME NEW s, Sound(s), NEW id
  PROVE  Alike(s, DiscardAudio(s, id)) /\ DiscardAudio(s, id).raised = s.raised
<1> DEFINE kept == {m \in Range(s.events) : ~ (IsAudio(m) /\ m.input_id = id)}
           left == Only(kept, s.events)
<1>1. left \in Seq(FromClient)
  <2> HIDE DEF kept
  <2> DEFINE none == [m \in FromClient |-> 0]
  <2>1. none \in [FromClient -> Nat] /\ s.events \in Seq(FromClient)
    BY DEF Sound
  <2> HIDE DEF none
  <2>2. left \in Seq(FromClient \cap kept)
    BY <2>1, TotalOfOnly
  <2> QED BY <2>2
<1> HIDE DEF kept, left
<1>2. CASE Raised(s)
  BY <1>2 DEF DiscardAudio, Alike, Sound
<1>3. CASE ~ Raised(s)
  <2>1. DiscardAudio(s, id) = [s EXCEPT !.events = left]
    BY <1>3 DEF DiscardAudio, left, kept
  <2> QED BY <1>1, <2>1 DEF Alike, Sound, SessionFields
<1> QED BY <1>2, <1>3

-----------------------------------------------------------------------------
(* States.                                                                 *)

LEMMA ConversationIs ==
  ASSUME NEW s, Sound(s)
  PROVE  /\ Current(s) \in Conversations /\ s.data \in Data /\ Good(s.data) /\ Whole(s.data)
         /\ Current(s).id # 0 => Current(s).id \in Ids
         /\ Current(s).input_id # 0 => Current(s).input_id \in Ids
         /\ Current(s).response_id # 0 => Current(s).response_id \in Ids
<1>1. Good(s.data) /\ s.data \in Data /\ Current(s) \in Conversations
  BY DEF Sound, Whole, Good, Data, Current
<1>2. /\ Current(s).id \in OptionalIds /\ Current(s).input_id \in OptionalIds
      /\ Current(s).response_id \in OptionalIds
  BY <1>1 DEF Conversations
<1> QED BY <1>1, <1>2, NoneIds DEF Sound

(* The response that is going on is the current one.                       *)
LEMMA SpeakerCurrent ==
  ASSUME NEW s, Sound(s), Speaker(s.data) # 0
  PROVE  Speaker(s.data) = Current(s).response_id /\ LiveResponse(s)
<1>1. Current(s) = s.data.conversation
  BY DEF Current
<1> QED BY <1>1, SpeakerIs, NoneIds DEF Sound, LiveResponse

LEMMA NextStateBatch ==
  ASSUME NEW s, Sound(s), Current(s).id # 0, NEW state \in CoarseState
  PROVE  NextState(s, state) \in Batches
<1> DEFINE m == [type |-> "state", conversation_id |-> Current(s).id,
                 revision |-> Current(s).state.revision + 1, state |-> state]
<1>1. Current(s).id \in Ids /\ Current(s).state.revision \in Nat
  BY ConversationIs DEF Conversations, StateValues
<1>2. m \in AnyStates
  BY <1>1 DEF AnyStates, Positive
<1>3. m \in Quiets
  BY <1>2 DEF Quiets
<1> HIDE DEF m
<1>4. <<m>> \in Batches /\ <<>> \in Batches
  BY <1>3, BatchesAre
<1> QED BY <1>4 DEF NextState, m

LEMMA EnqueueStateFine ==
  ASSUME NEW s, Sound(s), NEW state \in CoarseState
  PROVE  Fine(s, EnqueueState(s, state))
<1>1. Fine(s, s)
  BY FineSelf
<1>2. Fine(s, Raise(s, "violation"))
  BY RaiseIsFine
<1>3. Current(s).id # 0 => Fine(s, EnqueueControl(s, NextState(s, state)))
  BY NextStateBatch, EnqueueFine
<1> QED BY <1>1, <1>2, <1>3 DEF EnqueueState

-----------------------------------------------------------------------------
(* The messages the session makes.                                         *)

LEMMA MadeQuiets ==
  ASSUME NEW c \in Ids
  PROVE  /\ \A i \in Ids, f \in Nat, r \in InputCloseReason : InputClosed(c, i, f, r) \in Quiets
         /\ \A i \in Ids, t \in Texts \cup {"empty"} : TranscriptFinal(c, i, t) \in Quiets
         /\ \A e \in ConversationEndReason : ConversationEnded(c, e) \in Quiets
         /\ \A i \in Ids, e \in InputErrorCode : Error("input", e, c, i, 0) \in Quiets
<1>1. ASSUME NEW i \in Ids, NEW f \in Nat, NEW r \in InputCloseReason
      PROVE  InputClosed(c, i, f, r) \in Quiets
  <2>1. InputClosed(c, i, f, r) \in AnyInputCloses
    BY DEF InputClosed, AnyInputCloses
  <2> QED BY <2>1 DEF Quiets
<1>2. ASSUME NEW i \in Ids, NEW t \in Texts \cup {"empty"}
      PROVE  TranscriptFinal(c, i, t) \in Quiets
  <2>1. TranscriptFinal(c, i, t) \in AnyTranscriptFinals
    BY DEF TranscriptFinal, AnyTranscriptFinals
  <2> QED BY <2>1 DEF Quiets
<1>3. ASSUME NEW e \in ConversationEndReason PROVE ConversationEnded(c, e) \in Quiets
  <2>1. ConversationEnded(c, e) \in AnyConversationEnds
    BY DEF ConversationEnded, AnyConversationEnds
  <2> QED BY <2>1 DEF Quiets
<1>4. ASSUME NEW i \in Ids, NEW e \in InputErrorCode
      PROVE  Error("input", e, c, i, 0) \in Quiets
  <2>1. Error("input", e, c, i, 0) \in AnyInputErrors
    BY DEF AnyInputErrors
  <2> QED BY <2>1 DEF Quiets
<1> QED BY <1>1, <1>2, <1>3, <1>4

LEMMA MadeSilencers ==
  ASSUME NEW c \in Ids
  PROVE  /\ \A r \in Ids, e \in ResponseCancelReason : ResponseCancelled(c, r, e) \in Silencers
         /\ \A e \in ConversationErrorCode : Error("conversation", e, c, 0, 0) \in Silencers
         /\ \A r \in Ids, e \in ResponseErrorCode : Error("response", e, c, 0, r) \in Silencers
         /\ \A d, r, e : /\ r = Speaker(d) => Stills(d, ResponseCancelled(c, r, e))
                         /\ r = Speaker(d) => Stills(d, Error("response", e, c, 0, r))
         /\ \A d : \A e \in ConversationErrorCode : Stills(d, Error("conversation", e, c, 0, 0))
<1>1. ASSUME NEW r \in Ids, NEW e \in ResponseCancelReason
      PROVE  ResponseCancelled(c, r, e) \in Silencers
  <2>1. ResponseCancelled(c, r, e) \in AnyResponseCancels
    BY DEF ResponseCancelled, AnyResponseCancels
  <2> QED BY <2>1 DEF Silencers
<1>2. ASSUME NEW e \in ConversationErrorCode
      PROVE  /\ Error("conversation", e, c, 0, 0) \in Silencers
             /\ \A d : Stills(d, Error("conversation", e, c, 0, 0))
  <2>1. Error("conversation", e, c, 0, 0) \in AnyConversationErrors
    BY DEF AnyConversationErrors
  <2> QED BY <2>1 DEF Silencers, Stills
<1>3. ASSUME NEW r \in Ids, NEW e \in ResponseErrorCode
      PROVE  Error("response", e, c, 0, r) \in Silencers
  <2>1. Error("response", e, c, 0, r) \in AnyResponseErrors
    BY DEF AnyResponseErrors
  <2> QED BY <2>1 DEF Silencers
<1>4. ASSUME NEW d, NEW r, NEW e, r = Speaker(d)
      PROVE  Stills(d, ResponseCancelled(c, r, e)) /\ Stills(d, Error("response", e, c, 0, r))
  BY <1>4 DEF Stills, ResponseCancelled, Error
<1> QED BY <1>1, <1>2, <1>3, <1>4

LEMMA FinalizeInputBatch ==
  ASSUME NEW d \in Data, NEW c \in Ids, NEW i \in Ids
  PROVE  FinalizeInput(d, c, i) \in Batches
<1>1. d.inputs[i] \in Inputs
  BY Parts
<1>2. d.inputs[i].committed \in Nat /\ "failed" \in InputCloseReason
  BY <1>1 DEF Inputs, InputCloseReason
<1>3. /\ InputClosed(c, i, d.inputs[i].committed, "failed") \in Quiets
      /\ TranscriptFinal(c, i, "empty") \in Quiets
  BY <1>2, MadeQuiets
<1> QED BY <1>3, BatchesAre DEF FinalizeInput

LEMMA InputTerminalsBatch ==
  ASSUME NEW s, Sound(s), Current(s).id # 0
  PROVE  InputTerminals(s) \in Batches
BY ConversationIs, FinalizeInputBatch, BatchesAre DEF InputTerminals

(* What ends a response.                                                   *)
LEMMA ResponseIsOpen ==
  ASSUME NEW s, Sound(s), Current(s).response_id # 0
  PROVE  Current(s).id # 0
<1> DEFINE d == s.data
           r == Current(s).response_id
<1>1. r \in Ids /\ Good(d) /\ d.conversation.response_id = r
  BY ConversationIs DEF Current
<1>2. Unfinished(d.responses[r]) /\ d.conversation.id = d.responses[r].conversation_id
  BY <1>1 DEF Good, Turns, ResponseTurn
<1> QED BY <1>2 DEF Unfinished, Current

LEMMA ResponseTerminalsHush ==
  ASSUME NEW s, Sound(s), NEW reason \in ResponseCancelReason
  PROVE  ResponseTerminals(s, reason) \in Hushing(s.data)
<1> DEFINE c == Current(s)
           r == c.response_id
<1>1. CASE r = 0
  <2>1. Speaker(s.data) = 0
    BY <1>1, SpeakerCurrent
  <2>2. ResponseTerminals(s, reason) = <<>>
    BY <1>1 DEF ResponseTerminals
  <2> QED BY <2>1, <2>2, HushingAre, BatchesAre
<1>2. CASE r # 0
  <2>1. c.id \in Ids /\ r \in Ids
    BY <1>2, ConversationIs, ResponseIsOpen
  <2> DEFINE m == ResponseCancelled(c.id, r, reason)
  <2>2. m \in Silencers /\ (r = Speaker(s.data) => Stills(s.data, m))
    BY <2>1, MadeSilencers
  <2>3. Speaker(s.data) # 0 => r = Speaker(s.data)
    BY SpeakerCurrent
  <2>4. ResponseTerminals(s, reason) = <<m>>
    BY <1>2 DEF ResponseTerminals
  <2> HIDE DEF m
  <2>5. <<m>> \in Hushing(s.data)
    BY <2>2, <2>3, HushingAre
  <2> QED BY <2>4, <2>5
<1> QED BY <1>1, <1>2

(* An error that ends it, and what comes after.                            *)
LEMMA ConversationErrorHushes ==
  ASSUME NEW d, NEW c \in Ids, NEW code \in ConversationErrorCode
  PROVE  <<Error("conversation", code, c, 0, 0)>> \in Hushing(d)
<1> DEFINE m == Error("conversation", code, c, 0, 0)
<1>1. m \in Silencers /\ Stills(d, m)
  BY MadeSilencers
<1> HIDE DEF m
<1>2. <<m>> \in Hushing(d)
  BY <1>1, HushingAre
<1> QED BY <1>2 DEF m

LEMMA ResponseErrorHushes ==
  ASSUME NEW s, Sound(s), NEW c \in Ids, Current(s).response_id \in Ids,
         NEW code \in ResponseErrorCode, NEW q \in Batches
  PROVE  <<Error("response", code, c, 0, Current(s).response_id)>> \o q \in Hushing(s.data)
<1> DEFINE r == Current(s).response_id
           m == Error("response", code, c, 0, r)
<1>1. m \in Silencers /\ (r = Speaker(s.data) => Stills(s.data, m))
  BY MadeSilencers
<1>2. Speaker(s.data) # 0 => r = Speaker(s.data)
  BY SpeakerCurrent
<1> HIDE DEF m
<1>3. <<m>> \in Hushing(s.data)
  BY <1>1, <1>2, HushingAre
<1>4. <<m>> \o q \in Hushing(s.data)
  BY <1>3, HushingAre
<1> QED BY <1>4 DEF m

LEMMA LiveIsOpen == ASSUME NEW s, Sound(s), LiveConversation(s) PROVE Current(s).id # 0
BY DEF LiveConversation

-----------------------------------------------------------------------------
(* The session's methods.                                                  *)

LEMMA FailInputFine ==
  ASSUME NEW s, Sound(s), Current(s).id # 0, NEW id \in Ids, NEW code \in InputErrorCode
  PROVE  Fine(s, FailInput(s, id, code))
<1> DEFINE batch == <<Error("input", code, Current(s).id, id, 0)>> \o NextState(s, "waiting")
<1>1. Current(s).id \in Ids /\ "waiting" \in CoarseState
  BY ConversationIs DEF CoarseState
<1>2. Error("input", code, Current(s).id, id, 0) \in Quiets
  BY <1>1, MadeQuiets
<1>3. batch \in Batches
  BY <1>1, <1>2, NextStateBatch, BatchesAre
<1> HIDE DEF batch
<1>4. Fine(s, EnqueueControl(s, batch))
  BY <1>3, EnqueueFine
<1> QED BY <1>4, ThenMarked DEF FailInput, batch

LEMMA CloseInputFine ==
  ASSUME NEW s, Sound(s), NEW id \in Ids, NEW reason \in InputCloseReason
  PROVE  Fine(s, CloseInputCall(s, id, reason))
<1> DEFINE close == InputClosed(Current(s).id, id, s.data.inputs[id].committed, reason)
           batch == <<close>> \o NextState(s, "processing")
<1>1. CASE ~ (LiveConversation(s) /\ Current(s).input_id = id)
  BY <1>1, RaiseIsFine DEF CloseInputCall
<1>2. CASE LiveConversation(s) /\ Current(s).input_id = id
  <2>1. /\ Current(s).id # 0 /\ Current(s).id \in Ids /\ s.data \in Data
        /\ "processing" \in CoarseState
    BY <1>2, LiveIsOpen, ConversationIs DEF CoarseState
  <2>2. s.data.inputs[id].committed \in Nat
    BY <2>1, Parts DEF Inputs
  <2>3. close \in Quiets
    BY <2>1, <2>2, MadeQuiets
  <2> HIDE DEF close
  <2>4. batch \in Batches
    BY <2>1, <2>3, NextStateBatch, BatchesAre
  <2> HIDE DEF batch
  <2>5. Fine(s, EnqueueControl(s, batch))
    BY <2>4, EnqueueFine
  <2>6. Fine(s, MarkClosed(EnqueueControl(s, batch), id))
    BY <2>5, ThenMarked
  <2> QED BY <1>2, <2>6 DEF CloseInputCall, batch, close
<1> QED BY <1>1, <1>2

LEMMA UpdateTranscriptFine ==
  ASSUME NEW s, Sound(s), NEW id \in Ids, NEW revision \in Positive, NEW text \in Texts
  PROVE  Fine(s, UpdateTranscript(s, id, revision, text))
<1> DEFINE m == [type |-> "transcript.update", conversation_id |-> Current(s).id,
                 input_id |-> id, revision |-> revision, text |-> text]
<1>1. CASE ~ LiveConversation(s)
  BY <1>1, RaiseIsFine DEF UpdateTranscript
<1>2. CASE LiveConversation(s)
  <2>1. Current(s).id \in Ids
    BY <1>2, LiveIsOpen, ConversationIs
  <2>2. m \in AnyTranscriptUpdates
    BY <2>1 DEF AnyTranscriptUpdates
  <2> HIDE DEF m
  <2>3. <<m>> \in Batches
    BY <2>2, BatchesAre DEF Quiets
  <2>4. Fine(s, EnqueueControl(s, <<m>>))
    BY <2>3, EnqueueFine
  <2> QED BY <1>2, <2>4 DEF UpdateTranscript, m
<1> QED BY <1>1, <1>2

LEMMA FinalizeTranscriptFine ==
  ASSUME NEW s, Sound(s), NEW id \in Ids, NEW text \in Texts \cup {"empty"}
  PROVE  Fine(s, FinalizeTranscript(s, id, text))
<1>1. CASE ~ LiveConversation(s)
  BY <1>1, RaiseIsFine DEF FinalizeTranscript
<1>2. CASE LiveConversation(s)
  <2>1. Current(s).id \in Ids
    BY <1>2, LiveIsOpen, ConversationIs
  <2>2. <<TranscriptFinal(Current(s).id, id, text)>> \in Batches
    BY <2>1, MadeQuiets, BatchesAre
  <2> QED BY <1>2, <2>2, EnqueueFine DEF FinalizeTranscript
<1> QED BY <1>1, <1>2

LEMMA StartResponseFine ==
  ASSUME NEW s, Sound(s), NEW id \in Ids, NEW ends \in BOOLEAN, s.data.response_ids \in Ids
  PROVE  Fine(s, StartResponseCall(s, id, ends))
<1> DEFINE new == s.data.response_ids
           start == [type |-> "response.start", conversation_id |-> Current(s).id,
                     response_id |-> new, input_id |-> id, end_conversation |-> ends]
           after == NextState(s, "responding")
           batch == <<start>> \o after
           t == EnqueueControl(s, batch)
           u == [t EXCEPT !.writer = [NoWriter EXCEPT !.response = new]]
           d == s.data
           b == After(d, start)
           e == Transition(d, batch).data
<1>1. CASE StartResponseCall(s, id, ends) = Raise(s, "violation")
  BY <1>1, RaiseIsFine
<1>2. CASE LiveConversation(s) /\ StartResponseCall(s, id, ends) = IF Raised(t) THEN t ELSE u
  <2>1. Current(s).id # 0 /\ Current(s).id \in Ids /\ "responding" \in CoarseState
    BY <1>2, LiveIsOpen, ConversationIs DEF CoarseState
  <2>2. start \in AnyResponseStarts
    BY <2>1 DEF AnyResponseStarts
  <2>3. start.response_id = new
    OBVIOUS
  <2>4. after \in Batches
    BY <2>1, NextStateBatch
  <2>5. Whole(d)
    BY DEF Sound
  <2> HIDE DEF start, after
  <2>6. Accepts(d, start) =>
          /\ Steps(d, b) /\ Calm(d, b) /\ Speaker(d) = 0 /\ Speaker(b) = new
          /\ OutputOf(b, Speaker(b)) = 0
    BY <2>2, <2>3, <2>5, ResponseStartMessage
  <2> HIDE DEF b
  <2>7. Transition(d, batch).ok => Accepts(d, start) /\ Leads(b, e) /\ Same(b, e)
    BY <2>4, <2>6, HeadBatch DEF Batches, Steps, b
  <2> HIDE DEF batch
  <2>8. Transition(d, batch).ok =>
          /\ Leads(d, e) /\ Speaker(d) = 0 /\ Speaker(e) = new /\ OutputOf(e, new) = 0
    BY <2>5, <2>6, <2>7, StepLeads, LeadsChain DEF Same
  <2>9. (Raised(t) /\ Fine(s, t)) \/ Reached(s, t, batch)
    BY <2>8, EnqueueControlIs DEF Leads
  <2> HIDE DEF t
  <2>10. ASSUME Reached(s, t, batch) PROVE Fine(s, u)
    <3>1. /\ Sound(t) /\ Timed(t) /\ t.data = e /\ s.code = NoCode /\ t.code = NoCode
          /\ Leads(d, e) /\ Speaker(d) = 0 /\ Speaker(e) = new /\ OutputOf(e, new) = 0
          /\ \A f, o : Queued(f, s.queue, o) => Queued(f, t.queue, o)
      BY <2>8, <2>10 DEF Reached
    <3> HIDE DEF e
    <3>2. /\ DOMAIN u = SessionFields /\ u.data = t.data /\ u.key = t.key /\ u.code = t.code
          /\ u.queue = t.queue /\ u.events = t.events
          /\ u.writer = [NoWriter EXCEPT !.response = new]
      BY <3>1 DEF Sound, SessionFields
    <3> HIDE DEF u
    <3>3. Phase(u) = Phase(t)
      BY <3>2, PhaseOfData
    <3>4. Sound(u) /\ Timed(u)
      BY <3>1, <3>2, <3>3 DEF Sound, Timed
    <3>5. ASSUME Held(s) PROVE Held(u)
      <4>1. Queued(e, s.queue, 0)
        BY <2>5, <3>1, <3>5, QueuedSpeaks DEF Held
      <4>2. Queued(u.data, u.queue, 0)
        BY <3>1, <3>2, <4>1
      <4>3. DOMAIN u.writer = WriterFields /\ u.writer.response = new /\ u.writer.output = 0
        BY <3>2 DEF NoWriter, WriterFields
      <4>4. u.data.connection_state # "closing"
        BY <3>1, <3>2, <3>5 DEF Held, Leads
      <4> QED BY <3>1, <3>2, <4>2, <4>3, <4>4 DEF Held
    <3>6. Tame(s) => Tame(u)
      BY <3>1, <3>2 DEF Tame, Current, Leads, Calm
    <3> QED BY <3>4, <3>5, <3>6 DEF Fine, Firm
  <2> HIDE DEF u
  <2>11. Raised(t) => Fine(s, t)
    BY <2>9 DEF Reached
  <2>12. ~ Raised(t) => Fine(s, u)
    BY <2>9, <2>10
  <2> QED BY <1>2, <2>11, <2>12
<1> HIDE DEF t, u
<1> QED BY <1>1, <1>2 DEF StartResponseCall, t, u, batch, start, after, new

LEMMA EndConversationFine ==
  ASSUME NEW s, Sound(s), NEW reason \in ConversationEndReason
  PROVE  Fine(s, EndConversationCall(s, reason))
<1> DEFINE end == <<ConversationEnded(Current(s).id, reason)>>
           batch == (InputTerminals(s) \o ResponseTerminals(s, "conversation_cancelled")) \o end
           t == EnqueueControl(s, batch)
<1>1. CASE ~ LiveConversation(s)
  BY <1>1, RaiseIsFine DEF EndConversationCall
<1>2. CASE LiveConversation(s)
  <2>1. /\ Current(s).id # 0 /\ Current(s).id \in Ids
        /\ "conversation_cancelled" \in ResponseCancelReason
    BY <1>2, LiveIsOpen, ConversationIs DEF ResponseCancelReason
  <2>2. InputTerminals(s) \in Batches /\ end \in Batches
    BY <2>1, InputTerminalsBatch, MadeQuiets, BatchesAre
  <2> HIDE DEF end
  <2>3. ResponseTerminals(s, "conversation_cancelled") \in Hushing(s.data)
    BY <2>1, ResponseTerminalsHush
  <2>4. batch \in Hushing(s.data)
    BY <2>2, <2>3, HushingAre
  <2> HIDE DEF batch
  <2>5. Silent(s, t)
    BY <2>4, EnqueueSilent
  <2> HIDE DEF t
  <2>6. Fine(s, ResponseTerminated(MarkAllClosed(t, LastInput(s)), TRUE))
    BY <2>5, ThenMarkedSilent, ThenTerminated
  <2> QED BY <1>2, <2>6 DEF EndConversationCall, t, batch, end
<1> QED BY <1>1, <1>2

LEMMA FailConversationFine ==
  ASSUME NEW s, Sound(s), NEW code \in ConversationErrorCode
  PROVE  Fine(s, FailConversationCall(s, code))
<1> DEFINE batch == <<Error("conversation", code, Current(s).id, 0, 0)>>
           t == EnqueueControl(s, batch)
<1>1. CASE ~ LiveConversation(s)
  BY <1>1, RaiseIsFine DEF FailConversationCall
<1>2. CASE LiveConversation(s)
  <2>1. Current(s).id \in Ids
    BY <1>2, LiveIsOpen, ConversationIs
  <2>2. batch \in Hushing(s.data)
    BY <2>1, ConversationErrorHushes
  <2> HIDE DEF batch
  <2>3. Silent(s, t)
    BY <2>2, EnqueueSilent
  <2> HIDE DEF t
  <2>4. Fine(s, ResponseTerminated(MarkAllClosed(t, LastInput(s)), TRUE))
    BY <2>3, ThenMarkedSilent, ThenTerminated
  <2> QED BY <1>2, <2>4 DEF FailConversationCall, t, batch
<1> QED BY <1>1, <1>2

LEMMA FailInputCallFine ==
  ASSUME NEW s, Sound(s), NEW code \in InputErrorCode
  PROVE  Fine(s, FailInputCall(s, code))
<1>1. CASE ~ (LiveConversation(s) /\ RecoverableInput(s))
  BY <1>1, RaiseIsFine DEF FailInputCall
<1>2. CASE LiveConversation(s) /\ RecoverableInput(s)
  <2>1. Current(s).id # 0 /\ Current(s).input_id \in Ids
    BY <1>2, LiveIsOpen, ConversationIs DEF RecoverableInput
  <2> QED BY <1>2, <2>1, FailInputFine DEF FailInputCall
<1> QED BY <1>1, <1>2

LEMMA FailResponseCallFine ==
  ASSUME NEW s, Sound(s), NEW code \in ResponseErrorCode
  PROVE  Fine(s, FailResponseCall(s, code))
<1> DEFINE r == Current(s).response_id
           error == Error("response", code, Current(s).id, 0, r)
           waiting == /\ ~ s.data.responses[r].end_conversation
                      /\ code \in RecoverableResponseCode
           after == IF waiting THEN NextState(s, "waiting") ELSE <<>>
           batch == <<error>> \o after
           t == EnqueueControl(s, batch)
<1>1. CASE ~ (LiveConversation(s) /\ LiveResponse(s))
  BY <1>1, RaiseIsFine DEF FailResponseCall
<1>2. CASE LiveConversation(s) /\ LiveResponse(s)
  <2>1. /\ Current(s).id # 0 /\ Current(s).id \in Ids /\ r \in Ids
        /\ "waiting" \in CoarseState
    BY <1>2, LiveIsOpen, ConversationIs DEF LiveResponse, CoarseState
  <2>2. after \in Batches
    BY <2>1, NextStateBatch, BatchesAre
  <2> HIDE DEF waiting, after
  <2>3. batch \in Hushing(s.data)
    BY <2>1, <2>2, ResponseErrorHushes
  <2> HIDE DEF batch
  <2>4. Silent(s, t)
    BY <2>3, EnqueueSilent
  <2> HIDE DEF t
  <2>5. Fine(s, ResponseTerminated(t, TRUE))
    BY <2>4, ThenTerminated
  <2> QED BY <1>2, <2>5 DEF FailResponseCall, t, batch, after, waiting, error
<1> QED BY <1>1, <1>2
-----------------------------------------------------------------------------
(* The writers.                                                            *)

LEMMA WritingIs ==
  ASSUME NEW s, Sound(s), CanWrite(s)
  PROVE  /\ s.writer.response \in Ids /\ s.writer.response = Current(s).response_id
         /\ Current(s).id # 0 /\ Current(s).id \in Ids
         /\ WriterResponse(s) \in Responses
         /\ WriterResponse(s).conversation_id = Current(s).id
         /\ s.writer.response = Speaker(s.data)
<1> DEFINE d == s.data
           r == Current(s).response_id
<1>1. /\ r \in Ids /\ s.writer.response = r /\ d \in Data /\ Good(d)
      /\ d.responses[r].terminal = "none" /\ d.conversation.response_id = r
  BY ConversationIs DEF CanWrite, LiveResponse, Current
<1>2. /\ Unfinished(d.responses[r])
      /\ d.conversation.id = d.responses[r].conversation_id
  BY <1>1 DEF Good, Turns, ResponseTurn
<1>3. d.conversation.id # 0
  BY <1>2 DEF Unfinished
<1>4. WriterResponse(s) = d.responses[r] /\ d.responses[r] \in Responses
  BY <1>1, Parts DEF WriterResponse
<1>5. Current(s).id = d.conversation.id
  BY DEF Current
<1>6. r = Speaker(d)
  BY <1>1, NoneIds DEF Speaker
<1> QED BY <1>1, <1>2, <1>3, <1>4, <1>5, <1>6, ConversationIs


(* A writer the session holds can write, unless the core is to close.      *)
LEMMA HeldWriter ==
  ASSUME NEW s, Sound(s), Held(s), s.code = NoCode, s.writer.response # 0
  PROVE  CanWrite(s)
<1>1. s.writer.response = Speaker(s.data)
  BY DEF Held
<1> QED BY <1>1, SpeakerCurrent DEF CanWrite

LEMMA ClosedWriterFine ==
  ASSUME NEW s, Sound(s), ~ CanWrite(s) PROVE Fine(s, Raise(WriterClosed(s), "violation"))
<1> DEFINE t == WriterClosed(s)
<1>1. CASE s.writer.response = 0
  <2>1. t = s
    BY <1>1 DEF WriterClosed
  <2> QED BY <2>1, RaiseIsFine
<1>2. CASE s.writer.response # 0
  <2>1. /\ DOMAIN t = SessionFields /\ t.data = s.data /\ t.queue = s.queue /\ t.key = s.key
        /\ t.code = s.code /\ t.events = s.events /\ t.writer = NoWriter
    BY <1>2 DEF WriterClosed, Sound, SessionFields
  <2> HIDE DEF t
  <2>2. Phase(t) = Phase(s)
    BY <2>1, PhaseOfData
  <2>3. Sound(t) /\ (Timed(s) => Timed(t)) /\ (Tame(s) => Tame(t))
    BY <2>1, <2>2 DEF Sound, Timed, Tame, Current
  <2>4. ASSUME Held(s) PROVE Held(t)
    <3>1. s.code # NoCode
      BY <1>2, <2>4, HeldWriter
    <3> QED BY <2>1, <2>4, <3>1 DEF Held, NoWriter, WriterFields
  <2>5. Fine(s, t)
    BY <2>3, <2>4 DEF Fine, Firm
  <2>6. Fine(s, Raise(t, "violation"))
    BY <2>5, ThenRaise
  <2> QED BY <2>6 DEF t
<1> QED BY <1>1, <1>2

LEMMA WritingFine ==
  ASSUME NEW s, Sound(s), NEW t, CanWrite(s) => Fine(s, t)
  PROVE  Fine(s, Writing(s, t))
BY ClosedWriterFine DEF Writing

(* Whether a writer's output is open is a matter of its own.               *)
LEMMA OpenFine ==
  ASSUME NEW s, Sound(s)
  PROVE  LET t == [s EXCEPT !.writer.open = FALSE] IN Fine(s, t)
<1> DEFINE no == FALSE
           t == [s EXCEPT !.writer.open = no]
<1> HIDE DEF no
<1>1. /\ DOMAIN t = SessionFields /\ t.data = s.data /\ t.queue = s.queue /\ t.key = s.key
      /\ t.code = s.code /\ t.events = s.events /\ t.writer = [s.writer EXCEPT !.open = no]
  BY DEF Sound, SessionFields
<1> HIDE DEF t
<1>2. Phase(t) = Phase(s)
  BY <1>1, PhaseOfData
<1>3. Sound(t) /\ (Timed(s) => Timed(t)) /\ (Tame(s) => Tame(t))
  BY <1>1, <1>2 DEF Sound, Timed, Tame, Current
<1>4. DOMAIN s.writer = WriterFields =>
        /\ DOMAIN t.writer = WriterFields /\ t.writer.response = s.writer.response
        /\ t.writer.output = s.writer.output
  BY <1>1 DEF WriterFields
<1>5. Held(s) => Held(t)
  BY <1>1, <1>4 DEF Held
<1> QED BY <1>3, <1>5 DEF Fine, Firm, t, no

LEMMA WritingOutputFine ==
  ASSUME NEW s, Sound(s), NEW t, CanWriteOutput(s) => Fine(s, t)
  PROVE  Fine(s, WritingOutput(s, t))
<1> DEFINE u == [s EXCEPT !.writer.open = FALSE]
<1>1. Fine(s, u)
  BY OpenFine
<1> HIDE DEF u
<1>2. Fine(s, Raise(u, "violation"))
  BY <1>1, ThenRaise
<1> QED BY <1>2, ClosedWriterFine DEF WritingOutput, u

LEMMA SendTextDeltaFine ==
  ASSUME NEW s, Sound(s), NEW text \in Texts
  PROVE  Fine(s, SendTextDelta(s, text))
<1> DEFINE m == [type |-> "response.text.delta", conversation_id |-> Current(s).id,
                 response_id |-> s.writer.response,
                 sequence |-> Len(WriterResponse(s).text), text |-> text]
<1>1. ASSUME CanWrite(s) PROVE Fine(s, EnqueueControl(s, <<m>>))
  <2>1. /\ Current(s).id \in Ids /\ s.writer.response \in Ids
        /\ Len(WriterResponse(s).text) \in Nat
    BY <1>1, WritingIs DEF Responses
  <2>2. m \in AnyTextDeltas
    BY <2>1 DEF AnyTextDeltas
  <2> HIDE DEF m
  <2>3. <<m>> \in Batches
    BY <2>2, BatchesAre DEF Quiets
  <2> QED BY <2>3, EnqueueFine
<1> QED BY <1>1, WritingFine DEF SendTextDelta, m

LEMMA FinalizeTextFine ==
  ASSUME NEW s, Sound(s), NEW n \in Nat, NEW text \in [1..n -> Texts]
  PROVE  Fine(s, FinalizeText(s, text))
<1> DEFINE m == [type |-> "response.text.final", conversation_id |-> Current(s).id,
                 response_id |-> s.writer.response, text |-> text]
<1>1. ASSUME CanWrite(s) PROVE Fine(s, EnqueueControl(s, <<m>>))
  <2>1. /\ Current(s).id \in Ids /\ s.writer.response \in Ids
        /\ text \in UNION {[1..k -> Texts] : k \in Nat}
    BY <1>1, WritingIs
  <2>2. m \in AnyTextFinals
    BY <2>1 DEF AnyTextFinals
  <2> HIDE DEF m
  <2>3. <<m>> \in Batches
    BY <2>2, BatchesAre DEF Quiets
  <2> QED BY <2>3, EnqueueFine
<1> QED BY <1>1, WritingFine DEF FinalizeText, m

LEMMA StartOutputFine ==
  ASSUME NEW s, Sound(s), s.data.output_ids \in Ids
  PROVE  Fine(s, StartOutputCall(s))
<1> DEFINE id == s.data.output_ids
           m == [type |-> "output.start", conversation_id |-> Current(s).id,
                 response_id |-> s.writer.response, output_id |-> id]
           batch == <<m>>
           t == EnqueueControl(s, batch)
           u == [t EXCEPT !.writer.output = id, !.writer.open = TRUE]
           v == IF WriterResponse(s).output # NoOutput \/ Raised(t)
                THEN Raise(t, "violation") ELSE u
           d == s.data
           e == Transition(d, batch).data
<1>1. ASSUME CanWrite(s) PROVE Fine(s, v)
  <2>1. Current(s).id \in Ids /\ s.writer.response \in Ids /\ s.writer.response = Speaker(d)
    BY <1>1, WritingIs
  <2>2. m \in AnyOutputStarts
    BY <2>1 DEF AnyOutputStarts
  <2>3. m.response_id = Speaker(d) /\ m.output_id = id
    BY <2>1
  <2>4. Whole(d)
    BY DEF Sound
  <2> HIDE DEF m
  <2> DEFINE b == After(d, m)
  <2>5. Accepts(d, m) =>
          /\ Steps(d, b) /\ Calm(d, b) /\ Speaker(b) = Speaker(d)
          /\ OutputOf(b, Speaker(b)) = id
    BY <2>2, <2>3, <2>4, OutputStartMessage
  <2> HIDE DEF b
  <2>6. batch = <<m>> \o <<>> /\ <<>> \in Seq(Quiets)
    OBVIOUS
  <2> HIDE DEF batch
  <2>7. Transition(d, batch).ok => Accepts(d, m) /\ Leads(b, e) /\ Same(b, e)
    BY <2>5, <2>6, HeadBatch DEF Steps, b
  <2>8. Transition(d, batch).ok =>
          /\ Leads(d, e) /\ Speaker(e) = Speaker(d) /\ OutputOf(e, Speaker(e)) = id
    BY <2>4, <2>5, <2>7, StepLeads, LeadsChain DEF Same
  <2>9. (Raised(t) /\ Fine(s, t)) \/ Reached(s, t, batch)
    BY <2>8, EnqueueControlIs DEF Leads
  <2> HIDE DEF t
  <2>10. ASSUME Reached(s, t, batch) PROVE Fine(s, u)
    <3>1. /\ Sound(t) /\ Timed(t) /\ t.data = e /\ s.code = NoCode /\ t.code = NoCode
          /\ Leads(d, e) /\ Speaker(e) = Speaker(d) /\ OutputOf(e, Speaker(e)) = id
          /\ t.writer = s.writer
          /\ \A f, o : Queued(f, s.queue, o) => Queued(f, t.queue, o)
      BY <2>8, <2>10 DEF Reached
    <3> HIDE DEF e, id
    <3> DEFINE yes == TRUE
               w == [[s.writer EXCEPT !.output = id] EXCEPT !.open = yes]
    <3> HIDE DEF yes
    <3>2. /\ DOMAIN u = SessionFields /\ u.data = t.data /\ u.key = t.key /\ u.code = t.code
          /\ u.queue = t.queue /\ u.events = t.events /\ u.writer = w
      BY <3>1 DEF Sound, SessionFields, yes
    <3> HIDE DEF u
    <3>3. Phase(u) = Phase(t)
      BY <3>2, PhaseOfData
    <3>4. Sound(u) /\ Timed(u)
      BY <3>1, <3>2, <3>3 DEF Sound, Timed
    <3>5. ASSUME Held(s) PROVE Held(u)
      <4>1. Queued(e, s.queue, 0)
        BY <2>4, <3>1, <3>5, QueuedSpeaks DEF Held
      <4>2. Queued(u.data, u.queue, 0)
        BY <3>1, <3>2, <4>1
      <4>3. DOMAIN w = WriterFields /\ w.response = s.writer.response /\ w.output = id
        BY <3>5 DEF Held, WriterFields
      <4>4. u.data.connection_state # "closing"
        BY <3>1, <3>2, <3>5 DEF Held, Leads
      <4> HIDE DEF w
      <4> QED BY <2>1, <3>1, <3>2, <4>2, <4>3, <4>4 DEF Held
    <3>6. Tame(s) => Tame(u)
      BY <3>1, <3>2 DEF Tame, Current, Leads, Calm
    <3> QED BY <3>4, <3>5, <3>6 DEF Fine, Firm
  <2> HIDE DEF u
  <2>11. Raised(t) => Fine(s, Raise(t, "violation"))
    BY <2>9, ThenRaise DEF Reached
  <2>12. ~ Raised(t) => Reached(s, t, batch)
    BY <2>9
  <2>13. CASE WriterResponse(s).output # NoOutput
    <3>1. m.type = "output.start" /\ WriterResponse(s) = d.responses[m.response_id]
      BY <2>1, <2>2, <2>3, MessageTypes DEF WriterResponse
    <3>2. Accepts(d, m) => CanStartOutput(d, m)
      BY <2>4, <3>1, Handled DEF CanHandle
    <3>3. ~ Transition(d, batch).ok
      BY <2>7, <2>13, <3>1, <3>2 DEF CanStartOutput
    <3>4. Raised(t)
      BY <2>12, <3>3 DEF Reached
    <3> QED BY <2>11, <2>13, <3>4
  <2>14. CASE WriterResponse(s).output = NoOutput
    BY <2>10, <2>11, <2>12, <2>14
  <2> QED BY <2>13, <2>14
<1> HIDE DEF v
<1>2. Fine(s, Writing(s, v))
  BY <1>1, WritingFine
<1> QED BY <1>2 DEF StartOutputCall, v, u, t, batch, m, id
LEMMA CompletedBatch ==
  ASSUME NEW s, Sound(s), NEW r \in Responses, r.conversation_id \in Ids,
         r.end_conversation \/ Current(s).id # 0
  PROVE  CompletedResponse(s, r) \in Batches
<1>1. "completed" \in ConversationEndReason /\ "waiting" \in CoarseState
  BY DEF ConversationEndReason, CoarseState
<1>2. <<ConversationEnded(r.conversation_id, "completed")>> \in Batches
  BY <1>1, MadeQuiets, BatchesAre
<1> QED BY <1>1, <1>2, NextStateBatch DEF CompletedResponse

(* The response has ended and no PCM of it is left to discard.             *)
Ceased(s, t) ==
  IF Raised(t) THEN Fine(s, t)
  ELSE /\ Sound(t) /\ Timed(t) /\ (Tame(s) => Tame(t))
       /\ Held(s) => /\ Queued(t.data, t.queue, 0)
                     /\ t.code = NoCode =>
                          t.data.connection_state # "closing" /\ Speaker(t.data) = 0

LEMMA ThenCeased ==
  ASSUME NEW s, NEW t, Ceased(s, t) PROVE Fine(s, ResponseTerminated(t, FALSE))
<1> DEFINE no == FALSE
           u == [t EXCEPT !.writer = NoWriter]
<1>1. CASE Raised(t)
  <2>1. ResponseTerminated(t, no) = t
    BY <1>1 DEF ResponseTerminated
  <2> QED BY <1>1, <2>1 DEF Ceased
<1>2. CASE ~ Raised(t)
  <2>1. ResponseTerminated(t, no) = u
    BY <1>2 DEF ResponseTerminated
  <2>2. /\ DOMAIN u = SessionFields
        /\ u.data = t.data /\ u.key = t.key /\ u.code = t.code
        /\ u.events = t.events /\ u.queue = t.queue /\ u.writer = NoWriter
    BY <1>2 DEF Ceased, Sound, SessionFields
  <2> HIDE DEF u
  <2>3. Phase(u) = Phase(t)
    BY <2>2, PhaseOfData
  <2>4. Sound(u) /\ Timed(u) /\ (Tame(s) => Tame(u))
    BY <1>2, <2>2, <2>3 DEF Ceased, Sound, Timed, Tame, Current
  <2>5. Held(s) => Held(u)
    BY <1>2, <2>2 DEF Ceased, Held, NoWriter, WriterFields, OutputOf
  <2> QED BY <2>1, <2>4, <2>5 DEF Fine, Firm
<1> QED BY <1>1, <1>2

LEMMA FinishResponseFine ==
  ASSUME NEW s, Sound(s)
  PROVE  Fine(s, FinishResponse(s))
<1> DEFINE r == WriterResponse(s)
           complete == r.output = NoOutput \/ r.playback.kind = "finished"
           m == [type |-> "response.end", conversation_id |-> Current(s).id,
                 response_id |-> s.writer.response]
           after == IF complete THEN CompletedResponse(s, r) ELSE <<>>
           batch == <<m>> \o after
           t == EnqueueControl(s, batch)
           u == ResponseTerminated(t, FALSE)
           v == IF HasOutput(r) /\ r.output.terminal = "none" THEN Raise(s, "violation") ELSE u
           d == s.data
           e == Transition(d, batch).data
           b == After(d, m)
<1>1. ASSUME CanWrite(s) PROVE Fine(s, v)
  <2>1. /\ Current(s).id # 0 /\ Current(s).id \in Ids /\ s.writer.response \in Ids
        /\ r \in Responses /\ r.conversation_id = Current(s).id
        /\ s.writer.response = Speaker(d)
    BY <1>1, WritingIs
  <2>2. m \in AnyResponseEnds /\ m.response_id = Speaker(d)
    BY <2>1 DEF AnyResponseEnds
  <2>3. Whole(d)
    BY DEF Sound
  <2> HIDE DEF m
  <2>4. after \in Batches
    BY <2>1, CompletedBatch, BatchesAre
  <2> HIDE DEF complete, r, after
  <2>5. Accepts(d, m) =>
          /\ Steps(d, b) /\ Calm(d, b) /\ Speaker(b) = 0
          /\ b.responses[Speaker(d)].end
    BY <2>2, <2>3, ResponseEndSilences
  <2> HIDE DEF b
  <2>6. Transition(d, batch).ok => Accepts(d, m) /\ Leads(b, e) /\ Same(b, e)
    BY <2>4, <2>5, HeadBatch DEF Batches, Steps, b
  <2> HIDE DEF batch
  <2>7. ASSUME Transition(d, batch).ok
        PROVE  Leads(d, e) /\ Speaker(e) = 0 /\ ~ Loose(e, Speaker(d))
    <3>1. Leads(d, b) /\ Leads(b, e) /\ Speaker(b) = 0 /\ Speaker(e) = 0
      BY <2>3, <2>5, <2>6, <2>7, StepLeads DEF Same
    <3>2. Leads(d, e)
      BY <3>1, LeadsChain, SMTT(30)
    <3>3. e.responses[Speaker(d)].end
      BY <2>1, <2>5, <2>6, <2>7 DEF Leads, Kept, ResponseKept
    <3> QED BY <3>1, <3>2, <3>3 DEF Loose
  <2>8. (Raised(t) /\ Fine(s, t)) \/ Reached(s, t, batch)
    BY <2>7, EnqueueControlIs DEF Leads
  <2> HIDE DEF t
  <2>9. ASSUME Reached(s, t, batch) PROVE Ceased(s, t)
    <3>1. /\ Sound(t) /\ Timed(t) /\ t.data = e /\ s.code = NoCode /\ t.code = NoCode
          /\ ~ Raised(t) /\ Leads(d, e) /\ Speaker(e) = 0 /\ ~ Loose(e, Speaker(d))
          /\ \A f, o : Queued(f, s.queue, o) => Queued(f, t.queue, o)
      BY <2>7, <2>9 DEF Reached
    <3> HIDE DEF e
    <3>2. Tame(s) => Tame(t)
      BY <3>1 DEF Tame, Current, Leads, Calm
    <3>3. ASSUME Held(s)
          PROVE  Queued(t.data, t.queue, 0) /\ t.data.connection_state # "closing"
      <4>1. Queued(e, s.queue, 0)
        BY <2>3, <3>1, <3>3, QueuedLeads DEF Held
      <4> QED BY <3>1, <3>3, <4>1 DEF Held, Leads
    <3> QED BY <3>1, <3>2, <3>3 DEF Ceased
  <2>10. Ceased(s, t)
    BY <2>8, <2>9 DEF Ceased
  <2>11. Fine(s, u)
    BY <2>10, ThenCeased
  <2> HIDE DEF u
  <2> QED BY <2>11, RaiseIsFine
<1> HIDE DEF v
<1>2. Fine(s, Writing(s, v))
  BY <1>1, WritingFine
<1> QED BY <1>2 DEF FinishResponse, v, u, t, batch, after, m, complete, r

LEMMA CancelBatch ==
  ASSUME NEW s, Sound(s), CanWrite(s), NEW reason \in WriterCancelReason
  PROVE  CancelMessages(s, reason) \in Hushing(s.data)
<1> DEFINE c == Current(s).id
           id == s.writer.response
<1>1. /\ c # 0 /\ c \in Ids /\ id \in Ids /\ id = Current(s).response_id
      /\ id = Speaker(s.data)
  BY WritingIs
<1>2. CASE reason = "shutdown"
  <2> DEFINE p == ResponseCancelled(c, id, reason)
             q == ConversationEnded(c, "cancelled")
  <2>1. "shutdown" \in ResponseCancelReason /\ "cancelled" \in ConversationEndReason
    BY DEF ResponseCancelReason, ConversationEndReason
  <2>2. p \in Silencers /\ Stills(s.data, p) /\ q \in Quiets
    BY <1>1, <1>2, <2>1, MadeSilencers, MadeQuiets
  <2>3. CancelMessages(s, reason) = <<p, q>>
    BY <1>2 DEF CancelMessages
  <2> HIDE DEF p, q
  <2>4. /\ <<p, q>> \in Seq(Quiets \cup Silencers) /\ <<p, q>>[1] = p
        /\ 1 \in 1..Len(<<p, q>>)
    BY <2>2
  <2>5. <<p, q>> \in Hushing(s.data)
    BY <2>2, <2>4 DEF Hushing, Hushes
  <2> QED BY <2>3, <2>5
<1>3. CASE reason # "shutdown"
  <2> DEFINE after == IF WriterResponse(s).end_conversation THEN <<>>
                      ELSE NextState(s, "waiting")
  <2>1. ErrorCodeOf(reason) \in ResponseErrorCode /\ "waiting" \in CoarseState
    BY <1>3 DEF WriterCancelReason, ErrorCodeOf, ResponseErrorCode, CoarseState
  <2>2. after \in Batches
    BY <1>1, <2>1, NextStateBatch, BatchesAre
  <2>3. CancelMessages(s, reason) = <<Error("response", ErrorCodeOf(reason), c, 0, id)>> \o after
    BY <1>3 DEF CancelMessages
  <2> HIDE DEF after
  <2>4. <<Error("response", ErrorCodeOf(reason), c, 0, Current(s).response_id)>> \o after
          \in Hushing(s.data)
    BY <1>1, <2>1, <2>2, ResponseErrorHushes
  <2> QED BY <1>1, <2>3, <2>4
<1> QED BY <1>2, <1>3

LEMMA CancelWriterFine ==
  ASSUME NEW s, Sound(s), NEW reason \in WriterCancelReason
  PROVE  Fine(s, CancelWriter(s, reason))
<1> DEFINE batch == CancelMessages(s, reason)
           u == DiscardOutput(s)
           t == EnqueueControl(u, batch)
           w == ResponseTerminated(t, FALSE)
           v == IF reason = "overflow" /\ ~ HasOutput(WriterResponse(s))
                THEN Raise(s, "violation") ELSE w
           d == s.data
           e == Transition(d, batch).data
           o == s.writer.output
<1>1. ASSUME CanWrite(s) PROVE Fine(s, v)
  <2>1. batch \in Hushing(d) /\ Whole(d)
    BY <1>1, CancelBatch DEF Sound
  <2> HIDE DEF batch
  <2>2. Transition(d, batch).ok => Leads(d, e) /\ Speaker(e) = 0
    BY <2>1, HushBatch DEF Hushing
  <2>3. Fine(s, u) /\ Sound(u) /\ u.data = d /\ u.code = s.code
    BY DiscardOutputFine, FineSound DEF DiscardOutput, Sound, SessionFields
  <2>4. Held(s) => Queued(d, u.queue, 0) /\ Free(u.queue, o)
    <3>1. \A b : Decent(d, b, 0) => Decent(d, b, o)
      BY DEF Decent
    <3>2. Held(s) => Queued(d, s.queue, o)
      BY <3>1 DEF Held, Queued
    <3> QED BY <3>2, DiscardOutputIs DEF Sound
  <2> HIDE DEF u
  <2>5. (Raised(t) /\ Fine(u, t)) \/ Reached(u, t, batch)
    BY <2>2, <2>3, EnqueueControlIs DEF Leads
  <2> HIDE DEF t
  <2>6. ASSUME Reached(u, t, batch) PROVE Ceased(s, t)
    <3>1. /\ Sound(t) /\ Timed(t) /\ t.data = e /\ s.code = NoCode /\ t.code = NoCode
          /\ ~ Raised(t) /\ Leads(d, e) /\ Speaker(e) = 0
          /\ \A f, p : Queued(f, u.queue, p) => Queued(f, t.queue, p)
      BY <2>2, <2>3, <2>6 DEF Reached
    <3> HIDE DEF e
    <3>2. Tame(s) => Tame(t)
      BY <3>1 DEF Tame, Current, Leads, Calm
    <3>3. ASSUME Held(s)
          PROVE  Queued(t.data, t.queue, 0) /\ t.data.connection_state # "closing"
      <4>1. o = OutputOf(d, Speaker(d))
        BY <3>1, <3>3 DEF Held
      <4>2. Queued(e, u.queue, o)
        BY <2>1, <2>4, <3>1, <3>3, <4>1, QueuedLeads
      <4>3. Queued(e, u.queue, 0)
        BY <2>4, <3>3, <4>2, QueuedFree
      <4> QED BY <3>1, <3>3, <4>3 DEF Held, Leads
    <3> QED BY <3>1, <3>2, <3>3 DEF Ceased
  <2>7. Raised(t) /\ Fine(u, t) => Ceased(s, t)
    BY <2>3, FineTrans DEF Ceased
  <2>8. Fine(s, w)
    BY <2>5, <2>6, <2>7, ThenCeased
  <2> HIDE DEF w
  <2> QED BY <2>8, RaiseIsFine
<1> HIDE DEF v
<1>2. Fine(s, Writing(s, v))
  BY <1>1, WritingFine
<1> QED BY <1>2 DEF CancelWriter, v, w, t, u, batch

-----------------------------------------------------------------------------
(* PCM of the response.                                                    *)

LEMMA ChunkSizes ==
  ASSUME NEW frames \in Positive, NEW size \in Positive,
         NEW k \in 1..((frames + size - 1) \div size)
  PROVE  /\ (k - 1) * size \in Nat
         /\ frames - (k - 1) * size \in Positive
<1> DEFINE all == frames + size - 1
           count == all \div size
<1>1. all \in Nat /\ size \in Nat /\ size > 0
  BY DEF Positive
<1>2. count \in Nat /\ count * size <= all
  BY <1>1
<1>3. k \in Nat /\ k >= 1 /\ k <= count
  BY <1>2
<1> HIDE DEF count
<1>4. k * size <= count * size
  BY <1>1, <1>2, <1>3
<1>5. (k - 1) * size = k * size - size /\ (k - 1) * size \in Nat
  BY <1>1, <1>3
<1> QED BY <1>1, <1>2, <1>4, <1>5 DEF Positive

LEMMA ChunksTyped ==
  ASSUME NEW s, Sound(s), CanWriteOutput(s), NEW frames \in Positive
  PROVE  Chunks(s, frames) \in Seq(AudioOf(s.writer.response))
<1> DEFINE from == WriterResponse(s).output.received
           count == (frames + MaxOutputAudioFrames - 1) \div MaxOutputAudioFrames
           left(k) == frames - (k - 1) * MaxOutputAudioFrames
           size(k) == IF left(k) < MaxOutputAudioFrames THEN left(k) ELSE MaxOutputAudioFrames
           chunk(k) == [type |-> "output.audio", conversation_id |-> Current(s).id,
                        response_id |-> s.writer.response, output_id |-> s.writer.output,
                        start_frame |-> from + (k - 1) * MaxOutputAudioFrames,
                        frames |-> size(k)]
<1>1. /\ Current(s).id \in Ids /\ s.writer.response \in Ids
      /\ WriterResponse(s) \in Responses
  BY WritingIs DEF CanWriteOutput
<1>2. WriterResponse(s).output \in Outputs
  BY <1>1 DEF Responses
<1>3. s.writer.output \in Ids /\ from \in Nat
  <2>1. /\ s.writer.output # 0 /\ WriterResponse(s).output.id = s.writer.output
    BY DEF CanWriteOutput, WriterResponse
  <2> QED BY <1>2, <2>1, NoneIds DEF Outputs
<1>4. MaxOutputAudioFrames \in Positive
  BY ProtocolAssumption DEF Positive
<1>5. count \in Nat
  <2>1. /\ frames + MaxOutputAudioFrames - 1 \in Nat
        /\ MaxOutputAudioFrames \in Nat /\ MaxOutputAudioFrames > 0
    BY <1>4 DEF Positive
  <2> QED BY <2>1
<1>6. ASSUME NEW k \in 1..count PROVE chunk(k) \in AudioOf(s.writer.response)
  <2> DEFINE before == (k - 1) * MaxOutputAudioFrames
  <2>1. before \in Nat /\ left(k) \in Positive
    BY <1>4, ChunkSizes
  <2>2. size(k) \in Positive
    BY <1>4, <2>1
  <2> HIDE DEF size, before
  <2>3. from + before \in Nat
    BY <1>3, <2>1
  <2> HIDE DEF from
  <2>4. [type |-> "output.audio", conversation_id |-> Current(s).id,
         response_id |-> s.writer.response, output_id |-> s.writer.output,
         start_frame |-> from + before, frames |-> size(k)] \in AudioOf(s.writer.response)
    BY <1>1, <1>3, <2>2, <2>3 DEF AnyOutputAudios, AudioOf
  <2> QED BY <2>4 DEF before
<1>7. Chunks(s, frames) = [k \in 1..count |-> chunk(k)]
  BY DEF Chunks
<1> HIDE DEF chunk, count
<1>8. [k \in 1..count |-> chunk(k)] \in [1..count -> AudioOf(s.writer.response)]
  BY <1>6
<1> QED BY <1>5, <1>7, <1>8


(* The response is the speaker, the batch is tagged with its output, and   *)
(* the timer has nothing to follow.                                        *)
LEMMA AudioFine ==
  ASSUME NEW s, NEW t, Sound(s), CanWriteOutput(s),
         NEW messages \in Seq(AudioOf(s.writer.response)), messages # <<>>,
         Enqueued(s, t, messages, "data", s.writer.output)
  PROVE  Fine(s, t)
<1> DEFINE d == s.data
           u == Transition(d, messages)
           r == s.writer.response
           o == s.writer.output
<1>1. PICK weight : t.queue = Append(s.queue, [frames |-> u.wire, lane |-> "data",
                                                weight |-> weight, tag |-> o])
  BY DEF Enqueued
<1> DEFINE b == [frames |-> u.wire, lane |-> "data", weight |-> weight, tag |-> o]
<1>2. /\ Sound(t) /\ t.data = u.data /\ u.ok /\ Whole(d)
      /\ t.key = s.key /\ t.code = s.code /\ t.writer = s.writer
  BY DEF Enqueued, SameBut, Sound
<1>3. /\ Leads(d, u.data) /\ Same(d, u.data)
      /\ u.data.conversation = d.conversation /\ u.data.inputs = d.inputs
      /\ u.data.connection_state = d.connection_state
  BY <1>2, AudioKeepsPhase
<1>4. u.wire \in Seq(AudioOf(r)) /\ u.wire # <<>>
  BY <1>2, AudioWire
<1>5. r \in Ids /\ r = Speaker(d) /\ o # 0 /\ d.responses[r].output.id = o
  BY WritingIs DEF CanWriteOutput, WriterResponse
<1>6. Head(u.wire).response_id = r
  <2> HIDE DEF u, r
  <2>1. Head(u.wire) \in AudioOf(r)
    BY <1>4
  <2> QED BY <2>1 DEF AudioOf
<1> HIDE DEF u
<1>7. Speaker(u.data) = Speaker(d) /\ Speaker(t.data) = Speaker(d)
  BY <1>2, <1>3 DEF Same
<1>8. Decent(u.data, b, 0)
  <2>1. u.data.responses[r].output.id = o
    BY <1>3, <1>5, NoneIds DEF Leads, Kept, ResponseKept
  <2>2. ~ Loose(u.data, r)
    <3>1. Whole(u.data)
      BY <1>2 DEF Sound
    <3>2. Speaker(u.data) = r /\ r # 0
      BY <1>5, <1>7, NoneIds
    <3> QED BY <3>1, <3>2, SpeakerIs DEF Loose, IsCancelled, ResponseCancelReason
  <2> HIDE DEF r
  <2> QED BY <1>5, <1>6, <2>1, <2>2, SMTT(30) DEF Decent
<1>9. ASSUME Held(s) PROVE Held(t)
  <2>1. Queued(d, s.queue, 0)
    BY <1>9 DEF Held
  <2>2. Queued(u.data, s.queue, 0)
    BY <1>2, <1>3, <1>7, <2>1, QueuedSpeaks
  <2>3. Queued(t.data, t.queue, 0)
    BY <1>1, <1>2, <1>8, <2>2, QueuedAppend
  <2> HIDE DEF b
  <2>4. t.code = NoCode => OutputOf(t.data, r) = OutputOf(d, r)
    BY <1>2, <1>3, <1>5, <1>7 DEF Same
  <2> QED BY <1>2, <1>3, <1>5, <1>7, <1>9, <2>3, <2>4 DEF Held
<1>10. Tame(s) => Tame(t)
  BY <1>2, <1>3 DEF Tame, Current
<1>11. Timed(s) => Timed(t)
  <2>1. Phase(t) = Phase(s)
    BY <1>2, <1>3 DEF Phase, Current
  <2> QED BY <1>2, <2>1 DEF Timed
<1> QED BY <1>2, <1>9, <1>10, <1>11 DEF Fine, Firm

LEMMA SendAudioFine ==
  ASSUME NEW s, Sound(s), NEW frames, CanWriteOutput(s) => frames \in Positive
  PROVE  Fine(s, SendAudio(s, frames))
<1> DEFINE chunks == Chunks(s, frames)
           sent == EnqueueBatch(s, chunks, "data", frames, s.writer.output)
           cancelled == CancelWriter(DiscardOutput(s), "overflow")
           v == IF sent.raised = "overflow" THEN cancelled ELSE sent
<1>1. Fine(s, cancelled)
  <2> DEFINE u == DiscardOutput(s)
  <2>1. Fine(s, u) /\ "overflow" \in WriterCancelReason
    BY DiscardOutputFine DEF WriterCancelReason
  <2> HIDE DEF u
  <2>2. Fine(u, CancelWriter(u, "overflow"))
    BY <2>1, FineSound, CancelWriterFine
  <2>3. Fine(s, CancelWriter(u, "overflow"))
    BY <2>1, <2>2, FineTrans
  <2> QED BY <2>3 DEF u
<1>2. ASSUME CanWriteOutput(s) PROVE Fine(s, sent)
  <2>1. chunks \in Seq(AudioOf(s.writer.response))
    BY <1>2, ChunksTyped
  <2>2. ASSUME chunks = <<>> PROVE Raised(sent) \/ ~ Enqueued(s, sent, chunks, "data", s.writer.output)
    BY <2>2 DEF EnqueueBatch, Raise, Raised, Sound, SessionFields, Enqueued
  <2> HIDE DEF chunks
  <2>3. Transition(s.data, chunks).ok => Whole(Transition(s.data, chunks).data)
    BY <2>1, AudioKeepsPhase DEF Sound, Leads
  <2>4. (Raised(sent) /\ Alike(s, sent)) \/ Enqueued(s, sent, chunks, "data", s.writer.output)
    BY <2>3, EnqueueBatchIs
  <2> HIDE DEF sent
  <2>5. CASE Raised(sent) /\ Alike(s, sent)
    BY <2>5, AlikeFine
  <2>6. CASE Enqueued(s, sent, chunks, "data", s.writer.output)
    <3>1. chunks # <<>>
      BY <2>2, <2>6 DEF Enqueued
    <3> QED BY <1>2, <2>1, <2>6, <3>1, AudioFine
  <2> QED BY <2>4, <2>5, <2>6
<1> HIDE DEF cancelled, sent
<1>3. CanWriteOutput(s) => Fine(s, v)
  BY <1>1, <1>2
<1> HIDE DEF v
<1>4. Fine(s, WritingOutput(s, v))
  BY <1>3, WritingOutputFine
<1> QED BY <1>4 DEF SendAudio, v, sent, cancelled, chunks

LEMMA FinishOutputFine ==
  ASSUME NEW s, Sound(s)
  PROVE  Fine(s, FinishOutput(s))
<1> DEFINE received == WriterResponse(s).output.received
           m == [type |-> "output.end", conversation_id |-> Current(s).id,
                 response_id |-> s.writer.response, output_id |-> s.writer.output,
                 total_frames |-> received]
           t == EnqueueControl(s, <<m>>)
           u == [t EXCEPT !.writer.open = FALSE]
           v == IF received = 0 \/ Raised(t) THEN Raise(t, "violation") ELSE u
<1>1. ASSUME CanWriteOutput(s) PROVE Fine(s, v)
  <2>1. /\ Current(s).id \in Ids /\ s.writer.response \in Ids
        /\ WriterResponse(s) \in Responses
    BY <1>1, WritingIs DEF CanWriteOutput
  <2>2. s.writer.output # 0 /\ WriterResponse(s).output.id = s.writer.output
    BY <1>1 DEF CanWriteOutput, WriterResponse
  <2>3. s.writer.output \in Ids /\ received \in Nat
    BY <2>1, <2>2, NoneIds DEF Responses, Outputs
  <2> HIDE DEF received
  <2>4. m \in AnyOutputEnds
    BY <2>1, <2>3 DEF AnyOutputEnds
  <2> HIDE DEF m
  <2>5. <<m>> \in Batches
    BY <2>4, BatchesAre DEF Quiets
  <2>6. Fine(s, t)
    BY <2>5, EnqueueFine
  <2> HIDE DEF t
  <2>7. Fine(t, u)
    BY <2>6, FineSound, OpenFine
  <2> HIDE DEF u
  <2>8. Fine(s, u) /\ Fine(s, Raise(t, "violation"))
    BY <2>6, <2>7, FineTrans, ThenRaise
  <2> QED BY <2>8
<1> HIDE DEF v
<1>2. Fine(s, WritingOutput(s, v))
  BY <1>1, WritingOutputFine
<1> QED BY <1>2 DEF FinishOutput, v, u, t, m, received

-----------------------------------------------------------------------------
(* The session's hook.  Whatever timer it leaves behind, a Sync follows.   *)

(* A playback that finished leaves the response it names in its            *)
(* conversation.                                                           *)
LEMMA FinishedKnown ==
  ASSUME NEW d, Whole(d), NEW m \in AnyPlaybackFinishes, Accepts(d, m)
  PROVE  After(d, m).responses[m.response_id].conversation_id \in Ids
<1> DEFINE id == m.response_id
           r == d.responses[id]
<1>1. /\ m.type = "playback.finished" /\ id \in Ids /\ m.conversation_id \in Ids
      /\ m.played_frames \in Nat
  BY DEF AnyPlaybackFinishes
<1>2. d.connection_state = "ready" /\ CanAcceptPlaybackOutcome(d, m)
  BY <1>1 DEF Accepts, CanAcceptHello, CanHandle
<1>3. After(d, m) = AfterPlaybackOutcome(d, m)
  BY <1>1, <1>2 DEF After
<1>4. r \in Responses /\ d \in Data /\ r.conversation_id \in Ids
  BY <1>1, <1>2, Parts DEF Whole, Good, CanAcceptPlaybackOutcome, KnownOutput, KnownResponse
<1> DEFINE p == PlaybackOf(m)
           x == [r EXCEPT !.playback = p]
           e == WithPlayback(d, m)
<1>5. x \in Responses /\ x.conversation_id = r.conversation_id
  <2>1. p \in Playbacks
    BY <1>1 DEF PlaybackOf, Playbacks
  <2> HIDE DEF p
  <2> QED BY <1>4, <2>1 DEF Responses
<1>6. e \in Data /\ e.responses[id].conversation_id \in Ids
  <2>1. e = WithResponse(d, id, x)
    BY DEF WithPlayback
  <2> HIDE DEF x, e
  <2>2. e \in Data /\ e.responses = [d.responses EXCEPT ![id] = x]
    BY <1>1, <1>4, <1>5, <2>1, WithResponseParts
  <2>3. DOMAIN d.responses = Ids
    BY <1>4, Parts
  <2> QED BY <1>1, <1>4, <1>5, <2>2, <2>3
<1> HIDE DEF e
<1>7. CompleteResponse(e, id).responses = e.responses
  BY <1>6 DEF CompleteResponse, WithTombstone, WithConversation, Data
<1>8. After(d, m) \in {d, e, CompleteResponse(e, id)}
  BY <1>1, <1>3, SMTT(30) DEF AfterPlaybackOutcome, e
<1> QED BY <1>4, <1>6, <1>7, <1>8

LEMMA CompletePlaybackFine ==
  ASSUME NEW s, Sound(s), NEW m \in FromClient, NEW cancelled,
         m.type = "playback.finished" =>
           s.data.responses[m.response_id].conversation_id \in Ids
  PROVE  Fine(s, CompletePlayback(s, m, cancelled))
<1> DEFINE t == CompletePlayback(s, m, cancelled)
           r == s.data.responses[m.response_id]
           c == Current(s)
<1>1. CASE t = s
  BY <1>1, FineSelf
<1>2. CASE t = Raise(s, "violation")
  BY <1>2, RaiseIsFine
<1>3. CASE /\ m.type = "playback.finished"
           /\ r.end_conversation \/ c.id # 0
           /\ t = EnqueueControl(s, CompletedResponse(s, r))
  <2>1. m \in AnyPlaybackFinishes
    BY <1>3 DEF FromClient, AnyConversationStarts, AnyInputStarts, AnyInputAudios,
           AnyInputAborts, AnyPlaybackInterrupts, AnyConversationCancels
  <2>2. m.response_id \in Ids
    BY <2>1 DEF AnyPlaybackFinishes
  <2>3. r \in Responses /\ r.conversation_id \in Ids
    BY <1>3, <2>2, ConversationIs, Parts
  <2> HIDE DEF r, t
  <2>4. CompletedResponse(s, r) \in Batches
    BY <1>3, <2>3, CompletedBatch
  <2>5. Fine(s, EnqueueControl(s, CompletedResponse(s, r)))
    BY <2>4, EnqueueFine
  <2>6. Fine(s, t)
    BY <1>3, <2>5
  <2> QED BY <2>6 DEF t
<1>4. CASE /\ c.id # 0 /\ c.expected_end_reason # "none"
           /\ t = EnqueueControl(s, <<ConversationEnded(c.id, c.expected_end_reason)>>)
  <2>1. c.id \in Ids /\ c.expected_end_reason \in ConversationEndReason
    BY <1>4, ConversationIs DEF Conversations
  <2>2. <<ConversationEnded(c.id, c.expected_end_reason)>> \in Batches
    BY <2>1, MadeQuiets, BatchesAre
  <2>3. Fine(s, EnqueueControl(s, <<ConversationEnded(c.id, c.expected_end_reason)>>))
    BY <2>2, EnqueueFine
  <2> QED BY <1>4, <2>3
<1>5. CASE t = EnqueueState(s, "waiting")
  <2>1. "waiting" \in CoarseState
    BY DEF CoarseState
  <2>2. Fine(s, EnqueueState(s, "waiting"))
    BY <2>1, EnqueueStateFine
  <2> QED BY <1>5, <2>2
<1> QED BY <1>1, <1>2, <1>3, <1>4, <1>5 DEF CompletePlayback, IsPlayback

LEMMA OverflownFine ==
  ASSUME NEW s, Sound(s) PROVE Fine(s, Overflown(s)) /\ Overflown(s).code # NoCode
<1> DEFINE no == FALSE
           t == RequestClose(s, 1011, no)
           u == [t EXCEPT !.error = IF s.code = NoCode THEN "overflow" ELSE @]
<1>1. 1011 # NoCode
  BY DEF NoCode
<1> HIDE DEF no
<1>2. Fine(s, t) /\ t.code # NoCode
  BY <1>1, RequestCloseFine
<1> HIDE DEF t
<1>3. Alike(t, u) /\ u.code # NoCode
  BY <1>2 DEF Fine, Firm, Sound, Alike, SessionFields
<1> HIDE DEF u
<1>4. Fine(s, u)
  BY <1>2, <1>3, ThenAlike
<1>5. Overflown(s) = u
  BY DEF Overflown, u, t, no
<1> QED BY <1>3, <1>4, <1>5

LEMMA AudioIs ==
  ASSUME NEW m \in FromClient, IsAudio(m)
  PROVE  /\ m.input_id \in Ids /\ m.conversation_id \in Ids
         /\ m.start_frame \in Nat /\ m.frames \in Positive
<1>1. m \in AnyInputAudios
  BY DEF IsAudio, FromClient, AnyConversationStarts, AnyInputStarts, AnyPlaybackFinishes,
         AnyInputAborts, AnyPlaybackInterrupts, AnyConversationCancels
<1> QED BY <1>1 DEF AnyInputAudios

LEMMA SaturatedFine ==
  ASSUME NEW s, Sound(s), NEW m \in FromClient
  PROVE  Fine(s, Saturated(s, m)) /\ (IsAudio(m) \/ Saturated(s, m).code # NoCode)
<1> DEFINE failed == FailInput(s, m.input_id, "input_overflow")
           t == DiscardAudio(failed, m.input_id)
<1>1. ASSUME IsAudio(m), LiveConversation(s) PROVE Fine(s, t)
  <2>1. Current(s).id # 0 /\ m.input_id \in Ids /\ "input_overflow" \in InputErrorCode
    BY <1>1, LiveIsOpen, AudioIs DEF InputErrorCode
  <2>2. Fine(s, failed)
    BY <2>1, FailInputFine
  <2> HIDE DEF failed
  <2> QED BY <2>2, FineSound, DiscardAudioAlike, ThenAlike
<1> HIDE DEF t
<1>2. /\ Fine(s, Overflown(s)) /\ Overflown(s).code # NoCode
      /\ Fine(s, Raise(s, "violation")) /\ Fine(s, s)
  BY OverflownFine, RaiseIsFine, FineSelf
<1> QED BY <1>1, <1>2 DEF Saturated, t, failed

LEMMA OfferFine ==
  ASSUME NEW s, Sound(s), NEW m \in FromClient, NEW dispatch
  PROVE  LET t == Offer(s, m, dispatch) IN
         Fine(s, t) /\ (IsAudio(m) \/ t.data = s.data \/ t.code # NoCode)
<1> DEFINE t == [s EXCEPT !.events = Append(@, m)]
<1>1. Alike(s, t)
  <2>1. Append(s.events, m) \in Seq(FromClient)
    BY DEF Sound
  <2> DEFINE q == Append(s.events, m)
  <2>2. q \in Seq(FromClient) /\ t = [s EXCEPT !.events = q]
    BY <2>1
  <2> HIDE DEF q, t
  <2> QED BY <2>2 DEF Sound, SessionFields, Alike
<1> HIDE DEF t
<1>2. Fine(s, t) /\ t.data = s.data /\ Fine(s, s)
  BY <1>1, AlikeFine, FineSelf DEF Alike
<1>3. Offer(s, m, dispatch) \in {s, t, Saturated(s, m)}
  BY DEF Offer, t
<1> QED BY <1>2, <1>3, SaturatedFine

LEMMA FromClientIs == \A m \in FromClient : m.conversation_id \in Ids
BY DEF FromClient, AnyConversationStarts, AnyInputStarts, AnyInputAudios, AnyInputAborts,
       AnyPlaybackFinishes, AnyPlaybackInterrupts, AnyConversationCancels

LEMMA PairOf ==
  ASSUME NEW p, NEW q
  PROVE  \A w : w = <<p>> \o <<q>> => Len(w) = 2 /\ w[1] = p /\ w[2] = q
OBVIOUS

(* The conversation that the peer cancelled is over, whichever of the two  *)
(* messages its end takes.                                                 *)
LEMMA CancelledEnds ==
  ASSUME NEW d, Whole(d), NEW c \in Ids, d.conversation.id = c,
         NEW terminals \in {<<>>} \cup {<<m>> : m \in AnyResponseCancels},
         NEW messages, messages = terminals \o <<ConversationEnded(c, "cancelled")>>,
         Transition(d, messages).ok
  PROVE  Transition(d, messages).data.conversation.cancel = "none"
<1> DEFINE end == ConversationEnded(c, "cancelled")
           V == {f \in Data : Whole(f) /\ f.conversation.id = c}
           Z == {f \in Data : f.conversation = NoConversation}
           N == Len(messages)
           W == [k \in 0..N |-> IF k = N THEN Z ELSE V]
<1>1. end \in AnyConversationEnds
  BY DEF ConversationEnded, AnyConversationEnds, ConversationEndReason
<1>2. ASSUME NEW f \in V, Accepts(f, end) PROVE After(f, end) \in Z
  <2>1. /\ Whole(f) /\ Past(f) /\ f.conversation.id = c /\ end.conversation_id = c
    BY <1>2, Handled DEF ConversationEnded
  <2>2. f.ended_conversations[c] = "none"
    BY <2>1 DEF Past
  <2>3. Steps(f, After(f, end)) /\ After(f, end).conversation = NoConversation
    <3> HIDE DEF end
    <3> QED BY <1>1, <1>2, <2>1, <2>2, TurnMessage
  <2> HIDE DEF end
  <2> QED BY <2>3 DEF Steps, Whole, Good
<1>3. ASSUME NEW f \in V, NEW m \in AnyResponseCancels, Accepts(f, m) PROVE After(f, m) \in V
  BY <1>3, ResponseCancelSilences DEF Steps, Whole, Good
<1>4. d \in V
  BY DEF Whole, Good
<1> HIDE DEF V, Z, end
<1>5. Transition(d, messages).data \in Z
  <2>1. CASE terminals = <<>>
    <3>1. messages = <<end>>
      BY <2>1 DEF end
    <3>2. N = 1 /\ messages[1] = end /\ Len(messages) \in Nat
      BY <3>1
    <3> HIDE DEF N
    <3>3. W[0] = V /\ W[1] = Z
      BY <3>2
    <3> HIDE DEF W
    <3>4. \A k \in 1..N : \A e \in W[k - 1] :
            Accepts(e, messages[k]) => After(e, messages[k]) \in W[k]
      <4>1. \A k \in 1..N : k = 1 /\ k - 1 = 0
        BY <3>2
      <4> QED BY <1>2, <3>2, <3>3, <4>1
    <3>5. Transition(d, messages).data \in W[N]
      BY <1>4, <3>2, <3>3, <3>4, TransitionReaches DEF N
    <3> QED BY <3>2, <3>3, <3>5
  <2>2. ASSUME NEW m \in AnyResponseCancels, terminals = <<m>>
        PROVE  Transition(d, messages).data \in Z
    <3>1. messages = <<m>> \o <<end>>
      BY <2>2 DEF end
    <3>2. N = 2 /\ messages[1] = m /\ messages[2] = end /\ Len(messages) \in Nat
      <4>1. Len(messages) = 2 /\ messages[1] = m /\ messages[2] = end
        BY ONLY <3>1, PairOf
      <4> QED BY <4>1
    <3> HIDE DEF N
    <3>3. W[0] = V /\ W[1] = V /\ W[2] = Z
      BY <3>2
    <3> HIDE DEF W
    <3>4. \A k \in 1..N : \A e \in W[k - 1] :
            Accepts(e, messages[k]) => After(e, messages[k]) \in W[k]
      <4>1. ASSUME NEW e \in W[0], Accepts(e, messages[1]) PROVE After(e, messages[1]) \in W[1]
        BY <1>3, <3>2, <3>3, <4>1
      <4>2. ASSUME NEW e \in W[1], Accepts(e, messages[2]) PROVE After(e, messages[2]) \in W[2]
        BY <1>2, <3>2, <3>3, <4>2
      <4>3. \A k \in 1..N : (k = 1 /\ k - 1 = 0) \/ (k = 2 /\ k - 1 = 1)
        BY <3>2
      <4> QED BY <4>1, <4>2, <4>3
    <3>5. Transition(d, messages).data \in W[N]
      BY <1>4, <3>2, <3>3, <3>4, TransitionReaches DEF N
    <3> QED BY <3>2, <3>3, <3>5
  <2> QED BY <2>1, <2>2
<1> QED BY <1>5 DEF Z, NoConversation

LEMMA EndCancelledFine ==
  ASSUME NEW s, Sound(s), NEW m \in FromClient
  PROVE  LET t == EndCancelled(s, m) IN
         /\ Fine(s, t)
         /\ s.data.conversation.id = m.conversation_id /\ ~ Raised(t) => Tame(t)
<1> DEFINE terminals == ResponseTerminals(s, "conversation_cancelled")
           batch == terminals \o <<ConversationEnded(m.conversation_id, "cancelled")>>
           t == EnqueueControl(s, batch)
           u == ResponseTerminated(t, TRUE)
<1>1. m.conversation_id \in Ids /\ "cancelled" \in ConversationEndReason
      /\ "conversation_cancelled" \in ResponseCancelReason
  BY FromClientIs DEF ConversationEndReason, ResponseCancelReason
<1>2. terminals \in Hushing(s.data)
  BY <1>1, ResponseTerminalsHush
<1>3. <<ConversationEnded(m.conversation_id, "cancelled")>> \in Batches
  BY <1>1, MadeQuiets, BatchesAre
<1>4. terminals \in {<<>>} \cup {<<p>> : p \in AnyResponseCancels}
  <2>1. CASE Current(s).response_id = 0
    BY <2>1 DEF ResponseTerminals
  <2>2. CASE Current(s).response_id # 0
    <3>1. Current(s).id \in Ids /\ Current(s).response_id \in Ids
      BY <2>2, ConversationIs, ResponseIsOpen
    <3> DEFINE p == ResponseCancelled(Current(s).id, Current(s).response_id,
                                      "conversation_cancelled")
    <3>2. p \in AnyResponseCancels
      BY <1>1, <3>1 DEF ResponseCancelled, AnyResponseCancels
    <3>3. terminals = <<p>>
      BY <2>2 DEF ResponseTerminals
    <3> HIDE DEF p, terminals
    <3> QED BY <3>2, <3>3
  <2> QED BY <2>1, <2>2
<1>5. EndCancelled(s, m) = u
  BY DEF EndCancelled
<1> HIDE DEF terminals
<1>6. batch \in Hushing(s.data)
  BY <1>2, <1>3, HushingAre
<1>7. ASSUME s.data.conversation.id = m.conversation_id, Transition(s.data, batch).ok
      PROVE  Transition(s.data, batch).data.conversation.cancel = "none"
  <2> DEFINE c == m.conversation_id
  <2>1. Whole(s.data) /\ c \in Ids /\ s.data.conversation.id = c
        /\ batch = terminals \o <<ConversationEnded(c, "cancelled")>>
    BY <1>1, <1>7 DEF Sound
  <2> HIDE DEF c, batch
  <2> QED BY <1>4, <1>7, <2>1, CancelledEnds
<1> HIDE DEF batch
<1>8. Silent(s, t)
  BY <1>6, EnqueueSilent
<1>9. ASSUME s.data.conversation.id = m.conversation_id, ~ Raised(t)
      PROVE  t.data.conversation.cancel = "none"
  <2>1. Transition(s.data, batch).ok => Whole(Transition(s.data, batch).data)
    BY <1>6, HushBatch DEF Hushing, Sound, Leads
  <2>2. Reached(s, t, batch)
    BY <1>9, <2>1, EnqueueControlIs
  <2> QED BY <1>7, <1>9, <2>2 DEF Reached
<1> HIDE DEF t
<1>10. Fine(s, u) /\ (Raised(t) => u = t)
  <2>1. Fine(s, u)
    BY <1>8, ThenTerminated
  <2>2. Raised(t) => u = t
    BY DEF ResponseTerminated
  <2> QED BY <2>1, <2>2
<1>11. ~ Raised(t) => u.data = t.data
  BY <1>8, PendingTerminated DEF Silent
<1> HIDE DEF u
<1>12. ASSUME s.data.conversation.id = m.conversation_id, ~ Raised(u) PROVE Tame(u)
  BY <1>9, <1>10, <1>11, <1>12 DEF Tame, Current
<1> QED BY <1>5, <1>10, <1>12

LEMMA ReactFine ==
  ASSUME NEW s, Sound(s), NEW m \in FromClient, NEW dispatched, NEW answer
  PROVE  LET t == React(s, m, dispatched, answer) IN
         /\ Fine(s, t)
         /\ m.type = "conversation.cancel" /\ dispatched => t = EndCancelled(s, m)
<1>1. \A state \in CoarseState : Fine(s, EnqueueState(s, state))
  BY EnqueueStateFine
<1>2. {"listening", "processing", "waiting"} \subseteq CoarseState
  BY DEF CoarseState
<1>3. Fine(s, EnqueueState(MarkClosed(s, m.input_id), "waiting"))
  <2> DEFINE t == MarkClosed(s, m.input_id)
  <2>1. Fine(s, t)
    BY FineSelf, ThenMarked
  <2> HIDE DEF t
  <2>2. Fine(t, EnqueueState(t, "waiting"))
    BY <1>2, <2>1, FineSound, EnqueueStateFine
  <2>3. Fine(s, EnqueueState(t, "waiting"))
    BY <2>1, <2>2, FineTrans
  <2> QED BY <2>3 DEF t
<1>4. Fine(s, EndCancelled(s, m)) /\ Fine(s, s)
  BY EndCancelledFine, FineSelf
<1> QED BY <1>1, <1>2, <1>3, <1>4 DEF React

LEMMA HookFine ==
  ASSUME NEW s, Sound(s), NEW m \in FromClient, NEW dispatched, NEW cancelled, NEW answer,
         m.type = "playback.finished" =>
           s.data.responses[m.response_id].conversation_id \in Ids
  PROVE  LET t == Sync(React(Offer(CompletePlayback(s, m, cancelled), m, dispatched),
                             m, dispatched, answer))
         IN /\ Fine(s, t) /\ (~ Raised(t) => Timed(t))
            /\ /\ m.type = "conversation.cancel" /\ dispatched
               /\ s.data.conversation.id = m.conversation_id /\ ~ Raised(t)
               => Tame(t)
<1> DEFINE played == CompletePlayback(s, m, cancelled)
           offered == Offer(played, m, dispatched)
           reacted == React(offered, m, dispatched, answer)
           t == Sync(reacted)
<1>1. Fine(s, played) /\ (m.type = "conversation.cancel" => played = s)
  BY CompletePlaybackFine DEF CompletePlayback, IsPlayback
<1> HIDE DEF played
<1>2. /\ Fine(played, offered)
      /\ IsAudio(m) \/ offered.data = played.data \/ offered.code # NoCode
  BY <1>1, FineSound, OfferFine
<1> HIDE DEF offered
<1>3. /\ Fine(offered, reacted)
      /\ m.type = "conversation.cancel" /\ dispatched => reacted = EndCancelled(offered, m)
  BY <1>2, FineSound, ReactFine
<1> HIDE DEF reacted
<1>4. /\ Fine(reacted, t) /\ (~ Raised(reacted) => Timed(t)) /\ t.raised = reacted.raised
  BY <1>3, FineSound, SyncIs
<1> HIDE DEF t
<1>5. Fine(s, t)
  BY <1>1, <1>2, <1>3, <1>4, FineTrans
<1>6. ~ Raised(t) => Timed(t)
  BY <1>4 DEF Raised
<1>7. ASSUME m.type = "conversation.cancel", dispatched,
             s.data.conversation.id = m.conversation_id, ~ Raised(t)
      PROVE  Tame(t)
  <2>1. ~ IsAudio(m) /\ ~ Raised(reacted)
    BY <1>4, <1>7 DEF IsAudio, Raised
  <2>2. CASE offered.code # NoCode
    BY <1>3, <1>4, <2>2 DEF Fine, Firm, Tame
  <2>3. CASE offered.data = s.data
    <3>1. Tame(reacted)
      BY <1>2, <1>3, <1>7, <2>1, <2>3, FineSound, EndCancelledFine
    <3> QED BY <1>4, <3>1 DEF Fine, Firm
  <2> QED BY <1>1, <1>2, <1>7, <2>1, <2>2, <2>3
<1> QED BY <1>5, <1>6, <1>7 DEF t, reacted, offered, played

(* A guarded operation that leaves things right unless it raises is fine.  *)
LEMMA RequestFatalFine ==
  ASSUME NEW s, Sound(s)
  PROVE  LET t == RequestFatal(s) IN Fine(s, t) /\ t.raised = s.raised
<1> DEFINE b == [frames |-> <<Error("connection", "protocol_state", 0, 0, 0)>>,
                 lane |-> "control", weight |-> 1, tag |-> 0]
           t == [s EXCEPT !.sealed = TRUE, !.queue = <<b>>]
           u == IF s.sealed THEN s ELSE t
           yes == TRUE
<1>1. /\ Sound(t) /\ t.queue = <<b>> /\ t.writer = s.writer /\ t.data = s.data
      /\ t.raised = s.raised
  <2> HIDE DEF b
  <2> QED BY DEF Sound, SessionFields
<1>2. Queued(t.data, t.queue, 0)
  BY <1>1, QueuedOne
<1> HIDE DEF t
<1>3. Sound(u) /\ u.raised = s.raised
  BY <1>1
<1>4. Held(s) => DOMAIN u.writer = WriterFields /\ Queued(u.data, u.queue, 0)
  BY <1>1, <1>2 DEF Held
<1>5. RequestFatal(s) = RequestClose(u, 1002, yes)
  BY DEF RequestFatal, u, t, b
<1>6. 1002 # NoCode
  BY DEF NoCode
<1> HIDE DEF u, yes
<1> DEFINE w == RequestClose(u, 1002, yes)
<1>7. Fine(u, w) /\ w.code # NoCode /\ w.raised = u.raised
  BY <1>3, <1>6, RequestCloseFine
<1>8. Held(s) => DOMAIN w.writer = WriterFields /\ Queued(w.data, w.queue, 0)
  <2>1. w.writer = u.writer /\ w.queue = u.queue /\ w.data.responses = u.data.responses
    BY <1>3 DEF RequestClose, Sound, SessionFields, Whole, Good, Data, yes
  <2> HIDE DEF w
  <2> QED BY <1>4, <2>1, QueuedByResponses
<1> HIDE DEF w
<1>9. Fine(s, w)
  BY <1>7, <1>8, FineSound, FineClosed
<1> QED BY <1>3, <1>5, <1>7, <1>9 DEF w

LEMMA CancelKeeps ==
  ASSUME NEW d, Whole(d), NEW m \in FromClient, m.type = "conversation.cancel", Accepts(d, m)
  PROVE  LET e == After(d, m) IN
         /\ e.responses = d.responses /\ e.connection_state = d.connection_state
         /\ IF Dispatched(d, m) THEN e.conversation.id = m.conversation_id ELSE e = d
<1> DEFINE e == After(d, m)
           id == m.conversation_id
<1>1. m \in AnyConversationCancels
  BY DEF FromClient, AnyConversationStarts, AnyInputStarts, AnyInputAudios, AnyInputAborts,
         AnyPlaybackFinishes, AnyPlaybackInterrupts
<1>2. id \in Ids /\ m.reason # "none"
  BY <1>1 DEF AnyConversationCancels, ConversationCancelReason
<1>3. d.connection_state = "ready" /\ CanHandle(d, m) /\ d \in Data
  BY Handled
<1>4. CanCancelConversation(d, m) /\ e = AfterCancelConversation(d, m)
  BY <1>3 DEF CanHandle, After
<1>5. /\ e.responses = d.responses /\ e.connection_state = d.connection_state
      /\ e.conversation.id = d.conversation.id
  BY <1>3, <1>4, SMTT(30) DEF AfterCancelConversation, WithConversation, WithInput,
                              WithTombstone, Data, Conversations
<1>6. Role = "server" /\ m.type \in ClientTypes
  BY SessionAssumption DEF ClientTypes
<1>7. CASE Dispatched(d, m)
  <2>1. e # d
    BY <1>7, SMTT(30) DEF Dispatched, Discarded
  <2>2. d.cancelled_conversations[id] = "none"
    BY <1>4, <2>1 DEF AfterCancelConversation
  <2>3. d.conversation.id = id
    BY <1>2, <1>4, <2>2 DEF CanCancelConversation, Open
  <2> QED BY <1>5, <1>7, <2>3
<1>8. CASE ~ Dispatched(d, m)
  <2>1. Discarded(d, m)
    BY <1>3, <1>6, <1>8 DEF Dispatched
  <2>2. e = d
    BY <2>1 DEF Discarded, FailsPlayback
  <2> QED BY <1>5, <1>8, <2>2
<1> QED BY <1>7, <1>8

(* What the reader hands to the hook.                                      *)
Read(s, t, d) ==
  /\ Sound(t) /\ SameBut(s, t) /\ ~ Raised(t) /\ t.data = d
  /\ \A f, o : Queued(f, s.queue, o) => Queued(f, t.queue, o)

LEMMA ReadIs ==
  ASSUME NEW s, Sound(s), ~ Raised(s), NEW d, Whole(d), NEW answer, NEW t,
         t = IF answer = <<>> THEN [s EXCEPT !.data = d]
             ELSE Put(s, d, answer, "control", Len(answer), 0)
  PROVE  (Raised(t) /\ Alike(s, t)) \/ Read(s, t, d)
<1>1. CASE t = [s EXCEPT !.data = d]
  <2>1. /\ DOMAIN t = SessionFields /\ t.data = d /\ t.events = s.events
        /\ t.queue = s.queue /\ t.key = s.key /\ t.code = s.code /\ t.writer = s.writer
        /\ t.raised = s.raised
    BY <1>1 DEF Sound, SessionFields
  <2> QED BY <2>1 DEF Read, Sound, SameBut, Raised
<1>2. CASE t = Put(s, d, answer, "control", Len(answer), 0)
  <2> DEFINE w == Len(answer)
             b == [frames |-> answer, lane |-> "control", weight |-> w, tag |-> 0]
  <2> HIDE DEF w
  <2>0. t = Put(s, d, answer, "control", w, 0)
    BY <1>2 DEF w
  <2>1. \/ Raised(t) /\ Alike(s, t)
        \/ /\ t.data = d /\ t.queue = Append(s.queue, b) /\ Sound(t) /\ SameBut(s, t)
           /\ t.raised = s.raised
    BY ONLY <2>0, Sound(s), Whole(d), PutIs
  <2>2. b.lane # "data"
    OBVIOUS
  <2> HIDE DEF b
  <2> QED BY <2>1, <2>2, QueuedControl DEF Read, Raised
<1> QED BY <1>1, <1>2

LEMMA ClosedIs ==
  ASSUME NEW s, Sound(s), s.code = NoCode, NEW m \in FromClient, Accepts(s.data, m),
         NEW t, Read(s, t, After(s.data, m))
  PROVE  LET u == IF CancelsResponse(s.data, m) THEN ResponseTerminated(t, TRUE) ELSE t IN
         /\ Sound(u) /\ ~ Raised(u) /\ (Held(s) => Held(u))
         /\ u.data = t.data /\ u.code = NoCode
<1> DEFINE d == s.data
           e == After(d, m)
<1>1. /\ Whole(d) /\ Sound(t) /\ ~ Raised(t) /\ t.data = e
      /\ t.code = NoCode /\ t.writer = s.writer
      /\ \A f, o : Queued(f, s.queue, o) => Queued(f, t.queue, o)
  BY DEF Sound, Read, SameBut
<1>2. /\ Steps(d, e) /\ (Calm(d, e) \/ m.type = "conversation.cancel")
      /\ IF CancelsResponse(d, m) THEN Speaker(e) = 0 ELSE Same(d, e)
  BY <1>1, ClientMessage
<1>3. CancelsResponse(d, m) => m.type # "conversation.cancel"
  BY DEF CancelsResponse
<1>4. m.type = "conversation.cancel" =>
        e.responses = d.responses /\ e.connection_state = d.connection_state
  BY <1>1, CancelKeeps
<1> HIDE DEF e
<1>5. Calm(d, e) => Leads(d, e)
  BY <1>1, <1>2, StepLeads
<1>6. CASE CancelsResponse(d, m)
  <2>1. Leads(d, e) /\ Speaker(e) = 0
    BY <1>2, <1>3, <1>5, <1>6
  <2>2. Held(s) => Queued(e, t.queue, t.writer.output)
    <3>1. Held(s) => t.writer.output = OutputOf(d, Speaker(d)) /\ Queued(d, s.queue, 0)
      BY <1>1 DEF Held
    <3> QED BY <1>1, <2>1, <3>1, QueuedLeads
  <2>3. Pending(s, t)
    BY <1>1, <2>1, <2>2 DEF Pending, Held, Leads
  <2> DEFINE u == ResponseTerminated(t, TRUE)
  <2>4. /\ Sound(u) /\ (Held(s) => Held(u))
        /\ u.data = t.data /\ u.code = t.code /\ u.raised = t.raised
    BY <1>1, <2>3, PendingTerminated
  <2> HIDE DEF u
  <2>5. ~ Raised(u) /\ u.code = NoCode
    BY <1>1, <2>4 DEF Raised
  <2> QED BY <1>6, <2>4, <2>5 DEF u
<1>7. CASE ~ CancelsResponse(d, m)
  <2>1. Same(d, e)
    BY <1>2, <1>7
  <2>2. Held(s) => Queued(e, s.queue, 0)
    <3>1. CASE Calm(d, e)
      BY <1>1, <1>5, <2>1, <3>1, QueuedSpeaks DEF Held, Same
    <3>2. CASE m.type = "conversation.cancel"
      BY <1>4, <3>2, QueuedByResponses DEF Held
    <3> QED BY <1>2, <3>1, <3>2
  <2>3. e.connection_state = d.connection_state
    BY <1>2, <1>4, <1>5 DEF Leads
  <2>4. Held(s) => Held(t)
    <3>1. ASSUME Held(s) PROVE OutputOf(e, Speaker(d)) = OutputOf(d, Speaker(d))
                               /\ Speaker(e) = Speaker(d)
      BY <2>1 DEF Same
    <3> QED BY <1>1, <2>2, <2>3, <3>1 DEF Held
  <2> QED BY <1>1, <1>7, <2>4
<1> QED BY <1>6, <1>7

LEMMA ReceiveFine ==
  ASSUME NEW s, Sound(s), s.code = NoCode, ~ Raised(s), NEW m \in FromClient
  PROVE  Fine(s, Receive(s, m)) /\ ~ Raised(Receive(s, m))
<1> DEFINE d == s.data
           next == After(d, m)
           answer == Outbound(d, m)
           read == IF answer = <<>> THEN [s EXCEPT !.data = next]
                   ELSE Put(s, next, answer, "control", Len(answer), 0)
           accepted == AcceptInbound(read, d, m)
           cancelled == CancelsResponse(d, m)
           closed == IF cancelled THEN ResponseTerminated(read, TRUE) ELSE read
           dispatch == Dispatched(d, m) \/ (IsPlayback(m) /\ cancelled)
           hooked == Sync(React(Offer(CompletePlayback(closed, m, cancelled), m, dispatch),
                                m, dispatch, answer))
<1>1. CASE ~ Accepts(d, m)
  BY <1>1, RequestFatalFine DEF Receive, Raised
<1>2. CASE Accepts(d, m)
  <2>1. Whole(d) /\ Steps(d, next) /\ Whole(next) /\ (Calm(d, next) \/ m.type = "conversation.cancel")
    BY <1>2, ClientMessage DEF Sound, Steps
  <2>2. m.type = "playback.finished" => next.responses[m.response_id].conversation_id \in Ids
    <3>1. m.type = "playback.finished" => m \in AnyPlaybackFinishes
      BY DEF FromClient, AnyConversationStarts, AnyInputStarts, AnyInputAudios,
             AnyInputAborts, AnyPlaybackInterrupts, AnyConversationCancels
    <3> QED BY <1>2, <2>1, <3>1, FinishedKnown
  <2>3. (Raised(read) /\ Alike(s, read)) \/ Read(s, read, next)
    <3> HIDE DEF next, answer
    <3> QED BY <2>1, ReadIs
  <2>4. Receive(s, m) = Guarded(accepted)
    BY <1>2 DEF Receive
  <2>5. CASE Raised(read) /\ Alike(s, read)
    <3>1. accepted = read
      BY <2>5 DEF AcceptInbound
    <3> HIDE DEF accepted, read
    <3>2. Fine(s, read)
      BY <2>5, AlikeFine
    <3> QED BY <2>4, <3>1, <3>2, GuardedFine
  <2>6. CASE Read(s, read, next)
    <3>1. accepted = hooked
      BY <2>6 DEF AcceptInbound, Read
    <3>2. read.data = next
      BY <2>6 DEF Read
    <3> HIDE DEF read
    <3>3. /\ Sound(closed) /\ ~ Raised(closed) /\ (Held(s) => Held(closed))
          /\ closed.data = next /\ closed.code = NoCode
      BY <1>2, <2>6, <3>2, ClosedIs
    <3> HIDE DEF closed, answer
    <3>4. m.type = "playback.finished" =>
            closed.data.responses[m.response_id].conversation_id \in Ids
      BY <2>2, <3>3
    <3> HIDE DEF next, cancelled
    <3>5. /\ Fine(closed, hooked) /\ (~ Raised(hooked) => Timed(hooked))
          /\ /\ m.type = "conversation.cancel" /\ dispatch
             /\ closed.data.conversation.id = m.conversation_id /\ ~ Raised(hooked)
             => Tame(hooked)
      <4> HIDE DEF dispatch
      <4> QED BY <3>3, <3>4, HookFine
    <3>6. m.type = "conversation.cancel" =>
            IF Dispatched(d, m) THEN next.conversation.id = m.conversation_id ELSE next = d
      BY <1>2, <2>1, CancelKeeps DEF next
    <3>7. Dispatched(d, m) => dispatch
      OBVIOUS
    <3> HIDE DEF hooked, dispatch
    <3>8. ASSUME Tame(s), ~ Raised(hooked) PROVE Tame(hooked)
      <4>1. Calm(d, next) => Tame(closed)
        BY <3>3, <3>8 DEF Tame, Current, Calm
      <4>2. Tame(closed) => Tame(hooked)
        BY <3>5 DEF Fine, Firm
      <4>3. CASE m.type = "conversation.cancel" /\ Dispatched(d, m)
        BY <3>3, <3>5, <3>6, <3>7, <3>8, <4>3
      <4>4. CASE m.type = "conversation.cancel" /\ ~ Dispatched(d, m)
        BY <3>6, <4>1, <4>2, <4>4 DEF Calm
      <4> QED BY <2>1, <4>1, <4>2, <4>3, <4>4
    <3>9. Sound(hooked) /\ (Held(s) => Held(hooked))
      BY <3>3, <3>5 DEF Fine, Firm
    <3>10. Fine(s, Guarded(hooked)) /\ ~ Raised(Guarded(hooked))
      BY <3>5, <3>8, <3>9, GuardedSettles
    <3> QED BY <2>4, <3>1, <3>10
  <2> QED BY <2>3, <2>5, <2>6
<1> QED BY <1>1, <1>2

-----------------------------------------------------------------------------
(* The dispatcher.                                                         *)

LEMMA CommitLeads ==
  ASSUME NEW d, Whole(d), NEW id \in Ids, NEW end \in Nat, CanCommitInputAudio(d, id, end)
  PROVE  LET e == AfterCommitInputAudio(d, id, end) IN
         /\ Leads(d, e) /\ Same(d, e)
         /\ e.conversation = d.conversation /\ e.connection_state = d.connection_state
<1> DEFINE e == AfterCommitInputAudio(d, id, end)
<1>1. d \in Data /\ Good(d) /\ Ledger(d)
  BY DEF Whole, Good
<1>2. d.connection_state # "disconnected"
  <2>1. d.inputs[id] \in Inputs /\ d.inputs[id].conversation_id # 0
    BY <1>1, Parts DEF CanCommitInputAudio
  <2>2. d.inputs[id].conversation_id \in Ids
    BY <2>1, NoneIds DEF Inputs
  <2>3. d.inputs[id].conversation_id < d.conversation_ids
    BY <1>1 DEF Ledger, Past
  <2>4. d.conversation_ids # 1
    BY <2>2, <2>3 DEF Ids
  <2> QED BY <1>1, <2>4 DEF Ledger, Fresh
<1>3. Good(e) /\ Step(d, e)
  BY <1>1, CommitInputAudioGood, CommitInputAudioStep
<1>4. e.conversation = d.conversation /\ e.responses = d.responses
  BY <1>1 DEF AfterCommitInputAudio, Terminalize, WithCommitted, WithInput, WithTombstone, Data
<1> HIDE DEF e
<1>5. Steps(d, e)
  BY <1>2, <1>3, StepWhole
<1>6. Calm(d, e) /\ Same(d, e)
  BY <1>1, <1>4, InputsOnly
<1>7. Leads(d, e)
  BY <1>5, <1>6, StepLeads
<1> QED BY <1>4, <1>6, <1>7 DEF Leads, e

LEMMA LeadsFirm ==
  ASSUME NEW s, Sound(s), NEW t, Sound(t), t.code = s.code, t.writer = s.writer,
         Leads(s.data, t.data), Same(s.data, t.data),
         \A f : Queued(f, s.queue, 0) => Queued(f, t.queue, 0)
  PROVE  Firm(s, t)
<1> DEFINE d == s.data
           e == t.data
<1>1. Whole(d) /\ Speaker(e) = Speaker(d)
      /\ OutputOf(e, Speaker(d)) = OutputOf(d, Speaker(d))
      /\ e.connection_state = d.connection_state
  BY DEF Sound, Same, Leads
<1>2. Held(s) => Queued(e, t.queue, 0)
  BY <1>1, QueuedSpeaks DEF Held
<1>3. Tame(s) => Tame(t)
  BY DEF Tame, Current, Leads, Calm
<1>4. Held(s) => Held(t)
  BY <1>1, <1>2 DEF Held
<1> QED BY <1>3, <1>4 DEF Firm

(* It raises, it is right, or at least the timer follows.                  *)
LEMMA CommitFirm ==
  ASSUME NEW s, Sound(s), NEW m \in FromClient, IsAudio(m)
  PROVE  LET t == Commit(s, m) IN
         Firm(s, t) /\ (Timed(s) /\ ~ Raised(t) => Timed(t))
<1> DEFINE id == m.input_id
           end == m.start_frame + m.frames
           d == AfterCommitInputAudio(s.data, id, end)
           committed == [s EXCEPT !.data = d]
           following == Transition(committed.data, NextState(s, "processing"))
           wire == <<InputClosed(m.conversation_id, id, end, "max_duration")>> \o following.wire
           weight == Len(wire)
           put == Put(s, following.data, wire, "control", weight, 0)
           t == Commit(s, m)
<1>1. id \in Ids /\ end \in Nat /\ Whole(s.data)
  BY AudioIs DEF Positive, Sound
<1> HIDE DEF end, id
<1>2. CASE t = Raise(s, "violation")
  <2> HIDE DEF t
  <2> QED BY <1>2, RaiseIsFine DEF Fine, t
<1>0. ASSUME CanCommitInputAudio(s.data, id, end)
      PROVE  /\ Leads(s.data, d) /\ Same(s.data, d) /\ Whole(d)
             /\ d.conversation = s.data.conversation
             /\ d.connection_state = s.data.connection_state
  BY <1>0, <1>1, CommitLeads DEF Leads
<1>3. CASE /\ CanCommitInputAudio(s.data, id, end) /\ ~ ClosesAtLimit(s.data, id, end)
           /\ t = committed
  <2>1. d = WithCommitted(s.data, id, end)
    BY <1>3 DEF AfterCommitInputAudio
  <2>2. /\ d.conversation = s.data.conversation
        /\ d.connection_state = s.data.connection_state
        /\ \A i \in Ids : /\ d.inputs[i].terminal = s.data.inputs[i].terminal
                          /\ d.inputs[i].failure = s.data.inputs[i].failure
                          /\ d.inputs[i].response_id = s.data.inputs[i].response_id
    <3>1. s.data \in Data /\ s.data.inputs[id] \in Inputs
      BY <1>1, ConversationIs, Parts
    <3> DEFINE x == [s.data.inputs[id] EXCEPT !.committed = end]
    <3>2. /\ x \in Inputs /\ x.terminal = s.data.inputs[id].terminal
          /\ x.failure = s.data.inputs[id].failure
          /\ x.response_id = s.data.inputs[id].response_id
      BY <1>1, <3>1, InputFields DEF Inputs
    <3>3. d = WithInput(s.data, id, x)
      BY <2>1 DEF WithCommitted
    <3> HIDE DEF x, d
    <3>4. d.inputs = [s.data.inputs EXCEPT ![id] = x]
      BY <1>1, <3>1, <3>2, <3>3, WithInputParts
    <3>5. DOMAIN s.data.inputs = Ids
      BY <3>1, Parts
    <3> QED BY <1>0, <1>1, <1>3, <3>2, <3>4, <3>5
  <2>3. Leads(s.data, d) /\ Same(s.data, d) /\ Whole(d)
    BY <1>0, <1>3
  <2> HIDE DEF d
  <2>4. /\ DOMAIN committed = SessionFields /\ committed.data = d
        /\ committed.key = s.key /\ committed.code = s.code /\ committed.events = s.events
        /\ committed.queue = s.queue /\ committed.writer = s.writer
    BY DEF Sound, SessionFields
  <2> HIDE DEF committed
  <2>5. Phase(committed) = Phase(s)
    <3>1. Current(committed) = Current(s)
      BY <2>2, <2>4 DEF Current
    <3>2. Current(s).input_id # 0 => Current(s).input_id \in Ids
      BY ConversationIs
    <3> QED BY <2>2, <2>4, <3>1, <3>2 DEF Phase
  <2>6. Sound(committed)
    BY <2>3, <2>4 DEF Sound
  <2>7. Firm(s, committed)
    BY <2>3, <2>4, <2>6, LeadsFirm
  <2>8. Timed(s) => Timed(committed)
    BY <2>4, <2>5 DEF Timed
  <2> HIDE DEF t
  <2> QED BY <1>3, <2>7, <2>8 DEF t
<1>4. CASE /\ CanCommitInputAudio(s.data, id, end) /\ Current(s).id # 0 /\ following.ok
           /\ t = Sync(MarkClosed(put, id))
  <2>1. Leads(s.data, d) /\ Same(s.data, d) /\ Whole(d)
    BY <1>0, <1>4
  <2> HIDE DEF d
  <2>2. committed.data = d
    BY DEF Sound, SessionFields
  <2> DEFINE messages == NextState(s, "processing")
  <2>3. messages \in Seq(Quiets)
    BY <1>4, NextStateBatch DEF CoarseState, Batches
  <2> HIDE DEF messages
  <2>4. following = Transition(d, messages)
    BY <2>2 DEF messages
  <2> HIDE DEF following
  <2>5. Leads(d, following.data) /\ Same(d, following.data)
    BY <1>4, <2>1, <2>3, <2>4, QuietBatch
  <2>6. Leads(s.data, following.data) /\ Same(s.data, following.data) /\ Whole(following.data)
    BY <2>1, <2>5, SameLeads DEF Leads
  <2> HIDE DEF wire, weight
  <2>7. Firm(s, put)
    <3> DEFINE f == following.data
               b == [frames |-> wire, lane |-> "control", weight |-> weight, tag |-> 0]
    <3>0. Whole(f) /\ Leads(s.data, f) /\ Same(s.data, f) /\ b.lane # "data"
          /\ put = Put(s, f, wire, "control", weight, 0)
      BY <2>6
    <3> HIDE DEF put, f
    <3>1. \/ Raised(put) /\ Alike(s, put)
          \/ /\ put.data = f /\ put.queue = Append(s.queue, b) /\ Sound(put)
             /\ SameBut(s, put) /\ put.raised = s.raised
      BY ONLY <3>0, Sound(s), PutIs
    <3> HIDE DEF b
    <3>2. CASE Raised(put) /\ Alike(s, put)
      BY <3>2, AlikeFine DEF Fine
    <3>3. CASE put.data = f /\ put.queue = Append(s.queue, b) /\ Sound(put) /\ SameBut(s, put)
      <4>1. \A g : Queued(g, s.queue, 0) => Queued(g, put.queue, 0)
        BY <3>0, <3>3, QueuedControl
      <4> QED BY <3>0, <3>3, <4>1, LeadsFirm DEF SameBut
    <3> QED BY <3>1, <3>2, <3>3
  <2> HIDE DEF put
  <2> DEFINE u == MarkClosed(put, id)
             v == Sync(u)
  <2>8. Sound(put)
    BY <2>7 DEF Firm
  <2>9. Fine(put, u)
    BY <2>8, FineSelf, ThenMarked
  <2> HIDE DEF u
  <2>10. Fine(u, v) /\ (~ Raised(u) => Timed(v)) /\ v.raised = u.raised
    BY <2>9, FineSound, SyncIs
  <2> HIDE DEF v
  <2>11. Firm(s, v) /\ (~ Raised(v) => Timed(v))
    BY <2>7, <2>9, <2>10, FirmTrans DEF Fine, Raised
  <2>12. t = v
    BY <1>4 DEF v, u
  <2> HIDE DEF t
  <2> QED BY <2>11, <2>12 DEF t
<1> QED BY <1>2, <1>3, <1>4 DEF Commit, put, weight, wire, following, committed, d, end, id

LEMMA CommittedFine ==
  ASSUME NEW s, NEW u, Fine(s, u), NEW t, Firm(u, t), Timed(u) /\ ~ Raised(t) => Timed(t)
  PROVE  Fine(s, Guarded(t)) /\ ~ Raised(Guarded(t))
<1> DEFINE g == Guarded(t)
<1>1. Fine(u, g) /\ ~ Raised(g)
  BY GuardedSettles DEF Firm
<1> HIDE DEF g
<1> QED BY <1>1, FineTrans DEF g

LEMMA PrepareFine ==
  ASSUME NEW s, Sound(s), ~ Raised(s), s.events # <<>>
  PROVE  LET t == Prepare(s, Head(s.events)) IN Fine(s, t) /\ ~ Raised(t)
<1> DEFINE m == Head(s.events)
           taken == [s EXCEPT !.events = Tail(@)]
<1>1. m \in FromClient /\ Tail(s.events) \in Seq(FromClient)
  BY DEF Sound
<1>2. Alike(s, taken) /\ ~ Raised(taken)
  <2> DEFINE rest == Tail(s.events)
  <2>1. rest \in Seq(FromClient)
    BY <1>1
  <2> HIDE DEF rest
  <2>2. LET t == [s EXCEPT !.events = rest] IN Alike(s, t) /\ ~ Raised(t)
    BY <2>1 DEF Alike, Sound, SessionFields, Raised
  <2> QED BY <2>2 DEF rest
<1> HIDE DEF taken, m
<1>3. Fine(s, taken)
  BY <1>2, AlikeFine
<1>4. ASSUME IsAudio(m)
      PROVE  Fine(s, Guarded(Commit(taken, m))) /\ ~ Raised(Guarded(Commit(taken, m)))
  <2> DEFINE t == Commit(taken, m)
  <2>1. Sound(taken)
    BY <1>3, FineSound
  <2>2. Firm(taken, t) /\ (Timed(taken) /\ ~ Raised(t) => Timed(t))
    BY <1>1, <1>4, <2>1, CommitFirm DEF m
  <2> HIDE DEF t
  <2>3. Fine(s, Guarded(t)) /\ ~ Raised(Guarded(t))
    BY <1>3, <2>2, CommittedFine
  <2> QED BY <2>3 DEF t
<1>5. Prepare(s, m) = taken \/ (IsAudio(m) /\ Prepare(s, m) = Guarded(Commit(taken, m)))
  BY DEF Prepare, taken
<1> HIDE DEF Prepare
<1>6. Fine(s, Prepare(s, m)) /\ ~ Raised(Prepare(s, m))
  BY <1>2, <1>3, <1>4, <1>5
<1> QED BY <1>6 DEF m

LEMMA HandlerFailedFine ==
  ASSUME NEW s, Sound(s), ~ Raised(s), NEW m \in FromClient \cup {NoEvent}
  PROVE  Fine(s, HandlerFailed(s, m)) /\ ~ Raised(HandlerFailed(s, m))
<1> DEFINE c == Current(s)
           input == DiscardAudio(FailInput(s, m.input_id, "stt_failed"), m.input_id)
           response == ResponseTerminated(
             EnqueueControl(s, <<Error("response", "playback_failed", c.id, 0, m.response_id)>>), TRUE)
           conversation == ResponseTerminated(
             EnqueueControl(s, <<Error("conversation", "conversation_failed", c.id, 0, 0)>>), TRUE)
           t == HandlerFailed(s, m)
<1>1. CASE t = s
  BY <1>1, FineSelf
<1>2. CASE LiveConversation(s) /\ RecoverableInput(s) /\ c.input_id = m.input_id /\ t = Guarded(input)
  <2>1. c.id # 0 /\ m.input_id \in Ids /\ "stt_failed" \in InputErrorCode
    BY <1>2, LiveIsOpen, ConversationIs DEF RecoverableInput, InputErrorCode
  <2>2. Fine(s, FailInput(s, m.input_id, "stt_failed"))
    BY <2>1, FailInputFine
  <2>3. Fine(s, input)
    BY <2>2, DiscardAudioAlike, ThenAlike, FineSound
  <2>4. Fine(s, Guarded(input)) /\ ~ Raised(Guarded(input))
    BY <2>3, GuardedFine
  <2> QED BY <1>2, <2>4
<1>3. CASE /\ LiveConversation(s) /\ IsPlayback(m) /\ c.response_id = m.response_id
           /\ t = Guarded(response)
  <2>1. m.response_id \in Ids
    BY <1>3 DEF IsPlayback, NoEvent, FromClient, AnyConversationStarts, AnyInputStarts, AnyInputAudios,
       AnyInputAborts, AnyPlaybackFinishes, AnyPlaybackInterrupts, AnyConversationCancels
  <2>2. c.id \in Ids /\ "playback_failed" \in ResponseErrorCode
    BY <1>3, LiveIsOpen, ConversationIs DEF ResponseErrorCode
  <2> DEFINE e == Error("response", "playback_failed", c.id, 0, m.response_id)
  <2>3. e \in Silencers /\ (Speaker(s.data) # 0 => Stills(s.data, e))
    BY <1>3, <2>1, <2>2, MadeSilencers, SpeakerCurrent
  <2> HIDE DEF e
  <2>4. <<e>> \in Hushing(s.data)
    BY <2>3, HushingAre
  <2>5. Fine(s, response)
    BY <2>4, EnqueueSilent, ThenTerminated DEF e
  <2>6. Fine(s, Guarded(response)) /\ ~ Raised(Guarded(response))
    BY <2>5, GuardedFine
  <2> QED BY <1>3, <2>6
<1>4. CASE LiveConversation(s) /\ t = Guarded(conversation)
  <2>1. c.id \in Ids /\ "conversation_failed" \in ConversationErrorCode
    BY <1>4, LiveIsOpen, ConversationIs DEF ConversationErrorCode
  <2>2. <<Error("conversation", "conversation_failed", c.id, 0, 0)>> \in Hushing(s.data)
    BY <2>1, ConversationErrorHushes
  <2>3. Fine(s, conversation)
    BY <2>2, EnqueueSilent, ThenTerminated
  <2>4. Fine(s, Guarded(conversation)) /\ ~ Raised(Guarded(conversation))
    BY <2>3, GuardedFine
  <2> QED BY <1>4, <2>4
<1> QED BY <1>1, <1>2, <1>3, <1>4 DEF HandlerFailed

-----------------------------------------------------------------------------
(* Timers.                                                                 *)


-----------------------------------------------------------------------------
(* Timers.                                                                 *)

LEMMA ExpireFine ==
  ASSUME NEW s, Sound(s), Current(s).id # 0
  PROVE  Fine(s, ExpireConversation(s))
<1> DEFINE batch == <<Error("conversation", "idle_timeout", Current(s).id, 0, 0)>>
<1>1. Current(s).id \in Ids /\ "idle_timeout" \in ConversationErrorCode
  BY ConversationIs DEF ConversationErrorCode
<1>2. batch \in Hushing(s.data)
  BY <1>1, ConversationErrorHushes
<1> HIDE DEF batch
<1>3. Fine(s, ResponseTerminated(EnqueueControl(s, batch), TRUE))
  BY <1>2, EnqueueSilent, ThenTerminated
<1> QED BY <1>3 DEF ExpireConversation, batch

(* The phase says which objects there are.                                 *)
LEMMA PhaseIs ==
  ASSUME NEW s
  PROVE  /\ Phase(s).phase # "none" => Current(s).id # 0
         /\ Phase(s).phase \in {"input", "processing"} => Current(s).input_id # 0
BY DEF Phase, NoKey

LEMMA ObjectTimeoutFine ==
  ASSUME NEW s, Sound(s), s.key = Phase(s), s.key.phase \in ObjectDeadline
  PROVE  Fine(s, ObjectTimeout(s))
<1> DEFINE c == Current(s)
           id == c.input_id
           close == InputClosed(c.id, id, s.data.inputs[id].committed, "max_duration")
           batch == <<close>> \o NextState(s, "processing")
<1>1. c.id # 0 /\ c.id \in Ids
  BY PhaseIs, ConversationIs DEF ObjectDeadline
<1>2. CASE s.key.phase = "input"
  <2>1. id \in Ids /\ s.data \in Data /\ "processing" \in CoarseState
        /\ "max_duration" \in InputCloseReason
    BY <1>2, PhaseIs, ConversationIs DEF CoarseState, InputCloseReason
  <2>2. s.data.inputs[id].committed \in Nat
    BY <2>1, Parts DEF Inputs
  <2>3. close \in Quiets
    BY <1>1, <2>1, <2>2, MadeQuiets
  <2> HIDE DEF close
  <2>4. batch \in Batches
    BY <1>1, <2>1, <2>3, NextStateBatch, BatchesAre
  <2> HIDE DEF batch
  <2>5. Fine(s, MarkClosed(EnqueueControl(s, batch), id))
    BY <2>4, EnqueueFine, ThenMarked
  <2>6. ObjectTimeout(s) = MarkClosed(EnqueueControl(s, batch), id)
    BY <1>2 DEF ObjectTimeout, batch, close
  <2> QED BY <2>5, <2>6
<1>3. CASE s.key.phase = "processing"
  <2>1. id \in Ids /\ "processing_timeout" \in InputErrorCode
    BY <1>3, PhaseIs, ConversationIs DEF InputErrorCode
  <2>2. Fine(s, FailInput(s, id, "processing_timeout"))
    BY <1>1, <2>1, FailInputFine
  <2>3. ObjectTimeout(s) = FailInput(s, id, "processing_timeout")
    BY <1>3 DEF ObjectTimeout
  <2> QED BY <2>2, <2>3
<1>4. CASE s.key.phase \notin {"input", "processing"}
  <2>1. ObjectTimeout(s) = ExpireConversation(s)
    BY <1>4 DEF ObjectTimeout
  <2> QED BY <1>1, <2>1, ExpireFine
<1> QED BY <1>2, <1>3, <1>4

LEMMA RunDueFine ==
  ASSUME NEW s, Sound(s), NEW t, s.key = Phase(s) => Fine(s, t)
  PROVE  LET u == RunDue(s, t) IN Fine(s, u) /\ ~ Raised(u)
<1>1. Fine(s, Sync(s))
  BY SyncIs
<1> QED BY <1>1, GuardedFine DEF RunDue

-----------------------------------------------------------------------------
(* Shutdown.                                                               *)

(* The response in progress can be cancelled, and the conversation ended.  *)
LEMMA SealAccepted ==
  ASSUME NEW d, Whole(d), d.connection_state = "ready", d.conversation.cancel = "none",
         Speaker(d) # 0,
         NEW m, m = ResponseCancelled(d.conversation.id, Speaker(d), "shutdown"),
         NEW n, n = ConversationEnded(d.conversation.id, "cancelled")
  PROVE  Accepts(d, m) /\ Accepts(After(d, m), n)
<1> DEFINE c == d.conversation
           id == Speaker(d)
           r == d.responses[id]
           e == After(d, m)
           y == Released(c, 0, "cancelled")
<1>1. /\ d \in Data /\ Good(d) /\ c \in Conversations /\ Role = "server"
      /\ c.failure = "none" /\ Past(d)
  BY SessionAssumption, Parts DEF Whole, Good, Ledger, ServerLives
<1>2. /\ id \in Ids /\ c.response_id = id /\ r.terminal = "none" /\ r.failure = "none"
      /\ ~ r.end
  BY SpeakerIs
<1>3. c.id = r.conversation_id /\ c.id \in Ids
  BY <1>1, <1>2, CurrentResponse, NoneIds DEF Conversations
<1>4. /\ m.type = "response.cancelled" /\ m.response_id = id /\ m.conversation_id = c.id
      /\ m.reason = "shutdown"
  BY DEF ResponseCancelled
<1>5. ~ IsCancelled(r)
  BY <1>2, SMTT(30) DEF IsCancelled, ResponseCancelReason
<1>6. CanCancelResponse(d, m)
  BY <1>1, <1>2, <1>3, <1>4, <1>5 DEF CanCancelResponse, KnownResponse, Open
<1>7. Accepts(d, m)
  BY <1>4, <1>6 DEF Accepts, CanHandle
<1>8. /\ e.conversation = y /\ e.connection_state = "ready"
      /\ e.ended_conversations = d.ended_conversations
  <2>1. e = AfterCancelResponse(d, m)
    BY <1>4 DEF After
  <2>2. CancellationEnd(c, r, m.reason) = "cancelled"
    BY <1>1, <1>4 DEF CancellationEnd, CancellationEndReason
  <2>3. ResponseBecomes(d, AfterCancelResponse(d, m), m.response_id,
                        CancelledResponse(d.responses[m.response_id], m.reason),
                        Released(c, 0, CancellationEnd(c, d.responses[m.response_id], m.reason)),
                        CancelGraves(m.response_id, d.responses[m.response_id]))
    BY <1>1, <1>2, <1>4, CancelBecomes DEF ResponseCancelReason
  <2>4. SameRest(d, AfterCancelResponse(d, m))
    BY <1>1, <1>2, <1>4, CancelGood DEF ResponseCancelReason
  <2> QED BY <1>4, <2>1, <2>2, <2>3, <2>4 DEF ResponseBecomes, SameRest
<1> HIDE DEF e
<1>9. /\ y.id = c.id /\ y.input_id = 0 /\ y.response_id = 0 /\ y.cancel = "none"
      /\ y.failure = "none" /\ y.expected_end_reason = "cancelled"
  BY <1>1, ReleasedFields
<1> HIDE DEF y
<1>10. n.type = "conversation.end" /\ n.conversation_id = c.id /\ n.reason = "cancelled"
  BY DEF ConversationEnded
<1>11. e.ended_conversations[c.id] = "none"
  BY <1>1, <1>3, <1>8 DEF Past
<1>12. CanEndConversation(e, n)
  BY <1>8, <1>9, <1>10, <1>11 DEF CanEndConversation, Open
<1>13. Accepts(e, n)
  BY <1>8, <1>10, <1>12 DEF Accepts, CanHandle
<1> QED BY <1>7, <1>13 DEF e

LEMMA Pairs ==
  ASSUME NEW p, NEW q, NEW v, v = <<p>> PROVE (<<>> \o v) \o <<q>> = <<p, q>>
<1> DEFINE S == {p, q}
           z == <<q>>
           w == v \o z
           x == <<p, q>>
<1>1. v \in Seq(S) /\ z \in Seq(S) /\ Len(v) = 1 /\ v[1] = p /\ Len(z) = 1 /\ z[1] = q
  OBVIOUS
<1>2. x \in Seq(S) /\ Len(x) = 2 /\ x[1] = p /\ x[2] = q
  OBVIOUS
<1> HIDE DEF S, z, x
<1>3. <<>> \o v = v
  BY <1>1
<1>4. w \in Seq(S) /\ Len(w) = 2 /\ w[1] = p /\ w[2] = q
  BY <1>1, SMTT(30)
<1> HIDE DEF w
<1>5. w = x
  BY <1>2, <1>4
<1> QED BY <1>3, <1>5 DEF w, x, z

(* What a seal says while there is a response.                             *)
LEMMA SealSays ==
  ASSUME NEW s, Sound(s), Speaker(s.data) # 0
  PROVE  InputTerminals(s) \o ResponseTerminals(s, "shutdown")
           \o <<ConversationEnded(Current(s).id, "cancelled")>>
         = <<ResponseCancelled(Current(s).id, Speaker(s.data), "shutdown"),
             ConversationEnded(Current(s).id, "cancelled")>>
<1> DEFINE d == s.data
           c == Current(s)
           id == Speaker(d)
<1>1. Good(d) /\ id = c.response_id /\ id \in Ids
  <2>1. Good(d)
    BY ConversationIs
  <2>2. id = c.response_id
    BY SpeakerCurrent
  <2>3. id \in Ids
    BY SpeakerIs DEF Sound
  <2> QED BY <2>1, <2>2, <2>3
<1>2. /\ c.input_id = d.responses[id].input_id /\ c.input_id # 0
      /\ d.responses[id].conversation_id # 0
  BY <1>1, NoneIds, CurrentResponse, SMTT(30) DEF Current, Unfinished
<1>3. d.inputs[c.input_id].terminal # NoTerminal /\ d.inputs[c.input_id].final # "none"
  BY <1>1, <1>2 DEF Good, Turns, Answered
<1>4. InputTerminals(s) = <<>>
  BY <1>2, <1>3 DEF InputTerminals, FinalizeInput
<1>5. ResponseTerminals(s, "shutdown") = <<ResponseCancelled(c.id, id, "shutdown")>>
  BY <1>1, NoneIds DEF ResponseTerminals
<1> QED BY ONLY <1>4, <1>5, Pairs DEF c, id, d
(* A session that is up is ready, or has no conversation.                  *)
LEMMA HeldReady ==
  ASSUME NEW s, Sound(s), Held(s), s.code = NoCode, Current(s).id # 0
  PROVE  s.data.connection_state = "ready"
<1>1. s.data.connection_state \in ConnectionState
  BY DEF Sound, Whole, Good, Data
<1> QED BY <1>1 DEF Sound, Whole, Ledger, Fresh, Held, Current, ConnectionState

(* A seal ends the conversation and its response; if the validator refuses *)
(* it, there was no response in progress.                                  *)
LEMMA SealBatch ==
  ASSUME NEW s, Sound(s), Current(s).id # 0,
         NEW batch, batch = InputTerminals(s) \o ResponseTerminals(s, "shutdown")
                              \o <<ConversationEnded(Current(s).id, "cancelled")>>
  PROVE  LET u == Transition(s.data, batch) IN
         /\ u.ok => Leads(s.data, u.data) /\ Speaker(u.data) = 0
         /\ Held(s) /\ Tame(s) /\ s.code = NoCode /\ ~ u.ok => Speaker(s.data) = 0
<1> DEFINE end == ConversationEnded(Current(s).id, "cancelled")
           u == Transition(s.data, batch)
<1>1. /\ Current(s).id \in Ids /\ "cancelled" \in ConversationEndReason
      /\ "shutdown" \in ResponseCancelReason
  BY ConversationIs DEF ConversationEndReason, ResponseCancelReason
<1>2. InputTerminals(s) \in Batches /\ ResponseTerminals(s, "shutdown") \in Hushing(s.data)
  BY <1>1, InputTerminalsBatch, ResponseTerminalsHush
<1>3. <<end>> \in Batches
  BY <1>1, MadeQuiets, BatchesAre
<1>4. InputTerminals(s) \o ResponseTerminals(s, "shutdown") \in Hushing(s.data)
  BY <1>2, HushingAre
<1>5. batch \in Hushing(s.data)
  <2> HIDE DEF end
  <2>1. (InputTerminals(s) \o ResponseTerminals(s, "shutdown")) \o <<end>> \in Hushing(s.data)
    BY <1>3, <1>4, HushingAre
  <2> QED BY <2>1 DEF end
<1>6. u.ok => Leads(s.data, u.data) /\ Speaker(u.data) = 0
  BY <1>5, HushBatch DEF Hushing, Sound
<1>7. ASSUME Held(s), Tame(s), s.code = NoCode, Speaker(s.data) # 0 PROVE u.ok
  <2> DEFINE m == ResponseCancelled(Current(s).id, Speaker(s.data), "shutdown")
  <2>1. batch = <<m, end>>
    BY <1>7, SealSays
  <2>2. s.data.connection_state = "ready"
    BY <1>7, HeldReady
  <2>3. /\ Whole(s.data) /\ s.data.conversation.cancel = "none"
        /\ m = ResponseCancelled(s.data.conversation.id, Speaker(s.data), "shutdown")
        /\ end = ConversationEnded(s.data.conversation.id, "cancelled")
    BY <1>7 DEF Sound, Tame, Current
  <2> HIDE DEF m, end
  <2>4. Accepts(s.data, m) /\ Accepts(After(s.data, m), end)
    BY <1>7, <2>2, <2>3, SealAccepted
  <2>5. Transition(s.data, <<m, end>>).ok
    BY <2>4, TwoAccepted
  <2> QED BY <2>1, <2>5
<1> QED BY <1>6, <1>7

LEMMA SealedIs ==
  ASSUME NEW s, Sound(s), s.code = NoCode, Current(s).id # 0,
         NEW v, DOMAIN v = SessionFields, v.data = s.data, v.code = s.code,
         v.events = s.events, v.writer = NoWriter,
         Held(s) => Queued(s.data, v.queue, 0),
         NEW u, NEW closed,
         u.ok => Leads(s.data, u.data) /\ Speaker(u.data) = 0,
         Held(s) /\ Tame(s) /\ ~ u.ok => Speaker(s.data) = 0
  PROVE  LET t == SealTransition(v, u, closed) IN
         Sound(t) /\ (Held(s) /\ Tame(s) => Held(t) /\ Tame(t))
<1> DEFINE t == SealTransition(v, u, closed)
           b == [frames |-> u.wire, lane |-> "control", weight |-> Len(u.wire), tag |-> 0]
<1>1. DOMAIN NoWriter = WriterFields /\ NoWriter.response = 0 /\ NoWriter.output = 0
  BY DEF NoWriter, WriterFields
<1>2. CASE ~ u.ok
  <2>1. /\ DOMAIN t = SessionFields /\ t.data = s.data /\ t.code = s.code
        /\ t.events = s.events /\ t.writer = NoWriter /\ t.queue = v.queue
    BY <1>2 DEF SealTransition, Raise, SessionFields
  <2> HIDE DEF t
  <2>2. Sound(t)
    BY <2>1 DEF Sound
  <2>3. ASSUME Held(s), Tame(s) PROVE Held(t) /\ Tame(t)
    <3>1. Speaker(t.data) = 0
      BY <1>2, <2>1, <2>3
    <3> QED BY <1>1, <2>1, <2>3, <3>1 DEF Held, Tame, Current, OutputOf
  <2> QED BY <2>2, <2>3 DEF t
<1>3. CASE u.ok
  <2>1. /\ DOMAIN t = SessionFields /\ t.data = u.data /\ t.code = s.code
        /\ t.events = s.events /\ t.writer = NoWriter /\ t.queue = <<b>>
    BY <1>3 DEF SealTransition, SessionFields
  <2>2. b.lane # "data"
    OBVIOUS
  <2> HIDE DEF t, b
  <2>3. /\ Whole(u.data) /\ u.data.connection_state = s.data.connection_state
        /\ Calm(s.data, u.data) /\ Speaker(u.data) = 0
    BY <1>3 DEF Leads
  <2>4. Sound(t)
    BY <2>1, <2>3 DEF Sound
  <2>5. Queued(t.data, t.queue, 0)
    BY <2>1, <2>2, QueuedOne, SMTT(30)
  <2>6. ASSUME Held(s), Tame(s) PROVE Held(t) /\ Tame(t)
    BY <1>1, <2>1, <2>3, <2>5, <2>6 DEF Held, Tame, Current, OutputOf, Calm
  <2> QED BY <2>4, <2>6 DEF t
<1> QED BY <1>2, <1>3

LEMMA SealOrderlyIs ==
  ASSUME NEW s, Sound(s), ~ Raised(s), s.code = NoCode
  PROVE  LET t == SealOrderly(s) IN
         Sound(t) /\ (Held(s) /\ Tame(s) => Held(t) /\ Tame(t))
<1> DEFINE batch == InputTerminals(s) \o ResponseTerminals(s, "shutdown")
                      \o <<ConversationEnded(Current(s).id, "cancelled")>>
           v == [ResponseTerminated(s, TRUE) EXCEPT !.key = NoKey]
           u == Transition(s.data, batch)
           t == SealOrderly(s)
<1>1. CASE Current(s).id = 0
  <2>1. /\ DOMAIN t = SessionFields /\ t.data = s.data /\ t.code = s.code
        /\ t.events = s.events /\ t.writer = s.writer /\ t.queue = s.queue
    BY <1>1 DEF SealOrderly, Sound, SessionFields
  <2> HIDE DEF t
  <2> QED BY <2>1 DEF Sound, Held, Tame, Current, t
<1>2. CASE Current(s).id # 0
  <2>1. /\ u.ok => Leads(s.data, u.data) /\ Speaker(u.data) = 0
        /\ Held(s) /\ Tame(s) /\ ~ u.ok => Speaker(s.data) = 0
    <3> HIDE DEF batch
    <3> QED BY <1>2, SealBatch DEF batch
  <2>2. /\ DOMAIN v = SessionFields /\ v.data = s.data /\ v.code = s.code
        /\ v.events = s.events /\ v.writer = NoWriter /\ v.queue = DiscardOutput(s).queue
    BY DEF Sound, SessionFields, ResponseTerminated, DiscardOutput
  <2>3. Held(s) => Queued(s.data, v.queue, 0)
    <3>1. DiscardOutput(s).data = s.data
      BY DEF Sound, SessionFields, DiscardOutput
    <3> QED BY <2>2, <3>1, DiscardOutputFine DEF Fine, Firm, Held
  <2>4. t = SealTransition(v, u, LastInput(s))
    BY <1>2 DEF SealOrderly
  <2> HIDE DEF v, u, batch
  <2> DEFINE w == SealTransition(v, u, LastInput(s))
  <2>5. Sound(w) /\ (Held(s) /\ Tame(s) => Held(w) /\ Tame(w))
    BY <1>2, <2>1, <2>2, <2>3, SealedIs
  <2> HIDE DEF w
  <2>6. t = w
    BY <2>4 DEF w
  <2> HIDE DEF t
  <2> QED BY <2>5, <2>6 DEF t
<1> QED BY <1>1, <1>2

LEMMA CloseDispatcherIs ==
  ASSUME NEW s, Sound(s), ~ Raised(s)
  PROVE  LET t == CloseDispatcher(s) IN
         /\ Sound(t) /\ t.key = NoKey /\ t.writer = NoWriter /\ t.data = s.data
         /\ t.code = s.code /\ t.raised = s.raised
         /\ Held(s) => Queued(t.data, t.queue, 0)
<1> DEFINE t == CloseDispatcher(s)
<1>1. /\ DOMAIN t = SessionFields /\ t.data = s.data /\ t.code = s.code
      /\ t.raised = s.raised /\ t.key = NoKey
      /\ t.events = <<>> /\ t.writer = NoWriter /\ t.queue = DiscardOutput(s).queue
  BY DEF Sound, SessionFields, CloseDispatcher, ResponseTerminated, DiscardOutput
<1>2. DiscardOutput(s).data = s.data
  BY DEF Sound, SessionFields, DiscardOutput
<1> HIDE DEF t
<1>3. Held(s) => Queued(t.data, t.queue, 0)
  BY <1>1, <1>2, DiscardOutputFine DEF Fine, Firm, Held
<1>4. <<>> \in Seq(FromClient)
  OBVIOUS
<1> QED BY <1>1, <1>3, <1>4 DEF Sound, t

-----------------------------------------------------------------------------
(* The connection at its start and its end.                                *)

LEMMA NewDataWhole ==
  ASSUME NEW s \in {"disconnected", "ready"}
  PROVE  Whole(NewData(s)) /\ NewData(s).conversation = NoConversation
         /\ NewData(s).connection_state = s
<1> DEFINE e == NewData(s)
<1>1. s \in ConnectionState
  BY DEF ConnectionState
<1>2. Good(e)
  BY <1>1, NewDataGood
<1>3. /\ \A i \in Ids : e.inputs[i] = NoInput /\ e.responses[i] = NoResponse
                        /\ e.ended_conversations[i] = "none"
      /\ e.conversation = NoConversation /\ e.connection_state = s
      /\ e.conversation_ids = 1 /\ e.input_ids = 1
  BY DEF NewData
<1> HIDE DEF e
<1>4. CommittedByChunk(NoInput) /\ FailedAtOnce(NoInput)
  <2>1. NoInput.boundaries = {} /\ NoInput.received = 0 /\ NoInput.committed = 0
        /\ NoInput.terminal.kind = "none" /\ NoInput.failure = "none"
    BY DEF NoInput, NoTerminal
  <2>2. MaxInputFrames \in Nat
    BY ProtocolAssumption
  <2> QED BY <2>1, <2>2 DEF CommittedByChunk, FailedAtOnce
<1>5. PlayedWasSent(NoResponse) /\ Hushed(NoResponse) /\ NoResponse.failure = "none"
  BY DEF PlayedWasSent, Hushed, NoResponse, NoOutput, NoPlayback, IsCancelled,
         ResponseCancelReason
<1>6. Objects(e)
  BY <1>3, <1>4, <1>5 DEF Objects
<1>7. /\ NoConversation.id = 0 /\ NoConversation.input_id = 0
      /\ NoConversation.response_id = 0 /\ NoConversation.failure = "none"
      /\ NoInput.conversation_id = 0 /\ NoResponse.conversation_id = 0
      /\ NoInput.interrupts_response_id = 0
  BY DEF NoConversation, NoInput, NoResponse
<1>8. Newest(e) /\ Past(e) /\ Fresh(e)
  BY <1>3, <1>7 DEF Newest, Past, Fresh
<1>9. SilencedByOthers(e) /\ ServerLives(e)
  BY <1>3, <1>7, NoneIds DEF SilencedByOthers, ServerLives
<1> QED BY <1>2, <1>3, <1>6, <1>8, <1>9 DEF Whole, Ledger, e

(* Only what a Whole's parts speak of matters to it.                       *)
LEMMA WholeFrame ==
  ASSUME NEW d, Whole(d), NEW e, e \in Data,
         e.inputs = d.inputs, e.responses = d.responses,
         e.conversation = d.conversation, e.connection_state = d.connection_state,
         e.conversation_ids = d.conversation_ids,
         e.input_ids = d.input_ids, e.response_ids = d.response_ids,
         e.ended_conversations = d.ended_conversations
  PROVE  Whole(e)
<1>1. Good(e)
  BY TurnsFrame DEF Whole
<1>2. Objects(e)
  BY DEF Whole, Objects
<1>3. Newest(e) /\ Past(e) /\ ServerLives(e) /\ Fresh(e)
  BY DEF Whole, Ledger, Newest, Past, ServerLives, Fresh
<1>4. SilencedByOthers(e)
  BY DEF Whole, Ledger, SilencedByOthers
<1> QED BY <1>1, <1>2, <1>3, <1>4 DEF Whole, Ledger

(* A session without a conversation and without a writer.                  *)
LEMMA Idle ==
  ASSUME NEW s, DOMAIN s = SessionFields, Whole(s.data), s.data.conversation = NoConversation,
         s.data.connection_state # "closing", s.queue = <<>>, s.writer = NoWriter,
         s.key = NoKey, s.events = <<>>
  PROVE  Sound(s) /\ Held(s) /\ Tame(s) /\ Timed(s)
<1>1. s.events \in Seq(FromClient)
  OBVIOUS
<1>2. Sound(s)
  BY <1>1 DEF Sound
<1>3. /\ NoConversation.id = 0 /\ NoConversation.response_id = 0
      /\ NoConversation.cancel = "none"
  BY DEF NoConversation
<1>4. Speaker(s.data) = 0
  BY <1>3 DEF Speaker
<1>5. DOMAIN NoWriter = WriterFields /\ NoWriter.response = 0 /\ NoWriter.output = 0
  BY DEF NoWriter, WriterFields
<1>6. Queued(s.data, s.queue, 0)
  BY QueuedNone
<1>7. Held(s)
  BY <1>4, <1>5, <1>6 DEF Held, OutputOf
<1>8. Phase(s) = NoKey
  BY <1>3 DEF Phase, Current
<1> QED BY <1>2, <1>3, <1>7, <1>8 DEF Tame, Timed, Current

LEMMA OverIdle ==
  ASSUME Sound(session), ~ Raised(session)
  PROVE  Sound(Over) /\ Held(Over) /\ Tame(Over) /\ Timed(Over) /\ ~ Raised(Over)
<1> DEFINE t == CloseDispatcher(session)
           new == NewData("disconnected")
           yes == TRUE
           u == [t EXCEPT !.data = new, !.queue = <<>>, !.sealed = yes, !.closed_inputs = {}]
<1>1. Whole(new) /\ new.conversation = NoConversation /\ new.connection_state = "disconnected"
  BY NewDataWhole
<1>2. DOMAIN t = SessionFields /\ t.key = NoKey /\ t.writer = NoWriter /\ t.raised = "none"
  BY CloseDispatcherIs DEF Sound, Raised
<1>3. t.events = <<>>
  BY DEF CloseDispatcher, Sound, SessionFields, ResponseTerminated, DiscardOutput
<1>4. Over = u
  BY DEF Over
<1> HIDE DEF t, new, yes
<1>5. /\ DOMAIN u = SessionFields /\ u.data = new /\ u.queue = <<>> /\ u.key = NoKey
      /\ u.writer = NoWriter /\ u.raised = "none" /\ u.events = <<>>
  BY <1>2, <1>3 DEF SessionFields
<1> HIDE DEF u
<1>6. Sound(u) /\ Held(u) /\ Tame(u) /\ Timed(u)
  BY <1>1, <1>5, Idle
<1> QED BY <1>4, <1>5, <1>6 DEF Raised

LEMMA NewSessionIdle ==
  /\ Sound(NewSession) /\ Held(NewSession) /\ Tame(NewSession) /\ Timed(NewSession)
  /\ ~ Raised(NewSession)
<1> DEFINE new == NewData("ready")
           f == CHOOSE f \in Formats : TRUE
           d == [new EXCEPT !.server_hello = f, !.client_hello = Formats]
<1>1. f \in Formats
  BY SessionAssumption
<1>2. Whole(new) /\ new.conversation = NoConversation /\ new.connection_state = "ready"
  BY NewDataWhole
<1> HIDE DEF new, f
<1>3. /\ d \in Data /\ d.inputs = new.inputs /\ d.responses = new.responses
      /\ d.conversation = new.conversation /\ d.connection_state = new.connection_state
      /\ d.conversation_ids = new.conversation_ids
      /\ d.input_ids = new.input_ids /\ d.response_ids = new.response_ids
      /\ d.ended_conversations = new.ended_conversations
  BY <1>1, <1>2 DEF Whole, Good, Data
<1> HIDE DEF d
<1>4. Whole(d)
  BY <1>2, <1>3, WholeFrame
<1> DEFINE s == NewSession
<1>5. /\ DOMAIN s = SessionFields /\ s.data = d /\ s.key = NoKey /\ s.events = <<>>
      /\ s.queue = <<>> /\ s.writer = NoWriter /\ s.raised = "none"
  BY DEF NewSession, SessionFields, d, f, new
<1> HIDE DEF s
<1>6. Sound(s) /\ Held(s) /\ Tame(s) /\ Timed(s)
  BY <1>2, <1>3, <1>4, <1>5, Idle
<1> QED BY <1>5, <1>6 DEF s, Raised

LEMMA ShutdownClosed ==
  ASSUME NEW s, Sound(s), ~ Raised(s), s.code = NoCode, NEW drain
  PROVE  LET t == RequestClose(CloseDispatcher(s), 1001, drain) IN
         Sound(t) /\ ~ Raised(t) /\ Tame(t) /\ (Held(s) => Held(t))
<1> DEFINE c == CloseDispatcher(s)
           t == RequestClose(c, 1001, drain)
<1>1. /\ Sound(c) /\ c.writer = NoWriter /\ c.data = s.data /\ c.code = NoCode /\ ~ Raised(c)
      /\ Held(s) => Queued(c.data, c.queue, 0)
  BY CloseDispatcherIs DEF Raised
<1>2. 1001 # NoCode
  BY DEF NoCode
<1> HIDE DEF c
<1>3. Sound(t) /\ t.code # NoCode /\ ~ Raised(t)
  BY <1>1, <1>2, RequestCloseFine, FineSound DEF Raised
<1>4. t.writer = c.writer /\ t.queue \in {c.queue, <<>>} /\ t.data.responses = c.data.responses
  <2>1. /\ t.data = [c.data EXCEPT !.connection_state = "closing"]
        /\ t.writer = c.writer /\ t.queue \in {c.queue, <<>>}
    BY <1>1 DEF Sound, SessionFields, RequestClose
  <2> HIDE DEF t
  <2> QED BY <1>1, <2>1, ClosingWhole DEF Sound
<1> HIDE DEF t
<1>5. Held(s) => Queued(t.data, t.queue, 0)
  BY <1>1, <1>4, QueuedNone, QueuedByResponses
<1>6. DOMAIN NoWriter = WriterFields
  BY DEF NoWriter, WriterFields
<1>7. Held(s) => Held(t)
  BY <1>1, <1>3, <1>4, <1>5, <1>6 DEF Held
<1> QED BY <1>3, <1>7 DEF Tame, t, c

-----------------------------------------------------------------------------
(* The actions.                                                            *)

IInv ==
  /\ Sound(session) /\ Held(session) /\ Tame(session) /\ ~ Raised(session)
  /\ shutdown = "none" => Timed(session)
  /\ handling \in FromClient \cup {NoEvent}

LEMMA QuietIs ==
  ASSUME NEW t, Sound(t) PROVE Alike(t, Quiet(t)) /\ ~ Raised(Quiet(t))
BY DEF Sound, SessionFields, Quiet, Alike, Raised

LEMMA QuietFine ==
  ASSUME NEW s, NEW t, Fine(s, t) PROVE Fine(s, Quiet(t)) /\ ~ Raised(Quiet(t))
BY QuietIs, ThenAlike, FineSound

LEMMA FineKeeps ==
  ASSUME IInv, Fine(session, session'), ~ Raised(session'),
         handling' \in FromClient \cup {NoEvent}, shutdown' = shutdown
  PROVE  IInv'
BY DEF IInv, Fine, Firm

LEMMA TakesKeeps ==
  ASSUME IInv, NEW s, Fine(session, s), ~ Raised(s), Takes(s) PROVE IInv'
<1>1. session' = s /\ handling' = handling /\ shutdown' = shutdown
  BY DEF Takes
<1> QED BY <1>1, FineKeeps DEF IInv

LEMMA CallKeeps == ASSUME IInv, NEW s, Fine(session, s), Call(s) PROVE IInv'
BY TakesKeeps, QuietFine DEF Call

LEMMA ClientKeeps == ASSUME IInv, ClientSays \/ ClientReads PROVE IInv'
<1>1. CASE ClientSays
  <2>1. PICK m \in ClientMessages : /\ Up /\ session' = Receive(session, m)
                                    /\ UNCHANGED <<handling, shutdown>>
    BY <1>1 DEF ClientSays
  <2>2. m \in FromClient
    BY Unbounded DEF ClientMessages, FromClient
  <2>3. Fine(session, session') /\ ~ Raised(session')
    BY <2>1, <2>2, ReceiveFine DEF IInv, Up
  <2> QED BY <2>1, <2>3, FineKeeps DEF IInv
<1>2. CASE ClientReads
  BY <1>2 DEF ClientReads, IInv
<1> QED BY <1>1, <1>2

LEMMA SentFine ==
  ASSUME NEW s, Sound(s), s.queue # <<>>
  PROVE  LET t == [s EXCEPT !.queue = Tail(@)] IN Fine(s, t) /\ t.raised = s.raised
<1> DEFINE q == Tail(s.queue)
           t == [s EXCEPT !.queue = q]
<1>1. Queued(s.data, s.queue, 0) => Queued(s.data, q, 0)
  BY QueuedTail
<1> HIDE DEF q
<1>2. /\ DOMAIN t = SessionFields /\ t.data = s.data /\ t.key = s.key /\ t.code = s.code
      /\ t.events = s.events /\ t.writer = s.writer /\ t.raised = s.raised /\ t.queue = q
  BY DEF Sound, SessionFields
<1> HIDE DEF t
<1>3. Phase(t) = Phase(s)
  BY <1>2, PhaseOfData
<1>4. Fine(s, t) /\ t.raised = s.raised
  BY <1>1, <1>2, <1>3 DEF Fine, Firm, Sound, Timed, Held, Tame, Current
<1> QED BY <1>4 DEF t, q

LEMMA ServerKeeps ==
  ASSUME IInv, WriterSends \/ DispatchNext \/ HandlerReturns \/ HandlerRaises PROVE IInv'
<1>1. CASE WriterSends
  <2>1. /\ session' = [session EXCEPT !.queue = Tail(@)] /\ session.queue # <<>>
        /\ handling' = handling /\ shutdown' = shutdown
    BY <1>1 DEF WriterSends
  <2>2. Fine(session, session') /\ ~ Raised(session')
    BY <2>1, SentFine DEF IInv, Raised
  <2> QED BY <2>1, <2>2, FineKeeps DEF IInv
<1>2. CASE DispatchNext
  <2> DEFINE m == Head(session.events)
  <2>1. /\ session.events # <<>> /\ session' = Prepare(session, m)
        /\ handling' \in {NoEvent, m} /\ shutdown' = shutdown
    BY <1>2 DEF DispatchNext
  <2>2. m \in FromClient
    BY <2>1 DEF IInv, Sound
  <2>3. Fine(session, session') /\ ~ Raised(session')
    BY <2>1, PrepareFine DEF IInv
  <2> HIDE DEF m
  <2> QED BY <2>1, <2>2, <2>3, FineKeeps
<1>3. CASE HandlerReturns
  BY <1>3 DEF HandlerReturns, IInv
<1>4. CASE HandlerRaises
  <2>1. /\ session' = HandlerFailed(session, handling)
        /\ handling' = NoEvent /\ shutdown' = shutdown
    BY <1>4 DEF HandlerRaises
  <2>2. Fine(session, session') /\ ~ Raised(session')
    BY <2>1, HandlerFailedFine DEF IInv
  <2> QED BY <2>1, <2>2, FineKeeps DEF IInv
<1> QED BY <1>1, <1>2, <1>3, <1>4

LEMMA TimersKeep == ASSUME IInv, ObjectTimerFires \/ IdleTimerFires PROVE IInv'
<1>1. CASE ObjectTimerFires
  <2>1. /\ session.key.phase \in ObjectDeadline
        /\ Takes(RunDue(session, ObjectTimeout(session)))
    BY <1>1 DEF ObjectTimerFires
  <2> DEFINE t == RunDue(session, ObjectTimeout(session))
  <2>2. Fine(session, t) /\ ~ Raised(t)
    BY <2>1, ObjectTimeoutFine, RunDueFine DEF IInv
  <2> HIDE DEF t
  <2>3. Takes(t)
    BY <2>1 DEF t
  <2> QED BY <2>2, <2>3, TakesKeeps
<1>2. CASE IdleTimerFires
  <2>1. /\ session.key.phase \in IdleDeadline
        /\ Takes(RunDue(session, ExpireConversation(session)))
    BY <1>2 DEF IdleTimerFires
  <2>2. session.key = Phase(session) => Current(session).id # 0
    BY <2>1, PhaseIs DEF IdleDeadline
  <2> DEFINE t == RunDue(session, ExpireConversation(session))
  <2>3. Fine(session, t) /\ ~ Raised(t)
    BY <2>2, ExpireFine, RunDueFine DEF IInv
  <2> HIDE DEF t
  <2>4. Takes(t)
    BY <2>1 DEF t
  <2> QED BY <2>3, <2>4, TakesKeeps
<1> QED BY <1>1, <1>2

(* The bounds of the calls.                                                *)
LEMMA CallBounds ==
  /\ InputIds \subseteq Ids /\ 1..MaxRevision \subseteq Positive /\ 1..MaxDeltas \subseteq Nat
  /\ \A S : Scoped(S) \subseteq S
BY MessagesAssumption DEF Positive, Scoped

LEMMA MethodsKeep ==
  ASSUME IInv, \/ CallCloseInput \/ CallUpdateTranscript \/ CallFinalizeTranscript
               \/ CallStartResponse \/ CallEndConversation \/ CallFail
  PROVE  IInv'
<1>1. Sound(session)
  BY DEF IInv
<1>2. CASE CallCloseInput
  <2>1. PICK i \in InputIds, reason \in Scoped(InputCloseReason) :
          Call(CloseInputCall(session, i, reason))
    BY <1>2 DEF CallCloseInput
  <2>2. Fine(session, CloseInputCall(session, i, reason))
    BY <1>1, CallBounds, CloseInputFine
  <2> QED BY <2>1, <2>2, CallKeeps
<1>3. CASE CallUpdateTranscript
  <2>1. PICK i \in InputIds, n \in 1..MaxRevision, text \in Texts :
          Call(UpdateTranscript(session, i, n, text))
    BY <1>3 DEF CallUpdateTranscript
  <2>2. Fine(session, UpdateTranscript(session, i, n, text))
    BY <1>1, CallBounds, UpdateTranscriptFine
  <2> QED BY <2>1, <2>2, CallKeeps
<1>4. CASE CallFinalizeTranscript
  <2>1. PICK i \in InputIds, text \in Texts \cup {"empty"} :
          Call(FinalizeTranscript(session, i, text))
    BY <1>4 DEF CallFinalizeTranscript
  <2>2. Fine(session, FinalizeTranscript(session, i, text))
    BY <1>1, CallBounds, FinalizeTranscriptFine
  <2> QED BY <2>1, <2>2, CallKeeps
<1>5. CASE CallStartResponse
  <2>1. PICK i \in InputIds, ends \in BOOLEAN :
          /\ session.data.response_ids \in ResponseIds
          /\ Call(StartResponseCall(session, i, ends))
    BY <1>5 DEF CallStartResponse
  <2>2. session.data.response_ids \in Ids
    BY <2>1, MessagesAssumption
  <2>3. Fine(session, StartResponseCall(session, i, ends))
    BY <1>1, <2>2, CallBounds, StartResponseFine
  <2> QED BY <2>1, <2>3, CallKeeps
<1>6. CASE CallEndConversation
  <2>1. PICK reason \in Scoped(ConversationEndReason) :
          Call(EndConversationCall(session, reason))
    BY <1>6 DEF CallEndConversation
  <2>2. Fine(session, EndConversationCall(session, reason))
    BY <1>1, CallBounds, EndConversationFine
  <2> QED BY <2>1, <2>2, CallKeeps
<1>7. CASE \E code \in Scoped(ConversationErrorCode) : Call(FailConversationCall(session, code))
  <2>1. PICK code \in Scoped(ConversationErrorCode) : Call(FailConversationCall(session, code))
    BY <1>7
  <2>2. Fine(session, FailConversationCall(session, code))
    BY <1>1, CallBounds, FailConversationFine
  <2> QED BY <2>1, <2>2, CallKeeps
<1>8. CASE \E code \in Scoped(InputErrorCode) : Call(FailInputCall(session, code))
  <2>1. PICK code \in Scoped(InputErrorCode) : Call(FailInputCall(session, code))
    BY <1>8
  <2>2. Fine(session, FailInputCall(session, code))
    BY <1>1, CallBounds, FailInputCallFine
  <2> QED BY <2>1, <2>2, CallKeeps
<1>9. CASE \E code \in Scoped(ResponseErrorCode) : Call(FailResponseCall(session, code))
  <2>1. PICK code \in Scoped(ResponseErrorCode) : Call(FailResponseCall(session, code))
    BY <1>9
  <2>2. Fine(session, FailResponseCall(session, code))
    BY <1>1, CallBounds, FailResponseCallFine
  <2> QED BY <2>1, <2>2, CallKeeps
<1> QED BY <1>2, <1>3, <1>4, <1>5, <1>6, <1>7, <1>8, <1>9 DEF CallFail

LEMMA WritersKeep ==
  ASSUME IInv, \/ CallSendText \/ CallStartOutput \/ CallSendAudio \/ CallFinishOutput
               \/ CallFinishResponse \/ CallCancelResponse
  PROVE  IInv'
<1>1. Sound(session)
  BY DEF IInv
<1>2. CASE \E text \in Texts : Call(SendTextDelta(session, text))
  <2>1. PICK text \in Texts : Call(SendTextDelta(session, text))
    BY <1>2
  <2>2. Fine(session, SendTextDelta(session, text))
    BY <1>1, SendTextDeltaFine
  <2> QED BY <2>1, <2>2, CallKeeps
<1>3. CASE \E text \in UNION {[1..n -> Texts] : n \in 1..MaxDeltas} :
             Call(FinalizeText(session, text))
  <2>1. PICK n \in 1..MaxDeltas : \E text \in [1..n -> Texts] : Call(FinalizeText(session, text))
    BY <1>3
  <2>2. PICK text \in [1..n -> Texts] : Call(FinalizeText(session, text))
    BY <2>1
  <2>3. n \in Nat
    BY CallBounds
  <2>4. Fine(session, FinalizeText(session, text))
    BY <1>1, <2>3, FinalizeTextFine
  <2> QED BY <2>2, <2>4, CallKeeps
<1>4. CASE CallStartOutput
  <2>1. session.data.output_ids \in Ids /\ Call(StartOutputCall(session))
    BY <1>4 DEF CallStartOutput
  <2>2. Fine(session, StartOutputCall(session))
    BY <1>1, <2>1, StartOutputFine
  <2> QED BY <2>1, <2>2, CallKeeps
<1>5. CASE CallSendAudio
  <2>1. PICK frames \in 1..(MaxOutput - WriterResponse(session).output.received) :
          Call(SendAudio(session, frames))
    BY <1>5 DEF CallSendAudio
  <2>2. ASSUME CanWriteOutput(session) PROVE frames \in Positive
    <3>1. WriterResponse(session) \in Responses
      BY <1>1, <2>2, WritingIs DEF CanWriteOutput
    <3>2. WriterResponse(session).output.received \in Nat /\ MaxOutput \in Nat
      BY <3>1, MessagesAssumption DEF Responses, Outputs
    <3> QED BY <3>2 DEF Positive
  <2>3. Fine(session, SendAudio(session, frames))
    BY <1>1, <2>2, SendAudioFine
  <2> QED BY <2>1, <2>3, CallKeeps
<1>6. CASE CallFinishOutput
  <2>1. Call(FinishOutput(session)) /\ Fine(session, FinishOutput(session))
    BY <1>1, <1>6, FinishOutputFine DEF CallFinishOutput
  <2> QED BY <2>1, CallKeeps
<1>7. CASE CallFinishResponse
  <2>1. Call(FinishResponse(session)) /\ Fine(session, FinishResponse(session))
    BY <1>1, <1>7, FinishResponseFine DEF CallFinishResponse
  <2> QED BY <2>1, CallKeeps
<1>8. CASE CallCancelResponse
  <2>1. PICK reason \in Scoped(WriterCancelReason) : Call(CancelWriter(session, reason))
    BY <1>8 DEF CallCancelResponse
  <2>2. Fine(session, CancelWriter(session, reason))
    BY <1>1, CallBounds, CancelWriterFine
  <2> QED BY <2>1, <2>2, CallKeeps
<1> QED BY <1>2, <1>3, <1>4, <1>5, <1>6, <1>7, <1>8 DEF CallSendText

LEMMA EndsKeep == ASSUME IInv, ShutdownSeals \/ ShutdownCloses \/ Disconnected PROVE IInv'
<1>1. CASE ShutdownSeals
  <2> DEFINE t == SealOrderly(session)
  <2>1. /\ session' = Quiet(t) /\ shutdown' \in {"failed", "sealed"}
        /\ handling' = handling /\ Up
    BY <1>1 DEF ShutdownSeals
  <2>2. Sound(t) /\ Held(t) /\ Tame(t)
    BY <2>1, SealOrderlyIs DEF IInv, Up
  <2> HIDE DEF t
  <2>3. Fine(t, session') /\ ~ Raised(session')
    BY <2>1, <2>2, QuietIs, AlikeFine
  <2> QED BY <2>1, <2>2, <2>3 DEF IInv, Fine, Firm
<1>2. CASE ShutdownCloses
  <2>1. /\ session' = RequestClose(CloseDispatcher(session), 1001, session.sealed)
        /\ shutdown' = "closed" /\ handling' = NoEvent /\ Up
    BY <1>2 DEF ShutdownCloses
  <2>2. Sound(session') /\ Held(session') /\ Tame(session') /\ ~ Raised(session')
    BY <2>1, ShutdownClosed DEF IInv, Up
  <2> QED BY <2>1, <2>2 DEF IInv
<1>3. CASE Disconnected
  <2>1. session' = Over /\ handling' = NoEvent /\ shutdown' = shutdown
    BY <1>3 DEF Disconnected
  <2> QED BY <2>1, OverIdle DEF IInv
<1> QED BY <1>1, <1>2, <1>3

(* The invariant of the session, whatever it is told and asked to do: its  *)
(* data is whole; the writer the application holds is that of the response *)
(* in progress, and of its output; no PCM of a response cut short is       *)
(* queued; a cancelled conversation is never left open; and the timer,     *)
(* until a shutdown begins, is set for what the server waits for.          *)
THEOREM SessionInductive == Spec => []IInv
<1>1. Init => IInv
  BY NewSessionIdle DEF Init, IInv
<1>2. IInv /\ [Next]_vars => IInv'
  <2> SUFFICES ASSUME IInv, [Next]_vars PROVE IInv'
    OBVIOUS
  <2>1. CASE Next
    BY <2>1, ClientKeeps, ServerKeeps, TimersKeep, MethodsKeep, WritersKeep, EndsKeep DEF Next
  <2>2. CASE UNCHANGED vars
    BY <2>2 DEF vars, IInv
  <2> QED BY <2>1, <2>2
<1> QED BY <1>1, <1>2, PTL DEF Spec

(* LifecycleTimeouts.sync: no call, message, event, failure or timer, in   *)
(* any order, leaves the timer set for anything but what the server waits  *)
(* for, as long as the connection is up and not shutting down.             *)
THEOREM TimerSet == Spec => []TimerFollows
<1>1. IInv => TimerFollows
  BY DEF IInv, Timed, TimerFollows, Up
<1> QED BY <1>1, SessionInductive, PTL

(* VoiceSession._response_terminated and the writers: while the connection *)
(* is up the application holds a writer exactly while its response goes on *)
(* - no path that ends a response, by the client, the application, a timer *)
(* or a shutdown, leaves a writer behind, and none takes the writer from a *)
(* response that is not over.                                              *)
THEOREM WriterHeld == Spec => []WriterIsLive
<1>1. IInv => WriterIsLive
  <2> SUFFICES ASSUME IInv, Up PROVE
        /\ session.writer.response # 0 <=> Answering(session)
        /\ session.writer.response # 0 =>
             session.writer.response = Current(session).response_id
    BY DEF WriterIsLive
  <2>1. Sound(session) /\ session.writer.response = Speaker(session.data)
    BY DEF IInv, Held, Up
  <2>2. ASSUME Speaker(session.data) # 0
        PROVE  Speaker(session.data) = Current(session).response_id /\ Answering(session)
    BY <2>1, <2>2, SpeakerCurrent, SpeakerIs DEF Answering, Sound
  <2>3. Answering(session) => Speaker(session.data) # 0
    BY DEF Answering, LiveResponse, Speaker, Current
  <2> QED BY <2>1, <2>2, <2>3
<1> QED BY <1>1, SessionInductive, PTL

(* discard_queued, on every path that cuts a response short - a barge-in,  *)
(* a cancel, a failed handler, a timer, an overflow, a shutdown: no PCM of *)
(* it stays queued, unless the application had finished it before.         *)
THEOREM CutShort == Spec => []CutIsCut
<1>1. IInv => CutIsCut
  <2> SUFFICES ASSUME IInv, NEW k \in 1..Len(session.queue),
                      session.queue[k].lane = "data"
               PROVE  LET r == session.data.responses[Head(session.queue[k].frames).response_id]
                      IN IsCancelled(r) => r.end
    BY DEF CutIsCut
  <2>1. PICK S : /\ session.queue \in Seq(S)
                 /\ \A b \in S : Decent(session.data, b, 0)
    BY DEF IInv, Held, Queued
  <2>2. Decent(session.data, session.queue[k], 0)
    BY <2>1, SMTT(30)
  <2> DEFINE x == Head(session.queue[k].frames).response_id
  <2>3. ~ Loose(session.data, x)
    BY <2>2 DEF Decent
  <2> HIDE DEF x
  <2> QED BY <2>3, ZenonT(60) DEF Loose, x
<1> QED BY <1>1, SessionInductive, PTL
=============================================================================
