---------------------------- MODULE ProtocolProof -----------------------------
(***************************************************************************)
(* For every value of the constants: each handler of Protocol keeps the    *)
(* data well formed and keeps Turns.  The lemmas follow the code: first    *)
(* the replacement of one part of the data, then the internal steps        *)
(* (_terminalize_input, _complete_response, ...), then the handlers built  *)
(* from them.                                                              *)
(***************************************************************************)
EXTENDS Messages, ProtocolInvariants, TLAPS

Good(d) == d \in Data /\ Turns(d)

-----------------------------------------------------------------------------
(* The messages without the bounds of module Messages: what is proved of a *)
(* handler is proved of any message the constructors allow, whoever makes  *)
(* it, as long as the identifiers it names are Ids.                        *)

Positive == Nat \ {0}
AnyConversationStarts == [type : {"conversation.start"}, conversation_id : Ids]
AnyInputStarts ==
  [type : {"input.start"}, conversation_id : Ids, input_id : Ids,
   reason : {"activation", "speech"}, interrupts_response_id : {0}]
  \cup
  [type : {"input.start"}, conversation_id : Ids, input_id : Ids,
   reason : {"barge_in"}, interrupts_response_id : Ids]
AnyInputAudios ==
  [type : {"input.audio"}, conversation_id : Ids, input_id : Ids,
   start_frame : Nat, frames : Positive]
AnyInputAborts ==
  [type : {"input.abort"}, conversation_id : Ids, input_id : Ids, reason : InputAbortReason]
AnyInputCloses ==
  [type : {"input.closed"}, conversation_id : Ids, input_id : Ids,
   accepted_end_frame : Nat, reason : InputCloseReason]
AnyTranscriptUpdates ==
  [type : {"transcript.update"}, conversation_id : Ids, input_id : Ids,
   revision : Positive, text : Texts]
AnyTranscriptFinals ==
  [type : {"transcript.final"}, conversation_id : Ids, input_id : Ids,
   text : Texts \cup {"empty"}]
AnyResponseStarts ==
  [type : {"response.start"}, conversation_id : Ids, response_id : Ids,
   input_id : Ids, end_conversation : BOOLEAN]
AnyTextDeltas ==
  [type : {"response.text.delta"}, conversation_id : Ids, response_id : Ids,
   sequence : Nat, text : Texts]
AnyTextFinals ==
  [type : {"response.text.final"}, conversation_id : Ids, response_id : Ids,
   text : UNION {[1..n -> Texts] : n \in Nat}]
AnyOutputStarts ==
  [type : {"output.start"}, conversation_id : Ids, response_id : Ids, output_id : Ids]
AnyOutputAudios ==
  [type : {"output.audio"}, conversation_id : Ids, response_id : Ids, output_id : Ids,
   start_frame : Nat, frames : Positive]
AnyOutputEnds ==
  [type : {"output.end"}, conversation_id : Ids, response_id : Ids, output_id : Ids,
   total_frames : Nat]
AnyResponseEnds == [type : {"response.end"}, conversation_id : Ids, response_id : Ids]
AnyResponseCancels ==
  [type : {"response.cancelled"}, conversation_id : Ids, response_id : Ids,
   reason : ResponseCancelReason]
AnyPlaybackFinishes ==
  [type : {"playback.finished"}, conversation_id : Ids, response_id : Ids, output_id : Ids,
   played_frames : Nat]
AnyPlaybackInterrupts ==
  [type : {"playback.interrupted"}, conversation_id : Ids, response_id : Ids, output_id : Ids,
   played_frames : Nat, reason : PlaybackInterruptReason]
AnyConversationCancels ==
  [type : {"conversation.cancel"}, conversation_id : Ids, reason : ConversationCancelReason]
AnyConversationEnds ==
  [type : {"conversation.end"}, conversation_id : Ids, reason : ConversationEndReason]
AnyStates ==
  [type : {"state"}, conversation_id : Ids, revision : Positive, state : CoarseState]
AnyConversationErrors ==
  {Error("conversation", code, c, 0, 0) : code \in ConversationErrorCode, c \in Ids}
AnyInputErrors ==
  {Error("input", code, c, i, 0) : code \in InputErrorCode, c \in Ids, i \in Ids}
AnyResponseErrors ==
  {Error("response", code, c, 0, r) : code \in ResponseErrorCode, c \in Ids, r \in Ids}
AnyErrors ==
  ConnectionErrors \cup AnyConversationErrors \cup AnyInputErrors \cup AnyResponseErrors

(* The sets of Messages are cut from these.                                *)
LEMMA Unbounded ==
  /\ ConversationStarts \subseteq AnyConversationStarts
  /\ InputStarts \subseteq AnyInputStarts
  /\ InputAudios \subseteq AnyInputAudios
  /\ InputAborts \subseteq AnyInputAborts
  /\ InputCloses \subseteq AnyInputCloses
  /\ TranscriptUpdates \subseteq AnyTranscriptUpdates
  /\ TranscriptFinals \subseteq AnyTranscriptFinals
  /\ ResponseStarts \subseteq AnyResponseStarts
  /\ TextDeltas \subseteq AnyTextDeltas
  /\ TextFinals \subseteq AnyTextFinals
  /\ OutputStarts \subseteq AnyOutputStarts
  /\ OutputAudios \subseteq AnyOutputAudios
  /\ OutputEnds \subseteq AnyOutputEnds
  /\ ResponseEnds \subseteq AnyResponseEnds
  /\ ResponseCancels \subseteq AnyResponseCancels
  /\ PlaybackFinishes \subseteq AnyPlaybackFinishes
  /\ PlaybackInterrupts \subseteq AnyPlaybackInterrupts
  /\ ConversationCancels \subseteq AnyConversationCancels
  /\ ConversationEnds \subseteq AnyConversationEnds
  /\ States \subseteq AnyStates
  /\ Errors \subseteq AnyErrors
<1>1. /\ ConversationIds \subseteq Ids /\ InputIds \subseteq Ids /\ ResponseIds \subseteq Ids
      /\ 0..MaxInputFrames \subseteq Nat /\ 1..MaxChunk \subseteq Positive
      /\ 1..MaxRevision \subseteq Positive /\ 0..(MaxDeltas - 1) \subseteq Nat
      /\ 0..MaxOutput \subseteq Nat /\ 1..(MaxOutputAudioFrames + 1) \subseteq Positive
  BY MessagesAssumption, ProtocolAssumption DEF Positive
<1>2. \A S : Scoped(S) \subseteq S
  BY DEF Scoped
<1>3. ConversationStarts \subseteq AnyConversationStarts
  BY <1>1 DEF ConversationStarts, AnyConversationStarts
<1>4. InputStarts \subseteq AnyInputStarts
  BY <1>1, <1>2 DEF InputStarts, AnyInputStarts
<1>5. InputAudios \subseteq AnyInputAudios
  BY <1>1 DEF InputAudios, AnyInputAudios
<1>6. InputAborts \subseteq AnyInputAborts
  BY <1>1, <1>2 DEF InputAborts, AnyInputAborts
<1>7. InputCloses \subseteq AnyInputCloses
  BY <1>1, <1>2 DEF InputCloses, AnyInputCloses
<1>8. TranscriptUpdates \subseteq AnyTranscriptUpdates
  BY <1>1 DEF TranscriptUpdates, AnyTranscriptUpdates
<1>9. TranscriptFinals \subseteq AnyTranscriptFinals
  BY <1>1 DEF TranscriptFinals, AnyTranscriptFinals
<1>10. ResponseStarts \subseteq AnyResponseStarts
  BY <1>1 DEF ResponseStarts, AnyResponseStarts
<1>11. TextDeltas \subseteq AnyTextDeltas
  BY <1>1 DEF TextDeltas, AnyTextDeltas
<1>12. TextFinals \subseteq AnyTextFinals
  BY <1>1, MessagesAssumption DEF TextFinals, AnyTextFinals
<1>13. OutputStarts \subseteq AnyOutputStarts
  BY <1>1 DEF OutputStarts, AnyOutputStarts
<1>14. OutputAudios \subseteq AnyOutputAudios
  BY <1>1 DEF OutputAudios, AnyOutputAudios
<1>15. OutputEnds \subseteq AnyOutputEnds
  BY <1>1 DEF OutputEnds, AnyOutputEnds
<1>16. ResponseEnds \subseteq AnyResponseEnds
  BY <1>1 DEF ResponseEnds, AnyResponseEnds
<1>17. ResponseCancels \subseteq AnyResponseCancels
  BY <1>1, <1>2 DEF ResponseCancels, AnyResponseCancels
<1>18. PlaybackFinishes \subseteq AnyPlaybackFinishes
  BY <1>1 DEF PlaybackFinishes, AnyPlaybackFinishes
<1>19. PlaybackInterrupts \subseteq AnyPlaybackInterrupts
  BY <1>1, <1>2 DEF PlaybackInterrupts, AnyPlaybackInterrupts
<1>20. ConversationCancels \subseteq AnyConversationCancels
  BY <1>1, <1>2 DEF ConversationCancels, AnyConversationCancels
<1>21. ConversationEnds \subseteq AnyConversationEnds
  BY <1>1, <1>2 DEF ConversationEnds, AnyConversationEnds
<1>22. States \subseteq AnyStates
  BY <1>1 DEF States, AnyStates
<1>23. Errors \subseteq AnyErrors
  <2>1. ConversationErrors \subseteq AnyConversationErrors
    BY <1>1, <1>2 DEF ConversationErrors, AnyConversationErrors
  <2>2. InputErrors \subseteq AnyInputErrors
    BY <1>1, <1>2 DEF InputErrors, AnyInputErrors
  <2>3. ResponseErrors \subseteq AnyResponseErrors
    BY <1>1, <1>2 DEF ResponseErrors, AnyResponseErrors
  <2> QED BY <2>1, <2>2, <2>3 DEF Errors, AnyErrors
<1> QED
  BY <1>3, <1>4, <1>5, <1>6, <1>7, <1>8, <1>9, <1>10, <1>11, <1>12, <1>13, <1>14, <1>15,
     <1>16, <1>17, <1>18, <1>19, <1>20, <1>21, <1>22, <1>23

-----------------------------------------------------------------------------
(* The parts of the data are of their sets.                                *)

(* An optional identifier is an identifier or 0.                           *)
LEMMA NoneIds ==
  /\ 0 \in OptionalIds /\ Ids \subseteq OptionalIds /\ 0 \notin Ids
  /\ \A i \in OptionalIds : i # 0 => i \in Ids
  /\ \A i \in Ids : i \in Nat /\ i + 1 \in NextIds
<1>1. MaxId \in Nat
  BY ProtocolAssumption
<1> QED
  BY <1>1 DEF OptionalIds, Ids, NextIds

(* The parts of well-formed data are well formed.                          *)
LEMMA Parts ==
  ASSUME NEW d \in Data
  PROVE  /\ d.conversation \in Conversations
         /\ \A i \in Ids : d.inputs[i] \in Inputs
         /\ \A r \in Ids : d.responses[r] \in Responses
         /\ DOMAIN d.inputs = Ids /\ DOMAIN d.responses = Ids
BY DEF Data

(* Updates of one field of an input.                                       *)
LEMMA InputFields ==
  ASSUME NEW x \in Inputs
  PROVE  /\ \A v \in OptionalIds : [x EXCEPT !.response_id = v] \in Inputs
         /\ \A v \in Nat : [x EXCEPT !.committed = v] \in Inputs
         /\ \A v \in Texts \cup {"empty", "none"} : [x EXCEPT !.final = v] \in Inputs
         /\ \A v \in InputErrorCode : [x EXCEPT !.failure = v] \in Inputs
BY DEF Inputs

(* What terminates an input: input.closed, input.abort, or the             *)
(* cancellation of its conversation.                                       *)
Terminations ==
  {CancelledInput}
  \cup {Closed(f, r) : f \in Nat, r \in InputCloseReason}
  \cup {Aborted(r) : r \in InputAbortReason}

(* An input may be terminated with any of them.                            *)
LEMMA TerminalInputs ==
  ASSUME NEW x \in Inputs, NEW t \in Terminations
  PROVE  /\ [x EXCEPT !.terminal = t] \in Inputs
         /\ t # NoTerminal
<1> DEFINE Values == [kind : {"none", "closed", "aborted", "cancelled"}, end_frame : Nat,
                      reason : InputCloseReason \cup InputAbortReason \cup {"none"}]
<1>1. t \in Values /\ t.kind # "none"
  <2>1. CASE t = CancelledInput
    BY <2>1 DEF CancelledInput
  <2>2. ASSUME NEW f \in Nat, NEW r \in InputCloseReason, t = Closed(f, r)
        PROVE  t \in Values /\ t.kind # "none"
    BY <2>2 DEF Closed
  <2>3. ASSUME NEW r \in InputAbortReason, t = Aborted(r)
        PROVE  t \in Values /\ t.kind # "none"
    BY <2>3 DEF Aborted
  <2> QED BY <2>1, <2>2, <2>3 DEF Terminations
<1>2. [x EXCEPT !.terminal = t] \in Inputs
  BY <1>1 DEF Inputs
<1> QED BY <1>1, <1>2 DEF NoTerminal

(* Updates of one field of a conversation.                                 *)
LEMMA ConversationFields ==
  ASSUME NEW x \in Conversations
  PROVE  /\ \A v \in OptionalIds : [x EXCEPT !.response_id = v] \in Conversations
         /\ \A v \in OptionalIds : [x EXCEPT !.input_id = v] \in Conversations
         /\ \A v \in OptionalIds : [x EXCEPT !.output_id = v] \in Conversations
         /\ \A v \in ConversationCancelReason : [x EXCEPT !.cancel = v] \in Conversations
         /\ \A v \in ConversationErrorCode : [x EXCEPT !.failure = v] \in Conversations
BY DEF Conversations

(* Releasing the current objects of a conversation.                        *)
LEMMA ReleasedConversation ==
  ASSUME NEW x \in Conversations, NEW v \in OptionalIds,
         NEW e \in ConversationEndReason \cup {"none"}
  PROVE  Released(x, v, e) \in Conversations
BY NoneIds DEF Conversations, Released

(* The empty records.                                                      *)
LEMMA EmptyRecords ==
  /\ NoInput \in Inputs /\ NoResponse \in Responses
  /\ NoOutput \in Outputs /\ NoPlayback \in Playbacks
  /\ NoConversation \in Conversations
BY NoneIds
   DEF NoInput, NoTerminal, NoResponse, NoOutput, NoPlayback, NoConversation,
       Inputs, Outputs, Playbacks, Responses, Conversations, StateValues

-----------------------------------------------------------------------------
(* Replacing one part of the data.                                         *)

(* The fields that are neither objects nor the current conversation.       *)
SameRest(d, e) ==
  /\ e.connection_state = d.connection_state
  /\ e.client_hello = d.client_hello /\ e.server_hello = d.server_hello
  /\ e.conversation_ids = d.conversation_ids /\ e.input_ids = d.input_ids
  /\ e.response_ids = d.response_ids /\ e.output_ids = d.output_ids
  /\ e.ended_conversations = d.ended_conversations
  /\ e.cancelled_conversations = d.cancelled_conversations
  /\ e.terminal_states = d.terminal_states

(* _replace_input changes one input.                                       *)
LEMMA WithInputParts ==
  ASSUME NEW d \in Data, NEW id \in Ids, NEW x \in Inputs
  PROVE  LET e == WithInput(d, id, x) IN
         /\ e \in Data
         /\ e.inputs = [d.inputs EXCEPT ![id] = x]
         /\ e.responses = d.responses
         /\ e.conversation = d.conversation
         /\ SameRest(d, e)
BY DEF WithInput, Data, SameRest

(* _replace_response changes one response.                                 *)
LEMMA WithResponseParts ==
  ASSUME NEW d \in Data, NEW id \in Ids, NEW x \in Responses
  PROVE  LET e == WithResponse(d, id, x) IN
         /\ e \in Data
         /\ e.inputs = d.inputs
         /\ e.responses = [d.responses EXCEPT ![id] = x]
         /\ e.conversation = d.conversation
         /\ SameRest(d, e)
BY DEF WithResponse, Data, SameRest

(* Replacing the conversation changes nothing else.                        *)
LEMMA WithConversationParts ==
  ASSUME NEW d \in Data, NEW x \in Conversations
  PROVE  LET e == WithConversation(d, x) IN
         /\ e \in Data
         /\ e.inputs = d.inputs
         /\ e.responses = d.responses
         /\ e.conversation = x
         /\ SameRest(d, e)
BY DEF WithConversation, Data, SameRest

(* A tombstone changes nothing but the tombstones.                         *)
LEMMA WithTombstoneParts ==
  ASSUME NEW d \in Data, NEW kind, NEW id, NEW state,
         [kind |-> kind, id |-> id, terminal_state |-> state] \in Tombstones
  PROVE  LET e == WithTombstone(d, kind, id, state) IN
         /\ e \in Data
         /\ e.inputs = d.inputs
         /\ e.responses = d.responses
         /\ e.conversation = d.conversation
         /\ SameRest(d, e)
BY SMTT(30) DEF WithTombstone, Data, SameRest
-----------------------------------------------------------------------------
(* The conjuncts of Turns look at little of the data.                      *)

(* Nothing that Turns looks at is different in e.                          *)
LEMMA TurnsFrame ==
  ASSUME NEW d, NEW e, Good(d), e \in Data,
         e.inputs = d.inputs, e.responses = d.responses,
         e.conversation = d.conversation,
         e.input_ids = d.input_ids, e.response_ids = d.response_ids
  PROVE  Good(e)
BY DEF Good, Turns, InputTurn, ResponseTurn, Answered, Allocated, CurrentInput, EndDue

(* An input may be terminated and transcribed.                             *)
LEMMA InputKeepsTurns ==
  ASSUME NEW d, Good(d), NEW id \in Ids, NEW x \in Inputs,
         x.conversation_id = d.inputs[id].conversation_id,
         x.response_id = d.inputs[id].response_id,
         x.terminal = NoTerminal => d.inputs[id].terminal = NoTerminal,
         x.final = "none" => d.inputs[id].final = "none"
  PROVE  Good(WithInput(d, id, x))
<1> DEFINE e == WithInput(d, id, x)
<1>1. d \in Data /\ Turns(d)
  BY DEF Good
<1>2. /\ e \in Data
      /\ e.inputs = [d.inputs EXCEPT ![id] = x]
      /\ e.responses = d.responses
      /\ e.conversation = d.conversation
      /\ e.input_ids = d.input_ids /\ e.response_ids = d.response_ids
  BY <1>1, WithInputParts DEF SameRest
<1>3. DOMAIN d.inputs = Ids
  BY <1>1, Parts
<1>4. \A i \in Ids :
        /\ e.inputs[i].conversation_id = d.inputs[i].conversation_id
        /\ e.inputs[i].response_id = d.inputs[i].response_id
        /\ e.inputs[i].terminal = NoTerminal => d.inputs[i].terminal = NoTerminal
        /\ e.inputs[i].final = "none" => d.inputs[i].final = "none"
  BY <1>2, <1>3
<1>5. \A i \in OptionalIds : i # 0 => i \in Ids
  BY NoneIds
<1>6. /\ \A r \in Ids : d.responses[r].input_id \in OptionalIds
      /\ d.conversation.input_id \in OptionalIds
  BY <1>1, Parts DEF Responses, Conversations
<1> HIDE DEF e
<1>7. InputTurn(e)
  BY <1>1, <1>2, <1>4 DEF Turns, InputTurn, OpenInput
<1>8. ResponseTurn(e)
  BY <1>1, <1>2, SMTT(30) DEF Turns, ResponseTurn
<1>9. Answered(e)
  BY <1>1, <1>2, <1>4, <1>5, <1>6 DEF Turns, Answered
<1>10. Allocated(e)
  BY <1>1, <1>2, <1>4 DEF Turns, Allocated
<1>11. CurrentInput(e) /\ EndDue(e)
  BY <1>1, <1>2, <1>4, <1>5, <1>6 DEF Turns, CurrentInput, EndDue
<1> QED
  BY <1>2, <1>7, <1>8, <1>9, <1>10, <1>11 DEF Good, Turns, e

(* Answered speaks of the inputs and of what responses answer.             *)
LEMMA AnsweredFrame ==
  ASSUME NEW d, Answered(d), NEW e, e.inputs = d.inputs,
         \A r \in Ids : /\ e.responses[r].conversation_id = d.responses[r].conversation_id
                       /\ e.responses[r].input_id = d.responses[r].input_id,
         \A i \in Ids : d.inputs[i].response_id # 0 => d.inputs[i].response_id \in Ids
  PROVE  Answered(e)
<1>1. ASSUME NEW r \in Ids, e.responses[r].conversation_id # 0
      PROVE  /\ e.responses[r].input_id # 0
             /\ LET i == e.inputs[e.responses[r].input_id] IN
                /\ i.response_id = r
                /\ i.conversation_id = e.responses[r].conversation_id
                /\ i.terminal # NoTerminal
                /\ i.final # "none"
  BY <1>1 DEF Answered
<1>2. ASSUME NEW i \in Ids, e.inputs[i].response_id # 0
      PROVE  /\ e.responses[e.inputs[i].response_id].input_id = i
             /\ e.responses[e.inputs[i].response_id].conversation_id # 0
  BY <1>2 DEF Answered
<1> QED BY <1>1, <1>2 DEF Answered

(* A response may change as long as it stays unfinished or finished.       *)
LEMMA ResponseKeepsTurns ==
  ASSUME NEW d, Good(d), NEW id \in Ids, NEW x \in Responses,
         x.conversation_id = d.responses[id].conversation_id,
         x.input_id = d.responses[id].input_id,
         EndRecorded(d.responses[id]) => EndRecorded(x),
         Unfinished(x) <=> Unfinished(d.responses[id])
  PROVE  Good(WithResponse(d, id, x))
<1> DEFINE e == WithResponse(d, id, x)
<1>1. d \in Data /\ Turns(d)
  BY DEF Good
<1>2. /\ e \in Data
      /\ e.inputs = d.inputs
      /\ e.responses = [d.responses EXCEPT ![id] = x]
      /\ e.conversation = d.conversation
      /\ e.input_ids = d.input_ids /\ e.response_ids = d.response_ids
  BY <1>1, WithResponseParts DEF SameRest
<1>3. DOMAIN d.responses = Ids
  BY <1>1, Parts
<1>4. \A r \in Ids :
        /\ e.responses[r].conversation_id = d.responses[r].conversation_id
        /\ e.responses[r].input_id = d.responses[r].input_id
        /\ Unfinished(e.responses[r]) <=> Unfinished(d.responses[r])
  BY <1>2, <1>3
<1>4a. \A r \in Ids : EndRecorded(e.responses[r])
  BY <1>1, <1>2, <1>3 DEF Turns, ResponseTurn
<1>5. \A i \in Ids : d.inputs[i].response_id # 0 => d.inputs[i].response_id \in Ids
  BY <1>1, Parts, NoneIds DEF Inputs
<1> HIDE DEF e
<1>6. InputTurn(e) /\ CurrentInput(e) /\ EndDue(e)
  BY <1>1, <1>2 DEF Turns, InputTurn, CurrentInput, EndDue
<1>7. ResponseTurn(e)
  BY <1>1, <1>2, <1>4, <1>4a DEF Turns, ResponseTurn
<1>8. Answered(e)
  BY <1>1, <1>2, <1>4, <1>5, AnsweredFrame DEF Turns
<1>9. Allocated(e)
  BY <1>1, <1>2, <1>4 DEF Turns, Allocated
<1> QED
  BY <1>2, <1>6, <1>7, <1>8, <1>9 DEF Good, Turns, e

(* The open conversation may change what Turns does not look at, and may   *)
(* be cancelled, or let go of its input, once no input is open.            *)
LEMMA ConversationKeepsTurns ==
  ASSUME NEW d, Good(d), NEW x \in Conversations,
         x.id = d.conversation.id,
         x.response_id = d.conversation.response_id,
         x.expected_end_reason = d.conversation.expected_end_reason,
         \/ x.input_id = d.conversation.input_id
         \/ x.input_id = 0 /\ x.response_id = 0,
         \/ x.cancel = d.conversation.cancel /\ x.input_id = d.conversation.input_id
         \/ \A i \in Ids : ~ OpenInput(d.inputs[i])
  PROVE  Good(WithConversation(d, x))
<1> DEFINE e == WithConversation(d, x)
<1>1. d \in Data /\ Turns(d)
  BY DEF Good
<1>2. /\ e \in Data
      /\ e.inputs = d.inputs /\ e.responses = d.responses
      /\ e.conversation = x
      /\ e.input_ids = d.input_ids /\ e.response_ids = d.response_ids
  BY <1>1, WithConversationParts DEF SameRest
<1> HIDE DEF e
<1>3. InputTurn(e)
  BY <1>1, <1>2 DEF Turns, InputTurn
<1>4. ResponseTurn(e)
  BY <1>1, <1>2, NoneIds, SMTT(30) DEF Turns, ResponseTurn
<1>5. Answered(e) /\ Allocated(e)
  BY <1>1, <1>2 DEF Turns, Answered, Allocated
<1>6. CurrentInput(e) /\ EndDue(e)
  BY <1>1, <1>2 DEF Turns, CurrentInput, EndDue
<1> QED
  BY <1>2, <1>3, <1>4, <1>5, <1>6 DEF Good, Turns, e

(* A tombstone changes nothing that Turns looks at.                        *)
LEMMA TombstoneKeepsTurns ==
  ASSUME NEW d, Good(d), NEW kind, NEW id, NEW state,
         [kind |-> kind, id |-> id, terminal_state |-> state] \in Tombstones
  PROVE  Good(WithTombstone(d, kind, id, state))
<1> DEFINE e == WithTombstone(d, kind, id, state)
<1>1. d \in Data
  BY DEF Good
<1>2. /\ e \in Data
      /\ e.inputs = d.inputs /\ e.responses = d.responses
      /\ e.conversation = d.conversation
      /\ e.input_ids = d.input_ids /\ e.response_ids = d.response_ids
  BY <1>1, WithTombstoneParts DEF SameRest
<1> HIDE DEF e
<1>3. Good(e)
  BY <1>2, TurnsFrame
<1> QED
  BY <1>3 DEF e
(* While a response is unfinished, no input is open.                       *)
LEMMA NoInputDuringResponse ==
  ASSUME NEW d, Good(d), NEW id \in Ids, d.conversation.response_id = id
  PROVE  /\ \A i \in Ids : ~ OpenInput(d.inputs[i])
         /\ Unfinished(d.responses[id])
         /\ d.conversation.input_id = d.responses[id].input_id
         /\ d.conversation.id = d.responses[id].conversation_id
BY NoneIds DEF Good, Turns, InputTurn, ResponseTurn

(* The current response may finish, and the conversation let go of its     *)
(* objects.                                                                *)
LEMMA ReleaseKeepsTurns ==
  ASSUME NEW d, Good(d), NEW id \in Ids, NEW x \in Responses, NEW y \in Conversations,
         d.conversation.response_id = id,
         x.conversation_id = d.responses[id].conversation_id,
         x.input_id = d.responses[id].input_id,
         ~ Unfinished(x), EndRecorded(x),
         y.id = d.conversation.id, y.input_id = 0, y.response_id = 0
  PROVE  Good(WithConversation(WithResponse(d, id, x), y))
<1> DEFINE a == WithResponse(d, id, x)
           e == WithConversation(a, y)
<1>1. d \in Data /\ Turns(d)
  BY DEF Good
<1>2. /\ a \in Data
      /\ a.inputs = d.inputs
      /\ a.responses = [d.responses EXCEPT ![id] = x]
      /\ a.input_ids = d.input_ids /\ a.response_ids = d.response_ids
  BY <1>1, WithResponseParts DEF SameRest
<1> HIDE DEF a
<1>3. /\ e \in Data
      /\ e.inputs = a.inputs /\ e.responses = a.responses
      /\ e.conversation = y
      /\ e.input_ids = a.input_ids /\ e.response_ids = a.response_ids
  BY <1>2, WithConversationParts DEF SameRest
<1> HIDE DEF e
<1>4. DOMAIN d.responses = Ids
  BY <1>1, Parts
<1>5. \A r \in Ids :
        /\ e.responses[r].conversation_id = d.responses[r].conversation_id
        /\ e.responses[r].input_id = d.responses[r].input_id
        /\ r # id => e.responses[r] = d.responses[r]
  BY <1>2, <1>3, <1>4
<1>6. \A r \in Ids : ~ Unfinished(e.responses[r])
  <2> SUFFICES ASSUME NEW r \in Ids PROVE ~ Unfinished(e.responses[r])
    OBVIOUS
  <2>1. CASE r = id
    BY <2>1, <1>2, <1>3, <1>4
  <2>2. CASE r # id
    BY <2>2, <1>1, <1>5 DEF Turns, ResponseTurn
  <2> QED BY <2>1, <2>2
<1>7. \A i \in Ids : d.inputs[i].response_id # 0 => d.inputs[i].response_id \in Ids
  BY <1>1, Parts, NoneIds DEF Inputs
<1>8. InputTurn(e)
  BY <1>2, <1>3, NoInputDuringResponse DEF InputTurn
<1>9. ResponseTurn(e)
  <2>1. \A r \in Ids : EndRecorded(e.responses[r])
    BY <1>1, <1>2, <1>3, <1>4, <1>5 DEF Turns, ResponseTurn
  <2> QED BY <1>3, <1>6, <2>1, NoneIds DEF ResponseTurn
<1>10. Answered(e)
  BY <1>1, <1>2, <1>3, <1>5, <1>7, AnsweredFrame DEF Turns
<1>11. Allocated(e)
  BY <1>1, <1>2, <1>3, <1>5 DEF Turns, Allocated
<1>12. CurrentInput(e) /\ EndDue(e)
  BY <1>3 DEF CurrentInput, EndDue
<1> QED
  BY <1>3, <1>8, <1>9, <1>10, <1>11, <1>12 DEF Good, Turns, a, e

(* The open conversation may be replaced by none once nothing is open.     *)
LEMMA CloseKeepsTurns ==
  ASSUME NEW d, Good(d), d.conversation.response_id = 0,
         d.conversation.input_id # 0 =>
           d.inputs[d.conversation.input_id].terminal # NoTerminal
  PROVE  Good(WithConversation(d, NoConversation))
<1> DEFINE e == WithConversation(d, NoConversation)
<1>1. d \in Data /\ Turns(d)
  BY DEF Good
<1>2. /\ e \in Data
      /\ e.inputs = d.inputs /\ e.responses = d.responses
      /\ e.conversation = NoConversation
      /\ e.input_ids = d.input_ids /\ e.response_ids = d.response_ids
  BY <1>1, WithConversationParts, EmptyRecords DEF SameRest
<1> HIDE DEF e
<1>3. InputTurn(e)
  BY <1>1, <1>2, NoneIds DEF Turns, InputTurn, OpenInput
<1>4. ResponseTurn(e)
  BY <1>1, <1>2, NoneIds, SMTT(30) DEF Turns, ResponseTurn, NoConversation
<1>5. Answered(e) /\ Allocated(e)
  BY <1>1, <1>2 DEF Turns, Answered, Allocated
<1>6. CurrentInput(e) /\ EndDue(e)
  BY <1>2 DEF CurrentInput, EndDue, NoConversation
<1> QED
  BY <1>2, <1>3, <1>4, <1>5, <1>6 DEF Good, Turns, e

-----------------------------------------------------------------------------
(* The internal steps.                                                     *)

(* _terminalize_input terminates one input.                                *)
LEMMA TerminalizeGood ==
  ASSUME NEW d, Good(d), NEW id \in Ids, NEW t \in Terminations,
         t.kind \in {"closed", "aborted"}
  PROVE  LET e == Terminalize(d, id, t) IN
         /\ Good(e)
         /\ e.inputs = [d.inputs EXCEPT ![id] = [d.inputs[id] EXCEPT !.terminal = t]]
         /\ e.responses = d.responses
         /\ e.conversation = d.conversation
         /\ SameRest(d, e)
<1> DEFINE x == [d.inputs[id] EXCEPT !.terminal = t]
           a == WithInput(d, id, x)
<1>1. d \in Data /\ d.inputs[id] \in Inputs
  BY Parts DEF Good
<1>2. x \in Inputs
  BY <1>1, TerminalInputs
<1>3. t # NoTerminal
  BY <1>1, TerminalInputs
<1>4. /\ x.conversation_id = d.inputs[id].conversation_id
      /\ x.response_id = d.inputs[id].response_id
      /\ x.final = d.inputs[id].final
      /\ x.terminal = t
  BY <1>1 DEF Inputs
<1> HIDE DEF x
<1>5. Good(a)
  BY <1>2, <1>3, <1>4, InputKeepsTurns
<1>6. /\ a.inputs = [d.inputs EXCEPT ![id] = x]
      /\ a.responses = d.responses /\ a.conversation = d.conversation
      /\ SameRest(d, a)
  BY <1>1, <1>2, WithInputParts
<1> HIDE DEF a
<1>7. [kind |-> "input", id |-> id, terminal_state |-> t.kind] \in Tombstones
  BY <1>3, NoneIds DEF Tombstones
<1>8. Good(WithTombstone(a, "input", id, t.kind))
  BY <1>5, <1>7, TombstoneKeepsTurns
<1>9. LET e == WithTombstone(a, "input", id, t.kind) IN
      /\ e.inputs = a.inputs /\ e.responses = a.responses
      /\ e.conversation = a.conversation /\ SameRest(a, e)
  BY <1>5, <1>7, WithTombstoneParts DEF Good
<1> QED
  BY <1>6, <1>8, <1>9 DEF Terminalize, a, x, SameRest

(* _cancel_response finishes the current response and leaves nothing       *)
(* current.                                                                *)
LEMMA CancelGood ==
  ASSUME NEW d, Good(d), NEW m, m.response_id \in Ids,
         m.reason \in ResponseCancelReason,
         d.conversation.response_id = m.response_id
  PROVE  LET e == AfterCancelResponse(d, m) IN
         /\ Good(e)
         /\ e.inputs = d.inputs
         /\ e.conversation.id = d.conversation.id
         /\ e.conversation.input_id = 0 /\ e.conversation.response_id = 0
         /\ e.conversation.cancel = d.conversation.cancel
         /\ e.conversation.failure = d.conversation.failure
         /\ e.conversation.expected_end_reason =
              CancellationEnd(d.conversation, d.responses[m.response_id], m.reason)
         /\ IsCancelled(e.responses[m.response_id])
         /\ SameRest(d, e)
<1> DEFINE id == m.response_id
           r == d.responses[id]
           c == d.conversation
           buried == IF OpenOutput(r)
                     THEN WithTombstone(d, "output", r.output.id, "cancelled") ELSE d
           x == CancelledResponse(r, m.reason)
           y == Released(c, 0, CancellationEnd(c, r, m.reason))
           a == WithConversation(WithResponse(buried, id, x), y)
           e == WithTombstone(a, "response", id, "cancelled")
<1>1. d \in Data /\ r \in Responses /\ c \in Conversations
  BY Parts DEF Good
<1>2. /\ Unfinished(r) /\ c.input_id = r.input_id
      /\ c.id = r.conversation_id
  BY NoInputDuringResponse
<1>3. /\ Good(buried)
      /\ buried.inputs = d.inputs /\ buried.responses = d.responses
      /\ buried.conversation = d.conversation
      /\ SameRest(d, buried)
  <2>1. [kind |-> "output", id |-> r.output.id, terminal_state |-> "cancelled"] \in Tombstones
    BY <1>1 DEF Responses, Outputs, Tombstones
  <2>2. CASE OpenOutput(r)
    BY <2>1, <2>2, <1>1, TombstoneKeepsTurns, WithTombstoneParts
  <2>3. CASE ~ OpenOutput(r)
    BY <2>3 DEF SameRest
  <2> QED BY <2>2, <2>3
<1>4. /\ x \in Responses
      /\ x.conversation_id = r.conversation_id /\ x.input_id = r.input_id
      /\ x.terminal = m.reason
  BY <1>1 DEF CancelledResponse, Responses, Outputs
<1>5. IsCancelled(x) /\ ~ Unfinished(x)
  BY <1>4 DEF IsCancelled, Unfinished, ResponseCancelReason
<1>5a. EndRecorded(x)
  BY <1>4 DEF EndRecorded, ResponseCancelReason
<1>6. CancellationEnd(c, r, m.reason) \in ConversationEndReason \cup {"none"}
  BY DEF CancellationEnd, CancellationEndReason, FailureEndReason, ConversationEndReason
<1>7. /\ y \in Conversations
      /\ y.id = c.id /\ y.input_id = 0 /\ y.response_id = 0
      /\ y.cancel = c.cancel /\ y.failure = c.failure
      /\ y.expected_end_reason = CancellationEnd(c, r, m.reason)
  BY <1>1, <1>6, NoneIds, ReleasedConversation DEF Released, Conversations
<1>8. ~ IsCancelled(r)
  BY <1>2 DEF IsCancelled, Unfinished, ResponseCancelReason
<1> HIDE DEF buried, x, y
<1>9. Good(a)
  BY <1>3, <1>4, <1>5, <1>5a, <1>7, ReleaseKeepsTurns
<1>10. /\ a.inputs = d.inputs
       /\ a.responses = [d.responses EXCEPT ![id] = x]
       /\ a.conversation = y
       /\ SameRest(d, a)
  <2> DEFINE b == WithResponse(buried, id, x)
  <2>1. /\ b \in Data /\ b.inputs = d.inputs
        /\ b.responses = [d.responses EXCEPT ![id] = x]
        /\ SameRest(d, b)
    BY <1>3, <1>4, WithResponseParts DEF Good, SameRest
  <2> HIDE DEF b
  <2>2. /\ WithConversation(b, y).inputs = b.inputs
        /\ WithConversation(b, y).responses = b.responses
        /\ WithConversation(b, y).conversation = y
        /\ SameRest(b, WithConversation(b, y))
    BY <2>1, <1>7, WithConversationParts
  <2> QED BY <2>1, <2>2 DEF b, SameRest
<1> HIDE DEF a
<1>11. [kind |-> "response", id |-> id, terminal_state |-> "cancelled"] \in Tombstones
  BY NoneIds DEF Tombstones
<1>12. /\ Good(e)
       /\ e.inputs = a.inputs /\ e.responses = a.responses
       /\ e.conversation = a.conversation /\ SameRest(a, e)
  BY <1>9, <1>11, TombstoneKeepsTurns, WithTombstoneParts DEF Good
<1>13. e = AfterCancelResponse(d, m)
  <2>1. (IF m.reason = "barge_in" /\ c.input_id \notin {0, r.input_id}
         THEN c.input_id ELSE 0) = 0
    BY <1>2
  <2> QED BY <2>1, <1>8 DEF AfterCancelResponse, a, x, y, buried
<1>14. e.responses[id] = x
  BY <1>10, <1>12, <1>1, Parts
<1> HIDE DEF e
<1> QED
  BY <1>5, <1>7, <1>10, <1>12, <1>13, <1>14 DEF SameRest
(* _complete_response, once the response was replaced by a finished one.   *)
LEMMA CompleteGood ==
  ASSUME NEW d, Good(d), NEW id \in Ids, NEW x \in Responses,
         d.conversation.response_id = id,
         x.conversation_id = d.responses[id].conversation_id,
         x.input_id = d.responses[id].input_id,
         ~ Unfinished(x), EndRecorded(x)
  PROVE  Good(CompleteResponse(WithResponse(d, id, x), id))
<1> DEFINE a == WithResponse(d, id, x)
           expected == IF a.responses[id].end_conversation THEN "completed" ELSE "none"
           y == Released(a.conversation, 0, expected)
<1>1. d \in Data /\ d.conversation \in Conversations
  BY Parts DEF Good
<1>2. a.conversation = d.conversation
  BY <1>1, WithResponseParts
<1>3. expected \in ConversationEndReason \cup {"none"}
  BY DEF ConversationEndReason
<1> HIDE DEF a, expected
<1>4. /\ y \in Conversations
      /\ y.id = d.conversation.id /\ y.input_id = 0 /\ y.response_id = 0
  BY <1>1, <1>2, <1>3, NoneIds, ReleasedConversation DEF Released, Conversations
<1> HIDE DEF y
<1>5. Good(WithConversation(a, y))
  BY <1>4, ReleaseKeepsTurns DEF a
<1>6. [kind |-> "response", id |-> id, terminal_state |-> "completed"] \in Tombstones
  BY NoneIds DEF Tombstones
<1>7. Good(WithTombstone(WithConversation(a, y), "response", id, "completed"))
  BY <1>5, <1>6, TombstoneKeepsTurns
<1> QED
  BY <1>7 DEF CompleteResponse, a, y, expected

(* _end_conversation.                                                      *)
LEMMA EndConversationGood ==
  ASSUME NEW d, Good(d), NEW m, m.conversation_id \in Ids,
         m.reason \in ConversationEndReason, CanEndConversation(d, m)
  PROVE  Good(AfterEndConversation(d, m))
<1> DEFINE id == m.conversation_id
           a == WithConversation(d, NoConversation)
           b == WithTombstone(a, "conversation", id, m.reason)
           last == IF d.conversation.state.revision # 0 THEN d.conversation.state
                                                        ELSE d.terminal_states[id]
           e == [b EXCEPT !.ended_conversations[id] = m.reason,
                          !.terminal_states[id] = last]
<1>1. CASE d.ended_conversations[id] # "none"
  BY <1>1 DEF AfterEndConversation
<1>2. CASE d.ended_conversations[id] = "none"
  <2>1. d \in Data
    BY DEF Good
  <2>2. last \in StateValues
    BY <2>1 DEF Data, Conversations
  <2> HIDE DEF last
  <2>3. /\ d.conversation.response_id = 0
        /\ d.conversation.input_id # 0 =>
             d.inputs[d.conversation.input_id].terminal # NoTerminal
    BY <1>2 DEF CanEndConversation
  <2>4. Good(a)
    BY <2>3, CloseKeepsTurns
  <2> HIDE DEF a
  <2>5. [kind |-> "conversation", id |-> id, terminal_state |-> m.reason] \in Tombstones
    BY NoneIds DEF Tombstones
  <2>6. Good(b)
    BY <2>4, <2>5, TombstoneKeepsTurns
  <2> HIDE DEF b
  <2>7. b \in Data
    BY <2>6 DEF Good
  <2>8. e \in Data
    BY <2>2, <2>7 DEF Data
  <2>9. /\ e.inputs = b.inputs /\ e.responses = b.responses
        /\ e.conversation = b.conversation
        /\ e.input_ids = b.input_ids /\ e.response_ids = b.response_ids
    BY <2>7 DEF Data
  <2> HIDE DEF e
  <2>10. Good(e)
    BY <2>6, <2>8, <2>9, TurnsFrame
  <2> QED BY <1>2, <2>10 DEF AfterEndConversation, e, b, a, last
<1> QED BY <1>1, <1>2

(* Closing an input that is still open, as a failure does.                 *)
LEMMA CloseIfOpenGood ==
  ASSUME NEW d, Good(d), NEW id \in Ids
  PROVE  LET e == CloseIfOpen(d, id) IN
         /\ Good(e)
         /\ e.inputs[id].terminal # NoTerminal
         /\ e.responses = d.responses /\ e.conversation = d.conversation
         /\ SameRest(d, e)
<1>1. CASE d.inputs[id].terminal # NoTerminal
  BY <1>1 DEF CloseIfOpen, SameRest
<1>2. CASE d.inputs[id].terminal = NoTerminal
  <2> DEFINE t == FailedClose(d, id)
             e == Terminalize(d, id, t)
  <2>1. d \in Data /\ d.inputs[id] \in Inputs /\ DOMAIN d.inputs = Ids
    BY Parts DEF Good
  <2>2. t \in Terminations /\ t.kind = "closed"
    <3>1. d.inputs[id].committed \in Nat /\ "failed" \in InputCloseReason
      BY <2>1 DEF Inputs, InputCloseReason
    <3>2. t \in {Closed(f, r) : f \in Nat, r \in InputCloseReason}
      BY <3>1 DEF FailedClose
    <3>3. t \in Terminations
      BY <3>2 DEF Terminations
    <3>4. t.kind = "closed"
      BY DEF FailedClose, Closed
    <3> QED BY <3>3, <3>4
  <2> HIDE DEF t
  <2>3. /\ Good(e) /\ e.responses = d.responses /\ e.conversation = d.conversation
        /\ SameRest(d, e)
        /\ e.inputs = [d.inputs EXCEPT ![id] = [d.inputs[id] EXCEPT !.terminal = t]]
    BY <2>2, TerminalizeGood
  <2> HIDE DEF e
  <2>4. e.inputs[id].terminal = t
    BY <2>1, <2>3 DEF Inputs
  <2>5. t # NoTerminal
    BY <2>2 DEF NoTerminal
  <2> QED BY <1>2, <2>3, <2>4, <2>5 DEF CloseIfOpen, e, t
<1> QED BY <1>1, <1>2

(* The empty final transcript of a failed input.                           *)
LEMMA FinalizeIfMissingGood ==
  ASSUME NEW d, Good(d), NEW id \in Ids
  PROVE  LET e == FinalizeIfMissing(d, id) IN
         /\ Good(e)
         /\ e.inputs[id].terminal = d.inputs[id].terminal
         /\ e.responses = d.responses /\ e.conversation = d.conversation
         /\ SameRest(d, e)
<1> DEFINE v == IF d.inputs[id].final = "none" THEN "empty" ELSE d.inputs[id].final
           x == [d.inputs[id] EXCEPT !.final = v]
           e == WithInput(d, id, x)
<1>1. d \in Data /\ d.inputs[id] \in Inputs /\ DOMAIN d.inputs = Ids
  BY Parts DEF Good
<1>2. v \in Texts \cup {"empty", "none"} /\ v # "none"
  BY <1>1 DEF Inputs
<1> HIDE DEF v
<1>3. x \in Inputs
  BY <1>1, <1>2, InputFields
<1>4. /\ x.conversation_id = d.inputs[id].conversation_id
      /\ x.response_id = d.inputs[id].response_id
      /\ x.terminal = d.inputs[id].terminal
      /\ x.final # "none"
  BY <1>1, <1>2 DEF Inputs
<1>5. e = FinalizeIfMissing(d, id)
  BY <1>1 DEF FinalizeIfMissing, v, Inputs
<1> HIDE DEF x
<1>6. Good(e)
  BY <1>3, <1>4, InputKeepsTurns
<1>7. /\ e.inputs = [d.inputs EXCEPT ![id] = x]
      /\ e.responses = d.responses /\ e.conversation = d.conversation
      /\ SameRest(d, e)
  BY <1>1, <1>3, WithInputParts
<1> HIDE DEF e
<1> QED BY <1>1, <1>4, <1>5, <1>6, <1>7

(* _fail_input.                                                            *)
LEMMA FailInputGood ==
  ASSUME NEW d, Good(d), NEW id \in Ids, NEW code \in InputErrorCode
  PROVE  Good(AfterFailInput(d, id, code))
<1> DEFINE a == CloseIfOpen(d, id)
           b == FinalizeIfMissing(a, id)
           x == [b.inputs[id] EXCEPT !.failure = code]
<1>1. Good(a)
  BY CloseIfOpenGood
<1> HIDE DEF a
<1>2. Good(b)
  BY <1>1, FinalizeIfMissingGood
<1> HIDE DEF b
<1>3. b.inputs[id] \in Inputs
  BY <1>2, Parts DEF Good
<1>4. x \in Inputs
  BY <1>3, InputFields
<1>5. /\ x.conversation_id = b.inputs[id].conversation_id
      /\ x.response_id = b.inputs[id].response_id
      /\ x.terminal = b.inputs[id].terminal /\ x.final = b.inputs[id].final
  BY <1>3 DEF Inputs
<1> HIDE DEF x
<1>6. Good(WithInput(b, id, x))
  BY <1>2, <1>4, <1>5, InputKeepsTurns
<1> QED BY <1>6 DEF AfterFailInput, WithInputFailure, a, b, x
(* _fail_response, of the current response: its failure, its cancellation  *)
(* and perhaps the end of the conversation.                                *)
LEMMA FailResponseGood ==
  ASSUME NEW d, Good(d), NEW id \in Ids, NEW code \in ResponseErrorCode,
         d.responses[id].conversation_id \in Ids,
         CanFailResponse(d, id, code)
  PROVE  Good(AfterFailResponse(d, id, code))
<1> DEFINE r == d.responses[id]
           x == [r EXCEPT !.failure = code, !.stale = TRUE]
           a == WithResponseFailure(d, id, code)
           cancel == FailCancel(d, id, code)
           b == AfterFailCancel(d, id, code)
           end == FailEnd(d, id, code)
<1>1. d \in Data /\ r \in Responses /\ DOMAIN d.responses = Ids
  BY Parts DEF Good
<1>2. r.terminal = "none"
  BY DEF CanFailResponse
<1>3. Unfinished(r)
  BY <1>2, NoneIds DEF Unfinished
<1>4. d.conversation.response_id = id
  BY <1>3 DEF Good, Turns, ResponseTurn
<1>5. /\ x \in Responses
      /\ x.conversation_id = r.conversation_id /\ x.input_id = r.input_id
      /\ (EndRecorded(x) <=> EndRecorded(r)) /\ x.terminal = r.terminal
      /\ Unfinished(x)
  BY <1>1, <1>3 DEF Responses, Unfinished, EndRecorded
<1> HIDE DEF x
<1>6. /\ Good(a) /\ a.conversation = d.conversation
  <2>1. Good(WithResponse(d, id, x))
    BY <1>1, <1>3, <1>5, ResponseKeepsTurns
  <2>2. WithResponse(d, id, x).conversation = d.conversation
    BY <1>1, <1>5, WithResponseParts, ZenonT(30)
  <2> QED BY <2>1, <2>2 DEF WithResponseFailure, x
<1>7. /\ cancel.response_id = id
      /\ cancel.reason \in ResponseCancelReason
  BY DEF FailCancel, ResponseCancelled, ErrorCancelReason, ResponseErrorCode,
         ResponseCancelReason
<1> HIDE DEF a, cancel
<1>8. Good(AfterCancelResponse(a, cancel))
  BY <1>4, <1>6, <1>7, CancelGood
<1>9. Good(b) /\ b.conversation.id = d.conversation.id
  BY <1>4, <1>6, <1>7, CancelGood DEF AfterFailCancel, a, cancel
<1> HIDE DEF b
<1>10. CASE end.reason = "none"
  BY <1>9, <1>10 DEF AfterFailResponse, b
<1>11. CASE end.reason # "none"
  <2>1. end.conversation_id \in Ids
    BY <1>1, <1>4, NoInputDuringResponse DEF FailEnd, ConversationEnded
  <2>2. end.reason \in ConversationEndReason
    BY <1>9, <1>11, Parts DEF FailEnd, ConversationEnded, b, Conversations, Good
  <2>3. CanEndConversation(b, end)
    BY <1>11 DEF CanFailResponse, b
  <2> HIDE DEF end
  <2>4. Good(AfterEndConversation(b, end))
    BY <1>9, <2>1, <2>2, <2>3, EndConversationGood
  <2> QED BY <1>11, <2>4 DEF AfterFailResponse, b, end
<1> QED BY <1>10, <1>11

(* _fail_conversation: the children, then the conversation.                *)
LEMMA FailConversationGood ==
  ASSUME NEW d, Good(d), NEW code \in ConversationErrorCode,
         d.conversation.id \in Ids, CanFailConversation(d, code)
  PROVE  Good(AfterEndConversation(FailedConversation(d, code), FailConversationEnd(d, code)))
<1> DEFINE c == d.conversation
           a == WithStaleResponse(d)
           b == WithFailure(a, code)
           f == IF c.input_id = 0 THEN b
                ELSE FinalizeIfMissing(CloseIfOpen(b, c.input_id), c.input_id)
           cancel == ResponseCancelled(c.id, c.response_id, "conversation_cancelled")
           g == FailedConversation(d, code)
           end == FailConversationEnd(d, code)
<1>1. d \in Data /\ c \in Conversations
  BY Parts DEF Good
<1>2. c.response_id \in OptionalIds /\ c.input_id \in OptionalIds
  BY <1>1 DEF Conversations
<1>3. Good(a) /\ a.conversation = c
  <2>1. CASE c.response_id = 0
    BY <2>1 DEF WithStaleResponse
  <2>2. CASE c.response_id # 0
    <3> DEFINE id == c.response_id
               x == [d.responses[id] EXCEPT !.stale = TRUE]
    <3>1. id \in Ids /\ d.responses[id] \in Responses
      BY <1>1, <1>2, <2>2, NoneIds, Parts
    <3>2. /\ x \in Responses
          /\ x.conversation_id = d.responses[id].conversation_id
          /\ x.input_id = d.responses[id].input_id
          /\ (EndRecorded(x) <=> EndRecorded(d.responses[id])) /\ x.terminal = d.responses[id].terminal
          /\ Unfinished(x) <=> Unfinished(d.responses[id])
      BY <3>1 DEF Responses, Unfinished, EndRecorded
    <3> HIDE DEF x
    <3>3. Good(WithResponse(d, id, x)) /\ WithResponse(d, id, x).conversation = c
      BY <1>1, <3>1, <3>2, ResponseKeepsTurns, WithResponseParts
    <3> QED BY <2>2, <3>3 DEF WithStaleResponse, x
  <2> QED BY <2>1, <2>2
<1> HIDE DEF a
<1>4. /\ Good(b) /\ b.conversation.id = c.id
      /\ b.conversation.response_id = c.response_id
  <2> DEFINE y == [a.conversation EXCEPT !.failure = code]
  <2>1. /\ y \in Conversations
        /\ y.id = c.id /\ y.input_id = c.input_id /\ y.response_id = c.response_id
        /\ y.cancel = c.cancel /\ y.expected_end_reason = c.expected_end_reason
    BY <1>1, <1>3, ConversationFields DEF Conversations
  <2> HIDE DEF y
  <2>2. Good(WithConversation(a, y)) /\ WithConversation(a, y).conversation = y
    BY <1>3, <2>1, ConversationKeepsTurns, WithConversationParts DEF Good
  <2> QED BY <2>1, <2>2 DEF WithFailure, y
<1> HIDE DEF b
<1>5. Good(f) /\ f.conversation.response_id = c.response_id
  <2>1. CASE c.input_id = 0
    BY <1>4, <2>1
  <2>2. CASE c.input_id # 0
    <3>1. c.input_id \in Ids
      BY <1>2, <2>2, NoneIds
    <3>2. Good(CloseIfOpen(b, c.input_id))
          /\ CloseIfOpen(b, c.input_id).conversation = b.conversation
      BY <1>4, <3>1, CloseIfOpenGood
    <3> QED BY <1>4, <2>2, <3>1, <3>2, FinalizeIfMissingGood
  <2> QED BY <2>1, <2>2
<1>6. Good(g)
  <2>1. g = IF c.response_id = 0 THEN f ELSE AfterCancelResponse(f, cancel)
    BY DEF FailedConversation, f, b, a
  <2> HIDE DEF f, g
  <2>2. CASE c.response_id = 0
    BY <1>5, <2>1, <2>2
  <2>3. CASE c.response_id # 0
    <3>1. cancel.response_id \in Ids /\ cancel.response_id = c.response_id
          /\ cancel.reason \in ResponseCancelReason
      BY <1>2, <2>3, NoneIds DEF ResponseCancelled, ResponseCancelReason
    <3> HIDE DEF cancel
    <3>2. Good(AfterCancelResponse(f, cancel))
      BY <1>5, <3>1, CancelGood
    <3> QED BY <2>1, <2>3, <3>2
  <2> QED BY <2>2, <2>3
<1>7. end.conversation_id \in Ids /\ end.reason \in ConversationEndReason
  BY DEF FailConversationEnd, ConversationEnded, FailureEndReason, ConversationEndReason
<1>8. CanEndConversation(g, end)
  BY DEF CanFailConversation
<1> HIDE DEF g, end
<1>9. Good(AfterEndConversation(g, end))
  BY <1>6, <1>7, <1>8, EndConversationGood
<1> QED BY <1>9 DEF g, end
-----------------------------------------------------------------------------
(* The handlers.                                                           *)

(* _accept_handshake changes neither objects nor allocators.               *)
LEMMA HelloGood ==
  ASSUME NEW d, Good(d), NEW m \in ClientHellos \cup ServerHellos \cup AnyErrors,
         CanAcceptHello(d, m)
  PROVE  Good(AfterHello(d, m))
<1>1. d \in Data
  BY DEF Good
<1>2. CASE m.type = "client.hello"
  <2>1. m.output_formats \in SUBSET Formats
    BY <1>2 DEF ClientHellos, ServerHellos, AnyErrors, ConnectionErrors, AnyConversationErrors,
                AnyInputErrors, AnyResponseErrors, Error
  <2>2. AfterHello(d, m) = [d EXCEPT !.client_hello = m.output_formats]
    BY <1>2 DEF AfterHello
  <2>3. [d EXCEPT !.client_hello = m.output_formats] \in Data
    BY <1>1, <2>1 DEF Data
  <2> QED BY <1>1, <2>2, <2>3, TurnsFrame DEF Data
<1>3. CASE m.type = "server.hello"
  <2>1. m.output_format \in Formats
    BY <1>3 DEF ClientHellos, ServerHellos, AnyErrors, ConnectionErrors, AnyConversationErrors,
                AnyInputErrors, AnyResponseErrors, Error
  <2>2. AfterHello(d, m) = [d EXCEPT !.server_hello = m.output_format,
                                     !.connection_state = "ready"]
    BY <1>3 DEF AfterHello
  <2>3. [d EXCEPT !.server_hello = m.output_format, !.connection_state = "ready"] \in Data
    BY <1>1, <2>1 DEF Data, ConnectionState
  <2> QED BY <1>1, <2>2, <2>3, TurnsFrame DEF Data
<1>4. CASE m.type \notin {"client.hello", "server.hello"}
  <2>1. AfterHello(d, m) = [d EXCEPT !.connection_state = "closing"]
    BY <1>4 DEF AfterHello
  <2>2. [d EXCEPT !.connection_state = "closing"] \in Data
    BY <1>1 DEF Data, ConnectionState
  <2> QED BY <1>1, <2>1, <2>2, TurnsFrame DEF Data
<1> QED BY <1>2, <1>3, <1>4

(* _start_conversation: nothing is open, so nothing has to be.             *)
LEMMA StartConversationGood ==
  ASSUME NEW d, Good(d), NEW m \in AnyConversationStarts, CanStartConversation(d, m)
  PROVE  Good(AfterStartConversation(d, m))
<1> DEFINE x == [NoConversation EXCEPT !.id = m.conversation_id]
           a == WithConversation(d, x)
           e == [a EXCEPT !.conversation_ids = @ + 1]
<1>1. d \in Data /\ Turns(d)
  BY DEF Good
<1>2. m.conversation_id \in Ids
  BY DEF AnyConversationStarts
<1>3. /\ x \in Conversations
      /\ x.input_id = 0 /\ x.response_id = 0 /\ x.expected_end_reason = "none"
  BY <1>2, NoneIds, EmptyRecords DEF Conversations, NoConversation
<1> HIDE DEF x
<1>4. /\ a \in Data /\ a.inputs = d.inputs /\ a.responses = d.responses
      /\ a.conversation = x /\ SameRest(d, a)
  BY <1>1, <1>3, WithConversationParts
<1> HIDE DEF a
<1>5. a.conversation_ids + 1 \in NextIds
  BY <1>2, <1>4, NoneIds DEF CanStartConversation, SameRest
<1>6. /\ e \in Data /\ e.inputs = d.inputs /\ e.responses = d.responses
      /\ e.conversation = x
      /\ e.input_ids = d.input_ids /\ e.response_ids = d.response_ids
  BY <1>4, <1>5 DEF Data, SameRest
<1> HIDE DEF e
<1>7. d.conversation.id = 0
  BY DEF CanStartConversation
<1>8. d.conversation.input_id = 0 /\ d.conversation.response_id = 0
  <2>1. d.conversation.input_id = 0
    BY <1>1, <1>7 DEF Turns, CurrentInput
  <2>2. ASSUME d.conversation.response_id # 0 PROVE FALSE
    <3>1. d.conversation.response_id \in Ids
      BY <1>1, <2>2, Parts, NoneIds DEF Conversations
    <3>2. Unfinished(d.responses[d.conversation.response_id])
      BY <3>1, NoInputDuringResponse
    <3> QED BY <1>7, <3>1, <3>2, NoInputDuringResponse DEF Unfinished
  <2> QED BY <2>1, <2>2
<1>9. InputTurn(e)
  BY <1>1, <1>6, <1>8, NoneIds DEF Turns, InputTurn
<1>10. ResponseTurn(e)
  BY <1>1, <1>3, <1>6, <1>8, NoneIds, SMTT(30) DEF Turns, ResponseTurn
<1>11. Answered(e) /\ Allocated(e)
  BY <1>1, <1>6 DEF Turns, Answered, Allocated
<1>12. CurrentInput(e) /\ EndDue(e)
  BY <1>3, <1>6 DEF CurrentInput, EndDue
<1> QED
  BY <1>6, <1>9, <1>10, <1>11, <1>12 DEF Good, Turns, AfterStartConversation, e, a, x

(* A fresh input takes its place when nothing else is open.                *)
LEMMA NewInputGood ==
  ASSUME NEW d, Good(d), NEW id \in Ids, NEW x \in Inputs,
         id = d.input_ids,
         d.conversation.id \in Ids, x.conversation_id = d.conversation.id,
         x.response_id = 0,
         d.conversation.cancel = "none", d.conversation.expected_end_reason = "none",
         d.conversation.response_id = 0,
         \A i \in Ids : ~ OpenInput(d.inputs[i])
  PROVE  Good([WithInput(WithConversation(d, [d.conversation EXCEPT !.input_id = id]), id, x)
               EXCEPT !.input_ids = @ + 1])
<1> DEFINE y == [d.conversation EXCEPT !.input_id = id]
           a == WithConversation(d, y)
           b == WithInput(a, id, x)
           e == [b EXCEPT !.input_ids = @ + 1]
<1>1. d \in Data /\ Turns(d) /\ d.conversation \in Conversations /\ DOMAIN d.inputs = Ids
  BY Parts DEF Good
<1>2. /\ y \in Conversations
      /\ y.id = d.conversation.id /\ y.input_id = id /\ y.response_id = 0
      /\ y.cancel = "none" /\ y.expected_end_reason = "none"
  BY <1>1, NoneIds, ConversationFields DEF Conversations
<1> HIDE DEF y
<1>3. /\ a \in Data /\ a.inputs = d.inputs /\ a.responses = d.responses
      /\ a.conversation = y /\ SameRest(d, a)
  BY <1>1, <1>2, WithConversationParts
<1> HIDE DEF a
<1>4. /\ b \in Data /\ b.inputs = [d.inputs EXCEPT ![id] = x]
      /\ b.responses = d.responses /\ b.conversation = y /\ SameRest(a, b)
  BY <1>3, WithInputParts
<1> HIDE DEF b
<1>5. b.input_ids = id /\ b.response_ids = d.response_ids
  BY <1>3, <1>4 DEF SameRest
<1>6. id + 1 \in NextIds
  BY NoneIds
<1>7. /\ e \in Data /\ e.inputs = [d.inputs EXCEPT ![id] = x]
      /\ e.responses = d.responses /\ e.conversation = y
      /\ e.input_ids = id + 1 /\ e.response_ids = d.response_ids
  BY <1>4, <1>5, <1>6 DEF Data
<1> HIDE DEF e
<1>8. /\ e.inputs[id] = x
      /\ \A i \in Ids : i # id => e.inputs[i] = d.inputs[i]
  BY <1>1, <1>7
<1>9. d.inputs[id].conversation_id = 0
  BY <1>1 DEF Turns, Allocated, Ids
<1>10. \A i \in Ids : d.inputs[i].response_id # 0 =>
         d.inputs[i].response_id \in Ids
  BY <1>1, Parts, NoneIds DEF Inputs
<1>11. \A r \in Ids : d.responses[r].conversation_id # 0 =>
         d.responses[r].input_id \in Ids /\ d.responses[r].input_id # id
  BY <1>1, <1>9, Parts, NoneIds, SMTT(30) DEF Turns, Answered, Responses
<1>12. InputTurn(e)
  BY <1>2, <1>7, <1>8 DEF InputTurn
<1>13. ResponseTurn(e)
  BY <1>1, <1>2, <1>7, NoneIds DEF Turns, ResponseTurn
<1>14. Answered(e)
  <2>1. ASSUME NEW r \in Ids, e.responses[r].conversation_id # 0
        PROVE  /\ e.responses[r].input_id # 0
               /\ e.inputs[e.responses[r].input_id] = d.inputs[d.responses[r].input_id]
    BY <2>1, <1>7, <1>8, <1>11, NoneIds
  <2>2. ASSUME NEW i \in Ids, e.inputs[i].response_id # 0
        PROVE  /\ e.responses[e.inputs[i].response_id].input_id = i
               /\ e.responses[e.inputs[i].response_id].conversation_id # 0
    BY <2>2, <1>1, <1>7, <1>8 DEF Turns, Answered
  <2> QED BY <1>1, <1>7, <2>1, <2>2, SMTT(30) DEF Turns, Answered
<1>15. Allocated(e)
  <2>1. \A i \in Ids : e.inputs[i].conversation_id # 0 <=> i < e.input_ids
    BY <1>1, <1>7, <1>8, NoneIds DEF Turns, Allocated, Ids
  <2> QED BY <2>1, <1>1, <1>7 DEF Turns, Allocated
<1>16. CurrentInput(e) /\ EndDue(e)
  BY <1>2, <1>7, <1>8, NoneIds DEF CurrentInput, EndDue
<1> QED
  BY <1>7, <1>12, <1>13, <1>14, <1>15, <1>16 DEF Good, Turns, e, b, a, y
(* _start_input: a barge-in finds, or makes, the interrupted response      *)
(* cancelled; any other input finds nothing open.                          *)
LEMMA StartInputGood ==
  ASSUME NEW d, Good(d), NEW m \in AnyInputStarts, CanStartInput(d, m)
  PROVE  Good(AfterStartInput(d, m))
<1> DEFINE c == d.conversation
           k == m.interrupts_response_id
           r == d.responses[k]
           x == NewInput(m)
           base == IF CancelsOnBarge(d, m) THEN AfterCancelResponse(d, BargeCancel(m)) ELSE d
<1>1. /\ m.input_id \in Ids /\ m.conversation_id \in Ids
      /\ m.reason \in InputStartReason /\ k \in OptionalIds
      /\ m.reason = "barge_in" => k \in Ids
  BY NoneIds DEF AnyInputStarts, InputStartReason
<1>2. d \in Data /\ Turns(d) /\ c \in Conversations
  BY Parts DEF Good
<1>3. /\ c.id = m.conversation_id /\ c.cancel = "none" /\ c.failure = "none"
      /\ c.expected_end_reason = "none" /\ m.input_id = d.input_ids
  BY DEF CanStartInput, Live, Open
<1>4. /\ x \in Inputs /\ x.conversation_id = m.conversation_id /\ x.response_id = 0
  BY <1>1, EmptyRecords, NoneIds DEF NewInput, NoInput, Inputs
<1> HIDE DEF x
<1>5. /\ Good(base)
      /\ base.conversation.id = c.id /\ base.conversation.cancel = "none"
      /\ base.conversation.expected_end_reason = "none"
      /\ base.conversation.response_id = 0
      /\ \A i \in Ids : ~ OpenInput(base.inputs[i])
      /\ base.input_ids = d.input_ids
  <2>1. CASE CancelsOnBarge(d, m)
    <3>1. m.reason = "barge_in" /\ ~ IsCancelled(r) /\ k \in Ids
      BY <1>1, <2>1 DEF CancelsOnBarge
    <3>2. c.response_id = k
      BY <3>1 DEF CanStartInput, CanInterrupt, IsCancelled, ResponseCancelReason
    <3>3. /\ BargeCancel(m).response_id = k /\ BargeCancel(m).reason = "barge_in"
          /\ "barge_in" \in ResponseCancelReason
      BY DEF BargeCancel, ResponseCancelled, ResponseCancelReason
    <3>4. CancellationEnd(c, r, "barge_in") = "none"
      BY <1>3 DEF CancellationEnd, CancellationEndReason
    <3>5. /\ Good(base) /\ base.inputs = d.inputs
          /\ base.conversation.id = c.id /\ base.conversation.cancel = c.cancel
          /\ base.conversation.expected_end_reason = "none"
          /\ base.conversation.response_id = 0
          /\ SameRest(d, base)
      BY <2>1, <3>1, <3>2, <3>3, <3>4, CancelGood
    <3>6. \A i \in Ids : ~ OpenInput(d.inputs[i])
      BY <3>1, <3>2, NoInputDuringResponse
    <3> HIDE DEF base
    <3> QED BY <1>3, <3>5, <3>6 DEF SameRest
  <2>2. CASE ~ CancelsOnBarge(d, m) /\ m.reason = "barge_in"
    <3>1. IsCancelled(r) /\ k \in Ids
      BY <1>1, <2>2 DEF CancelsOnBarge
    <3>2. r.conversation_id = m.conversation_id /\ r.conversation_id # 0
      BY <1>1, <2>2, NoneIds DEF CanStartInput, CanInterrupt
    <3>3. ~ Unfinished(r)
      BY <3>1 DEF Unfinished, IsCancelled, ResponseCancelReason
    <3>4. c.input_id \in {0, r.input_id}
      BY <2>2 DEF CanStartInput, CanInterrupt
    <3>5. r.input_id \in Ids
      BY <1>2, <3>1, <3>2, Parts, NoneIds, SMTT(30) DEF Turns, Answered, Responses
    <3>6. /\ d.inputs[r.input_id].response_id = k
          /\ d.inputs[r.input_id].terminal # NoTerminal
      BY <1>2, <3>1, <3>2 DEF Turns, Answered
    <3>7. c.response_id = 0
      <4> SUFFICES ASSUME c.response_id # 0 PROVE FALSE
        OBVIOUS
      <4>1. c.response_id \in Ids
        BY <1>2, NoneIds DEF Conversations
      <4>2. /\ Unfinished(d.responses[c.response_id])
            /\ c.input_id = d.responses[c.response_id].input_id
        BY <4>1, NoInputDuringResponse, SMTT(30)
      <4>3. /\ d.responses[c.response_id].input_id # 0
            /\ d.inputs[d.responses[c.response_id].input_id].response_id = c.response_id
        BY <1>2, <4>1, <4>2 DEF Turns, Answered, Unfinished
      <4>4. c.response_id = k
        BY <3>4, <3>6, <4>2, <4>3
      <4> QED BY <3>3, <4>2, <4>4
    <3>8. \A i \in Ids : ~ OpenInput(d.inputs[i])
      BY <1>2, <3>4, <3>6, NoneIds DEF Turns, InputTurn, OpenInput
    <3> QED BY <1>3, <2>2, <3>7, <3>8
  <2>3. CASE m.reason # "barge_in"
    <3>1. ~ CancelsOnBarge(d, m) /\ c.response_id = 0 /\ c.input_id = 0
      BY <2>3 DEF CancelsOnBarge, CanStartInput
    <3>2. \A i \in Ids : ~ OpenInput(d.inputs[i])
      BY <1>2, <3>1, NoneIds DEF Turns, InputTurn
    <3> QED BY <1>3, <3>1, <3>2
  <2> QED BY <2>1, <2>2, <2>3
<1> HIDE DEF base
<1>6. Good([WithInput(WithConversation(base, [base.conversation EXCEPT !.input_id = m.input_id]),
                      m.input_id, x) EXCEPT !.input_ids = @ + 1])
  BY <1>1, <1>3, <1>4, <1>5, NewInputGood, SMTT(30)
<1> QED BY <1>6 DEF AfterStartInput, base, x

(* _start_response: the answered input was neither open nor answered.      *)
LEMMA StartResponseGood ==
  ASSUME NEW d, Good(d), NEW m \in AnyResponseStarts, CanStartResponse(d, m)
  PROVE  Good(AfterStartResponse(d, m))
<1> DEFINE id == m.response_id
           j == m.input_id
           answered == [d.inputs[j] EXCEPT !.response_id = id]
           y == [d.conversation EXCEPT !.response_id = id]
           x == NewResponse(m)
           a == WithInput(d, j, answered)
           b == WithConversation(a, y)
           c == WithResponse(b, id, x)
           e == [c EXCEPT !.response_ids = @ + 1]
<1>1. /\ j \in Ids /\ id \in Ids /\ m.conversation_id \in Ids
      /\ m.end_conversation \in BOOLEAN
  BY DEF AnyResponseStarts
<1>2. /\ d \in Data /\ Turns(d) /\ d.inputs[j] \in Inputs
      /\ d.conversation \in Conversations
      /\ DOMAIN d.inputs = Ids /\ DOMAIN d.responses = Ids
  BY <1>1, Parts DEF Good
<1>3. /\ d.conversation.id = m.conversation_id
      /\ d.conversation.response_id = 0 /\ d.conversation.input_id = j
      /\ d.conversation.expected_end_reason = "none"
      /\ d.inputs[j].conversation_id = m.conversation_id
      /\ d.inputs[j].terminal # NoTerminal /\ d.inputs[j].final # "none"
      /\ d.inputs[j].response_id = 0
      /\ id = d.response_ids
  BY DEF CanStartResponse, Live, Open, KnownInput
<1>4. /\ answered \in Inputs /\ answered.response_id = id
      /\ answered.conversation_id = m.conversation_id
      /\ answered.terminal # NoTerminal /\ answered.final # "none"
  <2>1. answered \in Inputs
    BY <1>1, <1>2, NoneIds, InputFields
  <2>2. /\ answered.response_id = id
        /\ answered.conversation_id = d.inputs[j].conversation_id
        /\ answered.terminal = d.inputs[j].terminal
        /\ answered.final = d.inputs[j].final
    BY <1>2 DEF Inputs
  <2> QED BY <2>1, <2>2, <1>3
<1>5. /\ y \in Conversations /\ y.id = m.conversation_id /\ y.response_id = id
      /\ y.input_id = j /\ y.expected_end_reason = "none"
  BY <1>1, <1>2, <1>3, NoneIds, ConversationFields DEF Conversations
<1>6. /\ x \in Responses /\ x.conversation_id = m.conversation_id /\ x.input_id = j
      /\ x.terminal = "none" /\ EndRecorded(x)
  BY <1>1, EmptyRecords, NoneIds DEF NewResponse, NoResponse, Responses, EndRecorded
<1> HIDE DEF answered, x, y
<1>7. /\ a \in Data /\ a.inputs = [d.inputs EXCEPT ![j] = answered]
      /\ a.responses = d.responses /\ SameRest(d, a)
  BY <1>1, <1>2, <1>4, WithInputParts
<1> HIDE DEF a
<1>8. /\ b \in Data /\ b.inputs = a.inputs /\ b.responses = a.responses
      /\ b.conversation = y /\ SameRest(a, b)
  BY <1>5, <1>7, WithConversationParts
<1> HIDE DEF b
<1>9. /\ c \in Data /\ c.inputs = b.inputs /\ c.conversation = b.conversation
      /\ c.responses = [d.responses EXCEPT ![id] = x] /\ SameRest(b, c)
  BY <1>1, <1>6, <1>7, <1>8, WithResponseParts
<1> HIDE DEF c
<1>10. c.response_ids = id /\ c.input_ids = d.input_ids
  BY <1>3, <1>7, <1>8, <1>9 DEF SameRest
<1>11. id + 1 \in NextIds
  BY <1>1, NoneIds
<1>12. /\ e \in Data /\ e.inputs = [d.inputs EXCEPT ![j] = answered]
       /\ e.responses = [d.responses EXCEPT ![id] = x] /\ e.conversation = y
       /\ e.input_ids = d.input_ids /\ e.response_ids = id + 1
  BY <1>7, <1>8, <1>9, <1>10, <1>11 DEF Data
<1> HIDE DEF e
<1>13. /\ e.responses[id] = x /\ e.inputs[j] = answered
       /\ \A r \in Ids : r # id => e.responses[r] = d.responses[r]
       /\ \A i \in Ids : i # j => e.inputs[i] = d.inputs[i]
  BY <1>1, <1>2, <1>12
<1>14. d.responses[id].conversation_id = 0
  BY <1>1, <1>2, <1>3 DEF Turns, Allocated, Ids
<1>15. InputTurn(e)
  <2>1. \A i \in Ids : ~ OpenInput(e.inputs[i])
    BY <1>2, <1>3, <1>4, <1>13 DEF Turns, InputTurn, OpenInput
  <2> QED BY <2>1 DEF InputTurn
<1>16. ResponseTurn(e)
  <2>1. \A r \in Ids : ~ Unfinished(d.responses[r])
    BY <1>2, <1>3, NoneIds DEF Turns, ResponseTurn
  <2>2. Unfinished(x)
    BY <1>1, <1>6, NoneIds DEF Unfinished
  <2> QED BY <1>2, <1>5, <1>6, <1>12, <1>13, <2>1, <2>2 DEF Turns, ResponseTurn
<1>17. Answered(e)
  <2>1. ASSUME NEW r \in Ids, e.responses[r].conversation_id # 0
        PROVE  /\ e.responses[r].input_id # 0
               /\ e.inputs[e.responses[r].input_id].response_id = r
               /\ e.inputs[e.responses[r].input_id].conversation_id = e.responses[r].conversation_id
               /\ e.inputs[e.responses[r].input_id].terminal # NoTerminal
               /\ e.inputs[e.responses[r].input_id].final # "none"
    <3>1. CASE r = id
      BY <3>1, <1>1, <1>4, <1>6, <1>13, NoneIds, SMTT(30)
    <3>2. CASE r # id
      <4>1. /\ d.responses[r].input_id \in Ids
            /\ d.inputs[d.responses[r].input_id].response_id = r
        BY <3>2, <2>1, <1>2, <1>13, Parts, NoneIds DEF Turns, Answered, Responses
      <4>2. d.responses[r].input_id # j
        BY <4>1, <1>3, NoneIds
      <4> QED BY <3>2, <4>1, <4>2, <2>1, <1>2, <1>13, SMTT(30) DEF Turns, Answered
    <3> QED BY <3>1, <3>2
  <2>2. ASSUME NEW i \in Ids, e.inputs[i].response_id # 0
        PROVE  /\ e.responses[e.inputs[i].response_id].input_id = i
               /\ e.responses[e.inputs[i].response_id].conversation_id # 0
    <3>1. CASE i = j
      BY <3>1, <1>1, <1>4, <1>6, <1>13, NoneIds
    <3>2. CASE i # j
      <4>1. /\ d.inputs[i].response_id \in Ids
            /\ d.responses[d.inputs[i].response_id].conversation_id # 0
            /\ d.responses[d.inputs[i].response_id].input_id = i
        BY <3>2, <2>2, <1>2, <1>13, Parts, NoneIds DEF Turns, Answered, Inputs
      <4> QED BY <3>2, <4>1, <1>13, <1>14
    <3> QED BY <3>1, <3>2
  <2> QED BY <2>1, <2>2 DEF Answered
<1>18. Allocated(e)
  <2>1. \A r \in Ids : e.responses[r].conversation_id # 0 <=> r < e.response_ids
    BY <1>1, <1>2, <1>3, <1>6, <1>12, <1>13, NoneIds DEF Turns, Allocated, Ids
  <2>2. \A i \in Ids : e.inputs[i].conversation_id = d.inputs[i].conversation_id
    BY <1>3, <1>4, <1>13
  <2> QED BY <2>1, <2>2, <1>2, <1>12 DEF Turns, Allocated
<1>19. CurrentInput(e) /\ EndDue(e)
  BY <1>1, <1>4, <1>5, <1>12, <1>13, NoneIds DEF CurrentInput, EndDue
<1> QED
  BY <1>12, <1>15, <1>16, <1>17, <1>18, <1>19
  DEF Good, Turns, AfterStartResponse, e, c, b, a, x, y, answered
(* _accept_input_audio records the chunk, or fails the input.              *)
LEMMA InputAudioGood ==
  ASSUME NEW d, Good(d), NEW m \in AnyInputAudios, CanAcceptInputAudio(d, m)
  PROVE  Good(AfterInputAudio(d, m))
<1> DEFINE end == m.start_frame + m.frames
           i == d.inputs[m.input_id]
           x == [i EXCEPT !.received = end, !.boundaries = @ \cup {end}]
<1>1. m.input_id \in Ids /\ m.start_frame \in Nat /\ m.frames \in Nat
  BY DEF AnyInputAudios, Positive
<1>2. i \in Inputs
  BY <1>1, Parts DEF Good
<1>3. CASE end > MaxInputFrames
  <2>1. "input_too_long" \in InputErrorCode
    BY DEF InputErrorCode
  <2> QED BY <1>1, <1>3, <2>1, FailInputGood DEF AfterInputAudio
<1>4. CASE ~ (end > MaxInputFrames)
  <2>1. end \in Nat
    BY <1>1
  <2> HIDE DEF end
  <2>2. /\ x \in Inputs
        /\ x.conversation_id = i.conversation_id /\ x.response_id = i.response_id
        /\ x.terminal = i.terminal /\ x.final = i.final
    BY <1>2, <2>1 DEF Inputs
  <2> HIDE DEF x
  <2>3. Good(WithInput(d, m.input_id, x))
    BY <1>1, <2>2, InputKeepsTurns
  <2> QED BY <1>4, <2>3 DEF AfterInputAudio, x, end
<1> QED BY <1>3, <1>4

(* _abort_input.                                                           *)
LEMMA AbortInputGood ==
  ASSUME NEW d, Good(d), NEW m \in AnyInputAborts, CanAbortInput(d, m)
  PROVE  Good(AfterAbortInput(d, m))
<1>1. m.input_id \in Ids /\ m.reason \in InputAbortReason
  BY DEF AnyInputAborts
<1>2. Aborted(m.reason) \in Terminations
  BY <1>1 DEF Terminations
<1>3. Aborted(m.reason).kind = "aborted"
  BY DEF Aborted
<1>4. Good(Terminalize(d, m.input_id, Aborted(m.reason)))
  BY <1>1, <1>2, <1>3, TerminalizeGood
<1> QED BY <1>4 DEF AfterAbortInput

(* Recording what was committed of an input.                               *)
LEMMA CommittedGood ==
  ASSUME NEW d, Good(d), NEW id \in Ids, NEW end \in Nat
  PROVE  Good(WithCommitted(d, id, end))
<1> DEFINE x == [d.inputs[id] EXCEPT !.committed = end]
<1>1. d.inputs[id] \in Inputs
  BY Parts DEF Good
<1>2. x \in Inputs
  BY <1>1, InputFields
<1>3. /\ x.conversation_id = d.inputs[id].conversation_id
      /\ x.response_id = d.inputs[id].response_id
      /\ x.terminal = d.inputs[id].terminal /\ x.final = d.inputs[id].final
  BY <1>1 DEF Inputs
<1> HIDE DEF x
<1>4. Good(WithInput(d, id, x))
  BY <1>2, <1>3, InputKeepsTurns
<1> QED BY <1>4 DEF WithCommitted, x

(* Committing and closing at the committed frame.                          *)
LEMMA CommitAndCloseGood ==
  ASSUME NEW d, Good(d), NEW id \in Ids, NEW end \in Nat,
         NEW reason \in InputCloseReason
  PROVE  Good(Terminalize(WithCommitted(d, id, end), id, Closed(end, reason)))
<1>1. Good(WithCommitted(d, id, end))
  BY CommittedGood
<1>2. Closed(end, reason) \in Terminations
  BY DEF Terminations
<1>3. Closed(end, reason).kind = "closed"
  BY DEF Closed
<1> QED BY <1>1, <1>2, <1>3, TerminalizeGood

(* _close_input.                                                           *)
LEMMA CloseInputGood ==
  ASSUME NEW d, Good(d), NEW m \in AnyInputCloses, CanCloseInput(d, m)
  PROVE  Good(AfterCloseInput(d, m))
<1>1. /\ m.input_id \in Ids /\ m.reason \in InputCloseReason
      /\ m.accepted_end_frame \in Nat
  BY DEF AnyInputCloses
<1> QED BY <1>1, CommitAndCloseGood DEF AfterCloseInput

(* _commit_input_audio.                                                    *)
LEMMA CommitInputAudioGood ==
  ASSUME NEW d, Good(d), NEW id \in Ids, NEW end \in Nat,
         CanCommitInputAudio(d, id, end)
  PROVE  Good(AfterCommitInputAudio(d, id, end))
<1>1. "max_duration" \in InputCloseReason
  BY DEF InputCloseReason
<1> QED BY <1>1, CommittedGood, CommitAndCloseGood DEF AfterCommitInputAudio

(* _accept_transcript_update.                                              *)
LEMMA TranscriptUpdateGood ==
  ASSUME NEW d, Good(d), NEW m \in AnyTranscriptUpdates
  PROVE  Good(AfterTranscriptUpdate(d, m))
<1> DEFINE i == d.inputs[m.input_id]
           x == [i EXCEPT !.update = [revision |-> m.revision, text |-> m.text]]
<1>1. m.input_id \in Ids /\ m.revision \in Nat /\ m.text \in Texts
  BY DEF AnyTranscriptUpdates, Positive
<1>2. i \in Inputs
  BY <1>1, Parts DEF Good
<1>3. /\ x \in Inputs
      /\ x.conversation_id = i.conversation_id /\ x.response_id = i.response_id
      /\ x.terminal = i.terminal /\ x.final = i.final
  BY <1>1, <1>2 DEF Inputs
<1> HIDE DEF x
<1>4. Good(WithInput(d, m.input_id, x))
  BY <1>1, <1>3, InputKeepsTurns
<1> QED BY <1>4 DEF AfterTranscriptUpdate, x

(* _accept_transcript_final.                                               *)
LEMMA TranscriptFinalGood ==
  ASSUME NEW d, Good(d), NEW m \in AnyTranscriptFinals
  PROVE  Good(AfterTranscriptFinal(d, m))
<1> DEFINE i == d.inputs[m.input_id]
           x == [i EXCEPT !.final = m.text]
<1>1. m.input_id \in Ids /\ m.text \in Texts \cup {"empty", "none"} /\ m.text # "none"
  BY ProtocolAssumption DEF AnyTranscriptFinals
<1>2. i \in Inputs
  BY <1>1, Parts DEF Good
<1>3. x \in Inputs
  BY <1>1, <1>2, InputFields
<1>4. /\ x.conversation_id = i.conversation_id /\ x.response_id = i.response_id
      /\ x.terminal = i.terminal /\ x.final = m.text
  BY <1>2 DEF Inputs
<1> HIDE DEF x
<1>5. Good(WithInput(d, m.input_id, x))
  BY <1>1, <1>3, <1>4, InputKeepsTurns
<1> QED BY <1>5 DEF AfterTranscriptFinal, x

(* _accept_response_text_delta.                                            *)
LEMMA TextDeltaGood ==
  ASSUME NEW d, Good(d), NEW m \in AnyTextDeltas
  PROVE  Good(AfterTextDelta(d, m))
<1> DEFINE r == d.responses[m.response_id]
           x == [r EXCEPT !.text = Append(@, m.text)]
<1>1. m.response_id \in Ids /\ m.text \in Texts
  BY DEF AnyTextDeltas
<1>2. r \in Responses
  BY <1>1, Parts DEF Good
<1>3. r.text \in Seq(Texts)
  BY <1>2 DEF Responses
<1>4. Append(r.text, m.text) \in Seq(Texts)
  BY <1>1, <1>3
<1>5. /\ x \in Responses
      /\ x.conversation_id = r.conversation_id /\ x.input_id = r.input_id
      /\ (EndRecorded(x) <=> EndRecorded(r)) /\ x.terminal = r.terminal
      /\ Unfinished(x) <=> Unfinished(r)
  BY <1>2, <1>4 DEF Responses, Unfinished, EndRecorded
<1> HIDE DEF x
<1>6. Good(WithResponse(d, m.response_id, x))
  BY <1>1, <1>5, ResponseKeepsTurns
<1> QED BY <1>6 DEF AfterTextDelta, x

(* _accept_response_text_final.                                            *)
LEMMA TextFinalGood ==
  ASSUME NEW d, Good(d), NEW m \in AnyTextFinals
  PROVE  Good(AfterTextFinal(d, m))
<1> DEFINE r == d.responses[m.response_id]
           x == [r EXCEPT !.text_final = TRUE]
<1>1. m.response_id \in Ids
  BY DEF AnyTextFinals
<1>2. r \in Responses
  BY <1>1, Parts DEF Good
<1>3. /\ x \in Responses
      /\ x.conversation_id = r.conversation_id /\ x.input_id = r.input_id
      /\ (EndRecorded(x) <=> EndRecorded(r)) /\ x.terminal = r.terminal
      /\ Unfinished(x) <=> Unfinished(r)
  BY <1>2 DEF Responses, Unfinished, EndRecorded
<1> HIDE DEF x
<1>4. Good(WithResponse(d, m.response_id, x))
  BY <1>1, <1>3, ResponseKeepsTurns
<1> QED BY <1>4 DEF AfterTextFinal, x
(* _start_output, of a live response or, born cancelled, of a stale one.   *)
LEMMA StartOutputGood ==
  ASSUME NEW d, Good(d), NEW m \in AnyOutputStarts, CanStartOutput(d, m)
  PROVE  Good(AfterStartOutput(d, m))
<1> DEFINE id == m.response_id
           r == d.responses[id]
           t == IF Stale(r) THEN "cancelled" ELSE "none"
           o == [NoOutput EXCEPT !.id = m.output_id, !.terminal = t]
           x == [r EXCEPT !.output = o]
           a == WithResponse(d, id, x)
           b == [a EXCEPT !.output_ids = @ + 1]
           y == [d.conversation EXCEPT !.output_id = m.output_id]
<1>1. id \in Ids /\ m.output_id \in Ids
  BY DEF AnyOutputStarts
<1>2. d \in Data /\ r \in Responses /\ d.conversation \in Conversations
  BY <1>1, Parts DEF Good
<1>3. r.output = NoOutput /\ m.output_id = d.output_ids
  BY DEF CanStartOutput
<1>4. t \in {"none", "cancelled"}
  OBVIOUS
<1> HIDE DEF t
<1>5. o \in Outputs /\ o.terminal = t
  BY <1>1, <1>4, NoneIds, EmptyRecords DEF Outputs, NoOutput
<1> HIDE DEF o
<1>6. /\ x \in Responses
      /\ x.conversation_id = r.conversation_id /\ x.input_id = r.input_id
      /\ (EndRecorded(x) <=> EndRecorded(r)) /\ x.terminal = r.terminal
      /\ Unfinished(x) <=> Unfinished(r)
  BY <1>2, <1>3, <1>4, <1>5 DEF Responses, Unfinished, NoOutput, EndRecorded
<1> HIDE DEF x
<1>7. Good(a)
  BY <1>1, <1>6, ResponseKeepsTurns
<1>8. /\ a \in Data /\ a.conversation = d.conversation
      /\ SameRest(d, a)
  BY <1>1, <1>2, <1>6, WithResponseParts
<1> HIDE DEF a
<1>9. a.output_ids + 1 \in NextIds
  BY <1>1, <1>3, <1>8, NoneIds DEF SameRest
<1>10. /\ b \in Data /\ b.inputs = a.inputs /\ b.responses = a.responses
       /\ b.conversation = d.conversation
       /\ b.input_ids = a.input_ids /\ b.response_ids = a.response_ids
  BY <1>8, <1>9 DEF Data
<1> HIDE DEF b
<1>11. Good(b)
  BY <1>7, <1>8, <1>10, TurnsFrame
<1>12. CASE Stale(r)
  <2>1. [kind |-> "output", id |-> m.output_id, terminal_state |-> "cancelled"] \in Tombstones
    BY <1>1, NoneIds DEF Tombstones
  <2>2. Good(WithTombstone(b, "output", m.output_id, "cancelled"))
    BY <1>11, <2>1, TombstoneKeepsTurns
  <2> QED BY <1>12, <2>2 DEF AfterStartOutput, b, a, x, o, t
<1>13. CASE ~ Stale(r)
  <2>1. /\ y \in Conversations
        /\ y.id = d.conversation.id /\ y.input_id = d.conversation.input_id
        /\ y.response_id = d.conversation.response_id
        /\ y.cancel = d.conversation.cancel
        /\ y.expected_end_reason = d.conversation.expected_end_reason
    BY <1>1, <1>2, NoneIds, ConversationFields DEF Conversations
  <2> HIDE DEF y
  <2>2. Good(WithConversation(b, y))
    BY <1>10, <1>11, <2>1, ConversationKeepsTurns
  <2> QED BY <1>13, <2>2 DEF AfterStartOutput, b, a, x, o, t, y
<1> QED BY <1>12, <1>13

(* _accept_output_audio.                                                   *)
LEMMA OutputAudioGood ==
  ASSUME NEW d, Good(d), NEW m \in AnyOutputAudios
  PROVE  Good(AfterOutputAudio(d, m))
<1> DEFINE r == d.responses[m.response_id]
           o == [r.output EXCEPT !.received = @ + m.frames]
           x == [r EXCEPT !.output = o]
<1>1. m.response_id \in Ids /\ m.frames \in Nat
  BY DEF AnyOutputAudios, Positive
<1>2. r \in Responses /\ r.output \in Outputs
  BY <1>1, Parts DEF Good, Responses
<1>3. o \in Outputs /\ o.terminal = r.output.terminal
  BY <1>1, <1>2 DEF Outputs
<1> HIDE DEF o
<1>4. /\ x \in Responses
      /\ x.conversation_id = r.conversation_id /\ x.input_id = r.input_id
      /\ (EndRecorded(x) <=> EndRecorded(r)) /\ x.terminal = r.terminal
      /\ Unfinished(x) <=> Unfinished(r)
  BY <1>2, <1>3 DEF Responses, Unfinished, EndRecorded
<1> HIDE DEF x
<1>5. Good(WithResponse(d, m.response_id, x))
  BY <1>1, <1>4, ResponseKeepsTurns
<1>6. AfterOutputAudio(d, m) = WithResponse(d, m.response_id, x)
  <2>1. x = [r EXCEPT !.output.received = @ + m.frames]
    BY <1>2 DEF x, o, Responses, Outputs
  <2> QED BY <2>1 DEF AfterOutputAudio
<1> QED BY <1>5, <1>6

(* _end_output of a response that still runs.                              *)
LEMMA EndOutputGood ==
  ASSUME NEW d, Good(d), NEW m \in AnyOutputEnds, CanEndOutput(d, m)
  PROVE  Good(AfterEndOutput(d, m))
<1> DEFINE r == d.responses[m.response_id]
           o == [r.output EXCEPT !.terminal = "ended", !.total = m.total_frames]
           x == [r EXCEPT !.output = o]
<1>1. /\ m.response_id \in Ids /\ m.output_id \in Ids
      /\ m.conversation_id \in Ids /\ m.total_frames \in Nat
  BY DEF AnyOutputEnds
<1>2. r \in Responses /\ r.output \in Outputs
  BY <1>1, Parts DEF Good, Responses
<1>3. CASE r.output.terminal = "ended" \/ Stale(r)
  BY <1>3 DEF AfterEndOutput
<1>4. CASE ~ (r.output.terminal = "ended" \/ Stale(r))
  <2>1. r.terminal = "none" /\ r.conversation_id # 0
    BY <1>1, <1>4, NoneIds DEF CanEndOutput, Writable, KnownOutput, KnownResponse
  <2>2. o \in Outputs
    BY <1>1, <1>2 DEF Outputs
  <2> HIDE DEF o
  <2>3. /\ x \in Responses
        /\ x.conversation_id = r.conversation_id /\ x.input_id = r.input_id
        /\ (EndRecorded(x) <=> EndRecorded(r)) /\ x.terminal = r.terminal
    BY <1>2, <2>2 DEF Responses, EndRecorded
  <2>4. Unfinished(x) /\ Unfinished(r)
    BY <2>1, <2>3 DEF Unfinished
  <2>5. AfterEndOutput(d, m)
          = WithTombstone(WithResponse(d, m.response_id, x), "output", m.output_id, "ended")
    BY <1>2, <1>4 DEF AfterEndOutput, x, o, Responses
  <2> HIDE DEF x
  <2>6. Good(WithResponse(d, m.response_id, x))
    BY <1>1, <2>3, <2>4, ResponseKeepsTurns
  <2>7. [kind |-> "output", id |-> m.output_id, terminal_state |-> "ended"] \in Tombstones
    BY <1>1, NoneIds DEF Tombstones
  <2> QED BY <2>5, <2>6, <2>7, TombstoneKeepsTurns
<1> QED BY <1>3, <1>4

(* _end_response: the response is over unless its playback is awaited.     *)
LEMMA EndResponseGood ==
  ASSUME NEW d, Good(d), NEW m \in AnyResponseEnds, CanEndResponse(d, m)
  PROVE  Good(AfterEndResponse(d, m))
<1> DEFINE id == m.response_id
           r == d.responses[id]
           x == [r EXCEPT !.end = TRUE, !.terminal = "ended"]
<1>1. id \in Ids /\ m.conversation_id \in Ids
  BY DEF AnyResponseEnds
<1>2. r \in Responses
  BY <1>1, Parts DEF Good
<1>3. CASE r.end
  BY <1>3 DEF AfterEndResponse
<1>4. CASE ~ r.end
  <2>1. r.terminal = "none" /\ r.conversation_id # 0
        /\ (r.output # NoOutput => r.output.terminal = "ended")
    BY <1>1, <1>4, NoneIds DEF CanEndResponse, KnownResponse
  <2>2. Unfinished(r)
    BY <2>1 DEF Unfinished
  <2>3. d.conversation.response_id = id
    BY <1>1, <2>2 DEF Good, Turns, ResponseTurn
  <2>4. /\ x \in Responses
        /\ x.conversation_id = r.conversation_id /\ x.input_id = r.input_id
        /\ x.terminal = "ended" /\ EndRecorded(x)
        /\ x.output = r.output /\ x.playback = r.playback
    BY <1>2 DEF Responses, EndRecorded
  <2>5. AfterEndResponse(d, m) =
          IF r.output = NoOutput \/ r.playback.kind = "finished"
          THEN CompleteResponse(WithResponse(d, id, x), id)
          ELSE WithResponse(d, id, x)
    BY <1>4 DEF AfterEndResponse
  <2> HIDE DEF x
  <2>6. CASE r.output = NoOutput \/ r.playback.kind = "finished"
    <3>1. ~ Unfinished(x)
      BY <2>4, <2>6 DEF Unfinished, NoOutput
    <3> QED BY <1>1, <2>3, <2>4, <2>5, <2>6, <3>1, CompleteGood
  <2>7. CASE ~ (r.output = NoOutput \/ r.playback.kind = "finished")
    <3>1. Unfinished(x)
      BY <2>1, <2>4, <2>7 DEF Unfinished
    <3> QED BY <1>1, <2>2, <2>4, <2>5, <2>7, <3>1, ResponseKeepsTurns
  <2> QED BY <2>6, <2>7
<1> QED BY <1>3, <1>4

(* _cancel_response, as a message.                                         *)
LEMMA CancelResponseGood ==
  ASSUME NEW d, Good(d), NEW m, m.response_id \in Ids,
         m.reason \in ResponseCancelReason, CanCancelResponse(d, m)
  PROVE  Good(AfterCancelResponse(d, m))
<1>1. CASE IsCancelled(d.responses[m.response_id])
  BY <1>1 DEF AfterCancelResponse
<1>2. CASE ~ IsCancelled(d.responses[m.response_id])
  <2>1. d.conversation.response_id = m.response_id
    BY <1>2 DEF CanCancelResponse, IsCancelled
  <2> QED BY <2>1, CancelGood
<1> QED BY <1>1, <1>2

(* _accept_playback_outcome, the interruption of an output.                *)
LEMMA InterruptedGood ==
  ASSUME NEW d, Good(d), NEW m, m.response_id \in Ids,
         PlaybackOf(m) \in Playbacks, m.type = "playback.interrupted",
         d.responses[m.response_id].playback = NoPlayback
  PROVE  LET e == Interrupted(d, m) IN
         /\ Good(e)
         /\ e.conversation = d.conversation
         /\ e.responses[m.response_id].conversation_id
              = d.responses[m.response_id].conversation_id
         /\ IsCancelled(e.responses[m.response_id])
              <=> IsCancelled(d.responses[m.response_id])
<1> DEFINE r == d.responses[m.response_id]
           p == PlaybackOf(m)
           x == [r EXCEPT !.playback = p, !.stale = TRUE]
           e == WithResponse(d, m.response_id, x)
<1>1. d \in Data /\ r \in Responses /\ DOMAIN d.responses = Ids
  BY Parts DEF Good
<1>2. p.kind = "interrupted" /\ r.playback.kind = "none"
  BY DEF PlaybackOf, NoPlayback
<1>3. e = Interrupted(d, m)
  BY DEF Interrupted
<1> HIDE DEF p
<1>4. /\ x \in Responses
      /\ x.conversation_id = r.conversation_id /\ x.input_id = r.input_id
      /\ (EndRecorded(x) <=> EndRecorded(r)) /\ x.terminal = r.terminal
  BY <1>1, <1>2 DEF Responses, EndRecorded, p
<1>5. Unfinished(x) <=> Unfinished(r)
  <2>1. x.playback = p /\ x.output = r.output
    BY <1>1 DEF Responses
  <2> QED BY <1>2, <1>4, <2>1 DEF Unfinished
<1> HIDE DEF x
<1>6. Good(e)
  BY <1>4, <1>5, ResponseKeepsTurns
<1>7. /\ e.conversation = d.conversation
      /\ e.responses = [d.responses EXCEPT ![m.response_id] = x]
  BY <1>1, <1>4, WithResponseParts
<1> HIDE DEF e
<1>8. e.responses[m.response_id] = x
  BY <1>1, <1>7
<1> QED BY <1>3, <1>4, <1>6, <1>7, <1>8 DEF IsCancelled

(* _accept_playback_outcome.                                               *)
LEMMA PlaybackOutcomeGood ==
  ASSUME NEW d, Good(d), NEW m \in AnyPlaybackFinishes \cup AnyPlaybackInterrupts,
         CanAcceptPlaybackOutcome(d, m)
  PROVE  Good(AfterPlaybackOutcome(d, m))
<1> DEFINE id == m.response_id
           r == d.responses[id]
           p == PlaybackOf(m)
           x == [r EXCEPT !.playback = p]
           e == Interrupted(d, m)
<1>1. id \in Ids /\ m.conversation_id \in Ids /\ m.played_frames \in Nat
  BY DEF AnyPlaybackFinishes, AnyPlaybackInterrupts
<1>2. r \in Responses
  BY <1>1, Parts DEF Good
<1>3. \/ m.type = "playback.finished"
      \/ m.type = "playback.interrupted" /\ m.reason \in PlaybackInterruptReason
  BY DEF AnyPlaybackFinishes, AnyPlaybackInterrupts
<1>4. p \in Playbacks
  BY <1>1, <1>3 DEF PlaybackOf, Playbacks
<1>5. r.conversation_id = m.conversation_id /\ r.conversation_id # 0
  BY <1>1, NoneIds DEF CanAcceptPlaybackOutcome, KnownOutput, KnownResponse
<1>6. CASE r.playback # NoPlayback
  BY <1>6 DEF AfterPlaybackOutcome
<1>7. CASE r.playback = NoPlayback /\ m.type = "playback.finished"
  <2>1. p.kind = "finished" /\ r.playback.kind = "none"
    BY <1>7 DEF PlaybackOf, NoPlayback
  <2>2. r.output.terminal = "ended"
    BY <1>7, <2>1 DEF CanAcceptPlaybackOutcome
  <2> HIDE DEF p
  <2>3. /\ x \in Responses
        /\ x.conversation_id = r.conversation_id /\ x.input_id = r.input_id
        /\ (EndRecorded(x) <=> EndRecorded(r)) /\ x.terminal = r.terminal
        /\ x.playback = p /\ x.output = r.output
    BY <1>2, <1>4 DEF Responses, EndRecorded
  <2>4. EndRecorded(r)
    BY <1>1 DEF Good, Turns, ResponseTurn
  <2>5. AfterPlaybackOutcome(d, m) =
          IF r.end /\ ~ IsCancelled(r)
          THEN CompleteResponse(WithResponse(d, id, x), id)
          ELSE WithResponse(d, id, x)
    BY <1>7 DEF AfterPlaybackOutcome, WithPlayback, p
  <2> HIDE DEF x
  <2>6. CASE r.end /\ ~ IsCancelled(r)
    <3>1. r.terminal = "ended"
      BY <1>2, <2>4, <2>6 DEF EndRecorded, IsCancelled, Responses
    <3>2. Unfinished(r) /\ ~ Unfinished(x)
      BY <1>5, <2>1, <2>2, <2>3, <3>1 DEF Unfinished
    <3>3. d.conversation.response_id = id
      BY <1>1, <3>2 DEF Good, Turns, ResponseTurn
    <3> QED BY <1>1, <2>3, <2>4, <2>5, <2>6, <3>2, <3>3, CompleteGood
  <2>7. CASE ~ (r.end /\ ~ IsCancelled(r))
    <3>1. r.terminal # "ended"
      BY <2>4, <2>7 DEF EndRecorded, IsCancelled, ResponseCancelReason
    <3>2. Unfinished(x) <=> Unfinished(r)
      BY <2>3, <3>1 DEF Unfinished
    <3>3. Good(WithResponse(d, id, x))
      BY <1>1, <2>3, <3>2, ResponseKeepsTurns
    <3> QED BY <2>5, <2>7, <3>3
  <2> QED BY <2>6, <2>7
<1>8. CASE r.playback = NoPlayback /\ m.type # "playback.finished"
  <2>1. /\ Good(e) /\ e.conversation = d.conversation
        /\ e.responses[id].conversation_id = r.conversation_id
        /\ IsCancelled(e.responses[id]) <=> IsCancelled(r)
    BY <1>1, <1>3, <1>4, <1>8, InterruptedGood
  <2>2. AfterPlaybackOutcome(d, m) =
          IF AccountingOnly(d, m) THEN e
          ELSE IF ~ FailsPlayback(m) THEN AfterCancelResponse(e, PlaybackCancel(m))
          ELSE IF Role = "server" THEN AfterFailResponse(e, id, "playback_failed")
          ELSE e
    BY <1>8 DEF AfterPlaybackOutcome
  <2> HIDE DEF e
  <2>3. CASE ~ AccountingOnly(d, m) /\ ~ FailsPlayback(m)
    <3>1. CanCancelResponse(e, PlaybackCancel(m))
      <4>1. PlaybackOf(m) # r.playback
        BY <1>8 DEF PlaybackOf, NoPlayback
      <4> QED
        BY <4>1, <1>8, <2>3 DEF CanAcceptPlaybackOutcome, AccountingOnly, e
    <3>2. /\ PlaybackCancel(m).response_id = id
          /\ PlaybackCancel(m).reason \in ResponseCancelReason
      <4>1. PlaybackCancel(m).response_id = id /\ PlaybackCancel(m).reason = m.reason
        BY DEF PlaybackCancel, ResponseCancelled
      <4>2. m.reason \in {"barge_in", "local_cancel", "shutdown"}
        BY <1>3, <1>8, <2>3 DEF FailsPlayback, PlaybackInterruptReason
      <4> QED BY <4>1, <4>2 DEF ResponseCancelReason
    <3>3. e.responses[id].terminal # PlaybackCancel(m).reason
      BY <2>1, <2>3, <3>2 DEF AccountingOnly, IsCancelled
    <3>4. e.conversation.response_id = id
      BY <3>1, <3>2, <3>3 DEF CanCancelResponse
    <3> QED BY <1>1, <2>1, <2>2, <2>3, <3>2, <3>4, CancelGood
  <2>4. CASE ~ AccountingOnly(d, m) /\ FailsPlayback(m) /\ Role = "server"
    <3>1. CanFailResponse(e, id, "playback_failed")
      <4>1. PlaybackOf(m) # r.playback
        BY <1>8 DEF PlaybackOf, NoPlayback
      <4> QED
        BY <4>1, <1>8, <2>4 DEF CanAcceptPlaybackOutcome, AccountingOnly, e
    <3>2. e.responses[id].conversation_id \in Ids /\ "playback_failed" \in ResponseErrorCode
      BY <1>1, <1>5, <2>1 DEF ResponseErrorCode
    <3> QED BY <1>1, <2>1, <2>2, <2>4, <3>1, <3>2, FailResponseGood
  <2> QED BY <2>1, <2>2, <2>3, <2>4
<1> QED BY <1>6, <1>7, <1>8

(* _cancel_conversation terminates the open input with the conversation.   *)
LEMMA CancelConversationGood ==
  ASSUME NEW d, Good(d), NEW m \in AnyConversationCancels
  PROVE  Good(AfterCancelConversation(d, m))
<1> DEFINE c == d.conversation
           x == [d.inputs[c.input_id] EXCEPT !.terminal = CancelledInput]
           b == WithTombstone(WithInput(d, c.input_id, x), "input", c.input_id, "aborted")
           openInput == c.input_id # 0 /\ d.inputs[c.input_id].terminal = NoTerminal
           t == IF openInput THEN b ELSE d
           y == [c EXCEPT !.cancel = m.reason]
           f == WithConversation(t, y)
           e == [f EXCEPT !.cancelled_conversations[m.conversation_id] = m.reason]
<1>1. m.conversation_id \in Ids /\ m.reason \in ConversationCancelReason
  BY DEF AnyConversationCancels
<1>2. d \in Data /\ c \in Conversations
  BY Parts DEF Good
<1>3. CASE d.cancelled_conversations[m.conversation_id] # "none"
  BY <1>3 DEF AfterCancelConversation
<1>4. CASE d.cancelled_conversations[m.conversation_id] = "none"
  <2>1. AfterCancelConversation(d, m) = e
    BY <1>4 DEF AfterCancelConversation
  <2>2. Good(t) /\ t.conversation = c /\ \A i \in Ids : ~ OpenInput(t.inputs[i])
    <3>1. CASE openInput
      <4>1. c.input_id \in Ids
        BY <1>2, <3>1, NoneIds DEF Conversations
      <4>2. d.inputs[c.input_id] \in Inputs /\ DOMAIN d.inputs = Ids
        BY <1>2, <4>1, Parts
      <4>3. CancelledInput \in Terminations /\ CancelledInput # NoTerminal
        BY DEF Terminations, CancelledInput, NoTerminal
      <4>4. /\ x \in Inputs /\ x.terminal # NoTerminal
            /\ x.conversation_id = d.inputs[c.input_id].conversation_id
            /\ x.response_id = d.inputs[c.input_id].response_id
            /\ x.final = d.inputs[c.input_id].final
        <5> DEFINE i == d.inputs[c.input_id]
        <5>1. i \in Inputs
          BY <4>2
        <5> HIDE DEF i
        <5>2. [i EXCEPT !.terminal = CancelledInput] \in Inputs
          BY <4>3, <5>1, TerminalInputs
        <5>3. LET z == [i EXCEPT !.terminal = CancelledInput] IN
              /\ z.terminal = CancelledInput
              /\ z.conversation_id = i.conversation_id
              /\ z.response_id = i.response_id /\ z.final = i.final
          BY <5>1 DEF Inputs
        <5> QED BY <4>3, <5>2, <5>3 DEF i
      <4> HIDE DEF x
      <4>5. Good(WithInput(d, c.input_id, x))
        BY <4>1, <4>4, InputKeepsTurns
      <4>6. /\ WithInput(d, c.input_id, x).inputs = [d.inputs EXCEPT ![c.input_id] = x]
            /\ WithInput(d, c.input_id, x).conversation = c
        BY <1>2, <4>1, <4>4, WithInputParts
      <4>7. [kind |-> "input", id |-> c.input_id, terminal_state |-> "aborted"] \in Tombstones
        BY <4>1, NoneIds DEF Tombstones
      <4>8. Good(b)
        BY <4>5, <4>7, TombstoneKeepsTurns
      <4>9. b.inputs = [d.inputs EXCEPT ![c.input_id] = x] /\ b.conversation = c
        BY <4>5, <4>6, <4>7, WithTombstoneParts DEF Good
      <4>10. \A i \in Ids : OpenInput(d.inputs[i]) => c.input_id = i
        BY DEF Good, Turns, InputTurn
      <4> HIDE DEF b
      <4>11. \A i \in Ids : ~ OpenInput(b.inputs[i])
        BY <4>2, <4>4, <4>9, <4>10 DEF OpenInput
      <4> QED BY <3>1, <4>8, <4>9, <4>11
    <3>2. CASE ~ openInput
      <4>1. \A i \in Ids : OpenInput(d.inputs[i]) => c.input_id = i
        BY DEF Good, Turns, InputTurn
      <4>2. \A i \in Ids : ~ OpenInput(d.inputs[i])
        BY <3>2, <4>1, NoneIds DEF OpenInput
      <4> QED BY <3>2, <4>2
    <3> QED BY <3>1, <3>2
  <2> HIDE DEF t
  <2>3. /\ y \in Conversations /\ y.id = c.id /\ y.response_id = c.response_id
        /\ y.input_id = c.input_id /\ y.expected_end_reason = c.expected_end_reason
    BY <1>1, <1>2 DEF Conversations
  <2> HIDE DEF y
  <2>4. Good(f)
    BY <2>2, <2>3, ConversationKeepsTurns
  <2> HIDE DEF f
  <2>5. f \in Data
    BY <2>4 DEF Good
  <2>6. e \in Data
    BY <1>1, <2>5 DEF Data
  <2>7. /\ e.inputs = f.inputs /\ e.responses = f.responses
        /\ e.conversation = f.conversation
        /\ e.input_ids = f.input_ids /\ e.response_ids = f.response_ids
    BY <2>5 DEF Data
  <2> QED BY <2>1, <2>4, <2>6, <2>7, TurnsFrame
<1> QED BY <1>3, <1>4

(* _accept_state: "waiting" lets go of a failed input.                     *)
LEMMA StateGood ==
  ASSUME NEW d, Good(d), NEW m \in AnyStates, CanAcceptState(d, m)
  PROVE  Good(AfterState(d, m))
<1> DEFINE c == d.conversation
           j == IF m.state = "waiting" THEN 0 ELSE c.input_id
           y == [c EXCEPT !.state = StateOf(m), !.input_id = j]
<1>1. m.conversation_id \in Ids /\ m.revision \in Nat /\ m.state \in CoarseState
  BY DEF AnyStates, Positive
<1>2. d \in Data /\ c \in Conversations
  BY Parts DEF Good
<1>3. StateOf(m) \in StateValues
  BY <1>1 DEF StateOf, StateValues
<1>4. CASE d.ended_conversations[m.conversation_id] # "none" \/ c.state = StateOf(m)
  BY <1>4 DEF AfterState
<1>5. CASE ~ (d.ended_conversations[m.conversation_id] # "none" \/ c.state = StateOf(m))
  <2>1. j \in OptionalIds
    BY <1>2, NoneIds DEF Conversations
  <2>2. \/ j = c.input_id
        \/ j = 0 /\ c.response_id = 0 /\ c.input_id # 0
           /\ d.inputs[c.input_id].terminal # NoTerminal
    <3>1. CASE m.state = "waiting" /\ c.input_id # 0
      <4>1. StateMatches(d, m)
        BY <1>5 DEF CanAcceptState
      <4> QED BY <3>1, <4>1 DEF StateMatches
    <3>2. CASE ~ (m.state = "waiting" /\ c.input_id # 0)
      BY <3>2
    <3> QED BY <3>1, <3>2
  <2>3. AfterState(d, m) = WithConversation(d, y)
    BY <1>2, <1>5 DEF AfterState, Conversations
  <2>4. \/ j = c.input_id
        \/ \A i \in Ids : ~ OpenInput(d.inputs[i])
    <3>1. \A i \in Ids : OpenInput(d.inputs[i]) => c.input_id = i
      BY DEF Good, Turns, InputTurn
    <3> QED BY <2>2, <3>1 DEF OpenInput
  <2> HIDE DEF j
  <2>5. /\ y \in Conversations /\ y.id = c.id /\ y.response_id = c.response_id
        /\ y.input_id = j /\ y.cancel = c.cancel
        /\ y.expected_end_reason = c.expected_end_reason
    BY <1>2, <1>3, <2>1 DEF Conversations
  <2> HIDE DEF y
  <2> QED BY <2>2, <2>3, <2>4, <2>5, ConversationKeepsTurns
<1> QED BY <1>4, <1>5

(* _accept_error: the server applies the failure, the client records it.   *)
LEMMA RecordedInputFailureGood ==
  ASSUME NEW d, Good(d), NEW id \in Ids, NEW code \in InputErrorCode
  PROVE  Good(WithInputFailure(d, id, code))
<1> DEFINE i == d.inputs[id]
           x == [i EXCEPT !.failure = code]
<1>1. i \in Inputs
  BY Parts DEF Good
<1> HIDE DEF i
<1>2. x \in Inputs
  BY <1>1, InputFields
<1>3. /\ x.conversation_id = i.conversation_id
      /\ x.response_id = i.response_id
      /\ x.terminal = i.terminal /\ x.final = i.final
  BY <1>1 DEF Inputs
<1> HIDE DEF x
<1> QED BY <1>2, <1>3, InputKeepsTurns DEF WithInputFailure, x, i

LEMMA RecordedResponseFailureGood ==
  ASSUME NEW d, Good(d), NEW id \in Ids, NEW code \in ResponseErrorCode
  PROVE  Good(WithResponseFailure(d, id, code))
<1> DEFINE r == d.responses[id]
           x == [r EXCEPT !.failure = code, !.stale = TRUE]
<1>1. r \in Responses
  BY Parts DEF Good
<1>2. /\ x \in Responses
      /\ x.conversation_id = r.conversation_id /\ x.input_id = r.input_id
      /\ EndRecorded(x) <=> EndRecorded(r)
      /\ Unfinished(x) <=> Unfinished(r)
  BY <1>1 DEF Responses, EndRecorded, Unfinished
<1> HIDE DEF x
<1>3. Good(WithResponse(d, id, x))
  BY <1>2, ResponseKeepsTurns
<1> QED BY <1>3 DEF WithResponseFailure, x

LEMMA StaleResponseGood ==
  ASSUME NEW d, Good(d)
  PROVE  Good(WithStaleResponse(d))
<1> DEFINE id == d.conversation.response_id
           r == d.responses[id]
           x == [r EXCEPT !.stale = TRUE]
<1>1. CASE id = 0
  BY <1>1 DEF WithStaleResponse
<1>2. CASE id # 0
  <2>1. id \in Ids /\ r \in Responses
    <3>1. d \in Data
      BY DEF Good
    <3>2. id \in Ids
      BY <1>2, <3>1, NoneIds, Parts DEF Conversations
    <3> QED BY <3>1, <3>2, Parts
  <2>2. /\ x \in Responses
        /\ x.conversation_id = r.conversation_id /\ x.input_id = r.input_id
        /\ EndRecorded(x) <=> EndRecorded(r)
        /\ Unfinished(x) <=> Unfinished(r)
    BY <2>1 DEF Responses, EndRecorded, Unfinished
  <2> HIDE DEF x
  <2>3. Good(WithResponse(d, id, x))
    BY <2>1, <2>2, ResponseKeepsTurns
  <2> QED BY <1>2, <2>3 DEF WithStaleResponse, x
<1> QED BY <1>1, <1>2

LEMMA RecordedConversationFailureGood ==
  ASSUME NEW d, Good(d), NEW code \in ConversationErrorCode
  PROVE  Good(WithFailure(d, code))
<1> DEFINE c == d.conversation
           y == [c EXCEPT !.failure = code]
<1>1. c \in Conversations
  BY Parts DEF Good
<1>2. /\ y \in Conversations /\ y.id = c.id /\ y.response_id = c.response_id
      /\ y.input_id = c.input_id /\ y.cancel = c.cancel
      /\ y.expected_end_reason = c.expected_end_reason
  BY <1>1 DEF Conversations
<1> HIDE DEF y
<1>3. Good(WithConversation(d, y))
  BY <1>2, ConversationKeepsTurns
<1> QED BY <1>3 DEF WithFailure, y

LEMMA ErrorGood ==
  ASSUME NEW d, Good(d), NEW m \in AnyErrors, CanAcceptError(d, m)
  PROVE  Good(AfterError(d, m))
<1>1. CASE m \in ConnectionErrors
  <2>1. m.scope = "connection"
    BY <1>1 DEF ConnectionErrors, Error
  <2>2. AfterError(d, m) = [d EXCEPT !.connection_state = "closing"]
    BY <2>1 DEF AfterError
  <2>3. d \in Data
    BY DEF Good
  <2> DEFINE e == [d EXCEPT !.connection_state = "closing"]
  <2>4. e \in Data
    BY <2>3 DEF Data, ConnectionState
  <2>5. /\ e.inputs = d.inputs /\ e.responses = d.responses
        /\ e.conversation = d.conversation
        /\ e.input_ids = d.input_ids /\ e.response_ids = d.response_ids
    BY <2>3 DEF Data
  <2> HIDE DEF e
  <2> QED BY <2>2, <2>4, <2>5, TurnsFrame DEF e
<1>2. CASE m \in AnyConversationErrors
  <2>1. /\ m.scope = "conversation" /\ m.conversation_id \in Ids
        /\ m.code \in ConversationErrorCode
    BY <1>2 DEF AnyConversationErrors, Error
  <2>2. AfterError(d, m) = AfterConversationError(d, m)
    BY <2>1 DEF AfterError
  <2>3. /\ d.conversation.id \in Ids
        /\ Role = "server" => CanFailConversation(d, m.code)
    BY <2>1 DEF CanAcceptError, Live, Open
  <2>4. CASE Role = "server"
    BY <2>1, <2>2, <2>3, <2>4, FailConversationGood DEF AfterConversationError
  <2>5. CASE Role # "server"
    BY <2>1, <2>2, <2>5, StaleResponseGood, RecordedConversationFailureGood
       DEF AfterConversationError
  <2> QED BY <2>4, <2>5
<1>3. CASE m \in AnyInputErrors
  <2>1. m.scope = "input" /\ m.input_id \in Ids /\ m.code \in InputErrorCode
    BY <1>3 DEF AnyInputErrors, Error
  <2>2. AfterError(d, m) = AfterInputError(d, m)
    BY <2>1 DEF AfterError
  <2> QED BY <2>1, <2>2, FailInputGood, RecordedInputFailureGood DEF AfterInputError
<1>4. CASE m \in AnyResponseErrors
  <2>1. /\ m.scope = "response" /\ m.response_id \in Ids /\ m.conversation_id \in Ids
        /\ m.code \in ResponseErrorCode
    BY <1>4 DEF AnyResponseErrors, Error
  <2>2. AfterError(d, m) = AfterResponseError(d, m)
    BY <2>1 DEF AfterError
  <2>3. /\ d.responses[m.response_id].conversation_id \in Ids
        /\ Role = "server" => CanFailResponse(d, m.response_id, m.code)
    BY <2>1 DEF CanAcceptError, KnownResponse
  <2> QED BY <2>1, <2>2, <2>3, FailResponseGood, RecordedResponseFailureGood
             DEF AfterResponseError
<1> QED BY <1>1, <1>2, <1>3, <1>4 DEF AnyErrors

-----------------------------------------------------------------------------
(* A new _ValidatorData.                                                   *)

LEMMA NewDataParts ==
  ASSUME NEW s \in ConnectionState
  PROVE  LET e == NewData(s) IN
         /\ e \in Data
         /\ e.inputs = [i \in Ids |-> NoInput]
         /\ e.responses = [r \in Ids |-> NoResponse]
         /\ e.conversation = NoConversation
         /\ e.input_ids = 1 /\ e.response_ids = 1
<1>1. 1 \in NextIds
  <2>1. MaxId \in Nat
    BY ProtocolAssumption
  <2> QED BY <2>1 DEF NextIds
<1>2. NoConversation.state \in StateValues
  BY DEF NoConversation, StateValues
<1>3. {} \in SUBSET Tombstones /\ {} \in SUBSET Formats
  OBVIOUS
<1> QED BY <1>1, <1>2, <1>3, EmptyRecords DEF NewData, Data

LEMMA NewDataGood ==
  ASSUME NEW s \in ConnectionState
  PROVE  Good(NewData(s))
<1> DEFINE e == NewData(s)
<1>1. /\ e \in Data
      /\ \A i \in Ids : e.inputs[i] = NoInput /\ e.responses[i] = NoResponse
      /\ e.conversation = NoConversation
      /\ e.input_ids = 1 /\ e.response_ids = 1
  BY NewDataParts
<1> HIDE DEF e
<1>2. \A i \in Ids : ~ OpenInput(e.inputs[i]) /\ ~ Unfinished(e.responses[i])
  BY <1>1 DEF OpenInput, Unfinished, NoInput, NoResponse
<1>3. \A r \in Ids : EndRecorded(e.responses[r])
  BY <1>1 DEF EndRecorded, NoResponse
<1>4. \A i \in Ids : i # 0 /\ ~ (i < 1)
  <2>1. MaxId \in Nat
    BY ProtocolAssumption
  <2> QED BY <2>1 DEF Ids
<1>5. InputTurn(e)
  BY <1>2 DEF InputTurn
<1>6. ResponseTurn(e)
  BY <1>1, <1>2, <1>3, <1>4 DEF ResponseTurn, NoConversation
<1>7. Answered(e)
  BY <1>1 DEF Answered, NoInput, NoResponse
<1>8. Allocated(e)
  BY <1>1, <1>4 DEF Allocated, NoInput, NoResponse
<1>9. CurrentInput(e) /\ EndDue(e)
  BY <1>1 DEF CurrentInput, EndDue, NoConversation
<1> QED BY <1>1, <1>5, <1>6, <1>7, <1>8, <1>9 DEF Good, Turns, e
=============================================================================
