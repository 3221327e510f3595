------------------------------ MODULE Messages ------------------------------
(***************************************************************************)
(* The message records of src/lumivox_linklab/_messages.py, as the sets    *)
(* their __post_init__ checks describe, cut down to finite ones.  Fields   *)
(* no transition rule reads (wake word, agent, language, generation,       *)
(* position, detail text, PCM bytes) are left out.                         *)
(***************************************************************************)
EXTENDS Protocol

CONSTANTS
  ConversationIds, InputIds, ResponseIds,
                \* bound: the identifiers that messages name
  Vocabulary,   \* bound: the enumeration values that messages carry
  MaxChunk,     \* bound: the frames of a chunk of input audio
  MaxRevision,  \* bound: the last revision of a transcript or a state
  MaxDeltas,    \* bound: the deltas of a response
  MaxOutput     \* bound: the frames of an output

ASSUME MessagesAssumption ==
  /\ ConversationIds \cup InputIds \cup ResponseIds \subseteq Ids
  /\ MaxChunk \in Nat /\ MaxRevision \in Nat /\ MaxDeltas \in Nat /\ MaxOutput \in Nat

Scoped(S) == S \cap Vocabulary

ClientHellos ==
  [type : {"client.hello"}, output_formats : (SUBSET Formats) \ {{}}]
ServerHellos ==
  [type : {"server.hello"}, output_format : Formats]

ConversationStarts == [type : {"conversation.start"}, conversation_id : ConversationIds]

(* A barge-in, and nothing else, names the response it interrupts.         *)
InputStarts ==
  [type : {"input.start"}, conversation_id : ConversationIds, input_id : InputIds,
   reason : {"activation", "speech"}, interrupts_response_id : {0}]
  \cup
  [type : {"input.start"}, conversation_id : ConversationIds, input_id : InputIds,
   reason : Scoped({"barge_in"}), interrupts_response_id : ResponseIds]

(* A message carries at least one frame of PCM, and may exceed the limit.  *)
InputAudios ==
  [type : {"input.audio"}, conversation_id : ConversationIds, input_id : InputIds,
   start_frame : 0..MaxInputFrames, frames : 1..MaxChunk]
InputAborts ==
  [type : {"input.abort"}, conversation_id : ConversationIds, input_id : InputIds,
   reason : Scoped(InputAbortReason)]
InputCloses ==
  [type : {"input.closed"}, conversation_id : ConversationIds, input_id : InputIds,
   accepted_end_frame : 0..MaxInputFrames, reason : Scoped(InputCloseReason)]
TranscriptUpdates ==
  [type : {"transcript.update"}, conversation_id : ConversationIds, input_id : InputIds,
   revision : 1..MaxRevision, text : Texts]
TranscriptFinals ==
  [type : {"transcript.final"}, conversation_id : ConversationIds, input_id : InputIds,
   text : Texts \cup {"empty"}]

ResponseStarts ==
  [type : {"response.start"}, conversation_id : ConversationIds, response_id : ResponseIds,
   input_id : InputIds, end_conversation : BOOLEAN]
TextDeltas ==
  [type : {"response.text.delta"}, conversation_id : ConversationIds, response_id : ResponseIds,
   sequence : 0..(MaxDeltas - 1), text : Texts]
TextFinals ==
  [type : {"response.text.final"}, conversation_id : ConversationIds, response_id : ResponseIds,
   text : UNION {[1..n -> Texts] : n \in 1..MaxDeltas}]
OutputStarts ==
  [type : {"output.start"}, conversation_id : ConversationIds, response_id : ResponseIds,
   output_id : ResponseIds]
OutputAudios ==
  {m \in [type : {"output.audio"}, conversation_id : ConversationIds, response_id : ResponseIds,
          output_id : ResponseIds, start_frame : 0..MaxOutput,
          frames : 1..(MaxOutputAudioFrames + 1)] :
     m.start_frame + m.frames <= MaxOutput}
OutputEnds ==
  [type : {"output.end"}, conversation_id : ConversationIds, response_id : ResponseIds,
   output_id : ResponseIds, total_frames : 0..MaxOutput]
ResponseEnds ==
  [type : {"response.end"}, conversation_id : ConversationIds, response_id : ResponseIds]
ResponseCancels ==
  [type : {"response.cancelled"}, conversation_id : ConversationIds, response_id : ResponseIds,
   reason : Scoped(ResponseCancelReason)]

PlaybackFinishes ==
  [type : {"playback.finished"}, conversation_id : ConversationIds, response_id : ResponseIds,
   output_id : ResponseIds, played_frames : 0..MaxOutput]
PlaybackInterrupts ==
  [type : {"playback.interrupted"}, conversation_id : ConversationIds, response_id : ResponseIds,
   output_id : ResponseIds, played_frames : 0..MaxOutput,
   reason : Scoped(PlaybackInterruptReason)]

ConversationCancels ==
  [type : {"conversation.cancel"}, conversation_id : ConversationIds,
   reason : Scoped(ConversationCancelReason)]
ConversationEnds ==
  [type : {"conversation.end"}, conversation_id : ConversationIds,
   reason : Scoped(ConversationEndReason)]
States ==
  [type : {"state"}, conversation_id : ConversationIds, revision : 1..MaxRevision,
   state : CoarseState]

(* Which identifiers an error carries depends on its scope.                *)
ConnectionErrors == {Error("connection", "protocol_state", 0, 0, 0)}
ConversationErrors ==
  {Error("conversation", code, c, 0, 0) :
     code \in Scoped(ConversationErrorCode), c \in ConversationIds}
InputErrors ==
  {Error("input", code, c, i, 0) :
     code \in Scoped(InputErrorCode), c \in ConversationIds, i \in InputIds}
ResponseErrors ==
  {Error("response", code, c, 0, r) :
     code \in Scoped(ResponseErrorCode), c \in ConversationIds, r \in ResponseIds}
Errors == ConnectionErrors \cup ConversationErrors \cup InputErrors \cup ResponseErrors
=============================================================================
