---------------------------- MODULE MCValidator -----------------------------
(***************************************************************************)
(* Instances of Validator for TLC.  A run explores one story: which        *)
(* enumeration values messages may carry decides which handlers meet.      *)
(***************************************************************************)
EXTENDS ValidatorTurn

(* One conversation on the server: whole turns with barge-in, local        *)
(* interruption and cancellation, and the life of one input, with every    *)
(* way to close it: by the server, by the client, by its limit, by its     *)
(* failure, by the end of its conversation.                                *)
TurnsAndInputs ==
  {"endpoint", "barge_in", "local_cancel", "user", "conversation_cancelled", "completed",
   "cancelled", "failed", "overflow", "stt_failed", "conversation_failed", "server_failed",
   "response_cancelled"}

(* bound: in one behaviour either there is one input, without a response,  *)
(* or turns follow each other, and their inputs are empty and nothing      *)
(* fails or overflows.                                                     *)
OneInput == data.input_ids <= 2 /\ data.response_ids = 1
PlainTurns ==
  /\ \A k \in Ids :
       LET i == data.inputs[k]
           r == data.responses[k]
       IN
       /\ i.received = 0 /\ i.failure = "none" /\ i.update.revision = 0
       /\ i.terminal.reason \in {"endpoint", "none"}
       /\ "overflow" \notin {r.terminal, r.playback.reason}
       /\ data.ended_conversations[k] # "server_failed"
  /\ data.conversation.state.revision = 0
OneStory == OneInput \/ PlainTurns

(* One response with text and output, and failures of both, in either of   *)
(* two conversations that end, are cancelled or fail at any moment.        *)
WholeResponses ==
  {"endpoint", "tts_failed", "output_overflow", "overflow", "playback_failed",
   "conversation_cancelled", "conversation_failed", "user", "cancelled", "completed",
   "server_failed"}
=============================================================================
