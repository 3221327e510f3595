------------------------------ MODULE Protocol ------------------------------
(***************************************************************************)
(* The transition rules of one linklab endpoint                            *)
(* (src/lumivox_linklab/_protocol.py, class ProtocolValidator).            *)
(*                                                                         *)
(* The class is a pure function _transition(data, message) on an immutable *)
(* record, and so is this module: for every message handler there is       *)
(*   CanX(d, m)    the conjunction of its checks (a failed check raises    *)
(*                 ProtocolViolation and leaves the data alone), and       *)
(*   AfterX(d, m)  the data it returns.                                    *)
(* Accepts, After, Outbound and Dispatched put the handlers together.  The *)
(* same rules run in three places of a connection (client ingress, client  *)
(* core, server core), so no variable is declared here.                    *)
(*                                                                         *)
(* Identifiers start at 1 and 0 stands for the code's None; "none" stands  *)
(* for an absent enumeration value.  An object that does not exist yet has *)
(* conversation_id 0.  PCM is its number of frames; response text is the   *)
(* sequence of its deltas; a transcript is "empty" or a member of Texts.   *)
(***************************************************************************)
EXTENDS Naturals, Sequences

CONSTANTS
  Role,                 \* the endpoint that runs these rules
  MaxId,                \* _MAX_ID: the last identifier an allocator gives out
  MaxInputFrames,       \* limits.max_input_frames of the server hello
  MaxInputAudioFrames,  \* limits.max_input_audio_frames
  MaxOutputAudioFrames, \* limits.max_output_audio_frames
  Formats,              \* output formats
  Texts                 \* nonempty texts

ASSUME ProtocolAssumption ==
  /\ Role \in {"client", "server"}
  /\ MaxId \in Nat \ {0}
  /\ MaxInputFrames \in Nat \ {0}
  /\ MaxInputAudioFrames \in Nat \ {0}
  /\ MaxOutputAudioFrames \in Nat \ {0}
  /\ "none" \notin Formats
  /\ {"none", "empty"} \cap Texts = {}

Ids == 1..MaxId
OptionalIds == 0..MaxId

ConnectionState == {"disconnected", "handshaking", "ready", "closing"}
CoarseState == {"waiting", "listening", "processing", "responding"}
InputStartReason == {"activation", "speech", "barge_in"}
InputAbortReason == {"discontinuity", "overflow", "capture_failed", "shutdown"}
InputCloseReason == {"endpoint", "max_duration", "no_speech", "failed"}
PlaybackInterruptReason ==
  {"barge_in", "local_cancel", "playback_failed", "overflow", "shutdown"}
ConversationCancelReason == {"user", "shutdown", "client_failed"}
ResponseCancelReason ==
  {"barge_in", "local_cancel", "conversation_cancelled", "generation_failed",
   "tts_failed", "playback_failed", "overflow", "shutdown"}
ConversationEndReason ==
  {"completed", "cancelled", "idle_timeout", "client_failed", "server_failed",
   "playback_failed"}
ConversationErrorCode == {"conversation_failed", "idle_timeout"}
InputErrorCode ==
  {"input_discontinuity", "input_overflow", "input_too_long", "capture_failed",
   "stt_failed", "processing_timeout"}
ResponseErrorCode ==
  {"generation_failed", "tts_failed", "playback_failed", "output_overflow",
   "response_cancelled"}

-----------------------------------------------------------------------------
(* The records of _ValidatorData.                                          *)

NoTerminal == [kind |-> "none", end_frame |-> 0, reason |-> "none"]
Closed(frame, reason) == [kind |-> "closed", end_frame |-> frame, reason |-> reason]
Aborted(reason) == [kind |-> "aborted", end_frame |-> 0, reason |-> reason]
CancelledInput == [kind |-> "cancelled", end_frame |-> 0, reason |-> "none"]

NoInput ==
  [conversation_id |-> 0, reason |-> "none", interrupts_response_id |-> 0,
   received |-> 0, boundaries |-> {}, committed |-> 0, terminal |-> NoTerminal,
   update |-> [revision |-> 0, text |-> "none"], final |-> "none",
   failure |-> "none", response_id |-> 0]

NoOutput == [id |-> 0, received |-> 0, terminal |-> "none", total |-> 0]
NoPlayback == [kind |-> "none", frames |-> 0, reason |-> "none"]

NoResponse ==
  [conversation_id |-> 0, input_id |-> 0, end_conversation |-> FALSE,
   text |-> <<>>, text_final |-> FALSE, output |-> NoOutput, end |-> FALSE,
   terminal |-> "none", playback |-> NoPlayback, failure |-> "none",
   stale |-> FALSE]

NoConversation ==
  [id |-> 0, cancel |-> "none", failure |-> "none",
   state |-> [revision |-> 0, state |-> "none"],
   input_id |-> 0, response_id |-> 0, output_id |-> 0,
   expected_end_reason |-> "none"]

NewData(state) ==
  [connection_state |-> state, client_hello |-> {}, server_hello |-> "none",
   conversation |-> NoConversation,
   conversation_ids |-> 1, input_ids |-> 1, response_ids |-> 1, output_ids |-> 1,
   inputs |-> [i \in Ids |-> NoInput],
   responses |-> [r \in Ids |-> NoResponse],
   tombstones |-> {},
   ended_conversations |-> [c \in Ids |-> "none"],
   cancelled_conversations |-> [c \in Ids |-> "none"],
   terminal_states |-> [c \in Ids |-> NoConversation.state]]

-----------------------------------------------------------------------------
(* Messages.                                                               *)

ResponseCancelled(c, r, reason) ==
  [type |-> "response.cancelled", conversation_id |-> c, response_id |-> r,
   reason |-> reason]
InputClosed(c, i, frame, reason) ==
  [type |-> "input.closed", conversation_id |-> c, input_id |-> i,
   accepted_end_frame |-> frame, reason |-> reason]
TranscriptFinal(c, i, text) ==
  [type |-> "transcript.final", conversation_id |-> c, input_id |-> i,
   text |-> text]
ConversationEnded(c, reason) ==
  [type |-> "conversation.end", conversation_id |-> c, reason |-> reason]
Error(scope, code, c, i, r) ==
  [type |-> "error", scope |-> scope, code |-> code, conversation_id |-> c,
   input_id |-> i, response_id |-> r]

(* The messages a client sends; the server sends the others.               *)
ClientTypes ==
  {"client.hello", "conversation.start", "input.start", "input.audio",
   "input.abort", "playback.finished", "playback.interrupted",
   "conversation.cancel"}

-----------------------------------------------------------------------------
(* Lookups.                                                                *)

Open(d, c) == d.conversation.id = c
Live(d, c) ==
  /\ Open(d, c)
  /\ d.conversation.cancel = "none"
  /\ d.conversation.failure = "none"

KnownInput(d, m) == d.inputs[m.input_id].conversation_id = m.conversation_id
KnownResponse(d, m) ==
  d.responses[m.response_id].conversation_id = m.conversation_id
KnownOutput(d, m) ==
  KnownResponse(d, m) /\ d.responses[m.response_id].output.id = m.output_id

IsCancelled(r) == r.terminal \in ResponseCancelReason
Stale(r) == r.stale \/ IsCancelled(r)

WithInput(d, id, i) == [d EXCEPT !.inputs[id] = i]
WithResponse(d, id, r) == [d EXCEPT !.responses[id] = r]
WithConversation(d, c) == [d EXCEPT !.conversation = c]
WithTombstone(d, kind, id, state) ==
  [d EXCEPT !.tombstones =
     @ \cup {[kind |-> kind, id |-> id, terminal_state |-> state]}]

SameReason(code) == code                                   \* mutant
ErrorCancelReason(code) ==
  CASE code = "output_overflow" -> "overflow"
    [] code = "response_cancelled" -> "conversation_cancelled"
    [] OTHER -> code

FailureEndReason(code) ==
  IF code = "idle_timeout" THEN "idle_timeout" ELSE "server_failed"

IntentKept(r, reason) ==                                   \* mutant
  IF r.end_conversation THEN "completed" ELSE "none"
CancellationEndReason(r, reason) ==
  CASE reason \in {"conversation_cancelled", "shutdown"} -> "cancelled"
    [] reason = "playback_failed" -> "playback_failed"
    [] r.end_conversation /\ reason = "local_cancel" -> "cancelled"
    [] r.end_conversation /\ reason \in {"generation_failed", "tts_failed", "overflow"}
         -> "server_failed"
    [] OTHER -> "none"

-----------------------------------------------------------------------------
(* Connection and handshake.                                               *)

CanAcceptHello(d, m) ==
  \/ /\ m.type = "client.hello"
     /\ d.client_hello = {} /\ d.server_hello = "none"
  \/ /\ m.type = "server.hello"
     /\ d.client_hello # {} /\ d.server_hello = "none"
     /\ m.output_format \in d.client_hello
  \/ /\ m.type = "error" /\ m.scope = "connection"
     /\ d.client_hello # {} /\ d.server_hello = "none"

AfterHello(d, m) ==
  CASE m.type = "client.hello" -> [d EXCEPT !.client_hello = m.output_formats]
    [] m.type = "server.hello" ->
         [d EXCEPT !.server_hello = m.output_format, !.connection_state = "ready"]
    [] OTHER -> [d EXCEPT !.connection_state = "closing"]

-----------------------------------------------------------------------------
(* Responses.  Cancellation comes first because starting an input uses it. *)

CanCancelResponse(d, m) ==
  LET r == d.responses[m.response_id]
      c == d.conversation
  IN
  /\ KnownResponse(d, m)
  /\ \/ r.terminal = m.reason
     \/ /\ ~ IsCancelled(r)
        /\ Open(d, m.conversation_id)
        /\ c.response_id = m.response_id
        /\ ~ (r.end /\ r.output = NoOutput)
        /\ c.cancel # "none" \/ c.failure # "none"
             => m.reason = "conversation_cancelled"
        /\ r.failure # "none" => m.reason = ErrorCancelReason(r.failure)

(* The output is tombstoned only if it is still open; a barge-in input     *)
(* that already replaced the response's own input stays current.           *)
HasOutput(r) == r.output # NoOutput
OpenOutput(r) == HasOutput(r) /\ r.output.terminal = "none"

CancelledResponse(r, reason) ==
  [r EXCEPT !.terminal = reason, !.stale = TRUE,
            !.output = IF OpenOutput(r) THEN [@ EXCEPT !.terminal = "cancelled"]
                                        ELSE @]

Released(c, input_id, reason) ==
  [c EXCEPT !.input_id = input_id, !.response_id = 0, !.output_id = 0,
            !.expected_end_reason = reason]

CancellationEnd(c, r, reason) ==
  IF c.failure # "none" THEN FailureEndReason(c.failure)
                        ELSE CancellationEndReason(r, reason)

AfterCancelResponse(d, m) ==
  LET id == m.response_id
      r == d.responses[id]
      c == d.conversation
      keepBargeInput == m.reason = "barge_in" /\ c.input_id \notin {0, r.input_id}
      buried == IF OpenOutput(r)
                THEN WithTombstone(d, "output", r.output.id, "cancelled") ELSE d
      cancelled == WithResponse(buried, id, CancelledResponse(r, m.reason))
      released == Released(c, IF keepBargeInput THEN c.input_id ELSE 0,
                           CancellationEnd(c, r, m.reason))
  IN
  IF IsCancelled(r) THEN d
  ELSE WithTombstone(WithConversation(cancelled, released), "response", id, "cancelled")

CompleteResponse(d, id) ==
  LET expected == IF d.responses[id].end_conversation THEN "completed" ELSE "none" IN
  WithTombstone(WithConversation(d, Released(d.conversation, 0, expected)),
                "response", id, "completed")

CanStartResponse(d, m) ==
  LET i == d.inputs[m.input_id] IN
  /\ Live(d, m.conversation_id)
  /\ d.conversation.response_id = 0
  /\ d.conversation.expected_end_reason = "none"
  /\ KnownInput(d, m)
  /\ d.conversation.input_id = m.input_id
  /\ i.terminal # NoTerminal /\ i.final # "none"
  /\ i.response_id = 0
  /\ m.response_id = d.response_ids

NewResponse(m) ==
  [NoResponse EXCEPT !.conversation_id = m.conversation_id, !.input_id = m.input_id,
                     !.end_conversation = m.end_conversation]

AfterStartResponse(d, m) ==
  LET id == m.response_id
      answered == [d.inputs[m.input_id] EXCEPT !.response_id = id]
      current == [d.conversation EXCEPT !.response_id = id]
  IN
  [WithResponse(WithConversation(WithInput(d, m.input_id, answered), current),
                id, NewResponse(m))
   EXCEPT !.response_ids = @ + 1]

(* Text and output of a response are legal while it runs, and, validated   *)
(* but not dispatched, once it is stale.                                   *)
Writable(r) == r.terminal = "none" \/ Stale(r)

CanAcceptTextDelta(d, m) ==
  LET r == d.responses[m.response_id] IN
  /\ KnownResponse(d, m)
  /\ ~ r.end
  /\ Writable(r)
  /\ ~ r.text_final
  /\ m.sequence = Len(r.text)

AfterTextDelta(d, m) ==
  LET r == d.responses[m.response_id] IN
  WithResponse(d, m.response_id, [r EXCEPT !.text = Append(@, m.text)])

CanAcceptTextFinal(d, m) ==
  LET r == d.responses[m.response_id] IN
  /\ KnownResponse(d, m)
  /\ ~ r.end
  /\ Writable(r)
  /\ ~ r.text_final
  /\ r.text # <<>> => m.text = r.text

AfterTextFinal(d, m) ==
  WithResponse(d, m.response_id,
               [d.responses[m.response_id] EXCEPT !.text_final = TRUE])

CanStartOutput(d, m) ==
  LET r == d.responses[m.response_id] IN
  /\ KnownResponse(d, m)
  /\ Writable(r)
  /\ r.output = NoOutput
  /\ m.output_id = d.output_ids
  /\ Open(d, m.conversation_id)

AfterStartOutput(d, m) ==
  LET r == d.responses[m.response_id]
      opened(terminal) ==
        [WithResponse(d, m.response_id,
           [r EXCEPT !.output = [NoOutput EXCEPT !.id = m.output_id,
                                                 !.terminal = terminal]])
         EXCEPT !.output_ids = @ + 1]
      current == [d.conversation EXCEPT !.output_id = m.output_id]
  IN
  IF Stale(r) THEN WithTombstone(opened("cancelled"), "output", m.output_id, "cancelled")
              ELSE WithConversation(opened("none"), current)

CanAcceptOutputAudio(d, m) ==
  LET r == d.responses[m.response_id] IN
  /\ KnownOutput(d, m)
  /\ Writable(r)
  /\ r.output.terminal # "ended"
  /\ m.start_frame = r.output.received
  /\ m.frames <= MaxOutputAudioFrames

AfterOutputAudio(d, m) ==
  WithResponse(d, m.response_id,
    [d.responses[m.response_id] EXCEPT !.output.received = @ + m.frames])

CanEndOutput(d, m) ==
  LET r == d.responses[m.response_id] IN
  /\ KnownOutput(d, m)
  /\ Writable(r)
  /\ IF r.output.terminal = "ended"
     THEN m.total_frames = r.output.total
     ELSE m.total_frames # 0 /\ m.total_frames = r.output.received

AfterEndOutput(d, m) ==
  LET r == d.responses[m.response_id]
      ended == [r EXCEPT !.output = [@ EXCEPT !.terminal = "ended",
                                              !.total = m.total_frames]]
  IN
  IF r.output.terminal = "ended" \/ Stale(r) THEN d
  ELSE WithTombstone(WithResponse(d, m.response_id, ended),
                     "output", m.output_id, "ended")

EndsBeforeItsOutput(d, m) ==                               \* mutant
  KnownResponse(d, m) /\ (d.responses[m.response_id].terminal = "none")
CanEndResponse(d, m) ==
  LET r == d.responses[m.response_id] IN
  /\ KnownResponse(d, m)
  /\ \/ r.end
     \/ /\ r.terminal = "none"
        /\ r.output = NoOutput =>
             Open(d, m.conversation_id)
        /\ r.output # NoOutput =>
             /\ r.output.terminal = "ended"
             /\ r.playback.kind = "finished" => Open(d, m.conversation_id)

AfterEndResponse(d, m) ==
  LET r == d.responses[m.response_id]
      ended == WithResponse(d, m.response_id,
                            [r EXCEPT !.end = TRUE, !.terminal = "ended"])
  IN
  IF r.end THEN d
  ELSE IF r.output = NoOutput \/ r.playback.kind = "finished"
       THEN CompleteResponse(ended, m.response_id)
       ELSE ended

-----------------------------------------------------------------------------
(* Scoped failures decided by the server.                                  *)

Terminalize(d, id, terminal) ==
  WithTombstone(WithInput(d, id, [d.inputs[id] EXCEPT !.terminal = terminal]),
                "input", id, terminal.kind)

ClosedAtReceived(d, id) == Closed(d.inputs[id].received, "failed") \* mutant
FailedClose(d, id) == Closed(d.inputs[id].committed, "failed")
CloseAgain(d, id) == Terminalize(d, id, FailedClose(d, id)) \* mutant
CloseIfOpen(d, id) ==
  IF d.inputs[id].terminal = NoTerminal THEN Terminalize(d, id, FailedClose(d, id)) ELSE d
FinalizeIfMissing(d, id) ==
  WithInput(d, id, [d.inputs[id] EXCEPT !.final = IF @ = "none" THEN "empty" ELSE @])

WithInputFailure(d, id, code) ==
  WithInput(d, id, [d.inputs[id] EXCEPT !.failure = code])

(* _fail_input: close an open input at its committed boundary and give it  *)
(* an empty final transcript if it has none.                               *)
AfterFailInput(d, id, code) ==
  WithInputFailure(FinalizeIfMissing(CloseIfOpen(d, id), id), id, code)

FinalizeInput(d, c, id) ==
  LET i == d.inputs[id] IN
  (IF i.terminal = NoTerminal
   THEN <<InputClosed(c, id, i.committed, "failed")>> ELSE <<>>)
  \o (IF i.final = "none" THEN <<TranscriptFinal(c, id, "empty")>> ELSE <<>>)

(* _end_conversation: the conversation has to be quiet and the reason the  *)
(* one its history determines.                                             *)
EndsForAnyReason(d, m) ==                                  \* mutant
  /\ Open(d, m.conversation_id)
  /\ d.conversation.response_id = 0
CanEndConversation(d, m) ==
  LET c == d.conversation
      i == d.inputs[c.input_id]
      ended == d.ended_conversations[m.conversation_id]
  IN
  IF ended # "none" THEN m.reason = ended ELSE
  /\ Open(d, m.conversation_id)
  /\ c.input_id # 0 =>
       /\ i.terminal # NoTerminal
       /\ c.cancel = "none" /\ c.failure = "none" => i.final # "none"
  /\ c.response_id = 0
  /\ c.cancel # "none" => m.reason = "cancelled"
  /\ c.failure # "none" => m.reason = FailureEndReason(c.failure)
  /\ c.expected_end_reason # "none" => m.reason = c.expected_end_reason

AfterEndConversation(d, m) ==
  LET id == m.conversation_id
      last == IF d.conversation.state.revision # 0 THEN d.conversation.state
                                                   ELSE d.terminal_states[id]
  IN
  IF d.ended_conversations[id] # "none" THEN d ELSE
  [WithTombstone(WithConversation(d, NoConversation), "conversation", id, m.reason)
   EXCEPT !.ended_conversations[id] = m.reason, !.terminal_states[id] = last]

(* _fail_response, with the end of the conversation it may imply.          *)
FailCancel(d, id, code) ==
  ResponseCancelled(d.responses[id].conversation_id, id, ErrorCancelReason(code))
WithResponseFailure(d, id, code) ==
  WithResponse(d, id, [d.responses[id] EXCEPT !.failure = code, !.stale = TRUE])
AfterFailCancel(d, id, code) ==
  AfterCancelResponse(WithResponseFailure(d, id, code), FailCancel(d, id, code))
FailEnd(d, id, code) ==
  ConversationEnded(d.conversation.id,
                    AfterFailCancel(d, id, code).conversation.expected_end_reason)

CanFailResponse(d, id, code) ==
  LET cancelled == AfterFailCancel(d, id, code)
      end == FailEnd(d, id, code)
  IN
  /\ d.responses[id].failure = "none"
  /\ d.responses[id].terminal = "none"
  /\ CanCancelResponse(WithResponseFailure(d, id, code), FailCancel(d, id, code))
  /\ end.reason # "none" => CanEndConversation(cancelled, end)

AfterFailResponse(d, id, code) ==
  LET cancelled == AfterFailCancel(d, id, code)
      end == FailEnd(d, id, code)
  IN IF end.reason # "none" THEN AfterEndConversation(cancelled, end) ELSE cancelled

FailResponseOutbound(d, id, code) ==
  <<FailCancel(d, id, code)>>
  \o (IF FailEnd(d, id, code).reason # "none" THEN <<FailEnd(d, id, code)>> ELSE <<>>)

(* _fail_conversation: children first, then the conversation itself.       *)
WithFailure(d, code) ==
  WithConversation(d, [d.conversation EXCEPT !.failure = code])
WithStaleResponse(d) ==
  LET id == d.conversation.response_id IN
  IF id = 0 THEN d ELSE WithResponse(d, id, [d.responses[id] EXCEPT !.stale = TRUE])

FailedConversation(d, code) ==
  LET c == d.conversation
      marked == WithFailure(WithStaleResponse(d), code)
      finalized == IF c.input_id = 0 THEN marked
                   ELSE FinalizeIfMissing(CloseIfOpen(marked, c.input_id), c.input_id)
  IN
  IF c.response_id = 0 THEN finalized
  ELSE AfterCancelResponse(finalized,
         ResponseCancelled(c.id, c.response_id, "conversation_cancelled"))

FailConversationEnd(d, code) ==
  ConversationEnded(d.conversation.id, FailureEndReason(code))

CanFailConversation(d, code) ==
  LET c == d.conversation IN
  /\ c.response_id # 0 =>
       CanCancelResponse(WithFailure(d, code),
         ResponseCancelled(c.id, c.response_id, "conversation_cancelled"))
  /\ CanEndConversation(FailedConversation(d, code), FailConversationEnd(d, code))

FailConversationOutbound(d, code) ==
  LET c == d.conversation IN
  (IF c.input_id = 0 THEN <<>> ELSE FinalizeInput(d, c.id, c.input_id))
  \o (IF c.response_id = 0 THEN <<>>
      ELSE <<ResponseCancelled(c.id, c.response_id, "conversation_cancelled")>>)
  \o <<FailConversationEnd(d, code)>>

-----------------------------------------------------------------------------
(* Conversations and inputs.                                               *)

CanStartConversation(d, m) ==
  d.conversation.id = 0 /\ m.conversation_id = d.conversation_ids

AfterStartConversation(d, m) ==
  [WithConversation(d, [NoConversation EXCEPT !.id = m.conversation_id])
   EXCEPT !.conversation_ids = @ + 1]

(* A barge-in refers to the current response, or to one whose playback the *)
(* client already interrupted for a barge-in before any later input.       *)
BargeCancel(m) ==
  ResponseCancelled(m.conversation_id, m.interrupts_response_id, "barge_in")
CancelsOnBarge(d, m) ==
  m.reason = "barge_in" /\ ~ IsCancelled(d.responses[m.interrupts_response_id])

CanInterrupt(d, m) ==
  LET r == d.responses[m.interrupts_response_id]
      c == d.conversation
  IN
  /\ r.conversation_id = m.conversation_id
  /\ \/ c.response_id = m.interrupts_response_id
     \/ /\ r.terminal = "barge_in"
        /\ r.playback.kind = "interrupted" /\ r.playback.reason = "barge_in"
        /\ d.input_ids = r.input_id + 1
  /\ \A i \in Ids : d.inputs[i].interrupts_response_id # m.interrupts_response_id
  /\ c.input_id \in {0, r.input_id}
  /\ CancelsOnBarge(d, m) => CanCancelResponse(d, BargeCancel(m))

StartsOverResponse(d, m) ==                                \* mutant
  Live(d, m.conversation_id) /\ m.input_id = d.input_ids
CanStartInput(d, m) ==
  LET c == d.conversation IN
  /\ Live(d, m.conversation_id)
  /\ c.expected_end_reason = "none"
  /\ IF m.reason = "barge_in" THEN CanInterrupt(d, m)
                              ELSE c.response_id = 0 /\ c.input_id = 0
  /\ m.reason = "activation"
       <=> \A i \in Ids : d.inputs[i].conversation_id # m.conversation_id
  /\ m.input_id = d.input_ids

NewInput(m) ==
  [NoInput EXCEPT !.conversation_id = m.conversation_id, !.reason = m.reason,
                  !.interrupts_response_id = m.interrupts_response_id]

AfterStartInput(d, m) ==
  LET base == IF CancelsOnBarge(d, m)
              THEN AfterCancelResponse(d, BargeCancel(m)) ELSE d
      current == [base.conversation EXCEPT !.input_id = m.input_id]
  IN
  [WithInput(WithConversation(base, current), m.input_id, NewInput(m))
   EXCEPT !.input_ids = @ + 1]

(* PCM of a closed input is late: checked, recorded, not dispatched.  A    *)
(* server answers a chunk beyond the aggregate limit by failing the input. *)
CanAcceptInputAudio(d, m) ==
  LET i == d.inputs[m.input_id]
      end == m.start_frame + m.frames
  IN
  /\ KnownInput(d, m)
  /\ ~ (Role = "client" /\ i.failure # "none")
  /\ m.start_frame = i.received
  /\ d.server_hello # "none"
  /\ m.frames <= MaxInputAudioFrames
  /\ \/ i.terminal.kind = "closed" /\ end <= MaxInputFrames
     \/ /\ i.terminal = NoTerminal
        /\ \/ end <= MaxInputFrames
           \/ Role = "server" /\ i.failure = "none"

AfterInputAudio(d, m) ==
  LET end == m.start_frame + m.frames IN
  IF end > MaxInputFrames
  THEN AfterFailInput(d, m.input_id, "input_too_long")
  ELSE WithInput(d, m.input_id,
         [d.inputs[m.input_id] EXCEPT !.received = end, !.boundaries = @ \cup {end}])

CanAbortInput(d, m) ==
  LET i == d.inputs[m.input_id] IN
  /\ KnownInput(d, m)
  /\ ~ (Role = "client" /\ i.failure # "none")
  /\ \/ i.terminal = Aborted(m.reason)
     \/ i.terminal = NoTerminal /\ Open(d, m.conversation_id)

AfterAbortInput(d, m) ==
  IF d.inputs[m.input_id].terminal # NoTerminal THEN d
  ELSE Terminalize(d, m.input_id, Aborted(m.reason))

CanCloseInput(d, m) ==
  LET i == d.inputs[m.input_id] IN
  /\ KnownInput(d, m)
  /\ \/ i.terminal = Closed(m.accepted_end_frame, m.reason)
     \/ /\ i.terminal = NoTerminal
        /\ Open(d, m.conversation_id)
        /\ m.accepted_end_frame <= i.received
        /\ m.accepted_end_frame \in {0} \cup i.boundaries
        /\ Role = "server" => m.accepted_end_frame = i.committed
        /\ d.conversation.failure # "none" \/ i.failure # "none"
             => m.reason = "failed"

WithCommitted(d, id, end) ==
  WithInput(d, id, [d.inputs[id] EXCEPT !.committed = end])

AfterCloseInput(d, m) ==
  IF d.inputs[m.input_id].terminal # NoTerminal THEN d
  ELSE Terminalize(WithCommitted(d, m.input_id, m.accepted_end_frame),
                   m.input_id, Closed(m.accepted_end_frame, m.reason))

(* _commit_input_audio: PCM handed to the server application; reaching the *)
(* aggregate limit closes the input.                                       *)
CanCommitInputAudio(d, id, end) ==
  LET i == d.inputs[id] IN
  /\ i.conversation_id # 0
  /\ i.terminal.kind # "closed"
  /\ i.committed <= end /\ end <= i.received
  /\ end \in {0} \cup i.boundaries

ClosesAtLimit(d, id, end) ==
  /\ d.server_hello # "none"
  /\ end = MaxInputFrames
  /\ d.inputs[id].terminal = NoTerminal

AfterCommitInputAudio(d, id, end) ==
  IF ClosesAtLimit(d, id, end)
  THEN Terminalize(WithCommitted(d, id, end), id, Closed(end, "max_duration"))
  ELSE WithCommitted(d, id, end)

CanAcceptTranscriptUpdate(d, m) ==
  LET i == d.inputs[m.input_id] IN
  /\ Live(d, m.conversation_id)
  /\ KnownInput(d, m)
  /\ i.terminal = NoTerminal /\ i.failure = "none"
  /\ \/ i.update = [revision |-> m.revision, text |-> m.text]
     \/ m.revision = i.update.revision + 1

AfterTranscriptUpdate(d, m) ==
  LET update == [revision |-> m.revision, text |-> m.text] IN
  WithInput(d, m.input_id, [d.inputs[m.input_id] EXCEPT !.update = update])

CanAcceptTranscriptFinal(d, m) ==
  LET i == d.inputs[m.input_id] IN
  /\ Open(d, m.conversation_id)
  /\ d.conversation.cancel = "none"
  /\ d.conversation.failure # "none" => m.text = "empty"
  /\ KnownInput(d, m)
  /\ \/ i.final = m.text
     \/ /\ i.final = "none"
        /\ i.terminal # NoTerminal
        /\ m.text = "empty" =>
             \/ d.conversation.failure # "none" \/ i.failure # "none"
             \/ i.terminal.kind = "aborted"
             \/ i.terminal.kind = "closed" /\ i.terminal.reason \in {"no_speech", "failed"}

AfterTranscriptFinal(d, m) ==
  WithInput(d, m.input_id, [d.inputs[m.input_id] EXCEPT !.final = m.text])

-----------------------------------------------------------------------------
(* Playback outcomes, reported once per output.                            *)

PlaybackOf(m) ==
  [kind |-> IF m.type = "playback.finished" THEN "finished" ELSE "interrupted",
   frames |-> m.played_frames,
   reason |-> IF m.type = "playback.finished" THEN "none" ELSE m.reason]

FailsPlayback(m) ==
  m.type = "playback.interrupted" /\ m.reason \in {"playback_failed", "overflow"}

(* An interruption of a live response is recorded, then cancels or fails   *)
(* the response; one of a cancelled response or conversation is accounting *)
(* only, and so is a failure on the client, which waits for the server.    *)
WithPlayback(d, m) ==
  WithResponse(d, m.response_id,
    [d.responses[m.response_id] EXCEPT !.playback = PlaybackOf(m)])
Interrupted(d, m) ==
  WithResponse(d, m.response_id,
    [d.responses[m.response_id] EXCEPT !.playback = PlaybackOf(m), !.stale = TRUE])
PlaybackCancel(m) ==
  ResponseCancelled(m.conversation_id, m.response_id, m.reason)
AccountingOnly(d, m) ==
  IsCancelled(d.responses[m.response_id]) \/ d.conversation.cancel # "none"

CanAcceptPlaybackOutcome(d, m) ==
  LET r == d.responses[m.response_id] IN
  /\ KnownOutput(d, m)
  /\ \/ r.playback = PlaybackOf(m)
     \/ /\ r.playback = NoPlayback
        /\ IF m.type = "playback.finished"
           THEN /\ r.output.terminal = "ended"
                /\ m.played_frames = r.output.total
                /\ r.end /\ ~ IsCancelled(r) => Open(d, m.conversation_id)
           ELSE /\ m.played_frames <= r.output.received
                /\ \/ IsCancelled(r)
                   \/ /\ Open(d, m.conversation_id)
                      /\ \/ d.conversation.cancel # "none"
                         \/ FailsPlayback(m) /\ Role = "client"
                         \/ /\ FailsPlayback(m) /\ Role = "server"
                            /\ CanFailResponse(Interrupted(d, m), m.response_id,
                                               "playback_failed")
                         \/ /\ ~ FailsPlayback(m)
                            /\ CanCancelResponse(Interrupted(d, m), PlaybackCancel(m))

AfterPlaybackOutcome(d, m) ==
  LET r == d.responses[m.response_id] IN
  IF r.playback # NoPlayback THEN d
  ELSE IF m.type = "playback.finished"
       THEN IF r.end /\ ~ IsCancelled(r)
            THEN CompleteResponse(WithPlayback(d, m), m.response_id)
            ELSE WithPlayback(d, m)
  ELSE IF AccountingOnly(d, m) THEN Interrupted(d, m)
  ELSE IF ~ FailsPlayback(m)
       THEN AfterCancelResponse(Interrupted(d, m), PlaybackCancel(m))
  ELSE IF Role = "server"
       THEN AfterFailResponse(Interrupted(d, m), m.response_id, "playback_failed")
       ELSE Interrupted(d, m)

-----------------------------------------------------------------------------
(* Conversation cancellation, coarse state and errors.                     *)

CanCancelConversation(d, m) ==
  LET id == m.conversation_id IN
  \/ d.cancelled_conversations[id] = m.reason
  \/ /\ d.cancelled_conversations[id] = "none"
     /\ d.ended_conversations[id] = "none"
     /\ Open(d, id)
     /\ d.conversation.failure = "none"

AfterCancelConversation(d, m) ==
  LET c == d.conversation
      openInput == c.input_id # 0 /\ d.inputs[c.input_id].terminal = NoTerminal
      terminated ==
        IF openInput
        THEN WithTombstone(
               WithInput(d, c.input_id,
                         [d.inputs[c.input_id] EXCEPT !.terminal = CancelledInput]),
               "input", c.input_id, "aborted")
        ELSE d
  IN
  IF d.cancelled_conversations[m.conversation_id] # "none" THEN d ELSE
  [WithConversation(terminated, [c EXCEPT !.cancel = m.reason])
   EXCEPT !.cancelled_conversations[m.conversation_id] = m.reason]

StateOf(m) == [revision |-> m.revision, state |-> m.state]

(* The coarse state has to project the current response or input.          *)
StateMatches(d, m) ==
  LET c == d.conversation
      i == d.inputs[c.input_id]
  IN
  IF c.response_id # 0 THEN m.state = "responding"
  ELSE IF c.input_id = 0 THEN TRUE
  ELSE IF i.failure # "none"
       THEN /\ i.terminal # NoTerminal /\ i.final # "none"
            /\ m.state \in {"processing", "waiting"}
  ELSE m.state = IF i.terminal = NoTerminal THEN "listening" ELSE "processing"

CanAcceptState(d, m) ==
  LET id == m.conversation_id
      c == d.conversation
  IN
  IF d.ended_conversations[id] # "none"
  THEN LET last == d.terminal_states[id] IN
       last.revision = 0 \/ m.revision > last.revision \/ StateOf(m) = last
  ELSE /\ Live(d, id)
       /\ c.expected_end_reason = "none"
       /\ \/ c.state = StateOf(m)
          \/ /\ m.revision = c.state.revision + 1
             /\ m.state # c.state.state
             /\ StateMatches(d, m)

AfterState(d, m) ==
  LET c == d.conversation IN
  IF d.ended_conversations[m.conversation_id] # "none" \/ c.state = StateOf(m) THEN d
  ELSE WithConversation(d,
         [c EXCEPT !.state = StateOf(m),
                   !.input_id = IF m.state = "waiting" THEN 0 ELSE @])

(* The server applies the whole failure at once; the client records it and *)
(* waits for the terminal messages the server sends with it.               *)
CanAcceptError(d, m) ==
  LET c == d.conversation IN
  CASE m.scope = "connection" -> TRUE
    [] m.scope = "input" ->
         /\ Live(d, m.conversation_id)
         /\ KnownInput(d, m)
         /\ c.input_id = m.input_id
         /\ d.inputs[m.input_id].response_id = 0
         /\ d.inputs[m.input_id].failure = "none"
    [] m.scope = "response" ->
         /\ Live(d, m.conversation_id)
         /\ KnownResponse(d, m)
         /\ c.response_id = m.response_id
         /\ d.responses[m.response_id].terminal = "none"
         /\ d.responses[m.response_id].failure = "none"
         /\ Role = "server" => CanFailResponse(d, m.response_id, m.code)
    [] m.scope = "conversation" ->
         /\ Live(d, m.conversation_id)
         /\ Role = "server" => CanFailConversation(d, m.code)

AfterInputError(d, m) ==
  IF Role = "server" THEN AfterFailInput(d, m.input_id, m.code)
  ELSE WithInputFailure(d, m.input_id, m.code)
AfterResponseError(d, m) ==
  IF Role = "server" THEN AfterFailResponse(d, m.response_id, m.code)
  ELSE WithResponseFailure(d, m.response_id, m.code)
AfterConversationError(d, m) ==
  IF Role = "server"
  THEN AfterEndConversation(FailedConversation(d, m.code), FailConversationEnd(d, m.code))
  ELSE WithFailure(WithStaleResponse(d), m.code)

AfterError(d, m) ==
  CASE m.scope = "connection" -> [d EXCEPT !.connection_state = "closing"]
    [] m.scope = "input" -> AfterInputError(d, m)
    [] m.scope = "response" -> AfterResponseError(d, m)
    [] m.scope = "conversation" -> AfterConversationError(d, m)

-----------------------------------------------------------------------------
(* _transition: the handler of every message.                              *)

CanHandle(d, m) ==
  CASE m.type = "conversation.start" -> CanStartConversation(d, m)
    [] m.type = "input.start" -> CanStartInput(d, m)
    [] m.type = "input.audio" -> CanAcceptInputAudio(d, m)
    [] m.type = "input.abort" -> CanAbortInput(d, m)
    [] m.type = "input.closed" -> CanCloseInput(d, m)
    [] m.type = "transcript.update" -> CanAcceptTranscriptUpdate(d, m)
    [] m.type = "transcript.final" -> CanAcceptTranscriptFinal(d, m)
    [] m.type = "response.start" -> CanStartResponse(d, m)
    [] m.type = "response.text.delta" -> CanAcceptTextDelta(d, m)
    [] m.type = "response.text.final" -> CanAcceptTextFinal(d, m)
    [] m.type = "output.start" -> CanStartOutput(d, m)
    [] m.type = "output.audio" -> CanAcceptOutputAudio(d, m)
    [] m.type = "output.end" -> CanEndOutput(d, m)
    [] m.type = "response.end" -> CanEndResponse(d, m)
    [] m.type = "response.cancelled" -> CanCancelResponse(d, m)
    [] m.type \in {"playback.finished", "playback.interrupted"} ->
         CanAcceptPlaybackOutcome(d, m)
    [] m.type = "conversation.cancel" -> CanCancelConversation(d, m)
    [] m.type = "conversation.end" -> CanEndConversation(d, m)
    [] m.type = "state" -> CanAcceptState(d, m)
    [] m.type = "error" -> CanAcceptError(d, m)
    [] OTHER -> FALSE

Accepts(d, m) ==
  \/ d.connection_state = "handshaking" /\ CanAcceptHello(d, m)
  \/ d.connection_state = "ready" /\ CanHandle(d, m)

After(d, m) ==
  IF d.connection_state = "handshaking" THEN AfterHello(d, m) ELSE
  CASE m.type = "conversation.start" -> AfterStartConversation(d, m)
    [] m.type = "input.start" -> AfterStartInput(d, m)
    [] m.type = "input.audio" -> AfterInputAudio(d, m)
    [] m.type = "input.abort" -> AfterAbortInput(d, m)
    [] m.type = "input.closed" -> AfterCloseInput(d, m)
    [] m.type = "transcript.update" -> AfterTranscriptUpdate(d, m)
    [] m.type = "transcript.final" -> AfterTranscriptFinal(d, m)
    [] m.type = "response.start" -> AfterStartResponse(d, m)
    [] m.type = "response.text.delta" -> AfterTextDelta(d, m)
    [] m.type = "response.text.final" -> AfterTextFinal(d, m)
    [] m.type = "output.start" -> AfterStartOutput(d, m)
    [] m.type = "output.audio" -> AfterOutputAudio(d, m)
    [] m.type = "output.end" -> AfterEndOutput(d, m)
    [] m.type = "response.end" -> AfterEndResponse(d, m)
    [] m.type = "response.cancelled" -> AfterCancelResponse(d, m)
    [] m.type \in {"playback.finished", "playback.interrupted"} ->
         AfterPlaybackOutcome(d, m)
    [] m.type = "conversation.cancel" -> AfterCancelConversation(d, m)
    [] m.type = "conversation.end" -> AfterEndConversation(d, m)
    [] m.type = "state" -> AfterState(d, m)
    [] m.type = "error" -> AfterError(d, m)

(* The messages the endpoint has to send because it accepted m.            *)
Outbound(d, m) ==
  IF Role = "client" \/ d.connection_state # "ready" THEN <<>> ELSE
  CASE m.type = "input.start" ->
         IF CancelsOnBarge(d, m) THEN <<BargeCancel(m)>> ELSE <<>>
    [] m.type = "input.audio" /\ m.start_frame + m.frames > MaxInputFrames ->
         <<Error("input", "input_too_long", m.conversation_id, m.input_id, 0)>>
         \o FinalizeInput(d, m.conversation_id, m.input_id)
    [] m.type = "playback.interrupted" ->
         IF d.responses[m.response_id].playback # NoPlayback \/ AccountingOnly(d, m)
         THEN <<>>
         ELSE IF FailsPlayback(m)
         THEN <<Error("response", "playback_failed", m.conversation_id, 0, m.response_id)>>
              \o FailResponseOutbound(Interrupted(d, m), m.response_id, "playback_failed")
         ELSE <<PlaybackCancel(m)>>
    [] m.type = "error" /\ m.scope = "input" ->
         FinalizeInput(d, m.conversation_id, m.input_id)
    [] m.type = "error" /\ m.scope = "response" ->
         FailResponseOutbound(d, m.response_id, m.code)
    [] m.type = "error" /\ m.scope = "conversation" ->
         FailConversationOutbound(d, m.code)
    [] OTHER -> <<>>

(* A message of the peer is handed to the application unless it repeats    *)
(* what is known, belongs to something stale or closed, or was answered    *)
(* with a failure.                                                         *)
Discarded(d, m) ==
  \/ After(d, m) = d
  \/ m.type = "input.audio"
     /\ \/ d.inputs[m.input_id].terminal # NoTerminal
        \/ m.start_frame + m.frames > MaxInputFrames
  \/ m.type \in {"response.text.delta", "response.text.final", "output.start",
                 "output.audio", "output.end"}
     /\ Stale(d.responses[m.response_id])
  \/ Role = "server" /\ FailsPlayback(m) /\ ~ AccountingOnly(d, m)

Dispatched(d, m) ==
  /\ m.type \in ClientTypes <=> Role = "server"
  /\ d.connection_state = "ready"
  /\ ~ Discarded(d, m)
=============================================================================
