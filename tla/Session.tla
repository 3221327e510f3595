------------------------------ MODULE Session -------------------------------
(***************************************************************************)
(* The server's side of one connection above its transport core            *)
(* (src/lumivox_linklab/_server.py: ServerSession with its handler queue   *)
(* and dispatcher, its response and output writers and its lifecycle       *)
(* timeouts), as operators on the session's record.                        *)
(*                                                                         *)
(* Everything here runs on one event loop and no operator contains an      *)
(* await, so a call of the application, a message read, a dispatched event *)
(* and a timer are one step each.  A method that raises leaves what it     *)
(* did before and sets "raised"; whoever calls it decides what follows.    *)
(*                                                                         *)
(* Link turns the operators into a specification.                          *)
(***************************************************************************)
EXTENDS Messages, Queues, SequencesExt, FiniteSets

CONSTANTS
  EventCapacity,    \* event_capacity: lifecycle events waiting for the handler
  AudioCapacity,    \* input_queue_frames: PCM waiting for the handler
  ControlCapacity,  \* _CONTROL_CAPACITY: messages waiting for the network
  DataCapacity      \* output_capacity: PCM waiting for the network

(* A hello offers at least one output format (_validate_output_formats).    *)
ASSUME SessionAssumption ==
  /\ Role = "server" /\ Formats # {}
  /\ EventCapacity \in Nat \ {0} /\ AudioCapacity \in Nat \ {0}
  /\ ControlCapacity \in Nat \ {0} /\ DataCapacity \in Nat \ {0}

NoCode == 0
NoKey == [phase |-> "none", id |-> 0]
NoWriter == [response |-> 0, output |-> 0, open |-> FALSE]

(* data: the core's validator; queue: its batches; sealed: its _closed;    *)
(* code: the close code requested, once one is, and error: what raised if  *)
(* that was an exception; events: _events; writer: _response_writer, its   *)
(* _output_writer and whether that is open; closed_inputs:                 *)
(* _server_closed_inputs; key: _timeouts._key; raised: what the operation  *)
(* in hand raised.                                                         *)
NewSession ==
  [data |-> [NewData("ready") EXCEPT !.server_hello = CHOOSE f \in Formats : TRUE,
                                     !.client_hello = Formats],
   queue |-> <<>>, sealed |-> FALSE, code |-> NoCode, error |-> "none", events |-> <<>>,
   writer |-> NoWriter, closed_inputs |-> {}, key |-> NoKey, raised |-> "none"]

Raise(s, error) == [s EXCEPT !.raised = error]
Raised(s) == s.raised # "none"
Current(s) == s.data.conversation

-----------------------------------------------------------------------------
(* Lifecycle timeouts.                                                     *)

(* _timeout_phase: what the server waits for.                              *)
PhaseOfWork(s) ==                                          \* mutant
  LET c == Current(s)
      phase(name, id) == [phase |-> name, id |-> id]
  IN
  IF s.data.connection_state # "ready" \/ c.id = 0 THEN NoKey
  ELSE IF c.response_id # 0 THEN phase("response", c.response_id)
  ELSE IF c.input_id # 0 /\ s.data.inputs[c.input_id].terminal = NoTerminal
  THEN phase("input", c.input_id)
  ELSE NoKey
Phase(s) ==
  LET c == Current(s)
      i == s.data.inputs[c.input_id]
      phase(name, id) == [phase |-> name, id |-> id]
  IN
  CASE s.data.connection_state # "ready" \/ c.id = 0 -> NoKey
    [] s.data.connection_state = "ready" /\ c.id # 0
         /\ (c.cancel # "none" \/ c.failure # "none") -> NoKey
    [] OTHER ->
         IF c.response_id # 0 THEN phase("response", c.response_id)
         ELSE IF c.input_id # 0 /\ i.terminal = NoTerminal /\ i.failure = "none"
         THEN phase("input", c.input_id)
         ELSE IF c.input_id # 0 /\ i.failure = "none" /\ i.response_id = 0
         THEN phase("processing", c.input_id)
         ELSE IF c.state.state = "waiting" THEN phase("waiting", c.id)
         ELSE phase("idle", c.id)

(* sync: the timer follows the phase; a changed phase starts it anew.      *)
SyncNever(s) == s                                          \* mutant
Sync(s) == IF Raised(s) THEN s ELSE [s EXCEPT !.key = Phase(s)]

(* The deadlines sync sets: a response has none.                           *)
ObjectDeadline == {"input", "processing", "waiting"}
IdleDeadline == {"processing", "waiting", "idle"}

-----------------------------------------------------------------------------
(* The core's queue.                                                       *)

Occupancy(s, lane) ==
  SumOf([k \in DOMAIN s.queue |-> IF s.queue[k].lane = lane THEN s.queue[k].weight ELSE 0])
LaneCapacity(lane) == IF lane = "data" THEN DataCapacity ELSE ControlCapacity

(* _request_close: the first request decides.  A shutdown that does not    *)
(* drain drops what is queued.                                             *)
RequestClose(s, code, drain) ==
  IF s.code # NoCode THEN s
  ELSE [s EXCEPT !.code = code, !.error = s.raised,
                 !.data.connection_state = "closing",
                 !.queue = IF drain THEN @ ELSE <<>>]

(* Messages the validator accepts one after the other, with the messages   *)
(* each of them adds.                                                      *)
TransitionAlone(d, messages) ==                            \* mutant
  FoldLeft(LAMBDA acc, m :
             IF acc.ok /\ Accepts(acc.data, m)
             THEN [ok |-> TRUE, data |-> After(acc.data, m), wire |-> Append(acc.wire, m)]
             ELSE [acc EXCEPT !.ok = FALSE],
           [ok |-> TRUE, data |-> d, wire |-> <<>>], messages)
Transited(before, m) ==
  IF before.ok /\ Accepts(before.data, m)
  THEN [ok |-> TRUE, data |-> After(before.data, m),
        wire |-> (before.wire \o <<m>>) \o Outbound(before.data, m)]
  ELSE [before EXCEPT !.ok = FALSE]
Transition(d, messages) ==
  LET run[k \in 0..Len(messages)] ==
        IF k = 0 THEN [ok |-> TRUE, data |-> d, wire |-> <<>>]
        ELSE Transited(run[k - 1], messages[k])
  IN run[Len(messages)]

PutFirst(s, d, wire, lane, weight, tag) ==                 \* mutant
  IF s.sealed THEN Raise(s, "closed")
  ELSE IF Occupancy(s, lane) + weight > LaneCapacity(lane) THEN Raise(s, "overflow")
  ELSE [s EXCEPT !.data = d,
                 !.queue = <<[frames |-> wire, lane |-> lane,
                              weight |-> weight, tag |-> tag]>> \o @]
Put(s, d, wire, lane, weight, tag) ==
  IF s.sealed THEN Raise(s, "closed")
  ELSE IF Occupancy(s, lane) + weight > LaneCapacity(lane) THEN Raise(s, "overflow")
  ELSE [s EXCEPT !.data = d,
                 !.queue = Append(@, [frames |-> wire, lane |-> lane,
                                      weight |-> weight, tag |-> tag])]

(* enqueue_batch: the batch and the data it leads to go in together.       *)
PutTransition(s, t, lane, weight, tag) ==
  IF ~ t.ok THEN Raise(s, "violation")
  ELSE Put(s, t.data, t.wire, lane, IF weight = 0 THEN Len(t.wire) ELSE weight, tag)
EnqueueBatch(s, messages, lane, weight, tag) ==
  IF Raised(s) THEN s
  ELSE IF s.code # NoCode THEN Raise(s, "closed")
  ELSE IF messages = <<>> THEN Raise(s, "violation")
  ELSE PutTransition(s, Transition(s.data, messages), lane, weight, tag)

(* _enqueue_control: a control lane that overflows ends the connection.    *)
OverflowCloses(before, s) ==
  IF ~ Raised(before) /\ s.raised = "overflow" THEN RequestClose(s, 1011, FALSE) ELSE Sync(s)
EnqueueControl(s, messages) == OverflowCloses(s, EnqueueBatch(s, messages, "control", 0, 0))

(* discard_queued with the output writer as its tag.                       *)
DiscardNothing(s) == s                                     \* mutant
DiscardOutput(s) ==
  IF s.writer.output = 0 THEN s
  ELSE [s EXCEPT !.queue = Only({b \in Range(@) : b.tag # s.writer.output}, @)]

(* _response_terminated: the application's writer is closed.               *)
WriterKept(s, discard) ==                                  \* mutant
  IF discard /\ ~ Raised(s) THEN DiscardOutput(s) ELSE s
ResponseTerminated(s, discard) ==
  IF Raised(s) THEN s
  ELSE [(IF discard THEN DiscardOutput(s) ELSE s) EXCEPT !.writer = NoWriter]

(* _next_state: the state message that leads to a coarse state, if any.    *)
NextState(s, state) ==
  LET c == Current(s) IN
  IF c.state.state = state THEN <<>>
  ELSE <<[type |-> "state", conversation_id |-> c.id,
          revision |-> c.state.revision + 1, state |-> state]>>

(* _enqueue_state.                                                         *)
EnqueueState(s, state) ==
  IF Raised(s) THEN s
  ELSE IF Current(s).id = 0 THEN Raise(s, "violation")
  ELSE IF NextState(s, state) = <<>> THEN s
  ELSE EnqueueControl(s, NextState(s, state))

MarkNothing(s, id) == s                                    \* mutant
MarkClosed(s, id) == IF Raised(s) THEN s ELSE [s EXCEPT !.closed_inputs = @ \cup {id}]

-----------------------------------------------------------------------------
(* What the session's methods require.                                     *)

LiveConversation(s) == Current(s).id # 0 /\ Live(s.data, Current(s).id)
RecoverableInput(s) ==
  LET c == Current(s) IN
  /\ c.input_id # 0
  /\ s.data.inputs[c.input_id].response_id = 0
  /\ s.data.inputs[c.input_id].failure = "none"
LiveResponse(s) ==
  LET c == Current(s) IN
  /\ c.response_id # 0
  /\ s.data.responses[c.response_id].terminal = "none"
  /\ s.data.responses[c.response_id].failure = "none"

InputTerminals(s) ==
  LET c == Current(s) IN
  IF c.input_id = 0 THEN <<>> ELSE FinalizeInput(s.data, c.id, c.input_id)

(* The input that InputTerminals closes.                                   *)
LastInput(s) ==
  {Current(s).input_id} \ ({0} \cup {i \in Ids : s.data.inputs[i].terminal # NoTerminal})
MarkAllClosed(s, ids) ==
  IF Raised(s) THEN s ELSE [s EXCEPT !.closed_inputs = @ \cup ids]

ResponseTerminals(s, reason) ==
  LET c == Current(s) IN
  IF c.response_id = 0 THEN <<>> ELSE <<ResponseCancelled(c.id, c.response_id, reason)>>

(* A failure of the current input, with the state that follows.            *)
FailInput(s, id, code) ==
  MarkClosed(
    EnqueueControl(s, <<Error("input", code, Current(s).id, id, 0)>>
                      \o NextState(s, "waiting")), id)

-----------------------------------------------------------------------------
(* ServerSession's methods for the application.                            *)

CloseInputCall(s, id, reason) ==
  LET c == Current(s)
      close == InputClosed(c.id, id, s.data.inputs[id].committed, reason)
  IN
  IF ~ (LiveConversation(s) /\ c.input_id = id) THEN Raise(s, "violation")
  ELSE MarkClosed(EnqueueControl(s, <<close>> \o NextState(s, "processing")), id)

UpdateTranscript(s, id, revision, text) ==
  IF ~ LiveConversation(s) THEN Raise(s, "violation")
  ELSE EnqueueControl(s, <<[type |-> "transcript.update", conversation_id |-> Current(s).id,
                            input_id |-> id, revision |-> revision, text |-> text]>>)

FinalizeTranscript(s, id, text) ==
  IF ~ LiveConversation(s) THEN Raise(s, "violation")
  ELSE EnqueueControl(s, <<TranscriptFinal(Current(s).id, id, text)>>)

StartResponseCall(s, id, end_conversation) ==
  LET c == Current(s)
      i == s.data.inputs[id]
      ready == /\ LiveConversation(s) /\ i.conversation_id = c.id /\ c.input_id = id
               /\ i.terminal # NoTerminal /\ i.final # "none" /\ i.response_id = 0
      start == [type |-> "response.start", conversation_id |-> c.id,
                response_id |-> s.data.response_ids, input_id |-> id,
                end_conversation |-> end_conversation]
      started == EnqueueControl(s, <<start>> \o NextState(s, "responding"))
  IN
  IF ~ ready THEN Raise(s, "violation")
  ELSE IF Raised(started) THEN started
  ELSE [started EXCEPT !.writer = [NoWriter EXCEPT !.response = s.data.response_ids]]

EndConversationCall(s, reason) ==
  LET ended == EnqueueControl(s, InputTerminals(s)
                 \o ResponseTerminals(s, "conversation_cancelled")
                 \o <<ConversationEnded(Current(s).id, reason)>>)
  IN
  IF ~ LiveConversation(s) THEN Raise(s, "violation")
  ELSE ResponseTerminated(MarkAllClosed(ended, LastInput(s)), TRUE)

(* fail, for the three scopes that leave the connection open.              *)
FailConversationCall(s, code) ==
  LET failed == EnqueueControl(s, <<Error("conversation", code, Current(s).id, 0, 0)>>) IN
  IF ~ LiveConversation(s) THEN Raise(s, "violation")
  ELSE ResponseTerminated(MarkAllClosed(failed, LastInput(s)), TRUE)

FailInputCall(s, code) ==
  IF ~ (LiveConversation(s) /\ RecoverableInput(s)) THEN Raise(s, "violation")
  ELSE FailInput(s, Current(s).input_id, code)

RecoverableResponseCode == {"generation_failed", "tts_failed", "output_overflow"}

FailResponseCall(s, code) ==
  LET c == Current(s)
      waiting == /\ ~ s.data.responses[c.response_id].end_conversation
                 /\ code \in RecoverableResponseCode
      failed == EnqueueControl(s, <<Error("response", code, c.id, 0, c.response_id)>>
                  \o (IF waiting THEN NextState(s, "waiting") ELSE <<>>))
  IN
  IF ~ (LiveConversation(s) /\ LiveResponse(s)) THEN Raise(s, "violation")
  ELSE ResponseTerminated(failed, TRUE)

-----------------------------------------------------------------------------
(* ResponseWriter and OutputWriter.  A writer the session no longer holds  *)
(* raises WriterClosed whatever is asked of it, so the calls below are     *)
(* those of the writer it holds.                                           *)

CanWrite(s) == s.writer.response # 0 /\ s.writer.response = Current(s).response_id /\ LiveResponse(s)
CanWriteOutput(s) ==
  LET o == s.data.responses[s.writer.response].output IN
  /\ CanWrite(s) /\ s.writer.output # 0 /\ s.writer.open
  /\ o.id = s.writer.output /\ o.terminal = "none"

(* _require_writer_response: a writer whose response is over is closed.    *)
WriterClosed(s) ==
  IF s.writer.response = 0 THEN s ELSE [s EXCEPT !.writer = NoWriter]

Writing(s, operation) == IF CanWrite(s) THEN operation ELSE Raise(WriterClosed(s), "violation")

WriterResponse(s) == s.data.responses[s.writer.response]

SendTextDelta(s, text) ==
  Writing(s, EnqueueControl(s,
    <<[type |-> "response.text.delta", conversation_id |-> Current(s).id,
       response_id |-> s.writer.response, sequence |-> Len(WriterResponse(s).text),
       text |-> text]>>))

FinalizeText(s, text) ==
  Writing(s, EnqueueControl(s,
    <<[type |-> "response.text.final", conversation_id |-> Current(s).id,
       response_id |-> s.writer.response, text |-> text]>>))

StartOutputCall(s) ==
  LET id == s.data.output_ids
      started == EnqueueControl(s,
        <<[type |-> "output.start", conversation_id |-> Current(s).id,
           response_id |-> s.writer.response, output_id |-> id]>>)
  IN
  Writing(s,
    IF WriterResponse(s).output # NoOutput \/ Raised(started) THEN Raise(started, "violation")
    ELSE [started EXCEPT !.writer.output = id, !.writer.open = TRUE])

(* The messages after a response that is complete on both sides.           *)
CompletedResponse(s, r) ==
  IF r.end_conversation THEN <<ConversationEnded(r.conversation_id, "completed")>>
  ELSE NextState(s, "waiting")

FinishResponse(s) ==
  LET r == WriterResponse(s)
      complete == r.output = NoOutput \/ r.playback.kind = "finished"
  IN
  Writing(s,
    IF HasOutput(r) /\ r.output.terminal = "none" THEN Raise(s, "violation")
    ELSE ResponseTerminated(
           EnqueueControl(s, <<[type |-> "response.end", conversation_id |-> Current(s).id,
                                response_id |-> s.writer.response]>>
                             \o (IF complete THEN CompletedResponse(s, r) ELSE <<>>)),
           FALSE))

(* cancel, for the reasons it accepts.  The PCM still queued goes first.   *)
WriterCancelReason == {"generation_failed", "tts_failed", "overflow", "shutdown"}
ErrorCodeOf(reason) == IF reason = "overflow" THEN "output_overflow" ELSE reason

CancelMessages(s, reason) ==
  LET c == Current(s)
      id == s.writer.response
  IN
  IF reason = "shutdown"
  THEN <<ResponseCancelled(c.id, id, reason), ConversationEnded(c.id, "cancelled")>>
  ELSE <<Error("response", ErrorCodeOf(reason), c.id, 0, id)>>
       \o (IF WriterResponse(s).end_conversation THEN <<>> ELSE NextState(s, "waiting"))

CancelWriter(s, reason) ==
  Writing(s,
    IF reason = "overflow" /\ ~ HasOutput(WriterResponse(s)) THEN Raise(s, "violation")
    ELSE ResponseTerminated(EnqueueControl(DiscardOutput(s), CancelMessages(s, reason)), FALSE))

WritingOutput(s, operation) ==
  IF CanWriteOutput(s) THEN operation
  ELSE IF CanWrite(s) THEN Raise([s EXCEPT !.writer.open = FALSE], "violation")
  ELSE Raise(WriterClosed(s), "violation")

(* send_audio splits the PCM into chunks of one data batch.  If it does    *)
(* not fit the response is cancelled, and the call raises QueueOverflow.   *)
Chunks(s, frames) ==
  LET from == WriterResponse(s).output.received
      count == (frames + MaxOutputAudioFrames - 1) \div MaxOutputAudioFrames
      left(k) == frames - (k - 1) * MaxOutputAudioFrames
      size(k) == IF left(k) < MaxOutputAudioFrames THEN left(k) ELSE MaxOutputAudioFrames
  IN [k \in 1..count |->
        [type |-> "output.audio", conversation_id |-> Current(s).id,
         response_id |-> s.writer.response, output_id |-> s.writer.output,
         start_frame |-> from + (k - 1) * MaxOutputAudioFrames, frames |-> size(k)]]

SendAudio(s, frames) ==
  LET sent == EnqueueBatch(s, Chunks(s, frames), "data", frames, s.writer.output) IN
  WritingOutput(s, IF sent.raised = "overflow"
                   THEN CancelWriter(DiscardOutput(s), "overflow") ELSE sent)

FinishOutput(s) ==
  LET received == WriterResponse(s).output.received
      ended == EnqueueControl(s,
        <<[type |-> "output.end", conversation_id |-> Current(s).id,
           response_id |-> s.writer.response, output_id |-> s.writer.output,
           total_frames |-> received]>>)
  IN
  WritingOutput(s, IF received = 0 \/ Raised(ended) THEN Raise(ended, "violation")
                   ELSE [ended EXCEPT !.writer.open = FALSE])

-----------------------------------------------------------------------------
(* The reader and the session's hook _accept_inbound.                      *)

(* cancellation_targets contains RESPONSE.                                 *)
CancelsResponse(d, m) ==
  \/ m.type = "input.start" /\ CancelsOnBarge(d, m)
  \/ /\ m.type = "playback.interrupted"
     /\ d.responses[m.response_id].playback = NoPlayback
     /\ ~ AccountingOnly(d, m)

IsPlayback(m) == m.type \in {"playback.finished", "playback.interrupted"}

(* _complete_playback_transition.                                          *)
CompletePlayback(s, m, cancelled) ==
  LET r == s.data.responses[m.response_id]
      c == Current(s)
  IN
  IF Raised(s) \/ ~ IsPlayback(m) THEN s
  ELSE IF m.type = "playback.finished"
  THEN IF ~ r.end \/ IsCancelled(r) THEN s
       ELSE IF ~ r.end_conversation /\ c.id = 0 THEN Raise(s, "violation")
       ELSE EnqueueControl(s, CompletedResponse(s, r))
  ELSE IF ~ cancelled \/ m.reason \notin {"local_cancel", "shutdown"} \/ c.id = 0 THEN s
  ELSE IF c.expected_end_reason # "none"
  THEN EnqueueControl(s, <<ConversationEnded(c.id, c.expected_end_reason)>>)
  ELSE EnqueueState(s, "waiting")

(* _HandlerQueue.put_nowait and _handle_handler_saturation: PCM that does  *)
(* not fit fails its input, an event that does not fit the connection.     *)
IsAudio(m) == m.type = "input.audio"
FramesWaiting(s) ==
  SumOf([k \in DOMAIN s.events |-> IF IsAudio(s.events[k]) THEN s.events[k].frames ELSE 0])
EventsWaiting(s) == Cardinality({k \in DOMAIN s.events : ~ IsAudio(s.events[k])})
Fits(s, m) == IF IsAudio(m) THEN FramesWaiting(s) + m.frames <= AudioCapacity
                            ELSE EventsWaiting(s) < EventCapacity

DiscardAudio(s, id) ==
  IF Raised(s) THEN s
  ELSE [s EXCEPT !.events = Only({m \in Range(@) : ~ (IsAudio(m) /\ m.input_id = id)}, @)]

Overflown(s) ==
  [RequestClose(s, 1011, FALSE) EXCEPT !.error = IF s.code = NoCode THEN "overflow" ELSE @]
Saturated(s, m) ==
  LET i == s.data.inputs[m.input_id] IN
  IF ~ IsAudio(m) THEN Overflown(s)
  ELSE IF i.terminal # NoTerminal \/ i.failure # "none" THEN s
  ELSE IF ~ LiveConversation(s) THEN Raise(s, "violation")
  ELSE DiscardAudio(FailInput(s, m.input_id, "input_overflow"), m.input_id)

Offer(s, m, dispatch) ==
  IF Raised(s) \/ ~ dispatch THEN s
  ELSE IF Fits(s, m) THEN [s EXCEPT !.events = Append(@, m)]
  ELSE Saturated(s, m)

(* _end_cancelled_conversation.                                            *)
EndCancelled(s, m) ==
  ResponseTerminated(
    EnqueueControl(s, ResponseTerminals(s, "conversation_cancelled")
                      \o <<ConversationEnded(m.conversation_id, "cancelled")>>), TRUE)

(* What the session answers by itself.                                     *)
React(s, m, dispatched, answer) ==
  CASE m.type = "input.start" -> EnqueueState(s, "listening")
    [] m.type = "input.abort" -> EnqueueState(s, "processing")
    [] m.type = "input.audio" /\ answer # <<>> ->
         EnqueueState(MarkClosed(s, m.input_id), "waiting")
    [] m.type = "conversation.cancel" /\ dispatched -> EndCancelled(s, m)
    [] OTHER -> s

AcceptInbound(s, before, m) ==
  LET cancelled == CancelsResponse(before, m)
      closed == IF cancelled THEN ResponseTerminated(s, TRUE) ELSE s
      dispatch == Dispatched(before, m) \/ (IsPlayback(m) /\ cancelled)
  IN
  IF Raised(s) THEN s
  ELSE Sync(React(Offer(CompletePlayback(closed, m, cancelled), m, dispatch),
                  m, dispatch, Outbound(before, m)))

(* A hook, a timer or a failure handler that raises ends the connection.   *)
Guarded(s) == IF Raised(s) THEN [RequestClose(s, 1011, FALSE) EXCEPT !.raised = "none"] ELSE s

(* _request_fatal: the peer broke the rules; it is told, and nothing else. *)
RequestFatal(s) ==
  RequestClose(IF s.sealed THEN s
               ELSE [s EXCEPT !.sealed = TRUE,
                              !.queue = <<[frames |-> <<Error("connection", "protocol_state", 0, 0, 0)>>,
                                           lane |-> "control", weight |-> 1, tag |-> 0]>>],
               1002, TRUE)

(* _reader, for one message.                                               *)
Receive(s, m) ==
  LET d == s.data
      answer == Outbound(d, m)
      read == IF answer = <<>> THEN [s EXCEPT !.data = After(d, m)]
              ELSE Put(s, After(d, m), answer, "control", Len(answer), 0)
  IN
  IF ~ Accepts(d, m) THEN RequestFatal(s)
  ELSE Guarded(AcceptInbound(read, d, m))

-----------------------------------------------------------------------------
(* The dispatcher.                                                         *)

(* _prepare_handler_event: PCM of an input the server closed is dropped;   *)
(* other PCM is committed, which may close the input at its limit.         *)
Dropped(s, m) == IsAudio(m) /\ m.input_id \in s.closed_inputs

Commit(s, m) ==
  LET end == m.start_frame + m.frames
      c == Current(s)
      committed == [s EXCEPT !.data = AfterCommitInputAudio(@, m.input_id, end)]
      following == Transition(committed.data, NextState(s, "processing"))
      close == InputClosed(m.conversation_id, m.input_id, end, "max_duration")
      wire == <<close>> \o following.wire
  IN
  IF s.code # NoCode \/ ~ CanCommitInputAudio(s.data, m.input_id, end) THEN Raise(s, "violation")
  ELSE IF ~ ClosesAtLimit(s.data, m.input_id, end) THEN committed
  ELSE IF c.id = 0 \/ ~ following.ok THEN Raise(s, "violation")
  ELSE Sync(MarkClosed(Put(s, following.data, wire, "control", Len(wire), 0), m.input_id))

Prepare(s, m) ==
  LET taken == [s EXCEPT !.events = Tail(@)] IN
  IF ~ IsAudio(m) \/ Dropped(s, m) THEN taken ELSE Guarded(Commit(taken, m))

(* _handle_handler_failure: an exception of the handler fails the input,   *)
(* the response or else the conversation its event belongs to.             *)
HandlerFailed(s, m) ==
  LET c == Current(s)
      input == DiscardAudio(FailInput(s, m.input_id, "stt_failed"), m.input_id)
      response == ResponseTerminated(
        EnqueueControl(s, <<Error("response", "playback_failed", c.id, 0, m.response_id)>>), TRUE)
      conversation == ResponseTerminated(
        EnqueueControl(s, <<Error("conversation", "conversation_failed", c.id, 0, 0)>>), TRUE)
  IN
  IF ~ LiveConversation(s) THEN s
  ELSE IF m.type \in {"input.start", "input.audio", "input.abort"}
  THEN IF RecoverableInput(s) /\ c.input_id = m.input_id THEN Guarded(input) ELSE s
  ELSE IF IsPlayback(m)
  THEN IF c.response_id = m.response_id /\ s.data.responses[m.response_id].terminal = "none"
       THEN Guarded(response) ELSE s
  ELSE Guarded(conversation)

-----------------------------------------------------------------------------
(* Timers: run_due with _on_object_timeout and _on_idle_timeout.           *)

ExpireConversation(s) ==
  ResponseTerminated(
    EnqueueControl(s, <<Error("conversation", "idle_timeout", Current(s).id, 0, 0)>>), TRUE)

ObjectTimeout(s) ==
  LET c == Current(s)
      id == c.input_id
  IN
  CASE s.key.phase = "input" ->
         MarkClosed(
           EnqueueControl(s, <<InputClosed(c.id, id, s.data.inputs[id].committed, "max_duration")>>
                             \o NextState(s, "processing")), id)
    [] s.key.phase = "processing" -> FailInput(s, id, "processing_timeout")
    [] OTHER -> ExpireConversation(s)

RunDue(s, timeout) == Guarded(IF s.key # Phase(s) THEN Sync(s) ELSE timeout)

-----------------------------------------------------------------------------
(* Shutdown and the end of the connection.                                 *)

(* _shutdown_impl up to its await: the backlog is replaced by the messages *)
(* that end what is open.                                                  *)
SealTransition(s, t, closed) ==
  IF ~ t.ok THEN Raise(s, "violation")
  ELSE [s EXCEPT !.data = t.data, !.sealed = TRUE, !.closed_inputs = @ \cup closed,
                 !.queue = <<[frames |-> t.wire, lane |-> "control",
                              weight |-> Len(t.wire), tag |-> 0]>>]
SealOrderly(s) ==
  IF Current(s).id = 0 THEN [s EXCEPT !.key = NoKey]
  ELSE SealTransition(
         [ResponseTerminated(s, TRUE) EXCEPT !.key = NoKey],
         Transition(s.data, InputTerminals(s) \o ResponseTerminals(s, "shutdown")
                            \o <<ConversationEnded(Current(s).id, "cancelled")>>),
         LastInput(s))

(* _close_dispatcher, and _transport_lost: application work is dropped.    *)
CloseDispatcher(s) ==
  [ResponseTerminated(s, TRUE) EXCEPT !.events = <<>>, !.key = NoKey]
=============================================================================
