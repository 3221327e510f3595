------------------------------- MODULE Client -------------------------------
(***************************************************************************)
(* The sending side of a VoiceClient on one connection: the thread-safe    *)
(* ingress (src/lumivox_linklab/_client_ingress.py, _ClientAudioIngress),  *)
(* the hand-off task that moves its batches to the transport core          *)
(* (_client.py, _run_handoff), and close.                                  *)
(*                                                                         *)
(* Capture threads call the ingress under its lock and notify the loop     *)
(* after releasing it; tasks of the loop switch only at an await, and the  *)
(* hand-off has none while it empties the ingress (loop busy).  Ingress    *)
(* and core each hold a validator: the ingress applies a message when the  *)
(* application produces it, the core when it is handed over, and both      *)
(* apply what the server sends.                                            *)
(*                                                                         *)
(* The core is its queue, its writer and the request to close; how a       *)
(* connection is shut down is the subject of Transport.  PCM is a number   *)
(* of frames.  The generation of annotated audio appears only as the       *)
(* boundary it makes.                                                      *)
(***************************************************************************)
EXTENDS Messages, ProtocolInvariants, Queues, SequencesExt

CONSTANTS
  InputQueueFrames,    \* config.input_queue_frames, of the ingress and of the core
  PreRollFrames,       \* config.waiting_pre_roll_frames
  ControlCapacity,     \* _CONTROL_CAPACITY
  Said,                \* bound: the messages of the server
  Ends                 \* bound: what may end the connection besides its failure

(* ServerMessage, after the handshake.                                     *)
ServerMessages ==
  InputCloses \cup TranscriptUpdates \cup TranscriptFinals
  \cup ResponseStarts \cup TextDeltas \cup TextFinals
  \cup OutputStarts \cup OutputAudios \cup OutputEnds
  \cup ResponseEnds \cup ResponseCancels \cup ConversationEnds \cup States \cup Errors

ASSUME ClientAssumption ==
  /\ Role = "client" /\ Formats # {} /\ Said \subseteq ServerMessages
  /\ InputQueueFrames \in Nat \ {0} /\ PreRollFrames \in Nat
  /\ ControlCapacity \in Nat \ {0}
  /\ Ends \subseteq {"close", "loss"} /\ MaxChunk <= MaxInputFrames

VARIABLES
  ingress,        \* the validator data of the ingress
  batches,        \* _batches: [messages, lane, frames, input_id]
  occupancy,      \* [data, control]: _occupancy_frames, _control_occupancy
  pending,        \* _notification_pending
  failed,         \* _failure
  pre_roll,       \* _pre_roll: frames of each span
  shutting_down,  \* _shutting_down
  core,           \* the validator data of the transport core
  outbound,       \* the core's queue
  sealed,         \* the core's queue is closed
  sending,        \* messages the writer still has to send
  wake,           \* _wake
  handoff,        \* the hand-off task: "waiting", "emptying" or "done"
  connection,     \* "ready", "closing" (the core's close was requested) or "closed"
  closer,         \* close: "none", "waiting", "joining", "returned" or "failed"
  server          \* validator data after what the server read and sent

ingressVars == <<ingress, batches, occupancy, pending, failed, pre_roll, shutting_down>>
coreVars == <<core, outbound, sealed, sending, connection>>
vars == <<ingressVars, coreVars, wake, handoff, closer, server>>

LoopIdle == handoff # "emptying"

(* Messages, one after the other; accepted only if each of them is.        *)
RunStep(run, m) ==
  IF run.ok /\ Accepts(run.data, m)
  THEN [ok |-> TRUE, data |-> After(run.data, m)] ELSE [ok |-> FALSE, data |-> run.data]
Run(d, messages) ==
  LET run[k \in 0..Len(messages)] ==
        IF k = 0 THEN [ok |-> TRUE, data |-> d] ELSE RunStep(run[k - 1], messages[k])
  IN run[Len(messages)]
AcceptsAll(d, messages) == Run(d, messages).ok
AfterAll(d, messages) == Run(d, messages).data

ClosingData(d) ==
  IF d.connection_state = "ready" THEN [d EXCEPT !.connection_state = "closing"] ELSE d

Batch(messages, lane, frames, input_id) ==
  [messages |-> messages, lane |-> lane, frames |-> frames, input_id |-> input_id]
FramesIn(bs) == SumOf([k \in DOMAIN bs |-> bs[k].frames])
ControlsIn(bs) == SumOf([k \in DOMAIN bs |-> IF bs[k].lane = "control" THEN 1 ELSE 0])

-----------------------------------------------------------------------------
(* The queue of the ingress.                                               *)

HasRoom(lane, frames) ==
  IF lane = "data" THEN occupancy.data + frames <= InputQueueFrames
  ELSE occupancy.control < ControlCapacity

(* Mutant: looks whether the queue is empty after it appended.             *)
EnqueueUnnoticed(messages, lane, frames, input_id) ==
  /\ HasRoom(lane, frames)
  /\ ingress' = AfterAll(ingress, messages)
  /\ batches' = Append(batches, Batch(messages, lane, frames, input_id))
  /\ occupancy' = IF lane = "data" THEN [occupancy EXCEPT !.data = @ + frames]
                  ELSE [occupancy EXCEPT !.control = @ + 1]
  /\ UNCHANGED <<pending, failed>>
(* The notification is due when the queue stops being empty.               *)
Enqueue(messages, lane, frames, input_id) ==
  /\ HasRoom(lane, frames)
  /\ ingress' = AfterAll(ingress, messages)
  /\ batches' = Append(batches, Batch(messages, lane, frames, input_id))
  /\ occupancy' = IF lane = "data" THEN [occupancy EXCEPT !.data = @ + frames]
                  ELSE [occupancy EXCEPT !.control = @ + 1]
  /\ pending' = (pending \/ batches = <<>>)
  /\ failed' = failed

Fail ==
  /\ failed' = TRUE /\ pending' = TRUE
  /\ UNCHANGED <<ingress, batches, occupancy>>

(* A control message goes out, or the ingress has failed.                  *)
Control(message, input_id) ==
  \/ Enqueue(<<message>>, "control", 0, input_id)
  \/ ~ HasRoom("control", 0) /\ Fail

(* _discard_input_audio_locked.                                            *)
AudioFrames(messages) ==
  SumOf([k \in DOMAIN messages |->
           IF messages[k].type = "input.audio" THEN messages[k].frames ELSE 0])
Trimmed(b, closed) ==
  LET accepted(m) == m.type = "input.audio" => m.start_frame < closed.accepted_end_frame
      kept == Only({m \in Range(b.messages) : accepted(m)}, b.messages)
  IN
  IF b.lane = "control" \/ b.input_id # closed.input_id THEN b
  ELSE [b EXCEPT !.messages = kept, !.frames = AudioFrames(kept)]
WithoutClosedAudio(bs, closed) ==
  LET trimmed == [k \in DOMAIN bs |-> Trimmed(bs[k], closed)] IN
  Only({b \in Range(trimmed) : b.lane = "control" \/ b.frames > 0}, trimmed)

(* Mutant: the room of discarded audio is not given back.                  *)
DiscardedFramesKept(closed) == 0
DiscardedFrames(closed) == FramesIn(batches) - FramesIn(WithoutClosedAudio(batches, closed))

-----------------------------------------------------------------------------
(* submit.  Its pre argument is the pre-roll, cleared by a boundary.       *)

(* Mutant: calls are still taken after prepare_shutdown.                   *)
CanCallLate == ingress.connection_state = "ready" /\ ~ failed
CanCall == ingress.connection_state = "ready" /\ ~ failed /\ ~ shutting_down

OpenInputId(d) ==
  IF d.conversation.input_id # 0 /\ d.inputs[d.conversation.input_id].terminal = NoTerminal
  THEN d.conversation.input_id ELSE 0
FramesLeft(start, n) == start + n <= MaxInputFrames

Trimming(part, rest) == IF part > 0 THEN <<part>> \o rest ELSE rest

(* The last PreRollFrames frames of the spans.                             *)
Retained(spans) ==
  LET from(k) == SumOf(SubSeq(spans, k, Len(spans)))
      cuts == {k \in DOMAIN spans : from(k) > PreRollFrames}
      cut == CHOOSE k \in cuts : \A j \in cuts : j <= k
      rest == SubSeq(spans, cut + 1, Len(spans))
      part == PreRollFrames - SumOf(rest)
  IN
  CASE PreRollFrames = 0 -> <<>>
    [] PreRollFrames > 0 /\ cuts = {} -> spans
    [] PreRollFrames > 0 /\ cuts # {} -> Trimming(part, rest)

(* Every span is cut into messages of at most MaxInputAudioFrames.         *)
Chunks(n) ==
  LET count == (n + MaxInputAudioFrames - 1) \div MaxInputAudioFrames IN
  [k \in 1..count |->
     IF k < count THEN MaxInputAudioFrames ELSE n - (count - 1) * MaxInputAudioFrames]
AudioMessages(c, i, start, spans) ==
  LET chunks == FlattenSeq([k \in DOMAIN spans |-> Chunks(spans[k])]) IN
  [k \in DOMAIN chunks |->
     [type |-> "input.audio", conversation_id |-> c, input_id |-> i,
      start_frame |-> start + SumOf(SubSeq(chunks, 1, k - 1)), frames |-> chunks[k]]]

InputStart(c, i, reason, r) ==
  [type |-> "input.start", conversation_id |-> c, input_id |-> i, reason |-> reason,
   interrupts_response_id |-> r]
InputAbort(c, i, reason) ==
  [type |-> "input.abort", conversation_id |-> c, input_id |-> i, reason |-> reason]

QueueUnchanged == UNCHANGED <<ingress, batches, occupancy, pending, failed>>

(* Mutant: the ingress keeps the state of a batch it could not queue.      *)
NotQueuedKept(messages) ==
  ingress' = AfterAll(ingress, messages) /\ UNCHANGED <<batches, occupancy, pending, failed>>
NotQueued(messages) == QueueUnchanged

(* _commit_audio_batch_locked.  Without room it returns OVERFLOW, against  *)
(* the rules it raises; neither changes the ingress.                       *)
CommitAudio(messages, i, frames, accepted_pre_roll, pre) ==
  IF HasRoom("data", frames) /\ AcceptsAll(ingress, messages)
  THEN Enqueue(messages, "data", frames, i) /\ pre_roll' = accepted_pre_roll
  ELSE pre_roll' = pre /\ NotQueued(messages)

AbortOpenInput(reason) ==
  LET i == OpenInputId(ingress)
      abort == InputAbort(ingress.conversation.id, i, reason)
  IN
  Accepts(ingress, abort) /\ Control(abort, i)

(* A boundary ends the open input; its chunk may begin a pre-roll.         *)
SubmitBoundary(n, activated) ==
  /\ OpenInputId(ingress) # 0
  /\ AbortOpenInput("discontinuity")
  /\ pre_roll' = IF activated /\ ~ failed' THEN Retained(<<n>>) ELSE <<>>

SubmitToOpenInput(n, pre) ==
  LET i == OpenInputId(ingress)
      start == ingress.inputs[i].received
  IN
  /\ i # 0 /\ FramesLeft(start, n)
  /\ IF HasRoom("data", n)
     THEN CommitAudio(AudioMessages(ingress.conversation.id, i, start, <<n>>), i, n, pre, pre)
     ELSE AbortOpenInput("overflow") /\ pre_roll' = pre

SubmitActivation(n, pre) ==
  LET c == ingress.conversation_ids
      i == ingress.input_ids
  IN
  /\ ingress.conversation.id = 0
  /\ c \in ConversationIds /\ i \in InputIds /\ FramesLeft(0, n)
  /\ CommitAudio(<<[type |-> "conversation.start", conversation_id |-> c],
                   InputStart(c, i, "activation", 0)>> \o AudioMessages(c, i, 0, <<n>>),
                 i, n, pre, pre)

(* Not while the closed input still waits for its response.                *)
WaitsForResponse(c) == c.input_id # 0 /\ c.response_id = 0
SubmitSpeech(n, pre) ==
  LET c == ingress.conversation
      i == ingress.input_ids
      spans == Append(pre, n)
      reason == IF c.response_id = 0 THEN "speech" ELSE "barge_in"
  IN
  /\ c.id # 0 /\ OpenInputId(ingress) = 0 /\ ~ WaitsForResponse(c)
  /\ i \in InputIds /\ FramesLeft(0, SumOf(spans))
  /\ CommitAudio(<<InputStart(c.id, i, reason, c.response_id)>>
                   \o AudioMessages(c.id, i, 0, spans),
                 i, SumOf(spans), <<>>, pre)

SubmitSilence(n, activated, pre) ==
  LET c == ingress.conversation IN
  /\ c.id # 0 /\ OpenInputId(ingress) = 0 /\ ~ WaitsForResponse(c)
  /\ pre_roll' = IF activated THEN Retained(Append(pre, n)) ELSE pre
  /\ QueueUnchanged

SubmitRefused(pre) ==
  /\ ingress.conversation.id # 0 /\ OpenInputId(ingress) = 0
  /\ WaitsForResponse(ingress.conversation)
  /\ pre_roll' = pre /\ QueueUnchanged

(* Only a boundary that ends no input has dropped the pre-roll by then.    *)
Submit ==
  /\ CanCall
  /\ \E n \in 1..MaxChunk :
       \/ \E activated \in BOOLEAN : SubmitBoundary(n, activated)
       \/ SubmitToOpenInput(n, pre_roll)
       \/ \E pre \in {<<>>, pre_roll} :
            \/ SubmitActivation(n, pre) \/ SubmitSpeech(n, pre) \/ SubmitRefused(pre)
            \/ \E activated \in BOOLEAN : SubmitSilence(n, activated, pre)
  /\ UNCHANGED <<shutting_down, coreVars, wake, handoff, closer, server>>

-----------------------------------------------------------------------------
(* The other thread-safe calls.  One that returns False is no step.        *)

Call(message, input_id) ==
  /\ CanCall
  /\ Accepts(ingress, message)
  /\ Control(message, input_id)
  /\ UNCHANGED <<pre_roll, shutting_down, coreVars, wake, handoff, closer, server>>

AbortInput ==
  \E m \in InputAborts :
    /\ m.input_id = OpenInputId(ingress)
    /\ Call(m, m.input_id)

CancelConversation ==
  \E m \in ConversationCancels :
    /\ Live(ingress, m.conversation_id)
    /\ Call(m, ingress.conversation.input_id)

(* For an output whose outcome is not known yet.                           *)
ReportPlayback ==
  \E m \in PlaybackFinishes \cup PlaybackInterrupts :
    /\ ingress.responses[m.response_id].output.id = m.output_id
    /\ ingress.responses[m.response_id].playback = NoPlayback
    /\ Call(m, 0)

(* _deliver_notification, at the end of every call: the loop is told to    *)
(* set _wake.                                                              *)
Deliver ==
  /\ pending
  /\ pending' = FALSE /\ wake' = TRUE
  /\ UNCHANGED <<ingress, batches, occupancy, failed, pre_roll, shutting_down, coreVars,
                 handoff, closer, server>>

-----------------------------------------------------------------------------
(* The hand-off task.                                                      *)

RequestClose ==
  /\ connection' = IF connection = "ready" THEN "closing" ELSE connection
  /\ core' = ClosingData(core)

HandoffWakes ==
  /\ handoff = "waiting" /\ wake
  /\ wake' = FALSE
  /\ IF failed THEN RequestClose /\ handoff' = "done"
     ELSE handoff' = "emptying" /\ UNCHANGED <<core, connection>>
  /\ UNCHANGED <<ingressVars, outbound, sealed, sending, closer, server>>

Acknowledge ==
  LET b == Head(batches) IN
  /\ batches' = Tail(batches)
  /\ occupancy' = IF b.lane = "data" THEN [occupancy EXCEPT !.data = @ - b.frames]
                  ELSE [occupancy EXCEPT !.control = @ - 1]

QueueFull(b) ==
  IF b.lane = "data" THEN FramesIn(outbound) + b.frames > InputQueueFrames
  ELSE ControlsIn(outbound) >= ControlCapacity

(* enqueue_batch refuses a batch: the core is closing or its queue closed, *)
(* the rules forbid it, or it is control and its lane is full.             *)
Refused(b) ==
  \/ connection # "ready" \/ sealed \/ ~ AcceptsAll(core, b.messages)
  \/ b.lane = "control" /\ QueueFull(b)

(* A refusal ends the connection, if it was not ending before.             *)
HandoffRefused ==
  LET b == Head(batches) IN
  /\ handoff = "emptying" /\ batches # <<>> /\ Refused(b)
  /\ handoff' = "done"
  /\ IF sealed /\ AcceptsAll(core, b.messages) THEN UNCHANGED <<core, connection>>
     ELSE RequestClose
  /\ UNCHANGED <<ingressVars, outbound, sealed, sending, wake, closer, server>>

(* Mutant: the batch is acknowledged although the core did not take it.    *)
WaitForRoomWithout ==
  Acknowledge /\ UNCHANGED <<outbound, core>>
WaitForRoom ==
  UNCHANGED <<batches, occupancy, outbound, core>>
(* Audio that finds no room waits for the writer.                          *)
HandoffBlocked ==
  LET b == Head(batches) IN
  /\ handoff = "emptying" /\ batches # <<>> /\ ~ Refused(b) /\ QueueFull(b)
  /\ handoff' = "waiting"
  /\ WaitForRoom
  /\ UNCHANGED <<ingress, pending, failed, pre_roll, shutting_down, sealed, sending,
                 connection, wake, closer, server>>

HandoffTakes ==
  LET b == Head(batches) IN
  /\ handoff = "emptying" /\ batches # <<>> /\ ~ Refused(b) /\ ~ QueueFull(b)
  /\ outbound' = Append(outbound, b)
  /\ core' = AfterAll(core, b.messages)
  /\ Acknowledge
  /\ UNCHANGED <<ingress, pending, failed, pre_roll, shutting_down, sealed, sending,
                 connection, wake, handoff, closer, server>>

HandoffRests ==
  /\ handoff = "emptying" /\ batches = <<>>
  /\ handoff' = "waiting"
  /\ UNCHANGED <<ingressVars, coreVars, wake, closer, server>>

-----------------------------------------------------------------------------
(* The core's writer.  Getting a batch frees its place in the queue.       *)

WriterGets ==
  /\ LoopIdle /\ connection # "closed" /\ sending = <<>> /\ outbound # <<>>
  /\ sending' = Head(outbound).messages
  /\ outbound' = Tail(outbound)
  /\ wake' = TRUE
  /\ UNCHANGED <<ingressVars, core, sealed, connection, handoff, closer, server>>

(* The server reads a message; one its rules reject ends the connection.   *)
WriterSends ==
  LET m == Head(sending) IN
  /\ LoopIdle /\ connection # "closed" /\ sending # <<>>
  /\ sending' = Tail(sending)
  /\ IF Accepts(server, m)
     THEN server' = After(server, m) /\ UNCHANGED <<core, connection>>
     ELSE server' = server /\ RequestClose
  /\ UNCHANGED <<ingressVars, outbound, sealed, wake, handoff, closer>>

(* _reader and _accept_inbound.  The server, not knowing what is queued,   *)
(* may say what core or ingress rejects; that ends the connection.         *)
Sayable ==
  {m \in Said : Accepts(server, m) /\ After(server, m) # server}

(* Mutant: the core sends what it has of a closed input.                   *)
DiscardQueuedNothing(closed) == outbound' = outbound
DiscardQueued(closed) ==
  outbound' = Only({b \in Range(outbound) : b.lane = "data" => b.input_id # closed.input_id},
                   outbound)
DiscardInputAudio(closed) ==
  /\ batches' = WithoutClosedAudio(batches, closed)
  /\ occupancy' = [occupancy EXCEPT !.data = @ - DiscardedFrames(closed)]

ReceiveRejected ==
  \E m \in Sayable :
    /\ LoopIdle /\ connection = "ready"
    /\ server' = After(server, m)
    /\ \/ ~ Accepts(core, m) /\ core' = ClosingData(core)
       \/ Accepts(core, m) /\ ~ Accepts(ingress, m) /\ core' = ClosingData(After(core, m))
    /\ connection' = "closing"
    /\ UNCHANGED <<ingressVars, outbound, sealed, sending, wake, handoff, closer>>

ReceiveAccepted ==
  \E m \in Sayable :
    /\ LoopIdle /\ connection = "ready"
    /\ Accepts(core, m) /\ Accepts(ingress, m)
    /\ server' = After(server, m)
    /\ core' = After(core, m) /\ ingress' = After(ingress, m)
    /\ IF m.type = "input.closed" THEN DiscardInputAudio(m) /\ DiscardQueued(m)
       ELSE UNCHANGED <<batches, occupancy, outbound>>
    /\ pre_roll' = IF m.type = "conversation.end" THEN <<>> ELSE pre_roll
    /\ UNCHANGED <<pending, failed, shutting_down, sealed, sending, connection, wake, handoff,
                   closer>>

(* The WebSocket is lost, a ping times out, or the peer closes.            *)
LoseConnection ==
  /\ "loss" \in Ends /\ LoopIdle /\ connection = "ready"
  /\ RequestClose
  /\ UNCHANGED <<ingressVars, outbound, sealed, sending, wake, handoff, closer, server>>

(* The core has shut down; _cleanup_connection stops the ingress.          *)
ConnectionEnds ==
  /\ LoopIdle /\ connection = "closing"
  /\ connection' = "closed" /\ handoff' = "done"
  /\ ingress' = NewData("disconnected") /\ core' = NewData("disconnected")
  /\ batches' = <<>> /\ occupancy' = [data |-> 0, control |-> 0]
  /\ pending' = FALSE /\ failed' = FALSE /\ pre_roll' = <<>> /\ shutting_down' = FALSE
  /\ outbound' = <<>> /\ sealed' = TRUE /\ sending' = <<>>
  /\ server' = NewData("disconnected")
  /\ UNCHANGED <<wake, closer>>

-----------------------------------------------------------------------------
(* close.                                                                  *)

(* prepare_shutdown: the conversation is cancelled, and an output without  *)
(* outcome gets one.                                                       *)
ShutdownMessages ==
  LET c == ingress.conversation
      r == ingress.responses[c.response_id]
      cancel == [type |-> "conversation.cancel", conversation_id |-> c.id, reason |-> "shutdown"]
      interrupt == [type |-> "playback.interrupted", conversation_id |-> c.id,
                    response_id |-> c.response_id, output_id |-> r.output.id,
                    played_frames |-> 0, reason |-> "shutdown"]
  IN
  IF ingress.connection_state # "ready" \/ c.id = 0 \/ ~ Live(ingress, c.id) THEN <<>>
  ELSE IF c.response_id # 0 /\ HasOutput(r) /\ r.playback = NoPlayback
       THEN <<cancel, interrupt>> ELSE <<cancel>>

Close ==
  LET last == ShutdownMessages IN
  /\ "close" \in Ends /\ LoopIdle /\ closer = "none"
  /\ IF connection # "ready"
     THEN closer' = "joining" /\ UNCHANGED <<ingressVars, coreVars>>
     ELSE IF last = <<>>
     THEN /\ closer' = "joining"
          /\ RequestClose
          /\ ingress' = ClosingData(ingress) /\ shutting_down' = TRUE
          /\ UNCHANGED <<batches, occupancy, pending, failed, pre_roll, outbound, sealed, sending>>
     ELSE /\ shutting_down' = TRUE
          /\ ingress' = AfterAll(ingress, last)
          /\ batches' = <<>> /\ occupancy' = [data |-> 0, control |-> 0]
          /\ pending' = FALSE /\ pre_roll' = <<>> /\ failed' = failed
          /\ IF AcceptsAll(core, last)
             THEN /\ closer' = "waiting"
                  /\ core' = AfterAll(core, last)
                  /\ outbound' = <<Batch(last, "control", 0, 0)>> /\ sealed' = TRUE
                  /\ UNCHANGED <<sending, connection>>
             ELSE closer' = "failed" /\ UNCHANGED coreVars
  /\ UNCHANGED <<wake, handoff, server>>

(* Mutant: the connection is left to the server, which need not close it.  *)
CloseCoreNot == UNCHANGED <<core, connection>>
CloseCore == RequestClose

(* The conversation has ended, or half of close_timeout has passed.        *)
CloseGoesOn ==
  /\ LoopIdle /\ closer = "waiting"
  /\ closer' = "joining"
  /\ CloseCore
  /\ ingress' = ClosingData(ingress)
  /\ UNCHANGED <<batches, occupancy, pending, failed, pre_roll, shutting_down, outbound,
                 sealed, sending, wake, handoff, server>>

CloseReturns ==
  /\ LoopIdle /\ closer = "joining" /\ connection = "closed"
  /\ closer' = "returned"
  /\ UNCHANGED <<ingressVars, coreVars, wake, handoff, server>>

-----------------------------------------------------------------------------
(* connect has returned: both validators have the hellos.                  *)
Handshaken ==
  AfterAll(NewData("handshaking"),
           <<[type |-> "client.hello", output_formats |-> Formats],
             [type |-> "server.hello", output_format |-> CHOOSE f \in Formats : TRUE]>>)

Init ==
  /\ ingress = Handshaken /\ core = Handshaken /\ server = Handshaken
  /\ batches = <<>> /\ occupancy = [data |-> 0, control |-> 0]
  /\ pending = FALSE /\ failed = FALSE /\ pre_roll = <<>> /\ shutting_down = FALSE
  /\ outbound = <<>> /\ sealed = FALSE /\ sending = <<>>
  /\ wake = TRUE /\ handoff = "waiting" /\ connection = "ready" /\ closer = "none"

Threads == Submit \/ AbortInput \/ CancelConversation \/ ReportPlayback \/ Deliver
Handoff ==
  HandoffWakes \/ HandoffTakes \/ HandoffRefused \/ HandoffBlocked \/ HandoffRests
Writer == WriterGets \/ WriterSends
Closing == Close \/ CloseGoesOn \/ CloseReturns

Next ==
  \/ Threads \/ Handoff \/ Writer \/ ReceiveRejected \/ ReceiveAccepted
  \/ LoseConnection \/ ConnectionEnds \/ Closing

(* A call that changed the ingress runs to its notification, the loop runs *)
(* every task that is ready, the peer reads what is sent, and a requested  *)
(* close ends (Transport: ShutdownEnds).                                   *)
Fairness ==
  /\ WF_vars(Deliver) /\ WF_vars(Handoff) /\ WF_vars(Writer)
  /\ WF_vars(ConnectionEnds) /\ WF_vars(CloseGoesOn) /\ WF_vars(CloseReturns)

Spec == Init /\ [][Next]_vars
FairSpec == Spec /\ Fairness
-----------------------------------------------------------------------------
(* Properties.                                                             *)

(* The counters of the ingress tell what is queued and stay within their   *)
(* capacities, after any calls, hand-overs and discards                    *)
(* (_occupancy_frames, _control_occupancy); and so does the pre-roll, of   *)
(* whatever mixture of silent chunks it was trimmed, with no empty span.   *)
Counted ==
  /\ occupancy.data = FramesIn(batches) /\ occupancy.data <= InputQueueFrames
  /\ occupancy.control = ControlsIn(batches)
  /\ occupancy.control <= ControlCapacity
  /\ SumOf(pre_roll) <= PreRollFrames /\ \A k \in DOMAIN pre_roll : pre_roll[k] > 0

AudioOf(i, messages) ==
  Only({m \in Range(messages) : m.type = "input.audio" /\ m.input_id = i}, messages)
MessagesIn(bs) == FlattenSeq([k \in DOMAIN bs |-> bs[k].messages])
Unsent == MessagesIn(outbound \o batches)

(* Once the server's close of an input has been received, no audio of it   *)
(* waits anywhere to be sent (_accept_inbound discards in both queues).    *)
ClosedInputIsSilent ==
  \A i \in Ids :
    ingress.inputs[i].terminal.kind = "closed" => AudioOf(i, Unsent) = <<>>

(* While an input is open and connected, what the server has read of it,   *)
(* what is being sent, what the core has queued and what the ingress has   *)
(* queued join without gap or overlap, up to the last frame the            *)
(* application was told is accepted.                                       *)
Joins(way, from, to) ==
  LET end(k) == IF k = 0 THEN from ELSE way[k].start_frame + way[k].frames IN
  /\ \A k \in DOMAIN way : way[k].start_frame = end(k - 1)
  /\ to = end(Len(way))
Gapless ==
  LET i == OpenInputId(ingress) IN
  connection = "ready" /\ i # 0 =>
    Joins(AudioOf(i, sending \o Unsent), server.inputs[i].received, ingress.inputs[i].received)

(* The ingress is ahead of the core by exactly the queued batches: if they *)
(* are still legal, they lead the core to the state of the ingress.  Of an *)
(* input that is over, how much was accepted does not count: its unsent    *)
(* audio is discarded.                                                     *)
Forgetting(d) ==
  [d EXCEPT !.inputs = [i \in Ids |->
     IF @[i].terminal = NoTerminal THEN @[i]
     ELSE [@[i] EXCEPT !.received = 0, !.boundaries = {}]]]
Agreed ==
  connection = "ready" /\ ~ shutting_down /\ AcceptsAll(core, MessagesIn(batches)) =>
    Forgetting(AfterAll(core, MessagesIn(batches))) = Forgetting(ingress)

(* After close has asked for the end of the conversation, nothing of the   *)
(* backlog is sent, and nothing is added to it (prepare_shutdown freezes   *)
(* the ingress, seal_orderly keeps the one terminal batch).                *)
BacklogGone ==
  closer = "waiting" =>
    /\ batches = <<>>
    /\ \A b \in Range(outbound) : \A m \in Range(b.messages) :
         m.type \in {"conversation.cancel", "playback.interrupted"} /\ m.reason = "shutdown"

(* close returns, if it could ask for the end of the conversation.         *)
CloseCompletes == closer \in {"waiting", "joining"} ~> closer = "returned"

(* close shuts the connection down (doc/llm/linklab.md: close is bounded). *)
CloseBounded == closer # "none" ~> connection = "closed"

(* A hand-off that sleeps while the ingress holds something is woken by a  *)
(* notification under way or by the writer's next get, whoever enqueued,   *)
(* emptied or took in between (_run_handoff, _deliver_notification).  Only *)
(* a discard of what the core had queued loses the call                    *)
(* (stalled_handoff).                                                      *)
Overslept ==
  /\ connection = "ready" /\ handoff = "waiting" /\ batches # <<>>
  /\ ~ (wake \/ pending \/ outbound # <<>>)
WakeUpsArrive ==
  [][~ Overslept /\ Overslept' => ReceiveAccepted /\ outbound' # outbound]_vars

(* What the ingress accepted is handed to the core, or the connection ends *)
(* (_ClientAudioIngress: semantic handoff between capture callbacks and    *)
(* the client loop).                                                       *)
HandedOff == batches # <<>> ~> (batches = <<>> \/ connection # "ready")
=============================================================================
