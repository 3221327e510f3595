----------------------------- MODULE Transport ------------------------------
(***************************************************************************)
(* The transport core of one endpoint (src/lumivox_linklab/_transport.py,  *)
(* class _TransportCore and its _BoundedBatchQueue): a reader, a writer    *)
(* and a keepalive task over one WebSocket, the bounded outbound queue     *)
(* they share with the application, and the shutdown that ends them.       *)
(*                                                                         *)
(* asyncio switches tasks only at an await, so each action below runs from *)
(* one await to the next.  A task is "idle" before start, "running",       *)
(* "cancelling" between its cancel() and the delivery of CancelledError,   *)
(* and "done".                                                             *)
(*                                                                         *)
(* What the validator makes of a message is the subject of Protocol; here  *)
(* its data is the number of outbound messages it has accepted and the     *)
(* number of PCM chunks it has committed.  An outbound message is the      *)
(* number under which it was accepted, and the frame that carries it has   *)
(* that number too; ConnectionError is the frame no validator sees.        *)
(***************************************************************************)
EXTENDS Integers, SequencesExt, FiniteSets

CONSTANTS
  Roles,            \* bound: the endpoints explored
  DataCapacity,     \* data_capacity
  ControlCapacity,  \* control_capacity
  MaxFrames,        \* bound: outbound messages of the run
  MaxBatch,         \* bound: messages of a batch
  MaxInbound,       \* bound: inbound messages of the run
  MaxCommits        \* bound: commits of the run

ASSUME TransportAssumption ==
  /\ Roles \subseteq {"client", "server"}
  /\ DataCapacity \in Nat \ {0}
  /\ ControlCapacity \in Nat \ {0}
  /\ MaxFrames \in Nat /\ MaxBatch \in Nat \ {0}
  /\ MaxInbound \in Nat /\ MaxCommits \in Nat

Lane == {"data", "control"}
Capacity(lane) == IF lane = "data" THEN DataCapacity ELSE ControlCapacity
ConnectionError == 0
Frames == 1..MaxFrames \cup {ConnectionError}

Opened == -1
(* WebSocket close codes (RFC 6455).                                       *)
NoCode == 0                                  \* close_code None
Normal == 1000
GoingAway == 1001
ProtocolError == 1002
Abnormal == 1006
InternalError == 1011
CloseCodes == {NoCode, Normal, GoingAway, ProtocolError, Abnormal, InternalError}

VARIABLES
  validator,  \* [role, state, accepted, committed]: the validator and its data
  items,      \* the queue's batches: [lane, weight, frames, terminal]
  occupancy,  \* [Lane -> Nat]
  sealed,     \* the queue's _closed
  reader, writer, keepalive,                 \* the tasks
  sending,    \* [frames, terminal]: what the writer still has to send of its batch
  fatal,      \* _fatal
  lost,       \* _transport_lost
  outcome,    \* _outcome: [code, eligible], or NoOutcome
  closer,     \* the close task: [step, code, drain, lost]
  link,       \* the WebSocket: Opened, or the code it closed with
  wire,       \* frames the WebSocket took
  dropped,    \* history: accepted frames discarded, not sent
  received,   \* history: number of inbound messages
  farewell,   \* history: the terminal batch a seal retained
  stopped     \* history: how the drain ended: "none", "drained", "timeout"

queue == <<items, occupancy, sealed>>
tasks == <<reader, writer, keepalive>>
history == <<dropped, received, farewell, stopped>>
vars == <<validator, queue, tasks, sending, fatal, lost, outcome, closer, link,
          wire, history>>

NoOutcome == [code |-> NoCode, eligible |-> FALSE, known |-> FALSE]
NoCloser == [step |-> "none", code |-> NoCode, drain |-> FALSE, lost |-> FALSE]
NothingToSend == [frames |-> <<>>, terminal |-> FALSE]

Role == validator.role
Closing == closer.step # "none"
Finished == closer.step = "closed"

FramesOf(batches) == UNION {Range(b.frames) : b \in Range(batches)}
WeightIn(lane, b) == IF b.lane = lane THEN b.weight ELSE 0
Weight(batches, lane) ==
  LET sum[k \in 0..Len(batches)] ==
        IF k = 0 THEN 0 ELSE sum[k - 1] + WeightIn(lane, batches[k])
  IN sum[Len(batches)]
Without(batches, gone) ==
  LET kept[k \in 0..Len(batches)] ==
        IF k = 0 THEN <<>>
        ELSE IF batches[k] \in gone THEN kept[k - 1] ELSE Append(kept[k - 1], batches[k])
  IN kept[Len(batches)]

-----------------------------------------------------------------------------
(* _BoundedBatchQueue.  Each operator constrains the queue's variables and *)
(* the frames it drops.                                                    *)

Batch(frames, lane, weight, terminal) ==
  [frames |-> frames, lane |-> lane, weight |-> weight, terminal |-> terminal]

Overflow(lane, weight) == occupancy[lane] + weight > Capacity(lane)

PutFirst(frames, lane, weight) ==                          \* mutant
  /\ items' = <<Batch(frames, lane, weight, FALSE)>> \o items
  /\ occupancy' = [occupancy EXCEPT ![lane] = @ + weight]
  /\ UNCHANGED <<sealed, dropped, farewell>>
Put(frames, lane, weight) ==
  /\ items' = Append(items, Batch(frames, lane, weight, FALSE))
  /\ occupancy' = [occupancy EXCEPT ![lane] = @ + weight]
  /\ UNCHANGED <<sealed, dropped, farewell>>

CloseQueue(discard) ==
  /\ sealed' = TRUE /\ farewell' = farewell
  /\ IF discard /\ ~ sealed
     THEN /\ items' = <<>>
          /\ occupancy' = [lane \in Lane |-> 0]
          /\ dropped' = dropped \cup FramesOf(items)
     ELSE UNCHANGED <<items, occupancy, dropped>>

SealAsOrdinary(frames) ==                                  \* mutant
  IF sealed THEN UNCHANGED <<queue, dropped, farewell>>
  ELSE /\ sealed' = TRUE /\ farewell' = frames
       /\ items' = IF frames = <<>> THEN <<>>
                   ELSE <<Batch(frames, "control", Len(frames), FALSE)>>
       /\ occupancy' = [lane \in Lane |-> IF lane = "control" THEN Len(frames) ELSE 0]
       /\ dropped' = dropped \cup FramesOf(items)
SealUncounted(frames) ==                                   \* mutant
  IF sealed THEN UNCHANGED <<queue, dropped, farewell>>
  ELSE /\ sealed' = TRUE /\ farewell' = frames
       /\ items' = IF frames = <<>> THEN <<>>
                   ELSE <<Batch(frames, "control", Len(frames), TRUE)>>
       /\ occupancy' = [lane \in Lane |-> 0]
       /\ dropped' = dropped \cup FramesOf(items)
Seal(frames) ==
  IF sealed THEN UNCHANGED <<queue, dropped, farewell>>
  ELSE /\ sealed' = TRUE /\ farewell' = frames
       /\ items' = IF frames = <<>> THEN <<>>
                   ELSE <<Batch(frames, "control", Len(frames), TRUE)>>
       /\ occupancy' = [lane \in Lane |-> IF lane = "control" THEN Len(frames) ELSE 0]
       /\ dropped' = dropped \cup FramesOf(items)

-----------------------------------------------------------------------------
(* Requests to close.  RequestClose is _request_close: the first request   *)
(* decides; RequestFatal is _request_fatal: a server leaves one connection *)
(* error in its queue; RequestLoss is _request_transport_loss: it is       *)
(* recorded whatever was requested before.                                 *)

Outcome(code, eligible) == [code |-> code, eligible |-> eligible, known |-> TRUE]
Closer(step, code, drain, isLost) ==
  [step |-> step, code |-> code, drain |-> drain, lost |-> isLost]

BeginClose(v) == IF v.state = "ready" THEN [v EXCEPT !.state = "closing"] ELSE v

ScheduleClose(code, drain) ==
  IF Closing THEN UNCHANGED <<outcome, closer>>
  ELSE /\ outcome' = Outcome(code, code = GoingAway)
       /\ closer' = Closer("requested", code, drain, FALSE)

RequestClose(code, drain) ==
  /\ ScheduleClose(code, drain)
  /\ validator' = IF Closing THEN validator ELSE BeginClose(validator)

RequestFatal ==
  IF Closing THEN UNCHANGED <<queue, dropped, farewell, fatal, outcome, closer, validator>>
  ELSE /\ fatal' = TRUE
       /\ Seal(IF Role = "server" THEN <<ConnectionError>> ELSE <<>>)
       /\ RequestClose(ProtocolError, TRUE)

LossEligible(code) == code \in {NoCode, GoingAway, Abnormal}

LossRecorded(code) ==                                      \* mutant
  /\ lost' = TRUE
  /\ outcome' = Outcome(code, LossEligible(code))
  /\ CloseQueue(TRUE)
  /\ closer' = closer
RequestLoss(code) ==
  /\ lost' = TRUE
  /\ outcome' = Outcome(code, LossEligible(code))
  /\ CloseQueue(TRUE)
  /\ closer' = IF Closing THEN closer ELSE Closer("requested", code, FALSE, TRUE)

-----------------------------------------------------------------------------
(* The application's calls, made on the loop.  A call that raises changes  *)
(* nothing and is no step.                                                 *)

(* start_handshaken: the handshake is done, the validator is ready.        *)
Start ==
  /\ reader = "idle" /\ ~ Closing
  /\ reader' = "running" /\ writer' = "running" /\ keepalive' = "running"
  /\ validator' = [validator EXCEPT !.state = "ready"]
  /\ UNCHANGED <<queue, sending, fatal, lost, outcome, closer, link, wire, history>>

Started == reader # "idle" /\ ~ Closing /\ validator.state = "ready"

(* The next n messages the validator accepts.                              *)
NextMessages(n) == [k \in 1..n |-> validator.accepted + k]
Room(n) == validator.accepted + n <= MaxFrames
Accepting(n) == [validator EXCEPT !.accepted = @ + n]

(* enqueue_batch: transition, then put, then assign the data.              *)
EnqueueBatch ==
  \E n \in 1..MaxBatch, lane \in Lane : \E weight \in {1, n} :
    /\ Started /\ Room(n)
    /\ ~ sealed /\ ~ Overflow(lane, weight)
    /\ Put(NextMessages(n), lane, weight)
    /\ validator' = Accepting(n)
    /\ UNCHANGED <<tasks, sending, fatal, lost, outcome, closer, link, wire, received, stopped>>

(* n messages the server owes (none, or a control batch) go into the queue *)
(* with the data, or neither does.                                         *)
Answers == IF Role = "server" THEN 0..MaxBatch ELSE {0}
Answered(n) ==
  \/ /\ n = 0
     /\ UNCHANGED <<queue, dropped, farewell>>
  \/ /\ n > 0 /\ ~ sealed /\ ~ Overflow("control", n)
     /\ Put(NextMessages(n), "control", n)

(* commit_input_audio: the data is assigned first, and restored if the     *)
(* resulting close (n messages) finds no place in the queue.               *)
CommitKept ==                                              \* mutant
  \E n \in 0..MaxBatch :
    /\ Role = "server" /\ Started /\ Room(n) /\ validator.committed < MaxCommits
    /\ validator' = [Accepting(n) EXCEPT !.committed = @ + 1]
    /\ IF n = 0 \/ sealed \/ Overflow("control", n) THEN UNCHANGED <<queue, dropped, farewell>>
       ELSE Put(NextMessages(n), "control", n)
    /\ UNCHANGED <<tasks, sending, fatal, lost, outcome, closer, link, wire, received, stopped>>
CommitInputAudio ==
  \E n \in 0..MaxBatch :
    /\ Role = "server" /\ Started /\ Room(n) /\ validator.committed < MaxCommits
    /\ validator' = [Accepting(n) EXCEPT !.committed = @ + 1]
    /\ Answered(n)
    /\ UNCHANGED <<tasks, sending, fatal, lost, outcome, closer, link, wire, received, stopped>>

(* discard_queued: the predicates of both facades pick batches of PCM.     *)
DiscardQueued ==
  \E gone \in SUBSET {b \in Range(items) : b.lane = "data"} :
    /\ gone # {}
    /\ items' = Without(items, gone)
    /\ occupancy' = [lane \in Lane |->
                       occupancy[lane] - Weight(Without(items, Range(items) \ gone), lane)]
    /\ dropped' = dropped \cup UNION {Range(b.frames) : b \in gone}
    /\ UNCHANGED <<validator, sealed, tasks, sending, fatal, lost, outcome, closer,
                   link, wire, received, farewell, stopped>>

(* seal_orderly: once per connection, by VoiceClient._close or             *)
(* ServerSession._shutdown_impl, which then call close.                    *)
SealOrderly ==
  \E n \in 1..MaxBatch :
    /\ Started /\ Room(n)
    /\ ~ sealed
    /\ Seal(NextMessages(n))
    /\ validator' = Accepting(n)
    /\ UNCHANGED <<tasks, sending, fatal, lost, outcome, closer, link, wire, received, stopped>>

(* close: the facades drain only what they sealed.                         *)
Close ==
  \E code \in {Normal, GoingAway, InternalError} :
    /\ ~ Closing
    /\ RequestClose(code, sealed)
    /\ UNCHANGED <<queue, tasks, sending, fatal, lost, link, wire, history>>

(* ServerSession.fail(CONNECTION): the error as an ordinary message, then  *)
(* close(1002, drain=True).                                                *)
FailConnection ==
  /\ Role = "server" /\ Started /\ Room(1)
  /\ ~ sealed /\ ~ Overflow("control", 1)
  /\ Put(NextMessages(1), "control", 1)
  /\ outcome' = Outcome(ProtocolError, FALSE)
  /\ closer' = Closer("requested", ProtocolError, TRUE, FALSE)
  /\ validator' = [Accepting(1) EXCEPT !.state = "closing"]
  /\ UNCHANGED <<tasks, sending, fatal, lost, link, wire, received, stopped>>

-----------------------------------------------------------------------------
(* _reader: from one recv to the next.                                     *)

Receives ==
  /\ reader = "running" /\ received < MaxInbound
  /\ received' = received + 1
  /\ UNCHANGED <<writer, keepalive, sending, lost, link, wire, stopped>>

(* A frame that cannot be decoded or that the rules reject; once the       *)
(* validator is closing they reject every message.                         *)
ReceiveIllegal ==
  /\ Receives
  /\ reader' = "done"
  /\ RequestFatal

(* A legal message, with the messages the server answers on its own.       *)
ReceiveLegal ==
  \E n \in Answers :
    /\ Receives
    /\ validator.state = "ready" /\ Room(n)
    /\ Answered(n)
    /\ validator' = Accepting(n)
    /\ UNCHANGED <<reader, fatal, outcome, closer>>

(* The queue has no place for the answer, or is closed.                    *)
AnswerRefused ==
  \E n \in Answers \ {0} :
    /\ Receives
    /\ validator.state = "ready" /\ Room(n)
    /\ sealed \/ Overflow("control", n)
    /\ reader' = "done"
    /\ RequestClose(InternalError, FALSE)
    /\ UNCHANGED <<queue, dropped, farewell, fatal>>

(* The transition hook raises after the data was assigned.                 *)
ReceiveHookFails ==
  \E n \in Answers :
    /\ Receives
    /\ validator.state = "ready" /\ Room(n)
    /\ Answered(n)
    /\ reader' = "done" /\ fatal' = fatal
    /\ ScheduleClose(InternalError, FALSE)
    /\ validator' = IF Closing THEN Accepting(n) ELSE BeginClose(Accepting(n))

(* The server's connection error: nothing more is sent.                    *)
ReceiveConnectionError ==
  /\ Role = "client"
  /\ Receives
  /\ validator.state = "ready"
  /\ reader' = "done"
  /\ fatal' = TRUE
  /\ Seal(<<>>)
  /\ ScheduleClose(ProtocolError, TRUE)
  /\ validator' = BeginClose(validator)

(* recv raises once the WebSocket is closed.                               *)
ReaderLoses ==
  /\ reader = "running" /\ link # Opened
  /\ reader' = "done"
  /\ RequestLoss(link)
  /\ UNCHANGED <<validator, writer, keepalive, sending, fatal, link, wire, received, stopped>>

-----------------------------------------------------------------------------
(* _writer: get, then one send at a time.                                  *)

WriterGets ==
  LET batch == Head(items) IN
  /\ writer = "running" /\ sending.frames = <<>> /\ items # <<>>
  /\ items' = Tail(items)
  /\ occupancy' = [occupancy EXCEPT ![batch.lane] = @ - batch.weight]
  /\ IF fatal /\ ~ batch.terminal
     THEN dropped' = dropped \cup Range(batch.frames) /\ sending' = NothingToSend
     ELSE sending' = [frames |-> batch.frames, terminal |-> batch.terminal] /\ dropped' = dropped
  /\ UNCHANGED <<validator, sealed, tasks, fatal, lost, outcome, closer, link, wire,
                 received, farewell, stopped>>

(* get raises on a closed empty queue.                                     *)
WriterEnds ==
  /\ writer = "running" /\ sending.frames = <<>> /\ items = <<>> /\ sealed
  /\ writer' = "done"
  /\ UNCHANGED <<validator, queue, reader, keepalive, sending, fatal, lost, outcome,
                 closer, link, wire, history>>

(* A send returns; a fatal error meanwhile cuts the rest of the batch.     *)
SendsOn ==                                                 \* mutant
  LET rest == Tail(sending.frames) IN
  /\ writer = "running" /\ sending.frames # <<>> /\ link = Opened
  /\ wire' = Append(wire, Head(sending.frames))
  /\ sending' = IF rest = <<>> THEN NothingToSend ELSE [sending EXCEPT !.frames = rest]
  /\ UNCHANGED <<validator, queue, tasks, fatal, lost, outcome, closer, link, history>>
WriterSends ==
  LET rest == Tail(sending.frames)
      cut == fatal /\ ~ sending.terminal
  IN
  /\ writer = "running" /\ sending.frames # <<>> /\ link = Opened
  /\ wire' = Append(wire, Head(sending.frames))
  /\ sending' = IF cut \/ rest = <<>> THEN NothingToSend ELSE [sending EXCEPT !.frames = rest]
  /\ dropped' = IF cut THEN dropped \cup Range(rest) ELSE dropped
  /\ UNCHANGED <<validator, queue, tasks, fatal, lost, outcome, closer, link, received, farewell,
                 stopped>>

(* send raises once the WebSocket is closed.  (RequestLoss may drop queued *)
(* frames as well; the frames in hand are dropped when the task is done.)  *)
WriterLoses ==
  /\ writer = "running" /\ sending.frames # <<>> /\ link # Opened
  /\ writer' = "done"
  /\ RequestLoss(link)
  /\ UNCHANGED <<validator, reader, keepalive, sending, fatal, link, wire, received, stopped>>

-----------------------------------------------------------------------------
(* _keepalive.                                                             *)

PingTimesOut ==
  /\ keepalive = "running"
  /\ keepalive' = "done"
  /\ RequestFatal
  /\ UNCHANGED <<reader, writer, sending, lost, link, wire, received, stopped>>

KeepaliveLoses ==
  /\ keepalive = "running" /\ link # Opened
  /\ keepalive' = "done"
  /\ RequestLoss(link)
  /\ UNCHANGED <<validator, reader, writer, sending, fatal, link, wire, received, stopped>>

-----------------------------------------------------------------------------
(* Cancellation reaches a task at its await.  A cancelled send may or may  *)
(* not have put its frame on the wire.                                     *)

ReaderCancelled ==
  /\ reader = "cancelling" /\ reader' = "done"
  /\ UNCHANGED <<validator, queue, writer, keepalive, sending, fatal, lost, outcome,
                 closer, link, wire, history>>
KeepaliveCancelled ==
  /\ keepalive = "cancelling" /\ keepalive' = "done"
  /\ UNCHANGED <<validator, queue, reader, writer, sending, fatal, lost, outcome,
                 closer, link, wire, history>>
WriterCancelled ==
  /\ writer = "cancelling" /\ writer' = "done"
  /\ \/ UNCHANGED <<sending, wire>>
     \/ /\ sending.frames # <<>> /\ link = Opened
        /\ wire' = Append(wire, Head(sending.frames))
        /\ sending' = [sending EXCEPT !.frames = Tail(@)]
  /\ UNCHANGED <<validator, queue, reader, keepalive, fatal, lost, outcome, closer,
                 link, history>>

-----------------------------------------------------------------------------
(* _shutdown, the close task.                                              *)

Cancelled(task) == IF task = "running" THEN "cancelling" ELSE task
GoTo(step) == closer' = [closer EXCEPT !.step = step]

ShutdownStarts ==
  LET waits == closer.drain /\ writer = "running" IN
  /\ closer.step = "requested"
  /\ reader' = Cancelled(reader) /\ keepalive' = Cancelled(keepalive)
  /\ writer' = IF waits THEN writer ELSE Cancelled(writer)
  /\ CloseQueue(~ closer.drain)
  /\ GoTo(IF waits THEN "draining" ELSE "joining")
  /\ UNCHANGED <<validator, sending, fatal, lost, outcome, link, wire, received, stopped>>

DrainEnds ==
  /\ closer.step = "draining" /\ writer = "done"
  /\ stopped' = "drained"
  /\ GoTo("joining")
  /\ UNCHANGED <<validator, queue, tasks, sending, fatal, lost, outcome, link, wire,
                 dropped, received, farewell>>

(* Half of close_timeout has passed.                                       *)
WaitsForWriter ==                                          \* mutant
  /\ closer.step = "draining" /\ writer = "done"
  /\ stopped' = "timeout"
  /\ GoTo("joining")
  /\ UNCHANGED <<validator, queue, tasks, sending, fatal, lost, outcome, link, wire,
                 dropped, received, farewell>>
DrainTimesOut ==
  /\ closer.step = "draining" /\ writer # "done"
  /\ writer' = Cancelled(writer)
  /\ stopped' = "timeout"
  /\ GoTo("joining")
  /\ UNCHANGED <<validator, queue, reader, keepalive, sending, fatal, lost, outcome,
                 link, wire, dropped, received, farewell>>

(* The finally block: the validator is disconnected and waiters wake.      *)
Finish ==
  /\ validator' = [validator EXCEPT !.state = "disconnected"]
  /\ GoTo("closed")

JoinsReader == reader \in {"idle", "done"}                 \* mutant
Joined == {reader, writer, keepalive} \subseteq {"idle", "done"}
ClosesSocket == ~ closer.lost /\ ~ lost /\ closer.code # NoCode

JoinEnds ==
  /\ closer.step = "joining" /\ Joined
  /\ \/ ClosesSocket /\ GoTo("closing") /\ validator' = validator
     \/ ~ ClosesSocket /\ Finish
  /\ UNCHANGED <<queue, tasks, sending, fatal, lost, outcome, link, wire, history>>

(* transport.close returns, fails or times out.                            *)
SocketCloses ==
  /\ closer.step = "closing"
  /\ link' \in {link, IF link = Opened THEN closer.code ELSE link}
  /\ Finish
  /\ UNCHANGED <<queue, tasks, sending, fatal, lost, outcome, wire, history>>

-----------------------------------------------------------------------------
(* The network: the peer closes with a code, or the connection is lost.    *)

LinkCloses ==
  /\ link = Opened
  /\ link' \in CloseCodes
  /\ UNCHANGED <<validator, queue, tasks, sending, fatal, lost, outcome, closer, wire,
                 history>>
-----------------------------------------------------------------------------
Init ==
  /\ \E role \in Roles :
       validator = [role |-> role, state |-> "disconnected", accepted |-> 0, committed |-> 0]
  /\ items = <<>> /\ occupancy = [lane \in Lane |-> 0] /\ sealed = FALSE
  /\ reader = "idle" /\ writer = "idle" /\ keepalive = "idle"
  /\ sending = NothingToSend
  /\ fatal = FALSE /\ lost = FALSE
  /\ outcome = NoOutcome /\ closer = NoCloser
  /\ link = Opened /\ wire = <<>>
  /\ dropped = {} /\ received = 0 /\ farewell = <<>> /\ stopped = "none"

Application ==
  \/ Start \/ EnqueueBatch \/ CommitInputAudio \/ DiscardQueued
  \/ SealOrderly \/ Close \/ FailConnection
Reader ==
  \/ ReceiveIllegal \/ ReceiveLegal \/ AnswerRefused \/ ReceiveHookFails
  \/ ReceiveConnectionError
  \/ ReaderLoses \/ ReaderCancelled
Writer ==
  \/ WriterGets \/ WriterEnds \/ WriterSends \/ WriterLoses \/ WriterCancelled
Keepalive == PingTimesOut \/ KeepaliveLoses \/ KeepaliveCancelled
Shutdown ==
  \/ ShutdownStarts \/ DrainEnds \/ DrainTimesOut \/ JoinEnds \/ SocketCloses

(* Once the connection is closed nothing need happen any more.             *)
Rest == Finished /\ UNCHANGED vars

Next ==
  Application \/ Reader \/ Writer \/ Keepalive \/ Shutdown \/ LinkCloses \/ Rest

(* The event loop runs every task that is ready, timers fire, a closed     *)
(* WebSocket raises in recv, and a cancelled task is woken.  Nothing makes *)
(* a peer read: a send may never return, and no message need arrive.       *)
Fairness ==
  /\ WF_vars(WriterGets \/ WriterEnds \/ WriterLoses \/ WriterCancelled)
  /\ WF_vars(ReaderLoses \/ ReaderCancelled)
  /\ WF_vars(KeepaliveCancelled)
  /\ WF_vars(Shutdown)

Spec == Init /\ [][Next]_vars
FairSpec == Spec /\ Fairness
-----------------------------------------------------------------------------
(* Properties.                                                             *)

TaskState == {"idle", "running", "cancelling", "done"}
Batches == [frames : Seq(Frames), lane : Lane, weight : Nat, terminal : BOOLEAN]

(* The state of _TransportCore and _BoundedBatchQueue is well formed.      *)
TypeOK ==
  /\ validator \in [role : Roles, state : {"disconnected", "ready", "closing"},
                    accepted : 0..MaxFrames, committed : 0..MaxCommits]
  /\ items \in Seq(Batches) /\ occupancy \in [Lane -> Nat] /\ sealed \in BOOLEAN
  /\ {reader, writer, keepalive} \subseteq TaskState
  /\ sending \in [frames : Seq(Frames), terminal : BOOLEAN]
  /\ fatal \in BOOLEAN /\ lost \in BOOLEAN
  /\ outcome \in [code : CloseCodes, eligible : BOOLEAN, known : BOOLEAN]
  /\ closer \in [step : {"none", "requested", "draining", "joining", "closing", "closed"},
                 code : CloseCodes, drain : BOOLEAN, lost : BOOLEAN]
  /\ link \in CloseCodes \cup {Opened}
  /\ wire \in Seq(Frames) /\ dropped \subseteq Frames
  /\ received \in 0..MaxInbound /\ farewell \in Seq(Frames) /\ stopped \in {"none", "drained", "timeout"}

(* The occupancy counters of both lanes agree with the queue through every *)
(* put, get, discard, seal and close, and only the reserved terminal batch *)
(* may exceed a lane's capacity.                                           *)
OccupancyOK ==
  \A lane \in Lane :
    /\ occupancy[lane] = Weight(items, lane)
    /\ (\A b \in Range(items) : ~ b.terminal) => occupancy[lane] <= Capacity(lane)

(* What the validator holds to be sent is sent, on its way, or was thrown  *)
(* away by a discard, a seal, a close or a fatal error: enqueue_batch,     *)
(* seal_orderly, commit_input_audio and _reader change the data and the    *)
(* queue together or not at all.                                           *)
OnItsWay == Range(wire) \cup Range(sending.frames) \cup FramesOf(items)
Accounted ==
  /\ 1..validator.accepted = (OnItsWay \ {ConnectionError}) \cup dropped
  /\ OnItsWay \cap dropped = {}

(* Messages go out in the order the validator accepted them, each at most  *)
(* once, and nothing follows the connection error: on the wire, in the     *)
(* batch being sent, and from one queued batch to the next.                *)
Before(a, b) == a # ConnectionError /\ (b = ConnectionError \/ a < b)
Ordered(s) == \A j, k \in DOMAIN s : j < k => Before(s[j], s[k])
Precedes(s, t) == \A a \in Range(s), b \in Range(t) : Before(a, b)
Gone == wire \o sending.frames
InOrder ==
  /\ Ordered(Gone)
  /\ \A k \in DOMAIN items :
       /\ Ordered(items[k].frames)
       /\ Precedes(Gone, items[k].frames)
  /\ \A j, k \in DOMAIN items : j < k => Precedes(items[j].frames, items[k].frames)

(* After a fatal error the writer may finish the send it is in, and goes   *)
(* on with no other frame of an ordinary batch.                            *)
FatalCuts ==
  [][fatal /\ writer = "running" /\ sending' # sending =>
       sending'.frames = <<>> \/ sending'.terminal]_vars

(* What a seal retained, the end of the conversation or the connection     *)
(* error, is the last thing the peer reads, unless the connection is lost  *)
(* or the writer is cut off.                                               *)
LastWords ==
  Finished /\ stopped = "drained" /\ ~ lost => IsSuffix(farewell, wire)

(* Once the shutdown closes the socket nothing is sent or accepted.        *)
QuietAfterClose ==
  [][closer.step \in {"closing", "closed"} =>
       wire' = wire /\ validator'.accepted = validator.accepted]_vars

(* The close task ends, also when a send never returns.                    *)
ShutdownEnds == Closing ~> Finished

(* A closed or lost WebSocket ends the connection, whatever the tasks are  *)
(* doing.                                                                  *)
LossEndsConnection == (link # Opened /\ reader = "running") ~> Finished

(* doc/en/operations.md:59-61 says of reconnecting: "It follows normal     *)
(* close `1001` or abnormal transport loss, but not protocol `1002` or     *)
(* policy `1008`."  _request_transport_loss overwrites the outcome of the  *)
(* protocol error that _request_fatal recorded.                            *)
NoReconnectAfterFatal == fatal => ~ outcome.eligible
=============================================================================
