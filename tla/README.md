# linklab in TLA+

linklab (`src/src/lumivox_linklab/`) carries spoken conversations between a voice client and a voice server over one
WebSocket: the client streams captured audio, the server transcribes it, answers in text and audio, and both sides may
interrupt the other. This directory holds models of its parts, checked with TLC on small instances, and proofs,
checked with TLAPS, of what holds for every instance.

- [The system](#the-system): parts, state, interactions, hard behaviours
- [The modules](#the-modules) and how they correspond to the code
- [What is checked](#what-is-checked), with bounds and fairness
- [What is proved](#what-is-proved)
- [Findings](#findings)
- [What is not modelled](#what-is-not-modelled) and [the plan](#plan)

## The system

| part | source | state | operations |
| --- | --- | --- | --- |
| protocol validator | `_protocol.py` | one immutable `_ValidatorData`: connection, open conversation, inputs, responses with output and playback, identifier allocators, tombstones | one handler per message, PCM commit, connect, begin close, disconnect |
| messages, schema, codec | `_messages.py`, `_schema.py`, `_codec.py` | none | construct, check, encode, decode |
| transport core | `_transport.py` | validator, two-lane bounded outbound queue, reader, writer and keepalive tasks, outcome, shutdown task | enqueue a batch, commit PCM, discard, seal, close |
| client ingress | `_client_ingress.py` | second validator, batches with two bounded lanes, pre-roll, pending notification, failure | submit audio, abort input, cancel conversation, report playback, accept inbound, prepare shutdown |
| client facade | `_client.py` | transport core, hand-off task, wake event, reconnect monitor, callback queue | connect, close, hand-off, dispatch callbacks |
| server session | `_server.py` | transport core, lifecycle timers, handler queue, writers | close input, transcripts, response and output writers, end, fail, handler dispatch |
| voice server | `_server.py` | admission slots, sessions | serve, admit, close |
| handshake, discovery | `_handshake.py`, `_discovery.py` | hello in progress; service set, revision, generation | open, resolve |
| configuration, observability | `_config.py`, `_observability.py` | none that the others read | |

**How they interact.** Each endpoint of a connection runs one transport core, which owns a validator. An outbound
message is validated when it is queued, an inbound one when it is read, so the two validators of a connection see the
same messages in different orders. A client has a third validator, in its ingress: capture threads need an answer at
once, so a call is validated there under a lock and its messages are handed to the core later by a task of the event
loop. What the server sends is applied to the core's validator and then, in the transition hook, to that of the
ingress. Everything but the ingress calls runs on one asyncio loop; tasks switch only at an `await`.

**What makes it correct.** A validator's records stay paired and current the way its handlers assume when they look an
object up; at most one side speaks; an interrupted response stays stale; a terminal fact is final. In the transport,
validator and queue move together, order is kept, a sealed batch is the last thing sent, every shutdown ends. In the
client, the copies of the protocol state converge, accepted audio is not lost while its input is open and not sent
once it is closed, and close comes to an end. In the server's session, the timer is always set for what the server is
waiting for, a writer lives exactly as long as its response, a failing handler harms the smallest object it can,
nobody waits for ever. Over the life of the program, a client has one connection at a time and none after close, and
the server gives every slot back and closes empty.

**What is hard to test** is listed, line by line, as the hazards of `PROJECT.json`: audio, failures and playback
outcomes that arrive late or twice; a barge-in at any point of a response; a handler that commits audio of an input
closed meanwhile; full lanes between two steps of one operation; a fatal error, an orderly end, a ping timeout and the
loss of the connection racing each other; capture threads racing the hand-off; a discard that frees the room somebody
waits for; timers that fire for an object already replaced; handlers that raise after half of their work; messages of
the two ends that cross; connect, reconnect delay and close at any await of each other; close before, during and after
all of these.

## The modules

```
Protocol ─┬─ Messages ───────────┬─ Validator ── ValidatorTurn ── MCValidator
          └─ ProtocolInvariants ─┤      (Turn is an INSTANCE in ValidatorTurn)
                       Queues ───┼─ Client ───── MCClient
             Messages, Queues ── Session ─ Link ─ MCLink
                                    (Protocol is an INSTANCE in Link: the client's rules)
Transport ─── MCTransport
Connections ─ MCConnections

proofs:
ProtocolInvariants, Messages ─ ProtocolProof ─ ProtocolSteps ─┬─ ValidatorProof (with ValidatorTurn)
                                                              └─ LinkProof (with Link)
Queues ─ SequenceLemmas ─┬─ TransportProof (with Transport)
                         ├─ ClientProof (with Client and ProtocolProof)
                         └─ LinkProof
Connections ─ ConnectionsProof
```

**`Protocol`** is `ProtocolValidator` as operators: for each handler a guard `CanX(d, m)`, false where the code raises
`ProtocolViolation`, and the next data `AfterX(d, m)`; `Accepts` and `After` dispatch on the message type as
`_transition` does. Data keeps the field names of the dataclasses. Inputs and responses are functions of their
identifier, since identifiers are allocated without gaps; identifier 0 stands for `None`. A response's `terminal`
merges `cancel` and `end`: a reason, `"ended"` or `"none"`. Automatic messages of the server (the cancel a barge-in
causes, what `_fail_input`, `_fail_response` and `_fail_conversation` append) are effects of the handler that
generates them, as in the code. There is no `RECURSIVE` operator.

**`Messages`** gives the finite sets of messages the constructors allow, cut by `ConversationIds`, `InputIds`,
`ResponseIds`, `MaxChunk`, `MaxRevision`, `MaxDeltas`, `MaxOutput` and `Vocabulary`. Text is a model value, PCM a
number of frames; fields no rule reads are absent.

**`Validator`** is one validator as a state machine, one action per handler, plus `CommitInputAudio`. Any message of
the bounded sets may come in any order, whichever side would send it: the largest environment, so its invariants hold
in all three validators of a connection. Rejection leaves the data alone and is no step.

**`ProtocolInvariants`** states what `Validator` checks and the proofs prove, as predicates of the data.

**`Transport`** is `_TransportCore` with `_BoundedBatchQueue`. An action runs from one `await` to the next; a task is
idle, running, cancelling or done. The validator is abstracted to what the queue must agree with: how many outbound
messages it accepted and how many chunks were committed. Variables `dropped`, `received`, `farewell` and `stopped` are
history and influence nothing. Actions group as `Application` (calls), `Reader`, `Writer`, `Keepalive`, `Shutdown` and
`LinkCloses` (the peer or the network). Time appears as the choice between `DrainEnds` and `DrainTimesOut`,
`PingTimesOut`, and joins that may give up.

**`Client`** is the sending side of a client on one established connection: the ingress with its calls (`Submit`,
`AbortInput`, `CancelConversation`, `ReportPlayback`, each up to the release of the lock, then `Deliver`, which calls
the loop), the hand-off task (`HandoffWakes`, `HandoffTakes`, `HandoffRefused`, `HandoffBlocked`, `HandoffRests`;
while it is emptying the ingress no other task of the loop runs, but capture threads do), the core's queue and writer,
inbound messages (`ReceiveAccepted`, `ReceiveRejected`), loss, and `close` (`Close` up to its first wait,
`CloseGoesOn`, `CloseReturns`). It holds three validator data: of the ingress, of the core, and of what the server has
read and sent (external: a server that says whatever the rules of `Protocol` still allow, drawn from the constant
`Said`). The shutdown of the core, the subject of `Transport`, is the step from `"closing"` to `"closed"`. Clearing
`_notification_pending` and setting `_wake` are two moments in the code and one step here; nothing reads either in
between.

**`Turn`** is what the rules promise, without messages: whose turn it is (`phase`), how many conversations and inputs
there were, which inputs got an answer, why the last conversation ended. **`ValidatorTurn`** reads these off a
validator's data (`PhaseOf`, `Count`, `AnswersOf`, `LastOutcome`) and states the refinement `ImplementsTurn ==
T!Spec`. A closing connection accepts nothing and counts as off; the server's failure handlers doom and end a
conversation in one step, which is `Turn`'s `Fail` (where a failure meets a response that is being cancelled, the
conversation ends as cancelled), while on the client a failure and the end that follows are two messages, `Doom` and
`End`.

**`Session`** is `ServerSession`, its handler queue and dispatcher, its response and output writers and its lifecycle
timeouts, as operators from one session record to the next, in the manner of `Protocol`. None of these methods
contains an `await` between its first change and its last, so each is one step; a method that raises keeps what it did
before, and sets `raised` for its caller to deal with, which is what the exception handlers of the code do. Three
callers differ: the application sees the exception and nothing else follows, a handler's exception goes to
`_handle_handler_failure`, a reader's or a timer's ends the connection.

**`Queues`** has what both ends ask of the batches and events they hold, the sum behind an occupancy counter and what
is left after a discard, as recursive functions of a sequence.

**`Link`** makes the operators a specification and joins a session to its client. The actions are what the event loop
of the server can do: read a message (`ClientSays`), send a batch (`WriterSends`), dispatch an event (`DispatchNext`)
and see its handler return or raise, fire a timer, and any call of the application at any time, from a handler or from
elsewhere. The client is the validator of `Protocol` in the role of a client and says whatever it accepts. The
client's messages reach the server at once and the server's take time: a message the server reads late is as good as
one the client said late, having read in the meantime as little as when it spoke. What was said over a message still
on its way is recorded in `crossed`.

**`Connections`** is what surrounds a connection: `VoiceClient.connect` and every await of an attempt, the reconnect
monitor, `close` and `_finish`; `VoiceServer.serve` with its clean-up, admission, the handler of a connection on every
path, `close`. A connection is two ends that are open or closed with a code that does or does not let the client come
back. A core that is asked to seal the last words may refuse them, and the close fails (`CloseAwaits`); a shutdown of
a session may raise. A cancelled task takes the cancellation at its next step, also when what it waited for is there.
Where `connect` has raised, the task that ran it is assumed over when it returns to its caller.

The modules named `MC...` name the instances, those named `...Proof`, `ProtocolSteps` and `SequenceLemmas` hold the
proofs. An operator marked as a mutant beside a definition is that definition with a plausible bug; it is used
nowhere.

## What is checked

| run | instance | shows |
| --- | --- | --- |
| `server_turns` | validator of a server: two inputs and two responses with barge-in and cancellation; or one input of three frames, every close and failure (225 thousand states) | `TypeOK`, `TurnsOK`, `OneSpeakerAtATime`, `TerminalIntent`, `CommitsWholeChunks`, `ServerFailsAtOnce`, `TerminalIsFinal`, `ImplementsTurn` |
| `client_turns` | validator of a client: two conversations, each with a response in text and audio, that complete, are cancelled or fail anywhere (564 thousand) | `PlaysWhatWasSent`, `SilencedIsStale`, `TombstonesTellTheEnd`, `ImplementsTurn` |
| `transport` | a core of either role, two places per lane, three outbound messages (550 thousand) | `OccupancyOK`, `Accounted`, `InOrder`, `LastWords`, `FatalCuts`, `QuietAfterClose`, `ShutdownEnds`, `LossEndsConnection` |
| `client` | two inputs of up to three frames (four in all) with capture chunks of one or two, the second a barge-in; or one turn with close or loss at any moment (135 thousand) | `Counted`, `ClosedInputIsSilent`, `Gapless`, `Agreed`, `BacklogGone`, `WakeUpsArrive`, `CloseCompletes` |
| `session` | a session and its client in four stories, one event and one frame for the handler, four messages and one frame for the network (406 thousand) | `TimerFollows`, `WriterIsLive`, `CutIsCut`, `Agreed`, `RefusedOnlyIfCrossed`, `FailuresStaySmall`, `NoAbandonedConversation` |
| `connections` | a client of three attempts, a server of two slots, either closing at any time (103 thousand) | `OneConnection`, `StaysClosed`, `ClosedServerIsEmpty`, `ClientCloses`, `ServerCloses`, `SlotsReturn` |
| `stalled_handoff`, `close_before_handoff`, `reconnect_after_fatal`, `unfinished_shutdown`, `crossed_cancel`, `failing_handler` | | violations, see [Findings](#findings) |

The comment above each property says what it means and which code it is about. Some worth pointing out:
`ImplementsTurn` (all handlers together never open a turn in a conversation that is ending, nor answer an input
twice), `TerminalIntent` (a barge-in revokes the intent to end the conversation), `CommitsWholeChunks` (a commit that
comes after the close changes nothing the peer was told), `Accounted` and `InOrder` (validator and queue agree through
every failure between the two), `LastWords` (what was sealed is what the peer reads last), `Gapless` (what the server
read, what is being sent and what two queues hold join without a hole while the input is open), the two `Agreed` (core
plus queued batches equals ingress; client and server hold the same facts once everything is read), `TimerFollows`
(whatever changes what the server waits for re-arms the timer), `WakeUpsArrive` (no interleaving of capture threads,
hand-off and writer loses the call that wakes the hand-off), `FailuresStaySmall` (but for an overflow and the case of
`failing_handler`, no call, timer or failing handler ends the connection) and `SlotsReturn`. Two properties leave out
what a finding refutes: `CloseCompletes` and `ClientCloses` are about a close that the core did not refuse
(`close_before_handoff`), and of one that was refused `StaysClosed` says that the client keeps the connection it has
and opens no other.

**Bounds.** The rules relate at most two successive objects of a kind (an input and the one it follows, a response and
the one that interrupts it), so two of each suffice; two conversations show what one leaves behind for the next.
Frames count up to three where a limit, a chunk boundary and a late chunk must differ. `Vocabulary` limits the
enumeration values. In `server_turns` the constraint `OneStory` keeps apart several inputs and the audio of one: a
validator's rules on frames look at one input only. In `Transport` a capacity of two and batches of two give an empty,
a partly filled and a full lane and a batch interrupted in the middle. In `Client` a control lane of one is exhausted
by two calls (the code has sixteen places), and an input is longer than what ingress and core hold together where
overflow matters; `Said` and `Ends` bound the server and the ways an instance may end. The constraint `OneStory` of
`MCClient` keeps apart what `client` combines, the dialogue of two inputs and the turn that is closed or lost, since
an end says nothing new of a second input; it leaves out no step a close waits for. In `Link` a story says which
inputs, messages and calls one behaviour may contain and whose handlers may raise: `Speech` and `Answer` have
everything that can cut off a turn, `BargeIn` a second turn, `Reading` a response played to its end; all calls of a
story are possible at any time. One lifecycle event and one frame overflow the handler's queue, and the network holds
one batch: with the batches still queued that leaves every prefix unread. In `Connections` three attempts let a client
return twice, to a server that may hold one or both slots for its earlier connections; several clients meet only in
these slots. Its two `Troubles` are the network, a callback and a cancelled connect together, and, apart from them,
faults at either end.

**Comparison with the code.** Once, when `Protocol` was written, all states and transitions of eight small instances
were compared with those the Python `_transition` reaches from the same messages: they were the same.

**Fairness and deadlock.** `Transport`: writer, reader's and keepalive's cancellation and the shutdown are weakly
fair, since asyncio runs every ready task and timers fire; no fairness for a send in progress, for messages or for the
peer, since nothing makes a peer read. `Client`: a call goes on to its notification, the hand-off and the writer run,
a requested close ends (that is `ShutdownEnds`), and the wait of `close` ends by its timeout; calls, the server and
the loss of the connection are not fair. `Link`: a timer that stays armed fires (`TimersFire`, which spells out weak
fairness of the timers), and neither end of the conversation has to do anything else; a shutdown that was sealed goes
on, as does a core that was asked to close. `Connections`: every task goes on and its timeouts expire, and a WebSocket
tells each end that the other has closed, at the latest by its keepalive; no call is made and nothing goes wrong out
of fairness. `MCClient`, `MCLink` and `MCConnections` run without the deadlock check: a client with nothing to say and
a silent server stay where they are, and a program that has closed is over. The other runs check it.

## What is proved

All of it holds for every value of the constants that satisfies the named assumptions. Each invariant below is part of
an inductive one that TLC checked first; the theorem modules go bottom up, from the operators a definition is made of
to the action, one lemma per operator and handler, one step per action of `Next`.

**`Validator`** (`ProtocolAssumption`, `MessagesAssumption`): every safety property the runs check, and the
refinement. `DataWellFormed`, `TurnsHold`, `OneSpeakerHolds`, `ChunksCommitted`, `PlayedIsSent`, `SilencedAreStale`,
`FailureIsTerminal`, `IntentIsHonoured` and `TombstonesTell` prove the invariants, `TerminalStays` the action property
`TerminalIsFinal`, `RefinesTurn` that `Spec` implements `Turn`.

The inductive invariant is `Proper`, four parts that need each other:

- `Good`: the data is well formed and keeps `Turns`. `OneSpeaker` is not inductive: that an input may start because no
  response is current says nothing about responses unless an unfinished response is the current one. `Turns` adds what
  the handlers rely on: an open input is the current input of the open, uncancelled conversation and no response is
  current (`InputTurn`); the unfinished response is the current one and answers the current input (`ResponseTurn`);
  answered inputs and responses pair off (`Answered`); objects exist exactly below their allocator (`Allocated`); a
  conversation's current input is its own (`CurrentInput`); once an end is due nothing is current (`EndDue`).
- `Objects`: what holds of each input and response by itself, such as committing by whole chunks, or playing no more
  than was sent.
- `Ledger`: what the records of the past tell of the open conversation: what is current is what was begun last
  (`Newest`), only past conversations have ended (`Past`), what a barge-in or a failure silenced is stale
  (`SilencedByOthers`), and on a server no failure outlives its step (`ServerLives`).
- `Intent`: a response that is to end its conversation and was played to its end left the conversation with nothing to
  do but end.

The argument is not made once per property and handler. `ProtocolSteps` shows of each handler what its step is,
`Step(d, e)`: it keeps of every object what is settled (`Kept`), leaves the objects it is not about alone
(`OthersStand`) and makes one of nine moves (`Move`) on the conversation (it opens, is spoken to, is interrupted, is
answered and so on). The properties and the refinement then follow from `Step` alone. Four kinds of step remain for
`Next`: a handler ran (`Stepped`), the connection starts over, greets, or closes. The tombstones need a second look at
each handler: `Honest`, that they are exactly those of what is terminal, is kept because a handler buries what it
terminates, under the state it terminates in (`InputBecomes`, `ResponseBecomes`, `EndBecomes`).

The lemmas about handlers do not depend on the bounds of `Messages`: they are about any message the constructors allow
(the sets `Any...` of `ProtocolProof`), and only `Validator`'s actions cut these down (`Unbounded`).

**`Transport`** (`TransportAssumption`): every safety property. `TypeCorrect`, `OccupancyCorrect`, `AccountsBalance`,
`OrderKept`, `LastWordsSent` prove the invariants, `QuietOnceClosing` and `FatalCutsBatches` the action properties.
The inductive invariant has the types, the flow of frames (`FlowInv`: the counters are the weights of the queue; what
was accepted is in the queue, in the hand of the writer, on the wire or dropped, in this order; after a seal the queue
is the reserved batch or empty) and the shutdown (`ShutdownInv`: how far it has come tells which tasks may still run
and what may still be queued). Every action changes the flow in one of a few ways, a put, a get, a send, a loss, a
discard, a seal, and each of these has its lemma.

**`Client`** (the assumptions of `Protocol` and `Messages`, and `ClientAssumption`, by which the endpoint is a client
that offers at least one output format and the server says server messages): `CountersCorrect`, `BacklogStaysGone`,
`NobodyOversleeps`, `ClosedStaysSilent` and `NoGap`. The first three rest on `IInv`: the counters of the ingress are
the totals of its batches, and no batch holds more audio than it was counted with, through every put, hand-over,
refusal and discard (`QueueCounted`); the pre-roll fits its limit (`IsPreRoll`); once `close` waits for the end, the
ingress is empty and the queue of the core holds last words only (`Frozen`). `NobodyOversleeps` (the action property
`WakeUpsArrive`) follows step by step: a call that fills an empty queue notifies, and audio that finds no room in the
core finds something queued there, whose sending wakes the hand-off. What the validators accept decides which steps
are taken but plays no part in the argument.

`ClosedStaysSilent` and `NoGap` are about what it decides. `VInv` says that data is in batches of the input they are
labelled with and none of a closed input (`Muted`), and, while the connection is ready and not being shut down, that
for every input not closed at the ingress the audio being sent and queued in the core leads from what the server
received to what the core did, and the audio in the ingress on to what the ingress did (`Follow`). That the two
queues may be joined at the core is what makes it inductive: a hand-over moves a batch from one stretch to the other,
and the core accepted it. Each stretch grows by what its validator accepts: `Heard` tells of every message, of the
client (`UtteredHeard`) or the server (`RepliedHeard`), what accepting it does to an input, and `RunReaches` carries it
over a batch. The discard of the ingress keeps what begins before the accepted end of the close; that nothing of the
input does (`CloseOvertakes`) needs the core: the close was accepted there, within what the core had received, and the
ingress's queue goes on from there. During a shutdown `VInv` keeps only that no input is open (`Idle`): then the core
may lag behind the ingress for good, and nothing is promised.

**`Link`** (the assumptions of `Protocol`, `Messages` and `Link`, and `SessionAssumption`, by which a client offers at
least one output format): `TimerSet`, `WriterHeld` and `CutShort` prove `TimerFollows`, `WriterIsLive` and `CutIsCut`.
The three need one inductive invariant of the session, `IInv`:

- `Sound`: the session's data is `Good`, its objects and its ledger of inputs fit each other, and what waits for the
  handler came from a client. Which timer is due, and whose writer a response is, depends on data whose parts fit.
- `Held`: the writer is the one the data calls for (`Speaker`), and each queued batch of audio belongs to the response
  its tag names, none of them to a response that was cut short before its output was finished.
- `Tame`: a cancelled conversation is never left open while the session is up.
- The timer that is armed is the one that is due, until the server shuts down: then it is left behind on purpose.
- No exception is left that nobody has handled.

An operator of `Session` is a function of the session's record, so each has one lemma, `Fine(s, t)`: what it returns
is as right as what it was given. Three things make that more than a case split. A batch is validated message by
message before it is queued, and a failure in its middle must leave no half of it: `TransitionKeeps` and
`TransitionReaches` carry what every accepted message keeps to the end of any batch, and batches are told apart by
what they do to the speaker: those that leave it alone (`QuietBatch`) and those that silence it, whose audio the
operator must drop from the queue and whose writer it must end (`HushBatch`). A method may raise with the data changed
and the rest behind; then the exception must end the connection, whoever caught it (`GuardedFine`), or the data must
not have changed at all (`EnqueueControlFine`). And a shutdown seals a last batch without asking whether it is
accepted: `SealAccepted` shows that the validator accepts it whenever a response is going on, so that the writer never
outlives the conversation it spoke in.

**`Connections`** (`ConnectionsAssumption`: any number of clients, attempts and slots, any set of mishaps):
`OneConnectionHolds`, `ClosedStaysClosed`, `ClosedServerEmpty`. Here `Inductive` has a client's part and a server's.
`OneConnection` needs that whoever is at a step with a connection owns the link it names (`Owned`) and that an unused
link has no owner (`Unused`), or else dialing could take a connection from another client; `StaysClosed` needs that
only a client whose connect returned is up or in the delay (`Settled`), so that a close that finds nothing to wait for
may return. `ClosedServerIsEmpty` rests on `Stages`: how far `close` has come tells whether the listener is up,
whether connections are still admitted, and that slots are only taken while the server serves (`Admission`), which is
why a `serve` that was cancelled while starting need not wait for any. Most steps are covered by a few lemmas: ends
only close (`LinksShrink`), a client stays on its connection (`RecordMoves`), leaves it (`AttemptLeft`) or closes it
(`EndCloses`).

**Sequences.** The library's induction theorems take a predicate, which the provers cannot instantiate.
`SequenceLemmas` does induction with a set of numbers instead (`Induction`, `BoundedInduction`), shows that a
recursive function over the prefixes of a sequence is what its rule says (`PrefixRecursion`), and from these what
sums, totals and filters do under append, concatenation and removal.

**Only model-checked**: of `Client`, `Agreed`; of `Link`, `Agreed`, `RefusedOnlyIfCrossed` and `FailuresStaySmall`.
`Agreed` and `RefusedOnlyIfCrossed` relate two validators with messages of both directions between them: their
invariant needs that whole batches of the two directions commute, handler by handler. `FailuresStaySmall` needs of
each batch the server may queue which of its messages the validator can refuse. All liveness is model-checked too:
liveness under fairness and `ENABLED` are out of the prover's reach, as is induction with an operator for a parameter.
`Transport`'s type invariant, in turn, is proved and has no run.

## Findings

- **`stalled_handoff`**: after `input.closed` has discarded both the audio that filled the core's queue and the audio
  the hand-off was holding back for it, a control message behind it stays in the ingress: the hand-off sleeps, a
  discard wakes nobody (`_client.py:426`, `_transport.py:363`), and the ingress notifies only when it was empty
  (`_client_ingress.py:625`). Speech accepted later is not sent either. The same sequence was run against the Python
  classes with a stub WebSocket, with the same result.
- **`close_before_handoff`**: `close` between a `submit` that starts a conversation and its hand-over raises in
  `core.seal_orderly` (`_client.py:394`), because the core never saw the conversation it is told to cancel; the
  connection stays open. Reproduced with the Python classes too.
- **`reconnect_after_fatal`**: a transport loss during the shutdown after a protocol error replaces the outcome, and
  the client counts as eligible to reconnect (`_transport.py:639` against `doc/en/operations.md:59`).
- **`unfinished_shutdown`**: `_shutdown` seals a final transcript for an input that has none, then the end of the
  conversation. While the input is closed and waits for its response the validator rejects that end, `seal_orderly`
  raises, and neither the core nor the listener is closed (`_server.py:693`). `end_conversation` builds the same
  messages and raises in the same states.
- **`failing_handler`**: a handler of `conversation.start` that raises while audio of its input waits to be dispatched
  ends the connection with 1011. `_handle_handler_failure` fails the conversation, which closes the input, but neither
  drops its audio nor notes it as closed (`_server.py:868`; the branch for an input and `fail` do), and the dispatcher
  commits that audio next. `doc/en/operations.md:87` promises the narrowest scope for handler failures.
- **`crossed_cancel`**: a client that starts an input and cancels the conversation before it has read the server's
  first `state` message refuses that message and closes with 1002 (`_protocol.py:939`).

The rules leave more crossings of that last kind, of which `RefusedOnlyIfCrossed` is the complement. Refused by the
client: `response.start`, `transcript.final`, `input.closed` or `error` that crosses a `conversation.cancel`. Refused
by the server: a barge-in or `playback.interrupted` that crosses `response.end`; `conversation.cancel` or
`input.start` that crosses `conversation.end`; `playback.finished` that crosses `response.cancelled`; `input.abort`
that crosses `input.closed`.

Other behaviour met while modelling, for which the properties make an exception:

- When a barge-in cuts an output that was already ended, its PCM is discarded from the queue but its `output.end` is
  sent, and the client refuses the count of frames (`RefusedOnlyIfCrossed`); after `ResponseWriter.finish` a barge-in
  discards nothing (`CutIsCut`).
- `_handle_handler_failure` does not ask whether the conversation that is open now is the one whose handler failed. An
  `on_input_...` handler that raises after starting a response is ignored (`_server.py:831`), and the response, for
  which no timer is armed, stays open until the application or the client ends it (`doc/en/operations.md:88` would have
  it end); hence `Abandoned` is about conversations without one.
- A second `playback.finished` for the same output, and an answer the reader owes after the seal, end in 1011.
- A farewell the validator refuses makes a server close with 1002 instead of 1001.
- A client that returns while the server does not accept yet, while it shuts other sessions down, or while its stale
  slot is still held is turned away with 1008, and stays away for good.
- `doc/llm/linklab.md:165` calls `close` bounded. It never returns if the task awaiting it is the one that called
  `connect`, which it cancels and awaits in turn; `connect` cancelled during `_finish` leaves `_closed` unset, so
  `wait_closed` does not return (`Cut` in `ClientCloses`).
- A `_shutdown` that raises leaves the listener open (`server.raised` in `ClosedServerIsEmpty`).

## What is not modelled

Encoding and schema checks: pure functions of one message. Start before the handshake, `set_limits`, snapshots and the
observer of the transport core. In the client, the callback queue and its dispatcher (`Connections` has only a
callback that raises), and whether an inbound message is dispatched. In the session, a handler that ignores its
cancellation, the generation that makes a stale timer a no-op (the model has the key the timer is armed for), and the
failure of a connection at the application's request, which is an action of `Transport`. Of the handshake
`Connections` has the waiting and its outcomes, not which field is refused with which code. Of discovery it has a
resolution that fails and an update that cuts a delay short; candidates, revision and generation of the browser are
missing, and mDNS is a library. Configuration and observability: no state that others read. WebSocket, the asyncio
loop and the remote server of `Client` are external and modelled by how the code uses them.

## Plan

1. Done: `Protocol`, `Messages`, `Validator`; `Transport`; `Client`; `Turn` and its refinement; `Session` and `Link`;
   `Connections`; proofs of all safety properties of `Validator`, `Transport` and `Connections`, of all of `Client`
   but `Agreed`, and of `TimerFollows`, `WriterIsLive` and `CutIsCut` of `Link`.
2. The callback queue of the client: its overflow, and the order of callbacks against the state they report.
3. Discovery's revision and generation, where a small instance says something a test does not.

`PROJECT.json` lists components, runs, mutants, the line map from definitions to source, findings, hazards and
theorems.
