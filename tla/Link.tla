-------------------------------- MODULE Link --------------------------------
(***************************************************************************)
(* A server's session and its client's validator, joined by the session's  *)
(* outbound queue and the stream it feeds.                                 *)
(*                                                                         *)
(* The client says whatever its own validator accepts (_client_ingress.py  *)
(* runs every message through one before it queues it) and the server      *)
(* reads it at once: with a client to server delay of its own, every       *)
(* message could be moved to the moment the server reads it without either *)
(* side noticing.  What the server says waits in its queue, where it may   *)
(* still be discarded, and then in the stream.                             *)
(***************************************************************************)
EXTENDS Session

CONSTANT
  Stories      \* bound: what may happen in one behaviour

(* inputs: the inputs the client starts; said: the other messages it       *)
(* sends; done: the calls and events that happen on the server; failing:   *)
(* the events whose handler may raise.                                     *)
Happenings == {"text", "response", "failure", "timer", "shutdown", "loss"}

ASSUME LinkAssumption ==
  Stories \subseteq [inputs : SUBSET InputIds, said : SUBSET ClientTypes,
                     done : SUBSET Happenings, failing : SUBSET ClientTypes]

(* The same rules for the client's end.                                    *)
Peer == INSTANCE Protocol WITH Role <- "client"

VARIABLES
  story,     \* the story of this behaviour
  session,   \* the server's session
  handling,  \* the event whose handler runs, or NoEvent
  stream,    \* messages the network has and the client has not read
  peer,      \* the client's validator data
  shutdown,  \* the session's _shutdown: "none", "sealed", "failed" or "closed"
  crossed,   \* history: the client spoke up over a message not yet read
  refused    \* history: the message that one end could not accept, or NoEvent

vars == <<story, session, handling, stream, peer, shutdown, crossed, refused>>

NoEvent == [type |-> "none"]
(* What the server has said and the client has not read, in order.         *)
Outstanding ==
  stream \o FlattenSeq([k \in 1..Len(session.queue) |-> session.queue[k].frames])
Up == session.code = NoCode
Ended == session.data.connection_state = "disconnected"

(* A connection that is over has one state.                                *)
Over == [CloseDispatcher(session) EXCEPT !.data = NewData("disconnected"), !.queue = <<>>,
                                         !.sealed = TRUE, !.closed_inputs = {}]

-----------------------------------------------------------------------------
(* The client.                                                             *)

ClientMessages ==
  {m \in InputStarts : m.input_id \in story.inputs}
  \cup {m \in ConversationStarts \cup InputAudios \cup InputAborts
               \cup PlaybackFinishes \cup PlaybackInterrupts \cup ConversationCancels :
          m.type \in story.said}

(* What a client says to begin or to end something.                        *)
Interferes(m) ==
  m.type \in {"input.start", "input.abort", "conversation.cancel",
             "playback.finished", "playback.interrupted"}

(* A repetition of what was said before is left out.                       *)
ClientSays ==
  \E m \in ClientMessages :
    /\ Up
    /\ Peer!Accepts(peer, m) /\ Peer!After(peer, m) # peer
    /\ peer' = Peer!After(peer, m)
    /\ session' = Receive(session, m)
    /\ refused' = IF Accepts(session.data, m) THEN refused ELSE m
    /\ crossed' = (crossed \/ (Interferes(m) /\ Outstanding # <<>>))
    /\ UNCHANGED <<story, handling, stream, shutdown>>

ClientReads ==
  /\ stream # <<>>
  /\ LET m == Head(stream) IN
     IF Peer!Accepts(peer, m)
     THEN /\ peer' = Peer!After(peer, m) /\ stream' = Tail(stream)
          /\ refused' = refused
     ELSE /\ refused' = m /\ stream' = <<>>
          /\ peer' = [peer EXCEPT !.connection_state = "closing"]
  /\ UNCHANGED <<story, session, handling, shutdown, crossed>>

-----------------------------------------------------------------------------
(* The server's writer, dispatcher and timers.                             *)

(* A batch leaves the queue whole; bound: one batch is in the network.     *)
WriterSends ==
  /\ session.queue # <<>> /\ stream = <<>> /\ peer.connection_state = "ready"
  /\ stream' = Head(session.queue).frames
  /\ session' = [session EXCEPT !.queue = Tail(@)]
  /\ UNCHANGED <<story, handling, peer, shutdown, crossed, refused>>

DispatchNext ==
  /\ Up /\ handling = NoEvent /\ session.events # <<>>
  /\ LET m == Head(session.events) IN
     /\ session' = Prepare(session, m)
     /\ handling' = IF Dropped(session, m) \/ session'.code # NoCode THEN NoEvent ELSE m
  /\ UNCHANGED <<story, stream, peer, shutdown, crossed, refused>>

HandlerReturns ==
  /\ handling # NoEvent
  /\ handling' = NoEvent
  /\ UNCHANGED <<story, session, stream, peer, shutdown, crossed, refused>>

HandlerRaises ==
  /\ Up /\ handling.type \in story.failing
  /\ session' = HandlerFailed(session, handling)
  /\ handling' = NoEvent
  /\ UNCHANGED <<story, stream, peer, shutdown, crossed, refused>>

Takes(s) ==
  /\ Up
  /\ UNCHANGED <<story, handling, stream, peer, shutdown, crossed, refused>>
  /\ session' = s /\ session' # session

ObjectTimerFires ==
  "timer" \in story.done /\ session.key.phase \in ObjectDeadline /\ Takes(RunDue(session, ObjectTimeout(session)))
IdleTimerFires ==
  "timer" \in story.done /\ session.key.phase \in IdleDeadline /\ Takes(RunDue(session, ExpireConversation(session)))

-----------------------------------------------------------------------------
(* The application, from its handler or from a task of its own: any call,  *)
(* at any time.  What a call that raises did before is kept.  Bound: a     *)
(* call that only repeats a message is left out.                           *)

Quiet(s) == [s EXCEPT !.raised = "none"]
Call(s) ==
  /\ Up
  /\ s.data = session.data => s.queue = session.queue
  /\ Takes(Quiet(s))

CallCloseInput ==
  \E i \in InputIds, reason \in Scoped(InputCloseReason) : Call(CloseInputCall(session, i, reason))
CallUpdateTranscript ==
  "text" \in story.done /\ \E i \in InputIds, n \in 1..MaxRevision, text \in Texts : Call(UpdateTranscript(session, i, n, text))
CallFinalizeTranscript ==
  \E i \in InputIds, text \in Texts \cup {"empty"} : Call(FinalizeTranscript(session, i, text))
CallStartResponse ==
  \E i \in InputIds, ends \in BOOLEAN :
    /\ "response" \in story.done /\ session.data.response_ids \in ResponseIds
    /\ Call(StartResponseCall(session, i, ends))
CallEndConversation ==
  "failure" \in story.done /\ \E reason \in Scoped(ConversationEndReason) : Call(EndConversationCall(session, reason))
CallFail ==
  /\ "failure" \in story.done
  /\ \/ \E code \in Scoped(ConversationErrorCode) : Call(FailConversationCall(session, code))
     \/ \E code \in Scoped(InputErrorCode) : Call(FailInputCall(session, code))
     \/ \E code \in Scoped(ResponseErrorCode) : Call(FailResponseCall(session, code))

Holding == session.writer.response # 0
CallSendText ==
  /\ Holding /\ "text" \in story.done
  /\ \/ /\ Len(WriterResponse(session).text) < MaxDeltas
        /\ \E text \in Texts : Call(SendTextDelta(session, text))
     \/ \E text \in UNION {[1..n -> Texts] : n \in 1..MaxDeltas} :
          Call(FinalizeText(session, text))
CallStartOutput == Holding /\ session.data.output_ids \in Ids /\ Call(StartOutputCall(session))
CallFinishResponse == Holding /\ Call(FinishResponse(session))
CallCancelResponse ==
  Holding /\ "failure" \in story.done /\ \E reason \in Scoped(WriterCancelReason) : Call(CancelWriter(session, reason))
CallSendAudio ==
  /\ Holding
  /\ \E frames \in 1..(MaxOutput - WriterResponse(session).output.received) :
       Call(SendAudio(session, frames))
CallFinishOutput == Holding /\ Call(FinishOutput(session))

-----------------------------------------------------------------------------
(* The end of the connection.                                              *)

(* VoiceServer.close reaches the session: what it owes is sealed, and at   *)
(* the next turn of the loop the core is asked to close.  If the seal      *)
(* raises, _shutdown does, and nothing asks the core any more.             *)
ShutdownSeals ==
  /\ "shutdown" \in story.done /\ shutdown = "none" /\ Up
  /\ \E sealed \in {SealOrderly(session)} :
     /\ session' = Quiet(sealed)
     /\ shutdown' = IF Raised(sealed) THEN "failed" ELSE "sealed"
  /\ UNCHANGED <<story, handling, stream, peer, crossed, refused>>
ShutdownCloses ==
  /\ shutdown = "sealed" /\ Up
  /\ session' = RequestClose(CloseDispatcher(session), 1001, session.sealed)
  /\ handling' = NoEvent /\ shutdown' = "closed"
  /\ UNCHANGED <<story, stream, peer, crossed, refused>>

(* The core has closed, or the network has gone.                           *)
Disconnected ==
  /\ ~ Ended
  /\ ~ Up \/ "loss" \in story.done \/ peer.connection_state = "closing"
  /\ session' = Over /\ handling' = NoEvent /\ stream' = <<>>
  /\ peer' = NewData("disconnected")
  /\ UNCHANGED <<story, shutdown, crossed, refused>>

-----------------------------------------------------------------------------
Init ==
  /\ story \in Stories
  /\ session = NewSession
  /\ handling = NoEvent
  /\ stream = <<>>
  /\ peer = NewSession.data
  /\ shutdown = "none"
  /\ crossed = FALSE
  /\ refused = NoEvent

Next ==
  \/ ClientSays \/ ClientReads
  \/ WriterSends \/ DispatchNext \/ HandlerReturns \/ HandlerRaises
  \/ ObjectTimerFires \/ IdleTimerFires
  \/ CallCloseInput \/ CallUpdateTranscript \/ CallFinalizeTranscript
  \/ CallStartResponse \/ CallEndConversation \/ CallFail
  \/ CallSendText \/ CallStartOutput \/ CallSendAudio \/ CallFinishOutput
  \/ CallFinishResponse \/ CallCancelResponse
  \/ ShutdownSeals \/ ShutdownCloses \/ Disconnected

Spec == Init /\ [][Next]_vars

(* A timer that stays armed fires.  Spelled out instead of written with    *)
(* WF, because TLC would expand ENABLED of a session's whole step.         *)
TimerPhase == {"input", "processing", "waiting", "idle"}
TimerFires == ObjectTimerFires \/ IdleTimerFires
Armed(phase) ==
  /\ Up /\ session.key.phase = phase /\ "timer" \in story.done
  /\ \/ phase \in ObjectDeadline /\ RunDue(session, ObjectTimeout(session)) # session
     \/ phase \in IdleDeadline /\ RunDue(session, ExpireConversation(session)) # session
TimersFire ==
  \A phase \in TimerPhase :
    []<>(~ Armed(phase)) \/ []<><<session.key.phase = phase /\ TimerFires>>_vars
TimedSpec == Spec /\ TimersFire

(* A shutdown that was sealed goes on, and a core asked to close closes    *)
(* (Transport).                                                            *)
FairSpec == Spec /\ WF_vars(ShutdownCloses) /\ WF_vars(~ Up /\ Disconnected)
-----------------------------------------------------------------------------
(* Properties.                                                             *)

(* LifecycleTimeouts: whatever changes what the server waits for, the      *)
(* timer is set for exactly that.                                          *)
TimerFollows == Up /\ shutdown = "none" => session.key = Phase(session)

(* The application holds a writer exactly while its response is going on:  *)
(* no path that ends a response leaves a writer behind, and none takes the *)
(* writer from a response that only the writer can finish.                 *)
Answering(s) ==
  LiveResponse(s) /\ ~ s.data.responses[Current(s).response_id].end
WriterIsLive ==
  Up => /\ session.writer.response # 0 <=> Answering(session)
        /\ session.writer.response # 0 => session.writer.response = Current(session).response_id

(* discard_queued: of a response cut short before the application finished *)
(* it, no PCM waits for the network, to be heard after the barge-in.       *)
CutIsCut ==
  \A k \in 1..Len(session.queue) :
    session.queue[k].lane = "data" =>
      LET r == session.data.responses[Head(session.queue[k].frames).response_id]
      IN IsCancelled(r) => r.end

(* What both ends know of a connection; of an output only its playback, as *)
(* the rest may have been cut on its way.                                  *)
Facts(d) ==
  [conversation |-> d.conversation, ended |-> d.ended_conversations,
   inputs |-> [i \in InputIds |->
     <<d.inputs[i].received, d.inputs[i].terminal, d.inputs[i].final, d.inputs[i].failure>>],
   responses |-> [r \in ResponseIds |->
     <<d.responses[r].terminal, d.responses[r].end, d.responses[r].text,
       d.responses[r].playback>>]]

(* Once the client has read everything, its validator and the server's     *)
(* agree on every object, whatever was discarded or cancelled between.     *)
Agreed ==
  Up /\ shutdown = "none" /\ refused = NoEvent /\ Outstanding = <<>> =>
    Facts(peer) = Facts(session.data)

(* Two ends that follow the rules accept each other's messages, as long    *)
(* as the client does not speak up over a message on its way and the       *)
(* server has not cut short an output that was already ended, of which it  *)
(* discards PCM but sends the end.                                         *)
RefusedOnlyIfCrossed ==
  refused # NoEvent => crossed \/ session.sealed \/ refused.type = "output.end"

(* What ends the connection with an exception out of the session's own     *)
(* tasks is a queue that overflows, or PCM that a handler's failure left   *)
(* behind (run failing_handler): no call of the application, no timer, no  *)
(* other failing handler and no order of these against the dispatcher.     *)
LeftBehind(i) ==
  /\ session.data.inputs[i].terminal.kind = "closed" /\ i \notin session.closed_inputs
  /\ session.data.ended_conversations[session.data.inputs[i].conversation_id] = "server_failed"
DispatchesLeftBehind ==
  /\ DispatchNext
  /\ LET m == Head(session.events) IN IsAudio(m) /\ LeftBehind(m.input_id)
FailuresStaySmall ==
  [][Up /\ session'.error # "none" => session'.error = "overflow" \/ DispatchesLeftBehind]_vars

(* "Model and application failures use the narrowest input, response, or   *)
(* conversation scope. [...] server handler failures are converted to      *)
(* defined terminal outcomes": none ends the connection, whose own         *)
(* overflows are another matter.                                           *)
NarrowestScope == ~ Ended => session.error \in {"none", "overflow"}

(* Nobody is left waiting: an open conversation with no response in        *)
(* progress gets one or ends, also when application and client fall        *)
(* silent.                                                                 *)
Abandoned ==
  /\ Up /\ shutdown = "none" /\ "timer" \in story.done
  /\ LiveConversation(session) /\ Current(session).response_id = 0
NoAbandonedConversation == []<>(~ Abandoned)

(* "Server shutdown [...] terminates sessions [...]. Shutdown is bounded   *)
(* and idempotent."                                                        *)
ShutdownTerminates == shutdown # "none" ~> Ended

(* "Treat connection close 1002 as a compatibility or implementation       *)
(* fault": two ends of the same version that follow the rules never get    *)
(* there.                                                                  *)
NeverRefused == refused = NoEvent
=============================================================================
