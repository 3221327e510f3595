----------------------------- MODULE Validator ------------------------------
(***************************************************************************)
(* One ProtocolValidator (src/lumivox_linklab/_protocol.py) as a state     *)
(* machine: its _data, and one action per handler.  Either side's messages *)
(* may come in any order the rules accept, so what holds here holds in     *)
(* each of the three validators of a connection whatever is submitted to   *)
(* it.  A rejected message raises ProtocolViolation before _data is        *)
(* assigned, so rejection is no step.                                      *)
(***************************************************************************)
EXTENDS Messages, ProtocolInvariants, FiniteSets

VARIABLE data

Accept(S) == \E m \in S : Accepts(data, m) /\ data' = After(data, m)

TransportConnected ==
  /\ data.connection_state = "disconnected"
  /\ data' = NewData("handshaking")

BeginClose ==
  /\ data.connection_state \in {"handshaking", "ready"}
  /\ data' = [data EXCEPT !.connection_state = "closing"]

TransportDisconnected ==
  /\ data.connection_state # "disconnected"
  /\ data' = NewData("disconnected")

AcceptHandshake == Accept(ClientHellos \cup ServerHellos)
StartConversation == Accept(ConversationStarts)
StartInput == Accept(InputStarts)
AcceptInputAudio == Accept(InputAudios)
AbortInput == Accept(InputAborts)
CloseInput == Accept(InputCloses)
AcceptTranscriptUpdate == Accept(TranscriptUpdates)
AcceptTranscriptFinal == Accept(TranscriptFinals)
StartResponse == Accept(ResponseStarts)
AcceptResponseTextDelta == Accept(TextDeltas)
AcceptResponseTextFinal == Accept(TextFinals)
StartOutput == Accept(OutputStarts)
AcceptOutputAudio == Accept(OutputAudios)
EndOutput == Accept(OutputEnds)
EndResponse == Accept(ResponseEnds)
CancelResponse == Accept(ResponseCancels)
AcceptPlaybackOutcome == Accept(PlaybackFinishes \cup PlaybackInterrupts)
CancelConversation == Accept(ConversationCancels)
EndConversation == Accept(ConversationEnds)
AcceptState == Accept(States)
AcceptError == Accept(Errors)

CommitInputAudio ==
  \E i \in Ids, end \in 0..MaxInputFrames :
    /\ CanCommitInputAudio(data, i, end)
    /\ data' = AfterCommitInputAudio(data, i, end)

Init == data = NewData("disconnected")

Next ==
  \/ TransportConnected \/ BeginClose \/ TransportDisconnected
  \/ AcceptHandshake
  \/ StartConversation \/ CancelConversation \/ EndConversation
  \/ StartInput \/ AcceptInputAudio \/ CommitInputAudio
  \/ AbortInput \/ CloseInput
  \/ AcceptTranscriptUpdate \/ AcceptTranscriptFinal
  \/ StartResponse \/ AcceptResponseTextDelta \/ AcceptResponseTextFinal
  \/ StartOutput \/ AcceptOutputAudio \/ EndOutput
  \/ EndResponse \/ CancelResponse \/ AcceptPlaybackOutcome
  \/ AcceptState \/ AcceptError

Spec == Init /\ [][Next]_data
-----------------------------------------------------------------------------
(* Properties.                                                             *)

(* The data is well formed, whatever is accepted (_ValidatorData and its   *)
(* records).                                                               *)
TypeOK == data \in Data

(* Turns: the relations between conversation, input and response that the  *)
(* handlers rely on when they look an object up and expect to find it in   *)
(* the right state.                                                        *)
TurnsOK == Turns(data)

(* "Conversations and user inputs are sequential": at most one input or    *)
(* response is in progress on a connection.                                *)
OneSpeakerAtATime == OneSpeaker(data)

(* _commit_input_audio, _close_input and late _accept_input_audio agree on *)
(* what an input accepted.                                                 *)
CommitsWholeChunks == \A i \in Ids : CommittedByChunk(data.inputs[i])

(* _accept_playback_outcome against _accept_output_audio, _end_output and  *)
(* _end_response, in any order.                                            *)
PlaysWhatWasSent == \A r \in Ids : PlayedWasSent(data.responses[r])

(* "Stale text/audio after barge-in is validated but not delivered": the   *)
(* four ways of silencing a response all set what _result looks at.        *)
SilencedIsStale == \A r \in Ids : Silenced(data, r) => Stale(data.responses[r])

(* Every object that reached its terminal state has its tombstone, in that *)
(* state, and nothing else has one.                                        *)
TombstonesTellTheEnd == data.tombstones = Buried(data)

(* "end_conversation=True on start_response ends only after successful     *)
(* response/playback. Barge-in revokes terminal intent."                   *)
TerminalIntent == \A r \in Ids : IntentHonoured(data, r)

(* On the server a failure is terminal in the step that records it:        *)
(* _fail_input, _fail_response and _fail_conversation leave nothing for a  *)
(* later message to finish.                                                *)
ServerFailsAtOnce ==
  Role = "server" =>
    /\ data.conversation.failure = "none"
    /\ \A i \in Ids : data.inputs[i].failure # "none" =>
         data.inputs[i].terminal # NoTerminal /\ data.inputs[i].final # "none"
    /\ \A r \in Ids : data.responses[r].failure # "none" => IsCancelled(data.responses[r])

(* While a connection lasts, terminal facts never change, nothing becomes  *)
(* fresh again and an ended conversation stays ended.                      *)
Settled ==
  data'.connection_state \in {"ready", "closing"} /\ data.connection_state = "ready" =>
    /\ \A i \in Ids :
         LET old == data.inputs[i]
             new == data'.inputs[i]
         IN
         /\ old.terminal # NoTerminal => new.terminal = old.terminal
         /\ old.final # "none" => new.final = old.final
         /\ old.failure # "none" => new.failure = old.failure
         /\ old.boundaries \subseteq new.boundaries
    /\ \A r \in Ids :
         LET old == data.responses[r]
             new == data'.responses[r]
         IN
         /\ IsCancelled(old) => new.terminal = old.terminal
         /\ old.playback # NoPlayback => new.playback = old.playback
         /\ old.stale => new.stale
         /\ old.end => new.end
    /\ \A c \in Ids :
         data.ended_conversations[c] # "none" =>
           data'.ended_conversations[c] = data.ended_conversations[c]
    /\ data.tombstones \subseteq data'.tombstones
TerminalIsFinal == [][Settled]_data
=============================================================================
