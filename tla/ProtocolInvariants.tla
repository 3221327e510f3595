-------------------------- MODULE ProtocolInvariants --------------------------
(***************************************************************************)
(* What the data of one endpoint always looks like: the sets its records   *)
(* range over, and the relations between conversation, inputs, responses   *)
(* and outputs that the handlers of Protocol keep.  Every operator takes   *)
(* the data as an argument, so that the same statements serve a lone       *)
(* validator and the two validators of a connection.                       *)
(***************************************************************************)
EXTENDS Protocol

-----------------------------------------------------------------------------
(* The sets of values.                                                     *)

Inputs ==
  [conversation_id : OptionalIds, reason : InputStartReason \cup {"none"},
   interrupts_response_id : OptionalIds, received : Nat, boundaries : SUBSET Nat,
   committed : Nat,
   terminal : [kind : {"none", "closed", "aborted", "cancelled"}, end_frame : Nat,
               reason : InputCloseReason \cup InputAbortReason \cup {"none"}],
   update : [revision : Nat, text : Texts \cup {"none"}],
   final : Texts \cup {"empty", "none"}, failure : InputErrorCode \cup {"none"},
   response_id : OptionalIds]

Outputs ==
  [id : OptionalIds, received : Nat, terminal : {"none", "ended", "cancelled"},
   total : Nat]

Playbacks ==
  [kind : {"none", "finished", "interrupted"}, frames : Nat,
   reason : PlaybackInterruptReason \cup {"none"}]

Responses ==
  [conversation_id : OptionalIds, input_id : OptionalIds,
   end_conversation : BOOLEAN, text : Seq(Texts), text_final : BOOLEAN,
   output : Outputs, end : BOOLEAN,
   terminal : ResponseCancelReason \cup {"none", "ended"},
   playback : Playbacks, failure : ResponseErrorCode \cup {"none"}, stale : BOOLEAN]

StateValues == [revision : Nat, state : CoarseState \cup {"none"}]

Conversations ==
  [id : OptionalIds, cancel : ConversationCancelReason \cup {"none"},
   failure : ConversationErrorCode \cup {"none"}, state : StateValues,
   input_id : OptionalIds, response_id : OptionalIds, output_id : OptionalIds,
   expected_end_reason : ConversationEndReason \cup {"none"}]

Tombstones ==
  [kind : {"conversation", "input", "response", "output"}, id : OptionalIds,
   terminal_state : ConversationEndReason
                      \cup {"closed", "aborted", "completed", "cancelled", "ended"}]

NextIds == 1..(MaxId + 1)

Data ==
  [connection_state : ConnectionState, client_hello : SUBSET Formats,
   server_hello : Formats \cup {"none"}, conversation : Conversations,
   conversation_ids : NextIds, input_ids : NextIds,
   response_ids : NextIds, output_ids : NextIds,
   inputs : [Ids -> Inputs], responses : [Ids -> Responses],
   tombstones : SUBSET Tombstones,
   ended_conversations : [Ids -> ConversationEndReason \cup {"none"}],
   cancelled_conversations : [Ids -> ConversationCancelReason \cup {"none"}],
   terminal_states : [Ids -> StateValues]]

-----------------------------------------------------------------------------
(* Whose turn it is.                                                       *)

OpenInput(i) == i.conversation_id # 0 /\ i.terminal = NoTerminal

(* A response is over once it is cancelled, or has ended and its output,   *)
(* if it has one, has been played to the end.  (A client may still see the *)
(* output of a failed response start after the response ended: it is born  *)
(* cancelled, and does not revive the response.)                           *)
Unfinished(r) ==
  /\ r.conversation_id # 0
  /\ \/ r.terminal = "none"
     \/ r.terminal = "ended" /\ r.output.terminal = "ended" /\ r.playback.kind # "finished"

(* The user's turn: an open input is the current one of the open, not      *)
(* cancelled conversation, and no response is current.                     *)
InputTurn(d) ==
  \A i \in Ids : OpenInput(d.inputs[i]) =>
    /\ d.conversation.id = d.inputs[i].conversation_id
    /\ d.conversation.input_id = i
    /\ d.conversation.response_id = 0
    /\ d.conversation.cancel = "none"

(* The program's turn: the current response of the open conversation is    *)
(* the one unfinished response, and answers the current input; a response  *)
(* that ended has a terminal, and only its end gives it "ended".           *)
EndRecorded(r) ==
  /\ r.end => r.terminal # "none"
  /\ r.terminal = "ended" => r.end
ResponseTurn(d) ==
  \A r \in Ids :
    /\ EndRecorded(d.responses[r])
    /\ Unfinished(d.responses[r]) <=> d.conversation.response_id = r
    /\ d.conversation.response_id = r =>
         /\ d.conversation.id = d.responses[r].conversation_id
         /\ d.conversation.input_id = d.responses[r].input_id

(* Inputs and responses pair off, within one conversation, and an answered *)
(* input is over and transcribed.                                          *)
Answered(d) ==
  /\ \A r \in Ids : d.responses[r].conversation_id # 0 =>
       /\ d.responses[r].input_id # 0
       /\ LET i == d.inputs[d.responses[r].input_id] IN
          /\ i.response_id = r
          /\ i.conversation_id = d.responses[r].conversation_id
          /\ i.terminal # NoTerminal
          /\ i.final # "none"
  /\ \A i \in Ids : d.inputs[i].response_id # 0 =>
       /\ d.responses[d.inputs[i].response_id].input_id = i
       /\ d.responses[d.inputs[i].response_id].conversation_id # 0

(* Objects exist exactly below their allocator.                            *)
Allocated(d) ==
  /\ \A i \in Ids : d.inputs[i].conversation_id # 0 <=> i < d.input_ids
  /\ \A r \in Ids : d.responses[r].conversation_id # 0 <=> r < d.response_ids

(* Of the open conversation: its current input is its own, and once its    *)
(* end is due nothing else is current.                                     *)
CurrentInput(d) ==
  d.conversation.input_id # 0 =>
    /\ d.conversation.id # 0
    /\ d.inputs[d.conversation.input_id].conversation_id = d.conversation.id
EndDue(d) ==
  d.conversation.expected_end_reason # "none" =>
    d.conversation.input_id = 0 /\ d.conversation.response_id = 0

(* The inductive invariant.                                                *)
Turns(d) ==
  /\ InputTurn(d) /\ ResponseTurn(d) /\ Answered(d) /\ Allocated(d)
  /\ CurrentInput(d) /\ EndDue(d)

-----------------------------------------------------------------------------
(* What follows, and what else holds.                                      *)

(* One speaker at a time: all open inputs and unfinished responses of the  *)
(* connection are together at most one, and belong to the open             *)
(* conversation.                                                           *)
OneSpeaker(d) ==
  LET speaking == {<<"input", i>> : i \in {j \in Ids : OpenInput(d.inputs[j])}}
                  \cup {<<"response", r>> : r \in {q \in Ids : Unfinished(d.responses[q])}}
  IN
  /\ \A s, t \in speaking : s = t
  /\ speaking # {} => d.conversation.id # 0

(* Only PCM the peer sent is committed, a chunk at a time, and a closed    *)
(* input accepted exactly what was committed, however much arrives late.   *)
CommittedByChunk(i) ==
  /\ i.boundaries \subseteq 1..i.received
  /\ i.received # 0 => i.received \in i.boundaries
  /\ i.received <= MaxInputFrames
  /\ i.committed \in {0} \cup i.boundaries
  /\ i.terminal.kind = "closed" => i.terminal.end_frame = i.committed

(* Played frames are frames that were sent; playback finishes only when    *)
(* the whole output was sent and played; a response with output ends only  *)
(* after its output.                                                       *)
PlayedWasSent(r) ==
  /\ r.playback.kind = "finished" =>
       /\ r.output.terminal = "ended"
       /\ r.playback.frames = r.output.received
  /\ r.playback.frames <= r.output.received
  /\ r.output.terminal = "ended" =>
       r.output.total = r.output.received /\ r.output.total # 0
  /\ r.end /\ ~ r.stale /\ r.output # NoOutput => r.output.terminal = "ended"

(* Whatever silences a response marks it stale: an interrupted playback,   *)
(* its own failure, the failure of its conversation, a barge-in input.     *)
Silenced(d, r) ==
  \/ d.responses[r].playback.kind = "interrupted"
  \/ d.responses[r].failure # "none"
  \/ d.conversation.response_id = r /\ d.conversation.failure # "none"
  \/ \E i \in Ids : d.inputs[i].interrupts_response_id = r

(* The tombstones that the terminal facts of the data call for.            *)
Buried(d) ==
  LET burial(kind, id, state) == [kind |-> kind, id |-> id, terminal_state |-> state] IN
  {burial("input", i, IF d.inputs[i].terminal.kind = "closed" THEN "closed" ELSE "aborted") :
     i \in {j \in Ids : d.inputs[j].terminal # NoTerminal}}
  \cup
  {burial("response", r, IF IsCancelled(d.responses[r]) THEN "cancelled" ELSE "completed") :
     r \in {q \in Ids : d.responses[q].conversation_id # 0 /\ ~ Unfinished(d.responses[q])}}
  \cup
  {burial("output", d.responses[r].output.id, d.responses[r].output.terminal) :
     r \in {q \in Ids : d.responses[q].output.terminal # "none"}}
  \cup
  {burial("conversation", c, d.ended_conversations[c]) :
     c \in {b \in Ids : d.ended_conversations[b] # "none"}}

(* A response started with end_conversation and played to its end is the   *)
(* last thing in its conversation, which can then end as completed only;   *)
(* a response cut short by a barge-in ends no conversation.                *)
IntentHonoured(d, r) ==
  LET response == d.responses[r]
      c == response.conversation_id
  IN
  /\ response.end_conversation /\ response.terminal = "ended" /\ ~ Unfinished(response) =>
       /\ \A i \in Ids : d.inputs[i].conversation_id = c => i <= response.input_id
       /\ d.ended_conversations[c] \in {"none", "completed"}
       /\ d.conversation.id = c => d.conversation.expected_end_reason = "completed"
  /\ response.terminal = "barge_in" /\ d.conversation.id = c
     /\ d.response_ids = r + 1 =>
       d.conversation.expected_end_reason = "none"
=============================================================================
