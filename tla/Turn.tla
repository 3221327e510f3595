-------------------------------- MODULE Turn --------------------------------
(***************************************************************************)
(* What the rules of linklab promise about whose turn it is, without       *)
(* messages: conversations follow each other; in one conversation the user *)
(* speaks, then the assistant answers what was said, once, and the user    *)
(* may cut the answer short by speaking.  Once the conversation is         *)
(* cancelled or failed or its end is due, no new turn begins in it, and it *)
(* ends for the reason that doomed it.                                     *)
(* Validator implements this specification (module ValidatorTurn).         *)
(***************************************************************************)
EXTENDS Naturals

VARIABLES
  phase,         \* whose turn it is
  conversations, \* number of conversations so far; the last may be open
  inputs,        \* number of inputs so far; the last is the one spoken or answered
  answers,       \* the inputs that got a response
  outcome        \* why the last conversation ended, "none" while it is open

turn == <<phase, conversations, inputs, answers, outcome>>

Doomed == {"cancelled", "failed"}
Living == {"waiting", "listening", "processing", "responding", "ending"}
Failures == {"server_failed", "idle_timeout", "playback_failed"}
Outcomes == Failures \cup {"completed", "cancelled", "client_failed"}

Nothing == conversations = 0 /\ inputs = 0 /\ answers = {} /\ outcome = "none"
Init == phase = "off" /\ Nothing

Connect ==
  /\ phase = "off" /\ phase' = "silent"
  /\ Nothing'

(* The user opens a conversation, and speaks when nothing else goes on.    *)
Open ==
  /\ phase = "silent" /\ phase' = "waiting"
  /\ conversations' = conversations + 1 /\ outcome' = "none"
  /\ UNCHANGED <<inputs, answers>>

Speak ==
  /\ phase = "waiting" /\ phase' = "listening"
  /\ inputs' = inputs + 1
  /\ UNCHANGED <<conversations, answers, outcome>>

(* Barge-in: speaking over the answer ends the answer.                     *)
Interrupt ==
  /\ phase = "responding" /\ phase' = "listening"
  /\ inputs' = inputs + 1
  /\ UNCHANGED <<conversations, answers, outcome>>

FallSilent ==
  /\ phase = "listening" /\ phase' = "processing"
  /\ UNCHANGED <<conversations, inputs, answers, outcome>>

(* Only the last input is answered, and only once.                         *)
Answer ==
  /\ phase = "processing" /\ phase' = "responding"
  /\ inputs \notin answers /\ answers' = answers \cup {inputs}
  /\ UNCHANGED <<conversations, inputs, outcome>>

(* The answer is over: the user's turn, or the end of the conversation.    *)
Finish ==
  /\ phase = "responding" /\ phase' \in {"waiting", "ending"}
  /\ UNCHANGED <<conversations, inputs, answers, outcome>>

(* The input is not answered, because it failed.                           *)
GiveUp ==
  /\ phase \in {"listening", "processing"} /\ phase' = "waiting"
  /\ UNCHANGED <<conversations, inputs, answers, outcome>>

Doom ==
  /\ phase \in Living /\ phase' \in Doomed
  /\ UNCHANGED <<conversations, inputs, answers, outcome>>

(* Not while the user speaks or the assistant answers, and for the reason  *)
(* that doomed the conversation, if one did.                               *)
End ==
  /\ phase \in {"waiting", "processing", "ending"} \cup Doomed /\ phase' = "silent"
  /\ outcome' \in Outcomes
  /\ phase = "cancelled" => outcome' = "cancelled"
  /\ phase = "failed" => outcome' \in Failures
  /\ UNCHANGED <<conversations, inputs, answers>>

(* On the server a failure dooms and ends the conversation in one step,    *)
(* whoever has the turn; an answer may fail because it was cancelled.      *)
Fail ==
  /\ phase \in Living /\ phase' = "silent"
  /\ \/ outcome' \in Failures
     \/ phase = "responding" /\ outcome' = "cancelled"
  /\ UNCHANGED <<conversations, inputs, answers>>

Disconnect ==
  /\ phase # "off" /\ phase' = "off"
  /\ Nothing'

Next ==
  \/ Connect \/ Open \/ Speak \/ Interrupt \/ FallSilent \/ Answer \/ Finish
  \/ GiveUp \/ Doom \/ End \/ Fail \/ Disconnect

Spec == Init /\ [][Next]_turn
=============================================================================
