------------------------------ MODULE MCClient ------------------------------
(***************************************************************************)
(* Instances of Client for TLC.  What the server says, and the reasons     *)
(* messages may carry, decide the story an instance tells.                 *)
(***************************************************************************)
EXTENDS Client

(* The server closes inputs after a frame and answers aloud: there is      *)
(* playback to report.                                                     *)
AnswersAloud ==
  {m \in InputCloses : m.accepted_end_frame = 1}
  \cup TranscriptFinals
  \cup {m \in ResponseStarts : ~ m.end_conversation}
  \cup OutputStarts \cup ResponseCancels

(* It finishes its answers too, or ends the conversation.                  *)
SpokenAnswer ==
  AnswersAloud \cup OutputAudios \cup OutputEnds \cup ResponseEnds \cup ConversationEnds

TalkingOver == {"endpoint", "barge_in"}
Listening == {"endpoint", "capture_failed", "user", "conversation_cancelled", "cancelled"}
Conversing == TalkingOver \cup Listening

(* The user talks over the answer, which is text, and nothing else goes    *)
(* wrong.  Three frames, and one more if the second input has them all.    *)
Dialogue ==
  /\ closer = "none" /\ connection = "ready"
  /\ \A d \in {ingress, core, server} :
       /\ d.output_ids = 1 /\ d.conversation.cancel = "none"
       /\ d.inputs[1].received <= 1 \/ d.inputs[1].received + d.inputs[2].received <= 3
       /\ d.ended_conversations[1] = "none"
       /\ \A i \in InputIds : d.inputs[i].terminal.reason # "capture_failed"

(* One turn, with a spoken answer; the client may be closed or cut off at  *)
(* any moment.  Only the ingress is limited, by what calls and the server  *)
(* do to it: a close waits for nothing that is left out.                   *)
OneTurn ==
  /\ pre_roll = <<>>
  /\ ingress.input_ids <= 2 /\ ingress.responses[1].terminal # "barge_in"
  /\ ingress.inputs[1].received <= (IF ingress.response_ids = 1 THEN 2 ELSE 1)

OneStory == Dialogue \/ OneTurn
=============================================================================
