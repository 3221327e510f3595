------------------------------- MODULE MCLink -------------------------------
(***************************************************************************)
(* Instances of Link for TLC.  One behaviour tells one of a few stories,   *)
(* which together contain every action: all of them at once would be far   *)
(* too many states.                                                        *)
(***************************************************************************)
EXTENDS Link

Reasons ==
  {"endpoint", "barge_in", "local_cancel", "user", "cancelled", "conversation_cancelled",
   "stt_failed", "generation_failed", "conversation_failed"}

Story(inputs, said, done, failing) ==
  [inputs |-> inputs, said |-> said, done |-> done, failing |-> failing]
Disturbances == {"failure", "timer", "shutdown", "loss"}

(* An input with audio and transcript, and everything that can cut it off. *)
Speech ==
  Story({1}, ClientTypes, {"text"} \cup Disturbances, {"conversation.start", "input.audio"})

(* A silent input with a response, and everything that can cut it off.     *)
Answer ==
  Story({1}, ClientTypes \ {"input.audio", "input.abort"}, {"response"} \cup Disturbances,
        {"playback.finished"})

(* A second input during or after the response to the first.               *)
BargeIn ==
  Story({1, 2}, {"conversation.start", "playback.finished", "playback.interrupted"},
        {"response"}, {})

(* A response whose text is streamed and that is played to its end.        *)
Reading ==
  Story({1}, {"conversation.start", "playback.finished"}, {"text", "response"}, {})

AllStories == {Speech, Answer, BargeIn, Reading}

(* The user's turn, and a shutdown.                                        *)
ShutdownStory == {Story({1}, {"conversation.start"}, {"shutdown"}, {})}

(* A user who speaks to a handler that fails at once.                      *)
FailingStory ==
  {Story({1}, {"conversation.start", "input.audio"}, {}, {"conversation.start"})}

(* A user who begins to speak and thinks better of it.                     *)
CancelStory == {Story({1}, {"conversation.start", "conversation.cancel"}, {}, {})}
=============================================================================
