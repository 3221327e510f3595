--------------------------- MODULE ValidatorTurn ----------------------------
(***************************************************************************)
(* Validator implements Turn: the phase is read off the conversation, its  *)
(* current input and its current response.                                 *)
(***************************************************************************)
EXTENDS Validator

PhaseOf(d) ==
  LET c == d.conversation IN
  IF d.connection_state # "ready" THEN "off"
  ELSE IF c.id = 0 THEN "silent"
  ELSE IF c.cancel # "none" THEN "cancelled"
  ELSE IF c.failure # "none" THEN "failed"
  ELSE IF c.expected_end_reason # "none" THEN "ending"
  ELSE IF c.response_id # 0 THEN "responding"
  ELSE IF c.input_id = 0 THEN "waiting"
  ELSE IF d.inputs[c.input_id].terminal = NoTerminal THEN "listening"
  ELSE "processing"

(* A closing connection accepts nothing more, so it counts as off.         *)
Count(d, allocated) == IF d.connection_state = "ready" THEN allocated - 1 ELSE 0
AnswersOf(d) == {i \in 1..Count(d, d.input_ids) : d.inputs[i].response_id # 0}
LastOutcome(d) ==
  LET last == Count(d, d.conversation_ids) IN
  IF last = 0 THEN "none" ELSE d.ended_conversations[last]

T == INSTANCE Turn WITH
       phase <- PhaseOf(data),
       conversations <- Count(data, data.conversation_ids),
       inputs <- Count(data, data.input_ids),
       answers <- AnswersOf(data),
       outcome <- LastOutcome(data)

(* Every step a validator takes, whatever is submitted to it, is a turn    *)
(* Turn allows or no turn at all: the handlers of _protocol.py together    *)
(* never open a turn in a conversation that is ending, answer an input     *)
(* twice or while it is open, end a conversation over somebody's turn, or  *)
(* for another reason than the one that doomed it.                         *)
ImplementsTurn == T!Spec
=============================================================================
