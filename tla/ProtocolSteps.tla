---------------------------- MODULE ProtocolSteps -----------------------------
(***************************************************************************)
(* What one step of the rules of Protocol does, for every value of the     *)
(* constants: what it keeps of each input and response (Kept), and which   *)
(* of nine moves it makes on the conversation (Move).  The handlers are    *)
(* taken one by one; the invariants of Validator and its refinement of     *)
(* Turn then follow from Kept and Move alone.                              *)
(***************************************************************************)
EXTENDS ProtocolProof

-----------------------------------------------------------------------------
(* What is kept of an input.                                               *)

(* A failed input is over on the server: _fail_input closes it and gives   *)
(* it its final transcript.                                                *)
FailedAtOnce(i) ==
  Role = "server" /\ i.failure # "none" => i.terminal # NoTerminal /\ i.final # "none"

InputKept(x, y) ==
  /\ y.conversation_id = 0 => y = x
  /\ x.conversation_id # 0 =>
       /\ y.conversation_id = x.conversation_id
       /\ y.interrupts_response_id = x.interrupts_response_id
  /\ x.response_id # 0 => y.response_id = x.response_id
  /\ x.terminal # NoTerminal => y.terminal = x.terminal
  /\ x.final # "none" => y.final = x.final
  /\ x.failure # "none" => y.failure = x.failure
  /\ x.boundaries \subseteq y.boundaries
  /\ CommittedByChunk(x) => CommittedByChunk(y)
  /\ FailedAtOnce(x) => FailedAtOnce(y)

(* What is kept of a response.  Whatever cancels it, fails it or           *)
(* interrupts its playback marks it stale.                                 *)
Hushed(r) ==
  IsCancelled(r) \/ r.output.terminal = "cancelled" \/ r.failure # "none"
    \/ r.playback.kind = "interrupted" => r.stale

ResponseKept(x, y) ==
  /\ y.conversation_id = 0 => y = x
  /\ x.conversation_id # 0 =>
       /\ y.conversation_id = x.conversation_id
       /\ y.input_id = x.input_id
       /\ y.end_conversation = x.end_conversation
  /\ IsCancelled(x) => y.terminal = x.terminal
  /\ x.playback # NoPlayback => y.playback = x.playback
  /\ x.stale => y.stale
  /\ x.end => y.end
  /\ x.output.id # 0 => y.output.id = x.output.id
  /\ PlayedWasSent(x) /\ Hushed(x) => PlayedWasSent(y) /\ Hushed(y)
  /\ Role = "client" \/ y.failure = x.failure \/ IsCancelled(y)

(* What a step keeps of the data.                                          *)
Kept(d, e) ==
  /\ \A i \in Ids : InputKept(d.inputs[i], e.inputs[i])
  /\ \A r \in Ids : ResponseKept(d.responses[r], e.responses[r])
  /\ \A c \in Ids : d.ended_conversations[c] # "none" =>
       e.ended_conversations[c] = d.ended_conversations[c]
  /\ d.tombstones \subseteq e.tombstones

(* The invariants of the objects that Kept carries along.                  *)
Objects(d) ==
  /\ \A i \in Ids :
       /\ d.inputs[i].conversation_id = 0 => d.inputs[i] = NoInput
       /\ CommittedByChunk(d.inputs[i]) /\ FailedAtOnce(d.inputs[i])
  /\ \A r \in Ids :
       /\ d.responses[r].conversation_id = 0 => d.responses[r] = NoResponse
       /\ PlayedWasSent(d.responses[r]) /\ Hushed(d.responses[r])
       /\ Role = "server" /\ d.responses[r].failure # "none" => IsCancelled(d.responses[r])

-----------------------------------------------------------------------------
(* The moves.                                                              *)

(* Only the current response reaches a terminal.                           *)
OthersStand(d, e) ==
  \A r \in Ids : d.conversation.response_id # r =>
    e.responses[r].terminal = d.responses[r].terminal

(* No object begins, nothing is answered, no conversation begins or ends.  *)
SameObjects(d, e) ==
  /\ e.connection_state = d.connection_state
  /\ e.conversation_ids = d.conversation_ids
  /\ e.input_ids = d.input_ids /\ e.response_ids = d.response_ids
  /\ \A i \in Ids : e.inputs[i].response_id = d.inputs[i].response_id
SameEndings(d, e) == e.ended_conversations = d.ended_conversations
SameFate(d, e) ==
  /\ e.conversation.id = d.conversation.id
  /\ e.conversation.cancel = d.conversation.cancel
  /\ e.conversation.failure = d.conversation.failure
SameTurn(d, e) ==
  /\ e.conversation.input_id = d.conversation.input_id
  /\ e.conversation.response_id = d.conversation.response_id
  /\ e.conversation.expected_end_reason = d.conversation.expected_end_reason
Alive(d) ==
  /\ d.conversation.id # 0
  /\ d.conversation.cancel = "none" /\ d.conversation.failure = "none"

(* The turn stays where it is; an input may close.                         *)
Steady(d, e) == SameObjects(d, e) /\ SameEndings(d, e) /\ SameFate(d, e) /\ SameTurn(d, e)

(* The current response is over, and the conversation lets go of it.       *)
Releases(d, e) ==
  LET r == d.conversation.response_id
      end == e.conversation.expected_end_reason
  IN
  /\ SameObjects(d, e) /\ SameEndings(d, e) /\ SameFate(d, e)
  /\ r # 0 /\ e.conversation.input_id = 0 /\ e.conversation.response_id = 0
  /\ e.responses[r].terminal = "barge_in" => end = "none"
  /\ e.responses[r].terminal = "ended" /\ e.responses[r].end_conversation =>
       end = "completed"

(* conversation.start.                                                     *)
Opens(d, e) ==
  /\ e.connection_state = d.connection_state
  /\ e.inputs = d.inputs /\ e.responses = d.responses
  /\ e.input_ids = d.input_ids /\ e.response_ids = d.response_ids
  /\ e.conversation_ids = d.conversation_ids + 1
  /\ SameEndings(d, e)
  /\ d.conversation.id = 0
  /\ e.conversation = [NoConversation EXCEPT !.id = d.conversation_ids]

(* input.start: a response in the way is cancelled.                        *)
Speaks(d, e) ==
  LET c == d.conversation
      i == d.input_ids
  IN
  /\ e.connection_state = d.connection_state
  /\ e.conversation_ids = d.conversation_ids /\ e.response_ids = d.response_ids
  /\ e.input_ids = d.input_ids + 1
  /\ SameEndings(d, e) /\ SameFate(d, e)
  /\ Alive(d) /\ c.expected_end_reason = "none"
  /\ c.response_id # 0 \/ c.input_id = 0
  /\ c.response_id # 0 => IsCancelled(e.responses[c.response_id])
  /\ i \in Ids
  /\ \A k \in Ids : k # i => e.inputs[k] = d.inputs[k]
  /\ e.inputs[i].conversation_id = c.id /\ e.inputs[i].terminal = NoTerminal
  /\ e.inputs[i].response_id = 0
  /\ \A r \in Ids : e.inputs[i].interrupts_response_id = r => IsCancelled(e.responses[r])
  /\ e.conversation.input_id = i /\ e.conversation.response_id = 0
  /\ e.conversation.expected_end_reason = "none"

(* response.start: it answers the current input, for the first time.       *)
Answers(d, e) ==
  LET c == d.conversation
      r == d.response_ids
  IN
  /\ e.connection_state = d.connection_state
  /\ e.conversation_ids = d.conversation_ids /\ e.input_ids = d.input_ids
  /\ e.response_ids = d.response_ids + 1
  /\ SameEndings(d, e) /\ SameFate(d, e)
  /\ Alive(d) /\ c.expected_end_reason = "none"
  /\ c.response_id = 0 /\ c.input_id \in Ids /\ r \in Ids
  /\ d.inputs[c.input_id].terminal # NoTerminal
  /\ d.inputs[c.input_id].response_id = 0
  /\ \A i \in Ids : e.inputs[i].response_id =
       IF i = c.input_id THEN r ELSE d.inputs[i].response_id
  /\ e.responses[r].conversation_id = c.id
  /\ e.conversation.input_id = c.input_id /\ e.conversation.response_id = r
  /\ e.conversation.expected_end_reason = "none"

(* conversation.cancel.                                                    *)
Cancels(d, e) ==
  /\ SameObjects(d, e) /\ SameEndings(d, e) /\ SameTurn(d, e)
  /\ e.conversation.id = d.conversation.id /\ d.conversation.id # 0
  /\ d.conversation.failure = "none" /\ e.conversation.failure = "none"
  /\ e.conversation.cancel # "none"

(* A state "waiting" after a failed input lets go of the input.            *)
GivesUp(d, e) ==
  LET c == d.conversation IN
  /\ SameObjects(d, e) /\ SameEndings(d, e) /\ SameFate(d, e)
  /\ Alive(d) /\ c.expected_end_reason = "none"
  /\ c.input_id # 0 /\ c.response_id = 0
  /\ e.conversation.input_id = 0 /\ e.conversation.response_id = 0
  /\ e.conversation.expected_end_reason = "none"

(* On a client the failure of a conversation is recorded, and silences its *)
(* response.                                                               *)
Fails(d, e) ==
  LET r == d.conversation.response_id IN
  /\ SameObjects(d, e) /\ SameEndings(d, e) /\ SameTurn(d, e)
  /\ Role # "server" /\ Alive(d)
  /\ e.conversation.id = d.conversation.id /\ e.conversation.cancel = "none"
  /\ e.conversation.failure # "none"
  /\ r # 0 => e.responses[r].stale

(* conversation.end, or a failure that ends the conversation at once.      *)
EndsQuiet(d, reason) ==
  LET c == d.conversation IN
  /\ c.response_id = 0
  /\ c.input_id # 0 => d.inputs[c.input_id].terminal # NoTerminal
  /\ c.cancel # "none" => reason = "cancelled"
  /\ c.failure # "none" => reason = FailureEndReason(c.failure)
EndsFailed(d, reason) ==
  /\ Alive(d)
  /\ \/ reason \in {"idle_timeout", "server_failed", "playback_failed"}
     \/ reason = "cancelled" /\ d.conversation.response_id # 0
Ends(d, e) ==
  LET c == d.conversation
      reason == e.ended_conversations[c.id]
  IN
  /\ SameObjects(d, e)
  /\ c.id \in Ids /\ reason \in ConversationEndReason
  /\ e.ended_conversations = [d.ended_conversations EXCEPT ![c.id] = reason]
  /\ e.conversation = NoConversation
  /\ c.response_id # 0 => IsCancelled(e.responses[c.response_id])
  /\ c.expected_end_reason # "none" => reason = c.expected_end_reason
  /\ EndsQuiet(d, reason) \/ EndsFailed(d, reason)

Move(d, e) ==
  \/ Steady(d, e) \/ Releases(d, e) \/ Opens(d, e) \/ Speaks(d, e) \/ Answers(d, e)
  \/ Cancels(d, e) \/ GivesUp(d, e) \/ Fails(d, e) \/ Ends(d, e)

Step(d, e) == Kept(d, e) /\ OthersStand(d, e) /\ Move(d, e)

-----------------------------------------------------------------------------
(* The history the moves leave in the data.                                *)

(* What is current is what was allocated last, and the current input is    *)
(* not answered while it waits for its response.                           *)
Newest(d) ==
  LET c == d.conversation IN
  /\ c.id # 0 => c.id + 1 = d.conversation_ids
  /\ c.input_id # 0 => c.input_id + 1 = d.input_ids
  /\ c.response_id # 0 => c.response_id + 1 = d.response_ids
  /\ c.input_id # 0 /\ c.response_id = 0 => d.inputs[c.input_id].response_id = 0

(* Only past conversations ended; objects belong to conversations begun.   *)
Past(d) ==
  \A k \in Ids :
    /\ d.ended_conversations[k] # "none" => k < d.conversation_ids /\ k # d.conversation.id
    /\ d.inputs[k].conversation_id < d.conversation_ids
    /\ d.responses[k].conversation_id < d.conversation_ids

(* A response that a failed conversation or a barge-in silenced is stale.  *)
SilencedByOthers(d) ==
  /\ \A r \in Ids : d.conversation.response_id = r /\ d.conversation.failure # "none" =>
       Stale(d.responses[r])
  /\ \A i, r \in Ids : d.inputs[i].interrupts_response_id = r => Stale(d.responses[r])

ServerLives(d) == Role = "server" => d.conversation.failure = "none"

(* Before the handshake is over nothing has begun.                         *)
Fresh(d) ==
  d.connection_state \in {"disconnected", "handshaking"} =>
    d.conversation.id = 0 /\ d.conversation_ids = 1 /\ d.input_ids = 1

Ledger(d) == Newest(d) /\ Past(d) /\ SilencedByOthers(d) /\ ServerLives(d) /\ Fresh(d)

-----------------------------------------------------------------------------
(* Kept is a preorder, and keeps Objects.                                  *)

LEMMA InputSame == \A x : InputKept(x, x)
BY DEF InputKept

LEMMA ResponseSame == \A x : ResponseKept(x, x)
BY DEF ResponseKept

LEMMA InputChain ==
  ASSUME NEW x, NEW y, NEW z, InputKept(x, y), InputKept(y, z)
  PROVE  InputKept(x, z)
BY DEF InputKept

LEMMA ResponseChain ==
  ASSUME NEW x, NEW y, NEW z, ResponseKept(x, y), ResponseKept(y, z)
  PROVE  ResponseKept(x, z)
<1> USE DEF ResponseKept
<1>1. z.conversation_id = 0 => z = x
  OBVIOUS
<1>2. x.conversation_id # 0 =>
        /\ z.conversation_id = x.conversation_id
        /\ z.input_id = x.input_id /\ z.end_conversation = x.end_conversation
  OBVIOUS
<1>3. IsCancelled(x) => z.terminal = x.terminal
  BY DEF IsCancelled
<1>4. /\ x.playback # NoPlayback => z.playback = x.playback
      /\ x.stale => z.stale
      /\ x.end => z.end
  OBVIOUS
<1>5. PlayedWasSent(x) /\ Hushed(x) => PlayedWasSent(z) /\ Hushed(z)
  OBVIOUS
<1>6. Role = "client" \/ z.failure = x.failure \/ IsCancelled(z)
  BY DEF IsCancelled
<1> QED BY <1>1, <1>2, <1>3, <1>4, <1>5, <1>6

LEMMA KeptChain ==
  ASSUME NEW d, NEW e, NEW f, Kept(d, e), Kept(e, f)
  PROVE  Kept(d, f)
<1>1. ASSUME NEW i \in Ids PROVE InputKept(d.inputs[i], f.inputs[i])
  BY InputChain DEF Kept
<1>2. ASSUME NEW r \in Ids PROVE ResponseKept(d.responses[r], f.responses[r])
  BY ResponseChain DEF Kept
<1>3. ASSUME NEW c \in Ids, d.ended_conversations[c] # "none"
      PROVE  f.ended_conversations[c] = d.ended_conversations[c]
  BY <1>3 DEF Kept
<1>4. d.tombstones \subseteq f.tombstones
  BY DEF Kept
<1> QED BY <1>1, <1>2, <1>3, <1>4 DEF Kept

(* A response of a server that fails is cancelled in the same step, and    *)
(* Role has no third value.                                                *)
LEMMA KeptObjects ==
  ASSUME NEW d, NEW e, Objects(d), Kept(d, e)
  PROVE  Objects(e)
<1>1. ASSUME NEW i \in Ids
      PROVE  /\ e.inputs[i].conversation_id = 0 => e.inputs[i] = NoInput
             /\ CommittedByChunk(e.inputs[i]) /\ FailedAtOnce(e.inputs[i])
  <2>1. InputKept(d.inputs[i], e.inputs[i])
    BY DEF Kept
  <2>2. /\ d.inputs[i].conversation_id = 0 => d.inputs[i] = NoInput
        /\ CommittedByChunk(d.inputs[i]) /\ FailedAtOnce(d.inputs[i])
    BY DEF Objects
  <2>3. e.inputs[i].conversation_id = 0 => e.inputs[i] = NoInput
    BY <2>1, <2>2 DEF InputKept
  <2> QED BY <2>1, <2>2, <2>3 DEF InputKept
<1>2. ASSUME NEW r \in Ids
      PROVE  /\ e.responses[r].conversation_id = 0 => e.responses[r] = NoResponse
             /\ PlayedWasSent(e.responses[r]) /\ Hushed(e.responses[r])
             /\ Role = "server" /\ e.responses[r].failure # "none" => IsCancelled(e.responses[r])
  <2> DEFINE x == d.responses[r]
             y == e.responses[r]
  <2>1. ResponseKept(x, y)
    BY DEF Kept
  <2>2. /\ x.conversation_id = 0 => x = NoResponse
        /\ PlayedWasSent(x) /\ Hushed(x)
        /\ Role = "server" /\ x.failure # "none" => IsCancelled(x)
    BY DEF Objects
  <2> HIDE DEF x, y
  <2>3. y.conversation_id = 0 => y = NoResponse
    BY <2>1, <2>2 DEF ResponseKept
  <2>4. PlayedWasSent(y) /\ Hushed(y)
    BY <2>1, <2>2 DEF ResponseKept
  <2>5. Role = "server" /\ y.failure # "none" => IsCancelled(y)
    <3>1. IsCancelled(x) => IsCancelled(y)
      BY <2>1 DEF ResponseKept, IsCancelled
    <3> QED BY <2>1, <2>2, <3>1 DEF ResponseKept
  <2> QED BY <2>3, <2>4, <2>5 DEF x, y
<1> QED BY <1>1, <1>2 DEF Objects

(* One object changes, and what ended stays ended.                         *)
LEMMA KeptByInput ==
  ASSUME NEW d, NEW e, NEW id \in Ids, NEW x, DOMAIN d.inputs = Ids,
         InputKept(d.inputs[id], x),
         e.inputs = [d.inputs EXCEPT ![id] = x], e.responses = d.responses,
         e.ended_conversations = d.ended_conversations,
         d.tombstones \subseteq e.tombstones
  PROVE  Kept(d, e)
<1>1. ASSUME NEW i \in Ids PROVE InputKept(d.inputs[i], e.inputs[i])
  <2>1. CASE i = id
    BY <2>1
  <2>2. CASE i # id
    BY <2>2, InputSame
  <2> QED BY <2>1, <2>2
<1> QED BY <1>1, ResponseSame DEF Kept

LEMMA KeptByResponse ==
  ASSUME NEW d, NEW e, NEW id \in Ids, NEW x, DOMAIN d.responses = Ids,
         ResponseKept(d.responses[id], x),
         e.responses = [d.responses EXCEPT ![id] = x], e.inputs = d.inputs,
         e.ended_conversations = d.ended_conversations,
         d.tombstones \subseteq e.tombstones
  PROVE  Kept(d, e)
<1>1. ASSUME NEW r \in Ids PROVE ResponseKept(d.responses[r], e.responses[r])
  <2>1. CASE r = id
    BY <2>1
  <2>2. CASE r # id
    BY <2>2, ResponseSame
  <2> QED BY <2>1, <2>2
<1> QED BY <1>1, InputSame DEF Kept

LEMMA KeptByNone ==
  ASSUME NEW d, NEW e, e.inputs = d.inputs, e.responses = d.responses,
         \A c \in Ids : d.ended_conversations[c] # "none" =>
           e.ended_conversations[c] = d.ended_conversations[c],
         d.tombstones \subseteq e.tombstones
  PROVE  Kept(d, e)
BY InputSame, ResponseSame DEF Kept

-----------------------------------------------------------------------------
(* Every move keeps the ledger.                                            *)

(* The identifiers of the data are numbers.                                *)
LEMMA Numbers ==
  ASSUME NEW d \in Data
  PROVE  /\ d.conversation_ids \in Nat /\ d.input_ids \in Nat /\ d.response_ids \in Nat
         /\ d.conversation.id \in Nat
         /\ d.conversation.id # 0 => d.conversation.id \in Ids
         /\ d.conversation.input_id # 0 => d.conversation.input_id \in Ids
         /\ d.conversation.response_id # 0 => d.conversation.response_id \in Ids
         /\ \A k \in Ids : /\ k \in Nat /\ k # 0
                           /\ d.inputs[k].conversation_id \in Nat
                           /\ d.responses[k].conversation_id \in Nat
<1>1. MaxId \in Nat
  BY ProtocolAssumption
<1>2. /\ OptionalIds \subseteq Nat /\ NextIds \subseteq Nat
      /\ \A k \in Ids : k \in Nat /\ k # 0
      /\ \A k \in OptionalIds : k # 0 => k \in Ids
  BY <1>1 DEF OptionalIds, NextIds, Ids
<1>3. d.conversation \in Conversations
  BY Parts
<1>4. /\ d.conversation.id \in OptionalIds /\ d.conversation.input_id \in OptionalIds
      /\ d.conversation.response_id \in OptionalIds
  BY <1>3 DEF Conversations
<1>5. \A k \in Ids : /\ d.inputs[k].conversation_id \in OptionalIds
                     /\ d.responses[k].conversation_id \in OptionalIds
  BY Parts DEF Inputs, Responses
<1>6. d.conversation_ids \in NextIds /\ d.input_ids \in NextIds /\ d.response_ids \in NextIds
  BY DEF Data
<1> QED BY <1>2, <1>4, <1>5, <1>6

(* An object that does not begin in a step keeps its names.                *)
(* (The allocator says which objects begin.)                               *)
LEMMA InputNames ==
  ASSUME NEW d, NEW e, Good(d), Good(e), Kept(d, e), NEW i \in Ids,
         i < d.input_ids <=> i < e.input_ids
  PROVE  /\ e.inputs[i].conversation_id = d.inputs[i].conversation_id
         /\ e.inputs[i].interrupts_response_id = d.inputs[i].interrupts_response_id
<1>1. InputKept(d.inputs[i], e.inputs[i])
  BY DEF Kept
<1>2. /\ d.inputs[i].conversation_id # 0 <=> i < d.input_ids
      /\ e.inputs[i].conversation_id # 0 <=> i < e.input_ids
  BY DEF Good, Turns, Allocated
<1> QED BY <1>1, <1>2 DEF InputKept

LEMMA ResponseNames ==
  ASSUME NEW d, NEW e, Good(d), Good(e), Kept(d, e), NEW r \in Ids,
         r < d.response_ids <=> r < e.response_ids
  PROVE  /\ e.responses[r].conversation_id = d.responses[r].conversation_id
         /\ e.responses[r].input_id = d.responses[r].input_id
         /\ e.responses[r].end_conversation = d.responses[r].end_conversation
<1>1. ResponseKept(d.responses[r], e.responses[r])
  BY DEF Kept
<1>2. /\ d.responses[r].conversation_id # 0 <=> r < d.response_ids
      /\ e.responses[r].conversation_id # 0 <=> r < e.response_ids
  BY DEF Good, Turns, Allocated
<1> QED BY <1>1, <1>2 DEF ResponseKept

LEMMA MoveKeepsNewest ==
  ASSUME NEW d, NEW e, Good(d), Newest(d), Move(d, e)
  PROVE  Newest(e)
<1>0. /\ d.conversation.input_id # 0 => d.conversation.input_id \in Ids
      /\ d.conversation_ids \in Nat /\ d.input_ids \in Nat /\ d.response_ids \in Nat
  BY Numbers DEF Good
<1>1. CASE Steady(d, e)
  BY <1>0, <1>1 DEF Newest, Steady, SameObjects, SameFate, SameTurn
<1>2. CASE Releases(d, e)
  BY <1>2 DEF Newest, Releases, SameObjects, SameFate
<1>3. CASE Opens(d, e)
  BY <1>0, <1>3 DEF Newest, Opens, NoConversation
<1>4. CASE Speaks(d, e)
  BY <1>0, <1>4 DEF Newest, Speaks, SameFate
<1>5. CASE Answers(d, e)
  <2>1. d.response_ids # 0
    BY <1>5, NoneIds DEF Answers
  <2> QED BY <1>0, <1>5, <2>1 DEF Newest, Answers, SameFate
<1>6. CASE Cancels(d, e)
  BY <1>0, <1>6 DEF Newest, Cancels, SameObjects, SameTurn
<1>7. CASE GivesUp(d, e)
  BY <1>7 DEF Newest, GivesUp, SameObjects, SameFate
<1>8. CASE Fails(d, e)
  BY <1>0, <1>8 DEF Newest, Fails, SameObjects, SameTurn
<1>9. CASE Ends(d, e)
  BY <1>9 DEF Newest, Ends, NoConversation
<1> QED BY <1>1, <1>2, <1>3, <1>4, <1>5, <1>6, <1>7, <1>8, <1>9 DEF Move

LEMMA MoveKeepsPast ==
  ASSUME NEW d, NEW e, Good(d), Good(e), Newest(d), Past(d), Kept(d, e), Move(d, e)
  PROVE  Past(e)
<1> DEFINE Begun(f) == \A k \in Ids : /\ f.inputs[k].conversation_id < f.conversation_ids
                                      /\ f.responses[k].conversation_id < f.conversation_ids
           Over(f) == \A k \in Ids : f.ended_conversations[k] # "none" =>
                        k < f.conversation_ids /\ k # f.conversation.id
<1>0. /\ d.conversation_ids \in Nat /\ d.conversation.id \in Nat
      /\ \A k \in Ids : /\ k \in Nat /\ k # 0
                        /\ d.inputs[k].conversation_id \in Nat
                        /\ d.responses[k].conversation_id \in Nat
  BY Numbers DEF Good
<1>1. Begun(d) /\ Over(d)
  BY DEF Past
<1>2. SUFFICES Begun(e) /\ Over(e)
  BY DEF Past
<1>3. ASSUME SameObjects(d, e) PROVE Begun(e)
  <2>1. \A k \in Ids : /\ e.inputs[k].conversation_id = d.inputs[k].conversation_id
                       /\ e.responses[k].conversation_id = d.responses[k].conversation_id
    <3>1. e.input_ids = d.input_ids /\ e.response_ids = d.response_ids
      BY <1>3 DEF SameObjects
    <3> QED BY <3>1, InputNames, ResponseNames
  <2> QED BY <1>1, <1>3, <2>1 DEF SameObjects
<1>4. ASSUME SameObjects(d, e), SameEndings(d, e), e.conversation.id = d.conversation.id
      PROVE  Begun(e) /\ Over(e)
  BY <1>1, <1>3, <1>4 DEF SameObjects, SameEndings
<1>5. CASE Opens(d, e)
  BY <1>0, <1>1, <1>5 DEF Opens, SameEndings, NoConversation
<1>6. CASE Speaks(d, e)
  <2>1. \A k \in Ids : e.responses[k].conversation_id = d.responses[k].conversation_id
    <3>1. e.response_ids = d.response_ids
      BY <1>6 DEF Speaks
    <3> QED BY <3>1, ResponseNames
  <2>2. d.conversation.id < d.conversation_ids
    BY <1>0, <1>6 DEF Speaks, Alive, Newest
  <2>3. Over(e)
    BY <1>1, <1>6 DEF Speaks, SameEndings, SameFate
  <2>4. \A k \in Ids : e.inputs[k].conversation_id < e.conversation_ids
    BY <1>1, <1>6, <2>2 DEF Speaks
  <2> QED BY <1>1, <1>6, <2>1, <2>3, <2>4 DEF Speaks
<1>7. CASE Answers(d, e)
  <2>1. \A k \in Ids : e.inputs[k].conversation_id = d.inputs[k].conversation_id
    <3>1. e.input_ids = d.input_ids
      BY <1>7 DEF Answers
    <3> QED BY <3>1, InputNames
  <2>2. d.conversation.id < d.conversation_ids
    BY <1>0, <1>7 DEF Answers, Alive, Newest
  <2>3. Over(e)
    BY <1>1, <1>7 DEF Answers, SameEndings, SameFate
  <2>4. \A k \in Ids : k # d.response_ids =>
          e.responses[k].conversation_id = d.responses[k].conversation_id
    <3>1. e.response_ids = d.response_ids + 1 /\ d.response_ids \in Nat
      BY <1>7, Numbers DEF Answers, Good
    <3>2. \A k \in Ids : k # d.response_ids => (k < d.response_ids <=> k < e.response_ids)
      BY <1>0, <3>1
    <3> QED BY <3>2, ResponseNames
  <2>5. \A k \in Ids : e.responses[k].conversation_id < e.conversation_ids
    BY <1>1, <1>7, <2>2, <2>4 DEF Answers
  <2> QED BY <1>1, <1>7, <2>1, <2>3, <2>5 DEF Answers
<1>8. CASE Ends(d, e)
  <2>1. Begun(e)
    BY <1>3, <1>8 DEF Ends
  <2>2. \A k \in Ids : k # d.conversation.id =>
          e.ended_conversations[k] = d.ended_conversations[k]
    BY <1>8 DEF Ends, Good, Data
  <2>3. d.conversation.id < d.conversation_ids
    BY <1>0, <1>8 DEF Ends, Newest
  <2>4. e.conversation.id = 0 /\ e.conversation_ids = d.conversation_ids
    BY <1>8 DEF Ends, NoConversation, SameObjects
  <2>5. Over(e)
    BY <1>0, <1>1, <2>2, <2>3, <2>4
  <2> QED BY <2>1, <2>5
<1> HIDE DEF Begun, Over
<1>9. CASE Steady(d, e) \/ Releases(d, e) \/ Cancels(d, e) \/ GivesUp(d, e) \/ Fails(d, e)
  BY <1>4, <1>9 DEF Steady, Releases, Cancels, GivesUp, Fails, SameFate
<1> QED BY <1>5, <1>6, <1>7, <1>8, <1>9 DEF Move

LEMMA MoveKeepsSilence ==
  ASSUME NEW d, NEW e, Good(d), Good(e), SilencedByOthers(d), Kept(d, e), Move(d, e)
  PROVE  SilencedByOthers(e)
<1>1. ASSUME NEW r \in Ids, Stale(d.responses[r]) PROVE Stale(e.responses[r])
  <2>1. ResponseKept(d.responses[r], e.responses[r])
    BY DEF Kept
  <2> QED BY <1>1, <2>1 DEF ResponseKept, Stale, IsCancelled
<1>2. ASSUME NEW r \in Ids, e.conversation.response_id = r, e.conversation.failure # "none"
      PROVE  Stale(e.responses[r])
  <2>1. CASE Steady(d, e)
    BY <1>1, <1>2, <2>1 DEF SilencedByOthers, Steady, SameFate, SameTurn
  <2>2. CASE Fails(d, e)
    BY <1>2, <2>2, NoneIds DEF Fails, SameTurn, Stale
  <2>3. e.conversation.response_id # 0
    BY <1>2, NoneIds
  <2>4. ~ Releases(d, e) /\ ~ GivesUp(d, e) /\ ~ Speaks(d, e)
    BY <2>3 DEF Releases, GivesUp, Speaks
  <2>5. ~ Opens(d, e) /\ ~ Ends(d, e) /\ ~ Cancels(d, e) /\ ~ Answers(d, e)
    BY <1>2 DEF Opens, Ends, Cancels, Answers, NoConversation, SameFate, Alive
  <2> QED BY <2>1, <2>2, <2>4, <2>5 DEF Move
<1>3. ASSUME NEW i \in Ids, NEW r \in Ids, e.inputs[i].interrupts_response_id = r
      PROVE  Stale(e.responses[r])
  <2>1. CASE Speaks(d, e)
    <3>1. CASE i = d.input_ids
      BY <1>3, <2>1, <3>1 DEF Speaks, Stale
    <3>2. CASE i # d.input_ids
      BY <1>1, <1>3, <2>1, <3>2 DEF Speaks, SilencedByOthers
    <3> QED BY <3>1, <3>2
  <2>2. CASE ~ Speaks(d, e)
    <3>1. e.input_ids = d.input_ids
      BY <2>2 DEF Move, Steady, Releases, Opens, Answers, Cancels, GivesUp, Fails, Ends,
                  SameObjects
    <3>2. e.inputs[i].interrupts_response_id = d.inputs[i].interrupts_response_id
      BY <3>1, InputNames
    <3> QED BY <1>1, <1>3, <3>2 DEF SilencedByOthers
  <2> QED BY <2>1, <2>2
<1> QED BY <1>2, <1>3 DEF SilencedByOthers

LEMMA StepKeepsLedger ==
  ASSUME NEW d, NEW e, Good(d), Good(e), Ledger(d), Step(d, e),
         d.connection_state \notin {"disconnected", "handshaking"}
  PROVE  Ledger(e)
<1>1. /\ Newest(d) /\ Past(d) /\ SilencedByOthers(d) /\ ServerLives(d)
      /\ Kept(d, e) /\ Move(d, e)
  BY DEF Ledger, Step
<1>2. Newest(e) /\ Past(e) /\ SilencedByOthers(e)
  BY <1>1, MoveKeepsNewest, MoveKeepsPast, MoveKeepsSilence
<1>3. ServerLives(e)
  BY <1>1, SMTT(30) DEF ServerLives, Move, Steady, Releases, Opens, Speaks, Answers, Cancels,
              GivesUp, Fails, Ends, SameFate, NoConversation
<1>4. e.connection_state = d.connection_state
  BY <1>1 DEF Move, Steady, Releases, Opens, Speaks, Answers, Cancels, GivesUp, Fails,
              Ends, SameObjects
<1> QED BY <1>2, <1>3, <1>4 DEF Ledger, Fresh

-----------------------------------------------------------------------------
(* What follows for the properties of Validator.                           *)

(* A response played to its end that was to end its conversation.          *)
Completed(r) == r.end_conversation /\ r.terminal = "ended" /\ ~ Unfinished(r)

Intent(d) == \A r \in Ids : IntentHonoured(d, r)

LEMMA CurrentResponse ==
  ASSUME NEW d, Good(d), d.conversation.response_id # 0
  PROVE  LET r == d.responses[d.conversation.response_id] IN
         /\ d.conversation.response_id \in Ids
         /\ Unfinished(r)
         /\ d.conversation.id # 0 /\ d.conversation.input_id # 0
         /\ d.conversation.id = r.conversation_id
         /\ d.conversation.input_id = r.input_id
         /\ d.conversation.expected_end_reason = "none"
<1>1. d.conversation.response_id \in Ids
  BY Numbers DEF Good
<1>2. d.conversation.response_id \in Ids /\ Unfinished(d.responses[d.conversation.response_id])
  BY <1>1, NoInputDuringResponse
<1>3. /\ d.conversation.id = d.responses[d.conversation.response_id].conversation_id
      /\ d.conversation.input_id = d.responses[d.conversation.response_id].input_id
  BY <1>1, NoInputDuringResponse
<1>4. d.responses[d.conversation.response_id].conversation_id # 0
  BY <1>2 DEF Unfinished
<1>5. d.responses[d.conversation.response_id].input_id # 0
  BY <1>1, <1>4 DEF Good, Turns, Answered
<1>6. d.conversation.expected_end_reason = "none"
  BY DEF Good, Turns, EndDue
<1> QED BY <1>1, <1>2, <1>3, <1>4, <1>5, <1>6

(* A response is completed by the release of the current response only.    *)
LEMMA CompletedByRelease ==
  ASSUME NEW d, NEW e, Good(d), Good(e), Objects(d), Step(d, e), NEW r \in Ids,
         Completed(e.responses[r])
  PROVE  /\ d.responses[r].conversation_id # 0
         /\ \/ Completed(d.responses[r])
            \/ d.conversation.response_id = r /\ Releases(d, e)
<1>1. Kept(d, e) /\ OthersStand(d, e) /\ Move(d, e)
  BY DEF Step
<1>2. r # 0 /\ e.conversation.response_id # r
  BY NoneIds DEF Good, Turns, ResponseTurn, Completed
<1>3. ResponseKept(d.responses[r], e.responses[r])
  BY <1>1 DEF Kept
<1>4. CASE d.conversation.response_id # r
  <2>1. d.responses[r].terminal = "ended" /\ ~ Unfinished(d.responses[r])
    BY <1>1, <1>4 DEF OthersStand, Completed, Good, Turns, ResponseTurn
  <2>2. d.responses[r].conversation_id # 0
    BY <2>1 DEF Objects, NoResponse
  <2> QED BY <1>3, <2>1, <2>2 DEF ResponseKept, Completed
<1>5. CASE d.conversation.response_id = r
  <2>1. d.conversation.id # 0 /\ d.responses[r].conversation_id # 0
    BY <1>2, <1>5, CurrentResponse
  <2>2. ~ IsCancelled(e.responses[r])
    BY DEF Completed, IsCancelled, ResponseCancelReason
  <2>3. ~ Steady(d, e) /\ ~ Cancels(d, e) /\ ~ Fails(d, e)
    BY <1>2, <1>5 DEF Steady, Cancels, Fails, SameTurn
  <2>4. ~ Opens(d, e)
    BY <2>1 DEF Opens
  <2>5. ~ Answers(d, e) /\ ~ GivesUp(d, e)
    BY <1>2, <1>5 DEF Answers, GivesUp
  <2>6. ~ Speaks(d, e)
    BY <1>2, <1>5, <2>2 DEF Speaks
  <2>7. ~ Ends(d, e)
    BY <1>2, <1>5, <2>2 DEF Ends
  <2> QED BY <1>1, <1>5, <2>1, <2>3, <2>4, <2>5, <2>6, <2>7 DEF Move
<1> QED BY <1>4, <1>5

(* "end_conversation=True on start_response ends only after successful     *)
(* response/playback."                                                     *)
LEMMA StepKeepsCompleted ==
  ASSUME NEW d, NEW e, Good(d), Good(e), Objects(d), Ledger(d), Intent(d), Step(d, e),
         NEW r \in Ids, Completed(e.responses[r])
  PROVE  LET k == e.responses[r].conversation_id IN
         /\ \A i \in Ids : e.inputs[i].conversation_id = k => i <= e.responses[r].input_id
         /\ e.ended_conversations[k] \in {"none", "completed"}
         /\ e.conversation.id = k => e.conversation.expected_end_reason = "completed"
<1> DEFINE k == d.responses[r].conversation_id
           c == d.conversation
<1>1. /\ Kept(d, e) /\ Move(d, e) /\ Newest(d) /\ Past(d)
      /\ k # 0 /\ k \in Ids
      /\ Completed(d.responses[r]) \/ (c.response_id = r /\ Releases(d, e))
  <2>1. k \in OptionalIds
    BY Parts DEF Good, Responses
  <2>2. k # 0 /\ (Completed(d.responses[r]) \/ (c.response_id = r /\ Releases(d, e)))
    BY CompletedByRelease
  <2> QED BY <2>1, <2>2, NoneIds DEF Step, Ledger
<1>2. e.responses[r].conversation_id = k /\ e.responses[r].input_id = d.responses[r].input_id
  BY <1>1 DEF Kept, ResponseKept
<1>3. k < d.conversation_ids
  BY <1>1 DEF Past
<1>4. CASE Completed(d.responses[r])
  <2>1. /\ \A i \in Ids : d.inputs[i].conversation_id = k => i <= d.responses[r].input_id
        /\ d.ended_conversations[k] \in {"none", "completed"}
        /\ c.id = k => c.expected_end_reason = "completed"
    BY <1>4 DEF Intent, IntentHonoured, Completed
  <2>2. c.id = k => c.response_id = 0
    BY <2>1, CurrentResponse
  <2>3. ASSUME NEW i \in Ids, e.inputs[i].conversation_id = k PROVE i <= d.responses[r].input_id
    <3>1. CASE Speaks(d, e)
      <4>1. i # d.input_ids
        BY <2>1, <2>3, <3>1 DEF Speaks
      <4> QED BY <2>1, <2>3, <3>1, <4>1 DEF Speaks
    <3>2. CASE ~ Speaks(d, e)
      <4>1. e.input_ids = d.input_ids
        BY <1>1, <3>2 DEF Move, Steady, Releases, Opens, Answers, Cancels, GivesUp, Fails,
                          Ends, SameObjects
      <4>2. e.inputs[i].conversation_id = d.inputs[i].conversation_id
        BY <1>1, <4>1, InputNames
      <4> QED BY <2>1, <2>3, <4>2, SMTT(30)
    <3> QED BY <3>1, <3>2
  <2>4. e.ended_conversations[k] \in {"none", "completed"}
    <3>1. CASE Ends(d, e)
      <4>1. DOMAIN d.ended_conversations = Ids
        BY DEF Good, Data
      <4>2. CASE k = c.id
        BY <2>1, <3>1, <4>2 DEF Ends
      <4>3. CASE k # c.id
        BY <1>1, <2>1, <3>1, <4>1, <4>3 DEF Ends
      <4> QED BY <4>2, <4>3
    <3>2. CASE ~ Ends(d, e)
      BY <1>1, <2>1, <3>2 DEF Move, Steady, Releases, Opens, Speaks, Answers, Cancels,
                              GivesUp, Fails, SameEndings
    <3> QED BY <3>1, <3>2
  <2>5. ASSUME e.conversation.id = k PROVE e.conversation.expected_end_reason = "completed"
    <3>1. ~ Ends(d, e)
      BY <1>1, <2>5 DEF Ends, NoConversation
    <3>2. ~ Opens(d, e)
      <4>1. ASSUME Opens(d, e) PROVE k = d.conversation_ids
        BY <2>5, <4>1 DEF Opens, NoConversation
      <4>2. d.conversation_ids \in Nat
        BY Numbers DEF Good
      <4> QED BY <1>3, <4>1, <4>2
    <3>3. ~ Releases(d, e)
      BY <2>2, <2>5 DEF Releases, SameFate
    <3>4. ~ Speaks(d, e) /\ ~ Answers(d, e) /\ ~ GivesUp(d, e)
      BY <2>1, <2>5 DEF Speaks, Answers, GivesUp, SameFate
    <3>5. Steady(d, e) \/ Cancels(d, e) \/ Fails(d, e)
      BY <1>1, <3>1, <3>2, <3>3, <3>4 DEF Move
    <3> QED BY <2>1, <2>5, <3>5 DEF Steady, Cancels, Fails, SameFate, SameTurn
  <2> QED BY <1>2, <2>3, <2>4, <2>5
<1>5. CASE c.response_id = r /\ Releases(d, e)
  <2>1. /\ c.id = k /\ c.input_id = d.responses[r].input_id /\ c.input_id # 0
        /\ c.input_id \in Ids
    <3>1. c.response_id # 0
      BY <1>5, NoneIds
    <3>2. c.input_id # 0 => c.input_id \in Ids
      BY Numbers DEF Good
    <3> QED BY <1>5, <3>1, <3>2, CurrentResponse
  <2>2. /\ e.input_ids = d.input_ids /\ c.input_id + 1 = d.input_ids
    BY <1>1, <1>5, <2>1 DEF Releases, SameObjects, Newest
  <2>3. ASSUME NEW i \in Ids, e.inputs[i].conversation_id = k PROVE i <= d.responses[r].input_id
    <3>1. i < e.input_ids
      BY <1>1, <2>3 DEF Good, Turns, Allocated
    <3>2. i \in Nat /\ c.input_id \in Nat
      BY <2>1, Numbers DEF Good
    <3> QED BY <2>1, <2>2, <3>1, <3>2
  <2>4. e.ended_conversations[k] = "none"
    BY <1>1, <1>5, <2>1 DEF Past, Releases, SameEndings
  <2>5. e.conversation.expected_end_reason = "completed"
    BY <1>5 DEF Releases, Completed
  <2> QED BY <1>2, <2>3, <2>4, <2>5
<1> QED BY <1>1, <1>4, <1>5

(* "Barge-in revokes terminal intent."                                     *)
LEMMA StepKeepsRevoked ==
  ASSUME NEW d, NEW e, Good(d), Good(e), Objects(d), Ledger(d), Intent(d), Step(d, e),
         NEW r \in Ids, e.responses[r].terminal = "barge_in",
         e.conversation.id = e.responses[r].conversation_id, e.response_ids = r + 1
  PROVE  e.conversation.expected_end_reason = "none"
<1>1. /\ Kept(d, e) /\ OthersStand(d, e) /\ Move(d, e) /\ Newest(d)
  BY DEF Step, Ledger
<1>2. r # 0 /\ r \in Nat /\ d.response_ids \in Nat
      /\ (d.conversation.response_id # 0 => d.conversation.response_id \in Nat)
  BY Numbers DEF Good
<1>3. ~ Unfinished(e.responses[r])
  BY DEF Unfinished
<1>4. e.conversation.response_id # r
  BY <1>3 DEF Good, Turns, ResponseTurn
<1>5. CASE Speaks(d, e) \/ Answers(d, e) \/ GivesUp(d, e)
  BY <1>5 DEF Speaks, Answers, GivesUp
<1>6. CASE Opens(d, e) \/ Ends(d, e)
  BY <1>6 DEF Opens, Ends, NoConversation
<1>7. CASE Releases(d, e)
  <2>1. d.conversation.response_id = r
    <3>1. d.conversation.response_id + 1 = r + 1
      BY <1>1, <1>7 DEF Releases, SameObjects, Newest
    <3>2. d.conversation.response_id \in Nat
      BY <1>2, <1>7 DEF Releases
    <3> QED BY <1>2, <3>1, <3>2
  <2> QED BY <1>7, <2>1 DEF Releases
<1>8. CASE Steady(d, e) \/ Cancels(d, e) \/ Fails(d, e)
  <2>1. /\ SameObjects(d, e) /\ SameTurn(d, e) /\ e.conversation.id = d.conversation.id
    BY <1>8 DEF Steady, Cancels, Fails, SameFate
  <2>2. d.responses[r].terminal = "barge_in"
    BY <1>1, <1>4, <2>1 DEF OthersStand, SameTurn
  <2>3. e.responses[r].conversation_id = d.responses[r].conversation_id
    <3>1. e.response_ids = d.response_ids
      BY <2>1 DEF SameObjects
    <3> QED BY <1>1, <3>1, ResponseNames
  <2>4. d.response_ids = r + 1
    BY <2>1 DEF SameObjects
  <2>5. d.conversation.expected_end_reason = "none"
    BY <2>1, <2>2, <2>3, <2>4 DEF Intent, IntentHonoured
  <2> QED BY <2>1, <2>5 DEF SameTurn
<1> QED BY <1>1, <1>5, <1>6, <1>7, <1>8 DEF Move

LEMMA StepKeepsIntent ==
  ASSUME NEW d, NEW e, Good(d), Good(e), Objects(d), Ledger(d), Intent(d), Step(d, e)
  PROVE  Intent(e)
BY StepKeepsCompleted, StepKeepsRevoked DEF Intent, IntentHonoured, Completed

(* Stale text and audio is validated but not delivered.                    *)
LEMMA SilencedStale ==
  ASSUME NEW d, Objects(d), SilencedByOthers(d), NEW r \in Ids, Silenced(d, r)
  PROVE  Stale(d.responses[r])
BY DEF Objects, SilencedByOthers, Silenced, Stale, Hushed

-----------------------------------------------------------------------------
(* Changes of one object.                                                  *)

Rest(d, e) ==
  /\ e.connection_state = d.connection_state
  /\ e.conversation_ids = d.conversation_ids
  /\ e.input_ids = d.input_ids /\ e.response_ids = d.response_ids
  /\ e.ended_conversations = d.ended_conversations

(* Input id becomes x, and graves are dug.                                 *)
InputBecomes(d, e, id, x, graves) ==
  /\ e.inputs = [d.inputs EXCEPT ![id] = x] /\ e.responses = d.responses
  /\ e.conversation = d.conversation
  /\ e.tombstones = d.tombstones \cup graves
  /\ Rest(d, e)

(* Response id becomes x, the conversation y.                              *)
ResponseBecomes(d, e, id, x, y, graves) ==
  /\ e.responses = [d.responses EXCEPT ![id] = x] /\ e.inputs = d.inputs
  /\ e.conversation = y
  /\ e.tombstones = d.tombstones \cup graves
  /\ Rest(d, e)

Grave(kind, id, state) == [kind |-> kind, id |-> id, terminal_state |-> state]

LEMMA ByInput ==
  ASSUME NEW d \in Data, NEW id \in Ids, NEW x \in Inputs
  PROVE  InputBecomes(d, WithInput(d, id, x), id, x, {})
<1>1. WithInput(d, id, x).tombstones = d.tombstones
  BY DEF WithInput, Data
<1> QED BY <1>1, WithInputParts DEF InputBecomes, Rest, SameRest

LEMMA ByResponse ==
  ASSUME NEW d \in Data, NEW id \in Ids, NEW x \in Responses
  PROVE  ResponseBecomes(d, WithResponse(d, id, x), id, x, d.conversation, {})
<1>1. WithResponse(d, id, x).tombstones = d.tombstones
  BY DEF WithResponse, Data
<1> QED BY <1>1, WithResponseParts DEF ResponseBecomes, Rest, SameRest

LEMMA ByConversation ==
  ASSUME NEW d \in Data, NEW y \in Conversations
  PROVE  LET e == WithConversation(d, y) IN
         /\ e.inputs = d.inputs /\ e.responses = d.responses /\ e.conversation = y
         /\ e.tombstones = d.tombstones /\ Rest(d, e)
<1>1. WithConversation(d, y).tombstones = d.tombstones
  BY DEF WithConversation, Data
<1> QED BY <1>1, WithConversationParts DEF Rest, SameRest

LEMMA ByTombstone ==
  ASSUME NEW d \in Data, NEW kind, NEW id, NEW state, Grave(kind, id, state) \in Tombstones
  PROVE  LET e == WithTombstone(d, kind, id, state) IN
         /\ e.inputs = d.inputs /\ e.responses = d.responses
         /\ e.conversation = d.conversation
         /\ e.tombstones = d.tombstones \cup {Grave(kind, id, state)} /\ Rest(d, e)
<1>1. WithTombstone(d, kind, id, state).tombstones = d.tombstones \cup {Grave(kind, id, state)}
  BY DEF WithTombstone, Data, Grave
<1>2. [kind |-> kind, id |-> id, terminal_state |-> state] \in Tombstones
  BY DEF Grave
<1> QED BY <1>1, <1>2, WithTombstoneParts DEF Rest, SameRest

(* Nothing changes.                                                        *)
LEMMA QuietSame ==
  ASSUME NEW d, NEW e, e.inputs = d.inputs, e.responses = d.responses,
         e.tombstones = d.tombstones, Rest(d, e), SameFate(d, e), SameTurn(d, e)
  PROVE  Step(d, e)
<1>1. Kept(d, e)
  BY KeptByNone DEF Rest
<1>2. OthersStand(d, e) /\ Steady(d, e)
  BY DEF OthersStand, Steady, SameObjects, SameEndings, Rest
<1> QED BY <1>1, <1>2 DEF Step, Move

(* One response changes, and reaches a terminal only if it is current.     *)
LEMMA ResponseKeeps ==
  ASSUME NEW d, NEW e, Good(d), NEW id \in Ids, NEW x, NEW y, NEW graves,
         ResponseBecomes(d, e, id, x, y, graves), ResponseKept(d.responses[id], x),
         d.conversation.response_id = id \/ x.terminal = d.responses[id].terminal
  PROVE  Kept(d, e) /\ OthersStand(d, e) /\ SameObjects(d, e) /\ SameEndings(d, e)
<1>1. DOMAIN d.responses = Ids
  BY Parts DEF Good
<1>2. Kept(d, e)
  BY <1>1, KeptByResponse DEF ResponseBecomes, Rest
<1>3. OthersStand(d, e)
  BY <1>1 DEF OthersStand, ResponseBecomes
<1> QED BY <1>2, <1>3 DEF SameObjects, SameEndings, ResponseBecomes, Rest

LEMMA QuietResponse ==
  ASSUME NEW d, NEW e, Good(d), NEW id \in Ids, NEW x, NEW y, NEW graves,
         ResponseBecomes(d, e, id, x, y, graves), ResponseKept(d.responses[id], x),
         d.conversation.response_id = id \/ x.terminal = d.responses[id].terminal,
         SameFate(d, e), SameTurn(d, e)
  PROVE  Step(d, e)
BY ResponseKeeps DEF Step, Move, Steady

-----------------------------------------------------------------------------
(* Records of inputs.                                                      *)

LEMMA InputTerminated ==
  ASSUME NEW x \in Inputs, x.conversation_id # 0, x.terminal = NoTerminal,
         NEW t, t.kind = "closed" => t.end_frame = x.committed, t # NoTerminal
  PROVE  InputKept(x, [x EXCEPT !.terminal = t])
<1> DEFINE y == [x EXCEPT !.terminal = t]
<1>1. /\ y.conversation_id = x.conversation_id
      /\ y.interrupts_response_id = x.interrupts_response_id
      /\ y.response_id = x.response_id /\ y.terminal = t /\ y.final = x.final
      /\ y.failure = x.failure /\ y.boundaries = x.boundaries
      /\ y.received = x.received /\ y.committed = x.committed
  BY DEF Inputs
<1> HIDE DEF y
<1>2. CommittedByChunk(x) => CommittedByChunk(y)
  BY <1>1 DEF CommittedByChunk
<1>3. FailedAtOnce(x) => FailedAtOnce(y)
  BY <1>1 DEF FailedAtOnce
<1>4. InputKept(x, y)
  BY <1>1, <1>2, <1>3 DEF InputKept
<1> QED BY <1>4 DEF y

LEMMA InputTranscribed ==
  ASSUME NEW x \in Inputs, x.conversation_id # 0, NEW v,
         x.final = "none" \/ v = x.final, v # "none"
  PROVE  InputKept(x, [x EXCEPT !.final = v])
<1> DEFINE y == [x EXCEPT !.final = v]
<1>1. /\ y.conversation_id = x.conversation_id
      /\ y.interrupts_response_id = x.interrupts_response_id
      /\ y.response_id = x.response_id /\ y.terminal = x.terminal /\ y.final = v
      /\ y.failure = x.failure /\ y.boundaries = x.boundaries
      /\ y.received = x.received /\ y.committed = x.committed
  BY DEF Inputs
<1> HIDE DEF y
<1>2. CommittedByChunk(x) => CommittedByChunk(y)
  BY <1>1 DEF CommittedByChunk
<1>3. FailedAtOnce(x) => FailedAtOnce(y)
  BY <1>1 DEF FailedAtOnce
<1>4. InputKept(x, y)
  BY <1>1, <1>2, <1>3 DEF InputKept
<1> QED BY <1>4 DEF y

(* The server records the failure of an input that is over.                *)
LEMMA InputFailed ==
  ASSUME NEW x \in Inputs, x.conversation_id # 0, x.failure = "none", NEW code,
         Role = "server" => x.terminal # NoTerminal /\ x.final # "none"
  PROVE  InputKept(x, [x EXCEPT !.failure = code])
<1> DEFINE y == [x EXCEPT !.failure = code]
<1>1. /\ y.conversation_id = x.conversation_id
      /\ y.interrupts_response_id = x.interrupts_response_id
      /\ y.response_id = x.response_id /\ y.terminal = x.terminal /\ y.final = x.final
      /\ y.boundaries = x.boundaries
      /\ y.received = x.received /\ y.committed = x.committed
  BY DEF Inputs
<1> HIDE DEF y
<1>2. CommittedByChunk(x) => CommittedByChunk(y)
  BY <1>1 DEF CommittedByChunk
<1>3. FailedAtOnce(y)
  BY <1>1 DEF FailedAtOnce
<1>4. InputKept(x, y)
  BY <1>1, <1>2, <1>3 DEF InputKept
<1> QED BY <1>4 DEF y

(* A committed boundary is one of the chunks'; a closed input commits no   *)
(* more.                                                                   *)
LEMMA InputCommitted ==
  ASSUME NEW x \in Inputs, x.conversation_id # 0, NEW end \in Nat,
         end \in {0} \cup x.boundaries, x.terminal.kind # "closed"
  PROVE  InputKept(x, [x EXCEPT !.committed = end])
<1> DEFINE y == [x EXCEPT !.committed = end]
<1>1. /\ y.conversation_id = x.conversation_id
      /\ y.interrupts_response_id = x.interrupts_response_id
      /\ y.response_id = x.response_id /\ y.terminal = x.terminal /\ y.final = x.final
      /\ y.failure = x.failure /\ y.boundaries = x.boundaries
      /\ y.received = x.received /\ y.committed = end
  BY DEF Inputs
<1> HIDE DEF y
<1>2. CommittedByChunk(x) => CommittedByChunk(y)
  BY <1>1 DEF CommittedByChunk
<1>3. FailedAtOnce(x) => FailedAtOnce(y)
  BY <1>1 DEF FailedAtOnce
<1>4. InputKept(x, y)
  BY <1>1, <1>2, <1>3 DEF InputKept
<1> QED BY <1>4 DEF y

(* A chunk ends later than the one before, within the limit.               *)
LEMMA InputReceived ==
  ASSUME NEW x \in Inputs, x.conversation_id # 0, NEW end \in Nat,
         end > x.received, end <= MaxInputFrames
  PROVE  InputKept(x, [x EXCEPT !.received = end, !.boundaries = @ \cup {end}])
<1> DEFINE y == [x EXCEPT !.received = end, !.boundaries = @ \cup {end}]
<1>1. /\ y.conversation_id = x.conversation_id
      /\ y.interrupts_response_id = x.interrupts_response_id
      /\ y.response_id = x.response_id /\ y.terminal = x.terminal /\ y.final = x.final
      /\ y.failure = x.failure /\ y.boundaries = x.boundaries \cup {end}
      /\ y.received = end /\ y.committed = x.committed
  BY DEF Inputs
<1>1a. x.received \in Nat
  BY DEF Inputs
<1> HIDE DEF y
<1>2. CommittedByChunk(x) => CommittedByChunk(y)
  <2> SUFFICES ASSUME CommittedByChunk(x) PROVE CommittedByChunk(y)
    OBVIOUS
  <2>1. \A b \in 1..x.received : b \in 1..end
    BY <1>1a
  <2>2. end \in 1..end
    BY <1>1a
  <2>3. y.boundaries \subseteq 1..y.received
    BY <1>1, <2>1, <2>2 DEF CommittedByChunk
  <2> QED BY <1>1, <2>3 DEF CommittedByChunk
<1>3. FailedAtOnce(x) => FailedAtOnce(y)
  BY <1>1 DEF FailedAtOnce
<1>4. InputKept(x, y)
  BY <1>1, <1>2, <1>3 DEF InputKept
<1> QED BY <1>4 DEF y

LEMMA InputUpdated ==
  ASSUME NEW x \in Inputs, x.conversation_id # 0, NEW v
  PROVE  InputKept(x, [x EXCEPT !.update = v])
<1> DEFINE y == [x EXCEPT !.update = v]
<1>1. /\ y.conversation_id = x.conversation_id
      /\ y.interrupts_response_id = x.interrupts_response_id
      /\ y.response_id = x.response_id /\ y.terminal = x.terminal /\ y.final = x.final
      /\ y.failure = x.failure /\ y.boundaries = x.boundaries
      /\ y.received = x.received /\ y.committed = x.committed
  BY DEF Inputs
<1> HIDE DEF y
<1>2. CommittedByChunk(x) => CommittedByChunk(y)
  BY <1>1 DEF CommittedByChunk
<1>3. FailedAtOnce(x) => FailedAtOnce(y)
  BY <1>1 DEF FailedAtOnce
<1>4. InputKept(x, y)
  BY <1>1, <1>2, <1>3 DEF InputKept
<1> QED BY <1>4 DEF y

LEMMA InputAnswered ==
  ASSUME NEW x \in Inputs, x.conversation_id # 0, x.response_id = 0, NEW r
  PROVE  InputKept(x, [x EXCEPT !.response_id = r])
<1> DEFINE y == [x EXCEPT !.response_id = r]
<1>1. /\ y.conversation_id = x.conversation_id
      /\ y.interrupts_response_id = x.interrupts_response_id
      /\ y.terminal = x.terminal /\ y.final = x.final
      /\ y.failure = x.failure /\ y.boundaries = x.boundaries
      /\ y.received = x.received /\ y.committed = x.committed
  BY DEF Inputs
<1> HIDE DEF y
<1>2. CommittedByChunk(x) => CommittedByChunk(y)
  BY <1>1 DEF CommittedByChunk
<1>3. FailedAtOnce(x) => FailedAtOnce(y)
  BY <1>1 DEF FailedAtOnce
<1>4. InputKept(x, y)
  BY <1>1, <1>2, <1>3 DEF InputKept
<1> QED BY <1>4 DEF y

-----------------------------------------------------------------------------
(* Records of responses.                                                   *)

LEMMA ResponseWritten ==
  ASSUME NEW x \in Responses, x.conversation_id # 0, NEW t
  PROVE  ResponseKept(x, [x EXCEPT !.text = t])
<1> DEFINE y == [x EXCEPT !.text = t]
<1>1. /\ y.conversation_id = x.conversation_id /\ y.input_id = x.input_id
      /\ y.end_conversation = x.end_conversation /\ y.output = x.output
      /\ y.end = x.end /\ y.terminal = x.terminal
      /\ y.playback = x.playback /\ y.failure = x.failure
      /\ y.stale = x.stale
  BY DEF Responses
<1> HIDE DEF y
<1>2. PlayedWasSent(x) /\ Hushed(x) => PlayedWasSent(y)
  BY <1>1 DEF PlayedWasSent
<1>3. PlayedWasSent(x) /\ Hushed(x) => Hushed(y)
  BY <1>1 DEF Hushed, IsCancelled
<1>4. ResponseKept(x, y)
  BY <1>1, <1>2, <1>3 DEF ResponseKept
<1> QED BY <1>4 DEF y

LEMMA ResponseWrittenOut ==
  ASSUME NEW x \in Responses, x.conversation_id # 0
  PROVE  ResponseKept(x, [x EXCEPT !.text_final = TRUE])
<1> DEFINE y == [x EXCEPT !.text_final = TRUE]
<1>1. /\ y.conversation_id = x.conversation_id /\ y.input_id = x.input_id
      /\ y.end_conversation = x.end_conversation /\ y.output = x.output
      /\ y.end = x.end /\ y.terminal = x.terminal
      /\ y.playback = x.playback /\ y.failure = x.failure
      /\ y.stale = x.stale
  BY DEF Responses
<1> HIDE DEF y
<1>2. PlayedWasSent(x) /\ Hushed(x) => PlayedWasSent(y)
  BY <1>1 DEF PlayedWasSent
<1>3. PlayedWasSent(x) /\ Hushed(x) => Hushed(y)
  BY <1>1 DEF Hushed, IsCancelled
<1>4. ResponseKept(x, y)
  BY <1>1, <1>2, <1>3 DEF ResponseKept
<1> QED BY <1>4 DEF y

(* The output of a stale response is born cancelled.                       *)
LEMMA OutputStarted ==
  ASSUME NEW x \in Responses, x.conversation_id # 0,
         x.output = NoOutput, EndRecorded(x), Writable(x), NEW o,
         o.received = 0,
         o.terminal = IF Stale(x) THEN "cancelled" ELSE "none"
  PROVE  ResponseKept(x, [x EXCEPT !.output = o])
<1> DEFINE y == [x EXCEPT !.output = o]
<1>1. /\ y.conversation_id = x.conversation_id /\ y.input_id = x.input_id
      /\ y.end_conversation = x.end_conversation /\ y.output = o
      /\ y.end = x.end /\ y.terminal = x.terminal
      /\ y.playback = x.playback /\ y.failure = x.failure
      /\ y.stale = x.stale
  BY DEF Responses
<1> HIDE DEF y
<1>2. PlayedWasSent(x) /\ Hushed(x) => PlayedWasSent(y)
  BY <1>1 DEF PlayedWasSent, Hushed, NoOutput, EndRecorded, Writable, Stale
<1>3. PlayedWasSent(x) /\ Hushed(x) => Hushed(y)
  BY <1>1 DEF Hushed, Stale, IsCancelled
<1>4. ResponseKept(x, y)
  BY <1>1, <1>2, <1>3 DEF ResponseKept, NoOutput
<1> QED BY <1>4 DEF y

LEMMA OutputReceived ==
  ASSUME NEW x \in Responses, x.conversation_id # 0,
         x.output.terminal # "ended", NEW n \in Nat, x.output # NoOutput
  PROVE  ResponseKept(x, [x EXCEPT !.output.received = @ + n])
<1> DEFINE y == [x EXCEPT !.output.received = @ + n]
<1>1. /\ y.conversation_id = x.conversation_id /\ y.input_id = x.input_id
      /\ y.end_conversation = x.end_conversation
      /\ y.output = [x.output EXCEPT !.received = @ + n] /\ y.end = x.end
      /\ y.terminal = x.terminal /\ y.playback = x.playback
      /\ y.failure = x.failure /\ y.stale = x.stale
  BY DEF Responses
<1>1a. /\ y.output.terminal = x.output.terminal /\ y.output.id = x.output.id
       /\ y.output.received = x.output.received + n /\ x.output.received \in Nat
       /\ x.playback.frames \in Nat
  BY DEF Responses, Outputs, Playbacks
<1> HIDE DEF y
<1>2. PlayedWasSent(x) /\ Hushed(x) => PlayedWasSent(y)
  BY <1>1, <1>1a DEF PlayedWasSent
<1>3. PlayedWasSent(x) /\ Hushed(x) => Hushed(y)
  BY <1>1, <1>1a DEF Hushed, IsCancelled
<1>4. ResponseKept(x, y)
  BY <1>1, <1>2, <1>3 DEF ResponseKept
<1> QED BY <1>4 DEF y

(* The whole output was received, and the response was not silenced.       *)
LEMMA OutputEnded ==
  ASSUME NEW x \in Responses, x.conversation_id # 0,
         NEW n, n # 0, n = x.output.received, x.output.terminal # "ended", ~ Stale(x)
  PROVE  ResponseKept(x, [x EXCEPT !.output = [@ EXCEPT !.terminal = "ended", !.total = n]])
<1> DEFINE y == [x EXCEPT !.output = [@ EXCEPT !.terminal = "ended", !.total = n]]
<1>1. /\ y.conversation_id = x.conversation_id /\ y.input_id = x.input_id
      /\ y.end_conversation = x.end_conversation
      /\ y.output = [x.output EXCEPT !.terminal = "ended", !.total = n]
      /\ y.end = x.end /\ y.terminal = x.terminal
      /\ y.playback = x.playback /\ y.failure = x.failure
      /\ y.stale = x.stale
  BY DEF Responses
<1>1a. /\ y.output.terminal = "ended" /\ y.output.total = n
       /\ y.output.received = x.output.received
  BY DEF Responses, Outputs
<1> HIDE DEF y
<1>2. PlayedWasSent(x) /\ Hushed(x) => PlayedWasSent(y)
  BY <1>1, <1>1a DEF PlayedWasSent
<1>3. PlayedWasSent(x) /\ Hushed(x) => Hushed(y)
  BY <1>1, <1>1a DEF Hushed, IsCancelled
<1>4. ResponseKept(x, y)
  BY <1>1, <1>2, <1>3 DEF ResponseKept
<1> QED BY <1>4 DEF y

LEMMA ResponseEnded ==
  ASSUME NEW x \in Responses, x.conversation_id # 0,
         x.terminal = "none", x.output # NoOutput => x.output.terminal = "ended"
  PROVE  ResponseKept(x, [x EXCEPT !.end = TRUE, !.terminal = "ended"])
<1> DEFINE y == [x EXCEPT !.end = TRUE, !.terminal = "ended"]
<1>1. /\ y.conversation_id = x.conversation_id /\ y.input_id = x.input_id
      /\ y.end_conversation = x.end_conversation /\ y.output = x.output
      /\ y.end = TRUE /\ y.terminal = "ended" /\ y.playback = x.playback
      /\ y.failure = x.failure /\ y.stale = x.stale
  BY DEF Responses
<1> HIDE DEF y
<1>2. PlayedWasSent(x) /\ Hushed(x) => PlayedWasSent(y)
  BY <1>1 DEF PlayedWasSent
<1>3. PlayedWasSent(x) /\ Hushed(x) => Hushed(y)
  BY <1>1 DEF Hushed, IsCancelled, ResponseCancelReason
<1>4. ResponseKept(x, y)
  BY <1>1, <1>2, <1>3 DEF ResponseKept, IsCancelled, ResponseCancelReason
<1> QED BY <1>4 DEF y

LEMMA PlaybackFinished ==
  ASSUME NEW x \in Responses, x.conversation_id # 0,
         x.playback = NoPlayback, NEW p, p.kind = "finished",
         x.output.terminal = "ended", x.output.received \in Nat,
         p.frames = x.output.total
  PROVE  ResponseKept(x, [x EXCEPT !.playback = p])
<1> DEFINE y == [x EXCEPT !.playback = p]
<1>1. /\ y.conversation_id = x.conversation_id /\ y.input_id = x.input_id
      /\ y.end_conversation = x.end_conversation /\ y.output = x.output
      /\ y.end = x.end /\ y.terminal = x.terminal /\ y.playback = p
      /\ y.failure = x.failure /\ y.stale = x.stale
  BY DEF Responses
<1> HIDE DEF y
<1>2. PlayedWasSent(x) /\ Hushed(x) => PlayedWasSent(y)
  BY <1>1 DEF PlayedWasSent
<1>3. PlayedWasSent(x) /\ Hushed(x) => Hushed(y)
  BY <1>1 DEF Hushed, IsCancelled
<1>4. ResponseKept(x, y)
  BY <1>1, <1>2, <1>3 DEF ResponseKept
<1> QED BY <1>4 DEF y

LEMMA PlaybackInterrupted ==
  ASSUME NEW x \in Responses, x.conversation_id # 0,
         x.playback = NoPlayback, NEW p, p.kind = "interrupted",
         p.frames <= x.output.received
  PROVE  ResponseKept(x, [x EXCEPT !.playback = p, !.stale = TRUE])
<1> DEFINE y == [x EXCEPT !.playback = p, !.stale = TRUE]
<1>1. /\ y.conversation_id = x.conversation_id /\ y.input_id = x.input_id
      /\ y.end_conversation = x.end_conversation /\ y.output = x.output
      /\ y.end = x.end /\ y.terminal = x.terminal /\ y.playback = p
      /\ y.failure = x.failure /\ y.stale = TRUE
  BY DEF Responses
<1> HIDE DEF y
<1>2. PlayedWasSent(x) /\ Hushed(x) => PlayedWasSent(y)
  BY <1>1 DEF PlayedWasSent
<1>3. PlayedWasSent(x) /\ Hushed(x) => Hushed(y)
  BY <1>1 DEF Hushed, IsCancelled
<1>4. ResponseKept(x, y)
  BY <1>1, <1>2, <1>3 DEF ResponseKept
<1> QED BY <1>4 DEF y

LEMMA ResponseStale ==
  ASSUME NEW x \in Responses, x.conversation_id # 0
  PROVE  ResponseKept(x, [x EXCEPT !.stale = TRUE])
<1> DEFINE y == [x EXCEPT !.stale = TRUE]
<1>1. /\ y.conversation_id = x.conversation_id /\ y.input_id = x.input_id
      /\ y.end_conversation = x.end_conversation /\ y.output = x.output
      /\ y.end = x.end /\ y.terminal = x.terminal
      /\ y.playback = x.playback /\ y.failure = x.failure /\ y.stale = TRUE
  BY DEF Responses
<1> HIDE DEF y
<1>2. PlayedWasSent(x) /\ Hushed(x) => PlayedWasSent(y)
  BY <1>1 DEF PlayedWasSent
<1>3. PlayedWasSent(x) /\ Hushed(x) => Hushed(y)
  BY <1>1 DEF Hushed, IsCancelled
<1>4. ResponseKept(x, y)
  BY <1>1, <1>2, <1>3 DEF ResponseKept
<1> QED BY <1>4 DEF y

(* On a client the failure is recorded; on a server it cancels.            *)
LEMMA ResponseFailed ==
  ASSUME NEW x \in Responses, x.conversation_id # 0,
         Role # "server", NEW code
  PROVE  ResponseKept(x, [x EXCEPT !.failure = code, !.stale = TRUE])
<1> DEFINE y == [x EXCEPT !.failure = code, !.stale = TRUE]
<1>1. /\ y.conversation_id = x.conversation_id /\ y.input_id = x.input_id
      /\ y.end_conversation = x.end_conversation /\ y.output = x.output
      /\ y.end = x.end /\ y.terminal = x.terminal
      /\ y.playback = x.playback /\ y.failure = code /\ y.stale = TRUE
  BY DEF Responses
<1> HIDE DEF y
<1>2. PlayedWasSent(x) /\ Hushed(x) => PlayedWasSent(y)
  BY <1>1 DEF PlayedWasSent
<1>3. PlayedWasSent(x) /\ Hushed(x) => Hushed(y)
  BY <1>1 DEF Hushed, IsCancelled
<1>4. ResponseKept(x, y)
  BY <1>1, <1>2, <1>3, ProtocolAssumption DEF ResponseKept
<1> QED BY <1>4 DEF y

(* A cancelled response closes its open output, and is stale.              *)
LEMMA ResponseCancel ==
  ASSUME NEW x \in Responses, x.conversation_id # 0, ~ IsCancelled(x),
         NEW reason \in ResponseCancelReason, NEW w \in Responses,
         w.conversation_id = x.conversation_id, w.input_id = x.input_id,
         w.end_conversation = x.end_conversation, w.playback = x.playback,
         w.output = x.output, w.end = x.end
  PROVE  ResponseKept(x, CancelledResponse(w, reason))
<1> DEFINE y == CancelledResponse(w, reason)
<1>1. /\ y.conversation_id = x.conversation_id /\ y.input_id = x.input_id
      /\ y.end_conversation = x.end_conversation /\ y.end = x.end
      /\ y.terminal = reason /\ y.stale = TRUE /\ y.playback = x.playback
      /\ ~ OpenOutput(x) => y.output = x.output
      /\ OpenOutput(x) => y.output = [x.output EXCEPT !.terminal = "cancelled"]
  BY DEF CancelledResponse, Responses, OpenOutput, HasOutput
<1>2. OpenOutput(x) => /\ y.output.terminal = "cancelled"
                       /\ y.output.received = x.output.received
                       /\ y.output.id = x.output.id
  BY <1>1 DEF Responses, Outputs
<1> HIDE DEF y
<1>3. IsCancelled(y)
  BY <1>1 DEF IsCancelled
<1>4. PlayedWasSent(x) => PlayedWasSent(y)
  BY <1>1, <1>2 DEF PlayedWasSent, OpenOutput, HasOutput
<1>5. Hushed(y)
  BY <1>1 DEF Hushed
<1>6. ResponseKept(x, y)
  BY <1>1, <1>2, <1>3, <1>4, <1>5 DEF ResponseKept
<1> QED BY <1>6 DEF y

-----------------------------------------------------------------------------
(* The handlers of inputs.                                                 *)

(* Inputs change, and nothing else.                                        *)
Touches(d, e) ==
  /\ Kept(d, e)
  /\ \A i \in Ids : e.inputs[i].response_id = d.inputs[i].response_id
  /\ e.responses = d.responses /\ e.conversation = d.conversation
  /\ Rest(d, e)

LEMMA TouchesInput ==
  ASSUME NEW d, NEW e, Good(d), NEW id \in Ids, NEW x, NEW graves,
         InputBecomes(d, e, id, x, graves),
         InputKept(d.inputs[id], x), x.response_id = d.inputs[id].response_id
  PROVE  Touches(d, e) /\ e.inputs[id] = x
<1>1. DOMAIN d.inputs = Ids
  BY Parts DEF Good
<1>2. Kept(d, e)
  BY <1>1, KeptByInput DEF InputBecomes, Rest
<1>3. \A i \in Ids : e.inputs[i].response_id = d.inputs[i].response_id
  BY <1>1 DEF InputBecomes
<1> QED BY <1>1, <1>2, <1>3 DEF Touches, InputBecomes

LEMMA TouchesStep ==
  ASSUME NEW d, NEW e, Touches(d, e)
  PROVE  Step(d, e)
<1>1. OthersStand(d, e) /\ Steady(d, e)
  BY DEF Touches, OthersStand, Steady, SameObjects, SameEndings, SameFate, SameTurn, Rest
<1> QED BY <1>1 DEF Step, Move, Touches

LEMMA TouchesSame == ASSUME NEW d PROVE Touches(d, d)
BY KeptByNone DEF Touches, Rest

LEMMA TouchesChain ==
  ASSUME NEW d, NEW e, NEW f, Touches(d, e), Touches(e, f)
  PROVE  Touches(d, f)
<1>1. Kept(d, f)
  BY KeptChain DEF Touches
<1> QED BY <1>1 DEF Touches, Rest

(* _terminalize_input, of an open input.                                   *)
LEMMA TerminalizeBecomes ==
  ASSUME NEW d, Good(d), NEW id \in Ids, NEW t \in Terminations,
         t.kind \in {"closed", "aborted"}
  PROVE  InputBecomes(d, Terminalize(d, id, t), id,
                      [d.inputs[id] EXCEPT !.terminal = t], {Grave("input", id, t.kind)})
<1> DEFINE x == [d.inputs[id] EXCEPT !.terminal = t]
           a == WithInput(d, id, x)
           e == WithTombstone(a, "input", id, t.kind)
<1>1. d \in Data /\ d.inputs[id] \in Inputs
  BY Parts DEF Good
<1>2. x \in Inputs
  BY <1>1, TerminalInputs
<1> HIDE DEF x
<1>3. a \in Data /\ InputBecomes(d, a, id, x, {})
  BY <1>1, <1>2, ByInput, WithInputParts
<1> HIDE DEF a
<1>4. Grave("input", id, t.kind) \in Tombstones
  BY NoneIds DEF Tombstones, Grave
<1>5. /\ e.inputs = a.inputs /\ e.responses = a.responses
      /\ e.conversation = a.conversation
      /\ e.tombstones = a.tombstones \cup {Grave("input", id, t.kind)} /\ Rest(a, e)
  BY <1>3, <1>4, ByTombstone
<1> HIDE DEF e
<1>6. InputBecomes(d, e, id, x, {Grave("input", id, t.kind)})
  BY <1>3, <1>5 DEF InputBecomes, Rest
<1> QED BY <1>6 DEF Terminalize, e, a, x

LEMMA TerminalizeTouches ==
  ASSUME NEW d, Good(d), NEW id \in Ids, NEW t \in Terminations,
         t.kind \in {"closed", "aborted"},
         d.inputs[id].conversation_id # 0, d.inputs[id].terminal = NoTerminal,
         t.kind = "closed" => t.end_frame = d.inputs[id].committed
  PROVE  /\ Touches(d, Terminalize(d, id, t))
         /\ Terminalize(d, id, t).inputs[id] = [d.inputs[id] EXCEPT !.terminal = t]
<1> DEFINE i == d.inputs[id]
           x == [i EXCEPT !.terminal = t]
<1>1. i \in Inputs
  BY Parts DEF Good
<1>2. /\ t # NoTerminal /\ i.conversation_id # 0 /\ i.terminal = NoTerminal
      /\ t.kind = "closed" => t.end_frame = i.committed
  BY DEF NoTerminal
<1> HIDE DEF i
<1>3. InputKept(i, x)
  BY <1>1, <1>2, InputTerminated
<1>4. x.response_id = i.response_id
  BY <1>1 DEF Inputs
<1>5. InputBecomes(d, Terminalize(d, id, t), id, x, {Grave("input", id, t.kind)})
  BY TerminalizeBecomes DEF i
<1> HIDE DEF x
<1>6. Touches(d, Terminalize(d, id, t)) /\ Terminalize(d, id, t).inputs[id] = x
  BY <1>3, <1>4, <1>5, TouchesInput DEF i
<1> QED BY <1>6 DEF x, i

(* An input is replaced.                                                   *)
LEMMA WithInputTouches ==
  ASSUME NEW d, Good(d), NEW id \in Ids, NEW x \in Inputs,
         InputKept(d.inputs[id], x), x.response_id = d.inputs[id].response_id
  PROVE  Touches(d, WithInput(d, id, x)) /\ WithInput(d, id, x).inputs[id] = x
<1>1. d \in Data
  BY DEF Good
<1> QED BY <1>1, ByInput, TouchesInput

(* input.abort.                                                            *)
LEMMA AbortInputStep ==
  ASSUME NEW d, Good(d), NEW m \in AnyInputAborts, CanAbortInput(d, m)
  PROVE  Step(d, AfterAbortInput(d, m))
<1>1. m.input_id \in Ids /\ m.conversation_id \in Ids /\ m.reason \in InputAbortReason
  BY DEF AnyInputAborts
<1>2. Aborted(m.reason) \in Terminations /\ Aborted(m.reason).kind = "aborted"
  BY <1>1 DEF Terminations, Aborted
<1>3. d.inputs[m.input_id].conversation_id # 0
  BY <1>1, NoneIds DEF CanAbortInput, KnownInput
<1>4. CASE d.inputs[m.input_id].terminal # NoTerminal
  BY <1>4, TouchesSame, TouchesStep DEF AfterAbortInput
<1>5. CASE d.inputs[m.input_id].terminal = NoTerminal
  <2>1. Touches(d, Terminalize(d, m.input_id, Aborted(m.reason)))
    BY <1>1, <1>2, <1>3, <1>5, TerminalizeTouches
  <2> QED BY <1>5, <2>1, TouchesStep DEF AfterAbortInput
<1> QED BY <1>4, <1>5

(* Committing at a boundary, and closing there.                            *)
LEMMA CommittedTouches ==
  ASSUME NEW d, Good(d), NEW id \in Ids, NEW end \in Nat,
         d.inputs[id].conversation_id # 0, d.inputs[id].terminal.kind # "closed",
         end \in {0} \cup d.inputs[id].boundaries
  PROVE  LET e == WithCommitted(d, id, end) IN
         /\ Touches(d, e)
         /\ e.inputs[id].committed = end
         /\ e.inputs[id].conversation_id = d.inputs[id].conversation_id
         /\ e.inputs[id].terminal = d.inputs[id].terminal
<1> DEFINE i == d.inputs[id]
           x == [i EXCEPT !.committed = end]
<1>1. i \in Inputs
  BY Parts DEF Good
<1> HIDE DEF i
<1>2. x \in Inputs
  BY <1>1, InputFields
<1>3. InputKept(i, x)
  BY <1>1, InputCommitted DEF i
<1>4. /\ x.response_id = i.response_id /\ x.committed = end
      /\ x.conversation_id = i.conversation_id /\ x.terminal = i.terminal
  BY <1>1 DEF Inputs
<1> HIDE DEF x
<1>5. Touches(d, WithInput(d, id, x)) /\ WithInput(d, id, x).inputs[id] = x
  BY <1>2, <1>3, <1>4, WithInputTouches DEF i
<1> QED BY <1>4, <1>5 DEF WithCommitted, x, i

LEMMA CommitAndCloseTouches ==
  ASSUME NEW d, Good(d), NEW id \in Ids, NEW end \in Nat, NEW reason \in InputCloseReason,
         d.inputs[id].conversation_id # 0, d.inputs[id].terminal = NoTerminal,
         end \in {0} \cup d.inputs[id].boundaries
  PROVE  Touches(d, Terminalize(WithCommitted(d, id, end), id, Closed(end, reason)))
<1> DEFINE a == WithCommitted(d, id, end)
           t == Closed(end, reason)
<1>1. d.inputs[id].terminal.kind # "closed"
  BY DEF NoTerminal
<1>2. /\ Good(a) /\ Touches(d, a) /\ a.inputs[id].committed = end
      /\ a.inputs[id].conversation_id # 0 /\ a.inputs[id].terminal = NoTerminal
  BY <1>1, CommittedGood, CommittedTouches
<1> HIDE DEF a
<1>3. t \in Terminations /\ t.kind = "closed" /\ t.end_frame = end
  BY DEF Terminations, Closed
<1> HIDE DEF t
<1>4. Touches(a, Terminalize(a, id, t))
  BY <1>2, <1>3, TerminalizeTouches
<1> QED BY <1>2, <1>4, TouchesChain DEF a, t

(* input.closed.                                                           *)
LEMMA CloseInputStep ==
  ASSUME NEW d, Good(d), NEW m \in AnyInputCloses, CanCloseInput(d, m)
  PROVE  Step(d, AfterCloseInput(d, m))
<1>1. /\ m.input_id \in Ids /\ m.conversation_id \in Ids /\ m.reason \in InputCloseReason
      /\ m.accepted_end_frame \in Nat
  BY DEF AnyInputCloses
<1>2. CASE d.inputs[m.input_id].terminal # NoTerminal
  BY <1>2, TouchesSame, TouchesStep DEF AfterCloseInput
<1>3. CASE d.inputs[m.input_id].terminal = NoTerminal
  <2>1. Closed(m.accepted_end_frame, m.reason) # NoTerminal
    BY DEF Closed, NoTerminal
  <2>2. m.accepted_end_frame \in {0} \cup d.inputs[m.input_id].boundaries
    BY <1>3, <2>1 DEF CanCloseInput
  <2>3. d.inputs[m.input_id].conversation_id # 0
    BY <1>1, NoneIds DEF CanCloseInput, KnownInput
  <2>4. Touches(d, Terminalize(WithCommitted(d, m.input_id, m.accepted_end_frame), m.input_id,
                               Closed(m.accepted_end_frame, m.reason)))
    BY <1>1, <1>3, <2>2, <2>3, CommitAndCloseTouches
  <2> QED BY <1>3, <2>4, TouchesStep DEF AfterCloseInput
<1> QED BY <1>2, <1>3

(* _commit_input_audio.                                                    *)
LEMMA CommitInputAudioStep ==
  ASSUME NEW d, Good(d), NEW id \in Ids, NEW end \in Nat, CanCommitInputAudio(d, id, end)
  PROVE  Step(d, AfterCommitInputAudio(d, id, end))
<1>1. /\ d.inputs[id].conversation_id # 0 /\ d.inputs[id].terminal.kind # "closed"
      /\ end \in {0} \cup d.inputs[id].boundaries
  BY DEF CanCommitInputAudio
<1>2. "max_duration" \in InputCloseReason
  BY DEF InputCloseReason
<1>3. CASE ClosesAtLimit(d, id, end)
  <2>1. d.inputs[id].terminal = NoTerminal
    BY <1>3 DEF ClosesAtLimit
  <2>2. Touches(d, Terminalize(WithCommitted(d, id, end), id, Closed(end, "max_duration")))
    BY <1>1, <1>2, <2>1, CommitAndCloseTouches
  <2> QED BY <1>3, <2>2, TouchesStep DEF AfterCommitInputAudio
<1>4. CASE ~ ClosesAtLimit(d, id, end)
  <2>1. Touches(d, WithCommitted(d, id, end))
    BY <1>1, CommittedTouches
  <2> QED BY <1>4, <2>1, TouchesStep DEF AfterCommitInputAudio
<1> QED BY <1>3, <1>4

(* Closing and transcribing an input that fails.                           *)
LEMMA CloseIfOpenTouches ==
  ASSUME NEW d, Good(d), NEW id \in Ids, d.inputs[id].conversation_id # 0
  PROVE  LET e == CloseIfOpen(d, id) IN
         /\ Touches(d, e)
         /\ e.inputs[id].conversation_id # 0
         /\ e.inputs[id].failure = d.inputs[id].failure
<1>1. CASE d.inputs[id].terminal # NoTerminal
  BY <1>1, TouchesSame DEF CloseIfOpen
<1>2. CASE d.inputs[id].terminal = NoTerminal
  <2> DEFINE t == FailedClose(d, id)
             x == [d.inputs[id] EXCEPT !.terminal = t]
  <2>1. d.inputs[id] \in Inputs
    BY Parts DEF Good
  <2>2. d.inputs[id].committed \in Nat /\ "failed" \in InputCloseReason
    BY <2>1 DEF Inputs, InputCloseReason
  <2>3. t \in {Closed(f, r) : f \in Nat, r \in InputCloseReason}
    BY <2>2 DEF FailedClose
  <2>4. t \in Terminations
    BY <2>3 DEF Terminations
  <2>7. t.kind = "closed" /\ t.end_frame = d.inputs[id].committed
    BY DEF FailedClose, Closed
  <2> HIDE DEF t
  <2>5. Touches(d, Terminalize(d, id, t)) /\ Terminalize(d, id, t).inputs[id] = x
    BY <1>2, <2>4, <2>7, TerminalizeTouches
  <2>6. x.failure = d.inputs[id].failure /\ x.conversation_id = d.inputs[id].conversation_id
    BY <2>1 DEF Inputs
  <2> QED BY <1>2, <2>5, <2>6 DEF CloseIfOpen, t
<1> QED BY <1>1, <1>2

LEMMA FinalizeIfMissingTouches ==
  ASSUME NEW d, Good(d), NEW id \in Ids, d.inputs[id].conversation_id # 0
  PROVE  LET e == FinalizeIfMissing(d, id) IN
         /\ Touches(d, e)
         /\ e.inputs[id].conversation_id # 0
         /\ e.inputs[id].failure = d.inputs[id].failure
         /\ e.inputs[id].final # "none"
<1> DEFINE i == d.inputs[id]
           v == IF i.final = "none" THEN "empty" ELSE i.final
           x == [i EXCEPT !.final = v]
<1>1. i \in Inputs
  BY Parts DEF Good
<1>2. v \in Texts \cup {"empty", "none"} /\ v # "none" /\ (i.final = "none" \/ v = i.final)
  BY <1>1 DEF Inputs
<1>3. WithInput(d, id, x) = FinalizeIfMissing(d, id)
  BY <1>1 DEF FinalizeIfMissing, Inputs
<1> HIDE DEF v, i
<1>4. x \in Inputs
  BY <1>1, <1>2, InputFields
<1>5. InputKept(i, x)
  BY <1>1, <1>2, InputTranscribed DEF i
<1>6. /\ x.response_id = i.response_id /\ x.final = v /\ x.failure = i.failure
      /\ x.conversation_id = i.conversation_id
  BY <1>1 DEF Inputs
<1> HIDE DEF x
<1>7. Touches(d, WithInput(d, id, x)) /\ WithInput(d, id, x).inputs[id] = x
  BY <1>4, <1>5, <1>6, WithInputTouches DEF i
<1> QED BY <1>2, <1>3, <1>6, <1>7 DEF i

(* _fail_input, of an input that did not fail yet.                         *)
LEMMA FailInputStep ==
  ASSUME NEW d, Good(d), NEW id \in Ids, NEW code \in InputErrorCode,
         d.inputs[id].conversation_id # 0, d.inputs[id].failure = "none"
  PROVE  Step(d, AfterFailInput(d, id, code))
<1> DEFINE a == CloseIfOpen(d, id)
           b == FinalizeIfMissing(a, id)
           x == [b.inputs[id] EXCEPT !.failure = code]
<1>1. /\ Good(a) /\ Touches(d, a) /\ a.inputs[id].terminal # NoTerminal
      /\ a.inputs[id].conversation_id # 0 /\ a.inputs[id].failure = "none"
  BY CloseIfOpenGood, CloseIfOpenTouches
<1> HIDE DEF a
<1>2. /\ Good(b) /\ Touches(a, b) /\ b.inputs[id].terminal # NoTerminal
      /\ b.inputs[id].conversation_id # 0 /\ b.inputs[id].failure = "none"
      /\ b.inputs[id].final # "none"
  BY <1>1, FinalizeIfMissingGood, FinalizeIfMissingTouches
<1> HIDE DEF b
<1>3. b.inputs[id] \in Inputs
  BY <1>2, Parts DEF Good
<1>4. x \in Inputs
  BY <1>3, InputFields
<1>5. x.response_id = b.inputs[id].response_id
  BY <1>3 DEF Inputs
<1>6. InputKept(b.inputs[id], x)
  BY <1>2, <1>3, InputFailed
<1> HIDE DEF x
<1>7. Touches(b, WithInput(b, id, x))
  BY <1>2, <1>4, <1>5, <1>6, WithInputTouches
<1>8. Touches(d, WithInput(b, id, x))
  BY <1>1, <1>2, <1>7, TouchesChain
<1> QED BY <1>8, TouchesStep DEF AfterFailInput, WithInputFailure, x, b, a

(* input.audio.                                                            *)
LEMMA InputAudioStep ==
  ASSUME NEW d, Good(d), NEW m \in AnyInputAudios, CanAcceptInputAudio(d, m)
  PROVE  Step(d, AfterInputAudio(d, m))
<1> DEFINE end == m.start_frame + m.frames
           i == d.inputs[m.input_id]
           x == [i EXCEPT !.received = end, !.boundaries = @ \cup {end}]
<1>1. /\ m.input_id \in Ids /\ m.conversation_id \in Ids
      /\ m.start_frame \in Nat /\ m.frames \in Nat /\ m.frames > 0
  BY DEF AnyInputAudios, Positive
<1>2. i \in Inputs
  BY <1>1, Parts DEF Good
<1>3. i.conversation_id # 0 /\ m.start_frame = i.received
  BY <1>1, NoneIds DEF CanAcceptInputAudio, KnownInput
<1>4. CASE end > MaxInputFrames
  <2>1. "input_too_long" \in InputErrorCode
    BY DEF InputErrorCode
  <2>2. MaxInputFrames \in Nat /\ end \in Nat
    BY <1>1, ProtocolAssumption
  <2>3. ~ (end <= MaxInputFrames)
    BY <1>4, <2>2
  <2>4. i.failure = "none"
    BY <2>3 DEF CanAcceptInputAudio
  <2> QED BY <1>1, <1>3, <1>4, <2>1, <2>4, FailInputStep DEF AfterInputAudio
<1>5. CASE ~ (end > MaxInputFrames)
  <2>1. end \in Nat /\ end > i.received /\ end <= MaxInputFrames
    <3>1. MaxInputFrames \in Nat
      BY ProtocolAssumption
    <3> QED BY <1>1, <1>3, <1>5, <3>1
  <2> HIDE DEF end
  <2>2. x \in Inputs /\ x.response_id = i.response_id
    BY <1>2, <2>1 DEF Inputs
  <2>3. InputKept(i, x)
    BY <1>2, <1>3, <2>1, InputReceived
  <2> HIDE DEF x
  <2>4. Touches(d, WithInput(d, m.input_id, x))
    BY <1>1, <2>2, <2>3, WithInputTouches
  <2> QED BY <1>5, <2>4, TouchesStep DEF AfterInputAudio, x, end
<1> QED BY <1>4, <1>5

(* transcript.update and transcript.final.                                 *)
LEMMA TranscriptUpdateStep ==
  ASSUME NEW d, Good(d), NEW m \in AnyTranscriptUpdates, CanAcceptTranscriptUpdate(d, m)
  PROVE  Step(d, AfterTranscriptUpdate(d, m))
<1> DEFINE i == d.inputs[m.input_id]
           v == [revision |-> m.revision, text |-> m.text]
           x == [i EXCEPT !.update = v]
<1>1. /\ m.input_id \in Ids /\ m.conversation_id \in Ids
      /\ m.revision \in Nat /\ m.text \in Texts
  BY DEF AnyTranscriptUpdates, Positive
<1>2. i \in Inputs
  BY <1>1, Parts DEF Good
<1>3. i.conversation_id # 0
  BY <1>1, NoneIds DEF CanAcceptTranscriptUpdate, KnownInput
<1>4. x \in Inputs /\ x.response_id = i.response_id
  BY <1>1, <1>2 DEF Inputs
<1>5. InputKept(i, x)
  BY <1>2, <1>3, InputUpdated
<1> HIDE DEF x
<1>6. Touches(d, WithInput(d, m.input_id, x))
  BY <1>1, <1>4, <1>5, WithInputTouches
<1> QED BY <1>6, TouchesStep DEF AfterTranscriptUpdate, x

LEMMA TranscriptFinalStep ==
  ASSUME NEW d, Good(d), NEW m \in AnyTranscriptFinals, CanAcceptTranscriptFinal(d, m)
  PROVE  Step(d, AfterTranscriptFinal(d, m))
<1> DEFINE i == d.inputs[m.input_id]
           x == [i EXCEPT !.final = m.text]
<1>1. /\ m.input_id \in Ids /\ m.conversation_id \in Ids
      /\ m.text \in Texts \cup {"empty", "none"} /\ m.text # "none"
  BY ProtocolAssumption DEF AnyTranscriptFinals
<1>2. i \in Inputs
  BY <1>1, Parts DEF Good
<1>3. i.conversation_id # 0 /\ (i.final = "none" \/ m.text = i.final)
  BY <1>1, NoneIds DEF CanAcceptTranscriptFinal, KnownInput
<1>4. x \in Inputs
  BY <1>1, <1>2, InputFields
<1>5. x.response_id = i.response_id
  BY <1>2 DEF Inputs
<1>6. InputKept(i, x)
  BY <1>1, <1>2, <1>3, InputTranscribed
<1> HIDE DEF x
<1>7. Touches(d, WithInput(d, m.input_id, x))
  BY <1>1, <1>4, <1>5, <1>6, WithInputTouches
<1> QED BY <1>7, TouchesStep DEF AfterTranscriptFinal, x
-----------------------------------------------------------------------------
(* The end of the current response.                                        *)

(* A response is replaced twice.                                           *)
LEMMA ResponseTwice ==
  ASSUME NEW d, NEW a, NEW e, NEW id \in Ids, NEW w, NEW x, NEW y, NEW z, NEW graves,
         ResponseBecomes(d, a, id, w, z, {}), ResponseBecomes(a, e, id, x, y, graves)
  PROVE  ResponseBecomes(d, e, id, x, y, graves)
<1>1. /\ a.responses = [d.responses EXCEPT ![id] = w] /\ a.inputs = d.inputs
      /\ a.tombstones = d.tombstones /\ Rest(d, a)
  BY DEF ResponseBecomes
<1>2. /\ e.responses = [a.responses EXCEPT ![id] = x] /\ e.inputs = a.inputs
      /\ e.conversation = y /\ e.tombstones = a.tombstones \cup graves /\ Rest(a, e)
  BY DEF ResponseBecomes
<1>3. [[d.responses EXCEPT ![id] = w] EXCEPT ![id] = x] = [d.responses EXCEPT ![id] = x]
  OBVIOUS
<1> QED BY <1>1, <1>2, <1>3 DEF ResponseBecomes, Rest

(* _cancel_response, of the current response.                              *)
CancelGraves(id, r) ==
  (IF OpenOutput(r) THEN {Grave("output", r.output.id, "cancelled")} ELSE {})
  \cup {Grave("response", id, "cancelled")}

LEMMA CancelBecomes ==
  ASSUME NEW d, Good(d), NEW m, m.response_id \in Ids,
         m.reason \in ResponseCancelReason,
         d.conversation.response_id = m.response_id
  PROVE  LET r == d.responses[m.response_id] IN
         ResponseBecomes(d, AfterCancelResponse(d, m), m.response_id,
                         CancelledResponse(r, m.reason),
                         Released(d.conversation, 0, CancellationEnd(d.conversation, r, m.reason)),
                         CancelGraves(m.response_id, r))
<1> DEFINE id == m.response_id
           r == d.responses[id]
           c == d.conversation
           buried == IF OpenOutput(r)
                     THEN WithTombstone(d, "output", r.output.id, "cancelled") ELSE d
           x == CancelledResponse(r, m.reason)
           y == Released(c, 0, CancellationEnd(c, r, m.reason))
           b == WithResponse(buried, id, x)
           a == WithConversation(b, y)
           e == WithTombstone(a, "response", id, "cancelled")
           first == IF OpenOutput(r) THEN {Grave("output", r.output.id, "cancelled")} ELSE {}
<1>1. d \in Data /\ r \in Responses /\ c \in Conversations
  BY Parts DEF Good
<1>2. Unfinished(r) /\ c.input_id = r.input_id
  BY NoInputDuringResponse
<1>3. /\ buried \in Data
      /\ buried.inputs = d.inputs /\ buried.responses = d.responses
      /\ buried.conversation = c /\ buried.tombstones = d.tombstones \cup first
      /\ Rest(d, buried)
  <2>1. CASE OpenOutput(r)
    <3>1. Grave("output", r.output.id, "cancelled") \in Tombstones
      BY <1>1 DEF Responses, Outputs, Tombstones, Grave
    <3>2. WithTombstone(d, "output", r.output.id, "cancelled") \in Data
      BY <1>1, <3>1, WithTombstoneParts DEF Grave
    <3> QED BY <1>1, <2>1, <3>1, <3>2, ByTombstone
  <2>2. CASE ~ OpenOutput(r)
    BY <1>1, <2>2 DEF Rest
  <2> QED BY <2>1, <2>2
<1>4. x \in Responses
  BY <1>1 DEF CancelledResponse, Responses, Outputs
<1>5. CancellationEnd(c, r, m.reason) \in ConversationEndReason \cup {"none"}
  BY DEF CancellationEnd, CancellationEndReason, FailureEndReason, ConversationEndReason
<1>6. y \in Conversations
  BY <1>1, <1>5, NoneIds, ReleasedConversation
<1>7. (IF m.reason = "barge_in" /\ c.input_id \notin {0, r.input_id}
       THEN c.input_id ELSE 0) = 0
  BY <1>2
<1>8. e = AfterCancelResponse(d, m)
  <2>1. ~ IsCancelled(r)
    BY <1>2 DEF IsCancelled, Unfinished, ResponseCancelReason
  <2> QED BY <1>7, <2>1 DEF AfterCancelResponse
<1> HIDE DEF buried, x, y, first
<1>9. /\ b \in Data /\ b.inputs = d.inputs
      /\ b.responses = [d.responses EXCEPT ![id] = x]
      /\ b.tombstones = d.tombstones \cup first /\ Rest(d, b)
  <2>1. b \in Data
    BY <1>3, <1>4, WithResponseParts
  <2>2. ResponseBecomes(buried, b, id, x, buried.conversation, {})
    BY <1>3, <1>4, ByResponse
  <2> HIDE DEF b
  <2> QED BY <1>3, <2>1, <2>2 DEF ResponseBecomes, Rest
<1> HIDE DEF b
<1>10. /\ a \in Data /\ a.inputs = d.inputs /\ a.conversation = y
       /\ a.responses = [d.responses EXCEPT ![id] = x]
       /\ a.tombstones = d.tombstones \cup first /\ Rest(d, a)
  <2>1. a \in Data
    BY <1>6, <1>9, WithConversationParts
  <2>2. /\ a.inputs = b.inputs /\ a.responses = b.responses /\ a.conversation = y
        /\ a.tombstones = b.tombstones /\ Rest(b, a)
    BY <1>6, <1>9, ByConversation
  <2> HIDE DEF a
  <2> QED BY <1>9, <2>1, <2>2 DEF Rest
<1> HIDE DEF a
<1>11. Grave("response", id, "cancelled") \in Tombstones
  BY NoneIds DEF Tombstones, Grave
<1>12. /\ e.inputs = a.inputs /\ e.responses = a.responses
       /\ e.conversation = a.conversation
       /\ e.tombstones = a.tombstones \cup {Grave("response", id, "cancelled")} /\ Rest(a, e)
  BY <1>10, <1>11, ByTombstone
<1> HIDE DEF e
<1>13. CancelGraves(id, r) = first \cup {Grave("response", id, "cancelled")}
  BY DEF CancelGraves, first
<1>14. ResponseBecomes(d, e, id, x, y, CancelGraves(id, r))
  BY <1>10, <1>12, <1>13 DEF ResponseBecomes, Rest
<1> QED BY <1>8, <1>14 DEF x, y

(* The fields of a released conversation.                                  *)
LEMMA ReleasedFields ==
  ASSUME NEW c \in Conversations, NEW i, NEW end
  PROVE  LET y == Released(c, i, end) IN
         /\ y.id = c.id /\ y.cancel = c.cancel /\ y.failure = c.failure
         /\ y.input_id = i /\ y.response_id = 0 /\ y.expected_end_reason = end
BY DEF Released, Conversations

(* The current response becomes one that is over.                          *)
LEMMA ReleaseStep ==
  ASSUME NEW d, NEW e, Good(d), NEW id \in Ids, NEW x, NEW end, NEW graves,
         d.conversation.response_id = id,
         ResponseBecomes(d, e, id, x, Released(d.conversation, 0, end), graves),
         ResponseKept(d.responses[id], x),
         x.terminal = "barge_in" => end = "none",
         x.terminal = "ended" /\ x.end_conversation => end = "completed"
  PROVE  Step(d, e)
<1>1. Kept(d, e) /\ OthersStand(d, e) /\ SameObjects(d, e) /\ SameEndings(d, e)
  BY ResponseKeeps
<1>2. DOMAIN d.responses = Ids /\ d.conversation \in Conversations
  BY Parts DEF Good
<1>3. e.responses[id] = x
  BY <1>2 DEF ResponseBecomes
<1>4. /\ e.conversation.id = d.conversation.id
      /\ e.conversation.cancel = d.conversation.cancel
      /\ e.conversation.failure = d.conversation.failure
      /\ e.conversation.input_id = 0 /\ e.conversation.response_id = 0
      /\ e.conversation.expected_end_reason = end
  BY <1>2, ReleasedFields DEF ResponseBecomes
<1>5. id # 0
  BY NoneIds
<1>6. Releases(d, e)
  BY <1>1, <1>3, <1>4, <1>5 DEF Releases, SameFate
<1> QED BY <1>1, <1>6 DEF Step, Move

(* response.cancelled.                                                     *)
LEMMA CancelResponseStep ==
  ASSUME NEW d, Good(d), NEW m, m.response_id \in Ids,
         m.reason \in ResponseCancelReason, CanCancelResponse(d, m)
  PROVE  Step(d, AfterCancelResponse(d, m))
<1> DEFINE id == m.response_id
           r == d.responses[id]
           c == d.conversation
           x == CancelledResponse(r, m.reason)
           end == CancellationEnd(c, r, m.reason)
<1>1. CASE IsCancelled(r)
  BY <1>1, QuietSame DEF AfterCancelResponse, Rest, SameFate, SameTurn
<1>2. CASE ~ IsCancelled(r)
  <2>1. c.response_id = id /\ (c.cancel # "none" \/ c.failure # "none"
                                 => m.reason = "conversation_cancelled")
    BY <1>2 DEF CanCancelResponse, IsCancelled
  <2>2. ResponseBecomes(d, AfterCancelResponse(d, m), id, x, Released(c, 0, end),
                        CancelGraves(id, r))
    BY <2>1, CancelBecomes
  <2>3. r \in Responses /\ r.conversation_id # 0
    BY <2>1, Parts, NoInputDuringResponse DEF Good, Unfinished
  <2>4. ResponseKept(r, x)
    BY <1>2, <2>3, ResponseCancel
  <2>5. x.terminal = m.reason
    BY <2>3 DEF CancelledResponse, Responses
  <2>6. m.reason = "barge_in" => end = "none"
    BY <2>1 DEF CancellationEnd, CancellationEndReason
  <2>7. m.reason # "ended"
    BY DEF ResponseCancelReason
  <2> HIDE DEF x, end
  <2> QED BY <2>1, <2>2, <2>4, <2>5, <2>6, <2>7, ReleaseStep
<1> QED BY <1>1, <1>2

(* _complete_response, of the current response.                            *)
LEMMA CompleteStep ==
  ASSUME NEW d, Good(d), NEW id \in Ids, NEW x \in Responses,
         d.conversation.response_id = id, ResponseKept(d.responses[id], x),
         x.terminal = "ended"
  PROVE  LET end == IF x.end_conversation THEN "completed" ELSE "none" IN
         /\ ResponseBecomes(d, CompleteResponse(WithResponse(d, id, x), id), id, x,
                            Released(d.conversation, 0, end),
                            {Grave("response", id, "completed")})
         /\ Step(d, CompleteResponse(WithResponse(d, id, x), id))
<1> DEFINE a == WithResponse(d, id, x)
           end == IF x.end_conversation THEN "completed" ELSE "none"
           y == Released(a.conversation, 0, end)
           b == WithConversation(a, y)
           e == WithTombstone(b, "response", id, "completed")
           g == {Grave("response", id, "completed")}
<1>1. d \in Data /\ d.conversation \in Conversations /\ DOMAIN d.responses = Ids
  BY Parts DEF Good
<1>2. a \in Data /\ ResponseBecomes(d, a, id, x, d.conversation, {})
  BY <1>1, WithResponseParts, ByResponse
<1> HIDE DEF a
<1>3. a.responses[id] = x /\ a.conversation = d.conversation
  BY <1>1, <1>2 DEF ResponseBecomes
<1>4. end \in ConversationEndReason \cup {"none"}
  BY DEF ConversationEndReason
<1>5. CompleteResponse(a, id) = e
  BY <1>3 DEF CompleteResponse
<1> HIDE DEF end
<1>6. y \in Conversations /\ y = Released(d.conversation, 0, end)
  BY <1>1, <1>3, <1>4, NoneIds, ReleasedConversation
<1> HIDE DEF y
<1>7. /\ b \in Data /\ b.inputs = a.inputs /\ b.responses = a.responses
      /\ b.conversation = y /\ b.tombstones = a.tombstones /\ Rest(a, b)
  BY <1>2, <1>6, WithConversationParts, ByConversation
<1> HIDE DEF b
<1>8. Grave("response", id, "completed") \in Tombstones
  BY NoneIds DEF Tombstones, Grave
<1>9. /\ e.inputs = b.inputs /\ e.responses = b.responses
      /\ e.conversation = b.conversation
      /\ e.tombstones = b.tombstones \cup g /\ Rest(b, e)
  BY <1>7, <1>8, ByTombstone
<1> HIDE DEF e, g
<1>10. ResponseBecomes(d, e, id, x, Released(d.conversation, 0, end), g)
  BY <1>2, <1>6, <1>7, <1>9 DEF ResponseBecomes, Rest
<1>11. x.terminal = "ended" /\ x.end_conversation => end = "completed"
  BY DEF end
<1>12. Step(d, e)
  BY <1>10, <1>11, ReleaseStep
<1> QED BY <1>5, <1>10, <1>12 DEF a, end, g
-----------------------------------------------------------------------------
(* The handlers of responses and outputs.                                  *)

(* A response is rewritten without reaching a terminal.                    *)
LEMMA RewriteStep ==
  ASSUME NEW d, Good(d), NEW id \in Ids, NEW x \in Responses,
         ResponseKept(d.responses[id], x), x.terminal = d.responses[id].terminal
  PROVE  Step(d, WithResponse(d, id, x))
<1>1. d \in Data
  BY DEF Good
<1>2. ResponseBecomes(d, WithResponse(d, id, x), id, x, d.conversation, {})
  BY <1>1, ByResponse
<1>3. WithResponse(d, id, x).conversation = d.conversation
  BY <1>2 DEF ResponseBecomes
<1> QED BY <1>2, <1>3, QuietResponse DEF SameFate, SameTurn

(* response.text.delta and response.text.final.                            *)
LEMMA TextDeltaStep ==
  ASSUME NEW d, Good(d), NEW m \in AnyTextDeltas, CanAcceptTextDelta(d, m)
  PROVE  Step(d, AfterTextDelta(d, m))
<1> DEFINE r == d.responses[m.response_id]
           x == [r EXCEPT !.text = Append(@, m.text)]
<1>1. m.response_id \in Ids /\ m.conversation_id \in Ids /\ m.text \in Texts
  BY DEF AnyTextDeltas
<1>2. r \in Responses /\ r.text \in Seq(Texts)
  BY <1>1, Parts DEF Good, Responses
<1>3. r.conversation_id # 0
  BY <1>1, NoneIds DEF CanAcceptTextDelta, KnownResponse
<1>4. x = [r EXCEPT !.text = Append(r.text, m.text)]
  OBVIOUS
<1>5. Append(r.text, m.text) \in Seq(Texts)
  BY <1>1, <1>2
<1>6. x \in Responses /\ x.terminal = r.terminal
  BY <1>2, <1>5 DEF Responses
<1>7. ResponseKept(r, x)
  BY <1>2, <1>3, <1>4, ResponseWritten
<1> HIDE DEF x
<1>8. Step(d, WithResponse(d, m.response_id, x))
  BY <1>1, <1>6, <1>7, RewriteStep
<1> QED BY <1>8 DEF AfterTextDelta, x

LEMMA TextFinalStep ==
  ASSUME NEW d, Good(d), NEW m \in AnyTextFinals, CanAcceptTextFinal(d, m)
  PROVE  Step(d, AfterTextFinal(d, m))
<1> DEFINE r == d.responses[m.response_id]
           x == [r EXCEPT !.text_final = TRUE]
<1>1. m.response_id \in Ids /\ m.conversation_id \in Ids
  BY DEF AnyTextFinals
<1>2. r \in Responses
  BY <1>1, Parts DEF Good
<1>3. r.conversation_id # 0
  BY <1>1, NoneIds DEF CanAcceptTextFinal, KnownResponse
<1>4. x \in Responses /\ x.terminal = r.terminal
  BY <1>2 DEF Responses
<1>5. ResponseKept(r, x)
  BY <1>2, <1>3, ResponseWrittenOut
<1> HIDE DEF x
<1>6. Step(d, WithResponse(d, m.response_id, x))
  BY <1>1, <1>4, <1>5, RewriteStep
<1> QED BY <1>6 DEF AfterTextFinal, x

(* output.start.                                                           *)
OutputGraves(r, id) == IF Stale(r) THEN {Grave("output", id, "cancelled")} ELSE {}

LEMMA StartOutputBecomes ==
  ASSUME NEW d, Good(d), NEW m \in AnyOutputStarts, CanStartOutput(d, m)
  PROVE  LET r == d.responses[m.response_id]
             t == IF Stale(r) THEN "cancelled" ELSE "none"
             o == [NoOutput EXCEPT !.id = m.output_id, !.terminal = t]
             e == AfterStartOutput(d, m)
         IN
         /\ ResponseBecomes(d, e, m.response_id, [r EXCEPT !.output = o], e.conversation,
                            OutputGraves(r, m.output_id))
         /\ SameFate(d, e) /\ SameTurn(d, e)
<1> DEFINE id == m.response_id
           r == d.responses[id]
           t == IF Stale(r) THEN "cancelled" ELSE "none"
           o == [NoOutput EXCEPT !.id = m.output_id, !.terminal = t]
           x == [r EXCEPT !.output = o]
           a == WithResponse(d, id, x)
           b == [a EXCEPT !.output_ids = @ + 1]
           y == [d.conversation EXCEPT !.output_id = m.output_id]
           e == AfterStartOutput(d, m)
<1>1. id \in Ids /\ m.output_id \in Ids
  BY DEF AnyOutputStarts
<1>2. d \in Data /\ r \in Responses /\ d.conversation \in Conversations
  BY <1>1, Parts DEF Good
<1>3. t \in {"none", "cancelled"} /\ m.output_id = d.output_ids
  BY DEF CanStartOutput
<1>4. e = IF Stale(r) THEN WithTombstone(b, "output", m.output_id, "cancelled")
                      ELSE WithConversation(b, y)
  BY DEF AfterStartOutput
<1> HIDE DEF t
<1>5. o \in Outputs
  BY <1>1, <1>3, NoneIds, EmptyRecords DEF Outputs, NoOutput
<1> HIDE DEF o
<1>6. x \in Responses
  BY <1>2, <1>5 DEF Responses
<1> HIDE DEF x
<1>7. a \in Data /\ ResponseBecomes(d, a, id, x, d.conversation, {}) /\ SameRest(d, a)
  BY <1>1, <1>2, <1>6, WithResponseParts, ByResponse
<1> HIDE DEF a
<1>8. a.output_ids + 1 \in NextIds
  BY <1>1, <1>3, <1>7, NoneIds DEF SameRest
<1>9. /\ b \in Data /\ b.inputs = a.inputs /\ b.responses = a.responses
      /\ b.conversation = a.conversation /\ b.tombstones = a.tombstones /\ Rest(a, b)
  BY <1>7, <1>8 DEF Data, Rest
<1> HIDE DEF b
<1>10. ResponseBecomes(d, b, id, x, d.conversation, {})
  BY <1>7, <1>9 DEF ResponseBecomes, Rest
<1> HIDE DEF e
<1>11. /\ ResponseBecomes(d, e, id, x, e.conversation, OutputGraves(r, m.output_id))
       /\ SameFate(d, e) /\ SameTurn(d, e)
  <2>1. CASE Stale(r)
    <3> DEFINE g == {Grave("output", m.output_id, "cancelled")}
    <3>1. Grave("output", m.output_id, "cancelled") \in Tombstones
      BY <1>1, NoneIds DEF Tombstones, Grave
    <3>2. /\ e.inputs = b.inputs /\ e.responses = b.responses
          /\ e.conversation = b.conversation /\ e.tombstones = b.tombstones \cup g /\ Rest(b, e)
      BY <1>4, <1>9, <2>1, <3>1, ByTombstone
    <3>3. OutputGraves(r, m.output_id) = g
      BY <2>1 DEF OutputGraves
    <3> HIDE DEF g
    <3> QED BY <1>10, <3>2, <3>3 DEF ResponseBecomes, Rest, SameFate, SameTurn
  <2>2. CASE ~ Stale(r)
    <3>1. /\ y \in Conversations /\ y.id = d.conversation.id
          /\ y.cancel = d.conversation.cancel /\ y.failure = d.conversation.failure
          /\ y.input_id = d.conversation.input_id
          /\ y.response_id = d.conversation.response_id
          /\ y.expected_end_reason = d.conversation.expected_end_reason
      BY <1>1, <1>2, NoneIds DEF Conversations
    <3> HIDE DEF y
    <3>2. /\ e.inputs = b.inputs /\ e.responses = b.responses
          /\ e.conversation = y /\ e.tombstones = b.tombstones /\ Rest(b, e)
      BY <1>4, <1>9, <2>2, <3>1, ByConversation
    <3>3. OutputGraves(r, m.output_id) = {}
      BY <2>2 DEF OutputGraves
    <3> QED BY <1>10, <3>1, <3>2, <3>3 DEF ResponseBecomes, Rest, SameFate, SameTurn
  <2> QED BY <2>1, <2>2
<1> QED BY <1>11 DEF e, x, o, t

LEMMA StartOutputStep ==
  ASSUME NEW d, Good(d), NEW m \in AnyOutputStarts, CanStartOutput(d, m)
  PROVE  Step(d, AfterStartOutput(d, m))
<1> DEFINE r == d.responses[m.response_id]
           t == IF Stale(r) THEN "cancelled" ELSE "none"
           o == [NoOutput EXCEPT !.id = m.output_id, !.terminal = t]
           x == [r EXCEPT !.output = o]
           e == AfterStartOutput(d, m)
<1>1. m.response_id \in Ids /\ m.conversation_id \in Ids
  BY DEF AnyOutputStarts
<1>2. r \in Responses /\ EndRecorded(r)
  BY <1>1, Parts DEF Good, Turns, ResponseTurn
<1>3. r.conversation_id # 0 /\ r.output = NoOutput /\ Writable(r)
  BY <1>1, NoneIds DEF CanStartOutput, KnownResponse
<1>4. /\ ResponseBecomes(d, e, m.response_id, x, e.conversation, OutputGraves(r, m.output_id))
      /\ SameFate(d, e) /\ SameTurn(d, e)
  BY StartOutputBecomes
<1> HIDE DEF e
<1>5. o.received = 0 /\ o.terminal = t
  BY DEF NoOutput
<1> HIDE DEF o
<1>6. ResponseKept(r, x)
  BY <1>2, <1>3, <1>5, OutputStarted
<1>7. x.terminal = r.terminal
  BY <1>2 DEF Responses
<1> HIDE DEF x
<1>8. Step(d, e)
  BY <1>1, <1>4, <1>6, <1>7, QuietResponse
<1> QED BY <1>8 DEF e

(* output.audio.                                                           *)
LEMMA OutputAudioStep ==
  ASSUME NEW d, Good(d), NEW m \in AnyOutputAudios, CanAcceptOutputAudio(d, m)
  PROVE  Step(d, AfterOutputAudio(d, m))
<1> DEFINE r == d.responses[m.response_id]
           x == [r EXCEPT !.output.received = @ + m.frames]
<1>1. m.response_id \in Ids /\ m.conversation_id \in Ids /\ m.frames \in Nat
      /\ m.output_id \in Ids
  BY DEF AnyOutputAudios, Positive
<1>2. r \in Responses /\ r.output \in Outputs
  BY <1>1, Parts DEF Good, Responses
<1>3. r.conversation_id # 0 /\ r.output.terminal # "ended" /\ r.output # NoOutput
  BY <1>1, NoneIds DEF CanAcceptOutputAudio, KnownOutput, KnownResponse, NoOutput
<1>4. x \in Responses /\ x.terminal = r.terminal
  <2> DEFINE o == [r.output EXCEPT !.received = @ + m.frames]
  <2>1. o \in Outputs
    BY <1>1, <1>2 DEF Outputs
  <2>2. x = [r EXCEPT !.output = o]
    BY <1>2 DEF Responses, Outputs
  <2> HIDE DEF o, x
  <2> QED BY <1>2, <2>1, <2>2 DEF Responses
<1>5. ResponseKept(r, x)
  BY <1>1, <1>2, <1>3, OutputReceived
<1> HIDE DEF x
<1>6. Step(d, WithResponse(d, m.response_id, x))
  BY <1>1, <1>4, <1>5, RewriteStep
<1> QED BY <1>6 DEF AfterOutputAudio, x

(* output.end, of an output that was not silenced.                         *)
LEMMA EndOutputBecomes ==
  ASSUME NEW d, Good(d), NEW m \in AnyOutputEnds, CanEndOutput(d, m),
         d.responses[m.response_id].output.terminal # "ended",
         ~ Stale(d.responses[m.response_id])
  PROVE  LET r == d.responses[m.response_id]
             x == [r EXCEPT !.output = [@ EXCEPT !.terminal = "ended",
                                                 !.total = m.total_frames]]
         IN
         /\ x \in Responses
         /\ ResponseBecomes(d, AfterEndOutput(d, m), m.response_id, x, d.conversation,
                            {Grave("output", m.output_id, "ended")})
<1> DEFINE r == d.responses[m.response_id]
           x == [r EXCEPT !.output = [@ EXCEPT !.terminal = "ended", !.total = m.total_frames]]
           a == WithResponse(d, m.response_id, x)
           e == WithTombstone(a, "output", m.output_id, "ended")
           g == {Grave("output", m.output_id, "ended")}
<1>1. m.response_id \in Ids /\ m.output_id \in Ids /\ m.total_frames \in Nat
  BY DEF AnyOutputEnds
<1>2. d \in Data /\ r \in Responses
  BY <1>1, Parts DEF Good
<1>3. x \in Responses
  BY <1>1, <1>2 DEF Responses, Outputs
<1>4. AfterEndOutput(d, m) = e
  BY DEF AfterEndOutput
<1> HIDE DEF x
<1>5. a \in Data /\ ResponseBecomes(d, a, m.response_id, x, d.conversation, {})
  BY <1>1, <1>2, <1>3, WithResponseParts, ByResponse
<1> HIDE DEF a
<1>6. Grave("output", m.output_id, "ended") \in Tombstones
  BY <1>1, NoneIds DEF Tombstones, Grave
<1>7. /\ e.inputs = a.inputs /\ e.responses = a.responses
      /\ e.conversation = a.conversation /\ e.tombstones = a.tombstones \cup g /\ Rest(a, e)
  BY <1>5, <1>6, ByTombstone
<1> HIDE DEF e, g
<1>8. ResponseBecomes(d, e, m.response_id, x, d.conversation, g)
  BY <1>5, <1>7 DEF ResponseBecomes, Rest
<1> QED BY <1>3, <1>4, <1>8 DEF x, g

LEMMA EndOutputStep ==
  ASSUME NEW d, Good(d), NEW m \in AnyOutputEnds, CanEndOutput(d, m)
  PROVE  Step(d, AfterEndOutput(d, m))
<1> DEFINE r == d.responses[m.response_id]
           x == [r EXCEPT !.output = [@ EXCEPT !.terminal = "ended", !.total = m.total_frames]]
           e == AfterEndOutput(d, m)
<1>1. m.response_id \in Ids /\ m.conversation_id \in Ids
  BY DEF AnyOutputEnds
<1>2. CASE r.output.terminal = "ended" \/ Stale(r)
  BY <1>2, QuietSame DEF AfterEndOutput, Rest, SameFate, SameTurn
<1>3. CASE ~ (r.output.terminal = "ended" \/ Stale(r))
  <2>0. r.output.terminal # "ended" /\ ~ Stale(r)
    BY <1>3
  <2>1. /\ r.conversation_id # 0 /\ m.total_frames # 0
        /\ m.total_frames = r.output.received
    BY <1>1, <1>3, NoneIds DEF CanEndOutput, KnownOutput, KnownResponse
  <2>2. r \in Responses
    BY <1>1, Parts DEF Good
  <2>3. ResponseBecomes(d, e, m.response_id, x, d.conversation,
                        {Grave("output", m.output_id, "ended")})
    BY <2>0, EndOutputBecomes, Zenon
  <2>4. ResponseKept(r, x)
    BY <2>0, <2>1, <2>2, OutputEnded, Zenon
  <2>5. x.terminal = r.terminal
    BY <2>2 DEF Responses
  <2> HIDE DEF e, x
  <2>6. e.conversation = d.conversation
    BY <2>3 DEF ResponseBecomes
  <2>7. Step(d, e)
    BY <1>1, <2>3, <2>4, <2>5, <2>6, QuietResponse DEF SameFate, SameTurn
  <2> QED BY <2>7 DEF e
<1> QED BY <1>2, <1>3

(* response.end.                                                           *)
LEMMA EndResponseStep ==
  ASSUME NEW d, Good(d), NEW m \in AnyResponseEnds, CanEndResponse(d, m)
  PROVE  Step(d, AfterEndResponse(d, m))
<1> DEFINE id == m.response_id
           r == d.responses[id]
           x == [r EXCEPT !.end = TRUE, !.terminal = "ended"]
<1>1. id \in Ids /\ m.conversation_id \in Ids
  BY DEF AnyResponseEnds
<1>2. r \in Responses
  BY <1>1, Parts DEF Good
<1>3. CASE r.end
  BY <1>3, QuietSame DEF AfterEndResponse, Rest, SameFate, SameTurn
<1>4. CASE ~ r.end
  <2>1. /\ r.terminal = "none" /\ r.conversation_id # 0
        /\ r.output # NoOutput => r.output.terminal = "ended"
    BY <1>1, <1>4, NoneIds DEF CanEndResponse, KnownResponse
  <2>2. Unfinished(r)
    BY <2>1 DEF Unfinished
  <2>3. d.conversation.response_id = id
    BY <1>1, <2>2 DEF Good, Turns, ResponseTurn
  <2>4. x \in Responses /\ x.terminal = "ended"
    BY <1>2 DEF Responses
  <2>5. ResponseKept(r, x)
    BY <1>2, <2>1, ResponseEnded
  <2>6. AfterEndResponse(d, m) =
          IF r.output = NoOutput \/ r.playback.kind = "finished"
          THEN CompleteResponse(WithResponse(d, id, x), id)
          ELSE WithResponse(d, id, x)
    BY <1>4 DEF AfterEndResponse
  <2> HIDE DEF x
  <2>7. Step(d, CompleteResponse(WithResponse(d, id, x), id))
    BY <1>1, <2>3, <2>4, <2>5, CompleteStep
  <2>8. Step(d, WithResponse(d, id, x))
    <3>1. d \in Data
      BY DEF Good
    <3>2. ResponseBecomes(d, WithResponse(d, id, x), id, x, d.conversation, {})
      BY <1>1, <2>4, <3>1, ByResponse
    <3>3. WithResponse(d, id, x).conversation = d.conversation
      BY <3>2 DEF ResponseBecomes
    <3> QED BY <1>1, <2>3, <2>5, <3>2, <3>3, QuietResponse DEF SameFate, SameTurn
  <2> QED BY <2>6, <2>7, <2>8
<1> QED BY <1>3, <1>4
-----------------------------------------------------------------------------
(* The handlers of conversations.                                          *)

(* conversation.start.                                                     *)
LEMMA StartConversationStep ==
  ASSUME NEW d, Good(d), NEW m \in AnyConversationStarts, CanStartConversation(d, m)
  PROVE  Step(d, AfterStartConversation(d, m))
<1> DEFINE y == [NoConversation EXCEPT !.id = m.conversation_id]
           a == WithConversation(d, y)
           e == [a EXCEPT !.conversation_ids = @ + 1]
<1>1. /\ m.conversation_id \in Ids /\ d.conversation.id = 0
      /\ m.conversation_id = d.conversation_ids
  BY DEF AnyConversationStarts, CanStartConversation
<1>2. d \in Data
  BY DEF Good
<1>3. y \in Conversations
  BY <1>1, NoneIds, EmptyRecords DEF Conversations, NoConversation
<1>4. e = AfterStartConversation(d, m)
  BY DEF AfterStartConversation
<1>5. y = [NoConversation EXCEPT !.id = d.conversation_ids]
  BY <1>1
<1> HIDE DEF y
<1>6. /\ a \in Data /\ a.inputs = d.inputs /\ a.responses = d.responses
      /\ a.conversation = y /\ a.tombstones = d.tombstones /\ Rest(d, a)
  BY <1>2, <1>3, WithConversationParts, ByConversation
<1> HIDE DEF a
<1>7. /\ e.inputs = a.inputs /\ e.responses = a.responses
      /\ e.conversation = a.conversation /\ e.tombstones = a.tombstones
      /\ e.connection_state = a.connection_state
      /\ e.conversation_ids = a.conversation_ids + 1
      /\ e.input_ids = a.input_ids /\ e.response_ids = a.response_ids
      /\ e.ended_conversations = a.ended_conversations
  BY <1>6 DEF Data
<1> HIDE DEF e
<1>8. Kept(d, e) /\ OthersStand(d, e)
  BY <1>6, <1>7, KeptByNone DEF Rest, OthersStand
<1>9. Opens(d, e)
  BY <1>1, <1>5, <1>6, <1>7 DEF Opens, Rest, SameEndings
<1> QED BY <1>4, <1>8, <1>9 DEF Step, Move

(* conversation.cancel: an open input is cancelled with it.                *)
CancelledInputGraves(d) ==
  LET id == d.conversation.input_id IN
  IF id # 0 /\ d.inputs[id].terminal = NoTerminal THEN {Grave("input", id, "aborted")} ELSE {}

LEMMA CancelledInputTouches ==
  ASSUME NEW d, Good(d), d.conversation.input_id # 0,
         d.inputs[d.conversation.input_id].terminal = NoTerminal
  PROVE  LET id == d.conversation.input_id
             x == [d.inputs[id] EXCEPT !.terminal = CancelledInput]
             e == WithTombstone(WithInput(d, id, x), "input", id, "aborted")
         IN
         /\ e \in Data /\ Touches(d, e)
         /\ InputBecomes(d, e, id, x, CancelledInputGraves(d))
<1> DEFINE id == d.conversation.input_id
           i == d.inputs[id]
           x == [i EXCEPT !.terminal = CancelledInput]
           a == WithInput(d, id, x)
           e == WithTombstone(a, "input", id, "aborted")
           g == {Grave("input", id, "aborted")}
<1>1. d \in Data /\ id \in Ids /\ id # 0
  BY Numbers DEF Good
<1>2. i \in Inputs /\ i.terminal = NoTerminal
  BY <1>1, Parts
<1>3. i.conversation_id # 0
  BY <1>1, Numbers DEF Good, Turns, CurrentInput, Conversations
<1>4. CancelledInputGraves(d) = g
  BY <1>1, <1>2 DEF CancelledInputGraves
<1> HIDE DEF i
<1>5. /\ CancelledInput # NoTerminal /\ CancelledInput.kind # "closed"
      /\ CancelledInput \in Terminations
  BY DEF CancelledInput, NoTerminal, Terminations
<1>6. x \in Inputs
  BY <1>2, <1>5, TerminalInputs
<1>7. InputKept(i, x)
  BY <1>2, <1>3, <1>5, InputTerminated
<1>8. x.response_id = i.response_id
  BY <1>2 DEF Inputs
<1> HIDE DEF x
<1>9. a \in Data /\ InputBecomes(d, a, id, x, {})
  BY <1>1, <1>6, WithInputParts, ByInput
<1> HIDE DEF a
<1>10. Grave("input", id, "aborted") \in Tombstones
  BY <1>1, NoneIds DEF Tombstones, Grave
<1>11. /\ e.inputs = a.inputs /\ e.responses = a.responses
       /\ e.conversation = a.conversation /\ e.tombstones = a.tombstones \cup g /\ Rest(a, e)
  BY <1>9, <1>10, ByTombstone
<1>12. e \in Data
  BY <1>9, <1>10, WithTombstoneParts DEF Grave
<1> HIDE DEF e, g
<1>13. InputBecomes(d, e, id, x, g)
  BY <1>9, <1>11 DEF InputBecomes, Rest
<1>14. Touches(d, e)
  BY <1>1, <1>7, <1>8, <1>13, TouchesInput DEF i
<1> QED BY <1>4, <1>12, <1>13, <1>14 DEF e, a, x, i

LEMMA CancelConversationStep ==
  ASSUME NEW d, Good(d), NEW m \in AnyConversationCancels, CanCancelConversation(d, m)
  PROVE  Step(d, AfterCancelConversation(d, m))
<1> DEFINE c == d.conversation
           openInput == c.input_id # 0 /\ d.inputs[c.input_id].terminal = NoTerminal
           x == [d.inputs[c.input_id] EXCEPT !.terminal = CancelledInput]
           b == WithTombstone(WithInput(d, c.input_id, x), "input", c.input_id, "aborted")
           t == IF openInput THEN b ELSE d
           y == [c EXCEPT !.cancel = m.reason]
           f == WithConversation(t, y)
           e == [f EXCEPT !.cancelled_conversations[m.conversation_id] = m.reason]
<1>1. m.conversation_id \in Ids /\ m.reason \in ConversationCancelReason
  BY DEF AnyConversationCancels
<1>2. d \in Data /\ c \in Conversations
  BY Parts DEF Good
<1>3. CASE d.cancelled_conversations[m.conversation_id] # "none"
  BY <1>3, QuietSame DEF AfterCancelConversation, Rest, SameFate, SameTurn
<1>4. CASE d.cancelled_conversations[m.conversation_id] = "none"
  <2>1. AfterCancelConversation(d, m) = e
    BY <1>4 DEF AfterCancelConversation
  <2>2. t \in Data /\ Touches(d, t)
    <3>1. CASE openInput
      BY <3>1, CancelledInputTouches
    <3>2. CASE ~ openInput
      BY <1>2, <3>2, TouchesSame
    <3> QED BY <3>1, <3>2
  <2> HIDE DEF t
  <2>3. /\ y \in Conversations /\ y.id = c.id /\ y.response_id = c.response_id
        /\ y.input_id = c.input_id /\ y.expected_end_reason = c.expected_end_reason
        /\ y.failure = c.failure /\ y.cancel = m.reason
    BY <1>1, <1>2 DEF Conversations
  <2>4. /\ c.id = m.conversation_id /\ c.failure = "none" /\ m.reason # "none"
    BY <1>1, <1>4 DEF CanCancelConversation, Open, ConversationCancelReason
  <2> HIDE DEF y
  <2>5. /\ f \in Data /\ f.inputs = t.inputs /\ f.responses = t.responses
        /\ f.conversation = y /\ f.tombstones = t.tombstones /\ Rest(t, f)
    BY <2>2, <2>3, WithConversationParts, ByConversation
  <2> HIDE DEF f
  <2>6. /\ e.inputs = f.inputs /\ e.responses = f.responses
        /\ e.conversation = f.conversation /\ e.tombstones = f.tombstones /\ Rest(f, e)
    BY <2>5 DEF Data, Rest
  <2> HIDE DEF e
  <2>7. Kept(t, e)
    BY <2>5, <2>6, KeptByNone DEF Rest
  <2>8. Kept(d, e)
    BY <2>2, <2>7, KeptChain DEF Touches
  <2>9. OthersStand(d, e) /\ SameObjects(d, e) /\ SameEndings(d, e)
    BY <2>2, <2>5, <2>6 DEF Touches, OthersStand, SameObjects, SameEndings, Rest
  <2>10. c.id # 0
    BY <1>1, <2>4, NoneIds
  <2>11. Cancels(d, e)
    BY <2>3, <2>4, <2>5, <2>6, <2>9, <2>10 DEF Cancels, SameTurn
  <2> QED BY <2>1, <2>8, <2>9, <2>11 DEF Step, Move
<1> QED BY <1>3, <1>4

(* _end_conversation.                                                      *)
EndBecomes(d, e, id, reason) ==
  /\ e.inputs = d.inputs /\ e.responses = d.responses
  /\ e.conversation = NoConversation
  /\ e.tombstones = d.tombstones \cup {Grave("conversation", id, reason)}
  /\ e.connection_state = d.connection_state
  /\ e.conversation_ids = d.conversation_ids
  /\ e.input_ids = d.input_ids /\ e.response_ids = d.response_ids
  /\ e.ended_conversations = [d.ended_conversations EXCEPT ![id] = reason]

LEMMA EndConversationBecomes ==
  ASSUME NEW d \in Data, NEW m, m.conversation_id \in Ids,
         m.reason \in ConversationEndReason,
         d.ended_conversations[m.conversation_id] = "none"
  PROVE  EndBecomes(d, AfterEndConversation(d, m), m.conversation_id, m.reason)
<1> DEFINE id == m.conversation_id
           a == WithConversation(d, NoConversation)
           b == WithTombstone(a, "conversation", id, m.reason)
           last == IF d.conversation.state.revision # 0 THEN d.conversation.state
                                                        ELSE d.terminal_states[id]
           e == [b EXCEPT !.ended_conversations[id] = m.reason,
                          !.terminal_states[id] = last]
           g == {Grave("conversation", id, m.reason)}
<1>1. e = AfterEndConversation(d, m)
  BY DEF AfterEndConversation
<1> HIDE DEF last
<1>2. /\ a \in Data /\ a.inputs = d.inputs /\ a.responses = d.responses
      /\ a.conversation = NoConversation /\ a.tombstones = d.tombstones /\ Rest(d, a)
  BY EmptyRecords, WithConversationParts, ByConversation
<1> HIDE DEF a
<1>3. Grave("conversation", id, m.reason) \in Tombstones
  BY NoneIds DEF Tombstones, Grave
<1>4. /\ b.inputs = a.inputs /\ b.responses = a.responses
      /\ b.conversation = a.conversation /\ b.tombstones = a.tombstones \cup g /\ Rest(a, b)
  BY <1>2, <1>3, ByTombstone
<1>5. b \in Data
  BY <1>2, <1>3, WithTombstoneParts DEF Grave
<1> HIDE DEF b
<1>6. /\ e.inputs = b.inputs /\ e.responses = b.responses
      /\ e.conversation = b.conversation /\ e.tombstones = b.tombstones
      /\ e.connection_state = b.connection_state
      /\ e.conversation_ids = b.conversation_ids
      /\ e.input_ids = b.input_ids /\ e.response_ids = b.response_ids
      /\ e.ended_conversations = [b.ended_conversations EXCEPT ![id] = m.reason]
  BY <1>5 DEF Data
<1> HIDE DEF e, g
<1>7. EndBecomes(d, e, id, m.reason)
  BY <1>2, <1>4, <1>6 DEF EndBecomes, Rest, g
<1> QED BY <1>1, <1>7

(* What ends keeps everything else.                                        *)
LEMMA EndKeeps ==
  ASSUME NEW d, d \in Data, NEW e, NEW id \in Ids, NEW reason,
         EndBecomes(d, e, id, reason), d.ended_conversations[id] = "none"
  PROVE  /\ Kept(d, e) /\ SameObjects(d, e)
         /\ e.ended_conversations[id] = reason
<1>1. DOMAIN d.ended_conversations = Ids
  BY DEF Data
<1>2. \A c \in Ids : d.ended_conversations[c] # "none" =>
        e.ended_conversations[c] = d.ended_conversations[c]
  BY <1>1 DEF EndBecomes
<1>3. d.tombstones \subseteq e.tombstones
  BY DEF EndBecomes
<1>4. e.inputs = d.inputs /\ e.responses = d.responses
  BY DEF EndBecomes
<1>5. Kept(d, e)
  BY <1>2, <1>3, <1>4, KeptByNone
<1> QED BY <1>1, <1>5 DEF EndBecomes, SameObjects

(* conversation.end.                                                       *)
LEMMA EndConversationStep ==
  ASSUME NEW d, Good(d), NEW m, m.conversation_id \in Ids,
         m.reason \in ConversationEndReason, CanEndConversation(d, m)
  PROVE  Step(d, AfterEndConversation(d, m))
<1> DEFINE id == m.conversation_id
           e == AfterEndConversation(d, m)
           c == d.conversation
<1>1. CASE d.ended_conversations[id] # "none"
  BY <1>1, QuietSame DEF AfterEndConversation, Rest, SameFate, SameTurn
<1>2. CASE d.ended_conversations[id] = "none"
  <2>1. /\ c.id = id /\ c.response_id = 0
        /\ c.input_id # 0 => d.inputs[c.input_id].terminal # NoTerminal
        /\ c.cancel # "none" => m.reason = "cancelled"
        /\ c.failure # "none" => m.reason = FailureEndReason(c.failure)
        /\ c.expected_end_reason # "none" => m.reason = c.expected_end_reason
    BY <1>2 DEF CanEndConversation, Open
  <2>2. d \in Data
    BY DEF Good
  <2>3. EndBecomes(d, e, id, m.reason)
    BY <1>2, <2>2, EndConversationBecomes
  <2> HIDE DEF e
  <2>4. Kept(d, e) /\ SameObjects(d, e) /\ e.ended_conversations[id] = m.reason
    BY <1>2, <2>2, <2>3, EndKeeps
  <2>5. OthersStand(d, e)
    BY <2>3 DEF OthersStand, EndBecomes
  <2>6. EndsQuiet(d, m.reason)
    BY <2>1 DEF EndsQuiet
  <2>7. Ends(d, e)
    BY <2>1, <2>3, <2>4, <2>6 DEF Ends, EndBecomes
  <2>8. Step(d, e)
    BY <2>4, <2>5, <2>7 DEF Step, Move
  <2> QED BY <2>8 DEF e
<1> QED BY <1>1, <1>2

(* state: "waiting" lets go of an input that is over.                      *)
LEMMA StateStep ==
  ASSUME NEW d, Good(d), NEW m \in AnyStates, CanAcceptState(d, m)
  PROVE  Step(d, AfterState(d, m))
<1> DEFINE c == d.conversation
           j == IF m.state = "waiting" THEN 0 ELSE c.input_id
           y == [c EXCEPT !.state = StateOf(m), !.input_id = j]
           e == AfterState(d, m)
<1>1. m.conversation_id \in Ids /\ m.revision \in Nat /\ m.state \in CoarseState
  BY DEF AnyStates, Positive
<1>2. d \in Data /\ c \in Conversations
  BY Parts DEF Good
<1>3. StateOf(m) \in StateValues
  BY <1>1 DEF StateOf, StateValues
<1>4. CASE d.ended_conversations[m.conversation_id] # "none" \/ c.state = StateOf(m)
  BY <1>4, QuietSame DEF AfterState, Rest, SameFate, SameTurn
<1>5. CASE ~ (d.ended_conversations[m.conversation_id] # "none" \/ c.state = StateOf(m))
  <2>1. j \in OptionalIds
    BY <1>2, NoneIds DEF Conversations
  <2>2. Alive(d) /\ c.expected_end_reason = "none"
    <3>1. c.id = m.conversation_id /\ c.cancel = "none" /\ c.failure = "none"
          /\ c.expected_end_reason = "none"
      BY <1>5 DEF CanAcceptState, Live, Open
    <3> QED BY <1>1, <3>1, NoneIds DEF Alive
  <2>3. j = c.input_id \/ (j = 0 /\ c.response_id = 0 /\ c.input_id # 0)
    <3>1. CASE m.state = "waiting" /\ c.input_id # 0
      <4>1. StateMatches(d, m)
        BY <1>5 DEF CanAcceptState
      <4> QED BY <3>1, <4>1 DEF StateMatches
    <3>2. CASE ~ (m.state = "waiting" /\ c.input_id # 0)
      BY <3>2
    <3> QED BY <3>1, <3>2
  <2>4. e = WithConversation(d, y)
    BY <1>2, <1>5 DEF AfterState, Conversations
  <2> HIDE DEF j
  <2>5. /\ y \in Conversations /\ y.id = c.id /\ y.response_id = c.response_id
        /\ y.input_id = j /\ y.cancel = c.cancel /\ y.failure = c.failure
        /\ y.expected_end_reason = c.expected_end_reason
    BY <1>2, <1>3, <2>1 DEF Conversations
  <2> HIDE DEF y, e
  <2>6. /\ e.inputs = d.inputs /\ e.responses = d.responses /\ e.conversation = y
        /\ e.tombstones = d.tombstones /\ Rest(d, e)
    BY <1>2, <2>4, <2>5, ByConversation
  <2>7. Kept(d, e) /\ OthersStand(d, e) /\ SameObjects(d, e) /\ SameEndings(d, e)
    BY <2>6, KeptByNone DEF Rest, OthersStand, SameObjects, SameEndings
  <2>8. SameFate(d, e)
    BY <2>5, <2>6 DEF SameFate
  <2>9. CASE j = c.input_id
    <3>1. Steady(d, e)
      BY <2>5, <2>6, <2>7, <2>8, <2>9 DEF Steady, SameTurn
    <3> QED BY <2>7, <3>1 DEF Step, Move, e
  <2>10. CASE j = 0 /\ c.response_id = 0 /\ c.input_id # 0
    <3>1. GivesUp(d, e)
      BY <2>2, <2>5, <2>6, <2>7, <2>8, <2>10 DEF GivesUp
    <3> QED BY <2>7, <3>1 DEF Step, Move, e
  <2> QED BY <2>3, <2>9, <2>10
<1> QED BY <1>4, <1>5
-----------------------------------------------------------------------------
(* The beginning of inputs and responses.                                  *)

(* A record that is not there yet becomes any new one.                     *)
LEMMA InputBegins ==
  ASSUME NEW x, x.conversation_id # 0, x.boundaries = {}, x.received = 0,
         x.committed = 0, x.terminal = NoTerminal, x.failure = "none"
  PROVE  InputKept(NoInput, x)
<1>1. /\ NoInput.conversation_id = 0 /\ NoInput.response_id = 0
      /\ NoInput.terminal = NoTerminal /\ NoInput.final = "none"
      /\ NoInput.failure = "none" /\ NoInput.boundaries = {}
  BY DEF NoInput
<1>2. MaxInputFrames \in Nat
  BY ProtocolAssumption
<1>3. CommittedByChunk(x)
  BY <1>2 DEF CommittedByChunk, NoTerminal
<1>4. FailedAtOnce(x)
  BY DEF FailedAtOnce
<1> QED BY <1>1, <1>3, <1>4 DEF InputKept

LEMMA ResponseBegins ==
  ASSUME NEW x, x.conversation_id # 0, x.output = NoOutput, x.playback = NoPlayback,
         x.terminal = "none", x.failure = "none", x.end = FALSE
  PROVE  ResponseKept(NoResponse, x)
<1>1. /\ NoResponse.conversation_id = 0 /\ NoResponse.terminal = "none"
      /\ NoResponse.playback = NoPlayback /\ NoResponse.stale = FALSE
      /\ NoResponse.end = FALSE /\ NoResponse.failure = "none"
      /\ NoResponse.output.id = 0
  BY DEF NoResponse, NoOutput
<1>2. ~ IsCancelled(x) /\ ~ IsCancelled(NoResponse)
  BY <1>1 DEF IsCancelled, ResponseCancelReason
<1>3. PlayedWasSent(x)
  BY DEF PlayedWasSent, NoPlayback, NoOutput
<1>4. Hushed(x)
  BY <1>2 DEF Hushed, NoPlayback, NoOutput
<1> QED BY <1>1, <1>2, <1>3, <1>4 DEF ResponseKept

(* A response starts for the current input, which is over.                 *)
LEMMA StartResponseStep ==
  ASSUME NEW d, Good(d), Objects(d), NEW m \in AnyResponseStarts, CanStartResponse(d, m)
  PROVE  Step(d, AfterStartResponse(d, m))
<1> DEFINE id == m.response_id
           j == m.input_id
           answered == [d.inputs[j] EXCEPT !.response_id = id]
           y == [d.conversation EXCEPT !.response_id = id]
           x == NewResponse(m)
           a == WithInput(d, j, answered)
           b == WithConversation(a, y)
           f == WithResponse(b, id, x)
           e == [f EXCEPT !.response_ids = @ + 1]
<1>1. id \in Ids /\ j \in Ids /\ m.conversation_id \in Ids /\ m.end_conversation \in BOOLEAN
  BY DEF AnyResponseStarts
<1>2. /\ d \in Data /\ d.conversation \in Conversations /\ d.inputs[j] \in Inputs
      /\ DOMAIN d.inputs = Ids /\ DOMAIN d.responses = Ids
  BY <1>1, Parts DEF Good
<1>3. /\ d.conversation.id = m.conversation_id /\ d.conversation.cancel = "none"
      /\ d.conversation.failure = "none" /\ d.conversation.expected_end_reason = "none"
      /\ d.conversation.response_id = 0 /\ d.conversation.input_id = j
      /\ d.inputs[j].conversation_id = m.conversation_id
      /\ d.inputs[j].terminal # NoTerminal /\ d.inputs[j].response_id = 0
      /\ id = d.response_ids
  BY DEF CanStartResponse, Live, Open, KnownInput
<1>4. m.conversation_id # 0 /\ j # 0
  BY <1>1, NoneIds
<1>5. d.responses[id] = NoResponse
  <2>1. d.response_ids \in Nat
    BY <1>2, Numbers
  <2>2. ~ (id < d.response_ids)
    BY <1>3, <2>1
  <2>3. d.responses[id].conversation_id = 0
    BY <1>1, <2>2 DEF Good, Turns, Allocated
  <2> QED BY <1>1, <2>3 DEF Objects
<1>6. e = AfterStartResponse(d, m)
  BY DEF AfterStartResponse
<1>7. answered \in Inputs /\ answered.response_id = id
  BY <1>1, <1>2, NoneIds, InputFields DEF Inputs
<1>8. InputKept(d.inputs[j], answered)
  BY <1>2, <1>3, <1>4, InputAnswered
<1> HIDE DEF answered
<1>9. /\ y \in Conversations /\ y.id = d.conversation.id
      /\ y.cancel = d.conversation.cancel /\ y.failure = d.conversation.failure
      /\ y.input_id = j /\ y.response_id = id /\ y.expected_end_reason = "none"
  BY <1>1, <1>2, <1>3, NoneIds DEF Conversations
<1> HIDE DEF y
<1>10. /\ x \in Responses
       /\ x.conversation_id = m.conversation_id /\ x.output = NoOutput
       /\ x.playback = NoPlayback /\ x.terminal = "none" /\ x.failure = "none"
       /\ x.end = FALSE
  BY <1>1, NoneIds, EmptyRecords DEF NewResponse, NoResponse, Responses
<1> HIDE DEF x
<1>11. ResponseKept(NoResponse, x)
  BY <1>4, <1>10, ResponseBegins
<1>12. a \in Data /\ InputBecomes(d, a, j, answered, {})
  BY <1>1, <1>2, <1>7, WithInputParts, ByInput
<1> HIDE DEF a
<1>13. /\ b \in Data /\ b.inputs = a.inputs /\ b.responses = a.responses
       /\ b.conversation = y /\ b.tombstones = a.tombstones /\ Rest(a, b)
  BY <1>9, <1>12, WithConversationParts, ByConversation
<1> HIDE DEF b
<1>14. f \in Data /\ ResponseBecomes(b, f, id, x, b.conversation, {})
  BY <1>1, <1>10, <1>13, WithResponseParts, ByResponse
<1> HIDE DEF f
<1>15. /\ e.inputs = f.inputs /\ e.responses = f.responses
       /\ e.conversation = f.conversation /\ e.tombstones = f.tombstones
       /\ e.connection_state = f.connection_state
       /\ e.conversation_ids = f.conversation_ids
       /\ e.input_ids = f.input_ids /\ e.response_ids = f.response_ids + 1
       /\ e.ended_conversations = f.ended_conversations
  BY <1>14 DEF Data
<1> HIDE DEF e
<1>16. /\ e.inputs = [d.inputs EXCEPT ![j] = answered]
       /\ e.responses = [d.responses EXCEPT ![id] = x]
       /\ e.conversation = y /\ d.tombstones \subseteq e.tombstones
       /\ e.connection_state = d.connection_state
       /\ e.conversation_ids = d.conversation_ids
       /\ e.input_ids = d.input_ids /\ e.response_ids = d.response_ids + 1
       /\ e.ended_conversations = d.ended_conversations
  BY <1>12, <1>13, <1>14, <1>15 DEF InputBecomes, ResponseBecomes, Rest
<1>17. Kept(d, e)
  <2>1. Kept(d, a)
    BY <1>1, <1>2, <1>8, <1>12, KeptByInput DEF InputBecomes, Rest
  <2>2. /\ a.responses = d.responses /\ e.inputs = a.inputs
        /\ e.ended_conversations = a.ended_conversations
        /\ a.tombstones \subseteq e.tombstones
    BY <1>12, <1>13, <1>14, <1>15 DEF InputBecomes, ResponseBecomes, Rest
  <2>3. Kept(a, e)
    <3>1. /\ DOMAIN a.responses = Ids /\ ResponseKept(a.responses[id], x)
          /\ e.responses = [a.responses EXCEPT ![id] = x]
      BY <1>2, <1>5, <1>11, <1>16, <2>2
    <3> QED BY <1>1, <2>2, <3>1, KeptByResponse
  <2> QED BY <2>1, <2>3, KeptChain
<1>18. OthersStand(d, e)
  <2>1. d.responses[id].terminal = "none" /\ e.responses[id].terminal = "none"
    BY <1>1, <1>2, <1>5, <1>10, <1>16 DEF NoResponse
  <2> QED BY <1>2, <1>16, <2>1 DEF OthersStand
<1>19. \A i \in Ids : e.inputs[i].response_id =
         IF i = d.conversation.input_id THEN d.response_ids ELSE d.inputs[i].response_id
  BY <1>1, <1>2, <1>3, <1>7, <1>16
<1>20. e.responses[id].conversation_id = d.conversation.id
  BY <1>1, <1>2, <1>3, <1>10, <1>16
<1>21. Answers(d, e)
  BY <1>1, <1>3, <1>4, <1>9, <1>16, <1>19, <1>20
     DEF Answers, Alive, SameEndings, SameFate
<1> QED BY <1>6, <1>17, <1>18, <1>21 DEF Step, Move
(* A new input is added to data where no response is current.              *)
LEMMA NewInputBecomes ==
  ASSUME NEW d \in Data, NEW id \in Ids, NEW x \in Inputs, id = d.input_ids
  PROVE  LET y == [d.conversation EXCEPT !.input_id = id]
             e == [WithInput(WithConversation(d, y), id, x) EXCEPT !.input_ids = @ + 1]
         IN
         /\ e.inputs = [d.inputs EXCEPT ![id] = x] /\ e.responses = d.responses
         /\ e.conversation = y /\ e.tombstones = d.tombstones
         /\ e.connection_state = d.connection_state
         /\ e.conversation_ids = d.conversation_ids
         /\ e.input_ids = d.input_ids + 1 /\ e.response_ids = d.response_ids
         /\ e.ended_conversations = d.ended_conversations
         /\ y.id = d.conversation.id /\ y.cancel = d.conversation.cancel
         /\ y.failure = d.conversation.failure /\ y.input_id = id
         /\ y.response_id = d.conversation.response_id
         /\ y.expected_end_reason = d.conversation.expected_end_reason
<1> DEFINE y == [d.conversation EXCEPT !.input_id = id]
           a == WithConversation(d, y)
           b == WithInput(a, id, x)
           e == [b EXCEPT !.input_ids = @ + 1]
<1>1. d.conversation \in Conversations
  BY Parts
<1>2. /\ y \in Conversations
      /\ y.id = d.conversation.id /\ y.cancel = d.conversation.cancel
      /\ y.failure = d.conversation.failure /\ y.input_id = id
      /\ y.response_id = d.conversation.response_id
      /\ y.expected_end_reason = d.conversation.expected_end_reason
  BY <1>1, NoneIds DEF Conversations
<1> HIDE DEF y
<1>3. /\ a \in Data /\ a.inputs = d.inputs /\ a.responses = d.responses
      /\ a.conversation = y /\ a.tombstones = d.tombstones /\ Rest(d, a)
  BY <1>2, WithConversationParts, ByConversation
<1> HIDE DEF a
<1>4. b \in Data /\ InputBecomes(a, b, id, x, {})
  BY <1>3, WithInputParts, ByInput
<1> HIDE DEF b
<1>5. /\ e.inputs = b.inputs /\ e.responses = b.responses
      /\ e.conversation = b.conversation /\ e.tombstones = b.tombstones
      /\ e.connection_state = b.connection_state
      /\ e.conversation_ids = b.conversation_ids
      /\ e.input_ids = b.input_ids + 1 /\ e.response_ids = b.response_ids
      /\ e.ended_conversations = b.ended_conversations
  BY <1>4 DEF Data
<1> HIDE DEF e
<1>6. /\ e.inputs = [d.inputs EXCEPT ![id] = x] /\ e.responses = d.responses
      /\ e.conversation = y /\ e.tombstones = d.tombstones
      /\ e.connection_state = d.connection_state
      /\ e.conversation_ids = d.conversation_ids
      /\ e.input_ids = d.input_ids + 1 /\ e.response_ids = d.response_ids
      /\ e.ended_conversations = d.ended_conversations
  BY <1>3, <1>4, <1>5 DEF InputBecomes, Rest
<1> QED BY <1>2, <1>6 DEF e, b, a, y

(* A response cut short by the input that starts: the base of the step.    *)
LEMMA BargeBase ==
  ASSUME NEW d, Good(d), Newest(d), NEW m \in AnyInputStarts, CanStartInput(d, m)
  PROVE  LET base == IF CancelsOnBarge(d, m) THEN AfterCancelResponse(d, BargeCancel(m)) ELSE d
             k == m.interrupts_response_id
             c == d.conversation
         IN
         /\ Good(base) /\ Kept(d, base) /\ Rest(d, base) /\ OthersStand(d, base)
         /\ base.inputs = d.inputs
         /\ base.conversation.id = c.id /\ base.conversation.cancel = c.cancel
         /\ base.conversation.failure = c.failure
         /\ base.conversation.response_id = 0
         /\ base.conversation.expected_end_reason = "none"
         /\ m.reason = "barge_in" => k \in Ids /\ IsCancelled(base.responses[k])
         /\ c.response_id # 0 => m.reason = "barge_in" /\ c.response_id = k
         /\ c.response_id # 0 \/ c.input_id = 0
<1> DEFINE c == d.conversation
           k == m.interrupts_response_id
           r == d.responses[k]
           base == IF CancelsOnBarge(d, m) THEN AfterCancelResponse(d, BargeCancel(m)) ELSE d
<1>1. m.conversation_id \in Ids /\ (m.reason = "barge_in" => k \in Ids)
  BY NoneIds DEF AnyInputStarts
<1>2. d \in Data /\ Turns(d) /\ c \in Conversations
  BY Parts DEF Good
<1>3. /\ c.id = m.conversation_id /\ c.cancel = "none" /\ c.failure = "none"
      /\ c.expected_end_reason = "none"
  BY DEF CanStartInput, Live, Open
<1>4. CASE CancelsOnBarge(d, m)
  <2> DEFINE x == CancelledResponse(r, "barge_in")
             y == Released(c, 0, CancellationEnd(c, r, "barge_in"))
  <2>1. m.reason = "barge_in" /\ ~ IsCancelled(r) /\ k \in Ids
    BY <1>1, <1>4 DEF CancelsOnBarge
  <2>2. c.response_id = k
    BY <2>1 DEF CanStartInput, CanInterrupt, IsCancelled, ResponseCancelReason
  <2>3. /\ BargeCancel(m).response_id = k /\ BargeCancel(m).reason = "barge_in"
        /\ "barge_in" \in ResponseCancelReason
    BY DEF BargeCancel, ResponseCancelled, ResponseCancelReason
  <2>4. CancellationEnd(c, r, "barge_in") = "none"
    BY <1>3 DEF CancellationEnd, CancellationEndReason
  <2>5. /\ Good(base) /\ base.inputs = d.inputs
        /\ base.conversation.id = c.id /\ base.conversation.cancel = c.cancel
        /\ base.conversation.failure = c.failure
        /\ base.conversation.expected_end_reason = "none"
        /\ base.conversation.response_id = 0
        /\ IsCancelled(base.responses[k])
    BY <1>4, <2>1, <2>2, <2>3, <2>4, CancelGood
  <2>6. ResponseBecomes(d, base, k, x, y, CancelGraves(k, r))
    BY <1>4, <2>1, <2>2, <2>3, CancelBecomes
  <2>7. r \in Responses /\ r.conversation_id # 0
    BY <2>1, <2>2, Parts, NoInputDuringResponse DEF Good, Unfinished
  <2>8. ResponseKept(r, x)
    BY <2>1, <2>3, <2>7, ResponseCancel
  <2> HIDE DEF x, y, base
  <2>9. Kept(d, base) /\ OthersStand(d, base)
    BY <2>1, <2>2, <2>6, <2>8, ResponseKeeps
  <2>10. Rest(d, base)
    BY <2>6 DEF ResponseBecomes
  <2>11. c.response_id # 0
    BY <2>1, <2>2, NoneIds
  <2> QED BY <2>1, <2>2, <2>5, <2>9, <2>10, <2>11 DEF base
<1>5. CASE ~ CancelsOnBarge(d, m)
  <2>1. base = d
    BY <1>5
  <2>2. Kept(d, d) /\ Rest(d, d) /\ OthersStand(d, d)
    BY KeptByNone DEF Rest, OthersStand
  <2>3. CASE m.reason = "barge_in"
    <3>1. IsCancelled(r) /\ k \in Ids
      BY <1>1, <1>5, <2>3 DEF CancelsOnBarge
    <3>2. r.conversation_id = m.conversation_id /\ r.conversation_id # 0
      BY <1>1, <2>3, NoneIds DEF CanStartInput, CanInterrupt
    <3>3. ~ Unfinished(r)
      BY <3>1 DEF Unfinished, IsCancelled, ResponseCancelReason
    <3>4. c.input_id \in {0, r.input_id}
      BY <2>3 DEF CanStartInput, CanInterrupt
    <3>5. r.input_id \in Ids
      BY <1>2, <3>1, <3>2, Parts, NoneIds DEF Turns, Answered, Responses
    <3>6. d.inputs[r.input_id].response_id = k
      BY <1>2, <3>1, <3>2 DEF Turns, Answered
    <3>7. c.response_id = 0
      <4> SUFFICES ASSUME c.response_id # 0 PROVE FALSE
        OBVIOUS
      <4>1. c.response_id \in Ids
        BY <1>2, NoneIds DEF Conversations
      <4>2. /\ Unfinished(d.responses[c.response_id])
            /\ c.input_id = d.responses[c.response_id].input_id
        BY <4>1, NoInputDuringResponse, SMTT(30)
      <4>3. /\ d.responses[c.response_id].input_id # 0
            /\ d.inputs[d.responses[c.response_id].input_id].response_id = c.response_id
        BY <1>2, <4>1, <4>2 DEF Turns, Answered, Unfinished
      <4>4. c.response_id = k
        BY <3>4, <3>6, <4>2, <4>3
      <4> QED BY <3>3, <4>2, <4>4
    <3>8. c.input_id = 0
      <4>1. c.input_id # 0 => d.inputs[c.input_id].response_id = 0
        BY <3>7 DEF Newest
      <4>2. k # 0
        BY <3>1, NoneIds
      <4> QED BY <3>4, <3>6, <4>1, <4>2
    <3> QED BY <1>3, <2>1, <2>2, <2>3, <3>1, <3>7, <3>8
  <2>4. CASE m.reason # "barge_in"
    <3>1. c.response_id = 0 /\ c.input_id = 0
      BY <2>4 DEF CanStartInput
    <3> QED BY <1>3, <2>1, <2>2, <2>4, <3>1
  <2> QED BY <2>3, <2>4
<1> QED BY <1>4, <1>5

(* input.start.                                                            *)
LEMMA StartInputStep ==
  ASSUME NEW d, Good(d), Objects(d), Newest(d), NEW m \in AnyInputStarts, CanStartInput(d, m)
  PROVE  Step(d, AfterStartInput(d, m))
<1> DEFINE c == d.conversation
           id == m.input_id
           k == m.interrupts_response_id
           x == NewInput(m)
           base == IF CancelsOnBarge(d, m) THEN AfterCancelResponse(d, BargeCancel(m)) ELSE d
           y == [base.conversation EXCEPT !.input_id = id]
           e == [WithInput(WithConversation(base, y), id, x) EXCEPT !.input_ids = @ + 1]
<1>1. /\ id \in Ids /\ m.conversation_id \in Ids
      /\ m.reason \in InputStartReason /\ k \in OptionalIds
      /\ m.reason # "barge_in" => k = 0
  BY NoneIds DEF AnyInputStarts, InputStartReason
<1>2. d \in Data /\ DOMAIN d.inputs = Ids
  BY Parts DEF Good
<1>3. /\ c.id = m.conversation_id /\ c.cancel = "none" /\ c.failure = "none"
      /\ c.expected_end_reason = "none" /\ id = d.input_ids
  BY DEF CanStartInput, Live, Open
<1>4. /\ Good(base) /\ Kept(d, base) /\ Rest(d, base) /\ OthersStand(d, base)
      /\ base.inputs = d.inputs
      /\ base.conversation.id = c.id /\ base.conversation.cancel = c.cancel
      /\ base.conversation.failure = c.failure
      /\ base.conversation.response_id = 0
      /\ base.conversation.expected_end_reason = "none"
      /\ m.reason = "barge_in" => k \in Ids /\ IsCancelled(base.responses[k])
      /\ c.response_id # 0 => m.reason = "barge_in" /\ c.response_id = k
      /\ c.response_id # 0 \/ c.input_id = 0
  BY BargeBase
<1>5. e = AfterStartInput(d, m)
  BY DEF AfterStartInput
<1> HIDE DEF base
<1>6. /\ x \in Inputs /\ x.conversation_id = m.conversation_id /\ x.response_id = 0
      /\ x.boundaries = {} /\ x.received = 0 /\ x.committed = 0
      /\ x.terminal = NoTerminal /\ x.failure = "none"
      /\ x.interrupts_response_id = k
  BY <1>1, EmptyRecords, NoneIds DEF NewInput, NoInput, Inputs
<1> HIDE DEF x
<1>7. id = base.input_ids /\ base \in Data
  BY <1>3, <1>4 DEF Rest, Good
<1>8. /\ e.inputs = [base.inputs EXCEPT ![id] = x] /\ e.responses = base.responses
      /\ e.conversation = y /\ e.tombstones = base.tombstones
      /\ e.connection_state = base.connection_state
      /\ e.conversation_ids = base.conversation_ids
      /\ e.input_ids = base.input_ids + 1 /\ e.response_ids = base.response_ids
      /\ e.ended_conversations = base.ended_conversations
      /\ y.id = base.conversation.id /\ y.cancel = base.conversation.cancel
      /\ y.failure = base.conversation.failure /\ y.input_id = id
      /\ y.response_id = base.conversation.response_id
      /\ y.expected_end_reason = base.conversation.expected_end_reason
  BY <1>1, <1>6, <1>7, NewInputBecomes
<1> HIDE DEF e, y
<1>9. d.inputs[id] = NoInput
  <2>1. d.input_ids \in Nat
    BY <1>2, Numbers
  <2>2. ~ (id < d.input_ids)
    BY <1>3, <2>1
  <2>3. d.inputs[id].conversation_id = 0
    BY <1>1, <2>2 DEF Good, Turns, Allocated
  <2> QED BY <1>1, <2>3 DEF Objects
<1>10. m.conversation_id # 0
  BY <1>1, NoneIds
<1>11. InputKept(base.inputs[id], x)
  BY <1>4, <1>6, <1>9, <1>10, InputBegins
<1>12. Kept(base, e)
  BY <1>1, <1>2, <1>4, <1>8, <1>11, KeptByInput
<1>13. Kept(d, e)
  BY <1>4, <1>12, KeptChain
<1>14. OthersStand(d, e)
  BY <1>4, <1>8 DEF OthersStand
<1>15. /\ e.connection_state = d.connection_state
       /\ e.conversation_ids = d.conversation_ids /\ e.response_ids = d.response_ids
       /\ e.input_ids = d.input_ids + 1 /\ SameEndings(d, e)
  BY <1>4, <1>8 DEF Rest, SameEndings
<1>16. SameFate(d, e) /\ Alive(d)
  BY <1>3, <1>4, <1>8, <1>10 DEF SameFate, Alive
<1>17. c.response_id # 0 => IsCancelled(e.responses[c.response_id])
  BY <1>4, <1>8
<1>18. /\ \A q \in Ids : q # id => e.inputs[q] = d.inputs[q]
       /\ e.inputs[id] = x
  BY <1>1, <1>2, <1>4, <1>8
<1>19. \A r \in Ids : x.interrupts_response_id = r => IsCancelled(e.responses[r])
  BY <1>1, <1>4, <1>6, <1>8, NoneIds
<1>20. Speaks(d, e)
  BY <1>1, <1>3, <1>4, <1>6, <1>8, <1>15, <1>16, <1>17, <1>18, <1>19 DEF Speaks
<1>21. Step(d, e)
  BY <1>13, <1>14, <1>20 DEF Step, Move
<1> QED BY <1>5, <1>21
-----------------------------------------------------------------------------
(* Playback outcomes and failures.                                         *)

(* The current response is replaced, then cancelled.                       *)
LEMMA CancelAfter ==
  ASSUME NEW d, Good(d), NEW id \in Ids, NEW w \in Responses, NEW a, Good(a), NEW m,
         ResponseBecomes(d, a, id, w, d.conversation, {}),
         m.response_id = id, m.reason \in ResponseCancelReason,
         d.conversation.response_id = id,
         w.conversation_id # 0, ResponseKept(d.responses[id], w)
  PROVE  LET x == CancelledResponse(w, m.reason)
             end == CancellationEnd(d.conversation, w, m.reason)
         IN
         /\ ResponseBecomes(d, AfterCancelResponse(a, m), id, x,
                            Released(d.conversation, 0, end), CancelGraves(id, w))
         /\ ResponseKept(d.responses[id], x)
         /\ x.terminal = m.reason
<1> DEFINE x == CancelledResponse(w, m.reason)
           y == Released(d.conversation, 0, CancellationEnd(d.conversation, w, m.reason))
<1>1. DOMAIN d.responses = Ids
  BY Parts DEF Good
<1>2. a.responses[id] = w /\ a.conversation = d.conversation
  BY <1>1 DEF ResponseBecomes
<1>3. ResponseBecomes(a, AfterCancelResponse(a, m), id, x, y, CancelGraves(id, w))
  BY <1>2, CancelBecomes
<1>4. Unfinished(w)
  BY <1>2, NoInputDuringResponse
<1>5. ~ IsCancelled(w)
  BY <1>4 DEF IsCancelled, Unfinished, ResponseCancelReason
<1>6. ResponseKept(w, x)
  BY <1>5, ResponseCancel
<1>7. x.terminal = m.reason
  BY DEF CancelledResponse, Responses
<1> HIDE DEF x, y
<1>8. ResponseBecomes(d, AfterCancelResponse(a, m), id, x, y, CancelGraves(id, w))
  BY <1>3, ResponseTwice
<1>9. ResponseKept(d.responses[id], x)
  BY <1>6, ResponseChain
<1> QED BY <1>7, <1>8, <1>9 DEF x, y

(* What a failure code cancels and ends.                                   *)
LEMMA FailureReasons ==
  ASSUME NEW code \in ResponseErrorCode, NEW r
  PROVE  /\ ErrorCancelReason(code) \in ResponseCancelReason \ {"barge_in"}
         /\ CancellationEndReason(r, ErrorCancelReason(code))
              \in {"none", "cancelled", "server_failed", "playback_failed"}
<1>1. ErrorCancelReason(code) \in
        {"generation_failed", "tts_failed", "playback_failed", "overflow",
         "conversation_cancelled"}
  BY DEF ErrorCancelReason, ResponseErrorCode
<1> QED BY <1>1 DEF CancellationEndReason, ResponseCancelReason

(* _fail_response on the server, of data d or of d with one response       *)
(* rewritten.                                                              *)
LEMMA FailResponseStep ==
  ASSUME NEW d, Good(d), Past(d), ServerLives(d), Role = "server",
         NEW id \in Ids, NEW code \in ResponseErrorCode, NEW w \in Responses,
         NEW a, Good(a), ResponseBecomes(d, a, id, w, d.conversation, {}),
         ResponseKept(d.responses[id], w), w.conversation_id # 0,
         d.conversation.cancel = "none", CanFailResponse(a, id, code)
  PROVE  Step(d, AfterFailResponse(a, id, code))
<1> DEFINE c == d.conversation
           v == [w EXCEPT !.failure = code, !.stale = TRUE]
           b == WithResponse(a, id, v)
           cancel == FailCancel(a, id, code)
           x == CancelledResponse(v, cancel.reason)
           last == CancellationEnd(c, v, cancel.reason)
           e == AfterCancelResponse(b, cancel)
           end == FailEnd(a, id, code)
           f == AfterEndConversation(e, end)
<1>1. /\ d \in Data /\ a \in Data /\ c \in Conversations /\ DOMAIN d.responses = Ids
  BY Parts DEF Good
<1>2. a.responses[id] = w /\ a.conversation = c /\ Rest(d, a)
  BY <1>1 DEF ResponseBecomes
<1>3. w.terminal = "none"
  BY <1>2 DEF CanFailResponse
<1>4. b = WithResponseFailure(a, id, code)
  BY <1>2 DEF WithResponseFailure
<1>5. Good(b)
  BY <1>4, RecordedResponseFailureGood
<1>6. e = AfterFailCancel(a, id, code)
  BY <1>4 DEF AfterFailCancel
<1>7. /\ cancel.response_id = id /\ cancel.reason = ErrorCancelReason(code)
      /\ cancel.reason \in ResponseCancelReason /\ cancel.reason # "barge_in"
  BY FailureReasons DEF FailCancel, ResponseCancelled
<1>8. c.response_id = id
  <2>1. Unfinished(w)
    BY <1>3 DEF Unfinished
  <2> QED BY <1>2, <2>1 DEF Good, Turns, ResponseTurn
<1>9. c.id \in Ids /\ c.expected_end_reason = "none" /\ c.failure = "none" /\ id # 0
  BY <1>1, <1>8, CurrentResponse, Numbers, NoneIds DEF ServerLives
<1>10. v \in Responses /\ v.conversation_id # 0
  BY DEF Responses
<1>11. last \in {"none", "cancelled", "server_failed", "playback_failed"}
  BY <1>7, <1>9, FailureReasons DEF CancellationEnd
<1>12. /\ end.conversation_id = c.id /\ end.reason = e.conversation.expected_end_reason
  BY <1>2, <1>6 DEF FailEnd, ConversationEnded
<1>13. AfterFailResponse(a, id, code) = IF end.reason # "none" THEN f ELSE e
  BY <1>6 DEF AfterFailResponse
<1> HIDE DEF cancel, last
<1>14. ResponseBecomes(d, e, id, x, Released(c, 0, last), CancelGraves(id, v))
  <2> HIDE DEF v
  <2>0. /\ DOMAIN a.responses = Ids /\ a.conversation = c
        /\ ResponseBecomes(a, b, id, v, a.conversation, {})
    BY <1>1, <1>2, <1>10, ByResponse, Parts
  <2> HIDE DEF b
  <2>1. b.responses[id] = v /\ b.conversation = c /\ ResponseBecomes(a, b, id, v, c, {})
    BY <2>0 DEF ResponseBecomes
  <2>2. ResponseBecomes(d, b, id, v, c, {})
    BY <2>1, ResponseTwice
  <2>3. ResponseBecomes(b, e, id, x, Released(c, 0, last), CancelGraves(id, v))
    BY <1>5, <1>7, <1>8, <2>1, CancelBecomes DEF last
  <2> HIDE DEF x, e
  <2> QED BY <2>2, <2>3, ResponseTwice
<1>15. ResponseKept(d.responses[id], x)
  <2>1. ~ IsCancelled(w)
    BY <1>3 DEF IsCancelled, ResponseCancelReason
  <2>2. /\ v.conversation_id = w.conversation_id /\ v.input_id = w.input_id
        /\ v.end_conversation = w.end_conversation /\ v.playback = w.playback
        /\ v.output = w.output /\ v.end = w.end
    BY DEF Responses
  <2> HIDE DEF v
  <2>3. ResponseKept(w, x)
    BY <1>7, <1>10, <2>1, <2>2, ResponseCancel
  <2> QED BY <2>3, ResponseChain
<1>16. x.terminal = cancel.reason
  BY <1>10 DEF CancelledResponse, Responses
<1>17. cancel.reason # "ended" /\ x.terminal \in ResponseCancelReason
  BY <1>7, <1>16 DEF ResponseCancelReason
<1>18. Good(e)
  <2>1. b.conversation = c
    BY <1>2 DEF WithResponse
  <2> HIDE DEF b
  <2> QED BY <1>5, <1>7, <1>8, <2>1, CancelGood
<1> HIDE DEF x, v, b, e, end
<1>19. CASE end.reason = "none"
  <2>1. Step(d, e)
    BY <1>7, <1>8, <1>14, <1>15, <1>16, <1>17, ReleaseStep, <1>12, <1>19, <1>1, ReleasedFields
       DEF ResponseBecomes
  <2> QED BY <1>13, <1>19, <2>1
<1>20. CASE end.reason # "none"
  <2>1. /\ Kept(d, e) /\ OthersStand(d, e) /\ SameObjects(d, e) /\ SameEndings(d, e)
    BY <1>8, <1>14, <1>15, ResponseKeeps
  <2>2. /\ e.conversation.expected_end_reason = last /\ e.conversation.response_id = 0
        /\ e.conversation.id = c.id
    BY <1>1, <1>14, ReleasedFields DEF ResponseBecomes
  <2>3. end.reason = last /\ end.reason \in ConversationEndReason
    BY <1>11, <1>12, <1>20, <2>2 DEF ConversationEndReason
  <2>4. d.ended_conversations[c.id] = "none" /\ e.ended_conversations[c.id] = "none"
    BY <1>9, <2>1 DEF Past, SameEndings
  <2>5. EndBecomes(e, f, c.id, end.reason)
    BY <1>9, <1>12, <1>18, <2>3, <2>4, EndConversationBecomes DEF Good
  <2> HIDE DEF f
  <2>6. Kept(e, f) /\ SameObjects(e, f) /\ f.ended_conversations[c.id] = end.reason
    <3>1. e \in Data
      BY <1>18 DEF Good
    <3> DEFINE reason == end.reason
               k == c.id
    <3>2. EndBecomes(e, f, k, reason) /\ k \in Ids /\ e.ended_conversations[k] = "none"
      BY <1>9, <2>4, <2>5
    <3> HIDE DEF reason, k
    <3>3. Kept(e, f) /\ SameObjects(e, f) /\ f.ended_conversations[k] = reason
      BY ONLY <3>1, <3>2, EndKeeps
    <3> QED BY <3>3 DEF reason, k
  <2>7. Kept(d, f)
    BY <2>1, <2>6, KeptChain
  <2>8. OthersStand(d, f)
    BY <2>1, <2>5 DEF OthersStand, EndBecomes
  <2>9. SameObjects(d, f)
    BY <2>1, <2>6 DEF SameObjects
  <2>10. IsCancelled(f.responses[id])
    BY <1>1, <1>14, <1>17, <2>5 DEF IsCancelled, ResponseBecomes, EndBecomes
  <2>11. EndsFailed(d, end.reason)
    BY <1>8, <1>9, <1>11, <1>20, <2>3, NoneIds DEF EndsFailed, Alive
  <2>12. /\ f.ended_conversations = [d.ended_conversations EXCEPT ![c.id] = end.reason]
         /\ f.conversation = NoConversation
    BY <2>1, <2>5 DEF EndBecomes, SameEndings
  <2>13. Ends(d, f)
    BY <1>8, <1>9, <2>3, <2>6, <2>9, <2>10, <2>11, <2>12 DEF Ends
  <2>14. Step(d, f)
    BY <2>7, <2>8, <2>13 DEF Step, Move
  <2> QED BY <1>13, <1>20, <2>14
<1> QED BY <1>19, <1>20

(* playback.finished and playback.interrupted.                             *)
LEMMA PlaybackOutcomeStep ==
  ASSUME NEW d, Good(d), Past(d), ServerLives(d),
         NEW m \in AnyPlaybackFinishes \cup AnyPlaybackInterrupts,
         CanAcceptPlaybackOutcome(d, m)
  PROVE  Step(d, AfterPlaybackOutcome(d, m))
<1> DEFINE id == m.response_id
           r == d.responses[id]
           p == PlaybackOf(m)
           x == [r EXCEPT !.playback = p]
           w == [r EXCEPT !.playback = p, !.stale = TRUE]
           a == Interrupted(d, m)
<1>1. id \in Ids /\ m.conversation_id \in Ids /\ m.played_frames \in Nat
  BY DEF AnyPlaybackFinishes, AnyPlaybackInterrupts
<1>2. r \in Responses /\ r.output \in Outputs /\ d \in Data
  BY <1>1, Parts DEF Good, Responses
<1>3. \/ m.type = "playback.finished"
      \/ m.type = "playback.interrupted" /\ m.reason \in PlaybackInterruptReason
  BY DEF AnyPlaybackFinishes, AnyPlaybackInterrupts
<1>4. p \in Playbacks
  BY <1>1, <1>3 DEF PlaybackOf, Playbacks
<1>5. r.conversation_id = m.conversation_id /\ r.conversation_id # 0
  BY <1>1, NoneIds DEF CanAcceptPlaybackOutcome, KnownOutput, KnownResponse
<1>6. CASE r.playback # NoPlayback
  BY <1>6, QuietSame DEF AfterPlaybackOutcome, Rest, SameFate, SameTurn
<1>7. CASE r.playback = NoPlayback /\ m.type = "playback.finished"
  <2>1. p.kind = "finished" /\ p.frames = m.played_frames /\ p # NoPlayback
    BY <1>7 DEF PlaybackOf, NoPlayback
  <2>2. r.output.terminal = "ended" /\ m.played_frames = r.output.total
    BY <1>7, <2>1 DEF CanAcceptPlaybackOutcome
  <2>3. AfterPlaybackOutcome(d, m) =
          IF r.end /\ ~ IsCancelled(r)
          THEN CompleteResponse(WithResponse(d, id, x), id)
          ELSE WithResponse(d, id, x)
    BY <1>7 DEF AfterPlaybackOutcome, WithPlayback
  <2> HIDE DEF p
  <2>4. x \in Responses /\ x.terminal = r.terminal
    BY <1>2, <1>4 DEF Responses
  <2>5. r.output.received \in Nat
    BY <1>2 DEF Outputs
  <2>6. ResponseKept(r, x)
    BY <1>2, <1>5, <1>7, <2>1, <2>2, <2>5, PlaybackFinished
  <2> HIDE DEF x
  <2>7. CASE r.end /\ ~ IsCancelled(r)
    <3>1. r.terminal = "ended"
      BY <1>1, <1>2, <2>7 DEF Good, Turns, ResponseTurn, EndRecorded, IsCancelled, Responses
    <3>2. r.playback.kind # "finished"
      BY <1>7 DEF NoPlayback
    <3>3. Unfinished(r)
      BY <1>5, <2>2, <3>1, <3>2 DEF Unfinished
    <3>4. d.conversation.response_id = id
      BY <1>1, <3>3 DEF Good, Turns, ResponseTurn
    <3> QED BY <1>1, <2>3, <2>4, <2>6, <2>7, <3>1, <3>4, CompleteStep
  <2>8. CASE ~ (r.end /\ ~ IsCancelled(r))
    BY <1>1, <2>3, <2>4, <2>6, <2>8, RewriteStep
  <2> QED BY <2>7, <2>8
<1>8. CASE r.playback = NoPlayback /\ m.type # "playback.finished"
  <2>1. p.kind = "interrupted" /\ p.frames = m.played_frames /\ p # NoPlayback
    BY <1>8 DEF PlaybackOf, NoPlayback
  <2>2. m.played_frames <= r.output.received
    BY <1>8, <2>1 DEF CanAcceptPlaybackOutcome
  <2>3. AfterPlaybackOutcome(d, m) =
          IF AccountingOnly(d, m) THEN a
          ELSE IF ~ FailsPlayback(m) THEN AfterCancelResponse(a, PlaybackCancel(m))
          ELSE IF Role = "server" THEN AfterFailResponse(a, id, "playback_failed")
          ELSE a
    BY <1>8 DEF AfterPlaybackOutcome
  <2>4. ~ AccountingOnly(d, m) =>
          /\ ~ IsCancelled(r) /\ d.conversation.cancel = "none"
          /\ FailsPlayback(m) /\ Role = "server" => CanFailResponse(a, id, "playback_failed")
          /\ ~ FailsPlayback(m) => CanCancelResponse(a, PlaybackCancel(m))
    BY <1>8, <2>1 DEF CanAcceptPlaybackOutcome, AccountingOnly
  <2>5. Good(a)
    BY <1>1, <1>3, <1>4, <1>8, InterruptedGood
  <2>6. a = WithResponse(d, id, w)
    BY DEF Interrupted
  <2> HIDE DEF a, p
  <2>7. w \in Responses /\ w.terminal = r.terminal /\ w.conversation_id = r.conversation_id
    BY <1>2, <1>4 DEF Responses
  <2>8. ResponseKept(r, w)
    BY <1>2, <1>5, <1>8, <2>1, <2>2, PlaybackInterrupted
  <2> HIDE DEF w
  <2>9. Step(d, a)
    BY <1>1, <2>6, <2>7, <2>8, RewriteStep
  <2>10. ResponseBecomes(d, a, id, w, d.conversation, {})
    BY <1>1, <1>2, <2>6, <2>7, ByResponse
  <2>11. CASE ~ AccountingOnly(d, m) /\ ~ FailsPlayback(m)
    <3> DEFINE cancel == PlaybackCancel(m)
               y == CancelledResponse(w, cancel.reason)
               end == CancellationEnd(d.conversation, w, cancel.reason)
    <3>1. cancel.response_id = id /\ cancel.reason = m.reason
      BY DEF PlaybackCancel, ResponseCancelled
    <3>2. m.reason \in {"barge_in", "local_cancel", "shutdown"}
      BY <1>3, <1>8, <2>11 DEF FailsPlayback, PlaybackInterruptReason
    <3>3. cancel.reason \in ResponseCancelReason
      BY <3>1, <3>2 DEF ResponseCancelReason
    <3>4. a.responses[id] = w /\ a.conversation = d.conversation
      BY <1>1, <1>2, <2>10, Parts DEF ResponseBecomes
    <3>5. ~ IsCancelled(w)
      BY <2>4, <2>7, <2>11 DEF IsCancelled
    <3>6. CanCancelResponse(a, cancel)
      BY <2>4, <2>11
    <3>7. /\ d.conversation.response_id = id
          /\ d.conversation.failure # "none" => cancel.reason = "conversation_cancelled"
      BY <3>1, <3>3, <3>4, <3>5, <3>6 DEF CanCancelResponse, IsCancelled
    <3>8. d.conversation.failure = "none"
      BY <3>1, <3>2, <3>7
    <3> HIDE DEF cancel
    <3>9. /\ ResponseBecomes(d, AfterCancelResponse(a, cancel), id, y,
                             Released(d.conversation, 0, end), CancelGraves(id, w))
          /\ ResponseKept(r, y) /\ y.terminal = cancel.reason
      BY <1>1, <1>5, <2>5, <2>7, <2>8, <2>10, <3>1, <3>3, <3>7, CancelAfter
    <3>10. cancel.reason = "barge_in" => end = "none"
      BY <3>8 DEF CancellationEnd, CancellationEndReason
    <3>11. cancel.reason # "ended"
      BY <3>1, <3>2
    <3> HIDE DEF y, end
    <3>12. Step(d, AfterCancelResponse(a, cancel))
      BY <1>1, <3>7, <3>9, <3>10, <3>11, ReleaseStep
    <3> QED BY <2>3, <2>11, <3>12 DEF cancel
  <2>12. CASE ~ AccountingOnly(d, m) /\ FailsPlayback(m) /\ Role = "server"
    <3>1. "playback_failed" \in ResponseErrorCode
      BY DEF ResponseErrorCode
    <3>2. Step(d, AfterFailResponse(a, id, "playback_failed"))
      BY <1>1, <1>5, <2>4, <2>5, <2>7, <2>8, <2>10, <2>12, <3>1, FailResponseStep
    <3> QED BY <2>3, <2>12, <3>2
  <2> QED BY <2>3, <2>9, <2>11, <2>12
<1> QED BY <1>6, <1>7, <1>8
-----------------------------------------------------------------------------
(* Failures reported by an error message.                                  *)

(* The response of a failing conversation goes stale, and nothing else     *)
(* changes.                                                                *)
Silences(d, e) ==
  /\ Kept(d, e)
  /\ \A r \in Ids : e.responses[r].terminal = d.responses[r].terminal
  /\ d.conversation.response_id # 0 => e.responses[d.conversation.response_id].stale
  /\ e.inputs = d.inputs /\ e.conversation = d.conversation /\ Rest(d, e)

LEMMA StaleResponseSilences ==
  ASSUME NEW d, Good(d)
  PROVE  Silences(d, WithStaleResponse(d))
<1> DEFINE id == d.conversation.response_id
           r == d.responses[id]
           x == [r EXCEPT !.stale = TRUE]
           e == WithResponse(d, id, x)
<1>1. d \in Data /\ DOMAIN d.responses = Ids
  BY Parts DEF Good
<1>2. CASE id = 0
  <2>1. Kept(d, d)
    BY KeptByNone
  <2> QED BY <1>2, <2>1 DEF WithStaleResponse, Silences, Rest
<1>3. CASE id # 0
  <2>1. id \in Ids /\ r \in Responses /\ r.conversation_id # 0
    BY <1>1, <1>3, CurrentResponse, Parts DEF Unfinished
  <2>2. x \in Responses /\ x.terminal = r.terminal /\ x.stale = TRUE
    BY <2>1 DEF Responses
  <2>3. ResponseKept(r, x)
    BY <2>1, ResponseStale
  <2> HIDE DEF x
  <2>4. ResponseBecomes(d, e, id, x, d.conversation, {})
    BY <1>1, <2>1, <2>2, ByResponse
  <2> HIDE DEF e
  <2>5. /\ e.responses = [d.responses EXCEPT ![id] = x] /\ e.inputs = d.inputs
        /\ e.conversation = d.conversation
        /\ d.tombstones \subseteq e.tombstones /\ Rest(d, e)
    BY <2>4 DEF ResponseBecomes
  <2>6. e.ended_conversations = d.ended_conversations
    BY <2>5 DEF Rest
  <2>7. Kept(d, e)
    BY <1>1, <2>1, <2>3, <2>5, <2>6, KeptByResponse
  <2>8. e.responses[id] = x /\ \A k \in Ids : e.responses[k].terminal = d.responses[k].terminal
    BY <1>1, <2>1, <2>2, <2>5
  <2>9. Silences(d, e)
    BY <2>2, <2>5, <2>7, <2>8 DEF Silences
  <2> QED BY <1>3, <2>9 DEF WithStaleResponse, e, x
<1> QED BY <1>2, <1>3

LEMMA FailureMarked ==
  ASSUME NEW d, Good(d), NEW code \in ConversationErrorCode
  PROVE  LET e == WithFailure(WithStaleResponse(d), code) IN
         /\ Good(e) /\ Kept(d, e)
         /\ \A r \in Ids : e.responses[r].terminal = d.responses[r].terminal
         /\ d.conversation.response_id # 0 => e.responses[d.conversation.response_id].stale
         /\ e.inputs = d.inputs
         /\ e.conversation = [d.conversation EXCEPT !.failure = code] /\ Rest(d, e)
<1> DEFINE a == WithStaleResponse(d)
           y == [d.conversation EXCEPT !.failure = code]
           e == WithConversation(a, y)
<1>1. Good(a) /\ Silences(d, a)
  BY StaleResponseGood, StaleResponseSilences
<1>2. Good(WithFailure(a, code))
  BY <1>1, RecordedConversationFailureGood
<1> HIDE DEF a
<1>3. a \in Data /\ a.conversation = d.conversation
  BY <1>1 DEF Good, Silences
<1>4. y \in Conversations
  BY <1>3, Parts, ConversationFields
<1>5. WithFailure(a, code) = e
  BY <1>3 DEF WithFailure
<1> HIDE DEF y
<1>6. /\ e.inputs = a.inputs /\ e.responses = a.responses /\ e.conversation = y
      /\ e.tombstones = a.tombstones /\ Rest(a, e)
  BY <1>3, <1>4, ByConversation
<1> HIDE DEF e
<1>7. Kept(a, e)
  <2>1. \A c \in Ids : a.ended_conversations[c] # "none" =>
          e.ended_conversations[c] = a.ended_conversations[c]
    BY <1>6 DEF Rest
  <2> QED BY <1>6, <2>1, KeptByNone
<1>8. Kept(d, e)
  BY <1>1, <1>7, KeptChain DEF Silences
<1>9. Rest(d, e)
  BY <1>1, <1>6 DEF Silences, Rest
<1>10. /\ \A r \in Ids : e.responses[r].terminal = d.responses[r].terminal
       /\ d.conversation.response_id # 0 => e.responses[d.conversation.response_id].stale
       /\ e.inputs = d.inputs
  BY <1>1, <1>6 DEF Silences
<1> QED BY <1>2, <1>5, <1>6, <1>8, <1>9, <1>10 DEF a, y

(* error of a conversation, received by a client: _record_failure.         *)
LEMMA RecordConversationFailureStep ==
  ASSUME NEW d, Good(d), Role # "server", NEW code \in ConversationErrorCode,
         d.conversation.id # 0, d.conversation.cancel = "none",
         d.conversation.failure = "none"
  PROVE  Step(d, WithFailure(WithStaleResponse(d), code))
<1> DEFINE e == WithFailure(WithStaleResponse(d), code)
           y == [d.conversation EXCEPT !.failure = code]
<1>1. /\ Kept(d, e)
      /\ \A r \in Ids : e.responses[r].terminal = d.responses[r].terminal
      /\ d.conversation.response_id # 0 => e.responses[d.conversation.response_id].stale
      /\ e.inputs = d.inputs
      /\ e.conversation = y /\ Rest(d, e)
  BY FailureMarked
<1>2. d.conversation \in Conversations
  BY Parts DEF Good
<1>3. /\ y.id = d.conversation.id /\ y.cancel = d.conversation.cancel /\ y.failure = code
      /\ y.input_id = d.conversation.input_id /\ y.response_id = d.conversation.response_id
      /\ y.expected_end_reason = d.conversation.expected_end_reason
  BY <1>2 DEF Conversations
<1>4. code # "none"
  BY DEF ConversationErrorCode
<1> HIDE DEF e, y
<1>5. OthersStand(d, e) /\ SameObjects(d, e) /\ SameEndings(d, e) /\ SameTurn(d, e)
  BY <1>1, <1>3 DEF OthersStand, SameObjects, SameEndings, SameTurn, Rest
<1>6. Fails(d, e)
  BY <1>1, <1>3, <1>4, <1>5 DEF Fails, Alive
<1>7. Step(d, e)
  BY <1>1, <1>5, <1>6 DEF Step, Move
<1> QED BY <1>7 DEF e

(* The current input of a failing conversation is closed and finalized.    *)
LEMMA FinalizeTouches ==
  ASSUME NEW d, Good(d), NEW id,
         id # 0 => id \in Ids /\ d.inputs[id].conversation_id # 0
  PROVE  LET e == IF id = 0 THEN d ELSE FinalizeIfMissing(CloseIfOpen(d, id), id) IN
         Good(e) /\ Touches(d, e)
<1> DEFINE b == CloseIfOpen(d, id)
           e == FinalizeIfMissing(b, id)
<1>1. CASE id = 0
  BY <1>1, TouchesSame
<1>2. CASE id # 0
  <2>1. id \in Ids /\ d.inputs[id].conversation_id # 0
    BY <1>2
  <2>2. Good(b) /\ Touches(d, b) /\ b.inputs[id].conversation_id # 0
    BY <2>1, CloseIfOpenGood, CloseIfOpenTouches
  <2> HIDE DEF b
  <2>3. Good(e) /\ Touches(b, e)
    BY <2>1, <2>2, FinalizeIfMissingGood, FinalizeIfMissingTouches
  <2> HIDE DEF e
  <2>4. Touches(d, e)
    BY <2>2, <2>3, TouchesChain
  <2> QED BY <1>2, <2>3, <2>4 DEF e, b
<1> QED BY <1>1, <1>2

(* A current response is cancelled, and the rest of the turn with it.      *)
LEMMA CancelCurrent ==
  ASSUME NEW d, Good(d), NEW m, m.response_id \in Ids, m.reason \in ResponseCancelReason,
         d.conversation.response_id = m.response_id
  PROVE  LET e == AfterCancelResponse(d, m) IN
         /\ Good(e) /\ Kept(d, e) /\ OthersStand(d, e) /\ SameObjects(d, e)
         /\ SameEndings(d, e)
         /\ e.conversation.id = d.conversation.id
         /\ IsCancelled(e.responses[m.response_id])
<1> DEFINE id == m.response_id
           r == d.responses[id]
           x == CancelledResponse(r, m.reason)
           end == CancellationEnd(d.conversation, r, m.reason)
           e == AfterCancelResponse(d, m)
<1>1. d.conversation \in Conversations /\ r \in Responses /\ DOMAIN d.responses = Ids
  BY Parts DEF Good
<1>2. Good(e) /\ ResponseBecomes(d, e, id, x, Released(d.conversation, 0, end), CancelGraves(id, r))
  BY CancelGood, CancelBecomes
<1>3. r.conversation_id # 0 /\ ~ IsCancelled(r)
  <2>1. Unfinished(r)
    BY NoneIds, CurrentResponse
  <2> QED BY <2>1 DEF Unfinished, IsCancelled, ResponseCancelReason
<1>4. ResponseKept(r, x)
  BY <1>1, <1>3, ResponseCancel
<1>5. x.terminal = m.reason
  BY <1>1 DEF CancelledResponse, Responses
<1> HIDE DEF x, e, end
<1>6. Kept(d, e) /\ OthersStand(d, e) /\ SameObjects(d, e) /\ SameEndings(d, e)
  BY <1>2, <1>4, ResponseKeeps
<1>7. e.conversation.id = d.conversation.id /\ e.responses[id] = x
  BY <1>1, <1>2, ReleasedFields DEF ResponseBecomes
<1>8. IsCancelled(e.responses[id])
  BY <1>5, <1>7 DEF IsCancelled
<1> QED BY <1>2, <1>6, <1>7, <1>8 DEF e
(* error of a conversation, decided by the server: _fail_conversation.     *)
LEMMA FailConversationStep ==
  ASSUME NEW d, Good(d), Past(d), NEW code \in ConversationErrorCode,
         d.conversation.id \in Ids, d.conversation.cancel = "none",
         d.conversation.failure = "none", CanFailConversation(d, code)
  PROVE  Step(d, AfterEndConversation(FailedConversation(d, code),
                                      FailConversationEnd(d, code)))
<1> DEFINE c == d.conversation
           reason == FailureEndReason(code)
           b == WithFailure(WithStaleResponse(d), code)
           f == IF c.input_id = 0 THEN b
                ELSE FinalizeIfMissing(CloseIfOpen(b, c.input_id), c.input_id)
           cancel == ResponseCancelled(c.id, c.response_id, "conversation_cancelled")
           g == FailedConversation(d, code)
           end == FailConversationEnd(d, code)
           h == AfterEndConversation(g, end)
<1>1. d \in Data /\ c \in Conversations /\ c.response_id \in OptionalIds
  BY Parts DEF Good, Conversations
<1>2. /\ Good(b) /\ Kept(d, b)
      /\ \A r \in Ids : b.responses[r].terminal = d.responses[r].terminal
      /\ b.inputs = d.inputs
      /\ b.conversation = [c EXCEPT !.failure = code] /\ Rest(d, b)
  BY FailureMarked
<1>3. g = IF c.response_id = 0 THEN f ELSE AfterCancelResponse(f, cancel)
  BY DEF FailedConversation
<1> HIDE DEF b
<1>4. /\ b.conversation.id = c.id /\ b.conversation.input_id = c.input_id
      /\ b.conversation.response_id = c.response_id
      /\ b.conversation.expected_end_reason = c.expected_end_reason
  BY <1>1, <1>2 DEF Conversations
<1>5. c.input_id # 0 => c.input_id \in Ids /\ b.inputs[c.input_id].conversation_id # 0
  <2>1. CASE c.input_id # 0
    <3>1. d.inputs[c.input_id].conversation_id = c.id
      BY <2>1 DEF Good, Turns, CurrentInput
    <3>2. c.input_id \in Ids /\ c.id # 0
      BY <1>1, <2>1, Numbers, NoneIds
    <3> QED BY <1>2, <3>1, <3>2
  <2> QED BY <2>1
<1>6. Good(f) /\ Touches(b, f)
  BY <1>2, <1>5, FinalizeTouches
<1> HIDE DEF f, g, h
<1>7. /\ Kept(d, f) /\ OthersStand(d, f) /\ SameObjects(d, f) /\ SameEndings(d, f)
      /\ f.conversation = b.conversation
  <2>1. Kept(d, f)
    BY <1>2, <1>6, KeptChain DEF Touches
  <2>2. OthersStand(d, f) /\ SameObjects(d, f) /\ SameEndings(d, f)
    BY <1>2, <1>6 DEF Touches, OthersStand, SameObjects, SameEndings, Rest
  <2> QED BY <1>6, <2>1, <2>2 DEF Touches
<1>8. /\ Good(g) /\ Kept(d, g) /\ OthersStand(d, g) /\ SameObjects(d, g) /\ SameEndings(d, g)
      /\ g.conversation.id = c.id
      /\ c.response_id # 0 => IsCancelled(g.responses[c.response_id])
      /\ c.response_id = 0 => g.conversation.expected_end_reason = c.expected_end_reason
  <2>1. CASE c.response_id = 0
    BY <1>3, <1>4, <1>6, <1>7, <2>1
  <2>2. CASE c.response_id # 0
    <3>1. /\ cancel.response_id \in Ids /\ cancel.response_id = c.response_id
          /\ cancel.reason \in ResponseCancelReason
      BY <1>1, <2>2, NoneIds DEF ResponseCancelled, ResponseCancelReason
    <3>2. f.conversation.response_id = cancel.response_id
      BY <1>4, <1>7, <3>1
    <3> HIDE DEF cancel
    <3>3. /\ Good(g) /\ Kept(f, g) /\ OthersStand(f, g) /\ SameObjects(f, g)
          /\ SameEndings(f, g)
          /\ g.conversation.id = f.conversation.id
          /\ IsCancelled(g.responses[cancel.response_id])
      BY <1>3, <1>6, <2>2, <3>1, <3>2, CancelCurrent
    <3>4. Kept(d, g)
      BY <1>7, <3>3, KeptChain
    <3>5. OthersStand(d, g)
      BY <1>4, <1>7, <3>3 DEF OthersStand
    <3>6. SameObjects(d, g) /\ SameEndings(d, g)
      BY <1>7, <3>3 DEF SameObjects, SameEndings
    <3> QED BY <1>4, <1>7, <2>2, <3>1, <3>3, <3>4, <3>5, <3>6
  <2> QED BY <2>1, <2>2
<1>9. /\ end.conversation_id = c.id /\ end.reason = reason
      /\ reason \in {"idle_timeout", "server_failed"} /\ reason \in ConversationEndReason
  BY DEF FailConversationEnd, ConversationEnded, FailureEndReason, ConversationEndReason
<1>10. d.ended_conversations[c.id] = "none" /\ g.ended_conversations[c.id] = "none"
  BY <1>8 DEF Past, SameEndings
<1>11. c.expected_end_reason # "none" => reason = c.expected_end_reason
  <2>1. CASE c.response_id = 0
    <3>1. CanEndConversation(g, end)
      BY DEF CanFailConversation, g, end
    <3>2. g.conversation.expected_end_reason # "none" =>
            end.reason = g.conversation.expected_end_reason
      BY <1>9, <1>10, <3>1 DEF CanEndConversation
    <3> QED BY <1>8, <1>9, <2>1, <3>2
  <2>2. CASE c.response_id # 0
    BY <2>2, CurrentResponse
  <2> QED BY <2>1, <2>2
<1> HIDE DEF end, reason
<1>12. EndBecomes(g, h, c.id, reason)
  <2>1. g \in Data
    BY <1>8 DEF Good
  <2> QED BY <1>9, <1>10, <2>1, EndConversationBecomes DEF h
<1>13. Kept(g, h) /\ SameObjects(g, h) /\ h.ended_conversations[c.id] = reason
  <2>1. g \in Data /\ c.id \in Ids /\ g.ended_conversations[c.id] = "none"
    BY <1>8, <1>10 DEF Good
  <2> QED BY ONLY <2>1, <1>12, EndKeeps
<1>14. Kept(d, h)
  BY <1>8, <1>13, KeptChain
<1>15. /\ OthersStand(d, h) /\ SameObjects(d, h)
       /\ c.response_id # 0 => IsCancelled(h.responses[c.response_id])
       /\ h.ended_conversations = [d.ended_conversations EXCEPT ![c.id] = reason]
       /\ h.conversation = NoConversation
  BY <1>8, <1>12, <1>13 DEF OthersStand, SameObjects, SameEndings, EndBecomes
<1>16. EndsFailed(d, reason)
  BY <1>9, NoneIds DEF EndsFailed, Alive
<1>17. Ends(d, h)
  BY <1>9, <1>11, <1>13, <1>15, <1>16 DEF Ends
<1>18. Step(d, h)
  BY <1>14, <1>15, <1>17 DEF Step, Move
<1> QED BY <1>18 DEF h, g, end

(* error of an input, a response or a conversation.                        *)
LEMMA ErrorStep ==
  ASSUME NEW d, Good(d), Past(d), ServerLives(d),
         NEW m \in AnyErrors \ ConnectionErrors, CanAcceptError(d, m)
  PROVE  Step(d, AfterError(d, m))
<1>1. CASE m \in AnyConversationErrors
  <2>1. /\ m.scope = "conversation" /\ m.conversation_id \in Ids
        /\ m.code \in ConversationErrorCode
    BY <1>1 DEF AnyConversationErrors, Error
  <2>2. AfterError(d, m) = AfterConversationError(d, m)
    BY <2>1 DEF AfterError
  <2>3. /\ d.conversation.id \in Ids /\ d.conversation.cancel = "none"
        /\ d.conversation.failure = "none"
        /\ Role = "server" => CanFailConversation(d, m.code)
    BY <2>1 DEF CanAcceptError, Live, Open
  <2>4. CASE Role = "server"
    BY <2>1, <2>2, <2>3, <2>4, FailConversationStep DEF AfterConversationError
  <2>5. CASE Role # "server"
    BY <2>1, <2>2, <2>3, <2>5, NoneIds, RecordConversationFailureStep
       DEF AfterConversationError
  <2> QED BY <2>4, <2>5
<1>2. CASE m \in AnyInputErrors
  <2>1. m.scope = "input" /\ m.input_id \in Ids /\ m.code \in InputErrorCode
        /\ m.conversation_id \in Ids
    BY <1>2 DEF AnyInputErrors, Error
  <2>2. AfterError(d, m) = AfterInputError(d, m)
    BY <2>1 DEF AfterError
  <2> DEFINE id == m.input_id
             i == d.inputs[id]
             x == [i EXCEPT !.failure = m.code]
  <2>3. i \in Inputs /\ i.conversation_id # 0 /\ i.failure = "none"
    BY <2>1, NoneIds, Parts DEF CanAcceptError, KnownInput, Good
  <2>4. CASE Role = "server"
    BY <2>1, <2>2, <2>3, <2>4, FailInputStep DEF AfterInputError
  <2>5. CASE Role # "server"
    <3>1. x \in Inputs /\ x.response_id = i.response_id
      BY <2>1, <2>3, InputFields DEF Inputs
    <3>2. InputKept(i, x)
      BY <2>3, <2>5, InputFailed
    <3> HIDE DEF x
    <3>3. Touches(d, WithInput(d, id, x))
      BY <2>1, <3>1, <3>2, WithInputTouches
    <3>4. AfterError(d, m) = WithInput(d, id, x)
      BY <2>2, <2>5 DEF AfterInputError, WithInputFailure, x
    <3> QED BY <3>3, <3>4, TouchesStep
  <2> QED BY <2>4, <2>5
<1>3. CASE m \in AnyResponseErrors
  <2>1. /\ m.scope = "response" /\ m.response_id \in Ids /\ m.conversation_id \in Ids
        /\ m.code \in ResponseErrorCode
    BY <1>3 DEF AnyResponseErrors, Error
  <2>2. AfterError(d, m) = AfterResponseError(d, m)
    BY <2>1 DEF AfterError
  <2> DEFINE id == m.response_id
             r == d.responses[id]
             x == [r EXCEPT !.failure = m.code, !.stale = TRUE]
  <2>3. /\ r \in Responses /\ r.conversation_id # 0 /\ d.conversation.cancel = "none"
        /\ Role = "server" => CanFailResponse(d, id, m.code)
    BY <2>1, NoneIds, Parts DEF CanAcceptError, KnownResponse, Good, Live
  <2>4. CASE Role = "server"
    <3>1. d.responses = [d.responses EXCEPT ![id] = r] /\ d.tombstones = d.tombstones \cup {}
      BY DEF Good, Data
    <3>2. ResponseBecomes(d, d, id, r, d.conversation, {}) /\ ResponseKept(r, r)
      BY <3>1, ResponseSame DEF ResponseBecomes, Rest
    <3>3. Step(d, AfterFailResponse(d, id, m.code))
      BY <2>1, <2>3, <2>4, <3>2, FailResponseStep
    <3> QED BY <2>2, <2>4, <3>3 DEF AfterResponseError
  <2>5. CASE Role # "server"
    <3>1. x \in Responses /\ x.terminal = r.terminal
      BY <2>1, <2>3 DEF Responses
    <3>2. ResponseKept(r, x)
      BY <2>3, <2>5, ResponseFailed
    <3> HIDE DEF x
    <3>3. Step(d, WithResponse(d, id, x))
      BY <2>1, <3>1, <3>2, RewriteStep
    <3> QED BY <2>2, <2>5, <3>3 DEF AfterResponseError, WithResponseFailure, x
  <2> QED BY <2>4, <2>5
<1> QED BY <1>1, <1>2, <1>3 DEF AnyErrors
=============================================================================
