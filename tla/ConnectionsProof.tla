-------------------------- MODULE ConnectionsProof --------------------------
(***************************************************************************)
(* Proofs about Connections, for any number of clients, attempts, slots    *)
(* and mishaps: a client has one connection at a time, none once close has *)
(* returned, and a closed server is empty.                                 *)
(***************************************************************************)
EXTENDS Connections, TLAPS

-----------------------------------------------------------------------------
(* The inductive invariant.                                                *)

ClientTask == {"none", "dialing", "hello", "undo", "up", "delay", "finish", "over"}
ClientRecord ==
  [call : {"none", "running", "returned", "raised"}, task : ClientTask, link : {0} \cup Links,
   cancelled : BOOLEAN, stop : BOOLEAN, failed : BOOLEAN,
   closing : {"none", "called", "connect", "goodbye", "monitor", "returned", "failed"},
   closed : BOOLEAN]
End == {"open", "1001", "other"}
LinkRecord ==
  [owner : Clients \cup {"none"}, client : End, server : End,
   handler : {"none", "rejecting", "handshake", "session", "leaving", "gone"},
   answered : BOOLEAN, session : BOOLEAN]
ServerRecord ==
  [serve : {"none", "starting", "serving", "undoing", "failed"}, listener : BOOLEAN,
   accepting : BOOLEAN,
   closing : {"none", "called", "serve", "advertiser", "sessions", "listener", "returned"},
   leaving : SUBSET Links, raised : BOOLEAN, closed : BOOLEAN]

Types ==
  /\ client \in [Clients -> ClientRecord]
  /\ link \in [Links -> LinkRecord]
  /\ server \in ServerRecord

(* A link nobody dialed has no owner, so dialing takes it from nobody.     *)
Unused == \A k \in Links : link[k].handler = "none" => link[k].owner = "none"

(* An open client end is the connection its owner is on.                   *)
Held ==
  \A k \in Links : \A c \in Clients :
    link[k].owner = c /\ link[k].client = "open" =>
      client[c].link = k /\ client[c].task \in {"hello", "up"}

(* Whoever is on a connection owns it; nobody dials before connect was     *)
(* called, waits to reconnect without a monitor, or goes on once closed;   *)
(* a close that failed has told the monitor to stop.                       *)
OnLink(r) == r.task \in {"hello", "undo", "up"}
Owned == \A c \in Clients : OnLink(client[c]) =>
           client[c].link \in Links /\ link[client[c].link].owner = c
SettledRecord(r) ==
  /\ r.call = "none" => r.task = "none"
  /\ r.task \in {"up", "delay"} => r.call = "returned"
  /\ r.closing = "returned" => r.task \in {"none", "finish", "over"}
  /\ r.closing = "failed" => r.stop /\ r.task \in {"up", "finish", "over"}
Settled == \A c \in Clients : SettledRecord(client[c])

ClientInv == Types /\ Unused /\ Held /\ Owned /\ Settled

-----------------------------------------------------------------------------
(* What a step on one client, with ends that only close, must show.        *)

Shrinks(l) ==
  /\ l \in [Links -> LinkRecord]
  /\ \A k \in Links :
       /\ l[k].owner = link[k].owner
       /\ l[k].handler = "none" => link[k].handler = "none"
       /\ l[k].client = "open" => link[k].client = "open"

LEMMA LinksShrink ==
  ASSUME ClientInv, client' = client, server' \in ServerRecord, Shrinks(link')
  PROVE  ClientInv'
BY DEF ClientInv, Types, Unused, Held, Owned, Settled, SettledRecord, OnLink, Shrinks, Links, ClientRecord

LEMMA OneClientMoves ==
  ASSUME ClientInv, NEW c \in Clients, NEW r \in ClientRecord, SettledRecord(r),
         client' = [client EXCEPT ![c] = r], server' = server, Shrinks(link'),
         \A k \in Links : link[k].owner = c /\ link'[k].client = "open" =>
                            r.link = k /\ r.task \in {"hello", "up"},
         OnLink(r) => OnLink(client[c]) /\ r.link = client[c].link
  PROVE  ClientInv'
<1>1. Types'
  BY DEF ClientInv, Types, Shrinks
<1>2. Unused'
  BY DEF ClientInv, Unused, Shrinks
<1>3. /\ client'[c] = r
      /\ \A d \in Clients \ {c} : client'[d] = client[d]
  BY DEF ClientInv, Types
<1>4. Held'
  <2> SUFFICES ASSUME NEW k \in Links, NEW d \in Clients,
                      link'[k].owner = d, link'[k].client = "open"
               PROVE  client'[d].link = k /\ client'[d].task \in {"hello", "up"}
    BY DEF Held, Links
  <2>1. link[k].owner = d /\ link[k].client = "open"
    BY DEF Shrinks
  <2>2. CASE d = c
    BY <2>1, <2>2, <1>3
  <2>3. CASE d # c
    BY <2>1, <2>3, <1>3 DEF ClientInv, Held
  <2> QED BY <2>2, <2>3
<1>5. Owned'
  <2> SUFFICES ASSUME NEW d \in Clients, OnLink(client'[d])
               PROVE  client'[d].link \in Links /\ link'[client'[d].link].owner = d
    BY DEF Owned, OnLink, Links
  <2>1. OnLink(client[d]) /\ client'[d].link = client[d].link
    BY <1>3
  <2>2. client[d].link \in Links /\ link[client[d].link].owner = d
    BY <2>1 DEF ClientInv, Owned
  <2> QED BY <2>1, <2>2 DEF Shrinks
<1>6. Settled'
  BY <1>3 DEF ClientInv, Settled, SettledRecord
<1> QED BY <1>1, <1>2, <1>4, <1>5, <1>6 DEF ClientInv

LEMMA NothingShrinks ==
  ASSUME ClientInv, link' = link
  PROVE  Shrinks(link')
BY DEF ClientInv, Types, Shrinks

LEMMA ClosedEnds ==
  ASSUME ClientInv, NEW k \in Links, NEW code \in {"1001", "other"}
  PROVE  /\ Shrinks(ClientEnd(k, code)) /\ ClientEnd(k, code)[k].client # "open"
         /\ Shrinks(ServerEnd(k, code))
BY DEF ClientInv, Types, Shrinks, ClientEnd, ServerEnd, LinkRecord, End

-----------------------------------------------------------------------------
(* The steps of connections and of the server.                             *)

(* What the handler of a connection may change of it.                      *)
Handled(l) ==
  {r \in LinkRecord : r.owner = l.owner /\ r.client = l.client /\ r.handler # "none"}

LEMMA HandlerMoves ==
  ASSUME NEW k \in Links, NEW l, Shrinks(l),
         NEW m \in {[l EXCEPT ![k] = r] : r \in Handled(l[k])}
  PROVE  Shrinks(m)
BY DEF Shrinks, Handled

LEMMA LinkSteps ==
  ASSUME ClientInv, server' \in ServerRecord, NEW k \in Links,
         \/ ClientNotices(k) \/ ServerNotices(k) \/ Lost(k)
         \/ Rejected(k) \/ ServerShakesHands(k) \/ HandshakeFails(k) \/ FactoryRaises(k)
         \/ SessionFails(k) \/ SessionEnds(k) \/ Leaves(k)
         \/ ShutsDown(k) \/ ShutdownRaises(k)
  PROVE  ClientInv'
<1>1. CASE ClientNotices(k)
  <2>1. link[k].server \in {"1001", "other"}
    BY <1>1 DEF ClientNotices, ClientInv, Types, LinkRecord, End
  <2> QED BY <1>1, <2>1, ClosedEnds, LinksShrink DEF ClientNotices
<1>2. CASE ServerNotices(k)
  <2>1. link[k].client \in {"1001", "other"}
    BY <1>2 DEF ServerNotices, ClientInv, Types, LinkRecord, End
  <2> QED BY <1>2, <2>1, ClosedEnds, LinksShrink DEF ServerNotices
<1>3. CASE Lost(k)
  BY <1>3, ClosedEnds, LinksShrink DEF Lost
<1>4. CASE SessionFails(k) \/ ShutsDown(k)
  BY <1>4, ClosedEnds, LinksShrink DEF SessionFails, ShutsDown
<1>5. CASE ShutdownRaises(k)
  BY <1>5, NothingShrinks, LinksShrink DEF ShutdownRaises
<1>6. CASE Rejected(k) \/ ServerShakesHands(k) \/ SessionEnds(k) \/ Leaves(k)
  <2>1. Shrinks(link)
    BY DEF Shrinks, ClientInv, Types
  <2>2. link' \in {[link EXCEPT ![k] = r] : r \in Handled(link[k])}
    BY <1>6 DEF Rejected, ServerShakesHands, SessionEnds, Leaves, ClientInv, Types, LinkRecord, Handled
  <2>3. Shrinks(link')
    BY <2>1, <2>2, HandlerMoves
  <2> QED BY <1>6, <2>3, LinksShrink DEF Rejected, ServerShakesHands, SessionEnds, Leaves
<1>7. CASE HandshakeFails(k) \/ FactoryRaises(k)
  <2> DEFINE l == ServerEnd(k, "other")
  <2>1. Shrinks(l)
    BY ClosedEnds
  <2>2. link' \in {[l EXCEPT ![k] = r] : r \in Handled(l[k])}
    <3> HIDE DEF l
    <3>1. l \in [Links -> LinkRecord]
      BY <2>1 DEF Shrinks
    <3>2. CASE link' = [l EXCEPT ![k].handler = "leaving"]
      BY <3>1, <3>2 DEF LinkRecord, Handled
    <3>3. CASE link' = [l EXCEPT ![k].handler = "leaving", ![k].answered = TRUE,
                                 ![k].session = TRUE]
      BY <3>1, <3>3 DEF LinkRecord, Handled
    <3> QED BY <1>7, <3>2, <3>3 DEF HandshakeFails, FactoryRaises, l
  <2>3. Shrinks(link')
    BY <2>1, <2>2, HandlerMoves
  <2> QED BY <1>7, <2>3, LinksShrink DEF HandshakeFails, FactoryRaises
<1> QED BY <1>1, <1>2, <1>3, <1>4, <1>5, <1>6, <1>7

LEMMA ServerSteps ==
  ASSUME ClientInv, server' \in ServerRecord,
         \/ Serve \/ Listens \/ Advertised \/ ServeFails \/ ServeRaises
         \/ ServerCloseCalled \/ ServerCloseBegins \/ ServeCancelled \/ Unadvertised
         \/ ListenerCloses \/ ListenerClosed
  PROVE  ClientInv'
<1>1. CASE ListenerCloses
  <2>1. Shrinks(link')
    BY <1>1 DEF ListenerCloses, Shrinks, ClientInv, Types, LinkRecord, End
  <2> QED BY <1>1, <2>1, LinksShrink DEF ListenerCloses
<1>2. CASE ~ ListenerCloses
  <2>1. link' = link /\ client' = client
    BY <1>2 DEF Serve, Listens, Advertised, ServeFails, ServeRaises, ServerCloseCalled,
                ServerCloseBegins, ServeCancelled, Unadvertised, ListenerClosed
  <2> QED BY <2>1, NothingShrinks, LinksShrink
<1> QED BY <1>1, <1>2

-----------------------------------------------------------------------------
(* The steps of a client.                                                  *)

(* A connection of its own that is no longer open, or that it has left.    *)
LEMMA NothingHeld ==
  ASSUME ClientInv, NEW c \in Clients,
         OnLink(client[c]) => link[client[c].link].client # "open"
  PROVE  \A k \in Links : link[k].owner = c => link[k].client # "open"
BY DEF ClientInv, Held, OnLink

LEMMA FailedRecord ==
  ASSUME ClientInv, NEW c \in Clients, NEW again \in BOOLEAN,
         client[c].task \in {"dialing", "hello", "undo", "up"},
         again => client[c].task # "up" \/ ~ client[c].stop
  PROVE  /\ Failing(c, again) \in ClientRecord /\ SettledRecord(Failing(c, again))
         /\ ~ OnLink(Failing(c, again))
BY ZenonT(30) DEF ClientInv, Types, Settled, SettledRecord, ClientRecord, ClientTask, OnLink,
                  Failing, Monitored

(* Leaving an attempt or a connection that is over.                        *)
LEMMA AttemptLeft ==
  ASSUME ClientInv, NEW c \in Clients, NEW again \in BOOLEAN,
         client[c].task \in {"dialing", "hello", "undo", "up"},
         again => client[c].task # "up" \/ ~ client[c].stop,
         client[c].task \in {"hello", "up"} => link[client[c].link].client # "open",
         client' = [client EXCEPT ![c] = Failing(c, again)], link' = link, server' = server
  PROVE  ClientInv'
<1>1. \A k \in Links : link[k].owner = c => link[k].client # "open"
  BY DEF ClientInv, Held
<1> DEFINE r == Failing(c, again)
<1>2. r \in ClientRecord /\ SettledRecord(r) /\ ~ OnLink(r)
  BY FailedRecord
<1>3. Shrinks(link')
  BY NothingShrinks
<1>4. client' = [client EXCEPT ![c] = r]
  OBVIOUS
<1> HIDE DEF r
<1>5. \A k \in Links : link[k].owner = c /\ link'[k].client = "open" =>
                         r.link = k /\ r.task \in {"hello", "up"}
  BY <1>1
<1> QED BY <1>2, <1>3, <1>4, <1>5, OneClientMoves

(* A step that stays on the connection it is on, or on none.               *)
LEMMA RecordMoves ==
  ASSUME ClientInv, NEW c \in Clients, NEW r \in ClientRecord, SettledRecord(r),
         r.link = client[c].link, OnLink(r) => OnLink(client[c]),
         client[c].task \in {"hello", "up"} => r.task \in {"hello", "up"},
         client' = [client EXCEPT ![c] = r], link' = link, server' = server
  PROVE  ClientInv'
<1>1. \A k \in Links : link[k].owner = c /\ link[k].client = "open" =>
                         client[c].link = k /\ client[c].task \in {"hello", "up"}
  BY DEF ClientInv, Held
<1>2. \A k \in Links : link[k].owner = c /\ link'[k].client = "open" =>
                         r.link = k /\ r.task \in {"hello", "up"}
  BY <1>1
<1>3. Shrinks(link')
  BY NothingShrinks
<1> QED BY <1>2, <1>3, OneClientMoves

(* The same, for a step that closes the client's end.                      *)
LEMMA EndCloses ==
  ASSUME ClientInv, NEW c \in Clients, NEW r \in ClientRecord, SettledRecord(r),
         r.link = client[c].link, OnLink(r), OnLink(client[c]),
         client' = [client EXCEPT ![c] = r], server' = server,
         link' = ClientEnd(client[c].link, "other")
  PROVE  ClientInv'
<1>1. client[c].link \in Links
  BY DEF ClientInv, Owned
<1>2. Shrinks(link') /\ link'[client[c].link].client # "open"
  BY <1>1, ClosedEnds
<1>3. \A k \in Links : link[k].owner = c /\ link'[k].client = "open" => FALSE
  BY <1>1, <1>2 DEF ClientInv, Held, Shrinks
<1> QED BY <1>2, <1>3, OneClientMoves

LEMMA DialedGood ==
  ASSUME ClientInv, NEW c \in Clients, Dialed(c)
  PROVE  ClientInv'
<1>1. PICK k \in Links :
        /\ link[k].handler = "none"
        /\ link' = [link EXCEPT ![k] = Admitted(c)]
        /\ client' = [client EXCEPT ![c].task = "hello", ![c].link = k]
  BY DEF Dialed, Free
<1>2. /\ client[c].task = "dialing" /\ server' = server
      /\ link[k].owner = "none"
  BY <1>1 DEF Dialed, ClientInv, Unused
<1>3. \A d \in Clients : OnLink(client[d]) => client[d].link # k
  BY <1>2, ConnectionsAssumption DEF ClientInv, Owned
<1>4. /\ Admitted(c) \in LinkRecord /\ Admitted(c).owner = c
      /\ Admitted(c).handler # "none"
  BY DEF Admitted, NewLink, LinkRecord, End
<1>5. /\ link' \in [Links -> LinkRecord]
      /\ link'[k].owner = c /\ link'[k].handler # "none"
      /\ \A j \in Links \ {k} : link'[j] = link[j]
  BY <1>1, <1>4 DEF ClientInv, Types
<1>6. /\ client' \in [Clients -> ClientRecord]
      /\ client'[c].task = "hello" /\ client'[c].link = k
      /\ client'[c].closing = client[c].closing /\ client'[c].call = client[c].call
      /\ \A d \in Clients \ {c} : client'[d] = client[d]
  <2> DEFINE r == [client[c] EXCEPT !.task = "hello", !.link = k]
  <2>1. client \in [Clients -> ClientRecord]
    BY DEF ClientInv, Types
  <2>2. client' = [client EXCEPT ![c] = r]
    BY <1>1, <2>1
  <2>3. /\ r \in ClientRecord /\ r.task = "hello" /\ r.link = k
        /\ r.closing = client[c].closing /\ r.call = client[c].call
    BY <2>1, ZenonT(30) DEF ClientRecord, ClientTask
  <2> HIDE DEF r
  <2> QED BY <2>1, <2>2, <2>3
<1>7. Types' /\ Unused'
  BY <1>2, <1>5, <1>6, ConnectionsAssumption DEF ClientInv, Types, Unused
<1>8. Held'
  <2> SUFFICES ASSUME NEW j \in Links, NEW d \in Clients,
                      link'[j].owner = d, link'[j].client = "open"
               PROVE  client'[d].link = j /\ client'[d].task \in {"hello", "up"}
    BY DEF Held, Links
  <2>1. CASE j = k
    BY <2>1, <1>5, <1>6
  <2>2. CASE j # k
    <3>1. client[d].link = j /\ client[d].task \in {"hello", "up"}
      BY <2>2, <1>5 DEF ClientInv, Held
    <3> QED BY <3>1, <1>2, <1>6
  <2> QED BY <2>1, <2>2
<1>9. Owned'
  <2> SUFFICES ASSUME NEW d \in Clients, OnLink(client'[d])
               PROVE  client'[d].link \in Links /\ link'[client'[d].link].owner = d
    BY DEF Owned, OnLink, Links
  <2>1. CASE d = c
    BY <2>1, <1>5, <1>6
  <2>2. CASE d # c
    <3>1. OnLink(client[d]) /\ client'[d].link = client[d].link
      BY <2>2, <1>6
    <3>2. client[d].link \in Links /\ link[client[d].link].owner = d /\ client[d].link # k
      BY <3>1, <1>3 DEF ClientInv, Owned
    <3> QED BY <3>1, <3>2, <1>5
  <2> QED BY <2>1, <2>2
<1>10. Settled'
  BY <1>2, <1>6 DEF ClientInv, Settled, SettledRecord
<1> QED BY <1>7, <1>8, <1>9, <1>10 DEF ClientInv

LEMMA AttemptSteps ==
  ASSUME ClientInv, NEW c \in Clients,
         \/ DialFails(c) \/ HelloArrives(c) \/ HelloFails(c)
         \/ AttemptCancelled(c) \/ Undone(c) \/ ConnectionOver(c)
  PROVE  ClientInv'
<1>0. client[c] \in ClientRecord /\ SettledRecord(client[c])
  BY DEF ClientInv, Types, Settled
<1>1. CASE DialFails(c)
  <2>1. \E again \in BOOLEAN : client' = [client EXCEPT ![c] = Failing(c, again)]
    BY <1>1 DEF DialFails
  <2>2. client[c].task = "dialing" /\ link' = link /\ server' = server
    BY <1>1 DEF DialFails
  <2> QED BY <2>1, <2>2, AttemptLeft
<1>2. CASE HelloArrives(c)
  <2> DEFINE r == [client[c] EXCEPT !.task = "up", !.call = "returned"]
  <2>1. /\ client[c].task = "hello" /\ server' = server /\ client' = [client EXCEPT ![c] = r]
        /\ link' = IF client[c].failed THEN ClientEnd(client[c].link, "other") ELSE link
    BY <1>2 DEF HelloArrives
  <2>2. /\ r \in ClientRecord /\ SettledRecord(r) /\ r.link = client[c].link
        /\ OnLink(r) /\ OnLink(client[c]) /\ r.task \in {"hello", "up"}
    BY <1>0, <2>1 DEF ClientRecord, ClientTask, SettledRecord, OnLink
  <2> HIDE DEF r
  <2>3. CASE client[c].failed
    BY <2>1, <2>2, <2>3, EndCloses
  <2>4. CASE ~ client[c].failed
    BY <2>1, <2>2, <2>4, RecordMoves
  <2> QED BY <2>3, <2>4
<1>3. CASE HelloFails(c)
  <2>1. CASE /\ Mine(c).client # "open" /\ link' = link
             /\ client' = [client EXCEPT ![c] = Failing(c, Eligible(Mine(c).client))]
    BY <1>3, <2>1, AttemptLeft DEF HelloFails, Mine, Eligible
  <2>2. CASE /\ link' = ClientEnd(client[c].link, "other")
             /\ client' = [client EXCEPT ![c].task = "undo"]
    <3> DEFINE r == [client[c] EXCEPT !.task = "undo"]
    <3>1. /\ client[c].task = "hello" /\ server' = server /\ client' = [client EXCEPT ![c] = r]
      BY <1>3, <2>2 DEF HelloFails
    <3>2. /\ r \in ClientRecord /\ SettledRecord(r) /\ r.link = client[c].link
          /\ OnLink(r) /\ OnLink(client[c])
      BY <1>0, <3>1 DEF ClientRecord, ClientTask, SettledRecord, OnLink
    <3> HIDE DEF r
    <3> QED BY <2>2, <3>1, <3>2, EndCloses
  <2> QED BY <1>3, <2>1, <2>2 DEF HelloFails
<1>4. CASE AttemptCancelled(c)
  <2>1. CASE /\ client[c].task = "dialing" /\ link' = link
             /\ client' = [client EXCEPT ![c] = Failing(c, FALSE)]
    BY <1>4, <2>1, AttemptLeft DEF AttemptCancelled
  <2>2. CASE /\ client[c].task = "hello" /\ link' = ClientEnd(client[c].link, "other")
             /\ client' = [client EXCEPT ![c].task = "undo"]
    <3> DEFINE r == [client[c] EXCEPT !.task = "undo"]
    <3>1. server' = server /\ client' = [client EXCEPT ![c] = r]
      BY <1>4, <2>2 DEF AttemptCancelled
    <3>2. /\ r \in ClientRecord /\ SettledRecord(r) /\ r.link = client[c].link
          /\ OnLink(r) /\ OnLink(client[c])
      BY <1>0, <2>2 DEF ClientRecord, ClientTask, SettledRecord, OnLink
    <3> HIDE DEF r
    <3> QED BY <2>2, <3>1, <3>2, EndCloses
  <2> QED BY <1>4, <2>1, <2>2 DEF AttemptCancelled
<1>5. CASE Undone(c)
  <2>1. \E again \in BOOLEAN : client' = [client EXCEPT ![c] = Failing(c, again)]
    BY <1>0, <1>5 DEF Undone, ClientRecord
  <2>2. client[c].task = "undo" /\ link' = link /\ server' = server
    BY <1>5 DEF Undone
  <2> QED BY <2>1, <2>2, AttemptLeft
<1>6. CASE ConnectionOver(c)
  <2>1. \E again \in BOOLEAN :
          /\ client' = [client EXCEPT ![c] = Failing(c, again)]
          /\ again => ~ client[c].stop
    <3>1. client[c].stop \in BOOLEAN /\ client[c].failed \in BOOLEAN
      BY <1>0 DEF ClientRecord
    <3> QED BY <1>6, <3>1 DEF ConnectionOver, Eligible
  <2> QED BY <1>6, <2>1, AttemptLeft DEF ConnectionOver, Mine
<1> QED BY <1>1, <1>2, <1>3, <1>4, <1>5, <1>6

LEMMA ClientSteps ==
  ASSUME ClientInv, NEW c \in Clients,
         \/ Connect(c) \/ DelayOver(c) \/ DelayStopped(c)
         \/ Finished(c) \/ FinishCancelled(c) \/ ConnectCancelled(c)
         \/ CloseCalled(c) \/ CloseBegins(c) \/ CloseReturns(c)
  PROVE  ClientInv'
<1>1. /\ client[c] \in ClientRecord /\ SettledRecord(client[c])
      /\ link' = link /\ server' = server
  BY DEF ClientInv, Types, Settled, Connect, DelayOver, DelayStopped, Finished, FinishCancelled,
         ConnectCancelled, CloseCalled, CloseBegins, CloseReturns
<1>2. SUFFICES \E r \in ClientRecord :
        /\ SettledRecord(r) /\ r.link = client[c].link
        /\ OnLink(r) => OnLink(client[c])
        /\ client[c].task \in {"hello", "up"} => r.task \in {"hello", "up"}
        /\ client' = [client EXCEPT ![c] = r]
  BY <1>1, RecordMoves
<1> DEFINE Moves(r) ==
      /\ r \in ClientRecord /\ SettledRecord(r) /\ r.link = client[c].link
      /\ OnLink(r) => OnLink(client[c])
      /\ client[c].task \in {"hello", "up"} => r.task \in {"hello", "up"}
<1> USE DEF ClientRecord, ClientTask, SettledRecord, OnLink
<1>3. CASE DelayOver(c)
  <2>1. Moves([client[c] EXCEPT !.task = "dialing"])
    BY <1>1, <1>3 DEF DelayOver
  <2> QED BY <1>3, <2>1 DEF DelayOver, Dialing
<1>4. CASE DelayStopped(c)
  <2>1. Moves([client[c] EXCEPT !.task = "finish"])
    BY <1>1, <1>4 DEF DelayStopped
  <2> QED BY <1>4, <2>1 DEF DelayStopped
<1>5. CASE FinishCancelled(c)
  <2> DEFINE r == [client[c] EXCEPT !.task = "over", !.call = "raised"]
  <2>1. Moves(r)
    BY <1>1, <1>5 DEF FinishCancelled
  <2>2. client' = [client EXCEPT ![c] = r]
    BY <1>5 DEF FinishCancelled
  <2> HIDE DEF r
  <2> QED BY <2>1, <2>2
<1>6. CASE ConnectCancelled(c)
  <2>1. Moves([client[c] EXCEPT !.cancelled = TRUE])
    BY <1>1, <1>6 DEF ConnectCancelled
  <2> QED BY <1>6, <2>1 DEF ConnectCancelled
<1>7. CASE CloseCalled(c)
  <2>1. Moves([client[c] EXCEPT !.closing = "called"])
    BY <1>1, <1>7 DEF CloseCalled
  <2> QED BY <1>7, <2>1 DEF CloseCalled
<1>8. CASE CloseReturns(c)
  <2>1. Moves([client[c] EXCEPT !.closing = "returned"])
    BY <1>1, <1>8 DEF CloseReturns
  <2> QED BY <1>8, <2>1 DEF CloseReturns
<1>9. CASE Finished(c)
  <2> DEFINE called == IF client[c].call = "running" THEN "raised" ELSE client[c].call
             r == [client[c] EXCEPT !.task = "over", !.closed = TRUE, !.call = called]
  <2>1. Moves(r)
    BY <1>1, <1>9 DEF Finished
  <2>2. client' = [client EXCEPT ![c] = r]
    BY <1>9 DEF Finished
  <2> HIDE DEF r
  <2> QED BY <2>1, <2>2
<1>10. CASE CloseBegins(c)
  <2>1. PICK awaits \in CloseAwaits(c) :
          client' = [client EXCEPT ![c].closing = awaits, ![c].stop = TRUE,
                                   ![c].cancelled = @ \/ Handshaking(c)]
    BY <1>10 DEF CloseBegins
  <2> DEFINE r == [client[c] EXCEPT !.closing = awaits, !.stop = TRUE,
                                    !.cancelled = @ \/ Handshaking(c)]
  <2>2. /\ awaits \in {"connect", "goodbye", "monitor", "returned", "failed"}
        /\ awaits = "returned" => ~ Handshaking(c) /\ ~ Monitored(c)
        /\ awaits = "failed" => client[c].task = "up"
    BY DEF CloseAwaits
  <2>3. client[c].cancelled \/ Handshaking(c) \in BOOLEAN
    BY DEF Handshaking
  <2>4. /\ r.call = client[c].call /\ r.task = client[c].task /\ r.link = client[c].link
        /\ r.closing = awaits /\ r.stop
        /\ r \in ClientRecord
    BY <1>1, <2>2, <2>3
  <2>5. client' = [client EXCEPT ![c] = r]
    BY <2>1
  <2> HIDE DEF r
  <2>6. SettledRecord(r)
    BY <1>1, <2>2, <2>4 DEF Handshaking, Monitored
  <2> QED BY <2>4, <2>5, <2>6
<1>11. CASE Connect(c)
  <2> DEFINE closing == IF client[c].closing = "called" THEN client[c].closing ELSE "none"
  <2>1. client[c].task \notin {"hello", "up"}
    BY <1>1, <1>11 DEF Connect
  <2> DEFINE r == [client[c] EXCEPT !.task = "dialing", !.call = "running", !.stop = FALSE,
                                    !.closed = FALSE, !.closing = closing]
  <2>2. Moves(r)
    BY <1>1, <1>11, <2>1 DEF Connect
  <2>3. client' = [client EXCEPT ![c] = r]
    BY <1>11 DEF Connect, Dialing
  <2> HIDE DEF r
  <2> QED BY <2>2, <2>3
<1> QED BY <1>3, <1>4, <1>5, <1>6, <1>7, <1>8, <1>9, <1>10, <1>11

LEMMA InterruptingSteps ==
  ASSUME ClientInv, NEW c \in Clients, CallbackRaises(c) \/ GoodbyeOver(c)
  PROVE  ClientInv'
<1>1. \E r \in ClientRecord :
        /\ client' = [client EXCEPT ![c] = r]
        /\ SettledRecord(r) /\ r.link = client[c].link /\ r.task = client[c].task
  <2>1. client[c] \in ClientRecord /\ SettledRecord(client[c])
    BY DEF ClientInv, Types, Settled
  <2>2. CASE CallbackRaises(c)
    <3> DEFINE r == [client[c] EXCEPT !.failed = TRUE, !.stop = TRUE]
    <3>1. client' = [client EXCEPT ![c] = r]
      BY <2>2 DEF CallbackRaises
    <3>2. r \in ClientRecord /\ SettledRecord(r) /\ r.link = client[c].link /\ r.task = client[c].task
      BY <2>1 DEF ClientRecord, ClientTask, SettledRecord
    <3> HIDE DEF r
    <3> QED BY <3>1, <3>2
  <2>3. CASE GoodbyeOver(c)
    <3> DEFINE r == [client[c] EXCEPT !.closing = "monitor"]
    <3>1. client' = [client EXCEPT ![c] = r]
      BY <2>3 DEF GoodbyeOver
    <3>2. r \in ClientRecord /\ SettledRecord(r) /\ r.link = client[c].link /\ r.task = client[c].task
      BY <2>1 DEF ClientRecord, ClientTask, SettledRecord
    <3> HIDE DEF r
    <3> QED BY <3>1, <3>2
  <2> QED BY <2>2, <2>3
<1>2. /\ link' = IF client[c].task = "up" THEN ClientEnd(client[c].link, "other") ELSE link
      /\ server' = server
  BY DEF CallbackRaises, GoodbyeOver
<1>3. CASE client[c].task = "up"
  BY <1>1, <1>2, <1>3, EndCloses DEF OnLink
<1>4. CASE client[c].task # "up"
  BY <1>1, <1>2, <1>4, RecordMoves DEF OnLink
<1> QED BY <1>3, <1>4

-----------------------------------------------------------------------------
(* The server: what its close relies on at each of its awaits.             *)

(* Slots are taken while the server serves, and sessions have slots.       *)
Admission ==
  /\ \A k \in Links : link[k].handler \in {"handshake", "session", "leaving"} =>
       server.serve = "serving" /\ (server.closed => server.raised)
  /\ \A k \in Links : link[k].session => link[k].handler \in {"session", "leaving"}
  /\ server.accepting => server.serve = "serving" /\ (server.closed => server.raised)

(* How far close has come tells what serve has left behind.                *)
Stages ==
  /\ server.listener => server.serve \in {"starting", "serving"}
  /\ server.serve = "serving" /\ ~ server.listener => server.closing \in {"listener", "returned"}
  /\ server.closing \in {"advertiser", "sessions", "listener"} =>
       server.serve = "serving" /\ ~ server.accepting
  /\ server.serve = "starting" => ~ server.closed
  /\ server.raised => server.serve = "serving"

ServerInv == Admission /\ Stages

LEMMA ServerTyped ==
  ASSUME Types, [Next]_vars
  PROVE  server' \in ServerRecord
<1> USE DEF Types, ServerRecord
<1>1. CASE \/ Serve \/ Listens \/ Advertised \/ ServeFails \/ ServeRaises
           \/ ServerCloseCalled \/ ServeCancelled
           \/ ListenerCloses \/ ListenerClosed
  BY <1>1, ZenonT(30) DEF Serve, Listens, Advertised, ServeFails, ServeRaises, ServerCloseCalled,
              ServeCancelled, ListenerCloses, ListenerClosed
<1>2. CASE ServerCloseBegins
  BY <1>2 DEF ServerCloseBegins
<1>3. CASE Unadvertised
  BY <1>3 DEF Unadvertised, Sessions
<1>4. CASE \E k \in Links : ShutsDown(k) \/ ShutdownRaises(k)
  BY <1>4, ZenonT(30) DEF ShutsDown, ShutdownRaises
<1>5. CASE server' = server
  BY <1>5
<1>6. \A k \in Links :
        (\/ ClientNotices(k) \/ ServerNotices(k) \/ Lost(k)
         \/ Rejected(k) \/ ServerShakesHands(k) \/ HandshakeFails(k) \/ FactoryRaises(k)
         \/ SessionFails(k) \/ SessionEnds(k) \/ Leaves(k)) => server' = server
  BY DEF ClientNotices, ServerNotices, Lost, Rejected, ServerShakesHands, HandshakeFails,
         FactoryRaises, SessionFails, SessionEnds, Leaves
<1>7. \A c \in Clients :
        (\/ Connect(c) \/ Dialed(c) \/ DialFails(c) \/ HelloArrives(c) \/ HelloFails(c)
         \/ AttemptCancelled(c) \/ Undone(c)
         \/ ConnectionOver(c) \/ DelayOver(c) \/ DelayStopped(c)
         \/ Finished(c) \/ FinishCancelled(c) \/ CallbackRaises(c)
         \/ ConnectCancelled(c) \/ CloseCalled(c) \/ CloseBegins(c) \/ GoodbyeOver(c)
         \/ CloseReturns(c)) => server' = server
  BY DEF Connect, Dialed, DialFails, HelloArrives, HelloFails, AttemptCancelled, Undone,
         ConnectionOver, DelayOver, DelayStopped, Finished, FinishCancelled, CallbackRaises,
         ConnectCancelled, CloseCalled, CloseBegins, GoodbyeOver, CloseReturns
<1> QED BY <1>1, <1>2, <1>3, <1>4, <1>5, <1>6, <1>7 DEF Next, vars

(* Ends that close, whoever closes them, admit and release nobody.         *)
LEMMA HandlersStay ==
  ASSUME ServerInv, server' = server,
         \A k \in Links : /\ link'[k].handler = link[k].handler
                          /\ link'[k].session = link[k].session
  PROVE  ServerInv'
BY DEF ServerInv, Admission, Stages, Links

LEMMA EndsKeepHandlers ==
  ASSUME Types, NEW k, NEW code
  PROVE  \A j \in Links :
           /\ ClientEnd(k, code)[j].handler = link[j].handler
           /\ ClientEnd(k, code)[j].session = link[j].session
           /\ ServerEnd(k, code)[j].handler = link[j].handler
           /\ ServerEnd(k, code)[j].session = link[j].session
BY DEF Types, ClientEnd, ServerEnd, LinkRecord

LEMMA ClientsKeepServer ==
  ASSUME Types, ServerInv, NEW c \in Clients,
         \/ Connect(c) \/ DialFails(c) \/ HelloArrives(c) \/ HelloFails(c)
         \/ AttemptCancelled(c) \/ Undone(c)
         \/ ConnectionOver(c) \/ DelayOver(c) \/ DelayStopped(c)
         \/ Finished(c) \/ FinishCancelled(c) \/ CallbackRaises(c)
         \/ ConnectCancelled(c) \/ CloseCalled(c) \/ CloseBegins(c) \/ GoodbyeOver(c)
         \/ CloseReturns(c)
  PROVE  ServerInv'
<1>1. server' = server /\ (link' = link \/ link' = ClientEnd(client[c].link, "other"))
  BY DEF Connect, DialFails, HelloArrives, HelloFails, AttemptCancelled, Undone, ConnectionOver,
         DelayOver, DelayStopped, Finished, FinishCancelled, CallbackRaises, ConnectCancelled,
         CloseCalled, CloseBegins, GoodbyeOver, CloseReturns
<1> QED BY <1>1, HandlersStay, EndsKeepHandlers

LEMMA DialedKeepsServer ==
  ASSUME Types, ServerInv, NEW c \in Clients, Dialed(c)
  PROVE  ServerInv'
<1>1. PICK k \in Links : link' = [link EXCEPT ![k] = Admitted(c)]
  BY DEF Dialed, Free
<1>2. /\ link'[k].handler = "handshake" => server.accepting
      /\ link'[k].handler \in {"handshake", "rejecting"} /\ ~ link'[k].session
      /\ \A j \in Links \ {k} : link'[j] = link[j]
      /\ server' = server
  BY <1>1 DEF Types, Admitted, Admits, NewLink, Dialed
<1> QED BY <1>2 DEF ServerInv, Admission, Stages, Links

LEMMA LinksKeepServer ==
  ASSUME Types, ServerInv, NEW k \in Links,
         \/ ClientNotices(k) \/ ServerNotices(k) \/ Lost(k)
         \/ Rejected(k) \/ ServerShakesHands(k) \/ HandshakeFails(k) \/ FactoryRaises(k)
         \/ SessionFails(k) \/ SessionEnds(k) \/ Leaves(k)
         \/ ShutsDown(k) \/ ShutdownRaises(k)
  PROVE  ServerInv'
<1>1. CASE ClientNotices(k) \/ ServerNotices(k) \/ Lost(k) \/ SessionFails(k)
  BY <1>1, HandlersStay, EndsKeepHandlers DEF ClientNotices, ServerNotices, Lost, SessionFails
<1>2. CASE Rejected(k) \/ ServerShakesHands(k) \/ SessionEnds(k) \/ Leaves(k)
  <2>1. /\ \A j \in Links \ {k} : link'[j] = link[j]
        /\ server' = server
    BY <1>2 DEF Rejected, ServerShakesHands, SessionEnds, Leaves, Types
  <2>2. /\ link'[k].handler \in {"session", "leaving"} =>
             link[k].handler \in {"handshake", "session"}
        /\ link'[k].handler \in {"session", "leaving", "gone"}
        /\ link'[k].session => link'[k].handler \in {"session", "leaving"}
    <3> USE DEF Types, LinkRecord, ServerInv, Admission
    <3>1. CASE Rejected(k)
      BY <1>2, <3>1 DEF Rejected
    <3>2. CASE ServerShakesHands(k)
      BY <3>2 DEF ServerShakesHands
    <3>3. CASE SessionEnds(k)
      BY <3>3 DEF SessionEnds
    <3>4. CASE Leaves(k)
      BY <3>4 DEF Leaves
    <3> QED BY <1>2, <3>1, <3>2, <3>3, <3>4
  <2> QED BY <2>1, <2>2 DEF ServerInv, Admission, Stages, Links
<1>3. CASE HandshakeFails(k) \/ FactoryRaises(k)
  <2> DEFINE l == ServerEnd(k, "other")
  <2>1. /\ l \in [Links -> LinkRecord]
        /\ \A j \in Links : l[j].handler = link[j].handler /\ l[j].session = link[j].session
    BY EndsKeepHandlers DEF Types, ServerEnd, LinkRecord, End
  <2>2. /\ link[k].handler = "handshake" /\ server' = server
        /\ \/ link' = [l EXCEPT ![k].handler = "leaving"]
           \/ link' = [l EXCEPT ![k].handler = "leaving", ![k].answered = TRUE, ![k].session = TRUE]
    BY <1>3 DEF HandshakeFails, FactoryRaises
  <2> HIDE DEF l
  <2>3. /\ link'[k].handler = "leaving"
        /\ \A j \in Links \ {k} : link'[j] = l[j]
    BY <2>1, <2>2 DEF LinkRecord
  <2> QED BY <2>1, <2>2, <2>3 DEF ServerInv, Admission, Stages, Links
<1>4. CASE ShutsDown(k) \/ ShutdownRaises(k)
  <2>1. \A j \in Links : /\ link'[j].handler = link[j].handler
                         /\ link'[j].session = link[j].session
    BY <1>4, EndsKeepHandlers DEF ShutsDown, ShutdownRaises
  <2> QED BY <1>4, <2>1, ZenonT(30) DEF ShutsDown, ShutdownRaises, Types, ServerRecord,
                            ServerInv, Admission, Stages, Links
<1> QED BY <1>1, <1>2, <1>3, <1>4

LEMMA ServerGood ==
  ASSUME Types, ServerInv,
         \/ Serve \/ Listens \/ Advertised \/ ServeFails \/ ServeRaises
         \/ ServerCloseCalled \/ ServerCloseBegins \/ ServeCancelled \/ Unadvertised
         \/ ListenerCloses \/ ListenerClosed
  PROVE  ServerInv'
<1> USE DEF Types, ServerRecord, ServerInv, Admission, Stages, Links
<1>1. CASE Serve
  BY <1>1 DEF Serve
<1>2. CASE Listens \/ Advertised
  BY <1>2 DEF Listens, Advertised
<1>3. CASE ServeFails \/ ServeRaises
  BY <1>3 DEF ServeFails, ServeRaises
<1>4. CASE ServerCloseCalled \/ ServeCancelled \/ Unadvertised
  BY <1>4 DEF ServerCloseCalled, ServeCancelled, Unadvertised
<1>5. CASE ServerCloseBegins
  BY <1>5 DEF ServerCloseBegins
<1>6. CASE ListenerCloses
  BY <1>6 DEF ListenerCloses, LinkRecord
<1>7. CASE ListenerClosed
  BY <1>7 DEF ListenerClosed, Running
<1> QED BY <1>1, <1>2, <1>3, <1>4, <1>5, <1>6, <1>7

-----------------------------------------------------------------------------
(* Together.                                                               *)

Inductive == ClientInv /\ ServerInv

LEMMA InitGood == Init => Inductive
<1> SUFFICES ASSUME Init PROVE Inductive
  OBVIOUS
<1>1. NewClient \in ClientRecord /\ SettledRecord(NewClient) /\ ~ OnLink(NewClient)
  BY DEF NewClient, ClientRecord, ClientTask, SettledRecord, OnLink
<1>2. NewLink \in LinkRecord /\ NewLink.owner = "none" /\ NewLink.handler = "none" /\ ~ NewLink.session
  BY DEF NewLink, LinkRecord, End
<1>3. /\ NewServer \in ServerRecord /\ NewServer.serve = "none" /\ ~ NewServer.listener
      /\ ~ NewServer.accepting /\ ~ NewServer.raised /\ NewServer.closing = "none"
  BY DEF NewServer, ServerRecord
<1>4. ClientInv
  BY <1>1, <1>2, <1>3, ConnectionsAssumption
     DEF Init, ClientInv, Types, Unused, Held, Owned, Settled
<1>5. ServerInv
  BY <1>2, <1>3 DEF Init, ServerInv, Admission, Stages
<1> QED BY <1>4, <1>5 DEF Inductive

LEMMA NextGood == Inductive /\ [Next]_vars => Inductive'
<1> SUFFICES ASSUME Inductive, [Next]_vars PROVE Inductive'
  OBVIOUS
<1>1. ClientInv /\ ServerInv /\ Types /\ server' \in ServerRecord
  BY ServerTyped DEF Inductive, ClientInv
<1>2. CASE UNCHANGED vars
  <2>1. link' = link /\ client' = client /\ server' = server
    BY <1>2 DEF vars
  <2> QED BY <1>1, <2>1, NothingShrinks, LinksShrink, HandlersStay DEF Inductive
<1>3. CASE \/ Serve \/ Listens \/ Advertised \/ ServeFails \/ ServeRaises
           \/ ServerCloseCalled \/ ServerCloseBegins \/ ServeCancelled \/ Unadvertised
           \/ ListenerCloses \/ ListenerClosed
  BY <1>1, <1>3, ServerSteps, ServerGood DEF Inductive
<1>4. ASSUME NEW k \in Links,
             \/ ClientNotices(k) \/ ServerNotices(k) \/ Lost(k)
             \/ Rejected(k) \/ ServerShakesHands(k) \/ HandshakeFails(k) \/ FactoryRaises(k)
             \/ SessionFails(k) \/ SessionEnds(k) \/ Leaves(k)
             \/ ShutsDown(k) \/ ShutdownRaises(k)
      PROVE  Inductive'
  BY <1>1, <1>4, LinkSteps, LinksKeepServer DEF Inductive
<1>5. ASSUME NEW c \in Clients,
             \/ Connect(c) \/ Dialed(c) \/ DialFails(c) \/ HelloArrives(c) \/ HelloFails(c)
             \/ AttemptCancelled(c) \/ Undone(c)
             \/ ConnectionOver(c) \/ DelayOver(c) \/ DelayStopped(c)
             \/ Finished(c) \/ FinishCancelled(c) \/ CallbackRaises(c)
             \/ ConnectCancelled(c) \/ CloseCalled(c) \/ CloseBegins(c) \/ GoodbyeOver(c)
             \/ CloseReturns(c)
      PROVE  Inductive'
  <2>1. CASE Dialed(c)
    BY <1>1, <2>1, DialedGood, DialedKeepsServer DEF Inductive
  <2>2. CASE ~ Dialed(c)
    <3>1. ServerInv'
      BY <1>1, <1>5, <2>2, ClientsKeepServer
    <3>2. ClientInv'
      BY <1>1, <1>5, <2>2, AttemptSteps, ClientSteps, InterruptingSteps
    <3> QED BY <3>1, <3>2 DEF Inductive
  <2> QED BY <2>1, <2>2
<1> QED BY <1>2, <1>3, <1>4, <1>5 DEF Next

LEMMA AlwaysInductive == Spec => []Inductive
BY InitGood, NextGood, PTL DEF Spec

(* A client never has two connections, and none while it is not connecting *)
(* or connected: no path out of an attempt or of the monitor's loop,       *)
(* cancelled wherever it may be, leaves a WebSocket open behind it.        *)
THEOREM OneConnectionHolds == Spec => []OneConnection
<1>1. Inductive => OneConnection
  BY ConnectionsAssumption DEF Inductive, ClientInv, Types, LinkRecord, Held, OneConnection, Used
<1> QED BY <1>1, AlwaysInductive, PTL

(* Once close has returned, the client neither has nor opens a connection. *)
THEOREM ClosedStaysClosed == Spec => []StaysClosed
<1>1. Inductive => StaysClosed
  BY DEF Inductive, ClientInv, Settled, SettledRecord, StaysClosed
<1> QED BY <1>1, AlwaysInductive, PTL

(* A server whose close returned without raising has no session and no     *)
(* slot taken, for any number of connections in any state when it began.   *)
THEOREM ClosedServerEmpty == Spec => []ClosedServerIsEmpty
<1>1. Inductive => ClosedServerIsEmpty
  BY DEF Inductive, ServerInv, Admission, ClosedServerIsEmpty, Slots, Sessions
<1> QED BY <1>1, AlwaysInductive, PTL
=============================================================================
