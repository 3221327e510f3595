----------------------------- MODULE Connections ------------------------------
(***************************************************************************)
(* The facades over the life of the program: VoiceClient's connect, close  *)
(* and reconnect monitor (src/lumivox_linklab/_client.py) against          *)
(* VoiceServer's serve, admission and close (_server.py).  What happens on *)
(* an established connection is Transport, Client and Session; here a      *)
(* connection is two ends that close, each by itself or because the other  *)
(* end or the network did.                                                 *)
(*                                                                         *)
(* A step runs from one await to the next.  A cancelled task takes the     *)
(* cancellation at its next step, also when what it waited for is there.   *)
(***************************************************************************)
EXTENDS Naturals, FiniteSets

CONSTANTS
  Clients,
  MaxConnections,  \* config.max_connections
  MaxAttempts,     \* bound: the connections a client makes
  Stories          \* bound: what may go wrong in one behaviour

ASSUME ConnectionsAssumption ==
  /\ IsFiniteSet(Clients) /\ "none" \notin Clients
  /\ MaxConnections \in Nat \ {0} /\ MaxAttempts \in Nat \ {0}
  /\ Stories \subseteq SUBSET {"loss", "fault", "callback", "cancel"}

VARIABLES mishaps, client, link, server
vars == <<mishaps, client, link, server>>

(* call: the application's connect(), "none", "running", "returned" or     *)
(* "raised"; task: where the task is that keeps the client connected,      *)
(* connect's and then the monitor's: "dialing" the server, awaiting its    *)
(* "hello", closing a half-built connection ("undo"), "up", in the         *)
(* reconnect "delay", in _finish or "over"; link: the connection it is on; *)
(* cancelled: cancel() reached the task; stop: _reconnect_stop; failed:    *)
(* _local_failure is set; closing: where _close is: it awaits the connect  *)
(* task, the end of what was open ("goodbye") or the monitor, or it        *)
(* "failed"; closed: _closed.                                              *)
NewClient ==
  [call |-> "none", task |-> "none", link |-> 0, cancelled |-> FALSE,
   stop |-> FALSE, failed |-> FALSE, closing |-> "none", closed |-> TRUE]

(* A WebSocket and the server's _handle_connection for it.  An end is      *)
(* "open", or closed with "1001", which lets a client reconnect and stands *)
(* for 1006 and a loss too, or with any "other" code.  handler: "none"     *)
(* before there is a WebSocket, then "rejecting", or "handshake",          *)
(* "session", "leaving" while it holds a slot, then "gone"; answered: the  *)
(* server hello was sent; session: it is in _sessions.                     *)
NewLink ==
  [owner |-> "none", client |-> "open", server |-> "open", handler |-> "none",
   answered |-> FALSE, session |-> FALSE]
Links == 1..(MaxAttempts * Cardinality(Clients))

(* serve: where serve() is; listener: _listener accepts WebSockets;        *)
(* accepting: _accepting; closing: what _close awaits: serve, the          *)
(* advertiser, the sessions, whose _shutdown is not yet over for those in  *)
(* leaving, or the listener; raised: a _shutdown raised; closed: _closed.  *)
NewServer ==
  [serve |-> "none", listener |-> FALSE, accepting |-> FALSE, closing |-> "none",
   leaving |-> {}, raised |-> FALSE, closed |-> TRUE]

-----------------------------------------------------------------------------
(* The ends of a connection.                                               *)

Mine(c) == link[client[c].link]
Free == {k \in Links : link[k].handler = "none"}
Used == {k \in Links : link[k].owner # "none"}

ClientEnd(k, code) == [link EXCEPT ![k].client = IF @ = "open" THEN code ELSE @]
ServerEnd(k, code) == [link EXCEPT ![k].server = IF @ = "open" THEN code ELSE @]

(* The WebSocket tells an end that the other has closed, and the keepalive *)
(* tells it that the network has gone.                                     *)
ClientNotices(k) ==
  /\ link[k].client = "open" /\ link[k].server # "open"
  /\ link' = ClientEnd(k, link[k].server)
  /\ UNCHANGED <<mishaps, client, server>>
ServerNotices(k) ==
  /\ link[k].server = "open" /\ link[k].client # "open"
  /\ link' = ServerEnd(k, link[k].client)
  /\ UNCHANGED <<mishaps, client, server>>

Lost(k) ==
  /\ "loss" \in mishaps /\ k \in Used
  /\ \/ link[k].client = "open" /\ link' = ClientEnd(k, "1001")
     \/ link[k].server = "open" /\ link' = ServerEnd(k, "1001")
  /\ UNCHANGED <<mishaps, client, server>>

-----------------------------------------------------------------------------
(* VoiceServer: admission and the handler of a connection.                 *)

Slots == {k \in Links : link[k].handler \in {"handshake", "session", "leaving"}}
Sessions == {k \in Links : link[k].session}
Admits == server.accepting /\ Cardinality(Slots) < MaxConnections

(* _handle_connection up to its first await.                               *)
Admitted(c) ==
  IF Admits
  THEN [NewLink EXCEPT !.owner = c, !.handler = "handshake"]
  ELSE [NewLink EXCEPT !.owner = c, !.handler = "rejecting", !.server = "other"]

Rejected(k) ==
  /\ link[k].handler = "rejecting"
  /\ link' = [link EXCEPT ![k].handler = "gone"]
  /\ UNCHANGED <<mishaps, client, server>>

(* _perform_server_handshake, and what follows without an await.           *)
ServerShakesHands(k) ==
  /\ link[k].handler = "handshake" /\ link[k].server = "open"
  /\ link' = [link EXCEPT ![k].handler = "session", ![k].answered = TRUE, ![k].session = TRUE]
  /\ UNCHANGED <<mishaps, client, server>>

(* The peer is silent, gone or not understood, or handler_factory raises   *)
(* after the server hello was sent.                                        *)
HandshakeFails(k) ==
  /\ link[k].handler = "handshake"
  /\ link[k].server # "open" \/ "fault" \in mishaps
  /\ link' = [ServerEnd(k, "other") EXCEPT ![k].handler = "leaving"]
  /\ UNCHANGED <<mishaps, client, server>>
FactoryRaises(k) ==
  /\ link[k].handler = "handshake" /\ link[k].server = "open" /\ "fault" \in mishaps
  /\ link' = [ServerEnd(k, "other") EXCEPT ![k].handler = "leaving", ![k].answered = TRUE,
                                        ![k].session = TRUE]
  /\ UNCHANGED <<mishaps, client, server>>

(* The session ends its connection by itself.                              *)
SessionFails(k) ==
  /\ link[k].handler = "session" /\ link[k].server = "open" /\ "fault" \in mishaps
  /\ link' = ServerEnd(k, "other")
  /\ UNCHANGED <<mishaps, client, server>>
SessionEnds(k) ==
  /\ link[k].handler = "session" /\ link[k].server # "open"
  /\ link' = [link EXCEPT ![k].handler = "leaving"]
  /\ UNCHANGED <<mishaps, client, server>>

KeepsSlotAtEnd(k) ==                                       \* mutant
  /\ link[k].handler = "leaving" /\ link[k].session
  /\ link' = [link EXCEPT ![k].handler = "gone", ![k].session = FALSE]
  /\ UNCHANGED <<mishaps, client, server>>
(* The finally of _handle_connection, after _close_dispatcher.             *)
Leaves(k) ==
  /\ link[k].handler = "leaving"
  /\ link' = [link EXCEPT ![k].handler = "gone", ![k].session = FALSE]
  /\ UNCHANGED <<mishaps, client, server>>

-----------------------------------------------------------------------------
(* VoiceServer: serve and close.                                           *)

Serve ==
  /\ server.serve = "none"
  /\ server' = [server EXCEPT !.serve = "starting", !.closed = FALSE,
                              !.closing = IF @ = "called" THEN @ ELSE "none"]
  /\ UNCHANGED <<mishaps, client, link>>

(* The listener is up before the service is advertised and accepts after.  *)
Listens ==
  /\ server.serve = "starting" /\ ~ server.listener /\ server.closing # "serve"
  /\ server' = [server EXCEPT !.listener = TRUE]
  /\ UNCHANGED <<mishaps, client, link>>
Advertised ==
  /\ server.serve = "starting" /\ server.listener /\ server.closing # "serve"
  /\ server' = [server EXCEPT !.serve = "serving", !.accepting = TRUE]
  /\ UNCHANGED <<mishaps, client, link>>

Running == {k \in Links : link[k].handler \notin {"none", "gone"}}

(* serve raises, by itself or because close cancelled it: the listener is  *)
(* closed, which waits for the handlers it has.                            *)
ServeFails ==
  /\ server.serve = "starting"
  /\ server.closing = "serve" \/ "fault" \in mishaps
  /\ server' = [server EXCEPT !.serve = "undoing", !.listener = FALSE]
  /\ UNCHANGED <<mishaps, client, link>>
ServeRaises ==
  /\ server.serve = "undoing" /\ Running = {}
  /\ server' = [server EXCEPT !.serve = "failed", !.closed = TRUE]
  /\ UNCHANGED <<mishaps, client, link>>

ServerCloseCalled ==
  /\ server.closing = "none"
  /\ server' = [server EXCEPT !.closing = "called"]
  /\ UNCHANGED <<mishaps, client, link>>

(* _close as far as its first await.  A serve that is still starting is    *)
(* cancelled; if it was cleaning up after a failure, it leaves off.        *)
ServerCloseBegins ==
  /\ server.closing = "called"
  /\ LET stopped == [server EXCEPT !.accepting = FALSE] IN
     server' = IF server.serve \in {"starting", "undoing"}
               THEN [stopped EXCEPT !.closing = "serve",
                                    !.serve = IF @ = "undoing" THEN "failed" ELSE @]
               ELSE IF ~ server.listener
               THEN [stopped EXCEPT !.closing = "returned", !.closed = TRUE]
               ELSE [stopped EXCEPT !.closing = "advertiser"]
  /\ UNCHANGED <<mishaps, client, link>>
ServeCancelled ==
  /\ server.closing = "serve" /\ server.serve = "failed"
  /\ server' = [server EXCEPT !.closing = "returned", !.closed = TRUE]
  /\ UNCHANGED <<mishaps, client, link>>

(* The sessions there are when the advertisement is gone are shut down     *)
(* together.                                                               *)
Unadvertised ==
  /\ server.closing = "advertiser"
  /\ server' = [server EXCEPT !.closing = "sessions", !.leaving = Sessions]
  /\ UNCHANGED <<mishaps, client, link>>

(* ServerSession._shutdown of one of them.  If it raises, so does close,   *)
(* and the others go on.                                                   *)
ShutsDown(k) ==
  /\ server.closing = "sessions" \/ server.raised
  /\ k \in server.leaving
  /\ link' = ServerEnd(k, "1001")
  /\ server' = [server EXCEPT !.leaving = @ \ {k}]
  /\ UNCHANGED <<mishaps, client>>
ShutdownRaises(k) ==
  /\ server.closing = "sessions" \/ server.raised
  /\ k \in server.leaving /\ link[k].server = "open" /\ "fault" \in mishaps
  /\ server' = [server EXCEPT !.closing = "returned", !.raised = TRUE, !.closed = TRUE,
                              !.leaving = @ \ {k}]
  /\ UNCHANGED <<mishaps, client, link>>

LeavesHandshakes ==                                        \* mutant
  /\ server.closing = "sessions" /\ server.leaving = {}
  /\ server' = [server EXCEPT !.closing = "listener", !.listener = FALSE]
  /\ UNCHANGED <<mishaps, client, link>>
(* listener.close closes what connections are left, and wait_closed waits  *)
(* for their handlers.                                                     *)
ListenerCloses ==
  /\ server.closing = "sessions" /\ server.leaving = {}
  /\ server' = [server EXCEPT !.closing = "listener", !.listener = FALSE]
  /\ link' = [k \in Links |-> IF k \in Running /\ link[k].server = "open"
                              THEN [link[k] EXCEPT !.server = "1001"] ELSE link[k]]
  /\ UNCHANGED <<mishaps, client>>

ClosedAtOnce ==                                            \* mutant
  /\ server.closing = "listener"
  /\ server' = [server EXCEPT !.closing = "returned", !.closed = TRUE]
  /\ UNCHANGED <<mishaps, client, link>>
ListenerClosed ==
  /\ server.closing = "listener" /\ Running = {}
  /\ server' = [server EXCEPT !.closing = "returned", !.closed = TRUE]
  /\ UNCHANGED <<mishaps, client, link>>

-----------------------------------------------------------------------------
(* VoiceClient: the attempt to connect (_establish_connection).            *)

Handshaking(c) == client[c].task \in {"dialing", "hello", "undo"}
Monitored(c) == client[c].call = "returned"
Attempts(c) == Cardinality({k \in Links : link[k].owner = c})

Dialing(c) == [client[c] EXCEPT !.task = "dialing"]

(* A failed attempt ends connect; the monitor tries again if the failure   *)
(* allows it.                                                              *)
Failing(c, again) ==
  [client[c] EXCEPT !.link = 0, !.cancelled = FALSE,
                    !.task = IF again /\ Monitored(c) THEN "delay" ELSE "finish"]

Eligible(end) == end = "1001"

Connect(c) ==
  /\ client[c].call = "none"
  /\ client' = [client EXCEPT ![c] =
       [Dialing(c) EXCEPT !.call = "running", !.stop = FALSE, !.closed = FALSE,
                          !.closing = IF @ = "called" THEN @ ELSE "none"]]
  /\ UNCHANGED <<mishaps, link, server>>

Dialed(c) ==
  /\ client[c].task = "dialing" /\ ~ client[c].cancelled
  /\ server.listener /\ Attempts(c) < MaxAttempts
  /\ \E k \in Free :
     /\ \A f \in Free : k <= f
     /\ link' = [link EXCEPT ![k] = Admitted(c)]
     /\ client' = [client EXCEPT ![c].task = "hello", ![c].link = k]
  /\ UNCHANGED <<mishaps, server>>
DialFails(c) ==
  /\ client[c].task = "dialing" /\ ~ client[c].cancelled
  /\ ~ server.listener \/ "fault" \in mishaps \/ Attempts(c) = MaxAttempts
  /\ \E again \in {TRUE} \cup (IF "fault" \in mishaps THEN {FALSE} ELSE {}) :
       client' = [client EXCEPT ![c] = Failing(c, again)]
  /\ UNCHANGED <<mishaps, link, server>>

(* From the server hello to READY nothing is awaited.  A callback that     *)
(* failed meanwhile ends the connection at once.                           *)
HelloArrives(c) ==
  /\ client[c].task = "hello" /\ ~ client[c].cancelled /\ Mine(c).answered
  /\ client' = [client EXCEPT ![c].task = "up", ![c].call = "returned"]
  /\ link' = IF client[c].failed THEN ClientEnd(client[c].link, "other") ELSE link
  /\ UNCHANGED <<mishaps, server>>
HelloFails(c) ==
  /\ client[c].task = "hello" /\ ~ client[c].cancelled
  /\ \/ /\ Mine(c).client # "open"
        /\ client' = [client EXCEPT ![c] = Failing(c, Eligible(Mine(c).client))]
        /\ link' = link
     \/ /\ Mine(c).client = "open" /\ "fault" \in mishaps
        /\ client' = [client EXCEPT ![c].task = "undo"]
        /\ link' = ClientEnd(client[c].link, "other")
  /\ UNCHANGED <<mishaps, server>>

CancelledIsForgotten(c) ==                                 \* mutant
  /\ client[c].cancelled
  /\ client[c].task \in {"dialing", "hello"}
  /\ client' = [client EXCEPT ![c] = Failing(c, FALSE)]
  /\ UNCHANGED <<mishaps, link, server>>
(* The cancellation reaches the attempt: a half-built connection is closed *)
(* before the attempt raises.                                              *)
AttemptCancelled(c) ==
  /\ client[c].cancelled
  /\ \/ /\ client[c].task = "dialing"
        /\ client' = [client EXCEPT ![c] = Failing(c, FALSE)] /\ link' = link
     \/ /\ client[c].task = "hello"
        /\ client' = [client EXCEPT ![c].task = "undo"]
        /\ link' = ClientEnd(client[c].link, "other")
  /\ UNCHANGED <<mishaps, server>>
(* What ended the attempt is raised.  With discovery it may be that        *)
(* connect_timeout is over, and the monitor tries again.                   *)
Undone(c) ==
  /\ client[c].task = "undo"
  /\ \E again \in {FALSE, ~ client[c].cancelled} :
       client' = [client EXCEPT ![c] = Failing(c, again)]
  /\ UNCHANGED <<mishaps, link, server>>

-----------------------------------------------------------------------------
(* VoiceClient: the monitor (_monitor_connections).                        *)

(* The core has closed and its connection is cleaned up.                   *)
ConnectionOver(c) ==
  /\ client[c].task = "up" /\ Mine(c).client # "open"
  /\ LET again == ~ client[c].stop /\ ~ client[c].failed /\ Eligible(Mine(c).client) IN
     client' = [client EXCEPT ![c] = Failing(c, again)]
  /\ UNCHANGED <<mishaps, link, server>>

DelayOver(c) ==
  /\ client[c].task = "delay" /\ ~ client[c].stop
  /\ Attempts(c) < MaxAttempts
  /\ client' = [client EXCEPT ![c] = Dialing(c)]
  /\ UNCHANGED <<mishaps, link, server>>
DelayStopped(c) ==
  /\ client[c].task = "delay" /\ client[c].stop
  /\ client' = [client EXCEPT ![c].task = "finish"]
  /\ UNCHANGED <<mishaps, link, server>>

(* _finish: the callbacks are given close_timeout to end.                  *)
Finished(c) ==
  /\ client[c].task = "finish" /\ ~ client[c].cancelled
  /\ client' = [client EXCEPT ![c].task = "over", ![c].closed = TRUE,
                              ![c].call = IF @ = "running" THEN "raised" ELSE @]
  /\ UNCHANGED <<mishaps, link, server>>

(* A cancellation that reaches _finish ends it there.                      *)
FinishCancelled(c) ==
  /\ client[c].task = "finish" /\ client[c].cancelled
  /\ client' = [client EXCEPT ![c].task = "over", ![c].call = "raised"]
  /\ UNCHANGED <<mishaps, link, server>>

(* A callback raises while no conversation is open.                        *)
CallbackRaises(c) ==
  /\ "callback" \in mishaps /\ ~ client[c].failed
  /\ client[c].task \in {"dialing", "hello", "undo", "up", "delay"}
  /\ client' = [client EXCEPT ![c].failed = TRUE, ![c].stop = TRUE]
  /\ link' = IF client[c].task = "up" THEN ClientEnd(client[c].link, "other") ELSE link
  /\ UNCHANGED <<mishaps, server>>

-----------------------------------------------------------------------------
(* VoiceClient: close, and the application's cancellation of connect.      *)

ConnectCancelled(c) ==
  /\ "cancel" \in mishaps /\ client[c].call = "running" /\ ~ client[c].cancelled
  /\ client' = [client EXCEPT ![c].cancelled = TRUE]
  /\ UNCHANGED <<mishaps, link, server>>

CloseCalled(c) ==
  /\ client[c].closing = "none"
  /\ client' = [client EXCEPT ![c].closing = "called"]
  /\ UNCHANGED <<mishaps, link, server>>

(* What close awaits first.  A core that is up gets the last words of what *)
(* is open, and refuses them (seal_orderly) if it knows less of the        *)
(* conversation than the ingress does: close fails, the core stays as it   *)
(* was, and every later call of close fails with it.                       *)
CloseAwaits(c) ==
  IF Handshaking(c) THEN {IF Monitored(c) THEN "monitor" ELSE "connect"}
  ELSE IF ~ Monitored(c) THEN {"returned"}
  ELSE IF client[c].task = "up" /\ Mine(c).client = "open" THEN {"goodbye", "failed"}
  ELSE {"monitor"}

WaitsForAttempt(c) ==                                      \* mutant
  /\ client[c].closing = "called"
  /\ \E awaits \in CloseAwaits(c) :
       client' = [client EXCEPT ![c].closing = awaits, ![c].stop = TRUE]
  /\ UNCHANGED <<mishaps, link, server>>
(* _close as far as its first await.                                       *)
CloseBegins(c) ==
  /\ client[c].closing = "called"
  /\ \E awaits \in CloseAwaits(c) :
       client' = [client EXCEPT ![c].closing = awaits, ![c].stop = TRUE,
                                ![c].cancelled = @ \/ Handshaking(c)]
  /\ UNCHANGED <<mishaps, link, server>>

(* What is open is ended, within half of close_timeout, then the core is   *)
(* closed.                                                                 *)
GoodbyeOver(c) ==
  /\ client[c].closing = "goodbye"
  /\ client' = [client EXCEPT ![c].closing = "monitor"]
  /\ link' = IF client[c].task = "up" THEN ClientEnd(client[c].link, "other") ELSE link
  /\ UNCHANGED <<mishaps, server>>

ReturnsBeforeMonitor(c) ==                                 \* mutant
  /\ \/ client[c].closing = "monitor"
     \/ client[c].closing = "connect" /\ client[c].closed
  /\ client' = [client EXCEPT ![c].closing = "returned"]
  /\ UNCHANGED <<mishaps, link, server>>
CloseReturns(c) ==
  /\ client[c].task = "over"
  /\ \/ client[c].closing = "monitor"
     \/ client[c].closing = "connect" /\ client[c].closed
  /\ client' = [client EXCEPT ![c].closing = "returned"]
  /\ UNCHANGED <<mishaps, link, server>>

-----------------------------------------------------------------------------
Init ==
  /\ mishaps \in Stories
  /\ client = [c \in Clients |-> NewClient]
  /\ link = [k \in Links |-> NewLink]
  /\ server = NewServer

Next ==
  \/ Serve \/ Listens \/ Advertised \/ ServeFails \/ ServeRaises
  \/ ServerCloseCalled \/ ServerCloseBegins \/ ServeCancelled \/ Unadvertised
  \/ ListenerCloses \/ ListenerClosed
  \/ \E k \in Links :
       \/ ClientNotices(k) \/ ServerNotices(k) \/ Lost(k)
       \/ Rejected(k) \/ ServerShakesHands(k) \/ HandshakeFails(k) \/ FactoryRaises(k)
       \/ SessionFails(k) \/ SessionEnds(k) \/ Leaves(k)
       \/ ShutsDown(k) \/ ShutdownRaises(k)
  \/ \E c \in Clients :
       \/ Connect(c) \/ Dialed(c) \/ DialFails(c) \/ HelloArrives(c) \/ HelloFails(c)
       \/ AttemptCancelled(c) \/ Undone(c)
       \/ ConnectionOver(c) \/ DelayOver(c) \/ DelayStopped(c)
       \/ Finished(c) \/ FinishCancelled(c) \/ CallbackRaises(c)
       \/ ConnectCancelled(c) \/ CloseCalled(c) \/ CloseBegins(c) \/ GoodbyeOver(c)
       \/ CloseReturns(c)

Spec == Init /\ [][Next]_vars

(* Tasks go on and their timeouts expire; the WebSocket tells each end of  *)
(* the end of the other, at the latest by its keepalive.  No call is ever  *)
(* made, and nothing ever goes wrong, out of fairness.                     *)
ServerGoesOn ==
  \/ Listens \/ Advertised \/ ServeRaises \/ ServerCloseBegins \/ ServeCancelled
  \/ Unadvertised \/ ListenerCloses \/ ListenerClosed
  \/ server.closing = "serve" /\ ServeFails
HandlerGoesOn(k) ==
  \/ Rejected(k) \/ ServerShakesHands(k) \/ HandshakeFails(k) \/ SessionEnds(k) \/ Leaves(k)
AttemptGoesOn(c) ==
  \/ Dialed(c) \/ DialFails(c) \/ HelloArrives(c) \/ HelloFails(c)
  \/ AttemptCancelled(c) \/ Undone(c)
MonitorGoesOn(c) ==
  ConnectionOver(c) \/ DelayStopped(c) \/ Finished(c) \/ FinishCancelled(c)
CloseGoesOn(c) == CloseBegins(c) \/ GoodbyeOver(c) \/ CloseReturns(c)

Fairness ==
  /\ WF_vars(ServerGoesOn)
  /\ \A k \in Links :
       /\ WF_vars(ClientNotices(k)) /\ WF_vars(ServerNotices(k))
       /\ WF_vars(HandlerGoesOn(k)) /\ WF_vars(ShutsDown(k))
  /\ \A c \in Clients :
       WF_vars(AttemptGoesOn(c)) /\ WF_vars(MonitorGoesOn(c)) /\ WF_vars(CloseGoesOn(c))
FairSpec == Spec /\ Fairness
-----------------------------------------------------------------------------
(* Properties.                                                             *)

(* A client has at most one connection: every path out of an attempt or of *)
(* the monitor's loop closes the connection it leaves, also one that was   *)
(* cancelled halfway (_open_client_websocket, _establish_connection).      *)
OneConnection ==
  \A k \in Used :
    link[k].client = "open" =>
      /\ client[link[k].owner].link = k
      /\ client[link[k].owner].task \in {"hello", "up"}

(* Once close has returned, no connection is left and none is opened,      *)
(* whatever the monitor was doing when close was called; and none follows  *)
(* the one that a close that failed leaves behind.                         *)
StaysClosed ==
  \A c \in Clients :
    /\ client[c].closing = "returned" => client[c].task \in {"none", "finish", "over"}
    /\ client[c].closing = "failed" => client[c].task \in {"up", "finish", "over"}

(* Once the server is closed no connection holds a slot and no session is  *)
(* left, also of one admitted, or still in its handshake, when close       *)
(* began; unless the shutdown of a session raised.                         *)
ClosedServerIsEmpty ==
  server.closed /\ ~ server.raised => Slots = {} /\ Sessions = {}

(* A client's close that does not fail at once returns, and wait_closed    *)
(* with it, wherever the attempt or the monitor was when it was called;    *)
(* but for connect being cancelled when it is cleaning up.  What a failed  *)
(* one leaves open nobody closes: run close_before_handoff.                *)
Cut(c) == client[c].task = "over" /\ ~ client[c].closed
ClientCloses ==
  \A c \in Clients :
    client[c].closing = "called" ~>
      \/ client[c].closing = "returned" /\ client[c].closed
      \/ client[c].closing = "failed" \/ Cut(c)

(* The server's close returns: sessions, late handshakes and rejections    *)
(* all end.                                                                *)
ServerCloses == server.closing = "called" ~> server.closing = "returned"

(* A connection whose client has gone gives its slot back, wherever its    *)
(* handler was.                                                            *)
SlotsReturn == \A k \in Links : link[k].client # "open" ~> k \notin Slots
=============================================================================
