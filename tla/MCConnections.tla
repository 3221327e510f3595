--------------------------- MODULE MCConnections ----------------------------
(***************************************************************************)
(* An instance of Connections for TLC: a client that makes up to three     *)
(* connections, whose slots the server may still hold when it is back.     *)
(***************************************************************************)
EXTENDS Connections

(* What may go wrong together.                                             *)
Troubles == {{"loss", "callback", "cancel"}, {"fault"}}
=============================================================================
