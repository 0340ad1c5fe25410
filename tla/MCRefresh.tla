----------------------------- MODULE MCRefresh ------------------------------
(* Refresh with two admin handlers and the ticker.                         *)
EXTENDS Refresh
=============================================================================
