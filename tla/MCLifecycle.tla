---------------------------- MODULE MCLifecycle -----------------------------
(* A handler of each kind, a queue of one entry, two crashes.              *)
EXTENDS Lifecycle
=============================================================================
