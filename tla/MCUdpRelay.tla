----------------------------- MODULE MCUdpRelay -----------------------------
(* One relay with a client and two descriptors: a flow and its successor.  *)
EXTENDS UdpRelay
=============================================================================
