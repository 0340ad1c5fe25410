------------------------------- MODULE MCBans -------------------------------
(* Bans with two callers and two reloaders, an hour west of UTC.           *)
EXTENDS Bans

MCZoneOffset == -1
=============================================================================
