-------------------------------- MODULE Gate --------------------------------
(***************************************************************************)
(* The access decision of reMazarin as pure operators: how a route's row   *)
(* is parsed for the cache (proxy/auth.go, parseCachedRoute) and the       *)
(* tests that withAuthForKey and authorizeIP make on the parsed rule.      *)
(*                                                                         *)
(* A rule keeps the two comma-separated columns as sets of entries:        *)
(*   allowedGroups  entries are group ids, Junk (text that is not a        *)
(*                  number) or Blank (nothing between two commas); the     *)
(*                  empty set is the empty column. A group id is written   *)
(*                  as strconv.Itoa writes it, as the admin page does;     *)
(*   allowedIPs     an entry is the set of canonical addresses it matches: *)
(*                  a singleton for an address, more for a CIDR block, {}  *)
(*                  for text that is neither.                              *)
(***************************************************************************)
EXTENDS Naturals, FiniteSets

CONSTANTS
    Group,          \* group ids; an id may belong to no existing group
    Addr,           \* the spellings of client addresses a listener reports
    normalizeIP,    \* spelling -> canonical spelling
    Junk, Blank     \* entries of allowed_groups that are not numbers

ASSUME NormalizeAssumption ==
    /\ normalizeIP \in [Addr -> Addr]
    /\ \A a \in Addr : normalizeIP[normalizeIP[a]] = normalizeIP[a]

ASSUME EntryAssumption == Junk \notin Group /\ Blank \notin Group

Rule == [allowedGroups   : SUBSET (Group \cup {Junk, Blank}),
         allowedIPs      : SUBSET (SUBSET Addr),
         ipAuth          : BOOLEAN,
         persistentLogin : BOOLEAN,
         requireLogin    : BOOLEAN]

-----------------------------------------------------------------------------
(* What parseCachedRoute derives from the row.                             *)

groupSet(r) == r.allowedGroups \ {Blank}

groupIDs(r) == r.allowedGroups \cap Group

-----------------------------------------------------------------------------
(* The tests of the two entry points. gs is the set of the groups of the   *)
(* session's user, a the client's address.                                 *)

\* withAuthForKey: no restriction at all.
Public(r) ==
    ~r.ipAuth /\ r.allowedGroups = {} /\ r.allowedIPs = {} /\ ~r.requireLogin

\* authorizeIP: require_login does not restrict a raw route.
RawPublic(r) == ~r.ipAuth /\ r.allowedGroups = {} /\ r.allowedIPs = {}

\* authorizeIP: choosing groups implies IP session auth on a raw route.
RawIPAuth(r) == r.ipAuth \/ r.allowedGroups # {}

ipAllows(r, a) == \E e \in r.allowedIPs : normalizeIP[a] \in e

groupsAllow(r, gs) == gs \cap groupSet(r) # {}

\* The group filter of ValidateSessionByIPInGroups, absent without ids.
InGroups(r, gs) == groupIDs(r) # {} => gs \cap groupIDs(r) # {}

\* The two early denials before the cookie is read.
CookieGate(r) == r.persistentLogin /\ (groupSet(r) # {} \/ r.requireLogin)

\* The group check on a valid cookie.
CookieAllows(r, gs) == r.requireLogin \/ groupsAllow(r, gs)

\* storage.RouteAllows, used by the portal's list and by session extension.
RouteAllows(r, gs) == r.allowedGroups = {} \/ gs \cap groupSet(r) # {}
=============================================================================
