----------------------------- MODULE MCSessions -----------------------------
(* Sessions on a small instance: the address "a4" is also reported in its  *)
(* IPv4-mapped spelling "a6".                                              *)
EXTENDS Sessions, TLC

CONSTANTS a4, a6, g1

MCnormalizeIP == [a \in Addr |-> IF a = a6 THEN a4 ELSE a]

R(gs, ips, ipa, pl, rl) ==
    [allowedGroups |-> gs, allowedIPs |-> ips, ipAuth |-> ipa,
     persistentLogin |-> pl, requireLogin |-> rl]

\* One rule that uses every path, for the runs about concurrent handlers.
MCRules == {R({g1}, {}, TRUE, TRUE, FALSE)}

\* The shapes of a rule, for the run about the decision itself: public; a
\* group by address or cookie; any login by cookie; an allowlist with a group
\* and one that matches nothing; entries that are not numbers.
MCRuleShapes ==
    {R({}, {}, FALSE, FALSE, FALSE), R({g1}, {}, TRUE, TRUE, FALSE),
     R({}, {}, FALSE, TRUE, TRUE), R({g1}, {{a4}, {}}, FALSE, TRUE, FALSE),
     R({}, {{}}, FALSE, TRUE, FALSE), R({Junk, Blank}, {}, TRUE, FALSE, FALSE)}

Symmetry == Permutations(Token) \cup Permutations(User) \cup Permutations(Worker)

\* Zero hours, which mean the default, and no renewal on access.
MCNoRenewal == {[hours |-> 0, renew |-> FALSE]}
=============================================================================
