----------------------------- MODULE MCRegistry -----------------------------
(* Registry on two ports: the web host of config.toml is on port 1.        *)
EXTENDS Registry, TLC

CONSTANTS web, app

MCConfig == <<web, 1>> :> [kind |-> "http", tls |-> FALSE, good |-> TRUE,
                           source |-> "config", n |-> 0, range |-> FALSE]

B(h, first, last, k, tls, good) ==
    [host |-> h, first |-> first, last |-> last, kind |-> k, tls |-> tls, good |-> good]

MCPosts ==
    {B(app, 1, 2, "http", FALSE, TRUE), B(app, 2, 2, "http", TRUE, TRUE),
     B(app, 1, 1, "http", TRUE, TRUE), B(app, 2, 2, "http", FALSE, FALSE),
     B(web, 2, 2, "tcp", FALSE, TRUE), B(app, 2, 2, "tcp+udp", FALSE, TRUE),
     B(app, 2, 2, "udp", FALSE, TRUE)}

\* One handler is enough to go wrong, and targets that are in order.
MCGoodPosts == {b \in MCPosts : b.good}

Symmetry == Permutations(Handler)
=============================================================================
