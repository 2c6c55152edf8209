--------------------------- MODULE MCSubscriptions ---------------------------
(* Two owners compete for two hostnames with two subscriptions; a trial of   *)
(* one unit expires within the bound of the clock.                           *)
EXTENDS Subscriptions, TLC

CONSTANTS u1, u2, h1, h2, i1, i2

MCUser == {u1, u2}
MCHostname == {h1, h2}
MCId == {i1, i2}

\* Users, hostnames and identifiers are interchangeable.
MCSymmetry == Permutations(MCUser) \cup Permutations(MCHostname) \cup Permutations(MCId)
=============================================================================
