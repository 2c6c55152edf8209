----------------------------- MODULE MCService -----------------------------
(* Three events of two hostnames, two of them of the same one.  created_at  *)
(* is chosen by the client: the events of one hostname need not be ordered. *)
EXTENDS Service, TLC

CONSTANTS e1, e2, e3, h1, h2

MCEvent == {e1, e2, e3}
MCHostname == {h1, h2}
MCTime == 1..3
MCHostnameOf == (e1 :> h1) @@ (e2 :> h1) @@ (e3 :> h2)
MCCreatedAt == (e1 :> 2) @@ (e2 :> 1) @@ (e3 :> 3)
=============================================================================
