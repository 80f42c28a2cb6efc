------------------------------- MODULE MCServer -------------------------------
(* Bounded instances of the server. *)
EXTENDS Server

\* Requests differ in nothing but their kinds: one order of the kinds stands for all.
Rank(k) == CASE k = "submission" -> 1 [] k = "bad" -> 2 [] k = "buggy" -> 3 [] OTHER -> 4
InOrder == \A r, q \in Requests : r < q => Rank(kind[r]) <= Rank(kind[q])

MCServerInit == ServerInit /\ InOrder
MCServerSpec == MCServerInit /\ [][ServerNext]_vars /\ ServerFairness
=============================================================================
