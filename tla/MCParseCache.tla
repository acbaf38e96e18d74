---------------------------- MODULE MCParseCache ----------------------------
(* Two files that may both have the table; a text without nodes; an event. *)
EXTENDS ParseCache, TLC

CONSTANTS s1, cli, c1, c2, f1, f2, t1, t2

MCPlace == f1 :> 1 @@ f2 :> 2

Symmetry == Permutations({c1, c2})
=============================================================================
