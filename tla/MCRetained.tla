----------------------------- MODULE MCRetained -----------------------------
(* Two profiles that share a topic, one of them with a topic withheld.      *)
EXTENDS Retained, TLC

MCRows     == ("P" :> {"a", "b", "c"}) @@ ("Q" :> {"b", "d"})
MCWithheld == ("P" :> {"c"}) @@ ("Q" :> {})
=============================================================================
