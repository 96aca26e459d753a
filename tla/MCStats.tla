------------------------------- MODULE MCStats -------------------------------
(* Module Stats for TLC: the percentiles of a result, and both ends. *)
EXTENDS Stats

MCFractions == {<<0, 1>>, <<1, 1>>} \cup {Quantiles[k] : k \in 1..4}
=============================================================================
