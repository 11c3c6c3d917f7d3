------------------------------ MODULE MCAppState -------------------------------
(* Instances of AppState: one pool of two URLs and a manual change to one. *)
EXTENDS AppState

CONSTANTS a, b

PairAndOne == {<<a, b>>, <<a>>}
================================================================================
