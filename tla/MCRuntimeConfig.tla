---------------------------- MODULE MCRuntimeConfig ----------------------------
(* Instances of RuntimeConfig: a pool of two URLs, and the pools of one URL  *)
(* that setServerUrl makes.                                                  *)
EXTENDS RuntimeConfig

CONSTANTS a, b

PoolsOfTwo == {<<a, b>>, <<a>>, <<b>>}
PairOnly   == {<<a, b>>}
================================================================================
