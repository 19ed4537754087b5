------------------------------ MODULE MCRouter ------------------------------
(* Instances of Router for TLC: chains of a few entries, any set of them    *)
(* routed.                                                                 *)
EXTENDS Router
=============================================================================
