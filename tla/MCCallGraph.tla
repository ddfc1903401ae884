---------------------------- MODULE MCCallGraph ----------------------------
(***************************************************************************)
(* Every contract of three functions, with every visibility.               *)
(***************************************************************************)
EXTENDS CallGraph
=============================================================================
