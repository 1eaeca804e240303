-------------------------- MODULE MCResourceApply --------------------------
(***************************************************************************)
(* Every policy and three attempts.                                        *)
(***************************************************************************)
EXTENDS ResourceApply
=============================================================================
