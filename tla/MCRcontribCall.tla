--------------------------- MODULE MCRcontribCall ---------------------------
(***************************************************************************)
(* Instances of RcontribCall for TLC.                                      *)
(***************************************************************************)
EXTENDS RcontribNumbers
=============================================================================
