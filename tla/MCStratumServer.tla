--------------------------- MODULE MCStratumServer ---------------------------
(***************************************************************************)
(* Instances of StratumServer for TLC: one or two connections; two are     *)
(* interchangeable.                                                        *)
(***************************************************************************)
EXTENDS StratumServer, TLC

ConnSymmetry == Permutations(Conns)
==============================================================================
