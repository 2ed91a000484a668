---------------------------- MODULE MCStratumConn ----------------------------
(***************************************************************************)
(* Instances of StratumConn for TLC: connections and buffers are           *)
(* interchangeable.                                                        *)
(***************************************************************************)
EXTENDS StratumConn, TLC

BufferSymmetry ==
  Permutations(Conns) \cup Permutations(Readers) \cup Permutations(Writers)
==============================================================================
