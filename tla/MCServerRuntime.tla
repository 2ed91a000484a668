--------------------------- MODULE MCServerRuntime ---------------------------
(***************************************************************************)
(* Instances of ServerRuntime for TLC: two addresses, so that a reload may *)
(* keep the address or change it.                                          *)
(***************************************************************************)
EXTENDS ServerRuntime
==============================================================================
