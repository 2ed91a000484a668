----------------------------- MODULE MCConnReader -----------------------------
(***************************************************************************)
(* The instance of ConnReader for TLC: slices of one and of two bytes,     *)
(* a limit that a read of two bytes may have to respect.                   *)
(***************************************************************************)
EXTENDS ConnReader
===============================================================================
