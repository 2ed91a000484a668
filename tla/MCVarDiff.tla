------------------------------ MODULE MCVarDiff ------------------------------
(***************************************************************************)
(* The instance of VarDiff for TLC: the bounds of the program's own        *)
(* parameters (conn.go:344-355) with a target time of 2 s and a retarget   *)
(* after 2 s, a variance above 100 per cent as the program's, which counts *)
(* as 3000, and one below, with and without X2Mode.                        *)
(***************************************************************************)
EXTENDS VarDiff

MCParameters ==
  [MinDiff : {2}, MaxDiff : {5}, TargetTime : {2}, RetargetTime : {2},
   Variance : {30, 200}, X2Mode : BOOLEAN]

(* A host whose clock starts in 1970, and any other.                       *)
MCStarts == {1, 1000}

(* The clock is set back, two shares in a second, a fast and a slow worker,*)
(* and one slow enough for a variance of 200 per cent.                     *)
MCSteps == {-1, 0, 1, 3, 7}

MCClock == 0..3 \cup 1000..1007
=============================================================================
