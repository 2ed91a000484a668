------------------------------ MODULE ConnLife ------------------------------
(***************************************************************************)
(* The life of the connections of a server, as far as the server and the   *)
(* session have to agree on it: a connection that leaves its read loop     *)
(* never comes back to it, it ends only after it has closed, and only a    *)
(* handler can bring the process down, in which case nothing moves again.  *)
(* StratumServer and StratumConn, which look at the same goroutine from    *)
(* its two sides, both implement this module.                              *)
(***************************************************************************)
CONSTANT Conns  (* the connections                                         *)

VARIABLES
  life,  (* "setup", "waiting", "handling", "closing" or "ended"           *)
  down   (* the process is gone                                            *)

lifeVars == <<life, down>>

LifeInit == life = [c \in Conns |-> "setup"] /\ down = FALSE

Move(c, from, to) ==
  ~down /\ life[c] \in from /\ life' = [life EXCEPT ![c] = to]

Ready(c)    == Move(c, {"setup"}, "waiting") /\ UNCHANGED down
Receive(c)  == Move(c, {"waiting"}, "handling") /\ UNCHANGED down
Answered(c) == Move(c, {"handling"}, "waiting") /\ UNCHANGED down
Leave(c)    == /\ Move(c, {"setup", "waiting", "handling"}, "closing")
               /\ UNCHANGED down
End(c)      == Move(c, {"closing"}, "ended") /\ UNCHANGED down

Crash(c) == ~down /\ life[c] = "handling" /\ down' = TRUE /\ UNCHANGED life

LifeNext ==
  \E c \in Conns :
    Ready(c) \/ Receive(c) \/ Answered(c) \/ Leave(c) \/ End(c) \/ Crash(c)

LifeSpec == LifeInit /\ [][LifeNext]_lifeVars
=============================================================================
