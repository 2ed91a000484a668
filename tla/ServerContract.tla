---------------------------- MODULE ServerContract ----------------------------
(***************************************************************************)
(* What a server.Server promises to the routine that owns it, with none of *)
(* the locks, flags and channels that keep the promise:                    *)
(*                                                                         *)
(*   - connections are accepted only while the server serves, and never    *)
(*     again from the moment Shutdown has closed the listener;             *)
(*   - when the serving call returns, its listening socket is not open, so *)
(*     the address may be bound again;                                     *)
(*   - when Shutdown returns without the context's error, nobody accepts   *)
(*     and at most one connection is still open.                           *)
(*                                                                         *)
(* StratumServer implements this module.                                   *)
(***************************************************************************)
CONSTANT Conns  (* the connections clients may open                        *)

VARIABLES
  serving,   (* "no", "yes", "stopping", "returned"                        *)
  listener,  (* the listening socket: "none", "open", "closed"             *)
  shutdown,  (* "no", "called", "draining", "done", "expired"              *)
  accepted,  (* the connections accepted so far                            *)
  open       (* those that are still open                                  *)

contractVars == <<serving, listener, shutdown, accepted, open>>

AtMostOne(S) == \A c, d \in S : c = d

ContractInit ==
  /\ serving = "no" /\ listener = "none" /\ shutdown = "no"
  /\ accepted = {} /\ open = {}

Bind ==
  /\ serving = "no" /\ listener = "none" /\ listener' = "open"
  /\ UNCHANGED <<serving, shutdown, accepted, open>>

Serve ==
  /\ serving = "no" /\ listener = "open" /\ shutdown = "no"
  /\ serving' = "yes"
  /\ UNCHANGED <<listener, shutdown, accepted, open>>

Accept(c) ==
  /\ serving = "yes" /\ listener = "open" /\ c \notin accepted
  /\ accepted' = accepted \cup {c} /\ open' = open \cup {c}
  /\ UNCHANGED <<serving, listener, shutdown>>

HangUp(c) ==
  /\ c \in open /\ open' = open \ {c}
  /\ UNCHANGED <<serving, listener, shutdown, accepted>>

(* The serving call gives up: a listener refused, or the accept loop left. *)
Stop ==
  /\ serving \in {"no", "yes"} /\ serving' = "stopping"
  /\ UNCHANGED <<listener, shutdown, accepted, open>>

Return ==
  /\ \/ serving = "stopping" /\ listener' = "closed"
     \/ serving = "no" /\ listener = "none" /\ UNCHANGED listener
  /\ serving' = "returned"
  /\ UNCHANGED <<shutdown, accepted, open>>

Call ==
  /\ shutdown = "no" /\ shutdown' = "called"
  /\ UNCHANGED <<serving, listener, accepted, open>>

StopListening ==
  /\ shutdown = "called" /\ shutdown' = "draining"
  /\ listener' = IF serving = "yes" THEN "closed" ELSE listener
  /\ UNCHANGED <<serving, accepted, open>>

Drained ==
  /\ shutdown = "draining" /\ serving # "yes" /\ AtMostOne(open)
  /\ shutdown' = "done"
  /\ UNCHANGED <<serving, listener, accepted, open>>

Expire ==
  /\ shutdown = "draining" /\ shutdown' = "expired"
  /\ UNCHANGED <<serving, listener, accepted, open>>

ContractNext ==
  \/ Bind \/ Serve \/ Stop \/ Return
  \/ \E c \in Conns : Accept(c) \/ HangUp(c)
  \/ Call \/ StopListening \/ Drained \/ Expire

ContractSpec == ContractInit /\ [][ContractNext]_contractVars
===============================================================================
