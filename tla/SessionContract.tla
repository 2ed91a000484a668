--------------------------- MODULE SessionContract ---------------------------
(***************************************************************************)
(* What a miner can rely on, with none of the buffers, the sticky errors   *)
(* and the shadowed err that keep the promise: the messages it is owed for *)
(* a request arrive in order and without a hole, its next request is read  *)
(* only when they all have arrived, and after the first that is lost there *)
(* are no more, and the connection closes.  StratumConn implements this    *)
(* module.                                                                 *)
(***************************************************************************)
EXTENDS Naturals, Sequences

CONSTANTS
  Conns,  (* the connections                                               *)
  Debts   (* the messages owed for a method that is the n-th request       *)

VARIABLES
  life, down,  (* as in ConnLife                                           *)
  requests,    (* the methods that a connection has read                   *)
  due,         (* the messages it still owes                               *)
  received     (* the messages its client has received                     *)

sessionVars == <<life, down, requests, due, received>>

Nothing == [c \in Conns |-> <<>>]

SessionInit ==
  /\ life = [c \in Conns |-> "setup"] /\ down = FALSE
  /\ requests = Nothing /\ due = Nothing /\ received = Nothing

Move(c, from, to) ==
  ~down /\ life[c] \in from /\ life' = [life EXCEPT ![c] = to]

Ready(c) ==
  /\ Move(c, {"setup"}, "waiting")
  /\ UNCHANGED <<down, requests, due, received>>

Receive(c, m) ==
  LET n == Len(requests[c]) + 1 IN
  /\ Move(c, {"waiting"}, "handling")
  /\ requests' = [requests EXCEPT ![c] = Append(@, m)]
  /\ due' = [due EXCEPT ![c] = Debts[m][n]]
  /\ UNCHANGED <<down, received>>

Deliver(c) ==
  /\ ~down /\ life[c] = "handling" /\ due[c] # <<>>
  /\ received' = [received EXCEPT ![c] = Append(@, Head(due[c]))]
  /\ due' = [due EXCEPT ![c] = Tail(@)]
  /\ life' \in {life, IF Tail(due[c]) = <<>>
                      THEN [life EXCEPT ![c] = "waiting"] ELSE life}
  /\ UNCHANGED <<down, requests>>

(* A request for which nothing is owed.                                    *)
Ignore(c) ==
  /\ Move(c, {"handling"}, "waiting") /\ due[c] = <<>>
  /\ UNCHANGED <<down, requests, due, received>>

(* A message is lost, or the connection; what is owed never arrives.       *)
Leave(c) ==
  /\ Move(c, {"setup", "waiting", "handling"}, "closing")
  /\ due' = [due EXCEPT ![c] = <<>>]
  /\ UNCHANGED <<down, requests, received>>

End(c) ==
  /\ Move(c, {"closing"}, "ended")
  /\ UNCHANGED <<down, requests, due, received>>

Crash(c) ==
  /\ ~down /\ life[c] = "handling" /\ down' = TRUE
  /\ UNCHANGED <<life, requests, due, received>>

SessionNext ==
  \E c \in Conns :
    \/ Ready(c) \/ Deliver(c) \/ Ignore(c) \/ Leave(c) \/ End(c) \/ Crash(c)
    \/ \E m \in DOMAIN Debts : Receive(c, m)

SessionSpec == SessionInit /\ [][SessionNext]_sessionVars
=============================================================================
