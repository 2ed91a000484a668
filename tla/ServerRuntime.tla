---------------------------- MODULE ServerRuntime ----------------------------
(***************************************************************************)
(* The routine that owns the servers (routines/stratum-server): it starts  *)
(* one, replaces it when the configuration is reloaded, and shuts it down  *)
(* when the program terminates.  Each start makes a new generation: a      *)
(* server.Server, its done channel, and the goroutine that serves.  The    *)
(* server is the one of ServerContract, seen through its listener; the     *)
(* application framework, which is a library, reloads the configuration    *)
(* and notifies the routine, and cancels its context on SIGTERM.           *)
(***************************************************************************)
EXTENDS Integers

CONSTANTS
  Addrs,       (* the addresses a configuration may bind                   *)
  MaxReloads   (* bound: reloads of the configuration                      *)

ASSUME ReloadsAssumption == MaxReloads \in Nat
ASSUME AddrsAssumption == Addrs # {}

Gens    == 1..(MaxReloads + 1)
Configs == [bind : Addrs, tls : BOOLEAN]  \* tls: both file names are set

VARIABLES
  (* the framework *)
  conf,       (* cc.Conf, shared with the routine without a lock           *)
  reloads,    (* reloads so far                                            *)
  reloading,  (* cc.Conf is written, the routine not yet notified          *)
  pending,    (* notifications on their way to crc                         *)
  cancelled,  (* cr.Done() is closed                                       *)
  (* the goroutine of Runtime *)
  main,       (* program counter                                           *)
  why,        (* what servShutdown was called for: "term" or "reload"      *)
  gen,        (* the current generation                                    *)
  (* a generation's server and its serving goroutine *)
  addr,       (* Server.Addr                                               *)
  tls,        (* ListenAndServeTLS was chosen                              *)
  keys,       (* the two file names that were passed to it are not empty   *)
  phase,      (* program counter of the goroutine                          *)
  listener,   (* "none", "open", "closed"                                  *)
  stopping    (* Shutdown was called: inShutdown                           *)

envVars  == <<conf, reloads, reloading, pending, cancelled>>
mainVars == <<main, why, gen>>
genVars  == <<addr, tls, keys, phase, listener, stopping>>
vars     == <<envVars, mainVars, genVars>>

Phases == {"absent", "spawned", "branch", "call", "listen", "bound", "serving",
           "closing", "sending", "exited"}
MainLabels == {"start", "select", "call", "closeListeners", "drain", "await",
               "returned", "failed"}

TypeOK ==
  /\ conf \in Configs /\ reloads \in 0..MaxReloads /\ reloading \in BOOLEAN
  /\ pending \in 0..MaxReloads /\ cancelled \in BOOLEAN
  /\ main \in MainLabels /\ why \in {"none", "term", "reload"}
  /\ gen \in 0..(MaxReloads + 1)
  /\ addr \in [Gens -> Addrs] /\ tls \in [Gens -> BOOLEAN]
  /\ keys \in [Gens -> BOOLEAN] /\ phase \in [Gens -> Phases]
  /\ listener \in [Gens -> {"none", "open", "closed"}]
  /\ stopping \in [Gens -> BOOLEAN]

Init ==
  /\ conf \in Configs /\ reloads = 0 /\ reloading = FALSE /\ pending = 0
  /\ cancelled = FALSE
  /\ main = "start" /\ why = "none" /\ gen = 0
  /\ addr \in [Gens -> {conf.bind}] /\ tls = [g \in Gens |-> FALSE]
  /\ keys = [g \in Gens |-> FALSE] /\ phase = [g \in Gens |-> "absent"]
  /\ listener = [g \in Gens |-> "none"] /\ stopping = [g \in Gens |-> FALSE]

-----------------------------------------------------------------------------
(* The framework.                                                          *)

(* Ctx.Reload reads the file and stores the new configuration.             *)
Reload(c) ==
  /\ reloads < MaxReloads /\ ~reloading
  /\ conf' = c /\ reloads' = reloads + 1 /\ reloading' = TRUE
  /\ UNCHANGED <<pending, cancelled, mainVars, genVars>>

(* It then notifies the routine, through crc.                              *)
Notify ==
  /\ reloading /\ reloading' = FALSE /\ pending' = pending + 1
  /\ UNCHANGED <<conf, reloads, cancelled, mainVars, genVars>>

(* SIGTERM or SIGINT.                                                      *)
Cancel ==
  /\ ~cancelled /\ cancelled' = TRUE
  /\ UNCHANGED <<conf, reloads, reloading, pending, mainVars, genVars>>

-----------------------------------------------------------------------------
(* The goroutine of Runtime.                                               *)

(* Mutant: the new server is given the address of the old one.             *)
ServStartKeepsAddr ==
  /\ main = "start"
  /\ gen' = gen + 1 /\ main' = "select" /\ why' = "none"
  /\ addr' = [addr EXCEPT ![gen + 1] = IF gen = 0 THEN conf.bind
                                       ELSE addr[gen]]
  /\ phase' = [phase EXCEPT ![gen + 1] = "spawned"]
  /\ UNCHANGED <<envVars, tls, keys, listener, stopping>>

(* servStart: a new server with the address of the moment, and a goroutine *)
(* that will read the rest of the configuration when it runs.              *)
ServStart ==
  /\ main = "start"
  /\ gen' = gen + 1 /\ main' = "select" /\ why' = "none"
  /\ addr' = [addr EXCEPT ![gen + 1] = conf.bind]
  /\ phase' = [phase EXCEPT ![gen + 1] = "spawned"]
  /\ UNCHANGED <<envVars, tls, keys, listener, stopping>>

(* The two branches of the select, both of which call servShutdown.        *)
SelectDone ==
  /\ main = "select" /\ cancelled
  /\ main' = "call" /\ why' = "term"
  /\ UNCHANGED <<envVars, gen, genVars>>

(* Mutant: crc is closed, so that a receive never waits.                   *)
SelectReloadUnasked ==
  /\ main = "select"
  /\ pending' = pending - 1 /\ main' = "call" /\ why' = "reload"
  /\ UNCHANGED <<conf, reloads, reloading, cancelled, gen, genVars>>

(* Mutant: only a server that listens is restarted.                        *)
SelectReloadIfListening ==
  /\ main = "select" /\ pending > 0 /\ listener[gen] = "open"
  /\ pending' = pending - 1 /\ main' = "call" /\ why' = "reload"
  /\ UNCHANGED <<conf, reloads, reloading, cancelled, gen, genVars>>

SelectReload ==
  /\ main = "select" /\ pending > 0
  /\ pending' = pending - 1 /\ main' = "call" /\ why' = "reload"
  /\ UNCHANGED <<conf, reloads, reloading, cancelled, gen, genVars>>

(* Server.Shutdown, as ServerContract has it: Call, StopListening, and     *)
(* then Drained (with the listener's error, perhaps) or Expire.            *)
CallShutdown ==
  /\ main = "call" /\ main' = "closeListeners"
  /\ stopping' = [stopping EXCEPT ![gen] = TRUE]
  /\ UNCHANGED <<envVars, why, gen, addr, tls, keys, phase, listener>>

StopListening ==
  /\ main = "closeListeners" /\ main' = "drain"
  /\ listener' = IF phase[gen] = "serving"
                 THEN [listener EXCEPT ![gen] = "closed"] ELSE listener
  /\ UNCHANGED <<envVars, why, gen, addr, tls, keys, phase, stopping>>

(* When Shutdown fails the routine returns without waiting for done; after *)
(* a reload it reports RoutineDoneSend(ExitStatusFailure) first.           *)
ShutdownFailed == IF why = "term" THEN "returned" ELSE "failed"

Drained ==
  /\ main = "drain" /\ phase[gen] # "serving"
  /\ main' \in {"await", ShutdownFailed}
  /\ UNCHANGED <<envVars, why, gen, genVars>>

Expire ==
  /\ main = "drain" /\ main' = ShutdownFailed
  /\ UNCHANGED <<envVars, why, gen, genVars>>

(* Mutant: servShutdown returns without <-s.done.                          *)
AwaitDoneSkipped ==
  /\ main = "await"
  /\ main' = IF why = "term" THEN "returned" ELSE "start"
  /\ UNCHANGED <<envVars, why, gen, genVars>>

(* <-s.done meets s.done <- true; Runtime returns, or starts again.        *)
AwaitDone ==
  /\ main = "await" /\ phase[gen] = "sending"
  /\ phase' = [phase EXCEPT ![gen] = "exited"]
  /\ main' = IF why = "term" THEN "returned" ELSE "start"
  /\ UNCHANGED <<envVars, why, gen, addr, tls, keys, listener, stopping>>

MainStep ==
  \/ ServStart \/ SelectDone \/ SelectReload \/ CallShutdown \/ StopListening
  \/ Drained \/ Expire \/ AwaitDone

-----------------------------------------------------------------------------
(* The serving goroutine of generation g.                                  *)

Goto(g, l) == phase' = [phase EXCEPT ![g] = l]

(* It looks at CertFile and KeyFie to choose between TLS and plain TCP ... *)
ReadTLS(g) ==
  /\ phase[g] = "spawned"
  /\ tls' = [tls EXCEPT ![g] = conf.tls]
  /\ Goto(g, IF conf.tls THEN "branch" ELSE "call")
  /\ UNCHANGED <<envVars, mainVars, addr, keys, listener, stopping>>

(* ... and reads them again to pass them on.                               *)
ReadKeys(g) ==
  /\ phase[g] = "branch"
  /\ keys' = [keys EXCEPT ![g] = conf.tls]
  /\ Goto(g, "call")
  /\ UNCHANGED <<envVars, mainVars, addr, tls, listener, stopping>>

(* ListenAndServe[TLS]: refused at once by a server that is shutting down. *)
CheckShuttingDown(g) ==
  /\ phase[g] = "call"
  /\ Goto(g, IF stopping[g] THEN "sending" ELSE "listen")
  /\ UNCHANGED <<envVars, mainVars, addr, tls, keys, listener, stopping>>

Free(a) == \A g \in Gens : ~(listener[g] = "open" /\ addr[g] = a)

(* net.Listen fails for sure when another generation holds the address.    *)
Listen(g) ==
  /\ phase[g] = "listen"
  /\ \/ /\ Free(addr[g])
        /\ listener' = [listener EXCEPT ![g] = "open"] /\ Goto(g, "bound")
     \/ Goto(g, "sending") /\ UNCHANGED listener
  /\ UNCHANGED <<envVars, mainVars, addr, tls, keys, stopping>>

(* Mutant: trackListener without the shuttingDown test.                    *)
ServeUnchecked(g) ==
  /\ phase[g] = "bound"
  /\ \/ tls[g] = keys[g] /\ Goto(g, "serving")
     \/ tls[g] /\ Goto(g, "closing")
  /\ UNCHANGED <<envVars, mainVars, addr, tls, keys, listener, stopping>>

(* The key pair, which cannot be loaded from empty names, and then         *)
(* trackListener, which a server that is shutting down refuses.            *)
Serve(g) ==
  /\ phase[g] = "bound"
  /\ \/ ~stopping[g] /\ tls[g] = keys[g] /\ Goto(g, "serving")
     \/ (stopping[g] \/ tls[g]) /\ Goto(g, "closing")
  /\ UNCHANGED <<envVars, mainVars, addr, tls, keys, listener, stopping>>

(* The accept loop ends: the listener was closed, or Accept failed.        *)
LeaveAcceptLoop(g) ==
  /\ phase[g] = "serving" /\ Goto(g, "closing")
  /\ UNCHANGED <<envVars, mainVars, addr, tls, keys, listener, stopping>>

(* The deferred l.Close(); then s.done <- true waits for a receiver.       *)
CloseListener(g) ==
  /\ phase[g] = "closing" /\ Goto(g, "sending")
  /\ listener' = [listener EXCEPT ![g] = "closed"]
  /\ UNCHANGED <<envVars, mainVars, addr, tls, keys, stopping>>

GenStep(g) ==
  \/ ReadTLS(g) \/ ReadKeys(g) \/ CheckShuttingDown(g) \/ Listen(g)
  \/ Serve(g) \/ LeaveAcceptLoop(g) \/ CloseListener(g)

Ended == main \in {"returned", "failed"}  \* Runtime has returned

(* Once the routine has returned the program may stop at any moment.       *)
Terminated == Ended /\ UNCHANGED vars

Next ==
  \/ \E c \in Configs : Reload(c)
  \/ Notify \/ Cancel
  \/ MainStep
  \/ \E g \in Gens : GenStep(g)
  \/ Terminated

Spec == Init /\ [][Next]_vars

(* Goroutines run; an accept loop ends once its listener is closed, and    *)
(* owes nothing before; a select with two ready branches takes each with   *)
(* probability 1/2; Shutdown drains or expires.                            *)
LoopStep(g) == phase[g] # "serving" /\ GenStep(g)
LoopEnds(g) == listener[g] = "closed" /\ LeaveAcceptLoop(g)
GenFairness(g) == WF_vars(LoopStep(g)) /\ WF_vars(LoopEnds(g))

Fairness ==
  /\ WF_vars(MainStep) /\ SF_vars(SelectDone) /\ SF_vars(SelectReload)
  /\ WF_vars(Notify)
  /\ \A g \in Gens : GenFairness(g)

FairSpec == Spec /\ Fairness

-----------------------------------------------------------------------------
(* Safety.                                                                 *)

(* A reload never has two servers alive: the goroutine of the old one is   *)
(* gone, not only shut down, before the new one starts.  And a server      *)
(* never finds its address taken by its own predecessor, whether or not    *)
(* the reload kept the address.                                            *)
OneGeneration ==
  /\ \A g, h \in Gens :
       {phase[g], phase[h]} \cap {"absent", "exited"} = {} => g = h
  /\ \A g \in Gens : phase[g] = "listen" => Free(addr[g])

(* When the routine waits and no notification is on its way, the server    *)
(* has the current configuration: a mixture of two, which the unlocked     *)
(* reads can give, is always about to be replaced.                         *)
ConfigFresh ==
  main = "select" /\ pending = 0 /\ ~reloading
    => /\ addr[gen] = conf.bind
       /\ phase[gen] # "spawned" => tls[gen] = conf.tls
       /\ phase[gen] \notin {"spawned", "branch"} => keys[gen] = tls[gen]

(* Each generation keeps ServerContract, the contract that StratumServer   *)
(* is shown to implement.                                                  *)
ServingPhase(g) ==
  CASE phase[g] = "serving"               -> "yes"
    [] phase[g] = "closing"               -> "stopping"
    [] phase[g] \in {"sending", "exited"} -> "returned"
    [] phase[g] \in Phases \ {"serving", "closing", "sending", "exited"}
                                          -> "no"

ShutdownPhase(g) ==
  IF ~stopping[g] THEN "no"
  ELSE IF g < gen \/ main = "await" \/ phase[g] = "exited" THEN "done"
  ELSE IF main = "closeListeners" THEN "called"
  ELSE IF main = "drain" THEN "draining" ELSE "expired"

ServerOf(g) == INSTANCE ServerContract WITH
  Conns <- {}, serving <- ServingPhase(g), listener <- listener[g],
  shutdown <- ShutdownPhase(g), accepted <- {}, open <- {}

GensInit == \A g \in Gens : ServerOf(g)!ContractInit
GensNext == \A g \in Gens :
  ServerOf(g)!ContractNext \/ UNCHANGED ServerOf(g)!contractVars

GensKeepContract == GensInit /\ [][GensNext]_vars

(* When the fair actions can be taken, in terms of the state alone.        *)
CanMainStep ==
  \/ main \in {"start", "call", "closeListeners", "drain"}
  \/ main = "select" /\ (cancelled \/ pending > 0)
  \/ main = "await" /\ phase[gen] = "sending"
CanSelectDone   == main = "select" /\ cancelled
CanSelectReload == main = "select" /\ pending > 0
CanLoopStep(g) ==
  \/ phase[g] \in {"spawned", "branch", "call", "listen", "closing"}
  \/ phase[g] = "bound" /\ (stopping[g] \/ tls[g] \/ ~keys[g])

(* An action can be taken when its guard holds.                            *)
GuardsSuffice ==
  /\ CanMainStep     => ENABLED <<MainStep>>_vars
  /\ CanSelectDone   => ENABLED <<SelectDone>>_vars
  /\ CanSelectReload => ENABLED <<SelectReload>>_vars
  /\ \A g \in Gens : CanLoopStep(g) => ENABLED <<LoopStep(g)>>_vars

(* Outside its select, where it waits for a notification or the context,   *)
(* the routine can take a step, or its server's goroutine can: at <-s.done *)
(* it never waits for a server that serves on, only for one that is on its *)
(* way to s.done <- true.                                                  *)
CanGoOn ==
  Ended \/ main = "select" \/ CanMainStep
  \/ (main = "await" /\ gen \in Gens /\ CanLoopStep(gen))

(* The routine can always go on, or has nothing to do.                     *)
NobodyStuck == GuardsSuffice /\ CanGoOn

-----------------------------------------------------------------------------
(* Liveness, under FairSpec.                                               *)

(* SIGTERM ends the routine, whatever it was doing.                        *)
TerminationEnds == cancelled ~> Ended

(* Every reload is taken up, unless the routine ends.                      *)
ReloadsServed == (pending > 0) ~> (pending = 0 \/ Ended)

=============================================================================
