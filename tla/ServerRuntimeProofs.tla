------------------------- MODULE ServerRuntimeProofs -------------------------
(***************************************************************************)
(* Proofs about ServerRuntime, for any set of addresses and any number of  *)
(* reloads.                                                                *)
(***************************************************************************)
EXTENDS ServerRuntime, Induction

-----------------------------------------------------------------------------
(* The inductive invariant behind the safety properties.                   *)

(* Restarts that were asked for and have been taken up.                    *)
Restarts == IF main = "select" \/ why = "term" THEN gen - 1 ELSE gen

GenInv ==
  /\ Restarts + pending + (IF reloading THEN 1 ELSE 0) <= reloads
  /\ main = "start" /\ gen > 0 => phase[gen] = "exited"
  /\ main # "start" => gen > 0
  /\ main = "start" => why # "term"
  /\ main = "select" => why = "none"
  /\ \A g \in Gens : /\ g < gen => phase[g] = "exited"
                     /\ g > gen => phase[g] = "absent"
                     /\ listener[g] = "open"
                          => phase[g] \in {"bound", "serving", "closing"}
                     /\ phase[g] \in {"absent", "spawned", "branch"}
                          => ~keys[g]

IInv == TypeOK /\ GenInv /\ ConfigFresh

-----------------------------------------------------------------------------
LEMMA InitEstablishesIInv ==
  ASSUME Init
  PROVE  IInv
  <1>1. conf.bind \in Addrs BY DEF Init, Configs
  <1>2. TypeOK
    <2>1. /\ phase \in [Gens -> Phases] /\ addr \in [Gens -> Addrs]
          /\ main \in MainLabels
      BY <1>1 DEF Init, MainLabels, Phases
    <2>2. /\ conf \in Configs /\ reloads \in 0..MaxReloads
          /\ pending \in 0..MaxReloads /\ gen \in 0..(MaxReloads + 1)
      BY ReloadsAssumption DEF Init
    <2>3. /\ tls \in [Gens -> BOOLEAN] /\ keys \in [Gens -> BOOLEAN]
          /\ listener \in [Gens -> {"none", "open", "closed"}]
          /\ stopping \in [Gens -> BOOLEAN]
      BY DEF Init
    <2>. QED BY <2>1, <2>2, <2>3 DEF Init, TypeOK
  <1>3. GenInv BY DEF Init, GenInv, Restarts, Gens
  <1>4. ConfigFresh BY DEF Init, ConfigFresh
  <1>. QED BY <1>2, <1>3, <1>4 DEF IInv

(* Notifications and generations stay within the bound on reloads.         *)
LEMMA GenerationsBounded ==
  ASSUME TypeOK, GenInv
  PROVE  /\ main = "start" => gen + 1 \in Gens
         /\ gen > 0 => gen \in Gens
         /\ reloading => pending + 1 \in 0..MaxReloads
  <1>1. /\ gen \in Int /\ gen >= 0 /\ gen <= MaxReloads + 1
        /\ pending \in Int /\ pending >= 0
        /\ reloads \in Int /\ reloads <= MaxReloads
    BY ReloadsAssumption DEF TypeOK
  <1>2. Restarts \in Int /\ Restarts >= 0
    BY <1>1 DEF GenInv, Restarts
  <1>3. main = "start" => Restarts = gen BY DEF GenInv, Restarts
  <1>. QED BY <1>1, <1>2, <1>3, ReloadsAssumption DEF GenInv, Gens

LEMMA TypeOKPreserved ==
  ASSUME IInv, [Next]_vars
  PROVE  TypeOK'
  <1>. USE ReloadsAssumption
       DEF IInv, TypeOK, envVars, mainVars, genVars
  <1>1. ASSUME NEW c \in Configs, Reload(c) PROVE TypeOK'
    BY <1>1 DEF Reload
  <1>2. CASE Notify BY <1>2, GenerationsBounded DEF Notify
  <1>3. CASE Cancel BY <1>3 DEF Cancel
  <1>4. CASE MainStep
    <2>1. CASE ServStart
      <3>1. gen + 1 \in Gens
        BY <2>1, GenerationsBounded DEF ServStart
      <3>2. main' \in MainLabels BY <2>1 DEF ServStart, MainLabels
      <3>3. addr' \in [Gens -> Addrs] /\ phase' \in [Gens -> Phases]
        BY <2>1, <3>1 DEF ServStart, Configs, Phases
      <3>. QED BY <2>1, <3>1, <3>2, <3>3 DEF ServStart, Gens
    <2>2. CASE SelectDone BY <2>2 DEF SelectDone, MainLabels
    <2>3. CASE SelectReload BY <2>3 DEF SelectReload, MainLabels
    <2>4. CASE CallShutdown BY <2>4 DEF CallShutdown, MainLabels
    <2>5. CASE StopListening BY <2>5 DEF StopListening, MainLabels
    <2>6. CASE Drained BY <2>6 DEF Drained, ShutdownFailed, MainLabels
    <2>7. CASE Expire BY <2>7 DEF Expire, ShutdownFailed, MainLabels
    <2>8. CASE AwaitDone BY <2>8 DEF AwaitDone, MainLabels, Phases
    <2>. QED BY <1>4, <2>1, <2>2, <2>3, <2>4, <2>5, <2>6, <2>7, <2>8
             DEF MainStep
  <1>5. ASSUME NEW g \in Gens, GenStep(g) PROVE TypeOK'
    <2>. USE DEF Goto, Phases
    <2>1. CASE ReadTLS(g) BY <2>1 DEF ReadTLS, Configs
    <2>2. CASE ReadKeys(g) BY <2>2 DEF ReadKeys, Configs
    <2>3. CASE CheckShuttingDown(g) BY <2>3 DEF CheckShuttingDown
    <2>4. CASE Listen(g) BY <2>4 DEF Listen
    <2>5. CASE Serve(g) BY <2>5 DEF Serve
    <2>6. CASE LeaveAcceptLoop(g) BY <2>6 DEF LeaveAcceptLoop
    <2>7. CASE CloseListener(g) BY <2>7 DEF CloseListener
    <2>. QED BY <1>5, <2>1, <2>2, <2>3, <2>4, <2>5, <2>6, <2>7 DEF GenStep
  <1>6. CASE Terminated \/ UNCHANGED vars BY <1>6 DEF Terminated, vars
  <1>. QED BY <1>1, <1>2, <1>3, <1>4, <1>5, <1>6 DEF Next

(* The count of restarts bounds the generations; a generation is left only *)
(* when its goroutine has met <-s.done.                                    *)
LEMMA GenInvPreserved ==
  ASSUME IInv, [Next]_vars
  PROVE  GenInv'
  <1>. USE ReloadsAssumption
       DEF IInv, GenInv, Restarts, envVars, mainVars, genVars
  <1>a. /\ phase \in [Gens -> Phases]
        /\ listener \in [Gens -> {"none", "open", "closed"}]
        /\ keys \in [Gens -> BOOLEAN] /\ gen \in Int /\ gen >= 0
        /\ pending \in Int /\ pending >= 0 /\ reloads \in Int
        /\ reloads <= MaxReloads /\ Gens \subseteq Int
        /\ reloading \in BOOLEAN
    BY DEF TypeOK, Gens
  <1>1. ASSUME NEW c \in Configs, Reload(c) PROVE GenInv'
    BY <1>1, <1>a DEF Reload
  <1>2. CASE Notify BY <1>2, <1>a DEF Notify
  <1>3. CASE Cancel BY <1>3 DEF Cancel
  <1>4. CASE MainStep
    <2>1. CASE ServStart
      <3>1. gen + 1 \in Gens BY <2>1, GenerationsBounded DEF ServStart
      <3>2. gen > 0 => gen \in Gens BY GenerationsBounded
      <3>3. ASSUME NEW g \in Gens, g < gen + 1 PROVE phase'[g] = "exited"
        <4>1. g > 0 /\ g # gen + 1 /\ (g < gen \/ g = gen)
          BY <3>3, <1>a DEF Gens
        <4>. QED BY <2>1, <4>1, <3>1, <3>2, <1>a DEF ServStart
      <3>4. ASSUME NEW g \in Gens, g > gen + 1 PROVE phase'[g] = "absent"
        BY <2>1, <3>4, <3>1, <1>a DEF ServStart
      <3>5. ASSUME NEW g \in Gens
            PROVE  /\ listener'[g] = "open"
                        => phase'[g] \in {"bound", "serving", "closing"}
                   /\ phase'[g] \in {"absent", "spawned", "branch"}
                        => ~keys'[g]
        <4>1. phase[gen + 1] = "absent" BY <3>1, <1>a
        <4>2. /\ phase'[g] = IF g = gen + 1 THEN "spawned" ELSE phase[g]
              /\ UNCHANGED <<listener, keys>>
          BY <2>1, <3>1, <1>a DEF ServStart
        <4>3. CASE g = gen + 1 BY <4>1, <4>2, <4>3
        <4>4. CASE g # gen + 1 BY <4>2, <4>4
        <4>. QED BY <4>3, <4>4
      <3>6. Restarts' + pending' + (IF reloading' THEN 1 ELSE 0) <= reloads'
        BY <2>1, <1>a DEF ServStart
      <3>. QED BY <2>1, <3>3, <3>4, <3>5, <3>6, <1>a DEF ServStart
    <2>2. CASE SelectDone BY <2>2, <1>a DEF SelectDone
    <2>3. CASE SelectReload BY <2>3, <1>a DEF SelectReload
    <2>4. CASE CallShutdown BY <2>4 DEF CallShutdown
    <2>5. CASE StopListening BY <2>5, <1>a DEF StopListening
    <2>6. CASE Drained BY <2>6 DEF Drained, ShutdownFailed
    <2>7. CASE Expire BY <2>7 DEF Expire, ShutdownFailed
    <2>8. CASE AwaitDone
      <3>1. gen \in Gens BY <2>8, <1>a, GenerationsBounded DEF AwaitDone
      <3>. QED BY <2>8, <3>1, <1>a DEF AwaitDone
    <2>. QED BY <1>4, <2>1, <2>2, <2>3, <2>4, <2>5, <2>6, <2>7, <2>8
             DEF MainStep
  <1>5. ASSUME NEW g \in Gens, GenStep(g) PROVE GenInv'
    <2>. USE DEF Goto
    <2>1. CASE ReadTLS(g) BY <2>1, <1>a DEF ReadTLS
    <2>2. CASE ReadKeys(g) BY <2>2, <1>a DEF ReadKeys
    <2>3. CASE CheckShuttingDown(g) BY <2>3, <1>a DEF CheckShuttingDown
    <2>4. CASE Listen(g) BY <2>4, <1>a DEF Listen
    <2>5. CASE Serve(g) BY <2>5, <1>a DEF Serve
    <2>6. CASE LeaveAcceptLoop(g) BY <2>6, <1>a DEF LeaveAcceptLoop
    <2>7. CASE CloseListener(g) BY <2>7, <1>a DEF CloseListener
    <2>. QED BY <1>5, <2>1, <2>2, <2>3, <2>4, <2>5, <2>6, <2>7 DEF GenStep
  <1>6. CASE Terminated \/ UNCHANGED vars BY <1>6 DEF Terminated, vars
  <1>. QED BY <1>1, <1>2, <1>3, <1>4, <1>5, <1>6 DEF Next

(* ConfigFresh is inductive: a notification follows every write, and the   *)
(* generation that is started for it reads the configuration after it.     *)
LEMMA ConfigFreshPreserved ==
  ASSUME IInv, [Next]_vars
  PROVE  ConfigFresh'
  <1>. USE DEF IInv, ConfigFresh, envVars, mainVars, genVars
  <1>a. /\ phase \in [Gens -> Phases] /\ addr \in [Gens -> Addrs]
        /\ keys \in [Gens -> BOOLEAN] /\ tls \in [Gens -> BOOLEAN]
        /\ pending \in Nat /\ reloading \in BOOLEAN /\ conf.tls \in BOOLEAN
    BY DEF TypeOK, Configs
  <1>b. main # "start" => gen \in Gens
    BY GenerationsBounded DEF GenInv
  <1>1. ASSUME NEW c \in Configs, Reload(c) PROVE ConfigFresh'
    BY <1>1 DEF Reload
  <1>2. CASE Notify BY <1>2, <1>a DEF Notify
  <1>3. CASE Cancel BY <1>3 DEF Cancel
  <1>4. CASE MainStep
    <2>1. CASE ServStart
      <3>1. gen + 1 \in Gens BY <2>1, GenerationsBounded DEF ServStart
      <3>. QED BY <2>1, <3>1, <1>a DEF ServStart
    <2>2. CASE AwaitDone BY <2>2 DEF AwaitDone
    <2>3. CASE SelectDone \/ SelectReload \/ CallShutdown \/ StopListening
                 \/ Drained \/ Expire
      BY <2>3 DEF SelectDone, SelectReload, CallShutdown, StopListening,
                  Drained, Expire, ShutdownFailed
    <2>. QED BY <1>4, <2>1, <2>2, <2>3 DEF MainStep
  <1>5. ASSUME NEW g \in Gens, GenStep(g) PROVE ConfigFresh'
    <2>. USE DEF Goto
    <2>1. CASE ReadTLS(g)
      <3>1. ~keys[g] BY <2>1 DEF ReadTLS, GenInv
      <3>. QED BY <2>1, <3>1, <1>a, <1>b DEF ReadTLS
    <2>2. CASE ReadKeys(g) BY <2>2, <1>a, <1>b DEF ReadKeys
    <2>3. CASE CheckShuttingDown(g) BY <2>3, <1>a, <1>b DEF CheckShuttingDown
    <2>4. CASE Listen(g) BY <2>4, <1>a, <1>b DEF Listen
    <2>5. CASE Serve(g) BY <2>5, <1>a, <1>b DEF Serve
    <2>6. CASE LeaveAcceptLoop(g) BY <2>6, <1>a, <1>b DEF LeaveAcceptLoop
    <2>7. CASE CloseListener(g) BY <2>7, <1>a, <1>b DEF CloseListener
    <2>. QED BY <1>5, <2>1, <2>2, <2>3, <2>4, <2>5, <2>6, <2>7 DEF GenStep
  <1>6. CASE Terminated \/ UNCHANGED vars BY <1>6 DEF Terminated, vars
  <1>. QED BY <1>1, <1>2, <1>3, <1>4, <1>5, <1>6 DEF Next

(* The inductive invariant holds in every reachable state.                 *)
THEOREM Invariance == Spec => []IInv
  <1>1. Init => IInv BY InitEstablishesIInv
  <1>2. IInv /\ [Next]_vars => IInv'
    <2>. SUFFICES ASSUME IInv, [Next]_vars PROVE IInv'
      OBVIOUS
    <2>. QED BY TypeOKPreserved, GenInvPreserved, ConfigFreshPreserved DEF IInv
  <1>. QED BY <1>1, <1>2, PTL DEF Spec

(* Every variable keeps its type: pending reloads and generations stay     *)
(* within what was asked for.                                              *)
THEOREM TypeCorrect == Spec => []TypeOK
  <1>1. IInv => TypeOK BY DEF IInv
  <1>. QED BY <1>1, Invariance, PTL

(* A reload never has two servers alive, and a server never finds its      *)
(* address taken by its predecessor.                                       *)
THEOREM OneGenerationAlive == Spec => []OneGeneration
  <1>1. IInv => OneGeneration
    <2>. SUFFICES ASSUME IInv PROVE OneGeneration
      OBVIOUS
    <2>a. gen \in Int /\ Gens \subseteq Int BY DEF IInv, TypeOK, Gens
    <2>1. ASSUME NEW g \in Gens, NEW h \in Gens,
                 {phase[g], phase[h]} \cap {"absent", "exited"} = {}
          PROVE  g = h
      <3>1. /\ phase[g] \notin {"absent", "exited"}
            /\ phase[h] \notin {"absent", "exited"}
        BY <2>1
      <3>2. g = gen BY <2>a, <3>1 DEF IInv, GenInv
      <3>3. h = gen BY <2>a, <3>1 DEF IInv, GenInv
      <3>. QED BY <3>2, <3>3
    <2>2. ASSUME NEW g \in Gens, phase[g] = "listen",
                 NEW h \in Gens, listener[h] = "open"
          PROVE  FALSE
      <3>1. g = gen BY <2>a, <2>2 DEF IInv, GenInv
      <3>2. h = gen BY <2>a, <2>2 DEF IInv, GenInv
      <3>. QED BY <2>2, <3>1, <3>2 DEF IInv, GenInv
    <2>. QED BY <2>1, <2>2 DEF OneGeneration, Free
  <1>. QED BY <1>1, Invariance, PTL

(* A server that may stay has the current configuration.                   *)
THEOREM ConfigIsFresh == Spec => []ConfigFresh
  <1>1. IInv => ConfigFresh BY DEF IInv
  <1>. QED BY <1>1, Invariance, PTL

-----------------------------------------------------------------------------
(* Each generation keeps ServerContract.                                   *)

Unbound == {"absent", "spawned", "branch", "call", "listen"}

(* A server is stopped once, while it is the current one; its listener is  *)
(* not open before it is bound, and is when it comes to serve.             *)
StopInv ==
  /\ \A g \in Gens :
       /\ phase[g] \in Unbound => listener[g] = "none"
       /\ phase[g] = "bound" => listener[g] = "open"
       /\ stopping[g] /\ g = gen => main \notin {"select", "call"}
       /\ g > gen => ~stopping[g]
       /\ main \notin {"start", "returned"} /\ g = gen => phase[g] # "exited"
  /\ main \in {"closeListeners", "drain", "await", "returned", "failed"}
       => stopping[gen]

LEMMA StopInvPreserved ==
  ASSUME IInv, StopInv, [Next]_vars
  PROVE  StopInv'
  <1>. USE DEF StopInv, Unbound, envVars, mainVars, genVars
  <1>a. /\ phase \in [Gens -> Phases] /\ stopping \in [Gens -> BOOLEAN]
        /\ listener \in [Gens -> {"none", "open", "closed"}]
        /\ gen \in Int /\ Gens \subseteq Int /\ main \in MainLabels
    BY DEF IInv, TypeOK, Gens
  <1>b. /\ main # "start" => gen \in Gens
        /\ main = "start" => gen + 1 \in Gens
        /\ \A g \in Gens : g > gen => phase[g] = "absent"
    BY GenerationsBounded DEF IInv, GenInv
  <1>1. CASE \/ \E c \in Configs : Reload(c)
             \/ Notify \/ Cancel \/ Terminated \/ UNCHANGED vars
    BY <1>1 DEF Reload, Notify, Cancel, Terminated, vars
  <1>2. CASE MainStep
    <2>1. CASE ServStart BY <2>1, <1>a, <1>b DEF ServStart
    <2>2. CASE SelectDone BY <2>2, <1>a DEF SelectDone
    <2>3. CASE SelectReload BY <2>3, <1>a DEF SelectReload
    <2>4. CASE CallShutdown BY <2>4, <1>a, <1>b DEF CallShutdown
    <2>5. CASE StopListening BY <2>5, <1>a, <1>b DEF StopListening
    <2>6. CASE Drained \/ Expire
      BY <2>6, <1>a DEF Drained, Expire, ShutdownFailed
    <2>7. CASE AwaitDone BY <2>7, <1>a, <1>b DEF AwaitDone
    <2>. QED BY <1>2, <2>1, <2>2, <2>3, <2>4, <2>5, <2>6, <2>7 DEF MainStep
  <1>3. ASSUME NEW h \in Gens, GenStep(h) PROVE StopInv'
    <2>. USE <1>a DEF Goto
    <2>1. CASE ReadTLS(h) BY <2>1 DEF ReadTLS
    <2>2. CASE ReadKeys(h) BY <2>2 DEF ReadKeys
    <2>3. CASE CheckShuttingDown(h) BY <2>3 DEF CheckShuttingDown
    <2>4. CASE Listen(h) BY <2>4 DEF Listen
    <2>5. CASE Serve(h) BY <2>5 DEF Serve
    <2>6. CASE LeaveAcceptLoop(h) BY <2>6 DEF LeaveAcceptLoop
    <2>7. CASE CloseListener(h) BY <2>7 DEF CloseListener
    <2>. QED BY <1>3, <2>1, <2>2, <2>3, <2>4, <2>5, <2>6, <2>7 DEF GenStep
  <1>. QED BY <1>1, <1>2, <1>3 DEF Next

(* What the owner's view of a server depends on.                           *)
LEMMA Views ==
  ASSUME TypeOK, TypeOK', NEW g \in Gens
  PROVE  /\ phase[g] = "serving" => ServingPhase(g) = "yes"
         /\ phase[g] = "closing" => ServingPhase(g) = "stopping"
         /\ phase[g] \in {"sending", "exited"} => ServingPhase(g) = "returned"
         /\ phase[g] \in Unbound \cup {"bound"} => ServingPhase(g) = "no"
         /\ phase'[g] = "serving" => ServingPhase(g)' = "yes"
         /\ phase'[g] = "closing" => ServingPhase(g)' = "stopping"
         /\ phase'[g] \in {"sending", "exited"} => ServingPhase(g)' = "returned"
         /\ phase'[g] \in Unbound \cup {"bound"} => ServingPhase(g)' = "no"
         /\ phase'[g] = phase[g] => ServingPhase(g)' = ServingPhase(g)
  BY DEF ServingPhase, Phases, Unbound

Seen(g) == <<ServingPhase(g), listener[g], ShutdownPhase(g)>>

LEMMA StepsKeepContract ==
  ASSUME IInv, StopInv, [Next]_vars, NEW g \in Gens
  PROVE  ServerOf(g)!ContractNext \/ UNCHANGED Seen(g)
  <1>. USE DEF envVars, mainVars, genVars, Seen
  <1>0. TypeOK /\ TypeOK' BY TypeOKPreserved DEF IInv
  <1>a. /\ phase \in [Gens -> Phases] /\ stopping \in [Gens -> BOOLEAN]
        /\ listener \in [Gens -> {"none", "open", "closed"}]
        /\ gen \in Int /\ g \in Int
    BY <1>0 DEF TypeOK, Gens
  <1>b. /\ main # "start" => gen \in Gens
        /\ main = "start" => gen + 1 \in Gens
        /\ main = "start" /\ g = gen => phase[g] = "exited"
        /\ g > gen => phase[g] = "absent"
        /\ g < gen => phase[g] = "exited"
    BY <1>a, GenerationsBounded DEF IInv, GenInv, Gens
  <1>1. CASE \/ \E c \in Configs : Reload(c)
             \/ Notify \/ Cancel \/ Terminated \/ UNCHANGED vars
    <2>1. UNCHANGED <<phase, listener, stopping, main, gen>>
      BY <1>1 DEF Reload, Notify, Cancel, Terminated, vars
    <2>. QED BY <2>1, <1>0, Views DEF ShutdownPhase
  <1>2. CASE MainStep
    <2>1. CASE ServStart
      <3>1. /\ phase'[g] = IF g = gen + 1 THEN "spawned" ELSE phase[g]
            /\ UNCHANGED <<listener, stopping>> /\ gen' = gen + 1
            /\ main = "start" /\ main' = "select"
        BY <2>1, <1>a, <1>b DEF ServStart
      <3>2. ServingPhase(g)' = ServingPhase(g)
        BY <3>1, <1>0, <1>a, <1>b, Views DEF Unbound
      <3>3. ShutdownPhase(g)' = ShutdownPhase(g)
        BY <3>1, <1>a, <1>b DEF ShutdownPhase, StopInv
      <3>. QED BY <3>1, <3>2, <3>3
    <2>2. CASE SelectDone \/ SelectReload
      <3>1. /\ UNCHANGED <<phase, listener, stopping, gen>>
            /\ main = "select" /\ main' = "call"
        BY <2>2 DEF SelectDone, SelectReload
      <3>2. ServingPhase(g)' = ServingPhase(g) BY <3>1, <1>0, Views
      <3>3. ShutdownPhase(g)' = ShutdownPhase(g)
        BY <3>1, <1>a DEF ShutdownPhase, StopInv
      <3>. QED BY <3>1, <3>2, <3>3
    <2>3. CASE CallShutdown
      <3>1. /\ UNCHANGED <<phase, listener, gen>> /\ main = "call"
            /\ main' = "closeListeners"
            /\ g = gen => stopping'[g]
            /\ g # gen => stopping'[g] = stopping[g]
        BY <2>3, <1>a, <1>b DEF CallShutdown
      <3>2. ServingPhase(g)' = ServingPhase(g) BY <3>1, <1>0, Views
      <3>3. IF g = gen
            THEN ShutdownPhase(g) = "no" /\ ShutdownPhase(g)' = "called"
            ELSE ShutdownPhase(g)' = ShutdownPhase(g)
        BY <3>1, <1>a DEF ShutdownPhase, StopInv
      <3>. QED BY <3>1, <3>2, <3>3 DEF ServerOf!ContractNext, ServerOf!Call
    <2>4. CASE StopListening
      <3>1. /\ UNCHANGED <<phase, stopping, gen>> /\ main = "closeListeners"
            /\ main' = "drain"
            /\ listener'[g] = IF g = gen /\ phase[g] = "serving"
                              THEN "closed" ELSE listener[g]
        BY <2>4, <1>a, <1>b DEF StopListening
      <3>2. ServingPhase(g)' = ServingPhase(g) BY <3>1, <1>0, Views
      <3>3. IF g = gen
            THEN ShutdownPhase(g) = "called" /\ ShutdownPhase(g)' = "draining"
            ELSE ShutdownPhase(g)' = ShutdownPhase(g)
        BY <3>1, <1>a DEF ShutdownPhase, StopInv
      <3>4. ServingPhase(g) = "yes" <=> phase[g] = "serving"
        BY <1>0, <1>a, Views DEF Unbound, Phases
      <3>. QED BY <3>1, <3>2, <3>3, <3>4
           DEF ServerOf!ContractNext, ServerOf!StopListening
    <2>5. CASE Drained \/ Expire
      <3>1. /\ UNCHANGED <<phase, listener, stopping, gen>> /\ main = "drain"
            /\ main' \in {"await", "returned", "failed"}
            /\ main' = "await" => phase[gen] # "serving"
        BY <2>5 DEF Drained, Expire, ShutdownFailed
      <3>2. ServingPhase(g)' = ServingPhase(g) BY <3>1, <1>0, Views
      <3>3. IF g = gen
            THEN /\ ShutdownPhase(g) = "draining"
                 /\ ShutdownPhase(g)' = IF main' = "await" THEN "done"
                                        ELSE "expired"
            ELSE ShutdownPhase(g)' = ShutdownPhase(g)
        BY <3>1, <1>a DEF ShutdownPhase, StopInv
      <3>4. phase[g] # "serving" => ServingPhase(g) # "yes"
        BY <1>0, <1>a, Views DEF Unbound, Phases
      <3>. QED BY <3>1, <3>2, <3>3, <3>4
           DEF ServerOf!ContractNext, ServerOf!Drained, ServerOf!Expire,
               ServerOf!AtMostOne
    <2>6. CASE AwaitDone
      <3>1. /\ UNCHANGED <<listener, stopping, gen>> /\ main = "await"
            /\ main' \in {"start", "returned"}
            /\ phase[gen] = "sending" /\ gen \in Gens
            /\ phase'[g] = IF g = gen THEN "exited" ELSE phase[g]
        BY <2>6, <1>a, <1>b DEF AwaitDone
      <3>2. ServingPhase(g)' = ServingPhase(g) BY <3>1, <1>0, Views
      <3>3. ShutdownPhase(g)' = ShutdownPhase(g)
        BY <3>1, <1>a DEF ShutdownPhase, StopInv
      <3>. QED BY <3>1, <3>2, <3>3
    <2>. QED BY <1>2, <2>1, <2>2, <2>3, <2>4, <2>5, <2>6 DEF MainStep
  <1>3. ASSUME NEW h \in Gens, GenStep(h)
        PROVE  ServerOf(g)!ContractNext \/ UNCHANGED Seen(g)
    <2>. USE <1>a DEF Goto
    <2>1. /\ UNCHANGED <<main, gen, stopping>>
          /\ g # h => phase'[g] = phase[g] /\ listener'[g] = listener[g]
          /\ phase[h] # "exited" /\ phase'[h] # "exited"
      BY <1>3 DEF GenStep, ReadTLS, ReadKeys, CheckShuttingDown, Listen, Serve,
                  LeaveAcceptLoop, CloseListener
    <2>2. ShutdownPhase(g)' = ShutdownPhase(g) BY <2>1 DEF ShutdownPhase
    <2>3. CASE g # h BY <2>1, <2>2, <2>3, <1>0, Views
    <2>4. CASE g = h
      <3>1. CASE ReadTLS(h) \/ ReadKeys(h)
        <4>1. phase[g] \in Unbound /\ phase'[g] \in Unbound
              /\ listener' = listener
          BY <2>4, <3>1 DEF ReadTLS, ReadKeys, Unbound
        <4>. QED BY <4>1, <2>2, <1>0, Views
      <3>2. CASE CheckShuttingDown(h)
        <4>1. /\ phase[g] = "call" /\ phase'[g] \in {"sending", "listen"}
              /\ listener' = listener /\ listener[g] = "none"
          BY <2>4, <3>2 DEF CheckShuttingDown, StopInv, Unbound
        <4>2. /\ ServingPhase(g) = "no"
              /\ ServingPhase(g)' \in {"no", "returned"}
          BY <4>1, <1>0, Views DEF Unbound
        <4>. QED BY <4>1, <4>2, <2>2
             DEF ServerOf!ContractNext, ServerOf!Return
      <3>3. CASE Listen(h)
        <4>1. /\ phase[g] = "listen" /\ listener[g] = "none"
              /\ \/ phase'[g] = "bound" /\ listener'[g] = "open"
                 \/ phase'[g] = "sending" /\ listener'[g] = "none"
          BY <2>4, <3>3 DEF Listen, StopInv, Unbound
        <4>2. /\ ServingPhase(g) = "no"
              /\ phase'[g] = "bound" => ServingPhase(g)' = "no"
              /\ phase'[g] = "sending" => ServingPhase(g)' = "returned"
          BY <4>1, <1>0, Views DEF Unbound
        <4>. QED BY <4>1, <4>2, <2>2
             DEF ServerOf!ContractNext, ServerOf!Return, ServerOf!Bind
      <3>4. CASE Serve(h)
        <4>1. /\ phase[g] = "bound" /\ listener[g] = "open"
              /\ listener' = listener
              /\ \/ ~stopping[g] /\ phase'[g] = "serving"
                 \/ phase'[g] = "closing"
          BY <2>4, <3>4 DEF Serve, StopInv
        <4>2. /\ ServingPhase(g) = "no"
              /\ phase'[g] = "serving" => ServingPhase(g)' = "yes"
              /\ phase'[g] = "closing" => ServingPhase(g)' = "stopping"
          BY <4>1, <1>0, Views DEF Unbound
        <4>3. ~stopping[g] => ShutdownPhase(g) = "no" BY DEF ShutdownPhase
        <4>. QED BY <4>1, <4>2, <4>3, <2>2
             DEF ServerOf!ContractNext, ServerOf!Serve, ServerOf!Stop
      <3>5. CASE LeaveAcceptLoop(h)
        <4>1. /\ phase[g] = "serving" /\ phase'[g] = "closing"
              /\ listener' = listener
          BY <2>4, <3>5 DEF LeaveAcceptLoop
        <4>2. ServingPhase(g) = "yes" /\ ServingPhase(g)' = "stopping"
          BY <4>1, <1>0, Views
        <4>. QED BY <4>1, <4>2, <2>2 DEF ServerOf!ContractNext, ServerOf!Stop
      <3>6. CASE CloseListener(h)
        <4>1. /\ phase[g] = "closing" /\ phase'[g] = "sending"
              /\ listener'[g] = "closed"
          BY <2>4, <3>6 DEF CloseListener
        <4>2. ServingPhase(g) = "stopping" /\ ServingPhase(g)' = "returned"
          BY <4>1, <1>0, Views
        <4>. QED BY <4>1, <4>2, <2>2 DEF ServerOf!ContractNext, ServerOf!Return
      <3>. QED BY <1>3, <3>1, <3>2, <3>3, <3>4, <3>5, <3>6 DEF GenStep
    <2>. QED BY <2>3, <2>4
  <1>. QED BY <1>1, <1>2, <1>3 DEF Next

(* Whatever generation follows whatever generation, the routine uses each  *)
(* server as ServerContract allows, and each behaves as it promises.       *)
THEOREM GenerationsKeepContract == Spec => GensKeepContract
  <1>1. Init => GensInit
    <2>. SUFFICES ASSUME Init, NEW g \in Gens PROVE ServerOf(g)!ContractInit
      BY DEF GensInit
    <2>1. /\ phase[g] = "absent" /\ listener[g] = "none" /\ ~stopping[g]
      BY DEF Init
    <2>2. ServingPhase(g) = "no" BY <2>1 DEF ServingPhase, Phases
    <2>3. ShutdownPhase(g) = "no" BY <2>1 DEF ShutdownPhase
    <2>. QED BY <2>1, <2>2, <2>3 DEF ServerOf!ContractInit
  <1>2. Init => StopInv BY DEF Init, StopInv, Unbound
  <1>3. IInv /\ StopInv /\ [Next]_vars => StopInv' BY StopInvPreserved
  <1>4. IInv /\ StopInv /\ [Next]_vars
          => GensNext
    BY StepsKeepContract DEF GensNext, Seen, ServerOf!contractVars
  <1>. QED BY <1>1, <1>2, <1>3, <1>4, Invariance, PTL
       DEF Spec, GensKeepContract

-----------------------------------------------------------------------------
(* Nobody is stuck.                                                        *)

(* The routine waits for a goroutine that was started and is not serving.  *)
AwaitInv ==
  /\ gen > 0 => phase[gen] # "absent"
  /\ main = "await" => phase[gen] # "serving"
  /\ main \in {"call", "closeListeners", "drain", "await"}
       => why \in {"term", "reload"}

LiveInv == IInv /\ StopInv /\ AwaitInv

LEMMA AwaitInvPreserved ==
  ASSUME LiveInv, [Next]_vars
  PROVE  AwaitInv'
  <1>. USE DEF AwaitInv, envVars, mainVars, genVars
  <1>a. /\ phase \in [Gens -> Phases] /\ stopping \in [Gens -> BOOLEAN]
        /\ gen \in Int /\ Gens \subseteq Int /\ main \in MainLabels
        /\ AwaitInv /\ StopInv
    BY DEF LiveInv, IInv, TypeOK, Gens
  <1>b. /\ main # "start" => gen \in Gens
        /\ main = "start" => gen + 1 \in Gens
        /\ gen > 0 => gen \in Gens
        /\ \A g \in Gens : g > gen => phase[g] = "absent"
    BY GenerationsBounded DEF LiveInv, IInv, GenInv
  <1>1. CASE \/ \E c \in Configs : Reload(c)
             \/ Notify \/ Cancel \/ Terminated \/ UNCHANGED vars
    BY <1>1, <1>a DEF Reload, Notify, Cancel, Terminated, vars
  <1>2. CASE MainStep
    <2>1. CASE ServStart BY <2>1, <1>a, <1>b DEF ServStart
    <2>2. CASE SelectDone BY <2>2, <1>a DEF SelectDone
    <2>3. CASE SelectReload BY <2>3, <1>a DEF SelectReload
    <2>4. CASE CallShutdown BY <2>4, <1>a, <1>b DEF CallShutdown
    <2>5. CASE StopListening BY <2>5, <1>a, <1>b DEF StopListening
    <2>6. CASE Drained \/ Expire
      BY <2>6, <1>a DEF Drained, Expire, ShutdownFailed
    <2>7. CASE AwaitDone BY <2>7, <1>a, <1>b DEF AwaitDone
    <2>. QED BY <1>2, <2>1, <2>2, <2>3, <2>4, <2>5, <2>6, <2>7 DEF MainStep
  <1>3. ASSUME NEW h \in Gens, GenStep(h) PROVE AwaitInv'
    <2>. USE <1>a, <1>b DEF Goto
    <2>1. CASE ReadTLS(h) BY <2>1 DEF ReadTLS
    <2>2. CASE ReadKeys(h) BY <2>2 DEF ReadKeys
    <2>3. CASE CheckShuttingDown(h) BY <2>3 DEF CheckShuttingDown
    <2>4. CASE Listen(h) BY <2>4 DEF Listen
    <2>5. CASE Serve(h) BY <2>5 DEF Serve, StopInv
    <2>6. CASE LeaveAcceptLoop(h) BY <2>6 DEF LeaveAcceptLoop
    <2>7. CASE CloseListener(h) BY <2>7 DEF CloseListener
    <2>. QED BY <1>3, <2>1, <2>2, <2>3, <2>4, <2>5, <2>6, <2>7 DEF GenStep
  <1>. QED BY <1>1, <1>2, <1>3 DEF Next

LEMMA LiveInvariance == Spec => []LiveInv
  <1>1. Init => StopInv /\ AwaitInv
    BY DEF Init, StopInv, AwaitInv, Unbound, Gens
  <1>2. LiveInv /\ IInv' /\ [Next]_vars => LiveInv'
    BY StopInvPreserved, AwaitInvPreserved DEF LiveInv
  <1>3. IInv /\ StopInv /\ AwaitInv => LiveInv BY DEF LiveInv
  <1>. QED BY <1>1, <1>2, <1>3, Invariance, PTL DEF Spec

(* The routine never waits for what cannot come.  The provers leave        *)
(* ENABLED A as it is, so that a guard suffices for its action is a        *)
(* hypothesis; that the guards hold when somebody waits is proved.         *)
LEMMA RoutineCanGoOn ==
  ASSUME LiveInv
  PROVE  CanGoOn
  <1>. USE DEF CanGoOn, CanMainStep, CanLoopStep, Ended
  <1>1. main \in MainLabels BY DEF LiveInv, IInv, TypeOK
  <1>2. CASE main = "await"
    <2>1. /\ gen \in Gens
          /\ phase[gen] \in Phases \ {"absent", "serving", "exited"}
          /\ stopping[gen]
      BY <1>2, GenerationsBounded
      DEF LiveInv, IInv, TypeOK, GenInv, StopInv, AwaitInv
    <2>. QED BY <1>2, <2>1 DEF Phases
  <1>. QED BY <1>1, <1>2 DEF MainLabels

(* Outside its select the routine, or the goroutine that it waits for at   *)
(* <-s.done, can take a step; where guards suffice nobody is stuck.        *)
THEOREM NobodyIsStuck ==
  Spec => []CanGoOn /\ ([]GuardsSuffice => []NobodyStuck)
  <1>1. LiveInv => CanGoOn BY RoutineCanGoOn
  <1>2. CanGoOn /\ GuardsSuffice => NobodyStuck BY DEF NobodyStuck
  <1>. QED BY <1>1, <1>2, LiveInvariance, PTL

-----------------------------------------------------------------------------
(* Liveness.  What a fair action needs to be enabled is what NobodyStuck   *)
(* says of its guard.                                                      *)

(* Where the routine is, why it shuts the server down, and how that ends:  *)
(* for a termination nothing follows.                                      *)
Serves   == main = "select"
Starts   == main = "start"
Why      == {"term", "reload"}
At(w, l) == main = l /\ why = w
Over(w)  == IF w = "term" THEN Ended ELSE Ended \/ Starts

(* It waits for the goroutine of generation g, which is at p.              *)
AwaitsGen(w, g) == main = "await" /\ why = w /\ gen = g
Awaits(w, g, p) == AwaitsGen(w, g) /\ phase[g] = p

LEMMA MainAdvances ==
  ASSUME LiveInv, [Next]_vars, NEW w \in Why
  PROVE  /\ Starts => Starts' \/ Serves'
         /\ At(w, "call") => At(w, "call")' \/ At(w, "closeListeners")'
         /\ At(w, "closeListeners")
              => At(w, "closeListeners")' \/ At(w, "drain")'
         /\ At(w, "drain") => At(w, "drain")' \/ At(w, "await")' \/ Over(w)'
         /\ Ended => Ended'
         /\ cancelled => cancelled'
  <1>. USE DEF Starts, Serves, At, Over, Ended
  <1>1. CASE UNCHANGED mainVars /\ (cancelled => cancelled')
    BY <1>1 DEF mainVars
  <1>2. CASE MainStep
    BY <1>2 DEF MainStep, ServStart, SelectDone, SelectReload, CallShutdown,
         StopListening, Drained, Expire, AwaitDone, ShutdownFailed, envVars
  <1>3. CASE UNCHANGED vars \/ Terminated
    BY <1>3, <1>1 DEF vars, Terminated, envVars
  <1>4. CASE (\E c \in Configs : Reload(c)) \/ Notify \/ Cancel
    BY <1>4, <1>1 DEF Reload, Notify, Cancel
  <1>5. CASE \E g \in Gens : GenStep(g)
    BY <1>5, <1>1 DEF GenStep, ReadTLS, ReadKeys, CheckShuttingDown, Listen,
         Serve, LeaveAcceptLoop, CloseListener, envVars
  <1>. QED BY <1>1, <1>2, <1>3, <1>4, <1>5 DEF Next

LEMMA MainSteps ==
  ASSUME LiveInv, MainStep, NEW w \in Why
  PROVE  /\ Starts => Serves'
         /\ At(w, "call") => At(w, "closeListeners")'
         /\ At(w, "closeListeners") => At(w, "drain")'
         /\ At(w, "drain") => At(w, "await")' \/ Over(w)'
  BY DEF Starts, Serves, At, Over, Ended, MainStep, ServStart, SelectDone,
         SelectReload, CallShutdown, StopListening, Drained, Expire,
         AwaitDone, ShutdownFailed

LEMMA MainEnabled ==
  ASSUME NobodyStuck, NEW w \in Why
  PROVE  /\ \/ Starts \/ At(w, "call") \/ At(w, "closeListeners")
            \/ At(w, "drain")
           => ENABLED <<MainStep>>_vars
         /\ Serves /\ cancelled => ENABLED <<SelectDone>>_vars
  BY DEF NobodyStuck, GuardsSuffice, CanMainStep, CanSelectDone, Starts,
         Serves, At

(* While the routine waits, the goroutine of its server runs to its end.   *)
Moves(p, q) ==
  \/ p = "spawned" /\ q \in {"branch", "call"}
  \/ p = "branch" /\ q = "call"
  \/ p = "call" /\ q \in {"listen", "sending"}
  \/ p = "listen" /\ q \in {"bound", "sending"}
  \/ p = "bound" /\ q = "closing"
  \/ p = "closing" /\ q = "sending"

LEMMA GoroutineMoves ==
  ASSUME LiveInv, main = "await", GenStep(gen)
  PROVE  Moves(phase[gen], phase'[gen]) /\ UNCHANGED mainVars
  <1>. USE DEF Moves, Goto
  <1>a. phase \in [Gens -> Phases] /\ gen \in Gens
    BY GenerationsBounded DEF LiveInv, IInv, GenInv, TypeOK
  <1>b. stopping[gen] /\ phase[gen] # "serving"
    BY DEF LiveInv, StopInv, AwaitInv
  <1>1. CASE ReadTLS(gen) BY <1>1, <1>a DEF ReadTLS
  <1>2. CASE ReadKeys(gen) BY <1>2, <1>a DEF ReadKeys
  <1>3. CASE CheckShuttingDown(gen) BY <1>3, <1>a DEF CheckShuttingDown
  <1>4. CASE Listen(gen) BY <1>4, <1>a DEF Listen
  <1>5. CASE Serve(gen) BY <1>5, <1>a, <1>b DEF Serve
  <1>6. CASE LeaveAcceptLoop(gen) BY <1>6, <1>b DEF LeaveAcceptLoop
  <1>7. CASE CloseListener(gen) BY <1>7, <1>a DEF CloseListener
  <1>. QED BY <1>1, <1>2, <1>3, <1>4, <1>5, <1>6, <1>7 DEF GenStep

LEMMA AwaitMoves ==
  ASSUME LiveInv, main = "await", [Next]_vars
  PROVE  \/ UNCHANGED mainVars /\ phase'[gen] = phase[gen]
         \/ Moves(phase[gen], phase'[gen]) /\ UNCHANGED mainVars
         \/ /\ phase[gen] = "sending"
            /\ main' = IF why = "term" THEN "returned" ELSE "start"
  <1>a. phase \in [Gens -> Phases] /\ gen \in Gens
    BY GenerationsBounded DEF LiveInv, IInv, GenInv, TypeOK
  <1>1. CASE MainStep
    BY <1>1 DEF MainStep, ServStart, SelectDone, SelectReload, CallShutdown,
         StopListening, Drained, Expire, AwaitDone
  <1>2. CASE UNCHANGED vars \/ Terminated BY <1>2 DEF vars, Terminated, genVars
  <1>3. CASE (\E c \in Configs : Reload(c)) \/ Notify \/ Cancel
    BY <1>3 DEF Reload, Notify, Cancel, genVars
  <1>5. CASE GenStep(gen) BY <1>5, GoroutineMoves
  <1>4. ASSUME NEW g \in Gens, GenStep(g), g # gen
        PROVE  UNCHANGED mainVars /\ phase'[gen] = phase[gen]
    <2>. USE <1>a, <1>4 DEF Goto
    <2>1. CASE ReadTLS(g) BY <2>1 DEF ReadTLS
    <2>2. CASE ReadKeys(g) BY <2>2 DEF ReadKeys
    <2>3. CASE CheckShuttingDown(g) BY <2>3 DEF CheckShuttingDown
    <2>4. CASE Listen(g) BY <2>4 DEF Listen
    <2>5. CASE Serve(g) BY <2>5 DEF Serve
    <2>6. CASE LeaveAcceptLoop(g) BY <2>6 DEF LeaveAcceptLoop
    <2>7. CASE CloseListener(g) BY <2>7 DEF CloseListener
    <2>. QED BY <2>1, <2>2, <2>3, <2>4, <2>5, <2>6, <2>7 DEF GenStep
  <1>. QED BY <1>1, <1>2, <1>3, <1>4, <1>5 DEF Next

Active == {"spawned", "branch", "call", "listen", "bound", "closing",
           "sending"}
Then(w, g, p) ==
  IF p = "sending" THEN Over(w)
  ELSE \E q \in Active : Moves(p, q) /\ Awaits(w, g, q)

(* Temporal formulas that the lemmas instantiate by their names.           *)
System           == []LiveInv /\ [][Next]_vars /\ []NobodyStuck
MainRuns         == WF_vars(MainStep)
Runs(g)          == System /\ GenFairness(g) /\ MainRuns
LeadsOn(w, g, p) == Awaits(w, g, p) ~> Then(w, g, p)
Ends(w, g)       == AwaitsGen(w, g) ~> Over(w)
AllRun           == System /\ MainRuns /\ \A g \in Gens : GenFairness(g)
AwaitEnds(w)     == At(w, "await") ~> Over(w)

LEMMA GoroutineAdvances ==
  ASSUME NEW w \in Why, NEW g \in Gens, NEW p \in Active
  PROVE  Runs(g) => LeadsOn(w, g, p)
  <1>. USE DEF Awaits, AwaitsGen, Then, Over, Starts, Ended, mainVars
  <1>1. LiveInv /\ [Next]_vars /\ Awaits(w, g, p)
          => Awaits(w, g, p)' \/ Then(w, g, p)'
    BY AwaitMoves DEF Moves, Active
  <1>2. CASE p = "sending"
    <2>1. MainStep /\ Awaits(w, g, p) => Then(w, g, p)'
      BY <1>2 DEF MainStep, ServStart, SelectDone, SelectReload, CallShutdown,
           StopListening, Drained, Expire, AwaitDone
    <2>2. NobodyStuck /\ Awaits(w, g, p) => ENABLED <<MainStep>>_vars
      BY <1>2 DEF NobodyStuck, GuardsSuffice, CanMainStep
    <2>. HIDE DEF Awaits, Then
    <2>. QED
      BY <1>1, <2>1, <2>2, PTL
      DEF System, Runs, MainRuns, GenFairness, LeadsOn
  <1>3. CASE p # "sending"
    <2>1. LiveInv /\ LoopStep(g) /\ Awaits(w, g, p) => Then(w, g, p)'
      BY <1>3, GoroutineMoves DEF LoopStep, Moves, Active
    <2>2. NobodyStuck /\ Awaits(w, g, p) => ENABLED <<LoopStep(g)>>_vars
      BY <1>3 DEF NobodyStuck, GuardsSuffice, CanGoOn, CanMainStep, Ended,
                  Active
    <2>. HIDE DEF Awaits, Then
    <2>. QED
      BY <1>1, <2>1, <2>2, PTL
      DEF System, Runs, MainRuns, GenFairness, LeadsOn
  <1>. HIDE DEF Awaits, Then
  <1>. QED BY <1>2, <1>3

LEMMA GoroutineEnds ==
  ASSUME NEW w \in Why, NEW g \in Gens
  PROVE  Runs(g) => Ends(w, g)
  <1>1. Runs(g) => LeadsOn(w, g, "sending")
    BY GoroutineAdvances DEF Active
  <1>2. Runs(g) => LeadsOn(w, g, "closing")
    BY GoroutineAdvances DEF Active
  <1>3. Runs(g) => LeadsOn(w, g, "bound")
    BY GoroutineAdvances DEF Active
  <1>4. Runs(g) => LeadsOn(w, g, "listen")
    BY GoroutineAdvances DEF Active
  <1>5. Runs(g) => LeadsOn(w, g, "call")
    BY GoroutineAdvances DEF Active
  <1>6. Runs(g) => LeadsOn(w, g, "branch")
    BY GoroutineAdvances DEF Active
  <1>7. Runs(g) => LeadsOn(w, g, "spawned")
    BY GoroutineAdvances DEF Active
  <1>8. /\ Then(w, g, "sending") => Over(w)
        /\ Then(w, g, "closing") => Awaits(w, g, "sending")
        /\ Then(w, g, "bound") => Awaits(w, g, "closing")
        /\ Then(w, g, "listen")
             => Awaits(w, g, "bound") \/ Awaits(w, g, "sending")
        /\ Then(w, g, "call")
             => Awaits(w, g, "listen") \/ Awaits(w, g, "sending")
        /\ Then(w, g, "branch") => Awaits(w, g, "call")
        /\ Then(w, g, "spawned")
             => Awaits(w, g, "branch") \/ Awaits(w, g, "call")
    BY DEF Then, Moves
  <1>9. LiveInv /\ AwaitsGen(w, g)
          => \/ Awaits(w, g, "spawned") \/ Awaits(w, g, "branch")
             \/ Awaits(w, g, "call") \/ Awaits(w, g, "listen")
             \/ Awaits(w, g, "bound") \/ Awaits(w, g, "closing")
             \/ Awaits(w, g, "sending")
    <2>1. LiveInv /\ AwaitsGen(w, g)
           => phase[g] \in Phases \ {"absent", "serving", "exited"}
      BY DEF LiveInv, IInv, TypeOK, GenInv, StopInv, AwaitInv, AwaitsGen, Gens
    <2>. QED BY <2>1 DEF Awaits, Phases
  <1>. QED
    BY <1>1, <1>2, <1>3, <1>4, <1>5, <1>6, <1>7, <1>8, <1>9, PTL
    DEF System, Runs, LeadsOn, Ends

(* Whichever generation it is.                                             *)
LEMMA AwaitsEnd ==
  ASSUME NEW w \in Why
  PROVE  AllRun => AwaitEnds(w)
  <1>1. AllRun => \A g \in Gens : Ends(w, g)
    <2>. SUFFICES ASSUME AllRun, NEW g \in Gens PROVE Ends(w, g)
      OBVIOUS
    <2>1. Runs(g) BY DEF AllRun, Runs
    <2>. QED BY <2>1, GoroutineEnds
  <1>2. (\A g \in Gens : Ends(w, g))
          => \A g \in Gens : [](AwaitsGen(w, g) => <>Over(w))
    BY PTL DEF Ends
  <1>3. (\A g \in Gens : [](AwaitsGen(w, g) => <>Over(w)))
          => [](\A g \in Gens : AwaitsGen(w, g) => <>Over(w))
    OBVIOUS
  <1>4. LiveInv /\ At(w, "await") => \E g \in Gens : AwaitsGen(w, g)
    BY GenerationsBounded DEF LiveInv, IInv, GenInv, At, AwaitsGen
  <1>5. /\ \A g \in Gens : AwaitsGen(w, g) => <>Over(w)
        /\ \E g \in Gens : AwaitsGen(w, g)
        => <>Over(w)
    OBVIOUS
  <1>. QED BY <1>1, <1>2, <1>3, <1>4, <1>5, PTL DEF AllRun, System, AwaitEnds

(* The routine always comes back to its select, or ends; when it shuts the *)
(* server down for good it ends.                                           *)
Stopping(w) == \/ At(w, "call") \/ At(w, "closeListeners")
               \/ At(w, "drain") \/ At(w, "await")
ComesBack(w) == Stopping(w) ~> Over(w)

LEMMA ShutdownEnds ==
  ASSUME NEW w \in Why
  PROVE  AllRun => ComesBack(w)
  <1>1. LiveInv /\ [Next]_vars
          => /\ At(w, "call") => At(w, "call")' \/ At(w, "closeListeners")'
             /\ At(w, "closeListeners")
                  => At(w, "closeListeners")' \/ At(w, "drain")'
             /\ At(w, "drain")
                  => At(w, "drain")' \/ At(w, "await")' \/ Over(w)'
    BY MainAdvances
  <1>2. LiveInv /\ MainStep
          => /\ At(w, "call") => At(w, "closeListeners")'
             /\ At(w, "closeListeners") => At(w, "drain")'
             /\ At(w, "drain") => At(w, "await")' \/ Over(w)'
    BY MainSteps
  <1>3. NobodyStuck
          => /\ At(w, "call") => ENABLED <<MainStep>>_vars
             /\ At(w, "closeListeners") => ENABLED <<MainStep>>_vars
             /\ At(w, "drain") => ENABLED <<MainStep>>_vars
    BY MainEnabled
  <1>4. AllRun => (At(w, "call") ~> At(w, "closeListeners"))
    BY <1>1, <1>2, <1>3, PTL DEF AllRun, MainRuns, System
  <1>5. AllRun => (At(w, "closeListeners") ~> At(w, "drain"))
    BY <1>1, <1>2, <1>3, PTL DEF AllRun, MainRuns, System
  <1>6. AllRun => (At(w, "drain") ~> At(w, "await") \/ Over(w))
    BY <1>1, <1>2, <1>3, PTL DEF AllRun, MainRuns, System
  <1>7. AllRun => (At(w, "await") ~> Over(w))
    BY AwaitsEnd DEF AwaitEnds
  <1>. QED BY <1>4, <1>5, <1>6, <1>7, PTL DEF Stopping, ComesBack

(* Whatever the routine does, it comes to its select again, or ends.       *)
Rests       == Serves \/ Ended
ComesToRest == []<>Rests

LEMMA RestReached == AllRun => ComesToRest
  <1>. "term" \in Why /\ "reload" \in Why BY DEF Why
  <1>1. LiveInv /\ [Next]_vars => (Starts => Starts' \/ Serves')
    BY MainAdvances
  <1>2. LiveInv /\ MainStep => (Starts => Serves') BY MainSteps
  <1>3. NobodyStuck => (Starts => ENABLED <<MainStep>>_vars) BY MainEnabled
  <1>4. AllRun => (Starts ~> Serves)
    BY <1>1, <1>2, <1>3, PTL DEF AllRun, MainRuns, System
  <1>5. AllRun => ComesBack("term") /\ ComesBack("reload") BY ShutdownEnds
  <1>6. (Over("term") => Ended) /\ (Over("reload") => Ended \/ Starts)
    BY DEF Over
  <1>7. LiveInv => \/ Starts \/ Serves \/ Ended
                   \/ Stopping("term") \/ Stopping("reload")
    BY DEF LiveInv, IInv, TypeOK, MainLabels, AwaitInv, Starts, Serves, Ended,
           Stopping, At
  <1>. QED
    BY <1>4, <1>5, <1>6, <1>7, PTL
    DEF AllRun, System, Rests, ComesBack, ComesToRest

LEMMA FairRuns == FairSpec /\ []GuardsSuffice => AllRun
  <1>1. FairSpec => \A g \in Gens : GenFairness(g)
    BY PTL DEF FairSpec, Fairness
  <1>2. FairSpec => []LiveInv /\ [][Next]_vars /\ MainRuns
    BY LiveInvariance, PTL DEF FairSpec, Fairness, Spec, MainRuns
  <1>3. FairSpec /\ []GuardsSuffice => []NobodyStuck
    BY NobodyIsStuck, PTL DEF FairSpec
  <1>. QED BY <1>1, <1>2, <1>3, PTL DEF AllRun, System

(* SIGTERM ends the routine, for any number of reloads: it comes to its    *)
(* select, takes the cancelled context in the end, however many reloads    *)
(* it takes first, and a shutdown for termination is the last one.         *)
THEOREM TerminationIsCertain == FairSpec /\ []GuardsSuffice => TerminationEnds
  <1>. "term" \in Why BY DEF Why
  <1>1. LiveInv /\ [Next]_vars => /\ Ended => Ended'
                                  /\ cancelled => cancelled'
    BY MainAdvances
  <1>2. SelectDone => Stopping("term")' BY DEF SelectDone, Stopping, At
  <1>3. NobodyStuck => (Serves /\ cancelled => ENABLED <<SelectDone>>_vars)
    BY MainEnabled
  <1>4. AllRun => ComesBack("term") BY ShutdownEnds
  <1>5. Over("term") => Ended BY DEF Over
  <1>. QED
    BY <1>1, <1>2, <1>3, <1>4, <1>5, RestReached, FairRuns, PTL
    DEF FairSpec, Fairness, AllRun, System, Rests, ComesBack, ComesToRest,
        TerminationEnds

(* A notification is taken up, unless the routine ends: it stays pending   *)
(* until SelectReload takes it, and the routine comes to its select until  *)
(* it does.                                                                *)
Asked   == pending > 0
TakenUp == Asked ~> Stopping("reload") \/ Ended

LEMMA AskedUntilTaken ==
  ASSUME LiveInv, [Next]_vars
  PROVE  Asked => Asked' \/ Stopping("reload")'
  <1>. USE DEF Asked, Stopping, At
  <1>a. pending \in Nat BY DEF LiveInv, IInv, TypeOK
  <1>1. CASE MainStep
    BY <1>1, <1>a
    DEF MainStep, ServStart, SelectDone, SelectReload, CallShutdown,
        StopListening, Drained, Expire, AwaitDone, envVars
  <1>2. CASE (\E c \in Configs : Reload(c)) \/ Notify \/ Cancel
    BY <1>2, <1>a DEF Reload, Notify, Cancel
  <1>3. CASE (\E g \in Gens : GenStep(g)) \/ Terminated \/ UNCHANGED vars
    BY <1>3
    DEF GenStep, ReadTLS, ReadKeys, CheckShuttingDown, Listen, Serve,
        LeaveAcceptLoop, CloseListener, Terminated, vars, envVars
  <1>. QED BY <1>1, <1>2, <1>3 DEF Next

(* In a fair run a pending notification is taken up, or the routine ends.  *)
THEOREM ReloadsAreTakenUp == FairSpec /\ []GuardsSuffice => TakenUp
  <1>1. LiveInv /\ [Next]_vars => (Ended => Ended')
    <2>. "term" \in Why BY DEF Why
    <2>. QED BY MainAdvances
  <1>2. SelectReload => Stopping("reload")'
    BY DEF SelectReload, Stopping, At
  <1>3. NobodyStuck => (Serves /\ Asked => ENABLED <<SelectReload>>_vars)
    BY DEF NobodyStuck, GuardsSuffice, CanSelectReload, Serves, Asked
  <1>. QED
    BY <1>1, <1>2, <1>3, AskedUntilTaken, RestReached, FairRuns, PTL
    DEF FairSpec, Fairness, AllRun, System, Rests, ComesToRest, TakenUp

(* Every reload is taken up, by induction on the reloads that are left:    *)
(* those still to come, the one being notified, and the pending ones.  No  *)
(* step adds to them, and a reload that is taken up is one less.           *)
Left == (MaxReloads - reloads) + (IF reloading THEN 1 ELSE 0) + pending

AskedWithin(n)  == Asked /\ Left <= n
Answered        == pending = 0 \/ Ended
ServedWithin(n) == AskedWithin(n) ~> Answered

LEMMA LeftOnlyFalls ==
  ASSUME LiveInv, NEW n \in Nat
  PROVE  /\ [Next]_vars /\ AskedWithin(n) => AskedWithin(n)' \/ Answered'
         /\ SelectReload /\ AskedWithin(n + 1)
              => AskedWithin(n)' \/ Answered'
  <1>. USE DEF AskedWithin, Asked, Left, Answered
  <1>a. /\ pending \in Nat /\ reloads \in Nat /\ MaxReloads \in Nat
        /\ reloading \in BOOLEAN
    BY ReloadsAssumption DEF LiveInv, IInv, TypeOK
  <1>1. SelectReload /\ AskedWithin(n + 1) => AskedWithin(n)' \/ Answered'
    BY <1>a DEF SelectReload
  <1>2. ASSUME [Next]_vars, AskedWithin(n)
        PROVE  AskedWithin(n)' \/ Answered'
    <2>1. CASE MainStep
      BY <1>2, <2>1, <1>a
      DEF MainStep, ServStart, SelectDone, SelectReload, CallShutdown,
          StopListening, Drained, Expire, AwaitDone, envVars
    <2>2. CASE (\E c \in Configs : Reload(c)) \/ Notify \/ Cancel
      BY <1>2, <2>2, <1>a DEF Reload, Notify, Cancel
    <2>3. CASE (\E g \in Gens : GenStep(g)) \/ Terminated \/ UNCHANGED vars
      BY <1>2, <2>3
      DEF GenStep, ReadTLS, ReadKeys, CheckShuttingDown, Listen, Serve,
          LeaveAcceptLoop, CloseListener, Terminated, vars, envVars
    <2>. QED BY <1>2, <2>1, <2>2, <2>3 DEF Next
  <1>. QED BY <1>1, <1>2

ReloadRuns == AllRun /\ SF_vars(SelectReload)

LEMMA NoneLeftNoneAsked == ReloadRuns => ServedWithin(0)
  <1>1. LiveInv => ~AskedWithin(0)
    BY ReloadsAssumption DEF LiveInv, IInv, TypeOK, AskedWithin, Asked, Left
  <1>. QED BY <1>1, PTL DEF ReloadRuns, AllRun, System, ServedWithin

LEMMA OneReloadLess ==
  ASSUME NEW n \in Nat
  PROVE  ReloadRuns => (ServedWithin(n) => ServedWithin(n + 1))
  <1>1. LiveInv /\ [Next]_vars
          => (AskedWithin(n + 1) => AskedWithin(n + 1)' \/ Answered')
    BY LeftOnlyFalls
  <1>2. LiveInv /\ SelectReload
          => (AskedWithin(n + 1) => AskedWithin(n)' \/ Answered')
    BY LeftOnlyFalls
  <1>3. NobodyStuck
          => (Serves /\ AskedWithin(n + 1) => ENABLED <<SelectReload>>_vars)
    BY DEF NobodyStuck, GuardsSuffice, CanSelectReload, Serves, AskedWithin,
           Asked
  <1>4. Ended => Answered BY DEF Answered
  <1>. QED
    BY <1>1, <1>2, <1>3, <1>4, RestReached, PTL
    DEF ReloadRuns, AllRun, System, Rests, ComesToRest, ServedWithin

(* In a fair run every reload is served, for any number of them, given     *)
(* that guards suffice for their actions, and by an instance of the        *)
(* principle of induction, which is valid whatever the system does.        *)
THEOREM ReloadsAreServed ==
  FairSpec /\ []GuardsSuffice /\ InductionFor(ServedWithin) => ReloadsServed
  <1>1. FairSpec /\ []GuardsSuffice => ReloadRuns
    BY FairRuns, PTL DEF FairSpec, Fairness, ReloadRuns
  <1>2. ReloadRuns => \A n \in Nat : ServedWithin(n) => ServedWithin(n + 1)
    BY OneReloadLess
  <1>3. ReloadRuns /\ InductionFor(ServedWithin)
          => \A n \in Nat : ServedWithin(n)
    BY <1>2, NoneLeftNoneAsked DEF InductionFor
  <1>4. (\A n \in Nat : ServedWithin(n))
          => \A n \in Nat : [](AskedWithin(n) => <>Answered)
    BY PTL DEF ServedWithin
  <1>5. (\A n \in Nat : [](AskedWithin(n) => <>Answered))
          => [](\A n \in Nat : AskedWithin(n) => <>Answered)
    OBVIOUS
  <1>6. LiveInv /\ pending > 0 => \E n \in Nat : AskedWithin(n)
    <2>1. LiveInv => Left \in Nat
      BY ReloadsAssumption DEF LiveInv, IInv, TypeOK, Left
    <2>. QED BY <2>1 DEF AskedWithin, Asked
  <1>7. /\ \A n \in Nat : AskedWithin(n) => <>Answered
        /\ \E n \in Nat : AskedWithin(n)
        => <>Answered
    OBVIOUS
  <1>8. Answered <=> pending = 0 \/ Ended BY DEF Answered
  <1>. QED
    BY <1>1, <1>3, <1>4, <1>5, <1>6, <1>7, <1>8, PTL
    DEF ReloadRuns, AllRun, System, ReloadsServed
=============================================================================
