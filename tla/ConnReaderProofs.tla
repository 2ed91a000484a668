--------------------------- MODULE ConnReaderProofs ---------------------------
(***************************************************************************)
(* Proofs about ConnReader, for slices of any lengths, any limit and any   *)
(* number of bytes.  Each part of IInv is kept by a lemma of its own; the  *)
(* safety properties are parts of it, or follow from it.                   *)
(***************************************************************************)
EXTENDS ConnReader, TLAPS

-----------------------------------------------------------------------------
(* The inductive invariant behind the safety properties.                   *)

(* Who is reading, and what abortPendingRead has set.                      *)
ReadInv ==
  /\ inRead <=> (pc \in {"sysRead", "relock"} \/ bg # "none")
  /\ pc \in {"sysRead", "relock"} => bg = "none"
  /\ inRead => ~hasByte
  /\ bg # "none" => watching \/ pc \in {"wait", "woken"}
  /\ watching => pc = "idle"
  /\ (deadline = "past") <=> (pc \in {"wait", "woken"})
  /\ bg # "none" => deadline \in {"none", "past"}
  /\ aborted <=> (pc \in {"wait", "woken"} /\ bg # "none")
  /\ pc = "wait" => bg # "none" \/ broadcasts > 0
  /\ pc = "sysRead" => asked <= remain
  /\ pc = "relock" => n <= remain
  /\ bg # "none" => broadcasts <= MaxPending

(* Where the bytes taken from the socket are, when the callers of Read do  *)
(* not have them yet.                                                      *)
InByteBuf        == IF hasByte THEN 1 ELSE 0
ReadByCaller     == IF pc = "relock" THEN n ELSE 0
ReadInBackground == IF bg = "relock" /\ found = "byte" THEN 1 ELSE 0

ByteInv ==
  /\ lastByte = got
  /\ taken = got + InByteBuf + ReadByCaller + ReadInBackground
  /\ hasByte => byteBuf = taken
  /\ pc = "relock" /\ n > 0 => upto = taken
  /\ bg = "relock" /\ found = "byte" => bgByte = taken
  /\ taken <= arrived

ErrorInv ==
  /\ cancelled /\ pc # "closed" => ~up
  /\ bg = "relock" /\ found = "error" => ~up
  /\ bg = "relock" /\ found = "timeout" => aborted

IInv == TypeOK /\ ReadInv /\ ByteInv /\ ErrorInv /\ pc # "panic"

-----------------------------------------------------------------------------
LEMMA InitEstablishesIInv ==
  ASSUME Init
  PROVE  IInv
  <1>1. TypeOK
    <2>1. /\ inRead \in BOOLEAN /\ hasByte \in BOOLEAN /\ aborted \in BOOLEAN
          /\ cancelled \in BOOLEAN /\ up \in BOOLEAN /\ watching \in BOOLEAN
      BY Zenon DEF Init
    <2>2. /\ deadline = "none" /\ pc = "idle" /\ bg = "none" /\ found = "byte"
          /\ 0 = remain /\ 0 = byteBuf /\ 0 = arrived /\ 0 = taken /\ 0 = asked
          /\ 0 = n /\ 0 = upto /\ 0 = got /\ 0 = lastByte /\ 0 = bgByte
          /\ 0 = broadcasts
      BY DEF Init
    <2>. QED BY <2>1, <2>2, BoundsAssumption DEF TypeOK
  <1>2. ReadInv BY BoundsAssumption DEF Init, ReadInv
  <1>3. ByteInv
    BY DEF Init, ByteInv, InByteBuf, ReadByCaller, ReadInBackground
  <1>4. ErrorInv BY DEF Init, ErrorInv
  <1>. QED BY <1>1, <1>2, <1>3, <1>4 DEF IInv, Init

-----------------------------------------------------------------------------
(* Read and startBackgroundRead never find a read under way.               *)

LEMMA NobodyReadsWhenCalled ==
  ASSUME IInv, pc = "idle", ~watching
  PROVE  ~inRead /\ bg = "none"
  BY DEF IInv, ReadInv

LEMMA TypeOKPreserved ==
  ASSUME IInv, [Next]_vars
  PROVE  TypeOK'
  <1>. USE BoundsAssumption DEF TypeOK
  <1>a. TypeOK /\ ReadInv /\ ByteInv BY DEF IInv
  <1>1. CASE Arrive BY <1>a, <1>1 DEF Arrive, crVars, callVars, bgVars
  <1>2. CASE Break
    <2>1. up' \in BOOLEAN BY <1>2, Zenon DEF Break
    <2>2. UNCHANGED <<crVars, deadline, arrived, taken, callVars, bgVars>>
      BY <1>2 DEF Break
    <2>. QED BY <1>a, <2>1, <2>2 DEF crVars, callVars, bgVars
  <1>3. CASE DeadlinePasses
    BY <1>a, <1>3 DEF DeadlinePasses, crVars, callVars, bgVars
  <1>4. CASE SetReadLimit BY <1>a, <1>4 DEF SetReadLimit, callVars, bgVars
  <1>5. ASSUME NEW len \in Lengths, Read(len) PROVE TypeOK'
    <2>1. len \in Nat /\ Min(len, remain) \in Nat
      BY <1>a, LengthsAssumption DEF Min
    <2>2. inRead' \in BOOLEAN /\ hasByte' \in BOOLEAN
      BY <1>a, <1>5, Zenon DEF Read
    <2>3. /\ pc' \in {"idle", "sysRead", "panic"} /\ asked' \in Nat
          /\ got' \in Nat /\ lastByte' \in Nat
      BY <1>a, <1>5, <2>1 DEF Read
    <2>4. UNCHANGED <<aborted, remain, byteBuf, cancelled, socketVars, n, upto,
                      watching, bgVars>>
      BY <1>5 DEF Read
    <2>. QED BY <1>a, <2>2, <2>3, <2>4 DEF socketVars, bgVars
  <1>6. CASE ReadReturns
    <2>1. UNCHANGED <<crVars, deadline, up, arrived, asked, got, lastByte,
                      watching, bgVars>> /\ pc' = "relock"
      BY <1>6 DEF ReadReturns
    <2>2. taken' \in 0..MaxBytes /\ n' \in Nat /\ upto' \in Nat
      BY <1>a, <1>6 DEF ReadReturns
    <2>. QED BY <1>a, <2>1, <2>2 DEF crVars, bgVars
  <1>7. CASE ReadEnds
    <2>1. remain - n \in Nat BY <1>a, <1>7 DEF ReadEnds, ReadInv
    <2>2. inRead' \in BOOLEAN /\ cancelled' \in BOOLEAN
      BY <1>a, <1>7, Zenon DEF ReadEnds
    <2>3. /\ remain' \in Nat /\ pc' \in {"idle", "closed"}
          /\ got' \in Nat /\ lastByte' \in Nat
      BY <1>a, <1>7, <2>1 DEF ReadEnds
    <2>4. UNCHANGED <<hasByte, aborted, byteBuf, socketVars, asked, n, upto,
                      watching, bgVars>>
      BY <1>7 DEF ReadEnds
    <2>. QED BY <1>a, <2>2, <2>3, <2>4 DEF socketVars, bgVars
  <1>8. CASE StartBackgroundRead BY <1>a, <1>8 DEF StartBackgroundRead
  <1>9. CASE AbortPendingRead BY <1>a, <1>9 DEF AbortPendingRead, bgVars
  <1>10. CASE Wake BY <1>a, <1>10 DEF Wake, crVars, bgVars
  <1>11. CASE BackgroundReadReturns
    BY <1>a, <1>11 DEF BackgroundReadReturns, crVars, callVars
  <1>12. CASE BackgroundReadEnds
    <2>1. /\ hasByte' \in BOOLEAN /\ cancelled' \in BOOLEAN
          /\ aborted' \in BOOLEAN /\ inRead' \in BOOLEAN
      BY <1>a, <1>12, Zenon DEF BackgroundReadEnds
    <2>2. /\ bg' = "none" /\ byteBuf' \in Nat
          /\ broadcasts' \in 0..(MaxPending + 1)
      BY <1>a, <1>12 DEF BackgroundReadEnds, ReadInv
    <2>3. UNCHANGED <<remain, socketVars, callVars, found, bgByte>>
      BY <1>12 DEF BackgroundReadEnds
    <2>. QED BY <1>a, <2>1, <2>2, <2>3 DEF socketVars, callVars
  <1>13. CASE Broadcast BY <1>a, <1>13 DEF Broadcast, crVars, socketVars
  <1>14. CASE UNCHANGED vars
    BY <1>a, <1>14 DEF vars, crVars, socketVars, callVars, bgVars
  <1>. QED BY <1>1, <1>2, <1>3, <1>4, <1>5, <1>6, <1>7, <1>8, <1>9, <1>10,
              <1>11, <1>12, <1>13, <1>14 DEF Next, Terminated

(* Who reads changes hands without an overlap, and no wake-up is lost: a   *)
(* goroutine that waits has a background read or a Broadcast before it.    *)
LEMMA ReadInvPreserved ==
  ASSUME IInv, [Next]_vars
  PROVE  ReadInv' /\ pc' # "panic"
  <1>. USE DEF ReadInv
  <1>a. TypeOK /\ ReadInv /\ pc # "panic" BY DEF IInv
  <1>1. CASE Arrive BY <1>a, <1>1 DEF Arrive, crVars, callVars, bgVars
  <1>2. CASE Break BY <1>a, <1>2 DEF Break, crVars, callVars, bgVars
  <1>3. CASE DeadlinePasses
    BY <1>a, <1>3 DEF DeadlinePasses, crVars, callVars, bgVars
  <1>4. CASE SetReadLimit
    BY <1>a, <1>4 DEF SetReadLimit, callVars, bgVars
  <1>5. ASSUME NEW len \in Lengths, Read(len) PROVE ReadInv' /\ pc' # "panic"
    <2>1. Min(len, remain) <= remain
      BY <1>a, LengthsAssumption DEF Min, TypeOK
    <2>2. ~inRead /\ bg = "none" BY <1>5, NobodyReadsWhenCalled DEF Read
    <2>. QED BY <1>a, <1>5, <2>1, <2>2 DEF Read, socketVars, bgVars
  <1>6. CASE ReadReturns
    <2>1. n' <= remain
      BY <1>a, <1>6 DEF ReadReturns, TypeOK
    <2>. QED BY <1>a, <1>6, <2>1 DEF ReadReturns, crVars, bgVars
  <1>7. CASE ReadEnds BY <1>a, <1>7 DEF ReadEnds, socketVars, bgVars
  <1>8. CASE StartBackgroundRead
    <2>1. ~inRead /\ bg = "none"
      BY <1>8, NobodyReadsWhenCalled DEF StartBackgroundRead
    <2>. QED BY <1>a, <1>8, <2>1 DEF StartBackgroundRead
  <1>9. CASE AbortPendingRead BY <1>a, <1>9 DEF AbortPendingRead, bgVars
  <1>10. CASE Wake BY <1>a, <1>10 DEF Wake, crVars, bgVars
  <1>11. CASE BackgroundReadReturns
    BY <1>a, <1>11 DEF BackgroundReadReturns, crVars, callVars
  <1>12. CASE BackgroundReadEnds
    BY <1>a, <1>12 DEF BackgroundReadEnds, TypeOK, socketVars, callVars
  <1>13. CASE Broadcast
    <2>1. bg # "none" => broadcasts' <= MaxPending
      BY <1>a, <1>13, BoundsAssumption DEF Broadcast, TypeOK
    <2>2. UNCHANGED <<crVars, socketVars, asked, n, upto, got, lastByte,
                      watching, bg, found, bgByte>>
      BY <1>13 DEF Broadcast
    <2>3. CASE pc = "wait"
      <3>1. pc' = "woken" BY <1>13, <2>3 DEF Broadcast
      <3>. QED BY <1>a, <2>1, <2>2, <2>3, <3>1 DEF crVars, socketVars
    <2>4. CASE pc # "wait"
      <3>1. pc' = pc BY <1>13, <2>4 DEF Broadcast
      <3>. QED BY <1>a, <2>1, <2>2, <2>4, <3>1 DEF crVars, socketVars
    <2>. QED BY <2>3, <2>4
  <1>14. CASE UNCHANGED vars
    BY <1>a, <1>14 DEF vars, crVars, socketVars, callVars, bgVars
  <1>. QED BY <1>1, <1>2, <1>3, <1>4, <1>5, <1>6, <1>7, <1>8, <1>9, <1>10,
              <1>11, <1>12, <1>13, <1>14 DEF Next, Terminated

(* A byte taken from the socket is in one place.                           *)
LEMMA ByteInvPreserved ==
  ASSUME IInv, [Next]_vars
  PROVE  ByteInv'
  <1>. USE DEF ByteInv, InByteBuf, ReadByCaller, ReadInBackground
  <1>a. TypeOK /\ ReadInv /\ ByteInv BY DEF IInv
  <1>1. CASE Arrive
    BY <1>a, <1>1 DEF Arrive, TypeOK, crVars, callVars, bgVars
  <1>2. CASE UNCHANGED <<hasByte, byteBuf, arrived, taken, got, lastByte, n,
                         upto, bg, found, bgByte>>
             /\ (pc' = "relock" <=> pc = "relock")
    BY <1>a, <1>2
  <1>3. CASE Break \/ DeadlinePasses \/ SetReadLimit \/ StartBackgroundRead
             \/ AbortPendingRead \/ Wake \/ Broadcast \/ UNCHANGED vars
    <2>1. ~StartBackgroundRead
          => UNCHANGED <<hasByte, byteBuf, arrived, taken, got, lastByte, n,
                         upto, bg, found, bgByte>>
             /\ (pc' = "relock" <=> pc = "relock")
      BY <1>3 DEF Break, DeadlinePasses, SetReadLimit, AbortPendingRead, Wake,
                  Broadcast, vars, crVars, socketVars, callVars, bgVars
    <2>2. CASE StartBackgroundRead
      BY <1>a, <2>2, NobodyReadsWhenCalled DEF StartBackgroundRead
    <2>. QED BY <1>2, <2>1, <2>2
  <1>4. ASSUME NEW len \in Lengths, Read(len) PROVE ByteInv'
    <2>1. ~inRead /\ bg = "none" BY <1>4, NobodyReadsWhenCalled DEF Read
    <2>. QED BY <1>a, <1>4, <2>1 DEF Read, TypeOK, socketVars, bgVars
  <1>5. CASE ReadReturns
    <2>1. bg = "none" /\ pc = "sysRead" /\ ~hasByte
      BY <1>a, <1>5 DEF ReadReturns, ReadInv
    <2>2. UNCHANGED <<crVars, arrived, got, lastByte, bgVars>>
          /\ pc' = "relock"
      BY <1>5 DEF ReadReturns
    <2>3. /\ n' \in Nat /\ taken' = taken + n' /\ taken' <= arrived
          /\ n' > 0 => upto' = taken'
      BY <1>a, <1>5 DEF ReadReturns, TypeOK
    <2>4. taken = got BY <1>a, <2>1 DEF TypeOK
    <2>5. bg' = "none" /\ ~hasByte' /\ got' = got /\ lastByte' = got
      BY <1>a, <2>1, <2>2 DEF crVars, bgVars
    <2>6. taken' = got' + n' BY <2>3, <2>4, <2>5
    <2>7. got' \in Nat /\ taken' <= arrived' BY <1>a, <2>2, <2>3 DEF TypeOK
    <2>8. InByteBuf' = 0 /\ ReadByCaller' = n' /\ ReadInBackground' = 0
      BY <2>2, <2>5
    <2>. HIDE DEF InByteBuf, ReadByCaller, ReadInBackground
    <2>9. taken' = got' + InByteBuf' + ReadByCaller' + ReadInBackground'
      <3>1. got' + 0 + n' + 0 = got' + n' BY <2>3, <2>7
      <3>. QED BY <2>6, <2>8, <3>1
    <2>. QED BY <2>2, <2>3, <2>5, <2>7, <2>9
  <1>6. CASE ReadEnds
    <2>1. bg = "none" /\ ~hasByte BY <1>a, <1>6 DEF ReadEnds, ReadInv
    <2>2. got' = got + n /\ lastByte' = got' /\ pc' # "relock"
      BY <1>a, <1>6, <2>1 DEF ReadEnds, TypeOK
    <2>3. UNCHANGED <<hasByte, byteBuf, socketVars, n, upto, bgVars>>
      BY <1>6 DEF ReadEnds
    <2>. QED BY <1>a, <1>6, <2>1, <2>2, <2>3
             DEF ReadEnds, TypeOK, socketVars, bgVars
  <1>7. CASE BackgroundReadReturns
    <2>1. ~hasByte /\ pc # "relock"
      BY <1>a, <1>7 DEF BackgroundReadReturns, ReadInv
    <2>. QED
      BY <1>a, <1>7, <2>1 DEF BackgroundReadReturns, TypeOK, crVars, callVars
  <1>8. CASE BackgroundReadEnds
    <2>1. ~hasByte /\ pc # "relock"
      BY <1>a, <1>8 DEF BackgroundReadEnds, ReadInv
    <2>. QED
      BY <1>a, <1>8, <2>1
      DEF BackgroundReadEnds, TypeOK, socketVars, callVars
  <1>. QED BY <1>1, <1>3, <1>4, <1>5, <1>6, <1>7, <1>8 DEF Next, Terminated

LEMMA ErrorInvPreserved ==
  ASSUME IInv, [Next]_vars
  PROVE  ErrorInv'
  <1>. USE DEF ErrorInv
  <1>a. ReadInv /\ ErrorInv BY DEF IInv
  <1>1. CASE Arrive \/ Break \/ DeadlinePasses \/ Broadcast \/ UNCHANGED vars
    BY <1>a, <1>1
    DEF Arrive, Break, DeadlinePasses, Broadcast, vars, crVars, socketVars,
        callVars, bgVars
  <1>2. CASE SetReadLimit \/ ReadReturns \/ ReadEnds
             \/ \E len \in Lengths : Read(len)
    BY <1>a, <1>2 DEF SetReadLimit, Read, ReadReturns, ReadEnds, ReadInv,
                      crVars, socketVars, callVars, bgVars
  <1>3. CASE StartBackgroundRead \/ AbortPendingRead \/ Wake
    BY <1>a, <1>3 DEF StartBackgroundRead, AbortPendingRead, Wake, ReadInv,
                      crVars, bgVars
  <1>4. CASE BackgroundReadReturns
    BY <1>a, <1>4 DEF BackgroundReadReturns, ReadInv, crVars, callVars
  <1>5. CASE BackgroundReadEnds
    BY <1>a, <1>5 DEF BackgroundReadEnds, socketVars, callVars
  <1>. QED BY <1>1, <1>2, <1>3, <1>4, <1>5 DEF Next, Terminated

-----------------------------------------------------------------------------
(* IInv is an invariant: the reader is borrowed and taken back as the      *)
(* comments of connReader's fields say.                                    *)
THEOREM Invariance == Spec => []IInv
  <1>1. Init => IInv BY InitEstablishesIInv
  <1>2. IInv /\ [Next]_vars => IInv'
    BY TypeOKPreserved, ReadInvPreserved, ByteInvPreserved, ErrorInvPreserved
    DEF IInv
  <1>. QED BY <1>1, <1>2, PTL DEF Spec

(* Every variable keeps its type; in particular cr.remain never becomes    *)
(* negative (Read cuts its slice to it).                                   *)
THEOREM TypeCorrect == Spec => []TypeOK
  <1>1. IInv => TypeOK BY DEF IInv
  <1>. QED BY <1>1, Invariance, PTL

(* Read and backgroundRead are never both in rwc.Read, and the panics on a *)
(* concurrent read are not reached.                                        *)
THEOREM OneReaderAtATime == Spec => []OneReader
  <1>1. IInv => OneReader BY DEF IInv, ReadInv, OneReader
  <1>. QED BY <1>1, Invariance, PTL

(* No byte of the client's stream is lost, doubled or misplaced by a       *)
(* background read, whenever it is aborted.                                *)
THEOREM BytesStayInOrder == Spec => []BytesInOrder
  <1>1. IInv => BytesInOrder
    BY DEF IInv, TypeOK, ReadInv, ByteInv, InByteBuf, ReadByCaller,
           ReadInBackground, BytesInOrder
  <1>. QED BY <1>1, Invariance, PTL

(* The time-out that abortPendingRead provokes never cancels the context.  *)
THEOREM AbortsAreNoErrors == Spec => []AbortIsNoError
  <1>1. IInv => AbortIsNoError BY DEF IInv, ErrorInv, AbortIsNoError
  <1>. QED BY <1>1, Invariance, PTL

-----------------------------------------------------------------------------
(* Nobody is stuck.  The provers leave ENABLED A as it is, so that a guard *)
(* suffices for its action is a hypothesis; that the guards hold when      *)
(* somebody waits is proved.                                               *)

(* An aborted read has its deadline behind it, and whoever waits in        *)
(* cond.Wait waits for a background read or for its Broadcast.             *)
LEMMA WaitersCanGoOn ==
  ASSUME IInv
  PROVE  CanGoOn
  BY DEF IInv, TypeOK, ReadInv, CanGoOn, CanReturn, CanRelock, CanBroadcast

(* No waiter of cond.Wait misses its Broadcast, no background read that is *)
(* aborted or has lost its socket stays in rwc.Read.                       *)
THEOREM NobodyIsStuck ==
  Spec => []CanGoOn /\ ([]GuardsSuffice => []NobodyStuck)
  <1>1. IInv => CanGoOn BY WaitersCanGoOn
  <1>2. CanGoOn /\ GuardsSuffice => NobodyStuck BY DEF NobodyStuck
  <1>. QED BY <1>1, <1>2, Invariance, PTL

-----------------------------------------------------------------------------
(* Liveness.                                                               *)

(* The stages of abortPendingRead's wait.                                  *)
Waiting     == pc \in {"wait", "woken"}
ReadNotOver == Waiting /\ bg = "sysRead"
ReadOver    == Waiting /\ bg = "relock"
NotYetAwake == pc = "wait" /\ bg = "none"
Awake       == pc = "woken" /\ bg = "none"
Back        == pc = "idle"

LEMMA WaitAdvances ==
  ASSUME IInv, [Next]_vars
  PROVE  /\ ReadNotOver => ReadNotOver' \/ ReadOver'
         /\ ReadOver    => ReadOver' \/ NotYetAwake' \/ Awake'
         /\ NotYetAwake => NotYetAwake' \/ Awake'
         /\ Awake       => Awake' \/ Back'
  <1>. USE DEF Waiting, ReadNotOver, ReadOver, NotYetAwake, Awake, Back
  <1>a. TypeOK /\ ReadInv BY DEF IInv
  <1>1. CASE UNCHANGED <<pc, bg>> BY <1>a, <1>1 DEF TypeOK
  <1>2. CASE Wake BY <1>a, <1>2 DEF Wake, ReadInv, crVars, bgVars, TypeOK
  <1>3. CASE BackgroundReadReturns \/ BackgroundReadEnds
    BY <1>a, <1>3 DEF BackgroundReadReturns, BackgroundReadEnds, callVars
  <1>4. CASE Broadcast BY <1>a, <1>4 DEF Broadcast
  <1>5. CASE \/ SetReadLimit \/ (\E len \in Lengths : Read(len))
             \/ StartBackgroundRead \/ AbortPendingRead
             \/ ReadReturns \/ ReadEnds
    BY <1>a, <1>5
    DEF SetReadLimit, Read, StartBackgroundRead, AbortPendingRead,
        ReadReturns, ReadEnds
  <1>. QED
    BY <1>1, <1>2, <1>3, <1>4, <1>5
    DEF Next, Terminated, Arrive, Break, DeadlinePasses, vars, callVars, bgVars

LEMMA WaitSteps ==
  ASSUME IInv
  PROVE  /\ ReadNotOver /\ BackgroundReadReturns => ReadOver'
         /\ ReadOver /\ BackgroundReadEnds => NotYetAwake' \/ Awake'
         /\ NotYetAwake /\ Broadcast => Awake'
         /\ Awake /\ Wake => Back'
  BY DEF IInv, ReadInv, Waiting, ReadNotOver, ReadOver, NotYetAwake, Awake,
         Back, BackgroundReadReturns, BackgroundReadEnds, Broadcast, Wake,
         callVars, bgVars

LEMMA WaitEnabled ==
  ASSUME IInv, NobodyStuck
  PROVE  /\ ReadNotOver => ENABLED <<BackgroundReadReturns>>_vars
         /\ ReadOver    => ENABLED <<BackgroundReadEnds>>_vars
         /\ NotYetAwake => ENABLED <<Broadcast>>_vars
         /\ Awake       => ENABLED <<Wake>>_vars
  BY DEF IInv, TypeOK, ReadInv, NobodyStuck, GuardsSuffice, CanGoOn,
         CanBroadcast, CanWake, Waiting, ReadNotOver, ReadOver, NotYetAwake,
         Awake

(* abortPendingRead returns: its deadline ends the background read, the    *)
(* goroutine of that read broadcasts once it has released cr.mu, and a     *)
(* waiter that is woken finds inRead cleared.                              *)
THEOREM AbortsReturn == FairSpec /\ []GuardsSuffice => AbortReturns
  <1>1. IInv /\ Waiting => ReadNotOver \/ ReadOver \/ NotYetAwake \/ Awake
    BY DEF IInv, TypeOK, Waiting, ReadNotOver, ReadOver, NotYetAwake, Awake
  <1>2. pc = "wait" => Waiting BY DEF Waiting
  <1>3. Back <=> pc = "idle" BY DEF Back
  <1>4. []IInv /\ [][Next]_vars /\ []NobodyStuck /\ WF_vars(Wake)
          => (Awake ~> Back)
    BY WaitAdvances, WaitSteps, WaitEnabled, PTL
  <1>5. []IInv /\ [][Next]_vars /\ []NobodyStuck /\ WF_vars(Broadcast)
          => (NotYetAwake ~> Awake)
    BY WaitAdvances, WaitSteps, WaitEnabled, PTL
  <1>6. []IInv /\ [][Next]_vars /\ []NobodyStuck /\ WF_vars(BackgroundReadEnds)
          => (ReadOver ~> NotYetAwake \/ Awake)
    BY WaitAdvances, WaitSteps, WaitEnabled, PTL
  <1>7. []IInv /\ [][Next]_vars /\ []NobodyStuck
          /\ WF_vars(BackgroundReadReturns)
          => (ReadNotOver ~> ReadOver)
    BY WaitAdvances, WaitSteps, WaitEnabled, PTL
  <1>. QED
    BY <1>1, <1>2, <1>3, <1>4, <1>5, <1>6, <1>7, Invariance,
       NobodyIsStuck, PTL
    DEF FairSpec, Fairness, Spec, AbortReturns

(* The stages of a background read whose socket is gone.                   *)
Unnoticed == bg = "sysRead" /\ ~up
Noticing  == bg = "relock" /\ ~up
Noticed   == cancelled \/ hasByte \/ ~watching

LEMMA NoticeAdvances ==
  ASSUME IInv, [Next]_vars
  PROVE  /\ Unnoticed => Unnoticed' \/ Noticing'
         /\ Noticing  => Noticing' \/ Noticed'
  <1>. USE DEF Unnoticed, Noticing, Noticed
  <1>a. TypeOK /\ ReadInv /\ ErrorInv BY DEF IInv
  <1>1. CASE UNCHANGED <<up, bg>> BY <1>a, <1>1
  <1>2. CASE BackgroundReadReturns BY <1>a, <1>2 DEF BackgroundReadReturns
  <1>3. CASE BackgroundReadEnds
    BY <1>a, <1>3
    DEF BackgroundReadEnds, callVars, ReadInv, ErrorInv, TypeOK
  <1>4. CASE Break BY <1>a, <1>4 DEF Break, bgVars
  <1>5. CASE StartBackgroundRead
    BY <1>a, <1>5 DEF StartBackgroundRead, ReadInv
  <1>. QED
    BY <1>1, <1>2, <1>3, <1>4, <1>5
    DEF Next, Terminated, Arrive, DeadlinePasses, SetReadLimit, Read,
        ReadReturns, ReadEnds, AbortPendingRead, Wake, Broadcast,
        vars, socketVars, bgVars

LEMMA NoticeSteps ==
  ASSUME IInv
  PROVE  /\ Unnoticed /\ BackgroundReadReturns => Noticing'
         /\ Noticing /\ BackgroundReadEnds => Noticed'
  BY DEF IInv, ReadInv, ErrorInv, TypeOK, Unnoticed, Noticing, Noticed,
         BackgroundReadReturns, BackgroundReadEnds, callVars

LEMMA NoticeEnabled ==
  ASSUME NobodyStuck
  PROVE  /\ Unnoticed => ENABLED <<BackgroundReadReturns>>_vars
         /\ Noticing => ENABLED <<BackgroundReadEnds>>_vars
  BY DEF NobodyStuck, GuardsSuffice, CanGoOn, Unnoticed, Noticing

(* A background read whose socket is gone cancels the context, unless it   *)
(* finds a byte first or is aborted.                                       *)
THEOREM HangUpsAreNoticed == FairSpec /\ []GuardsSuffice => HangUpNoticed
  <1>1. Unnoticed <=> bg = "sysRead" /\ ~up BY DEF Unnoticed
  <1>2. Noticed <=> cancelled \/ hasByte \/ ~watching BY DEF Noticed
  <1>3. []IInv /\ [][Next]_vars /\ []NobodyStuck
          /\ WF_vars(BackgroundReadReturns)
          => (Unnoticed ~> Noticing)
    BY NoticeAdvances, NoticeSteps, NoticeEnabled, PTL
  <1>4. []IInv /\ [][Next]_vars /\ []NobodyStuck /\ WF_vars(BackgroundReadEnds)
          => (Noticing ~> Noticed)
    BY NoticeAdvances, NoticeSteps, NoticeEnabled, PTL
  <1>. QED
    BY <1>1, <1>2, <1>3, <1>4, Invariance, NobodyIsStuck, PTL
    DEF FairSpec, Fairness, Spec, HangUpNoticed
=============================================================================
