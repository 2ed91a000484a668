------------------------- MODULE StratumServerProofs -------------------------
(***************************************************************************)
(* Proofs about StratumServer, for any set of connections.  Each part of   *)
(* IInv is kept by a lemma of its own, with one step per action that can   *)
(* disturb it; the other actions of a goroutine are dismissed together.    *)
(***************************************************************************)
EXTENDS StratumServer, Induction, FiniteSetTheorems

-----------------------------------------------------------------------------
(* The inductive invariant behind the safety properties.                   *)

(* The serving goroutine, its listener and the lists of s.mu.              *)
ServeInv ==
  /\ tracked <=> (serve \in AcceptLoop \cup {"untrack"})
  /\ (rw # NoConn) <=> (serve \in {"accepted", "stamp"})
  /\ serve \in {"start", "listen"} => lsock = "none"
  /\ serve \in {"loadKeys", "track"} => lsock = "open"
  /\ serve = "returned" => lsock # "open"
  /\ tracked => lsock # "none"
  /\ tracked => (lsock = "closed" <=> doneClosed)
  /\ serve \in Unstarted => acceptErr = "none"
  /\ acceptErr = "closed" => doneClosed /\ serveRet # "err"
  /\ serveRet # "none" => serve \in {"untrack", "closeListener", "returned"}

(* The caller of Shutdown: its flags follow its program counter.           *)
ShutInv ==
  /\ inShutdown <=> (shut # "idle")
  /\ doneClosed <=> (shut \notin {"idle", "closeListeners"})
  /\ muHeld <=> (shut \in {"scan", "closeIdle"})
  /\ (victim # NoConn) <=> (shut = "closeIdle")
  /\ shut \in {"ok", "lnErr"} => ~tracked

(* What closeIdleConns knows while it holds s.mu, and what is left of it.  *)
ScanInv ==
  /\ toScan \subseteq activeConn /\ (~muHeld => toScan = {})
  /\ victim # NoConn => /\ victim \in activeConn \ toScan
                        /\ curState[victim] # "zero"
                        /\ curState[victim] = "new" => aged[victim]
  /\ muHeld /\ quiescent => activeConn \subseteq toScan \cup {victim}
  /\ shut \in {"numListeners", "ok", "lnErr"}
       => \A c, d \in activeConn \cup {rw} : c # NoConn /\ d # NoConn => c = d

(* A connection, from Accept to the end of its goroutine.                  *)
ConnInv ==
  \A c \in Conns :
    /\ rwc[c] = "none" => pc[c] = "none" /\ c \notin activeConn /\ rw # c
    /\ pc[c] = "none" /\ rwc[c] # "none" => rw = c /\ rwc[c] = "open"
    /\ rw = c => pc[c] = "none" /\ (serve = "stamp" <=> c \in activeConn)
    /\ (pc[c] = "none") <=> (curState[c] = "zero")
    /\ rwc[c] = "open" /\ c \notin activeConn => rw = c
    /\ pc[c] \in {"untrack", "end"} => rwc[c] = "closed"
    /\ pc[c] = "end" => c \notin activeConn
    /\ (next[c] # "none") <=> (pc[c] = "store")

IInv == TypeOK /\ ServeInv /\ ShutInv /\ ScanInv /\ ConnInv

-----------------------------------------------------------------------------
LEMMA InitEstablishesIInv ==
  ASSUME Init
  PROVE  IInv
  <1>1. TypeOK
    <2>1. /\ buffered \in [Conns -> 0..MaxPipelined]
          /\ aged \in [Conns -> BOOLEAN]
      BY PipelinedAssumption DEF Init
    <2>2. /\ pc \in [Conns -> ConnLabels] /\ rwc \in [Conns -> SocketStates]
          /\ curState \in [Conns -> ConnStates]
          /\ next \in [Conns -> {"none", "read", "handle", "close"}]
      BY DEF Init, ConnLabels, SocketStates, ConnStates
    <2>. QED BY <2>1, <2>2
      DEF Init, TypeOK, SrvTypeOK, ConnTypeOK, ShutTypeOK, ServeLabels,
          SocketStates, ShutLabels
  <1>2. ServeInv BY DEF Init, ServeInv, AcceptLoop, Unstarted
  <1>3. ShutInv BY DEF Init, ShutInv
  <1>4. ScanInv BY DEF Init, ScanInv
  <1>5. ConnInv BY ConnsAssumption DEF Init, ConnInv
  <1>. QED BY <1>1, <1>2, <1>3, <1>4, <1>5 DEF IInv

LEMMA TypeOKPreserved ==
  ASSUME IInv, [Next]_vars
  PROVE  TypeOK'
  <1>. USE DEF IInv, TypeOK
  <1>a. UNCHANGED <<srvVars, serveVars>> => SrvTypeOK'
    BY DEF SrvTypeOK, srvVars, serveVars
  <1>b. UNCHANGED connVars => ConnTypeOK' BY DEF ConnTypeOK, connVars
  <1>c. UNCHANGED shutVars => ShutTypeOK' BY DEF ShutTypeOK, shutVars
  <1>1. CASE ServeStep
    <2>. USE <1>b, <1>c DEF SrvTypeOK, srvVars
    <2>1. CASE CheckShuttingDown BY <2>1 DEF CheckShuttingDown, ServeLabels
    <2>2. CASE Listen BY <2>2 DEF Listen, ServeLabels, SocketStates
    <2>3. CASE LoadKeys BY <2>3 DEF LoadKeys, ServeLabels
    <2>4. CASE TrackListener BY <2>4 DEF TrackListener, ServeLabels
    <2>5. CASE HandleAcceptError BY <2>5 DEF HandleAcceptError, ServeLabels
    <2>6. CASE BackoffEnds BY <2>6 DEF BackoffEnds, ServeLabels
    <2>7. CASE TrackConn BY <2>7 DEF TrackConn, ServeInv, ServeLabels
    <2>8. CASE StartConn
      <3>1. SrvTypeOK' BY <2>8 DEF StartConn, ServeLabels
      <3>2. ConnTypeOK'
        BY <2>8 DEF StartConn, ServeInv, ConnTypeOK, ConnLabels, ConnStates
      <3>. QED BY <2>8, <3>1, <3>2 DEF StartConn
    <2>9. CASE UntrackListener BY <2>9 DEF UntrackListener, ServeLabels
    <2>10. CASE CloseListener
      BY <2>10 DEF CloseListener, ServeLabels, SocketStates
    <2>. QED BY <1>1, <2>1, <2>2, <2>3, <2>4, <2>5, <2>6, <2>7, <2>8, <2>9,
                <2>10 DEF ServeStep
  <1>2. ASSUME NEW c \in Conns, AcceptConn(c) \/ ConnStep(c) \/ Age(c)
        PROVE  TypeOK'
    <2>. USE <1>a, <1>c DEF ConnTypeOK
    <2>1. CASE AcceptConn(c)
      <3>1. SrvTypeOK' BY <2>1 DEF AcceptConn, SrvTypeOK, srvVars, ServeLabels
      <3>2. ConnTypeOK' BY <2>1 DEF AcceptConn, SocketStates
      <3>. QED BY <2>1, <3>1, <3>2 DEF AcceptConn
    <2>2. CASE Handshake(c) BY <2>2 DEF Handshake, ConnLabels, SocketStates
    <2>3. CASE ReadWire(c) BY <2>3 DEF ReadWire, ConnLabels
    <2>4. CASE ReadFails(c) BY <2>4 DEF ReadFails, ConnLabels
    <2>5. CASE ReadBuffered(c)
      BY <2>5, PipelinedAssumption DEF ReadBuffered, ConnLabels
    <2>6. CASE SetActive(c) BY <2>6 DEF SetActive, ConnLabels, ConnStates
    <2>7. CASE Handle(c) BY <2>7 DEF Handle, ConnLabels
    <2>8. CASE Crash(c) BY <2>8 DEF Crash
    <2>9. CASE CloseConn(c)
      BY <2>9, PipelinedAssumption DEF CloseConn, ConnLabels, SocketStates
    <2>10. CASE EndConn(c)
      <3>1. SrvTypeOK' BY <2>10 DEF EndConn, SrvTypeOK, serveVars
      <3>2. ConnTypeOK' BY <2>10 DEF EndConn, ConnLabels, ConnStates
      <3>. QED BY <2>10, <3>1, <3>2 DEF EndConn
    <2>11. CASE Age(c) BY <2>11 DEF Age
    <2>. QED BY <1>2, <2>1, <2>2, <2>3, <2>4, <2>5, <2>6, <2>7, <2>8, <2>9,
                <2>10, <2>11 DEF ConnStep
  <1>3. ASSUME NEW e \in {"temporary", "permanent", "closed"}, AcceptFails(e)
        PROVE  TypeOK'
    BY <1>3, <1>b, <1>c DEF AcceptFails, SrvTypeOK, srvVars, ServeLabels
  <1>4. CASE CallShutdown
    <2>1. SrvTypeOK' BY <1>4 DEF CallShutdown, SrvTypeOK, serveVars
    <2>. QED BY <1>4, <1>b, <2>1 DEF CallShutdown, ShutTypeOK, ShutLabels
  <1>5. CASE ShutdownStep
    <2>. USE <1>a, <1>b DEF ShutTypeOK
    <2>1. CASE CloseListeners
      <3>1. SrvTypeOK' BY <2>1 DEF CloseListeners, SrvTypeOK, SocketStates
      <3>. QED BY <2>1, <3>1 DEF CloseListeners, ShutLabels
    <2>2. CASE StartScan
      <3>1. SrvTypeOK' BY <2>2 DEF StartScan, SrvTypeOK, serveVars
      <3>. QED BY <2>2, <3>1 DEF StartScan, SrvTypeOK, ShutLabels
    <2>3. ASSUME NEW c \in Conns, ScanConn(c) PROVE TypeOK'
      BY <2>3 DEF ScanConn, ShutLabels
    <2>4. CASE CloseIdle
      <3>1. SrvTypeOK' BY <2>4 DEF CloseIdle, SrvTypeOK, serveVars
      <3>2. ConnTypeOK' BY <2>4 DEF CloseIdle, ConnTypeOK, SocketStates
      <3>. QED BY <2>4, <3>1, <3>2 DEF CloseIdle, ShutLabels
    <2>5. CASE EndScan
      <3>1. SrvTypeOK' BY <2>5 DEF EndScan, SrvTypeOK, serveVars
      <3>. QED BY <2>5, <3>1 DEF EndScan, ShutLabels
    <2>6. CASE NumListeners BY <2>6 DEF NumListeners, ShutLabels
    <2>7. CASE Tick BY <2>7 DEF Tick, ShutLabels
    <2>. QED BY <1>5, <2>1, <2>2, <2>3, <2>4, <2>5, <2>6, <2>7 DEF ShutdownStep
  <1>6. CASE SelectDone
    BY <1>6, <1>a, <1>b DEF SelectDone, ShutTypeOK, ShutLabels
  <1>7. CASE Deadline BY <1>7, <1>a, <1>b DEF Deadline, ShutTypeOK
  <1>8. CASE Terminated \/ UNCHANGED vars
    BY <1>8, <1>a, <1>b, <1>c DEF Terminated, vars
  <1>. QED BY <1>1, <1>2, <1>3, <1>4, <1>5, <1>6, <1>7, <1>8 DEF Next

(* The serving goroutine's own steps, its Accept, and the closing of the   *)
(* listeners are the only ones that disturb ServeInv.                      *)
LEMMA ServeInvPreserved ==
  ASSUME IInv, [Next]_vars
  PROVE  ServeInv'
  <1>. USE DEF IInv, TypeOK, SrvTypeOK, ConnTypeOK, ShutTypeOK, ServeInv,
               ShutInv, AcceptLoop, Unstarted, srvVars, serveVars, connVars,
               shutVars
  <1>1. CASE ServeStep
    <2>1. CASE CheckShuttingDown BY <2>1 DEF CheckShuttingDown
    <2>2. CASE Listen BY <2>2 DEF Listen
    <2>3. CASE LoadKeys BY <2>3 DEF LoadKeys
    <2>4. CASE TrackListener BY <2>4 DEF TrackListener
    <2>5. CASE HandleAcceptError BY <2>5 DEF HandleAcceptError
    <2>6. CASE BackoffEnds BY <2>6 DEF BackoffEnds
    <2>7. CASE TrackConn BY <2>7 DEF TrackConn
    <2>8. CASE StartConn BY <2>8 DEF StartConn
    <2>9. CASE UntrackListener BY <2>9 DEF UntrackListener
    <2>10. CASE CloseListener BY <2>10 DEF CloseListener
    <2>. QED BY <1>1, <2>1, <2>2, <2>3, <2>4, <2>5, <2>6, <2>7, <2>8, <2>9,
                <2>10 DEF ServeStep
  <1>2. ASSUME NEW c \in Conns, AcceptConn(c) PROVE ServeInv'
    BY <1>2, ConnsAssumption DEF AcceptConn
  <1>3. ASSUME NEW e \in {"temporary", "permanent", "closed"}, AcceptFails(e)
        PROVE  ServeInv'
    BY <1>3 DEF AcceptFails
  <1>4. CASE CloseListeners BY <1>4 DEF CloseListeners
  <1>5. CASE UNCHANGED <<tracked, doneClosed, serveVars>> BY <1>5
  <1>6. ASSUME NEW c \in Conns, ConnStep(c) \/ Age(c) \/ ScanConn(c)
        PROVE  UNCHANGED <<tracked, doneClosed, serveVars>>
    BY <1>6 DEF ConnStep, Handshake, ReadWire, ReadFails, ReadBuffered,
                SetActive, Handle, Crash, CloseConn, EndConn, Age, ScanConn
  <1>7. ASSUME CallShutdown \/ StartScan \/ CloseIdle \/ EndScan
                 \/ NumListeners \/ Tick \/ SelectDone \/ Deadline
                 \/ Terminated
        PROVE  UNCHANGED <<tracked, doneClosed, serveVars>>
    BY <1>7 DEF CallShutdown, StartScan, CloseIdle, EndScan, NumListeners,
                Tick, SelectDone, Deadline, Terminated, vars
  <1>8. CASE UNCHANGED vars BY <1>8 DEF vars
  <1>. QED BY <1>1, <1>2, <1>3, <1>4, <1>5, <1>6, <1>7, <1>8
    DEF Next, ShutdownStep

(* ShutInv is about Shutdown's steps, and trackListener, which a server    *)
(* that is shutting down refuses.                                          *)
LEMMA ShutInvPreserved ==
  ASSUME IInv, [Next]_vars
  PROVE  ShutInv'
  <1>. USE DEF IInv, TypeOK, SrvTypeOK, ConnTypeOK, ShutTypeOK, ServeInv,
               ShutInv, srvVars, serveVars, connVars, shutVars
  <1>1. CASE ServeStep
    <2>1. CASE TrackListener BY <2>1 DEF TrackListener
    <2>2. CASE UntrackListener BY <2>2 DEF UntrackListener
    <2>3. CASE CheckShuttingDown \/ Listen \/ LoadKeys \/ HandleAcceptError
                 \/ BackoffEnds \/ TrackConn \/ StartConn \/ CloseListener
      BY <2>3 DEF CheckShuttingDown, Listen, LoadKeys, HandleAcceptError,
                  BackoffEnds, TrackConn, StartConn, CloseListener
    <2>. QED BY <1>1, <2>1, <2>2, <2>3 DEF ServeStep
  <1>2. CASE CallShutdown BY <1>2 DEF CallShutdown
  <1>3. CASE ShutdownStep
    <2>1. CASE CloseListeners BY <2>1 DEF CloseListeners
    <2>2. CASE StartScan BY <2>2 DEF StartScan
    <2>3. ASSUME NEW c \in Conns, ScanConn(c) PROVE ShutInv'
      BY <2>3, ConnsAssumption DEF ScanConn
    <2>4. CASE CloseIdle BY <2>4 DEF CloseIdle
    <2>5. CASE EndScan BY <2>5 DEF EndScan
    <2>6. CASE NumListeners BY <2>6 DEF NumListeners
    <2>7. CASE Tick BY <2>7 DEF Tick
    <2>. QED BY <1>3, <2>1, <2>2, <2>3, <2>4, <2>5, <2>6, <2>7 DEF ShutdownStep
  <1>4. CASE SelectDone BY <1>4 DEF SelectDone
  <1>5. CASE Deadline BY <1>5 DEF Deadline
  <1>6. ASSUME NEW c \in Conns, AcceptConn(c) \/ ConnStep(c) \/ Age(c)
        PROVE  ShutInv'
    <2>1. UNCHANGED <<inShutdown, doneClosed, muHeld, tracked, shut, victim>>
      BY <1>6 DEF ConnStep, AcceptConn, Handshake, ReadWire, ReadFails,
                  ReadBuffered, SetActive, Handle, Crash, CloseConn, EndConn,
                  Age
    <2>. QED BY <2>1
  <1>7. ASSUME NEW e \in {"temporary", "permanent", "closed"}, AcceptFails(e)
        PROVE  ShutInv'
    BY <1>7 DEF AcceptFails
  <1>8. CASE Terminated \/ UNCHANGED vars BY <1>8 DEF Terminated, vars
  <1>. QED BY <1>1, <1>2, <1>3, <1>4, <1>5, <1>6, <1>7, <1>8 DEF Next

(* ScanInv: while closeIdleConns holds s.mu nobody else touches activeConn *)
(* and its victim can only become more active; afterwards the closed       *)
(* listener lets at most one connection in.                                *)
LEMMA ScanInvPreserved ==
  ASSUME IInv, [Next]_vars
  PROVE  ScanInv'
  <1>. USE DEF IInv, ScanInv, srvVars, serveVars, connVars, shutVars
  <1>a. /\ activeConn \subseteq Conns /\ victim \in Conns \cup {NoConn}
        /\ curState \in [Conns -> ConnStates] /\ aged \in [Conns -> BOOLEAN]
        /\ muHeld \in BOOLEAN /\ quiescent \in BOOLEAN
    BY DEF TypeOK, SrvTypeOK, ConnTypeOK, ShutTypeOK
  <1>b. /\ muHeld <=> shut \in {"scan", "closeIdle"}
        /\ (victim # NoConn) <=> (shut = "closeIdle")
        /\ doneClosed <=> (shut \notin {"idle", "closeListeners"})
    BY DEF ShutInv
  <1>c. victim # NoConn => pc[victim] # "none" /\ rw # victim
    BY <1>a DEF ConnInv
  <1>1. CASE ServeStep
    <2>1. CASE TrackConn
      <3>1. rw \in Conns /\ ~muHeld /\ rw # NoConn
        BY <2>1, <1>a DEF TrackConn, ServeInv, TypeOK, SrvTypeOK, ConnTypeOK,
                          ShutTypeOK
      <3>. QED BY <2>1, <3>1, <1>a, <1>b DEF TrackConn
    <2>2. CASE StartConn
      <3>1. rw \in Conns /\ rw \in activeConn
        BY <2>2 DEF StartConn, ServeInv, ConnInv, TypeOK, SrvTypeOK,
                    ConnTypeOK, ShutTypeOK
      <3>2. victim # NoConn => curState'[victim] = curState[victim]
        BY <2>2, <1>a, <1>c DEF StartConn
      <3>. QED BY <2>2, <3>1, <3>2, <1>a, <1>b DEF StartConn
    <2>3. CASE CheckShuttingDown \/ Listen \/ LoadKeys \/ TrackListener
                 \/ HandleAcceptError \/ BackoffEnds \/ UntrackListener
                 \/ CloseListener
      BY <2>3 DEF CheckShuttingDown, Listen, LoadKeys, TrackListener,
                  HandleAcceptError, BackoffEnds, UntrackListener,
                  CloseListener
    <2>. QED BY <1>1, <2>1, <2>2, <2>3 DEF ServeStep
  <1>2. ASSUME NEW c \in Conns, AcceptConn(c) PROVE ScanInv'
    <2>1. ~doneClosed
      BY <1>2 DEF AcceptConn, ServeInv, AcceptLoop
    <2>. QED BY <1>2, <2>1, <1>b DEF AcceptConn
  <1>3. ASSUME NEW c \in Conns, ConnStep(c) PROVE ScanInv'
    <2>1. CASE SetActive(c)
      <3>1. victim # NoConn => \/ curState'[victim] = "active"
                               \/ /\ curState'[victim] = curState[victim]
                                  /\ aged'[victim] = aged[victim]
        BY <2>1, <1>a DEF SetActive
      <3>. QED BY <2>1, <3>1 DEF SetActive
    <2>2. CASE EndConn(c) BY <2>2, <1>b DEF EndConn
    <2>3. CASE Handshake(c) \/ ReadWire(c) \/ ReadFails(c) \/ ReadBuffered(c)
                 \/ Handle(c) \/ Crash(c) \/ CloseConn(c)
      BY <2>3 DEF Handshake, ReadWire, ReadFails, ReadBuffered, Handle, Crash,
                  CloseConn
    <2>. QED BY <1>3, <2>1, <2>2, <2>3 DEF ConnStep
  <1>4. ASSUME NEW c \in Conns, Age(c) PROVE ScanInv'
    <2>1. ASSUME victim # NoConn, aged[victim] PROVE aged'[victim]
      BY <1>4, <2>1, <1>a DEF Age
    <2>. QED BY <1>4, <2>1 DEF Age
  <1>5. ASSUME NEW e \in {"temporary", "permanent", "closed"}, AcceptFails(e)
        PROVE  ScanInv'
    BY <1>5 DEF AcceptFails
  <1>6. CASE ShutdownStep
    <2>1. CASE CloseListeners BY <2>1, <1>b DEF CloseListeners
    <2>2. CASE StartScan BY <2>2, <1>a, <1>b DEF StartScan
    <2>3. ASSUME NEW c \in Conns, ScanConn(c) PROVE ScanInv'
      <3>1. CASE LooksIdle(c)
        <4>1. /\ shut = "scan" /\ victim = NoConn /\ c \in toScan
              /\ toScan' = toScan \ {c} /\ victim' = c /\ shut' = "closeIdle"
              /\ quiescent' = quiescent
          BY <2>3, <3>1, <1>b DEF ScanConn
        <4>2. curState[c] # "zero" /\ (curState[c] = "new" => aged[c])
          BY <3>1 DEF LooksIdle
        <4>3. UNCHANGED <<muHeld, activeConn, curState, aged, rw>>
          BY <2>3 DEF ScanConn
        <4>4. toScan' \subseteq activeConn' /\ (~muHeld' => toScan' = {})
          BY <4>1, <4>3
        <4>5. /\ victim' \in activeConn' \ toScan'
              /\ curState'[victim'] # "zero"
              /\ curState'[victim'] = "new" => aged'[victim']
          BY <4>1, <4>2, <4>3
        <4>6. quiescent' => activeConn' \subseteq toScan' \cup {victim'}
          BY <4>1, <4>3, <1>a, <1>b, ConnsAssumption
        <4>. QED BY <4>1, <4>4, <4>5, <4>6
      <3>2. CASE ~LooksIdle(c) BY <2>3, <3>2, <1>b DEF ScanConn
      <3>. QED BY <3>1, <3>2
    <2>4. CASE CloseIdle BY <2>4, <1>a, <1>b DEF CloseIdle
    <2>5. CASE EndScan
      <3>1. quiescent => activeConn = {}
        BY <2>5, <1>a, <1>b, ConnsAssumption DEF EndScan
      <3>. QED BY <2>5, <3>1, <1>b DEF EndScan
    <2>6. CASE NumListeners BY <2>6, <1>b DEF NumListeners
    <2>7. CASE Tick BY <2>7 DEF Tick
    <2>. QED BY <1>6, <2>1, <2>2, <2>3, <2>4, <2>5, <2>6, <2>7 DEF ShutdownStep
  <1>7. CASE CallShutdown \/ SelectDone \/ Deadline \/ Terminated
    BY <1>7 DEF CallShutdown, SelectDone, Deadline, Terminated, vars
  <1>8. CASE UNCHANGED vars BY <1>8 DEF vars
  <1>. QED BY <1>1, <1>2, <1>3, <1>4, <1>5, <1>6, <1>7, <1>8 DEF Next

(* ConnInv: a connection has one owner at a time, the accept loop and then *)
(* its goroutine, and closeIdleConns only takes the socket away.           *)
LEMMA ConnInvPreserved ==
  ASSUME IInv, [Next]_vars
  PROVE  ConnInv'
  <1>. USE DEF IInv, ConnInv, srvVars, serveVars, connVars, shutVars
  <1>a. /\ pc \in [Conns -> ConnLabels] /\ rwc \in [Conns -> SocketStates]
        /\ curState \in [Conns -> ConnStates]
        /\ next \in [Conns -> {"none", "read", "handle", "close"}]
        /\ activeConn \subseteq Conns /\ rw \in Conns \cup {NoConn}
    BY DEF TypeOK, SrvTypeOK, ConnTypeOK, ShutTypeOK
  <1>b. (rw # NoConn) <=> (serve \in {"accepted", "stamp"})
    BY DEF ServeInv
  <1>1. CASE ServeStep
    <2>1. CASE TrackConn
      <3>1. rw \in Conns BY <2>1, <1>a, <1>b DEF TrackConn
      <3>. QED BY <2>1, <3>1, <1>a DEF TrackConn
    <2>2. CASE StartConn
      <3>1. rw \in Conns /\ rw \in activeConn /\ pc[rw] = "none"
        BY <2>2, <1>a, <1>b DEF StartConn
      <3>2. rwc[rw] = "open" BY <3>1, <1>a DEF SocketStates
      <3>. QED BY <2>2, <3>1, <3>2, <1>a, ConnsAssumption DEF StartConn
    <2>3. CASE CheckShuttingDown \/ Listen \/ LoadKeys \/ TrackListener
                 \/ HandleAcceptError \/ BackoffEnds \/ UntrackListener
                 \/ CloseListener
      <3>1. UNCHANGED <<pc, rwc, curState, next, activeConn, rw>>
        BY <2>3 DEF CheckShuttingDown, Listen, LoadKeys, TrackListener,
                    HandleAcceptError, BackoffEnds, UntrackListener,
                    CloseListener
      <3>2. rw = NoConn
        BY <2>3, <1>b
        DEF CheckShuttingDown, Listen, LoadKeys, TrackListener,
            HandleAcceptError, BackoffEnds, UntrackListener, CloseListener
      <3>. QED BY <3>1, <3>2, ConnsAssumption
    <2>. QED BY <1>1, <2>1, <2>2, <2>3 DEF ServeStep
  <1>2. ASSUME NEW d \in Conns, AcceptConn(d) PROVE ConnInv'
    BY <1>2, <1>a, <1>b, ConnsAssumption DEF AcceptConn
  <1>3. ASSUME NEW d \in Conns, ConnStep(d) PROVE ConnInv'
    <2>1. CASE Handshake(d) BY <2>1, <1>a DEF Handshake
    <2>2. CASE ReadWire(d) BY <2>2, <1>a DEF ReadWire
    <2>3. CASE ReadFails(d) BY <2>3, <1>a DEF ReadFails
    <2>4. CASE ReadBuffered(d) BY <2>4, <1>a DEF ReadBuffered
    <2>5. CASE SetActive(d) BY <2>5, <1>a DEF SetActive
    <2>6. CASE Handle(d) BY <2>6, <1>a DEF Handle
    <2>7. CASE Crash(d) BY <2>7 DEF Crash
    <2>8. CASE CloseConn(d) BY <2>8, <1>a DEF CloseConn
    <2>9. CASE EndConn(d) BY <2>9, <1>a DEF EndConn
    <2>. QED BY <1>3, <2>1, <2>2, <2>3, <2>4, <2>5, <2>6, <2>7, <2>8, <2>9
             DEF ConnStep
  <1>4. CASE CloseIdle
    <2>1. victim \in activeConn /\ curState[victim] # "zero"
      BY <1>4 DEF CloseIdle, ShutInv, ScanInv
    <2>2. pc[victim] # "none" /\ rw # victim BY <2>1, <1>a
    <2>. QED BY <1>4, <2>1, <2>2, <1>a DEF CloseIdle
  <1>5. CASE UNCHANGED <<pc, rwc, curState, next, activeConn, rw, serve>>
    BY <1>5
  <1>6. ASSUME NEW d \in Conns, Age(d) \/ ScanConn(d)
        PROVE  UNCHANGED <<pc, rwc, curState, next, activeConn, rw, serve>>
    BY <1>6 DEF Age, ScanConn
  <1>7. ASSUME NEW e \in {"temporary", "permanent", "closed"}, AcceptFails(e)
        PROVE  ConnInv'
    BY <1>7, <1>b, ConnsAssumption DEF AcceptFails
  <1>8. ASSUME CallShutdown \/ CloseListeners \/ StartScan \/ EndScan
                 \/ NumListeners \/ Tick \/ SelectDone \/ Deadline
                 \/ Terminated
        PROVE  UNCHANGED <<pc, rwc, curState, next, activeConn, rw, serve>>
    BY <1>8 DEF CallShutdown, CloseListeners, StartScan, EndScan, NumListeners,
                Tick, SelectDone, Deadline, Terminated, vars
  <1>9. CASE UNCHANGED vars BY <1>9 DEF vars
  <1>. QED BY <1>1, <1>2, <1>3, <1>4, <1>5, <1>6, <1>7, <1>8, <1>9
    DEF Next, ShutdownStep

(* The inductive invariant holds in every reachable state.                 *)
THEOREM Invariance == Spec => []IInv
  <1>1. Init => IInv BY InitEstablishesIInv
  <1>2. IInv /\ [Next]_vars => IInv'
    <2>. SUFFICES ASSUME IInv, [Next]_vars PROVE IInv'
      OBVIOUS
    <2>. QED BY TypeOKPreserved, ServeInvPreserved, ShutInvPreserved,
                ScanInvPreserved, ConnInvPreserved DEF IInv
  <1>. QED BY <1>1, <1>2, PTL DEF Spec

(* Every variable keeps its type.                                          *)
THEOREM TypeCorrect == Spec => []TypeOK
  <1>1. IInv => TypeOK BY DEF IInv
  <1>. QED BY <1>1, Invariance, PTL

(* Shutdown can reach every open socket, and forgets the ended ones.       *)
THEOREM OpenConnsAreTracked == Spec => []OpenConnsTracked
  <1>1. IInv => OpenConnsTracked
    <2>. SUFFICES ASSUME IInv PROVE OpenConnsTracked
      OBVIOUS
    <2>1. ASSUME NEW c \in OpenConns, c \notin activeConn
          PROVE  c \in AcceptedNow
      <3>1. c \in Conns /\ rw = c /\ serve # "stamp"
        BY <2>1 DEF OpenConns, IInv, ConnInv
      <3>2. serve = "accepted"
        BY <3>1, ConnsAssumption DEF IInv, ServeInv
      <3>. QED BY <3>1, <3>2 DEF AcceptedNow
    <2>2. \A c \in activeConn : pc[c] # "end"
      BY DEF IInv, TypeOK, SrvTypeOK, ConnTypeOK, ShutTypeOK, ConnInv
    <2>. QED BY <2>1, <2>2 DEF OpenConnsTracked
  <1>. QED BY <1>1, Invariance, PTL

(* closeIdleConns spares connections that have only just been accepted.    *)
THEOREM VictimsAreStale == Spec => []VictimWasStale
  <1>1. IInv => VictimWasStale
    <2>. SUFFICES ASSUME IInv, shut = "closeIdle"
                  PROVE  /\ pc[victim] # "none"
                         /\ curState[victim] = "new" => aged[victim]
      BY DEF VictimWasStale
    <2>1. /\ victim \in activeConn /\ curState[victim] # "zero"
          /\ curState[victim] = "new" => aged[victim]
      BY DEF IInv, ShutInv, ScanInv
    <2>. QED BY <2>1 DEF IInv, TypeOK, SrvTypeOK, ConnTypeOK, ShutTypeOK,
                         ConnInv
  <1>. QED BY <1>1, Invariance, PTL

(* When Shutdown returns without the context's error nobody accepts and at *)
(* most one connection is still open, whatever their number was.           *)
THEOREM ShutdownDrainsButOne == Spec => []DrainedButOne
  <1>1. IInv => DrainedButOne
    <2>. SUFFICES ASSUME IInv, shut \in {"ok", "lnErr"}
                  PROVE  /\ serve \notin AcceptLoop /\ rw = NoConn
                         /\ \A c, d \in OpenConns : c = d
      BY DEF DrainedButOne
    <2>1. serve \notin AcceptLoop /\ rw = NoConn
      BY DEF IInv, ServeInv, ShutInv, AcceptLoop
    <2>2. ASSUME NEW c \in OpenConns, NEW d \in OpenConns
          PROVE  c = d
      <3>1. /\ c \in Conns /\ d \in Conns
            /\ c \in activeConn /\ d \in activeConn
        BY <2>1, <2>2, ConnsAssumption DEF OpenConns, IInv, ConnInv
      <3>. QED BY <2>1, <3>1, ConnsAssumption DEF IInv, ScanInv
    <2>. QED BY <2>1, <2>2
  <1>. QED BY <1>1, Invariance, PTL

(* The serving call never returns with its socket open, and a listener     *)
(* closed by Shutdown is reported as ErrServerClosed.                      *)
THEOREM ServingReturnsClean == Spec => []CleanReturn
  <1>1. IInv => CleanReturn
    BY DEF IInv, ServeInv, CleanReturn
  <1>. QED BY <1>1, Invariance, PTL

(* No step accepts a connection once Shutdown has closed the listeners.    *)
THEOREM NothingAcceptedAfterClose == Spec => NoAcceptAfterClose
  <1>1. IInv /\ [Next]_vars
          => [doneClosed => \A c \in Conns :
                rwc[c] = "none" => rwc'[c] = "none"]_vars
    <2>. SUFFICES ASSUME IInv, Next, doneClosed, NEW c \in Conns,
                         rwc[c] = "none"
                  PROVE  rwc'[c] = "none"
      OBVIOUS
    <2>. USE DEF srvVars, serveVars, connVars, shutVars
    <2>a. /\ rwc \in [Conns -> SocketStates]
          /\ pc[c] = "none" /\ c \notin activeConn
      BY DEF IInv, TypeOK, SrvTypeOK, ConnTypeOK, ShutTypeOK, ConnInv
    <2>1. CASE ServeStep
      BY <2>1
      DEF ServeStep, CheckShuttingDown, Listen, LoadKeys, TrackListener,
          HandleAcceptError, BackoffEnds, TrackConn, StartConn,
          UntrackListener, CloseListener
    <2>2. ASSUME NEW d \in Conns, AcceptConn(d) PROVE FALSE
      BY <2>2 DEF AcceptConn, IInv, ServeInv, AcceptLoop
    <2>3. ASSUME NEW d \in Conns, ConnStep(d) PROVE rwc'[c] = "none"
      BY <2>3, <2>a
      DEF ConnStep, Handshake, ReadWire, ReadFails, ReadBuffered, SetActive,
          Handle, Crash, CloseConn, EndConn
    <2>4. CASE CloseIdle
      <3>1. victim \in activeConn BY <2>4 DEF CloseIdle, IInv, ShutInv, ScanInv
      <3>. QED BY <2>4, <3>1, <2>a DEF CloseIdle
    <2>5. ASSUME NEW d \in Conns, Age(d) \/ ScanConn(d)
          PROVE  rwc' = rwc
      BY <2>5 DEF Age, ScanConn
    <2>6. ASSUME NEW e \in {"temporary", "permanent", "closed"}, AcceptFails(e)
          PROVE  rwc' = rwc
      BY <2>6 DEF AcceptFails
    <2>7. ASSUME CallShutdown \/ CloseListeners \/ StartScan \/ EndScan
                   \/ NumListeners \/ Tick \/ SelectDone \/ Deadline
                   \/ Terminated
          PROVE  rwc' = rwc
      BY <2>7 DEF CallShutdown, CloseListeners, StartScan, EndScan,
                  NumListeners, Tick, SelectDone, Deadline, Terminated, vars
    <2>. QED BY <2>1, <2>2, <2>3, <2>4, <2>5, <2>6, <2>7
      DEF Next, ShutdownStep
  <1>. QED BY <1>1, Invariance, PTL DEF Spec, NoAcceptAfterClose

(* Which connections Shutdown interrupts.  ActiveUninterrupted, which the  *)
(* comment on Shutdown promises, fails; what is left of it is that         *)
(* closeIdleConns picks a connection that had not come to                  *)
(* setState(StateActive) when it loaded the state, and that nobody else    *)
(* closes a socket under a request.  It can interrupt a connection that    *)
(* becomes active between the two, and never one that was active before.   *)
OnlyNewConnsInterrupted ==
  [][\A c \in Conns :
       /\ victim' = c /\ victim # c => curState[c] = "new" /\ aged[c]
       /\ pc[c] = "handle" /\ rwc[c] = "open" /\ rwc'[c] # "open"
            => shut = "closeIdle" /\ victim = c]_vars

(* No setState of the program stores StateIdle.                            *)
NeverIdle == \A c \in Conns : curState[c] # "idle"

LEMMA NothingStoresIdle == Spec => []NeverIdle
  <1>1. Init => NeverIdle BY DEF Init, NeverIdle
  <1>2. ASSUME IInv, NeverIdle, [Next]_vars
        PROVE  NeverIdle'
    <2>. USE DEF NeverIdle
    <2>a. curState \in [Conns -> ConnStates]
      BY <1>2 DEF IInv, TypeOK, ConnTypeOK
    <2>1. CASE UNCHANGED curState BY <1>2, <2>1
    <2>2. CASE ServeStep
      BY <1>2, <2>1, <2>2, <2>a
      DEF ServeStep, CheckShuttingDown, Listen, LoadKeys, TrackListener,
          HandleAcceptError, BackoffEnds, TrackConn, StartConn,
          UntrackListener, CloseListener, connVars
    <2>3. ASSUME NEW c \in Conns, AcceptConn(c) \/ ConnStep(c) \/ Age(c)
          PROVE  NeverIdle'
      BY <1>2, <2>1, <2>3, <2>a
      DEF AcceptConn, Age, ConnStep, Handshake, ReadWire, ReadFails,
          ReadBuffered, SetActive, Handle, Crash, CloseConn, EndConn
    <2>4. CASE \/ \E e \in {"temporary", "permanent", "closed"} : AcceptFails(e)
               \/ CallShutdown \/ ShutdownStep \/ SelectDone \/ Deadline
      BY <2>1, <2>4
      DEF AcceptFails, CallShutdown, SelectDone, Deadline, ShutdownStep,
          CloseListeners, StartScan, ScanConn, CloseIdle, EndScan,
          NumListeners, Tick, connVars
    <2>. QED BY <1>2, <2>1, <2>2, <2>3, <2>4
             DEF Next, Terminated, vars, connVars
  <1>. QED BY <1>1, <1>2, Invariance, PTL DEF Spec

(* Shutdown closes nothing under a connection that was active when it      *)
(* looked.                                                                 *)
THEOREM ShutdownSparesActiveConns == Spec => OnlyNewConnsInterrupted
  <1>. DEFINE Spares(c) ==
         /\ victim' = c /\ victim # c => curState[c] = "new" /\ aged[c]
         /\ pc[c] = "handle" /\ rwc[c] = "open" /\ rwc'[c] # "open"
              => shut = "closeIdle" /\ victim = c
  <1>1. ASSUME IInv, NeverIdle, Next, NEW c \in Conns
        PROVE  Spares(c)
    <2>. USE DEF srvVars, serveVars, connVars, shutVars
    <2>a. /\ rwc \in [Conns -> SocketStates] /\ pc \in [Conns -> ConnLabels]
          /\ curState[c] # "idle" /\ c # NoConn
      BY <1>1, ConnsAssumption DEF IInv, TypeOK, ConnTypeOK, NeverIdle
    <2>1. CASE UNCHANGED <<victim, rwc>> BY <2>1
    <2>2. CASE ServeStep
      BY <2>1, <2>2
      DEF ServeStep, CheckShuttingDown, Listen, LoadKeys, TrackListener,
          HandleAcceptError, BackoffEnds, TrackConn, StartConn,
          UntrackListener, CloseListener
    <2>3. ASSUME NEW d \in Conns, AcceptConn(d) \/ ConnStep(d) \/ Age(d)
          PROVE  Spares(c)
      <3>1. CASE AcceptConn(d) BY <2>a, <3>1 DEF AcceptConn
      <3>2. CASE Handshake(d) BY <2>a, <3>2 DEF Handshake
      <3>3. CASE CloseConn(d) BY <2>a, <3>3 DEF CloseConn
      <3>. QED
        BY <2>1, <2>3, <3>1, <3>2, <3>3
        DEF ConnStep, ReadWire, ReadFails, ReadBuffered, SetActive, Handle,
            Crash, EndConn, Age
    <2>4. ASSUME NEW d \in Conns, ScanConn(d) PROVE Spares(c)
      BY <2>a, <2>4 DEF ScanConn, LooksIdle
    <2>5. CASE CloseIdle BY <2>a, <2>5 DEF CloseIdle
    <2>6. CASE \/ \E e \in {"temporary", "permanent", "closed"} : AcceptFails(e)
               \/ CallShutdown \/ CloseListeners \/ StartScan \/ EndScan
               \/ NumListeners \/ Tick \/ SelectDone \/ Deadline
               \/ Terminated
      BY <2>1, <2>6
      DEF AcceptFails, CallShutdown, CloseListeners, StartScan, EndScan,
          NumListeners, Tick, SelectDone, Deadline, Terminated, vars
    <2>. QED BY <1>1, <2>2, <2>3, <2>4, <2>5, <2>6 DEF Next, ShutdownStep
  <1>2. IInv /\ NeverIdle /\ [Next]_vars => [\A c \in Conns : Spares(c)]_vars
    BY <1>1
  <1>. QED BY <1>2, Invariance, NothingStoresIdle, PTL
           DEF Spec, OnlyNewConnsInterrupted

(* The refinement: what each step is at the level of the contract.         *)
ContractVars ==
  <<ServingPhase, lsock, ShutdownPhase, AcceptedConns, OpenConns>>

LEMMA ServeStepRefines ==
  ASSUME IInv, ServeStep
  PROVE  Contract!ContractNext \/ UNCHANGED ContractVars
  <1>. USE DEF ContractVars, ServingPhase, AcceptLoop, Unstarted, srvVars,
               connVars, shutVars
  <1>a. UNCHANGED <<ShutdownPhase, AcceptedConns, OpenConns>>
    BY DEF ServeStep, CheckShuttingDown, Listen, LoadKeys, TrackListener,
           HandleAcceptError, BackoffEnds, TrackConn, StartConn,
           UntrackListener, CloseListener, ShutdownPhase, AcceptedConns,
           OpenConns
  <1>1. CASE CheckShuttingDown
    <2>1. lsock = "none" BY <1>1 DEF CheckShuttingDown, IInv, ServeInv
    <2>2. CASE inShutdown
      <3>1. Contract!Return BY <1>1, <1>a, <2>1, <2>2
        DEF CheckShuttingDown, Contract!Return
      <3>. QED BY <3>1 DEF Contract!ContractNext
    <2>3. CASE ~inShutdown BY <1>1, <1>a, <2>3 DEF CheckShuttingDown
    <2>. QED BY <2>2, <2>3
  <1>2. CASE Listen
    <2>1. lsock = "none" BY <1>2 DEF Listen, IInv, ServeInv
    <2>2. Contract!Bind \/ Contract!Return
      BY <1>2, <1>a, <2>1 DEF Listen, Contract!Bind, Contract!Return
    <2>. QED BY <2>2 DEF Contract!ContractNext
  <1>3. CASE LoadKeys
    <2>1. Contract!Stop \/ UNCHANGED ContractVars
      BY <1>3, <1>a DEF LoadKeys, Contract!Stop
    <2>. QED BY <2>1 DEF Contract!ContractNext
  <1>4. CASE TrackListener
    <2>1. lsock = "open" BY <1>4 DEF TrackListener, IInv, ServeInv
    <2>2. ~inShutdown => ShutdownPhase = "no"
      BY DEF IInv, ShutInv, ShutdownPhase
    <2>3. Contract!Stop \/ Contract!Serve
      BY <1>4, <1>a, <2>1, <2>2
      DEF TrackListener, Contract!Stop, Contract!Serve
    <2>. QED BY <2>3 DEF Contract!ContractNext
  <1>5. CASE HandleAcceptError BY <1>5, <1>a DEF HandleAcceptError
  <1>6. CASE BackoffEnds BY <1>6, <1>a DEF BackoffEnds
  <1>7. CASE TrackConn BY <1>7, <1>a DEF TrackConn
  <1>8. CASE StartConn BY <1>8, <1>a DEF StartConn
  <1>9. CASE UntrackListener
    <2>1. Contract!Stop BY <1>9, <1>a DEF UntrackListener, Contract!Stop
    <2>. QED BY <2>1 DEF Contract!ContractNext
  <1>10. CASE CloseListener
    <2>1. Contract!Return BY <1>10, <1>a DEF CloseListener, Contract!Return
    <2>. QED BY <2>1 DEF Contract!ContractNext
  <1>. QED BY <1>1, <1>2, <1>3, <1>4, <1>5, <1>6, <1>7, <1>8, <1>9, <1>10
    DEF ServeStep

LEMMA ConnStepRefines ==
  ASSUME IInv, NEW c \in Conns, ConnStep(c) \/ AcceptConn(c) \/ Age(c)
  PROVE  Contract!ContractNext \/ UNCHANGED ContractVars
  <1>. USE DEF ContractVars, srvVars, serveVars, shutVars
  <1>a. /\ rwc \in [Conns -> SocketStates]
        /\ \A d \in Conns : pc[d] # "none" => rwc[d] # "none"
    BY DEF IInv, TypeOK, SrvTypeOK, ConnTypeOK, ShutTypeOK, ConnInv
  <1>1. CASE AcceptConn(c)
    <2>1. /\ AcceptedConns' = AcceptedConns \cup {c}
          /\ OpenConns' = OpenConns \cup {c}
      BY <1>1, <1>a DEF AcceptConn, AcceptedConns, OpenConns
    <2>2. c \notin AcceptedConns BY <1>1 DEF AcceptConn, AcceptedConns
    <2>3. UNCHANGED <<ServingPhase, ShutdownPhase>> /\ ServingPhase = "yes"
      BY <1>1 DEF AcceptConn, ServingPhase, ShutdownPhase, AcceptLoop,
                  Unstarted
    <2>4. Contract!Accept(c)
      BY <1>1, <2>1, <2>2, <2>3 DEF AcceptConn, Contract!Accept
    <2>. QED BY <2>4 DEF Contract!ContractNext
  <1>2. CASE ConnStep(c) \/ Age(c)
    <2>1. UNCHANGED <<ServingPhase, lsock, ShutdownPhase>>
      BY <1>2
      DEF ConnStep, Age, Handshake, ReadWire, ReadFails, ReadBuffered,
          SetActive, Handle, Crash, CloseConn, EndConn, ServingPhase,
          ShutdownPhase
    <2>2. \/ rwc' = rwc
          \/ rwc' = [rwc EXCEPT ![c] = "closed"] /\ rwc[c] # "none"
      BY <1>2, <1>a
      DEF ConnStep, Age, Handshake, ReadWire, ReadFails, ReadBuffered,
          SetActive, Handle, Crash, CloseConn, EndConn
    <2>3. /\ UNCHANGED AcceptedConns
          /\ \/ UNCHANGED OpenConns
             \/ c \in OpenConns /\ OpenConns' = OpenConns \ {c}
      BY <2>2, <1>a DEF AcceptedConns, OpenConns
    <2>4. Contract!HangUp(c) \/ UNCHANGED ContractVars
      BY <2>1, <2>3 DEF Contract!HangUp
    <2>. QED BY <2>4 DEF Contract!ContractNext
  <1>. QED BY <1>1, <1>2

LEMMA ShutdownStepRefines ==
  ASSUME IInv, ShutdownStep \/ CallShutdown \/ SelectDone \/ Deadline
  PROVE  Contract!ContractNext \/ UNCHANGED ContractVars
  <1>. USE DEF ContractVars, ShutdownPhase, srvVars, serveVars, connVars
  <1>1. CASE CallShutdown
    <2>1. Contract!Call
      BY <1>1 DEF CallShutdown, Contract!Call, ServingPhase, AcceptedConns,
                  OpenConns
    <2>. QED BY <2>1 DEF Contract!ContractNext
  <1>2. CASE CloseListeners
    <2>1. UNCHANGED <<ServingPhase, AcceptedConns, OpenConns>>
      BY <1>2 DEF CloseListeners, ServingPhase, AcceptedConns, OpenConns
    <2>2. tracked <=> ServingPhase = "yes"
      BY DEF IInv, TypeOK, SrvTypeOK, ConnTypeOK, ShutTypeOK, ServeInv,
             ServeLabels, ServingPhase, AcceptLoop, Unstarted
    <2>3. Contract!StopListening
      BY <1>2, <2>1, <2>2 DEF CloseListeners, Contract!StopListening
    <2>. QED BY <2>3 DEF Contract!ContractNext
  <1>3. CASE CloseIdle
    <2>1. /\ UNCHANGED <<ServingPhase, lsock, ShutdownPhase>>
          /\ rwc' = [rwc EXCEPT ![victim] = "closed"]
      BY <1>3 DEF CloseIdle, ServingPhase
    <2>2. /\ victim \in Conns /\ rwc[victim] # "none"
          /\ rwc \in [Conns -> SocketStates]
      BY <1>3 DEF CloseIdle, IInv, TypeOK, SrvTypeOK, ConnTypeOK, ShutTypeOK,
                  ShutInv, ScanInv, ConnInv
    <2>3. /\ UNCHANGED AcceptedConns
          /\ \/ UNCHANGED OpenConns
             \/ victim \in OpenConns /\ OpenConns' = OpenConns \ {victim}
      BY <2>1, <2>2 DEF AcceptedConns, OpenConns
    <2>4. Contract!HangUp(victim) \/ UNCHANGED ContractVars
      BY <2>1, <2>3 DEF Contract!HangUp
    <2>. QED BY <2>2, <2>4 DEF Contract!ContractNext
  <1>4. CASE NumListeners
    <2>1. UNCHANGED <<ServingPhase, lsock, AcceptedConns, OpenConns>>
      BY <1>4 DEF NumListeners, ServingPhase, AcceptedConns, OpenConns
    <2>2. CASE tracked BY <1>4, <2>1, <2>2 DEF NumListeners
    <2>3. CASE ~tracked
      <3>1. ServingPhase # "yes"
        BY <2>3 DEF IInv, ServeInv, TypeOK, SrvTypeOK, ConnTypeOK, ShutTypeOK,
                    ServeLabels, ServingPhase, AcceptLoop, Unstarted
      <3>2. rw = NoConn BY <2>3 DEF IInv, ServeInv, AcceptLoop
      <3>3. OpenConns \subseteq activeConn \cap Conns
        BY <3>2, ConnsAssumption DEF OpenConns, IInv, ConnInv
      <3>4. Contract!AtMostOne(OpenConns)
        BY <1>4, <3>3, ConnsAssumption
        DEF NumListeners, IInv, ScanInv, Contract!AtMostOne
      <3>5. Contract!Drained
        BY <1>4, <2>1, <2>3, <3>1, <3>4 DEF NumListeners, Contract!Drained
      <3>. QED BY <3>5 DEF Contract!ContractNext
    <2>. QED BY <2>2, <2>3
  <1>5. CASE SelectDone
    <2>1. Contract!Expire
      BY <1>5 DEF SelectDone, Contract!Expire, ServingPhase, AcceptedConns,
                  OpenConns
    <2>. QED BY <2>1 DEF Contract!ContractNext
  <1>6. CASE StartScan \/ EndScan \/ Tick \/ Deadline
    BY <1>6 DEF StartScan, EndScan, Tick, Deadline, ServingPhase,
                AcceptedConns, OpenConns
  <1>7. ASSUME NEW c \in Conns, ScanConn(c) PROVE UNCHANGED ContractVars
    BY <1>7 DEF ScanConn, ServingPhase, AcceptedConns, OpenConns
  <1>. QED BY <1>1, <1>2, <1>3, <1>4, <1>5, <1>6, <1>7 DEF ShutdownStep

(* The server implements the contract, whatever the number of connections. *)
THEOREM Refinement == Spec => ImplementsContract
  <1>1. Init => Contract!ContractInit
    BY DEF Init, Contract!ContractInit, ServingPhase, ShutdownPhase,
           AcceptedConns, OpenConns, Unstarted, AcceptLoop
  <1>2. IInv /\ [Next]_vars => [Contract!ContractNext]_(Contract!contractVars)
    <2>. SUFFICES ASSUME IInv, [Next]_vars
                  PROVE  Contract!ContractNext \/ UNCHANGED ContractVars
      BY DEF ContractVars, Contract!contractVars
    <2>1. ASSUME NEW e \in {"temporary", "permanent", "closed"}, AcceptFails(e)
          PROVE  UNCHANGED ContractVars
      BY <2>1 DEF AcceptFails, ContractVars, ServingPhase, ShutdownPhase,
                  AcceptedConns, OpenConns, AcceptLoop, Unstarted, srvVars,
                  connVars, shutVars
    <2>2. CASE Terminated \/ UNCHANGED vars
      BY <2>2 DEF Terminated, vars, ContractVars, ServingPhase, ShutdownPhase,
                  AcceptedConns, OpenConns, srvVars, serveVars, connVars,
                  shutVars
    <2>. QED
      BY <2>1, <2>2, ServeStepRefines, ConnStepRefines, ShutdownStepRefines
      DEF Next
  <1>. QED BY <1>1, <1>2, Invariance, PTL
    DEF Spec, ImplementsContract, Contract!ContractSpec

(* What the server's owner sees of it: the contract without connections,   *)
(* which is the instance that ServerRuntime puts in the server's place.    *)
Owner == INSTANCE ServerContract WITH
  Conns <- {}, serving <- ServingPhase, listener <- lsock,
  shutdown <- ShutdownPhase, accepted <- {}, open <- {}

ImplementsOwnersView == Owner!ContractSpec

OwnerVars == <<ServingPhase, lsock, ShutdownPhase>>

(* The server, seen without its connections, keeps the owner's contract.   *)
THEOREM OwnersView == Spec => ImplementsOwnersView
  <1>1. Contract!ContractInit => Owner!ContractInit
    BY DEF Contract!ContractInit, Owner!ContractInit
  <1>2. [Contract!ContractNext]_(Contract!contractVars)
          => [Owner!ContractNext]_(Owner!contractVars)
    <2>. SUFFICES ASSUME [Contract!ContractNext]_(Contract!contractVars)
                  PROVE  Owner!ContractNext \/ UNCHANGED OwnerVars
      BY DEF Owner!contractVars, OwnerVars
    <2>1. CASE UNCHANGED Contract!contractVars
      BY <2>1 DEF Contract!contractVars, OwnerVars
    <2>2. ASSUME NEW c \in Conns, Contract!Accept(c) \/ Contract!HangUp(c)
          PROVE  UNCHANGED OwnerVars
      BY <2>2 DEF Contract!Accept, Contract!HangUp, OwnerVars
    <2>3. CASE Contract!Bind
      <3>1. Owner!Bind BY <2>3 DEF Contract!Bind, Owner!Bind
      <3>. QED BY <3>1 DEF Owner!ContractNext
    <2>4. CASE Contract!Serve
      <3>1. Owner!Serve BY <2>4 DEF Contract!Serve, Owner!Serve
      <3>. QED BY <3>1 DEF Owner!ContractNext
    <2>5. CASE Contract!Stop
      <3>1. Owner!Stop BY <2>5 DEF Contract!Stop, Owner!Stop
      <3>. QED BY <3>1 DEF Owner!ContractNext
    <2>6. CASE Contract!Return
      <3>1. Owner!Return BY <2>6 DEF Contract!Return, Owner!Return
      <3>. QED BY <3>1 DEF Owner!ContractNext
    <2>7. CASE Contract!Call
      <3>1. Owner!Call BY <2>7 DEF Contract!Call, Owner!Call
      <3>. QED BY <3>1 DEF Owner!ContractNext
    <2>8. CASE Contract!StopListening
      <3>1. Owner!StopListening
        BY <2>8 DEF Contract!StopListening, Owner!StopListening
      <3>. QED BY <3>1 DEF Owner!ContractNext
    <2>9. CASE Contract!Drained
      <3>1. Owner!Drained
        BY <2>9 DEF Contract!Drained, Owner!Drained, Owner!AtMostOne
      <3>. QED BY <3>1 DEF Owner!ContractNext
    <2>10. CASE Contract!Expire
      <3>1. Owner!Expire BY <2>10 DEF Contract!Expire, Owner!Expire
      <3>. QED BY <3>1 DEF Owner!ContractNext
    <2>. QED
      BY <2>1, <2>2, <2>3, <2>4, <2>5, <2>6, <2>7, <2>8, <2>9, <2>10
      DEF Contract!ContractNext
  <1>. QED
    BY <1>1, <1>2, Refinement, PTL
    DEF ImplementsContract, Contract!ContractSpec, ImplementsOwnersView,
        Owner!ContractSpec

-----------------------------------------------------------------------------
(* The lives of the connections, as ConnLife has them.                     *)
LifeMap == [c \in Conns |-> LifeOf(c)]

(* A goroutine that goes from one label to another makes the move that     *)
(* belongs to them, or none.                                               *)
LEMMA LabelMoves ==
  ASSUME TypeOK, NEW c \in Conns, NEW l \in ConnLabels,
         pc' = [pc EXCEPT ![c] = l], ~crashed, crashed' = crashed,
         \/ pc[c] \in {"none", "handshake"} /\ l \in {"handshake", "read", "close"}
         \/ pc[c] \in {"read", "store"}
              /\ l \in {"read", "store", "handle", "close"}
         \/ pc[c] = "handle" /\ l \in {"read", "close"}
         \/ pc[c] = "close" /\ l = "untrack"
         \/ pc[c] = "untrack" /\ l = "end"
  PROVE  Life!LifeNext \/ UNCHANGED <<LifeMap, crashed>>
  <1>. DEFINE to == LifeOf(c)'
  <1>1. pc \in [Conns -> ConnLabels] BY DEF TypeOK, ConnTypeOK
  <1>2. \A d \in Conns : LifeOf(d)' = IF d = c THEN to ELSE LifeOf(d)
    <2>. SUFFICES ASSUME NEW d \in Conns, d # c PROVE LifeOf(d)' = LifeOf(d)
      OBVIOUS
    <2>1. pc'[d] = pc[d] BY <1>1
    <2>. QED BY <2>1 DEF LifeOf
  <1>3. pc'[c] = l BY <1>1
  <1>4. \/ to = LifeOf(c)
        \/ LifeOf(c) = "setup" /\ to = "waiting"
        \/ LifeOf(c) = "waiting" /\ to = "handling"
        \/ LifeOf(c) = "handling" /\ to = "waiting"
        \/ LifeOf(c) \in {"setup", "waiting", "handling"} /\ to = "closing"
        \/ LifeOf(c) = "closing" /\ to = "ended"
    BY <1>3 DEF LifeOf
  <1>. HIDE DEF to
  <1>5. LifeMap' = [LifeMap EXCEPT ![c] = to] BY <1>2 DEF LifeMap
  <1>6. LifeMap[c] = LifeOf(c) BY DEF LifeMap
  <1>7. to = LifeOf(c) => LifeMap' = LifeMap BY <1>5, <1>6 DEF LifeMap
  <1>8. CASE to = LifeOf(c) BY <1>7, <1>8
  <1>9. CASE to # LifeOf(c)
    <2>1. \/ Life!Ready(c) \/ Life!Receive(c) \/ Life!Answered(c)
          \/ Life!Leave(c) \/ Life!End(c)
      BY <1>4, <1>5, <1>6, <1>9
      DEF LifeMap, Life!Move, Life!Ready, Life!Receive, Life!Answered,
          Life!Leave, Life!End
    <2>. QED BY <2>1 DEF Life!LifeNext
  <1>. QED BY <1>8, <1>9

LEMMA LifeStepRefines ==
  ASSUME IInv, [Next]_vars
  PROVE  Life!LifeNext \/ UNCHANGED <<LifeMap, crashed>>
  <1>. USE DEF srvVars, serveVars, connVars, shutVars
  <1>0. UNCHANGED <<pc, crashed>> => UNCHANGED <<LifeMap, crashed>>
    BY DEF LifeMap, LifeOf
  <1>1. ASSUME NEW c \in Conns, ConnStep(c)
        PROVE  Life!LifeNext \/ UNCHANGED <<LifeMap, crashed>>
    <2>1. CASE Crash(c)
      <3>1. LifeMap' = LifeMap BY <2>1 DEF Crash, LifeMap, LifeOf
      <3>2. LifeMap[c] = "handling" BY <2>1 DEF Crash, LifeMap, LifeOf
      <3>3. Life!Crash(c)
        BY <2>1, <3>1, <3>2 DEF Crash, LifeMap, Life!Crash
      <3>. QED BY <3>3 DEF Life!LifeNext
    <2>2. CASE ~Crash(c)
      <3>1. ~crashed /\ crashed' = crashed
        BY <1>1, <2>2 DEF ConnStep, Handshake, ReadWire, ReadFails,
          ReadBuffered, SetActive, Handle, CloseConn, EndConn
      <3>2. next[c] \in {"read", "handle", "close"} \/ pc[c] # "store"
        BY DEF IInv, TypeOK, ConnTypeOK, ConnInv
      <3>3. \E l \in ConnLabels :
              /\ pc' = [pc EXCEPT ![c] = l]
              /\ \/ pc[c] \in {"none", "handshake"}
                      /\ l \in {"handshake", "read", "close"}
                 \/ pc[c] \in {"read", "store"}
                      /\ l \in {"read", "store", "handle", "close"}
                 \/ pc[c] = "handle" /\ l \in {"read", "close"}
                 \/ pc[c] = "close" /\ l = "untrack"
                 \/ pc[c] = "untrack" /\ l = "end"
        BY <1>1, <2>2, <3>2 DEF ConnStep, Handshake, ReadWire, ReadFails,
          ReadBuffered, SetActive, Handle, CloseConn, EndConn, ConnLabels
      <3>. QED BY <3>1, <3>3, LabelMoves DEF IInv
    <2>. QED BY <2>1, <2>2
  <1>2. CASE StartConn
    <2>1. rw \in Conns /\ pc[rw] = "none"
      BY <1>2 DEF StartConn, IInv, TypeOK, SrvTypeOK, ServeInv, ConnInv
    <2>2. \E l \in {"handshake", "read"} : pc' = [pc EXCEPT ![rw] = l]
      BY <1>2 DEF StartConn
    <2>3. ~crashed /\ crashed' = crashed BY <1>2 DEF StartConn
    <2>. QED BY <2>1, <2>2, <2>3, LabelMoves DEF IInv, ConnLabels
  <1>3. ASSUME NEW c \in Conns, AcceptConn(c) \/ Age(c) \/ ScanConn(c)
        PROVE  UNCHANGED <<pc, crashed>>
    BY <1>3 DEF AcceptConn, Age, ScanConn
  <1>4. ASSUME NEW e \in {"temporary", "permanent", "closed"}, AcceptFails(e)
        PROVE  UNCHANGED <<pc, crashed>>
    BY <1>4 DEF AcceptFails
  <1>5. ASSUME ServeStep, ~StartConn PROVE UNCHANGED <<pc, crashed>>
    BY <1>5 DEF ServeStep, CheckShuttingDown, Listen, LoadKeys, TrackListener,
                HandleAcceptError, BackoffEnds, TrackConn, UntrackListener,
                CloseListener
  <1>6. ASSUME CallShutdown \/ CloseListeners \/ StartScan \/ CloseIdle
                 \/ EndScan \/ NumListeners \/ Tick \/ SelectDone \/ Deadline
                 \/ Terminated \/ UNCHANGED vars
        PROVE  UNCHANGED <<pc, crashed>>
    BY <1>6 DEF CallShutdown, CloseListeners, StartScan, CloseIdle, EndScan,
                NumListeners, Tick, SelectDone, Deadline, Terminated, vars
  <1>. QED BY <1>0, <1>1, <1>2, <1>3, <1>4, <1>5, <1>6 DEF Next, ShutdownStep

(* The connections of the server live as ConnLife says.                    *)
THEOREM LivesAreKept == Spec => ImplementsConnLife
  <1>1. Init => Life!LifeInit
    <2>1. Init => LifeMap = [c \in Conns |-> "setup"]
      BY DEF Init, LifeMap, LifeOf
    <2>. QED BY <2>1 DEF Init, LifeMap, Life!LifeInit
  <1>2. IInv /\ [Next]_vars => [Life!LifeNext]_(Life!lifeVars)
    BY LifeStepRefines DEF LifeMap, Life!lifeVars
  <1>. QED BY <1>1, <1>2, Invariance, PTL
    DEF Spec, ImplementsConnLife, Life!LifeSpec

-----------------------------------------------------------------------------
(* Nobody is stuck.  The provers leave ENABLED A as it is, so that a guard *)
(* suffices for its action is a hypothesis; that the guards hold when      *)
(* somebody waits is proved.                                               *)

(* s.mu is held only in closeIdleConns, whose loop can always go on;       *)
(* nothing but s.mu and Accept holds anybody up; and a listener that is    *)
(* being served is closed when Shutdown has returned.                      *)
LEMMA EverybodyCanGoOn ==
  ASSUME IInv
  PROVE  CanGoOn
  <1>1. ShutBusy \/ muHeld => CanShutdownStep
    BY DEF IInv, TypeOK, ShutTypeOK, ShutInv, ShutLabels, ShutBusy, Returned,
           CanShutdownStep
  <1>2. shut \in Returned /\ serve = "accept" => CanAcceptFail
    BY DEF IInv, ServeInv, ShutInv, AcceptLoop, Returned, CanAcceptFail
  <1>3. ~muHeld /\ serve \notin {"accept", "returned"} => CanServeStep
    BY DEF IInv, TypeOK, SrvTypeOK, ServeLabels, CanServeStep
  <1>4. ASSUME ~muHeld, NEW c \in Conns, pc[c] \notin {"none", "end"}
        PROVE  CanConnStep(c)
    <2>1. pc[c] \in ConnLabels BY DEF IInv, TypeOK, ConnTypeOK
    <2>. QED BY <1>4, <2>1 DEF ConnLabels, CanConnStep
  <1>. QED BY <1>1, <1>2, <1>3, <1>4 DEF CanGoOn

(* The shutdown loop, the serving goroutine and the connections never wait *)
(* for what cannot come.                                                   *)
THEOREM NobodyIsStuck ==
  Spec => []CanGoOn /\ ([]GuardsSuffice => []NobodyStuck)
  <1>1. IInv => CanGoOn BY EverybodyCanGoOn
  <1>2. CanGoOn /\ GuardsSuffice => NobodyStuck BY DEF NobodyStuck
  <1>. QED BY <1>1, <1>2, Invariance, PTL

-----------------------------------------------------------------------------
(* Liveness.  What a fair action needs to be enabled is what NobodyStuck   *)
(* says of its guard.                                                      *)

(* Shutdown has returned and the serving goroutine is at l.                *)
ShutOver   == shut \in Returned
ServeAt(l) == ~crashed /\ ShutOver /\ serve = l
ServeOver  == serve = "returned" \/ crashed

(* Where it goes from there: s.mu is free, inShutdown and doneChan are     *)
(* set, and a listener that is being served is closed.                     *)
After(l) ==
  CASE l \in {"start", "closeListener"} -> {"returned"}
    [] l = "listen"                     -> {"loadKeys", "track", "returned"}
    [] l = "loadKeys"                   -> {"track", "closeListener"}
    [] l \in {"track", "untrack"}       -> {"closeListener"}
    [] l = "accepted"                   -> {"stamp"}
    [] l \in {"stamp", "backoff"}       -> {"accept"}
    [] l = "accept"                     -> {"acceptErr"}
    [] l = "acceptErr"                  -> {"untrack"}
Then(l) == ServeOver \/ \E k \in After(l) : ServeAt(k)

OnTheWay == ServeLabels \ {"returned"}

LEMMA ShutdownStaysOver ==
  ASSUME IInv, [Next]_vars
  PROVE  /\ ShutOver => ShutOver'
         /\ crashed => crashed'
         /\ serve = "returned" => serve' = "returned"
  <1>. USE DEF ShutOver, Returned
  <1>1. CASE UNCHANGED <<shut, crashed, serve>> BY <1>1
  <1>2. CASE ServeStep
    BY <1>2
    DEF ServeStep, CheckShuttingDown, Listen, LoadKeys, TrackListener,
        HandleAcceptError, BackoffEnds, TrackConn, StartConn,
        UntrackListener, CloseListener, connVars, shutVars
  <1>3. ASSUME NEW c \in Conns, AcceptConn(c) \/ ConnStep(c) \/ Age(c)
        PROVE  /\ ShutOver => ShutOver'
               /\ crashed => crashed'
               /\ serve = "returned" => serve' = "returned"
    BY <1>3
    DEF AcceptConn, Age, ConnStep, Handshake, ReadWire, ReadFails,
        ReadBuffered, SetActive, Handle, Crash, CloseConn, EndConn,
        serveVars, shutVars
  <1>4. CASE \E e \in {"temporary", "permanent", "closed"} : AcceptFails(e)
    BY <1>4 DEF AcceptFails, connVars, shutVars
  <1>5. CASE CallShutdown \/ ShutdownStep \/ SelectDone \/ Deadline
    BY <1>5
    DEF CallShutdown, SelectDone, Deadline, ShutdownStep, CloseListeners,
        StartScan, ScanConn, CloseIdle, EndScan, NumListeners, Tick,
        serveVars, connVars
  <1>. QED BY <1>1, <1>2, <1>3, <1>4, <1>5
           DEF Next, Terminated, vars, serveVars, connVars, shutVars

LEMMA ServeMoves ==
  ASSUME IInv, NEW l \in OnTheWay, ServeAt(l),
         ServeStep \/ (\E e \in {"temporary", "permanent", "closed"} :
                         AcceptFails(e))
  PROVE  Then(l)'
  <1>. USE DEF ServeAt, Then, After, ServeOver, ShutOver
  <1>a. ~muHeld /\ inShutdown /\ doneClosed
    BY DEF IInv, ShutInv, Returned
  <1>b. UNCHANGED <<shut, crashed>>
    BY DEF ServeStep, CheckShuttingDown, Listen, LoadKeys, TrackListener,
           HandleAcceptError, BackoffEnds, TrackConn, StartConn,
           UntrackListener, CloseListener, AcceptFails, connVars, shutVars
  <1>1. CASE ServeStep
    BY <1>1, <1>a, <1>b
    DEF ServeStep, CheckShuttingDown, Listen, LoadKeys, TrackListener,
        HandleAcceptError, BackoffEnds, TrackConn, StartConn,
        UntrackListener, CloseListener
  <1>2. CASE \E e \in {"temporary", "permanent", "closed"} : AcceptFails(e)
    BY <1>2, <1>b DEF AcceptFails
  <1>. QED BY <1>1, <1>2

LEMMA ServeAdvances ==
  ASSUME IInv, [Next]_vars, NEW l \in OnTheWay
  PROVE  ServeAt(l) => ServeAt(l)' \/ Then(l)'
  <1>. SUFFICES ASSUME ServeAt(l)
                PROVE  ServeAt(l)' \/ Then(l)'
    OBVIOUS
  <1>1. ShutOver' /\ ~crashed BY ShutdownStaysOver DEF ServeAt
  <1>2. CASE serve' = serve
    BY <1>1, <1>2 DEF ServeAt, Then, ServeOver
  <1>3. CASE \/ ServeStep
             \/ \E e \in {"temporary", "permanent", "closed"} : AcceptFails(e)
    BY <1>3, ServeMoves
  <1>4. ASSUME NEW c \in Conns, AcceptConn(c) \/ ConnStep(c) \/ Age(c)
        PROVE  serve' = serve
    <2>1. ~AcceptConn(c)
      BY DEF ServeAt, ShutOver, Returned, IInv, ServeInv, ShutInv, AcceptLoop,
             AcceptConn
    <2>. QED
      BY <1>4, <2>1
      DEF Age, ConnStep, Handshake, ReadWire, ReadFails, ReadBuffered,
          SetActive, Handle, Crash, CloseConn, EndConn, serveVars
  <1>5. CASE CallShutdown \/ ShutdownStep \/ SelectDone \/ Deadline
    BY <1>2, <1>5
    DEF CallShutdown, SelectDone, Deadline, ShutdownStep, CloseListeners,
        StartScan, ScanConn, CloseIdle, EndScan, NumListeners, Tick, serveVars
  <1>. QED BY <1>2, <1>3, <1>4, <1>5 DEF Next, Terminated, vars, serveVars

LEMMA ServeEnabled ==
  ASSUME IInv, NobodyStuck, NEW l \in OnTheWay, ServeAt(l)
  PROVE  IF l = "accept" THEN ENABLED <<AcceptFails("closed")>>_vars
         ELSE ENABLED <<ServeStep>>_vars
  BY DEF NobodyStuck, GuardsSuffice, CanGoOn, ServeAt, ShutOver, Returned,
         OnTheWay, IInv, ShutInv

(* Temporal formulas that the lemmas instantiate by their names.           *)
System      == []IInv /\ [][Next]_vars /\ []NobodyStuck
ServeRuns   == System /\ WF_vars(ServeStep) /\ WF_vars(AcceptFails("closed"))
LeadsOn(l)  == ServeAt(l) ~> Then(l)
ServingEnds == ShutOver ~> ServeOver

LEMMA ServeLeadsOn ==
  ASSUME NEW l \in OnTheWay
  PROVE  ServeRuns => LeadsOn(l)
  <1>1. IInv /\ [Next]_vars => (ServeAt(l) => ServeAt(l)' \/ Then(l)')
    BY ServeAdvances
  <1>2. CASE l = "accept"
    <2>1. IInv /\ AcceptFails("closed") /\ ServeAt(l) => Then(l)'
      BY ServeMoves
    <2>2. IInv /\ NobodyStuck /\ ServeAt(l)
            => ENABLED <<AcceptFails("closed")>>_vars
      BY <1>2, ServeEnabled
    <2>. QED BY <1>1, <2>1, <2>2, PTL DEF ServeRuns, System, LeadsOn
  <1>3. CASE l # "accept"
    <2>1. IInv /\ ServeStep /\ ServeAt(l) => Then(l)'
      BY ServeMoves
    <2>2. IInv /\ NobodyStuck /\ ServeAt(l) => ENABLED <<ServeStep>>_vars
      BY <1>3, ServeEnabled
    <2>. QED BY <1>1, <2>1, <2>2, PTL DEF ServeRuns, System, LeadsOn
  <1>. QED BY <1>2, <1>3

(* Once Shutdown has returned the serving call does, from wherever it is.  *)
LEMMA ServingEndsAfterShutdown == ServeRuns => ServingEnds
  <1>1. /\ ServeRuns => LeadsOn("start")
        /\ ServeRuns => LeadsOn("listen")
        /\ ServeRuns => LeadsOn("loadKeys")
        /\ ServeRuns => LeadsOn("track")
        /\ ServeRuns => LeadsOn("accept")
        /\ ServeRuns => LeadsOn("accepted")
    BY ServeLeadsOn DEF OnTheWay, ServeLabels
  <1>2. /\ ServeRuns => LeadsOn("stamp")
        /\ ServeRuns => LeadsOn("acceptErr")
        /\ ServeRuns => LeadsOn("backoff")
        /\ ServeRuns => LeadsOn("untrack")
        /\ ServeRuns => LeadsOn("closeListener")
    BY ServeLeadsOn DEF OnTheWay, ServeLabels
  <1>3. ServeAt("returned") => ServeOver BY DEF ServeAt, ServeOver
  <1>4. /\ Then("start") => ServeOver
        /\ Then("listen")
             => ServeOver \/ ServeAt("loadKeys") \/ ServeAt("track")
        /\ Then("loadKeys")
             => ServeOver \/ ServeAt("track") \/ ServeAt("closeListener")
        /\ Then("track") => ServeOver \/ ServeAt("closeListener")
        /\ Then("accept") => ServeOver \/ ServeAt("acceptErr")
        /\ Then("accepted") => ServeOver \/ ServeAt("stamp")
        /\ Then("stamp") => ServeOver \/ ServeAt("accept")
        /\ Then("acceptErr") => ServeOver \/ ServeAt("untrack")
        /\ Then("backoff") => ServeOver \/ ServeAt("accept")
        /\ Then("untrack") => ServeOver \/ ServeAt("closeListener")
        /\ Then("closeListener") => ServeOver
    BY <1>3 DEF Then, After
  <1>5. IInv /\ ShutOver
          => \/ ServeOver \/ ServeAt("start") \/ ServeAt("listen")
             \/ ServeAt("loadKeys") \/ ServeAt("track") \/ ServeAt("accept")
             \/ ServeAt("accepted") \/ ServeAt("stamp")
             \/ ServeAt("acceptErr") \/ ServeAt("backoff")
             \/ ServeAt("untrack") \/ ServeAt("closeListener")
    BY DEF IInv, TypeOK, SrvTypeOK, ServeLabels, ServeAt, ServeOver
  <1>. QED
    BY <1>1, <1>2, <1>4, <1>5, PTL DEF ServeRuns, System, LeadsOn, ServingEnds

(* The shutdown loop.                                                      *)
Dead      == crashed
ShutAt(l) == ~crashed /\ shut = l
Scanning  == ShutAt("scan") \/ ShutAt("closeIdle")
Called    == shut # "idle"
Busy      == ~crashed /\ shut \notin {"idle"} \cup Returned
Expired   == ctxDone

LEMMA NumListenersDecides ==
  ASSUME IInv, NumListeners
  PROVE  shut = "numListeners" /\ shut' \in {"wait", "lnErr", "ok"}
  <1>. tracked \in BOOLEAN /\ lnerr \in BOOLEAN
    BY DEF IInv, TypeOK, SrvTypeOK, ShutTypeOK
  <1>1. CASE tracked BY <1>1 DEF NumListeners
  <1>2. CASE ~tracked /\ lnerr BY <1>2 DEF NumListeners
  <1>3. CASE ~tracked /\ ~lnerr BY <1>3 DEF NumListeners
  <1>. QED BY <1>1, <1>2, <1>3

LEMMA ShutdownAdvances ==
  ASSUME IInv, [Next]_vars
  PROVE  /\ ShutAt("closeListeners")
              => ShutAt("closeListeners")' \/ ShutAt("poll")' \/ Dead'
         /\ ShutAt("poll") => ShutAt("poll")' \/ Scanning' \/ Dead'
         /\ ShutAt("numListeners")
              => \/ ShutAt("numListeners")' \/ ShutAt("wait")'
                 \/ ShutOver' \/ Dead'
         /\ ShutAt("wait")
              => ShutAt("wait")' \/ ShutAt("poll")' \/ ShutOver' \/ Dead'
         /\ Scanning
              => \/ Scanning' \/ ShutAt("numListeners")'
                 \/ ShutAt("wait")' \/ Dead'
         /\ ShutOver => ShutOver'
         /\ Dead => Dead'
         /\ Expired => Expired'
  <1>. USE DEF ShutAt, Scanning, ShutOver, Dead, Expired, Returned
  <1>1. CASE UNCHANGED <<shut, ctxDone, crashed>> BY <1>1
  <1>2. CASE ServeStep
    BY <1>2
    DEF ServeStep, CheckShuttingDown, Listen, LoadKeys, TrackListener,
        HandleAcceptError, BackoffEnds, TrackConn, StartConn,
        UntrackListener, CloseListener, connVars, shutVars
  <1>3. ASSUME NEW c \in Conns, AcceptConn(c) \/ ConnStep(c) \/ Age(c)
        PROVE  UNCHANGED <<shut, ctxDone>> /\ (crashed => crashed')
    BY <1>3
    DEF AcceptConn, Age, ConnStep, Handshake, ReadWire, ReadFails,
        ReadBuffered, SetActive, Handle, Crash, CloseConn, EndConn, shutVars
  <1>4. CASE \E e \in {"temporary", "permanent", "closed"} : AcceptFails(e)
    BY <1>4 DEF AcceptFails, connVars, shutVars
  <1>5. CASE CallShutdown \/ ShutdownStep \/ SelectDone \/ Deadline
    <2>. USE DEF connVars
    <2>1. CASE NumListeners
      BY <2>1, NumListenersDecides DEF NumListeners
    <2>2. ASSUME NEW c \in Conns, ScanConn(c)
          PROVE  /\ shut = "scan" /\ shut' \in {"scan", "closeIdle"}
                 /\ UNCHANGED <<crashed, ctxDone>>
      BY <2>2 DEF ScanConn
    <2>3. CASE \E c \in Conns : ScanConn(c) BY <2>2, <2>3
    <2>4. CASE StartScan \/ CloseIdle \/ EndScan
      BY <2>4 DEF StartScan, CloseIdle, EndScan
    <2>5. CASE CloseListeners
      <3>1. /\ shut = "closeListeners" /\ shut' = "poll"
            /\ UNCHANGED <<crashed, ctxDone>>
        BY <2>5 DEF CloseListeners
      <3>. QED BY <3>1
    <2>7. CASE Tick BY <2>7 DEF Tick
    <2>6. CASE CallShutdown \/ SelectDone \/ Deadline
      BY <2>6 DEF CallShutdown, SelectDone, Deadline
    <2>. QED BY <1>5, <2>1, <2>3, <2>4, <2>5, <2>6, <2>7 DEF ShutdownStep
  <1>. QED BY <1>1, <1>2, <1>3, <1>4, <1>5
           DEF Next, Terminated, vars, connVars, shutVars

LEMMA ShutdownSteps ==
  ASSUME IInv
  PROVE  /\ ShutdownStep /\ ShutAt("closeListeners") => ShutAt("poll")'
         /\ ShutdownStep /\ ShutAt("poll") => Scanning'
         /\ ShutdownStep /\ ShutAt("numListeners")
              => ShutAt("wait")' \/ ShutOver'
         /\ SelectDone => ShutOver'
         /\ Deadline => Expired'
  <1>. USE DEF ShutAt, ShutOver, Returned, connVars
  <1>1. ShutdownStep /\ ShutAt("closeListeners") => ShutAt("poll")'
    BY DEF ShutdownStep, CloseListeners, StartScan, ScanConn, CloseIdle,
           EndScan, NumListeners, Tick
  <1>2. ShutdownStep /\ ShutAt("poll") => Scanning'
    BY DEF ShutdownStep, CloseListeners, StartScan, ScanConn, CloseIdle,
           EndScan, NumListeners, Tick, Scanning
  <1>3. ShutdownStep /\ ShutAt("numListeners") => ShutAt("wait")' \/ ShutOver'
    <2>1. ShutdownStep /\ ShutAt("numListeners") => NumListeners
      BY DEF ShutdownStep, CloseListeners, StartScan, ScanConn, CloseIdle,
             EndScan, Tick
    <2>. QED BY <2>1, NumListenersDecides DEF NumListeners
  <1>4. SelectDone => ShutOver' BY DEF SelectDone
  <1>5. Deadline => Expired' BY DEF Deadline, Expired
  <1>. QED BY <1>1, <1>2, <1>3, <1>4, <1>5

LEMMA ShutdownEnabled ==
  ASSUME NobodyStuck
  PROVE  /\ ShutAt("closeListeners") => ENABLED <<ShutdownStep>>_vars
         /\ ShutAt("poll") => ENABLED <<ShutdownStep>>_vars
         /\ ShutAt("numListeners") => ENABLED <<ShutdownStep>>_vars
         /\ Busy /\ ~Expired => ENABLED <<Deadline>>_vars
         /\ ShutAt("wait") /\ Expired => ENABLED <<SelectDone>>_vars
  BY DEF NobodyStuck, GuardsSuffice, CanGoOn, ShutBusy, ShutAt, Busy,
         Expired, Returned

(* closeIdleConns comes to the end of activeConn, by induction on the      *)
(* turns its loop has left: two for each connection it has not visited,    *)
(* and one when it is about to close a victim.                             *)
FiniteActive == IsFiniteSet(activeConn)

LEMMA ActiveStaysFinite == Spec => []FiniteActive
  <1>. USE DEF FiniteActive
  <1>1. Init => FiniteActive BY FS_EmptySet DEF Init
  <1>2. ASSUME FiniteActive, [Next]_vars
        PROVE  FiniteActive'
    <2>1. CASE UNCHANGED activeConn BY <1>2, <2>1
    <2>2. \A d : IsFiniteSet(activeConn \cup {d}) /\ IsFiniteSet(activeConn \ {d})
      BY <1>2, FS_AddElement, FS_RemoveElement
    <2>3. CASE ServeStep
      BY <2>1, <2>2, <2>3
      DEF ServeStep, CheckShuttingDown, Listen, LoadKeys, TrackListener,
          HandleAcceptError, BackoffEnds, TrackConn, StartConn,
          UntrackListener, CloseListener, srvVars
    <2>4. ASSUME NEW c \in Conns, AcceptConn(c) \/ ConnStep(c) \/ Age(c)
          PROVE  FiniteActive'
      BY <2>1, <2>2, <2>4
      DEF AcceptConn, Age, ConnStep, Handshake, ReadWire, ReadFails,
          ReadBuffered, SetActive, Handle, Crash, CloseConn, EndConn, srvVars
    <2>5. CASE \E e \in {"temporary", "permanent", "closed"} : AcceptFails(e)
      BY <2>1, <2>5 DEF AcceptFails, srvVars
    <2>6. CASE CallShutdown \/ ShutdownStep \/ SelectDone \/ Deadline
      BY <2>1, <2>2, <2>6
      DEF CallShutdown, SelectDone, Deadline, ShutdownStep, CloseListeners,
          StartScan, ScanConn, CloseIdle, EndScan, NumListeners, Tick, srvVars
    <2>. QED BY <1>2, <2>1, <2>3, <2>4, <2>5, <2>6
             DEF Next, Terminated, vars, srvVars
  <1>. QED BY <1>1, <1>2, PTL DEF Spec

Turns == 2 * Cardinality(toScan) + (IF shut = "closeIdle" THEN 1 ELSE 0)

ScanningWithin(n) == Scanning /\ Turns < n
ScanEndsWithin(n) == ScanningWithin(n) ~> ~Scanning
ScansEnd          == Scanning ~> ~Scanning

LEMMA TurnsAreCounted ==
  ASSUME IInv, FiniteActive
  PROVE  IsFiniteSet(toScan) /\ Turns \in Nat
  <1>1. IsFiniteSet(toScan)
    BY FS_Subset DEF IInv, ScanInv, FiniteActive
  <1>2. Cardinality(toScan) \in Nat BY <1>1, FS_CardinalityType
  <1>. QED BY <1>1, <1>2 DEF Turns

(* Only the loop itself changes what is left of it, and it does so at      *)
(* every turn.                                                             *)
LEMMA EveryTurnCounts ==
  ASSUME IInv, FiniteActive, Scanning, ShutdownStep, NEW n \in Nat,
         Turns < n + 1
  PROVE  ~Scanning' \/ ScanningWithin(n)'
  <1>. DEFINE k == Cardinality(toScan)
  <1>a. IsFiniteSet(toScan) /\ k \in Nat
    BY TurnsAreCounted, FS_CardinalityType
  <1>b. 2 * k + (IF shut = "closeIdle" THEN 1 ELSE 0) < n + 1 BY DEF Turns
  <1>. USE DEF Scanning, ShutAt, ScanningWithin, Turns
  <1>1. ASSUME NEW c \in Conns, ScanConn(c)
        PROVE  ~Scanning' \/ ScanningWithin(n)'
    <2>1. /\ shut = "scan" /\ shut' \in {"scan", "closeIdle"}
          /\ c \in toScan /\ toScan' = toScan \ {c}
      BY <1>1 DEF ScanConn
    <2>2. Cardinality(toScan') = k - 1 BY <1>a, <2>1, FS_RemoveElement
    <2>. HIDE DEF k
    <2>. QED BY <1>a, <1>b, <2>1, <2>2
  <1>2. CASE CloseIdle
    <2>1. /\ shut = "closeIdle" /\ shut' = "scan" /\ toScan' = toScan
      BY <1>2 DEF CloseIdle
    <2>. QED BY <1>a, <1>b, <2>1
  <1>3. CASE EndScan
    <2>1. shut' \in {"numListeners", "wait"} BY <1>3 DEF EndScan
    <2>. QED BY <2>1
  <1>4. ~(CloseListeners \/ StartScan \/ NumListeners \/ Tick)
    BY DEF CloseListeners, StartScan, NumListeners, Tick
  <1>. QED BY <1>1, <1>2, <1>3, <1>4 DEF ShutdownStep

LEMMA TurnsOnlyFall ==
  ASSUME IInv, FiniteActive, [Next]_vars, NEW n \in Nat, ScanningWithin(n)
  PROVE  ~Scanning' \/ ScanningWithin(n)'
  <1>. USE DEF ScanningWithin
  <1>1. CASE UNCHANGED <<shut, toScan, crashed>>
    BY <1>1 DEF Scanning, ShutAt, Turns
  <1>2. CASE ShutdownStep
    <2>1. Turns \in Nat BY TurnsAreCounted
    <2>. QED BY <1>2, <2>1, EveryTurnCounts
  <1>3. CASE ServeStep
    BY <1>1, <1>3
    DEF ServeStep, CheckShuttingDown, Listen, LoadKeys, TrackListener,
        HandleAcceptError, BackoffEnds, TrackConn, StartConn,
        UntrackListener, CloseListener, connVars, shutVars
  <1>4. ASSUME NEW c \in Conns, AcceptConn(c) \/ ConnStep(c) \/ Age(c)
        PROVE  ~Scanning' \/ ScanningWithin(n)'
    <2>1. CASE Crash(c) BY <2>1 DEF Crash, Scanning, ShutAt
    <2>. QED
      BY <1>1, <1>4, <2>1
      DEF AcceptConn, Age, ConnStep, Handshake, ReadWire, ReadFails,
          ReadBuffered, SetActive, Handle, CloseConn, EndConn, shutVars
  <1>5. CASE \E e \in {"temporary", "permanent", "closed"} : AcceptFails(e)
    BY <1>1, <1>5 DEF AcceptFails, connVars, shutVars
  <1>6. CASE CallShutdown \/ SelectDone \/ Deadline
    BY <1>1, <1>6 DEF CallShutdown, SelectDone, Deadline, connVars,
                      Scanning, ShutAt
  <1>. QED BY <1>1, <1>2, <1>3, <1>4, <1>5, <1>6
           DEF Next, Terminated, vars, connVars, shutVars

ScanRuns == System /\ []FiniteActive /\ WF_vars(ShutdownStep)

LEMMA NoTurnLeft == ScanRuns => ScanEndsWithin(0)
  <1>1. IInv /\ FiniteActive => ~ScanningWithin(0)
    BY TurnsAreCounted DEF ScanningWithin
  <1>. QED BY <1>1, PTL DEF ScanRuns, System, ScanEndsWithin

LEMMA OneTurnLess ==
  ASSUME NEW n \in Nat
  PROVE  ScanRuns => (ScanEndsWithin(n) => ScanEndsWithin(n + 1))
  <1>1. IInv /\ FiniteActive /\ [Next]_vars
          => (ScanningWithin(n + 1) => ~Scanning' \/ ScanningWithin(n + 1)')
    BY TurnsOnlyFall
  <1>2. IInv /\ FiniteActive /\ ShutdownStep
          => (ScanningWithin(n + 1) => ~Scanning' \/ ScanningWithin(n)')
    BY EveryTurnCounts DEF ScanningWithin
  <1>3. NobodyStuck => (ScanningWithin(n + 1) => ENABLED <<ShutdownStep>>_vars)
    BY DEF NobodyStuck, GuardsSuffice, CanGoOn, ShutBusy, Returned,
           ScanningWithin, Scanning, ShutAt
  <1>. QED
    BY <1>1, <1>2, <1>3, PTL DEF ScanRuns, System, ScanEndsWithin

(* The instance of the principle of induction that draws the conclusion;   *)
(* it is valid whatever the system does.                                   *)
TurnsInduct == InductionFor(ScanEndsWithin)

LEMMA ScansDoEnd == FairSpec /\ []GuardsSuffice /\ TurnsInduct => ScansEnd
  <1>1. FairSpec /\ []GuardsSuffice => ScanRuns
    BY Invariance, NobodyIsStuck, ActiveStaysFinite, PTL
    DEF FairSpec, Fairness, Spec, System, ScanRuns
  <1>2. ScanRuns => \A n \in Nat : ScanEndsWithin(n) => ScanEndsWithin(n + 1)
    BY OneTurnLess
  <1>3. ScanRuns /\ TurnsInduct => \A n \in Nat : ScanEndsWithin(n)
    BY <1>2, NoTurnLeft DEF InductionFor, TurnsInduct
  <1>4. (\A n \in Nat : ScanEndsWithin(n))
          => \A n \in Nat : [](ScanningWithin(n) => <>~Scanning)
    BY PTL DEF ScanEndsWithin
  <1>5. (\A n \in Nat : [](ScanningWithin(n) => <>~Scanning))
          => [](\A n \in Nat : ScanningWithin(n) => <>~Scanning)
    OBVIOUS
  <1>6. IInv /\ FiniteActive /\ Scanning => \E n \in Nat : ScanningWithin(n)
    <2>1. IInv /\ FiniteActive => Turns + 1 \in Nat /\ Turns < Turns + 1
      BY TurnsAreCounted
    <2>. QED BY <2>1 DEF ScanningWithin
  <1>7. /\ \A n \in Nat : ScanningWithin(n) => <>~Scanning
        /\ \E n \in Nat : ScanningWithin(n)
        => <>~Scanning
    OBVIOUS
  <1>. QED
    BY <1>1, <1>3, <1>4, <1>5, <1>6, <1>7, PTL DEF ScanRuns, System, ScansEnd

(* Shutdown returns: its loop comes to its select again and again, in the  *)
(* end with the context expired, and the select does not pass over the     *)
(* context for ever.                                                       *)
THEOREM ShutdownsReturn ==
  FairSpec /\ []GuardsSuffice /\ TurnsInduct => ShutdownReturns
  <1>1. IInv /\ [Next]_vars
          => /\ ShutAt("closeListeners")
                  => ShutAt("closeListeners")' \/ ShutAt("poll")' \/ Dead'
             /\ ShutAt("poll") => ShutAt("poll")' \/ Scanning' \/ Dead'
             /\ ShutAt("numListeners")
                  => \/ ShutAt("numListeners")' \/ ShutAt("wait")'
                     \/ ShutOver' \/ Dead'
             /\ ShutAt("wait")
                  => ShutAt("wait")' \/ ShutAt("poll")' \/ ShutOver' \/ Dead'
             /\ Scanning
                  => \/ Scanning' \/ ShutAt("numListeners")'
                     \/ ShutAt("wait")' \/ Dead'
             /\ ShutOver => ShutOver'
             /\ Dead => Dead'
             /\ Expired => Expired'
    BY ShutdownAdvances
  <1>2. IInv
          => /\ ShutdownStep /\ ShutAt("closeListeners") => ShutAt("poll")'
             /\ ShutdownStep /\ ShutAt("poll") => Scanning'
             /\ ShutdownStep /\ ShutAt("numListeners")
                  => ShutAt("wait")' \/ ShutOver'
             /\ SelectDone => ShutOver'
             /\ Deadline => Expired'
    BY ShutdownSteps
  <1>3. NobodyStuck
          => /\ ShutAt("closeListeners") => ENABLED <<ShutdownStep>>_vars
             /\ ShutAt("poll") => ENABLED <<ShutdownStep>>_vars
             /\ ShutAt("numListeners") => ENABLED <<ShutdownStep>>_vars
             /\ Busy /\ ~Expired => ENABLED <<Deadline>>_vars
             /\ ShutAt("wait") /\ Expired => ENABLED <<SelectDone>>_vars
    BY ShutdownEnabled
  <1>4. /\ IInv /\ Called
             => \/ ShutAt("closeListeners") \/ ShutAt("poll") \/ Scanning
                \/ ShutAt("numListeners") \/ ShutAt("wait")
                \/ ShutOver \/ Dead
        /\ \/ ShutAt("closeListeners") \/ ShutAt("poll") \/ Scanning
           \/ ShutAt("numListeners") \/ ShutAt("wait")
           => Busy
    BY DEF IInv, TypeOK, ShutTypeOK, ShutLabels, Called, ShutAt, Scanning,
           ShutOver, Dead, Busy, Returned
  <1>5. FairSpec /\ []GuardsSuffice => System
    BY Invariance, NobodyIsStuck, PTL DEF FairSpec, Spec, System
  <1>6. System /\ WF_vars(ShutdownStep)
          => (ShutAt("closeListeners") ~> ShutAt("poll") \/ Dead)
    BY <1>1, <1>2, <1>3, PTL DEF System
  <1>7. System /\ WF_vars(ShutdownStep) => (ShutAt("poll") ~> Scanning \/ Dead)
    BY <1>1, <1>2, <1>3, PTL DEF System
  <1>8. System /\ WF_vars(ShutdownStep)
          => (ShutAt("numListeners") ~> ShutAt("wait") \/ ShutOver \/ Dead)
    BY <1>1, <1>2, <1>3, PTL DEF System
  <1>9. System /\ ScansEnd
           => (Scanning ~> ShutAt("numListeners") \/ ShutAt("wait") \/ Dead)
    BY <1>1, PTL DEF System, ScansEnd
  <1>10. System /\ WF_vars(ShutdownStep) /\ ScansEnd
           => (Called ~> ShutAt("wait") \/ ShutOver \/ Dead)
    BY <1>4, <1>6, <1>7, <1>8, <1>9, PTL DEF System
  <1>11. System /\ WF_vars(Deadline) => (Busy ~> Expired \/ ~Busy)
    BY <1>2, <1>3, PTL DEF System
  <1>12. /\ Called <=> shut # "idle"
         /\ ShutOver \/ Dead <=> shut \in Returned \/ crashed
         /\ ShutOver \/ Dead => ~Busy
         /\ IInv /\ Called /\ ~Busy => ShutOver \/ Dead
         /\ Busy => Called
    BY DEF Called, ShutOver, Dead, Busy
  <1>. HIDE DEF Called
  <1>13. System /\ WF_vars(ShutdownStep) /\ WF_vars(Deadline)
           /\ SF_vars(SelectDone) /\ ScansEnd
           => (Called ~> ShutOver \/ Dead)
    BY <1>1, <1>2, <1>3, <1>4, <1>10, <1>11, <1>12, PTL DEF System
  <1>14. FairSpec /\ []GuardsSuffice /\ ScansEnd => (Called ~> ShutOver \/ Dead)
    BY <1>5, <1>13, PTL DEF FairSpec, Fairness
  <1>15. (Called ~> ShutOver \/ Dead) => ShutdownReturns
    BY <1>12, PTL DEF ShutdownReturns
  <1>. QED BY <1>14, <1>15, ScansDoEnd

(* After Shutdown the serving call returns: inShutdown and doneChan are    *)
(* set, s.mu is free and the listener, if it is being served, closed.      *)
THEOREM ServingReturns ==
  FairSpec /\ []GuardsSuffice /\ TurnsInduct => ServeReturns
  <1>1. FairSpec /\ []GuardsSuffice => System
    BY Invariance, NobodyIsStuck, PTL DEF FairSpec, Spec, System
  <1>2. FairSpec /\ []GuardsSuffice => ServingEnds
    BY <1>1, ServingEndsAfterShutdown, PTL DEF FairSpec, Fairness, ServeRuns
  <1>3. /\ ShutOver <=> shut \in Returned
        /\ ServeOver <=> serve = "returned" \/ crashed
    BY DEF ShutOver, ServeOver
  <1>. QED
    BY <1>2, <1>3, ShutdownsReturn, PTL
    DEF ServingEnds, ShutdownReturns, ServeReturns

(* A connection whose socket is closed and whose buffer holds no line.     *)
MuFree        == ~muHeld
Cut(c)        == ~crashed /\ rwc[c] = "closed" /\ buffered[c] = 0
CutAt(c, l)   == Cut(c) /\ pc[c] = l /\ (l = "store" => next[c] = "close")
Storing(c, l) == Cut(c) /\ pc[c] = "store" /\ next[c] = l /\ l # "close"
ConnOver(c)   == (pc[c] = "end" /\ c \notin activeConn) \/ crashed

(* Where it goes from each label.                                          *)
CutNext(c, l) ==
  CASE l \in {"handshake", "store"} -> CutAt(c, "close")
    [] l = "handle"                 -> CutAt(c, "read") \/ CutAt(c, "close")
    [] l = "read"                   -> CutAt(c, "store") \/ CutAt(c, "close")
    [] l = "close"                  -> CutAt(c, "untrack")
    [] l = "untrack"                -> ConnOver(c)
CutLabels == ConnLabels \ {"none", "end"}

LEMMA ConnStepMoves ==
  ASSUME IInv, NEW c \in Conns, ConnStep(c)
  PROVE  /\ \A l \in CutLabels :
              CutAt(c, l) => CutNext(c, l)' \/ ConnOver(c)'
         /\ \A l \in {"handle", "read"} :
              Storing(c, l) => CutAt(c, l)' \/ ConnOver(c)'
  <1>. USE DEF CutAt, Cut, CutNext, Storing, ConnOver
  <1>a. /\ rwc \in [Conns -> SocketStates] /\ pc \in [Conns -> ConnLabels]
        /\ buffered \in [Conns -> 0..MaxPipelined]
        /\ next \in [Conns -> {"none", "read", "handle", "close"}]
    BY DEF IInv, TypeOK, ConnTypeOK
  <1>1. CASE Handshake(c) BY <1>a, <1>1 DEF Handshake
  <1>2. CASE ReadWire(c) BY <1>a, <1>2 DEF ReadWire
  <1>3. CASE ReadFails(c) BY <1>a, <1>3 DEF ReadFails
  <1>4. CASE ReadBuffered(c)
    <2>1. ~Cut(c) BY <1>a, <1>4 DEF ReadBuffered
    <2>. QED BY <2>1
  <1>5. CASE SetActive(c) BY <1>a, <1>5 DEF SetActive
  <1>6. CASE Handle(c) BY <1>a, <1>6 DEF Handle
  <1>7. CASE Crash(c) BY <1>7 DEF Crash
  <1>8. CASE CloseConn(c) BY <1>a, <1>8 DEF CloseConn
  <1>9. CASE EndConn(c) BY <1>a, <1>9 DEF EndConn
  <1>. QED BY <1>1, <1>2, <1>3, <1>4, <1>5, <1>6, <1>7, <1>8, <1>9
           DEF ConnStep

(* No step but its own moves a connection whose socket is closed.          *)
LEMMA OthersLeaveConn ==
  ASSUME IInv, [Next]_vars, NEW c \in Conns, rwc[c] = "closed", ~ConnStep(c)
  PROVE  /\ pc'[c] = pc[c] /\ next'[c] = next[c]
         /\ rwc'[c] = "closed" /\ buffered'[c] = buffered[c]
  <1>. DEFINE Left ==
         /\ pc'[c] = pc[c] /\ next'[c] = next[c]
         /\ rwc'[c] = "closed" /\ buffered'[c] = buffered[c]
  <1>a. /\ pc \in [Conns -> ConnLabels] /\ rwc \in [Conns -> SocketStates]
        /\ next \in [Conns -> {"none", "read", "handle", "close"}]
        /\ buffered \in [Conns -> 0..MaxPipelined]
    BY DEF IInv, TypeOK, ConnTypeOK
  <1>1. CASE UNCHANGED <<pc, next, rwc, buffered>> BY <1>1
  <1>2. CASE StartConn
    <2>1. rw # c BY ConnsAssumption DEF IInv, ConnInv
    <2>. QED BY <1>2, <1>a, <2>1 DEF StartConn
  <1>3. CASE CheckShuttingDown \/ Listen \/ LoadKeys \/ TrackListener
             \/ HandleAcceptError \/ BackoffEnds \/ TrackConn
             \/ UntrackListener \/ CloseListener
             \/ (\E e \in {"temporary", "permanent", "closed"} :
                   AcceptFails(e))
    BY <1>1, <1>3
    DEF CheckShuttingDown, Listen, LoadKeys, TrackListener,
        HandleAcceptError, BackoffEnds, TrackConn, UntrackListener,
        CloseListener, AcceptFails, connVars
  <1>4. ASSUME NEW d \in Conns, AcceptConn(d) \/ ConnStep(d) \/ Age(d)
        PROVE  Left
    <2>1. CASE AcceptConn(d) BY <1>a, <2>1 DEF AcceptConn
    <2>2. CASE Age(d) BY <2>2 DEF Age
    <2>3. CASE ConnStep(d)
      <3>1. d # c BY <2>3
      <3>. QED
        BY <1>a, <2>3, <3>1
        DEF ConnStep, Handshake, ReadWire, ReadFails, ReadBuffered,
            SetActive, Handle, Crash, CloseConn, EndConn
    <2>. QED BY <1>4, <2>1, <2>2, <2>3
  <1>5. CASE CloseIdle BY <1>a, <1>5 DEF CloseIdle
  <1>6. CASE CallShutdown \/ SelectDone \/ Deadline \/ CloseListeners
             \/ StartScan \/ (\E d \in Conns : ScanConn(d)) \/ EndScan
             \/ NumListeners \/ Tick
    BY <1>1, <1>6
    DEF CallShutdown, SelectDone, Deadline, CloseListeners, StartScan,
        ScanConn, EndScan, NumListeners, Tick, connVars
  <1>. QED BY <1>1, <1>2, <1>3, <1>4, <1>5, <1>6
           DEF Next, ServeStep, ShutdownStep, Terminated, vars, connVars

LEMMA CutAdvances ==
  ASSUME IInv, [Next]_vars, NEW c \in Conns
  PROVE  /\ \A l \in CutLabels :
              CutAt(c, l) => CutAt(c, l)' \/ CutNext(c, l)' \/ ConnOver(c)'
         /\ \A l \in {"handle", "read"} :
              Storing(c, l) => Storing(c, l)' \/ CutAt(c, l)' \/ ConnOver(c)'
  <1>1. CASE ConnStep(c) BY <1>1, ConnStepMoves
  <1>2. CASE ~ConnStep(c)
    <2>1. ASSUME Cut(c), pc[c] # "none"
          PROVE  /\ ConnOver(c)' \/ Cut(c)'
                 /\ pc'[c] = pc[c] /\ next'[c] = next[c]
      BY <1>2, <2>1, OthersLeaveConn DEF Cut, ConnOver
    <2>. QED BY <2>1 DEF CutAt, Storing, CutLabels
  <1>. QED BY <1>1, <1>2

LEMMA CutEnabled ==
  ASSUME NobodyStuck, NEW c \in Conns, MuFree,
         Cut(c), pc[c] \in CutLabels
  PROVE  ENABLED <<ConnStep(c)>>_vars
  BY DEF NobodyStuck, GuardsSuffice, CanGoOn, Cut, CutLabels, MuFree

(* s.mu is held by nobody for ever: before Shutdown is called, or in the   *)
(* end after it has returned.                                              *)
MuSettles      == <>[]MuFree \/ <>[]Dead
ConnRuns(c)    == System /\ MuSettles /\ ConnFairness(c)
CutLeadsOn(c, l) == CutAt(c, l) ~> CutNext(c, l) \/ ConnOver(c)
StoringEnds(c, l) == Storing(c, l) ~> CutAt(c, l) \/ ConnOver(c)
CutEnds(c)     == Cut(c) ~> ConnOver(c)

LEMMA CutLeads ==
  ASSUME NEW c \in Conns, NEW l \in CutLabels
  PROVE  ConnRuns(c) => CutLeadsOn(c, l)
  <1>1. IInv /\ [Next]_vars
          => (CutAt(c, l) => CutAt(c, l)' \/ CutNext(c, l)' \/ ConnOver(c)')
    BY CutAdvances
  <1>2. IInv /\ ConnStep(c)
          => (CutAt(c, l) => CutNext(c, l)' \/ ConnOver(c)')
    BY ConnStepMoves
  <1>3. NobodyStuck /\ MuFree /\ CutAt(c, l) => ENABLED <<ConnStep(c)>>_vars
    BY CutEnabled DEF CutAt
  <1>4. Dead => ConnOver(c) BY DEF Dead, ConnOver
  <1>. QED
    BY <1>1, <1>2, <1>3, <1>4, PTL
    DEF ConnRuns, System, MuSettles, ConnFairness, CutLeadsOn

LEMMA StoringLeads ==
  ASSUME NEW c \in Conns, NEW l \in {"handle", "read"}
  PROVE  ConnRuns(c) => StoringEnds(c, l)
  <1>1. IInv /\ [Next]_vars
          => (Storing(c, l) => Storing(c, l)' \/ CutAt(c, l)' \/ ConnOver(c)')
    BY CutAdvances
  <1>2. IInv /\ ConnStep(c)
          => (Storing(c, l) => CutAt(c, l)' \/ ConnOver(c)')
    BY ConnStepMoves
  <1>3. NobodyStuck /\ MuFree /\ Storing(c, l) => ENABLED <<ConnStep(c)>>_vars
    BY CutEnabled DEF Storing, CutLabels, ConnLabels
  <1>4. Dead => ConnOver(c) BY DEF Dead, ConnOver
  <1>. QED
    BY <1>1, <1>2, <1>3, <1>4, PTL
    DEF ConnRuns, System, MuSettles, ConnFairness, StoringEnds

LEMMA CutConnEnds ==
  ASSUME NEW c \in Conns
  PROVE  ConnRuns(c) => CutEnds(c)
  <1>1. /\ ConnRuns(c) => CutLeadsOn(c, "handshake")
        /\ ConnRuns(c) => CutLeadsOn(c, "read")
        /\ ConnRuns(c) => CutLeadsOn(c, "store")
        /\ ConnRuns(c) => CutLeadsOn(c, "handle")
        /\ ConnRuns(c) => CutLeadsOn(c, "close")
        /\ ConnRuns(c) => CutLeadsOn(c, "untrack")
    BY CutLeads DEF CutLabels, ConnLabels
  <1>2. /\ ConnRuns(c) => StoringEnds(c, "handle")
        /\ ConnRuns(c) => StoringEnds(c, "read")
    BY StoringLeads
  <1>3. /\ CutNext(c, "handshake") => CutAt(c, "close")
        /\ CutNext(c, "store") => CutAt(c, "close")
        /\ CutNext(c, "handle") => CutAt(c, "read") \/ CutAt(c, "close")
        /\ CutNext(c, "read") => CutAt(c, "store") \/ CutAt(c, "close")
        /\ CutNext(c, "close") => CutAt(c, "untrack")
        /\ CutNext(c, "untrack") => ConnOver(c)
    BY DEF CutNext
  <1>4. IInv /\ Cut(c)
          => \/ CutAt(c, "handshake") \/ CutAt(c, "read") \/ CutAt(c, "store")
             \/ CutAt(c, "handle") \/ CutAt(c, "close") \/ CutAt(c, "untrack")
             \/ Storing(c, "handle") \/ Storing(c, "read") \/ ConnOver(c)
    <2>. SUFFICES ASSUME IInv, Cut(c)
                  PROVE  \/ pc[c] \in CutLabels \ {"store"}
                         \/ pc[c] = "store" /\ next[c] \in {"handle", "read",
                                                            "close"}
                         \/ pc[c] = "end" /\ c \notin activeConn
      BY DEF CutAt, Storing, ConnOver, CutLabels, ConnLabels
    <2>1. /\ pc[c] \in ConnLabels
          /\ next[c] \in {"none", "read", "handle", "close"}
      BY DEF IInv, TypeOK, ConnTypeOK
    <2>2. /\ pc[c] # "none" /\ (pc[c] = "end" => c \notin activeConn)
          /\ pc[c] = "store" => next[c] # "none"
      BY DEF IInv, ConnInv, Cut
    <2>. QED BY <2>1, <2>2 DEF CutLabels
  <1>. QED
    BY <1>1, <1>2, <1>3, <1>4, PTL
    DEF ConnRuns, System, CutLeadsOn, StoringEnds, CutEnds

(* The lines that a closed connection has in its buffer run out, by        *)
(* induction on the steps it has left with them: at most four for a line,  *)
(* and those of the line it is at.  A goroutine past its loop has given    *)
(* its buffer back.                                                        *)
EndedEmpty  == \A c \in Conns : pc[c] \in {"untrack", "end"} => buffered[c] = 0
Draining(c) == ~crashed /\ rwc[c] = "closed" /\ buffered[c] > 0
OutOfLines(c) == Cut(c) \/ crashed

StepsOf(l) == CASE l \in {"handshake", "store"} -> 3
                [] l = "handle"                 -> 2
                [] l = "read"                   -> 1
                [] OTHER                        -> 0
StepsLeft(c) == 4 * buffered[c] + StepsOf(pc[c])

DrainingWithin(c, n) == Draining(c) /\ StepsLeft(c) < n
DrainedWithin(c, n)  == DrainingWithin(c, n) ~> OutOfLines(c)
LinesRunOut(c)       == rwc[c] = "closed" ~> OutOfLines(c)

LEMMA BuffersAreGivenBack == Spec => []EndedEmpty
  <1>1. Init => EndedEmpty BY DEF Init, EndedEmpty
  <1>2. ASSUME IInv, EndedEmpty, [Next]_vars, NEW c \in Conns,
               pc'[c] \in {"untrack", "end"}
        PROVE  buffered'[c] = 0
    <2>a. /\ pc \in [Conns -> ConnLabels]
          /\ buffered \in [Conns -> 0..MaxPipelined]
          /\ next \in [Conns -> {"none", "read", "handle", "close"}]
          /\ pc[c] \in {"untrack", "end"} => buffered[c] = 0
      BY <1>2 DEF IInv, TypeOK, ConnTypeOK, EndedEmpty
    <2>b. SUFFICES ASSUME ~UNCHANGED <<pc, buffered>> PROVE buffered'[c] = 0
      BY <1>2, <2>a
    <2>1. CASE ServeStep
      BY <1>2, <2>a, <2>b, <2>1
      DEF ServeStep, CheckShuttingDown, Listen, LoadKeys, TrackListener,
          HandleAcceptError, BackoffEnds, TrackConn, StartConn,
          UntrackListener, CloseListener, connVars
    <2>2. ASSUME NEW d \in Conns, AcceptConn(d) \/ ConnStep(d) \/ Age(d)
          PROVE  buffered'[c] = 0
      <3>1. CASE Handshake(d) BY <1>2, <2>a, <3>1 DEF Handshake
      <3>2. CASE ReadWire(d) BY <1>2, <2>a, <3>2 DEF ReadWire
      <3>3. CASE ReadFails(d) BY <1>2, <2>a, <3>3 DEF ReadFails
      <3>4. CASE ReadBuffered(d) BY <1>2, <2>a, <3>4 DEF ReadBuffered
      <3>5. CASE SetActive(d) BY <1>2, <2>a, <3>5 DEF SetActive
      <3>6. CASE Handle(d) BY <1>2, <2>a, <3>6 DEF Handle
      <3>7. CASE CloseConn(d) BY <1>2, <2>a, <3>7 DEF CloseConn
      <3>8. CASE EndConn(d) BY <1>2, <2>a, <3>8 DEF EndConn
      <3>9. CASE Crash(d) \/ AcceptConn(d) \/ Age(d)
        BY <2>b, <3>9 DEF Crash, AcceptConn, Age
      <3>. QED BY <2>2, <3>1, <3>2, <3>3, <3>4, <3>5, <3>6, <3>7, <3>8, <3>9
               DEF ConnStep
    <2>3. CASE \/ \E e \in {"temporary", "permanent", "closed"} : AcceptFails(e)
               \/ CallShutdown \/ ShutdownStep \/ SelectDone \/ Deadline
      BY <2>b, <2>3
      DEF AcceptFails, CallShutdown, SelectDone, Deadline, ShutdownStep,
          CloseListeners, StartScan, ScanConn, CloseIdle, EndScan,
          NumListeners, Tick, connVars
    <2>. QED BY <1>2, <2>b, <2>1, <2>2, <2>3
             DEF Next, Terminated, vars, connVars
  <1>3. IInv /\ EndedEmpty /\ [Next]_vars => EndedEmpty'
    BY <1>2 DEF EndedEmpty
  <1>. QED BY <1>1, <1>3, Invariance, PTL DEF Spec

LEMMA DrainingAt ==
  ASSUME IInv, EndedEmpty, NEW c \in Conns, Draining(c)
  PROVE  /\ pc[c] \in {"handshake", "read", "store", "handle", "close"}
         /\ pc[c] = "store" => next[c] \in {"read", "handle", "close"}
         /\ buffered[c] \in Nat /\ StepsOf(pc[c]) \in 0..3
         /\ StepsLeft(c) \in Nat
  <1>1. /\ pc[c] \in ConnLabels /\ buffered[c] \in Nat
        /\ next[c] \in {"none", "read", "handle", "close"}
    BY PipelinedAssumption DEF IInv, TypeOK, ConnTypeOK
  <1>2. /\ pc[c] # "none" /\ pc[c] \notin {"untrack", "end"}
        /\ pc[c] = "store" => next[c] # "none"
    BY DEF IInv, ConnInv, EndedEmpty, Draining
  <1>3. StepsOf(pc[c]) \in 0..3 BY DEF StepsOf
  <1>. QED BY <1>1, <1>2, <1>3 DEF ConnLabels, StepsLeft

LEMMA EveryStepCounts ==
  ASSUME IInv, EndedEmpty, NEW c \in Conns, Draining(c), ConnStep(c),
         NEW n \in Nat, StepsLeft(c) < n + 1
  PROVE  DrainingWithin(c, n)' \/ OutOfLines(c)'
  <1>. USE DEF DrainingWithin, Draining, OutOfLines, Cut, StepsLeft
  <1>a. /\ rwc \in [Conns -> SocketStates] /\ pc \in [Conns -> ConnLabels]
        /\ next \in [Conns -> {"none", "read", "handle", "close"}]
        /\ buffered \in [Conns -> 0..MaxPipelined]
    BY DEF IInv, TypeOK, ConnTypeOK
  <1>b. /\ buffered[c] \in Nat /\ buffered[c] > 0
        /\ pc[c] = "store" => next[c] \in {"read", "handle", "close"}
        /\ 4 * buffered[c] + StepsOf(pc[c]) < n + 1
    BY DrainingAt
  <1>c. /\ StepsOf("handshake") = 3 /\ StepsOf("store") = 3
        /\ StepsOf("handle") = 2 /\ StepsOf("read") = 1
        /\ StepsOf("close") = 0
    BY DEF StepsOf
  <1>1. CASE Handshake(c)
    <2>1. /\ pc[c] = "handshake" /\ pc'[c] = "close" /\ rwc'[c] = "closed"
          /\ buffered' = buffered /\ crashed' = crashed
      BY <1>1, <1>a DEF Handshake
    <2>. QED BY <2>1, <1>b, <1>c
  <1>2. CASE ReadBuffered(c)
    <2>1. /\ pc[c] = "read" /\ pc'[c] \in {"handle", "close"}
          /\ buffered'[c] = buffered[c] - 1
          /\ rwc' = rwc /\ crashed' = crashed
      BY <1>2, <1>a DEF ReadBuffered
    <2>. QED BY <2>1, <1>b, <1>c
  <1>3. CASE SetActive(c)
    <2>1. /\ pc[c] = "store" /\ pc'[c] = next[c]
          /\ buffered' = buffered /\ rwc' = rwc /\ crashed' = crashed
      BY <1>3, <1>a DEF SetActive
    <2>. QED BY <2>1, <1>b, <1>c
  <1>4. CASE Handle(c)
    <2>1. /\ pc[c] = "handle" /\ pc'[c] \in {"read", "close"}
          /\ buffered' = buffered /\ rwc' = rwc /\ crashed' = crashed
      BY <1>4, <1>a DEF Handle
    <2>. QED BY <2>1, <1>b, <1>c
  <1>5. CASE Crash(c) BY <1>5 DEF Crash
  <1>6. CASE CloseConn(c)
    <2>1. /\ buffered'[c] = 0 /\ rwc'[c] = "closed" /\ crashed' = crashed
      BY <1>6, <1>a DEF CloseConn
    <2>. QED BY <2>1
  <1>7. ~(ReadWire(c) \/ ReadFails(c) \/ EndConn(c))
    BY <1>b, DrainingAt DEF ReadWire, ReadFails, EndConn
  <1>. QED BY <1>1, <1>2, <1>3, <1>4, <1>5, <1>6, <1>7 DEF ConnStep

LEMMA StepsOnlyFall ==
  ASSUME IInv, EndedEmpty, [Next]_vars, NEW c \in Conns, NEW n \in Nat,
         DrainingWithin(c, n)
  PROVE  DrainingWithin(c, n)' \/ OutOfLines(c)'
  <1>. USE DEF DrainingWithin
  <1>1. CASE ConnStep(c)
    <2>1. StepsLeft(c) \in Nat BY DrainingAt
    <2>. QED BY <1>1, <2>1, EveryStepCounts
  <1>2. CASE ~ConnStep(c)
    BY <1>2, OthersLeaveConn DEF Draining, OutOfLines, StepsLeft
  <1>. QED BY <1>1, <1>2

DrainRuns(c) == System /\ []EndedEmpty /\ ConnFairness(c)

LEMMA NoStepLeft ==
  ASSUME NEW c \in Conns
  PROVE  DrainRuns(c) => DrainedWithin(c, 0)
  <1>1. IInv /\ EndedEmpty => ~DrainingWithin(c, 0)
    BY DrainingAt DEF DrainingWithin
  <1>. QED BY <1>1, PTL DEF DrainRuns, System, DrainedWithin

LEMMA OneStepLess ==
  ASSUME NEW c \in Conns, NEW n \in Nat
  PROVE  DrainRuns(c) => (DrainedWithin(c, n) => DrainedWithin(c, n + 1))
  <1>1. IInv /\ EndedEmpty /\ [Next]_vars
          => (DrainingWithin(c, n + 1)
                => DrainingWithin(c, n + 1)' \/ OutOfLines(c)')
    BY StepsOnlyFall
  <1>2. IInv /\ EndedEmpty /\ ConnStep(c)
          => (DrainingWithin(c, n + 1)
                => DrainingWithin(c, n)' \/ OutOfLines(c)')
    BY EveryStepCounts DEF DrainingWithin
  <1>3. IInv /\ EndedEmpty /\ NobodyStuck
          => (DrainingWithin(c, n + 1) => ENABLED <<ConnStep(c)>>_vars)
    BY DrainingAt
    DEF NobodyStuck, GuardsSuffice, CanConnStep, DrainingWithin, Draining
  <1>. QED
    BY <1>1, <1>2, <1>3, PTL
    DEF DrainRuns, System, ConnFairness, DrainedWithin

(* Again an instance of the principle of induction.                        *)
LinesInduct(c) == InductionFor(LAMBDA n : DrainedWithin(c, n))

LEMMA LinesDoRunOut ==
  ASSUME NEW c \in Conns
  PROVE  DrainRuns(c) /\ LinesInduct(c) => LinesRunOut(c)
  <1>1. DrainRuns(c)
          => \A n \in Nat : DrainedWithin(c, n) => DrainedWithin(c, n + 1)
    BY OneStepLess
  <1>2. DrainRuns(c) /\ LinesInduct(c) => \A n \in Nat : DrainedWithin(c, n)
    BY <1>1, NoStepLeft DEF InductionFor, LinesInduct
  <1>3. (\A n \in Nat : DrainedWithin(c, n))
          => \A n \in Nat : [](DrainingWithin(c, n) => <>OutOfLines(c))
    BY PTL DEF DrainedWithin
  <1>4. (\A n \in Nat : [](DrainingWithin(c, n) => <>OutOfLines(c)))
          => [](\A n \in Nat : DrainingWithin(c, n) => <>OutOfLines(c))
    OBVIOUS
  <1>5. IInv /\ EndedEmpty /\ rwc[c] = "closed"
          => OutOfLines(c) \/ \E n \in Nat : DrainingWithin(c, n)
    <2>1. IInv /\ rwc[c] = "closed" => OutOfLines(c) \/ Draining(c)
      BY PipelinedAssumption
      DEF IInv, TypeOK, ConnTypeOK, OutOfLines, Cut, Draining
    <2>2. IInv /\ EndedEmpty /\ Draining(c)
            => StepsLeft(c) + 1 \in Nat /\ StepsLeft(c) < StepsLeft(c) + 1
      BY DrainingAt
    <2>. QED BY <2>1, <2>2 DEF DrainingWithin
  <1>6. /\ \A n \in Nat : DrainingWithin(c, n) => <>OutOfLines(c)
        /\ \E n \in Nat : DrainingWithin(c, n)
        => <>OutOfLines(c)
    OBVIOUS
  <1>. QED
    BY <1>2, <1>3, <1>4, <1>5, <1>6, PTL DEF DrainRuns, System, LinesRunOut

LEMMA MuIsFreed == FairSpec /\ []GuardsSuffice /\ TurnsInduct => MuSettles
  <1>1. IInv /\ [Next]_vars => /\ ShutOver => ShutOver'
                               /\ Dead => Dead'
    BY ShutdownAdvances
  <1>2. /\ IInv /\ shut = "idle" => MuFree
        /\ IInv /\ ShutOver => MuFree
    BY DEF IInv, ShutInv, ShutOver, Returned, MuFree
  <1>3. shut \in Returned \/ crashed => ShutOver \/ Dead
    BY DEF ShutOver, Dead
  <1>4. shut # "idle" \/ shut = "idle" OBVIOUS
  <1>. QED
    BY <1>1, <1>2, <1>3, <1>4, ShutdownsReturn, Invariance, PTL
    DEF ShutdownReturns, FairSpec, Spec, MuSettles

(* A connection whose socket was closed ends and leaves activeConn: every  *)
(* read fails, every way out of the loop closes, and s.mu is free for      *)
(* setState in the end.                                                    *)
THEOREM ClosedConnsEnd ==
  FairSpec /\ []GuardsSuffice /\ TurnsInduct /\ (\A c \in Conns : LinesInduct(c))
    => ClosedConnEnds
  <1>1. ASSUME NEW c \in Conns
        PROVE  ConnRuns(c) /\ []EndedEmpty /\ LinesInduct(c) => ConnEnds(c)
    <2>1. ConnRuns(c) => CutEnds(c) BY CutConnEnds
    <2>2. ConnRuns(c) /\ []EndedEmpty /\ LinesInduct(c) => LinesRunOut(c)
      BY LinesDoRunOut DEF DrainRuns, ConnRuns
    <2>3. /\ ConnOver(c) => (pc[c] = "end" /\ c \notin activeConn) \/ crashed
          /\ OutOfLines(c) => Cut(c) \/ ConnOver(c)
      BY DEF ConnOver, OutOfLines
    <2>. QED BY <2>1, <2>2, <2>3, PTL DEF CutEnds, LinesRunOut, ConnEnds
  <1>2. FairSpec => \A c \in Conns : ConnFairness(c)
    BY PTL DEF FairSpec, Fairness
  <1>3. FairSpec /\ []GuardsSuffice => System /\ []EndedEmpty
    BY Invariance, NobodyIsStuck, BuffersAreGivenBack, PTL
    DEF FairSpec, Spec, System
  <1>4. FairSpec /\ []GuardsSuffice /\ TurnsInduct
          => /\ System /\ []EndedEmpty /\ MuSettles
             /\ \A c \in Conns : ConnFairness(c)
    BY <1>2, <1>3, MuIsFreed
  <1>5. /\ System /\ []EndedEmpty /\ MuSettles
        /\ \A c \in Conns : ConnFairness(c)
        /\ \A c \in Conns : LinesInduct(c)
        => \A c \in Conns : ConnEnds(c)
    BY <1>1 DEF ConnRuns
  <1>. QED BY <1>4, <1>5 DEF ClosedConnEnds
=============================================================================
