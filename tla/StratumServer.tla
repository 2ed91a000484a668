---------------------------- MODULE StratumServer ----------------------------
(***************************************************************************)
(* One server.Server object of stratum/server/server.go, from the call of  *)
(* ListenAndServe[TLS] to the return of Shutdown, with the goroutines that *)
(* share it:                                                               *)
(*                                                                         *)
(*   - the serving goroutine (ListenAndServe, Serve and its accept loop),  *)
(*   - one goroutine per accepted connection (conn.serve), here reduced to *)
(*     what the server sees of it: its ConnState and its socket,           *)
(*   - the caller of Shutdown, with a context that expires.                *)
(*                                                                         *)
(* A step is a critical section under s.mu, one access to an atomic, or    *)
(* one system call.  Only closeIdleConns holds s.mu over several steps,    *)
(* because it reads the state of each connection and closes the socket at  *)
(* two different moments, while the connections go on.                     *)
(***************************************************************************)
EXTENDS Naturals, FiniteSets

CONSTANTS
  Conns,         (* the connections clients may open                       *)
  NoConn,        (* no connection                                          *)
  TLS,           (* does the configuration name a certificate and a key?   *)
  MaxPipelined   (* bound: complete lines left in a conn's bufio.Reader    *)

ASSUME ConnsAssumption == NoConn \notin Conns
ASSUME TLSAssumption == TLS \in BOOLEAN
ASSUME PipelinedAssumption == MaxPipelined \in Nat

VARIABLES
  (* fields of Server *)
  inShutdown,  (* the atomic flag                                          *)
  doneClosed,  (* doneChan is closed                                       *)
  muHeld,      (* s.mu is held by closeIdleConns                           *)
  tracked,     (* the listener is in s.listeners                           *)
  activeConn,  (* the set s.activeConn                                     *)
  (* the serving goroutine and its listener *)
  serve,       (* program counter                                          *)
  lsock,       (* the listening socket: "none", "open", "closed"           *)
  rw,          (* the connection Accept returned, until its goroutine runs *)
  acceptErr,   (* why Accept failed                                        *)
  serveRet,    (* what Serve returned                                      *)
  (* connections *)
  pc,          (* program counter of conn.serve                            *)
  rwc,         (* its socket: "none", "open", "closed"                     *)
  curState,    (* its ConnState; "zero" before the first setState          *)
  aged,        (* the time stamp of curState is more than 5 s old          *)
  buffered,    (* complete lines waiting in bufr                           *)
  next,        (* where the goroutine goes after setState(StateActive)     *)
  crashed,     (* a panic escaped from a goroutine: the process is gone    *)
  (* the caller of Shutdown *)
  shut,        (* program counter                                          *)
  toScan,      (* connections closeIdleConns has not visited yet           *)
  victim,      (* the connection it is about to close                      *)
  quiescent,   (* its result so far                                        *)
  lnerr,       (* closing the listener failed                              *)
  ctxDone      (* Shutdown's context has expired                           *)

srvVars   == <<inShutdown, doneClosed, muHeld, tracked, activeConn>>
serveVars == <<serve, lsock, rw, acceptErr, serveRet>>
connVars  == <<pc, rwc, curState, aged, buffered, next, crashed>>
shutVars  == <<shut, toScan, victim, quiescent, lnerr, ctxDone>>
vars      == <<srvVars, serveVars, connVars, shutVars>>

SocketStates == {"none", "open", "closed"}
ConnStates   == {"zero", "new", "active", "idle", "closed"}
ServeLabels  == {"start", "listen", "loadKeys", "track", "accept", "accepted",
                 "stamp", "acceptErr", "backoff", "untrack", "closeListener",
                 "returned"}
ConnLabels   == {"none", "handshake", "read", "store", "handle", "close",
                 "untrack", "end"}
ShutLabels   == {"idle", "closeListeners", "poll", "scan", "closeIdle",
                 "numListeners", "wait", "ok", "lnErr", "ctxErr"}
Returned     == {"ok", "lnErr", "ctxErr"}  \* what Shutdown returns

SrvTypeOK ==
  /\ inShutdown \in BOOLEAN /\ doneClosed \in BOOLEAN
  /\ muHeld \in BOOLEAN /\ tracked \in BOOLEAN
  /\ activeConn \in SUBSET Conns
  /\ serve \in ServeLabels /\ lsock \in SocketStates
  /\ rw \in Conns \cup {NoConn}
  /\ acceptErr \in {"none", "temporary", "permanent", "closed"}
  /\ serveRet \in {"none", "ErrServerClosed", "err"}

ConnTypeOK ==
  /\ pc \in [Conns -> ConnLabels]
  /\ rwc \in [Conns -> SocketStates]
  /\ curState \in [Conns -> ConnStates]
  /\ aged \in [Conns -> BOOLEAN]
  /\ buffered \in [Conns -> 0..MaxPipelined]
  /\ next \in [Conns -> {"none", "read", "handle", "close"}]
  /\ crashed \in BOOLEAN

ShutTypeOK ==
  /\ shut \in ShutLabels
  /\ toScan \in SUBSET Conns /\ victim \in Conns \cup {NoConn}
  /\ quiescent \in BOOLEAN /\ lnerr \in BOOLEAN /\ ctxDone \in BOOLEAN

(* Every variable keeps its type.                                          *)
TypeOK == SrvTypeOK /\ ConnTypeOK /\ ShutTypeOK

Init ==
  /\ inShutdown = FALSE /\ doneClosed = FALSE /\ muHeld = FALSE
  /\ tracked = FALSE /\ activeConn = {}
  /\ serve = "start" /\ lsock = "none" /\ rw = NoConn
  /\ acceptErr = "none" /\ serveRet = "none"
  /\ pc = [c \in Conns |-> "none"] /\ rwc = [c \in Conns |-> "none"]
  /\ curState = [c \in Conns |-> "zero"] /\ aged = [c \in Conns |-> FALSE]
  /\ buffered = [c \in Conns |-> 0] /\ next = [c \in Conns |-> "none"]
  /\ crashed = FALSE
  /\ shut = "idle" /\ toScan = {} /\ victim = NoConn
  /\ quiescent = FALSE /\ lnerr = FALSE /\ ctxDone = FALSE

-----------------------------------------------------------------------------
(* The serving goroutine.                                                  *)

(* ListenAndServe and ListenAndServeTLS start by looking at inShutdown.    *)
CheckShuttingDown ==
  /\ ~crashed /\ serve = "start"
  /\ \/ inShutdown /\ serve' = "returned" /\ serveRet' = "ErrServerClosed"
     \/ ~inShutdown /\ serve' = "listen" /\ UNCHANGED serveRet
  /\ UNCHANGED <<srvVars, lsock, rw, acceptErr, connVars, shutVars>>

(* net.Listen: the address may be in use.                                  *)
Listen ==
  /\ ~crashed /\ serve = "listen"
  /\ \/ /\ lsock' = "open"
        /\ serve' = IF TLS THEN "loadKeys" ELSE "track"
        /\ UNCHANGED serveRet
     \/ /\ serve' = "returned" /\ serveRet' = "err" /\ UNCHANGED lsock
  /\ UNCHANGED <<srvVars, rw, acceptErr, connVars, shutVars>>

(* ServeTLS reads the key pair; the deferred ln.Close() undoes the bind.   *)
LoadKeys ==
  /\ ~crashed /\ serve = "loadKeys"
  /\ \/ serve' = "track" /\ UNCHANGED serveRet
     \/ serve' = "closeListener" /\ serveRet' = "err"
  /\ UNCHANGED <<srvVars, lsock, rw, acceptErr, connVars, shutVars>>

(* Mutant: trackListener without the shuttingDown test.                    *)
TrackListenerUnchecked ==
  /\ ~crashed /\ serve = "track" /\ ~muHeld
  /\ tracked' = TRUE /\ serve' = "accept"
  /\ UNCHANGED <<inShutdown, doneClosed, muHeld, activeConn, lsock, rw,
                 acceptErr, serveRet, connVars, shutVars>>

(* Mutant: defer l.Close() placed after the trackListener test.            *)
TrackListenerLeaks ==
  /\ ~crashed /\ serve = "track" /\ ~muHeld
  /\ \/ /\ inShutdown
        /\ serve' = "returned" /\ serveRet' = "ErrServerClosed"
        /\ UNCHANGED tracked
     \/ /\ ~inShutdown
        /\ tracked' = TRUE /\ serve' = "accept" /\ UNCHANGED serveRet
  /\ UNCHANGED <<inShutdown, doneClosed, muHeld, activeConn, lsock, rw,
                 acceptErr, connVars, shutVars>>

(* trackListener(&l, true): refused once the server is shutting down.      *)
TrackListener ==
  /\ ~crashed /\ serve = "track" /\ ~muHeld
  /\ \/ /\ inShutdown
        /\ serve' = "closeListener" /\ serveRet' = "ErrServerClosed"
        /\ UNCHANGED tracked
     \/ /\ ~inShutdown
        /\ tracked' = TRUE /\ serve' = "accept" /\ UNCHANGED serveRet
  /\ UNCHANGED <<inShutdown, doneClosed, muHeld, activeConn, lsock, rw,
                 acceptErr, connVars, shutVars>>

(* l.Accept() returns a connection: rw is open, nobody tracks it yet.      *)
AcceptConn(c) ==
  /\ ~crashed /\ serve = "accept" /\ lsock = "open" /\ rwc[c] = "none"
  /\ rw' = c /\ rwc' = [rwc EXCEPT ![c] = "open"]
  /\ serve' = "accepted"
  /\ UNCHANGED <<srvVars, lsock, acceptErr, serveRet, pc, curState, aged,
                 buffered, next, crashed, shutVars>>

(* l.Accept() fails, because of the closed listener or for its own reasons.*)
AcceptFails(e) ==
  /\ ~crashed /\ serve = "accept"
  /\ (e = "closed") <=> (lsock = "closed")
  /\ acceptErr' = e /\ serve' = "acceptErr"
  /\ UNCHANGED <<srvVars, lsock, rw, serveRet, connVars, shutVars>>

(* Mutant: the done channel is not looked at, and whatever is not a known  *)
(* permanent error is retried.                                             *)
HandleAcceptErrorRetries ==
  /\ ~crashed /\ serve = "acceptErr" /\ ~muHeld
  /\ \/ acceptErr # "permanent" /\ serve' = "backoff" /\ UNCHANGED serveRet
     \/ acceptErr = "permanent" /\ serve' = "untrack" /\ serveRet' = "err"
  /\ UNCHANGED <<srvVars, lsock, rw, acceptErr, connVars, shutVars>>

(* The error branch: the done channel first, then the back-off that only a *)
(* temporary error gets.                                                   *)
HandleAcceptError ==
  /\ ~crashed /\ serve = "acceptErr" /\ ~muHeld
  /\ \/ /\ doneClosed
        /\ serve' = "untrack" /\ serveRet' = "ErrServerClosed"
     \/ /\ ~doneClosed /\ acceptErr = "temporary"
        /\ serve' = "backoff" /\ UNCHANGED serveRet
     \/ /\ ~doneClosed /\ acceptErr # "temporary"
        /\ serve' = "untrack" /\ serveRet' = "err"
  /\ UNCHANGED <<srvVars, lsock, rw, acceptErr, connVars, shutVars>>

(* time.Sleep(tempDelay); continue                                         *)
BackoffEnds ==
  /\ ~crashed /\ serve = "backoff" /\ serve' = "accept" /\ acceptErr' = "none"
  /\ UNCHANGED <<srvVars, lsock, rw, serveRet, connVars, shutVars>>

(* setState(StateNew), first half: trackConn(c, true) under s.mu.          *)
TrackConn ==
  /\ ~crashed /\ serve = "accepted" /\ ~muHeld
  /\ activeConn' = activeConn \cup {rw}
  /\ serve' = "stamp"
  /\ UNCHANGED <<inShutdown, doneClosed, muHeld, tracked, lsock, rw,
                 acceptErr, serveRet, connVars, shutVars>>

(* setState(StateNew), second half: store the stamped state; then spawn    *)
(* go c.serve and loop.                                                    *)
StartConn ==
  /\ ~crashed /\ serve = "stamp"
  /\ curState' = [curState EXCEPT ![rw] = "new"]
  /\ pc' = [pc EXCEPT ![rw] = IF TLS THEN "handshake" ELSE "read"]
  /\ rw' = NoConn /\ serve' = "accept"
  /\ UNCHANGED <<srvVars, lsock, acceptErr, serveRet, rwc, aged, buffered,
                 next, crashed, shutVars>>

(* Serve's deferred trackListener(&l, false), run before the other defer.  *)
UntrackListener ==
  /\ ~crashed /\ serve = "untrack" /\ ~muHeld
  /\ tracked' = FALSE /\ serve' = "closeListener"
  /\ UNCHANGED <<inShutdown, doneClosed, muHeld, activeConn, lsock, rw,
                 acceptErr, serveRet, connVars, shutVars>>

(* Serve's deferred l.Close(), through the sync.Once of onceCloseListener. *)
CloseListener ==
  /\ ~crashed /\ serve = "closeListener"
  /\ lsock' = "closed" /\ serve' = "returned"
  /\ UNCHANGED <<srvVars, rw, acceptErr, serveRet, connVars, shutVars>>

ServeStep ==
  \/ CheckShuttingDown \/ Listen \/ LoadKeys \/ TrackListener
  \/ HandleAcceptError \/ BackoffEnds \/ TrackConn \/ StartConn
  \/ UntrackListener \/ CloseListener

-----------------------------------------------------------------------------
(* The goroutine of connection c.                                          *)

(* Mutant: a failed handshake returns before the Close is deferred.        *)
HandshakeEndsAtOnce(c) ==
  /\ ~crashed /\ pc[c] = "handshake"
  /\ \/ rwc[c] = "open" /\ pc' = [pc EXCEPT ![c] = "read"] /\ UNCHANGED rwc
     \/ /\ pc' = [pc EXCEPT ![c] = "end"]
        /\ rwc' = [rwc EXCEPT ![c] = "closed"]
  /\ UNCHANGED <<srvVars, serveVars, curState, aged, buffered, next, crashed,
                 shutVars>>

(* The TLS handshake; when it fails the goroutine closes and returns.      *)
Handshake(c) ==
  /\ ~crashed /\ pc[c] = "handshake"
  /\ \/ rwc[c] = "open" /\ pc' = [pc EXCEPT ![c] = "read"] /\ UNCHANGED rwc
     \/ /\ pc' = [pc EXCEPT ![c] = "close"]
        /\ rwc' = [rwc EXCEPT ![c] = "closed"]
  /\ UNCHANGED <<srvVars, serveVars, curState, aged, buffered, next, crashed,
                 shutVars>>

(* Mutant: the error of a closed socket taken for a temporary one.         *)
ReadWireRetries(c) ==
  /\ ~crashed /\ pc[c] = "read" /\ buffered[c] = 0
  /\ pc' = [pc EXCEPT ![c] = "store"]
  /\ \E k \in 0..MaxPipelined : buffered' = [buffered EXCEPT ![c] = k]
  /\ next' \in {[next EXCEPT ![c] = l] : l \in {"handle", "read", "close"}}
  /\ UNCHANGED <<srvVars, serveVars, rwc, curState, aged, crashed, shutVars>>

(* readMessage takes bytes off the wire: a line to handle, with further    *)
(* lines left in the buffer, or a temporary network error half-way, or     *)
(* anything that ends the connection (malformed JSON, an oversized line,   *)
(* an error after a partial line).                                         *)
ReadWire(c) ==
  /\ ~crashed /\ pc[c] = "read" /\ buffered[c] = 0
  /\ pc' = [pc EXCEPT ![c] = "store"]
  /\ \/ /\ rwc[c] = "open"
        /\ \E k \in 0..MaxPipelined : buffered' = [buffered EXCEPT ![c] = k]
        /\ next' = [next EXCEPT ![c] = "handle"]
     \/ /\ rwc[c] = "open" /\ next' = [next EXCEPT ![c] = "read"]
        /\ UNCHANGED buffered
     \/ next' = [next EXCEPT ![c] = "close"] /\ UNCHANGED buffered
  /\ UNCHANGED <<srvVars, serveVars, rwc, curState, aged, crashed, shutVars>>

(* readMessage fails before any byte: EOF, the read deadline, a closed     *)
(* socket.  c.r.remain is untouched, so there is no setState.              *)
ReadFails(c) ==
  /\ ~crashed /\ pc[c] = "read" /\ buffered[c] = 0
  /\ pc' = [pc EXCEPT ![c] = "close"]
  /\ UNCHANGED <<srvVars, serveVars, rwc, curState, aged, buffered, next,
                 crashed, shutVars>>

(* Mutant: a line is taken out of bufr whether or not there is one.        *)
ReadBufferedUnchecked(c) ==
  /\ ~crashed /\ pc[c] = "read"
  /\ buffered' = [buffered EXCEPT ![c] = @ - 1]
  /\ \E l \in {"handle", "close"} : pc' = [pc EXCEPT ![c] = l]
  /\ UNCHANGED <<srvVars, serveVars, rwc, curState, aged, next, crashed,
                 shutVars>>

(* readMessage finds a whole line in bufr: no read, so no setState either. *)
ReadBuffered(c) ==
  /\ ~crashed /\ pc[c] = "read" /\ buffered[c] > 0
  /\ buffered' = [buffered EXCEPT ![c] = @ - 1]
  /\ \E l \in {"handle", "close"} : pc' = [pc EXCEPT ![c] = l]
  /\ UNCHANGED <<srvVars, serveVars, rwc, curState, aged, next, crashed,
                 shutVars>>

(* setState(StateActive): a store to an atomic, without s.mu.              *)
SetActive(c) ==
  /\ ~crashed /\ pc[c] = "store"
  /\ curState' = [curState EXCEPT ![c] = "active"]
  /\ aged' = [aged EXCEPT ![c] = FALSE]
  /\ pc' = [pc EXCEPT ![c] = next[c]]
  /\ next' = [next EXCEPT ![c] = "none"]
  /\ UNCHANGED <<srvVars, serveVars, rwc, buffered, crashed, shutVars>>

(* The message switch and the reply: on to the next message, or return     *)
(* (a send failed, a run-time panic was recovered).                        *)
Handle(c) ==
  /\ ~crashed /\ pc[c] = "handle"
  /\ \E l \in {"read", "close"} : pc' = [pc EXCEPT ![c] = l]
  /\ UNCHANGED <<srvVars, serveVars, rwc, curState, aged, buffered, next,
                 crashed, shutVars>>

(* mining.submit panics with a string; the recovering function asserts     *)
(* err.(error), panics again, and nothing recovers that.                   *)
Crash(c) ==
  /\ ~crashed /\ pc[c] = "handle" /\ crashed' = TRUE
  /\ UNCHANGED <<srvVars, serveVars, pc, rwc, curState, aged, buffered, next,
                 shutVars>>

(* The deferred c.Close(): flush, give the buffers back, close the socket. *)
CloseConn(c) ==
  /\ ~crashed /\ pc[c] = "close"
  /\ pc' = [pc EXCEPT ![c] = "untrack"]
  /\ rwc' = [rwc EXCEPT ![c] = "closed"]
  /\ buffered' = [buffered EXCEPT ![c] = 0]
  /\ UNCHANGED <<srvVars, serveVars, curState, aged, next, crashed, shutVars>>

(* Mutant: setState(StateClosed) stores the state and forgets the set.     *)
EndConnStaysTracked(c) ==
  /\ ~crashed /\ pc[c] = "untrack" /\ ~muHeld
  /\ curState' = [curState EXCEPT ![c] = "closed"]
  /\ pc' = [pc EXCEPT ![c] = "end"] /\ aged' = [aged EXCEPT ![c] = FALSE]
  /\ UNCHANGED <<srvVars, serveVars, rwc, buffered, next, crashed, shutVars>>

(* The deferred setState(StateClosed): trackConn(c, false) under s.mu, and *)
(* a store that nobody can read any more.                                  *)
EndConn(c) ==
  /\ ~crashed /\ pc[c] = "untrack" /\ ~muHeld
  /\ activeConn' = activeConn \ {c}
  /\ curState' = [curState EXCEPT ![c] = "closed"]
  /\ pc' = [pc EXCEPT ![c] = "end"] /\ aged' = [aged EXCEPT ![c] = FALSE]
  /\ UNCHANGED <<inShutdown, doneClosed, muHeld, tracked, serveVars, rwc,
                 buffered, next, crashed, shutVars>>

ConnStep(c) ==
  \/ Handshake(c) \/ ReadWire(c) \/ ReadFails(c) \/ ReadBuffered(c)
  \/ SetActive(c) \/ Handle(c) \/ Crash(c) \/ CloseConn(c) \/ EndConn(c)

(* More than 5 s pass on the wall clock since c was stamped StateNew.      *)
Age(c) ==
  /\ ~crashed /\ curState[c] = "new" /\ ~aged[c]
  /\ aged' = [aged EXCEPT ![c] = TRUE]
  /\ UNCHANGED <<srvVars, serveVars, pc, rwc, curState, buffered, next,
                 crashed, shutVars>>

-----------------------------------------------------------------------------
(* The caller of Shutdown.                                                 *)

(* s.inShutdown.setTrue(), before s.mu is taken.                           *)
CallShutdown ==
  /\ ~crashed /\ shut = "idle"
  /\ inShutdown' = TRUE /\ shut' = "closeListeners"
  /\ UNCHANGED <<doneClosed, muHeld, tracked, activeConn, serveVars, connVars,
                 toScan, victim, quiescent, lnerr, ctxDone>>

(* Mutant: doneChan is never closed.                                       *)
CloseListenersKeepsDone ==
  /\ ~crashed /\ shut = "closeListeners" /\ ~muHeld
  /\ lsock' = IF tracked THEN "closed" ELSE lsock
  /\ lnerr' \in IF tracked THEN BOOLEAN ELSE {FALSE}
  /\ shut' = "poll"
  /\ UNCHANGED <<srvVars, serve, rw, acceptErr, serveRet, connVars, toScan,
                 victim, quiescent, ctxDone>>

(* Under s.mu: close the listeners, close doneChan (once), run the hooks   *)
(* (this program registers none).                                          *)
CloseListeners ==
  /\ ~crashed /\ shut = "closeListeners" /\ ~muHeld
  /\ lsock' = IF tracked THEN "closed" ELSE lsock
  /\ lnerr' \in IF tracked THEN BOOLEAN ELSE {FALSE}
  /\ doneClosed' = TRUE /\ shut' = "poll"
  /\ UNCHANGED <<inShutdown, muHeld, tracked, activeConn, serve, rw, acceptErr,
                 serveRet, connVars, toScan, victim, quiescent, ctxDone>>

(* closeIdleConns takes s.mu.                                              *)
StartScan ==
  /\ ~crashed /\ shut = "poll" /\ ~muHeld
  /\ muHeld' = TRUE /\ toScan' = activeConn /\ quiescent' = TRUE
  /\ shut' = "scan"
  /\ UNCHANGED <<inShutdown, doneClosed, tracked, activeConn, serveVars,
                 connVars, victim, lnerr, ctxDone>>

(* Mutant: without the test unixSec == 0.                                  *)
LooksIdleUnstamped(c) ==
  \/ curState[c] \in {"idle", "zero"}
  \/ curState[c] = "new" /\ aged[c]

(* What closeIdleConns makes of the packed state it loads: a StateNew      *)
(* stamped more than 5 s ago counts as idle, and so would the zero word    *)
(* (StateNew, stamped in 1970) but for the test unixSec == 0.              *)
LooksIdle(c) ==
  LET unixSecZero == curState[c] = "zero"
      isNew       == curState[c] \in {"zero", "new"}
      old         == unixSecZero \/ aged[c]
  IN  /\ curState[c] = "idle" \/ (isNew /\ old)
      /\ ~unixSecZero

(* Mutant: a busy connection is skipped, but does not clear quiescent.     *)
ScanConnForgetsBusy(c) ==
  /\ ~crashed /\ shut = "scan" /\ c \in toScan
  /\ toScan' = toScan \ {c}
  /\ \/ LooksIdle(c) /\ victim' = c /\ shut' = "closeIdle"
     \/ ~LooksIdle(c) /\ UNCHANGED <<victim, shut>>
  /\ UNCHANGED <<srvVars, serveVars, connVars, quiescent, lnerr, ctxDone>>

(* One iteration of closeIdleConns' loop, up to its decision.              *)
ScanConn(c) ==
  /\ ~crashed /\ shut = "scan" /\ c \in toScan
  /\ toScan' = toScan \ {c}
  /\ \/ /\ LooksIdle(c)
        /\ victim' = c /\ shut' = "closeIdle" /\ UNCHANGED quiescent
     \/ /\ ~LooksIdle(c)
        /\ quiescent' = FALSE /\ UNCHANGED <<victim, shut>>
  /\ UNCHANGED <<srvVars, serveVars, connVars, lnerr, ctxDone>>

(* c.rwc.Close(); delete(s.activeConn, c)                                  *)
CloseIdle ==
  /\ ~crashed /\ shut = "closeIdle"
  /\ rwc' = [rwc EXCEPT ![victim] = "closed"]
  /\ activeConn' = activeConn \ {victim}
  /\ victim' = NoConn /\ shut' = "scan"
  /\ UNCHANGED <<inShutdown, doneClosed, muHeld, tracked, serveVars, pc,
                 curState, aged, buffered, next, crashed, toScan, quiescent,
                 lnerr, ctxDone>>

(* closeIdleConns releases s.mu and returns quiescent.                     *)
EndScan ==
  /\ ~crashed /\ shut = "scan" /\ toScan = {}
  /\ muHeld' = FALSE
  /\ shut' = IF quiescent THEN "numListeners" ELSE "wait"
  /\ UNCHANGED <<inShutdown, doneClosed, tracked, activeConn, serveVars,
                 connVars, toScan, victim, quiescent, lnerr, ctxDone>>

(* Mutant: the listeners are not counted.                                  *)
NumListenersIgnored ==
  /\ ~crashed /\ shut = "numListeners" /\ ~muHeld
  /\ shut' = IF lnerr THEN "lnErr" ELSE "ok"
  /\ UNCHANGED <<srvVars, serveVars, connVars, toScan, victim, quiescent,
                 lnerr, ctxDone>>

(* ... && s.numListeners() == 0, under s.mu again: Shutdown may return.    *)
NumListeners ==
  /\ ~crashed /\ shut = "numListeners" /\ ~muHeld
  /\ shut' = CASE tracked -> "wait"
               [] ~tracked /\ lnerr -> "lnErr"
               [] ~tracked /\ ~lnerr -> "ok"
  /\ UNCHANGED <<srvVars, serveVars, connVars, toScan, victim, quiescent,
                 lnerr, ctxDone>>

(* The select of Shutdown: its ticker.                                     *)
Tick ==
  /\ ~crashed /\ shut = "wait" /\ shut' = "poll"
  /\ UNCHANGED <<srvVars, serveVars, connVars, toScan, victim, quiescent,
                 lnerr, ctxDone>>

(* Mutant: the context is looked at only when no connection is left.       *)
SelectDoneWhenEmpty ==
  /\ ~crashed /\ shut = "wait" /\ ctxDone /\ activeConn = {}
  /\ shut' = "ctxErr"
  /\ UNCHANGED <<srvVars, serveVars, connVars, toScan, victim, quiescent,
                 lnerr, ctxDone>>

(* The select of Shutdown: its context.                                    *)
SelectDone ==
  /\ ~crashed /\ shut = "wait" /\ ctxDone /\ shut' = "ctxErr"
  /\ UNCHANGED <<srvVars, serveVars, connVars, toScan, victim, quiescent,
                 lnerr, ctxDone>>

ShutdownStep ==
  \/ CloseListeners \/ StartScan \/ (\E c \in Conns : ScanConn(c))
  \/ CloseIdle \/ EndScan \/ NumListeners \/ Tick

(* The caller's 10 s are over.                                             *)
Deadline ==
  /\ ~crashed /\ shut \notin {"idle"} \cup Returned /\ ~ctxDone
  /\ ctxDone' = TRUE
  /\ UNCHANGED <<srvVars, serveVars, connVars, shut, toScan, victim, quiescent,
                 lnerr>>

-----------------------------------------------------------------------------
(* Nothing is left to run: every goroutine has returned, or the process    *)
(* has crashed.                                                            *)
Terminated ==
  /\ \/ crashed
     \/ /\ serve = "returned" /\ shut \in Returned
        /\ \A c \in Conns : pc[c] \in {"none", "end"}
  /\ UNCHANGED vars

Next ==
  \/ ServeStep
  \/ \E c \in Conns : AcceptConn(c) \/ ConnStep(c) \/ Age(c)
  \/ \E e \in {"temporary", "permanent", "closed"} : AcceptFails(e)
  \/ CallShutdown \/ ShutdownStep \/ SelectDone \/ Deadline
  \/ Terminated

Spec == Init /\ [][Next]_vars

(* The Go scheduler runs every goroutine that can run, Accept fails once    *)
(* the listener is closed, reads end (the server sets a read deadline), a   *)
(* timer fires.  When the ticker and the context are ready at every turn,   *)
(* select takes each of them with probability 1/2: it does not always pass  *)
(* over the context.  Clients, Age and CallShutdown owe nothing.            *)
ConnFairness(c) == WF_vars(ConnStep(c))

Fairness ==
  /\ WF_vars(ServeStep)
  /\ WF_vars(AcceptFails("closed"))
  /\ \A c \in Conns : ConnFairness(c)
  /\ WF_vars(ShutdownStep)
  /\ WF_vars(Deadline)
  /\ SF_vars(SelectDone)

FairSpec == Spec /\ Fairness

-----------------------------------------------------------------------------
(* Safety.                                                                 *)

AcceptLoop  == {"accept", "accepted", "stamp", "acceptErr", "backoff"}
Unstarted   == {"start", "listen", "loadKeys", "track"}
OpenConns   == {c \in Conns : rwc[c] = "open"}
AcceptedNow == IF serve = "accepted" THEN {rw} ELSE {}

(* Shutdown can reach every open socket: a connection whose socket is open *)
(* is in activeConn, except between Accept and trackConn, and a goroutine  *)
(* that has ended leaves nothing behind in activeConn.                     *)
OpenConnsTracked ==
  /\ OpenConns \subseteq activeConn \cup AcceptedNow
  /\ \A c \in activeConn : pc[c] # "end"

(* closeIdleConns never picks a connection that the accept loop has put in *)
(* activeConn and not started yet, nor a fresh one: the state it loaded    *)
(* was stamped, and a StateNew that is still there is over 5 s old.        *)
VictimWasStale ==
  shut = "closeIdle" => /\ pc[victim] # "none"
                        /\ curState[victim] = "new" => aged[victim]

(* When Shutdown returns without the context's error the accept loop is    *)
(* over, with no accepted connection on its way to activeConn, and the     *)
(* server is drained, but for one connection at most: the one Accept       *)
(* returned before the listener was closed and trackConn added after       *)
(* closeIdleConns had released s.mu.                                       *)
DrainedButOne ==
  shut \in {"ok", "lnErr"} =>
    /\ serve \notin AcceptLoop /\ rw = NoConn
    /\ \A c, d \in OpenConns : c = d

(* When the serving call has returned its socket is not left open,         *)
(* whatever the reason, for Runtime binds the same address again; and an   *)
(* Accept that failed because Shutdown closed the listener never comes out *)
(* as an error of the network: Serve returns ErrServerClosed.              *)
CleanReturn ==
  /\ serve = "returned" => lsock # "open"
  /\ serveRet = "err" => acceptErr # "closed"

(* No step accepts a connection once Shutdown has closed the listeners,    *)
(* even if Serve got its listener before, and registers it after.          *)
NoAcceptAfterClose ==
  [][doneClosed => \A c \in Conns : rwc[c] = "none" => rwc'[c] = "none"]_vars

(* The server keeps the contract its owner relies on.                      *)
ServingPhase == CASE serve \in Unstarted              -> "no"
                  [] serve \in AcceptLoop \cup {"untrack"} -> "yes"
                  [] serve = "closeListener"          -> "stopping"
                  [] serve = "returned"               -> "returned"
ShutdownPhase == CASE shut = "idle"              -> "no"
                   [] shut = "closeListeners"    -> "called"
                   [] shut \in {"ok", "lnErr"}   -> "done"
                   [] shut = "ctxErr"            -> "expired"
                   [] OTHER                      -> "draining"
AcceptedConns == {c \in Conns : rwc[c] # "none"}

Contract == INSTANCE ServerContract WITH
  serving <- ServingPhase, listener <- lsock, shutdown <- ShutdownPhase,
  accepted <- AcceptedConns, open <- OpenConns

ImplementsContract == Contract!ContractSpec

(* The server sees a connection live as the session does.                  *)
LifeOf(c) == CASE pc[c] \in {"none", "handshake"}  -> "setup"
               [] pc[c] \in {"read", "store"}      -> "waiting"
               [] pc[c] = "handle"                 -> "handling"
               [] pc[c] \in {"close", "untrack"}   -> "closing"
               [] pc[c] = "end"                    -> "ended"

Life == INSTANCE ConnLife WITH
  life <- [c \in Conns |-> LifeOf(c)], down <- crashed

ImplementsConnLife == Life!LifeSpec

(* When the fair actions can be taken, in terms of the state alone.        *)
ShutBusy == shut \notin {"idle"} \cup Returned
CanShutdownStep ==
  \/ shut \in {"closeListeners", "poll", "numListeners"} /\ ~muHeld
  \/ shut = "scan" /\ (toScan = {} \/ \E c \in Conns : c \in toScan)
  \/ shut \in {"closeIdle", "wait"}
CanServeStep ==
  \/ serve \in {"start", "listen", "loadKeys", "stamp", "backoff",
                "closeListener"}
  \/ serve \in {"track", "accepted", "acceptErr", "untrack"} /\ ~muHeld
CanConnStep(c) ==
  \/ pc[c] \in {"handshake", "read", "store", "handle", "close"}
  \/ pc[c] = "untrack" /\ ~muHeld
CanAcceptFail == serve = "accept" /\ lsock = "closed"

(* An action can be taken when its guard holds.                            *)
GuardsSuffice ==
  ~crashed =>
    /\ CanShutdownStep => ENABLED <<ShutdownStep>>_vars
    /\ ShutBusy /\ ~ctxDone => ENABLED <<Deadline>>_vars
    /\ ctxDone /\ shut = "wait" => ENABLED <<SelectDone>>_vars
    /\ CanServeStep => ENABLED <<ServeStep>>_vars
    /\ CanAcceptFail => ENABLED <<AcceptFails("closed")>>_vars
    /\ \A c \in Conns : CanConnStep(c) => ENABLED <<ConnStep(c)>>_vars

(* The shutdown loop can always go on, s.mu is held only by one who will   *)
(* release it and is all that can hold up the serving goroutine or a       *)
(* connection, and when Shutdown has returned the accept loop is not in an *)
(* Accept on an open listener.                                             *)
CanGoOn ==
  /\ ShutBusy \/ muHeld => CanShutdownStep
  /\ shut \in Returned /\ serve = "accept" => CanAcceptFail
  /\ ~muHeld =>
       /\ serve \notin {"accept", "returned"} => CanServeStep
       /\ \A c \in Conns : pc[c] \notin {"none", "end"} => CanConnStep(c)

(* Nobody waits for what cannot come.                                      *)
NobodyStuck == GuardsSuffice /\ CanGoOn

-----------------------------------------------------------------------------
(* Liveness, under FairSpec.                                               *)

(* Shutdown returns: at the latest when its context expires.               *)
ShutdownReturns == shut # "idle" ~> shut \in Returned \/ crashed

(* After Shutdown the serving call returns, from wherever it was.          *)
ServeReturns == shut # "idle" ~> serve = "returned" \/ crashed

(* A connection whose socket is closed, by Shutdown or by itself, ends and *)
(* leaves activeConn, however many lines its buffer still holds.           *)
ConnEnds(c) ==
  rwc[c] = "closed" ~> (pc[c] = "end" /\ c \notin activeConn) \/ crashed

ClosedConnEnds == \A c \in Conns : ConnEnds(c)

-----------------------------------------------------------------------------
(* What the comments say, and the code does not do.                        *)

(* "Shutdown gracefully shuts down the server": a Shutdown that returns    *)
(* nil leaves no connection behind.                                        *)
ShutdownDrains == shut = "ok" => activeConn = {}

(* "without interrupting any active connections": no socket is closed      *)
(* under a goroutine that is handling a request.                           *)
ActiveUninterrupted ==
  [][\A c \in Conns :
       pc[c] = "handle" /\ rwc[c] = "open" => rwc'[c] = "open"]_vars

(* "After the request is handled, the state transitions to StateClosed,    *)
(* StateHijacked, or StateIdle."                                           *)
HandledBecomesIdle ==
  \A c \in Conns :
    pc[c] = "handle" ~> curState[c] \in {"idle", "closed"} \/ crashed
=============================================================================
