----------------------------- MODULE StratumConn -----------------------------
(***************************************************************************)
(* The session of a miner: conn.serve of stratum/server/conn.go from the   *)
(* TLS handshake on, with the message handlers of client.go, and the two   *)
(* sync.Pools of server.go through which connections pass on their         *)
(* bufio.Reader and bufio.Writer.  One goroutine per connection; a step is *)
(* one access to a pool, one message read, one handler, or one message     *)
(* written.  StratumServer models the same goroutine as the server sees it *)
(* (its state and its socket).                                             *)
(***************************************************************************)
EXTENDS Naturals, Sequences, SequencesExt

CONSTANTS
  Conns,       (* the connections                                          *)
  Readers,     (* bound: the bufio.Readers that may be allocated           *)
  Writers,     (* bound: the bufio.Writers that may be allocated           *)
  None,        (* nil                                                      *)
  MaxRequests  (* bound: requests of one connection                        *)

ASSUME NoneAssumption == None \notin Conns \cup Readers \cup Writers
ASSUME RequestsAssumption == MaxRequests \in Nat

VARIABLES
  (* the pools and what is in them *)
  rpool,    (* copies of each Reader in bufioReaderPool                    *)
  wpool,    (* copies of each Writer in bufioWriter4kPool                  *)
  rmade,    (* the Readers that exist                                      *)
  wmade,    (* the Writers that exist                                      *)
  rsrc,     (* the connection a Reader reads from                          *)
  wdst,     (* the connection a Writer writes to                           *)
  sticky,   (* a Writer has failed: bufio.Writer.err                       *)
  (* a connection *)
  pc,       (* program counter of conn.serve                               *)
  bufr,     (* c.bufr                                                      *)
  bufw,     (* c.bufw                                                      *)
  werr,     (* c.werr is set: a write to the socket failed                 *)
  resp,     (* the response of the handler                                 *)
  failed,   (* the err that the end of the loop looks at                   *)
  allowed,  (* worker.IsAuthorized                                         *)
  requests, (* the requests read so far                                    *)
  wire,     (* the messages sent to the client                             *)
  crashed   (* a panic escaped: the process is gone                        *)

rVars    == <<rpool, rmade, rsrc, bufr>>
wVars    == <<wpool, wmade, wdst, sticky, bufw>>
sendVars == <<werr, failed, wire>>
workVars == <<resp, allowed, requests>>
vars     == <<rVars, wVars, sendVars, workVars, pc, crashed>>

(* A worker whose name has not the right form is refused ("badName").       *)
(* "faulty" stands for the messages that make a handler hit a run-time     *)
(* error: null, and too few params for authorize or submit.                *)
Methods == {"subscribe", "authorize", "badName", "submit", "unknown", "faulty"}
Labels  == {"start", "getWriter", "read", "dispatch", "auth", "difficulty",
            "job", "reply", "halfReader", "halfWriter", "closeReader",
            "closeWriter", "closeSocket", "end"}

(* What is sent to a client: responses bear the number of their request.   *)
Result(n)     == [type |-> "result", to |-> n]
Error(n)      == [type |-> "error", to |-> n]
SetDifficulty == [type |-> "set_difficulty", to |-> 0]
NotifyJob     == [type |-> "notify", to |-> 0]
Responses     == {Result(n) : n \in 1..MaxRequests}
                   \cup {Error(n) : n \in 1..MaxRequests}
Messages      == Responses \cup {SetDifficulty, NotifyJob}

ReaderTypeOK ==
  /\ rpool \in [Readers -> Nat] /\ rmade \in SUBSET Readers
  /\ rsrc \in [Readers -> Conns \cup {None}]
  /\ bufr \in [Conns -> Readers \cup {None}]

WriterTypeOK ==
  /\ wpool \in [Writers -> Nat] /\ wmade \in SUBSET Writers
  /\ wdst \in [Writers -> Conns \cup {None}]
  /\ sticky \in [Writers -> BOOLEAN]
  /\ bufw \in [Conns -> Writers \cup {None}]

SessionTypeOK ==
  /\ pc \in [Conns -> Labels] /\ crashed \in BOOLEAN
  /\ werr \in [Conns -> BOOLEAN] /\ failed \in [Conns -> BOOLEAN]
  /\ wire \in [Conns -> Seq(Messages)]
  /\ resp \in [Conns -> Responses \cup {None}]
  /\ allowed \in [Conns -> BOOLEAN]
  /\ requests \in [Conns -> Seq(Methods)]
  /\ \A c \in Conns : Len(requests[c]) <= MaxRequests

(* Every variable keeps its type.                                          *)
TypeOK == ReaderTypeOK /\ WriterTypeOK /\ SessionTypeOK

Init ==
  /\ rpool = [r \in Readers |-> 0] /\ wpool = [w \in Writers |-> 0]
  /\ rmade = {} /\ wmade = {}
  /\ rsrc = [r \in Readers |-> None] /\ wdst = [w \in Writers |-> None]
  /\ sticky = [w \in Writers |-> FALSE]
  /\ pc = [c \in Conns |-> "start"]
  /\ bufr = [c \in Conns |-> None] /\ bufw = [c \in Conns |-> None]
  /\ werr = [c \in Conns |-> FALSE] /\ failed = [c \in Conns |-> FALSE]
  /\ resp = [c \in Conns |-> None] /\ allowed = [c \in Conns |-> FALSE]
  /\ requests = [c \in Conns |-> <<>>] /\ wire = [c \in Conns |-> <<>>]
  /\ crashed = FALSE

At(c, l)   == ~crashed /\ pc[c] = l
Goto(c, l) == pc' = [pc EXCEPT ![c] = l]
Method(c)  == Last(requests[c])
Number(c)  == Len(requests[c])

(* serve gives up before it has a Reader or a Writer.                      *)
HandshakeFails(c) ==
  /\ At(c, "start") /\ Goto(c, "closeReader")
  /\ UNCHANGED <<rVars, wVars, sendVars, workVars, crashed>>

-----------------------------------------------------------------------------
(* The pools.                                                              *)

(* Mutant: the nil of an empty pool is not looked at.                      *)
GetReaderUnchecked(c) ==
  /\ At(c, "start")
  /\ \E r \in Readers :
       /\ rpool' = [rpool EXCEPT ![r] = @ - 1] /\ UNCHANGED rmade
       /\ rsrc' = [rsrc EXCEPT ![r] = c] /\ bufr' = [bufr EXCEPT ![c] = r]
  /\ Goto(c, "getWriter")
  /\ UNCHANGED <<wVars, sendVars, workVars, crashed>>

(* newBufioReader: a pooled Reader, or a new one (Get may find none even   *)
(* when there are some); either way it is reset to read from c.            *)
GetReader(c) ==
  /\ At(c, "start")
  /\ \E r \in Readers :
       /\ \/ rpool[r] > 0 /\ rpool' = [rpool EXCEPT ![r] = @ - 1]
             /\ UNCHANGED rmade
          \/ r \notin rmade /\ rmade' = rmade \cup {r} /\ UNCHANGED rpool
       /\ rsrc' = [rsrc EXCEPT ![r] = c] /\ bufr' = [bufr EXCEPT ![c] = r]
  /\ Goto(c, "getWriter")
  /\ UNCHANGED <<wVars, sendVars, workVars, crashed>>

(* newBufioWriterSize.                                                     *)
GetWriter(c) ==
  /\ At(c, "getWriter")
  /\ \E w \in Writers :
       /\ \/ wpool[w] > 0 /\ wpool' = [wpool EXCEPT ![w] = @ - 1]
             /\ UNCHANGED wmade
          \/ w \notin wmade /\ wmade' = wmade \cup {w} /\ UNCHANGED wpool
       /\ wdst' = [wdst EXCEPT ![w] = c] /\ bufw' = [bufw EXCEPT ![c] = w]
       /\ sticky' = [sticky EXCEPT ![w] = FALSE]
  /\ Goto(c, "read")
  /\ UNCHANGED <<rVars, sendVars, workVars, crashed>>

(* finalFlush runs twice on a malformed message: in closeWriteAndWait and  *)
(* in the deferred Close.                                                  *)
FlushReader(c) ==
  \/ At(c, "halfReader") /\ Goto(c, "halfWriter")
  \/ At(c, "closeReader") /\ Goto(c, "closeWriter")

FlushWriter(c) ==
  \/ At(c, "halfWriter") /\ Goto(c, "closeReader")
  \/ At(c, "closeWriter") /\ Goto(c, "closeSocket")

(* Mutant: without c.bufr = nil.                                           *)
PutReaderKeeps(c) ==
  /\ FlushReader(c)
  /\ rpool' = [rpool EXCEPT ![bufr[c]] = @ + 1]
  /\ rsrc' = [rsrc EXCEPT ![bufr[c]] = None]
  /\ UNCHANGED <<rmade, bufr, wVars, sendVars, workVars, crashed>>

(* The first half of finalFlush: reset the Reader and put it back, once.   *)
PutReader(c) ==
  /\ FlushReader(c)
  /\ \/ /\ bufr[c] # None
        /\ rpool' = [rpool EXCEPT ![bufr[c]] = @ + 1]
        /\ rsrc' = [rsrc EXCEPT ![bufr[c]] = None]
        /\ bufr' = [bufr EXCEPT ![c] = None]
     \/ bufr[c] = None /\ UNCHANGED <<rpool, rsrc, bufr>>
  /\ UNCHANGED <<rmade, wVars, sendVars, workVars, crashed>>

(* Mutant: the Writer is pooled as it is, without Reset(nil).              *)
PutWriterAsIs(c) ==
  /\ FlushWriter(c)
  /\ \/ /\ bufw[c] # None
        /\ wpool' = [wpool EXCEPT ![bufw[c]] = @ + 1]
        /\ bufw' = [bufw EXCEPT ![c] = None]
     \/ bufw[c] = None /\ UNCHANGED <<wpool, bufw>>
  /\ UNCHANGED <<wmade, wdst, sticky, rVars, sendVars, workVars, crashed>>

(* The second half: there is nothing left to flush, because SendJsonRPC    *)
(* flushes every message or leaves the Writer with its error.              *)
PutWriter(c) ==
  /\ FlushWriter(c)
  /\ \/ /\ bufw[c] # None
        /\ wpool' = [wpool EXCEPT ![bufw[c]] = @ + 1]
        /\ wdst' = [wdst EXCEPT ![bufw[c]] = None]
        /\ sticky' = [sticky EXCEPT ![bufw[c]] = FALSE]
        /\ bufw' = [bufw EXCEPT ![c] = None]
     \/ bufw[c] = None /\ UNCHANGED <<wpool, wdst, sticky, bufw>>
  /\ UNCHANGED <<wmade, rVars, sendVars, workVars, crashed>>

(* c.rwc.Close() and setState(StateClosed), the end of the goroutine.      *)
CloseSocket(c) ==
  /\ At(c, "closeSocket") /\ Goto(c, "end")
  /\ UNCHANGED <<rVars, wVars, sendVars, workVars, crashed>>

-----------------------------------------------------------------------------
(* Reading and dispatching messages.                                       *)

(* readMessage returns a message of some method.                           *)
ReadMessage(c, m) ==
  /\ At(c, "read") /\ Len(requests[c]) < MaxRequests
  /\ requests' = [requests EXCEPT ![c] = Append(@, m)]
  /\ resp' = [resp EXCEPT ![c] = None]
  /\ failed' = [failed EXCEPT ![c] = FALSE]
  /\ Goto(c, "dispatch")
  /\ UNCHANGED <<rVars, wVars, werr, wire, allowed, crashed>>

(* It cannot parse the line, and closes the write side before it returns.  *)
ReadMalformed(c) ==
  /\ At(c, "read") /\ Goto(c, "halfReader")
  /\ UNCHANGED <<rVars, wVars, sendVars, workVars, crashed>>

(* Any other error but a temporary one: EOF, time-out, a closed socket.    *)
ReadFails(c) ==
  /\ At(c, "read") /\ Goto(c, "closeReader")
  /\ UNCHANGED <<rVars, wVars, sendVars, workVars, crashed>>

(* The switch on message.Method.  HandleSubscribe leaves its response to   *)
(* the end of the loop.                                                    *)
HandleSubscribe(c) ==
  /\ At(c, "dispatch") /\ Method(c) = "subscribe"
  /\ resp' = [resp EXCEPT ![c] = Result(Number(c))] /\ Goto(c, "reply")
  /\ UNCHANGED <<rVars, wVars, sendVars, allowed, requests, crashed>>

(* After HandleAuthorize the case itself starts sending.  A refused worker *)
(* takes the same way: the error is logged, and overwritten.               *)
HandleAuthorize(c) ==
  LET authorized == Method(c) = "authorize" IN
  /\ At(c, "dispatch") /\ Method(c) \in {"authorize", "badName"}
  /\ allowed' = [allowed EXCEPT ![c] = authorized]
  /\ resp' = [resp EXCEPT ![c] = IF authorized THEN Result(Number(c))
                                  ELSE Error(Number(c))]
  /\ Goto(c, "auth")
  /\ UNCHANGED <<rVars, wVars, sendVars, requests, crashed>>

HandleUnknown(c) ==
  /\ At(c, "dispatch") /\ Method(c) = "unknown" /\ Goto(c, "read")
  /\ UNCHANGED <<rVars, wVars, sendVars, workVars, crashed>>

(* A run-time error is an error: serve recovers and closes.                *)
Recover(c) ==
  /\ At(c, "dispatch") /\ Method(c) = "faulty" /\ Goto(c, "closeReader")
  /\ UNCHANGED <<rVars, wVars, sendVars, workVars, crashed>>

(* A complete submit panics with a string.  The recovering function takes  *)
(* it for an error and panics in turn, which nothing recovers.             *)
HandleSubmit(c) ==
  /\ At(c, "dispatch") /\ Method(c) = "submit" /\ crashed' = TRUE
  /\ UNCHANGED <<rVars, wVars, sendVars, workVars, pc>>

-----------------------------------------------------------------------------
(* Writing messages.                                                       *)

(* Mutant: SendJsonRPC writes to the socket, and errors do not stick.      *)
SentUnbuffered(c, m) ==
  /\ wire' = [wire EXCEPT ![c] = Append(@, m)] /\ UNCHANGED <<sticky, werr>>

(* SendJsonRPC succeeds: the whole message is on the wire of the           *)
(* connection that the Writer belongs to.                                  *)
Sent(c, m) ==
  LET w == bufw[c] IN
  /\ ~sticky[w] /\ wdst[w] # None
  /\ wire' = [wire EXCEPT ![wdst[w]] = Append(@, m)]
  /\ UNCHANGED <<sticky, werr>>

(* It fails: at the socket, which the Writer remembers, or at once in a    *)
(* Writer that has failed before.                                          *)
NotSent(c) ==
  LET w == bufw[c] IN
  /\ sticky' = [sticky EXCEPT ![w] = TRUE]
  /\ werr' = IF sticky[w] \/ wdst[w] = None THEN werr
             ELSE [werr EXCEPT ![wdst[w]] = TRUE]
  /\ UNCHANGED wire

sendUnchanged == <<rVars, wpool, wmade, wdst, bufw, workVars, crashed>>

(* mining.authorize: the response, whose error the loop will look at, ...  *)
SendAuthorize(c) ==
  /\ At(c, "auth") /\ Goto(c, "difficulty")
  /\ \/ /\ Sent(c, resp[c])
        /\ failed' = [failed EXCEPT ![c] = FALSE]
     \/ NotSent(c) /\ failed' = [failed EXCEPT ![c] = TRUE]
  /\ UNCHANGED sendUnchanged

(* ... and two messages whose error is another err, declared by :=.        *)
SendDifficulty(c) ==
  /\ At(c, "difficulty") /\ Goto(c, "job")
  /\ Sent(c, SetDifficulty) \/ NotSent(c)
  /\ UNCHANGED <<failed, sendUnchanged>>

(* Mutant: authorize, having answered, goes on to the next message.        *)
SendJobOnly(c) ==
  /\ At(c, "job") /\ Goto(c, IF failed[c] THEN "closeReader" ELSE "read")
  /\ Sent(c, NotifyJob) \/ NotSent(c)
  /\ UNCHANGED <<failed, sendUnchanged>>

SendJob(c) ==
  /\ At(c, "job") /\ Goto(c, IF failed[c] THEN "closeReader" ELSE "reply")
  /\ Sent(c, NotifyJob) \/ NotSent(c)
  /\ UNCHANGED <<failed, sendUnchanged>>

(* The end of the loop sends resp: for authorize, a second time.           *)
SendReply(c) ==
  /\ At(c, "reply")
  /\ \/ Sent(c, resp[c]) /\ Goto(c, "read")
     \/ NotSent(c) /\ Goto(c, "closeReader")
  /\ UNCHANGED <<failed, sendUnchanged>>

-----------------------------------------------------------------------------
ConnStep(c) ==
  \/ HandshakeFails(c) \/ GetReader(c) \/ GetWriter(c)
  \/ ReadMalformed(c) \/ ReadFails(c)
  \/ HandleSubscribe(c) \/ HandleAuthorize(c) \/ HandleUnknown(c)
  \/ Recover(c) \/ HandleSubmit(c)
  \/ SendAuthorize(c) \/ SendDifficulty(c) \/ SendJob(c) \/ SendReply(c)
  \/ PutReader(c) \/ PutWriter(c) \/ CloseSocket(c)

(* All the goroutines have ended, or the process has.                      *)
Terminated ==
  /\ crashed \/ \A c \in Conns : pc[c] = "end"
  /\ UNCHANGED vars

Next ==
  \/ \E c \in Conns : ConnStep(c) \/ \E m \in Methods : ReadMessage(c, m)
  \/ Terminated

Spec == Init /\ [][Next]_vars

-----------------------------------------------------------------------------
(* Safety.                                                                 *)

ReaderOwners(r) == {c \in Conns : bufr[c] = r}
WriterOwners(w) == {c \in Conns : bufw[c] = w}

(* A buffer that exists is in its pool, once, or belongs to exactly one    *)
(* connection: however a session ends, finalFlush gives it back, and never *)
(* twice, so that no two connections ever read or write through one.       *)
BuffersExclusive ==
  /\ \A r \in rmade : \/ rpool[r] = 1 /\ ReaderOwners(r) = {}
                      \/ rpool[r] = 0 /\ \E c \in Conns : ReaderOwners(r) = {c}
  /\ \A w \in wmade : \/ wpool[w] = 1 /\ WriterOwners(w) = {}
                      \/ wpool[w] = 0 /\ \E c \in Conns : WriterOwners(w) = {c}

(* A pooled buffer holds on to no connection and has no error of a past    *)
(* one, and a buffer in use is connected to its owner's socket.            *)
BuffersClean ==
  /\ \A w \in Writers : wpool[w] > 0 => wdst[w] = None /\ ~sticky[w]
  /\ \A r \in Readers : rpool[r] > 0 => rsrc[r] = None
  /\ \A c \in Conns : /\ bufr[c] # None => rsrc[bufr[c]] = c
                      /\ bufw[c] # None => wdst[bufw[c]] = c

(* The messages a client is owed for a request of method m, its n-th.      *)
Owed(m, n) ==
  CASE m = "subscribe" -> <<Result(n)>>
    [] m = "authorize" -> <<Result(n), SetDifficulty, NotifyJob, Result(n)>>
    [] m = "badName"   -> <<Error(n), SetDifficulty, NotifyJob, Error(n)>>
    [] OTHER           -> <<>>

AllOwed(c) ==
  FlattenSeq([n \in 1..Number(c) |-> Owed(requests[c][n], n)])

(* What a client receives is in the order of its requests and has no hole, *)
(* even when writes fail and later ones would succeed: the Writer keeps    *)
(* its error.  And when the connection waits, nothing is owed any more.    *)
StreamComplete ==
  \A c \in Conns : /\ IsPrefix(wire[c], AllOwed(c))
                   /\ pc[c] = "read" => wire[c] = AllOwed(c)

(* A connection that could not send a message does not wait for another    *)
(* request: it ends.  The errors of SendDifficulty and SendJob are lost    *)
(* with the err they are stored in, and still end the connection, because  *)
(* the response is sent again, through the Writer that has failed.         *)
LostMessageEndsConn == \A c \in Conns : werr[c] => pc[c] # "read"

(* A session keeps the contract its miner relies on.  It is closing as     *)
(* soon as its Writer has failed, whatever it still tries to send.         *)
Serving  == {"read", "dispatch", "auth", "difficulty", "job", "reply"}
Handling == Serving \ {"read"}
Broken(c) == pc[c] \in Serving /\ sticky[bufw[c]]

LifeOf(c) ==
  CASE pc[c] \in {"start", "getWriter"}            -> "setup"
    [] pc[c] = "read" /\ ~Broken(c)               -> "waiting"
    [] pc[c] \in Handling /\ ~Broken(c)           -> "handling"
    [] Broken(c)                                  -> "closing"
    [] pc[c] \in Labels \ (Serving \cup {"start", "getWriter", "end"})
                                                  -> "closing"
    [] pc[c] = "end"                              -> "ended"

DueOf(c) ==
  CASE LifeOf(c) # "handling" -> <<>>
    [] LifeOf(c) = "handling" /\ pc[c] = "dispatch"
                   -> Owed(Method(c), Number(c))
    [] LifeOf(c) = "handling" /\ pc[c] = "auth"
                   -> <<resp[c], SetDifficulty, NotifyJob, resp[c]>>
    [] LifeOf(c) = "handling" /\ pc[c] = "difficulty"
                   -> <<SetDifficulty, NotifyJob, resp[c]>>
    [] LifeOf(c) = "handling" /\ pc[c] = "job"  -> <<NotifyJob, resp[c]>>
    [] LifeOf(c) = "handling" /\ pc[c] = "reply" -> <<resp[c]>>

Session == INSTANCE SessionContract WITH
  Debts <- [m \in Methods |-> [n \in 1..MaxRequests |-> Owed(m, n)]],
  life <- [c \in Conns |-> LifeOf(c)], down <- crashed,
  due <- [c \in Conns |-> DueOf(c)], received <- wire

ImplementsSession == Session!SessionSpec

(* And lives as the server expects a connection to.                        *)
Life == INSTANCE ConnLife WITH
  life <- [c \in Conns |-> LifeOf(c)], down <- crashed

ImplementsConnLife == Life!LifeSpec

-----------------------------------------------------------------------------
(* What a comment says, and the code does not do.                          *)

(* "any panic from ServeHTTP aborts the response to the client": a panic   *)
(* of a handler does not bring down the process.                           *)
PanicsContained == ~crashed
=============================================================================
