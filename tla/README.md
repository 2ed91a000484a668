# Verification of stratumserver

TLA+ specifications of the Stratum server, model-checked with TLC, and
theorems about them proved with TLAPS.  The program is a mining server: a
routine of an application framework owns a TCP (or TLS) server, adapted from
Go's `net/http`, which accepts miners and speaks line-delimited JSON-RPC with
each of them in a goroutine.

    tlc -workers 2 -config StratumServer_safety.cfg MCStratumServer.tla
    tlapm StratumServerProofs.tla

`PROJECT.json` maps every definition that models code to the lines it stands
for, and lists the runs, the mutants (a plausible bug for each property, which
TLC finds), the findings, the hazards and the theorems.

## 1. Inventory

| Component | Where | State it keeps | Operations |
|---|---|---|---|
| Server | `stratum/server/server.go` | `inShutdown`, `listeners`, `activeConn`, `doneChan`, the mutex `mu` | `ListenAndServe[TLS]`, `Serve`, `trackListener`, `trackConn`, `Shutdown`, `closeIdleConns` |
| Connection | `stratum/server/conn.go` | socket, `curState`, `bufr`, `bufw`, `werr` | `serve`, `readMessage`, `SendJsonRPC`, `finalFlush`, `Close` |
| Worker and messages | `client.go`, `job.go`, `jsonrpc.go`, `shares.go` | names, `IsAuthorized`, nonces, difficulties | `HandleSubscribe`, `HandleAuthorize`, `HandleSubmit`, the difficulty and job messages |
| bufio pools | `server.go:202-258` | two `sync.Pool`s in use | `newBufioReader`, `newBufioWriterSize`, `putBufio*` |
| connReader | `server.go:42-200` | `inRead`, `hasByte`, `aborted`, `remain`, a condition variable | `Read`, background read and its abortion |
| Server routine | `routines/stratum-server`, `ctx` | the current server, its `done` channel, the shared configuration | `Runtime`, `servStart`, `servShutdown`, `servRestart`, `Ctx.Reload` |
| VarDiff, RingBuffer | `vardiff/` | a window of time stamps, the last retarget | `CalcNextDiff`, `Append`, `Avg`, `Clear` |
| Jobs: coinbase and Merkle helpers | `utils/coinbase.go`, `client.go`, `main3.go` | none | `SplitCoinbase`, `MerkleTreeBranch`, byte order and packing |
| Settings | `settings/` | a configuration tree and its observers | (does not compile, see 7) |

How they interact.  The framework (a library) calls `Ctx.Reload` and then
sends on the routine's channel, and cancels the routine's context on SIGTERM.
The routine starts a server in a goroutine of its own and shuts it down, for
ten seconds at most; it learns that the goroutine has ended from the `done`
channel.  The server's accept loop starts one goroutine per connection;
connections and server share `activeConn` under `mu`, and `curState`, an atomic
without it.  Connections share nothing else but the buffer pools.  A worker
belongs to one connection and is called only by its goroutine.

What is hard, and what correct means:

* **Server.** Three kinds of goroutines meet in `Shutdown`, which is made of
  several critical sections: a listener may be registered, a connection
  accepted, tracked, stamped or activated between any two of them.  Correct:
  nothing is accepted after the listeners are closed; what is open can be
  reached through `activeConn`; `closeIdleConns` closes only what is idle; when
  `Shutdown` says that the server is drained it is; `Shutdown` and `Serve`
  return.
* **Routine.** The configuration is read without a lock, in two goroutines,
  while it is replaced; the serving goroutine may die at any moment without
  anybody noticing.  Correct: generations of the server never overlap, a
  generation finds its address free, the server that stays has the current
  configuration, and the routine always terminates.
* **Connection.** It ends in many ways (end of file, time-out, malformed line,
  failed write, panic, a socket closed by `Shutdown`), each through
  `finalFlush`, which may run twice; the errors of three sends are looked at in
  three ways.  Correct: a buffer has one owner; a client receives its messages
  in order and without holes; a connection whose client misses a message ends;
  a panic costs one connection.
* **connReader.** Two goroutines take turns at one socket; one takes it back
  from the other by making its read time out, and waits on a condition
  variable.  Correct: one read at a time, no byte lost or out of place, the
  provoked time-out is no error, the wait ends.
* **Jobs.** A job is cut out of a serialized block by indices counted by hand:
  the coinbase at its extra nonce, the Merkle branch from an array of all levels
  in which nodes may be nil.  Three callers do it, with different transactions.
  Correct: a miner that follows the job has the coinbase with its own nonce, and
  the root of a block.
* **VarDiff.** Arithmetic with a division by an average that may be zero, and
  a window that wraps, over a clock that may be set back.  Correct: the window
  holds the last intervals, quotients are finite, difficulties are judged a
  retarget time apart and stay within the bounds that each branch looks at.

The list of hazards, each at its line and with the properties that cover it,
is in `PROJECT.json`.

## 2. Plan

Done, in this order:

1. `StratumServer` (the server and its `Shutdown`), its abstract specification
   `ServerContract`, and the refinement.
2. `ServerRuntime`, in which a server is what `ServerContract` says of it.
3. `StratumConn`, the session and the buffers, and its abstract specification
   `SessionContract`.
4. `ConnLife`, on which the server and the session have to agree about a
   connection: both implement it.
5. `ConnReader`, the reader of a connection.
6. `RingBuffer` and `VarDiff`, the window of times between shares and the
   difficulty.
7. `MiningJob`, the coinbase and the Merkle branch of a job.
8. Proofs of every safety property that a passing run checks.

What is left of the repository has no user in the program or does not compile:
see 7.

## 3. Modules

| Module | What it is |
|---|---|
| `ServerContract` | what a server promises to its owner: abstract specification |
| `SessionContract` | what a session promises to its miner: abstract specification |
| `ConnLife` | the life of a connection, which server and session agree on |
| `StratumServer` | one `Server` and its goroutines; implements `ServerContract` and `ConnLife` |
| `ServerRuntime` | the routine, its configuration and its generations of servers, each of which keeps `ServerContract` |
| `StratumConn` | sessions, message dispatch, write errors, buffer pools; implements `SessionContract` and `ConnLife` |
| `ConnReader` | the reader of a connection and its background read |
| `RingBuffer` | the operations of a ring buffer, and what one should hold |
| `VarDiff` | the difficulty of a worker, one step per `CalcNextDiff` |
| `MiningJob` | the work a miner is sent, and what it makes of it |
| `Induction` | induction over the naturals, in a form the provers can use |
| `SessionProofs` | the refinements of `StratumConn`, and its stream of messages |
| other `*Proofs` | the theorems about the module they are named after |
| `MC*` | the instances for TLC (symmetry sets, bytes) |

### StratumServer

A step is a critical section under `s.mu`, an access to an atomic, or a system
call.  `closeIdleConns` holds `s.mu` over several steps (`muHeld`), because it
loads a connection's state and closes its socket at two moments between which
the connection goes on: `StartScan`, `ScanConn`, `CloseIdle`, `EndScan`.  The
variable `serve` is the program counter of the serving goroutine, `pc[c]` that
of a connection's, `shut` that of the caller of `Shutdown`.

* `setState(StateNew)` is two steps, `TrackConn` (under `s.mu`) and
  `StartConn` (the store): in between the packed state is zero, value `"zero"`
  of `curState`.  The test `unixSec == 0` of `closeIdleConns` is about that
  moment; `LooksIdle` spells it out.
* Time is one bit per connection: `aged[c]` says that the stamp of a
  `StateNew` is over five seconds old.  `Age` may happen at any time.
* `s.listeners` holds one listener here, the program starts one serving call
  per server; `tracked` says that it is in.  `doneClosed` is the closing of
  `doneChan`.
* `activeConn` is the code's set.  `rw` is the connection that `Accept`
  returned and that nobody tracks yet.
* A connection reads a line from the wire (`ReadWire`) or finds one in its
  buffer (`ReadBuffered`): the second does not store `StateActive`, because
  `c.r.remain` has not changed.  `ReadFails` covers the errors that end the
  loop; a temporary error goes round the loop.
* `Crash` is the panic of `mining.submit`; all the properties about what must
  eventually happen except it.

`ServerContract` has no locks and flags: a serving phase, a listener, a
shutdown phase, the sets of accepted and of open connections.  The refinement
mapping (`Contract == INSTANCE ServerContract WITH ...`) computes the phases
from the program counters.  `Life` maps them to `ConnLife`: a connection is set
up, waits, handles, closes and ends.

### ServerRuntime

`main` is the program counter of `Runtime`, `phase[g]` that of the goroutine of
generation `g`; a generation is one call of `servStart`.  `conf` is `cc.Conf`,
written by `Reload` and read at three separate moments: the address in
`ServStart`, the two file names twice, in `ReadTLS` and `ReadKeys`.  `Reload`
and `Notify` are two steps, so that a server may start from a configuration
whose notification is still under way.  `listener`, `stopping` and the steps
`CallShutdown`, `StopListening`, `Drained`, `Expire` are the server of
`ServerContract`; `GensKeepContract` checks that each generation's steps are
steps of that module.  What `closeIdleConns` does to the connections is not
seen from here.  `Reload`, `Notify` and `Cancel` stand for the framework:
`Reload` is in `ctx/context.go`, the other two are external.

### StratumConn

`pc[c]` follows `conn.serve` from the handshake to the closed socket.
`rpool`/`wpool` count the copies of each buffer in its pool (a `sync.Pool` is a
bag: the same pointer can be put twice), `rsrc` and `wdst` are what the buffer
was last `Reset` to, `sticky` is the error a `bufio.Writer` keeps.  `Get` may
return nil although the pool is not empty, as `sync.Pool` does.

* Messages are classes: `authorize` is a well-formed one, `badName` one that
  `AuthorizeFn` refuses, `faulty` a message on which a handler hits a run-time
  error (`null`, too few parameters), `submit` one that gets as far as the
  `panic` of `conn.go:427`.
* `mining.authorize` sends four messages: `SendAuthorize`, `SendDifficulty`,
  `SendJob`, and `SendReply`, the common reply at the end of the loop, which
  sends the response a second time.  `failed` is the `err` of the loop; the
  second and third send set another `err` (`conn.go:439` declares it).
* `Sent` and `NotSent` are `SendJsonRPC`: a message goes out whole, or the
  socket refuses it and the `Writer` keeps the error and refuses all that
  follow.  A message of which a part went out counts as not sent.
* A malformed line goes through `finalFlush` twice: labels `halfReader`,
  `halfWriter`, then `closeReader`, `closeWriter`.

`SessionContract` has neither buffers nor errors: a session has read some
requests, owes some messages and has delivered some.  A delivery takes the next
message owed; a request is read only when nothing is owed; a session that loses
a message loses all that follow and closes.  In the mapping a session is closing
from the moment its `Writer` has failed (`Broken`), although the code goes on
sending, and what it owes (`DueOf`) is read off its label.

`ConnLife` ties the two modules together.  `StratumServer` leaves open which
messages a connection handles, and `StratumConn` lets any read and any write
fail, as they do when `Shutdown` closes the socket; both implement `ConnLife`
(`LivesAreKept`, `SessionsAreLives`), so that neither relies on a life that the
other does not have.

### ConnReader

A step is a critical section under `cr.mu`, a read of the socket, or a
`Broadcast`.  `pc` is the program counter of the connection's goroutine, which
calls `Read`, `startBackgroundRead` and `abortPendingRead`; `bg` that of the
background goroutine.  Bytes are numbered by their position in the client's
stream, so that the module keeps counters and no buffers: `taken` bytes have
left the socket, `got` have reached a caller of `Read`, and `lastByte` is the
number of the last of them.  `broadcasts` counts background goroutines that
have released `cr.mu` and not yet called `Broadcast`: a new background read may
start while an old goroutine is that late.

The program calls only `Read` and `setReadLimit` at this commit (the calls of
`startBackgroundRead` are in the commented-out code at `conn.go:569-571`).  The
other two are used here as `net/http`, from which the file is adapted, uses
them: a background read is aborted before the next `Read`.  `Read` keeps the
panic for the case that it is not.

### VarDiff and RingBuffer

`RingBuffer` has the operations as operators on the record, and `Holds`, the
reference: which values of a history a buffer should hold, and at which places.
A step of `VarDiff` is a call of `CalcNextDiff(dt, d)`, `dt` seconds after the
last, at difficulty `d`; its actions are the ways through that function.
`newDiff` is what it returned (0 from the early returns), `avg` the average it
found and `intervals` the history the buffer is compared with.  The code's
floats are exact quotients, `time.Second` is the constant `Second` (1000 in the
run).  No code of the program calls `CalcNextDiff` at this commit, so that any
sequence of arguments is allowed.

What the model makes plain about the program's own parameters: with a
`VariancePercent` of 30 (3000 per cent) `MinTargetTime` is negative and
`RetargetFast` impossible; without `X2Mode` the quotient is a billion times too
large, so that `RetargetFast` jumps to `MaxDiff` and `RetargetSlow` beyond it.
Nothing in the repository says what a slow worker should get, so that no
property forbids it.

### MiningJob

`conn.serve`, `HandleMessage` and `main3.go` each make a job from a block; they
differ in the transactions of which they take the tree (`Callers`): none but the
coinbase (`conn.serve` clears the block and sends an empty branch), all but the
coinbase (`HandleMessage`), all (`main3.go`: `NewBlock` has cached them before
`ClearTransactions`).  `SplitCoinbase` works on a coinbase byte by byte, because
its indices are what can be wrong.

No coinbase that is split is made in the repository.  `conn.serve` and
`HandleMessage` take one of the block of the absent `miner` package;
`main3.go:78` splits the one that `mining.CreateJaxCoinbaseTx` made, while the
script it has from `BTCCoinbaseScript` (line 45) goes into the cached
transaction that is leaf 0 of the tree and is never split.  `Coinbase` is
therefore external: its bytes are constants, and `HeightsAssumption` and
`BytesAssumption` say what `SplitCoinbase` takes for granted of them, which is
the shape of script that `BTCCoinbaseScript` makes (a height, then an extra
nonce with its length in one byte).  How long the nonce is nobody says: the runs
have nonces of eight bytes and of two, the theorems of 2 to 75.

`append` in Go writes into the array that `part1` shares with
`rawTx`; `Halves` cuts both parts from the array after that write.

Hashes are terms: two are equal when they are made of the same things.
`BuildMerkleTreeStore` is the library's, a parent at a time; `MerkleTreeBranch`
is an iteration of the program's loop, and takes along what a miner does with
the step (`root`): it hashes what it has with each of the branch in turn, from
its own coinbase on, as `job.go:27` means it.  The indices of arrays count from
0, as in Go; those of byte sequences from 1.  `mined` is the tree of the block
that has the coinbase the miner put together and the other transactions: the
reference, not code.  `main3.go:119-142` makes a block of the coinbase alone and
uses no branch.

## 4. Runs

| Run | Instance | Distinct states | Result |
|---|---|---|---|
| `server_safety` | 2 connections, TLS, 1 pipelined line | 740 432 | pass |
| `server_liveness` | 1 connection, plain, 2 pipelined lines | 25 949 | pass |
| `shutdown_leaves_conn` | 1 connection | | violation of `ShutdownDrains` |
| `shutdown_interrupts` | 1 connection | | violation of `ActiveUninterrupted` |
| `active_never_idle` | 1 connection | | violation of `HandledBecomesIdle` |
| `runtime` | 2 addresses, 2 reloads | 104 578 | pass |
| `session_safety` | 2 connections, 2 + 2 buffers, 2 requests each | 398 864 | pass |
| `reader` | slices of 1 and 2 bytes, limit 3, 4 bytes | 43 145 | pass |
| `vardiff` | buffers of 4, 8 calls | 699 418 | pass |
| `job` | 1 to 9 transactions, 7 heights, 2 nonces | 2 436 | pass |
| `job_branch` | the same | | violation of `BranchGivesRoot` |
| `session_panic` | 1 connection, 1 request | | violation of `PanicsContained` |

The numbers of connections are modulo symmetry in the safety runs (no
liveness property is checked under symmetry).

**server_safety.**  `OpenConnsTracked`: an open socket is in `activeConn`,
except between `Accept` and `trackConn`, and no goroutine that has ended is.
`VictimWasStale`: `closeIdleConns` never picks a connection that was tracked
and not yet stamped, nor a young one.  `DrainedButOne`: what a `Shutdown`
without error guarantees: the accept loop is over, holds no connection, and at
most one is open.  `CleanReturn`: a serving call that has returned has closed
its socket, also after a failed key pair or a refused `trackListener`, and never
reports the listener that `Shutdown` closed as an error of the network, because
listener and `doneChan` are closed under `s.mu`.  `NobodyStuck`: whoever holds
`s.mu` can go on, and so can every goroutine while it is free, unless it waits
for the network, and no `Accept` waits on an open listener once `Shutdown` has
returned (`CanGoOn`); and where such a guard holds its action is enabled
(`GuardsSuffice`).  `NoAcceptAfterClose`: an action property, no step accepts after
the listeners were closed.

`ImplementsContract` and `ImplementsConnLife`: the two refinements.

**server_liveness**: `Shutdown` returns, the serving call returns after it, and
a connection whose socket is closed ends and leaves `activeConn` however many
lines are left in its buffer.

**runtime.**  `OneGeneration` (two generations are never alive together, and
each finds the address it binds free), `ConfigFresh` (in quiet moments the
server has the configuration of the last reload, although it may have started
from a mixture of two), `NobodyStuck` (the routine can take what its select is
offered, and the generation it waits for can go on to its `s.done <-`; split
into `CanGoOn` and `GuardsSuffice` as in the server),
`GensKeepContract` (each generation is used as `ServerContract` allows, and
behaves as it says), `TerminationEnds` and `ReloadsServed`.

**session_safety.**  `BuffersExclusive` and `BuffersClean`: the pools.
`StreamComplete`: what a client has received is a prefix of what it is owed,
and all of it when the connection waits for a request.  `LostMessageEndsConn`:
a connection that could not send does not wait for another request.  It holds
although the errors of `SendDifficulty` and `SendJob` are lost: what ends the
connection is that the response is sent again, through the `Writer` that keeps
its error.  Whoever removes the second response loses it (the mutant
`SendJobOnly`).  `ImplementsSession`: the refinement.

**reader.**  `OneReader`: the two goroutines never read the socket together,
and the panics of `Read` and `startBackgroundRead` are not reached.
`BytesInOrder`: what the callers of `Read` get is the client's stream, although
a background read may take a byte from the socket at the moment it is aborted.
`AbortIsNoError`: the provoked time-out never cancels the connection's context.
`NobodyStuck`: a background read whose time is up, its goroutine, its `Broadcast`
and the waiter it wakes can each go on.
`AbortReturns`: no wake-up is lost although `Broadcast` is called without
`cr.mu`.  `HangUpNoticed`: a background read finds out that the client has
gone, which is what it is for.

**vardiff.**  `WindowIsLast`: the buffer against its reference, across the
append that fills it and a whole turn of the cursor.  `AveragePositive`: however
often the clock is set back, the average of a retarget is positive, so that the
quotient is never infinite and the guard `newDiff <= 0` never needed; it holds
because every time stamp in the window is before the end of the period that the
call closes.  `RetargetsApart`: a difficulty is judged once in `RetargetTime`.
`DifficultyBounded`: a retarget never takes it below `MinDiff`; a worker that is
too fast never gets more than `MaxDiff` or than it has, and in `X2Mode` one that
is too slow never more than it has.  Without `X2Mode`, which is how `conn.go:353`
sets it, `MaxDiff` does *not* bound a slow worker: what it gets is less than
`100 * Second / (100 + Variance)` times what it had, and the property says no
more.  With a `Variance` of 100 % or more, `conn.go:352`'s 30 taken as a fraction
among them, no worker is ever too fast.

**job.**  `CoinbaseRebuilt`: for a coinbase of the shape that `SplitCoinbase`
expects, what a miner puts together from `coinb1`, its nonces and `coinb2` is the
coinbase with the old extra nonce replaced, whether the height is an opcode or a
number with its length, and however long the old nonce was.  At most the length
of the script is wrong, and only when the old nonce had not 8 bytes; whether the
program meets that case cannot be told from the repository.  `JobSolvable`: with
the branch of `conn.serve` or `main3.go` a miner ends at the Merkle root of the
block that has, in the first place, the coinbase it put together, for blocks that
fill their tree and blocks that do not.  That does not depend on what the
coinbase is.

### What the code does and its comments do not say

* `shutdown_leaves_conn`: `Shutdown` can return nil while a connection is
  served.  `Accept` returns it; `closeListenersLocked` runs; `closeIdleConns`
  finds `activeConn` empty; then `trackConn` adds it, the accept loop meets the
  closed listener and `Serve` unregisters it; `numListeners` finds 0.  The
  theorem `ShutdownDrainsButOne` says that this is the worst case.
* `shutdown_interrupts`: a connection in `StateNew` for more than five seconds
  whose first request arrives between the load of its state and the close of
  its socket has the request cut.
* `active_never_idle`: nothing stores `StateIdle`, so that a connection that
  has sent a line is never idle: every `Shutdown` with a connected miner runs
  into its deadline, and then `Runtime` reports failure instead of restarting.
* `session_panic`: one complete `mining.submit` ends the process.
* `job_branch`: `HandleMessage` builds the tree from `transactions[1:]`; with
  the branch of such a job a miner finds the root of no block, as the theorem
  `HandledJobMisses` says for every block.  (No code of the
  program calls `HandleMessage` at this commit; `conn.serve`, which has a copy of
  it, sends an empty branch.)

### Bounds

* Connections: two are enough for every property of `StratumServer`: one is the
  connection a property is about, the other what the scan of `closeIdleConns`
  or the accept loop is busy with meanwhile (`DrainedButOne` compares two).  In
  `StratumConn` two connections with two buffers of each kind let a buffer
  pass from one to the other, be shared, and be left behind.
* `MaxPipelined`: complete lines left in a buffer.  One makes `ReadBuffered`
  possible, two let it happen again after a socket was closed.
* `MaxReloads` = 2: three generations, so that a reload may meet the start of
  the previous one; a third reload adds a generation of the same kind.
* `MaxRequests` = 2: a request after one that was answered in part.
* `Readers`, `Writers`: how many buffers may be allocated; as many as
  connections suffice, because a connection holds one at a time.
* `ConnReader`: a limit of 3 is met by a slice of 2 after a slice of 2 or after
  a byte of the background read; 4 bytes allow a read before a background read,
  its byte, and a read of two after it; `MaxPending` = 1 lets a background read
  run while the goroutine of the previous one has yet to broadcast.
* `VarDiff`: `MaxCalls` = 8 fills a buffer of 4 and overwrites it once around;
  the steps are a clock set back, two shares in a second, a fast, a slow and a
  very slow worker; the clock starts at 1, where `LastRtc` is 0 and means "not
  started", or at 1000.

* `MiningJob`: 9 transactions take in trees of 1, 2, 4, 8 and 16 leaves, full
  ones, and ones in which one node or a whole half of a level is nil.  The
  heights are 0, 1 and 16 (an opcode) and numbers of 1 to 4 bytes.

The theorems hold for every value of these constants.

### Fairness

`StratumServer`: weak fairness of each goroutine (the Go scheduler is
preemptive and `sync.Mutex` is starvation-free), of `Accept` on a closed
listener, of a connection's step (reads end, because `servStart` sets
`ReadTimeout`, and writes because of `WriteTimeout`), and of the deadline.  The
select of `Shutdown` between its ticker and its context is strongly fair to
the context: when both are ready select chooses at random.  Nothing is assumed
of the clients, of `Age`, or of the call of `Shutdown`.

`ServerRuntime`: weak fairness of the routine, of a serving goroutine except
while it accepts, of the end of the accept loop once the listener is closed,
and of `Notify`; strong fairness of the two branches of the select.  A reload
or a signal need never come.

`ConnReader`: weak fairness of the background goroutine, whose read ends once
its deadline has passed or the socket is gone, and of the woken waiter.  Nothing
is assumed of the client, of the network, or of the callers.

Deadlock is checked in every run; each module's `Terminated` names the states
in which nothing is left to do.

## 5. Proofs

For all values of the constants, from the assumptions on them (the null value
is not a connection or a buffer, `TLS` is a Boolean, bounds are naturals), every
property of the passing runs is stated by a theorem: the invariants, the action
properties and the refinements without further hypotheses, `NobodyStuck` and the
liveness properties under those of the next paragraph.  Each module of proofs
defines the inductive invariant it needs, `IInv` (`Inv` in `VarDiffProofs`).

**What is assumed beside the specification.**  Two things that
do not depend on how the system gets where it is, and that these provers cannot
derive.  `GuardsSuffice`: a fair action can be taken when its guard holds (`guard => ENABLED <<A>>_vars`, for the
guards `CanShutdownStep`, `CanLoopStep` and so on, which are read off the
actions).  The provers leave `ENABLED A` as it is; TLC checks `GuardsSuffice`, as
a part of `NobodyStuck`, in every state of three runs.  And, in the theorems that
count, one instance of the principle of induction over the naturals for the
formula that is counted (`InductionFor`, in `Induction`): its base and its step
are proved here; only the passage from them to the conclusion, for a temporal
formula, is a hypothesis.

**Liveness.**  `NobodyIsStuck`, in each of the three modules with fairness, says
that the guards hold wherever somebody waits (`CanGoOn`): this is the part of
`NobodyStuck` that is about the system, and it is proved from the inductive
invariant alone.  With it the liveness theorems go by stages: from each stage of
a wait the system stays in the stage or comes to a later one, the fair step takes
it to a later one, and the stages are put together as a temporal tautology.
Where the number of stages depends on the state, a measure counts them down.

**StratumServerProofs.**  `Invariance` proves `IInv`, the conjunction of
`TypeOK` and four parts, each kept by a lemma: `ServeInv` (the serving
goroutine, its listener and the lists), `ShutInv` (the flags of `Shutdown`
follow its program counter), `ScanInv` (what `closeIdleConns` knows while it
holds `s.mu`, and what is left of that knowledge when it has let go), `ConnInv`
(a connection from `Accept` to its end).  None of the safety properties is
inductive alone.  `DrainedButOne`, for instance, needs `ScanInv`: at
`numListeners` the set `activeConn`, with the connection in `rw`, has at most
one element, because the scan left nothing and the accept loop can track only
the connection it held when the listener was closed.  From `IInv` follow
`TypeCorrect`, `OpenConnsAreTracked`, `VictimsAreStale`,
`ShutdownDrainsButOne`, `ServingReturnsClean` and `NothingAcceptedAfterClose`.
`Refinement` proves `Spec => ImplementsContract`: each step is a step of
`ServerContract` or a stutter, by groups of steps (`ServeStepRefines`,
`ConnStepRefines`, `ShutdownStepRefines`); `LivesAreKept` does the same for
`ConnLife`.  `OwnersView` composes: what `Refinement` proves implies the contract
without connections, which is the instance that `ServerRuntime` puts in the
server's place and that `GenerationsKeepContract` uses.

`ShutdownsReturn`: the loop of `Shutdown` comes to its select again and again,
the deadline expires, and a select that is strongly fair to its context does not
pass over it for ever.  `ServingReturns` takes the serving call from wherever it
is to its return once `Shutdown` is over, stage by stage.
`ClosedConnsEnd` does the same for a connection whose socket is closed, which
needs `s.mu` to be free in the end for its `setState`.  Two measures are counted
down: `Turns`, two for each connection a scan has not visited and one for a
victim not yet closed, which every step of the scan lowers and no other step
changes, so that the scan ends (`ScansDoEnd`; `activeConn` is finite in every
reachable state, although the set of connections need not be); and `StepsLeft`,
four for each line in a closed connection's buffer and what is left of the line
at hand, so that the lines run out (`LinesDoRunOut`) and the connection comes to
a read, which fails.

`ShutdownSparesActiveConns` says what is left of the two promises that the runs
`shutdown_interrupts` and `active_never_idle` refute: nothing stores `StateIdle`, so
`closeIdleConns` picks only connections that it found in `StateNew` for more than
five seconds, and what it interrupts is at most a connection that became active
between that look and the `Close`.

**ServerRuntimeProofs.**  `GenInv` counts: the restarts taken up, the
notifications under way and the reload not yet notified do not exceed the
reloads, which keeps `gen` in range; older generations have exited, later ones
do not exist.  `TypeCorrect`, `OneGenerationAlive` and
`ConfigIsFresh` follow.  `GenerationsKeepContract` needs `StopInv` besides: a
generation is stopped once, while it is the current one, and is bound before it
serves.

`TerminationIsCertain` proves `TerminationEnds` in full: a shutdown, once begun,
ends (`ShutdownEnds`), because the ten seconds pass and the generation that is
waited for goes through its stages to `s.done <-`; so the routine comes to its
select again and again (`RestReached`), and a cancelled context is not passed
over for ever.  `ReloadsAreTakenUp`: a pending notification is taken up or the
routine ends.  `ReloadsAreServed` proves `ReloadsServed` by counting down `Left`,
the reloads still to come, the one being notified and the pending ones: no step
raises it, and each reload that is taken up lowers it.

**StratumConnProofs.**  The invariant is `TypeOK`, `BuffersExclusive`,
`BuffersClean`, `BuffersMade` (only allocated buffers are in use or pooled) and
`SessionInv` (what a connection holds at each label, and that a write error
sticks to its `Writer`).  A step is grouped by what it touches: the pools, the
`Writer`, or the session alone.  `ReaderInv` and `WriterInv` restate the three
buffer invariants per kind of buffer in a form in which each owner names its
buffer; exclusiveness follows from each buffer in use pointing back at its
owner.  `BuffersAreExclusive`, `BuffersAreClean` and `LostMessagesEndConns`
follow.

**SessionProofs.**  `SessionRefinement` needs one fact more than the invariant,
`FailedInv`: when the loop has noted that the first response was not sent, its
`Writer` has noted it too.  `StreamsAreComplete` is then argued on the abstract
steps alone: what has been received followed by what is owed is what the requests
ask for (`StreamInv`), a delivery moves one message from the second to the first,
and a request extends both sides.  That the messages for one request more are
those for the requests so far and the new ones is an induction over `FlattenSeq`.

**ConnReaderProofs.**  The invariant has a part for who is reading (`ReadInv`:
`inRead` is exactly that one of the goroutines is between its two critical
sections; the deadline is in the past exactly while an abort waits; a waiter has
a background read or a `Broadcast` ahead of it), one for the bytes (`ByteInv`:
those taken from the socket are with the callers, in `byteBuf`, or with the one
goroutine that is reading) and one for errors (`ErrorInv`).  `OneReaderAtATime`,
`BytesStayInOrder` and `AbortsAreNoErrors` follow.

`AbortsReturn` proves `AbortReturns` by the four stages of an abort: the
background read is in its system call, has come back from it, has cleared
`inRead`, has broadcast.  The invariant says that a waiter is in one of them, and
that no step leads backwards while it waits.  `HangUpsAreNoticed` has two: the
read of a dead socket returns, and its end cancels the context.

**VarDiffProofs.**  `AppendedHolds` says that `Append` takes a buffer that holds
a history to one that holds the longer history; `OverwrittenHolds` is the case of
the full buffer, where the place of each value moves by one.  `WindowHoldsTheLast`
follows by one step per way through `CalcNextDiff`, and `RetargetsAreApart` from
the fact that the buffer is never empty after an append.  `AverageIsPositive` is
about times and not their differences: `SumsUp` says that the buffer's sum is the
time from the beginning of its window to its end, and `HistoryInv` that every
interval began less than `RetargetTime` after the last judgement, so that at the
next judgement the sum is positive, however often the clock was set back.
`DifficultyIsBounded` is the arithmetic of the quotients, and of a window whose
lower bound is not positive while the average is; `SlowMultiple` is the one bound
that a slow worker has without `X2Mode`.  Assumed: `MinDiff <= MaxDiff` and
`TargetTime <= RetargetTime`, as in `conn.go:344-355`; with a longer `TargetTime`
the size of the buffer is 0 and it is never full.

**MiningJobProofs.**  `HalvesRebuild` takes a coinbase apart at the place where
`SplitCoinbase` cuts it, under the assumptions on external coinbases.  For the
branch, the invariant says that a level of
width `w` begins at `2 * Width - 2 * w` and the miner's path is the first node of
each (`Climbed`); that the job's tree and the miner's agree everywhere but on
that path (`Agree`, `Edge`); and that the nodes over a transaction are not nil
(`Filled`).  `TypeCorrect`, `CoinbaseIsRebuilt` and `JobIsSolvable` follow, for
any number of transactions.  `HandledJobMisses` is the opposite, for the jobs of
`HandleMessage`: the first step of the branch is the second transaction after
the coinbase, or the job's tree is a level lower than the block's, and from there
on no step takes the miner back to a node of the block's tree (`Astray`).

**Induction.**  The library's theorems take the property as an operator, which
the provers cannot instantiate.  `InductionUpTo` takes the set of the numbers
that have it, and is proved from the well-foundedness of `<`: the sums of
`RingBuffer` and the folds of `StratumConn` are reasoned about with it.  A
temporal formula makes no such set: `InductionFor` states the principle itself,
and the theorems that need an instance of it name it.

## 6. Checked and not proved

* `GuardsSuffice` in its three modules, because of `ENABLED`; it is the
  hypothesis under which `NobodyStuck` and the liveness properties are proved.
* The three instances of induction for temporal formulas (`TurnsInduct`,
  `LinesInduct`, `InductionFor(ServedWithin)`): they are valid, but not derivable
  here.  TLC checks the properties that they lead to, `ShutdownReturns`,
  `ServeReturns`, `ClosedConnEnds` and `ReloadsServed`, on small instances.

The inductive invariants are proved and are not invariants of a run.

## 7. Not modelled, and why

* The settings package does not compile at this commit (`observer.go:106` uses
  fields that `configuration.go:165-183` comments out), nothing imports it, and
  the loop that would make it a machine is commented out.
* `miner` and `stratum/server2/utils`, which `client.go` and `conn.go` import,
  are not in the repository, nor is the `mining` package of `main3.go`.  What is
  used of them, one fixed block, a coinbase and helpers, is data of the job
  message.
* The half of a line that a temporary read error loses (`conn.go:388`):
  `StratumConn` reads whole messages.
* A copy of the configuration that is torn by `Reload` (`context.go:22`):
  `ServerRuntime` reads and writes it whole, at the three places where it is read.
* The content of jobs and responses (the constant `extraNonce1` among it),
  logging, and the wording of errors.
* The byte order and packing of a job's other fields (`ReverseByteOrder`,
  `Pack*`), and `SerializeNumber`, `SerializeString`, `VarIntBytes`, which nothing
  calls.
* `ConnReader` and the connection's life are not composed: `StratumServer` uses
  of `connReader` only whether bytes came off the wire, and `ConnReader` of the
  connection only that it reads, borrows and takes back.
* `SubscriptionCounter`, `StoppableMixin`, the share counters, `setJob` and the
  sending part of `WorkerConnection.HandleMessage`: nothing in the program calls
  them.
* `StratumServer` and `StratumConn` model the same goroutine under two aspects
  and are composed only through `ConnLife`: the first leaves open which messages
  a connection handles, the second lets any read and any write fail, which covers
  a socket that `Shutdown` closes.
