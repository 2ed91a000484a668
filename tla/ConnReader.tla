----------------------------- MODULE ConnReader -----------------------------
(***************************************************************************)
(* connReader of stratum/server/server.go: the reader of a connection,     *)
(* which a background goroutine may borrow to wait for the client's next   *)
(* byte, and which the connection's goroutine takes back by making that    *)
(* read time out.  The two share the fields under cr.mu, the condition     *)
(* variable cr.cond, and the read deadline of the socket.                  *)
(*                                                                         *)
(* A step is a critical section under cr.mu, a read of the socket, or a    *)
(* Broadcast.  Bytes are numbered by their position in the client's        *)
(* stream.  The connection's goroutine keeps the protocol of net/http: it  *)
(* aborts a background read before it reads itself.  In this program it    *)
(* only reads.                                                             *)
(***************************************************************************)
EXTENDS Naturals

CONSTANTS
  Lengths,     (* the lengths of the slices the caller reads into          *)
  Limit,       (* initialReadLimitSize()                                   *)
  MaxBytes,    (* bound: bytes the client sends                            *)
  MaxPending   (* bound: goroutines that have yet to Broadcast             *)

ASSUME LengthsAssumption == Lengths \subseteq Nat \ {0}
ASSUME BoundsAssumption ==
  Limit \in Nat /\ MaxBytes \in Nat /\ MaxPending \in Nat

VARIABLES
  (* the connReader *)
  inRead, hasByte, aborted, remain,
  byteBuf,     (* the byte in byteBuf                                      *)
  cancelled,   (* the connection's context is cancelled                    *)
  (* the socket *)
  deadline,    (* its read deadline: "none", "header" (set by readMessage),*)
               (* "late" (the same, passed), "past" (aLongTimeAgo)         *)
  up,          (* the connection is not lost                               *)
  arrived,     (* bytes the client has sent                                *)
  taken,       (* bytes read from it                                       *)
  (* the connection's goroutine *)
  pc,          (* program counter                                          *)
  asked,       (* the length of the slice passed to rwc.Read               *)
  n,           (* the bytes rwc.Read returned, 0 for an error              *)
  upto,        (* the last of them                                         *)
  got,         (* how many bytes the callers of Read have received         *)
  lastByte,    (* the last of them                                         *)
  watching,    (* startBackgroundRead was called, abortPendingRead not yet *)
  (* the background goroutine *)
  bg,          (* program counter                                          *)
  found,       (* what its Read returned: "byte", "timeout", "error"       *)
  bgByte,      (* the byte                                                 *)
  broadcasts   (* goroutines that have released cr.mu for the last time    *)

crVars     == <<inRead, hasByte, aborted, remain, byteBuf, cancelled>>
socketVars == <<deadline, up, arrived, taken>>
callVars   == <<pc, asked, n, upto, got, lastByte, watching>>
bgVars     == <<bg, found, bgByte, broadcasts>>
vars       == <<crVars, socketVars, callVars, bgVars>>

(* Every variable keeps its type; remain does not become negative.         *)
TypeOK ==
  /\ inRead \in BOOLEAN /\ hasByte \in BOOLEAN /\ aborted \in BOOLEAN
  /\ remain \in Nat /\ byteBuf \in Nat /\ cancelled \in BOOLEAN
  /\ deadline \in {"none", "header", "late", "past"} /\ up \in BOOLEAN
  /\ arrived \in 0..MaxBytes /\ taken \in 0..MaxBytes
  /\ pc \in {"idle", "sysRead", "relock", "wait", "woken", "closed", "panic"}
  /\ asked \in Nat /\ n \in Nat /\ upto \in Nat
  /\ got \in Nat /\ lastByte \in Nat /\ watching \in BOOLEAN
  /\ bg \in {"none", "sysRead", "relock"}
  /\ found \in {"byte", "timeout", "error"} /\ bgByte \in Nat
  /\ broadcasts \in 0..(MaxPending + 1)

Init ==
  /\ inRead = FALSE /\ hasByte = FALSE /\ aborted = FALSE
  /\ remain = 0 /\ byteBuf = 0 /\ cancelled = FALSE
  /\ deadline = "none" /\ up = TRUE /\ arrived = 0 /\ taken = 0
  /\ pc = "idle" /\ asked = 0 /\ n = 0 /\ upto = 0
  /\ got = 0 /\ lastByte = 0 /\ watching = FALSE
  /\ bg = "none" /\ found = "byte" /\ bgByte = 0 /\ broadcasts = 0

-----------------------------------------------------------------------------
(* The client and the network.                                             *)

Arrive ==
  /\ up /\ arrived < MaxBytes /\ arrived' = arrived + 1
  /\ UNCHANGED <<crVars, deadline, up, taken, callVars, bgVars>>

(* The client hangs up, the connection is lost, or Shutdown closes the     *)
(* socket.                                                                 *)
Break ==
  /\ up /\ up' = FALSE
  /\ UNCHANGED <<crVars, deadline, arrived, taken, callVars, bgVars>>

DeadlinePasses ==
  /\ deadline = "header" /\ deadline' = "late"
  /\ UNCHANGED <<crVars, up, arrived, taken, callVars, bgVars>>

-----------------------------------------------------------------------------
(* The connection's goroutine.                                             *)

Min(a, b) == IF a <= b THEN a ELSE b

(* readMessage starts: SetReadDeadline and setReadLimit.                   *)
SetReadLimit ==
  /\ pc = "idle" /\ ~watching
  /\ remain' = Limit /\ deadline' = "header"
  /\ UNCHANGED <<inRead, hasByte, aborted, byteBuf, cancelled, up, arrived,
                 taken, callVars, bgVars>>

(* Mutant: the slice is not cut to what remains.                           *)
ReadUncut(len) ==
  /\ pc = "idle" /\ ~watching /\ ~inRead /\ remain > 0
  /\ \/ /\ hasByte /\ hasByte' = FALSE /\ got' = got + 1 /\ lastByte' = byteBuf
        /\ UNCHANGED <<inRead, pc, asked>>
     \/ /\ ~hasByte /\ inRead' = TRUE /\ pc' = "sysRead" /\ asked' = len
        /\ UNCHANGED <<hasByte, got, lastByte>>
  /\ UNCHANGED <<aborted, remain, byteBuf, cancelled, socketVars, n, upto,
                 watching, bgVars>>

(* Read up to its first unlock: it panics, returns the byte of the         *)
(* background read, or goes to the socket.  At the limit it returns io.EOF *)
(* and changes nothing.                                                    *)
Read(len) ==
  /\ pc = "idle" /\ ~watching
  /\ \/ inRead /\ pc' = "panic"
        /\ UNCHANGED <<inRead, hasByte, asked, got, lastByte>>
     \/ /\ ~inRead /\ remain > 0 /\ hasByte
        /\ hasByte' = FALSE /\ got' = got + 1 /\ lastByte' = byteBuf
        /\ UNCHANGED <<inRead, pc, asked>>
     \/ /\ ~inRead /\ remain > 0 /\ ~hasByte
        /\ inRead' = TRUE /\ pc' = "sysRead" /\ asked' = Min(len, remain)
        /\ UNCHANGED <<hasByte, got, lastByte>>
  /\ UNCHANGED <<aborted, remain, byteBuf, cancelled, socketVars, n, upto,
                 watching, bgVars>>

(* rwc.Read returns some of the bytes that have arrived, or an error.      *)
ReadReturns ==
  /\ pc = "sysRead" /\ pc' = "relock"
  /\ \/ \E k \in 1..asked :
          /\ taken + k <= arrived
          /\ taken' = taken + k /\ n' = k /\ upto' = taken + k
     \/ /\ ~up \/ deadline \in {"late", "past"}
        /\ n' = 0 /\ UNCHANGED <<taken, upto>>
  /\ UNCHANGED <<crVars, deadline, up, arrived, asked, got, lastByte, watching,
                 bgVars>>

(* The rest of Read.  After an error serve closes the connection.  The     *)
(* Broadcast at the end finds nobody: only this goroutine waits.           *)
ReadEnds ==
  /\ pc = "relock" /\ inRead' = FALSE /\ remain' = remain - n
  /\ \/ /\ n > 0 /\ pc' = "idle" /\ got' = got + n /\ lastByte' = upto
        /\ UNCHANGED cancelled
     \/ /\ n = 0 /\ pc' = "closed" /\ cancelled' = TRUE
        /\ UNCHANGED <<got, lastByte>>
  /\ UNCHANGED <<hasByte, aborted, byteBuf, socketVars, asked, n, upto,
                 watching, bgVars>>

(* Mutant: a byte that is waiting in byteBuf is not looked at.             *)
StartBackgroundReadAnyway ==
  /\ pc = "idle" /\ ~watching /\ ~inRead /\ broadcasts <= MaxPending
  /\ watching' = TRUE
  /\ inRead' = TRUE /\ deadline' = "none" /\ bg' = "sysRead"
  /\ UNCHANGED <<hasByte, aborted, remain, byteBuf, cancelled, up, arrived,
                 taken, pc, asked, n, upto, got, lastByte, found, bgByte,
                 broadcasts>>

StartBackgroundRead ==
  /\ pc = "idle" /\ ~watching /\ broadcasts <= MaxPending
  /\ watching' = TRUE
  /\ \/ inRead /\ pc' = "panic" /\ UNCHANGED <<inRead, deadline, bg>>
     \/ ~inRead /\ hasByte /\ UNCHANGED <<inRead, pc, deadline, bg>>
     \/ /\ ~inRead /\ ~hasByte
        /\ inRead' = TRUE /\ deadline' = "none" /\ bg' = "sysRead"
        /\ UNCHANGED pc
  /\ UNCHANGED <<hasByte, aborted, remain, byteBuf, cancelled, up, arrived,
                 taken, asked, n, upto, got, lastByte, found, bgByte,
                 broadcasts>>

(* Mutant: it does not wait for the background read to end.                *)
AbortPendingReadAtOnce ==
  /\ pc = "idle" /\ watching /\ watching' = FALSE
  /\ UNCHANGED <<crVars, socketVars, pc, asked, n, upto, got, lastByte,
                 bgVars>>

(* Mutant: the aborted flag is forgotten.                                  *)
AbortPendingReadUnmarked ==
  /\ pc = "idle" /\ watching /\ watching' = FALSE
  /\ \/ ~inRead /\ UNCHANGED <<deadline, pc>>
     \/ inRead /\ deadline' = "past" /\ pc' = "wait"
  /\ UNCHANGED <<crVars, up, arrived, taken, asked, n, upto, got, lastByte,
                 bgVars>>

(* Mutant: the background read is not made to time out.                    *)
AbortPendingReadPatient ==
  /\ pc = "idle" /\ watching /\ watching' = FALSE
  /\ \/ ~inRead /\ UNCHANGED <<aborted, pc>>
     \/ inRead /\ aborted' = TRUE /\ pc' = "wait"
  /\ UNCHANGED <<inRead, hasByte, remain, byteBuf, cancelled, socketVars,
                 asked, n, upto, got, lastByte, bgVars>>

(* abortPendingRead up to its first cond.Wait.                             *)
AbortPendingRead ==
  /\ pc = "idle" /\ watching /\ watching' = FALSE
  /\ \/ ~inRead /\ UNCHANGED <<aborted, deadline, pc>>
     \/ inRead /\ aborted' = TRUE /\ deadline' = "past" /\ pc' = "wait"
  /\ UNCHANGED <<inRead, hasByte, remain, byteBuf, cancelled, up, arrived,
                 taken, asked, n, upto, got, lastByte, bgVars>>

(* The loop around cond.Wait, and what follows it.                         *)
Wake ==
  /\ pc = "woken"
  /\ \/ inRead /\ pc' = "wait" /\ UNCHANGED deadline
     \/ ~inRead /\ pc' = "idle" /\ deadline' = "none"
  /\ UNCHANGED <<crVars, up, arrived, taken, asked, n, upto, got, lastByte,
                 watching, bgVars>>

-----------------------------------------------------------------------------
(* The background goroutine.                                               *)

(* rwc.Read(cr.byteBuf[:]): one byte, the past deadline, or an error.      *)
BackgroundReadReturns ==
  /\ bg = "sysRead" /\ bg' = "relock"
  /\ \/ /\ taken < arrived /\ taken' = taken + 1
        /\ found' = "byte" /\ bgByte' = taken + 1
     \/ /\ deadline \in {"late", "past"}
        /\ found' = "timeout" /\ UNCHANGED <<taken, bgByte>>
     \/ ~up /\ found' = "error" /\ UNCHANGED <<taken, bgByte>>
  /\ UNCHANGED <<crVars, deadline, up, arrived, callVars, broadcasts>>

(* Mutant: every error of an aborted or a past read is taken for the       *)
(* abort.                                                                  *)
BackgroundReadEndsQuietly ==
  /\ bg = "relock" /\ bg' = "none"
  /\ \/ found = "byte" /\ hasByte' = TRUE /\ byteBuf' = bgByte
     \/ found # "byte" /\ UNCHANGED <<hasByte, byteBuf>>
  /\ aborted' = FALSE /\ inRead' = FALSE /\ broadcasts' = broadcasts + 1
  /\ UNCHANGED <<remain, cancelled, socketVars, callVars, found, bgByte>>

(* Its critical section: a time-out of an aborted read is no error.        *)
BackgroundReadEnds ==
  /\ bg = "relock" /\ bg' = "none"
  /\ \/ /\ found = "byte" /\ hasByte' = TRUE /\ byteBuf' = bgByte
        /\ UNCHANGED cancelled
     \/ /\ found = "timeout" /\ aborted
        /\ UNCHANGED <<hasByte, byteBuf, cancelled>>
     \/ /\ found = "error" \/ (found = "timeout" /\ ~aborted)
        /\ cancelled' = TRUE /\ UNCHANGED <<hasByte, byteBuf>>
  /\ aborted' = FALSE /\ inRead' = FALSE /\ broadcasts' = broadcasts + 1
  /\ UNCHANGED <<remain, socketVars, callVars, found, bgByte>>

(* cr.cond.Broadcast(), after cr.mu was released.                          *)
Broadcast ==
  /\ broadcasts > 0 /\ broadcasts' = broadcasts - 1
  /\ pc' = IF pc = "wait" THEN "woken" ELSE pc
  /\ UNCHANGED <<crVars, socketVars, asked, n, upto, got, lastByte, watching,
                 bg, found, bgByte>>

-----------------------------------------------------------------------------
Terminated == pc = "closed" /\ UNCHANGED vars

Next ==
  \/ Arrive \/ Break \/ DeadlinePasses
  \/ SetReadLimit
  \/ (\E len \in Lengths : Read(len)) \/ ReadReturns \/ ReadEnds
  \/ StartBackgroundRead \/ AbortPendingRead \/ Wake
  \/ BackgroundReadReturns \/ BackgroundReadEnds \/ Broadcast
  \/ Terminated

Spec == Init /\ [][Next]_vars

(* Goroutines run, and a read ends once its deadline has passed or the     *)
(* socket is gone.  The client and the callers of connReader owe nothing.  *)
Fairness ==
  /\ WF_vars(BackgroundReadReturns) /\ WF_vars(BackgroundReadEnds)
  /\ WF_vars(Broadcast) /\ WF_vars(Wake)

FairSpec == Spec /\ Fairness

-----------------------------------------------------------------------------
(* Safety.                                                                 *)

(* The two goroutines are never both in a read of the socket, and Read and *)
(* startBackgroundRead do not find a read that should not be there.        *)
OneReader == pc # "panic" /\ ~(pc = "sysRead" /\ bg = "sysRead")

(* The byte the callers of Read were given last is the got-th byte of the  *)
(* stream, and when nobody reads every byte taken from the socket has been *)
(* given to them or is in byteBuf: none is lost, doubled or misplaced when *)
(* a background read takes one just before it is aborted.                  *)
BytesInOrder ==
  /\ lastByte = got
  /\ ~inRead => taken = got + (IF hasByte THEN 1 ELSE 0)

(* Taking the socket back is not taken for its loss: the context of a      *)
(* connection that goes on is cancelled only when the socket is gone.      *)
AbortIsNoError == cancelled /\ pc # "closed" => ~up

(* When the guards of the fair actions hold, in terms of the state alone.  *)
CanReturn    ==
  /\ bg = "sysRead"
  /\ taken < arrived \/ deadline \in {"late", "past"} \/ ~up
CanRelock    == bg = "relock" /\ found \in {"byte", "timeout", "error"}
CanBroadcast == broadcasts > 0
CanWake      == pc = "woken"

(* An action can be taken when its guard holds.                            *)
GuardsSuffice ==
  /\ CanReturn    => ENABLED <<BackgroundReadReturns>>_vars
  /\ CanRelock    => ENABLED <<BackgroundReadEnds>>_vars
  /\ CanBroadcast => ENABLED <<Broadcast>>_vars
  /\ CanWake      => ENABLED <<Wake>>_vars

(* A background read that is aborted or has lost its socket can return,    *)
(* its critical section covers whatever it found, and while somebody waits *)
(* in cond.Wait a step that brings the wake-up closer can be taken.        *)
CanGoOn ==
  /\ bg = "sysRead" /\ (aborted \/ ~up) => CanReturn
  /\ bg = "relock" => CanRelock
  /\ pc = "wait" => CanReturn \/ CanRelock \/ CanBroadcast

(* A goroutine that somebody waits for can take its step.                  *)
NobodyStuck == GuardsSuffice /\ CanGoOn

-----------------------------------------------------------------------------
(* Liveness, under FairSpec.                                               *)

(* abortPendingRead returns: the wake-up is never lost.                    *)
AbortReturns == pc = "wait" ~> pc = "idle"

(* A background read notices that the socket is gone and cancels the       *)
(* context, unless it is aborted first or finds a byte.                    *)
HangUpNoticed ==
  bg = "sysRead" /\ ~up ~> cancelled \/ hasByte \/ ~watching
=============================================================================
