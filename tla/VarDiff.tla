------------------------------- MODULE VarDiff -------------------------------
(***************************************************************************)
(* stratum/server/vardiff/vardiff.go: the difficulty of a worker, adjusted *)
(* to the time between its shares.  A step is a call of CalcNextDiff, with *)
(* the time since the last call and the current difficulty as its inputs.  *)
(* The clock is time.Now().Unix(), which may be set back.                  *)
(*                                                                         *)
(* The quotients of floats are pairs <<numerator, denominator>>, with a    *)
(* denominator that is not negative; <<n, 0>> is +Inf.  Rounding is left   *)
(* out.                                                                    *)
(***************************************************************************)
EXTENDS RingBuffer

CONSTANTS
  Parameters,  (* the arguments of NewVarDiff                              *)
  Starts,      (* the times of its call                                    *)
  Steps,       (* the times between calls of CalcNextDiff, in seconds      *)
  Diffs,       (* the current difficulties                                 *)
  Second,      (* time.Second, in nanoseconds, scaled down                 *)
  Clock,       (* bound: the times the clock may show                      *)
  MaxCalls     (* bound: calls since the buffer was cleared                *)

(* VariancePercent is given in hundredths, so that fractions are possible. *)
ASSUME ParametersAssumption ==
  Parameters \subseteq
    [MinDiff : Nat \ {0}, MaxDiff : Nat \ {0}, TargetTime : Nat \ {0},
     RetargetTime : Nat \ {0}, Variance : Nat, X2Mode : BOOLEAN]
ASSUME SizesAssumption ==
  \A q \in Parameters :
    q.MinDiff <= q.MaxDiff /\ q.TargetTime <= q.RetargetTime
ASSUME InputsAssumption ==
  /\ Starts \subseteq Clock /\ Clock \subseteq Int /\ Steps \subseteq Int
  /\ Diffs \subseteq Nat \ {0} /\ Second \in Nat \ {0} /\ MaxCalls \in Nat

VARIABLES
  p,             (* the parameters                                         *)
  TimeBuffer, LastRtc, LastTimestamp,
  currentDiff,   (* the argument of the last call                          *)
  newDiff,       (* what it returned                                       *)
  avg,           (* the average it found, <<0, 0>> if it took none         *)
  intervals      (* the times it was called after, since the last Clear    *)

vars == <<p, TimeBuffer, LastRtc, LastTimestamp, currentDiff, newDiff, avg,
          intervals>>

-----------------------------------------------------------------------------
(* Quotients.                                                              *)

Less(q, r)    == q[1] * r[2] < r[1] * q[2]
Whole(k)      == <<k, 1>>
Zero          == Whole(0)
Times(q, k)   == <<q[1] * k, q[2]>>
Quotient(n, d) == IF d < 0 THEN <<-n, -d>> ELSE <<n, d>>

-----------------------------------------------------------------------------
BufferSize(q) == (q.RetargetTime \div q.TargetTime) * 4

MaxTargetTime == <<p.TargetTime * (100 + p.Variance), 100>>
MinTargetTime == <<p.TargetTime * (100 - p.Variance), 100>>

Init ==
  /\ p \in Parameters
  /\ TimeBuffer = NewRingBuffer(BufferSize(p))
  /\ LastTimestamp \in Starts
  /\ LastRtc = LastTimestamp - (p.RetargetTime \div 2)
  /\ currentDiff = 0 /\ newDiff = Zero /\ avg = <<0, 0>> /\ intervals = <<>>

(* LastRtc == 0 stands for "not started": the clock of the host said 1970. *)
StartOver(dt, d) ==
  /\ LastRtc = 0 /\ LastTimestamp + dt \in Clock
  /\ LastTimestamp' = LastTimestamp + dt
  /\ LastRtc' = LastTimestamp' - (p.RetargetTime \div 2)
  /\ currentDiff' = d /\ newDiff' = Zero /\ avg' = <<0, 0>>
  /\ UNCHANGED <<p, TimeBuffer, intervals>>

(* What every other call does first.                                       *)
Record(dt, d) ==
  /\ LastRtc # 0 /\ LastTimestamp + dt \in Clock /\ Len(intervals) < MaxCalls
  /\ LastTimestamp' = LastTimestamp + dt /\ currentDiff' = d
  /\ UNCHANGED p

(* Mutant: the size is that of the buffer before the call.                 *)
TooEarlyUnlessEmpty(dt) ==
  LastTimestamp + dt - LastRtc < p.RetargetTime /\ Size(TimeBuffer) > 0

TooEarly(dt) ==
  /\ LastTimestamp + dt - LastRtc < p.RetargetTime
  /\ Size(Appended(TimeBuffer, dt)) > 0

Wait(dt, d) ==
  /\ Record(dt, d) /\ TooEarly(dt)
  /\ TimeBuffer' = Appended(TimeBuffer, dt)
  /\ intervals' = Append(intervals, dt)
  /\ newDiff' = Zero /\ avg' = <<0, 0>> /\ UNCHANGED LastRtc

(* What a call that is not too early does next.                            *)
Retarget(dt, d) ==
  /\ Record(dt, d) /\ ~TooEarly(dt)
  /\ LastRtc' = LastTimestamp + dt
  /\ LET rb == Appended(TimeBuffer, dt) IN avg' = <<Sum(rb), Size(rb)>>

Slow(d) == Less(MaxTargetTime, avg') /\ d > p.MinDiff
Fast(d) == ~Slow(d) /\ Less(avg', MinTargetTime)

(* TargetTime in nanoseconds over an average in seconds.                   *)
Ratio == Quotient(p.TargetTime * Second * avg'[2], avg'[1])

(* Mutant: the difficulty may fall below MinDiff.                          *)
LoweredUnbounded(d) == Times(IF p.X2Mode THEN <<1, 2>> ELSE Ratio, d)

Lowered(d) ==
  LET q == Times(IF p.X2Mode THEN <<1, 2>> ELSE Ratio, d)
  IN  IF Less(q, Whole(p.MinDiff)) THEN Whole(p.MinDiff) ELSE q

(* Mutant: the difficulty is raised without a look at MaxDiff.             *)
RaisedUnbounded(d) == Times(IF p.X2Mode THEN <<2, 1>> ELSE Ratio, d)

Raised(d) ==
  LET q == Times(IF p.X2Mode THEN <<2, 1>> ELSE Ratio, d)
  IN  IF Less(Whole(p.MaxDiff), q) THEN Whole(p.MaxDiff) ELSE q

(* A quotient that is not positive is not used.                            *)
Positive(q, d) == IF Less(Zero, q) THEN q ELSE Whole(d)

RetargetSlow(dt, d) ==
  /\ Retarget(dt, d) /\ Slow(d)
  /\ newDiff' = Positive(Lowered(d), d)
  /\ TimeBuffer' = Cleared(TimeBuffer) /\ intervals' = <<>>

RetargetFast(dt, d) ==
  /\ Retarget(dt, d) /\ Fast(d)
  /\ newDiff' = Positive(Raised(d), d)
  /\ TimeBuffer' = Cleared(TimeBuffer) /\ intervals' = <<>>

(* The difficulty is kept, and the buffer too.                             *)
RetargetNone(dt, d) ==
  /\ Retarget(dt, d) /\ ~Slow(d) /\ ~Fast(d)
  /\ newDiff' = Whole(d)
  /\ TimeBuffer' = Appended(TimeBuffer, dt)
  /\ intervals' = Append(intervals, dt)

CalcNextDiff(dt, d) ==
  \/ StartOver(dt, d) \/ Wait(dt, d)
  \/ RetargetSlow(dt, d) \/ RetargetFast(dt, d) \/ RetargetNone(dt, d)

(* The bound is reached.                                                   *)
Terminated == Len(intervals) = MaxCalls /\ UNCHANGED vars

Next ==
  \/ \E dt \in Steps, d \in Diffs : CalcNextDiff(dt, d)
  \/ Terminated

Spec == Init /\ [][Next]_vars

-----------------------------------------------------------------------------
BufferTypeOK ==
  /\ p \in Parameters /\ TimeBuffer \in Buffers(BufferSize(p))
  /\ LastRtc \in Int /\ LastTimestamp \in Int
  /\ intervals \in Seq(Int)

(* Every variable keeps its type; the cursor stays inside the buffer, and  *)
(* a difficulty is a finite number.                                        *)
TypeOK ==
  /\ BufferTypeOK
  /\ currentDiff \in Diffs \cup {0}
  /\ newDiff[1] \in Nat /\ newDiff[2] \in Nat \ {0}
  /\ avg = <<0, 0>> \/ (avg[1] \in Int /\ avg[2] \in 1..TimeBuffer.MaxSize)

(* The buffer holds the last MaxSize intervals since it was cleared, or    *)
(* all of them if there are fewer.                                         *)
WindowIsLast == Holds(TimeBuffer, intervals)

(* The difficulty is judged once in RetargetTime, however many shares      *)
(* arrive: Size() > 0 is always true, because the interval is appended     *)
(* first, and lets no call through early.                                  *)
RetargetsApart ==
  [][LastRtc' # LastRtc /\ LastRtc # 0
       => LastRtc' - LastRtc >= p.RetargetTime]_vars

(* The average is of one interval at least and positive, although intervals*)
(* may be zero or negative: a call that is not too early comes after every *)
(* one before it.  The quotient is thus never infinite, and the guard      *)
(* "newDiff <= 0" is never needed.                                         *)
AveragePositive == avg # <<0, 0>> => avg[1] > 0 /\ avg[2] > 0

(* What bounds a difficulty, whatever the clock did.  From below, always   *)
(* MinDiff.  From above, MaxDiff or what it was for a worker that is too   *)
(* fast, what it was in X2Mode for one that is too slow, but NOT MaxDiff   *)
(* without X2Mode, which is how conn.go:353 sets it: that worker may get   *)
(* up to Second times what it had, and what keeps it below is only that    *)
(* its average is above MaxTargetTime.  With a variance of 100 per cent or *)
(* more (30 counts as 3000) no worker is too fast, and in X2Mode none gets *)
(* more than it has.                                                       *)
KeptAboveMin ==
  newDiff # Zero /\ currentDiff >= p.MinDiff
    => ~Less(newDiff, Whole(p.MinDiff))

RaisedWithinMax ==
  avg # <<0, 0>> /\ Less(avg, MinTargetTime)
    => ~Less(Whole(p.MaxDiff), newDiff) \/ newDiff = Whole(currentDiff)

HalvedWhenSlow ==
  avg # <<0, 0>> /\ Less(MaxTargetTime, avg) /\ p.X2Mode
    => ~Less(Whole(currentDiff), newDiff)

SlowWithinSecond ==
  avg # <<0, 0>> /\ Less(MaxTargetTime, avg) /\ ~p.X2Mode
    => \/ newDiff \in {Whole(p.MinDiff), Whole(currentDiff)}
       \/ Less(newDiff, Times(<<100 * Second, 100 + p.Variance>>, currentDiff))

NeverTooFast ==
  p.Variance >= 100
    => /\ avg # <<0, 0>> => ~Less(avg, MinTargetTime)
       /\ p.X2Mode => ~Less(Whole(currentDiff), newDiff)

DifficultyBounded ==
  /\ KeptAboveMin /\ RaisedWithinMax /\ HalvedWhenSlow
  /\ SlowWithinSecond /\ NeverTooFast
=============================================================================
