------------------------------ MODULE RingBuffer ------------------------------
(***************************************************************************)
(* stratum/server/vardiff/ringbuffer.go: a buffer of the last MaxSize      *)
(* values, as operators on its record.  Data[i] of the code is Data[i + 1] *)
(* here.                                                                   *)
(***************************************************************************)
EXTENDS Integers, Sequences

NewRingBuffer(maxSize) ==
  [IsFull |-> FALSE, MaxSize |-> maxSize, Cursor |-> 0, Data |-> <<>>]

(* Mutant: the cursor does not wrap.                                       *)
OverwrittenUnwrapped(rb, x) ==
  [rb EXCEPT !.Data[rb.Cursor + 1] = x, !.Cursor = rb.Cursor + 1]

(* Overwrite the oldest value of a full buffer.                            *)
Overwritten(rb, x) ==
  [IsFull |-> TRUE, MaxSize |-> rb.MaxSize,
   Cursor |-> (rb.Cursor + 1) % rb.MaxSize,
   Data   |-> [rb.Data EXCEPT ![rb.Cursor + 1] = x]]

(* Mutant: the buffer becomes full one append too late.                    *)
GrownLate(rb, x) ==
  [rb EXCEPT !.Data = Append(@, x), !.Cursor = @ + 1,
             !.IsFull = Len(rb.Data) = rb.MaxSize]

(* Append to one that is not full yet; the value that fills it sends the   *)
(* cursor back to the start.                                               *)
Grown(rb, x) ==
  LET full == Len(rb.Data) + 1 = rb.MaxSize
  IN  [IsFull |-> full, MaxSize |-> rb.MaxSize,
       Cursor |-> IF full THEN 0 ELSE rb.Cursor + 1,
       Data   |-> Append(rb.Data, x)]

(* RingBuffer.Append                                                       *)
Appended(rb, x) == IF rb.IsFull THEN Overwritten(rb, x) ELSE Grown(rb, x)

Size(rb) == IF rb.IsFull THEN rb.MaxSize ELSE rb.Cursor

(* The sums of the first values of s, and of all of them: Avg is the       *)
(* quotient of Sum and Size.                                               *)
Sums(s) ==
  LET sum[i \in 0..Len(s)] == IF i = 0 THEN 0 ELSE sum[i - 1] + s[i] IN sum

Sum(rb) == Sums(rb.Data)[Len(rb.Data)]

Cleared(rb) == NewRingBuffer(rb.MaxSize)

-----------------------------------------------------------------------------
(* Reference: what a buffer of a given size is, and what it should hold.   *)

Buffers(size) == [IsFull : BOOLEAN, MaxSize : {size}, Cursor : 0..(size - 1),
                  Data : Seq(Int)]

(* Where in a sequence of k values the i-th of a full buffer with cursor c *)
(* is: the newest c are at its start, and those before them at its end.    *)
Place(k, c, size, i) == k - c + i - (IF i <= c THEN 0 ELSE size)

(* The buffer holds the last MaxSize values of s, or all of s if there are *)
(* fewer.                                                                  *)
Holds(rb, s) ==
  /\ rb.IsFull =>
       /\ Len(rb.Data) = rb.MaxSize /\ rb.MaxSize <= Len(s)
       /\ \A i \in 1..rb.MaxSize :
            rb.Data[i] = s[Place(Len(s), rb.Cursor, rb.MaxSize, i)]
  /\ ~rb.IsFull => rb.Data = s /\ rb.Cursor = Len(s)
=============================================================================
