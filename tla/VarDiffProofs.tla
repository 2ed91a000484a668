---------------------------- MODULE VarDiffProofs ----------------------------
(***************************************************************************)
(* Proofs about VarDiff and its RingBuffer, for any parameters, any clock  *)
(* and any number of calls: the window holds what it should, difficulties  *)
(* are judged RetargetTime apart, the average is positive and the new      *)
(* difficulty within its bounds.                                           *)
(***************************************************************************)
EXTENDS VarDiff, Induction, TLAPS

-----------------------------------------------------------------------------
(* Sums is the function its recursive definition describes.                *)

LEMMA SumsExist ==
  ASSUME NEW s \in Seq(Int)
  PROVE  \E f \in [0..Len(s) -> Int] :
           f = [i \in 0..Len(s) |-> IF i = 0 THEN 0 ELSE f[i - 1] + s[i]]
  <1>. DEFINE Ok(k, f) ==
                f = [i \in 0..k |-> IF i = 0 THEN 0 ELSE f[i - 1] + s[i]]
              S == {k \in Nat : \E f \in [0..k -> Int] : Ok(k, f)}
  <1>1. Len(s) \in Nat OBVIOUS
  <1>2. 0 \in S
    <2>. DEFINE g == [i \in 0..0 |-> 0]
    <2>1. g \in [0..0 -> Int] /\ Ok(0, g) OBVIOUS
    <2>. QED BY <2>1
  <1>3. \A k \in 0..(Len(s) - 1) : k \in S => k + 1 \in S
    <2>. SUFFICES ASSUME NEW k \in 0..(Len(s) - 1), k \in S
                  PROVE  k + 1 \in S
      OBVIOUS
    <2>1. PICK f \in [0..k -> Int] : Ok(k, f) OBVIOUS
    <2>2. k \in Nat /\ s[k + 1] \in Int BY <1>1
    <2>. DEFINE g == [i \in 0..(k + 1) |->
                        IF i = k + 1 THEN f[k] + s[k + 1] ELSE f[i]]
    <2>3. g \in [0..(k + 1) -> Int] BY <2>2
    <2>a. \A i \in 0..k : f[i] = IF i = 0 THEN 0 ELSE f[i - 1] + s[i]
      BY <2>1
    <2>4. \A i \in 0..(k + 1) :
            g[i] = IF i = 0 THEN 0 ELSE g[i - 1] + s[i]
      <3>. HIDE DEF S, Ok
      <3>. QED BY <2>2, <2>a
    <2>5. Ok(k + 1, g)
      <3>. HIDE DEF g
      <3>. QED BY <2>3, <2>4
    <2>. HIDE DEF g, Ok
    <2>. QED BY <2>2, <2>3, <2>5
  <1>. HIDE DEF S
  <1>4. \A k \in 0..Len(s) : k \in S BY <1>1, <1>2, <1>3, InductionUpTo
  <1>5. Len(s) \in S BY <1>1, <1>4
  <1>. QED BY <1>5 DEF S

LEMMA SumsStep ==
  ASSUME NEW s \in Seq(Int)
  PROVE  /\ \A i \in 0..Len(s) : Sums(s)[i] \in Int
         /\ Sums(s)[0] = 0
         /\ \A i \in 1..Len(s) : Sums(s)[i] = Sums(s)[i - 1] + s[i]
  <1>. DEFINE Eq(f) == f = [i \in 0..Len(s) |->
                              IF i = 0 THEN 0 ELSE f[i - 1] + s[i]]
              S == {i \in 0..Len(s) : Sums(s)[i] \in Int}
  <1>1. Sums(s) = CHOOSE f : Eq(f) BY Zenon DEF Sums
  <1>2. \E f : Eq(f) BY SumsExist
  <1>3. Eq(Sums(s))
    <2>. HIDE DEF Eq
    <2>. QED BY <1>1, <1>2, Zenon
  <1>4. \A i \in 0..Len(s) :
          Sums(s)[i] = IF i = 0 THEN 0 ELSE Sums(s)[i - 1] + s[i]
    BY <1>3
  <1>5. Len(s) \in Nat OBVIOUS
  <1>6. 0 \in S BY <1>4, <1>5
  <1>7. \A i \in 0..(Len(s) - 1) : i \in S => i + 1 \in S
    <2>. TAKE i \in 0..(Len(s) - 1)
    <2>1. /\ i + 1 \in 0..Len(s) /\ i + 1 # 0 /\ i + 1 - 1 = i
          /\ s[i + 1] \in Int
      BY <1>5
    <2>2. Sums(s)[i + 1] = Sums(s)[i] + s[i + 1] BY <1>4, <2>1
    <2>. QED BY <2>1, <2>2
  <1>8. \A i \in 0..Len(s) : i \in S
    <2>. HIDE DEF S
    <2>. QED BY <1>5, <1>6, <1>7, InductionUpTo
  <1>. QED BY <1>4, <1>5, <1>8

(* Two sequences that differ in one value at most have sums that differ by *)
(* as much from there on.                                                  *)
At(j, delta, i)   == IF i = j THEN delta ELSE 0
From(j, delta, i) == IF 1 <= j /\ j <= i THEN delta ELSE 0

Neighbours(s, t, n, j, delta) ==
  \A i \in 1..n : t[i] = s[i] + At(j, delta, i)

LEMMA SumsOfNeighbours ==
  ASSUME NEW s \in Seq(Int), NEW t \in Seq(Int), NEW n \in Nat,
         n <= Len(s), n <= Len(t), NEW j \in Int, NEW delta \in Int,
         Neighbours(s, t, n, j, delta)
  PROVE  \A i \in 0..n : Sums(t)[i] = Sums(s)[i] + From(j, delta, i)
  <1>. DEFINE S == {i \in 0..n : Sums(t)[i] = Sums(s)[i] + From(j, delta, i)}
  <1>1. 0 \in S BY SumsStep DEF From
  <1>2. \A i \in 0..(n - 1) : i \in S => i + 1 \in S
    <2>. SUFFICES ASSUME NEW i \in 0..(n - 1), i \in S PROVE i + 1 \in S
      OBVIOUS
    <2>1. /\ i + 1 \in 1..Len(s) /\ i + 1 \in 1..Len(t) /\ i + 1 \in 1..n
          /\ i \in 0..Len(s) /\ i + 1 - 1 = i
      OBVIOUS
    <2>2. /\ Sums(s)[i + 1] = Sums(s)[i] + s[i + 1]
          /\ Sums(t)[i + 1] = Sums(t)[i] + t[i + 1]
          /\ Sums(s)[i] \in Int /\ s[i + 1] \in Int
      BY <2>1, SumsStep
    <2>3. t[i + 1] = s[i + 1] + At(j, delta, i + 1) BY <2>1 DEF Neighbours
    <2>. QED BY <2>1, <2>2, <2>3 DEF At, From
  <1>3. \A i \in 0..n : i \in S
    <2>. HIDE DEF S
    <2>. QED BY <1>1, <1>2, InductionUpTo
  <1>. QED BY <1>3

LEMMA SumsOfAppend ==
  ASSUME NEW s \in Seq(Int), NEW x \in Int
  PROVE  /\ \A i \in 0..Len(s) : Sums(Append(s, x))[i] = Sums(s)[i]
         /\ Sums(Append(s, x))[Len(s) + 1] = Sums(s)[Len(s)] + x
  <1>. DEFINE t == Append(s, x)
              n == Len(s)
  <1>1. /\ n \in Nat /\ t \in Seq(Int) /\ Len(t) = n + 1 /\ t[n + 1] = x
        /\ \A i \in 1..n : t[i] = s[i] /\ s[i] \in Int
    OBVIOUS
  <1>. HIDE DEF t
  <1>2. \A i \in 0..n : Sums(s)[i] \in Int BY SumsStep
  <1>3. Neighbours(s, t, n, n + 1, x) BY <1>1 DEF Neighbours, At
  <1>4. \A i \in 0..n : Sums(t)[i] = Sums(s)[i] + From(n + 1, x, i)
    <2>. DEFINE j == n + 1
    <2>1. /\ t \in Seq(Int) /\ n \in Nat /\ j \in Int
          /\ n <= Len(s) /\ n <= Len(t) /\ Neighbours(s, t, n, j, x)
      BY <1>1, <1>3
    <2>2. s \in Seq(Int) /\ x \in Int OBVIOUS
    <2>. HIDE DEF n, j
    <2>3. \A i \in 0..n : Sums(t)[i] = Sums(s)[i] + From(j, x, i)
      BY <2>1, <2>2, SumsOfNeighbours, Zenon
    <2>. QED BY <2>3 DEF j
  <1>5. \A i \in 0..n : Sums(t)[i] = Sums(s)[i] BY <1>1, <1>2, <1>4 DEF From
  <1>6. Sums(t)[n + 1] = Sums(t)[n] + t[n + 1] BY <1>1, SumsStep
  <1>. QED BY <1>1, <1>5, <1>6 DEF t

-----------------------------------------------------------------------------
(* The ring buffer.                                                        *)

LEMMA NewHoldsNothing ==
  ASSUME NEW size \in Nat \ {0}
  PROVE  /\ NewRingBuffer(size) \in Buffers(size)
         /\ Holds(NewRingBuffer(size), <<>>)
  <1>1. 0 \in 0..(size - 1) /\ <<>> \in Seq(Int) /\ Len(<<>>) = 0 OBVIOUS
  <1>. QED BY <1>1 DEF NewRingBuffer, Buffers, Holds

LEMMA ClearedHoldsNothing ==
  ASSUME NEW size \in Nat \ {0}, NEW rb \in Buffers(size)
  PROVE  Cleared(rb) \in Buffers(size) /\ Holds(Cleared(rb), <<>>)
  <1>1. Cleared(rb) = NewRingBuffer(size) BY DEF Cleared, Buffers
  <1>. QED BY <1>1, NewHoldsNothing

LEMMA CursorWraps ==
  ASSUME NEW size \in Nat \ {0}, NEW c \in 0..(size - 1)
  PROVE  (c + 1) % size = IF c + 1 = size THEN 0 ELSE c + 1
  <1>1. CASE c + 1 = size BY <1>1
  <1>2. CASE c + 1 < size BY <1>2
  <1>. QED BY <1>1, <1>2

(* Writing x at the cursor, the oldest place, moves the window one on.     *)
LEMMA OverwrittenHolds ==
  ASSUME NEW size \in Nat \ {0}, NEW rb \in Buffers(size),
         NEW s \in Seq(Int), NEW x \in Int, Holds(rb, s), rb.IsFull
  PROVE  /\ Overwritten(rb, x) \in Buffers(size)
         /\ Holds(Overwritten(rb, x), Append(s, x))
         /\ Size(Overwritten(rb, x)) = size
  <1>. DEFINE c == rb.Cursor
              d == rb.Data
              new == [d EXCEPT ![c + 1] = x]
              next == (c + 1) % size
              r == Overwritten(rb, x)
              t == Append(s, x)
  <1>1. /\ rb.MaxSize = size /\ c \in 0..(size - 1) /\ d \in Seq(Int)
    BY DEF Buffers
  <1>2. Len(d) = size /\ size <= Len(s) BY <1>1 DEF Holds
  <1>3. \A i \in 1..size :
          d[i] = s[Place(Len(s), c, size, i)]
    BY <1>1 DEF Holds
  <1>4. next = IF c + 1 = size THEN 0 ELSE c + 1 BY <1>1, CursorWraps
  <1>5. r.IsFull /\ r.MaxSize = size /\ r.Cursor = next /\ r.Data = new
        /\ r = [IsFull |-> TRUE, MaxSize |-> size, Cursor |-> next,
                Data |-> new]
    BY <1>1 DEF Overwritten
  <1>6. new \in Seq(Int) /\ Len(new) = size BY <1>1, <1>2
  <1>7. Len(t) = Len(s) + 1 OBVIOUS
  <1>8. next \in 0..(size - 1) BY <1>1, <1>4
  <1>a. new = [d EXCEPT ![c + 1] = x] /\ t = Append(s, x) OBVIOUS
  <1>. HIDE DEF c, d, next, r, new, t
  <1>9. \A i \in 1..size :
          new[i] = t[Place(Len(s) + 1, next, size, i)]
    <2>. TAKE i \in 1..size
    <2>. DEFINE k == Len(s)
                e == Place(k + 1, next, size, i)
    <2>1. /\ k \in Nat /\ size <= k /\ i \in Int
          /\ t[k + 1] = x /\ \A j \in 1..k : t[j] = s[j]
      BY <1>2, <1>a
    <2>2. new[i] = IF i = c + 1 THEN x ELSE d[i] BY <1>1, <1>2, <1>a
    <2>3. d[i] = s[k - c + i - (IF i <= c THEN 0 ELSE size)]
      BY <1>3 DEF Place
    <2>4. e = k + 1 - next + i - (IF i <= next THEN 0 ELSE size)
      BY <1>1, <1>4, <2>1 DEF Place
    <2>. HIDE DEF k, e
    <2>5. CASE i = c + 1
      <3>1. e = k + 1 BY <1>1, <1>4, <2>1, <2>4, <2>5
      <3>2. new[i] = t[e] BY <2>1, <2>2, <2>5, <3>1
      <3>. QED BY <3>2 DEF e, k
    <2>6. CASE i # c + 1
      <3>1. k - c + i - (IF i <= c THEN 0 ELSE size) = e
        <4>1. CASE i <= c BY <1>1, <1>4, <2>1, <2>4, <4>1
        <4>2. CASE i > c + 1 BY <1>1, <1>4, <2>1, <2>4, <4>2
        <4>. QED BY <1>1, <2>1, <2>6, <4>1, <4>2
      <3>2. e \in 1..k
        <4>1. CASE i <= c BY <1>1, <1>4, <2>1, <2>4, <4>1
        <4>2. CASE i > c + 1 BY <1>1, <1>4, <2>1, <2>4, <4>2
        <4>. QED BY <1>1, <2>1, <2>6, <4>1, <4>2
      <3>3. new[i] = t[e] BY <2>1, <2>2, <2>3, <2>6, <3>1, <3>2
      <3>. QED BY <3>3 DEF e, k
    <2>. QED BY <2>5, <2>6
  <1>10. Holds(r, t)
    <2>1. Len(r.Data) = r.MaxSize /\ r.MaxSize <= Len(t)
      BY <1>2, <1>5, <1>6, <1>7
    <2>2. \A i \in 1..r.MaxSize :
            r.Data[i] = t[Place(Len(t), r.Cursor, r.MaxSize, i)]
      BY <1>5, <1>7, <1>9
    <2>. QED BY <1>5, <2>1, <2>2 DEF Holds
  <1>11. r \in Buffers(size) BY <1>5, <1>6, <1>8 DEF Buffers
  <1>12. Size(r) = size BY <1>5 DEF Size
  <1>. QED BY <1>10, <1>11, <1>12 DEF r, t

LEMMA GrownHolds ==
  ASSUME NEW size \in Nat \ {0}, NEW rb \in Buffers(size),
         NEW s \in Seq(Int), NEW x \in Int, Holds(rb, s), ~rb.IsFull
  PROVE  /\ Grown(rb, x) \in Buffers(size)
         /\ Holds(Grown(rb, x), Append(s, x))
         /\ Size(Grown(rb, x)) > 0
  <1>. DEFINE t == Append(s, x)
              k == Len(s)
  <1>1. /\ rb.MaxSize = size /\ rb.Cursor = k /\ rb.Data = s
        /\ k \in 0..(size - 1)
    BY DEF Buffers, Holds
  <1>2. t \in Seq(Int) /\ Len(t) = k + 1 OBVIOUS
  <1>3. CASE k + 1 = size
    <2>1. Grown(rb, x) = [IsFull |-> TRUE, MaxSize |-> size,
                          Cursor |-> 0, Data |-> t]
      BY <1>1, <1>3 DEF Grown
    <2>. HIDE DEF t, k
    <2>2. \A i \in 1..size : Place(size, 0, size, i) = i BY DEF Place
    <2>3. Holds(Grown(rb, x), t) BY <1>2, <1>3, <2>1, <2>2 DEF Holds
    <2>. QED BY <1>2, <2>1, <2>3 DEF Buffers, Size, t
  <1>4. CASE k + 1 < size
    <2>a. (k + 1 = size) = FALSE BY <1>4
    <2>1. Grown(rb, x) = [IsFull |-> FALSE, MaxSize |-> size,
                          Cursor |-> k + 1, Data |-> t]
      BY <1>1, <2>a, Zenon DEF Grown
    <2>. HIDE DEF t, k
    <2>2. Holds(Grown(rb, x), t) BY <1>2, <2>1 DEF Holds
    <2>. QED BY <1>1, <1>2, <1>4, <2>1, <2>2 DEF Buffers, Size, t
  <1>. QED BY <1>1, <1>3, <1>4

(* Append keeps the newest values, and its buffer is not empty.            *)
LEMMA AppendedHolds ==
  ASSUME NEW size \in Nat \ {0}, NEW rb \in Buffers(size),
         NEW s \in Seq(Int), NEW x \in Int, Holds(rb, s)
  PROVE  /\ Appended(rb, x) \in Buffers(size)
         /\ Holds(Appended(rb, x), Append(s, x))
         /\ Size(Appended(rb, x)) > 0
  BY OverwrittenHolds, GrownHolds DEF Appended

-----------------------------------------------------------------------------
(* The sum of a buffer is that of the last values it was given.            *)

SumsUp(rb, s) ==
  /\ Size(rb) \in 0..Len(s)
  /\ Sum(rb) = Sums(s)[Len(s)] - Sums(s)[Len(s) - Size(rb)]

LEMMA NewSumsUp ==
  ASSUME NEW size \in Nat \ {0}
  PROVE  SumsUp(NewRingBuffer(size), <<>>)
  <1>. DEFINE e == <<>>
              rb == NewRingBuffer(size)
  <1>1. e \in Seq(Int) /\ Len(e) = 0 OBVIOUS
  <1>2. Size(rb) = 0 BY DEF NewRingBuffer, Size
  <1>3. Sum(rb) = Sums(e)[0] BY <1>1 DEF NewRingBuffer, Sum
  <1>. HIDE DEF e, rb
  <1>4. Sums(e)[0] = 0 BY <1>1, SumsStep
  <1>5. SumsUp(rb, e) BY <1>1, <1>2, <1>3, <1>4 DEF SumsUp
  <1>. QED BY <1>5 DEF e, rb

LEMMA OverwrittenSumsUp ==
  ASSUME NEW size \in Nat \ {0}, NEW rb \in Buffers(size),
         NEW s \in Seq(Int), NEW x \in Int, Holds(rb, s), rb.IsFull,
         SumsUp(rb, s)
  PROVE  SumsUp(Overwritten(rb, x), Append(s, x))
  <1>. DEFINE c == rb.Cursor
              d == rb.Data
              new == [d EXCEPT ![c + 1] = x]
              r == Overwritten(rb, x)
              t == Append(s, x)
              n == Len(s)
              delta == x - d[c + 1]
  <1>1. /\ rb.MaxSize = size /\ c \in 0..(size - 1) /\ d \in Seq(Int)
    BY DEF Buffers
  <1>2. Len(d) = size /\ size <= n /\ n \in Nat BY <1>1 DEF Holds
  <1>a. c + 1 \in 1..size BY <1>1
  <1>3. d[c + 1] = s[Place(n, c, size, c + 1)]
    <2>1. \A i \in 1..size : d[i] = s[Place(n, c, size, i)]
      BY <1>1 DEF Holds
    <2>. HIDE DEF c, d, n
    <2>. QED BY <1>a, <2>1
  <1>4. Place(n, c, size, c + 1) = n + 1 - size BY <1>1, <1>2 DEF Place
  <1>5. /\ r.IsFull /\ r.MaxSize = size /\ r.Data = new
        /\ new \in Seq(Int) /\ Len(new) = size
    BY <1>1, <1>2 DEF Overwritten
  <1>6. /\ t \in Seq(Int) /\ Len(t) = n + 1 OBVIOUS
  <1>7. d[c + 1] \in Int /\ delta \in Int
    <2>. HIDE DEF c, d
    <2>. QED BY <1>1, <1>2, <1>a
  <1>8. Neighbours(d, new, size, c + 1, delta)
    <2>. HIDE DEF c, d
    <2>1. \A i \in 1..size : /\ new[i] = IF i = c + 1 THEN x ELSE d[i]
                             /\ d[i] \in Int
      BY <1>1, <1>2
    <2>. QED BY <1>1, <1>7, <2>1 DEF Neighbours, At
  <1>9. Sums(d)[size] = Sums(s)[n] - Sums(s)[n - size]
    BY <1>1, <1>2 DEF SumsUp, Size, Sum
  <1>10. /\ Size(r) = size /\ Sum(r) = Sums(new)[size]
    BY <1>5 DEF Size, Sum
  <1>11. /\ n + 1 - size \in 1..n /\ n + 1 - size - 1 = n - size
         /\ n - size \in 0..n /\ n \in 0..n /\ n + 1 - size \in 0..n
         /\ size \in 0..size /\ c + 1 \in Int /\ 1 <= c + 1 /\ c + 1 <= size
         /\ size \in 0..(n + 1)
    BY <1>1, <1>2
  <1>12. /\ Sums(t)[n + 1] = Sums(s)[n] + x
         /\ Sums(t)[n + 1 - size] = Sums(s)[n + 1 - size]
    BY <1>11, SumsOfAppend
  <1>13. /\ Sums(s)[n + 1 - size] = Sums(s)[n - size] + s[n + 1 - size]
         /\ Sums(s)[n - size] \in Int /\ Sums(s)[n] \in Int
    <2>1. /\ \A i \in 0..n : Sums(s)[i] \in Int
          /\ \A i \in 1..n : Sums(s)[i] = Sums(s)[i - 1] + s[i]
      BY SumsStep
    <2>. DEFINE m == n + 1 - size
                l == n - size
    <2>2. m \in 1..n /\ m - 1 = l /\ l \in 0..n /\ n \in 0..n BY <1>11
    <2>. HIDE DEF n, m, l
    <2>3. /\ Sums(s)[m] = Sums(s)[l] + s[m]
          /\ Sums(s)[l] \in Int /\ Sums(s)[n] \in Int
      BY <2>1, <2>2
    <2>. QED BY <2>3 DEF m, l
  <1>14. Sums(new)[size] = Sums(d)[size] + delta
    <2>. DEFINE j == c + 1
    <2>1. /\ d \in Seq(Int) /\ new \in Seq(Int) /\ size \in Nat
          /\ size <= Len(d) /\ size <= Len(new)
          /\ j \in Int /\ delta \in Int
          /\ Neighbours(d, new, size, j, delta)
      <3>. HIDE DEF c, d, new, delta
      <3>. QED BY <1>1, <1>2, <1>5, <1>7, <1>8, <1>11
    <2>. HIDE DEF c, d, new, delta, j, r, t, n
    <2>2. \A i \in 0..size : Sums(new)[i] = Sums(d)[i] + From(j, delta, i)
      BY <2>1, SumsOfNeighbours
    <2>3. size \in 0..size /\ 1 <= j /\ j <= size BY <1>11 DEF j
    <2>4. From(j, delta, size) = delta BY <2>3 DEF From
    <2>. QED BY <2>2, <2>3, <2>4
  <1>15. Sum(r) = Sums(t)[n + 1] - Sums(t)[n + 1 - size]
    <2>. HIDE DEF c, d, new, r, t, n
    <2>. QED BY <1>3, <1>4, <1>7, <1>9, <1>10, <1>12, <1>13, <1>14
  <1>. QED BY <1>6, <1>10, <1>11, <1>15 DEF SumsUp

LEMMA GrownSumsUp ==
  ASSUME NEW size \in Nat \ {0}, NEW rb \in Buffers(size),
         NEW s \in Seq(Int), NEW x \in Int, Holds(rb, s), ~rb.IsFull
  PROVE  SumsUp(Grown(rb, x), Append(s, x))
  <1>. DEFINE t == Append(s, x)
              n == Len(s)
              r == Grown(rb, x)
  <1>1. /\ rb.MaxSize = size /\ rb.Cursor = n /\ rb.Data = s /\ n \in Nat
    BY DEF Buffers, Holds
  <1>2. t \in Seq(Int) /\ Len(t) = n + 1 OBVIOUS
  <1>3. r.Data = t /\ Size(r) = n + 1
    <2>1. CASE n + 1 = size BY <1>1, <2>1 DEF Grown, Size
    <2>2. CASE n + 1 # size BY <1>1, <2>2 DEF Grown, Size
    <2>. QED BY <2>1, <2>2
  <1>4. Sum(r) = Sums(t)[n + 1] BY <1>2, <1>3 DEF Sum
  <1>5. Sums(t)[0] = 0 /\ Sums(t)[n + 1] \in Int
    <2>1. n + 1 \in 0..Len(t) BY <1>1, <1>2
    <2>. HIDE DEF t
    <2>. QED BY <1>2, <2>1, SumsStep
  <1>6. n + 1 \in 0..(n + 1) /\ n + 1 - (n + 1) = 0 BY <1>1
  <1>. HIDE DEF t, r
  <1>7. SumsUp(r, t) BY <1>2, <1>3, <1>4, <1>5, <1>6 DEF SumsUp
  <1>. QED BY <1>7 DEF t, r

LEMMA AppendedSumsUp ==
  ASSUME NEW size \in Nat \ {0}, NEW rb \in Buffers(size),
         NEW s \in Seq(Int), NEW x \in Int, Holds(rb, s), SumsUp(rb, s)
  PROVE  SumsUp(Appended(rb, x), Append(s, x))
  BY OverwrittenSumsUp, GrownSumsUp DEF Appended

-----------------------------------------------------------------------------
(* Products.                                                               *)

LEMMA ProductTyped ==
  ASSUME NEW a \in Nat, NEW b \in Nat
  PROVE  a * b \in Nat
  OBVIOUS

LEMMA ProductPositive ==
  ASSUME NEW a \in Nat \ {0}, NEW b \in Nat \ {0}
  PROVE  a * b \in Nat \ {0}
  OBVIOUS

LEMMA ProductMonotonic ==
  ASSUME NEW a \in Nat, NEW b \in Nat, NEW c \in Nat, NEW d \in Nat,
         a <= b, c <= d
  PROVE  a * c <= b * d
  <1>1. a * c <= b * c OBVIOUS
  <1>2. b * c <= b * d OBVIOUS
  <1>. QED BY <1>1, <1>2, ProductTyped

(* The band around t is not empty: an average is not on both its sides.    *)
LEMMA OneSide ==
  ASSUME NEW t \in Nat, NEW v \in Nat, NEW a \in Int, NEW s \in Nat
  PROVE  /\ ~(t * (100 + v) * s < a * 100 /\ a * 100 < t * (100 - v) * s)
         /\ t * (100 + v) * s < a * 100 => 0 < a
         /\ a * 100 < t * (100 - v) * s => a < t * s
         /\ 100 <= v /\ 0 < a => ~(a * 100 < t * (100 - v) * s)
  <1>. DEFINE u == t * s
              w == u * v
  <1>1. u \in Nat /\ w \in Nat BY ProductTyped
  <1>2. /\ t * (100 + v) * s = 100 * u + w
        /\ t * (100 - v) * s = 100 * u - w
    OBVIOUS
  <1>6. 100 <= v => u * 100 <= w BY <1>1, ProductMonotonic
  <1>. HIDE DEF u, w
  <1>3. t * (100 - v) * s < t * (100 + v) * s \/ w = 0 BY <1>1, <1>2
  <1>4. /\ ~(100 * u + w < a * 100 /\ a * 100 < 100 * u - w)
        /\ 100 * u + w < a * 100 => 0 < a
        /\ a * 100 < 100 * u - w => a < u
        /\ 100 <= v /\ 0 < a => ~(a * 100 < 100 * u - w)
    BY <1>1, <1>6
  <1>5. u = t * s BY DEF u
  <1>. QED BY <1>2, <1>4, <1>5

-----------------------------------------------------------------------------
(* CalcNextDiff.                                                           *)

(* The time from the k-th value of s to its last.                          *)
Since(s, k) == Sums(s)[Len(s)] - Sums(s)[k]

(* Every interval that is recorded began less than RetargetTime after the  *)
(* last judgement, for a later call would have been a judgement itself;    *)
(* and when that was at 0, where the clock starts over, it came after all  *)
(* of them.                                                                *)
BeganBefore(s, t) == \A k \in 0..Len(s) : t - Since(s, k) < 0
GoesBack(s)       == \A k \in 0..Len(s) : Since(s, k) >= 0

HistoryInv ==
  /\ BeganBefore(intervals, LastTimestamp - (LastRtc + p.RetargetTime))
  /\ LastRtc = 0 => GoesBack(intervals)

Inv == /\ BufferTypeOK /\ WindowIsLast
       /\ SumsUp(TimeBuffer, intervals) /\ HistoryInv

LEMMA SinceTyped ==
  ASSUME NEW s \in Seq(Int), NEW k \in 0..Len(s)
  PROVE  Since(s, k) \in Int
  <1>1. Len(s) \in 0..Len(s) OBVIOUS
  <1>. QED BY <1>1, SumsStep DEF Since

LEMMA SinceAppended ==
  ASSUME NEW s \in Seq(Int), NEW x \in Int
  PROVE  /\ Len(Append(s, x)) = Len(s) + 1
         /\ \A k \in 0..Len(s) : Since(Append(s, x), k) = Since(s, k) + x
         /\ Since(Append(s, x), Len(s) + 1) = 0
  <1>. DEFINE t == Append(s, x)
              n == Len(s)
  <1>1. t \in Seq(Int) /\ Len(t) = n + 1 /\ n \in 0..n OBVIOUS
  <1>2. /\ \A k \in 0..n : Sums(t)[k] = Sums(s)[k]
        /\ Sums(t)[n + 1] = Sums(s)[n] + x
    BY SumsOfAppend
  <1>3. \A k \in 0..n : Sums(s)[k] \in Int BY SumsStep
  <1>4. Sums(t)[n + 1] \in Int BY <1>1, <1>2, <1>3
  <1>5. \A k \in 0..(n + 1) : Since(t, k) = Sums(t)[n + 1] - Sums(t)[k]
    BY <1>1 DEF Since
  <1>6. \A k \in 0..n : Since(s, k) = Sums(s)[n] - Sums(s)[k] BY DEF Since
  <1>. HIDE DEF t, n
  <1>7. \A k \in 0..n : Since(t, k) = Since(s, k) + x
    <2>. TAKE k \in 0..n
    <2>1. /\ Since(t, k) = Sums(t)[n + 1] - Sums(t)[k]
          /\ Since(s, k) = Sums(s)[n] - Sums(s)[k]
      BY <1>1, <1>5, <1>6
    <2>. QED BY <1>1, <1>2, <1>3, <2>1
  <1>8. Since(t, n + 1) = 0
    <2>1. n + 1 \in 0..(n + 1) BY <1>1
    <2>. QED BY <1>4, <1>5, <2>1
  <1>. QED BY <1>1, <1>7, <1>8 DEF t, n

LEMMA NothingBegan ==
  /\ \A t \in Int : t < 0 => BeganBefore(<<>>, t)
  /\ GoesBack(<<>>)
  <1>. DEFINE e == <<>>
  <1>1. e \in Seq(Int) /\ Len(e) = 0 OBVIOUS
  <1>. HIDE DEF e
  <1>2. \A k \in 0..Len(e) : Since(e, k) = 0
    <2>1. Sums(e)[0] = 0 BY <1>1, SumsStep
    <2>. QED BY <1>1, <2>1 DEF Since
  <1>3. (\A t \in Int : t < 0 => BeganBefore(e, t)) /\ GoesBack(e)
    BY <1>2 DEF BeganBefore, GoesBack
  <1>. QED BY <1>3 DEF e

(* One more interval, recorded at a time that passes the test.             *)
LEMMA OneMoreBegan ==
  ASSUME NEW s \in Seq(Int), NEW x \in Int, NEW t \in Int,
         BeganBefore(s, t), t + x < 0
  PROVE  BeganBefore(Append(s, x), t + x)
  <1>. DEFINE u == Append(s, x)
              v == t + x
  <1>1. /\ Len(u) = Len(s) + 1
        /\ \A k \in 0..Len(s) : Since(u, k) = Since(s, k) + x
        /\ Since(u, Len(s) + 1) = 0
    BY SinceAppended
  <1>. HIDE DEF u
  <1>2. ASSUME NEW k \in 0..Len(u)
        PROVE  v - Since(u, k) < 0
    <2>1. CASE k = Len(s) + 1 BY <1>1, <2>1
    <2>2. CASE k # Len(s) + 1
      <3>1. k \in 0..Len(s) BY <1>1, <2>2
      <3>2. t - Since(s, k) < 0 /\ Since(s, k) \in Int
        BY <3>1, SinceTyped DEF BeganBefore
      <3>3. Since(u, k) = Since(s, k) + x BY <1>1, <3>1
      <3>. QED BY <3>2, <3>3
    <2>. QED BY <2>1, <2>2
  <1>3. BeganBefore(u, v)
    <2>. HIDE DEF v
    <2>. QED BY <1>2, Zenon DEF BeganBefore
  <1>. QED BY <1>3 DEF u

LEMMA SizePositive ==
  ASSUME p \in Parameters
  PROVE  BufferSize(p) \in Nat \ {0}
  <1>1. /\ p.RetargetTime \in Nat \ {0} /\ p.TargetTime \in Nat \ {0}
        /\ p.TargetTime <= p.RetargetTime
    BY ParametersAssumption, SizesAssumption
  <1>2. p.RetargetTime \div p.TargetTime \in Nat \ {0} BY <1>1
  <1>. QED BY <1>2 DEF BufferSize

LEMMA Constants ==
  ASSUME p \in Parameters
  PROVE  /\ p.MinDiff \in Nat \ {0} /\ p.MaxDiff \in Nat \ {0}
         /\ p.TargetTime \in Nat \ {0} /\ p.RetargetTime \in Nat \ {0}
         /\ p.Variance \in Nat /\ p.MinDiff <= p.MaxDiff
         /\ p.RetargetTime \div 2 \in Nat
         /\ p.RetargetTime \div 2 < p.RetargetTime
  <1>1. /\ p.MinDiff \in Nat \ {0} /\ p.MaxDiff \in Nat \ {0}
        /\ p.TargetTime \in Nat \ {0} /\ p.RetargetTime \in Nat \ {0}
        /\ p.Variance \in Nat /\ p.MinDiff <= p.MaxDiff
    BY ParametersAssumption, SizesAssumption
  <1>. QED BY <1>1

LEMMA InitEstablishesInv ==
  ASSUME Init
  PROVE  Inv
  <1>1. BufferSize(p) \in Nat \ {0} BY SizePositive DEF Init
  <1>2. LastTimestamp \in Int /\ LastRtc \in Int
    <2>1. p.RetargetTime \div 2 \in Int BY Constants DEF Init
    <2>. QED BY <2>1, InputsAssumption DEF Init
  <1>3. BufferTypeOK /\ WindowIsLast
    <2>1. <<>> \in Seq(Int) OBVIOUS
    <2>. QED BY <1>1, <1>2, <2>1, NewHoldsNothing
             DEF Init, BufferTypeOK, WindowIsLast
  <1>4. SumsUp(TimeBuffer, intervals) BY <1>1, NewSumsUp DEF Init
  <1>5. HistoryInv
    <2>. DEFINE t == LastTimestamp - (LastRtc + p.RetargetTime)
    <2>1. t \in Int /\ t < 0
      BY <1>2, Constants, InputsAssumption DEF Init
    <2>2. intervals = <<>> BY DEF Init
    <2>. HIDE DEF t
    <2>3. BeganBefore(intervals, t) /\ GoesBack(intervals)
      BY <2>1, <2>2, NothingBegan
    <2>. QED BY <2>3 DEF HistoryInv, t
  <1>. QED BY <1>3, <1>4, <1>5 DEF Inv

LEMMA BufferInvPreserved ==
  ASSUME Inv, [Next]_vars
  PROVE  (BufferTypeOK /\ WindowIsLast /\ SumsUp(TimeBuffer, intervals))'
  <1>. USE DEF BufferTypeOK, WindowIsLast
  <1>0. BufferTypeOK /\ WindowIsLast /\ SumsUp(TimeBuffer, intervals)
    BY DEF Inv
  <1>1. ASSUME NEW dt \in Steps, NEW d \in Diffs, CalcNextDiff(dt, d)
        PROVE  (BufferTypeOK /\ WindowIsLast /\ SumsUp(TimeBuffer, intervals))'
    <2>1. /\ BufferSize(p) \in Nat \ {0} /\ dt \in Int
          /\ p.RetargetTime \div 2 \in Int
      BY <1>0, SizePositive, InputsAssumption, Constants
    <2>2. /\ Appended(TimeBuffer, dt) \in Buffers(BufferSize(p))
          /\ Holds(Appended(TimeBuffer, dt), Append(intervals, dt))
          /\ SumsUp(Appended(TimeBuffer, dt), Append(intervals, dt))
          /\ Append(intervals, dt) \in Seq(Int)
      BY <1>0, <2>1, AppendedHolds, AppendedSumsUp
    <2>3. /\ Cleared(TimeBuffer) \in Buffers(BufferSize(p))
          /\ Holds(Cleared(TimeBuffer), <<>>)
          /\ SumsUp(Cleared(TimeBuffer), <<>>)
      <3>1. Cleared(TimeBuffer) = NewRingBuffer(BufferSize(p))
        BY <1>0 DEF Cleared, Buffers
      <3>. QED BY <2>1, <3>1, NewHoldsNothing, NewSumsUp
    <2>4. p' = p /\ LastTimestamp' \in Int /\ LastRtc' \in Int
      BY <1>0, <1>1, <2>1
      DEF CalcNextDiff, StartOver, Wait, RetargetSlow, RetargetFast,
          RetargetNone, Retarget, Record
    <2>5. \/ UNCHANGED <<TimeBuffer, intervals>>
          \/ /\ TimeBuffer' = Appended(TimeBuffer, dt)
             /\ intervals' = Append(intervals, dt)
          \/ TimeBuffer' = Cleared(TimeBuffer) /\ intervals' = <<>>
      BY <1>1 DEF CalcNextDiff, StartOver, Wait, RetargetSlow, RetargetFast,
                  RetargetNone
    <2>6. BufferSize(p)' = BufferSize(p) BY <2>4 DEF BufferSize
    <2>7. /\ TimeBuffer' \in Buffers(BufferSize(p))
          /\ intervals' \in Seq(Int) /\ Holds(TimeBuffer', intervals')
          /\ SumsUp(TimeBuffer', intervals')
      <3>1. CASE UNCHANGED <<TimeBuffer, intervals>> BY <1>0, <3>1
      <3>2. CASE TimeBuffer' = Appended(TimeBuffer, dt)
                 /\ intervals' = Append(intervals, dt)
        BY <2>2, <3>2
      <3>3. CASE TimeBuffer' = Cleared(TimeBuffer) /\ intervals' = <<>>
        <4>1. <<>> \in Seq(Int) OBVIOUS
        <4>. QED BY <2>3, <3>3, <4>1
      <3>. QED BY <2>5, <3>1, <3>2, <3>3
    <2>. QED BY <1>0, <2>4, <2>6, <2>7
  <1>2. CASE UNCHANGED vars BY <1>0, <1>2 DEF vars, BufferSize
  <1>. QED BY <1>1, <1>2 DEF Next, Terminated

(* At a judgement every recorded interval lies in the past.                *)
LEMMA JudgedLater ==
  ASSUME Inv, NEW dt \in Steps, NEW d \in Diffs, Retarget(dt, d)
  PROVE  /\ \A k \in 0..Len(intervals) : Since(intervals, k) + dt > 0
         /\ Size(Appended(TimeBuffer, dt)) > 0
         /\ LastTimestamp + dt - LastRtc >= p.RetargetTime
  <1>1. /\ LastTimestamp \in Int /\ LastRtc \in Int /\ dt \in Int
        /\ p.RetargetTime \in Nat /\ intervals \in Seq(Int)
    BY InputsAssumption, Constants DEF Inv, BufferTypeOK
  <1>2. Size(Appended(TimeBuffer, dt)) > 0
    BY <1>1, SizePositive, AppendedHolds DEF Inv, BufferTypeOK, WindowIsLast
  <1>3. LastTimestamp + dt - LastRtc >= p.RetargetTime
    BY <1>1, <1>2 DEF Retarget, TooEarly
  <1>4. ASSUME NEW k \in 0..Len(intervals)
        PROVE  Since(intervals, k) + dt > 0
    <2>1. /\ Since(intervals, k) \in Int
          /\ LastTimestamp - (LastRtc + p.RetargetTime) - Since(intervals, k)
               < 0
      BY <1>1, SinceTyped DEF Inv, HistoryInv, BeganBefore
    <2>. QED BY <1>1, <1>3, <2>1
  <1>. QED BY <1>2, <1>3, <1>4

LEMMA BackIsBefore ==
  ASSUME NEW s \in Seq(Int), NEW t \in Int, t < 0, GoesBack(s)
  PROVE  BeganBefore(s, t)
  <1>1. ASSUME NEW k \in 0..Len(s) PROVE t - Since(s, k) < 0
    <2>1. Since(s, k) \in Int /\ Since(s, k) >= 0
      BY SinceTyped DEF GoesBack
    <2>. QED BY <2>1
  <1>. QED BY <1>1, Zenon DEF BeganBefore

LEMMA JudgedGoesBack ==
  ASSUME NEW s \in Seq(Int), NEW x \in Int,
         \A k \in 0..Len(s) : Since(s, k) + x > 0
  PROVE  GoesBack(Append(s, x))
  <1>. DEFINE u == Append(s, x)
  <1>1. /\ Len(u) = Len(s) + 1
        /\ \A k \in 0..Len(s) : Since(u, k) = Since(s, k) + x
        /\ Since(u, Len(s) + 1) = 0
    BY SinceAppended
  <1>. HIDE DEF u
  <1>2. ASSUME NEW k \in 0..Len(u) PROVE Since(u, k) >= 0
    <2>1. CASE k = Len(s) + 1 BY <1>1, <2>1
    <2>2. CASE k # Len(s) + 1
      <3>1. k \in 0..Len(s) BY <1>1, <2>2
      <3>2. Since(u, k) = Since(s, k) + x /\ Since(s, k) + x > 0
            /\ Since(s, k) \in Int
        BY <1>1, <3>1, SinceTyped
      <3>. QED BY <3>2
    <2>. QED BY <2>1, <2>2
  <1>3. GoesBack(u) BY <1>2, Zenon DEF GoesBack
  <1>. QED BY <1>3 DEF u

LEMMA HistoryInvPreserved ==
  ASSUME Inv, [Next]_vars
  PROVE  HistoryInv'
  <1>. DEFINE s == intervals
              t == LastTimestamp - (LastRtc + p.RetargetTime)
  <1>0. /\ LastTimestamp \in Int /\ LastRtc \in Int /\ s \in Seq(Int)
        /\ BeganBefore(s, t)
    BY DEF Inv, BufferTypeOK, HistoryInv
  <1>a. LastRtc = 0 => GoesBack(s) BY DEF Inv, HistoryInv
  <1>b. /\ p.RetargetTime \in Nat \ {0} /\ p.RetargetTime \div 2 \in Nat
        /\ p.RetargetTime \div 2 < p.RetargetTime
    BY Constants DEF Inv, BufferTypeOK
  <1>1. ASSUME NEW dt \in Steps, NEW d \in Diffs, StartOver(dt, d)
        PROVE  HistoryInv'
    <2>1. dt \in Int BY InputsAssumption
    <2>2. /\ LastRtc = 0 /\ intervals' = s
          /\ p' = p /\ LastTimestamp' = LastTimestamp + dt
          /\ LastRtc' = LastTimestamp' - (p.RetargetTime \div 2)
      BY <1>1, Zenon DEF StartOver
    <2>3. t' \in Int /\ t' < 0 BY <1>0, <1>b, <2>1, <2>2
    <2>4. BeganBefore(s, t') /\ GoesBack(s)
      BY <1>0, <1>a, <2>2, <2>3, BackIsBefore
    <2>. QED BY <2>2, <2>4, Zenon DEF HistoryInv
  <1>2. ASSUME NEW dt \in Steps, NEW d \in Diffs, Wait(dt, d)
        PROVE  HistoryInv'
    <2>1. dt \in Int BY InputsAssumption
    <2>2. /\ LastRtc # 0 /\ LastRtc' = LastRtc /\ p' = p
          /\ LastTimestamp' = LastTimestamp + dt
          /\ intervals' = Append(s, dt)
          /\ LastTimestamp + dt - LastRtc < p.RetargetTime
      BY <1>2 DEF Wait, Record, TooEarly
    <2>3. t' = t + dt /\ t + dt < 0 /\ t \in Int
      <3>1. /\ p'.RetargetTime = p.RetargetTime /\ p.RetargetTime \in Int
            /\ LastRtc \in Int /\ LastTimestamp \in Int
        BY <1>0, <1>b, <2>2
      <3>. QED BY <2>1, <2>2, <3>1
    <2>4. BeganBefore(Append(s, dt), t')
      <3>. HIDE DEF t
      <3>. QED BY <1>0, <2>1, <2>3, OneMoreBegan
    <2>. QED BY <2>2, <2>4, Zenon DEF HistoryInv
  <1>3. ASSUME NEW dt \in Steps, NEW d \in Diffs,
               RetargetSlow(dt, d) \/ RetargetFast(dt, d)
                 \/ RetargetNone(dt, d)
        PROVE  HistoryInv'
    <2>1. dt \in Int BY InputsAssumption
    <2>2. /\ LastRtc' = LastTimestamp + dt /\ LastTimestamp' = LastTimestamp + dt
          /\ p' = p /\ intervals' \in {<<>>, Append(s, dt)}
          /\ Retarget(dt, d)
      BY <1>3
      DEF RetargetSlow, RetargetFast, RetargetNone, Retarget, Record
    <2>3. t' \in Int /\ t' < 0 BY <1>0, <1>b, <2>1, <2>2
    <2>4. GoesBack(Append(s, dt))
      BY <1>0, <2>1, <2>2, JudgedLater, JudgedGoesBack
    <2>5. Append(s, dt) \in Seq(Int) BY <1>0, <2>1
    <2>. HIDE DEF t
    <2>6. BeganBefore(Append(s, dt), t') BY <2>3, <2>4, <2>5, BackIsBefore
    <2>7. BeganBefore(<<>>, t') /\ GoesBack(<<>>) BY <2>3, NothingBegan
    <2>8. BeganBefore(intervals', t') /\ GoesBack(intervals')
      BY <2>2, <2>4, <2>6, <2>7
    <2>. QED BY <2>8, Zenon DEF HistoryInv, t
  <1>4. CASE UNCHANGED vars
    BY <1>0, <1>a, <1>4, Zenon DEF vars, HistoryInv
  <1>. QED BY <1>1, <1>2, <1>3, <1>4 DEF Next, CalcNextDiff, Terminated

LEMMA InvPreserved ==
  ASSUME Inv, [Next]_vars
  PROVE  Inv'
  BY BufferInvPreserved, HistoryInvPreserved DEF Inv

(* The inductive invariant of the difficulty's window holds throughout.    *)
THEOREM Invariance == Spec => []Inv
  <1>. QED BY InitEstablishesInv, InvPreserved, PTL DEF Spec

(* Whatever the parameters, the clock and the number of shares, the buffer *)
(* holds the last intervals, in the places its cursor gives them.          *)
THEOREM WindowHoldsTheLast == Spec => []WindowIsLast
  <1>1. Inv => WindowIsLast BY DEF Inv
  <1>. QED BY <1>1, Invariance, PTL

(* Two judgements of a difficulty are RetargetTime apart: the test of      *)
(* Size() never opens the way to one that is too early.                    *)
THEOREM RetargetsAreApart == Spec => RetargetsApart
  <1>1. ASSUME Inv, [Next]_vars, LastRtc' # LastRtc, LastRtc # 0
        PROVE  LastRtc' - LastRtc >= p.RetargetTime
    <2>1. PICK dt \in Steps, d \in Diffs : Retarget(dt, d)
      BY <1>1 DEF Next, Terminated, vars, CalcNextDiff, StartOver, Wait,
                  RetargetSlow, RetargetFast, RetargetNone
    <2>2. Size(Appended(TimeBuffer, dt)) > 0
      BY <1>1, SizePositive, InputsAssumption, AppendedHolds
      DEF Inv, BufferTypeOK, WindowIsLast
    <2>3. ~(LastTimestamp + dt - LastRtc < p.RetargetTime)
      BY <2>1, <2>2 DEF Retarget, TooEarly
    <2>4. /\ LastTimestamp \in Int /\ LastRtc \in Int /\ dt \in Int
          /\ p.RetargetTime \in Int
      BY <1>1, InputsAssumption, ParametersAssumption DEF Inv, BufferTypeOK
    <2>. QED BY <2>1, <2>3, <2>4 DEF Retarget
  <1>2. Inv /\ [Next]_vars
        => [LastRtc' # LastRtc /\ LastRtc # 0
              => LastRtc' - LastRtc >= p.RetargetTime]_vars
    BY <1>1
  <1>. QED BY <1>2, Invariance, PTL DEF Spec, RetargetsApart
-----------------------------------------------------------------------------
(* What is made of the average.                                            *)

LEMMA NewAverage ==
  ASSUME Inv, NEW dt \in Steps, NEW d \in Diffs, Retarget(dt, d)
  PROVE  /\ avg'[1] \in Nat \ {0} /\ avg'[2] \in 1..BufferSize(p)
         /\ avg' # <<0, 0>>
  <1>. DEFINE s == intervals
              u == Append(s, dt)
              rb == Appended(TimeBuffer, dt)
              n == Len(s)
  <1>1. /\ s \in Seq(Int) /\ dt \in Int /\ n \in Nat
        /\ BufferSize(p) \in Nat \ {0}
        /\ TimeBuffer \in Buffers(BufferSize(p)) /\ Holds(TimeBuffer, s)
        /\ SumsUp(TimeBuffer, s)
    BY InputsAssumption, SizePositive DEF Inv, BufferTypeOK, WindowIsLast
  <1>2. /\ rb \in Buffers(BufferSize(p)) /\ SumsUp(rb, u) /\ Size(rb) > 0
    BY <1>1, AppendedHolds, AppendedSumsUp
  <1>3. Len(u) = n + 1 BY <1>1
  <1>4. Size(rb) \in 1..BufferSize(p)
    BY <1>1, <1>2 DEF Buffers, Size
  <1>. DEFINE k == n + 1 - Size(rb)
  <1>5. Sum(rb) = Since(u, k) /\ k \in 0..n
    <2>. HIDE DEF rb, u, n
    <2>. QED BY <1>1, <1>2, <1>3, <1>4 DEF SumsUp, Since
  <1>6. Since(u, k) = Since(s, k) + dt BY <1>1, <1>5, SinceAppended
  <1>7. Since(s, k) + dt > 0 /\ Since(s, k) \in Int
    BY <1>1, <1>5, JudgedLater, SinceTyped
  <1>8. avg' = <<Sum(rb), Size(rb)>> BY DEF Retarget
  <1>. HIDE DEF rb, k
  <1>9. Sum(rb) \in Nat \ {0} BY <1>1, <1>5, <1>6, <1>7
  <1>. QED BY <1>4, <1>8, <1>9

IsFraction(q) == q[1] \in Nat /\ q[2] \in Nat \ {0}

(* The multiple of d that is compared with the bounds.                     *)
LEMMA Multiple ==
  ASSUME p \in Parameters, NEW d \in Diffs,
         avg'[1] \in Nat \ {0}, avg'[2] \in Nat \ {0}
  PROVE  /\ Ratio = <<p.TargetTime * Second * avg'[2], avg'[1]>>
         /\ IsFraction(Times(Ratio, d))
         /\ avg'[1] <= p.TargetTime * avg'[2] =>
              \A m \in Nat : m <= d => ~Less(Times(Ratio, d), Whole(m))
  <1>. DEFINE t == p.TargetTime
              n == avg'[2]
              a == avg'[1]
  <1>1. /\ t \in Nat \ {0} /\ Second \in Nat \ {0} /\ d \in Nat \ {0}
        /\ n \in Nat \ {0} /\ a \in Nat \ {0}
    BY Constants, InputsAssumption
  <1>2. Ratio = <<t * Second * n, a>> BY <1>1 DEF Ratio, Quotient
  <1>3. Times(Ratio, d) = <<t * Second * n * d, a>> BY <1>2 DEF Times
  <1>. HIDE DEF t, n, a
  <1>4. t * Second \in Nat \ {0} BY <1>1, ProductPositive
  <1>5. t * Second * n \in Nat \ {0} BY <1>1, <1>4, ProductPositive
  <1>6. t * Second * n * d \in Nat BY <1>1, <1>5, ProductTyped
  <1>7. ASSUME NEW m \in Nat, m <= d, a <= t * n
        PROVE  ~Less(Times(Ratio, d), Whole(m))
    <2>1. a * m <= (t * n) * d BY <1>1, <1>7, ProductMonotonic, ProductTyped
    <2>2. t * n \in Nat /\ (t * n) * d \in Nat BY <1>1, ProductTyped
    <2>3. (t * n) * d <= ((t * n) * d) * Second
      <3>. DEFINE u == (t * n) * d
      <3>1. u \in Nat BY <2>2
      <3>. HIDE DEF u
      <3>2. u <= u * Second BY <1>1, <3>1
      <3>. QED BY <3>2 DEF u
    <2>4. ((t * n) * d) * Second = t * Second * n * d BY <1>1
    <2>5. a * m <= t * Second * n * d
      <3>1. a * m \in Nat BY <1>1, ProductTyped
      <3>. QED BY <1>6, <2>1, <2>2, <2>3, <2>4, <3>1
    <2>6. a * m = m * a BY <1>1
    <2>7. Less(Times(Ratio, d), Whole(m)) <=> t * Second * n * d * 1 < m * a
      BY <1>3 DEF Less, Whole
    <2>. QED BY <1>1, <1>6, <2>5, <2>6, <2>7, ProductTyped
  <1>8. IsFraction(Times(Ratio, d)) BY <1>1, <1>3, <1>6 DEF IsFraction
  <1>. QED BY <1>2, <1>7, <1>8 DEF t, n, a

(* How much that multiple is at most for a worker that is too slow.        *)
LEMMA SlowMultiple ==
  ASSUME p \in Parameters, NEW d \in Diffs,
         avg'[1] \in Nat \ {0}, avg'[2] \in Nat \ {0},
         Less(MaxTargetTime, avg')
  PROVE  Less(Times(Ratio, d), Times(<<100 * Second, 100 + p.Variance>>, d))
  <1>. DEFINE t == p.TargetTime
              v == p.Variance
              n == avg'[2]
              a == avg'[1]
              c == Second * d
  <1>1. /\ t \in Nat \ {0} /\ v \in Nat /\ Second \in Nat \ {0}
        /\ d \in Nat \ {0} /\ n \in Nat \ {0} /\ a \in Nat \ {0}
    BY Constants, InputsAssumption
  <1>2. t * (100 + v) * n < a * 100 BY DEF Less, MaxTargetTime
  <1>3. Times(Ratio, d) = <<t * Second * n * d, a>>
    <2>1. Ratio = <<t * Second * n, a>> BY Multiple
    <2>. QED BY <2>1 DEF Times
  <1>4. Less(Times(Ratio, d), Times(<<100 * Second, 100 + v>>, d))
          <=> (t * Second * n * d) * (100 + v) < (100 * Second * d) * a
    BY <1>3 DEF Less, Times
  <1>. HIDE DEF t, v, n, a
  <1>5. /\ (t * Second * n * d) * (100 + v) = (t * (100 + v) * n) * c
        /\ (100 * Second * d) * a = (a * 100) * c
    BY <1>1
  <1>6. c \in Nat \ {0} BY <1>1, ProductPositive
  <1>7. t * (100 + v) * n \in Nat
    <2>1. t * (100 + v) \in Nat BY <1>1, ProductTyped
    <2>. QED BY <1>1, <2>1, ProductTyped
  <1>. HIDE DEF c
  <1>8. (t * (100 + v) * n) * c < (a * 100) * c
    <2>. DEFINE x == t * (100 + v) * n
                y == a * 100
    <2>1. x \in Nat /\ y \in Nat /\ x < y BY <1>1, <1>2, <1>7
    <2>. HIDE DEF x, y
    <2>2. (x + 1) * c <= y * c BY <1>6, <2>1, ProductMonotonic
    <2>3. (x + 1) * c = x * c + c BY <1>6, <2>1
    <2>4. x * c \in Nat /\ y * c \in Nat BY <1>6, <2>1, ProductTyped
    <2>5. x * c < y * c BY <1>6, <2>2, <2>3, <2>4
    <2>. QED BY <2>5 DEF x, y
  <1>9. (t * Second * n * d) * (100 + v) < (100 * Second * d) * a
    BY <1>5, <1>8
  <1>. QED BY <1>4, <1>9 DEF v

LEMMA LoweredBounded ==
  ASSUME p \in Parameters, NEW d \in Diffs,
         avg'[1] \in Nat \ {0}, avg'[2] \in Nat \ {0}
  PROVE  /\ IsFraction(Lowered(d))
         /\ ~Less(Lowered(d), Whole(p.MinDiff))
         /\ p.X2Mode /\ d > p.MinDiff => ~Less(Whole(d), Lowered(d))
         /\ ~p.X2Mode => Lowered(d) \in {Whole(p.MinDiff), Times(Ratio, d)}
  <1>. DEFINE q == Times(IF p.X2Mode THEN <<1, 2>> ELSE Ratio, d)
              m == p.MinDiff
  <1>1. m \in Nat \ {0} /\ d \in Nat \ {0}
    BY Constants, InputsAssumption
  <1>2. IsFraction(q)
    <2>1. CASE p.X2Mode BY <1>1, <2>1 DEF Times, IsFraction
    <2>2. CASE ~p.X2Mode BY <2>2, Multiple
    <2>. QED BY <2>1, <2>2
  <1>3. Lowered(d) = IF Less(q, Whole(m)) THEN Whole(m) ELSE q BY DEF Lowered
  <1>4. /\ p.X2Mode => q = <<1 * d, 2>>
        /\ ~p.X2Mode => q = Times(Ratio, d)
    BY DEF Times
  <1>. HIDE DEF q, m
  <1>5. IsFraction(Whole(m)) /\ ~Less(Whole(m), Whole(m))
    BY <1>1 DEF IsFraction, Whole, Less
  <1>6. IsFraction(Lowered(d)) /\ ~Less(Lowered(d), Whole(m))
    BY <1>2, <1>3, <1>5
  <1>7. ASSUME p.X2Mode, d > m PROVE ~Less(Whole(d), Lowered(d))
    <2>1. CASE Lowered(d) = Whole(m) BY <1>1, <1>7, <2>1 DEF Less, Whole
    <2>2. CASE Lowered(d) = <<1 * d, 2>> BY <1>1, <2>2 DEF Less, Whole
    <2>. QED BY <1>3, <1>4, <1>7, <2>1, <2>2
  <1>8. ~p.X2Mode => Lowered(d) \in {Whole(m), Times(Ratio, d)}
    BY <1>3, <1>4
  <1>. QED BY <1>6, <1>7, <1>8 DEF m

LEMMA RaisedBounded ==
  ASSUME p \in Parameters, NEW d \in Diffs,
         avg'[1] \in Nat \ {0}, avg'[2] \in Nat \ {0}
  PROVE  /\ IsFraction(Raised(d))
         /\ ~Less(Whole(p.MaxDiff), Raised(d))
         /\ avg'[1] <= p.TargetTime * avg'[2] /\ p.MinDiff <= d =>
              ~Less(Raised(d), Whole(p.MinDiff))
  <1>. DEFINE q == Times(IF p.X2Mode THEN <<2, 1>> ELSE Ratio, d)
              m == p.MaxDiff
              l == p.MinDiff
  <1>1. /\ m \in Nat \ {0} /\ l \in Nat \ {0} /\ l <= m
        /\ d \in Nat \ {0}
    BY Constants, InputsAssumption
  <1>2. IsFraction(q)
    <2>1. CASE p.X2Mode BY <1>1, <2>1 DEF Times, IsFraction
    <2>2. CASE ~p.X2Mode BY <2>2, Multiple
    <2>. QED BY <2>1, <2>2
  <1>3. Raised(d) = IF Less(Whole(m), q) THEN Whole(m) ELSE q BY DEF Raised
  <1>4. ASSUME avg'[1] <= p.TargetTime * avg'[2], l <= d
        PROVE  ~Less(q, Whole(l))
    <2>1. CASE p.X2Mode
      BY <1>1, <1>4, <2>1 DEF Times, Less, Whole
    <2>2. CASE ~p.X2Mode BY <1>1, <1>4, <2>2, Multiple
    <2>. QED BY <2>1, <2>2
  <1>. HIDE DEF q, m, l
  <1>5. /\ IsFraction(Whole(m)) /\ ~Less(Whole(m), Whole(m))
        /\ ~Less(Whole(m), Whole(l))
    BY <1>1 DEF IsFraction, Whole, Less
  <1>6. IsFraction(Raised(d)) /\ ~Less(Whole(m), Raised(d))
    BY <1>2, <1>3, <1>5
  <1>7. ASSUME avg'[1] <= p.TargetTime * avg'[2], l <= d
        PROVE  ~Less(Raised(d), Whole(l))
    BY <1>3, <1>4, <1>5, <1>7
  <1>. QED BY <1>6, <1>7 DEF m, l

LEMMA PositiveUsed ==
  ASSUME NEW q, NEW d \in Nat \ {0}, NEW m \in Nat \ {0}, IsFraction(q)
  PROVE  /\ IsFraction(Positive(q, d)) /\ Positive(q, d) \in {q, Whole(d)}
         /\ ~Less(q, Whole(m)) => Positive(q, d) = q
  <1>1. IsFraction(Whole(d)) BY DEF IsFraction, Whole
  <1>2. ASSUME ~Less(q, Whole(m)) PROVE Less(Zero, q)
    <2>. DEFINE a == q[1]
                b == q[2]
    <2>1. a \in Nat /\ b \in Nat \ {0} BY DEF IsFraction
    <2>2. ~(a * 1 < m * b) BY <1>2 DEF Less, Whole
    <2>3. Less(Zero, q) <=> 0 * b < a * 1 BY DEF Less, Zero, Whole
    <2>. HIDE DEF a, b
    <2>4. m * b \in Nat \ {0} BY <2>1, ProductPositive
    <2>. QED BY <2>1, <2>2, <2>3, <2>4
  <1>. QED BY <1>1, <1>2 DEF Positive

(* The sides of the band, as the bounds need them; a wide band has only    *)
(* one that an average can be on.                                          *)
LEMMA Sides ==
  ASSUME p \in Parameters,
         avg'[1] \in Nat \ {0}, avg'[2] \in Nat \ {0}
  PROVE  /\ ~(Less(MaxTargetTime, avg') /\ Less(avg', MinTargetTime))
         /\ Less(avg', MinTargetTime) => avg'[1] <= p.TargetTime * avg'[2]
         /\ p.Variance >= 100 => ~Less(avg', MinTargetTime)
  <1>. DEFINE t == p.TargetTime
              v == p.Variance
              a == avg'[1]
              s == avg'[2]
  <1>1. t \in Nat /\ v \in Nat /\ a \in Nat \ {0} /\ s \in Nat BY Constants
  <1>2. /\ Less(MaxTargetTime, avg') <=> t * (100 + v) * s < a * 100
        /\ Less(avg', MinTargetTime) <=> a * 100 < t * (100 - v) * s
    BY DEF Less, MaxTargetTime, MinTargetTime
  <1>. HIDE DEF t, v, a, s
  <1>3. t * s \in Nat BY <1>1, ProductTyped
  <1>4. /\ ~(t * (100 + v) * s < a * 100 /\ a * 100 < t * (100 - v) * s)
        /\ a * 100 < t * (100 - v) * s => a < t * s
        /\ v >= 100 => ~(a * 100 < t * (100 - v) * s)
    BY <1>1, OneSide
  <1>5. ~(Less(MaxTargetTime, avg') /\ Less(avg', MinTargetTime))
    BY <1>2, <1>4, Zenon
  <1>6. Less(avg', MinTargetTime) => a < t * s BY <1>2, <1>4, Zenon
  <1>7. a < t * s => a <= t * s BY <1>1, <1>3
  <1>8. v >= 100 => ~Less(avg', MinTargetTime) BY <1>2, <1>4, Zenon
  <1>. QED BY <1>5, <1>6, <1>7, <1>8 DEF t, v, a, s

(* What a call returned, and the average it found.                         *)
ResultOK ==
  /\ currentDiff \in Diffs \cup {0} /\ IsFraction(newDiff)
  /\ avg = <<0, 0>> \/ (avg[1] \in Nat \ {0} /\ avg[2] \in 1..BufferSize(p))
  /\ DifficultyBounded

LEMMA ResultTyped ==
  ASSUME Inv, ResultOK
  PROVE  TypeOK /\ AveragePositive /\ DifficultyBounded
  <1>1. TimeBuffer.MaxSize = BufferSize(p) BY DEF Inv, BufferTypeOK, Buffers
  <1>2. avg = <<0, 0>> \/ (avg[1] \in Int /\ avg[2] \in 1..TimeBuffer.MaxSize)
    BY <1>1 DEF ResultOK
  <1>3. TypeOK BY <1>2 DEF Inv, ResultOK, TypeOK, IsFraction
  <1>4. BufferSize(p) \in Nat BY SizePositive DEF Inv, BufferTypeOK
  <1>5. AveragePositive BY <1>4 DEF ResultOK, AveragePositive
  <1>. QED BY <1>3, <1>5 DEF ResultOK

(* A call that judges nothing returns 0.                                   *)
LEMMA NothingJudged ==
  ASSUME newDiff' = Zero, avg' = <<0, 0>>, currentDiff' \in Diffs \cup {0}
  PROVE  ResultOK'
  <1>1. IsFraction(newDiff') BY DEF IsFraction, Zero, Whole
  <1>2. KeptAboveMin' BY DEF KeptAboveMin, Zero, Whole
  <1>3. RaisedWithinMax' /\ HalvedWhenSlow' /\ SlowWithinSecond'
    BY DEF RaisedWithinMax, HalvedWhenSlow, SlowWithinSecond
  <1>4. NeverTooFast'
    <2>1. currentDiff' \in Nat BY InputsAssumption
    <2>2. \A k \in Nat : ~Less(Whole(k), Zero) BY DEF Less, Zero, Whole
    <2>. QED BY <2>1, <2>2 DEF NeverTooFast
  <1>. QED BY <1>1, <1>2, <1>3, <1>4 DEF ResultOK, DifficultyBounded

(* One that judges returns a difficulty within the bounds.                 *)
LEMMA Judged ==
  ASSUME p \in Parameters, p' = p, NEW d \in Diffs, currentDiff' = d,
         avg'[1] \in Nat \ {0}, avg'[2] \in 1..BufferSize(p),
         IsFraction(newDiff'),
         d >= p.MinDiff => ~Less(newDiff', Whole(p.MinDiff)),
         Less(avg', MinTargetTime)
           => ~Less(Whole(p.MaxDiff), newDiff') \/ newDiff' = Whole(d),
         Less(MaxTargetTime, avg') /\ p.X2Mode => ~Less(Whole(d), newDiff'),
         Less(MaxTargetTime, avg') /\ ~p.X2Mode
           => newDiff' \in {Whole(p.MinDiff), Whole(d), Times(Ratio, d)},
         p.Variance >= 100
           => /\ ~Less(avg', MinTargetTime)
              /\ p.X2Mode => ~Less(Whole(d), newDiff')
  PROVE  ResultOK'
  <1>1. MinTargetTime' = MinTargetTime /\ MaxTargetTime' = MaxTargetTime
    BY DEF MinTargetTime, MaxTargetTime
  <1>2. KeptAboveMin' BY DEF KeptAboveMin
  <1>3. RaisedWithinMax' BY <1>1 DEF RaisedWithinMax
  <1>4. HalvedWhenSlow' BY <1>1 DEF HalvedWhenSlow
  <1>5. BufferSize(p)' = BufferSize(p) BY DEF BufferSize
  <1>6. NeverTooFast' BY <1>1 DEF NeverTooFast
  <1>7. SlowWithinSecond'
    <2>. SUFFICES ASSUME Less(MaxTargetTime, avg'), ~p.X2Mode,
                         newDiff' = Times(Ratio, d)
                  PROVE  Less(newDiff',
                              Times(<<100 * Second, 100 + p.Variance>>, d))
      BY <1>1 DEF SlowWithinSecond, Whole
    <2>1. avg'[2] \in Nat \ {0} BY SizePositive
    <2>. QED BY <2>1, SlowMultiple
  <1>. QED
    BY <1>2, <1>3, <1>4, <1>5, <1>6, <1>7 DEF ResultOK, DifficultyBounded

LEMMA ResultPreserved ==
  ASSUME Inv, ResultOK, [Next]_vars
  PROVE  ResultOK'
  <1>0. p \in Parameters BY DEF Inv, BufferTypeOK
  <1>1. CASE vars' = vars
    BY <1>1 DEF vars, ResultOK, DifficultyBounded, KeptAboveMin, BufferSize,
                RaisedWithinMax, HalvedWhenSlow, NeverTooFast, MinTargetTime,
                MaxTargetTime, SlowWithinSecond
  <1>2. ASSUME NEW dt \in Steps, NEW d \in Diffs,
               StartOver(dt, d) \/ Wait(dt, d)
        PROVE  ResultOK'
    BY <1>2, NothingJudged DEF StartOver, Wait, Record
  <1>3. ASSUME NEW dt \in Steps, NEW d \in Diffs, Retarget(dt, d),
               newDiff' \in {Positive(Lowered(d), d), Positive(Raised(d), d),
                             Whole(d)},
               Slow(d) => newDiff' = Positive(Lowered(d), d),
               Fast(d) => newDiff' = Positive(Raised(d), d),
               ~Slow(d) /\ ~Fast(d) => newDiff' = Whole(d)
        PROVE  ResultOK'
    <2>. DEFINE l == p.MinDiff
                m == p.MaxDiff
    <2>1. p' = p /\ currentDiff' = d BY <1>3 DEF Retarget, Record
    <2>2. avg'[1] \in Nat \ {0} /\ avg'[2] \in 1..BufferSize(p)
      BY <1>3, NewAverage
    <2>3. avg'[2] \in Nat \ {0} BY <1>0, <2>2, SizePositive
    <2>4. d \in Nat \ {0} /\ l \in Nat \ {0} /\ m \in Nat \ {0}
      BY <1>0, Constants, InputsAssumption
    <2>5. /\ ~(Less(MaxTargetTime, avg') /\ Less(avg', MinTargetTime))
          /\ Less(avg', MinTargetTime) => avg'[1] <= p.TargetTime * avg'[2]
          /\ p.Variance >= 100 => ~Less(avg', MinTargetTime)
      BY <1>0, <2>2, <2>3, Sides
    <2>6. CASE Slow(d)
      <3>1. /\ IsFraction(Lowered(d)) /\ ~Less(Lowered(d), Whole(l))
            /\ p.X2Mode /\ d > l => ~Less(Whole(d), Lowered(d))
            /\ ~p.X2Mode => Lowered(d) \in {Whole(l), Times(Ratio, d)}
        BY <1>0, <2>2, <2>3, LoweredBounded
      <3>2. newDiff' = Lowered(d) BY <1>3, <2>4, <2>6, <3>1, PositiveUsed
      <3>3. Less(MaxTargetTime, avg') /\ d > l BY <2>6 DEF Slow
      <3>. QED BY <1>0, <2>1, <2>2, <2>5, <3>1, <3>2, <3>3, Judged
    <2>7. CASE Fast(d)
      <3>1. /\ IsFraction(Raised(d)) /\ ~Less(Whole(m), Raised(d))
            /\ avg'[1] <= p.TargetTime * avg'[2] /\ l <= d =>
                 ~Less(Raised(d), Whole(l))
        BY <1>0, <2>2, <2>3, RaisedBounded
      <3>2. Less(avg', MinTargetTime) BY <2>7 DEF Fast
      <3>3. /\ newDiff' = Positive(Raised(d), d) /\ IsFraction(newDiff')
            /\ newDiff' \in {Raised(d), Whole(d)}
            /\ ~Less(Raised(d), Whole(l)) => newDiff' = Raised(d)
        BY <1>3, <2>4, <2>7, <3>1, PositiveUsed
      <3>4. d >= l => ~Less(newDiff', Whole(l))
        BY <2>4, <2>5, <3>1, <3>2, <3>3
      <3>5. ~Less(Whole(m), newDiff') \/ newDiff' = Whole(d) BY <3>1, <3>3
      <3>. QED BY <1>0, <2>1, <2>2, <2>5, <3>2, <3>3, <3>4, <3>5, Judged
    <2>8. CASE ~Slow(d) /\ ~Fast(d)
      <3>1. newDiff' = Whole(d) /\ IsFraction(newDiff')
        BY <1>3, <2>4, <2>8 DEF IsFraction, Whole
      <3>2. d >= l => ~Less(newDiff', Whole(l))
        BY <2>4, <3>1 DEF Less, Whole
      <3>3. ~Less(Whole(d), newDiff') BY <2>4, <3>1 DEF Less, Whole
      <3>. QED BY <1>0, <2>1, <2>2, <2>5, <3>1, <3>2, <3>3, Judged
    <2>. QED BY <2>6, <2>7, <2>8
  <1>4. ASSUME NEW dt \in Steps, NEW d \in Diffs, RetargetSlow(dt, d)
        PROVE  ResultOK'
    BY <1>3, <1>4 DEF RetargetSlow, Fast
  <1>5. ASSUME NEW dt \in Steps, NEW d \in Diffs, RetargetFast(dt, d)
        PROVE  ResultOK'
    BY <1>3, <1>5 DEF RetargetFast, Fast
  <1>6. ASSUME NEW dt \in Steps, NEW d \in Diffs, RetargetNone(dt, d)
        PROVE  ResultOK'
    BY <1>3, <1>6 DEF RetargetNone
  <1>. QED
    BY <1>1, <1>2, <1>4, <1>5, <1>6 DEF Next, CalcNextDiff, Terminated

LEMMA InitialResult ==
  ASSUME Init
  PROVE  ResultOK
  <1>1. IsFraction(newDiff) BY DEF Init, IsFraction, Zero, Whole
  <1>2. DifficultyBounded
    BY DEF Init, DifficultyBounded, KeptAboveMin, RaisedWithinMax,
           HalvedWhenSlow, SlowWithinSecond, NeverTooFast, Less, Zero, Whole
  <1>. QED BY <1>1, <1>2 DEF Init, ResultOK

LEMMA ResultInvariance == Spec => [](Inv /\ ResultOK)
  <1>1. Inv /\ ResultOK /\ [Next]_vars => ResultOK' BY ResultPreserved
  <1>2. Init => ResultOK BY InitialResult
  <1>. QED BY <1>1, <1>2, Invariance, PTL DEF Spec

(* Every variable keeps its type: the buffer's cursor stays in the buffer, *)
(* and CalcNextDiff never divides by zero.                                 *)
THEOREM TypeCorrect == Spec => []TypeOK
  <1>1. Inv /\ ResultOK => TypeOK BY ResultTyped
  <1>. QED BY <1>1, ResultInvariance, PTL

(* The average is positive whenever one is taken, for clocks that go back  *)
(* too.                                                                    *)
THEOREM AverageIsPositive == Spec => []AveragePositive
  <1>1. Inv /\ ResultOK => AveragePositive BY ResultTyped
  <1>. QED BY <1>1, ResultInvariance, PTL

(* CalcNextDiff: a difficulty is never driven below MinDiff.  It is driven *)
(* above MaxDiff by no shares that come too fast; by shares that come too  *)
(* slowly it is not driven up in X2Mode, and without it by less than a     *)
(* factor 100 * Second / (100 + Variance), which does not keep it at or    *)
(* below MaxDiff.                                                          *)
THEOREM DifficultyIsBounded == Spec => []DifficultyBounded
  <1>1. Inv /\ ResultOK => DifficultyBounded BY ResultTyped
  <1>. QED BY <1>1, ResultInvariance, PTL
=============================================================================
