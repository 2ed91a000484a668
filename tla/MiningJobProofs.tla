--------------------------- MODULE MiningJobProofs ---------------------------
(***************************************************************************)
(* Proofs about MiningJob, for blocks of any size, and coinbases of the    *)
(* shape that SplitCoinbase expects, with any height, any extra nonce of 2 *)
(* to 75 bytes and anything around them.                                   *)
(***************************************************************************)
EXTENDS MiningJob, SequenceTheorems, TLAPS

-----------------------------------------------------------------------------
(* Coinbases.                                                              *)

(* Two sequences put together, place by place; then three, then four.      *)
LEMMA Concat2 ==
  ASSUME NEW a \in Seq(Nat), NEW b \in Seq(Nat)
  PROVE  /\ a \o b \in Seq(Nat)
         /\ Len(a \o b) = Len(a) + Len(b)
         /\ \A j \in 1..Len(a) + Len(b) :
              (a \o b)[j] = IF j <= Len(a) THEN a[j] ELSE b[j - Len(a)]
  BY ConcatProperties

LEMMA Singleton ==
  ASSUME NEW z \in Nat
  PROVE  <<z>> \in Seq(Nat) /\ Len(<<z>>) = 1 /\ <<z>>[1] = z
  OBVIOUS

(* Concatenation with a name of its own, which no prover takes apart.      *)
Bytes     == Seq(Nat)
Cat(a, b) == a \o b

LEMMA CatType == \A a, b \in Bytes : Cat(a, b) \in Bytes
  BY ConcatProperties DEF Cat, Bytes

LEMMA CatLen == \A a, b \in Bytes : Len(Cat(a, b)) = Len(a) + Len(b)
  BY ConcatProperties DEF Cat, Bytes

LEMMA CatAssoc ==
  \A a, b, c \in Bytes : Cat(Cat(a, b), c) = Cat(a, Cat(b, c))
  BY ConcatAssociative DEF Cat, Bytes

(* A sequence is cut where it was put together.                            *)
LEMMA Cut ==
  ASSUME NEW a \in Seq(Nat), NEW b \in Seq(Nat)
  PROVE  /\ SubSeq(a \o b, 1, Len(a)) = a
         /\ SubSeq(a \o b, Len(a) + 1, Len(a \o b)) = b
  <1>1. PICK ab \in Seq(Nat) : ab = a \o b BY Concat2
  <1>2. /\ Len(ab) = Len(a) + Len(b)
        /\ \A j \in 1..Len(a) + Len(b) :
             ab[j] = IF j <= Len(a) THEN a[j] ELSE b[j - Len(a)]
    BY <1>1, Concat2
  <1>3. /\ Len(a) \in Nat /\ Len(b) \in Nat
        /\ \A j \in 1..Len(a) : a[j] \in Nat
        /\ \A j \in 1..Len(b) : b[j] \in Nat
    BY LenProperties, ElementOfSeq
  <1>4. SubSeq(ab, 1, Len(a)) = a
    <2>1. \A j \in 1..Len(a) : ab[j] = a[j] /\ ab[j] \in Nat
      BY <1>2, <1>3
    <2>2. /\ SubSeq(ab, 1, Len(a)) \in Seq(Nat)
          /\ Len(SubSeq(ab, 1, Len(a))) =
               IF 1 <= Len(a) THEN Len(a) - 1 + 1 ELSE 0
          /\ \A j \in 1..Len(a) - 1 + 1 :
               SubSeq(ab, 1, Len(a))[j] = ab[1 + j - 1]
      BY <1>3, <2>1, SubSeqProperties
    <2>3. PICK c \in Seq(Nat) : c = SubSeq(ab, 1, Len(a)) BY <2>2
    <2>4. Len(c) = Len(a) /\ \A j \in 1..Len(a) : c[j] = ab[1 + j - 1]
      BY <1>3, <2>2, <2>3
    <2>5. \A j \in 1..Len(a) : c[j] = a[j]
      BY <1>3, <2>1, <2>4
    <2>. QED BY <2>3, <2>4, <2>5, SeqEqual
  <1>5. SubSeq(ab, Len(a) + 1, Len(ab)) = b
    <2>1. \A j \in Len(a) + 1..Len(ab) :
            ab[j] = b[j - Len(a)] /\ ab[j] \in Nat
      BY <1>2, <1>3
    <2>0. /\ Len(a) + 1 \in Int /\ Len(ab) \in Int
          /\ \A j \in Len(a) + 1..Len(ab) : ab[j] \in Nat
      BY <1>2, <1>3, <2>1
    <2>2. /\ SubSeq(ab, Len(a) + 1, Len(ab)) \in Seq(Nat)
          /\ Len(SubSeq(ab, Len(a) + 1, Len(ab))) =
               IF Len(a) + 1 <= Len(ab) THEN Len(ab) - (Len(a) + 1) + 1
               ELSE 0
          /\ \A j \in 1..Len(ab) - (Len(a) + 1) + 1 :
               SubSeq(ab, Len(a) + 1, Len(ab))[j] = ab[Len(a) + 1 + j - 1]
      BY <2>0, SubSeqProperties
    <2>3. PICK c \in Seq(Nat) : c = SubSeq(ab, Len(a) + 1, Len(ab)) BY <2>2
    <2>4. Len(ab) - (Len(a) + 1) + 1 = Len(b) BY <1>2, <1>3
    <2>5. Len(c) = Len(b)
          /\ \A j \in 1..Len(b) : c[j] = ab[Len(a) + 1 + j - 1]
      BY <1>2, <1>3, <2>2, <2>3, <2>4
    <2>6. ASSUME NEW j \in 1..Len(b) PROVE c[j] = b[j]
      <3>1. /\ Len(a) + 1 + j - 1 = Len(a) + j /\ (Len(a) + j) - Len(a) = j
            /\ Len(a) + j \in Len(a) + 1..Len(ab)
        BY <1>2, <1>3
      <3>. QED BY <2>1, <2>5, <3>1
    <2>. QED BY <2>3, <2>5, <2>6, SeqEqual
  <1>. QED BY <1>1, <1>4, <1>5

LEMMA CutCat ==
  \A a, b \in Bytes :
    /\ SubSeq(Cat(a, b), 1, Len(a)) = a
    /\ SubSeq(Cat(a, b), Len(a) + 1, Len(Cat(a, b))) = b
  BY Cut DEF Cat, Bytes

LEMMA CatAt ==
  \A a, b \in Bytes :
    /\ \A j \in 1..Len(a) : Cat(a, b)[j] = a[j]
    /\ \A j \in 1..Len(b) : Cat(a, b)[Len(a) + j] = b[j]
  <1>. TAKE a, b \in Bytes
  <1>1. Len(a) \in Nat /\ Len(b) \in Nat BY LenProperties DEF Bytes
  <1>2. \A j \in 1..Len(a) + Len(b) :
          Cat(a, b)[j] = IF j <= Len(a) THEN a[j] ELSE b[j - Len(a)]
    BY Concat2 DEF Cat, Bytes
  <1>3. ASSUME NEW j \in 1..Len(b) PROVE Cat(a, b)[Len(a) + j] = b[j]
    <2>1. /\ Len(a) + j \in 1..Len(a) + Len(b) /\ ~(Len(a) + j <= Len(a))
          /\ (Len(a) + j) - Len(a) = j
      BY <1>1
    <2>. QED BY <1>2, <2>1
  <1>. QED BY <1>1, <1>2, <1>3

(* One place of a sequence is read and is overwritten.                     *)
Around(a, x, b) == Cat(Cat(a, <<x>>), b)

LEMMA AroundType ==
  \A a, b \in Bytes, x \in Nat :
    /\ Around(a, x, b) \in Bytes
    /\ Len(Around(a, x, b)) = Len(a) + 1 + Len(b)
  <1>. TAKE a, b \in Bytes, x \in Nat
  <1>. DEFINE one == <<x>>
  <1>1. one \in Bytes /\ Len(one) = 1 BY Singleton DEF Bytes
  <1>2. Around(a, x, b) = Cat(Cat(a, one), b) BY DEF Around
  <1>. HIDE DEF one
  <1>3. Cat(a, one) \in Bytes /\ Len(Cat(a, one)) = Len(a) + Len(one)
    BY <1>1, CatType, CatLen
  <1>4. /\ Cat(Cat(a, one), b) \in Bytes
        /\ Len(Cat(Cat(a, one), b)) = Len(Cat(a, one)) + Len(b)
    BY <1>3, CatType, CatLen
  <1>. QED BY <1>1, <1>2, <1>3, <1>4

LEMMA AroundAt ==
  \A a, b \in Bytes, x \in Nat :
    /\ Around(a, x, b)[Len(a) + 1] = x
    /\ \A j \in 1..Len(a) : Around(a, x, b)[j] = a[j]
    /\ \A j \in 1..Len(b) : Around(a, x, b)[Len(a) + 1 + j] = b[j]
  <1>. TAKE a, b \in Bytes, x \in Nat
  <1>. DEFINE one == <<x>>  ax == Cat(a, one)
  <1>1. Len(a) \in Nat /\ Len(b) \in Nat BY LenProperties DEF Bytes
  <1>2. one \in Bytes /\ Len(one) = 1 /\ one[1] = x
    BY Singleton DEF Bytes
  <1>3. Around(a, x, b) = Cat(ax, b) BY DEF Around
  <1>. HIDE DEF one
  <1>4. ax \in Bytes /\ Len(ax) = Len(a) + Len(one)
    BY <1>2, CatType, CatLen
  <1>5. ax[Len(a) + 1] = x /\ \A j \in 1..Len(a) : ax[j] = a[j]
    <2>1. 1 \in 1..Len(one) BY <1>2
    <2>. QED BY <1>2, <2>1, CatAt
  <1>. HIDE DEF ax
  <1>6. /\ \A j \in 1..Len(ax) : Cat(ax, b)[j] = ax[j]
        /\ \A j \in 1..Len(b) : Cat(ax, b)[Len(ax) + j] = b[j]
    BY <1>4, CatAt
  <1>7. Len(ax) = Len(a) + 1 BY <1>2, <1>4
  <1>. QED BY <1>1, <1>3, <1>5, <1>6, <1>7

LEMMA AroundExcept ==
  \A a, b \in Bytes, x, y \in Nat :
    [Around(a, x, b) EXCEPT ![Len(a) + 1] = y] = Around(a, y, b)
  <1>. TAKE a, b \in Bytes, x, y \in Nat
  <1>. DEFINE s == Around(a, x, b)  t == Around(a, y, b)
              u == [s EXCEPT ![Len(a) + 1] = y]
  <1>1. Len(a) \in Nat /\ Len(b) \in Nat BY LenProperties DEF Bytes
  <1>2. /\ s \in Bytes /\ Len(s) = Len(a) + 1 + Len(b)
        /\ t \in Bytes /\ Len(t) = Len(s)
    BY AroundType
  <1>3. /\ t[Len(a) + 1] = y
        /\ \A j \in 1..Len(a) : s[j] = a[j] /\ t[j] = a[j]
        /\ \A j \in 1..Len(b) :
             s[Len(a) + 1 + j] = b[j] /\ t[Len(a) + 1 + j] = b[j]
    BY AroundAt
  <1>. HIDE DEF s, t
  <1>4. /\ u \in Seq(Nat) /\ Len(u) = Len(s)
        /\ \A j \in 1..Len(s) : u[j] = IF j = Len(a) + 1 THEN y ELSE s[j]
    <2>1. Len(a) + 1 \in 1..Len(s) BY <1>1, <1>2
    <2>. QED BY <1>2, <2>1, ExceptSeq DEF Bytes
  <1>. HIDE DEF u
  <1>5. ASSUME NEW j \in 1..Len(s) PROVE u[j] = t[j]
    <2>1. CASE j <= Len(a)
      <3>1. j \in 1..Len(a) BY <1>1, <1>2, <2>1
      <3>2. s[j] = t[j] BY <1>3, <3>1
      <3>3. u[j] = s[j] BY <1>1, <1>4, <2>1
      <3>. QED BY <3>2, <3>3
    <2>2. CASE j = Len(a) + 1 BY <1>3, <1>4, <2>2
    <2>3. CASE j > Len(a) + 1
      <3>1. PICK k0 \in 1..Len(b) : j = Len(a) + 1 + k0
        <4>1. /\ j - (Len(a) + 1) \in 1..Len(b)
              /\ j = Len(a) + 1 + (j - (Len(a) + 1))
          BY <1>1, <1>2, <2>3
        <4>. QED BY <4>1
      <3>2. s[j] = b[k0] /\ t[j] = b[k0] BY <1>3, <3>1
      <3>3. u[j] = s[j] BY <1>4, <1>1, <2>3
      <3>. QED BY <3>2, <3>3
    <2>. QED BY <1>1, <1>2, <2>1, <2>2, <2>3
  <1>6. u = t BY <1>2, <1>4, <1>5, SeqEqual DEF Bytes
  <1>. QED BY <1>6 DEF u, s, t

(* A coinbase around its extra nonce.                                      *)
ScriptLen(h, n) == Len(h) + 1 + Len(n) + Len(Rest)
Before(h, n)    == Prefix \o <<ScriptLen(h, n)>> \o h
After           == Rest \o Suffix

LEMMA CoinbaseParts ==
  ASSUME NEW h \in Bytes, NEW n \in Bytes
  PROVE  /\ ScriptLen(h, n) \in Nat
         /\ Before(h, n) \in Bytes /\ After \in Bytes
         /\ Len(Before(h, n)) = 42 + Len(h)
         /\ \E start \in Bytes :
              Before(h, n) = Cat(start, h) /\ Len(start) = 42
         /\ Coinbase(h, n) = Before(h, n) \o <<Len(n)>> \o (n \o After)
  <1>1. /\ Len(h) \in Nat /\ Len(n) \in Nat /\ Len(Rest) \in Nat
        /\ Rest \in Bytes /\ Suffix \in Bytes
        /\ Prefix \in Bytes /\ Len(Prefix) = 41
    BY BytesAssumption, LenProperties DEF Bytes
  <1>2. ScriptLen(h, n) \in Nat BY <1>1 DEF ScriptLen
  <1>3. /\ <<Len(n)>> \in Bytes /\ Len(<<Len(n)>>) = 1
        /\ <<ScriptLen(h, n)>> \in Bytes /\ Len(<<ScriptLen(h, n)>>) = 1
    BY <1>1, <1>2, Singleton DEF Bytes
  <1>. DEFINE len    == <<Len(n)>>
              slen   == <<ScriptLen(h, n)>>
              script == Cat(Cat(Cat(h, len), n), Rest)
              start  == Cat(Prefix, slen)
  <1>4. Coinbase(h, n)
          = Cat(Cat(Cat(Prefix, <<Len(script)>>), script), Suffix)
    BY Zenon DEF Coinbase, BTCCoinbaseScript, Cat
  <1>5. len \in Bytes /\ Len(len) = 1 /\ slen \in Bytes /\ Len(slen) = 1
    BY <1>3
  <1>. HIDE DEF len, slen
  <1>6. Len(script) = ScriptLen(h, n)
    <2>1. Cat(h, len) \in Bytes /\ Len(Cat(h, len)) = Len(h) + 1
      BY <1>5, CatType, CatLen
    <2>2. /\ Cat(Cat(h, len), n) \in Bytes
          /\ Len(Cat(Cat(h, len), n)) = Len(h) + 1 + Len(n)
      BY <2>1, CatType, CatLen
    <2>3. Len(script) = Len(h) + 1 + Len(n) + Len(Rest)
      BY <1>1, <2>2, CatLen
    <2>. QED BY <2>3 DEF ScriptLen
  <1>7. start \in Bytes /\ Len(start) = 42
    <2>1. start \in Bytes /\ Len(start) = Len(Prefix) + Len(slen)
      BY <1>1, <1>5, CatType, CatLen
    <2>. QED BY <1>1, <1>5, <2>1
  <1>8. Coinbase(h, n) = Cat(Cat(start, script), Suffix)
    BY <1>4, <1>6, Zenon DEF slen
  <1>. HIDE DEF start
  <1>9. Coinbase(h, n) = Cat(Cat(Cat(start, h), len), Cat(n, Cat(Rest, Suffix)))
    <2>. DEFINE hm == Cat(h, len)       hmn == Cat(hm, n)
                rs == Cat(Rest, Suffix)  nrs == Cat(n, rs)
                mnrs == Cat(len, nrs)    ph == Cat(start, h)
    <2>1. /\ hm \in Bytes /\ hmn \in Bytes /\ script \in Bytes
          /\ rs \in Bytes /\ nrs \in Bytes /\ mnrs \in Bytes /\ ph \in Bytes
      BY <1>1, <1>5, <1>7, CatType
    <2>2. Cat(Cat(start, script), Suffix) = Cat(start, Cat(script, Suffix))
      BY <1>1, <1>7, <2>1, CatAssoc
    <2>3. Cat(script, Suffix) = Cat(hmn, rs) BY <1>1, <2>1, CatAssoc
    <2>4. Cat(hmn, rs) = Cat(hm, nrs) BY <2>1, CatAssoc
    <2>5. Cat(hm, nrs) = Cat(h, mnrs) BY <1>5, <2>1, CatAssoc
    <2>6. Cat(start, Cat(h, mnrs)) = Cat(ph, mnrs)
      BY <1>7, <2>1, CatAssoc
    <2>7. Cat(ph, mnrs) = Cat(Cat(ph, len), nrs) BY <1>5, <2>1, CatAssoc
    <2>. QED BY <1>8, <2>2, <2>3, <2>4, <2>5, <2>6, <2>7
  <1>10. Before(h, n) = Cat(start, h) /\ After = Cat(Rest, Suffix)
    BY Zenon DEF Before, After, start, slen, Cat
  <1>11. /\ Cat(start, h) \in Bytes /\ Cat(Rest, Suffix) \in Bytes
         /\ Len(Cat(start, h)) = 42 + Len(h)
    BY <1>1, <1>7, CatType, CatLen
  <1>12. Coinbase(h, n) = Cat(Cat(Before(h, n), len), Cat(n, After))
    BY <1>9, <1>10
  <1>13. Coinbase(h, n) = Before(h, n) \o <<Len(n)>> \o (n \o After)
    BY <1>12, Zenon DEF Cat, len
  <1>. QED BY <1>2, <1>7, <1>10, <1>11, <1>13

(* SplitCoinbase finds the length of the extra nonce, whichever way the    *)
(* height is pushed, and cuts around the nonce.                            *)
LEMMA HalvesOfCoinbase ==
  ASSUME NEW h \in Heights, NEW n \in Nonces
  PROVE  Halves(Coinbase(h, n)) = <<Before(h, n) \o <<8>>, After>>
  <1>1. /\ h \in Bytes /\ h # <<>> /\ n \in Bytes
        /\ Len(h) = (IF h[1] > 15 THEN 1 ELSE 1 + h[1])
    BY HeightsAssumption, BytesAssumption DEF Bytes
  <1>2. Len(h) \in Nat \ {0} /\ Len(n) \in Nat /\ h[1] \in Nat
    BY <1>1, LenProperties, EmptySeq, ElementOfSeq DEF Bytes
  <1>. DEFINE B == Before(h, n)
              N == <<Len(n)>>
              nA == Cat(n, After)
              raw == Coinbase(h, n)
              eight == <<8>>
  <1>3. B \in Bytes /\ Len(B) = 42 + Len(h) /\ After \in Bytes
    BY <1>1, CoinbaseParts
  <1>4. nA \in Bytes /\ Len(nA) = Len(n) + Len(After)
    BY <1>1, <1>3, CatType, CatLen
  <1>5. N \in Bytes /\ Len(N) = 1 /\ eight \in Bytes /\ Len(eight) = 1
    BY <1>2, Singleton DEF Bytes
  <1>6. raw = Cat(Cat(B, N), nA) /\ raw \in Bytes
    <2>1. raw = B \o N \o (n \o After) BY <1>1, CoinbaseParts
    <2>2. raw = Cat(Cat(B, N), nA) BY <2>1, Zenon DEF Cat
    <2>. HIDE DEF B, N, nA
    <2>3. Cat(Cat(B, N), nA) \in Bytes BY <1>3, <1>4, <1>5, CatType
    <2>. QED BY <2>2, <2>3
  <1>7. raw[43] = h[1]
    <2>1. PICK start \in Bytes : B = Cat(start, h) /\ Len(start) = 42
      BY <1>1, CoinbaseParts
    <2>2. B[43] = h[1]
      <3>1. 1 \in 1..Len(h) BY <1>2
      <3>2. Cat(start, h)[Len(start) + 1] = h[1] BY <1>1, <2>1, <3>1, CatAt
      <3>. QED BY <2>1, <3>2
    <2>3. Cat(B, N)[43] = B[43]
      BY <1>2, <1>3, <1>5, CatAt
    <2>4. Cat(B, N) \in Bytes /\ 43 \in 1..Len(Cat(B, N))
      <3>1. Cat(B, N) \in Bytes /\ Len(Cat(B, N)) = Len(B) + Len(N)
        BY <1>3, <1>5, CatType, CatLen
      <3>. QED BY <1>2, <1>3, <1>5, <3>1
    <2>5. Cat(Cat(B, N), nA)[43] = Cat(B, N)[43]
      BY <1>2, <1>4, <2>4, CatAt
    <2>. QED BY <1>6, <2>2, <2>3, <2>5
  <1>. DEFINE idx == ExtraNonceLenIdx(raw)
  <1>8. /\ idx = 42 + Len(h) /\ idx + 1 = Len(B) + 1
        /\ idx + Len(n) + 2 = Len(Cat(B, eight)) + Len(n) + 1
    <2>1. Len(Cat(B, eight)) = 43 + Len(h)
      <3>1. Len(Cat(B, eight)) = Len(B) + Len(eight)
        BY <1>3, <1>5, CatLen
      <3>. QED BY <1>2, <1>3, <1>5, <3>1
    <2>2. idx = 42 + Len(h)
      BY <1>1, <1>2, <1>7 DEF ExtraNonceLenIdx, HeightLen
    <2>. QED BY <1>2, <1>3, <2>1, <2>2
  <1>. HIDE DEF B, nA, raw
  <1>9. raw = Around(B, Len(n), nA) BY <1>6 DEF Around
  <1>10. /\ raw[Len(B) + 1] = Len(n)
         /\ [raw EXCEPT ![Len(B) + 1] = 8] = Cat(Cat(B, eight), nA)
    <2>1. [raw EXCEPT ![Len(B) + 1] = 8] = Around(B, 8, nA)
      BY <1>2, <1>3, <1>4, <1>9, AroundExcept
    <2>2. raw[Len(B) + 1] = Len(n) BY <1>2, <1>3, <1>4, <1>9, AroundAt
    <2>. QED BY <2>1, <2>2, Zenon DEF Around, eight
  <1>. DEFINE buf == Cat(Cat(B, eight), nA)
  <1>. HIDE DEF N, eight, idx
  <1>11. Cat(B, eight) \in Bytes BY <1>3, <1>5, CatType
  <1>12. SubSeq(buf, 1, idx + 1) = Cat(B, eight)
    <2>1. SubSeq(buf, 1, Len(Cat(B, eight))) = Cat(B, eight)
      BY <1>4, <1>11, CutCat
    <2>2. Len(Cat(B, eight)) = idx + 1 BY <1>2, <1>3, <1>5, <1>8, CatLen
    <2>. QED BY <2>1, <2>2
  <1>13. SubSeq(buf, idx + Len(n) + 2, Len(buf)) = After
    <2>. DEFINE Bn == Cat(Cat(B, eight), n)
    <2>1. buf = Cat(Bn, After) BY <1>1, <1>3, <1>11, CatAssoc DEF nA
    <2>2. /\ Bn \in Bytes /\ Len(Bn) = Len(Cat(B, eight)) + Len(n)
      BY <1>1, <1>11, CatType, CatLen
    <2>. HIDE DEF Bn, buf
    <2>3. SubSeq(buf, Len(Bn) + 1, Len(buf)) = After
      BY <1>3, <2>1, <2>2, CutCat
    <2>. QED BY <1>8, <2>2, <2>3
  <1>14. Halves(raw) = <<SubSeq([raw EXCEPT ![idx + 1] = 8], 1, idx + 1),
                         SubSeq([raw EXCEPT ![idx + 1] = 8],
                                idx + raw[idx + 1] + 2,
                                Len([raw EXCEPT ![idx + 1] = 8]))>>
    BY Zenon DEF Halves, idx
  <1>15. [raw EXCEPT ![idx + 1] = 8] = buf /\ raw[idx + 1] = Len(n)
    BY <1>8, <1>10
  <1>16. Halves(raw) = <<SubSeq(buf, 1, idx + 1),
                         SubSeq(buf, idx + Len(n) + 2, Len(buf))>>
    BY <1>14, <1>15, Zenon
  <1>17. Halves(raw) = <<Cat(B, eight), After>> BY <1>12, <1>13, <1>16
  <1>. QED BY <1>17, Zenon DEF raw, B, eight, Cat

(* A coinbase around the length of its script.                             *)
Beyond(h, len, n) == Cat(h, Cat(<<len>>, Cat(n, After)))

LEMMA CoinbaseFront ==
  ASSUME NEW h \in Bytes, NEW n \in Bytes, NEW m \in Bytes
  PROVE  /\ Beyond(h, Len(n), n) \in Bytes
         /\ Cat(Cat(Before(h, m), <<Len(n)>>), Cat(n, After))
              = Cat(Cat(Prefix, <<ScriptLen(h, m)>>), Beyond(h, Len(n), n))
  <1>1. /\ Len(n) \in Nat /\ Prefix \in Bytes /\ After \in Bytes
        /\ ScriptLen(h, m) \in Nat
    BY BytesAssumption, LenProperties, CoinbaseParts DEF Bytes
  <1>. DEFINE N == <<Len(n)>>  S == <<ScriptLen(h, m)>>
              nA == Cat(n, After)  PS == Cat(Prefix, S)  NnA == Cat(N, nA)
  <1>2. N \in Bytes /\ S \in Bytes BY <1>1, Singleton DEF Bytes
  <1>3. Before(h, m) = Cat(PS, h) BY Zenon DEF Before, Cat
  <1>4. Beyond(h, Len(n), n) = Cat(h, NnA) BY DEF Beyond
  <1>. HIDE DEF N, S
  <1>5. nA \in Bytes /\ PS \in Bytes /\ NnA \in Bytes /\ Cat(PS, h) \in Bytes
        /\ Cat(h, NnA) \in Bytes
    BY <1>1, <1>2, CatType
  <1>6. Cat(Cat(Cat(PS, h), N), nA) = Cat(Cat(PS, h), NnA)
    BY <1>2, <1>5, CatAssoc
  <1>7. Cat(Cat(PS, h), NnA) = Cat(PS, Cat(h, NnA)) BY <1>5, CatAssoc
  <1>8. Cat(Cat(Before(h, m), N), nA) = Cat(PS, Beyond(h, Len(n), n))
    BY <1>3, <1>4, <1>6, <1>7
  <1>. QED BY <1>4, <1>5, <1>8 DEF N, S

LEMMA Fresh == FreshNonce \in Bytes /\ Len(FreshNonce) = 8
  <1>1. ExtraNonce1 \in Bytes /\ Len(ExtraNonce1) = 4
    BY DEF ExtraNonce1, Bytes
  <1>2. ExtraNonce2 \in Bytes /\ Len(ExtraNonce2) = 4
    BY BytesAssumption DEF Bytes
  <1>3. FreshNonce = Cat(ExtraNonce1, ExtraNonce2)
    BY Zenon DEF FreshNonce, Cat
  <1>4. /\ Cat(ExtraNonce1, ExtraNonce2) \in Bytes
        /\ Len(Cat(ExtraNonce1, ExtraNonce2))
             = Len(ExtraNonce1) + Len(ExtraNonce2)
    BY <1>1, <1>2, CatType, CatLen
  <1>. QED BY <1>1, <1>2, <1>3, <1>4

(* What a miner makes of the halves of a coinbase.                         *)
LEMMA HalvesRebuild ==
  ASSUME NEW h \in Heights, NEW n \in Nonces
  PROVE  /\ Halves(Coinbase(h, n))[1] \in Seq(Nat)
         /\ Halves(Coinbase(h, n))[2] \in Seq(Nat)
         /\ Halves(Coinbase(h, n))[1] \o FreshNonce \o Halves(Coinbase(h, n))[2]
              = [Coinbase(h, FreshNonce) EXCEPT ![42] = Coinbase(h, n)[42]]
         /\ Len(n) = 8 => Coinbase(h, n)[42] = Coinbase(h, FreshNonce)[42]
         /\ Coinbase(h, FreshNonce) \in Seq(Nat)
         /\ 42 \in 1..Len(Coinbase(h, FreshNonce))
  <1>1. h \in Bytes /\ n \in Bytes /\ Len(n) \in Nat
    BY HeightsAssumption, BytesAssumption DEF Bytes
  <1>. DEFINE F == FreshNonce  B == Before(h, n)  eight == <<8>>
              rest == Beyond(h, 8, F)
              half == Cat(B, eight)
              old == Coinbase(h, n)  new == Coinbase(h, F)
  <1>2. F \in Bytes /\ Len(F) = 8 BY Fresh
  <1>3. /\ B \in Bytes /\ After \in Bytes /\ eight \in Bytes
        /\ Prefix \in Bytes /\ Len(Prefix) = 41
    BY <1>1, CoinbaseParts, Singleton, BytesAssumption DEF Bytes
  <1>4. ScriptLen(h, n) \in Nat /\ ScriptLen(h, F) \in Nat
    BY <1>1, <1>2, CoinbaseParts
  <1>5. half \in Bytes BY <1>3, CatType
  <1>6. Halves(old) = <<half, After>>
    BY HalvesOfCoinbase, Zenon DEF Cat
  <1>7. /\ rest \in Bytes
        /\ Cat(half, Cat(F, After))
             = Cat(Cat(Prefix, <<ScriptLen(h, n)>>), rest)
    <2>1. /\ Beyond(h, Len(F), F) \in Bytes
          /\ Cat(Cat(B, <<Len(F)>>), Cat(F, After))
               = Cat(Cat(Prefix, <<ScriptLen(h, n)>>), Beyond(h, Len(F), F))
      BY <1>1, <1>2, CoinbaseFront
    <2>. QED BY <1>2, <2>1
  <1>8. new = Cat(Cat(Prefix, <<ScriptLen(h, F)>>), rest)
    <2>1. new = Before(h, F) \o <<Len(F)>> \o (F \o After)
      BY <1>1, <1>2, CoinbaseParts
    <2>2. new = Cat(Cat(Before(h, F), <<Len(F)>>), Cat(F, After))
      BY <2>1, Zenon DEF Cat
    <2>3. Cat(Cat(Before(h, F), <<Len(F)>>), Cat(F, After))
            = Cat(Cat(Prefix, <<ScriptLen(h, F)>>), Beyond(h, Len(F), F))
      BY <1>1, <1>2, CoinbaseFront
    <2>. QED BY <1>2, <2>2, <2>3
  <1>9. old[42] = ScriptLen(h, n)
    <2>1. old = B \o <<Len(n)>> \o (n \o After) BY <1>1, CoinbaseParts
    <2>2. old = Cat(Cat(B, <<Len(n)>>), Cat(n, After))
      BY <2>1, Zenon DEF Cat
    <2>3. /\ Beyond(h, Len(n), n) \in Bytes
          /\ old = Cat(Cat(Prefix, <<ScriptLen(h, n)>>), Beyond(h, Len(n), n))
      BY <1>1, <2>2, CoinbaseFront
    <2>4. old = Around(Prefix, ScriptLen(h, n), Beyond(h, Len(n), n))
      BY <2>3, Zenon DEF Around
    <2>. HIDE DEF old
    <2>5. old[Len(Prefix) + 1] = ScriptLen(h, n)
      <3>. DEFINE b == Beyond(h, Len(n), n)  x == ScriptLen(h, n)
      <3>1. b \in Bytes /\ x \in Nat /\ old = Around(Prefix, x, b)
        BY <1>4, <2>3, <2>4
      <3>. HIDE DEF b, x
      <3>2. Around(Prefix, x, b)[Len(Prefix) + 1] = x
        <4>1. Prefix \in Bytes BY <1>3
        <4>. QED BY <3>1, <4>1, AroundAt
      <3>. QED BY <3>1, <3>2, Zenon DEF x
    <2>6. Len(Prefix) + 1 = 42 BY <1>3
    <2>. QED BY <2>5, <2>6
  <1>. HIDE DEF new, rest, half, F, old
  <1>10. new[42] = ScriptLen(h, F)
    <2>1. new = Around(Prefix, ScriptLen(h, F), rest) BY <1>8, Zenon DEF Around
    <2>2. new[Len(Prefix) + 1] = ScriptLen(h, F)
      <3>. DEFINE x == ScriptLen(h, F)
      <3>1. x \in Nat /\ new = Around(Prefix, x, rest) BY <1>4, <2>1
      <3>. HIDE DEF x
      <3>2. Around(Prefix, x, rest)[Len(Prefix) + 1] = x
        <4>1. Prefix \in Bytes /\ rest \in Bytes BY <1>3, <1>7
        <4>. QED BY <3>1, <4>1, AroundAt
      <3>. QED BY <3>1, <3>2, Zenon DEF x
    <2>3. Len(Prefix) + 1 = 42 BY <1>3
    <2>. QED BY <2>2, <2>3
  <1>11. [new EXCEPT ![42] = old[42]] = Cat(Cat(half, F), After)
    <2>1. [new EXCEPT ![Len(Prefix) + 1] = ScriptLen(h, n)]
            = Cat(Cat(Prefix, <<ScriptLen(h, n)>>), rest)
      <3>1. new = Around(Prefix, ScriptLen(h, F), rest)
        BY <1>8, Zenon DEF Around
      <3>2. [new EXCEPT ![Len(Prefix) + 1] = ScriptLen(h, n)]
              = Around(Prefix, ScriptLen(h, n), rest)
        BY <1>3, <1>4, <1>7, <3>1, AroundExcept
      <3>. QED BY <3>2, Zenon DEF Around
    <2>2. Cat(Cat(half, F), After) = Cat(half, Cat(F, After))
      BY <1>2, <1>3, <1>5, CatAssoc
    <2>3. Len(Prefix) + 1 = 42 BY <1>3
    <2>. QED BY <1>7, <1>8, <1>9, <2>1, <2>2, <2>3
  <1>12. Halves(old)[1] = half /\ Halves(old)[2] = After BY <1>6
  <1>13. Len(n) = 8 => old[42] = new[42]
    BY <1>2, <1>9, <1>10 DEF ScriptLen
  <1>14. Cat(Cat(half, F), After)
           = Halves(old)[1] \o F \o Halves(old)[2]
    BY <1>12, Zenon DEF Cat
  <1>15. new \in Bytes /\ 42 \in 1..Len(new)
    <2>. DEFINE s == <<ScriptLen(h, F)>>
    <2>1. s \in Bytes /\ Len(s) = 1 BY <1>4, Singleton DEF Bytes
    <2>2. new = Cat(Cat(Prefix, s), rest) BY <1>8
    <2>. HIDE DEF s
    <2>3. /\ Cat(Prefix, s) \in Bytes
          /\ Len(Cat(Prefix, s)) = Len(Prefix) + Len(s)
      BY <1>3, <2>1, CatType, CatLen
    <2>4. /\ new \in Bytes /\ Len(new) = Len(Cat(Prefix, s)) + Len(rest)
      BY <1>7, <2>2, <2>3, CatType, CatLen
    <2>5. Len(rest) \in Nat BY <1>7, LenProperties DEF Bytes
    <2>. QED BY <1>3, <2>1, <2>3, <2>4, <2>5
  <1>. QED
    BY <1>3, <1>5, <1>11, <1>12, <1>13, <1>14, <1>15 DEF old, new, F, Bytes

-----------------------------------------------------------------------------
(* Merkle trees.                                                           *)

LEMMA WidthOf ==
  ASSUME NEW n \in 1..MaxTxs
  PROVE  /\ NextPowerOfTwo(n) \in PowersOfTwo
         /\ n <= NextPowerOfTwo(n) /\ NextPowerOfTwo(n) < 2 * n
  BY TxsAssumption, Zenon DEF NextPowerOfTwo

LEMMA ParentOf ==
  \A l, r : l # Nil => /\ Parent(l, r) # Nil
                       /\ r # Nil => Parent(l, r) = Hash(l, r)
  BY DEF Parent, Hash, Nil

(* What an iteration does to an array.                                     *)
LEMMA JoinedAt ==
  ASSUME NEW a, NEW w \in Nat \ {0}, NEW h \in 0..w - 2,
         DOMAIN a = 0..2 * w - 2
  PROVE  /\ DOMAIN Joined(a, w, 2 * h) = 0..2 * w - 2
         /\ Joined(a, w, 2 * h)[w + h] = Parent(a[2 * h], a[2 * h + 1])
         /\ \A p \in 0..2 * w - 2 :
              p # w + h => Joined(a, w, 2 * h)[p] = a[p]
  <1>1. (2 * h) \div 2 = h /\ w + h \in 0..2 * w - 2 BY Z3
  <1>2. Joined(a, w, 2 * h)
          = [a EXCEPT ![w + h] = Parent(a[2 * h], a[2 * h + 1])]
    BY <1>1 DEF Joined
  <1>. QED BY <1>1, <1>2

(* The arrays agree where the coinbase is not below, and the left edge of  *)
(* every level has the coinbase below it.                                  *)
Edge(p) == \E w \in PowersOfTwo : p = 2 * Width - 2 * w

Agree ==
  caller # "handleMessage" =>
    \A p \in 0..2 * Width - 2 : ~Edge(p) => store[p] = mined[p]

(* What is joined is the parent of what it was made from.                  *)
JoinedSoFar ==
  \A q \in 0..Width - 2 :
    2 * q < i => mined[Width + q] = Parent(mined[2 * q], mined[2 * q + 1])

(* A node of level w, once it is there, is not nil when its first leaf is  *)
(* a transaction.                                                          *)
Filled ==
  \A w \in PowersOfTwo : \A j \in 0..w - 1 :
    /\ w <= Width /\ j * Width < ntxs * w /\ 2 * (Width - 2 * w + j) < i
    => mined[2 * Width - 2 * w + j] # Nil

OwnCoinbase == mined[0] = Txid(MinersCoinbase)

(* The miner's root so far is the node on the left edge of the level that  *)
(* the branch has reached.                                                 *)
Climbed ==
  \E w \in PowersOfTwo :
    /\ w <= JobWidth /\ k = 2 * w - 1
    /\ split /\ caller # "handleMessage" => root = mined[2 * Width - 2 * w]

Even == \E h \in 0..Width - 1 : i = 2 * h

IInv ==
  /\ TypeOK
  /\ Even
  /\ Agree
  /\ JoinedSoFar
  /\ Filled
  /\ OwnCoinbase
  /\ Climbed
  /\ k = 2 * JobWidth - 1 \/ Built
  /\ CoinbaseRebuilt

LEMMA Widths ==
  ASSUME TypeOK
  PROVE  /\ Width \in PowersOfTwo /\ Width \in Nat \ {0}
         /\ ntxs \in 1..MaxTxs /\ ntxs \in Nat \ {0}
         /\ ntxs <= Width /\ Width < 2 * ntxs
         /\ JobWidth \in PowersOfTwo /\ JobWidth \in Nat \ {0}
         /\ caller # "handleMessage" => JobTxs = ntxs /\ JobWidth = Width
  <1>1. ntxs \in 1..MaxTxs /\ JobTxs \in 1..MaxTxs BY DEF TypeOK
  <1>2. /\ Width \in PowersOfTwo /\ ntxs <= Width /\ Width < 2 * ntxs
        /\ JobWidth \in PowersOfTwo
    BY <1>1, WidthOf DEF Width, JobWidth
  <1>3. caller # "handleMessage" => JobTxs = ntxs /\ JobWidth = Width
    BY DEF JobTxs, JobWidth, Width
  <1>. QED BY <1>1, <1>2, <1>3, PowersAssumption, TxsAssumption

LEMMA Products ==
  /\ \A j, v, n \in Nat : v # 0 /\ j * v < n * v => j < n
  /\ \A j, v, n, w \in Nat : j * v < n * w => (2 * j) * v < n * (2 * w)
  <1>1. ASSUME NEW j \in Nat, NEW v \in Nat, NEW n \in Nat,
               v # 0, j * v < n * v
        PROVE  j < n
    <2>1. ASSUME j >= n PROVE FALSE
      <3>1. PICK d \in Nat : j = n + d
        <4>1. j - n \in Nat /\ j = n + (j - n) BY <2>1
        <4>. QED BY <4>1
      <3>2. j * v = n * v + d * v BY <3>1, Z3
      <3>3. n * v \in Nat /\ d * v \in Nat BY Z3
      <3>. QED BY <1>1, <3>2, <3>3
    <2>. QED BY <2>1
  <1>2. ASSUME NEW j \in Nat, NEW v \in Nat, NEW n \in Nat, NEW w \in Nat,
               j * v < n * w
        PROVE  (2 * j) * v < n * (2 * w)
    BY <1>2, Z3
  <1>. QED BY <1>1, <1>2

LEMMA InitInvariant == Init => IInv
  <1>. SUFFICES ASSUME Init PROVE IInv OBVIOUS
  <1>1. ntxs \in 1..MaxTxs /\ JobTxs \in 1..MaxTxs /\ caller \in Callers
    BY TxsAssumption DEF Init, Callers, JobTxs
  <1>2. JobWidth \in PowersOfTwo /\ Width \in PowersOfTwo
    BY <1>1, WidthOf DEF JobWidth, Width
  <1>3. JobWidth \in Nat \ {0} /\ Width \in Nat \ {0}
    BY <1>2, PowersAssumption
  <1>4. /\ DOMAIN store = 0..2 * JobWidth - 2
        /\ DOMAIN mined = 0..2 * Width - 2
        /\ \A p \in 0..2 * JobWidth - 2 :
             store[p] = IF p < JobTxs THEN JobLeaf(p) ELSE Nil
        /\ \A p \in 0..2 * Width - 2 :
             mined[p] = IF p < ntxs THEN MinedLeaf(p) ELSE Nil
    BY DEF Init, Leaves, JobWidth, Width
  <1>5. /\ split = FALSE /\ height \in Heights /\ nonce \in Nonces
        /\ coinb1 = <<>> /\ coinb2 = <<>> /\ i = 0 /\ k = 2 * JobWidth - 1
    BY DEF Init
  <1>6. TypeOK
    <2>1. i \in 0..2 * Width - 2 /\ k \in 1..2 * JobWidth - 1
      BY <1>3, <1>5
    <2>2. coinb1 \in Seq(Nat) /\ coinb2 \in Seq(Nat) BY <1>5
    <2>. QED BY <1>1, <1>4, <1>5, <2>1, <2>2 DEF TypeOK
  <1>7. /\ ntxs \in Nat \ {0} /\ ntxs <= Width
        /\ caller # "handleMessage" => JobTxs = ntxs /\ JobWidth = Width
    BY <1>6, Widths
  <1>8. Even
    <2>1. 0 \in 0..Width - 1 /\ i = 2 * 0 BY <1>3, <1>5
    <2>. QED BY <2>1 DEF Even
  <1>9. Agree
    <2>. SUFFICES ASSUME caller # "handleMessage", NEW p \in 0..2 * Width - 2,
                         ~Edge(p)
                  PROVE  store[p] = mined[p]
      BY DEF Agree
    <2>1. p # 0
      <3>1. 0 = 2 * Width - 2 * Width BY <1>3
      <3>. QED BY <1>2, <3>1 DEF Edge
    <2>2. JobLeaf(p) = OwnTxid(p)
      <3>1. p + ntxs - JobTxs = p BY <1>7
      <3>. QED BY <3>1 DEF JobLeaf
    <2>3. MinedLeaf(p) = OwnTxid(p) BY <2>1 DEF MinedLeaf
    <2>. QED BY <1>4, <1>7, <2>2, <2>3
  <1>10. JoinedSoFar BY <1>5 DEF JoinedSoFar
  <1>11. Filled
    <2>. SUFFICES ASSUME NEW w \in PowersOfTwo, NEW j \in 0..w - 1,
                         w <= Width, j * Width < ntxs * w,
                         2 * (Width - 2 * w + j) < 0
                  PROVE  mined[2 * Width - 2 * w + j] # Nil
      BY <1>5 DEF Filled
    <2>1. w \in Nat \ {0} BY PowersAssumption
    <2>2. w = Width
      <3>1. w < Width => 2 * w <= Width BY <1>2, PowersAssumption
      <3>. QED BY <1>3, <2>1, <3>1
    <2>3. j < ntxs BY <1>3, <1>7, <2>2, Products
    <2>4. 2 * Width - 2 * w + j = j /\ j \in 0..2 * Width - 2
      BY <1>3, <2>2
    <2>5. mined[j] = MinedLeaf(j) BY <1>4, <2>3, <2>4
    <2>6. MinedLeaf(j) # Nil BY DEF MinedLeaf, Txid, OwnTxid, Nil
    <2>. QED BY <2>4, <2>5, <2>6
  <1>12. OwnCoinbase
    <2>1. 0 \in 0..2 * Width - 2 /\ 0 < ntxs BY <1>3, <1>7
    <2>. QED BY <1>4, <2>1 DEF MinedLeaf, OwnCoinbase
  <1>13. Climbed
    <2>1. JobWidth <= JobWidth /\ ~split BY <1>3, <1>5
    <2>. QED BY <1>2, <1>5, <2>1 DEF Climbed
  <1>14. CoinbaseRebuilt BY <1>5 DEF CoinbaseRebuilt
  <1>. QED
    BY <1>5, <1>6, <1>8, <1>9, <1>10, <1>11, <1>12, <1>13, <1>14 DEF IInv

(* Who makes the job, and of what, does not change.                        *)
LEMMA Kept ==
  ASSUME UNCHANGED inputs
  PROVE  /\ caller' = caller /\ ntxs' = ntxs
         /\ height' = height /\ nonce' = nonce
         /\ JobTxs' = JobTxs /\ JobWidth' = JobWidth /\ Width' = Width
         /\ \A p : Edge(p)' <=> Edge(p)
  <1>1. /\ caller' = caller /\ ntxs' = ntxs
        /\ height' = height /\ nonce' = nonce
    BY DEF inputs
  <1>2. JobTxs' = JobTxs BY <1>1 DEF JobTxs
  <1>3. JobWidth' = JobWidth /\ Width' = Width
    BY <1>1, <1>2 DEF JobWidth, Width
  <1>. QED BY <1>1, <1>2, <1>3 DEF Edge

(* What only the arrays are about stays true with them.                    *)
LEMMA TreesKept ==
  ASSUME UNCHANGED inputs, UNCHANGED treeVars
  PROVE  /\ Even => Even'
         /\ Agree => Agree'
         /\ JoinedSoFar => JoinedSoFar'
         /\ Filled => Filled'
         /\ OwnCoinbase => OwnCoinbase'
  <1>1. /\ caller' = caller /\ ntxs' = ntxs
        /\ height' = height /\ nonce' = nonce
        /\ Width' = Width /\ \A p : Edge(p)' <=> Edge(p)
    BY Kept
  <1>2. store' = store /\ mined' = mined /\ i' = i BY DEF treeVars
  <1>3. Agree => Agree' BY <1>1, <1>2 DEF Agree
  <1>4. JoinedSoFar => JoinedSoFar' BY <1>1, <1>2 DEF JoinedSoFar
  <1>5. Filled => Filled' BY <1>1, <1>2 DEF Filled
  <1>6. Even => Even' BY <1>1, <1>2 DEF Even
  <1>7. OwnCoinbase => OwnCoinbase'
    BY <1>1, <1>2 DEF OwnCoinbase, MinersCoinbase
  <1>. QED BY <1>3, <1>4, <1>5, <1>6, <1>7

LEMMA SplitStep == IInv /\ SplitCoinbase => IInv'
  <1>. SUFFICES ASSUME IInv, SplitCoinbase PROVE IInv' OBVIOUS
  <1>1. /\ ~split /\ split' = TRUE /\ k' = k
        /\ coinb1' = Halves(Coinbase(height, nonce))[1]
        /\ coinb2' = Halves(Coinbase(height, nonce))[2]
        /\ root' = Txid(Assembled')
        /\ UNCHANGED inputs /\ UNCHANGED treeVars
    BY DEF SplitCoinbase
  <1>2. /\ caller' = caller /\ ntxs' = ntxs
        /\ height' = height /\ nonce' = nonce
        /\ JobTxs' = JobTxs /\ JobWidth' = JobWidth /\ Width' = Width
    BY <1>1, Kept
  <1>3. store' = store /\ mined' = mined /\ i' = i BY <1>1 DEF treeVars
  <1>4. height \in Heights /\ nonce \in Nonces /\ TypeOK BY DEF IInv, TypeOK
  <1>. DEFINE new == Coinbase(height, FreshNonce)
              old == Coinbase(height, nonce)
  <1>5. /\ coinb1' \in Seq(Nat) /\ coinb2' \in Seq(Nat)
        /\ coinb1' \o FreshNonce \o coinb2' = [new EXCEPT ![42] = old[42]]
        /\ Len(nonce) = 8 => old[42] = new[42]
        /\ new \in Seq(Nat) /\ 42 \in 1..Len(new)
    BY <1>1, <1>4, HalvesRebuild, Zenon
  <1>6. TypeOK' BY <1>1, <1>2, <1>3, <1>4, <1>5 DEF TypeOK
  <1>7. Assembled' = [new EXCEPT ![42] = old[42]]
    BY <1>5, Zenon DEF Assembled
  <1>8. Assembled' = MinersCoinbase
    BY <1>1, Zenon DEF Assembled, MinersCoinbase
  <1>9. Climbed'
    <2>1. k = 2 * JobWidth - 1 BY <1>1 DEF IInv, Built
    <2>2. /\ JobWidth \in PowersOfTwo /\ JobWidth \in Nat
          /\ Width \in Nat
          /\ caller # "handleMessage" => JobWidth = Width
      BY <1>4, Widths
    <2>3. caller # "handleMessage"
            => root' = mined'[2 * Width' - 2 * JobWidth']
      <3>1. 2 * Width - 2 * Width = 0 BY <2>2
      <3>2. mined[0] = Txid(MinersCoinbase) BY DEF IInv, OwnCoinbase
      <3>3. caller # "handleMessage"
              => mined'[2 * Width' - 2 * JobWidth'] = mined[0]
        BY <1>2, <1>3, <2>2, <3>1
      <3>. QED BY <1>1, <1>8, <3>2, <3>3
    <2>4. JobWidth' <= JobWidth' BY <1>2, <2>2
    <2>. QED BY <1>1, <1>2, <2>1, <2>2, <2>3, <2>4 DEF Climbed
  <1>10. (k = 2 * JobWidth - 1 \/ Built)'
    BY <1>1, <1>2 DEF IInv, Built
  <1>11. CoinbaseRebuilt'
    <2>1. /\ DOMAIN Assembled' = DOMAIN new
          /\ \A j \in DOMAIN new :
               Assembled'[j] # new[j] => j = 42 /\ Len(nonce) # 8
      <3>. HIDE DEF new, old
      <3>1. \A j \in DOMAIN new :
              Assembled'[j] = IF j = 42 THEN old[42] ELSE new[j]
        BY <1>7
      <3>. QED BY <1>5, <1>7, <3>1
    <2>. QED BY <1>2, <2>1, Zenon DEF CoinbaseRebuilt
  <1>12. Even' /\ Agree' /\ JoinedSoFar' /\ Filled' /\ OwnCoinbase'
    <2>1. Even /\ Agree /\ JoinedSoFar /\ Filled /\ OwnCoinbase BY DEF IInv
    <2>2. UNCHANGED inputs /\ UNCHANGED treeVars BY <1>1
    <2>. QED BY <2>1, <2>2, TreesKept
  <1>. QED BY <1>6, <1>9, <1>10, <1>11, <1>12 DEF IInv

LEMMA BranchStep == IInv /\ MerkleTreeBranch => IInv'
  <1>. SUFFICES ASSUME IInv, MerkleTreeBranch PROVE IInv' OBVIOUS
  <1>1. /\ Built /\ k > 1 /\ k' = Shorter
        /\ root' = IF Sibling = Nil THEN root ELSE Hash(root, Sibling)
        /\ UNCHANGED inputs /\ UNCHANGED parts /\ UNCHANGED treeVars
    BY DEF MerkleTreeBranch
  <1>2. /\ caller' = caller /\ ntxs' = ntxs
        /\ height' = height /\ nonce' = nonce
        /\ JobTxs' = JobTxs /\ JobWidth' = JobWidth /\ Width' = Width
    BY <1>1, Kept
  <1>3. /\ store' = store /\ mined' = mined /\ i' = i
        /\ split' = split /\ coinb1' = coinb1 /\ coinb2' = coinb2
    BY <1>1 DEF treeVars, parts
  <1>4. /\ Width \in PowersOfTwo /\ Width \in Nat \ {0}
        /\ ntxs \in Nat \ {0} /\ ntxs <= Width /\ Width < 2 * ntxs
        /\ JobWidth \in Nat \ {0}
        /\ caller # "handleMessage" => JobTxs = ntxs /\ JobWidth = Width
    BY Widths DEF IInv
  <1>5. PICK w \in PowersOfTwo :
          /\ w <= JobWidth /\ k = 2 * w - 1
          /\ split /\ caller # "handleMessage" => root = mined[2 * Width - 2 * w]
    BY DEF IInv, Climbed
  <1>6. PICK v \in PowersOfTwo : w = 2 * v /\ v \in Nat \ {0}
    <2>1. w \in Nat \ {0} /\ w # 1 BY <1>1, <1>5, PowersAssumption
    <2>2. w % 2 = 0 /\ w \div 2 \in PowersOfTwo BY <2>1, PowersAssumption
    <2>3. w = 2 * (w \div 2) /\ w \div 2 \in Nat \ {0}
      BY <2>1, <2>2, PowersAssumption, Z3
    <2>. QED BY <2>2, <2>3
  <1>7. k' = 2 * v - 1
    <2>1. k - 1 = 2 * (2 * v - 1) BY <1>5, <1>6
    <2>2. (2 * (2 * v - 1)) \div 2 = 2 * v - 1 BY <1>6, Z3
    <2>. QED BY <1>1, <2>1, <2>2 DEF Shorter
  <1>8. ASSUME caller # "handleMessage"
        PROVE  root' = mined[2 * Width - 2 * v]
    <2>. DEFINE q == Width - w
    <2>1. /\ JobWidth = Width /\ w <= Width /\ q \in 0..Width - 2
          /\ 2 * q = 2 * Width - 2 * w /\ 2 * q < 2 * Width - 2
      BY <1>4, <1>5, <1>6, <1>8
    <2>2. /\ root = mined[2 * q]
          /\ Sibling = store[2 * q + 1]
      <3>1. root = mined[2 * q] BY <1>1, <1>5, <1>8, <2>1 DEF Built
      <3>2. 2 * JobWidth - 1 - k + 1 = 2 * q + 1
        BY <1>4, <1>5, <1>6, <2>1
      <3>. QED BY <3>1, <3>2 DEF Sibling
    <2>3. store[2 * q + 1] = mined[2 * q + 1]
      <3>1. ~Edge(2 * q + 1)
        BY <1>4, <2>1, PowersAssumption DEF Edge
      <3>2. 2 * q + 1 \in 0..2 * Width - 2 BY <1>4, <2>1
      <3>. QED BY <1>8, <3>1, <3>2 DEF IInv, Agree
    <2>4. mined[2 * q] # Nil /\ mined[2 * q + 1] # Nil
      <3>1. ASSUME NEW j \in {0, 1} PROVE mined[2 * q + j] # Nil
        <4>1. w \in Nat /\ j \in 0..w - 1 BY <1>6
        <4>2. j * Width < ntxs * w
          <5>1. ntxs * w = 2 * (ntxs * v) /\ ntxs * v >= ntxs
            BY <1>4, <1>6, Z3
          <5>2. j * Width <= Width BY <1>4, <4>1, Z3
          <5>3. ntxs * v \in Nat /\ j * Width \in Nat
            BY <1>4, <1>6, <4>1, Z3
          <5>. QED BY <1>4, <5>1, <5>2, <5>3
        <4>3. 2 * (Width - 2 * w + j) < i
          <5>1. i = 2 * Width - 2 BY <1>1 DEF Built
          <5>. QED BY <1>4, <1>6, <2>1, <5>1
        <4>4. mined[2 * Width - 2 * w + j] # Nil
          BY <2>1, <4>1, <4>2, <4>3 DEF IInv, Filled
        <4>. QED BY <2>1, <4>4
      <3>2. 2 * q + 0 = 2 * q BY <2>1
      <3>. QED BY <3>1, <3>2
    <2>5. mined[2 * Width - 2 * v] = Parent(mined[2 * q], mined[2 * q + 1])
      <3>1. 2 * Width - 2 * v = Width + q BY <1>4, <1>6, <2>1
      <3>2. 2 * q < i BY <1>1, <2>1 DEF Built
      <3>. QED BY <2>1, <3>1, <3>2 DEF IInv, JoinedSoFar
    <2>6. root' = Hash(root, Sibling) BY <1>1, <2>2, <2>3, <2>4
    <2>. QED BY <2>2, <2>3, <2>4, <2>5, <2>6, ParentOf
  <1>9. Climbed'
    <2>1. v <= JobWidth BY <1>4, <1>5, <1>6
    <2>. QED BY <1>2, <1>3, <1>6, <1>7, <1>8, <2>1 DEF Climbed
  <1>10. TypeOK'
    <2>1. k' \in 1..2 * JobWidth - 1 BY <1>4, <1>5, <1>6, <1>7
    <2>2. TypeOK BY DEF IInv
    <2>. QED BY <1>2, <1>3, <2>1, <2>2 DEF TypeOK
  <1>11. Built' BY <1>1, <1>2, <1>3 DEF Built
  <1>12. CoinbaseRebuilt'
    BY <1>2, <1>3, Zenon DEF IInv, CoinbaseRebuilt, Assembled
  <1>13. Even' /\ Agree' /\ JoinedSoFar' /\ Filled' /\ OwnCoinbase'
    <2>1. Even /\ Agree /\ JoinedSoFar /\ Filled /\ OwnCoinbase BY DEF IInv
    <2>2. UNCHANGED inputs /\ UNCHANGED treeVars BY <1>1
    <2>. QED BY <2>1, <2>2, TreesKept
  <1>. QED BY <1>9, <1>10, <1>11, <1>12, <1>13 DEF IInv

LEMMA BuildStep == IInv /\ BuildMerkleTreeStore => IInv'
  <1>. SUFFICES ASSUME IInv, BuildMerkleTreeStore PROVE IInv' OBVIOUS
  <1>1. /\ split /\ i < 2 * Width - 2 /\ i' = i + 2
        /\ mined' = Joined(mined, Width, i)
        /\ store' = IF i < 2 * JobWidth - 2 THEN Joined(store, JobWidth, i)
                    ELSE store
        /\ UNCHANGED inputs /\ UNCHANGED parts /\ k' = k /\ root' = root
    BY DEF BuildMerkleTreeStore
  <1>2. /\ caller' = caller /\ ntxs' = ntxs
        /\ height' = height /\ nonce' = nonce
        /\ JobTxs' = JobTxs /\ JobWidth' = JobWidth /\ Width' = Width
        /\ \A p : Edge(p)' <=> Edge(p)
    BY <1>1, Kept
  <1>3. split' = split /\ coinb1' = coinb1 /\ coinb2' = coinb2
    BY <1>1 DEF parts
  <1>4. /\ Width \in PowersOfTwo /\ Width \in Nat \ {0}
        /\ ntxs \in Nat \ {0}
        /\ JobWidth \in Nat \ {0}
        /\ caller # "handleMessage" => JobWidth = Width
    BY Widths DEF IInv
  <1>5. PICK h \in 0..Width - 2 : i = 2 * h
    <2>1. PICK x \in 0..Width - 1 : i = 2 * x BY DEF IInv, Even
    <2>2. x \in 0..Width - 2 BY <1>1, <1>4, <2>1
    <2>. QED BY <2>1, <2>2
  <1>6. DOMAIN store = 0..2 * JobWidth - 2 /\ DOMAIN mined = 0..2 * Width - 2
    BY DEF IInv, TypeOK
  <1>7. /\ DOMAIN mined' = 0..2 * Width - 2
        /\ mined'[Width + h] = Parent(mined[2 * h], mined[2 * h + 1])
        /\ \A p \in 0..2 * Width - 2 : p # Width + h => mined'[p] = mined[p]
    BY <1>1, <1>4, <1>5, <1>6, JoinedAt
  <1>8. DOMAIN store' = 0..2 * JobWidth - 2
    <2>1. CASE i < 2 * JobWidth - 2
      <3>1. h \in 0..JobWidth - 2 BY <1>4, <1>5, <2>1
      <3>2. DOMAIN Joined(store, JobWidth, 2 * h) = 0..2 * JobWidth - 2
        BY <1>4, <1>6, <3>1, JoinedAt
      <3>. QED BY <1>1, <1>5, <2>1, <3>2
    <2>2. CASE ~(i < 2 * JobWidth - 2) BY <1>1, <1>6, <2>2
    <2>. QED BY <2>1, <2>2
  <1>9. TypeOK'
    <2>1. i' \in 0..2 * Width - 2 BY <1>1, <1>4, <1>5
    <2>2. TypeOK BY DEF IInv
    <2>. QED BY <1>1, <1>2, <1>3, <1>7, <1>8, <2>1, <2>2 DEF TypeOK
  <1>10. Even'
    <2>1. h + 1 \in 0..Width - 1 /\ i' = 2 * (h + 1) BY <1>1, <1>4, <1>5
    <2>. QED BY <1>2, <2>1 DEF Even
  <1>11. Agree'
    <2>. SUFFICES ASSUME caller # "handleMessage", NEW p \in 0..2 * Width - 2,
                         ~Edge(p)
                  PROVE  store'[p] = mined'[p]
      BY <1>2 DEF Agree
    <2>1. /\ JobWidth = Width
          /\ \A q \in 0..2 * Width - 2 : ~Edge(q) => store[q] = mined[q]
      BY <1>4 DEF IInv, Agree
    <2>2. /\ store'[Width + h] = Parent(store[2 * h], store[2 * h + 1])
          /\ \A q \in 0..2 * Width - 2 : q # Width + h => store'[q] = store[q]
      <3>1. store' = Joined(store, Width, 2 * h) BY <1>1, <1>5, <2>1
      <3>. QED BY <1>4, <1>6, <2>1, <3>1, JoinedAt
    <2>3. CASE p # Width + h BY <1>7, <2>1, <2>2, <2>3
    <2>4. CASE p = Width + h
      <3>1. ~Edge(2 * h)
        <4>1. ASSUME NEW w \in PowersOfTwo, 2 * h = 2 * Width - 2 * w
              PROVE  FALSE
          <5>1. w \in Nat \ {0} /\ w # 1
            BY <1>4, <1>5, <4>1, PowersAssumption
          <5>2. w % 2 = 0 /\ w \div 2 \in PowersOfTwo
            BY <5>1, PowersAssumption
          <5>3. w = 2 * (w \div 2) /\ w \div 2 \in Nat BY <5>1, <5>2, Z3
          <5>4. Width + h = 2 * Width - 2 * (w \div 2)
            BY <1>4, <4>1, <5>1, <5>3
          <5>. QED BY <2>4, <5>2, <5>4 DEF Edge
        <4>. QED BY <4>1 DEF Edge
      <3>2. ~Edge(2 * h + 1)
        BY <1>4, <1>5, PowersAssumption DEF Edge
      <3>3. 2 * h \in 0..2 * Width - 2 /\ 2 * h + 1 \in 0..2 * Width - 2
        BY <1>4, <1>5
      <3>4. /\ store[2 * h] = mined[2 * h]
            /\ store[2 * h + 1] = mined[2 * h + 1]
        BY <2>1, <3>1, <3>2, <3>3
      <3>. QED BY <1>7, <2>2, <2>4, <3>4
    <2>. QED BY <2>3, <2>4
  <1>12. JoinedSoFar'
    <2>. SUFFICES ASSUME NEW q \in 0..Width - 2, 2 * q < i'
                  PROVE  mined'[Width + q]
                           = Parent(mined'[2 * q], mined'[2 * q + 1])
      BY <1>2 DEF JoinedSoFar
    <2>1. /\ q <= h /\ Width + q \in 0..2 * Width - 2
          /\ 2 * q \in 0..2 * Width - 2 /\ 2 * q + 1 \in 0..2 * Width - 2
          /\ 2 * q # Width + h /\ 2 * q + 1 # Width + h
      BY <1>1, <1>4, <1>5
    <2>2. mined'[2 * q] = mined[2 * q] /\ mined'[2 * q + 1] = mined[2 * q + 1]
      BY <1>7, <2>1
    <2>3. CASE q = h BY <1>7, <2>2, <2>3
    <2>4. CASE q # h
      <3>1. 2 * q < i /\ Width + q # Width + h BY <1>4, <1>5, <2>1, <2>4
      <3>2. mined[Width + q] = Parent(mined[2 * q], mined[2 * q + 1])
        BY <3>1 DEF IInv, JoinedSoFar
      <3>. QED BY <1>7, <2>1, <2>2, <3>1, <3>2
    <2>. QED BY <2>3, <2>4
  <1>13. Filled'
    <2>. SUFFICES ASSUME NEW w \in PowersOfTwo, NEW j \in 0..w - 1,
                         w <= Width, j * Width < ntxs * w,
                         2 * (Width - 2 * w + j) < i'
                  PROVE  mined'[2 * Width - 2 * w + j] # Nil
      BY <1>2 DEF Filled
    <2>. DEFINE p == 2 * Width - 2 * w + j
    <2>1. w \in Nat \ {0} /\ p \in 0..2 * Width - 2
      BY <1>4, PowersAssumption
    <2>2. CASE p = Width + h
      <3>1. w # Width BY <1>4, <1>5, <2>2
      <3>2. 2 * w \in PowersOfTwo /\ 2 * w <= Width
        BY <1>4, <2>1, <3>1, PowersAssumption
      <3>3. /\ 2 * j \in 0..2 * w - 1
            /\ 2 * Width - 2 * (2 * w) + 2 * j = 2 * h
            /\ 2 * (Width - 2 * (2 * w) + 2 * j) < i
        BY <1>4, <1>5, <2>1, <2>2
      <3>4. (2 * j) * Width < ntxs * (2 * w) BY <1>4, <2>1, Products
      <3>5. mined[2 * Width - 2 * (2 * w) + 2 * j] # Nil
        BY <3>2, <3>3, <3>4 DEF IInv, Filled
      <3>6. mined[2 * h] # Nil BY <3>3, <3>5
      <3>. QED BY <1>7, <2>2, <3>6, ParentOf
    <2>3. CASE p # Width + h
      <3>1. 2 * (Width - 2 * w + j) < i
        <4>1. Width - 2 * w + j < h + 1 /\ Width - 2 * w + j # h
          BY <1>1, <1>4, <1>5, <2>1, <2>3
        <4>. QED BY <1>4, <1>5, <2>1, <4>1
      <3>2. mined[p] # Nil BY <3>1 DEF IInv, Filled
      <3>. QED BY <1>7, <2>1, <2>3, <3>2
    <2>. QED BY <2>2, <2>3
  <1>14. mined'[0] = mined[0]
    <2>1. 0 \in 0..2 * Width - 2 /\ 0 # Width + h BY <1>4, <1>5
    <2>. QED BY <1>7, <2>1
  <1>15. OwnCoinbase'
    BY <1>2, <1>14 DEF IInv, OwnCoinbase, MinersCoinbase
  <1>16. k = 2 * JobWidth - 1 BY <1>1, <1>4, <1>5 DEF IInv, Built
  <1>17. Climbed'
    <2>1. PICK w \in PowersOfTwo :
            /\ w <= JobWidth /\ k = 2 * w - 1
            /\ split /\ caller # "handleMessage" => root = mined[2 * Width - 2 * w]
      BY DEF IInv, Climbed
    <2>2. w = JobWidth BY <1>4, <1>16, <2>1, PowersAssumption
    <2>3. caller # "handleMessage" => 2 * Width - 2 * w = 0
      BY <1>4, <2>2
    <2>4. split' /\ caller' # "handleMessage"
            => root' = mined'[2 * Width' - 2 * w]
      BY <1>1, <1>2, <1>14, <2>1, <2>3
    <2>. QED BY <1>1, <1>2, <2>1, <2>4 DEF Climbed
  <1>18. CoinbaseRebuilt'
    BY <1>2, <1>3, Zenon DEF IInv, CoinbaseRebuilt, Assembled
  <1>19. (k = 2 * JobWidth - 1 \/ Built)' BY <1>1, <1>2, <1>16
  <1>. QED
    BY <1>9, <1>10, <1>11, <1>12, <1>13, <1>15, <1>17, <1>18, <1>19 DEF IInv

LEMMA Invariance == Spec => []IInv
  <1>1. IInv /\ [Next]_vars => IInv'
    <2>. SUFFICES ASSUME IInv, [Next]_vars PROVE IInv' OBVIOUS
    <2>1. CASE SplitCoinbase BY <2>1, SplitStep
    <2>2. CASE BuildMerkleTreeStore BY <2>2, BuildStep
    <2>3. CASE MerkleTreeBranch BY <2>3, BranchStep
    <2>4. CASE UNCHANGED vars
      <3>1. /\ UNCHANGED inputs /\ UNCHANGED parts /\ UNCHANGED treeVars
            /\ k' = k /\ root' = root
        BY <2>4 DEF vars
      <3>2. /\ caller' = caller /\ ntxs' = ntxs
            /\ height' = height /\ nonce' = nonce
            /\ JobTxs' = JobTxs /\ JobWidth' = JobWidth /\ Width' = Width
        BY <3>1, Kept
      <3>3. /\ store' = store /\ mined' = mined /\ i' = i
            /\ split' = split /\ coinb1' = coinb1 /\ coinb2' = coinb2
        BY <3>1 DEF treeVars, parts
      <3>4. TypeOK' BY <3>1, <3>2, <3>3 DEF IInv, TypeOK
      <3>5. Even' /\ Agree' /\ JoinedSoFar' /\ Filled' /\ OwnCoinbase'
        <4>1. Even /\ Agree /\ JoinedSoFar /\ Filled /\ OwnCoinbase BY DEF IInv
        <4>2. UNCHANGED inputs /\ UNCHANGED treeVars BY <3>1
        <4>. QED BY <4>1, <4>2, TreesKept
      <3>6. Climbed' BY <3>1, <3>2, <3>3 DEF IInv, Climbed
      <3>7. (k = 2 * JobWidth - 1 \/ Built)'
        BY <3>1, <3>2, <3>3 DEF IInv, Built
      <3>8. CoinbaseRebuilt'
        BY <3>2, <3>3, Zenon DEF IInv, CoinbaseRebuilt, Assembled
      <3>. QED BY <3>4, <3>5, <3>6, <3>7, <3>8 DEF IInv
    <2>5. CASE Terminated BY <2>4, <2>5 DEF Terminated
    <2>. QED BY <2>1, <2>2, <2>3, <2>4, <2>5 DEF Next
  <1>. QED BY <1>1, InitInvariant, PTL DEF Spec

(* The types of MiningJob: no index of the two loops leaves its array.     *)
THEOREM TypeCorrect == Spec => []TypeOK
  <1>1. IInv => TypeOK BY DEF IInv
  <1>. QED BY <1>1, Invariance, PTL

(* SplitCoinbase: a miner that puts its nonces between the halves of a     *)
(* coinbase of the assumed shape gets that coinbase with the nonces in     *)
(* place of the old one, but for the length of the script when the old     *)
(* one had not 8 bytes.                                                    *)
THEOREM CoinbaseIsRebuilt == Spec => []CoinbaseRebuilt
  <1>1. IInv => CoinbaseRebuilt BY DEF IInv
  <1>. QED BY <1>1, Invariance, PTL

(* MerkleTreeBranch: with the branch of conn.serve or main3.go a miner     *)
(* finds the root of the block with its own coinbase, whatever the number  *)
(* of transactions.                                                        *)
THEOREM JobIsSolvable == Spec => []JobSolvable
  <1>1. IInv => JobSolvable
    <2>. SUFFICES ASSUME IInv, Solved, caller # "handleMessage"
                  PROVE  root = MinedRoot
      BY DEF JobSolvable
    <2>1. PICK w \in PowersOfTwo :
            /\ w <= JobWidth /\ k = 2 * w - 1
            /\ split /\ caller # "handleMessage" => root = mined[2 * Width - 2 * w]
      BY DEF IInv, Climbed
    <2>2. split /\ w = 1
      BY <2>1, PowersAssumption DEF Solved, Built
    <2>3. 2 * Width - 2 * w = 2 * Width - 2 BY <2>2
    <2>. QED BY <2>1, <2>2, <2>3 DEF MinedRoot
  <1>. QED BY <1>1, Invariance, PTL

-----------------------------------------------------------------------------
(* The job of HandleMessage.  Its tree begins with the first transaction   *)
(* after the coinbase, so that the first step of the branch is the second. *)
Handled == caller = "handleMessage"

JobFilled ==
  \A w \in PowersOfTwo : \A j \in 0..w - 1 :
    /\ w <= JobWidth /\ j * JobWidth < JobTxs * w
    /\ 2 * (JobWidth - 2 * w + j) < i
    => store[2 * JobWidth - 2 * w + j] # Nil

FirstBrothers ==
  /\ Handled /\ JobWidth > 1 => store[1] = OwnTxid(2)
  /\ Handled => mined[1] = OwnTxid(1)

FirstRoot == split /\ k = 2 * JobWidth - 1 => root = Txid(Assembled)

(* Below the top of its own tree the miner never has the node of the block *)
(* on the level it has reached.                                            *)
Elsewhere ==
  \E w \in PowersOfTwo :
    /\ w <= JobWidth /\ k = 2 * w - 1
    /\ w < Width => root # mined[2 * Width - 2 * w]

Astray == Handled /\ k < 2 * JobWidth - 1 => Elsewhere

AstrayInv == JobFilled /\ FirstBrothers /\ FirstRoot /\ Astray

(* Terms are equal when they are made of the same things.                  *)
LEMMA Terms ==
  /\ \A l, r, raw : Hash(l, r) # Txid(raw)
  /\ \A raw : Txid(raw) # Nil
  /\ \A a, b, c, d : Hash(a, b) = Hash(c, d) => a = c /\ b = d
  /\ \A j : OwnTxid(j) # Nil
  /\ OwnTxid(1) # OwnTxid(2)
  BY DEF Hash, Txid, Nil, OwnTxid

(* A step of the miner that differs from the block's leads to another node. *)
LEMMA StepsDiffer ==
  \A a, b, l, r :
    /\ b # Nil
    /\ \/ a # l /\ r # Nil
       \/ r # Nil /\ b # r
    => Hash(a, b) # Parent(l, r)
  BY Terms DEF Parent, Hash, Nil

(* The job's tree has as many levels as the block's, or one less.          *)
LEMMA HandledWidths ==
  ASSUME TypeOK
  PROVE  /\ JobTxs \in Nat \ {0} /\ JobTxs <= JobWidth /\ JobWidth < 2 * JobTxs
         /\ JobWidth <= Width
         /\ Handled => /\ JobTxs = ntxs - 1 /\ Width > 1
                       /\ JobWidth = Width \/ 2 * JobWidth = Width
  <1>1. /\ Width \in PowersOfTwo /\ Width \in Nat \ {0}
        /\ ntxs \in Nat \ {0} /\ ntxs <= Width /\ Width < 2 * ntxs
        /\ JobWidth \in PowersOfTwo /\ JobWidth \in Nat \ {0}
        /\ caller # "handleMessage" => JobWidth = Width
    BY Widths
  <1>2. JobTxs \in 1..MaxTxs /\ MaxTxs \in Nat BY TxsAssumption DEF TypeOK
  <1>3. JobTxs \in Nat \ {0} /\ JobTxs <= JobWidth /\ JobWidth < 2 * JobTxs
    BY <1>2, WidthOf DEF JobWidth
  <1>4. JobWidth < Width => 2 * JobWidth \in PowersOfTwo /\ 2 * JobWidth <= Width
    BY <1>1, PowersAssumption
  <1>5. Width < JobWidth => 2 * Width <= JobWidth
    BY <1>1, PowersAssumption
  <1>6. 2 * JobWidth < Width /\ 2 * JobWidth \in PowersOfTwo
          => 2 * (2 * JobWidth) <= Width
    BY <1>1, PowersAssumption
  <1>7. Handled => JobTxs = ntxs - 1 BY DEF Handled, JobTxs
  <1>8. CASE Handled BY <1>1, <1>3, <1>4, <1>5, <1>6, <1>7, <1>8
  <1>9. CASE ~Handled BY <1>1, <1>3, <1>9 DEF Handled
  <1>. QED BY <1>8, <1>9

LEMMA AstrayInit == Init => AstrayInv
  <1>. SUFFICES ASSUME Init PROVE AstrayInv OBVIOUS
  <1>1. TypeOK BY InitInvariant DEF IInv
  <1>2. /\ Width \in Nat \ {0} /\ ntxs \in Nat \ {0} /\ ntxs <= Width
        /\ JobWidth \in PowersOfTwo /\ JobWidth \in Nat \ {0}
    BY <1>1, Widths
  <1>3. /\ JobTxs \in Nat \ {0} /\ JobTxs <= JobWidth /\ JobWidth < 2 * JobTxs
        /\ Handled => JobTxs = ntxs - 1
    BY <1>1, HandledWidths
  <1>4. /\ \A p \in 0..2 * JobWidth - 2 :
             store[p] = IF p < JobTxs THEN JobLeaf(p) ELSE Nil
        /\ \A p \in 0..2 * Width - 2 :
             mined[p] = IF p < ntxs THEN MinedLeaf(p) ELSE Nil
        /\ ~split /\ i = 0
    BY DEF Init, Leaves, JobWidth, Width
  <1>5. JobFilled
    <2>. SUFFICES ASSUME NEW w \in PowersOfTwo, NEW j \in 0..w - 1,
                         w <= JobWidth, j * JobWidth < JobTxs * w,
                         2 * (JobWidth - 2 * w + j) < 0
                  PROVE  store[2 * JobWidth - 2 * w + j] # Nil
      BY <1>4 DEF JobFilled
    <2>1. w \in Nat \ {0} BY PowersAssumption
    <2>2. w = JobWidth
      <3>1. w < JobWidth => 2 * w <= JobWidth BY <1>2, PowersAssumption
      <3>. QED BY <1>2, <2>1, <3>1
    <2>3. j < JobTxs BY <1>2, <1>3, <2>2, Products
    <2>4. 2 * JobWidth - 2 * w + j = j /\ j \in 0..2 * JobWidth - 2
      BY <1>2, <2>2
    <2>5. store[j] = JobLeaf(j) BY <1>4, <2>3, <2>4
    <2>6. JobLeaf(j) # Nil BY Terms DEF JobLeaf
    <2>. QED BY <2>4, <2>5, <2>6
  <1>6. FirstBrothers
    <2>1. ASSUME Handled, JobWidth > 1 PROVE store[1] = OwnTxid(2)
      <3>1. 1 \in 0..2 * JobWidth - 2 /\ 1 < JobTxs BY <1>2, <1>3, <2>1
      <3>2. 1 + ntxs - JobTxs = 2 BY <1>2, <1>3, <2>1
      <3>. QED BY <1>4, <3>1, <3>2 DEF JobLeaf
    <2>2. ASSUME Handled PROVE mined[1] = OwnTxid(1)
      <3>1. 1 \in 0..2 * Width - 2 /\ 1 < ntxs BY <1>2, <1>3, <2>2
      <3>. QED BY <1>4, <3>1 DEF MinedLeaf
    <2>. QED BY <2>1, <2>2 DEF FirstBrothers
  <1>7. FirstRoot /\ Astray BY <1>2, <1>4 DEF Init, FirstRoot, Astray
  <1>. QED BY <1>5, <1>6, <1>7 DEF AstrayInv

(* What the branch is followed with, when the trees are built.             *)
LEMMA AstrayOnceBuilt ==
  ASSUME IInv, AstrayInv, Handled, Built
  PROVE  Elsewhere
  <1>1. /\ JobWidth \in PowersOfTwo /\ JobWidth \in Nat \ {0}
        /\ Width \in Nat \ {0}
    BY Widths DEF IInv
  <1>2. JobWidth = Width \/ 2 * JobWidth = Width
    BY HandledWidths DEF IInv
  <1>3. ASSUME JobWidth < Width, k = 2 * JobWidth - 1
        PROVE  root # mined[2 * Width - 2 * JobWidth]
    <2>1. 2 * Width - 2 * JobWidth = Width + 0 /\ 2 * 0 < i /\ 0 \in 0..Width - 2
      BY <1>1, <1>2, <1>3 DEF Built
    <2>2. mined[Width + 0] = Parent(mined[2 * 0], mined[2 * 0 + 1])
      BY <2>1 DEF IInv, JoinedSoFar
    <2>4. root = Txid(Assembled) BY <1>3 DEF AstrayInv, FirstRoot, Built
    <2>. QED BY <2>1, <2>2, <2>4, Terms DEF Parent
  <1>4. CASE k = 2 * JobWidth - 1
    <2>1. JobWidth <= JobWidth BY <1>1
    <2>. QED BY <1>1, <1>3, <1>4, <2>1 DEF Elsewhere
  <1>5. CASE k # 2 * JobWidth - 1
    <2>1. k \in 1..2 * JobWidth - 1 BY DEF IInv, TypeOK
    <2>2. k < 2 * JobWidth - 1 BY <1>1, <1>5, <2>1
    <2>. QED BY <2>2 DEF AstrayInv, Astray
  <1>. QED BY <1>4, <1>5

LEMMA AstraySplit ==
  ASSUME IInv, AstrayInv, SplitCoinbase
  PROVE  AstrayInv'
  <1>1. /\ split' /\ k' = k /\ root' = Txid(Assembled')
        /\ UNCHANGED inputs /\ UNCHANGED treeVars
    BY DEF SplitCoinbase
  <1>2. /\ caller' = caller /\ ntxs' = ntxs
        /\ JobTxs' = JobTxs /\ JobWidth' = JobWidth /\ Width' = Width
    BY <1>1, Kept
  <1>3. store' = store /\ mined' = mined /\ i' = i BY <1>1 DEF treeVars
  <1>4. ~split /\ k = 2 * JobWidth - 1
    BY DEF SplitCoinbase, IInv, Built
  <1>5. JobFilled' BY <1>2, <1>3 DEF AstrayInv, JobFilled
  <1>6. FirstBrothers' BY <1>2, <1>3 DEF AstrayInv, FirstBrothers, Handled
  <1>7. FirstRoot' BY <1>1 DEF FirstRoot
  <1>8. Astray' BY <1>1, <1>2, <1>4 DEF Astray
  <1>. QED BY <1>5, <1>6, <1>7, <1>8 DEF AstrayInv

LEMMA AstrayBuild ==
  ASSUME IInv, AstrayInv, BuildMerkleTreeStore
  PROVE  AstrayInv'
  <1>1. /\ split /\ i < 2 * Width - 2 /\ i' = i + 2
        /\ mined' = Joined(mined, Width, i)
        /\ store' = IF i < 2 * JobWidth - 2 THEN Joined(store, JobWidth, i)
                    ELSE store
        /\ UNCHANGED inputs /\ UNCHANGED parts /\ k' = k /\ root' = root
    BY DEF BuildMerkleTreeStore
  <1>2. /\ caller' = caller /\ ntxs' = ntxs
        /\ JobTxs' = JobTxs /\ JobWidth' = JobWidth /\ Width' = Width
    BY <1>1, Kept
  <1>3. /\ Width \in Nat \ {0} /\ JobWidth \in PowersOfTwo
        /\ JobWidth \in Nat \ {0} /\ ntxs \in Nat
        /\ JobTxs \in Nat \ {0} /\ JobWidth <= Width
    BY Widths, HandledWidths DEF IInv
  <1>4. PICK h \in 0..Width - 2 : i = 2 * h
    <2>1. PICK x \in 0..Width - 1 : i = 2 * x BY DEF IInv, Even
    <2>2. x \in 0..Width - 2 BY <1>1, <1>3, <2>1
    <2>. QED BY <2>1, <2>2
  <1>5. DOMAIN store = 0..2 * JobWidth - 2 /\ DOMAIN mined = 0..2 * Width - 2
    BY DEF IInv, TypeOK
  <1>6. \A p \in 0..2 * Width - 2 : p # Width + h => mined'[p] = mined[p]
    BY <1>1, <1>3, <1>4, <1>5, JoinedAt
  <1>7. ASSUME h \in 0..JobWidth - 2
        PROVE  /\ store'[JobWidth + h] = Parent(store[2 * h], store[2 * h + 1])
               /\ \A p \in 0..2 * JobWidth - 2 :
                    p # JobWidth + h => store'[p] = store[p]
    <2>1. store' = Joined(store, JobWidth, 2 * h) BY <1>1, <1>3, <1>4, <1>7
    <2>. QED BY <1>3, <1>5, <1>7, <2>1, JoinedAt
  <1>8. h \notin 0..JobWidth - 2 => store' = store BY <1>1, <1>3, <1>4
  <1>9. JobFilled'
    <2>. SUFFICES ASSUME NEW w \in PowersOfTwo, NEW j \in 0..w - 1,
                         w <= JobWidth, j * JobWidth < JobTxs * w,
                         2 * (JobWidth - 2 * w + j) < i'
                  PROVE  store'[2 * JobWidth - 2 * w + j] # Nil
      BY <1>2 DEF JobFilled
    <2>. DEFINE p == 2 * JobWidth - 2 * w + j
    <2>1. w \in Nat \ {0} /\ p \in 0..2 * JobWidth - 2
      BY <1>3, PowersAssumption
    <2>2. CASE p = JobWidth + h
      <3>1. w # JobWidth BY <1>3, <1>4, <2>2
      <3>2. 2 * w \in PowersOfTwo /\ 2 * w <= JobWidth
        BY <1>3, <2>1, <3>1, PowersAssumption
      <3>3. /\ 2 * j \in 0..2 * w - 1
            /\ 2 * JobWidth - 2 * (2 * w) + 2 * j = 2 * h
            /\ 2 * (JobWidth - 2 * (2 * w) + 2 * j) < i
            /\ h \in 0..JobWidth - 2
        BY <1>3, <1>4, <2>1, <2>2
      <3>4. (2 * j) * JobWidth < JobTxs * (2 * w)
        BY <1>3, <2>1, Products
      <3>5. store[2 * JobWidth - 2 * (2 * w) + 2 * j] # Nil
        BY <3>2, <3>3, <3>4 DEF AstrayInv, JobFilled
      <3>6. store[2 * h] # Nil BY <3>3, <3>5
      <3>. QED BY <1>7, <2>2, <3>3, <3>6, ParentOf
    <2>3. CASE p # JobWidth + h
      <3>1. 2 * (JobWidth - 2 * w + j) < i
        <4>1. JobWidth - 2 * w + j < h + 1 /\ JobWidth - 2 * w + j # h
          BY <1>1, <1>3, <1>4, <2>1, <2>3
        <4>. QED BY <1>3, <1>4, <2>1, <4>1
      <3>2. store[p] # Nil BY <3>1 DEF AstrayInv, JobFilled
      <3>. QED BY <1>7, <1>8, <2>1, <2>3, <3>2
    <2>. QED BY <2>2, <2>3
  <1>10. FirstBrothers'
    <2>1. ASSUME Handled, JobWidth > 1 PROVE store'[1] = OwnTxid(2)
      <3>1. store[1] = OwnTxid(2) BY <2>1 DEF AstrayInv, FirstBrothers
      <3>2. 1 \in 0..2 * JobWidth - 2 /\ 1 # JobWidth + h BY <1>3, <2>1
      <3>. QED BY <1>7, <1>8, <3>1, <3>2
    <2>2. ASSUME Handled PROVE mined'[1] = OwnTxid(1)
      <3>1. mined[1] = OwnTxid(1) BY <2>2 DEF AstrayInv, FirstBrothers
      <3>2. Width > 1 BY <2>2, HandledWidths DEF IInv
      <3>3. 1 \in 0..2 * Width - 2 /\ 1 # Width + h BY <1>3, <3>2
      <3>. QED BY <1>6, <3>1, <3>3
    <2>. QED BY <1>2, <2>1, <2>2 DEF FirstBrothers, Handled
  <1>11. FirstRoot'
    <2>1. coinb1' = coinb1 /\ coinb2' = coinb2 /\ split' = split
      BY <1>1 DEF parts
    <2>2. Assembled' = Assembled BY <2>1 DEF Assembled
    <2>. QED BY <1>1, <1>2, <2>1, <2>2 DEF AstrayInv, FirstRoot
  <1>12. Astray'
    <2>1. k = 2 * JobWidth - 1 BY <1>1, <1>3, <1>4 DEF IInv, Built
    <2>. QED BY <1>1, <1>2, <1>3, <2>1 DEF Astray
  <1>. QED BY <1>9, <1>10, <1>11, <1>12 DEF AstrayInv

LEMMA AstrayBranch ==
  ASSUME IInv, AstrayInv, MerkleTreeBranch
  PROVE  AstrayInv'
  <1>1. /\ Built /\ k > 1 /\ k' = Shorter
        /\ root' = IF Sibling = Nil THEN root ELSE Hash(root, Sibling)
        /\ UNCHANGED inputs /\ UNCHANGED parts /\ UNCHANGED treeVars
    BY DEF MerkleTreeBranch
  <1>2. /\ caller' = caller /\ ntxs' = ntxs
        /\ JobTxs' = JobTxs /\ JobWidth' = JobWidth /\ Width' = Width
    BY <1>1, Kept
  <1>3. store' = store /\ mined' = mined /\ i' = i BY <1>1 DEF treeVars
  <1>4. /\ Width \in PowersOfTwo /\ Width \in Nat \ {0}
        /\ ntxs \in Nat \ {0} /\ ntxs <= Width /\ Width < 2 * ntxs
        /\ JobWidth \in PowersOfTwo /\ JobWidth \in Nat \ {0}
        /\ JobTxs \in Nat \ {0} /\ JobTxs <= JobWidth /\ JobWidth < 2 * JobTxs
        /\ JobWidth <= Width
    BY Widths, HandledWidths DEF IInv
  <1>5. k' < 2 * JobWidth - 1
    <2>1. k \in 1..2 * JobWidth - 1 /\ k > 1 BY <1>1 DEF IInv, TypeOK
    <2>2. (k - 1) \div 2 < k BY <2>1, Z3
    <2>. QED BY <1>1, <1>4, <2>1, <2>2 DEF Shorter
  <1>6. JobFilled' BY <1>2, <1>3 DEF AstrayInv, JobFilled
  <1>7. FirstBrothers' BY <1>2, <1>3 DEF AstrayInv, FirstBrothers, Handled
  <1>8. FirstRoot' BY <1>2, <1>4, <1>5 DEF FirstRoot
  <1>9. ASSUME Handled PROVE Elsewhere'
    <2>1. PICK w \in PowersOfTwo :
            /\ w <= JobWidth /\ k = 2 * w - 1
            /\ w < Width => root # mined[2 * Width - 2 * w]
      BY <1>1, <1>9, AstrayOnceBuilt DEF Elsewhere
    <2>2. PICK v \in PowersOfTwo : w = 2 * v /\ v \in Nat \ {0}
      <3>1. w \in Nat \ {0} /\ w # 1 BY <1>1, <2>1, PowersAssumption
      <3>2. w % 2 = 0 /\ w \div 2 \in PowersOfTwo BY <3>1, PowersAssumption
      <3>3. w = 2 * (w \div 2) /\ w \div 2 \in Nat \ {0}
        BY <3>1, <3>2, PowersAssumption, Z3
      <3>. QED BY <3>2, <3>3
    <2>3. k' = 2 * v - 1
      <3>1. k - 1 = 2 * (2 * v - 1) BY <2>1, <2>2
      <3>2. (2 * (2 * v - 1)) \div 2 = 2 * v - 1 BY <2>2, Z3
      <3>. QED BY <1>1, <3>1, <3>2 DEF Shorter
    <2>. DEFINE q == Width - w
                r == JobWidth - w
    <2>4. /\ q \in 0..Width - 2 /\ r \in 0..JobWidth - 2
          /\ 2 * q = 2 * Width - 2 * w /\ 2 * Width - 2 * v = Width + q
          /\ 2 * q < i
      BY <1>1, <1>4, <2>1, <2>2 DEF Built
    <2>5. Sibling = store[2 * r + 1]
      <3>1. 2 * JobWidth - 1 - k + 1 = 2 * r + 1
        BY <1>4, <2>1, <2>2, <2>4
      <3>. QED BY <3>1 DEF Sibling
    <2>6. Sibling # Nil
      <3>1. w \in Nat /\ 1 \in 0..w - 1 BY <2>2
      <3>2. 1 * JobWidth < JobTxs * w
        <4>1. JobTxs * w = 2 * (JobTxs * v) /\ JobTxs * v >= JobTxs
          BY <1>4, <2>2, Z3
        <4>2. JobTxs * v \in Nat BY <1>4, <2>2, Z3
        <4>. QED BY <1>4, <4>1, <4>2
      <3>3. 2 * (JobWidth - 2 * w + 1) < i
        BY <1>1, <1>4, <2>1, <2>2 DEF Built
      <3>4. store[2 * JobWidth - 2 * w + 1] # Nil
        BY <2>1, <3>1, <3>2, <3>3 DEF AstrayInv, JobFilled
      <3>5. 2 * JobWidth - 2 * w + 1 = 2 * r + 1 BY <1>4, <2>2
      <3>. QED BY <2>5, <3>4, <3>5
    <2>7. root' = Hash(root, Sibling) BY <1>1, <2>6
    <2>8. mined[2 * Width - 2 * v] = Parent(mined[2 * q], mined[2 * q + 1])
      BY <2>4 DEF IInv, JoinedSoFar
    <2>9. root' # Parent(mined[2 * q], mined[2 * q + 1])
      <3>1. CASE w = Width
        <4>1. /\ JobWidth = Width /\ 2 * r + 1 = 1 /\ 2 * q + 1 = 1
              /\ JobWidth > 1
          BY <1>4, <2>1, <2>2, <3>1
        <4>2. Sibling = OwnTxid(2) /\ mined[2 * q + 1] = OwnTxid(1)
          BY <1>9, <2>5, <4>1 DEF AstrayInv, FirstBrothers
        <4>. QED BY <2>6, <2>7, <4>2, Terms, StepsDiffer
      <3>2. CASE w # Width
        <4>1. w < Width BY <1>4, <2>1, <2>2, <3>2
        <4>2. root # mined[2 * q] BY <2>1, <2>4, <4>1
        <4>3. mined[2 * q + 1] # Nil
          <5>1. w \in Nat /\ 1 \in 0..w - 1 BY <2>2
          <5>2. 1 * Width < ntxs * w
            <6>1. ntxs * w = 2 * (ntxs * v) /\ ntxs * v >= ntxs
              BY <1>4, <2>2, Z3
            <6>2. ntxs * v \in Nat BY <1>4, <2>2, Z3
            <6>. QED BY <1>4, <6>1, <6>2
          <5>3. 2 * (Width - 2 * w + 1) < i
            BY <1>1, <1>4, <2>1, <2>2 DEF Built
          <5>4. mined[2 * Width - 2 * w + 1] # Nil
            BY <1>4, <2>1, <5>1, <5>2, <5>3 DEF IInv, Filled
          <5>5. 2 * Width - 2 * w + 1 = 2 * q + 1 BY <1>4, <2>2
          <5>. QED BY <5>4, <5>5
        <4>. QED BY <2>6, <2>7, <4>2, <4>3, StepsDiffer
      <3>. QED BY <3>1, <3>2
    <2>10. root' # mined'[2 * Width' - 2 * v] BY <1>2, <1>3, <2>8, <2>9
    <2>11. v <= JobWidth' BY <1>2, <1>4, <2>1, <2>2
    <2>. QED BY <2>2, <2>3, <2>10, <2>11 DEF Elsewhere
  <1>10. Astray' BY <1>2, <1>9 DEF Astray, Handled
  <1>. QED BY <1>6, <1>7, <1>8, <1>10 DEF AstrayInv

(* HandleMessage (client.go): with the branch of its job a miner never     *)
(* finds the root of the block, whatever the number of transactions and    *)
(* whatever the extra nonce of the coinbase.                               *)
JobMisses == Solved /\ Handled => root # MinedRoot

(* So the comment at Job.merkleBranch is wrong of every job of             *)
(* HandleMessage, and not of some.                                         *)
THEOREM HandledJobMisses == Spec => []JobMisses
  <1>1. IInv /\ AstrayInv /\ [Next]_vars => AstrayInv'
    <2>. SUFFICES ASSUME IInv, AstrayInv, [Next]_vars PROVE AstrayInv'
      OBVIOUS
    <2>1. CASE SplitCoinbase BY <2>1, AstraySplit
    <2>2. CASE BuildMerkleTreeStore BY <2>2, AstrayBuild
    <2>3. CASE MerkleTreeBranch BY <2>3, AstrayBranch
    <2>4. CASE UNCHANGED vars
      <3>1. /\ UNCHANGED inputs /\ UNCHANGED parts /\ UNCHANGED treeVars
            /\ k' = k /\ root' = root
        BY <2>4 DEF vars
      <3>2. /\ caller' = caller
            /\ JobTxs' = JobTxs /\ JobWidth' = JobWidth /\ Width' = Width
        BY <3>1, Kept
      <3>3. /\ store' = store /\ mined' = mined /\ i' = i
            /\ split' = split /\ coinb1' = coinb1 /\ coinb2' = coinb2
        BY <3>1 DEF treeVars, parts
      <3>4. JobFilled' BY <3>2, <3>3 DEF AstrayInv, JobFilled
      <3>5. FirstBrothers' BY <3>2, <3>3 DEF AstrayInv, FirstBrothers, Handled
      <3>6. FirstRoot' BY <3>1, <3>2, <3>3 DEF AstrayInv, FirstRoot, Assembled
      <3>7. Astray'
        BY <3>1, <3>2, <3>3 DEF AstrayInv, Astray, Elsewhere, Handled
      <3>. QED BY <3>4, <3>5, <3>6, <3>7 DEF AstrayInv
    <2>5. CASE Terminated BY <2>4, <2>5 DEF Terminated
    <2>. QED BY <2>1, <2>2, <2>3, <2>4, <2>5 DEF Next
  <1>2. IInv /\ AstrayInv => JobMisses
    <2>. SUFFICES ASSUME IInv, AstrayInv, Solved, Handled
                  PROVE  root # MinedRoot
      BY DEF JobMisses
    <2>1. Built /\ k <= 1 BY DEF Solved
    <2>2. PICK w \in PowersOfTwo :
            /\ w <= JobWidth /\ k = 2 * w - 1
            /\ w < Width => root # mined[2 * Width - 2 * w]
      BY <2>1, AstrayOnceBuilt DEF Elsewhere
    <2>3. w = 1 BY <2>1, <2>2, PowersAssumption
    <2>4. Width > 1 BY HandledWidths DEF IInv
    <2>5. 2 * Width - 2 * w = 2 * Width - 2 BY <2>3
    <2>. QED BY <2>2, <2>3, <2>4, <2>5 DEF MinedRoot
  <1>. QED BY <1>1, <1>2, AstrayInit, Invariance, PTL DEF Spec
=============================================================================
