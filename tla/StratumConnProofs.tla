-------------------------- MODULE StratumConnProofs --------------------------
(***************************************************************************)
(* Proofs about StratumConn, for any set of connections and buffers and    *)
(* any number of requests.  Each part of IInv is kept by a lemma of its    *)
(* own.  The steps of a session are grouped by what they touch: the pools  *)
(* (GetReader, GetWriter, PutReader, PutWriter), the Writer (the steps     *)
(* that send) and the session alone (all the others).                      *)
(***************************************************************************)
EXTENDS StratumConn, TLAPS

-----------------------------------------------------------------------------
(* The inductive invariant behind BuffersExclusive, BuffersClean and       *)
(* LostMessageEndsConn.                                                    *)

BuffersMade ==
  /\ \A r \in Readers \ rmade : rpool[r] = 0
  /\ \A w \in Writers \ wmade : wpool[w] = 0
  /\ \A c \in Conns : /\ bufr[c] # None => bufr[c] \in rmade
                      /\ bufw[c] # None => bufw[c] \in wmade

SessionInv ==
  \A c \in Conns :
    /\ pc[c] = "start" => bufr[c] = None
    /\ pc[c] \in {"start", "getWriter"} => bufw[c] = None /\ ~werr[c]
    /\ pc[c] \in Serving \cup {"getWriter"} => bufr[c] # None
    /\ pc[c] \in Serving => bufw[c] # None
    /\ bufw[c] # None /\ werr[c] => sticky[bufw[c]]
    /\ pc[c] \in {"read", "dispatch", "auth"} => ~sticky[bufw[c]]
    /\ pc[c] = "dispatch" => requests[c] # <<>>
    /\ pc[c] \in {"auth", "difficulty", "job", "reply"} =>
         resp[c] \in Responses

IInv == TypeOK /\ BuffersExclusive /\ BuffersClean /\ BuffersMade /\ SessionInv

-----------------------------------------------------------------------------
LEMMA InitEstablishesIInv ==
  ASSUME Init
  PROVE  IInv
  <1>1. ReaderTypeOK BY DEF Init, ReaderTypeOK
  <1>2. WriterTypeOK BY DEF Init, WriterTypeOK
  <1>3. SessionTypeOK
    <2>1. /\ wire \in [Conns -> Seq(Messages)]
          /\ requests \in [Conns -> Seq(Methods)]
      BY DEF Init
    <2>2. \A c \in Conns : Len(requests[c]) <= MaxRequests
      BY RequestsAssumption DEF Init
    <2>. QED BY <2>1, <2>2 DEF Init, SessionTypeOK, Labels
  <1>4. BuffersExclusive BY DEF Init, BuffersExclusive
  <1>5. BuffersClean BY NoneAssumption DEF Init, BuffersClean
  <1>6. BuffersMade BY NoneAssumption DEF Init, BuffersMade
  <1>7. SessionInv BY DEF Init, SessionInv, Serving
  <1>. QED BY <1>1, <1>2, <1>3, <1>4, <1>5, <1>6, <1>7 DEF IInv, TypeOK

-----------------------------------------------------------------------------
(* The steps of a connection, by what they touch.                          *)

Plain(c) ==
  \/ HandshakeFails(c) \/ ReadMalformed(c) \/ ReadFails(c)
  \/ HandleSubscribe(c) \/ HandleAuthorize(c) \/ HandleUnknown(c)
  \/ Recover(c) \/ HandleSubmit(c) \/ CloseSocket(c)
  \/ \E m \in Methods : ReadMessage(c, m)

Sends(c) ==
  SendAuthorize(c) \/ SendDifficulty(c) \/ SendJob(c) \/ SendReply(c)

LEMMA PlainTouchesNoBuffer ==
  ASSUME NEW c \in Conns, Plain(c)
  PROVE  UNCHANGED <<rVars, wVars, werr>>
  BY DEF Plain, HandshakeFails, ReadMalformed, ReadFails, HandleSubscribe,
         HandleAuthorize, HandleUnknown, Recover, HandleSubmit, CloseSocket,
         ReadMessage, sendVars

(* Sending leaves the pools alone; it may make the Writer fail, for good.  *)
LEMMA SendsTouchTheWriter ==
  ASSUME NEW c \in Conns, Sends(c)
  PROVE  /\ UNCHANGED <<rVars, wpool, wmade, wdst, bufw, workVars, crashed>>
         /\ sticky' \in {sticky, [sticky EXCEPT ![bufw[c]] = TRUE]}
         /\ pc[c] \in {"auth", "difficulty", "job", "reply"}
  BY DEF Sends, SendAuthorize, SendDifficulty, SendJob, SendReply, Sent,
         NotSent, sendUnchanged, At

LEMMA StepsOfNext ==
  ASSUME Next
  PROVE  \/ \E c \in Conns : \/ GetReader(c) \/ GetWriter(c) \/ PutReader(c)
                            \/ PutWriter(c) \/ Plain(c) \/ Sends(c)
         \/ UNCHANGED vars
  BY DEF Next, ConnStep, Plain, Sends, Terminated

-----------------------------------------------------------------------------
(* Type correctness.                                                       *)

LEMMA WireTyped ==
  ASSUME TypeOK, NEW c \in Conns, NEW m \in Messages, bufw[c] # None,
         Sent(c, m) \/ NotSent(c)
  PROVE  /\ wire' \in [Conns -> Seq(Messages)]
         /\ sticky' \in [Writers -> BOOLEAN]
         /\ werr' \in [Conns -> BOOLEAN]
  <1>. DEFINE w == bufw[c]
  <1>a. /\ w \in Writers /\ wdst[w] \in Conns \cup {None}
        /\ sticky \in [Writers -> BOOLEAN] /\ werr \in [Conns -> BOOLEAN]
        /\ wire \in [Conns -> Seq(Messages)]
    BY DEF TypeOK, WriterTypeOK, SessionTypeOK
  <1>1. CASE Sent(c, m)
    <2>1. wdst[w] \in Conns BY <1>a, <1>1 DEF Sent
    <2>2. Append(wire[wdst[w]], m) \in Seq(Messages) BY <1>a, <2>1
    <2>3. wire' \in [Conns -> Seq(Messages)]
      BY <1>a, <1>1, <2>1, <2>2 DEF Sent
    <2>. QED BY <1>a, <1>1, <2>3 DEF Sent
  <1>2. CASE NotSent(c) BY <1>a, <1>2 DEF NotSent
  <1>. QED BY <1>1, <1>2

LEMMA TypeOKPreserved ==
  ASSUME IInv, [Next]_vars
  PROVE  TypeOK'
  <1>. USE DEF IInv, TypeOK
  <1>a. UNCHANGED rVars => ReaderTypeOK' BY DEF ReaderTypeOK, rVars
  <1>b. UNCHANGED wVars => WriterTypeOK' BY DEF WriterTypeOK, wVars
  <1>c. UNCHANGED <<sendVars, workVars, crashed>>
          => (pc' \in [Conns -> Labels] => SessionTypeOK')
    BY DEF SessionTypeOK, sendVars, workVars
  <1>d. pc \in [Conns -> Labels] BY DEF SessionTypeOK
  <1>1. ASSUME NEW c \in Conns, GetReader(c) PROVE TypeOK'
    <2>1. ReaderTypeOK' BY <1>1 DEF GetReader, ReaderTypeOK
    <2>2. pc' \in [Conns -> Labels] BY <1>d, <1>1 DEF GetReader, Goto, Labels
    <2>. QED BY <1>b, <1>c, <1>1, <2>1, <2>2 DEF GetReader
  <1>2. ASSUME NEW c \in Conns, GetWriter(c) PROVE TypeOK'
    <2>1. WriterTypeOK' BY <1>2 DEF GetWriter, WriterTypeOK
    <2>2. pc' \in [Conns -> Labels] BY <1>d, <1>2 DEF GetWriter, Goto, Labels
    <2>. QED BY <1>a, <1>c, <1>2, <2>1, <2>2 DEF GetWriter
  <1>3. ASSUME NEW c \in Conns, PutReader(c) PROVE TypeOK'
    <2>1. ReaderTypeOK' BY <1>3 DEF PutReader, ReaderTypeOK
    <2>2. pc' \in [Conns -> Labels]
      BY <1>d, <1>3 DEF PutReader, FlushReader, Goto, Labels
    <2>. QED BY <1>b, <1>c, <1>3, <2>1, <2>2 DEF PutReader
  <1>4. ASSUME NEW c \in Conns, PutWriter(c) PROVE TypeOK'
    <2>1. WriterTypeOK'
      <3>1. CASE bufw[c] = None
        BY <1>4, <3>1 DEF PutWriter, WriterTypeOK
      <3>2. CASE bufw[c] # None
        <4>1. bufw[c] \in Writers BY <3>2 DEF WriterTypeOK
        <4>2. /\ wpool' = [wpool EXCEPT ![bufw[c]] = @ + 1]
              /\ wdst' = [wdst EXCEPT ![bufw[c]] = None]
              /\ sticky' = [sticky EXCEPT ![bufw[c]] = FALSE]
              /\ bufw' = [bufw EXCEPT ![c] = None] /\ wmade' = wmade
          BY <1>4, <3>2 DEF PutWriter
        <4>3. wpool' \in [Writers -> Nat] BY <4>1, <4>2 DEF WriterTypeOK
        <4>4. /\ wdst' \in [Writers -> Conns \cup {None}]
              /\ sticky' \in [Writers -> BOOLEAN]
              /\ bufw' \in [Conns -> Writers \cup {None}]
          BY <4>1, <4>2 DEF WriterTypeOK
        <4>. QED BY <4>2, <4>3, <4>4 DEF WriterTypeOK
      <3>. QED BY <3>1, <3>2
    <2>2. pc' \in [Conns -> Labels]
      BY <1>d, <1>4 DEF PutWriter, FlushWriter, Goto, Labels
    <2>. QED BY <1>a, <1>c, <1>4, <2>1, <2>2 DEF PutWriter
  <1>5. ASSUME NEW c \in Conns, Plain(c) PROVE TypeOK'
    <2>1. UNCHANGED <<rVars, wVars, werr>> BY <1>5, PlainTouchesNoBuffer
    <2>2. pc' \in [Conns -> Labels]
      BY <1>d, <1>5
      DEF Plain, HandshakeFails, ReadMalformed, ReadFails, HandleSubscribe,
          HandleAuthorize, HandleUnknown, Recover, HandleSubmit,
          CloseSocket, ReadMessage, Goto, Labels
    <2>3. CASE \/ HandshakeFails(c) \/ ReadMalformed(c) \/ ReadFails(c)
               \/ HandleUnknown(c) \/ Recover(c) \/ CloseSocket(c)
      BY <1>a, <1>b, <1>c, <2>1, <2>2, <2>3
      DEF HandshakeFails, ReadMalformed, ReadFails, HandleUnknown, Recover,
          CloseSocket
    <2>4. CASE HandleSubmit(c)
      <3>1. SessionTypeOK'
        BY <2>4 DEF HandleSubmit, SessionTypeOK, sendVars, workVars
      <3>. QED BY <1>a, <1>b, <2>1, <3>1
    <2>5. CASE HandleSubscribe(c) \/ HandleAuthorize(c)
      <3>1. Number(c) \in 1..MaxRequests
        BY <2>5, RequestsAssumption
        DEF HandleSubscribe, HandleAuthorize, At, SessionInv, SessionTypeOK,
            Number
      <3>2. Result(Number(c)) \in Responses /\ Error(Number(c)) \in Responses
        BY <3>1 DEF Responses
      <3>3. resp' \in [Conns -> Responses \cup {None}]
        BY <2>5, <3>2 DEF HandleSubscribe, HandleAuthorize, SessionTypeOK
      <3>4. allowed' \in [Conns -> BOOLEAN]
        BY <2>5 DEF HandleSubscribe, HandleAuthorize, SessionTypeOK
      <3>5. UNCHANGED <<sendVars, requests, crashed>>
        BY <2>5 DEF HandleSubscribe, HandleAuthorize
      <3>6. SessionTypeOK'
        BY <2>2, <3>3, <3>4, <3>5 DEF SessionTypeOK, sendVars
      <3>. QED BY <1>a, <1>b, <2>1, <3>6
    <2>6. ASSUME NEW m \in Methods, ReadMessage(c, m) PROVE TypeOK'
      <3>1. /\ requests \in [Conns -> Seq(Methods)]
            /\ requests[c] \in Seq(Methods) /\ Len(requests[c]) < MaxRequests
            /\ requests' = [requests EXCEPT ![c] = Append(requests[c], m)]
        BY <2>6 DEF ReadMessage, SessionTypeOK
      <3>2. /\ Append(requests[c], m) \in Seq(Methods)
            /\ Len(Append(requests[c], m)) = Len(requests[c]) + 1
        BY <3>1
      <3>3. requests' \in [Conns -> Seq(Methods)] BY <3>1, <3>2
      <3>4. \A d \in Conns : Len(requests'[d]) <= MaxRequests
        BY <3>1, <3>2, RequestsAssumption DEF SessionTypeOK
      <3>5. /\ resp' \in [Conns -> Responses \cup {None}]
            /\ failed' \in [Conns -> BOOLEAN]
            /\ UNCHANGED <<werr, wire, allowed, crashed>>
        BY <2>6 DEF ReadMessage, SessionTypeOK
      <3>6. SessionTypeOK' BY <2>2, <3>3, <3>4, <3>5 DEF SessionTypeOK
      <3>. QED BY <1>a, <1>b, <2>1, <3>6
    <2>. QED BY <1>5, <2>3, <2>4, <2>5, <2>6 DEF Plain
  <1>6. ASSUME NEW c \in Conns, Sends(c) PROVE TypeOK'
    <2>1. /\ UNCHANGED <<rVars, wpool, wmade, wdst, bufw, workVars, crashed>>
          /\ pc[c] \in {"auth", "difficulty", "job", "reply"}
      BY <1>6, SendsTouchTheWriter
    <2>2. bufw[c] # None /\ resp[c] \in Responses
      BY <2>1 DEF SessionInv, Serving, SessionTypeOK
    <2>3. \E m \in Messages : Sent(c, m) \/ NotSent(c)
      BY <1>6, <2>2
      DEF Sends, SendAuthorize, SendDifficulty, SendJob, SendReply, Messages
    <2>4. /\ wire' \in [Conns -> Seq(Messages)]
          /\ sticky' \in [Writers -> BOOLEAN]
          /\ werr' \in [Conns -> BOOLEAN]
      BY <2>2, <2>3, WireTyped
    <2>5. pc' \in [Conns -> Labels] /\ failed' \in [Conns -> BOOLEAN]
      BY <1>d, <1>6
      DEF Sends, SendAuthorize, SendDifficulty, SendJob, SendReply, Goto,
          Labels, SessionTypeOK
    <2>6. WriterTypeOK' BY <2>1, <2>4 DEF WriterTypeOK
    <2>7. SessionTypeOK' BY <2>1, <2>4, <2>5 DEF SessionTypeOK, workVars
    <2>. QED BY <1>a, <2>1, <2>6, <2>7
  <1>7. CASE UNCHANGED vars BY <1>a, <1>b, <1>c, <1>d, <1>7 DEF vars
  <1>. QED BY <1>1, <1>2, <1>3, <1>4, <1>5, <1>6, <1>7, StepsOfNext

-----------------------------------------------------------------------------
(* The buffers.  What a pool hands out is in it once, hence belongs to no  *)
(* connection, or is new.                                                  *)

LEMMA TakenReader ==
  ASSUME IInv, NEW c \in Conns, GetReader(c)
  PROVE  \E r \in Readers :
           /\ bufr' = [bufr EXCEPT ![c] = r] /\ rsrc' = [rsrc EXCEPT ![r] = c]
           /\ \A d \in Conns : bufr[d] # r
           /\ bufr[c] = None
           /\ rpool' = [rpool EXCEPT ![r] = 0] /\ rmade' = rmade \cup {r}
           /\ UNCHANGED wVars
  <1>1. PICK r \in Readers :
          /\ \/ rpool[r] > 0 /\ rpool' = [rpool EXCEPT ![r] = @ - 1]
                /\ UNCHANGED rmade
             \/ r \notin rmade /\ rmade' = rmade \cup {r} /\ UNCHANGED rpool
          /\ rsrc' = [rsrc EXCEPT ![r] = c] /\ bufr' = [bufr EXCEPT ![c] = r]
          /\ UNCHANGED wVars
    BY DEF GetReader
  <1>2. bufr[c] = None BY DEF GetReader, At, IInv, SessionInv
  <1>3. rpool \in [Readers -> Nat] /\ rmade \in SUBSET Readers
    BY DEF IInv, TypeOK, ReaderTypeOK
  <1>4. CASE rpool[r] > 0 /\ rpool' = [rpool EXCEPT ![r] = @ - 1]
             /\ UNCHANGED rmade
    <2>1. r \in rmade BY <1>1, <1>3, <1>4 DEF IInv, BuffersMade
    <2>2. rpool[r] = 1 /\ ReaderOwners(r) = {}
      BY <1>4, <2>1 DEF IInv, BuffersExclusive
    <2>3. \A d \in Conns : bufr[d] # r BY <2>2 DEF ReaderOwners
    <2>4. rpool' = [rpool EXCEPT ![r] = 0] BY <1>4, <2>2
    <2>5. rmade' = rmade \cup {r} BY <1>4, <2>1
    <2>. QED BY <1>1, <1>2, <2>3, <2>4, <2>5
  <1>5. CASE r \notin rmade /\ rmade' = rmade \cup {r} /\ UNCHANGED rpool
    <2>1. rpool[r] = 0 BY <1>5 DEF IInv, BuffersMade
    <2>2. rpool' = [rpool EXCEPT ![r] = 0] BY <1>3, <1>5, <2>1
    <2>3. \A d \in Conns : bufr[d] # r
      BY <1>5, NoneAssumption DEF IInv, BuffersMade
    <2>. QED BY <1>1, <1>2, <1>5, <2>2, <2>3
  <1>. QED BY <1>1, <1>4, <1>5

LEMMA TakenWriter ==
  ASSUME IInv, NEW c \in Conns, GetWriter(c)
  PROVE  \E w \in Writers :
           /\ bufw' = [bufw EXCEPT ![c] = w] /\ wdst' = [wdst EXCEPT ![w] = c]
           /\ sticky' = [sticky EXCEPT ![w] = FALSE]
           /\ \A d \in Conns : bufw[d] # w
           /\ bufw[c] = None
           /\ wpool' = [wpool EXCEPT ![w] = 0] /\ wmade' = wmade \cup {w}
           /\ UNCHANGED rVars
  <1>1. PICK w \in Writers :
          /\ \/ wpool[w] > 0 /\ wpool' = [wpool EXCEPT ![w] = @ - 1]
                /\ UNCHANGED wmade
             \/ w \notin wmade /\ wmade' = wmade \cup {w} /\ UNCHANGED wpool
          /\ wdst' = [wdst EXCEPT ![w] = c] /\ bufw' = [bufw EXCEPT ![c] = w]
          /\ sticky' = [sticky EXCEPT ![w] = FALSE]
          /\ UNCHANGED rVars
    BY DEF GetWriter
  <1>2. bufw[c] = None BY DEF GetWriter, At, IInv, SessionInv
  <1>3. wpool \in [Writers -> Nat] /\ wmade \in SUBSET Writers
    BY DEF IInv, TypeOK, WriterTypeOK
  <1>4. CASE wpool[w] > 0 /\ wpool' = [wpool EXCEPT ![w] = @ - 1]
             /\ UNCHANGED wmade
    <2>1. w \in wmade BY <1>1, <1>3, <1>4 DEF IInv, BuffersMade
    <2>2. wpool[w] = 1 /\ WriterOwners(w) = {}
      BY <1>4, <2>1 DEF IInv, BuffersExclusive
    <2>3. \A d \in Conns : bufw[d] # w BY <2>2 DEF WriterOwners
    <2>4. wpool' = [wpool EXCEPT ![w] = 0] BY <1>4, <2>2
    <2>5. wmade' = wmade \cup {w} BY <1>4, <2>1
    <2>. QED BY <1>1, <1>2, <2>3, <2>4, <2>5
  <1>5. CASE w \notin wmade /\ wmade' = wmade \cup {w} /\ UNCHANGED wpool
    <2>1. wpool[w] = 0 BY <1>5 DEF IInv, BuffersMade
    <2>2. wpool' = [wpool EXCEPT ![w] = 0] BY <1>3, <1>5, <2>1
    <2>3. \A d \in Conns : bufw[d] # w
      BY <1>5, NoneAssumption DEF IInv, BuffersMade
    <2>. QED BY <1>1, <1>2, <1>5, <2>2, <2>3
  <1>. QED BY <1>1, <1>4, <1>5

(* What a connection gives back is its own, and nobody else's.             *)
LEMMA GivenReader ==
  ASSUME IInv, NEW c \in Conns, bufr[c] # None
  PROVE  /\ bufr[c] \in rmade /\ bufr[c] \in Readers /\ rpool[bufr[c]] = 0
         /\ ReaderOwners(bufr[c]) = {c}
  <1>1. bufr[c] \in rmade /\ bufr[c] \in Readers
    BY DEF IInv, BuffersMade, TypeOK, ReaderTypeOK
  <1>2. c \in ReaderOwners(bufr[c]) BY DEF ReaderOwners
  <1>. QED BY <1>1, <1>2 DEF IInv, BuffersExclusive

LEMMA GivenWriter ==
  ASSUME IInv, NEW c \in Conns, bufw[c] # None
  PROVE  /\ bufw[c] \in wmade /\ bufw[c] \in Writers /\ wpool[bufw[c]] = 0
         /\ WriterOwners(bufw[c]) = {c}
  <1>1. bufw[c] \in wmade /\ bufw[c] \in Writers
    BY DEF IInv, BuffersMade, TypeOK, WriterTypeOK
  <1>2. c \in WriterOwners(bufw[c]) BY DEF WriterOwners
  <1>. QED BY <1>1, <1>2 DEF IInv, BuffersExclusive

-----------------------------------------------------------------------------
(* BuffersExclusive, BuffersClean and BuffersMade, by kind of buffer.      *)

ReaderInv ==
  /\ \A r \in rmade : \/ rpool[r] = 1 /\ \A c \in Conns : bufr[c] # r
                      \/ rpool[r] = 0
  /\ \A c \in Conns : bufr[c] # None => /\ bufr[c] \in rmade
                                        /\ rpool[bufr[c]] = 0
                                        /\ rsrc[bufr[c]] = c
  /\ \A r \in rmade : rpool[r] = 0 => \E c \in Conns : bufr[c] = r
  /\ \A r \in Readers \ rmade : rpool[r] = 0
  /\ \A r \in Readers : rpool[r] > 0 => rsrc[r] = None

WriterInv ==
  /\ \A w \in wmade : \/ wpool[w] = 1 /\ \A c \in Conns : bufw[c] # w
                      \/ wpool[w] = 0
  /\ \A c \in Conns : bufw[c] # None => /\ bufw[c] \in wmade
                                        /\ wpool[bufw[c]] = 0
                                        /\ wdst[bufw[c]] = c
  /\ \A w \in wmade : wpool[w] = 0 => \E c \in Conns : bufw[c] = w
  /\ \A w \in Writers \ wmade : wpool[w] = 0
  /\ \A w \in Writers : wpool[w] > 0 => wdst[w] = None /\ ~sticky[w]

LEMMA BuffersByKind ==
  ASSUME IInv
  PROVE  ReaderInv /\ WriterInv
  <1>1. ReaderInv
    <2>1. \A r \in rmade : \/ rpool[r] = 1 /\ \A c \in Conns : bufr[c] # r
                           \/ rpool[r] = 0
      BY DEF IInv, BuffersExclusive, ReaderOwners
    <2>2. \A r \in rmade : rpool[r] = 0 => \E c \in Conns : bufr[c] = r
      <3>. SUFFICES ASSUME NEW r \in rmade, rpool[r] = 0
                    PROVE  \E c \in Conns : bufr[c] = r
        OBVIOUS
      <3>1. PICK c \in Conns : ReaderOwners(r) = {c}
        BY DEF IInv, BuffersExclusive
      <3>. QED BY <3>1 DEF ReaderOwners
    <2>3. \A c \in Conns : bufr[c] # None =>
            bufr[c] \in rmade /\ rpool[bufr[c]] = 0 /\ rsrc[bufr[c]] = c
      BY GivenReader DEF IInv, BuffersClean
    <2>. QED BY <2>1, <2>2, <2>3 DEF ReaderInv, IInv, BuffersMade, BuffersClean
  <1>2. WriterInv
    <2>1. \A w \in wmade : \/ wpool[w] = 1 /\ \A c \in Conns : bufw[c] # w
                           \/ wpool[w] = 0
      BY DEF IInv, BuffersExclusive, WriterOwners
    <2>2. \A w \in wmade : wpool[w] = 0 => \E c \in Conns : bufw[c] = w
      <3>. SUFFICES ASSUME NEW w \in wmade, wpool[w] = 0
                    PROVE  \E c \in Conns : bufw[c] = w
        OBVIOUS
      <3>1. PICK c \in Conns : WriterOwners(w) = {c}
        BY DEF IInv, BuffersExclusive
      <3>. QED BY <3>1 DEF WriterOwners
    <2>3. \A c \in Conns : bufw[c] # None =>
            bufw[c] \in wmade /\ wpool[bufw[c]] = 0 /\ wdst[bufw[c]] = c
      BY GivenWriter DEF IInv, BuffersClean
    <2>. QED BY <2>1, <2>2, <2>3 DEF WriterInv, IInv, BuffersMade, BuffersClean
  <1>. QED BY <1>1, <1>2

(* That a buffer is connected to its owner makes the owner unique.         *)
LEMMA KindsOfBuffers ==
  ASSUME ReaderInv, WriterInv, ReaderTypeOK, WriterTypeOK
  PROVE  BuffersExclusive /\ BuffersClean /\ BuffersMade
  <1>1. \A r \in rmade : \/ rpool[r] = 1 /\ ReaderOwners(r) = {}
                         \/ /\ rpool[r] = 0
                            /\ \E c \in Conns : ReaderOwners(r) = {c}
    <2>. SUFFICES ASSUME NEW r \in rmade, rpool[r] = 0
                  PROVE  \E c \in Conns : ReaderOwners(r) = {c}
      BY DEF ReaderInv, ReaderOwners
    <2>1. PICK c \in Conns : bufr[c] = r BY DEF ReaderInv
    <2>2. \A d \in Conns : bufr[d] = r => d = c
      BY <2>1, NoneAssumption DEF ReaderInv, ReaderTypeOK
    <2>. QED BY <2>1, <2>2 DEF ReaderOwners
  <1>2. \A w \in wmade : \/ wpool[w] = 1 /\ WriterOwners(w) = {}
                         \/ /\ wpool[w] = 0
                            /\ \E c \in Conns : WriterOwners(w) = {c}
    <2>. SUFFICES ASSUME NEW w \in wmade, wpool[w] = 0
                  PROVE  \E c \in Conns : WriterOwners(w) = {c}
      BY DEF WriterInv, WriterOwners
    <2>1. PICK c \in Conns : bufw[c] = w BY DEF WriterInv
    <2>2. \A d \in Conns : bufw[d] = w => d = c
      BY <2>1, NoneAssumption DEF WriterInv, WriterTypeOK
    <2>. QED BY <2>1, <2>2 DEF WriterOwners
  <1>3. BuffersClean BY DEF ReaderInv, WriterInv, BuffersClean
  <1>4. BuffersMade BY DEF ReaderInv, WriterInv, BuffersMade
  <1>. QED BY <1>1, <1>2, <1>3, <1>4 DEF BuffersExclusive

LEMMA ReaderInvPreserved ==
  ASSUME IInv, [Next]_vars
  PROVE  ReaderInv'
  <1>a. ReaderInv BY BuffersByKind
  <1>b. ReaderTypeOK BY DEF IInv, TypeOK
  <1>c. UNCHANGED rVars => ReaderInv' BY <1>a DEF ReaderInv, rVars
  <1>1. ASSUME NEW c \in Conns, GetReader(c) PROVE ReaderInv'
    <2>1. PICK r \in Readers :
            /\ bufr' = [bufr EXCEPT ![c] = r] /\ rsrc' = [rsrc EXCEPT ![r] = c]
            /\ \A d \in Conns : bufr[d] # r
            /\ bufr[c] = None
            /\ rpool' = [rpool EXCEPT ![r] = 0] /\ rmade' = rmade \cup {r}
      BY <1>1, TakenReader
    <2>2. \A d \in Conns : bufr'[d] = IF d = c THEN r ELSE bufr[d]
      BY <2>1, <1>b DEF ReaderTypeOK
    <2>3. \A q \in Readers : /\ rpool'[q] = IF q = r THEN 0 ELSE rpool[q]
                             /\ rsrc'[q] = IF q = r THEN c ELSE rsrc[q]
      BY <2>1, <1>b DEF ReaderTypeOK
    <2>4. rmade' = rmade \cup {r} /\ rmade \in SUBSET Readers
      BY <2>1, <1>b DEF ReaderTypeOK
    <2>5. \A d \in Conns : bufr[d] \in Readers \cup {None} /\ bufr[d] # r
      BY <2>1, <1>b DEF ReaderTypeOK
    <2>. QED
      BY <1>a, <2>1, <2>2, <2>3, <2>4, <2>5, NoneAssumption DEF ReaderInv
  <1>2. ASSUME NEW c \in Conns, PutReader(c), bufr[c] # None PROVE ReaderInv'
    <2>. DEFINE r == bufr[c]
    <2>1. r \in rmade /\ r \in Readers /\ rpool[r] = 0
      BY <1>2, GivenReader
    <2>2. \A d \in Conns : d # c => bufr[d] # r
      BY <1>2, GivenReader DEF ReaderOwners
    <2>3. /\ rpool' = [rpool EXCEPT ![r] = @ + 1]
          /\ rsrc' = [rsrc EXCEPT ![r] = None]
          /\ bufr' = [bufr EXCEPT ![c] = None] /\ rmade' = rmade
      BY <1>2 DEF PutReader
    <2>4. \A d \in Conns : bufr'[d] = IF d = c THEN None ELSE bufr[d]
      BY <2>3, <1>b DEF ReaderTypeOK
    <2>5. \A q \in Readers : /\ rpool'[q] = IF q = r THEN 1 ELSE rpool[q]
                             /\ rsrc'[q] = IF q = r THEN None ELSE rsrc[q]
      BY <2>1, <2>3, <1>b DEF ReaderTypeOK
    <2>6. rmade' = rmade /\ rmade \in SUBSET Readers /\ None \notin Readers
      BY <2>3, <1>b, NoneAssumption DEF ReaderTypeOK
    <2>. HIDE DEF r
    <2>7. r = bufr[c] BY DEF r
    <2>. QED BY <1>a, <2>1, <2>2, <2>4, <2>5, <2>6, <2>7 DEF ReaderInv
  <1>3. ASSUME NEW c \in Conns, PutReader(c), bufr[c] = None PROVE ReaderInv'
    BY <1>c, <1>3 DEF PutReader, rVars
  <1>4. ASSUME NEW c \in Conns, GetWriter(c) \/ PutWriter(c) PROVE ReaderInv'
    BY <1>c, <1>4 DEF GetWriter, PutWriter
  <1>5. ASSUME NEW c \in Conns, Plain(c) \/ Sends(c) PROVE ReaderInv'
    BY <1>c, <1>5, PlainTouchesNoBuffer, SendsTouchTheWriter
  <1>6. CASE UNCHANGED vars BY <1>c, <1>6 DEF vars
  <1>. QED BY <1>1, <1>2, <1>3, <1>4, <1>5, <1>6, StepsOfNext

LEMMA WriterInvPreserved ==
  ASSUME IInv, [Next]_vars
  PROVE  WriterInv'
  <1>a. WriterInv BY BuffersByKind
  <1>b. WriterTypeOK BY DEF IInv, TypeOK
  <1>c. UNCHANGED wVars => WriterInv' BY <1>a DEF WriterInv, wVars
  <1>1. ASSUME NEW c \in Conns, GetWriter(c) PROVE WriterInv'
    <2>1. PICK w \in Writers :
            /\ bufw' = [bufw EXCEPT ![c] = w] /\ wdst' = [wdst EXCEPT ![w] = c]
            /\ sticky' = [sticky EXCEPT ![w] = FALSE]
            /\ \A d \in Conns : bufw[d] # w
            /\ bufw[c] = None
            /\ wpool' = [wpool EXCEPT ![w] = 0] /\ wmade' = wmade \cup {w}
      BY <1>1, TakenWriter
    <2>2. \A d \in Conns : bufw'[d] = IF d = c THEN w ELSE bufw[d]
      BY <2>1, <1>b DEF WriterTypeOK
    <2>3. \A v \in Writers : /\ wpool'[v] = IF v = w THEN 0 ELSE wpool[v]
                             /\ wdst'[v] = IF v = w THEN c ELSE wdst[v]
                             /\ v # w => (sticky'[v] <=> sticky[v])
      BY <2>1, <1>b DEF WriterTypeOK
    <2>4. wmade' = wmade \cup {w} /\ wmade \in SUBSET Writers
      BY <2>1, <1>b DEF WriterTypeOK
    <2>5. \A d \in Conns : bufw[d] \in Writers \cup {None} /\ bufw[d] # w
      BY <2>1, <1>b DEF WriterTypeOK
    <2>. QED
      BY <1>a, <2>1, <2>2, <2>3, <2>4, <2>5, NoneAssumption DEF WriterInv
  <1>2. ASSUME NEW c \in Conns, PutWriter(c), bufw[c] # None PROVE WriterInv'
    <2>. DEFINE w == bufw[c]
    <2>1. w \in wmade /\ w \in Writers /\ wpool[w] = 0
      BY <1>2, GivenWriter
    <2>2. \A d \in Conns : d # c => bufw[d] # w
      BY <1>2, GivenWriter DEF WriterOwners
    <2>3. /\ wpool' = [wpool EXCEPT ![w] = @ + 1]
          /\ wdst' = [wdst EXCEPT ![w] = None]
          /\ sticky' = [sticky EXCEPT ![w] = FALSE]
          /\ bufw' = [bufw EXCEPT ![c] = None] /\ wmade' = wmade
      BY <1>2 DEF PutWriter
    <2>4. \A d \in Conns : bufw'[d] = IF d = c THEN None ELSE bufw[d]
      BY <2>3, <1>b DEF WriterTypeOK
    <2>5. \A v \in Writers : /\ wpool'[v] = IF v = w THEN 1 ELSE wpool[v]
                             /\ wdst'[v] = IF v = w THEN None ELSE wdst[v]
                             /\ v # w => (sticky'[v] <=> sticky[v])
                             /\ v = w => ~sticky'[v]
      BY <2>1, <2>3, <1>b DEF WriterTypeOK
    <2>6. wmade' = wmade /\ wmade \in SUBSET Writers /\ None \notin Writers
      BY <2>3, <1>b, NoneAssumption DEF WriterTypeOK
    <2>. HIDE DEF w
    <2>7. w = bufw[c] BY DEF w
    <2>. QED BY <1>a, <2>1, <2>2, <2>4, <2>5, <2>6, <2>7 DEF WriterInv
  <1>3. ASSUME NEW c \in Conns, PutWriter(c), bufw[c] = None PROVE WriterInv'
    BY <1>c, <1>3 DEF PutWriter, wVars
  <1>4. ASSUME NEW c \in Conns, GetReader(c) \/ PutReader(c) PROVE WriterInv'
    BY <1>c, <1>4 DEF GetReader, PutReader
  <1>5. ASSUME NEW c \in Conns, Plain(c) PROVE WriterInv'
    BY <1>c, <1>5, PlainTouchesNoBuffer
  <1>6. ASSUME NEW c \in Conns, Sends(c) PROVE WriterInv'
    <2>1. /\ UNCHANGED <<wpool, wmade, wdst, bufw>>
          /\ sticky' \in {sticky, [sticky EXCEPT ![bufw[c]] = TRUE]}
          /\ pc[c] \in {"auth", "difficulty", "job", "reply"}
      BY <1>6, SendsTouchTheWriter
    <2>2. bufw[c] # None BY <2>1 DEF IInv, SessionInv, Serving
    <2>3. wpool[bufw[c]] = 0 BY <2>2, GivenWriter
    <2>4. \A w \in Writers : wpool[w] > 0 => (sticky'[w] <=> sticky[w])
      BY <1>b, <2>1, <2>3 DEF WriterTypeOK
    <2>. QED BY <1>a, <2>1, <2>4 DEF WriterInv
  <1>7. CASE UNCHANGED vars BY <1>c, <1>7 DEF vars
  <1>. QED BY <1>1, <1>2, <1>3, <1>4, <1>5, <1>6, <1>7, StepsOfNext

-----------------------------------------------------------------------------
(* The session.  A step of c does not disturb what SessionInv says of any  *)
(* other connection, because it shares no Writer with c.                   *)

SessionOf(c) ==
  /\ pc[c] = "start" => bufr[c] = None
  /\ pc[c] \in {"start", "getWriter"} => bufw[c] = None /\ ~werr[c]
  /\ pc[c] \in Serving \cup {"getWriter"} => bufr[c] # None
  /\ pc[c] \in Serving => bufw[c] # None
  /\ bufw[c] # None /\ werr[c] => sticky[bufw[c]]
  /\ pc[c] \in {"read", "dispatch", "auth"} => ~sticky[bufw[c]]
  /\ pc[c] = "dispatch" => requests[c] # <<>>
  /\ pc[c] \in {"auth", "difficulty", "job", "reply"} => resp[c] \in Responses

LEMMA SessionByConnection == SessionInv <=> \A c \in Conns : SessionOf(c)
  BY DEF SessionInv, SessionOf

(* What a step may do that touches no connection but c.                    *)
Local(c) ==
  /\ \A d \in Conns \ {c} : /\ pc'[d] = pc[d] /\ bufr'[d] = bufr[d]
                            /\ bufw'[d] = bufw[d] /\ (werr'[d] <=> werr[d])
                            /\ (failed'[d] <=> failed[d])
                            /\ resp'[d] = resp[d] /\ requests'[d] = requests[d]
  /\ \A d \in Conns \ {c} : bufw[d] # None =>
                              (sticky'[bufw[d]] <=> sticky[bufw[d]])

LEMMA LocalKeepsTheOthers ==
  ASSUME SessionInv, NEW c \in Conns, Local(c), SessionOf(c)'
  PROVE  SessionInv'
  <1>1. ASSUME NEW d \in Conns \ {c} PROVE SessionOf(d)'
    BY DEF SessionInv, SessionOf, Local, Serving
  <1>. QED BY <1>1 DEF SessionInv, SessionOf

(* The steps of c.                                                         *)
StepOf(c) ==
  GetReader(c) \/ GetWriter(c) \/ PutReader(c) \/ PutWriter(c) \/ Plain(c)
    \/ Sends(c)

LEMMA StepsAreLocal ==
  ASSUME IInv, NEW c \in Conns, StepOf(c)
  PROVE  Local(c)
  <1>a. /\ ReaderTypeOK /\ WriterTypeOK /\ SessionTypeOK
        /\ SessionInv /\ \A d \in Conns : SessionOf(d)
    BY SessionByConnection DEF IInv, TypeOK
  <1>1. CASE GetReader(c)
    <2>1. PICK r \in Readers : bufr' = [bufr EXCEPT ![c] = r]
      BY <1>1 DEF GetReader
    <2>2. /\ pc' = [pc EXCEPT ![c] = "getWriter"]
          /\ UNCHANGED <<wVars, sendVars, workVars>>
      BY <1>1 DEF GetReader, Goto
    <2>. QED BY <1>a, <2>1, <2>2
      DEF Local, wVars, sendVars, workVars, ReaderTypeOK, SessionTypeOK
  <1>2. CASE GetWriter(c)
    <2>1. PICK w \in Writers :
            /\ bufw' = [bufw EXCEPT ![c] = w]
            /\ sticky' = [sticky EXCEPT ![w] = FALSE]
            /\ \A d \in Conns : bufw[d] # w
      BY <1>2, TakenWriter
    <2>2. /\ pc' = [pc EXCEPT ![c] = "read"]
          /\ UNCHANGED <<rVars, sendVars, workVars>>
      BY <1>2 DEF GetWriter, Goto
    <2>. QED BY <1>a, <2>1, <2>2
      DEF Local, rVars, sendVars, workVars, WriterTypeOK, SessionTypeOK
  <1>3. CASE PutReader(c)
    <2>1. /\ \/ pc' = [pc EXCEPT ![c] = "halfWriter"]
             \/ pc' = [pc EXCEPT ![c] = "closeWriter"]
          /\ bufr' \in {bufr, [bufr EXCEPT ![c] = None]}
          /\ UNCHANGED <<wVars, sendVars, workVars>>
      BY <1>3 DEF PutReader, FlushReader, Goto
    <2>. QED BY <1>a, <2>1
      DEF Local, wVars, sendVars, workVars, ReaderTypeOK, SessionTypeOK
  <1>4. CASE PutWriter(c)
    <2>1. /\ \/ pc' = [pc EXCEPT ![c] = "closeReader"]
             \/ pc' = [pc EXCEPT ![c] = "closeSocket"]
          /\ UNCHANGED <<rVars, sendVars, workVars>>
      BY <1>4 DEF PutWriter, FlushWriter, Goto
    <2>2. CASE bufw[c] = None
      <3>1. bufw' = bufw /\ sticky' = sticky BY <1>4, <2>2 DEF PutWriter
      <3>. QED BY <1>a, <2>1, <3>1
        DEF Local, rVars, sendVars, workVars, SessionTypeOK
    <2>3. CASE bufw[c] # None
      <3>1. /\ bufw' = [bufw EXCEPT ![c] = None]
            /\ sticky' = [sticky EXCEPT ![bufw[c]] = FALSE]
        BY <1>4, <2>3 DEF PutWriter
      <3>2. \A d \in Conns \ {c} : bufw[d] # bufw[c]
        BY <2>3, GivenWriter DEF WriterOwners
      <3>. QED BY <1>a, <2>1, <3>1, <3>2
        DEF Local, rVars, sendVars, workVars, WriterTypeOK, SessionTypeOK
    <2>. QED BY <2>2, <2>3
  <1>5. CASE Plain(c)
    <2>1. UNCHANGED <<bufr, bufw, sticky, werr>>
      BY <1>5, PlainTouchesNoBuffer DEF rVars, wVars
    <2>2. /\ \A d \in Conns \ {c} : pc'[d] = pc[d] /\ resp'[d] = resp[d]
          /\ \A d \in Conns \ {c} : requests'[d] = requests[d]
          /\ \A d \in Conns \ {c} : (failed'[d] <=> failed[d])
      BY <1>a, <1>5
      DEF Plain, HandshakeFails, ReadMalformed, ReadFails, HandleSubscribe,
          HandleAuthorize, HandleUnknown, Recover, HandleSubmit,
          CloseSocket, ReadMessage, Goto, sendVars, workVars, SessionTypeOK
    <2>. QED BY <2>1, <2>2 DEF Local
  <1>6. CASE Sends(c)
    <2>1. /\ UNCHANGED <<bufr, bufw, resp, requests>>
          /\ pc[c] \in {"auth", "difficulty", "job", "reply"}
      BY <1>6, SendsTouchTheWriter DEF rVars, workVars
    <2>2. bufw[c] # None /\ bufw[c] \in Writers
      BY <1>a, <2>1 DEF SessionOf, Serving, WriterTypeOK
    <2>3. wdst[bufw[c]] = c BY <2>2 DEF IInv, BuffersClean
    <2>4. \/ UNCHANGED <<sticky, werr>>
          \/ /\ sticky' = [sticky EXCEPT ![bufw[c]] = TRUE]
             /\ werr' \in {werr, [werr EXCEPT ![c] = TRUE]}
      BY <1>6, <2>3
      DEF Sends, SendAuthorize, SendDifficulty, SendJob, SendReply, Sent,
          NotSent
    <2>5. /\ \E l \in Labels : pc' = [pc EXCEPT ![c] = l]
          /\ \/ failed' = failed
             \/ \E b \in BOOLEAN : failed' = [failed EXCEPT ![c] = b]
      BY <1>6
      DEF Sends, SendAuthorize, SendDifficulty, SendJob, SendReply, Goto,
          Labels
    <2>6. \A d \in Conns \ {c} : bufw[d] # bufw[c]
      BY <2>2, GivenWriter DEF WriterOwners
    <2>. QED BY <1>a, <2>1, <2>2, <2>4, <2>5, <2>6
      DEF Local, WriterTypeOK, SessionTypeOK
  <1>. QED BY <1>1, <1>2, <1>3, <1>4, <1>5, <1>6 DEF StepOf

LEMMA SessionInvPreserved ==
  ASSUME IInv, [Next]_vars
  PROVE  SessionInv'
  <1>a. /\ ReaderTypeOK /\ WriterTypeOK /\ SessionTypeOK
        /\ SessionInv /\ \A c \in Conns : SessionOf(c)
    BY SessionByConnection DEF IInv, TypeOK
  <1>1. ASSUME NEW c \in Conns, GetReader(c) PROVE SessionInv'
    <2>1. PICK r \in Readers : bufr' = [bufr EXCEPT ![c] = r]
      BY <1>1 DEF GetReader
    <2>2. /\ pc' = [pc EXCEPT ![c] = "getWriter"] /\ pc[c] = "start"
          /\ UNCHANGED <<wVars, sendVars, workVars>>
      BY <1>1 DEF GetReader, Goto, At
    <2>3. Local(c) BY <1>1, StepsAreLocal DEF StepOf
    <2>4. SessionOf(c)'
      BY <1>a, <2>1, <2>2, NoneAssumption
      DEF SessionOf, Serving, wVars, sendVars, workVars, ReaderTypeOK,
          SessionTypeOK
    <2>. QED BY <1>a, <2>3, <2>4, LocalKeepsTheOthers
  <1>2. ASSUME NEW c \in Conns, GetWriter(c) PROVE SessionInv'
    <2>1. PICK w \in Writers :
            /\ bufw' = [bufw EXCEPT ![c] = w]
            /\ sticky' = [sticky EXCEPT ![w] = FALSE]
            /\ \A d \in Conns : bufw[d] # w
      BY <1>2, TakenWriter
    <2>2. /\ pc' = [pc EXCEPT ![c] = "read"] /\ pc[c] = "getWriter"
          /\ UNCHANGED <<rVars, sendVars, workVars>>
      BY <1>2 DEF GetWriter, Goto, At
    <2>3. Local(c) BY <1>2, StepsAreLocal DEF StepOf
    <2>4. SessionOf(c)'
      BY <1>a, <2>1, <2>2, NoneAssumption
      DEF SessionOf, Serving, rVars, sendVars, workVars, WriterTypeOK,
          SessionTypeOK
    <2>. QED BY <1>a, <2>3, <2>4, LocalKeepsTheOthers
  <1>3. ASSUME NEW c \in Conns, PutReader(c) PROVE SessionInv'
    <2>1. /\ \/ pc' = [pc EXCEPT ![c] = "halfWriter"]
             \/ pc' = [pc EXCEPT ![c] = "closeWriter"]
          /\ pc[c] \in {"halfReader", "closeReader"}
          /\ bufr' \in {bufr, [bufr EXCEPT ![c] = None]}
          /\ UNCHANGED <<wVars, sendVars, workVars>>
      BY <1>3 DEF PutReader, FlushReader, Goto, At
    <2>2. Local(c) BY <1>3, StepsAreLocal DEF StepOf
    <2>3. SessionOf(c)'
      BY <1>a, <2>1
      DEF SessionOf, Serving, wVars, sendVars, workVars, SessionTypeOK
    <2>. QED BY <1>a, <2>2, <2>3, LocalKeepsTheOthers
  <1>4. ASSUME NEW c \in Conns, PutWriter(c) PROVE SessionInv'
    <2>1. /\ \/ pc' = [pc EXCEPT ![c] = "closeReader"]
             \/ pc' = [pc EXCEPT ![c] = "closeSocket"]
          /\ UNCHANGED <<rVars, sendVars, workVars>>
      BY <1>4 DEF PutWriter, FlushWriter, Goto, At
    <2>2. CASE bufw[c] = None
      <3>1. bufw' = bufw /\ sticky' = sticky BY <1>4, <2>2 DEF PutWriter
      <3>2. Local(c) BY <1>4, StepsAreLocal DEF StepOf
      <3>3. SessionOf(c)'
        BY <1>a, <2>1, <2>2, <3>1
        DEF SessionOf, Serving, rVars, sendVars, workVars, SessionTypeOK
      <3>. QED BY <1>a, <3>2, <3>3, LocalKeepsTheOthers
    <2>3. CASE bufw[c] # None
      <3>1. /\ bufw' = [bufw EXCEPT ![c] = None]
            /\ sticky' = [sticky EXCEPT ![bufw[c]] = FALSE]
        BY <1>4, <2>3 DEF PutWriter
      <3>3. Local(c) BY <1>4, StepsAreLocal DEF StepOf
      <3>4. SessionOf(c)'
        BY <1>a, <2>1, <3>1
        DEF SessionOf, Serving, rVars, sendVars, workVars, WriterTypeOK,
            SessionTypeOK
      <3>. QED BY <1>a, <3>3, <3>4, LocalKeepsTheOthers
    <2>. QED BY <2>2, <2>3
  <1>5. ASSUME NEW c \in Conns, Plain(c) PROVE SessionInv'
    <2>1. UNCHANGED <<bufr, bufw, sticky, werr>>
      BY <1>5, PlainTouchesNoBuffer DEF rVars, wVars
    <2>2. Local(c) BY <1>5, StepsAreLocal DEF StepOf
    <2>3. CASE \/ HandshakeFails(c) \/ ReadMalformed(c) \/ ReadFails(c)
               \/ HandleUnknown(c) \/ Recover(c) \/ CloseSocket(c)
               \/ HandleSubmit(c)
      <3>1. SessionOf(c)'
        BY <1>a, <2>1, <2>3
        DEF HandshakeFails, ReadMalformed, ReadFails, HandleUnknown,
            Recover, CloseSocket, HandleSubmit, At, Goto, workVars,
            SessionOf, Serving, SessionTypeOK
      <3>. QED BY <1>a, <2>2, <3>1, LocalKeepsTheOthers
    <2>4. CASE HandleSubscribe(c) \/ HandleAuthorize(c)
      <3>1. /\ resp'[c] \in {Result(Number(c)), Error(Number(c))}
            /\ pc[c] = "dispatch" /\ requests' = requests
            /\ pc' \in {[pc EXCEPT ![c] = "reply"], [pc EXCEPT ![c] = "auth"]}
        BY <1>a, <2>4
        DEF HandleSubscribe, HandleAuthorize, At, Goto, SessionTypeOK
      <3>2. Number(c) \in 1..MaxRequests
        BY <1>a, <3>1, RequestsAssumption
        DEF SessionOf, SessionTypeOK, Number
      <3>3. resp'[c] \in Responses BY <3>1, <3>2 DEF Responses
      <3>4. SessionOf(c)'
        BY <1>a, <2>1, <3>1, <3>3 DEF SessionOf, Serving, SessionTypeOK
      <3>. QED BY <1>a, <2>2, <3>4, LocalKeepsTheOthers
    <2>5. ASSUME NEW m \in Methods, ReadMessage(c, m) PROVE SessionInv'
      <3>1. /\ requests'[c] = Append(requests[c], m) /\ pc[c] = "read"
            /\ pc' = [pc EXCEPT ![c] = "dispatch"]
            /\ requests[c] \in Seq(Methods)
        BY <1>a, <2>5 DEF ReadMessage, At, Goto, SessionTypeOK
      <3>2. Len(Append(requests[c], m)) = Len(requests[c]) + 1
            /\ Len(requests[c]) \in Nat
        BY <3>1
      <3>3. requests'[c] # <<>> BY <3>1, <3>2
      <3>4. SessionOf(c)'
        BY <1>a, <2>1, <3>1, <3>3 DEF SessionOf, Serving, SessionTypeOK
      <3>. QED BY <1>a, <2>2, <3>4, LocalKeepsTheOthers
    <2>. QED BY <1>5, <2>3, <2>4, <2>5 DEF Plain
  <1>6. ASSUME NEW c \in Conns, Sends(c) PROVE SessionInv'
    <2>1. /\ UNCHANGED <<bufr, bufw, resp, requests>>
          /\ sticky' \in {sticky, [sticky EXCEPT ![bufw[c]] = TRUE]}
          /\ pc[c] \in {"auth", "difficulty", "job", "reply"}
      BY <1>6, SendsTouchTheWriter DEF rVars, workVars
    <2>2. bufw[c] # None /\ bufw[c] \in Writers
      BY <1>a, <2>1 DEF SessionOf, Serving, WriterTypeOK
    <2>3. wdst[bufw[c]] = c BY <2>2 DEF IInv, BuffersClean
    <2>4. \/ UNCHANGED <<sticky, werr>>
          \/ /\ sticky' = [sticky EXCEPT ![bufw[c]] = TRUE]
             /\ werr' \in {werr, [werr EXCEPT ![c] = TRUE]}
      BY <1>6, <2>3
      DEF Sends, SendAuthorize, SendDifficulty, SendJob, SendReply, Sent,
          NotSent
    <2>5. \/ pc' \in {[pc EXCEPT ![c] = l] :
                        l \in {"difficulty", "job", "reply", "closeReader"}}
          \/ /\ pc' = [pc EXCEPT ![c] = "read"]
             /\ ~sticky[bufw[c]] /\ UNCHANGED <<sticky, werr>>
      BY <1>6
      DEF Sends, SendAuthorize, SendDifficulty, SendJob, SendReply, Sent, Goto
    <2>7. Local(c) BY <1>6, StepsAreLocal DEF StepOf
    <2>8. SessionOf(c)'
      BY <1>a, <2>1, <2>2, <2>4, <2>5
      DEF SessionOf, Serving, WriterTypeOK, SessionTypeOK
    <2>. QED BY <1>a, <2>7, <2>8, LocalKeepsTheOthers
  <1>7. CASE UNCHANGED vars
    BY <1>a, <1>7 DEF vars, rVars, wVars, sendVars, workVars, SessionInv
  <1>. QED BY <1>1, <1>2, <1>3, <1>4, <1>5, <1>6, <1>7, StepsOfNext

-----------------------------------------------------------------------------
(* IInv is an invariant: whatever the connections do, newBufioReader,      *)
(* newBufioWriterSize, finalFlush and SendJsonRPC keep it.                 *)
THEOREM Invariance == Spec => []IInv
  <1>1. Init => IInv BY InitEstablishesIInv
  <1>2. IInv /\ [Next]_vars =>
          TypeOK' /\ ReaderInv' /\ WriterInv' /\ SessionInv'
    BY TypeOKPreserved, ReaderInvPreserved, WriterInvPreserved,
       SessionInvPreserved
  <1>3. TypeOK /\ ReaderInv /\ WriterInv /\ SessionInv => IInv
    BY KindsOfBuffers DEF IInv, TypeOK
  <1>. QED BY <1>1, <1>2, <1>3, PTL DEF Spec

(* Every variable of a session keeps its type: serve never follows a nil   *)
(* bufr or bufw.                                                           *)
THEOREM TypeCorrect == Spec => []TypeOK
  <1>1. IInv => TypeOK BY DEF IInv
  <1>. QED BY <1>1, Invariance, PTL

(* A bufio buffer is in its pool, once, or belongs to one connection.      *)
THEOREM BuffersAreExclusive == Spec => []BuffersExclusive
  <1>1. IInv => BuffersExclusive BY DEF IInv
  <1>. QED BY <1>1, Invariance, PTL

(* A pooled buffer keeps nothing of a past connection, and a buffer in use *)
(* is connected to its owner.                                              *)
THEOREM BuffersAreClean == Spec => []BuffersClean
  <1>1. IInv => BuffersClean BY DEF IInv
  <1>. QED BY <1>1, Invariance, PTL

(* A connection whose socket has refused a message never waits for another *)
(* request: the Writer keeps the error until serve sends the response.     *)
THEOREM LostMessagesEndConns == Spec => []LostMessageEndsConn
  <1>1. IInv => LostMessageEndsConn
    BY DEF IInv, SessionInv, Serving, LostMessageEndsConn
  <1>. QED BY <1>1, Invariance, PTL
=============================================================================
