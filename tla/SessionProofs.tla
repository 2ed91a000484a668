---------------------------- MODULE SessionProofs ----------------------------
(***************************************************************************)
(* What the sessions of StratumConn promise their miners: StratumConn      *)
(* implements SessionContract, and the stream of messages that             *)
(* SessionContract allows is complete.                                     *)
(***************************************************************************)
EXTENDS StratumConnProofs, Induction

-----------------------------------------------------------------------------
(* Short tuples.                                                           *)

LEMMA TailOfOne ==
  ASSUME NEW a
  PROVE  Head(<<a>>) = a /\ Tail(<<a>>) = <<>> /\ <<a>> # <<>>
  OBVIOUS

LEMMA TailOfTwo ==
  ASSUME NEW a, NEW b
  PROVE  /\ Head(<<a, b>>) = a /\ Tail(<<a, b>>) = <<b>>
         /\ <<a, b>> # <<>> /\ <<b>> # <<>>
  OBVIOUS

LEMMA TailOfThree ==
  ASSUME NEW a, NEW b, NEW c
  PROVE  /\ Head(<<a, b, c>>) = a /\ Tail(<<a, b, c>>) = <<b, c>>
         /\ <<a, b, c>> # <<>> /\ <<b, c>> # <<>>
  OBVIOUS

LEMMA TailOfFour ==
  ASSUME NEW a, NEW b, NEW c, NEW d
  PROVE  /\ Head(<<a, b, c, d>>) = a /\ Tail(<<a, b, c, d>>) = <<b, c, d>>
         /\ <<a, b, c, d>> # <<>> /\ <<b, c, d>> # <<>>
  OBVIOUS

LEMMA LastOfAppend ==
  ASSUME NEW S, NEW s \in Seq(S), NEW m \in S
  PROVE  Last(Append(s, m)) = m /\ Len(Append(s, m)) = Len(s) + 1
  BY DEF Last

-----------------------------------------------------------------------------
(* An error of SendAuthorize is remembered by the Writer too.              *)
FailedOf(c) ==
  pc[c] \in {"difficulty", "job"} /\ failed[c] => sticky[bufw[c]]

FailedInv == \A c \in Conns : FailedOf(c)

LEMMA FailedInvPreserved ==
  ASSUME IInv, FailedInv, [Next]_vars
  PROVE  FailedInv'
  <1>a. /\ WriterTypeOK /\ SessionTypeOK /\ \A c \in Conns : SessionOf(c)
    BY SessionByConnection DEF IInv, TypeOK
  <1>1. ASSUME NEW c \in Conns, StepOf(c), FailedOf(c)' PROVE FailedInv'
    <2>1. Local(c) BY <1>1, StepsAreLocal
    <2>2. ASSUME NEW d \in Conns \ {c} PROVE FailedOf(d)'
      <3>1. pc[d] \in {"difficulty", "job"} => bufw[d] # None
        BY <1>a DEF SessionOf, Serving
      <3>. QED BY <2>1, <3>1 DEF Local, FailedOf, FailedInv
    <2>. QED BY <1>1, <2>2 DEF FailedInv
  <1>2. ASSUME NEW c \in Conns, Sends(c) PROVE FailedOf(c)'
    <2>1. /\ bufw' = bufw /\ pc[c] \in Serving
          /\ sticky' \in {sticky, [sticky EXCEPT ![bufw[c]] = TRUE]}
      BY <1>2, SendsTouchTheWriter DEF Serving
    <2>2. bufw[c] \in Writers BY <1>a, <2>1 DEF SessionOf, WriterTypeOK
    <2>3. sticky[bufw[c]] => sticky'[bufw[c]]
      BY <1>a, <2>1, <2>2 DEF WriterTypeOK
    <2>4. CASE SendAuthorize(c)
      <3>1. \/ failed'[c] = FALSE
            \/ sticky' = [sticky EXCEPT ![bufw[c]] = TRUE]
        BY <1>a, <2>4 DEF SendAuthorize, NotSent, SessionTypeOK
      <3>2. ~failed'[c] \/ sticky'[bufw[c]]
        BY <1>a, <2>2, <3>1 DEF WriterTypeOK
      <3>. QED BY <2>1, <3>2 DEF FailedOf
    <2>5. CASE SendDifficulty(c) \/ SendJob(c)
      BY <2>1, <2>3, <2>5
      DEF SendDifficulty, SendJob, At, FailedOf, FailedInv
    <2>6. CASE SendReply(c)
      BY <1>a, <2>6 DEF SendReply, Goto, SessionTypeOK, FailedOf
    <2>. QED BY <1>2, <2>4, <2>5, <2>6 DEF Sends
  <1>3. ASSUME NEW c \in Conns,
               GetReader(c) \/ GetWriter(c) \/ PutReader(c) \/ PutWriter(c)
                 \/ Plain(c)
        PROVE  FailedOf(c)'
    <2>1. pc'[c] \notin {"difficulty", "job"}
      BY <1>a, <1>3
      DEF GetReader, GetWriter, PutReader, PutWriter, FlushReader,
          FlushWriter, Plain, HandshakeFails, ReadMalformed, ReadFails,
          HandleSubscribe, HandleAuthorize, HandleUnknown, Recover,
          HandleSubmit, CloseSocket, ReadMessage, At, Goto, SessionTypeOK
    <2>. QED BY <2>1 DEF FailedOf
  <1>4. CASE UNCHANGED vars
    BY <1>4 DEF vars, wVars, sendVars, FailedInv, FailedOf
  <1>. QED BY <1>1, <1>2, <1>3, <1>4, StepsOfNext DEF StepOf

-----------------------------------------------------------------------------
(* The refinement.                                                         *)

LifeMap     == [c \in Conns |-> LifeOf(c)]
DueMap      == [c \in Conns |-> DueOf(c)]
SessionVars == <<LifeMap, crashed, requests, DueMap, wire>>

(* What the label of a connection means for its miner.                     *)
LifeTable(c) ==
  /\ pc[c] \in {"start", "getWriter"} => LifeOf(c) = "setup" /\ DueOf(c) = <<>>
  /\ pc[c] = "read" /\ ~sticky[bufw[c]] =>
       LifeOf(c) = "waiting" /\ DueOf(c) = <<>>
  /\ pc[c] \in Handling /\ ~sticky[bufw[c]] => LifeOf(c) = "handling"
  /\ pc[c] \in Serving /\ sticky[bufw[c]] =>
       LifeOf(c) = "closing" /\ DueOf(c) = <<>>
  /\ pc[c] \in {"halfReader", "halfWriter", "closeReader", "closeWriter",
                "closeSocket"} => LifeOf(c) = "closing" /\ DueOf(c) = <<>>
  /\ pc[c] = "end" => LifeOf(c) = "ended" /\ DueOf(c) = <<>>
  /\ LifeOf(c) = "handling" =>
       /\ pc[c] = "dispatch" => DueOf(c) = Owed(Method(c), Number(c))
       /\ pc[c] = "auth" =>
            DueOf(c) = <<resp[c], SetDifficulty, NotifyJob, resp[c]>>
       /\ pc[c] = "difficulty" =>
            DueOf(c) = <<SetDifficulty, NotifyJob, resp[c]>>
       /\ pc[c] = "job" => DueOf(c) = <<NotifyJob, resp[c]>>
       /\ pc[c] = "reply" => DueOf(c) = <<resp[c]>>

LEMMA TableHolds ==
  ASSUME NEW c \in Conns
  PROVE  LifeTable(c) /\ LifeTable(c)'
  <1>1. LifeTable(c)
    <2>1. /\ pc[c] \in {"start", "getWriter"} => LifeOf(c) = "setup"
          /\ pc[c] = "read" /\ ~sticky[bufw[c]] => LifeOf(c) = "waiting"
          /\ pc[c] \in Handling /\ ~sticky[bufw[c]] => LifeOf(c) = "handling"
          /\ pc[c] \in Serving /\ sticky[bufw[c]] => LifeOf(c) = "closing"
          /\ pc[c] \in {"halfReader", "halfWriter", "closeReader",
                        "closeWriter", "closeSocket"} => LifeOf(c) = "closing"
          /\ pc[c] = "end" => LifeOf(c) = "ended"
      BY DEF LifeOf, Broken, Serving, Handling, Labels
    <2>. QED BY <2>1 DEF LifeTable, DueOf
  <1>2. LifeTable(c)'
    <2>1. /\ pc'[c] \in {"start", "getWriter"} => LifeOf(c)' = "setup"
          /\ pc'[c] = "read" /\ ~sticky'[bufw'[c]] => LifeOf(c)' = "waiting"
          /\ pc'[c] \in Handling /\ ~sticky'[bufw'[c]] =>
               LifeOf(c)' = "handling"
          /\ pc'[c] \in Serving /\ sticky'[bufw'[c]] => LifeOf(c)' = "closing"
          /\ pc'[c] \in {"halfReader", "halfWriter", "closeReader",
                         "closeWriter", "closeSocket"} => LifeOf(c)' = "closing"
          /\ pc'[c] = "end" => LifeOf(c)' = "ended"
      BY DEF LifeOf, Broken, Serving, Handling, Labels
    <2>. QED BY <2>1 DEF LifeTable, DueOf
  <1>. QED BY <1>1, <1>2

(* A step of c changes nothing in another session.                         *)
LEMMA OtherSessions ==
  ASSUME IInv, NEW c \in Conns, StepOf(c)
  PROVE  /\ LifeMap' = [LifeMap EXCEPT ![c] = LifeOf(c)']
         /\ DueMap' = [DueMap EXCEPT ![c] = DueOf(c)']
  <1>1. Local(c) BY StepsAreLocal
  <1>2. ASSUME NEW d \in Conns \ {c}
        PROVE  LifeOf(d)' = LifeOf(d) /\ DueOf(d)' = DueOf(d)
    <2>1. /\ pc'[d] = pc[d] /\ bufw'[d] = bufw[d] /\ resp'[d] = resp[d]
          /\ requests'[d] = requests[d]
          /\ bufw[d] # None => (sticky'[bufw[d]] <=> sticky[bufw[d]])
      BY <1>1 DEF Local
    <2>2. pc[d] \in Serving => bufw[d] # None BY DEF IInv, SessionInv
    <2>3. Broken(d)' <=> Broken(d) BY <2>1, <2>2 DEF Broken
    <2>4. LifeOf(d)' = LifeOf(d) BY <2>1, <2>3 DEF LifeOf
    <2>5. Method(d)' = Method(d) /\ Number(d)' = Number(d)
      BY <2>1 DEF Method, Number
    <2>6. DueOf(d)' = DueOf(d) BY <2>1, <2>4, <2>5 DEF DueOf
    <2>. QED BY <2>4, <2>6
  <1>. DEFINE l == LifeOf(c)'
              u == DueOf(c)'
  <1>3. /\ \A d \in Conns : LifeOf(d)' = IF d = c THEN l ELSE LifeOf(d)
        /\ \A d \in Conns : DueOf(d)' = IF d = c THEN u ELSE DueOf(d)
    BY <1>2
  <1>. HIDE DEF l, u
  <1>4. LifeMap' = [LifeMap EXCEPT ![c] = l] BY <1>3 DEF LifeMap
  <1>5. DueMap' = [DueMap EXCEPT ![c] = u] BY <1>3 DEF DueMap
  <1>. QED BY <1>4, <1>5 DEF l, u

(* Steps that a miner does not see, a connection that is lost, and a       *)
(* message that arrives.                                                   *)
LEMMA Unseen ==
  ASSUME IInv, NEW c \in Conns, StepOf(c), UNCHANGED <<crashed, requests, wire>>,
         LifeOf(c)' = LifeOf(c), DueOf(c)' = DueOf(c)
  PROVE  UNCHANGED SessionVars
  <1>1. /\ LifeMap' = [LifeMap EXCEPT ![c] = LifeOf(c)]
        /\ DueMap' = [DueMap EXCEPT ![c] = DueOf(c)]
    BY OtherSessions
  <1>2. LifeMap' = LifeMap /\ DueMap' = DueMap BY <1>1 DEF LifeMap, DueMap
  <1>. QED BY <1>2 DEF SessionVars

LEMMA Lost ==
  ASSUME IInv, NEW c \in Conns, StepOf(c), UNCHANGED <<crashed, requests, wire>>,
         ~crashed, LifeOf(c) \in {"setup", "waiting", "handling"},
         LifeOf(c)' = "closing", DueOf(c)' = <<>>
  PROVE  Session!SessionNext
  <1>1. /\ LifeMap' = [LifeMap EXCEPT ![c] = "closing"]
        /\ DueMap' = [DueMap EXCEPT ![c] = <<>>] /\ LifeMap[c] = LifeOf(c)
    BY OtherSessions DEF LifeMap
  <1>2. Session!Leave(c)
    BY <1>1 DEF Session!Leave, Session!Move, LifeMap, DueMap
  <1>. QED BY <1>2 DEF Session!SessionNext

LEMMA Arrived ==
  ASSUME IInv, NEW c \in Conns, StepOf(c), UNCHANGED <<crashed, requests>>,
         ~crashed, LifeOf(c) = "handling", DueOf(c) # <<>>,
         wire' = [wire EXCEPT ![c] = Append(wire[c], Head(DueOf(c)))],
         DueOf(c)' = Tail(DueOf(c)),
         \/ LifeOf(c)' = "handling"
         \/ LifeOf(c)' = "waiting" /\ Tail(DueOf(c)) = <<>>
  PROVE  Session!SessionNext
  <1>. DEFINE h == Head(DueOf(c))
              t == Tail(DueOf(c))
  <1>1. /\ LifeMap' = [LifeMap EXCEPT ![c] = LifeOf(c)']
        /\ DueMap' = [DueMap EXCEPT ![c] = t]
        /\ LifeMap[c] = "handling" /\ DueMap[c] = DueOf(c)
    BY OtherSessions DEF LifeMap, DueMap
  <1>2. LifeMap' \in {LifeMap, IF t = <<>> THEN [LifeMap EXCEPT ![c] = "waiting"]
                               ELSE LifeMap}
    <2>1. CASE LifeOf(c)' = "handling"
      <3>1. LifeMap' = LifeMap BY <1>1, <2>1 DEF LifeMap
      <3>. QED BY <3>1
    <2>2. CASE LifeOf(c)' = "waiting" /\ t = <<>> BY <1>1, <2>2
    <2>. QED BY <2>1, <2>2
  <1>3. Session!Deliver(c)
    BY <1>1, <1>2 DEF Session!Deliver, LifeMap, DueMap
  <1>. QED BY <1>3 DEF Session!SessionNext

LEMMA SendsRefine ==
  ASSUME IInv, FailedInv, NEW c \in Conns, Sends(c)
  PROVE  Session!SessionNext \/ UNCHANGED SessionVars
  <1>. DEFINE w == bufw[c]
  <1>a. /\ WriterTypeOK /\ SessionTypeOK /\ SessionOf(c) /\ StepOf(c)
    BY SessionByConnection DEF IInv, TypeOK, StepOf
  <1>b. /\ UNCHANGED <<bufw, resp, requests, crashed>> /\ ~crashed
        /\ pc[c] \in {"auth", "difficulty", "job", "reply"}
    BY SendsTouchTheWriter
    DEF wVars, workVars, Sends, SendAuthorize, SendDifficulty, SendJob,
        SendReply, At
  <1>c. w \in Writers /\ wdst[w] = c /\ wdst[w] # None
    <2>1. w # None BY <1>a, <1>b DEF SessionOf, Serving
    <2>. QED BY <1>a, <2>1, NoneAssumption DEF IInv, BuffersClean, WriterTypeOK
  <1>d. sticky \in [Writers -> BOOLEAN] /\ pc \in [Conns -> Labels]
    BY <1>a DEF WriterTypeOK, SessionTypeOK
  <1>e. LifeTable(c) /\ LifeTable(c)' BY TableHolds
  <1>f. pc[c] \in Handling /\ pc[c] \in Serving BY <1>b DEF Handling, Serving
  <1>1. CASE sticky[w]
    <2>1. \A m : ~Sent(c, m) BY <1>1 DEF Sent
    <2>2. wire' = wire /\ sticky' = [sticky EXCEPT ![w] = TRUE]
      BY <2>1
      DEF Sends, SendAuthorize, SendDifficulty, SendJob, SendReply, NotSent
    <2>3. sticky'[bufw'[c]] BY <1>b, <1>c, <1>d, <2>2
    <2>4. pc'[c] \in {"difficulty", "job", "reply", "closeReader"}
      BY <1>d, <2>1
      DEF Sends, SendAuthorize, SendDifficulty, SendJob, SendReply, Goto
    <2>5. LifeOf(c) = "closing" /\ DueOf(c) = <<>>
      BY <1>1, <1>e, <1>f DEF LifeTable
    <2>6. LifeOf(c)' = "closing" /\ DueOf(c)' = <<>>
      BY <1>e, <2>3, <2>4 DEF LifeTable, Serving
    <2>. QED BY <1>a, <1>b, <2>2, <2>5, <2>6, Unseen
  <1>2. CASE ~sticky[w] /\ NotSent(c)
    <2>1. wire' = wire /\ sticky' = [sticky EXCEPT ![w] = TRUE]
      BY <1>2 DEF NotSent
    <2>2. sticky'[bufw'[c]] BY <1>b, <1>c, <1>d, <2>1
    <2>3. pc'[c] \in {"difficulty", "job", "reply", "closeReader"}
      <3>1. \A m : ~Sent(c, m)
        <4>1. sticky' # sticky BY <1>2, <1>c, <1>d, <2>1
        <4>. QED BY <4>1 DEF Sent
      <3>. QED BY <1>d, <3>1
        DEF Sends, SendAuthorize, SendDifficulty, SendJob, SendReply, Goto
    <2>4. LifeOf(c) = "handling" BY <1>2, <1>e, <1>f DEF LifeTable
    <2>5. LifeOf(c)' = "closing" /\ DueOf(c)' = <<>>
      BY <1>e, <2>2, <2>3 DEF LifeTable, Serving
    <2>. QED BY <1>a, <1>b, <2>1, <2>4, <2>5, Lost
  <1>3. CASE ~sticky[w] /\ ~NotSent(c)
    <2>1. LifeOf(c) = "handling" BY <1>3, <1>e, <1>f DEF LifeTable
    <2>2. ASSUME NEW m, Sent(c, m)
          PROVE  /\ wire' = [wire EXCEPT ![c] = Append(wire[c], m)]
                 /\ ~sticky'[bufw'[c]]
      BY <1>3, <1>b, <1>c, <2>2 DEF Sent
    <2>3. CASE SendAuthorize(c)
      <3>1. Sent(c, resp[c]) /\ pc[c] = "auth" /\ pc'[c] = "difficulty"
        BY <1>3, <1>d, <2>3 DEF SendAuthorize, At, Goto
      <3>2. DueOf(c) = <<resp[c], SetDifficulty, NotifyJob, resp[c]>>
        BY <1>e, <2>1, <3>1 DEF LifeTable
      <3>3. ~sticky'[bufw'[c]] BY <2>2, <3>1
      <3>4. LifeOf(c)' = "handling"
        BY <1>e, <3>1, <3>3 DEF LifeTable, Handling, Serving
      <3>5. DueOf(c)' = <<SetDifficulty, NotifyJob, resp[c]>>
        BY <1>b, <1>e, <3>1, <3>4 DEF LifeTable
      <3>6. /\ Head(DueOf(c)) = resp[c] /\ Tail(DueOf(c)) = DueOf(c)'
            /\ DueOf(c) # <<>>
        BY <3>2, <3>5, TailOfFour
      <3>. QED BY <1>a, <1>b, <2>1, <2>2, <3>1, <3>4, <3>6, Arrived
    <2>4. CASE SendDifficulty(c)
      <3>1. Sent(c, SetDifficulty) /\ pc[c] = "difficulty" /\ pc'[c] = "job"
        BY <1>3, <1>d, <2>4 DEF SendDifficulty, At, Goto
      <3>2. DueOf(c) = <<SetDifficulty, NotifyJob, resp[c]>>
        BY <1>e, <2>1, <3>1 DEF LifeTable
      <3>3. ~sticky'[bufw'[c]] BY <2>2, <3>1
      <3>4. LifeOf(c)' = "handling"
        BY <1>e, <3>1, <3>3 DEF LifeTable, Handling, Serving
      <3>5. DueOf(c)' = <<NotifyJob, resp[c]>>
        BY <1>b, <1>e, <3>1, <3>4 DEF LifeTable
      <3>6. /\ Head(DueOf(c)) = SetDifficulty /\ Tail(DueOf(c)) = DueOf(c)'
            /\ DueOf(c) # <<>>
        BY <3>2, <3>5, TailOfThree
      <3>. QED BY <1>a, <1>b, <2>1, <2>2, <3>1, <3>4, <3>6, Arrived
    <2>5. CASE SendJob(c)
      <3>1. pc[c] = "job" BY <2>5 DEF SendJob, At
      <3>2. ~failed[c] BY <1>3, <3>1 DEF FailedInv, FailedOf
      <3>3. Sent(c, NotifyJob) /\ pc'[c] = "reply"
        BY <1>3, <1>d, <2>5, <3>2 DEF SendJob, Goto
      <3>4. DueOf(c) = <<NotifyJob, resp[c]>>
        BY <1>e, <2>1, <3>1 DEF LifeTable
      <3>5. ~sticky'[bufw'[c]] BY <2>2, <3>3
      <3>6. LifeOf(c)' = "handling"
        BY <1>e, <3>3, <3>5 DEF LifeTable, Handling, Serving
      <3>7. DueOf(c)' = <<resp[c]>>
        BY <1>b, <1>e, <3>3, <3>6 DEF LifeTable
      <3>8. /\ Head(DueOf(c)) = NotifyJob /\ Tail(DueOf(c)) = DueOf(c)'
            /\ DueOf(c) # <<>>
        BY <3>4, <3>7, TailOfTwo
      <3>. QED BY <1>a, <1>b, <2>1, <2>2, <3>3, <3>6, <3>8, Arrived
    <2>6. CASE SendReply(c)
      <3>1. Sent(c, resp[c]) /\ pc[c] = "reply" /\ pc'[c] = "read"
        BY <1>3, <1>d, <2>6 DEF SendReply, At, Goto
      <3>2. DueOf(c) = <<resp[c]>> BY <1>e, <2>1, <3>1 DEF LifeTable
      <3>3. ~sticky'[bufw'[c]] BY <2>2, <3>1
      <3>4. LifeOf(c)' = "waiting" /\ DueOf(c)' = <<>>
        BY <1>e, <3>1, <3>3 DEF LifeTable
      <3>5. /\ Head(DueOf(c)) = resp[c] /\ Tail(DueOf(c)) = <<>>
            /\ DueOf(c) # <<>>
        BY <3>2, TailOfOne
      <3>. QED BY <1>a, <1>b, <2>1, <2>2, <3>1, <3>4, <3>5, Arrived
    <2>. QED BY <2>3, <2>4, <2>5, <2>6 DEF Sends
  <1>. QED BY <1>1, <1>2, <1>3

LEMMA PoolsRefine ==
  ASSUME IInv, NEW c \in Conns,
         GetReader(c) \/ GetWriter(c) \/ PutReader(c) \/ PutWriter(c)
  PROVE  Session!SessionNext \/ UNCHANGED SessionVars
  <1>a. WriterTypeOK /\ SessionTypeOK /\ StepOf(c)
    BY DEF IInv, TypeOK, StepOf
  <1>b. UNCHANGED <<requests, crashed, wire>> /\ ~crashed
    BY DEF GetReader, GetWriter, PutReader, PutWriter, FlushReader,
           FlushWriter, At, sendVars, workVars
  <1>c. pc \in [Conns -> Labels] BY <1>a DEF SessionTypeOK
  <1>d. LifeTable(c) /\ LifeTable(c)' BY TableHolds
  <1>1. CASE GetReader(c)
    <2>1. pc[c] = "start" /\ pc'[c] = "getWriter"
      BY <1>1, <1>c DEF GetReader, At, Goto
    <2>2. /\ LifeOf(c) = "setup" /\ DueOf(c) = <<>>
          /\ LifeOf(c)' = "setup" /\ DueOf(c)' = <<>>
      BY <1>d, <2>1 DEF LifeTable
    <2>. QED BY <1>a, <1>b, <2>2, Unseen
  <1>2. CASE GetWriter(c)
    <2>1. pc[c] = "getWriter" /\ pc'[c] = "read"
      BY <1>2, <1>c DEF GetWriter, At, Goto
    <2>2. PICK w \in Writers : /\ bufw' = [bufw EXCEPT ![c] = w]
                               /\ sticky' = [sticky EXCEPT ![w] = FALSE]
      BY <1>2 DEF GetWriter
    <2>3. ~sticky'[bufw'[c]] BY <1>a, <2>2 DEF WriterTypeOK
    <2>4. /\ LifeOf(c) = "setup" /\ DueOf(c) = <<>>
          /\ LifeOf(c)' = "waiting" /\ DueOf(c)' = <<>>
      BY <1>d, <2>1, <2>3 DEF LifeTable
    <2>5. /\ LifeMap' = [LifeMap EXCEPT ![c] = "waiting"]
          /\ DueMap' = [DueMap EXCEPT ![c] = <<>>]
          /\ LifeMap[c] = "setup" /\ DueMap[c] = <<>>
      BY <1>a, <2>4, OtherSessions DEF LifeMap, DueMap
    <2>6. DueMap' = DueMap BY <2>5 DEF DueMap
    <2>7. Session!Ready(c)
      BY <1>b, <2>5, <2>6 DEF Session!Ready, Session!Move, LifeMap, DueMap
    <2>. QED BY <2>7 DEF Session!SessionNext
  <1>3. CASE PutReader(c) \/ PutWriter(c)
    <2>1. /\ pc[c] \in {"halfReader", "halfWriter", "closeReader",
                        "closeWriter"}
          /\ pc'[c] \in {"halfWriter", "closeReader", "closeWriter",
                         "closeSocket"}
      BY <1>3, <1>c DEF PutReader, PutWriter, FlushReader, FlushWriter, At, Goto
    <2>2. /\ LifeOf(c) = "closing" /\ DueOf(c) = <<>>
          /\ LifeOf(c)' = "closing" /\ DueOf(c)' = <<>>
      BY <1>d, <2>1 DEF LifeTable
    <2>. QED BY <1>a, <1>b, <2>2, Unseen
  <1>. QED BY <1>1, <1>2, <1>3

LEMMA HandlersRefine ==
  ASSUME IInv, NEW c \in Conns,
         \/ HandleSubscribe(c) \/ HandleAuthorize(c) \/ HandleUnknown(c)
         \/ Recover(c) \/ HandleSubmit(c)
  PROVE  Session!SessionNext \/ UNCHANGED SessionVars
  <1>a. /\ WriterTypeOK /\ SessionTypeOK /\ SessionOf(c) /\ StepOf(c)
        /\ Plain(c)
    BY SessionByConnection DEF IInv, TypeOK, StepOf, Plain
  <1>b. UNCHANGED <<bufw, sticky, requests, wire>> /\ pc[c] = "dispatch"
        /\ ~crashed
    BY DEF HandleSubscribe, HandleAuthorize, HandleUnknown, Recover,
           HandleSubmit, At, wVars, sendVars, workVars
  <1>c. ~sticky[bufw[c]] /\ ~sticky'[bufw'[c]] BY <1>a, <1>b DEF SessionOf
  <1>d. LifeTable(c) /\ LifeTable(c)' BY TableHolds
  <1>e. LifeOf(c) = "handling" /\ DueOf(c) = Owed(Method(c), Number(c))
    BY <1>b, <1>c, <1>d DEF LifeTable, Handling, Serving
  <1>f. pc \in [Conns -> Labels] BY <1>a DEF SessionTypeOK
  <1>1. CASE HandleSubscribe(c)
    <2>1. /\ pc'[c] = "reply" /\ resp'[c] = Result(Number(c))
          /\ crashed' = crashed /\ Method(c) = "subscribe"
      BY <1>1, <1>a, <1>f DEF HandleSubscribe, Goto, SessionTypeOK
    <2>2. LifeOf(c)' = "handling"
      BY <1>c, <1>d, <2>1 DEF LifeTable, Handling, Serving
    <2>3. DueOf(c)' = <<Result(Number(c))>> BY <1>d, <2>1, <2>2 DEF LifeTable
    <2>4. DueOf(c) = <<Result(Number(c))>> BY <1>e, <2>1 DEF Owed
    <2>. QED BY <1>a, <1>b, <1>e, <2>1, <2>2, <2>3, <2>4, Unseen
  <1>2. CASE HandleAuthorize(c)
    <2>1. /\ pc'[c] = "auth" /\ crashed' = crashed
          /\ resp'[c] = IF Method(c) = "authorize" THEN Result(Number(c))
                        ELSE Error(Number(c))
          /\ Method(c) \in {"authorize", "badName"}
      BY <1>2, <1>a, <1>f DEF HandleAuthorize, Goto, SessionTypeOK
    <2>2. LifeOf(c)' = "handling"
      BY <1>c, <1>d, <2>1 DEF LifeTable, Handling, Serving
    <2>3. DueOf(c)' = <<resp'[c], SetDifficulty, NotifyJob, resp'[c]>>
      BY <1>d, <2>1, <2>2 DEF LifeTable, SetDifficulty, NotifyJob
    <2>4. DueOf(c) = <<resp'[c], SetDifficulty, NotifyJob, resp'[c]>>
      BY <1>e, <2>1 DEF Owed
    <2>. QED BY <1>a, <1>b, <1>e, <2>1, <2>2, <2>3, <2>4, Unseen
  <1>3. CASE HandleUnknown(c)
    <2>1. pc'[c] = "read" /\ crashed' = crashed /\ Method(c) = "unknown"
      BY <1>3, <1>f DEF HandleUnknown, Goto
    <2>2. LifeOf(c)' = "waiting" /\ DueOf(c)' = <<>>
      BY <1>c, <1>d, <2>1 DEF LifeTable
    <2>3. DueOf(c) = <<>> BY <1>e, <2>1 DEF Owed
    <2>4. /\ LifeMap' = [LifeMap EXCEPT ![c] = "waiting"]
          /\ DueMap' = [DueMap EXCEPT ![c] = <<>>]
          /\ LifeMap[c] = "handling" /\ DueMap[c] = <<>>
      BY <1>a, <1>e, <2>2, <2>3, OtherSessions DEF LifeMap, DueMap
    <2>5. DueMap' = DueMap BY <2>4 DEF DueMap
    <2>6. Session!Ignore(c)
      BY <1>b, <2>1, <2>4, <2>5
      DEF Session!Ignore, Session!Move, LifeMap, DueMap
    <2>. QED BY <2>6 DEF Session!SessionNext
  <1>4. CASE Recover(c)
    <2>1. pc'[c] = "closeReader" /\ crashed' = crashed
      BY <1>4, <1>f DEF Recover, Goto
    <2>2. LifeOf(c)' = "closing" /\ DueOf(c)' = <<>>
      BY <1>d, <2>1 DEF LifeTable
    <2>. QED BY <1>a, <1>b, <1>e, <2>1, <2>2, Lost
  <1>5. CASE HandleSubmit(c)
    <2>1. /\ UNCHANGED <<pc, bufw, sticky, resp, requests, wire>>
          /\ crashed' = TRUE
      BY <1>5 DEF HandleSubmit, wVars, sendVars, workVars
    <2>2. LifeMap' = LifeMap BY <2>1 DEF LifeMap, LifeOf, Broken
    <2>3. DueMap' = DueMap
      BY <2>1 DEF DueMap, DueOf, LifeOf, Broken, Method, Number
    <2>4. LifeMap[c] = "handling" BY <1>e DEF LifeMap
    <2>5. Session!Crash(c)
      BY <1>b, <2>1, <2>2, <2>3, <2>4 DEF Session!Crash, LifeMap, DueMap
    <2>. QED BY <2>5 DEF Session!SessionNext
  <1>. QED BY <1>1, <1>2, <1>3, <1>4, <1>5

LEMMA ReadsRefine ==
  ASSUME IInv, NEW c \in Conns,
         \/ HandshakeFails(c) \/ ReadMalformed(c) \/ ReadFails(c)
         \/ CloseSocket(c) \/ \E m \in Methods : ReadMessage(c, m)
  PROVE  Session!SessionNext \/ UNCHANGED SessionVars
  <1>a. /\ WriterTypeOK /\ SessionTypeOK /\ SessionOf(c) /\ StepOf(c)
    BY SessionByConnection DEF IInv, TypeOK, StepOf, Plain
  <1>b. UNCHANGED <<bufw, sticky, wire, crashed>> /\ ~crashed
    BY DEF HandshakeFails, ReadMalformed, ReadFails, CloseSocket, ReadMessage,
           At, wVars, sendVars
  <1>c. pc[c] = "read" => ~sticky[bufw[c]] /\ ~sticky'[bufw'[c]]
    BY <1>a, <1>b DEF SessionOf
  <1>d. LifeTable(c) /\ LifeTable(c)' BY TableHolds
  <1>f. pc \in [Conns -> Labels] BY <1>a DEF SessionTypeOK
  <1>1. CASE HandshakeFails(c) \/ ReadMalformed(c) \/ ReadFails(c)
    <2>1. /\ pc[c] \in {"start", "read"}
          /\ pc'[c] \in {"halfReader", "closeReader"} /\ requests' = requests
      BY <1>1, <1>f
      DEF HandshakeFails, ReadMalformed, ReadFails, At, Goto, workVars
    <2>2. LifeOf(c) \in {"setup", "waiting"} BY <1>c, <1>d, <2>1 DEF LifeTable
    <2>3. LifeOf(c)' = "closing" /\ DueOf(c)' = <<>>
      BY <1>d, <2>1 DEF LifeTable
    <2>. QED BY <1>a, <1>b, <2>1, <2>2, <2>3, Lost
  <1>2. CASE CloseSocket(c)
    <2>1. /\ pc[c] = "closeSocket" /\ pc'[c] = "end" /\ requests' = requests
      BY <1>2, <1>f DEF CloseSocket, At, Goto, workVars
    <2>2. /\ LifeOf(c) = "closing" /\ DueOf(c) = <<>>
          /\ LifeOf(c)' = "ended" /\ DueOf(c)' = <<>>
      BY <1>d, <2>1 DEF LifeTable
    <2>3. /\ LifeMap' = [LifeMap EXCEPT ![c] = "ended"]
          /\ DueMap' = [DueMap EXCEPT ![c] = <<>>]
          /\ LifeMap[c] = "closing" /\ DueMap[c] = <<>>
      BY <1>a, <2>2, OtherSessions DEF LifeMap, DueMap
    <2>4. DueMap' = DueMap BY <2>3 DEF DueMap
    <2>5. Session!End(c)
      BY <1>b, <2>1, <2>3, <2>4 DEF Session!End, Session!Move, LifeMap, DueMap
    <2>. QED BY <2>5 DEF Session!SessionNext
  <1>3. ASSUME NEW m \in Methods, ReadMessage(c, m) PROVE Session!SessionNext
    <2>. DEFINE n == Len(requests[c]) + 1
    <2>1. /\ pc[c] = "read" /\ pc'[c] = "dispatch"
          /\ requests' = [requests EXCEPT ![c] = Append(requests[c], m)]
          /\ Len(requests[c]) < MaxRequests
          /\ requests \in [Conns -> Seq(Methods)]
      BY <1>3, <1>a, <1>f DEF ReadMessage, At, Goto, SessionTypeOK
    <2>2. /\ requests'[c] = Append(requests[c], m)
          /\ requests[c] \in Seq(Methods)
      BY <2>1
    <2>3. Method(c)' = m /\ Number(c)' = n
      BY <2>2, LastOfAppend DEF Method, Number
    <2>4. n \in 1..MaxRequests BY <2>1, <2>2, RequestsAssumption
    <2>5. LifeOf(c) = "waiting" /\ LifeOf(c)' = "handling"
      BY <1>c, <1>d, <2>1 DEF LifeTable, Handling, Serving
    <2>6. DueOf(c)' = Owed(m, n) BY <1>d, <2>1, <2>3, <2>5 DEF LifeTable
    <2>7. /\ LifeMap' = [LifeMap EXCEPT ![c] = "handling"]
          /\ DueMap' = [DueMap EXCEPT ![c] = Owed(m, n)]
          /\ LifeMap[c] = "waiting"
      BY <1>a, <2>5, <2>6, OtherSessions DEF LifeMap
    <2>. DEFINE Debts == [k \in Methods |-> [i \in 1..MaxRequests |-> Owed(k, i)]]
    <2>8. Debts[m][n] = Owed(m, n) /\ m \in DOMAIN Debts BY <2>4
    <2>9. DueMap' = [DueMap EXCEPT ![c] = Debts[m][n]] BY <2>7, <2>8
    <2>10. Session!Receive(c, m)
      BY <1>b, <2>1, <2>7, <2>9
      DEF Session!Receive, Session!Move, LifeMap, DueMap
    <2>. QED BY <2>8, <2>10 DEF Session!SessionNext
  <1>. QED BY <1>1, <1>2, <1>3

LEMMA SessionStepRefines ==
  ASSUME IInv, FailedInv, [Next]_vars
  PROVE  Session!SessionNext \/ UNCHANGED SessionVars
  <1>1. CASE UNCHANGED vars
    <2>1. UNCHANGED <<pc, bufw, sticky, resp, requests, wire, crashed>>
      BY <1>1 DEF vars, wVars, sendVars, workVars
    <2>2. LifeMap' = LifeMap BY <2>1 DEF LifeMap, LifeOf, Broken
    <2>3. DueMap' = DueMap
      BY <2>1 DEF DueMap, DueOf, LifeOf, Broken, Method, Number
    <2>. QED BY <2>1, <2>2, <2>3 DEF SessionVars
  <1>2. ASSUME NEW c \in Conns, Plain(c)
        PROVE  Session!SessionNext \/ UNCHANGED SessionVars
    BY <1>2, HandlersRefine, ReadsRefine DEF Plain
  <1>3. ASSUME NEW c \in Conns,
               GetReader(c) \/ GetWriter(c) \/ PutReader(c) \/ PutWriter(c)
        PROVE  Session!SessionNext \/ UNCHANGED SessionVars
    BY <1>3, PoolsRefine
  <1>4. ASSUME NEW c \in Conns, Sends(c)
        PROVE  Session!SessionNext \/ UNCHANGED SessionVars
    BY <1>4, SendsRefine
  <1>. QED BY <1>1, <1>2, <1>3, <1>4, StepsOfNext

LEMMA FailedInvariance == Spec => []FailedInv
  <1>1. Init => FailedInv BY DEF Init, FailedInv, FailedOf
  <1>2. IInv /\ FailedInv /\ [Next]_vars => FailedInv' BY FailedInvPreserved
  <1>. QED BY <1>1, <1>2, Invariance, PTL DEF Spec

(* Behind the buffers, the sticky errors and the shadowed err of serve, a  *)
(* session is what SessionContract says, for any number of requests.       *)
THEOREM SessionRefinement == Spec => ImplementsSession
  <1>1. Init => Session!SessionInit
    <2>. SUFFICES ASSUME Init PROVE Session!SessionInit
      OBVIOUS
    <2>1. \A c \in Conns : LifeOf(c) = "setup" /\ DueOf(c) = <<>>
      BY TableHolds DEF Init, LifeTable
    <2>2. /\ LifeMap = [c \in Conns |-> "setup"]
          /\ DueMap = [c \in Conns |-> <<>>]
      BY <2>1 DEF LifeMap, DueMap
    <2>. QED BY <2>2 DEF Init, Session!SessionInit, Session!Nothing, LifeMap,
                         DueMap
  <1>2. IInv /\ FailedInv /\ [Next]_vars
          => [Session!SessionNext]_(Session!sessionVars)
    BY SessionStepRefines
    DEF SessionVars, LifeMap, DueMap, Session!sessionVars
  <1>. QED BY <1>1, <1>2, Invariance, FailedInvariance, PTL
    DEF Spec, ImplementsSession, Session!SessionSpec

(* The session and the server see the same connection live: each side      *)
(* implements ConnLife (StratumServerProofs has the other).                *)
LEMMA SessionStepsLive ==
  ASSUME Session!SessionNext \/ UNCHANGED SessionVars
  PROVE  [Life!LifeNext]_(Life!lifeVars)
  <1>. SUFFICES ASSUME Session!SessionNext
                PROVE  Life!LifeNext \/ UNCHANGED Life!lifeVars
    BY DEF SessionVars, LifeMap, Life!lifeVars
  <1>. DEFINE Debts == [m \in Methods |-> [n \in 1..MaxRequests |-> Owed(m, n)]]
  <1>1. PICK c \in Conns :
          \/ Session!Ready(c) \/ Session!Deliver(c) \/ Session!Ignore(c)
          \/ Session!Leave(c) \/ Session!End(c) \/ Session!Crash(c)
          \/ \E m \in DOMAIN Debts : Session!Receive(c, m)
    BY DEF Session!SessionNext
  <1>. HIDE DEF Debts
  <1>2. \/ Life!Ready(c) \/ Life!Receive(c) \/ Life!Answered(c)
        \/ Life!Leave(c) \/ Life!End(c) \/ Life!Crash(c)
        \/ UNCHANGED Life!lifeVars
    <2>1. ASSUME NEW m \in DOMAIN Debts, Session!Receive(c, m)
          PROVE  Life!Receive(c)
      BY <2>1 DEF Session!Receive, Session!Move, Life!Receive, Life!Move
    <2>2. CASE Session!Ready(c)
      BY <2>2 DEF Session!Ready, Session!Move, Life!Ready, Life!Move
    <2>3. CASE Session!Ignore(c)
      BY <2>3 DEF Session!Ignore, Session!Move, Life!Answered, Life!Move
    <2>4. CASE Session!Leave(c)
      BY <2>4 DEF Session!Leave, Session!Move, Life!Leave, Life!Move
    <2>5. CASE Session!End(c)
      BY <2>5 DEF Session!End, Session!Move, Life!End, Life!Move
    <2>6. CASE Session!Crash(c)
      BY <2>6 DEF Session!Crash, Life!Crash
    <2>7. CASE Session!Deliver(c)
      BY <2>7 DEF Session!Deliver, Life!Answered, Life!Move, Life!lifeVars
    <2>. QED BY <1>1, <2>1, <2>2, <2>3, <2>4, <2>5, <2>6, <2>7
  <1>. QED BY <1>2 DEF Life!LifeNext

(* The sessions' connections live as ConnLife says.                        *)
THEOREM SessionsAreLives == Spec => ImplementsConnLife
  <1>1. Init => Life!LifeInit
    <2>. SUFFICES ASSUME Init PROVE Life!LifeInit
      OBVIOUS
    <2>1. \A c \in Conns : LifeOf(c) = "setup"
      BY TableHolds DEF Init, LifeTable
    <2>. QED BY <2>1 DEF Init, Life!LifeInit
  <1>2. IInv /\ FailedInv /\ [Next]_vars => [Life!LifeNext]_(Life!lifeVars)
    BY SessionStepRefines, SessionStepsLive
  <1>. QED BY <1>1, <1>2, Invariance, FailedInvariance, PTL
    DEF Spec, ImplementsConnLife, Life!LifeSpec

-----------------------------------------------------------------------------
(* FlattenSeq, by the sequence of the prefixes it goes through.            *)

Flattens(f, s) ==
  f = [i \in 1..Len(s) |-> IF i = 1 THEN s[i] ELSE f[i - 1] \o s[i]]

Flat(s) == CHOOSE f : Flattens(f, s)

LEMMA FlattenIsFlat ==
  ASSUME NEW s
  PROVE  FlattenSeq(s) = IF Len(s) = 0 THEN s ELSE Flat(s)[Len(s)]
  BY Zenon DEF FlattenSeq, Flat, Flattens

LEMMA FlatExists ==
  ASSUME NEW M, NEW s \in Seq(Seq(M))
  PROVE  \E f \in [1..Len(s) -> Seq(M)] : Flattens(f, s)
  <1>. DEFINE Step(f, i) == IF i = 1 THEN s[i] ELSE f[i - 1] \o s[i]
              Ok(k, f) == f = [i \in 1..k |-> Step(f, i)]
              S == {k \in Nat : \E f \in [1..k -> Seq(M)] : Ok(k, f)}
  <1>1. Len(s) \in Nat OBVIOUS
  <1>2. 0 \in S
    <2>. DEFINE g == [i \in 1..0 |-> <<>>]
    <2>1. g \in [1..0 -> Seq(M)] /\ Ok(0, g) OBVIOUS
    <2>. QED BY <2>1
  <1>3. \A k \in 0..(Len(s) - 1) : k \in S => k + 1 \in S
    <2>. SUFFICES ASSUME NEW k \in 0..(Len(s) - 1), k \in S
                  PROVE  k + 1 \in S
      OBVIOUS
    <2>1. PICK f \in [1..k -> Seq(M)] : Ok(k, f) OBVIOUS
    <2>2. k \in Nat /\ s[k + 1] \in Seq(M) BY <1>1
    <2>. DEFINE x == Step(f, k + 1)
                g == [i \in 1..(k + 1) |-> IF i = k + 1 THEN x ELSE f[i]]
    <2>3. x \in Seq(M)
      <3>1. CASE k = 0 BY <2>2, <3>1
      <3>2. CASE k # 0
        <4>1. f[k] \in Seq(M) BY <2>2, <3>2
        <4>2. f[k] \o s[k + 1] \in Seq(M)
          <5>. DEFINE a == f[k]
                      b == s[k + 1]
          <5>1. a \in Seq(M) /\ b \in Seq(M) BY <2>2, <4>1
          <5>. HIDE DEF a, b
          <5>2. a \o b \in Seq(M) BY <5>1
          <5>. QED BY <5>2 DEF a, b
        <4>3. x = f[k] \o s[k + 1]
          <5>1. (k + 1) - 1 = k /\ ~(k + 1 = 1) BY <2>2, <3>2
          <5>. QED BY <5>1, Zenon
        <4>. QED BY <4>2, <4>3
      <3>. QED BY <3>1, <3>2
    <2>a. \A i \in 1..k : f[i] = Step(f, i) BY <2>1
    <2>4. g \in [1..(k + 1) -> Seq(M)]
      <3>. HIDE DEF x
      <3>. QED BY <2>2, <2>3
    <2>b. /\ \A i \in 1..k : g[i] = f[i]
          /\ g[k + 1] = x
      <3>. HIDE DEF x
      <3>. QED BY <2>2
    <2>5. \A i \in 1..(k + 1) : g[i] = Step(g, i)
      <3>. SUFFICES ASSUME NEW i \in 1..(k + 1) PROVE g[i] = Step(g, i)
        OBVIOUS
      <3>1. i # 1 => g[i - 1] = f[i - 1]
        <4>1. i # 1 => i - 1 \in 1..k BY <2>2
        <4>. HIDE DEF g
        <4>. QED BY <2>b, <4>1
      <3>2. Step(g, i) = Step(f, i)
        <4>. HIDE DEF g
        <4>. QED BY <3>1
      <3>3. CASE i = k + 1
        <4>. HIDE DEF g, Step
        <4>. QED BY <2>b, <3>2, <3>3 DEF x
      <3>4. CASE i # k + 1
        <4>1. i \in 1..k BY <2>2, <3>4
        <4>. HIDE DEF g, Step
        <4>. QED BY <2>a, <2>b, <3>2, <4>1
      <3>. QED BY <3>3, <3>4
    <2>6. Ok(k + 1, g)
      <3>. HIDE DEF g, Step
      <3>. QED BY <2>4, <2>5
    <2>. HIDE DEF g, Ok
    <2>. QED BY <2>2, <2>4, <2>6
  <1>. HIDE DEF S
  <1>4. \A k \in 0..Len(s) : k \in S BY <1>1, <1>2, <1>3, InductionUpTo
  <1>5. Len(s) \in S BY <1>1, <1>4
  <1>. QED BY <1>5 DEF S, Flattens

LEMMA FlatStep ==
  ASSUME NEW M, NEW s \in Seq(Seq(M))
  PROVE  /\ \A i \in 1..Len(s) : Flat(s)[i] \in Seq(M)
         /\ Len(s) > 0 => Flat(s)[1] = s[1]
         /\ \A i \in 1..(Len(s) - 1) : Flat(s)[i + 1] = Flat(s)[i] \o s[i + 1]
  <1>. DEFINE f == Flat(s)
              n == Len(s)
              S == {i \in 0..(n - 1) : f[i + 1] \in Seq(M)}
  <1>1. \E g : Flattens(g, s) BY FlatExists
  <1>2. Flattens(f, s) BY <1>1, Zenon DEF Flat
  <1>3. n \in Nat OBVIOUS
  <1>. HIDE DEF f
  <1>4. f = [i \in 1..n |-> IF i = 1 THEN s[i] ELSE f[i - 1] \o s[i]]
    BY <1>2 DEF Flattens
  <1>5. \A i \in 1..n : f[i] = IF i = 1 THEN s[i] ELSE f[i - 1] \o s[i]
    BY <1>4, Zenon
  <1>6. n > 0 => f[1] = s[1]
    <2>1. n > 0 => 1 \in 1..n BY <1>3
    <2>. QED BY <1>5, <2>1, Zenon
  <1>7. \A i \in 1..(n - 1) : f[i + 1] = f[i] \o s[i + 1]
    <2>. SUFFICES ASSUME NEW i \in 1..(n - 1)
                  PROVE  f[i + 1] = f[i] \o s[i + 1]
      OBVIOUS
    <2>1. i + 1 \in 1..n /\ ~(i + 1 = 1) /\ (i + 1) - 1 = i BY <1>3
    <2>2. f[i + 1] = IF i + 1 = 1 THEN s[i + 1]
                     ELSE f[(i + 1) - 1] \o s[i + 1]
      BY <1>5, <2>1, Zenon
    <2>. QED BY <2>1, <2>2, Zenon
  <1>8. \A i \in 1..n : f[i] \in Seq(M)
    <2>1. CASE n = 0 BY <2>1
    <2>2. CASE n > 0
      <3>1. 0 \in S
        <4>1. s[1] \in Seq(M) BY <1>3, <2>2
        <4>. QED BY <1>3, <1>6, <2>2, <4>1
      <3>2. \A i \in 0..((n - 1) - 1) : i \in S => i + 1 \in S
        <4>. SUFFICES ASSUME NEW i \in 0..((n - 1) - 1), i \in S
                      PROVE  i + 1 \in S
          OBVIOUS
        <4>. DEFINE a == f[i + 1]
                    b == s[(i + 1) + 1]
        <4>1. /\ i + 1 \in 1..(n - 1) /\ i + 1 \in 0..(n - 1)
              /\ (i + 1) + 1 \in 1..n
          BY <1>3
        <4>2. a \in Seq(M) /\ b \in Seq(M) BY <4>1
        <4>3. f[(i + 1) + 1] = a \o b BY <1>7, <4>1
        <4>. HIDE DEF a, b
        <4>4. a \o b \in Seq(M) BY <4>2
        <4>. QED BY <4>1, <4>3, <4>4
      <3>3. n - 1 \in Nat BY <1>3, <2>2
      <3>. HIDE DEF S
      <3>4. \A i \in 0..(n - 1) : i \in S BY <3>1, <3>2, <3>3, InductionUpTo
      <3>. QED
        <4>. SUFFICES ASSUME NEW i \in 1..n PROVE f[i] \in Seq(M)
          OBVIOUS
        <4>1. i - 1 \in 0..(n - 1) /\ (i - 1) + 1 = i BY <1>3
        <4>2. i - 1 \in S BY <3>4, <4>1
        <4>. QED BY <4>1, <4>2 DEF S
    <2>. QED BY <1>3, <2>1, <2>2
  <1>. QED BY <1>6, <1>7, <1>8 DEF f

(* t is s with one more element.                                           *)
Extends(t, s) ==
  Len(t) = Len(s) + 1 /\ \A i \in 1..Len(s) : t[i] = s[i]

LEMMA FlattenOneMore ==
  ASSUME NEW M, NEW s \in Seq(Seq(M)), NEW t \in Seq(Seq(M)), Extends(t, s)
  PROVE  /\ FlattenSeq(s) \in Seq(M) /\ FlattenSeq(t) \in Seq(M)
         /\ FlattenSeq(t) = FlattenSeq(s) \o t[Len(t)]
  <1>. DEFINE n == Len(s)
              f == Flat(s)
              g == Flat(t)
              x == t[n + 1]
              S == {i \in 0..(n - 1) : g[i + 1] = f[i + 1]}
  <1>1. n \in Nat /\ Len(t) = n + 1 BY DEF Extends
  <1>2. x \in Seq(M) BY <1>1
  <1>3. /\ \A i \in 1..n : f[i] \in Seq(M)
        /\ n > 0 => f[1] = s[1]
        /\ \A i \in 1..(n - 1) : f[i + 1] = f[i] \o s[i + 1]
    BY FlatStep
  <1>4. /\ g[1] = t[1]
        /\ \A i \in 1..n : g[i + 1] = g[i] \o t[i + 1]
        /\ g[n + 1] \in Seq(M)
    <2>1. /\ \A i \in 1..Len(t) : g[i] \in Seq(M)
          /\ Len(t) > 0 => g[1] = t[1]
          /\ \A i \in 1..(Len(t) - 1) : g[i + 1] = g[i] \o t[i + 1]
      BY FlatStep
    <2>2. Len(t) > 0 /\ Len(t) - 1 = n /\ n + 1 \in 1..Len(t) BY <1>1
    <2>. HIDE DEF g, n
    <2>. QED BY <2>1, <2>2
  <1>5. FlattenSeq(t) = g[n + 1]
    <2>1. FlattenSeq(t) = IF Len(t) = 0 THEN t ELSE g[Len(t)]
      BY FlattenIsFlat
    <2>2. ~(n + 1 = 0) BY <1>1
    <2>. QED BY <1>1, <2>1, <2>2, Zenon
  <1>6. FlattenSeq(s) = IF n = 0 THEN s ELSE f[n] BY FlattenIsFlat
  <1>. HIDE DEF f, g
  <1>7. CASE n = 0
    <2>1. s = <<>> BY <1>7
    <2>2. <<>> \o x = x BY <1>2
    <2>3. FlattenSeq(s) = <<>> BY <1>6, <1>7, <2>1
    <2>4. g[n + 1] = x BY <1>4, <1>7
    <2>5. <<>> \in Seq(M) OBVIOUS
    <2>. HIDE DEF x
    <2>6. FlattenSeq(t) = FlattenSeq(s) \o x BY <1>5, <2>2, <2>3, <2>4
    <2>7. x = t[Len(t)] BY <1>1 DEF x
    <2>. QED BY <1>2, <1>5, <2>3, <2>4, <2>5, <2>6, <2>7
  <1>8. CASE n > 0
    <2>1. 0 \in S
      <3>1. t[1] = s[1] BY <1>1, <1>8 DEF Extends
      <3>. QED BY <1>1, <1>3, <1>4, <1>8, <3>1
    <2>2. \A i \in 0..((n - 1) - 1) : i \in S => i + 1 \in S
      <3>. SUFFICES ASSUME NEW i \in 0..((n - 1) - 1), i \in S
                    PROVE  i + 1 \in S
        OBVIOUS
      <3>1. /\ i + 1 \in 1..(n - 1) /\ i + 1 \in 1..n /\ i + 1 \in 0..(n - 1)
            /\ (i + 1) + 1 \in 1..n
        BY <1>1
      <3>2. t[(i + 1) + 1] = s[(i + 1) + 1] BY <3>1 DEF Extends
      <3>3. g[i + 1] = f[i + 1] OBVIOUS
      <3>4. g[(i + 1) + 1] = g[i + 1] \o t[(i + 1) + 1] BY <1>4, <3>1
      <3>5. f[(i + 1) + 1] = f[i + 1] \o s[(i + 1) + 1] BY <1>3, <3>1
      <3>6. g[(i + 1) + 1] = f[(i + 1) + 1] BY <3>2, <3>3, <3>4, <3>5, Zenon
      <3>. QED BY <3>1, <3>6
    <2>3. n - 1 \in Nat BY <1>1, <1>8
    <2>. HIDE DEF S
    <2>4. \A i \in 0..(n - 1) : i \in S BY <2>1, <2>2, <2>3, InductionUpTo
    <2>5. n - 1 \in S BY <2>3, <2>4
    <2>6. g[n] = f[n]
      <3>1. (n - 1) + 1 = n BY <1>1
      <3>2. g[(n - 1) + 1] = f[(n - 1) + 1] BY <2>5 DEF S
      <3>. QED BY <3>1, <3>2, Zenon
    <2>7. n \in 1..n BY <1>1, <1>8
    <2>8. FlattenSeq(s) = f[n] /\ f[n] \in Seq(M) BY <1>3, <1>6, <1>8, <2>7
    <2>9. g[n + 1] = g[n] \o x BY <1>4, <2>7
    <2>10. x = t[Len(t)] BY <1>1
    <2>. HIDE DEF x, n
    <2>. QED BY <1>4, <1>5, <2>6, <2>8, <2>9, <2>10
  <1>. QED BY <1>1, <1>7, <1>8

-----------------------------------------------------------------------------
(* Sequences of messages.                                                  *)

LEMMA HeadMoves ==
  ASSUME NEW S, NEW s \in Seq(S), NEW t \in Seq(S), t # <<>>
  PROVE  /\ Append(s, Head(t)) \o Tail(t) = s \o t
         /\ Append(s, Head(t)) \in Seq(S) /\ Tail(t) \in Seq(S)
  OBVIOUS

LEMMA PrefixOfConcat ==
  ASSUME NEW S, NEW s \in Seq(S), NEW t \in Seq(S)
  PROVE  IsPrefix(s, s \o t)
  BY DEF IsPrefix

LEMMA PrefixGrows ==
  ASSUME NEW S, NEW s \in Seq(S), NEW t \in Seq(S)
  PROVE  s \o <<>> = s /\ IsPrefix(s, s)
  BY DEF IsPrefix

LEMMA OwedTyped ==
  ASSUME NEW m, NEW n \in 1..MaxRequests
  PROVE  Owed(m, n) \in Seq(Messages)
  <1>1. /\ Result(n) \in Messages /\ Error(n) \in Messages
        /\ SetDifficulty \in Messages /\ NotifyJob \in Messages
    BY DEF Messages, Responses
  <1>. HIDE DEF Result, Error, SetDifficulty, NotifyJob, Messages
  <1>. QED BY <1>1 DEF Owed

-----------------------------------------------------------------------------
(* The stream of messages.  It is of the abstract steps that this is true: *)
(* the proof looks at no action of StratumConn.                            *)

Debt(c) == [n \in 1..Number(c) |-> Owed(requests[c][n], n)]

StreamOf(c) ==
  /\ DueOf(c) \in Seq(Messages)
  /\ AllOwed(c) \in Seq(Messages)
  /\ IsPrefix(wire[c], AllOwed(c))
  /\ LifeOf(c) \in {"setup", "waiting", "handling"}
       => wire[c] \o DueOf(c) = AllOwed(c)
  /\ LifeOf(c) \in {"setup", "waiting"} => DueOf(c) = <<>>

StreamInv == \A c \in Conns : StreamOf(c)

LEMMA DebtTyped ==
  ASSUME TypeOK, NEW c \in Conns
  PROVE  Debt(c) \in Seq(Seq(Messages)) /\ Len(Debt(c)) = Number(c)
  <1>1. Number(c) \in Nat /\ Number(c) <= MaxRequests
    BY DEF TypeOK, SessionTypeOK, Number
  <1>2. \A n \in 1..Number(c) : Owed(requests[c][n], n) \in Seq(Messages)
    BY <1>1, OwedTyped, RequestsAssumption
  <1>. HIDE DEF Number
  <1>. QED BY <1>1, <1>2 DEF Debt

LEMMA AllOwedIsDebt ==
  ASSUME NEW c \in Conns
  PROVE  AllOwed(c) = FlattenSeq(Debt(c)) /\ AllOwed(c)' = FlattenSeq(Debt(c)')
  BY DEF AllOwed, Debt

(* A request adds what is owed for it.                                     *)
LEMMA OneMoreRequest ==
  ASSUME TypeOK, TypeOK', NEW c \in Conns, NEW m,
         requests' = [requests EXCEPT ![c] = Append(requests[c], m)]
  PROVE  /\ AllOwed(c)' = AllOwed(c) \o Owed(m, Number(c) + 1)
         /\ AllOwed(c)' \in Seq(Messages) /\ AllOwed(c) \in Seq(Messages)
         /\ Number(c) + 1 \in 1..MaxRequests
  <1>. DEFINE s == Debt(c)
              t == Debt(c)'
              n == Number(c)
              r == requests[c]
              q == requests'[c]
  <1>1. /\ s \in Seq(Seq(Messages)) /\ Len(s) = n
        /\ t \in Seq(Seq(Messages)) /\ Len(t) = Number(c)'
    <2>1. s \in Seq(Seq(Messages)) /\ Len(s) = n BY DebtTyped
    <2>2. /\ Number(c)' \in Nat /\ Number(c)' <= MaxRequests
      BY DEF TypeOK, SessionTypeOK, Number
    <2>3. \A i \in 1..Number(c)' : Owed(q[i], i) \in Seq(Messages)
      BY <2>2, OwedTyped, RequestsAssumption
    <2>4. t = [i \in 1..Number(c)' |-> Owed(q[i], i)] BY DEF Debt
    <2>. HIDE DEF t
    <2>5. t \in Seq(Seq(Messages)) /\ Len(t) = Number(c)'
      <3>. DEFINE k == Number(c)'
      <3>. HIDE DEF k
      <3>1. k \in Nat BY <2>2 DEF k
      <3>2. t = [i \in 1..k |-> Owed(q[i], i)] BY <2>4 DEF k
      <3>3. \A i \in 1..k : Owed(q[i], i) \in Seq(Messages) BY <2>3 DEF k
      <3>. HIDE DEF q
      <3>4. t \in Seq(Seq(Messages)) /\ Len(t) = k BY <3>1, <3>2, <3>3
      <3>. QED BY <3>4 DEF k
    <2>. QED BY <2>1, <2>5
  <1>2. /\ q = Append(r, m) /\ n = Len(r) /\ r \in Seq(Methods)
    BY DEF TypeOK, SessionTypeOK, Number
  <1>3. /\ n \in Nat /\ Len(q) = n + 1 /\ q[n + 1] = m
        /\ \A i \in 1..n : q[i] = r[i]
    BY <1>2
  <1>4. Number(c)' = n + 1 BY <1>3 DEF Number
  <1>5. /\ \A i \in 1..n : s[i] = Owed(r[i], i)
        /\ \A i \in 1..(n + 1) : t[i] = Owed(q[i], i)
    <2>1. s = [i \in 1..n |-> Owed(r[i], i)] BY DEF Debt
    <2>2. t = [i \in 1..(n + 1) |-> Owed(q[i], i)] BY <1>4 DEF Debt
    <2>. HIDE DEF s, t, n, r, q
    <2>. QED BY <2>1, <2>2
  <1>6. n + 1 \in 1..MaxRequests
    BY <1>3, <1>4, RequestsAssumption DEF TypeOK, SessionTypeOK, Number
  <1>7. AllOwed(c) = FlattenSeq(s) /\ AllOwed(c)' = FlattenSeq(t)
    BY AllOwedIsDebt
  <1>. HIDE DEF s, t, n, r, q
  <1>8. t[n + 1] = Owed(m, n + 1) BY <1>3, <1>5
  <1>9. Len(t) = n + 1 BY <1>1, <1>4
  <1>10. Extends(t, s)
    <2>1. \A i \in 1..n : t[i] = s[i]
      <3>. SUFFICES ASSUME NEW i \in 1..n PROVE t[i] = s[i]
        OBVIOUS
      <3>1. i \in 1..(n + 1) BY <1>3
      <3>2. t[i] = Owed(q[i], i) /\ s[i] = Owed(r[i], i) BY <1>5, <3>1
      <3>. QED BY <1>3, <3>2
    <2>. QED BY <1>1, <1>9, <2>1 DEF Extends
  <1>11. /\ FlattenSeq(s) \in Seq(Messages) /\ FlattenSeq(t) \in Seq(Messages)
         /\ FlattenSeq(t) = FlattenSeq(s) \o t[Len(t)]
    BY <1>1, <1>10, FlattenOneMore
  <1>12. t[Len(t)] = Owed(m, n + 1) BY <1>8, <1>9, Zenon
  <1>13. FlattenSeq(t) = FlattenSeq(s) \o Owed(m, n + 1)
    BY <1>11, <1>12, Zenon
  <1>14. AllOwed(c)' = AllOwed(c) \o Owed(m, n + 1) BY <1>7, <1>13, Zenon
  <1>15. AllOwed(c)' \in Seq(Messages) /\ AllOwed(c) \in Seq(Messages)
    BY <1>7, <1>11, Zenon
  <1>. QED BY <1>6, <1>14, <1>15 DEF n

LEMMA InitialStream ==
  ASSUME Init
  PROVE  StreamInv
  <1>. SUFFICES ASSUME NEW c \in Conns PROVE StreamOf(c)
    BY DEF StreamInv
  <1>1. LifeOf(c) = "setup" /\ DueOf(c) = <<>>
    BY TableHolds DEF Init, LifeTable
  <1>2. Number(c) = 0 /\ wire[c] = <<>> BY DEF Init, Number
  <1>3. Debt(c) = <<>>
    <2>1. Debt(c) = [n \in 1..0 |-> Owed(requests[c][n], n)]
      BY <1>2 DEF Debt
    <2>. QED BY <2>1
  <1>4. AllOwed(c) = <<>>
    BY <1>3, AllOwedIsDebt, FlattenIsFlat
  <1>5. <<>> \in Seq(Messages) OBVIOUS
  <1>6. <<>> \o <<>> = <<>> /\ IsPrefix(<<>>, <<>>)
    BY <1>5, PrefixGrows
  <1>. QED BY <1>1, <1>2, <1>4, <1>5, <1>6 DEF StreamOf

(* A connection for which nothing changes but its life.                    *)
LEMMA StreamStays ==
  ASSUME StreamInv, NEW c \in Conns, requests' = requests, wire' = wire,
         \/ LifeOf(c)' = LifeOf(c) /\ DueOf(c)' = DueOf(c)
         \/ LifeOf(c) = "handling" /\ LifeOf(c)' = "waiting"
              /\ DueOf(c) = <<>> /\ DueOf(c)' = <<>>
         \/ LifeOf(c) = "setup" /\ LifeOf(c)' = "waiting"
              /\ DueOf(c)' = DueOf(c)
         \/ LifeOf(c)' \in {"closing", "ended"} /\ DueOf(c)' = <<>>
  PROVE  StreamOf(c)'
  <1>1. AllOwed(c)' = AllOwed(c) BY DEF AllOwed, Number
  <1>2. StreamOf(c) BY DEF StreamInv
  <1>3. <<>> \in Seq(Messages) OBVIOUS
  <1>. QED BY <1>1, <1>2, <1>3 DEF StreamOf

(* And one of which not even that can be said.                             *)
LEMMA OtherStreams ==
  ASSUME StreamInv, NEW d \in Conns, requests'[d] = requests[d],
         wire'[d] = wire[d], LifeOf(d)' = LifeOf(d), DueOf(d)' = DueOf(d)
  PROVE  StreamOf(d)'
  <1>1. AllOwed(d)' = AllOwed(d) BY DEF AllOwed, Number
  <1>2. StreamOf(d) BY DEF StreamInv
  <1>. QED BY <1>1, <1>2 DEF StreamOf

LEMMA StreamInvPreserved ==
  ASSUME IInv, FailedInv, StreamInv, [Next]_vars
  PROVE  StreamInv'
  <1>0. TypeOK /\ TypeOK' BY TypeOKPreserved DEF IInv
  <1>a. /\ wire \in [Conns -> Seq(Messages)]
        /\ requests \in [Conns -> Seq(Methods)]
    BY <1>0 DEF TypeOK, SessionTypeOK
  <1>b. /\ \A d \in Conns : LifeMap[d] = LifeOf(d) /\ DueMap[d] = DueOf(d)
        /\ \A d \in Conns : LifeMap'[d] = LifeOf(d)' /\ DueMap'[d] = DueOf(d)'
    BY DEF LifeMap, DueMap
  <1>c. DOMAIN LifeMap = Conns /\ DOMAIN DueMap = Conns
    BY DEF LifeMap, DueMap
  <1>1. CASE UNCHANGED SessionVars
    <2>1. ASSUME NEW d \in Conns PROVE StreamOf(d)'
      BY <1>1, <1>b, OtherStreams DEF SessionVars
    <2>. QED BY <2>1 DEF StreamInv
  <1>2. CASE Session!SessionNext
    <2>. DEFINE Debts == [k \in Methods |-> [i \in 1..MaxRequests |-> Owed(k, i)]]
    <2>1. PICK c \in Conns :
            \/ Session!Ready(c) \/ Session!Deliver(c) \/ Session!Ignore(c)
            \/ Session!Leave(c) \/ Session!End(c) \/ Session!Crash(c)
            \/ \E m \in DOMAIN Debts : Session!Receive(c, m)
      BY <1>2 DEF Session!SessionNext
    <2>2. ASSUME NEW d \in Conns \ {c} PROVE StreamOf(d)'
      <3>1. /\ LifeMap'[d] = LifeMap[d] /\ DueMap'[d] = DueMap[d]
            /\ requests'[d] = requests[d] /\ wire'[d] = wire[d]
        BY <1>a, <1>c, <2>1
        DEF Session!Ready, Session!Deliver, Session!Ignore, Session!Leave,
            Session!End, Session!Crash, Session!Receive, Session!Move,
            LifeMap, DueMap
      <3>. QED BY <1>b, <3>1, OtherStreams
    <2>3. ASSUME \/ Session!Ready(c) \/ Session!Ignore(c) \/ Session!Leave(c)
                 \/ Session!End(c) \/ Session!Crash(c)
          PROVE  StreamOf(c)'
      <3>1. requests' = requests /\ wire' = wire
        BY <2>3 DEF Session!Ready, Session!Ignore, Session!Leave, Session!End,
                    Session!Crash
      <3>2. CASE Session!Ready(c)
        <4>1. LifeMap[c] = "setup" /\ LifeMap'[c] = "waiting" /\ DueMap' = DueMap
          BY <1>c, <3>2 DEF Session!Ready, Session!Move, LifeMap, DueMap
        <4>2. /\ LifeOf(c) = "setup" /\ LifeOf(c)' = "waiting"
              /\ DueOf(c)' = DueOf(c)
          BY <1>b, <4>1
        <4>. QED BY <3>1, <4>2, StreamStays
      <3>3. CASE Session!Ignore(c)
        <4>1. /\ LifeMap[c] = "handling" /\ LifeMap'[c] = "waiting"
              /\ DueMap' = DueMap /\ DueMap[c] = <<>>
          BY <1>c, <3>3 DEF Session!Ignore, Session!Move, LifeMap, DueMap
        <4>2. /\ LifeOf(c) = "handling" /\ LifeOf(c)' = "waiting"
              /\ DueOf(c) = <<>> /\ DueOf(c)' = <<>>
          BY <1>b, <4>1
        <4>. QED BY <3>1, <4>2, StreamStays
      <3>4. CASE Session!Leave(c)
        <4>1. LifeMap'[c] = "closing" /\ DueMap'[c] = <<>>
          BY <1>c, <3>4 DEF Session!Leave, Session!Move, LifeMap, DueMap
        <4>2. LifeOf(c)' = "closing" /\ DueOf(c)' = <<>> BY <1>b, <4>1
        <4>. QED BY <3>1, <4>2, StreamStays
      <3>5. CASE Session!End(c)
        <4>1. LifeMap[c] = "closing" /\ LifeMap'[c] = "ended" /\ DueMap' = DueMap
          BY <1>c, <3>5 DEF Session!End, Session!Move, LifeMap, DueMap
        <4>2. DueOf(c) = <<>>
          BY <1>b, <4>1, TableHolds DEF DueOf
        <4>3. LifeOf(c)' = "ended" /\ DueOf(c)' = <<>> BY <1>b, <4>1, <4>2
        <4>. QED BY <3>1, <4>3, StreamStays
      <3>6. CASE Session!Crash(c)
        <4>1. LifeMap' = LifeMap /\ DueMap' = DueMap
          BY <3>6 DEF Session!Crash, LifeMap, DueMap
        <4>2. LifeOf(c)' = LifeOf(c) /\ DueOf(c)' = DueOf(c) BY <1>b, <4>1
        <4>. QED BY <3>1, <4>2, StreamStays
      <3>. QED BY <2>3, <3>2, <3>3, <3>4, <3>5, <3>6
    <2>4. ASSUME Session!Deliver(c) PROVE StreamOf(c)'
      <3>. DEFINE h == Head(DueOf(c))
                  t == Tail(DueOf(c))
      <3>1. /\ LifeOf(c) = "handling" /\ DueOf(c) # <<>>
            /\ wire' = [wire EXCEPT ![c] = Append(wire[c], h)]
            /\ DueMap' = [DueMap EXCEPT ![c] = t] /\ requests' = requests
            /\ \/ LifeMap' = LifeMap
               \/ t = <<>> /\ LifeMap' = [LifeMap EXCEPT ![c] = "waiting"]
        BY <1>b, <2>4 DEF Session!Deliver, LifeMap, DueMap
      <3>2. /\ wire'[c] = Append(wire[c], h) /\ DueOf(c)' = t
            /\ \/ LifeOf(c)' = "handling"
               \/ t = <<>> /\ LifeOf(c)' = "waiting"
        BY <1>a, <1>b, <1>c, <3>1
      <3>3. AllOwed(c)' = AllOwed(c) BY <3>1 DEF AllOwed, Number
      <3>4. /\ wire[c] \in Seq(Messages) /\ DueOf(c) \in Seq(Messages)
            /\ wire[c] \o DueOf(c) = AllOwed(c) /\ AllOwed(c) \in Seq(Messages)
        BY <1>a, <3>1 DEF StreamInv, StreamOf
      <3>5. /\ Append(wire[c], h) \o t = wire[c] \o DueOf(c)
            /\ Append(wire[c], h) \in Seq(Messages) /\ t \in Seq(Messages)
        BY <3>1, <3>4, HeadMoves
      <3>6. IsPrefix(Append(wire[c], h), Append(wire[c], h) \o t)
        BY <3>5, PrefixOfConcat
      <3>. HIDE DEF h, t
      <3>7. IsPrefix(wire'[c], AllOwed(c)') /\ wire'[c] \o t = AllOwed(c)'
        BY <3>2, <3>3, <3>4, <3>5, <3>6
      <3>. QED BY <3>2, <3>3, <3>4, <3>5, <3>7 DEF StreamOf
    <2>5. ASSUME NEW m \in DOMAIN Debts, Session!Receive(c, m)
          PROVE  StreamOf(c)'
      <3>. DEFINE n == Len(requests[c]) + 1
                  o == Owed(m, n)
      <3>1. /\ LifeOf(c) = "waiting" /\ wire' = wire
            /\ requests' = [requests EXCEPT ![c] = Append(requests[c], m)]
            /\ LifeMap' = [LifeMap EXCEPT ![c] = "handling"]
            /\ DueMap' = [DueMap EXCEPT ![c] = Debts[m][n]]
        BY <1>b, <2>5 DEF Session!Receive, Session!Move, LifeMap, DueMap
      <3>2. /\ AllOwed(c)' = AllOwed(c) \o o /\ n \in 1..MaxRequests
            /\ AllOwed(c)' \in Seq(Messages) /\ AllOwed(c) \in Seq(Messages)
        BY <1>0, <3>1, OneMoreRequest DEF Number
      <3>3. Debts[m][n] = o BY <2>5, <3>2
      <3>4. LifeOf(c)' = "handling" /\ DueOf(c)' = o
        <4>. HIDE DEF Debts, o, n
        <4>. QED BY <1>b, <1>c, <3>1, <3>3
      <3>5. o \in Seq(Messages) BY <3>2, OwedTyped
      <3>6. /\ wire[c] \in Seq(Messages) /\ wire[c] \o DueOf(c) = AllOwed(c)
            /\ DueOf(c) = <<>>
        BY <1>a, <3>1 DEF StreamInv, StreamOf
      <3>7. wire[c] = AllOwed(c) BY <3>6, PrefixGrows
      <3>. HIDE DEF o, n
      <3>8. IsPrefix(wire[c], wire[c] \o o) BY <3>5, <3>6, PrefixOfConcat
      <3>9. wire'[c] = wire[c] BY <3>1
      <3>10. IsPrefix(wire'[c], AllOwed(c)') /\ wire'[c] \o o = AllOwed(c)'
        BY <3>2, <3>7, <3>8, <3>9
      <3>. QED BY <3>2, <3>4, <3>5, <3>10 DEF StreamOf
    <2>6. StreamOf(c)' BY <2>1, <2>3, <2>4, <2>5
    <2>. QED BY <2>2, <2>6 DEF StreamInv
  <1>. QED BY <1>1, <1>2, SessionStepRefines

(* The messages of a client come in the order of its requests, without a   *)
(* hole, and all of them before the next request is read: for any number   *)
(* of requests, and whatever writes fail.                                  *)
THEOREM StreamsAreComplete == Spec => []StreamComplete
  <1>1. Init => StreamInv BY InitialStream
  <1>2. IInv /\ FailedInv /\ StreamInv /\ [Next]_vars => StreamInv'
    BY StreamInvPreserved
  <1>3. IInv /\ StreamInv => StreamComplete
    <2>. SUFFICES ASSUME IInv, StreamInv, NEW c \in Conns
                  PROVE  /\ IsPrefix(wire[c], AllOwed(c))
                         /\ pc[c] = "read" => wire[c] = AllOwed(c)
      BY DEF StreamComplete
    <2>1. StreamOf(c) BY DEF StreamInv
    <2>2. ASSUME pc[c] = "read" PROVE wire[c] = AllOwed(c)
      <3>1. LifeOf(c) = "waiting" /\ DueOf(c) = <<>>
        BY <2>2, TableHolds DEF LifeTable, IInv, SessionInv
      <3>2. wire[c] \o <<>> = AllOwed(c) BY <2>1, <3>1 DEF StreamOf
      <3>3. wire[c] \in Seq(Messages) BY DEF IInv, TypeOK, SessionTypeOK
      <3>. QED BY <3>2, <3>3, PrefixGrows
    <2>. QED BY <2>1, <2>2 DEF StreamOf
  <1>. QED BY <1>1, <1>2, <1>3, Invariance, FailedInvariance, PTL DEF Spec
=============================================================================
