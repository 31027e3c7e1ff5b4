----------------------- MODULE NodeIdAllocationProofs ------------------------
(* The safety of the allocation of node IDs.  NodeIdIsItsOwn, TypeOK and       *)
(* ExchangeIsNotDisturbed hold for any number of nodes, any unique IDs and any *)
(* loss of frames; WatchdogIsReset for two nodes and any delays that fit into  *)
(* the timeout of the watchdog.                                                *)
EXTENDS NodeIdAllocation, TLAPS

Requests == [first : BOOLEAN, piece : Seq(Byte)]
Answers == [uid : Seq(Byte), id : Ids \union {0}]

NodeTypes ==
    /\ uid \in UidChoices
    /\ offset \in [Node -> 0 .. UidLength]
    /\ nodeId \in [Node -> Ids \union {0}]
    /\ queue \in [Node -> Seq(Requests)]

\* No ID is given twice.
TableInjective ==
    /\ DOMAIN table \subseteq Seq(Byte)
    /\ \A u \in DOMAIN table : table[u] \in Ids
    /\ \A u, v \in DOMAIN table : table[u] = table[v] => u = v

\* What a complete answer says.
Agrees(answer) ==
    /\ Len(answer.uid) <= UidLength
    /\ Len(answer.uid) = UidLength =>
          answer.uid \in DOMAIN table /\ table[answer.uid] = answer.id

AnswersAgree ==
    /\ answers \in Seq(Answers)
    /\ \A k \in 1 .. Len(answers) : Agrees(answers[k])

Allocated ==
    \A n \in Node : nodeId[n] # 0 =>
        uid[n] \in DOMAIN table /\ table[uid[n]] = nodeId[n]

AllocatorInv == partial \in Seq(Byte) /\ TableInjective /\ AnswersAgree

IInv == NodeTypes /\ AllocatorInv /\ Allocated

\* Nothing is taken back or changed.
TableGrows ==
    \A u \in DOMAIN table : u \in DOMAIN table' /\ table'[u] = table[u]

-----------------------------------------------------------------------------
LEMMA UidIsSequence ==
    ASSUME NodeTypes, NEW n \in Node
    PROVE  uid[n] \in Seq(Byte) /\ Len(uid[n]) = UidLength
  <1>1. uid[n] \in [1 .. UidLength -> Byte]
    BY UidAssumption DEF NodeTypes
  <1> QED BY <1>1, UidAssumption

LEMMA RequestIsTyped ==
    ASSUME NodeTypes, NEW n \in Node
    PROVE  Request(n) \in Requests
  <1>1. offset[n] \in 0 .. UidLength
    BY DEF NodeTypes
  <1>2. PartOf(UidLength - offset[n]) \in 0 .. UidLength - offset[n]
    BY <1>1, UidAssumption DEF PartOf
  <1>3. Piece(n) \in Seq(Byte)
    BY <1>1, <1>2, UidIsSequence, UidAssumption DEF Piece
  <1> QED BY <1>3 DEF Request, Requests

\* An answer added to the queue agrees with the table if it did before.
LEMMA AnswerAdded ==
    ASSUME NEW answer \in Answers, AnswersAgree, TableGrows,
           answers' = Append(answers, answer), Agrees(answer)'
    PROVE  AnswersAgree'
  <1>1. answers' \in Seq(Answers)
    BY DEF AnswersAgree
  <1>2. ASSUME NEW k \in 1 .. Len(answers') PROVE Agrees(answers[k])'
    <2>1. CASE k = Len(answers) + 1
      BY <2>1 DEF AnswersAgree, Agrees
    <2>2. CASE k \in 1 .. Len(answers)
      <3>1. answers'[k] = answers[k] /\ Agrees(answers[k])
        BY <2>2 DEF AnswersAgree
      <3> QED BY <3>1 DEF Agrees, TableGrows
    <2> QED BY <1>2, <2>1, <2>2 DEF AnswersAgree
  <1> QED BY <1>1, <1>2 DEF AnswersAgree

LEMMA AllocatorStays ==
    ASSUME AllocatorInv, UNCHANGED allocator
    PROVE  AllocatorInv' /\ TableGrows
  BY DEF AllocatorInv, allocator, TableInjective, AnswersAgree, Agrees, TableGrows

\* What the allocator does with a request.
LEMMA ServeStep ==
    ASSUME AllocatorInv, NEW request \in Requests, Serve(request)
    PROVE  AllocatorInv' /\ TableGrows
  <1>0. PICK u : u = Received(request)
    OBVIOUS
  <1>1. u \in Seq(Byte)
    BY <1>0 DEF Received, Requests, AllocatorInv
  <1>2. CASE UNCHANGED allocator
    BY <1>2, AllocatorStays
  <1>3. CASE Len(u) < UidLength /\ partial' = u /\ table' = table
              /\ answers' = Append(answers, [uid |-> u, id |-> 0])
    <2>1. [uid |-> u, id |-> 0] \in Answers
      BY <1>1 DEF Answers
    <2>2. Agrees([uid |-> u, id |-> 0])'
      BY <1>1, <1>3, UidAssumption DEF Agrees
    <2>3. TableGrows
      BY <1>3 DEF TableGrows
    <2>4. AnswersAgree'
      BY <1>3, <2>1, <2>2, <2>3, AnswerAdded DEF AllocatorInv
    <2> QED BY <1>1, <1>3, <2>3, <2>4 DEF AllocatorInv, TableInjective
  <1>4. CASE /\ Len(u) = UidLength /\ CanGive(u) /\ partial' = <<>>
             /\ table' = [v \in DOMAIN table \union {u} |-> IF v = u THEN IdFor(u) ELSE table[v]]
             /\ answers' = Append(answers, [uid |-> u, id |-> IdFor(u)])
    <2>0. PICK id : id = IdFor(u)
      OBVIOUS
    <2>1. /\ id \in Ids
          /\ u \in DOMAIN table => id = table[u]
          /\ u \notin DOMAIN table => id \notin Used
      BY <1>4, <2>0 DEF CanGive, IdFor, AllocatorInv, TableInjective
    <2>7. /\ table' = [v \in DOMAIN table \union {u} |-> IF v = u THEN id ELSE table[v]]
          /\ answers' = Append(answers, [uid |-> u, id |-> id])
          /\ partial' = <<>>
      BY <1>4, <2>0
    <2>2. TableGrows
      BY <2>1, <2>7 DEF TableGrows
    <2>3. u \in DOMAIN table' /\ table'[u] = id
      BY <2>7
    <2>4. TableInjective'
      <3>1. DOMAIN table' = DOMAIN table \union {u}
        BY <2>7
      <3>2. \A v \in DOMAIN table' : table'[v] \in Ids
        BY <2>1, <2>7, <3>1 DEF AllocatorInv, TableInjective
      <3>3. ASSUME NEW v \in DOMAIN table', NEW w \in DOMAIN table', table'[v] = table'[w]
            PROVE  v = w
        <4>1. CASE v \in DOMAIN table /\ w \in DOMAIN table
          BY <2>2, <3>3, <4>1 DEF TableGrows, AllocatorInv, TableInjective
        <4>2. CASE v \notin DOMAIN table /\ w \in DOMAIN table
          BY <2>1, <2>2, <2>3, <3>1, <3>3, <4>2 DEF TableGrows, Used
        <4>3. CASE v \in DOMAIN table /\ w \notin DOMAIN table
          BY <2>1, <2>2, <2>3, <3>1, <3>3, <4>3 DEF TableGrows, Used
        <4>4. CASE v \notin DOMAIN table /\ w \notin DOMAIN table
          BY <3>1, <4>4
        <4> QED BY <4>1, <4>2, <4>3, <4>4
      <3> QED BY <1>1, <3>1, <3>2, <3>3 DEF TableInjective, AllocatorInv
    <2>5. [uid |-> u, id |-> id] \in Answers
      BY <1>1, <2>1 DEF Answers
    <2>6. Agrees([uid |-> u, id |-> id])'
      BY <1>4, <2>3, UidAssumption DEF Agrees
    <2>8. AnswersAgree'
      BY <2>2, <2>5, <2>6, <2>7, AnswerAdded DEF AllocatorInv
    <2> QED BY <2>2, <2>4, <2>7, <2>8 DEF AllocatorInv
  <1> QED BY <1>0, <1>2, <1>3, <1>4 DEF Serve

-----------------------------------------------------------------------------
\* Node IDs that are kept, or given up, keep agreeing with a table that grows.
LEMMA AllocatedStays ==
    ASSUME NodeTypes, Allocated, TableGrows, uid' = uid,
           \A n \in Node : nodeId'[n] = nodeId[n] \/ nodeId'[n] = 0
    PROVE  Allocated'
  BY DEF Allocated, TableGrows, NodeTypes

LEMMA SendRequestStep ==
    ASSUME IInv, NEW n \in Node, SendRequest(n) PROVE IInv'
  <1>1. UNCHANGED <<uid, nodeId, allocator>>
    BY DEF SendRequest
  <1>2. AllocatorInv' /\ TableGrows
    BY <1>1, AllocatorStays DEF IInv
  <1>3. offset' \in [Node -> 0 .. UidLength]
    BY UidAssumption DEF SendRequest, IInv, NodeTypes
  <1>4. queue' \in [Node -> Seq(Requests)]
    <2>1. Append(queue[n], Request(n)) \in Seq(Requests)
      BY RequestIsTyped DEF IInv, NodeTypes
    <2> QED BY <2>1 DEF SendRequest, IInv, NodeTypes
  <1>5. Allocated'
    BY <1>1, <1>2, AllocatedStays DEF IInv, allocator
  <1> QED BY <1>1, <1>2, <1>3, <1>4, <1>5 DEF IInv, NodeTypes

LEMMA TransmitStep ==
    ASSUME IInv, NEW n \in Node, Transmit(n) PROVE IInv'
  <1>1. queue[n] \in Seq(Requests) /\ queue[n] # <<>>
    BY DEF Transmit, IInv, NodeTypes
  <1>2. Head(queue[n]) \in Requests /\ Tail(queue[n]) \in Seq(Requests)
    BY <1>1
  <1>3. PICK lost \in SUBSET Stations :
          /\ HearRequest(Asking \ (lost \union {n}))
          /\ IF Allocator \in lost THEN UNCHANGED allocator ELSE Serve(Head(queue[n]))
    BY DEF Transmit
  <1>4. UNCHANGED <<uid, nodeId>> /\ offset' \in [Node -> 0 .. UidLength]
    BY <1>3, UidAssumption DEF HearRequest, IInv, NodeTypes
  <1>5. AllocatorInv' /\ TableGrows
    BY <1>2, <1>3, AllocatorStays, ServeStep DEF IInv
  <1>6. queue' \in [Node -> Seq(Requests)]
    BY <1>2 DEF Transmit, IInv, NodeTypes
  <1>7. Allocated'
    BY <1>4, <1>5, AllocatedStays DEF IInv
  <1> QED BY <1>4, <1>5, <1>6, <1>7 DEF IInv, NodeTypes

\* A node takes an ID only from an answer that holds its whole unique ID.
LEMMA AnswerStep == ASSUME IInv, Answer PROVE IInv'
  <1>1. answers \in Seq(Answers) /\ answers # <<>>
    BY DEF Answer, IInv, AllocatorInv, AnswersAgree
  <1>2. PICK answer \in Answers : answer = Head(answers) /\ Agrees(answer)
    <2>1. Head(answers) = answers[1] /\ 1 \in 1 .. Len(answers) /\ Head(answers) \in Answers
      BY <1>1
    <2> QED BY <2>1 DEF IInv, AllocatorInv, AnswersAgree
  <1>3. PICK hearing \in SUBSET Node : HearAnswer(hearing, answer)
    <2>1. PICK lost \in SUBSET Node : HearAnswer(Asking \ lost, answer)
      BY <1>2 DEF Answer
    <2> QED BY <2>1 DEF Asking
  <1>4. UNCHANGED <<uid, queue, partial, table>> /\ answers' = Tail(answers)
    BY <1>3 DEF Answer, HearAnswer
  <1>5. TableGrows
    BY <1>4 DEF TableGrows
  <1>6. AllocatorInv'
    <2>1. /\ Tail(answers) \in Seq(Answers)
          /\ Len(Tail(answers)) = Len(answers) - 1
          /\ \A k \in 1 .. Len(Tail(answers)) : Tail(answers)[k] = answers[k + 1]
      BY <1>1
    <2>2. ASSUME NEW k \in 1 .. Len(answers') PROVE Agrees(answers[k])'
      <3>1. answers'[k] = answers[k + 1] /\ k + 1 \in 1 .. Len(answers)
        BY <1>1, <1>4, <2>1
      <3>2. Agrees(answers[k + 1])
        BY <3>1 DEF IInv, AllocatorInv, AnswersAgree
      <3> QED BY <1>4, <3>1, <3>2 DEF Agrees
    <2> QED BY <1>4, <2>1, <2>2 DEF IInv, AllocatorInv, AnswersAgree, TableInjective
  <1>7. ASSUME NEW n \in Node, Match(n, answer), Complete(answer)
        PROVE  uid[n] = answer.uid /\ answer.uid \in DOMAIN table /\ table[answer.uid] = answer.id
    <2>1. answer.uid \in Seq(Byte) /\ Len(answer.uid) = UidLength
      BY <1>7 DEF Complete, Answers
    <2>2. uid[n] \in Seq(Byte) /\ Len(uid[n]) = UidLength
      BY UidIsSequence DEF IInv
    <2>3. \A j \in 1 .. UidLength : uid[n][j] = answer.uid[j]
      BY <1>7, <2>1 DEF Match
    <2>4. uid[n] = answer.uid
      BY <2>1, <2>2, <2>3
    <2> QED BY <1>2, <2>1, <2>4 DEF Agrees
  <1> DEFINE taking == {n \in hearing : Match(n, answer) /\ Complete(answer)}
  <1>8. /\ nodeId' = [n \in Node |-> IF n \in taking THEN answer.id ELSE nodeId[n]]
        /\ offset' = [n \in Node |-> IF n \in hearing \ taking THEN Stage(n, answer) ELSE offset[n]]
    BY <1>3 DEF HearAnswer
  <1>9. answer.id \in Ids \union {0} /\ Len(answer.uid) \in 0 .. UidLength
    BY <1>2, UidAssumption DEF Answers, Agrees
  <1>10. nodeId' \in [Node -> Ids \union {0}]
    BY <1>8, <1>9 DEF IInv, NodeTypes
  <1>11. offset' \in [Node -> 0 .. UidLength]
    <2>1. \A n \in Node : Stage(n, answer) \in 0 .. UidLength
      BY <1>9, UidAssumption DEF Stage
    <2> QED BY <1>8, <2>1 DEF IInv, NodeTypes
  <1>12. Allocated'
    <2> SUFFICES ASSUME NEW n \in Node, nodeId'[n] # 0
                 PROVE  uid[n] \in DOMAIN table /\ table[uid[n]] = nodeId'[n]
      BY <1>4 DEF Allocated
    <2>1. CASE n \in taking
      BY <1>7, <1>8, <2>1
    <2>2. CASE n \notin taking
      BY <1>8, <2>2 DEF IInv, Allocated
    <2> QED BY <2>1, <2>2
  <1> QED BY <1>4, <1>6, <1>10, <1>11, <1>12 DEF IInv, NodeTypes

LEMMA ForgetStep == ASSUME IInv, Forget PROVE IInv'
  BY DEF Forget, node, IInv, NodeTypes, AllocatorInv, TableInjective, AnswersAgree,
         Agrees, Allocated

LEMMA TickStep == ASSUME IInv, Tick PROVE IInv'
  BY DEF Tick, allocator, IInv, NodeTypes, AllocatorInv, TableInjective, AnswersAgree,
         Agrees, Allocated

LEMMA RestartStep ==
    ASSUME IInv, NEW n \in Node, Restart(n) PROVE IInv'
  <1>1. UNCHANGED <<uid, allocator>> /\ \A m \in Node : nodeId'[m] = nodeId[m] \/ nodeId'[m] = 0
    BY DEF Restart, IInv, NodeTypes
  <1>2. AllocatorInv' /\ TableGrows
    BY <1>1, AllocatorStays DEF IInv
  <1>3. Allocated'
    BY <1>1, <1>2, AllocatedStays DEF IInv
  <1>4. offset' \in [Node -> 0 .. UidLength] /\ nodeId' \in [Node -> Ids \union {0}]
    BY UidAssumption DEF Restart, IInv, NodeTypes
  <1>5. queue' \in [Node -> Seq(Requests)]
    BY DEF Restart, IInv, NodeTypes
  <1> QED BY <1>1, <1>2, <1>3, <1>4, <1>5 DEF IInv, NodeTypes

THEOREM AllocationInvariance == Spec => []IInv
  <1>1. Init => IInv
    <2> SUFFICES ASSUME Init PROVE IInv
      OBVIOUS
    <2>1. NodeTypes
      BY UidAssumption DEF Init, NodeTypes
    <2>2. AllocatorInv
      BY DEF Init, AllocatorInv, TableInjective, AnswersAgree
    <2> QED BY <2>1, <2>2 DEF Init, IInv, Allocated
  <1>2. IInv /\ [Next]_vars => IInv'
    <2> SUFFICES ASSUME IInv, [Next]_vars PROVE IInv'
      OBVIOUS
    <2>1. CASE UNCHANGED vars
      BY <2>1 DEF vars, node, allocator, IInv, NodeTypes, AllocatorInv,
                  TableInjective, AnswersAgree, Agrees, Allocated
    <2> QED BY <2>1, SendRequestStep, TransmitStep, RestartStep, AnswerStep,
               ForgetStep, TickStep DEF Next
  <1> QED BY <1>1, <1>2, PTL DEF Spec

(* NodeIdIsItsOwn: whatever the nodes, their unique IDs, the order of their    *)
(* exchanges and the frames that are lost.                                     *)
THEOREM NodeIdsAreOwn == Spec => []NodeIdIsItsOwn
  <1>1. IInv => NodeIdIsItsOwn
    <2> SUFFICES ASSUME IInv PROVE NodeIdIsItsOwn
      OBVIOUS
    <2>1. Allocated
      BY DEF IInv
    <2>2. ASSUME NEW m \in Node, NEW n \in Node, nodeId[m] # 0, nodeId[m] = nodeId[n]
          PROVE  m = n
      <3>1. uid[m] = uid[n]
        BY <2>1, <2>2 DEF Allocated, IInv, AllocatorInv, TableInjective
      <3> QED BY <3>1, UidAssumption DEF IInv, NodeTypes
    <2> QED BY <2>1, <2>2 DEF Allocated, NodeIdIsItsOwn
  <1> QED BY <1>1, AllocationInvariance, PTL

-----------------------------------------------------------------------------
(* The stages of an exchange.                                                  *)

Part == MaxLenOfUniqueIDInRequest
Stages == {0, Part, 2 * Part}

(* A request is as long as its stage makes it.                                 *)
FitsStage(request) ==
    IF request.first THEN Len(request.piece) = Part
    ELSE Len(request.piece) \in {Part, UidLength - 2 * Part}

StagesInv ==
    /\ \A n \in Node : offset[n] \in Stages
    /\ \A n \in Node : \A k \in 1 .. Len(queue[n]) : FitsStage(queue[n][k])
    /\ Len(partial) \in Stages
    /\ \A k \in 1 .. Len(answers) : Len(answers[k].uid) \in {Part, 2 * Part, UidLength}
    /\ unfed \in [Node -> 0 .. WatchdogTicks]

LEMMA Lengths ==
    /\ UidLength \in Nat /\ Part \in Nat /\ Part > 0 /\ WatchdogTicks \in Nat
    /\ 2 * Part < UidLength /\ UidLength <= 3 * Part
    /\ PartOf(UidLength) = Part /\ PartOf(UidLength - Part) = Part
    /\ PartOf(UidLength - 2 * Part) = UidLength - 2 * Part
  BY UidAssumption, StagesAssumption, DelaysAssumption DEF Part, PartOf

\* The request a node builds from its stage.
LEMMA RequestFits ==
    ASSUME IInv, StagesInv, NEW n \in Node
    PROVE  FitsStage(Request(n))
  <1>1. uid[n] \in Seq(Byte) /\ Len(uid[n]) = UidLength
    BY UidIsSequence DEF IInv
  <1>2. Request(n).first = (offset[n] = 0) /\ Request(n).piece = Piece(n)
    BY DEF Request
  <1>3. offset[n] \in Stages
    BY DEF StagesInv
  <1>4. CASE offset[n] = 0
    <2>1. Piece(n) = SubSeq(uid[n], 1, Part)
      BY <1>4, Lengths DEF Piece
    <2>2. Len(Piece(n)) = Part
      BY <2>1, <1>1, Lengths
    <2> QED BY <1>2, <1>4, <2>2 DEF FitsStage
  <1>5. CASE offset[n] = Part
    <2>1. Piece(n) = SubSeq(uid[n], Part + 1, Part + Part)
      BY <1>5, Lengths DEF Piece
    <2>2. Len(Piece(n)) = Part
      BY <2>1, <1>1, Lengths
    <2> QED BY <1>2, <1>5, <2>2, Lengths DEF FitsStage
  <1>6. CASE offset[n] = 2 * Part
    <2>1. Piece(n) = SubSeq(uid[n], 2 * Part + 1, UidLength)
      BY <1>6, Lengths DEF Piece
    <2>2. Len(Piece(n)) = UidLength - 2 * Part
      BY <2>1, <1>1, Lengths
    <2>3. offset[n] # 0
      BY <1>6, Lengths
    <2> QED BY <1>2, <2>2, <2>3 DEF FitsStage
  <1> QED BY <1>3, <1>4, <1>5, <1>6 DEF Stages

\* What the allocator makes of a request that fits.
LEMMA ServeFits ==
    ASSUME IInv, StagesInv, NEW request \in Requests, FitsStage(request), Serve(request)
    PROVE  /\ Len(partial') \in Stages
           /\ \/ answers' = answers
              \/ \E answer \in Answers : /\ Len(answer.uid) \in {Part, 2 * Part, UidLength}
                                         /\ answers' = Append(answers, answer)
  <1>0. PICK u : u = Received(request)
    OBVIOUS
  <1>1. u \in Seq(Byte)
    BY <1>0 DEF Received, Requests, IInv, AllocatorInv
  <1>2. partial \in Seq(Byte) /\ Len(partial) \in Stages /\ request.piece \in Seq(Byte)
    BY DEF IInv, AllocatorInv, StagesInv, Requests
  <1>3. request.first \/ Extends(request) => Len(u) \in {Part, 2 * Part, UidLength}
    <2>1. CASE request.first
      BY <1>0, <2>1 DEF Received, FitsStage
    <2>2. CASE ~request.first /\ Extends(request)
      <3>1. Len(u) = Len(partial) + Len(request.piece)
        BY <1>0, <1>2, <2>2 DEF Received
      <3>2. Len(partial) # 0 /\ Len(request.piece) = PartOf(UidLength - Len(partial))
        BY <1>2, <2>2 DEF Extends
      <3>3. CASE Len(partial) = Part
        BY <3>1, <3>2, <3>3, Lengths
      <3>4. CASE Len(partial) = 2 * Part
        BY <3>1, <3>2, <3>4, Lengths
      <3> QED BY <1>2, <3>2, <3>3, <3>4 DEF Stages
    <2> QED BY <2>1, <2>2
  <1>4. CASE UNCHANGED allocator
    BY <1>2, <1>4 DEF allocator
  <1>5. CASE /\ Len(u) \in {Part, 2 * Part, UidLength} /\ Len(u) < UidLength
             /\ partial' = u
             /\ answers' = Append(answers, [uid |-> u, id |-> 0])
    <2>1. [uid |-> u, id |-> 0] \in Answers /\ [uid |-> u, id |-> 0].uid = u
      BY <1>1 DEF Answers
    <2>2. Len(partial') \in Stages
      BY <1>5 DEF Stages
    <2> QED BY <1>5, <2>1, <2>2
  <1>6. CASE /\ Len(u) = UidLength /\ CanGive(u) /\ partial' = <<>>
             /\ answers' = Append(answers, [uid |-> u, id |-> IdFor(u)])
    <2>0. PICK id : id = IdFor(u)
      OBVIOUS
    <2>1. id \in Ids
      BY <1>6, <2>0 DEF CanGive, IdFor, IInv, AllocatorInv, TableInjective
    <2>2. [uid |-> u, id |-> id] \in Answers /\ [uid |-> u, id |-> id].uid = u
      BY <1>1, <2>1 DEF Answers
    <2>3. answers' = Append(answers, [uid |-> u, id |-> id]) /\ partial' = <<>>
      BY <1>6, <2>0
    <2>4. Len(partial') \in Stages
      BY <2>3 DEF Stages
    <2> QED BY <1>6, <2>2, <2>3, <2>4
  <1> QED BY <1>0, <1>3, <1>4, <1>5, <1>6 DEF Serve

\* What a node makes of an answer is one of its stages.
LEMMA StageFits ==
    ASSUME NEW n \in Node, NEW answer \in Answers,
           Len(answer.uid) \in {Part, 2 * Part, UidLength},
           ~(Match(n, answer) /\ Complete(answer))
    PROVE  Stage(n, answer) \in Stages
  BY DEF Stage, Complete, Stages

LEMMA SendRequestStages ==
    ASSUME IInv, StagesInv, NEW n \in Node, SendRequest(n) PROVE StagesInv'
  <1>1. offset' = [offset EXCEPT ![n] = 0] /\ unfed' = [unfed EXCEPT ![n] = 0]
        /\ queue' = [queue EXCEPT ![n] = Append(@, Request(n))]
        /\ UNCHANGED <<partial, answers>>
    BY DEF SendRequest, allocator
  <1>2. \A m \in Node : offset'[m] \in Stages
    BY <1>1 DEF StagesInv, Stages, IInv, NodeTypes
  <1>3. unfed' \in [Node -> 0 .. WatchdogTicks]
    BY <1>1, Lengths DEF StagesInv
  <1>4. ASSUME NEW m \in Node, NEW k \in 1 .. Len(queue'[m]) PROVE FitsStage(queue'[m][k])
    <2>1. queue[m] \in Seq(Requests) /\ queue[n] \in Seq(Requests) /\ DOMAIN queue = Node
      BY DEF IInv, NodeTypes
    <2>2. CASE m = n
      <3>1. queue'[m] = Append(queue[m], Request(n))
        BY <1>1, <2>1, <2>2
      <3>2. k \in 1 .. Len(queue[m]) + 1
        BY <2>1, <3>1, <1>4
      <3>3. CASE k = Len(queue[m]) + 1
        BY <2>1, <3>1, <3>3, RequestFits
      <3>4. CASE k \in 1 .. Len(queue[m])
        <4>1. queue'[m][k] = queue[m][k]
          BY <2>1, <3>1, <3>4
        <4> QED BY <4>1, <3>4 DEF StagesInv
      <3> QED BY <2>1, <3>2, <3>3, <3>4
    <2>3. CASE m # n
      <3>1. queue'[m] = queue[m]
        BY <1>1, <2>1, <2>3
      <3> QED BY <3>1, <1>4 DEF StagesInv
    <2> QED BY <2>2, <2>3
  <1>5. \A m \in Node : \A k \in 1 .. Len(queue'[m]) : FitsStage(queue[m][k])'
    BY <1>4 DEF FitsStage
  <1> QED BY <1>1, <1>2, <1>3, <1>5 DEF StagesInv

LEMMA TransmitStages ==
    ASSUME IInv, StagesInv, NEW n \in Node, Transmit(n) PROVE StagesInv'
  <1>1. queue[n] \in Seq(Requests) /\ queue[n] # <<>> /\ DOMAIN queue = Node
    BY DEF Transmit, IInv, NodeTypes
  <1>2. Head(queue[n]) \in Requests /\ FitsStage(Head(queue[n]))
    <2>1. Head(queue[n]) = queue[n][1] /\ 1 \in 1 .. Len(queue[n]) /\ Head(queue[n]) \in Requests
      BY <1>1
    <2> QED BY <2>1 DEF StagesInv
  <1>3. PICK lost \in SUBSET Stations :
          /\ HearRequest(Asking \ (lost \union {n}))
          /\ IF Allocator \in lost THEN UNCHANGED allocator ELSE Serve(Head(queue[n]))
    BY DEF Transmit
  <1>4. \A m \in Node : offset'[m] \in Stages
    BY <1>3 DEF HearRequest, StagesInv, Stages
  <1>5. unfed' = unfed
    BY <1>3 DEF HearRequest
  <1>6. \A m \in Node : \A k \in 1 .. Len(queue'[m]) : FitsStage(queue[m][k])'
    <2> SUFFICES ASSUME NEW m \in Node, NEW k \in 1 .. Len(queue'[m]) PROVE FitsStage(queue'[m][k])
      BY DEF FitsStage
    <2>1. queue' = [queue EXCEPT ![n] = Tail(queue[n])]
      BY DEF Transmit
    <2>2. CASE m = n
      <3>1. /\ queue'[m] = Tail(queue[m])
            /\ Len(Tail(queue[m])) = Len(queue[m]) - 1
            /\ \A j \in 1 .. Len(Tail(queue[m])) : Tail(queue[m])[j] = queue[m][j + 1]
        BY <1>1, <2>1, <2>2
      <3>2. k + 1 \in 1 .. Len(queue[m]) /\ queue'[m][k] = queue[m][k + 1]
        BY <1>1, <2>2, <3>1
      <3> QED BY <3>2 DEF StagesInv
    <2>3. CASE m # n
      <3>1. queue'[m] = queue[m]
        BY <1>1, <2>1, <2>3
      <3> QED BY <3>1 DEF StagesInv
    <2> QED BY <2>2, <2>3
  <1>7. Len(partial') \in Stages /\ \A k \in 1 .. Len(answers') : Len(answers'[k].uid) \in {Part, 2 * Part, UidLength}
    <2>1. CASE UNCHANGED <<partial, answers>>
      BY <2>1 DEF StagesInv
    <2>2. CASE Serve(Head(queue[n]))
      <3>1. /\ Len(partial') \in Stages
            /\ \/ answers' = answers
               \/ \E answer \in Answers : /\ Len(answer.uid) \in {Part, 2 * Part, UidLength}
                                          /\ answers' = Append(answers, answer)
        BY <1>2, <2>2, ServeFits
      <3>2. CASE answers' = answers
        BY <3>1, <3>2 DEF StagesInv
      <3>3. ASSUME NEW answer \in Answers, Len(answer.uid) \in {Part, 2 * Part, UidLength},
                   answers' = Append(answers, answer), NEW k \in 1 .. Len(answers')
            PROVE  Len(answers'[k].uid) \in {Part, 2 * Part, UidLength}
        <4>1. answers \in Seq(Answers)
          BY DEF IInv, AllocatorInv, AnswersAgree
        <4>2. k \in 1 .. Len(answers) + 1
          BY <3>3, <4>1
        <4>3. CASE k = Len(answers) + 1
          BY <3>3, <4>1, <4>3
        <4>4. CASE k \in 1 .. Len(answers)
          <5>1. answers'[k] = answers[k]
            BY <3>3, <4>1, <4>4
          <5> QED BY <5>1, <4>4 DEF StagesInv
        <4> QED BY <4>1, <4>2, <4>3, <4>4
      <3> QED BY <3>1, <3>2, <3>3
    <2> QED BY <1>3, <2>1, <2>2 DEF allocator
  <1> QED BY <1>4, <1>5, <1>6, <1>7 DEF StagesInv

LEMMA AnswerStages == ASSUME IInv, StagesInv, Answer PROVE StagesInv'
  <1>1. answers \in Seq(Answers) /\ answers # <<>>
    BY DEF Answer, IInv, AllocatorInv, AnswersAgree
  <1>2. PICK answer \in Answers : answer = Head(answers) /\ Len(answer.uid) \in {Part, 2 * Part, UidLength}
    <2>1. Head(answers) = answers[1] /\ 1 \in 1 .. Len(answers) /\ Head(answers) \in Answers
      BY <1>1
    <2> QED BY <2>1 DEF StagesInv
  <1>3. PICK hearing \in SUBSET Node : HearAnswer(hearing, answer)
    <2>1. PICK lost \in SUBSET Node : HearAnswer(Asking \ lost, answer)
      BY <1>2 DEF Answer
    <2> QED BY <2>1 DEF Asking
  <1>4. UNCHANGED <<queue, partial>> /\ answers' = Tail(answers)
    BY DEF Answer
  <1> DEFINE taking == {n \in hearing : Match(n, answer) /\ Complete(answer)}
  <1>5. /\ offset' = [n \in Node |-> IF n \in hearing \ taking THEN Stage(n, answer) ELSE offset[n]]
        /\ unfed' = [n \in Node |-> IF n \in taking THEN 0 ELSE unfed[n]]
    BY <1>3 DEF HearAnswer
  <1>6. ASSUME NEW n \in Node PROVE offset'[n] \in Stages
    <2>1. CASE n \in hearing \ taking
      BY <1>2, <1>5, <2>1, StageFits
    <2>2. CASE n \notin hearing \ taking
      BY <1>5, <2>2 DEF StagesInv
    <2> QED BY <2>1, <2>2
  <1>7. unfed' \in [Node -> 0 .. WatchdogTicks]
    BY <1>5, Lengths DEF StagesInv
  <1>8. \A k \in 1 .. Len(answers') : Len(answers'[k].uid) \in {Part, 2 * Part, UidLength}
    <2>1. /\ Len(Tail(answers)) = Len(answers) - 1
          /\ \A k \in 1 .. Len(Tail(answers)) : Tail(answers)[k] = answers[k + 1]
      BY <1>1
    <2> SUFFICES ASSUME NEW k \in 1 .. Len(answers')
                 PROVE  Len(answers'[k].uid) \in {Part, 2 * Part, UidLength}
      OBVIOUS
    <2>2. answers'[k] = answers[k + 1] /\ k + 1 \in 1 .. Len(answers)
      BY <1>1, <1>4, <2>1
    <2> QED BY <2>2 DEF StagesInv
  <1> QED BY <1>4, <1>6, <1>7, <1>8 DEF StagesInv, FitsStage

LEMMA OtherStages ==
    ASSUME IInv, StagesInv, Forget \/ Tick \/ \E n \in Node : Restart(n) PROVE StagesInv'
  <1>1. CASE Forget
    <2>1. Len(partial') \in Stages
      BY <1>1 DEF Forget, Stages
    <2> QED BY <1>1, <2>1 DEF Forget, node, StagesInv, FitsStage
  <1>2. CASE Tick
    <2>1. unfed' = [n \in Node |-> IF n \in Asking THEN LongerWait(n) ELSE 0]
          /\ UNCHANGED <<offset, queue, partial, answers>>
      BY <1>2 DEF Tick, allocator
    <2>2. unfed' \in [Node -> 0 .. WatchdogTicks]
      BY <2>1, Lengths DEF StagesInv, LongerWait
    <2> QED BY <2>1, <2>2 DEF StagesInv, FitsStage
  <1>3. ASSUME NEW n \in Node, Restart(n) PROVE StagesInv'
    <2>1. /\ offset' = [offset EXCEPT ![n] = 0] /\ unfed' = [unfed EXCEPT ![n] = 0]
          /\ queue' = [queue EXCEPT ![n] = <<>>] /\ UNCHANGED <<partial, answers>>
      BY <1>3 DEF Restart, allocator
    <2>2. unfed' \in [Node -> 0 .. WatchdogTicks]
      BY <2>1, Lengths DEF StagesInv
    <2>3. \A m \in Node : offset'[m] \in Stages
      BY <2>1 DEF StagesInv, Stages, IInv, NodeTypes
    <2>4. ASSUME NEW m \in Node, NEW k \in 1 .. Len(queue'[m]) PROVE FitsStage(queue'[m][k])
      BY <2>1, <2>4 DEF StagesInv, IInv, NodeTypes
    <2>5. \A m \in Node : \A k \in 1 .. Len(queue'[m]) : FitsStage(queue[m][k])'
      BY <2>4 DEF FitsStage
    <2> QED BY <2>1, <2>2, <2>3, <2>5 DEF StagesInv
  <1> QED BY <1>1, <1>2, <1>3

THEOREM StagesInvariance == Spec => []StagesInv
  <1>1. Init => StagesInv
    BY Lengths DEF Init, StagesInv, Stages
  <1>2. IInv /\ StagesInv /\ [Next]_vars => StagesInv'
    <2> SUFFICES ASSUME IInv, StagesInv, [Next]_vars PROVE StagesInv'
      OBVIOUS
    <2>1. CASE UNCHANGED vars
      BY <2>1 DEF vars, node, allocator, StagesInv, FitsStage
    <2> QED BY <2>1, SendRequestStages, TransmitStages, AnswerStages, OtherStages DEF Next
  <1> QED BY <1>1, <1>2, AllocationInvariance, PTL DEF Spec

(* The assertions on the offset and the length of a request (lines 585-588),   *)
(* for any length of the unique ID that three requests carry: every node is at *)
(* one of the three stages and the allocator never holds more than two parts.  *)
THEOREM StagesAreThree == Spec => []TypeOK
  <1>1. IInv /\ StagesInv => TypeOK
    <2> SUFFICES ASSUME IInv, StagesInv PROVE TypeOK
      OBVIOUS
    <2>1. offset \in [Node -> {0, MaxLenOfUniqueIDInRequest, 2 * MaxLenOfUniqueIDInRequest}]
      BY DEF IInv, NodeTypes, StagesInv, Stages, Part
    <2>2. ASSUME NEW n \in Node PROVE offset[n] < UidLength
      <3>1. offset[n] \in {0, Part, 2 * Part}
        BY DEF StagesInv, Stages
      <3> QED BY <3>1, Lengths
    <2>3. Len(partial) < UidLength
      BY Lengths DEF StagesInv, Stages
    <2> QED BY <2>1, <2>2, <2>3 DEF TypeOK, IInv, NodeTypes, StagesInv
  <1> QED BY <1>1, AllocationInvariance, StagesInvariance, PTL

-----------------------------------------------------------------------------
(* Rule C.                                                                     *)

(* As long as nothing was lost, a node in an exchange is about to go on with   *)
(* it, and any other node is at the same stage or waits longer.                *)
RuleC ==
    \A n \in Asking : offset[n] # 0 =>
        /\ \E f \in FollowupDelays : timer[n] <= f
        /\ \A m \in Asking \ {n} : offset[m] = offset[n] \/ timer[m] > timer[n]

DelaysInv ==
    /\ timer \in [Node -> Nat]
    /\ faults \in Nat
    /\ faults = 0 => RuleC

\* The follow-up is due before any other request.
LEMMA FollowupFirst ==
    ASSUME NEW t \in Nat, NEW f \in FollowupDelays, t <= f, NEW r \in RequestDelays
    PROVE  r \in Nat /\ t < r
  BY DelaysAssumption

LEMMA Delays ==
    /\ \A r \in RequestDelays : r \in Nat
    /\ \A f \in FollowupDelays : f \in Nat
    /\ \A r \in RequestDelays, f \in FollowupDelays : f < r
  BY DelaysAssumption

\* What a step without a fault or a restart does to the nodes that still ask.
LEMMA RestartedStep ==
    ASSUME IInv, DelaysInv, NEW n \in Node, SendRequest(n) \/ Restart(n)
    PROVE  DelaysInv'
  <1>1. PICK d \in RequestDelays : timer' = [timer EXCEPT ![n] = d]
    BY DEF SendRequest, Restart
  <1>2. d \in Nat /\ timer \in [Node -> Nat]
    BY Delays DEF DelaysInv
  <1>3. timer' \in [Node -> Nat] /\ timer'[n] = d
        /\ \A m \in Node \ {n} : timer'[m] = timer[m]
    BY <1>1, <1>2
  <1>4. CASE Restart(n)
    <2>1. faults \in Nat /\ faults' = faults + 1
      BY <1>4 DEF Restart, DelaysInv
    <2> QED BY <2>1, <1>3 DEF DelaysInv
  <1>5. CASE SendRequest(n)
    <2>1. /\ offset' = [offset EXCEPT ![n] = 0] /\ faults' = faults /\ nodeId' = nodeId
          /\ offset \in [Node -> 0 .. UidLength]
      BY <1>5 DEF SendRequest, IInv, NodeTypes
    <2>2. Asking' = Asking
      BY <2>1 DEF Asking
    <2>3. ASSUME faults = 0, NEW k \in Asking, offset'[k] # 0
          PROVE  /\ \E f \in FollowupDelays : timer'[k] <= f
                 /\ \A m \in Asking \ {k} : offset'[m] = offset'[k] \/ timer'[m] > timer'[k]
      <3>1. k # n /\ k \in Node /\ offset'[k] = offset[k] /\ timer'[k] = timer[k]
        BY <2>1, <2>3, <1>3 DEF Asking
      <3>2. /\ \E f \in FollowupDelays : timer[k] <= f
            /\ \A m \in Asking \ {k} : offset[m] = offset[k] \/ timer[m] > timer[k]
        BY <2>3, <3>1 DEF DelaysInv, RuleC
      <3>3. timer'[n] > timer'[k]
        BY <3>1, <3>2, <1>2, <1>3, Delays
      <3>4. \A m \in Asking \ {k} : m # n => offset'[m] = offset[m] /\ timer'[m] = timer[m]
        BY <2>1, <1>3 DEF Asking
      <3> QED BY <3>1, <3>2, <3>3, <3>4
    <2>4. faults' = 0 => RuleC'
      BY <2>1, <2>2, <2>3 DEF RuleC
    <2> QED BY <1>3, <2>1, <2>4 DEF DelaysInv
  <1> QED BY <1>4, <1>5

\* A frame that nobody misses.
LEMMA NothingLost ==
    ASSUME DelaysInv, NEW lost, Missing(lost), faults' = 0
    PROVE  lost = {} /\ faults = 0
  BY DEF Missing, DelaysInv

\* Every drawn delay is one of its range.
LEMMA Redrawn ==
    ASSUME NEW delays, Redraw(delays), NEW n \in Node
    PROVE  timer' \in [Node -> UNION {delays[m] : m \in Node}] /\ timer'[n] \in delays[n]
  BY DEF Redraw

(* A request stops every exchange but the one of its own node.                 *)
LEMMA TransmitDelays ==
    ASSUME IInv, DelaysInv, NEW n \in Node, Transmit(n) PROVE DelaysInv'
  <1>1. PICK lost \in SUBSET Stations : Missing(lost) /\ HearRequest(Asking \ (lost \union {n}))
    BY DEF Transmit
  <1> DEFINE hearing == Asking \ (lost \union {n})
  <1> DEFINE delays == [m \in Node |-> IF m \in hearing THEN RequestDelays ELSE {timer[m]}]
  <1>2. Redraw(delays) /\ nodeId' = nodeId
        /\ offset' = [m \in Node |-> IF m \in hearing THEN 0 ELSE offset[m]]
    BY <1>1 DEF HearRequest
  <1>3. faults \in Nat /\ faults' \in Nat
    BY <1>1 DEF Missing, DelaysInv
  <1>4. timer \in [Node -> Nat]
    BY DEF DelaysInv
  <1>5. \A m \in Node : delays[m] \subseteq Nat
    BY <1>4, Delays
  <1>6. timer' \in [Node -> Nat]
    <2>1. \A m \in Node : timer'[m] \in delays[m]
      BY <1>2, Redrawn
    <2>2. timer' \in [Node -> UNION {delays[m] : m \in Node}]
      BY <1>2 DEF Redraw
    <2> HIDE DEF delays
    <2> QED BY <2>1, <2>2, <1>5
  <1>7. ASSUME faults' = 0 PROVE RuleC'
    <2>1. lost = {} /\ faults = 0
      BY <1>1, <1>7, NothingLost
    <2>2. hearing = Asking \ {n} /\ Asking' = Asking
      BY <2>1, <1>2 DEF Asking
    <2>3. \A m \in Asking \ {n} : offset'[m] = 0 /\ timer'[m] \in RequestDelays
      <3> TAKE m \in Asking \ {n}
      <3>1. m \in Node /\ m \in hearing
        BY <2>2 DEF Asking
      <3>2. delays[m] = RequestDelays
        BY <3>1
      <3>3. timer'[m] \in delays[m]
        BY <3>1, <1>2, Redrawn
      <3> QED BY <3>1, <3>2, <3>3, <1>2
    <2>4. offset'[n] = offset[n] /\ timer'[n] = timer[n]
      <3>1. delays[n] = {timer[n]} /\ n \notin hearing
        BY <2>2
      <3>2. timer'[n] \in delays[n]
        BY <1>2, Redrawn
      <3> QED BY <3>1, <3>2, <1>2
    <2>5. ASSUME n \in Asking, offset[n] # 0
          PROVE  /\ \E f \in FollowupDelays : timer'[n] <= f
                 /\ \A m \in Asking \ {n} : timer'[m] > timer'[n]
      <3>1. PICK f \in FollowupDelays : timer[n] <= f
        BY <2>1, <2>5 DEF DelaysInv, RuleC
      <3>2. timer[n] \in Nat
        BY <1>4
      <3> QED BY <2>3, <2>4, <3>1, <3>2, FollowupFirst
    <2> QED BY <2>2, <2>3, <2>4, <2>5 DEF RuleC
  <1> QED BY <1>3, <1>6, <1>7 DEF DelaysInv

(* An answer takes the nodes it matches one stage further, and they go on      *)
(* before anybody else asks.                                                   *)
LEMMA AnswerDelays ==
    ASSUME IInv, DelaysInv, Answer PROVE DelaysInv'
  <1>1. answers \in Seq(Answers) /\ answers # <<>>
    BY DEF Answer, IInv, AllocatorInv, AnswersAgree
  <1>2. PICK answer \in Answers : answer = Head(answers) /\ Agrees(answer)
    <2>1. Head(answers) = answers[1] /\ 1 \in 1 .. Len(answers) /\ Head(answers) \in Answers
      BY <1>1
    <2> QED BY <2>1 DEF IInv, AllocatorInv, AnswersAgree
  <1>3. PICK lost \in SUBSET Node : Missing(lost) /\ HearAnswer(Asking \ lost, answer)
    BY <1>2 DEF Answer
  <1> DEFINE hearing == Asking \ lost
             taking == {n \in hearing : Match(n, answer) /\ Complete(answer)}
             delays == [n \in Node |-> IF n \in taking THEN {0}
                                       ELSE IF n \in hearing THEN NextDelays(n, answer)
                                       ELSE {timer[n]}]
  <1>4. /\ Redraw(delays)
        /\ nodeId' = [n \in Node |-> IF n \in taking THEN answer.id ELSE nodeId[n]]
        /\ offset' = [n \in Node |-> IF n \in hearing \ taking THEN Stage(n, answer) ELSE offset[n]]
    BY <1>3 DEF HearAnswer
  <1>5. faults \in Nat /\ faults' \in Nat /\ timer \in [Node -> Nat]
    BY <1>3 DEF Missing, DelaysInv
  <1>6. timer' \in [Node -> Nat]
    <2>1. \A n \in Node : delays[n] \subseteq Nat
      BY <1>5, Delays DEF NextDelays
    <2>2. \A n \in Node : timer'[n] \in delays[n]
      BY <1>4, Redrawn
    <2>3. timer' \in [Node -> UNION {delays[n] : n \in Node}]
      BY <1>4 DEF Redraw
    <2> HIDE DEF delays
    <2> QED BY <2>1, <2>2, <2>3
  <1>7. ASSUME NEW n \in taking PROVE n \in Node /\ nodeId'[n] # 0
    <2>1. n \in Node /\ Complete(answer)
      BY DEF Asking
    <2>2. answer.id \in Ids
      BY <1>2, <2>1 DEF Complete, Agrees, IInv, AllocatorInv, TableInjective
    <2> QED BY <1>4, <2>1, <2>2, IdAssumption
  <1>8. ASSUME faults' = 0 PROVE RuleC'
    <2>1. hearing = Asking /\ faults = 0
      BY <1>3, <1>8, NothingLost
    <2>2. Asking' = Asking \ taking
      BY <1>4, <1>7 DEF Asking
    <2>3. ASSUME NEW n \in Asking'
          PROVE  /\ n \in Node /\ offset'[n] = Stage(n, answer) /\ timer'[n] \in NextDelays(n, answer)
                 /\ ~(Match(n, answer) /\ Complete(answer))
      <3>1. n \in Node /\ n \in hearing /\ n \notin taking
        BY <2>1, <2>2 DEF Asking
      <3>2. delays[n] = NextDelays(n, answer)
        BY <3>1
      <3>3. timer'[n] \in delays[n]
        BY <3>1, <1>4, Redrawn
      <3> QED BY <3>1, <3>2, <3>3, <1>4
    <2> SUFFICES ASSUME NEW n \in Asking', offset'[n] # 0
                 PROVE  /\ \E f \in FollowupDelays : timer'[n] <= f
                        /\ \A m \in Asking' \ {n} : offset'[m] = offset'[n] \/ timer'[m] > timer'[n]
      BY DEF RuleC
    <2>4. Match(n, answer) /\ ~Complete(answer)
      BY <2>3 DEF Stage
    <2>5. PICK f \in FollowupDelays : timer'[n] = f
      BY <2>3, <2>4 DEF NextDelays
    <2>6. f \in Nat /\ f <= f
      BY Delays
    <2>7. ASSUME NEW m \in Asking' \ {n} PROVE offset'[m] = offset'[n] \/ timer'[m] > timer'[n]
      <3>1. offset'[m] = Stage(m, answer) /\ offset'[n] = Stage(n, answer)
        BY <2>3
      <3>2. CASE Match(m, answer)
        BY <3>1, <3>2, <2>4 DEF Stage
      <3>3. CASE ~Match(m, answer)
        <4>1. PICK r \in RequestDelays : timer'[m] = r
          BY <2>3, <3>3 DEF NextDelays
        <4> QED BY <4>1, <2>5, <2>6, Delays
      <3> QED BY <3>2, <3>3
    <2> QED BY <2>5, <2>6, <2>7
  <1> QED BY <1>5, <1>6, <1>8 DEF DelaysInv

(* Time passes for all nodes that ask alike.                                   *)
LEMMA TickDelays ==
    ASSUME IInv, DelaysInv, Tick PROVE DelaysInv'
  <1>1. /\ timer' = [n \in Node |-> IF n \in Asking THEN timer[n] - 1 ELSE timer[n]]
        /\ \A n \in Asking : timer[n] > 0
        /\ faults' = faults \/ faults' = faults + 1
        /\ UNCHANGED <<offset, nodeId>>
    BY DEF Tick
  <1>2. faults \in Nat /\ timer \in [Node -> Nat]
    BY DEF DelaysInv
  <1>3. timer' \in [Node -> Nat]
    BY <1>1, <1>2
  <1>4. ASSUME faults' = 0 PROVE RuleC'
    <2>1. faults = 0 /\ Asking' = Asking /\ Asking \subseteq Node
      BY <1>1, <1>2, <1>4 DEF Asking
    <2>2. \A n \in Asking : timer'[n] = timer[n] - 1 /\ timer[n] \in Nat
      BY <1>1, <1>2, <2>1
    <2> SUFFICES ASSUME NEW n \in Asking, offset[n] # 0
                 PROVE  /\ \E f \in FollowupDelays : timer'[n] <= f
                        /\ \A m \in Asking \ {n} : offset[m] = offset[n] \/ timer'[m] > timer'[n]
      BY <1>1, <2>1 DEF RuleC
    <2>3. PICK f \in FollowupDelays : timer[n] <= f
      BY <2>1 DEF DelaysInv, RuleC
    <2>4. timer'[n] <= f
      BY <2>2, <2>3, Delays
    <2>5. ASSUME NEW m \in Asking \ {n} PROVE offset[m] = offset[n] \/ timer'[m] > timer'[n]
      <3>1. offset[m] = offset[n] \/ timer[m] > timer[n]
        BY <2>1 DEF DelaysInv, RuleC
      <3> QED BY <3>1, <2>2
    <2> QED BY <2>3, <2>4, <2>5
  <1>5. faults' \in Nat
    BY <1>1, <1>2
  <1> QED BY <1>3, <1>4, <1>5 DEF DelaysInv

THEOREM DelaysInvariance == Spec => []DelaysInv
  <1>1. Init => DelaysInv
    <2> SUFFICES ASSUME Init PROVE DelaysInv
      OBVIOUS
    <2>1. timer \in [Node -> Nat] /\ faults \in Nat
      BY Delays DEF Init
    <2>2. RuleC
      BY DEF Init, RuleC, Asking
    <2> QED BY <2>1, <2>2 DEF DelaysInv
  <1>2. IInv /\ DelaysInv /\ [Next]_vars => DelaysInv'
    <2> SUFFICES ASSUME IInv, DelaysInv, [Next]_vars PROVE DelaysInv'
      OBVIOUS
    <2>1. CASE Forget
      <3>1. faults \in Nat /\ faults' = faults + 1 /\ timer' = timer
        BY <2>1 DEF Forget, node, DelaysInv
      <3> QED BY <3>1 DEF DelaysInv
    <2>2. CASE UNCHANGED vars
      BY <2>2 DEF vars, node, DelaysInv, RuleC, Asking
    <2> QED BY <2>1, <2>2, RestartedStep, TransmitDelays, AnswerDelays, TickDelays DEF Next
  <1> QED BY <1>1, <1>2, AllocationInvariance, PTL DEF Spec

(* Rule C (line 873), for any number of nodes and any delays of which those of *)
(* the follow-ups are shorter: nobody starts an exchange while another node is *)
(* in one, unless a frame was lost or late.                                    *)
THEOREM ExchangesAreLeftAlone == Spec => ExchangeIsNotDisturbed
  <1>1. DelaysInv /\ [Next]_vars =>
            [\A m, n \in Node : SendRequest(m) /\ m # n /\ faults = 0 /\ nodeId[n] = 0
                => offset[n] \in {0, offset[m]}]_vars
    <2> SUFFICES ASSUME DelaysInv, NEW m \in Node, NEW n \in Node, SendRequest(m), m # n,
                        faults = 0, nodeId[n] = 0, offset[n] # 0
                 PROVE  offset[n] = offset[m]
      OBVIOUS
    <2>1. timer[m] = 0 /\ m \in Asking /\ n \in Asking
      BY DEF SendRequest, Asking
    <2>2. timer[n] \in Nat
      BY DEF DelaysInv
    <2>3. offset[m] = offset[n] \/ timer[m] > timer[n]
      BY <2>1 DEF DelaysInv, RuleC
    <2> QED BY <2>1, <2>2, <2>3
  <1> QED BY <1>1, DelaysInvariance, PTL DEF Spec, ExchangeIsNotDisturbed

-----------------------------------------------------------------------------
(* The watchdog: how long a node can be set back by another one.               *)

\* The longest delays.
SlowRequest == CHOOSE r \in RequestDelays : \A s \in RequestDelays : s <= r
SlowFollowup == CHOOSE f \in FollowupDelays : \A g \in FollowupDelays : g <= f

(* Two nodes, and a timeout of the IWDG that is longer than what an exchange   *)
(* of the other one, its repetition and the own wait after it can take.        *)
TwoInTime ==
    /\ \E m, n \in Node : m # n /\ Node = {m, n}
    /\ SlowRequest \in RequestDelays
    /\ \A r \in RequestDelays : 1 < r /\ r <= SlowRequest
    /\ SlowFollowup \in FollowupDelays
    /\ \A f \in FollowupDelays : f <= SlowFollowup
    /\ 3 * SlowRequest + 4 * SlowFollowup + 1 < WatchdogTicks

\* What was sent so far is the beginning of the unique ID of node n.
Begins(u, n) == \A i \in 1 .. Len(u) : u[i] = uid[n][i]

\* What an exchange takes from its beginning, from the time at which the first
\* len bytes are on their way back to the node, and from the next request on.
Again == SlowRequest + 2 * SlowFollowup
Rest(len) == IF len = Part THEN SlowFollowup ELSE 0
After(len) == IF len = UidLength THEN 0 ELSE SlowFollowup + Rest(len)
Sooner(s, t) == IF s < t THEN s ELSE t

\* The allocator has heard what the node has sent so far.
Known(n) == Len(partial) = offset[n] /\ Begins(partial, n)

\* For how long node n may still hear of node m, if nothing more is lost.
Left(n, m) ==
    IF queue[m] # <<>> THEN
        LET request == Head(queue[m])
        IN  IF (request.first \/ Extends(request)) /\ Begins(Received(request), m)
            THEN After(Len(Received(request))) ELSE Again
    ELSE IF answers # <<>> THEN
        LET u == Head(answers).uid
        IN  IF ~Begins(u, m) THEN Again
            ELSE IF Len(u) = UidLength \/ partial = u THEN After(Len(u))
            ELSE SlowFollowup + Again
    ELSE IF offset[m] = 0 THEN Sooner(timer[m], timer[n]) + 2 * SlowFollowup
    ELSE timer[m] + (IF Known(m) THEN Rest(offset[m]) ELSE Again)

Bound == IF faults = 0 THEN Again ELSE 2 * Again + 1

\* Node n waits, at most one frame is on its way, and it is of the exchange of
\* node m.
Apart(n, m) ==
    /\ queue[n] = <<>>
    /\ queue[m] # <<>> => Len(queue[m]) = 1 /\ answers = <<>>
    /\ answers # <<>> => Len(answers) = 1
    /\ queue[m] # <<>> \/ answers # <<>> =>
          nodeId[m] = 0 /\ offset[m] = 0 /\ timer[m] > IF faults = 0 THEN 1 ELSE 0
    /\ nodeId[m] = 0 => unfed[n] + Left(n, m) <= Bound

\* Right after its own request, or after that.
InTime(n, m) ==
    /\ unfed[n] <= faults \/ Apart(n, m)
    /\ unfed[n] + timer[n] <= Bound + SlowRequest

\* Without a fault the allocator and a node agree on how far they are.
Undisturbed ==
    faults = 0 =>
        IF answers = <<>> THEN \A n \in Asking : offset[n] # 0 => Known(n)
        ELSE LET u == answers[Len(answers)].uid IN Len(u) = UidLength \/ partial = u

\* Every wait ends in time.
FedInv ==
    /\ \A n \in Asking : timer[n] <= SlowRequest
    /\ \A n \in Node \ Asking : unfed[n] = 0
    /\ Undisturbed
    /\ faults <= 1 => \A n \in Asking : \A m \in Node \ {n} : InTime(n, m)

\* What the assumption says of the numbers.
LEMMA Fit ==
    ASSUME TwoInTime
    PROVE  /\ SlowRequest \in Nat /\ SlowFollowup \in Nat /\ SlowFollowup < SlowRequest
           /\ SlowRequest > 1
           /\ \A r \in RequestDelays : r \in Nat /\ 1 < r /\ r <= SlowRequest
           /\ \A f \in FollowupDelays : f \in Nat /\ f <= SlowFollowup
           /\ Again \in Nat /\ Again = SlowRequest + 2 * SlowFollowup
           /\ Bound \in {Again, 2 * Again + 1} /\ Bound \in Nat
           /\ 2 * Again + 1 + SlowRequest < WatchdogTicks
  <1>1. /\ SlowRequest \in RequestDelays /\ SlowFollowup \in FollowupDelays
        /\ \A r \in RequestDelays : 1 < r /\ r <= SlowRequest
        /\ \A f \in FollowupDelays : f <= SlowFollowup
        /\ 3 * SlowRequest + 4 * SlowFollowup + 1 < WatchdogTicks
    BY DEF TwoInTime
  <1>2. SlowRequest \in Nat /\ SlowFollowup \in Nat /\ WatchdogTicks \in Nat
    BY <1>1, Delays, Lengths
  <1> HIDE DEF SlowRequest, SlowFollowup
  <1> QED BY <1>1, <1>2, Delays DEF Again, Bound

\* What is left of an exchange at each of its stages.
LEMMA Remaining ==
    ASSUME TwoInTime
    PROVE  /\ Rest(Part) = SlowFollowup /\ Rest(2 * Part) = 0
           /\ After(Part) = 2 * SlowFollowup /\ After(2 * Part) = SlowFollowup
           /\ After(UidLength) = 0
           /\ \A len : Rest(len) \in 0 .. SlowFollowup /\ After(len) \in 0 .. 2 * SlowFollowup
           /\ \A s, t \in Nat : Sooner(s, t) \in Nat /\ Sooner(s, t) <= s /\ Sooner(s, t) <= t
  <1>1. SlowFollowup \in Nat
    BY Fit
  <1> HIDE DEF SlowFollowup
  <1>2. \A len : Rest(len) \in 0 .. SlowFollowup
    BY <1>1 DEF Rest
  <1>3. Rest(Part) = SlowFollowup /\ Rest(2 * Part) = 0
    BY Lengths DEF Rest
  <1>4. Part # UidLength /\ 2 * Part # UidLength
    BY Lengths
  <1>5. /\ After(Part) = 2 * SlowFollowup /\ After(2 * Part) = SlowFollowup
        /\ After(UidLength) = 0
    BY <1>1, <1>3, <1>4 DEF After
  <1>6. ASSUME NEW len PROVE After(len) \in 0 .. 2 * SlowFollowup
    BY <1>1, <1>2 DEF After
  <1>7. \A s, t \in Nat : Sooner(s, t) \in Nat /\ Sooner(s, t) <= s /\ Sooner(s, t) <= t
    BY DEF Sooner
  <1> QED BY <1>2, <1>3, <1>5, <1>6, <1>7

\* What the allocator does with a request that fits.
LEMMA ServeOutcome ==
    ASSUME IInv, StagesInv, NEW request \in Requests, FitsStage(request), Serve(request)
    PROVE  \/ ~(request.first \/ Extends(request)) /\ UNCHANGED <<partial, answers>>
           \/ /\ request.first \/ Extends(request)
              /\ \E answer \in Answers :
                    /\ answer.uid = Received(request)
                    /\ answers' = Append(answers, answer)
                    /\ Len(answer.uid) = UidLength \/ partial' = answer.uid
  <1>0. PICK u : u = Received(request)
    OBVIOUS
  <1>1. u \in Seq(Byte)
    BY <1>0 DEF Received, Requests, IInv, AllocatorInv
  <1>4. CASE ~request.first /\ ~Extends(request) /\ UNCHANGED allocator
    BY <1>4 DEF allocator
  <1>5. CASE /\ request.first \/ Extends(request)
             /\ Len(u) < UidLength
             /\ partial' = u
             /\ answers' = Append(answers, [uid |-> u, id |-> 0])
    <2>1. [uid |-> u, id |-> 0] \in Answers /\ [uid |-> u, id |-> 0].uid = u
      BY <1>1 DEF Answers
    <2> QED BY <1>0, <1>5, <2>1
  <1>6. CASE /\ request.first \/ Extends(request)
             /\ Len(u) = UidLength /\ CanGive(u)
             /\ answers' = Append(answers, [uid |-> u, id |-> IdFor(u)])
    <2>0. PICK id : id = IdFor(u)
      OBVIOUS
    <2>1. id \in Ids
      BY <1>6, <2>0 DEF CanGive, IdFor, IInv, AllocatorInv, TableInjective
    <2>2. [uid |-> u, id |-> id] \in Answers /\ [uid |-> u, id |-> id].uid = u
      BY <1>1, <2>1 DEF Answers
    <2>3. answers' = Append(answers, [uid |-> u, id |-> id])
      BY <1>6, <2>0
    <2> QED BY <1>0, <1>6, <2>2, <2>3
  <1> QED BY <1>0, <1>4, <1>5, <1>6 DEF Serve

\* Parts of sequences.
LEMMA Slice ==
    ASSUME NEW S, NEW s \in Seq(S), NEW k \in Nat, NEW p \in Nat, k + p <= Len(s)
    PROVE  /\ SubSeq(s, k + 1, k + p) \in Seq(S) /\ Len(SubSeq(s, k + 1, k + p)) = p
           /\ \A i \in 1 .. p : SubSeq(s, k + 1, k + p)[i] = s[k + i]
  OBVIOUS

LEMMA Concatenation ==
    ASSUME NEW S, NEW s \in Seq(S), NEW t \in Seq(S)
    PROVE  /\ Len(s \o t) = Len(s) + Len(t)
           /\ \A i \in 1 .. Len(s) : (s \o t)[i] = s[i]
           /\ \A i \in 1 .. Len(t) : (s \o t)[Len(s) + i] = t[i]
  OBVIOUS

\* A node whose beginning the allocator has heard goes on with it.
LEMMA NextPart ==
    ASSUME IInv, StagesInv, NEW n \in Node, offset[n] = 0 \/ Known(n)
    PROVE  LET request == Request(n)
               u == Received(request)
           IN  /\ request.first \/ Extends(request)
               /\ Begins(u, n)
               /\ Len(u) = IF offset[n] = 0 THEN Part
                           ELSE IF offset[n] = Part THEN 2 * Part ELSE UidLength
  <1>1. uid[n] \in Seq(Byte) /\ Len(uid[n]) = UidLength
    BY UidIsSequence DEF IInv
  <1>2. offset[n] \in {0, Part, 2 * Part} /\ partial \in Seq(Byte)
    BY DEF StagesInv, Stages, IInv, AllocatorInv
  <1>3. PICK u : u = Received(Request(n))
    OBVIOUS
  <1>4. Request(n).first = (offset[n] = 0) /\ Request(n).piece = Piece(n)
    BY DEF Request
  <1>5. CASE offset[n] = 0
    <2>1. Piece(n) = SubSeq(uid[n], 1, Part)
      BY <1>5, Lengths DEF Piece
    <2>2. u = SubSeq(uid[n], 1, Part)
      BY <1>3, <1>4, <1>5, <2>1 DEF Received
    <2>3. Len(u) = Part /\ \A i \in 1 .. Len(u) : u[i] = uid[n][i]
      BY <2>2, <1>1, Lengths
    <2> QED BY <1>3, <1>4, <1>5, <2>3 DEF Begins
  <1>6. CASE offset[n] # 0
    <2> DEFINE k == offset[n]
               p == PartOf(UidLength - offset[n])
    <2>1. k \in Nat /\ p \in Nat /\ k + p <= UidLength /\ k > 0
          /\ k + p = (IF offset[n] = Part THEN 2 * Part ELSE UidLength)
      BY <1>2, <1>6, Lengths
    <2>2. Len(partial) = k /\ \A i \in 1 .. k : partial[i] = uid[n][i]
      BY <1>6 DEF Known, Begins
    <2>3. Piece(n) = SubSeq(uid[n], k + 1, k + p)
      BY DEF Piece
    <2> HIDE DEF p, k
    <2>4. ASSUME NEW w, w \in Seq(Byte), Len(w) = UidLength
          PROVE  LET s == SubSeq(w, k + 1, k + p)
                 IN  s \in Seq(Byte) /\ Len(s) = p /\ \A i \in 1 .. p : s[i] = w[k + i]
      BY <2>1, <2>4, Slice
    <2>5. LET s == Piece(n)
           IN  s \in Seq(Byte) /\ Len(s) = p /\ \A i \in 1 .. p : s[i] = uid[n][k + i]
      BY <1>1, <2>3, <2>4
    <2>6. PICK piece \in Seq(Byte) :
            /\ piece = Piece(n) /\ Len(piece) = p
            /\ \A i \in 1 .. p : piece[i] = uid[n][k + i]
      BY <2>5
    <2>7. u = partial \o piece
      BY <1>3, <1>4, <1>6, <2>6 DEF Received
    <2>8. Len(u) = k + p
      BY <1>2, <2>2, <2>6, <2>7, Concatenation
    <2>9. ASSUME NEW i \in 1 .. Len(u) PROVE u[i] = uid[n][i]
      <3>1. CASE i \in 1 .. k
        <4>1. u[i] = partial[i]
          BY <1>2, <2>2, <2>6, <2>7, <3>1, Concatenation
        <4> QED BY <4>1, <2>2, <3>1
      <3>2. CASE i \in k + 1 .. k + p
        <4>1. i - k \in 1 .. p /\ k + (i - k) = i
          BY <2>1, <3>2
        <4>2. u[k + (i - k)] = piece[i - k]
          BY <1>2, <2>2, <2>6, <2>7, <4>1, Concatenation
        <4>3. piece[i - k] = uid[n][k + (i - k)]
          BY <2>6, <4>1
        <4> QED BY <4>1, <4>2, <4>3
      <3>3. i \in 1 .. k \/ i \in k + 1 .. k + p
        BY <2>1, <2>8
      <3> QED BY <3>1, <3>2, <3>3
    <2>10. Extends(Request(n))
      <3>1. partial # <<>> /\ Len(Piece(n)) = PartOf(UidLength - Len(partial))
        BY <2>1, <2>2, <2>6 DEF k, p
      <3> QED BY <3>1, <1>4 DEF Extends
    <2> QED BY <1>3, <1>6, <2>1, <2>8, <2>9, <2>10 DEF Begins
  <1> QED BY <1>5, <1>6

\* What every step starts from.
Fed == TwoInTime /\ IInv /\ StagesInv /\ DelaysInv /\ FedInv

\* What becomes of a request that reaches the allocator.
Outcome(request) ==
    \/ ~(request.first \/ Extends(request)) /\ UNCHANGED <<partial, answers>>
    \/ /\ request.first \/ Extends(request)
       /\ \E answer \in Answers :
             /\ answer.uid = Received(request)
             /\ answers' = Append(answers, answer)
             /\ Len(answer.uid) = UidLength \/ partial' = answer.uid

\* What a request that is sent does to the nodes and to the allocator.
Sent(n, lost) ==
    /\ queue' = [queue EXCEPT ![n] = Tail(@)]
    /\ UNCHANGED <<uid, nodeId, unfed>>
    /\ \A k \in Node :
          IF k \in Asking \ (lost \union {n})
          THEN offset'[k] = 0 /\ timer'[k] \in RequestDelays
          ELSE offset'[k] = offset[k] /\ timer'[k] = timer[k]
    /\ \/ Allocator \in lost /\ UNCHANGED <<partial, answers>>
       \/ Outcome(Head(queue[n]))

\* The request that is sent is the first of its queue.
LEMMA Transmitted ==
    ASSUME IInv, StagesInv, NEW n \in Node, Transmit(n)
    PROVE  /\ queue[n] # <<>>
           /\ \E lost \in SUBSET Stations : Missing(lost) /\ Sent(n, lost)
  <1>1. queue[n] \in Seq(Requests) /\ queue[n] # <<>>
    BY DEF Transmit, IInv, NodeTypes
  <1>2. Head(queue[n]) \in Requests /\ FitsStage(Head(queue[n]))
    <2>1. Head(queue[n]) = queue[n][1] /\ 1 \in 1 .. Len(queue[n]) /\ Head(queue[n]) \in Requests
      BY <1>1
    <2> QED BY <2>1 DEF StagesInv
  <1>3. PICK lost \in SUBSET Stations :
          /\ Missing(lost)
          /\ HearRequest(Asking \ (lost \union {n}))
          /\ IF Allocator \in lost THEN UNCHANGED allocator ELSE Serve(Head(queue[n]))
    BY DEF Transmit
  <1> DEFINE hearing == Asking \ (lost \union {n})
             delays == [k \in Node |-> IF k \in hearing THEN RequestDelays ELSE {timer[k]}]
  <1>4. Redraw(delays) /\ UNCHANGED <<uid, nodeId, unfed>>
        /\ offset' = [k \in Node |-> IF k \in hearing THEN 0 ELSE offset[k]]
    BY <1>3 DEF HearRequest
  <1>5. ASSUME NEW k \in Node
        PROVE  IF k \in hearing THEN offset'[k] = 0 /\ timer'[k] \in RequestDelays
               ELSE offset'[k] = offset[k] /\ timer'[k] = timer[k]
    <2>1. timer'[k] \in delays[k]
      BY <1>4, Redrawn
    <2> QED BY <2>1, <1>4
  <1>6. (Allocator \in lost /\ UNCHANGED <<partial, answers>>) \/ Outcome(Head(queue[n]))
    BY <1>2, <1>3, ServeOutcome DEF allocator, Outcome
  <1>7. queue' = [queue EXCEPT ![n] = Tail(@)]
    BY DEF Transmit
  <1>8. Sent(n, lost)
    BY <1>4, <1>5, <1>6, <1>7 DEF Sent
  <1> QED BY <1>1, <1>3, <1>8

\* What an answer does to a node.
Hears(k, u) ==
    IF ~Begins(u, k)
    THEN nodeId'[k] = 0 /\ unfed'[k] = unfed[k] /\ offset'[k] = 0 /\ timer'[k] \in RequestDelays
    ELSE IF Len(u) = UidLength
    THEN nodeId'[k] # 0 /\ unfed'[k] = 0
    ELSE /\ nodeId'[k] = 0 /\ unfed'[k] = unfed[k] /\ offset'[k] = Len(u)
         /\ timer'[k] \in FollowupDelays

Heard(u, lost) ==
    /\ UNCHANGED <<uid, queue, partial>>
    /\ \A k \in Node :
          IF k \in Asking \ lost THEN Hears(k, u)
          ELSE /\ nodeId'[k] = nodeId[k] /\ unfed'[k] = unfed[k]
               /\ offset'[k] = offset[k] /\ timer'[k] = timer[k]

\* The answer that is heard is the first of its queue.
LEMMA Answered ==
    ASSUME IInv, StagesInv, Answer
    PROVE  /\ answers \in Seq(Answers) /\ answers # <<>> /\ answers' = Tail(answers)
           /\ Len(Head(answers).uid) \in {Part, 2 * Part, UidLength}
           /\ \E lost \in SUBSET Node : Missing(lost) /\ Heard(Head(answers).uid, lost)
  <1>1. answers \in Seq(Answers) /\ answers # <<>> /\ answers' = Tail(answers)
    BY DEF Answer, IInv, AllocatorInv, AnswersAgree
  <1>2. PICK answer \in Answers :
          /\ answer = Head(answers) /\ Agrees(answer)
          /\ Len(answer.uid) \in {Part, 2 * Part, UidLength}
    <2>1. Head(answers) = answers[1] /\ 1 \in 1 .. Len(answers) /\ Head(answers) \in Answers
      BY <1>1
    <2> QED BY <2>1 DEF IInv, AllocatorInv, AnswersAgree, StagesInv
  <1>3. PICK lost \in SUBSET Node : Missing(lost) /\ HearAnswer(Asking \ lost, answer)
    BY <1>2 DEF Answer
  <1> DEFINE hearing == Asking \ lost
             taking == {n \in hearing : Match(n, answer) /\ Complete(answer)}
             delays == [n \in Node |-> IF n \in taking THEN {0}
                                       ELSE IF n \in hearing THEN NextDelays(n, answer)
                                       ELSE {timer[n]}]
  <1>4. /\ Redraw(delays) /\ UNCHANGED <<uid, queue, partial>>
        /\ nodeId' = [n \in Node |-> IF n \in taking THEN answer.id ELSE nodeId[n]]
        /\ unfed' = [n \in Node |-> IF n \in taking THEN 0 ELSE unfed[n]]
        /\ offset' = [n \in Node |-> IF n \in hearing \ taking THEN Stage(n, answer) ELSE offset[n]]
    BY <1>3 DEF HearAnswer, Answer
  <1>5. Complete(answer) => answer.id # 0
    <2>1. Complete(answer) => answer.id \in Ids
      BY <1>2 DEF Complete, Agrees, IInv, AllocatorInv, TableInjective
    <2> QED BY <2>1, IdAssumption
  <1>6. ASSUME NEW k \in Node
        PROVE  IF k \in hearing THEN Hears(k, answer.uid)
               ELSE /\ nodeId'[k] = nodeId[k] /\ unfed'[k] = unfed[k]
                    /\ offset'[k] = offset[k] /\ timer'[k] = timer[k]
    <2>1. timer'[k] \in delays[k]
      BY <1>4, Redrawn
    <2>2. Match(k, answer) = Begins(answer.uid, k)
      BY DEF Match, Begins
    <2>3. CASE k \notin hearing
      BY <1>4, <2>1, <2>3
    <2>4. CASE k \in taking
      BY <1>4, <1>5, <2>2, <2>4 DEF Hears, Complete
    <2>5. CASE k \in hearing \ taking
      <3>1. /\ nodeId'[k] = 0 /\ unfed'[k] = unfed[k] /\ offset'[k] = Stage(k, answer)
            /\ delays[k] = NextDelays(k, answer)
        BY <1>4, <2>5 DEF Asking
      <3> QED BY <3>1, <2>1, <2>2, <2>5 DEF Hears, Complete, Stage, NextDelays
    <2> QED BY <2>3, <2>4, <2>5
  <1>7. Heard(answer.uid, lost)
    BY <1>4, <1>6 DEF Heard
  <1> QED BY <1>1, <1>2, <1>3, <1>7

-----------------------------------------------------------------------------
LEMMA Empty == ASSUME NEW S, NEW s \in Seq(S) PROVE s = <<>> <=> Len(s) = 0
  OBVIOUS
LEMMA Tails ==
    ASSUME NEW S, NEW s \in Seq(S), s # <<>>
    PROVE  /\ Len(s) = 1 => Tail(s) = <<>>
           /\ Len(s) # 1 => Tail(s) # <<>> /\ Tail(s)[Len(Tail(s))] = s[Len(s)]
  <1>1. Tail(s) \in Seq(S) /\ Len(Tail(s)) = Len(s) - 1 /\ Len(s) \in Nat /\ Len(s) > 0
    OBVIOUS
  <1>2. \A i \in 1 .. Len(Tail(s)) : Tail(s)[i] = s[i + 1]
    OBVIOUS
  <1>3. Tail(s) = <<>> <=> Len(Tail(s)) = 0
    BY <1>1, Empty
  <1>4. ASSUME Len(s) # 1 PROVE Tail(s)[Len(Tail(s))] = s[Len(s)]
    <2>1. Len(Tail(s)) \in 1 .. Len(Tail(s)) /\ Len(Tail(s)) + 1 = Len(s)
      BY <1>1, <1>4
    <2>2. Tail(s)[Len(Tail(s))] = s[Len(Tail(s)) + 1]
      BY <1>2, <2>1
    <2> QED BY <2>1, <2>2
  <1>5. Len(s) = 1 => Len(Tail(s)) = 0
    BY <1>1
  <1>6. Len(s) # 1 => Len(Tail(s)) # 0
    BY <1>1
  <1> QED BY <1>3, <1>4, <1>5, <1>6

\* Whatever overlaps, it is the last answer on its way that decides.
LEMMA UndisturbedStep ==
    ASSUME Fed, Next PROVE Undisturbed'
  <1> SUFFICES ASSUME faults' = 0 PROVE Undisturbed'
    BY DEF Undisturbed
  <1>1. faults \in Nat /\ IInv /\ StagesInv /\ DelaysInv /\ Undisturbed
    BY DEF Fed, DelaysInv, FedInv
  <1>2. answers \in Seq(Answers)
    BY <1>1 DEF IInv, AllocatorInv, AnswersAgree
  <1>3. ASSUME NEW n \in Node, SendRequest(n) PROVE Undisturbed'
    <2>1. /\ faults = 0 /\ offset' = [offset EXCEPT ![n] = 0]
          /\ UNCHANGED <<uid, nodeId, partial, answers>>
      BY <1>3 DEF SendRequest, allocator
    <2>2. offset \in [Node -> 0 .. UidLength]
      BY <1>1 DEF IInv, NodeTypes
    <2>3. ASSUME NEW k \in Asking', offset'[k] # 0, answers = <<>> PROVE Known(k)'
      <3>1. k \in Asking /\ k # n /\ offset'[k] = offset[k]
        BY <2>1, <2>2, <2>3 DEF Asking
      <3>2. Known(k)
        BY <3>1, <2>1, <2>3, <1>1 DEF Undisturbed
      <3> QED BY <3>1, <3>2, <2>1 DEF Known, Begins
    <2> QED BY <1>1, <2>1, <2>3 DEF Undisturbed
  <1>4. ASSUME NEW n \in Node, Transmit(n) PROVE Undisturbed'
    <2>1. PICK lost \in SUBSET Stations : Missing(lost) /\ Sent(n, lost)
      BY <1>1, <1>4, Transmitted
    <2>2. lost = {} /\ faults = 0
      BY <1>1, <2>1, NothingLost
    <2>3. CASE UNCHANGED <<partial, answers>>
      <3>1. ASSUME NEW k \in Asking', offset'[k] # 0, answers = <<>> PROVE Known(k)'
        <4>1. k \in Asking /\ k \in Node /\ UNCHANGED <<uid, nodeId>>
          BY <2>1 DEF Sent, Asking
        <4>2. offset'[k] = offset[k]
          BY <2>1, <3>1, <4>1 DEF Sent
        <4>3. Known(k)
          BY <1>1, <2>2, <3>1, <4>1, <4>2 DEF Undisturbed
        <4> QED BY <4>1, <4>2, <4>3, <2>3 DEF Known, Begins
      <3> QED BY <1>1, <2>2, <2>3, <3>1 DEF Undisturbed
    <2>4. ASSUME NEW answer \in Answers, answers' = Append(answers, answer),
                 Len(answer.uid) = UidLength \/ partial' = answer.uid
          PROVE  Undisturbed'
      <3>1. answers' # <<>> /\ answers'[Len(answers')] = answer
        BY <1>2, <2>4
      <3> QED BY <2>4, <3>1 DEF Undisturbed
    <2> QED BY <2>1, <2>2, <2>3, <2>4 DEF Sent, Outcome
  <1>5. CASE Answer
    <2>1. PICK u : u = Head(answers).uid
      OBVIOUS
    <2>2. /\ answers # <<>> /\ answers' = Tail(answers)
          /\ Len(u) \in {Part, 2 * Part, UidLength}
          /\ \E lost \in SUBSET Node : Missing(lost) /\ Heard(u, lost)
      BY <1>1, <1>5, <2>1, Answered
    <2>3. Heard(u, {}) /\ faults = 0
      BY <1>1, <2>2, NothingLost
    <2>4. CASE Len(answers) = 1
      <3>1. answers' = <<>> /\ answers[Len(answers)] = Head(answers)
        BY <1>2, <2>2, <2>4
      <3>2. Len(u) = UidLength \/ partial = u
        BY <1>1, <2>1, <2>2, <2>3, <3>1 DEF Undisturbed
      <3>3. ASSUME NEW k \in Asking', offset'[k] # 0 PROVE Known(k)'
        <4>1. k \in Node /\ nodeId'[k] = 0 /\ UNCHANGED <<uid, partial>>
          BY <2>3 DEF Asking, Heard
        <4>2. k \in Asking
          BY <2>3, <4>1 DEF Heard, Asking
        <4>3. Hears(k, u)
          BY <2>3, <4>1, <4>2 DEF Heard
        <4>4. Begins(u, k) /\ Len(u) # UidLength /\ offset'[k] = Len(u)
          BY <3>3, <4>1, <4>3 DEF Hears
        <4> QED BY <3>2, <4>1, <4>4 DEF Known, Begins
      <3> QED BY <3>1, <3>3 DEF Undisturbed
    <2>5. CASE Len(answers) # 1
      <3>1. answers' # <<>> /\ answers'[Len(answers')] = answers[Len(answers)]
        BY <1>2, <2>2, <2>5, Tails
      <3> QED BY <1>1, <2>2, <2>3, <3>1 DEF Undisturbed, Heard
    <2> QED BY <2>4, <2>5
  <1>6. CASE Tick
    <2>1. faults = 0 /\ UNCHANGED <<uid, offset, nodeId, partial, answers>>
      BY <1>1, <1>6 DEF Tick, allocator
    <2>2. Asking' = Asking
      BY <2>1 DEF Asking
    <2> QED BY <1>1, <2>1, <2>2 DEF Undisturbed, Known, Begins
  <1>7. ~Forget /\ \A n \in Node : ~Restart(n)
    BY <1>1 DEF Forget, Restart
  <1> QED BY <1>3, <1>4, <1>5, <1>6, <1>7 DEF Next

\* What the parts of the invariant say of the values of the variables.
LEMMA FedFacts ==
    ASSUME Fed
    PROVE  /\ faults \in Nat /\ timer \in [Node -> Nat] /\ unfed \in [Node -> Nat]
           /\ offset \in [Node -> 0 .. UidLength] /\ \A k \in Node : offset[k] \in {0, Part, 2 * Part}
           /\ queue \in [Node -> Seq(Requests)] /\ answers \in Seq(Answers)
           /\ \A k \in Asking : timer[k] <= SlowRequest
           /\ \A k \in Node \ Asking : unfed[k] = 0
  <1>1. unfed \in [Node -> 0 .. WatchdogTicks]
    BY DEF Fed, StagesInv
  <1>2. unfed \in [Node -> Nat]
    BY <1>1, Lengths
  <1>3. \A k \in Node : offset[k] \in {0, Part, 2 * Part}
    BY DEF Fed, StagesInv, Stages
  <1> QED BY <1>2, <1>3 DEF Fed, DelaysInv, IInv, NodeTypes, AllocatorInv, AnswersAgree, FedInv

\* The longest delay bounds every timer, and an ID ends the waiting.
LEMMA TimersStep ==
    ASSUME Fed, Next
    PROVE  /\ \A k \in Asking' : timer'[k] <= SlowRequest
           /\ \A k \in Node \ Asking' : unfed'[k] = 0
  <1> SUFFICES ASSUME NEW k \in Node
               PROVE  /\ nodeId'[k] = 0 => timer'[k] <= SlowRequest
                      /\ nodeId'[k] # 0 => unfed'[k] = 0
    BY DEF Asking
  <1>1. IInv /\ StagesInv /\ TwoInTime /\ timer \in [Node -> Nat] /\ unfed \in [Node -> Nat]
    BY FedFacts DEF Fed
  <1>2. /\ SlowRequest \in Nat
        /\ \A r \in RequestDelays : r \in Nat /\ r <= SlowRequest
        /\ \A f \in FollowupDelays : f \in Nat /\ f <= SlowRequest
    BY <1>1, Fit
  <1>3. nodeId[k] = 0 => timer[k] <= SlowRequest
    BY FedFacts DEF Asking
  <1>4. nodeId[k] # 0 => unfed[k] = 0
    BY FedFacts DEF Asking
  <1> HIDE DEF SlowRequest
  <1>5. ASSUME NEW n \in Node, SendRequest(n) \/ Restart(n)
        PROVE  /\ nodeId'[k] = 0 => timer'[k] <= SlowRequest
               /\ nodeId'[k] # 0 => unfed'[k] = 0
    <2>1. PICK d \in RequestDelays : timer' = [timer EXCEPT ![n] = d]
      BY <1>5 DEF SendRequest, Restart
    <2>2. unfed' = [unfed EXCEPT ![n] = 0] /\ (k # n => nodeId'[k] = nodeId[k])
      BY <1>1, <1>5 DEF SendRequest, Restart, IInv, NodeTypes
    <2>3. CASE k = n
      BY <1>1, <1>2, <2>1, <2>2, <2>3
    <2>4. CASE k # n
      BY <1>1, <1>3, <1>4, <2>1, <2>2, <2>4
    <2> QED BY <2>3, <2>4
  <1>6. ASSUME NEW n \in Node, Transmit(n)
        PROVE  /\ nodeId'[k] = 0 => timer'[k] <= SlowRequest
               /\ nodeId'[k] # 0 => unfed'[k] = 0
    <2>1. PICK lost \in SUBSET Stations : Sent(n, lost)
      BY <1>1, <1>6, Transmitted
    <2>2. /\ nodeId'[k] = nodeId[k] /\ unfed'[k] = unfed[k]
          /\ timer'[k] \in RequestDelays \/ timer'[k] = timer[k]
      BY <2>1 DEF Sent
    <2> QED BY <1>2, <1>3, <1>4, <2>2
  <1>7. CASE Answer
    <2>1. PICK u, lost : Heard(u, lost)
      BY <1>1, <1>7, Answered
    <2> QED BY <1>2, <1>3, <1>4, <2>1 DEF Heard, Hears
  <1>8. CASE Forget
    BY <1>3, <1>4, <1>8 DEF Forget, node
  <1>9. CASE Tick
    <2>1. nodeId' = nodeId /\ (nodeId[k] = 0 => timer'[k] = timer[k] - 1)
          /\ (nodeId[k] # 0 => unfed'[k] = 0)
      BY <1>9, <1>1 DEF Tick, Asking
    <2>2. timer[k] \in Nat
      BY <1>1
    <2> QED BY <1>2, <1>3, <2>1, <2>2
  <1> QED BY <1>5, <1>6, <1>7, <1>8, <1>9 DEF Next

-----------------------------------------------------------------------------
(* Each step, as node n sees it when the other node is m.                      *)

\* The bound grows with the first fault, and only with it.
LEMMA Bounds ==
    ASSUME Fed, faults' \in Nat, faults <= faults', faults' <= 1
    PROVE  /\ Bound \in Nat /\ Bound' \in Nat /\ Bound <= Bound' /\ faults' <= Bound'
           /\ faults = 0 => Bound = Again
           /\ faults < faults' => faults = 0 /\ faults' = 1 /\ Bound' = 2 * Again + 1
  <1>1. faults \in Nat /\ TwoInTime
    BY FedFacts DEF Fed
  <1>2. Again \in Nat
    BY <1>1, Fit
  <1> QED BY <1>1, <1>2 DEF Bound

\* What is left is a time, and at most a lost answer and a repeated exchange.
LEMMA LeftTypes ==
    ASSUME Fed, NEW n \in Node, NEW m \in Node
    PROVE  /\ Left(n, m) \in Nat
           /\ queue[m] # <<>> => Left(n, m) <= Again
           /\ queue[m] = <<>> /\ answers # <<>> => Left(n, m) <= SlowFollowup + Again
  <1>1. /\ Again \in Nat /\ Again = SlowRequest + 2 * SlowFollowup
        /\ SlowFollowup \in Nat /\ SlowRequest \in Nat
    BY Fit DEF Fed
  <1>2. ASSUME NEW len PROVE Rest(len) \in Nat /\ After(len) \in Nat /\ After(len) <= Again
    <2>1. Rest(len) \in 0 .. SlowFollowup /\ After(len) \in 0 .. 2 * SlowFollowup
      BY Remaining DEF Fed
    <2> QED BY <1>1, <2>1
  <1>3. timer[m] \in Nat /\ timer[n] \in Nat
    BY FedFacts
  <1>4. Sooner(timer[m], timer[n]) \in Nat
    BY <1>3, Remaining DEF Fed
  <1>5. CASE queue[m] # <<>>
    <2>1. PICK len : Left(n, m) \in {After(len), Again}
      BY <1>5 DEF Left
    <2> QED BY <1>1, <1>2, <1>5, <2>1
  <1>6. CASE queue[m] = <<>> /\ answers # <<>>
    <2>1. PICK len : Left(n, m) \in {After(len), Again, SlowFollowup + Again}
      BY <1>6 DEF Left
    <2> QED BY <1>1, <1>2, <1>6, <2>1
  <1>7. CASE queue[m] = <<>> /\ answers = <<>>
    <2>1. PICK len : Left(n, m) \in {Sooner(timer[m], timer[n]) + 2 * SlowFollowup,
                                     timer[m] + Rest(len), timer[m] + Again}
      BY <1>7 DEF Left
    <2> QED BY <1>1, <1>2, <1>3, <1>4, <1>7, <2>1
  <1> QED BY <1>5, <1>6, <1>7

\* A node that has just sent a request or restarted has reset its watchdog.
LEMMA OwnStep ==
    ASSUME Fed, NEW n \in Node, NEW m \in Node, n # m, faults' <= 1,
           SendRequest(n) \/ Restart(n)
    PROVE  InTime(n, m)'
  <1>1. faults \in Nat /\ timer \in [Node -> Nat] /\ unfed \in [Node -> Nat]
    BY FedFacts
  <1>2. PICK d \in RequestDelays : timer' = [timer EXCEPT ![n] = d]
    BY DEF SendRequest, Restart
  <1>3. unfed'[n] = 0 /\ timer'[n] = d
    BY <1>1, <1>2 DEF SendRequest, Restart
  <1>4. PICK k \in Nat : faults' = k /\ faults <= k
    BY <1>1 DEF SendRequest, Restart
  <1>5. d \in Nat /\ d <= SlowRequest /\ SlowRequest \in Nat
    BY Fit DEF Fed
  <1>6. PICK w \in Nat : Bound' = w
    BY <1>4, Bounds
  <1>7. 0 <= k /\ 0 + d <= w + SlowRequest
    BY <1>4, <1>5, <1>6
  <1> QED BY <1>3, <1>4, <1>6, <1>7 DEF InTime

\* Where both parts of InTime come from when node n is not touched.
LEMMA Untouched ==
    ASSUME Fed, NEW n \in Asking, NEW m \in Node \ {n}, faults' \in Nat, faults <= faults',
           faults' <= 1, unfed'[n] = unfed[n], timer'[n] = timer[n],
           Apart(n, m) => Apart(n, m)'
    PROVE  InTime(n, m)'
  <1>1. InTime(n, m) /\ faults \in Nat /\ n \in Node
    BY FedFacts DEF Fed, FedInv, Asking
  <1>2. unfed[n] \in Nat /\ timer[n] \in Nat /\ SlowRequest \in Nat
    BY FedFacts, Fit, <1>1 DEF Fed
  <1>3. Bound \in Nat /\ Bound' \in Nat /\ Bound <= Bound'
    BY Bounds
  <1> HIDE DEF SlowRequest, Bound
  <1> QED BY <1>1, <1>2, <1>3 DEF InTime

\* The same when node n has heard a frame while the other node asks.
LEMMA Touched ==
    ASSUME Fed, NEW n \in Asking, NEW m \in Node \ {n}, faults' \in Nat, faults <= faults',
           faults' <= 1, unfed'[n] = unfed[n], timer'[n] \in Nat, timer'[n] <= SlowRequest,
           Apart(n, m) => nodeId[m] = 0,
           Apart(n, m) => Apart(n, m)'
    PROVE  InTime(n, m)'
  <1>1. InTime(n, m) /\ faults \in Nat /\ n \in Node
    BY FedFacts DEF Fed, FedInv, Asking
  <1>2. unfed[n] \in Nat /\ SlowRequest \in Nat
    BY FedFacts, Fit, <1>1 DEF Fed
  <1>3. Bound \in Nat /\ Bound' \in Nat /\ Bound <= Bound' /\ faults' <= Bound'
    BY Bounds
  <1>4. Left(n, m) \in Nat
    BY <1>1, LeftTypes
  <1>5. Apart(n, m) => unfed[n] <= Bound
    BY <1>2, <1>3, <1>4 DEF Apart
  <1> HIDE DEF SlowRequest, Bound, Apart
  <1> QED BY <1>1, <1>2, <1>3, <1>5 DEF InTime

\* A request of node m: what it had left is left of the exchange on its way.
LEMMA OtherSends ==
    ASSUME Fed, NEW n \in Asking, NEW m \in Node \ {n}, faults' <= 1, SendRequest(m)
    PROVE  InTime(n, m)'
  <1>1. /\ faults \in Nat /\ timer \in [Node -> Nat] /\ unfed \in [Node -> Nat]
        /\ queue \in [Node -> Seq(Requests)] /\ offset \in [Node -> 0 .. UidLength]
        /\ offset[m] \in {0, Part, 2 * Part}
        /\ IInv /\ StagesInv /\ TwoInTime /\ n \in Node /\ n # m
    BY FedFacts DEF Fed, Asking
  <1>2. /\ nodeId[m] = 0 /\ timer[m] = 0
        /\ queue' = [queue EXCEPT ![m] = Append(@, Request(m))]
        /\ offset' = [offset EXCEPT ![m] = 0] /\ unfed' = [unfed EXCEPT ![m] = 0]
        /\ UNCHANGED <<uid, nodeId, partial, answers, faults>>
    BY DEF SendRequest, allocator
  <1>3. PICK d \in RequestDelays : timer' = [timer EXCEPT ![m] = d]
    BY DEF SendRequest
  <1>4. d \in Nat /\ 1 < d
    BY <1>1, Fit
  <1>5. /\ unfed'[n] = unfed[n] /\ timer'[n] = timer[n] /\ queue'[n] = queue[n]
        /\ queue'[m] = Append(queue[m], Request(m)) /\ timer'[m] = d /\ offset'[m] = 0
    BY <1>1, <1>2, <1>3
  <1>6. Bound' = Bound
    BY <1>2 DEF Bound
  <1>7. ASSUME Apart(n, m) PROVE Apart(n, m)'
    <2>1. queue[n] = <<>> /\ queue[m] = <<>> /\ answers = <<>>
      <3>1. ~(timer[m] > IF faults = 0 THEN 1 ELSE 0)
        BY <1>2
      <3> QED BY <1>7, <3>1 DEF Apart
    <2>2. /\ queue'[m] # <<>> /\ Len(queue'[m]) = 1 /\ Head(queue'[m]) = Request(m)
      BY <2>1, <1>5
    <2>3. Left(n, m)' \in Nat /\ Left(n, m)' <= Left(n, m)
      <3>1. PICK u : u = Received(Request(m))
        OBVIOUS
      <3>2. PICK request : request = Request(m)
        OBVIOUS
      <3>3. Left(n, m)' = IF (request.first \/ Extends(request)) /\ Begins(u, m)
                          THEN After(Len(u)) ELSE Again
        <4>1. Left(n, m)' = IF (request.first \/ Extends(request)') /\ Begins(Received(request), m)'
                            THEN After(Len(Received(request)')) ELSE Again
          BY <2>2, <3>2 DEF Left
        <4>2. Received(request)' = u /\ Extends(request)' = Extends(request)
          BY <1>2, <3>1, <3>2 DEF Received, Extends
        <4>3. Begins(Received(request), m)' = Begins(u, m)
          BY <1>2, <3>1, <3>2 DEF Received, Begins
        <4> QED BY <4>1, <4>2, <4>3
      <3>4. /\ Again \in Nat /\ Again = SlowRequest + 2 * SlowFollowup
            /\ SlowRequest \in Nat /\ SlowFollowup \in Nat
        BY <1>1, Fit
      <3>5. /\ After(Len(u)) \in 0 .. 2 * SlowFollowup
            /\ After(Part) = 2 * SlowFollowup /\ After(2 * Part) = SlowFollowup
            /\ After(UidLength) = 0
            /\ Rest(Part) = SlowFollowup /\ Rest(2 * Part) = 0
        BY <1>1, Remaining
      <3>6. Left(n, m) = IF offset[m] = 0 THEN Sooner(timer[m], timer[n]) + 2 * SlowFollowup
                         ELSE timer[m] + (IF Known(m) THEN Rest(offset[m]) ELSE Again)
        BY <2>1 DEF Left
      <3>7. CASE offset[m] # 0 /\ ~Known(m)
        BY <1>2, <3>3, <3>4, <3>5, <3>6, <3>7
      <3>8. CASE offset[m] = 0 \/ Known(m)
        <4>1. /\ (request.first \/ Extends(request)) /\ Begins(u, m)
              /\ Len(u) = IF offset[m] = 0 THEN Part
                          ELSE IF offset[m] = Part THEN 2 * Part ELSE UidLength
          BY <1>1, <3>1, <3>2, <3>8, NextPart
        <4>2. Left(n, m)' = After(Len(u))
          BY <3>3, <4>1
        <4>3. CASE offset[m] = 0
          <5>1. Sooner(timer[m], timer[n]) \in Nat
            BY <1>1, Remaining
          <5> QED BY <3>4, <3>5, <3>6, <4>1, <4>2, <4>3, <5>1
        <4>4. CASE offset[m] = Part /\ offset[m] # 0
          BY <1>2, <3>4, <3>5, <3>6, <3>8, <4>1, <4>2, <4>4
        <4>5. CASE offset[m] = 2 * Part /\ offset[m] # 0 /\ offset[m] # Part
          BY <1>2, <3>4, <3>5, <3>6, <3>8, <4>1, <4>2, <4>5
        <4> QED BY <1>1, <4>3, <4>4, <4>5
      <3> QED BY <3>7, <3>8
    <2>4. unfed'[n] + Left(n, m)' <= Bound'
      <3>1. unfed[n] + Left(n, m) <= Bound
        BY <1>2, <1>7 DEF Apart
      <3>2. unfed[n] \in Nat /\ Left(n, m) \in Nat /\ Bound \in Nat
        BY <1>1, LeftTypes, Fit
      <3> QED BY <1>5, <1>6, <2>3, <3>1, <3>2
    <2>5. timer'[m] > IF faults' = 0 THEN 1 ELSE 0
      BY <1>4, <1>5
    <2> QED BY <1>2, <1>5, <2>1, <2>2, <2>4, <2>5 DEF Apart
  <1>8. faults' \in Nat /\ faults <= faults'
    BY <1>1, <1>2
  <1> QED BY <1>5, <1>7, <1>8, Untouched

\* A request is put on the bus.  One of node n itself is younger than anything
\* that could disturb the other node.
LEMMA OwnTransmission ==
    ASSUME Fed, NEW n \in Asking, NEW m \in Node \ {n}, faults' <= 1, Transmit(n)
    PROVE  InTime(n, m)'
  <1>1. queue[n] # <<>> /\ faults \in Nat /\ n \in Node
    BY Transmitted, FedFacts DEF Fed, Asking
  <1>2. PICK lost \in SUBSET Stations : Missing(lost) /\ Sent(n, lost)
    BY <1>1, Transmitted DEF Fed
  <1>3. unfed'[n] = unfed[n] /\ timer'[n] = timer[n]
    BY <1>1, <1>2 DEF Sent
  <1>4. faults' \in Nat /\ faults <= faults'
    BY <1>1, <1>2 DEF Missing
  <1>5. ~Apart(n, m)
    BY <1>1 DEF Apart
  <1> QED BY <1>3, <1>4, <1>5, Untouched

\* One of the other node moves its exchange on, or a fault sends it back.
LEMMA OtherTransmission ==
    ASSUME Fed, NEW n \in Asking, NEW m \in Node \ {n}, faults' <= 1, Transmit(m)
    PROVE  InTime(n, m)'
  <1>1. /\ faults \in Nat /\ timer \in [Node -> Nat] /\ unfed \in [Node -> Nat]
        /\ queue \in [Node -> Seq(Requests)]
        /\ IInv /\ StagesInv /\ TwoInTime /\ n \in Node /\ n # m /\ queue[m] # <<>>
        /\ timer[n] <= SlowRequest
    BY FedFacts, Transmitted DEF Fed, Asking
  <1>2. PICK lost \in SUBSET Stations : Missing(lost) /\ Sent(m, lost)
    BY <1>1, Transmitted
  <1>3. PICK request : request = Head(queue[m])
    OBVIOUS
  <1>4. /\ queue'[m] = Tail(queue[m]) /\ queue'[n] = queue[n]
        /\ UNCHANGED <<uid, nodeId, unfed>>
        /\ offset'[m] = offset[m] /\ timer'[m] = timer[m]
        /\ timer'[n] \in RequestDelays \/ timer'[n] = timer[n]
    BY <1>1, <1>2 DEF Sent
  <1>5. /\ faults' \in Nat /\ faults <= faults'
        /\ Allocator \in lost => faults' = faults + 1
    BY <1>1, <1>2 DEF Missing
  <1>6. PICK t \in Nat : timer'[n] = t /\ t <= SlowRequest
    BY <1>1, <1>4, Fit
  <1>7. ASSUME Apart(n, m) PROVE nodeId[m] = 0 /\ Apart(n, m)'
    <2>1. /\ queue[n] = <<>> /\ Len(queue[m]) = 1 /\ answers = <<>> /\ nodeId[m] = 0
          /\ offset[m] = 0 /\ timer[m] > (IF faults = 0 THEN 1 ELSE 0)
          /\ unfed[n] + Left(n, m) <= Bound
      BY <1>1, <1>7 DEF Apart
    <2>2. queue'[m] = <<>> /\ queue'[n] = <<>>
      <3>1. queue[m] \in Seq(Requests)
        BY <1>1
      <3> QED BY <1>1, <1>4, <2>1, <3>1, Tails
    <2>3. timer'[m] > IF faults' = 0 THEN 1 ELSE 0
      BY <1>1, <1>4, <1>5, <2>1
    <2>4. /\ Bound \in Nat /\ Bound' \in Nat /\ Bound <= Bound'
          /\ faults = 0 => Bound = Again
          /\ faults < faults' => faults = 0 /\ Bound' = 2 * Again + 1
      BY <1>5, Bounds
    <2>5. /\ Again \in Nat /\ Again = SlowRequest + 2 * SlowFollowup
          /\ SlowRequest \in Nat /\ SlowFollowup \in Nat
      BY <1>1, Fit
    <2>6. unfed[n] \in Nat /\ Left(n, m) \in Nat /\ unfed'[n] = unfed[n]
      BY <1>1, <1>4, LeftTypes
    <2>7. Left(n, m) = IF (request.first \/ Extends(request)) /\ Begins(Received(request), m)
                       THEN After(Len(Received(request))) ELSE Again
      BY <1>1, <1>3 DEF Left
    <2>8. CASE UNCHANGED <<partial, answers>>
      <3>1. answers' = <<>>
        BY <2>1, <2>8
      <3>2. Left(n, m)' = Sooner(timer'[m], timer'[n]) + 2 * SlowFollowup
        BY <1>4, <2>1, <2>2, <3>1 DEF Left
      <3>3. Sooner(timer'[m], timer'[n]) \in Nat /\ Sooner(timer'[m], timer'[n]) <= t
        BY <1>1, <1>4, <1>6, Remaining
      <3>4. PICK w \in Nat : Left(n, m)' = w /\ w <= Again
        BY <1>6, <2>5, <3>2, <3>3
      <3>5. unfed'[n] + Left(n, m)' <= Bound'
        <4>1. CASE Allocator \in lost
          <5>1. faults < faults'
            BY <1>1, <1>5, <4>1
          <5> QED BY <2>1, <2>4, <2>5, <2>6, <3>4, <5>1
        <4>2. CASE Allocator \notin lost
          <5>1. ~(request.first \/ Extends(request))
            <6>1. Outcome(request)
              BY <1>2, <1>3, <4>2 DEF Sent
            <6>2. ASSUME NEW answer PROVE answers # Append(answers, answer)
              BY <2>1
            <6> QED BY <2>8, <6>1, <6>2 DEF Outcome
          <5>2. Left(n, m) = Again
            BY <2>7, <5>1
          <5> QED BY <2>1, <2>4, <2>5, <2>6, <3>4, <5>2
        <4> QED BY <4>1, <4>2
      <3> QED BY <1>4, <2>1, <2>2, <3>1, <3>5 DEF Apart
    <2>9. ASSUME request.first \/ Extends(request), NEW answer \in Answers,
                 answer.uid = Received(request), answers' = Append(answers, answer),
                 Len(answer.uid) = UidLength \/ partial' = answer.uid
          PROVE  Apart(n, m)'
      <3>1. answers' # <<>> /\ Len(answers') = 1 /\ Head(answers') = answer
        BY <2>1, <2>9
      <3>2. Begins(answer.uid, m)' = Begins(answer.uid, m)
        BY <1>4 DEF Begins
      <3>3. Left(n, m)' = IF Begins(answer.uid, m) THEN After(Len(answer.uid)) ELSE Again
        <4>1. Left(n, m)' = IF ~Begins(answer.uid, m)' THEN Again
                            ELSE IF Len(answer.uid) = UidLength \/ partial' = answer.uid
                                 THEN After(Len(answer.uid)) ELSE SlowFollowup + Again
          BY <2>2, <3>1 DEF Left
        <4> QED BY <2>9, <3>2, <4>1
      <3>4. Left(n, m)' = Left(n, m)
        BY <2>7, <2>9, <3>3
      <3>5. unfed'[n] + Left(n, m)' <= Bound'
        BY <2>1, <2>4, <2>6, <3>4
      <3> QED BY <1>4, <2>1, <2>2, <2>3, <3>1, <3>5 DEF Apart
    <2> QED BY <1>2, <1>3, <2>1, <2>8, <2>9 DEF Sent, Outcome
  <1>8. unfed'[n] = unfed[n]
    BY <1>4
  <1> QED BY <1>5, <1>6, <1>7, <1>8, Touched

\* An answer moves the exchange of the other node on, or ends it.
LEMMA AnswerHeard ==
    ASSUME Fed, NEW n \in Asking, n \in Asking', NEW m \in Node \ {n}, faults' <= 1, Answer
    PROVE  InTime(n, m)'
  <1>1. /\ faults \in Nat /\ timer \in [Node -> Nat] /\ unfed \in [Node -> Nat]
        /\ offset \in [Node -> 0 .. UidLength]
        /\ IInv /\ StagesInv /\ TwoInTime /\ n \in Node /\ m \in Node /\ n # m
        /\ timer[n] <= SlowRequest
    BY FedFacts DEF Fed, Asking
  <1>2. PICK u : u = Head(answers).uid
    OBVIOUS
  <1>3. /\ answers \in Seq(Answers) /\ answers # <<>> /\ answers' = Tail(answers)
        /\ Len(u) \in {Part, 2 * Part, UidLength}
    BY <1>1, <1>2, Answered
  <1>4. PICK lost \in SUBSET Node : Missing(lost) /\ Heard(u, lost)
    BY <1>1, <1>2, Answered
  <1>5. UNCHANGED <<uid, queue, partial>>
    BY <1>4 DEF Heard
  <1>6. PICK f \in Nat : faults' = f /\ faults <= f /\ (lost # {} => faults < f)
    BY <1>1, <1>4 DEF Missing
  <1>7. /\ \A r \in RequestDelays : r \in Nat /\ r <= SlowRequest
        /\ \A d \in FollowupDelays : d \in Nat /\ d <= SlowFollowup /\ d <= SlowRequest
        /\ Again \in Nat /\ Again = SlowRequest + 2 * SlowFollowup
        /\ SlowRequest \in Nat /\ SlowFollowup \in Nat
    BY <1>1, Fit
  <1>8. PICK t \in Nat : timer'[n] = t /\ t <= SlowRequest
    <2>1. CASE n \in Asking \ lost
      <3>1. Hears(n, u) /\ nodeId'[n] = 0
        BY <1>1, <1>4, <2>1 DEF Heard, Asking
      <3> QED BY <1>7, <3>1 DEF Hears
    <2>2. CASE n \notin Asking \ lost
      BY <1>1, <1>4, <2>2 DEF Heard
    <2> QED BY <2>1, <2>2
  <1>9. unfed'[n] = unfed[n]
    BY <1>1, <1>4 DEF Heard, Hears, Asking
  <1>10. ASSUME Apart(n, m) PROVE nodeId[m] = 0 /\ Apart(n, m)'
    <2>1. /\ queue[n] = <<>> /\ queue[m] = <<>> /\ Len(answers) = 1 /\ nodeId[m] = 0
          /\ offset[m] = 0 /\ unfed[n] + Left(n, m) <= Bound
      BY <1>3, <1>10 DEF Apart
    <2>2. answers' = <<>> /\ queue'[n] = <<>> /\ queue'[m] = <<>>
      BY <1>3, <1>5, <2>1, Tails
    <2>3. /\ Bound \in Nat /\ Bound' \in Nat /\ Bound <= Bound'
          /\ faults = 0 => Bound = Again
          /\ faults < faults' => faults = 0 /\ Bound' = 2 * Again + 1
      BY <1>6, Bounds
    <2>4. unfed[n] \in Nat /\ Left(n, m) \in Nat
      BY <1>1, LeftTypes
    <2>5. Left(n, m) = IF ~Begins(u, m) THEN Again
                       ELSE IF Len(u) = UidLength \/ partial = u THEN After(Len(u))
                       ELSE SlowFollowup + Again
      BY <1>2, <1>3, <2>1 DEF Left
    <2>6. Left(n, m)' = IF offset'[m] = 0 THEN Sooner(timer'[m], timer'[n]) + 2 * SlowFollowup
                        ELSE timer'[m] + (IF Known(m)' THEN Rest(offset'[m]) ELSE Again)
      BY <2>2 DEF Left
    <2>7. nodeId'[m] = 0 => unfed'[n] + Left(n, m)' <= Bound'
      <3>1. CASE m \in lost
        <4>1. offset'[m] = 0 /\ timer'[m] = timer[m] /\ timer[m] \in Nat
          BY <1>1, <1>4, <2>1, <3>1 DEF Heard
        <4>2. Sooner(timer'[m], timer'[n]) \in Nat /\ Sooner(timer'[m], timer'[n]) <= t
          BY <1>1, <1>8, <4>1, Remaining
        <4>3. PICK w \in Nat : Left(n, m)' = w /\ w <= Again
          BY <1>7, <1>8, <2>6, <4>1, <4>2
        <4>4. faults < faults'
          BY <1>6, <3>1
        <4> QED BY <1>7, <1>9, <2>1, <2>3, <2>4, <4>3, <4>4
      <3>2. CASE m \notin lost
        <4>1. Hears(m, u)
          BY <1>1, <1>4, <2>1, <3>2 DEF Heard, Asking
        <4>2. CASE ~Begins(u, m)
          <5>1. PICK s \in Nat : offset'[m] = 0 /\ timer'[m] = s /\ s <= SlowRequest
            BY <1>7, <4>1, <4>2 DEF Hears
          <5>2. Sooner(s, t) \in Nat /\ Sooner(s, t) <= s
            BY <1>1, Remaining
          <5>3. PICK w \in Nat : Left(n, m)' = w /\ w <= Again
            BY <1>7, <1>8, <2>6, <5>1, <5>2
          <5>4. Left(n, m) = Again
            BY <2>5, <4>2
          <5> QED BY <1>9, <2>1, <2>3, <2>4, <5>3, <5>4
        <4>3. CASE Begins(u, m) /\ Len(u) = UidLength
          BY <4>1, <4>3 DEF Hears
        <4>4. CASE Begins(u, m) /\ Len(u) # UidLength
          <5>1. PICK s \in Nat : offset'[m] = Len(u) /\ timer'[m] = s /\ s <= SlowFollowup
            BY <1>7, <4>1, <4>4 DEF Hears
          <5>2. Len(u) # 0
            BY <1>3, Lengths
          <5>3. Left(n, m)' = s + (IF Known(m)' THEN Rest(Len(u)) ELSE Again)
            BY <2>6, <5>1, <5>2
          <5>4. Rest(Len(u)) \in 0 .. SlowFollowup
            BY <1>1, Remaining
          <5>5. PICK w \in Nat : Left(n, m)' = w /\ w <= Left(n, m)
            <6>1. CASE partial = u
              <7>1. Known(m)'
                BY <1>5, <4>4, <5>1, <6>1 DEF Known, Begins
              <7>2. Left(n, m) = SlowFollowup + Rest(Len(u))
                BY <2>5, <4>4, <6>1 DEF After
              <7> QED BY <1>7, <5>1, <5>3, <5>4, <7>1, <7>2
            <6>2. CASE partial # u
              <7>1. Left(n, m) = SlowFollowup + Again
                BY <2>5, <4>4, <6>2
              <7>2. PICK rest : rest = IF Known(m)' THEN Rest(Len(u)) ELSE Again
                OBVIOUS
              <7>3. rest \in Nat /\ rest <= Again
                BY <1>7, <5>4, <7>2
              <7>4. Left(n, m)' = s + rest
                BY <5>3, <7>2
              <7> QED BY <1>7, <5>1, <7>1, <7>3, <7>4
            <6> QED BY <6>1, <6>2
          <5> QED BY <1>9, <2>1, <2>3, <2>4, <5>5
        <4> QED BY <4>2, <4>3, <4>4
      <3> QED BY <3>1, <3>2
    <2> QED BY <2>1, <2>2, <2>7 DEF Apart
  <1> QED BY <1>6, <1>8, <1>9, <1>10, Touched

\* The allocator forgets the exchange: it has to be repeated.
LEMMA Forgotten ==
    ASSUME Fed, NEW n \in Asking, NEW m \in Node \ {n}, faults' <= 1, Forget
    PROVE  InTime(n, m)'
  <1>1. /\ timer \in [Node -> Nat] /\ unfed \in [Node -> Nat] /\ TwoInTime
        /\ n \in Node /\ m \in Node
    BY FedFacts DEF Fed, Asking
  <1>2. faults = 0 /\ faults' = 1
    BY FedFacts DEF Forget
  <1>3. UNCHANGED <<uid, offset, timer, nodeId, queue, unfed, answers>>
    BY DEF Forget, node
  <1>4. /\ Again \in Nat /\ Again = SlowRequest + 2 * SlowFollowup
        /\ SlowRequest \in Nat /\ SlowFollowup \in Nat
    BY <1>1, Fit
  <1>5. /\ \A len : Rest(len) \in 0 .. SlowFollowup /\ After(len) \in 0 .. 2 * SlowFollowup
    BY <1>1, Remaining
  <1>6. ASSUME Apart(n, m) PROVE Apart(n, m)'
    <2>1. ASSUME nodeId[m] = 0 PROVE unfed'[n] + Left(n, m)' <= Bound'
      <3>1. unfed[n] + Left(n, m) <= Again /\ unfed[n] \in Nat /\ Left(n, m) \in Nat
        BY <1>1, <1>2, <1>6, <2>1, LeftTypes DEF Apart, Bound
      <3>2. Bound' = 2 * Again + 1
        BY <1>2 DEF Bound
      <3>3. PICK w \in Nat : Left(n, m)' = w /\ w <= Left(n, m) + Again
        <4>1. CASE queue[m] # <<>>
          <5>1. PICK len : Left(n, m)' \in {After(len), Again}
            BY <1>3, <4>1 DEF Left
          <5>2. After(len) \in 0 .. 2 * SlowFollowup
            BY <1>5
          <5>3. PICK w \in Nat : Left(n, m)' = w /\ w <= Again
            BY <1>4, <5>1, <5>2
          <5> QED BY <1>4, <3>1, <5>3
        <4>2. CASE queue[m] = <<>> /\ answers # <<>>
          <5>1. PICK u : u = Head(answers).uid
            OBVIOUS
          <5>2. Left(n, m) = IF ~Begins(u, m) THEN Again
                             ELSE IF Len(u) = UidLength \/ partial = u THEN After(Len(u))
                             ELSE SlowFollowup + Again
            BY <4>2, <5>1 DEF Left
          <5>3. Begins(u, m)' = Begins(u, m)
            BY <1>3 DEF Begins
          <5>4. Left(n, m)' = IF ~Begins(u, m)' THEN Again
                              ELSE IF Len(u) = UidLength \/ partial' = u THEN After(Len(u))
                              ELSE SlowFollowup + Again
            BY <1>3, <4>2, <5>1 DEF Left
          <5>5. After(Len(u)) \in 0 .. 2 * SlowFollowup
            BY <1>5
          <5>6. Len(u) # UidLength => After(Len(u)) >= SlowFollowup
            <6>1. Rest(Len(u)) \in 0 .. SlowFollowup
              BY <1>5
            <6> QED BY <1>4, <6>1 DEF After
          <5> QED BY <1>4, <5>2, <5>3, <5>4, <5>5, <5>6
        <4>3. CASE queue[m] = <<>> /\ answers = <<>>
          <5>1. Left(n, m) = IF offset[m] = 0 THEN Sooner(timer[m], timer[n]) + 2 * SlowFollowup
                             ELSE timer[m] + (IF Known(m) THEN Rest(offset[m]) ELSE Again)
            BY <4>3 DEF Left
          <5>2. Left(n, m)' = IF offset[m] = 0 THEN Sooner(timer[m], timer[n]) + 2 * SlowFollowup
                              ELSE timer[m] + (IF Known(m)' THEN Rest(offset[m]) ELSE Again)
            BY <1>3, <4>3 DEF Left
          <5>3. Rest(offset[m]) \in 0 .. SlowFollowup
            BY <1>5
          <5>4. CASE offset[m] = 0
            BY <1>4, <3>1, <5>1, <5>2, <5>4
          <5>5. CASE offset[m] # 0
            <6>1. PICK rest \in Nat : Left(n, m)' = timer[m] + rest /\ rest <= Again
              BY <1>4, <5>2, <5>3, <5>5
            <6>2. PICK was \in Nat : Left(n, m) = timer[m] + was
              BY <1>4, <5>1, <5>3, <5>5
            <6>3. timer[m] \in Nat
              BY <1>1
            <6> QED BY <1>4, <6>1, <6>2, <6>3
          <5> QED BY <5>4, <5>5
        <4> QED BY <4>1, <4>2, <4>3
      <3> QED BY <1>3, <1>4, <3>1, <3>2, <3>3
    <2>2. timer'[m] > (IF faults = 0 THEN 1 ELSE 0) => timer'[m] > (IF faults' = 0 THEN 1 ELSE 0)
      BY <1>1, <1>2, <1>3
    <2> QED BY <1>3, <1>6, <2>1, <2>2 DEF Apart
  <1>7. unfed'[n] = unfed[n] /\ timer'[n] = timer[n] /\ faults' \in Nat /\ faults <= faults'
    BY <1>2, <1>3
  <1> QED BY <1>6, <1>7, Untouched

\* The other node begins anew.
LEMMA OtherRestarts ==
    ASSUME Fed, NEW n \in Asking, NEW m \in Node \ {n}, faults' <= 1, Restart(m)
    PROVE  InTime(n, m)'
  <1>1. /\ timer \in [Node -> Nat] /\ unfed \in [Node -> Nat] /\ TwoInTime /\ IInv
        /\ n \in Node /\ m \in Node /\ n # m
        /\ queue \in [Node -> Seq(Requests)] /\ offset \in [Node -> 0 .. UidLength]
    BY FedFacts DEF Fed, Asking
  <1>2. faults = 0 /\ faults' = 1
    BY FedFacts DEF Restart
  <1>3. PICK d \in RequestDelays : timer' = [timer EXCEPT ![m] = d]
    BY DEF Restart
  <1>4. /\ d \in Nat /\ 1 < d /\ d <= SlowRequest
        /\ Again \in Nat /\ Again = SlowRequest + 2 * SlowFollowup
        /\ SlowRequest \in Nat /\ SlowFollowup \in Nat
    BY <1>1, Fit
  <1>5. /\ queue'[m] = <<>> /\ queue'[n] = queue[n] /\ offset'[m] = 0 /\ timer'[m] = d
        /\ timer'[n] = timer[n] /\ unfed'[n] = unfed[n]
        /\ UNCHANGED <<uid, partial, answers>>
    BY <1>1, <1>3 DEF Restart, allocator
  <1>6. ASSUME Apart(n, m) PROVE Apart(n, m)'
    <2>1. unfed[n] \in Nat /\ timer[n] \in Nat /\ Bound = Again /\ Bound' = 2 * Again + 1
      BY <1>1, <1>2 DEF Bound
    <2>2. CASE answers = <<>>
      <3>1. unfed[n] + timer[n] <= Again + SlowRequest
        BY <1>2, <2>1 DEF Fed, FedInv, InTime
      <3>2. Left(n, m)' = Sooner(d, timer[n]) + 2 * SlowFollowup
        BY <1>5, <2>2 DEF Left
      <3>3. Sooner(d, timer[n]) \in Nat /\ Sooner(d, timer[n]) <= timer[n]
        BY <1>1, <1>4, <2>1, Remaining
      <3>4. unfed'[n] + Left(n, m)' <= Bound'
        BY <1>4, <1>5, <2>1, <3>1, <3>2, <3>3
      <3> QED BY <1>5, <1>6, <2>2, <3>4 DEF Apart
    <2>3. CASE answers # <<>>
      <3>1. /\ queue[m] = <<>> /\ Len(answers) = 1 /\ nodeId[m] = 0
            /\ unfed[n] + Left(n, m) <= Bound
        BY <1>6, <2>3 DEF Apart
      <3>2. Left(n, m)' = Left(n, m)
        BY <1>5, <2>3, <3>1 DEF Left, Begins
      <3>3. Left(n, m) \in Nat
        BY <1>1, LeftTypes
      <3>4. unfed'[n] + Left(n, m)' <= Bound'
        BY <1>4, <1>5, <2>1, <3>1, <3>2, <3>3
      <3>5. nodeId'[m] = 0
        BY <1>1 DEF Restart, IInv, NodeTypes
      <3>6. timer'[m] > IF faults' = 0 THEN 1 ELSE 0
        BY <1>4, <1>5
      <3> QED BY <1>5, <1>6, <3>1, <3>4, <3>5, <3>6 DEF Apart
    <2> QED BY <2>2, <2>3
  <1>7. faults' \in Nat /\ faults <= faults'
    BY <1>2
  <1> QED BY <1>5, <1>6, <1>7, Untouched

\* Time passes: the wait goes on, and what is left gets shorter.
LEMMA TimePasses ==
    ASSUME Fed, NEW n \in Asking, NEW m \in Node \ {n}, Node = {n, m}, faults' <= 1, Tick
    PROVE  InTime(n, m)'
  <1>1. /\ faults \in Nat /\ timer \in [Node -> Nat] /\ unfed \in [Node -> Nat] /\ TwoInTime
        /\ n \in Node /\ m \in Node /\ n # m /\ InTime(n, m) /\ faults <= 1
        /\ offset[m] \in {0, Part, 2 * Part}
        /\ timer[n] <= SlowRequest /\ (nodeId[m] = 0 => timer[m] <= SlowRequest)
    <2>1. faults \in Nat /\ faults <= faults'
      BY FedFacts DEF Tick
    <2> QED BY <2>1, FedFacts DEF Fed, FedInv, Asking, Tick
  <1>2. /\ answers = <<>> /\ timer[n] > 0 /\ (nodeId[m] = 0 => timer[m] > 0)
        /\ faults' = IF queue[n] = <<>> /\ queue[m] = <<>> THEN faults ELSE faults + 1
        /\ UNCHANGED <<uid, offset, nodeId, queue, partial, answers>>
    BY <1>1 DEF Tick, allocator, Asking
  <1>3. /\ timer'[n] = timer[n] - 1
        /\ nodeId[m] = 0 => timer'[m] = timer[m] - 1
        /\ nodeId[m] # 0 => timer'[m] = timer[m]
    BY <1>1 DEF Tick, Asking
  <1>4. PICK w \in Nat : unfed'[n] = w /\ w <= unfed[n] + 1 /\ unfed[n] \in Nat
    <2>1. unfed'[n] = LongerWait(n)
      BY <1>1 DEF Tick
    <2> QED BY <1>1, <2>1 DEF LongerWait
  <1>5. PICK f \in Nat : faults' = f /\ faults <= f /\ f <= 1
                         /\ (f # faults => f = 1 /\ faults = 0)
    BY <1>1, <1>2
  <1>6. /\ Again \in Nat /\ Again = SlowRequest + 2 * SlowFollowup
        /\ SlowRequest \in Nat /\ SlowFollowup \in Nat /\ SlowRequest > 1
    BY <1>1, Fit
  <1>7. /\ Bound \in Nat /\ Bound' \in Nat /\ Bound <= Bound'
        /\ faults = 0 => Bound = Again
        /\ faults < faults' => faults = 0 /\ Bound' = 2 * Again + 1
    BY <1>1, <1>5, Bounds
  <1>8. unfed'[n] + timer'[n] <= Bound' + SlowRequest
    <2>1. unfed[n] + timer[n] <= Bound + SlowRequest /\ timer[n] \in Nat
      BY <1>1 DEF InTime
    <2>2. PICK b \in Nat : Bound' = b
      BY <1>7
    <2> QED BY <1>2, <1>3, <1>4, <1>6, <1>7, <2>1, <2>2
  <1>9. /\ Rest(offset[m]) \in 0 .. SlowFollowup
        /\ Known(m)' = Known(m)
    BY <1>1, <1>2, Remaining DEF Known, Begins
  <1>10. ASSUME queue[n] = <<>>, queue[m] = <<>>, nodeId[m] = 0
         PROVE  /\ Left(n, m)' \in Nat
                /\ Left(n, m)' + 1 <= Left(n, m)
                /\ faults = 0 => Left(n, m)' + 1 <= Again
                /\ Left(n, m)' + 1 <= 2 * Again
    <2>1. Left(n, m) = IF offset[m] = 0 THEN Sooner(timer[m], timer[n]) + 2 * SlowFollowup
                       ELSE timer[m] + (IF Known(m) THEN Rest(offset[m]) ELSE Again)
      BY <1>2, <1>10 DEF Left
    <2>2. Left(n, m)' = IF offset[m] = 0 THEN Sooner(timer[m] - 1, timer[n] - 1) + 2 * SlowFollowup
                        ELSE timer[m] - 1 + (IF Known(m) THEN Rest(offset[m]) ELSE Again)
      BY <1>2, <1>3, <1>9, <1>10 DEF Left
    <2>3. timer[m] \in Nat /\ timer[n] \in Nat /\ timer[m] > 0 /\ timer[n] > 0
          /\ timer[m] <= SlowRequest
      BY <1>1, <1>2, <1>10
    <2>4. CASE offset[m] = 0
      <3>1. PICK s \in Nat : /\ Sooner(timer[m] - 1, timer[n] - 1) = s
                             /\ Sooner(timer[m], timer[n]) = s + 1
                             /\ s + 1 <= SlowRequest
        <4>1. timer[m] - 1 \in Nat /\ timer[n] - 1 \in Nat
          BY <2>3
        <4> QED BY <4>1, <2>3, <1>6 DEF Sooner
      <3>2. Left(n, m) = (s + 1) + 2 * SlowFollowup /\ Left(n, m)' = s + 2 * SlowFollowup
        BY <2>1, <2>2, <2>4, <3>1
      <3> QED BY <1>6, <3>1, <3>2
    <2>5. CASE offset[m] # 0
      <3>1. PICK rest : rest = IF Known(m) THEN Rest(offset[m]) ELSE Again
        OBVIOUS
      <3>2. rest \in Nat /\ rest <= Again /\ (Known(m) => rest <= SlowFollowup)
        BY <1>6, <1>9, <3>1
      <3>3. faults = 0 => Known(m)
        BY <1>2, <1>10, <2>5, <1>1 DEF Fed, FedInv, Undisturbed, Asking
      <3>4. Left(n, m) = timer[m] + rest /\ Left(n, m)' = timer[m] - 1 + rest
        BY <2>1, <2>2, <2>5, <3>1
      <3> QED BY <1>6, <2>3, <3>2, <3>3, <3>4
    <2> QED BY <2>4, <2>5
  <1>11. CASE w <= f
    BY <1>4, <1>5, <1>8, <1>11 DEF InTime
  <1>12. CASE w > f
    <2>1. Apart(n, m)'
      <3>1. CASE Apart(n, m)
        <4>1. queue'[n] = <<>> /\ answers' = <<>>
          BY <1>2, <3>1 DEF Apart
        <4>2. CASE queue[m] = <<>>
          <5>1. nodeId'[m] = 0 => unfed'[n] + Left(n, m)' <= Bound'
            <6> SUFFICES ASSUME nodeId[m] = 0 PROVE unfed'[n] + Left(n, m)' <= Bound'
              BY <1>2
            <6>1. unfed[n] + Left(n, m) <= Bound /\ Left(n, m) \in Nat
              BY <1>1, <3>1, LeftTypes DEF Apart
            <6>2. PICK l \in Nat : Left(n, m)' = l /\ l + 1 <= Left(n, m)
              BY <1>2, <1>10, <4>1, <4>2
            <6>3. PICK b \in Nat : Bound' = b /\ Bound <= b
              BY <1>7
            <6> QED BY <1>4, <1>7, <6>1, <6>2, <6>3
          <5> QED BY <1>2, <4>1, <4>2, <5>1 DEF Apart
        <4>3. CASE queue[m] # <<>>
          <5>1. /\ faults = 0 /\ f = 1 /\ Bound' = 2 * Again + 1 /\ Bound = Again
            BY <1>1, <1>2, <1>5, <1>7, <4>3
          <5>2. /\ nodeId[m] = 0 /\ offset[m] = 0 /\ timer[m] > 1 /\ Len(queue[m]) = 1
                /\ unfed[n] + Left(n, m) <= Bound
            BY <3>1, <4>3, <5>1 DEF Apart
          <5>3. Left(n, m)' = Left(n, m)
            <6>1. PICK request : request = Head(queue[m])
              OBVIOUS
            <6>2. Left(n, m) = IF (request.first \/ Extends(request)) /\ Begins(Received(request), m)
                               THEN After(Len(Received(request))) ELSE Again
              BY <4>3, <6>1 DEF Left
            <6>3. Left(n, m)' = IF (request.first \/ Extends(request)') /\ Begins(Received(request), m)'
                                THEN After(Len(Received(request)')) ELSE Again
              BY <1>2, <4>3, <6>1 DEF Left
            <6>4. /\ Extends(request)' = Extends(request) /\ Received(request)' = Received(request)
                  /\ Begins(Received(request), m)' = Begins(Received(request), m)
              BY <1>2 DEF Extends, Received, Begins
            <6> QED BY <6>2, <6>3, <6>4
          <5>4. unfed'[n] + Left(n, m)' <= Bound'
            <6>1. Left(n, m) \in Nat
              BY <1>1, LeftTypes
            <6> QED BY <1>4, <1>6, <5>1, <5>2, <5>3, <6>1
          <5>5. timer'[m] > IF faults' = 0 THEN 1 ELSE 0
            <6>1. timer[m] \in Nat /\ timer'[m] = timer[m] - 1
              BY <1>1, <1>3, <5>2
            <6> QED BY <1>5, <5>1, <5>2, <6>1
          <5> QED BY <1>2, <4>1, <5>2, <5>4, <5>5 DEF Apart
        <4> QED BY <4>2, <4>3
      <3>2. CASE unfed[n] <= faults
        <4>1. f = faults /\ w = faults + 1
          BY <1>1, <1>4, <1>5, <1>12, <3>2
        <4>2. queue[n] = <<>> /\ queue[m] = <<>>
          BY <1>1, <1>2, <1>5, <4>1
        <4>3. nodeId'[m] = 0 => unfed'[n] + Left(n, m)' <= Bound'
          <5> SUFFICES ASSUME nodeId[m] = 0 PROVE unfed'[n] + Left(n, m)' <= Bound'
            BY <1>2
          <5>1. PICK l \in Nat : /\ Left(n, m)' = l /\ l + 1 <= 2 * Again
                                 /\ faults = 0 => l + 1 <= Again
            BY <1>10, <4>2
          <5>2. Bound' = IF faults = 0 THEN Again ELSE 2 * Again + 1
            BY <1>5, <4>1 DEF Bound
          <5> QED BY <1>1, <1>4, <1>6, <4>1, <5>1, <5>2
        <4> QED BY <1>2, <4>2, <4>3 DEF Apart
      <3> QED BY <1>1, <3>1, <3>2 DEF InTime
    <2> QED BY <1>8, <2>1 DEF InTime
  <1> QED BY <1>4, <1>5, <1>11, <1>12

\* All steps together.
LEMMA FedStep ==
    ASSUME Fed, [Next]_vars PROVE FedInv'
  <1>1. CASE UNCHANGED vars
    BY <1>1 DEF vars, node, allocator, Fed, FedInv, Asking, Undisturbed, Known, Begins,
                InTime, Apart, Left, Bound, Extends, Received
  <1>2. CASE Next
    <2>1. /\ \A k \in Asking' : timer'[k] <= SlowRequest
          /\ \A k \in Node \ Asking' : unfed'[k] = 0
          /\ Undisturbed'
      BY <1>2, TimersStep, UndisturbedStep
    <2>2. ASSUME faults' <= 1, NEW n \in Asking', NEW m \in Node \ {n} PROVE InTime(n, m)'
      <3>1. n \in Node /\ n # m /\ Node = {n, m} /\ nodeId'[n] = 0
        BY DEF Asking, Fed, TwoInTime
      <3>2. CASE n \notin Asking
        <4>1. nodeId[n] # 0
          BY <3>1, <3>2 DEF Asking
        <4>2. IInv /\ StagesInv
          BY DEF Fed
        <4>3. ~Forget /\ ~Tick
          BY <3>1, <4>1 DEF Forget, Tick, node
        <4>4. ~Answer
          BY <3>1, <3>2, <4>1, <4>2, Answered DEF Heard
        <4>5. ASSUME NEW k \in Node PROVE ~SendRequest(k) /\ ~Transmit(k)
          BY <3>1, <4>1, <4>2, Transmitted DEF SendRequest, Sent
        <4>6. ~Restart(m)
          BY <3>1, <4>1, <4>2 DEF Restart, IInv, NodeTypes
        <4>7. Restart(n)
          BY <1>2, <3>1, <4>3, <4>4, <4>5, <4>6 DEF Next
        <4> QED BY <2>2, <3>1, <4>7, OwnStep
      <3>3. CASE n \in Asking
        <4>1. CASE Answer
          BY <2>2, <3>3, <4>1, AnswerHeard
        <4>2. CASE Forget
          BY <2>2, <3>3, <4>2, Forgotten
        <4>3. CASE Tick
          BY <2>2, <3>1, <3>3, <4>3, TimePasses
        <4>4. CASE SendRequest(n) \/ Restart(n)
          BY <2>2, <3>1, <4>4, OwnStep
        <4>5. CASE Transmit(n)
          BY <2>2, <3>3, <4>5, OwnTransmission
        <4>6. CASE SendRequest(m)
          BY <2>2, <3>3, <4>6, OtherSends
        <4>7. CASE Restart(m)
          BY <2>2, <3>3, <4>7, OtherRestarts
        <4>8. CASE Transmit(m)
          BY <2>2, <3>3, <4>8, OtherTransmission
        <4> QED BY <1>2, <3>1, <4>1, <4>2, <4>3, <4>4, <4>5, <4>6, <4>7, <4>8 DEF Next
      <3> QED BY <3>2, <3>3
    <2> QED BY <2>1, <2>2 DEF FedInv
  <1> QED BY <1>1, <1>2

(* The invariant of the waits.                                                 *)
THEOREM FedInvariance == TwoInTime => (Spec => []FedInv)
  <1> SUFFICES ASSUME TwoInTime PROVE Spec => []FedInv
    OBVIOUS
  <1>1. Init => FedInv
    <2> SUFFICES ASSUME Init PROVE FedInv
      OBVIOUS
    <2>1. /\ \A n \in Node : nodeId[n] = 0 /\ unfed[n] = 0 /\ offset[n] = 0 /\ timer[n] \in RequestDelays
          /\ answers = <<>> /\ faults = 0 /\ Asking = Node
      BY DEF Init, Asking
    <2>2. /\ \A r \in RequestDelays : r \in Nat /\ r <= SlowRequest
          /\ Bound \in Nat /\ SlowRequest \in Nat
      BY Fit
    <2>3. \A n \in Node, m \in Node : InTime(n, m)
      BY <2>1, <2>2 DEF InTime
    <2>4. Undisturbed
      BY <2>1 DEF Undisturbed
    <2> QED BY <2>1, <2>2, <2>3, <2>4 DEF FedInv
  <1>2. IInv /\ StagesInv /\ DelaysInv /\ FedInv /\ [Next]_vars => FedInv'
    BY FedStep DEF Fed
  <1> QED BY <1>1, <1>2, AllocationInvariance, StagesInvariance, DelaysInvariance, PTL DEF Spec

(* performDynamicNodeIDAllocation(): the node resets its watchdog once in each *)
(* turn, and the turn ends in time even if the other node goes through a whole *)
(* exchange in it, one that a fault makes it repeat.                           *)
THEOREM WatchdogIsFed == TwoInTime => (Spec => []WatchdogIsReset)
  <1> SUFFICES ASSUME TwoInTime PROVE Spec => []WatchdogIsReset
    OBVIOUS
  <1>1. StagesInv /\ DelaysInv /\ FedInv => WatchdogIsReset
    <2> SUFFICES ASSUME StagesInv, DelaysInv, FedInv, NEW n \in Node, faults <= 1
                 PROVE  unfed[n] < WatchdogTicks
      BY DEF WatchdogIsReset
    <2>1. /\ Bound <= 2 * Again + 1 /\ Bound \in Nat /\ Again \in Nat /\ SlowRequest \in Nat
          /\ 2 * Again + 1 + SlowRequest < WatchdogTicks
      BY Fit
    <2>2. unfed[n] \in Nat /\ timer[n] \in Nat /\ WatchdogTicks \in Nat
      BY Lengths DEF StagesInv, DelaysInv
    <2>3. CASE n \in Asking
      <3>1. PICK m \in Node : m # n
        BY DEF TwoInTime
      <3>2. unfed[n] + timer[n] <= Bound + SlowRequest
        BY <2>3, <3>1 DEF FedInv, InTime
      <3> QED BY <2>1, <2>2, <3>2
    <2>4. CASE n \notin Asking
      BY <2>1, <2>2, <2>4 DEF FedInv
    <2> QED BY <2>3, <2>4
  <1> QED BY <1>1, FedInvariance, StagesInvariance, DelaysInvariance, PTL
=============================================================================
