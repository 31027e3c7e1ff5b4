-------------------------- MODULE NodeIdAllocation --------------------------
(* Dynamic node ID allocation of several bootloaders on one CAN bus:           *)
(* performDynamicNodeIDAllocation(), the allocation branch of                  *)
(* onTransferReception() and the TX queue that poll() empties                  *)
(* (src/bootloader/src/l_uavcan.hpp).  A node asks for an ID with its unique   *)
(* ID, which takes three requests; every request and every answer is heard by  *)
(* everybody, and each moves the deadline of everybody's next request (Rule C).*)
(*                                                                             *)
(* A frame is delivered to all nodes at once, as CAN does.  Time passes in     *)
(* ticks, and only when nobody has anything to do: the bus is fast compared to *)
(* the delays.  The allocator is another node's program.  A fault is a frame   *)
(* that some of its receivers lose, a full driver queue that holds requests    *)
(* back for a tick, a restart of a node, or an allocator that forgets the      *)
(* exchange it is in.                                                          *)
EXTENDS Integers, Sequences

CONSTANTS
    Node,               \* the bootloaders without a node ID
    UidLength,          \* bytes of a unique ID
    MaxLenOfUniqueIDInRequest,
    Byte,
    UidChoices,         \* the assignments of unique IDs to nodes to consider
    Ids,                \* the node IDs the allocator hands out
    RequestDelays,      \* 600..1000 ms in ticks
    FollowupDelays,     \* 0..400 ms in ticks
    WatchdogTicks,      \* the IWDG timeout in ticks
    MaxFaults           \* bound on the faults of one behaviour

ASSUME UidAssumption ==
    /\ UidLength \in Nat
    /\ MaxLenOfUniqueIDInRequest \in Nat
    /\ UidChoices \subseteq [Node -> [1..UidLength -> Byte]]
    /\ \A u \in UidChoices, m, n \in Node : u[m] = u[n] => m = n
ASSUME IdAssumption == 0 \notin Ids      \* 0 is CANARD_BROADCAST_NODE_ID

(* A unique ID of 16 bytes takes three requests of at most 6, and a follow-up  *)
(* is sooner than any other request.                                           *)
ASSUME StagesAssumption ==
    /\ 2 * MaxLenOfUniqueIDInRequest < UidLength
    /\ UidLength <= 3 * MaxLenOfUniqueIDInRequest
ASSUME DelaysAssumption ==
    /\ RequestDelays \subseteq Nat /\ FollowupDelays \subseteq Nat
    /\ \A r \in RequestDelays, f \in FollowupDelays : f < r
    /\ WatchdogTicks \in Nat

VARIABLES
    uid,        \* hw_info_.unique_id of each node
    offset,     \* node_id_allocation_unique_id_offset_
    timer,      \* ticks to send_next_node_id_allocation_request_at_
    nodeId,     \* canardGetLocalNodeID(), 0 is CANARD_BROADCAST_NODE_ID
    queue,      \* the TX queue of libcanard
    unfed,      \* ticks since watchdog_.reset()
    partial,    \* the allocator: the unique ID received so far
    table,      \* the allocator: the IDs it has given, kept for ever
    answers,    \* the allocator: its own TX queue
    faults      \* faults so far

node == <<uid, offset, timer, nodeId, queue, unfed>>
allocator == <<partial, table, answers>>
vars == <<node, allocator, faults>>

Allocator == "allocator"
Prefix(u, len) == SubSeq(u, 1, len)
Stations == Node \union {Allocator}
Asking == {n \in Node : nodeId[n] = 0}

Init ==
    /\ uid \in UidChoices
    /\ offset = [n \in Node |-> 0]
    /\ timer \in [Node -> RequestDelays]
    /\ nodeId = [n \in Node |-> 0]
    /\ queue = [n \in Node |-> <<>>]
    /\ unfed = [n \in Node |-> 0]
    /\ partial = <<>>
    /\ table = << >>
    /\ answers = <<>>
    /\ faults = 0

(* Who misses a frame: nobody, or for the price of a fault some station.       *)
Missing(lost) ==
    /\ faults' = IF lost = {} THEN faults ELSE faults + 1
    /\ faults' <= MaxFaults

-----------------------------------------------------------------------------
(* The node.                                                                   *)

(* Every delay is getRandomDurationMicrosecond(): any value of its range.      *)
Redraw(delays) == timer' \in {t \in [Node -> UNION {delays[n] : n \in Node}] :
                                \A n \in Node : t[n] \in delays[n]}

(* As much of the rest of a unique ID as a request takes.                      *)
PartOf(rest) ==
    IF rest > MaxLenOfUniqueIDInRequest THEN MaxLenOfUniqueIDInRequest ELSE rest

Piece(n) ==
    SubSeq(uid[n], offset[n] + 1, offset[n] + PartOf(UidLength - offset[n]))

Request(n) == [first |-> offset[n] = 0, piece |-> Piece(n)]

(* The wait is over: the request is queued, the stage falls back until an      *)
(* answer sets it again, and the next turn of the loop resets the watchdog and *)
(* draws a new deadline.                                                       *)
SendRequest(n) ==
    /\ nodeId[n] = 0
    /\ timer[n] = 0
    /\ queue' = [queue EXCEPT ![n] = Append(@, Request(n))]
    /\ offset' = [offset EXCEPT ![n] = 0]
    /\ unfed' = [unfed EXCEPT ![n] = 0]
    /\ \E d \in RequestDelays : timer' = [timer EXCEPT ![n] = d]
    /\ UNCHANGED <<uid, nodeId, allocator, faults>>

(* onTransferReception(): a request of another node.                           *)
HearRequest(hearing) ==
    /\ offset' = [n \in Node |-> IF n \in hearing THEN 0 ELSE offset[n]]
    /\ Redraw([n \in Node |-> IF n \in hearing THEN RequestDelays ELSE {timer[n]}])
    /\ UNCHANGED <<uid, nodeId, unfed>>

(* onTransferReception(): an answer of the allocator.  The received part is    *)
(* compared with the beginning of the node's own unique ID (memcmp).           *)
MatchFirstPart(n, answer) ==    \* mutant: compares a fixed length
    \A i \in 1..MaxLenOfUniqueIDInRequest : answer.uid[i] = uid[n][i]
Match(n, answer) == \A i \in 1..Len(answer.uid) : answer.uid[i] = uid[n][i]
CompleteLate(answer) == Len(answer.uid) > UidLength     \* mutant: <= for <
Complete(answer) == Len(answer.uid) = UidLength
Stage(n, answer) == IF Match(n, answer) THEN Len(answer.uid) ELSE 0
NextDelaysSlow(n, answer) == RequestDelays      \* mutant: no shorter delay
NextDelays(n, answer) ==
    IF Match(n, answer) /\ ~Complete(answer) THEN FollowupDelays ELSE RequestDelays

HearAnswer(hearing, answer) ==
    LET taking == {n \in hearing : Match(n, answer) /\ Complete(answer)}
    IN  /\ nodeId' = [n \in Node |-> IF n \in taking THEN answer.id ELSE nodeId[n]]
        /\ unfed' = [n \in Node |-> IF n \in taking THEN 0 ELSE unfed[n]]
        /\ offset' = [n \in Node |-> IF n \in hearing \ taking THEN Stage(n, answer) ELSE offset[n]]
        /\ Redraw([n \in Node |-> IF n \in taking THEN {0}      \* has no reader any more
                                   ELSE IF n \in hearing THEN NextDelays(n, answer)
                                   ELSE {timer[n]}])
        /\ UNCHANGED uid

-----------------------------------------------------------------------------
(* The allocator.                                                              *)

(* A follow-up request carries no stage: its length has to be that of the next *)
(* part.                                                                       *)
Extends(request) ==
    LET left == UidLength - Len(partial)
    IN  /\ partial # <<>>
        /\ Len(request.piece) = PartOf(left)

Received(request) == IF request.first THEN request.piece ELSE partial \o request.piece

(* A request that would need an ID when none is left is not modelled: Ids is a *)
(* bound that the instances do not reach.                                      *)
Used == {table[u] : u \in DOMAIN table}
IdFor(u) == IF u \in DOMAIN table THEN table[u] ELSE CHOOSE id \in Ids \ Used : TRUE
CanGive(u) == u \in DOMAIN table \/ Ids \ Used # {}

Serve(request) ==
    LET u == Received(request)
    IN  \/ /\ ~request.first
           /\ ~Extends(request)
           /\ UNCHANGED allocator
        \/ /\ request.first \/ Extends(request)
           /\ Len(u) < UidLength
           /\ partial' = u
           /\ answers' = Append(answers, [uid |-> u, id |-> 0])
           /\ UNCHANGED table
        \/ /\ request.first \/ Extends(request)
           /\ Len(u) = UidLength
           /\ CanGive(u)
           /\ partial' = <<>>
           /\ table' = [v \in DOMAIN table \union {u} |-> IF v = u THEN IdFor(u) ELSE table[v]]
           /\ answers' = Append(answers, [uid |-> u, id |-> IdFor(u)])

(* The follow-up timeout of the allocator, or its restart.                     *)
Forget ==
    /\ partial # <<>>
    /\ faults < MaxFaults
    /\ faults' = faults + 1
    /\ partial' = <<>>
    /\ UNCHANGED <<node, table, answers>>

-----------------------------------------------------------------------------
(* The bus.                                                                    *)

(* poll() of a node puts the first request of its queue on the bus.  It is     *)
(* sent as it was built, even when its node has got an ID meanwhile.           *)
Transmit(n) ==
    /\ queue[n] # <<>>
    /\ queue' = [queue EXCEPT ![n] = Tail(@)]
    /\ \E lost \in SUBSET Stations :
        /\ Missing(lost)
        /\ HearRequest(Asking \ (lost \union {n}))
        /\ IF Allocator \in lost THEN UNCHANGED allocator ELSE Serve(Head(queue[n]))

Answer ==
    /\ answers # <<>>
    /\ answers' = Tail(answers)
    /\ \E lost \in SUBSET Node :
        /\ Missing(lost)
        /\ HearAnswer(Asking \ lost, Head(answers))
    /\ UNCHANGED <<queue, partial, table>>

(* What is counted of the time since the last reset.                           *)
LongerWait(n) == IF unfed[n] < WatchdogTicks THEN unfed[n] + 1 ELSE unfed[n]

(* A tick passes when every deadline is ahead and the bus is silent; for the   *)
(* price of a fault, when requests are held back because the driver is full.   *)
Tick ==
    /\ \A n \in Asking : timer[n] > 0
    /\ answers = <<>>
    /\ faults' = IF \A n \in Node : queue[n] = <<>> THEN faults ELSE faults + 1
    /\ faults' <= MaxFaults
    /\ timer' = [n \in Node |-> IF n \in Asking THEN timer[n] - 1 ELSE timer[n]]
    /\ unfed' = [n \in Node |-> IF n \in Asking THEN LongerWait(n) ELSE 0]
    /\ UNCHANGED <<uid, offset, nodeId, queue, allocator>>

(* A restart without a node ID to start with.                                  *)
Restart(n) ==
    /\ faults < MaxFaults
    /\ faults' = faults + 1
    /\ offset' = [offset EXCEPT ![n] = 0]
    /\ nodeId' = [nodeId EXCEPT ![n] = 0]
    /\ queue' = [queue EXCEPT ![n] = <<>>]
    /\ unfed' = [unfed EXCEPT ![n] = 0]
    /\ \E d \in RequestDelays : timer' = [timer EXCEPT ![n] = d]
    /\ UNCHANGED <<uid, allocator>>

Next ==
    \/ \E n \in Node : SendRequest(n) \/ Transmit(n) \/ Restart(n)
    \/ Answer
    \/ Forget
    \/ Tick

(* Threads run, the bus moves and time passes.                                 *)
Fairness ==
    /\ \A n \in Node : WF_vars(SendRequest(n)) /\ WF_vars(Transmit(n))
    /\ WF_vars(Answer)
    /\ WF_vars(Tick)

Spec == Init /\ [][Next]_vars /\ Fairness

-----------------------------------------------------------------------------
(* The stage is one of the three, at most a whole unique ID is half received,  *)
(* and the assertions on the offset of a request hold (lines 585-588).         *)
TypeOK ==
    /\ offset \in [Node -> {0, MaxLenOfUniqueIDInRequest, 2 * MaxLenOfUniqueIDInRequest}]
    /\ \A n \in Node : offset[n] < UidLength
    /\ nodeId \in [Node -> Ids \union {0}]
    /\ unfed \in [Node -> 0..WatchdogTicks]
    /\ Len(partial) < UidLength

(* No two nodes take the same ID, and what a node takes is what the allocator  *)
(* keeps for its unique ID, so that it gets the same ID after a restart: the   *)
(* comparison of every answer with the unique ID (line 893), however the       *)
(* exchanges of the nodes interleave.                                          *)
NodeIdIsItsOwn ==
    /\ \A n \in Node : nodeId[n] # 0 => uid[n] \in DOMAIN table /\ table[uid[n]] = nodeId[n]
    /\ \A m, n \in Node : m # n /\ nodeId[m] # 0 => nodeId[m] # nodeId[n]

(* Rule C (line 873): unless a frame was lost or late, nobody starts an        *)
(* exchange while another node is in one; only a node at the same stage, whose *)
(* unique ID begins alike, goes on with it.                                    *)
ExchangeIsNotDisturbed ==
    [][\A m, n \in Node : SendRequest(m) /\ m # n /\ faults = 0 /\ nodeId[n] = 0
            => offset[n] \in {0, offset[m]}]_vars

(* The wait between two resets of the watchdog (line 556) is prolonged by      *)
(* every exchange that is heard.  One exchange of another node, and one that   *)
(* has to be repeated because of a fault, leave it below the timeout of the    *)
(* IWDG; a further one need not.                                               *)
WatchdogIsReset == \A n \in Node : faults <= 1 => unfed[n] < WatchdogTicks

(* Nodes whose unique IDs differ in the first request all get an ID in the     *)
(* end, although they may draw equal delays for ever: std::rand() is never     *)
(* seeded, so bootloaders that are switched on together do.  Only follow-ups   *)
(* that leave at once, while older frames are still on their way, could keep   *)
(* them from it.                                                               *)
FirstPartsDiffer ==
    \A m, n \in Node : m # n =>
        Prefix(uid[m], MaxLenOfUniqueIDInRequest) # Prefix(uid[n], MaxLenOfUniqueIDInRequest)
FollowsUpAtOnce == \E n \in Node : offset'[n] \notin {0, offset[n]} /\ timer'[n] = 0
EveryNodeGetsAnId ==
    FirstPartsDiffer => <>[](Asking = {}) \/ []<><<FollowsUpAtOnce>>_vars
=============================================================================
