--------------------------- MODULE PriorityChannelProofs ---------------------------
(***************************************************************************)
(* Every step of PriorityChannel keeps its counters and the room in a      *)
(* bounded channel; the invariant; and the theorems, for every set of      *)
(* senders, every buffer size and every number of messages.                *)
(***************************************************************************)
EXTENDS PriorityChannelSteps, FiniteSetTheorems

\* How a set of senders grows or shrinks when only s may join or leave it.
LEMMA CountOne ==
  ASSUME NEW A \in SUBSET Senders, NEW B \in SUBSET Senders, NEW s \in Senders,
         \A t \in Senders : t # s => (t \in A <=> t \in B)
  PROVE  /\ IsFiniteSet(A) /\ Cardinality(A) \in Nat /\ Cardinality(B) \in Nat
         /\ Cardinality(B) = Cardinality(A)
              + (IF s \in B THEN 1 ELSE 0) - (IF s \in A THEN 1 ELSE 0)
<1>1. IsFiniteSet(A) /\ IsFiniteSet(B)
  BY Zenon, ChannelAssumption, FS_Subset
<1>2. Cardinality(A) \in Nat /\ Cardinality(B) \in Nat
  BY Zenon, <1>1, FS_CardinalityType
<1>3. CASE s \in B /\ s \notin A
  <2>1. B = A \cup {s}
    BY Zenon, <1>3
  <2> QED
    BY SMTT(30), <1>1, <1>2, <1>3, <2>1, FS_AddElement
<1>4. CASE s \notin B /\ s \in A
  <2>1. B = A \ {s}
    BY Zenon, <1>4
  <2> QED
    BY SMTT(30), <1>1, <1>2, <1>4, <2>1, FS_RemoveElement
<1>5. CASE s \in B <=> s \in A
  <2>1. B = A
    BY <1>5
  <2> QED
    BY <1>1, <1>2, <1>5, <2>1
<1> QED  BY Zenon, <1>3, <1>4, <1>5

\* A step of one sender moves it into or out of UnderWay and AtPark.
LEMMA UnderWayMoves ==
  ASSUME Types, NEW s \in Senders, NEW l \in Calls, pc' = [pc EXCEPT ![s] = l]
  PROVE  /\ Cardinality(UnderWay) \in Nat /\ Cardinality(AtPark) \in Nat
         /\ pc[s] \notin Counted /\ l \in Counted =>
              Cardinality(UnderWay') = Cardinality(UnderWay) + 1
         /\ pc[s] \in Counted /\ l \notin Counted =>
              Cardinality(UnderWay') = Cardinality(UnderWay) - 1
         /\ (pc[s] \in Counted <=> l \in Counted) =>
              Cardinality(UnderWay') = Cardinality(UnderWay)
         /\ pc[s] # "park" /\ l = "park" => Cardinality(AtPark') = Cardinality(AtPark) + 1
         /\ pc[s] = "park" /\ l # "park" => Cardinality(AtPark') = Cardinality(AtPark) - 1
         /\ pc[s] # "park" /\ l # "park" => Cardinality(AtPark') = Cardinality(AtPark)
<1>1. pc \in [Senders -> Calls]
  BY Zenon DEF Types, SenderTypes
<1>2. /\ UnderWay \in SUBSET Senders /\ UnderWay' \in SUBSET Senders
      /\ AtPark \in SUBSET Senders /\ AtPark' \in SUBSET Senders
  BY Zenon DEF UnderWay, AtPark
<1>3. /\ \A t \in Senders : t # s => (t \in UnderWay <=> t \in UnderWay')
      /\ \A t \in Senders : t # s => (t \in AtPark <=> t \in AtPark')
  BY Zenon, <1>1 DEF UnderWay, AtPark
<1>4. /\ s \in UnderWay <=> pc[s] \in Counted
      /\ s \in UnderWay' <=> l \in Counted
      /\ s \in AtPark <=> pc[s] = "park"
      /\ s \in AtPark' <=> l = "park"
  BY Zenon, <1>1 DEF UnderWay, AtPark
<1>5. /\ Cardinality(UnderWay) \in Nat
      /\ Cardinality(UnderWay') = Cardinality(UnderWay)
              + (IF s \in UnderWay' THEN 1 ELSE 0) - (IF s \in UnderWay THEN 1 ELSE 0)
  BY <1>2, <1>3, CountOne
<1>6. /\ Cardinality(AtPark) \in Nat
      /\ Cardinality(AtPark') = Cardinality(AtPark)
              + (IF s \in AtPark' THEN 1 ELSE 0) - (IF s \in AtPark THEN 1 ELSE 0)
  BY SMTT(30), <1>2, <1>3, CountOne
<1> QED  BY SMTT(30), <1>4, <1>5, <1>6

\* Every step keeps num_messages equal to the messages there are.
LEMMA CountsStep ==
  ASSUME Types, Counts, Next
  PROVE  Counts'
<1> USE DEF Counts
<1>0. /\ InQueue \in Nat /\ Cardinality(UnderWay) \in Nat
      /\ pc \in [Senders -> Calls] /\ Popped \in {0, 1}
  <2>1. Cardinality(UnderWay) \in Nat
    BY Zenon, ChannelAssumption, FS_Subset, FS_CardinalityType DEF UnderWay
  <2> QED
    BY Zenon, <2>1, InQueueType DEF Types, SenderTypes, Holds
<1>1. ASSUME NEW s \in Senders, NEW l \in Outside, QuietCall(s, l)
      PROVE  Counts'
  <2>1. UNCHANGED <<num_messages, queue, msg, rpc>>
    BY Zenon, SMTT(30), <1>1 DEF QuietCall
  <2>2. UnderWay' = UnderWay
    BY Zenon, <1>0, <1>1 DEF QuietCall, Outside, UnderWay, Counted
  <2> QED
    BY Zenon, SMTT(30), <2>1, <2>2 DEF InQueue, Popped, Holds
<1>2. ASSUME NEW s \in Senders, NEW t \in Senders, Clone(s, t)
      PROVE  Counts'
  BY Zenon, <1>2 DEF Clone, receiver, UnderWay, InQueue, Popped, Holds
<1>3. ASSUME NEW s \in Senders, NEW l \in {"park", "push"}, StartSend(s, l)
      PROVE  Counts'
  <2>1. /\ num_messages' = num_messages + 1 /\ UNCHANGED <<queue, msg, rpc>>
        /\ pc' = [pc EXCEPT ![s] = l] /\ pc[s] = "inc"
    BY Zenon, <1>3 DEF StartSend, receiver
  <2>2. l \in Calls /\ l \in Counted /\ "inc" \notin Counted
    BY Zenon DEF Calls, Counted
  <2>3. Cardinality(UnderWay') = Cardinality(UnderWay) + 1
    BY ZenonT(30), <2>1, <2>2, UnderWayMoves
  <2>4. InQueue' = InQueue /\ Popped' = Popped /\ Holds' = Holds
    BY Zenon, <2>1 DEF InQueue, Popped, Holds
  <2> QED
    BY SMTT(30), <1>0, <2>1, <2>3, <2>4
<1>4. ASSUME NEW s \in Senders, ParkPush(s) \/ ParkLink(s) \/ ParkCheck(s)
      PROVE  Counts'
  <2>1. UNCHANGED <<num_messages, queue, msg, rpc>>
    BY Zenon, SMTT(30), <1>4 DEF ParkPush, ParkLink, ParkCheck, Park, receiver
  <2>2. UnderWay' = UnderWay
    BY Zenon, <1>0, <1>4 DEF ParkPush, ParkLink, ParkCheck, Park, Goto, UnderWay, Counted
  <2> QED
    BY Zenon, SMTT(30), <2>1, <2>2 DEF InQueue, Popped, Holds
<1>5. ASSUME NEW s \in Senders, Push(s)
      PROVE  Counts'
  <2>1. /\ UNCHANGED <<num_messages, msg, rpc>>
        /\ pc' = [pc EXCEPT ![s] = "link"] /\ pc[s] = "push"
    BY Zenon, <1>5 DEF Push, QueuePushAndSignal, Goto
  <2>2. "link" \in Calls /\ "link" \notin Counted /\ "push" \in Counted
    BY Zenon DEF Calls, Counted
  <2>3. Cardinality(UnderWay') = Cardinality(UnderWay) - 1
    BY ZenonT(30), <2>1, <2>2, UnderWayMoves
  <2>4. InQueue' = InQueue + 1
    BY Zenon, <1>5, QueueSteps
  <2>5. Popped' = Popped /\ Holds' = Holds
    BY Zenon, <2>1 DEF Popped, Holds
  <2> QED
    BY SMTT(30), <1>0, <2>1, <2>3, <2>4, <2>5
<1>6. ASSUME NEW s \in Senders, PushLink(s) \/ Signal(s)
      PROVE  Counts'
  <2>1. UNCHANGED <<num_messages, msg, rpc>>
    BY ZenonT(30), <1>6 DEF PushLink, Signal, QueuePushAndSignal
  <2>2. InQueue' = InQueue
    <3>1. CASE PushLink(s)
      BY Zenon, SMTT(30), <3>1, QueueSteps
    <3>2. CASE Signal(s)
      BY Zenon, SMTT(30), <3>2 DEF Signal, QueuePushAndSignal, InQueue
    <3> QED  BY Zenon, SMTT(30), <1>6, <3>1, <3>2
  <2>3. UnderWay' = UnderWay
    BY Zenon, SMTT(30), <1>0, <1>6 DEF PushLink, Signal, QueuePushAndSignal, Goto, UnderWay, Counted
  <2> QED
    BY Zenon, SMTT(30), <2>1, <2>2, <2>3 DEF Popped, Holds
<1>7. ASSUME NEW drop \in BOOLEAN, ReceiverClose(drop)
      PROVE  Counts'
  <2>1. UNCHANGED <<num_messages, queue, msg, pc>> /\ rpc' \notin {"unpark", "dec"}
        /\ rpc \notin {"unpark", "dec"}
    BY Zenon, <1>7 DEF ReceiverClose, senders
  <2> QED
    BY Zenon, SMTT(30), <2>1 DEF InQueue, UnderWay, Popped, Holds
<1>8. ASSUME NEW p \in Priority, NextMessage(p)
      PROVE  Counts'
  <2>1. UNCHANGED <<num_messages, pc>> /\ rpc \notin {"unpark", "dec"}
    BY Zenon, <1>8 DEF NextMessage, senders, PopAt, Polls
  <2>2. CASE Data(queue[p])
    <3>1. InQueue' = InQueue - 1 /\ rpc' \in {"unpark", "dec"} /\ Len(msg') = 1
      BY ZenonT(30), <1>8, <2>2, QueueSteps DEF NextMessage, Data, Empty
    <3>2. Popped = 0 /\ Popped' = 1 /\ Holds' = 1 /\ UnderWay' = UnderWay
      BY Zenon, <2>1, <3>1 DEF Popped, Holds, UnderWay
    <3> QED
      BY SMTT(30), <1>0, <2>1, <3>1, <3>2
  <2>3. CASE ~Data(queue[p])
    <3>1. InQueue' = InQueue /\ rpc' \notin {"unpark", "dec"} /\ msg' = msg
      BY ZenonT(30), <1>8, <2>3, QueueSteps DEF NextMessage, PopFailed
    <3> QED
      BY Zenon, <2>1, <3>1 DEF Popped, Holds, UnderWay
  <2> QED  BY Zenon, SMTT(30), <2>2, <2>3
<1>9. CASE UnparkOne \/ CheckState \/ Register \/ CloseNotify
  <2>1. UNCHANGED <<num_messages, queue, msg, pc>> /\ Holds' = Holds
    BY Zenon, <1>9 DEF UnparkOne, CheckState, Register, CloseNotify, shared, senders, Holds
  <2> QED
    BY Zenon, SMTT(30), <2>1 DEF InQueue, UnderWay, Popped
<1>10. CASE DecNumMessages
  <2>1. /\ num_messages' = num_messages - 1 /\ UNCHANGED <<queue, pc>> /\ msg' = <<>>
        /\ rpc = "dec" /\ rpc' \in {"quick", "idle"}
    BY Zenon, SMTT(30), <1>10 DEF DecNumMessages, senders
  <2>2. InQueue' = InQueue /\ UnderWay' = UnderWay /\ Popped' = 0 /\ Holds' = 0 /\ Holds = 1
    BY Zenon, SMTT(30), <2>1 DEF InQueue, UnderWay, Popped, Holds
  <2> QED
    BY SMTT(30), <1>0, <2>1, <2>2
<1> QED
  BY Zenon, SMTT(30), <1>1, <1>2, <1>3, <1>4, <1>5, <1>6, <1>7, <1>8, <1>9, <1>10, Steps DEF ReceiverStep

\* Clone and drop keep num_senders equal to the senders there are.
LEMMA SendersCountedStep ==
  ASSUME Types, SendersCounted, Next
  PROVE  SendersCounted'
<1>0. /\ life \in [Senders -> {None, "live", "gone"}] /\ pc \in [Senders -> Calls]
      /\ Live \in SUBSET Senders /\ Live' \in SUBSET Senders
  BY Zenon, SMTT(30) DEF Types, SenderTypes, Live
<1>1. ASSUME NEW s \in Senders, NEW l \in Outside, QuietCall(s, l)
      PROVE  SendersCounted'
  <2>1. \A t \in Senders : pc'[t] # "idle" => life'[t] # None
    BY Zenon, SMTT(30), <1>0, <1>1 DEF QuietCall, SendersCounted, None
  <2>2. CASE life' = life /\ num_senders' = num_senders
    BY Zenon, SMTT(30), <2>1, <2>2 DEF SendersCounted, Live
  <2>3. CASE /\ life[s] = "live" /\ life' = [life EXCEPT ![s] = "gone"]
             /\ num_senders' = num_senders - 1
    <3>1. s \in Live /\ s \notin Live'
      BY Zenon, <1>0, <2>3 DEF Live
    <3>2. \A t \in Senders : t # s => (t \in Live <=> t \in Live')
      BY Zenon, SMTT(30), <1>0, <2>3 DEF Live
    <3>3. Cardinality(Live') = Cardinality(Live) - 1
      BY SMTT(30), <1>0, <3>1, <3>2, CountOne
    <3> QED
      BY Zenon, SMTT(30), <2>1, <2>3, <3>3 DEF SendersCounted
  <2> QED
    BY Zenon, SMTT(30), <1>1, <2>2, <2>3 DEF QuietCall
<1>2. ASSUME NEW s \in Senders, NEW t \in Senders, Clone(s, t)
      PROVE  SendersCounted'
  <2>1. /\ life[t] = None /\ life' = [life EXCEPT ![t] = "live"] /\ pc' = pc
        /\ num_senders' = num_senders + 1
    BY Zenon, <1>2 DEF Clone
  <2>2. t \notin Live /\ t \in Live'
    BY Zenon, <1>0, <2>1 DEF Live, None
  <2>3. \A u \in Senders : u # t => (u \in Live <=> u \in Live')
    BY Zenon, SMTT(30), <1>0, <2>1 DEF Live
  <2>4. Cardinality(Live') = Cardinality(Live) + 1
    BY SMTT(30), <1>0, <2>2, <2>3, CountOne
  <2>5. \A u \in Senders : pc'[u] # "idle" => life'[u] # None
    BY Zenon, SMTT(30), <1>0, <2>1 DEF SendersCounted, None
  <2> QED
    BY Zenon, SMTT(30), <2>1, <2>4, <2>5 DEF SendersCounted
<1>3. ASSUME NEW s \in Senders,
             \/ \E l \in {"park", "push"} : StartSend(s, l)
             \/ ParkPush(s) \/ ParkLink(s) \/ ParkCheck(s)
             \/ Push(s) \/ PushLink(s) \/ Signal(s)
      PROVE  SendersCounted'
  <2>1. /\ UNCHANGED <<life, num_senders>> /\ pc[s] # "idle"
        /\ \E l \in Calls : pc' = [pc EXCEPT ![s] = l]
    <3>1. CASE \E l \in {"park", "push"} : StartSend(s, l)
      BY ZenonT(30), <3>1 DEF StartSend, Calls, Counted
    <3>2. CASE ParkPush(s) \/ ParkLink(s) \/ ParkCheck(s)
      BY Zenon, SMTT(30), <3>2 DEF ParkPush, ParkLink, ParkCheck, Park, Goto, Calls, Counted
    <3>3. CASE Push(s) \/ PushLink(s) \/ Signal(s)
      BY ZenonT(30), <3>3 DEF Push, PushLink, Signal, QueuePushAndSignal, Goto, Calls, Counted
    <3> QED  BY Zenon, SMTT(30), <1>3, <3>1, <3>2, <3>3
  <2> QED
    BY Zenon, SMTT(30), <1>0, <2>1 DEF SendersCounted, Live
<1>4. CASE ReceiverStep \/ \E drop \in BOOLEAN : ReceiverClose(drop)
  <2>1. UNCHANGED <<life, num_senders, pc>>
    BY ZenonT(30), <1>4 DEF ReceiverStep, NextMessage, UnparkOne, DecNumMessages, CheckState, Register,
                CloseNotify, ReceiverClose, senders, shared
  <2> QED
    BY Zenon, SMTT(30), <2>1 DEF SendersCounted, Live
<1> QED
  BY Zenon, SMTT(30), <1>1, <1>2, <1>3, <1>4, Steps

\* The sizes that the bounds compare are numbers, and a larger set is not smaller.
RoomSizes ==
  /\ Len(parked_queue) \in Nat /\ InQueue \in Nat /\ Buffer \in Nat
  /\ Waiting \in Nat /\ Unparking \in {0, 1}
  /\ \A S \in SUBSET Senders : Cardinality(S) \in Nat
  /\ \A S \in SUBSET Senders : \A T \in SUBSET S : Cardinality(T) <= Cardinality(S)
  /\ UnderWay \in SUBSET Senders /\ AtPark \in SUBSET Senders
  /\ Owed \in SUBSET Senders /\ Existing \in SUBSET Senders

\* Because there are finitely many senders.
LEMMA RoomTypes == Types => RoomSizes
<1> SUFFICES ASSUME Types PROVE RoomSizes
  BY Zenon
<1>1. \A S \in SUBSET Senders : IsFiniteSet(S) /\ Cardinality(S) \in Nat
  BY Zenon, SMTT(30), ChannelAssumption, FS_Subset, FS_CardinalityType
<1>2. \A S \in SUBSET Senders : \A T \in SUBSET S : Cardinality(T) <= Cardinality(S)
  BY Zenon, SMTT(30), <1>1, FS_Subset
<1>3. /\ UnderWay \in SUBSET Senders /\ AtPark \in SUBSET Senders
      /\ Owed \in SUBSET Senders /\ Existing \in SUBSET Senders
  BY Zenon DEF UnderWay, AtPark, Owed, Existing
<1>4. Len(parked_queue) \in Nat
  BY Zenon, LenProperties DEF Types, SharedTypes
<1>5. InQueue \in Nat
  BY Zenon, InQueueType
<1>6. Cardinality(UnderWay) \in Nat
  BY Zenon, <1>1, <1>3
<1>7. Waiting \in Nat
  BY SMTT(30), <1>5, <1>6 DEF Waiting
<1> QED
  BY SMTT(30), <1>1, <1>2, <1>3, <1>4, <1>5, <1>7, ChannelAssumption DEF Unparking, RoomSizes

\* An unpark is owed only to a sender that exists.
LEMMA OwedExist == SendersCounted /\ Handles => Owed \subseteq Existing
BY Zenon DEF SendersCounted, Handles, Owed, AtPark, Existing

\* ExistingCoverExcess follows from ParkedCoverExcess while the channel is open; later
\* no message joins those that wait.
LEMMA ExistingStep ==
  ASSUME Types, Types', SendersCounted', Handles', ExistingCoverExcess,
         ParkedCoverExcess', is_open' \/ Waiting' <= Waiting, Bounded' => Bounded,
         Existing \subseteq Existing'
  PROVE  ExistingCoverExcess'
<1>1. /\ Cardinality(Owed') <= Cardinality(Existing')
      /\ Cardinality(Existing) <= Cardinality(Existing')
      /\ Cardinality(Owed') \in Nat /\ Cardinality(Existing) \in Nat
      /\ Cardinality(Existing') \in Nat
      /\ Waiting \in Nat /\ Waiting' \in Nat /\ Unparking' \in {0, 1}
  <2>1. (Owed \subseteq Existing)'
    BY OwedExist, PTL
  <2>2. RoomSizes /\ RoomSizes'
    BY RoomTypes, PTL
  <2> QED
    BY Zenon, <2>1, <2>2 DEF RoomSizes
<1>2. CASE is_open'
  BY SMTT(30), <1>1, <1>2, ChannelAssumption DEF ParkedCoverExcess, ExistingCoverExcess
<1>3. CASE Waiting' <= Waiting
  BY SMTT(30), <1>1, <1>3, ChannelAssumption DEF ExistingCoverExcess
<1> QED  BY Zenon, SMTT(30), <1>2, <1>3

\* The two bounds that each step keeps.
Bounds == PopsCoverParked /\ ParkedCoverExcess

\* A step that changes neither the messages that wait, nor the senders that do.
LEMMA BoundsUnchanged ==
  ASSUME Bounds, Waiting' = Waiting, UNCHANGED <<kind, parked_queue>>, AtPark' = AtPark,
         Unparking' = Unparking, is_open' => is_open
  PROVE  Bounds'
<1>1. Owed' = Owed
  BY Zenon, SMTT(30) DEF Owed, HasHandle
<1> QED
  BY Zenon, <1>1 DEF Bounds, PopsCoverParked, ParkedCoverExcess, Bounded

\* Every step keeps the two bounds: what a pop owes is paid by unpark_one, and a sender that
\* went past the buffer sends nothing more until it is.
LEMMA BoundsStep ==
  ASSUME Types, Types', Counts, Handles, Ends, Bounds, Next
  PROVE  Bounds'
<1>0. /\ pc \in [Senders -> Calls] /\ Handles /\ HandlesDiffer
  BY Zenon DEF Types, SenderTypes, Handles
<1>a. RoomSizes /\ RoomSizes'
  BY RoomTypes, PTL
<1>1. ASSUME NEW s \in Senders, NEW l \in Outside, QuietCall(s, l)
      PROVE  Bounds'
  <2>1. UNCHANGED <<kind, queue, parked_queue, rpc>> /\ (is_open' => is_open)
    BY SMTT(30), <1>1 DEF QuietCall
  <2>2. UnderWay' = UnderWay /\ AtPark' = AtPark
    BY ZenonT(30), <1>0, <1>1 DEF QuietCall, Outside, UnderWay, AtPark, Counted
  <2>3. Waiting' = Waiting /\ Unparking' = Unparking
    BY Zenon, <2>1, <2>2 DEF Waiting, InQueue, Unparking
  <2> QED
    BY Zenon, SMTT(30), <2>1, <2>2, <2>3, BoundsUnchanged
<1>2. ASSUME NEW s \in Senders, NEW t \in Senders, Clone(s, t)
      PROVE  Bounds'
  <2>1. UNCHANGED <<kind, queue, parked_queue, rpc, is_open, pc>>
    BY Zenon, <1>2 DEF Clone, receiver
  <2>2. Waiting' = Waiting /\ Unparking' = Unparking /\ AtPark' = AtPark
    BY Zenon, <2>1 DEF Waiting, InQueue, Unparking, UnderWay, AtPark
  <2> QED
    BY Zenon, SMTT(30), <2>1, <2>2, BoundsUnchanged
<1>3. ASSUME NEW s \in Senders, NEW l \in {"park", "push"}, StartSend(s, l)
      PROVE  Bounds'
  <2>1. /\ UNCHANGED <<kind, queue, parked_queue, rpc>> /\ is_open /\ pc[s] = "inc"
        /\ pc' = [pc EXCEPT ![s] = l] /\ l \in Calls
        /\ l = IF Bounded /\ ParkSelf(num_messages + 1) THEN "park" ELSE "push"
    BY Zenon, <1>3 DEF StartSend, receiver, Calls, Counted
  <2>2. Cardinality(UnderWay') = Cardinality(UnderWay) + 1
    BY ZenonT(30), <2>1, UnderWayMoves DEF Counted
  <2>3. Waiting' = Waiting + 1 /\ Unparking' = Unparking /\ Cardinality(UnderWay) \in Nat
    <3>1. Cardinality(UnderWay) \in Nat /\ InQueue \in Nat
      BY Zenon, <1>a DEF RoomSizes
    <3>2. InQueue' = InQueue /\ Unparking' = Unparking
      BY Zenon, SMTT(30), <2>1 DEF InQueue, Unparking
    <3> QED
      BY SMTT(30), <2>2, <3>1, <3>2 DEF Waiting
  <2>4. ~HasHandle(s) /\ s \notin Owed
    BY Zenon, <2>1 DEF Handles, Owed, AtPark
  <2>5. CASE l = "park"
    <3>1. Cardinality(AtPark') = Cardinality(AtPark) + 1 /\ Cardinality(AtPark) \in Nat
      BY ZenonT(30), <2>1, <2>5, UnderWayMoves
    <3>2. s \in Owed' /\ \A t \in Senders : t # s => (t \in Owed <=> t \in Owed')
      BY Zenon, SMTT(30), <1>0, <2>1, <2>5 DEF Owed, AtPark, HasHandle
    <3>3. Cardinality(Owed') = Cardinality(Owed) + 1 /\ Cardinality(Owed) \in Nat
      BY SMTT(30), <1>a, <2>4, <3>2, CountOne DEF RoomSizes
    <3>4. /\ Waiting \in Nat /\ Buffer \in Nat /\ Len(parked_queue) \in Nat
          /\ Unparking \in {0, 1}
      BY Zenon, SMTT(30), <1>a, ChannelAssumption DEF RoomSizes, Unparking
    <3>5. PopsCoverParked'
      BY SMTT(30), <2>1, <2>3, <3>1, <3>4 DEF Bounds, PopsCoverParked
    <3>6. ParkedCoverExcess'
      BY SMTT(30), <2>1, <2>3, <3>3, <3>4 DEF Bounds, ParkedCoverExcess, Bounded
    <3> QED
      BY Zenon, <3>5, <3>6 DEF Bounds
  <2>6. CASE l = "push"
    <3>1. AtPark' = AtPark /\ Owed' = Owed
      BY Zenon, SMTT(30), <1>0, <2>1, <2>6 DEF Owed, AtPark, HasHandle
    <3>2. Bounded => ~ParkSelf(num_messages + 1)
      BY Zenon, SMTT(30), <2>1, <2>6
    <3>3. Bounded => Waiting + 1 <= Buffer - Unparking
      <4>1. num_messages = Waiting + Holds /\ Holds \in {0, 1} /\ Unparking <= Holds
        BY SMTT(30) DEF Counts, Waiting, Holds, Unparking
      <4> QED
        BY SMTT(30), <1>a, <3>2, <4>1 DEF ParkSelf, RoomSizes
    <3>4. Cardinality(Owed) \in Nat /\ Cardinality(AtPark) \in Nat
      BY Zenon, SMTT(30), <1>a DEF RoomSizes
    <3> QED
      BY SMTT(30), <1>a, <2>1, <2>3, <3>1, <3>3, <3>4
         DEF Bounds, PopsCoverParked, ParkedCoverExcess, Bounded, RoomSizes
  <2> QED  BY Zenon, SMTT(30), <2>5, <2>6
<1>4. ASSUME NEW s \in Senders, ParkPush(s)
      PROVE  Bounds'
  <2>1. /\ UNCHANGED <<kind, queue, rpc, is_open>> /\ pc[s] = "park"
        /\ pc' = [pc EXCEPT ![s] = "parklink"] /\ parked_queue' = Swap(parked_queue, s)
        /\ "parklink" \in Calls
    BY Zenon, <1>4 DEF ParkPush, Park, Goto, receiver, Calls, Counted
  <2>2. Cardinality(AtPark') = Cardinality(AtPark) - 1 /\ Cardinality(AtPark) \in Nat
    BY ZenonT(30), <2>1, UnderWayMoves
  <2>3. ~HasHandle(s)
    BY Zenon, <2>1 DEF Handles
  <2>4. /\ Len(parked_queue') = Len(parked_queue) + 1
        /\ \A t \in Senders : HasHandle(t)' <=> HasHandle(t) \/ t = s
    BY Zenon, SMTT(30), <1>0, <2>1, <2>3, HandlePushed
  <2>5. Owed' = Owed
    BY Zenon, SMTT(30), <1>0, <2>1, <2>4 DEF Owed, AtPark
  <2>6. UnderWay' = UnderWay
    BY Zenon, <1>0, <2>1 DEF UnderWay, Counted
  <2>7. Waiting' = Waiting /\ Unparking' = Unparking
    BY Zenon, SMTT(30), <2>1, <2>6 DEF Waiting, InQueue, Unparking
  <2> QED
    BY SMTT(30), <1>a, <2>1, <2>2, <2>4, <2>5, <2>7
       DEF Bounds, PopsCoverParked, ParkedCoverExcess, Bounded, RoomSizes
<1>5. ASSUME NEW s \in Senders, ParkLink(s)
      PROVE  Bounds'
  <2>1. /\ UNCHANGED <<kind, queue, rpc, is_open>> /\ pc[s] = "parklink"
        /\ pc' = [pc EXCEPT ![s] = "parkcheck"] /\ parked_queue' = Link(parked_queue, s)
    BY Zenon, <1>5 DEF ParkLink, Park, Goto, receiver
  <2>2. /\ Len(parked_queue') = Len(parked_queue)
        /\ \A t \in Senders : HasHandle(t)' <=> HasHandle(t)
    BY Zenon, SMTT(30), <2>1, HandleLinked
  <2>3. UnderWay' = UnderWay /\ AtPark' = AtPark
    BY Zenon, SMTT(30), <1>0, <2>1 DEF UnderWay, AtPark, Counted
  <2>4. Waiting' = Waiting /\ Unparking' = Unparking /\ Owed' = Owed
    BY SMTT(30), <2>1, <2>2, <2>3 DEF Waiting, InQueue, Unparking, Owed
  <2> QED
    BY Zenon, SMTT(30), <2>1, <2>2, <2>3, <2>4 DEF Bounds, PopsCoverParked, ParkedCoverExcess, Bounded
<1>6. ASSUME NEW s \in Senders, ParkCheck(s)
      PROVE  Bounds'
  <2>1. /\ UNCHANGED <<kind, queue, rpc, is_open, parked_queue>> /\ pc[s] = "parkcheck"
        /\ pc' = [pc EXCEPT ![s] = "push"]
    BY Zenon, <1>6 DEF ParkCheck, Park, Goto, receiver
  <2>2. UnderWay' = UnderWay /\ AtPark' = AtPark
    BY Zenon, SMTT(30), <1>0, <2>1 DEF UnderWay, AtPark, Counted
  <2>3. Waiting' = Waiting /\ Unparking' = Unparking
    BY Zenon, SMTT(30), <2>1, <2>2 DEF Waiting, InQueue, Unparking
  <2> QED
    BY Zenon, SMTT(30), <2>1, <2>2, <2>3, BoundsUnchanged
<1>7. ASSUME NEW s \in Senders, Push(s)
      PROVE  Bounds'
  <2>1. /\ UNCHANGED <<kind, parked_queue, rpc, is_open>> /\ pc[s] = "push"
        /\ pc' = [pc EXCEPT ![s] = "link"] /\ "link" \in Calls
    BY Zenon, <1>7 DEF Push, QueuePushAndSignal, Goto, Calls
  <2>2. Cardinality(UnderWay') = Cardinality(UnderWay) - 1 /\ Cardinality(UnderWay) \in Nat
    BY ZenonT(30), <2>1, UnderWayMoves DEF Counted
  <2>3. InQueue' = InQueue + 1
    BY Zenon, SMTT(30), <1>7, QueueSteps
  <2>4. Waiting' = Waiting
    BY SMTT(30), <1>a, <2>2, <2>3 DEF Waiting, RoomSizes
  <2>5. AtPark' = AtPark /\ Unparking' = Unparking
    BY Zenon, SMTT(30), <1>0, <2>1 DEF AtPark, Unparking
  <2> QED
    BY SMTT(30), <2>1, <2>4, <2>5, BoundsUnchanged
<1>8. ASSUME NEW s \in Senders, PushLink(s) \/ Signal(s)
      PROVE  Bounds'
  <2>1. /\ UNCHANGED <<kind, parked_queue, rpc, is_open>> /\ pc[s] \in {"link", "wake"}
        /\ \E l \in {"wake", "idle", "ready"} : pc' = [pc EXCEPT ![s] = l]
    BY ZenonT(30), <1>8 DEF PushLink, Signal, QueuePushAndSignal, Goto
  <2>2. InQueue' = InQueue
    <3>1. CASE PushLink(s)
      BY Zenon, SMTT(30), <3>1, QueueSteps
    <3>2. CASE Signal(s)
      BY ZenonT(30), <3>2 DEF Signal, QueuePushAndSignal, InQueue
    <3> QED  BY Zenon, SMTT(30), <1>8, <3>1, <3>2
  <2>3. UnderWay' = UnderWay /\ AtPark' = AtPark
    BY Zenon, SMTT(30), <1>0, <2>1 DEF UnderWay, AtPark, Counted
  <2>4. Waiting' = Waiting /\ Unparking' = Unparking
    BY Zenon, SMTT(30), <2>1, <2>2, <2>3 DEF Waiting, Unparking
  <2> QED
    BY Zenon, SMTT(30), <2>1, <2>3, <2>4, BoundsUnchanged
<1>9. ASSUME NEW p \in Priority, NextMessage(p)
      PROVE  Bounds'
  <2>1. UNCHANGED <<kind, parked_queue, is_open, pc>> /\ rpc # "unpark"
    BY Zenon, SMTT(30), <1>9 DEF NextMessage, PopAt, Polls, senders
  <2>2. UnderWay' = UnderWay /\ AtPark' = AtPark /\ Unparking = 0 /\ Owed' = Owed
    BY Zenon, <2>1 DEF UnderWay, AtPark, Unparking, Owed, HasHandle
  <2>3. CASE Data(queue[p])
    <3>1. InQueue' = InQueue - 1 /\ rpc' = IF Bounded THEN "unpark" ELSE "dec"
      BY ZenonT(30), <1>9, <2>3, QueueSteps DEF NextMessage, Data, Empty
    <3>2. Waiting' = Waiting - 1
      BY SMTT(30), <1>a, <2>2, <3>1 DEF Waiting, RoomSizes
    <3>3. CASE Bounded
      <4>1. Unparking' = 1
        BY Zenon, <3>1, <3>3 DEF Unparking
      <4> QED
        BY SMTT(30), <1>a, <2>1, <2>2, <3>2, <4>1
           DEF Bounds, PopsCoverParked, ParkedCoverExcess, Bounded, RoomSizes
    <3>4. CASE ~Bounded
      <4>1. Len(parked_queue) = 0 /\ AtPark = {}
        BY Zenon, SMTT(30), <3>4, EmptySeq DEF Handles, Bounded, AtPark
      <4>2. Cardinality(AtPark') = 0
        BY Zenon, SMTT(30), <2>2, <4>1, FS_EmptySet
      <4>3. PopsCoverParked'
        <5>1. Len(parked_queue') = 0
          BY Zenon, SMTT(30), <2>1, <4>1
        <5>2. Len(parked_queue') + Cardinality(AtPark') = 0
          BY SMTT(30), <4>2, <5>1
        <5>3. Waiting' + Unparking' >= 0
          <6>1. \A m, n \in Nat : m + n >= 0
            BY SMTT(30)
          <6>2. Waiting' \in Nat /\ Unparking' \in Nat
            BY SMTT(30), <1>a DEF RoomSizes
          <6> QED
            BY ZenonT(30), <6>1, <6>2
        <5> QED
          BY Zenon, SMTT(30), <5>2, <5>3 DEF PopsCoverParked
      <4>4. ParkedCoverExcess'
        BY Zenon, SMTT(30), <2>1, <3>4 DEF ParkedCoverExcess, Bounded
      <4> QED
        BY Zenon, SMTT(30), <4>3, <4>4 DEF Bounds
    <3> QED  BY Zenon, SMTT(30), <3>3, <3>4
  <2>4. CASE ~Data(queue[p])
    <3>1. InQueue' = InQueue /\ rpc' # "unpark"
      BY ZenonT(30), <1>9, <2>4, QueueSteps DEF NextMessage, PopFailed
    <3>2. Waiting' = Waiting /\ Unparking' = Unparking
      BY Zenon, SMTT(30), <2>2, <3>1 DEF Waiting, Unparking
    <3> QED
      BY Zenon, SMTT(30), <2>1, <2>2, <3>2, BoundsUnchanged
  <2> QED  BY Zenon, SMTT(30), <2>3, <2>4
<1>10. CASE UnparkOne
  <2>1. /\ UNCHANGED <<kind, is_open, queue, pc>> /\ rpc = "unpark" /\ rpc' = "dec"
    BY Zenon, <1>10 DEF UnparkOne
  <2>2. Waiting' = Waiting /\ AtPark' = AtPark /\ Unparking = 1 /\ Unparking' = 0
    BY Zenon, SMTT(30), <2>1 DEF Waiting, InQueue, UnderWay, AtPark, Unparking
  <2>3. CASE NotifyParked
    <3> DEFINE s == Head(parked_queue).v
    <3>1. /\ s \in Senders /\ Len(parked_queue') = Len(parked_queue) - 1 /\ HasHandle(s)
          /\ \A t \in Senders : HasHandle(t)' <=> HasHandle(t) /\ t # s
      BY Zenon, SMTT(30), <1>0, <2>3, HandlePopped
    <3>2. /\ s \in Owed /\ s \notin Owed'
          /\ \A t \in Senders : t # s => (t \in Owed <=> t \in Owed')
      BY Zenon, SMTT(30), <2>2, <3>1 DEF Owed, AtPark, Handles
    <3>3. Cardinality(Owed') = Cardinality(Owed) - 1 /\ Cardinality(Owed) \in Nat
      BY SMTT(30), <1>a, <3>1, <3>2, CountOne DEF RoomSizes
    <3>4. Cardinality(AtPark) \in Nat
      BY Zenon, SMTT(30), <1>a DEF RoomSizes
    <3> QED
      BY SMTT(30), <1>a, <2>1, <2>2, <3>1, <3>3, <3>4
         DEF Bounds, PopsCoverParked, ParkedCoverExcess, Bounded, RoomSizes
  <2>4. CASE Empty(parked_queue) /\ parked_queue' = parked_queue
    <3>1. Len(parked_queue) = 0 /\ Owed' = Owed
      BY Zenon, SMTT(30), <2>2, <2>4, EmptySeq DEF Empty, Owed, HasHandle
    <3>2. AtPark \subseteq UnderWay
      BY Zenon, SMTT(30) DEF AtPark, UnderWay, Counted
    <3>3. Cardinality(AtPark) <= Waiting
      BY SMTT(30), <1>a, <3>2 DEF RoomSizes, Waiting
    <3>4. Cardinality(Owed) \in Nat /\ Cardinality(AtPark) \in Nat
      BY Zenon, SMTT(30), <1>a DEF RoomSizes
    <3> QED
      BY SMTT(30), <1>a, <2>1, <2>2, <2>4, <3>1, <3>3, <3>4
         DEF Bounds, PopsCoverParked, ParkedCoverExcess, Bounded, RoomSizes
  <2> QED
    BY Zenon, SMTT(30), <1>10, <2>3, <2>4 DEF UnparkOne
<1>11. CASE CloseNotify
  <2>1. /\ UNCHANGED <<kind, is_open, queue, pc>> /\ rpc = "drain" /\ rpc' # "unpark"
    BY Zenon, SMTT(30), <1>11 DEF CloseNotify
  <2>2. Waiting' = Waiting /\ AtPark' = AtPark /\ Unparking' = Unparking
    BY Zenon, SMTT(30), <2>1 DEF Waiting, InQueue, UnderWay, AtPark, Unparking
  <2>3. CASE NotifyParked
    <3>1. ~is_open'
      BY Zenon, SMTT(30), <2>1 DEF Ends
    <3>2. Len(parked_queue') = Len(parked_queue) - 1
      BY Zenon, SMTT(30), <1>0, <2>3, HandlePopped
    <3>3. Cardinality(AtPark) \in Nat
      BY Zenon, <1>a DEF RoomSizes
    <3> QED
      BY SMTT(30), <1>a, <2>2, <3>1, <3>2, <3>3 DEF Bounds, PopsCoverParked, ParkedCoverExcess, RoomSizes
  <2>4. CASE parked_queue' = parked_queue
    BY Zenon, SMTT(30), <2>1, <2>2, <2>4, BoundsUnchanged
  <2> QED
    BY Zenon, SMTT(30), <1>11, <2>3, <2>4 DEF CloseNotify
<1>12. CASE \/ DecNumMessages \/ CheckState \/ Register
            \/ \E drop \in BOOLEAN : ReceiverClose(drop)
  <2>1. /\ UNCHANGED <<kind, queue, pc, parked_queue>> /\ (is_open' => is_open)
        /\ rpc # "unpark" /\ rpc' # "unpark"
    BY SMTT(30), <1>12 DEF DecNumMessages, CheckState, Register, ReceiverClose, senders, shared
  <2>2. Waiting' = Waiting /\ AtPark' = AtPark /\ Unparking' = Unparking
    BY Zenon, SMTT(30), <2>1 DEF Waiting, InQueue, UnderWay, AtPark, Unparking
  <2> QED
    BY Zenon, SMTT(30), <2>1, <2>2, BoundsUnchanged
<1> QED
  BY SMTT(30), <1>1, <1>2, <1>3, <1>4, <1>5, <1>6, <1>7, <1>8, <1>9, <1>10, <1>11, <1>12, Steps
     DEF ReceiverStep

\* No message joins those that wait once the channel is closed, and no sender is forgotten.
LEMMA WaitingStep ==
  ASSUME Types, Types', Counts, Counts', Next
  PROVE  /\ is_open' \/ Waiting' <= Waiting
         /\ Existing \subseteq Existing' /\ kind' = kind
<1>0. life \in [Senders -> {None, "live", "gone"}] /\ num_messages \in Int
  BY Zenon, SMTT(30) DEF Types, SenderTypes, SharedTypes
<1>1. /\ num_messages = Waiting + Popped /\ num_messages' = Waiting' + Popped'
      /\ Waiting \in Nat /\ Waiting' \in Nat /\ Popped \in {0, 1} /\ Popped' \in {0, 1}
      /\ Popped = Holds /\ Popped' = Holds'
  <2>1. RoomSizes /\ RoomSizes'
    BY RoomTypes, PTL
  <2>2. Popped \in {0, 1} /\ Popped' \in {0, 1} /\ Popped = Holds /\ Popped' = Holds'
    BY Zenon DEF Counts, Holds
  <2> QED
    BY Zenon, <2>1, <2>2 DEF Counts, Waiting, RoomSizes
<1>w. num_messages' - Popped' <= num_messages - Popped => Waiting' <= Waiting
  <2>1. \A n, m, w, v \in Int, h, g \in {0, 1} :
          n = w + h /\ m = v + g /\ m - g <= n - h => v <= w
    OBVIOUS
  <2>2. num_messages' \in Int /\ num_messages \in Int /\ Waiting \in Int /\ Waiting' \in Int
    BY <1>1
  <2> QED
    BY ZenonT(30), <1>1, <2>1, <2>2
<1>v. num_messages' = num_messages /\ Popped' = Popped => Waiting' <= Waiting
  <2>1. \A n, w, v \in Int, h \in {0, 1} : n = w + h /\ n = v + h => v <= w
    OBVIOUS
  <2>2. Waiting \in Int /\ Waiting' \in Int
    BY <1>1
  <2> QED
    BY ZenonT(30), <1>0, <1>1, <2>1, <2>2
<1>2. CASE UNCHANGED <<num_messages, rpc, life, kind>>
  <2>1. Popped' = Popped
    BY Zenon, SMTT(30), <1>1, <1>2 DEF Holds
  <2>2. Existing' = Existing
    BY Zenon, <1>2 DEF Existing
  <2>3. Waiting' <= Waiting
    BY Zenon, <1>v, <1>2, <2>1
  <2> QED
    BY Zenon, <1>2, <2>2, <2>3
<1>3. ASSUME NEW s \in Senders, NEW l \in Outside, QuietCall(s, l)
      PROVE  (is_open' \/ Waiting' <= Waiting) /\ Existing \subseteq Existing' /\ kind' = kind
  <2>1. UNCHANGED <<num_messages, rpc, kind>>
    BY Zenon, SMTT(30), <1>3 DEF QuietCall
  <2>2. Popped' = Popped
    BY Zenon, SMTT(30), <1>1, <2>1 DEF Holds
  <2>3. Existing \subseteq Existing'
    BY Zenon, SMTT(30), <1>0, <1>3 DEF QuietCall, Existing, None
  <2>4. Waiting' <= Waiting
    BY Zenon, <1>v, <2>1, <2>2
  <2> QED
    BY Zenon, <2>1, <2>3, <2>4
<1>4. ASSUME NEW s \in Senders, NEW t \in Senders, Clone(s, t)
      PROVE  (is_open' \/ Waiting' <= Waiting) /\ Existing \subseteq Existing' /\ kind' = kind
  <2>1. UNCHANGED <<num_messages, rpc, kind>> /\ life' = [life EXCEPT ![t] = "live"]
    BY Zenon, SMTT(30), <1>4 DEF Clone, receiver
  <2>2. Popped' = Popped
    BY Zenon, SMTT(30), <1>1, <2>1 DEF Holds
  <2>3. Existing \subseteq Existing'
    BY Zenon, <1>0, <2>1 DEF Existing, None
  <2>4. Waiting' <= Waiting
    BY Zenon, <1>v, <2>1, <2>2
  <2> QED
    BY Zenon, <2>1, <2>3, <2>4
<1>5. ASSUME NEW s \in Senders, NEW l \in {"park", "push"}, StartSend(s, l)
      PROVE  is_open' /\ Existing \subseteq Existing' /\ kind' = kind
  BY Zenon, SMTT(30), <1>5 DEF StartSend, Existing
<1>6. ASSUME NEW s \in Senders, ParkPush(s) \/ ParkLink(s) \/ ParkCheck(s)
      PROVE  UNCHANGED <<num_messages, rpc, life, kind>>
  BY ZenonT(30), <1>6 DEF ParkPush, ParkLink, ParkCheck, Park, receiver
<1>7. ASSUME NEW s \in Senders, Push(s) \/ PushLink(s) \/ Signal(s)
      PROVE  UNCHANGED <<num_messages, rpc, life, kind>>
  BY ZenonT(30), <1>7 DEF Push, PushLink, Signal, QueuePushAndSignal
<1>8. ASSUME UNCHANGED <<life, kind>>, num_messages' - Holds' <= num_messages - Holds
      PROVE  (is_open' \/ Waiting' <= Waiting) /\ Existing \subseteq Existing' /\ kind' = kind
  <2>1. Waiting' <= Waiting
    BY Zenon, SMTT(30), <1>1, <1>w, <1>8
  <2> QED
    BY Zenon, SMTT(30), <1>8, <2>1 DEF Existing
<1>9. ASSUME NEW drop \in BOOLEAN, ReceiverClose(drop)
      PROVE  UNCHANGED <<life, kind>> /\ num_messages' - Holds' <= num_messages - Holds
  <2>1. /\ UNCHANGED <<life, kind, num_messages>> /\ rpc \in {"idle", "asleep"}
        /\ rpc' \in {"drain", "quick", "idle"}
    BY Zenon, SMTT(30), <1>9 DEF ReceiverClose, senders
  <2> QED
    BY SMTT(30), <1>0, <2>1 DEF Holds
<1>10. ASSUME NEW p \in Priority, NextMessage(p)
       PROVE  UNCHANGED <<life, kind>> /\ num_messages' - Holds' <= num_messages - Holds
  <2>1. UNCHANGED <<life, kind, num_messages>> /\ rpc \notin {"unpark", "dec"}
    BY Zenon, SMTT(30), <1>10 DEF NextMessage, senders, PopAt, Polls
  <2> QED
    BY SMTT(30), <1>0, <2>1 DEF Holds
<1>11. CASE UnparkOne \/ DecNumMessages \/ CheckState \/ Register \/ CloseNotify
  <2>1. UNCHANGED <<life, kind>>
    BY ZenonT(30), <1>11 DEF UnparkOne, DecNumMessages, CheckState, Register, CloseNotify, senders
  <2>2. \/ UNCHANGED num_messages /\ rpc = "unpark" /\ rpc' = "dec"
        \/ num_messages' = num_messages - 1 /\ rpc = "dec"
        \/ UNCHANGED num_messages /\ rpc \notin {"unpark", "dec"}
    BY Zenon, SMTT(30), <1>11 DEF UnparkOne, DecNumMessages, CheckState, Register, CloseNotify, shared
  <2>3. num_messages' - Holds' <= num_messages - Holds
    BY SMTT(30), <1>0, <2>2 DEF Holds
  <2> QED
    BY Zenon, SMTT(30), <1>8, <2>1, <2>3
<1> QED
  BY Zenon, SMTT(30), <1>2, <1>3, <1>4, <1>5, <1>6, <1>7, <1>8, <1>9, <1>10, <1>11, Steps DEF ReceiverStep

-----------------------------------------------------------------------------
\* The inductive invariant: the counts, the parked senders, the wake-ups and the order of
\* the messages need each other.
ChannelInvariant ==
  /\ Types /\ kind \in Kinds /\ GotTypes /\ QueuesByPriority /\ FlushHasMessage
  /\ Counts /\ SendersCounted /\ GoneIsOut /\ Handles /\ Ends
  /\ Bounds /\ ExistingCoverExcess /\ Wakes
  /\ Buffers /\ Fifos /\ Overtakes

\* Every step keeps the types.
LEMMA TypesStep ==
  ASSUME Types, FlushHasMessage, Next
  PROVE  Types'
<1>1. ASSUME NEW s \in Senders, NEW p \in Priority,
             AsyncSend(s, p) \/ TrySend(s, p) \/ UnboundedSend(s, p) \/ BufferPush(s, p)
      PROVE  Types'
  BY Zenon, SMTT(30), <1>1, SenderCallTypes
<1>2. ASSUME NEW s \in Senders, BufferTrySend(s) \/ DropSender(s) \/ CloseChannel(s) \/ SenderStep(s)
      PROVE  Types'
  <2>1. "high" \in Priority
    BY Zenon, SMTT(30) DEF Priority
  <2> QED
    BY Zenon, SMTT(30), <1>2, <2>1, SenderCallTypes, SendTypes DEF SenderStep
<1> QED
  BY Zenon, SMTT(30), <1>1, <1>2, CloneTypes, ReceiverTypesStep DEF Next

\* Every step keeps the invariant.
LEMMA NextChannel ==
  ASSUME ChannelInvariant, Next
  PROVE  ChannelInvariant'
<1> USE DEF ChannelInvariant
<1>1. Types'
  BY Zenon, SMTT(30), TypesStep
<1>2. Counts' /\ SendersCounted' /\ FlushHasMessage' /\ QueuesByPriority' /\ GoneIsOut'
  BY Zenon, SMTT(30), CountsStep, SendersCountedStep, FlushStep, QueuesByPriorityStep, GoneStep
<1>3. Handles' /\ Ends'
  BY Zenon, SMTT(30), HandlesStep, EndsStep
<1>4. Bounds' /\ Wakes'
  BY Zenon, SMTT(30), <1>1, BoundsStep, WakesStep
<1>5. GotTypes' /\ Buffers' /\ Overtakes'
  BY Zenon, SMTT(30), GotStep, BuffersStep, OvertakesStep
<1>6. Fifos'
  BY Zenon, SMTT(30), <1>1, <1>2, <1>5, FifosStep
<1>7. is_open' \/ Waiting' <= Waiting
  BY Zenon, SMTT(30), <1>1, <1>2, WaitingStep
<1>8. Existing \subseteq Existing' /\ kind' = kind
  BY Zenon, SMTT(30), <1>1, <1>2, WaitingStep
<1>9. ExistingCoverExcess'
  BY Zenon, SMTT(30), <1>1, <1>2, <1>3, <1>4, <1>7, <1>8, ExistingStep DEF Bounds, Bounded
<1> QED
  BY Zenon, SMTT(30), <1>1, <1>2, <1>3, <1>4, <1>5, <1>6, <1>8, <1>9

\* And so does no step.
LEMMA SameChannel ==
  ASSUME ChannelInvariant, UNCHANGED vars
  PROVE  ChannelInvariant'
<1>1. UNCHANGED <<kind, is_open, num_messages, num_senders, queue, parked_queue, recv_task>>
  BY Zenon DEF vars, shared
<1>2. UNCHANGED <<life, pc, prio, maybe_parked, is_parked, task, woken, buf, made>>
  BY Zenon DEF vars, senders
<1>3. UNCHANGED <<rpc, second, msg, recv_woken, inner, dropping, got, overtaken>>
  BY Zenon, SMTT(30) DEF vars, receiver
<1>4. (Types /\ kind \in Kinds /\ GotTypes)'
  BY Zenon, SMTT(30), <1>1, <1>2, <1>3
     DEF ChannelInvariant, Types, SharedTypes, SenderTypes, ReceiverTypes, GotTypes
<1>5. (QueuesByPriority /\ FlushHasMessage /\ SendersCounted /\ GoneIsOut)'
  BY ZenonT(30), <1>1, <1>2
     DEF ChannelInvariant, QueuesByPriority, FlushHasMessage, SendersCounted, Live, GoneIsOut
<1>6. UnderWay' = UnderWay /\ InQueue' = InQueue
  BY Zenon, SMTT(30), <1>1, <1>2 DEF UnderWay, InQueue
<1>7. (Counts /\ Ends)'
  BY Zenon, SMTT(30), <1>1, <1>3, <1>6 DEF ChannelInvariant, Counts, Popped, Holds, Ends, is_closed
<1>8. Handles'
  BY Zenon, SMTT(30), <1>1, <1>2 DEF ChannelInvariant, Handles, HasHandle, HandlesDiffer
<1>9. Waiting' = Waiting /\ Unparking' = Unparking /\ AtPark' = AtPark /\ Existing' = Existing
  BY Zenon, SMTT(30), <1>2, <1>3, <1>6 DEF Waiting, Unparking, AtPark, Existing
<1>10. (Bounds /\ ExistingCoverExcess)'
  BY Zenon, SMTT(30), <1>1, <1>9, BoundsUnchanged DEF ChannelInvariant, ExistingCoverExcess, Bounded
<1>11. Wakes'
  BY Zenon, SMTT(30), <1>1, <1>2, <1>3 DEF ChannelInvariant, Wakes, Looked, is_closed
<1>12. Buffers' /\ Overtakes'
  BY ZenonT(30), <1>1, <1>2, <1>3 DEF ChannelInvariant, Buffers, Overtakes
<1>13. Fifos'
  <2>1. ASSUME NEW s \in Senders, NEW p \in Priority, Fifo(s, p) PROVE Fifo(s, p)'
    <3>1. Sound(s)' = Sound(s) /\ Top(s, p)' = Top(s, p) /\ Current(s)' = Current(s)
      BY ZenonT(30), <1>1, <1>2 DEF Sound, Top, Current, Message
    <3> QED
      BY ZenonT(30), <1>1, <1>2, <1>3, <1>6, <2>1, <3>1, FifoKept
  <2> QED
    BY Zenon, SMTT(30), <1>3, <2>1 DEF ChannelInvariant, Fifos
<1> QED
  BY Zenon, SMTT(30), <1>4, <1>5, <1>7, <1>8, <1>10, <1>11, <1>12, <1>13 DEF ChannelInvariant

\* channel(), unbounded() and their buffered senders start in it.
LEMMA InitChannel ==
  ASSUME Init
  PROVE  ChannelInvariant
<1>0. /\ kind \in Kinds /\ kind \in KindSet
      /\ is_open = TRUE /\ num_messages = 0 /\ num_senders = 1
      /\ queue = [p \in Priority |-> <<>>] /\ parked_queue = <<>> /\ recv_task = FALSE
      /\ life = [s \in Senders |-> IF s = First THEN "live" ELSE None]
      /\ pc = [s \in Senders |-> "idle"] /\ prio = [s \in Senders |-> "normal"]
      /\ rpc = "idle" /\ second = FALSE /\ msg = <<>> /\ recv_woken = FALSE /\ inner = TRUE
      /\ dropping = FALSE /\ overtaken = 0
      /\ got = [s \in Senders |-> [p \in Priority |-> <<>>]]
      /\ First \in Senders
  BY Zenon, SMTT(30), ChannelAssumption DEF Init
<1>a. /\ maybe_parked = [s \in Senders |-> FALSE] /\ is_parked = [s \in Senders |-> FALSE]
      /\ task = [s \in Senders |-> FALSE] /\ woken = [s \in Senders |-> FALSE]
      /\ buf = [s \in Senders |-> [p \in Priority |-> <<>>]]
      /\ made = [s \in Senders |-> [p \in Priority |-> 0]]
  BY Zenon DEF Init
<1>1. SharedTypes
  <2>1. [p \in Priority |-> <<>>] \in [Priority -> Seq(Node)] /\ <<>> \in Seq(Handle)
    BY Zenon, EmptySeq
  <2>2. is_open \in BOOLEAN /\ recv_task \in BOOLEAN
    BY Zenon, <1>0
  <2>3. queue \in [Priority -> Seq(Node)] /\ parked_queue \in Seq(Handle)
    BY Zenon, <1>0, <2>1
  <2>4. num_messages \in Int /\ num_senders \in Int /\ kind \in KindSet
    BY SMTT(30), <1>0
  <2> QED
    BY Zenon, <2>2, <2>3, <2>4 DEF SharedTypes
<1>2. SenderTypes
  <2>1. [p \in Priority |-> <<>>] \in [Priority -> Seq(Nat)] /\ "normal" \in Priority
    BY Zenon, SMTT(30), EmptySeq DEF Priority
  <2> QED
    BY Zenon, SMTT(30), <1>0, <1>a, <2>1 DEF SenderTypes, Calls, None
<1>3. ReceiverTypes /\ GotTypes
  <2>1. [p \in Priority |-> <<>>] \in [Priority -> Seq(Int)] /\ <<>> \in Seq(Msg)
    BY Zenon, SMTT(30), EmptySeq
  <2> QED
    BY ZenonT(30), <1>0, <2>1 DEF ReceiverTypes, GotTypes, ReceiverSteps
<1>4. UnderWay = {} /\ AtPark = {} /\ InQueue = 0 /\ Len(msg) = 0 /\ Len(parked_queue) = 0
  BY <1>0 DEF UnderWay, AtPark, InQueue, Counted, Priority
<1>5. Cardinality(UnderWay) = 0 /\ Cardinality(AtPark) = 0
  BY Zenon, SMTT(30), <1>4, FS_EmptySet
<1>6. Counts /\ Ends
  BY SMTT(30), <1>0, <1>4, <1>5 DEF Counts, Popped, Holds, Ends
<1>7. SendersCounted
  <2>1. Live = {First}
    BY Zenon, SMTT(30), <1>0 DEF Live, None
  <2>2. Cardinality(Live) = 1
    BY Zenon, SMTT(30), <2>1, FS_Singleton
  <2> QED
    BY Zenon, SMTT(30), <1>0, <2>2 DEF SendersCounted
<1>8. QueuesByPriority /\ FlushHasMessage /\ GoneIsOut
  BY SMTT(30), <1>0 DEF QueuesByPriority, FlushHasMessage, GoneIsOut, None
<1>9. Handles
  BY SMTT(30), <1>0, <1>a, <1>4 DEF Handles, HasHandle, HandlesDiffer
<1>10. Bounds /\ ExistingCoverExcess
  <2>1. RoomSizes
    BY Zenon, SMTT(30), <1>1, <1>2, <1>3, RoomTypes DEF Types
  <2>2. Waiting = 0 /\ Unparking = 0
    BY SMTT(30), <1>0, <1>4, <1>5 DEF Waiting, Unparking
  <2>3. Cardinality(Owed) \in Nat /\ Cardinality(Existing) \in Nat /\ Buffer \in Nat
    BY Zenon, SMTT(30), <2>1 DEF RoomSizes
  <2> QED
    BY SMTT(30), <1>4, <1>5, <2>2, <2>3
       DEF Bounds, PopsCoverParked, ParkedCoverExcess, ExistingCoverExcess
<1>11. Wakes /\ Overtakes
  BY SMTT(30), <1>0 DEF Wakes, Looked, Overtakes
<1>12. Buffers
  BY Zenon, SMTT(30), <1>a, NothingNumbered DEF Buffers
<1>13. ASSUME NEW s \in Senders, NEW p \in Priority PROVE Fifo(s, p)
  <2>1. got[s][p] = <<>> /\ queue[p] = <<>> /\ Top(s, p) = 0 /\ s \notin UnderWay
    BY SMTT(30), <1>0, <1>a, <1>4 DEF Top
  <2>2. HoldsOne /\ HeldOf(s, p) = 0
    BY Zenon, SMTT(30), <1>4 DEF HoldsOne, HeldOf
  <2>3. Taken(s, p) = 0
    BY SMTT(30), <2>1, <2>2, TakenIs DEF TakenSum
  <2>4. \A n \in Int : ~Way(s, p, n)
    BY SMTT(30), <2>1 DEF Way
  <2>5. Contiguous(s, p)
    BY SMTT(30), <2>1, <2>3, <2>4 DEF Contiguous
  <2>6. got[s][p] = Upto(Len(got[s][p]))
    BY <2>1 DEF Upto
  <2> QED
    BY SMTT(30), <1>4, <2>1, <2>5, <2>6 DEF Fifo, PoppedIsNext, Ascending
<1> QED
  BY SMTT(30), <1>0, <1>1, <1>2, <1>3, <1>6, <1>7, <1>8, <1>9, <1>10, <1>11, <1>12, <1>13
     DEF ChannelInvariant, Types, Fifos

\* Hence it holds always.
LEMMA ChannelInvariantHolds == Spec => []ChannelInvariant
<1>1. Init => ChannelInvariant
  BY Zenon, InitChannel
<1>2. ChannelInvariant /\ [Next]_vars => ChannelInvariant'
  BY Zenon, SMTT(30), NextChannel, SameChannel
<1> QED
  BY <1>1, <1>2, PTL DEF Spec

-----------------------------------------------------------------------------
\* What the invariant says of the counters,
LEMMA CountFollows == ChannelInvariant => CountIsExact
<1> SUFFICES ASSUME ChannelInvariant PROVE CountIsExact
  BY Zenon
<1> USE DEF ChannelInvariant
<1>1. RoomSizes /\ Popped \in {0, 1}
  BY Zenon, SMTT(30), RoomTypes DEF Counts, Holds
<1>2. num_messages = Waiting + Popped /\ num_messages \in Nat
  BY SMTT(30), <1>1 DEF Counts, Waiting, RoomSizes
<1>3. num_senders \in 0 .. Cardinality(Senders)
  <2>1. Cardinality(Live) \in Nat /\ Cardinality(Live) <= Cardinality(Senders)
    BY Zenon, SMTT(30), <1>1 DEF RoomSizes, Live
  <2>2. Cardinality(Senders) \in Nat
    BY Zenon, SMTT(30), <1>1 DEF RoomSizes
  <2> QED
    BY SMTT(30), <2>1, <2>2 DEF SendersCounted
<1>4. \A i \in DOMAIN parked_queue : parked_queue[i].v \in Senders
  <2>1. parked_queue \in Seq(Handle) /\ DOMAIN parked_queue = 1 .. Len(parked_queue)
    BY Zenon, LenProperties DEF Types, SharedTypes
  <2>2. \A i \in 1 .. Len(parked_queue) : parked_queue[i] \in Handle
    BY Zenon, SMTT(30), <2>1, ElementOfSeq
  <2> QED
    BY Zenon, SMTT(30), <2>1, <2>2 DEF Handle
<1>5. \A i \in DOMAIN msg : msg[i].from \in Senders
  <2>1. msg \in Seq(Msg) /\ DOMAIN msg = 1 .. Len(msg)
    BY Zenon, LenProperties DEF Types, ReceiverTypes
  <2>2. \A i \in 1 .. Len(msg) : msg[i] \in Msg
    BY Zenon, SMTT(30), <2>1, ElementOfSeq
  <2> QED
    BY Zenon, SMTT(30), <2>1, <2>2 DEF Msg
<1>6. \A p \in Priority : \A i \in DOMAIN queue[p] : queue[p][i].v.prio = p
  <2>1. \A p \in Priority : DOMAIN queue[p] = 1 .. Len(queue[p])
    BY Zenon, SMTT(30), InQueueType, LenProperties
  <2> QED
    BY Zenon, SMTT(30), <2>1 DEF QueuesByPriority
<1>7. TypeOK
  <2>1. kind \in Kinds /\ is_open \in BOOLEAN /\ recv_task \in BOOLEAN
    BY Zenon, SMTT(30) DEF Types, SharedTypes
  <2>2. /\ life \in [Senders -> {None, "live", "gone"}]
        /\ pc \in [Senders -> Calls] /\ prio \in [Senders -> Priority]
        /\ {maybe_parked, is_parked, task, woken} \subseteq [Senders -> BOOLEAN]
    BY Zenon DEF Types, SenderTypes
  <2>3. Len(msg) <= 1
    BY SMTT(30), <1>1 DEF Popped
  <2>4. rpc \in ReceiverSteps
    BY Zenon, SMTT(30) DEF Types, ReceiverTypes
  <2> QED
    BY SMTT(30), <1>2, <1>3, <1>4, <1>5, <1>6, <2>1, <2>2, <2>3, <2>4 DEF TypeOK, ReceiverSteps
<1>8. Bounded => num_messages - Popped <= Buffer + Cardinality(Existing)
  BY SMTT(30), <1>1, <1>2 DEF ExistingCoverExcess, RoomSizes
<1> QED
  BY Zenon, SMTT(30), <1>7, <1>8 DEF CountIsExact, Counts, Existing

\* of the wake-ups,
LEMMA WakeUpFollows == ChannelInvariant => NoLostWakeUp
<1> SUFFICES ASSUME ChannelInvariant PROVE NoLostWakeUp
  BY Zenon
<1>1. ASSUME NEW s \in Senders, maybe_parked[s], is_parked[s]
      PROVE  \E i \in DOMAIN parked_queue :
               /\ parked_queue[i].v = s
               /\ i <= InQueue + Cardinality(UnderWay) + (IF rpc = "unpark" THEN 1 ELSE 0)
  <2>1. PICK i \in 1 .. Len(parked_queue) : parked_queue[i].v = s
    BY Zenon, <1>1 DEF ChannelInvariant, Handles, HasHandle
  <2>2. RoomSizes
    BY Zenon, SMTT(30), RoomTypes DEF ChannelInvariant
  <2>3. Cardinality(AtPark) \in Nat /\ Waiting \in Nat /\ Len(parked_queue) \in Nat
    BY Zenon, <2>2 DEF RoomSizes
  <2>4. Len(parked_queue) + Cardinality(AtPark) <= Waiting + Unparking
    BY Zenon DEF ChannelInvariant, Bounds, PopsCoverParked
  <2>5. i <= Waiting + Unparking
    BY SMTT(30), <2>1, <2>3, <2>4 DEF Unparking
  <2>6. i \in DOMAIN parked_queue
    BY Zenon, SMTT(30), <2>1, LenProperties DEF ChannelInvariant, Types, SharedTypes
  <2> QED
    BY Zenon, SMTT(30), <2>1, <2>5, <2>6 DEF Waiting, Unparking
<1>2. BlockedSenderWillBeNotified
  BY Zenon, SMTT(30), <1>1 DEF BlockedSenderWillBeNotified
<1>3. ReceiverWillBeWoken
  BY Zenon, SMTT(30) DEF ChannelInvariant, Wakes, Looked, ReceiverWillBeWoken
<1> QED
  BY Zenon, SMTT(30), <1>2, <1>3 DEF NoLostWakeUp

\* and of the order.
LEMMA OrderFollows == ChannelInvariant => InOrderNothingLost
<1> SUFFICES ASSUME ChannelInvariant PROVE InOrderNothingLost
  BY Zenon, SMTT(30)
<1>1. ASSUME ~dropping, NEW s \in Senders, NEW p \in Priority
      PROVE  /\ InOrder(s, p)
             /\ is_open /\ life[s] # "gone" =>
                  /\ made[s][p] = Sent(s, p) + Len(buf[s][p])
                  /\ \A i \in 1 .. Len(buf[s][p]) : buf[s][p][i] = Sent(s, p) + i
  <2>1. Fifo(s, p)
    BY Zenon, SMTT(30), <1>1 DEF ChannelInvariant, Fifos
  <2>2. PICK k \in Int :
          /\ k >= Taken(s, p)
          /\ \A n \in Int : Way(s, p, n) <=> n \in Taken(s, p) + 1 .. k
          /\ Sound(s) => k = Top(s, p)
    BY Zenon, SMTT(30), <2>1 DEF Fifo, Contiguous
  <2>3. Taken(s, p) \in Nat /\ \A i \in 1 .. Len(queue[p]) : queue[p][i].v \in Msg
    BY Zenon, SMTT(30), TakenType DEF ChannelInvariant
  <2>4. Current(s).n \in Int
    BY Zenon, SMTT(30), CurrentType DEF ChannelInvariant, Msg
  <2>5. \A n : n \in OnTheWay(s, p) <=> n \in Int /\ Way(s, p, n)
    BY Zenon, SMTT(30), <2>3, <2>4 DEF OnTheWay, Way, Msg
  <2>6. OnTheWay(s, p) = Taken(s, p) + 1 .. k
    <3>1. \A n : n \in Taken(s, p) + 1 .. k => n \in Int
      BY <2>3
    <3>2. \A n : n \in OnTheWay(s, p) <=> n \in Taken(s, p) + 1 .. k
      BY Zenon, <2>2, <2>5, <3>1
    <3> DEFINE A == OnTheWay(s, p)
               B == Taken(s, p) + 1 .. k
    <3>3. \A n : n \in A <=> n \in B
      BY Zenon, <3>2
    <3> HIDE DEF A, B
    <3>4. A = B
      BY Zenon, SMTT(30), <3>3
    <3> QED
      BY Zenon, SMTT(30), <3>4 DEF A, B
  <2>7. Cardinality(OnTheWay(s, p)) = k - Taken(s, p)
    <3>1. Taken(s, p) + 1 \in Int
      BY SMTT(30), <2>3
    <3>2. Cardinality(Taken(s, p) + 1 .. k) = IF Taken(s, p) + 1 > k THEN 0 ELSE k - (Taken(s, p) + 1) + 1
      BY Zenon, SMTT(30), <3>1, FS_Interval
    <3> QED
      BY SMTT(30), <2>2, <2>3, <2>6, <3>2
  <2>8. Sent(s, p) = k
    BY SMTT(30), <2>2, <2>3, <2>7 DEF Sent
  <2>9. InOrder(s, p)
    BY ZenonT(30), <2>1, <2>6, <2>8 DEF InOrder, Fifo, PoppedIsNext, Ascending
  <2>10. ASSUME is_open, life[s] # "gone"
         PROVE  /\ made[s][p] = Sent(s, p) + Len(buf[s][p])
                /\ \A i \in 1 .. Len(buf[s][p]) : buf[s][p][i] = Sent(s, p) + i
    <3>1. k = made[s][p] - Len(buf[s][p])
      BY Zenon, SMTT(30), <2>2, <2>10 DEF Sound, Top
    <3>2. Len(buf[s][p]) \in Nat /\ made[s][p] \in Nat
      BY SMTT(30), LenProperties DEF ChannelInvariant, Types, SenderTypes
    <3>3. Numbered(buf[s][p], made[s][p])
      BY ZenonT(30) DEF ChannelInvariant, Buffers
    <3> QED
      BY SMTT(30), <2>8, <3>1, <3>2, <3>3 DEF Numbered
  <2> QED
    BY Zenon, SMTT(30), <2>9, <2>10
<1>2. ASSUME rpc = "done" PROVE InQueue = 0 /\ UnderWay = {}
  <2>1. num_messages = 0 /\ num_messages = InQueue + Cardinality(UnderWay) + Popped /\ Popped = 0
    BY Zenon, SMTT(30), <1>2 DEF ChannelInvariant, Ends, is_closed, Counts, Holds
  <2>2. InQueue \in Nat /\ Cardinality(UnderWay) \in Nat /\ IsFiniteSet(UnderWay)
    BY ZenonT(30), InQueueType, ChannelAssumption, FS_Subset, FS_CardinalityType DEF ChannelInvariant, UnderWay
  <2>3. InQueue = 0 /\ Cardinality(UnderWay) = 0
    BY SMTT(30), <2>1, <2>2
  <2> QED
    BY Zenon, SMTT(30), <2>2, <2>3, FS_EmptySet
<1>3. overtaken <= 1
  BY DEF ChannelInvariant, Overtakes
<1> QED
  BY Zenon, SMTT(30), <1>1, <1>2, <1>3 DEF InOrderNothingLost

\* The atomic count of bound.rs and unbound.rs is exact whatever the interleaving, so that
\* dec_num_messages never borrows from the open flag and do_send_b keeps a bounded channel
\* within its buffer and one message per sender.
THEOREM CountIsExactHolds == Spec => []CountIsExact
BY ChannelInvariantHolds, CountFollows, PTL

\* No wake-up is lost: a sender that park() blocks is within reach of the pops to come, and
\* poll_next sleeps past no message and no end of the stream.
THEOREM NoLostWakeUpHolds == Spec => []NoLostWakeUp
BY ChannelInvariantHolds, WakeUpFollows, PTL

\* The channel is FIFO per sender and priority and loses nothing, from the buffer of a
\* PriorityBuffer to what poll_next returns.
THEOREM InOrderNothingLostHolds == Spec => []InOrderNothingLost
BY ChannelInvariantHolds, OrderFollows, PTL

============================================================================
