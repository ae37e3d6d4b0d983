--------------------------- MODULE PriorityChannelSteps ----------------------------
(***************************************************************************)
(* The invariant of PriorityChannel, conjunct by conjunct, and the steps of*)
(* the channel grouped by what they touch. The types, the buffers of the   *)
(* senders, the parked handles, the end of the stream, the receiver's waker*)
(* and the order of the messages are kept by every step.                   *)
(***************************************************************************)
EXTENDS PriorityChannel, SequenceTheorems, TLAPS

\* A message, a node of a queue (its link may be missing: the window of Queue::push), and a
\* node of parked_queue.
Msg == [from : Senders, prio : Priority, n : Int]
Node == [v : Msg, linked : BOOLEAN]
Handle == [v : Senders, linked : BOOLEAN]
\* Where the receiver can be between two atomic accesses.
ReceiverSteps == {"idle", "quick", "normal", "state", "register", "unpark", "dec",
                  "drain", "asleep", "done"}

\* The types of what all share, of what each sender has and of what the receiver has.
SharedTypes ==
  /\ kind \in KindSet /\ is_open \in BOOLEAN /\ recv_task \in BOOLEAN
  /\ num_messages \in Int /\ num_senders \in Int
  /\ queue \in [Priority -> Seq(Node)] /\ parked_queue \in Seq(Handle)
SenderTypes ==
  /\ life \in [Senders -> {None, "live", "gone"}]
  /\ pc \in [Senders -> Calls] /\ prio \in [Senders -> Priority]
  /\ maybe_parked \in [Senders -> BOOLEAN] /\ is_parked \in [Senders -> BOOLEAN]
  /\ task \in [Senders -> BOOLEAN] /\ woken \in [Senders -> BOOLEAN]
  /\ buf \in [Senders -> [Priority -> Seq(Nat)]]
  /\ made \in [Senders -> [Priority -> Nat]]
ReceiverTypes ==
  /\ rpc \in ReceiverSteps /\ msg \in Seq(Msg)
  /\ second \in BOOLEAN /\ recv_woken \in BOOLEAN /\ inner \in BOOLEAN /\ dropping \in BOOLEAN
\* A queue holds messages of its own priority.
QueuesByPriority == \A p \in Priority : \A i \in 1 .. Len(queue[p]) : queue[p][i].v.prio = p
\* A flush of a buffer goes on only while there is something in it
FlushHasMessage ==
  kind = "buffered" =>
    \A s \in Senders : pc[s] \in {"ready", "inc"} => buf[s][prio[s]] # <<>>

\* The types together.
Types == SharedTypes /\ SenderTypes /\ ReceiverTypes

\* The receiver holds one message from the pop to dec_num_messages.
Holds == IF rpc \in {"unpark", "dec"} THEN 1 ELSE 0
\* The senders that count as senders, and those that ever existed.
Live == {s \in Senders : life[s] = "live"}
Existing == {s \in Senders : life[s] # None}
\* num_messages counts what is in the queues, under way and popped.
Counts ==
  /\ num_messages = InQueue + Cardinality(UnderWay) + Popped
  /\ Popped = Holds
\* num_senders counts the senders; only one that exists is in a call.
SendersCounted ==
  /\ num_senders = Cardinality(Live)
  /\ \A s \in Senders : pc[s] # "idle" => life[s] # None

\* s has a handle in parked_queue.
HasHandle(s) == \E i \in 1 .. Len(parked_queue) : parked_queue[i].v = s
\* No sender is parked twice.
HandlesDiffer ==
  \A i, j \in 1 .. Len(parked_queue) : parked_queue[i].v = parked_queue[j].v => i = j
\* A sender is parked exactly while its handle is in the queue; while the channel is open it
\* knows it may be parked, or is about to write that down, and it sends nothing meanwhile.
Handles ==
  /\ \A s \in Senders : is_parked[s] <=> HasHandle(s)
  /\ HandlesDiffer
  /\ \A s \in Senders : HasHandle(s) => pc[s] # "park" /\ life[s] # None
  /\ is_open => \A s \in Senders : HasHandle(s) =>
       \/ pc[s] \in {"parklink", "parkcheck"}
       \/ maybe_parked[s] /\ pc[s] # "inc"
  /\ kind = "unbounded" =>
       parked_queue = <<>> /\ \A s \in Senders : pc[s] \notin {"park", "parklink", "parkcheck"}

\* The senders that counted a message past the buffer and have not parked yet, those the
\* channel owes an unpark, and the unpark that a pop is about to do.
AtPark == {s \in Senders : pc[s] = "park"}
Owed == AtPark \cup {s \in Senders : HasHandle(s)}
Unparking == IF rpc = "unpark" THEN 1 ELSE 0
\* What is in the queues or about to be.
Waiting == InQueue + Cardinality(UnderWay)
\* Every message that waits will unpark one sender, and each that parked is owed that.
PopsCoverParked == Len(parked_queue) + Cardinality(AtPark) <= Waiting + Unparking
\* Past the buffer there is room only for one message of each sender that waits for room.
ParkedCoverExcess ==
  Bounded /\ is_open => Waiting <= Buffer + Cardinality(Owed) - Unparking
\* What CountIsExact says of a bounded channel.
ExistingCoverExcess == Bounded => Waiting <= Buffer + Cardinality(Existing)

\* The receiver has looked into queue p for the last time before it sleeps.
Looked(p) == rpc = "asleep" \/ (second /\ (rpc = "state" \/ (p = "high" /\ rpc = "normal")))
\* A receiver that sleeps, or is about to, has registered; what came after it looked is still
\* to be signalled by the sender that brought it.
Wakes ==
  /\ second => rpc \in {"quick", "normal", "state"}
  /\ (second \/ rpc = "asleep") /\ ~recv_woken => recv_task
  /\ \A p \in Priority : Looked(p) /\ ~recv_woken /\ Data(queue[p]) => \E s \in Senders : pc[s] = "wake"
  /\ rpc = "asleep" /\ ~recv_woken /\ is_closed => \E s \in Senders : pc[s] = "closewake"

-----------------------------------------------------------------------------
\* The mutex-free queues as sequences: what a push and a link do.
LEMMA SwapType ==
  ASSUME NEW S, NEW q \in Seq([v : S, linked : BOOLEAN]), NEW v \in S
  PROVE  /\ Swap(q, v) \in Seq([v : S, linked : BOOLEAN])
         /\ Len(Swap(q, v)) = Len(q) + 1
         /\ \A i \in 1 .. Len(q) : Swap(q, v)[i] = q[i]
         /\ Swap(q, v)[Len(q) + 1] = [v |-> v, linked |-> FALSE]
<1>1. [v |-> v, linked |-> FALSE] \in [v : S, linked : BOOLEAN]
  BY Zenon
<1> QED
  BY <1>1, AppendProperties DEF Swap

\* Publishing the link of a node changes no message and no length.
LEMMA LinkType ==
  ASSUME NEW S, NEW q \in Seq([v : S, linked : BOOLEAN]), NEW v \in S
  PROVE  /\ Link(q, v) \in Seq([v : S, linked : BOOLEAN])
         /\ Len(Link(q, v)) = Len(q)
         /\ \A i \in 1 .. Len(q) : Link(q, v)[i].v = q[i].v
<1>1. DOMAIN q = 1 .. Len(q) /\ Len(q) \in Nat
  BY Zenon, LenProperties
<1>2. \A i \in 1 .. Len(q) : q[i] \in [v : S, linked : BOOLEAN]
  BY ZenonT(30), ElementOfSeq
<1>3. \A i \in 1 .. Len(q) : [q[i] EXCEPT !.linked = TRUE] \in [v : S, linked : BOOLEAN]
  BY ZenonT(30), <1>2
<1>4. Link(q, v) \in [1 .. Len(q) -> [v : S, linked : BOOLEAN]]
  BY Zenon, <1>1, <1>2, <1>3 DEF Link
<1> QED
  BY <1>1, <1>2, <1>4 DEF Link

\* The message a sender is sending is one.
LEMMA CurrentType ==
  ASSUME Types, NEW s \in Senders
  PROVE  Current(s) \in Msg
<1>1. prio[s] \in Priority
  BY Zenon DEF Types, SenderTypes
<1>2. made[s][prio[s]] \in Nat /\ buf[s][prio[s]] \in Seq(Nat)
  BY Zenon, <1>1 DEF Types, SenderTypes
<1>3. Len(buf[s][prio[s]]) \in Nat
  BY Zenon, <1>2, LenProperties
<1> QED
  BY SMTT(30), <1>1, <1>2, <1>3 DEF Current, Message, Msg

\* The calls of a sender keep the types: those that touch neither counter nor queue,
LEMMA SenderCallTypes ==
  ASSUME Types, NEW s \in Senders, NEW p \in Priority,
         AsyncSend(s, p) \/ TrySend(s, p) \/ UnboundedSend(s, p) \/ BufferPush(s, p)
           \/ BufferTrySend(s) \/ DropSender(s) \/ CloseChannel(s) \/ PollReady(s)
           \/ Repoll(s) \/ CloseWake(s)
  PROVE  Types'
<1> USE DEF Types, SharedTypes, SenderTypes, ReceiverTypes, Calls, Counted, Goto, shared, receiver,
        senders
<1>1. CASE AsyncSend(s, p)
  BY Zenon, <1>1 DEF AsyncSend
<1>2. CASE TrySend(s, p)
  BY ZenonT(30), <1>2 DEF TrySend
<1>3. CASE UnboundedSend(s, p)
  BY Zenon, <1>3 DEF UnboundedSend
<1>4. CASE BufferPush(s, p)
  BY SMTT(30), <1>4 DEF BufferPush
<1>5. CASE BufferTrySend(s)
  BY Zenon, SMTT(30), <1>5 DEF BufferTrySend, FrontPriority, Priority
<1>6. CASE DropSender(s)
  <2>1. [q \in Priority |-> <<>>] \in [Priority -> Seq(Nat)]
    BY Zenon, EmptySeq
  <2>2. buf' \in [Senders -> [Priority -> Seq(Nat)]]
    BY Zenon, <1>6, <2>1 DEF DropSender
  <2>3. pc' \in [Senders -> Calls] /\ is_open' \in BOOLEAN
    BY ZenonT(30), <1>6 DEF DropSender, SetClosed
  <2>4. life' \in [Senders -> {None, "live", "gone"}] /\ num_senders' \in Int
    BY <1>6 DEF DropSender
  <2> QED
    BY Zenon, SMTT(30), <1>6, <2>2, <2>3, <2>4 DEF DropSender
<1>7. CASE CloseChannel(s)
  BY ZenonT(30), <1>7 DEF CloseChannel, SetClosed
<1>8. CASE PollReady(s)
  <2>1. [q \in Priority |-> <<>>] \in [Priority -> Seq(Nat)]
    BY Zenon, EmptySeq
  <2>2. CASE is_open
    BY ZenonT(30), <1>8, <2>2 DEF PollReady, PollUnparked
  <2>3. CASE ~is_open
    BY ZenonT(30), <1>8, <2>1, <2>3 DEF PollReady, Fail
  <2> QED  BY ZenonT(30), <2>2, <2>3
<1>9. CASE Repoll(s)
  BY Zenon, <1>9 DEF Repoll
<1>10. CASE CloseWake(s)
  BY ZenonT(30), <1>10 DEF CloseWake, WakeReceiver
<1> QED  BY ZenonT(30), <1>1, <1>2, <1>3, <1>4, <1>5, <1>6, <1>7, <1>8, <1>9, <1>10

\* Clone,
LEMMA CloneTypes ==
  ASSUME Types, NEW s \in Senders, NEW t \in Senders, Clone(s, t)
  PROVE  Types'
BY SMTT(30) DEF Clone, Types, SharedTypes, SenderTypes, ReceiverTypes, receiver

\* a message put into the buffer or handed to try_send,
LEMMA MadeType ==
  ASSUME NEW f \in [Senders -> [Priority -> Nat]], NEW s \in Senders, NEW p \in Priority
  PROVE  [f EXCEPT ![s][p] = @ + 1] \in [Senders -> [Priority -> Nat]]
<1>1. f[s][p] + 1 \in Nat
  OBVIOUS
<1>2. [f[s] EXCEPT ![p] = @ + 1] \in [Priority -> Nat]
  BY Zenon, <1>1
<1> QED
  BY Zenon, <1>2

\* and the path of a message from inc_num_messages to the signal.
LEMMA SendTypes ==
  ASSUME Types, FlushHasMessage, NEW s \in Senders,
         DoSendB(s) \/ DoSendNb(s) \/ Park(s) \/ QueuePushAndSignal(s)
  PROVE  Types'
<1> DEFINE p == prio[s]
<1>0. /\ p \in Priority /\ buf[s] \in [Priority -> Seq(Nat)] /\ buf[s][p] \in Seq(Nat)
      /\ [q \in Priority |-> <<>>] \in [Priority -> Seq(Nat)]
  BY EmptySeq DEF Types, SenderTypes
<1>1. ASSUME NEW l \in Calls
      PROVE  [pc EXCEPT ![s] = l] \in [Senders -> Calls]
  BY Zenon, <1>1 DEF Types, SenderTypes
<1>6. /\ made \in [Senders -> [Priority -> Nat]]
      /\ [made EXCEPT ![s][p] = @ + 1] \in [Senders -> [Priority -> Nat]]
  <2>1. made \in [Senders -> [Priority -> Nat]]
    BY Zenon DEF Types, SenderTypes
  <2> QED
    BY Zenon, <1>0, <2>1, MadeType
<1>2. CASE DoSendB(s)
  <2>0. UNCHANGED <<kind, is_open, num_senders, queue, parked_queue, recv_task, receiver,
                    life, prio, maybe_parked, is_parked, task, woken>>
    BY Zenon, <1>2 DEF DoSendB
  <2>1. \E l \in Calls : pc' = [pc EXCEPT ![s] = l]
    BY Zenon, <1>2 DEF DoSendB, Goto, Fail, Calls, Counted
  <2>2. num_messages' \in {num_messages, num_messages + 1}
    BY Zenon, <1>2 DEF DoSendB
  <2>3. buf' \in [Senders -> [Priority -> Seq(Nat)]]
    <3>1. CASE is_open /\ kind = "buffered"
      <4>1. Tail(buf[s][p]) \in Seq(Nat)
        BY Zenon, SMTT(30), <1>0, <1>2, <3>1, HeadTailProperties DEF FlushHasMessage, DoSendB
      <4>2. [buf[s] EXCEPT ![p] = Tail(@)] \in [Priority -> Seq(Nat)]
        BY Zenon, <1>0, <4>1
      <4>3. buf' = [buf EXCEPT ![s] = [buf[s] EXCEPT ![p] = Tail(@)]]
        BY Zenon, <1>2, <3>1 DEF DoSendB
      <4> QED
        BY Zenon, <4>2, <4>3 DEF Types, SenderTypes
    <3>2. CASE is_open /\ kind # "buffered"
      BY Zenon, <1>2, <3>2 DEF DoSendB, Types, SenderTypes
    <3>3. CASE ~is_open
      BY ZenonT(30), <1>0, <1>2, <3>3 DEF DoSendB, Fail, Types, SenderTypes
    <3> QED  BY Zenon, <3>1, <3>2, <3>3
  <2>4. made' \in [Senders -> [Priority -> Nat]]
    <3>1. made' \in {made, [made EXCEPT ![s][p] = @ + 1]}
      BY Zenon, <1>2 DEF DoSendB
    <3> QED
      BY Zenon, SMTT(30), <1>6, <3>1
  <2>5. pc' \in [Senders -> Calls]
    BY Zenon, <1>1, <2>1
  <2> QED
    BY SMTT(30), <2>0, <2>2, <2>3, <2>4, <2>5
       DEF Types, SharedTypes, SenderTypes, ReceiverTypes, receiver
<1>3. CASE DoSendNb(s)
  <2>0. UNCHANGED <<kind, is_open, num_senders, queue, parked_queue, recv_task, receiver,
                    life, prio, maybe_parked, is_parked, task, woken, buf>>
    BY Zenon, <1>3 DEF DoSendNb
  <2>1. \E l \in Calls : pc' = [pc EXCEPT ![s] = l]
    BY Zenon, <1>3 DEF DoSendNb, Goto, Calls, Counted
  <2>2. num_messages' \in {num_messages, num_messages + 1}
    BY Zenon, <1>3 DEF DoSendNb
  <2>3. made' \in {made, [made EXCEPT ![s][p] = @ + 1]}
    BY Zenon, <1>3 DEF DoSendNb
  <2>4. made' \in [Senders -> [Priority -> Nat]]
    BY Zenon, <1>6, <2>3
  <2>5. pc' \in [Senders -> Calls]
    BY Zenon, <1>1, <2>1
  <2> QED
    BY SMTT(30), <2>0, <2>2, <2>4, <2>5
       DEF Types, SharedTypes, SenderTypes, ReceiverTypes, receiver
<1>4. CASE Park(s)
  <2>0. UNCHANGED <<kind, is_open, num_messages, num_senders, queue, recv_task, receiver,
                    life, prio, woken, buf, made>>
    BY Zenon, <1>4 DEF Park
  <2>1. \E l \in Calls : pc' = [pc EXCEPT ![s] = l]
    BY Zenon, <1>4 DEF Park, Goto, Calls, Counted
  <2>2. parked_queue \in Seq(Handle)
    BY Zenon DEF Types, SharedTypes
  <2>3. Swap(parked_queue, s) \in Seq(Handle) /\ Link(parked_queue, s) \in Seq(Handle)
    BY ZenonT(30), <2>2, SwapType, LinkType DEF Handle
  <2>4. parked_queue' \in Seq(Handle)
    BY Zenon, <1>4, <2>2, <2>3 DEF Park
  <2>5. /\ task' \in [Senders -> BOOLEAN] /\ is_parked' \in [Senders -> BOOLEAN]
        /\ maybe_parked' \in [Senders -> BOOLEAN]
    BY ZenonT(30), <1>4 DEF Park, Types, SenderTypes, SharedTypes
  <2> QED
    BY ZenonT(30), <1>1, <2>0, <2>1, <2>4, <2>5
       DEF Types, SharedTypes, SenderTypes, ReceiverTypes, receiver
<1>5. CASE QueuePushAndSignal(s)
  <2>0. UNCHANGED <<kind, is_open, num_messages, num_senders, parked_queue, life, maybe_parked,
                    is_parked, task, woken, buf, made, rpc, second, msg, inner,
                    dropping, got, overtaken>>
    BY Zenon, <1>5 DEF QueuePushAndSignal
  <2>1. \E l \in Calls : pc' = [pc EXCEPT ![s] = l]
    BY Zenon, <1>5 DEF QueuePushAndSignal, Goto, Calls, Counted
  <2>2. Current(s) \in Msg
    BY Zenon, SMTT(30), CurrentType
  <2>3. queue[p] \in Seq(Node)
    BY Zenon, SMTT(30), <1>0 DEF Types, SharedTypes
  <2>4. Swap(queue[p], Current(s)) \in Seq(Node) /\ Link(queue[p], Current(s)) \in Seq(Node)
    BY ZenonT(30), <2>2, <2>3, SwapType, LinkType DEF Node
  <2>5. queue' \in [Priority -> Seq(Node)]
    <3>1. \/ queue' = queue
          \/ queue' = [queue EXCEPT ![p] = Swap(queue[p], Current(s))]
          \/ queue' = [queue EXCEPT ![p] = Link(queue[p], Current(s))]
      BY Zenon, <1>5 DEF QueuePushAndSignal
    <3> QED
      BY Zenon, SMTT(30), <2>4, <3>1 DEF Types, SharedTypes
  <2>6. prio' \in [Senders -> Priority]
    <3>1. prio' \in {prio, [prio EXCEPT ![s] = FrontPriority(buf[s])]}
      BY Zenon, <1>5 DEF QueuePushAndSignal
    <3> QED
      BY ZenonT(30), <3>1 DEF Types, SenderTypes, FrontPriority, Priority
  <2>7. recv_task' \in BOOLEAN /\ recv_woken' \in BOOLEAN
    BY ZenonT(30), <1>5 DEF QueuePushAndSignal, WakeReceiver, Types, SharedTypes, ReceiverTypes
  <2> QED
    BY ZenonT(30), <1>1, <2>0, <2>1, <2>5, <2>6, <2>7
       DEF Types, SharedTypes, SenderTypes, ReceiverTypes
<1> QED  BY Zenon, <1>2, <1>3, <1>4, <1>5

\* What notifying the next parked sender changes, for UnparkOne and the loop of close.
LEMMA NotifyTypes ==
  ASSUME Types, NotifyParked
  PROVE  /\ Head(parked_queue) = parked_queue[1]
         /\ Head(parked_queue).v \in Senders
         /\ parked_queue' \in Seq(Handle) /\ is_parked' \in [Senders -> BOOLEAN]
         /\ woken' \in [Senders -> BOOLEAN] /\ task' \in [Senders -> BOOLEAN]
<1>1. parked_queue \in Seq(Handle) /\ parked_queue # <<>>
  BY Zenon DEF NotifyParked, Data, Types, SharedTypes
<1>2. /\ Head(parked_queue) \in Handle /\ Tail(parked_queue) \in Seq(Handle)
      /\ Head(parked_queue) = parked_queue[1]
  BY <1>1, HeadTailProperties
<1>3. Head(parked_queue).v \in Senders
  BY Zenon, <1>2 DEF Handle
<1> QED
  BY Zenon, <1>2, <1>3 DEF NotifyParked, Notify, Types, SenderTypes

\* The steps of the receiver keep the types.
LEMMA ReceiverTypesStep ==
  ASSUME Types, ReceiverStep \/ \E drop \in BOOLEAN : ReceiverClose(drop)
  PROVE  Types'
<1>1. ASSUME NEW p \in Priority, NextMessage(p)
      PROVE  Types'
  <2>0. UNCHANGED <<kind, is_open, num_messages, num_senders, parked_queue, recv_task, senders,
                    inner, dropping, got>>
    BY Zenon, <1>1 DEF NextMessage
  <2>1. rpc' \in ReceiverSteps
    BY Zenon, <1>1 DEF NextMessage, PopFailed, ReceiverSteps
  <2>2. recv_woken' \in BOOLEAN /\ second' \in BOOLEAN
    BY ZenonT(30), <1>1 DEF NextMessage, Types, ReceiverTypes
  <2>3. CASE Data(queue[p])
    <3>1. queue[p] \in Seq(Node) /\ queue[p] # <<>>
      BY Zenon, <2>3 DEF Data, Types, SharedTypes
    <3>2. Head(queue[p]) \in Node /\ Tail(queue[p]) \in Seq(Node)
      BY Zenon, <3>1, HeadTailProperties
    <3>3. <<Head(queue[p]).v>> \in Seq(Msg)
      BY <3>2 DEF Node
    <3>4. queue' = [queue EXCEPT ![p] = Tail(@)] /\ msg' = <<Head(queue[p]).v>>
      BY Zenon, SMTT(30), <1>1, <3>1 DEF NextMessage, Empty
    <3>5. queue' \in [Priority -> Seq(Node)] /\ msg' \in Seq(Msg)
      BY Zenon, <3>2, <3>3, <3>4 DEF Types, SharedTypes
    <3> QED
      BY Zenon, <2>0, <2>1, <2>2, <3>5 DEF Types, SharedTypes, SenderTypes, ReceiverTypes, senders
  <2>4. CASE ~Data(queue[p])
    <3>1. queue' = queue /\ msg' = msg
      BY Zenon, SMTT(30), <1>1, <2>4 DEF NextMessage
    <3> QED
      BY Zenon, <2>0, <2>1, <2>2, <3>1 DEF Types, SharedTypes, SenderTypes, ReceiverTypes, senders
  <2> QED
    BY Zenon, <2>3, <2>4
<1>2. CASE UnparkOne
  <2>1. UNCHANGED <<kind, is_open, num_messages, num_senders, queue, recv_task, life, pc, prio,
                 maybe_parked, buf, made, second, msg, recv_woken, inner, dropping>>
    BY Zenon, <1>2 DEF UnparkOne
  <2>2. rpc' \in ReceiverSteps
    BY Zenon, <1>2 DEF UnparkOne, ReceiverSteps
  <2>3. NotifyParked \/ UNCHANGED <<parked_queue, is_parked, woken, task>>
    BY Zenon, SMTT(30), <1>2 DEF UnparkOne
  <2> QED
    BY ZenonT(30), <2>1, <2>2, <2>3, NotifyTypes DEF Types, SharedTypes, SenderTypes, ReceiverTypes
<1>3. CASE DecNumMessages
  BY <1>3, EmptySeq
     DEF DecNumMessages, Types, SharedTypes, SenderTypes, ReceiverTypes, ReceiverSteps, senders
<1>4. CASE CheckState
  BY ZenonT(30), <1>4 DEF CheckState, shared, Types, SharedTypes, SenderTypes, ReceiverTypes, ReceiverSteps,
              senders
<1>5. CASE Register
  BY Zenon, <1>5 DEF Register, Types, SharedTypes, SenderTypes, ReceiverTypes, ReceiverSteps, senders
<1>6. CASE CloseNotify
  <2>1. UNCHANGED <<kind, is_open, num_messages, num_senders, queue, recv_task, life, pc, prio,
                 maybe_parked, buf, made, second, msg, recv_woken, inner, dropping>>
    BY Zenon, <1>6 DEF CloseNotify
  <2>2. rpc' \in ReceiverSteps
    BY Zenon, <1>6 DEF CloseNotify, ReceiverSteps
  <2>3. NotifyParked \/ UNCHANGED <<parked_queue, is_parked, woken, task>>
    BY Zenon, <1>6 DEF CloseNotify
  <2> QED
    BY ZenonT(30), <2>1, <2>2, <2>3, NotifyTypes DEF Types, SharedTypes, SenderTypes, ReceiverTypes
<1>7. ASSUME NEW drop \in BOOLEAN, ReceiverClose(drop)
      PROVE  Types'
  BY ZenonT(30), <1>7 DEF ReceiverClose, Types, SharedTypes, SenderTypes, ReceiverTypes, ReceiverSteps,
              senders
<1> QED
  BY Zenon, SMTT(30), <1>1, <1>2, <1>3, <1>4, <1>5, <1>6, <1>7 DEF ReceiverStep

-----------------------------------------------------------------------------
\* The steps a sender takes outside the path of a message that is counted.
Outside == {"idle", "ready", "pending", "inc", "closewake"}

\* What such a step may change of what the receiver and the other senders see.
QuietCall(s, l) ==
  /\ pc[s] \in Outside /\ l \in Outside /\ pc' = [pc EXCEPT ![s] = l]
  /\ l = "inc" /\ Bounded => ~(maybe_parked[s] /\ is_parked[s])
  /\ \A t \in Senders : t # s \/ l # "inc" => maybe_parked'[t] = maybe_parked[t]
  /\ pc[s] = "idle" /\ l # "idle" => life[s] # None
  /\ life'[s] = "gone" /\ (pc[s] \in {"idle", "closewake"} \/ life[s] = "live") =>
       l \in {"idle", "closewake"}
  /\ \/ life' = life /\ num_senders' = num_senders
     \/ /\ life[s] = "live" /\ life' = [life EXCEPT ![s] = "gone"]
        /\ num_senders' = num_senders - 1
  /\ is_open' = is_open \/ (is_open' = FALSE /\ l = "closewake")
  /\ IF pc[s] = "closewake" THEN WakeReceiver ELSE UNCHANGED <<recv_task, recv_woken>>
  /\ \A t \in Senders : t # s =>
       buf'[t] = buf[t] /\ made'[t] = made[t] /\ prio'[t] = prio[t]
  /\ \/ buf'[s] = buf[s] /\ made'[s] = made[s]
     \/ \E q \in Priority :
          /\ kind = "buffered"
          /\ buf'[s] = [buf[s] EXCEPT ![q] = Append(@, made[s][q] + 1)]
          /\ made'[s] = [made[s] EXCEPT ![q] = @ + 1]
     \/ /\ buf'[s] = [q \in Priority |-> <<>>] /\ made'[s] = made[s]
        /\ is_open' => life'[s] = "gone"
  /\ UNCHANGED <<kind, num_messages, queue, parked_queue, is_parked, rpc, second, msg, dropping,
                 got, overtaken>>

\* Which calls are quiet.
LEMMA QuietCalls ==
  ASSUME Types, NEW s \in Senders, NEW p \in Priority,
         AsyncSend(s, p) \/ TrySend(s, p) \/ UnboundedSend(s, p) \/ BufferPush(s, p)
           \/ BufferTrySend(s) \/ DropSender(s) \/ CloseChannel(s) \/ PollReady(s)
           \/ Repoll(s) \/ CloseWake(s) \/ (~is_open /\ (DoSendB(s) \/ DoSendNb(s)))
  PROVE  \E l \in Outside : QuietCall(s, l)
<1> USE DEF Outside, Goto, shared, receiver
<1>0. /\ pc \in [Senders -> Calls] /\ maybe_parked \in [Senders -> BOOLEAN]
      /\ kind \in KindSet /\ prio \in [Senders -> Priority]
      /\ DOMAIN buf = Senders /\ DOMAIN made = Senders
      /\ life \in [Senders -> {None, "live", "gone"}]
  BY Zenon DEF Types, SenderTypes, SharedTypes
<1>1. CASE AsyncSend(s, p)
  <2>1. QuietCall(s, "ready")
    BY ZenonT(30), <1>0, <1>1 DEF AsyncSend, QuietCall, None
  <2> QED  BY Zenon, <2>1
<1>2. CASE TrySend(s, p)
  <2>1. CASE maybe_parked[s] /\ is_parked[s]
    <3>1. pc' = [pc EXCEPT ![s] = "idle"]
      BY Zenon, SMTT(30), <1>0, <1>2, <2>1 DEF TrySend
    <3>2. QuietCall(s, "idle")
      BY ZenonT(30), <1>0, <1>2, <2>1, <3>1 DEF TrySend, QuietCall
    <3> QED  BY Zenon, SMTT(30), <3>2
  <2>2. CASE ~(maybe_parked[s] /\ is_parked[s])
    <3>1. QuietCall(s, "inc")
      BY ZenonT(30), <1>0, <1>2, <2>2 DEF TrySend, QuietCall, None
    <3> QED  BY Zenon, SMTT(30), <3>1
  <2> QED  BY ZenonT(30), <2>1, <2>2
<1>3. CASE UnboundedSend(s, p)
  <2>1. QuietCall(s, "inc")
    BY ZenonT(30), <1>0, <1>3 DEF UnboundedSend, QuietCall, None, Bounded
  <2> QED  BY Zenon, SMTT(30), <2>1
<1>4. CASE BufferPush(s, p)
  <2>1. pc' = [pc EXCEPT ![s] = pc[s]] /\ pc[s] \in {"idle", "pending"}
    BY Zenon, SMTT(30), <1>0, <1>4 DEF BufferPush
  <2>2. QuietCall(s, pc[s])
    BY ZenonT(30), <1>0, <1>4, <2>1 DEF BufferPush, QuietCall
  <2> QED  BY Zenon, SMTT(30), <2>1, <2>2
<1>5. CASE BufferTrySend(s)
  <2>1. QuietCall(s, "ready")
    BY ZenonT(30), <1>0, <1>5 DEF BufferTrySend, QuietCall, None
  <2> QED  BY Zenon, <2>1
<1>6. CASE DropSender(s)
  <2>1. CASE num_senders = 1
    <3>1. QuietCall(s, "closewake")
      BY Zenon, <1>0, <1>6, <2>1 DEF DropSender, SetClosed, QuietCall, None
    <3> QED  BY Zenon, SMTT(30), <3>1
  <2>2. CASE num_senders # 1
    <3>1. QuietCall(s, "idle")
      BY ZenonT(30), <1>0, <1>6, <2>2 DEF DropSender, QuietCall
    <3> QED  BY Zenon, SMTT(30), <3>1
  <2> QED  BY Zenon, <2>1, <2>2
<1>7. CASE CloseChannel(s)
  <2>1. QuietCall(s, "closewake")
    BY ZenonT(30), <1>0, <1>7 DEF CloseChannel, SetClosed, QuietCall, None
  <2> QED  BY Zenon, SMTT(30), <2>1
<1>8. CASE PollReady(s)
  <2>1. CASE is_open /\ maybe_parked[s] /\ is_parked[s]
    <3>1. QuietCall(s, "pending")
      BY ZenonT(30), <1>0, <1>8, <2>1 DEF PollReady, PollUnparked, QuietCall
    <3> QED  BY Zenon, SMTT(30), <3>1
  <2>2. CASE is_open /\ ~(maybe_parked[s] /\ is_parked[s])
    <3>1. QuietCall(s, "inc")
      BY ZenonT(30), <1>0, <1>8, <2>2 DEF PollReady, PollUnparked, QuietCall
    <3> QED  BY Zenon, SMTT(30), <3>1
  <2>3. CASE ~is_open
    <3>1. QuietCall(s, "idle")
      BY ZenonT(30), <1>0, <1>8, <2>3 DEF PollReady, Fail, QuietCall
    <3> QED  BY Zenon, SMTT(30), <3>1
  <2> QED  BY ZenonT(30), <2>1, <2>2, <2>3
<1>9. CASE Repoll(s)
  <2>1. QuietCall(s, "ready")
    BY ZenonT(30), <1>0, <1>9 DEF Repoll, QuietCall
  <2> QED  BY Zenon, SMTT(30), <2>1
<1>10. CASE CloseWake(s)
  <2>1. QuietCall(s, "idle")
    BY ZenonT(30), <1>0, <1>10 DEF CloseWake, QuietCall
  <2> QED  BY Zenon, SMTT(30), <2>1
<1>11. CASE ~is_open /\ (DoSendB(s) \/ DoSendNb(s))
  <2>1. QuietCall(s, "idle")
    BY <1>0, <1>11 DEF DoSendB, DoSendNb, Fail, QuietCall
  <2> QED  BY Zenon, SMTT(30), <2>1
<1> QED
  BY Zenon, SMTT(30), <1>1, <1>2, <1>3, <1>4, <1>5, <1>6, <1>7, <1>8, <1>9, <1>10, <1>11

\* inc_num_messages by a sender whose channel is open.
StartSend(s, l) ==
  /\ \A t \in Senders : t # s => buf'[t] = buf[t] /\ made'[t] = made[t]
  /\ \/ /\ kind = "buffered" /\ made'[s] = made[s]
        /\ buf'[s] = [buf[s] EXCEPT ![prio[s]] = Tail(@)]
     \/ /\ kind # "buffered" /\ buf'[s] = buf[s]
        /\ made'[s] = [made[s] EXCEPT ![prio[s]] = @ + 1]
  /\ pc[s] = "inc" /\ is_open /\ pc' = [pc EXCEPT ![s] = l]
  /\ num_messages' = num_messages + 1
  /\ l = IF Bounded /\ ParkSelf(num_messages + 1) THEN "park" ELSE "push"
  /\ UNCHANGED <<kind, is_open, num_senders, queue, parked_queue, recv_task, receiver,
                 life, prio, maybe_parked, is_parked, task, woken>>

\* Which calls count a message.
LEMMA StartSends ==
  ASSUME Types, NEW s \in Senders, is_open, DoSendB(s) \/ DoSendNb(s)
  PROVE  \E l \in {"park", "push"} : StartSend(s, l)
<1>0. DOMAIN buf = Senders /\ DOMAIN made = Senders
  BY Zenon DEF Types, SenderTypes
<1>1. CASE DoSendB(s)
  <2>1. StartSend(s, IF ParkSelf(num_messages + 1) THEN "park" ELSE "push")
    BY Zenon, <1>0, <1>1 DEF DoSendB, StartSend, Goto
  <2> QED  BY Zenon, SMTT(30), <2>1
<1>2. CASE DoSendNb(s)
  <2>1. StartSend(s, "push")
    BY Zenon, SMTT(30), <1>0, <1>2 DEF DoSendNb, StartSend, Goto, Bounded
  <2> QED  BY Zenon, SMTT(30), <2>1
<1> QED  BY Zenon, <1>1, <1>2

\* The three steps of park and the three of queue_push_and_signal, one by one.
ParkPush(s) == Park(s) /\ pc[s] = "park"
ParkLink(s) == Park(s) /\ pc[s] = "parklink"
ParkCheck(s) == Park(s) /\ pc[s] = "parkcheck"
Push(s) == QueuePushAndSignal(s) /\ pc[s] = "push"
PushLink(s) == QueuePushAndSignal(s) /\ pc[s] = "link"
Signal(s) == QueuePushAndSignal(s) /\ pc[s] = "wake"

\* Every step is one of these.
LEMMA Steps ==
  ASSUME Types, Next
  PROVE  \/ \E s \in Senders, l \in Outside : QuietCall(s, l)
         \/ \E s, t \in Senders : Clone(s, t)
         \/ \E s \in Senders, l \in {"park", "push"} : StartSend(s, l)
         \/ \E s \in Senders : ParkPush(s) \/ ParkLink(s) \/ ParkCheck(s)
         \/ \E s \in Senders : Push(s) \/ PushLink(s) \/ Signal(s)
         \/ \E drop \in BOOLEAN : ReceiverClose(drop)
         \/ ReceiverStep
<1>1. ASSUME NEW s \in Senders, NEW p \in Priority,
             AsyncSend(s, p) \/ TrySend(s, p) \/ UnboundedSend(s, p) \/ BufferPush(s, p)
      PROVE  \E l \in Outside : QuietCall(s, l)
  BY Zenon, <1>1, QuietCalls
<1>2. ASSUME NEW s \in Senders,
             BufferTrySend(s) \/ DropSender(s) \/ CloseChannel(s) \/ PollReady(s)
               \/ Repoll(s) \/ CloseWake(s) \/ (~is_open /\ (DoSendB(s) \/ DoSendNb(s)))
      PROVE  \E l \in Outside : QuietCall(s, l)
  <2>1. "high" \in Priority
    BY Zenon DEF Priority
  <2> QED
    BY Zenon, <1>2, <2>1, QuietCalls
<1>3. ASSUME NEW s \in Senders, is_open, DoSendB(s) \/ DoSendNb(s)
      PROVE  \E l \in {"park", "push"} : StartSend(s, l)
  BY Zenon, SMTT(30), <1>3, StartSends
<1>4. ASSUME NEW s \in Senders, Park(s)
      PROVE  ParkPush(s) \/ ParkLink(s) \/ ParkCheck(s)
  BY Zenon, SMTT(30), <1>4 DEF Park, ParkPush, ParkLink, ParkCheck
<1>5. ASSUME NEW s \in Senders, QueuePushAndSignal(s)
      PROVE  Push(s) \/ PushLink(s) \/ Signal(s)
  BY Zenon, <1>5 DEF QueuePushAndSignal, Push, PushLink, Signal
<1> QED
  BY Zenon, SMTT(30), <1>1, <1>2, <1>3, <1>4, <1>5 DEF Next, SenderStep

-----------------------------------------------------------------------------
\* The queues are sequences of nodes, and InQueue is the sum of their lengths.
LEMMA InQueueType ==
  ASSUME Types
  PROVE  /\ InQueue \in Nat
         /\ \A p \in Priority : queue[p] \in Seq(Node) /\ Len(queue[p]) \in Nat
<1>1. \A p \in Priority : queue[p] \in Seq(Node)
  BY Zenon DEF Types, SharedTypes
<1>2. \A p \in Priority : Len(queue[p]) \in Nat
  BY Zenon, <1>1, LenProperties
<1>3. "high" \in Priority /\ "normal" \in Priority
  BY Zenon DEF Priority
<1>4. Len(queue["high"]) \in Nat /\ Len(queue["normal"]) \in Nat
  BY Zenon, <1>2, <1>3
<1>5. InQueue \in Nat
  <2>1. \A m, n \in Nat : m + n \in Nat
    OBVIOUS
  <2> QED
    BY <1>4, <2>1, Zenon DEF InQueue
<1> QED
  BY Zenon, <1>1, <1>2, <1>5

\* When one of them gets shorter or longer, so does InQueue.
LEMMA InQueueChange ==
  ASSUME Types, NEW p \in Priority, NEW q, Len(q) \in Nat,
         queue' = [queue EXCEPT ![p] = q]
  PROVE  InQueue' = InQueue - Len(queue[p]) + Len(q)
<1>1. DOMAIN queue = Priority
  BY Zenon DEF Types, SharedTypes
<1>2. Len(queue["high"]) \in Nat /\ Len(queue["normal"]) \in Nat
  BY Zenon, InQueueType DEF Priority
<1>3. CASE p = "high"
  BY <1>1, <1>2, <1>3 DEF InQueue, Priority
<1>4. CASE p = "normal"
  BY SMTT(30), <1>1, <1>2, <1>4 DEF InQueue, Priority
<1> QED  BY Zenon, <1>3, <1>4 DEF Priority

\* What the steps of the two queues do to the number of messages in them.
LEMMA QueueSteps ==
  ASSUME Types
  PROVE  /\ \A s \in Senders : Push(s) =>
              /\ queue' = [queue EXCEPT ![prio[s]] = Swap(@, Current(s))]
              /\ InQueue' = InQueue + 1
         /\ \A s \in Senders : PushLink(s) =>
              /\ queue' = [queue EXCEPT ![prio[s]] = Link(@, Current(s))]
              /\ InQueue' = InQueue
         /\ \A p \in Priority : NextMessage(p) =>
              \/ /\ Data(queue[p]) /\ queue' = [queue EXCEPT ![p] = Tail(@)]
                 /\ InQueue' = InQueue - 1
              \/ Empty(queue[p]) /\ queue' = queue /\ InQueue' = InQueue
<1>1. ASSUME NEW s \in Senders
      PROVE  /\ prio[s] \in Priority /\ queue[prio[s]] \in Seq(Node) /\ Current(s) \in Msg
             /\ Len(queue[prio[s]]) \in Nat
             /\ Len(Swap(queue[prio[s]], Current(s))) = Len(queue[prio[s]]) + 1
             /\ Len(Link(queue[prio[s]], Current(s))) = Len(queue[prio[s]])
             /\ Len(Swap(queue[prio[s]], Current(s))) \in Nat
  <2>1. prio[s] \in Priority /\ queue[prio[s]] \in Seq(Node) /\ Current(s) \in Msg
    BY Zenon, CurrentType DEF Types, SenderTypes, SharedTypes
  <2>2. Len(queue[prio[s]]) \in Nat
    BY Zenon, <2>1, LenProperties
  <2>3. /\ Len(Swap(queue[prio[s]], Current(s))) = Len(queue[prio[s]]) + 1
        /\ Len(Link(queue[prio[s]], Current(s))) = Len(queue[prio[s]])
    BY ZenonT(30), <2>1, SwapType, LinkType DEF Node
  <2> QED
    BY SMTT(30), <2>1, <2>2, <2>3
<1>2. ASSUME NEW s \in Senders, Push(s)
      PROVE  /\ queue' = [queue EXCEPT ![prio[s]] = Swap(@, Current(s))]
             /\ InQueue' = InQueue + 1
  <2>1. queue' = [queue EXCEPT ![prio[s]] = Swap(queue[prio[s]], Current(s))]
    BY Zenon, <1>2 DEF Push, QueuePushAndSignal
  <2>2. InQueue' = InQueue - Len(queue[prio[s]]) + Len(Swap(queue[prio[s]], Current(s)))
    BY ZenonT(30), <1>1, <2>1, InQueueChange
  <2> QED
    BY <1>1, <2>1, <2>2, InQueueType
<1>3. ASSUME NEW s \in Senders, PushLink(s)
      PROVE  /\ queue' = [queue EXCEPT ![prio[s]] = Link(@, Current(s))]
             /\ InQueue' = InQueue
  <2>1. queue' = [queue EXCEPT ![prio[s]] = Link(queue[prio[s]], Current(s))]
    BY Zenon, <1>3 DEF PushLink, QueuePushAndSignal
  <2>2. InQueue' = InQueue - Len(queue[prio[s]]) + Len(Link(queue[prio[s]], Current(s)))
    BY ZenonT(30), <1>1, <2>1, InQueueChange
  <2> QED
    BY SMTT(30), <1>1, <2>1, <2>2, InQueueType
<1>4. ASSUME NEW p \in Priority, NextMessage(p)
      PROVE  \/ /\ Data(queue[p]) /\ queue' = [queue EXCEPT ![p] = Tail(@)]
                /\ InQueue' = InQueue - 1
             \/ Empty(queue[p]) /\ queue' = queue /\ InQueue' = InQueue
  <2>1. CASE Data(queue[p])
    <3>1. queue[p] \in Seq(Node) /\ queue[p] # <<>>
      BY Zenon, <2>1, InQueueType DEF Data
    <3>2. Len(Tail(queue[p])) = Len(queue[p]) - 1 /\ Len(Tail(queue[p])) \in Nat
      BY Zenon, <3>1, HeadTailProperties, LenProperties
    <3>3. queue' = [queue EXCEPT ![p] = Tail(queue[p])]
      BY Zenon, <1>4, <3>1 DEF NextMessage, Empty
    <3>4. InQueue' = InQueue - Len(queue[p]) + Len(Tail(queue[p]))
      BY ZenonT(30), <3>2, <3>3, InQueueChange
    <3> QED
      BY <2>1, <3>2, <3>3, <3>4, InQueueType
  <2>2. CASE ~Data(queue[p])
    BY ZenonT(30), <1>4, <2>2 DEF NextMessage, InQueue
  <2> QED  BY Zenon, <2>1, <2>2
<1> QED  BY Zenon, SMTT(30), <1>2, <1>3, <1>4

\* A buffer with something of a priority has something.
LEMMA FrontNotEmpty ==
  ASSUME NEW b, ~BufferEmpty(b)
  PROVE  b[FrontPriority(b)] # <<>>
BY SMTT(30) DEF BufferEmpty, FrontPriority, Priority

\* try_send_buffered only goes on with a buffer that has a message of that priority.
LEMMA FlushStep ==
  ASSUME Types, FlushHasMessage, Next
  PROVE  FlushHasMessage'
<1>0. pc \in [Senders -> Calls] /\ prio \in [Senders -> Priority] /\ DOMAIN buf = Senders
  BY Zenon, SMTT(30) DEF Types, SenderTypes
<1> USE DEF FlushHasMessage, Goto
<1>1. ASSUME NEW s \in Senders, NEW p \in Priority,
             AsyncSend(s, p) \/ TrySend(s, p) \/ UnboundedSend(s, p)
      PROVE  FlushHasMessage'
  BY ZenonT(30), <1>1 DEF AsyncSend, TrySend, UnboundedSend, shared
<1>2. ASSUME NEW s \in Senders, NEW p \in Priority, BufferPush(s, p)
      PROVE  FlushHasMessage'
  <2>1. /\ pc[s] \notin {"ready", "inc"} /\ UNCHANGED <<kind, pc, prio>>
        /\ \A t \in Senders : t # s => buf'[t] = buf[t]
    BY Zenon, SMTT(30), <1>0, <1>2 DEF BufferPush
  <2> QED  BY Zenon, SMTT(30), <1>0, <2>1
<1>3. ASSUME NEW s \in Senders, BufferTrySend(s)
      PROVE  FlushHasMessage'
  <2>1. buf[s][FrontPriority(buf[s])] # <<>>
    BY Zenon, SMTT(30), <1>3, FrontNotEmpty DEF BufferTrySend
  <2>2. /\ prio' = [prio EXCEPT ![s] = FrontPriority(buf[s])] /\ pc' = [pc EXCEPT ![s] = "ready"]
        /\ UNCHANGED <<kind, buf>>
    BY Zenon, <1>3 DEF BufferTrySend
  <2> QED  BY Zenon, SMTT(30), <1>0, <2>1, <2>2
<1>4. ASSUME NEW s \in Senders, DropSender(s)
      PROVE  FlushHasMessage'
  <2>1. /\ UNCHANGED <<kind, prio>> /\ \A t \in Senders : t # s => buf'[t] = buf[t]
        /\ \E l \in {"idle", "closewake"} : pc' = [pc EXCEPT ![s] = l]
    BY Zenon, SMTT(30), <1>0, <1>4 DEF DropSender, SetClosed
  <2> QED  BY Zenon, SMTT(30), <1>0, <2>1
<1>5. ASSUME NEW s \in Senders, CloseChannel(s) \/ CloseWake(s) \/ Repoll(s) \/ Park(s)
      PROVE  FlushHasMessage'
  <2>1. UNCHANGED <<kind, prio, buf>>
    BY Zenon, SMTT(30), <1>5 DEF CloseChannel, CloseWake, Repoll, Park
  <2>2. \/ \E l \in Calls \ {"ready", "inc"} : pc' = [pc EXCEPT ![s] = l]
        \/ kind # "buffered"
    BY Zenon, SMTT(30), <1>5 DEF CloseChannel, SetClosed, CloseWake, Repoll, Park, Calls, Counted
  <2> QED  BY Zenon, SMTT(30), <1>0, <2>1, <2>2
<1>6. ASSUME NEW s \in Senders, PollReady(s)
      PROVE  FlushHasMessage'
  <2>1. CASE is_open
    BY ZenonT(30), <1>0, <1>6, <2>1 DEF PollReady, PollUnparked, shared
  <2>2. CASE ~is_open
    <3>1. /\ UNCHANGED <<kind, prio>> /\ \A t \in Senders : t # s => buf'[t] = buf[t]
          /\ pc' = [pc EXCEPT ![s] = "idle"]
      BY Zenon, SMTT(30), <1>0, <1>6, <2>2 DEF PollReady, Fail
    <3> QED  BY Zenon, <1>0, <3>1
  <2> QED  BY Zenon, SMTT(30), <2>1, <2>2
<1>7. ASSUME NEW s \in Senders, DoSendB(s) \/ DoSendNb(s)
      PROVE  FlushHasMessage'
  <2>1. /\ UNCHANGED <<kind, prio>> /\ \A t \in Senders : t # s => buf'[t] = buf[t]
        /\ \E l \in {"idle", "park", "push"} : pc' = [pc EXCEPT ![s] = l]
    BY Zenon, SMTT(30), <1>0, <1>7 DEF DoSendB, DoSendNb, Fail
  <2> QED  BY Zenon, SMTT(30), <1>0, <2>1
<1>8. ASSUME NEW s \in Senders, QueuePushAndSignal(s)
      PROVE  FlushHasMessage'
  <2>1. CASE pc[s] # "wake"
    BY Zenon, SMTT(30), <1>0, <1>8, <2>1 DEF QueuePushAndSignal
  <2>2. CASE pc[s] = "wake"
    <3>1. /\ UNCHANGED <<kind, buf>> /\ prio' = [prio EXCEPT ![s] = FrontPriority(buf[s])]
          /\ pc' = [pc EXCEPT ![s] = IF BufferEmpty(buf[s]) THEN "idle" ELSE "ready"]
      BY Zenon, SMTT(30), <1>8, <2>2 DEF QueuePushAndSignal
    <3> QED  BY Zenon, SMTT(30), <1>0, <3>1, FrontNotEmpty
  <2> QED  BY Zenon, SMTT(30), <2>1, <2>2
<1>9. ASSUME NEW s \in Senders, NEW t \in Senders, Clone(s, t)
      PROVE  FlushHasMessage'
  BY ZenonT(30), <1>9 DEF Clone
<1>10. CASE ReceiverStep \/ \E drop \in BOOLEAN : ReceiverClose(drop)
  <2>1. UNCHANGED <<kind, pc, prio, buf>>
    BY Zenon, SMTT(30), <1>10 DEF ReceiverStep, NextMessage, UnparkOne, DecNumMessages, CheckState, Register,
                 CloseNotify, ReceiverClose, senders, shared
  <2> QED  BY Zenon, SMTT(30), <2>1
<1> QED
  BY ZenonT(30), <1>1, <1>2, <1>3, <1>4, <1>5, <1>6, <1>7, <1>8, <1>9, <1>10 DEF Next, SenderStep

\* What becomes of the handles when one is pushed, linked or popped.
LEMMA HandlePushed ==
  ASSUME Types, HandlesDiffer, NEW s \in Senders, ~HasHandle(s),
         parked_queue' = Swap(parked_queue, s)
  PROVE  /\ Len(parked_queue') = Len(parked_queue) + 1 /\ HandlesDiffer'
         /\ \A t \in Senders : HasHandle(t)' <=> HasHandle(t) \/ t = s
<1>1. parked_queue \in Seq([v : Senders, linked : BOOLEAN])
  BY Zenon DEF Types, SharedTypes, Handle
<1>2. Len(parked_queue) \in Nat
  BY Zenon, <1>1, LenProperties
<1>3. /\ Len(parked_queue') = Len(parked_queue) + 1
      /\ \A i \in 1 .. Len(parked_queue) : parked_queue'[i] = parked_queue[i]
      /\ parked_queue'[Len(parked_queue) + 1] = [v |-> s, linked |-> FALSE]
  BY ZenonT(30), <1>1, SwapType
<1>4. parked_queue'[Len(parked_queue) + 1].v = s
  BY SMTT(30), <1>3
<1>5. HandlesDiffer'
  BY <1>2, <1>3, <1>4 DEF HandlesDiffer, HasHandle
<1>6. ASSUME NEW t \in Senders
      PROVE  HasHandle(t)' <=> HasHandle(t) \/ t = s
  <2>1. ASSUME HasHandle(t)' PROVE HasHandle(t) \/ t = s
    BY SMTT(30), <1>2, <1>3, <1>4, <2>1 DEF HasHandle
  <2>2. ASSUME HasHandle(t) \/ t = s PROVE HasHandle(t)'
    BY SMTT(30), <1>2, <1>3, <1>4, <2>2 DEF HasHandle
  <2> QED  BY Zenon, SMTT(30), <2>1, <2>2
<1> QED  BY Zenon, <1>3, <1>5, <1>6

\* A link changes no handle.
LEMMA HandleLinked ==
  ASSUME Types, NEW s \in Senders, parked_queue' = Link(parked_queue, s)
  PROVE  /\ Len(parked_queue') = Len(parked_queue)
         /\ HandlesDiffer => HandlesDiffer'
         /\ \A t \in Senders : HasHandle(t)' <=> HasHandle(t)
<1>1. parked_queue \in Seq([v : Senders, linked : BOOLEAN])
  BY Zenon DEF Types, SharedTypes, Handle
<1>2. /\ Len(parked_queue') = Len(parked_queue)
      /\ \A i \in 1 .. Len(parked_queue) : parked_queue'[i].v = parked_queue[i].v
  BY ZenonT(30), <1>1, LinkType
<1> QED
  BY Zenon, <1>2 DEF HandlesDiffer, HasHandle

\* A pop takes the first handle, whose sender then has none.
LEMMA HandlePopped ==
  ASSUME Types, HandlesDiffer, NotifyParked
  PROVE  /\ Head(parked_queue).v \in Senders
         /\ Len(parked_queue') = Len(parked_queue) - 1
         /\ HandlesDiffer'
         /\ HasHandle(Head(parked_queue).v)
         /\ \A t \in Senders : HasHandle(t)' <=> HasHandle(t) /\ t # Head(parked_queue).v
         /\ is_parked' = [is_parked EXCEPT ![Head(parked_queue).v] = FALSE]
<1>1. parked_queue \in Seq(Handle) /\ parked_queue # <<>> /\ parked_queue' = Tail(parked_queue)
  BY Zenon DEF NotifyParked, Data, Types, SharedTypes
<1>2. /\ Len(Tail(parked_queue)) = Len(parked_queue) - 1
      /\ \A i \in 1 .. Len(Tail(parked_queue)) : Tail(parked_queue)[i] = parked_queue[i + 1]
      /\ Len(parked_queue) \in Nat /\ Len(parked_queue) >= 1
  BY SMTT(30), <1>1, HeadTailProperties, LenProperties, EmptySeq
<1>3. Head(parked_queue).v \in Senders /\ Head(parked_queue) = parked_queue[1]
  BY Zenon, NotifyTypes
<1>4. HandlesDiffer'
  BY <1>1, <1>2 DEF HandlesDiffer
<1>5. HasHandle(Head(parked_queue).v)
  BY <1>2, <1>3 DEF HasHandle
<1>6. ASSUME NEW t \in Senders
      PROVE  HasHandle(t)' <=> HasHandle(t) /\ t # Head(parked_queue).v
  <2>1. ASSUME NEW i \in 1 .. Len(parked_queue'), parked_queue'[i].v = t
        PROVE  HasHandle(t) /\ t # Head(parked_queue).v
    <3>1. i + 1 \in 1 .. Len(parked_queue) /\ parked_queue[i + 1].v = t /\ i + 1 # 1
      BY SMTT(30), <1>1, <1>2, <2>1
    <3> QED
      BY <1>2, <1>3, <3>1 DEF HasHandle, HandlesDiffer
  <2>2. ASSUME NEW i \in 1 .. Len(parked_queue), parked_queue[i].v = t,
               t # Head(parked_queue).v
        PROVE  HasHandle(t)'
    <3>1. i # 1
      BY Zenon, <1>3, <2>2
    <3>2. i - 1 \in 1 .. Len(parked_queue') /\ parked_queue'[i - 1] = parked_queue[i]
      BY SMTT(30), <1>1, <1>2, <3>1
    <3> QED
      BY Zenon, <2>2, <3>2 DEF HasHandle
  <2> QED
    BY Zenon, SMTT(30), <2>1, <2>2 DEF HasHandle
<1> QED
  BY Zenon, SMTT(30), <1>1, <1>2, <1>3, <1>4, <1>5, <1>6 DEF NotifyParked, Notify

\* Every step keeps the handles and is_parked together.
LEMMA HandlesStep ==
  ASSUME Types, SendersCounted, Handles, Next
  PROVE  Handles'
<1>0. /\ life \in [Senders -> {None, "live", "gone"}] /\ pc \in [Senders -> Calls]
      /\ maybe_parked \in [Senders -> BOOLEAN] /\ is_parked \in [Senders -> BOOLEAN]
      /\ is_open \in BOOLEAN /\ kind \in KindSet
  BY Zenon, SMTT(30) DEF Types, SenderTypes, SharedTypes
<1>1. ASSUME NEW s \in Senders, NEW l \in Outside, QuietCall(s, l)
      PROVE  Handles'
  <2>1. UNCHANGED <<kind, parked_queue, is_parked>>
    BY ZenonT(30), <1>1 DEF QuietCall
  <2>2. HandlesDiffer' /\ \A t \in Senders : HasHandle(t)' <=> HasHandle(t)
    BY Zenon, SMTT(30), <2>1 DEF Handles, HasHandle, HandlesDiffer
  <2>3. \A t \in Senders : HasHandle(t) => pc'[t] # "park" /\ life'[t] # None
    BY Zenon, SMTT(30), <1>0, <1>1 DEF QuietCall, Outside, Handles, None
  <2>4. is_open' => is_open
    BY ZenonT(30), <1>1 DEF QuietCall
  <2>5. ASSUME is_open, NEW t \in Senders, HasHandle(t)
        PROVE  \/ pc'[t] \in {"parklink", "parkcheck"}
               \/ maybe_parked'[t] /\ pc'[t] # "inc"
    <3>1. CASE t = s
      <4>1. maybe_parked[s] /\ is_parked[s] /\ Bounded
        BY SMTT(30), <1>1, <2>5, <3>1 DEF QuietCall, Outside, Handles, Bounded, HasHandle
      <4> QED
        BY Zenon, SMTT(30), <1>0, <1>1, <3>1, <4>1 DEF QuietCall
    <3>2. CASE t # s
      BY SMTT(30), <1>0, <1>1, <2>5, <3>2 DEF QuietCall, Handles
    <3> QED  BY Zenon, SMTT(30), <3>1, <3>2
  <2>6. kind = "unbounded" =>
          \A t \in Senders : pc'[t] \notin {"park", "parklink", "parkcheck"}
    BY Zenon, SMTT(30), <1>0, <1>1 DEF QuietCall, Outside, Handles
  <2> QED
    BY Zenon, SMTT(30), <2>1, <2>2, <2>3, <2>4, <2>5, <2>6 DEF Handles
<1>2. ASSUME NEW s \in Senders, NEW t \in Senders, Clone(s, t)
      PROVE  Handles'
  <2>1. /\ UNCHANGED <<kind, is_open, parked_queue, is_parked, maybe_parked, pc>>
        /\ life' = [life EXCEPT ![t] = "live"]
    BY Zenon, SMTT(30), <1>2 DEF Clone
  <2> QED
    BY SMTT(30), <1>0, <2>1 DEF Handles, HasHandle, HandlesDiffer, None
<1>3. ASSUME NEW s \in Senders, NEW l \in {"park", "push"}, StartSend(s, l)
      PROVE  Handles'
  <2>1. /\ UNCHANGED <<kind, is_open, parked_queue, is_parked, maybe_parked, life>>
        /\ pc[s] = "inc" /\ is_open /\ pc' = [pc EXCEPT ![s] = l]
        /\ kind = "unbounded" => l = "push"
    BY Zenon, SMTT(30), <1>3 DEF StartSend, Bounded
  <2>2. ~HasHandle(s)
    BY Zenon, SMTT(30), <2>1 DEF Handles
  <2> QED
    BY SMTT(30), <1>0, <2>1, <2>2 DEF Handles, HasHandle, HandlesDiffer
<1>4. ASSUME NEW s \in Senders, ParkPush(s)
      PROVE  Handles'
  <2>1. /\ UNCHANGED <<kind, is_open, maybe_parked, life>>
        /\ pc[s] = "park" /\ pc' = [pc EXCEPT ![s] = "parklink"]
        /\ is_parked' = [is_parked EXCEPT ![s] = TRUE]
        /\ parked_queue' = Swap(parked_queue, s)
    BY Zenon, SMTT(30), <1>4 DEF ParkPush, Park, Goto
  <2>2. ~HasHandle(s) /\ HandlesDiffer /\ life[s] # None /\ kind # "unbounded"
    BY Zenon, SMTT(30), <2>1 DEF Handles, SendersCounted
  <2>3. /\ HandlesDiffer'
        /\ \A t \in Senders : HasHandle(t)' <=> HasHandle(t) \/ t = s
    BY Zenon, SMTT(30), <2>1, <2>2, HandlePushed
  <2> QED
    BY Zenon, SMTT(30), <1>0, <2>1, <2>2, <2>3 DEF Handles
<1>5. ASSUME NEW s \in Senders, ParkLink(s)
      PROVE  Handles'
  <2>1. /\ UNCHANGED <<kind, is_open, is_parked, maybe_parked, life>>
        /\ pc[s] = "parklink" /\ pc' = [pc EXCEPT ![s] = "parkcheck"]
        /\ parked_queue' = Link(parked_queue, s)
    BY Zenon, SMTT(30), <1>5 DEF ParkLink, Park, Goto
  <2>2. HandlesDiffer /\ kind # "unbounded"
    BY Zenon, SMTT(30), <2>1 DEF Handles
  <2>3. HandlesDiffer' /\ \A t \in Senders : HasHandle(t)' <=> HasHandle(t)
    BY Zenon, SMTT(30), <2>1, <2>2, HandleLinked
  <2> QED
    BY Zenon, SMTT(30), <1>0, <2>1, <2>2, <2>3 DEF Handles
<1>6. ASSUME NEW s \in Senders, ParkCheck(s)
      PROVE  Handles'
  <2>1. /\ UNCHANGED <<kind, is_open, is_parked, parked_queue, life>>
        /\ pc[s] = "parkcheck" /\ pc' = [pc EXCEPT ![s] = "push"]
        /\ maybe_parked' = [maybe_parked EXCEPT ![s] = is_open]
    BY Zenon, SMTT(30), <1>6 DEF ParkCheck, Park, Goto
  <2> QED
    BY SMTT(30), <1>0, <2>1 DEF Handles, HasHandle, HandlesDiffer
<1>7. ASSUME NEW s \in Senders, Push(s) \/ PushLink(s) \/ Signal(s)
      PROVE  Handles'
  <2>1. /\ UNCHANGED <<kind, is_open, is_parked, parked_queue, maybe_parked, life>>
        /\ pc[s] \in {"push", "link", "wake"}
        /\ \E l \in {"link", "wake", "idle", "ready"} : pc' = [pc EXCEPT ![s] = l]
    BY ZenonT(30), <1>7 DEF Push, PushLink, Signal, QueuePushAndSignal, Goto
  <2> QED
    BY SMTT(30), <1>0, <2>1 DEF Handles, HasHandle, HandlesDiffer
<1>8. CASE NotifyParked /\ UNCHANGED <<kind, is_open, maybe_parked, pc, life>>
  <2>1. HandlesDiffer
    BY Zenon, SMTT(30) DEF Handles
  <2>2. /\ Head(parked_queue).v \in Senders /\ HandlesDiffer'
        /\ HasHandle(Head(parked_queue).v)
        /\ \A t \in Senders : HasHandle(t)' <=> HasHandle(t) /\ t # Head(parked_queue).v
        /\ is_parked' = [is_parked EXCEPT ![Head(parked_queue).v] = FALSE]
    BY Zenon, SMTT(30), <1>8, <2>1, HandlePopped
  <2>3. kind # "unbounded"
    BY Zenon, SMTT(30), <1>8 DEF NotifyParked, Data, Handles
  <2> QED
    BY ZenonT(30), <1>0, <1>8, <2>2, <2>3 DEF Handles
<1>9. CASE (is_open' => is_open) /\ UNCHANGED <<kind, is_parked, parked_queue, maybe_parked, pc, life>>
  BY Zenon, <1>9 DEF Handles, HasHandle, HandlesDiffer
<1>10. CASE ReceiverStep \/ \E drop \in BOOLEAN : ReceiverClose(drop)
  <2>1. /\ is_open' => is_open
        /\ UNCHANGED <<kind, maybe_parked, pc, life>>
        /\ (NotifyParked /\ UNCHANGED is_open) \/ UNCHANGED <<parked_queue, is_parked>>
    BY <1>10 DEF ReceiverStep, NextMessage, UnparkOne, DecNumMessages, CheckState, Register,
                CloseNotify, ReceiverClose, senders, shared
  <2> QED
    BY Zenon, SMTT(30), <1>8, <1>9, <2>1
<1> QED
  BY Zenon, SMTT(30), <1>1, <1>2, <1>3, <1>4, <1>5, <1>6, <1>7, <1>10, Steps

\* close() drains after it closed, and the end of the stream comes when nothing is left.
Ends == (rpc = "drain" => ~is_open) /\ (rpc = "done" => is_closed)

\* A channel that is closed stays so, and nothing is counted in a closed channel.
LEMMA EndsStep ==
  ASSUME Types, Ends, Next
  PROVE  Ends'
<1> USE DEF Ends, is_closed
<1>1. ASSUME NEW s \in Senders, NEW l \in Outside, QuietCall(s, l)
      PROVE  Ends'
  BY SMTT(30), <1>1 DEF QuietCall
<1>2. ASSUME NEW s \in Senders, NEW t \in Senders, Clone(s, t)
      PROVE  Ends'
  BY Zenon, SMTT(30), <1>2 DEF Clone, receiver
<1>3. ASSUME NEW s \in Senders, NEW l \in {"park", "push"}, StartSend(s, l)
      PROVE  Ends'
  BY Zenon, SMTT(30), <1>3 DEF StartSend, receiver
<1>4. ASSUME NEW s \in Senders, ParkPush(s) \/ ParkLink(s) \/ ParkCheck(s)
      PROVE  Ends'
  BY SMTT(30), <1>4 DEF ParkPush, ParkLink, ParkCheck, Park, receiver
<1>5. ASSUME NEW s \in Senders, Push(s) \/ PushLink(s) \/ Signal(s)
      PROVE  Ends'
  BY <1>5 DEF Push, PushLink, Signal, QueuePushAndSignal
<1>6. ASSUME NEW drop \in BOOLEAN, ReceiverClose(drop)
      PROVE  Ends'
  BY Zenon, SMTT(30), <1>6 DEF ReceiverClose
<1>7. CASE ReceiverStep
  BY <1>7 DEF ReceiverStep, NextMessage, PopFailed, UnparkOne, DecNumMessages, CheckState, Register,
              CloseNotify, shared
<1> QED
  BY Zenon, SMTT(30), <1>1, <1>2, <1>3, <1>4, <1>5, <1>6, <1>7, Steps

\* Which steps may change what the receiver looks for, and its waker.
LEMMA WakesStep ==
  ASSUME Types, Wakes, Next
  PROVE  Wakes'
<1>0. /\ pc \in [Senders -> Calls] /\ prio \in [Senders -> Priority]
      /\ recv_woken \in BOOLEAN /\ recv_task \in BOOLEAN /\ second \in BOOLEAN
      /\ \A p \in Priority : queue[p] \in Seq(Node)
      /\ DOMAIN queue = Priority
  BY Zenon DEF Types, SenderTypes, SharedTypes, ReceiverTypes
<1>1. ASSUME NEW s \in Senders, NEW l \in Outside, QuietCall(s, l)
      PROVE  Wakes'
  <2>1. /\ UNCHANGED <<queue, rpc, second, num_messages>> /\ pc' = [pc EXCEPT ![s] = l]
        /\ is_open' = is_open \/ l = "closewake"
        /\ pc[s] # "wake"
        /\ IF pc[s] = "closewake"
           THEN recv_woken' = (recv_woken \/ recv_task)
           ELSE UNCHANGED <<recv_task, recv_woken>>
    BY ZenonT(30), <1>1 DEF QuietCall, WakeReceiver, Outside
  <2>2. CASE pc[s] = "closewake"
    BY Zenon, SMTT(30), <1>0, <2>1, <2>2 DEF Wakes, Looked
  <2>3. CASE pc[s] # "closewake"
    <3>1. \A t \in Senders : pc[t] = "wake" => pc'[t] = "wake"
      BY Zenon, SMTT(30), <1>0, <2>1
    <3>2. is_closed' /\ ~is_closed => \E t \in Senders : pc'[t] = "closewake"
      BY ZenonT(30), <1>0, <2>1 DEF is_closed
    <3>3. \A t \in Senders : pc[t] = "closewake" => pc'[t] = "closewake"
      BY Zenon, SMTT(30), <1>0, <2>1, <2>3
    <3> QED
      BY Zenon, SMTT(30), <1>0, <2>1, <2>3, <3>1, <3>2, <3>3 DEF Wakes, Looked
  <2> QED  BY Zenon, SMTT(30), <2>2, <2>3
<1>2. CASE /\ UNCHANGED <<queue, rpc, second, recv_task, recv_woken, is_open, num_messages>>
           /\ \A t \in Senders : pc[t] \in {"wake", "closewake"} => pc'[t] = pc[t]
  BY Zenon, SMTT(30), <1>2 DEF Wakes, Looked, is_closed
<1>3. ASSUME NEW s \in Senders, NEW t \in Senders, Clone(s, t)
      PROVE  Wakes'
  BY Zenon, SMTT(30), <1>2, <1>3 DEF Clone, receiver
<1>4. ASSUME NEW s \in Senders, NEW l \in {"park", "push"}, StartSend(s, l)
      PROVE  Wakes'
  <2>1. /\ UNCHANGED <<queue, rpc, second, recv_task, recv_woken, is_open>> /\ is_open
        /\ pc[s] = "inc" /\ pc' = [pc EXCEPT ![s] = l]
    BY ZenonT(30), <1>4 DEF StartSend, receiver
  <2> QED
    BY Zenon, SMTT(30), <1>0, <2>1 DEF Wakes, Looked, is_closed
<1>5. ASSUME NEW s \in Senders, ParkPush(s) \/ ParkLink(s) \/ ParkCheck(s)
      PROVE  Wakes'
  <2>1. /\ UNCHANGED <<queue, rpc, second, recv_task, recv_woken, is_open, num_messages>>
        /\ pc[s] \in {"park", "parklink", "parkcheck"}
        /\ \E l \in Calls : pc' = [pc EXCEPT ![s] = l]
    BY Zenon, SMTT(30), <1>5 DEF ParkPush, ParkLink, ParkCheck, Park, Goto, receiver, Calls, Counted
  <2> QED
    BY Zenon, SMTT(30), <1>0, <1>2, <2>1
<1>6. ASSUME NEW s \in Senders, Push(s)
      PROVE  Wakes'
  <2>1. /\ UNCHANGED <<rpc, second, recv_task, recv_woken, is_open, num_messages>>
        /\ pc[s] = "push" /\ pc' = [pc EXCEPT ![s] = "link"]
        /\ queue' = [queue EXCEPT ![prio[s]] = Swap(queue[prio[s]], Current(s))]
    BY Zenon, SMTT(30), <1>6 DEF Push, QueuePushAndSignal, Goto
  <2>2. \A p \in Priority : Data(queue'[p]) => Data(queue[p])
    BY SMTT(30), <1>0, <2>1, HeadTailAppend DEF Data, Swap
  <2> QED
    BY Zenon, SMTT(30), <1>0, <2>1, <2>2 DEF Wakes, Looked, is_closed
<1>7. ASSUME NEW s \in Senders, PushLink(s)
      PROVE  Wakes'
  <2>1. /\ UNCHANGED <<rpc, second, recv_task, recv_woken, is_open, num_messages>>
        /\ pc[s] = "link" /\ pc' = [pc EXCEPT ![s] = "wake"]
    BY Zenon, SMTT(30), <1>7 DEF PushLink, QueuePushAndSignal, Goto
  <2> QED
    BY Zenon, SMTT(30), <1>0, <2>1 DEF Wakes, Looked, is_closed
<1>8. ASSUME NEW s \in Senders, Signal(s)
      PROVE  Wakes'
  <2>1. /\ UNCHANGED <<queue, rpc, second, is_open, num_messages>>
        /\ recv_woken' = (recv_woken \/ recv_task)
        /\ pc[s] = "wake" /\ \E l \in Calls : pc' = [pc EXCEPT ![s] = l]
    BY Zenon, SMTT(30), <1>8 DEF Signal, QueuePushAndSignal, Goto, WakeReceiver, Calls
  <2> QED
    BY Zenon, SMTT(30), <1>0, <2>1 DEF Wakes, Looked
<1>9. ASSUME NEW drop \in BOOLEAN, ReceiverClose(drop)
      PROVE  Wakes'
  BY ZenonT(30), <1>9 DEF ReceiverClose, Wakes, Looked
<1>10. ASSUME NEW p \in Priority, NextMessage(p)
      PROVE  Wakes'
  <2>1. UNCHANGED <<recv_task, pc, is_open, num_messages>> /\ rpc' # "asleep"
    BY Zenon, SMTT(30), <1>10 DEF NextMessage, PopFailed, senders
  <2>2. CASE Data(queue[p])
    <3>1. second' = FALSE
      BY Zenon, <1>10, <2>2 DEF NextMessage, Data, Empty
    <3> QED
      BY Zenon, SMTT(30), <2>1, <3>1 DEF Wakes, Looked
  <2>3. CASE ~Data(queue[p])
    <3>1. /\ Empty(queue[p]) /\ UNCHANGED <<queue, second>> /\ rpc' = PopFailed(p) /\ PopAt(p)
          /\ recv_woken' = (recv_woken /\ ~Polls)
      BY Zenon, <1>10, <2>3 DEF NextMessage
    <3>2. second => ~Polls
      BY Zenon DEF Wakes, Polls
    <3>3. CASE second
      <4>1. recv_woken' = recv_woken
        BY Zenon, SMTT(30), <1>0, <3>1, <3>2, <3>3
      <4>2. CASE p = "high"
        BY SMTT(30), <2>1, <3>1, <3>3, <4>1, <4>2 DEF Wakes, Looked, PopFailed, Data, Empty, Priority
      <4>3. CASE p = "normal"
        BY SMTT(30), <2>1, <3>1, <3>3, <4>1, <4>3 DEF Wakes, Looked, PopFailed, PopAt, Data, Empty, Priority
      <4> QED  BY Zenon, <4>2, <4>3 DEF Priority
    <3>4. CASE ~second
      BY Zenon, SMTT(30), <2>1, <3>1, <3>4 DEF Wakes, Looked
    <3> QED  BY Zenon, SMTT(30), <3>3, <3>4
  <2> QED  BY Zenon, SMTT(30), <2>2, <2>3
<1>11. CASE UnparkOne \/ DecNumMessages \/ CloseNotify
  <2>1. /\ UNCHANGED second /\ rpc' # "asleep"
        /\ rpc \notin {"quick", "normal", "state"}
    BY Zenon, SMTT(30), <1>11 DEF UnparkOne, DecNumMessages, CloseNotify
  <2> QED
    BY Zenon, SMTT(30), <2>1 DEF Wakes, Looked
<1>12. CASE CheckState
  <2>1. /\ UNCHANGED <<queue, pc, is_open, num_messages, recv_task, recv_woken>>
        /\ rpc = "state" /\ second' = FALSE
        /\ rpc' = "asleep" => second /\ ~is_closed
    BY Zenon, SMTT(30), <1>12 DEF CheckState, shared, senders
  <2> QED
    BY Zenon, SMTT(30), <2>1 DEF Wakes, Looked, is_closed
<1>13. CASE Register
  BY Zenon, <1>13 DEF Register, Wakes, Looked
<1> QED
  BY Zenon, SMTT(30), <1>1, <1>3, <1>4, <1>5, <1>6, <1>7, <1>8, <1>9, <1>10, <1>11, <1>12, <1>13, Steps
     DEF ReceiverStep

(***************************************************************************)
(* Every step keeps the messages of one sender and one priority in order,  *)
(* with none missing, from the sender's buffer over the queue to what the  *)
(* receiver returned.                                                      *)
(***************************************************************************)

\* A link never hides a message that could be popped.
LEMMA LinkKeepsData ==
  ASSUME NEW S, NEW q \in Seq([v : S, linked : BOOLEAN]), NEW v \in S, Data(q)
  PROVE  Data(Link(q, v))
<1>0. q # <<>> /\ Len(q) \in Nat /\ Len(q) # 0
  BY Zenon, LenProperties, EmptySeq DEF Data
<1>1. /\ 1 \in 1 .. Len(q) /\ Len(q) >= 1 /\ Head(q) = q[1]
  BY <1>0
<1>6. q[1] \in [v : S, linked : BOOLEAN]
  BY ZenonT(30), <1>1, ElementOfSeq
<1>5. q[1].linked
  BY Zenon, <1>1 DEF Data
<1>2. Link(q, v) \in Seq([v : S, linked : BOOLEAN]) /\ Len(Link(q, v)) = Len(q)
  BY ZenonT(30), LinkType
<1>3. Link(q, v) # <<>> /\ Head(Link(q, v)) = Link(q, v)[1]
  BY <1>0, <1>1, <1>2, EmptySeq
<1>4. Link(q, v)[1].linked
  BY Zenon, SMTT(30), <1>0, <1>1, <1>5, <1>6, LenProperties DEF Link
<1> QED
  BY Zenon, <1>3, <1>4 DEF Data

\* The order of the messages.
GotTypes == got \in [Senders -> [Priority -> Seq(Int)]]

\* What s has given away of priority p, if it lost nothing.
Top(s, p) == made[s][p] - Len(buf[s][p])
\* The senders for which that is so: of a channel that is open, or in the middle of a send.
Sound(s) == (is_open /\ life[s] # "gone") \/ pc[s] \in Counted \cup {"link"}
\* Message n of s is in queue p or about to be pushed there.
Way(s, p, n) ==
  \/ \E i \in 1 .. Len(queue[p]) : queue[p][i].v.from = s /\ queue[p][i].v.n = n
  \/ s \in UnderWay /\ prio[s] = p /\ n = Current(s).n

\* The message the receiver holds is the next of its sender,
PoppedIsNext(s, p) ==
  \A i \in 1 .. Len(msg) :
    msg[i].from = s /\ msg[i].prio = p => msg[i].n = Len(got[s][p]) + 1
\* and in a queue the messages of a sender stand in the order in which it made them, before
\* the one it is about to push.
Ascending(s, p) ==
  \A j \in 1 .. Len(queue[p]) :
    queue[p][j].v.from = s =>
      /\ \A i \in 1 .. j - 1 :
           queue[p][i].v.from = s => queue[p][i].v.n < queue[p][j].v.n
      /\ s \in UnderWay /\ prio[s] = p => queue[p][j].v.n < Current(s).n
\* What is on the way goes on where the receiver is, up to some k, without a gap.
Contiguous(s, p) ==
  \E k \in Int :
    /\ k >= Taken(s, p)
    /\ \A n \in Int : Way(s, p, n) <=> n \in Taken(s, p) + 1 .. k
    /\ Sound(s) => k = Top(s, p)
\* The order of the messages of s with priority p.
Fifo(s, p) ==
  /\ got[s][p] = Upto(Len(got[s][p])) /\ PoppedIsNext(s, p)
  /\ Ascending(s, p) /\ Contiguous(s, p)
\* While the receiver is not dropped with messages in its queues.
Fifos == ~dropping => \A s \in Senders, p \in Priority : Fifo(s, p)

\* A buffer holds the last messages put in, in their order.
Numbered(b, m) == \A i \in 1 .. Len(b) : b[i] = m - Len(b) + i
Buffers ==
  \A s \in Senders, p \in Priority :
    (kind # "buffered" => buf[s][p] = <<>>) /\ Numbered(buf[s][p], made[s][p])

\* A normal message has overtaken a high one only between two polls, and the high one
\* can be popped.
Overtakes ==
  /\ overtaken \in {0, 1}
  /\ overtaken = 1 =>
       Data(queue["high"]) /\ rpc \in {"unpark", "dec", "idle", "drain", "quick"}

\* A normal message is returned before a high one only if the high one came in between.
LEMMA OvertakesStep ==
  ASSUME Types, Overtakes, Next
  PROVE  Overtakes'
<1>0. /\ DOMAIN queue = Priority /\ \A p \in Priority : queue[p] \in Seq(Node)
      /\ prio \in [Senders -> Priority] /\ "high" \in Priority
  BY Zenon DEF Types, SenderTypes, SharedTypes, Priority
<1>1. CASE UNCHANGED <<overtaken, rpc>> /\ (Data(queue["high"]) => Data(queue'["high"]))
  BY Zenon, SMTT(30), <1>1 DEF Overtakes
<1>2. ASSUME NEW s \in Senders, NEW l \in Outside, QuietCall(s, l)
      PROVE  Overtakes'
  BY Zenon, <1>1, <1>2 DEF QuietCall
<1>3. ASSUME NEW s \in Senders, NEW t \in Senders, Clone(s, t)
      PROVE  Overtakes'
  BY Zenon, SMTT(30), <1>1, <1>3 DEF Clone, receiver
<1>4. ASSUME NEW s \in Senders, NEW l \in {"park", "push"}, StartSend(s, l)
      PROVE  Overtakes'
  BY Zenon, SMTT(30), <1>1, <1>4 DEF StartSend, receiver
<1>5. ASSUME NEW s \in Senders, ParkPush(s) \/ ParkLink(s) \/ ParkCheck(s)
      PROVE  Overtakes'
  BY Zenon, <1>1, <1>5 DEF ParkPush, ParkLink, ParkCheck, Park, receiver
<1>6. ASSUME NEW s \in Senders, Push(s)
      PROVE  Overtakes'
  <2>1. /\ UNCHANGED <<overtaken, rpc>>
        /\ queue' = [queue EXCEPT ![prio[s]] = Swap(queue[prio[s]], Current(s))]
    BY ZenonT(30), <1>6 DEF Push, QueuePushAndSignal
  <2>2. Data(queue["high"]) => Data(queue'["high"])
    BY SMTT(30), <1>0, <2>1, HeadTailAppend, AppendProperties, CurrentType DEF Data, Swap, Node
  <2> QED  BY Zenon, SMTT(30), <1>1, <2>1, <2>2
<1>7. ASSUME NEW s \in Senders, PushLink(s)
      PROVE  Overtakes'
  <2>1. /\ UNCHANGED <<overtaken, rpc>>
        /\ queue' = [queue EXCEPT ![prio[s]] = Link(queue[prio[s]], Current(s))]
    BY Zenon, <1>7 DEF PushLink, QueuePushAndSignal
  <2>2. ASSUME NEW q \in Seq(Node), Data(q)
        PROVE  Data(Link(q, Current(s)))
    BY Zenon, <2>2, LinkKeepsData, CurrentType DEF Node
  <2>3. Data(queue["high"]) => Data(queue'["high"])
    BY Zenon, SMTT(30), <1>0, <2>1, <2>2
  <2> QED  BY Zenon, <1>1, <2>1, <2>3
<1>8. ASSUME NEW s \in Senders, Signal(s)
      PROVE  Overtakes'
  BY Zenon, SMTT(30), <1>1, <1>8 DEF Signal, QueuePushAndSignal
<1>9. ASSUME NEW drop \in BOOLEAN, ReceiverClose(drop)
      PROVE  Overtakes'
  BY Zenon, <1>9 DEF ReceiverClose, Overtakes
<1>10. ASSUME NEW p \in Priority, NextMessage(p)
       PROVE  Overtakes'
  <2>1. CASE p = "high"
    <3>1. CASE Data(queue[p])
      BY SMTT(30), <1>10, <2>1, <3>1 DEF NextMessage, Overtakes, Data, Empty
    <3>2. CASE ~Data(queue[p])
      <4>0. Empty(queue[p]) /\ queue' = queue
        BY Zenon, SMTT(30), <1>10, <3>2 DEF NextMessage
      <4>1. UNCHANGED <<queue, overtaken>> /\ Empty(queue[p])
        BY Zenon, <1>10, <4>0 DEF NextMessage
      <4> QED
        BY Zenon, SMTT(30), <2>1, <4>1 DEF Overtakes, Data, Empty
    <3> QED  BY Zenon, SMTT(30), <3>1, <3>2
  <2>2. CASE p = "normal"
    <3>1. overtaken = 0 /\ rpc = "normal"
      BY Zenon, <1>10, <2>2 DEF NextMessage, PopAt, Overtakes
    <3>2. CASE Data(queue[p])
      <4>1. /\ rpc' \in {"unpark", "dec"} /\ queue' = [queue EXCEPT ![p] = Tail(@)]
            /\ overtaken' = IF Data(queue["high"]) THEN 1 ELSE 0
        BY SMTT(30), <1>10, <2>2, <3>1, <3>2 DEF NextMessage, Data, Empty
      <4>2. queue'["high"] = queue["high"]
        BY Zenon, SMTT(30), <1>0, <2>2, <4>1
      <4> QED
        BY Zenon, SMTT(30), <4>1, <4>2 DEF Overtakes
    <3>3. CASE ~Data(queue[p])
      <4>0. Empty(queue[p])
        BY Zenon, SMTT(30), <1>10, <3>3 DEF NextMessage
      <4>1. overtaken' = overtaken
        BY Zenon, SMTT(30), <1>10, <4>0 DEF NextMessage
      <4> QED
        BY Zenon, SMTT(30), <3>1, <4>1 DEF Overtakes
    <3> QED  BY Zenon, SMTT(30), <3>2, <3>3
  <2> QED  BY Zenon, <2>1, <2>2 DEF Priority
<1>11. CASE UnparkOne \/ DecNumMessages \/ CheckState \/ Register \/ CloseNotify
  BY Zenon, <1>11 DEF UnparkOne, DecNumMessages, CheckState, Register, CloseNotify, shared, Overtakes
<1> QED
  BY Zenon, SMTT(30), <1>2, <1>3, <1>4, <1>5, <1>6, <1>7, <1>8, <1>9, <1>10, <1>11, Steps DEF ReceiverStep

\* Only the last step of poll_next returns a message, the one it popped.
LEMMA GotStep ==
  ASSUME Types, Counts, GotTypes, Next
  PROVE  /\ GotTypes'
         /\ rpc # "dec" => got' = got
         /\ rpc = "dec" => Len(msg) = 1 /\ msg[1] \in Msg /\ Head(msg) = msg[1]
<1>1. ASSUME rpc = "dec" PROVE Len(msg) = 1 /\ msg[1] \in Msg /\ Head(msg) = msg[1]
  <2>1. Len(msg) = 1
    BY Zenon, SMTT(30), <1>1 DEF Counts, Holds, Popped
  <2>2. msg \in Seq(Msg)
    BY Zenon, SMTT(30) DEF Types, ReceiverTypes
  <2> QED
    BY <2>1, <2>2, ElementOfSeq
<1>2. ASSUME ~DecNumMessages PROVE got' = got
  BY ZenonT(30), <1>2, Steps
     DEF ReceiverStep, NextMessage, UnparkOne, CheckState, Register, CloseNotify, ReceiverClose,
         QuietCall, Clone, StartSend, ParkPush, ParkLink, ParkCheck, Park, Push, PushLink, Signal,
         QueuePushAndSignal, receiver
<1>3. ASSUME DecNumMessages PROVE GotTypes'
  <2>1. CASE dropping
    BY Zenon, SMTT(30), <1>3, <2>1 DEF DecNumMessages, GotTypes
  <2>2. CASE ~dropping
    <3> DEFINE s == Head(msg).from
               p == Head(msg).prio
    <3>1. s \in Senders /\ p \in Priority /\ Head(msg).n \in Int
      BY Zenon, SMTT(30), <1>1, <1>3 DEF DecNumMessages, Msg
    <3>2. got' = [got EXCEPT ![s][p] = Append(@, Head(msg).n)]
      BY Zenon, SMTT(30), <1>3, <2>2 DEF DecNumMessages
    <3>3. Append(got[s][p], Head(msg).n) \in Seq(Int)
      BY <3>1, AppendProperties DEF GotTypes
    <3>4. [got[s] EXCEPT ![p] = Append(@, Head(msg).n)] \in [Priority -> Seq(Int)]
      BY Zenon, SMTT(30), <3>1, <3>3 DEF GotTypes
    <3> QED
      BY Zenon, SMTT(30), <3>1, <3>2, <3>4 DEF GotTypes
  <2> QED  BY Zenon, <2>1, <2>2
<1>4. DecNumMessages => rpc = "dec"
  BY Zenon, SMTT(30) DEF DecNumMessages
<1> QED
  BY Zenon, SMTT(30), <1>1, <1>2, <1>3, <1>4 DEF GotTypes

\* What is in the queues after a push, a link and a pop.
LEMMA QueueContents ==
  ASSUME Types
  PROVE  /\ \A s \in Senders : Push(s) =>
              LET p == prio[s] IN
              /\ \A q \in Priority \ {p} : queue'[q] = queue[q]
              /\ Len(queue'[p]) = Len(queue[p]) + 1
              /\ \A i \in 1 .. Len(queue[p]) : queue'[p][i].v = queue[p][i].v
              /\ queue'[p][Len(queue[p]) + 1].v = Current(s)
         /\ \A s \in Senders : PushLink(s) =>
              \A p \in Priority :
                /\ Len(queue'[p]) = Len(queue[p])
                /\ \A i \in 1 .. Len(queue[p]) : queue'[p][i].v = queue[p][i].v
         /\ \A p \in Priority : NextMessage(p) /\ Data(queue[p]) =>
              /\ \A q \in Priority \ {p} : queue'[q] = queue[q]
              /\ Len(queue[p]) >= 1 /\ Len(queue'[p]) = Len(queue[p]) - 1
              /\ \A i \in 1 .. Len(queue[p]) - 1 : queue'[p][i] = queue[p][i + 1]
              /\ msg' = <<queue[p][1].v>>
<1>0. /\ DOMAIN queue = Priority
      /\ \A p \in Priority : queue[p] \in Seq(Node) /\ Len(queue[p]) \in Nat
      /\ \A s \in Senders : prio[s] \in Priority /\ Current(s) \in Msg
  BY Zenon, SMTT(30), CurrentType, InQueueType DEF Types, SharedTypes, SenderTypes
<1>1. ASSUME NEW s \in Senders, Push(s)
      PROVE  LET p == prio[s] IN
             /\ \A q \in Priority \ {p} : queue'[q] = queue[q]
             /\ Len(queue'[p]) = Len(queue[p]) + 1
             /\ \A i \in 1 .. Len(queue[p]) : queue'[p][i].v = queue[p][i].v
             /\ queue'[p][Len(queue[p]) + 1].v = Current(s)
  <2> DEFINE p == prio[s]
             new == Swap(queue[p], Current(s))
  <2>1. queue' = [queue EXCEPT ![p] = new]
    BY Zenon, <1>1, QueueSteps
  <2>2. queue'[p] = new /\ \A q \in Priority \ {p} : queue'[q] = queue[q]
    BY Zenon, SMTT(30), <1>0, <2>1
  <2>3. /\ Len(new) = Len(queue[p]) + 1
        /\ \A i \in 1 .. Len(queue[p]) : new[i] = queue[p][i]
        /\ new[Len(queue[p]) + 1] = [v |-> Current(s), linked |-> FALSE]
    BY ZenonT(30), <1>0, SwapType DEF Node
  <2> HIDE DEF new
  <2> QED
    BY <2>2, <2>3
<1>2. ASSUME NEW s \in Senders, PushLink(s), NEW p \in Priority
      PROVE  /\ Len(queue'[p]) = Len(queue[p])
             /\ \A i \in 1 .. Len(queue[p]) : queue'[p][i].v = queue[p][i].v
  <2> DEFINE new == Link(queue[prio[s]], Current(s))
  <2>1. queue' = [queue EXCEPT ![prio[s]] = new]
    BY Zenon, <1>2, QueueSteps
  <2>2. /\ Len(new) = Len(queue[prio[s]])
        /\ \A i \in 1 .. Len(queue[prio[s]]) : new[i].v = queue[prio[s]][i].v
    BY ZenonT(30), <1>0, LinkType DEF Node
  <2> HIDE DEF new
  <2> QED
    BY Zenon, <1>0, <2>1, <2>2
<1>3. ASSUME NEW p \in Priority, NextMessage(p), Data(queue[p])
      PROVE  /\ \A q \in Priority \ {p} : queue'[q] = queue[q]
             /\ Len(queue[p]) >= 1 /\ Len(queue'[p]) = Len(queue[p]) - 1
             /\ \A i \in 1 .. Len(queue[p]) - 1 : queue'[p][i] = queue[p][i + 1]
             /\ msg' = <<queue[p][1].v>>
  <2> DEFINE new == Tail(queue[p])
  <2>1. queue[p] # <<>> /\ ~Empty(queue[p])
    BY Zenon, SMTT(30), <1>3 DEF Data, Empty
  <2>2. queue' = [queue EXCEPT ![p] = new] /\ msg' = <<Head(queue[p]).v>>
    BY Zenon, SMTT(30), <1>3, <2>1 DEF NextMessage
  <2>3. Len(queue[p]) >= 1 /\ Head(queue[p]) = queue[p][1]
    BY SMTT(30), <1>0, <2>1, EmptySeq
  <2>4. /\ Len(new) = Len(queue[p]) - 1
        /\ \A i \in 1 .. Len(queue[p]) - 1 : new[i] = queue[p][i + 1]
    BY Zenon, SMTT(30), <1>0, <2>1, HeadTailProperties
  <2> HIDE DEF new
  <2> QED
    BY Zenon, SMTT(30), <1>0, <2>2, <2>3, <2>4
<1> QED
  BY Zenon, SMTT(30), <1>1, <1>2, <1>3

\* The steps that touch no queue.
LEMMA QueueKept ==
  ASSUME Types, Next
  PROVE  \/ queue' = queue
         \/ \E s \in Senders : Push(s) \/ PushLink(s)
         \/ \E p \in Priority : NextMessage(p) /\ Data(queue[p])
<1>1. ASSUME NEW p \in Priority, NextMessage(p), ~Data(queue[p]) PROVE queue' = queue
  BY Zenon, <1>1 DEF NextMessage
<1> QED
  BY ZenonT(30), <1>1, Steps
     DEF ReceiverStep, UnparkOne, DecNumMessages, CheckState, Register, CloseNotify, ReceiverClose,
         QuietCall, Clone, StartSend, ParkPush, ParkLink, ParkCheck, Park, Signal,
         QueuePushAndSignal, shared

\* Every push is into the queue of the message's priority.
LEMMA QueuesByPriorityStep ==
  ASSUME Types, QueuesByPriority, Next
  PROVE  QueuesByPriority'
<1>0. \A p \in Priority : Len(queue[p]) \in Nat
  BY Zenon, InQueueType
<1>1. CASE queue' = queue
  BY Zenon, SMTT(30), <1>1 DEF QueuesByPriority
<1>2. ASSUME NEW s \in Senders, Push(s)
      PROVE  QueuesByPriority'
  <2>1. Current(s).prio = prio[s]
    BY Zenon DEF Current, Message
  <2>2. prio[s] \in Priority /\ Len(queue[prio[s]]) \in Nat
    BY Zenon, <1>0 DEF Types, SenderTypes
  <2>3. /\ \A q \in Priority \ {prio[s]} : queue'[q] = queue[q]
        /\ Len(queue'[prio[s]]) = Len(queue[prio[s]]) + 1
        /\ \A i \in 1 .. Len(queue[prio[s]]) : queue'[prio[s]][i].v = queue[prio[s]][i].v
        /\ queue'[prio[s]][Len(queue[prio[s]]) + 1].v = Current(s)
    BY Zenon, <1>2, QueueContents
  <2>4. ASSUME NEW i \in 1 .. Len(queue'[prio[s]])
        PROVE  queue'[prio[s]][i].v.prio = prio[s]
    <3>1. i \in 1 .. Len(queue[prio[s]]) \/ i = Len(queue[prio[s]]) + 1
      BY SMTT(30), <2>2, <2>3
    <3> QED
      BY Zenon, <2>1, <2>2, <2>3, <3>1 DEF QueuesByPriority
  <2>5. ASSUME NEW q \in Priority, q # prio[s], NEW i \in 1 .. Len(queue'[q])
        PROVE  queue'[q][i].v.prio = q
    BY Zenon, <2>3, <2>5 DEF QueuesByPriority
  <2> QED
    BY Zenon, <2>4, <2>5 DEF QueuesByPriority
<1>3. ASSUME NEW s \in Senders, PushLink(s)
      PROVE  QueuesByPriority'
  BY SMTT(30), <1>0, <1>3, QueueContents DEF QueuesByPriority
<1>4. ASSUME NEW p \in Priority, NextMessage(p) /\ Data(queue[p])
      PROVE  QueuesByPriority'
  <2>1. SUFFICES ASSUME NEW q \in Priority, NEW i \in 1 .. Len(queue'[q])
                 PROVE  queue'[q][i].v.prio = q
    BY Zenon DEF QueuesByPriority
  <2>2. CASE q # p
    BY SMTT(30), <1>4, <2>1, <2>2, QueueContents DEF QueuesByPriority
  <2>3. CASE q = p
    <3>1. i \in 1 .. Len(queue[p]) - 1 /\ i + 1 \in 1 .. Len(queue[p])
      BY SMTT(30), <1>0, <1>4, <2>1, <2>3, QueueContents
    <3> QED
      BY SMTT(30), <1>4, <2>3, <3>1, QueueContents DEF QueuesByPriority
  <2> QED  BY Zenon, <2>2, <2>3
<1> QED
  BY Zenon, SMTT(30), <1>1, <1>2, <1>3, <1>4, QueueKept

\* A sender that was dropped makes no call any more.
GoneIsOut == \A s \in Senders : life[s] = "gone" => pc[s] \in {"idle", "closewake"}

\* Drop of a sender ends its calls.
LEMMA GoneStep ==
  ASSUME Types, GoneIsOut, Next
  PROVE  GoneIsOut'
<1>0. /\ life \in [Senders -> {None, "live", "gone"}] /\ pc \in [Senders -> Calls]
  BY Zenon DEF Types, SenderTypes
<1> USE DEF GoneIsOut
<1>1. ASSUME NEW s \in Senders, NEW l \in Outside, QuietCall(s, l)
      PROVE  GoneIsOut'
  <2>1. /\ pc' = [pc EXCEPT ![s] = l]
        /\ life' = life \/ (life[s] = "live" /\ life' = [life EXCEPT ![s] = "gone"])
        /\ life'[s] = "gone" /\ (pc[s] \in {"idle", "closewake"} \/ life[s] = "live") =>
             l \in {"idle", "closewake"}
    BY ZenonT(30), <1>1 DEF QuietCall
  <2> QED
    BY Zenon, SMTT(30), <1>0, <2>1 DEF None
<1>2. ASSUME NEW s \in Senders, NEW t \in Senders, Clone(s, t)
      PROVE  GoneIsOut'
  BY Zenon, <1>0, <1>2 DEF Clone
<1>3. ASSUME NEW s \in Senders, NEW l, pc' = [pc EXCEPT ![s] = l], life' = life,
             pc[s] \notin {"idle", "closewake"}
      PROVE  GoneIsOut'
  BY Zenon, SMTT(30), <1>0, <1>3
<1>4. ASSUME NEW s \in Senders, NEW l \in {"park", "push"}, StartSend(s, l)
      PROVE  GoneIsOut'
  BY Zenon, SMTT(30), <1>3, <1>4 DEF StartSend
<1>5. ASSUME NEW s \in Senders, ParkPush(s) \/ ParkLink(s) \/ ParkCheck(s)
      PROVE  GoneIsOut'
  BY Zenon, SMTT(30), <1>3, <1>5 DEF ParkPush, ParkLink, ParkCheck, Park, Goto
<1>6. ASSUME NEW s \in Senders, Push(s) \/ PushLink(s) \/ Signal(s)
      PROVE  GoneIsOut'
  BY ZenonT(30), <1>3, <1>6 DEF Push, PushLink, Signal, QueuePushAndSignal, Goto
<1>7. CASE UNCHANGED <<pc, life>>
  BY Zenon, SMTT(30), <1>7
<1>8. ASSUME NEW drop \in BOOLEAN, ReceiverClose(drop)
      PROVE  GoneIsOut'
  BY ZenonT(30), <1>7, <1>8 DEF ReceiverClose, senders
<1>9. CASE ReceiverStep
  BY ZenonT(30), <1>7, <1>9 DEF ReceiverStep, NextMessage, UnparkOne, DecNumMessages, CheckState, Register,
                    CloseNotify, senders
<1> QED
  BY Zenon, SMTT(30), <1>1, <1>2, <1>4, <1>5, <1>6, <1>8, <1>9, Steps

\* A push into a buffer and a message taken out of it, one priority.
LEMMA BufferAppend ==
  ASSUME NEW b \in Seq(Nat), NEW m \in Nat, Numbered(b, m)
  PROVE  Numbered(Append(b, m + 1), m + 1)
<1>1. Len(b) \in Nat
  BY Zenon, LenProperties
<1>2. /\ Len(Append(b, m + 1)) = Len(b) + 1
      /\ \A i \in 1 .. Len(b) : Append(b, m + 1)[i] = b[i]
      /\ Append(b, m + 1)[Len(b) + 1] = m + 1
  BY AppendProperties
<1> QED
  BY <1>1, <1>2 DEF Numbered

\* A flush takes the first message out.
LEMMA BufferTail ==
  ASSUME NEW b \in Seq(Nat), NEW m \in Nat, Numbered(b, m), b # <<>>
  PROVE  Numbered(Tail(b), m)
<1>1. Len(b) \in Nat
  BY Zenon, LenProperties
<1>2. /\ Len(Tail(b)) = Len(b) - 1
      /\ \A i \in 1 .. Len(b) - 1 : Tail(b)[i] = b[i + 1]
  BY Zenon, HeadTailProperties
<1> QED
  BY <1>1, <1>2 DEF Numbered

\* An empty buffer holds no message at all.
LEMMA NothingNumbered ==
  ASSUME NEW m
  PROVE  Numbered(<<>>, m)
BY DEF Numbered

\* Every call keeps a buffer the last messages made, in order.
LEMMA BuffersStep ==
  ASSUME Types, FlushHasMessage, Buffers, Next
  PROVE  Buffers'
<1>0. /\ buf \in [Senders -> [Priority -> Seq(Nat)]] /\ made \in [Senders -> [Priority -> Nat]]
      /\ prio \in [Senders -> Priority]
  BY Zenon, SMTT(30) DEF Types, SenderTypes
<1>1. CASE UNCHANGED <<kind, buf, made>>
  BY Zenon, SMTT(30), <1>1 DEF Buffers
<1>2. ASSUME NEW s \in Senders, kind' = kind,
             \A t \in Senders : t # s => buf'[t] = buf[t] /\ made'[t] = made[t],
             \A p \in Priority :
               (kind # "buffered" => buf'[s][p] = <<>>) /\ Numbered(buf'[s][p], made'[s][p])
      PROVE  Buffers'
  BY ZenonT(30), <1>2 DEF Buffers
<1>3. ASSUME NEW s \in Senders, NEW p \in Priority
      PROVE  /\ kind # "buffered" => buf[s][p] = <<>>
             /\ Numbered(buf[s][p], made[s][p])
             /\ buf[s][p] \in Seq(Nat) /\ made[s][p] \in Nat
  BY Zenon, SMTT(30), <1>0, <1>3 DEF Buffers
<1>4. ASSUME NEW s \in Senders, NEW l \in Outside, QuietCall(s, l)
      PROVE  Buffers'
  <2>1. kind' = kind /\ \A t \in Senders : t # s => buf'[t] = buf[t] /\ made'[t] = made[t]
    BY Zenon, SMTT(30), <1>4 DEF QuietCall
  <2>2. CASE buf'[s] = buf[s] /\ made'[s] = made[s]
    BY Zenon, SMTT(30), <1>2, <1>3, <2>1, <2>2
  <2>3. CASE buf'[s] = [q \in Priority |-> <<>>]
    BY Zenon, SMTT(30), <1>2, <2>1, <2>3, NothingNumbered
  <2>4. ASSUME NEW q \in Priority, kind = "buffered",
               buf'[s] = [buf[s] EXCEPT ![q] = Append(@, made[s][q] + 1)],
               made'[s] = [made[s] EXCEPT ![q] = @ + 1]
        PROVE  Buffers'
    <3>1. buf'[s][q] = Append(buf[s][q], made[s][q] + 1) /\ made'[s][q] = made[s][q] + 1
      BY Zenon, SMTT(30), <1>0, <2>4
    <3>2. \A p \in Priority \ {q} : buf'[s][p] = buf[s][p] /\ made'[s][p] = made[s][p]
      BY SMTT(30), <1>0, <2>4
    <3>3. Numbered(buf'[s][q], made'[s][q])
      BY Zenon, SMTT(30), <1>3, <3>1, BufferAppend
    <3> QED
      BY ZenonT(30), <1>2, <1>3, <2>1, <2>4, <3>2, <3>3
  <2> QED
    BY ZenonT(30), <1>4, <2>2, <2>3, <2>4 DEF QuietCall
<1>5. ASSUME NEW s \in Senders, NEW l \in {"park", "push"}, StartSend(s, l)
      PROVE  Buffers'
  <2> DEFINE q == prio[s]
  <2>1. /\ kind' = kind /\ \A t \in Senders : t # s => buf'[t] = buf[t] /\ made'[t] = made[t]
        /\ q \in Priority /\ pc[s] = "inc"
    BY Zenon, SMTT(30), <1>0, <1>5 DEF StartSend
  <2>2. CASE kind = "buffered" /\ made'[s] = made[s] /\ buf'[s] = [buf[s] EXCEPT ![q] = Tail(@)]
    <3>1. buf[s][q] # <<>>
      BY Zenon, SMTT(30), <2>1, <2>2 DEF FlushHasMessage
    <3>2. /\ buf'[s][q] = Tail(buf[s][q])
          /\ \A p \in Priority \ {q} : buf'[s][p] = buf[s][p]
      BY Zenon, SMTT(30), <1>0, <2>1, <2>2
    <3>3. Numbered(buf'[s][q], made[s][q])
      BY SMTT(30), <1>3, <2>1, <3>1, <3>2, BufferTail
    <3> QED
      BY ZenonT(30), <1>2, <1>3, <2>1, <2>2, <3>2, <3>3
  <2>3. CASE kind # "buffered" /\ buf'[s] = buf[s]
    <3>1. \A p \in Priority : buf'[s][p] = <<>>
      BY Zenon, SMTT(30), <1>3, <2>3
    <3> QED
      BY Zenon, SMTT(30), <1>2, <2>1, <3>1, NothingNumbered
  <2> QED
    BY Zenon, SMTT(30), <1>5, <2>2, <2>3 DEF StartSend
<1>6. ASSUME NEW s \in Senders, NEW t \in Senders, Clone(s, t)
      PROVE  Buffers'
  BY Zenon, SMTT(30), <1>1, <1>6 DEF Clone
<1>7. ASSUME NEW s \in Senders, ParkPush(s) \/ ParkLink(s) \/ ParkCheck(s)
      PROVE  Buffers'
  BY Zenon, SMTT(30), <1>1, <1>7 DEF ParkPush, ParkLink, ParkCheck, Park
<1>8. ASSUME NEW s \in Senders, Push(s) \/ PushLink(s) \/ Signal(s)
      PROVE  Buffers'
  BY ZenonT(30), <1>1, <1>8 DEF Push, PushLink, Signal, QueuePushAndSignal
<1>9. ASSUME NEW drop \in BOOLEAN, ReceiverClose(drop)
      PROVE  Buffers'
  BY Zenon, SMTT(30), <1>1, <1>9 DEF ReceiverClose, senders
<1>10. CASE ReceiverStep
  BY Zenon, SMTT(30), <1>1, <1>10 DEF ReceiverStep, NextMessage, UnparkOne, DecNumMessages, CheckState, Register,
                     CloseNotify, senders
<1> QED
  BY Zenon, SMTT(30), <1>4, <1>5, <1>6, <1>7, <1>8, <1>9, <1>10, Steps

\* How many messages the receiver has taken: those it returned and the one it holds.
HeldOf(s, p) == IF Len(msg) = 1 /\ msg[1].from = s /\ msg[1].prio = p THEN 1 ELSE 0

\* Taken is the number of those.
HoldsOne == Len(msg) \in {0, 1}
TakenSum == \A s \in Senders, p \in Priority : Taken(s, p) = Len(got[s][p]) + HeldOf(s, p)

\* The receiver never holds more than one message, so Taken is a sum.
LEMMA TakenIs == HoldsOne => TakenSum
<1> SUFFICES ASSUME Len(msg) \in {0, 1}, NEW s \in Senders, NEW p \in Priority
             PROVE  Taken(s, p) = Len(got[s][p]) + HeldOf(s, p)
  BY Zenon DEF HoldsOne, TakenSum
<1>1. (\E i \in 1 .. Len(msg) : msg[i].from = s /\ msg[i].prio = p)
        <=> (Len(msg) = 1 /\ msg[1].from = s /\ msg[1].prio = p)
  BY SMTT(30)
<1> QED
  BY ZenonT(30), <1>1 DEF Taken, HeldOf

\* The numbers that the order is about are numbers.
LEMMA TakenType ==
  ASSUME Types, GotTypes, Counts, NEW s \in Senders, NEW p \in Priority
  PROVE  /\ Taken(s, p) \in Nat /\ Len(got[s][p]) \in Nat /\ Len(queue[p]) \in Nat
         /\ Taken(s, p) = Len(got[s][p]) + HeldOf(s, p)
         /\ \A i \in 1 .. Len(queue[p]) : queue[p][i].v \in Msg
         /\ Top(s, p) \in Int
         /\ prio[s] = p => Current(s).n = Top(s, p)
<1>1. Len(got[s][p]) \in Nat
  BY LenProperties DEF GotTypes
<1>2. Len(msg) \in {0, 1}
  BY Zenon DEF Counts, Popped, Holds
<1>3. queue[p] \in Seq(Node) /\ Len(queue[p]) \in Nat
  BY Zenon, InQueueType
<1>4. ASSUME NEW i \in 1 .. Len(queue[p]) PROVE queue[p][i].v \in Msg
  <2>1. queue[p][i] \in Node
    BY Zenon, SMTT(30), <1>3, ElementOfSeq
  <2> QED
    BY Zenon, <2>1 DEF Node
<1>5. made[s][p] \in Nat /\ buf[s][p] \in Seq(Nat)
  BY Zenon, SMTT(30) DEF Types, SenderTypes
<1>6. Top(s, p) \in Int
  BY SMTT(30), <1>5, LenProperties DEF Top
<1>7. prio[s] = p => Current(s).n = Top(s, p)
  BY Zenon DEF Current, Message, Top
<1>8. Taken(s, p) = Len(got[s][p]) + HeldOf(s, p) /\ HeldOf(s, p) \in Nat
  BY ZenonT(30), <1>2, TakenIs DEF HeldOf, HoldsOne, TakenSum
<1>9. Taken(s, p) \in Nat
  BY SMTT(30), <1>1, <1>8
<1> QED
  BY Zenon, <1>1, <1>3, <1>4, <1>6, <1>7, <1>8, <1>9

\* A step that does not touch the messages of s with priority p keeps their order.
LEMMA FifoKept ==
  ASSUME NEW s \in Senders, NEW p \in Priority, Fifo(s, p),
         Len(queue'[p]) = Len(queue[p]),
         \A i \in 1 .. Len(queue[p]) : queue'[p][i].v = queue[p][i].v,
         UNCHANGED <<got, msg>>,
         (s \in UnderWay /\ prio[s] = p)' <=> s \in UnderWay /\ prio[s] = p,
         s \in UnderWay /\ prio[s] = p => Current(s)'.n = Current(s).n,
         Sound(s)' => Sound(s) /\ Top(s, p)' = Top(s, p)
  PROVE  Fifo(s, p)'
<1>1. Taken(s, p)' = Taken(s, p)
  BY Zenon, SMTT(30) DEF Taken
<1>2. \A n \in Int : Way(s, p, n)' <=> Way(s, p, n)
  BY Zenon, SMTT(30) DEF Way
<1>3. Contiguous(s, p)'
  BY Zenon, SMTT(30), <1>1, <1>2 DEF Fifo, Contiguous
<1>4. Ascending(s, p)'
  BY SMTT(30) DEF Fifo, Ascending
<1>5. (got[s][p] = Upto(Len(got[s][p])) /\ PoppedIsNext(s, p))'
  BY ZenonT(30) DEF Fifo, PoppedIsNext
<1> QED
  BY Zenon, SMTT(30), <1>3, <1>4, <1>5 DEF Fifo

\* The quiet calls, the life of a sender, and what the receiver does without a message.
LEMMA FifoQuiet ==
  ASSUME Types, Types', NEW s \in Senders, NEW p \in Priority, Fifo(s, p),
         NEW t \in Senders, NEW l \in Outside, QuietCall(t, l)
  PROVE  Fifo(s, p)'
<1>0. /\ pc \in [Senders -> Calls] /\ life \in [Senders -> {None, "live", "gone"}]
      /\ made[s][p] \in Nat /\ buf[s][p] \in Seq(Nat) /\ made[s] \in [Priority -> Nat]
      /\ buf[s] \in [Priority -> Seq(Nat)] /\ Len(buf[s][p]) \in Nat
  <2>1. /\ pc \in [Senders -> Calls] /\ life \in [Senders -> {None, "live", "gone"}]
        /\ made[s] \in [Priority -> Nat] /\ buf[s] \in [Priority -> Seq(Nat)]
    BY ZenonT(30) DEF Types, SenderTypes
  <2> QED
    BY Zenon, <2>1, LenProperties
<1>1. UNCHANGED <<queue, got, msg>> /\ pc' = [pc EXCEPT ![t] = l] /\ pc[t] \in Outside
  BY ZenonT(30) DEF QuietCall
<1>2. CASE t # s
  <2>1. /\ buf'[s] = buf[s] /\ made'[s] = made[s] /\ prio'[s] = prio[s]
        /\ pc'[s] = pc[s] /\ life'[s] = life[s] /\ (is_open' => is_open)
    BY <1>0, <1>2 DEF QuietCall
  <2>2. Current(s)' = Current(s) /\ Top(s, p)' = Top(s, p)
    BY ZenonT(30), <2>1 DEF Current, Message, Top
  <2>3. Sound(s)' => Sound(s)
    BY ZenonT(30), <2>1 DEF Sound
  <2>4. s \in UnderWay' <=> s \in UnderWay
    BY Zenon, SMTT(30), <2>1 DEF UnderWay
  <2> QED
    BY ZenonT(30), <1>1, <2>1, <2>2, <2>3, <2>4, FifoKept
<1>3. CASE t = s
  <2>1. s \notin UnderWay /\ s \notin UnderWay'
    BY Zenon, SMTT(30), <1>0, <1>1, <1>3 DEF UnderWay, Outside, Counted
  <2>2. ASSUME Sound(s)' PROVE Sound(s) /\ Top(s, p)' = Top(s, p)
    <3>1. is_open' /\ life'[s] # "gone"
      BY Zenon, <1>0, <1>1, <1>3, <2>2 DEF Sound, Outside, Counted
    <3>2. is_open /\ life[s] # "gone"
      BY ZenonT(30), <1>0, <1>3, <3>1 DEF QuietCall
    <3>3. CASE buf'[s] = buf[s] /\ made'[s] = made[s]
      BY Zenon, <3>2, <3>3 DEF Sound, Top
    <3>4. ASSUME NEW q \in Priority,
                 buf'[s] = [buf[s] EXCEPT ![q] = Append(@, made[s][q] + 1)],
                 made'[s] = [made[s] EXCEPT ![q] = @ + 1]
          PROVE  Top(s, p)' = Top(s, p)
      <4>1. CASE p = q
        <5>1. /\ buf'[s][p] = Append(buf[s][p], made[s][p] + 1)
              /\ made'[s][p] = made[s][p] + 1
          BY Zenon, SMTT(30), <1>0, <3>4, <4>1
        <5>2. Len(buf'[s][p]) = Len(buf[s][p]) + 1
          BY SMTT(30), <1>0, <5>1, AppendProperties
        <5>3. /\ Top(s, p) = made[s][p] - Len(buf[s][p])
              /\ Top(s, p)' = made'[s][p] - Len(buf'[s][p])
          BY Zenon, SMTT(30) DEF Top
        <5> QED
          BY SMTT(30), <1>0, <5>1, <5>2, <5>3
      <4>2. CASE p # q
        BY ZenonT(30), <1>0, <3>4, <4>2 DEF Top
      <4> QED  BY Zenon, SMTT(30), <4>1, <4>2
    <3> QED
      BY ZenonT(30), <1>3, <3>1, <3>2, <3>3, <3>4 DEF QuietCall, Sound
  <2> QED
    BY Zenon, SMTT(30), <1>1, <2>1, <2>2, FifoKept
<1> QED  BY Zenon, <1>2, <1>3

\* A message is counted: it goes on the way, after all that are there.
LEMMA FifoStart ==
  ASSUME Types, GotTypes, Counts, FlushHasMessage, GoneIsOut, NEW s \in Senders, NEW p \in Priority,
         Fifo(s, p), NEW t \in Senders, NEW l \in {"park", "push"}, StartSend(t, l)
  PROVE  Fifo(s, p)'
<1>0. /\ pc \in [Senders -> Calls] /\ prio \in [Senders -> Priority]
      /\ made[s] \in [Priority -> Nat] /\ buf[s] \in [Priority -> Seq(Nat)]
  BY Zenon, SMTT(30) DEF Types, SenderTypes
<1>1. /\ UNCHANGED <<queue, got, msg, prio, life, is_open>> /\ pc' = [pc EXCEPT ![t] = l]
      /\ pc[t] = "inc" /\ is_open
  BY Zenon, SMTT(30) DEF StartSend, receiver
<1>2. CASE t # s
  <2>1. buf'[s] = buf[s] /\ made'[s] = made[s] /\ pc'[s] = pc[s]
    BY Zenon, SMTT(30), <1>0, <1>1, <1>2 DEF StartSend
  <2>2. Current(s)' = Current(s) /\ Top(s, p)' = Top(s, p)
    BY Zenon, SMTT(30), <1>1, <2>1 DEF Current, Message, Top
  <2>3. Sound(s)' => Sound(s)
    BY Zenon, SMTT(30), <1>1, <2>1 DEF Sound
  <2>4. s \in UnderWay' <=> s \in UnderWay
    BY Zenon, SMTT(30), <2>1 DEF UnderWay
  <2> QED
    BY Zenon, SMTT(30), <1>1, <2>2, <2>3, <2>4, FifoKept
<1>3. CASE t = s /\ prio[s] # p
  <2>1. buf'[s][p] = buf[s][p] /\ made'[s][p] = made[s][p]
    BY ZenonT(30), <1>0, <1>3 DEF StartSend
  <2>2. Top(s, p)' = Top(s, p)
    BY Zenon, SMTT(30), <2>1 DEF Top
  <2>3. Sound(s)
    BY Zenon, SMTT(30), <1>1, <1>3 DEF Sound, GoneIsOut
  <2> QED
    BY ZenonT(30), <1>1, <1>3, <2>2, <2>3, FifoKept
<1>4. CASE t = s /\ prio[s] = p
  <2> DEFINE k == Top(s, p)
  <2>1. s \notin UnderWay /\ s \in UnderWay' /\ Sound(s)
    BY ZenonT(30), <1>0, <1>1, <1>4 DEF UnderWay, Counted, Sound, GoneIsOut
  <2>2. Top(s, p)' = k + 1
    <3>0. Len(buf[s][p]) \in Nat /\ made[s][p] \in Nat /\ buf[s][p] \in Seq(Nat)
      BY Zenon, SMTT(30), <1>0, LenProperties
    <3>1. CASE kind = "buffered" /\ made'[s] = made[s] /\ buf'[s] = [buf[s] EXCEPT ![p] = Tail(@)]
      <4>1. buf[s][p] # <<>>
        BY Zenon, SMTT(30), <1>1, <1>4, <3>1 DEF FlushHasMessage
      <4>2. buf'[s][p] = Tail(buf[s][p])
        BY Zenon, SMTT(30), <1>0, <3>1
      <4>3. Len(buf'[s][p]) = Len(buf[s][p]) - 1
        BY Zenon, SMTT(30), <3>0, <4>1, <4>2, HeadTailProperties
      <4> QED
        BY SMTT(30), <3>0, <3>1, <4>3 DEF Top
    <3>2. CASE buf'[s] = buf[s] /\ made'[s] = [made[s] EXCEPT ![p] = @ + 1]
      <4>1. made'[s][p] = made[s][p] + 1
        BY Zenon, SMTT(30), <1>0, <3>2
      <4> QED
        BY SMTT(30), <3>0, <3>2, <4>1 DEF Top
    <3> QED
      BY ZenonT(30), <1>4, <3>1, <3>2 DEF StartSend
  <2>3. Current(s)'.n = k + 1 /\ k \in Int
    BY Zenon, SMTT(30), <1>1, <1>4, <2>2, TakenType DEF Current, Message, Top
  <2>4. k >= Taken(s, p) /\ \A n \in Int : Way(s, p, n) <=> n \in Taken(s, p) + 1 .. k
    BY Zenon, SMTT(30), <2>1 DEF Fifo, Contiguous
  <2>5. Taken(s, p)' = Taken(s, p) /\ Taken(s, p) \in Nat
    BY ZenonT(30), <1>1, TakenType DEF Taken
  <2>6. \A n \in Int : Way(s, p, n)' <=> Way(s, p, n) \/ n = k + 1
    BY ZenonT(30), <1>1, <1>4, <2>1, <2>3 DEF Way
  <2>7. Contiguous(s, p)'
    <3>1. k + 1 >= Taken(s, p)'
      BY SMTT(30), <2>3, <2>4, <2>5
    <3>2. \A n \in Int : Way(s, p, n)' <=> n \in Taken(s, p)' + 1 .. k + 1
      BY SMTT(30), <2>3, <2>4, <2>5, <2>6
    <3> QED
      BY SMTT(30), <2>2, <2>3, <3>1, <3>2 DEF Contiguous
  <2>8. ASSUME NEW j \in 1 .. Len(queue[p]), queue[p][j].v.from = s
        PROVE  queue[p][j].v.n < k + 1
    <3>1. queue[p][j].v.n \in Int
      BY Zenon, SMTT(30), TakenType DEF Msg
    <3>2. Way(s, p, queue[p][j].v.n)
      BY Zenon, SMTT(30), <2>8 DEF Way
    <3> QED
      BY SMTT(30), <2>3, <2>4, <2>5, <3>1, <3>2
  <2>9. Ascending(s, p)'
    BY ZenonT(30), <1>1, <2>3, <2>8 DEF Fifo, Ascending
  <2> QED
    BY ZenonT(30), <1>1, <2>7, <2>9 DEF Fifo, PoppedIsNext
<1> QED  BY Zenon, SMTT(30), <1>2, <1>3, <1>4

\* The push: the message leaves the hands of its sender and stands at the end of the queue.
LEMMA FifoPush ==
  ASSUME Types, GotTypes, Counts, NEW s \in Senders, NEW p \in Priority,
         Fifo(s, p), NEW t \in Senders, Push(t)
  PROVE  Fifo(s, p)'
<1>0. pc \in [Senders -> Calls] /\ prio \in [Senders -> Priority] /\ Len(queue[p]) \in Nat
  BY Zenon, SMTT(30), InQueueType DEF Types, SenderTypes
<1>1. /\ UNCHANGED <<got, msg, prio, life, is_open, buf, made>> /\ pc' = [pc EXCEPT ![t] = "link"]
      /\ pc[t] = "push"
  BY Zenon, SMTT(30) DEF Push, QueuePushAndSignal, Goto
<1>2. Sound(s)' = Sound(s) /\ Top(s, p)' = Top(s, p) /\ Current(s)' = Current(s)
  BY Zenon, SMTT(30), <1>0, <1>1 DEF Sound, Top, Current, Message, Counted
<1>3. ~(t = s /\ prio[s] = p) => (s \in UnderWay /\ prio[s] = p)' = (s \in UnderWay /\ prio[s] = p)
  BY Zenon, SMTT(30), <1>0, <1>1 DEF UnderWay
<1>4. CASE prio[t] # p
  <2>1. queue'[p] = queue[p]
    BY Zenon, SMTT(30), <1>4, QueueContents
  <2> QED
    BY ZenonT(30), <1>1, <1>2, <1>3, <1>4, <2>1, FifoKept
<1>5. CASE prio[t] = p
  <2> DEFINE m == Len(queue[p]) + 1
  <2>1. /\ Len(queue'[p]) = m /\ \A i \in 1 .. Len(queue[p]) : queue'[p][i].v = queue[p][i].v
        /\ queue'[p][m].v = Current(t) /\ Current(t).from = t
    BY Zenon, SMTT(30), <1>5, QueueContents DEF Current, Message
  <2>4. 1 .. m = (1 .. Len(queue[p])) \cup {m}
    BY SMTT(30), <1>0
  <2>2. CASE t = s
    <3>1. s \in UnderWay /\ s \notin UnderWay'
      BY Zenon, SMTT(30), <1>0, <1>1, <2>2 DEF UnderWay, Counted
    <3>3. ASSUME NEW n \in Int PROVE Way(s, p, n)' <=> Way(s, p, n)
      <4>1. Way(s, p, n) <=> \/ \E i \in 1 .. Len(queue[p]) : queue[p][i].v.from = s /\ queue[p][i].v.n = n
                             \/ n = Current(s).n
        BY Zenon, SMTT(30), <1>5, <2>2, <3>1 DEF Way
      <4>2. Way(s, p, n)' <=> \E i \in 1 .. m : queue'[p][i].v.from = s /\ queue'[p][i].v.n = n
        BY Zenon, SMTT(30), <2>1, <3>1 DEF Way
      <4> QED
        BY ZenonT(30), <2>1, <2>2, <2>4, <4>1, <4>2
    <3>4. Ascending(s, p)'
      <4>1. \A j \in 1 .. Len(queue[p]) : queue[p][j].v.from = s => queue[p][j].v.n < Current(s).n
        BY Zenon, SMTT(30), <1>5, <2>2, <3>1 DEF Fifo, Ascending
      <4>2. \A j \in 1 .. Len(queue[p]) : \A i \in 1 .. j - 1 :
              queue[p][i].v.from = s /\ queue[p][j].v.from = s => queue[p][i].v.n < queue[p][j].v.n
        BY Zenon, SMTT(30) DEF Fifo, Ascending
      <4>3. \A j \in 1 .. m : \A i \in 1 .. j - 1 :
              queue'[p][i].v.from = s /\ queue'[p][j].v.from = s => queue'[p][i].v.n < queue'[p][j].v.n
        <5>1. ASSUME NEW j \in 1 .. m, NEW i \in 1 .. j - 1,
                     queue'[p][i].v.from = s, queue'[p][j].v.from = s
              PROVE  queue'[p][i].v.n < queue'[p][j].v.n
          <6>1. i \in 1 .. Len(queue[p]) /\ (j \in 1 .. Len(queue[p]) \/ j = m)
            BY SMTT(30), <1>0
          <6> QED
            BY ZenonT(30), <2>1, <2>2, <4>1, <4>2, <5>1, <6>1
        <5> QED  BY Zenon, SMTT(30), <5>1
      <4> QED
        BY Zenon, SMTT(30), <2>1, <3>1, <4>3 DEF Ascending
    <3>5. Taken(s, p)' = Taken(s, p)
      BY Zenon, SMTT(30), <1>1 DEF Taken
    <3>6. Contiguous(s, p)'
      BY Zenon, SMTT(30), <1>2, <3>3, <3>5 DEF Fifo, Contiguous
    <3> QED
      BY ZenonT(30), <1>1, <3>4, <3>6 DEF Fifo, PoppedIsNext
  <2>3. CASE t # s
    <3>0. (s \in UnderWay /\ prio[s] = p)' <=> s \in UnderWay /\ prio[s] = p
      BY Zenon, SMTT(30), <1>3, <2>3
    <3>1. ASSUME NEW n \in Int PROVE Way(s, p, n)' <=> Way(s, p, n)
      <4>1. (\E i \in 1 .. m : queue'[p][i].v.from = s /\ queue'[p][i].v.n = n)
              <=> \E i \in 1 .. Len(queue[p]) : queue[p][i].v.from = s /\ queue[p][i].v.n = n
        BY ZenonT(30), <2>1, <2>3, <2>4
      <4> QED
        BY ZenonT(30), <1>2, <2>1, <3>0, <4>1 DEF Way
    <3>2. Taken(s, p)' = Taken(s, p)
      BY Zenon, SMTT(30), <1>1 DEF Taken
    <3>3. Contiguous(s, p)'
      BY Zenon, SMTT(30), <1>2, <3>1, <3>2 DEF Fifo, Contiguous
    <3>4. Ascending(s, p)'
      <4>1. ASSUME NEW j \in 1 .. m, queue'[p][j].v.from = s
            PROVE  /\ j \in 1 .. Len(queue[p])
                   /\ queue[p][j].v = queue'[p][j].v
                   /\ \A i \in 1 .. j - 1 : queue'[p][i].v = queue[p][i].v
        <5>1. j # m
          BY Zenon, SMTT(30), <2>1, <2>3, <4>1
        <5>2. j \in 1 .. Len(queue[p])
          BY Zenon, SMTT(30), <2>4, <5>1
        <5>3. \A i \in 1 .. j - 1 : i \in 1 .. Len(queue[p])
          BY SMTT(30), <1>0, <5>2
        <5> QED
          BY ZenonT(30), <2>1, <5>2, <5>3
      <4> QED
        BY ZenonT(30), <1>2, <2>1, <3>0, <4>1 DEF Fifo, Ascending
    <3> QED
      BY Zenon, SMTT(30), <1>1, <3>3, <3>4 DEF Fifo, PoppedIsNext
  <2> QED  BY Zenon, SMTT(30), <2>2, <2>3
<1> QED  BY Zenon, SMTT(30), <1>4, <1>5

\* What is left after a pop stands in the same order.
LEMMA PopAscending ==
  ASSUME Types, NEW s \in Senders, NEW p \in Priority, Ascending(s, p),
         NextMessage(p), Data(queue[p]), UNCHANGED prio, UnderWay' = UnderWay,
         Current(s)' = Current(s)
  PROVE  Ascending(s, p)'
<1>1. /\ Len(queue'[p]) = Len(queue[p]) - 1 /\ Len(queue[p]) >= 1 /\ Len(queue[p]) \in Nat
      /\ \A i \in 1 .. Len(queue[p]) - 1 : queue'[p][i] = queue[p][i + 1]
  BY ZenonT(30), QueueContents, InQueueType
<1>2. SUFFICES ASSUME NEW j \in 1 .. Len(queue'[p]), queue'[p][j].v.from = s
               PROVE  /\ \A i \in 1 .. j - 1 :
                           queue'[p][i].v.from = s => queue'[p][i].v.n < queue'[p][j].v.n
                      /\ s \in UnderWay /\ prio[s] = p => queue'[p][j].v.n < Current(s).n
  BY ZenonT(30) DEF Ascending
<1>3. j \in 1 .. Len(queue[p]) - 1 /\ j + 1 \in 1 .. Len(queue[p])
  BY SMTT(30), <1>1, <1>2
<1>4. queue'[p][j] = queue[p][j + 1] /\ queue[p][j + 1].v.from = s
  BY Zenon, SMTT(30), <1>1, <1>2, <1>3
<1>5. s \in UnderWay /\ prio[s] = p => queue'[p][j].v.n < Current(s).n
  BY Zenon, SMTT(30), <1>3, <1>4 DEF Ascending
<1>6. ASSUME NEW i \in 1 .. j - 1, queue'[p][i].v.from = s
      PROVE  queue'[p][i].v.n < queue'[p][j].v.n
  <2>1. i \in 1 .. Len(queue[p]) - 1 /\ i + 1 \in 1 .. (j + 1) - 1
    BY SMTT(30), <1>1, <1>3
  <2>2. queue'[p][i] = queue[p][i + 1]
    BY Zenon, SMTT(30), <1>1, <2>1
  <2> QED
    BY Zenon, SMTT(30), <1>3, <1>4, <1>6, <2>1, <2>2 DEF Ascending
<1> QED
  BY Zenon, SMTT(30), <1>5, <1>6

\* The pop: the head of the queue is the next message of its sender.
LEMMA FifoPop ==
  ASSUME Types, Types', GotTypes, GotTypes', Counts, Counts', QueuesByPriority,
         NEW s \in Senders, NEW p \in Priority, Fifo(s, p),
         NEW q \in Priority, NextMessage(q), Data(queue[q])
  PROVE  Fifo(s, p)'
<1> DEFINE h == queue[q][1].v
<1>0. /\ UNCHANGED <<got, prio, life, is_open, buf, made, pc>> /\ msg' = <<h>>
      /\ rpc \notin {"unpark", "dec"}
  BY ZenonT(30), QueueContents DEF NextMessage, senders, PopAt, Polls
<1>1. Sound(s)' = Sound(s) /\ Top(s, p)' = Top(s, p) /\ Current(s)' = Current(s) /\ UnderWay' = UnderWay
  BY ZenonT(30), <1>0 DEF Sound, Top, Current, Message, UnderWay
<1>2. /\ Taken(s, p) = Len(got[s][p]) /\ Len(got[s][p]) \in Nat /\ Len(queue[p]) \in Nat
      /\ Taken(s, p)' = Len(got[s][p]) + HeldOf(s, p)' /\ Len(msg) = 0
  <2>1. Len(msg) = 0 /\ HeldOf(s, p) = 0
    BY ZenonT(30), <1>0 DEF Counts, Popped, Holds, HeldOf
  <2>2. /\ Taken(s, p) = Len(got[s][p]) + HeldOf(s, p) /\ Len(got[s][p]) \in Nat
        /\ Len(queue[p]) \in Nat
    BY ZenonT(30), TakenType
  <2>3. HoldsOne'
    BY Zenon, <1>0 DEF HoldsOne
  <2>4. TakenSum'
    BY <2>3, TakenIs, PTL
  <2> QED
    BY <1>0, <2>1, <2>2, <2>4 DEF TakenSum
<1>3. CASE ~(q = p /\ h.from = s)
  <2>1. Taken(s, p)' = Taken(s, p)
    <3>1. HeldOf(s, p)' = 0
      <4>1. h.prio = q
        BY QueueContents, InQueueType DEF QueuesByPriority
      <4> QED
        BY Zenon, SMTT(30), <1>0, <1>3, <4>1 DEF HeldOf
    <3> QED
      BY SMTT(30), <1>2, <3>1
  <2>2. CASE q # p
    <3>1. queue'[p] = queue[p]
      BY ZenonT(30), <2>2, QueueContents
    <3>2. \A n \in Int : Way(s, p, n)' <=> Way(s, p, n)
      BY ZenonT(30), <1>0, <1>1, <3>1 DEF Way
    <3>3. Contiguous(s, p)'
      BY ZenonT(30), <1>1, <2>1, <3>2 DEF Fifo, Contiguous
    <3>4. Ascending(s, p)'
      BY ZenonT(30), <1>0, <1>1, <3>1 DEF Fifo, Ascending
    <3>5. PoppedIsNext(s, p)'
      <4>1. h.prio # p
        BY <2>2, QueueContents, InQueueType DEF QueuesByPriority
      <4> QED
        BY SMTT(30), <1>0, <4>1 DEF PoppedIsNext
    <3> QED
      BY ZenonT(30), <1>0, <3>3, <3>4, <3>5 DEF Fifo
  <2>3. CASE q = p
    <3>1. /\ Len(queue'[p]) = Len(queue[p]) - 1 /\ Len(queue[p]) >= 1
          /\ \A i \in 1 .. Len(queue[p]) - 1 : queue'[p][i] = queue[p][i + 1]
      BY Zenon, SMTT(30), <2>3, QueueContents
    <3>2. ASSUME NEW n \in Int PROVE Way(s, p, n)' <=> Way(s, p, n)
      <4>1. ASSUME NEW i \in 1 .. Len(queue[p]), queue[p][i].v.from = s, queue[p][i].v.n = n
            PROVE  \E j \in 1 .. Len(queue'[p]) : queue'[p][j].v.from = s /\ queue'[p][j].v.n = n
        <5>1. i # 1
          BY Zenon, SMTT(30), <1>3, <2>3, <4>1
        <5>2. i - 1 \in 1 .. Len(queue[p]) - 1 /\ (i - 1) + 1 = i
          BY SMTT(30), <1>2, <5>1
        <5> QED
          BY ZenonT(30), <3>1, <4>1, <5>2
      <4>2. ASSUME NEW j \in 1 .. Len(queue'[p]), queue'[p][j].v.from = s, queue'[p][j].v.n = n
            PROVE  \E i \in 1 .. Len(queue[p]) : queue[p][i].v.from = s /\ queue[p][i].v.n = n
        <5>1. j + 1 \in 1 .. Len(queue[p]) /\ j \in 1 .. Len(queue[p]) - 1
          BY SMTT(30), <1>2, <3>1
        <5> QED
          BY Zenon, SMTT(30), <3>1, <4>2, <5>1
      <4> QED
        BY ZenonT(30), <1>0, <1>1, <4>1, <4>2 DEF Way
    <3>3. Contiguous(s, p)'
      BY ZenonT(30), <1>1, <2>1, <3>2 DEF Fifo, Contiguous
    <3>4. Ascending(s, p)'
      BY ZenonT(30), <1>0, <1>1, <2>3, PopAscending DEF Fifo
    <3>5. PoppedIsNext(s, p)'
      BY <1>0, <1>3, <2>3 DEF PoppedIsNext
    <3> QED
      BY ZenonT(30), <1>0, <3>3, <3>4, <3>5 DEF Fifo
  <2> QED  BY Zenon, SMTT(30), <2>2, <2>3
<1>4. CASE q = p /\ h.from = s
  <2>1. /\ Len(queue'[p]) = Len(queue[p]) - 1 /\ Len(queue[p]) >= 1
        /\ \A i \in 1 .. Len(queue[p]) - 1 : queue'[p][i] = queue[p][i + 1]
        /\ 1 \in 1 .. Len(queue[p])
    BY SMTT(30), <1>2, <1>4, QueueContents
  <2>2. h.n \in Int /\ h.prio = p /\ Current(s).n \in Int
    BY Zenon, SMTT(30), <1>4, <2>1, TakenType, CurrentType DEF Msg, QueuesByPriority
  <2>3. PICK k \in Int :
          /\ k >= Taken(s, p)
          /\ \A n \in Int : Way(s, p, n) <=> n \in Taken(s, p) + 1 .. k
          /\ Sound(s) => k = Top(s, p)
    BY ZenonT(30) DEF Fifo, Contiguous
  <2>4. \A i \in 2 .. Len(queue[p]) : queue[p][i].v.from = s => h.n < queue[p][i].v.n
    BY <1>2, <1>4 DEF Fifo, Ascending
  <2>5. s \in UnderWay /\ prio[s] = p => h.n < Current(s).n
    BY ZenonT(30), <1>4, <2>1 DEF Fifo, Ascending
  <2>6. h.n = Taken(s, p) + 1
    <3>1. Way(s, p, h.n)
      BY ZenonT(30), <1>4, <2>1 DEF Way
    <3>2. h.n \in Taken(s, p) + 1 .. k
      BY Zenon, SMTT(30), <2>2, <2>3, <3>1
    <3>3. Way(s, p, Taken(s, p) + 1)
      <4> DEFINE t == Taken(s, p)
      <4>1. t \in Int /\ h.n \in t + 1 .. k
        BY SMTT(30), <1>2, <3>2
      <4>2. t + 1 \in Int /\ t + 1 \in t + 1 .. k
        <5> HIDE DEF t, h
        <5> QED
          BY SMTT(30), <4>1
      <4> QED
        BY Zenon, <2>3, <4>2
    <3>4. CASE s \in UnderWay /\ prio[s] = p /\ Taken(s, p) + 1 = Current(s).n
      BY SMTT(30), <1>2, <2>2, <2>5, <3>2, <3>4
    <3>5. ASSUME NEW i \in 1 .. Len(queue[p]), queue[p][i].v.from = s,
                 queue[p][i].v.n = Taken(s, p) + 1
          PROVE  h.n = Taken(s, p) + 1
      <4>1. CASE i = 1
        BY Zenon, SMTT(30), <1>4, <3>5, <4>1
      <4>2. CASE i # 1
        <5>1. i \in 2 .. Len(queue[p])
          BY SMTT(30), <1>2, <4>2
        <5>2. h.n < Taken(s, p) + 1
          BY Zenon, SMTT(30), <2>4, <3>5, <5>1
        <5> QED
          BY SMTT(30), <1>2, <2>2, <3>2, <5>2
      <4> QED  BY Zenon, SMTT(30), <4>1, <4>2
    <3> QED
      BY ZenonT(30), <3>3, <3>4, <3>5 DEF Way
  <2>7. Taken(s, p)' = Taken(s, p) + 1
    BY ZenonT(30), <1>0, <1>2, <1>4, <2>2 DEF HeldOf
  <2>8. ASSUME NEW n \in Int PROVE Way(s, p, n)' <=> Way(s, p, n) /\ n # h.n
    <3>1. ASSUME NEW i \in 1 .. Len(queue[p]), queue[p][i].v.from = s, queue[p][i].v.n = n, n # h.n
          PROVE  \E j \in 1 .. Len(queue'[p]) : queue'[p][j].v.from = s /\ queue'[p][j].v.n = n
      <4>1. i - 1 \in 1 .. Len(queue[p]) - 1 /\ (i - 1) + 1 = i
        BY SMTT(30), <1>2, <1>4, <3>1
      <4> QED
        BY ZenonT(30), <2>1, <3>1, <4>1
    <3>2. ASSUME NEW j \in 1 .. Len(queue'[p]), queue'[p][j].v.from = s, queue'[p][j].v.n = n
          PROVE  /\ \E i \in 1 .. Len(queue[p]) : queue[p][i].v.from = s /\ queue[p][i].v.n = n
                 /\ n # h.n
      <4>1. /\ j + 1 \in 1 .. Len(queue[p]) /\ j \in 1 .. Len(queue[p]) - 1
            /\ j + 1 \in 2 .. Len(queue[p])
        BY SMTT(30), <1>2, <2>1
      <4>2. queue[p][j + 1].v.from = s /\ queue[p][j + 1].v.n = n
        BY ZenonT(30), <2>1, <3>2, <4>1
      <4>3. h.n < n
        BY Zenon, SMTT(30), <2>4, <4>1, <4>2
      <4> QED
        BY SMTT(30), <2>2, <4>1, <4>2, <4>3
    <3>3. s \in UnderWay /\ prio[s] = p => Current(s).n # h.n
      BY SMTT(30), <2>2, <2>5
    <3> QED
      BY ZenonT(30), <1>0, <1>1, <3>1, <3>2, <3>3 DEF Way
  <2>9. Contiguous(s, p)'
    <3>1. \A n \in Int : Way(s, p, n)' <=> n \in Taken(s, p)' + 1 .. k
      BY SMTT(30), <1>2, <2>3, <2>6, <2>7, <2>8
    <3>2. k >= Taken(s, p)'
      <4>1. Way(s, p, h.n)
        BY Zenon, SMTT(30), <1>4, <2>1 DEF Way
      <4> QED
        BY <1>2, <2>2, <2>3, <2>6, <2>7, <4>1
    <3> QED
      BY Zenon, SMTT(30), <1>1, <2>3, <3>1, <3>2 DEF Contiguous
  <2>10. Ascending(s, p)'
    BY ZenonT(30), <1>0, <1>1, <1>4, PopAscending DEF Fifo
  <2>11. PoppedIsNext(s, p)'
    BY <1>0, <1>2, <2>6 DEF PoppedIsNext
  <2> QED
    BY ZenonT(30), <1>0, <2>9, <2>10, <2>11 DEF Fifo
<1> QED  BY Zenon, SMTT(30), <1>3, <1>4

\* The messages 1 to k, and one more.
LEMMA UptoAppend ==
  ASSUME NEW n \in Nat
  PROVE  Append(Upto(n), n + 1) = Upto(n + 1)
<1>1. Upto(n) \in Seq(Int) /\ Len(Upto(n)) = n
  BY DEF Upto
<1>2. Upto(n + 1) \in Seq(Int) /\ Len(Upto(n + 1)) = n + 1
  BY SMTT(30) DEF Upto
<1>3. /\ Append(Upto(n), n + 1) \in Seq(Int) /\ Len(Append(Upto(n), n + 1)) = n + 1
      /\ \A i \in 1 .. n : Append(Upto(n), n + 1)[i] = Upto(n)[i]
      /\ Append(Upto(n), n + 1)[n + 1] = n + 1
  BY SMTT(30), <1>1, AppendProperties
<1>4. \A i \in 1 .. n + 1 : Append(Upto(n), n + 1)[i] = Upto(n + 1)[i]
  BY SMTT(30), <1>3 DEF Upto
<1> QED
  BY ZenonT(30), <1>2, <1>3, <1>4, SeqEqual

\* The message that was popped is returned: the next one of its sender.
LEMMA FifoReturn ==
  ASSUME Types, GotTypes, GotTypes', Counts, ~dropping,
         NEW s \in Senders, NEW p \in Priority, Fifo(s, p), DecNumMessages,
         Len(msg) = 1, msg[1] \in Msg, Head(msg) = msg[1]
  PROVE  Fifo(s, p)'
<1> DEFINE m == msg[1]
<1>0. /\ UNCHANGED <<queue, prio, life, is_open, buf, made, pc>> /\ msg' = <<>>
      /\ got' = [got EXCEPT ![m.from][m.prio] = Append(@, m.n)]
      /\ m.from \in Senders /\ m.prio \in Priority /\ m.n \in Int
  BY Zenon, SMTT(30) DEF DecNumMessages, senders, Msg
<1>1. /\ Sound(s)' = Sound(s) /\ Top(s, p)' = Top(s, p) /\ Current(s)' = Current(s)
      /\ UnderWay' = UnderWay
  BY Zenon, SMTT(30), <1>0 DEF Sound, Top, Current, Message, UnderWay
<1>2. \A n \in Int : Way(s, p, n)' <=> Way(s, p, n)
  BY Zenon, SMTT(30), <1>0, <1>1 DEF Way
<1>3. Ascending(s, p)'
  BY Zenon, SMTT(30), <1>0, <1>1 DEF Fifo, Ascending
<1>4. PoppedIsNext(s, p)'
  BY SMTT(30), <1>0 DEF PoppedIsNext
<1>5. /\ got \in [Senders -> [Priority -> Seq(Int)]] /\ got[s] \in [Priority -> Seq(Int)]
      /\ got[s][p] \in Seq(Int) /\ Len(got[s][p]) \in Nat
  BY SMTT(30), LenProperties DEF GotTypes
<1>6. Taken(s, p) = Len(got[s][p]) + HeldOf(s, p) /\ Taken(s, p)' = Len(got'[s][p])
  <2>1. HoldsOne'
    BY Zenon, <1>0 DEF HoldsOne
  <2>2. TakenSum'
    BY <2>1, TakenIs, PTL
  <2>3. HeldOf(s, p)' = 0
    BY Zenon, SMTT(30), <1>0 DEF HeldOf
  <2>4. Len(got'[s][p]) \in Nat
    BY SMTT(30), LenProperties DEF GotTypes
  <2> QED
    BY <2>2, <2>3, <2>4, TakenType DEF TakenSum
<1>7. CASE m.from = s /\ m.prio = p
  <2>1. got'[s][p] = Append(got[s][p], m.n)
    BY Zenon, SMTT(30), <1>0, <1>5, <1>7
  <2>2. m.n = Len(got[s][p]) + 1 /\ HeldOf(s, p) = 1
    BY SMTT(30), <1>7 DEF Fifo, PoppedIsNext, HeldOf
  <2>3. got[s][p] = Upto(Len(got[s][p]))
    BY Zenon, SMTT(30) DEF Fifo
  <2>4. Len(got'[s][p]) = Len(got[s][p]) + 1 /\ got'[s][p] = Upto(Len(got[s][p]) + 1)
    <3>1. Append(got[s][p], Len(got[s][p]) + 1) = Upto(Len(got[s][p]) + 1)
      BY ZenonT(30), <1>5, <2>3, UptoAppend
    <3>2. Len(got'[s][p]) = Len(got[s][p]) + 1
      <4>1. m.n \in Int
        BY Zenon, SMTT(30), <1>0
      <4>2. Len(Append(got[s][p], m.n)) = Len(got[s][p]) + 1
        BY SMTT(30), <1>5, <4>1, AppendProperties
      <4> QED
        BY Zenon, SMTT(30), <2>1, <4>2
    <3> QED
      BY Zenon, SMTT(30), <2>1, <2>2, <3>1, <3>2
  <2>5. Taken(s, p)' = Taken(s, p)
    BY Zenon, SMTT(30), <1>5, <1>6, <2>2, <2>4
  <2> QED
    BY ZenonT(30), <1>1, <1>2, <1>3, <1>4, <2>4, <2>5 DEF Fifo, Contiguous
<1>8. CASE ~(m.from = s /\ m.prio = p)
  <2>1. got'[s][p] = got[s][p]
    BY ZenonT(30), <1>0, <1>5, <1>8
  <2>2. Taken(s, p)' = Taken(s, p)
    BY SMTT(30), <1>5, <1>6, <1>8, <2>1 DEF HeldOf
  <2> QED
    BY ZenonT(30), <1>1, <1>2, <1>3, <1>4, <2>1, <2>2 DEF Fifo, Contiguous
<1> QED  BY Zenon, SMTT(30), <1>7, <1>8

\* Every step keeps the order of the messages, of every sender and priority.
LEMMA FifosStep ==
  ASSUME Types, Types', GotTypes, GotTypes', Counts, Counts', QueuesByPriority, FlushHasMessage,
         GoneIsOut, Fifos, Next
  PROVE  Fifos'
<1>0. /\ pc \in [Senders -> Calls] /\ prio \in [Senders -> Priority]
      /\ life \in [Senders -> {None, "live", "gone"}]
  BY Zenon DEF Types, SenderTypes
<1>a. dropping \in BOOLEAN /\ dropping' \in BOOLEAN
  BY Zenon, SMTT(30) DEF Types, ReceiverTypes
<1>1. dropping' \/ dropping' = dropping
  BY ZenonT(30), <1>a, Steps
     DEF ReceiverStep, NextMessage, UnparkOne, DecNumMessages, CheckState, Register, CloseNotify,
         ReceiverClose, QuietCall, Clone, StartSend, ParkPush, ParkLink, ParkCheck, Park, Push,
         PushLink, Signal, QueuePushAndSignal, receiver
<1>2. SUFFICES ASSUME ~dropping, ~dropping', NEW s \in Senders, NEW p \in Priority, Fifo(s, p)
               PROVE  Fifo(s, p)'
  BY Zenon, SMTT(30), <1>1 DEF Fifos
<1>3. ASSUME NEW t \in Senders, NEW l \in Outside, QuietCall(t, l)
      PROVE  Fifo(s, p)'
  BY Zenon, SMTT(30), <1>2, <1>3, FifoQuiet
<1>4. ASSUME NEW t \in Senders, NEW u \in Senders, Clone(t, u)
      PROVE  Fifo(s, p)'
  <2>1. UNCHANGED <<queue, got, msg, pc, prio, buf, made, is_open>>
    BY Zenon, SMTT(30), <1>4 DEF Clone, receiver
  <2>2. life[u] = None /\ life' = [life EXCEPT ![u] = "live"]
    BY Zenon, <1>4 DEF Clone
  <2>3. Sound(s)' => Sound(s)
    BY Zenon, SMTT(30), <1>0, <2>1, <2>2 DEF Sound, None
  <2>4. Current(s)' = Current(s) /\ Top(s, p)' = Top(s, p) /\ UnderWay' = UnderWay
    BY Zenon, SMTT(30), <2>1 DEF Current, Message, Top, UnderWay
  <2> QED
    BY ZenonT(30), <1>2, <2>1, <2>3, <2>4, FifoKept
<1>5. ASSUME NEW t \in Senders, NEW l \in {"park", "push"}, StartSend(t, l)
      PROVE  Fifo(s, p)'
  BY Zenon, SMTT(30), <1>2, <1>5, FifoStart
<1>6. ASSUME NEW t \in Senders, ParkPush(t) \/ ParkLink(t) \/ ParkCheck(t)
      PROVE  Fifo(s, p)'
  <2>1. UNCHANGED <<queue, got, msg, prio, buf, made, life, is_open>>
    BY Zenon, SMTT(30), <1>6 DEF ParkPush, ParkLink, ParkCheck, Park, receiver
  <2>2. pc[t] \in Counted /\ \E l \in Counted : pc' = [pc EXCEPT ![t] = l]
    BY Zenon, SMTT(30), <1>6 DEF ParkPush, ParkLink, ParkCheck, Park, Goto, Counted
  <2>3. Sound(s)' => Sound(s)
    BY ZenonT(30), <1>0, <2>1, <2>2 DEF Sound
  <2>4. UnderWay' = UnderWay
    BY Zenon, SMTT(30), <1>0, <2>2 DEF UnderWay
  <2>5. Current(s)' = Current(s) /\ Top(s, p)' = Top(s, p)
    BY ZenonT(30), <2>1 DEF Current, Message, Top
  <2> QED
    BY ZenonT(30), <1>2, <2>1, <2>3, <2>4, <2>5, FifoKept
<1>7. ASSUME NEW t \in Senders, Push(t)
      PROVE  Fifo(s, p)'
  BY Zenon, SMTT(30), <1>2, <1>7, FifoPush
<1>8. ASSUME NEW t \in Senders, PushLink(t)
      PROVE  Fifo(s, p)'
  <2>1. /\ UNCHANGED <<got, msg, prio, buf, made, life, is_open>>
        /\ pc[t] = "link" /\ pc' = [pc EXCEPT ![t] = "wake"]
    BY ZenonT(30), <1>8 DEF PushLink, QueuePushAndSignal, Goto
  <2>2. UnderWay' = UnderWay
    BY Zenon, SMTT(30), <1>0, <2>1 DEF UnderWay, Counted
  <2>3. Sound(s)' => Sound(s)
    BY Zenon, SMTT(30), <1>0, <2>1 DEF Sound, Counted
  <2>4. Current(s)' = Current(s) /\ Top(s, p)' = Top(s, p)
    BY Zenon, SMTT(30), <2>1 DEF Current, Message, Top
  <2> QED
    BY ZenonT(30), <1>2, <1>8, <2>1, <2>2, <2>3, <2>4, FifoKept, QueueContents
<1>9. ASSUME NEW t \in Senders, Signal(t)
      PROVE  Fifo(s, p)'
  <2>1. /\ UNCHANGED <<queue, got, msg, buf, made, life, is_open>> /\ pc[t] = "wake"
        /\ \E l \in {"idle", "ready"} : pc' = [pc EXCEPT ![t] = l]
        /\ \A u \in Senders : u # t => prio'[u] = prio[u]
    BY Zenon, SMTT(30), <1>0, <1>9 DEF Signal, QueuePushAndSignal, Goto
  <2>2. UnderWay' = UnderWay /\ t \notin UnderWay
    BY Zenon, SMTT(30), <1>0, <2>1 DEF UnderWay, Counted
  <2>3. Sound(s)' => Sound(s)
    BY Zenon, SMTT(30), <1>0, <2>1 DEF Sound, Counted
  <2>4. s \in UnderWay => prio'[s] = prio[s] /\ Current(s)' = Current(s)
    BY ZenonT(30), <2>1, <2>2 DEF Current, Message
  <2>5. Top(s, p)' = Top(s, p)
    BY Zenon, SMTT(30), <2>1 DEF Top
  <2> QED
    BY ZenonT(30), <1>2, <2>1, <2>2, <2>3, <2>4, <2>5, FifoKept
<1>10. ASSUME NEW q \in Priority, NextMessage(q), Data(queue[q])
       PROVE  Fifo(s, p)'
  BY Zenon, SMTT(30), <1>2, <1>10, FifoPop
<1>11. ASSUME UNCHANGED <<queue, got, msg, pc, prio, buf, made, life>>, is_open' => is_open
       PROVE  Fifo(s, p)'
  <2>1. Sound(s)' => Sound(s)
    BY Zenon, SMTT(30), <1>11 DEF Sound
  <2>2. Current(s)' = Current(s) /\ Top(s, p)' = Top(s, p) /\ UnderWay' = UnderWay
    BY Zenon, SMTT(30), <1>11 DEF Current, Message, Top, UnderWay
  <2> QED
    BY ZenonT(30), <1>2, <1>11, <2>1, <2>2, FifoKept
<1>12. ASSUME NEW q \in Priority, NextMessage(q), ~Data(queue[q])
       PROVE  Fifo(s, p)'
  BY Zenon, SMTT(30), <1>11, <1>12 DEF NextMessage, senders
<1>13. CASE DecNumMessages
  BY Zenon, SMTT(30), <1>2, <1>13, FifoReturn, GotStep DEF DecNumMessages
<1>14. CASE UnparkOne \/ CheckState \/ Register \/ CloseNotify
  BY Zenon, SMTT(30), <1>11, <1>14 DEF UnparkOne, CheckState, Register, CloseNotify, senders, shared
<1>15. ASSUME NEW drop \in BOOLEAN, ReceiverClose(drop)
       PROVE  Fifo(s, p)'
  BY Zenon, SMTT(30), <1>11, <1>15 DEF ReceiverClose, senders
<1> QED
  BY Zenon, SMTT(30), <1>3, <1>4, <1>5, <1>6, <1>7, <1>8, <1>9, <1>10, <1>12, <1>13, <1>14, <1>15, Steps
     DEF ReceiverStep

-----------------------------------------------------------------------------

============================================================================
