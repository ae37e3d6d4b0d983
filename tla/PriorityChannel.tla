---------------------------- MODULE PriorityChannel ----------------------------
(***************************************************************************)
(* The priority mpsc channel (tentacle/src/channel) that tentacle's tasks  *)
(* talk through, bounded (bound.rs) or unbounded (unbound.rs), and the     *)
(* send buffers in front of it (buffer.rs).  Senders and the receiver run  *)
(* in parallel threads, so every access to a shared atomic, and every      *)
(* section under the sender's mutex, is a step of its own.  Each priority  *)
(* has its own lock-free queue (queue.rs), and a third one holds the       *)
(* handles of the senders that wait for room.                              *)
(***************************************************************************)
EXTENDS Integers, Sequences, FiniteSets

CONSTANTS
  Senders,     \* every Sender there may ever be
  First,       \* the one that channel() returns
  Kinds,       \* which channels may be created, see KindSet
  Buffer,      \* the buffer argument of channel()
  MaxMsg,      \* bound: messages each sender puts in, over both priorities
  Uses,        \* the priorities each sender sends with
  MayClose     \* who may call close or close_channel: senders, or "receiver"

Priority == {"high", "normal"}
\* A bounded channel, one whose senders are in PriorityBuffers, an unbounded channel.
KindSet == {"bounded", "buffered", "unbounded"}

ASSUME ChannelAssumption ==
  /\ IsFiniteSet(Senders) /\ First \in Senders /\ Kinds \subseteq KindSet
  /\ Buffer \in Nat /\ MaxMsg \in [Senders -> Nat]
  /\ Uses \in [Senders -> SUBSET Priority]

VARIABLES
  kind,                        \* a member of Kinds
  is_open, num_messages,       \* the two halves of the atomic state
  num_senders,
  queue,                       \* quick_message_queue and message_queue
  parked_queue,
  recv_task,                   \* a waker is registered in recv_task
  life,                        \* "none" | "live" | "gone": each Sender
  pc, prio,                    \* the call a sender makes and its priority
  maybe_parked, is_parked, task, woken,
  buf,                         \* high_buffer and normal_buffer of a PriorityBuffer
  made,                        \* how many messages were put in, per sender and priority
  rpc, second,                 \* the receiver's step; the second next_message of poll_next
  msg,                         \* the message it popped: a sequence of at most one
  recv_woken, inner, dropping,
  got,                         \* history: what the receiver returned
  overtaken                    \* history: normal messages popped past a high one

senders == <<life, pc, prio, maybe_parked, is_parked, task, woken, buf, made>>
receiver == <<rpc, second, msg, recv_woken, inner, dropping, got,
              overtaken>>
shared == <<is_open, num_messages, num_senders, queue, parked_queue, recv_task>>
vars == <<kind, shared, senders, receiver>>

None == "none"

(***************************************************************************)
(* queue.rs: push is a swap of head, then the store that links the new     *)
(* node.  A node whose link is missing hides the ones after it: pop says   *)
(* Inconsistent and pop_spin tries again, so here it waits.                *)
(***************************************************************************)
Swap(q, v) == Append(q, [v |-> v, linked |-> FALSE])
Link(q, v) == [i \in DOMAIN q |-> IF q[i].v = v THEN [q[i] EXCEPT !.linked = TRUE] ELSE q[i]]
Empty(q) == q = <<>>
Data(q) == q # <<>> /\ Head(q).linked

Bounded == kind # "unbounded"

Message(s, p, n) == [from |-> s, prio |-> p, n |-> n]
Total(f) == f["high"] + f["normal"]
\* The message a sender is pushing: the last one it put in that its buffer gave away.
Current(s) == Message(s, prio[s], made[s][prio[s]] - Len(buf[s][prio[s]]))

Init ==
  /\ kind \in Kinds
  /\ is_open = TRUE /\ num_messages = 0 /\ num_senders = 1
  /\ queue = [p \in Priority |-> <<>>] /\ parked_queue = <<>>
  /\ recv_task = FALSE
  /\ life = [s \in Senders |-> IF s = First THEN "live" ELSE None]
  /\ pc = [s \in Senders |-> "idle"] /\ prio = [s \in Senders |-> "normal"]
  /\ maybe_parked = [s \in Senders |-> FALSE] /\ is_parked = [s \in Senders |-> FALSE]
  /\ task = [s \in Senders |-> FALSE] /\ woken = [s \in Senders |-> FALSE]
  /\ buf = [s \in Senders |-> [p \in Priority |-> <<>>]]
  /\ made = [s \in Senders |-> [p \in Priority |-> 0]]
  /\ rpc = "idle" /\ second = FALSE /\ msg = <<>>
  /\ recv_woken = FALSE /\ inner = TRUE /\ dropping = FALSE
  /\ got = [s \in Senders |-> [p \in Priority |-> <<>>]] /\ overtaken = 0

(***************************************************************************)
(* The calls of a sender.                                                  *)
(***************************************************************************)
Goto(s, l) == pc' = [pc EXCEPT ![s] = l]

\* async_send, async_quick_send and QuickSend: wait for poll_ready, then send.
AsyncSend(s, p) ==
  /\ life[s] = "live" /\ pc[s] = "idle" /\ kind # "buffered"
  /\ Total(made[s]) < MaxMsg[s] /\ p \in Uses[s]
  /\ prio' = [prio EXCEPT ![s] = p]
  /\ Goto(s, "ready")
  /\ UNCHANGED <<kind, shared, receiver, life, maybe_parked, is_parked, task, woken, buf, made>>

\* try_send and try_quick_send: do not wait; here the lock drops the waker.
TrySend(s, p) ==
  /\ life[s] = "live" /\ pc[s] = "idle" /\ kind = "bounded"
  /\ Total(made[s]) < MaxMsg[s] /\ p \in Uses[s]
  /\ prio' = [prio EXCEPT ![s] = p]
  /\ IF maybe_parked[s] /\ is_parked[s]
     THEN /\ task' = [task EXCEPT ![s] = FALSE]
          /\ UNCHANGED <<maybe_parked, pc>>
     ELSE /\ maybe_parked' = [maybe_parked EXCEPT ![s] = FALSE]
          /\ Goto(s, "inc")
          /\ UNCHANGED task
  /\ UNCHANGED <<kind, shared, receiver, life, is_parked, woken, buf, made>>

\* unbounded_send and unbounded_quick_send: do_send_nb at once.
UnboundedSend(s, p) ==
  /\ life[s] = "live" /\ pc[s] = "idle" /\ kind = "unbounded"
  /\ Total(made[s]) < MaxMsg[s] /\ p \in Uses[s]
  /\ prio' = [prio EXCEPT ![s] = p]
  /\ Goto(s, "inc")
  /\ UNCHANGED <<kind, shared, receiver, life, maybe_parked, is_parked, task, woken, buf, made>>

\* PriorityBuffer::push_high and push_normal.
BufferPush(s, p) ==
  /\ life[s] = "live" /\ pc[s] \in {"idle", "pending"} /\ kind = "buffered"
  /\ Total(made[s]) < MaxMsg[s] /\ p \in Uses[s]
  /\ made' = [made EXCEPT ![s][p] = @ + 1]
  /\ buf' = [buf EXCEPT ![s][p] = Append(@, made[s][p] + 1)]
  /\ UNCHANGED <<kind, shared, receiver, life, pc, prio, maybe_parked, is_parked, task, woken>>

\* The next event PriorityBuffer::try_send takes: every high one first.
FrontPriority(b) == IF b["high"] # <<>> THEN "high" ELSE "normal"
BufferEmpty(b) == \A p \in Priority : b[p] = <<>>

\* PriorityBuffer::try_send, called again when its task is woken.
BufferTrySend(s) ==
  /\ life[s] = "live" /\ kind = "buffered"
  /\ pc[s] = "idle" \/ (pc[s] = "pending" /\ woken[s])
  /\ ~BufferEmpty(buf[s])
  /\ prio' = [prio EXCEPT ![s] = FrontPriority(buf[s])]
  /\ woken' = [woken EXCEPT ![s] = FALSE]
  /\ Goto(s, "ready")
  /\ UNCHANGED <<kind, shared, receiver, life, maybe_parked, is_parked, task, buf, made>>

\* Disconnected: a PriorityBuffer drops all that it holds.
Fail(s) ==
  /\ buf' = [buf EXCEPT ![s] = [p \in Priority |-> <<>>]]
  /\ Goto(s, "idle")

\* poll_unparked under the mutex; a Pending one leaves the waker of its task there.
PollUnparked(s) ==
  IF maybe_parked[s] /\ is_parked[s]
  THEN /\ task' = [task EXCEPT ![s] = TRUE]
       /\ Goto(s, "pending")
       /\ UNCHANGED maybe_parked
  ELSE /\ maybe_parked' = [maybe_parked EXCEPT ![s] = FALSE]
       /\ Goto(s, "inc")
       /\ UNCHANGED task

\* poll_ready: the load of the state, and poll_unparked if the channel is bounded.  A
\* close between the two shows at inc_num_messages, or as a close just after them.
PollReady(s) ==
  /\ pc[s] = "ready"
  /\ IF is_open
     THEN PollUnparked(s) /\ UNCHANGED buf
     ELSE Fail(s) /\ UNCHANGED <<maybe_parked, task>>
  /\ UNCHANGED <<kind, shared, receiver, life, prio, is_parked, woken, made>>

\* A woken task polls its async_send again.
Repoll(s) ==
  /\ pc[s] = "pending" /\ woken[s] /\ kind # "buffered"
  /\ woken' = [woken EXCEPT ![s] = FALSE]
  /\ Goto(s, "ready")
  /\ UNCHANGED <<kind, shared, receiver, life, prio, maybe_parked, is_parked, task, buf, made>>

\* Mutant: one message more than the buffer before a sender parks.
ParkSelfLate(num) == num > Buffer + 1

ParkSelf(num) == num > Buffer

\* do_send_b up to inc_num_messages: the compare_exchange that succeeds.
\* The buffer gives its front away, a caller without buffer puts its message in.
DoSendB(s) ==
  /\ pc[s] = "inc" /\ Bounded
  /\ IF is_open
     THEN /\ num_messages' = num_messages + 1
          /\ IF kind = "buffered"
             THEN buf' = [buf EXCEPT ![s][prio[s]] = Tail(@)] /\ UNCHANGED made
             ELSE made' = [made EXCEPT ![s][prio[s]] = @ + 1] /\ UNCHANGED buf
          /\ Goto(s, IF ParkSelf(num_messages + 1) THEN "park" ELSE "push")
     ELSE Fail(s) /\ UNCHANGED <<num_messages, made>>
  /\ UNCHANGED <<kind, is_open, num_senders, queue, parked_queue, recv_task, receiver,
                 life, prio, maybe_parked, is_parked, task, woken>>

\* do_send_nb: the same without parking.
DoSendNb(s) ==
  /\ pc[s] = "inc" /\ kind = "unbounded"
  /\ IF is_open
     THEN /\ num_messages' = num_messages + 1
          /\ made' = [made EXCEPT ![s][prio[s]] = @ + 1]
          /\ Goto(s, "push")
     ELSE Goto(s, "idle") /\ UNCHANGED <<num_messages, made>>
  /\ UNCHANGED <<kind, is_open, num_senders, queue, parked_queue, recv_task, receiver,
                 life, prio, maybe_parked, is_parked, task, woken, buf>>

\* park: the section under the mutex and the push of the handle, then the load of the
\* state.  Nobody else has the handle before the push, so the mutex is no step.
Park(s) ==
  /\ \/ /\ pc[s] = "park" /\ Goto(s, "parklink")
        /\ task' = [task EXCEPT ![s] = FALSE]
        /\ is_parked' = [is_parked EXCEPT ![s] = TRUE]
        /\ parked_queue' = Swap(parked_queue, s)
        /\ UNCHANGED maybe_parked
     \/ /\ pc[s] = "parklink" /\ Goto(s, "parkcheck")
        /\ parked_queue' = Link(parked_queue, s)
        /\ UNCHANGED <<task, is_parked, maybe_parked>>
     \/ /\ pc[s] = "parkcheck" /\ Goto(s, "push")
        /\ maybe_parked' = [maybe_parked EXCEPT ![s] = is_open]
        /\ UNCHANGED <<task, is_parked, parked_queue>>
  /\ UNCHANGED <<kind, is_open, num_messages, num_senders, queue, recv_task, receiver,
                 life, prio, woken, buf, made>>

\* AtomicWaker::wake, of futures: takes the waker and schedules its task.
WakeReceiver ==
  /\ recv_woken' = (recv_woken \/ recv_task)
  /\ recv_task' = FALSE

\* queue_push_and_signal, and the next turn of PriorityBuffer::try_send after it.
QueuePushAndSignal(s) ==
  /\ \/ /\ pc[s] = "push" /\ Goto(s, "link")
        /\ queue' = [queue EXCEPT ![prio[s]] = Swap(@, Current(s))]
        /\ UNCHANGED <<recv_task, recv_woken, prio>>
     \/ /\ pc[s] = "link" /\ Goto(s, "wake")
        /\ queue' = [queue EXCEPT ![prio[s]] = Link(@, Current(s))]
        /\ UNCHANGED <<recv_task, recv_woken, prio>>
     \/ /\ pc[s] = "wake"
        /\ WakeReceiver
        /\ prio' = [prio EXCEPT ![s] = FrontPriority(buf[s])]
        /\ Goto(s, IF BufferEmpty(buf[s]) THEN "idle" ELSE "ready")
        /\ UNCHANGED queue
  /\ UNCHANGED <<kind, is_open, num_messages, num_senders, parked_queue, life, maybe_parked,
                 is_parked, task, woken, buf, made, rpc, second, msg, inner,
                 dropping, got, overtaken>>

(***************************************************************************)
(* The life of the senders.                                                *)
(***************************************************************************)
Clone(s, t) ==
  /\ life[s] = "live" /\ life[t] = None
  /\ num_senders' = num_senders + 1
  /\ life' = [life EXCEPT ![t] = "live"]
  /\ UNCHANGED <<kind, is_open, num_messages, queue, parked_queue, recv_task, receiver,
                 pc, prio, maybe_parked, is_parked, task, woken, buf, made>>

\* close_channel: set_closed, then the wake-up of the receiver (CloseWake).
SetClosed(s) == is_open' = FALSE /\ Goto(s, "closewake")

\* Drop, disconnect and the sinks' poll_close: the last one closes the channel.
DropSender(s) ==
  /\ life[s] = "live" /\ pc[s] \in {"idle", "pending"}
  /\ num_senders' = num_senders - 1
  /\ life' = [life EXCEPT ![s] = "gone"]
  /\ buf' = [buf EXCEPT ![s] = [p \in Priority |-> <<>>]]
  /\ IF num_senders = 1 THEN SetClosed(s) ELSE Goto(s, "idle") /\ UNCHANGED is_open
  /\ UNCHANGED <<kind, num_messages, queue, parked_queue, recv_task, receiver,
                 prio, maybe_parked, is_parked, task, woken, made>>

CloseChannel(s) ==
  /\ life[s] = "live" /\ pc[s] = "idle" /\ s \in MayClose
  /\ SetClosed(s)
  /\ UNCHANGED <<kind, num_messages, num_senders, queue, parked_queue, recv_task, receiver,
                 life, prio, maybe_parked, is_parked, task, woken, buf, made>>

CloseWake(s) ==
  /\ pc[s] = "closewake" /\ Goto(s, "idle")
  /\ WakeReceiver
  /\ UNCHANGED <<kind, is_open, num_messages, num_senders, queue, parked_queue, life, prio,
                 maybe_parked, is_parked, task, woken, buf, made, rpc, second, msg, inner,
                 dropping, got, overtaken>>

(***************************************************************************)
(* The receiver.                                                           *)
(***************************************************************************)
\* poll_next starts with the first of its one or two calls of next_message.
Polls == inner /\ ~dropping /\ (rpc = "idle" \/ (rpc = "asleep" /\ recv_woken))

\* The queue next_message pops first, and the step it goes on with.
PopAt(p) == IF p = "high" THEN rpc = "quick" \/ Polls ELSE rpc = "normal"
PopFailed(p) == IF p = "high" THEN "normal" ELSE "state"

\* Mutant: a message from the quick queue unparks nobody.
NextMessageQuickly(p) ==
  /\ PopAt(p)
  /\ recv_woken' = (recv_woken /\ ~Polls)
  /\ \/ /\ Data(queue[p])
        /\ msg' = <<Head(queue[p]).v>>
        /\ queue' = [queue EXCEPT ![p] = Tail(@)]
        /\ rpc' = IF Bounded /\ p = "normal" THEN "unpark" ELSE "dec"
        /\ second' = FALSE
     \/ /\ Empty(queue[p])
        /\ rpc' = PopFailed(p)
        /\ UNCHANGED <<queue, msg, second>>
  /\ overtaken' = IF Empty(queue[p]) THEN overtaken
                  ELSE IF p = "normal" /\ Data(queue["high"]) THEN overtaken + 1 ELSE 0
  /\ UNCHANGED <<kind, is_open, num_messages, num_senders, parked_queue, recv_task, senders,
                 inner, dropping, got>>

\* The pops of next_message.  The bounded one unparks a sender before it counts.
NextMessage(p) ==
  /\ PopAt(p)
  /\ recv_woken' = (recv_woken /\ ~Polls)
  /\ \/ /\ Data(queue[p])
        /\ msg' = <<Head(queue[p]).v>>
        /\ queue' = [queue EXCEPT ![p] = Tail(@)]
        /\ rpc' = IF Bounded THEN "unpark" ELSE "dec"
        /\ second' = FALSE
     \/ /\ Empty(queue[p])
        /\ rpc' = PopFailed(p)
        /\ UNCHANGED <<queue, msg, second>>
  /\ overtaken' = IF Empty(queue[p]) THEN overtaken
                  ELSE IF p = "normal" /\ Data(queue["high"]) THEN overtaken + 1 ELSE 0
  /\ UNCHANGED <<kind, is_open, num_messages, num_senders, parked_queue, recv_task, senders,
                 inner, dropping, got>>

\* Mutant: the sender is unparked and its task not woken.
NotifySilently(s) ==
  /\ is_parked' = [is_parked EXCEPT ![s] = FALSE]
  /\ woken' = [woken EXCEPT ![s] = @]
  /\ task' = [task EXCEPT ![s] = FALSE]

\* SenderTask::notify, under the mutex of the handle that was popped.
Notify(s) ==
  /\ is_parked' = [is_parked EXCEPT ![s] = FALSE]
  /\ woken' = [woken EXCEPT ![s] = @ \/ task[s]]
  /\ task' = [task EXCEPT ![s] = FALSE]

\* The next handle of parked_queue is popped and notified.  Only the receiver pops, so
\* no step of another thread tells the pop from the notification.
NotifyParked ==
  /\ Data(parked_queue)
  /\ parked_queue' = Tail(parked_queue)
  /\ Notify(Head(parked_queue).v)

UnparkOne ==
  /\ rpc = "unpark"
  /\ rpc' = "dec"
  /\ \/ NotifyParked
     \/ Empty(parked_queue) /\ UNCHANGED <<parked_queue, is_parked, woken, task>>
  /\ UNCHANGED <<kind, is_open, num_messages, num_senders, queue, recv_task, life, pc, prio,
                 maybe_parked, buf, made, second, msg, recv_woken, inner, dropping, got,
                 overtaken>>

\* dec_num_messages; the message is returned, or forgotten by a receiver that is dropped.
DecNumMessages ==
  /\ rpc = "dec"
  /\ num_messages' = num_messages - 1
  /\ got' = IF dropping THEN got ELSE [got EXCEPT ![Head(msg).from][Head(msg).prio] = Append(@, Head(msg).n)]
  /\ msg' = <<>>
  /\ rpc' = IF dropping THEN "quick" ELSE "idle"
  /\ UNCHANGED <<kind, is_open, num_senders, queue, parked_queue, recv_task, senders, second,
                 recv_woken, inner, dropping, overtaken>>

\* Mutant: the end of the stream without waiting for messages that are counted.
is_closed_flag == ~is_open

is_closed == ~is_open /\ num_messages = 0

\* Both queues were empty.  Drop spins, poll_next registers and looks once more.
CheckState ==
  /\ rpc = "state"
  /\ IF is_closed
     THEN inner' = FALSE /\ rpc' = "done"
     ELSE /\ rpc' = IF dropping THEN "quick" ELSE IF second THEN "asleep" ELSE "register"
          /\ UNCHANGED inner
  /\ second' = FALSE
  /\ UNCHANGED <<kind, shared, senders, msg, recv_woken, dropping, got, overtaken>>

\* AtomicWaker::register, of futures.
Register ==
  /\ rpc = "register"
  /\ recv_task' = TRUE
  /\ second' = TRUE
  /\ rpc' = "quick"
  /\ UNCHANGED <<kind, is_open, num_messages, num_senders, queue, parked_queue, senders, msg,
                 recv_woken, inner, dropping, got, overtaken>>

\* Receiver::close, and Drop, which calls it first: set_closed, then the loop that
\* notifies every parked sender.  The unbounded one has nobody to notify.
ReceiverClose(drop) ==
  /\ rpc \in {"idle", "asleep"} /\ inner /\ ~dropping /\ (drop \/ is_open)
  /\ "receiver" \in MayClose
  /\ is_open' = FALSE
  /\ dropping' = drop
  /\ rpc' = IF Bounded THEN "drain" ELSE IF drop THEN "quick" ELSE "idle"
  /\ UNCHANGED <<kind, num_messages, num_senders, queue, parked_queue, recv_task, senders,
                 second, msg, recv_woken, inner, got, overtaken>>

CloseNotify ==
  /\ rpc = "drain"
  /\ \/ NotifyParked /\ UNCHANGED rpc
     \/ /\ Empty(parked_queue)
        /\ rpc' = IF dropping THEN "quick" ELSE "idle"
        /\ UNCHANGED <<parked_queue, is_parked, woken, task>>
  /\ UNCHANGED <<kind, is_open, num_messages, num_senders, queue, recv_task, life, pc, prio,
                 maybe_parked, buf, made, second, msg, recv_woken, inner, dropping, got,
                 overtaken>>

SenderStep(s) ==
  PollReady(s) \/ Repoll(s) \/ DoSendB(s) \/ DoSendNb(s) \/ Park(s)
    \/ QueuePushAndSignal(s) \/ CloseWake(s)
ReceiverStep ==
  (\E p \in Priority : NextMessage(p)) \/ UnparkOne \/ DecNumMessages
    \/ CheckState \/ Register \/ CloseNotify

Next ==
  \/ \E s \in Senders, p \in Priority :
       AsyncSend(s, p) \/ TrySend(s, p) \/ UnboundedSend(s, p) \/ BufferPush(s, p)
  \/ \E s \in Senders :
       BufferTrySend(s) \/ DropSender(s) \/ CloseChannel(s) \/ SenderStep(s)
  \/ \E s, t \in Senders : Clone(s, t)
  \/ \E drop \in BOOLEAN : ReceiverClose(drop)
  \/ ReceiverStep

Spec == Init /\ [][Next]_vars

\* Threads that are inside a call go on; a woken task is polled again; the receiver's
\* task polls until the end of the stream; the owner of a buffer flushes it when it is
\* woken and after a push.
FairSpec ==
  /\ Spec
  /\ \A s \in Senders :
       /\ WF_vars(SenderStep(s))
       /\ WF_vars(BufferTrySend(s))
  /\ WF_vars(ReceiverStep)

-----------------------------------------------------------------------------
(***************************************************************************)
(* Properties                                                              *)
(***************************************************************************)
Counted == {"park", "parklink", "parkcheck", "push"}
Calls == Counted \cup {"idle", "ready", "pending", "inc", "link", "wake",
                       "closewake"}

\* The types of the variables.
TypeOK ==
  /\ kind \in Kinds /\ is_open \in BOOLEAN /\ recv_task \in BOOLEAN
  /\ num_messages \in Nat /\ num_senders \in 0 .. Cardinality(Senders)
  /\ \A p \in Priority : \A i \in DOMAIN queue[p] : queue[p][i].v.prio = p
  /\ \A i \in DOMAIN parked_queue : parked_queue[i].v \in Senders
  /\ life \in [Senders -> {None, "live", "gone"}]
  /\ pc \in [Senders -> Calls] /\ prio \in [Senders -> Priority]
  /\ {maybe_parked, is_parked, task, woken} \subseteq [Senders -> BOOLEAN]
  /\ Len(msg) <= 1 /\ (\A i \in DOMAIN msg : msg[i].from \in Senders)
  /\ rpc \in {"idle", "quick", "normal", "state", "register", "unpark", "dec",
              "drain", "asleep", "done"}

UnderWay == {s \in Senders : pc[s] \in Counted}
InQueue == Len(queue["high"]) + Len(queue["normal"])
Popped == Len(msg)

\* The atomic count is exact at every moment: the messages in the queues, those a sender
\* has counted and not pushed yet, and the one popped and not yet discounted.  So the
\* fetch_sub of dec_num_messages never reaches the bit of the open flag.  And do_send_b and
\* park hold the senders back: however the threads interleave, no more than the buffer and
\* one message per sender that ever existed wait in the channel.
CountIsExact ==
  /\ TypeOK
  /\ num_messages = InQueue + Cardinality(UnderWay) + Popped
  /\ Bounded =>
       num_messages - Popped <= Buffer + Cardinality({s \in Senders : life[s] # None})

\* The handle of a sender that park() blocks
\* stands in parked_queue within reach of the messages that are still to be popped
\* (each pop unparks one), or the closing receiver is about to notify it.
BlockedSenderWillBeNotified ==
  \A s \in Senders :
    maybe_parked[s] /\ is_parked[s] =>
      \/ \E i \in DOMAIN parked_queue :
           /\ parked_queue[i].v = s
           /\ \/ rpc = "drain"
              \/ i <= InQueue + Cardinality(UnderWay) + (IF rpc = "unpark" THEN 1 ELSE 0)

\* poll_next sleeps past no message and no end of the stream: while it sleeps, whoever
\* pushed or closed is still about to wake it.
ReceiverWillBeWoken ==
  rpc = "asleep" /\ ~recv_woken =>
    /\ (\E p \in Priority : Data(queue[p])) => \E s \in Senders : pc[s] = "wake"
    /\ is_closed => \E s \in Senders : pc[s] = "closewake"

\* No wake-up is lost, of a sender that waits for room or of the receiver, in whatever
\* order the accesses to the count, the queues, the parked senders and the waker fall.
NoLostWakeUp == BlockedSenderWillBeNotified /\ ReceiverWillBeWoken

Upto(n) == [i \in 1 .. n |-> i]
\* The numbers of the messages that s sent with priority p and that are in the queue or
\* counted and not pushed yet, and how many the receiver has popped.
OnTheWay(s, p) ==
  {queue[p][i].v.n : i \in {j \in 1 .. Len(queue[p]) : queue[p][j].v.from = s}}
    \cup (IF s \in UnderWay /\ prio[s] = p THEN {Current(s).n} ELSE {})
Taken(s, p) ==
  Len(got[s][p]) +
    (IF \E i \in 1 .. Len(msg) : msg[i].from = s /\ msg[i].prio = p THEN 1 ELSE 0)
Sent(s, p) == Taken(s, p) + Cardinality(OnTheWay(s, p))

\* What was returned is 1, 2, 3 ...; the message that is popped goes on with it, then
\* those in the queue, from its head on, and at last the one that is about to be pushed.
InOrder(s, p) ==
  /\ got[s][p] = Upto(Len(got[s][p]))
  /\ \A i \in 1 .. Len(msg) :
       msg[i].from = s /\ msg[i].prio = p => msg[i].n = Len(got[s][p]) + 1
  /\ \A j \in 1 .. Len(queue[p]) :
       queue[p][j].v.from = s =>
         /\ \A i \in 1 .. j - 1 :
              queue[p][i].v.from = s => queue[p][i].v.n < queue[p][j].v.n
         /\ s \in UnderWay /\ prio[s] = p => queue[p][j].v.n < Current(s).n
  /\ OnTheWay(s, p) = Taken(s, p) + 1 .. Sent(s, p)

\* FIFO per sender and priority, from the buffer to the receiver: what was returned, what
\* is on its way and what the buffer holds are the messages put in, in their order; none
\* is missing while the channel is open and the sender exists, nor when next_message has
\* returned None.  Between the priorities, a high message that can be popped is overtaken
\* by at most one normal message, the one being popped just then.
InOrderNothingLost ==
  /\ \A s \in Senders, p \in Priority :
       ~dropping =>
         /\ InOrder(s, p)
         /\ is_open /\ life[s] # "gone" =>
              /\ made[s][p] = Sent(s, p) + Len(buf[s][p])
              /\ \A i \in 1 .. Len(buf[s][p]) : buf[s][p][i] = Sent(s, p) + i
  /\ rpc = "done" => InQueue = 0 /\ UnderWay = {}
  /\ overtaken <= 1

\* Every send ends, and every flush of a buffer: as long as the receiver polls or is
\* dropped, no sender waits for ever in poll_ready.  When the last sender is dropped the
\* receiver sees the end of the stream.
SendEnds ==
  /\ \A s \in Senders : (pc[s] # "idle") ~> (pc[s] = "idle")
  /\ (num_senders = 0) ~> (rpc = "done")

=============================================================================
