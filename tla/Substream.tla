------------------------------- MODULE Substream -------------------------------
(***************************************************************************)
(* One protocol stream of a session (tentacle/src/substream.rs) with the   *)
(* handle it feeds (module ProtocolHandle).  Substream reads and writes in *)
(* one task and passes what it reads to a handle; with spawn, the writing  *)
(* half SubstreamWritePart is a task of its own and the user's code owns   *)
(* SubstreamReadPart.  Around it: the session (its channel to the stream,  *)
(* its receiver, the shared flag closed), the yamux stream below, and the  *)
(* detached tasks that close_proto_stream starts.                          *)
(*                                                                         *)
(* A poll is: the check of dead and closed with flush; then recv_frame and *)
(* recv_event.  close_proto_stream is two steps, because it reads the flag *)
(* closed more than once.                                                  *)
(***************************************************************************)
EXTENDS ProtocolHandle

CONSTANTS
  Inbound,          \* the data the peer sends, in order
  Setups,           \* the set-ups of the protocol: spawn, keep_buffer, the handles, the
                    \* priorities the session uses, and the bounds out and in on the
                    \* messages of the session and of the peer
  ChanSize,         \* capacity of the channel from the session
  SessionSize,      \* capacity of the channel to the session
  SinkSize,         \* frames the Framed sink holds before poll_ready is Pending
  SendEventSize, RecvEventSize   \* send_event_size(), recv_event_size()

ASSUME SubstreamAssumption ==
  /\ Setups \subseteq [spawn : BOOLEAN, keep : BOOLEAN, handles : SUBSET Kinds,
                  prios : SUBSET {"high", "normal"}, out : Nat, in : 0 .. Len(Inbound)]
  /\ \A c \in Setups : c.spawn => c.handles = {}
  /\ {ChanSize, SessionSize, SinkSize, SendEventSize, RecvEventSize} \subseteq Nat \ {0}
  /\ Inbound \in Seq(STRING) /\ \A i \in DOMAIN Inbound : Inbound[i] \notin Controls

VARIABLES
  config,                          \* the set-up, which never changes
  dead, high_write_buf, write_buf, event_sender,
  hbuf,                            \* the buffers in front of the handles
  chan, senders, listening,        \* event_receiver: queues, who holds senders, not closed
  to_session, session_open,        \* the session's receiver
  tasks,                           \* detached tasks: [to, events]
  sink, credit, broken, accepted,  \* Framed sink; room in the yamux stream; its state; history
  inq, arrived, part,              \* frames to read; how many came; the user's read part
  pc, ret, awake, wakers,
  pending_data_size, asked, lost   \* lost: the stream ended without a word

buffers == <<dead, high_write_buf, write_buf, event_sender, hbuf>>
channels == <<chan, senders, listening, to_session, session_open, tasks>>
network == <<sink, credit, broken, accepted, inq, arrived, part>>
loop == <<pc, ret, awake, wakers>>
counts == <<pending_data_size, asked, lost>>
vars == <<config, buffers, channels, network, loop, counts, flags, handle>>

Queue == [high |-> <<>>, normal |-> <<>>]
Size(q) == Len(q.high) + Len(q.normal)
Close == [n |-> 0, ok |-> TRUE]
Prio == {"high", "normal"}

Init ==
  /\ HandleInit
  /\ config \in Setups
  /\ dead = FALSE /\ high_write_buf = <<>> /\ write_buf = <<>> /\ event_sender = <<>>
  /\ hbuf = [k \in Kinds |-> IF k \in config.handles THEN <<Opened(k)>> ELSE <<>>]
  /\ chan = Queue /\ listening = TRUE
  /\ senders = IF config.spawn THEN {"session", "part"} ELSE {"session"}
  /\ to_session = <<>> /\ session_open = TRUE /\ tasks = <<>>
  /\ sink = <<>> /\ credit = 0 /\ broken = "no" /\ accepted = <<>>
  /\ inq = <<>> /\ arrived = 0 /\ part = IF config.spawn THEN "open" ELSE "none"
  /\ pc = "head" /\ ret = "done" /\ awake = TRUE /\ wakers = {}
  /\ pending_data_size = 0 /\ asked = 0 /\ lost = FALSE

(***************************************************************************)
(* The functions of impl Substream, on the part of the state they change.  *)
(* err is the io::Error a `?` returns, "no" when there is none.            *)
(***************************************************************************)
Now == [dead |-> dead, high |-> high_write_buf, normal |-> write_buf,
        event_sender |-> event_sender, hbuf |-> hbuf, hchan |-> hchan,
        to_session |-> to_session, sink |-> sink, credit |-> credit, accepted |-> accepted,
        wakers |-> wakers, pending |-> pending_data_size, err |-> "no", full |-> FALSE]

Become(w) ==
  /\ dead' = w.dead /\ high_write_buf' = w.high /\ write_buf' = w.normal
  /\ event_sender' = w.event_sender /\ hbuf' = w.hbuf /\ hchan' = w.hchan
  /\ to_session' = w.to_session /\ sink' = w.sink /\ credit' = w.credit
  /\ accepted' = w.accepted /\ wakers' = w.wakers /\ pending_data_size' = w.pending

\* poll_flush of the sink: as many frames as the yamux stream takes.
poll_complete(w) ==
  LET n == Min({w.credit, Len(w.sink)})
  IN  IF w.sink # <<>> /\ broken # "no" THEN [w EXCEPT !.err = broken]
      ELSE [w EXCEPT !.sink = SubSeq(@, n + 1, Len(@)), !.credit = @ - n,
                     !.wakers = IF n < Len(w.sink) THEN @ \cup {"write"} ELSE @]

\* Mutant: a frame that did not fit goes to the back of the queue.
send_innerBack(w, prio) ==
  LET v == IF Len(w.sink) >= SinkSize THEN poll_complete(w) ELSE w
      f == Head(w[prio])
  IN  IF v.err # "no" THEN [v EXCEPT ![prio] = Tail(@)]
      ELSE IF Len(v.sink) >= SinkSize THEN [poll_complete([v EXCEPT ![prio] = Append(Tail(@), f)]) EXCEPT !.full = TRUE]
      ELSE IF ~f.ok THEN [v EXCEPT ![prio] = Tail(@), !.err = "other"]
      ELSE [v EXCEPT ![prio] = Tail(@), !.sink = Append(@, f.n), !.pending = @ - 1,
                     !.accepted = Append(@, [prio |-> prio, n |-> f.n])]

\* poll_ready, then start_send; a sink that is full leaves the frame where it was.
\* The codec refuses a frame that is not ok.
send_inner(w, prio) ==
  LET v == IF Len(w.sink) >= SinkSize THEN poll_complete(w) ELSE w
      f == Head(w[prio])
  IN  IF v.err # "no" THEN [v EXCEPT ![prio] = Tail(@)]
      ELSE IF Len(v.sink) >= SinkSize THEN [poll_complete(v) EXCEPT !.full = TRUE]
      ELSE IF ~f.ok THEN [v EXCEPT ![prio] = Tail(@), !.err = "other"]
      ELSE [v EXCEPT ![prio] = Tail(@), !.sink = Append(@, f.n), !.pending = @ - 1,
                     !.accepted = Append(@, [prio |-> prio, n |-> f.n])]

send_data(w) ==
  LET Step(v, prio) == IF v.full \/ v.err # "no" THEN v ELSE send_inner(v, prio)
      turns == [i \in 1 .. (Len(w.high) + Len(w.normal)) |->
                  IF i <= Len(w.high) THEN "high" ELSE "normal"]
      v == FoldLeft(Step, w, turns)
  IN  IF v.full \/ v.err # "no" THEN [v EXCEPT !.full = FALSE] ELSE poll_complete(v)

\* output: what fits goes to the session; when the session is gone the stream is dead.
output(w) ==
  LET n == Min({Len(w.event_sender), SessionSize - Len(w.to_session)})
  IN  IF w.event_sender # <<>> /\ ~session_open
      THEN [w EXCEPT !.event_sender = <<>>, !.dead = TRUE]
      ELSE [w EXCEPT !.to_session = @ \o SubSeq(w.event_sender, 1, n),
                     !.event_sender = SubSeq(@, n + 1, Len(@)),
                     !.wakers = IF n < Len(w.event_sender) THEN @ \cup {"session"} ELSE @]

output_event(w, e) == output([w EXCEPT !.event_sender = Append(@, e)])

\* Mutant: the task of the stream is not woken when the handle has room.
ToHandleSilently(w, k) ==
  LET n == Min({Len(w.hbuf[k]), HandleSize - Len(w.hchan[k])})
  IN  IF w.hbuf[k] # <<>> /\ ~receiving[k]
      THEN [w EXCEPT !.hbuf[k] = <<>>, !.dead = TRUE]
      ELSE [w EXCEPT !.hchan[k] = @ \o SubSeq(w.hbuf[k], 1, n),
                     !.hbuf[k] = SubSeq(@, n + 1, Len(@)),
                     !.wakers = IF n < Len(w.hbuf[k]) THEN @ ELSE @]

\* try_send of the buffer in front of handle k.
ToHandle(w, k) ==
  LET n == Min({Len(w.hbuf[k]), HandleSize - Len(w.hchan[k])})
  IN  IF w.hbuf[k] # <<>> /\ ~receiving[k]
      THEN [w EXCEPT !.hbuf[k] = <<>>, !.dead = TRUE]
      ELSE [w EXCEPT !.hchan[k] = @ \o SubSeq(w.hbuf[k], 1, n),
                     !.hbuf[k] = SubSeq(@, n + 1, Len(@)),
                     !.wakers = IF n < Len(w.hbuf[k]) THEN @ \cup {"handle"} ELSE @]

distribute_to_user_level(w) ==
  LET v == FoldLeft(ToHandle, w, SetToSeq(config.handles))
  IN  IF v.dead THEN output(v) ELSE v

flush(w) ==
  LET v == poll_complete(w)
      u == IF \E k \in config.handles : v.hbuf[k] # <<>> THEN distribute_to_user_level(v) ELSE v
  IN  IF v.err # "no" THEN v
      ELSE IF u.event_sender # <<>> \/ u.normal # <<>> \/ u.high # <<>> THEN send_data(output(u))
      ELSE u

\* handle_proto_event, for what the session sent.
handle_proto_event(w, e, prio) ==
  IF e = Close THEN [w EXCEPT !.normal = <<>>, !.dead = TRUE]
  ELSE LET v == send_data([w EXCEPT ![prio] = Append(@, e)])
       IN  IF v.err = "no" THEN v
           ELSE [output_event([v EXCEPT !.err = "no"], "Error") EXCEPT !.dead = TRUE]

(***************************************************************************)
(* close_proto_stream, error_close and poll_next.                          *)
(***************************************************************************)
Wake(S) ==
  /\ wakers' = wakers \ S
  /\ awake' = (awake \/ (pc # "done" /\ wakers \cap S # {}))

\* close_proto_stream up to the handles: a detached task brings each of them what its
\* buffer holds and the end.  next is where the poll goes on after the second half.
CloseHandles(w, next) ==
  /\ Become([w EXCEPT !.hbuf = [k \in Kinds |-> <<>>],
                      !.event_sender = IF config.spawn \/ config.keep THEN @ ELSE <<>>])
  /\ listening' = FALSE
  /\ tasks' = tasks \o SetToSeq({[to |-> k,
                 events |-> w.hbuf[k] \o (IF k = "service" THEN <<"Disconnected">>
                                         ELSE IF closed THEN <<"Closed", "Disconnected">>
                                         ELSE <<"Closed">>)] : k \in config.handles})
  /\ pc' = "report" /\ ret' = next

\* error_close: a broken connection ends here; another error is reported and the stream
\* is closed.
error_close(w, kind, next) ==
  IF kind = "net"
  THEN Become([w EXCEPT !.dead = TRUE]) /\ pc' = next /\ UNCHANGED <<listening, tasks, ret>>
  ELSE CloseHandles([w EXCEPT !.dead = TRUE, !.event_sender = Append(@, "Error")], next)

unpolled == <<config, chan, senders, session_open, broken, arrived, part, asked, flags>>
handle_alone == <<hpc, cur, receiving, known, calls, notify, timers, fired, stop, reports>>

PollHead ==
  /\ pc = "head" /\ awake /\ awake' = FALSE
  /\ LET w == [Now EXCEPT !.wakers = {}]
         v == flush(w)
     IN  IF dead \/ closed THEN CloseHandles(w, "done") /\ UNCHANGED lost
         ELSE IF v.err # "no"
         THEN /\ error_close([v EXCEPT !.err = "no"], v.err, "done")
              /\ lost' = (v.err = "net")
         ELSE Become(v) /\ pc' = "recv" /\ UNCHANGED <<listening, tasks, ret, lost>>
  /\ UNCHANGED <<unpolled, handle_alone, inq>>

\* Mutant: Close goes through the buffer, and is lost with it when the session is busy.
ReportTries ==
  /\ pc = "report" /\ pc' = ret
  /\ IF closed
     THEN Become(output(Now)) /\ UNCHANGED tasks
     ELSE /\ Become(output_event(Now, "Close")) /\ UNCHANGED tasks
  /\ UNCHANGED <<unpolled, handle_alone, listening, ret, awake, inq, lost>>

\* The second half: the session hears of it unless it is closing itself.
Report ==
  /\ pc = "report" /\ pc' = ret
  /\ IF closed
     THEN Become(output(Now)) /\ UNCHANGED tasks
     ELSE /\ Become([Now EXCEPT !.event_sender = <<>>])
          /\ tasks' = Append(tasks, [to |-> "owner", events |-> Append(event_sender, "Close")])
  /\ UNCHANGED <<unpolled, handle_alone, listening, ret, awake, inq, lost>>

\* recv_event, at the end of the poll: nothing is taken from the session while too much
\* is unwritten.
recv_event(w, ready) ==
  /\ pc' = "head"
  /\ \/ /\ w.dead \/ (chan = Queue /\ senders = {} /\ Len(w.normal) <= SendEventSize)
        /\ Become([w EXCEPT !.dead = TRUE]) /\ awake' = TRUE /\ UNCHANGED chan
     \/ /\ ~w.dead /\ Len(w.normal) > SendEventSize
        /\ Become(w) /\ awake' = (awake \/ ready) /\ UNCHANGED chan
     \/ /\ ~w.dead /\ Len(w.normal) <= SendEventSize
        /\ \E prio \in Prio :
             /\ chan[prio] # <<>> /\ chan' = [chan EXCEPT ![prio] = Tail(@)]
             /\ Become(handle_proto_event(w, Head(chan[prio]), prio))
        /\ awake' = TRUE
     \/ /\ ~w.dead /\ Len(w.normal) <= SendEventSize /\ chan = Queue /\ senders # {}
        /\ Become([w EXCEPT !.wakers = @ \cup {"event"}])
        /\ awake' = (awake \/ ready) /\ UNCHANGED chan
  /\ UNCHANGED <<listening, tasks, ret>>

\* recv_frame: the stream stops reading while a handle is too far behind.  The writing
\* half of a spawned protocol does not read at all.
Behind == \E k \in config.handles : Len(hbuf[k]) > RecvEventSize
Received(w, x) ==
  distribute_to_user_level([w EXCEPT !.hbuf = [k \in Kinds |->
                             IF k \in config.handles THEN Append(@[k], x) ELSE @[k]]])

recv_frame ==
  /\ pc = "recv"
  /\ \/ /\ config.spawn \/ dead \/ Behind
        /\ recv_event(Now, FALSE) /\ UNCHANGED inq
     \/ /\ ~(config.spawn \/ dead \/ Behind) /\ inq = <<>>
        /\ recv_event([Now EXCEPT !.wakers = @ \cup {"read"}], FALSE) /\ UNCHANGED inq
     \/ /\ ~(config.spawn \/ dead \/ Behind) /\ inq # <<>> /\ inq' = Tail(inq)
        /\ CASE Head(inq) = "bad" ->
                  error_close(Now, "other", "head") /\ awake' = TRUE /\ UNCHANGED chan
             [] Head(inq) = "reset" ->
                  error_close(Now, "net", "head") /\ awake' = TRUE /\ UNCHANGED chan
             [] Head(inq) = "eof" -> recv_event([Now EXCEPT !.dead = TRUE], TRUE)
             [] OTHER -> recv_event(Received(Now, Head(inq)), TRUE)
  /\ UNCHANGED <<config, senders, session_open, broken, arrived, part, asked, flags, lost, handle_alone>>

Poll == PollHead \/ Report \/ recv_frame

(***************************************************************************)
(* The tasks beside it: detached ones, the session, the peer, the user.    *)
(***************************************************************************)
stream == <<buffers, pc, ret, lost>>

Task(i) ==
  /\ i \in DOMAIN tasks
  /\ LET t == tasks[i]
         rest == IF Len(t.events) = 1 THEN RemoveAt(tasks, i)
                 ELSE [tasks EXCEPT ![i].events = Tail(@)]
         gone == RemoveAt(tasks, i)
     IN  \/ /\ t.to = "owner" /\ session_open /\ Len(to_session) < SessionSize
            /\ to_session' = Append(to_session, Head(t.events)) /\ tasks' = rest
            /\ UNCHANGED <<hchan, chan, senders, wakers, awake>>
         \/ /\ t.to \in Kinds /\ receiving[t.to] /\ Len(hchan[t.to]) < HandleSize
            /\ hchan' = [hchan EXCEPT ![t.to] = Append(@, Head(t.events))] /\ tasks' = rest
            /\ UNCHANGED <<to_session, chan, senders, wakers, awake>>
         \/ /\ t.to = "stream" /\ listening /\ Size(chan) < ChanSize
            /\ chan' = [chan EXCEPT !.normal = Append(@, Close)] /\ tasks' = rest
            /\ senders' = senders \ {"part"} /\ Wake({"event"}) /\ UNCHANGED <<to_session, hchan>>
         \/ /\ \/ t.to = "owner" /\ ~session_open
               \/ t.to \in Kinds /\ ~receiving[t.to]
               \/ t.to = "stream" /\ ~listening
            /\ tasks' = gone /\ senders' = senders \ (IF t.to = "stream" THEN {"part"} ELSE {})
            /\ UNCHANGED <<to_session, hchan, chan, wakers, awake>>
  /\ UNCHANGED <<config, stream, listening, session_open, network, pending_data_size, asked, flags, handle_alone>>

\* The session: messages, close_protocol, its receiver, and its own end.
session_only == <<config, stream, listening, tasks, network, handle, closed, shutdown>>

SessionSend(prio, ok) ==
  /\ asked < config.out /\ asked' = asked + 1
  /\ IF ok THEN UNCHANGED faults ELSE Fault("encode")
  /\ "session" \in senders /\ listening /\ Size(chan) < ChanSize
  /\ chan' = [chan EXCEPT ![prio] = Append(@, [n |-> asked + 1, ok |-> ok])]
  /\ pending_data_size' = pending_data_size + 1 /\ Wake({"event"})
  /\ UNCHANGED <<session_only, senders, to_session, session_open>>

SessionShut ==
  /\ Fault("shut") /\ "session" \in senders /\ listening /\ Size(chan) < ChanSize
  /\ chan' = [chan EXCEPT !.high = Append(@, Close)] /\ Wake({"event"})
  /\ UNCHANGED <<session_only, senders, to_session, session_open, pending_data_size, asked>>

Left(S) == IF S = {} THEN {"event"} ELSE {}
SessionTake ==
  /\ to_session # <<>> /\ to_session' = Tail(to_session)
  /\ senders' = senders \ (IF Head(to_session) = "Close" THEN {"session"} ELSE {})
  /\ Wake({"session"} \cup Left(senders \ (IF Head(to_session) = "Close" THEN {"session"} ELSE {})))
  /\ UNCHANGED <<session_only, faults, chan, session_open, pending_data_size, asked>>

SessionCloses ==
  /\ ~closed /\ closed' = TRUE
  /\ UNCHANGED <<config, stream, channels, network, loop, pending_data_size, asked, shutdown, faults, handle>>

SessionGone ==
  /\ closed /\ session_open /\ session_open' = FALSE /\ to_session' = <<>>
  /\ senders' = senders \ {"session"} /\ Wake({"session"} \cup Left(senders \ {"session"}))
  /\ UNCHANGED <<session_only, faults, chan, pending_data_size, asked>>

\* The service stops; each handle is told to stop, by the service or by its session.
ServiceStops ==
  /\ Fault("stop") /\ ~shutdown /\ shutdown' = TRUE
  /\ UNCHANGED <<config, stream, channels, network, loop, pending_data_size, asked, closed, handle>>

HandleStop(k) ==
  /\ k \in config.handles /\ ~stop[k] /\ (IF k = "service" THEN shutdown ELSE closed)
  /\ stop' = [stop EXCEPT ![k] = TRUE]
  /\ UNCHANGED <<config, stream, channels, network, loop, pending_data_size, asked, flags,
                 hpc, cur, hchan, receiving, known, calls, notify, timers, fired, reports>>

HandleSteps(k) ==
  /\ k \in config.handles /\ HandleStep(k)
  /\ Wake(IF Len(hchan'[k]) < Len(hchan[k]) \/ ~receiving'[k] THEN {"handle"} ELSE {})
  /\ UNCHANGED <<config, stream, channels, network, pending_data_size, asked>>

\* The yamux stream: frames of the peer, its end, room for ours, the end of the session.
\* What comes after the task has ended, and room nobody waits for, make no difference
\* and are left out.
peer_only == <<config, stream, channels, pending_data_size, asked, closed, shutdown, handle, sink, accepted>>
Running == pc # "done" \/ part = "open"

PeerSend ==
  /\ Running /\ broken = "no" /\ arrived < config.in /\ arrived' = arrived + 1
  /\ inq' = Append(inq, Inbound[arrived + 1]) /\ Wake({"read"})
  /\ UNCHANGED <<peer_only, faults, credit, broken, part>>

PeerEnds(e) ==
  /\ Running /\ broken = "no" /\ arrived <= Len(Inbound) /\ Fault(e) /\ arrived' = Len(Inbound) + 1
  /\ inq' = Append(inq, e) /\ broken' = IF e = "reset" THEN "net" ELSE "no"
  /\ Wake({"read", "write"})
  /\ UNCHANGED <<peer_only, credit, part>>

Credit ==
  /\ Running /\ sink # <<>> /\ broken = "no" /\ credit = 0 /\ credit' = 1 /\ Wake({"write"})
  /\ UNCHANGED <<peer_only, faults, inq, arrived, broken, part>>

ConnectionEnds ==
  /\ Running /\ closed /\ broken = "no" /\ broken' = "net" /\ arrived' = Len(Inbound) + 1
  /\ inq' = Append(inq, "eof") /\ Wake({"read", "write"})
  /\ UNCHANGED <<peer_only, faults, credit, part>>

\* With spawn, the user reads, and drops the read part at the end or earlier; Drop sends
\* Close to the writing half.
UserRead ==
  /\ part = "open" /\ inq # <<>>
  /\ inq' = Tail(inq) /\ part' = IF Head(inq) \in {"eof", "bad", "reset"} THEN "ended" ELSE part
  /\ UNCHANGED <<config, stream, channels, loop, pending_data_size, asked, flags, handle, sink, credit,
                 broken, accepted, arrived>>

UserDrop ==
  /\ part \in {"open", "ended"} /\ part' = "dropped"
  /\ IF part = "open" THEN Fault("drop") ELSE UNCHANGED faults
  /\ tasks' = Append(tasks, [to |-> "stream", events |-> <<"Close">>])
  /\ UNCHANGED <<config, stream, chan, senders, listening, to_session, session_open, loop,
                 pending_data_size, asked, closed, shutdown, handle, sink, credit, broken, accepted, inq, arrived>>

Next ==
  \/ Poll \/ SessionShut \/ SessionTake \/ SessionCloses \/ SessionGone \/ ServiceStops
  \/ PeerSend \/ Credit \/ ConnectionEnds \/ UserRead \/ UserDrop
  \/ \E e \in {"eof", "bad", "reset"} : PeerEnds(e)
  \/ \E prio \in config.prios, ok \in BOOLEAN : SessionSend(prio, ok)
  \/ \E i \in DOMAIN tasks : Task(i)
  \/ \E k \in Kinds : HandleStop(k) \/ HandleSteps(k)

Spec == Init /\ [][Next]_vars

\* Weak fairness of Poll: its steps are the ones that change pc.
CanPoll == pc \in {"recv", "report"} \/ (pc = "head" /\ awake)
PollFairness == <>[]CanPoll => []<><<pc' # pc>>_vars

\* The other tasks run; a handle that is sent events takes one, since tokio::select
\* chooses among its branches at random.  Nothing obliges the peer, or the user before
\* the stream has ended.
Others ==
  \/ SessionTake \/ SessionGone \/ ConnectionEnds \/ UserRead
  \/ part = "ended" /\ UserDrop
  \/ \E i \in DOMAIN tasks : Task(i)
HandleLoop(k) == (HandleHead(k) \/ HandleRun(k) \/ HandleEnd(k)) /\ HandleSteps(k)
Fairness ==
  /\ PollFairness /\ WF_vars(Others)
  /\ \A k \in Kinds : /\ WF_vars(HandleLoop(k)) /\ WF_vars(HandleStop(k))
                      /\ SF_vars(HandleTake(k) /\ HandleSteps(k))
FairSpec == Spec /\ Fairness

(***************************************************************************)
(* Properties.                                                             *)
(***************************************************************************)
\* Every variable keeps the shape that the fields and channels of the code have.
TypeOK ==
  /\ config \in Setups /\ pc \in {"head", "recv", "report", "done"} /\ ret \in {"head", "done"}
  /\ Size(chan) <= ChanSize /\ Len(to_session) <= SessionSize /\ Len(sink) <= SinkSize
  /\ \A k \in Kinds : Len(hchan[k]) <= HandleSize /\ hpc[k] \in {"head", "select", "run", "done"}
  /\ senders \subseteq {"session", "part"} /\ pending_data_size \in Nat
  /\ wakers \subseteq {"read", "write", "event", "handle", "session"}
  /\ \A t \in Range(tasks) : t.events # <<>> /\ t.to \in Kinds \cup {"owner", "stream"}

Of(prio, q) == SelectSeq(q, LAMBDA f : f.prio = prio)
Numbers(q) == [i \in DOMAIN q |-> q[i].n]
Rising(q) == \A i, j \in DOMAIN q : i < j => q[i] < q[j]
Unsent == Len(high_write_buf) + Len(write_buf) + Len(SelectSeq(chan.high \o chan.normal, LAMBDA e : e # Close))
\* The messages of one priority go out in the order the session sent them, each once,
\* however often a full sink puts one back and whatever is cleared on the way.  While the
\* stream lives, pending_data_size is exactly what waits to be sent, so that a session is
\* not closed for data that has long left; and it never wraps below zero.
SentInOrder ==
  /\ TypeOK
  /\ \A prio \in Prio :
       Rising(Numbers(Of(prio, accepted)) \o Numbers(IF prio = "high" THEN high_write_buf ELSE write_buf)
              \o Numbers(SelectSeq(chan[prio], LAMBDA e : e # Close)))
  /\ pending_data_size >= Unsent
  /\ (~dead /\ pc # "done" /\ listening) => pending_data_size = Unsent

Data(k) == SelectSeq(calls[k], LAMBDA c : c \notin {"connected", "disconnected"})
\* A handle is called with connected first, then with the data in the order it came, no
\* piece twice or left out.  A service handle is called with disconnected at most once and
\* with nothing after it, although the end may reach it through the flag closed, through an event
\* that overtakes others, and twice after a codec error.
HandleSeesStreamInOrder ==
  \A k \in Kinds :
    /\ calls[k] # <<>> => calls[k][1] = "connected" /\ "connected" \notin Range(Tail(calls[k]))
    /\ IsPrefix(Data(k), Inbound)
    /\ (k = "service") => \A i \in DOMAIN calls[k] : calls[k][i] = "disconnected" => i = Len(calls[k])

\* A slow handle or a slow network stops the stream from taking more: what waits for a
\* handle, and what waits at normal priority for the network, stays bounded.  But a poll
\* that returned Pending will be woken by whatever it can go on with.
IdleIsWaiting ==
  /\ Len(write_buf) <= SendEventSize + 1
  /\ \A k \in Kinds : Len(hbuf[k]) <= RecvEventSize + 1
  /\ (pc = "head" /\ ~awake) =>
       /\ ~dead
       /\ IF Len(write_buf) > SendEventSize THEN "write" \in wakers
          ELSE "event" \in wakers /\ chan = Queue /\ senders # {}
       /\ (sink # <<>> \/ write_buf # <<>> \/ high_write_buf # <<>>) =>
            "write" \in wakers /\ credit = 0 /\ broken = "no"
       /\ ~config.spawn => IF Behind THEN "handle" \in wakers ELSE "read" \in wakers /\ inq = <<>>
       /\ \A k \in config.handles : hbuf[k] # <<>> => "handle" \in wakers /\ Len(hchan[k]) = HandleSize

\* A stream that is dead, or whose session is closed, ends.  When it has ended, other than
\* by a flush that failed, the session has forgotten it or is closed itself, so that the
\* protocol can be opened again; and its service handle is called with disconnected, unless
\* the service stops or the handle panicked.
EndIsTold ==
  /\ (dead \/ closed) ~> (pc = "done")
  /\ (pc = "done" /\ ~lost) ~> (closed \/ "session" \notin senders)
  /\ (pc = "done" /\ ~lost /\ "service" \in config.handles)
       ~> (shutdown \/ hpc["service"] = "done"
           \/ (calls["service"] # <<>> /\ Last(calls["service"]) = "disconnected"))
=============================================================================
