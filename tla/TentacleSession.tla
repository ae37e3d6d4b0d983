---------------------------- MODULE TentacleSession ----------------------------
(***************************************************************************)
(* One session of a tentacle service (tentacle/src/session.rs): the task   *)
(* that polls Session, the InnerSocket task under it, the procedures that  *)
(* negotiate protocols, the detached tasks that carry the last events of a *)
(* stream or of the session, and the two neighbours: the service above and *)
(* the protocol streams below.  A stream is reduced to what it does to the *)
(* session (module Substream has its inside); the service is reduced to    *)
(* its handling of this session's events (module Service has the rest).    *)
(*                                                                         *)
(* One poll of Session is two or three steps, because the other tasks run  *)
(* in parallel with it: flush and recv_substreams; recv_service and the    *)
(* match on the state; the store of the shared flag closed.                *)
(***************************************************************************)
EXTENDS Integers, Sequences, FiniteSets, FiniteSetsExt, SequencesExt

CONSTANTS
  Protos,           \* the configured protocols
  MaxSelect,        \* bound: streams asked for, by us or by the peer
  MaxMsg,           \* bound: messages the service sends
  ChanSize,         \* capacity of the channel to a stream
  ServiceSize,      \* capacity of the channel to the service
  SendBufferSize,   \* send_buffer_size, in messages
  KeepBuffer,       \* keep_buffer
  Handles,          \* there is a session level protocol handle
  Outbound,         \* we dialed: the service opens a protocol before the first poll
  Priorities,       \* of the messages sent
  Faults, MaxFaults \* the disturbances that may happen, and how many of them in all

ASSUME SessionAssumption ==
  /\ {MaxSelect, MaxMsg, MaxFaults, SendBufferSize} \subseteq Nat
  /\ {ChanSize, ServiceSize} \subseteq Nat \ {0}
  /\ {KeepBuffer, Handles, Outbound} \subseteq BOOLEAN /\ Outbound => MaxSelect > 0
  /\ Faults \subseteq {"timeout", "end", "muxer", "eof", "codec", "send", "lost", "select",
                   "shut", "close", "quick"}

Ids == 0 .. (MaxSelect - 1)
Unknown == "unknown"        \* a protocol name that is not configured

VARIABLES
  state, closed,                \* closed is the flag in the shared SessionContext
  substreams, proto_streams, next_stream,
  service_sender,               \* the buffer in front of to_service
  cleaned,                      \* clean() closed both receivers
  pc, busy, awake, wakers,      \* the poll, and which wakers are registered
  service_receiver, proto_events, to_service,
  close_tasks, stream_tasks,    \* detached: events on their way to the service, to the session
  chan, sub,                    \* channel and life of each stream
  selecting, selects,           \* negotiations running, streams asked for
  socket, spawned, timer,       \* InnerSocket; its events on their way; TimeoutCheck
  wait,                         \* the session level handles
  session_open, service_dead, sending, shown, asked,
  pending_data_size, faults

inner == <<state, closed, substreams, proto_streams, next_stream, service_sender, cleaned>>
poll == <<pc, busy, awake, wakers>>
queues == <<service_receiver, proto_events, to_service, close_tasks, stream_tasks>>
below == <<chan, sub, selecting, selects, socket, spawned, timer>>
service == <<session_open, service_dead, sending, shown, asked>>
above == <<service, faults>>
vars == <<inner, poll, queues, below, above, wait, pending_data_size>>

Queue == [high |-> <<>>, normal |-> <<>>]
Size(q) == Len(q.high) + Len(q.normal)
Ev(k, p) == [k |-> k, p |-> p]
Close(i, p) == [k |-> "Close", p |-> p, id |-> i]
NoStream == [life |-> "none", p |-> Unknown]
Shut == "Close"
Message == "Message"

Init ==
  /\ state = "Normal" /\ closed = FALSE /\ cleaned = FALSE
  /\ substreams = <<>> /\ proto_streams = <<>> /\ next_stream = 0
  /\ service_sender = <<>>
  /\ pc = "head" /\ busy = FALSE /\ awake = TRUE /\ wakers = {}
  /\ service_receiver = Queue /\ proto_events = <<>> /\ to_service = <<>>
  /\ close_tasks = <<>> /\ stream_tasks = <<>>
  /\ chan = [i \in Ids |-> Queue] /\ sub = [i \in Ids |-> NoStream]
  /\ selecting = (IF Outbound THEN 1 ELSE 0) /\ selects = selecting
  /\ socket = "open" /\ spawned = {} /\ timer = "armed"
  /\ wait = IF Handles THEN "running" ELSE "done"
  /\ session_open = TRUE /\ service_dead = FALSE /\ sending = <<>>
  /\ shown = [closes |-> 0, critical |-> FALSE, late |-> {}]
  /\ asked = 0
  /\ pending_data_size = 0 /\ faults = 0

(***************************************************************************)
(* The functions of impl Session, on the part of the state they change.    *)
(***************************************************************************)
Now == [state |-> state, closed |-> closed, substreams |-> substreams,
        proto_streams |-> proto_streams, next_stream |-> next_stream,
        service_sender |-> service_sender, cleaned |-> cleaned, wakers |-> wakers,
        to_service |-> to_service, close_tasks |-> close_tasks,
        chan |-> chan, sub |-> sub, selecting |-> selecting]

Become(w) ==
  /\ state' = w.state /\ closed' = w.closed /\ substreams' = w.substreams
  /\ proto_streams' = w.proto_streams /\ next_stream' = w.next_stream
  /\ service_sender' = w.service_sender /\ cleaned' = w.cleaned /\ wakers' = w.wakers
  /\ to_service' = w.to_service /\ close_tasks' = w.close_tasks
  /\ chan' = w.chan /\ sub' = w.sub /\ selecting' = w.selecting

\* output: what fits of the buffer goes to the service; a dead service is an error.
output(w) ==
  IF service_dead /\ w.service_sender # <<>>
  THEN [w EXCEPT !.service_sender = <<>>, !.state = "Abnormal"]
  ELSE LET n == Min({Len(w.service_sender), ServiceSize - Len(w.to_service)})
       IN  [w EXCEPT !.to_service = @ \o SubSeq(w.service_sender, 1, n),
                     !.service_sender = SubSeq(@, n + 1, Len(@)),
                     !.wakers = IF n < Len(w.service_sender) THEN @ \cup {"space"} ELSE @]

event_output(w, e) == output([w EXCEPT !.service_sender = Append(@, e)])

\* PriorityBuffer::try_send of stream i's buffer: high events first, as many as the
\* channel takes; when the stream is gone they are thrown away.
Moved(b, n) == LET h == Min({n, Len(b.high)})
               IN  [high |-> SubSeq(b.high, 1, h), normal |-> SubSeq(b.normal, 1, n - h)]
Kept(b, m) == [high |-> SubSeq(b.high, Len(m.high) + 1, Len(b.high)),
               normal |-> SubSeq(b.normal, Len(m.normal) + 1, Len(b.normal))]
try_send(w, i) ==
  LET b == w.substreams[i]
      m == Moved(b, Min({Size(b), ChanSize - Size(w.chan[i])}))
  IN  IF w.sub[i].life = "gone" THEN [w EXCEPT !.substreams[i] = Queue]
      ELSE [w EXCEPT !.substreams[i] = Kept(b, m),
                     !.chan[i] = [high |-> @.high \o m.high, normal |-> @.normal \o m.normal],
                     !.wakers = IF Kept(b, m) # Queue THEN @ \cup {"space"} ELSE @]

push(w, i, prio, e) == try_send([w EXCEPT !.substreams[i][prio] = Append(@, e)], i)

\* distribute_to_substream: the streams in map order, up to the first one that has no
\* room; too much data pending makes the session Abnormal.
distribute_to_substream(w, order) ==
  LET Step(acc, i) ==
        IF acc.stop THEN acc
        ELSE LET v == try_send(acc.w, i)
             IN  IF v.substreams[i] = Queue THEN [w |-> v, stop |-> FALSE]
                 ELSE IF pending_data_size > SendBufferSize
                 THEN [w |-> event_output([v EXCEPT !.state = "Abnormal",
                                                    !.substreams[i] = Queue], "ChangeState"),
                       stop |-> TRUE]
                 ELSE [w |-> v, stop |-> TRUE]
  IN  FoldLeft(Step, [w |-> w, stop |-> FALSE], order).w

flush(w, order) == LET v == distribute_to_substream(w, order)
                   IN  IF v.service_sender = <<>> THEN v ELSE output(v)

\* select_procedure, started by open_proto_stream (we are the client) or by
\* handle_substream (the peer opened a stream).
select_procedure(w) == [w EXCEPT !.selecting = @ + 1]

\* clean: the buffers, with their senders, go; both receivers are closed.
clean(w) == [w EXCEPT !.substreams = <<>>, !.cleaned = TRUE]

\* Mutant: nothing is sent when closed was set before, as close_all_proto does.
close_sessionOnce(w) ==
  clean([w EXCEPT !.closed = TRUE, !.service_sender = <<>>,
                  !.close_tasks = IF w.closed THEN @ ELSE Append(@, Append(w.service_sender, "SessionClose"))])

\* close_session: a detached task carries what the buffer still holds and SessionClose.
close_session(w) ==
  clean([w EXCEPT !.closed = TRUE, !.service_sender = <<>>,
                  !.close_tasks = Append(@, Append(w.service_sender, "SessionClose"))])

\* close_all_proto, without its store of closed, which is a later step.
close_all_proto(w) ==
  IF w.closed THEN close_session(w)
  ELSE FoldLeft(LAMBDA v, i : push(v, i, "high", Shut), w, SetToSeq(DOMAIN w.substreams))

open_protocol(w, p) ==
  IF p \notin Protos
  THEN event_output([w EXCEPT !.state = "Abnormal"], "ProtocolSelectError")
  ELSE IF p \in DOMAIN w.proto_streams THEN w
  ELSE [w EXCEPT !.substreams = (w.next_stream :> Queue) @@ @,
                 !.proto_streams = (p :> w.next_stream) @@ @,
                 !.sub[w.next_stream] = [life |-> "live", p |-> p], !.next_stream = @ + 1]

Without(f, x) == [y \in DOMAIN f \ {x} |-> f[y]]

\* Mutant: a Close forgets the protocol whichever stream it is about.
handle_stream_eventAnyClose(w, e) ==
  CASE e.k = "Open" -> open_protocol(w, e.p)
    [] e.k = "Close" -> IF TRUE
                        THEN [w EXCEPT !.substreams = Without(@, e.id),
                                       !.proto_streams = Without(@, e.p)]
                        ELSE w
    [] e.k = "SelectError" -> event_output(w, "ProtocolSelectError")
    [] e.k = "Error" -> event_output(w, "ProtocolError")
    [] e.k = "TimeoutCheck" -> IF DOMAIN w.substreams = {}
                               THEN [event_output(w, "SessionTimeout")
                                     EXCEPT !.state = "LocalClose"]
                               ELSE w

handle_stream_event(w, e) ==
  CASE e.k = "Open" -> open_protocol(w, e.p)
    [] e.k = "Close" -> IF e.id \in DOMAIN w.substreams
                        THEN [w EXCEPT !.substreams = Without(@, e.id),
                                       !.proto_streams = Without(@, e.p)]
                        ELSE w
    [] e.k = "SelectError" -> event_output(w, "ProtocolSelectError")
    [] e.k = "Error" -> event_output(w, "ProtocolError")
    [] e.k = "TimeoutCheck" -> IF DOMAIN w.substreams = {}
                               THEN [event_output(w, "SessionTimeout")
                                     EXCEPT !.state = "LocalClose"]
                               ELSE w

\* The stream that a message or a close_protocol call for p goes to, if any.
Route(w, p, prio, e) ==
  IF p \in DOMAIN w.proto_streams /\ w.proto_streams[p] \in DOMAIN w.substreams
  THEN push(w, w.proto_streams[p], prio, e) ELSE w

handle_session_event(w, e, prio) ==
  CASE e.k = "ProtocolMessage" -> Route(w, e.p, prio, Message)
    [] e.k = "ProtocolClose" -> Route(w, e.p, "high", Shut)
    [] e.k = "SessionClose" ->
         IF DOMAIN w.substreams = {} THEN close_session(w)
         ELSE close_all_proto([w EXCEPT !.state = "LocalClose"])
    [] e.k = "ProtocolOpen" ->
         IF e.p \in DOMAIN w.proto_streams THEN w ELSE select_procedure(w)
    [] e.k = "StreamStart" -> select_procedure(w)
    [] e.k = "ChangeState" ->
         IF w.state # "Normal" THEN w
         ELSE IF e.p = "RemoteClose" THEN [w EXCEPT !.state = e.p]
         ELSE event_output([w EXCEPT !.state = e.p,
                                     !.service_sender = IF KeepBuffer THEN @ ELSE <<>>],
                           "MuxerError")

(***************************************************************************)
(* Wakers: what a poll that returns Pending is woken by.                   *)
(***************************************************************************)
Wake(S) ==
  /\ wakers' = wakers \ S
  /\ awake' = (awake \/ wakers \cap S # {})

\* The service, InnerSocket and its detached events hold senders of service_receiver.
Senders(open, events) == open \/ socket = "open" \/ events # {}
HasSenders == Senders(session_open, spawned)
\* The last sender that goes wakes the receiver.
Dropped(S, left) == IF left THEN S ELSE S \cup {"service"}

(***************************************************************************)
(* impl Stream for Session: poll_next.                                     *)
(***************************************************************************)
\* The end of the task: the session and what waits in its receivers are dropped.
Finish ==
  /\ pc' = "done" /\ awake' = FALSE /\ busy' = FALSE
  /\ proto_events' = <<>> /\ service_receiver' = Queue

Return(w, ready) ==
  /\ Become(w)
  /\ pc' = "head" /\ busy' = FALSE /\ awake' = (awake \/ ready)
  /\ UNCHANGED proto_events

\* Local close means the user wants no more; a remote close still takes what came.
recv_substreams(w) ==
  IF proto_events # <<>>
  THEN IF w.state = "LocalClose" THEN w ELSE handle_stream_event(w, Head(proto_events))
  ELSE IF w.cleaned THEN [w EXCEPT !.state = "LocalClose"]
  ELSE [w EXCEPT !.wakers = @ \cup {"proto"}]

PollHead ==
  /\ pc = "head" /\ awake
  /\ IF state = "LocalClose"
     THEN Finish /\ Become([Now EXCEPT !.wakers = {}])
     ELSE /\ \E order \in SetToSeqs({i \in DOMAIN substreams : substreams[i] # Queue}) :
               Become(recv_substreams(flush([Now EXCEPT !.wakers = {}], order)))
          /\ proto_events' = IF proto_events = <<>> THEN <<>> ELSE Tail(proto_events)
          /\ busy' = (proto_events # <<>> \/ cleaned)
          /\ pc' = "service" /\ awake' = FALSE
          /\ UNCHANGED service_receiver
  /\ UNCHANGED <<stream_tasks, selects, socket, spawned, timer, above, wait, pending_data_size>>

\* wait_handle_poll: tell the handles to stop; Pending until they have.
wait_handle_poll(w, q) ==
  /\ wait' = IF wait = "running" THEN "signalled" ELSE wait
  /\ IF wait = "done" THEN Finish /\ Become([w EXCEPT !.wakers = {}])
     ELSE /\ Return([w EXCEPT !.wakers = @ \cup {"handle"}], FALSE)
          /\ service_receiver' = q

\* The match at the end of poll_next; q is what is left in service_receiver.
PollEnd(w, ready, q) ==
  CASE w.state \in {"LocalClose", "Abnormal"} ->
         wait_handle_poll(close_session([w EXCEPT !.proto_streams = <<>>]), q)
    [] w.state = "RemoteClose" /\ w.proto_streams = <<>> -> wait_handle_poll(close_session(w), q)
    [] w.state = "RemoteClose" /\ w.proto_streams # <<>> /\ w.closed ->
         /\ Return(close_all_proto(w), ready)
         /\ service_receiver' = q /\ UNCHANGED wait
    [] w.state = "RemoteClose" /\ w.proto_streams # <<>> /\ ~w.closed ->
         /\ Become(close_all_proto(w)) /\ pc' = "store" /\ busy' = ready
         /\ service_receiver' = q /\ UNCHANGED <<wait, awake, proto_events>>
    [] w.state = "Normal" ->
         /\ Return(w, ready)
         /\ service_receiver' = q /\ UNCHANGED wait

\* Mutant: is_pending is assigned where it should be and-ed.
RecvServiceOverwrites ==
  /\ pc = "service"
  /\ \/ \E prio \in {"high", "normal"} :
          /\ service_receiver[prio] # <<>>
          /\ LET e == Head(service_receiver[prio])
                 w == IF state # "Normal" THEN Now ELSE handle_session_event(Now, e, prio)
             IN  PollEnd(w, TRUE, [service_receiver EXCEPT ![prio] = Tail(@)])
     \/ /\ service_receiver = Queue /\ (cleaned \/ ~HasSenders)
        /\ PollEnd(clean([Now EXCEPT !.state = "LocalClose"]), TRUE, Queue)
     \/ /\ service_receiver = Queue /\ ~(cleaned \/ ~HasSenders)
        /\ PollEnd([Now EXCEPT !.wakers = @ \cup {"service"}], FALSE, Queue)
  /\ UNCHANGED <<stream_tasks, selects, socket, spawned, timer, above, pending_data_size>>

\* recv_service, then the match.  The priority channel may hand out a normal event
\* before a high one.
RecvService ==
  /\ pc = "service"
  /\ \/ \E prio \in {"high", "normal"} :
          /\ service_receiver[prio] # <<>>
          /\ LET e == Head(service_receiver[prio])
                 w == IF state # "Normal" THEN Now ELSE handle_session_event(Now, e, prio)
             IN  PollEnd(w, TRUE, [service_receiver EXCEPT ![prio] = Tail(@)])
     \/ /\ service_receiver = Queue /\ (cleaned \/ ~HasSenders)
        /\ PollEnd(clean([Now EXCEPT !.state = "LocalClose"]), TRUE, Queue)
     \/ /\ service_receiver = Queue /\ ~(cleaned \/ ~HasSenders)
        /\ PollEnd([Now EXCEPT !.wakers = @ \cup {"service"}], busy, Queue)
  /\ UNCHANGED <<stream_tasks, selects, socket, spawned, timer, above, pending_data_size>>

\* The last line of close_all_proto.
StoreClosed ==
  /\ pc = "store"
  /\ Return([Now EXCEPT !.closed = TRUE], busy)
  /\ UNCHANGED <<service_receiver, stream_tasks, selects, socket, spawned, timer, above, wait, pending_data_size>>

(***************************************************************************)
(* The tasks beside it.                                                    *)
(***************************************************************************)
session == <<inner, pc, busy, wait>>
Fault(f) == f \in Faults /\ faults < MaxFaults /\ faults' = faults + 1

\* A closed receiver takes nothing any more; an open one wakes its task.
ToSession(es) ==
  /\ proto_events' = IF cleaned THEN proto_events ELSE proto_events \o es
  /\ Wake(IF cleaned THEN {} ELSE {"proto"})

\* A negotiation ends: well, with a name the peer made up, or in an error or a timeout.
SelectDone ==
  /\ selecting > 0 /\ selecting' = selecting - 1
  /\ \/ UNCHANGED faults /\ \E p \in Protos : ToSession(<<Ev("Open", p)>>)
     \/ Fault("select") /\ \E k \in {"Open", "SelectError"} : ToSession(<<Ev(k, Unknown)>>)
  /\ UNCHANGED <<session, service_receiver, to_service, close_tasks, stream_tasks, chan, sub, selects,
                 socket, spawned, timer, service, pending_data_size>>

\* The timer of Session::new.
TimeoutCheck ==
  /\ timer = "armed" /\ timer' = "fired" /\ ~cleaned /\ Fault("timeout")
  /\ ToSession(<<Ev("TimeoutCheck", Unknown)>>)
  /\ UNCHANGED <<session, service_receiver, to_service, close_tasks, stream_tasks, chan, sub, selecting,
                 selects, socket, spawned, service, pending_data_size>>

\* InnerSocket::poll_next: a stream of the peer, the end of the connection, an error of
\* the muxer.  Each is sent by a detached task, so they may arrive in any order.
SocketStream ==
  /\ socket = "open" /\ selects < MaxSelect /\ ~cleaned
  /\ selects' = selects + 1 /\ Ev("StreamStart", Unknown) \notin spawned
  /\ spawned' = spawned \cup {Ev("StreamStart", Unknown)}
  /\ UNCHANGED <<inner, poll, queues, chan, sub, selecting, socket, timer, above, wait,
                 pending_data_size>>

SocketEnd(st) ==
  /\ socket = "open" /\ socket' = "ended"
  /\ IF cleaned THEN UNCHANGED faults
     ELSE Fault(IF st = "Abnormal" THEN "muxer" ELSE "end")
  /\ spawned' = spawned \cup {Ev("ChangeState", st)}
  /\ UNCHANGED <<inner, poll, queues, chan, sub, selecting, selects, timer, service, wait,
                 pending_data_size>>

Deliver(e) ==
  /\ e \in spawned /\ spawned' = spawned \ {e}
  /\ service_receiver' = IF cleaned THEN service_receiver
                         ELSE [service_receiver EXCEPT !.high = Append(@, e)]
  /\ Wake(Dropped(IF cleaned THEN {} ELSE {"service"}, Senders(session_open, spawned \ {e})))
  /\ UNCHANGED <<session, proto_events, to_service, close_tasks, stream_tasks, chan, sub, selecting,
                 selects, socket, timer, above, pending_data_size>>

\* The detached tasks of close_session and of a stream's close_proto_stream.
Advance(tasks, i) == IF Len(tasks[i]) = 1 THEN RemoveAt(tasks, i)
                     ELSE [tasks EXCEPT ![i] = Tail(@)]

CloseTask(i) ==
  /\ i \in DOMAIN close_tasks
  /\ IF service_dead
     THEN close_tasks' = RemoveAt(close_tasks, i) /\ UNCHANGED to_service
     ELSE /\ Len(to_service) < ServiceSize
          /\ to_service' = Append(to_service, Head(close_tasks[i]))
          /\ close_tasks' = Advance(close_tasks, i)
  /\ UNCHANGED <<session, awake, wakers, service_receiver, proto_events, stream_tasks, below, above,
                 pending_data_size>>

StreamTask(i) ==
  /\ i \in DOMAIN stream_tasks
  /\ stream_tasks' = Advance(stream_tasks, i)
  /\ ToSession(<<Head(stream_tasks[i])>>)
  /\ UNCHANGED <<session, service_receiver, to_service, close_tasks, below, above, pending_data_size>>

\* A session level handle stops when it is told to, or when the session closed.
HandleFinish ==
  /\ wait = "signalled" \/ (wait = "running" /\ closed)
  /\ wait' = "done" /\ Wake({"handle"})
  /\ UNCHANGED <<inner, pc, busy, queues, below, above, pending_data_size>>

(***************************************************************************)
(* A protocol stream, as the session sees it.                              *)
(***************************************************************************)
Life(i, l) == sub' = [sub EXCEPT ![i].life = l]
stream_only == <<session, service_receiver, to_service, close_tasks, selecting, selects, socket,
                 spawned, timer, service>>

\* Mutant: every event that leaves the channel is subtracted, Close too.
SubTakeCountsAll(i, prio) ==
  /\ sub[i].life = "live" /\ ~closed /\ chan[i][prio] # <<>>
  /\ chan' = [chan EXCEPT ![i][prio] = Tail(@)]
  /\ \/ /\ Head(chan[i][prio]) = Message
        /\ pending_data_size' = pending_data_size - 1
        /\ Wake({"space"}) /\ UNCHANGED <<sub, proto_events, faults>>
     \/ /\ Head(chan[i][prio]) = Message /\ Fault("send")
        /\ Life(i, "dead")
        /\ proto_events' = IF cleaned THEN proto_events ELSE Append(proto_events, Ev("Error", sub[i].p))
        /\ Wake({"space"} \cup IF cleaned THEN {} ELSE {"proto"}) /\ UNCHANGED pending_data_size
     \/ /\ Head(chan[i][prio]) = Shut /\ Life(i, "dead")
        /\ Wake({"space"}) /\ UNCHANGED <<proto_events, faults>>
        /\ pending_data_size' = pending_data_size - 1
  /\ UNCHANGED <<stream_only, stream_tasks>>

\* recv_event: a message goes to the peer, which makes room; or the write fails; Close
\* kills the stream and what it had not sent.
SubTake(i, prio) ==
  /\ sub[i].life = "live" /\ ~closed /\ chan[i][prio] # <<>>
  /\ chan' = [chan EXCEPT ![i][prio] = Tail(@)]
  /\ \/ /\ Head(chan[i][prio]) = Message
        /\ pending_data_size' = pending_data_size - 1
        /\ Wake({"space"}) /\ UNCHANGED <<sub, proto_events, faults>>
     \/ /\ Head(chan[i][prio]) = Message /\ Fault("send")
        /\ Life(i, "dead")
        /\ proto_events' = IF cleaned THEN proto_events ELSE Append(proto_events, Ev("Error", sub[i].p))
        /\ Wake({"space"} \cup IF cleaned THEN {} ELSE {"proto"}) /\ UNCHANGED pending_data_size
     \/ /\ Head(chan[i][prio]) = Shut /\ Life(i, "dead")
        /\ Wake({"space"}) /\ UNCHANGED <<proto_events, faults, pending_data_size>>
  /\ UNCHANGED <<stream_only, stream_tasks>>

\* recv_frame saw the end of the stream or a broken connection; recv_event saw that the
\* session dropped its sender.
SubDead(i) ==
  /\ sub[i].life = "live" /\ Life(i, "dead")
  /\ IF i \in DOMAIN substreams THEN Fault("eof") ELSE UNCHANGED faults
  /\ UNCHANGED <<stream_only, stream_tasks, chan, awake, wakers, proto_events, pending_data_size>>

\* error_close after a codec error: the stream is closed here and again at its end.
SubCodec(i) ==
  /\ Fault("codec") /\ sub[i].life = "live" /\ Life(i, "dead")
  /\ stream_tasks' = IF closed THEN stream_tasks
                     ELSE Append(stream_tasks, IF KeepBuffer THEN <<Ev("Error", sub[i].p), Close(i, sub[i].p)>>
                                               ELSE <<Close(i, sub[i].p)>>)
  /\ UNCHANGED <<stream_only, chan, awake, wakers, proto_events, pending_data_size>>

\* close_proto_stream: the session hears of it unless the whole session is closing.
SubEnd(i) ==
  /\ sub[i].life = "dead" \/ (sub[i].life = "live" /\ closed)
  /\ Life(i, "gone") /\ chan' = [chan EXCEPT ![i] = Queue]
  /\ stream_tasks' = IF closed THEN stream_tasks ELSE Append(stream_tasks, <<Close(i, sub[i].p)>>)
  /\ Wake({"space"})
  /\ UNCHANGED <<stream_only, faults, proto_events, pending_data_size>>

\* A flush that fails because the connection broke ends the stream without a word.
SubLost(i) ==
  /\ Fault("lost") /\ sub[i].life = "live" /\ Life(i, "gone")
  /\ chan' = [chan EXCEPT ![i] = Queue] /\ Wake({"space"})
  /\ UNCHANGED <<stream_only, stream_tasks, proto_events, pending_data_size>>

(***************************************************************************)
(* The service, for this session.                                          *)
(***************************************************************************)
Tell(prio, e) ==
  /\ service_receiver' = IF cleaned THEN service_receiver
                         ELSE [service_receiver EXCEPT ![prio] = Append(@, e)]
  /\ Wake(IF cleaned THEN {} ELSE {"service"})
\* After clean every send fails and is ignored: those calls are left out.
Idle == session_open /\ sending = <<>> /\ ~cleaned
service_only == <<session, proto_events, to_service, close_tasks, stream_tasks, chan, sub, selecting,
                  socket, spawned, timer, session_open, service_dead, shown>>

\* handle_message: first the counter, then the channel.
ServiceMessage(p, prio) ==
  /\ Idle /\ asked < MaxMsg /\ asked' = asked + 1
  /\ pending_data_size' = pending_data_size + 1
  /\ sending' = <<[p |-> p, prio |-> prio]>>
  /\ UNCHANGED <<service_only, faults, selects, awake, wakers, service_receiver>>

ServiceSend ==
  /\ sending # <<>> /\ sending' = <<>>
  /\ Tell(sending[1].prio, Ev("ProtocolMessage", sending[1].p))
  /\ UNCHANGED <<service_only, faults, selects, asked, pending_data_size>>

\* session_close from outside, protocol_open, protocol_close.
ServiceDisconnect ==
  /\ Idle /\ Fault("close")
  /\ Tell("high", Ev("SessionClose", Unknown))
  /\ UNCHANGED <<service_only, selects, asked, sending, pending_data_size>>

ServiceOpen(p) ==
  /\ Idle /\ selects < MaxSelect /\ selects' = selects + 1
  /\ Tell("high", Ev("ProtocolOpen", p))
  /\ UNCHANGED <<service_only, faults, asked, sending, pending_data_size>>

ServiceClose(p) ==
  /\ Idle /\ Fault("shut")
  /\ Tell("high", Ev("ProtocolClose", p))
  /\ UNCHANGED <<service_only, selects, asked, sending, pending_data_size>>

\* handle_session_event of the service: most events need the session to be open.
Show(e) ==
  shown' = CASE e = "SessionClose" -> [shown EXCEPT !.closes = @ + (IF session_open THEN 1 ELSE 0)]
             [] e = "ProtocolError" /\ ~session_open -> [shown EXCEPT !.late = @ \cup {e}]
             [] e \in {"SessionTimeout", "MuxerError"} /\ session_open ->
                  [shown EXCEPT !.critical = TRUE]
             [] OTHER -> shown

ServiceHandle ==
  /\ to_service # <<>> /\ sending = <<>> /\ ~service_dead
  /\ to_service' = Tail(to_service)
  /\ Show(Head(to_service))
  /\ session_open' = (session_open /\ Head(to_service) # "SessionClose")
  /\ Wake(Dropped({"space"}, Senders(session_open /\ Head(to_service) # "SessionClose", spawned)))
  /\ UNCHANGED <<session, service_receiver, proto_events, close_tasks, stream_tasks, below,
                 service_dead, sending, asked, faults, pending_data_size>>

\* A quick shutdown drops every session without waiting for it.
ServiceShutdown ==
  /\ Fault("quick") /\ ~service_dead /\ service_dead' = TRUE /\ sending = <<>>
  /\ to_service' = <<>> /\ session_open' = FALSE /\ Show("SessionClose")
  /\ Wake(Dropped({"space"}, Senders(FALSE, spawned)))
  /\ UNCHANGED <<session, service_receiver, proto_events, close_tasks, stream_tasks, below,
                 sending, asked, pending_data_size>>

Poll == PollHead \/ RecvService \/ StoreClosed

Next ==
  \/ Poll \/ SelectDone \/ TimeoutCheck \/ SocketStream \/ HandleFinish
  \/ \E st \in {"RemoteClose", "Abnormal"} : SocketEnd(st)
  \/ \E e \in spawned : Deliver(e)
  \/ \E i \in DOMAIN close_tasks : CloseTask(i)
  \/ \E i \in DOMAIN stream_tasks : StreamTask(i)
  \/ \E i \in Ids : \/ SubDead(i) \/ SubCodec(i) \/ SubEnd(i) \/ SubLost(i)
                    \/ \E prio \in {"high", "normal"} : SubTake(i, prio)
  \/ \E p \in Protos : \/ ServiceOpen(p) \/ ServiceClose(p)
                       \/ \E prio \in Priorities : ServiceMessage(p, prio)
  \/ ServiceSend \/ ServiceDisconnect \/ ServiceHandle \/ ServiceShutdown

\* Weak fairness of Poll: its steps are the ones that change pc.
CanPoll == pc \in {"service", "store"} \/ (pc = "head" /\ awake)
PollFairness == <>[]CanPoll => []<><<pc' # pc>>_vars

\* Some task that can run does, and the session is polled when it is woken; nothing
\* obliges the peer or the user, and a stream only has to end when it must.
Task ==
  \/ ServiceHandle \/ ServiceSend \/ SelectDone \/ HandleFinish
  \/ \E e \in spawned : Deliver(e)
  \/ \E i \in DOMAIN close_tasks : CloseTask(i)
  \/ \E i \in DOMAIN stream_tasks : StreamTask(i)
  \/ \E i \in Ids : SubEnd(i)
  \/ cleaned /\ SocketEnd("RemoteClose")
Fairness == PollFairness /\ WF_vars(Task)

Spec == Init /\ [][Next]_vars
FairSpec == Spec /\ Fairness

(***************************************************************************)
(* Properties.                                                             *)
(***************************************************************************)
\* Every variable keeps the shape that the fields and channels of the code have.
TypeOK ==
  /\ state \in {"Normal", "LocalClose", "RemoteClose", "Abnormal"}
  /\ DOMAIN substreams \subseteq Ids /\ DOMAIN proto_streams \subseteq Protos
  /\ next_stream \in 0 .. MaxSelect
  /\ \A i \in Ids : sub[i].life \in {"none", "live", "dead", "gone"} /\ Size(chan[i]) <= ChanSize
  /\ Len(to_service) <= ServiceSize
  /\ pc \in {"head", "service", "store", "done"}
  /\ wakers \subseteq {"proto", "service", "space", "handle"}
  /\ pc \in {"done"} => cleaned /\ closed

\* Until the session cleans up, proto_streams and substreams name the same streams, one
\* per protocol, and the session knows every stream that is running, whatever order
\* Open, Close and the second Close of a codec error arrive in.  And every variable keeps
\* its type.
StreamsKnownOncePerProtocol ==
  /\ TypeOK
  /\ ~cleaned =>
       /\ {proto_streams[p] : p \in DOMAIN proto_streams} = DOMAIN substreams
       /\ \A p \in DOMAIN proto_streams : sub[proto_streams[p]].p = p
       /\ \A i \in Ids : sub[i].life = "live" => i \in DOMAIN substreams

Messages(q) == Len(SelectSeq(q.high \o q.normal, LAMBDA x : x = Message))
Waiting ==
  Len(sending)
  + Len(SelectSeq(service_receiver.high \o service_receiver.normal, LAMBDA e : e.k = "ProtocolMessage"))
  + MapThenSumSet(LAMBDA i : Messages(substreams[i]), DOMAIN substreams)
  + MapThenSumSet(LAMBDA i : Messages(chan[i]), Ids)
\* pending_data_size counts at least what still waits anywhere to be sent, so the
\* subtraction of a stream that sends can never wrap around below zero.
PendingCoversQueued == pending_data_size >= Waiting

\* A poll that returned Pending has nothing left to do and somebody to wake it: both
\* receivers are empty and hold its waker, or it waits for a handle; and when a buffer is
\* not empty, some channel it has a waker in is full.
IdleIsWaiting ==
  (pc = "head" /\ ~awake) =>
    /\ \/ wait = "signalled" /\ "handle" \in wakers
       \/ proto_events = <<>> /\ service_receiver = Queue /\ {"proto", "service"} \subseteq wakers
    /\ LET waiting == {i \in DOMAIN substreams : substreams[i] # Queue}
       IN  waiting # {} => /\ "space" \in wakers
                           /\ \E i \in waiting : Size(chan[i]) = ChanSize /\ sub[i].life # "gone"
    /\ service_sender # <<>> => "space" \in wakers /\ Len(to_service) = ServiceSize

\* A session whose connection ended, that somebody closed, or whose user was shown a
\* SessionTimeout or a MuxerError, is taken off the service with a SessionClose, and its
\* task and the tasks of its streams all end: no order of wake-ups, full channels and
\* detached tasks leaves it registered for ever, or poll_next Pending with nobody to wake it.
\* The user is told once, however many SessionClose events the polls and the detached tasks
\* produce, and hears no more of the session after that but the codec errors that
\* handle_session_event passes on unchecked.
ClosedSessionEnds ==
  /\ (socket = "ended" \/ closed \/ shown.critical) ~>
       /\ ~session_open /\ shown.closes = 1
       /\ pc = "done" /\ \A i \in Ids : sub[i].life \in {"none", "gone"}
  /\ [](shown.closes <= 1 /\ shown.late \subseteq {"ProtocolError"})

=============================================================================
