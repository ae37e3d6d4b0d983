----------------------------- MODULE YamuxSession -----------------------------
(***************************************************************************)
(* Two yamux sessions (yamux/src/session.rs) at the ends of one ordered    *)
(* connection, and the streams they multiplex.                             *)
(*                                                                         *)
(* A session is one task: recv_frames, recv_events, control_poll, flush    *)
(* and the timer run one after the other.  Distributing the buffered       *)
(* frames is a loop over channels whose receivers are other tasks, so each *)
(* turn of it (Distribute) is a step of its own: a handle may empty its    *)
(* channel between two turns.                                              *)
(*                                                                         *)
(* A StreamHandle is here only what its session sees of it: it emits       *)
(* numbered data frames, takes frames from its channel and is dropped.     *)
(* Its state machine and its windows are module YamuxStream; pings are     *)
(* module YamuxKeepalive.                                                  *)
(***************************************************************************)
EXTENDS Integers, Sequences, FiniteSets

CONSTANTS
  ChanCap,         \* frames a handle's channel holds: channel(8) and its sender's slot
  WireCap,         \* bound: frames the connection holds in one direction
  MaxStreamCount,  \* config.max_stream_count
  AcceptBacklog,   \* config.accept_backlog
  MaxId,           \* bound: largest stream id
  Setups           \* what the applications and the tasks of the two ends may do

Ends == {"client", "server"}
Peer(e) == IF e = "client" THEN "server" ELSE "client"
Ids == 1 .. MaxId

ASSUME SizesAssumption ==
  /\ ChanCap \in Nat \ {0} /\ WireCap \in Nat \ {0}
  /\ MaxStreamCount \in Nat /\ AcceptBacklog \in Nat
  /\ MaxId \in Nat
ASSUME SetupsAssumption ==
  Setups \subseteq
    [openers  : SUBSET Ends,  \* ends whose application opens streams
     last     : Ids,          \* the last id there is (StreamsExhausted beyond it)
     senders  : SUBSET Ends,  \* ends whose handles send data
     data     : 0 .. 9,       \* data frames a handle sends
     droppers : SUBSET Ends,  \* ends whose handles may be dropped
     stuck    : SUBSET Ids,   \* ids whose handle at the accepting end may stop reading
     leavers  : SUBSET Ends,  \* ends that may call shutdown or send_go_away
     hang     : SUBSET Ends]  \* ends whose task may stop being polled, at any moment

VARIABLES
  setup,                 \* the setup of this behaviour
  eof, remote_go_away, local_go_away,
  next_stream_id,
  streams,               \* ids that have an entry in the streams map
  pending_streams,       \* ids accepted and not yet handed to the application
  write_pending_frames, read_pending_frames,
  dist,                  \* the rest of the buffer distribute_to_substream iterates
  block_substream,       \* its set of blocked ids
  events,                \* event_receiver: what the handles ask of the session
  chan,                  \* frame_receiver of each handle
  hold,                  \* "none" | "backlog" | "live" | "gone": each handle's life
  wire,                  \* wire[e]: the frames on the connection towards e
  up,                    \* the session exists
  sent,                  \* data frames each handle has sent
  delivered              \* history: numbers of the data frames put in each channel

flags == <<eof, remote_go_away, local_go_away>>
handles == <<chan, hold, sent, delivered>>
pending == <<write_pending_frames, read_pending_frames, wire>>
loop == <<dist, block_substream>>
vars == <<setup, flags, next_stream_id, streams, pending_streams, pending, loop, events,
          handles, up>>

Kinds == {"syn", "ack", "data", "rst", "go_away"}
Frame(ty, id, n) == [ty |-> ty, id |-> id, n |-> n]
GoAwayFrame(code) == Frame("go_away", 0, code)
Normal == 0
ProtocolError == 1
Closed(id) == [ty |-> "closed", id |-> id, n |-> 0]

is_dead(e) == (remote_go_away[e] /\ local_go_away[e]) \/ eof[e]
\* The session's task is between two calls of its handlers.
Idle(e) == up[e] /\ dist[e] = <<>>
Runs(e) == Idle(e) /\ ~is_dead(e)

Smaller(a, b) == IF a <= b THEN a ELSE b

(***************************************************************************)
(* Sending                                                                 *)
(***************************************************************************)
\* send_all with q pending and w on the connection: what the connection takes
\* leaves, in order; frames for a session that is gone are lost with it.
SendAll(e, q, w) ==
  LET p == Peer(e)
      k == Smaller(Len(q), WireCap - Len(w[p]))
  IN IF up[p]
     THEN /\ wire' = [w EXCEPT ![p] = @ \o SubSeq(q, 1, k)]
          /\ write_pending_frames' =
               [write_pending_frames EXCEPT ![e] = SubSeq(q, k + 1, Len(q))]
     ELSE /\ wire' = w
          /\ write_pending_frames' = [write_pending_frames EXCEPT ![e] = <<>>]

SendFrame(e, f) == SendAll(e, Append(write_pending_frames[e], f), wire)

\* send_go_away_with_code: what was pending is given up.
SendGoAwayWithCode(e, code, w) ==
  /\ SendAll(e, <<GoAwayFrame(code)>>, w)
  /\ local_go_away' = [local_go_away EXCEPT ![e] = TRUE]

(***************************************************************************)
(* The application: control_poll, send_go_away, and the handles            *)
(***************************************************************************)
\* Mutant: both ends number their streams from 1.
FirstIdAlways(e) == 1
\* next_stream_id of Session::new
FirstId(e) == IF e = "client" THEN 1 ELSE 2

Init ==
  /\ setup \in Setups
  /\ eof = [e \in Ends |-> FALSE]
  /\ remote_go_away = [e \in Ends |-> FALSE]
  /\ local_go_away = [e \in Ends |-> FALSE]
  /\ next_stream_id = [e \in Ends |-> FirstId(e)]
  /\ streams = [e \in Ends |-> {}]
  /\ pending_streams = [e \in Ends |-> <<>>]
  /\ write_pending_frames = [e \in Ends |-> <<>>]
  /\ read_pending_frames = [e \in Ends |-> <<>>]
  /\ dist = [e \in Ends |-> <<>>]
  /\ block_substream = [e \in Ends |-> {}]
  /\ events = [e \in Ends |-> <<>>]
  /\ chan = [e \in Ends |-> [id \in Ids |-> <<>>]]
  /\ hold = [e \in Ends |-> [id \in Ids |-> "none"]]
  /\ wire = [e \in Ends |-> <<>>]
  /\ up = [e \in Ends |-> TRUE]
  /\ sent = [e \in Ends |-> [id \in Ids |-> 0]]
  /\ delivered = [e \in Ends |-> [id \in Ids |-> <<>>]]

\* open_stream and create_stream(None): the handle's first frame is its Syn.
OpenStream(e) ==
  LET id == next_stream_id[e] IN
  /\ e \in setup.openers /\ Runs(e) /\ ~remote_go_away[e]
  /\ id <= setup.last /\ id \notin streams[e]
  /\ next_stream_id' = [next_stream_id EXCEPT ![e] = @ + 2]
  /\ streams' = [streams EXCEPT ![e] = @ \cup {id}]
  /\ hold' = [hold EXCEPT ![e][id] = "live"]
  /\ events' = [events EXCEPT ![e] = Append(@, Frame("syn", id, 0))]
  /\ UNCHANGED <<flags, pending_streams, pending, loop, chan, sent, delivered, up>>

\* shutdown, by Command::Shutdown, and send_go_away of the public interface
Shutdown(e) ==
  /\ e \in setup.leavers /\ Runs(e)
  /\ SendGoAwayWithCode(e, Normal, wire)
  /\ UNCHANGED <<eof, remote_go_away, next_stream_id, streams, pending_streams,
                 read_pending_frames, loop, events, handles, up>>

\* poll_next hands the next accepted stream to its caller.
Accept(e) ==
  /\ Runs(e) /\ pending_streams[e] # <<>>
  /\ hold' = [hold EXCEPT ![e][Head(pending_streams[e])] = "live"]
  /\ pending_streams' = [pending_streams EXCEPT ![e] = Tail(@)]
  /\ UNCHANGED <<flags, next_stream_id, streams, pending, loop, events, chan, sent,
                 delivered, up>>

HandleSend(e, id) ==
  /\ e \in setup.senders /\ up[e] /\ hold[e][id] = "live" /\ sent[e][id] < setup.data
  /\ sent' = [sent EXCEPT ![e][id] = @ + 1]
  /\ events' = [events EXCEPT ![e] = Append(@, Frame("data", id, sent[e][id] + 1))]
  /\ UNCHANGED <<flags, next_stream_id, streams, pending_streams, pending, loop,
                 chan, hold, delivered, up>>

HandleTake(e, id) ==
  /\ hold[e][id] = "live" /\ chan[e][id] # <<>>
  /\ chan' = [chan EXCEPT ![e][id] = Tail(@)]
  /\ UNCHANGED <<flags, next_stream_id, streams, pending_streams, pending, loop,
                 events, hold, sent, delivered, up>>

\* Drop: reset what is not closed, then ask the session to forget the stream.
HandleDrop(e, id) ==
  /\ e \in setup.droppers /\ hold[e][id] = "live"
  /\ hold' = [hold EXCEPT ![e][id] = "gone"]
  /\ chan' = [chan EXCEPT ![e][id] = <<>>]
  /\ events' = IF up[e]
               THEN [events EXCEPT ![e] = @ \o <<Frame("rst", id, 0), Closed(id)>>]
               ELSE events
  /\ UNCHANGED <<flags, next_stream_id, streams, pending_streams, pending, loop,
                 sent, delivered, up>>

(***************************************************************************)
(* The session's task                                                      *)
(***************************************************************************)
\* recv_events and handle_event.  A handle of this code never asks for GoAway
\* (YamuxStream, NoProtocolError).
RecvEvent(e) ==
  /\ Runs(e) /\ events[e] # <<>>
  /\ events' = [events EXCEPT ![e] = Tail(@)]
  /\ LET ev == Head(events[e]) IN
       \/ /\ ev.ty = "closed"
          /\ streams' = [streams EXCEPT ![e] = @ \ {ev.id}]
          /\ UNCHANGED <<wire, write_pending_frames>>
       \/ /\ ev.ty # "closed"
          /\ SendFrame(e, ev)
          /\ UNCHANGED streams
  /\ UNCHANGED <<flags, next_stream_id, pending_streams, read_pending_frames, loop,
                 handles, up>>

\* Start distribute_to_substream with q buffered.
StartDistribute(e, q) ==
  /\ dist' = [dist EXCEPT ![e] = q]
  /\ block_substream' = [block_substream EXCEPT ![e] = {}]
  /\ read_pending_frames' = [read_pending_frames EXCEPT ![e] = <<>>]

\* Mutant: nothing is read while frames wait for a full channel.
RecvStreamFrameWhenDrained(e) ==
  /\ Runs(e) /\ wire[e] # <<>> /\ Head(wire[e]).ty # "go_away"
  /\ read_pending_frames[e] = <<>>
  /\ wire' = [wire EXCEPT ![e] = Tail(@)]
  /\ StartDistribute(e, <<Head(wire[e])>>)
  /\ UNCHANGED <<flags, next_stream_id, streams, pending_streams,
                 write_pending_frames, events, handles, up>>

\* recv_frames, handle_stream_message
RecvStreamFrame(e) ==
  /\ Runs(e) /\ wire[e] # <<>> /\ Head(wire[e]).ty # "go_away"
  /\ wire' = [wire EXCEPT ![e] = Tail(@)]
  /\ StartDistribute(e, Append(read_pending_frames[e], Head(wire[e])))
  /\ UNCHANGED <<flags, next_stream_id, streams, pending_streams,
                 write_pending_frames, events, handles, up>>

\* recv_frames, handle_go_away: answer unless this end has already said so.
RecvGoAway(e) ==
  LET rest == [wire EXCEPT ![e] = Tail(@)] IN
  /\ Runs(e) /\ wire[e] # <<>> /\ Head(wire[e]).ty = "go_away"
  /\ remote_go_away' = [remote_go_away EXCEPT ![e] = TRUE]
  /\ \/ /\ local_go_away[e]
        /\ write_pending_frames' = [write_pending_frames EXCEPT ![e] = <<>>]
        /\ wire' = rest
        /\ UNCHANGED local_go_away
     \/ /\ ~local_go_away[e]
        /\ SendGoAwayWithCode(e, Normal, rest)
  /\ UNCHANGED <<eof, next_stream_id, streams, pending_streams, read_pending_frames,
                 loop, events, handles, up>>

\* Mutant: the end of the connection goes unnoticed.
RecvEofUnnoticed(e) ==
  /\ Runs(e) /\ wire[e] = <<>> /\ ~up[Peer(e)]
  /\ UNCHANGED vars

RecvEof(e) ==
  /\ Runs(e) /\ wire[e] = <<>> /\ ~up[Peer(e)]
  /\ eof' = [eof EXCEPT ![e] = TRUE]
  /\ UNCHANGED <<remote_go_away, local_go_away, next_stream_id, streams,
                 pending_streams, pending, loop, events, handles, up>>

RecvFrames(e) == RecvStreamFrame(e) \/ RecvGoAway(e) \/ RecvEof(e)

\* flush, when frames wait in either direction
Flush(e) ==
  /\ Runs(e)
  /\ read_pending_frames[e] # <<>> \/ write_pending_frames[e] # <<>>
  /\ SendAll(e, write_pending_frames[e], wire)
  /\ StartDistribute(e, read_pending_frames[e])
  /\ UNCHANGED <<flags, next_stream_id, streams, pending_streams, events, handles, up>>

\* The timer of send_go_away_with_code: the peer has not answered in time.
GoAwayTimeout(e) ==
  /\ Runs(e) /\ local_go_away[e]
  /\ remote_go_away' = [remote_go_away EXCEPT ![e] = TRUE]
  /\ UNCHANGED <<eof, local_go_away, next_stream_id, streams, pending_streams,
                 pending, loop, events, handles, up>>

\* poll_next answers None and the session is dropped, with its channels, its
\* backlog and the connection; of what is on the wire the peer gets a prefix.
SessionEnd(e) ==
  /\ Idle(e) /\ is_dead(e)
  /\ up' = [up EXCEPT ![e] = FALSE]
  /\ streams' = [streams EXCEPT ![e] = {}]
  /\ pending_streams' = [pending_streams EXCEPT ![e] = <<>>]
  /\ hold' = [hold EXCEPT ![e] =
                [id \in Ids |-> IF @[id] = "backlog" THEN "gone" ELSE @[id]]]
  /\ write_pending_frames' = [write_pending_frames EXCEPT ![e] = <<>>]
  /\ read_pending_frames' = [read_pending_frames EXCEPT ![e] = <<>>]
  /\ events' = [events EXCEPT ![e] = <<>>]
  /\ \E k \in 0 .. Len(wire[Peer(e)]) :
        wire' = [wire EXCEPT ![e] = <<>>, ![Peer(e)] = SubSeq(@, 1, k)]
  /\ UNCHANGED <<flags, next_stream_id, loop, chan, sent, delivered>>

(***************************************************************************)
(* distribute_to_substream, one frame                                      *)
(***************************************************************************)
NextFrame(e) == Head(dist[e])
IsSyn(e) == NextFrame(e).ty = "syn"
Distributing(e) == up[e] /\ dist[e] # <<>>
\* Mutant: a blocked stream's later frames are tried again at once.
SkipNothing(e) == FALSE
\* A frame of this stream has been held back in this turn.
Skip(e) == NextFrame(e).id \in block_substream[e]

StepOn(e) == dist' = [dist EXCEPT ![e] = Tail(@)]

KeepPending(e) ==
  read_pending_frames' = [read_pending_frames EXCEPT ![e] = Append(@, NextFrame(e))]

\* "Guarantee the order in which messages are sent"
DistributeBlocked(e) ==
  /\ Distributing(e) /\ Skip(e)
  /\ StepOn(e) /\ KeepPending(e)
  /\ UNCHANGED <<flags, next_stream_id, streams, pending_streams,
                 write_pending_frames, wire, block_substream, events, handles, up>>

\* A Syn while going away: Rst, and the rest of the buffer is dropped.
DistributeGoingAway(e) ==
  /\ Distributing(e) /\ ~Skip(e) /\ IsSyn(e) /\ local_go_away[e]
  /\ SendFrame(e, Frame("rst", NextFrame(e).id, 0))
  /\ dist' = [dist EXCEPT ![e] = <<>>]
  /\ UNCHANGED <<flags, next_stream_id, streams, pending_streams,
                 read_pending_frames, block_substream, events, handles, up>>

HasRoom(e) ==
  /\ Cardinality(streams[e]) < MaxStreamCount
  /\ Len(pending_streams[e]) < AcceptBacklog

\* create_stream(Some(id)): the new handle acknowledges, and its fresh channel
\* takes the Syn.  An id in use would be a protocol error.
DistributeAccept(e) ==
  LET id == NextFrame(e).id IN
  /\ Distributing(e) /\ ~Skip(e) /\ IsSyn(e) /\ ~local_go_away[e] /\ HasRoom(e)
  /\ IF id \in streams[e]
     THEN /\ SendGoAwayWithCode(e, ProtocolError, wire)
          /\ dist' = [dist EXCEPT ![e] = <<>>]
          /\ UNCHANGED <<streams, pending_streams, hold, chan, events>>
     ELSE /\ StepOn(e)
          /\ streams' = [streams EXCEPT ![e] = @ \cup {id}]
          /\ pending_streams' = [pending_streams EXCEPT ![e] = Append(@, id)]
          /\ hold' = [hold EXCEPT ![e][id] = "backlog"]
          /\ chan' = [chan EXCEPT ![e][id] = <<NextFrame(e)>>]
          /\ events' = [events EXCEPT ![e] = Append(@, Frame("ack", id, 0))]
          /\ UNCHANGED <<local_go_away, write_pending_frames, wire>>
  /\ UNCHANGED <<eof, remote_go_away, next_stream_id, read_pending_frames,
                 block_substream, sent, delivered, up>>

\* The frame goes into the handle's channel, or back to the buffer when that is
\* full; a handle that is gone is forgotten, frames for unknown ids are dropped.
HandOver(e, f) ==
  \/ /\ f.id \notin streams[e]
     /\ UNCHANGED <<streams, chan, delivered, read_pending_frames, block_substream>>
  \/ /\ f.id \in streams[e] /\ hold[e][f.id] = "gone"
     /\ streams' = [streams EXCEPT ![e] = @ \ {f.id}]
     /\ UNCHANGED <<chan, delivered, read_pending_frames, block_substream>>
  \/ /\ f.id \in streams[e] /\ hold[e][f.id] # "gone"
     /\ Len(chan[e][f.id]) < ChanCap
     /\ chan' = [chan EXCEPT ![e][f.id] = Append(@, f)]
     /\ delivered' = IF f.ty = "data"
                     THEN [delivered EXCEPT ![e][f.id] = Append(@, f.n)] ELSE delivered
     /\ UNCHANGED <<streams, read_pending_frames, block_substream>>
  \/ /\ f.id \in streams[e] /\ hold[e][f.id] # "gone"
     /\ Len(chan[e][f.id]) >= ChanCap
     /\ KeepPending(e)
     /\ block_substream' = [block_substream EXCEPT ![e] = @ \cup {f.id}]
     /\ UNCHANGED <<streams, chan, delivered>>

\* Mutant: the opener is not told.
DistributeRefuseSilently(e) ==
  /\ Distributing(e) /\ ~Skip(e) /\ IsSyn(e) /\ ~local_go_away[e] /\ ~HasRoom(e)
  /\ StepOn(e)
  /\ HandOver(e, NextFrame(e))
  /\ UNCHANGED <<flags, next_stream_id, pending_streams, write_pending_frames, wire,
                 events, hold, sent, up>>

\* No room: the answer only joins write_pending_frames, the next flush sends it.
DistributeRefuse(e) ==
  /\ Distributing(e) /\ ~Skip(e) /\ IsSyn(e) /\ ~local_go_away[e] /\ ~HasRoom(e)
  /\ StepOn(e)
  /\ write_pending_frames' =
       [write_pending_frames EXCEPT ![e] = Append(@, Frame("rst", NextFrame(e).id, 0))]
  /\ HandOver(e, NextFrame(e))
  /\ UNCHANGED <<flags, next_stream_id, pending_streams, wire, events, hold, sent, up>>

DistributeFrame(e) ==
  /\ Distributing(e) /\ ~Skip(e) /\ ~IsSyn(e)
  /\ StepOn(e)
  /\ HandOver(e, NextFrame(e))
  /\ UNCHANGED <<flags, next_stream_id, pending_streams, write_pending_frames, wire,
                 events, hold, sent, up>>

Distribute(e) ==
  \/ DistributeBlocked(e) \/ DistributeGoingAway(e)
  \/ DistributeAccept(e) \/ DistributeRefuse(e) \/ DistributeFrame(e)

(***************************************************************************)
(* The specification                                                       *)
(***************************************************************************)
Task(e) ==
  \/ Accept(e) \/ RecvFrames(e) \/ RecvEvent(e) \/ Flush(e)
  \/ GoAwayTimeout(e) \/ SessionEnd(e) \/ Distribute(e)

Application(e) ==
  \/ OpenStream(e) \/ Shutdown(e)
  \/ \E id \in Ids : HandleSend(e, id) \/ HandleTake(e, id) \/ HandleDrop(e, id)

Next ==
  /\ \E e \in Ends : Task(e) \/ Application(e)
  /\ UNCHANGED setup

Spec == Init /\ [][Next]_vars

(***************************************************************************)
(* Fairness: the runtime keeps polling the two sessions, except one that   *)
(* hangs; the loop of poll_next goes through flush, control_poll,          *)
(* recv_frames and recv_events in every turn, so each of them runs again   *)
(* and again even if it is interrupted by a distribution (strong           *)
(* fairness).  The applications accept streams and take their frames,      *)
(* except those that are stuck.                                            *)
(***************************************************************************)
Polled(e) == e \notin setup.hang /\ UNCHANGED setup

Fairness ==
  \A e \in Ends :
    /\ SF_vars(Accept(e) /\ Polled(e)) /\ SF_vars(RecvFrames(e) /\ Polled(e))
    /\ SF_vars(RecvEvent(e) /\ Polled(e)) /\ SF_vars(GoAwayTimeout(e) /\ Polled(e))
    /\ WF_vars((Flush(e) \/ SessionEnd(e) \/ Distribute(e)) /\ Polled(e))
    /\ \A id \in Ids : WF_vars(id \notin setup.stuck /\ HandleTake(e, id) /\ Polled(e))

FairSpec == Spec /\ Fairness

(***************************************************************************)
(* Properties                                                              *)
(***************************************************************************)
Frames == [ty : Kinds, id : 0 .. MaxId, n : Nat]

TypeOK ==
  /\ eof \in [Ends -> BOOLEAN]
  /\ remote_go_away \in [Ends -> BOOLEAN] /\ local_go_away \in [Ends -> BOOLEAN]
  /\ next_stream_id \in [Ends -> Nat]
  /\ streams \in [Ends -> SUBSET Ids]
  /\ pending_streams \in [Ends -> Seq(Ids)]
  /\ write_pending_frames \in [Ends -> Seq(Frames)]
  /\ read_pending_frames \in [Ends -> Seq(Frames)]
  /\ dist \in [Ends -> Seq(Frames)]
  /\ block_substream \in [Ends -> SUBSET Ids]
  /\ events \in [Ends -> Seq(Frames \cup {Closed(id) : id \in Ids})]
  /\ chan \in [Ends -> [Ids -> Seq(Frames)]]
  /\ hold \in [Ends -> [Ids -> {"none", "backlog", "live", "gone"}]]
  /\ wire \in [Ends -> Seq(Frames)]
  /\ up \in [Ends -> BOOLEAN]
  /\ sent \in [Ends -> [Ids -> Nat]]
  /\ delivered \in [Ends -> [Ids -> Seq(Nat)]]

Pipes ==
  INSTANCE OrderedStreams WITH
    Directions <- Ends \X Ids,
    in <- [d \in Ends \X Ids |-> [i \in 1 .. sent[d[1]][d[2]] |-> i]],
    out <- [d \in Ends \X Ids |-> delivered[Peer(d[1])][d[2]]]

\* Two sessions, with everything between a handle's send_data and the other handle's
\* channel, implement the ordered streams their users see: what a handle gets is what the
\* other one sent, from the first frame on, without a gap and in order, although full
\* channels hold frames back, go-aways clear queues and distribute_to_substream may drop
\* the rest of its buffer.
ImplementsOrderedStreams == Pipes!Spec

\* Two sessions of this code never find a stream id in use, in whatever order
\* their Syn, Rst and Closed meet: no GoAway(ProtocolError) is ever sent.  And every
\* variable keeps its type.
NoProtocolErrorSent ==
  /\ TypeOK
  /\ \A e \in Ends :
       \A q \in {wire[e], write_pending_frames[e]} :
         \A i \in 1 .. Len(q) : q[i] # GoAwayFrame(ProtocolError)

\* A session that has said it goes away ends, and so does one whose peer has ended: the
\* timer covers a peer that does not answer, and a full connection.
BothEnd ==
  \A e \in Ends :
    (e \notin setup.hang /\ (local_go_away[e] \/ ~up[Peer(e)])) ~> ~up[e]

\* A stream whose application takes its frames gets everything that was sent on
\* it, whatever other streams do: a full channel does not hold up the session.
NoHeadOfLineBlocking ==
  \A s \in Ends, id \in Ids :
    LET e == Peer(s) IN
    (/\ id \notin setup.stuck /\ setup.hang = {}
     /\ hold[e][id] = "live" /\ Len(delivered[e][id]) < sent[s][id]) ~>
       \/ Len(delivered[e][id]) = sent[s][id]
       \/ hold[e][id] = "gone" \/ ~up[e]

\* Every Syn is answered, with an Ack or a Rst, or the session ends: the opener
\* never waits for ever, whether or not the peer has room for the stream.
OpenAnswered ==
  \A e \in Ends, id \in Ids :
    (setup.hang = {} /\ \E i \in 1 .. Len(events[e]) : events[e][i] = Frame("syn", id, 0)) ~>
       chan[e][id] # <<>> \/ hold[e][id] = "gone" \/ ~up[e]

=============================================================================
