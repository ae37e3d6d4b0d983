----------------------------- MODULE YamuxStream -----------------------------
(***************************************************************************)
(* One yamux stream seen from both of its ends: the two StreamHandles of   *)
(* yamux/src/stream.rs and the part of the two sessions of                 *)
(* yamux/src/session.rs that carries the frames of this stream.            *)
(*                                                                         *)
(* A poll_read, poll_peek or poll_write is several steps: it starts        *)
(* (PollRead...), takes the frames that wait in the handle's channel one   *)
(* at a time (RecvFrame) and ends (EndRead...).  The two sessions and the  *)
(* other end run between these steps; no second call on the same handle    *)
(* does, because every call takes &mut self.                               *)
(*                                                                         *)
(* path[e] holds the frames on their way to end e, in order: the first     *)
(* avail[e] of them are in e's frame_receiver, the others are in the       *)
(* peer's event channel, in a session's pending queue or on the wire.      *)
(***************************************************************************)
EXTENDS Integers, Sequences, FiniteSets

CONSTANTS
  InitialWindow,  \* INITIAL_STREAM_WINDOW
  MaxWindow,      \* max_stream_window_size of each end's session
  MaxU32,         \* the largest u32
  ChanCap,        \* frames a frame_receiver holds: channel(8) and its sender's slot
  WriteSizes,     \* lengths of the buffers handed to poll_write
  ReadSizes,      \* capacities of the buffers handed to poll_read
  MaxWritten,     \* bound: bytes an end writes
  MaxPath,        \* bound: an end starts no write with that many frames under way
  Readers,        \* ends whose application reads
  Peekers,        \* ends whose application peeks
  Writers,        \* ends whose application writes
  Closers,        \* ends whose application calls shutdown
  Droppers,       \* ends whose application drops the handle
  MayRefuse,      \* the server's session may be out of capacity or going away
  MayGoDown       \* sessions that may be dropped

Ends == {"client", "server"}
Peer(e) == IF e = "client" THEN "server" ELSE "client"

ASSUME WindowAssumption ==
  /\ InitialWindow \in Nat
  /\ MaxU32 \in Nat
  /\ MaxWindow \in [Ends -> Nat]
  \* asserted by Session::new; a u32
  /\ \A e \in Ends : InitialWindow <= MaxWindow[e] /\ MaxWindow[e] <= MaxU32

ASSUME ApplicationAssumption ==
  /\ ChanCap \in Nat \ {0}
  /\ WriteSizes \subseteq Nat
  /\ ReadSizes \subseteq Nat
  /\ MaxWritten \in Nat
  /\ MaxPath \in Nat
  /\ MayRefuse \in BOOLEAN
  /\ UNION {Readers, Peekers, Writers, Closers, Droppers, MayGoDown} \subseteq Ends

VARIABLES
  state,          \* StreamHandle::state, "None" before the handle exists
  recv_window, send_window,
  buf,            \* bytes in read_buf
  readable_wake, writeable_wake,
  recv_task,      \* the waker registered in frame_receiver
  blocked,        \* tasks that were answered Pending and have not been woken
  pc,             \* the call in progress on the handle
  entry,          \* state and buf when the poll_write in progress started
  alive,          \* the handle has not been dropped
  path, avail,
  reg,            \* "new" | "in" | "out": the id in the session's streams map
  closed_event,   \* StreamEvent::Closed under way to the session
  go_away,        \* the handle reported a protocol error (StreamEvent::GoAway)
  up,             \* the session exists
  written, granted,  \* history: bytes sent, credit granted by this end
  taken, credited    \* history: bytes, credit this end took from its frames

windows == <<recv_window, send_window, buf>>
wakers  == <<readable_wake, writeable_wake, recv_task, blocked>>
calls   == <<pc, entry, alive>>
links   == <<path, avail, reg, closed_event, up>>
history == <<written, granted, taken, credited>>
vars == <<state, windows, wakers, calls, links, go_away, history>>

States == {"None", "Init", "SynSent", "SynReceived", "Established",
           "LocalClosing", "RemoteClosing", "Closed", "Reset"}
\* States in which recv_frames and try_recv_frames take no further frame.
Stopped == {"RemoteClosing", "Closed", "Reset"}
Flag == {"syn", "ack", "fin", "rst"}
Frame == [ty : {"data", "update"}, flags : SUBSET Flag, len : Nat,
          sent : Nat, granted : Nat]
Task == {"reader", "writer"}
NoTask == "none"

Min2(a, b) == IF a <= b THEN a ELSE b
\* u32 subtraction, which wraps in a release build.
Sub32(x) == IF x < 0 THEN x + MaxU32 + 1 ELSE x

DataFrame(e, flags, n) ==
  [ty |-> "data", flags |-> flags, len |-> n,
   sent |-> written[e] + n, granted |-> granted[e]]
UpdateFrame(e, flags, d) ==
  [ty |-> "update", flags |-> flags, len |-> d,
   sent |-> written[e], granted |-> granted[e] + d]

\* The end's event channel takes a frame while the session exists; frames for a
\* session that is gone reach nobody.
Send(e, f) ==
  path' = IF up[e] /\ up[Peer(e)]
          THEN [path EXCEPT ![Peer(e)] = Append(@, f)] ELSE path

(***************************************************************************)
(* StreamHandle helpers                                                    *)
(***************************************************************************)
FlagsOf(st) ==
  CASE st = "Init" -> {"syn"}
    [] st = "SynReceived" -> {"ack"}
    [] OTHER -> {}
StateAfterFlags(st) ==
  CASE st = "Init" -> "SynSent"
    [] st = "SynReceived" -> "Established"
    [] OTHER -> st

Opening == {"Init", "SynSent", "SynReceived", "Established"}

UnexpectedFin(st, flags) ==
  "fin" \in flags /\ st \notin Opening \cup {"LocalClosing"}

\* process_flags, when it returns Ok
ProcessFlags(st, flags) ==
  IF "rst" \in flags THEN "Reset"
  ELSE CASE "fin" \in flags /\ st \in Opening -> "RemoteClosing"
         [] "fin" \in flags /\ st = "LocalClosing" -> "Closed"
         [] "fin" \notin flags /\ "ack" \in flags /\ st = "SynSent" -> "Established"
         [] OTHER -> st

\* The credit send_window_update can return, with b bytes left in read_buf.
Delta(e, b) == Sub32(MaxWindow[e] - b - recv_window[e])

\* send_window_update in state st with b bytes left in read_buf.
OmitUpdate(e, st, b) ==
  Delta(e, b) < MaxWindow[e] \div 2 /\ FlagsOf(st) = {}
\* Mutant: the window grows although the update is omitted.
SendWindowUpdateSilently(e, st, b) ==
  /\ state' = [state EXCEPT ![e] = StateAfterFlags(st)]
  /\ recv_window' = [recv_window EXCEPT ![e] = @ + Delta(e, b)]
  /\ granted' = [granted EXCEPT ![e] = @ + Delta(e, b)]
  /\ IF OmitUpdate(e, st, b)
     THEN UNCHANGED path
     ELSE Send(e, UpdateFrame(e, FlagsOf(st), Delta(e, b)))

SendWindowUpdate(e, st, b) ==
  /\ state' = [state EXCEPT ![e] = StateAfterFlags(st)]
  /\ IF OmitUpdate(e, st, b)
     THEN UNCHANGED <<recv_window, granted, path>>
     ELSE /\ recv_window' = [recv_window EXCEPT ![e] = @ + Delta(e, b)]
          /\ granted' = [granted EXCEPT ![e] = @ + Delta(e, b)]
          /\ Send(e, UpdateFrame(e, FlagsOf(st), Delta(e, b)))

\* A waker that is woken is taken: from[e] names the task to wake.
Wake(e, task) == blocked' = [blocked EXCEPT ![e] = @ \ {task}]

(***************************************************************************)
(* Sessions: opening, accepting, carrying and forgetting the stream        *)
(***************************************************************************)
Init ==
  /\ state = [e \in Ends |-> "None"]
  /\ recv_window = [e \in Ends |-> InitialWindow]
  /\ send_window = [e \in Ends |-> InitialWindow]
  /\ buf = [e \in Ends |-> 0]
  /\ readable_wake = [e \in Ends |-> NoTask]
  /\ writeable_wake = [e \in Ends |-> NoTask]
  /\ recv_task = [e \in Ends |-> NoTask]
  /\ blocked = [e \in Ends |-> {}]
  /\ pc = [e \in Ends |-> "idle"]
  /\ entry = [e \in Ends |-> [state |-> "None", buf |-> 0]]
  /\ alive = [e \in Ends |-> FALSE]
  /\ path = [e \in Ends |-> <<>>]
  /\ avail = [e \in Ends |-> 0]
  /\ reg = [e \in Ends |-> "new"]
  /\ closed_event = [e \in Ends |-> FALSE]
  /\ go_away = [e \in Ends |-> FALSE]
  /\ up = [e \in Ends |-> TRUE]
  /\ written = [e \in Ends |-> 0]
  /\ granted = [e \in Ends |-> 0]
  /\ taken = [e \in Ends |-> 0]
  /\ credited = [e \in Ends |-> 0]

\* create_stream: the new handle at once announces its window with Syn or Ack.
CreateStream(e, st) ==
  /\ reg' = [reg EXCEPT ![e] = "in"]
  /\ alive' = [alive EXCEPT ![e] = TRUE]
  /\ SendWindowUpdate(e, st, 0)

OpenStream ==
  /\ up["client"] /\ reg["client"] = "new"
  /\ CreateStream("client", "Init")
  /\ UNCHANGED <<send_window, buf, wakers, pc, entry, avail, closed_event, up,
                 go_away, written, taken, credited>>

\* The Syn frame at the head of the server's path, not yet distributed.
SynArrived ==
  up["server"] /\ reg["server"] = "new" /\ path["server"] # <<>>

\* distribute_to_substream creates the stream, then delivers the Syn frame to it.
AcceptStream ==
  /\ SynArrived
  /\ CreateStream("server", "SynReceived")
  /\ avail' = [avail EXCEPT !["server"] = 1]
  /\ UNCHANGED <<send_window, buf, wakers, pc, entry, closed_event, up,
                 go_away, written, taken, credited>>

\* No capacity (Ack and Rst), or the session is going away (Rst).
RefuseStream ==
  /\ MayRefuse /\ SynArrived
  /\ reg' = [reg EXCEPT !["server"] = "out"]
  /\ \E flags \in {{"ack", "rst"}, {"rst"}} :
        path' = [path EXCEPT !["server"] = Tail(@),
                             !["client"] = IF up["client"]
                                           THEN Append(@, UpdateFrame("server", flags, 0))
                                           ELSE @]
  /\ UNCHANGED <<state, windows, wakers, calls, avail, closed_event, up,
                 go_away, history>>

\* distribute_to_substream: the next frame enters the handle's channel.
Deliver(e) ==
  /\ up[e] /\ reg[e] = "in" /\ alive[e]
  /\ avail[e] < Len(path[e]) /\ avail[e] < ChanCap
  /\ avail' = [avail EXCEPT ![e] = @ + 1]
  /\ recv_task' = [recv_task EXCEPT ![e] = NoTask]
  /\ Wake(e, recv_task[e])
  /\ UNCHANGED <<state, windows, readable_wake, writeable_wake, calls, path, reg,
                 closed_event, up, go_away, history>>

\* The session does not know the stream (any more), or finds its receiver gone
\* and removes it: the frames it still gets for the stream are dropped.
Discard(e) ==
  /\ up[e]
  /\ reg[e] = "out" \/ (reg[e] = "in" /\ ~alive[e])
  /\ avail[e] < Len(path[e])
  /\ path' = [path EXCEPT ![e] = SubSeq(@, 1, avail[e])]
  /\ reg' = [reg EXCEPT ![e] = "out"]
  /\ UNCHANGED <<state, windows, wakers, calls, avail, closed_event, up, go_away,
                 history>>

\* handle_event(Closed): the map entry goes, and with it the frame sender.
HandleClosed(e) ==
  /\ up[e] /\ closed_event[e]
  /\ closed_event' = [closed_event EXCEPT ![e] = FALSE]
  /\ reg' = [reg EXCEPT ![e] = "out"]
  /\ recv_task' = [recv_task EXCEPT ![e] = NoTask]
  /\ Wake(e, recv_task[e])
  /\ UNCHANGED <<state, windows, readable_wake, writeable_wake, calls, path, avail,
                 up, go_away, history>>

\* The session is dropped: its senders go, and the frames it had not sent.
SessionDown(e) ==
  /\ e \in MayGoDown /\ up[e]
  /\ up' = [up EXCEPT ![e] = FALSE]
  /\ reg' = [reg EXCEPT ![e] = "out"]
  /\ closed_event' = [closed_event EXCEPT ![e] = FALSE]
  /\ recv_task' = [recv_task EXCEPT ![e] = NoTask]
  /\ Wake(e, recv_task[e])
  /\ \E k \in avail[Peer(e)] .. Len(path[Peer(e)]) :
        path' = [path EXCEPT ![e] = SubSeq(@, 1, avail[e]),
                             ![Peer(e)] = SubSeq(@, 1, k)]
  /\ UNCHANGED <<state, windows, readable_wake, writeable_wake, calls, avail,
                 go_away, history>>

(***************************************************************************)
(* StreamHandle: reading and peeking                                       *)
(***************************************************************************)
Ready(e) == alive[e] /\ pc[e] = "idle"

\* check_self_state answers EOF or ConnectionReset.
EndOfStream(st, b) == b = 0 /\ st \in Stopped

StartReading(e, call) ==
  /\ Ready(e)
  /\ Wake(e, "reader")
  /\ IF EndOfStream(state[e], buf[e])
     THEN UNCHANGED <<readable_wake, pc>>
     ELSE /\ readable_wake' = [readable_wake EXCEPT ![e] = "reader"]
          /\ pc' = [pc EXCEPT ![e] = call]
  /\ UNCHANGED <<state, windows, writeable_wake, recv_task, entry, alive, links,
                 go_away, history>>

PollRead(e) == e \in Readers /\ StartReading(e, "read")
PollPeek(e) == e \in Peekers /\ StartReading(e, "peek")

\* One turn of recv_frames (poll_next) or try_recv_frames (try_recv): take the
\* frame at the head of the channel and handle it.
FrameError(e, f) ==
  \/ UnexpectedFin(state[e], f.flags)
  \/ f.ty = "update" /\ send_window[e] + f.len > MaxU32
  \/ f.ty = "data" /\ f.len > recv_window[e]

TakeFrame(e) ==
  /\ path' = [path EXCEPT ![e] = Tail(@)]
  /\ avail' = [avail EXCEPT ![e] = @ - 1]

\* Mutant: the writer is not woken.
HandleUpdateSilently(e, f) ==
  /\ f.ty = "update"
  /\ send_window' = [send_window EXCEPT ![e] = @ + f.len]
  /\ credited' = [credited EXCEPT ![e] = @ + f.len]
  /\ UNCHANGED <<recv_window, buf, taken, writeable_wake, blocked>>

HandleUpdate(e, f) ==
  /\ f.ty = "update"
  /\ send_window' = [send_window EXCEPT ![e] = @ + f.len]
  /\ credited' = [credited EXCEPT ![e] = @ + f.len]
  /\ writeable_wake' = [writeable_wake EXCEPT ![e] = NoTask]
  /\ Wake(e, writeable_wake[e])
  /\ UNCHANGED <<recv_window, buf, taken>>

HandleData(e, f) ==
  /\ f.ty = "data"
  /\ buf' = [buf EXCEPT ![e] = @ + f.len]
  /\ recv_window' = [recv_window EXCEPT ![e] = @ - f.len]
  /\ taken' = [taken EXCEPT ![e] = @ + f.len]
  /\ UNCHANGED <<send_window, credited, writeable_wake, blocked>>

\* recv_frames_wake: what poll_write received concerns the reader.
ReaderNews(e, st, ok) ==
  \/ st = "RemoteClosing" /\ entry[e].state # "RemoteClosing"
  \/ ok /\ buf[e] # entry[e].buf
TakeReadableWake(e, news) ==
  readable_wake' = IF news THEN [readable_wake EXCEPT ![e] = NoTask] ELSE readable_wake
Woken(e, news) == IF news THEN {readable_wake[e]} ELSE {}

\* A protocol error: send_go_away and return the error to the caller.
RejectFrame(e, f) ==
  LET news == pc[e] = "write" /\ ReaderNews(e, ProcessFlags(state[e], f.flags), FALSE)
  IN /\ state' = [state EXCEPT ![e] = "LocalClosing"]
     /\ go_away' = [go_away EXCEPT ![e] = TRUE]
     /\ pc' = [pc EXCEPT ![e] = "idle"]
     /\ TakeReadableWake(e, news)
     /\ blocked' = [blocked EXCEPT ![e] = @ \ Woken(e, news)]
     /\ UNCHANGED <<windows, writeable_wake, taken, credited>>

RecvFrame(e) ==
  /\ pc[e] # "idle" /\ state[e] \notin Stopped /\ avail[e] > 0
  /\ TakeFrame(e)
  /\ LET f == Head(path[e]) IN
       IF FrameError(e, f)
       THEN RejectFrame(e, f)
       ELSE /\ state' = [state EXCEPT ![e] = ProcessFlags(@, f.flags)]
            /\ HandleUpdate(e, f) \/ HandleData(e, f)
            /\ UNCHANGED <<go_away, pc, readable_wake>>
  /\ UNCHANGED <<recv_task, entry, alive, reg, closed_event, up,
                 written, granted>>

\* The loop of recv_frames ends: the state stops it, or the channel is empty and
\* either closed (the stream becomes RemoteClosing) or still open.
LoopEnds(e) == state[e] \in Stopped \/ avail[e] = 0
ChannelOpen(e) == state[e] \notin Stopped /\ reg[e] = "in"
StateAfterLoop(e) ==
  IF state[e] \in Stopped \/ reg[e] = "in" THEN state[e] ELSE "RemoteClosing"

\* poll_next registers the reader when it finds an open channel empty.
RegisterReader(e) ==
  recv_task' = IF ChannelOpen(e) THEN [recv_task EXCEPT ![e] = "reader"]
               ELSE recv_task

EndReading(e, call) ==
  /\ pc[e] = call /\ LoopEnds(e)
  /\ pc' = [pc EXCEPT ![e] = "idle"]
  /\ RegisterReader(e)
  /\ UNCHANGED <<send_window, readable_wake, writeable_wake, entry, alive, avail,
                 reg, closed_event, up, go_away, written, taken, credited>>

\* read_buf is empty: EOF, a reset, or Pending.
EndWithoutData(e, call) ==
  /\ EndReading(e, call)
  /\ buf[e] = 0
  /\ state' = [state EXCEPT ![e] = StateAfterLoop(e)]
  /\ blocked' = [blocked EXCEPT ![e] =
                   IF StateAfterLoop(e) \in Stopped THEN @ ELSE @ \cup {"reader"}]
  /\ UNCHANGED <<recv_window, buf, path, granted>>

EndRead(e) ==
  \/ EndWithoutData(e, "read")
  \/ /\ EndReading(e, "read")
     /\ buf[e] > 0
     /\ \E r \in ReadSizes :
          LET rest == buf[e] - Min2(r, buf[e])
          IN /\ buf' = [buf EXCEPT ![e] = rest]
             /\ IF StateAfterLoop(e) \in Stopped
                THEN /\ state' = [state EXCEPT ![e] = StateAfterLoop(e)]
                     /\ UNCHANGED <<recv_window, granted, path>>
                ELSE SendWindowUpdate(e, state[e], rest)
     /\ UNCHANGED blocked

EndPeek(e) ==
  \/ EndWithoutData(e, "peek")
  \/ /\ EndReading(e, "peek")
     /\ buf[e] > 0
     /\ state' = [state EXCEPT ![e] = StateAfterLoop(e)]
     /\ UNCHANGED <<recv_window, buf, path, granted, blocked>>

(***************************************************************************)
(* StreamHandle: writing, closing, dropping                                *)
(***************************************************************************)
PollWrite(e) ==
  /\ e \in Writers /\ Ready(e)
  /\ written[e] < MaxWritten /\ Len(path[Peer(e)]) < MaxPath
  /\ Wake(e, "writer")
  /\ entry' = [entry EXCEPT ![e] = [state |-> state[e], buf |-> buf[e]]]
  /\ pc' = [pc EXCEPT ![e] = "write"]
  /\ UNCHANGED <<state, windows, readable_wake, writeable_wake, recv_task, alive,
                 links, go_away, history>>

\* Mutant: what is sent is not charged to the window.
SendDataUncharged(e, st, n) ==
  /\ Send(e, DataFrame(e, FlagsOf(st), n))
  /\ state' = [state EXCEPT ![e] = StateAfterFlags(st)]
  /\ written' = IF up[e] THEN [written EXCEPT ![e] = @ + n] ELSE written
  /\ UNCHANGED send_window

\* send_data: n bytes leave, with the flags that state st still owes.
SendData(e, st, n) ==
  /\ Send(e, DataFrame(e, FlagsOf(st), n))
  /\ state' = [state EXCEPT ![e] = StateAfterFlags(st)]
  /\ send_window' = IF up[e] THEN [send_window EXCEPT ![e] = @ - n] ELSE send_window
  /\ written' = IF up[e] THEN [written EXCEPT ![e] = @ + n] ELSE written

\* Mutant: poll_write registers its own task, as poll_next would.
TryRecvWakerOverwritten(e) ==
  recv_task' = IF ChannelOpen(e) THEN [recv_task EXCEPT ![e] = "writer"]
               ELSE recv_task

\* try_recv leaves the reader's waker in the channel.
TryRecvWaker(e) == UNCHANGED recv_task

EndWrite(e) ==
  LET st == StateAfterLoop(e)
      news == ReaderNews(e, st, ChannelOpen(e))
      woken == blocked[e] \ Woken(e, news)
  IN /\ pc[e] = "write" /\ LoopEnds(e)
     /\ pc' = [pc EXCEPT ![e] = "idle"]
     /\ TakeReadableWake(e, news)
     /\ \/ /\ st \in {"Reset", "LocalClosing", "Closed"}
           /\ state' = [state EXCEPT ![e] = st]
           /\ blocked' = [blocked EXCEPT ![e] = woken]
           /\ UNCHANGED <<send_window, writeable_wake, path, written>>
        \/ /\ st \notin {"Reset", "LocalClosing", "Closed"}
           /\ send_window[e] = 0
           /\ state' = [state EXCEPT ![e] = st]
           /\ writeable_wake' = [writeable_wake EXCEPT ![e] = "writer"]
           /\ blocked' = [blocked EXCEPT ![e] = woken \cup {"writer"}]
           /\ UNCHANGED <<send_window, path, written>>
        \/ /\ st \notin {"Reset", "LocalClosing", "Closed"}
           /\ send_window[e] > 0
           /\ \E m \in WriteSizes : SendData(e, st, Min2(send_window[e], m))
           /\ blocked' = [blocked EXCEPT ![e] = woken]
           /\ UNCHANGED writeable_wake
     /\ TryRecvWaker(e)
     /\ UNCHANGED <<recv_window, buf, entry, alive, avail, reg,
                    closed_event, up, go_away, granted, taken, credited>>

\* StreamEvent::Closed
NotifyClosed(e) ==
  closed_event' = IF up[e] THEN [closed_event EXCEPT ![e] = TRUE] ELSE closed_event

\* Mutant: the Fin is sent ahead of the frames under way.
CloseOvertaking(e) ==
  /\ e \in Closers /\ Ready(e) /\ state[e] \in Opening /\ avail[Peer(e)] = 0
  /\ state' = [state EXCEPT ![e] = "LocalClosing"]
  /\ path' = [path EXCEPT ![Peer(e)] = <<UpdateFrame(e, {"fin"}, 0)>> \o @]
  /\ UNCHANGED <<windows, wakers, calls, avail, closed_event, reg, up, go_away, history>>

\* poll_shutdown
Close(e) ==
  /\ e \in Closers /\ Ready(e)
  /\ \/ /\ state[e] \in Opening
        /\ state' = [state EXCEPT ![e] = "LocalClosing"]
        /\ Send(e, UpdateFrame(e, {"fin"}, 0))
        /\ UNCHANGED closed_event
     \/ /\ state[e] = "RemoteClosing"
        /\ state' = [state EXCEPT ![e] = "Closed"]
        /\ Send(e, UpdateFrame(e, {"fin"}, 0))
        /\ NotifyClosed(e)
     \/ /\ state[e] \in {"Reset", "Closed", "LocalClosing"}
        /\ state' = [state EXCEPT ![e] = "Closed"]
        /\ NotifyClosed(e)
        /\ UNCHANGED path
  /\ UNCHANGED <<windows, wakers, calls, avail, reg, up, go_away, history>>

\* Drop: whatever was not closed is reset, and the session is told.
DropHandle(e) ==
  /\ e \in Droppers /\ Ready(e)
  /\ alive' = [alive EXCEPT ![e] = FALSE]
  /\ blocked' = [blocked EXCEPT ![e] = {}]
  /\ IF up[e] /\ state[e] # "Closed"
     THEN /\ IF state[e] \in {"LocalClosing", "Reset"}
             THEN UNCHANGED <<path, state>>
             ELSE /\ Send(e, UpdateFrame(e, FlagsOf(state[e]) \cup {"rst"}, 0))
                  /\ state' = [state EXCEPT ![e] = StateAfterFlags(@)]
          /\ NotifyClosed(e)
     ELSE UNCHANGED <<path, state, closed_event>>
  /\ UNCHANGED <<windows, readable_wake, writeable_wake, recv_task, pc, entry, avail,
                 reg, up, go_away, history>>

(***************************************************************************)
(* The specification                                                       *)
(***************************************************************************)
SessionStep(e) == Deliver(e) \/ Discard(e) \/ HandleClosed(e) \/ SessionDown(e)
HandleStep(e) ==
  \/ PollRead(e) \/ PollPeek(e) \/ PollWrite(e)
  \/ RecvFrame(e) \/ EndRead(e) \/ EndPeek(e) \/ EndWrite(e)
  \/ Close(e) \/ DropHandle(e)

Next ==
  \/ OpenStream \/ AcceptStream \/ RefuseStream
  \/ \E e \in Ends : SessionStep(e) \/ HandleStep(e)

Spec == Init /\ [][Next]_vars

(***************************************************************************)
(* Fairness.  The runtime keeps polling the two sessions, a call that has  *)
(* started returns, and a task is polled again only once it is runnable:   *)
(* a task that was answered Pending is owed nothing until it is woken.     *)
(* Readers are applications that keep reading, Writers keep writing.       *)
(***************************************************************************)
Runs(e, task, A) == A /\ task \notin blocked[e]
ReadWhenRunnable(e) == Runs(e, "reader", PollRead(e))
WriteWhenRunnable(e) == Runs(e, "writer", PollWrite(e))

Fairness ==
  /\ WF_vars(OpenStream) /\ WF_vars(AcceptStream)
  /\ \A e \in Ends :
       /\ WF_vars(Deliver(e)) /\ WF_vars(Discard(e)) /\ WF_vars(HandleClosed(e))
       /\ WF_vars(RecvFrame(e))
       /\ WF_vars(EndRead(e)) /\ WF_vars(EndPeek(e)) /\ WF_vars(EndWrite(e))
       /\ WF_vars(ReadWhenRunnable(e)) /\ WF_vars(WriteWhenRunnable(e))

FairSpec == Spec /\ Fairness

(***************************************************************************)
(* Properties                                                              *)
(***************************************************************************)
TypeOK ==
  /\ state \in [Ends -> States]
  /\ recv_window \in [Ends -> Nat] /\ send_window \in [Ends -> Nat]
  /\ buf \in [Ends -> Nat]
  /\ readable_wake \in [Ends -> Task \cup {NoTask}]
  /\ writeable_wake \in [Ends -> Task \cup {NoTask}]
  /\ recv_task \in [Ends -> Task \cup {NoTask}]
  /\ blocked \in [Ends -> SUBSET Task]
  /\ pc \in [Ends -> {"idle", "read", "peek", "write"}]
  /\ entry \in [Ends -> [state : States, buf : Nat]]
  /\ alive \in [Ends -> BOOLEAN]
  /\ path \in [Ends -> Seq(Frame)]
  /\ avail \in [Ends -> Nat]
  /\ \A e \in Ends : avail[e] <= Len(path[e])
  /\ reg \in [Ends -> {"new", "in", "out"}]
  /\ closed_event \in [Ends -> BOOLEAN]
  /\ go_away \in [Ends -> BOOLEAN]
  /\ up \in [Ends -> BOOLEAN]
  /\ written \in [Ends -> Nat] /\ granted \in [Ends -> Nat]
  /\ taken \in [Ends -> Nat] /\ credited \in [Ends -> Nat]

\* Two ends that both run this code never see a protocol error: no data frame
\* overruns the receive window (RecvWindowExceeded), no window update overflows
\* the send window (InvalidMsgType), no Fin comes twice (UnexpectedFlag), so no
\* handle ever asks its session to go away.
NoProtocolError == \A e \in Ends : ~go_away[e]

\* What an end has buffered and what it still allows its peer to send never
\* exceed the configured window: the memory of a stream is bounded, and the u32
\* subtraction of send_window_update does not wrap.
BufferBounded == \A e \in Ends : recv_window[e] + buf[e] <= MaxWindow[e]

\* A reader that was answered Pending and not woken has nothing to read: no byte
\* in read_buf, no frame in the channel, the channel still open and holding the
\* reader's waker; if the stream has stopped, the Closed event that will close
\* the channel and wake the reader is under way.  In particular poll_write,
\* which drains the same channel, never leaves a reader asleep.
ReaderNeverLost ==
  \A e \in Ends :
    "reader" \in blocked[e] /\ pc[e] = "idle" =>
       /\ buf[e] = 0 /\ avail[e] = 0
       /\ recv_task[e] = "reader" /\ reg[e] = "in"
       /\ state[e] \in Stopped => closed_event[e]

\* The states in which check_self_state reports end-of-file once read_buf is empty.
Ended == {"RemoteClosing", "Closed"}

\* A stream comes to report end-of-file only when its handle has taken everything
\* the peer wrote: the Fin of poll_shutdown never overtakes data, neither in the
\* event channel of the handle nor in the sessions nor in the frame channel of the
\* other handle.  The code makes two exceptions: a handle whose own session was
\* dropped reports it after the frames that had reached it (recv_frames finds the
\* channel closed), and so does one whose owner calls poll_shutdown a second time,
\* or after a reset.
EofAfterAllData ==
  [][\A e \in Ends :
       state[e] \notin Ended /\ state'[e] \in Ended =>
         \/ taken'[e] = written'[Peer(e)]
         \/ ~up[e] /\ avail'[e] = 0
         \/ state[e] \in {"LocalClosing", "Reset"} /\ Close(e)]_vars

\* While both applications read, poll_write does not stay blocked for want of credit, and
\* every byte written is in the end in the other end's read_buf or beyond, unless a stream
\* was reset or a session dropped.
DataArrives ==
  \A e \in Ends :
    /\ "writer" \in blocked[e] ~> "writer" \notin blocked[e]
    /\ (taken[Peer(e)] < written[e]) ~>
         \/ taken[Peer(e)] = written[e]
         \/ state[Peer(e)] \in {"Reset", "Closed"} \/ ~alive[Peer(e)] \/ ~up[e] \/ ~up[Peer(e)]

(***************************************************************************)
(* The inductive invariant.  The frames of path[e] carry two running       *)
(* totals: sent, the bytes the sender had written, and granted, the credit *)
(* it had given, when the frame left.  They turn the accounting of the     *)
(* windows into statements about single frames.                            *)
(***************************************************************************)
SentBefore(f) == IF f.ty = "data" THEN f.sent - f.len ELSE f.sent
GrantedBefore(f) == IF f.ty = "update" THEN f.granted - f.len ELSE f.granted

WindowsBalance ==
  \A e \in Ends :
    /\ send_window[e] + written[e] = InitialWindow + credited[e]
    /\ recv_window[e] + taken[e] = InitialWindow + granted[e]
    /\ taken[e] <= written[Peer(e)] /\ credited[e] <= granted[Peer(e)]

\* Frames q on their way to an end that took t bytes and c credit so far, from an
\* end that wrote w bytes and granted g.
InOrder(q, t, c, w, g) ==
  \A i \in 1 .. Len(q) :
    /\ t <= SentBefore(q[i]) /\ c <= GrantedBefore(q[i])
    /\ q[i].sent <= w /\ q[i].granted <= g
    /\ \A j \in 1 .. Len(q) : i < j =>
         q[i].sent <= SentBefore(q[j]) /\ q[i].granted <= GrantedBefore(q[j])

FramesInOrder ==
  \A e \in Ends :
    InOrder(path[e], taken[e], credited[e], written[Peer(e)], granted[Peer(e)])

HandleLife ==
  \A e \in Ends :
    /\ reg[e] = "new" => buf[e] = 0 /\ avail[e] = 0 /\ ~alive[e] /\ ~closed_event[e]
    /\ pc[e] # "idle" => alive[e]
    /\ alive[e] => state[e] # "None"
    /\ reg[e] = "in" => up[e]

ReaderWaits ==
  \A e \in Ends :
    "reader" \in blocked[e] =>
       /\ pc[e] \in {"idle", "write"} /\ alive[e]
       /\ buf[e] = 0 /\ avail[e] = 0
       /\ recv_task[e] = "reader" /\ reg[e] = "in"
       /\ state[e] \in Stopped => closed_event[e]

\* The facts about both ends together that every step of poll_read, poll_peek,
\* poll_write, poll_shutdown, drop and of the two sessions preserves.
InductiveInvariant ==
  /\ TypeOK /\ NoProtocolError /\ BufferBounded
  /\ WindowsBalance /\ FramesInOrder /\ HandleLife /\ ReaderWaits

\* The bytes of frames q follow one another, from the t bytes their reader has
\* taken, without a gap.
NoGap(q, t) ==
  \A i \in 1 .. Len(q) : SentBefore(q[i]) = IF i = 1 THEN t ELSE q[i - 1].sent

\* What the frames q bring their reader to, from t bytes taken.
Reaches(q, t) == IF q = <<>> THEN t ELSE q[Len(q)].sent

\* The end will take every frame on its way to it, or still can.
Reads(e) ==
  \/ up[e] /\ reg[e] = "new"
  \/ alive[e] /\ IF up[e] THEN reg[e] = "in" ELSE state[e] # "Closed"

NothingSkipped ==
  \A e \in Ends :
    Reads(e) =>
      /\ NoGap(path[e], taken[e])
      /\ up[e] /\ up[Peer(e)] => Reaches(path[e], taken[e]) = written[Peer(e)]

\* The end writes no more on a session that exists.
Finished(e) == state[e] \in {"LocalClosing", "Closed", "Reset"} \/ ~up[e]

FinIsLast ==
  \A e \in Ends : \A i \in 1 .. Len(path[e]) :
    "fin" \in path[e][i].flags =>
      path[e][i].sent = written[Peer(e)] /\ Finished(Peer(e))

RemoteClosed ==
  \A e \in Ends :
    state[e] = "RemoteClosing" /\ up[e] =>
      taken[e] = written[Peer(e)] /\ Finished(Peer(e))

\* The session knows the stream from its creation until the handle is closed or gone.
SessionKnows ==
  \A e \in Ends :
    /\ reg[e] = "new" => state[e] = "None"
    /\ closed_event[e] \/ (up[e] /\ reg[e] = "out") => state[e] = "Closed" \/ ~alive[e]

\* What makes a Fin the end of the data, over the facts of InductiveInvariant.
EofInvariant ==
  NothingSkipped /\ FinIsLast /\ RemoteClosed /\ SessionKnows

=============================================================================
