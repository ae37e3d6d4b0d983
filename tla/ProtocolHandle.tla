----------------------------- MODULE ProtocolHandle -----------------------------
(***************************************************************************)
(* The tasks that run the user's protocol handles                          *)
(* (tentacle/src/protocol_handle_stream.rs), for one protocol of one       *)
(* session: ServiceProtocolStream, kind "service", and                     *)
(* SessionProtocolStream, kind "session".  A handle takes one event at a   *)
(* time from its channel or from its timers; what it has taken is in cur   *)
(* while the callback runs, and the flags closed and shutdown may change   *)
(* in between.  Received data are strings; the other events have the names *)
(* of the code.                                                            *)
(***************************************************************************)
EXTENDS Integers, Sequences, FiniteSets, FiniteSetsExt, SequencesExt

CONSTANTS
  Kinds,              \* the kinds of handle: a subset of {"service", "session"}
  HandleSize,         \* capacity of the channel to a handle
  Faults, MaxFaults   \* the disturbances that may happen, and how many of them in all

ASSUME HandleAssumption ==
  /\ Kinds \subseteq {"service", "session"} /\ HandleSize \in Nat \ {0}
  /\ MaxFaults \in Nat

VARIABLES
  closed, shutdown,   \* SessionContext::closed; the service's shutdown flag
  hpc, cur, hchan,    \* the loop of each handle, the event it took, its channel
  receiving,          \* the handle has not closed its receiver
  known,              \* the service handle: the session is in its map sessions
  calls,              \* the callbacks made for this session, in order
  notify, timers, fired,  \* the token is registered; timers running; tokens that fired
  stop, reports,      \* the handle is told to stop; ProtocolHandleError events
  faults

flags == <<closed, shutdown, faults>>
handle == <<hpc, cur, hchan, receiving, known, calls, notify, timers, fired, stop, reports>>

Fault(f) == f \in Faults /\ faults < MaxFaults /\ faults' = faults + 1

\* A session is known to a service handle from Connected on; a session handle is told
\* Opened.  Both names are events of the stream.
Opened(k) == IF k = "service" THEN "Connected" ELSE "Opened"
Ended(k) == IF k = "service" THEN {"Disconnected"} ELSE {"Disconnected", "Closed"}
Controls == {"Connected", "Opened", "Disconnected", "Closed", "Notify", "SetNotify", "RemoveNotify"}

HandleInit ==
  /\ closed = FALSE /\ shutdown = FALSE /\ faults = 0
  /\ hpc = [k \in Kinds |-> "head"] /\ cur = [k \in Kinds |-> <<>>] /\ hchan = [k \in Kinds |-> <<>>]
  /\ receiving = [k \in Kinds |-> TRUE] /\ known = FALSE /\ calls = [k \in Kinds |-> <<>>]
  /\ notify = [k \in Kinds |-> FALSE] /\ timers = [k \in Kinds |-> 0] /\ fired = [k \in Kinds |-> 0]
  /\ stop = [k \in Kinds |-> FALSE] /\ reports = {}

Called(k, c) == calls' = [calls EXCEPT ![k] = Append(@, c)]
Goto(k, l) == hpc' = [hpc EXCEPT ![k] = l]

\* The head of run: only the service handle looks at shutdown here.
HandleHead(k) ==
  /\ hpc[k] = "head"
  /\ Goto(k, IF k = "service" /\ shutdown THEN "done" ELSE "select")
  /\ UNCHANGED <<flags, cur, hchan, receiving, known, calls, notify, timers, fired, stop, reports>>

\* The first half of handle_event: after a shutdown only the end of the session counts;
\* a service handle takes leave of its closed sessions, a session handle turns whatever
\* it got into Disconnected.
Accept(k, e) ==
  /\ IF shutdown /\ e \notin Ended(k)
     THEN cur' = cur /\ Goto(k, "head") /\ UNCHANGED <<known, calls>>
     ELSE /\ cur' = [cur EXCEPT ![k] = <<IF k = "session" /\ closed THEN "Disconnected" ELSE e>>]
          /\ Goto(k, "run")
          /\ IF k = "service" /\ known /\ closed
             THEN Called(k, "disconnected") /\ known' = FALSE
             ELSE UNCHANGED <<known, calls>>

HandleTake(k) ==
  /\ hpc[k] = "select" /\ hchan[k] # <<>>
  /\ hchan' = [hchan EXCEPT ![k] = Tail(@)]
  /\ Accept(k, Head(hchan[k]))
  /\ UNCHANGED <<flags, receiving, notify, timers, fired, stop, reports>>

HandleNotified(k) ==
  /\ hpc[k] = "select" /\ fired[k] > 0
  /\ fired' = [fired EXCEPT ![k] = @ - 1]
  /\ Accept(k, "Notify")
  /\ UNCHANGED <<flags, hchan, receiving, notify, timers, stop, reports>>

\* Mutant: data is passed on for a session that is not in the map any more.
CallbackUnknown(k) ==
  LET e == cur[k][1] IN
  CASE e \in {"Connected", "Opened"} ->
         Called(k, "connected") /\ known' = (known \/ k = "service") /\ UNCHANGED <<receiving, notify, timers>>
    [] e = "Disconnected" /\ k = "service" ->
         /\ IF known THEN Called(k, "disconnected") ELSE UNCHANGED calls
         /\ known' = FALSE /\ UNCHANGED <<receiving, notify, timers>>
    [] e = "Disconnected" /\ k = "session" ->
         receiving' = [receiving EXCEPT ![k] = FALSE] /\ UNCHANGED <<known, calls, notify, timers>>
    [] e = "Closed" -> Called(k, "disconnected") /\ UNCHANGED <<known, receiving, notify, timers>>
    [] e = "SetNotify" ->
         /\ notify' = [notify EXCEPT ![k] = TRUE] /\ timers' = [timers EXCEPT ![k] = @ + 1]
         /\ UNCHANGED <<known, receiving, calls>>
    [] e = "RemoveNotify" -> notify' = [notify EXCEPT ![k] = FALSE] /\ UNCHANGED <<known, receiving, calls, timers>>
    [] e = "Notify" ->
         /\ timers' = IF notify[k] THEN [timers EXCEPT ![k] = @ + 1] ELSE timers
         /\ UNCHANGED <<known, receiving, calls, notify>>
    [] e \notin Controls ->
         /\ IF k = "session" \/ (~closed /\ ~shutdown) THEN Called(k, e) ELSE UNCHANGED calls
         /\ UNCHANGED <<known, receiving, notify, timers>>

\* The callback of the event in cur, with the state it changes.  Notify and SetNotify
\* start a timer (set_notify) if the token is registered.
Callback(k) ==
  LET e == cur[k][1] IN
  CASE e \in {"Connected", "Opened"} ->
         Called(k, "connected") /\ known' = (known \/ k = "service") /\ UNCHANGED <<receiving, notify, timers>>
    [] e = "Disconnected" /\ k = "service" ->
         /\ IF known THEN Called(k, "disconnected") ELSE UNCHANGED calls
         /\ known' = FALSE /\ UNCHANGED <<receiving, notify, timers>>
    [] e = "Disconnected" /\ k = "session" ->
         receiving' = [receiving EXCEPT ![k] = FALSE] /\ UNCHANGED <<known, calls, notify, timers>>
    [] e = "Closed" -> Called(k, "disconnected") /\ UNCHANGED <<known, receiving, notify, timers>>
    [] e = "SetNotify" ->
         /\ notify' = [notify EXCEPT ![k] = TRUE] /\ timers' = [timers EXCEPT ![k] = @ + 1]
         /\ UNCHANGED <<known, receiving, calls>>
    [] e = "RemoveNotify" -> notify' = [notify EXCEPT ![k] = FALSE] /\ UNCHANGED <<known, receiving, calls, timers>>
    [] e = "Notify" ->
         /\ timers' = IF notify[k] THEN [timers EXCEPT ![k] = @ + 1] ELSE timers
         /\ UNCHANGED <<known, receiving, calls, notify>>
    [] e \notin Controls ->
         /\ IF k = "session" \/ (known /\ ~closed /\ ~shutdown) THEN Called(k, e) ELSE UNCHANGED calls
         /\ UNCHANGED <<known, receiving, notify, timers>>

HandleRun(k) ==
  /\ hpc[k] = "run" /\ Goto(k, "head") /\ cur' = [cur EXCEPT ![k] = <<>>]
  /\ Callback(k)
  /\ UNCHANGED <<flags, hchan, fired, stop, reports>>

\* The user's code panics in the callback: Drop reports it unless all is going down.
HandlePanic(k) ==
  /\ Fault("panic") /\ hpc[k] = "run" /\ Goto(k, "done") /\ cur' = [cur EXCEPT ![k] = <<>>]
  /\ hchan' = [hchan EXCEPT ![k] = <<>>] /\ receiving' = [receiving EXCEPT ![k] = FALSE]
  /\ reports' = IF shutdown THEN reports ELSE reports \cup {k}
  /\ UNCHANGED <<closed, shutdown, known, calls, notify, timers, fired, stop>>

\* The end of run: told to stop, or the channel is closed and empty.  What is left in
\* the channel goes with it.
HandleEnd(k) ==
  /\ hpc[k] = "select" /\ (stop[k] \/ (~receiving[k] /\ hchan[k] = <<>>))
  /\ Goto(k, "done") /\ hchan' = [hchan EXCEPT ![k] = <<>>] /\ receiving' = [receiving EXCEPT ![k] = FALSE]
  /\ UNCHANGED <<flags, cur, known, calls, notify, timers, fired, stop, reports>>

\* A timer of set_notify, which the service's future tasks run.
Timer(k) ==
  /\ timers[k] > 0 /\ timers' = [timers EXCEPT ![k] = @ - 1]
  /\ fired' = IF hpc[k] = "done" THEN fired ELSE [fired EXCEPT ![k] = @ + 1]
  /\ UNCHANGED <<flags, hpc, cur, hchan, receiving, known, calls, notify, stop, reports>>

\* The service passes the user's set_notify and remove_notify on.
UserNotify(k, e) ==
  /\ Fault("notify") /\ receiving[k] /\ Len(hchan[k]) < HandleSize
  /\ hchan' = [hchan EXCEPT ![k] = Append(@, e)]
  /\ UNCHANGED <<closed, shutdown, hpc, cur, receiving, known, calls, notify, timers, fired, stop, reports>>

HandleStep(k) ==
  \/ HandleHead(k) \/ HandleTake(k) \/ HandleNotified(k) \/ HandleRun(k) \/ HandlePanic(k)
  \/ HandleEnd(k) \/ Timer(k)
  \/ \E e \in {"SetNotify", "RemoveNotify"} : UserNotify(k, e)
=============================================================================
