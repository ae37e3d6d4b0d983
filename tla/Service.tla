------------------------------- MODULE Service -------------------------------
(***************************************************************************)
(* The service of tentacle (service.rs, service/helper.rs, future_task.rs, *)
(* the listening half of transports/tcp_base_listen.rs): one task that     *)
(* owns the sessions, the dials in progress and the listens, fed by tasks  *)
(* of the user and by events of the futures it spawned.  The service       *)
(* handles one event at a time, so a handler is one step; what is still in *)
(* flight when it runs (dials, handshakes, binds, listeners, dying         *)
(* sessions) is where the interleavings are.                               *)
(*                                                                         *)
(* An address to dial is a model value with the peer id it names (PeerOf)  *)
(* and the peers that may answer there.  An address to listen on is a      *)
(* socket with a mode, "tcp", "ws" or "tls": modes may share one socket.   *)
(***************************************************************************)
EXTENDS Integers, FiniteSets, Sequences, Bags, SequencesExt

CONSTANTS
  Peers,      \* public keys of the remote nodes
  NoPeer,     \* the address names no peer
  PeerOf,     \* extract_peer_id: dial address -> Peers \cup {NoPeer}
  Answers,    \* dial address -> the peers that may be found there
  Setups,     \* what the user does in a run, see SetupSet
  SessionIds, \* number of session ids before the counter wraps (2^64 in the code)
  MaxBinds,   \* outstanding Listen requests per address
  ChanSize    \* size of the channel of service tasks

DialAddrs == DOMAIN PeerOf
\* The modes, in the order in which Listener::close reports them
Modes == <<"tcp", "ws", "tls">>

\* dial, raw: addresses the user dials or hands over as connected sockets; listen: addresses
\* to listen on; asks: how many tasks the user sends; arrivals: inbound connections;
\* max: max_connection_number; callback: a protocol callback sends service tasks.
SetupSet(listenAddrs) ==
  [dial : SUBSET DialAddrs, raw : SUBSET DialAddrs, listen : SUBSET listenAddrs,
   asks : Nat, arrivals : Nat, max : Nat, forever : BOOLEAN, secure : BOOLEAN,
   callback : BOOLEAN, closes : SUBSET BOOLEAN]

VARIABLES
  setup,          \* the configuration and the load of this run
  pc,             \* "setup" before run, "select", "waiting" in wait_handle_poll, "ended"
  state,          \* State: [k, n], a negative n standing for the wrapped usize
  listens,        \* the addresses listened on, as the service believes
  known,          \* the copy of it in service_context, which the user and the handles read
  sessions,       \* id -> peer, whether it was told to close, its task's and its handle's life
  next_session,
  dial_protocols, \* the addresses being dialled
  dials,          \* outbound dials and handshakes in flight, a bag of addresses
  inbound,        \* inbound handshakes in flight
  binds,          \* listen futures in flight, a bag of [addr, stage]
  global,         \* listens_upgrade_modes: socket -> modes, {} when it has no entry
  listeners,      \* the addresses whose Listener task runs
  failures,       \* ListenError events in flight, a bag of sequences of addresses
  handle,         \* the protocol handle of service level: "up", "panicked", "down"
  callback,       \* what its callback is doing: "idle", "running", "sending"
  queued,         \* tasks in the channel that change nothing here
  used,           \* the load so far: [asks, arrivals]
  seen            \* history: refused, late and twice, see Init

service == <<pc, state, listens, known, sessions>>
dialling == <<dial_protocols, dials>>
listening == <<binds, global, listeners, failures>>
calling == <<handle, callback, queued>>
vars == <<setup, service, next_session, dialling, inbound, listening, calling, used, seen>>

NoSessions == [i \in {} |-> 0]
PreShutdown == [k |-> "pre", n |-> 0]

-----------------------------------------------------------------------------
(* State, service/config.rs *)

increase(s) == IF s.k = "running" THEN [s EXCEPT !.n = @ + 1] ELSE s

\* num -= 1 of an usize: below zero it wraps (or panics where overflow checks are on)
decrease(s) == IF s.k = "running" THEN [s EXCEPT !.n = @ - 1] ELSE s

is_shutdown(s) == s = [k |-> "running", n |-> 0] \/ s.k = "pre"

into_inner(s) == IF s.k = "running" THEN s.n ELSE 0

\* With enough sessions a wrapped count overflows checked_add, and then no limit holds.
reached_max_connection_limit(w) ==
  LET sum == Cardinality(DOMAIN w.sessions) + into_inner(w.state) IN
  IF into_inner(w.state) < 0 THEN sum < 0 ELSE setup.max < sum

-----------------------------------------------------------------------------
(* The part of the state that the main loop itself reads and writes is handled as a record. *)

Now == [state |-> state, listens |-> listens, known |-> known, sessions |-> sessions]

\* Mutant: the sessions are not told.
ShutdownSilently(w, quick) ==
  [w EXCEPT !.state = PreShutdown, !.listens = {},
            !.sessions = IF quick THEN NoSessions
                         ELSE [i \in DOMAIN @ |-> @[i]]]

\* Close every session: told to (External), or forgotten at once (Internal).
Shutdown(w, quick) ==
  [w EXCEPT !.state = PreShutdown, !.listens = {},
            !.sessions = IF quick THEN NoSessions
                         ELSE [i \in DOMAIN @ |-> [@[i] EXCEPT !.told = TRUE]]]

\* A handle whose receiver is gone fails the update: its session has ended or it panicked.
HandleGone(w) == handle # "up" \/ \E i \in DOMAIN w.sessions : ~w.sessions[i].handle

try_update_listens(w) ==
  LET updated == [w EXCEPT !.known = w.listens] IN
  IF Cardinality(w.listens) = Cardinality(w.known) THEN w
  ELSE IF HandleGone(w) THEN Shutdown(updated, FALSE) ELSE updated

Exits(w) == w.listens = {} /\ is_shutdown(w.state) /\ w.sessions = NoSessions

\* The end of a handler and the next turn of the loop, up to its select.
Loop(w) ==
  LET v == IF Exits(w) THEN w ELSE try_update_listens(w) IN
  /\ pc' = IF Exits(w) THEN "waiting" ELSE "select"
  /\ state' = v.state
  /\ listens' = v.listens
  /\ known' = v.known
  /\ sessions' = v.sessions

\* What the history keeps: a session or a listen that completes while closing is late.
Saw(f, s) == seen' = [seen EXCEPT ![f] = @ \cup s]
Late == IF state.k = "pre" THEN {"late"} ELSE {}

-----------------------------------------------------------------------------
(* Sessions *)

\* The first id after the last one that no session has
generate_next_session(w) ==
  LET step == CHOOSE k \in 1..SessionIds :
                /\ (next_session + k) % SessionIds \notin DOMAIN w.sessions
                /\ \A j \in 1..(k - 1) : (next_session + j) % SessionIds \in DOMAIN w.sessions
  IN (next_session + step) % SessionIds

\* Mutant: a session that was told to close is not looked at.
ConnectedOpen(w, p) == setup.secure /\ \E i \in DOMAIN w.sessions : w.sessions[i].peer = p /\ ~w.sessions[i].told

Connected(w, p) == setup.secure /\ \E i \in DOMAIN w.sessions : w.sessions[i].peer = p

\* The new session gets a handle, and its opening is shown to the user.
NewSession(w, p) ==
  LET id == generate_next_session(w) IN
  /\ next_session' = id
  /\ Saw("late", Late)
  /\ Loop([w EXCEPT !.sessions = @ @@ id :> [peer |-> p, told |-> FALSE, ended |-> FALSE, handle |-> TRUE]])

\* named: the peer id in the address, if it has one
session_open(w, p, named) ==
  IF Connected(w, p) \/ (setup.secure /\ named \notin {NoPeer, p})
  THEN UNCHANGED <<next_session, seen>> /\ Loop(w)
  ELSE NewSession(w, p)

-----------------------------------------------------------------------------
(* Start: nothing runs yet, and the user may listen and dial before run. *)

Init ==
  /\ setup \in Setups
  /\ pc = "setup"
  /\ state = [k |-> IF setup.forever THEN "forever" ELSE "running", n |-> 0]
  /\ listens = {} /\ known = {}
  /\ sessions = NoSessions /\ next_session = 0
  /\ dial_protocols = {} /\ dials = EmptyBag /\ inbound = 0
  /\ binds = EmptyBag /\ listeners = {} /\ failures = EmptyBag
  /\ global = [s \in {l[1] : l \in setup.listen} |-> {}]
  /\ handle = "up" /\ callback = "idle" /\ queued = 0
  /\ used = [asks |-> 0, arrivals |-> 0]
  /\ seen = [refused |-> {}, late |-> {}, twice |-> 0]

\* A task the user sends, taken from the channel by the loop
Asked ==
  /\ pc = "select" /\ used.asks < setup.asks
  /\ used' = [used EXCEPT !.asks = @ + 1]

One(x) == SetToBag({x})

\* bind: the first Listen of a socket enters it in the table of upgrade modes and opens it; a
\* later one finds the entry and only adds its mode.
Occupied(l) == global[l[1]] # {}
Enter(l) == global' = [global EXCEPT ![l[1]] = @ \cup {l[2]}]

\* UpgradeMode::to_enum: websocket and TLS without TCP is the set that UpgradeModeEnum has no
\* name for, and meets unreachable!.
to_enum_panics(l) == global[l[1]] = {"ws", "tls"}

\* Dropping a listener removes the entry of its socket.
DropListener(l) ==
  /\ listeners' = listeners \ {l}
  /\ global' = [global EXCEPT ![l[1]] = {}]

\* Service::listen, before run, waits for the outcome: a failed one leaves the socket's entry.
ListenBefore(l, opens) ==
  /\ pc = "setup" /\ l \in setup.listen /\ used.asks < setup.asks
  /\ used' = [used EXCEPT !.asks = @ + 1]
  /\ Enter(l)
  /\ listens' = IF Occupied(l) \/ opens THEN listens \cup {l} ELSE listens
  /\ listeners' = IF ~Occupied(l) /\ opens THEN listeners \cup {l} ELSE listeners
  /\ UNCHANGED <<setup, pc, state, known, sessions, next_session, dialling, inbound, binds,
                 failures, calling, seen>>

\* Is this address, or another address of the same peer, being dialled?
Dialled(a) ==
  \/ a \in dial_protocols
  \/ PeerOf[a] # NoPeer /\ \E b \in dial_protocols : PeerOf[b] = PeerOf[a]

DialBefore(a) ==
  /\ pc = "setup" /\ a \in setup.dial /\ ~Dialled(a) /\ used.asks < setup.asks
  /\ used' = [used EXCEPT !.asks = @ + 1]
  /\ dial_protocols' = dial_protocols \cup {a}
  /\ dials' = dials (+) One(a)
  /\ state' = increase(state)
  /\ UNCHANGED <<setup, pc, listens, known, sessions, next_session, inbound, listening, calling, seen>>

run ==
  /\ pc = "setup"
  /\ Loop(Now)
  /\ UNCHANGED <<setup, next_session, dialling, inbound, listening, calling, used, seen>>

-----------------------------------------------------------------------------
(* Outbound connections *)

\* dial_inner: the address is remembered and the dial counted.
Dial(a) ==
  /\ Asked /\ a \in setup.dial
  /\ IF Dialled(a) THEN UNCHANGED dialling /\ Loop(Now)
     ELSE /\ dial_protocols' = dial_protocols \cup {a}
          /\ dials' = dials (+) One(a)
          /\ Loop([Now EXCEPT !.state = increase(@)])
  /\ UNCHANGED <<setup, next_session, inbound, listening, calling, seen>>

\* A connected socket handed over by the user: no check against the dials in progress.
RawSession(a) ==
  /\ Asked /\ a \in setup.raw
  /\ dial_protocols' = dial_protocols \cup {a}
  /\ dials' = dials (+) One(a)
  /\ Loop([Now EXCEPT !.state = increase(@)])
  /\ UNCHANGED <<setup, next_session, inbound, listening, calling, seen>>

\* Mutant: the failed dial stays counted.
DialErrorUncounted(a) ==
  /\ pc = "select" /\ BagIn(a, dials)
  /\ dials' = dials (-) One(a)
  /\ dial_protocols' = dial_protocols \ {a}
  /\ seen' = [seen EXCEPT !.refused = @ \ {a}]
  /\ Loop(Now)
  /\ UNCHANGED <<setup, next_session, inbound, listening, calling, used>>

\* Mutant: the failed dial keeps its entry.
DialErrorKeeps(a) ==
  /\ pc = "select" /\ BagIn(a, dials)
  /\ dials' = dials (-) One(a)
  /\ dial_protocols' = dial_protocols
  /\ seen' = [seen EXCEPT !.refused = @ \ {a}]
  /\ Loop([Now EXCEPT !.state = decrease(@)])
  /\ UNCHANGED <<setup, next_session, inbound, listening, calling, used>>

\* DialError, or HandshakeError of an outbound handshake
DialError(a) ==
  /\ pc = "select" /\ BagIn(a, dials)
  /\ dials' = dials (-) One(a)
  /\ dial_protocols' = dial_protocols \ {a}
  /\ seen' = [seen EXCEPT !.refused = @ \ {a}]
  /\ Loop([Now EXCEPT !.state = decrease(@)])
  /\ UNCHANGED <<setup, next_session, inbound, listening, calling, used>>

\* At the limit the connection is dropped and the dial stays in dial_protocols.
HandshakeSuccess(a, p) ==
  LET w == [Now EXCEPT !.state = decrease(@)] IN
  /\ pc = "select" /\ BagIn(a, dials) /\ p \in Answers[a]
  /\ dials' = dials (-) One(a)
  /\ IF reached_max_connection_limit(w)
     THEN /\ Saw("refused", {a} \cap dial_protocols)
          /\ Loop(w)
          /\ UNCHANGED <<dial_protocols, next_session>>
     ELSE /\ dial_protocols' = dial_protocols \ {a}
          /\ session_open(w, p, PeerOf[a])
  /\ UNCHANGED <<setup, inbound, listening, calling, used>>

(* Inbound connections: a Listener runs the handshake of what it accepts, or panics. *)

Accept(l) ==
  /\ pc = "select" /\ l \in listeners /\ used.arrivals < setup.arrivals
  /\ used' = [used EXCEPT !.arrivals = @ + 1]
  /\ \/ to_enum_panics(l) /\ DropListener(l) /\ UNCHANGED inbound
     \/ ~to_enum_panics(l) /\ inbound' = inbound + 1 /\ UNCHANGED <<global, listeners>>
  /\ UNCHANGED <<setup, service, next_session, dialling, binds, failures, calling, seen>>

InboundSuccess(p) ==
  /\ pc = "select" /\ inbound > 0
  /\ inbound' = inbound - 1
  /\ IF reached_max_connection_limit(Now)
     THEN Loop(Now) /\ UNCHANGED <<next_session, seen>>
     ELSE session_open(Now, p, NoPeer)
  /\ UNCHANGED <<setup, dialling, listening, calling, used>>

InboundError ==
  /\ pc = "select" /\ inbound > 0
  /\ inbound' = inbound - 1
  /\ Loop(Now)
  /\ UNCHANGED <<setup, next_session, dialling, listening, calling, used, seen>>

-----------------------------------------------------------------------------
(* Sessions that end.  The session's task, its handle and the SessionClose event it sends *)
(* are independent tasks (see TentacleSession).                                           *)

Live == pc \in {"select", "waiting"}
others == <<setup, pc, state, listens, known, next_session, dialling, inbound, listening, calling, used, seen>>

Disconnect(i) ==
  /\ Asked /\ i \in DOMAIN sessions
  /\ Loop([Now EXCEPT !.sessions[i].told = TRUE])
  /\ UNCHANGED <<setup, next_session, dialling, inbound, listening, calling, seen>>

SessionEnds(i) ==
  /\ pc = "select" /\ i \in DOMAIN sessions /\ ~sessions[i].ended
  /\ sessions' = [sessions EXCEPT ![i].ended = TRUE]
  /\ UNCHANGED others

HandleEnds(i) ==
  /\ pc = "select" /\ i \in DOMAIN sessions /\ sessions[i].ended /\ sessions[i].handle
  /\ sessions' = [sessions EXCEPT ![i].handle = FALSE]
  /\ UNCHANGED others

SessionClose(i) ==
  /\ pc = "select" /\ i \in DOMAIN sessions /\ sessions[i].ended
  /\ Loop([Now EXCEPT !.sessions = [j \in DOMAIN @ \ {i} |-> @[j]]])
  /\ UNCHANGED <<setup, next_session, dialling, inbound, listening, calling, used, seen>>

-----------------------------------------------------------------------------
(* Listening *)

Task(l, stage) == [addr |-> l, stage |-> stage]
Becomes(l, from, to) == binds' = (binds (-) One(Task(l, from))) (+) One(Task(l, to))
Tasks(l) == BagCardinality([t \in {t \in BagToSet(binds) : t.addr = l} |-> binds[t]])

Listen(l) ==
  /\ Asked /\ l \in setup.listen /\ Tasks(l) < MaxBinds
  /\ IF l \in listens THEN UNCHANGED binds /\ Loop(Now)
     ELSE /\ binds' = binds (+) One(Task(l, "queued"))
          /\ Loop([Now EXCEPT !.state = increase(@)])
  /\ UNCHANGED <<setup, next_session, dialling, inbound, global, listeners, failures, calling, seen>>

Bind(l) ==
  /\ Live /\ BagIn(Task(l, "queued"), binds)
  /\ Becomes(l, "queued", IF Occupied(l) THEN "upgrade" ELSE "opening")
  /\ Enter(l)
  /\ UNCHANGED <<setup, service, next_session, dialling, inbound, listeners, failures, calling, used, seen>>

\* tcp_listen; its failure leaves the entry that bind made.
Open(l, outcome) ==
  /\ Live /\ BagIn(Task(l, "opening"), binds)
  /\ Becomes(l, "opening", outcome)
  /\ UNCHANGED <<setup, service, next_session, dialling, inbound, global, listeners, failures,
                 calling, used, seen>>

\* Only a new socket gets a Listener; an upgrade relies on the one that is there.
ListenStart(l, stage) ==
  /\ pc = "select" /\ BagIn(Task(l, stage), binds)
  /\ binds' = binds (-) One(Task(l, stage))
  /\ listeners' = IF stage = "new" THEN listeners \cup {l} ELSE listeners
  /\ Saw("late", Late)
  /\ Loop(try_update_listens([Now EXCEPT !.listens = @ \cup {l}, !.state = decrease(@)]))
  /\ UNCHANGED <<setup, next_session, dialling, inbound, global, failures, calling, used>>

\* An address that is listened on is removed; any other error is a Listen that failed.
ListenError(l, listed) ==
  Loop(IF listed THEN try_update_listens([Now EXCEPT !.listens = @ \ {l}])
       ELSE [Now EXCEPT !.state = decrease(@)])

\* The address is reported as it was asked for: listens has a TLS one without its domain name.
ListenFailed(l) ==
  /\ pc = "select" /\ BagIn(Task(l, "failed"), binds)
  /\ binds' = binds (-) One(Task(l, "failed"))
  /\ ListenError(l, l \in listens /\ l[2] # "tls")
  /\ UNCHANGED <<setup, next_session, dialling, inbound, global, listeners, failures, calling, used, seen>>

\* Listener::close: a broken socket is an error of every address in its upgrade mode.
Sharing(l) == SelectSeq(Modes, LAMBDA m : m \in global[l[1]])
\* Mutant: the listener goes on after it reported an error.
ListenerSurvives(l) ==
  /\ pc = "select" /\ l \in listeners
  /\ listeners' = listeners
  /\ failures' = failures (+) One([k \in DOMAIN Sharing(l) |-> <<l[1], Sharing(l)[k]>>])
  /\ global' = global
  /\ UNCHANGED <<setup, service, next_session, dialling, inbound, binds, calling, used, seen>>

ListenerBreaks(l) ==
  /\ pc = "select" /\ l \in listeners
  /\ DropListener(l)
  /\ failures' = IF to_enum_panics(l) THEN failures
                 ELSE failures (+) One([k \in DOMAIN Sharing(l) |-> <<l[1], Sharing(l)[k]>>])
  /\ UNCHANGED <<setup, service, next_session, dialling, inbound, binds, calling, used, seen>>

\* The error of an address whose Listen is not over counts it down, and its ListenStart does
\* so again.
ListenBroken(f) ==
  /\ pc = "select" /\ BagIn(f, failures)
  /\ failures' = IF Len(f) = 1 THEN failures (-) One(f) ELSE (failures (-) One(f)) (+) One(Tail(f))
  /\ ListenError(Head(f), Head(f) \in listens)
  /\ seen' = IF Head(f) \in listens \/ state.k # "running" THEN seen
             ELSE [seen EXCEPT !.twice = @ + 1]
  /\ UNCHANGED <<setup, next_session, dialling, inbound, binds, global, listeners, calling, used>>

-----------------------------------------------------------------------------
(* Closing *)

Close(quick) ==
  /\ Asked /\ quick \in setup.closes
  /\ Loop(Shutdown(Now, quick))
  /\ UNCHANGED <<setup, next_session, dialling, inbound, listening, calling, seen>>

\* A callback of the protocol handle, which may wait for room in the channel of tasks
Callback(from, to, n) ==
  /\ handle = "up" /\ callback = from
  /\ callback' = to
  /\ queued' = queued + n
  /\ UNCHANGED <<setup, service, next_session, dialling, inbound, listening, handle, used, seen>>

CallbackStarts == pc = "select" /\ setup.callback /\ Callback("idle", "running", 0)
\* ServiceAsyncControl::send: refused once the service is shut down, else it waits for room
CallbackSends ==
  \/ pc = "select" /\ Callback("running", "sending", 0)
  \/ queued < ChanSize /\ pc # "ended" /\ Callback("sending", "running", 1)
CallbackEnds == Callback("running", "idle", 0)

HandlePanics ==
  /\ pc = "select" /\ handle = "up" /\ callback = "running"
  /\ handle' = "panicked" /\ callback' = "idle"
  /\ UNCHANGED <<setup, service, next_session, dialling, inbound, listening, queued, used, seen>>

\* The report of the panic closes the service.
ProtocolHandleError ==
  /\ pc = "select" /\ handle = "panicked"
  /\ handle' = "down"
  /\ Loop(Shutdown(Now, FALSE))
  /\ UNCHANGED <<setup, next_session, dialling, inbound, listening, callback, queued, used, seen>>

TakeTask ==
  /\ pc = "select" /\ queued > 0
  /\ queued' = queued - 1
  /\ Loop(Now)
  /\ UNCHANGED <<setup, next_session, dialling, inbound, listening, handle, callback, used, seen>>

\* FutureTaskManager::drop signals every future task that is still there.
StopFutures ==
  /\ dials' = EmptyBag /\ inbound' = 0 /\ binds' = EmptyBag
  /\ listeners' = {} /\ failures' = EmptyBag /\ global' = [s \in DOMAIN global |-> {}]

\* The handles end between two callbacks, and so does the manager of future tasks.
wait_handle_poll ==
  /\ pc = "waiting" /\ (handle # "up" \/ callback = "idle")
  /\ pc' = "ended"
  /\ StopFutures
  /\ UNCHANGED <<setup, state, listens, known, sessions, next_session, dial_protocols, calling, used, seen>>

-----------------------------------------------------------------------------
ListenAddrs == UNION {u.listen : u \in Setups}
Stages == {"queued", "opening", "new", "upgrade", "failed"}
Ids == 0..(SessionIds - 1)

DialStep == \E a \in DialAddrs : DialError(a) \/ \E p \in Peers : HandshakeSuccess(a, p)
InboundStep == InboundError \/ \E p \in Peers : InboundSuccess(p)
BindStep ==
  \E l \in ListenAddrs :
    \/ Bind(l)
    \/ \E outcome \in {"new", "failed"} : Open(l, outcome)
    \/ \E stage \in {"new", "upgrade"} : ListenStart(l, stage)
    \/ ListenFailed(l)
UserStep ==
  \/ \E l \in ListenAddrs : Listen(l) \/ \E opens \in BOOLEAN : ListenBefore(l, opens)
  \/ \E a \in DialAddrs : Dial(a) \/ DialBefore(a) \/ RawSession(a)
  \/ \E i \in Ids : Disconnect(i)
  \/ \E quick \in BOOLEAN : Close(quick)
RemoteStep ==
  \/ \E l \in ListenAddrs : Accept(l) \/ ListenerBreaks(l)
  \/ \E i \in Ids : SessionEnds(i) \/ HandleEnds(i)
  \/ HandlePanics \/ CallbackStarts

\* Why every dial, handshake, bind and event is fair: each is a task of the runtime under a
\* timeout, and the loop takes what the two channels hold.
Fair ==
  /\ WF_vars(run) /\ WF_vars(wait_handle_poll)
  /\ WF_vars(TakeTask) /\ WF_vars(ProtocolHandleError)
  /\ WF_vars(CallbackSends) /\ WF_vars(CallbackEnds)
  /\ WF_vars(DialStep) /\ WF_vars(InboundStep) /\ WF_vars(BindStep)
  /\ WF_vars(\E f \in BagToSet(failures) : ListenBroken(f))
  /\ \A i \in Ids : WF_vars(SessionClose(i))
  /\ \A i \in Ids : WF_vars(i \in DOMAIN sessions /\ sessions[i].told /\ SessionEnds(i))

Next ==
  \/ run \/ wait_handle_poll \/ TakeTask \/ ProtocolHandleError
  \/ CallbackSends \/ CallbackEnds
  \/ DialStep \/ InboundStep \/ BindStep \/ UserStep \/ RemoteStep
  \/ \E f \in BagToSet(failures) : ListenBroken(f)
  \/ \E i \in Ids : SessionClose(i)

Spec == Init /\ [][Next]_vars
FairSpec == Spec /\ Fair

-----------------------------------------------------------------------------
(* Type invariant of the service's own fields and of what it spawned *)
TypeOK ==
  /\ setup \in Setups /\ setup \in SetupSet(ListenAddrs)
  /\ pc \in {"setup", "select", "waiting", "ended"}
  /\ state \in [k : {"running", "forever", "pre"}, n : Int]
  /\ listens \subseteq ListenAddrs /\ known \subseteq ListenAddrs
  /\ DOMAIN sessions \subseteq Ids /\ next_session \in Ids
  /\ \A i \in DOMAIN sessions :
       sessions[i] \in [peer : Peers, told : BOOLEAN, ended : BOOLEAN, handle : BOOLEAN]
  /\ dial_protocols \subseteq DialAddrs
  /\ IsABag(dials) /\ BagToSet(dials) \subseteq DialAddrs /\ inbound \in Nat
  /\ IsABag(binds) /\ BagToSet(binds) \subseteq [addr : ListenAddrs, stage : Stages]
  /\ \A s \in DOMAIN global : global[s] \subseteq ToSet(Modes)
  /\ listeners \subseteq ListenAddrs
  /\ IsABag(failures) /\ \A f \in BagToSet(failures) : f # <<>> /\ ToSet(f) \subseteq ListenAddrs
  /\ handle \in {"up", "panicked", "down"} /\ callback \in {"idle", "running", "sending"}
  /\ queued \in 0..ChanSize /\ seen.twice \in Nat

\* State::Running counts the dials and listens in flight, no more and no fewer: one event is
\* handled for each, whatever the order (service.rs:963, 975, 1024, 1059, 1110).  One less and
\* the usize wraps, one more and the service never stops by itself.  The one exception is a
\* Listen of a socket whose listener breaks meanwhile: its error and its start both count
\* down, so the count is too small by the number of those (service.rs:1061).  And every
\* variable keeps its type.
CountIsExact ==
  /\ TypeOK
  /\ pc = "select" /\ state.k = "running" =>
       state.n = BagCardinality(dials) + BagCardinality(binds) - seen.twice

\* With secio no two sessions are with the same public key, however the dials, the raw
\* sessions and the inbound handshakes race (service.rs:628).
OneSessionPerPeer ==
  setup.secure =>
    \A i, j \in DOMAIN sessions : sessions[i].peer = sessions[j].peer => i = j

\* An address stays in dial_protocols, where it blocks every later dial of its peer, only while
\* a dial of it is in flight; the one exception is a connection dropped at the limit
\* (service.rs:966).
DialEntriesCovered ==
  pc = "select" => \A a \in dial_protocols : BagIn(a, dials) \/ a \in seen.refused

\* A Listener that accepts connections is one the service lists, until the service closes:
\* no late error of an earlier listener of its socket, nor of another mode, takes its address
\* away (service.rs:1048), if the user waits for the outcome of a Listen before asking for the
\* same address again.  And when
\* the loop waits, the user and the handles know the addresses listed, although the update is
\* skipped when the numbers agree (service.rs:888).
ListenersAreListed ==
  pc = "select" =>
    /\ state.k # "pre" => listeners \subseteq listens
    /\ known = listens

\* Closing ends the service, unless a session or a listen completed after the request
\* (service.rs:1326 tells only the sessions of that moment); and a service that is not to run
\* forever ends once its last dial, listen and session are over, if none was counted down
\* twice.  Both unless a callback waits for room in the channel of tasks, which nobody empties
\* any more (service.rs:1348).
CloseEnds ==
  /\ state.k = "pre" ~> pc = "ended" \/ seen.late # {} \/ callback = "sending"
  /\ (/\ pc = "select" /\ state.k = "running" /\ seen.twice = 0
      /\ dials = EmptyBag /\ binds = EmptyBag /\ listens = {}
      /\ used.asks = setup.asks /\ inbound = 0 /\ used.arrivals = setup.arrivals
      /\ \A i \in DOMAIN sessions : sessions[i].told)
     ~> pc = "ended" \/ callback = "sending"

=============================================================================
