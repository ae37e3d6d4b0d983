----------------------------- MODULE ProtocolNode -----------------------------
(***************************************************************************)
(* What the modules of the protocols under protocols/ have in common: the  *)
(* state of a node that runs one of them, and what a handler may do with   *)
(* its context.  The handlers are in modules PingHandler, IdentifyProtocol *)
(* and DiscoveryProtocol, the peers and the service in module Protocols.   *)
(*                                                                         *)
(* A session is one protocol stream of one peer; the ServiceProtocol is    *)
(* called by one task, so every callback is one step.  disconnect() only   *)
(* asks the service to close a session: what the peer sent before that is  *)
(* still received, until disconnected() is called.  The code ignores the   *)
(* results of its sends, and they are left out.                            *)
(***************************************************************************)
EXTENDS Messages, FiniteSets

CONSTANTS
  Sessions,           \* session ids
  Setups,             \* see SetupsAssumption
  MAX_ADDR_TO_SEND,   \* discovery: addresses of an answer
  GET_RANDOM,         \* discovery: addresses asked of the address manager (2500 in the code)
  ANNOUNCE_THRESHOLD, \* discovery: items of an announcement
  ANNOUNCE_QUEUE,     \* discovery: addresses that wait to be announced (10 in the code)
  ANNOUNCE_TO,        \* discovery: sessions an address is announced to (3 in the code)
  MAX_ADDRS,          \* discovery: addresses of an item
  MAX_LISTENS         \* identify: its MAX_ADDRS

VARIABLES
  setup,         \* the protocol, the peers and what they may do
  now,           \* seconds
  due,           \* for every timer, when it is next due
  link,          \* "none" -> "open" -> "closing" -> "gone"
  inbox,         \* what a peer sent and received() has not been called with
  sent,          \* what the handler sent to a session, ever
  taken,         \* how much of it the peer has read
  got,           \* what received() made of the messages of a session, ever
  table,         \* the handler's entries, by session id
  secio_enabled, \* identify
  added,         \* the calls that hand addresses to the address manager or the callback
  timeouts,      \* ping: the sessions reported to Callback::timeout
  panicked,
  budget         \* what the peers and the network may still do

ASSUME SetupsAssumption ==
  \A c \in Setups :
    /\ c.proto \in Formats                   \* what runs on the sessions
    /\ c.secio \in BOOLEAN                   \* HandshakeType::Secio, or Noop
    /\ c.global_ip_only \in BOOLEAN
    /\ \A s \in Sessions : /\ c.peers[s].ty \in {"inbound", "outbound"}
                           /\ try_from(c.peers[s].address)
    /\ c.opens \subseteq Sessions            \* the sessions there are
    /\ DOMAIN c.inputs = Sessions            \* what each peer may send
    /\ {c.sends, c.garbles, c.ticks, c.interval, c.timeout} \subseteq Nat
    /\ c.answers \subseteq BOOLEAN           \* is_disconnect() of misbehave
    /\ c.judges \subseteq BOOLEAN            \* ... of received_identify, add_observed_addr
    /\ c.leaves \in BOOLEAN                  \* peers close sessions
    /\ \A i \in DOMAIN c.listens : try_from(c.listens[i])
    /\ \A a \in c.known : try_from(a)        \* what the address manager holds at first

\* send_message, filter_broadcast: one message m to every session of to
Send(to, m) ==
  sent' = [s \in Sessions |->
             IF s \in to THEN Append(sent[s], Encode(setup.proto, m)) ELSE sent[s]]

Disconnect(ss) ==
  link' = [s \in Sessions |-> IF s \in ss /\ link[s] = "open" THEN "closing" ELSE link[s]]

\* The entries with one more, and with one less
With(s, e) == [t \in DOMAIN table \cup {s} |-> IF t = s THEN e ELSE table[t]]
Without(s) == [t \in DOMAIN table \ {s} |-> table[t]]

=============================================================================
