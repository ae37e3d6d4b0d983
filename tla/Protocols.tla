------------------------------ MODULE Protocols ------------------------------
(***************************************************************************)
(* A node that runs ping, identify or discovery, with its peers, the       *)
(* service that calls the handler, and a network that may garble bytes.    *)
(*                                                                         *)
(* Garbling is there for the decoders: what verify, the accessors and the  *)
(* address parser do with bytes that no encoder made.  The formats of the  *)
(* connection's set-up and of QUIC have no handler here (their receivers   *)
(* are in module Connection): they are decoded and nothing else.           *)
(***************************************************************************)
EXTENDS PingHandler, IdentifyProtocol, DiscoveryProtocol

vars == <<setup, now, due, link, inbox, sent, taken, got, table, secio_enabled, added,
          timeouts, panicked, budget>>

\* The timers that init sets with set_service_notify, with their intervals
init == CASE setup.proto = "ping"      -> PingTimers
          [] setup.proto = "identify"  -> IdentifyTimers
          [] setup.proto = "discovery" -> DiscoveryTimers
          [] OTHER                     -> <<>>

Init ==
  /\ setup \in Setups
  /\ now = 0
  /\ due = init
  /\ link = [s \in Sessions |-> "none"]
  /\ inbox = [s \in Sessions |-> <<>>]
  /\ sent = [s \in Sessions |-> <<>>]
  /\ taken = [s \in Sessions |-> 0]
  /\ got = [s \in Sessions |-> <<>>]
  /\ table = <<>>
  /\ secio_enabled = TRUE
  /\ added = <<>>
  /\ timeouts = {}
  /\ panicked = FALSE
  /\ budget = [sends |-> setup.sends, garbles |-> setup.garbles]

Live(s) == link[s] \in {"open", "closing"}
handler == <<table, sent, secio_enabled, added, timeouts, panicked>>

Connected(s) ==
  /\ link[s] = "none" /\ s \in setup.opens
  /\ \/ setup.proto = "ping" /\ PingConnected(s)
     \/ setup.proto = "identify" /\ IdentifyConnected(s)
     \/ setup.proto = "discovery" /\ DiscoveryConnected(s)
     \/ /\ init = <<>>
        /\ link' = [link EXCEPT ![s] = "open"]
        /\ UNCHANGED handler
  /\ UNCHANGED <<setup, now, due, inbox, taken, got, budget>>

Received(s) ==
  /\ Live(s) /\ inbox[s] # <<>>
  /\ \E m \in {Decode(setup.proto, Head(inbox[s]).bytes)} :
       /\ got' = [got EXCEPT ![s] = Append(@, m)]
       /\ \/ setup.proto = "ping" /\ PingReceived(s, m)
          \/ setup.proto = "identify" /\ IdentifyReceived(s, m)
          \/ setup.proto = "discovery" /\ DiscoveryReceived(s, m)
          \/ init = <<>> /\ UNCHANGED <<link, handler>>
  /\ inbox' = [inbox EXCEPT ![s] = Tail(@)]
  /\ UNCHANGED <<setup, now, due, taken, budget>>

\* The service closed the session, on disconnect() or because the peer left.
Disconnected(s) ==
  /\ link[s] = "closing" \/ (link[s] = "open" /\ setup.leaves)
  /\ link' = [link EXCEPT ![s] = "gone"]
  /\ inbox' = [inbox EXCEPT ![s] = <<>>]
  /\ \/ setup.proto = "ping" /\ PingDisconnected(s)
     \/ setup.proto = "identify" /\ IdentifyDisconnected(s)
     \/ setup.proto = "discovery" /\ DiscoveryDisconnected(s)
  /\ UNCHANGED <<setup, now, due, taken, got, budget>>

Notify(token) ==
  /\ due[token] <= now
  /\ due' = [due EXCEPT ![token] = now + init[token]]
  /\ \/ setup.proto = "ping" /\ PingNotify(token)
     \/ setup.proto = "identify" /\ IdentifyNotify
     \/ setup.proto = "discovery" /\ DiscoveryNotify
  /\ UNCHANGED <<setup, now, inbox, taken, got, budget>>

\* Time passes once the timers of this second have fired.
Tick ==
  /\ now < setup.ticks
  /\ \A token \in DOMAIN due : due[token] > now
  /\ now' = now + 1
  /\ UNCHANGED <<setup, due, link, inbox, taken, got, budget, handler>>

Arrives(s, m) == inbox' = [inbox EXCEPT ![s] = Append(@, [bytes |-> Encode(setup.proto, m),
                                                           message |-> Some(m)])]

PeerSends(s, m) ==
  /\ Live(s) /\ budget.sends > 0
  /\ Arrives(s, m)
  /\ budget' = [budget EXCEPT !.sends = @ - 1]
  /\ UNCHANGED <<setup, now, due, link, taken, got, handler>>

\* The peer reads what the node sent, and answers a ping.
PeerReads(s) ==
  /\ setup.proto = "ping" /\ Live(s) /\ taken[s] < Len(sent[s])
  /\ taken' = [taken EXCEPT ![s] = @ + 1]
  /\ LET m == PingDecode(sent[s][taken[s] + 1])[1]
     IN IF m.kind = "ping" THEN Arrives(s, Pong(m.nonce)) ELSE UNCHANGED inbox
  /\ UNCHANGED <<setup, now, due, link, got, budget, handler>>

\* One byte changed, the end lost, or a byte too many
Odd == {0, 1, 4, 255}
Garbled(data) ==
  {[data EXCEPT ![i] = b] : i \in DOMAIN data, b \in Odd}
    \cup {SubSeq(data, 1, n) : n \in 0 .. Len(data) - 1} \cup {Append(data, b) : b \in Odd}

Garble(s) ==
  /\ budget.garbles > 0 /\ inbox[s] # <<>>
  /\ \E data \in Garbled(Head(inbox[s]).bytes) :
       /\ data # Head(inbox[s]).bytes
       /\ inbox' = [inbox EXCEPT ![s][1] = [bytes |-> data, message |-> None]]
  /\ budget' = [budget EXCEPT !.garbles = @ - 1]
  /\ UNCHANGED <<setup, now, due, link, taken, got, handler>>

Next ==
  /\ ~ panicked
  /\ \/ \E s \in Sessions : \/ Connected(s) \/ Received(s) \/ Disconnected(s)
                            \/ \E m \in setup.inputs[s] : PeerSends(s, m)
                            \/ PeerReads(s) \/ Garble(s)
     \/ \E token \in DOMAIN due : Notify(token)
     \/ Tick

Spec == Init /\ [][Next]_vars

-----------------------------------------------------------------------------
\* The types of the variables.
TypeOK ==
  /\ setup \in Setups /\ now \in 0 .. setup.ticks /\ DOMAIN due = DOMAIN init
  /\ link \in [Sessions -> {"none", "open", "closing", "gone"}]
  /\ DOMAIN table \subseteq Sessions /\ timeouts \subseteq Sessions
  /\ {secio_enabled, panicked} \subseteq BOOLEAN
  /\ \A s \in Sessions : \A i \in DOMAIN sent[s] : sent[s][i] \in Seq(Byte)
  /\ budget.sends \in 0 .. setup.sends /\ budget.garbles \in 0 .. setup.garbles

-----------------------------------------------------------------------------
(***************************************************************************)
(* Codecs                                                                  *)
(***************************************************************************)
\* The slices that from_compatible_slice will be called with
Slices ==
  LET data == UNION {{inbox[s][i].bytes : i \in DOMAIN inbox[s]} : s \in Sessions}
  IN IF setup.proto = "yamux" THEN {}
     ELSE IF setup.proto # "discovery" THEN data
     ELSE {Unframe(d)[1] : d \in {d \in data : Unframe(d) # None}}
Type == TypeOf[setup.proto]

\* A slice that verify lets through can be read to the last item without an index beyond its
\* end, so the unchecked accessors never panic.
ReaderStaysInside == \A s \in Slices : verify(Type, s, TRUE) => Readable(Type, s)

\* A slice that verify accepts strictly is what the builder writes for the value the
\* accessors read from it: no two slices stand for one message.
StrictIsCanonical ==
  \A s \in Slices : verify(Type, s, FALSE) => write(Type, Value(Type, s)) = s

\* decode gives back what encode was called with.
DecodeInvertsEncode ==
  \A s \in Sessions : \A i \in DOMAIN inbox[s] :
    LET m == inbox[s][i] IN m.message # None => Decode(setup.proto, m.bytes) = m.message

\* The addresses in a message of identify or discovery
AddressesOf(m) ==
  CASE m.kind = "identify" -> ToSet(m.listen_addrs) \cup {m.observed_addr}
    [] m.kind = "nodes"    -> UNION {ToSet(m.items[i]) : i \in DOMAIN m.items}
    [] OTHER               -> {}
Heard(s) == UNION {IF got[s][i] = None THEN {} ELSE AddressesOf(got[s][i][1]) : i \in DOMAIN got[s]}

\* An address taken from a message, garbled or not, is one that from_iter makes of its
\* components, pop and push are inverses on it, and its peer ids are peer ids to secio.
AddressesHoldTogether ==
  setup.proto \in {"identify", "discovery"} =>
    \A a \in UNION {Heard(s) : s \in Sessions} :
      LET cs == iter(a)
      IN /\ from_iter(cs) = a
         /\ a # <<>> => push(pop(a), Last(cs)) = a
         /\ (\E i \in DOMAIN cs : cs[i].p = "p2p") => extract_peer_id(a) # None

\* What the formats promise, whatever arrives, garbled or not: the readers stay inside what
\* verify accepts, a strict slice is canonical, decode inverts encode, and the addresses of
\* an accepted message hold together.
MessagesHoldTogether ==
  ReaderStaysInside /\ StrictIsCanonical /\ DecodeInvertsEncode /\ AddressesHoldTogether

\* In whatever two portions the bytes of frames come, garbled or not, the codec of yamux
\* gives the same frames and meets the same errors (unused_data_header).
PortionsMakeNoDifference ==
  setup.proto = "yamux" =>
    \A s \in Sessions : \A i \in DOMAIN inbox[s] :
      LET data == inbox[s][i].bytes
          whole == Feed(Decoder, data)
      IN \A n \in 0 .. Len(data) :
           LET twice == Feed(Feed(Decoder, Slice(data, 0, n)), From(data, n))
           IN twice.frames = whole.frames /\ twice.failed = whole.failed

\* What a client without TLS sends first, a Propose behind its length or the frame that
\* opens a stream or pings, is plain TCP to a listener that serves TLS as well.
PlainIsRecognised ==
  \A s \in Sessions : \A i \in DOMAIN inbox[s] :
    LET data == inbox[s][i].bytes
        f == inbox[s][i].message[1][1]
    IN inbox[s][i].message # None =>
         /\ setup.proto = "propose" => IsPlain(put_u32(Len(data)) \o data)
         /\ setup.proto = "yamux" =>
              /\ f.flags = 1 /\ f.ty \in {"window_update", "ping"} => IsPlain(data)
              /\ f.ty = "data" => ~ IsPlain(data)

(***************************************************************************)
(* Handlers                                                                *)
(***************************************************************************)
\* The handler has an entry for every session that is there, and for no other, so that no
\* order of connections, messages and closings reaches an expect() of identify that finds
\* none, with encrypted connections or without.  When misbehaviour is answered with
\* Disconnect, a peer has the node take in the listen addresses of one identify message at
\* most, though what it sent is received until the session is closed; and never addresses
\* the internet cannot reach.
EntriesMatchSessions ==
  /\ TypeOK /\ ~ panicked
  /\ setup.proto \in {"ping", "identify", "discovery"} =>
       DOMAIN table = {s \in Sessions : Live(s) /\ (setup.proto = "discovery" \/ setup.secio)}
  /\ setup.proto = "identify" =>
       \A i \in DOMAIN added :
         /\ setup.answers = {TRUE} => \A j \in DOMAIN added : added[i].from = added[j].from => i = j
         /\ \A k \in DOMAIN added[i].addrs : Usable(added[i].addrs[k])

\* The messages that the node sent to s, and how many of them are such
Told(s) == [i \in DOMAIN sent[s] |-> Decode(setup.proto, sent[s][i])]
Number(ms, Test(_)) == Cardinality({i \in DOMAIN ms : ms[i] # None /\ Test(ms[i][1])})
GetNodesGot(s) == Number(got[s], LAMBDA m : m.kind = "getnodes")

\* A peer that runs this code finds nothing wrong with what the node sends it: every
\* message is decoded, a ping is answered once with its nonce, there is one identify
\* message, one GetNodes, one Nodes for every GetNodes of the peer, and none is too long
\* (for a peer that asks for MAX_ADDR_TO_SEND, as this code does).
PeersAreContent ==
  \A s \in Sessions : \A told \in {Told(s)} :
    /\ \A i \in DOMAIN told : told[i] # None
    /\ setup.proto = "ping" =>
         LET Nonces(ms, kind) ==
               LET those == SelectSeq(ms, LAMBDA m : m # None /\ m[1].kind = kind)
               IN [i \in DOMAIN those |-> those[i][1].nonce]
         IN Nonces(told, "pong") = Nonces(got[s], "ping")
    /\ setup.proto = "identify" =>
         /\ Len(told) <= 1
         /\ \A i \in DOMAIN told : Len(told[i][1].listen_addrs) <= MAX_LISTENS
    /\ setup.proto = "discovery" =>
         /\ Number(told, LAMBDA m : m.kind = "getnodes") <= 1
         /\ Number(told, LAMBDA m : m.kind = "nodes" /\ ~ m.announce) <= GetNodesGot(s)
         /\ Number(told, LAMBDA m : m.kind = "nodes" /\ verify_nodes_message(m)) = 0

\* The addresses announced to s, in order
Announced(s) ==
  FlattenSeq([i \in DOMAIN sent[s] |->
     LET Items(m) == IF m.kind = "nodes" /\ m.announce THEN FlattenSeq(m.items) ELSE <<>>
     IN Items(DiscoveryDecode(sent[s][i])[1])])

\* The answer to a peer's first GetNodes does not hold the address which that GetNodes made
\* known, unless someone else had named it.
NotToldOfItself ==
  setup.proto = "discovery" =>
    \A s \in DOMAIN table :
      LET told == Told(s)
          others == setup.known \cup UNION {ToSet(added[i].addrs) :
                                              i \in {i \in DOMAIN added : added[i].from # s}}
      IN GetNodesGot(s) = 1 /\ table[s].address \notin others \cup Heard(s) =>
           \A i \in DOMAIN told : LET m == told[i][1] IN
             m.kind = "nodes" /\ ~ m.announce => table[s].address \notin AddressesOf(m)

PortIn(a) == LET be == multiaddr_to_socketaddr(a)[1].port IN 256 * be[1] + be[2]

\* The port that a peer dialled from is not passed on: the address of an inbound TCP
\* session is neither handed to the address manager nor sent to anyone, unless a peer named
\* it or listens there.
OnlyListenAddresses ==
  setup.proto = "discovery" =>
    \A s \in DOMAIN table :
      LET peer == setup.peers[s]
          spread == UNION {ToSet(added[i].addrs) : i \in DOMAIN added}
                      \cup UNION {ToSet(Announced(t)) : t \in Sessions}
          exempt == \/ peer.ty = "outbound"
                    \/ \A i \in DOMAIN iter(peer.address) : iter(peer.address)[i].p # "tcp"
                    \/ \E t \in Sessions : peer.address \in Heard(t)
                    \/ \E i \in DOMAIN got[s] :
                         /\ got[s][i] # None /\ got[s][i][1].kind = "getnodes"
                         /\ got[s][i][1].listen_port = Some(PortIn(peer.address))
      IN exempt \/ peer.address \notin spread

\* What discovery passes on: no peer is answered with its own address, and no address is
\* spread that nobody listens on (NotToldOfItself, OnlyListenAddresses).
AddressesPassedOn == NotToldOfItself /\ OnlyListenAddresses

\* "if nonce is incorrect or can't find ping info": a peer whose every pong carries the
\* nonce of a ping it was sent is not disconnected for it.
PongKeepsPeer ==
  setup.proto = "ping" /\ setup.secio =>
    \A s \in Sessions :
      (\A i \in DOMAIN got[s] : /\ got[s][i] # None
                                /\ got[s][i][1].kind = "pong" =>
                                     \E k \in 1 .. taken[s] :
                                       sent[s][k] = build_ping(got[s][i][1].nonce))
        => link[s] # "closing"

=============================================================================
