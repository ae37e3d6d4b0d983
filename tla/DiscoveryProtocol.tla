--------------------------- MODULE DiscoveryProtocol ---------------------------
(***************************************************************************)
(* DiscoveryProtocol of protocols/discovery/src/lib.rs and SessionState of *)
(* its state.rs.  addr_known holds what was put into AddrKnown, a Bloom    *)
(* filter that forgets: whether it finds an address is another matter.     *)
(***************************************************************************)
EXTENDS ProtocolNode, FiniteSetsExt

DiscoveryTimers == [check |-> setup.interval]

\* The addresses that the address manager holds, and what get_random(GET_RANDOM) and
\* choose_multiple may leave of them
Held == setup.known \cup UNION {ToSet(added[i].addrs) : i \in DOMAIN added}
Samples(n, held) == kSubset(Min({n, GET_RANDOM, Cardinality(held)}), held)

\* The first listen address that is a socket address gives the port, as a number
ListenPort ==
  LET ports == SelectSeq(setup.listens, LAMBDA a : multiaddr_to_socketaddr(a) # None)
      be == multiaddr_to_socketaddr(ports[1])[1].port
  IN IF ports = <<>> THEN None ELSE Some(256 * be[1] + be[2])

\* RemoteAddress::Listen, or Init
SessionState(known, listen, address) ==
  [addr_known |-> known, listen |-> listen, address |-> address, last_announce |-> None,
   announce_multiaddrs |-> <<>>, received_get_nodes |-> FALSE, received_nodes |-> FALSE]

DiscoveryConnected(s) ==
  /\ link' = [link EXCEPT ![s] = "open"]
  /\ LET peer == setup.peers[s] IN
     \/ /\ peer.ty = "outbound"
        /\ Send({s}, GetNodes(pack_number(MAX_ADDR_TO_SEND), ListenPort))
        /\ table' = With(s, SessionState({peer.address}, TRUE, peer.address))
     \/ /\ peer.ty = "inbound"
        /\ table' = With(s, SessionState({}, FALSE, peer.address))
        /\ UNCHANGED sent
  /\ UNCHANGED <<secio_enabled, added, timeouts, panicked>>

DiscoveryDisconnected(s) ==
  /\ table' = Without(s)
  /\ UNCHANGED <<sent, secio_enabled, added, timeouts, panicked>>

update_port(state, port) ==
  LET cs == iter(state.address)
      be == <<port \div 256, port % 256>>
  IN IF state.listen THEN state
     ELSE [state EXCEPT !.listen = TRUE,
                        !.address = from_iter([i \in DOMAIN cs |->
                          IF cs[i].p = "tcp" THEN Component("tcp", be) ELSE cs[i]])]

\* Mutant: the addresses are taken after the peer's own is added.
ReceivedGetNodesLate(s, m) ==
  LET port == m.listen_port
      asked == [table[s] EXCEPT !.received_get_nodes = TRUE]
      named == IF port = None THEN asked ELSE update_port(asked, port[1])
      own == IF port = None THEN {} ELSE {named.address}
  IN \E repeated \in IF table[s].received_get_nodes THEN setup.answers ELSE {FALSE},
        items \in Samples(Max({MAX_ADDR_TO_SEND, unpack_number(m.count)}), Held \cup own) :
       /\ Disconnect(IF repeated THEN {s} ELSE {})
       /\ IF repeated THEN UNCHANGED <<table, sent, added>>
          ELSE /\ table' = [table EXCEPT ![s] =
                              [named EXCEPT !.addr_known = @ \cup own \cup items]]
               /\ added' = added \o [i \in DOMAIN port |->
                                       [from |-> s, addrs |-> <<named.address>>]]
               /\ LET seq == SetToSeq(items)
                  IN Send({s}, Nodes(FALSE, [i \in DOMAIN seq |-> <<seq[i]>>]))

ReceivedGetNodes(s, m) ==
  LET port == m.listen_port
      asked == [table[s] EXCEPT !.received_get_nodes = TRUE]
      named == IF port = None THEN asked ELSE update_port(asked, port[1])
      own == IF port = None THEN {} ELSE {named.address}
  IN \E repeated \in IF table[s].received_get_nodes THEN setup.answers ELSE {FALSE},
        items \in Samples(Max({MAX_ADDR_TO_SEND, unpack_number(m.count)}), Held) :
       /\ Disconnect(IF repeated THEN {s} ELSE {})
       /\ IF repeated THEN UNCHANGED <<table, sent, added>>
          ELSE /\ table' = [table EXCEPT ![s] =
                              [named EXCEPT !.addr_known = @ \cup own \cup items]]
               /\ added' = added \o [i \in DOMAIN port |->
                                       [from |-> s, addrs |-> <<named.address>>]]
               /\ LET seq == SetToSeq(items)
                  IN Send({s}, Nodes(FALSE, [i \in DOMAIN seq |-> <<seq[i]>>]))

\* Whether there is a misbehaviour in it
verify_nodes_message(nodes) ==
  \/ Len(nodes.items) > IF nodes.announce THEN ANNOUNCE_THRESHOLD ELSE MAX_ADDR_TO_SEND
  \/ \E i \in DOMAIN nodes.items : Len(nodes.items[i]) > MAX_ADDRS

ReceivedNodes(s, m) ==
  \E wrong \in IF verify_nodes_message(m) THEN setup.answers ELSE {FALSE},
     repeated \in IF ~ m.announce /\ table[s].received_nodes THEN setup.answers ELSE {FALSE} :
    /\ Disconnect(IF wrong \/ repeated THEN {s} ELSE {})
    /\ IF wrong \/ (~ m.announce /\ table[s].received_nodes) THEN UNCHANGED <<table, added>>
       ELSE LET addrs == FlattenSeq(m.items)
            IN /\ table' = [table EXCEPT ![s].addr_known = @ \cup ToSet(addrs),
                                         ![s].received_nodes = @ \/ ~ m.announce]
               /\ added' = Append(added, [from |-> s, addrs |-> addrs])
    /\ UNCHANGED sent

\* A session that is not gone has an entry: see EntriesMatchSessions.
DiscoveryReceived(s, m) ==
  /\ \/ /\ m = None
        /\ \E invalid \in setup.answers : Disconnect(IF invalid THEN {s} ELSE {})
        /\ UNCHANGED <<table, sent, added>>
     \/ m # None /\ m[1].kind = "getnodes" /\ ReceivedGetNodes(s, m[1])
     \/ m # None /\ m[1].kind = "nodes" /\ ReceivedNodes(s, m[1])
  /\ UNCHANGED <<secio_enabled, timeouts, panicked>>

\* check_timer: time for the address of this session to be announced again
TimerDue(state) == state.last_announce = None \/ now - state.last_announce[1] > setup.timeout
check_timer(state) == IF TimerDue(state) THEN [state EXCEPT !.last_announce = Some(now)] ELSE state

\* AddrKnown::contains is sure of an address that alone was put in; else every insertion wears
\* out others, and an address may be taken for another.
SurelyContains(known, a) == known = {a}

\* Mutant: a full queue takes one more.
QueueLate(state, a) ==
  IF Len(state.announce_multiaddrs) <= ANNOUNCE_QUEUE /\ ~ SurelyContains(state.addr_known, a)
  THEN [state EXCEPT !.announce_multiaddrs = Append(@, a), !.addr_known = @ \cup {a}] ELSE state
Queue(state, a) ==
  IF Len(state.announce_multiaddrs) < ANNOUNCE_QUEUE /\ ~ SurelyContains(state.addr_known, a)
  THEN [state EXCEPT !.announce_multiaddrs = Append(@, a), !.addr_known = @ \cup {a}] ELSE state

\* What waits is sent, then the addresses that are due are queued, in any order and each
\* with those of any ANNOUNCE_TO sessions whose filters do not find it.
DiscoveryNotify ==
  LET waiting == {s \in DOMAIN table : table[s].announce_multiaddrs # <<>>}
      drained == [s \in DOMAIN table |->
                    check_timer([table[s] EXCEPT !.announce_multiaddrs = <<>>])]
      listed == {s \in DOMAIN table : /\ TimerDue(table[s]) /\ table[s].listen
                                      /\ table[s].address \notin setup.invalid}
      targets == UNION {kSubset(n, DOMAIN table) :
                          n \in 0 .. Min({ANNOUNCE_TO, Cardinality(DOMAIN table)})}
  IN /\ \E order \in SetToSeqs(listed), to \in [listed -> targets] :
          table' = FoldLeft(LAMBDA t, l : [s \in DOMAIN t |->
                                IF s \in to[l] THEN Queue(t[s], table[l].address) ELSE t[s]],
                            drained, order)
     /\ sent' = [s \in Sessions |->
                   IF s \notin waiting THEN sent[s]
                   ELSE Append(sent[s], DiscoveryEncode(Nodes(TRUE,
                          [i \in DOMAIN table[s].announce_multiaddrs |->
                             <<table[s].announce_multiaddrs[i]>>])))]
     /\ UNCHANGED <<link, secio_enabled, added, timeouts, panicked>>

=============================================================================
