----------------------------- MODULE MCProtocols -----------------------------
\* Instances of Protocols for TLC.
EXTENDS Protocols

Ip(n, port) == from_iter(<<Component("ip4", <<n, 1, 1, 1>>), Component("tcp", <<0, port>>)>>)
PeerIdOf(n) == Component("p2p", <<18, 32>> \o [i \in 1 .. 32 |-> n])
Private == Ip(10, 7)
Name == from_iter(<<Component("dns4", <<97, 98>>), Component("tcp", <<0, 1>>), Component("ws", <<>>)>>)
Onion == from_iter(<<Component("onion3", [i \in 1 .. 37 |-> 2])>>)
Six == from_iter(<<Component("ip6", [i \in 1 .. 16 |-> 32]), Component("udp", <<0, 9>>),
                   Component("quicv1", <<>>)>>)
Other == from_iter(<<Component("memory", [i \in 1 .. 8 |-> 3]), Component("tls", <<97>>),
                     Component("wss", <<>>), Component("dns6", <<195, 169>>)>>)

In(a) == [ty |-> "inbound", address |-> a]
Out(a) == [ty |-> "outbound", address |-> a]
All(ms) == [s \in Sessions |-> ms]

Plain ==
  [proto |-> "ping", secio |-> TRUE, global_ip_only |-> TRUE, opens |-> {1},
   peers |-> <<In(Ip(1, 201)), Out(push(Ip(2, 2), PeerIdOf(5))), In(Ip(3, 203))>>,
   inputs |-> All({}), sends |-> 0, garbles |-> 0, ticks |-> 0, interval |-> 1, timeout |-> 1,
   answers |-> {TRUE}, judges |-> {FALSE}, leaves |-> FALSE, listens |-> <<Name, Ip(9, 9)>>,
   known |-> {}, invalid |-> {}, identify |-> <<1, 2>>]

\* Peers that ping, answer pings, come and go; with and without encryption
PingPeers == [Plain EXCEPT !.opens = {1, 2}, !.inputs = All({Ping(<<7, 0, 0, 1>>)}),
                           !.sends = 2, !.ticks = 2, !.leaves = TRUE]
PingNoop == [PingPeers EXCEPT !.secio = FALSE, !.sends = 1]

\* Peers that send more than one identify message, and one with too many addresses
IdentifyPeers ==
  [Plain EXCEPT !.proto = "identify", !.opens = {1, 2}, !.sends = 3, !.ticks = 2, !.leaves = TRUE,
                !.inputs = <<{Identify(<<Private, Ip(3, 3)>>, Ip(4, 4), <<>>),
                              Identify(<<Ip(3, 3), Ip(4, 4), Ip(5, 5)>>, Private, <<>>)},
                             {Identify(<<>>, Six, <<9>>)}, {}>>,
                !.listens = <<Ip(6, 6), Private, Ip(7, 7), Ip(8, 8)>>, !.judges = BOOLEAN]
IdentifyLenient == [IdentifyPeers EXCEPT !.answers = BOOLEAN, !.judges = {FALSE},
                                         !.global_ip_only = FALSE, !.sends = 2]
IdentifyNoop == [IdentifyPeers EXCEPT !.secio = FALSE]

\* Peers that ask, answer and announce
DiscoveryPeers ==
  [Plain EXCEPT !.proto = "discovery", !.opens = {1, 2}, !.sends = 3, !.leaves = TRUE,
                !.inputs = <<{GetNodes(pack_number(MAX_ADDR_TO_SEND), Some(300)),
                              GetNodes(pack_number(0), None)},
                             {Nodes(FALSE, <<<<Ip(3, 3), Ip(4, 4)>>>>),
                              Nodes(TRUE, <<<<Ip(4, 4)>>, <<Ip(5, 5)>>>>)}, {}>>,
                !.known = {Ip(6, 6)}, !.answers = BOOLEAN]
\* Announcements among three sessions
DiscoveryAnnounce ==
  [Plain EXCEPT !.proto = "discovery", !.opens = {1, 2, 3}, !.sends = 1, !.ticks = 2, !.timeout = 0,
                !.peers = <<In(Ip(1, 201)), Out(Ip(2, 2)), Out(Ip(3, 3))>>,
                !.inputs = <<{GetNodes(pack_number(MAX_ADDR_TO_SEND), Some(300))}, {}, {}>>]

\* One message of each format, garbled
Garbling(proto, ms) ==
  [Plain EXCEPT !.proto = proto, !.inputs = All(ms), !.sends = 1, !.garbles = 1]
Codecs ==
  {[Garbling("ping", {Ping(<<1, 2, 3, 4>>), Pong(<<0, 0, 0, 0>>)}) EXCEPT !.garbles = 2],
   Garbling("discovery", {GetNodes(<<0, 1, 0, 0>>, Some(259)), GetNodes(<<0, 0, 0, 0>>, None),
                          Nodes(TRUE, <<<<Ip(1, 1), Name>>, <<>>>>), Nodes(FALSE, <<>>)}),
   Garbling("identify", {Identify(<<Name, Other>>, Six, <<5>>),
                         Identify(<<>>, push(Onion, PeerIdOf(4)), <<>>)}),
   Garbling("propose", {[rand |-> <<1, 200>>, pubkey |-> <<255>>, exchange |-> <<97>>,
                         ciphers |-> <<>>, hashes |-> <<98, 44>>]}),
   [Garbling("exchange", {[epubkey |-> <<1, 200>>, signature |-> <<>>]}) EXCEPT !.garbles = 2],
   [Garbling("pubkey", {[key |-> <<2, 255, 7>>], [key |-> <<>>]}) EXCEPT !.garbles = 2],
   Garbling("select", {[name |-> <<47, 97>>, support_versions |-> <<<<48>>, <<49, 46>>>>],
                       [name |-> <<>>, support_versions |-> <<>>]}),
   Garbling("yamux", {<<new_window_update(1, <<0, 0, 0, 3>>, <<0, 4, 0, 0>>), new_data(0, <<0, 0, 0, 3>>, <<7, 8>>)>>,
                      <<new_ping(1, <<255, 0, 0, 1>>), new_go_away(0)>>,
                      <<new_data(1, <<0, 0, 0, 1>>, <<>>), new_data(4, <<0, 0, 0, 1>>, <<9>>)>>}),
   Garbling("quic", {[secio_pubkey |-> <<2, 3>>, binding_sig |-> <<48, 255>>]})}

SmallSetups ==
  Codecs \cup {PingPeers, PingNoop, IdentifyPeers, IdentifyLenient, IdentifyNoop,
               DiscoveryPeers, DiscoveryAnnounce}

\* Peers that do nothing but answer pings
PingAnswered == {[Plain EXCEPT !.ticks = 1]}

=============================================================================
