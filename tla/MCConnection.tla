---------------------------- MODULE MCConnection ----------------------------
(* Connections between two ends whose proposals agree, differ in order, hold *)
(* names only one of them knows, or have nothing in common.                  *)
EXTENDS InboundConnection

Pair(c, s) == [e \in Ends |-> IF e = "client" THEN c ELSE s]
Base ==
  [key |-> Pair("k1", "k2"), digest |-> Pair(1, 2),
   exchange |-> Pair(<<"X25519", "P-256">>, <<"P-256", "X25519">>),
   ciphers |-> Pair(<<"AES-128-GCM", "NULL">>, <<"NULL", "CHACHA20_POLY1305", "AES-128-GCM">>),
   hashes |-> Pair(<<"SHA256">>, <<"SHA512", "SHA256">>),
   name |-> "p", asked |-> "p", offered |-> <<1, 2, 4>>, served |-> <<1, 2, 3>>, select |-> FALSE,
   data |-> Pair(1, 2), faults |-> 2]

Usual ==
  { Base,
    [Base EXCEPT !.digest = Pair(2, 1), !.select = TRUE, !.data = Pair(1, 1)],
    [Base EXCEPT !.digest = Pair(1, 1)],
    [Base EXCEPT !.key = Pair("k1", "k1")],
    [Base EXCEPT !.exchange = Pair(<<"X25519">>, <<"P-256">>)],
    [Base EXCEPT !.ciphers = Pair(<<"NULL">>, <<"NULL">>)],
    [Base EXCEPT !.hashes = Pair(<<"SHA512">>, <<"SHA256">>)],
    [Base EXCEPT !.offered = <<3>>, !.served = <<1, 2>>],
    [Base EXCEPT !.asked = "q"] }

\* Without data and faults, for what comes before the handshake
Light == [Base EXCEPT !.data = Pair(0, 0), !.asked = "q", !.faults = 0]
MCSetups == Usual \cup {Light}

Proxy == [ip |-> "ip1", port |-> "port1"]
Client == [ip |-> "ip2", port |-> "port2"]
Propose == Pieces("propose", 2, <<>>)
Hello == Pieces("hello", 3, <<>>)
Field(name, values) == <<[k |-> "field", i |-> 0, last |-> FALSE,
                          says |-> [name |-> name, values |-> values]]>>
Request(fields) == [Pieces("http", 2, <<>>) EXCEPT ![2].last = FALSE] \o fields \o Pieces("end", 1, <<>>)

NoHeader == [v |-> 0]
V1(parts, size) == [v |-> 1, parts |-> parts, size |-> size]
V2(command, family, len) ==
  [v |-> 2, version |-> 2, command |-> command, family |-> family, len |-> len,
   src |-> Client, dst |-> Proxy]
Line(proto) == <<"PROXY", proto, Client.ip, Proxy.ip, Client.port, Proxy.port>>

Direct == [binds |-> <<"tcp">>, trusted |-> {}, from |-> Client, header |-> NoHeader,
           client |-> Propose, eof |-> FALSE, drops |-> FALSE, good |-> TRUE, real |-> Client]
Proxied == [Direct EXCEPT !.binds = <<"tcp", "tls">>, !.trusted = {Proxy.ip}, !.from = Proxy]

\* Headers that name the client, that name nobody, and that are wrong
Naming == {V1(Line("TCP4"), 3), V1(Line("TCP6"), 2), V2(1, 1, 12), V2(1, 2, 40)}
Nameless == {V1(<<"PROXY", "UNKNOWN">>, 1), V2(0, 1, 12), V2(0, 0, 0), V2(1, 0, 0), V2(1, 3, 216)}
Wrong ==
  {V1(Line("TCP4"), 4), V1(Line("UDP4"), 2), V1(<<"PROXY">>, 2), V1(<<"PROXYTCP4">>, 2),
   V1(SubSeq(Line("TCP4"), 1, 5), 2), V1([Line("TCP6") EXCEPT ![3] = "name"], 2),
   V1([Line("TCP4") EXCEPT ![5] = "65536"], 2), V2(2, 1, 12), V2(1, 1, 11), V2(1, 2, 35),
   V2(1, 1, 513), [V2(1, 1, 12) EXCEPT !.version = 1]}

All3 == <<"tcp", "ws", "tls">>
Behind(h) == {[Proxied EXCEPT !.header = h, !.client = c, !.binds = b] :
                c \in {Propose, Hello}, b \in {<<"tcp", "tls">>, All3}}
               \cup {[Proxied EXCEPT !.header = h, !.binds = <<"tcp">>]}
               \cup {[Proxied EXCEPT !.header = h, !.binds = <<"tls">>, !.client = Hello]}
MCArrivals ==
  LET Good == UNION {{[a EXCEPT !.real = Proxy] : a \in Behind(h)} : h \in {NoHeader} \cup Nameless}
                \cup UNION {Behind(h) : h \in Naming}
      First(set) == {CHOOSE a \in set : TRUE}
      Bad == UNION {{[a EXCEPT !.real = Proxy, !.good = FALSE] : a \in First(Behind(h))} : h \in Wrong}
      Naming1 == V1(Line("TCP4"), 3)
  IN Good \cup Bad \cup
     { Direct,
       \* the header of a peer that is no proxy
       [Direct EXCEPT !.header = Naming1, !.good = FALSE, !.trusted = {"ip3"}],
       \* a client that is a trusted proxy too, and whose own data begin with a header
       [Proxied EXCEPT !.header = Naming1, !.trusted = {Proxy.ip, Client.ip}],
       [Proxied EXCEPT !.header = Naming1, !.trusted = {Proxy.ip, Client.ip},
                       !.client = Pieces("v1", 2, Naming1) \o Propose, !.good = FALSE],
       \* without encryption; too short; cut off
       [Direct EXCEPT !.client = Pieces("yamux", 2, <<>>), !.binds = <<"tls", "tcp", "ws">>],
       [Direct EXCEPT !.client = SubSeq(Propose, 1, 1), !.drops = TRUE],
       [Proxied EXCEPT !.header = Naming1, !.client = SubSeq(Propose, 1, 1)],
       [Proxied EXCEPT !.client = SubSeq(Pieces("v1", 3, Naming1), 1, 2), !.eof = TRUE, !.good = FALSE, !.real = Proxy],
       [Direct EXCEPT !.binds = <<"tls">>, !.client = SubSeq(Hello, 1, 2), !.eof = TRUE, !.good = FALSE],
       [Direct EXCEPT !.binds = <<"tls">>, !.client = SubSeq(Hello, 1, 2)],
       \* websockets
       [Direct EXCEPT !.client = Request(Field("for", <<"ip3">>)), !.binds = <<"tcp", "ws">>, !.drops = TRUE],
       [Proxied EXCEPT !.client = Request(Field("for", <<Client.ip, "ip3">>) \o Field("port", <<Client.port>>)),
                       !.binds = All3],
       [Proxied EXCEPT !.client = Request(Field("for", <<"name">>)), !.binds = <<"ws">>, !.real = Proxy],
       \* websocket and TLS, with TCP if it is bound in time
       [Direct EXCEPT !.client = Hello, !.binds = <<"tls", "ws", "tcp">>] }
MCCases == (Usual \X {Direct}) \cup ({Light} \X MCArrivals)
=============================================================================
