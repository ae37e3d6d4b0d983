-------------------------- MODULE InboundConnection --------------------------
(***************************************************************************)
(* A connection from the client's first byte at the listener to protocol   *)
(* data: the listener finds out the transport and the client's address     *)
(* (InboundStream), then the two ends go through the handshake and the     *)
(* selection (Connection), on the stream as the listener handed it over.   *)
(***************************************************************************)
EXTENDS Connection, InboundStream

CONSTANT Cases \* pairs of a set-up of Setups and one of Arrivals

allvars == <<vars, avars>>

Init == ConnectInit /\ AcceptInit /\ <<setup, arrival>> \in Cases

\* The transport that the client speaks
Via(k) == CASE k = "http" -> "ws" [] k = "hello" -> "tls" [] OTHER -> "tcp"
Speaks == Via(arrival.client[1].k)

\* The service's end reads the client's Propose, from its first byte, and not something else.
AtPropose ==
  /\ given # <<>>
  /\ given[1].at = Len(HeaderPieces(arrival.header)) /\ given[1].via = Speaks
  /\ arrival.client[1].k \notin {"yamux", "v1"}
Lost == task.at \in {"late", "refused", "dropped", "panicked"} \/ (given # <<>> /\ ~ AtPropose)

\* A stream that is given up is closed; one that does not begin with a Propose is an error
\* of the handshake.
TurnAway == Lost /\ pc["server"] # "failed" /\ Fails("server") /\ UNCHANGED svars

\* The client's own bytes come when it has sent them.
Sent == arrived < Len(HeaderPieces(arrival.header)) \/ pc["client"] # "start"

Server == (AtPropose /\ End("server")) \/ TurnAway

Next ==
  \/ (End("client") \/ Server \/ Network) /\ UNCHANGED avars
  \/ (AcceptStep \/ GiveUp \/ combine \/ DropListener \/ (Sent /\ Arrive)) /\ UNCHANGED vars

\* Every task is polled while it can go on, time-outs come, and what was sent arrives; the
\* network's faults, further binds and the drop of the listener may happen or not.
Fairness ==
  /\ WF_allvars(End("client") /\ UNCHANGED avars)
  /\ WF_allvars(Server /\ UNCHANGED avars)
  /\ WF_allvars(AcceptStep /\ UNCHANGED vars)
  /\ WF_allvars(GiveUp /\ UNCHANGED vars)
  /\ WF_allvars(Sent /\ Arrive /\ UNCHANGED vars)
Spec == Init /\ [][Next]_allvars /\ Fairness

-----------------------------------------------------------------------------
(* Properties *)

\* A proxy's header is consumed once and whole, and no byte of the client with it, in
\* whatever pieces it came (proxy_protocol.rs: "ensuring no business data is lost"), even if
\* the client's address is itself a trusted one; what comes from elsewhere, or a websocket,
\* is handed over untouched.  The address of the session is the client's, and the header of a
\* peer that is no trusted proxy is not believed; but a websocket whose request came in pieces
\* may keep the proxy's, or have the client's ip with the proxy's port.
HandedOverWhole ==
  given # <<>> =>
    LET h == HeaderPieces(arrival.header)
        read == arrival.from.ip \in arrival.trusted /\ given[1].via # "ws"
        peer == given[1].peer
    IN /\ given[1].at = IF read /\ h # <<>> /\ Detected(h[1]) THEN Len(h) ELSE 0
       /\ IF Speaks # "ws" THEN peer = arrival.real
          ELSE /\ peer.ip \in {arrival.real.ip, arrival.from.ip}
               /\ peer.ip = arrival.from.ip => peer.port = arrival.from.port

\* The header was read and had no address in it; the bytes peeked at before it are then
\* used again to tell TCP from TLS.
StalePeek ==
  /\ arrival.header.v # 0 /\ arrival.from = arrival.real
  /\ {"tcp", "tls"} \subseteq task.accepted
Misjudged == task.at \in {"refused", "panicked"} \/ (given # <<>> /\ given[1].via # Speaks)

\* A well-formed stream of a transport that the listener served when it was accepted is
\* handed over as that transport, and refused only if it comes too late, whichever other
\* transports share the address; but for StalePeek, and for websocket and TLS without TCP,
\* where the listener panics (tcp_base_listen.rs:233).
ServedAsItSpeaks ==
  Misjudged =>
    ~ arrival.good \/ Speaks \notin task.accepted \/ StalePeek \/ task.accepted = {"ws", "tls"}

Compatible ==
  /\ setup.key["client"] # setup.key["server"] /\ setup.digest["client"] # setup.digest["server"]
  /\ ToSet(setup.exchange["client"]) \cap ToSet(setup.exchange["server"]) \cap Agreements # {}
  /\ ToSet(setup.ciphers["client"]) \cap ToSet(setup.ciphers["server"]) \cap Ciphers # {}
  /\ ToSet(setup.hashes["client"]) \cap ToSet(setup.hashes["server"]) \cap Digests # {}
Serves == setup.asked = setup.name /\ ToSet(setup.offered) \cap ToSet(setup.served) # {}

\* The handshake ends at both ends, without its time-out: an end whose remote failed reads
\* eof; and a stream that the listener gives up, however little came, does not hang either.
\* On a network that does nothing wrong, two ends that share an algorithm of every kind get
\* through the handshake, learn the result of the selection and receive everything; two that
\* do not, or whose stream the listener did not hand over, both fail.
GoodConnectionWorks ==
  /\ <>(\A e \in Ends : pc[e] \in {"secure", "failed"})
  /\ <>[](\/ faults > 0
          \/ (~ Compatible \/ Lost) /\ \A e \in Ends : pc[e] = "failed"
          \/ Compatible /\ ~ Lost /\ \A e \in Ends :
               /\ pc[e] = "secure"
               /\ sel[e] = IF Serves THEN "open" ELSE "refused"
               /\ Serves => Len(got[e]) = setup.data[Other(e)])
=============================================================================
