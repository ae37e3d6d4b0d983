---------------------------- MODULE InboundStream ----------------------------
(***************************************************************************)
(* What becomes of a TCP connection between the listener's accept and the  *)
(* service (tentacle/src/transports/tcp_base_listen.rs): which transport   *)
(* it carries, and, when it comes from a trusted proxy, whose it is        *)
(* (transports/proxy_protocol.rs).  One connection, its protocol_select    *)
(* task and the listener.                                                  *)
(*                                                                         *)
(* The bytes come in pieces, in any rhythm.  Two pieces are the 16 bytes   *)
(* that are peeked at; a piece shows what it is the beginning of (k), its  *)
(* place (i), whether it is the last of it, and what that says (says).     *)
(***************************************************************************)
EXTENDS Integers, Sequences, FiniteSets, SequencesExt

CONSTANT Arrivals \* see ArrivalsAssumption

VARIABLES
  arrival,   \* the connection: who sends what, and what the listener is set up for
  bound,     \* how many of the binds to this address have been made
  arrived,   \* pieces that have come
  task,      \* protocol_select: see AcceptInit
  given,     \* what the listener returned for it
  listening  \* has the listener not been dropped?

avars == <<arrival, bound, arrived, task, given, listening>>

PEEK == 2
PROXY_V1_MAX_LENGTH == 3
PROXY_V2_MAX_ADDR_LEN == 512
Ips == {"ip1", "ip2", "ip3"}
Ports == {"port1", "port2"}

Pieces(k, n, says) == [i \in 1 .. n |-> [k |-> k, i |-> i, last |-> i = n, says |-> says]]

\* A header of version 1 is a line of words, one of version 2 has 16 bytes and an address.
HeaderPieces(h) ==
  CASE h.v = 0 -> <<>>
    [] h.v = 1 -> Pieces("v1", h.size, h)
    [] h.v = 2 -> Pieces("v2", IF h.len = 0 THEN 2 ELSE 3, h)

ASSUME ArrivalsAssumption ==
  \A a \in Arrivals :
    /\ a.binds # <<>> /\ ToSet(a.binds) \subseteq {"tcp", "ws", "tls"}
    /\ a.trusted \subseteq Ips                    \* trusted_proxies
    /\ a.from.ip \in Ips /\ a.from.port \in Ports \* the other end of the socket
    /\ a.header.v \in 0 .. 2                      \* what a proxy put in front, if anything
    /\ a.client # <<>>                            \* the pieces of the client itself
    /\ {a.eof, a.drops} \subseteq BOOLEAN         \* does the sender close? the listener?
    /\ a.good \in BOOLEAN                         \* as the docs of trusted_proxies have it
    /\ a.real.ip \in Ips /\ a.real.port \in Ports \* whose connection it is

Stream == HeaderPieces(arrival.header) \o arrival.client
Left == SubSeq(Stream, task.pos + 1, arrived)
NothingMore == arrived = Len(Stream) /\ arrival.eof

AcceptInit ==
  /\ arrival \in Arrivals
  /\ bound = 1 /\ arrived = 0 /\ given = <<>> /\ listening = TRUE
  /\ task = [at |-> "backlog", mode |-> {}, accepted |-> {}, pos |-> 0, peeked |-> <<>>,
             peer |-> arrival.from, parsed |-> FALSE]

\* protocol_select goes on at a place, with some of its variables changed.
Step(new) == task' = new /\ UNCHANGED <<arrival, bound, arrived, given, listening>>

-----------------------------------------------------------------------------
(* proxy_protocol.rs *)

Success(addr) == [r |-> "success", addr |-> addr]
NotProxyProtocol == [r |-> "not"]
Error == [r |-> "error"]

parse_proxy_v1_line(parts) ==
  IF parts[1] # "PROXY" \/ Len(parts) < 2 THEN Error
  ELSE IF parts[2] = "UNKNOWN" THEN NotProxyProtocol
  ELSE IF \/ parts[2] \notin {"TCP4", "TCP6"} \/ Len(parts) # 6
          \/ parts[3] \notin Ips \/ parts[5] \notin Ports
       THEN Error
  ELSE Success([ip |-> parts[3], port |-> parts[5]])

parse_proxy_v2_address(h) ==
  IF h.family \notin {1, 2} THEN NotProxyProtocol
  ELSE IF h.len < (IF h.family = 1 THEN 12 ELSE 36) THEN Error
  ELSE Success(h.src)

parse_proxy_v2_bytes(h) ==
  IF h.version # 2 \/ h.command \notin {0, 1} THEN Error
  ELSE IF h.command = 0 THEN NotProxyProtocol
  ELSE parse_proxy_v2_address(h)

\* What the beginning of the stream is to parse_proxy_protocol
Detected(p) == p.k = "v1" \/ (p.k = "v2" /\ p.says.version = 2)
TooLong(p) == \/ p.k = "v2" /\ p.i = 2 /\ p.says.len > PROXY_V2_MAX_ADDR_LEN
              \/ p.k # "v2" /\ ~ p.last /\ p.i >= PROXY_V1_MAX_LENGTH
Parse(p) == IF p.k = "v2" THEN parse_proxy_v2_bytes(p.says) ELSE parse_proxy_v1_line(p.says.parts)

-----------------------------------------------------------------------------
(* The listener *)

\* bind() to an address that is bound already
combine ==
  /\ bound < Len(arrival.binds) /\ task.at = "backlog" /\ listening
  /\ bound' = bound + 1
  /\ UNCHANGED <<arrival, arrived, task, given, listening>>

\* The mode is read once, when the connection is accepted.  UpgradeModeEnum has no name for
\* websocket and TLS without TCP: to_enum meets unreachable!, and the listener's task panics.
poll_listen ==
  LET modes == ToSet(SubSeq(arrival.binds, 1, bound)) IN
  /\ task.at = "backlog" /\ listening
  /\ \/ modes # {"ws", "tls"} /\ Step([task EXCEPT !.at = "peek", !.mode = modes, !.accepted = modes])
     \/ /\ modes = {"ws", "tls"}
        /\ listening' = FALSE
        /\ task' = [task EXCEPT !.at = "panicked", !.accepted = modes]
        /\ UNCHANGED <<arrival, bound, arrived, given>>

poll_pending ==
  /\ task.at = "sent"
  /\ task' = [task EXCEPT !.at = "given"]
  /\ given' = <<[peer |-> task.peer, via |-> CHOOSE m \in task.mode : TRUE, at |-> task.pos]>>
  /\ UNCHANGED <<arrival, bound, arrived, listening>>

\* With the listener go the connections it has not accepted or not returned.
DropListener ==
  /\ arrival.drops /\ listening /\ task.at # "given"
  /\ listening' = FALSE
  /\ task' = [task EXCEPT !.at = IF @ \in {"backlog", "sent"} THEN "dropped" ELSE @]
  /\ UNCHANGED <<arrival, bound, arrived, given>>

-----------------------------------------------------------------------------
(* protocol_select *)

Peek ==
  /\ task.at = "peek" /\ Len(Left) >= PEEK
  /\ Step([task EXCEPT !.at = "select",
                       !.peeked = [i \in 1 .. PEEK |-> Left[i].k]])

\* What comes is not the handshake of the transport; or it is, and complete.
Handshake == IF task.mode = {"ws"} THEN "http" ELSE "hello"
OtherHandshake == Left # <<>> /\ Left[1].k # Handshake
Shaken == Left # <<>> /\ ~ OtherHandshake /\ arrived = Len(Stream) /\ Last(Stream).last

\* The timeouts: too few bytes to peek at, a header or a handshake that is not finished
GiveUp ==
  /\ \/ task.at = "peek" /\ Len(Left) < PEEK
     \/ task.at = "header" /\ Left = <<>> /\ ~ NothingMore
     \/ /\ task.at = "upgrade" /\ task.mode # {"tcp"}
        /\ ~ OtherHandshake /\ ~ Shaken /\ ~ NothingMore
  /\ Step([task EXCEPT !.at = "late"])

IsRequest == task.peeked[1] = "http"
\* Mutant: only secio's Propose is known.
IsPlainSecio == task.peeked[1] = "propose"
\* Secio's Propose, or the first frame of yamux
IsPlain == task.peeked[1] \in {"propose", "yamux"}
HeaderExpected == ~ task.parsed /\ task.peer.ip \in arrival.trusted

\* TcpAndWs, All
SelectRequest ==
  /\ task.at = "select" /\ {"ws"} \subseteq task.mode /\ task.mode # {"ws"}
  /\ Step([task EXCEPT !.mode = IF IsRequest THEN {"ws"} ELSE @ \ {"ws"}])

\* X-Forwarded-For and -Port, as far as the request has come; the last of each counts.
extract_forwarded_for_from_ws_handshake ==
  LET Valid(name) == IF name = "for" THEN Ips ELSE Ports
      fields(name) == SelectSeq(Left, LAMBDA p : /\ p.k = "field" /\ p.says.name = name
                                                 /\ p.says.values[1] \in Valid(name))
      First(name) == Last(fields(name)).says.values[1]
  IN IF Left[1].k # "http" \/ fields("for") = <<>> THEN task.peer
     ELSE [ip |-> First("for"),
           port |-> IF fields("port") = <<>> THEN task.peer.port ELSE First("port")]

SelectWs ==
  /\ task.at = "select" /\ task.mode = {"ws"}
  /\ Step([task EXCEPT !.at = "upgrade",
                       !.peer = IF @.ip \in arrival.trusted
                                THEN extract_forwarded_for_from_ws_handshake ELSE @])

\* After the header: with TcpAndTls, the transport is still to be found out.
Parsed(pos, result) ==
  LET both == task.mode = {"tcp", "tls"} IN
  Step(IF result.r = "error" THEN [task EXCEPT !.pos = pos, !.at = "refused"]
       ELSE [task EXCEPT !.pos = pos, !.parsed = both,
                         !.peer = IF result.r = "success" THEN result.addr ELSE @,
                         !.at = IF ~ both THEN "upgrade"
                                ELSE IF result.r = "success" THEN "peek" ELSE "select"])

try_parse_proxy_protocol ==
  /\ task.at = "select" /\ "ws" \notin task.mode /\ HeaderExpected /\ Left # <<>>
  /\ IF Detected(Left[1]) THEN Step([task EXCEPT !.at = "header"])
     ELSE Parsed(task.pos, NotProxyProtocol)

\* Mutant: the header is read through a buffer, which takes what has come.
ReadHeaderBuffered ==
  /\ task.at = "header"
  /\ \/ Left = <<>> /\ NothingMore /\ Step([task EXCEPT !.at = "refused"])
     \/ /\ Left # <<>>
        /\ IF TooLong(Left[1]) THEN Step([task EXCEPT !.pos = @ + 1, !.at = "refused"])
           ELSE IF Left[1].last THEN Parsed(arrived, Parse(Left[1]))
           ELSE Step([task EXCEPT !.pos = @ + 1])

\* The header is read piece by piece, and never beyond its end.
ReadHeader ==
  /\ task.at = "header"
  /\ \/ Left = <<>> /\ NothingMore /\ Step([task EXCEPT !.at = "refused"])
     \/ /\ Left # <<>>
        /\ IF TooLong(Left[1]) THEN Step([task EXCEPT !.pos = @ + 1, !.at = "refused"])
           ELSE IF Left[1].last THEN Parsed(task.pos + 1, Parse(Left[1]))
           ELSE Step([task EXCEPT !.pos = @ + 1])

\* TcpAndTls
SelectPlain ==
  /\ task.at = "select" /\ task.mode = {"tcp", "tls"} /\ ~ HeaderExpected
  /\ Step([task EXCEPT !.mode = IF IsPlain THEN {"tcp"} ELSE {"tls"}])

\* OnlyTcp, OnlyTls
SelectOnly ==
  /\ task.at = "select" /\ task.mode \in {{"tcp"}, {"tls"}} /\ ~ HeaderExpected
  /\ Step([task EXCEPT !.at = "upgrade"])

\* accept_async, TlsAcceptor::accept: nothing for TCP; else what comes must be the
\* handshake of the transport, complete.  Then the stream is sent to the listener.
Upgrade ==
  /\ task.at = "upgrade"
  /\ \/ task.mode = {"tcp"} \/ Shaken
     \/ OtherHandshake \/ NothingMore
  /\ Step([task EXCEPT !.at = IF task.mode # {"tcp"} /\ ~ Shaken THEN "refused"
                             ELSE IF listening THEN "sent" ELSE "dropped"])

Arrive ==
  /\ arrived < Len(Stream)
  /\ arrived' = arrived + 1
  /\ UNCHANGED <<arrival, bound, task, given, listening>>

SelectStep ==
  \/ Peek \/ SelectRequest \/ SelectWs \/ try_parse_proxy_protocol \/ ReadHeader
  \/ SelectPlain \/ SelectOnly \/ Upgrade
AcceptStep == poll_listen \/ poll_pending \/ SelectStep
=============================================================================
