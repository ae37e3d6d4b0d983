------------------------------ MODULE MCService ------------------------------
(* The service with two peers, in a set-up for each kind of load. *)
EXTENDS Service

\* "a" and "b" lead to a named peer each, "c" to either.
MCPeerOf == [a \in {"a", "b", "c"} |-> CASE a = "a" -> "p" [] a = "b" -> "q" [] OTHER -> NoPeer]
MCAnswers == [a \in {"a", "b", "c"} |-> IF a = "a" THEN {"p"} ELSE {"p", "q"}]
\* One socket that two modes share, or three
TcpAndWs == {<<1, "tcp">>, <<1, "ws">>}
AllModes == TcpAndWs \cup {<<1, "tls">>}

Load(dial, raw, listen, asks, arrivals, max, forever, calls, closes) ==
  [dial |-> dial, raw |-> raw, listen |-> listen, asks |-> asks, arrivals |-> arrivals,
   max |-> max, forever |-> forever, secure |-> TRUE, callback |-> calls, closes |-> closes]
MCSetups ==
  {Load({"a", "b", "c"}, {"a"}, {}, 4, 0, 2, FALSE, FALSE, {FALSE}),
   [Load({"a", "b"}, {}, {<<1, "tcp">>}, 3, 1, 1, TRUE, FALSE, {}) EXCEPT !.secure = FALSE],
   Load({"b"}, {}, TcpAndWs, 4, 1, 1, FALSE, FALSE, BOOLEAN),
   Load({}, {}, AllModes, 4, 1, 1, FALSE, FALSE, {}),
   Load({"a"}, {}, {<<1, "tcp">>}, 2, 0, 1, FALSE, TRUE, {FALSE})}
=============================================================================
