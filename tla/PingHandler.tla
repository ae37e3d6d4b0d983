------------------------------ MODULE PingHandler ------------------------------
\* PingHandler of protocols/ping/src/lib.rs.
EXTENDS ProtocolNode

PingTimers == [send |-> setup.interval, check |-> setup.timeout]

PingStatus == [last_ping |-> now, processing |-> FALSE, nonce |-> pack_number(0)]

nonce(t) == pack_number(t)

PingConnected(s) ==
  /\ \/ /\ setup.secio
        /\ table' = IF s \in DOMAIN table THEN table ELSE With(s, PingStatus)
        /\ link' = [link EXCEPT ![s] = "open"]
     \/ /\ ~ setup.secio
        /\ link' = [link EXCEPT ![s] = "closing"]
        /\ UNCHANGED table
  /\ UNCHANGED <<sent, secio_enabled, added, timeouts, panicked>>

PingDisconnected(s) ==
  /\ table' = Without(s)
  /\ UNCHANGED <<sent, secio_enabled, added, timeouts, panicked>>

PingReceived(s, m) ==
  /\ \/ m = None /\ UNCHANGED <<sent, table, link>>     \* Callback::unexpected_error
     \/ /\ m # None /\ m[1].kind = "ping"
        /\ Send({s}, Pong(m[1].nonce))
        /\ UNCHANGED <<table, link>>
     \/ /\ m # None /\ m[1].kind = "pong"
        /\ IF s \in DOMAIN table /\ table[s].processing /\ table[s].nonce = m[1].nonce
           THEN table' = [table EXCEPT ![s].processing = FALSE] /\ UNCHANGED link
           ELSE Disconnect({s}) /\ UNCHANGED table
        /\ UNCHANGED sent
  /\ UNCHANGED <<secio_enabled, added, timeouts, panicked>>

PingNotify(token) ==
  /\ \/ /\ token = "send"
        /\ LET peers == {s \in DOMAIN table : ~ table[s].processing}
           IN /\ table' = [s \in DOMAIN table |->
                             IF s \in peers
                             THEN [table[s] EXCEPT !.last_ping = now, !.nonce = nonce(now)]
                             ELSE table[s]]
              /\ Send(peers, Ping(nonce(now)))
        /\ UNCHANGED timeouts
     \/ /\ token = "check"
        /\ timeouts' = timeouts \cup {s \in DOMAIN table :
                         table[s].processing /\ now - table[s].last_ping >= setup.timeout}
        /\ UNCHANGED <<table, sent>>
  /\ UNCHANGED <<link, secio_enabled, added, panicked>>

=============================================================================
