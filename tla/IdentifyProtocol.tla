--------------------------- MODULE IdentifyProtocol ---------------------------
\* IdentifyProtocol of protocols/identify/src/lib.rs.
EXTENDS ProtocolNode

IdentifyTimers == [check |-> 1]

DEFAULT_TIMEOUT == setup.timeout

RemoteInfo == [connected_at |-> now, has_received |-> FALSE]

\* An address with a socket address in it, which the internet can reach if it has to
Usable(a) ==
  LET socket == multiaddr_to_socketaddr(a)
  IN socket # None /\ (setup.global_ip_only => is_reachable(socket[1].ip))

\* Mutant: an unencrypted connection does not turn the protocol off.
IdentifyConnectedOn(s) ==
  /\ \/ /\ ~ setup.secio
        /\ link' = [link EXCEPT ![s] = "closing"]
        /\ UNCHANGED secio_enabled
        /\ UNCHANGED <<sent, table>>
     \/ /\ setup.secio
        /\ link' = [link EXCEPT ![s] = "open"]
        /\ table' = With(s, RemoteInfo)
        /\ LET listens == SelectSeq(setup.listens, Usable)
               observed == SelectSeq(iter(setup.peers[s].address), LAMBDA c : c.p # "p2p")
           IN Send({s}, Identify(SubSeq(listens, 1, Min({MAX_LISTENS, Len(listens)})),
                                 from_iter(observed), setup.identify))
        /\ UNCHANGED secio_enabled
  /\ UNCHANGED <<added, timeouts, panicked>>

IdentifyConnected(s) ==
  /\ \/ /\ ~ setup.secio
        /\ link' = [link EXCEPT ![s] = "closing"]
        /\ secio_enabled' = FALSE
        /\ UNCHANGED <<sent, table>>
     \/ /\ setup.secio
        /\ link' = [link EXCEPT ![s] = "open"]
        /\ table' = With(s, RemoteInfo)
        /\ LET listens == SelectSeq(setup.listens, Usable)
               observed == SelectSeq(iter(setup.peers[s].address), LAMBDA c : c.p # "p2p")
           IN Send({s}, Identify(SubSeq(listens, 1, Min({MAX_LISTENS, Len(listens)})),
                                 from_iter(observed), setup.identify))
        /\ UNCHANGED secio_enabled
  /\ UNCHANGED <<added, timeouts, panicked>>

IdentifyDisconnected(s) ==
  /\ table' = IF secio_enabled THEN Without(s) ELSE table
  /\ panicked' = (secio_enabled /\ s \notin DOMAIN table)
  /\ UNCHANGED <<sent, secio_enabled, added, timeouts>>

\* What a decoded message does.  The callbacks are asked in this order, and the first one
\* that answers Disconnect is the last one: duplicate is asked of a second message,
\* listens of one with too many addresses, observed of one with a usable address.
Process(s, m) ==
  LET info == table[s]
      many == Len(m.listen_addrs) > MAX_LISTENS
  IN \E duplicate \in IF info.has_received THEN setup.answers ELSE {FALSE},
        identify \in setup.judges,
        listens \in IF many THEN setup.answers ELSE {FALSE},
        observed \in IF Usable(m.observed_addr) THEN setup.judges ELSE {FALSE} :
       /\ table' = [table EXCEPT ![s].has_received = TRUE]
       /\ added' = IF duplicate \/ identify \/ many THEN added
                   ELSE Append(added, [from |-> s, addrs |-> SelectSeq(m.listen_addrs, Usable)])
       /\ Disconnect(IF duplicate \/ identify \/ listens \/ observed THEN {s} ELSE {})

IdentifyReceived(s, m) ==
  /\ IF secio_enabled /\ s \in DOMAIN table
     THEN \/ m # None /\ Process(s, m[1])
          \/ /\ m = None
             /\ \E invalid \in setup.answers : Disconnect(IF invalid THEN {s} ELSE {})
             /\ UNCHANGED <<table, added>>
     ELSE UNCHANGED <<link, table, added>>
  /\ panicked' = (secio_enabled /\ s \notin DOMAIN table)    \* RemoteInfo must exists
  /\ UNCHANGED <<sent, secio_enabled, timeouts>>

IdentifyNotify ==
  LET late == {s \in DOMAIN table :
                 /\ secio_enabled
                 /\ table[s].has_received /\ table[s].connected_at + DEFAULT_TIMEOUT <= now}
  IN /\ \E answer \in [late -> setup.answers] : Disconnect({s \in late : answer[s]})
     /\ UNCHANGED <<sent, table, secio_enabled, added, timeouts, panicked>>

=============================================================================
