---------------------------- MODULE YamuxKeepalive ----------------------------
(***************************************************************************)
(* The keepalive of a yamux session (yamux/src/session.rs): the pings it   *)
(* sends at every turn of its interval, the map of pings that were not     *)
(* answered, and the timeout.  The peer is another session of this code,   *)
(* which answers each ping (handle_ping) until it hangs.                   *)
(*                                                                         *)
(* Time is kept as ages, so it needs no bound: the age of every ping and   *)
(* the time since the interval last fired.                                 *)
(***************************************************************************)
EXTENDS Integers, Sequences, FiniteSets

CONSTANTS
  KeepaliveInterval,  \* config.keepalive_interval
  Timeout,            \* TIMEOUT
  MaxPing,            \* the largest u32: ping ids wrap after it
  MaxLate,            \* how late the session's task may be polled
  RoundTrip           \* a peer that works answers within that time

ASSUME TimesAssumption ==
  /\ KeepaliveInterval \in Nat \ {0}
  /\ Timeout \in Nat /\ MaxPing \in Nat \ {0} /\ MaxLate \in Nat /\ RoundTrip \in Nat
  \* a peer that works answers before keep_alive gives it up
  /\ RoundTrip <= Timeout
  \* ids do not come round while their namesakes are still outstanding
  /\ (Timeout \div KeepaliveInterval) + 2 < MaxPing

VARIABLES
  ping_id,
  pings,      \* id -> age of the pings without an answer
  elapsed,    \* time since the interval last fired
  trip,       \* pings and answers of a working peer on the connection, oldest first
  hung,       \* the peer does not answer any more
  timed_out   \* keep_alive has returned TimedOut: the session is over

vars == <<ping_id, pings, elapsed, trip, hung, timed_out>>

Ids == 0 .. MaxPing

Init ==
  /\ ping_id = 0
  /\ pings = <<>>
  /\ elapsed = 0
  /\ trip = <<>>
  /\ hung = FALSE
  /\ timed_out = FALSE

\* BTreeMap::split_off: the entries from id on stay.
SplitOff(f, id) == [i \in {j \in DOMAIN f : j >= id} |-> f[i]]

\* Mutant: the ping that was answered stays in the map.
WithoutNothing(f, id) == f

\* BTreeMap::remove
Without(f, id) == [i \in DOMAIN f \ {id} |-> f[i]]

\* Mutant: every ping so far is forgotten when another is sent.
RecordPingOnly(id) == [i \in {id} |-> 0]

\* pings.insert(ping_id, ping_at)
RecordPing(id) == [i \in DOMAIN pings \cup {id} |-> IF i = id THEN 0 ELSE pings[i]]

\* ping_at - time > TIMEOUT
Overdue(age) == age > Timeout

\* ping_id.overflowing_add(1)
NextPing == (ping_id + 1) % (MaxPing + 1)

\* poll_next finds the interval ready: keep_alive, and send_ping(None) unless some
\* ping has been without an answer for too long.
KeepAlive ==
  /\ ~timed_out /\ elapsed >= KeepaliveInterval
  /\ elapsed' = elapsed - KeepaliveInterval
  /\ IF \E i \in DOMAIN pings : Overdue(pings[i])
     THEN /\ timed_out' = TRUE
          /\ UNCHANGED <<ping_id, pings, trip>>
     ELSE /\ ping_id' = NextPing
          /\ pings' = RecordPing(NextPing)
          /\ trip' = IF hung THEN trip
                     ELSE Append(trip, [id |-> NextPing, age |-> 0, ack |-> FALSE])
          /\ UNCHANGED timed_out
  /\ UNCHANGED hung

\* The peer's handle_ping(Syn): send_ping(Some(id)), in the order of arrival.
Answer ==
  \E k \in 1 .. Len(trip) :
    /\ ~hung /\ ~trip[k].ack
    /\ \A j \in 1 .. k - 1 : trip[j].ack
    /\ trip' = [trip EXCEPT ![k].ack = TRUE]
    /\ UNCHANGED <<ping_id, pings, elapsed, hung, timed_out>>

\* handle_ping(Ack): the ping and all below it are settled.
HandleAck ==
  /\ ~timed_out /\ trip # <<>> /\ Head(trip).ack
  /\ pings' = SplitOff(Without(pings, Head(trip).id), Head(trip).id)
  /\ trip' = Tail(trip)
  /\ UNCHANGED <<ping_id, elapsed, hung, timed_out>>

\* The peer stops; what it has not answered it never will (it answers in order, so
\* that is what follows its first k answers).
Hang ==
  /\ ~hung /\ hung' = TRUE
  /\ \E k \in 0 .. Len(trip) :
       /\ \A j \in 1 .. Len(trip) : trip[j].ack <=> j <= k
       /\ trip' = SubSeq(trip, 1, k)
  /\ UNCHANGED <<ping_id, pings, elapsed, timed_out>>

\* Time passes, unless the task is overdue or the answer of a working peer is.
Tick ==
  /\ ~timed_out
  /\ elapsed < KeepaliveInterval + MaxLate
  /\ \A k \in 1 .. Len(trip) : trip[k].age < RoundTrip
  /\ elapsed' = elapsed + 1
  /\ pings' = [i \in DOMAIN pings |-> pings[i] + 1]
  /\ trip' = [k \in 1 .. Len(trip) |-> [trip[k] EXCEPT !.age = @ + 1]]
  /\ UNCHANGED <<ping_id, hung, timed_out>>

Next == KeepAlive \/ Answer \/ HandleAck \/ Hang \/ Tick

Spec == Init /\ [][Next]_vars

\* The runtime polls the session when its interval fires or a frame comes, a peer
\* that works answers, and time passes.
Fairness == WF_vars(KeepAlive) /\ WF_vars(Answer) /\ WF_vars(HandleAck) /\ WF_vars(Tick)
FairSpec == Spec /\ Fairness

(***************************************************************************)
(* Properties                                                              *)
(***************************************************************************)
\* A ping, or its answer, on the connection.
Trip == [id : Ids, age : Nat, ack : BOOLEAN]

TypeOK ==
  /\ ping_id \in Ids
  /\ DOMAIN pings \subseteq Ids
  /\ \A i \in DOMAIN pings : pings[i] \in Nat
  /\ elapsed \in Nat
  /\ trip \in Seq(Trip)
  /\ hung \in BOOLEAN /\ timed_out \in BOOLEAN

\* A peer whose answers are handled in time is never declared dead: no entry of
\* pings outlives its answer, although several are outstanding, the ids wrap and
\* the task is polled late.  And every variable keeps its type.
NoFalseTimeout == TypeOK /\ (timed_out => hung)

\* A peer that has stopped answering is noticed.
HangIsNoticed == hung ~> timed_out

=============================================================================
