------------------------ MODULE YamuxKeepaliveProofs ------------------------
(***************************************************************************)
(* NoFalseTimeout for every interval, timeout, round trip and width of the *)
(* ping ids.  The invariant ties each entry of pings to a ping or an       *)
(* answer that is still on the connection and just as old: while the peer  *)
(* works, none of those is older than the round trip.                      *)
(***************************************************************************)
EXTENDS YamuxKeepalive, SequenceTheorems, TLAPS

\* What is on the connection is never older than the round trip.
TripsAreYoung == \A k \in 1 .. Len(trip) : trip[k].age <= RoundTrip

\* While the peer works, a ping without an answer is still on its way, or its
\* answer is, and it is as old as pings says.
PingsAreUnderWay ==
  ~hung => \A i \in DOMAIN pings :
             \E k \in 1 .. Len(trip) : trip[k].id = i /\ trip[k].age = pings[i]

\* The inductive invariant.
KeepaliveInvariant ==
  /\ TypeOK
  /\ timed_out => hung
  /\ TripsAreYoung
  /\ PingsAreUnderWay

\* The part of TimesAssumption that the proofs use.
LEMMA Times ==
  /\ KeepaliveInterval \in Nat \ {0} /\ Timeout \in Nat /\ RoundTrip \in Nat
  /\ MaxPing \in Nat \ {0} /\ RoundTrip <= Timeout
BY TimesAssumption

\* keep_alive gives a peer up only for a ping older than the timeout, which a
\* working peer has answered by then.
LEMMA KeepAliveStep ==
  ASSUME KeepaliveInvariant, KeepAlive
  PROVE  KeepaliveInvariant'
<1> USE DEF KeepaliveInvariant
<1>1. CASE \E i \in DOMAIN pings : Overdue(pings[i])
  <2>1. hung
    BY <1>1, Times DEF Overdue, PingsAreUnderWay, TripsAreYoung, TypeOK
  <2>2. /\ timed_out' = TRUE /\ hung' = hung /\ elapsed' = elapsed - KeepaliveInterval
        /\ elapsed >= KeepaliveInterval
        /\ ping_id' = ping_id /\ pings' = pings /\ trip' = trip
    BY <1>1 DEF KeepAlive
  <2>3. TypeOK'
    BY <2>2, Times DEF TypeOK
  <2> QED
    BY <2>1, <2>2, <2>3 DEF TripsAreYoung, PingsAreUnderWay
<1>2. CASE ~ \E i \in DOMAIN pings : Overdue(pings[i])
  <2>1. NextPing \in Ids
    BY Times DEF NextPing, Ids, TypeOK
  <2>2. /\ ping_id' = NextPing /\ pings' = RecordPing(NextPing)
        /\ hung' = hung /\ timed_out' = timed_out
        /\ elapsed' = elapsed - KeepaliveInterval /\ elapsed >= KeepaliveInterval
        /\ trip' = IF hung THEN trip
                   ELSE Append(trip, [id |-> NextPing, age |-> 0, ack |-> FALSE])
    BY <1>2 DEF KeepAlive
  <2>3. /\ DOMAIN pings' = DOMAIN pings \cup {NextPing}
        /\ \A i \in DOMAIN pings' : pings'[i] = IF i = NextPing THEN 0 ELSE pings[i]
    BY <2>2 DEF RecordPing
  <2> DEFINE sent == [id |-> NextPing, age |-> 0, ack |-> FALSE]
  <2>4. sent \in Trip
    BY <2>1 DEF Trip
  <2>5. trip \in Seq(Trip)
    BY DEF TypeOK
  <2>6. /\ Append(trip, sent) \in Seq(Trip)
        /\ Len(Append(trip, sent)) = Len(trip) + 1
        /\ \A k \in 1 .. Len(trip) : Append(trip, sent)[k] = trip[k]
        /\ Append(trip, sent)[Len(trip) + 1] = sent
        /\ Len(trip) \in Nat
    BY <2>4, <2>5, AppendProperties, LenProperties
  <2>7. TypeOK'
    BY <2>1, <2>2, <2>3, <2>5, <2>6, Times DEF TypeOK
  <2>8. TripsAreYoung'
    BY <2>2, <2>6, Times DEF TripsAreYoung
  <2>9. PingsAreUnderWay'
    <3> SUFFICES ASSUME ~hung, NEW i \in DOMAIN pings'
                 PROVE  \E k \in 1 .. Len(trip') :
                          trip'[k].id = i /\ trip'[k].age = pings'[i]
      BY <2>2 DEF PingsAreUnderWay
    <3>1. CASE i = NextPing
      BY <2>2, <2>3, <2>6, <3>1
    <3>2. CASE i # NextPing
      BY <2>2, <2>3, <2>6, <3>2 DEF PingsAreUnderWay
    <3> QED  BY <3>1, <3>2
  <2> QED  BY <2>2, <2>7, <2>8, <2>9
<1> QED  BY <1>1, <1>2

\* An answer takes the place of its ping.
LEMMA AnswerStep ==
  ASSUME KeepaliveInvariant, Answer
  PROVE  KeepaliveInvariant'
<1> USE DEF KeepaliveInvariant
<1>1. PICK k \in 1 .. Len(trip) : trip' = [trip EXCEPT ![k].ack = TRUE]
  BY ZenonT(30) DEF Answer
<1>2. trip \in Seq(Trip)
  BY DEF TypeOK
<1>3. trip[k] \in Trip /\ [trip[k] EXCEPT !.ack = TRUE] \in Trip
  <2>1. trip[k] \in Trip
    BY <1>2, ElementOfSeq
  <2> QED
    BY ZenonT(30), <2>1 DEF Trip
<1>4. /\ trip' \in Seq(Trip) /\ Len(trip') = Len(trip)
      /\ \A j \in 1 .. Len(trip) : trip'[j].id = trip[j].id /\ trip'[j].age = trip[j].age
  BY <1>1, <1>2, <1>3, ExceptSeq DEF Trip
<1> QED
  BY <1>4 DEF Answer, TypeOK, TripsAreYoung, PingsAreUnderWay

\* An answer settles its ping, and with it only pings that are in the map no more.
LEMMA HandleAckStep ==
  ASSUME KeepaliveInvariant, HandleAck
  PROVE  KeepaliveInvariant'
<1> USE DEF KeepaliveInvariant
<1> DEFINE id == Head(trip).id
<1>1. trip \in Seq(Trip) /\ trip # <<>>
  BY DEF TypeOK, HandleAck
<1>2. /\ Tail(trip) \in Seq(Trip) /\ Head(trip) = trip[1] /\ Head(trip) \in Trip
      /\ Len(Tail(trip)) = Len(trip) - 1 /\ Len(trip) \in Nat
      /\ \A k \in 1 .. Len(Tail(trip)) : Tail(trip)[k] = trip[k + 1]
  BY <1>1, HeadTailProperties, LenProperties
<1>3. /\ DOMAIN pings' \subseteq DOMAIN pings \ {id}
      /\ \A i \in DOMAIN pings' : pings'[i] = pings[i]
  BY DEF HandleAck, SplitOff, Without
<1>4. TypeOK'
  BY <1>2, <1>3 DEF HandleAck, TypeOK
<1>5. TripsAreYoung'
  BY <1>2 DEF HandleAck, TripsAreYoung
<1>6. PingsAreUnderWay'
  <2> SUFFICES ASSUME ~hung, NEW i \in DOMAIN pings'
               PROVE  \E k \in 1 .. Len(trip') :
                        trip'[k].id = i /\ trip'[k].age = pings'[i]
    BY DEF PingsAreUnderWay, HandleAck
  <2>1. PICK k \in 1 .. Len(trip) : trip[k].id = i /\ trip[k].age = pings[i]
    BY <1>3 DEF PingsAreUnderWay
  <2>2. k # 1
    BY <1>2, <1>3, <2>1
  <2>3. k - 1 \in 1 .. Len(Tail(trip)) /\ Tail(trip)[k - 1] = trip[k]
    BY <1>2, <2>2
  <2> QED
    BY <1>3, <2>1, <2>3 DEF HandleAck
<1> QED
  BY <1>4, <1>5, <1>6 DEF HandleAck

\* A peer that stops owes nothing any more; its answers stay as old as they are.
LEMMA HangStep ==
  ASSUME KeepaliveInvariant, Hang
  PROVE  KeepaliveInvariant'
<1> USE DEF KeepaliveInvariant
<1>1. PICK k \in 0 .. Len(trip) : trip' = SubSeq(trip, 1, k)
  BY DEF Hang
<1>2. trip \in Seq(Trip) /\ Len(trip) \in Nat
  BY LenProperties DEF TypeOK
<1>3. /\ trip' \in Seq(Trip) /\ Len(trip') = k
      /\ \A j \in 1 .. k : trip'[j] = trip[j]
  BY <1>1, <1>2, SubSeqProperties, ElementOfSeq
<1> QED
  BY <1>2, <1>3, Times DEF Hang, TypeOK, TripsAreYoung, PingsAreUnderWay

\* Time passes for a ping and for what is on the connection alike.
LEMMA TickStep ==
  ASSUME KeepaliveInvariant, Tick
  PROVE  KeepaliveInvariant'
<1> USE DEF KeepaliveInvariant
<1>1. trip \in Seq(Trip) /\ Len(trip) \in Nat
  BY LenProperties DEF TypeOK
<1>2. \A k \in 1 .. Len(trip) :
        trip[k] \in Trip /\ [trip[k] EXCEPT !.age = @ + 1] \in Trip
  <2>1. \A k \in 1 .. Len(trip) : trip[k] \in Trip
    BY <1>1, ElementOfSeq
  <2> QED
    BY <2>1 DEF Trip
<1>3. trip' \in Seq(Trip) /\ Len(trip') = Len(trip)
  BY <1>1, <1>2 DEF Tick
<1>4. \A k \in 1 .. Len(trip) :
        trip'[k].id = trip[k].id /\ trip'[k].age = trip[k].age + 1
  BY SMTT(30), <1>2 DEF Tick, Trip
<1>5. /\ DOMAIN pings' = DOMAIN pings
      /\ \A i \in DOMAIN pings : pings'[i] = pings[i] + 1
  BY DEF Tick
<1>6. TypeOK'
  BY <1>3, <1>5 DEF Tick, TypeOK
<1>7. TripsAreYoung'
  BY SMTT(30), <1>1, <1>2, <1>3, <1>4, Times DEF Tick, TripsAreYoung, Trip
<1>8. PingsAreUnderWay'
  <2> SUFFICES ASSUME ~hung, NEW i \in DOMAIN pings
               PROVE  \E k \in 1 .. Len(trip) :
                        trip'[k].id = i /\ trip'[k].age = pings'[i]
    BY <1>3, <1>5 DEF PingsAreUnderWay, Tick
  <2>1. PICK k \in 1 .. Len(trip) : trip[k].id = i /\ trip[k].age = pings[i]
    BY DEF PingsAreUnderWay
  <2> QED
    BY <1>4, <1>5, <2>1
<1> QED
  BY <1>6, <1>7, <1>8 DEF Tick

\* A session starts with no ping.
LEMMA InitKeepalive == Init => KeepaliveInvariant
<1> SUFFICES ASSUME Init PROVE KeepaliveInvariant
  OBVIOUS
<1>1. DOMAIN pings = {} /\ Len(trip) = 0 /\ trip \in Seq(Trip)
  BY EmptySeq DEF Init
<1>2. TypeOK
  <2>1. hung \in BOOLEAN /\ timed_out \in BOOLEAN
    BY ZenonT(30) DEF Init
  <2>2. ping_id \in Ids /\ elapsed \in Nat
    BY Times DEF Init, Ids
  <2> QED
    BY <1>1, <2>1, <2>2 DEF TypeOK
<1> QED
  BY <1>1, <1>2 DEF Init, KeepaliveInvariant, TripsAreYoung, PingsAreUnderWay

\* Every step keeps the invariant.
LEMMA NextKeepalive == KeepaliveInvariant /\ [Next]_vars => KeepaliveInvariant'
<1> SUFFICES ASSUME KeepaliveInvariant, [Next]_vars
             PROVE  KeepaliveInvariant'
  OBVIOUS
<1>1. CASE UNCHANGED vars
  BY <1>1 DEF vars, KeepaliveInvariant, TypeOK, TripsAreYoung, PingsAreUnderWay
<1> QED
  BY <1>1, KeepAliveStep, AnswerStep, HandleAckStep, HangStep, TickStep DEF Next

\* keep_alive never ends the session of a peer that answers within the timeout,
\* whatever the interval, the lateness of the polls and the width of the ping ids.
THEOREM NoFalseTimeoutHolds == Spec => []NoFalseTimeout
<1>1. KeepaliveInvariant => NoFalseTimeout
  BY DEF KeepaliveInvariant, NoFalseTimeout
<1> QED
  BY InitKeepalive, NextKeepalive, <1>1, PTL DEF Spec

=============================================================================
