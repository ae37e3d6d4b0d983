------------------------- MODULE YamuxSessionPipes --------------------------
(***************************************************************************)
(* The inductive invariant of YamuxSession.  Everything under way towards  *)
(* an end, from the buffer of its session back to the handles of the other *)
(* end, is read as one sequence, its Pipe.  The facts here are about that  *)
(* sequence: what it says of a stream when an item joins it at the end, is *)
(* taken out of it, or when a part of it is lost.  Then the steps that     *)
(* only move frames on, from one part of a pipe to the next.               *)
(***************************************************************************)
EXTENDS YamuxSession, SequenceTheorems, TLAPS

\* An item of a queue of the session: a frame, or a handle's request to be forgotten.
Item == [ty : Kinds \cup {"closed"}, id : 0 .. MaxId, n : Nat]

(***************************************************************************)
(* What a sequence of items says of stream id                              *)
(***************************************************************************)
Is(x, ty, id) == x.ty = ty /\ x.id = id

\* No GoAway stands among the first j items: what follows one is never looked at.
Clear(P, j) == \A k \in 1 .. j : P[k].ty # "go_away"

\* The Syn of stream id is under way.
SynIn(P, id) == \E j \in 1 .. Len(P) : Clear(P, j) /\ Is(P[j], "syn", id)

\* The Syn of a stream comes once, and before its data.
SynFirst(P, id) ==
  \A j \in 1 .. Len(P) : Clear(P, j) /\ Is(P[j], "syn", id) =>
    \A i \in 1 .. j - 1 : ~Is(P[i], "syn", id) /\ ~Is(P[i], "data", id)

\* The data of a stream goes on after the d-th frame without a gap, at most up to the m-th,
Numbered(P, id, d, m) ==
  \A j \in 1 .. Len(P) : Clear(P, j) /\ Is(P[j], "data", id) =>
    /\ d < P[j].n /\ P[j].n <= m
    /\ \A i \in 1 .. j - 1 : Is(P[i], "data", id) => P[i].n < P[j].n
    /\ \/ P[j].n = d + 1
       \/ \E i \in 1 .. j - 1 : Is(P[i], "data", id) /\ P[i].n = P[j].n - 1

\* and up to the m-th when no GoAway is under way.
Complete(P, id, d, m) ==
  Clear(P, Len(P)) =>
    \/ m = d
    \/ \E j \in 1 .. Len(P) : Is(P[j], "data", id) /\ P[j].n = m

(***************************************************************************)
(* The invariant                                                           *)
(***************************************************************************)
\* The session of e still reads and sends.
Alive(e) == up[e] /\ ~is_dead(e)

\* What the session of e may still put on the connection.
Out(e) == IF Alive(e) THEN write_pending_frames[e] \o events[e] ELSE <<>>

\* What is under way towards e, the oldest first.
Pipe(e) == (read_pending_frames[e] \o dist[e]) \o (wire[e] \o Out(Peer(e)))

\* Who opens the streams with this id; and the ids that were used already.
Owner(id) == IF id % 2 = 1 THEN "client" ELSE "server"
Known == {id \in Ids : id < next_stream_id[Owner(id)]}

StreamFrame == [ty : {"syn", "ack", "data", "rst"}, id : Known, n : Nat]
WireFrame == StreamFrame \cup {GoAwayFrame(Normal)}
Event == StreamFrame \cup {Closed(id) : id \in Known}

\* What the queues hold: no session says ProtocolError, and no handle GoAway.
Queues ==
  /\ read_pending_frames \in [Ends -> Seq(StreamFrame)]
  /\ dist \in [Ends -> Seq(StreamFrame)]
  /\ wire \in [Ends -> Seq(WireFrame)]
  /\ write_pending_frames \in [Ends -> Seq(WireFrame)]
  /\ events \in [Ends -> Seq(Event)]
  /\ \A e \in Ends : Len(wire[e]) <= WireCap

\* The ids no one has used yet are untouched, and an end's next id is its own.
Fresh ==
  /\ \A e \in Ends : Owner(next_stream_id[e]) = e
  /\ \A e \in Ends : \A id \in Ids \ Known :
       sent[e][id] = 0 /\ hold[e][id] = "none" /\ delivered[e][id] = <<>>

\* The streams of a session have handles, and its backlog holds each of its own once.
Backlog(q, h) ==
  \A i \in 1 .. Len(q) : h[q[i]] = "backlog" /\ \A j \in 1 .. i - 1 : q[j] # q[i]
BackedAt(e) ==
  /\ \A id \in streams[e] : hold[e][id] # "none"
  /\ Backlog(pending_streams[e], hold[e])
Backed == \A e \in Ends : BackedAt(e)

\* distribute_to_substream: only a live session is in it, what it has put back are frames
\* of blocked streams, and a Syn can only be the frame that was just received.
LoopAt(e) ==
  /\ \A i \in 1 .. Len(read_pending_frames[e]) : read_pending_frames[e][i].ty # "syn"
  /\ dist[e] # <<>> =>
       /\ Alive(e)
       /\ \A i \in 1 .. Len(read_pending_frames[e]) :
            read_pending_frames[e][i].id \in block_substream[e]
       /\ \A id \in block_substream[e] : hold[e][id] # "none"
       /\ \A i \in 1 .. Len(dist[e]) : dist[e][i].ty = "syn" => i = Len(dist[e])
Loop == \A e \in Ends : LoopAt(e)

\* e takes the frames of stream id, or will when the Syn arrives.
Open(e, id) ==
  (id \in streams[e] /\ hold[e][id] # "gone") \/ SynIn(Pipe(e), id)

\* What is under way to e on stream id.
Lane(e, id) ==
  /\ SynFirst(Pipe(e), id)
  /\ SynIn(Pipe(e), id) =>
       /\ Owner(id) = Peer(e) /\ hold[e][id] = "none" /\ delivered[e][id] = <<>>
  /\ Open(e, id) =>
       /\ Numbered(Pipe(e), id, Len(delivered[e][id]), sent[Peer(e)][id])
       /\ Alive(Peer(e)) =>
            Complete(Pipe(e), id, Len(delivered[e][id]), sent[Peer(e)][id])
Lanes == \A e \in Ends : Alive(e) => \A id \in Ids : Lane(e, id)

\* What was delivered are the first frames sent, in order.
InOrder == \A e \in Ends, id \in Ids :
  /\ delivered[e][id] = [i \in 1 .. Len(delivered[e][id]) |-> i]
  /\ Len(delivered[e][id]) <= sent[Peer(e)][id]

\* The variables that are not queues of frames.
Types ==
  /\ setup \in Setups
  /\ eof \in [Ends -> BOOLEAN]
  /\ remote_go_away \in [Ends -> BOOLEAN] /\ local_go_away \in [Ends -> BOOLEAN]
  /\ next_stream_id \in [Ends -> Nat \ {0}]
  /\ streams \in [Ends -> SUBSET Ids]
  /\ pending_streams \in [Ends -> Seq(Ids)]
  /\ block_substream \in [Ends -> SUBSET Ids]
  /\ chan \in [Ends -> [Ids -> Seq(Frames)]]
  /\ hold \in [Ends -> [Ids -> {"none", "backlog", "live", "gone"}]]
  /\ up \in [Ends -> BOOLEAN]
  /\ sent \in [Ends -> [Ids -> Nat]]
  /\ delivered \in [Ends -> [Ids -> Seq(Nat)]]

\* The inductive invariant.
SessionInvariant == Types /\ Queues /\ Fresh /\ Backed /\ Loop /\ Lanes /\ InOrder

(***************************************************************************)
(* One item more, or less                                                  *)
(***************************************************************************)
\* Q is P with x put in after the first m items.
Put(P, Q, m, x) ==
  /\ P \in Seq(Item) /\ Q \in Seq(Item) /\ m \in 0 .. Len(P)
  /\ Len(Q) = Len(P) + 1
  /\ \A i \in 1 .. m : Q[i] = P[i]
  /\ Q[m + 1] = x
  /\ \A i \in m + 1 .. Len(P) : Q[i + 1] = P[i]

\* The numbers of the items.
LEMMA Numbers ==
  ASSUME NEW P \in Seq(Item) PROVE \A j \in 1 .. Len(P) : P[j].n \in Nat
<1>1. \A j \in 1 .. Len(P) : P[j] \in Item
  BY Zenon, ElementOfSeq
<1> QED
  BY Zenon, <1>1 DEF Item

\* Where the j-th item of P stands in Q.
At(m, j) == IF j <= m THEN j ELSE j + 1

\* Where the items stand after one was put in.
LEMMA PutPlaces ==
  ASSUME NEW P, NEW Q, NEW m, NEW x, Put(P, Q, m, x)
  PROVE  /\ Len(P) \in Nat /\ m \in Nat /\ m <= Len(P) /\ Len(Q) = Len(P) + 1
         /\ \A j \in 1 .. Len(P) : At(m, j) \in 1 .. Len(Q) /\ Q[At(m, j)] = P[j]
         /\ \A j \in 1 .. Len(Q) : j # m + 1 => \E i \in 1 .. Len(P) : At(m, i) = j
         /\ \A i, j \in 1 .. Len(P) : i < j <=> At(m, i) < At(m, j)
         /\ \A j \in 1 .. Len(P) : At(m, j) # m + 1
<1>1. Len(P) \in Nat /\ m \in Nat /\ m <= Len(P) /\ Len(Q) = Len(P) + 1
  BY LenProperties DEF Put
<1>2. ASSUME NEW j \in 1 .. Len(P) PROVE At(m, j) \in 1 .. Len(Q) /\ Q[At(m, j)] = P[j]
  <2>1. CASE j <= m
    BY <1>1, <2>1 DEF Put, At
  <2>2. CASE ~(j <= m)
    BY <1>1, <2>2 DEF Put, At
  <2> QED
    BY Zenon, <2>1, <2>2
<1>3. ASSUME NEW j \in 1 .. Len(Q), j # m + 1 PROVE \E i \in 1 .. Len(P) : At(m, i) = j
  <2>1. CASE j <= m
    BY <1>1, <2>1 DEF At
  <2>2. CASE ~(j <= m)
    <3>1. j - 1 \in 1 .. Len(P) /\ At(m, j - 1) = j
      BY <1>1, <1>3, <2>2 DEF At
    <3> QED
      BY Zenon, <3>1
  <2> QED
    BY Zenon, <2>1, <2>2
<1>4. \A i, j \in 1 .. Len(P) : i < j <=> At(m, i) < At(m, j)
  BY <1>1 DEF At
<1>5. \A j \in 1 .. Len(P) : At(m, j) # m + 1
  BY <1>1 DEF At
<1> QED
  BY Zenon, <1>1, <1>2, <1>3, <1>4, <1>5

\* No GoAway before an item, with or without x.
LEMMA PutClear ==
  ASSUME NEW P, NEW Q, NEW m, NEW x, Put(P, Q, m, x), x.ty # "go_away"
  PROVE  /\ \A j \in 1 .. Len(P) : Clear(P, j) <=> Clear(Q, At(m, j))
         /\ Clear(P, m) <=> Clear(Q, m + 1)
         /\ Clear(P, Len(P)) <=> Clear(Q, Len(Q))
<1>1. /\ Len(P) \in Nat /\ m \in Nat /\ m <= Len(P) /\ Len(Q) = Len(P) + 1
      /\ \A i \in 1 .. m : Q[i] = P[i]
      /\ Q[m + 1] = x
      /\ \A i \in m + 1 .. Len(P) : Q[i + 1] = P[i]
  BY Zenon, PutPlaces DEF Put
<1>2. ASSUME NEW j \in 0 .. Len(P), NEW l \in 1 .. Len(Q),
             (j <= m /\ l = j) \/ (m <= j /\ l = j + 1)
      PROVE  Clear(P, j) <=> Clear(Q, l)
  <2>1. ASSUME Clear(P, j), NEW k \in 1 .. l PROVE Q[k].ty # "go_away"
    <3>1. CASE k <= m
      <4>1. k \in 1 .. j /\ Q[k] = P[k]
        BY <1>1, <1>2, <3>1
      <4> QED
        BY Zenon, <2>1, <4>1 DEF Clear
    <3>2. CASE k = m + 1
      BY Zenon, <1>1, <3>2
    <3>3. CASE k > m + 1
      <4>1. k - 1 \in 1 .. j /\ Q[k] = P[k - 1]
        BY <1>1, <1>2, <3>3
      <4> QED
        BY Zenon, <2>1, <4>1 DEF Clear
    <3> QED
      BY <1>1, <3>1, <3>2, <3>3
  <2>2. ASSUME Clear(Q, l), NEW k \in 1 .. j PROVE P[k].ty # "go_away"
    <3>1. CASE k <= m
      <4>1. k \in 1 .. l /\ Q[k] = P[k]
        BY <1>1, <1>2, <3>1
      <4> QED
        BY Zenon, <2>2, <4>1 DEF Clear
    <3>2. CASE k > m
      <4>1. k + 1 \in 1 .. l /\ Q[k + 1] = P[k]
        BY <1>1, <1>2, <3>2
      <4> QED
        BY Zenon, <2>2, <4>1 DEF Clear
    <3> QED
      BY <1>1, <3>1, <3>2
  <2> QED
    BY Zenon, <2>1, <2>2 DEF Clear
<1>3. ASSUME NEW j \in 1 .. Len(P) PROVE Clear(P, j) <=> Clear(Q, At(m, j))
  <2>1. CASE j <= m
    <3>1. j \in 0 .. Len(P) /\ At(m, j) \in 1 .. Len(Q) /\ At(m, j) = j
      BY <1>1, <2>1 DEF At
    <3> QED
      BY Zenon, <1>2, <2>1, <3>1
  <2>2. CASE ~(j <= m)
    <3>1. j \in 0 .. Len(P) /\ At(m, j) \in 1 .. Len(Q) /\ m <= j /\ At(m, j) = j + 1
      BY <1>1, <2>2 DEF At
    <3> QED
      BY Zenon, <1>2, <3>1
  <2> QED
    BY Zenon, <2>1, <2>2
<1>4. m \in 0 .. Len(P) /\ m + 1 \in 1 .. Len(Q) /\ m <= m
  BY <1>1
<1>5. Len(P) \in 0 .. Len(P) /\ Len(Q) \in 1 .. Len(Q) /\ m <= Len(P)
  BY <1>1
<1> QED
  BY Zenon, <1>1, <1>2, <1>3, <1>4, <1>5


\* Taking an item out makes no Syn appear, and leaves it first.
LEMMA PutSyn ==
  ASSUME NEW P, NEW Q, NEW m, NEW x, Put(P, Q, m, x), x.ty # "go_away", NEW id
  PROVE  /\ SynFirst(Q, id) => SynFirst(P, id)
         /\ SynIn(P, id) => SynIn(Q, id)
<1>1. ASSUME SynFirst(Q, id), NEW j \in 1 .. Len(P), Clear(P, j), Is(P[j], "syn", id),
             NEW i \in 1 .. j - 1
      PROVE  ~Is(P[i], "syn", id) /\ ~Is(P[i], "data", id)
  <2>1. i \in 1 .. Len(P) /\ i < j
    BY PutPlaces
  <2>2. /\ At(m, j) \in 1 .. Len(Q) /\ Q[At(m, j)] = P[j] /\ Clear(Q, At(m, j))
        /\ At(m, i) \in 1 .. Len(Q) /\ Q[At(m, i)] = P[i] /\ At(m, i) < At(m, j)
    BY <1>1, <2>1, PutPlaces, PutClear
  <2>3. At(m, i) \in 1 .. At(m, j) - 1
    BY <2>2, PutPlaces
  <2> QED
    BY Zenon, <1>1, <2>2, <2>3 DEF SynFirst
<1>2. ASSUME NEW j \in 1 .. Len(P), Clear(P, j), Is(P[j], "syn", id)
      PROVE  SynIn(Q, id)
  <2>1. At(m, j) \in 1 .. Len(Q) /\ Q[At(m, j)] = P[j] /\ Clear(Q, At(m, j))
    BY <1>2, PutPlaces, PutClear
  <2> QED
    BY Zenon, <1>2, <2>1 DEF SynIn
<1> QED
  BY Zenon, <1>1, <1>2 DEF SynFirst, SynIn

\* What is no Syn of the stream adds none; after all the others it does no harm.
LEMMA PutNoSyn ==
  ASSUME NEW P, NEW Q, NEW m, NEW x, Put(P, Q, m, x), x.ty # "go_away", NEW id,
         ~Is(x, "syn", id)
  PROVE  /\ SynIn(Q, id) => SynIn(P, id)
         /\ ~Is(x, "data", id) \/ m = Len(P) => (SynFirst(P, id) => SynFirst(Q, id))
<1>1. ASSUME NEW j \in 1 .. Len(Q), Clear(Q, j), Is(Q[j], "syn", id)
      PROVE  \E l \in 1 .. Len(P) : /\ At(m, l) = j /\ Clear(P, l) /\ Is(P[l], "syn", id)
  <2>1. j # m + 1
    BY Zenon, <1>1 DEF Put
  <2>2. PICK l \in 1 .. Len(P) : At(m, l) = j
    BY SMTT(30), <2>1, PutPlaces
  <2> QED
    BY <1>1, <2>2, PutPlaces, PutClear
<1>2. ASSUME ~Is(x, "data", id) \/ m = Len(P), SynFirst(P, id),
             NEW j \in 1 .. Len(Q), Clear(Q, j), Is(Q[j], "syn", id), NEW i \in 1 .. j - 1
      PROVE  ~Is(Q[i], "syn", id) /\ ~Is(Q[i], "data", id)
  <2>1. PICK l \in 1 .. Len(P) : /\ At(m, l) = j /\ Clear(P, l) /\ Is(P[l], "syn", id)
    BY Zenon, <1>1, <1>2
  <2>2. i \in 1 .. Len(Q) /\ i < j
    BY PutPlaces
  <2>3. CASE i = m + 1
    <3>1. ~(m = Len(P))
      BY <2>1, <2>2, <2>3, PutPlaces
    <3> QED
      BY Zenon, <1>2, <2>3, <3>1 DEF Put
  <2>4. CASE i # m + 1
    <3>1. PICK k \in 1 .. Len(P) : At(m, k) = i
      BY <2>2, <2>4, PutPlaces
    <3>2. k < l /\ Q[i] = P[k]
      BY SMTT(30), <2>1, <2>2, <3>1, PutPlaces
    <3>3. k \in 1 .. l - 1
      BY <3>2, PutPlaces
    <3> QED
      BY Zenon, <1>2, <2>1, <3>2, <3>3 DEF SynFirst
  <2> QED
    BY Zenon, <2>3, <2>4
<1> QED
  BY Zenon, <1>1, <1>2 DEF SynFirst, SynIn


\* The items before one of P, and where an item of Q is from.
LEMMA PutOrder ==
  ASSUME NEW P, NEW Q, NEW m, NEW x, Put(P, Q, m, x)
  PROVE  /\ \A j \in 1 .. Len(P), i \in 1 .. Len(P) : i \in 1 .. j - 1 =>
              At(m, i) \in 1 .. At(m, j) - 1
         /\ \A j \in 1 .. Len(P) : \A k \in 1 .. At(m, j) - 1 :
              k = m + 1 \/ \E i \in 1 .. j - 1 : Q[k] = P[i]
         /\ \A k \in 1 .. Len(Q) : k = m + 1 \/ \E i \in 1 .. Len(P) : At(m, i) = k
         /\ \A j \in 1 .. Len(P) : \A i \in 1 .. j - 1 : i \in 1 .. Len(P)
         /\ \A j \in 1 .. Len(Q) : \A i \in 1 .. j - 1 : i \in 1 .. Len(Q)
<1>1. \A j \in 1 .. Len(P), i \in 1 .. Len(P) : i \in 1 .. j - 1 =>
              At(m, i) \in 1 .. At(m, j) - 1
  BY PutPlaces
<1>2. ASSUME NEW j \in 1 .. Len(P), NEW k \in 1 .. At(m, j) - 1, k # m + 1
      PROVE  \E i \in 1 .. j - 1 : Q[k] = P[i]
  <2>1. k \in 1 .. Len(Q) /\ k < At(m, j)
    BY PutPlaces
  <2>2. PICK i \in 1 .. Len(P) : At(m, i) = k
    BY <1>2, <2>1, PutPlaces
  <2>3. i \in 1 .. j - 1 /\ Q[k] = P[i]
    BY <2>1, <2>2, PutPlaces
  <2> QED
    BY Zenon, <2>3
<1> QED
  BY <1>1, <1>2, PutPlaces

\* Nothing changes for the data of a stream when other items come or go.
LEMMA PutNoData ==
  ASSUME NEW P, NEW Q, NEW m, NEW x, Put(P, Q, m, x), x.ty # "go_away", NEW id,
         ~Is(x, "data", id), NEW d, NEW s
  PROVE  /\ Numbered(P, id, d, s) <=> Numbered(Q, id, d, s)
         /\ Complete(P, id, d, s) <=> Complete(Q, id, d, s)
<1> DEFINE T(S, j) == /\ d < S[j].n /\ S[j].n <= s
                      /\ \A i \in 1 .. j - 1 : Is(S[i], "data", id) => S[i].n < S[j].n
                      /\ \/ S[j].n = d + 1
                         \/ \E i \in 1 .. j - 1 : Is(S[i], "data", id) /\ S[i].n = S[j].n - 1
<1>1. ~Is(Q[m + 1], "data", id)
  BY Zenon DEF Put
<1>2. ASSUME NEW j \in 1 .. Len(P) PROVE T(P, j) <=> T(Q, At(m, j))
  <2>1. Q[At(m, j)] = P[j]
    BY PutPlaces
  <2>2. \A i \in 1 .. j - 1 : At(m, i) \in 1 .. At(m, j) - 1 /\ Q[At(m, i)] = P[i]
    BY PutPlaces, PutOrder
  <2>3. ASSUME NEW k \in 1 .. At(m, j) - 1, Is(Q[k], "data", id)
        PROVE  \E i \in 1 .. j - 1 : Q[k] = P[i]
    <3>1. k # m + 1
      BY Zenon, <1>1, <2>3
    <3> QED
      BY <3>1, PutOrder
  <2> HIDE DEF At, Is
  <2> QED
    BY SMTT(30), <2>1, <2>2, <2>3
<1>3. \A j \in 1 .. Len(P) : /\ At(m, j) \in 1 .. Len(Q) /\ Q[At(m, j)] = P[j]
                             /\ Clear(P, j) <=> Clear(Q, At(m, j))
  BY PutPlaces, PutClear
<1>4. \A k \in 1 .. Len(Q) : Is(Q[k], "data", id) => \E i \in 1 .. Len(P) : At(m, i) = k
  BY <1>1, PutOrder
<1>5. /\ Numbered(P, id, d, s) <=>
           \A j \in 1 .. Len(P) : Clear(P, j) /\ Is(P[j], "data", id) => T(P, j)
      /\ Numbered(Q, id, d, s) <=>
           \A j \in 1 .. Len(Q) : Clear(Q, j) /\ Is(Q[j], "data", id) => T(Q, j)
  BY Zenon DEF Numbered
<1> HIDE DEF T
<1>6. Numbered(P, id, d, s) <=> Numbered(Q, id, d, s)
  BY <1>2, <1>3, <1>4, <1>5
<1>7. Complete(P, id, d, s) <=> Complete(Q, id, d, s)
  BY <1>3, <1>4, PutClear DEF Complete
<1> QED
  BY Zenon, <1>6, <1>7

\* The first data frame of a stream is the next one; with it goes its number.
LEMMA TakeData ==
  ASSUME NEW P, NEW Q, NEW m, NEW x, Put(P, Q, m, x), NEW id, Is(x, "data", id),
         Clear(P, m), \A i \in 1 .. m : ~Is(P[i], "data", id),
         NEW d \in Nat, NEW s \in Nat, Numbered(Q, id, d, s)
  PROVE  /\ x.n = d + 1 /\ d + 1 <= s
         /\ Numbered(P, id, d + 1, s)
         /\ Complete(Q, id, d, s) => Complete(P, id, d + 1, s)
<1>1. /\ x.ty # "go_away" /\ Q[m + 1] = x /\ \A i \in 1 .. m : Q[i] = P[i]
      /\ Len(P) \in Nat /\ m \in Nat /\ m <= Len(P) /\ Len(Q) = Len(P) + 1
      /\ \A j \in 1 .. Len(P) : P[j].n \in Nat
      /\ \A j \in 1 .. Len(Q) : Q[j].n \in Nat
  <2>1. P \in Seq(Item) /\ Q \in Seq(Item)
    BY Zenon DEF Put
  <2>2. x.ty # "go_away" /\ Q[m + 1] = x /\ \A i \in 1 .. m : Q[i] = P[i]
    BY Zenon DEF Put, Is
  <2> QED
    BY Zenon, <2>1, <2>2, PutPlaces, Numbers
<1>2. Clear(Q, m + 1) /\ m + 1 \in 1 .. Len(Q) /\ m + 1 - 1 = m
  BY <1>1, PutClear
<1>3. /\ d < x.n /\ x.n <= s
      /\ x.n = d + 1 \/ \E i \in 1 .. m : Is(Q[i], "data", id)
  <2>1. Is(Q[m + 1], "data", id)
    BY Zenon, <1>1
  <2>2. ASSUME NEW k, k = m + 1
        PROVE  /\ d < Q[k].n /\ Q[k].n <= s
               /\ Q[k].n = d + 1 \/ \E i \in 1 .. m : Is(Q[i], "data", id)
    <3>1. k \in 1 .. Len(Q) /\ Clear(Q, k) /\ Is(Q[k], "data", id) /\ k - 1 = m
      <4>1. k - 1 = m
        BY <1>1, <2>2
      <4> QED
        BY Zenon, <1>2, <2>1, <2>2, <4>1
    <3>2. /\ d < Q[k].n /\ Q[k].n <= s
          /\ Q[k].n = d + 1 \/ \E i \in 1 .. k - 1 : Is(Q[i], "data", id)
      BY Zenon, <3>1 DEF Numbered
    <3> QED
      BY Zenon, <3>1, <3>2
  <2> QED
    BY Zenon, <1>1, <2>2
<1>4. x.n = d + 1 /\ d + 1 <= s /\ x.n \in Nat /\ ~(s = d)
  BY <1>1, <1>2, <1>3
<1>5. ASSUME NEW j \in 1 .. Len(P), Clear(P, j), Is(P[j], "data", id)
      PROVE  /\ d + 1 < P[j].n /\ P[j].n <= s
             /\ \A i \in 1 .. j - 1 : Is(P[i], "data", id) => P[i].n < P[j].n
             /\ \/ P[j].n = d + 1 + 1
                \/ \E i \in 1 .. j - 1 : Is(P[i], "data", id) /\ P[i].n = P[j].n - 1
  <2> DEFINE l == At(m, j)
  <2>1. l \in 1 .. Len(Q) /\ Q[l] = P[j] /\ Clear(Q, l)
    BY <1>1, <1>5, PutPlaces, PutClear
  <2>2. m + 1 \in 1 .. l - 1
    BY <1>1, <1>5 DEF At
  <2> HIDE DEF l
  <2>3. /\ P[j].n <= s
        /\ \A i \in 1 .. l - 1 : Is(Q[i], "data", id) => Q[i].n < P[j].n
        /\ \/ P[j].n = d + 1
           \/ \E i \in 1 .. l - 1 : Is(Q[i], "data", id) /\ Q[i].n = P[j].n - 1
    BY Zenon, <1>5, <2>1 DEF Numbered
  <2>4. d + 1 < P[j].n
    BY Zenon, <1>1, <1>4, <2>2, <2>3
  <2>5. \A i \in 1 .. j - 1 : Is(P[i], "data", id) => P[i].n < P[j].n
    <3>1. ASSUME NEW i \in 1 .. j - 1 PROVE At(m, i) \in 1 .. l - 1 /\ Q[At(m, i)] = P[i]
      <4>1. i \in 1 .. Len(P)
        BY Zenon, PutOrder
      <4> QED
        BY <4>1, PutPlaces, PutOrder DEF l
    <3> QED
      BY Zenon, <2>3, <3>1
  <2>6. \/ P[j].n = d + 1 + 1
        \/ \E i \in 1 .. j - 1 : Is(P[i], "data", id) /\ P[i].n = P[j].n - 1
    <3>1. PICK i \in 1 .. l - 1 : Is(Q[i], "data", id) /\ Q[i].n = P[j].n - 1
      BY <1>1, <1>4, <2>3, <2>4
    <3>2. CASE i = m + 1
      BY SMTT(30), <1>1, <1>4, <3>1, <3>2
    <3>3. CASE i # m + 1
      <4>1. PICK k \in 1 .. j - 1 : Q[i] = P[k]
        BY <3>3, PutOrder DEF l
      <4> QED
        BY Zenon, <3>1, <4>1
    <3> QED
      BY Zenon, <3>2, <3>3
  <2> QED
    BY Zenon, <2>3, <2>4, <2>5, <2>6
<1>6. ASSUME Complete(Q, id, d, s), Clear(P, Len(P)), s # d + 1
      PROVE  \E j \in 1 .. Len(P) : Is(P[j], "data", id) /\ P[j].n = s
  <2>1. PICK j \in 1 .. Len(Q) : Is(Q[j], "data", id) /\ Q[j].n = s
    BY <1>1, <1>4, <1>6, PutClear DEF Complete
  <2>2. j # m + 1
    BY Zenon, <1>1, <1>4, <1>6, <2>1
  <2>3. PICK i \in 1 .. Len(P) : At(m, i) = j
    BY <2>2, PutOrder
  <2>4. Q[j] = P[i]
    BY <2>3, PutPlaces
  <2> QED
    BY Zenon, <2>1, <2>4
<1> QED
  BY Zenon, <1>4, <1>5, <1>6 DEF Numbered, Complete


\* After its first Syn or data frame no Syn of a stream follows.
LEMMA TakeSyn ==
  ASSUME NEW P, NEW Q, NEW m, NEW x, Put(P, Q, m, x), NEW id,
         Is(x, "data", id) \/ Is(x, "syn", id),
         Clear(P, m), \A i \in 1 .. m : ~Is(P[i], "syn", id), SynFirst(Q, id)
  PROVE  ~SynIn(P, id)
<1>1. x.ty # "go_away" /\ Q[m + 1] = x /\ m \in Nat
  BY Zenon, PutPlaces DEF Put, Is
<1> SUFFICES ASSUME NEW j \in 1 .. Len(P), Clear(P, j), Is(P[j], "syn", id) PROVE FALSE
  BY Zenon DEF SynIn
<1>2. At(m, j) \in 1 .. Len(Q) /\ Q[At(m, j)] = P[j] /\ Clear(Q, At(m, j))
  BY <1>1, PutPlaces, PutClear
<1>3. m + 1 \in 1 .. At(m, j) - 1
  BY <1>1 DEF At
<1> QED
  BY Zenon, <1>1, <1>2, <1>3 DEF SynFirst

\* The next data frame joins at the end.
LEMMA AppendData ==
  ASSUME NEW P, NEW Q, NEW x, Put(P, Q, Len(P), x), NEW id, Is(x, "data", id),
         NEW d \in Nat, NEW s \in Nat, d <= s, x.n = s + 1,
         Numbered(P, id, d, s), Complete(P, id, d, s)
  PROVE  Numbered(Q, id, d, s + 1) /\ Complete(Q, id, d, s + 1)
<1>1. /\ x.ty # "go_away" /\ Q[Len(P) + 1] = x /\ \A i \in 1 .. Len(P) : Q[i] = P[i]
      /\ Len(P) \in Nat /\ Len(Q) = Len(P) + 1 /\ Len(P) + 1 \in 1 .. Len(Q)
  BY PutPlaces DEF Put, Is
<1>2. \A j \in 1 .. Len(P) : P[j].n \in Nat
  BY Zenon, Numbers DEF Put
<1>3. \A j \in 1 .. Len(P) : At(Len(P), j) = j
  BY DEF At
<1>4. \A j \in 1 .. Len(P) : Clear(P, j) <=> Clear(Q, j)
  BY <1>1, <1>3, PutClear
<1>5. ASSUME NEW j \in 1 .. Len(P), Clear(Q, j), Is(Q[j], "data", id)
      PROVE  /\ d < Q[j].n /\ Q[j].n <= s + 1
             /\ \A i \in 1 .. j - 1 : Is(Q[i], "data", id) => Q[i].n < Q[j].n
             /\ \/ Q[j].n = d + 1
                \/ \E i \in 1 .. j - 1 : Is(Q[i], "data", id) /\ Q[i].n = Q[j].n - 1
  <2>1. \A i \in 1 .. j - 1 : Q[i] = P[i]
    BY <1>1
  <2>2. Clear(P, j) /\ Q[j] = P[j] /\ Is(P[j], "data", id)
    BY Zenon, <1>1, <1>4, <1>5
  <2>3. /\ d < P[j].n /\ P[j].n <= s
        /\ \A i \in 1 .. j - 1 : Is(P[i], "data", id) => P[i].n < P[j].n
        /\ \/ P[j].n = d + 1
           \/ \E i \in 1 .. j - 1 : Is(P[i], "data", id) /\ P[i].n = P[j].n - 1
    BY Zenon, <2>2 DEF Numbered
  <2>4. P[j].n <= s + 1
    BY <1>2, <2>3
  <2> QED
    BY Zenon, <2>1, <2>2, <2>3, <2>4
<1>6. ASSUME Clear(Q, Len(P) + 1)
      PROVE  /\ d < x.n
             /\ \A i \in 1 .. Len(P) : Is(Q[i], "data", id) => Q[i].n < x.n
             /\ \/ x.n = d + 1
                \/ \E i \in 1 .. Len(P) : Is(Q[i], "data", id) /\ Q[i].n = x.n - 1
  <2>1. Clear(P, Len(P)) /\ \A i \in 1 .. Len(P) : Clear(P, i)
    <3>1. Clear(P, Len(P))
      BY <1>1, <1>6, PutClear
    <3> QED
      BY <1>1, <3>1 DEF Clear
  <2>2. \A i \in 1 .. Len(P) : Is(P[i], "data", id) => P[i].n <= s
    BY Zenon, <2>1 DEF Numbered
  <2>3. s = d \/ \E j \in 1 .. Len(P) : Is(P[j], "data", id) /\ P[j].n = s
    BY Zenon, <2>1 DEF Complete
  <2>4. d < x.n /\ x.n - 1 = s /\ s < x.n
    OBVIOUS
  <2>5. \A i \in 1 .. Len(P) : Is(Q[i], "data", id) => Q[i].n < x.n
    BY <1>1, <1>2, <2>2
  <2> QED
    BY Zenon, <1>1, <2>3, <2>4, <2>5
<1>7. Numbered(Q, id, d, s + 1)
  <2> SUFFICES ASSUME NEW j \in 1 .. Len(Q), Clear(Q, j), Is(Q[j], "data", id)
               PROVE  /\ d < Q[j].n /\ Q[j].n <= s + 1
                      /\ \A i \in 1 .. j - 1 : Is(Q[i], "data", id) => Q[i].n < Q[j].n
                      /\ \/ Q[j].n = d + 1
                         \/ \E i \in 1 .. j - 1 :
                              Is(Q[i], "data", id) /\ Q[i].n = Q[j].n - 1
    BY Zenon DEF Numbered
  <2>1. CASE j = Len(P) + 1
    <3>1. j - 1 = Len(P) /\ s + 1 <= s + 1
      BY <1>1, <2>1
    <3> QED
      BY Zenon, <1>1, <1>6, <2>1, <3>1
  <2>2. CASE j # Len(P) + 1
    <3>1. j \in 1 .. Len(P)
      BY <1>1, <2>2
    <3> QED
      BY Zenon, <1>5, <3>1
  <2> QED
    BY Zenon, <2>1, <2>2
<1> QED
  BY Zenon, <1>1, <1>7 DEF Complete

\* A stream of which nothing is under way yet.
Absent(P, id) == \A j \in 1 .. Len(P) : P[j].id # id

\* Its Syn joins at the end.
LEMMA AppendSyn ==
  ASSUME NEW P, NEW Q, NEW x, Put(P, Q, Len(P), x), NEW id, Is(x, "syn", id),
         Absent(P, id)
  PROVE  SynFirst(Q, id) /\ Numbered(Q, id, 0, 0) /\ Complete(Q, id, 0, 0)
<1>1. /\ Q[Len(P) + 1] = x /\ \A i \in 1 .. Len(P) : Q[i] = P[i]
      /\ Len(P) \in Nat /\ Len(Q) = Len(P) + 1
  BY Zenon, PutPlaces DEF Put
<1>2. \A j \in 1 .. Len(Q) : ~Is(Q[j], "data", id) /\ (Is(Q[j], "syn", id) => j = Len(Q))
  BY <1>1 DEF Absent, Is
<1>3. \A j \in 1 .. Len(Q) : \A i \in 1 .. j - 1 : i \in 1 .. Len(Q) /\ i # Len(Q)
  BY <1>1
<1> QED
  BY Zenon, <1>2, <1>3 DEF SynFirst, Numbered, Complete

(***************************************************************************)
(* The rest of what is under way is lost                                   *)
(***************************************************************************)
\* Q begins as P does, up to a GoAway.
Cut(P, Q) ==
  /\ Len(P) \in Nat /\ Len(Q) \in Nat
  /\ \A j \in 1 .. Len(Q) : Clear(Q, j) => j <= Len(P) /\ \A i \in 1 .. j : Q[i] = P[i]

\* A pipe that was cut off says no more than before.
LEMMA CutKeeps ==
  ASSUME NEW P, NEW Q, Cut(P, Q), NEW id, NEW d, NEW s
  PROVE  /\ SynFirst(P, id) => SynFirst(Q, id)
         /\ SynIn(Q, id) => SynIn(P, id)
         /\ Numbered(P, id, d, s) => Numbered(Q, id, d, s)
<1>1. ASSUME NEW j \in 1 .. Len(Q), Clear(Q, j)
      PROVE  /\ j \in 1 .. Len(P) /\ Clear(P, j) /\ Q[j] = P[j]
             /\ \A i \in 1 .. j - 1 : Q[i] = P[i]
  BY <1>1 DEF Cut, Clear
<1>2. SynFirst(P, id) => SynFirst(Q, id)
  BY Zenon, <1>1 DEF SynFirst
<1>3. SynIn(Q, id) => SynIn(P, id)
  BY Zenon, <1>1 DEF SynIn
<1>4. Numbered(P, id, d, s) => Numbered(Q, id, d, s)
  BY Zenon, <1>1 DEF Numbered
<1> QED
  BY Zenon, <1>2, <1>3, <1>4


(***************************************************************************)
(* Joining sequences                                                       *)
(***************************************************************************)
LEMMA Associative ==
  \A A, B, C \in Seq(Item) : (A \o B) \o C = A \o (B \o C)
BY SMTT(30), ConcatAssociative

\* An item put in a part is put in the whole.
LEMMA PutInPart ==
  ASSUME NEW P, NEW Q, NEW m, NEW x, Put(P, Q, m, x), NEW A \in Seq(Item)
  PROVE  /\ Put(P \o A, Q \o A, m, x)
         /\ Put(A \o P, A \o Q, Len(A) + m, x)
         /\ m = Len(P) => Len(A) + m = Len(A \o P)
<1>1. /\ P \in Seq(Item) /\ Q \in Seq(Item) /\ m \in 0 .. Len(P) /\ Len(Q) = Len(P) + 1
      /\ Len(A) \in Nat /\ Len(P) \in Nat
      /\ \A i \in 1 .. m : Q[i] = P[i]
      /\ Q[m + 1] = x
      /\ \A i \in m + 1 .. Len(P) : Q[i + 1] = P[i]
  BY Zenon, LenProperties DEF Put
<1>2. /\ P \o A \in Seq(Item) /\ Q \o A \in Seq(Item)
      /\ A \o P \in Seq(Item) /\ A \o Q \in Seq(Item)
      /\ Len(P \o A) = Len(P) + Len(A) /\ Len(Q \o A) = Len(Q) + Len(A)
      /\ Len(A \o P) = Len(A) + Len(P) /\ Len(A \o Q) = Len(A) + Len(Q)
  BY Zenon, <1>1, ConcatProperties
<1>3. /\ \A i \in 1 .. Len(P) + Len(A) : (P \o A)[i] = IF i <= Len(P) THEN P[i] ELSE A[i - Len(P)]
      /\ \A i \in 1 .. Len(Q) + Len(A) : (Q \o A)[i] = IF i <= Len(Q) THEN Q[i] ELSE A[i - Len(Q)]
      /\ \A i \in 1 .. Len(A) + Len(P) : (A \o P)[i] = IF i <= Len(A) THEN A[i] ELSE P[i - Len(A)]
      /\ \A i \in 1 .. Len(A) + Len(Q) : (A \o Q)[i] = IF i <= Len(A) THEN A[i] ELSE Q[i - Len(A)]
  BY Zenon, <1>1, ConcatProperties
<1> DEFINE PA == P \o A  QA == Q \o A  AP == A \o P  AQ == A \o Q
<1> HIDE DEF PA, QA, AP, AQ
<1>4. Put(PA, QA, m, x)
  <2>1. /\ PA \in Seq(Item) /\ QA \in Seq(Item) /\ m \in 0 .. Len(PA)
        /\ Len(QA) = Len(PA) + 1 /\ Len(PA) = Len(P) + Len(A)
    BY <1>1, <1>2 DEF PA, QA
  <2>2. /\ \A i \in 1 .. Len(P) + Len(A) : PA[i] = IF i <= Len(P) THEN P[i] ELSE A[i - Len(P)]
        /\ \A i \in 1 .. Len(P) + 1 + Len(A) :
             QA[i] = IF i <= Len(P) + 1 THEN Q[i] ELSE A[i - (Len(P) + 1)]
    BY Zenon, <1>1, <1>3 DEF PA, QA
  <2>3. \A i \in 1 .. m : QA[i] = PA[i]
    BY <1>1, <2>2
  <2>4. QA[m + 1] = x
    BY <1>1, <2>2
  <2>5. ASSUME NEW i \in m + 1 .. Len(PA) PROVE QA[i + 1] = PA[i]
    <3>1. CASE i <= Len(P)
      <4>1. /\ i \in m + 1 .. Len(P) /\ i \in 1 .. Len(P) + Len(A)
            /\ i + 1 \in 1 .. Len(P) + 1 + Len(A) /\ i + 1 <= Len(P) + 1
        BY <1>1, <2>1, <3>1
      <4>2. QA[i + 1] = Q[i + 1] /\ PA[i] = P[i]
        BY Zenon, <2>2, <3>1, <4>1
      <4> QED
        BY Zenon, <1>1, <4>1, <4>2
    <3>2. CASE i > Len(P)
      <4>1. /\ QA[i + 1] = A[i + 1 - (Len(P) + 1)] /\ PA[i] = A[i - Len(P)]
            /\ i + 1 - (Len(P) + 1) = i - Len(P)
        BY SMTT(30), <1>1, <2>1, <2>2, <3>2
      <4> QED
        BY Zenon, <4>1
    <3> QED
      BY <1>1, <2>1, <3>1, <3>2
  <2> QED
    BY Zenon, <2>1, <2>3, <2>4, <2>5 DEF Put
<1>5. Put(AP, AQ, Len(A) + m, x)
  <2>1. /\ AP \in Seq(Item) /\ AQ \in Seq(Item) /\ Len(A) + m \in 0 .. Len(AP)
        /\ Len(AQ) = Len(AP) + 1 /\ Len(AP) = Len(A) + Len(P)
    BY <1>1, <1>2 DEF AP, AQ
  <2>2. /\ \A i \in 1 .. Len(A) + Len(P) : AP[i] = IF i <= Len(A) THEN A[i] ELSE P[i - Len(A)]
        /\ \A i \in 1 .. Len(A) + (Len(P) + 1) :
             AQ[i] = IF i <= Len(A) THEN A[i] ELSE Q[i - Len(A)]
    BY Zenon, <1>1, <1>3 DEF AP, AQ
  <2>3. ASSUME NEW i \in 1 .. Len(A) + m PROVE AQ[i] = AP[i]
    <3>1. CASE i <= Len(A)
      <4>1. i \in 1 .. Len(A) + Len(P) /\ i \in 1 .. Len(A) + (Len(P) + 1)
        BY <1>1
      <4> QED
        BY Zenon, <2>2, <3>1, <4>1
    <3>2. CASE i > Len(A)
      <4>1. /\ i - Len(A) \in 1 .. m /\ ~ (i <= Len(A))
            /\ i \in 1 .. Len(A) + Len(P) /\ i \in 1 .. Len(A) + (Len(P) + 1)
        BY <1>1, <3>2
      <4>2. AQ[i] = Q[i - Len(A)] /\ AP[i] = P[i - Len(A)]
        BY Zenon, <2>2, <4>1
      <4> QED
        BY Zenon, <1>1, <4>1, <4>2
    <3> QED
      BY <1>1, <3>1, <3>2
  <2>4. AQ[Len(A) + m + 1] = x
    BY <1>1, <2>2
  <2>5. ASSUME NEW i \in Len(A) + m + 1 .. Len(AP) PROVE AQ[i + 1] = AP[i]
    <3>1. /\ AP[i] = P[i - Len(A)] /\ AQ[i + 1] = Q[i + 1 - Len(A)]
          /\ i - Len(A) \in m + 1 .. Len(P) /\ i + 1 - Len(A) = i - Len(A) + 1
      BY SMTT(30), <1>1, <2>1, <2>2
    <3> QED
      BY Zenon, <1>1, <3>1
  <2> QED
    BY Zenon, <2>1, <2>3, <2>4, <2>5 DEF Put
<1> QED
  BY Zenon, <1>2, <1>4, <1>5 DEF PA, QA, AP, AQ

\* An item that joins at the end,
LEMMA PutLast ==
  ASSUME NEW P \in Seq(Item), NEW x \in Item
  PROVE  Put(P, Append(P, x), Len(P), x)
<1>1. Len(P) \in Nat
  BY Zenon, LenProperties
<1> QED
  BY <1>1, AppendProperties DEF Put

\* and one at the front.
LEMMA PutFirst ==
  ASSUME NEW P \in Seq(Item), P # <<>>
  PROVE  Put(Tail(P), P, 0, Head(P))
<1>1. Len(P) \in Nat \ {0}
  BY Zenon, EmptySeq
<1> QED
  BY <1>1, HeadTailProperties DEF Put

\* The first item of a part moves to the part before it.
LEMMA Shift ==
  ASSUME NEW A \in Seq(Item), NEW B \in Seq(Item), B # <<>>
  PROVE  /\ Append(A, Head(B)) \o Tail(B) = A \o B
         /\ Append(A, Head(B)) \in Seq(Item) /\ Tail(B) \in Seq(Item)
<1>1. Head(B) \in Item /\ Tail(B) \in Seq(Item) /\ Len(B) \in Nat \ {0}
  BY Zenon, HeadTailProperties, EmptySeq
<1>2. Append(A, Head(B)) = A \o <<Head(B)>> /\ Append(A, Head(B)) \in Seq(Item)
  BY Zenon, <1>1, AppendIsConcat, AppendProperties
<1>3. <<Head(B)>> \in Seq(Item) /\ <<Head(B)>> \o Tail(B) = B
  <2>1. Len(B) \in 1 .. Len(B) /\ 1 \in 1 .. Len(B)
    BY <1>1
  <2>2. SubSeq(B, 1, Len(B)) = <<B[1]>> \o SubSeq(B, 1 + 1, Len(B))
    BY Zenon, <2>1, SubSeqRecursiveFirst
  <2>3. SubSeq(B, 1, Len(B)) = B /\ Tail(B) = SubSeq(B, 2, Len(B)) /\ 1 + 1 = 2
    BY SubSeqFull, TailIsSubSeq
  <2> QED
    BY <1>1, <2>2, <2>3
<1>4. (A \o <<Head(B)>>) \o Tail(B) = A \o (<<Head(B)>> \o Tail(B))
  BY <1>1, <1>3, ConcatAssociative
<1> QED
  BY Zenon, <1>1, <1>2, <1>3, <1>4


\* P and Q say the same of stream id.
SameFor(P, Q, id) ==
  /\ SynFirst(P, id) <=> SynFirst(Q, id)
  /\ SynIn(P, id) <=> SynIn(Q, id)
  /\ \A d, s : /\ Numbered(P, id, d, s) <=> Numbered(Q, id, d, s)
               /\ Complete(P, id, d, s) <=> Complete(Q, id, d, s)

\* Of this stream an item says nothing.
Silent(x, id) == x.ty # "go_away" /\ ~Is(x, "syn", id) /\ ~Is(x, "data", id)

\* An item that says nothing about a stream may come and go.
LEMMA PutSame ==
  ASSUME NEW P, NEW Q, NEW m, NEW x, Put(P, Q, m, x), NEW id, Silent(x, id)
  PROVE  SameFor(P, Q, id) /\ SameFor(Q, P, id)
<1>1. x.ty # "go_away" /\ ~Is(x, "syn", id) /\ ~Is(x, "data", id)
  BY Zenon DEF Silent
<1>2. \A d, s : /\ Numbered(P, id, d, s) <=> Numbered(Q, id, d, s)
                /\ Complete(P, id, d, s) <=> Complete(Q, id, d, s)
  BY Zenon, <1>1, PutNoData
<1>3. /\ SynFirst(P, id) <=> SynFirst(Q, id)
      /\ SynIn(P, id) <=> SynIn(Q, id)
  BY Zenon, <1>1, PutSyn, PutNoSyn
<1> QED
  BY Zenon, <1>2, <1>3 DEF SameFor

\* What both begin with stays, whatever each goes on with, if Q goes on with a GoAway.
LEMMA CutJoin ==
  ASSUME NEW A \in Seq(Item), NEW B \in Seq(Item), NEW T \in Seq(Item),
         NEW R \in Seq(Item), R = <<>> \/ R[1].ty = "go_away"
  PROVE  /\ Cut(A \o (B \o T), A \o (B \o R))
         /\ R # <<>> => ~Clear(A \o (B \o R), Len(A \o (B \o R)))
<1>1. /\ A \o (B \o T) = (A \o B) \o T /\ A \o (B \o R) = (A \o B) \o R
      /\ A \o B \in Seq(Item)
  <2>1. A \o B \in Seq(Item)
    BY Zenon, ConcatProperties
  <2>2. (A \o B) \o T = A \o (B \o T)
    BY Zenon, Associative
  <2>3. (A \o B) \o R = A \o (B \o R)
    BY Zenon, Associative
  <2> QED
    BY Zenon, <2>1, <2>2, <2>3
<1> DEFINE C == A \o B  P == C \o T  Q == C \o R
<1>2. C \in Seq(Item)
  BY Zenon, <1>1
<1> HIDE DEF C
<1>3. /\ Len(C) \in Nat /\ Len(T) \in Nat /\ Len(R) \in Nat
      /\ Len(P) = Len(C) + Len(T) /\ Len(Q) = Len(C) + Len(R)
      /\ \A i \in 1 .. Len(C) + Len(T) : P[i] = IF i <= Len(C) THEN C[i] ELSE T[i - Len(C)]
      /\ \A i \in 1 .. Len(C) + Len(R) : Q[i] = IF i <= Len(C) THEN C[i] ELSE R[i - Len(C)]
      /\ R # <<>> => Len(R) # 0
  BY <1>2, LenProperties, ConcatProperties, EmptySeq
<1> HIDE DEF P, Q
<1>4. ASSUME R # <<>>
      PROVE  Len(C) + 1 \in 1 .. Len(Q) /\ Q[Len(C) + 1].ty = "go_away"
  <2>1. /\ Len(C) + 1 \in 1 .. Len(Q) /\ Len(C) + 1 \in 1 .. Len(C) + Len(R)
        /\ ~(Len(C) + 1 <= Len(C)) /\ Len(C) + 1 - Len(C) = 1
    BY <1>3, <1>4
  <2>2. Q[Len(C) + 1] = R[1]
    BY <1>3, <2>1
  <2> QED
    BY Zenon, <1>4, <2>1, <2>2
<1>5. R = <<>> => Len(R) = 0
  OBVIOUS
<1>6. \A i \in 1 .. Len(C) : Q[i] = P[i]
  BY SMTT(30), <1>3
<1>7. ASSUME NEW j \in 1 .. Len(Q), Clear(Q, j) PROVE j <= Len(C)
  <2>1. CASE R = <<>>
    BY <1>3, <1>5, <2>1
  <2>2. CASE R # <<>>
    <3>1. ~(Len(C) + 1 \in 1 .. j)
      BY Zenon, <1>4, <1>7, <2>2 DEF Clear
    <3> QED
      BY <1>3, <3>1
  <2> QED
    BY Zenon, <2>1, <2>2
<1>8. Cut(P, Q)
  <2>1. ASSUME NEW j \in 1 .. Len(Q), Clear(Q, j)
        PROVE  j <= Len(P) /\ \A i \in 1 .. j : Q[i] = P[i]
    <3>1. j <= Len(C)
      BY Zenon, <1>7, <2>1
    <3> QED
      BY <1>3, <1>6, <3>1
  <2>2. Len(P) \in Nat /\ Len(Q) \in Nat
    BY <1>3
  <2> QED
    BY Zenon, <2>1, <2>2 DEF Cut
<1>9. R # <<>> => ~Clear(Q, Len(Q))
  BY Zenon, <1>4 DEF Clear
<1> QED
  BY Zenon, <1>1, <1>8, <1>9 DEF P, Q, C


(***************************************************************************)
(* The parts of a pipe, and how a step of a session changes it             *)
(***************************************************************************)
LEMMA PeerFacts ==
  ASSUME NEW e \in Ends
  PROVE  /\ Peer(e) \in Ends /\ Peer(e) # e /\ Peer(Peer(e)) = e
         /\ \A x \in Ends : x = e \/ x = Peer(e)
BY Zenon DEF Ends, Peer

\* The queues a pipe is made of.
Parts ==
  \A x \in Ends :
    /\ read_pending_frames[x] \in Seq(Item) /\ dist[x] \in Seq(Item)
    /\ wire[x] \in Seq(Item) /\ write_pending_frames[x] \in Seq(Item)
    /\ events[x] \in Seq(Item) /\ Out(x) \in Seq(Item)
    /\ read_pending_frames[x] \o dist[x] \in Seq(Item)
    /\ wire[x] \o Out(Peer(x)) \in Seq(Item)
    /\ Pipe(x) \in Seq(Item)

\* Frames and events are items.
LEMMA FramesAreItems ==
  /\ StreamFrame \subseteq Item /\ WireFrame \subseteq Item /\ Event \subseteq Item
  /\ StreamFrame \subseteq WireFrame /\ StreamFrame \subseteq Event
  /\ StreamFrame \subseteq Frames /\ WireFrame \subseteq Frames
  /\ Event \subseteq Frames \cup {Closed(id) : id \in Ids}
<1>1. Known \subseteq 0 .. MaxId /\ Known \subseteq Ids /\ 0 \in 0 .. MaxId
  BY SizesAssumption DEF Known, Ids
<1>2. StreamFrame \subseteq Item /\ StreamFrame \subseteq Frames
  BY Zenon, <1>1 DEF StreamFrame, Item, Kinds, Frames
<1>3. GoAwayFrame(Normal) \in Item /\ GoAwayFrame(Normal) \in Frames
  BY Zenon, <1>1 DEF GoAwayFrame, Normal, Frame, Item, Kinds, Frames
<1>4. \A id \in Known : Closed(id) \in Item
  BY Zenon, <1>1 DEF Closed, Item
<1> QED
  BY Zenon, <1>1, <1>2, <1>3, <1>4 DEF WireFrame, Event

\* The queues have items in them.
LEMMA QueuesParts == Queues => Parts
<1> SUFFICES ASSUME Queues, NEW x \in Ends
             PROVE  /\ read_pending_frames[x] \in Seq(Item) /\ dist[x] \in Seq(Item)
                    /\ wire[x] \in Seq(Item) /\ write_pending_frames[x] \in Seq(Item)
                    /\ events[x] \in Seq(Item) /\ Out(x) \in Seq(Item)
                    /\ read_pending_frames[x] \o dist[x] \in Seq(Item)
                    /\ wire[x] \o Out(Peer(x)) \in Seq(Item)
                    /\ Pipe(x) \in Seq(Item)
  BY Zenon DEF Parts
<1>1. ASSUME NEW y \in Ends
      PROVE  /\ read_pending_frames[y] \in Seq(Item) /\ dist[y] \in Seq(Item)
             /\ wire[y] \in Seq(Item) /\ write_pending_frames[y] \in Seq(Item)
             /\ events[y] \in Seq(Item)
  <2>1. /\ read_pending_frames[y] \in Seq(StreamFrame) /\ dist[y] \in Seq(StreamFrame)
        /\ wire[y] \in Seq(WireFrame) /\ write_pending_frames[y] \in Seq(WireFrame)
        /\ events[y] \in Seq(Event)
    BY Zenon DEF Queues
  <2> QED
    BY Zenon, <2>1, FramesAreItems, SeqMonotonic
<1>2. ASSUME NEW y \in Ends PROVE Out(y) \in Seq(Item)
  <2>1. write_pending_frames[y] \o events[y] \in Seq(Item) /\ <<>> \in Seq(Item)
    BY Zenon, <1>1, ConcatProperties, EmptySeq
  <2> QED
    BY Zenon, <2>1 DEF Out
<1>3. /\ read_pending_frames[x] \o dist[x] \in Seq(Item)
      /\ wire[x] \o Out(Peer(x)) \in Seq(Item)
  BY Zenon, <1>1, <1>2, PeerFacts, ConcatProperties
<1>4. Pipe(x) \in Seq(Item)
  BY Zenon, <1>3, ConcatProperties DEF Pipe
<1> QED
  BY Zenon, <1>1, <1>2, <1>3, <1>4


\* The smaller of two numbers.
LEMMA SmallerFacts ==
  \A a, b \in Nat : Smaller(a, b) \in 0 .. a /\ Smaller(a, b) <= b
BY DEF Smaller

\* a then b is what c then d was.
Onward(a, b, c, d) == a \o b = c \o d

\* send_all loses nothing on the way to a session that is there.
LEMMA SendAllFacts ==
  ASSUME Queues, Types, NEW e \in Ends, NEW q \in Seq(WireFrame),
         NEW w \in [Ends -> Seq(WireFrame)], \A x \in Ends : Len(w[x]) <= WireCap,
         SendAll(e, q, w)
  PROVE  /\ wire' \in [Ends -> Seq(WireFrame)] /\ \A x \in Ends : Len(wire'[x]) <= WireCap
         /\ write_pending_frames' \in [Ends -> Seq(WireFrame)]
         /\ wire'[e] = w[e]
         /\ write_pending_frames'[Peer(e)] = write_pending_frames[Peer(e)]
         /\ up[Peer(e)] =>
              /\ Onward(wire'[Peer(e)], write_pending_frames'[e], w[Peer(e)], q)
              /\ \E k \in 0 .. Len(q) : wire'[Peer(e)] = w[Peer(e)] \o SubSeq(q, 1, k)
<1> DEFINE p == Peer(e)
<1>1. p \in Ends /\ p # e /\ \A x \in Ends : x = e \/ x = p
  BY Zenon, PeerFacts
<1> HIDE DEF p
<1> DEFINE k == Smaller(Len(q), WireCap - Len(w[p]))
<1>2. Len(q) \in Nat /\ Len(w[p]) \in Nat /\ w[p] \in Seq(WireFrame)
      /\ Len(w[p]) <= WireCap /\ WireCap \in Nat
  BY Zenon, <1>1, LenProperties, SizesAssumption
<1>3. k \in 0 .. Len(q) /\ k + Len(w[p]) <= WireCap
  <2>1. WireCap - Len(w[p]) \in Nat
    BY <1>2
  <2>2. k \in 0 .. Len(q) /\ k <= WireCap - Len(w[p])
    BY Zenon, <1>2, <2>1, SmallerFacts
  <2> QED
    BY <1>2, <2>2
<1>4. \/ /\ up[p]
         /\ wire' = [w EXCEPT ![p] = @ \o SubSeq(q, 1, k)]
         /\ write_pending_frames' =
              [write_pending_frames EXCEPT ![e] = SubSeq(q, k + 1, Len(q))]
      \/ /\ ~up[p] /\ wire' = w
         /\ write_pending_frames' = [write_pending_frames EXCEPT ![e] = <<>>]
  BY Zenon DEF SendAll, p
<1> HIDE DEF k
<1>5. write_pending_frames \in [Ends -> Seq(WireFrame)]
  BY Zenon DEF Queues
<1>6. CASE ~up[p] /\ wire' = w
           /\ write_pending_frames' = [write_pending_frames EXCEPT ![e] = <<>>]
  <2>1. <<>> \in Seq(WireFrame)
    BY Zenon, EmptySeq
  <2> QED
    BY Zenon, <1>1, <1>5, <1>6, <2>1 DEF p
<1>7. CASE /\ up[p]
           /\ wire' = [w EXCEPT ![p] = @ \o SubSeq(q, 1, k)]
           /\ write_pending_frames' =
                [write_pending_frames EXCEPT ![e] = SubSeq(q, k + 1, Len(q))]
  <2> DEFINE a == SubSeq(q, 1, k)  b == SubSeq(q, k + 1, Len(q))
  <2>1. a \in Seq(WireFrame) /\ b \in Seq(WireFrame) /\ Len(a) = k
    <3>1. \A i \in 1 .. k : q[i] \in WireFrame
      BY <1>2, <1>3, ElementOfSeq
    <3>2. \A i \in k + 1 .. Len(q) : q[i] \in WireFrame
      BY <1>2, <1>3, ElementOfSeq
    <3>3. k \in Int /\ k + 1 \in Int /\ Len(q) \in Int /\ 1 \in Int
      BY <1>2, <1>3
    <3>4. a \in Seq(WireFrame) /\ Len(a) = IF 1 <= k THEN k - 1 + 1 ELSE 0
      BY <3>1, <3>3, SubSeqProperties
    <3>5. b \in Seq(WireFrame)
      BY Zenon, <3>2, <3>3, SubSeqProperties
    <3> QED
      BY <1>3, <3>4, <3>5
  <2>2. a \o b = q
    <3>1. 1 \in 1 .. Len(q) + 1 /\ k \in 1 - 1 .. Len(q) /\ Len(q) \in k .. Len(q)
      BY <1>2, <1>3
    <3>2. a \o b = SubSeq(q, 1, Len(q))
      BY Zenon, <3>1, ConcatAdjacentSubSeq
    <3> QED
      BY Zenon, <3>2, SubSeqFull
  <2> HIDE DEF a, b
  <2>3. /\ w[p] \o a \in Seq(WireFrame) /\ Len(w[p] \o a) = Len(w[p]) + Len(a)
        /\ (w[p] \o a) \o b = w[p] \o (a \o b)
    <3>1. w[p] \in Seq(Item) /\ a \in Seq(Item) /\ b \in Seq(Item)
      BY Zenon, <1>2, <2>1, FramesAreItems, SeqMonotonic
    <3>2. (w[p] \o a) \o b = w[p] \o (a \o b)
      BY Zenon, <3>1, Associative
    <3> QED
      BY Zenon, <1>2, <2>1, <3>2, ConcatProperties
  <2>4. wire' = [w EXCEPT ![p] = w[p] \o a]
        /\ write_pending_frames' = [write_pending_frames EXCEPT ![e] = b]
    BY Zenon, <1>7 DEF a, b
  <2>5. wire'[p] = w[p] \o a /\ wire'[e] = w[e] /\ write_pending_frames'[e] = b
        /\ write_pending_frames'[p] = write_pending_frames[p]
    BY Zenon, <1>1, <1>5, <2>4
  <2>6. wire' \in [Ends -> Seq(WireFrame)]
        /\ write_pending_frames' \in [Ends -> Seq(WireFrame)]
    BY Zenon, <1>1, <1>5, <2>1, <2>3, <2>4
  <2>7. Len(wire'[p]) <= WireCap /\ Len(wire'[e]) <= WireCap
    BY <1>2, <1>3, <2>1, <2>3, <2>5
  <2>8. \A x \in Ends : Len(wire'[x]) <= WireCap
    BY Zenon, <1>1, <2>7
  <2>9. \E l \in 0 .. Len(q) : wire'[p] = w[p] \o SubSeq(q, 1, l)
    BY Zenon, <1>3, <2>5 DEF a
  <2> QED
    BY Zenon, <2>2, <2>3, <2>5, <2>6, <2>8, <2>9 DEF p, Onward
<1> QED
  BY Zenon, <1>4, <1>6, <1>7


(***************************************************************************)
(* What a step may do to a lane                                            *)
(***************************************************************************)
\* At x nothing happens to stream id that matters to what is under way.
Still(x, id) ==
  /\ delivered'[x][id] = delivered[x][id]
  /\ sent'[Peer(x)][id] = sent[Peer(x)][id]
  /\ Alive(Peer(x))' => Alive(Peer(x))
  /\ hold[x][id] = "none" => hold'[x][id] = "none"
  /\ id \in streams'[x] /\ hold'[x][id] # "gone" => id \in streams[x] /\ hold[x][id] # "gone"

\* A lane depends on its pipe alone,
LEMMA LaneSame ==
  ASSUME NEW x \in Ends, NEW id \in Ids, Lane(x, id), Still(x, id),
         SameFor(Pipe(x), Pipe(x)', id)
  PROVE  Lane(x, id)'
BY Zenon DEF Lane, Open, Still, SameFor

\* and outlives the loss of its end, once its sender is down or a GoAway is under way.
LEMMA LaneCut ==
  ASSUME NEW x \in Ends, NEW id \in Ids, Lane(x, id), Still(x, id),
         Cut(Pipe(x), Pipe(x)'),
         ~Alive(Peer(x))' \/ ~Clear(Pipe(x)', Len(Pipe(x)'))
  PROVE  Lane(x, id)'
<1>1. /\ SynFirst(Pipe(x), id) => SynFirst(Pipe(x)', id)
      /\ SynIn(Pipe(x)', id) => SynIn(Pipe(x), id)
      /\ \A d, s : Numbered(Pipe(x), id, d, s) => Numbered(Pipe(x)', id, d, s)
  BY Zenon, CutKeeps
<1>2. \A d, s : Alive(Peer(x))' => Complete(Pipe(x)', id, d, s)
  BY Zenon DEF Complete
<1> QED
  BY Zenon, <1>1, <1>2 DEF Lane, Open, Still

\* The handle at the other end has sent the next data frame.
LEMMA LaneSent ==
  ASSUME NEW x \in Ends, NEW id \in Ids, Lane(x, id), NEW y, Is(y, "data", id),
         Types, Queues, InOrder,
         y.n = sent[Peer(x)][id] + 1, sent'[Peer(x)][id] = sent[Peer(x)][id] + 1,
         delivered'[x][id] = delivered[x][id],
         hold'[x][id] = hold[x][id], streams'[x] = streams[x],
         Alive(Peer(x))' => Alive(Peer(x)),
         IF Alive(Peer(x)) THEN Put(Pipe(x), Pipe(x)', Len(Pipe(x)), y)
                           ELSE Pipe(x)' = Pipe(x)
  PROVE  Lane(x, id)'
<1> DEFINE d == Len(delivered[x][id])  s == sent[Peer(x)][id]
<1>1. d \in Nat /\ s \in Nat /\ d <= s
  <2>1. delivered[x][id] \in Seq(Nat) /\ s \in Nat
    BY PeerFacts DEF Types
  <2> QED
    BY Zenon, <2>1, LenProperties DEF InOrder
<1>2. CASE Alive(Peer(x))
  <2>1. Put(Pipe(x), Pipe(x)', Len(Pipe(x)), y) /\ y.ty # "go_away" /\ ~Is(y, "syn", id)
    BY Zenon, <1>2 DEF Is
  <2>2. /\ SynFirst(Pipe(x), id) => SynFirst(Pipe(x)', id)
        /\ SynIn(Pipe(x)', id) => SynIn(Pipe(x), id)
    BY Zenon, <2>1, PutNoSyn
  <2>3. Numbered(Pipe(x), id, d, s) /\ Complete(Pipe(x), id, d, s) =>
          Numbered(Pipe(x)', id, d, s + 1) /\ Complete(Pipe(x)', id, d, s + 1)
    BY Zenon, <1>1, <2>1, AppendData
  <2> QED
    BY Zenon, <1>2, <2>2, <2>3 DEF Lane, Open
<1>3. CASE ~Alive(Peer(x))
  <2>1. Numbered(Pipe(x), id, d, s) => Numbered(Pipe(x), id, d, s + 1)
    <3>1. \A n \in Nat : n <= s => n <= s + 1
      BY <1>1
    <3>2. \A j \in 1 .. Len(Pipe(x)) : Pipe(x)[j].n \in Nat
      BY Zenon, QueuesParts, Numbers DEF Parts
    <3> QED
      BY Zenon, <3>1, <3>2 DEF Numbered
  <2> QED
    BY Zenon, <1>3, <2>1 DEF Lane, Open
<1> QED
  BY Zenon, <1>2, <1>3

\* The other end opens the stream.
LEMMA LaneOpened ==
  ASSUME NEW x \in Ends, NEW id \in Ids, NEW y, Is(y, "syn", id),
         Put(Pipe(x), Pipe(x)', Len(Pipe(x)), y), Absent(Pipe(x), id),
         Owner(id) = Peer(x), sent'[Peer(x)][id] = 0, delivered'[x][id] = <<>>,
         hold'[x][id] = "none"
  PROVE  Lane(x, id)'
<1>1. /\ SynFirst(Pipe(x)', id) /\ Numbered(Pipe(x)', id, 0, 0)
      /\ Complete(Pipe(x)', id, 0, 0)
  BY Zenon, AppendSyn
<1>2. Len(delivered'[x][id]) = 0
  BY Zenon
<1> QED
  BY Zenon, <1>1, <1>2 DEF Lane, Open


\* Nothing of the stream, and no GoAway, is among the first m items.
Front(P, m, id) == Clear(P, m) /\ \A i \in 1 .. m : P[i].id # id

\* Its first Syn or data frame is dropped, and it is not open (any more).
LEMMA LaneDropped ==
  ASSUME NEW x \in Ends, NEW id \in Ids, Lane(x, id), NEW y, NEW m,
         Put(Pipe(x)', Pipe(x), m, y), Front(Pipe(x)', m, id),
         Is(y, "syn", id) \/ Is(y, "data", id),
         ~(id \in streams'[x] /\ hold'[x][id] # "gone")
  PROVE  Lane(x, id)'
<1>1. /\ y.ty # "go_away" /\ Clear(Pipe(x)', m)
      /\ \A i \in 1 .. m : ~Is(Pipe(x)'[i], "syn", id)
  BY Zenon DEF Is, Front
<1>2. SynFirst(Pipe(x), id)
  BY Zenon DEF Lane
<1>3. ~SynIn(Pipe(x)', id) /\ SynFirst(Pipe(x)', id)
  BY Zenon, <1>1, <1>2, TakeSyn, PutSyn
<1> QED
  BY Zenon, <1>3 DEF Lane, Open

\* A Syn that is received: it is one under way.
LEMMA SynReceived ==
  ASSUME NEW P, NEW Q, NEW m, NEW y, NEW id, Put(P, Q, m, y), Clear(P, m),
         Is(y, "syn", id)
  PROVE  SynIn(Q, id)
<1>1. y.ty # "go_away" /\ Q[m + 1] = y
  BY Zenon DEF Put, Is
<1>2. m + 1 \in 1 .. Len(Q)
  BY PutPlaces
<1>3. Clear(Q, m + 1)
  BY <1>1, PutClear
<1> QED
  BY Zenon, <1>1, <1>2, <1>3 DEF SynIn

\* Its Syn is accepted.
LEMMA LaneAccepted ==
  ASSUME NEW x \in Ends, NEW id \in Ids, Lane(x, id), NEW y, NEW m,
         Put(Pipe(x)', Pipe(x), m, y), Front(Pipe(x)', m, id), Is(y, "syn", id),
         delivered'[x][id] = delivered[x][id],
         sent'[Peer(x)][id] = sent[Peer(x)][id],
         Alive(Peer(x))' => Alive(Peer(x))
  PROVE  Lane(x, id)'
<1>1. /\ y.ty # "go_away" /\ Clear(Pipe(x)', m) /\ ~Is(y, "data", id)
      /\ \A i \in 1 .. m : ~Is(Pipe(x)'[i], "syn", id)
  BY Zenon DEF Is, Front
<1>2. SynFirst(Pipe(x), id) /\ SynIn(Pipe(x), id)
  BY Zenon, <1>1, SynReceived DEF Lane
<1>3. ~SynIn(Pipe(x)', id) /\ SynFirst(Pipe(x)', id)
  BY Zenon, <1>1, <1>2, TakeSyn, PutSyn
<1>4. \A d, s : /\ Numbered(Pipe(x)', id, d, s) <=> Numbered(Pipe(x), id, d, s)
                /\ Complete(Pipe(x)', id, d, s) <=> Complete(Pipe(x), id, d, s)
  BY Zenon, <1>1, PutNoData
<1> QED
  BY Zenon, <1>2, <1>3, <1>4 DEF Lane, Open

\* Its next data frame goes into the handle's channel.
LEMMA LaneDelivered ==
  ASSUME NEW x \in Ends, NEW id \in Ids, Lane(x, id), NEW y, NEW m, Types,
         Put(Pipe(x)', Pipe(x), m, y), Front(Pipe(x)', m, id), Is(y, "data", id),
         id \in streams[x], hold[x][id] # "gone",
         delivered'[x][id] = Append(delivered[x][id], y.n),
         sent'[Peer(x)][id] = sent[Peer(x)][id],
         Alive(Peer(x))' => Alive(Peer(x))
  PROVE  /\ Lane(x, id)'
         /\ y.n = Len(delivered[x][id]) + 1 /\ y.n <= sent[Peer(x)][id]
<1> DEFINE d == Len(delivered[x][id])  s == sent[Peer(x)][id]
<1>1. d \in Nat /\ s \in Nat /\ delivered[x][id] \in Seq(Nat)
  <2>1. delivered[x][id] \in Seq(Nat) /\ s \in Nat
    BY PeerFacts DEF Types
  <2> QED
    BY Zenon, <2>1, LenProperties
<1>2. /\ y.ty # "go_away" /\ Clear(Pipe(x)', m)
      /\ \A i \in 1 .. m : ~Is(Pipe(x)'[i], "syn", id) /\ ~Is(Pipe(x)'[i], "data", id)
  BY Zenon DEF Is, Front
<1>3. SynFirst(Pipe(x), id) /\ Numbered(Pipe(x), id, d, s)
      /\ (Alive(Peer(x)) => Complete(Pipe(x), id, d, s))
  BY Zenon DEF Lane, Open
<1>4. ~SynIn(Pipe(x)', id) /\ SynFirst(Pipe(x)', id)
  BY Zenon, <1>2, <1>3, TakeSyn, PutSyn
<1>5. /\ y.n = d + 1 /\ d + 1 <= s
      /\ Numbered(Pipe(x)', id, d + 1, s)
      /\ Complete(Pipe(x), id, d, s) => Complete(Pipe(x)', id, d + 1, s)
  BY Zenon, <1>1, <1>2, <1>3, TakeData
<1>6. Len(delivered'[x][id]) = d + 1
  <2>1. y.n \in Nat
    BY <1>1, <1>5
  <2> QED
    BY SMTT(30), <1>1, <2>1, AppendProperties
<1> HIDE DEF d
<1>7. Lane(x, id)'
  BY Zenon, <1>3, <1>4, <1>5, <1>6 DEF Lane, Open
<1> QED
  BY Zenon, <1>5, <1>7 DEF d

(***************************************************************************)
(* What a step leaves as it is                                             *)
(***************************************************************************)
\* What is known of the ids that were given out.
LEMMA KnownKept ==
  ASSUME UNCHANGED next_stream_id
  PROVE  /\ Known' = Known /\ StreamFrame' = StreamFrame /\ WireFrame' = WireFrame
         /\ Event' = Event
BY Zenon DEF Known, StreamFrame, WireFrame, Event

\* Whether an end still takes frames.
LEMMA AliveKept ==
  ASSUME UNCHANGED <<flags, up>>
  PROVE  \A x \in Ends : Alive(x)' <=> Alive(x)
BY Zenon DEF Alive, is_dead, flags

\* A pipe says the same as itself.
LEMMA SameKept ==
  \A P, id : SameFor(P, P, id)
BY Zenon DEF SameFor

\* No step but these of its own: nothing is under way that was not before.
LEMMA PipeKept ==
  ASSUME UNCHANGED <<flags, up, pending, dist, events>>
  PROVE  \A x \in Ends : Pipe(x)' = Pipe(x)
BY Zenon, AliveKept, PeerFacts DEF Pipe, Out, pending

\* The queues keep their types while nothing enters them.
LEMMA QueuesKept ==
  ASSUME Queues, UNCHANGED <<next_stream_id, pending, dist, events>>
  PROVE  Queues'
BY Zenon, KnownKept DEF Queues, pending

\* The lanes stay when the pipes, the flags and the counters do.
LEMMA LanesKept ==
  ASSUME Lanes, UNCHANGED <<flags, up, pending, dist, events, sent, delivered>>,
         \A x \in Ends, id \in Ids :
           /\ hold[x][id] = "none" => hold'[x][id] = "none"
           /\ id \in streams'[x] /\ hold'[x][id] # "gone" =>
                id \in streams[x] /\ hold[x][id] # "gone"
  PROVE  Lanes'
<1> SUFFICES ASSUME NEW x \in Ends, Alive(x)', NEW id \in Ids PROVE Lane(x, id)'
  BY Zenon DEF Lanes
<1>1. Lane(x, id) /\ Pipe(x)' = Pipe(x) /\ (Alive(Peer(x))' => Alive(Peer(x)))
  BY Zenon, AliveKept, PipeKept, PeerFacts DEF Lanes
<1>2. Still(x, id)
  BY Zenon, <1>1 DEF Still
<1> QED
  BY Zenon, <1>1, <1>2, SameKept, LaneSame

(***************************************************************************)
(* The backlog and the loop                                                *)
(***************************************************************************)
LEMMA BacklogKept ==
  ASSUME NEW q, NEW h, NEW g, Backlog(q, h),
         \A i \in 1 .. Len(q) : h[q[i]] = "backlog" => g[q[i]] = "backlog"
  PROVE  Backlog(q, g)
BY Zenon DEF Backlog

\* A stream that is accepted leaves the backlog,
LEMMA BacklogTail ==
  ASSUME NEW q \in Seq(Ids), q # <<>>, NEW h, Backlog(q, h), NEW g,
         \A id \in Ids : id = Head(q) \/ g[id] = h[id]
  PROVE  h[Head(q)] = "backlog" /\ Backlog(Tail(q), g)
<1>1. /\ Len(Tail(q)) = Len(q) - 1 /\ Len(q) \in Nat \ {0} /\ Head(q) = q[1]
      /\ \A i \in 1 .. Len(Tail(q)) : Tail(q)[i] = q[i + 1]
      /\ \A i \in 1 .. Len(q) : q[i] \in Ids
  BY HeadTailProperties, EmptySeq, ElementOfSeq
<1>2. 1 \in 1 .. Len(q)
  BY <1>1
<1>3. ASSUME NEW i \in 1 .. Len(Tail(q))
      PROVE  g[Tail(q)[i]] = "backlog" /\ \A j \in 1 .. i - 1 : Tail(q)[j] # Tail(q)[i]
  <2> DEFINE l == i + 1
  <2>1. l \in 1 .. Len(q) /\ 1 \in 1 .. l - 1 /\ Tail(q)[i] = q[l]
    BY <1>1
  <2>2. \A j \in 1 .. i - 1 : j + 1 \in 1 .. l - 1 /\ Tail(q)[j] = q[j + 1]
    BY <1>1
  <2> HIDE DEF l
  <2>3. h[q[l]] = "backlog" /\ \A j \in 1 .. l - 1 : q[j] # q[l]
    BY Zenon, <2>1 DEF Backlog
  <2>4. q[l] # Head(q) /\ q[l] \in Ids
    BY Zenon, <1>1, <2>1, <2>3
  <2> QED
    BY Zenon, <2>1, <2>2, <2>3, <2>4
<1> QED
  BY Zenon, <1>1, <1>2, <1>3 DEF Backlog

\* and one that arrives joins it at the end.
LEMMA BacklogAppend ==
  ASSUME NEW q \in Seq(Ids), NEW id \in Ids, NEW h, Backlog(q, h), h[id] # "backlog",
         NEW g, g[id] = "backlog", \A k \in Ids : k = id \/ g[k] = h[k]
  PROVE  Backlog(Append(q, id), g)
<1> DEFINE r == Append(q, id)
<1>1. /\ Len(q) \in Nat /\ Len(r) = Len(q) + 1 /\ r[Len(q) + 1] = id
      /\ \A i \in 1 .. Len(q) : r[i] = q[i]
      /\ \A i \in 1 .. Len(q) : q[i] \in Ids
  BY LenProperties, AppendProperties, ElementOfSeq
<1> HIDE DEF r
<1>2. \A i \in 1 .. Len(q) : q[i] # id /\ g[q[i]] = "backlog"
  BY Zenon, <1>1 DEF Backlog
<1>3. ASSUME NEW i \in 1 .. Len(r)
      PROVE  g[r[i]] = "backlog" /\ \A j \in 1 .. i - 1 : r[j] # r[i]
  <2>1. CASE i = Len(q) + 1
    <3>1. \A j \in 1 .. i - 1 : j \in 1 .. Len(q)
      BY <1>1, <2>1
    <3> QED
      BY Zenon, <1>1, <1>2, <2>1, <3>1
  <2>2. CASE i # Len(q) + 1
    <3>1. i \in 1 .. Len(q) /\ \A j \in 1 .. i - 1 : j \in 1 .. Len(q)
      BY <1>1, <2>2
    <3>2. \A j \in 1 .. i - 1 : q[j] # q[i]
      BY Zenon, <3>1 DEF Backlog
    <3> QED
      BY Zenon, <1>1, <1>2, <3>1, <3>2
  <2> QED
    BY Zenon, <2>1, <2>2
<1> QED
  BY Zenon, <1>3 DEF Backlog, r

\* A handle that is there stays, dropped or not.
LEMMA BackedAtKept ==
  ASSUME Types, NEW x \in Ends, BackedAt(x), streams'[x] \subseteq streams[x],
         pending_streams'[x] = pending_streams[x],
         \A id \in Ids : /\ hold[x][id] # "none" => hold'[x][id] # "none"
                         /\ hold[x][id] = "backlog" => hold'[x][id] = "backlog"
  PROVE  BackedAt(x)'
<1>1. streams[x] \subseteq Ids /\ pending_streams[x] \in Seq(Ids)
  BY Zenon DEF Types
<1>2. \A i \in 1 .. Len(pending_streams[x]) : pending_streams[x][i] \in Ids
  BY Zenon, <1>1, ElementOfSeq
<1>3. Backlog(pending_streams[x], hold'[x])
  BY Zenon, <1>2, BacklogKept DEF BackedAt
<1> QED
  BY Zenon, <1>1, <1>3 DEF BackedAt

\* Where the session's loop stands.
LEMMA LoopAtKept ==
  ASSUME Types, NEW x \in Ends, LoopAt(x),
         read_pending_frames'[x] = read_pending_frames[x], dist'[x] = dist[x],
         block_substream'[x] = block_substream[x],
         dist[x] = <<>> \/ (Alive(x) => Alive(x)'),
         \A id \in Ids : hold[x][id] # "none" => hold'[x][id] # "none"
  PROVE  LoopAt(x)'
<1>1. block_substream[x] \subseteq Ids
  BY Zenon DEF Types
<1> QED
  BY Zenon, <1>1 DEF LoopAt

\* The application accepts the stream that waited longest.
LEMMA AcceptStep ==
  ASSUME SessionInvariant, NEW e \in Ends, Accept(e), UNCHANGED setup
  PROVE  SessionInvariant'
<1> DEFINE q == pending_streams[e]
<1>1. /\ Types /\ Queues /\ Fresh /\ Backed /\ Loop /\ Lanes /\ InOrder
      /\ q \in Seq(Ids) /\ q # <<>>
      /\ hold' = [hold EXCEPT ![e][Head(q)] = "live"]
      /\ pending_streams' = [pending_streams EXCEPT ![e] = Tail(q)]
      /\ UNCHANGED <<setup, flags, next_stream_id, streams, pending, loop, events, chan, sent,
                     delivered, up>>
  BY Zenon DEF SessionInvariant, Accept, Types
<1>2. Head(q) \in Ids /\ Tail(q) \in Seq(Ids)
  BY Zenon, <1>1, HeadTailProperties
<1>3. \A x \in Ends, id \in Ids : hold'[x][id] = hold[x][id] \/ (x = e /\ id = Head(q))
  BY Zenon, <1>1, <1>2 DEF Types
<1>4. hold[e][Head(q)] = "backlog" /\ hold'[e][Head(q)] = "live" /\ Backlog(Tail(q), hold'[e])
  <2>1. Backlog(q, hold[e])
    BY Zenon, <1>1 DEF Backed, BackedAt
  <2>2. hold[e][Head(q)] = "backlog" /\ Backlog(Tail(q), hold'[e])
    <3>1. \A id \in Ids : id = Head(q) \/ hold'[e][id] = hold[e][id]
      BY Zenon, <1>3
    <3>2. q \in Seq(Ids) /\ q # <<>>
      BY Zenon, <1>1
    <3> HIDE DEF q
    <3> QED
      BY Zenon, <2>1, <3>1, <3>2, BacklogTail
  <2> QED
    BY Zenon, <1>1, <1>2, <2>2 DEF Types
<1>5. Types'
  BY Zenon, <1>1, <1>2 DEF Types, flags, loop
<1>6. Queues'
  BY Zenon, <1>1, QueuesKept DEF loop
<1>7. \A x \in Ends, id \in Ids :
        /\ hold'[x][id] = "none" <=> hold[x][id] = "none"
        /\ hold'[x][id] = "gone" <=> hold[x][id] = "gone"
  BY Zenon, <1>3, <1>4
<1>8. Fresh'
  BY Zenon, <1>1, <1>7, KnownKept DEF Fresh
<1>9. Backed'
  <2>1. ASSUME NEW x \in Ends, x # e PROVE BackedAt(x)'
    <3>1. pending_streams'[x] = pending_streams[x]
      BY Zenon, <1>1, <2>1 DEF Types
    <3> QED
      BY Zenon, <1>1, <1>3, <2>1, <3>1, BackedAtKept DEF Backed
  <2>2. BackedAt(e)'
    <3>1. pending_streams'[e] = Tail(q)
      BY Zenon, <1>1 DEF Types
    <3> QED
      BY <1>1, <1>4, <1>7, <3>1 DEF Backed, BackedAt, Types
  <2> QED
    BY Zenon, <2>1, <2>2 DEF Backed
<1>12. Loop'
  BY Zenon, <1>1, <1>7, AliveKept, LoopAtKept DEF Loop, loop, pending
<1>10. Lanes'
  BY Zenon, <1>1, <1>7, LanesKept DEF loop
<1>11. InOrder'
  BY Zenon, <1>1 DEF InOrder
<1> QED
  BY Zenon, <1>5, <1>6, <1>8, <1>9, <1>10, <1>11, <1>12 DEF SessionInvariant

(***************************************************************************)
(* Steps that move frames on                                               *)
(***************************************************************************)
LEMMA HandlesKept ==
  ASSUME Fresh, Backed, InOrder,
         UNCHANGED <<next_stream_id, sent, hold, delivered, streams, pending_streams>>
  PROVE  Fresh' /\ Backed' /\ InOrder'
<1>1. Fresh'
  BY Zenon, KnownKept DEF Fresh
<1> QED
  BY Zenon, <1>1 DEF Backed, BackedAt, InOrder

\* A step that leaves streams and handles alone.
LEMMA StillKept ==
  ASSUME UNCHANGED <<sent, hold, delivered, streams>>, NEW x \in Ends,
         Alive(Peer(x))' => Alive(Peer(x)), NEW id \in Ids
  PROVE  Still(x, id)
BY Zenon DEF Still

\* What waits in the queue to send goes before what the handles ask.
Flat ==
  \A e \in Ends : Alive(e) =>
    Pipe(Peer(e)) = (read_pending_frames[Peer(e)] \o dist[Peer(e)])
                       \o ((wire[Peer(e)] \o write_pending_frames[e]) \o events[e])

\* One pipe, in either grouping.
LEMMA QueuesFlat == Queues => Flat
<1> SUFFICES ASSUME Queues, NEW e \in Ends, Alive(e)
             PROVE  Pipe(Peer(e)) = (read_pending_frames[Peer(e)] \o dist[Peer(e)])
                       \o ((wire[Peer(e)] \o write_pending_frames[e]) \o events[e])
  BY Zenon DEF Flat
<1>1. /\ wire[Peer(e)] \in Seq(Item) /\ write_pending_frames[e] \in Seq(Item)
      /\ events[e] \in Seq(Item) /\ Peer(Peer(e)) = e
  BY Zenon, QueuesParts, PeerFacts DEF Parts
<1>2. (wire[Peer(e)] \o write_pending_frames[e]) \o events[e]
        = wire[Peer(e)] \o (write_pending_frames[e] \o events[e])
  BY Zenon, <1>1, Associative
<1>3. Out(Peer(Peer(e))) = write_pending_frames[e] \o events[e]
  BY Zenon, <1>1 DEF Out
<1> QED
  BY Zenon, <1>2, <1>3 DEF Pipe

\* The frame received joins the buffer.
LEMMA MoveIn ==
  ASSUME NEW A \in Seq(Item), NEW W \in Seq(Item), NEW O \in Seq(Item), W # <<>>
  PROVE  (<<>> \o Append(A, Head(W))) \o (Tail(W) \o O) = (A \o <<>>) \o (W \o O)
<1>1. /\ Append(A, Head(W)) \o Tail(W) = A \o W
      /\ Append(A, Head(W)) \in Seq(Item) /\ Tail(W) \in Seq(Item)
  BY Zenon, Shift
<1>2. <<>> \o Append(A, Head(W)) = Append(A, Head(W)) /\ A \o <<>> = A
  BY Zenon, <1>1, ConcatEmptySeq
<1>3. Append(A, Head(W)) \o (Tail(W) \o O) = (Append(A, Head(W)) \o Tail(W)) \o O
  BY Zenon, <1>1, Associative
<1>4. A \o (W \o O) = (A \o W) \o O
  BY Zenon, Associative
<1> QED
  BY Zenon, <1>1, <1>2, <1>3, <1>4

\* What e does not touch of the pipe of the other end.
LEMMA OtherPipe ==
  ASSUME NEW x \in Ends, read_pending_frames'[x] = read_pending_frames[x],
         dist'[x] = dist[x], wire'[x] = wire[x],
         write_pending_frames'[Peer(x)] = write_pending_frames[Peer(x)],
         events'[Peer(x)] = events[Peer(x)], Alive(Peer(x))' <=> Alive(Peer(x))
  PROVE  Pipe(x)' = Pipe(x) /\ Out(Peer(x))' = Out(Peer(x))
BY Zenon DEF Pipe, Out

\* recv_frame: a frame of a stream goes from the socket into the read buffer.
LEMMA RecvStreamFrameStep ==
  ASSUME SessionInvariant, NEW e \in Ends, RecvStreamFrame(e), UNCHANGED setup
  PROVE  SessionInvariant'
<1> DEFINE p == Peer(e)  A == read_pending_frames[e]  W == wire[e]
<1>1. /\ Types /\ Queues /\ Fresh /\ Backed /\ Loop /\ Lanes /\ InOrder
      /\ up[e] /\ dist[e] = <<>> /\ Alive(e)
      /\ W # <<>> /\ Head(W).ty # "go_away"
      /\ wire' = [wire EXCEPT ![e] = Tail(W)]
      /\ dist' = [dist EXCEPT ![e] = Append(A, Head(W))]
      /\ block_substream' = [block_substream EXCEPT ![e] = {}]
      /\ read_pending_frames' = [read_pending_frames EXCEPT ![e] = <<>>]
      /\ UNCHANGED <<setup, flags, next_stream_id, streams, pending_streams,
                     write_pending_frames, events, chan, hold, sent, delivered, up>>
  BY Zenon DEF SessionInvariant, RecvStreamFrame, StartDistribute, Runs, Idle, Alive, handles
<1>2. /\ A \in Seq(StreamFrame) /\ W \in Seq(WireFrame) /\ Len(W) <= WireCap
  BY Zenon, <1>1 DEF Queues
<1>3. Head(W) \in StreamFrame /\ Tail(W) \in Seq(WireFrame) /\ Len(Tail(W)) <= WireCap
  <2>1. /\ Head(W) \in WireFrame /\ Tail(W) \in Seq(WireFrame) /\ Len(Tail(W)) = Len(W) - 1
        /\ Len(W) \in Nat /\ WireCap \in Nat
    BY Zenon, <1>1, <1>2, HeadTailProperties, LenProperties, SizesAssumption
  <2>2. Len(Tail(W)) <= WireCap
    BY <1>2, <2>1
  <2> QED
    BY <1>1, <2>1, <2>2 DEF WireFrame, GoAwayFrame, Frame
<1>4. /\ Append(A, Head(W)) \in Seq(StreamFrame) /\ Len(A) \in Nat
      /\ Len(Append(A, Head(W))) = Len(A) + 1
      /\ \A i \in 1 .. Len(A) : Append(A, Head(W))[i] = A[i]
  BY <1>2, <1>3, AppendProperties, LenProperties
<1>5. Types'
  BY Zenon, <1>1 DEF Types, flags
<1>6. Queues'
  <2>1. <<>> \in Seq(StreamFrame)
    BY Zenon, EmptySeq
  <2>2. /\ wire' \in [Ends -> Seq(WireFrame)] /\ dist' \in [Ends -> Seq(StreamFrame)]
        /\ read_pending_frames' \in [Ends -> Seq(StreamFrame)]
    BY Zenon, <1>1, <1>3, <1>4, <2>1 DEF Queues
  <2>3. \A x \in Ends : Len(wire'[x]) <= WireCap
    BY Zenon, <1>1, <1>3 DEF Queues
  <2> QED
    BY Zenon, <1>1, <2>2, <2>3, KnownKept DEF Queues
<1>7. Fresh' /\ Backed' /\ InOrder'
  BY Zenon, <1>1, HandlesKept
<1>8. \A x \in Ends : Alive(x)' <=> Alive(x)
  BY Zenon, <1>1, AliveKept
<1>9. /\ read_pending_frames'[e] = <<>> /\ dist'[e] = Append(A, Head(W))
      /\ block_substream'[e] = {} /\ wire'[e] = Tail(W)
      /\ \A x \in Ends : x # e =>
           /\ read_pending_frames'[x] = read_pending_frames[x] /\ dist'[x] = dist[x]
           /\ block_substream'[x] = block_substream[x] /\ wire'[x] = wire[x]
  BY Zenon, <1>1 DEF Queues, Types
<1>10. Loop'
  <2>1. ASSUME NEW x \in Ends, x # e PROVE LoopAt(x)'
    BY Zenon, <1>1, <1>8, <1>9, <2>1, LoopAtKept DEF Loop
  <2>2. LoopAt(e)'
    <3>1. \A i \in 1 .. Len(A) : A[i].ty # "syn"
      BY Zenon, <1>1 DEF Loop, LoopAt
    <3>2. \A i \in 1 .. Len(dist'[e]) : dist'[e][i].ty = "syn" => i = Len(dist'[e])
      BY <1>4, <1>9, <3>1
    <3>3. Len(<<>>) = 0
      BY Zenon
    <3> QED
      BY SMTT(30), <1>1, <1>8, <1>9, <3>2, <3>3 DEF LoopAt
  <2> QED
    BY Zenon, <2>1, <2>2 DEF Loop
<1>11. \A x \in Ends : Pipe(x)' = Pipe(x)
  <2>1. p \in Ends /\ p # e /\ Peer(p) = e /\ \A x \in Ends : x = e \/ x = p
    BY Zenon, PeerFacts
  <2>2. Pipe(p)' = Pipe(p)
    BY Zenon, <1>1, <1>8, <1>9, <2>1, OtherPipe
  <2>3. A \in Seq(Item) /\ W \in Seq(Item) /\ Out(p) \in Seq(Item)
    BY Zenon, <1>1, <2>1, QueuesParts DEF Parts
  <2>4. Out(p)' = Out(p)
    BY Zenon, <1>1, <1>8, <2>1 DEF Out
  <2>5. Pipe(e) = (A \o <<>>) \o (W \o Out(p))
    BY Zenon, <1>1 DEF Pipe
  <2>6. Pipe(e)' = (<<>> \o Append(A, Head(W))) \o (Tail(W) \o Out(p))
    BY Zenon, <1>9, <2>4 DEF Pipe
  <2>7. Pipe(e)' = Pipe(e)
    BY Zenon, <1>1, <2>3, <2>5, <2>6, MoveIn
  <2> QED
    BY Zenon, <2>1, <2>2, <2>7
<1>12. Lanes'
  <2> SUFFICES ASSUME NEW x \in Ends, Alive(x)', NEW id \in Ids PROVE Lane(x, id)'
    BY Zenon DEF Lanes
  <2>1. Lane(x, id) /\ Still(x, id)
    BY Zenon, <1>1, <1>8, StillKept, PeerFacts DEF Lanes
  <2> QED
    BY Zenon, <1>11, <2>1, SameKept, LaneSame
<1> QED
  BY Zenon, <1>5, <1>6, <1>7, <1>10, <1>12 DEF SessionInvariant


\* The lanes stay when what the pipes say does.
LEMMA LanesMoved ==
  ASSUME Lanes, UNCHANGED <<sent, hold, delivered>>,
         \A x \in Ends : streams'[x] \subseteq streams[x],
         \A x \in Ends : Alive(x)' => Alive(x),
         \A x \in Ends : Alive(x)' => \A id \in Ids : SameFor(Pipe(x), Pipe(x)', id)
  PROVE  Lanes'
<1> SUFFICES ASSUME NEW x \in Ends, Alive(x)', NEW id \in Ids PROVE Lane(x, id)'
  BY Zenon DEF Lanes
<1>1. Lane(x, id) /\ (Alive(Peer(x))' => Alive(Peer(x)))
  BY Zenon, PeerFacts DEF Lanes
<1>2. Still(x, id)
  BY Zenon, <1>1 DEF Still
<1> QED
  BY Zenon, <1>1, <1>2, LaneSame

\* send_all moves what waits on to the connection.
LEMMA FlushStep ==
  ASSUME SessionInvariant, NEW e \in Ends, Flush(e), UNCHANGED setup
  PROVE  SessionInvariant'
<1> DEFINE p == Peer(e)  A == read_pending_frames[e]
<1>1. /\ Types /\ Queues /\ Fresh /\ Backed /\ Loop /\ Lanes /\ InOrder
      /\ up[e] /\ dist[e] = <<>> /\ Alive(e)
      /\ SendAll(e, write_pending_frames[e], wire)
      /\ dist' = [dist EXCEPT ![e] = A]
      /\ block_substream' = [block_substream EXCEPT ![e] = {}]
      /\ read_pending_frames' = [read_pending_frames EXCEPT ![e] = <<>>]
      /\ UNCHANGED <<setup, flags, next_stream_id, streams, pending_streams,
                     events, chan, hold, sent, delivered, up>>
  BY Zenon DEF SessionInvariant, Flush, StartDistribute, Runs, Idle, Alive, handles
<1>2. /\ A \in Seq(StreamFrame) /\ write_pending_frames[e] \in Seq(WireFrame)
      /\ wire \in [Ends -> Seq(WireFrame)] /\ \A x \in Ends : Len(wire[x]) <= WireCap
  BY Zenon, <1>1 DEF Queues
<1>3. /\ wire' \in [Ends -> Seq(WireFrame)] /\ \A x \in Ends : Len(wire'[x]) <= WireCap
      /\ write_pending_frames' \in [Ends -> Seq(WireFrame)]
      /\ wire'[e] = wire[e]
      /\ write_pending_frames'[p] = write_pending_frames[p]
      /\ up[p] => Onward(wire'[p], write_pending_frames'[e], wire[p], write_pending_frames[e])
  <2>1. Types /\ Queues /\ SendAll(e, write_pending_frames[e], wire)
    BY Zenon, <1>1
  <2> QED
    BY Zenon, <1>2, <2>1, SendAllFacts
<1>5. Types'
  BY Zenon, <1>1 DEF Types, flags
<1>6. Queues'
  <2>1. <<>> \in Seq(StreamFrame)
    BY Zenon, EmptySeq
  <2>2. /\ dist' \in [Ends -> Seq(StreamFrame)]
        /\ read_pending_frames' \in [Ends -> Seq(StreamFrame)]
    BY Zenon, <1>1, <1>2, <2>1 DEF Queues
  <2> QED
    BY Zenon, <1>1, <1>3, <2>2, KnownKept DEF Queues
<1>7. Fresh' /\ Backed' /\ InOrder'
  BY Zenon, <1>1, HandlesKept
<1>8. \A x \in Ends : Alive(x)' <=> Alive(x)
  BY Zenon, <1>1, AliveKept
<1>9. /\ read_pending_frames'[e] = <<>> /\ dist'[e] = A
      /\ block_substream'[e] = {}
      /\ \A x \in Ends : x # e =>
           /\ read_pending_frames'[x] = read_pending_frames[x] /\ dist'[x] = dist[x]
           /\ block_substream'[x] = block_substream[x]
  BY Zenon, <1>1 DEF Queues, Types
<1>10. Loop'
  <2>1. ASSUME NEW x \in Ends, x # e PROVE LoopAt(x)'
    BY Zenon, <1>1, <1>8, <1>9, <2>1, LoopAtKept DEF Loop
  <2>2. LoopAt(e)'
    <3>1. \A i \in 1 .. Len(A) : A[i].ty # "syn"
      BY Zenon, <1>1 DEF Loop, LoopAt
    <3>2. Len(<<>>) = 0
      BY Zenon
    <3> QED
      BY <1>1, <1>8, <1>9, <3>1, <3>2 DEF LoopAt
  <2> QED
    BY Zenon, <2>1, <2>2 DEF Loop
<1>11. \A x \in Ends : Alive(x)' => Pipe(x)' = Pipe(x)
  <2>1. p \in Ends /\ p # e /\ Peer(p) = e /\ \A x \in Ends : x = e \/ x = p
    BY Zenon, PeerFacts
  <2>2. ASSUME Alive(p)' PROVE Pipe(p)' = Pipe(p)
    <3>1. up[p]
      BY Zenon, <1>1, <2>2 DEF Alive
    <3>2. Flat /\ Flat'
      BY <1>1, <1>6, QueuesFlat, PTL
    <3>3. /\ Pipe(p) = (read_pending_frames[p] \o dist[p])
                         \o ((wire[p] \o write_pending_frames[e]) \o events[e])
          /\ Pipe(p)' = (read_pending_frames'[p] \o dist'[p])
                         \o ((wire'[p] \o write_pending_frames'[e]) \o events'[e])
      BY Zenon, <1>1, <1>8, <3>2 DEF Flat
    <3> QED
      BY Zenon, <1>1, <1>3, <1>9, <2>1, <3>1, <3>3 DEF Onward
  <2>3. A \in Seq(Item)
    BY Zenon, <1>1, QueuesParts DEF Parts
  <2>4. Out(p)' = Out(p)
    BY Zenon, <1>1, <1>3, <1>8, <2>1 DEF Out
  <2>5. <<>> \o A = A \o <<>>
    BY Zenon, <2>3, ConcatEmptySeq
  <2>6. Pipe(e)' = Pipe(e)
    BY Zenon, <1>1, <1>3, <1>9, <2>4, <2>5 DEF Pipe
  <2> QED
    BY Zenon, <2>1, <2>2, <2>6
<1>12. Lanes'
  BY Zenon, <1>1, <1>8, <1>11, SameKept, LanesMoved
<1> QED
  BY Zenon, <1>5, <1>6, <1>7, <1>10, <1>12 DEF SessionInvariant

\* A frame of a blocked stream goes back to the buffer, and so does one whose channel
\* is full.
LEMMA KeptBack ==
  ASSUME Queues, NEW e \in Ends, dist[e] # <<>>,
         \A x \in Ends : Alive(x)' <=> Alive(x),
         UNCHANGED <<wire, write_pending_frames, events>>, StepOn(e), KeepPending(e)
  PROVE  /\ \A x \in Ends : Pipe(x)' = Pipe(x)
         /\ dist' \in [Ends -> Seq(StreamFrame)]
         /\ read_pending_frames' \in [Ends -> Seq(StreamFrame)]
<1> DEFINE p == Peer(e)  A == read_pending_frames[e]  B == dist[e]
<1>1. /\ A \in Seq(StreamFrame) /\ B \in Seq(StreamFrame)
      /\ Head(B) \in StreamFrame /\ Tail(B) \in Seq(StreamFrame)
  BY Zenon, HeadTailProperties DEF Queues
<1>2. Append(A, Head(B)) \in Seq(StreamFrame)
  BY Zenon, <1>1, AppendProperties
<1>3. /\ dist' = [dist EXCEPT ![e] = Tail(B)]
      /\ read_pending_frames' = [read_pending_frames EXCEPT ![e] = Append(A, Head(B))]
  BY Zenon DEF StepOn, KeepPending, NextFrame
<1>4. /\ dist' \in [Ends -> Seq(StreamFrame)] /\ dist'[e] = Tail(B)
      /\ read_pending_frames' \in [Ends -> Seq(StreamFrame)]
      /\ read_pending_frames'[e] = Append(A, Head(B))
      /\ \A x \in Ends : x # e =>
           read_pending_frames'[x] = read_pending_frames[x] /\ dist'[x] = dist[x]
  BY Zenon, <1>1, <1>2, <1>3 DEF Queues
<1>5. p \in Ends /\ p # e /\ Peer(p) = e /\ \A x \in Ends : x = e \/ x = p
  BY Zenon, PeerFacts
<1>6. Pipe(p)' = Pipe(p)
  BY Zenon, <1>4, <1>5, OtherPipe
<1>7. Out(p)' = Out(p)
  BY Zenon, <1>5 DEF Out
<1>8. Append(A, Head(B)) \o Tail(B) = A \o B
  <2>1. A \in Seq(Item) /\ B \in Seq(Item)
    BY Zenon, QueuesParts DEF Parts
  <2> QED
    BY Zenon, <2>1, Shift
<1>9. Pipe(e)' = Pipe(e)
  BY Zenon, <1>4, <1>7, <1>8 DEF Pipe
<1> QED
  BY Zenon, <1>4, <1>5, <1>6, <1>9


\* The frame distribute_to_substream looks at, among all that is under way.
LEMMA HeadOfPipe ==
  ASSUME Queues, NEW e \in Ends, dist[e] # <<>>, NEW P,
         P = (read_pending_frames[e] \o Tail(dist[e])) \o (wire[e] \o Out(Peer(e)))
  PROVE  /\ Put(P, Pipe(e), Len(read_pending_frames[e]), Head(dist[e]))
         /\ Clear(P, Len(read_pending_frames[e]))
         /\ \A i \in 1 .. Len(read_pending_frames[e]) : P[i] = read_pending_frames[e][i]
<1> DEFINE A == read_pending_frames[e]  B == dist[e]  C == wire[e] \o Out(Peer(e))
<1>1. A \in Seq(Item) /\ B \in Seq(Item) /\ C \in Seq(Item)
  BY Zenon, QueuesParts DEF Parts
<1>2. Tail(B) \in Seq(Item) /\ Len(A) \in Nat
  BY Zenon, <1>1, HeadTailProperties, LenProperties
<1>3. Put(Tail(B), B, 0, Head(B))
  BY Zenon, <1>1, PutFirst
<1>4. Put(A \o Tail(B), A \o B, Len(A) + 0, Head(B))
  BY Zenon, <1>1, <1>3, PutInPart
<1>5. Put((A \o Tail(B)) \o C, (A \o B) \o C, Len(A) + 0, Head(B))
  BY Zenon, <1>1, <1>4, PutInPart
<1>6. Len(A) + 0 = Len(A)
  BY <1>2
<1>7. /\ A \o Tail(B) \in Seq(Item) /\ Len(A \o Tail(B)) = Len(A) + Len(Tail(B))
      /\ Len(Tail(B)) \in Nat /\ Len(C) \in Nat
      /\ \A i \in 1 .. Len(A) + Len(Tail(B)) :
           (A \o Tail(B))[i] = IF i <= Len(A) THEN A[i] ELSE Tail(B)[i - Len(A)]
  BY Zenon, <1>1, <1>2, ConcatProperties, LenProperties
<1> DEFINE D == A \o Tail(B)
<1>8. ASSUME NEW i \in 1 .. Len(A) PROVE i \in 1 .. Len(D) /\ D[i] = A[i]
  <2>1. \A k, l \in Nat : i \in 1 .. k => i \in 1 .. k + l /\ i <= k
    OBVIOUS
  <2>2. i \in 1 .. Len(A) + Len(Tail(B)) /\ i <= Len(A)
    BY <1>2, <1>7, <2>1, Zenon
  <2> QED
    BY Zenon, <1>7, <2>2
<1>9. D \in Seq(Item) /\ Len(D) \in Nat
  BY Zenon, <1>7, LenProperties
<1> HIDE DEF D
<1>10. \A i \in 1 .. Len(D) + Len(C) : (D \o C)[i] = IF i <= Len(D) THEN D[i] ELSE C[i - Len(D)]
  BY Zenon, <1>1, <1>9, ConcatProperties
<1>11. \A i \in 1 .. Len(D) : (D \o C)[i] = D[i]
  BY <1>7, <1>9, <1>10
<1>12. \A i \in 1 .. Len(A) : P[i] = A[i]
  BY Zenon, <1>8, <1>11 DEF D
<1>13. \A i \in 1 .. Len(A) : A[i].ty # "go_away"
  <2>1. A \in Seq(StreamFrame)
    BY Zenon DEF Queues
  <2>2. \A i \in 1 .. Len(A) : A[i] \in StreamFrame
    BY Zenon, <2>1, ElementOfSeq
  <2> QED
    BY Zenon, <2>2 DEF StreamFrame
<1> QED
  BY Zenon, <1>5, <1>6, <1>12, <1>13 DEF Pipe, Clear

\* A Syn in the buffer is for a stream without a handle.
LEMMA SynAtHead ==
  ASSUME Queues, Lanes, NEW e \in Ends, dist[e] # <<>>, Alive(e),
         Head(dist[e]).ty = "syn"
  PROVE  /\ Head(dist[e]).id \in Ids
         /\ hold[e][Head(dist[e]).id] = "none"
         /\ Owner(Head(dist[e]).id) = Peer(e)
<1> DEFINE P == (read_pending_frames[e] \o Tail(dist[e])) \o (wire[e] \o Out(Peer(e)))
           f == Head(dist[e])
<1>1. /\ Put(P, Pipe(e), Len(read_pending_frames[e]), f)
      /\ Clear(P, Len(read_pending_frames[e]))
  BY Zenon, HeadOfPipe
<1>2. f \in StreamFrame
  <2>1. dist[e] \in Seq(StreamFrame)
    BY Zenon DEF Queues
  <2> QED
    BY Zenon, <2>1, HeadTailProperties
<1>3. f.id \in Ids
  BY Zenon, <1>2 DEF StreamFrame, Known
<1> HIDE DEF P
<1>4. SynIn(Pipe(e), f.id)
  <2>1. Is(f, "syn", f.id)
    BY Zenon DEF Is
  <2> HIDE DEF f
  <2> QED
    BY Zenon, <1>1, <2>1, SynReceived
<1>5. Lane(e, f.id)
  BY Zenon, <1>3 DEF Lanes
<1> QED
  BY Zenon, <1>3, <1>4, <1>5 DEF Lane

\* A Syn in the loop is its last frame.
LEMMA TailSyn ==
  ASSUME NEW B \in Seq(Item), B # <<>>,
         \A i \in 1 .. Len(B) : B[i].ty = "syn" => i = Len(B)
  PROVE  /\ \A i \in 1 .. Len(Tail(B)) : Tail(B)[i].ty = "syn" => i = Len(Tail(B))
         /\ Head(B).ty = "syn" => Tail(B) = <<>>
<1> DEFINE T == Tail(B)  n == Len(B)  k == Len(T)
<1>1. n \in Nat /\ n # 0 /\ k = n - 1 /\ Head(B) = B[1] /\ T \in Seq(Item)
  BY EmptySeq, HeadTailProperties
<1>2. \A i \in 1 .. k : T[i] = B[i + 1]
  BY Zenon, HeadTailProperties
<1>3. T # <<>> => k # 0
  BY Zenon, <1>1, EmptySeq
<1>4. \A i \in 1 .. n : B[i].ty = "syn" => i = n
  BY Zenon
<1> HIDE DEF T, n, k
<1>5. \A i \in 1 .. k : i + 1 \in 1 .. n
  BY <1>1
<1>6. \A i \in 1 .. k : T[i].ty = "syn" => i + 1 = n
  BY Zenon, <1>2, <1>4, <1>5
<1>7. \A i \in 1 .. k : T[i].ty = "syn" => i = k
  BY <1>1, <1>6
<1>8. 1 \in 1 .. n
  BY <1>1
<1>9. Head(B).ty = "syn" => n = 1
  BY Zenon, <1>1, <1>4, <1>8
<1>10. Head(B).ty = "syn" => k = 0
  BY <1>1, <1>9
<1> QED
  BY Zenon, <1>3, <1>7, <1>10 DEF T, k

\* The loop goes on with the frame put back.
LEMMA LoopPutBack ==
  ASSUME Queues, NEW e \in Ends, LoopAt(e), dist[e] # <<>>,
         Head(dist[e]).ty # "syn",
         dist'[e] = Tail(dist[e]),
         read_pending_frames'[e] = Append(read_pending_frames[e], Head(dist[e])),
         Head(dist[e]).id \in block_substream'[e],
         block_substream[e] \subseteq block_substream'[e],
         \A id \in block_substream'[e] : hold'[e][id] # "none", Alive(e)'
  PROVE  LoopAt(e)'
<1> DEFINE A == read_pending_frames[e]  B == dist[e]  R == Append(A, Head(B))
<1>1. A \in Seq(Item) /\ B \in Seq(Item) /\ Head(B) \in Item
  BY Zenon, QueuesParts, HeadTailProperties DEF Parts
<1>2. /\ Len(A) \in Nat /\ Len(R) = Len(A) + 1 /\ R[Len(A) + 1] = Head(B)
      /\ \A i \in 1 .. Len(A) : R[i] = A[i]
  BY SMTT(30), <1>1, LenProperties, AppendProperties
<1> HIDE DEF R
<1>3. \A i \in 1 .. Len(R) : R[i] = Head(B) \/ \E j \in 1 .. Len(A) : R[i] = A[j]
  BY <1>2
<1>4. /\ \A i \in 1 .. Len(A) : A[i].ty # "syn" /\ A[i].id \in block_substream[e]
      /\ \A i \in 1 .. Len(B) : B[i].ty = "syn" => i = Len(B)
  BY Zenon DEF LoopAt
<1>5. \A i \in 1 .. Len(R) : R[i].ty # "syn" /\ R[i].id \in block_substream'[e]
  BY Zenon, <1>3, <1>4
<1>6. \A i \in 1 .. Len(Tail(B)) : Tail(B)[i].ty = "syn" => i = Len(Tail(B))
  BY Zenon, <1>1, <1>4, TailSyn
<1> QED
  BY Zenon, <1>5, <1>6 DEF LoopAt, R

\* distribute_to_substream puts a frame of a blocked stream back.
LEMMA DistributeBlockedStep ==
  ASSUME SessionInvariant, NEW e \in Ends, DistributeBlocked(e), UNCHANGED setup
  PROVE  SessionInvariant'
<1>1. /\ Types /\ Queues /\ Fresh /\ Backed /\ Loop /\ Lanes /\ InOrder
      /\ up[e] /\ dist[e] # <<>> /\ Head(dist[e]).id \in block_substream[e]
      /\ StepOn(e) /\ KeepPending(e)
      /\ UNCHANGED <<setup, flags, next_stream_id, streams, pending_streams,
                     write_pending_frames, wire, block_substream, events,
                     chan, hold, sent, delivered, up>>
  BY Zenon DEF SessionInvariant, DistributeBlocked, Distributing, Skip, NextFrame, handles
<1>2. \A x \in Ends : Alive(x)' <=> Alive(x)
  BY Zenon, <1>1, AliveKept
<1>3. /\ \A x \in Ends : Pipe(x)' = Pipe(x)
      /\ dist' \in [Ends -> Seq(StreamFrame)]
      /\ read_pending_frames' \in [Ends -> Seq(StreamFrame)]
  BY Zenon, <1>1, <1>2, KeptBack
<1>4. Types'
  BY Zenon, <1>1 DEF Types, flags
<1>5. Queues'
  BY Zenon, <1>1, <1>3, KnownKept DEF Queues
<1>6. Fresh' /\ Backed' /\ InOrder'
  BY Zenon, <1>1, HandlesKept
<1>7. /\ dist'[e] = Tail(dist[e])
      /\ read_pending_frames'[e] = Append(read_pending_frames[e], Head(dist[e]))
      /\ \A x \in Ends : x # e =>
           read_pending_frames'[x] = read_pending_frames[x] /\ dist'[x] = dist[x]
  BY Zenon, <1>1 DEF Queues, StepOn, KeepPending, NextFrame
<1>8. Loop'
  <2>1. ASSUME NEW x \in Ends, x # e PROVE LoopAt(x)'
    BY Zenon, <1>1, <1>2, <1>7, <2>1, LoopAtKept DEF Loop
  <2>2. LoopAt(e)'
    <3>1. /\ LoopAt(e) /\ Alive(e) /\ Alive(e)'
          /\ \A id \in block_substream'[e] : hold'[e][id] # "none"
      BY Zenon, <1>1, <1>2 DEF Loop, LoopAt
    <3>2. Head(dist[e]).ty # "syn"
      BY Zenon, <1>1, <3>1, SynAtHead
    <3> QED
      BY Zenon, <1>1, <1>7, <3>1, <3>2, LoopPutBack
  <2> QED
    BY Zenon, <2>1, <2>2 DEF Loop
<1>9. Lanes'
  BY Zenon, <1>1, <1>2, <1>3, SameKept, LanesMoved
<1> QED
  BY Zenon, <1>4, <1>5, <1>6, <1>8, <1>9 DEF SessionInvariant


(***************************************************************************)
(* recv_events                                                             *)
(***************************************************************************)
\* A frame a handle asked for joins what waits to be sent.
LEMMA MoveOut ==
  ASSUME NEW W \in Seq(Item), NEW V \in Seq(Item), NEW E \in Seq(Item), E # <<>>
  PROVE  (W \o Append(V, Head(E))) \o Tail(E) = (W \o V) \o E
<1>1. /\ Append(V, Head(E)) \o Tail(E) = V \o E
      /\ Append(V, Head(E)) \in Seq(Item) /\ Tail(E) \in Seq(Item)
  BY Zenon, Shift
<1>2. (W \o Append(V, Head(E))) \o Tail(E) = W \o (Append(V, Head(E)) \o Tail(E))
  BY Zenon, <1>1, Associative
<1>3. (W \o V) \o E = W \o (V \o E)
  BY Zenon, Associative
<1> QED
  BY Zenon, <1>1, <1>2, <1>3

\* recv_events: what a handle sent is queued for the socket.
LEMMA RecvEventStep ==
  ASSUME SessionInvariant, NEW e \in Ends, RecvEvent(e), UNCHANGED setup
  PROVE  SessionInvariant'
<1> DEFINE p == Peer(e)  E == events[e]  ev == Head(events[e])
<1>1. /\ Types /\ Queues /\ Fresh /\ Backed /\ Loop /\ Lanes /\ InOrder
      /\ up[e] /\ dist[e] = <<>> /\ Alive(e) /\ E # <<>>
      /\ events' = [events EXCEPT ![e] = Tail(E)]
      /\ UNCHANGED <<setup, flags, next_stream_id, pending_streams, read_pending_frames,
                     dist, block_substream, chan, hold, sent, delivered, up>>
  BY Zenon DEF SessionInvariant, RecvEvent, Runs, Idle, Alive, handles, loop
<1>2. \/ /\ ev.ty = "closed"
         /\ streams' = [streams EXCEPT ![e] = @ \ {ev.id}]
         /\ UNCHANGED <<wire, write_pending_frames>>
      \/ /\ ev.ty # "closed"
         /\ SendAll(e, Append(write_pending_frames[e], ev), wire)
         /\ UNCHANGED streams
  BY Zenon DEF RecvEvent, SendFrame
<1>3. /\ E \in Seq(Event) /\ ev \in Event /\ Tail(E) \in Seq(Event)
      /\ write_pending_frames[e] \in Seq(WireFrame)
      /\ wire \in [Ends -> Seq(WireFrame)] /\ \A x \in Ends : Len(wire[x]) <= WireCap
  BY Zenon, <1>1, HeadTailProperties DEF Queues
<1>4. p \in Ends /\ p # e /\ Peer(p) = e /\ \A x \in Ends : x = e \/ x = p
  BY Zenon, PeerFacts
<1>5. /\ events' \in [Ends -> Seq(Event)]
      /\ events'[e] = Tail(E) /\ \A x \in Ends : x # e => events'[x] = events[x]
  BY Zenon, <1>1, <1>3 DEF Queues
<1>6. \A x \in Ends : Alive(x)' <=> Alive(x)
  BY Zenon, <1>1, AliveKept
<1>7. \A x \in Ends : streams'[x] \subseteq streams[x]
  BY ZenonT(30), <1>1, <1>2 DEF Types
<1>8. Types'
  <2>1. \A k : [streams EXCEPT ![e] = @ \ {k}] \in [Ends -> SUBSET Ids]
    BY Zenon, <1>1 DEF Types
  <2>2. streams' \in [Ends -> SUBSET Ids]
    <3>1. streams \in [Ends -> SUBSET Ids]
      BY Zenon, <1>1 DEF Types
    <3>2. (\E k : streams' = [streams EXCEPT ![e] = @ \ {k}]) \/ streams' = streams
      BY Zenon, <1>2
    <3> QED
      BY Zenon, <2>1, <3>1, <3>2
  <2> QED
    BY Zenon, <1>1, <2>2 DEF Types, flags
<1>9. Fresh' /\ InOrder'
  <2>1. Fresh'
    BY Zenon, <1>1, KnownKept DEF Fresh
  <2> QED
    BY Zenon, <1>1, <2>1 DEF InOrder
<1>10. Backed'
  BY Zenon, <1>1, <1>7, BackedAtKept DEF Backed
<1>11. Loop'
  BY Zenon, <1>1, <1>6, LoopAtKept DEF Loop
<1>12. CASE /\ ev.ty = "closed"
            /\ streams' = [streams EXCEPT ![e] = @ \ {ev.id}]
            /\ UNCHANGED <<wire, write_pending_frames>>
  <2>1. Queues'
    BY Zenon, <1>1, <1>5, <1>12, KnownKept DEF Queues
  <2>2. Pipe(e)' = Pipe(e)
    BY Zenon, <1>1, <1>4, <1>5, <1>6, <1>12, OtherPipe
  <2>3. \A id \in Ids : SameFor(Pipe(p), Pipe(p)', id)
    <3> DEFINE A == read_pending_frames[p] \o dist[p]  B == wire[p] \o write_pending_frames[e]
    <3>1. Flat /\ Flat'
      BY <1>1, <2>1, QueuesFlat, PTL
    <3>2. Pipe(p) = A \o (B \o E) /\ Pipe(p)' = A \o (B \o Tail(E))
      BY Zenon, <1>1, <1>4, <1>5, <1>6, <1>12, <3>1 DEF Flat
    <3>3. A \in Seq(Item) /\ B \in Seq(Item) /\ E \in Seq(Item)
      BY Zenon, <1>1, <1>4, QueuesParts, ConcatProperties DEF Parts
    <3> HIDE DEF A, B
    <3>4. Put(Tail(E), E, 0, ev)
      BY Zenon, <1>1, <3>3, PutFirst
    <3>5. \E m : Put(B \o Tail(E), B \o E, m, ev)
      BY Zenon, <3>3, <3>4, PutInPart
    <3>6. \E m : Put(A \o (B \o Tail(E)), A \o (B \o E), m, ev)
      BY Zenon, <3>3, <3>5, PutInPart
    <3>7. \A id \in Ids : Silent(ev, id)
      BY Zenon, <1>12 DEF Silent, Is
    <3> QED
      BY Zenon, <3>2, <3>6, <3>7, PutSame
  <2>4. Lanes'
    BY Zenon, <1>1, <1>4, <1>6, <1>7, <2>2, <2>3, SameKept, LanesMoved
  <2> QED
    BY Zenon, <1>8, <1>9, <1>10, <1>11, <2>1, <2>4 DEF SessionInvariant
<1>13. CASE /\ ev.ty # "closed"
            /\ SendAll(e, Append(write_pending_frames[e], ev), wire)
            /\ UNCHANGED streams
  <2>1. ev \in WireFrame /\ Append(write_pending_frames[e], ev) \in Seq(WireFrame)
    <3>1. ev \in WireFrame
      BY <1>3, <1>13 DEF Event, WireFrame, Closed
    <3> QED
      BY Zenon, <1>3, <3>1, AppendProperties
  <2>2. Types /\ Queues /\ SendAll(e, Append(write_pending_frames[e], ev), wire)
    BY Zenon, <1>1, <1>13
  <2>3. /\ wire' \in [Ends -> Seq(WireFrame)] /\ \A x \in Ends : Len(wire'[x]) <= WireCap
        /\ write_pending_frames' \in [Ends -> Seq(WireFrame)]
        /\ wire'[e] = wire[e]
        /\ write_pending_frames'[p] = write_pending_frames[p]
        /\ up[p] => Onward(wire'[p], write_pending_frames'[e], wire[p],
                           Append(write_pending_frames[e], ev))
    <3> HIDE DEF ev
    <3> QED
      BY Zenon, <1>3, <2>1, <2>2, SendAllFacts
  <2>4. Queues'
    BY Zenon, <1>1, <1>5, <2>3, KnownKept DEF Queues
  <2>5. Pipe(e)' = Pipe(e)
    BY Zenon, <1>1, <1>4, <1>5, <1>6, <2>3, OtherPipe
  <2>6. ASSUME Alive(p)' PROVE Pipe(p)' = Pipe(p)
    <3> DEFINE A == read_pending_frames[p] \o dist[p]
    <3>1. Flat /\ Flat'
      BY <1>1, <2>4, QueuesFlat, PTL
    <3>2. /\ Pipe(p) = A \o ((wire[p] \o write_pending_frames[e]) \o E)
          /\ Pipe(p)' = A \o ((wire'[p] \o write_pending_frames'[e]) \o Tail(E))
      BY Zenon, <1>1, <1>4, <1>5, <1>6, <3>1 DEF Flat
    <3>3. up[p]
      BY Zenon, <1>1, <2>6 DEF Alive
    <3>4. wire'[p] \o write_pending_frames'[e] = wire[p] \o Append(write_pending_frames[e], ev)
      BY Zenon, <2>3, <3>3 DEF Onward
    <3>5. wire[p] \in Seq(Item) /\ write_pending_frames[e] \in Seq(Item) /\ E \in Seq(Item)
      BY Zenon, <1>1, <1>4, QueuesParts DEF Parts
    <3>6. (wire[p] \o Append(write_pending_frames[e], ev)) \o Tail(E)
            = (wire[p] \o write_pending_frames[e]) \o E
      BY ZenonT(30), <1>1, <3>5, MoveOut
    <3> QED
      BY Zenon, <3>2, <3>4, <3>6
  <2>7. Lanes'
    BY Zenon, <1>1, <1>4, <1>6, <1>7, <2>5, <2>6, SameKept, LanesMoved
  <2> QED
    BY Zenon, <1>8, <1>9, <1>10, <1>11, <2>4, <2>7 DEF SessionInvariant
<1> QED
  BY Zenon, <1>2, <1>12, <1>13

=============================================================================
