------------------------- MODULE YamuxSessionProofs -------------------------
(***************************************************************************)
(* Every step of YamuxSession keeps SessionInvariant, and the theorems,    *)
(* for every number of streams and every size of the queues: two of these  *)
(* sessions never accuse each other of a protocol error, and each stream   *)
(* is an ordered one (OrderedStreams).                                     *)
(***************************************************************************)
EXTENDS YamuxSessionPipes

(***************************************************************************)
(* Steps that end what a session sends                                     *)
(***************************************************************************)
\* The other end keeps what is on the connection; after that it gets a GoAway or nothing.
LEMMA LanesCut ==
  ASSUME Lanes, NEW e \in Ends, UNCHANGED <<sent, delivered>>,
         hold'[Peer(e)] = hold[Peer(e)], streams'[Peer(e)] = streams[Peer(e)],
         \A x \in Ends : Alive(x)' => Alive(x),
         Alive(e)' => /\ Pipe(e)' = Pipe(e) /\ hold'[e] = hold[e]
                      /\ streams'[e] = streams[e],
         Alive(Peer(e))' =>
           /\ Cut(Pipe(Peer(e)), Pipe(Peer(e))')
           /\ ~Alive(e)' \/ ~Clear(Pipe(Peer(e))', Len(Pipe(Peer(e))'))
  PROVE  Lanes'
<1> DEFINE p == Peer(e)
<1>1. p \in Ends /\ p # e /\ Peer(p) = e /\ \A x \in Ends : x = e \/ x = p
  BY Zenon, PeerFacts
<1>2. ASSUME NEW id \in Ids, Alive(e)' PROVE Lane(e, id)'
  <2>1. Lane(e, id) /\ Still(e, id)
    BY Zenon, <1>1, <1>2 DEF Lanes, Still
  <2> QED
    BY Zenon, <1>2, <2>1, SameKept, LaneSame
<1>3. ASSUME NEW id \in Ids, Alive(p)' PROVE Lane(p, id)'
  <2>1. Lane(p, id) /\ Still(p, id)
    BY Zenon, <1>1, <1>3 DEF Lanes, Still
  <2> QED
    BY Zenon, <1>1, <1>3, <2>1, LaneCut
<1> QED
  BY Zenon, <1>1, <1>2, <1>3 DEF Lanes

\* A session that is dead sends nothing more.
LEMMA SaidLast ==
  ASSUME Queues, NEW e \in Ends, ~Alive(e)', NEW R \in Seq(Item),
         R = <<>> \/ R[1].ty = "go_away",
         read_pending_frames'[Peer(e)] = read_pending_frames[Peer(e)],
         dist'[Peer(e)] = dist[Peer(e)],
         wire'[Peer(e)] = wire[Peer(e)] \o R
  PROVE  Cut(Pipe(Peer(e)), Pipe(Peer(e))')
<1> DEFINE p == Peer(e)  A == read_pending_frames[p] \o dist[p]
<1>1. p \in Ends /\ Peer(p) = e
  BY Zenon, PeerFacts
<1>2. A \in Seq(Item) /\ wire[p] \in Seq(Item) /\ Out(e) \in Seq(Item)
  BY Zenon, <1>1, QueuesParts DEF Parts
<1>3. Out(e)' = <<>>
  BY Zenon DEF Out
<1>4. (wire[p] \o R) \o <<>> = wire[p] \o R
  BY Zenon, <1>2, ConcatProperties, ConcatEmptySeq
<1>5. Pipe(p) = A \o (wire[p] \o Out(e)) /\ Pipe(p)' = A \o (wire[p] \o R)
  BY Zenon, <1>1, <1>3, <1>4 DEF Pipe
<1> HIDE DEF A, p
<1>6. Cut(A \o (wire[p] \o Out(e)), A \o (wire[p] \o R))
  BY Zenon, <1>2, CutJoin
<1> QED
  BY Zenon, <1>5, <1>6 DEF p

\* Nothing was put on the connection with it.
LEMMA SaidNothing ==
  ASSUME Queues, NEW e \in Ends, ~Alive(e)',
         read_pending_frames'[Peer(e)] = read_pending_frames[Peer(e)],
         dist'[Peer(e)] = dist[Peer(e)],
         wire'[Peer(e)] = wire[Peer(e)]
  PROVE  Cut(Pipe(Peer(e)), Pipe(Peer(e))')
<1>1. wire[Peer(e)] \in Seq(Item) /\ <<>> \in Seq(Item)
  BY Zenon, PeerFacts, QueuesParts, EmptySeq DEF Parts
<1>2. wire'[Peer(e)] = wire[Peer(e)] \o <<>>
  BY Zenon, <1>1, ConcatEmptySeq
<1> QED
  BY Zenon, <1>1, <1>2, SaidLast

\* The socket is at its end.
LEMMA RecvEofStep ==
  ASSUME SessionInvariant, NEW e \in Ends, RecvEof(e) \/ GoAwayTimeout(e),
         UNCHANGED setup
  PROVE  SessionInvariant'
<1>1. /\ Types /\ Queues /\ Fresh /\ Backed /\ Loop /\ Lanes /\ InOrder
      /\ dist[e] = <<>>
      /\ UNCHANGED <<setup, next_stream_id, streams, pending_streams, pending, dist,
                     block_substream, events, chan, hold, sent, delivered, up>>
  BY Zenon DEF SessionInvariant, RecvEof, GoAwayTimeout, Runs, Idle, handles, loop
<1>2. \/ /\ eof' = [eof EXCEPT ![e] = TRUE] /\ UNCHANGED <<remote_go_away, local_go_away>>
      \/ /\ remote_go_away' = [remote_go_away EXCEPT ![e] = TRUE] /\ local_go_away[e]
         /\ UNCHANGED <<eof, local_go_away>>
  BY Zenon DEF RecvEof, GoAwayTimeout
<1>3. ~Alive(e)' /\ \A x \in Ends : x # e => (Alive(x)' <=> Alive(x))
  BY Zenon, <1>1, <1>2 DEF Types, Alive, is_dead
<1>4. Types'
  <2>1. /\ eof' \in [Ends -> BOOLEAN] /\ remote_go_away' \in [Ends -> BOOLEAN]
        /\ local_go_away' \in [Ends -> BOOLEAN]
    BY Zenon, <1>1, <1>2 DEF Types
  <2> QED
    BY Zenon, <1>1, <2>1 DEF Types
<1>5. Queues' /\ Fresh' /\ Backed' /\ InOrder'
  BY Zenon, <1>1, HandlesKept, QueuesKept
<1>6. Loop'
  BY Zenon, <1>1, <1>3, LoopAtKept DEF Loop, pending
<1>7. Lanes'
  <2>1. Cut(Pipe(Peer(e)), Pipe(Peer(e))')
    BY Zenon, <1>1, <1>3, SaidNothing DEF pending
  <2> QED
    BY Zenon, <1>1, <1>3, <2>1, LanesCut
<1> QED
  BY Zenon, <1>4, <1>5, <1>6, <1>7 DEF SessionInvariant

\* What send_go_away_with_code puts on the connection.
LEMMA GoAwayOut ==
  ASSUME NEW R, NEW k \in 0 .. Len(<<GoAwayFrame(Normal)>>),
         R = SubSeq(<<GoAwayFrame(Normal)>>, 1, k)
  PROVE  R \in Seq(Item) /\ (R = <<>> \/ R[1].ty = "go_away")
<1> DEFINE g == GoAwayFrame(Normal)  q == <<g>>
<1>1. g \in Item /\ g.ty = "go_away"
  BY Zenon, FramesAreItems DEF WireFrame, GoAwayFrame, Frame
<1> HIDE DEF g
<1>2. Len(q) = 1 /\ q[1] = g /\ q \in Seq(Item)
  BY <1>1
<1>3. k = 0 \/ k = 1
  BY <1>2 DEF g
<1>4. CASE k = 0
  <2>1. R = <<>>
    BY <1>4, SubSeqEmpty
  <2> QED
    BY Zenon, <2>1, EmptySeq
<1>5. CASE k = 1
  <2>1. R = q
    BY Zenon, <1>2, <1>5, SubSeqFull DEF g
  <2> QED
    BY Zenon, <1>1, <1>2, <2>1
<1> QED
  BY Zenon, <1>3, <1>4, <1>5

\* A GoAway is received: the session closes.
LEMMA RecvGoAwayStep ==
  ASSUME SessionInvariant, NEW e \in Ends, RecvGoAway(e), UNCHANGED setup
  PROVE  SessionInvariant'
<1> DEFINE p == Peer(e)  W == wire[e]  rest == [wire EXCEPT ![e] = Tail(W)]
           q == <<GoAwayFrame(Normal)>>
<1>1. /\ Types /\ Queues /\ Fresh /\ Backed /\ Loop /\ Lanes /\ InOrder
      /\ dist[e] = <<>> /\ W # <<>>
      /\ remote_go_away' = [remote_go_away EXCEPT ![e] = TRUE]
      /\ UNCHANGED <<setup, eof, next_stream_id, streams, pending_streams,
                     read_pending_frames, dist, block_substream, events,
                     chan, hold, sent, delivered, up>>
  BY Zenon DEF SessionInvariant, RecvGoAway, Runs, Idle, handles, loop
<1>2. \/ /\ local_go_away[e]
         /\ write_pending_frames' = [write_pending_frames EXCEPT ![e] = <<>>]
         /\ wire' = rest
         /\ UNCHANGED local_go_away
      \/ /\ SendAll(e, q, rest)
         /\ local_go_away' = [local_go_away EXCEPT ![e] = TRUE]
  BY Zenon DEF RecvGoAway, SendGoAwayWithCode
<1>3. p \in Ends /\ p # e /\ Peer(p) = e /\ \A x \in Ends : x = e \/ x = p
  BY Zenon, PeerFacts
<1>4. ~Alive(e)' /\ \A x \in Ends : x # e => (Alive(x)' <=> Alive(x))
  BY Zenon, <1>1, <1>2 DEF Types, Alive, is_dead
<1>5. Types'
  <2>1. remote_go_away' \in [Ends -> BOOLEAN] /\ local_go_away' \in [Ends -> BOOLEAN]
    BY Zenon, <1>1, <1>2 DEF Types
  <2> QED
    BY Zenon, <1>1, <2>1 DEF Types
<1>6. Fresh' /\ Backed' /\ InOrder'
  BY Zenon, <1>1, HandlesKept
<1>7. Loop'
  BY Zenon, <1>1, <1>4, LoopAtKept DEF Loop
<1>8. /\ rest \in [Ends -> Seq(WireFrame)] /\ \A x \in Ends : Len(rest[x]) <= WireCap
      /\ rest[p] = wire[p]
  <2>1. W \in Seq(WireFrame) /\ Len(W) <= WireCap /\ wire \in [Ends -> Seq(WireFrame)]
    BY Zenon, <1>1 DEF Queues
  <2>2. /\ Tail(W) \in Seq(WireFrame) /\ Len(Tail(W)) = Len(W) - 1 /\ Len(W) \in Nat
        /\ WireCap \in Nat
    BY Zenon, <1>1, <2>1, HeadTailProperties, LenProperties, SizesAssumption
  <2>3. Len(Tail(W)) <= WireCap
    BY <2>1, <2>2
  <2> QED
    BY Zenon, <1>1, <1>3, <2>1, <2>2, <2>3 DEF Queues
<1>9. q \in Seq(WireFrame)
  BY DEF WireFrame
<1> HIDE DEF rest, q
<1>10. /\ wire' \in [Ends -> Seq(WireFrame)] /\ \A x \in Ends : Len(wire'[x]) <= WireCap
       /\ write_pending_frames' \in [Ends -> Seq(WireFrame)]
       /\ up[p] => \/ wire'[p] = wire[p]
                   \/ \E k \in 0 .. Len(q) : wire'[p] = wire[p] \o SubSeq(q, 1, k)
  <2>1. CASE SendAll(e, q, rest)
    <3>1. /\ wire' \in [Ends -> Seq(WireFrame)] /\ \A x \in Ends : Len(wire'[x]) <= WireCap
          /\ write_pending_frames' \in [Ends -> Seq(WireFrame)]
          /\ up[p] => \E k \in 0 .. Len(q) : wire'[p] = rest[p] \o SubSeq(q, 1, k)
      BY Zenon, <1>1, <1>8, <1>9, <2>1, SendAllFacts
    <3> QED
      BY Zenon, <1>8, <3>1
  <2>2. CASE wire' = rest
              /\ write_pending_frames' = [write_pending_frames EXCEPT ![e] = <<>>]
    <3>1. <<>> \in Seq(WireFrame)
      BY Zenon, EmptySeq
    <3> QED
      BY Zenon, <1>1, <1>8, <2>2, <3>1 DEF Queues
  <2> QED
    BY Zenon, <1>2, <2>1, <2>2
<1>11. Queues'
  BY Zenon, <1>1, <1>10, KnownKept DEF Queues
<1>12. ASSUME Alive(p)' PROVE Cut(Pipe(p), Pipe(p)')
  <2>1. up[p]
    BY Zenon, <1>1, <1>12 DEF Alive
  <2>2. CASE wire'[p] = wire[p]
    BY Zenon, <1>1, <1>4, <2>2, SaidNothing
  <2>3. ASSUME NEW k \in 0 .. Len(q), wire'[p] = wire[p] \o SubSeq(q, 1, k)
        PROVE  Cut(Pipe(p), Pipe(p)')
    <3> DEFINE R == SubSeq(q, 1, k)
    <3>1. R \in Seq(Item) /\ (R = <<>> \/ R[1].ty = "go_away")
      BY Zenon, GoAwayOut DEF q
    <3>2. wire'[p] = wire[p] \o R
      BY Zenon, <2>3
    <3> HIDE DEF R
    <3> QED
      BY Zenon, <1>1, <1>4, <3>1, <3>2, SaidLast
  <2> QED
    BY Zenon, <1>10, <2>1, <2>2, <2>3
<1>13. Lanes'
  BY Zenon, <1>1, <1>4, <1>12, LanesCut
<1> QED
  BY Zenon, <1>5, <1>6, <1>7, <1>11, <1>13 DEF SessionInvariant

\* The session task ends.
LEMMA SessionEndStep ==
  ASSUME SessionInvariant, NEW e \in Ends, SessionEnd(e), UNCHANGED setup
  PROVE  SessionInvariant'
<1> DEFINE p == Peer(e)
<1>1. /\ Types /\ Queues /\ Fresh /\ Backed /\ Loop /\ Lanes /\ InOrder
      /\ up[e] /\ dist[e] = <<>> /\ is_dead(e)
      /\ up' = [up EXCEPT ![e] = FALSE]
      /\ streams' = [streams EXCEPT ![e] = {}]
      /\ pending_streams' = [pending_streams EXCEPT ![e] = <<>>]
      /\ hold' = [hold EXCEPT ![e] =
                    [id \in Ids |-> IF @[id] = "backlog" THEN "gone" ELSE @[id]]]
      /\ write_pending_frames' = [write_pending_frames EXCEPT ![e] = <<>>]
      /\ read_pending_frames' = [read_pending_frames EXCEPT ![e] = <<>>]
      /\ events' = [events EXCEPT ![e] = <<>>]
      /\ \E k \in 0 .. Len(wire[p]) :
            wire' = [wire EXCEPT ![e] = <<>>, ![p] = SubSeq(@, 1, k)]
      /\ UNCHANGED <<setup, eof, remote_go_away, local_go_away, next_stream_id, dist,
                     block_substream, chan, sent, delivered>>
  BY Zenon DEF SessionInvariant, SessionEnd, Idle, flags, loop
<1>2. PICK k \in 0 .. Len(wire[p]) :
            wire' = [wire EXCEPT ![e] = <<>>, ![p] = SubSeq(@, 1, k)]
  BY Zenon, <1>1
<1>3. p \in Ends /\ p # e /\ Peer(p) = e /\ \A x \in Ends : x = e \/ x = p
  BY Zenon, PeerFacts
<1>4. ~Alive(e) /\ ~Alive(e)' /\ \A x \in Ends : x # e => (Alive(x)' <=> Alive(x))
  BY Zenon, <1>1 DEF Types, Alive, is_dead
<1>5. /\ hold'[p] = hold[p] /\ streams'[p] = streams[p]
      /\ pending_streams'[p] = pending_streams[p]
      /\ streams'[e] = {} /\ pending_streams'[e] = <<>>
      /\ \A id \in Ids : hold'[e][id] =
           IF hold[e][id] = "backlog" THEN "gone" ELSE hold[e][id]
  BY Zenon, <1>1, <1>3 DEF Types
<1>6. Types'
  <2>1. <<>> \in Seq(Ids)
    BY Zenon, EmptySeq
  <2>2. up' \in [Ends -> BOOLEAN] /\ streams' \in [Ends -> SUBSET Ids]
        /\ pending_streams' \in [Ends -> Seq(Ids)]
    BY Zenon, <1>1, <2>1 DEF Types
  <2>3. hold' \in [Ends -> [Ids -> {"none", "backlog", "live", "gone"}]]
    BY Zenon, <1>1 DEF Types
  <2> QED
    BY Zenon, <1>1, <2>2, <2>3 DEF Types
<1>7. \A x \in Ends, id \in Ids : hold'[x][id] = "none" <=> hold[x][id] = "none"
  BY Zenon, <1>3, <1>5
<1>8. Fresh' /\ InOrder'
  <2>1. Fresh'
    BY <1>1, <1>7, KnownKept DEF Fresh
  <2> QED
    BY Zenon, <1>1, <2>1 DEF InOrder
<1>9. Backed'
  <2>1. BackedAt(p)'
    BY Zenon, <1>1, <1>3, <1>5, BackedAtKept DEF Backed
  <2>2. BackedAt(e)'
    BY <1>5 DEF BackedAt, Backlog
  <2> QED
    BY Zenon, <1>3, <2>1, <2>2 DEF Backed
<1> DEFINE W == wire[p]  B == SubSeq(W, 1, k)  T == SubSeq(W, k + 1, Len(W))
<1>10. /\ W \in Seq(WireFrame) /\ Len(W) \in Nat /\ Len(W) <= WireCap /\ WireCap \in Nat
       /\ B \in Seq(WireFrame) /\ T \in Seq(WireFrame) /\ Len(B) <= WireCap
  <2>1. W \in Seq(WireFrame) /\ Len(W) \in Nat /\ Len(W) <= WireCap /\ WireCap \in Nat
    BY Zenon, <1>1, <1>3, LenProperties, SizesAssumption DEF Queues
  <2>2. /\ \A i \in 1 .. k : W[i] \in WireFrame
        /\ \A i \in k + 1 .. Len(W) : W[i] \in WireFrame
        /\ k \in Int /\ k + 1 \in Int /\ Len(W) \in Int /\ k \in Nat /\ k <= Len(W)
    BY <2>1, ElementOfSeq
  <2>3. B \in Seq(WireFrame) /\ Len(B) = IF 1 <= k THEN k - 1 + 1 ELSE 0
    BY <2>2, SubSeqProperties
  <2>4. T \in Seq(WireFrame)
    BY Zenon, <2>2, SubSeqProperties
  <2>5. Len(B) <= WireCap
    BY <2>1, <2>2, <2>3
  <2> QED
    BY Zenon, <2>1, <2>3, <2>4, <2>5
<1>11. B \o T = W
  <2>1. 1 \in 1 .. Len(W) + 1 /\ k \in 1 - 1 .. Len(W) /\ Len(W) \in k .. Len(W)
    BY <1>10
  <2>2. B \o T = SubSeq(W, 1, Len(W))
    BY Zenon, <1>10, <2>1, ConcatAdjacentSubSeq
  <2> QED
    BY Zenon, <1>10, <2>2, SubSeqFull
<1>12. wire'[p] = B /\ wire'[e] = <<>>
  BY Zenon, <1>1, <1>2, <1>3 DEF Queues
<1> HIDE DEF B, T
<1>13. Queues'
  <2>1. <<>> \in Seq(WireFrame) /\ <<>> \in Seq(StreamFrame) /\ <<>> \in Seq(Event)
        /\ Len(<<>>) = 0
    BY Zenon, EmptySeq
  <2>2. /\ wire' \in [Ends -> Seq(WireFrame)]
        /\ write_pending_frames' \in [Ends -> Seq(WireFrame)]
        /\ read_pending_frames' \in [Ends -> Seq(StreamFrame)]
        /\ events' \in [Ends -> Seq(Event)]
    BY Zenon, <1>1, <1>2, <1>3, <1>10, <2>1 DEF Queues, B
  <2>3. \A x \in Ends : Len(wire'[x]) <= WireCap
    BY SMTT(30), <1>3, <1>10, <1>12, <2>1
  <2> QED
    BY Zenon, <1>1, <2>2, <2>3, KnownKept DEF Queues
<1>14. /\ read_pending_frames'[e] = <<>> /\ read_pending_frames'[p] = read_pending_frames[p]
  BY Zenon, <1>1, <1>3 DEF Queues
<1>15. Loop'
  <2>1. LoopAt(p)'
    BY Zenon, <1>1, <1>3, <1>4, <1>5, <1>14, LoopAtKept DEF Loop
  <2>2. LoopAt(e)'
    BY <1>1, <1>14 DEF LoopAt
  <2> QED
    BY Zenon, <1>3, <2>1, <2>2 DEF Loop
<1>16. Cut(Pipe(p), Pipe(p)')
  <2> DEFINE A == read_pending_frames[p] \o dist[p]
  <2>1. Out(e) = <<>> /\ Out(e)' = <<>>
    BY Zenon, <1>4 DEF Out
  <2>2. A \in Seq(Item) /\ W \in Seq(Item)
    BY Zenon, <1>1, <1>3, QueuesParts DEF Parts
  <2>3. B \in Seq(Item) /\ T \in Seq(Item) /\ <<>> \in Seq(Item)
    BY Zenon, <1>10, FramesAreItems, SeqMonotonic, EmptySeq
  <2>4. Pipe(p) = A \o (B \o T)
    <3>1. Pipe(p) = A \o (W \o <<>>)
      BY Zenon, <1>3, <2>1 DEF Pipe
    <3> QED
      BY Zenon, <1>11, <2>2, <3>1, ConcatEmptySeq
  <2>5. Pipe(p)' = A \o (B \o <<>>)
    BY Zenon, <1>1, <1>3, <1>12, <1>14, <2>1 DEF Pipe
  <2> HIDE DEF A
  <2> QED
    BY Zenon, <2>2, <2>3, <2>4, <2>5, CutJoin
<1>17. Lanes'
  BY Zenon, <1>1, <1>3, <1>4, <1>5, <1>16, LanesCut
<1> QED
  BY Zenon, <1>6, <1>8, <1>9, <1>13, <1>15, <1>17 DEF SessionInvariant

\* The application closes the session with a GoAway.
LEMMA ShutdownStep ==
  ASSUME SessionInvariant, NEW e \in Ends, Shutdown(e), UNCHANGED setup
  PROVE  SessionInvariant'
<1> DEFINE p == Peer(e)  q == <<GoAwayFrame(Normal)>>
<1>1. /\ Types /\ Queues /\ Fresh /\ Backed /\ Loop /\ Lanes /\ InOrder
      /\ dist[e] = <<>> /\ Alive(e)
      /\ SendAll(e, q, wire)
      /\ local_go_away' = [local_go_away EXCEPT ![e] = TRUE]
      /\ UNCHANGED <<setup, eof, remote_go_away, next_stream_id, streams, pending_streams,
                     read_pending_frames, dist, block_substream, events,
                     chan, hold, sent, delivered, up>>
  BY Zenon DEF SessionInvariant, Shutdown, SendGoAwayWithCode, Runs, Idle, Alive, handles, loop
<1>2. p \in Ends /\ p # e /\ Peer(p) = e /\ \A x \in Ends : x = e \/ x = p
  BY Zenon, PeerFacts
<1>3. /\ \A x \in Ends : x # e => (Alive(x)' <=> Alive(x))
      /\ \A x \in Ends : Alive(x)' => Alive(x)
  BY Zenon, <1>1 DEF Types, Alive, is_dead
<1>4. Types'
  BY Zenon, <1>1 DEF Types
<1>5. Fresh' /\ Backed' /\ InOrder'
  BY Zenon, <1>1, HandlesKept
<1>6. Loop'
  BY Zenon, <1>1, <1>3, LoopAtKept DEF Loop
<1>7. /\ q \in Seq(WireFrame)
      /\ wire \in [Ends -> Seq(WireFrame)] /\ \A x \in Ends : Len(wire[x]) <= WireCap
  BY <1>1 DEF WireFrame, Queues
<1> HIDE DEF q
<1>8. /\ wire' \in [Ends -> Seq(WireFrame)] /\ \A x \in Ends : Len(wire'[x]) <= WireCap
      /\ write_pending_frames' \in [Ends -> Seq(WireFrame)]
      /\ wire'[e] = wire[e]
      /\ write_pending_frames'[p] = write_pending_frames[p]
      /\ up[p] => /\ Onward(wire'[p], write_pending_frames'[e], wire[p], q)
                  /\ \E k \in 0 .. Len(q) : wire'[p] = wire[p] \o SubSeq(q, 1, k)
  BY Zenon, <1>1, <1>7, SendAllFacts
<1>9. Queues'
  BY Zenon, <1>1, <1>8, KnownKept DEF Queues
<1>10. Pipe(e)' = Pipe(e)
  BY Zenon, <1>1, <1>2, <1>3, <1>8, OtherPipe
<1>11. ASSUME Alive(p)', ~Alive(e)' PROVE Cut(Pipe(p), Pipe(p)')
  <2>1. up[p]
    BY Zenon, <1>1, <1>11 DEF Alive
  <2>2. PICK k \in 0 .. Len(q) : wire'[p] = wire[p] \o SubSeq(q, 1, k)
    BY Zenon, <1>8, <2>1
  <2> DEFINE R == SubSeq(q, 1, k)
  <2>3. R \in Seq(Item) /\ (R = <<>> \/ R[1].ty = "go_away")
    BY Zenon, GoAwayOut DEF q
  <2>4. wire'[p] = wire[p] \o R
    BY Zenon, <2>2
  <2> HIDE DEF R
  <2> QED
    BY Zenon, <1>1, <1>11, <2>3, <2>4, SaidLast
<1>12. ASSUME Alive(p)', Alive(e)'
       PROVE  Cut(Pipe(p), Pipe(p)') /\ ~Clear(Pipe(p)', Len(Pipe(p)'))
  <2> DEFINE A == read_pending_frames[p] \o dist[p]  R == q \o events[e]
  <2>1. up[p]
    BY Zenon, <1>1, <1>12 DEF Alive
  <2>2. Flat'
    BY <1>9, QueuesFlat, PTL
  <2>3. Pipe(p)' = A \o ((wire'[p] \o write_pending_frames'[e]) \o events[e])
    BY Zenon, <1>1, <1>2, <1>12, <2>2 DEF Flat
  <2>4. wire'[p] \o write_pending_frames'[e] = wire[p] \o q
    BY Zenon, <1>8, <2>1 DEF Onward
  <2>5. /\ A \in Seq(Item) /\ wire[p] \in Seq(Item) /\ Out(e) \in Seq(Item)
        /\ events[e] \in Seq(Item)
    BY Zenon, <1>1, <1>2, QueuesParts DEF Parts
  <2>6. q \in Seq(Item) /\ Len(q) = 1 /\ q[1].ty = "go_away"
    <3>1. q \in Seq(Item)
      BY Zenon, <1>7, FramesAreItems, SeqMonotonic
    <3> QED
      BY Zenon, <3>1 DEF q, GoAwayFrame, Frame
  <2>7. R \in Seq(Item) /\ R[1].ty = "go_away" /\ R # <<>>
    <3>1. /\ R \in Seq(Item) /\ Len(R) = Len(q) + Len(events[e]) /\ Len(events[e]) \in Nat
          /\ \A i \in 1 .. Len(q) + Len(events[e]) :
               R[i] = IF i <= Len(q) THEN q[i] ELSE events[e][i - Len(q)]
      BY Zenon, <2>5, <2>6, ConcatProperties, LenProperties
    <3> HIDE DEF R
    <3>2. R[1] = q[1] /\ Len(R) # 0
      BY <2>6, <3>1
    <3> QED
      BY Zenon, <2>6, <3>1, <3>2, EmptySeq
  <2>8. (wire[p] \o q) \o events[e] = wire[p] \o R
    BY ZenonT(30), <2>5, <2>6, Associative
  <2>9. Pipe(p) = A \o (wire[p] \o Out(e)) /\ Pipe(p)' = A \o (wire[p] \o R)
    BY Zenon, <1>2, <2>3, <2>4, <2>8 DEF Pipe
  <2> HIDE DEF A, R
  <2> QED
    BY Zenon, <2>5, <2>7, <2>9, CutJoin
<1>13. Lanes'
  BY Zenon, <1>1, <1>3, <1>10, <1>11, <1>12, LanesCut
<1> QED
  BY Zenon, <1>4, <1>5, <1>6, <1>9, <1>13 DEF SessionInvariant

(***************************************************************************)
(* distribute_to_substream                                                 *)
(***************************************************************************)
\* A frame the session sends of its own accord.
LEMMA SentOne ==
  ASSUME Queues, Queues', NEW e \in Ends, Alive(e), Alive(e)', NEW y \in Item,
         read_pending_frames'[Peer(e)] = read_pending_frames[Peer(e)],
         dist'[Peer(e)] = dist[Peer(e)], events'[e] = events[e],
         Onward(wire'[Peer(e)], write_pending_frames'[e],
                wire[Peer(e)], Append(write_pending_frames[e], y))
  PROVE  \E m : Put(Pipe(Peer(e)), Pipe(Peer(e))', m, y)
<1> DEFINE p == Peer(e)  A == read_pending_frames[p] \o dist[p]
           W == wire[p]  V == write_pending_frames[e]  E == events[e]
<1>1. p \in Ends /\ Peer(p) = e
  BY Zenon, PeerFacts
<1>2. Flat /\ Flat'
  BY QueuesFlat, PTL
<1>3. /\ Pipe(p) = A \o ((W \o V) \o E)
      /\ Pipe(p)' = A \o ((wire'[p] \o write_pending_frames'[e]) \o E)
  BY Zenon, <1>1, <1>2 DEF Flat
<1>4. wire'[p] \o write_pending_frames'[e] = W \o Append(V, y)
  BY Zenon DEF Onward
<1>5. A \in Seq(Item) /\ W \in Seq(Item) /\ V \in Seq(Item) /\ E \in Seq(Item)
  BY Zenon, <1>1, QueuesParts DEF Parts
<1>6. Pipe(p)' = A \o ((W \o Append(V, y)) \o E)
  BY Zenon, <1>3, <1>4
<1> HIDE DEF A, W, V, E, p
<1>7. Put(V, Append(V, y), Len(V), y)
  BY Zenon, <1>5, PutLast
<1>8. \E m : Put(W \o V, W \o Append(V, y), m, y)
  BY Zenon, <1>5, <1>7, PutInPart
<1>9. \E m : Put((W \o V) \o E, (W \o Append(V, y)) \o E, m, y)
  BY Zenon, <1>5, <1>8, PutInPart
<1>10. \E m : Put(A \o ((W \o V) \o E), A \o ((W \o Append(V, y)) \o E), m, y)
  BY Zenon, <1>5, <1>9, PutInPart
<1> QED
  BY Zenon, <1>3, <1>6, <1>10 DEF p

\* A frame that is not held back is the first of its stream.
LEMMA HeadTaken ==
  ASSUME Queues, NEW e \in Ends, LoopAt(e), dist[e] # <<>>,
         Head(dist[e]).id \notin block_substream[e],
         read_pending_frames'[e] = read_pending_frames[e], dist'[e] = Tail(dist[e]),
         wire'[e] = wire[e], Out(Peer(e))' = Out(Peer(e))
  PROVE  \E m : /\ Put(Pipe(e)', Pipe(e), m, Head(dist[e]))
                /\ Front(Pipe(e)', m, Head(dist[e]).id)
<1> DEFINE P == (read_pending_frames[e] \o Tail(dist[e])) \o (wire[e] \o Out(Peer(e)))
           m == Len(read_pending_frames[e])
<1>1. Pipe(e)' = P
  BY Zenon DEF Pipe
<1>2. /\ Put(P, Pipe(e), m, Head(dist[e])) /\ Clear(P, m)
      /\ \A i \in 1 .. m : P[i] = read_pending_frames[e][i]
  BY Zenon, HeadOfPipe
<1>3. \A i \in 1 .. m : read_pending_frames[e][i].id \in block_substream[e]
  BY Zenon DEF LoopAt
<1> HIDE DEF P
<1>4. \A i \in 1 .. m : P[i].id # Head(dist[e]).id
  BY Zenon, <1>2, <1>3
<1> QED
  BY Zenon, <1>1, <1>2, <1>4 DEF Front

\* Its lane when the frame is dropped, and the lanes of the other streams.
LEMMA HeadLanes ==
  ASSUME Lanes, NEW e \in Ends, NEW f, NEW m, f.ty # "go_away",
         Put(Pipe(e)', Pipe(e), m, f), Front(Pipe(e)', m, f.id),
         Alive(e), Alive(Peer(e))' => Alive(Peer(e)),
         sent'[Peer(e)] = sent[Peer(e)], NEW id \in Ids,
         \/ ~(f.id \in streams'[e] /\ hold'[e][f.id] # "gone")
         \/ id # f.id \/ f.ty \notin {"syn", "data"},
         delivered'[e][id] = delivered[e][id],
         hold'[e][id] = hold[e][id], id \in streams'[e] => id \in streams[e]
  PROVE  Lane(e, id)'
<1>1. Lane(e, id)
  BY Zenon DEF Lanes
<1>2. CASE Is(f, "syn", id) \/ Is(f, "data", id)
  <2>1. id = f.id /\ f.ty \in {"syn", "data"}
    BY Zenon, <1>2 DEF Is
  <2>2. ~(id \in streams'[e] /\ hold'[e][id] # "gone") /\ Front(Pipe(e)', m, id)
    BY Zenon, <2>1
  <2> QED
    BY Zenon, <1>1, <1>2, <2>2, LaneDropped
<1>3. CASE ~(Is(f, "syn", id) \/ Is(f, "data", id))
  <2>1. SameFor(Pipe(e), Pipe(e)', id)
    BY Zenon, <1>3, PutSame DEF Silent
  <2>2. Still(e, id)
    BY Zenon DEF Still
  <2> QED
    BY Zenon, <1>1, <2>1, <2>2, LaneSame
<1> QED
  BY Zenon, <1>2, <1>3

\* The loop goes on without the frame.
LEMMA LoopStepped ==
  ASSUME Queues, NEW e \in Ends, LoopAt(e), dist[e] # <<>>, dist'[e] = Tail(dist[e]),
         read_pending_frames'[e] = read_pending_frames[e],
         block_substream'[e] = block_substream[e],
         \A id \in block_substream[e] : hold[e][id] # "none" => hold'[e][id] # "none",
         Alive(e)'
  PROVE  LoopAt(e)'
<1>1. dist[e] \in Seq(Item)
  BY Zenon, QueuesParts DEF Parts
<1>2. \A i \in 1 .. Len(Tail(dist[e])) : Tail(dist[e])[i].ty = "syn" => i = Len(Tail(dist[e]))
  <2>1. \A i \in 1 .. Len(dist[e]) : dist[e][i].ty = "syn" => i = Len(dist[e])
    BY Zenon DEF LoopAt
  <2> QED
    BY Zenon, <1>1, <2>1, TailSyn
<1> QED
  BY Zenon, <1>2 DEF LoopAt

\* A Syn is answered with a Rst and dropped.
LEMMA SynRefused ==
  ASSUME SessionInvariant, NEW e \in Ends, dist[e] # <<>>,
         Head(dist[e]).id \notin block_substream[e], Head(dist[e]).ty = "syn",
         dist' = [dist EXCEPT ![e] = Tail(dist[e])],
         wire' \in [Ends -> Seq(WireFrame)], \A x \in Ends : Len(wire'[x]) <= WireCap,
         write_pending_frames' \in [Ends -> Seq(WireFrame)],
         wire'[e] = wire[e], write_pending_frames'[Peer(e)] = write_pending_frames[Peer(e)],
         up[Peer(e)] => Onward(wire'[Peer(e)], write_pending_frames'[e], wire[Peer(e)],
                               Append(write_pending_frames[e],
                                      Frame("rst", Head(dist[e]).id, 0))),
         UNCHANGED <<setup, flags, next_stream_id, streams, pending_streams,
                     read_pending_frames, block_substream, events,
                     chan, hold, sent, delivered, up>>
  PROVE  SessionInvariant'
<1> DEFINE p == Peer(e)  f == Head(dist[e])  y == Frame("rst", f.id, 0)
<1>1. Types /\ Queues /\ Fresh /\ Backed /\ Loop /\ Lanes /\ InOrder
  BY Zenon DEF SessionInvariant
<1>2. p \in Ends /\ p # e /\ Peer(p) = e /\ \A x \in Ends : x = e \/ x = p
  BY Zenon, PeerFacts
<1>3. \A x \in Ends : Alive(x)' <=> Alive(x)
  BY Zenon, AliveKept
<1>4. LoopAt(e) /\ Alive(e) /\ Alive(e)'
  BY Zenon, <1>1, <1>3 DEF Loop, LoopAt
<1>5. dist[e] \in Seq(StreamFrame) /\ f \in StreamFrame /\ Tail(dist[e]) \in Seq(StreamFrame)
  BY Zenon, <1>1, HeadTailProperties DEF Queues
<1>6. f.id \in Ids /\ hold[e][f.id] = "none" /\ f.id \notin streams[e]
  BY Zenon, <1>1, <1>4, SynAtHead DEF Backed, BackedAt
<1>7. Types'
  BY Zenon, <1>1 DEF Types, flags
<1>8. /\ dist' \in [Ends -> Seq(StreamFrame)]
      /\ dist'[e] = Tail(dist[e]) /\ dist'[p] = dist[p]
  BY Zenon, <1>1, <1>2, <1>5 DEF Queues
<1>9. Queues'
  BY Zenon, <1>1, <1>8, KnownKept DEF Queues
<1>10. Fresh' /\ Backed' /\ InOrder'
  BY Zenon, <1>1, HandlesKept
<1>11. Loop'
  <2>1. LoopAt(p)'
    BY Zenon, <1>1, <1>2, <1>3, <1>8, LoopAtKept DEF Loop
  <2>2. LoopAt(e)'
    BY Zenon, <1>1, <1>4, <1>8, LoopStepped
  <2> QED
    BY Zenon, <1>2, <2>1, <2>2 DEF Loop
<1>12. ASSUME NEW id \in Ids PROVE Lane(e, id)'
  <2>1. Out(p)' = Out(p)
    BY Zenon, <1>2, <1>3 DEF Out
  <2>2. PICK m : Put(Pipe(e)', Pipe(e), m, f) /\ Front(Pipe(e)', m, f.id)
    BY Zenon, <1>1, <1>4, <1>8, <2>1, HeadTaken
  <2>3. f.ty # "go_away"
    BY Zenon
  <2> HIDE DEF f
  <2> QED
    BY Zenon, <1>1, <1>2, <1>3, <1>4, <1>6, <2>2, <2>3, HeadLanes
<1>13. ASSUME NEW id \in Ids, Alive(p)' PROVE Lane(p, id)'
  <2>1. up[p]
    BY Zenon, <1>13 DEF Alive
  <2>2. y \in Item /\ Silent(y, id)
    <3>1. y \in StreamFrame
      BY Zenon, <1>5 DEF StreamFrame, Frame
    <3> QED
      BY Zenon, <3>1, FramesAreItems DEF Silent, Is, Frame
  <2>3. \E m : Put(Pipe(p), Pipe(p)', m, y)
    <3>1. Onward(wire'[p], write_pending_frames'[e], wire[p], Append(write_pending_frames[e], y))
      BY Zenon, <2>1
    <3> HIDE DEF y
    <3> QED
      BY Zenon, <1>1, <1>4, <1>8, <1>9, <2>2, <3>1, SentOne
  <2> HIDE DEF y
  <2>4. SameFor(Pipe(p), Pipe(p)', id)
    BY Zenon, <2>2, <2>3, PutSame
  <2>5. Lane(p, id) /\ Still(p, id)
    BY Zenon, <1>1, <1>2, <1>3, <1>13 DEF Lanes, Still
  <2> QED
    BY Zenon, <1>2, <2>4, <2>5, LaneSame
<1>14. Lanes'
  BY Zenon, <1>2, <1>12, <1>13 DEF Lanes
<1> QED
  BY Zenon, <1>7, <1>9, <1>10, <1>11, <1>14 DEF SessionInvariant

\* A Syn after our GoAway is answered with a reset.
LEMMA DistributeGoingAwayStep ==
  ASSUME SessionInvariant, NEW e \in Ends, DistributeGoingAway(e), UNCHANGED setup
  PROVE  SessionInvariant'
<1> DEFINE f == Head(dist[e])  q == Append(write_pending_frames[e], Frame("rst", f.id, 0))
<1>1. /\ Types /\ Queues /\ Loop
      /\ dist[e] # <<>> /\ f.id \notin block_substream[e] /\ f.ty = "syn"
      /\ SendAll(e, q, wire)
      /\ dist' = [dist EXCEPT ![e] = <<>>]
      /\ UNCHANGED <<setup, flags, next_stream_id, streams, pending_streams,
                     read_pending_frames, block_substream, events,
                     chan, hold, sent, delivered, up>>
  BY Zenon DEF SessionInvariant, DistributeGoingAway, Distributing, Skip, IsSyn, NextFrame,
         SendFrame, handles
<1>2. Tail(dist[e]) = <<>>
  <2>1. dist[e] \in Seq(Item)
    BY Zenon, <1>1, QueuesParts DEF Parts
  <2>2. \A i \in 1 .. Len(dist[e]) : dist[e][i].ty = "syn" => i = Len(dist[e])
    BY Zenon, <1>1 DEF Loop, LoopAt
  <2> QED
    BY Zenon, <1>1, <2>1, <2>2, TailSyn
<1>3. /\ q \in Seq(WireFrame)
      /\ wire \in [Ends -> Seq(WireFrame)] /\ \A x \in Ends : Len(wire[x]) <= WireCap
  <2>1. dist[e] \in Seq(StreamFrame) /\ f \in StreamFrame
    BY Zenon, <1>1, HeadTailProperties DEF Queues
  <2>2. Frame("rst", f.id, 0) \in WireFrame
    BY Zenon, <2>1 DEF StreamFrame, WireFrame, Frame
  <2>3. write_pending_frames[e] \in Seq(WireFrame)
    BY Zenon, <1>1 DEF Queues
  <2> QED
    BY Zenon, <1>1, <2>2, <2>3, AppendProperties DEF Queues
<1> HIDE DEF q
<1>4. /\ wire' \in [Ends -> Seq(WireFrame)] /\ \A x \in Ends : Len(wire'[x]) <= WireCap
      /\ write_pending_frames' \in [Ends -> Seq(WireFrame)]
      /\ wire'[e] = wire[e]
      /\ write_pending_frames'[Peer(e)] = write_pending_frames[Peer(e)]
      /\ up[Peer(e)] => Onward(wire'[Peer(e)], write_pending_frames'[e], wire[Peer(e)], q)
  BY Zenon, <1>1, <1>3, SendAllFacts
<1> QED
  BY Zenon, <1>1, <1>2, <1>4, SynRefused DEF q

\* A Syn finds no entry of its id: it is only dropped.
LEMMA DistributeRefuseStep ==
  ASSUME SessionInvariant, NEW e \in Ends, DistributeRefuse(e), UNCHANGED setup
  PROVE  SessionInvariant' /\ UNCHANGED <<sent, delivered>>
<1> DEFINE f == Head(dist[e])  y == Frame("rst", f.id, 0)  V == write_pending_frames[e]
<1>1. /\ Types /\ Queues /\ Loop /\ Lanes /\ Backed
      /\ dist[e] # <<>> /\ f.id \notin block_substream[e] /\ f.ty = "syn"
      /\ dist' = [dist EXCEPT ![e] = Tail(dist[e])]
      /\ write_pending_frames' = [write_pending_frames EXCEPT ![e] = Append(V, y)]
      /\ HandOver(e, f)
      /\ UNCHANGED <<setup, flags, next_stream_id, pending_streams, wire, events, hold,
                     sent, up>>
  BY Zenon DEF SessionInvariant, DistributeRefuse, Distributing, Skip, IsSyn, NextFrame, StepOn
<1>2. Alive(e)
  BY Zenon, <1>1 DEF Loop, LoopAt
<1>3. f.id \notin streams[e]
  BY Zenon, <1>1, <1>2, SynAtHead DEF Backed, BackedAt
<1>4. UNCHANGED <<streams, chan, delivered, read_pending_frames, block_substream>>
  BY Zenon, <1>1, <1>3 DEF HandOver
<1>5. Append(V, y) \in Seq(WireFrame)
  <2>1. dist[e] \in Seq(StreamFrame) /\ f \in StreamFrame
    BY Zenon, <1>1, HeadTailProperties DEF Queues
  <2>2. y \in WireFrame
    BY Zenon, <2>1 DEF StreamFrame, WireFrame, Frame
  <2>3. V \in Seq(WireFrame)
    BY Zenon, <1>1 DEF Queues
  <2> QED
    BY Zenon, <2>2, <2>3, AppendProperties
<1>6. /\ wire' \in [Ends -> Seq(WireFrame)] /\ \A x \in Ends : Len(wire'[x]) <= WireCap
      /\ write_pending_frames' \in [Ends -> Seq(WireFrame)]
      /\ wire' = wire
      /\ write_pending_frames'[Peer(e)] = write_pending_frames[Peer(e)]
      /\ write_pending_frames'[e] = Append(V, y)
  BY Zenon, <1>1, <1>5, PeerFacts DEF Queues
<1>7. Onward(wire'[Peer(e)], write_pending_frames'[e], wire[Peer(e)], Append(V, y))
  BY Zenon, <1>6 DEF Onward
<1> QED
  BY Zenon, <1>1, <1>4, <1>6, <1>7, SynRefused

\* A handle of e asks its session to send y.
LEMMA Asked ==
  ASSUME Queues, Queues', NEW e \in Ends, NEW y \in Item, Alive(e)' <=> Alive(e),
         read_pending_frames'[Peer(e)] = read_pending_frames[Peer(e)],
         dist'[Peer(e)] = dist[Peer(e)], wire'[Peer(e)] = wire[Peer(e)],
         write_pending_frames'[e] = write_pending_frames[e],
         events'[e] = Append(events[e], y)
  PROVE  IF Alive(e)
         THEN Put(Pipe(Peer(e)), Pipe(Peer(e))', Len(Pipe(Peer(e))), y)
         ELSE Pipe(Peer(e))' = Pipe(Peer(e))
<1> DEFINE p == Peer(e)  A == read_pending_frames[p] \o dist[p]
           W == wire[p] \o write_pending_frames[e]  E == events[e]
<1>1. p \in Ends /\ Peer(p) = e
  BY Zenon, PeerFacts
<1>2. CASE Alive(e)
  <2>1. Flat /\ Flat'
    BY QueuesFlat, PTL
  <2>2. Pipe(p) = A \o (W \o E) /\ Pipe(p)' = A \o (W \o Append(E, y))
    BY Zenon, <1>1, <1>2, <2>1 DEF Flat
  <2>3. A \in Seq(Item) /\ W \in Seq(Item) /\ E \in Seq(Item)
    BY Zenon, <1>1, QueuesParts, ConcatProperties DEF Parts
  <2> HIDE DEF A, W, E, p
  <2>4. Put(E, Append(E, y), Len(E), y)
    BY Zenon, <2>3, PutLast
  <2>5. Put(W \o E, W \o Append(E, y), Len(W \o E), y)
    <3>1. /\ Put(W \o E, W \o Append(E, y), Len(W) + Len(E), y)
          /\ Len(W) + Len(E) = Len(W \o E)
      BY Zenon, <2>3, <2>4, PutInPart
    <3> QED
      BY Zenon, <3>1
  <2>6. Put(A \o (W \o E), A \o (W \o Append(E, y)), Len(A \o (W \o E)), y)
    <3>1. /\ Put(A \o (W \o E), A \o (W \o Append(E, y)), Len(A) + Len(W \o E), y)
          /\ Len(A) + Len(W \o E) = Len(A \o (W \o E))
      BY <2>3, <2>5, PutInPart
    <3> QED
      BY Zenon, <3>1
  <2> QED
    BY Zenon, <1>2, <2>2, <2>6 DEF p
<1>3. CASE ~Alive(e)
  BY Zenon, <1>1, <1>3 DEF Pipe, Out
<1> QED
  BY Zenon, <1>2, <1>3

\* What a handle asks about a stream says nothing of the order of its data.
LEMMA AskedSilently ==
  ASSUME Queues, Queues', NEW e \in Ends, NEW y \in Item, Alive(e)' <=> Alive(e),
         read_pending_frames'[Peer(e)] = read_pending_frames[Peer(e)],
         dist'[Peer(e)] = dist[Peer(e)], wire'[Peer(e)] = wire[Peer(e)],
         write_pending_frames'[e] = write_pending_frames[e],
         events'[e] = Append(events[e], y), NEW id, Silent(y, id)
  PROVE  SameFor(Pipe(Peer(e)), Pipe(Peer(e))', id)
<1>1. CASE Alive(e)
  BY Zenon, <1>1, Asked, PutSame
<1>2. CASE ~Alive(e)
  BY Zenon, <1>2, Asked, SameKept
<1> QED
  BY Zenon, <1>1, <1>2

\* A Syn opens a stream.
LEMMA DistributeAcceptStep ==
  ASSUME SessionInvariant, NEW e \in Ends, DistributeAccept(e), UNCHANGED setup
  PROVE  SessionInvariant'
<1> DEFINE p == Peer(e)  f == Head(dist[e])  y == Frame("ack", f.id, 0)
<1>1. /\ Types /\ Queues /\ Fresh /\ Backed /\ Loop /\ Lanes /\ InOrder
      /\ dist[e] # <<>> /\ f.id \notin block_substream[e] /\ f.ty = "syn"
  BY Zenon DEF SessionInvariant, DistributeAccept, Distributing, Skip, IsSyn, NextFrame
<1>2. p \in Ends /\ p # e /\ Peer(p) = e /\ \A x \in Ends : x = e \/ x = p
  BY Zenon, PeerFacts
<1>3. LoopAt(e) /\ Alive(e)
  BY Zenon, <1>1 DEF Loop, LoopAt
<1>4. f.id \in Ids /\ hold[e][f.id] = "none" /\ f.id \notin streams[e]
  BY Zenon, <1>1, <1>3, SynAtHead DEF Backed, BackedAt
<1>5. /\ dist' = [dist EXCEPT ![e] = Tail(dist[e])]
      /\ streams' = [streams EXCEPT ![e] = streams[e] \cup {f.id}]
      /\ pending_streams' = [pending_streams EXCEPT ![e] = Append(pending_streams[e], f.id)]
      /\ hold' = [hold EXCEPT ![e] = [hold[e] EXCEPT ![f.id] = "backlog"]]
      /\ chan' = [chan EXCEPT ![e] = [chan[e] EXCEPT ![f.id] = <<f>>]]
      /\ events' = [events EXCEPT ![e] = Append(events[e], y)]
      /\ UNCHANGED <<setup, flags, next_stream_id, write_pending_frames, wire,
                     read_pending_frames, block_substream, sent, delivered, up>>
  BY Zenon, <1>4 DEF DistributeAccept, NextFrame, StepOn, flags
<1>6. \A x \in Ends : Alive(x)' <=> Alive(x)
  BY Zenon, <1>5, AliveKept
<1>7. /\ dist[e] \in Seq(StreamFrame) /\ f \in StreamFrame
      /\ Tail(dist[e]) \in Seq(StreamFrame)
  BY Zenon, <1>1, HeadTailProperties DEF Queues
<1>8. y \in StreamFrame /\ y \in Event /\ y \in Item /\ f.id \in Known
  <2>1. f.id \in Known
    BY Zenon, <1>7 DEF StreamFrame
  <2>2. y \in StreamFrame
    BY Zenon, <2>1 DEF StreamFrame, Frame
  <2> QED
    BY Zenon, <2>1, <2>2, FramesAreItems
<1>9. Types'
  <2>1. f \in Frames
    BY Zenon, <1>7, FramesAreItems
  <2>2. <<f>> \in Seq(Frames)
    BY <2>1
  <2> HIDE DEF f
  <2>3. /\ streams' \in [Ends -> SUBSET Ids]
        /\ hold' \in [Ends -> [Ids -> {"none", "backlog", "live", "gone"}]]
    BY Zenon, <1>1, <1>4, <1>5 DEF Types
  <2>4. chan' \in [Ends -> [Ids -> Seq(Frames)]]
    BY Zenon, <1>1, <1>4, <1>5, <2>2 DEF Types
  <2>5. pending_streams' \in [Ends -> Seq(Ids)]
    <3>1. Append(pending_streams[e], f.id) \in Seq(Ids)
      BY <1>1, <1>4, AppendProperties DEF Types
    <3> QED
      BY Zenon, <1>1, <1>5, <3>1 DEF Types
  <2> QED
    BY Zenon, <1>1, <1>5, <2>3, <2>4, <2>5 DEF Types, flags
<1> HIDE DEF y
<1>10. /\ dist' \in [Ends -> Seq(StreamFrame)] /\ events' \in [Ends -> Seq(Event)]
       /\ dist'[e] = Tail(dist[e]) /\ dist'[p] = dist[p]
       /\ events'[e] = Append(events[e], y) /\ events'[p] = events[p]
  <2>1. Append(events[e], y) \in Seq(Event)
    BY Zenon, <1>1, <1>8, AppendProperties DEF Queues
  <2> QED
    BY Zenon, <1>1, <1>2, <1>5, <1>7, <2>1 DEF Queues
<1>11. Queues'
  BY Zenon, <1>1, <1>5, <1>10, KnownKept DEF Queues
<1> HIDE DEF f
<1>12. /\ hold'[e][f.id] = "backlog" /\ hold'[p] = hold[p]
       /\ \A id \in Ids : id = f.id \/ hold'[e][id] = hold[e][id]
       /\ streams'[e] = streams[e] \cup {f.id} /\ streams'[p] = streams[p]
       /\ pending_streams'[e] = Append(pending_streams[e], f.id)
       /\ pending_streams'[p] = pending_streams[p]
  BY Zenon, <1>1, <1>2, <1>4, <1>5 DEF Types
<1>13. Fresh' /\ InOrder'
  <2>1. \A x \in Ends : \A id \in Ids \ Known : hold'[x][id] = hold[x][id]
    BY Zenon, <1>2, <1>8, <1>12
  <2> QED
    BY SMTT(30), <1>1, <1>5, <2>1, KnownKept DEF Fresh, InOrder
<1>14. Backed'
  <2>1. BackedAt(p)'
    BY Zenon, <1>1, <1>2, <1>12, BackedAtKept DEF Backed
  <2>2. Backlog(Append(pending_streams[e], f.id), hold'[e])
    <3>1. pending_streams[e] \in Seq(Ids) /\ Backlog(pending_streams[e], hold[e])
      BY Zenon, <1>1 DEF Types, Backed, BackedAt
    <3>2. hold[e][f.id] # "backlog"
      BY Zenon, <1>4
    <3> QED
      BY SMTT(30), <1>4, <1>12, <3>1, <3>2, BacklogAppend
  <2>3. \A id \in streams'[e] : hold'[e][id] # "none"
    <3>1. ASSUME NEW id \in streams[e] PROVE hold'[e][id] # "none"
      BY Zenon, <1>1, <1>12 DEF Types, Backed, BackedAt
    <3> QED
      BY Zenon, <1>12, <3>1
  <2>4. BackedAt(e)'
    BY Zenon, <1>12, <2>2, <2>3 DEF BackedAt
  <2> QED
    BY Zenon, <1>2, <2>1, <2>4 DEF Backed
<1>15. Loop'
  <2>1. LoopAt(p)'
    BY Zenon, <1>1, <1>2, <1>5, <1>6, <1>10, <1>12, LoopAtKept DEF Loop
  <2>2. \A id \in block_substream[e] : hold[e][id] # "none" => hold'[e][id] # "none"
    BY Zenon, <1>1, <1>12 DEF Types
  <2>3. LoopAt(e)'
    BY Zenon, <1>1, <1>3, <1>5, <1>6, <1>10, <2>2, LoopStepped
  <2> QED
    BY Zenon, <1>2, <2>1, <2>3 DEF Loop
<1>16. ASSUME NEW id \in Ids PROVE Lane(e, id)'
  <2>1. Out(p)' = Out(p)
    BY Zenon, <1>2, <1>5, <1>6, <1>10 DEF Out
  <2>2. PICK m : Put(Pipe(e)', Pipe(e), m, f) /\ Front(Pipe(e)', m, f.id)
    BY Zenon, <1>1, <1>3, <1>5, <1>10, <2>1, HeadTaken DEF f
  <2>3. f.ty # "go_away"
    BY Zenon, <1>1
  <2>4. CASE id = f.id
    <3>1. Lane(e, id) /\ Is(f, "syn", id)
      BY Zenon, <1>1, <1>3, <2>4 DEF Lanes, Is
    <3> QED
      BY Zenon, <1>2, <1>5, <1>6, <2>2, <2>4, <3>1, LaneAccepted
  <2>5. CASE id # f.id
    <3>1. hold'[e][id] = hold[e][id] /\ (id \in streams'[e] => id \in streams[e])
      BY Zenon, <1>12, <2>5
    <3> QED
      BY SMTT(30), <1>1, <1>2, <1>3, <1>5, <1>6, <2>2, <2>3, <2>5, <3>1, HeadLanes
  <2> QED
    BY Zenon, <2>4, <2>5
<1>17. ASSUME NEW id \in Ids, Alive(p)' PROVE Lane(p, id)'
  <2>1. Silent(y, id)
    BY Zenon DEF Silent, Is, Frame, y
  <2>2. SameFor(Pipe(p), Pipe(p)', id)
    BY SMTT(30), <1>1, <1>2, <1>5, <1>6, <1>8, <1>10, <1>11, <2>1, AskedSilently
  <2>3. Lane(p, id) /\ Still(p, id)
    BY Zenon, <1>1, <1>2, <1>5, <1>6, <1>12, <1>17 DEF Lanes, Still
  <2> QED
    BY Zenon, <1>2, <2>2, <2>3, LaneSame
<1>18. Lanes'
  BY Zenon, <1>2, <1>16, <1>17 DEF Lanes
<1> QED
  BY Zenon, <1>9, <1>11, <1>13, <1>14, <1>15, <1>18 DEF SessionInvariant

\* What a turn of the loop for a frame that is no Syn leaves alone.
FrameTurn(e) ==
  /\ Types /\ Queues /\ Fresh /\ Backed /\ Loop /\ Lanes /\ InOrder
  /\ LoopAt(e) /\ Alive(e)
  /\ dist[e] # <<>> /\ Head(dist[e]).id \notin block_substream[e]
  /\ Head(dist[e]).ty \in {"ack", "data", "rst"}
  /\ Head(dist[e]).id \in Ids /\ Head(dist[e]) \in Frames
  /\ dist' \in [Ends -> Seq(StreamFrame)]
  /\ dist'[e] = Tail(dist[e]) /\ dist'[Peer(e)] = dist[Peer(e)] /\ StepOn(e)
  /\ \A x \in Ends : Alive(x)' <=> Alive(x)
  /\ UNCHANGED <<setup, flags, next_stream_id, pending_streams, write_pending_frames, wire,
                 events, hold, sent, up>>

\* A turn of the loop that is not about a Syn.
LEMMA FrameTurnFacts ==
  ASSUME SessionInvariant, NEW e \in Ends, DistributeFrame(e), UNCHANGED setup
  PROVE  FrameTurn(e)
<1> DEFINE f == Head(dist[e])
<1>1. /\ Types /\ Queues /\ Fresh /\ Backed /\ Loop /\ Lanes /\ InOrder
      /\ dist[e] # <<>> /\ f.id \notin block_substream[e] /\ f.ty # "syn"
      /\ dist' = [dist EXCEPT ![e] = Tail(dist[e])] /\ StepOn(e)
      /\ UNCHANGED <<setup, flags, next_stream_id, pending_streams, write_pending_frames,
                     wire, events, hold, sent, up>>
  BY Zenon DEF SessionInvariant, DistributeFrame, Distributing, Skip, IsSyn, NextFrame, StepOn
<1>2. LoopAt(e) /\ Alive(e)
  BY Zenon, <1>1 DEF Loop, LoopAt
<1>3. /\ dist[e] \in Seq(StreamFrame) /\ f \in StreamFrame
      /\ Tail(dist[e]) \in Seq(StreamFrame)
  BY Zenon, <1>1, HeadTailProperties DEF Queues
<1>4. f.ty \in {"ack", "data", "rst"} /\ f.id \in Ids /\ f \in Frames
  <2>1. f \in Frames
    BY Zenon, <1>3, FramesAreItems
  <2>2. f.ty \in {"syn", "ack", "data", "rst"} /\ f.id \in Known
    BY Zenon, <1>3 DEF StreamFrame
  <2> QED
    BY Zenon, <1>1, <2>1, <2>2 DEF Known
<1>5. /\ dist' \in [Ends -> Seq(StreamFrame)]
      /\ dist'[e] = Tail(dist[e]) /\ dist'[Peer(e)] = dist[Peer(e)]
  BY Zenon, <1>1, <1>3, PeerFacts DEF Queues
<1>6. \A x \in Ends : Alive(x)' <=> Alive(x)
  BY Zenon, <1>1, AliveKept
<1> QED
  BY Zenon, <1>1, <1>2, <1>4, <1>5, <1>6 DEF FrameTurn

\* Nothing changes for the other end, and the loop has one frame less.
LEMMA FrameGone ==
  ASSUME NEW e \in Ends, FrameTurn(e), UNCHANGED <<read_pending_frames, block_substream>>,
         streams' \in [Ends -> SUBSET Ids], streams'[e] \subseteq streams[e],
         streams'[Peer(e)] = streams[Peer(e)],
         delivered' \in [Ends -> [Ids -> Seq(Nat)]],
         delivered'[Peer(e)] = delivered[Peer(e)]
  PROVE  /\ Queues' /\ Loop' /\ Backed'
         /\ \A id \in Ids : Alive(Peer(e))' => Lane(Peer(e), id)'
         /\ \E m : /\ Put(Pipe(e)', Pipe(e), m, Head(dist[e]))
                   /\ Front(Pipe(e)', m, Head(dist[e]).id)
<1> DEFINE p == Peer(e)
<1>1. p \in Ends /\ p # e /\ Peer(p) = e /\ \A x \in Ends : x = e \/ x = p
  BY Zenon, PeerFacts
<1>2. Queues'
  BY Zenon, KnownKept DEF Queues, FrameTurn
<1>3. Loop'
  <2>1. LoopAt(p)'
    BY Zenon, <1>1, LoopAtKept DEF Loop, FrameTurn
  <2>2. LoopAt(e)'
    BY Zenon, LoopStepped DEF FrameTurn
  <2> QED
    BY Zenon, <1>1, <2>1, <2>2 DEF Loop
<1>4. Backed'
  <2>1. ASSUME NEW x \in Ends PROVE BackedAt(x)'
    <3>1. streams'[x] \subseteq streams[x]
      BY Zenon, <1>1
    <3> QED
      BY Zenon, <3>1, BackedAtKept DEF Backed, FrameTurn
  <2> QED
    BY Zenon, <2>1 DEF Backed
<1>5. ASSUME NEW id \in Ids, Alive(p)' PROVE Lane(p, id)'
  <2>1. Pipe(p)' = Pipe(p)
    BY Zenon, <1>1, OtherPipe DEF FrameTurn
  <2>2. SameFor(Pipe(p), Pipe(p)', id)
    BY Zenon, <2>1, SameKept
  <2>3. Lane(p, id) /\ Still(p, id)
    BY Zenon, <1>1, <1>5 DEF Lanes, Still, FrameTurn
  <2> QED
    BY Zenon, <1>1, <2>2, <2>3, LaneSame
<1>6. Out(p)' = Out(p)
  BY Zenon, <1>1 DEF Out, FrameTurn
<1>7. \E m : /\ Put(Pipe(e)', Pipe(e), m, Head(dist[e]))
             /\ Front(Pipe(e)', m, Head(dist[e]).id)
  BY Zenon, <1>6, HeadTaken DEF FrameTurn
<1> QED
  BY Zenon, <1>2, <1>3, <1>4, <1>5, <1>7

\* A frame for a stream that is unknown, or whose handle is gone.
LEMMA FrameDropped ==
  ASSUME NEW e \in Ends, FrameTurn(e),
         UNCHANGED <<read_pending_frames, block_substream, chan, delivered>>,
         \/ /\ Head(dist[e]).id \notin streams[e]
            /\ UNCHANGED streams
         \/ /\ hold[e][Head(dist[e]).id] = "gone"
            /\ streams' = [streams EXCEPT ![e] = streams[e] \ {Head(dist[e]).id}]
  PROVE  SessionInvariant'
<1> DEFINE p == Peer(e)  f == Head(dist[e])
<1>1. p \in Ends /\ p # e /\ Peer(p) = e /\ \A x \in Ends : x = e \/ x = p
  BY Zenon, PeerFacts
<1>2. /\ Types /\ Fresh /\ InOrder /\ Lanes /\ Alive(e) /\ f.id \in Ids
      /\ f.ty \in {"ack", "data", "rst"} /\ \A x \in Ends : Alive(x)' <=> Alive(x)
      /\ UNCHANGED <<setup, flags, next_stream_id, pending_streams, hold, sent, up>>
  BY Zenon DEF FrameTurn
<1> HIDE DEF f
<1>3. /\ streams' \in [Ends -> SUBSET Ids] /\ streams'[e] \subseteq streams[e]
      /\ streams'[p] = streams[p] /\ ~(f.id \in streams'[e] /\ hold'[e][f.id] # "gone")
      /\ delivered' \in [Ends -> [Ids -> Seq(Nat)]] /\ delivered'[p] = delivered[p]
  <2>1. CASE f.id \notin streams[e] /\ UNCHANGED streams
    BY Zenon, <1>1, <1>2, <2>1 DEF Types
  <2>2. CASE /\ hold[e][f.id] = "gone"
             /\ streams' = [streams EXCEPT ![e] = streams[e] \ {f.id}]
    <3>1. streams' \in [Ends -> SUBSET Ids]
      BY Zenon, <1>2, <2>2 DEF Types
    <3>2. streams'[e] = streams[e] \ {f.id} /\ streams'[p] = streams[p]
      BY Zenon, <1>1, <1>2, <2>2 DEF Types
    <3> QED
      BY Zenon, <1>2, <2>2, <3>1, <3>2 DEF Types
  <2> QED
    BY Zenon, <2>1, <2>2 DEF f
<1>4. Types'
  BY Zenon, <1>2, <1>3 DEF Types, flags
<1>5. Fresh' /\ InOrder'
  BY <1>2, KnownKept DEF Fresh, InOrder
<1>6. /\ Queues' /\ Loop' /\ Backed'
      /\ \A id \in Ids : Alive(p)' => Lane(p, id)'
      /\ \E m : Put(Pipe(e)', Pipe(e), m, f) /\ Front(Pipe(e)', m, f.id)
  BY Zenon, <1>3, FrameGone DEF f
<1>7. ASSUME NEW id \in Ids PROVE Lane(e, id)'
  <2>1. PICK m : Put(Pipe(e)', Pipe(e), m, f) /\ Front(Pipe(e)', m, f.id)
    BY Zenon, <1>6
  <2>2. f.ty # "go_away" /\ (id \in streams'[e] => id \in streams[e])
    BY Zenon, <1>2, <1>3
  <2> QED
    BY Zenon, <1>1, <1>2, <1>3, <2>1, <2>2, HeadLanes
<1>8. Lanes'
  BY Zenon, <1>1, <1>6, <1>7 DEF Lanes
<1> QED
  BY Zenon, <1>4, <1>5, <1>6, <1>8 DEF SessionInvariant

\* A frame that its handle's channel takes: of data, it is the next.
LEMMA FrameTaken ==
  ASSUME NEW e \in Ends, FrameTurn(e),
         UNCHANGED <<streams, read_pending_frames, block_substream>>,
         Head(dist[e]).id \in streams[e], hold[e][Head(dist[e]).id] # "gone",
         chan' = [chan EXCEPT ![e] =
                    [chan[e] EXCEPT ![Head(dist[e]).id] = Append(@, Head(dist[e]))]],
         delivered' = IF Head(dist[e]).ty = "data"
                      THEN [delivered EXCEPT ![e] =
                             [delivered[e] EXCEPT ![Head(dist[e]).id] =
                                                     Append(@, Head(dist[e]).n)]]
                      ELSE delivered
  PROVE  /\ SessionInvariant'
         /\ Head(dist[e]).ty = "data" =>
              /\ Head(dist[e]).n = Len(delivered[e][Head(dist[e]).id]) + 1
              /\ Head(dist[e]).n <= sent[Peer(e)][Head(dist[e]).id]
<1> DEFINE p == Peer(e)  f == Head(dist[e])  d == delivered[e][f.id]
<1>1. p \in Ends /\ p # e /\ Peer(p) = e /\ \A x \in Ends : x = e \/ x = p
  BY Zenon, PeerFacts
<1>2. /\ Types /\ Fresh /\ InOrder /\ Lanes /\ Alive(e) /\ f.id \in Ids /\ f \in Frames
      /\ f.ty \in {"ack", "data", "rst"} /\ \A x \in Ends : Alive(x)' <=> Alive(x)
      /\ Queues /\ Backed
      /\ UNCHANGED <<setup, flags, next_stream_id, pending_streams, hold, sent, up>>
  BY Zenon DEF FrameTurn
<1>3. /\ f.id \in streams[e] /\ hold[e][f.id] # "gone"
      /\ chan' = [chan EXCEPT ![e] = [chan[e] EXCEPT ![f.id] = Append(chan[e][f.id], f)]]
      /\ delivered' = IF f.ty = "data"
                      THEN [delivered EXCEPT ![e] =
                              [delivered[e] EXCEPT ![f.id] = Append(d, f.n)]]
                      ELSE delivered
  BY Zenon, <1>2 DEF Types
<1>4. f.n \in Nat /\ d \in Seq(Nat) /\ Append(d, f.n) \in Seq(Nat) /\ Len(d) \in Nat
  <2>1. d \in Seq(Nat)
    <3>1. delivered \in [Ends -> [Ids -> Seq(Nat)]] /\ f.id \in Ids
      BY Zenon, <1>2 DEF Types
    <3> HIDE DEF f
    <3> QED
      BY Zenon, <3>1
  <2>2. f.n \in Nat
    BY Zenon, <1>2 DEF Frames
  <2> HIDE DEF f, d
  <2> QED
    BY Zenon, <2>1, <2>2, AppendProperties, LenProperties
<1> HIDE DEF f, d
<1>5. f.id \in Known
  <2>1. hold[e][f.id] # "none"
    BY Zenon, <1>2, <1>3 DEF Backed, BackedAt
  <2> QED
    BY Zenon, <1>2, <2>1 DEF Fresh
<1>6. /\ chan' \in [Ends -> [Ids -> Seq(Frames)]]
      /\ delivered' \in [Ends -> [Ids -> Seq(Nat)]]
  <2>1. Append(chan[e][f.id], f) \in Seq(Frames)
    BY <1>2, AppendProperties DEF Types
  <2>2. [chan[e] EXCEPT ![f.id] = Append(chan[e][f.id], f)] \in [Ids -> Seq(Frames)]
    BY Zenon, <1>2, <2>1 DEF Types
  <2>3. [delivered[e] EXCEPT ![f.id] = Append(d, f.n)] \in [Ids -> Seq(Nat)]
    BY Zenon, <1>2, <1>4 DEF Types
  <2>4. [delivered EXCEPT ![e] = [delivered[e] EXCEPT ![f.id] = Append(d, f.n)]]
          \in [Ends -> [Ids -> Seq(Nat)]]
    BY Zenon, <1>2, <2>3 DEF Types
  <2>5. [chan EXCEPT ![e] = [chan[e] EXCEPT ![f.id] = Append(chan[e][f.id], f)]]
          \in [Ends -> [Ids -> Seq(Frames)]]
    BY Zenon, <1>2, <2>2 DEF Types
  <2>6. delivered \in [Ends -> [Ids -> Seq(Nat)]]
    BY Zenon, <1>2 DEF Types
  <2> QED
    BY Zenon, <1>3, <2>4, <2>5, <2>6
<1>7. /\ delivered'[p] = delivered[p]
      /\ \A id \in Ids : id # f.id \/ f.ty # "data" => delivered'[e][id] = delivered[e][id]
      /\ f.ty = "data" => delivered'[e][f.id] = Append(d, f.n)
  <2>1. delivered \in [Ends -> [Ids -> Seq(Nat)]]
    BY Zenon, <1>2 DEF Types
  <2>2. CASE f.ty = "data"
    <3>1. delivered' = [delivered EXCEPT ![e] =
                          [delivered[e] EXCEPT ![f.id] = Append(d, f.n)]]
      BY Zenon, <1>3, <2>2
    <3>2. delivered'[e] = [delivered[e] EXCEPT ![f.id] = Append(d, f.n)]
      BY Zenon, <2>1, <3>1
    <3>3. delivered'[p] = delivered[p]
      BY Zenon, <1>1, <2>1, <3>1
    <3>4. delivered[e] \in [Ids -> Seq(Nat)]
      BY Zenon, <2>1
    <3>5. \A id \in Ids : id # f.id => delivered'[e][id] = delivered[e][id]
      BY Zenon, <3>2, <3>4
    <3>6. delivered'[e][f.id] = Append(d, f.n)
      BY Zenon, <1>2, <3>2, <3>4
    <3> QED
      BY Zenon, <2>2, <3>3, <3>5, <3>6
  <2>3. CASE f.ty # "data"
    BY Zenon, <1>3, <2>3
  <2> QED
    BY Zenon, <2>2, <2>3
<1>8. Types'
  BY Zenon, <1>2, <1>6 DEF Types, flags
<1>9. /\ Queues' /\ Loop' /\ Backed'
      /\ \A id \in Ids : Alive(p)' => Lane(p, id)'
      /\ \E m : Put(Pipe(e)', Pipe(e), m, f) /\ Front(Pipe(e)', m, f.id)
  <2>1. /\ streams' \in [Ends -> SUBSET Ids] /\ streams'[e] \subseteq streams[e]
        /\ streams'[p] = streams[p]
    BY Zenon, <1>2 DEF Types
  <2> QED
    BY Zenon, <1>6, <1>7, <2>1, FrameGone DEF f
<1>10. PICK m : Put(Pipe(e)', Pipe(e), m, f) /\ Front(Pipe(e)', m, f.id)
  BY Zenon, <1>9
<1>11. ASSUME f.ty = "data", NEW id \in Ids, id = f.id
       PROVE  Lane(e, id)' /\ f.n = Len(d) + 1 /\ f.n <= sent[p][id]
  <2>1. Lane(e, id) /\ Is(f, "data", id) /\ Front(Pipe(e)', m, id)
    BY Zenon, <1>2, <1>10, <1>11 DEF Lanes, Is
  <2>2. d = delivered[e][id] /\ delivered'[e][id] = Append(delivered[e][id], f.n)
    BY Zenon, <1>7, <1>11 DEF d
  <2>3. /\ id \in streams[e] /\ hold[e][id] # "gone"
        /\ sent'[p][id] = sent[p][id] /\ (Alive(p)' => Alive(p))
    BY Zenon, <1>1, <1>2, <1>3, <1>11
  <2>4. Put(Pipe(e)', Pipe(e), m, f)
    BY Zenon, <1>10
  <2>5. /\ Lane(e, id)'
        /\ f.n = Len(delivered[e][id]) + 1 /\ f.n <= sent[p][id]
    BY Zenon, <1>2, <2>1, <2>2, <2>3, <2>4, LaneDelivered
  <2> QED
    BY Zenon, <2>2, <2>5
<1>12. ASSUME NEW id \in Ids PROVE Lane(e, id)'
  <2>1. CASE id = f.id /\ f.ty = "data"
    BY Zenon, <1>11, <2>1
  <2>2. CASE ~(id = f.id /\ f.ty = "data")
    <3>1. /\ f.ty # "go_away" /\ (id # f.id \/ f.ty \notin {"syn", "data"})
          /\ delivered'[e][id] = delivered[e][id]
      BY Zenon, <1>2, <1>7, <2>2
    <3> QED
      BY Zenon, <1>1, <1>2, <1>10, <3>1, HeadLanes
  <2> QED
    BY Zenon, <2>1, <2>2
<1>13. Lanes'
  BY Zenon, <1>1, <1>9, <1>12 DEF Lanes
<1>14. Fresh'
  <2>1. \A x \in Ends : \A id \in Ids \ Known : delivered'[x][id] = delivered[x][id]
    BY Zenon, <1>1, <1>5, <1>7
  <2>2. ASSUME NEW x \in Ends, NEW id \in Ids \ Known
        PROVE  sent'[x][id] = 0 /\ hold'[x][id] = "none" /\ delivered'[x][id] = <<>>
    <3>1. sent[x][id] = 0 /\ hold[x][id] = "none" /\ delivered[x][id] = <<>>
      BY Zenon, <1>2 DEF Fresh
    <3>2. sent'[x][id] = sent[x][id] /\ hold'[x][id] = hold[x][id]
      BY Zenon, <1>2
    <3>3. delivered'[x][id] = delivered[x][id]
      BY Zenon, <2>1
    <3> QED
      BY Zenon, <3>1, <3>2, <3>3
  <2>3. \A x \in Ends : Owner(next_stream_id'[x]) = x
    BY Zenon, <1>2 DEF Fresh
  <2>4. Known' = Known
    BY Zenon, <1>2, KnownKept
  <2> QED
    BY Zenon, <2>2, <2>3, <2>4 DEF Fresh
<1>15. InOrder'
  <2>1. ASSUME NEW x \in Ends, NEW id \in Ids, delivered'[x][id] = delivered[x][id]
        PROVE  /\ delivered'[x][id] = [i \in 1 .. Len(delivered'[x][id]) |-> i]
               /\ Len(delivered'[x][id]) <= sent'[Peer(x)][id]
    BY ZenonT(30), <1>2, <2>1 DEF InOrder
  <2>2. ASSUME f.ty = "data"
        PROVE  /\ delivered'[e][f.id] = [i \in 1 .. Len(delivered'[e][f.id]) |-> i]
               /\ Len(delivered'[e][f.id]) <= sent'[p][f.id]
    <3> DEFINE n == Len(d)
    <3>1. d = [i \in 1 .. n |-> i] /\ n \in Nat
      BY Zenon, <1>2, <1>4 DEF InOrder, d
    <3>2. delivered'[e][f.id] = Append(d, n + 1) /\ n + 1 <= sent[p][f.id]
      BY Zenon, <1>2, <1>7, <1>11, <2>2
    <3> HIDE DEF n
    <3>3. Append(d, n + 1) = [i \in 1 .. n + 1 |-> i] /\ Len(Append(d, n + 1)) = n + 1
      BY <3>1
    <3> QED
      BY Zenon, <1>2, <3>2, <3>3
  <2>3. \A x \in Ends, id \in Ids :
          delivered'[x][id] = delivered[x][id] \/ (x = e /\ id = f.id /\ f.ty = "data")
    BY Zenon, <1>1, <1>7
  <2>4. ASSUME NEW x \in Ends, NEW id \in Ids
        PROVE  /\ delivered'[x][id] = [i \in 1 .. Len(delivered'[x][id]) |-> i]
               /\ Len(delivered'[x][id]) <= sent'[Peer(x)][id]
    <3>1. CASE delivered'[x][id] = delivered[x][id]
      BY Zenon, <2>1, <3>1
    <3>2. CASE x = e /\ id = f.id /\ f.ty = "data"
      BY Zenon, <2>2, <3>2
    <3> QED
      BY Zenon, <2>3, <3>1, <3>2
  <2> QED
    BY Zenon, <2>4 DEF InOrder
<1> QED
  BY Zenon, <1>2, <1>8, <1>9, <1>11, <1>13, <1>14, <1>15 DEF SessionInvariant, f, d

\* A frame that its handle's full channel does not take.
LEMMA FrameHeld ==
  ASSUME NEW e \in Ends, FrameTurn(e), KeepPending(e),
         block_substream' = [block_substream EXCEPT ![e] =
                               block_substream[e] \cup {Head(dist[e]).id}],
         Head(dist[e]).id \in streams[e], UNCHANGED <<streams, chan, delivered>>
  PROVE  SessionInvariant'
<1> DEFINE p == Peer(e)
<1>1. p \in Ends /\ p # e /\ Peer(p) = e /\ \A x \in Ends : x = e \/ x = p
  BY Zenon, PeerFacts
<1>2. /\ \A x \in Ends : Pipe(x)' = Pipe(x)
      /\ read_pending_frames' \in [Ends -> Seq(StreamFrame)]
  BY Zenon, KeptBack DEF FrameTurn
<1>3. /\ read_pending_frames'[e] = Append(read_pending_frames[e], Head(dist[e]))
      /\ read_pending_frames'[p] = read_pending_frames[p]
  BY Zenon, <1>1 DEF FrameTurn, Queues, KeepPending, NextFrame
<1>4. /\ block_substream' \in [Ends -> SUBSET Ids]
      /\ block_substream'[e] = block_substream[e] \cup {Head(dist[e]).id}
      /\ block_substream'[p] = block_substream[p]
  BY Zenon, <1>1 DEF FrameTurn, Types
<1>5. Types'
  BY Zenon, <1>4 DEF FrameTurn, Types, flags
<1>6. Queues'
  BY Zenon, <1>2, KnownKept DEF FrameTurn, Queues
<1>7. Fresh' /\ Backed' /\ InOrder'
  BY Zenon, HandlesKept DEF FrameTurn
<1>8. Loop'
  <2>1. LoopAt(p)'
    BY Zenon, <1>1, <1>3, <1>4, LoopAtKept DEF FrameTurn, Loop
  <2>2. \A id \in block_substream'[e] : hold'[e][id] # "none"
    BY Zenon, <1>4 DEF FrameTurn, LoopAt, Backed, BackedAt
  <2>3. Head(dist[e]).ty # "syn"
    BY Zenon DEF FrameTurn
  <2>4. LoopAt(e)'
    BY Zenon, <1>3, <1>4, <2>2, <2>3, LoopPutBack DEF FrameTurn
  <2> QED
    BY Zenon, <1>1, <2>1, <2>4 DEF Loop
<1>9. Lanes'
  BY Zenon, <1>2, SameKept, LanesMoved DEF FrameTurn
<1> QED
  BY Zenon, <1>5, <1>6, <1>7, <1>8, <1>9 DEF SessionInvariant

\* What a turn of the loop does to what was delivered.
OneMore(e) ==
  \E id \in Ids :
    /\ delivered' = [delivered EXCEPT ![e] =
                       [delivered[e] EXCEPT ![id] = Append(@, Len(@) + 1)]]
    /\ Len(delivered[e][id]) + 1 <= sent[Peer(e)][id]

\* A frame of a stream that is open, or was, is delivered or dropped.
LEMMA DistributeFrameStep ==
  ASSUME SessionInvariant, NEW e \in Ends, DistributeFrame(e), UNCHANGED setup
  PROVE  SessionInvariant' /\ (UNCHANGED delivered \/ OneMore(e)) /\ UNCHANGED sent
<1> DEFINE f == Head(dist[e])
<1>1. FrameTurn(e) /\ HandOver(e, f) /\ f.id \in Ids /\ Types /\ UNCHANGED sent
  BY Zenon, FrameTurnFacts DEF DistributeFrame, NextFrame, FrameTurn
<1>2. CASE /\ f.id \notin streams[e]
           /\ UNCHANGED <<streams, chan, delivered, read_pending_frames, block_substream>>
  BY Zenon, <1>1, <1>2, FrameDropped
<1>3. CASE /\ f.id \in streams[e] /\ hold[e][f.id] = "gone"
           /\ streams' = [streams EXCEPT ![e] = @ \ {f.id}]
           /\ UNCHANGED <<chan, delivered, read_pending_frames, block_substream>>
  <2>1. streams' = [streams EXCEPT ![e] = streams[e] \ {f.id}]
    BY Zenon, <1>3
  <2> QED
    BY Zenon, <1>1, <1>3, <2>1, FrameDropped
<1>4. CASE /\ f.id \in streams[e] /\ hold[e][f.id] # "gone"
           /\ Len(chan[e][f.id]) < ChanCap
           /\ chan' = [chan EXCEPT ![e][f.id] = Append(@, f)]
           /\ delivered' = IF f.ty = "data"
                           THEN [delivered EXCEPT ![e][f.id] = Append(@, f.n)]
                           ELSE delivered
           /\ UNCHANGED <<streams, read_pending_frames, block_substream>>
  <2>1. /\ chan' = [chan EXCEPT ![e] = [chan[e] EXCEPT ![f.id] = Append(@, f)]]
        /\ delivered' = IF f.ty = "data"
                        THEN [delivered EXCEPT ![e] =
                                [delivered[e] EXCEPT ![f.id] = Append(@, f.n)]]
                        ELSE delivered
    BY Zenon, <1>4
  <2>2. /\ SessionInvariant'
        /\ f.ty = "data" => /\ f.n = Len(delivered[e][f.id]) + 1
                            /\ f.n <= sent[Peer(e)][f.id]
    BY Zenon, <1>1, <1>4, <2>1, FrameTaken
  <2> HIDE DEF f
  <2>3. CASE f.ty = "data"
    <3>1. delivered' = [delivered EXCEPT ![e] =
                          [delivered[e] EXCEPT ![f.id] =
                             Append(@, Len(delivered[e][f.id]) + 1)]]
      BY Zenon, <2>1, <2>2, <2>3
    <3>2. delivered' = [delivered EXCEPT ![e] =
                          [delivered[e] EXCEPT ![f.id] = Append(@, Len(@) + 1)]]
      BY Zenon, <1>1, <3>1 DEF Types
    <3> QED
      BY Zenon, <1>1, <2>2, <2>3, <3>2 DEF OneMore
  <2>4. CASE f.ty # "data"
    BY Zenon, <1>1, <2>1, <2>2, <2>4
  <2> QED
    BY Zenon, <2>3, <2>4
<1>5. CASE /\ f.id \in streams[e] /\ hold[e][f.id] # "gone"
           /\ Len(chan[e][f.id]) >= ChanCap
           /\ KeepPending(e)
           /\ block_substream' = [block_substream EXCEPT ![e] = @ \cup {f.id}]
           /\ UNCHANGED <<streams, chan, delivered>>
  <2>1. block_substream' = [block_substream EXCEPT ![e] = block_substream[e] \cup {f.id}]
    BY Zenon, <1>5
  <2> QED
    BY Zenon, <1>1, <1>5, <2>1, FrameHeld
<1> QED
  BY Zenon, <1>1, <1>2, <1>3, <1>4, <1>5 DEF HandOver

(***************************************************************************)
(* The handles                                                             *)
(***************************************************************************)
\* Only a handle of an id that was used sends; the next frame joins the pipe at its end.
LEMMA HandleSendStep ==
  ASSUME SessionInvariant, NEW e \in Ends, NEW id \in Ids, HandleSend(e, id),
         UNCHANGED setup
  PROVE  SessionInvariant'
<1> DEFINE p == Peer(e)  n == sent[e][id] + 1  y == Frame("data", id, n)
<1>1. /\ Types /\ Queues /\ Fresh /\ Backed /\ Loop /\ Lanes /\ InOrder
      /\ hold[e][id] = "live"
      /\ sent' = [sent EXCEPT ![e] = [sent[e] EXCEPT ![id] = n]]
      /\ events' = [events EXCEPT ![e] = Append(events[e], y)]
      /\ UNCHANGED <<setup, flags, next_stream_id, streams, pending_streams,
                     write_pending_frames, read_pending_frames, wire, dist,
                     block_substream, chan, hold, delivered, up>>
  BY Zenon DEF SessionInvariant, HandleSend, pending, loop, Types
<1>2. p \in Ends /\ p # e /\ Peer(p) = e /\ \A x \in Ends : x = e \/ x = p
  BY Zenon, PeerFacts
<1>3. \A x \in Ends : Alive(x)' <=> Alive(x)
  BY Zenon, <1>1, AliveKept
<1>4. id \in Known
  BY Zenon, <1>1 DEF Fresh
<1>5. n \in Nat /\ sent[e][id] \in Nat /\ sent[e][id] <= n
  BY <1>1 DEF Types
<1>6. y \in Event /\ y \in Item
  <2>1. y \in StreamFrame
    BY Zenon, <1>4, <1>5 DEF StreamFrame, Frame
  <2> QED
    BY Zenon, <2>1, FramesAreItems
<1>7. Is(y, "data", id) /\ y.n = n /\ \A k : k # id => Silent(y, k)
  BY Zenon DEF Is, Frame, Silent
<1> HIDE DEF n
<1>8. /\ sent' \in [Ends -> [Ids -> Nat]] /\ sent'[p] = sent[p] /\ sent'[e][id] = n
      /\ \A k \in Ids : k # id => sent'[e][k] = sent[e][k]
  <2>1. [sent[e] EXCEPT ![id] = n] \in [Ids -> Nat]
    BY Zenon, <1>1, <1>5 DEF Types
  <2>2. sent' \in [Ends -> [Ids -> Nat]]
    BY Zenon, <1>1, <2>1 DEF Types
  <2>3. sent'[e] = [sent[e] EXCEPT ![id] = n] /\ sent'[p] = sent[p]
    BY Zenon, <1>1, <1>2 DEF Types
  <2>4. sent[e] \in [Ids -> Nat]
    BY Zenon, <1>1 DEF Types
  <2> QED
    BY Zenon, <2>2, <2>3, <2>4
<1> HIDE DEF y
<1>9. Types'
  BY Zenon, <1>1, <1>8 DEF Types, flags
<1>10. /\ events' \in [Ends -> Seq(Event)]
       /\ events'[e] = Append(events[e], y) /\ events'[p] = events[p]
  <2>1. Append(events[e], y) \in Seq(Event)
    BY Zenon, <1>1, <1>6, AppendProperties DEF Queues
  <2> QED
    BY Zenon, <1>1, <1>2, <2>1 DEF Queues
<1>11. Queues'
  BY Zenon, <1>1, <1>10, KnownKept DEF Queues
<1>12. Backed'
  BY Zenon, <1>1 DEF Backed, BackedAt
<1>13. Loop'
  BY Zenon, <1>1, <1>3, LoopAtKept DEF Loop
<1>14. Fresh'
  <2>1. ASSUME NEW x \in Ends, NEW k \in Ids \ Known
        PROVE  sent'[x][k] = 0 /\ hold'[x][k] = "none" /\ delivered'[x][k] = <<>>
    <3>1. sent'[x][k] = sent[x][k]
      BY Zenon, <1>2, <1>4, <1>8
    <3> QED
      BY Zenon, <1>1, <3>1 DEF Fresh
  <2>2. Known' = Known
    BY Zenon, <1>1, KnownKept
  <2> QED
    BY Zenon, <1>1, <2>1, <2>2 DEF Fresh
<1>15. InOrder'
  <2>1. ASSUME NEW x \in Ends, NEW k \in Ids
        PROVE  /\ delivered'[x][k] = [i \in 1 .. Len(delivered'[x][k]) |-> i]
               /\ Len(delivered'[x][k]) <= sent'[Peer(x)][k]
    <3>1. /\ delivered'[x][k] = [i \in 1 .. Len(delivered'[x][k]) |-> i]
          /\ Len(delivered'[x][k]) <= sent[Peer(x)][k]
      BY Zenon, <1>1 DEF InOrder
    <3>2. /\ Len(delivered'[x][k]) \in Nat /\ sent[Peer(x)][k] \in Nat
          /\ sent'[Peer(x)][k] \in Nat
      <4>1. delivered'[x][k] \in Seq(Nat)
        BY <1>9 DEF Types
      <4>2. Peer(x) \in Ends
        BY Zenon, PeerFacts
      <4> QED
        BY SMTT(30), <1>1, <1>8, <4>1, <4>2, LenProperties DEF Types
    <3>3. sent[Peer(x)][k] <= sent'[Peer(x)][k]
      <4>1. CASE x = p /\ k = id
        BY Zenon, <1>2, <1>5, <1>8, <4>1
      <4>2. CASE ~(x = p /\ k = id)
        <5>1. sent'[Peer(x)][k] = sent[Peer(x)][k]
          BY Zenon, <1>2, <1>8, <4>2
        <5> QED
          BY <3>2, <5>1
      <4> QED
        BY Zenon, <4>1, <4>2
    <3> QED
      BY SMTT(30), <3>1, <3>2, <3>3
  <2> QED
    BY Zenon, <2>1 DEF InOrder
<1>16. ASSUME NEW k \in Ids, Alive(e)' PROVE Lane(e, k)'
  <2>1. Pipe(e)' = Pipe(e)
    BY Zenon, <1>1, <1>2, <1>3, <1>10, OtherPipe
  <2>2. SameFor(Pipe(e), Pipe(e)', k)
    BY Zenon, <2>1, SameKept
  <2>3. Lane(e, k) /\ Still(e, k)
    BY Zenon, <1>1, <1>2, <1>3, <1>8, <1>16 DEF Lanes, Still
  <2> QED
    BY Zenon, <2>2, <2>3, LaneSame
<1>17. ASSUME NEW k \in Ids, Alive(p)' PROVE Lane(p, k)'
  <2>1. Lane(p, k)
    BY Zenon, <1>1, <1>2, <1>3, <1>17 DEF Lanes
  <2>2. CASE k = id
    <3>1. IF Alive(e) THEN Put(Pipe(p), Pipe(p)', Len(Pipe(p)), y)
                      ELSE Pipe(p)' = Pipe(p)
      BY Zenon, <1>1, <1>2, <1>3, <1>6, <1>10, <1>11, Asked
    <3>2. /\ y.n = sent[e][k] + 1 /\ sent'[e][k] = sent[e][k] + 1 /\ Is(y, "data", k)
      BY Zenon, <1>7, <1>8, <2>2 DEF n
    <3>3. /\ delivered'[p][k] = delivered[p][k] /\ hold'[p][k] = hold[p][k]
          /\ streams'[p] = streams[p] /\ (Alive(e)' => Alive(e))
      BY Zenon, <1>1, <1>3
    <3> QED
      BY Zenon, <1>1, <1>2, <2>1, <3>1, <3>2, <3>3, LaneSent
  <2>3. CASE k # id
    <3>1. SameFor(Pipe(p), Pipe(p)', k)
      BY SMTT(30), <1>1, <1>2, <1>3, <1>6, <1>7, <1>10, <1>11, <2>3, AskedSilently
    <3>2. Still(p, k)
      BY Zenon, <1>1, <1>2, <1>3, <1>8, <2>3 DEF Still
    <3> QED
      BY Zenon, <1>2, <2>1, <3>1, <3>2, LaneSame
  <2> QED
    BY Zenon, <2>2, <2>3
<1>18. Lanes'
  BY Zenon, <1>2, <1>16, <1>17 DEF Lanes
<1> QED
  BY Zenon, <1>9, <1>11, <1>12, <1>13, <1>14, <1>15, <1>18 DEF SessionInvariant

\* A handle takes a frame from its channel.
LEMMA HandleTakeStep ==
  ASSUME SessionInvariant, NEW e \in Ends, NEW id \in Ids, HandleTake(e, id),
         UNCHANGED setup
  PROVE  SessionInvariant'
<1>1. /\ Types /\ Queues /\ Fresh /\ Backed /\ Loop /\ Lanes /\ InOrder
      /\ chan[e][id] # <<>>
      /\ chan' = [chan EXCEPT ![e] = [chan[e] EXCEPT ![id] = Tail(chan[e][id])]]
      /\ UNCHANGED <<setup, flags, next_stream_id, streams, pending_streams,
                     pending, dist, block_substream, events, hold, sent, delivered, up>>
  BY Zenon DEF SessionInvariant, HandleTake, loop, Types
<1>2. chan' \in [Ends -> [Ids -> Seq(Frames)]]
  <2>1. Tail(chan[e][id]) \in Seq(Frames)
    BY <1>1, HeadTailProperties DEF Types
  <2>2. [chan[e] EXCEPT ![id] = Tail(chan[e][id])] \in [Ids -> Seq(Frames)]
    BY Zenon, <1>1, <2>1 DEF Types
  <2> QED
    BY Zenon, <1>1, <2>2 DEF Types
<1>3. Types'
  BY Zenon, <1>1, <1>2 DEF Types, flags
<1>4. Queues'
  BY Zenon, <1>1, QueuesKept
<1>5. Fresh' /\ Backed' /\ InOrder'
  BY Zenon, <1>1, HandlesKept
<1>6. Loop'
  BY Zenon, <1>1, AliveKept, LoopAtKept DEF Loop, pending
<1>7. Lanes'
  BY Zenon, <1>1, LanesKept
<1> QED
  BY Zenon, <1>3, <1>4, <1>5, <1>6, <1>7 DEF SessionInvariant

\* What a handle asks when it is dropped.
LEMMA AskedTwice ==
  ASSUME Queues, Queues', NEW e \in Ends, NEW y \in Item, NEW z \in Item,
         Alive(e)' <=> Alive(e),
         read_pending_frames'[Peer(e)] = read_pending_frames[Peer(e)],
         dist'[Peer(e)] = dist[Peer(e)], wire'[Peer(e)] = wire[Peer(e)],
         write_pending_frames'[e] = write_pending_frames[e],
         Alive(e) => events'[e] = events[e] \o <<y, z>>,
         NEW id, Silent(y, id), Silent(z, id)
  PROVE  SameFor(Pipe(Peer(e)), Pipe(Peer(e))', id)
<1> DEFINE p == Peer(e)  A == read_pending_frames[p] \o dist[p]
           W == wire[p] \o write_pending_frames[e]  E == events[e]
           F == Append(E, y)  G == Append(F, z)
<1>1. p \in Ends /\ Peer(p) = e
  BY Zenon, PeerFacts
<1>2. CASE Alive(e)
  <2>1. Flat /\ Flat'
    BY QueuesFlat, PTL
  <2>2. A \in Seq(Item) /\ W \in Seq(Item) /\ E \in Seq(Item)
    BY Zenon, <1>1, QueuesParts, ConcatProperties DEF Parts
  <2>3. E \o <<y, z>> = G
    BY SMTT(30), <2>2
  <2>4. Pipe(p) = A \o (W \o E) /\ Pipe(p)' = A \o (W \o G)
    BY Zenon, <1>1, <1>2, <2>1, <2>3 DEF Flat
  <2>5. Put(E, F, Len(E), y) /\ Put(F, G, Len(F), z)
    BY Zenon, <2>2, PutLast, AppendProperties
  <2> HIDE DEF A, W, E, F, G, p
  <2>6. (\E m : Put(W \o E, W \o F, m, y)) /\ (\E m : Put(W \o F, W \o G, m, z))
    BY Zenon, <2>2, <2>5, PutInPart
  <2>7. /\ \E m : Put(A \o (W \o E), A \o (W \o F), m, y)
        /\ \E m : Put(A \o (W \o F), A \o (W \o G), m, z)
    BY Zenon, <2>2, <2>6, PutInPart
  <2>8. /\ SameFor(A \o (W \o E), A \o (W \o F), id)
        /\ SameFor(A \o (W \o F), A \o (W \o G), id)
    BY Zenon, <2>7, PutSame
  <2>9. SameFor(A \o (W \o E), A \o (W \o G), id)
    BY Zenon, <2>8 DEF SameFor
  <2> QED
    BY Zenon, <2>4, <2>9 DEF p
<1>3. CASE ~Alive(e)
  <2>1. Pipe(p)' = Pipe(p)
    BY Zenon, <1>1, <1>3 DEF Pipe, Out
  <2> QED
    BY Zenon, <2>1, SameKept
<1> QED
  BY Zenon, <1>2, <1>3

\* A handle is dropped: it asks to be forgotten.
LEMMA HandleDropStep ==
  ASSUME SessionInvariant, NEW e \in Ends, NEW id \in Ids, HandleDrop(e, id),
         UNCHANGED setup
  PROVE  SessionInvariant'
<1> DEFINE p == Peer(e)  y == Frame("rst", id, 0)  z == Closed(id)
<1>1. /\ Types /\ Queues /\ Fresh /\ Backed /\ Loop /\ Lanes /\ InOrder
      /\ hold[e][id] = "live"
      /\ hold' = [hold EXCEPT ![e] = [hold[e] EXCEPT ![id] = "gone"]]
      /\ chan' = [chan EXCEPT ![e] = [chan[e] EXCEPT ![id] = <<>>]]
      /\ events' = IF up[e] THEN [events EXCEPT ![e] = events[e] \o <<y, z>>] ELSE events
      /\ UNCHANGED <<setup, flags, next_stream_id, streams, pending_streams,
                     write_pending_frames, read_pending_frames, wire, dist,
                     block_substream, sent, delivered, up>>
  BY Zenon DEF SessionInvariant, HandleDrop, pending, loop, Types
<1>2. p \in Ends /\ p # e /\ Peer(p) = e /\ \A x \in Ends : x = e \/ x = p
  BY Zenon, PeerFacts
<1>3. \A x \in Ends : Alive(x)' <=> Alive(x)
  BY Zenon, <1>1, AliveKept
<1>4. id \in Known
  BY Zenon, <1>1 DEF Fresh
<1>5. y \in Event /\ y \in Item /\ z \in Event /\ z \in Item
  <2>1. y \in StreamFrame /\ z \in Event
    BY Zenon, <1>4 DEF StreamFrame, Frame, Event
  <2> QED
    BY Zenon, <2>1, FramesAreItems
<1>6. \A k : Silent(y, k) /\ Silent(z, k)
  BY Zenon DEF Is, Frame, Closed, Silent
<1> HIDE DEF y, z
<1>7. Types'
  <2>1. <<>> \in Seq(Frames)
    BY Zenon, EmptySeq
  <2>2. [chan[e] EXCEPT ![id] = <<>>] \in [Ids -> Seq(Frames)]
    BY Zenon, <1>1, <2>1 DEF Types
  <2>3. chan' \in [Ends -> [Ids -> Seq(Frames)]]
    BY Zenon, <1>1, <2>2 DEF Types
  <2>4. hold' \in [Ends -> [Ids -> {"none", "backlog", "live", "gone"}]]
    BY Zenon, <1>1 DEF Types
  <2> QED
    BY Zenon, <1>1, <2>3, <2>4 DEF Types, flags
<1>8. /\ events' \in [Ends -> Seq(Event)] /\ events'[p] = events[p]
      /\ up[e] => events'[e] = events[e] \o <<y, z>>
  <2>1. events \in [Ends -> Seq(Event)] /\ <<y, z>> \in Seq(Event)
    BY SMTT(30), <1>1, <1>5 DEF Queues
  <2>2. events[e] \o <<y, z>> \in Seq(Event)
    BY Zenon, <2>1, ConcatProperties
  <2>3. CASE up[e]
    <3>1. events' = [events EXCEPT ![e] = events[e] \o <<y, z>>]
      BY Zenon, <1>1, <2>3
    <3> QED
      BY Zenon, <1>2, <2>1, <2>2, <3>1
  <2>4. CASE ~up[e]
    BY Zenon, <1>1, <2>1, <2>4
  <2> QED
    BY Zenon, <2>3, <2>4
<1>9. Queues'
  BY Zenon, <1>1, <1>8, KnownKept DEF Queues
<1>10. /\ hold'[p] = hold[p] /\ hold'[e][id] = "gone"
       /\ \A k \in Ids : k # id => hold'[e][k] = hold[e][k]
  <2>1. hold'[e] = [hold[e] EXCEPT ![id] = "gone"] /\ hold'[p] = hold[p]
    BY Zenon, <1>1, <1>2 DEF Types
  <2>2. hold[e] \in [Ids -> {"none", "backlog", "live", "gone"}]
    BY Zenon, <1>1 DEF Types
  <2> QED
    BY Zenon, <2>1, <2>2
<1>11. \A x \in Ends, k \in Ids :
         /\ hold[x][k] # "none" => hold'[x][k] # "none"
         /\ hold[x][k] = "none" => hold'[x][k] = "none"
         /\ hold[x][k] = "backlog" => hold'[x][k] = "backlog"
         /\ hold'[x][k] # "gone" => hold[x][k] # "gone"
  <2>1. ASSUME NEW x \in Ends, NEW k \in Ids, ~(x = e /\ k = id)
        PROVE  hold'[x][k] = hold[x][k]
    BY Zenon, <1>2, <1>10, <2>1
  <2> QED
    BY Zenon, <1>1, <1>10, <2>1
<1>12. Backed'
  BY Zenon, <1>1, <1>11, BackedAtKept DEF Backed
<1>13. Loop'
  BY Zenon, <1>1, <1>3, <1>11, LoopAtKept DEF Loop
<1>14. Fresh'
  <2>1. ASSUME NEW x \in Ends, NEW k \in Ids \ Known
        PROVE  sent'[x][k] = 0 /\ hold'[x][k] = "none" /\ delivered'[x][k] = <<>>
    BY Zenon, <1>1, <1>11 DEF Fresh
  <2>2. Known' = Known
    BY Zenon, <1>1, KnownKept
  <2> QED
    BY Zenon, <1>1, <2>1, <2>2 DEF Fresh
<1>15. InOrder'
  BY Zenon, <1>1 DEF InOrder
<1>16. ASSUME NEW x \in Ends, NEW k \in Ids, Alive(x)' PROVE Lane(x, k)'
  <2>1. Lane(x, k) /\ Still(x, k)
    <3>1. Lane(x, k)
      BY Zenon, <1>1, <1>3, <1>16 DEF Lanes
    <3>2. /\ delivered'[x][k] = delivered[x][k] /\ sent'[Peer(x)][k] = sent[Peer(x)][k]
          /\ (Alive(Peer(x))' => Alive(Peer(x))) /\ streams'[x] = streams[x]
      BY Zenon, <1>1, <1>3, PeerFacts
    <3> QED
      BY Zenon, <1>11, <3>1, <3>2 DEF Still
  <2>2. CASE x = e
    <3>1. Pipe(e)' = Pipe(e)
      BY Zenon, <1>1, <1>2, <1>3, <1>8, OtherPipe
    <3>2. SameFor(Pipe(e), Pipe(e)', k)
      BY Zenon, <3>1, SameKept
    <3> QED
      BY Zenon, <2>1, <2>2, <3>2, LaneSame
  <2>3. CASE x = p
    <3>1. Alive(e) => events'[e] = events[e] \o <<y, z>>
      BY Zenon, <1>8 DEF Alive
    <3>2. SameFor(Pipe(p), Pipe(p)', k)
      BY Zenon, <1>1, <1>2, <1>3, <1>5, <1>6, <1>9, <3>1, AskedTwice
    <3> QED
      BY Zenon, <1>2, <2>1, <2>3, <3>2, LaneSame
  <2> QED
    BY Zenon, <1>2, <2>2, <2>3
<1>17. Lanes'
  BY Zenon, <1>16 DEF Lanes
<1> QED
  BY SMTT(30), <1>7, <1>9, <1>12, <1>13, <1>14, <1>15, <1>17 DEF SessionInvariant

(***************************************************************************)
(* open_stream                                                             *)
(***************************************************************************)
\* Nothing is under way for an id that was never used.
LEMMA NothingUnderWay ==
  ASSUME Queues, NEW x \in Ends, NEW id \in Ids, id \notin Known
  PROVE  Absent(Pipe(x), id)
<1> DEFINE K == {i \in Item : i.id \in Known \cup {0}}
<1>1. Peer(x) \in Ends
  BY Zenon, PeerFacts
<1>2. StreamFrame \subseteq K /\ WireFrame \subseteq K /\ Event \subseteq K
  <2>1. StreamFrame \subseteq K
    BY Zenon, FramesAreItems DEF StreamFrame
  <2>2. WireFrame \subseteq K
    BY SMTT(30), <2>1, FramesAreItems DEF WireFrame, GoAwayFrame, Frame
  <2>3. Event \subseteq K
    BY <2>1, FramesAreItems DEF Event, Closed
  <2> QED
    BY Zenon, <2>1, <2>2, <2>3
<1> HIDE DEF K
<1>3. /\ read_pending_frames[x] \in Seq(K) /\ dist[x] \in Seq(K) /\ wire[x] \in Seq(K)
      /\ write_pending_frames[Peer(x)] \in Seq(K) /\ events[Peer(x)] \in Seq(K)
  <2>1. /\ read_pending_frames[x] \in Seq(StreamFrame) /\ dist[x] \in Seq(StreamFrame)
        /\ wire[x] \in Seq(WireFrame) /\ write_pending_frames[Peer(x)] \in Seq(WireFrame)
        /\ events[Peer(x)] \in Seq(Event)
    BY Zenon, <1>1 DEF Queues
  <2> QED
    BY Zenon, <1>2, <2>1, SeqMonotonic
<1>4. Out(Peer(x)) \in Seq(K)
  <2>1. write_pending_frames[Peer(x)] \o events[Peer(x)] \in Seq(K) /\ <<>> \in Seq(K)
    BY Zenon, <1>3, ConcatProperties, EmptySeq
  <2> QED
    BY Zenon, <2>1 DEF Out
<1>5. Pipe(x) \in Seq(K)
  <2>1. /\ read_pending_frames[x] \o dist[x] \in Seq(K)
        /\ wire[x] \o Out(Peer(x)) \in Seq(K)
    BY Zenon, <1>3, <1>4, ConcatProperties
  <2> QED
    BY Zenon, <2>1, ConcatProperties DEF Pipe
<1>6. \A j \in 1 .. Len(Pipe(x)) : Pipe(x)[j] \in K
  BY Zenon, <1>5, ElementOfSeq
<1>7. \A i \in K : i.id # id
  BY DEF K, Ids
<1> QED
  BY Zenon, <1>6, <1>7 DEF Absent

\* A stream of which nothing was sent and nothing is under way.
LEMMA LaneUntouched ==
  ASSUME NEW x \in Ends, NEW id \in Ids, Absent(Pipe(x)', id), delivered'[x][id] = <<>>,
         sent'[Peer(x)][id] = 0
  PROVE  Lane(x, id)'
<1> DEFINE P == Pipe(x)'
<1>1. \A j \in 1 .. Len(P) : \A ty : ~Is(P[j], ty, id)
  BY Zenon DEF Absent, Is
<1> HIDE DEF P
<1>2. SynFirst(P, id) /\ ~SynIn(P, id)
  BY Zenon, <1>1 DEF SynFirst, SynIn
<1>3. Numbered(P, id, 0, 0) /\ Complete(P, id, 0, 0)
  BY Zenon, <1>1 DEF Numbered, Complete
<1>4. Len(delivered'[x][id]) = 0
  BY Zenon, EmptySeq
<1> QED
  BY Zenon, <1>2, <1>3, <1>4 DEF Lane, P

\* More ids were used, and no fewer frames are frames.
LEMMA KnownGrows ==
  ASSUME Known \subseteq Known'
  PROVE  /\ StreamFrame \subseteq StreamFrame' /\ WireFrame \subseteq WireFrame'
         /\ Event \subseteq Event'
<1>1. StreamFrame \subseteq StreamFrame'
  BY Zenon DEF StreamFrame
<1>2. WireFrame \subseteq WireFrame'
  BY Zenon, <1>1 DEF WireFrame
<1>3. Event \subseteq Event'
  BY Zenon, <1>1 DEF Event
<1> QED
  BY Zenon, <1>1, <1>2, <1>3

\* The ids an end gives out are its own.
LEMMA NextOwn ==
  ASSUME NEW n \in Nat PROVE Owner(n + 2) = Owner(n)
<1>1. (n + 2) % 2 = n % 2
  OBVIOUS
<1> QED
  BY Zenon, <1>1 DEF Owner

\* open_stream: a Syn with the next id.
LEMMA OpenStreamStep ==
  ASSUME SessionInvariant, NEW e \in Ends, OpenStream(e), UNCHANGED setup
  PROVE  SessionInvariant'
<1>0. PICK id : id = next_stream_id[e]
  BY Zenon
<1> DEFINE p == Peer(e)  y == Frame("syn", id, 0)
<1>1. /\ Types /\ Queues /\ Fresh /\ Backed /\ Loop /\ Lanes /\ InOrder
      /\ Alive(e) /\ id <= setup.last
      /\ next_stream_id' = [next_stream_id EXCEPT ![e] = id + 2]
      /\ streams' = [streams EXCEPT ![e] = streams[e] \cup {id}]
      /\ hold' = [hold EXCEPT ![e] = [hold[e] EXCEPT ![id] = "live"]]
      /\ events' = [events EXCEPT ![e] = Append(events[e], y)]
      /\ UNCHANGED <<setup, flags, pending_streams,
                     write_pending_frames, read_pending_frames, wire, dist,
                     block_substream, chan, sent, delivered, up>>
  BY Zenon, <1>0 DEF SessionInvariant, OpenStream, Runs, Idle, Alive, pending, loop, Types
<1>2. p \in Ends /\ p # e /\ Peer(p) = e /\ \A x \in Ends : x = e \/ x = p
  BY Zenon, PeerFacts
<1>3. \A x \in Ends : Alive(x)' <=> Alive(x)
  BY Zenon, <1>1, AliveKept
<1>4. id \in Nat /\ id \in Ids /\ id + 2 \in Nat \ {0}
  <2>1. setup.last \in Ids
    BY Zenon, <1>1, SetupsAssumption DEF Types
  <2>2. id \in Nat \ {0}
    BY Zenon, <1>0, <1>1 DEF Types
  <2> QED
    BY SMTT(30), <1>1, <2>1, <2>2, SizesAssumption DEF Ids
<1>5. Owner(id) = e /\ id \notin Known
  BY SMTT(30), <1>0, <1>1, <1>4 DEF Fresh, Known
<1>6. /\ next_stream_id' \in [Ends -> Nat \ {0}]
      /\ next_stream_id'[e] = id + 2 /\ next_stream_id'[p] = next_stream_id[p]
  BY Zenon, <1>1, <1>2, <1>4 DEF Types
<1>7. Known \subseteq Known' /\ id \in Known'
  <2>1. ASSUME NEW k \in Known PROVE k \in Known'
    <3>1. k \in Ids /\ k < next_stream_id[Owner(k)] /\ k \in Nat
      BY DEF Known, Ids
    <3>2. CASE Owner(k) = e
      BY SMTT(30), <1>0, <1>4, <1>6, <3>1, <3>2 DEF Known
    <3>3. CASE Owner(k) # e
      <4>1. Owner(k) = p
        BY Zenon, <1>2, <3>3 DEF Owner, Ends
      <4> QED
        BY Zenon, <1>6, <3>1, <4>1 DEF Known
    <3> QED
      BY Zenon, <3>2, <3>3
  <2>2. id \in Known'
    BY SMTT(30), <1>4, <1>5, <1>6 DEF Known
  <2> QED
    BY Zenon, <2>1, <2>2
<1>8. y \in Event' /\ y \in Item
  <2>1. y \in StreamFrame'
    BY Zenon, <1>7 DEF StreamFrame, Frame
  <2>2. y \in Item
    BY <1>4, SizesAssumption DEF Item, Frame, Kinds, Ids
  <2> QED
    BY Zenon, <2>1, <2>2 DEF Event
<1>9. Is(y, "syn", id) /\ \A k : k # id => Silent(y, k)
  BY Zenon DEF Is, Frame, Silent
<1> HIDE DEF y
<1>10. Types'
  <2>1. streams' \in [Ends -> SUBSET Ids]
    BY Zenon, <1>1, <1>4 DEF Types
  <2>2. hold' \in [Ends -> [Ids -> {"none", "backlog", "live", "gone"}]]
    BY Zenon, <1>1, <1>4 DEF Types
  <2> QED
    BY Zenon, <1>1, <1>6, <2>1, <2>2 DEF Types, flags
<1>11. /\ events' \in [Ends -> Seq(Event')]
       /\ events'[e] = Append(events[e], y) /\ events'[p] = events[p]
  <2>1. events \in [Ends -> Seq(Event')]
    <3>1. events \in [Ends -> Seq(Event)] /\ Event \subseteq Event'
      BY Zenon, <1>1, <1>7, KnownGrows DEF Queues
    <3>2. \A x \in Ends : events[x] \in Seq(Event')
      BY Zenon, <3>1, SeqMonotonic
    <3> QED
      BY Zenon, <3>1, <3>2
  <2>2. Append(events[e], y) \in Seq(Event')
    BY Zenon, <1>8, <2>1, AppendProperties
  <2> QED
    BY Zenon, <1>1, <1>2, <2>1, <2>2
<1>12. Queues'
  <2>1. StreamFrame \subseteq StreamFrame' /\ WireFrame \subseteq WireFrame'
    BY Zenon, <1>7, KnownGrows
  <2>2. /\ read_pending_frames \in [Ends -> Seq(StreamFrame)]
        /\ dist \in [Ends -> Seq(StreamFrame)]
        /\ wire \in [Ends -> Seq(WireFrame)]
        /\ write_pending_frames \in [Ends -> Seq(WireFrame)]
    BY Zenon, <1>1 DEF Queues
  <2>3. \A x \in Ends :
          /\ read_pending_frames[x] \in Seq(StreamFrame') /\ dist[x] \in Seq(StreamFrame')
          /\ wire[x] \in Seq(WireFrame') /\ write_pending_frames[x] \in Seq(WireFrame')
    BY Zenon, <2>1, <2>2, SeqMonotonic
  <2>4. /\ read_pending_frames \in [Ends -> Seq(StreamFrame')]
        /\ dist \in [Ends -> Seq(StreamFrame')]
        /\ wire \in [Ends -> Seq(WireFrame')]
        /\ write_pending_frames \in [Ends -> Seq(WireFrame')]
    BY Zenon, <2>2, <2>3
  <2> QED
    BY Zenon, <1>1, <1>11, <2>4 DEF Queues
<1>13. \A x \in Ends :
         sent[x][id] = 0 /\ hold[x][id] = "none" /\ delivered[x][id] = <<>>
  BY Zenon, <1>1, <1>4, <1>5 DEF Fresh
<1>14. /\ hold'[p] = hold[p] /\ hold'[e][id] = "live"
       /\ \A k \in Ids : k # id => hold'[e][k] = hold[e][k]
       /\ streams'[p] = streams[p] /\ streams'[e] = streams[e] \cup {id}
  <2>1. hold'[e] = [hold[e] EXCEPT ![id] = "live"] /\ hold'[p] = hold[p]
    BY Zenon, <1>1, <1>2 DEF Types
  <2>2. hold[e] \in [Ids -> {"none", "backlog", "live", "gone"}]
    BY Zenon, <1>1 DEF Types
  <2>3. streams'[p] = streams[p] /\ streams'[e] = streams[e] \cup {id}
    BY Zenon, <1>1, <1>2 DEF Types
  <2> QED
    BY Zenon, <1>4, <2>1, <2>2, <2>3
<1>15. Fresh'
  <2>1. ASSUME NEW x \in Ends, NEW k \in Ids \ Known'
        PROVE  sent'[x][k] = 0 /\ hold'[x][k] = "none" /\ delivered'[x][k] = <<>>
    <3>1. k \in Ids \ Known /\ k # id
      BY Zenon, <1>7
    <3>2. hold'[x][k] = hold[x][k]
      BY Zenon, <1>2, <1>14, <3>1
    <3> QED
      BY Zenon, <1>1, <3>1, <3>2 DEF Fresh
  <2>2. ASSUME NEW x \in Ends PROVE Owner(next_stream_id'[x]) = x
    <3>1. Owner(id + 2) = e
      BY Zenon, <1>4, <1>5, NextOwn
    <3>2. Owner(next_stream_id[p]) = p
      BY Zenon, <1>1, <1>2 DEF Fresh
    <3> QED
      BY Zenon, <1>2, <1>6, <3>1, <3>2
  <2> QED
    BY Zenon, <2>1, <2>2 DEF Fresh
<1>16. \A x \in Ends, k \in Ids :
         hold'[x][k] = hold[x][k] \/ (x = e /\ k = id)
  BY Zenon, <1>2, <1>14
<1>17. Backed'
  <2>1. BackedAt(p)'
    BY Zenon, <1>1, <1>2, <1>14, BackedAtKept DEF Backed
  <2>2. Backlog(pending_streams[e], hold'[e])
    <3>1. Backlog(pending_streams[e], hold[e]) /\ pending_streams[e] \in Seq(Ids)
      BY Zenon, <1>1 DEF Backed, BackedAt, Types
    <3>2. \A i \in 1 .. Len(pending_streams[e]) : pending_streams[e][i] \in Ids
      BY Zenon, <3>1, ElementOfSeq
    <3>3. \A i \in 1 .. Len(pending_streams[e]) :
            hold[e][pending_streams[e][i]] = "backlog" =>
              hold'[e][pending_streams[e][i]] = "backlog"
      BY Zenon, <1>13, <1>14, <3>2
    <3> QED
      BY Zenon, <3>1, <3>3, BacklogKept
  <2>3. ASSUME NEW k \in streams'[e] PROVE hold'[e][k] # "none"
    <3>1. CASE k = id
      BY Zenon, <1>14, <3>1
    <3>2. CASE k # id
      <4>1. k \in streams[e] /\ k \in Ids
        BY Zenon, <1>1, <1>14, <3>2 DEF Types
      <4> QED
        BY Zenon, <1>1, <1>14, <3>2, <4>1 DEF Backed, BackedAt
    <3> QED
      BY Zenon, <3>1, <3>2
  <2>4. BackedAt(e)'
    BY Zenon, <1>1, <2>2, <2>3 DEF BackedAt
  <2> QED
    BY Zenon, <1>2, <2>1, <2>4 DEF Backed
<1>18. Loop'
  <2>1. \A x \in Ends, k \in Ids : hold[x][k] # "none" => hold'[x][k] # "none"
    BY Zenon, <1>13, <1>16
  <2> QED
    BY Zenon, <1>1, <1>3, <2>1, LoopAtKept DEF Loop
<1>19. InOrder'
  BY Zenon, <1>1 DEF InOrder
<1>20. Pipe(e)' = Pipe(e)
  BY Zenon, <1>1, <1>2, <1>3, <1>11, OtherPipe
<1>21. ASSUME NEW k \in Ids PROVE Lane(e, k)'
  <2>1. CASE k = id
    <3>1. Absent(Pipe(e)', k)
      BY Zenon, <1>1, <1>4, <1>5, <1>20, <2>1, NothingUnderWay
    <3>2. delivered'[e][k] = <<>> /\ sent'[p][k] = 0
      BY Zenon, <1>1, <1>2, <1>13, <2>1
    <3> QED
      BY Zenon, <3>1, <3>2, LaneUntouched
  <2>2. CASE k # id
    <3>1. SameFor(Pipe(e), Pipe(e)', k)
      BY Zenon, <1>20, SameKept
    <3>2. Lane(e, k)
      BY Zenon, <1>1 DEF Lanes
    <3>3. Still(e, k)
      BY Zenon, <1>1, <1>2, <1>3, <1>14, <2>2 DEF Still
    <3> QED
      BY Zenon, <3>1, <3>2, <3>3, LaneSame
  <2> QED
    BY Zenon, <2>1, <2>2
<1>22. ASSUME NEW k \in Ids, Alive(p)' PROVE Lane(p, k)'
  <2>1. CASE k = id
    <3>1. Put(Pipe(p), Pipe(p)', Len(Pipe(p)), y)
      BY SMTT(30), <1>1, <1>2, <1>3, <1>8, <1>11, <1>12, Asked
    <3>2. Absent(Pipe(p), k)
      BY Zenon, <1>1, <1>2, <1>4, <1>5, <2>1, NothingUnderWay
    <3>3. /\ delivered'[p][k] = <<>> /\ sent'[e][k] = 0 /\ hold'[p][k] = "none"
          /\ Owner(k) = e /\ Is(y, "syn", k)
      BY SMTT(30), <1>1, <1>2, <1>5, <1>9, <1>13, <1>14, <2>1
    <3> QED
      BY Zenon, <1>2, <3>1, <3>2, <3>3, LaneOpened
  <2>2. CASE k # id
    <3>1. SameFor(Pipe(p), Pipe(p)', k)
      BY ZenonT(30), <1>1, <1>2, <1>3, <1>8, <1>9, <1>11, <1>12, <2>2, AskedSilently
    <3>2. Lane(p, k)
      BY Zenon, <1>1, <1>2, <1>3, <1>22 DEF Lanes
    <3>3. Still(p, k)
      BY Zenon, <1>1, <1>2, <1>3, <1>14 DEF Still
    <3> QED
      BY Zenon, <1>2, <3>1, <3>2, <3>3, LaneSame
  <2> QED
    BY Zenon, <2>1, <2>2
<1>23. Lanes'
  BY Zenon, <1>2, <1>21, <1>22 DEF Lanes
<1> QED
  BY Zenon, <1>10, <1>12, <1>15, <1>17, <1>18, <1>19, <1>23 DEF SessionInvariant

(***************************************************************************)
(* The invariant                                                           *)
(***************************************************************************)
LEMMA InitHolds == Init => SessionInvariant
<1> SUFFICES ASSUME Init PROVE SessionInvariant
  BY Zenon
<1>1. \A S : <<>> \in Seq(S) /\ Len(<<>>) = 0
  BY Zenon, EmptySeq
<1>2. Types
  <2>1. next_stream_id \in [Ends -> Nat \ {0}]
    BY DEF Init, FirstId
  <2> QED
    BY Zenon, <1>1, <2>1 DEF Init, Types
<1>3. Queues
  BY SMTT(30), <1>1, SizesAssumption DEF Init, Queues
<1>4. Known = {}
  <2>1. \A n \in Nat : n # 0 /\ n < 1 => FALSE
    OBVIOUS
  <2>2. ASSUME NEW id \in Known PROVE FALSE
    <3>1. /\ id \in Nat /\ id # 0 /\ id < FirstId(Owner(id)) /\ Owner(id) \in Ends
      BY DEF Init, Known, Ids, Owner, Ends
    <3>2. CASE Owner(id) = "client"
      BY SMTT(30), <3>1, <3>2 DEF FirstId
    <3>3. CASE Owner(id) # "client"
      <4>1. id = 1
        BY SMTT(30), <3>1, <3>3 DEF FirstId
      <4> QED
        BY SMTT(30), <3>3, <4>1 DEF Owner
    <3> QED
      BY Zenon, <3>2, <3>3
  <2> QED
    BY Zenon, <2>2
<1>5. Fresh
  <2>1. \A e \in Ends : Owner(next_stream_id[e]) = e
    BY DEF Init, FirstId, Owner, Ends
  <2> QED
    BY Zenon, <2>1 DEF Init, Fresh
<1>6. Backed
  BY SMTT(30), <1>1 DEF Init, Backed, BackedAt, Backlog
<1>7. Loop
  BY <1>1 DEF Init, Loop, LoopAt
<1>8. InOrder
  <2>1. ASSUME NEW e \in Ends, NEW id \in Ids
        PROVE  /\ delivered[e][id] = [i \in 1 .. Len(delivered[e][id]) |-> i]
               /\ Len(delivered[e][id]) <= sent[Peer(e)][id]
    <3>1. delivered[e][id] = <<>> /\ sent[Peer(e)][id] = 0
      BY Zenon, PeerFacts DEF Init
    <3>2. <<>> = [i \in 1 .. Len(<<>>) |-> i] /\ Len(<<>>) <= 0
      OBVIOUS
    <3> QED
      BY Zenon, <3>1, <3>2
  <2> QED
    BY Zenon, <2>1 DEF InOrder
<1>9. Lanes
  <2>1. ASSUME NEW e \in Ends, NEW id \in Ids PROVE Lane(e, id)
    <3>1. Pipe(e) = <<>>
      <4>1. Peer(e) \in Ends
        BY Zenon, PeerFacts
      <4>2. Out(Peer(e)) = <<>>
        BY <4>1 DEF Init, Out
      <4> QED
        BY SMTT(30), <4>1, <4>2 DEF Init, Pipe
    <3>2. SynFirst(Pipe(e), id) /\ ~SynIn(Pipe(e), id)
      BY SMTT(30), <1>1, <3>1 DEF SynFirst, SynIn
    <3>3. ~Open(e, id)
      BY Zenon, <3>2 DEF Open, Init
    <3> QED
      BY Zenon, <3>2, <3>3 DEF Lane
  <2> QED
    BY Zenon, <2>1 DEF Lanes
<1> QED
  BY Zenon, <1>2, <1>3, <1>5, <1>6, <1>7, <1>8, <1>9 DEF SessionInvariant

\* What a step does to what was sent and what was delivered: nothing, or one frame is
\* sent, or the next frame is delivered.
Effect ==
  \/ UNCHANGED <<sent, delivered>>
  \/ /\ UNCHANGED delivered
     /\ \E e \in Ends, id \in Ids : sent' = [sent EXCEPT ![e][id] = @ + 1]
  \/ /\ UNCHANGED sent
     /\ \E e \in Ends : OneMore(e)

\* Every step of the session's task.
LEMMA TaskStep ==
  ASSUME SessionInvariant, NEW e \in Ends, Task(e), UNCHANGED setup
  PROVE  SessionInvariant' /\ Effect
<1>1. CASE Accept(e)
  <2>1. UNCHANGED <<sent, delivered>>
    BY Zenon, <1>1 DEF Accept
  <2> QED
    BY Zenon, <1>1, <2>1, AcceptStep DEF Effect
<1>2. CASE RecvFrames(e)
  <2>1. UNCHANGED <<sent, delivered>>
    BY Zenon, <1>2 DEF RecvFrames, RecvStreamFrame, RecvGoAway, RecvEof, handles
  <2>2. SessionInvariant'
    BY Zenon, <1>2, RecvStreamFrameStep, RecvGoAwayStep, RecvEofStep DEF RecvFrames
  <2> QED
    BY Zenon, <2>1, <2>2 DEF Effect
<1>3. CASE RecvEvent(e)
  <2>1. UNCHANGED <<sent, delivered>>
    BY Zenon, <1>3 DEF RecvEvent, handles
  <2> QED
    BY Zenon, <1>3, <2>1, RecvEventStep DEF Effect
<1>4. CASE Flush(e)
  <2>1. UNCHANGED <<sent, delivered>>
    BY Zenon, <1>4 DEF Flush, handles
  <2> QED
    BY Zenon, <1>4, <2>1, FlushStep DEF Effect
<1>5. CASE GoAwayTimeout(e)
  <2>1. UNCHANGED <<sent, delivered>>
    BY Zenon, <1>5 DEF GoAwayTimeout, handles
  <2> QED
    BY Zenon, <1>5, <2>1, RecvEofStep DEF Effect
<1>6. CASE SessionEnd(e)
  <2>1. UNCHANGED <<sent, delivered>>
    BY Zenon, <1>6 DEF SessionEnd
  <2> QED
    BY Zenon, <1>6, <2>1, SessionEndStep DEF Effect
<1>7. CASE DistributeBlocked(e)
  <2>1. UNCHANGED <<sent, delivered>>
    BY Zenon, <1>7 DEF DistributeBlocked, handles
  <2> QED
    BY Zenon, <1>7, <2>1, DistributeBlockedStep DEF Effect
<1>8. CASE DistributeGoingAway(e)
  <2>1. UNCHANGED <<sent, delivered>>
    BY Zenon, <1>8 DEF DistributeGoingAway, handles
  <2> QED
    BY Zenon, <1>8, <2>1, DistributeGoingAwayStep DEF Effect
<1>9. CASE DistributeAccept(e)
  <2>1. UNCHANGED <<sent, delivered>>
    BY Zenon, <1>9 DEF DistributeAccept
  <2> QED
    BY Zenon, <1>9, <2>1, DistributeAcceptStep DEF Effect
<1>10. CASE DistributeRefuse(e)
  BY Zenon, <1>10, DistributeRefuseStep DEF Effect
<1>11. CASE DistributeFrame(e)
  BY Zenon, <1>11, DistributeFrameStep DEF Effect
<1> QED
  BY SMTT(30), <1>1, <1>2, <1>3, <1>4, <1>5, <1>6, <1>7, <1>8, <1>9, <1>10, <1>11
     DEF Task, Distribute

\* Every step of the application and its handles.
LEMMA ApplicationStep ==
  ASSUME SessionInvariant, NEW e \in Ends, Application(e), UNCHANGED setup
  PROVE  SessionInvariant' /\ Effect
<1>1. CASE OpenStream(e)
  <2>1. UNCHANGED <<sent, delivered>>
    BY Zenon, <1>1 DEF OpenStream
  <2> QED
    BY Zenon, <1>1, <2>1, OpenStreamStep DEF Effect
<1>2. CASE Shutdown(e)
  <2>1. UNCHANGED <<sent, delivered>>
    BY Zenon, <1>2 DEF Shutdown, handles
  <2> QED
    BY Zenon, <1>2, <2>1, ShutdownStep DEF Effect
<1>3. ASSUME NEW id \in Ids, HandleSend(e, id) PROVE SessionInvariant' /\ Effect
  <2>1. UNCHANGED delivered /\ sent' = [sent EXCEPT ![e][id] = @ + 1]
    BY Zenon, <1>3 DEF HandleSend
  <2> QED
    BY Zenon, <1>3, <2>1, HandleSendStep DEF Effect
<1>4. ASSUME NEW id \in Ids, HandleTake(e, id) PROVE SessionInvariant' /\ Effect
  <2>1. UNCHANGED <<sent, delivered>>
    BY Zenon, <1>4 DEF HandleTake
  <2> QED
    BY Zenon, <1>4, <2>1, HandleTakeStep DEF Effect
<1>5. ASSUME NEW id \in Ids, HandleDrop(e, id) PROVE SessionInvariant' /\ Effect
  <2>1. UNCHANGED <<sent, delivered>>
    BY Zenon, <1>5 DEF HandleDrop
  <2> QED
    BY Zenon, <1>5, <2>1, HandleDropStep DEF Effect
<1> QED
  BY Zenon, <1>1, <1>2, <1>3, <1>4, <1>5 DEF Application

\* When nothing changes, neither does what the invariant speaks of.
LEMMA StutterStep ==
  ASSUME SessionInvariant, UNCHANGED vars
  PROVE  SessionInvariant' /\ Effect
<1>1. /\ Types /\ Queues /\ Fresh /\ Backed /\ Loop /\ Lanes /\ InOrder
      /\ UNCHANGED <<setup, flags, next_stream_id, streams, pending_streams, pending,
                     dist, block_substream, events, chan, hold, sent, delivered, up>>
  BY Zenon DEF SessionInvariant, vars, loop, handles
<1>2. Types'
  BY Zenon, <1>1 DEF Types, flags
<1>3. Queues'
  BY Zenon, <1>1, QueuesKept
<1>4. Fresh' /\ Backed' /\ InOrder'
  BY Zenon, <1>1, HandlesKept
<1>5. Loop'
  BY Zenon, <1>1, AliveKept, LoopAtKept DEF Loop, pending
<1>6. Lanes'
  BY Zenon, <1>1, LanesKept
<1> QED
  BY Zenon, <1>1, <1>2, <1>3, <1>4, <1>5, <1>6 DEF SessionInvariant, Effect

\* Every step keeps the invariant, and does to the two ends' data what Effect says.
LEMMA StepHolds == SessionInvariant /\ [Next]_vars => SessionInvariant' /\ Effect
<1> SUFFICES ASSUME SessionInvariant, [Next]_vars PROVE SessionInvariant' /\ Effect
  BY Zenon
<1>1. CASE Next
  BY Zenon, <1>1, TaskStep, ApplicationStep DEF Next
<1>2. CASE UNCHANGED vars
  BY Zenon, <1>2, StutterStep
<1> QED
  BY Zenon, <1>1, <1>2

\* The invariant.
LEMMA SessionInvariantHolds == Spec => []SessionInvariant
<1>1. SessionInvariant /\ [Next]_vars => SessionInvariant'
  BY Zenon, StepHolds
<1> QED
  BY InitHolds, <1>1, PTL DEF Spec

\* Whatever the sizes of the channels, of the connection and of the backlog, and whatever
\* the applications do, create_stream finds no stream id in use: two sessions never send
\* GoAway(ProtocolError) to each other.
THEOREM NoProtocolErrorSentHolds == Spec => []NoProtocolErrorSent
<1>1. SessionInvariant => NoProtocolErrorSent
  <2> SUFFICES ASSUME SessionInvariant PROVE NoProtocolErrorSent
    BY Zenon
  <2>1. Types /\ Queues
    BY Zenon DEF SessionInvariant
  <2>2. TypeOK
    <3>1. /\ read_pending_frames \in [Ends -> Seq(StreamFrame)]
          /\ dist \in [Ends -> Seq(StreamFrame)]
          /\ wire \in [Ends -> Seq(WireFrame)]
          /\ write_pending_frames \in [Ends -> Seq(WireFrame)]
          /\ events \in [Ends -> Seq(Event)]
      BY Zenon, <2>1 DEF Queues
    <3> DEFINE EventFrames == Frames \cup {Closed(id) : id \in Ids}
    <3>2. /\ StreamFrame \subseteq Frames /\ WireFrame \subseteq Frames
          /\ Event \subseteq EventFrames
      BY Zenon, FramesAreItems
    <3> HIDE DEF EventFrames
    <3>3. \A x \in Ends :
            /\ read_pending_frames[x] \in Seq(Frames) /\ dist[x] \in Seq(Frames)
            /\ wire[x] \in Seq(Frames) /\ write_pending_frames[x] \in Seq(Frames)
            /\ events[x] \in Seq(EventFrames)
      BY Zenon, <3>1, <3>2, SeqMonotonic
    <3>4. /\ read_pending_frames \in [Ends -> Seq(Frames)]
          /\ dist \in [Ends -> Seq(Frames)]
          /\ wire \in [Ends -> Seq(Frames)]
          /\ write_pending_frames \in [Ends -> Seq(Frames)]
          /\ events \in [Ends -> Seq(EventFrames)]
      BY Zenon, <3>1, <3>3
    <3>5. next_stream_id \in [Ends -> Nat]
      BY Zenon, <2>1 DEF Types
    <3> QED
      BY Zenon, <2>1, <3>4, <3>5 DEF TypeOK, Types, EventFrames
  <2>3. ASSUME NEW e \in Ends, NEW q \in {wire[e], write_pending_frames[e]},
               NEW i \in 1 .. Len(q)
        PROVE  q[i] # GoAwayFrame(ProtocolError)
    <3>1. q \in Seq(WireFrame)
      BY Zenon, <2>1 DEF Queues
    <3>2. q[i] \in WireFrame
      BY Zenon, <3>1, ElementOfSeq
    <3> QED
      BY <3>2 DEF WireFrame, StreamFrame, GoAwayFrame, Frame, Normal, ProtocolError
  <2> QED
    BY Zenon, <2>2, <2>3 DEF NoProtocolErrorSent
<1> QED
  BY <1>1, SessionInvariantHolds, PTL

(***************************************************************************)
(* The refinement                                                          *)
(***************************************************************************)
\* The first n numbers, as the sequence a direction of a stream has carried.
Count(n) == [i \in 1 .. n |-> i]

\* The first numbers, in order, and one more.
LEMMA Counting ==
  ASSUME NEW n \in Nat
  PROVE  /\ Count(n) \in Seq(Nat) /\ Len(Count(n)) = n
         /\ Append(Count(n), n + 1) = Count(n + 1)
         /\ \A k \in 1 .. n : Count(n)[k] = k
BY DEF Count

\* What the two ends put into each direction of each stream, and what came out, for
\* OrderedStreams.
PutIn == [d \in Ends \X Ids |-> Count(sent[d[1]][d[2]])]
GotOut == [d \in Ends \X Ids |-> delivered[Peer(d[1])][d[2]]]

\* HandleSend puts the next item in.
LEMMA SendIsPut ==
  ASSUME SessionInvariant, UNCHANGED delivered, NEW e \in Ends, NEW id \in Ids,
         sent' = [sent EXCEPT ![e][id] = @ + 1]
  PROVE  \E d \in Ends \X Ids :
           /\ PutIn' = [PutIn EXCEPT ![d] = Append(@, Len(@) + 1)] /\ UNCHANGED GotOut
<1> DEFINE c == <<e, id>>  n == sent[e][id]
<1>1. sent \in [Ends -> [Ids -> Nat]] /\ n \in Nat /\ c \in Ends \X Ids
  BY Zenon DEF SessionInvariant, Types
<1>2. sent'[e][id] = n + 1
  BY Zenon, <1>1
<1>3. \A x \in Ends, k \in Ids : x # e \/ k # id => sent'[x][k] = sent[x][k]
  BY Zenon, <1>1
<1>4. PutIn[c] = Count(n)
  BY Zenon, <1>1 DEF PutIn
<1>5. Append(PutIn[c], Len(PutIn[c]) + 1) = Count(n + 1)
  BY Zenon, <1>1, <1>4, Counting
<1> HIDE DEF n
<1>6. ASSUME NEW d \in Ends \X Ids
      PROVE  PutIn'[d] = [PutIn EXCEPT ![c] = Append(@, Len(@) + 1)][d]
  <2>1. PutIn'[d] = Count(sent'[d[1]][d[2]]) /\ PutIn[d] = Count(sent[d[1]][d[2]])
    BY Zenon DEF PutIn
  <2>2. d[1] \in Ends /\ d[2] \in Ids /\ d = <<d[1], d[2]>>
    OBVIOUS
  <2>3. CASE d = c
    BY Zenon, <1>1, <1>2, <1>5, <2>1, <2>3 DEF PutIn
  <2>4. CASE d # c
    <3>1. d[1] # e \/ d[2] # id
      BY Zenon, <2>2, <2>4
    <3>2. PutIn'[d] = PutIn[d]
      BY Zenon, <1>3, <2>1, <2>2, <3>1
    <3> QED
      BY Zenon, <2>4, <3>2 DEF PutIn
  <2> QED
    BY Zenon, <2>3, <2>4
<1>7. PutIn' = [PutIn EXCEPT ![c] = Append(@, Len(@) + 1)]
  BY Zenon, <1>6 DEF PutIn
<1>8. UNCHANGED GotOut
  BY Zenon DEF GotOut
<1> QED
  BY Zenon, <1>1, <1>7, <1>8

\* A data frame that goes into its handle's channel comes out, and it is the next.
LEMMA DeliveryIsGet ==
  ASSUME SessionInvariant, UNCHANGED sent, NEW e \in Ends, OneMore(e)
  PROVE  \E d \in Ends \X Ids :
           /\ Len(GotOut[d]) < Len(PutIn[d])
           /\ GotOut' = [GotOut EXCEPT ![d] = Append(@, PutIn[d][Len(@) + 1])]
           /\ UNCHANGED PutIn
<1>1. /\ sent \in [Ends -> [Ids -> Nat]] /\ delivered \in [Ends -> [Ids -> Seq(Nat)]]
  BY Zenon DEF SessionInvariant, Types
<1>2. PICK id \in Ids :
        /\ delivered' = [delivered EXCEPT ![e] =
                           [delivered[e] EXCEPT ![id] = Append(@, Len(@) + 1)]]
        /\ Len(delivered[e][id]) + 1 <= sent[Peer(e)][id]
  BY Zenon DEF OneMore
<1> DEFINE p == Peer(e)  c == <<p, id>>  n == sent[p][id]  g == delivered[e][id]
<1>3. p \in Ends /\ Peer(p) = e /\ \A x \in Ends : Peer(x) = e => x = p
  BY Zenon, PeerFacts
<1>4. c \in Ends \X Ids /\ n \in Nat /\ g \in Seq(Nat) /\ Len(g) \in Nat
  BY SMTT(30), <1>1, <1>3, LenProperties
<1>5. GotOut[c] = g /\ PutIn[c] = Count(n)
  BY Zenon, <1>3, <1>4 DEF GotOut, PutIn
<1>6. Len(GotOut[c]) < Len(PutIn[c]) /\ PutIn[c][Len(GotOut[c]) + 1] = Len(g) + 1
  <2>1. Len(g) + 1 \in 1 .. n
    BY SMTT(30), <1>2, <1>4
  <2> HIDE DEF n, g
  <2>2. Len(Count(n)) = n /\ Count(n)[Len(g) + 1] = Len(g) + 1
    BY Zenon, <1>4, <2>1, Counting
  <2>3. Len(g) < n
    BY SMTT(30), <1>4, <2>1
  <2> QED
    BY Zenon, <1>5, <2>2, <2>3
<1>7. /\ delivered'[e][id] = Append(g, Len(g) + 1)
      /\ \A x \in Ends, k \in Ids : x # e \/ k # id => delivered'[x][k] = delivered[x][k]
  <2>1. delivered'[e] = [delivered[e] EXCEPT ![id] = Append(@, Len(@) + 1)]
    BY Zenon, <1>1, <1>2
  <2>2. \A x \in Ends : x # e => delivered'[x] = delivered[x]
    BY Zenon, <1>1, <1>2
  <2>3. delivered[e] \in [Ids -> Seq(Nat)]
    BY Zenon, <1>1
  <2> QED
    BY Zenon, <2>1, <2>2, <2>3
<1> HIDE DEF n, g, p
<1>8. ASSUME NEW d \in Ends \X Ids
      PROVE  GotOut'[d] = [GotOut EXCEPT ![c] = Append(@, PutIn[c][Len(@) + 1])][d]
  <2>1. GotOut'[d] = delivered'[Peer(d[1])][d[2]] /\ GotOut[d] = delivered[Peer(d[1])][d[2]]
    BY Zenon DEF GotOut
  <2>2. d[1] \in Ends /\ d[2] \in Ids /\ d = <<d[1], d[2]>> /\ Peer(d[1]) \in Ends
    BY PeerFacts
  <2>3. CASE d = c
    <3>1. GotOut'[d] = Append(g, Len(g) + 1)
      BY Zenon, <1>3, <1>7, <2>1, <2>3
    <3>2. [GotOut EXCEPT ![c] = Append(@, PutIn[c][Len(@) + 1])][d]
            = Append(GotOut[c], PutIn[c][Len(GotOut[c]) + 1])
      BY Zenon, <1>4, <2>3 DEF GotOut
    <3> QED
      BY Zenon, <1>5, <1>6, <3>1, <3>2
  <2>4. CASE d # c
    <3>1. Peer(d[1]) # e \/ d[2] # id
      BY Zenon, <1>3, <2>2, <2>4
    <3>2. GotOut'[d] = GotOut[d]
      BY Zenon, <1>7, <2>1, <2>2, <3>1
    <3> QED
      BY Zenon, <2>4, <3>2 DEF GotOut
  <2> QED
    BY Zenon, <2>3, <2>4
<1>9. GotOut' = [GotOut EXCEPT ![c] = Append(@, PutIn[c][Len(@) + 1])]
  BY Zenon, <1>8 DEF GotOut
<1>10. UNCHANGED PutIn
  BY Zenon DEF PutIn
<1> QED
  BY Zenon, <1>4, <1>6, <1>9, <1>10

\* Two sessions implement the ordered streams their users see: what comes out of a stream
\* is what was put in, from the first frame on, without a gap and in order.
THEOREM ImplementsOrderedStreamsHolds == Spec => ImplementsOrderedStreams
<1>1. Init => Pipes!Init
  <2> SUFFICES ASSUME Init PROVE Pipes!Init
    BY Zenon
  <2>1. ASSUME NEW d \in Ends \X Ids
        PROVE  /\ [i \in 1 .. sent[d[1]][d[2]] |-> i] = <<>>
               /\ delivered[Peer(d[1])][d[2]] = <<>>
    <3>1. d[1] \in Ends /\ d[2] \in Ids /\ Peer(d[1]) \in Ends
      BY Zenon, PeerFacts
    <3>2. sent[d[1]][d[2]] = 0 /\ delivered[Peer(d[1])][d[2]] = <<>>
      BY Zenon, <3>1 DEF Init
    <3>3. [i \in 1 .. 0 |-> i] = <<>>
      OBVIOUS
    <3> QED
      BY Zenon, <3>2, <3>3
  <2> QED
    BY Zenon, <2>1 DEF Pipes!Init
<1>2. SessionInvariant /\ [Next]_vars =>
        [Pipes!Next]_<<[d \in Ends \X Ids |-> [i \in 1 .. sent[d[1]][d[2]] |-> i]],
                       [d \in Ends \X Ids |-> delivered[Peer(d[1])][d[2]]]>>
  <2> SUFFICES ASSUME SessionInvariant, [Next]_vars
               PROVE  Pipes!Next \/ UNCHANGED <<PutIn, GotOut>>
    BY Zenon DEF PutIn, GotOut, Count
  <2>1. Effect
    BY Zenon, StepHolds
  <2>2. CASE UNCHANGED <<sent, delivered>>
    BY Zenon, <2>2 DEF PutIn, GotOut
  <2>3. CASE /\ UNCHANGED delivered
             /\ \E e \in Ends, id \in Ids : sent' = [sent EXCEPT ![e][id] = @ + 1]
    <3>1. PICK d \in Ends \X Ids :
            /\ PutIn' = [PutIn EXCEPT ![d] = Append(@, Len(@) + 1)] /\ UNCHANGED GotOut
      BY Zenon, <2>3, SendIsPut
    <3>2. Pipes!Put(d)
      BY Zenon, <3>1 DEF Pipes!Put, PutIn, GotOut, Count
    <3> QED
      BY Zenon, <3>2 DEF Pipes!Next
  <2>4. CASE /\ UNCHANGED sent
             /\ \E e \in Ends : OneMore(e)
    <3>1. PICK d \in Ends \X Ids :
            /\ Len(GotOut[d]) < Len(PutIn[d])
            /\ GotOut' = [GotOut EXCEPT ![d] = Append(@, PutIn[d][Len(@) + 1])]
            /\ UNCHANGED PutIn
      BY Zenon, <2>4, DeliveryIsGet
    <3>2. Pipes!Get(d)
      BY Zenon, <3>1 DEF Pipes!Get, PutIn, GotOut, Count
    <3> QED
      BY Zenon, <3>2 DEF Pipes!Next
  <2> QED
    BY Zenon, <2>1, <2>2, <2>3, <2>4 DEF Effect
<1> QED
  BY <1>1, <1>2, SessionInvariantHolds, PTL DEF Spec, ImplementsOrderedStreams, Pipes!Spec

=============================================================================
