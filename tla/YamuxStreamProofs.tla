-------------------------- MODULE YamuxStreamProofs --------------------------
(***************************************************************************)
(* The theorems about YamuxStream, for every window size, every buffer     *)
(* size and every choice of what the two applications do.  First what      *)
(* sending, losing and taking a frame does to the totals the frames under  *)
(* way carry, and to the windows of both ends; then one lemma per action   *)
(* for InductiveInvariant; then the same for EofInvariant.                 *)
(***************************************************************************)
EXTENDS YamuxStream, SequenceTheorems, TLAPS

(***************************************************************************)
(* The frames under way                                                    *)
(***************************************************************************)

\* The order of the integers, as the frames' totals use it.
LEMMA AtMostTransitive ==
  \A x, y, z \in Int : x <= y /\ y <= z => x <= z
OBVIOUS

\* The totals of a frame are numbers, and bound the totals before it.
LEMMA FrameTotals ==
  ASSUME NEW f \in Frame
  PROVE  /\ f.len \in Nat /\ f.sent \in Nat /\ f.granted \in Nat
         /\ SentBefore(f) \in Int /\ GrantedBefore(f) \in Int
         /\ SentBefore(f) <= f.sent /\ GrantedBefore(f) <= f.granted
BY DEF Frame, SentBefore, GrantedBefore

\* What the peer writes or grants on top of them leaves the frames in order.
LEMMA InOrderGrow ==
  ASSUME NEW q \in Seq(Frame), NEW t \in Nat, NEW c \in Nat,
         NEW w \in Nat, NEW g \in Nat, NEW w2 \in Nat, NEW g2 \in Nat,
         InOrder(q, t, c, w, g), w <= w2, g <= g2
  PROVE  InOrder(q, t, c, w2, g2)
<1>1. ASSUME NEW i \in 1 .. Len(q)
      PROVE  q[i].sent <= w2 /\ q[i].granted <= g2
  <2>1. q[i] \in Frame
    BY Zenon, ElementOfSeq
  <2>2. q[i].sent \in Int /\ q[i].granted \in Int
    BY <2>1, FrameTotals
  <2>3. q[i].sent <= w /\ q[i].granted <= g
    BY Zenon DEF InOrder
  <2> QED
    BY <2>2, <2>3, AtMostTransitive
<1> QED
  BY <1>1, Zenon DEF InOrder

\* Losing the frames behind the k-th leaves the others in order.
LEMMA InOrderPrefix ==
  ASSUME NEW q \in Seq(Frame), NEW t \in Nat, NEW c \in Nat,
         NEW w \in Nat, NEW g \in Nat, NEW k \in 0 .. Len(q),
         InOrder(q, t, c, w, g)
  PROVE  /\ SubSeq(q, 1, k) \in Seq(Frame)
         /\ Len(SubSeq(q, 1, k)) = k
         /\ InOrder(SubSeq(q, 1, k), t, c, w, g)
<1> DEFINE r == SubSeq(q, 1, k)
<1>1. CASE k = 0
  <2>1. r = << >>
    BY <1>1, SubSeqEmpty
  <2> QED
    BY <1>1, <2>1 DEF InOrder
<1>2. CASE k > 0
  <2>1. r \in Seq(Frame) /\ Len(r) = k /\ \A i \in 1 .. k : r[i] = q[i]
    BY <1>2, SubSeqProperties
  <2> HIDE DEF r
  <2>2. ASSUME NEW i \in 1 .. k, NEW j \in 1 .. k, i < j
        PROVE  r[i].sent <= SentBefore(r[j]) /\ r[i].granted <= GrantedBefore(r[j])
    <3>1. i \in 1 .. Len(q) /\ j \in 1 .. Len(q)
      OBVIOUS
    <3> QED
      BY <2>1, <2>2, <3>1, Zenon DEF InOrder
  <2>3. ASSUME NEW i \in 1 .. k
        PROVE  /\ t <= SentBefore(r[i]) /\ c <= GrantedBefore(r[i])
               /\ r[i].sent <= w /\ r[i].granted <= g
    <3>1. i \in 1 .. Len(q)
      OBVIOUS
    <3> QED
      BY <2>1, <3>1, Zenon DEF InOrder
  <2>4. InOrder(r, t, c, w, g)
    BY <2>1, <2>2, <2>3, Zenon DEF InOrder
  <2> QED
    BY Zenon, <2>1, <2>4 DEF r
<1> QED
  BY <1>1, <1>2

\* A frame that carries the sender's totals goes behind the others.
LEMMA InOrderAppend ==
  ASSUME NEW q \in Seq(Frame), NEW t \in Nat, NEW c \in Nat,
         NEW w \in Nat, NEW g \in Nat, NEW f \in Frame,
         InOrder(q, t, c, w, g), t <= w, c <= g,
         SentBefore(f) = w, GrantedBefore(f) = g
  PROVE  /\ Append(q, f) \in Seq(Frame)
         /\ Len(Append(q, f)) = Len(q) + 1
         /\ InOrder(Append(q, f), t, c, f.sent, f.granted)
<1> DEFINE r == Append(q, f)
<1>1. /\ r \in Seq(Frame) /\ Len(r) = Len(q) + 1 /\ r[Len(q) + 1] = f
      /\ \A i \in 1 .. Len(q) : r[i] = q[i]
  BY AppendProperties
<1> HIDE DEF r
<1>2. \A i \in 1 .. Len(q) : q[i] \in Frame
  BY Zenon, ElementOfSeq
<1>3. w <= f.sent /\ g <= f.granted
  BY Zenon, FrameTotals
<1>4. Len(q) \in Nat
  BY Zenon, LenProperties
<1>5. ASSUME NEW i \in 1 .. Len(r)
      PROVE  /\ t <= SentBefore(r[i]) /\ c <= GrantedBefore(r[i])
             /\ r[i].sent <= f.sent /\ r[i].granted <= f.granted
  <2>1. CASE i = Len(q) + 1
    BY <1>1, <2>1, SMTT(30) DEF Frame
  <2>2. CASE i \in 1 .. Len(q)
    <3>1. /\ t <= SentBefore(q[i]) /\ c <= GrantedBefore(q[i])
          /\ q[i].sent <= w /\ q[i].granted <= g
      BY Zenon, <2>2 DEF InOrder
    <3>2. q[i] \in Frame /\ r[i] = q[i]
      BY Zenon, <1>1, <1>2, <2>2
    <3>3. q[i].sent \in Nat /\ q[i].granted \in Nat /\ f.sent \in Nat /\ f.granted \in Nat
      BY Zenon, <3>2, FrameTotals, SMTT(20)
    <3>4. q[i].sent <= f.sent /\ q[i].granted <= f.granted
      BY <1>3, <3>1, <3>3, AtMostTransitive, SMTT(20)
    <3> QED
      BY Zenon, <3>1, <3>2, <3>4
  <2> QED
    BY <1>1, <1>4, <2>1, <2>2
<1>6. ASSUME NEW i \in 1 .. Len(r), NEW j \in 1 .. Len(r), i < j
      PROVE  r[i].sent <= SentBefore(r[j]) /\ r[i].granted <= GrantedBefore(r[j])
  <2>1. i \in 1 .. Len(q)
    BY <1>1, <1>4, <1>6
  <2>2. CASE j = Len(q) + 1
    BY Zenon, <1>1, <2>1, <2>2 DEF InOrder
  <2>3. CASE j \in 1 .. Len(q)
    <3>1. q[i].sent <= SentBefore(q[j]) /\ q[i].granted <= GrantedBefore(q[j])
      BY <1>6, <2>1, <2>3, Zenon DEF InOrder
    <3> QED
      BY <1>1, <2>1, <2>3, <3>1, Zenon
  <2> QED
    BY <1>1, <1>4, <2>2, <2>3
<1> QED
  BY Zenon, <1>1, <1>5, <1>6 DEF InOrder, r

\* Taking the first frame counts its bytes and its credit, and nothing else.
LEMMA InOrderTail ==
  ASSUME NEW q \in Seq(Frame), NEW t \in Nat, NEW c \in Nat,
         NEW w \in Nat, NEW g \in Nat, q # << >>,
         InOrder(q, t, c, w, g)
  PROVE  /\ Head(q) \in Frame /\ Tail(q) \in Seq(Frame)
         /\ Len(Tail(q)) = Len(q) - 1
         /\ InOrder(Tail(q), t, c, w, g)
         /\ Head(q).ty = "data" =>
              t + Head(q).len <= w /\ InOrder(Tail(q), t + Head(q).len, c, w, g)
         /\ Head(q).ty = "update" =>
              c + Head(q).len <= g /\ InOrder(Tail(q), t, c + Head(q).len, w, g)
<1> DEFINE r == Tail(q)  f == Head(q)
<1>1. /\ f \in Frame /\ f = q[1] /\ r \in Seq(Frame) /\ Len(r) = Len(q) - 1
      /\ \A i \in 1 .. Len(r) : r[i] = q[i + 1]
      /\ Len(q) \in Nat \ {0}
  BY HeadTailProperties, LenProperties, EmptySeq
<1> HIDE DEF r, f
<1>2. \A i \in 1 .. Len(q) : q[i] \in Frame
  BY Zenon, ElementOfSeq
<1>3. /\ t <= SentBefore(f) /\ c <= GrantedBefore(f)
      /\ f.sent <= w /\ f.granted <= g
  BY <1>1 DEF InOrder
<1>4. ASSUME NEW i \in 1 .. Len(r)
      PROVE  /\ r[i] \in Frame
             /\ f.sent <= SentBefore(r[i]) /\ f.granted <= GrantedBefore(r[i])
             /\ t <= SentBefore(r[i]) /\ c <= GrantedBefore(r[i])
             /\ r[i].sent <= w /\ r[i].granted <= g
  BY <1>1, <1>2 DEF InOrder
<1>5. /\ f.len \in Nat /\ f.sent \in Nat /\ f.granted \in Nat
      /\ \A i \in 1 .. Len(r) : SentBefore(r[i]) \in Int /\ GrantedBefore(r[i]) \in Int
  BY <1>1, <1>4, FrameTotals, ZenonT(30)
<1>6. ASSUME NEW i \in 1 .. Len(r), NEW j \in 1 .. Len(r), i < j
      PROVE  r[i].sent <= SentBefore(r[j]) /\ r[i].granted <= GrantedBefore(r[j])
  <2>1. i + 1 \in 1 .. Len(q) /\ j + 1 \in 1 .. Len(q) /\ i + 1 < j + 1
    BY <1>1, <1>6
  <2>2. /\ q[i + 1].sent <= SentBefore(q[j + 1])
        /\ q[i + 1].granted <= GrantedBefore(q[j + 1])
    BY <2>1, Zenon DEF InOrder
  <2> QED
    BY <1>1, <2>2, Zenon
<1>7. ASSUME f.ty = "data"
      PROVE  t + f.len <= w /\ InOrder(r, t + f.len, c, w, g)
  <2>1. t + f.len <= f.sent
    BY <1>3, <1>7, <1>5 DEF SentBefore
  <2>2. \A i \in 1 .. Len(r) : t + f.len <= SentBefore(r[i])
    BY <1>4, <1>5, <2>1, AtMostTransitive, SMTT(30)
  <2>3. t + f.len <= w
    BY <1>3, <1>5, <2>1
  <2> QED
    BY Zenon, <1>4, <1>6, <2>2, <2>3 DEF InOrder
<1>8. ASSUME f.ty = "update"
      PROVE  c + f.len <= g /\ InOrder(r, t, c + f.len, w, g)
  <2>1. c + f.len <= f.granted
    BY <1>3, <1>8, <1>5 DEF GrantedBefore
  <2>2. \A i \in 1 .. Len(r) : c + f.len <= GrantedBefore(r[i])
    BY <1>4, <1>5, <2>1, AtMostTransitive, SMTT(30)
  <2>3. c + f.len <= g
    BY <1>3, <1>5, <2>1
  <2> QED
    BY Zenon, <1>4, <1>6, <2>2, <2>3 DEF InOrder
<1>9. InOrder(r, t, c, w, g)
  BY Zenon, <1>4, <1>6 DEF InOrder
<1> QED
  BY Zenon, <1>1, <1>7, <1>8, <1>9 DEF r, f

(***************************************************************************)
(* Effects shared by several actions                                       *)
(***************************************************************************)

\* The peer of an end is the other end, and its peer is the end itself.
LEMMA PeerFacts ==
  \A e \in Ends : Peer(e) \in Ends /\ Peer(e) # e /\ Peer(Peer(e)) = e
BY Zenon DEF Ends, Peer

\* A new window update or data frame carries the totals of its sender.
LEMMA UpdateFrameTotals ==
  ASSUME TypeOK, NEW e \in Ends, NEW flags \in SUBSET Flag, NEW d \in Nat
  PROVE  LET f == UpdateFrame(e, flags, d)
         IN /\ f \in Frame
            /\ f.sent = written[e] /\ f.granted = granted[e] + d
            /\ SentBefore(f) = written[e] /\ GrantedBefore(f) = granted[e]
<1>1. written[e] \in Nat /\ granted[e] \in Nat
  BY Zenon DEF TypeOK
<1> QED
  BY <1>1 DEF UpdateFrame, Frame, SentBefore, GrantedBefore

\* A data frame's bytes are the last ones its sender has written.
LEMMA DataFrameTotals ==
  ASSUME TypeOK, NEW e \in Ends, NEW flags \in SUBSET Flag, NEW n \in Nat
  PROVE  LET f == DataFrame(e, flags, n)
         IN /\ f \in Frame
            /\ f.sent = written[e] + n /\ f.granted = granted[e]
            /\ SentBefore(f) = written[e] /\ GrantedBefore(f) = granted[e]
<1>1. written[e] \in Nat /\ granted[e] \in Nat
  BY Zenon DEF TypeOK
<1> QED
  BY <1>1 DEF DataFrame, Frame, SentBefore, GrantedBefore

\* The frames under way, when end e sends f and its totals follow.
LEMMA SendEffect ==
  ASSUME TypeOK, FramesInOrder, WindowsBalance, NEW e \in Ends, NEW f \in Frame,
         Send(e, f), SentBefore(f) = written[e], GrantedBefore(f) = granted[e],
         written'[e] \in Nat, granted'[e] \in Nat,
         written[e] <= written'[e], granted[e] <= granted'[e],
         up[e] => written'[e] = f.sent /\ granted'[e] = f.granted,
         \A x \in Ends \ {e} : written'[x] = written[x] /\ granted'[x] = granted[x],
         UNCHANGED <<taken, credited>>
  PROVE  /\ path' \in [Ends -> Seq(Frame)]
         /\ \A x \in Ends : Len(path[x]) <= Len(path'[x])
         /\ FramesInOrder'
<1> DEFINE p == Peer(e)
<1>1. p \in Ends /\ p # e /\ Peer(p) = e /\ Ends = {e, p}
  BY Zenon DEF Ends, Peer
<1> HIDE DEF p
<1>2. /\ path \in [Ends -> Seq(Frame)]
      /\ written[e] \in Nat /\ granted[e] \in Nat
      /\ written[p] \in Nat /\ granted[p] \in Nat
      /\ \A x \in Ends : taken[x] \in Nat /\ credited[x] \in Nat
      /\ taken[p] <= written[e] /\ credited[p] <= granted[e]
  BY Zenon, <1>1, SMTT(30) DEF TypeOK, WindowsBalance
<1>3. /\ InOrder(path[e], taken[e], credited[e], written[p], granted[p])
      /\ InOrder(path[p], taken[p], credited[p], written[e], granted[e])
  BY Zenon, <1>1 DEF FramesInOrder, p
<1>4. written'[p] = written[p] /\ granted'[p] = granted[p]
  BY Zenon, <1>1
<1>5. /\ InOrder(path[e], taken'[e], credited'[e], written'[p], granted'[p])
      /\ InOrder(path[p], taken'[p], credited'[p], written'[e], granted'[e])
  BY <1>1, <1>2, <1>3, <1>4, InOrderGrow, ZenonT(30)
<1>6. CASE path' = path
  BY <1>1, <1>2, <1>4, <1>5, <1>6, LenProperties DEF FramesInOrder, p
<1>7. CASE up[e] /\ path' = [path EXCEPT ![p] = Append(@, f)]
  <2>1. /\ Append(path[p], f) \in Seq(Frame)
        /\ Len(Append(path[p], f)) = Len(path[p]) + 1
        /\ InOrder(Append(path[p], f), taken[p], credited[p], f.sent, f.granted)
    BY <1>1, <1>2, <1>3, InOrderAppend, ZenonT(30)
  <2>2. path'[p] = Append(path[p], f) /\ path'[e] = path[e]
    BY Zenon, <1>1, <1>2, <1>7
  <2>3. path' \in [Ends -> Seq(Frame)]
    BY Zenon, <1>1, <1>2, <1>7, <2>1
  <2>4. \A x \in Ends : Len(path[x]) <= Len(path'[x])
    BY <1>1, <1>2, <2>1, <2>2, LenProperties
  <2>5. InOrder(path'[p], taken'[p], credited'[p], written'[e], granted'[e])
    BY Zenon, <1>4, <1>7, <2>1, <2>2
  <2> QED
    BY <1>1, <1>5, <2>2, <2>3, <2>4, <2>5, ZenonT(30) DEF FramesInOrder, p
<1> QED
  BY Zenon, <1>6, <1>7 DEF Send, p

\* send_window_update with b bytes left in the buffer: the subtraction does not
\* wrap, and window and buffer together stay within the configured size.
LEMMA WindowUpdateSent ==
  ASSUME TypeOK, FramesInOrder, WindowsBalance, NEW e \in Ends,
         NEW st \in States \ {"None"}, NEW b \in Nat,
         recv_window[e] + b <= MaxWindow[e],
         SendWindowUpdate(e, st, b), UNCHANGED <<written, taken, credited>>
  PROVE  /\ state' = [state EXCEPT ![e] = StateAfterFlags(st)]
         /\ state' \in [Ends -> States] /\ state'[e] # "None"
         /\ recv_window' \in [Ends -> Nat] /\ granted' \in [Ends -> Nat]
         /\ \A x \in Ends \ {e} : recv_window'[x] = recv_window[x]
                                 /\ granted'[x] = granted[x]
         /\ recv_window'[e] + b <= MaxWindow[e]
         /\ \E d \in Nat : /\ recv_window'[e] = recv_window[e] + d
                          /\ granted'[e] = granted[e] + d
         /\ path' \in [Ends -> Seq(Frame)]
         /\ \A x \in Ends : Len(path[x]) <= Len(path'[x])
         /\ FramesInOrder'
<1>1. /\ recv_window[e] \in Nat /\ granted[e] \in Nat /\ written[e] \in Nat
      /\ MaxWindow[e] \in Nat
      /\ recv_window \in [Ends -> Nat] /\ granted \in [Ends -> Nat]
      /\ written \in [Ends -> Nat] /\ path \in [Ends -> Seq(Frame)]
      /\ state \in [Ends -> States]
  BY Zenon, WindowAssumption, SMTT(30) DEF TypeOK
<1>2. PICK d \in Nat : d = Delta(e, b) /\ d = MaxWindow[e] - b - recv_window[e]
  <2>1. MaxWindow[e] - b - recv_window[e] \in Nat
    BY <1>1
  <2>2. Delta(e, b) = MaxWindow[e] - b - recv_window[e]
    BY <1>1, <2>1 DEF Delta, Sub32
  <2> QED
    BY Zenon, <2>1, <2>2
<1>3. state' = [state EXCEPT ![e] = StateAfterFlags(st)]
  BY Zenon DEF SendWindowUpdate
<1>4. StateAfterFlags(st) \in States \ {"None"}
  BY Zenon DEF StateAfterFlags, States
<1>5. CASE UNCHANGED <<recv_window, granted, path>>
  <2>1. FramesInOrder'
    BY Zenon, <1>5 DEF FramesInOrder
  <2>2. recv_window'[e] = recv_window[e] + 0 /\ granted'[e] = granted[e] + 0
    BY <1>1, <1>5
  <2> QED
    BY <1>1, <1>3, <1>4, <1>5, <2>1, <2>2, LenProperties
<1>6. CASE /\ recv_window' = [recv_window EXCEPT ![e] = @ + d]
           /\ granted' = [granted EXCEPT ![e] = @ + d]
           /\ Send(e, UpdateFrame(e, FlagsOf(st), d))
  <2> DEFINE f == UpdateFrame(e, FlagsOf(st), d)
  <2>1. FlagsOf(st) \in SUBSET Flag
    BY Zenon DEF FlagsOf, Flag
  <2>2. /\ f \in Frame /\ f.sent = written[e] /\ f.granted = granted[e] + d
        /\ SentBefore(f) = written[e] /\ GrantedBefore(f) = granted[e]
    BY Zenon, <2>1, UpdateFrameTotals
  <2>3. /\ recv_window' = [recv_window EXCEPT ![e] = @ + d]
        /\ granted' = [granted EXCEPT ![e] = @ + d]
        /\ Send(e, f)
    BY Zenon, <1>6
  <2> HIDE DEF f
  <2>4. recv_window \in [Ends -> Nat] /\ granted \in [Ends -> Nat]
    BY Zenon, <1>1
  <2>5. /\ recv_window' \in [Ends -> Nat] /\ granted' \in [Ends -> Nat]
        /\ \A x \in Ends \ {e} : recv_window'[x] = recv_window[x]
                                /\ granted'[x] = granted[x]
        /\ recv_window'[e] = recv_window[e] + d /\ granted'[e] = granted[e] + d
    BY <2>3, <2>4
  <2>6. /\ written'[e] \in Nat /\ granted'[e] \in Nat
        /\ written[e] <= written'[e] /\ granted[e] <= granted'[e]
        /\ written'[e] = f.sent /\ granted'[e] = f.granted
        /\ \A x \in Ends \ {e} : written'[x] = written[x] /\ granted'[x] = granted[x]
    BY SMTT(30), <1>1, <2>2, <2>5
  <2>7. /\ path' \in [Ends -> Seq(Frame)]
        /\ \A x \in Ends : Len(path[x]) <= Len(path'[x])
        /\ FramesInOrder'
    BY Zenon, <2>2, <2>3, <2>6, SendEffect
  <2>8. recv_window'[e] + b <= MaxWindow[e]
    <3>1. /\ recv_window[e] \in Nat /\ granted[e] \in Nat /\ MaxWindow[e] \in Nat
          /\ recv_window'[e] = recv_window[e] + d /\ granted'[e] = granted[e] + d
      BY Zenon, <1>1, <2>5
    <3> QED
      BY <1>2, <3>1
  <2>9. state' \in [Ends -> States] /\ state'[e] # "None"
    BY Zenon, <1>1, <1>3, <1>4
  <2> QED
    BY Zenon, <1>3, <2>5, <2>6, <2>7, <2>8, <2>9
<1> QED
  BY Zenon, <1>2, <1>5, <1>6, SMTT(30) DEF SendWindowUpdate

\* The same with its accounts: what is granted is what the window grows by.
LEMMA WindowUpdateEffect ==
  ASSUME TypeOK, FramesInOrder, WindowsBalance, NEW e \in Ends,
         NEW st \in States \ {"None"}, NEW b \in Nat,
         recv_window[e] + b <= MaxWindow[e],
         SendWindowUpdate(e, st, b), UNCHANGED <<send_window, written, taken, credited>>
  PROVE  /\ state' = [state EXCEPT ![e] = StateAfterFlags(st)]
         /\ state' \in [Ends -> States] /\ state'[e] # "None"
         /\ recv_window' \in [Ends -> Nat] /\ granted' \in [Ends -> Nat]
         /\ \A x \in Ends \ {e} : recv_window'[x] = recv_window[x]
                                 /\ granted'[x] = granted[x]
         /\ recv_window'[e] + b <= MaxWindow[e]
         /\ path' \in [Ends -> Seq(Frame)]
         /\ \A x \in Ends : Len(path[x]) <= Len(path'[x])
         /\ FramesInOrder' /\ WindowsBalance'
<1>1. TypeOK /\ FramesInOrder /\ WindowsBalance
  BY Zenon
<1>2. UNCHANGED <<written, taken, credited>>
  BY Zenon
<1>3. /\ state' = [state EXCEPT ![e] = StateAfterFlags(st)]
      /\ state' \in [Ends -> States] /\ state'[e] # "None"
      /\ recv_window' \in [Ends -> Nat] /\ granted' \in [Ends -> Nat]
      /\ \A x \in Ends \ {e} : recv_window'[x] = recv_window[x] /\ granted'[x] = granted[x]
      /\ recv_window'[e] + b <= MaxWindow[e]
      /\ \E d \in Nat : recv_window'[e] = recv_window[e] + d /\ granted'[e] = granted[e] + d
      /\ path' \in [Ends -> Seq(Frame)]
      /\ \A x \in Ends : Len(path[x]) <= Len(path'[x])
      /\ FramesInOrder'
  BY Zenon, <1>2, WindowUpdateSent
<1>4. WindowsBalance'
  <2>1. ASSUME NEW x \in Ends
        PROVE  /\ recv_window'[x] + taken[x] = InitialWindow + granted'[x]
               /\ granted[x] <= granted'[x]
    <3>1. /\ recv_window[x] \in Nat /\ granted[x] \in Nat /\ taken[x] \in Nat
          /\ InitialWindow \in Nat /\ recv_window[x] + taken[x] = InitialWindow + granted[x]
      BY Zenon, <1>1, WindowAssumption, SMTT(30) DEF TypeOK, WindowsBalance
    <3>2. CASE x = e
      <4>1. PICK d \in Nat : recv_window'[x] = recv_window[x] + d /\ granted'[x] = granted[x] + d
        BY Zenon, <1>3, <3>2
      <4>2. /\ (recv_window[x] + d) + taken[x] = InitialWindow + (granted[x] + d)
            /\ granted[x] <= granted[x] + d
        BY <3>1
      <4> QED
        BY Zenon, <4>1, <4>2
    <3>3. CASE x # e
      BY <1>3, <3>1, <3>3, SMTT(30)
    <3> QED
      BY Zenon, <3>2, <3>3
  <2>2. ASSUME NEW x \in Ends
        PROVE  credited[x] <= granted'[Peer(x)]
    <3>1. /\ granted[Peer(x)] \in Nat /\ granted'[Peer(x)] \in Nat
          /\ granted[Peer(x)] <= granted'[Peer(x)]
      BY Zenon, <1>1, <1>3, <2>1, PeerFacts DEF TypeOK
    <3>2. credited[x] \in Nat /\ credited[x] <= granted[Peer(x)]
      BY <1>1, ZenonT(30) DEF TypeOK, WindowsBalance
    <3> QED
      BY <3>1, <3>2, SMTT(30)
  <2> QED
    BY Zenon, <1>1, <2>1, <2>2 DEF WindowsBalance
<1> QED
  BY Zenon, <1>3, <1>4

(***************************************************************************)
(* One lemma per action                                                    *)
(***************************************************************************)
Accounts == NoProtocolError /\ BufferBounded /\ WindowsBalance /\ FramesInOrder

\* A step that leaves windows, frames and totals alone leaves the accounts alone.
LEMMA AccountsUnchanged ==
  ASSUME Accounts, UNCHANGED <<windows, path, go_away, history>>
  PROVE  Accounts'
BY Zenon DEF Accounts, NoProtocolError, BufferBounded, WindowsBalance, FramesInOrder,
       windows, history

(***************************************************************************)
(* Calls begin, streams open and end                                       *)
(***************************************************************************)

\* poll_read and poll_peek begin: only the call's own record changes.
LEMMA StartReadingStep ==
  ASSUME InductiveInvariant, NEW e \in Ends, NEW call \in {"read", "peek"},
         StartReading(e, call)
  PROVE  InductiveInvariant'
<1> USE DEF StartReading, Ready, Wake, windows, links, history
<1>1. TypeOK'
  BY ZenonT(30) DEF InductiveInvariant, TypeOK, Task
<1>2. Accounts'
  BY Zenon, AccountsUnchanged DEF InductiveInvariant, Accounts
<1>3. HandleLife'
  <2>1. \A x \in Ends : pc'[x] # "idle" => pc[x] # "idle" \/ alive[x]
    BY ZenonT(30) DEF InductiveInvariant, TypeOK
  <2> QED
    BY Zenon, <2>1 DEF InductiveInvariant, HandleLife
<1>4. ReaderWaits'
  BY Zenon, SMTT(30) DEF InductiveInvariant, TypeOK, ReaderWaits
<1> QED
  BY Zenon, <1>1, <1>2, <1>3, <1>4 DEF InductiveInvariant, Accounts

\* poll_write begins: only the call's own record changes.
LEMMA PollWriteStep ==
  ASSUME InductiveInvariant, NEW e \in Ends, PollWrite(e)
  PROVE  InductiveInvariant'
<1> USE DEF PollWrite, Ready, Wake, windows, links, history
<1>1. TypeOK'
  BY ZenonT(30) DEF InductiveInvariant, TypeOK, Task
<1>2. Accounts'
  BY Zenon, AccountsUnchanged DEF InductiveInvariant, Accounts
<1>3. HandleLife'
  BY ZenonT(30) DEF InductiveInvariant, TypeOK, HandleLife
<1>4. ReaderWaits'
  BY ZenonT(30) DEF InductiveInvariant, TypeOK, ReaderWaits
<1> QED
  BY Zenon, <1>1, <1>2, <1>3, <1>4 DEF InductiveInvariant, Accounts

\* The session puts the next frame into the channel, which may wake the reader.
LEMMA DeliverStep ==
  ASSUME InductiveInvariant, NEW e \in Ends, Deliver(e)
  PROVE  InductiveInvariant'
<1> USE DEF Deliver, Wake, windows, calls, history
<1>1. TypeOK'
  <2>1. /\ avail \in [Ends -> Nat] /\ avail[e] < Len(path[e])
        /\ \A x \in Ends : avail[x] <= Len(path[x]) /\ Len(path[x]) \in Nat
    BY Zenon, LenProperties DEF InductiveInvariant, TypeOK
  <2>2. avail' \in [Ends -> Nat] /\ \A x \in Ends : avail'[x] <= Len(path'[x])
    BY <2>1
  <2> QED
    BY <2>2, ZenonT(30) DEF InductiveInvariant, TypeOK, Task, NoTask
<1>2. Accounts'
  BY Zenon, AccountsUnchanged DEF InductiveInvariant, Accounts
<1>3. HandleLife'
  BY DEF InductiveInvariant, TypeOK, HandleLife
<1>4. ReaderWaits'
  BY ZenonT(30) DEF InductiveInvariant, TypeOK, ReaderWaits
<1> QED
  BY Zenon, <1>1, <1>2, <1>3, <1>4 DEF InductiveInvariant, Accounts

\* handle_event(Closed): the session forgets a handle that is gone.
LEMMA HandleClosedStep ==
  ASSUME InductiveInvariant, NEW e \in Ends, HandleClosed(e)
  PROVE  InductiveInvariant'
<1> USE DEF HandleClosed, Wake, windows, calls, history
<1>1. TypeOK'
  BY ZenonT(30) DEF InductiveInvariant, TypeOK, Task, NoTask
<1>2. Accounts'
  BY Zenon, AccountsUnchanged DEF InductiveInvariant, Accounts
<1>3. HandleLife'
  BY DEF InductiveInvariant, TypeOK, HandleLife
<1>4. ReaderWaits'
  BY ZenonT(30) DEF InductiveInvariant, TypeOK, ReaderWaits
<1> QED
  BY Zenon, <1>1, <1>2, <1>3, <1>4 DEF InductiveInvariant, Accounts

\* The frames that are lost with a session, or discarded, are the last ones.
LEMMA TruncationEffect ==
  ASSUME TypeOK, FramesInOrder, UNCHANGED history, DOMAIN path' = Ends,
         path' = [x \in Ends |-> path'[x]],
         \A x \in Ends : \E k \in avail[x] .. Len(path[x]) :
            path'[x] = SubSeq(path[x], 1, k)
  PROVE  /\ path' \in [Ends -> Seq(Frame)]
         /\ \A x \in Ends : avail[x] <= Len(path'[x])
         /\ FramesInOrder'
<1>1. ASSUME NEW x \in Ends
      PROVE  /\ path'[x] \in Seq(Frame) /\ avail[x] <= Len(path'[x])
             /\ InOrder(path'[x], taken[x], credited[x], written[Peer(x)], granted[Peer(x)])
  <2>1. PICK k \in avail[x] .. Len(path[x]) : path'[x] = SubSeq(path[x], 1, k)
    BY Zenon
  <2>2. /\ path[x] \in Seq(Frame) /\ avail[x] \in Nat
        /\ taken[x] \in Nat /\ credited[x] \in Nat
        /\ written[Peer(x)] \in Nat /\ granted[Peer(x)] \in Nat
    BY Zenon, PeerFacts DEF TypeOK
  <2>3. InOrder(path[x], taken[x], credited[x], written[Peer(x)], granted[Peer(x)])
    BY Zenon DEF FramesInOrder
  <2>4. Len(path[x]) \in Nat
    BY Zenon, <2>2, LenProperties
  <2>5. k \in 0 .. Len(path[x]) /\ avail[x] <= k
    BY <2>2, <2>4
  <2>6. /\ SubSeq(path[x], 1, k) \in Seq(Frame) /\ Len(SubSeq(path[x], 1, k)) = k
        /\ InOrder(SubSeq(path[x], 1, k), taken[x], credited[x], written[Peer(x)],
                   granted[Peer(x)])
    BY <2>2, <2>3, <2>5, InOrderPrefix, SMTT(30)
  <2> QED
    BY Zenon, <2>1, <2>5, <2>6
<1>2. FramesInOrder'
  BY Zenon, <1>1 DEF FramesInOrder, history
<1> QED
  BY Zenon, <1>1, <1>2

\* Frames for a stream the session does not know are dropped.
LEMMA DiscardStep ==
  ASSUME InductiveInvariant, NEW e \in Ends, Discard(e)
  PROVE  InductiveInvariant'
<1> USE DEF Discard, windows, wakers, calls
<1>1. /\ path' = [path EXCEPT ![e] = SubSeq(@, 1, avail[e])]
      /\ path \in [Ends -> Seq(Frame)] /\ avail \in [Ends -> Nat]
      /\ \A x \in Ends : avail[x] <= Len(path[x]) /\ Len(path[x]) \in Nat
  BY Zenon, LenProperties DEF InductiveInvariant, TypeOK
<1>2. /\ path' \in [Ends -> Seq(Frame)]
      /\ \A x \in Ends : avail[x] <= Len(path'[x])
      /\ FramesInOrder'
  <2>1. DOMAIN path' = Ends /\ path' = [x \in Ends |-> path'[x]]
    BY <1>1, ZenonT(30)
  <2>2. ASSUME NEW x \in Ends
        PROVE  \E k \in avail[x] .. Len(path[x]) : path'[x] = SubSeq(path[x], 1, k)
    <3>1. CASE x = e
      BY <1>1, <3>1, SMTT(30)
    <3>2. CASE x # e
      BY <1>1, <3>2, SubSeqFull
    <3> QED
      BY <3>1, <3>2, ZenonT(30)
  <2> QED
    BY <2>1, <2>2, TruncationEffect, ZenonT(30) DEF InductiveInvariant
<1>3. TypeOK'
  <2>1. /\ UNCHANGED <<state, windows, wakers, calls, avail, closed_event, up, go_away,
                       history>>
        /\ reg' = [reg EXCEPT ![e] = "out"]
    BY Zenon
  <2> HIDE DEF Discard
  <2> QED
    BY <1>2, <2>1, ZenonT(30) DEF InductiveInvariant, TypeOK, history
<1>4. Accounts'
  BY Zenon, <1>2 DEF InductiveInvariant, Accounts, NoProtocolError, BufferBounded,
              WindowsBalance, history
<1>5. HandleLife'
  BY DEF InductiveInvariant, TypeOK, HandleLife
<1>6. ReaderWaits'
  BY Zenon DEF InductiveInvariant, TypeOK, ReaderWaits
<1> QED
  BY Zenon, <1>3, <1>4, <1>5, <1>6 DEF InductiveInvariant, Accounts

\* A session ends: its frames are lost and its handles see closed channels.
LEMMA SessionDownStep ==
  ASSUME InductiveInvariant, NEW e \in Ends, SessionDown(e)
  PROVE  InductiveInvariant'
<1> USE DEF SessionDown, Wake, windows, calls
<1>1. /\ path \in [Ends -> Seq(Frame)] /\ avail \in [Ends -> Nat]
      /\ \A x \in Ends : avail[x] <= Len(path[x]) /\ Len(path[x]) \in Nat
  BY Zenon, LenProperties, SMTT(30) DEF InductiveInvariant, TypeOK
<1>2. /\ path' \in [Ends -> Seq(Frame)]
      /\ \A x \in Ends : avail[x] <= Len(path'[x])
      /\ FramesInOrder'
  <2>1. PICK k \in avail[Peer(e)] .. Len(path[Peer(e)]) :
          path' = [path EXCEPT ![e] = SubSeq(@, 1, avail[e]),
                               ![Peer(e)] = SubSeq(@, 1, k)]
    BY ZenonT(30)
  <2>2. Peer(e) \in Ends /\ Peer(e) # e /\ Ends = {e, Peer(e)}
    BY Zenon DEF Ends, Peer
  <2>3. DOMAIN path' = Ends /\ path' = [x \in Ends |-> path'[x]]
    BY <1>1, <2>1, ZenonT(30)
  <2>4. path'[e] = SubSeq(path[e], 1, avail[e]) /\ path'[Peer(e)] = SubSeq(path[Peer(e)], 1, k)
    BY Zenon, <1>1, <2>1, <2>2
  <2>5. avail[e] \in avail[e] .. Len(path[e])
    BY <1>1
  <2>6. \A x \in Ends : \E m \in avail[x] .. Len(path[x]) : path'[x] = SubSeq(path[x], 1, m)
    BY <2>2, <2>4, <2>5, ZenonT(30)
  <2> QED
    BY <2>3, <2>6, TruncationEffect, ZenonT(30) DEF InductiveInvariant
<1>3. TypeOK'
  <2>1. /\ UNCHANGED <<state, windows, readable_wake, writeable_wake, calls, avail, go_away,
                       history>>
        /\ up' = [up EXCEPT ![e] = FALSE] /\ reg' = [reg EXCEPT ![e] = "out"]
        /\ closed_event' = [closed_event EXCEPT ![e] = FALSE]
        /\ recv_task' = [recv_task EXCEPT ![e] = NoTask]
        /\ blocked' = [blocked EXCEPT ![e] = @ \ {recv_task[e]}]
    BY Zenon
  <2> HIDE DEF SessionDown
  <2> QED
    BY <1>2, <2>1, ZenonT(30) DEF InductiveInvariant, TypeOK, Task, NoTask, history
<1>4. Accounts'
  BY Zenon, <1>2 DEF InductiveInvariant, Accounts, NoProtocolError, BufferBounded,
              WindowsBalance, history
<1>5. HandleLife'
  BY DEF InductiveInvariant, TypeOK, HandleLife
<1>6. ReaderWaits'
  BY ZenonT(30) DEF InductiveInvariant, TypeOK, ReaderWaits
<1> QED
  BY Zenon, <1>3, <1>4, <1>5, <1>6 DEF InductiveInvariant, Accounts

AvailWithin(a, q) == a \in [Ends -> Nat] /\ \A x \in Ends : a[x] <= Len(q[x])

\* A handle is created: the first window update leaves with its Syn or Ack.
LEMMA CreateStreamStep ==
  ASSUME InductiveInvariant, NEW e \in Ends, NEW st \in {"Init", "SynReceived"},
         up[e], reg[e] = "new", CreateStream(e, st),
         AvailWithin(avail', path), \A x \in Ends \ {e} : avail'[x] = avail[x],
         UNCHANGED <<send_window, buf, wakers, pc, entry, closed_event, up,
                     go_away, written, taken, credited>>
  PROVE  InductiveInvariant'
<1> USE DEF CreateStream, wakers
<1>1. /\ TypeOK /\ FramesInOrder /\ WindowsBalance /\ BufferBounded /\ HandleLife
      /\ ReaderWaits /\ NoProtocolError
  BY Zenon DEF InductiveInvariant
<1>2. buf[e] = 0 /\ recv_window[e] \in Nat /\ recv_window[e] + 0 <= MaxWindow[e]
  BY Zenon, <1>1, SMTT(30) DEF HandleLife, BufferBounded, TypeOK
<1>3. /\ state' = [state EXCEPT ![e] = StateAfterFlags(st)]
      /\ state' \in [Ends -> States] /\ state'[e] # "None"
      /\ recv_window' \in [Ends -> Nat] /\ granted' \in [Ends -> Nat]
      /\ \A x \in Ends \ {e} : recv_window'[x] = recv_window[x] /\ granted'[x] = granted[x]
      /\ recv_window'[e] + 0 <= MaxWindow[e]
      /\ path' \in [Ends -> Seq(Frame)]
      /\ \A x \in Ends : Len(path[x]) <= Len(path'[x])
      /\ FramesInOrder' /\ WindowsBalance'
  <2>1. st \in States \ {"None"}
    BY Zenon DEF States
  <2>2. SendWindowUpdate(e, st, 0) /\ UNCHANGED <<send_window, written, taken, credited>>
    BY Zenon
  <2> QED
    BY <1>1, <1>2, <2>1, <2>2, WindowUpdateEffect
<1>4. /\ reg' = [reg EXCEPT ![e] = "in"] /\ alive' = [alive EXCEPT ![e] = TRUE]
  BY Zenon
<1> HIDE DEF CreateStream
<1>5. TypeOK'
  <2>1. \A x \in Ends : avail'[x] <= Len(path'[x])
    <3> SUFFICES ASSUME NEW x \in Ends
                 PROVE  avail'[x] <= Len(path'[x])
      BY Zenon
    <3>1. Len(path[x]) \in Nat /\ Len(path'[x]) \in Nat /\ avail'[x] \in Nat
      BY Zenon, <1>1, <1>3, LenProperties DEF TypeOK, AvailWithin
    <3>2. avail'[x] <= Len(path[x]) /\ Len(path[x]) <= Len(path'[x])
      BY Zenon, <1>3, SMTT(30) DEF AvailWithin
    <3> QED
      BY <3>1, <3>2
  <2> QED
    BY <1>1, <1>3, <1>4, <2>1, ZenonT(30) DEF TypeOK, AvailWithin
<1>6. BufferBounded'
  BY <1>1, <1>2, <1>3, ZenonT(30) DEF BufferBounded, TypeOK
<1>8. HandleLife'
  <2>1. \A x \in Ends : alive'[x] => state'[x] # "None"
    BY Zenon, <1>1, <1>3, <1>4 DEF HandleLife, TypeOK
  <2>2. \A x \in Ends : /\ reg'[x] = "new" => reg[x] = "new" /\ x # e
                        /\ reg'[x] = "in" => reg[x] = "in" \/ x = e
                        /\ alive[x] => alive'[x]
                        /\ x # e => alive'[x] = alive[x]
    BY <1>1, <1>4, ZenonT(30) DEF TypeOK
  <2> QED
    BY <1>1, <2>1, <2>2, ZenonT(30) DEF HandleLife
<1>9. ReaderWaits'
  BY <1>1, <1>3, <1>4, ZenonT(30) DEF ReaderWaits, TypeOK
<1>10. NoProtocolError'
  BY Zenon, <1>1 DEF NoProtocolError
<1> QED
  BY Zenon, <1>3, <1>5, <1>6, <1>8, <1>9, <1>10 DEF InductiveInvariant

\* open_stream: the client's handle is created.
LEMMA OpenStreamStep ==
  ASSUME InductiveInvariant, OpenStream
  PROVE  InductiveInvariant'
<1>1. "client" \in Ends
  BY Zenon DEF Ends
<1>2. AvailWithin(avail', path)
  BY Zenon DEF OpenStream, InductiveInvariant, TypeOK, AvailWithin
<1> QED
  BY Zenon, <1>1, <1>2, CreateStreamStep DEF OpenStream

\* A Syn is accepted: the server's handle is created.
LEMMA AcceptStreamStep ==
  ASSUME InductiveInvariant, AcceptStream
  PROVE  InductiveInvariant'
<1>1. "server" \in Ends
  BY Zenon DEF Ends
<1>2. /\ up["server"] /\ reg["server"] = "new" /\ path["server"] # << >>
      /\ avail' = [avail EXCEPT !["server"] = 1]
  BY Zenon DEF AcceptStream, SynArrived
<1>3. /\ avail \in [Ends -> Nat] /\ path \in [Ends -> Seq(Frame)]
      /\ \A x \in Ends : avail[x] <= Len(path[x])
  BY Zenon DEF InductiveInvariant, TypeOK
<1>4. Len(path["server"]) \in Nat /\ 1 <= Len(path["server"])
  BY <1>1, <1>2, <1>3, EmptySeq, LenProperties
<1>5. AvailWithin(avail', path) /\ \A x \in Ends \ {"server"} : avail'[x] = avail[x]
  BY Zenon, <1>1, <1>2, <1>3, <1>4 DEF AvailWithin
<1> QED
  BY <1>1, <1>2, <1>5, CreateStreamStep, ZenonT(30) DEF AcceptStream

\* A Syn is refused: the Rst grants nothing and carries no bytes.
LEMMA RefuseStreamStep ==
  ASSUME InductiveInvariant, RefuseStream
  PROVE  InductiveInvariant'
<1> DEFINE c == "client"  s == "server"
<1>1. c \in Ends /\ s \in Ends /\ Ends = {c, s} /\ c # s /\ Peer(c) = s /\ Peer(s) = c
  BY Zenon DEF Ends, Peer
<1> HIDE DEF c, s
<1>2. PICK flags \in {{"ack", "rst"}, {"rst"}} :
        path' = [path EXCEPT ![s] = Tail(@),
                             ![c] = IF up[c] THEN Append(@, UpdateFrame(s, flags, 0)) ELSE @]
  BY ZenonT(30) DEF RefuseStream, c, s
<1>3. /\ reg[s] = "new" /\ path[s] # << >> /\ reg' = [reg EXCEPT ![s] = "out"]
      /\ UNCHANGED <<state, windows, wakers, calls, avail, closed_event, up, go_away, history>>
  BY Zenon DEF RefuseStream, SynArrived, s
<1> DEFINE f == UpdateFrame(s, flags, 0)
           q == IF up[c] THEN Append(path[c], f) ELSE path[c]
<1>4. /\ TypeOK /\ FramesInOrder /\ WindowsBalance /\ BufferBounded /\ HandleLife
      /\ ReaderWaits /\ NoProtocolError
  BY Zenon DEF InductiveInvariant
<1>5. /\ f \in Frame /\ f.sent = written[s] /\ f.granted = granted[s] + 0
      /\ SentBefore(f) = written[s] /\ GrantedBefore(f) = granted[s]
  <2>1. flags \in SUBSET Flag /\ 0 \in Nat
    BY Zenon DEF Flag
  <2> QED
    BY Zenon, <1>1, <1>4, <2>1, UpdateFrameTotals
<1>6. path' = [path EXCEPT ![s] = Tail(@), ![c] = IF up[c] THEN Append(@, f) ELSE @]
  BY Zenon, <1>2
<1> HIDE DEF f
<1>7. /\ path \in [Ends -> Seq(Frame)] /\ granted[s] \in Nat /\ written[s] \in Nat
      /\ granted[c] \in Nat /\ written[c] \in Nat /\ taken[s] \in Nat /\ taken[c] \in Nat
      /\ credited[s] \in Nat /\ credited[c] \in Nat
      /\ taken[c] <= written[s] /\ credited[c] <= granted[s]
  BY Zenon, <1>1, <1>4, SMTT(30) DEF TypeOK, WindowsBalance
<1>8. /\ InOrder(path[s], taken[s], credited[s], written[c], granted[c])
      /\ InOrder(path[c], taken[c], credited[c], written[s], granted[s])
  BY Zenon, <1>1, <1>4 DEF FramesInOrder
<1>9. /\ Tail(path[s]) \in Seq(Frame)
      /\ InOrder(Tail(path[s]), taken[s], credited[s], written[c], granted[c])
  BY Zenon, <1>1, <1>3, <1>7, <1>8, InOrderTail, SMTT(30)
<1>10. /\ q \in Seq(Frame) /\ Len(q) \in {Len(path[c]), Len(path[c]) + 1}
       /\ InOrder(q, taken[c], credited[c], written[s], granted[s])
  <2>1. /\ Append(path[c], f) \in Seq(Frame)
        /\ Len(Append(path[c], f)) = Len(path[c]) + 1
        /\ InOrder(Append(path[c], f), taken[c], credited[c], f.sent, f.granted)
    BY <1>1, <1>5, <1>7, <1>8, InOrderAppend, ZenonT(30)
  <2>2. f.sent = written[s] /\ f.granted = granted[s]
    BY <1>5, <1>7
  <2>3. path[c] \in Seq(Frame)
    BY Zenon, <1>1, <1>7
  <2> QED
    BY Zenon, <1>8, <2>1, <2>2, <2>3
<1>11. /\ path' \in [Ends -> Seq(Frame)]
       /\ path'[s] = Tail(path[s]) /\ path'[c] = q
  BY <1>1, <1>6, <1>7, <1>9, <1>10, ZenonT(30)
<1> HIDE DEF q
<1>12. FramesInOrder'
  BY <1>1, <1>3, <1>9, <1>10, <1>11, ZenonT(30) DEF FramesInOrder, history
<1>13. \A x \in Ends : avail[x] <= Len(path'[x])
  <2>1. avail[s] = 0 /\ avail[c] <= Len(path[c]) /\ avail[c] \in Nat
    BY Zenon, <1>1, <1>3, <1>4, SMTT(30) DEF HandleLife, TypeOK
  <2>2. Len(path'[s]) \in Nat /\ Len(path[c]) \in Nat
    BY Zenon, <1>1, <1>7, <1>11, LenProperties
  <2> QED
    BY <1>1, <1>10, <1>11, <2>1, <2>2
<1>14. TypeOK'
  BY <1>3, <1>4, <1>11, <1>13, ZenonT(30) DEF TypeOK, windows, wakers, calls, history
<1>15. NoProtocolError' /\ BufferBounded' /\ WindowsBalance'
  BY Zenon, <1>3, <1>4 DEF NoProtocolError, BufferBounded, WindowsBalance, windows, history
<1>16. HandleLife'
  BY Zenon, <1>1, <1>3, <1>4, SMTT(30) DEF HandleLife, TypeOK, windows, calls
<1>17. ReaderWaits'
  BY Zenon, <1>1, <1>3, <1>4, SMTT(30) DEF ReaderWaits, TypeOK, windows, calls, wakers
<1> QED
  BY Zenon, <1>12, <1>14, <1>15, <1>16, <1>17 DEF InductiveInvariant

\* The frame at the head of the channel is never a protocol error: data fits the
\* receive window, credit fits a u32, and a Fin meets a stream that expects it.
LEMMA HeadIsWelcome ==
  ASSUME InductiveInvariant, NEW e \in Ends,
         pc[e] # "idle", state[e] \notin Stopped, avail[e] > 0
  PROVE  LET f == Head(path[e])
             p == Peer(e)
         IN /\ path[e] # << >> /\ f \in Frame /\ ~FrameError(e, f)
            /\ Tail(path[e]) \in Seq(Frame) /\ Len(Tail(path[e])) = Len(path[e]) - 1
            /\ f.ty = "data" =>
                 /\ taken[e] + f.len <= written[p] /\ f.len <= recv_window[e]
                 /\ InOrder(Tail(path[e]), taken[e] + f.len, credited[e], written[p], granted[p])
            /\ f.ty = "update" =>
                 /\ credited[e] + f.len <= granted[p]
                 /\ InOrder(Tail(path[e]), taken[e], credited[e] + f.len, written[p], granted[p])
<1> DEFINE f == Head(path[e])  p == Peer(e)
<1>1. p \in Ends /\ Peer(p) = e
  BY Zenon, PeerFacts
<1> HIDE DEF p
<1>2. /\ path[e] \in Seq(Frame) /\ avail[e] \in Nat /\ avail[e] <= Len(path[e])
  BY Zenon, SMTT(30) DEF InductiveInvariant, TypeOK
<1>3. path[e] # << >>
  BY <1>2, EmptySeq
<1>4. /\ taken[e] \in Nat /\ credited[e] \in Nat /\ written[p] \in Nat /\ granted[p] \in Nat
      /\ InOrder(path[e], taken[e], credited[e], written[p], granted[p])
  BY Zenon, <1>1 DEF InductiveInvariant, TypeOK, FramesInOrder, p
<1>5. /\ f \in Frame /\ Tail(path[e]) \in Seq(Frame)
      /\ Len(Tail(path[e])) = Len(path[e]) - 1
      /\ f.ty = "data" =>
           /\ taken[e] + f.len <= written[p]
           /\ InOrder(Tail(path[e]), taken[e] + f.len, credited[e], written[p], granted[p])
      /\ f.ty = "update" =>
           /\ credited[e] + f.len <= granted[p]
           /\ InOrder(Tail(path[e]), taken[e], credited[e] + f.len, written[p], granted[p])
  BY <1>2, <1>3, <1>4, InOrderTail, ZenonT(30)
<1>6. f.len \in Nat
  BY Zenon, <1>5, FrameTotals
<1> HIDE DEF f
<1>7. /\ send_window[e] \in Nat /\ recv_window[e] \in Nat /\ buf[p] \in Nat
      /\ send_window[p] \in Nat /\ recv_window[p] \in Nat /\ written[e] \in Nat
      /\ granted[e] \in Nat /\ taken[p] \in Nat /\ credited[p] \in Nat
      /\ InitialWindow \in Nat /\ MaxWindow[p] \in Nat /\ MaxU32 \in Nat
  BY Zenon, <1>1, WindowAssumption, SMTT(30) DEF InductiveInvariant, TypeOK
<1>8. /\ send_window[e] + written[e] = InitialWindow + credited[e]
      /\ send_window[p] + written[p] = InitialWindow + credited[p]
      /\ recv_window[e] + taken[e] = InitialWindow + granted[e]
      /\ recv_window[p] + taken[p] = InitialWindow + granted[p]
      /\ taken[p] <= written[e] /\ credited[p] <= granted[e]
      /\ recv_window[p] + buf[p] <= MaxWindow[p] /\ MaxWindow[p] <= MaxU32
  BY <1>1, WindowAssumption, ZenonT(30) DEF InductiveInvariant, WindowsBalance, BufferBounded, p
<1>9. f.ty = "data" => f.len <= recv_window[e]
  <2>1. ASSUME taken[e] + f.len <= written[p]
        PROVE  f.len <= recv_window[e]
    BY <1>4, <1>6, <1>7, <1>8, <2>1, SMTT(30)
  <2> QED
    BY Zenon, <1>5, <2>1
<1>10. f.ty = "update" => send_window[e] + f.len <= MaxU32
  <2>1. ASSUME credited[e] + f.len <= granted[p]
        PROVE  send_window[e] + f.len <= MaxU32
    BY <1>4, <1>6, <1>7, <1>8, <2>1
  <2> QED
    BY Zenon, <1>5, <2>1
<1>11. state[e] \in Opening \cup {"LocalClosing"}
  BY Zenon DEF InductiveInvariant, TypeOK, HandleLife, States, Stopped, Opening
<1>12. ~FrameError(e, f)
  <2>1. ~UnexpectedFin(state[e], f.flags)
    BY Zenon, <1>11 DEF UnexpectedFin
  <2>2. ~(f.ty = "update" /\ send_window[e] + f.len > MaxU32)
    BY <1>6, <1>7, <1>10
  <2>3. ~(f.ty = "data" /\ f.len > recv_window[e])
    BY <1>6, <1>7, <1>9
  <2> QED
    BY Zenon, <2>1, <2>2, <2>3 DEF FrameError
<1> QED
  BY Zenon, <1>3, <1>5, <1>9, <1>12 DEF f, p


(***************************************************************************)
(* Taking frames and reading                                               *)
(***************************************************************************)

\* One turn of recv_frames or try_recv_frames: bytes and credit arrive.
LEMMA RecvFrameStep ==
  ASSUME InductiveInvariant, NEW e \in Ends, RecvFrame(e)
  PROVE  InductiveInvariant'
<1> DEFINE f == Head(path[e])  p == Peer(e)
<1>1. p \in Ends /\ p # e /\ Peer(p) = e /\ Ends = {e, p}
  BY Zenon DEF Ends, Peer
<1>2. pc[e] # "idle" /\ state[e] \notin Stopped /\ avail[e] > 0
  BY Zenon DEF RecvFrame
<1>3. /\ path[e] # << >> /\ f \in Frame /\ ~FrameError(e, f)
      /\ Tail(path[e]) \in Seq(Frame) /\ Len(Tail(path[e])) = Len(path[e]) - 1
      /\ f.ty = "data" =>
           /\ taken[e] + f.len <= written[p] /\ f.len <= recv_window[e]
           /\ InOrder(Tail(path[e]), taken[e] + f.len, credited[e], written[p], granted[p])
      /\ f.ty = "update" =>
           /\ credited[e] + f.len <= granted[p]
           /\ InOrder(Tail(path[e]), taken[e], credited[e] + f.len, written[p], granted[p])
  BY Zenon, <1>2, HeadIsWelcome
<1>4. /\ path' = [path EXCEPT ![e] = Tail(@)] /\ avail' = [avail EXCEPT ![e] = @ - 1]
      /\ state' = [state EXCEPT ![e] = ProcessFlags(@, f.flags)]
      /\ HandleUpdate(e, f) \/ HandleData(e, f)
      /\ UNCHANGED <<go_away, pc, readable_wake, recv_task, entry, alive, reg, closed_event,
                     up, written, granted>>
  BY Zenon, <1>3 DEF RecvFrame, TakeFrame
<1>5. f.len \in Nat /\ f.flags \in SUBSET Flag
  BY Zenon, <1>3 DEF Frame
<1> HIDE DEF f, p
<1>6. /\ TypeOK /\ FramesInOrder /\ WindowsBalance /\ BufferBounded /\ HandleLife
      /\ ReaderWaits /\ NoProtocolError
  BY Zenon DEF InductiveInvariant
<1>7. /\ path' \in [Ends -> Seq(Frame)] /\ avail' \in [Ends -> Nat]
      /\ path'[e] = Tail(path[e]) /\ path'[p] = path[p]
      /\ avail'[p] = avail[p]
      /\ \A x \in Ends : avail'[x] <= Len(path'[x])
  <2>1. /\ path \in [Ends -> Seq(Frame)] /\ avail \in [Ends -> Nat]
        /\ \A x \in Ends : avail[x] <= Len(path[x]) /\ Len(path[x]) \in Nat
    BY Zenon, <1>6, LenProperties DEF TypeOK
  <2>2. path' \in [Ends -> Seq(Frame)] /\ path'[e] = Tail(path[e]) /\ path'[p] = path[p]
    BY Zenon, <1>1, <1>3, <1>4, <2>1
  <2>3. /\ avail' \in [Ends -> Nat] /\ avail'[e] = avail[e] - 1 /\ avail'[p] = avail[p]
    BY <1>1, <1>2, <1>4, <2>1
  <2> QED
    BY <1>1, <1>3, <2>1, <2>2, <2>3
<1>8. state' \in [Ends -> States] /\ state'[e] # "None" /\ state'[p] = state[p]
  <2>1. state[e] \in States \ {"None"}
    BY Zenon, <1>2, <1>6 DEF TypeOK, HandleLife
  <2>2. ProcessFlags(state[e], f.flags) \in States \ {"None"}
    BY Zenon, <2>1 DEF ProcessFlags, States
  <2> QED
    BY Zenon, <1>1, <1>4, <1>6, <2>2 DEF TypeOK
<1>9. InOrder(path[p], taken[p], credited[p], written[e], granted[e])
  BY Zenon, <1>1, <1>6 DEF FramesInOrder
<1>10. /\ blocked \in [Ends -> SUBSET Task] /\ recv_window \in [Ends -> Nat]
       /\ send_window \in [Ends -> Nat] /\ buf \in [Ends -> Nat]
       /\ taken \in [Ends -> Nat] /\ credited \in [Ends -> Nat]
       /\ writeable_wake \in [Ends -> Task \cup {NoTask}]
  BY Zenon, <1>6, SMTT(30) DEF TypeOK
<1>11. "reader" \notin blocked[e]
  BY <1>2, <1>6 DEF ReaderWaits
<1>12. HandleLife'
  <2>1. buf'[p] = buf[p] /\ reg[e] # "new"
    BY Zenon, <1>1, <1>2, <1>4, <1>6, <1>10 DEF HandleLife, HandleUpdate, HandleData
  <2> QED
    BY Zenon, <1>1, <1>4, <1>6, <1>7, <1>8, <2>1 DEF HandleLife
<1>13. /\ blocked' \in [Ends -> SUBSET Task] /\ blocked'[p] = blocked[p]
       /\ "reader" \notin blocked'[e] /\ buf'[p] = buf[p]
  BY SMTT(30), <1>1, <1>4, <1>10, <1>11 DEF HandleUpdate, HandleData, Wake
<1>14. ReaderWaits'
  BY <1>1, <1>4, <1>6, <1>7, <1>8, <1>13 DEF ReaderWaits
<1>15. CASE HandleData(e, f)
  <2>1. /\ f.ty = "data"
        /\ buf' = [buf EXCEPT ![e] = @ + f.len]
        /\ recv_window' = [recv_window EXCEPT ![e] = @ - f.len]
        /\ taken' = [taken EXCEPT ![e] = @ + f.len]
        /\ UNCHANGED <<send_window, credited, writeable_wake>>
    BY Zenon, <1>15 DEF HandleData
  <2>2. f.len <= recv_window[e] /\ taken[e] + f.len <= written[p]
    BY Zenon, <1>3, <2>1
  <2>3. /\ buf' \in [Ends -> Nat] /\ buf'[e] = buf[e] + f.len /\ buf'[p] = buf[p]
        /\ taken' \in [Ends -> Nat] /\ taken'[e] = taken[e] + f.len /\ taken'[p] = taken[p]
    BY <1>1, <1>5, <1>10, <2>1
  <2>4. /\ recv_window' \in [Ends -> Nat] /\ recv_window'[e] = recv_window[e] - f.len
        /\ recv_window'[p] = recv_window[p]
    BY <1>1, <1>5, <1>10, <2>1, <2>2, SMTT(30)
  <2>5. TypeOK'
    BY <1>4, <1>6, <1>7, <1>8, <1>13, <2>1, <2>3, <2>4, ZenonT(30) DEF TypeOK
  <2>6. FramesInOrder'
    <3>1. InOrder(path'[e], taken'[e], credited'[e], written'[p], granted'[p])
      BY Zenon, <1>3, <1>4, <1>7, <2>1, <2>3
    <3>2. InOrder(path'[p], taken'[p], credited'[p], written'[e], granted'[e])
      BY Zenon, <1>4, <1>7, <1>9, <2>1, <2>3
    <3> QED
      BY Zenon, <1>1, <3>1, <3>2 DEF FramesInOrder, p
  <2>7. BufferBounded' /\ WindowsBalance'
    <3>1. /\ recv_window[e] \in Nat /\ buf[e] \in Nat /\ taken[e] \in Nat
          /\ granted[e] \in Nat /\ InitialWindow \in Nat /\ MaxWindow[e] \in Nat
          /\ recv_window[e] + buf[e] <= MaxWindow[e]
          /\ recv_window[e] + taken[e] = InitialWindow + granted[e]
      BY Zenon, <1>6, WindowAssumption DEF TypeOK, BufferBounded, WindowsBalance
    <3>2. /\ recv_window'[e] + buf'[e] <= MaxWindow[e]
          /\ recv_window'[e] + taken'[e] = InitialWindow + granted[e]
      BY <1>5, <2>3, <2>4, <3>1
    <3>3. BufferBounded'
      BY Zenon, <1>1, <1>6, <2>3, <2>4, <3>2, SMTT(30) DEF BufferBounded
    <3>4. WindowsBalance'
      BY Zenon, <1>1, <1>4, <1>6, <2>1, <2>2, <2>3, <2>4, <3>2 DEF WindowsBalance, p
    <3> QED
      BY Zenon, <3>3, <3>4
  <2> QED
    BY Zenon, <1>4, <1>6, <1>12, <1>14, <2>5, <2>6, <2>7 DEF InductiveInvariant, NoProtocolError
<1>16. CASE HandleUpdate(e, f)
  <2>1. /\ f.ty = "update"
        /\ send_window' = [send_window EXCEPT ![e] = @ + f.len]
        /\ credited' = [credited EXCEPT ![e] = @ + f.len]
        /\ writeable_wake' = [writeable_wake EXCEPT ![e] = NoTask]
        /\ UNCHANGED <<recv_window, buf, taken>>
    BY Zenon, <1>16, SMTT(30) DEF HandleUpdate
  <2>2. credited[e] + f.len <= granted[p]
    BY Zenon, <1>3, <2>1
  <2>3. /\ send_window' \in [Ends -> Nat] /\ send_window'[e] = send_window[e] + f.len
        /\ send_window'[p] = send_window[p]
        /\ credited' \in [Ends -> Nat] /\ credited'[e] = credited[e] + f.len
        /\ credited'[p] = credited[p]
    BY <1>1, <1>5, <1>10, <2>1
  <2>4. writeable_wake' \in [Ends -> Task \cup {NoTask}]
    BY Zenon, <1>10, <2>1, SMTT(30)
  <2>5. TypeOK'
    BY <1>4, <1>6, <1>7, <1>8, <1>13, <2>1, <2>3, <2>4, ZenonT(30) DEF TypeOK
  <2>6. FramesInOrder'
    <3>1. InOrder(path'[e], taken'[e], credited'[e], written'[p], granted'[p])
      BY Zenon, <1>3, <1>4, <1>7, <2>1, <2>3, SMTT(30)
    <3>2. InOrder(path'[p], taken'[p], credited'[p], written'[e], granted'[e])
      BY Zenon, <1>4, <1>7, <1>9, <2>1, <2>3
    <3> QED
      BY Zenon, <1>1, <3>1, <3>2 DEF FramesInOrder, p
  <2>7. BufferBounded' /\ WindowsBalance'
    <3>1. /\ send_window[e] \in Nat /\ credited[e] \in Nat /\ written[e] \in Nat
          /\ InitialWindow \in Nat
          /\ send_window[e] + written[e] = InitialWindow + credited[e]
      BY Zenon, <1>6, WindowAssumption DEF TypeOK, WindowsBalance
    <3>2. send_window'[e] + written[e] = InitialWindow + credited'[e]
      BY <1>5, <2>3, <3>1
    <3>3. BufferBounded'
      BY Zenon, <1>6, <2>1, SMTT(30) DEF BufferBounded
    <3>4. WindowsBalance'
      BY Zenon, <1>1, <1>4, <1>6, <2>1, <2>2, <2>3, <3>2 DEF WindowsBalance, p
    <3> QED
      BY Zenon, <3>3, <3>4
  <2> QED
    BY Zenon, <1>4, <1>6, <1>12, <1>14, <2>5, <2>6, <2>7 DEF InductiveInvariant, NoProtocolError
<1> QED
  BY Zenon, <1>4, <1>15, <1>16

\* The loop of recv_frames leaves one of the stream's states.
LEMMA StateAfterLoopType ==
  ASSUME InductiveInvariant, NEW e \in Ends, pc[e] # "idle"
  PROVE  state[e] \in States \ {"None"} /\ StateAfterLoop(e) \in States \ {"None"}
BY Zenon DEF InductiveInvariant, TypeOK, HandleLife, StateAfterLoop, States

\* poll_read or poll_peek returns without a byte, registered when it waits.
LEMMA EndWithoutDataStep ==
  ASSUME InductiveInvariant, NEW e \in Ends, NEW call \in {"read", "peek"},
         EndWithoutData(e, call)
  PROVE  InductiveInvariant'
<1> USE DEF EndWithoutData, EndReading
<1>1. TypeOK /\ HandleLife /\ ReaderWaits
  BY Zenon DEF InductiveInvariant
<1>2. StateAfterLoop(e) \in States \ {"None"}
  BY Zenon, StateAfterLoopType
<1>3. recv_task' \in [Ends -> Task \cup {NoTask}]
  BY Zenon, <1>1 DEF TypeOK, RegisterReader, Task
<1>4. blocked' \in [Ends -> SUBSET Task]
  BY Zenon, <1>1 DEF TypeOK, Task
<1>5. TypeOK'
  BY Zenon, <1>1, <1>2, <1>3, <1>4, SMTT(30) DEF TypeOK
<1>6. Accounts'
  BY Zenon, AccountsUnchanged DEF InductiveInvariant, Accounts, windows, history
<1>7. HandleLife'
  <2>1. \A x \in Ends : alive[x] => state'[x] # "None"
    BY Zenon, <1>1, <1>2 DEF TypeOK, HandleLife
  <2>2. \A x \in Ends : pc'[x] # "idle" => pc[x] # "idle"
    BY Zenon, <1>1 DEF TypeOK
  <2> QED
    BY Zenon, <1>1, <2>1, <2>2 DEF HandleLife
<1>8. ReaderWaits'
  <2>1. "reader" \notin blocked[e] /\ alive[e] /\ avail[e] \in Nat
    BY Zenon, <1>1 DEF ReaderWaits, HandleLife, TypeOK
  <2>2. ASSUME "reader" \in blocked'[e]
        PROVE  /\ state[e] \notin Stopped /\ avail[e] = 0 /\ reg[e] = "in"
               /\ state'[e] = state[e] /\ recv_task'[e] = "reader"
    BY Zenon, <1>1, <2>1, <2>2
       DEF TypeOK, StateAfterLoop, Stopped, LoopEnds, RegisterReader, ChannelOpen
  <2>3. ASSUME NEW x \in Ends, x # e
        PROVE  /\ blocked'[x] = blocked[x] /\ pc'[x] = pc[x]
               /\ recv_task'[x] = recv_task[x] /\ state'[x] = state[x]
    BY Zenon, <1>1, <2>3 DEF TypeOK, RegisterReader
  <2>4. pc'[e] = "idle"
    BY Zenon, <1>1 DEF TypeOK
  <2> QED
    BY <1>1, <2>1, <2>2, <2>3, <2>4 DEF ReaderWaits
<1> QED
  BY Zenon, <1>5, <1>6, <1>7, <1>8 DEF InductiveInvariant, Accounts

\* Whatever poll_peek returns, windows and buffer are as before.
LEMMA EndPeekStep ==
  ASSUME InductiveInvariant, NEW e \in Ends, EndPeek(e)
  PROVE  InductiveInvariant'
<1>1. CASE EndWithoutData(e, "peek")
  BY Zenon, <1>1, EndWithoutDataStep
<1>2. CASE /\ EndReading(e, "peek") /\ buf[e] > 0
           /\ state' = [state EXCEPT ![e] = StateAfterLoop(e)]
           /\ UNCHANGED <<recv_window, buf, path, granted, blocked>>
  <2> USE <1>2 DEF EndReading
  <2>1. TypeOK /\ HandleLife /\ ReaderWaits
    BY Zenon DEF InductiveInvariant
  <2>2. StateAfterLoop(e) \in States \ {"None"}
    BY Zenon, StateAfterLoopType
  <2>3. recv_task' \in [Ends -> Task \cup {NoTask}]
    BY Zenon, <2>1 DEF TypeOK, RegisterReader, Task
  <2>4. TypeOK'
    BY Zenon, <2>1, <2>2, <2>3, SMTT(30) DEF TypeOK
  <2>5. Accounts'
    BY Zenon, AccountsUnchanged DEF InductiveInvariant, Accounts, windows, history
  <2>6. HandleLife'
    <3>1. \A x \in Ends : alive[x] => state'[x] # "None"
      BY Zenon, <2>1, <2>2 DEF TypeOK, HandleLife
    <3>2. \A x \in Ends : pc'[x] # "idle" => pc[x] # "idle"
      BY Zenon, <2>1 DEF TypeOK
    <3> QED
      BY Zenon, <2>1, <3>1, <3>2 DEF HandleLife
  <2>7. ReaderWaits'
    <3>1. "reader" \notin blocked[e]
      BY Zenon, <2>1 DEF ReaderWaits
    <3>2. ASSUME NEW x \in Ends, x # e
          PROVE  /\ pc'[x] = pc[x] /\ recv_task'[x] = recv_task[x]
                 /\ state'[x] = state[x]
      BY Zenon, <2>1, <3>2 DEF TypeOK, RegisterReader
    <3> QED
      BY Zenon, <2>1, <3>1, <3>2 DEF ReaderWaits
  <2> QED
    BY Zenon, <2>4, <2>5, <2>6, <2>7 DEF InductiveInvariant, Accounts
<1> QED
  BY Zenon, <1>1, <1>2 DEF EndPeek

\* poll_read copies bytes out and sends a window update for them.
LEMMA EndReadStep ==
  ASSUME InductiveInvariant, NEW e \in Ends, EndRead(e)
  PROVE  InductiveInvariant'
<1>1. CASE EndWithoutData(e, "read")
  BY Zenon, <1>1, EndWithoutDataStep, SMTT(30)
<1>2. ASSUME EndReading(e, "read"), buf[e] > 0, NEW r \in ReadSizes,
             buf' = [buf EXCEPT ![e] = buf[e] - Min2(r, buf[e])],
             UNCHANGED blocked,
             IF StateAfterLoop(e) \in Stopped
             THEN /\ state' = [state EXCEPT ![e] = StateAfterLoop(e)]
                  /\ UNCHANGED <<recv_window, granted, path>>
             ELSE SendWindowUpdate(e, state[e], buf[e] - Min2(r, buf[e]))
      PROVE  InductiveInvariant'
  <2>1. /\ TypeOK /\ FramesInOrder /\ WindowsBalance /\ BufferBounded /\ HandleLife
        /\ ReaderWaits /\ NoProtocolError
    BY Zenon DEF InductiveInvariant
  <2>2. /\ pc[e] = "read" /\ pc' = [pc EXCEPT ![e] = "idle"] /\ RegisterReader(e)
        /\ UNCHANGED <<send_window, readable_wake, writeable_wake, entry, alive, avail,
                 reg, closed_event, up, go_away, written, taken, credited>>
    BY Zenon, <1>2 DEF EndReading
  <2>3. state[e] \in States \ {"None"} /\ StateAfterLoop(e) \in States \ {"None"}
    BY Zenon, <2>2, StateAfterLoopType
  <2>4. PICK b \in Nat : b = buf[e] - Min2(r, buf[e]) /\ b <= buf[e]
    <3>1. buf[e] \in Nat /\ r \in Nat
      BY Zenon, <2>1, ApplicationAssumption DEF TypeOK
    <3> QED
      BY <3>1 DEF Min2
  <2>5. buf' = [buf EXCEPT ![e] = b]
    BY Zenon, <1>2, <2>4
  <2>6. recv_window[e] \in Nat /\ MaxWindow[e] \in Nat /\ recv_window[e] + b <= MaxWindow[e]
    <3>1. /\ recv_window[e] \in Nat /\ MaxWindow[e] \in Nat /\ buf[e] \in Nat
          /\ recv_window[e] + buf[e] <= MaxWindow[e]
      BY Zenon, <2>1, WindowAssumption DEF TypeOK, BufferBounded
    <3> QED
      BY <2>4, <3>1
  <2>7. /\ state' \in [Ends -> States] /\ state'[e] # "None"
        /\ \A x \in Ends \ {e} : state'[x] = state[x]
        /\ recv_window' \in [Ends -> Nat] /\ granted' \in [Ends -> Nat]
        /\ \A x \in Ends \ {e} : recv_window'[x] = recv_window[x]
        /\ recv_window'[e] + b <= MaxWindow[e]
        /\ path' \in [Ends -> Seq(Frame)]
        /\ \A x \in Ends : Len(path[x]) <= Len(path'[x])
        /\ FramesInOrder' /\ WindowsBalance'
    <3>1. CASE StateAfterLoop(e) \in Stopped
      <4>1. /\ state' = [state EXCEPT ![e] = StateAfterLoop(e)]
            /\ UNCHANGED <<recv_window, granted, path>>
        BY Zenon, <1>2, <3>1, SMTT(30)
      <4>2. FramesInOrder' /\ WindowsBalance'
        BY Zenon, <2>1, <2>2, <4>1 DEF FramesInOrder, WindowsBalance
      <4>3. \A x \in Ends : Len(path[x]) <= Len(path'[x])
        BY <2>1, <4>1, LenProperties, SMTT(30) DEF TypeOK
      <4> QED
        BY Zenon, <2>1, <2>3, <2>6, <4>1, <4>2, <4>3, SMTT(30) DEF TypeOK
    <3>2. CASE StateAfterLoop(e) \notin Stopped
      <4>1. SendWindowUpdate(e, state[e], b) /\ UNCHANGED <<send_window, written, taken, credited>>
        BY Zenon, <1>2, <2>2, <2>4, <3>2, SMTT(30)
      <4>2. /\ state' = [state EXCEPT ![e] = StateAfterFlags(state[e])]
            /\ state' \in [Ends -> States] /\ state'[e] # "None"
            /\ recv_window' \in [Ends -> Nat] /\ granted' \in [Ends -> Nat]
            /\ \A x \in Ends \ {e} : recv_window'[x] = recv_window[x]
            /\ recv_window'[e] + b <= MaxWindow[e]
            /\ path' \in [Ends -> Seq(Frame)]
            /\ \A x \in Ends : Len(path[x]) <= Len(path'[x])
            /\ FramesInOrder' /\ WindowsBalance'
        BY Zenon, <2>1, <2>3, <2>6, <4>1, WindowUpdateEffect
      <4>3. \A x \in Ends \ {e} : state'[x] = state[x]
        BY Zenon, <2>1, <4>2 DEF TypeOK
      <4> QED
        BY Zenon, <4>2, <4>3
    <3> QED
      BY Zenon, <3>1, <3>2
  <2>8. recv_task' \in [Ends -> Task \cup {NoTask}]
    BY Zenon, <2>1, <2>2 DEF TypeOK, RegisterReader, Task
  <2>9. buf' \in [Ends -> Nat] /\ buf'[e] = b /\ \A x \in Ends \ {e} : buf'[x] = buf[x]
    BY Zenon, <2>1, <2>5, SMTT(30) DEF TypeOK
  <2>10. TypeOK'
    <3>1. \A x \in Ends : avail[x] <= Len(path'[x])
      <4> SUFFICES ASSUME NEW x \in Ends
                   PROVE  avail[x] <= Len(path'[x])
        BY Zenon
      <4>1. /\ avail[x] \in Nat /\ Len(path[x]) \in Nat /\ Len(path'[x]) \in Nat
            /\ avail[x] <= Len(path[x]) /\ Len(path[x]) <= Len(path'[x])
        BY Zenon, <2>1, <2>7, LenProperties DEF TypeOK
      <4> QED
        BY <4>1
    <3> QED
      BY <1>2, <2>1, <2>2, <2>7, <2>8, <2>9, <3>1, ZenonT(30) DEF TypeOK
  <2>11. BufferBounded'
    BY <2>1, <2>7, <2>9, ZenonT(30) DEF BufferBounded
  <2>12. HandleLife'
    <3>1. \A x \in Ends : pc'[x] # "idle" => pc[x] # "idle"
      BY Zenon, <2>1, <2>2, SMTT(30) DEF TypeOK
    <3>2. reg[e] # "new"
      BY Zenon, <2>1, <2>2 DEF HandleLife
    <3> QED
      BY <2>1, <2>2, <2>7, <2>9, <3>1, <3>2, ZenonT(30) DEF HandleLife
  <2>13. ReaderWaits'
    <3>1. "reader" \notin blocked'[e]
      BY Zenon, <1>2, <2>1, <2>2 DEF ReaderWaits
    <3>2. ASSUME NEW x \in Ends, x # e
          PROVE  /\ pc'[x] = pc[x] /\ recv_task'[x] = recv_task[x] /\ blocked'[x] = blocked[x]
      BY Zenon, <1>2, <2>1, <2>2, <3>2 DEF TypeOK, RegisterReader
    <3> QED
      BY <2>1, <2>2, <2>7, <2>9, <3>1, <3>2, ZenonT(30) DEF ReaderWaits
  <2> QED
    BY Zenon, <2>1, <2>2, <2>7, <2>10, <2>11, <2>12, <2>13 DEF InductiveInvariant, NoProtocolError
<1> QED
  BY Zenon, <1>1, <1>2 DEF EndRead

(***************************************************************************)
(* Writing, closing, dropping                                              *)
(***************************************************************************)

\* More frames at the back leave the channels as they are.
LEMMA AvailStays ==
  ASSUME TypeOK, path' \in [Ends -> Seq(Frame)], UNCHANGED avail,
         \A x \in Ends : Len(path[x]) <= Len(path'[x])
  PROVE  \A x \in Ends : avail'[x] <= Len(path'[x])
<1> SUFFICES ASSUME NEW x \in Ends
             PROVE  avail'[x] <= Len(path'[x])
  BY Zenon
<1>1. /\ avail'[x] \in Nat /\ Len(path[x]) \in Nat /\ Len(path'[x]) \in Nat
      /\ avail'[x] <= Len(path[x]) /\ Len(path[x]) <= Len(path'[x])
  BY Zenon, LenProperties DEF TypeOK
<1> QED
  BY <1>1

\* send_data: the bytes leave the window and are under way, or the session is gone.
LEMMA SendDataEffect ==
  ASSUME TypeOK, FramesInOrder, WindowsBalance, NEW e \in Ends,
         NEW st \in States \ {"None"}, NEW n \in Nat, n <= send_window[e],
         SendData(e, st, n), UNCHANGED <<recv_window, granted, taken, credited>>
  PROVE  /\ state' = [state EXCEPT ![e] = StateAfterFlags(st)]
         /\ send_window' \in [Ends -> Nat] /\ written' \in [Ends -> Nat]
         /\ path' \in [Ends -> Seq(Frame)]
         /\ \A x \in Ends : Len(path[x]) <= Len(path'[x])
         /\ FramesInOrder' /\ WindowsBalance'
<1> DEFINE f == DataFrame(e, FlagsOf(st), n)  w == IF up[e] THEN written[e] + n ELSE written[e]
<1>1. /\ state' = [state EXCEPT ![e] = StateAfterFlags(st)] /\ Send(e, f)
      /\ send_window' = IF up[e] THEN [send_window EXCEPT ![e] = @ - n] ELSE send_window
      /\ written' = IF up[e] THEN [written EXCEPT ![e] = @ + n] ELSE written
  BY Zenon DEF SendData
<1>2. /\ f \in Frame /\ f.sent = written[e] + n /\ f.granted = granted[e]
      /\ SentBefore(f) = written[e] /\ GrantedBefore(f) = granted[e]
  <2>1. FlagsOf(st) \in SUBSET Flag
    BY Zenon DEF FlagsOf, Flag
  <2> QED
    BY Zenon, <2>1, DataFrameTotals
<1> HIDE DEF f
<1>3. /\ send_window \in [Ends -> Nat] /\ written \in [Ends -> Nat]
      /\ send_window[e] \in Nat /\ written[e] \in Nat
  BY Zenon DEF TypeOK
<1>4. /\ send_window' \in [Ends -> Nat] /\ written' \in [Ends -> Nat]
      /\ \A x \in Ends \ {e} : send_window'[x] = send_window[x] /\ written'[x] = written[x]
      /\ up[e] => send_window'[e] = send_window[e] - n /\ written'[e] = written[e] + n
      /\ ~up[e] => send_window'[e] = send_window[e] /\ written'[e] = written[e]
  BY <1>1, <1>3
<1>5. written[e] <= written'[e] /\ send_window'[e] + written'[e] = send_window[e] + written[e]
  <2>1. send_window'[e] \in Nat /\ written'[e] \in Nat
    BY Zenon, <1>4
  <2>2. CASE up[e]
    BY <1>3, <1>4, <2>1, <2>2
  <2>3. CASE ~up[e]
    BY <1>3, <1>4, <2>1, <2>3
  <2> QED
    BY Zenon, <2>2, <2>3
<1>6. /\ path' \in [Ends -> Seq(Frame)]
      /\ \A x \in Ends : Len(path[x]) <= Len(path'[x])
      /\ FramesInOrder'
  <2>1. granted'[e] \in Nat /\ granted[e] <= granted'[e]
    BY DEF TypeOK
  <2>2. written'[e] \in Nat /\ (up[e] => written'[e] = f.sent /\ granted'[e] = f.granted)
    BY Zenon, <1>2, <1>4
  <2>3. \A x \in Ends \ {e} : written'[x] = written[x] /\ granted'[x] = granted[x]
    BY Zenon, <1>4
  <2> QED
    BY Zenon, <1>1, <1>2, <1>5, <2>1, <2>2, <2>3, SendEffect
<1>7. WindowsBalance'
  <2>1. \A x \in Ends : send_window'[x] + written'[x] = InitialWindow + credited[x]
    BY Zenon, <1>4, <1>5 DEF WindowsBalance
  <2>2. ASSUME NEW x \in Ends
        PROVE  taken[x] <= written'[Peer(x)]
    <3>1. /\ Peer(x) \in Ends /\ taken[x] \in Nat /\ written[Peer(x)] \in Nat
          /\ written'[Peer(x)] \in Nat /\ taken[x] <= written[Peer(x)]
      BY Zenon, <1>4, PeerFacts DEF TypeOK, WindowsBalance
    <3>2. written[Peer(x)] <= written'[Peer(x)]
      BY <1>4, <1>5, <3>1
    <3> QED
      BY <3>1, <3>2
  <2> QED
    BY Zenon, <2>1, <2>2 DEF WindowsBalance
<1> QED
  BY Zenon, <1>1, <1>4, <1>6, <1>7

\* poll_write wakes the reader if it has news for it; otherwise the reader still
\* waits for nothing.
LEMMA EndWriteStep ==
  ASSUME InductiveInvariant, NEW e \in Ends, EndWrite(e)
  PROVE  InductiveInvariant'
<1> DEFINE st == StateAfterLoop(e)
           news == ReaderNews(e, st, ChannelOpen(e))
           woken == blocked[e] \ Woken(e, news)
<1>1. /\ TypeOK /\ FramesInOrder /\ WindowsBalance /\ BufferBounded /\ HandleLife
      /\ ReaderWaits /\ NoProtocolError
  BY Zenon DEF InductiveInvariant
<1>2. /\ pc[e] = "write" /\ LoopEnds(e)
      /\ pc' = [pc EXCEPT ![e] = "idle"] /\ TakeReadableWake(e, news)
      /\ UNCHANGED <<recv_window, buf, recv_task, entry, alive, avail, reg,
                    closed_event, up, go_away, granted, taken, credited>>
  BY Zenon DEF EndWrite, TryRecvWaker
<1>3. st \in States \ {"None"}
  BY Zenon, <1>2, StateAfterLoopType
<1>4. readable_wake' \in [Ends -> Task \cup {NoTask}]
  BY Zenon, <1>1, <1>2 DEF TypeOK, TakeReadableWake
<1>5. /\ state' \in [Ends -> States] /\ state'[e] # "None"
      /\ \A x \in Ends \ {e} : state'[x] = state[x]
      /\ reg[e] = "in" /\ state'[e] \in Stopped => state[e] \in Stopped
      /\ writeable_wake' \in [Ends -> Task \cup {NoTask}]
      /\ blocked' \in [Ends -> SUBSET Task] /\ blocked'[e] \subseteq blocked[e] \cup {"writer"}
      /\ \A x \in Ends \ {e} : blocked'[x] = blocked[x]
      /\ send_window' \in [Ends -> Nat] /\ written' \in [Ends -> Nat]
      /\ path' \in [Ends -> Seq(Frame)]
      /\ \A x \in Ends : Len(path[x]) <= Len(path'[x])
      /\ FramesInOrder' /\ WindowsBalance'
  <2> HIDE DEF st, news, woken
  <2>1. ASSUME state' = [state EXCEPT ![e] = st], UNCHANGED <<send_window, path, written>>
        PROVE  /\ state' \in [Ends -> States] /\ state'[e] # "None"
               /\ \A x \in Ends \ {e} : state'[x] = state[x]
               /\ reg[e] = "in" /\ state'[e] \in Stopped => state[e] \in Stopped
               /\ send_window' \in [Ends -> Nat] /\ written' \in [Ends -> Nat]
               /\ path' \in [Ends -> Seq(Frame)]
               /\ \A x \in Ends : Len(path[x]) <= Len(path'[x])
               /\ FramesInOrder' /\ WindowsBalance'
    <3>1. FramesInOrder' /\ WindowsBalance'
      BY Zenon, <1>1, <1>2, <2>1 DEF FramesInOrder, WindowsBalance
    <3>2. \A x \in Ends : Len(path[x]) <= Len(path'[x])
      BY <1>1, <2>1, LenProperties DEF TypeOK
    <3>3. reg[e] = "in" => st = state[e]
      BY Zenon DEF st, StateAfterLoop
    <3> QED
      BY Zenon, <1>1, <1>3, <2>1, <3>1, <3>2, <3>3, SMTT(30) DEF TypeOK
  <2>2. woken \subseteq blocked[e] /\ blocked[e] \subseteq Task
    BY Zenon, <1>1 DEF woken, TypeOK
  <2>3. CASE /\ state' = [state EXCEPT ![e] = st]
             /\ blocked' = [blocked EXCEPT ![e] = woken]
             /\ UNCHANGED <<send_window, writeable_wake, path, written>>
    <3>1. /\ blocked' \in [Ends -> SUBSET Task] /\ blocked'[e] \subseteq blocked[e] \cup {"writer"}
          /\ \A x \in Ends \ {e} : blocked'[x] = blocked[x]
          /\ writeable_wake' \in [Ends -> Task \cup {NoTask}]
      BY Zenon, <1>1, <2>2, <2>3 DEF TypeOK
    <3> QED
      BY Zenon, <2>1, <2>3, <3>1
  <2>4. CASE /\ state' = [state EXCEPT ![e] = st]
             /\ writeable_wake' = [writeable_wake EXCEPT ![e] = "writer"]
             /\ blocked' = [blocked EXCEPT ![e] = woken \cup {"writer"}]
             /\ UNCHANGED <<send_window, path, written>>
    <3>1. /\ blocked' \in [Ends -> SUBSET Task] /\ blocked'[e] \subseteq blocked[e] \cup {"writer"}
          /\ \A x \in Ends \ {e} : blocked'[x] = blocked[x]
          /\ writeable_wake' \in [Ends -> Task \cup {NoTask}]
      BY <1>1, <2>2, <2>4, ZenonT(30) DEF TypeOK, Task
    <3> QED
      BY Zenon, <2>1, <2>4, <3>1
  <2>5. CASE /\ send_window[e] > 0
             /\ \E m \in WriteSizes : SendData(e, st, Min2(send_window[e], m))
             /\ blocked' = [blocked EXCEPT ![e] = woken]
             /\ UNCHANGED writeable_wake
    <3>1. PICK m \in WriteSizes : SendData(e, st, Min2(send_window[e], m))
      BY Zenon, <2>5
    <3>2. /\ Min2(send_window[e], m) \in Nat /\ Min2(send_window[e], m) <= send_window[e]
      <4>1. send_window[e] \in Nat /\ m \in Nat
        BY Zenon, <1>1, ApplicationAssumption DEF TypeOK
      <4> QED
        BY <4>1 DEF Min2
    <3>3. UNCHANGED <<recv_window, granted, taken, credited>>
      BY Zenon, <1>2
    <3>4. /\ state' = [state EXCEPT ![e] = StateAfterFlags(st)]
          /\ send_window' \in [Ends -> Nat] /\ written' \in [Ends -> Nat]
          /\ path' \in [Ends -> Seq(Frame)]
          /\ \A x \in Ends : Len(path[x]) <= Len(path'[x])
          /\ FramesInOrder' /\ WindowsBalance'
      BY Zenon, <1>1, <1>3, <3>1, <3>2, <3>3, SendDataEffect
    <3>5. /\ StateAfterFlags(st) \in States \ {"None"}
          /\ reg[e] = "in" /\ StateAfterFlags(st) \in Stopped => state[e] \in Stopped
      BY Zenon, <1>3 DEF StateAfterFlags, States, st, StateAfterLoop, Stopped
    <3>6. /\ state' \in [Ends -> States] /\ state'[e] = StateAfterFlags(st)
          /\ \A x \in Ends \ {e} : state'[x] = state[x]
      BY Zenon, <1>1, <3>4, <3>5 DEF TypeOK
    <3>7. /\ blocked' \in [Ends -> SUBSET Task] /\ blocked'[e] \subseteq blocked[e] \cup {"writer"}
          /\ \A x \in Ends \ {e} : blocked'[x] = blocked[x]
          /\ writeable_wake' \in [Ends -> Task \cup {NoTask}]
      BY Zenon, <1>1, <2>2, <2>5 DEF TypeOK
    <3> QED
      BY Zenon, <3>4, <3>5, <3>6, <3>7
  <2> QED
    BY Zenon, <2>3, <2>4, <2>5 DEF EndWrite, TryRecvWaker, st, news, woken
<1> HIDE DEF st, news, woken
<1>6. TypeOK'
  <2>1. \A x \in Ends : avail'[x] <= Len(path'[x])
    BY Zenon, <1>1, <1>2, <1>5, AvailStays
  <2> QED
    BY <1>1, <1>2, <1>4, <1>5, <2>1, ZenonT(30) DEF TypeOK
<1>7. NoProtocolError' /\ BufferBounded'
  BY Zenon, <1>1, <1>2 DEF NoProtocolError, BufferBounded
<1>8. \A x \in Ends \ {e} : pc'[x] = pc[x]
  BY Zenon, <1>1, <1>2 DEF TypeOK
<1>9. pc'[e] = "idle"
  BY Zenon, <1>1, <1>2 DEF TypeOK
<1>10. HandleLife'
  BY <1>1, <1>2, <1>5, <1>8, <1>9, ZenonT(30) DEF HandleLife
<1>11. ReaderWaits'
  BY <1>1, <1>2, <1>5, <1>8, <1>9, ZenonT(30) DEF ReaderWaits
<1> QED
  BY Zenon, <1>5, <1>6, <1>7, <1>10, <1>11 DEF InductiveInvariant

\* Fin and Rst frames: nothing is written or granted with them.
LEMMA ControlFrameEffect ==
  ASSUME TypeOK, FramesInOrder, WindowsBalance, NEW e \in Ends, NEW flags \in SUBSET Flag,
         Send(e, UpdateFrame(e, flags, 0)), UNCHANGED history
  PROVE  /\ path' \in [Ends -> Seq(Frame)]
         /\ \A x \in Ends : Len(path[x]) <= Len(path'[x])
         /\ FramesInOrder'
<1> DEFINE f == UpdateFrame(e, flags, 0)
<1>1. /\ f \in Frame /\ f.sent = written[e] /\ f.granted = granted[e] + 0
      /\ SentBefore(f) = written[e] /\ GrantedBefore(f) = granted[e]
  BY Zenon, UpdateFrameTotals
<1>2. Send(e, f)
  BY Zenon
<1> HIDE DEF f
<1>3. written[e] \in Nat /\ granted[e] \in Nat
  BY Zenon DEF TypeOK
<1>4. /\ written'[e] \in Nat /\ granted'[e] \in Nat
      /\ written[e] <= written'[e] /\ granted[e] <= granted'[e]
      /\ written'[e] = f.sent /\ granted'[e] = f.granted
      /\ \A x \in Ends \ {e} : written'[x] = written[x] /\ granted'[x] = granted[x]
      /\ UNCHANGED <<taken, credited>>
  BY <1>1, <1>3 DEF history
<1> QED
  BY Zenon, <1>1, <1>2, <1>4, SendEffect

\* Frames that leave and a state that moves on, with every window as it was.
LEMMA CloseStep ==
  ASSUME InductiveInvariant, NEW e \in Ends, Close(e)
  PROVE  InductiveInvariant'
<1>1. /\ TypeOK /\ FramesInOrder /\ WindowsBalance /\ BufferBounded /\ HandleLife
      /\ ReaderWaits /\ NoProtocolError
  BY Zenon DEF InductiveInvariant
<1>2. /\ alive[e] /\ pc[e] = "idle"
      /\ UNCHANGED <<windows, wakers, calls, avail, reg, up, go_away, history>>
  BY Zenon DEF Close, Ready
<1>3. /\ state' \in [Ends -> States] /\ state'[e] # "None"
      /\ \A x \in Ends \ {e} : state'[x] = state[x] /\ closed_event'[x] = closed_event[x]
      /\ closed_event' \in [Ends -> BOOLEAN]
      /\ reg[e] = "in" /\ state'[e] \in Stopped => closed_event'[e]
  <2>1. CASE state' = [state EXCEPT ![e] = "LocalClosing"] /\ UNCHANGED closed_event
    BY Zenon, <1>1, <2>1 DEF TypeOK, States, Stopped
  <2>2. CASE state' = [state EXCEPT ![e] = "Closed"] /\ NotifyClosed(e)
    <3>1. reg[e] = "in" => up[e]
      BY Zenon, <1>1 DEF HandleLife
    <3> QED
      BY Zenon, <1>1, <2>2, <3>1 DEF TypeOK, States, NotifyClosed
  <2> QED
    BY Zenon, <2>1, <2>2 DEF Close
<1>4. /\ path' \in [Ends -> Seq(Frame)]
      /\ \A x \in Ends : Len(path[x]) <= Len(path'[x])
      /\ FramesInOrder'
  <2>1. CASE Send(e, UpdateFrame(e, {"fin"}, 0))
    <3>1. {"fin"} \in SUBSET Flag
      BY Zenon DEF Flag
    <3> QED
      BY Zenon, <1>1, <1>2, <2>1, <3>1, ControlFrameEffect
  <2>2. CASE UNCHANGED path
    BY <1>1, <1>2, <2>2, LenProperties DEF FramesInOrder, history, TypeOK
  <2> QED
    BY Zenon, <2>1, <2>2 DEF Close
<1>5. TypeOK'
  <2>1. \A x \in Ends : avail'[x] <= Len(path'[x])
    BY Zenon, <1>1, <1>2, <1>4, AvailStays
  <2> QED
    BY <1>1, <1>2, <1>3, <1>4, <2>1, ZenonT(30) DEF TypeOK, windows, wakers, calls, history
<1>6. NoProtocolError' /\ BufferBounded' /\ WindowsBalance'
  BY Zenon, <1>1, <1>2 DEF NoProtocolError, BufferBounded, WindowsBalance, windows, history
<1>7. HandleLife'
  BY Zenon, <1>1, <1>2, <1>3 DEF HandleLife, windows, calls
<1>8. ReaderWaits'
  BY Zenon, <1>1, <1>2, <1>3 DEF ReaderWaits, windows, wakers, calls
<1> QED
  BY Zenon, <1>4, <1>5, <1>6, <1>7, <1>8 DEF InductiveInvariant

\* Drop: a Rst unless the stream is closed, and the Closed event.
LEMMA DropHandleStep ==
  ASSUME InductiveInvariant, NEW e \in Ends, DropHandle(e)
  PROVE  InductiveInvariant'
<1>1. /\ TypeOK /\ FramesInOrder /\ WindowsBalance /\ BufferBounded /\ HandleLife
      /\ ReaderWaits /\ NoProtocolError
  BY Zenon DEF InductiveInvariant
<1>2. /\ alive[e] /\ pc[e] = "idle" /\ alive' = [alive EXCEPT ![e] = FALSE]
      /\ blocked' = [blocked EXCEPT ![e] = {}]
      /\ UNCHANGED <<windows, readable_wake, writeable_wake, recv_task, pc, entry, avail,
                     reg, up, go_away, history>>
  BY Zenon DEF DropHandle, Ready
<1>3. state[e] \in States \ {"None"}
  BY Zenon, <1>1, <1>2 DEF TypeOK, HandleLife
<1>4. /\ state' \in [Ends -> States] /\ \A x \in Ends \ {e} : state'[x] = state[x]
      /\ closed_event' \in [Ends -> BOOLEAN]
      /\ \A x \in Ends \ {e} : closed_event'[x] = closed_event[x]
  <2>1. StateAfterFlags(state[e]) \in States
    BY Zenon, <1>3 DEF StateAfterFlags, States
  <2>2. UNCHANGED state \/ state' = [state EXCEPT ![e] = StateAfterFlags(@)]
    BY Zenon DEF DropHandle
  <2>3. UNCHANGED closed_event \/ NotifyClosed(e)
    BY Zenon DEF DropHandle
  <2>4. state' \in [Ends -> States] /\ \A x \in Ends \ {e} : state'[x] = state[x]
    BY <1>1, <2>1, <2>2, ZenonT(30) DEF TypeOK
  <2>5. /\ closed_event' \in [Ends -> BOOLEAN]
        /\ \A x \in Ends \ {e} : closed_event'[x] = closed_event[x]
    BY <1>1, <2>3, ZenonT(30) DEF TypeOK, NotifyClosed
  <2> QED
    BY Zenon, <2>4, <2>5
<1>5. /\ path' \in [Ends -> Seq(Frame)]
      /\ \A x \in Ends : Len(path[x]) <= Len(path'[x])
      /\ FramesInOrder'
  <2>1. CASE Send(e, UpdateFrame(e, FlagsOf(state[e]) \cup {"rst"}, 0))
    <3>1. FlagsOf(state[e]) \cup {"rst"} \in SUBSET Flag
      BY Zenon DEF Flag, FlagsOf
    <3> QED
      BY Zenon, <1>1, <1>2, <2>1, <3>1, ControlFrameEffect
  <2>2. CASE UNCHANGED path
    BY <1>1, <1>2, <2>2, LenProperties DEF FramesInOrder, history, TypeOK
  <2> QED
    BY Zenon, <2>1, <2>2, SMTT(30) DEF DropHandle
<1>6. TypeOK'
  <2>1. \A x \in Ends : avail'[x] <= Len(path'[x])
    BY Zenon, <1>1, <1>2, <1>5, AvailStays
  <2> QED
    BY <1>1, <1>2, <1>4, <1>5, <2>1, ZenonT(30) DEF TypeOK, windows, history
<1>7. NoProtocolError' /\ BufferBounded' /\ WindowsBalance'
  BY Zenon, <1>1, <1>2 DEF NoProtocolError, BufferBounded, WindowsBalance, windows, history
<1>8. \A x \in Ends : alive'[x] => alive[x] /\ x # e
  BY Zenon, <1>1, <1>2, SMTT(30) DEF TypeOK
<1>9. HandleLife'
  BY SMTT(30), <1>1, <1>2, <1>4, <1>8 DEF HandleLife, windows
<1>10. ReaderWaits'
  <2>1. \A x \in Ends : "reader" \in blocked'[x] => "reader" \in blocked[x] /\ x # e
    BY Zenon, <1>1, <1>2 DEF TypeOK
  <2>2. \A x \in Ends \ {e} : alive'[x] = alive[x]
    BY Zenon, <1>1, <1>2 DEF TypeOK
  <2> QED
    BY <1>1, <1>2, <1>4, <2>1, <2>2 DEF ReaderWaits, windows
<1> QED
  BY Zenon, <1>5, <1>6, <1>7, <1>9, <1>10 DEF InductiveInvariant

(***************************************************************************)
(* The theorems                                                            *)
(***************************************************************************)
\* Nothing has been sent or granted at the start.
LEMMA InitInvariant == Init => InductiveInvariant
<1> SUFFICES ASSUME Init
             PROVE  InductiveInvariant
  BY Zenon
<1> USE DEF Init
<1>1. TypeOK
  <2>1. /\ path \in [Ends -> Seq(Frame)]
        /\ \A e \in Ends : avail[e] <= Len(path[e])
    BY EmptySeq
  <2> QED
    BY Zenon, <2>1, WindowAssumption DEF TypeOK, States, Task, NoTask
<1>2. NoProtocolError
  BY Zenon DEF NoProtocolError
<1>3. BufferBounded
  BY WindowAssumption DEF BufferBounded
<1>4. WindowsBalance
  BY WindowAssumption, PeerFacts DEF WindowsBalance
<1>5. FramesInOrder
  BY EmptySeq DEF FramesInOrder, InOrder
<1>6. HandleLife
  BY Zenon DEF HandleLife
<1>7. ReaderWaits
  BY Zenon DEF ReaderWaits
<1> QED
  BY Zenon, <1>1, <1>2, <1>3, <1>4, <1>5, <1>6, <1>7 DEF InductiveInvariant

\* Every step of either end or of either session keeps the invariant.
LEMMA NextInvariant == InductiveInvariant /\ [Next]_vars => InductiveInvariant'
<1> SUFFICES ASSUME InductiveInvariant, [Next]_vars
             PROVE  InductiveInvariant'
  BY Zenon
<1>1. CASE OpenStream
  BY Zenon, <1>1, OpenStreamStep
<1>2. CASE AcceptStream
  BY Zenon, <1>2, AcceptStreamStep
<1>3. CASE RefuseStream
  BY Zenon, <1>3, RefuseStreamStep
<1>4. ASSUME NEW e \in Ends, SessionStep(e)
      PROVE  InductiveInvariant'
  BY Zenon, <1>4, DeliverStep, DiscardStep, HandleClosedStep, SessionDownStep DEF SessionStep
<1>5. ASSUME NEW e \in Ends, HandleStep(e)
      PROVE  InductiveInvariant'
  <2>1. CASE PollRead(e)
    BY Zenon, <2>1, StartReadingStep DEF PollRead
  <2>2. CASE PollPeek(e)
    BY Zenon, <2>2, StartReadingStep, SMTT(30) DEF PollPeek
  <2> QED
    BY Zenon, <1>5, <2>1, <2>2, PollWriteStep, RecvFrameStep, EndReadStep, EndPeekStep,
       EndWriteStep, CloseStep, DropHandleStep DEF HandleStep
<1>6. CASE UNCHANGED vars
  BY Zenon, <1>6, SMTT(30) DEF vars, windows, wakers, calls, links, history, InductiveInvariant, TypeOK,
     NoProtocolError, BufferBounded, WindowsBalance, FramesInOrder, HandleLife, ReaderWaits
<1> QED
  BY Zenon, <1>1, <1>2, <1>3, <1>4, <1>5, <1>6 DEF Next

\* Every reachable state of the two handles satisfies the inductive invariant.
THEOREM StreamInvariant == Spec => []InductiveInvariant
BY InitInvariant, NextInvariant, PTL DEF Spec

\* The variables of the two StreamHandles keep their types; in particular no
\* window ever becomes negative.
THEOREM StreamTypes == Spec => []TypeOK
<1>1. InductiveInvariant => TypeOK
  BY Zenon DEF InductiveInvariant
<1> QED
  BY <1>1, StreamInvariant, PTL

\* Whatever the two applications do, handle_frame never fails on a frame of the
\* other end: no RecvWindowExceeded, InvalidMsgType or UnexpectedFlag, no GoAway.
THEOREM StreamNoProtocolError == Spec => []NoProtocolError
<1>1. InductiveInvariant => NoProtocolError
  BY Zenon DEF InductiveInvariant
<1> QED
  BY <1>1, StreamInvariant, PTL

\* The bytes in read_buf and the window still granted never exceed
\* max_recv_window, so send_window_update never wraps.
THEOREM StreamBufferBounded == Spec => []BufferBounded
<1>1. InductiveInvariant => BufferBounded
  BY Zenon DEF InductiveInvariant
<1> QED
  BY <1>1, StreamInvariant, PTL

\* A reader that waits has nothing to read and will be woken by whatever comes
\* next, although poll_write drains the same channel without registering.
THEOREM StreamReaderNeverLost == Spec => []ReaderNeverLost
<1>1. InductiveInvariant => ReaderNeverLost
  BY Zenon DEF InductiveInvariant, ReaderWaits, ReaderNeverLost
<1> QED
  BY <1>1, StreamInvariant, PTL

(***************************************************************************)
(* End-of-file: the Fin of one end reaches the other behind all its data   *)
(***************************************************************************)

\* A frame that starts where the frames before it end leaves no gap.
LEMMA NoGapAppend ==
  ASSUME NEW q \in Seq(Frame), NEW t \in Nat, NEW f \in Frame,
         NoGap(q, t), SentBefore(f) = Reaches(q, t)
  PROVE  NoGap(Append(q, f), t) /\ Reaches(Append(q, f), t) = f.sent
<1> DEFINE r == Append(q, f)
<1>1. /\ r \in Seq(Frame) /\ Len(r) = Len(q) + 1 /\ r[Len(q) + 1] = f
      /\ \A i \in 1 .. Len(q) : r[i] = q[i]
  BY AppendProperties
<1>2. Len(q) \in Nat /\ (q = << >> <=> Len(q) = 0)
  BY Zenon, LenProperties, EmptySeq
<1> HIDE DEF r
<1>3. Reaches(r, t) = f.sent
  <2>1. r # << >>
    BY <1>1, <1>2, EmptySeq
  <2> QED
    BY <1>1, <2>1, Zenon DEF Reaches
<1>4. ASSUME NEW i \in 1 .. Len(r)
      PROVE  SentBefore(r[i]) = IF i = 1 THEN t ELSE r[i - 1].sent
  <2>1. CASE i \in 1 .. Len(q)
    <3>1. i = 1 \/ i - 1 \in 1 .. Len(q)
      BY <1>2, <2>1
    <3>2. SentBefore(q[i]) = IF i = 1 THEN t ELSE q[i - 1].sent
      BY Zenon, <2>1 DEF NoGap
    <3> QED
      BY Zenon, <1>1, <2>1, <3>1, <3>2
  <2>2. CASE i = Len(q) + 1
    <3>1. CASE q = << >>
      <4>1. i = 1 /\ Reaches(q, t) = t
        BY <1>2, <2>2, <3>1 DEF Reaches
      <4> QED
        BY Zenon, <4>1, <1>1, <2>2
    <3>2. CASE q # << >>
      <4>1. i # 1 /\ i - 1 = Len(q) /\ Len(q) \in 1 .. Len(q)
        BY <1>2, <2>2, <3>2
      <4>2. r[i - 1] = q[Len(q)] /\ Reaches(q, t) = q[Len(q)].sent
        BY Zenon, <1>1, <3>2, <4>1 DEF Reaches
      <4> QED
        BY Zenon, <4>1, <4>2, <1>1, <2>2
    <3> QED
      BY Zenon, <3>1, <3>2
  <2> QED
    BY <1>1, <1>2, <2>1, <2>2
<1> QED
  BY Zenon, <1>3, <1>4 DEF NoGap, r

\* Losing the last frames leaves no gap in the ones before.
LEMMA NoGapPrefix ==
  ASSUME NEW q \in Seq(Frame), NEW t \in Nat, NEW k \in 0 .. Len(q), NoGap(q, t)
  PROVE  NoGap(SubSeq(q, 1, k), t)
<1>1. /\ Len(SubSeq(q, 1, k)) = k /\ Len(q) \in Nat
      /\ \A i \in 1 .. k : SubSeq(q, 1, k)[i] = q[i]
  <2>1. Len(q) \in Nat
    BY LenProperties
  <2>2. CASE k = 0
    BY <2>1, <2>2, SubSeqEmpty
  <2>3. CASE k # 0
    BY <2>1, <2>3, SubSeqProperties
  <2> QED
    BY Zenon, <2>2, <2>3
<1>2. ASSUME NEW i \in 1 .. k
      PROVE  i \in 1 .. Len(q) /\ (i = 1 \/ i - 1 \in 1 .. k)
  BY <1>1
<1> QED
  BY Zenon, <1>1, <1>2 DEF NoGap

\* The reader that takes the first frame has none of the bytes after it yet.
LEMMA NoGapTail ==
  ASSUME NEW q \in Seq(Frame), NEW t \in Nat, q # << >>, NoGap(q, t)
  PROVE  /\ SentBefore(Head(q)) = t
         /\ NoGap(Tail(q), Head(q).sent)
         /\ Reaches(Tail(q), Head(q).sent) = Reaches(q, t)
<1> DEFINE r == Tail(q)  f == Head(q)
<1>1. /\ f = q[1] /\ r \in Seq(Frame) /\ Len(r) = Len(q) - 1
      /\ \A i \in 1 .. Len(r) : r[i] = q[i + 1]
  BY HeadTailProperties
<1>2. Len(q) \in Nat /\ Len(q) # 0 /\ Len(r) \in Nat /\ (r = << >> <=> Len(r) = 0)
  BY ZenonT(30), LenProperties, EmptySeq, <1>1
<1> HIDE DEF r, f
<1>3. SentBefore(f) = t
  <2>1. 1 \in 1 .. Len(q)
    BY <1>2
  <2> QED
    BY Zenon, <2>1, <1>1 DEF NoGap
<1>4. ASSUME NEW i \in 1 .. Len(r)
      PROVE  SentBefore(r[i]) = IF i = 1 THEN f.sent ELSE r[i - 1].sent
  <2>1. i + 1 \in 1 .. Len(q) /\ i + 1 # 1 /\ (i + 1) - 1 = i
        /\ (i = 1 \/ (i - 1 \in 1 .. Len(r) /\ (i - 1) + 1 = i))
    BY <1>1, <1>2
  <2>2. SentBefore(q[i + 1]) = q[i].sent
    BY Zenon, <2>1 DEF NoGap
  <2>3. i = 1 \/ r[i - 1] = q[i]
    BY <2>1, <1>1
  <2> QED
    BY Zenon, <1>1, <2>2, <2>3
<1>5. Reaches(r, f.sent) = Reaches(q, t)
  <2>1. CASE r = << >>
    <3>1. Len(q) = 1
      BY <1>1, <1>2, <2>1
    <3> QED
      BY Zenon, <2>1, <3>1, <1>1 DEF Reaches
  <2>2. CASE r # << >>
    <3>1. Len(r) \in 1 .. Len(r) /\ Len(r) + 1 = Len(q)
      BY <1>1, <1>2, <2>2
    <3> QED
      BY Zenon, <2>2, <3>1, <1>1 DEF Reaches
  <2> QED
    BY Zenon, <2>1, <2>2
<1> QED
  BY Zenon, <1>3, <1>4, <1>5 DEF NoGap, r, f

\* The end sends no frame, or one that carries its totals.
SendsAtMostOne(e) ==
  \/ /\ path'[Peer(e)] = path[Peer(e)]
     /\ up[e] /\ up[Peer(e)] => written'[e] = written[e]
  \/ \E f \in Frame :
       /\ path'[Peer(e)] = Append(path[Peer(e)], f)
       /\ SentBefore(f) = written[e] /\ f.sent = written'[e]
       /\ up[e] /\ up[Peer(e)]
       /\ "fin" \in f.flags => Finished(e)'

\* What a call on end e's handle, or a step of its session, may do to the facts
\* of EofInvariant, when it takes no frame and loses none: it sends at most one
\* frame, with the totals of its sender, and a Fin only when it is finished.
Turn(e) ==
  /\ UNCHANGED <<up, taken>>
  /\ \A x \in Ends : Reads(x)' => Reads(x)
  /\ \A x \in Ends \ {e} : state'[x] = state[x] /\ written'[x] = written[x]
  /\ path'[e] = path[e]
  /\ state'[e] = "RemoteClosing" /\ up[e] => state[e] = "RemoteClosing"
  /\ Finished(e) => Finished(e)' /\ written'[e] = written[e]
  /\ SendsAtMostOne(e)

\* Such a step keeps the Fin of either end behind all of its data.
LEMMA TurnKeeps ==
  ASSUME InductiveInvariant, EofInvariant, NEW e \in Ends, Turn(e), SessionKnows'
  PROVE  EofInvariant'
<1> DEFINE p == Peer(e)
<1>1. p \in Ends /\ p # e /\ Peer(p) = e /\ Ends = {e, p}
  BY Zenon DEF Ends, Peer
<1>2. /\ path \in [Ends -> Seq(Frame)] /\ taken \in [Ends -> Nat]
      /\ NothingSkipped /\ FinIsLast /\ RemoteClosed
  BY Zenon DEF InductiveInvariant, TypeOK, EofInvariant
<1>3. /\ up' = up /\ taken' = taken
      /\ \A x \in Ends : Reads(x)' => Reads(x)
      /\ state'[p] = state[p] /\ written'[p] = written[p] /\ path'[e] = path[e]
      /\ state'[e] = "RemoteClosing" /\ up[e] => state[e] = "RemoteClosing"
      /\ Finished(e) => Finished(e)' /\ written'[e] = written[e]
  BY Zenon, <1>1 DEF Turn
<1>4. Finished(p)' <=> Finished(p)
  BY Zenon, <1>3 DEF Finished
<1>5. \/ /\ path'[p] = path[p]
         /\ up[e] /\ up[p] => written'[e] = written[e]
      \/ \E f \in Frame :
          /\ path'[p] = Append(path[p], f)
          /\ SentBefore(f) = written[e] /\ f.sent = written'[e]
          /\ up[e] /\ up[p]
          /\ "fin" \in f.flags => Finished(e)'
  BY Zenon DEF Turn, SendsAtMostOne
<1> HIDE DEF p
<1>6. RemoteClosed'
  <2>1. state'[e] = "RemoteClosing" /\ up'[e] => taken'[e] = written'[p] /\ Finished(p)'
    BY Zenon, <1>1, <1>2, <1>3, <1>4 DEF RemoteClosed, p
  <2>2. state'[p] = "RemoteClosing" /\ up'[p] => taken'[p] = written'[e] /\ Finished(e)'
    BY Zenon, <1>1, <1>2, <1>3 DEF RemoteClosed
  <2> QED
    BY Zenon, <1>1, <2>1, <2>2 DEF RemoteClosed, p
<1>7. Reads(e)' =>
        /\ NoGap(path'[e], taken'[e])
        /\ up'[e] /\ up'[p] => Reaches(path'[e], taken'[e]) = written'[p]
  BY Zenon, <1>1, <1>2, <1>3 DEF NothingSkipped, p
<1>8. \A i \in 1 .. Len(path'[e]) :
        "fin" \in path'[e][i].flags => path'[e][i].sent = written'[p] /\ Finished(p)'
  BY Zenon, <1>1, <1>2, <1>3, <1>4 DEF FinIsLast, p
<1>9. /\ Reads(p) => /\ NoGap(path[p], taken[p])
                     /\ up[e] /\ up[p] => Reaches(path[p], taken[p]) = written[e]
      /\ \A i \in 1 .. Len(path[p]) :
           "fin" \in path[p][i].flags => path[p][i].sent = written[e] /\ Finished(e)
  BY Zenon, <1>1, <1>2 DEF NothingSkipped, FinIsLast
<1>10. /\ Reads(p)' => /\ NoGap(path'[p], taken'[p])
                       /\ up'[e] /\ up'[p] => Reaches(path'[p], taken'[p]) = written'[e]
       /\ \A i \in 1 .. Len(path'[p]) :
            "fin" \in path'[p][i].flags => path'[p][i].sent = written'[e] /\ Finished(e)'
  <2>1. CASE path'[p] = path[p] /\ (up[e] /\ up[p] => written'[e] = written[e])
    BY Zenon, <2>1, <1>1, <1>3, <1>9
  <2>2. ASSUME NEW f \in Frame, path'[p] = Append(path[p], f),
               SentBefore(f) = written[e], f.sent = written'[e], up[e], up[p],
               "fin" \in f.flags => Finished(e)'
        PROVE  <1>10!1 /\ <1>10!2
    <3>1. path[p] \in Seq(Frame) /\ taken[p] \in Nat
      BY Zenon, <1>1, <1>2
    <3>2. /\ Len(path'[p]) = Len(path[p]) + 1 /\ path'[p][Len(path[p]) + 1] = f
          /\ \A i \in 1 .. Len(path[p]) : path'[p][i] = path[p][i]
      BY <2>2, <3>1, AppendProperties
    <3>3. Reads(p)' => /\ NoGap(path'[p], taken'[p])
                       /\ up'[e] /\ up'[p] => Reaches(path'[p], taken'[p]) = written'[e]
      BY Zenon, <1>1, <1>3, <1>9, <2>2, <3>1, NoGapAppend
    <3>4. ASSUME NEW i \in 1 .. Len(path'[p]), "fin" \in path'[p][i].flags
          PROVE  path'[p][i].sent = written'[e] /\ Finished(e)'
      <4>1. i \in 1 .. Len(path[p]) \/ i = Len(path[p]) + 1
        <5>1. Len(path[p]) \in Nat
          BY Zenon, <3>1, LenProperties
        <5> QED
          BY <3>2, <5>1
      <4> QED
        BY Zenon, <4>1, <3>2, <3>4, <1>9, <1>3, <2>2
    <3> QED
      BY Zenon, <3>3, <3>4
  <2> QED
    BY Zenon, <1>5, <2>1, <2>2
<1>11. NothingSkipped'
  BY Zenon, <1>1, <1>7, <1>10 DEF NothingSkipped, p
<1>12. FinIsLast'
  BY Zenon, <1>1, <1>8, <1>10 DEF FinIsLast, p
<1> QED
  BY Zenon, <1>6, <1>11, <1>12 DEF EofInvariant

\* Frames that a session drops, or takes with it, may end a stream early but
\* never let a Fin overtake data.
LEMMA LossKeeps ==
  ASSUME InductiveInvariant, EofInvariant, SessionKnows',
         UNCHANGED <<state, taken, written>>,
         \A x \in Ends : up'[x] => up[x],
         \A x \in Ends : \E k \in 0 .. Len(path[x]) : path'[x] = SubSeq(path[x], 1, k),
         \A x \in Ends : Reads(x)' => Reads(x) /\ (up'[x] /\ up'[Peer(x)] => path'[x] = path[x])
  PROVE  EofInvariant'
<1>1. /\ path \in [Ends -> Seq(Frame)] /\ taken \in [Ends -> Nat]
      /\ NothingSkipped /\ FinIsLast /\ RemoteClosed
      /\ \A x \in Ends : Peer(x) \in Ends
  BY Zenon, PeerFacts DEF InductiveInvariant, TypeOK, EofInvariant
<1>2. \A x \in Ends : Finished(x) => Finished(x)'
  BY Zenon DEF Finished
<1>3. RemoteClosed'
  BY Zenon, <1>1, <1>2 DEF RemoteClosed
<1>4. ASSUME NEW x \in Ends
      PROVE  /\ Reads(x)' =>
                  /\ NoGap(path'[x], taken'[x])
                  /\ up'[x] /\ up'[Peer(x)] => Reaches(path'[x], taken'[x]) = written'[Peer(x)]
             /\ \A i \in 1 .. Len(path'[x]) :
                  "fin" \in path'[x][i].flags =>
                    path'[x][i].sent = written'[Peer(x)] /\ Finished(Peer(x))'
  <2>1. PICK k \in 0 .. Len(path[x]) : path'[x] = SubSeq(path[x], 1, k)
    BY Zenon
  <2>2. path[x] \in Seq(Frame) /\ taken[x] \in Nat /\ Len(path[x]) \in Nat
    BY Zenon, <1>1, LenProperties
  <2>3. Reads(x)' => NoGap(path'[x], taken'[x])
    BY Zenon, <1>1, <2>1, <2>2, NoGapPrefix DEF NothingSkipped
  <2>4. Reads(x)' /\ up'[x] /\ up'[Peer(x)] => Reaches(path'[x], taken'[x]) = written'[Peer(x)]
    BY Zenon, <1>1 DEF NothingSkipped
  <2>5. ASSUME NEW i \in 1 .. Len(path'[x])
        PROVE  i \in 1 .. Len(path[x]) /\ path'[x][i] = path[x][i]
    <3>1. CASE k = 0
      BY SMTT(30), <2>1, <2>2, <3>1, SubSeqEmpty
    <3>2. CASE k # 0
      BY <2>1, <2>2, <3>2, SubSeqProperties
    <3> QED
      BY Zenon, <3>1, <3>2
  <2> QED
    BY Zenon, <1>1, <1>2, <2>3, <2>4, <2>5 DEF FinIsLast
<1> QED
  BY Zenon, <1>3, <1>4 DEF EofInvariant, NothingSkipped, FinIsLast

\* recv_frames or try_recv_frames takes a frame: the Fin it may be comes after
\* every byte.
LEMMA RecvFrameEof ==
  ASSUME InductiveInvariant, EofInvariant, NEW e \in Ends, RecvFrame(e)
  PROVE  EofInvariant' /\ (state'[e] \in Ended => taken'[e] = written'[Peer(e)])
<1> DEFINE p == Peer(e)  q == path[e]  r == Tail(q)
<1>1. p \in Ends /\ p # e /\ Peer(p) = e /\ Ends = {e, p}
  BY Zenon DEF Ends, Peer
<1>2. pc[e] # "idle" /\ state[e] \notin Stopped /\ avail[e] > 0
  BY Zenon DEF RecvFrame
<1>3. q # << >> /\ Head(q) \in Frame /\ ~FrameError(e, Head(q))
  BY Zenon, <1>2, HeadIsWelcome
<1>4. /\ path \in [Ends -> Seq(Frame)] /\ taken \in [Ends -> Nat] /\ state \in [Ends -> States]
      /\ q \in Seq(Frame) /\ taken[e] \in Nat
      /\ NothingSkipped /\ FinIsLast /\ RemoteClosed /\ SessionKnows
      /\ HandleLife
  BY Zenon DEF InductiveInvariant, TypeOK, EofInvariant
<1>5. /\ path' = [path EXCEPT ![e] = r]
      /\ state' = [state EXCEPT ![e] = ProcessFlags(@, Head(q).flags)]
      /\ HandleUpdate(e, Head(q)) \/ HandleData(e, Head(q))
      /\ UNCHANGED <<alive, reg, closed_event, up, written>>
  BY Zenon, <1>3 DEF RecvFrame, TakeFrame
<1>6. PICK f \in Frame : f = Head(q)
  BY Zenon, <1>3
<1> HIDE DEF q, r
<1>7. /\ path'[e] = r /\ path'[p] = path[p]
      /\ state'[e] = ProcessFlags(state[e], f.flags) /\ state'[p] = state[p]
      /\ taken'[p] = taken[p]
      /\ taken'[e] = IF f.ty = "data" THEN taken[e] + f.len ELSE taken[e]
      /\ f.ty \in {"data", "update"}
  <2>1. /\ path'[e] = r /\ path'[p] = path[p]
        /\ state'[e] = ProcessFlags(state[e], f.flags) /\ state'[p] = state[p]
    BY Zenon, <1>1, <1>4, <1>5, <1>6
  <2>2. CASE HandleUpdate(e, f)
    BY Zenon, <2>1, <2>2 DEF HandleUpdate
  <2>3. CASE HandleData(e, f)
    BY Zenon, <2>1, <2>3, <1>1, <1>4 DEF HandleData
  <2> QED
    BY Zenon, <2>2, <2>3, <1>5, <1>6
<1>8. Reads(e)
  <2>1. alive[e] /\ reg[e] # "new" /\ reg[e] \in {"new", "in", "out"}
    BY Zenon, <1>2 DEF InductiveInvariant, TypeOK, HandleLife
  <2>2. ~(up[e] /\ reg[e] = "out")
    BY Zenon, <1>2, <1>4, <2>1 DEF SessionKnows, Stopped
  <2> QED
    BY Zenon, <1>2, <2>1, <2>2 DEF Reads, Stopped
<1>9. /\ f = q[1] /\ Len(r) = Len(q) - 1 /\ 1 \in 1 .. Len(q)
      /\ \A i \in 1 .. Len(r) : i + 1 \in 1 .. Len(q) /\ r[i] = q[i + 1]
  <2>1. f = q[1] /\ r \in Seq(Frame) /\ Len(r) = Len(q) - 1
        /\ \A i \in 1 .. Len(r) : r[i] = q[i + 1]
    BY <1>3, <1>4, <1>6, HeadTailProperties DEF r
  <2>2. Len(q) \in Nat /\ Len(r) \in Nat
    BY Zenon, <1>4, <2>1, LenProperties
  <2> QED
    BY <2>1, <2>2
<1>10. /\ taken'[e] = f.sent /\ NoGap(r, taken'[e])
       /\ Reaches(r, taken'[e]) = Reaches(q, taken[e])
  <2>2. NoGap(q, taken[e])
    BY Zenon, <1>4, <1>8 DEF NothingSkipped, q
  <2>3. SentBefore(f) = taken[e] /\ NoGap(r, f.sent) /\ Reaches(r, f.sent) = Reaches(q, taken[e])
    BY Zenon, <1>3, <1>4, <1>6, <2>2, NoGapTail DEF r
  <2>4. taken'[e] = f.sent
    <3>1. f.len \in Nat /\ f.sent \in Nat
      BY Zenon, FrameTotals
    <3> QED
      BY <1>4, <1>7, <2>3, <3>1 DEF SentBefore
  <2> QED
    BY Zenon, <2>3, <2>4
<1>11. /\ "fin" \in f.flags => f.sent = written[p] /\ Finished(p)
       /\ \A i \in 1 .. Len(r) :
            "fin" \in r[i].flags => r[i].sent = written[p] /\ Finished(p)
  <2>1. \A i \in 1 .. Len(q) :
          "fin" \in q[i].flags => q[i].sent = written[p] /\ Finished(p)
    BY Zenon, <1>4 DEF FinIsLast, q
  <2>2. ASSUME NEW i \in 1 .. Len(r), "fin" \in r[i].flags
        PROVE  r[i].sent = written[p] /\ Finished(p)
    <3>1. PICK j \in 1 .. Len(q) : r[i] = q[j]
      BY SMT, <1>9
    <3> QED
      BY Zenon, <2>1, <2>2, <3>1
  <2> QED
    BY Zenon, <1>9, <2>1, <2>2
<1>12. /\ state'[e] \in Ended => "fin" \in f.flags
       /\ Finished(e) => Finished(e)'
       /\ state'[e] = "Closed" \/ state[e] # "Closed"
  <2>1. state'[e] \in Ended => "fin" \in f.flags
    BY Zenon, <1>2, <1>7 DEF ProcessFlags, Stopped, Ended
  <2>2. state[e] = "LocalClosing" => state'[e] \in {"LocalClosing", "Closed", "Reset"}
    BY <1>7 DEF ProcessFlags, Opening
  <2>3. state[e] \notin {"Closed", "Reset"}
    BY Zenon, <1>2 DEF Stopped
  <2> QED
    BY Zenon, <2>1, <2>2, <2>3, <1>5 DEF Finished
<1>13. Finished(p)' <=> Finished(p)
  BY Zenon, <1>5, <1>7 DEF Finished
<1>14. RemoteClosed'
  <2>1. state'[e] = "RemoteClosing" /\ up'[e] => taken'[e] = written'[p] /\ Finished(p)'
    BY Zenon, <1>5, <1>10, <1>11, <1>12, <1>13 DEF Ended
  <2>2. state'[p] = "RemoteClosing" /\ up'[p] => taken'[p] = written'[e] /\ Finished(e)'
    BY Zenon, <1>1, <1>4, <1>5, <1>7, <1>12 DEF RemoteClosed
  <2> QED
    BY Zenon, <1>1, <2>1, <2>2 DEF RemoteClosed
<1>15. NothingSkipped'
  <2>1. Reads(e)' => /\ NoGap(path'[e], taken'[e])
                     /\ up'[e] /\ up'[p] => Reaches(path'[e], taken'[e]) = written'[p]
    <3>2. up[e] /\ up[p] => Reaches(q, taken[e]) = written[p]
      BY Zenon, <1>4, <1>8 DEF NothingSkipped, q
    <3> QED
      BY Zenon, <3>2, <1>5, <1>7, <1>10
  <2>2. Reads(p)' <=> Reads(p)
    BY Zenon, <1>5, <1>7 DEF Reads
  <2>3. Reads(p)' => /\ NoGap(path'[p], taken'[p])
                     /\ up'[e] /\ up'[p] => Reaches(path'[p], taken'[p]) = written'[e]
    BY Zenon, <2>2, <1>1, <1>4, <1>5, <1>7 DEF NothingSkipped
  <2> QED
    BY Zenon, <1>1, <2>1, <2>3 DEF NothingSkipped
<1>16. FinIsLast'
  <2>1. \A i \in 1 .. Len(path'[e]) :
          "fin" \in path'[e][i].flags => path'[e][i].sent = written'[p] /\ Finished(p)'
    BY Zenon, <1>5, <1>7, <1>11, <1>13
  <2>2. \A i \in 1 .. Len(path'[p]) :
          "fin" \in path'[p][i].flags => path'[p][i].sent = written'[e] /\ Finished(e)'
    BY Zenon, <1>1, <1>4, <1>5, <1>7, <1>12 DEF FinIsLast
  <2> QED
    BY Zenon, <1>1, <2>1, <2>2 DEF FinIsLast
<1>17. SessionKnows'
  <2>1. \A x \in Ends : state[x] = "Closed" => state'[x] = "Closed"
    BY Zenon, <1>1, <1>7, <1>12
  <2>2. reg[p] = "new" => state'[p] = "None"
    BY Zenon, <1>1, <1>4, <1>7 DEF SessionKnows
  <2>3. reg[e] # "new"
    BY Zenon, <1>2, <1>4 DEF HandleLife
  <2> QED
    BY Zenon, <1>1, <1>4, <1>5, <2>1, <2>2, <2>3 DEF SessionKnows
<1>18. state'[e] \in Ended => taken'[e] = written'[p]
  BY Zenon, <1>5, <1>10, <1>11, <1>12
<1> QED
  BY Zenon, <1>14, <1>15, <1>16, <1>17, <1>18 DEF EofInvariant

\* A call on the handle keeps the invariant when it leaves the session alone.
LEMMA CallKeeps ==
  ASSUME InductiveInvariant, EofInvariant, NEW e \in Ends,
         alive[e], UNCHANGED <<up, taken, reg>>,
         \A x \in Ends \ {e} : /\ state'[x] = state[x] /\ written'[x] = written[x]
                              /\ alive'[x] = alive[x] /\ closed_event'[x] = closed_event[x],
         path'[e] = path[e], alive'[e] => alive[e],
         state'[e] = "RemoteClosing" /\ up[e] => state[e] = "RemoteClosing",
         Finished(e) => Finished(e)' /\ written'[e] = written[e],
         state[e] = "Closed" => state'[e] = "Closed" \/ ~alive'[e],
         closed_event'[e] => closed_event[e] \/ state'[e] = "Closed" \/ ~alive'[e],
         SendsAtMostOne(e)
  PROVE  EofInvariant'
<1>1. \A x \in Ends : (alive'[x] => alive[x])
  BY Zenon
<1>2. \A x \in Ends : state[x] = "Closed" => state'[x] = "Closed" \/ ~alive'[x]
  BY Zenon
<1>3. \A x \in Ends : Reads(x)' => Reads(x)
  BY Zenon, <1>1, <1>2 DEF Reads
<1>4. \A x \in Ends : closed_event'[x] => closed_event[x] \/ state'[x] = "Closed" \/ ~alive'[x]
  BY Zenon
<1>5. SessionKnows'
  <2>1. reg[e] # "new"
    BY Zenon DEF InductiveInvariant, HandleLife
  <2> QED
    BY Zenon, <1>1, <1>2, <1>4, <2>1 DEF EofInvariant, SessionKnows
<1>6. Turn(e)
  BY Zenon, <1>3 DEF Turn
<1> QED
  BY Zenon, <1>5, <1>6, TurnKeeps

\* Sending a frame with the sender's totals, when its totals follow.
LEMMA SendIsOne ==
  ASSUME TypeOK, NEW e \in Ends, NEW f \in Frame, Send(e, f), SentBefore(f) = written[e],
         up[e] => f.sent = written'[e], "fin" \in f.flags => Finished(e)'
  PROVE  path'[e] = path[e] /\ SendsAtMostOne(e)
<1> DEFINE p == Peer(e)
<1>1. p \in Ends /\ p # e /\ path \in [Ends -> Seq(Frame)]
  BY Zenon, PeerFacts DEF TypeOK
<1>2. CASE up[e] /\ up[p]
  <2>1. path' = [path EXCEPT ![p] = Append(@, f)]
    BY Zenon, <1>2 DEF Send
  <2>2. path'[e] = path[e] /\ path'[p] = Append(path[p], f)
    BY Zenon, <1>1, <2>1
  <2> QED
    BY Zenon, <1>2, <2>2 DEF SendsAtMostOne
<1>3. CASE ~(up[e] /\ up[p])
  BY Zenon, <1>3 DEF Send, SendsAtMostOne
<1> QED
  BY Zenon, <1>2, <1>3

\* A window update is one frame without a Fin, or none.
LEMMA WindowUpdateIsOne ==
  ASSUME TypeOK, NEW e \in Ends, NEW st \in States \ {"None"}, NEW b \in Nat,
         recv_window[e] + b <= MaxWindow[e],
         SendWindowUpdate(e, st, b), UNCHANGED <<up, written>>
  PROVE  path'[e] = path[e] /\ SendsAtMostOne(e)
<1>1. Delta(e, b) \in Nat
  <2>1. recv_window[e] \in Nat /\ MaxWindow[e] \in Nat
    BY Zenon, WindowAssumption DEF TypeOK
  <2> QED
    BY <2>1 DEF Delta, Sub32
<1>2. FlagsOf(st) \in SUBSET Flag /\ "fin" \notin FlagsOf(st)
  BY Zenon DEF FlagsOf, Flag
<1>3. PICK f \in Frame : /\ f = UpdateFrame(e, FlagsOf(st), Delta(e, b))
                         /\ f.sent = written[e] /\ SentBefore(f) = written[e]
  BY Zenon, <1>1, <1>2, UpdateFrameTotals
<1>4. f.flags = FlagsOf(st)
  BY Zenon, <1>3 DEF UpdateFrame
<1>5. CASE UNCHANGED path
  BY Zenon, <1>5 DEF SendsAtMostOne
<1>6. CASE Send(e, f)
  BY Zenon, <1>2, <1>3, <1>4, <1>6, SendIsOne
<1> QED
  BY Zenon, <1>3, <1>5, <1>6 DEF SendWindowUpdate

\* While its session exists, a call that ends does not find its channel closed
\* before the stream has stopped.
LEMMA LoopKeepsState ==
  ASSUME InductiveInvariant, EofInvariant, NEW e \in Ends, pc[e] # "idle", up[e]
  PROVE  StateAfterLoop(e) = state[e]
<1>1. alive[e] /\ reg[e] # "new" /\ reg[e] \in {"new", "in", "out"}
  BY Zenon DEF InductiveInvariant, TypeOK, HandleLife
<1>2. reg[e] = "out" => state[e] \in Stopped
  BY Zenon, <1>1 DEF EofInvariant, SessionKnows, Stopped
<1> QED
  BY Zenon, <1>1, <1>2 DEF StateAfterLoop

\* A call that ends without sending a frame.
LEMMA QuietEndEof ==
  ASSUME InductiveInvariant, EofInvariant, NEW e \in Ends, pc[e] # "idle",
         state' = [state EXCEPT ![e] = StateAfterLoop(e)],
         UNCHANGED <<path, alive, reg, closed_event, up, written, taken>>
  PROVE  EofInvariant'
<1>1. /\ state'[e] = StateAfterLoop(e)
      /\ \A x \in Ends \ {e} : state'[x] = state[x]
  BY Zenon DEF InductiveInvariant, TypeOK
<1>2. up[e] => state'[e] = state[e]
  BY Zenon, <1>1, LoopKeepsState
<1>3. state[e] = "Closed" => state'[e] = "Closed"
  BY Zenon, <1>1 DEF StateAfterLoop, Stopped
<1>4. Finished(e) => Finished(e)'
  BY Zenon, <1>2 DEF Finished
<1>5. SendsAtMostOne(e)
  BY Zenon DEF SendsAtMostOne
<1>6. alive[e]
  BY Zenon DEF InductiveInvariant, HandleLife
<1> QED
  BY Zenon, <1>6, <1>1, <1>2, <1>3, <1>4, <1>5, CallKeeps

\* poll_peek and a poll_read that has nothing to give end quietly.
LEMMA EndPeekEof ==
  ASSUME InductiveInvariant, EofInvariant, NEW e \in Ends,
         EndPeek(e) \/ EndWithoutData(e, "read")
  PROVE  EofInvariant'
<1>1. /\ pc[e] # "idle" /\ state' = [state EXCEPT ![e] = StateAfterLoop(e)]
      /\ UNCHANGED <<path, alive, reg, closed_event, up, written, taken>>
  BY Zenon DEF EndPeek, EndWithoutData, EndReading
<1> QED
  BY Zenon, <1>1, QuietEndEof

\* poll_read gives bytes away and may grant credit for them.
LEMMA EndReadEof ==
  ASSUME InductiveInvariant, EofInvariant, NEW e \in Ends, EndRead(e)
  PROVE  EofInvariant'
<1>1. CASE EndWithoutData(e, "read")
  BY Zenon, <1>1, EndPeekEof
<1>2. ASSUME EndReading(e, "read"), NEW r \in ReadSizes,
             IF StateAfterLoop(e) \in Stopped
             THEN /\ state' = [state EXCEPT ![e] = StateAfterLoop(e)]
                  /\ UNCHANGED <<recv_window, granted, path>>
             ELSE SendWindowUpdate(e, state[e], buf[e] - Min2(r, buf[e]))
      PROVE  EofInvariant'
  <2>1. /\ pc[e] # "idle"
        /\ UNCHANGED <<alive, reg, closed_event, up, written, taken>>
    BY Zenon, <1>2 DEF EndReading
  <2>2. CASE StateAfterLoop(e) \in Stopped
    BY Zenon, <1>2, <2>1, <2>2, QuietEndEof
  <2>3. CASE StateAfterLoop(e) \notin Stopped
    <3>1. state[e] \in States \ {"None"}
      BY Zenon, <2>1, StateAfterLoopType
    <3>2. PICK b \in Nat : b = buf[e] - Min2(r, buf[e]) /\ recv_window[e] + b <= MaxWindow[e]
      <4>1. /\ recv_window[e] \in Nat /\ MaxWindow[e] \in Nat /\ buf[e] \in Nat /\ r \in Nat
            /\ recv_window[e] + buf[e] <= MaxWindow[e]
        BY Zenon, WindowAssumption, ApplicationAssumption
           DEF InductiveInvariant, TypeOK, BufferBounded
      <4> QED
        BY <4>1 DEF Min2
    <3>3. SendWindowUpdate(e, state[e], b)
      BY Zenon, <1>2, <2>3, <3>2
    <3>4. path'[e] = path[e] /\ SendsAtMostOne(e)
      BY Zenon, <2>1, <3>1, <3>2, <3>3, WindowUpdateIsOne DEF InductiveInvariant
    <3>5. /\ state'[e] = StateAfterFlags(state[e])
          /\ \A x \in Ends \ {e} : state'[x] = state[x]
      BY Zenon, <3>3 DEF SendWindowUpdate, InductiveInvariant, TypeOK
    <3>6. /\ state'[e] = "RemoteClosing" => state[e] = "RemoteClosing"
          /\ state[e] \in {"LocalClosing", "Closed", "Reset"} => state'[e] = state[e]
      BY Zenon, <3>5 DEF StateAfterFlags
    <3>7. Finished(e) => Finished(e)'
      BY Zenon, <3>6, <2>1 DEF Finished
    <3>8. alive[e]
      BY Zenon, <2>1 DEF InductiveInvariant, HandleLife
    <3> QED
      BY Zenon, <2>1, <3>8, <3>4, <3>5, <3>6, <3>7, CallKeeps
  <2> QED
    BY Zenon, <2>2, <2>3
<1> QED
  BY Zenon, <1>1, <1>2 DEF EndRead

\* poll_write sends data only in a state it can still leave by a Fin.
LEMMA EndWriteEof ==
  ASSUME InductiveInvariant, EofInvariant, NEW e \in Ends, EndWrite(e)
  PROVE  EofInvariant'
<1> DEFINE st == StateAfterLoop(e)
<1>1. /\ pc[e] # "idle"
      /\ UNCHANGED <<alive, reg, closed_event, up, taken>>
  BY Zenon DEF EndWrite
<1>2. CASE state' = [state EXCEPT ![e] = st] /\ UNCHANGED <<path, written>>
  BY Zenon, <1>1, <1>2, QuietEndEof
<1>3. ASSUME st \notin {"Reset", "LocalClosing", "Closed"}, NEW m \in WriteSizes,
             SendData(e, st, Min2(send_window[e], m))
      PROVE  EofInvariant'
  <2>1. /\ TypeOK /\ written \in [Ends -> Nat] /\ state \in [Ends -> States]
        /\ send_window[e] \in Nat /\ m \in Nat /\ written[e] \in Nat
    BY Zenon, ApplicationAssumption DEF InductiveInvariant, TypeOK
  <2>2. PICK n \in Nat : n = Min2(send_window[e], m)
    BY <2>1 DEF Min2
  <2>3. FlagsOf(st) \in SUBSET Flag /\ "fin" \notin FlagsOf(st)
    BY Zenon DEF FlagsOf, Flag
  <2>4. PICK f \in Frame : /\ f = DataFrame(e, FlagsOf(st), n)
                           /\ f.sent = written[e] + n /\ SentBefore(f) = written[e]
    BY Zenon, <2>1, <2>3, DataFrameTotals
  <2>5. f.flags = FlagsOf(st)
    BY Zenon, <2>4 DEF DataFrame
  <2>6. /\ Send(e, f) /\ state' = [state EXCEPT ![e] = StateAfterFlags(st)]
        /\ written' = IF up[e] THEN [written EXCEPT ![e] = @ + n] ELSE written
    BY Zenon, <1>3, <2>2, <2>4 DEF SendData
  <2>7. /\ state'[e] = StateAfterFlags(st)
        /\ \A x \in Ends \ {e} : state'[x] = state[x] /\ written'[x] = written[x]
        /\ up[e] => written'[e] = written[e] + n
        /\ ~up[e] => written'[e] = written[e]
    BY Zenon, <2>1, <2>6
  <2>8. path'[e] = path[e] /\ SendsAtMostOne(e)
    BY Zenon, <2>1, <2>3, <2>4, <2>5, <2>6, <2>7, SendIsOne
  <2>9. up[e] => st = state[e]
    BY Zenon, <1>1, LoopKeepsState
  <2>10. Finished(e) => ~up[e]
    BY Zenon, <1>3, <2>9 DEF Finished
  <2>11. state[e] # "Closed"
    BY Zenon, <1>3 DEF StateAfterLoop, Stopped
  <2>12. state'[e] = "RemoteClosing" /\ up[e] => state[e] = "RemoteClosing"
    BY Zenon, <2>7, <2>9 DEF StateAfterFlags
  <2>13. Finished(e) => Finished(e)' /\ written'[e] = written[e]
    BY Zenon, <1>1, <2>7, <2>10 DEF Finished
  <2>14. alive[e]
    BY Zenon, <1>1 DEF InductiveInvariant, HandleLife
  <2> QED
    BY Zenon, <1>1, <2>14, <2>7, <2>8, <2>11, <2>12, <2>13, CallKeeps
<1> QED
  BY Zenon, <1>2, <1>3 DEF EndWrite

\* poll_shutdown sends the Fin once, and the handle is finished with it.
LEMMA CloseEof ==
  ASSUME InductiveInvariant, EofInvariant, NEW e \in Ends, Close(e)
  PROVE  EofInvariant'
<1>1. /\ TypeOK /\ alive[e] /\ UNCHANGED <<alive, reg, up, taken, written>>
      /\ state \in [Ends -> States] /\ closed_event \in [Ends -> BOOLEAN]
  BY Zenon DEF Close, Ready, InductiveInvariant, TypeOK, calls, history
<1>2. /\ state'[e] \in {"LocalClosing", "Closed"}
      /\ state[e] = "Closed" => state'[e] = "Closed"
      /\ \A x \in Ends \ {e} : state'[x] = state[x]
  BY Zenon, <1>1 DEF Close, Opening
<1>3. /\ closed_event'[e] => closed_event[e] \/ state'[e] = "Closed"
      /\ \A x \in Ends \ {e} : closed_event'[x] = closed_event[x]
  BY Zenon, <1>1 DEF Close, NotifyClosed
<1>4. Finished(e)'
  BY Zenon, <1>2 DEF Finished
<1>5. path'[e] = path[e] /\ SendsAtMostOne(e)
  <2>1. {"fin"} \in SUBSET Flag /\ 0 \in Nat
    BY Zenon DEF Flag
  <2>2. PICK f \in Frame : /\ f = UpdateFrame(e, {"fin"}, 0)
                           /\ f.sent = written[e] /\ SentBefore(f) = written[e]
    BY Zenon, <1>1, <2>1, UpdateFrameTotals
  <2>3. CASE UNCHANGED path
    BY Zenon, <1>1, <2>3 DEF SendsAtMostOne
  <2>4. CASE Send(e, f)
    BY Zenon, <1>1, <1>4, <2>2, <2>4, SendIsOne
  <2> QED
    BY Zenon, <2>2, <2>3, <2>4 DEF Close
<1> QED
  BY Zenon, <1>1, <1>2, <1>3, <1>4, <1>5, CallKeeps

\* Dropping the handle resets the stream: no Fin is sent.
LEMMA DropHandleEof ==
  ASSUME InductiveInvariant, EofInvariant, NEW e \in Ends, DropHandle(e)
  PROVE  EofInvariant'
<1>1. /\ TypeOK /\ alive[e] /\ UNCHANGED <<reg, up, taken, written>>
      /\ alive' = [alive EXCEPT ![e] = FALSE]
      /\ state \in [Ends -> States] /\ closed_event \in [Ends -> BOOLEAN]
      /\ alive \in [Ends -> BOOLEAN]
  BY Zenon DEF DropHandle, Ready, InductiveInvariant, TypeOK, history
<1>2. ~alive'[e] /\ \A x \in Ends \ {e} : alive'[x] = alive[x]
  BY Zenon, <1>1
<1>3. /\ state'[e] \in {state[e], StateAfterFlags(state[e])}
      /\ \A x \in Ends \ {e} : state'[x] = state[x]
  BY Zenon, <1>1 DEF DropHandle
<1>4. /\ state'[e] = "RemoteClosing" => state[e] = "RemoteClosing"
      /\ state[e] \in {"LocalClosing", "Closed", "Reset"} => state'[e] = state[e]
  BY Zenon, <1>3 DEF StateAfterFlags
<1>5. \A x \in Ends \ {e} : closed_event'[x] = closed_event[x]
  BY Zenon, <1>1 DEF DropHandle, NotifyClosed
<1>6. Finished(e) => Finished(e)'
  BY Zenon, <1>1, <1>4 DEF Finished
<1>7. path'[e] = path[e] /\ SendsAtMostOne(e)
  <2> DEFINE flags == FlagsOf(state[e]) \cup {"rst"}
  <2>1. flags \in SUBSET Flag /\ "fin" \notin flags /\ 0 \in Nat
    BY DEF Flag, FlagsOf
  <2>2. PICK f \in Frame : /\ f = UpdateFrame(e, flags, 0)
                           /\ f.sent = written[e] /\ SentBefore(f) = written[e]
    BY Zenon, <1>1, <2>1, UpdateFrameTotals
  <2>3. f.flags = flags
    BY Zenon, <2>2 DEF UpdateFrame
  <2>4. CASE UNCHANGED path
    BY Zenon, <1>1, <2>4 DEF SendsAtMostOne
  <2>5. CASE Send(e, f)
    BY Zenon, <1>1, <2>1, <2>2, <2>3, <2>5, SendIsOne
  <2> QED
    BY Zenon, <2>2, <2>4, <2>5 DEF DropHandle
<1> QED
  BY Zenon, <1>1, <1>2, <1>3, <1>4, <1>5, <1>6, <1>7, CallKeeps

\* Steps that concern neither the state of the stream nor its frames: the start
\* of a call, and a frame entering the handle's channel.
LEMMA QuietStepEof ==
  ASSUME EofInvariant,
         UNCHANGED <<state, path, alive, reg, closed_event, up, written, taken>>
  PROVE  EofInvariant'
BY Zenon DEF EofInvariant, NothingSkipped, FinIsLast, RemoteClosed, SessionKnows,
             Reads, Finished

\* The session forgets a stream whose handle is closed or gone.
LEMMA HandleClosedEof ==
  ASSUME InductiveInvariant, EofInvariant, NEW e \in Ends, HandleClosed(e)
  PROVE  EofInvariant'
<1>1. /\ UNCHANGED <<state, path, alive, up, written, taken>>
      /\ up[e] /\ reg' = [reg EXCEPT ![e] = "out"] /\ closed_event[e]
      /\ closed_event' = [closed_event EXCEPT ![e] = FALSE]
      /\ reg \in [Ends -> {"new", "in", "out"}] /\ closed_event \in [Ends -> BOOLEAN]
  BY Zenon DEF HandleClosed, InductiveInvariant, TypeOK, calls, history
<1>2. /\ reg'[e] = "out" /\ ~closed_event'[e]
      /\ \A x \in Ends \ {e} : reg'[x] = reg[x] /\ closed_event'[x] = closed_event[x]
  BY Zenon, <1>1
<1>3. SessionKnows'
  BY Zenon, <1>1, <1>2 DEF EofInvariant, SessionKnows
<1>4. \A x \in Ends : Reads(x)' => Reads(x)
  BY Zenon, <1>1, <1>2 DEF Reads
<1>5. Finished(e) => Finished(e)'
  BY Zenon, <1>1 DEF Finished
<1>6. Turn(e)
  BY Zenon, <1>1, <1>4, <1>5 DEF Turn, SendsAtMostOne
<1> QED
  BY Zenon, <1>3, <1>6, TurnKeeps

\* The session finds the handle gone and drops the frames it still gets.
LEMMA DiscardEof ==
  ASSUME InductiveInvariant, EofInvariant, NEW e \in Ends, Discard(e)
  PROVE  EofInvariant'
<1>1. /\ UNCHANGED <<state, alive, closed_event, up, written, taken>>
      /\ up[e] /\ reg' = [reg EXCEPT ![e] = "out"] /\ (reg[e] = "out" \/ ~alive[e])
      /\ path' = [path EXCEPT ![e] = SubSeq(@, 1, avail[e])]
      /\ reg \in [Ends -> {"new", "in", "out"}] /\ path \in [Ends -> Seq(Frame)]
      /\ avail[e] \in Nat /\ avail[e] <= Len(path[e])
  BY Zenon DEF Discard, InductiveInvariant, TypeOK, calls, history
<1>2. /\ reg'[e] = "out" /\ path'[e] = SubSeq(path[e], 1, avail[e])
      /\ \A x \in Ends \ {e} : reg'[x] = reg[x] /\ path'[x] = path[x]
  BY SMT, <1>1
<1>3. SessionKnows'
  BY Zenon, <1>1, <1>2 DEF EofInvariant, SessionKnows
<1>4. \A x \in Ends : Reads(x)' => Reads(x) /\ path'[x] = path[x]
  BY Zenon, <1>1, <1>2 DEF Reads
<1>5. ASSUME NEW x \in Ends
      PROVE  \E k \in 0 .. Len(path[x]) : path'[x] = SubSeq(path[x], 1, k)
  <2>1. Len(path[x]) \in Nat /\ path[x] \in Seq(Frame)
    BY Zenon, <1>1, LenProperties
  <2>2. CASE x = e
    <3>1. avail[e] \in 0 .. Len(path[x])
      BY <1>1, <2>1, <2>2
    <3> QED
      BY Zenon, <3>1, <1>2, <2>2
  <2>3. CASE x # e
    <3>1. Len(path[x]) \in 0 .. Len(path[x]) /\ SubSeq(path[x], 1, Len(path[x])) = path[x]
      BY <2>1, SubSeqFull
    <3> QED
      BY Zenon, <3>1, <1>2, <2>3
  <2> QED
    BY Zenon, <2>2, <2>3
<1> QED
  BY Zenon, <1>1, <1>3, <1>4, <1>5, LossKeeps

\* A session that ends takes with it the last frames, never ones before others.
LEMMA SessionDownEof ==
  ASSUME InductiveInvariant, EofInvariant, NEW e \in Ends, SessionDown(e)
  PROVE  EofInvariant'
<1> DEFINE p == Peer(e)
<1>1. p \in Ends /\ p # e /\ Peer(p) = e /\ Ends = {e, p}
  BY Zenon DEF Ends, Peer
<1>2. /\ UNCHANGED <<state, alive, written, taken>>
      /\ up' = [up EXCEPT ![e] = FALSE] /\ reg' = [reg EXCEPT ![e] = "out"]
      /\ closed_event' = [closed_event EXCEPT ![e] = FALSE]
      /\ reg \in [Ends -> {"new", "in", "out"}] /\ path \in [Ends -> Seq(Frame)]
      /\ closed_event \in [Ends -> BOOLEAN] /\ up \in [Ends -> BOOLEAN]
      /\ \A x \in Ends : avail[x] \in Nat /\ avail[x] <= Len(path[x])
  BY Zenon DEF SessionDown, InductiveInvariant, TypeOK, calls, history
<1>3. PICK k \in avail[p] .. Len(path[p]) :
        path' = [path EXCEPT ![e] = SubSeq(@, 1, avail[e]), ![p] = SubSeq(@, 1, k)]
  BY Zenon DEF SessionDown
<1> HIDE DEF p
<1>4. path'[e] = SubSeq(path[e], 1, avail[e]) /\ path'[p] = SubSeq(path[p], 1, k)
  BY Zenon, <1>1, <1>2, <1>3
<1>5. /\ ~up'[e] /\ up'[p] = up[p] /\ reg'[p] = reg[p] /\ ~closed_event'[e]
      /\ closed_event'[p] = closed_event[p]
  BY Zenon, <1>1, <1>2
<1>6. SessionKnows'
  BY Zenon, <1>1, <1>2, <1>5 DEF EofInvariant, SessionKnows
<1>7. \A x \in Ends : Reads(x)' => Reads(x) /\ (up'[x] /\ up'[Peer(x)] => path'[x] = path[x])
  <2>1. alive[e] /\ up[e] /\ state[e] # "Closed" => reg[e] = "in"
    BY Zenon, <1>2 DEF EofInvariant, SessionKnows, InductiveInvariant, HandleLife
  <2>2. Reads(e)' => Reads(e)
    BY Zenon, <1>2, <1>5, <2>1 DEF Reads
  <2>3. Reads(p)' => Reads(p)
    BY Zenon, <1>2, <1>5 DEF Reads
  <2> QED
    BY Zenon, <1>1, <1>5, <2>2, <2>3
<1>8. \A x \in Ends : up'[x] => up[x]
  BY Zenon, <1>1, <1>5
<1>9. \A x \in Ends : \E j \in 0 .. Len(path[x]) : path'[x] = SubSeq(path[x], 1, j)
  <2>1. \A x \in Ends : Len(path[x]) \in Nat
    BY Zenon, <1>2, LenProperties
  <2>2. avail[e] \in 0 .. Len(path[e]) /\ k \in 0 .. Len(path[p])
    BY <1>1, <1>2, <2>1
  <2> QED
    BY Zenon, <1>1, <1>4, <2>2
<1> QED
  BY Zenon, <1>2, <1>6, <1>7, <1>8, <1>9, LossKeeps

\* A new stream announces its window: the first frame its end sends.
LEMMA CreateStreamEof ==
  ASSUME InductiveInvariant, EofInvariant, NEW e \in Ends, NEW st \in {"Init", "SynReceived"},
         up[e], reg[e] = "new", CreateStream(e, st),
         UNCHANGED <<closed_event, up, written, taken>>
  PROVE  EofInvariant'
<1>1. /\ TypeOK /\ reg' = [reg EXCEPT ![e] = "in"] /\ alive' = [alive EXCEPT ![e] = TRUE]
      /\ reg \in [Ends -> {"new", "in", "out"}] /\ alive \in [Ends -> BOOLEAN]
      /\ state \in [Ends -> States] /\ SendWindowUpdate(e, st, 0)
      /\ ~closed_event[e]
  BY Zenon DEF CreateStream, InductiveInvariant, TypeOK, HandleLife
<1>2. /\ reg'[e] = "in" /\ \A x \in Ends \ {e} : reg'[x] = reg[x] /\ alive'[x] = alive[x]
  BY Zenon, <1>1
<1>3. /\ state'[e] \in {"SynSent", "Established"}
      /\ \A x \in Ends \ {e} : state'[x] = state[x]
  <2>1. state' = [state EXCEPT ![e] = StateAfterFlags(st)]
    BY Zenon, <1>1 DEF SendWindowUpdate
  <2>2. StateAfterFlags(st) \in {"SynSent", "Established"}
    BY DEF StateAfterFlags
  <2> QED
    BY Zenon, <1>1, <2>1, <2>2
<1>4. SessionKnows'
  BY Zenon, <1>1, <1>2, <1>3 DEF EofInvariant, SessionKnows
<1>5. \A x \in Ends : Reads(x)' => Reads(x)
  BY Zenon, <1>2, <1>3 DEF Reads
<1>6. path'[e] = path[e] /\ SendsAtMostOne(e)
  <2>1. recv_window[e] + 0 <= MaxWindow[e]
    <3>1. /\ recv_window[e] \in Nat /\ MaxWindow[e] \in Nat /\ buf[e] \in Nat
          /\ recv_window[e] + buf[e] <= MaxWindow[e]
      BY Zenon, <1>1, WindowAssumption DEF InductiveInvariant, TypeOK, BufferBounded
    <3> QED
      BY <3>1
  <2>2. st \in States \ {"None"} /\ 0 \in Nat
    BY DEF States
  <2> QED
    BY Zenon, <1>1, <2>1, <2>2, WindowUpdateIsOne
<1>7. ~Finished(e)
  BY Zenon DEF Finished, EofInvariant, SessionKnows
<1>8. Turn(e)
  BY Zenon, <1>3, <1>5, <1>6, <1>7 DEF Turn
<1> QED
  BY Zenon, <1>4, <1>8, TurnKeeps

\* A refused Syn is answered with a reset, which ends no data.
LEMMA RefuseStreamEof ==
  ASSUME InductiveInvariant, EofInvariant, RefuseStream
  PROVE  EofInvariant'
<1> DEFINE c == "client"  s == "server"
<1>1. c \in Ends /\ s \in Ends /\ Ends = {c, s} /\ c # s /\ Peer(c) = s /\ Peer(s) = c
  BY Zenon DEF Ends, Peer
<1> HIDE DEF c, s
<1>2. PICK flags \in {{"ack", "rst"}, {"rst"}} :
        path' = [path EXCEPT ![s] = Tail(@),
                             ![c] = IF up[c] THEN Append(@, UpdateFrame(s, flags, 0)) ELSE @]
  BY ZenonT(30) DEF RefuseStream, c, s
<1>3. /\ up[s] /\ reg[s] = "new" /\ path[s] # << >> /\ reg' = [reg EXCEPT ![s] = "out"]
      /\ UNCHANGED <<state, alive, closed_event, up, written, taken>>
  BY Zenon DEF RefuseStream, SynArrived, s, calls, history
<1>4. /\ TypeOK /\ path \in [Ends -> Seq(Frame)] /\ taken \in [Ends -> Nat]
      /\ reg \in [Ends -> {"new", "in", "out"}] /\ ~alive[s]
      /\ NothingSkipped /\ FinIsLast /\ RemoteClosed /\ SessionKnows
  BY Zenon, <1>1, <1>3 DEF InductiveInvariant, TypeOK, HandleLife, EofInvariant
<1>5. flags \in SUBSET Flag /\ "fin" \notin flags /\ 0 \in Nat
  BY DEF Flag
<1>6. PICK f \in Frame : /\ f = UpdateFrame(s, flags, 0)
                         /\ f.sent = written[s] /\ SentBefore(f) = written[s]
  <2>1. UpdateFrame(s, flags, 0) \in Frame
        /\ UpdateFrame(s, flags, 0).sent = written[s]
        /\ SentBefore(UpdateFrame(s, flags, 0)) = written[s]
    BY Zenon, <1>1, <1>4, <1>5, UpdateFrameTotals
  <2> QED
    BY Zenon, <2>1
<1>7. f.flags = flags
  BY Zenon, <1>6 DEF UpdateFrame
<1>8. /\ path'[s] = Tail(path[s])
      /\ path'[c] = IF up[c] THEN Append(path[c], f) ELSE path[c]
      /\ reg'[s] = "out" /\ reg'[c] = reg[c]
  <2>1. /\ path'[s] = Tail(path[s])
        /\ path'[c] = IF up[c] THEN Append(path[c], f) ELSE path[c]
    BY SMT, <1>1, <1>2, <1>4, <1>6
  <2> QED
    BY Zenon, <2>1, <1>1, <1>3, <1>4
<1>9. \A x \in Ends : Finished(x)' <=> Finished(x)
  BY Zenon, <1>3 DEF Finished
<1>10. RemoteClosed'
  BY Zenon, <1>1, <1>3, <1>4, <1>9 DEF RemoteClosed
<1>11. SessionKnows'
  BY Zenon, <1>1, <1>3, <1>4, <1>8 DEF SessionKnows
<1>12. NothingSkipped'
  <2>1. ~Reads(s)' /\ (Reads(c)' => Reads(c))
    BY Zenon, <1>3, <1>8 DEF Reads
  <2>2. path[c] \in Seq(Frame) /\ taken[c] \in Nat
    BY Zenon, <1>1, <1>4
  <2>3. Reads(c) => /\ NoGap(path[c], taken[c])
                    /\ up[c] => Reaches(path[c], taken[c]) = written[s]
    BY Zenon, <1>1, <1>3, <1>4 DEF NothingSkipped
  <2>4. Reads(c)' => /\ NoGap(path'[c], taken'[c])
                     /\ up'[c] => Reaches(path'[c], taken'[c]) = written'[s]
    <3>1. CASE up[c]
      BY Zenon, <1>3, <1>6, <1>8, <2>1, <2>2, <2>3, <3>1, NoGapAppend
    <3>2. CASE ~up[c]
      BY Zenon, <1>3, <1>8, <2>1, <2>3, <3>2
    <3> QED
      BY Zenon, <3>1, <3>2
  <2> QED
    BY Zenon, <1>1, <2>1, <2>4 DEF NothingSkipped
<1>13. FinIsLast'
  <2>1. \A x \in Ends : \A i \in 1 .. Len(path[x]) :
          "fin" \in path[x][i].flags =>
            path[x][i].sent = written'[Peer(x)] /\ Finished(Peer(x))'
    BY Zenon, <1>1, <1>3, <1>4, <1>9 DEF FinIsLast
  <2>2. \A x \in Ends : path[x] \in Seq(Frame) /\ Len(path[x]) \in Nat
    BY Zenon, <1>4, LenProperties
  <2>3. ASSUME NEW i \in 1 .. Len(path'[s])
        PROVE  \E j \in 1 .. Len(path[s]) : path'[s][i] = path[s][j]
    <3>1. /\ Len(path'[s]) = Len(path[s]) - 1
          /\ path'[s][i] = path[s][i + 1]
      BY SMTT(30), <1>1, <1>3, <1>8, <2>2, HeadTailProperties
    <3>2. i + 1 \in 1 .. Len(path[s])
      BY SMTT(30), <1>1, <2>2, <3>1
    <3> QED
      BY Zenon, <3>1, <3>2
  <2>4. ASSUME NEW i \in 1 .. Len(path'[c])
        PROVE  path'[c][i] = f \/ \E j \in 1 .. Len(path[c]) : path'[c][i] = path[c][j]
    <3>1. CASE up[c]
      BY <1>1, <1>8, <2>2, <3>1, AppendProperties
    <3>2. CASE ~up[c]
      BY Zenon, <1>8, <3>2
    <3> QED
      BY Zenon, <3>1, <3>2
  <2>5. \A i \in 1 .. Len(path'[s]) :
          "fin" \in path'[s][i].flags =>
            path'[s][i].sent = written'[Peer(s)] /\ Finished(Peer(s))'
    <3> SUFFICES ASSUME NEW i \in 1 .. Len(path'[s]), "fin" \in path'[s][i].flags
                 PROVE  path'[s][i].sent = written'[Peer(s)] /\ Finished(Peer(s))'
      BY Zenon
    <3>1. PICK j \in 1 .. Len(path[s]) : path'[s][i] = path[s][j]
      BY Zenon, <2>3
    <3> QED
      BY Zenon, <1>1, <2>1, <3>1
  <2>6. \A i \in 1 .. Len(path'[c]) :
          "fin" \in path'[c][i].flags =>
            path'[c][i].sent = written'[Peer(c)] /\ Finished(Peer(c))'
    BY Zenon, <1>1, <1>5, <1>7, <2>1, <2>4
  <2> QED
    BY Zenon, <1>1, <2>5, <2>6 DEF FinIsLast
<1> QED
  BY Zenon, <1>10, <1>11, <1>12, <1>13 DEF EofInvariant

\* Before the stream is opened nothing is under way.
LEMMA InitEof == Init => EofInvariant
<1> SUFFICES ASSUME Init
             PROVE  EofInvariant
  BY Zenon
<1>1. \A e \in Ends : /\ path[e] = << >> /\ taken[e] = 0 /\ written[Peer(e)] = 0
                      /\ state[e] = "None" /\ ~closed_event[e] /\ reg[e] = "new"
  BY Zenon, PeerFacts DEF Init
<1>2. 1 .. Len(<< >>) = {}
  BY EmptySeq
<1>3. NothingSkipped
  BY Zenon, <1>1, <1>2 DEF NothingSkipped, NoGap, Reaches
<1>4. FinIsLast
  BY Zenon, <1>1, <1>2 DEF FinIsLast
<1>5. RemoteClosed /\ SessionKnows
  BY Zenon, <1>1 DEF RemoteClosed, SessionKnows
<1> QED
  BY Zenon, <1>3, <1>4, <1>5 DEF EofInvariant

\* Every step of the two handles and their sessions keeps the Fins in their place.
LEMMA NextEof == InductiveInvariant /\ EofInvariant /\ [Next]_vars => EofInvariant'
<1> SUFFICES ASSUME InductiveInvariant, EofInvariant, [Next]_vars
             PROVE  EofInvariant'
  BY Zenon
<1>1. CASE OpenStream
  <2>1. "client" \in Ends
    BY Zenon DEF Ends
  <2> QED
    BY Zenon, <1>1, <2>1, CreateStreamEof DEF OpenStream
<1>2. CASE AcceptStream
  <2>1. "server" \in Ends
    BY Zenon DEF Ends
  <2> QED
    BY Zenon, <1>2, <2>1, CreateStreamEof DEF AcceptStream, SynArrived
<1>3. CASE RefuseStream
  BY Zenon, <1>3, RefuseStreamEof
<1>4. ASSUME NEW e \in Ends, SessionStep(e)
      PROVE  EofInvariant'
  <2>1. CASE Deliver(e)
    BY Zenon, <2>1, QuietStepEof DEF Deliver, calls, history
  <2> QED
    BY Zenon, <1>4, <2>1, DiscardEof, HandleClosedEof, SessionDownEof DEF SessionStep
<1>5. ASSUME NEW e \in Ends, HandleStep(e)
      PROVE  EofInvariant'
  <2>1. CASE PollRead(e) \/ PollPeek(e) \/ PollWrite(e)
    <3>1. UNCHANGED <<state, path, alive, reg, closed_event, up, written, taken>>
      BY Zenon, <2>1 DEF PollRead, PollPeek, PollWrite, StartReading, links, history
    <3> QED
      BY Zenon, <3>1, QuietStepEof
  <2>2. CASE RecvFrame(e) \/ EndRead(e) \/ EndPeek(e) \/ EndWrite(e) \/ Close(e) \/ DropHandle(e)
    BY Zenon, <2>2, RecvFrameEof, EndReadEof, EndPeekEof, EndWriteEof, CloseEof, DropHandleEof
  <2> QED
    BY Zenon, <1>5, <2>1, <2>2 DEF HandleStep
<1>6. CASE UNCHANGED vars
  BY Zenon, <1>6, QuietStepEof DEF vars, calls, links, history
<1> QED
  BY Zenon, <1>1, <1>2, <1>3, <1>4, <1>5, <1>6 DEF Next

\* Entering a state in which check_self_state reports end-of-file.
EndsWell(e) ==
  state[e] \notin Ended /\ state'[e] \in Ended =>
    \/ taken'[e] = written'[Peer(e)]
    \/ ~up[e] /\ avail'[e] = 0
    \/ state[e] \in {"LocalClosing", "Reset"} /\ Close(e)

\* A call that ends enters such a state only when it finds its channel closed and
\* empty, which takes the drop of its own session.
LEMMA CallEndsWell ==
  ASSUME InductiveInvariant, EofInvariant, NEW e \in Ends, EndRead(e) \/ EndPeek(e) \/ EndWrite(e)
  PROVE  EndsWell(e) /\ \A x \in Ends \ {e} : state'[x] = state[x]
<1>1. /\ pc[e] # "idle" /\ LoopEnds(e) /\ avail' = avail
      /\ state \in [Ends -> States]
  BY Zenon DEF EndRead, EndPeek, EndWithoutData, EndReading, EndWrite, InductiveInvariant, TypeOK
<1>2. \/ state' = [state EXCEPT ![e] = StateAfterLoop(e)]
      \/ state' = [state EXCEPT ![e] = StateAfterFlags(state[e])]
      \/ state' = [state EXCEPT ![e] = StateAfterFlags(StateAfterLoop(e))]
  BY Zenon DEF EndRead, EndPeek, EndWithoutData, EndWrite, SendWindowUpdate, SendData
<1>3. /\ state'[e] \in {StateAfterLoop(e), StateAfterFlags(state[e]), StateAfterFlags(StateAfterLoop(e))}
      /\ \A x \in Ends \ {e} : state'[x] = state[x]
  BY Zenon, <1>1, <1>2
<1>4. \A st \in Ended : \A was : st = StateAfterFlags(was) => was = st
  BY Zenon DEF StateAfterFlags, Ended
<1>5. state[e] \notin Ended /\ state'[e] \in Ended => StateAfterLoop(e) # state[e]
  BY Zenon, <1>3, <1>4
<1>6. StateAfterLoop(e) # state[e] => ~up[e] /\ avail'[e] = 0
  BY Zenon, <1>1, LoopKeepsState DEF StateAfterLoop, LoopEnds
<1> QED
  BY Zenon, <1>3, <1>5, <1>6 DEF EndsWell

\* poll_shutdown enters such a state only when it was called before, or after a reset.
LEMMA CloseEndsWell ==
  ASSUME InductiveInvariant, NEW e \in Ends, Close(e)
  PROVE  EndsWell(e) /\ \A x \in Ends \ {e} : state'[x] = state[x]
<1>1. state \in [Ends -> States]
  BY Zenon DEF InductiveInvariant, TypeOK
<1>2. /\ state[e] \in Opening => state'[e] = "LocalClosing"
      /\ state[e] \in Opening \cup {"RemoteClosing", "Reset", "Closed", "LocalClosing"}
      /\ \A x \in Ends \ {e} : state'[x] = state[x]
  BY Zenon, <1>1 DEF Close, Opening
<1> QED
  BY Zenon, <1>2 DEF EndsWell, Ended

\* The steps of the sessions, and dropping a handle, end no stream.
LEMMA OthersEndNothing ==
  ASSUME InductiveInvariant, EofInvariant, [Next]_vars,
         ~\E e \in Ends : RecvFrame(e) \/ EndRead(e) \/ EndPeek(e) \/ EndWrite(e) \/ Close(e)
  PROVE  \A e \in Ends : state'[e] \in Ended => state[e] \in Ended
<1>1. state \in [Ends -> States] /\ "client" \in Ends /\ "server" \in Ends
  BY Zenon DEF InductiveInvariant, TypeOK, Ends
<1>2. ASSUME NEW e \in Ends, NEW st, st \notin Ended \/ st = state[e],
             state' = [state EXCEPT ![e] = StateAfterFlags(st)]
      PROVE  \A x \in Ends : state'[x] \in Ended => state[x] \in Ended
  <2>1. state'[e] = StateAfterFlags(st) /\ \A x \in Ends \ {e} : state'[x] = state[x]
    BY Zenon, <1>1, <1>2
  <2>2. StateAfterFlags(st) \in Ended => st \in Ended
    BY Zenon DEF StateAfterFlags, Ended
  <2> QED
    BY Zenon, <1>2, <2>1, <2>2
<1>3. CASE OpenStream
  <2>1. state' = [state EXCEPT !["client"] = StateAfterFlags("Init")] /\ "Init" \notin Ended
    BY Zenon, <1>3 DEF OpenStream, CreateStream, SendWindowUpdate, Ended
  <2> QED
    BY Zenon, <1>1, <1>2, <2>1
<1>4. CASE AcceptStream
  <2>1. state' = [state EXCEPT !["server"] = StateAfterFlags("SynReceived")]
        /\ "SynReceived" \notin Ended
    BY Zenon, <1>4 DEF AcceptStream, CreateStream, SendWindowUpdate, Ended
  <2> QED
    BY Zenon, <1>1, <1>2, <2>1
<1>5. ASSUME NEW e \in Ends, DropHandle(e)
      PROVE  \A x \in Ends : state'[x] \in Ended => state[x] \in Ended
  <2>1. state' = state \/ state' = [state EXCEPT ![e] = StateAfterFlags(@)]
    BY Zenon, <1>5 DEF DropHandle
  <2> QED
    BY Zenon, <1>2, <2>1
<1>6. CASE state' = state
  BY Zenon, <1>6
<1>7. CASE RefuseStream
  BY Zenon, <1>6, <1>7 DEF RefuseStream
<1>8. ASSUME NEW e \in Ends, SessionStep(e)
      PROVE  state' = state
  BY Zenon, <1>8 DEF SessionStep, Deliver, Discard, HandleClosed, SessionDown
<1>9. ASSUME NEW e \in Ends, PollRead(e) \/ PollPeek(e) \/ PollWrite(e)
      PROVE  state' = state
  BY Zenon, <1>9 DEF PollRead, PollPeek, PollWrite, StartReading
<1>10. CASE UNCHANGED vars
  BY Zenon, <1>6, <1>10 DEF vars
<1> QED
  BY Zenon, <1>3, <1>4, <1>5, <1>6, <1>7, <1>8, <1>9, <1>10 DEF Next, HandleStep

\* A handle whose reader comes to be told end-of-file, in RemoteClosing or in Closed,
\* has taken every byte the other end wrote, unless its own session was dropped, and
\* then it has taken all that reached it, or its owner shut the stream down twice or
\* after a reset.
THEOREM StreamEofAfterAllData == Spec => EofAfterAllData
<1>1. InductiveInvariant /\ EofInvariant /\ [Next]_vars => [\A e \in Ends : EndsWell(e)]_vars
  <2> SUFFICES ASSUME InductiveInvariant, EofInvariant, [Next]_vars, NEW x \in Ends
               PROVE  EndsWell(x)
    BY Zenon
  <2>1. ASSUME NEW e \in Ends, RecvFrame(e)
        PROVE  EndsWell(x)
    <3>1. state'[e] \in Ended => taken'[e] = written'[Peer(e)]
      BY Zenon, <2>1, RecvFrameEof
    <3>2. x # e => state'[x] = state[x]
      <4>1. ~FrameError(e, Head(path[e]))
        BY Zenon, <2>1, HeadIsWelcome DEF RecvFrame
      <4> QED
        BY Zenon, <2>1, <4>1 DEF RecvFrame, InductiveInvariant, TypeOK
    <3> QED
      BY Zenon, <3>1, <3>2 DEF EndsWell
  <2>2. ASSUME NEW e \in Ends, EndRead(e) \/ EndPeek(e) \/ EndWrite(e) \/ Close(e)
        PROVE  EndsWell(x)
    <3>1. EndsWell(e) /\ (x # e => state'[x] = state[x])
      BY Zenon, <2>2, CallEndsWell, CloseEndsWell
    <3> QED
      BY Zenon, <3>1 DEF EndsWell
  <2>3. CASE ~\E e \in Ends : RecvFrame(e) \/ EndRead(e) \/ EndPeek(e) \/ EndWrite(e) \/ Close(e)
    BY Zenon, <2>3, OthersEndNothing DEF EndsWell
  <2> QED
    BY Zenon, <2>1, <2>2, <2>3
<1>2. [\A e \in Ends : EndsWell(e)]_vars =>
        [\A e \in Ends :
           state[e] \notin Ended /\ state'[e] \in Ended =>
             \/ taken'[e] = written'[Peer(e)]
             \/ ~up[e] /\ avail'[e] = 0
             \/ state[e] \in {"LocalClosing", "Reset"} /\ Close(e)]_vars
  BY Zenon DEF EndsWell
<1> QED
  BY <1>1, <1>2, InitEof, NextEof, StreamInvariant, PTL DEF Spec, EofAfterAllData

=============================================================================
