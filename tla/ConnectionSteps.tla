--------------------------- MODULE ConnectionSteps ---------------------------
(***************************************************************************)
(* What the proof of SecureEndsAgree rests on: the sequences the frames and*)
(* bytes are in, the choices and the keys of the two ends, which mirror    *)
(* each other, what a step leaves as it is, and the steps of the handshake *)
(* up to the keys: each keeps HandshakeInvariant of Connection.            *)
(***************************************************************************)
EXTENDS Connection, TLAPS

\* What is in some Seq(S) is a sequence.
LEMMA SequenceIn == ASSUME NEW S, NEW q \in Seq(S) PROVE IsSequence(q)
  <1>1. Len(q) \in Nat /\ DOMAIN q = 1..Len(q) /\ q = [i \in 1..Len(q) |-> q[i]]
    BY SMTT(30)
  <1>2. q \in [1..Len(q) -> ToSet(q)]
    BY <1>1, Zenon DEF ToSet
  <1> QED
    BY <1>1, <1>2, SMTT(30) DEF IsSequence

\* Its length and domain.
LEMMA SequenceFacts ==
  ASSUME NEW q, IsSequence(q)
  PROVE  /\ Len(q) \in Nat /\ DOMAIN q = 1..Len(q) /\ q \in Seq(ToSet(q))
         /\ q # <<>> <=> Len(q) > 0
  BY SMTT(30) DEF IsSequence

\* Concatenation, as Framed and read_exact append what was read.
LEMMA JoinIsSequence ==
  ASSUME NEW p, NEW q, IsSequence(p), IsSequence(q)
  PROVE  /\ IsSequence(p \o q) /\ Len(p \o q) = Len(p) + Len(q)
         /\ \A i \in 1..Len(p \o q) :
              (p \o q)[i] = IF i <= Len(p) THEN p[i] ELSE q[i - Len(p)]
         /\ q = <<>> => p \o q = p
  <1> DEFINE S == ToSet(p) \cup ToSet(q)
  <1>1. p \in Seq(ToSet(p)) /\ q \in Seq(ToSet(q))
    BY Zenon DEF IsSequence
  <1>2. p \in Seq(S) /\ q \in Seq(S)
    <2> HIDE DEF S
    <2>1. ToSet(p) \subseteq S /\ ToSet(q) \subseteq S
      BY Zenon DEF S
    <2> QED
      BY <1>1, <2>1, SMTT(30)
  <1> HIDE DEF S
  <1>3. p \o q \in Seq(S)
    BY <1>2, SMTT(30)
  <1>4. IsSequence(p \o q)
    BY <1>3, SequenceIn, Zenon
  <1> QED
    BY <1>2, <1>4, SMTT(30)

\* A part of a sequence: what a read takes of the buffer, what a cut leaves on the wire.
LEMMA PartIsSequence ==
  ASSUME NEW q, IsSequence(q), NEW m \in Nat \ {0}, NEW n \in Nat, n <= Len(q)
  PROVE  /\ IsSequence(SubSeq(q, m, n))
         /\ Len(SubSeq(q, m, n)) = IF m <= n THEN n - m + 1 ELSE 0
         /\ \A i \in 1..Len(SubSeq(q, m, n)) : SubSeq(q, m, n)[i] = q[i + m - 1]
  <1> DEFINE S == ToSet(q)
  <1>1. q \in Seq(S)
    BY Zenon DEF IsSequence
  <1> HIDE DEF S
  <1>2. SubSeq(q, m, n) \in Seq(S)
    BY <1>1, SMTT(30)
  <1>3. IsSequence(SubSeq(q, m, n))
    BY <1>2, SequenceIn, Zenon
  <1> QED
    BY <1>1, <1>3, SMTT(30)

\* What is left when the first frame is taken.
LEMMA TailIsSequence ==
  ASSUME NEW q, IsSequence(q), q # <<>>
  PROVE  /\ IsSequence(Tail(q)) /\ Len(Tail(q)) = Len(q) - 1 /\ Len(q) \in Nat \ {0}
         /\ Head(q) = q[1]
         /\ \A i \in 1..Len(Tail(q)) : Tail(q)[i] = q[i + 1]
  <1> DEFINE S == ToSet(q)
  <1>1. q \in Seq(S)
    BY Zenon DEF IsSequence
  <1> HIDE DEF S
  <1>2. Tail(q) \in Seq(S)
    BY <1>1, SMTT(30)
  <1>3. IsSequence(Tail(q))
    BY <1>2, SequenceIn, Zenon
  <1> QED
    BY <1>1, <1>3, SMTT(30)

\* The frame that is taken.
LEMMA FirstIn ==
  ASSUME NEW q, IsSequence(q), q # <<>>
  PROVE  Head(q) = q[1] /\ 1 \in 1..Len(q)
  <1>1. Len(q) \in Nat \ {0} /\ Head(q) = q[1]
    BY Zenon, TailIsSequence
  <1> QED
    BY SMTT(30), <1>1

\* A single frame.
LEMMA OneIsSequence == ASSUME NEW f PROVE IsSequence(<<f>>) /\ Len(<<f>>) = 1 /\ <<f>>[1] = f
  <1>1. <<f>> \in Seq({f})
    BY SMTT(30)
  <1>2. IsSequence(<<f>>)
    BY <1>1, SequenceIn, Zenon
  <1> QED
    BY Zenon, <1>2

\* Nothing.
LEMMA EmptyIsSequence == IsSequence(<<>>) /\ Len(<<>>) = 0
  <1>1. <<>> \in Seq({})
    BY SMTT(30)
  <1>2. IsSequence(<<>>)
    BY <1>1, SequenceIn, Zenon
  <1> QED
    BY Zenon, <1>2

-----------------------------------------------------------------------------
(* The two ends' choices and keys mirror each other *)

\* There are two ends, each the other's other.
LEMMA OtherFacts == \A e \in Ends : Other(e) \in Ends /\ Other(e) # e /\ Other(Other(e)) = e
                                    /\ \A x \in Ends : x = e \/ x = Other(e)
  BY Zenon DEF Ends, Other

\* The digests that hashes_ordering compares are numbers.
LEMMA DigestIsInt ==
  ASSUME setup \in Setups, NEW pubkey, NEW nonce PROVE Digest(pubkey, nonce) \in Int
  <1>1. CASE \E e \in Ends : pubkey = setup.key[Other(e)] /\ nonce = Nonce(e)
    <2>1. (CHOOSE e \in Ends : nonce = Nonce(e)) \in Ends
      BY <1>1, Zenon
    <2>2. setup.digest \in [Ends -> Int]
      BY SetupsAssumption, Zenon
    <2> QED
      BY <1>1, <2>1, <2>2, Zenon DEF Digest
  <1>2. CASE ~ \E e \in Ends : pubkey = setup.key[Other(e)] /\ nonce = Nonce(e)
    <2>1. Digest(pubkey, nonce) = 0
      BY <1>2, Zenon DEF Digest
    <2> QED
      BY <2>1, SMTT(30)
  <1> QED
    BY Zenon, <1>1, <1>2

\* What hashes_ordering says at one end is the reverse of what it says at the other.
LEMMA OrdersMirrored ==
  ASSUME setup \in Setups, NEW e \in Ends
  PROVE  LET mine == hashes_ordering(e, Proposition(Other(e)))
             theirs == hashes_ordering(Other(e), Proposition(e))
         IN /\ mine = "less" <=> theirs = "greater"
            /\ mine = "greater" <=> theirs = "less"
            /\ mine \in {"less", "greater", "equal"} /\ theirs \in {"less", "greater", "equal"}
  <1> DEFINE a == Digest(setup.key[Other(e)], Nonce(e))
             b == Digest(setup.key[e], Nonce(Other(e)))
  <1>1. a \in Int /\ b \in Int
    BY DigestIsInt, Zenon
  <1>2. hashes_ordering(e, Proposition(Other(e)))
          = IF a < b THEN "less" ELSE IF a > b THEN "greater" ELSE "equal"
    BY Zenon DEF hashes_ordering, Proposition
  <1>3. hashes_ordering(Other(e), Proposition(e))
          = IF b < a THEN "less" ELSE IF b > a THEN "greater" ELSE "equal"
    BY Zenon DEF hashes_ordering, Proposition
  <1> HIDE DEF a, b
  <1> QED
    BY <1>1, <1>2, <1>3, SMTT(30)

\* The order is one field of the outcome of with_remote.
LEMMA ChoiceExcept ==
  ASSUME NEW a, NEW b, NEW x, NEW y, NEW z
  PROVE  [[order |-> a, exchange |-> x, cipher |-> y, hash |-> z] EXCEPT !.order = b]
           = [order |-> b, exchange |-> x, cipher |-> y, hash |-> z]
  OBVIOUS

\* If each end holds the other's proposition and the digests differ, with_remote chooses the
\* same algorithms at both, and opposite halves of the stretched key.
LEMMA ChoicesMirrored ==
  ASSUME setup \in Setups, NEW e \in Ends,
         with_remote(e, Proposition(Other(e))).order # "equal"
  PROVE  LET c == with_remote(e, Proposition(Other(e)))
             d == with_remote(Other(e), Proposition(e))
         IN /\ c.exchange = d.exchange /\ c.cipher = d.cipher /\ c.hash = d.hash
            /\ Half(c.order).enc = Half(d.order).dec /\ Half(c.order).dec = Half(d.order).enc
            /\ Half(c.order).enc # Half(c.order).dec
            /\ d.order # "equal"
            /\ [c EXCEPT !.order = ""] = [d EXCEPT !.order = ""]
  <1> DEFINE o == Other(e)
             m == hashes_ordering(e, Proposition(o))
             t == hashes_ordering(o, Proposition(e))
             c == with_remote(e, Proposition(o))
             d == with_remote(o, Proposition(e))
  <1>1. c.order = m /\ d.order = t
    BY Zenon DEF with_remote
  <1>2. /\ m = "less" <=> t = "greater"
        /\ m = "greater" <=> t = "less"
        /\ m \in {"less", "greater", "equal"} /\ t \in {"less", "greater", "equal"}
    BY Zenon, OrdersMirrored
  <1>3. \/ m = "less" /\ t = "greater"
        \/ m = "greater" /\ t = "less"
    <2> HIDE DEF m, t, c, d
    <2> QED
      BY Zenon, <1>1, <1>2 DEF c, o
  <1>4. ASSUME NEW ours, NEW theirs, NEW known
        PROVE  Select(m, ours, theirs, known) = Select(t, theirs, ours, known)
    <2> HIDE DEF m, t
    <2> QED
      BY Zenon, <1>3 DEF Select
  <1>5. /\ c.exchange = select_agreement(m, setup.exchange[e], setup.exchange[o])
        /\ c.cipher = select_cipher(m, setup.ciphers[e], setup.ciphers[o])
        /\ c.hash = select_digest(m, setup.hashes[e], setup.hashes[o])
        /\ d.exchange = select_agreement(t, setup.exchange[o], setup.exchange[e])
        /\ d.cipher = select_cipher(t, setup.ciphers[o], setup.ciphers[e])
        /\ d.hash = select_digest(t, setup.hashes[o], setup.hashes[e])
    BY Zenon DEF with_remote, Proposition
  <1>6. c.exchange = d.exchange /\ c.cipher = d.cipher /\ c.hash = d.hash
    <2> HIDE DEF m, t, c, d, o
    <2>1. c.exchange = d.exchange
      BY SMTT(30), <1>4, <1>5 DEF select_agreement
    <2>2. c.cipher = d.cipher
      BY SMTT(30), <1>4, <1>5 DEF select_cipher
    <2>3. c.hash = d.hash
      BY SMTT(30), <1>4, <1>5 DEF select_digest
    <2> QED
      BY Zenon, <2>1, <2>2, <2>3
  <1>7. /\ Half(c.order).enc = Half(d.order).dec /\ Half(c.order).dec = Half(d.order).enc
        /\ Half(c.order).enc # Half(c.order).dec
    <2> HIDE DEF m, t, c, d
    <2> QED
      BY Zenon, <1>1, <1>3 DEF Half
  <1>8. /\ c = [order |-> c.order, exchange |-> c.exchange, cipher |-> c.cipher, hash |-> c.hash]
        /\ d = [order |-> d.order, exchange |-> d.exchange, cipher |-> d.cipher, hash |-> d.hash]
    BY Zenon DEF with_remote
  <1>9. [c EXCEPT !.order = ""] = [d EXCEPT !.order = ""]
    <2> HIDE DEF c, d
    <2> QED
      BY Zenon, <1>6, <1>8, ChoiceExcept
  <1>10. d.order # "equal"
    <2> HIDE DEF m, t, c, d
    <2> QED
      BY Zenon, <1>1, <1>3
  <1> QED
    BY Zenon, <1>6, <1>7, <1>9, <1>10

\* What Settled gives for two ends that both have their keys.
LEMMA KeysMirrored ==
  ASSUME setup \in Setups, NEW e \in Ends, Staged(e), Staged(Other(e)),
         Settled(e), Settled(Other(e))
  PROVE  /\ keys[e][1].enc = keys[Other(e)][1].dec /\ keys[e][1].dec = keys[Other(e)][1].enc
         /\ keys[e][1].enc # keys[e][1].dec
  <1> DEFINE o == Other(e)
             c == chosen[e][1]
             d == chosen[o][1]
  <1>1. o \in Ends /\ Other(o) = e
    BY Zenon, OtherFacts
  <1>2. /\ remote[e] = <<Proposition(o)>> /\ remote[o] = <<Proposition(e)>>
        /\ c.exchange = d.exchange /\ c.order # "equal"
        /\ keys[e] = <<stretch_key(c, agree(c.exchange, generate_agreement(e, c.exchange),
                                            generate_agreement(o, c.exchange)))>>
        /\ keys[o] = <<stretch_key(d, agree(d.exchange, generate_agreement(o, d.exchange),
                                            generate_agreement(e, d.exchange)))>>
    BY <1>1, Zenon DEF Settled
  <1>3. c = with_remote(e, Proposition(o)) /\ d = with_remote(o, Proposition(e))
    BY <1>1, <1>2, SMTT(30) DEF Staged
  <1>4. /\ c.cipher = d.cipher /\ c.hash = d.hash
        /\ Half(c.order).enc = Half(d.order).dec /\ Half(c.order).dec = Half(d.order).enc
        /\ Half(c.order).enc # Half(c.order).dec
    BY Zenon, <1>2, <1>3, ChoicesMirrored
  <1> DEFINE s == agree(c.exchange, generate_agreement(e, c.exchange), generate_agreement(o, c.exchange))
  <1>5. s = agree(d.exchange, generate_agreement(o, d.exchange), generate_agreement(e, d.exchange))
    BY Zenon, <1>2 DEF agree
  <1> HIDE DEF c, d, s
  <1>6. keys[e][1] = stretch_key(c, s) /\ keys[o][1] = stretch_key(d, s)
    BY <1>2, <1>5, SMTT(30) DEF s
  <1> QED
    BY <1>4, <1>6, SMTT(30) DEF stretch_key

-----------------------------------------------------------------------------
(* What a step leaves as it is *)

\* What an end has settled stays.
Settles ==
  /\ setup' = setup
  /\ \A e \in Ends : /\ remote[e] # <<>> => remote'[e] = remote[e] /\ chosen'[e] = chosen[e]
                     /\ keys[e] # <<>> => keys'[e] = keys[e]

\* The propositions and choices depend on the configuration alone.
LEMMA SameSetup ==
  ASSUME setup' = setup, NEW e, NEW p
  PROVE  /\ Proposition(e)' = Proposition(e)
         /\ with_remote(e, p)' = with_remote(e, p)
  BY Zenon DEF Proposition, with_remote, hashes_ordering, Digest

\* A frame stays genuine while its sender keeps what it has settled.
LEMMA GenuineKept ==
  ASSUME Settles, NEW e \in Ends, NEW f, Genuine(e, f) PROVE Genuine(e, f)'
  <1>1. /\ remote[e] # <<>> => remote'[e] = remote[e] /\ chosen'[e] = chosen[e]
        /\ keys[e] # <<>> => keys'[e] = keys[e]
        /\ setup' = setup
    BY Zenon DEF Settles
  <1>2. Proposition(e)' = Proposition(e)
    BY Zenon, <1>1, SameSetup
  <1>3. f = Frame(f.t, f.v)
    BY Zenon DEF Genuine
  <1>4. f.t = "cipher" => keys'[e] # <<>> /\ IsSequence(f.v.bytes)
    BY <1>1, Zenon DEF Genuine
  <1>5. ASSUME f.t = "exchange"
        PROVE /\ remote'[e] # <<>>
              /\ f.v = [epubkey |-> f.v.epubkey,
                        signature |-> [by |-> setup'.key[e],
                          over |-> <<Proposition(e)', remote'[e][1],
                                     generate_agreement(e, chosen'[e][1].exchange)>>]]
    BY <1>1, <1>2, <1>5, Zenon DEF Genuine, Signature
  <1> QED
    BY <1>3, <1>4, <1>5, Zenon DEF Genuine, Signature

\* So does what the keys show.
LEMMA SettledKept ==
  ASSUME Settles, NEW e \in Ends, Settled(e), keys[e] # <<>> PROVE Settled(e)'
  <1>1. Other(e) \in Ends
    BY Zenon, OtherFacts
  <1>2. Proposition(e)' = Proposition(e) /\ Proposition(Other(e))' = Proposition(Other(e))
    BY Zenon, SameSetup DEF Settles
  <1>3. remote[e] # <<>> /\ remote[Other(e)] # <<>>
    BY SMTT(30) DEF Settled
  <1>4. /\ remote'[e] = remote[e] /\ chosen'[e] = chosen[e] /\ keys'[e] = keys[e]
        /\ remote'[Other(e)] = remote[Other(e)] /\ chosen'[Other(e)] = chosen[Other(e)]
    BY <1>1, <1>3, Zenon DEF Settles
  <1> QED
    BY <1>2, <1>4, Zenon DEF Settled

\* An end that only sends its proposition, finishes the nonce or fails holds what it held.
LEMMA StagedKept ==
  ASSUME NEW e \in Ends, Staged(e), setup' = setup,
         \/ pc'[e] = pc[e] \/ pc'[e] = "failed"
         \/ pc[e] = "start" /\ pc'[e] = "propose"
         \/ pc[e] = "nonce" /\ pc'[e] = "secure",
         remote'[e] = remote[e], chosen'[e] = chosen[e], keys'[e] = keys[e],
         keys[e] = <<>> => count'[e] = count[e]
  PROVE  Staged(e)'
  <1>1. remote[e] # <<>> => with_remote(e, remote[e][1])' = with_remote(e, remote[e][1])
    <2>1. PICK p : p = remote[e][1]
      BY Zenon
    <2>2. remote'[e][1] = p /\ with_remote(e, p)' = with_remote(e, p)
      BY Zenon, <2>1, SameSetup
    <2>3. with_remote(e, remote[e][1])' = with_remote(e, p)
      BY Zenon, <2>2
    <2> QED
      BY Zenon, <2>1, <2>3
  <1> QED
    BY <1>1, Zenon DEF Staged

-----------------------------------------------------------------------------
(* The wire and the stream on it *)

\* Moves, one direction at a time.
LEMMA MovesFacts ==
  ASSUME NEW e \in Ends, NEW takes \in BOOLEAN, NEW sends, DOMAIN wire = Ends,
         Moves(e, takes, sends)
  PROVE  /\ DOMAIN wire' = Ends
         /\ wire'[e] = IF cut THEN wire[e] ELSE wire[e] \o sends
         /\ wire'[Other(e)] = IF takes THEN Tail(wire[Other(e)]) ELSE wire[Other(e)]
  <1>1. Other(e) \in Ends /\ Other(e) # e
    BY Zenon, OtherFacts
  <1>2. wire' = [[wire EXCEPT ![Other(e)] = IF takes THEN Tail(wire[Other(e)]) ELSE wire[Other(e)]]
                   EXCEPT ![e] = IF cut THEN wire[e] ELSE wire[e] \o sends]
    BY Zenon, <1>1 DEF Moves
  <1> QED
    BY <1>1, <1>2, Zenon

\* To show the wire genuine after a step, frame by frame.
LEMMA WireByFrames ==
  ASSUME \A x \in Ends : /\ IsSequence(wire'[x])
                         /\ \A i \in 1..Len(wire'[x]) : \E f : f = wire'[x][i] /\ Genuine(x, f)'
  PROVE  WireGenuine'
  <1>1. ASSUME NEW x \in Ends, NEW i \in 1..Len(wire'[x]) PROVE Genuine(x, wire[x][i])'
    <2>1. PICK f : f = wire'[x][i] /\ Genuine(x, f)'
      BY Zenon
    <2> QED
      BY <2>1, Zenon
  <1> QED
    BY <1>1, Zenon DEF WireGenuine

\* A step that takes a frame off the wire, puts some on it, or both, keeps it genuine.
LEMMA WireMoves ==
  ASSUME NEW e \in Ends, NEW takes \in BOOLEAN, NEW sends, DOMAIN wire = Ends, WireGenuine, Settles,
         Moves(e, takes, sends), takes => Arrived(e), IsSequence(sends),
         \A i \in 1..Len(sends) : Genuine(e, sends[i])'
  PROVE  /\ WireGenuine' /\ DOMAIN wire' = Ends
         /\ ~cut => Len(wire'[e]) = Len(wire[e]) + Len(sends)
         /\ Len(wire'[Other(e)]) = IF takes THEN Len(wire[Other(e)]) - 1 ELSE Len(wire[Other(e)])
  <1> DEFINE o == Other(e)
  <1>1. o \in Ends /\ o # e /\ \A x \in Ends : x = e \/ x = o
    BY Zenon, OtherFacts
  <1>2. /\ DOMAIN wire' = Ends
        /\ wire'[e] = IF cut THEN wire[e] ELSE wire[e] \o sends
        /\ wire'[o] = IF takes THEN Tail(wire[o]) ELSE wire[o]
    BY Zenon, MovesFacts
  <1>3. \A x \in Ends : IsSequence(wire[x]) /\ \A i \in 1..Len(wire[x]) : Genuine(x, wire[x][i])
    BY Zenon DEF WireGenuine
  <1>4. /\ IsSequence(wire'[e])
        /\ ~cut => Len(wire'[e]) = Len(wire[e]) + Len(sends)
        /\ \A i \in 1..Len(wire'[e]) : \E f : f = wire'[e][i] /\ Genuine(e, f)'
    <2>1. CASE cut
      <3>1. wire'[e] = wire[e]
        BY Zenon, <1>2, <2>1
      <3>2. ASSUME NEW i \in 1..Len(wire[e]) PROVE \E f : f = wire[e][i] /\ Genuine(e, f)'
        <4>1. PICK f : f = wire[e][i]
          BY Zenon
        <4>2. Genuine(e, f)
          BY <1>3, <4>1, Zenon
        <4> QED
          BY Zenon, <4>1, <4>2, GenuineKept
      <3> QED
        BY <1>3, <2>1, <3>1, <3>2, Zenon
    <2>2. CASE ~cut
      <3>1. wire'[e] = wire[e] \o sends /\ IsSequence(wire[e])
        BY Zenon, <1>2, <1>3, <2>2
      <3>2. /\ IsSequence(wire'[e]) /\ Len(wire'[e]) = Len(wire[e]) + Len(sends)
            /\ \A i \in 1..Len(wire'[e]) :
                 wire'[e][i] = IF i <= Len(wire[e]) THEN wire[e][i] ELSE sends[i - Len(wire[e])]
        BY SMTT(30), <3>1, JoinIsSequence
      <3>3. Len(wire[e]) \in Nat /\ Len(sends) \in Nat
        BY Zenon, <3>1, SequenceFacts
      <3>4. ASSUME NEW i \in 1..Len(wire'[e]) PROVE \E f : f = wire'[e][i] /\ Genuine(e, f)'
        <4>1. CASE i <= Len(wire[e])
          <5>1. i \in 1..Len(wire[e]) /\ wire'[e][i] = wire[e][i]
            BY <3>2, <3>3, <3>4, <4>1, SMTT(30)
          <5>2. PICK f : f = wire[e][i]
            BY Zenon
          <5>3. Genuine(e, f)
            BY <1>3, <5>1, <5>2, Zenon
          <5> QED
            BY Zenon, <5>1, <5>2, <5>3, GenuineKept
        <4>2. CASE ~ (i <= Len(wire[e]))
          <5>1. i - Len(wire[e]) \in 1..Len(sends) /\ wire'[e][i] = sends[i - Len(wire[e])]
            BY <3>2, <3>3, <3>4, <4>2, SMTT(30)
          <5>2. PICK j : j = i - Len(wire[e])
            BY Zenon
          <5>3. PICK f : f = sends[j]
            BY Zenon
          <5>4. Genuine(e, f)'
            BY Zenon, <5>1, <5>2, <5>3
          <5> QED
            BY Zenon, <5>1, <5>2, <5>3, <5>4
        <4> QED
          BY Zenon, <4>1, <4>2
      <3> QED
        BY Zenon, <3>2, <3>4
    <2> QED
      BY Zenon, <2>1, <2>2
  <1>5. /\ IsSequence(wire'[o])
        /\ Len(wire'[o]) = IF takes THEN Len(wire[o]) - 1 ELSE Len(wire[o])
        /\ \A i \in 1..Len(wire'[o]) : \E f : f = wire'[o][i] /\ Genuine(o, f)'
    <2>1. CASE ~takes
      <3>1. wire'[o] = wire[o]
        BY Zenon, <1>2, <2>1
      <3>2. ASSUME NEW i \in 1..Len(wire[o]) PROVE \E f : f = wire[o][i] /\ Genuine(o, f)'
        <4>1. PICK f : f = wire[o][i]
          BY Zenon
        <4>2. Genuine(o, f)
          BY <1>1, <1>3, <4>1, Zenon
        <4> QED
          BY Zenon, <1>1, <4>1, <4>2, GenuineKept
      <3> QED
        BY <1>1, <1>3, <2>1, <3>1, <3>2, Zenon
    <2>2. CASE takes
      <3>1. wire'[o] = Tail(wire[o]) /\ IsSequence(wire[o]) /\ wire[o] # <<>>
        BY Zenon, <1>1, <1>2, <1>3, <2>2 DEF Arrived
      <3>2. /\ IsSequence(wire'[o]) /\ Len(wire'[o]) = Len(wire[o]) - 1 /\ Len(wire[o]) \in Nat \ {0}
            /\ \A i \in 1..Len(wire'[o]) : wire'[o][i] = wire[o][i + 1]
        BY Zenon, <3>1, TailIsSequence
      <3>3. ASSUME NEW i \in 1..Len(wire'[o]) PROVE \E f : f = wire'[o][i] /\ Genuine(o, f)'
        <4>1. i + 1 \in 1..Len(wire[o]) /\ wire'[o][i] = wire[o][i + 1]
          BY <3>2, <3>3, SMTT(30)
        <4>2. PICK f : f = wire[o][i + 1]
          BY Zenon
        <4>3. Genuine(o, f)
          BY <1>1, <1>3, <4>1, <4>2, Zenon
        <4> QED
          BY SMTT(30), <1>1, <4>1, <4>2, <4>3, GenuineKept
      <3> QED
        BY Zenon, <2>2, <3>2, <3>3
    <2> QED
      BY Zenon, <2>1, <2>2
  <1>6. ASSUME NEW x \in Ends
        PROVE  /\ IsSequence(wire'[x])
               /\ \A i \in 1..Len(wire'[x]) : \E f : f = wire'[x][i] /\ Genuine(x, f)'
    BY <1>1, <1>4, <1>5, <1>6, Zenon
  <1>7. WireGenuine'
    BY Zenon, <1>6, WireByFrames
  <1> QED
    BY SMTT(30), <1>2, <1>4, <1>5, <1>7

\* The smaller of two lengths.
LEMMA MinFacts ==
  ASSUME NEW a \in Nat, NEW b \in Nat
  PROVE  Min({a, b}) \in Nat /\ Min({a, b}) <= a /\ Min({a, b}) <= b
  <1>1. \E x \in {a, b} : \A y \in {a, b} : x =< y
    BY SMTT(30)
  <1>2. Min({a, b}) \in {a, b} /\ \A y \in {a, b} : Min({a, b}) =< y
    BY <1>1, Zenon DEF Min
  <1> QED
    BY Zenon, <1>2

\* The largest buffer the stream is read with.
LEMMA MaxFacts == Max(ReadSizes) \in Nat /\ \A n \in ReadSizes : n \in Nat /\ n <= Max(ReadSizes)
  <1>1. \E x \in ReadSizes : \A y \in ReadSizes : x >= y
    BY Zenon, SizesAssumption
  <1>2. Max(ReadSizes) \in ReadSizes /\ \A y \in ReadSizes : Max(ReadSizes) >= y
    BY <1>1, Zenon DEF Max
  <1>3. PICK m : m = Max(ReadSizes)
    BY Zenon
  <1>4. m \in Nat /\ \A y \in ReadSizes : y \in Nat /\ m >= y
    BY <1>2, <1>3, SizesAssumption, Zenon
  <1>5. \A y \in ReadSizes : y <= m
    BY Zenon, <1>4
  <1> QED
    BY <1>3, <1>4, <1>5, Zenon

\* What one read of the stream gives, and what it shows of the other end.
LEMMA PollRead ==
  ASSUME NEW e \in Ends, NEW size \in Nat, Shapes, WireGenuine, ReadFromOther, Readable(e),
         poll_read(e, size).ok
  PROVE  LET r == poll_read(e, size) IN
         /\ IsSequence(r.out) /\ IsSequence(r.rest) /\ Len(r.out) \in Nat /\ Len(r.out) <= size
         /\ r.fresh \in BOOLEAN /\ (r.fresh => Arrived(e))
         /\ keys[Other(e)] # <<>>
  <1> DEFINE o == Other(e)
             fresh == recv_buf[e] = <<>>
             data == IF fresh THEN Incoming(e).v.bytes ELSE recv_buf[e]
             n == Min({size, Len(data)})
             r == poll_read(e, size)
  <1>1. /\ fresh => Decrypts(keys[e][1].dec, count[e].dec, Incoming(e))
        /\ r = [ok |-> TRUE, fresh |-> fresh, out |-> SubSeq(data, 1, n),
                rest |-> SubSeq(data, n + 1, Len(data))]
    BY Zenon DEF poll_read
  <1>2. fresh => Arrived(e)
    BY Zenon DEF Readable
  <1>3. o \in Ends /\ IsSequence(wire[o]) /\ IsSequence(recv_buf[e])
    BY OtherFacts, Zenon DEF WireGenuine, Shapes
  <1>4. ASSUME fresh PROVE IsSequence(data) /\ keys[o] # <<>>
    <2>1. Incoming(e) = wire[o][1] /\ 1 \in 1..Len(wire[o])
      BY <1>2, <1>3, <1>4, TailIsSequence, SMTT(30) DEF Incoming, Arrived
    <2>2. Genuine(o, Incoming(e))
      BY <1>3, <2>1, Zenon DEF WireGenuine
    <2>3. Incoming(e).t = "cipher"
      BY <1>1, <1>4, Zenon DEF Decrypts
    <2> QED
      BY <1>4, <2>2, <2>3, Zenon DEF Genuine
  <1>5. ASSUME ~fresh PROVE IsSequence(data) /\ keys[o] # <<>>
    BY <1>3, <1>5, Zenon DEF ReadFromOther
  <1>6. IsSequence(data) /\ keys[o] # <<>>
    BY <1>4, <1>5, Zenon
  <1> HIDE DEF data
  <1>7. Len(data) \in Nat
    BY <1>6, SequenceFacts, Zenon
  <1>8. n \in Nat /\ n <= size /\ n <= Len(data)
    BY <1>7, MinFacts, Zenon
  <1> HIDE DEF n
  <1>9. n + 1 \in Nat \ {0} /\ 1 \in Nat \ {0} /\ Len(data) <= Len(data)
    BY <1>7, <1>8, SMTT(30)
  <1>10. /\ IsSequence(SubSeq(data, 1, n)) /\ IsSequence(SubSeq(data, n + 1, Len(data)))
         /\ Len(SubSeq(data, 1, n)) = IF 1 <= n THEN n - 1 + 1 ELSE 0
    BY <1>6, <1>7, <1>8, <1>9, PartIsSequence, Zenon
  <1>11. Len(SubSeq(data, 1, n)) \in Nat /\ Len(SubSeq(data, 1, n)) <= size
    BY <1>8, <1>10, SMTT(30)
  <1> HIDE DEF fresh, r
  <1>12. /\ r.out = SubSeq(data, 1, n) /\ r.rest = SubSeq(data, n + 1, Len(data))
         /\ r.fresh = fresh
    BY <1>1, Zenon
  <1> QED
    BY <1>2, <1>6, <1>10, <1>11, <1>12, Zenon DEF fresh, r

-----------------------------------------------------------------------------
(* The parts of the invariant that most steps keep in the same way *)

\* A step that changes no proposition, choice or key keeps what each end holds.
LEMMA EndsKept ==
  ASSUME HandshakeInvariant, UNCHANGED <<setup, remote, chosen, keys>>,
         \A x \in Ends : /\ \/ pc'[x] = pc[x] \/ pc'[x] = "failed"
                            \/ pc[x] = "start" /\ pc'[x] = "propose"
                            \/ pc[x] = "nonce" /\ pc'[x] = "secure"
                         /\ keys[x] = <<>> => count'[x] = count[x]
  PROVE  Settles /\ \A x \in Ends : Staged(x)' /\ (keys'[x] # <<>> => Settled(x)')
  <1>1. Settles
    BY Zenon DEF Settles
  <1>2. ASSUME NEW x \in Ends PROVE Staged(x)'
    <2>1. Staged(x)
      BY Zenon DEF HandshakeInvariant
    <2> QED
      BY <2>1, StagedKept, Zenon
  <1>3. ASSUME NEW x \in Ends, keys'[x] # <<>> PROVE Settled(x)'
    <2>1. Settled(x) /\ keys[x] # <<>>
      BY <1>3, Zenon DEF HandshakeInvariant
    <2> QED
      BY <1>1, <2>1, SettledKept, Zenon
  <1> QED
    BY <1>1, <1>2, <1>3, Zenon

\* The numbers of frames are natural numbers.
LEMMA FramesAreNat ==
  ASSUME HandshakeInvariant, NEW x \in Ends
  PROVE  FramesSent(x) \in Nat /\ FramesTaken(x) \in Nat /\ Len(wire[x]) \in Nat
  <1>1. Len(wire[x]) \in Nat
    BY SequenceFacts, Zenon DEF HandshakeInvariant, WireGenuine
  <1>2. count[x].enc \in Nat /\ count[x].dec \in Nat
    BY Zenon DEF HandshakeInvariant, Shapes
  <1>3. FramesSent(x) \in Nat
    BY <1>2, SMTT(30) DEF FramesSent
  <1>4. FramesTaken(x) \in Nat
    BY <1>2, SMTT(30) DEF FramesTaken
  <1> QED
    BY Zenon, <1>1, <1>3, <1>4

\* An end that sends n frames and takes one or none changes the wire by just these.
LEMMA NoneLostKept ==
  ASSUME HandshakeInvariant, NEW e \in Ends, NEW takes \in BOOLEAN, NEW n \in Nat,
         cut' = cut, pc[e] # "failed", pc'[Other(e)] = pc[Other(e)], count'[Other(e)] = count[Other(e)],
         FramesSent(e)' = FramesSent(e) + n,
         FramesTaken(e)' = IF takes THEN FramesTaken(e) + 1 ELSE FramesTaken(e),
         ~cut => Len(wire'[e]) = Len(wire[e]) + n,
         Len(wire'[Other(e)]) = IF takes THEN Len(wire[Other(e)]) - 1 ELSE Len(wire[Other(e)])
  PROVE  NoneLost'
  <1> DEFINE o == Other(e)
  <1>1. o \in Ends /\ o # e /\ Other(o) = e /\ \A x \in Ends : x = e \/ x = o
    BY Zenon, OtherFacts
  <1>2. SUFFICES ASSUME ~cut', "failed" \notin {pc'[x] : x \in Ends}
                 PROVE  \A x \in Ends : Len(wire'[x]) = FramesSent(x)' - FramesTaken(Other(x))'
    BY Zenon DEF NoneLost
  <1>3. "failed" \notin {pc[x] : x \in Ends}
    BY <1>1, <1>2, Zenon
  <1>4. /\ Len(wire[e]) = FramesSent(e) - FramesTaken(o)
        /\ Len(wire[o]) = FramesSent(o) - FramesTaken(e)
    <2>1. \A x \in Ends : Len(wire[x]) = FramesSent(x) - FramesTaken(Other(x))
      BY <1>2, <1>3, Zenon DEF NoneLost, HandshakeInvariant
    <2> QED
      BY <1>1, <2>1, Zenon
  <1>5. FramesSent(o)' = FramesSent(o) /\ FramesTaken(o)' = FramesTaken(o)
    BY Zenon DEF FramesSent, FramesTaken
  <1>6. /\ FramesSent(o) \in Nat /\ FramesTaken(o) \in Nat /\ FramesSent(e) \in Nat
        /\ FramesTaken(e) \in Nat
    BY <1>1, FramesAreNat, Zenon
  <1>7. Len(wire'[e]) = FramesSent(e)' - FramesTaken(o)'
    BY <1>2, <1>4, <1>5, <1>6, SMTT(30)
  <1>8. Len(wire'[o]) = FramesSent(o)' - FramesTaken(e)'
    <2>1. CASE takes
      BY <1>4, <1>5, <1>6, <2>1, SMTT(30)
    <2>2. CASE ~takes
      BY Zenon, <1>4, <1>5, <1>6, <2>2
    <2> QED
      BY Zenon, <2>1, <2>2
  <1> QED
    BY <1>1, <1>7, <1>8, Zenon

\* Numbers, and stages that are not the failed one.
LEMMA NatOne == 0 \in Nat /\ 1 \in Nat /\ "start" # "failed" /\ "propose" # "failed"
                /\ "exchange" # "failed" /\ "nonce" # "failed" /\ "secure" # "failed"
  BY Zenon

\* A frame that an end sends, and perhaps one that it takes.
LEMMA WireSends ==
  ASSUME NEW e \in Ends, NEW takes \in BOOLEAN, NEW f, DOMAIN wire = Ends, WireGenuine, Settles,
         Moves(e, takes, <<f>>), takes => Arrived(e), Genuine(e, f)'
  PROVE  /\ WireGenuine' /\ DOMAIN wire' = Ends
         /\ ~cut => Len(wire'[e]) = Len(wire[e]) + 1
         /\ Len(wire'[Other(e)]) = IF takes THEN Len(wire[Other(e)]) - 1 ELSE Len(wire[Other(e)])
  <1>1. PICK q : q = <<f>>
    BY Zenon
  <1>2. IsSequence(q) /\ Len(q) = 1 /\ q[1] = f
    BY <1>1, OneIsSequence, Zenon
  <1>3. \A i \in 1..Len(q) : q[i] = f
    BY <1>2, SMTT(30)
  <1>4. \A i \in 1..Len(q) : Genuine(e, q[i])'
    BY <1>3, Zenon
  <1>5. Moves(e, takes, q)
    BY Zenon, <1>1
  <1>6. /\ WireGenuine' /\ DOMAIN wire' = Ends
        /\ ~cut => Len(wire'[e]) = Len(wire[e]) + Len(q)
        /\ Len(wire'[Other(e)]) = IF takes THEN Len(wire[Other(e)]) - 1 ELSE Len(wire[Other(e)])
    BY Zenon, <1>2, <1>4, <1>5, WireMoves
  <1> QED
    BY <1>2, <1>6, Zenon

\* A step that sends nothing, and perhaps takes a frame.
LEMMA WireTakes ==
  ASSUME NEW e \in Ends, NEW takes \in BOOLEAN, DOMAIN wire = Ends, WireGenuine, Settles,
         Moves(e, takes, <<>>), takes => Arrived(e)
  PROVE  /\ WireGenuine' /\ DOMAIN wire' = Ends
         /\ ~cut => Len(wire'[e]) = Len(wire[e]) + 0
         /\ Len(wire'[Other(e)]) = IF takes THEN Len(wire[Other(e)]) - 1 ELSE Len(wire[Other(e)])
  <1>1. PICK q : q = <<>>
    BY Zenon
  <1>2. IsSequence(q) /\ Len(q) = 0
    BY <1>1, EmptyIsSequence, Zenon
  <1>3. \A i \in 1..Len(q) : FALSE
    BY <1>2, SMTT(30)
  <1>4. \A i \in 1..Len(q) : Genuine(e, q[i])'
    BY <1>3, Zenon
  <1>5. Moves(e, takes, q)
    BY Zenon, <1>1
  <1> QED
    BY <1>2, <1>4, <1>5, WireMoves, Zenon

-----------------------------------------------------------------------------
(* One lemma per step of an end and of the network *)

\* Fails: the socket is dropped.
LEMMA FailsStep ==
  ASSUME HandshakeInvariant, NEW e \in Ends, Fails(e), UNCHANGED svars PROVE HandshakeInvariant'
  <1> DEFINE o == Other(e)
  <1>1. o \in Ends /\ o # e /\ Other(o) = e /\ \A x \in Ends : x = e \/ x = o
    BY Zenon, OtherFacts
  <1>2. /\ UNCHANGED <<setup, cut, remote, chosen, keys, count, recv_buf, taken, faults>>
        /\ UNCHANGED <<sel, version, out, buf, got, sent>>
        /\ pc' = [pc EXCEPT ![e] = "failed"] /\ wire' = [wire EXCEPT ![o] = <<>>]
    BY Zenon DEF Fails, Goes, svars
  <1>3. /\ TypeOK /\ Shapes /\ WireGenuine /\ ReadFromOther
        /\ pc \in [Ends -> {"start", "propose", "exchange", "nonce", "secure", "failed"}]
        /\ DOMAIN wire = Ends
    BY Zenon DEF HandshakeInvariant, TypeOK, Shapes
  <1>4. /\ pc' \in [Ends -> {"start", "propose", "exchange", "nonce", "secure", "failed"}]
        /\ pc'[e] = "failed" /\ pc'[o] = pc[o]
        /\ DOMAIN wire' = Ends /\ wire'[o] = <<>> /\ wire'[e] = wire[e]
    BY <1>1, <1>2, <1>3, Zenon
  <1>5. Settles /\ \A x \in Ends : Staged(x)' /\ (keys'[x] # <<>> => Settled(x)')
    BY <1>1, <1>2, <1>4, EndsKept, Zenon
  <1>6. TypeOK'
    BY <1>2, <1>3, <1>4, Zenon DEF TypeOK
  <1>7. Shapes'
    BY <1>2, <1>3, <1>4, Zenon DEF Shapes
  <1>8. WireGenuine'
    <2>1. \A i \in 1..Len(wire[e]) : \E f : f = wire[e][i] /\ Genuine(e, f)'
      <3>1. TAKE i \in 1..Len(wire[e])
      <3>2. PICK f : f = wire[e][i]
        BY Zenon
      <3>3. Genuine(e, f)
        BY <1>3, <3>2, Zenon DEF WireGenuine
      <3> QED
        BY SMTT(30), <1>5, <3>2, <3>3, GenuineKept
    <2>2. IsSequence(wire[e]) /\ IsSequence(<<>>)
      BY <1>3, EmptyIsSequence, Zenon DEF WireGenuine
    <2>3. \A i \in 1..Len(wire'[o]) : FALSE
      BY <1>4, EmptyIsSequence, SMTT(30)
    <2>4. ASSUME NEW x \in Ends
          PROVE  /\ IsSequence(wire'[x])
                 /\ \A i \in 1..Len(wire'[x]) : \E f : f = wire'[x][i] /\ Genuine(x, f)'
      <3>1. CASE x = e
        BY <1>4, <2>1, <2>2, <3>1, Zenon
      <3>2. CASE x = o
        BY <1>4, <2>2, <2>3, <3>2, Zenon
      <3> QED
        BY Zenon, <1>1, <3>1, <3>2
    <2> QED
      BY <2>4, WireByFrames, Zenon
  <1>9. ReadFromOther'
    BY <1>1, <1>2, <1>3, <1>4, Zenon DEF ReadFromOther
  <1>10. NoneLost'
    BY <1>4, Zenon DEF NoneLost
  <1> QED
    BY <1>5, <1>6, <1>7, <1>8, <1>9, <1>10, Zenon DEF HandshakeInvariant

\* SendPropose: our proposition is sent.
LEMMA SendProposeStep ==
  ASSUME HandshakeInvariant, NEW e \in Ends, SendPropose(e), UNCHANGED svars PROVE HandshakeInvariant'
  <1> DEFINE o == Other(e)
             f == Frame("propose", Proposition(e))
  <1>1. o \in Ends /\ o # e /\ Other(o) = e /\ \A x \in Ends : x = e \/ x = o
    BY Zenon, OtherFacts
  <1>2. /\ UNCHANGED <<setup, cut, remote, chosen, keys, count, recv_buf, taken, faults>>
        /\ UNCHANGED <<sel, version, out, buf, got, sent>>
        /\ pc[e] = "start" /\ pc' = [pc EXCEPT ![e] = "propose"] /\ Moves(e, FALSE, <<f>>)
    BY Zenon DEF SendPropose, Goes, svars
  <1>3. /\ TypeOK /\ Shapes /\ WireGenuine /\ ReadFromOther
        /\ pc \in [Ends -> {"start", "propose", "exchange", "nonce", "secure", "failed"}]
        /\ DOMAIN wire = Ends /\ count \in [Ends -> [enc : Nat, dec : Nat]]
    BY Zenon DEF HandshakeInvariant, TypeOK, Shapes
  <1>4. /\ pc' \in [Ends -> {"start", "propose", "exchange", "nonce", "secure", "failed"}]
        /\ pc'[e] = "propose" /\ pc'[o] = pc[o]
    BY <1>1, <1>2, <1>3, Zenon
  <1>5. Settles /\ \A x \in Ends : Staged(x)' /\ (keys'[x] # <<>> => Settled(x)')
    BY <1>1, <1>2, <1>4, EndsKept, Zenon
  <1>6. PICK g : g = f
    BY Zenon
  <1>7. g.t = "propose" /\ g = Frame(g.t, g.v)
    BY <1>6, Zenon DEF Frame
  <1>8. Genuine(e, g)
    BY Zenon, <1>7 DEF Genuine
  <1>9. Genuine(e, g)'
    BY Zenon, <1>5, <1>8, GenuineKept
  <1> HIDE DEF f
  <1>10. /\ WireGenuine' /\ DOMAIN wire' = Ends
         /\ ~cut => Len(wire'[e]) = Len(wire[e]) + 1
         /\ Len(wire'[o]) = IF FALSE THEN Len(wire[o]) - 1 ELSE Len(wire[o])
    BY <1>2, <1>3, <1>5, <1>6, <1>9, WireSends, Zenon
  <1>11. TypeOK'
    BY <1>2, <1>3, <1>4, Zenon DEF TypeOK
  <1>12. Shapes'
    BY <1>2, <1>3, <1>10, Zenon DEF Shapes
  <1>13. ReadFromOther'
    BY <1>1, <1>2, <1>3, <1>4, Zenon DEF ReadFromOther
  <1>14. NoneLost'
    <2>1. FramesSent(e)' = FramesSent(e) + 1 /\ FramesTaken(e)' = FramesTaken(e)
      BY <1>2, <1>3, <1>4, SMTT(30) DEF FramesSent, FramesTaken
    <2> QED
      BY <1>2, <1>4, <1>10, <2>1, NoneLostKept, NatOne, Zenon
  <1> QED
    BY <1>5, <1>10, <1>11, <1>12, <1>13, <1>14, Zenon DEF HandshakeInvariant

\* The remote's proposition is taken over, and our Exchange signed over both.
LEMMA RecvProposeStep ==
  ASSUME HandshakeInvariant, NEW e \in Ends, pc[e] = "propose", Arrived(e), Incoming(e).t = "propose",
         NEW propose, propose = Incoming(e).v, NEW c, c = with_remote(e, propose),
         NEW f, f = Frame("exchange",
                      [epubkey |-> generate_agreement(e, c.exchange),
                       signature |-> Signature(e, Proposition(e), propose,
                                               generate_agreement(e, c.exchange))]),
         Goes(e, "exchange"), remote' = [remote EXCEPT ![e] = <<propose>>],
         chosen' = [chosen EXCEPT ![e] = <<c>>], Moves(e, TRUE, <<f>>),
         UNCHANGED <<setup, cut, keys, count, recv_buf, taken, faults>>, UNCHANGED svars
  PROVE  HandshakeInvariant'
  <1> DEFINE o == Other(e)
  <1>1. o \in Ends /\ o # e /\ Other(o) = e /\ \A x \in Ends : x = e \/ x = o
    BY Zenon, OtherFacts
  <1>2. UNCHANGED <<sel, version, out, buf, got, sent>>
    BY Zenon DEF svars
  <1>3. /\ TypeOK /\ Shapes /\ WireGenuine /\ ReadFromOther
        /\ pc \in [Ends -> {"start", "propose", "exchange", "nonce", "secure", "failed"}]
        /\ DOMAIN wire = Ends /\ DOMAIN remote = Ends /\ DOMAIN chosen = Ends
        /\ count \in [Ends -> [enc : Nat, dec : Nat]] /\ \A x \in Ends : Staged(x)
    BY Zenon DEF HandshakeInvariant, TypeOK, Shapes
  <1>4. /\ pc' \in [Ends -> {"start", "propose", "exchange", "nonce", "secure", "failed"}]
        /\ pc'[e] = "exchange" /\ pc'[o] = pc[o]
        /\ remote'[e] = <<propose>> /\ remote'[o] = remote[o] /\ DOMAIN remote' = Ends
        /\ chosen'[e] = <<c>> /\ chosen'[o] = chosen[o] /\ DOMAIN chosen' = Ends
    BY <1>1, <1>3, Zenon DEF Goes
  <1>5. remote[e] = <<>> /\ keys[e] = <<>> /\ count[e] = [enc |-> 0, dec |-> 0]
    BY <1>3, Zenon DEF Staged
  <1>6. Settles
    BY <1>1, <1>4, <1>5, Zenon DEF Settles
  <1>7. remote'[e] # <<>> /\ remote'[e][1] = propose /\ chosen'[e][1] = c
    BY Zenon, <1>4
  <1>8. Staged(e)'
    <2>1. with_remote(e, propose)' = with_remote(e, propose)
      BY Zenon, SameSetup
    <2>2. (with_remote(e, remote[e][1]))' = c
      BY Zenon, <1>7, <2>1
    <2> QED
      BY <1>4, <1>5, <1>7, <2>2, Zenon DEF Staged
  <1>9. Staged(o)'
    BY <1>1, <1>3, <1>4, StagedKept, Zenon
  <1>10. ASSUME NEW x \in Ends PROVE Staged(x)' /\ (keys'[x] # <<>> => Settled(x)')
    <2>1. Staged(x)'
      BY <1>1, <1>8, <1>9, Zenon
    <2>2. ASSUME keys'[x] # <<>> PROVE Settled(x)'
      <3>1. Settled(x) /\ keys[x] # <<>>
        BY <2>2, Zenon DEF HandshakeInvariant
      <3> QED
        BY Zenon, <1>6, <3>1, SettledKept
    <2> QED
      BY Zenon, <2>1, <2>2
  <1>11. Genuine(e, f)'
    <2>1. f.t = "exchange" /\ f = Frame(f.t, f.v)
      BY Zenon DEF Frame
    <2>2. f.v = [epubkey |-> f.v.epubkey,
                 signature |-> [by |-> setup.key[e],
                                over |-> <<Proposition(e), propose, generate_agreement(e, c.exchange)>>]]
      BY Zenon DEF Frame, Signature
    <2>3. Proposition(e)' = Proposition(e)
      BY Zenon, SameSetup
    <2>4. "exchange" # "cipher"
      BY Zenon
    <2> QED
      BY <1>7, <2>1, <2>2, <2>3, <2>4, Zenon DEF Genuine, Signature
  <1>12. /\ WireGenuine' /\ DOMAIN wire' = Ends
         /\ ~cut => Len(wire'[e]) = Len(wire[e]) + 1
         /\ Len(wire'[o]) = IF TRUE THEN Len(wire[o]) - 1 ELSE Len(wire[o])
    BY <1>3, <1>6, <1>11, WireSends, Zenon
  <1>13. TypeOK'
    BY <1>2, <1>3, <1>4, Zenon DEF TypeOK
  <1>14. Shapes'
    BY <1>2, <1>3, <1>4, <1>12, Zenon DEF Shapes
  <1>15. ReadFromOther'
    BY <1>1, <1>2, <1>3, <1>4, Zenon DEF ReadFromOther
  <1>16. NoneLost'
    <2>1. FramesSent(e)' = FramesSent(e) + 1 /\ FramesTaken(e)' = FramesTaken(e) + 1
      BY <1>4, <1>5, SMTT(30) DEF FramesSent, FramesTaken
    <2> QED
      BY <1>4, <1>12, <2>1, NoneLostKept, NatOne, Zenon
  <1> QED
    BY <1>10, <1>12, <1>13, <1>14, <1>15, <1>16, Zenon DEF HandshakeInvariant

\* The fields of a frame.
LEMMA FrameFields ==
  ASSUME NEW t, NEW v PROVE Frame(t, v).t = t /\ Frame(t, v).v = v
  BY Zenon DEF Frame

\* The signature in an Exchange.
LEMMA RecordField ==
  ASSUME NEW x, NEW s, x = [epubkey |-> x.epubkey, signature |-> s] PROVE x.signature = s
  <1>1. PICK k : k = x.epubkey
    BY Zenon
  <1>2. x = [epubkey |-> k, signature |-> s]
    BY Zenon, <1>1
  <1> QED
    BY <1>2, Zenon

\* The signature shows what the remote holds and has chosen: the keys are settled.
LEMMA RecvExchangeStep ==
  ASSUME HandshakeInvariant, NEW e \in Ends, pc[e] = "exchange", Arrived(e), Incoming(e).t = "exchange",
         NEW exchange, exchange = Incoming(e).v, verify_ecdsa(e, exchange),
         NEW c, c = chosen[e][1], exchange.epubkey.alg = c.exchange, c.order # "equal",
         NEW k, k = stretch_key(c, agree(c.exchange, generate_agreement(e, c.exchange), exchange.epubkey)),
         NEW f, f = encrypt(k.enc, count[e].enc, remote[e][1].rand),
         Goes(e, "nonce"), keys' = [keys EXCEPT ![e] = <<k>>],
         count' = [count EXCEPT ![e].enc = @ + 1], Moves(e, TRUE, <<f>>),
         UNCHANGED <<setup, cut, remote, chosen, recv_buf, taken, faults>>, UNCHANGED svars
  PROVE  HandshakeInvariant'
  <1> DEFINE o == Other(e)
  <1>1. o \in Ends /\ o # e /\ Other(o) = e /\ \A x \in Ends : x = e \/ x = o
    BY Zenon, OtherFacts
  <1>2. UNCHANGED <<sel, version, out, buf, got, sent>>
    BY Zenon DEF svars
  <1>3. /\ TypeOK /\ Shapes /\ WireGenuine /\ ReadFromOther
        /\ pc \in [Ends -> {"start", "propose", "exchange", "nonce", "secure", "failed"}]
        /\ DOMAIN wire = Ends /\ DOMAIN keys = Ends
        /\ count \in [Ends -> [enc : Nat, dec : Nat]] /\ \A x \in Ends : Staged(x)
    BY Zenon DEF HandshakeInvariant, TypeOK, Shapes
  <1>4. /\ pc' \in [Ends -> {"start", "propose", "exchange", "nonce", "secure", "failed"}]
        /\ pc'[e] = "nonce" /\ pc'[o] = pc[o]
        /\ keys'[e] = <<k>> /\ keys'[o] = keys[o] /\ DOMAIN keys' = Ends
    BY <1>1, <1>3, Zenon DEF Goes
  <1>5. keys[e] = <<>> /\ count[e] = [enc |-> 0, dec |-> 0] /\ remote[e] # <<>>
    BY <1>3, Zenon DEF Staged
  <1>6. /\ count' \in [Ends -> [enc : Nat, dec : Nat]] /\ count'[o] = count[o]
        /\ count'[e].enc = 1 /\ count'[e].dec = 0
    <2>1. count' = [count EXCEPT ![e] = [count[e] EXCEPT !.enc = count[e].enc + 1]]
      BY Zenon
    <2>2. [count[e] EXCEPT !.enc = count[e].enc + 1] = [enc |-> 1, dec |-> 0]
      BY <1>5, SMTT(30)
    <2>3. count' = [count EXCEPT ![e] = [enc |-> 1, dec |-> 0]]
      BY Zenon, <2>1, <2>2
    <2> QED
      BY <1>1, <1>3, <2>3, SMTT(30)
  <1>7. Settles
    BY <1>1, <1>4, <1>5, Zenon DEF Settles
  <1>8. keys'[e] # <<>>
    BY Zenon, <1>4
  <1>9. Genuine(o, Incoming(e))
    <2>1. IsSequence(wire[o]) /\ wire[o] # <<>>
      BY <1>1, <1>3, Zenon DEF WireGenuine, Arrived
    <2>2. Incoming(e) = wire[o][1] /\ 1 \in 1..Len(wire[o])
      BY Zenon, <2>1, FirstIn DEF Incoming
    <2> QED
      BY <1>1, <1>3, <2>2, Zenon DEF WireGenuine
  <1>10. /\ remote[o] # <<>>
         /\ exchange.signature = [by |-> setup.key[o],
              over |-> <<Proposition(o), remote[o][1], generate_agreement(o, chosen[o][1].exchange)>>]
    <2>1. /\ remote[o] # <<>>
          /\ exchange = [epubkey |-> exchange.epubkey,
                         signature |-> Signature(o, Proposition(o), remote[o][1],
                                         generate_agreement(o, chosen[o][1].exchange))]
      BY <1>9, Zenon DEF Genuine
    <2>2. PICK s : s = Signature(o, Proposition(o), remote[o][1],
                                 generate_agreement(o, chosen[o][1].exchange))
      BY Zenon
    <2>3. exchange.signature = s
      BY Zenon, <2>1, <2>2, RecordField
    <2> QED
      BY <2>1, <2>2, <2>3, Zenon DEF Signature
  <1>11. /\ remote[e][1] = Proposition(o) /\ remote[o][1] = Proposition(e)
         /\ exchange.epubkey = generate_agreement(o, chosen[o][1].exchange)
    <2>1. [by |-> setup.key[o],
           over |-> <<Proposition(o), remote[o][1], generate_agreement(o, chosen[o][1].exchange)>>]
          = [by |-> remote[e][1].pubkey, over |-> <<remote[e][1], Proposition(e), exchange.epubkey>>]
      BY <1>10, Zenon DEF verify_ecdsa
    <2>2. <<Proposition(o), remote[o][1], generate_agreement(o, chosen[o][1].exchange)>>
          = <<remote[e][1], Proposition(e), exchange.epubkey>>
      BY <2>1, Zenon
    <2> QED
      BY <2>2, Zenon
  <1>12. remote[e] = <<Proposition(o)>> /\ remote[o] = <<Proposition(e)>>
    BY <1>1, <1>3, <1>5, <1>10, <1>11, Zenon DEF Staged
  <1>13. c.exchange = chosen[o][1].exchange
    <2>1. generate_agreement(o, chosen[o][1].exchange).alg = chosen[o][1].exchange
      BY Zenon DEF generate_agreement
    <2> QED
      BY Zenon, <1>11, <2>1
  <1>14. Settled(e)'
    <2>1. Proposition(e)' = Proposition(e) /\ Proposition(o)' = Proposition(o)
      BY Zenon, SameSetup
    <2>2. k = stretch_key(c, agree(c.exchange, generate_agreement(e, c.exchange),
                                  generate_agreement(o, c.exchange)))
      BY Zenon, <1>11, <1>13
    <2> QED
      BY <1>4, <1>12, <1>13, <2>1, <2>2, Zenon DEF Settled
  <1>15. ASSUME NEW x \in Ends PROVE Staged(x)' /\ (keys'[x] # <<>> => Settled(x)')
    <2>1. CASE x = e
      <3>1. remote[e] = <<remote[e][1]>> /\ chosen[e] = <<with_remote(e, remote[e][1])>>
        BY <1>3, <1>5, Zenon DEF Staged
      <3>2. PICK p : p = remote[e][1]
        BY Zenon
      <3>3. with_remote(e, p)' = with_remote(e, p)
        BY Zenon, SameSetup
      <3>4. (with_remote(e, remote[e][1]))' = with_remote(e, remote[e][1])
        BY Zenon, <3>2, <3>3
      <3>5. Staged(e)'
        BY <1>4, <1>5, <1>8, <3>1, <3>4, Zenon DEF Staged
      <3> QED
        BY Zenon, <1>14, <2>1, <3>5
    <2>2. CASE x = o
      <3>1. Staged(o)'
        BY <1>1, <1>3, <1>4, <1>6, StagedKept, Zenon
      <3>2. ASSUME keys'[o] # <<>> PROVE Settled(o)'
        <4>1. Settled(o) /\ keys[o] # <<>>
          BY <1>1, <1>4, <3>2, Zenon DEF HandshakeInvariant
        <4> QED
          BY SMTT(30), <1>1, <1>7, <4>1, SettledKept
      <3> QED
        BY Zenon, <2>2, <3>1, <3>2
    <2> QED
      BY Zenon, <1>1, <2>1, <2>2
  <1>16. Genuine(e, f)'
    <2>1. f.t = "cipher" /\ f = Frame(f.t, f.v) /\ f.v.bytes = Nonce(o)
      <3>1. PICK v : v = [key |-> k.enc, n |-> count[e].enc + 1, bytes |-> remote[e][1].rand]
        BY Zenon
      <3>2. f = [t |-> "cipher", v |-> v]
        BY Zenon, <3>1 DEF Frame, encrypt
      <3>3. f.t = "cipher" /\ f.v = v
        BY SMTT(30), <3>2, FrameFields DEF Frame
      <3>4. v.bytes = remote[e][1].rand
        BY <3>1, Zenon
      <3>5. Proposition(o).rand = Nonce(o)
        BY Zenon DEF Proposition
      <3> QED
        BY <1>11, <3>2, <3>3, <3>4, <3>5, Zenon DEF Frame
    <2>2. IsSequence(Nonce(o))
      <3>1. Nonce(o) \in Seq({[kind |-> "nonce", from |-> o, n |-> i] : i \in 1..NonceSize})
        BY SizesAssumption, SMTT(30) DEF Nonce
      <3> QED
        BY Zenon, <3>1, SequenceIn
    <2>3. "exchange" # "cipher"
      BY Zenon
    <2> QED
      BY <1>8, <2>1, <2>2, <2>3, Zenon DEF Genuine
  <1>17. /\ WireGenuine' /\ DOMAIN wire' = Ends
         /\ ~cut => Len(wire'[e]) = Len(wire[e]) + 1
         /\ Len(wire'[o]) = IF TRUE THEN Len(wire[o]) - 1 ELSE Len(wire[o])
    BY <1>3, <1>7, <1>16, WireSends, Zenon
  <1>18. TypeOK'
    BY <1>2, <1>3, <1>4, Zenon DEF TypeOK
  <1>19. Shapes'
    BY <1>2, <1>3, <1>4, <1>6, <1>17, Zenon DEF Shapes
  <1>20. ReadFromOther'
    BY <1>1, <1>2, <1>3, <1>4, <1>8, Zenon DEF ReadFromOther
  <1>21. NoneLost'
    <2>1. FramesSent(e)' = FramesSent(e) + 1 /\ FramesTaken(e)' = FramesTaken(e) + 1
      BY <1>4, <1>5, <1>6, SMTT(30) DEF FramesSent, FramesTaken
    <2> QED
      BY <1>4, <1>6, <1>17, <2>1, NoneLostKept, NatOne, Zenon
  <1> QED
    BY <1>15, <1>17, <1>18, <1>19, <1>20, <1>21, Zenon DEF HandshakeInvariant

\* A read of the stream by e: what it does to the wire and the counters.
LEMMA ReadsKeeps ==
  ASSUME HandshakeInvariant, NEW e \in Ends, keys[e] # <<>>, NEW size \in Nat, Readable(e),
         NEW r, r = poll_read(e, size), r.ok, Reads(e, r), pc[e] \in {"nonce", "secure"},
         pc' \in [Ends -> {"start", "propose", "exchange", "nonce", "secure", "failed"}],
         pc'[e] \in {"nonce", "secure"}, pc[e] = "secure" => pc'[e] = "secure",
         pc'[Other(e)] = pc[Other(e)],
         DOMAIN taken' = Ends, taken'[Other(e)] = taken[Other(e)],
         UNCHANGED <<setup, cut, remote, chosen, keys, faults>>
  PROVE  /\ WireGenuine' /\ DOMAIN wire' = Ends /\ NoneLost' /\ ReadFromOther'
         /\ count' \in [Ends -> [enc : Nat, dec : Nat]]
         /\ DOMAIN recv_buf' = Ends /\ \A x \in Ends : IsSequence(recv_buf'[x])
         /\ \A x \in Ends : Staged(x)' /\ (keys'[x] # <<>> => Settled(x)')
  <1> DEFINE o == Other(e)
  <1>1. o \in Ends /\ o # e /\ Other(o) = e /\ \A x \in Ends : x = e \/ x = o
    BY Zenon, OtherFacts
  <1>2. /\ Shapes /\ WireGenuine /\ ReadFromOther
        /\ DOMAIN wire = Ends /\ DOMAIN recv_buf = Ends
        /\ count \in [Ends -> [enc : Nat, dec : Nat]]
        /\ IsSequence(recv_buf[o])
    BY <1>1, Zenon DEF HandshakeInvariant, Shapes
  <1>3. /\ IsSequence(r.rest) /\ r.fresh \in BOOLEAN /\ (r.fresh => Arrived(e)) /\ keys[o] # <<>>
    <2>1. poll_read(e, size).ok
      BY Zenon
    <2>2. LET x == poll_read(e, size) IN
            IsSequence(x.rest) /\ x.fresh \in BOOLEAN /\ (x.fresh => Arrived(e)) /\ keys[o] # <<>>
      BY <1>2, <2>1, PollRead, Zenon
    <2> QED
      BY <2>2, Zenon
  <1>4. /\ recv_buf' = [recv_buf EXCEPT ![e] = r.rest]
        /\ count' = [count EXCEPT ![e].dec = IF r.fresh THEN @ + 1 ELSE @]
        /\ Moves(e, r.fresh, <<>>)
    BY Zenon DEF Reads
  <1>5. /\ count' \in [Ends -> [enc : Nat, dec : Nat]] /\ count'[o] = count[o]
        /\ count'[e].enc = count[e].enc
        /\ count'[e].dec = IF r.fresh THEN count[e].dec + 1 ELSE count[e].dec
    <2>1. PICK d : d = IF r.fresh THEN count[e].dec + 1 ELSE count[e].dec
      BY Zenon
    <2>2. d \in Nat /\ count[e] \in [enc : Nat, dec : Nat]
      BY <1>2, <1>3, <2>1, SMTT(30)
    <2>3. count' = [count EXCEPT ![e] = [count[e] EXCEPT !.dec = d]]
      BY Zenon, <1>4, <2>1
    <2>4. [count[e] EXCEPT !.dec = d] \in [enc : Nat, dec : Nat]
          /\ [count[e] EXCEPT !.dec = d].enc = count[e].enc /\ [count[e] EXCEPT !.dec = d].dec = d
      BY Zenon, <2>2
    <2> QED
      BY <1>1, <1>2, <2>1, <2>3, <2>4, Zenon
  <1>6. /\ DOMAIN recv_buf' = Ends /\ recv_buf'[e] = r.rest /\ recv_buf'[o] = recv_buf[o]
        /\ \A x \in Ends : IsSequence(recv_buf'[x])
    BY <1>1, <1>2, <1>3, <1>4, Zenon
  <1>7. Settles /\ \A x \in Ends : Staged(x)' /\ (keys'[x] # <<>> => Settled(x)')
    <2>1. pc'[e] = pc[e] \/ (pc[e] = "nonce" /\ pc'[e] = "secure")
      BY Zenon
    <2>2. ASSUME NEW x \in Ends
          PROVE  /\ \/ pc'[x] = pc[x] \/ pc'[x] = "failed"
                    \/ pc[x] = "start" /\ pc'[x] = "propose"
                    \/ pc[x] = "nonce" /\ pc'[x] = "secure"
                 /\ keys[x] = <<>> => count'[x] = count[x]
      BY <1>1, <1>5, <2>1, Zenon
    <2> QED
      BY <2>2, EndsKept, Zenon
  <1>8. /\ WireGenuine' /\ DOMAIN wire' = Ends
        /\ ~cut => Len(wire'[e]) = Len(wire[e]) + 0
        /\ Len(wire'[o]) = IF r.fresh THEN Len(wire[o]) - 1 ELSE Len(wire[o])
    BY <1>2, <1>3, <1>4, <1>7, WireTakes, Zenon
  <1>9. NoneLost'
    <2>1. count[e].enc \in Nat /\ count[e].dec \in Nat
      BY Zenon, <1>2
    <2>2. FramesSent(e)' = FramesSent(e) + 0
      BY <1>5, <2>1, SMTT(30) DEF FramesSent
    <2>3. FramesTaken(e)' = IF r.fresh THEN FramesTaken(e) + 1 ELSE FramesTaken(e)
      BY <1>3, <1>5, <2>1, SMTT(30) DEF FramesTaken
    <2>4. pc[e] # "failed"
      BY Zenon
    <2> QED
      BY <1>3, <1>5, <1>8, <2>2, <2>3, <2>4, NoneLostKept, NatOne, Zenon
  <1>10. ReadFromOther'
    <2>1. keys'[o] # <<>> /\ keys'[e] # <<>>
      BY Zenon, <1>3
    <2> QED
      BY <1>1, <2>1, Zenon DEF ReadFromOther
  <1> QED
    BY <1>5, <1>6, <1>7, <1>8, <1>9, <1>10, Zenon

=============================================================================
