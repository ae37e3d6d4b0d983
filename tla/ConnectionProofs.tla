-------------------------- MODULE ConnectionProofs --------------------------
(***************************************************************************)
(* SecureEndsAgree for every set of configurations.  The inductive         *)
(* invariant, HandshakeInvariant of Connection, says what the frames on    *)
(* their way prove of their sender: an Exchange, even a changed one, bears *)
(* a signature over the two propositions its sender holds, so that an end  *)
(* that builds its keys knows what the other holds and has chosen.         *)
(***************************************************************************)
EXTENDS ConnectionSteps, InboundConnection

\* verify_nonce: part of our nonce, or the rest of it, came back.
LEMMA NonceStep ==
  ASSUME HandshakeInvariant, NEW e \in Ends, pc[e] = "nonce", Readable(e),
         NEW r, r = poll_read(e, NonceSize - Len(taken[e])), r.ok, Reads(e, r),
         taken' = [taken EXCEPT ![e] = taken[e] \o r.out],
         Goes(e, IF Len(taken[e] \o r.out) = NonceSize THEN "secure" ELSE "nonce"),
         UNCHANGED <<setup, cut, remote, chosen, keys, faults>>, UNCHANGED svars
  PROVE  HandshakeInvariant'
  <1> DEFINE o == Other(e)
  <1>1. o \in Ends /\ o # e /\ Other(o) = e /\ \A x \in Ends : x = e \/ x = o
    BY Zenon, OtherFacts
  <1>2. /\ TypeOK /\ Shapes /\ DOMAIN taken = Ends /\ IsSequence(taken[e])
        /\ Len(taken[e]) <= NonceSize /\ IsSequence(taken[o]) /\ Len(taken[o]) <= NonceSize
        /\ pc \in [Ends -> {"start", "propose", "exchange", "nonce", "secure", "failed"}]
        /\ keys[e] # <<>> /\ WireGenuine /\ ReadFromOther
    BY <1>1, Zenon DEF HandshakeInvariant, TypeOK, Shapes, Staged
  <1>3. PICK size : size = NonceSize - Len(taken[e])
    BY Zenon
  <1>4. size \in Nat /\ Len(taken[e]) \in Nat
    BY <1>2, <1>3, SequenceFacts, SizesAssumption, SMTT(30)
  <1>5. IsSequence(r.out) /\ Len(r.out) \in Nat /\ Len(r.out) <= size
    BY <1>2, <1>3, <1>4, PollRead, Zenon
  <1>6. IsSequence(taken[e] \o r.out) /\ Len(taken[e] \o r.out) = Len(taken[e]) + Len(r.out)
    BY <1>2, <1>5, JoinIsSequence, Zenon
  <1>7. Len(taken[e] \o r.out) <= NonceSize
    <2>1. NonceSize \in Nat
      BY Zenon, SizesAssumption
    <2>2. ASSUME NEW a \in Nat, NEW b \in Nat, b <= NonceSize - a PROVE a + b <= NonceSize
      BY <2>1, <2>2, SMTT(30)
    <2> QED
      BY <1>3, <1>4, <1>5, <1>6, <2>2, Zenon
  <1>8. /\ DOMAIN taken' = Ends /\ taken'[e] = taken[e] \o r.out /\ taken'[o] = taken[o]
        /\ \A x \in Ends : IsSequence(taken'[x]) /\ Len(taken'[x]) <= NonceSize
    BY <1>1, <1>2, <1>6, <1>7, Zenon
  <1>9. /\ pc' \in [Ends -> {"start", "propose", "exchange", "nonce", "secure", "failed"}]
        /\ pc'[e] \in {"nonce", "secure"} /\ pc'[o] = pc[o]
    BY <1>1, <1>2, Zenon DEF Goes
  <1>10. pc[e] \in {"nonce", "secure"} /\ (pc[e] = "secure" => pc'[e] = "secure")
    BY Zenon
  <1>11. /\ WireGenuine' /\ DOMAIN wire' = Ends /\ NoneLost' /\ ReadFromOther'
         /\ count' \in [Ends -> [enc : Nat, dec : Nat]]
         /\ DOMAIN recv_buf' = Ends /\ \A x \in Ends : IsSequence(recv_buf'[x])
         /\ \A x \in Ends : Staged(x)' /\ (keys'[x] # <<>> => Settled(x)')
    BY <1>2, <1>3, <1>4, <1>8, <1>9, <1>10, ReadsKeeps, Zenon
  <1>12. UNCHANGED <<sel, version, out, buf, got, sent>>
    BY Zenon DEF svars
  <1>13. TypeOK'
    BY <1>2, <1>8, <1>9, <1>12, Zenon DEF TypeOK
  <1>14. Shapes'
    BY <1>2, <1>8, <1>11, <1>12, Zenon DEF Shapes
  <1> QED
    BY <1>11, <1>13, <1>14, Zenon DEF HandshakeInvariant

\* Read: bytes of the stream go into Framed's buffer.
LEMMA ReadStep ==
  ASSUME HandshakeInvariant, NEW e \in Ends, pc[e] = "secure", ~Complete(e), Readable(e),
         NEW size \in ReadSizes, NEW r, r = poll_read(e, size), r.ok, Reads(e, r),
         buf' = [buf EXCEPT ![e] = buf[e] \o r.out],
         UNCHANGED <<setup, pc, cut, remote, chosen, keys, taken, faults, sel, version, out, got, sent>>
  PROVE  HandshakeInvariant'
  <1> DEFINE o == Other(e)
  <1>1. o \in Ends /\ o # e /\ Other(o) = e /\ \A x \in Ends : x = e \/ x = o
    BY Zenon, OtherFacts
  <1>2. /\ TypeOK /\ Shapes /\ DOMAIN buf = Ends /\ IsSequence(buf[e]) /\ DOMAIN taken = Ends
        /\ IsSequence(buf[o]) /\ Len(buf[o]) <= 1 + Max(ReadSizes)
        /\ pc \in [Ends -> {"start", "propose", "exchange", "nonce", "secure", "failed"}]
        /\ keys[e] # <<>> /\ WireGenuine /\ ReadFromOther
    BY <1>1, Zenon DEF HandshakeInvariant, TypeOK, Shapes, Staged
  <1>3. size \in Nat /\ Max(ReadSizes) \in Nat /\ size <= Max(ReadSizes)
    BY MaxFacts, Zenon
  <1>4. IsSequence(r.out) /\ Len(r.out) \in Nat /\ Len(r.out) <= size
    BY <1>2, <1>3, PollRead, Zenon
  <1>5. IsSequence(buf[e] \o r.out) /\ Len(buf[e] \o r.out) = Len(buf[e]) + Len(r.out)
    BY <1>2, <1>4, JoinIsSequence, Zenon
  <1>6. Len(buf[e]) \in Nat /\ ~ (Len(buf[e]) >= 2)
    BY <1>2, SequenceFacts, Zenon DEF Complete
  <1>7. Len(buf[e] \o r.out) <= 1 + Max(ReadSizes)
    <2>1. ASSUME NEW a \in Nat, NEW b \in Nat, NEW m \in Nat, ~ (a >= 2), b <= size, size <= m
          PROVE  a + b <= 1 + m
      BY <1>3, <2>1, SMTT(30)
    <2> QED
      BY <1>3, <1>4, <1>5, <1>6, <2>1, Zenon
  <1>8. /\ DOMAIN buf' = Ends
        /\ \A x \in Ends : IsSequence(buf'[x]) /\ Len(buf'[x]) <= 1 + Max(ReadSizes)
    BY <1>1, <1>2, <1>5, <1>7, Zenon
  <1>9. pc[e] \in {"nonce", "secure"} /\ pc' = pc /\ taken' = taken
    BY Zenon
  <1>10. /\ WireGenuine' /\ DOMAIN wire' = Ends /\ NoneLost' /\ ReadFromOther'
         /\ count' \in [Ends -> [enc : Nat, dec : Nat]]
         /\ DOMAIN recv_buf' = Ends /\ \A x \in Ends : IsSequence(recv_buf'[x])
         /\ \A x \in Ends : Staged(x)' /\ (keys'[x] # <<>> => Settled(x)')
    BY <1>2, <1>3, <1>9, ReadsKeeps, Zenon
  <1>11. TypeOK'
    BY <1>2, <1>8, Zenon DEF TypeOK
  <1>12. Shapes'
    BY <1>2, <1>8, <1>10, Zenon DEF Shapes
  <1> QED
    BY <1>10, <1>11, <1>12, Zenon DEF HandshakeInvariant

\* Write: one poll_write, one encrypted frame.
LEMMA WriteStep ==
  ASSUME HandshakeInvariant, NEW e \in Ends, Write(e) PROVE HandshakeInvariant'
  <1> DEFINE o == Other(e)
  <1>1. o \in Ends /\ o # e /\ Other(o) = e /\ \A x \in Ends : x = e \/ x = o
    BY Zenon, OtherFacts
  <1>2. PICK n \in 1..Len(out[e]) :
          /\ poll_write(e, SubSeq(out[e], 1, n))
          /\ out' = [out EXCEPT ![e] = SubSeq(out[e], n + 1, Len(out[e]))]
    BY Zenon DEF Write
  <1>3. /\ pc[e] = "secure"
        /\ UNCHANGED <<setup, pc, cut, remote, chosen, keys, recv_buf, taken, faults,
                       sel, version, buf, got, sent>>
    BY Zenon DEF Write
  <1>4. /\ TypeOK /\ Shapes /\ WireGenuine /\ ReadFromOther
        /\ DOMAIN wire = Ends /\ DOMAIN out = Ends /\ IsSequence(out[e]) /\ IsSequence(out[o])
        /\ count \in [Ends -> [enc : Nat, dec : Nat]] /\ keys[e] # <<>>
    BY <1>1, <1>3, Zenon DEF HandshakeInvariant, TypeOK, Shapes, Staged
  <1>5. PICK bytes : bytes = SubSeq(out[e], 1, n)
    BY Zenon
  <1>6. IsSequence(bytes) /\ IsSequence(SubSeq(out[e], n + 1, Len(out[e])))
    <2>1. /\ n \in Nat /\ n <= Len(out[e]) /\ n + 1 \in Nat \ {0} /\ 1 \in Nat \ {0}
          /\ Len(out[e]) \in Nat /\ Len(out[e]) <= Len(out[e])
      BY <1>2, <1>4, SequenceFacts, SMTT(30)
    <2> QED
      BY <1>4, <1>5, <2>1, PartIsSequence, Zenon
  <1>7. DOMAIN out' = Ends /\ \A x \in Ends : IsSequence(out'[x])
    BY <1>1, <1>2, <1>4, <1>6, Zenon
  <1>8. PICK f : f = encrypt(keys[e][1].enc, count[e].enc, bytes)
    BY Zenon
  <1>9. /\ Moves(e, FALSE, <<f>>)
        /\ count' = [count EXCEPT ![e] = [count[e] EXCEPT !.enc = count[e].enc + 1]]
    BY <1>2, <1>5, <1>8, Zenon DEF poll_write
  <1>10. /\ count' \in [Ends -> [enc : Nat, dec : Nat]] /\ count'[o] = count[o]
         /\ count'[e].enc = count[e].enc + 1 /\ count'[e].dec = count[e].dec
    <2>1. PICK d : d = count[e].enc + 1
      BY Zenon
    <2>2. d \in Nat /\ count[e] \in [enc : Nat, dec : Nat]
      BY <1>4, <2>1, SMTT(30)
    <2>3. /\ [count[e] EXCEPT !.enc = d] \in [enc : Nat, dec : Nat]
          /\ [count[e] EXCEPT !.enc = d].enc = d /\ [count[e] EXCEPT !.enc = d].dec = count[e].dec
      BY Zenon, <2>2
    <2> QED
      BY <1>1, <1>4, <1>9, <2>1, <2>3, Zenon
  <1>11. Settles /\ \A x \in Ends : Staged(x)' /\ (keys'[x] # <<>> => Settled(x)')
    <2>1. ASSUME NEW x \in Ends PROVE pc'[x] = pc[x] /\ (keys[x] = <<>> => count'[x] = count[x])
      BY <1>1, <1>3, <1>4, <1>10, Zenon
    <2> QED
      BY <1>3, <2>1, EndsKept, Zenon
  <1>12. Genuine(e, f)'
    <2>1. PICK v : v = [key |-> keys[e][1].enc, n |-> count[e].enc + 1, bytes |-> bytes]
      BY Zenon
    <2>2. f = Frame("cipher", v) /\ v.bytes = bytes
      BY Zenon, <1>8, <2>1 DEF encrypt
    <2>3. f.t = "cipher" /\ f.v = v
      BY Zenon, <2>2, FrameFields
    <2>4. "exchange" # "cipher"
      BY Zenon
    <2>5. Genuine(e, f)
      BY <1>4, <1>6, <2>2, <2>3, <2>4, Zenon DEF Genuine
    <2> QED
      BY SMTT(30), <1>11, <2>5, GenuineKept
  <1>13. /\ WireGenuine' /\ DOMAIN wire' = Ends
         /\ ~cut => Len(wire'[e]) = Len(wire[e]) + 1
         /\ Len(wire'[o]) = IF FALSE THEN Len(wire[o]) - 1 ELSE Len(wire[o])
    BY <1>4, <1>9, <1>11, <1>12, WireSends, Zenon
  <1>14. TypeOK'
    BY <1>3, <1>4, Zenon DEF TypeOK
  <1>15. Shapes'
    BY <1>3, <1>4, <1>7, <1>10, <1>13, Zenon DEF Shapes
  <1>16. ReadFromOther'
    BY <1>3, <1>4, Zenon DEF ReadFromOther
  <1>17. NoneLost'
    <2>1. count[e].enc \in Nat /\ count[e].dec \in Nat /\ pc'[e] = pc[e]
      BY Zenon, <1>3, <1>4
    <2>2. FramesSent(e)' = FramesSent(e) + 1
      BY <1>10, <2>1, SMTT(30) DEF FramesSent
    <2>3. FramesTaken(e)' = FramesTaken(e)
      BY <1>10, <2>1, Zenon DEF FramesTaken
    <2> QED
      BY <1>3, <1>10, <1>13, <2>2, <2>3, NoneLostKept, NatOne, Zenon
  <1> QED
    BY <1>11, <1>13, <1>14, <1>15, <1>16, <1>17, Zenon DEF HandshakeInvariant

\* The steps of Framed and of the selection leave the handshake alone.
LEMMA UserStep ==
  ASSUME HandshakeInvariant, UNCHANGED hvars,
         sel' \in [Ends -> {"idle", "wait", "open", "refused"}], sent' \in [Ends -> Nat],
         DOMAIN out' = Ends, DOMAIN buf' = Ends,
         \A x \in Ends : /\ sent'[x] \in 0..setup.data[x]
                         /\ IsSequence(out'[x]) /\ IsSequence(buf'[x])
                         /\ Len(buf'[x]) <= 1 + Max(ReadSizes)
  PROVE  HandshakeInvariant'
  <1>1. UNCHANGED <<setup, pc, wire, cut, remote, chosen, keys, count, recv_buf, taken, faults>>
    BY Zenon DEF hvars
  <1>2. TypeOK /\ Shapes /\ WireGenuine /\ ReadFromOther /\ NoneLost
    BY Zenon DEF HandshakeInvariant
  <1>3. TypeOK'
    BY <1>1, <1>2, Zenon DEF TypeOK
  <1>4. Shapes'
    BY <1>1, <1>2, Zenon DEF Shapes
  <1>5. Settles /\ \A x \in Ends : Staged(x)' /\ (keys'[x] # <<>> => Settled(x)')
    BY <1>1, EndsKept, Zenon
  <1>6. WireGenuine'
    <2>1. ASSUME NEW x \in Ends
          PROVE  /\ IsSequence(wire'[x])
                 /\ \A i \in 1..Len(wire'[x]) : \E f : f = wire'[x][i] /\ Genuine(x, f)'
      <3>1. IsSequence(wire'[x])
        BY <1>1, <1>2, Zenon DEF WireGenuine
      <3>2. ASSUME NEW i \in 1..Len(wire'[x]) PROVE \E f : f = wire'[x][i] /\ Genuine(x, f)'
        <4>1. PICK f : f = wire[x][i]
          BY Zenon
        <4>2. Genuine(x, f)
          BY <1>1, <1>2, <4>1, Zenon DEF WireGenuine
        <4> QED
          BY SMTT(30), <1>1, <1>5, <4>1, <4>2, GenuineKept
      <3> QED
        BY Zenon, <3>1, <3>2
    <2> QED
      BY <2>1, WireByFrames, Zenon
  <1>7. ReadFromOther' /\ NoneLost'
    BY <1>1, <1>2, Zenon DEF ReadFromOther, NoneLost, FramesSent, FramesTaken
  <1> QED
    BY <1>3, <1>4, <1>5, <1>6, <1>7, Zenon DEF HandshakeInvariant

\* A message is put into Framed's write buffer.
LEMMA QueueFacts ==
  ASSUME HandshakeInvariant, NEW e \in Ends, NEW m, Queue(e, m)
  PROVE  DOMAIN out' = Ends /\ \A x \in Ends : IsSequence(out'[x])
  <1>1. DOMAIN out = Ends /\ \A x \in Ends : IsSequence(out[x])
    BY Zenon DEF HandshakeInvariant, Shapes
  <1>2. IsSequence(Encoded(m))
    <2>1. Encoded(m) \in Seq({[m |-> m, i |-> "length"], [m |-> m, i |-> "body"]})
      BY SMTT(30) DEF Encoded
    <2> QED
      BY Zenon, <2>1, SequenceIn
  <1>3. IsSequence(out[e] \o Encoded(m))
    BY <1>1, <1>2, JoinIsSequence, Zenon
  <1> QED
    BY <1>1, <1>3, Zenon DEF Queue

\* A message is taken out of its read buffer.
LEMMA TakesFacts ==
  ASSUME HandshakeInvariant, NEW e \in Ends, TakesMessage(e)
  PROVE  /\ DOMAIN buf' = Ends
         /\ \A x \in Ends : IsSequence(buf'[x]) /\ Len(buf'[x]) <= 1 + Max(ReadSizes)
  <1>1. /\ DOMAIN buf = Ends
        /\ \A x \in Ends : IsSequence(buf[x]) /\ Len(buf[x]) <= 1 + Max(ReadSizes)
    BY Zenon DEF HandshakeInvariant, Shapes, TypeOK
  <1>2. Len(buf[e]) \in Nat /\ Max(ReadSizes) \in Nat
    BY <1>1, SequenceFacts, MaxFacts, Zenon
  <1>3. 3 \in Nat \ {0} /\ Len(buf[e]) <= Len(buf[e])
    BY <1>2, SMTT(30)
  <1>4. /\ IsSequence(SubSeq(buf[e], 3, Len(buf[e])))
        /\ Len(SubSeq(buf[e], 3, Len(buf[e]))) = IF 3 <= Len(buf[e]) THEN Len(buf[e]) - 3 + 1 ELSE 0
    BY <1>1, <1>2, <1>3, PartIsSequence, Zenon
  <1>5. ASSUME NEW n \in Nat, NEW m \in Nat, n <= 1 + m
        PROVE  (IF 3 <= n THEN n - 3 + 1 ELSE 0) <= 1 + m
    BY <1>5, SMTT(30)
  <1>6. Len(SubSeq(buf[e], 3, Len(buf[e]))) <= 1 + Max(ReadSizes)
    BY <1>1, <1>2, <1>4, <1>5, Zenon
  <1>7. buf' = [buf EXCEPT ![e] = SubSeq(buf[e], 3, Len(buf[e]))]
    BY Zenon DEF TakesMessage
  <1> QED
    BY <1>1, <1>4, <1>6, <1>7, Zenon

\* Receive, Send and the messages of the selection.
LEMMA SelectionSteps ==
  ASSUME HandshakeInvariant, NEW e \in Ends,
         \/ Receive(e) \/ Send(e)
         \/ e = "client" /\ (ClientSelect \/ ClientReply)
         \/ e = "server" /\ ServerReply
  PROVE  HandshakeInvariant'
  <1>1. /\ setup \in Setups /\ sel \in [Ends -> {"idle", "wait", "open", "refused"}]
        /\ sent \in [Ends -> Nat] /\ DOMAIN out = Ends /\ DOMAIN buf = Ends
        /\ \A x \in Ends : /\ sent[x] \in 0..setup.data[x]
                           /\ IsSequence(out[x]) /\ IsSequence(buf[x])
                           /\ Len(buf[x]) <= 1 + Max(ReadSizes)
    BY Zenon DEF HandshakeInvariant, Shapes, TypeOK
  <1>2. "client" \in Ends /\ "server" \in Ends
    BY Zenon DEF Ends
  <1>3. CASE Receive(e)
    <2>1. TakesMessage(e) /\ UNCHANGED <<hvars, sel, version, out, sent>>
      BY <1>3, Zenon DEF Receive
    <2> QED
      BY <1>1, <2>1, TakesFacts, UserStep, Zenon
  <1>4. CASE Send(e)
    <2>1. /\ sent[e] < setup.data[e] /\ sent' = [sent EXCEPT ![e] = sent[e] + 1]
          /\ Queue(e, Data(e, sent[e] + 1)) /\ UNCHANGED <<hvars, sel, version, buf, got>>
      BY <1>4, Zenon DEF Send
    <2>2. setup.data[e] \in Nat /\ sent[e] \in Nat
      BY <1>1, SetupsAssumption, Zenon
    <2>3. sent[e] + 1 \in Nat /\ sent[e] + 1 \in 0..setup.data[e]
      BY <2>1, <2>2, SMTT(30)
    <2>4. sent' \in [Ends -> Nat] /\ \A x \in Ends : sent'[x] \in 0..setup.data[x]
      BY <1>1, <2>1, <2>3, Zenon
    <2>5. DOMAIN out' = Ends /\ \A x \in Ends : IsSequence(out'[x])
      BY <2>1, QueueFacts, Zenon
    <2> QED
      BY <1>1, <2>1, <2>4, <2>5, UserStep, Zenon
  <1>5. CASE ClientSelect
    <2>1. /\ sel' = [sel EXCEPT !["client"] = "wait"] /\ UNCHANGED <<hvars, version, buf, got, sent>>
          /\ Queue("client", Message("info", setup.asked, setup.offered))
      BY <1>5, Zenon DEF ClientSelect
    <2>2. sel' \in [Ends -> {"idle", "wait", "open", "refused"}]
      BY <1>1, <1>2, <2>1, Zenon
    <2>3. DOMAIN out' = Ends /\ \A x \in Ends : IsSequence(out'[x])
      BY <1>2, <2>1, QueueFacts, Zenon
    <2> QED
      BY <1>1, <2>1, <2>2, <2>3, UserStep, Zenon
  <1>6. CASE ClientReply
    <2>1. TakesMessage("client") /\ UNCHANGED <<hvars, out, got, sent>>
          /\ \E v : sel' = [sel EXCEPT !["client"] = IF v = 0 THEN "refused" ELSE "open"]
      BY <1>6, Zenon DEF ClientReply, Opens
    <2>2. sel' \in [Ends -> {"idle", "wait", "open", "refused"}]
      BY <1>1, <1>2, <2>1, Zenon
    <2>3. /\ DOMAIN buf' = Ends
          /\ \A x \in Ends : IsSequence(buf'[x]) /\ Len(buf'[x]) <= 1 + Max(ReadSizes)
      BY <1>2, <2>1, TakesFacts, Zenon
    <2> QED
      BY <1>1, <2>1, <2>2, <2>3, UserStep, Zenon
  <1>7. CASE ServerReply
    <2>1. TakesMessage("server") /\ UNCHANGED <<hvars, got, sent>>
          /\ \E v : sel' = [sel EXCEPT !["server"] = IF v = 0 THEN "refused" ELSE "open"]
          /\ \E m : Queue("server", m)
      BY <1>7, Zenon DEF ServerReply, Opens
    <2>2. sel' \in [Ends -> {"idle", "wait", "open", "refused"}]
      BY <1>1, <1>2, <2>1, Zenon
    <2>3. /\ DOMAIN buf' = Ends
          /\ \A x \in Ends : IsSequence(buf'[x]) /\ Len(buf'[x]) <= 1 + Max(ReadSizes)
      BY <1>2, <2>1, TakesFacts, Zenon
    <2>4. DOMAIN out' = Ends /\ \A x \in Ends : IsSequence(out'[x])
      BY <1>2, <2>1, QueueFacts, Zenon
    <2> QED
      BY <1>1, <2>1, <2>2, <2>3, <2>4, UserStep, Zenon
  <1> QED
    BY SMTT(30), <1>3, <1>4, <1>5, <1>6, <1>7

\* The network's faults are counted.
LEMMA FaultFacts ==
  ASSUME HandshakeInvariant, Fault, setup' = setup PROVE faults' \in 0..setup'.faults
  <1>1. setup.faults \in Nat /\ faults \in 0..setup.faults
    BY SetupsAssumption, Zenon DEF HandshakeInvariant, TypeOK
  <1> QED
    BY <1>1, SMTT(30) DEF Fault

\* Cut: each direction keeps a beginning of what was in transit.
LEMMA CutStep ==
  ASSUME HandshakeInvariant, Cut, UNCHANGED svars PROVE HandshakeInvariant'
  <1>1. /\ UNCHANGED <<setup, pc, remote, chosen, keys, count, recv_buf, taken>>
        /\ UNCHANGED <<sel, version, out, buf, got, sent>> /\ cut' = TRUE /\ Fault
    BY Zenon DEF Cut, svars
  <1>2. PICK keep \in [Ends -> 0..2] :
          /\ \A e \in Ends : keep[e] <= Len(wire[e])
          /\ wire' = [e \in Ends |-> SubSeq(wire[e], 1, keep[e])]
    BY Zenon DEF Cut
  <1>3. TypeOK /\ Shapes /\ WireGenuine /\ ReadFromOther
    BY Zenon DEF HandshakeInvariant
  <1>4. Settles /\ \A x \in Ends : Staged(x)' /\ (keys'[x] # <<>> => Settled(x)')
    BY <1>1, EndsKept, Zenon
  <1>5. WireGenuine'
    <2>1. ASSUME NEW x \in Ends
          PROVE  /\ IsSequence(wire'[x])
                 /\ \A i \in 1..Len(wire'[x]) : \E f : f = wire'[x][i] /\ Genuine(x, f)'
      <3>1. /\ keep[x] \in Nat /\ keep[x] <= Len(wire[x]) /\ 1 \in Nat \ {0} /\ IsSequence(wire[x])
            /\ wire'[x] = SubSeq(wire[x], 1, keep[x])
        <4>1. \A k \in 0..2 : k \in Nat
          BY SMTT(30)
        <4>2. 1 \in Nat \ {0}
          BY SMTT(30)
        <4> QED
          BY <1>2, <1>3, <4>1, <4>2, Zenon DEF WireGenuine
      <3>2. /\ IsSequence(wire'[x]) /\ Len(wire'[x]) = IF 1 <= keep[x] THEN keep[x] - 1 + 1 ELSE 0
            /\ \A i \in 1..Len(wire'[x]) : wire'[x][i] = wire[x][i + 1 - 1]
        <4>1. /\ IsSequence(SubSeq(wire[x], 1, keep[x]))
              /\ Len(SubSeq(wire[x], 1, keep[x])) = IF 1 <= keep[x] THEN keep[x] - 1 + 1 ELSE 0
              /\ \A i \in 1..Len(SubSeq(wire[x], 1, keep[x])) :
                   SubSeq(wire[x], 1, keep[x])[i] = wire[x][i + 1 - 1]
          BY ZenonT(30), <3>1, PartIsSequence
        <4> QED
          BY <3>1, <4>1, Zenon
      <3>3. ASSUME NEW i \in 1..Len(wire'[x]) PROVE \E f : f = wire'[x][i] /\ Genuine(x, f)'
        <4>1. Len(wire[x]) \in Nat
          BY <3>1, SequenceFacts, Zenon
        <4>2. i \in 1..Len(wire[x]) /\ i + 1 - 1 = i
          BY <3>1, <3>2, <3>3, <4>1, SMTT(30)
        <4>3. PICK f : f = wire[x][i]
          BY Zenon
        <4>4. Genuine(x, f)
          BY <1>3, <4>2, <4>3, Zenon DEF WireGenuine
        <4>5. f = wire'[x][i]
          BY <3>2, <4>2, <4>3, Zenon
        <4> QED
          BY Zenon, <1>4, <4>4, <4>5, GenuineKept
      <3> QED
        BY Zenon, <3>2, <3>3
    <2> QED
      BY <2>1, WireByFrames, Zenon
  <1>6. TypeOK'
    <2>1. faults' \in 0..setup'.faults
      BY Zenon, <1>1, FaultFacts
    <2> QED
      BY <1>1, <1>3, <2>1, Zenon DEF TypeOK
  <1>7. Shapes'
    <2>1. DOMAIN wire' = Ends
      BY <1>2, Zenon
    <2> QED
      BY <1>1, <1>3, <2>1, Zenon DEF Shapes
  <1>8. ReadFromOther' /\ NoneLost'
    BY <1>1, <1>3, Zenon DEF ReadFromOther, NoneLost
  <1> QED
    BY <1>4, <1>5, <1>6, <1>7, <1>8, Zenon DEF HandshakeInvariant

\* A changed field of a frame leaves the others,
LEMMA ChangedFields ==
  ASSUME NEW t, NEW v, NEW x
  PROVE  /\ [[t |-> t, v |-> v] EXCEPT !.v.exchange = x] = [t |-> t, v |-> [v EXCEPT !.exchange = x]]
         /\ [[t |-> t, v |-> v] EXCEPT !.v.ciphers = x] = [t |-> t, v |-> [v EXCEPT !.ciphers = x]]
         /\ [[t |-> t, v |-> v] EXCEPT !.v.hashes = x] = [t |-> t, v |-> [v EXCEPT !.hashes = x]]
         /\ [[t |-> t, v |-> v] EXCEPT !.v.rand = x] = [t |-> t, v |-> [v EXCEPT !.rand = x]]
         /\ [[t |-> t, v |-> v] EXCEPT !.v.epubkey.by = x]
              = [t |-> t, v |-> [v EXCEPT !.epubkey = [v.epubkey EXCEPT !.by = x]]]
  OBVIOUS

\* the signature of an Exchange too.
LEMMA ChangedKey ==
  ASSUME NEW k, NEW s, NEW x
  PROVE  [[epubkey |-> k, signature |-> s] EXCEPT !.epubkey = x] = [epubkey |-> x, signature |-> s]
  OBVIOUS

\* The network cannot sign, and has no key to encrypt with.
LEMMA ChangedIsGenuine ==
  ASSUME NEW e \in Ends, NEW g, Genuine(e, g), NEW f \in Changed(g) PROVE Genuine(e, f)
  <1>1. g = Frame(g.t, g.v)
    BY Zenon DEF Genuine
  <1>2. PICK t, v : t = g.t /\ v = g.v
    BY Zenon
  <1>3. g = [t |-> t, v |-> v]
    BY Zenon, <1>1, <1>2 DEF Frame
  <1>4. CASE f = Junk
    <2>1. f.t = "junk" /\ f = Frame(f.t, f.v)
      BY Zenon, <1>4, FrameFields DEF Junk
    <2> QED
      BY Zenon, <2>1 DEF Genuine
  <1>5. CASE t = "propose" /\ f # Junk
    <2>1. \E w : f = Frame("propose", w)
      <3>1. f \in {[g EXCEPT !.v.exchange = Shorter(g.v.exchange)],
                   [g EXCEPT !.v.ciphers = Shorter(g.v.ciphers)],
                   [g EXCEPT !.v.hashes = Shorter(g.v.hashes)],
                   [g EXCEPT !.v.rand = Reverse(g.v.rand)]}
        BY Zenon, <1>2, <1>5 DEF Changed
      <3> QED
        BY <1>2, <1>3, <1>5, <3>1, ChangedFields, Zenon DEF Frame
    <2>2. PICK w : f = Frame("propose", w)
      BY Zenon, <2>1
    <2>3. f.t = "propose" /\ f = Frame(f.t, f.v)
      BY Zenon, <2>2, FrameFields
    <2> QED
      BY Zenon, <2>3 DEF Genuine
  <1>6. CASE t = "exchange" /\ f # Junk
    <2>1. PICK s : s = Signature(e, Proposition(e), remote[e][1],
                                 generate_agreement(e, chosen[e][1].exchange))
      BY Zenon
    <2>2. remote[e] # <<>> /\ v = [epubkey |-> v.epubkey, signature |-> s]
      BY <1>2, <1>6, <2>1, Zenon DEF Genuine
    <2>3. PICK x : x = [v.epubkey EXCEPT !.by = "network"]
      BY Zenon
    <2>4. f = [g EXCEPT !.v.epubkey.by = "network"]
      BY Zenon, <1>2, <1>6 DEF Changed
    <2>5. f = [t |-> t, v |-> [v EXCEPT !.epubkey = x]]
      BY Zenon, <1>3, <2>3, <2>4, ChangedFields
    <2>6. [v EXCEPT !.epubkey = x] = [epubkey |-> x, signature |-> s]
      BY SMTT(30), <2>2, ChangedKey
    <2>7. PICK w : w = [epubkey |-> x, signature |-> s]
      BY Zenon
    <2>8. f = Frame("exchange", w) /\ w.epubkey = x
      BY Zenon, <1>6, <2>5, <2>6, <2>7 DEF Frame
    <2>9. f.t = "exchange" /\ f.v = w
      BY Zenon, <2>8, FrameFields
    <2>10. "exchange" # "cipher"
      BY Zenon
    <2> QED
      BY <2>1, <2>2, <2>7, <2>8, <2>9, <2>10, Zenon DEF Genuine
  <1> QED
    BY Zenon, <1>2, <1>4, <1>5, <1>6 DEF Changed

\* Change: one frame is changed on its way.
LEMMA ChangeStep ==
  ASSUME HandshakeInvariant, NEW e \in Ends, Change(e), UNCHANGED svars PROVE HandshakeInvariant'
  <1>1. /\ UNCHANGED <<setup, pc, cut, remote, chosen, keys, count, recv_buf, taken>>
        /\ UNCHANGED <<sel, version, out, buf, got, sent>> /\ Fault /\ wire[e] # <<>>
    BY Zenon DEF Change, svars
  <1>2. PICK f \in Changed(wire[e][1]) : wire' = [wire EXCEPT ![e] = <<f>> \o Tail(wire[e])]
    BY Zenon DEF Change
  <1>3. TypeOK /\ Shapes /\ WireGenuine /\ ReadFromOther /\ NoneLost /\ DOMAIN wire = Ends
        /\ IsSequence(wire[e])
    BY Zenon DEF HandshakeInvariant, Shapes, WireGenuine
  <1>4. Settles /\ \A x \in Ends : Staged(x)' /\ (keys'[x] # <<>> => Settled(x)')
    BY <1>1, EndsKept, Zenon
  <1>5. /\ IsSequence(Tail(wire[e])) /\ Len(Tail(wire[e])) = Len(wire[e]) - 1
        /\ Len(wire[e]) \in Nat \ {0} /\ \A i \in 1..Len(Tail(wire[e])) : Tail(wire[e])[i] = wire[e][i + 1]
    BY Zenon, <1>1, <1>3, TailIsSequence
  <1>6. IsSequence(<<f>>) /\ Len(<<f>>) = 1 /\ <<f>>[1] = f
    BY Zenon, OneIsSequence
  <1>7. PICK q : q = <<f>> \o Tail(wire[e])
    BY Zenon
  <1>8. /\ IsSequence(q) /\ Len(q) = Len(<<f>>) + Len(Tail(wire[e]))
        /\ \A i \in 1..Len(q) : q[i] = IF i <= Len(<<f>>) THEN <<f>>[i] ELSE Tail(wire[e])[i - Len(<<f>>)]
    BY SMTT(30), <1>5, <1>6, <1>7, JoinIsSequence
  <1>9. Len(q) = Len(wire[e]) /\ \A i \in 1..Len(q) : i \in 1..Len(wire[e])
    BY <1>5, <1>6, <1>8, SMTT(30)
  <1>10. \A i \in 1..Len(q) : q[i] = f \/ q[i] = wire[e][i]
    <2>1. TAKE i \in 1..Len(q)
    <2>2. CASE i = 1
      BY <1>6, <1>8, <2>2, SMTT(30)
    <2>3. CASE i # 1
      <3>1. /\ ~ (i <= Len(<<f>>)) /\ i - Len(<<f>>) \in 1..Len(Tail(wire[e]))
            /\ i - Len(<<f>>) + 1 = i
        BY <1>5, <1>6, <1>9, <2>3, SMTT(30)
      <3> QED
        BY <1>5, <1>8, <3>1, Zenon
    <2> QED
      BY Zenon, <2>2, <2>3
  <1>11. /\ DOMAIN wire' = Ends /\ wire'[e] = q
         /\ \A x \in Ends : x # e => wire'[x] = wire[x]
    BY <1>2, <1>3, <1>7, Zenon
  <1>12. Genuine(e, f)
    <2>1. PICK g : g = wire[e][1]
      BY Zenon
    <2>2. 1 \in 1..Len(wire[e])
      BY <1>5, SMTT(30)
    <2>3. Genuine(e, g)
      BY <1>3, <2>1, <2>2, Zenon DEF WireGenuine
    <2> QED
      BY Zenon, <1>2, <2>1, <2>3, ChangedIsGenuine
  <1>13. WireGenuine'
    <2>1. ASSUME NEW x \in Ends, NEW i \in 1..Len(wire'[x]) PROVE \E g : g = wire'[x][i] /\ Genuine(x, g)'
      <3>1. PICK g : g = wire'[x][i]
        BY Zenon
      <3>2. Genuine(x, g)
        <4>1. CASE x # e
          BY <1>3, <1>11, <3>1, <4>1, Zenon DEF WireGenuine
        <4>2. CASE x = e
          <5>1. i \in 1..Len(q) /\ g = q[i]
            BY SMTT(30), <1>11, <3>1, <4>2
          <5>2. CASE g = f
            BY Zenon, <1>12, <4>2, <5>2
          <5>3. CASE g = wire[e][i]
            BY <1>3, <1>9, <4>2, <5>1, <5>3, Zenon DEF WireGenuine
          <5> QED
            BY <1>10, <5>1, <5>2, <5>3, Zenon
        <4> QED
          BY Zenon, <4>1, <4>2
      <3> QED
        BY SMTT(30), <1>4, <3>1, <3>2, GenuineKept
    <2>2. \A x \in Ends : IsSequence(wire'[x])
      BY <1>3, <1>8, <1>11, Zenon DEF WireGenuine
    <2> QED
      BY <2>1, <2>2, WireByFrames, Zenon
  <1>14. TypeOK'
    <2>1. faults' \in 0..setup'.faults
      BY Zenon, <1>1, FaultFacts
    <2> QED
      BY <1>1, <1>3, <2>1, Zenon DEF TypeOK
  <1>15. Shapes'
    BY <1>1, <1>3, <1>11, Zenon DEF Shapes
  <1>16. ReadFromOther'
    BY <1>1, <1>3, Zenon DEF ReadFromOther
  <1>17. NoneLost'
    <2>1. \A x \in Ends : Len(wire'[x]) = Len(wire[x])
      BY <1>9, <1>11, Zenon
    <2> QED
      BY <1>1, <1>3, <2>1, Zenon DEF NoneLost, FramesSent, FramesTaken
  <1> QED
    BY <1>4, <1>13, <1>14, <1>15, <1>16, <1>17, Zenon DEF HandshakeInvariant

\* The steps of the handshake (procedure.rs), the failing ones included.
LEMMA HandshakeSteps ==
  ASSUME HandshakeInvariant, NEW e \in Ends, HandshakeStep(e), UNCHANGED svars PROVE HandshakeInvariant'
  <1>1. CASE Broken(e)
    BY Zenon, <1>1, FailsStep DEF Broken
  <1>2. CASE SendPropose(e)
    BY Zenon, <1>2, SendProposeStep
  <1>3. CASE RecvPropose(e)
    <2>1. CASE Fails(e)
      BY Zenon, <2>1, FailsStep
    <2>2. CASE ~Fails(e)
      <3>1. PICK propose : propose = Incoming(e).v
        BY Zenon
      <3>2. PICK c : c = with_remote(e, propose)
        BY Zenon
      <3>3. PICK f : f = Frame("exchange",
                      [epubkey |-> generate_agreement(e, c.exchange),
                       signature |-> Signature(e, Proposition(e), propose,
                                               generate_agreement(e, c.exchange))])
        BY Zenon
      <3>4. /\ pc[e] = "propose" /\ Arrived(e) /\ Incoming(e).t = "propose"
            /\ Goes(e, "exchange") /\ remote' = [remote EXCEPT ![e] = <<propose>>]
            /\ chosen' = [chosen EXCEPT ![e] = <<c>>] /\ Moves(e, TRUE, <<f>>)
            /\ UNCHANGED <<setup, cut, keys, count, recv_buf, taken, faults>>
        BY <1>3, <2>2, <3>1, <3>2, <3>3, Zenon DEF RecvPropose
      <3> QED
        BY <3>1, <3>2, <3>3, <3>4, RecvProposeStep, Zenon
    <2> QED
      BY Zenon, <2>1, <2>2
  <1>4. CASE RecvExchange(e)
    <2>1. CASE Fails(e)
      BY Zenon, <2>1, FailsStep
    <2>2. CASE ~Fails(e)
      <3>1. PICK exchange : exchange = Incoming(e).v
        BY Zenon
      <3>2. PICK c : c = chosen[e][1]
        BY Zenon
      <3>3. PICK k : k = stretch_key(c, agree(c.exchange, generate_agreement(e, c.exchange),
                                              exchange.epubkey))
        BY Zenon
      <3>4. PICK f : f = encrypt(k.enc, count[e].enc, remote[e][1].rand)
        BY Zenon
      <3>5. /\ pc[e] = "exchange" /\ Arrived(e) /\ Incoming(e).t = "exchange"
            /\ verify_ecdsa(e, exchange) /\ exchange.epubkey.alg = c.exchange /\ c.order # "equal"
            /\ Goes(e, "nonce") /\ keys' = [keys EXCEPT ![e] = <<k>>]
            /\ count' = [count EXCEPT ![e].enc = @ + 1] /\ Moves(e, TRUE, <<f>>)
            /\ UNCHANGED <<setup, cut, remote, chosen, recv_buf, taken, faults>>
        BY <1>4, <2>2, <3>1, <3>2, <3>3, <3>4, Zenon DEF RecvExchange
      <3> QED
        BY <3>1, <3>2, <3>3, <3>4, <3>5, RecvExchangeStep, Zenon
    <2> QED
      BY Zenon, <2>1, <2>2
  <1>5. CASE verify_nonce(e)
    <2>1. CASE Fails(e)
      BY Zenon, <2>1, FailsStep
    <2>2. CASE ~Fails(e)
      <3>1. PICK r : r = poll_read(e, NonceSize - Len(taken[e]))
        BY Zenon
      <3>2. /\ pc[e] = "nonce" /\ Readable(e) /\ r.ok /\ Reads(e, r)
            /\ taken' = [taken EXCEPT ![e] = taken[e] \o r.out]
            /\ Goes(e, IF Len(taken[e] \o r.out) = NonceSize THEN "secure" ELSE "nonce")
            /\ UNCHANGED <<setup, cut, remote, chosen, keys, faults>>
        BY <1>5, <2>2, <3>1, Zenon DEF verify_nonce
      <3> QED
        BY <3>1, <3>2, NonceStep, Zenon
    <2> QED
      BY Zenon, <2>1, <2>2
  <1> QED
    BY SMTT(30), <1>1, <1>2, <1>3, <1>4, <1>5 DEF HandshakeStep

\* Every step of an end.
LEMMA EndStep ==
  ASSUME HandshakeInvariant, NEW e \in Ends, End(e) PROVE HandshakeInvariant'
  <1>1. CASE HandshakeStep(e) /\ UNCHANGED svars
    BY Zenon, <1>1, HandshakeSteps
  <1>2. CASE Write(e)
    BY Zenon, <1>2, WriteStep
  <1>3. CASE Read(e)
    <2>1. PICK size \in ReadSizes :
            LET r == poll_read(e, size) IN
            IF ~r.ok THEN Fails(e) /\ UNCHANGED svars
            ELSE /\ Reads(e, r)
                 /\ buf' = [buf EXCEPT ![e] = @ \o r.out]
                 /\ UNCHANGED <<setup, pc, cut, remote, chosen, keys, taken, faults,
                                sel, version, out, got, sent>>
      BY <1>3, Zenon DEF Read
    <2>2. PICK r : r = poll_read(e, size)
      BY Zenon
    <2>3. CASE ~r.ok
      BY SMTT(30), <2>1, <2>2, <2>3, FailsStep
    <2>4. CASE r.ok
      <3>1. /\ Reads(e, r) /\ buf' = [buf EXCEPT ![e] = buf[e] \o r.out]
            /\ UNCHANGED <<setup, pc, cut, remote, chosen, keys, taken, faults,
                           sel, version, out, got, sent>>
        BY <2>1, <2>2, <2>4, Zenon
      <3>2. pc[e] = "secure" /\ ~Complete(e) /\ Readable(e)
        BY <1>3, Zenon DEF Read
      <3> QED
        BY <2>2, <2>4, <3>1, <3>2, ReadStep, Zenon
    <2> QED
      BY Zenon, <2>3, <2>4
  <1>4. CASE \/ Receive(e) \/ Send(e)
             \/ e = "client" /\ (ClientSelect \/ ClientReply)
             \/ e = "server" /\ ServerReply
    BY Zenon, <1>4, SelectionSteps
  <1> QED
    BY SMTT(30), <1>1, <1>2, <1>3, <1>4 DEF End

\* Nothing changes, as while the listener is at work.
LEMMA StutterStep == HandshakeInvariant /\ UNCHANGED vars => HandshakeInvariant'
  <1> SUFFICES ASSUME HandshakeInvariant, UNCHANGED vars PROVE HandshakeInvariant'
    BY Zenon
  <1>1. UNCHANGED hvars /\ UNCHANGED <<sel, version, out, buf, got, sent>>
    BY Zenon DEF vars, svars
  <1>2. setup' = setup
    BY <1>1, Zenon DEF hvars
  <1> QED
    BY <1>1, <1>2, UserStep, Zenon DEF HandshakeInvariant, TypeOK, Shapes

\* Nothing was sent or settled yet.
LEMMA InvariantInit == Init => HandshakeInvariant
  <1> SUFFICES ASSUME Init PROVE HandshakeInvariant
    BY Zenon
  <1>1. /\ setup \in Setups /\ cut = FALSE /\ faults = 0
        /\ pc = [e \in Ends |-> "start"] /\ wire = [e \in Ends |-> <<>>]
        /\ remote = [e \in Ends |-> <<>>] /\ chosen = [e \in Ends |-> <<>>]
        /\ keys = [e \in Ends |-> <<>>] /\ count = [e \in Ends |-> [enc |-> 0, dec |-> 0]]
        /\ recv_buf = [e \in Ends |-> <<>>] /\ taken = [e \in Ends |-> <<>>]
        /\ sel = [e \in Ends |-> IF e = "client" THEN "idle" ELSE "wait"]
        /\ out = [e \in Ends |-> <<>>] /\ buf = [e \in Ends |-> <<>>]
        /\ sent = [e \in Ends |-> 0]
    BY Zenon DEF Init, ConnectInit, HandshakeInit
  <1>2. IsSequence(<<>>) /\ Len(<<>>) = 0
    BY Zenon, EmptyIsSequence
  <1>3. setup.faults \in Nat /\ setup.data \in [Ends -> Nat]
    BY <1>1, SetupsAssumption, Zenon
  <1>4. 0 \in 0..setup.faults /\ \A e \in Ends : 0 \in 0..setup.data[e]
    BY <1>3, SMTT(30)
  <1>5. NonceSize \in Nat /\ Max(ReadSizes) \in Nat
    BY Zenon, SizesAssumption, MaxFacts
  <1>6. 0 <= NonceSize /\ 0 <= 1 + Max(ReadSizes)
    BY <1>5, SMTT(30)
  <1>7. TypeOK
    BY <1>1, <1>2, <1>4, <1>6, Zenon DEF TypeOK
  <1>8. Shapes
    <2>1. [enc |-> 0, dec |-> 0] \in [enc : Nat, dec : Nat] /\ 0 \in Nat
      BY Zenon
    <2> QED
      BY <1>1, <1>2, <2>1, Zenon DEF Shapes
  <1>9. WireGenuine
    <2>1. \A i \in 1..0 : FALSE
      BY SMTT(30)
    <2> QED
      BY <1>1, <1>2, <2>1, Zenon DEF WireGenuine
  <1>10. ReadFromOther
    BY <1>1, Zenon DEF ReadFromOther
  <1>11. ASSUME NEW e \in Ends PROVE Staged(e) /\ keys[e] = <<>>
    BY <1>1, Zenon DEF Staged
  <1>12. NoneLost
    <2>1. ASSUME NEW e \in Ends PROVE FramesSent(e) = 0 /\ FramesTaken(e) = 0
      <3>1. pc[e] = "start" /\ count[e].enc = 0 /\ count[e].dec = 0
        BY <1>1, Zenon
      <3> QED
        BY <3>1, SMTT(30) DEF FramesSent, FramesTaken
    <2>2. ASSUME NEW e \in Ends PROVE Len(wire[e]) = FramesSent(e) - FramesTaken(Other(e))
      <3>1. wire[e] = <<>> /\ Other(e) \in Ends
        BY <1>1, OtherFacts, Zenon
      <3>2. Len(wire[e]) = 0 /\ FramesSent(e) = 0 /\ FramesTaken(Other(e)) = 0
        BY <1>2, <2>1, <3>1, Zenon
      <3> QED
        BY <3>2, SMTT(30)
    <2> QED
      BY <2>2, Zenon DEF NoneLost
  <1> QED
    BY <1>7, <1>8, <1>9, <1>10, <1>11, <1>12, Zenon DEF HandshakeInvariant

\* Every step of the ends, of the network and of the listener keeps the invariant.
LEMMA InvariantNext == HandshakeInvariant /\ [Next]_allvars => HandshakeInvariant'
  <1> SUFFICES ASSUME HandshakeInvariant, [Next]_allvars PROVE HandshakeInvariant'
    BY Zenon
  <1>1. "client" \in Ends /\ "server" \in Ends
    BY Zenon DEF Ends
  <1>2. CASE UNCHANGED vars
    BY Zenon, <1>2, StutterStep
  <1>3. CASE End("client")
    BY Zenon, <1>1, <1>3, EndStep
  <1>4. CASE Server
    <2>1. CASE End("server")
      BY Zenon, <1>1, <2>1, EndStep
    <2>2. CASE TurnAway
      BY Zenon, <1>1, <2>2, FailsStep DEF TurnAway
    <2> QED
      BY Zenon, <1>4, <2>1, <2>2 DEF Server
  <1>5. CASE Network
    <2>1. CASE Cut /\ UNCHANGED svars
      BY Zenon, <2>1, CutStep
    <2>2. CASE (\E e \in Ends : Change(e)) /\ UNCHANGED svars
      <3>1. PICK e \in Ends : Change(e)
        BY Zenon, <2>2
      <3> QED
        BY Zenon, <2>2, <3>1, ChangeStep
    <2> QED
      BY Zenon, <1>5, <2>1, <2>2 DEF Network
  <1>6. CASE UNCHANGED allvars
    BY Zenon, <1>6, <1>2 DEF allvars
  <1> QED
    BY <1>2, <1>3, <1>4, <1>5, <1>6, Zenon DEF Next

\* What the invariant says of two ends that have their keys.
LEMMA InvariantGivesAgreement == HandshakeInvariant => SecureEndsAgree
  <1> SUFFICES ASSUME HandshakeInvariant PROVE SecureEndsAgree
    BY Zenon
  <1>1. TypeOK /\ setup \in Setups
    BY Zenon DEF HandshakeInvariant, TypeOK
  <1>2. ASSUME NEW e \in Ends, pc[e] = "secure"
        PROVE  LET o == Other(e) IN
               /\ remote[e] = <<Proposition(o)>> /\ remote[o] = <<Proposition(e)>>
               /\ [chosen[e][1] EXCEPT !.order = ""] = [chosen[o][1] EXCEPT !.order = ""]
               /\ keys[o] # <<>>
               /\ keys[e][1].enc = keys[o][1].dec /\ keys[e][1].dec = keys[o][1].enc
               /\ keys[e][1].enc # keys[e][1].dec
    <2> DEFINE o == Other(e)
    <2>1. o \in Ends /\ Other(o) = e
      BY Zenon, OtherFacts
    <2>2. Staged(e) /\ Staged(o) /\ keys[e] # <<>> /\ keys[o] # <<>>
      BY <1>2, <2>1, Zenon DEF HandshakeInvariant, Staged, ReadFromOther
    <2>3. Settled(e) /\ Settled(o)
      BY <2>1, <2>2, Zenon DEF HandshakeInvariant
    <2>4. remote[e] = <<Proposition(o)>> /\ remote[o] = <<Proposition(e)>> /\ chosen[e][1].order # "equal"
      BY <2>3, Zenon DEF Settled
    <2>5. remote[e][1] = Proposition(o) /\ remote[o][1] = Proposition(e)
          /\ remote[e] # <<>> /\ remote[o] # <<>>
      BY <2>4, SMTT(30)
    <2>6. chosen[e][1] = with_remote(e, Proposition(o)) /\ chosen[o][1] = with_remote(o, Proposition(e))
      <3>1. chosen[e] = <<with_remote(e, Proposition(o))>> /\ chosen[o] = <<with_remote(o, Proposition(e))>>
        BY <2>2, <2>5, Zenon DEF Staged
      <3> QED
        BY Zenon, <3>1, OneIsSequence
    <2>7. [chosen[e][1] EXCEPT !.order = ""] = [chosen[o][1] EXCEPT !.order = ""]
      <3>1. with_remote(e, Proposition(o)).order # "equal"
        BY Zenon, <2>4, <2>6
      <3>2. [with_remote(e, Proposition(o)) EXCEPT !.order = ""] =
              [with_remote(o, Proposition(e)) EXCEPT !.order = ""]
        BY Zenon, <1>1, <3>1, ChoicesMirrored
      <3> QED
        BY Zenon, <2>6, <3>2
    <2> QED
      BY Zenon, <1>1, <2>2, <2>3, <2>4, <2>7, KeysMirrored
  <1>3. ASSUME NEW e \in Ends, keys[e] # <<>>, keys[Other(e)] # <<>>, ~cut,
               "failed" \notin {pc[x] : x \in Ends}
        PROVE  count[e].enc = count[Other(e)].dec + Len(wire[e])
    <2> DEFINE o == Other(e)
    <2>1. o \in Ends
      BY Zenon, OtherFacts
    <2>2. Len(wire[e]) = FramesSent(e) - FramesTaken(o)
      BY <1>3, Zenon DEF HandshakeInvariant, NoneLost
    <2>3. pc[e] \in {"nonce", "secure"} /\ pc[o] \in {"nonce", "secure"}
      <3>1. ASSUME NEW x \in Ends, keys[x] # <<>> PROVE pc[x] \in {"nonce", "secure"}
        <4>1. /\ pc[x] \in {"start", "propose", "exchange", "nonce", "secure", "failed"}
              /\ pc[x] # "failed" /\ Staged(x)
          BY <1>1, <1>3, Zenon DEF TypeOK, HandshakeInvariant
        <4> QED
          BY <3>1, <4>1, Zenon DEF Staged
      <3> QED
        BY SMTT(30), <1>3, <2>1, <3>1
    <2>4. count[e].enc \in Nat /\ count[o].dec \in Nat
      BY <2>1, Zenon DEF HandshakeInvariant, Shapes
    <2>5. FramesSent(e) = 2 + count[e].enc /\ FramesTaken(o) = 2 + count[o].dec
      BY Zenon, <2>3 DEF FramesSent, FramesTaken
    <2> QED
      BY <2>2, <2>4, <2>5, SMTT(30)
  <1> QED
    BY <1>1, <1>2, <1>3, Zenon DEF SecureEndsAgree

\* The handshake of procedure.rs, with every set of configurations, any size of nonce and of
\* read buffers, and whatever the network does to the frames: an end that has finished holds the
\* other's real proposition and is held to its own, both chose the same algorithms and use each
\* other's keys, and the counters of the ciphers differ by the frames in transit.
THEOREM SecureEndsAgreeHolds == Spec => []SecureEndsAgree
  BY InvariantInit, InvariantNext, InvariantGivesAgreement, PTL DEF Spec
=============================================================================
