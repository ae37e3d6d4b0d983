----------------------------- MODULE Connection -----------------------------
(***************************************************************************)
(* A connection from its first byte to protocol data: the secio handshake, *)
(* the selection of a protocol version (tentacle/src/protocol_select/      *)
(* mod.rs) and length-delimited messages, over one encrypted stream.       *)
(*                                                                         *)
(* The multiplexer that lies between keeps each stream's bytes in order    *)
(* (YamuxSession implements OrderedStreams) and may cut and join them      *)
(* anywhere; here it is that freedom: a write takes any part of what is    *)
(* waiting.  A message is two bytes, its length and its body.              *)
(***************************************************************************)
EXTENDS SecioHandshake

VARIABLES
  sel,     \* selection of the protocol: idle, wait, open, refused
  version, \* the version each end opened with, 0 for none
  out,     \* Framed: bytes to be written
  buf,     \* Framed: bytes read and not yet a message
  got,     \* messages each end was given
  sent     \* number of messages each end sent

svars == <<sel, version, out, buf, got, sent>>
vars == <<hvars, svars>>

Message(t, name, versions) == [t |-> t, name |-> name, versions |-> versions]
Data(e, i) == Message("data", e, <<i>>)
Encoded(m) == <<[m |-> m, i |-> "length"], [m |-> m, i |-> "body"]>>

ConnectInit ==
  /\ HandshakeInit
  /\ sel = [e \in Ends |-> IF e = "client" THEN "idle" ELSE "wait"]
  /\ version = [e \in Ends |-> 0]
  /\ out = [e \in Ends |-> <<>>] /\ buf = [e \in Ends |-> <<>>]
  /\ got = [e \in Ends |-> <<>>] /\ sent = [e \in Ends |-> 0]

-----------------------------------------------------------------------------
\* From the highest down, the lists sorted; 0 is no version.
select_version(local, remote_) ==
  LET walk[i \in 0..Len(local), j \in 0..Len(remote_)] ==
        IF i = 0 \/ j = 0 THEN 0
        ELSE IF local[i] < remote_[j] THEN walk[i, j - 1]
        ELSE IF local[i] > remote_[j] THEN walk[i - 1, j]
        ELSE local[i]
  IN walk[Len(local), Len(remote_)]

\* The protocol's own function, where it has one; here one that takes the lowest.
Selected(info) ==
  LET local == setup.served IN
  IF info.name # setup.name THEN 0
  ELSE IF ~setup.select THEN select_version(local, info.versions)
  ELSE LET common == SelectSeq(local, LAMBDA v : v \in ToSet(info.versions))
       IN IF common = <<>> THEN 0 ELSE common[1]

Queue(e, m) == out' = [out EXCEPT ![e] = @ \o Encoded(m)]
Opens(e, v) ==
  /\ sel' = [sel EXCEPT ![e] = IF v = 0 THEN "refused" ELSE "open"]
  /\ version' = [version EXCEPT ![e] = v]

ClientSelect ==
  /\ pc["client"] = "secure" /\ sel["client"] = "idle"
  /\ sel' = [sel EXCEPT !["client"] = "wait"]
  /\ Queue("client", Message("info", setup.asked, setup.offered))
  /\ UNCHANGED <<hvars, version, buf, got, sent>>

\* socket.next(): a message that is complete is taken before more is read.
Complete(e) == pc[e] = "secure" /\ Len(buf[e]) >= 2
Torn == Message("torn", "", <<>>)
Taken(e) ==
  LET m == buf[e][1].m IN IF SubSeq(buf[e], 1, 2) = Encoded(m) THEN m ELSE Torn
TakesMessage(e) == buf' = [buf EXCEPT ![e] = SubSeq(@, 3, Len(@))]

\* server_select: the reply names the version chosen, or none
ServerReply ==
  LET v == Selected(Taken("server")) IN
  /\ Complete("server") /\ sel["server"] = "wait"
  /\ TakesMessage("server")
  /\ Opens("server", v)
  /\ Queue("server", Message("info", Taken("server").name, IF v = 0 THEN <<>> ELSE <<v>>))
  /\ UNCHANGED <<hvars, got, sent>>

\* Mutant: a new codec on the bare stream; what was read past the reply is gone.
ClientReplyAfresh ==
  LET versions == Taken("client").versions IN
  /\ Complete("client") /\ sel["client"] = "wait"
  /\ buf' = [buf EXCEPT !["client"] = <<>>]
  /\ Opens("client", IF versions = <<>> THEN 0 ELSE Last(versions))
  /\ UNCHANGED <<hvars, out, got, sent>>

\* client_select: the last version of the reply; what follows it stays in the buffer.
ClientReply ==
  LET versions == Taken("client").versions IN
  /\ Complete("client") /\ sel["client"] = "wait"
  /\ TakesMessage("client")
  /\ Opens("client", IF versions = <<>> THEN 0 ELSE Last(versions))
  /\ UNCHANGED <<hvars, out, got, sent>>

Receive(e) ==
  /\ Complete(e) /\ sel[e] = "open"
  /\ TakesMessage(e)
  /\ got' = [got EXCEPT ![e] = Append(@, Taken(e))]
  /\ UNCHANGED <<hvars, sel, version, out, sent>>

Send(e) ==
  /\ pc[e] = "secure" /\ sel[e] = "open" /\ sent[e] < setup.data[e]
  /\ sent' = [sent EXCEPT ![e] = @ + 1]
  /\ Queue(e, Data(e, sent[e] + 1))
  /\ UNCHANGED <<hvars, sel, version, buf, got>>

Write(e) ==
  /\ pc[e] = "secure"
  /\ \E n \in 1..Len(out[e]) :
       /\ poll_write(e, SubSeq(out[e], 1, n))
       /\ out' = [out EXCEPT ![e] = SubSeq(@, n + 1, Len(@))]
  /\ UNCHANGED <<setup, pc, cut, remote, chosen, keys, recv_buf, taken, faults,
                 sel, version, buf, got, sent>>

Read(e) ==
  /\ pc[e] = "secure" /\ ~Complete(e) /\ sel[e] \in {"wait", "open"} /\ Readable(e)
  /\ \E size \in ReadSizes :
       LET r == poll_read(e, size) IN
       IF ~r.ok THEN Fails(e) /\ UNCHANGED svars
       ELSE /\ Reads(e, r)
            /\ buf' = [buf EXCEPT ![e] = @ \o r.out]
            /\ UNCHANGED <<setup, pc, cut, remote, chosen, keys, taken, faults,
                           sel, version, out, got, sent>>

-----------------------------------------------------------------------------
End(e) ==
  \/ HandshakeStep(e) /\ UNCHANGED svars
  \/ Receive(e) \/ Send(e) \/ Write(e) \/ Read(e)
  \/ e = "client" /\ (ClientSelect \/ ClientReply)
  \/ e = "server" /\ ServerReply

Network == (Cut \/ \E e \in Ends : Change(e)) /\ UNCHANGED svars

-----------------------------------------------------------------------------
(* Properties *)

\* The types of what the two ends hold.
TypeOK ==
  /\ setup \in Setups /\ cut \in BOOLEAN /\ faults \in 0..setup.faults
  /\ pc \in [Ends -> {"start", "propose", "exchange", "nonce", "secure", "failed"}]
  /\ sel \in [Ends -> {"idle", "wait", "open", "refused"}]
  /\ \A e \in Ends : sent[e] \in 0..setup.data[e] /\ Len(taken[e]) <= NonceSize /\ Len(buf[e]) <= 1 + Max(ReadSizes)

\* What an end believes about the other once the handshake succeeded (procedure.rs): the
\* proposition it holds is the one that was sent, the other end has chosen the same algorithms,
\* each decrypts with the key the other encrypts with, and the two directions differ,
\* whatever happened to the frames on their way.  The counters of an encryption and its
\* decryption (crypto/) agree up to the frames in transit, whatever sizes the stream is read
\* with.
SecureEndsAgree ==
  /\ TypeOK
  /\ \A e \in Ends : LET o == Other(e) IN
       pc[e] = "secure" =>
         /\ remote[e] = <<Proposition(o)>> /\ remote[o] = <<Proposition(e)>>
         /\ [chosen[e][1] EXCEPT !.order = ""] = [chosen[o][1] EXCEPT !.order = ""]
         /\ keys[o] # <<>>
         /\ keys[e][1].enc = keys[o][1].dec /\ keys[e][1].dec = keys[o][1].enc
         /\ keys[e][1].enc # keys[e][1].dec
  /\ \A e \in Ends :
       keys[e] # <<>> /\ keys[Other(e)] # <<>> /\ ~cut /\ "failed" \notin {pc[x] : x \in Ends} =>
         count[e].enc = count[Other(e)].dec + Len(wire[e])

(* What makes SecureEndsAgree inductive *)

IsSequence(q) == q \in Seq(ToSet(q))

\* A frame is what its sender made of it or, if the network changed it, still bears the
\* sender's signature; nobody else makes one that decrypts.
Genuine(e, f) ==
  /\ f = Frame(f.t, f.v)
  /\ f.t = "exchange" =>
       /\ remote[e] # <<>>
       /\ f.v = [epubkey |-> f.v.epubkey,
                 signature |-> Signature(e, Proposition(e), remote[e][1],
                                         generate_agreement(e, chosen[e][1].exchange))]
  /\ f.t = "cipher" => keys[e] # <<>> /\ IsSequence(f.v.bytes)

WireGenuine ==
  \A e \in Ends : IsSequence(wire[e]) /\ \A i \in 1..Len(wire[e]) : Genuine(e, wire[e][i])

\* What an end holds at each stage of the handshake, a failed one what it held before.
Staged(e) ==
  /\ pc[e] \in {"start", "propose"} => remote[e] = <<>>
  /\ pc[e] \in {"start", "propose", "exchange"} => keys[e] = <<>>
  /\ pc[e] \in {"exchange", "nonce", "secure"} => remote[e] # <<>>
  /\ pc[e] \in {"nonce", "secure"} => keys[e] # <<>>
  /\ keys[e] = <<>> => count[e] = [enc |-> 0, dec |-> 0]
  /\ remote[e] # <<>> =>
       remote[e] = <<remote[e][1]>> /\ chosen[e] = <<with_remote(e, remote[e][1])>>

\* Keys are built only after the remote proved that each end holds the other's proposition
\* and that both chose the same exchange.
Settled(e) ==
  LET o == Other(e)
      c == chosen[e][1]
  IN /\ remote[e] = <<Proposition(o)>> /\ remote[o] = <<Proposition(e)>>
     /\ c.exchange = chosen[o][1].exchange /\ c.order # "equal"
     /\ keys[e] = <<stretch_key(c, agree(c.exchange, generate_agreement(e, c.exchange),
                                         generate_agreement(o, c.exchange)))>>

\* Whoever has read something decrypted it, so that the other end has its keys.
ReadFromOther ==
  \A e \in Ends :
    pc[e] = "secure" \/ recv_buf[e] # <<>> \/ taken[e] # <<>> => keys[Other(e)] # <<>>

\* A direction that was never disturbed holds the frames sent and not yet taken.
FramesSent(e) == (CASE pc[e] = "start" -> 0 [] pc[e] = "propose" -> 1 [] OTHER -> 2) + count[e].enc
FramesTaken(e) ==
  (CASE pc[e] \in {"start", "propose"} -> 0 [] pc[e] = "exchange" -> 1 [] OTHER -> 2) + count[e].dec
NoneLost ==
  ~cut /\ "failed" \notin {pc[x] : x \in Ends} =>
    \A e \in Ends : Len(wire[e]) = FramesSent(e) - FramesTaken(Other(e))

Shapes ==
  /\ DOMAIN wire = Ends /\ DOMAIN remote = Ends /\ DOMAIN chosen = Ends /\ DOMAIN keys = Ends
  /\ DOMAIN recv_buf = Ends /\ DOMAIN taken = Ends /\ DOMAIN out = Ends /\ DOMAIN buf = Ends
  /\ count \in [Ends -> [enc : Nat, dec : Nat]] /\ sent \in [Ends -> Nat]
  /\ \A e \in Ends :
       IsSequence(recv_buf[e]) /\ IsSequence(taken[e]) /\ IsSequence(out[e]) /\ IsSequence(buf[e])

HandshakeInvariant ==
  /\ TypeOK /\ Shapes /\ WireGenuine /\ ReadFromOther /\ NoneLost
  /\ \A e \in Ends : Staged(e) /\ (keys[e] # <<>> => Settled(e))

-----------------------------------------------------------------------------
\* Both ends open the protocol with the same version: the highest both support, unless the
\* protocol has its own choice (protocol_select/mod.rs).
SameVersion ==
  LET common == ToSet(setup.offered) \cap ToSet(setup.served) IN
  /\ sel["client"] = "open" =>
       /\ sel["server"] = "open" /\ version["client"] = version["server"]
       /\ setup.asked = setup.name
  /\ sel["server"] = "open" => version["server"] \in common
  /\ sel["server"] = "open" /\ ~setup.select => version["server"] = Max(common)
  /\ sel["server"] = "refused" => setup.asked # setup.name \/ common = {}

\* What the user of a stream relies on: the ends agree on the version, and the messages come
\* out whole, in order and without a gap (secure_stream.rs, Framed), the ones that were read
\* together with the reply of the selection included (client_select).
DataInOrder ==
  /\ SameVersion
  /\ \A e \in Ends : got[e] = [i \in 1..Len(got[e]) |-> Data(Other(e), i)]
=============================================================================
