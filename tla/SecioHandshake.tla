--------------------------- MODULE SecioHandshake ---------------------------
(***************************************************************************)
(* The secio handshake and the encrypted stream it produces               *)
(* (secio/src/handshake/procedure.rs, handshake_context.rs, support.rs,   *)
(* codec/secure_stream.rs, crypto/), run by the two ends of a connection.  *)
(*                                                                         *)
(* The connection carries frames, each direction in order, until it is cut *)
(* (what is in transit may then be lost) or one frame is changed on its    *)
(* way.  Keys, nonces, signatures and ciphers are terms: a signature names *)
(* its signer and what it covers, and a frame decrypts only with the key   *)
(* and the counter it was encrypted with.  A byte is a token.              *)
(***************************************************************************)
EXTENDS Integers, Sequences, FiniteSets, SequencesExt

CONSTANTS
  Setups,    \* the configurations of a connection, see Init
  NonceSize, \* bytes of a nonce (16 in the code)
  ReadSizes  \* sizes of the buffers the stream is read with

\* Buffers have a size, one of them the largest.
ASSUME SizesAssumption ==
  /\ NonceSize \in Nat
  /\ ReadSizes \subseteq Nat /\ \E m \in ReadSizes : \A n \in ReadSizes : n <= m

Ends == {"client", "server"}
Other(e) == IF e = "client" THEN "server" ELSE "client"

ASSUME SetupsAssumption ==
  \A u \in Setups : u.faults \in Nat /\ u.digest \in [Ends -> Int] /\ u.data \in [Ends -> Nat]

\* The names this implementation knows; a proposal may hold others.
Agreements == {"P-256", "P-384", "X25519"}
Ciphers == {"AES-128-GCM", "AES-256-GCM", "CHACHA20_POLY1305"}
Digests == {"SHA256", "SHA512"}

VARIABLES
  setup,    \* per end: its key and its proposals; the digests that decide the order;
            \* faults, how often the network may cut or change what it carries
  pc,       \* how far each end is
  wire,     \* frames on their way from each end
  cut,      \* is the connection down?
  remote,   \* the remote's proposition, <<>> before it came
  chosen,   \* the outcome of with_remote
  keys,     \* the keys of the two ciphers, <<>> before they are built
  count,    \* the nonce counters of the two ciphers
  recv_buf, \* decrypted bytes that did not fit the reader's buffer
  taken,    \* what verify_nonce has read
  faults    \* how often the network misbehaved

hvars == <<setup, pc, wire, cut, remote, chosen, keys, count, recv_buf, taken, faults>>

-----------------------------------------------------------------------------
(* support.rs: both ends must find the same name *)

\* The first name of a that is one of b too; unknown names are skipped.
FirstCommon(a, b, known) ==
  LET common == SelectSeq(a, LAMBDA x : x \in ToSet(b) /\ x \in known)
  IN IF common = <<>> THEN "none" ELSE common[1]

\* Mutant: both ends go by their own preferences.
SelectOurs(order, ours, theirs, known) == FirstCommon(ours, theirs, known)

\* The order decides whose preferences count.
Select(order, ours, theirs, known) ==
  IF order = "greater" THEN FirstCommon(ours, theirs, known) ELSE FirstCommon(theirs, ours, known)

select_agreement(order, ours, theirs) == Select(order, ours, theirs, Agreements)
select_cipher(order, ours, theirs) == Select(order, ours, theirs, Ciphers)
select_digest(order, ours, theirs) == Select(order, ours, theirs, Digests)

-----------------------------------------------------------------------------
(* handshake_context.rs *)

Nonce(e) == [i \in 1..NonceSize |-> [kind |-> "nonce", from |-> e, n |-> i]]

\* with_local
Proposition(e) ==
  [rand |-> Nonce(e), pubkey |-> setup.key[e], exchange |-> setup.exchange[e],
   ciphers |-> setup.ciphers[e], hashes |-> setup.hashes[e]]

\* sha256 of a public key and a nonce, as far as its order matters
Digest(pubkey, nonce) ==
  IF \E e \in Ends : pubkey = setup.key[Other(e)] /\ nonce = Nonce(e)
  THEN setup.digest[CHOOSE e \in Ends : nonce = Nonce(e)] ELSE 0

hashes_ordering(e, propose) ==
  LET oh1 == Digest(propose.pubkey, Nonce(e))
      oh2 == Digest(setup.key[e], propose.rand)
  IN IF oh1 < oh2 THEN "less" ELSE IF oh1 > oh2 THEN "greater" ELSE "equal"

with_remote(e, propose) ==
  LET order == hashes_ordering(e, propose) IN
  [order |-> order,
   exchange |-> select_agreement(order, setup.exchange[e], propose.exchange),
   cipher |-> select_cipher(order, setup.ciphers[e], propose.ciphers),
   hash |-> select_digest(order, setup.hashes[e], propose.hashes)]

Agreed(e, propose) ==
  LET c == with_remote(e, propose) IN
  /\ propose.pubkey # setup.key[e]  \* ConnectSelf
  /\ "none" \notin {c.exchange, c.cipher, c.hash}

-----------------------------------------------------------------------------
(* dh_compat, crypto *)

generate_agreement(e, algorithm) == [by |-> e, alg |-> algorithm]

\* Both ends derive the same secret from the two ephemeral keys.
agree(algorithm, mine, theirs) == [alg |-> algorithm, of |-> {mine, theirs}]

Signature(e, mine, theirs, epubkey) == [by |-> setup.key[e], over |-> <<mine, theirs, epubkey>>]

\* The stretched key has one half for each direction; the order says which is whose.
Half(order) == IF order = "less" THEN [enc |-> "second", dec |-> "first"]
               ELSE [enc |-> "first", dec |-> "second"]
stretch_key(c, secret) ==
  LET key(half) == [secret |-> secret, hash |-> c.hash, cipher |-> c.cipher, half |-> half]
  IN [enc |-> key(Half(c.order).enc), dec |-> key(Half(c.order).dec)]

Frame(t, v) == [t |-> t, v |-> v]
Junk == Frame("junk", <<>>)

\* The counter advances before each use, on both sides.
encrypt(key, n, bytes) == Frame("cipher", [key |-> key, n |-> n + 1, bytes |-> bytes])
Decrypts(key, n, frame) == frame.t = "cipher" /\ frame.v.key = key /\ frame.v.n = n + 1

-----------------------------------------------------------------------------
HandshakeInit ==
  /\ setup \in Setups
  /\ pc = [e \in Ends |-> "start"]
  /\ wire = [e \in Ends |-> <<>>]
  /\ cut = FALSE
  /\ remote = [e \in Ends |-> <<>>] /\ chosen = [e \in Ends |-> <<>>]
  /\ keys = [e \in Ends |-> <<>>] /\ count = [e \in Ends |-> [enc |-> 0, dec |-> 0]]
  /\ recv_buf = [e \in Ends |-> <<>>] /\ taken = [e \in Ends |-> <<>>]
  /\ faults = 0

Goes(e, to) == pc' = [pc EXCEPT ![e] = to]
Arrived(e) == wire[Other(e)] # <<>>
Incoming(e) == Head(wire[Other(e)])
\* Frames leave the reader's end of the wire and enter the writer's, if it still stands.
Moves(e, takes, sends) ==
  wire' = [wire EXCEPT ![Other(e)] = IF takes THEN Tail(@) ELSE @,
                       ![e] = IF cut THEN @ ELSE @ \o sends]

\* An error ends the task, which drops the socket: the remote reads what was sent, then eof.
Fails(e) ==
  /\ Goes(e, "failed")
  /\ wire' = [wire EXCEPT ![Other(e)] = <<>>]
  /\ UNCHANGED <<setup, cut, remote, chosen, keys, count, recv_buf, taken, faults>>
\* Once the connection is down a read or a write may fail; buffered bytes can still be read.
Broken(e) ==
  /\ pc[e] # "failed" /\ recv_buf[e] = <<>>
  /\ cut \/ pc[Other(e)] = "failed"
  /\ Fails(e)

SendPropose(e) ==
  /\ pc[e] = "start"
  /\ Goes(e, "propose")
  /\ Moves(e, FALSE, <<Frame("propose", Proposition(e))>>)
  /\ UNCHANGED <<setup, cut, remote, chosen, keys, count, recv_buf, taken, faults>>

\* with_remote, with_ephemeral, the signature and the send of our Exchange
RecvPropose(e) ==
  LET propose == Incoming(e).v
      c == with_remote(e, propose)
      mine == generate_agreement(e, c.exchange)
      signature == Signature(e, Proposition(e), propose, mine)
  IN
  /\ pc[e] = "propose" /\ Arrived(e)
  /\ IF Incoming(e).t # "propose" \/ ~Agreed(e, propose) THEN Fails(e)
     ELSE /\ Goes(e, "exchange")
          /\ remote' = [remote EXCEPT ![e] = <<propose>>]
          /\ chosen' = [chosen EXCEPT ![e] = <<c>>]
          /\ Moves(e, TRUE, <<Frame("exchange", [epubkey |-> mine, signature |-> signature])>>)
          /\ UNCHANGED <<setup, cut, keys, count, recv_buf, taken, faults>>

\* Mutant: only the ephemeral key is checked against the signature.
verify_ecdsaKeyOnly(e, exchange) ==
  exchange.signature.by = remote[e][1].pubkey /\ exchange.signature.over[3] = exchange.epubkey

\* The remote signed both propositions and its ephemeral key.
verify_ecdsa(e, exchange) ==
  exchange.signature =
    [by |-> remote[e][1].pubkey, over |-> <<remote[e][1], Proposition(e), exchange.epubkey>>]

\* An ephemeral key of another algorithm gives no secret; equal digests give no direction.
RecvExchange(e) ==
  LET exchange == Incoming(e).v
      c == chosen[e][1]
      k == stretch_key(c, agree(c.exchange, generate_agreement(e, c.exchange), exchange.epubkey))
  IN
  /\ pc[e] = "exchange" /\ Arrived(e)
  /\ IF Incoming(e).t # "exchange" \/ ~verify_ecdsa(e, exchange)
        \/ exchange.epubkey.alg # c.exchange \/ c.order = "equal"
     THEN Fails(e)
     ELSE /\ Goes(e, "nonce")
          /\ keys' = [keys EXCEPT ![e] = <<k>>]
          /\ count' = [count EXCEPT ![e].enc = @ + 1]
          /\ Moves(e, TRUE, <<encrypt(k.enc, count[e].enc, remote[e][1].rand)>>)
          /\ UNCHANGED <<setup, cut, remote, chosen, recv_buf, taken, faults>>

-----------------------------------------------------------------------------
(* codec/secure_stream.rs *)

\* drain: from the buffer first, else from the next frame, whose rest is buffered.
poll_read(e, size) ==
  LET fresh == recv_buf[e] = <<>>
      ok == fresh => Decrypts(keys[e][1].dec, count[e].dec, Incoming(e))
      data == IF fresh THEN Incoming(e).v.bytes ELSE recv_buf[e]
      n == Min({size, Len(data)})
  IN IF ~ok THEN [ok |-> FALSE]
     ELSE [ok |-> TRUE, fresh |-> fresh, out |-> SubSeq(data, 1, n),
           rest |-> SubSeq(data, n + 1, Len(data))]

Readable(e) == recv_buf[e] # <<>> \/ Arrived(e)
Reads(e, r) ==
  /\ recv_buf' = [recv_buf EXCEPT ![e] = r.rest]
  /\ count' = [count EXCEPT ![e].dec = IF r.fresh THEN @ + 1 ELSE @]
  /\ Moves(e, r.fresh, <<>>)

\* One poll_write is one frame.
poll_write(e, bytes) ==
  /\ Moves(e, FALSE, <<encrypt(keys[e][1].enc, count[e].enc, bytes)>>)
  /\ count' = [count EXCEPT ![e].enc = @ + 1]

\* read_exact of as many bytes as our nonce has, then the comparison
verify_nonce(e) ==
  LET r == poll_read(e, NonceSize - Len(taken[e]))
      got == taken[e] \o r.out
  IN
  /\ pc[e] = "nonce" /\ Readable(e)
  /\ IF ~r.ok \/ (Len(got) = NonceSize /\ got # Nonce(e)) THEN Fails(e)
     ELSE /\ Reads(e, r)
          /\ taken' = [taken EXCEPT ![e] = got]
          /\ Goes(e, IF Len(got) = NonceSize THEN "secure" ELSE "nonce")
          /\ UNCHANGED <<setup, cut, remote, chosen, keys, faults>>

-----------------------------------------------------------------------------
(* The network: a cut loses the end of what is in transit; a changed frame is an offer *)
(* without its first name, another nonce or key, or noise.                            *)

Shorter(s) == SubSeq(s, 2, Len(s))
Changed(f) ==
  {Junk} \cup
  IF f.t = "propose"
  THEN {[f EXCEPT !.v.exchange = Shorter(@)], [f EXCEPT !.v.ciphers = Shorter(@)],
        [f EXCEPT !.v.hashes = Shorter(@)], [f EXCEPT !.v.rand = Reverse(@)]}
  ELSE IF f.t = "exchange" THEN {[f EXCEPT !.v.epubkey.by = "network"]} ELSE {}

Fault == faults < setup.faults /\ faults' = faults + 1
Cut ==
  /\ Fault /\ ~cut
  /\ cut' = TRUE
  /\ \E keep \in [Ends -> 0..2] :
       /\ \A e \in Ends : keep[e] <= Len(wire[e])
       /\ wire' = [e \in Ends |-> SubSeq(wire[e], 1, keep[e])]
  /\ UNCHANGED <<setup, pc, remote, chosen, keys, count, recv_buf, taken>>
Change(e) ==
  /\ Fault /\ wire[e] # <<>>
  /\ \E f \in Changed(wire[e][1]) : wire' = [wire EXCEPT ![e] = <<f>> \o Tail(@)]
  /\ UNCHANGED <<setup, pc, cut, remote, chosen, keys, count, recv_buf, taken>>

HandshakeStep(e) ==
  \/ SendPropose(e) \/ RecvPropose(e) \/ RecvExchange(e) \/ verify_nonce(e) \/ Broken(e)
=============================================================================
