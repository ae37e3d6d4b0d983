------------------------------- MODULE Messages -------------------------------
(***************************************************************************)
(* The messages that travel as molecule: their types (the *_mol.rs files)  *)
(* and the encode and decode functions around them.  A message is a record *)
(* named by its kind.  Numbers that are only compared or sent back (nonce, *)
(* version, count) are their four little-endian bytes.                     *)
(***************************************************************************)
EXTENDS FrameCodec

(***************************************************************************)
(* protocols/ping                                                          *)
(***************************************************************************)
Ping_Uint32 == Array(4)
Ping_Ping == Table(<<Ping_Uint32>>)
Ping_Pong == Table(<<Ping_Uint32>>)
Ping_PingPayload == Union(<<Ping_Ping, Ping_Pong>>)
Ping_PingMessage == Table(<<Ping_PingPayload>>)

Ping(nonce) == [kind |-> "ping", nonce |-> nonce]
Pong(nonce) == [kind |-> "pong", nonce |-> nonce]

build_ping(nonce) == write(Ping_PingMessage, <<[id |-> 0, value |-> <<nonce>>]>>)
build_pong(nonce) == write(Ping_PingMessage, <<[id |-> 1, value |-> <<nonce>>]>>)

\* from_compatible_slice and the accessors: the value in the slice, if it is in order
Read(type, data) == IF verify(type, data, TRUE) THEN Some(Value(type, data)) ELSE None

PingDecode(data) ==
  AndThen(Read(Ping_PingMessage, data),
          LAMBDA v : Some(IF v[1].id = 0 THEN Ping(v[1].value[1]) ELSE Pong(v[1].value[1])))

(***************************************************************************)
(* protocols/discovery                                                     *)
(***************************************************************************)
Discovery_Bytes == FixVec
Discovery_BytesVec == DynVec(Discovery_Bytes)
Discovery_Uint32 == Array(4)
Discovery_Uint16 == Array(2)
Discovery_Bool == Array(1)
Discovery_PortOpt == Option(Discovery_Uint16)
Discovery_Node == Table(<<Discovery_BytesVec>>)
Discovery_NodeVec == DynVec(Discovery_Node)
Discovery_GetNodes == Table(<<Discovery_Uint32, Discovery_Uint32, Discovery_PortOpt>>)
Discovery_Nodes == Table(<<Discovery_Bool, Discovery_NodeVec>>)
Discovery_DiscoveryPayload == Union(<<Discovery_GetNodes, Discovery_Nodes>>)
Discovery_DiscoveryMessage == Table(<<Discovery_DiscoveryPayload>>)

\* listen_port is an option of a number; a node is the sequence of its addresses.
GetNodes(count, listen_port) ==
  [kind |-> "getnodes", version |-> pack_number(0), count |-> count, listen_port |-> listen_port]
Nodes(announce, items) == [kind |-> "nodes", announce |-> announce, items |-> items]

\* LengthDelimitedCodec: four bytes of length, the highest first; more than a frame is left
\* alone, less is no frame.
Frame(payload) == Reverse(pack_number(Len(payload))) \o payload
Unframe(data) ==
  LET First(n) == IF Len(data) - 4 < n THEN None ELSE Some(Slice(data, 4, 4 + n))
  IN IF Len(data) < 4 THEN None ELSE First(unpack_number(Reverse(Slice(data, 0, 4))))

DiscoveryEncode(m) ==
  LET le(port) == <<port % 256, port \div 256>>
      payload ==
        IF m.kind = "getnodes"
        THEN [id |-> 0, value |-> <<m.version, m.count,
                [i \in DOMAIN m.listen_port |-> le(m.listen_port[i])]>>]
        ELSE [id |-> 1, value |-> <<IF m.announce THEN <<1>> ELSE <<0>>,
                [i \in DOMAIN m.items |-> <<m.items[i]>>]>>]
  IN Frame(write(Discovery_DiscoveryMessage, <<payload>>))

PortOf(le) == le[1] + 256 * le[2]

\* Multiaddr::try_from on every one of them
Addresses(bytes) == \A i \in 1 .. Len(bytes) : try_from(bytes[i])

\* The message of a payload
DiscoveryOf(id, v) ==
  IF id = 0
  THEN Some([kind |-> "getnodes", version |-> v[1], count |-> v[2],
             listen_port |-> [i \in DOMAIN v[3] |-> PortOf(v[3][i])]])
  ELSE IF v[1][1] \in {0, 1} /\ \A i \in 1 .. Len(v[2]) : Addresses(v[2][i][1])
  THEN Some(Nodes(v[1][1] = 1, [i \in 1 .. Len(v[2]) |-> v[2][i][1]]))
  ELSE None
DiscoveryDecode(data) ==
  AndThen(AndThen(Unframe(data), LAMBDA frame : Read(Discovery_DiscoveryMessage, frame)),
          LAMBDA v : DiscoveryOf(v[1].id, v[1].value))

(***************************************************************************)
(* protocols/identify                                                      *)
(***************************************************************************)
Identify_Bytes == FixVec
Identify_Address == Table(<<Identify_Bytes>>)
Identify_AddressVec == DynVec(Identify_Address)
Identify_IdentifyMessage == Table(<<Identify_AddressVec, Identify_Address, Identify_Bytes>>)

Identify(listen_addrs, observed_addr, identify) ==
  [kind |-> "identify", listen_addrs |-> listen_addrs, observed_addr |-> observed_addr,
   identify |-> identify]

IdentifyEncode(m) ==
  write(Identify_IdentifyMessage,
        <<[i \in DOMAIN m.listen_addrs |-> <<m.listen_addrs[i]>>], <<m.observed_addr>>,
          m.identify>>)

IdentifyOf(listens, observed, identify) ==
  IF try_from(observed) /\ Addresses(listens) THEN Some(Identify(listens, observed, identify))
  ELSE None
IdentifyDecode(data) ==
  AndThen(Read(Identify_IdentifyMessage, data),
          LAMBDA v : IdentifyOf([i \in 1 .. Len(v[1]) |-> v[1][i][1]], v[2][1], v[3]))

(***************************************************************************)
(* secio/src/handshake: what handshake() of module Connection exchanges    *)
(***************************************************************************)
Handshake_Bytes == FixVec
Handshake_String == FixVec
Handshake_Secp256k1 == FixVec
Handshake_PublicKey == Union(<<Handshake_Secp256k1>>)
Handshake_Propose ==
  Table(<<Handshake_Bytes, Handshake_Bytes, Handshake_String, Handshake_String, Handshake_String>>)
Handshake_Exchange == Table(<<Handshake_Bytes, Handshake_Bytes>>)

ProposeEncode(m) == write(Handshake_Propose, <<m.rand, m.pubkey, m.exchange, m.ciphers, m.hashes>>)
ProposeDecode(data) ==
  AndThen(Read(Handshake_Propose, data), LAMBDA v :
    IF \A i \in 3 .. 5 : from_utf8(v[i])
    THEN Some([rand |-> v[1], pubkey |-> v[2], exchange |-> v[3], ciphers |-> v[4],
               hashes |-> v[5]])
    ELSE None)

ExchangeEncode(m) == write(Handshake_Exchange, <<m.epubkey, m.signature>>)
ExchangeDecode(data) ==
  AndThen(Read(Handshake_Exchange, data), LAMBDA v : Some([epubkey |-> v[1], signature |-> v[2]]))

PublicKeyEncode(m) == write(Handshake_PublicKey, [id |-> 0, value |-> m.key])
PublicKeyDecode(data) ==
  AndThen(Read(Handshake_PublicKey, data), LAMBDA v : Some([key |-> v.value]))

(***************************************************************************)
(* tentacle/src/protocol_select                                            *)
(***************************************************************************)
Select_String == FixVec
Select_StringVec == DynVec(Select_String)
Select_ProtocolInfo == Table(<<Select_String, Select_StringVec>>)

ProtocolInfoEncode(m) == write(Select_ProtocolInfo, <<m.name, m.support_versions>>)
ProtocolInfoDecode(data) ==
  AndThen(Read(Select_ProtocolInfo, data), LAMBDA v :
    IF (\A i \in 1 .. Len(v[2]) : from_utf8(v[2][i])) /\ from_utf8(v[1])
    THEN Some([name |-> v[1], support_versions |-> v[2]]) ELSE None)

(***************************************************************************)
(* tentacle/src/quic/identity.rs                                           *)
(***************************************************************************)
Quic_Bytes == FixVec
Quic_Uint8 == Array(1)
Quic_TentacleQuicIdentityV1 == Table(<<Quic_Uint8, Quic_Bytes, Quic_Bytes>>)

IDENTITY_VERSION == 1

encode_identity_payload(m) ==
  write(Quic_TentacleQuicIdentityV1, <<<<IDENTITY_VERSION>>, m.secio_pubkey, m.binding_sig>>)

\* exts: the extensions of the certificate that have the identity's OID
extract_identity(exts) ==
  IF Len(exts) # 1 THEN None
  ELSE AndThen(Read(Quic_TentacleQuicIdentityV1, exts[1]), LAMBDA v :
         IF v[1] = <<IDENTITY_VERSION>>
         THEN Some([secio_pubkey |-> v[2], binding_sig |-> v[3]]) ELSE None)

(***************************************************************************)
(* tentacle/src/transports/tcp_base_listen.rs: how a listener that serves  *)
(* TCP and TLS tells by the first 16 bytes that a stream is plain TCP.     *)
(***************************************************************************)
\* Mutant: both lengths are read as molecule's.
LooksLikeProposeLittle(b) ==
  LET rand_start == unpack_number(Slice(b, 8, 12))
      rand_end == unpack_number(Slice(b, 12, 16))
      molecule_header == unpack_number(Slice(b, 4, 8))
  IN /\ unpack_number(Slice(b, 0, 4)) = molecule_header
     /\ rand_start = 24 /\ rand_start < rand_end /\ rand_end < molecule_header

\* secio's Propose behind its length
LooksLikePropose(b) ==
  LET rand_start == unpack_number(Slice(b, 8, 12))
      rand_end == unpack_number(Slice(b, 12, 16))
      molecule_header == unpack_number(Slice(b, 4, 8))
  IN /\ get_u32(Slice(b, 0, 4)) = molecule_header
     /\ rand_start = 24 /\ rand_start < rand_end /\ rand_end < molecule_header

\* The frame that opens a stream, or a ping
LooksLikeYamux(b) ==
  LET reserved == Slice(b, 4, 8) = RESERVED_STREAM_ID
  IN b[1] = 0 /\ b[3] = 0 /\ b[4] = 1 /\ ((b[2] = 1 /\ ~ reserved) \/ (b[2] = 2 /\ reserved))

IsPlain(b) == LooksLikePropose(b) \/ LooksLikeYamux(b)

(***************************************************************************)
(* By format                                                               *)
(***************************************************************************)
Formats ==
  {"ping", "discovery", "identify", "propose", "exchange", "pubkey", "select", "quic", "yamux"}

\* The type of what from_compatible_slice is called with
TypeOf ==
  [ping |-> Ping_PingMessage, discovery |-> Discovery_DiscoveryMessage,
   identify |-> Identify_IdentifyMessage, propose |-> Handshake_Propose,
   exchange |-> Handshake_Exchange, pubkey |-> Handshake_PublicKey,
   select |-> Select_ProtocolInfo, quic |-> Quic_TentacleQuicIdentityV1]

Encode(f, m) ==
  CASE f = "ping"      -> IF m.kind = "ping" THEN build_ping(m.nonce) ELSE build_pong(m.nonce)
    [] f = "discovery" -> DiscoveryEncode(m)
    [] f = "identify"  -> IdentifyEncode(m)
    [] f = "propose"   -> ProposeEncode(m)
    [] f = "exchange"  -> ExchangeEncode(m)
    [] f = "pubkey"    -> PublicKeyEncode(m)
    [] f = "select"    -> ProtocolInfoEncode(m)
    [] f = "quic"      -> encode_identity_payload(m)
    [] f = "yamux"     -> FramesEncode(m)

Decode(f, data) ==
  CASE f = "ping"      -> PingDecode(data)
    [] f = "discovery" -> DiscoveryDecode(data)
    [] f = "identify"  -> IdentifyDecode(data)
    [] f = "propose"   -> ProposeDecode(data)
    [] f = "exchange"  -> ExchangeDecode(data)
    [] f = "pubkey"    -> PublicKeyDecode(data)
    [] f = "select"    -> ProtocolInfoDecode(data)
    [] f = "quic"      -> extract_identity(<<data>>)
    [] f = "yamux"     -> FramesDecode(data)

=============================================================================
