------------------------------ MODULE Multiaddr ------------------------------
(***************************************************************************)
(* The binary form of addresses (multiaddr/src), and what the rest of the  *)
(* system reads from them (tentacle/src/utils.rs, secio/src/peer_id.rs).   *)
(*                                                                         *)
(* An address is a sequence of bytes; a component of one is a record of    *)
(* its protocol and the bytes of its value.  None is the empty sequence    *)
(* and Some(x) is <<x>>, for Option and for Result.                        *)
(***************************************************************************)
EXTENDS Molecule

None == <<>>
Some(x) == <<x>>
\* and_then
AndThen(o, Op(_)) == IF o = None THEN None ELSE Op(o[1])

Code ==
  [dns4 |-> 54, dns6 |-> 55, ip4 |-> 4, ip6 |-> 41, p2p |-> 421, tcp |-> 6, tls |-> 448,
   ws |-> 477, wss |-> 478, memory |-> 777, onion3 |-> 445, quicv1 |-> 461, udp |-> 273]
\* The protocols whose value comes with its length, and the sizes of the others
Sized == {"dns4", "dns6", "p2p", "tls"}
Size ==
  [ip4 |-> 4, ip6 |-> 16, tcp |-> 2, ws |-> 0, wss |-> 0, memory |-> 8, onion3 |-> 37,
   quicv1 |-> 0, udp |-> 2]

Component(p, v) == [p |-> p, v |-> v]

(***************************************************************************)
(* unsigned_varint: seven bits a byte, the lowest first, in the least      *)
(* number of bytes.                                                        *)
(***************************************************************************)
RECURSIVE Varint(_)
Varint(n) == IF n < 128 THEN <<n>> ELSE <<128 + (n % 128)>> \o Varint(n \div 128)

\* The number in the first k bytes of s, and the rest; Huge stands for every number of more
\* than three bytes, and k is 0 if no byte of s is the last one of a number.
FirstNumber(s, k, max) ==
  IF k = 0 \/ k > max \/ (s[k] = 0 /\ k > 1) THEN None
  ELSE Some([n |-> IF k > 3 THEN Huge
                   ELSE FoldRight(LAMBDA b, n : (b % 128) + 128 * n, Slice(s, 0, k), 0),
             rest |-> From(s, k)])
\* The number at the start of s, of at most max bytes, and the rest
decode_varint(s, max) == FirstNumber(s, SelectInSeq(s, LAMBDA b : b < 128), max)

(***************************************************************************)
(* Protocol::from_bytes and write_to_bytes                                 *)
(***************************************************************************)
SHA256_CODE == 18
SHA256_SIZE == 32

IsSha256(code) ==
  /\ code # None /\ code[1].n = SHA256_CODE
  /\ Len(code[1].rest) = SHA256_SIZE + 1 /\ code[1].rest[1] = SHA256_SIZE
check_p2p(data) == IsSha256(decode_varint(data, 10))

\* str::from_utf8: the bytes of a character that begins with b, and the values of its second
CharLen(b) ==
  CASE b < 128 -> 1 [] b \in 194 .. 223 -> 2 [] b \in 224 .. 239 -> 3 [] b \in 240 .. 244 -> 4
    [] OTHER -> 0
Second(b) ==
  CASE b = 224 -> 160 .. 191 [] b = 237 -> 128 .. 159 [] b = 240 -> 144 .. 191 [] b = 244 -> 128 .. 143
    [] OTHER -> 128 .. 191
RECURSIVE from_utf8(_)
from_utf8(data) ==
  \/ data = <<>>
  \/ LET n == CharLen(data[1])
     IN /\ n \in 1 .. Len(data)
        /\ n > 1 => data[2] \in Second(data[1])
        /\ \A i \in 3 .. n : data[i] \in 128 .. 191
        /\ from_utf8(From(data, n))

split_header(n, input) ==
  IF Len(input) < n THEN None
  ELSE Some([data |-> Slice(input, 0, n), rest |-> From(input, n)])

\* The steps of from_bytes, each with what the one before it gave: the code of the protocol,
\* the size of the value, and the value.  None for any of the errors.
WithValue(p, at) ==
  IF \/ at = None
     \/ p \in {"dns4", "dns6", "tls"} /\ ~ from_utf8(at[1].data)
     \/ p = "p2p" /\ ~ check_p2p(at[1].data)
  THEN None
  ELSE Some([c |-> Component(p, at[1].data), rest |-> at[1].rest])
WithSize(p, size) == WithValue(p, split_header(size.n, size.rest))
WithCode(id) ==
  IF id.n \notin {Code[p] : p \in DOMAIN Code} THEN None
  ELSE LET p == CHOOSE p \in DOMAIN Code : Code[p] = id.n
       IN AndThen(IF p \in Sized THEN decode_varint(id.rest, 10)
                  ELSE Some([n |-> Size[p], rest |-> id.rest]),
                  LAMBDA size : WithSize(p, size))
\* The first component and the rest
from_bytes(input) == AndThen(decode_varint(input, 5), WithCode)

write_to_bytes(c) ==
  Varint(Code[c.p]) \o (IF c.p \in Sized THEN Varint(Len(c.v)) ELSE <<>>) \o c.v

(***************************************************************************)
(* Multiaddr                                                               *)
(***************************************************************************)
RECURSIVE try_from(_)
try_from(a) ==
  a # <<>> => \E first \in ToSet(from_bytes(a)) : try_from(first.rest)

\* The components, of an address: from_bytes is expected not to fail.
RECURSIVE iter(_)
iter(a) ==
  LET Then(first) == <<first.c>> \o iter(first.rest)
  IN IF a = <<>> THEN <<>> ELSE Then(from_bytes(a)[1])

from_iter(cs) == FlattenSeq([i \in 1 .. Len(cs) |-> write_to_bytes(cs[i])])

push(a, c) == a \o write_to_bytes(c)

\* The address without its last component
RECURSIVE LastSlice(_)
LastSlice(a) ==
  LET Before(rest) == IF rest = <<>> THEN a ELSE LastSlice(rest)
  IN Before(from_bytes(a)[1].rest)
pop(a) == Slice(a, 0, Len(a) - Len(LastSlice(a)))

(***************************************************************************)
(* tentacle/src/utils.rs                                                   *)
(***************************************************************************)
\* The first IP address, if a TCP port is behind it; what is behind an IP address is
\* skipped with it otherwise.
RECURSIVE SocketIn(_)
SocketIn(cs) ==
  IF cs = <<>> THEN None
  ELSE IF cs[1].p \notin {"ip4", "ip6"} THEN SocketIn(Tail(cs))
  ELSE IF Len(cs) = 1 THEN None
  ELSE IF cs[2].p = "tcp" THEN Some([ip |-> cs[1].v, port |-> cs[2].v])
  ELSE SocketIn(From(cs, 2))
multiaddr_to_socketaddr(a) == SocketIn(iter(a))

is_reachable(ip) ==
  IF Len(ip) = 4
  THEN ~ \/ ip[1] \in {10, 127}
         \/ ip[1] = 172 /\ ip[2] \in 16 .. 31
         \/ <<ip[1], ip[2]>> \in {<<192, 168>>, <<169, 254>>}
         \/ <<ip[1], ip[2], ip[3]>> \in {<<192, 0, 2>>, <<198, 51, 100>>, <<203, 0, 113>>}
         \/ ip \in {<<0, 0, 0, 0>>, <<255, 255, 255, 255>>}
  ELSE ~ \/ ip[1] = 255 /\ ip[2] % 16 # 14
         \/ (\A i \in 1 .. 15 : ip[i] = 0) /\ ip[16] \in {0, 1}
         \/ ip[1] = 254 /\ ip[2] >= 128
         \/ ip[1] \in {252, 253}
         \/ <<ip[1], ip[2], ip[3], ip[4]>> = <<32, 1, 13, 184>>

\* PeerId::from_bytes
PeerIdFromBytes(data) == data # <<>> /\ IsSha256(decode_varint(data, 10))

FirstValue(cs) == IF cs = <<>> THEN None ELSE Some(cs[1].v)
extract_peer_id(a) ==
  FirstValue(SelectSeq(iter(a), LAMBDA c : c.p = "p2p" /\ PeerIdFromBytes(c.v)))

=============================================================================
