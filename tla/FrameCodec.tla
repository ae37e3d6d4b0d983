------------------------------ MODULE FrameCodec ------------------------------
(***************************************************************************)
(* The bytes of yamux frames (yamux/src/frame.rs), and the decoder that    *)
(* is fed with them in any portions.  The four bytes of a stream id, and   *)
(* of a length that counts no bytes, are kept as they are.                 *)
(***************************************************************************)
EXTENDS Multiaddr

HEADER_SIZE == 12
PROTOCOL_VERSION == 0
Types == [data |-> 0, window_update |-> 1, ping |-> 2, go_away |-> 3]
RESERVED_STREAM_ID == <<0, 0, 0, 0>>
max_frame_size == 300 \* INITIAL_STREAM_WINDOW unless it is set

\* Big-endian numbers; what does not fit three bytes is Huge.
put_u32(n) == Reverse(pack_number(n))
get_u32(s) == unpack_number(Reverse(s))

\* A frame: body is <<>> unless it is a data frame
YamuxFrame(ty, flags, stream_id, length, body) ==
  [ty |-> ty, flags |-> flags, stream_id |-> stream_id, length |-> length, body |-> body]
new_data(flags, id, body) == YamuxFrame("data", flags, id, put_u32(Len(body)), body)
new_window_update(flags, id, delta) == YamuxFrame("window_update", flags, id, delta, <<>>)
new_ping(flags, ping_id) == YamuxFrame("ping", flags, RESERVED_STREAM_ID, ping_id, <<>>)
new_go_away(code) == YamuxFrame("go_away", 0, RESERVED_STREAM_ID, put_u32(code), <<>>)

encode(f) ==
  <<PROTOCOL_VERSION, Types[f.ty], f.flags \div 256, f.flags % 256>>
    \o f.stream_id \o f.length \o f.body

\* A decoder: the bytes it has not used, the header of a data frame whose body is not
\* complete, the frames it gave, and whether it met an error.
Decoder == [src |-> <<>>, unused_data_header |-> None, frames |-> <<>>, failed |-> FALSE]

ParseHeader(s) ==
  LET ty == CHOOSE t \in DOMAIN Types : Types[t] = s[2]
      bad == \/ s[1] # PROTOCOL_VERSION
             \/ \A t \in DOMAIN Types : Types[t] # s[2]
             \/ s[2] = Types.data /\ get_u32(Slice(s, 8, 12)) > max_frame_size
  IN IF bad THEN None
     ELSE Some(YamuxFrame(ty, 256 * s[3] + s[4], Slice(s, 4, 8), Slice(s, 8, 12), <<>>))

\* Mutant: a header whose body has not come is forgotten.
DecodeBodyForgets(d, header) ==
  LET n == IF header.ty = "data" THEN get_u32(header.length) ELSE 0
  IN IF Len(d.src) < n THEN [d EXCEPT !.unused_data_header = None]
     ELSE [d EXCEPT !.unused_data_header = None, !.src = From(@, n),
                    !.frames = Append(@, [header EXCEPT !.body = Slice(d.src, 0, n)])]

DecodeBody(d, header) ==
  LET n == IF header.ty = "data" THEN get_u32(header.length) ELSE 0
  IN IF Len(d.src) < n THEN [d EXCEPT !.unused_data_header = Some(header)]
     ELSE [d EXCEPT !.unused_data_header = None, !.src = From(@, n),
                    !.frames = Append(@, [header EXCEPT !.body = Slice(d.src, 0, n)])]

\* One call of decode
decode(d) ==
  IF d.src = <<>> THEN d
  ELSE IF d.unused_data_header # None THEN DecodeBody(d, d.unused_data_header[1])
  ELSE IF Len(d.src) < HEADER_SIZE THEN d
  ELSE LET Rest(header) == [d EXCEPT !.src = From(@, HEADER_SIZE), !.failed = header = None]
           Then(header) == IF header = None THEN Rest(header) ELSE DecodeBody(Rest(header), header[1])
       IN Then(ParseHeader(d.src))

\* Framed: decode is called until it gives no frame; an error ends the stream.
RECURSIVE Drain(_)
Drain(d) ==
  LET Then(next) == IF next.failed \/ Len(next.frames) = Len(d.frames) THEN next ELSE Drain(next)
  IN Then(decode(d))
Feed(d, data) == IF d.failed THEN d ELSE Drain([d EXCEPT !.src = @ \o data])

FramesEncode(fs) == FlattenSeq([i \in DOMAIN fs |-> encode(fs[i])])
FramesOf(d) ==
  IF d.failed \/ d.src # <<>> \/ d.unused_data_header # None THEN None ELSE Some(d.frames)
FramesDecode(data) == FramesOf(Feed(Decoder, data))

=============================================================================
