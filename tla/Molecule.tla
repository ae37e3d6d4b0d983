------------------------------- MODULE Molecule -------------------------------
(***************************************************************************)
(* The code that the molecule compiler generated for every message of the  *)
(* system (the *_mol.rs files): verify, the accessors of the readers and   *)
(* the write of the builders.  The generated code of two types of the same *)
(* kind differs in nothing but names, counts and the types of its items,   *)
(* so a type is here a piece of data and the code is one operator per      *)
(* function, with one case per kind.  The types are in module Messages.    *)
(*                                                                         *)
(* A slice is a sequence of bytes.  The accessors do not check anything:   *)
(* they index into the slice with what they read from it, and an index     *)
(* beyond its end is a panic.  Readable says that none of them does that.  *)
(***************************************************************************)
EXTENDS Integers, Sequences, SequencesExt

Byte == 0 .. 255

Array(n) == [kind |-> "array", size |-> n]
FixVec == [kind |-> "fixvec"]                 \* a vector of bytes
Option(t) == [kind |-> "option", item |-> t]
Union(ts) == [kind |-> "union", items |-> ts]
DynVec(t) == [kind |-> "dynvec", item |-> t]
Table(ts) == [kind |-> "table", items |-> ts]

(***************************************************************************)
(* Numbers: 32 bits, little-endian.  A number with a fourth byte is beyond *)
(* the end of every slice, and Huge stands for all of them.                *)
(***************************************************************************)
NUMBER_SIZE == 4
Huge == 16777216

Slice(s, from, to) == SubSeq(s, from + 1, to)
From(s, from) == Slice(s, from, Len(s))

pack_number(n) == <<n % 256, (n \div 256) % 256, (n \div 65536) % 256, 0>>

unpack_number(s) ==
  IF s[4] # 0 THEN Huge ELSE s[1] + 256 * s[2] + 65536 * s[3]

(***************************************************************************)
(* Readers                                                                 *)
(***************************************************************************)
NumberAt(s, i) == unpack_number(From(s, NUMBER_SIZE * i))

\* item_count of a vector, field_count of a table
Count(s) == IF NumberAt(s, 0) = NUMBER_SIZE THEN 0 ELSE NumberAt(s, 1) \div 4 - 1

\* get_unchecked of a vector and the accessors of a table: item i, from 1, ends where
\* the next one starts, and the last one at the end of the slice.
Start(s, i) == NumberAt(s, i)
End(s, i) == IF i = Count(s) THEN Len(s) ELSE NumberAt(s, i + 1)
Item(s, i) == Slice(s, Start(s, i), End(s, i))

\* The header of a vector or a table: total size, offsets that start behind the
\* header and never go back.
OffsetsFrom(s, first) ==
  /\ first % 4 = 0 /\ first >= 2 * NUMBER_SIZE
  /\ Len(s) >= first
  /\ \A i \in 1 .. first \div 4 - 1 : Start(s, i) <= End(s, i)
OffsetsMatch(s) == Len(s) >= 2 * NUMBER_SIZE /\ OffsetsFrom(s, NumberAt(s, 1))

\* Mutant: fewer items than the count says are enough.
CountMatchesLess(s) == Len(s) >= NUMBER_SIZE /\ Len(s) <= NUMBER_SIZE + NumberAt(s, 0)
\* A vector of bytes
CountMatches(s) == Len(s) >= NUMBER_SIZE /\ Len(s) = NUMBER_SIZE + NumberAt(s, 0)

SizeMatches(s) == Len(s) >= NUMBER_SIZE /\ NumberAt(s, 0) = Len(s)

RECURSIVE verify(_, _, _)
verify(t, s, compatible) ==
  CASE t.kind = "array"  -> Len(s) = t.size
    [] t.kind = "fixvec" -> CountMatches(s)
    [] t.kind = "option" -> s # <<>> => verify(t.item, s, compatible)
    [] t.kind = "union"  -> /\ Len(s) >= NUMBER_SIZE
                            /\ NumberAt(s, 0) < Len(t.items)
                            /\ verify(t.items[NumberAt(s, 0) + 1], From(s, NUMBER_SIZE),
                                      compatible)
    [] t.kind = "dynvec" -> /\ SizeMatches(s)
                            /\ \/ Len(s) = NUMBER_SIZE
                               \/ /\ OffsetsMatch(s)
                                  /\ \A i \in 1 .. Count(s) :
                                       verify(t.item, Item(s, i), compatible)
    [] t.kind = "table"  -> /\ SizeMatches(s)
                            /\ OffsetsMatch(s)
                            /\ Count(s) >= Len(t.items)
                            /\ compatible \/ Count(s) = Len(t.items)
                            /\ \A i \in 1 .. Len(t.items) :
                                 verify(t.items[i], Item(s, i), compatible)

\* What a reader that new_unchecked made of the slice can be asked without a panic.
RECURSIVE Readable(_, _)
Readable(t, s) ==
  LET ItemReadable(i, u) ==
        /\ NUMBER_SIZE * (i + 1) <= Len(s)
        /\ i # Count(s) => NUMBER_SIZE * (i + 2) <= Len(s)
        /\ Start(s, i) <= End(s, i) /\ End(s, i) <= Len(s)
        /\ Readable(u, Item(s, i))
      Empty == Len(s) >= NUMBER_SIZE /\ NumberAt(s, 0) = NUMBER_SIZE
      Header == Len(s) >= 2 * NUMBER_SIZE /\ NumberAt(s, 1) >= 4
  IN CASE t.kind = "array"  -> Len(s) >= t.size
       [] t.kind = "fixvec" -> Len(s) >= NUMBER_SIZE /\ NumberAt(s, 0) <= Len(s) - NUMBER_SIZE
       [] t.kind = "option" -> s # <<>> => Readable(t.item, s)
       [] t.kind = "union"  -> /\ Len(s) >= NUMBER_SIZE /\ NumberAt(s, 0) < Len(t.items)
                               /\ Readable(t.items[NumberAt(s, 0) + 1], From(s, NUMBER_SIZE))
       [] t.kind = "dynvec" -> \/ Empty
                               \/ Header /\ \A i \in 1 .. Count(s) : ItemReadable(i, t.item)
       [] t.kind = "table"  -> /\ Header
                               /\ \A i \in 1 .. Len(t.items) : ItemReadable(i, t.items[i])

\* What the accessors answer: bytes, a sequence of items or fields, an option as a
\* sequence of at most one value, a union as its id and its value.
RECURSIVE Value(_, _)
Value(t, s) ==
  CASE t.kind = "array"  -> s
    [] t.kind = "fixvec" -> From(s, NUMBER_SIZE)
    [] t.kind = "option" -> IF s = <<>> THEN <<>> ELSE <<Value(t.item, s)>>
    [] t.kind = "union"  -> [id |-> NumberAt(s, 0),
                             value |-> Value(t.items[NumberAt(s, 0) + 1], From(s, NUMBER_SIZE))]
    [] t.kind = "dynvec" -> [i \in 1 .. Count(s) |-> Value(t.item, Item(s, i))]
    [] t.kind = "table"  -> [i \in 1 .. Len(t.items) |-> Value(t.items[i], Item(s, i))]

(***************************************************************************)
(* Builders                                                                *)
(***************************************************************************)
Total(parts) == FoldLeft(LAMBDA sum, p : sum + Len(p), 0, parts)

\* Total size, offsets, items.
WithOffsets(parts) ==
  LET header == NUMBER_SIZE * (Len(parts) + 1)
      offsets == [i \in 1 .. Len(parts) |->
                    pack_number(header + Total(SubSeq(parts, 1, i - 1)))]
  IN pack_number(header + Total(parts)) \o FlattenSeq(offsets) \o FlattenSeq(parts)

RECURSIVE write(_, _)
write(t, v) ==
  CASE t.kind = "array"  -> v
    [] t.kind = "fixvec" -> pack_number(Len(v)) \o v
    [] t.kind = "option" -> IF v = <<>> THEN <<>> ELSE write(t.item, v[1])
    [] t.kind = "union"  -> pack_number(v.id) \o write(t.items[v.id + 1], v.value)
    [] t.kind = "dynvec" -> WithOffsets([i \in 1 .. Len(v) |-> write(t.item, v[i])])
    [] t.kind = "table"  -> WithOffsets([i \in 1 .. Len(v) |-> write(t.items[i], v[i])])

=============================================================================
