---------------------------- MODULE OrderedStreams ----------------------------
(***************************************************************************)
(* What a multiplexed connection promises to the applications that use its *)
(* streams: in every direction of every stream, what comes out is what was *)
(* put in, in the same order and from the first item on.  A stream may end *)
(* at any moment: then nothing more comes out.                             *)
(***************************************************************************)
EXTENDS Naturals, Sequences

CONSTANT Directions

VARIABLES in, out

Init ==
  /\ in = [d \in Directions |-> <<>>]
  /\ out = [d \in Directions |-> <<>>]

\* The items put in a direction are told apart by their number.
Put(d) ==
  /\ in' = [in EXCEPT ![d] = Append(@, Len(@) + 1)]
  /\ UNCHANGED out

Get(d) ==
  /\ Len(out[d]) < Len(in[d])
  /\ out' = [out EXCEPT ![d] = Append(@, in[d][Len(@) + 1])]
  /\ UNCHANGED in

Next == \E d \in Directions : Put(d) \/ Get(d)

Spec == Init /\ [][Next]_<<in, out>>

=============================================================================
