---------------------------- MODULE MCYamuxStream ----------------------------
(***************************************************************************)
(* Instances of YamuxStream for TLC, and the accounting property that sums *)
(* over the frames under way.                                              *)
(***************************************************************************)
EXTENDS YamuxStream, SequencesExt

\* The smallest window, which an update refills as soon as a byte is read, and one
\* with which updates are omitted until half of it is read.
SmallWindows == [e \in Ends |-> IF e = "client" THEN 2 ELSE 4]
BothEnds == Ends
Client == {"client"}
Server == {"server"}
Nobody == {}

Total(frames, ty) ==
  FoldLeft(LAMBDA sum, f : sum + (IF f.ty = ty THEN f.len ELSE 0), 0, frames)

\* No byte of window is created or lost: what an end may still send, what it sent
\* and the peer has not taken, and the credit on its way back to it add up to the
\* window the peer accounts for.  While a stream is intact the two sides agree
\* exactly (a loss would choke the writer for ever); after a reset, a drop or a
\* shutdown the sender can only have less than the receiver allows.
WindowConservation ==
  \A e \in Ends :
    LET p == Peer(e)
        sum == send_window[e] + Total(path[p], "data") + Total(path[e], "update")
        intact == \A q \in Ends : up[q] /\ reg[q] # "out" /\ (alive[q] \/ reg[q] = "new")
    IN /\ sum <= recv_window[p]
       /\ intact => sum = recv_window[p]

=============================================================================
