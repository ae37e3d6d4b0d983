---------------------------- MODULE MCYamuxSession ----------------------------
\* Instances of YamuxSession for TLC.
EXTENDS YamuxSession

\* One stream of the client, with two frames of data.
Quiet ==
  [openers |-> {"client"}, last |-> 1, senders |-> {"client"}, data |-> 2,
   droppers |-> {}, stuck |-> {}, leavers |-> {}, hang |-> {}]

\* Both ends open streams and one of them sends two frames on each, or one frame while the
\* accepting end drops its handles.
Order == [Quiet EXCEPT !.openers = Ends, !.last = 2]
Drops == [Order EXCEPT !.data = 1, !.droppers = {"server"}]
\* A stream whose accepting end drops its handle among two frames.
Cut == [Quiet EXCEPT !.droppers = {"server"}]
\* Two streams of the client, of which one is not read.
Flow == [Quiet EXCEPT !.last = 3, !.data = 1, !.stuck = {1}]
\* Either end says it goes away, and the server's task may hang.
Leave == [Quiet EXCEPT !.data = 1, !.leavers = Ends, !.hang = {"server"}]

OrderSetups == {Order, Drops, Cut, Leave}
LiveSetups == {Quiet, Flow, Leave}

=============================================================================
