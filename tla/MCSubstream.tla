------------------------------ MODULE MCSubstream ------------------------------
(* One protocol stream, in each of its three set-ups, with any two disturbances. *)
EXTENDS Substream

MCInbound == <<"a", "b", "c">>
Setup(spawn, keep, handles, prios, out, in) ==
  [spawn |-> spawn, keep |-> keep, handles |-> handles, prios |-> prios,
   out |-> out, in |-> in]
\* No handle and much to write, at one and at two priorities; a spawned protocol; each
\* kind of handle with more to read than it takes; a handle and little to write.
MCSetups ==
  {Setup(FALSE, TRUE, {}, {"normal"}, 4, 0), Setup(FALSE, TRUE, {}, Prio, 3, 0),
   Setup(TRUE, TRUE, {}, {"normal"}, 1, 1), Setup(FALSE, FALSE, {"service"}, {"normal"}, 1, 0),
   Setup(FALSE, TRUE, {"service"}, {}, 0, 3), Setup(FALSE, TRUE, {"session"}, {}, 0, 1)}
=============================================================================
