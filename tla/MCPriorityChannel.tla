--------------------------- MODULE MCPriorityChannel ---------------------------
\* Instances of PriorityChannel for TLC.
EXTENDS PriorityChannel

TwoSenders == {"s1", "s2"}
Uses1 == [s1 |-> {"normal"}, s2 |-> {"high"}]
Max1 == [s1 |-> 2, s2 |-> 1]
Closers == {"s2", "receiver"}

=============================================================================
