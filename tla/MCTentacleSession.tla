--------------------------- MODULE MCTentacleSession ---------------------------
\* Instances of TentacleSession for TLC.
EXTENDS TentacleSession

=============================================================================
