------------------------------ MODULE MCPkTunnels ------------------------------
EXTENDS PkTunnels, TLC

\* The first relay of the table answers pings faster than the second one.
MCPing == [r \in Relays |-> 10 * r]

\* Every relay has one address only.
MCUuid == [r \in Relays |-> r]

\* The blockers are alike; used where only safety is checked.
Symmetry == Permutations(Blockers)
=============================================================================
