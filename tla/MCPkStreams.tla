------------------------------ MODULE MCPkStreams -----------------------------
(* Two slots, and one stream id more so that the slots run out.  The slots    *)
(* are interchangeable: nothing depends on the order of the search for one.   *)
EXTENDS PkStreams, TLC

Symmetry == Permutations(Slots)
=============================================================================
