------------------------------ MODULE MCPkDataPath ------------------------------
(* What data goes through: the streams of a tunnel, the window of one of them,   *)
(* and the watchers of their descriptors.  Each takes what the others decide as   *)
(* an input: a behaviour of this run is one of one of them, the rest standing      *)
(* still.                                                                          *)
(*                                                                                 *)
(* Two slots, and one stream id more so that the slots run out.  The slots are     *)
(* interchangeable: nothing depends on the order of the search for one.            *)
EXTENDS PkStreams, PkFlow, PkLoop, TLC

MCReads == {1, Buffer}

VARIABLE part

MCInit ==
    /\ Init /\ FlowInit /\ WatchInit
    /\ \/ part = "descriptors"
       \/ part \in {"streams", "window"} /\ backend = "epoll"

MCNext ==
    /\ UNCHANGED part
    /\ \/ part = "streams" /\ Next /\ UNCHANGED <<flowVars, watchVars>>
       \/ part = "window" /\ FlowNext /\ UNCHANGED <<vars, watchVars>>
       \/ part = "descriptors" /\ WatchNext /\ UNCHANGED <<vars, flowVars>>

MCSpec == MCInit /\ [][MCNext]_<<vars, flowVars, watchVars, part>>

MCSymmetry == Permutations(Slots)
=============================================================================
