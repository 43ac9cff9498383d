----------------------------- MODULE MCPkHandshake ------------------------------
(* The two ends of a tunnel's beginning: the connector's, and a relay's.  Each    *)
(* faces whatever the other may send, not the other's model: a behaviour of this  *)
(* run is one of either, the other standing still.                                *)
EXTENDS PkHandshake, PkRelay

VARIABLE part

mcVars == <<vars, relayVars, part>>

ConnectorSide(A) == part = "connector" /\ A /\ UNCHANGED <<relayVars, part>>
RelaySide(A) == part = "relay" /\ A /\ UNCHANGED <<vars, part>>

MCInit ==
    /\ Init /\ RelayInit
    /\ \/ part = "connector" /\ kind = [v \in Visitors |-> "other"]
       \/ part = "relay"

MCNext == ConnectorSide(Next) \/ RelaySide(RelayNext)

\* Fairness and RelayFairness, of the side there is.
MCFairness ==
    /\ WF_mcVars(ConnectorSide(Connector))
    /\ \A v \in Visitors :
         /\ WF_mcVars(RelaySide(Accept(v))) /\ WF_mcVars(RelaySide(Readable(v)))
         /\ WF_mcVars(RelaySide(RelayIncoming(v))) /\ WF_mcVars(RelaySide(LookAgain(v)))
         /\ WF_mcVars(RelaySide(Answered(v))) /\ WF_mcVars(RelaySide(GrowsOld(v)))

MCSpec == MCInit /\ [][MCNext]_mcVars /\ MCFairness
=============================================================================
