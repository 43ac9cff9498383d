---------------------------- MODULE PkTunnels_proofs ----------------------------
(***************************************************************************)
(* For any number of blockers and relays: a relay that is changing is      *)
(* being connected to by exactly one blocker, so that neither another pass *)
(* nor the cleanup of a dead tunnel resets it mid-change; no pass takes    *)
(* the last live tunnel down; and the count of live tunnels is right, or   *)
(* one too small.                                                          *)
(***************************************************************************)
EXTENDS PkTunnels, FiniteSetTheorems, TLAPS

\* An unsigned counter of m values, kept as it is, one up and one down.
LEMMA Stays == ASSUME NEW m \in Nat \ {0}, NEW n \in 0..m-1 PROVE n % m = n
  OBVIOUS

LEMMA Turns == ASSUME NEW m \in Nat \ {0}, NEW n \in 0..m-1 PROVE (n + m) % m = n
<1> DEFINE d == (n + m) \div m
<1>1. n + m = m * d + ((n + m) % m) /\ d \in Int /\ (n + m) % m \in 0..m-1
  OBVIOUS
<1>2. d <= 0 => m * d <= 0
  BY <1>1
<1>3. d >= 2 => m * d >= 2 * m
  BY <1>1
<1>4. d = 1
  BY <1>1, <1>2, <1>3
<1> QED
  BY <1>1, <1>4

LEMMA OneUp ==
    ASSUME NEW m \in Nat \ {0}, NEW n \in 0..m-1
    PROVE  (n + 1) % m = IF n = m - 1 THEN 0 ELSE n + 1
<1>1. CASE n = m - 1
  <2>1. n + 1 = 0 + m /\ 0 \in 0..m-1
    BY <1>1
  <2>2. (0 + m) % m = 0
    BY <2>1, Turns
  <2> QED
    BY <1>1, <2>1, <2>2
<1>2. CASE n # m - 1
  <2>1. n + 1 \in 0..m-1
    BY <1>2
  <2> QED
    BY <1>2, <2>1, Stays
<1> QED
  BY <1>1, <1>2

LEMMA OneDown ==
    ASSUME NEW m \in Nat \ {0}, NEW n \in 0..m-1
    PROVE  (n + m - 1) % m = IF n = 0 THEN m - 1 ELSE n - 1
<1>1. CASE n = 0
  <2>1. n + m - 1 = m - 1 /\ m - 1 \in 0..m-1
    BY <1>1
  <2> QED
    BY <1>1, <2>1, Stays
<1>2. CASE n # 0
  <2>1. n - 1 \in 0..m-1 /\ n + m - 1 = (n - 1) + m
    BY <1>2
  <2>2. ((n - 1) + m) % m = n - 1
    BY <2>1, Turns
  <2> QED
    BY <1>2, <2>1, <2>2
<1> QED
  BY <1>1, <1>2

USE TunnelBounds, RelaysAreKnown, OwnersAreDistinct
    DEF TunnelBounds, RelaysAreKnown, OwnersAreDistinct, Relays

\* Where a blocker holds config_lock.
Holding == Pcs \ (Connecting \cup {"idle"})

\* config_lock belongs to the blocker whose pass is at work.
ConfigMatchesPc == \A b \in Blockers : pc[b] \in Holding => config = b

\* A blocker that connects does so to a relay of the table.
AtIsRelay == \A b \in Blockers : pc[b] \in Connecting => at[b] \in Relays

\* The tunnel the loop is closing is not being connected to.  If a pass has
\* closed it as well, no pass will want it before the loop has finished: those
\* under way have made their choice.
ClosedIsForgotten ==
    closing # 0 =>
        /\ closing \notin changing
        /\ closing \notin open =>
              /\ closing \notin wanted \cup in_dns
              /\ \A b \in Blockers :
                    pc[b] \notin {"world", "tunnels", "found", "choose"}

IInv == ChangingIsConnecting /\ ConfigMatchesPc /\ AtIsRelay /\ ClosedIsForgotten

\* An unsigned counter stays in its range.
LEMMA ModulusRange ==
    ASSUME NEW n \in Nat PROVE n % Modulus \in 0..Modulus - 1
  OBVIOUS

\* There are no more live tunnels than relays, and a count of some of them
\* fits the counter.
LEMMA LiveIsFinite ==
    ASSUME TypeOK, NEW closed \in SUBSET Live
    PROVE  /\ Cardinality(closed) \in Nat /\ Cardinality(Live) \in Nat
           /\ Cardinality(closed) <= Cardinality(Live)
           /\ Cardinality(Live) <= NumRelays
           /\ Cardinality(closed) = Cardinality(Live) => closed = Live
<1>1. IsFiniteSet(Relays) /\ Cardinality(Relays) = NumRelays
  BY FS_Interval
<1>2. Live \subseteq Relays
  BY DEF TypeOK, Live
<1>3. IsFiniteSet(Live) /\ Cardinality(Live) <= NumRelays
  <2>1. Live \in SUBSET Relays
    BY <1>2
  <2> QED
    BY ONLY <2>1, <1>1, FS_Subset
<1>4. closed \subseteq Live /\ IsFiniteSet(closed)
  BY <1>3, FS_Subset
<1> QED
  BY <1>3, <1>4, FS_Subset, FS_CardinalityType

\* One more failure keeps error counts in their range.
LEMMA CountType ==
    ASSUME TypeOK, NEW failed PROVE Count(failed) \in [Relays -> 0..MaxErrors]
<1>1. errors \in [Relays -> 0..MaxErrors]
  BY DEF TypeOK
<1> QED
  BY <1>1 DEF Count

\* Looking up the kites leaves a set of relays.
LEMMA KitesDnsType ==
    ASSUME TypeOK, NEW problem, KitesDns(problem) PROVE in_dns' \subseteq Relays
<1>1. in_dns \subseteq Relays
  BY DEF TypeOK
<1>2. CASE \E found \in SUBSET Relays, recent \in SUBSET in_dns :
              IF problem /\ in_dns # {}
              THEN \E last \in in_dns : in_dns' = {last}
              ELSE in_dns' = found \cup recent
  <2>1. PICK found \in SUBSET Relays, recent \in SUBSET in_dns :
              IF problem /\ in_dns # {}
              THEN \E last \in in_dns : in_dns' = {last}
              ELSE in_dns' = found \cup recent
    BY <1>2
  <2>2. CASE problem /\ in_dns # {}
    BY <1>1, <2>1, <2>2
  <2>3. CASE ~(problem /\ in_dns # {})
    BY <1>1, <2>1, <2>3
  <2> QED
    BY <2>2, <2>3
<1>3. CASE in_dns' = in_dns
  BY <1>1, <1>3
<1> QED
  BY <1>2, <1>3 DEF KitesDns

\* A check of the world leaves well-typed knowledge of the relays.
LEMMA CheckWorldTypes ==
    ASSUME TypeOK, CheckWorld
    PROVE  /\ wanted' \subseteq Relays /\ in_dns' \subseteq Relays
           /\ bad' \subseteq Relays /\ answered' \subseteq Relays
           /\ pinging' \subseteq Relays
           /\ errors' \in [Relays -> 0..MaxErrors]
<1>1. CASE UNCHANGED relayVars
  BY <1>1 DEF TypeOK, relayVars
<1>2. CASE status # "NO_NETWORK"
  <2>1. bad' \subseteq Relays /\ wanted' = wanted
    BY <1>2 DEF CheckWorld
  <2>2. in_dns' \subseteq Relays
    BY <1>2, KitesDnsType DEF CheckWorld
  <2>3. PICK failed \in SUBSET (Relays \ (Steady \cap Answering)) :
            /\ errors' = Count(failed)
            /\ \E now \in SUBSET (Answering \ failed) :
                  answered' = now /\ pinging' = Relays \ (now \cup failed)
    BY <1>2 DEF CheckWorld
  <2> QED
    BY <2>1, <2>2, <2>3, CountType DEF TypeOK
<1> QED
  BY <1>1, <1>2 DEF CheckWorld

\* Every step keeps the types of the variables.
LEMMA TypeStep == ASSUME TypeOK, IInv, [Next]_vars PROVE TypeOK'
<1>1. ASSUME TypeOK, IInv, NEW b \in Blockers, NEW kind \in {"world", "tunnels"},
            StartCheck(b, kind)
     PROVE TypeOK'
  BY <1>1 DEF TypeOK, Pcs, Connecting, Outcomes, Statuses, relayVars,
     passVars, StartCheck, Goto
<1>2. ASSUME TypeOK, IInv, NEW b \in Blockers, World(b) PROVE TypeOK'
  BY <1>2, CheckWorldTypes DEF TypeOK, Pcs, Connecting, Outcomes, Statuses,
     relayVars, passVars, Goto, World
<1>3. ASSUME TypeOK, IInv, NEW b \in Blockers, DnsIsDown(b) PROVE TypeOK'
  BY <1>3 DEF TypeOK, Pcs, Connecting, Outcomes, Statuses, relayVars,
     passVars, Goto, DnsIsDown, Status
<1>4. ASSUME TypeOK, IInv, NEW b \in Blockers, LookUp(b) PROVE TypeOK'
  <2>1. in_dns' \subseteq Relays
    BY <1>4, KitesDnsType DEF LookUp
  <2>2. problems' \in [Blockers -> BOOLEAN]
    BY <1>4 DEF LookUp, TypeOK
  <2> QED
    BY <1>4, <2>1, <2>2 DEF TypeOK, Pcs, Connecting, Outcomes, Statuses,
       relayVars, passVars, Goto, LookUp
<1>5. ASSUME TypeOK, IInv, NEW b \in Blockers, NewAddress(b) PROVE TypeOK'
  <2>1. CASE UNCHANGED <<relayVars, status>>
    BY <1>5, <2>1 DEF TypeOK, Pcs, Connecting, Outcomes, Statuses,
       relayVars, passVars, Goto, NewAddress
  <2>2. CASE CheckWorld /\ Status(FALSE, problems[b])
    BY <1>5, <2>2, CheckWorldTypes DEF TypeOK, Pcs, Connecting, Outcomes,
       Statuses, relayVars, passVars, Goto, NewAddress, Status
  <2> QED
    BY <1>5, <2>1, <2>2 DEF NewAddress
<1>6. ASSUME TypeOK, IInv, NEW b \in Blockers, Choose(b) PROVE TypeOK'
  <2>1. wanted' \subseteq Relays
    BY <1>6 DEF Choose, Fast, Candidates, Fallback, TypeOK
  <2>2. at' \in [Blockers -> 0..NumRelays]
    BY <1>6 DEF Choose, TypeOK
  <2> QED
    BY <1>6, <2>1, <2>2 DEF TypeOK, Pcs, Connecting, Outcomes, Statuses,
       relayVars, passVars, Goto, Choose
<1>7. ASSUME TypeOK, IInv, NEW b \in Blockers, Reconnect(b) PROVE TypeOK'
  <2>1. at' \in [Blockers -> 0..NumRelays] /\ changing' \subseteq Relays
    BY <1>7 DEF Reconnect, TypeOK
  <2>2. pc' \in [Blockers -> Pcs]
    BY <1>7 DEF Reconnect, Goto, TypeOK, Pcs, Connecting
  <2> QED
    BY <1>7, <2>1, <2>2 DEF TypeOK, Statuses, relayVars, Reconnect
<1>8. ASSUME TypeOK, IInv, NEW b \in Blockers, Reconnected(b) PROVE TypeOK'
  BY <1>8 DEF TypeOK, Pcs, Connecting, Outcomes, Statuses, relayVars,
     passVars, Goto, Reconnected
<1>9. ASSUME TypeOK, IInv, NEW b \in Blockers, Dial(b) PROVE TypeOK'
  <2>0. at[b] \in Relays
    BY <1>9 DEF Dial, IInv, AtIsRelay, Connecting
  <2>1. open' \subseteq Relays
    BY <1>9, <2>0 DEF Dial, TypeOK
  <2>2. pc' \in [Blockers -> Pcs] /\ outcome' \in [Blockers -> Outcomes]
    BY <1>9 DEF Dial, TypeOK, Pcs, Connecting, Outcomes
  <2> QED
    BY <1>9, <2>1, <2>2 DEF TypeOK, relayVars, Dial
<1>10. ASSUME TypeOK, IInv, NEW b \in Blockers, Talk(b) PROVE TypeOK'
  BY <1>10 DEF TypeOK, Pcs, Connecting, Outcomes, Statuses, relayVars,
     passVars, Goto, Talk, Talked, Hangup
<1>11. ASSUME TypeOK, IInv, NEW b \in Blockers, Connected(b) PROVE TypeOK'
  <2>1. live' \in 0..Modulus - 1
    <3>1. live + 1 \in Nat /\ live' = (live + 1) % Modulus
      BY <1>11 DEF Connected, TypeOK
    <3> QED
      BY ModulusRange, <3>1
  <2>2. errors' \in [Relays -> 0..MaxErrors]
    <3>1. errors \in [Relays -> 0..MaxErrors] /\ errors' = [errors EXCEPT ![at[b]] = 0]
      BY <1>11 DEF Connected, TypeOK
    <3>2. 0 \in 0..MaxErrors
      OBVIOUS
    <3> QED
      BY ONLY <3>1, <3>2
  <2> QED
    BY <1>11, <2>1, <2>2 DEF TypeOK, Pcs, Connecting, Outcomes, Statuses,
       relayVars, passVars, Goto, Connected
<1>12. ASSUME TypeOK, IInv, NEW b \in Blockers, NotConnected(b) PROVE TypeOK'
  <2>1. errors' \in [Relays -> 0..MaxErrors]
    BY <1>12, CountType DEF NotConnected
  <2>2. bad' \subseteq Relays /\ open' \subseteq Relays /\ changing' \subseteq Relays
    BY <1>12 DEF NotConnected, Hangup, TypeOK, IInv, AtIsRelay, Connecting, Goto
  <2>3. problems' \in [Blockers -> BOOLEAN] /\ outcome' \in [Blockers -> Outcomes]
    BY <1>12 DEF NotConnected, TypeOK, Outcomes
  <2>4. pc' \in [Blockers -> Pcs] /\ status' \in Statuses /\ config' \in Blockers
    BY <1>12 DEF NotConnected, TypeOK, Goto, Pcs, Statuses
  <2> QED
    BY <1>12, <2>1, <2>2, <2>3, <2>4 DEF TypeOK, NotConnected
<1>13. ASSUME TypeOK, IInv, NEW b \in Blockers, DisconnectUnused(b) PROVE TypeOK'
  <2>1. PICK idle \in SUBSET Unused :
           LET closed == IF Cardinality(idle) >= Cardinality(Live) THEN {} ELSE idle
           IN  open' = open \ closed /\ live' = Cardinality(Live) - Cardinality(closed)
    BY <1>13 DEF DisconnectUnused
  <2> DEFINE closed == IF Cardinality(idle) >= Cardinality(Live) THEN {} ELSE idle
  <2>2. closed \in SUBSET Live
    BY DEF Unused
  <2>3. live' \in 0..Modulus - 1
    BY <1>13, <2>1, <2>2, LiveIsFinite
  <2> QED
    BY <1>13, <2>1, <2>3 DEF TypeOK, Pcs, Connecting, Outcomes, Statuses,
       relayVars, passVars, Goto, DisconnectUnused
<1>14. ASSUME TypeOK, IInv, NEW b \in Blockers, UpdateDns(b) PROVE TypeOK'
  BY <1>14 DEF TypeOK, Pcs, Connecting, Outcomes, Statuses, relayVars,
     passVars, Goto, UpdateDns
<1>15. ASSUME TypeOK, IInv, NEW b \in Blockers, UpdateState(b) PROVE TypeOK'
  BY <1>15 DEF TypeOK, Pcs, Connecting, Outcomes, Statuses, relayVars,
     passVars, Goto, UpdateState, Status
<1>16. ASSUME TypeOK, IInv, NEW r \in Relays, LatePing(r) PROVE TypeOK'
  <2>1. errors' \in [Relays -> 0..MaxErrors]
    <3>1. errors' = errors \/ errors' = Count({r})
      BY <1>16 DEF LatePing
    <3>2. errors \in [Relays -> 0..MaxErrors]
      BY DEF TypeOK
    <3>3. Count({r}) \in [Relays -> 0..MaxErrors]
      BY CountType
    <3> QED
      BY ONLY <3>1, <3>2, <3>3
  <2> QED
    BY <1>16, <2>1 DEF TypeOK, Pcs, Connecting, Outcomes, Statuses,
       relayVars, passVars, LatePing
<1>17. ASSUME TypeOK, IInv, NEW r \in Relays, TunnelDies(r) PROVE TypeOK'
  BY <1>17 DEF TypeOK, Pcs, Connecting, Outcomes, Statuses, relayVars,
     passVars, Goto, TunnelDies, Live
<1>18. ASSUME TypeOK, IInv, TunnelClosed PROVE TypeOK'
  <2>1. live + Modulus - 1 \in Nat
    BY <1>18 DEF TypeOK
  <2>2. live' \in 0..Modulus - 1
    BY <1>18, <2>1, ModulusRange DEF TunnelClosed
  <2>3. open' \subseteq Relays /\ changing' \subseteq Relays
    BY <1>18 DEF TunnelClosed, TypeOK
  <2>4. config' \in Blockers \cup {Loop, NoThread} /\ status' \in Statuses /\ closing' = 0
    BY <1>18 DEF TunnelClosed, TypeOK, Statuses
  <2> QED
    BY <1>18, <2>2, <2>3, <2>4 DEF TypeOK, relayVars, passVars, TunnelClosed
<1>19. ASSUME TypeOK, IInv, Resolvers PROVE TypeOK'
  BY <1>19 DEF TypeOK, Pcs, Connecting, Outcomes, Statuses, relayVars,
     passVars, Goto, Resolvers
<1>20. ASSUME TypeOK, IInv, UNCHANGED vars PROVE TypeOK'
  BY <1>20 DEF TypeOK, Pcs, Connecting, Outcomes, Statuses, relayVars,
     passVars, vars, relayVars, passVars
<1> QED
  BY <1>1, <1>2, <1>3, <1>4, <1>5, <1>6, <1>7, <1>8, <1>9, <1>10, <1>11,
     <1>12, <1>13, <1>14, <1>15, <1>16, <1>17, <1>18, <1>19, <1>20 DEF Next,
     Proceed, Relock
\* A step that starts or ends no connect leaves the relays that change alone.
LEMMA ConnectsKept ==
    ASSUME ChangingIsConnecting, changing' = changing,
           \A c \in Blockers : pc'[c] \in Connecting <=> pc[c] \in Connecting,
           \A c \in Blockers : pc[c] \in Connecting => at'[c] = at[c]
    PROVE  ChangingIsConnecting'
<1>1. {at'[c] : c \in {d \in Blockers : pc'[d] \in Connecting}}
        = {at[c] : c \in {d \in Blockers : pc[d] \in Connecting}}
  OBVIOUS
<1> QED
  BY <1>1 DEF ChangingIsConnecting, Connecting

\* The end of a connect takes its relay, which no other blocker is connecting
\* to, off the relays that change.
LEMMA ConnectEnds ==
    ASSUME ChangingIsConnecting, NEW b \in Blockers,
           pc[b] \in Connecting, pc'[b] \notin Connecting,
           \A c \in Blockers \ {b} : pc'[c] = pc[c],
           changing' = changing \ {at[b]}, at' = at
    PROVE  ChangingIsConnecting'
<1> DEFINE Busy == {c \in Blockers : pc[c] \in Connecting}
<1>1. {c \in Blockers : pc'[c] \in Connecting} = Busy \ {b}
  OBVIOUS
<1>2. changing = {at[c] : c \in Busy}
  BY DEF ChangingIsConnecting
<1>3. \A c \in Busy \ {b} : at[c] # at[b]
  BY DEF ChangingIsConnecting
<1>4. changing' = {at[c] : c \in Busy \ {b}}
  BY ONLY <1>2, <1>3, changing' = changing \ {at[b]}, pc[b] \in Connecting, b
     \in Blockers
<1>5. \A c, d \in Blockers :
         c # d /\ pc'[c] \in Connecting /\ pc'[d] \in Connecting => at'[c] # at'[d]
  BY DEF ChangingIsConnecting
<1> QED
  BY <1>1, <1>4, <1>5 DEF ChangingIsConnecting, Connecting

\* The inductive invariant is kept by every step.
LEMMA IInvStep == ASSUME TypeOK, IInv, [Next]_vars PROVE IInv'
<1>1. ASSUME TypeOK, IInv, NEW b \in Blockers, NEW kind \in {"world", "tunnels"},
            StartCheck(b, kind)
     PROVE IInv'
  BY <1>1 DEF IInv, ChangingIsConnecting, ConfigMatchesPc, AtIsRelay,
     ClosedIsForgotten, Connecting, relayVars, passVars, TypeOK, Holding, Pcs,
     StartCheck, Goto
<1>2. ASSUME TypeOK, IInv, NEW b \in Blockers, World(b) PROVE IInv'
  <2>0. /\ changing' = changing
        /\ \A c \in Blockers : pc'[c] \in Connecting <=> pc[c] \in Connecting
        /\ \A c \in Blockers : pc[c] \in Connecting => at'[c] = at[c]
    BY <1>2 DEF TypeOK, Connecting, passVars, World, Goto, CheckWorld,
       KitesDns, Count
  <2>1. ChangingIsConnecting'
    BY <2>0, ConnectsKept DEF IInv
  <2>2. ConfigMatchesPc'
    BY <1>2 DEF IInv, ConfigMatchesPc, Holding, Pcs, Connecting, TypeOK,
       World, Goto, CheckWorld, KitesDns, Count
  <2>3. AtIsRelay'
    BY <2>0 DEF IInv, AtIsRelay
  <2>4. ClosedIsForgotten'
    BY <1>2 DEF IInv, ClosedIsForgotten, ChangingIsConnecting,
       ConfigMatchesPc, Holding, Pcs, Connecting, TypeOK, relayVars, World,
       Goto, CheckWorld, KitesDns, Count
  <2> QED
    BY <2>1, <2>2, <2>3, <2>4 DEF IInv
<1>3. ASSUME TypeOK, IInv, NEW b \in Blockers, DnsIsDown(b) PROVE IInv'
  <2>0. /\ changing' = changing
        /\ \A c \in Blockers : pc'[c] \in Connecting <=> pc[c] \in Connecting
        /\ \A c \in Blockers : pc[c] \in Connecting => at'[c] = at[c]
    BY <1>3 DEF TypeOK, Connecting, passVars, DnsIsDown, Goto
  <2>1. ChangingIsConnecting'
    BY <2>0, ConnectsKept DEF IInv
  <2>2. ConfigMatchesPc'
    BY <1>3 DEF IInv, ConfigMatchesPc, Holding, Pcs, Connecting, TypeOK,
       DnsIsDown, Goto
  <2>3. AtIsRelay'
    BY <2>0 DEF IInv, AtIsRelay
  <2>4. ClosedIsForgotten'
    BY <1>3 DEF IInv, ClosedIsForgotten, ChangingIsConnecting,
       ConfigMatchesPc, Holding, Pcs, Connecting, TypeOK, relayVars,
       DnsIsDown, Goto
  <2> QED
    BY <2>1, <2>2, <2>3, <2>4 DEF IInv
<1>4. ASSUME TypeOK, IInv, NEW b \in Blockers, LookUp(b) PROVE IInv'
  <2>0. /\ changing' = changing
        /\ \A c \in Blockers : pc'[c] \in Connecting <=> pc[c] \in Connecting
        /\ \A c \in Blockers : pc[c] \in Connecting => at'[c] = at[c]
    BY <1>4 DEF TypeOK, Connecting, passVars, LookUp, Goto, KitesDns
  <2>1. ChangingIsConnecting'
    BY <2>0, ConnectsKept DEF IInv
  <2>2. ConfigMatchesPc'
    BY <1>4 DEF IInv, ConfigMatchesPc, Holding, Pcs, Connecting, TypeOK,
       LookUp, Goto, KitesDns
  <2>3. AtIsRelay'
    BY <2>0 DEF IInv, AtIsRelay
  <2>4. ClosedIsForgotten'
    BY <1>4 DEF IInv, ClosedIsForgotten, ChangingIsConnecting,
       ConfigMatchesPc, Holding, Pcs, Connecting, TypeOK, relayVars, LookUp,
       Goto, KitesDns
  <2> QED
    BY <2>1, <2>2, <2>3, <2>4 DEF IInv
<1>5. ASSUME TypeOK, IInv, NEW b \in Blockers, NewAddress(b) PROVE IInv'
  <2>0. /\ changing' = changing
        /\ \A c \in Blockers : pc'[c] \in Connecting <=> pc[c] \in Connecting
        /\ \A c \in Blockers : pc[c] \in Connecting => at'[c] = at[c]
    BY <1>5 DEF TypeOK, Connecting, passVars, NewAddress, Goto, CheckWorld,
       KitesDns, Count
  <2>1. ChangingIsConnecting'
    BY <2>0, ConnectsKept DEF IInv
  <2>2. ConfigMatchesPc'
    BY <1>5 DEF IInv, ConfigMatchesPc, Holding, Pcs, Connecting, TypeOK,
       NewAddress, Goto, CheckWorld, KitesDns, Count
  <2>3. AtIsRelay'
    BY <2>0 DEF IInv, AtIsRelay
  <2>4. ClosedIsForgotten'
    BY <1>5 DEF IInv, ClosedIsForgotten, ChangingIsConnecting,
       ConfigMatchesPc, Holding, Pcs, Connecting, TypeOK, relayVars,
       NewAddress, Goto, CheckWorld, KitesDns, Count
  <2> QED
    BY <2>1, <2>2, <2>3, <2>4 DEF IInv
<1>6. ASSUME TypeOK, IInv, NEW b \in Blockers, Choose(b) PROVE IInv'
  <2>0. /\ changing' = changing
        /\ \A c \in Blockers : pc'[c] \in Connecting <=> pc[c] \in Connecting
        /\ \A c \in Blockers : pc[c] \in Connecting => at'[c] = at[c]
    BY <1>6 DEF TypeOK, Connecting, passVars, Choose, Goto, Fast,
       Candidates, Fallback
  <2>1. ChangingIsConnecting'
    BY <2>0, ConnectsKept DEF IInv
  <2>2. ConfigMatchesPc'
    BY <1>6 DEF IInv, ConfigMatchesPc, Holding, Pcs, Connecting, TypeOK,
       Choose, Goto, Fast, Candidates, Fallback
  <2>3. AtIsRelay'
    BY <2>0 DEF IInv, AtIsRelay
  <2>4. ClosedIsForgotten'
    BY <1>6 DEF IInv, ClosedIsForgotten, ChangingIsConnecting,
       ConfigMatchesPc, Holding, Pcs, Connecting, TypeOK, relayVars, Choose,
       Goto, Fast, Candidates, Fallback
  <2> QED
    BY <2>1, <2>2, <2>3, <2>4 DEF IInv
<1>7. ASSUME TypeOK, IInv, NEW b \in Blockers, Reconnect(b) PROVE IInv'
  <2>1. ChangingIsConnecting'
    BY <1>7 DEF IInv, ChangingIsConnecting, AtIsRelay, TypeOK, Connecting,
       Reconnect, Goto, Missing
  <2>2. ConfigMatchesPc'
    BY <1>7 DEF IInv, ConfigMatchesPc, Holding, Pcs, Connecting, TypeOK,
       Reconnect, Goto, Missing
  <2>3. AtIsRelay'
    BY <1>7 DEF IInv, AtIsRelay, Connecting, TypeOK, Reconnect, Goto, Missing
  <2>4. ClosedIsForgotten'
    BY <1>7 DEF IInv, ClosedIsForgotten, ChangingIsConnecting,
       ConfigMatchesPc, Holding, Pcs, Connecting, TypeOK, relayVars,
       Reconnect, Goto, Missing
  <2> QED
    BY <2>1, <2>2, <2>3, <2>4 DEF IInv
<1>8. ASSUME TypeOK, IInv, NEW b \in Blockers, Reconnected(b) PROVE IInv'
  <2>0. /\ changing' = changing
        /\ \A c \in Blockers : pc'[c] \in Connecting <=> pc[c] \in Connecting
        /\ \A c \in Blockers : pc[c] \in Connecting => at'[c] = at[c]
    BY <1>8 DEF TypeOK, Connecting, passVars, Reconnected, Goto
  <2>1. ChangingIsConnecting'
    BY <2>0, ConnectsKept DEF IInv
  <2>2. ConfigMatchesPc'
    BY <1>8 DEF IInv, ConfigMatchesPc, Holding, Pcs, Connecting, TypeOK,
       Reconnected, Goto
  <2>3. AtIsRelay'
    BY <2>0 DEF IInv, AtIsRelay
  <2>4. ClosedIsForgotten'
    BY <1>8 DEF IInv, ClosedIsForgotten, ChangingIsConnecting,
       ConfigMatchesPc, Holding, Pcs, Connecting, TypeOK, relayVars,
       Reconnected, Goto
  <2> QED
    BY <2>1, <2>2, <2>3, <2>4 DEF IInv
<1>9. ASSUME TypeOK, IInv, NEW b \in Blockers, Dial(b) PROVE IInv'
  <2>0. /\ changing' = changing
        /\ \A c \in Blockers : pc'[c] \in Connecting <=> pc[c] \in Connecting
        /\ \A c \in Blockers : pc[c] \in Connecting => at'[c] = at[c]
    BY <1>9 DEF TypeOK, Connecting, passVars, Dial, Goto
  <2>1. ChangingIsConnecting'
    BY <2>0, ConnectsKept DEF IInv
  <2>2. ConfigMatchesPc'
    BY <1>9 DEF IInv, ConfigMatchesPc, Holding, Pcs, Connecting, TypeOK, Dial, Goto
  <2>3. AtIsRelay'
    BY <2>0 DEF IInv, AtIsRelay
  <2>4. ClosedIsForgotten'
    BY <1>9 DEF IInv, ClosedIsForgotten, ChangingIsConnecting,
       ConfigMatchesPc, Holding, Pcs, Connecting, TypeOK, relayVars, Dial,
       Goto
  <2> QED
    BY <2>1, <2>2, <2>3, <2>4 DEF IInv
<1>10. ASSUME TypeOK, IInv, NEW b \in Blockers, Talk(b) PROVE IInv'
  <2>0. /\ changing' = changing
        /\ \A c \in Blockers : pc'[c] \in Connecting <=> pc[c] \in Connecting
        /\ \A c \in Blockers : pc[c] \in Connecting => at'[c] = at[c]
    BY <1>10 DEF TypeOK, Connecting, passVars, Talk, Goto, Talked, Hangup
  <2>1. ChangingIsConnecting'
    BY <2>0, ConnectsKept DEF IInv
  <2>2. ConfigMatchesPc'
    BY <1>10 DEF IInv, ConfigMatchesPc, Holding, Pcs, Connecting, TypeOK,
       Talk, Goto, Talked, Hangup
  <2>3. AtIsRelay'
    BY <2>0 DEF IInv, AtIsRelay
  <2>4. ClosedIsForgotten'
    BY <1>10 DEF IInv, ClosedIsForgotten, ChangingIsConnecting,
       ConfigMatchesPc, Holding, Pcs, Connecting, TypeOK, relayVars, Talk,
       Goto, Talked, Hangup
  <2> QED
    BY <2>1, <2>2, <2>3, <2>4 DEF IInv
<1>11. ASSUME TypeOK, IInv, NEW b \in Blockers, Connected(b) PROVE IInv'
  <2>0. /\ pc[b] \in Connecting /\ pc'[b] \notin Connecting
        /\ \A c \in Blockers \ {b} : pc'[c] = pc[c]
        /\ changing' = changing \ {at[b]} /\ at' = at
    BY <1>11 DEF TypeOK, Connecting, Connected, Goto
  <2>1. ChangingIsConnecting'
    BY <2>0, ConnectEnds DEF IInv
  <2>2. ConfigMatchesPc'
    BY <1>11 DEF IInv, ConfigMatchesPc, Holding, Pcs, Connecting, TypeOK,
       Connected, Goto
  <2>3. AtIsRelay'
    <3>1. \A c \in Blockers : pc'[c] \in Connecting => pc[c] \in Connecting
      BY <2>0
    <3> QED
      BY <2>0, <3>1 DEF IInv, AtIsRelay
  <2>4. ClosedIsForgotten'
    BY <1>11 DEF IInv, ClosedIsForgotten, ChangingIsConnecting,
       ConfigMatchesPc, Holding, Pcs, Connecting, TypeOK, relayVars,
       Connected, Goto
  <2> QED
    BY <2>1, <2>2, <2>3, <2>4 DEF IInv
<1>12. ASSUME TypeOK, IInv, NEW b \in Blockers, NotConnected(b) PROVE IInv'
  <2>0. /\ pc[b] \in Connecting /\ pc'[b] \notin Connecting
        /\ \A c \in Blockers \ {b} : pc'[c] = pc[c]
        /\ changing' = changing \ {at[b]} /\ at' = at
    BY <1>12 DEF TypeOK, Connecting, NotConnected, Goto, Hangup, Count
  <2>1. ChangingIsConnecting'
    BY <2>0, ConnectEnds DEF IInv
  <2>2. ConfigMatchesPc'
    BY <1>12 DEF IInv, ConfigMatchesPc, Holding, Pcs, Connecting, TypeOK,
       NotConnected, Goto, Hangup, Count
  <2>3. AtIsRelay'
    <3>1. \A c \in Blockers : pc'[c] \in Connecting => pc[c] \in Connecting
      BY <2>0
    <3> QED
      BY <2>0, <3>1 DEF IInv, AtIsRelay
  <2>4. ClosedIsForgotten'
    BY <1>12 DEF IInv, ClosedIsForgotten, ChangingIsConnecting,
       ConfigMatchesPc, Holding, Pcs, Connecting, TypeOK, relayVars,
       NotConnected, Goto, Hangup, Count
  <2> QED
    BY <2>1, <2>2, <2>3, <2>4 DEF IInv
<1>13. ASSUME TypeOK, IInv, NEW b \in Blockers, DisconnectUnused(b) PROVE IInv'
  <2>0. /\ changing' = changing
        /\ \A c \in Blockers : pc'[c] \in Connecting <=> pc[c] \in Connecting
        /\ \A c \in Blockers : pc[c] \in Connecting => at'[c] = at[c]
    BY <1>13 DEF TypeOK, Connecting, passVars, DisconnectUnused, Goto, Unused, Live
  <2>1. ChangingIsConnecting'
    BY <2>0, ConnectsKept DEF IInv
  <2>2. ConfigMatchesPc'
    BY <1>13 DEF IInv, ConfigMatchesPc, Holding, Pcs, Connecting, TypeOK,
       DisconnectUnused, Goto, Unused, Live
  <2>3. AtIsRelay'
    BY <2>0 DEF IInv, AtIsRelay
  <2>4. ClosedIsForgotten'
    BY <1>13 DEF IInv, ClosedIsForgotten, ChangingIsConnecting,
       ConfigMatchesPc, Holding, Pcs, Connecting, TypeOK, relayVars,
       DisconnectUnused, Goto, Unused, Live
  <2> QED
    BY <2>1, <2>2, <2>3, <2>4 DEF IInv
<1>14. ASSUME TypeOK, IInv, NEW b \in Blockers, UpdateDns(b) PROVE IInv'
  <2>0. /\ changing' = changing
        /\ \A c \in Blockers : pc'[c] \in Connecting <=> pc[c] \in Connecting
        /\ \A c \in Blockers : pc[c] \in Connecting => at'[c] = at[c]
    BY <1>14 DEF TypeOK, Connecting, passVars, UpdateDns, Goto
  <2>1. ChangingIsConnecting'
    BY <2>0, ConnectsKept DEF IInv
  <2>2. ConfigMatchesPc'
    BY <1>14 DEF IInv, ConfigMatchesPc, Holding, Pcs, Connecting, TypeOK,
       UpdateDns, Goto
  <2>3. AtIsRelay'
    BY <2>0 DEF IInv, AtIsRelay
  <2>4. ClosedIsForgotten'
    BY <1>14 DEF IInv, ClosedIsForgotten, ChangingIsConnecting,
       ConfigMatchesPc, Holding, Pcs, Connecting, TypeOK, relayVars,
       UpdateDns, Goto
  <2> QED
    BY <2>1, <2>2, <2>3, <2>4 DEF IInv
<1>15. ASSUME TypeOK, IInv, NEW b \in Blockers, UpdateState(b) PROVE IInv'
  <2>0. /\ changing' = changing
        /\ \A c \in Blockers : pc'[c] \in Connecting <=> pc[c] \in Connecting
        /\ \A c \in Blockers : pc[c] \in Connecting => at'[c] = at[c]
    BY <1>15 DEF TypeOK, Connecting, passVars, UpdateState, Goto
  <2>1. ChangingIsConnecting'
    BY <2>0, ConnectsKept DEF IInv
  <2>2. ConfigMatchesPc'
    BY <1>15 DEF IInv, ConfigMatchesPc, Holding, Pcs, Connecting, TypeOK,
       UpdateState, Goto
  <2>3. AtIsRelay'
    BY <2>0 DEF IInv, AtIsRelay
  <2>4. ClosedIsForgotten'
    BY <1>15 DEF IInv, ClosedIsForgotten, ChangingIsConnecting,
       ConfigMatchesPc, Holding, Pcs, Connecting, TypeOK, relayVars,
       UpdateState, Goto
  <2> QED
    BY <2>1, <2>2, <2>3, <2>4 DEF IInv
<1>16. ASSUME TypeOK, IInv, NEW r \in Relays, LatePing(r) PROVE IInv'
  BY <1>16 DEF IInv, ChangingIsConnecting, ConfigMatchesPc, AtIsRelay,
     ClosedIsForgotten, Connecting, relayVars, passVars, TypeOK, Holding, Pcs,
     Goto, LatePing, Count
<1>17. ASSUME TypeOK, IInv, NEW r \in Relays, TunnelDies(r) PROVE IInv'
  BY <1>17 DEF IInv, ChangingIsConnecting, ConfigMatchesPc, AtIsRelay,
     ClosedIsForgotten, Connecting, relayVars, passVars, TypeOK, Holding, Pcs,
     Goto, TunnelDies, Live
<1>18. ASSUME TypeOK, IInv, TunnelClosed PROVE IInv'
  BY <1>18 DEF IInv, ChangingIsConnecting, ConfigMatchesPc, AtIsRelay,
     ClosedIsForgotten, Connecting, relayVars, passVars, TypeOK, Holding, Pcs,
     Goto, TunnelClosed
<1>19. ASSUME TypeOK, IInv, Resolvers PROVE IInv'
  BY <1>19 DEF IInv, ChangingIsConnecting, ConfigMatchesPc, AtIsRelay,
     ClosedIsForgotten, Connecting, relayVars, passVars, TypeOK, Holding, Pcs,
     Goto, Resolvers
<1>20. ASSUME TypeOK, IInv, UNCHANGED vars PROVE IInv'
  BY <1>20 DEF IInv, ChangingIsConnecting, ConfigMatchesPc, AtIsRelay,
     ClosedIsForgotten, Connecting, relayVars, passVars, TypeOK, Holding, Pcs,
     vars, relayVars, passVars
<1> QED
  BY <1>1, <1>2, <1>3, <1>4, <1>5, <1>6, <1>7, <1>8, <1>9, <1>10, <1>11,
     <1>12, <1>13, <1>14, <1>15, <1>16, <1>17, <1>18, <1>19, <1>20 DEF Next,
     Proceed, Relock

\* Both invariants hold throughout.
LEMMA Invariant == Spec => [](TypeOK /\ IInv)
<1>1. Init => TypeOK
  BY DEF Init, TypeOK, Pcs, Outcomes, Statuses
<1>2. Init => IInv
  BY DEF Init, IInv, ChangingIsConnecting, ConfigMatchesPc, AtIsRelay,
         ClosedIsForgotten, Holding, Connecting
<1>3. TypeOK /\ IInv /\ [Next]_vars => TypeOK' /\ IInv'
  BY TypeStep, IInvStep
<1> QED
  BY <1>1, <1>2, <1>3, PTL DEF Spec

\* The state variables have their types.
THEOREM Typing == Spec => []TypeOK
  BY Invariant, PTL

\* Exactly one blocker connects to a relay that is changing (pkmanager.c:833,
\* "Ignore tunnels that are changing state").
THEOREM OneConnect == Spec => []ChangingIsConnecting
<1>1. IInv => ChangingIsConnecting
  BY DEF IInv
<1> QED
  BY <1>1, Invariant, PTL


\* A live tunnel remains after every step but the one in which the event loop
\* cleans up a dead one.
LEMMA LastStep ==
    ASSUME TypeOK, IInv, [Next]_vars, Live # {}, Live' = {}
    PROVE  closing # 0 /\ closing' = 0
<1>1. ASSUME TypeOK, IInv, Live # {}, NEW b \in Blockers, NEW kind \in {"world", "tunnels"},
            StartCheck(b, kind)
     PROVE Live' # {}
  BY <1>1 DEF StartCheck, Live
<1>2. ASSUME TypeOK, IInv, Live # {}, NEW b \in Blockers, World(b) PROVE Live' # {}
  BY <1>2 DEF World, Live
<1>3. ASSUME TypeOK, IInv, Live # {}, NEW b \in Blockers, DnsIsDown(b) PROVE Live' # {}
  BY <1>3 DEF DnsIsDown, Live
<1>4. ASSUME TypeOK, IInv, Live # {}, NEW b \in Blockers, LookUp(b) PROVE Live' # {}
  BY <1>4 DEF LookUp, Live
<1>5. ASSUME TypeOK, IInv, Live # {}, NEW b \in Blockers, NewAddress(b) PROVE Live' # {}
  BY <1>5 DEF NewAddress, Live
<1>6. ASSUME TypeOK, IInv, Live # {}, NEW b \in Blockers, Choose(b) PROVE Live' # {}
  BY <1>6 DEF Choose, Live
<1>7. ASSUME TypeOK, IInv, Live # {}, NEW b \in Blockers, Reconnect(b) PROVE Live' # {}
  BY <1>7 DEF Reconnect, Missing, Live
<1>8. ASSUME TypeOK, IInv, Live # {}, NEW b \in Blockers, Reconnected(b) PROVE Live' # {}
  BY <1>8 DEF Reconnected, Live
<1>9. ASSUME TypeOK, IInv, Live # {}, NEW b \in Blockers, Dial(b) PROVE Live' # {}
  <2>1. at[b] \in changing
    BY <1>9 DEF Dial, IInv, ChangingIsConnecting, Connecting
  <2> QED
    BY <1>9, <2>1 DEF Dial, Live
<1>10. ASSUME TypeOK, IInv, Live # {}, NEW b \in Blockers, Talk(b) PROVE Live' # {}
  <2>1. at[b] \in changing
    BY <1>10 DEF Talk, IInv, ChangingIsConnecting, Connecting
  <2>2. open \ {at[b]} \subseteq open' /\ changing' = changing
    BY <1>10 DEF Talk, Talked, Hangup
  <2> QED
    BY <1>10, <2>1, <2>2 DEF Live
<1>11. ASSUME TypeOK, IInv, Live # {}, NEW b \in Blockers, Connected(b) PROVE Live' # {}
  BY <1>11 DEF Connected, Live
<1>12. ASSUME TypeOK, IInv, Live # {}, NEW b \in Blockers, NotConnected(b) PROVE Live' # {}
  <2>1. at[b] \in changing
    BY <1>12 DEF NotConnected, Goto, IInv, ChangingIsConnecting, Connecting
  <2> QED
    BY <1>12, <2>1 DEF NotConnected, Hangup, Live
<1>13. ASSUME TypeOK, IInv, Live # {}, NEW b \in Blockers, DisconnectUnused(b) PROVE Live' # {}
  <2>1. PICK idle \in SUBSET Unused :
           LET closed == IF Cardinality(idle) >= Cardinality(Live) THEN {} ELSE idle
           IN  open' = open \ closed
    BY <1>13 DEF DisconnectUnused
  <2> DEFINE closed == IF Cardinality(idle) >= Cardinality(Live) THEN {} ELSE idle
  <2>2. closed # Live
    <3>1. idle \in SUBSET Live
      BY <2>1 DEF Unused
    <3>2. CASE Cardinality(idle) >= Cardinality(Live)
      BY <1>13, <3>2
    <3>3. CASE ~(Cardinality(idle) >= Cardinality(Live))
      <4>1. Cardinality(idle) \in Nat /\ Cardinality(Live) \in Nat
        BY <1>13, <3>1, LiveIsFinite
      <4> QED
        BY ONLY <3>3, <4>1
    <3> QED
      BY <3>2, <3>3
  <2>3. closed \subseteq Live /\ changing' = changing
    BY <1>13 DEF Unused, DisconnectUnused
  <2> QED
    BY <2>1, <2>2, <2>3 DEF Live
<1>14. ASSUME TypeOK, IInv, Live # {}, NEW b \in Blockers, UpdateDns(b) PROVE Live' # {}
  BY <1>14 DEF UpdateDns, Live
<1>15. ASSUME TypeOK, IInv, Live # {}, NEW b \in Blockers, UpdateState(b) PROVE Live' # {}
  BY <1>15 DEF UpdateState, Live
<1>16. ASSUME TypeOK, IInv, Live # {}, NEW r \in Relays, LatePing(r) PROVE Live' # {}
  BY <1>16 DEF LatePing, Live
<1>17. ASSUME TypeOK, IInv, Live # {}, NEW r \in Relays, TunnelDies(r) PROVE Live' # {}
  BY <1>17 DEF TunnelDies, Live
<1>18. ASSUME TypeOK, IInv, Live # {}, Resolvers PROVE Live' # {}
  BY <1>18 DEF Resolvers, Live
<1>19. ASSUME TypeOK, IInv, Live # {}, UNCHANGED vars PROVE Live' # {}
  BY <1>19 DEF vars, Live
<1>20. ASSUME TunnelClosed PROVE closing # 0 /\ closing' = 0
  BY <1>20 DEF TunnelClosed
<1> QED
  BY <1>1, <1>2, <1>3, <1>4, <1>5, <1>6, <1>7, <1>8, <1>9, <1>10, <1>11,
     <1>12, <1>13, <1>14, <1>15, <1>16, <1>17, <1>18, <1>19, <1>20 DEF Next,
     Proceed, Relock

\* The housekeeping never takes the last live tunnel down (pkmanager.c:1034,
\* "If we're about to go disconnecting all our live tunnels, abort.").
THEOREM LastTunnelKept == Spec => LastTunnelStays
<1>1. TypeOK /\ IInv /\ [Next]_vars
        => [Live # {} /\ Live' = {} => closing # 0 /\ closing' = 0]_vars
  BY LastStep
<1> QED
  BY <1>1, Invariant, PTL DEF Spec, LastTunnelStays

-----------------------------------------------------------------------------
(* The count of live tunnels.  It is exact while a tunnel that a pass has    *)
(* closed waits to be closed by the loop as well: that pass has counted.     *)

\* A blocker that talks to a relay has its socket.
TalkIsOpen ==
    \A b \in Blockers :
        \/ pc[b] \in {"talk", "retalk"}
        \/ pc[b] = "relock" /\ outcome[b] = "connected"
        => at[b] \in open

\* One less than n tunnels, as an unsigned number.
Pred(n) == IF n = 0 THEN Modulus - 1 ELSE n - 1

Exact   == live = Cardinality(Live)
OneLess == live = Pred(Cardinality(Live))

CountInv ==
    /\ Exact \/ OneLess
    /\ closing # 0 /\ closing \notin open => Exact

\* A blocker keeps its socket while it talks: nobody else closes it.
LEMMA TalkStep ==
    ASSUME TypeOK, IInv, TalkIsOpen, [Next]_vars PROVE TalkIsOpen'
<1> SUFFICES ASSUME NEW c \in Blockers,
                    \/ pc'[c] \in {"talk", "retalk"}
                    \/ pc'[c] = "relock" /\ outcome'[c] = "connected"
             PROVE  at'[c] \in open'
  BY DEF TalkIsOpen
<1>a. ASSUME pc'[c] = pc[c], outcome'[c] = outcome[c], at'[c] = at[c],
             at[c] \in open => at[c] \in open'
      PROVE  at'[c] \in open'
  BY <1>a DEF TalkIsOpen
<1>b. pc[c] \in Connecting => at[c] \in changing
  BY DEF IInv, ChangingIsConnecting
<1>c. pc'[c] = pc[c] => pc[c] \in Connecting
  BY DEF Connecting
<1>1. ASSUME NEW b \in Blockers, Dial(b) PROVE at'[c] \in open'
  BY <1>1, <1>a DEF Dial, TypeOK
<1>2. ASSUME NEW b \in Blockers, Talk(b) PROVE at'[c] \in open'
  <2>1. CASE c = b
    BY <1>2, <2>1 DEF Talk, Talked, TalkIsOpen, TypeOK
  <2>2. CASE c # b
    <3>1. pc'[c] = pc[c] /\ outcome'[c] = outcome[c] /\ at' = at
          /\ open \ {at[b]} \subseteq open'
      BY <1>2, <2>2 DEF Talk, Talked, Hangup, TypeOK
    <3>2. pc[b] \in Connecting
      BY <1>2 DEF Talk, Connecting
    <3>3. at[c] # at[b]
      BY <1>c, <2>2, <3>1, <3>2 DEF IInv, ChangingIsConnecting
    <3> QED
      BY <1>a, <3>1, <3>3
  <2> QED
    BY <2>1, <2>2
<1>3. ASSUME NEW b \in Blockers, Relock(b) PROVE at'[c] \in open'
  <2>1. CASE c = b
    BY <1>3, <2>1 DEF Relock, Connected, NotConnected, Goto, TypeOK
  <2>2. CASE c # b
    <3>1. pc'[c] = pc[c] /\ outcome'[c] = outcome[c] /\ at' = at
          /\ open \ {at[b]} \subseteq open' /\ pc[b] = "relock"
      BY <1>3, <2>2 DEF Relock, Connected, NotConnected, Hangup, Goto, TypeOK
    <3>2. at[c] # at[b]
      BY <1>c, <2>2, <3>1 DEF IInv, ChangingIsConnecting, Connecting
    <3> QED
      BY <1>a, <3>1, <3>2
  <2> QED
    BY <2>1, <2>2
<1>4. ASSUME NEW b \in Blockers, DisconnectUnused(b) PROVE at'[c] \in open'
  <2>1. c # b /\ pc'[c] = pc[c] /\ outcome' = outcome /\ at' = at
    BY <1>4 DEF DisconnectUnused, Goto, TypeOK, passVars
  <2>2. \E closed \in SUBSET Live : open' = open \ closed
    BY <1>4 DEF DisconnectUnused, Unused
  <2> QED
    BY <1>a, <1>b, <1>c, <2>1, <2>2 DEF Live
<1>5. CASE TunnelClosed
  <2>1. pc' = pc /\ outcome' = outcome /\ at' = at /\ open' = open \ {closing}
        /\ closing \notin changing
    BY <1>5 DEF TunnelClosed, passVars, IInv, ClosedIsForgotten
  <2> QED
    BY <1>a, <1>b, <1>c, <2>1
<1>6. ASSUME NEW b \in Blockers,
             \/ \E kind \in {"world", "tunnels"} : StartCheck(b, kind)
             \/ World(b) \/ DnsIsDown(b) \/ LookUp(b) \/ NewAddress(b) \/ Choose(b)
             \/ Reconnect(b) \/ Reconnected(b) \/ UpdateDns(b) \/ UpdateState(b)
      PROVE  at'[c] \in open'
  <2>1. open' = open /\ outcome' = outcome
    BY <1>6 DEF StartCheck, World, DnsIsDown, LookUp, NewAddress, Choose, Reconnect,
                Reconnected, UpdateDns, UpdateState, passVars
  <2>2. \E to \in {"world", "tunnels", "idle", "found", "choose", "reconnect", "dial",
                   "update_dns", "disconnect", "update_state"} :
           pc' = [pc EXCEPT ![b] = to]
    BY <1>6 DEF StartCheck, World, DnsIsDown, LookUp, NewAddress, Choose, Reconnect,
                Reconnected, UpdateDns, UpdateState, Goto
  <2>3. c # b /\ pc'[c] = pc[c]
    BY <2>2 DEF TypeOK
  <2>4. at'[c] = at[c]
    BY <1>6, <2>3 DEF StartCheck, World, DnsIsDown, LookUp, NewAddress, Choose, Reconnect,
                Reconnected, UpdateDns, UpdateState, passVars, TypeOK
  <2> QED
    BY <1>a, <2>1, <2>3, <2>4
<1>7. CASE (\E r \in Relays : LatePing(r) \/ TunnelDies(r)) \/ Resolvers
           \/ UNCHANGED vars
  BY <1>7, <1>a DEF LatePing, TunnelDies, Resolvers, vars, passVars
<1> QED
  BY <1>1, <1>2, <1>3, <1>4, <1>5, <1>6, <1>7 DEF Next, Proceed

\* The steps that neither count nor open or close a live tunnel.
Uncounting ==
    /\ live' = live /\ Live' = Live
    /\ closing' # 0 /\ closing' \notin open' => closing' = closing /\ closing \notin open

LEMMA StepKinds ==
    ASSUME TypeOK, IInv, [Next]_vars
    PROVE  \/ Uncounting
           \/ \E b \in Blockers : Connected(b) \/ DisconnectUnused(b)
           \/ TunnelClosed
<1>a. \A b \in Blockers : pc[b] \in Connecting => at[b] \in changing
  BY DEF IInv, ChangingIsConnecting
<1>b. closing # 0 => closing \notin changing
  BY DEF IInv, ClosedIsForgotten
<1>1. ASSUME NEW b \in Blockers,
             \/ \E kind \in {"world", "tunnels"} : StartCheck(b, kind)
             \/ World(b) \/ DnsIsDown(b) \/ LookUp(b) \/ NewAddress(b) \/ Choose(b)
             \/ Reconnected(b) \/ UpdateDns(b) \/ UpdateState(b)
      PROVE  Uncounting
  BY <1>1 DEF StartCheck, World, DnsIsDown, LookUp, NewAddress, Choose, Reconnected,
              UpdateDns, UpdateState, Uncounting, Live
<1>2. ASSUME NEW b \in Blockers, Reconnect(b) PROVE Uncounting
  BY <1>2 DEF Reconnect, Missing, Uncounting, Live
<1>3. ASSUME NEW b \in Blockers, Dial(b) PROVE Uncounting
  <2>1. at[b] \in changing
    BY <1>3, <1>a DEF Dial, Connecting
  <2> QED
    BY <1>3, <1>b, <2>1 DEF Dial, Uncounting, Live
<1>4. ASSUME NEW b \in Blockers, Talk(b) PROVE Uncounting
  <2>1. at[b] \in changing
    BY <1>4, <1>a DEF Talk, Connecting
  <2>2. /\ open' \subseteq open /\ open \ {at[b]} \subseteq open'
        /\ changing' = changing /\ live' = live /\ closing' = closing
    BY <1>4 DEF Talk, Talked, Hangup
  <2> QED
    BY <1>b, <2>1, <2>2 DEF Uncounting, Live
<1>5. ASSUME NEW b \in Blockers, NotConnected(b) PROVE Uncounting
  <2>1. at[b] \in changing
    BY <1>5, <1>a DEF NotConnected, Goto, Connecting
  <2>2. /\ open' = open \ {at[b]} /\ changing' = changing \ {at[b]}
        /\ live' = live /\ closing' = closing
    BY <1>5 DEF NotConnected, Hangup
  <2> QED
    BY <1>b, <2>1, <2>2 DEF Uncounting, Live
<1>6. ASSUME NEW r \in Relays, LatePing(r) PROVE Uncounting
  BY <1>6 DEF LatePing, Uncounting, Live
<1>7. ASSUME NEW r \in Relays, TunnelDies(r) PROVE Uncounting
  BY <1>7 DEF TunnelDies, Uncounting, Live
<1>8. CASE Resolvers \/ UNCHANGED vars
  BY <1>8 DEF Resolvers, vars, Uncounting, Live
<1> QED
  BY <1>1, <1>2, <1>3, <1>4, <1>5, <1>6, <1>7, <1>8 DEF Next, Proceed, Relock

\* The sizes of the live set, and of what one tunnel more or less makes it.
LEMMA LiveSizes ==
    ASSUME TypeOK
    PROVE  /\ IsFiniteSet(Live) /\ Cardinality(Live) \in 0..Modulus - 2
           /\ \A r \in Live : /\ Cardinality(Live) > 0
                             /\ Cardinality(Live \ {r}) = Cardinality(Live) - 1
           /\ \A r : r \notin Live => Cardinality(Live \cup {r}) = Cardinality(Live) + 1
<1>1. Live \in SUBSET Live
  OBVIOUS
<1>2. Cardinality(Live) \in Nat /\ Cardinality(Live) <= NumRelays
  BY <1>1, LiveIsFinite
<1>3. IsFiniteSet(Relays) /\ Live \subseteq Relays
  BY FS_Interval DEF TypeOK, Live
<1>4. IsFiniteSet(Live)
  BY <1>3, FS_Subset
<1>5. \A r \in Live : Cardinality(Live \ {r}) = Cardinality(Live) - 1
  BY <1>4, FS_RemoveElement
<1>6. \A r : r \notin Live => Cardinality(Live \cup {r}) = Cardinality(Live) + 1
  BY <1>4, FS_AddElement
<1>7. \A r \in Live : Cardinality(Live) > 0
  BY <1>2, <1>4, FS_EmptySet
<1>8. Cardinality(Live) \in 0..Modulus - 2
  BY <1>2
<1> QED
  BY <1>4, <1>5, <1>6, <1>7, <1>8

LEMMA CountStep ==
    ASSUME TypeOK, TypeOK', IInv, TalkIsOpen, CountInv, [Next]_vars PROVE CountInv'
<1> DEFINE n == Cardinality(Live)
<1>n. n \in 0..Modulus - 2 /\ live \in 0..Modulus - 1 /\ Modulus \in Nat \ {0}
  <2>1. n \in 0..Modulus - 2
    BY LiveSizes
  <2> QED
    BY <2>1 DEF TypeOK
<1>1. CASE Uncounting
  BY <1>1 DEF Uncounting, CountInv, Exact, OneLess
<1>2. ASSUME NEW b \in Blockers, Connected(b) PROVE CountInv'
  <2>1. /\ live' = (live + 1) % Modulus /\ changing' = changing \ {at[b]}
        /\ open' = open /\ closing' = closing
    BY <1>2 DEF Connected
  <2>2. at[b] \in open /\ at[b] \in changing
    BY <1>2 DEF Connected, Goto, TalkIsOpen, IInv, ChangingIsConnecting, Connecting
  <2>3. at[b] \notin Live /\ Live' = Live \cup {at[b]}
    BY <2>1, <2>2 DEF Live
  <2>4. Cardinality(Live') = n + 1
    BY <2>3, LiveSizes
  <2>5. live' = IF live = Modulus - 1 THEN 0 ELSE live + 1
    BY <1>n, <2>1, OneUp
  <2>6. Exact => Exact'
    BY <1>n, <2>4, <2>5 DEF Exact
  <2>7. OneLess => OneLess'
    BY <1>n, <2>4, <2>5 DEF OneLess, Pred
  <2> QED
    BY <2>1, <2>6, <2>7 DEF CountInv
<1>3. ASSUME NEW b \in Blockers, DisconnectUnused(b) PROVE CountInv'
  <2>1. PICK idle \in SUBSET Unused :
           LET closed == IF Cardinality(idle) >= Cardinality(Live) THEN {} ELSE idle
           IN  /\ open' = open \ closed
               /\ live' = Cardinality(Live) - Cardinality(closed)
    BY <1>3 DEF DisconnectUnused
  <2> DEFINE closed == IF Cardinality(idle) >= Cardinality(Live) THEN {} ELSE idle
  <2>2. closed \in SUBSET Live /\ changing' = changing
    BY <1>3 DEF Unused, DisconnectUnused
  <2>3. Live' = Live \ closed
    BY <2>1, <2>2 DEF Live
  <2>4. IsFiniteSet(Live)
    BY LiveSizes
  <2>5. Cardinality(Live \ closed) = Cardinality(Live) - Cardinality(closed)
    <3> HIDE DEF closed
    <3>1. Live \cap closed = closed
      BY <2>2
    <3>2. IsFiniteSet(closed)
      BY <2>2, <2>4, FS_Subset
    <3> QED
      BY <2>4, <3>1, <3>2, FS_Difference
  <2>6. Exact'
    BY <2>1, <2>3, <2>5 DEF Exact
  <2> QED
    BY <2>6 DEF CountInv
<1>4. CASE TunnelClosed
  <2>1. /\ closing # 0 /\ closing' = 0 /\ open' = open \ {closing}
        /\ changing' = changing \ {closing} /\ live' = (live + Modulus - 1) % Modulus
    BY <1>4 DEF TunnelClosed
  <2>2. live' = Pred(live)
    BY <1>n, <2>1, OneDown DEF Pred
  <2>3. closing \notin changing
    BY <2>1 DEF IInv, ClosedIsForgotten
  <2>4. Live' = Live \ {closing}
    BY <2>1, <2>3 DEF Live
  <2>5. CASE closing \in open
    <3>1. closing \in Live
      BY <2>3, <2>5 DEF Live
    <3>2. n > 0 /\ Cardinality(Live') = n - 1
      BY <2>4, <3>1, LiveSizes
    <3>3. Exact => Exact'
      BY <1>n, <2>2, <3>2 DEF Exact, Pred
    <3>4. OneLess => OneLess'
      BY <1>n, <2>2, <3>2 DEF OneLess, Pred
    <3> QED
      BY <2>1, <3>3, <3>4 DEF CountInv
  <2>6. CASE closing \notin open
    <3>1. Live' = Live /\ Exact
      BY <2>1, <2>4, <2>6 DEF Live, CountInv
    <3>2. OneLess'
      BY <2>2, <3>1 DEF Exact, OneLess
    <3> QED
      BY <2>1, <3>2 DEF CountInv
  <2> QED
    BY <2>5, <2>6
<1> QED
  BY <1>1, <1>2, <1>3, <1>4, StepKinds

\* live_tunnels is right or one too small, never more: a tunnel that a pass
\* closes (pkmanager.c:961) while the loop is closing it (543) is subtracted
\* twice, and the next pass that closes tunnels counts again.
THEOREM LiveIsCounted == Spec => []CountIsClose
<1>1. Init => TalkIsOpen
  BY DEF Init, TalkIsOpen
<1>2. Init => CountInv
  BY FS_EmptySet DEF Init, CountInv, Exact, Live
<1>3. TypeOK /\ IInv /\ TalkIsOpen /\ [Next]_vars => TalkIsOpen'
  BY TalkStep
<1>4. TypeOK /\ TypeOK' /\ IInv /\ TalkIsOpen /\ CountInv /\ [Next]_vars => CountInv'
  BY CountStep
<1>5. TypeOK /\ CountInv => CountIsClose
  <2> SUFFICES ASSUME TypeOK, CountInv PROVE CountIsClose
    OBVIOUS
  <2>0. Cardinality(Live) \in 0..Modulus - 2
    BY LiveSizes
  <2>1. live \in 0..Modulus - 1 /\ Modulus \in Nat \ {0} /\ live + 0 = live
    BY DEF TypeOK
  <2>2. (live + 0) % Modulus = live
    BY <2>1, Stays
  <2>3. (live + 1) % Modulus = IF live = Modulus - 1 THEN 0 ELSE live + 1
    BY <2>1, OneUp
  <2>4. CASE Exact
    BY <2>2, <2>4 DEF Exact, CountIsClose
  <2>5. CASE OneLess
    BY <2>0, <2>1, <2>3, <2>5 DEF OneLess, Pred, CountIsClose
  <2> QED
    BY <2>4, <2>5 DEF CountInv
<1> QED
  BY <1>1, <1>2, <1>3, <1>4, <1>5, Invariant, PTL DEF Spec
=============================================================================
