------------------------------- MODULE PkTunnels -------------------------------
(***************************************************************************)
(* Which relays libpagekite is connected to: the housekeeping passes of    *)
(* the two blocker threads (pkblocker.c 93-310 and 665-734, pkmanager.c    *)
(* 810-1041), which choose relays, connect to them and drop the ones that  *)
(* are no longer needed, against the event loop, which finds tunnels dead. *)
(*                                                                         *)
(* A pass holds config_lock from its start to its end except while it      *)
(* connects: the other blocker may then make a pass of its own, and a      *)
(* tunnel may die under either.  What a pass does between two of these     *)
(* points with the loop blocked is one step here; PkManagerLocks models    *)
(* the locks themselves.                                                   *)
(*                                                                         *)
(* A relay is its index in the table pkm->tunnels, because the order of    *)
(* the table decides some choices.  Bits of conn.status are sets of        *)
(* relays; REJECTED and LAME, which the choices treat alike, are bad.      *)
(* FE_STATUS_NAILED_UP is left out: no caller ever sets it.                *)
(***************************************************************************)
EXTENDS Integers, FiniteSets

CONSTANTS
    Blockers,      \* the worker threads
    Loop,          \* the event loop, as an owner of config_lock
    NoThread,      \* "nobody"
    NumRelays,     \* entries of pkm->tunnels in use
    Uuid,          \* the relay's identity: one relay may have several addresses
    Ping,          \* the time each relay takes to answer a ping
    Answering,     \* relays that may answer a ping within the second
    Steady,        \* relays that accept every connection
    Spares,        \* pkm->want_spare_frontends
    MaxErrors,     \* where error_count stops (999 in the code)
    Modulus        \* the range of the unsigned live_tunnels

Relays == 1..NumRelays

ASSUME TunnelBounds ==
    /\ NumRelays \in Nat \ {0} /\ Spares \in Nat /\ MaxErrors \in Nat
    /\ Modulus \in Nat /\ Modulus > NumRelays + 1

ASSUME RelaysAreKnown ==
    /\ Uuid \in [Relays -> Nat] /\ Ping \in [Relays -> Nat \ {0}]
    /\ Answering \subseteq Relays /\ Steady \subseteq Relays

ASSUME OwnersAreDistinct ==
    Loop \notin Blockers /\ NoThread \notin Blockers \cup {Loop}

VARIABLES
    open,      \* relays with sockfd >= 0
    changing,  \* CONN_STATUS_CHANGING
    wanted,    \* FE_STATUS_WANTED
    in_dns,    \* FE_STATUS_IN_DNS
    bad,       \* FE_STATUS_REJECTED or FE_STATUS_LAME
    answered,  \* relays whose priority (ping time) is known
    pinging,   \* relays whose ping thread still runs
    errors,    \* error_count
    live,      \* pk_state.live_tunnels
    status,    \* pkm->status
    config,    \* the owner of config_lock
    closing,   \* the tunnel the loop is closing, or 0
    pc,        \* where each blocker is
    at,        \* the table index a blocker's pass has reached
    outcome,   \* how the connect of a blocker's pass ended
    problems,  \* whether its pass has met problems
    dns        \* whether resolvers answer at all

relayVars == <<wanted, in_dns, bad, answered, pinging, errors>>
passVars == <<at, outcome, problems>>
vars == <<open, changing, relayVars, live, status, config, closing,
          pc, passVars, dns>>

Statuses == {"STARTUP", "CONNECTING", "UPDATING_DNS", "FLYING", "PROBLEMS",
             "REJECTED", "NO_NETWORK"}

Connecting == {"dial", "talk", "redial", "retalk", "relock"}
Pcs == {"idle", "world", "tunnels", "found", "choose", "reconnect", "disconnect",
        "update_dns", "update_state"} \cup Connecting

Outcomes == {"none", "connected", "rejected", "duplicate", "failed"}

TypeOK ==
    /\ open \subseteq Relays /\ changing \subseteq Relays
    /\ wanted \subseteq Relays /\ in_dns \subseteq Relays
    /\ bad \subseteq Relays
    /\ answered \subseteq Relays /\ pinging \subseteq Relays
    /\ errors \in [Relays -> 0..MaxErrors]
    /\ live \in 0..Modulus - 1
    /\ status \in Statuses
    /\ config \in Blockers \cup {Loop, NoThread}
    /\ closing \in Relays \cup {0}
    /\ pc \in [Blockers -> Pcs]
    /\ at \in [Blockers -> 0..NumRelays]
    /\ outcome \in [Blockers -> Outcomes]
    /\ problems \in [Blockers -> BOOLEAN]
    /\ dns \in BOOLEAN

Init ==
    /\ open = {} /\ changing = {} /\ wanted = {} /\ in_dns = {} /\ bad = {}
    /\ answered = {} /\ pinging = {}
    /\ errors = [r \in Relays |-> 0]
    /\ live = 0
    /\ status = "STARTUP"
    /\ config = NoThread
    /\ closing = 0
    /\ pc = [b \in Blockers |-> "idle"]
    /\ at = [b \in Blockers |-> 0]
    /\ outcome = [b \in Blockers |-> "none"]
    /\ problems = [b \in Blockers |-> FALSE]
    /\ dns = TRUE

Live == open \ changing

Goto(b, from, to) == pc[b] = from /\ pc' = [pc EXCEPT ![b] = to]

-----------------------------------------------------------------------------
(* A pass of a blocker, from its job to the connects.                        *)

\* pkb_run_blocker: a job is dropped if config_lock is taken.  A tunnel that a
\* pass has closed is not chosen again before the loop has done closing it too:
\* the next pass starts 15 seconds later (last_check_tunnels) or, if it checks
\* the world, sleeps a second before it chooses.
StartCheck(b, kind) ==
    /\ config = NoThread
    /\ closing \in open \cup {0}
    /\ config' = b
    /\ Goto(b, "idle", kind)
    /\ problems' = [problems EXCEPT ![b] = FALSE]
    /\ UNCHANGED <<open, changing, relayVars, live, status, closing,
                   at, outcome, dns>>

\* The errors after one more failure of each relay in failed.
Count(failed) ==
    [r \in Relays |-> IF r \in failed /\ errors[r] < MaxErrors
                      THEN errors[r] + 1 ELSE errors[r]]

\* pkb_check_kites_dns.  The bits follow the addresses found for the kites and
\* those seen in DNS lately; if there are none the one seen last keeps its bit.
\* No answer for any kite changes nothing.  That nothing is found is a problem.
KitesDns(problem) ==
    \/ /\ problem
       /\ UNCHANGED in_dns
    \/ /\ dns
       /\ \E found \in SUBSET Relays, recent \in SUBSET in_dns :
             /\ problem = (found \cup recent = {})
             /\ IF problem /\ in_dns # {}
                THEN \E last \in in_dns : in_dns' = {last}
                ELSE in_dns' = found \cup recent

\* pkb_check_world: forget what was held against relays, ping each, and look
\* at DNS.  It waits for the first ping to end; the others come when they come.
CheckWorld ==
    IF status = "NO_NETWORK" THEN UNCHANGED relayVars
    ELSE /\ bad' = {}
         /\ \E failed \in SUBSET (Relays \ (Steady \cap Answering)) :
                /\ errors' = Count(failed)
                /\ \E now \in SUBSET (Answering \ failed) :
                      /\ Answering \cap Steady \subseteq now
                      /\ answered' = now
                      /\ pinging' = Relays \ (now \cup failed)
         /\ \E problem \in BOOLEAN : KitesDns(problem)
         /\ UNCHANGED wanted

World(b) ==
    /\ Goto(b, "world", "tunnels")
    /\ CheckWorld
    /\ UNCHANGED <<open, changing, live, status, config, closing,
                   passVars, dns>>

\* pkb_tunnel_ping ends after the pass that started it has gone on.
LatePing(r) ==
    /\ r \in pinging
    /\ pinging' = pinging \ {r}
    /\ \/ /\ r \in Answering
          /\ answered' = answered \cup {r}
          /\ UNCHANGED errors
       \/ /\ r \notin Steady \cap Answering
          /\ errors' = Count({r})
          /\ UNCHANGED answered
    /\ UNCHANGED <<open, changing, wanted, in_dns, bad, live, status, config,
                   closing, pc, passVars, dns>>

\* pkb_update_state.
Status(down, trouble) ==
    status' = IF ~trouble /\ live > 0 THEN "FLYING"
              ELSE IF status = "REJECTED" THEN status
              ELSE IF down THEN "NO_NETWORK" ELSE "PROBLEMS"

\* pkb_check_tunnels up to the choice: without DNS the pass ends here.
DnsIsDown(b) ==
    /\ ~dns
    /\ Goto(b, "tunnels", "idle")
    /\ config' = NoThread
    /\ Status(TRUE, TRUE)
    /\ problems' = [problems EXCEPT ![b] = FALSE]
    /\ UNCHANGED <<open, changing, relayVars, live, closing, at, outcome, dns>>

\* With DNS the addresses of the kites are looked up, and those of the relays.
LookUp(b) ==
    /\ dns
    /\ Goto(b, "tunnels", "found")
    /\ \E problem \in BOOLEAN :
          /\ KitesDns(problem)
          /\ problems' = [problems EXCEPT ![b] = problem]
    /\ UNCHANGED <<open, changing, wanted, bad, answered, pinging, errors, live,
                   status, config, closing, at, outcome, dns>>

\* A new address of a relay (pkb_check_frontend_dns) leads to a check of the
\* world before the choice.
NewAddress(b) ==
    /\ Goto(b, "found", "choose")
    /\ \/ UNCHANGED <<relayVars, status>>
       \/ CheckWorld /\ Status(FALSE, problems[b])
    /\ UNCHANGED <<open, changing, live, config, closing, passVars, dns>>

-----------------------------------------------------------------------------
(* pkb_choose_tunnels.                                                       *)

\* Seeded bug: failures are not held against a relay.
CostForgiving(r) == Ping[r]

Cost(r) == Ping[r] + 25 * errors[r]

Before(q, r) == Cost(q) < Cost(r) \/ (Cost(q) = Cost(r) /\ q < r)

Candidates == answered \ (changing \cup bad)

Fast == {r \in Candidates :
            Cardinality({q \in Candidates : Before(q, r)}) <= Spares}

\* When nothing is fast and nothing is in DNS: the first relay of the table
\* that is not bad, or else every relay there is a connection to.
Fallback ==
    IF Relays \subseteq bad THEN open ELSE {r \in Relays \ bad : 1..r-1 \subseteq bad}

Choose(b) ==
    /\ Goto(b, "choose", "reconnect")
    /\ wanted' = IF Fast \cup in_dns # {} THEN Fast ELSE Fallback
    /\ at' = [at EXCEPT ![b] = 0]
    /\ UNCHANGED <<open, changing, in_dns, bad, answered, pinging, errors,
                   live, status, config, closing, outcome, problems, dns>>

-----------------------------------------------------------------------------
(* pkm_reconnect_all.                                                        *)

Twins(r) == {q \in Relays \ {r} : Uuid[q] = Uuid[r]}

Missing(r) ==
    /\ r \in (wanted \cup in_dns) \ (changing \cup open)
    /\ Twins(r) \cap open = {}

\* The next relay of the table to connect to: both locks are given up.
Reconnect(b) ==
    /\ Goto(b, "reconnect", "dial")
    /\ \E r \in Relays :
          /\ r > at[b] /\ Missing(r)
          /\ \A q \in at[b]+1..r-1 : ~Missing(q)
          /\ at' = [at EXCEPT ![b] = r]
          /\ changing' = changing \cup {r}
    /\ status' = "CONNECTING"
    /\ config' = NoThread
    /\ UNCHANGED <<open, relayVars, live, closing, outcome, problems, dns>>

\* The end of the table.  Unused tunnels are only looked for after a pass
\* without problems.
Reconnected(b) ==
    /\ \A r \in Relays : r > at[b] => ~Missing(r)
    /\ Goto(b, "reconnect", IF problems[b] THEN "update_dns" ELSE "disconnect")
    /\ UNCHANGED <<open, changing, relayVars, live, status, config, closing,
                   passVars, dns>>

\* pk_connect_ai, first and (signing a challenge) second time: the socket
\* appears while it dials.
Dial(b) ==
    /\ pc[b] \in {"dial", "redial"}
    /\ \/ /\ open' = open \cup {at[b]}
          /\ pc' = [pc EXCEPT ![b] = IF @ = "dial" THEN "talk" ELSE "retalk"]
          /\ UNCHANGED outcome
       \/ /\ at[b] \notin Steady
          /\ pc' = [pc EXCEPT ![b] = "relock"]
          /\ outcome' = [outcome EXCEPT ![b] = "failed"]
          /\ UNCHANGED open
    /\ UNCHANGED <<changing, relayVars, live, status, config, closing,
                   at, problems, dns>>

Talked(b, result) ==
    /\ pc' = [pc EXCEPT ![b] = "relock"]
    /\ outcome' = [outcome EXCEPT ![b] = result]

Hangup(b) == open' = open \ {at[b]}

\* The relay's answer.  A connect that times out leaves its socket open.
Talk(b) ==
    /\ pc[b] \in {"talk", "retalk"}
    /\ \/ /\ Talked(b, "connected")
          /\ UNCHANGED open
       \/ /\ pc[b] = "talk"
          /\ pc' = [pc EXCEPT ![b] = "redial"]
          /\ Hangup(b)
          /\ UNCHANGED outcome
       \/ /\ at[b] \notin Steady
          /\ \/ \E result \in {"rejected", "duplicate", "failed"} :
                    Talked(b, result) /\ Hangup(b)
             \/ Talked(b, "failed") /\ UNCHANGED open
    /\ UNCHANGED <<changing, relayVars, live, status, config, closing,
                   at, problems, dns>>

\* Lines 904-925: the locks are taken back and the tunnel is live.
Connected(b) ==
    /\ outcome[b] = "connected"
    /\ config = NoThread
    /\ config' = b
    /\ Goto(b, "relock", "reconnect")
    /\ live' = (live + 1) % Modulus
    /\ changing' = changing \ {at[b]}
    /\ errors' = [errors EXCEPT ![at[b]] = 0]
    /\ outcome' = [outcome EXCEPT ![b] = "none"]
    /\ UNCHANGED <<open, wanted, in_dns, bad, answered, pinging, status,
                   closing, at, problems, dns>>

\* Seeded bug: a relay that could not be connected to stays marked as changing.
NotConnectedStillChanging(b) ==
    /\ outcome[b] \in {"rejected", "duplicate", "failed"}
    /\ config = NoThread
    /\ config' = b
    /\ Goto(b, "relock", "reconnect")
    /\ errors' = Count({at[b]})
    /\ bad' = IF outcome[b] = "failed" THEN bad ELSE bad \cup {at[b]}
    /\ status' = IF outcome[b] = "rejected" THEN "REJECTED" ELSE status
    /\ problems' = [problems EXCEPT ![b] = @ \/ outcome[b] # "duplicate"]
    /\ Hangup(b)
    /\ outcome' = [outcome EXCEPT ![b] = "none"]
    /\ UNCHANGED <<changing, wanted, in_dns, answered, pinging, live, closing, at, dns>>

\* Lines 926-953: a duplicate is not a problem, a rejection shows.
NotConnected(b) ==
    /\ outcome[b] \in {"rejected", "duplicate", "failed"}
    /\ config = NoThread
    /\ config' = b
    /\ Goto(b, "relock", "reconnect")
    /\ errors' = Count({at[b]})
    /\ bad' = IF outcome[b] = "failed" THEN bad ELSE bad \cup {at[b]}
    /\ status' = IF outcome[b] = "rejected" THEN "REJECTED" ELSE status
    /\ problems' = [problems EXCEPT ![b] = @ \/ outcome[b] # "duplicate"]
    /\ Hangup(b)
    /\ changing' = changing \ {at[b]}
    /\ outcome' = [outcome EXCEPT ![b] = "none"]
    /\ UNCHANGED <<wanted, in_dns, answered, pinging, live, closing, at, dns>>

-----------------------------------------------------------------------------
(* The end of a pass.                                                        *)

Unused == Live \ (wanted \cup in_dns)

\* Seeded bug: the check that some tunnel would be left is missing.
DisconnectUnusedAll(b) ==
    /\ Goto(b, "disconnect", "update_dns")
    /\ \E idle \in SUBSET Unused :
          /\ open' = open \ idle
          /\ live' = Cardinality(Live) - Cardinality(idle)
    /\ UNCHANGED <<changing, relayVars, status, config, closing, passVars, dns>>

\* Seeded bug: what is closed is subtracted, and nothing counted again.
DisconnectUnusedSubtracts(b) ==
    /\ Goto(b, "disconnect", "update_dns")
    /\ \E idle \in SUBSET Unused :
          LET closed == IF Cardinality(idle) >= Cardinality(Live)
                        THEN {} ELSE idle
          IN  /\ open' = open \ closed
              /\ live' = (live + Modulus - Cardinality(closed)) % Modulus
    /\ UNCHANGED <<changing, relayVars, status, config, closing, passVars, dns>>

\* pkm_disconnect_unused: which unused tunnels are idle (pinged, and without
\* streams) is left open.  If none would be left, none is closed.
DisconnectUnused(b) ==
    /\ Goto(b, "disconnect", "update_dns")
    /\ \E idle \in SUBSET Unused :
          LET closed == IF Cardinality(idle) >= Cardinality(Live)
                        THEN {} ELSE idle
          IN  /\ open' = open \ closed
              /\ live' = Cardinality(Live) - Cardinality(closed)
    /\ UNCHANGED <<changing, relayVars, status, config, closing, passVars, dns>>

\* pkb_update_dns, if it is due: every wanted relay with a socket is published
\* when one of them is missing in DNS or DNS names one that is not wanted.
UpdateDns(b) ==
    LET addresses == wanted \cap open
    IN  /\ Goto(b, "update_dns", "update_state")
        /\ \/ UNCHANGED <<in_dns, status, problems>>
           \/ /\ status # "REJECTED"
              /\ addresses # {}
              /\ ~(addresses \subseteq in_dns /\ in_dns \cap open \subseteq wanted)
              /\ status' = "UPDATING_DNS"
              /\ \/ in_dns' = in_dns \cup addresses /\ UNCHANGED problems
                 \/ /\ UNCHANGED in_dns
                    /\ problems' = [problems EXCEPT ![b] = TRUE]
        /\ UNCHANGED <<open, changing, wanted, bad, answered, pinging, errors,
                       live, config, closing, at, outcome, dns>>

UpdateState(b) ==
    /\ Goto(b, "update_state", "idle")
    /\ Status(FALSE, problems[b])
    /\ config' = NoThread
    /\ problems' = [problems EXCEPT ![b] = FALSE]
    /\ UNCHANGED <<open, changing, relayVars, live, closing, at, outcome, dns>>

-----------------------------------------------------------------------------
(* The event loop and the world.                                             *)

\* A live tunnel is at its end: pkm_update_io closes its streams one by one
\* and yields after each.  The tick, which breaks idle tunnels, does so with
\* config_lock in its hands.
TunnelDies(r) ==
    /\ r \in Live
    /\ closing = 0
    /\ closing' = r
    /\ \/ UNCHANGED config
       \/ config = NoThread /\ config' = Loop
    /\ UNCHANGED <<open, changing, relayVars, live, status, pc, passVars, dns>>

\* Lines 543-567: whatever has become of the tunnel in between.
TunnelClosed ==
    /\ closing # 0
    /\ open' = open \ {closing}
    /\ changing' = changing \ {closing}
    /\ live' = (live + Modulus - 1) % Modulus
    /\ status' = "PROBLEMS"
    /\ closing' = 0
    /\ config' = IF config = Loop THEN NoThread ELSE config
    /\ UNCHANGED <<relayVars, pc, passVars, dns>>

\* Resolvers come and go.
Resolvers ==
    /\ dns' = ~dns
    /\ UNCHANGED <<open, changing, relayVars, live, status, config, closing,
                   pc, passVars>>

Proceed(b) ==
    \/ World(b) \/ DnsIsDown(b) \/ LookUp(b) \/ NewAddress(b) \/ Choose(b)
    \/ Reconnect(b) \/ Reconnected(b) \/ Dial(b) \/ Talk(b)
    \/ DisconnectUnused(b) \/ UpdateDns(b) \/ UpdateState(b)

Relock(b) == Connected(b) \/ NotConnected(b)

Next ==
    \/ \E b \in Blockers : \/ \E kind \in {"world", "tunnels"} : StartCheck(b, kind)
                           \/ Proceed(b) \/ Relock(b)
    \/ \E r \in Relays : LatePing(r) \/ TunnelDies(r)
    \/ TunnelClosed
    \/ Resolvers

Spec == Init /\ [][Next]_vars

\* Passes and the loop go on; config_lock, given up again and again, is got in
\* the end by the thread that waits for it and by the checks that ticks post.
Fairness ==
    /\ \A b \in Blockers :
          /\ WF_vars(Proceed(b))
          /\ SF_vars(Relock(b))
          /\ SF_vars(StartCheck(b, "world"))
    /\ WF_vars(TunnelClosed)

FairSpec == Spec /\ Fairness

-----------------------------------------------------------------------------
(* Properties.                                                               *)

\* A relay is marked as changing exactly while one blocker, and only one, is
\* connecting to it: pkm_reconnect_all skips relays that are changing, and the
\* loop's cleanup (pkc_reset_conn, "BUG! Attempt to reset conn mid-change!")
\* never meets one.
ChangingIsConnecting ==
    /\ changing = {at[b] : b \in {c \in Blockers : pc[c] \in Connecting}}
    /\ \A b, c \in Blockers :
          b # c /\ pc[b] \in Connecting /\ pc[c] \in Connecting => at[b] # at[c]

\* live_tunnels is the number of live tunnels or one less: a tunnel that
\* pkm_disconnect_unused closes while the loop is closing it is subtracted
\* twice, until the next recount; no tunnel is ever counted twice.
CountIsClose ==
    \E twice \in {0, 1} : (live + twice) % Modulus = Cardinality(Live)

\* The housekeeping never takes the last live tunnel down (pkmanager.c:1034,
\* "If we're about to go disconnecting all our live tunnels, abort."): it goes
\* only when the event loop finds it dead.
LastTunnelStays ==
    [][Live # {} /\ Live' = {} => closing # 0 /\ closing' = 0]_vars

\* As long as some relay accepts connections and resolvers answer, there is a
\* live tunnel again and again, whatever the other relays do: failures weigh
\* more and more against those that do not work (error_count), rejections are
\* forgotten with the next check of the world.
KeepsTrying == <>[]dns => []<>(Live # {})
=============================================================================
