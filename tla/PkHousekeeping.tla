---------------------------- MODULE PkHousekeeping -----------------------------
(***************************************************************************)
(* When housekeeping happens (pkmanager.c 1044-1177, 556-568), and the     *)
(* watchdog that looks whether it does (pkwatchdog.c).                     *)
(*                                                                         *)
(* Ticks come from the timer, from dying tunnels and from the application. *)
(* A tick sets the timer to an interval that grows, closes tunnels that    *)
(* have not answered a ping, pings idle ones and posts a job for the       *)
(* blockers.                                                               *)
(*                                                                         *)
(* Time passes in units; the loop and its watchers take none.  Points in   *)
(* time are kept as ages, each up to where the code stops comparing.       *)
(***************************************************************************)
EXTENDS Integers, FiniteSets

CONSTANTS
    Tunnels,      \* relays the program connects to
    LeastMin,     \* PK_HOUSEKEEPING_INTERVAL_MIN
    IntervalMin,  \* housekeeping_interval_min
    IntervalMax,  \* housekeeping_interval_max
    IdleMax,      \* PK_HOUSEKEEPING_INTERVAL_MAX_MIN
    World,        \* check_world_interval
    Fudge,        \* interval_fudge_factor
    AppTicks,     \* the application calls pagekite_tick
    Outcomes      \* the states a check of the tunnels may end in

Statuses == {"STARTUP", "FLYING", "PROBLEMS", "REJECTED", "NO_NETWORK"}

\* The setters keep min and max above PK_HOUSEKEEPING_INTERVAL_MIN and _MAX_MIN; the
\* fudge factor is less than twice the former.
ASSUME Intervals ==
    /\ IsFiniteSet(Tunnels)
    /\ LeastMin \in Nat \ {0} /\ IntervalMin \in Nat /\ IntervalMin >= LeastMin
    /\ IdleMax \in Nat /\ IdleMax >= 2*LeastMin
    /\ IntervalMax \in Nat /\ IntervalMax >= IdleMax
    /\ World \in Nat /\ Fudge \in 0..(2*LeastMin - 1)
    /\ AppTicks \in BOOLEAN
    /\ Outcomes \subseteq Statuses

VARIABLES
    run,       \* the loop: running, stuck in a callback, stopping (it has
               \* ended, the blockers have not), stopped, dumped (a core)
    status,    \* pkm->status
    enable,    \* enable_timer
    timer,     \* when the timer fires (Off if stopped), and its repeat
    next,      \* pkm->next_tick
    tick,      \* the tick watcher is pending
    world,     \* age of last_world_update
    job,       \* the jobs that ticks have posted
    busy,      \* the job a blocker works on; it has config_lock
    rest,      \* age of last_check_world and last_check_tunnels
    tun,       \* each tunnel
    watched,   \* enable_watchdog, set before the program starts
    dog        \* the watchdog: its sleep, and whether it was petted

clock == <<timer, next, enable>>
work == <<job, busy, rest, world>>
houseVars == <<run, status, clock, tick, work, tun, watched, dog>>

Off == -1

Jobs == {"world", "tunnels"}
NoJob == "none"

Cap(n, m) == IF n > m THEN m ELSE n

AgeCap == (IF IdleMax > 4*IntervalMin THEN IdleMax ELSE 4*IntervalMin) + 1

\* A tunnel is up, silent (its relay is gone without a word) or down.  age is
\* that of conn.activity, and pinged what it was at the last ping since.
Down == [st |-> "down", age |-> 0, pinged |-> 0]
Up == [Down EXCEPT !.st = "up"]

Live == {t \in Tunnels : tun[t].st # "down"}

HouseTypeOK ==
    /\ run \in {"running", "stuck", "stopping", "stopped", "dumped"}
    /\ status \in Statuses
    /\ enable \in BOOLEAN
    /\ timer \in [at : Nat \cup {Off}, repeat : Nat]
    /\ next \in Nat
    /\ tick \in BOOLEAN
    /\ world \in (-Fudge)..(World + 1)
    /\ job \subseteq Jobs
    /\ busy \in Jobs \cup {NoJob}
    /\ rest \in [Jobs -> 0..IntervalMin]
    /\ tun \in [Tunnels -> [st : {"down", "up", "silent"}, age : 0..AgeCap,
                            pinged : 0..(4*IntervalMin + 1)]]
    /\ watched \in BOOLEAN
    /\ dog \in [left : 0..(2*IntervalMax), pet : BOOLEAN, now : BOOLEAN]

\* pkm_manager_init, pagekite_init's tick, pkw_start_watchdog.
HouseInit ==
    /\ run = "running"
    /\ status = "STARTUP"
    /\ enable = TRUE
    /\ timer = [at |-> 0, repeat |-> 1 + IntervalMin]
    /\ next = 1 + IntervalMin
    /\ tick = TRUE
    /\ world = World + 1
    /\ job = {}
    /\ busy = NoJob
    /\ rest = [j \in Jobs |-> IntervalMin]
    /\ tun = [t \in Tunnels |-> Down]
    /\ watched \in BOOLEAN
    /\ dog = [left |-> IF watched THEN 2*IntervalMax ELSE 0, pet |-> FALSE, now |-> FALSE]

-----------------------------------------------------------------------------
\* What is due at once is done before a second is over.
Settled ==
    /\ run = "running" => ~tick /\ timer.at # 0
    /\ job # {} => busy # NoJob

-----------------------------------------------------------------------------
(* The tick.                                                                 *)

Repeating == enable \/ status \notin {"NO_NETWORK", "REJECTED", "FLYING"}

MaxTick ==
    CASE status = "REJECTED" -> IntervalMax + Fudge + World
      [] status = "NO_NETWORK" -> (LeastMin + IdleMax) \div 2
      [] OTHER -> IntervalMax + Fudge

\* "We slow down exponentially by default..."
Slowed == Cap(next + (next \div 3), MaxTick)

\* Seeded bug: a tunnel is not closed while it is idle.
UnansweredNever(t) == FALSE

Unanswered(t) == tun[t].st # "down" /\ tun[t].pinged > 4*IntervalMin
Idle(t) == tun[t].st # "down" /\ ~Unanswered(t) /\ tun[t].age > IdleMax

Pinged(t) == [tun[t] EXCEPT !.pinged = Cap(tun[t].age, 4*IntervalMin + 1)]

\* Seeded bug: the watchdog is not petted.
PettedNever == dog

\* pkw_pet_watchdog: the ticker becomes the time.  pet tells whether it differs
\* from what the watchdog has seen, now whether it is the present time.
Petted ==
    IF watched THEN [dog EXCEPT !.pet = @ \/ ~dog.now, !.now = TRUE] ELSE dog

\* A tunnel found dead is shut down by pkm_update_io, which ticks again; the
\* interval it sets is overwritten by the tick's own.
TickCb ==
    /\ run = "running" /\ tick
    /\ dog' = Petted
    /\ LET look == busy = NoJob
           dead == IF look THEN {t \in Tunnels : Unanswered(t)} ELSE {}
           idle == IF look THEN {t \in Tunnels : Idle(t)} ELSE {}
           due  == world > World
       IN  /\ timer' = IF Repeating THEN [at |-> next, repeat |-> next]
                                    ELSE [timer EXCEPT !.at = Off]
           /\ next' = IF due \/ idle # {} \/ ~Repeating THEN 1 + IntervalMin ELSE Slowed
           /\ tun' = [t \in Tunnels |-> IF t \in dead THEN Down
                                        ELSE IF t \in idle THEN Pinged(t)
                                        ELSE tun[t]]
           /\ status' = IF dead # {} THEN "PROBLEMS" ELSE status
           /\ tick' = (dead # {})
           /\ job' = job \cup {IF due THEN "world" ELSE "tunnels"}
    /\ UNCHANGED <<run, enable, busy, rest, world, watched>>

\* pkm_timer_cb; libev starts a repeating timer again.
TimerFires ==
    /\ run = "running" /\ timer.at = 0
    /\ timer' = [timer EXCEPT !.at = timer.repeat]
    /\ tick' = TRUE
    /\ UNCHANGED <<run, status, next, enable, work, tun, dog, watched>>

\* pagekite_tick, when there is nothing else to do.
AppTick ==
    /\ AppTicks /\ run = "running" /\ Settled
    /\ tick' = TRUE
    /\ UNCHANGED <<run, status, clock, work, tun, dog, watched>>

\* pagekite_enable_tick_timer: an active timer is not started again, and keeps
\* its place among libev's timers.
SetTimerEnabled(on) ==
    /\ AppTicks /\ run = "running" /\ Settled
    /\ enable' = on
    /\ IF on
       THEN /\ timer' = [at |-> IF timer.at = Off THEN 0 ELSE timer.at,
                         repeat |-> 1 + IntervalMin]
            /\ next' = 1 + IntervalMin
       ELSE /\ timer' = [timer EXCEPT !.at = Off]
            /\ next' = next
    /\ UNCHANGED <<run, status, tick, work, tun, dog, watched>>

-----------------------------------------------------------------------------
(* Tunnels.                                                                  *)

\* Data from the relay, a PONG among it.
Activity(t) ==
    /\ run = "running" /\ tun[t].st = "up"
    /\ tun' = [tun EXCEPT ![t] = Up]
    /\ UNCHANGED <<run, status, clock, tick, work, dog, watched>>

GoesSilent(t) ==
    /\ run = "running" /\ tun[t].st = "up"
    /\ tun' = [tun EXCEPT ![t].st = "silent"]
    /\ UNCHANGED <<run, status, clock, tick, work, dog, watched>>

\* The relay closes the connection: pkm_update_io's cleanup.
TunnelCloses(t) ==
    /\ run = "running" /\ tun[t].st = "up"
    /\ tun' = [tun EXCEPT ![t] = Down]
    /\ status' = "PROBLEMS"
    /\ next' = IF Live = {t} THEN 1 + IntervalMin ELSE next
    /\ tick' = TRUE
    /\ UNCHANGED <<run, timer, enable, work, dog, watched>>

-----------------------------------------------------------------------------
(* The blockers.                                                             *)

\* pkb_run_blocker drops a job when another has config_lock, or when the last of
\* its kind was less than IntervalMin ago.
BlockerTakes(j) ==
    /\ j \in job /\ run \notin {"stopped", "dumped"}
    /\ job' = job \ {j}
    /\ busy' = IF busy = NoJob /\ rest[j] >= IntervalMin THEN j ELSE busy
    /\ UNCHANGED <<run, status, clock, tick, rest, world, tun, dog, watched>>

\* pkb_check_world, which does nothing without a network, and pkb_check_tunnels,
\* which calls it when relays are new.  Some tunnels are connected, or none;
\* pkb_update_state leaves a rejected program rejected unless it flies.
BlockerEnds(ups, s, looked) ==
    /\ busy # NoJob /\ run # "dumped"
    /\ ups \subseteq Tunnels \ Live
    /\ s = "FLYING" => Live \cup ups # {}
    /\ status = "REJECTED" => s \in {"REJECTED", "FLYING"}
    /\ s \in Outcomes
    /\ busy = "world" /\ status # "NO_NETWORK" => looked
    /\ busy' = NoJob
    /\ rest' = [j \in Jobs |-> IF busy \in {j, "world"} THEN 0 ELSE rest[j]]
    /\ world' = IF looked THEN -Fudge ELSE world
    /\ tun' = [t \in Tunnels |-> IF t \in ups THEN Up ELSE tun[t]]
    /\ status' = s
    /\ UNCHANGED <<run, clock, tick, job, dog, watched>>

-----------------------------------------------------------------------------
(* Starting, stopping, hanging; the watchdog and the clock.                  *)

LoopHangs ==
    /\ run = "running"
    /\ run' = "stuck"
    /\ UNCHANGED <<status, clock, tick, work, tun, dog, watched>>

LoopEnds ==
    /\ run = "running"
    /\ run' = "stopping"
    /\ UNCHANGED <<status, clock, tick, work, tun, dog, watched>>

\* The blockers are joined; pkw_stop_watchdog.
Stop ==
    /\ run = "stopping" /\ busy = NoJob
    /\ run' = "stopped"
    /\ UNCHANGED <<status, clock, tick, work, tun, dog, watched>>

\* Seeded bug: a ticker that was seen to stand still is forgotten.
LookCalm ==
    /\ dog' = [dog EXCEPT !.left = 2*IntervalMax, !.pet = FALSE]
    /\ run' = run

\* pkw_run_watchdog, at the end of its 2*IntervalMax seconds of sleep.
Look ==
    IF dog.pet
    THEN /\ dog' = [dog EXCEPT !.left = 2*IntervalMax, !.pet = FALSE]
         /\ run' = run
    ELSE run' = "dumped" /\ dog' = dog

\* A negative ticker ends the watchdog within a second.
WatchdogLooks ==
    /\ watched /\ run \in {"running", "stuck", "stopping"}
    /\ Settled /\ dog.left = 0
    /\ Look
    /\ UNCHANGED <<status, clock, tick, work, tun, watched>>

Older(t) ==
    IF tun[t].st = "down" THEN Down
    ELSE [tun[t] EXCEPT !.age = Cap(@ + 1, AgeCap)]

TimePasses ==
    /\ run \in {"running", "stuck", "stopping"}
    /\ Settled /\ (watched => dog.left > 0)
    /\ timer' = IF timer.at > 0 THEN [timer EXCEPT !.at = @ - 1] ELSE timer
    /\ world' = Cap(world + 1, World + 1)
    /\ rest' = [j \in Jobs |-> Cap(rest[j] + 1, IntervalMin)]
    /\ tun' = [t \in Tunnels |-> Older(t)]
    /\ dog' = [dog EXCEPT !.left = IF watched THEN @ - 1 ELSE 0, !.now = FALSE]
    /\ UNCHANGED <<run, status, next, enable, tick, job, busy, watched>>

TicksGoOn ==
    \/ TickCb
    \/ TimerFires

Environment ==
    \/ AppTick
    \/ \E on \in BOOLEAN : SetTimerEnabled(on)
    \/ \E t \in Tunnels : Activity(t) \/ GoesSilent(t) \/ TunnelCloses(t)
    \/ LoopHangs
    \/ LoopEnds

BlockerEndsSomehow ==
    \E ups \in SUBSET Tunnels, s \in Statuses, looked \in BOOLEAN :
        BlockerEnds(ups, s, looked)

HouseNext ==
    \/ TicksGoOn
    \/ Environment
    \/ \E j \in Jobs : BlockerTakes(j)
    \/ BlockerEndsSomehow
    \/ Stop
    \/ WatchdogLooks
    \/ TimePasses

\* The clock, the loop, the blockers and the watchdog go on; the application does
\* not tick for ever within a second.
HouseFairness ==
    /\ WF_houseVars(TicksGoOn)
    /\ \A j \in Jobs : WF_houseVars(BlockerTakes(j))
    /\ WF_houseVars(BlockerEndsSomehow)
    /\ WF_houseVars(WatchdogLooks)
    /\ SF_houseVars(TimePasses)

HouseSpec == HouseInit /\ [][HouseNext]_houseVars /\ HouseFairness

-----------------------------------------------------------------------------
\* The watchdog "checks if the main pagekite thread has locked up"
\* (pagekite.h:469): it does not dump a program whose loop goes round, even when
\* ticks have slowed down, unless the timer is off.
BarksAtTheStuck == [][run' = "dumped" => run # "running" \/ timer.at = Off]_houseVars

\* A loop that hangs is found out.
LockUpFound == watched /\ run = "stuck" ~> run = "dumped"

\* A relay that is gone without a word is noticed, if the timer is left on.
SilentTunnelShut ==
    <>[]enable =>
       \A t \in Tunnels :
          tun[t].st = "silent" ~> tun[t].st = "down" \/ run # "running"

=============================================================================
