---------------------------- MODULE PkManagerLocks ----------------------------
(***************************************************************************)
(* The three mutexes of struct pk_manager and the protocol by which the    *)
(* event loop hands them over (pkmanager.c 86-163).                        *)
(*                                                                         *)
(* The event loop thread holds loop_lock whenever libev runs, asleep in    *)
(* poll() included, and lets go of it only around hooks, connects and      *)
(* writes (pkm_yield_start ... pkm_yield_stop).  A blocker thread or an    *)
(* application thread that needs the loop to be idle calls pkm_block: it   *)
(* tries loop_lock and, failing that, takes intr_lock and wakes the loop   *)
(* with an async event whose handler trades the locks.  config_lock        *)
(* serialises reconfigurations; pkm_reconnect_all lets go of both locks    *)
(* while it connects.                                                      *)
(*                                                                         *)
(* A mutex is a variable naming its owner.  pthread_mutex_unlock does not  *)
(* check who calls it, so neither do the actions below: that only the      *)
(* owner ever unlocks is a result, not an assumption.                      *)
(***************************************************************************)
EXTENDS Naturals

CONSTANTS
    MainThread,   \* the thread in pkm_run
    Blockers,     \* the worker threads of pkb_start_blockers
    Apps,         \* application threads calling the public API
    NoThread,     \* "nobody"
    MaxJobs,      \* capacity of the job pile
    MaxTunnels,   \* tunnels a pass of the tick or of a reconnect may touch
    MaxAppCalls   \* how many calls each application thread makes

ASSUME ThreadsAreDistinct ==
    /\ MainThread \notin Blockers \cup Apps
    /\ Blockers \cap Apps = {}
    /\ NoThread \notin {MainThread} \cup Blockers \cup Apps

ASSUME BoundsAreNaturals ==
    MaxJobs \in Nat /\ MaxTunnels \in Nat /\ MaxAppCalls \in Nat

Others == Blockers \cup Apps
Threads == {MainThread} \cup Others

VARIABLES
    loop_lock, intr_lock, config_lock,  \* the owner of each mutex, or NoThread
    interrupt,  \* the interrupt async watcher is pending
    quit,       \* the quit async watcher is pending
    jobs,       \* CHECK_* jobs waiting in the pile
    pc,         \* where each thread is
    caller,     \* the function a blocker called pkm_block in, of this job
    todo,       \* tunnels a thread's pass over them may still touch
    calls       \* API calls an application thread may still make

\* What the operations on mutexes leave alone.
aside == <<interrupt, quit, jobs, caller, todo, calls>>

vars == <<loop_lock, intr_lock, config_lock, pc, aside>>

MainPc == {"start", "dispatch", "yielded",
           "icb_intr", "icb_loop", "icb_release",
           "tick_config", "tick_yielded", "tick_jobs", "tick_post",
           "stop_blockers", "stopped"}

OtherPc == {"idle", "checking", "pkm_block",
            "intr_lock", "intr_send", "intr_wait", "intr_unlock",
            "blocked", "connect_unblock", "connecting", "reconfig",
            "join", "exited"}

Callers == {"none", "pkm_reconnect_all", "pkm_disconnect_unused"}

TypeOK ==
    /\ loop_lock \in Threads \cup {NoThread}
    /\ intr_lock \in Threads \cup {NoThread}
    /\ config_lock \in Threads \cup {NoThread}
    /\ interrupt \in BOOLEAN
    /\ quit \in BOOLEAN
    /\ jobs \in 0..MaxJobs
    /\ pc \in [Threads -> MainPc \cup OtherPc]
    /\ pc[MainThread] \in MainPc
    /\ \A b \in Blockers : pc[b] \in OtherPc \ {"join"}
    /\ \A a \in Apps : pc[a] \in OtherPc \ {"checking", "connecting", "reconfig"}
    /\ caller \in [Blockers -> Callers]
    /\ todo \in [Threads -> 0..MaxTunnels]
    /\ calls \in [Apps -> 0..MaxAppCalls]

\* pkm_manager_init, then pkm_run up to line 1790: the blockers are started
\* before the loop takes its lock.
Init ==
    /\ loop_lock = NoThread
    /\ intr_lock = NoThread
    /\ config_lock = NoThread
    /\ interrupt = FALSE
    /\ quit = FALSE
    /\ jobs = 0
    /\ pc = [t \in Threads |-> IF t = MainThread THEN "start" ELSE "idle"]
    /\ caller = [b \in Blockers |-> "none"]
    /\ todo = [t \in Threads |-> 0]
    /\ calls = [a \in Apps |-> MaxAppCalls]

Goto(t, from, to) == pc[t] = from /\ pc' = [pc EXCEPT ![t] = to]

-----------------------------------------------------------------------------
(* The event loop thread.                                                    *)

\* pkm_run enters ev_loop with loop_lock held; a START_EV_LOOP hook that
\* returns 0 skips the loop altogether.
StartLoop ==
    /\ \/ /\ Goto(MainThread, "start", "dispatch")
          /\ loop_lock = NoThread
          /\ loop_lock' = MainThread
       \/ /\ Goto(MainThread, "start", "stop_blockers")
          /\ UNCHANGED loop_lock
    /\ UNCHANGED <<intr_lock, config_lock, aside>>

\* A callback (pkm_chunk_cb, pkm_connect_be, pkm_update_io) lets go of the loop.
YieldStart ==
    /\ Goto(MainThread, "dispatch", "yielded")
    /\ loop_lock' = NoThread
    /\ UNCHANGED <<intr_lock, config_lock, aside>>

\* Seeded bug: the loop takes its lock back without waiting for it.
YieldStopEager ==
    /\ Goto(MainThread, "yielded", "dispatch")
    /\ loop_lock' = MainThread
    /\ UNCHANGED <<intr_lock, config_lock, aside>>

YieldStop ==
    /\ Goto(MainThread, "yielded", "dispatch")
    /\ loop_lock = NoThread
    /\ loop_lock' = MainThread
    /\ UNCHANGED <<intr_lock, config_lock, aside>>

\* pkm_interrupt_cb, one action for each operation on a mutex.
InterruptCb ==
    /\ interrupt
    /\ interrupt' = FALSE
    /\ Goto(MainThread, "dispatch", "icb_intr")
    /\ loop_lock' = NoThread
    /\ UNCHANGED <<intr_lock, config_lock, quit, jobs, caller, todo, calls>>

\* Seeded bug: the interrupt is handled without intr_lock.
IcbTakeIntrSkipped ==
    /\ Goto(MainThread, "icb_intr", "icb_loop")
    /\ UNCHANGED <<loop_lock, intr_lock, config_lock, aside>>

IcbTakeIntr ==
    /\ Goto(MainThread, "icb_intr", "icb_loop")
    /\ intr_lock = NoThread
    /\ intr_lock' = MainThread
    /\ UNCHANGED <<loop_lock, config_lock, aside>>

IcbTakeLoop ==
    /\ Goto(MainThread, "icb_loop", "icb_release")
    /\ loop_lock = NoThread
    /\ loop_lock' = MainThread
    /\ UNCHANGED <<intr_lock, config_lock, aside>>

IcbRelease ==
    /\ Goto(MainThread, "icb_release", "dispatch")
    /\ intr_lock' = NoThread
    /\ UNCHANGED <<loop_lock, config_lock, aside>>

\* pkm_tick_cb looks at the tunnels only if it gets config_lock at once.
TickCb ==
    /\ \/ /\ config_lock = NoThread
          /\ config_lock' = MainThread
          /\ todo' = [todo EXCEPT ![MainThread] = MaxTunnels]
          /\ Goto(MainThread, "dispatch", "tick_config")
       \/ /\ config_lock # NoThread
          /\ UNCHANGED <<config_lock, todo>>
          /\ Goto(MainThread, "dispatch", "tick_jobs")
    /\ UNCHANGED <<loop_lock, intr_lock, interrupt, quit, jobs, caller, calls>>

\* Shutting down an idle tunnel goes through pkm_update_io, which yields:
\* the loop is released and retaken with config_lock held throughout.
TickYieldStart ==
    /\ todo[MainThread] > 0
    /\ todo' = [todo EXCEPT ![MainThread] = @ - 1]
    /\ Goto(MainThread, "tick_config", "tick_yielded")
    /\ loop_lock' = NoThread
    /\ UNCHANGED <<intr_lock, config_lock, interrupt, quit, jobs, caller, calls>>

TickYieldStop ==
    /\ Goto(MainThread, "tick_yielded", "tick_config")
    /\ loop_lock = NoThread
    /\ loop_lock' = MainThread
    /\ UNCHANGED <<intr_lock, config_lock, aside>>

TickReconfigStop ==
    /\ Goto(MainThread, "tick_config", "tick_jobs")
    /\ config_lock' = NoThread
    /\ todo' = [todo EXCEPT ![MainThread] = 0]
    /\ UNCHANGED <<loop_lock, intr_lock, interrupt, quit, jobs, caller, calls>>

TickRelease ==
    /\ Goto(MainThread, "tick_jobs", "tick_post")
    /\ loop_lock' = NoThread
    /\ UNCHANGED <<intr_lock, config_lock, aside>>

\* pkb_add_job refuses the job when the pile is full; the tick does not look.
TickPost ==
    /\ Goto(MainThread, "tick_post", "yielded")
    /\ jobs' = IF jobs < MaxJobs THEN jobs + 1 ELSE jobs
    /\ UNCHANGED <<loop_lock, intr_lock, config_lock, interrupt, quit, caller, todo, calls>>

\* pkm_quit_cb ends ev_loop, and pkm_run unlocks and stops the blockers.
QuitCb ==
    /\ quit
    /\ quit' = FALSE
    /\ Goto(MainThread, "dispatch", "stop_blockers")
    /\ loop_lock' = NoThread
    /\ UNCHANGED <<intr_lock, config_lock, interrupt, jobs, caller, todo, calls>>

\* pkb_stop_blockers joins every worker.
StopBlockers ==
    /\ \A b \in Blockers : pc[b] = "exited"
    /\ Goto(MainThread, "stop_blockers", "stopped")
    /\ UNCHANGED <<loop_lock, intr_lock, config_lock, aside>>

-----------------------------------------------------------------------------
(* pkm_block, pkm_interrupt and pkm_unblock, on any other thread.            *)

BlockTry(t) ==
    /\ \/ /\ loop_lock = NoThread
          /\ loop_lock' = t
          /\ Goto(t, "pkm_block", "blocked")
       \/ /\ loop_lock # NoThread
          /\ UNCHANGED loop_lock
          /\ Goto(t, "pkm_block", "intr_lock")
    /\ UNCHANGED <<intr_lock, config_lock, aside>>

InterruptLock(t) ==
    /\ Goto(t, "intr_lock", "intr_send")
    /\ intr_lock = NoThread
    /\ intr_lock' = t
    /\ UNCHANGED <<loop_lock, config_lock, aside>>

\* Seeded bug: the loop is not interrupted.
InterruptSendLost(t) ==
    /\ Goto(t, "intr_send", "intr_wait")
    /\ UNCHANGED <<loop_lock, intr_lock, config_lock, aside>>

InterruptSend(t) ==
    /\ Goto(t, "intr_send", "intr_wait")
    /\ interrupt' = TRUE
    /\ UNCHANGED <<loop_lock, intr_lock, config_lock, quit, jobs, caller, todo, calls>>

InterruptTake(t) ==
    /\ Goto(t, "intr_wait", "intr_unlock")
    /\ loop_lock = NoThread
    /\ loop_lock' = t
    /\ UNCHANGED <<intr_lock, config_lock, aside>>

InterruptUnlock(t) ==
    /\ Goto(t, "intr_unlock", "blocked")
    /\ intr_lock' = NoThread
    /\ UNCHANGED <<loop_lock, config_lock, aside>>

\* A blocker goes on with its housekeeping, an API call returns.
Unblock(t) ==
    /\ Goto(t, "blocked", IF t \in Blockers THEN "checking" ELSE "idle")
    /\ loop_lock' = NoThread
    /\ todo' = [todo EXCEPT ![t] = 0]
    /\ UNCHANGED <<intr_lock, config_lock, interrupt, quit, jobs, caller, calls>>

-----------------------------------------------------------------------------
(* The blocker threads: pkb_run_blocker and the housekeeping it calls.       *)

\* A CHECK_* job is dropped when another reconfiguration is under way.
GetCheckJob(b) ==
    /\ jobs > 0
    /\ jobs' = jobs - 1
    /\ \/ /\ config_lock = NoThread
          /\ config_lock' = b
          /\ Goto(b, "idle", "checking")
       \/ /\ config_lock # NoThread
          /\ pc[b] = "idle"
          /\ UNCHANGED <<config_lock, pc>>
    /\ UNCHANGED <<loop_lock, intr_lock, interrupt, quit, caller, todo, calls>>

\* pkb_check_tunnels: reconnect, then drop what is unused.
EnterReconnectAll(b) ==
    /\ caller[b] = "none"
    /\ Goto(b, "checking", "pkm_block")
    /\ caller' = [caller EXCEPT ![b] = "pkm_reconnect_all"]
    /\ todo' = [todo EXCEPT ![b] = MaxTunnels]
    /\ UNCHANGED <<loop_lock, intr_lock, config_lock, interrupt, quit, jobs, calls>>

EnterDisconnectUnused(b) ==
    /\ caller[b] = "pkm_reconnect_all"
    /\ Goto(b, "checking", "pkm_block")
    /\ caller' = [caller EXCEPT ![b] = "pkm_disconnect_unused"]
    /\ UNCHANGED <<loop_lock, intr_lock, config_lock, interrupt, quit, jobs,
                   todo, calls>>

\* Seeded bug: config_lock is never given back.
ReconfigStopForgotten(b) ==
    /\ Goto(b, "checking", "idle")
    /\ UNCHANGED <<loop_lock, intr_lock, config_lock, aside>>

ReconfigStop(b) ==
    /\ Goto(b, "checking", "idle")
    /\ config_lock' = NoThread
    /\ caller' = [caller EXCEPT ![b] = "none"]
    /\ UNCHANGED <<loop_lock, intr_lock, interrupt, quit, jobs, todo, calls>>

\* pkm_reconnect_all lets go of both locks while pk_connect_ai runs ...
StartConnect(b) ==
    /\ caller[b] = "pkm_reconnect_all"
    /\ todo[b] > 0
    /\ todo' = [todo EXCEPT ![b] = @ - 1]
    /\ Goto(b, "blocked", "connect_unblock")
    /\ config_lock' = NoThread
    /\ UNCHANGED <<loop_lock, intr_lock, interrupt, quit, jobs, caller, calls>>

\* Seeded bug: the connecting thread keeps the loop blocked.
ConnectUnblockForgotten(b) ==
    /\ Goto(b, "connect_unblock", "connecting")
    /\ UNCHANGED <<loop_lock, intr_lock, config_lock, aside>>

ConnectUnblock(b) ==
    /\ Goto(b, "connect_unblock", "connecting")
    /\ loop_lock' = NoThread
    /\ UNCHANGED <<intr_lock, config_lock, aside>>

ConnectDone(b) ==
    /\ Goto(b, "connecting", "reconfig")
    /\ UNCHANGED <<loop_lock, intr_lock, config_lock, aside>>

\* ... and takes them back, config_lock first.
ReconfigBlockingStart(b) ==
    /\ Goto(b, "reconfig", "pkm_block")
    /\ config_lock = NoThread
    /\ config_lock' = b
    /\ UNCHANGED <<loop_lock, intr_lock, aside>>

\* PK_QUIT: the worker returns.
BlockerQuit(b) ==
    /\ pc[MainThread] = "stop_blockers"
    /\ Goto(b, "idle", "exited")
    /\ UNCHANGED <<loop_lock, intr_lock, config_lock, aside>>

-----------------------------------------------------------------------------
(* Application threads.                                                      *)

SetTimerEnabled(a) ==
    /\ calls[a] > 0
    /\ calls' = [calls EXCEPT ![a] = @ - 1]
    /\ Goto(a, "idle", "pkm_block")
    /\ UNCHANGED <<loop_lock, intr_lock, config_lock, interrupt, quit, jobs,
                   caller, todo>>

\* pkm_stop_thread: wake the loop with the quit event and join its thread.
StopThread(a) ==
    /\ calls[a] > 0
    /\ calls' = [calls EXCEPT ![a] = @ - 1]
    /\ quit' = TRUE
    /\ Goto(a, "idle", "join")
    /\ UNCHANGED <<loop_lock, intr_lock, config_lock, interrupt, jobs, caller, todo>>

Joined(a) ==
    /\ pc[MainThread] = "stopped"
    /\ Goto(a, "join", "exited")
    /\ UNCHANGED <<loop_lock, intr_lock, config_lock, aside>>

-----------------------------------------------------------------------------
MainStep ==
    \/ StartLoop \/ YieldStart \/ YieldStop
    \/ InterruptCb \/ IcbTakeIntr \/ IcbTakeLoop \/ IcbRelease
    \/ TickCb \/ TickYieldStart \/ TickYieldStop \/ TickReconfigStop
    \/ TickRelease \/ TickPost
    \/ QuitCb \/ StopBlockers

BlockStep(t) ==
    \/ BlockTry(t) \/ InterruptLock(t) \/ InterruptSend(t)
    \/ InterruptTake(t) \/ InterruptUnlock(t) \/ Unblock(t)

BlockerStep(b) ==
    \/ GetCheckJob(b) \/ EnterReconnectAll(b) \/ EnterDisconnectUnused(b)
    \/ ReconfigStop(b) \/ StartConnect(b) \/ ConnectUnblock(b)
    \/ ConnectDone(b) \/ ReconfigBlockingStart(b) \/ BlockerQuit(b)

AppStep(a) == SetTimerEnabled(a) \/ StopThread(a) \/ Joined(a)

\* The manager is down and no application thread is inside a call: the
\* program may stop here for good.
Finished ==
    /\ pc[MainThread] = "stopped"
    /\ \A a \in Apps : pc[a] \in {"idle", "exited"}
    /\ UNCHANGED vars

Next ==
    \/ MainStep
    \/ \E t \in Others : BlockStep(t)
    \/ \E b \in Blockers : BlockerStep(b)
    \/ \E a \in Apps : AppStep(a)
    \/ Finished

Spec == Init /\ [][Next]_vars

(***************************************************************************)
(* Every thread keeps running.  libev handles each pending async event     *)
(* before it polls again, hence strong fairness of the two async handlers  *)
(* against the other callbacks.  intr_lock and config_lock are waited for  *)
(* in pthread_mutex_lock by threads that may have to compete again and     *)
(* again, and are assumed not to starve (strong fairness); loop_lock is    *)
(* NOT: a thread waiting for it gets it only if it stays free, which is    *)
(* what the interrupt protocol is for.                                     *)
(***************************************************************************)
Fairness ==
    /\ WF_vars(MainStep)
    /\ SF_vars(InterruptCb)
    /\ SF_vars(QuitCb)
    /\ \A t \in Others : WF_vars(BlockStep(t)) /\ SF_vars(InterruptLock(t))
    /\ \A b \in Blockers : WF_vars(BlockerStep(b)) /\ SF_vars(ReconfigBlockingStart(b))
    /\ \A a \in Apps : WF_vars(Joined(a))

FairSpec == Spec /\ Fairness

-----------------------------------------------------------------------------
(* Where a thread believes it holds a lock, read off the code between each   *)
(* lock and unlock.                                                          *)

AtLoop(t) ==
    pc[t] \in IF t = MainThread
             THEN {"dispatch", "icb_release", "tick_config", "tick_jobs"}
             ELSE {"intr_unlock", "blocked", "connect_unblock"}

AtIntr(t) ==
    pc[t] \in IF t = MainThread
             THEN {"icb_loop", "icb_release"}
             ELSE {"intr_send", "intr_wait", "intr_unlock"}

AtConfig(t) ==
    \/ t = MainThread /\ pc[t] \in {"tick_config", "tick_yielded"}
    \/ /\ t \in Blockers
       /\ pc[t] \in {"checking", "pkm_block", "intr_lock", "intr_send",
                     "intr_wait", "intr_unlock", "blocked"}

\* The owner of each lock is the thread that believes it holds it.
LocksMatchPc ==
    \A t \in Threads :
        /\ loop_lock = t <=> AtLoop(t)
        /\ intr_lock = t <=> AtIntr(t)
        /\ config_lock = t <=> AtConfig(t)

\* While any thread is between pkm_block and pkm_unblock, no other thread is
\* and the event loop is idle (the comment at pkmanager.c 105-108): tunnels
\* and watchers are never touched by two threads at once.
LoopIdleWhileBlocked ==
    \A t, u \in Threads : AtLoop(t) /\ AtLoop(u) => t = u

\* pkm_reconnect_all and pkm_disconnect_unused run under config_lock, held by
\* the thread that runs them, although the asserts at 819 and 971 only see
\* that somebody holds it; so two reconfigurations never overlap, the idle
\* scan of the tick included.
OneReconfiguration ==
    /\ \A t, u \in Threads : AtConfig(t) /\ AtConfig(u) => t = u
    /\ \A b \in Blockers : pc[b] = "blocked" => config_lock = b

\* The threads that must move before thread t can.
WaitSet(t) ==
    CASE pc[t] \in {"yielded", "icb_loop", "tick_yielded", "intr_wait"}
            -> {loop_lock} \ {NoThread}
      [] pc[t] \in {"icb_intr", "intr_lock"} -> {intr_lock} \ {NoThread}
      [] pc[t] = "reconfig" -> {config_lock} \ {NoThread}
      [] pc[t] = "stop_blockers" -> {b \in Blockers : pc[b] # "exited"}
      [] pc[t] = "join" -> {MainThread}
      [] OTHER -> {}

\* No set of threads waits for one another: the order in which 907/908 and
\* 929/930 retake the locks ("otherwise we can end up deadlocked"), with the
\* tick yielding under config_lock and the shutdown joining the workers.
NoWaitCycle ==
    \A S \in SUBSET Threads :
        S # {} => \E t \in S : WaitSet(t) \cap S = {}

\* "The event loop will not resume until the lock has been handed over to,
\* and returned by, the caller": the handler never goes back to libev while
\* the thread that woke it still waits for loop_lock.
HandoverKept ==
    [][ pc[MainThread] \in {"icb_intr", "icb_loop", "icb_release"}
        /\ pc'[MainThread] = "dispatch"
          => \A t \in Others : pc[t] # "intr_wait" ]_vars

\* pkm_block returns, even if the loop is never idle of its own accord and
\* loop_lock is never granted in turn.
BlockServed ==
    \A t \in Others : pc[t] = "pkm_block" ~> pc[t] = "blocked"

\* pkm_stop_thread returns: the loop ends and every worker is joined,
\* wherever the workers were when the request came.
StopServed == \A a \in Apps : pc[a] = "join" ~> pc[a] = "exited"

=============================================================================
