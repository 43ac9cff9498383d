------------------------------- MODULE PkEvents -------------------------------
(***************************************************************************)
(* The event queue between the library's threads and the application       *)
(* (pkhooks.c 86-360), the mask letting every event through.               *)
(*                                                                         *)
(* A slot of the queue is a struct pke_event.  Posting and awaiting hold   *)
(* the queue's mutex and are single steps, but for two waits that release  *)
(* it.  pke_post_response and pke_cancel_all_events take no lock: they may *)
(* come between a post and the poster's wait, and the latter tests a slot  *)
(* in one step and claims it in another.                                   *)
(***************************************************************************)
EXTENDS Naturals, FiniteSets

CONSTANTS
    Main,       \* the thread that runs the event loop
    Blockers,   \* the blocker threads
    Consumers,  \* application threads in the loop of Event_API.md
    Nobody,     \* neither
    MaxSlots,   \* slots, the reserved slot 0 left out
    MaxTime,    \* bound on pk_time()
    MaxEvents   \* bound on the events posted

Threads == {Main} \cup Blockers
Slots == 1..MaxSlots

ASSUME ThreadsAreDistinct ==
    /\ Main \notin Blockers
    /\ Nobody \notin Threads
    /\ IsFiniteSet(Blockers)
    /\ IsFiniteSet(Consumers)

\* pke_init_events makes 35 of them (three dozen, less slot 0), for at most
\* MAX_BLOCKING_THREADS blockers, the loop and the few threads an application
\* has for events: each holds one at most.
ASSUME EnoughSlots == MaxSlots >= Cardinality(Threads) + Cardinality(Consumers)

ASSUME EventBounds ==
    /\ MaxSlots \in Nat \ {0}
    /\ MaxTime \in Nat \ {0}
    /\ MaxEvents \in Nat

VARIABLES
    slots,    \* the events
    lock,     \* holder of pke->lock across steps, or Nobody
    now,      \* pk_time()
    serial,   \* events posted so far; an event is known by its number
    tpc,      \* where each library thread is
    mine,     \* the slot of its blocking event
    number,   \* and that event's number
    answer,   \* the number of the event its answer was given to, 0 for none
    main,     \* pkm_run's phase
    scan,     \* the slot pke_cancel_all_events looks at
    cpc,      \* where each consumer is
    held,     \* the slot it was given
    took      \* and the number of the event it saw there

tvars == <<tpc, mine, number, answer>>
cvars == <<cpc, held, took>>
vars == <<slots, lock, now, serial, tvars, main, scan, cvars>>

\* PK_EV_IS_BLOCKING is set on requests alone.
Kinds == {"none", "log", "request", "shutdown"}

EmptySlot ==
    [posted |-> 0, kind |-> "none", busy |-> FALSE, from |-> Nobody, id |-> 0]

TypeOK ==
    /\ slots \in [Slots -> [posted : 0..MaxTime, kind : Kinds, busy : BOOLEAN,
                            from : Threads \cup {Nobody}, id : 0..MaxEvents]]
    /\ \A i \in Slots : slots[i].posted = 0 => ~slots[i].busy \/ main # "running"
    /\ lock \in Threads \cup {Nobody}
    /\ now \in 1..MaxTime
    /\ serial \in 0..MaxEvents
    /\ tpc \in [Threads -> {"idle", "filled", "waiting", "released", "back", "exited"}]
    /\ mine \in [Threads -> Slots]
    /\ number \in [Threads -> 0..MaxEvents]
    /\ answer \in [Threads -> 0..MaxEvents]
    /\ main \in {"running", "testing", "claiming", "joining", "stopping",
                 "stopped", "aborted"}
    /\ scan \in 1..(MaxSlots + 1)
    /\ cpc \in [Consumers -> {"look", "gap", "wait", "hold", "done"}]
    /\ held \in [Consumers -> Slots]
    /\ took \in [Consumers -> 0..MaxEvents]

Init ==
    /\ slots = [i \in Slots |-> EmptySlot]
    /\ lock = Nobody
    /\ now \in 1..MaxTime
    /\ serial = 0
    /\ tpc = [t \in Threads |-> "idle"]
    /\ mine = [t \in Threads |-> 1]
    /\ number = [t \in Threads |-> 0]
    /\ answer = [t \in Threads |-> 0]
    /\ main = "running"
    /\ scan = 1
    /\ \E loops \in SUBSET Consumers \ {{}} :    \* what the application has of them
          cpc = [c \in Consumers |-> IF c \in loops THEN "look" ELSE "done"]
    /\ held = [c \in Consumers |-> 1]
    /\ took = [c \in Consumers |-> 0]

Running == main # "aborted"

-----------------------------------------------------------------------------
(* Choosing slots.                                                           *)

\* _pke_get_oldest_event: of the slots in S, the first with the lowest time.
Oldest(S, i) ==
    /\ i \in S
    /\ \A k \in S : \/ slots[i].posted < slots[k].posted
                    \/ slots[i].posted = slots[k].posted /\ i <= k

\* Seeded bug: a post may reuse a blocking event's slot.
ReusableAnyEvent == {i \in Slots : ~slots[i].busy}

\* A post may reuse any slot that is neither blocking nor being processed.
Reusable == {i \in Slots : slots[i].kind # "request" /\ ~slots[i].busy}

\* The slot of a new event; slot 1 when there is none, whatever is in it.
Target(i) ==
    \/ Oldest(Reusable, i)
    \/ Reusable = {} /\ i = 1

UnansweredLogs == {i \in Slots : /\ slots[i].posted > 0
                                 /\ ~slots[i].busy
                                 /\ slots[i].kind # "request"}

\* Events nobody processes yet.
Pending == {i \in Slots : slots[i].posted > 0 /\ ~slots[i].busy}

\* _pke_unlocked_post_event.
Fill(i, t, k) ==
    /\ serial < MaxEvents
    /\ serial' = serial + 1
    /\ Target(i)
    /\ slots' = [slots EXCEPT ![i] = [posted |-> now, kind |-> k,
                   busy |-> FALSE, from |-> t, id |-> serial + 1]]

Sleepers == {c \in Consumers : cpc[c] = "wait"}

\* pthread_cond_signal on the queue's trigger.
SignalQueue ==
    \/ Sleepers = {} /\ UNCHANGED cpc
    \/ \E c \in Sleepers : cpc' = [cpc EXCEPT ![c] = "look"]

BroadcastQueue ==
    cpc' = [c \in Consumers |-> IF c \in Sleepers THEN "look" ELSE cpc[c]]

-----------------------------------------------------------------------------
(* The library's threads.                                                    *)

\* pke_post_event from pk_log, which any thread may call, the main thread
\* also while it stops and after it posted PK_EV_SHUTDOWN.
PostLog(t) ==
    /\ Running
    /\ tpc[t] = "idle"
    /\ lock = Nobody
    /\ \E i \in Slots : Fill(i, Nobody, "log")
    /\ SignalQueue
    /\ UNCHANGED <<lock, now, tvars, main, scan, held, took>>

\* pke_post_blocking_event, up to the wait: a PK_EV_CFG_FANCY_URL of the event
\* loop, a PK_EV_TUNNEL_REQUEST of a blocker.
PostRequest(t) ==
    /\ Running
    /\ tpc[t] = "idle"
    /\ t = Main => main = "running"
    /\ lock = Nobody
    /\ lock' = t
    /\ \E i \in Slots :
       /\ Fill(i, t, "request")
       /\ mine' = [mine EXCEPT ![t] = i]
    /\ number' = [number EXCEPT ![t] = serial + 1]
    /\ answer' = [answer EXCEPT ![t] = 0]
    /\ tpc' = [tpc EXCEPT ![t] = "filled"]
    /\ SignalQueue
    /\ UNCHANGED <<now, main, scan, held, took>>

\* pthread_cond_wait on the slot's trigger.
AwaitAnswer(t) ==
    /\ Running
    /\ tpc[t] = "filled"
    /\ lock' = Nobody
    /\ tpc' = [tpc EXCEPT ![t] = "waiting"]
    /\ UNCHANGED <<slots, now, serial, mine, number, answer, main, scan, cvars>>

\* It returns; nothing checks that there is an answer.
ReturnAnswer(t) ==
    /\ Running
    /\ tpc[t] = "released"
    /\ lock = Nobody
    /\ tpc' = [tpc EXCEPT ![t] = "back"]
    /\ UNCHANGED <<slots, lock, now, serial, mine, number, answer, main, scan, cvars>>

\* Seeded bug: the poster does not free its slot.
FreeEventForgotten(t) ==
    /\ Running
    /\ tpc[t] = "back"
    /\ lock = Nobody
    /\ tpc' = [tpc EXCEPT ![t] = "idle"]
    /\ UNCHANGED <<slots, lock, now, serial, mine, number, answer, main, scan, cvars>>

\* The caller has used the answer and calls pke_free_event.
FreeEvent(t) ==
    /\ Running
    /\ tpc[t] = "back"
    /\ lock = Nobody
    /\ slots' = [slots EXCEPT ![mine[t]] = EmptySlot]
    /\ tpc' = [tpc EXCEPT ![t] = "idle"]
    /\ mine' = [mine EXCEPT ![t] = 1]
    /\ number' = [number EXCEPT ![t] = 0]
    /\ answer' = [answer EXCEPT ![t] = 0]
    /\ UNCHANGED <<lock, now, serial, main, scan, cvars>>

BlockerExits(t) ==
    /\ main = "joining"
    /\ t \in Blockers
    /\ tpc[t] = "idle"
    /\ tpc' = [tpc EXCEPT ![t] = "exited"]
    /\ UNCHANGED <<slots, lock, now, serial, mine, number, answer, main, scan, cvars>>

-----------------------------------------------------------------------------
(* Answers.                                                                  *)

\* Wakes one of the threads waiting on slot i, if any does.
ReleasePoster(i) ==
    LET Waiters == {t \in Threads : tpc[t] = "waiting" /\ mine[t] = i}
    IN  \/ Waiters = {} /\ UNCHANGED tpc
        \/ \E t \in Waiters : tpc' = [tpc EXCEPT ![t] = "released"]

\* pke_post_response to slot i, which is marked as being processed, from one
\* who saw the event n there.  A shutdown event stays as it is; a non-blocking
\* one is over; the answer to a blocking one goes where its poster said.
Respond(i, n) ==
    \/ /\ slots[i].kind = "shutdown"
       /\ slots' = [slots EXCEPT ![i].busy = TRUE]
       /\ UNCHANGED <<tpc, answer>>
    \/ /\ slots[i].kind \in {"none", "log"}
       /\ slots' = [slots EXCEPT ![i] = EmptySlot]
       /\ UNCHANGED <<tpc, answer>>
    \/ /\ slots[i].kind = "request"
       /\ slots' = [slots EXCEPT ![i].busy = TRUE]
       /\ answer' = [answer EXCEPT ![slots[i].from] = n]
       /\ ReleasePoster(i)

\* pke_cancel_all_events, once the loop has ended.
LoopEnds ==
    /\ main = "running"
    /\ tpc[Main] = "idle"
    /\ main' = "testing"
    /\ UNCHANGED <<slots, lock, now, serial, tvars, scan, cvars>>

CancelTest ==
    /\ main = "testing"
    /\ scan <= MaxSlots
    /\ IF scan \in Pending
       THEN main' = "claiming" /\ UNCHANGED scan
       ELSE scan' = scan + 1 /\ UNCHANGED main
    /\ UNCHANGED <<slots, lock, now, serial, tvars, cvars>>

CancelClaim ==
    /\ main = "claiming"
    /\ Respond(scan, slots[scan].id)
    /\ scan' = scan + 1
    /\ main' = "testing"
    /\ UNCHANGED <<lock, now, serial, mine, number, cvars>>

CancelDone ==
    /\ main = "testing"
    /\ scan > MaxSlots
    /\ BroadcastQueue
    /\ main' = "joining"
    /\ UNCHANGED <<slots, lock, now, serial, tvars, scan, held, took>>

\* pkb_stop_blockers returns.
Join ==
    /\ main = "joining"
    /\ \A t \in Blockers : tpc[t] = "exited"
    /\ main' = "stopping"
    /\ UNCHANGED <<slots, lock, now, serial, tvars, scan, cvars>>

PostShutdown ==
    /\ main = "stopping"
    /\ lock = Nobody
    /\ \E i \in Slots : Fill(i, Nobody, "shutdown")
    /\ BroadcastQueue
    /\ main' = "stopped"
    /\ UNCHANGED <<lock, now, tvars, scan, held, took>>

-----------------------------------------------------------------------------
(* The application.                                                          *)

\* Seeded bug: a blocking event is not handed out.
LookSkipsRequests(c) ==
    /\ Running
    /\ cpc[c] = "look"
    /\ lock = Nobody
    /\ \/ /\ UnansweredLogs = {}
          /\ cpc' = [cpc EXCEPT ![c] = "gap"]
          /\ UNCHANGED <<slots, held, took>>
       \/ \E i \in UnansweredLogs :
          /\ Oldest(UnansweredLogs, i)
          /\ slots' = [slots EXCEPT ![i].busy = TRUE]
          /\ held' = [held EXCEPT ![c] = i]
          /\ took' = [took EXCEPT ![c] = slots[i].id]
          /\ cpc' = [cpc EXCEPT ![c] = "hold"]
    /\ UNCHANGED <<lock, now, serial, tvars, main, scan>>

\* Seeded bug: an event is handed out unmarked.
LookUnmarked(c) ==
    /\ Running
    /\ cpc[c] = "look"
    /\ lock = Nobody
    /\ \E i \in Slots :
          /\ Oldest(Pending, i)
          /\ held' = [held EXCEPT ![c] = i]
          /\ took' = [took EXCEPT ![c] = slots[i].id]
          /\ cpc' = [cpc EXCEPT ![c] = "hold"]
    /\ UNCHANGED <<slots, lock, now, serial, tvars, main, scan>>

\* pke_await_event's search, its first critical section.
Look(c) ==
    /\ Running
    /\ cpc[c] = "look"
    /\ lock = Nobody
    /\ \/ /\ Pending = {}
          /\ cpc' = [cpc EXCEPT ![c] = "gap"]
          /\ UNCHANGED <<slots, held, took>>
       \/ \E i \in Slots :
          /\ Oldest(Pending, i)
          /\ slots' = [slots EXCEPT ![i].busy = TRUE]
          /\ held' = [held EXCEPT ![c] = i]
          /\ took' = [took EXCEPT ![c] = slots[i].id]
          /\ cpc' = [cpc EXCEPT ![c] = "hold"]
    /\ UNCHANGED <<lock, now, serial, tvars, main, scan>>

\* Its second one; an event posted in the gap has signalled nobody.
Sleep(c) ==
    /\ Running
    /\ cpc[c] = "gap"
    /\ lock = Nobody
    /\ cpc' = [cpc EXCEPT ![c] = "wait"]
    /\ UNCHANGED <<slots, lock, now, serial, tvars, main, scan, held, took>>

\* The wait times out with PK_EV_NONE, and the application calls again.
Timeout(c) ==
    /\ Running
    /\ cpc[c] = "wait"
    /\ cpc' = [cpc EXCEPT ![c] = "look"]
    /\ UNCHANGED <<slots, lock, now, serial, tvars, main, scan, held, took>>

\* The application answers, and the assertion of pke_post_response holds.
Handle(c) ==
    /\ Running
    /\ cpc[c] = "hold"
    /\ slots[held[c]].busy
    /\ slots[held[c]].kind # "shutdown"
    /\ Respond(held[c], took[c])
    /\ cpc' = [cpc EXCEPT ![c] = "look"]
    /\ held' = [held EXCEPT ![c] = 1]
    /\ took' = [took EXCEPT ![c] = 0]
    /\ UNCHANGED <<lock, now, serial, mine, number, main, scan>>

\* It does not: abort().
HandleAborts(c) ==
    /\ Running
    /\ cpc[c] = "hold"
    /\ ~slots[held[c]].busy
    /\ main' = "aborted"
    /\ UNCHANGED <<slots, lock, now, serial, tvars, scan, cvars>>

\* PK_EV_SHUTDOWN ends the consumer's loop.
HandleShutdown(c) ==
    /\ Running
    /\ cpc[c] = "hold"
    /\ slots[held[c]].busy
    /\ slots[held[c]].kind = "shutdown"
    /\ cpc' = [cpc EXCEPT ![c] = "done"]
    /\ UNCHANGED <<slots, lock, now, serial, tvars, main, scan, held, took>>

ClockTicks ==
    /\ Running
    /\ now < MaxTime
    /\ now' = now + 1
    /\ UNCHANGED <<slots, lock, serial, tvars, main, scan, cvars>>

-----------------------------------------------------------------------------
ThreadStep(t) == AwaitAnswer(t) \/ ReturnAnswer(t) \/ FreeEvent(t) \/ BlockerExits(t)

MainStep == CancelTest \/ CancelClaim \/ CancelDone \/ Join \/ PostShutdown

ConsumerStep(c) ==
    Look(c) \/ Sleep(c) \/ Timeout(c) \/ Handle(c) \/ HandleAborts(c) \/ HandleShutdown(c)

Next ==
    \/ \E t \in Threads : PostLog(t) \/ PostRequest(t) \/ ThreadStep(t)
    \/ LoopEnds \/ MainStep
    \/ \E c \in Consumers : ConsumerStep(c)
    \/ ClockTicks

Spec == Init /\ [][Next]_vars

\* A thread that has something left to do does it, the consumers keep asking
\* and answering; posts, the end of the loop and the clock may or may not come.
Fairness ==
    /\ \A t \in Threads : WF_vars(ThreadStep(t))
    /\ WF_vars(MainStep)
    /\ \A c \in Consumers : WF_vars(ConsumerStep(c))

FairSpec == Spec /\ Fairness

-----------------------------------------------------------------------------
\* A blocking post that comes back has the answer to its own event: its slot
\* was not given away while it waited, and nobody else's answer woke it.
AnswerIsOwn ==
    \A t \in Threads :
        main = "running" /\ tpc[t] = "back" => answer[t] = number[t]

\* A consumer's event is its own: while it works on one, the slot still holds
\* that very event, marked, and no other consumer was given it.
HeldIsOwn ==
    main = "running" =>
        \A c \in Consumers : cpc[c] = "hold" =>
            /\ slots[held[c]].busy
            /\ slots[held[c]].id = took[c]
            /\ \A d \in Consumers \ {c} : cpc[d] = "hold" => held[d] # held[c]

\* However many events pour in meanwhile and whichever wake-up is missed, a
\* blocked thread is released as long as the loop runs.
RequestAnswered ==
    \A t \in Threads :
        tpc[t] = "filled" ~> tpc[t] = "back" \/ main # "running"

\* No thread's reserved slots pile up: a slot that no longer belongs to a
\* waiting thread or a consumer at work can be reused.
NoSlotLeaks ==
    main = "running" =>
        \A i \in Slots :
            i \in Reusable \/ (\E t \in Threads : tpc[t] # "idle" /\ mine[t] = i)
            \/ (\E c \in Consumers : cpc[c] = "hold" /\ held[c] = i)

\* "assert(0 != (ev->event_code & PK_EV_PROCESSING))" (pkhooks.c:316).
ResponseAsserts == main # "aborted"

\* "Shutdown events just stay pinned and keep getting served" (pkhooks.c:318):
\* every consumer's loop ends.
ShutdownServed ==
    \A c \in Consumers : main = "stopped" ~> cpc[c] = "done" \/ main = "aborted"
=============================================================================
