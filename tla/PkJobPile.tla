------------------------------ MODULE PkJobPile -------------------------------
(***************************************************************************)
(* The pile of blocking jobs, the worker threads that drain it, those who  *)
(* add to it, and the shutdown (pkblocker.c 39-91, 736-832).               *)
(*                                                                         *)
(* Everything between the lock and the unlock of the pile's mutex is one   *)
(* step.  pthread_cond_wait splits pkb_get_job in two: a worker "waiting"  *)
(* is asleep with the mutex released; one "woken" was signalled (or woke   *)
(* of its own accord) and has yet to look at the count again.              *)
(***************************************************************************)
EXTENDS Naturals, FiniteSets

CONSTANTS
    Workers,    \* the blocker threads
    Conns,      \* incoming relay connections (each one's ics record)
    Checks,     \* PK_CHECK_WORLD and PK_CHECK_FRONTENDS
    Quit,       \* PK_QUIT
    NoJob,      \* PK_NO_JOB
    MaxJobs,    \* the pile's max: connection slots plus tunnel slots
    MaxTicks,   \* ticks before the loop ends
    MaxRetries  \* rounds a connection may ask for more data (5 seconds of them)

Jobs == Conns \cup Checks \cup {Quit}

ASSUME JobsAreDistinct ==
    /\ NoJob \notin Jobs
    /\ Conns \cap Checks = {}
    /\ Quit \notin Conns \cup Checks

ASSUME PileBounds ==
    /\ IsFiniteSet(Workers)
    /\ MaxJobs \in Nat \ {0}
    /\ MaxTicks \in Nat
    /\ MaxRetries \in Nat

Slots == 0..(MaxJobs - 1)

VARIABLES
    pile,     \* the job in each slot, or NoJob
    count,    \* pkj->count
    wpc,      \* where each worker is
    job,      \* the worker's local copy of its job
    main,     \* the event loop thread: running, stopping, joining, joined
    quits,    \* PK_QUIT jobs pkb_stop_blockers still has to add
    ticks,    \* ticks so far
    conn,     \* each connection: none, live, closed, or lost (still allocated,
              \* with no job and no watcher left to look after it)
    retries   \* rounds each connection has had

vars == <<pile, count, wpc, job, main, quits, ticks, conn, retries>>

WorkerPc == {"get", "waiting", "woken", "run", "requeue", "exited"}

TypeOK ==
    /\ pile \in [Slots -> Jobs \cup {NoJob}]
    /\ count \in 0..MaxJobs
    /\ wpc \in [Workers -> WorkerPc]
    /\ job \in [Workers -> Jobs \cup {NoJob}]
    /\ \A w \in Workers : job[w] # NoJob <=> wpc[w] \in {"run", "requeue"}
    /\ \A w \in Workers : wpc[w] = "requeue" => job[w] = Quit
    /\ main \in {"running", "stopping", "joining", "joined"}
    /\ quits \in 0..MaxJobs
    /\ ticks \in 0..MaxTicks
    /\ conn \in [Conns -> {"none", "live", "closed", "lost"}]
    /\ retries \in [Conns -> 0..MaxRetries]

\* pkm_manager_init empties the pile; pkm_run starts the workers.
Init ==
    /\ pile = [i \in Slots |-> NoJob]
    /\ count = 0
    /\ wpc = [w \in Workers |-> "get"]
    /\ job = [w \in Workers |-> NoJob]
    /\ main = "running"
    /\ quits = MaxJobs
    /\ ticks = 0
    /\ conn = [c \in Conns |-> "none"]
    /\ retries = [c \in Conns |-> 0]

Full == \A i \in Slots : pile[i] # NoJob

\* The slots a scan from 0 stops at: the first free one, the first used one.
FirstFree(i) == pile[i] = NoJob /\ \A k \in Slots : k < i => pile[k] # NoJob
FirstUsed(i) == pile[i] # NoJob /\ \A k \in Slots : k < i => pile[k] = NoJob

\* Seeded bug: no worker is told.
SignalNobody(pcs) == {pcs}

\* pthread_cond_signal, when the workers are at pcs: one sleeper wakes, if any.
Signal(pcs) ==
    LET Sleepers == {w \in Workers : pcs[w] = "waiting"}
    IN  IF Sleepers = {} THEN {pcs}
        ELSE {[pcs EXCEPT ![w] = "woken"] : w \in Sleepers}

\* Seeded bug: a job is put on the pile without looking for a free slot.
AddJobAnywhere(j, pcs) ==
    /\ \E i \in Slots : pile' = [pile EXCEPT ![i] = j]
    /\ count' = count + 1
    /\ wpc' \in Signal(pcs)

\* pkb_add_job by a thread that leaves the workers at pcs; -1 when full.
AddJob(j, pcs) ==
    \/ /\ Full
       /\ wpc' = pcs
       /\ UNCHANGED <<pile, count>>
    \/ \E i \in Slots :
       /\ FirstFree(i)
       /\ pile' = [pile EXCEPT ![i] = j]
       /\ count' = count + 1
       /\ wpc' \in Signal(pcs)

-----------------------------------------------------------------------------
(* Workers.                                                                  *)

\* pkb_get_job, from the test of the count on.
GetJob(w) ==
    /\ wpc[w] \in {"get", "woken"}
    /\ \/ /\ count = 0
          /\ wpc' = [wpc EXCEPT ![w] = "waiting"]
          /\ UNCHANGED <<pile, count, job>>
       \/ /\ count > 0
          /\ \E i \in Slots :
             /\ FirstUsed(i)
             /\ job' = [job EXCEPT ![w] = pile[i]]
             /\ pile' = [pile EXCEPT ![i] = NoJob]
          /\ count' = count - 1
          /\ wpc' = [wpc EXCEPT ![w] = "run"]
    /\ UNCHANGED <<main, quits, ticks, conn, retries>>

\* POSIX lets pthread_cond_wait return without a signal.
SpuriousWake(w) ==
    /\ wpc[w] = "waiting"
    /\ wpc' = [wpc EXCEPT ![w] = "woken"]
    /\ UNCHANGED <<pile, count, job, main, quits, ticks, conn, retries>>

\* The housekeeping of a PK_CHECK_* job, or its being skipped.
RunCheck(w) ==
    /\ wpc[w] = "run"
    /\ job[w] \in Checks
    /\ wpc' = [wpc EXCEPT ![w] = "get"]
    /\ job' = [job EXCEPT ![w] = NoJob]
    /\ UNCHANGED <<pile, count, main, quits, ticks, conn, retries>>

\* pkr_relay_incoming is through with the connection: identified, rejected,
\* or timed out.  _pkr_close frees it.
RelayClose(w) ==
    LET c == job[w]
    IN  /\ wpc[w] = "run"
        /\ c \in Conns
        /\ conn' = [conn EXCEPT ![c] = "closed"]
        /\ wpc' = [wpc EXCEPT ![w] = "get"]
        /\ job' = [job EXCEPT ![w] = NoJob]
        /\ UNCHANGED <<pile, count, main, quits, ticks, retries>>

\* Seeded bug: the retried connection stays with its worker.
RelayRetryKeeps(w) ==
    LET c == job[w]
    IN  /\ wpc[w] = "run"
        /\ c \in Conns
        /\ retries[c] < MaxRetries
        /\ retries' = [retries EXCEPT ![c] = @ + 1]
        /\ AddJob(c, wpc)
        /\ UNCHANGED <<job, conn, main, quits, ticks>>

\* _pkr_process_readable wants more data and posts the job again without
\* looking at the answer: refused, the connection is lost.
RelayRetry(w) ==
    LET c == job[w]
    IN  /\ wpc[w] = "run"
        /\ c \in Conns
        /\ retries[c] < MaxRetries
        /\ retries' = [retries EXCEPT ![c] = @ + 1]
        /\ job' = [job EXCEPT ![w] = NoJob]
        /\ AddJob(c, [wpc EXCEPT ![w] = "get"])
        /\ conn' = IF Full THEN [conn EXCEPT ![c] = "lost"] ELSE conn
        /\ UNCHANGED <<main, quits, ticks>>

\* PK_QUIT is for every worker: one takes it, puts it back ("in case there
\* are many workers") and ends.
TakeQuit(w) ==
    /\ wpc[w] = "run"
    /\ job[w] = Quit
    /\ wpc' = [wpc EXCEPT ![w] = "requeue"]
    /\ UNCHANGED <<pile, count, job, main, quits, ticks, conn, retries>>

\* Seeded bug: the QUIT job is not put back.
RequeueQuitForgotten(w) ==
    /\ wpc[w] = "requeue"
    /\ job' = [job EXCEPT ![w] = NoJob]
    /\ wpc' = [wpc EXCEPT ![w] = "exited"]
    /\ UNCHANGED <<pile, count, main, quits, ticks, conn, retries>>

RequeueQuit(w) ==
    /\ wpc[w] = "requeue"
    /\ job' = [job EXCEPT ![w] = NoJob]
    /\ AddJob(Quit, [wpc EXCEPT ![w] = "exited"])
    /\ UNCHANGED <<main, quits, ticks, conn, retries>>

-----------------------------------------------------------------------------
(* The event loop thread.                                                    *)

\* pkm_tick_cb posts one of the two checks and ignores a refusal.
Tick(k) ==
    /\ main = "running"
    /\ ticks < MaxTicks
    /\ ticks' = ticks + 1
    /\ AddJob(k, wpc)
    /\ UNCHANGED <<job, main, quits, conn, retries>>

\* pkr_new_conn_readable_cb stops the watcher and hands the connection over.
NewConn(c) ==
    /\ main = "running"
    /\ conn[c] = "none"
    /\ AddJob(c, wpc)
    /\ conn' = [conn EXCEPT ![c] = IF Full THEN "lost" ELSE "live"]
    /\ UNCHANGED <<job, main, quits, ticks, retries>>

LoopEnds ==
    /\ main = "running"
    /\ main' = "stopping"
    /\ UNCHANGED <<pile, count, wpc, job, quits, ticks, conn, retries>>

\* pkb_stop_blockers: MaxJobs times PK_QUIT, refusals ignored, then the joins.
AddQuit ==
    /\ main = "stopping"
    /\ quits > 0
    /\ quits' = quits - 1
    /\ main' = IF quits = 1 THEN "joining" ELSE "stopping"
    /\ AddJob(Quit, wpc)
    /\ UNCHANGED <<job, ticks, conn, retries>>

Join ==
    /\ main = "joining"
    /\ \A w \in Workers : wpc[w] = "exited"
    /\ main' = "joined"
    /\ UNCHANGED <<pile, count, wpc, job, quits, ticks, conn, retries>>

-----------------------------------------------------------------------------
WorkerStep(w) ==
    \/ GetJob(w) \/ RunCheck(w) \/ RelayClose(w) \/ RelayRetry(w)
    \/ TakeQuit(w) \/ RequeueQuit(w)

Next ==
    \/ \E w \in Workers : WorkerStep(w) \/ SpuriousWake(w)
    \/ \E k \in Checks : Tick(k)
    \/ \E c \in Conns : NewConn(c)
    \/ LoopEnds \/ AddQuit \/ Join

Spec == Init /\ [][Next]_vars

\* Workers and the shutdown go on by themselves; ticks, new connections, the
\* end of the loop and spurious wake-ups may or may not come.
Fairness ==
    /\ \A w \in Workers : WF_vars(WorkerStep(w))
    /\ WF_vars(AddQuit \/ Join)

FairSpec == Spec /\ Fairness

-----------------------------------------------------------------------------
Used == {i \in Slots : pile[i] # NoJob}
Waiting == {w \in Workers : wpc[w] = "waiting"}
Looking == {w \in Workers : wpc[w] \in {"get", "woken"}}

\* The count agrees with the slots, so a worker that found the count above
\* zero always finds a job and one that slept for a zero count missed none.
CountIsUsed == count = Cardinality(Used)

\* No lost wake-up, with pthread_cond_signal and not a broadcast: while some
\* worker sleeps, each waiting job has a worker on its way to the pile.
NoStrandedJob == Waiting # {} => count <= Cardinality(Looking)

\* A connection's record has one owner: a live connection is in one slot of
\* the pile or in the hands of one worker, and a freed one in neither, so no
\* worker touches a record that another uses or has freed.
OneOwner ==
    \A c \in Conns :
        LET places == Cardinality({i \in Slots : pile[i] = c})
                      + Cardinality({w \in Workers : job[w] = c})
        IN  places = IF conn[c] = "live" THEN 1 ELSE 0

\* A connection handed to the workers is dealt with in the end, unless the
\* shutdown comes first: the pile is no queue, but nothing waits in it for ever.
ConnServed ==
    \A c \in Conns :
        conn[c] = "live" ~> conn[c] # "live" \/ main # "running"

\* One PK_QUIT ends every worker, because each puts it back: once the loop has
\* ended and a PK_QUIT waits, the shutdown completes, provided the jobs still
\* in the pile or in hand leave a slot for it.
OtherJobs ==
    Cardinality({i \in Slots : pile[i] \in Jobs \ {Quit}})
    + Cardinality({w \in Workers : job[w] \in Jobs \ {Quit}})
RoomToQuit ==
    /\ main = "joining"
    /\ \E i \in Slots : pile[i] = Quit
    /\ OtherJobs < MaxJobs
QuitReachesAll == RoomToQuit ~> main = "joined"

\* "Put the job back in the queue, in case there are many workers" (787): one
\* PK_QUIT is to end them all, so that pkb_stop_blockers always returns.
StopReturns == main = "stopping" ~> main = "joined"

\* The pile implements the bag of jobs.
Bag == INSTANCE PkJobs WITH
    pending <- [j \in Jobs |-> Cardinality({i \in Slots : pile[i] = j})],
    held <- job

BagSpec == Bag!Spec
=============================================================================
