--------------------------- MODULE PkJobPile_proofs ---------------------------
(***************************************************************************)
(* For any number of workers, connections and slots: the pile's count is   *)
(* the number of used slots, and no job waits while every worker that      *)
(* could take it sleeps.  The invariant is TypeOK and CountIsUsed together *)
(* (the bound on the count rests on the slots it counts); NoStrandedJob is *)
(* inductive on top of it.                                                 *)
(***************************************************************************)
EXTENDS PkJobPile, FiniteSetTheorems, TLAPS

USE JobsAreDistinct, PileBounds DEF JobsAreDistinct, PileBounds

UsedIn(p) == {i \in Slots : p[i] # NoJob}
WaitingAt(pcs) == {w \in Workers : pcs[w] = "waiting"}
LookingAt(pcs) == {w \in Workers : pcs[w] \in {"get", "woken"}}

\* There are MaxJobs slots, and any set of them is finite and no larger.
LEMMA SlotsCount ==
  ASSUME NEW S \in SUBSET Slots
  PROVE  IsFiniteSet(S) /\ Cardinality(S) \in 0..MaxJobs
<1>1. IsFiniteSet(Slots) /\ Cardinality(Slots) = MaxJobs
  BY FS_Interval DEF Slots
<1>2. QED
  BY <1>1, FS_Subset, FS_CardinalityType

\* Filling a free slot adds one used slot.
LEMMA FillSlot ==
  ASSUME NEW p \in [Slots -> Jobs \cup {NoJob}], NEW i \in Slots, p[i] = NoJob,
         NEW j \in Jobs
  PROVE  Cardinality(UsedIn([p EXCEPT ![i] = j])) = Cardinality(UsedIn(p)) + 1
<1>1. UsedIn([p EXCEPT ![i] = j]) = UsedIn(p) \cup {i} /\ i \notin UsedIn(p)
  BY DEF UsedIn
<1>2. IsFiniteSet(UsedIn(p))
  BY SlotsCount DEF UsedIn
<1>3. QED
  BY <1>1, <1>2, FS_AddElement

\* Clearing a used slot takes one away.
LEMMA ClearSlot ==
  ASSUME NEW p \in [Slots -> Jobs \cup {NoJob}], NEW i \in Slots, p[i] # NoJob
  PROVE  Cardinality(UsedIn([p EXCEPT ![i] = NoJob])) = Cardinality(UsedIn(p)) - 1
<1>1. UsedIn([p EXCEPT ![i] = NoJob]) = UsedIn(p) \ {i} /\ i \in UsedIn(p)
  BY DEF UsedIn
<1>2. IsFiniteSet(UsedIn(p))
  BY SlotsCount DEF UsedIn
<1>3. QED
  BY <1>1, <1>2, FS_RemoveElement

\* A signal changes nothing but one sleeper, which it wakes.
LEMMA SignalType ==
  ASSUME NEW pcs \in [Workers -> WorkerPc], NEW next \in Signal(pcs)
  PROVE  /\ next \in [Workers -> WorkerPc]
         /\ \A w \in Workers : next[w] = pcs[w]
                               \/ (pcs[w] = "waiting" /\ next[w] = "woken")
<1>1. CASE next = pcs
  BY <1>1
<1>2. ASSUME NEW v \in Workers, pcs[v] = "waiting", next = [pcs EXCEPT ![v] = "woken"]
      PROVE  /\ next \in [Workers -> WorkerPc]
             /\ \A w \in Workers : next[w] = pcs[w]
                                   \/ (pcs[w] = "waiting" /\ next[w] = "woken")
  BY <1>2 DEF WorkerPc
<1>3. next = pcs \/ \E v \in Workers : /\ pcs[v] = "waiting"
                                      /\ next = [pcs EXCEPT ![v] = "woken"]
  <2>1. CASE {w \in Workers : pcs[w] = "waiting"} = {}
    BY <2>1 DEF Signal
  <2>2. CASE {w \in Workers : pcs[w] = "waiting"} # {}
    <3>1. next \in {[pcs EXCEPT ![w] = "woken"] :
                       w \in {v \in Workers : pcs[v] = "waiting"}}
      BY <2>2 DEF Signal
    <3>2. QED
      BY <3>1
  <2>3. QED
    BY <2>1, <2>2
<1>4. QED
  BY <1>1, <1>2, <1>3

\* pkb_add_job keeps the count in step with the slots.
LEMMA AddJobCounts ==
  ASSUME TypeOK, CountIsUsed, NEW j \in Jobs,
         NEW pcs \in [Workers -> WorkerPc], AddJob(j, pcs)
  PROVE  /\ pile' \in [Slots -> Jobs \cup {NoJob}]
         /\ count' \in 0..MaxJobs
         /\ CountIsUsed'
         /\ wpc' \in [Workers -> WorkerPc]
         /\ \A w \in Workers : wpc'[w] = pcs[w]
                               \/ (pcs[w] = "waiting" /\ wpc'[w] = "woken")
<1>1. CASE Full /\ wpc' = pcs /\ UNCHANGED <<pile, count>>
  <2>1. CountIsUsed'
    BY <1>1 DEF CountIsUsed, Used
  <2>2. QED
    BY <1>1, <2>1 DEF TypeOK
<1>2. ASSUME NEW i \in Slots, FirstFree(i), pile' = [pile EXCEPT ![i] = j],
             count' = count + 1, wpc' \in Signal(pcs)
      PROVE  /\ pile' \in [Slots -> Jobs \cup {NoJob}]
             /\ count' \in 0..MaxJobs
             /\ CountIsUsed'
  <2>1. pile' \in [Slots -> Jobs \cup {NoJob}]
    BY <1>2 DEF TypeOK
  <2>2. count = Cardinality(UsedIn(pile)) /\ pile[i] = NoJob
    BY <1>2 DEF CountIsUsed, Used, UsedIn, FirstFree
  <2>3. count' = Cardinality(UsedIn(pile'))
    BY <1>2, <2>2, FillSlot DEF TypeOK
  <2>4. count' \in 0..MaxJobs
    BY <2>3, SlotsCount DEF UsedIn
  <2>5. QED
    BY <2>1, <2>3, <2>4 DEF CountIsUsed, Used, UsedIn
<1>3. QED
  BY <1>1, <1>2, SignalType DEF AddJob

-----------------------------------------------------------------------------
IInv == TypeOK /\ CountIsUsed

\* Each kind of step of a worker keeps the types and the count.
LEMMA GetJobStep ==
  ASSUME IInv, NEW w \in Workers, GetJob(w) PROVE IInv'
<1>1. CASE count = 0
  <2>1. UNCHANGED <<pile, count, job>> /\ wpc' = [wpc EXCEPT ![w] = "waiting"]
        /\ wpc[w] \in {"get", "woken"}
        /\ UNCHANGED <<main, quits, ticks, conn, retries>>
    BY <1>1 DEF GetJob
  <2>2. CountIsUsed'
    BY <2>1 DEF IInv, CountIsUsed, Used
  <2>3. TypeOK'
    BY <2>1 DEF IInv, TypeOK, WorkerPc
  <2>4. QED
    BY <2>2, <2>3 DEF IInv
<1>2. CASE count > 0
  <2>1. PICK i \in Slots : /\ FirstUsed(i)
                           /\ job' = [job EXCEPT ![w] = pile[i]]
                           /\ pile' = [pile EXCEPT ![i] = NoJob]
    BY <1>2 DEF GetJob, IInv, TypeOK
  <2>2. /\ count' = count - 1
        /\ wpc' = [wpc EXCEPT ![w] = "run"]
        /\ UNCHANGED <<main, quits, ticks, conn, retries>>
    BY <1>2 DEF GetJob, IInv, TypeOK
  <2>3. pile[i] \in Jobs /\ wpc[w] \in {"get", "woken"}
    BY <2>1 DEF GetJob, FirstUsed, IInv, TypeOK
  <2>4. count' = Cardinality(UsedIn(pile'))
    BY <2>1, <2>2, <2>3, ClearSlot DEF IInv, TypeOK, CountIsUsed, Used, UsedIn
  <2>5. CountIsUsed'
    BY <2>4 DEF CountIsUsed, Used, UsedIn
  <2>6. count' \in 0..MaxJobs
    BY <1>2, <2>2 DEF IInv, TypeOK
  <2>7. TypeOK'
    BY <2>1, <2>2, <2>3, <2>6 DEF IInv, TypeOK, WorkerPc
  <2>8. QED
    BY <2>5, <2>7 DEF IInv
<1>3. QED
  BY <1>1, <1>2 DEF IInv, TypeOK

LEMMA RelayRetryStep ==
  ASSUME IInv, NEW w \in Workers, RelayRetry(w) PROVE IInv'
<1> DEFINE pcs == [wpc EXCEPT ![w] = "get"]
<1>1. pcs \in [Workers -> WorkerPc] /\ wpc[w] = "run" /\ job[w] \in Conns
  BY DEF IInv, TypeOK, RelayRetry, WorkerPc
<1>2. AddJob(job[w], pcs)
  BY DEF RelayRetry
<1>3. /\ pile' \in [Slots -> Jobs \cup {NoJob}]
      /\ count' \in 0..MaxJobs
      /\ CountIsUsed'
      /\ wpc' \in [Workers -> WorkerPc]
      /\ \A v \in Workers : wpc'[v] = pcs[v]
                            \/ (pcs[v] = "waiting" /\ wpc'[v] = "woken")
  BY <1>1, <1>2, AddJobCounts DEF IInv, Jobs
<1>4. TypeOK'
  <2>1. \A v \in Workers : wpc'[v] = wpc[v] \/ (v = w /\ wpc'[v] = "get")
                           \/ (wpc[v] = "waiting" /\ wpc'[v] = "woken")
    BY <1>1, <1>3 DEF IInv, TypeOK
  <2>2. wpc'[w] = "get"
    BY <1>1, <1>3 DEF IInv, TypeOK
  <2>3. job' = [job EXCEPT ![w] = NoJob]
        /\ retries' = [retries EXCEPT ![job[w]] = @ + 1]
        /\ retries[job[w]] < MaxRetries
        /\ conn' \in {conn, [conn EXCEPT ![job[w]] = "lost"]}
        /\ UNCHANGED <<main, quits, ticks>>
    BY DEF RelayRetry
  <2>4. conn' \in [Conns -> {"none", "live", "closed", "lost"}]
        /\ retries' \in [Conns -> 0..MaxRetries]
    BY <1>1, <2>3 DEF IInv, TypeOK
  <2>5. /\ job' \in [Workers -> Jobs \cup {NoJob}]
        /\ \A v \in Workers : job'[v] # NoJob <=> wpc'[v] \in {"run", "requeue"}
        /\ \A v \in Workers : wpc'[v] = "requeue" => job'[v] = Quit
    BY <1>1, <2>1, <2>2, <2>3 DEF IInv, TypeOK
  <2>6. QED
    BY <1>3, <2>3, <2>4, <2>5 DEF IInv, TypeOK
<1>5. QED
  BY <1>3, <1>4 DEF IInv

LEMMA RequeueQuitStep ==
  ASSUME IInv, NEW w \in Workers, RequeueQuit(w) PROVE IInv'
<1> DEFINE pcs == [wpc EXCEPT ![w] = "exited"]
<1>1. pcs \in [Workers -> WorkerPc] /\ wpc[w] = "requeue"
  BY DEF IInv, TypeOK, RequeueQuit, WorkerPc
<1>2. AddJob(Quit, pcs)
  BY DEF RequeueQuit
<1>3. /\ pile' \in [Slots -> Jobs \cup {NoJob}]
      /\ count' \in 0..MaxJobs
      /\ CountIsUsed'
      /\ wpc' \in [Workers -> WorkerPc]
      /\ \A v \in Workers : wpc'[v] = pcs[v]
                            \/ (pcs[v] = "waiting" /\ wpc'[v] = "woken")
  BY <1>1, <1>2, AddJobCounts DEF IInv, Jobs
<1>4. TypeOK'
  BY <1>1, <1>3 DEF IInv, TypeOK, RequeueQuit
<1>5. QED
  BY <1>3, <1>4 DEF IInv

\* So do the threads that post a job and go on.
LEMMA PostStep ==
  ASSUME IInv,
         \/ \E k \in Checks : Tick(k)
         \/ \E c \in Conns : NewConn(c)
         \/ AddQuit
  PROVE  IInv'
<1>1. \E j \in Jobs : AddJob(j, wpc)
  BY DEF Tick, NewConn, AddQuit, Jobs
<1>2. wpc \in [Workers -> WorkerPc]
  BY DEF IInv, TypeOK
<1>3. /\ pile' \in [Slots -> Jobs \cup {NoJob}]
      /\ count' \in 0..MaxJobs
      /\ CountIsUsed'
      /\ wpc' \in [Workers -> WorkerPc]
      /\ \A v \in Workers : wpc'[v] = wpc[v]
                            \/ (wpc[v] = "waiting" /\ wpc'[v] = "woken")
  BY <1>1, <1>2, AddJobCounts DEF IInv
<1>4. TypeOK'
  <2>1. CASE \E k \in Checks : Tick(k)
    BY <1>3, <2>1 DEF IInv, TypeOK, Tick
  <2>2. CASE \E c \in Conns : NewConn(c)
    BY <1>3, <2>2 DEF IInv, TypeOK, NewConn
  <2>3. CASE AddQuit
    BY <1>3, <2>3 DEF IInv, TypeOK, AddQuit
  <2>4. QED
    BY <2>1, <2>2, <2>3
<1>5. QED
  BY <1>3, <1>4 DEF IInv

LEMMA InvStep == ASSUME IInv, [Next]_vars PROVE IInv'
<1>1. ASSUME NEW w \in Workers, RunCheck(w) PROVE IInv'
  BY <1>1 DEF IInv, TypeOK, CountIsUsed, Used, RunCheck, WorkerPc
<1>2. ASSUME NEW w \in Workers, RelayClose(w) PROVE IInv'
  BY <1>2 DEF IInv, TypeOK, CountIsUsed, Used, RelayClose, WorkerPc
<1>3. ASSUME NEW w \in Workers, TakeQuit(w) PROVE IInv'
  BY <1>3 DEF IInv, TypeOK, CountIsUsed, Used, TakeQuit, WorkerPc
<1>4. ASSUME NEW w \in Workers, SpuriousWake(w) PROVE IInv'
  BY <1>4 DEF IInv, TypeOK, CountIsUsed, Used, SpuriousWake, WorkerPc
<1>5. ASSUME LoopEnds \/ Join \/ UNCHANGED vars PROVE IInv'
  BY <1>5 DEF IInv, TypeOK, CountIsUsed, Used, LoopEnds, Join, vars
<1>6. QED
  BY <1>1, <1>2, <1>3, <1>4, <1>5, GetJobStep, RelayRetryStep, RequeueQuitStep,
     PostStep DEF Next, WorkerStep

LEMMA InvInit == Init => IInv
<1> SUFFICES ASSUME Init PROVE IInv
  OBVIOUS
<1>1. Used = {}
  BY DEF Init, Used
<1>2. CountIsUsed
  BY <1>1, FS_EmptySet DEF Init, CountIsUsed
<1>3. QED
  BY <1>2 DEF Init, IInv, TypeOK, WorkerPc

\* Type correctness, the bound on the count included.
THEOREM TypeCorrect == Spec => []TypeOK
<1>1. IInv => TypeOK
  BY DEF IInv
<1>2. QED
  BY <1>1, InvInit, InvStep, PTL DEF Spec

\* The count is the number of used slots in every reachable state.
THEOREM CountCorrect == Spec => []CountIsUsed
<1>1. IInv => CountIsUsed
  BY DEF IInv
<1>2. QED
  BY <1>1, InvInit, InvStep, PTL DEF Spec

-----------------------------------------------------------------------------
(* No lost wake-up.                                                          *)

LEMMA WorkersFinite ==
  ASSUME NEW S \in SUBSET Workers
  PROVE  IsFiniteSet(S) /\ Cardinality(S) \in Nat
BY FS_Subset, FS_CardinalityType

\* More workers on their way to the pile never strand a job.
LEMMA MoreLooking ==
  ASSUME TypeOK, NoStrandedJob,
         NEW pcs \in [Workers -> WorkerPc],
         WaitingAt(pcs) \subseteq Waiting, Looking \subseteq LookingAt(pcs)
  PROVE  WaitingAt(pcs) # {} => count <= Cardinality(LookingAt(pcs))
<1> SUFFICES ASSUME WaitingAt(pcs) # {} PROVE count <= Cardinality(LookingAt(pcs))
  OBVIOUS
<1>1. count <= Cardinality(Looking)
  BY DEF NoStrandedJob
<1>2. LookingAt(pcs) \in SUBSET Workers /\ Looking \in SUBSET Workers
  BY DEF LookingAt, Looking
<1>3. Cardinality(Looking) <= Cardinality(LookingAt(pcs))
  BY <1>2, WorkersFinite, FS_Subset
<1>4. QED
  BY <1>1, <1>2, <1>3, WorkersFinite DEF TypeOK

\* pkb_add_job wakes a worker for the job it adds, if one sleeps.
LEMMA AddJobWakes ==
  ASSUME TypeOK, NEW j \in Jobs, NEW pcs \in [Workers -> WorkerPc],
         WaitingAt(pcs) # {} => count <= Cardinality(LookingAt(pcs)),
         AddJob(j, pcs)
  PROVE  NoStrandedJob'
<1>1. CASE wpc' = pcs /\ count' = count
  BY <1>1 DEF NoStrandedJob, Waiting, Looking, WaitingAt, LookingAt
<1>2. CASE wpc' \in Signal(pcs) /\ count' = count + 1
  <2>1. CASE WaitingAt(pcs) = {}
    <3>1. wpc' = pcs
      BY <1>2, <2>1 DEF Signal, WaitingAt
    <3>2. Waiting' = {}
      BY <2>1, <3>1 DEF Waiting, WaitingAt
    <3>3. QED
      BY <3>2 DEF NoStrandedJob
  <2>2. CASE WaitingAt(pcs) # {}
    <3>1. wpc' \in {[pcs EXCEPT ![w] = "woken"] : w \in WaitingAt(pcs)}
      BY <1>2, <2>2 DEF Signal, WaitingAt
    <3>2. PICK v \in WaitingAt(pcs) : wpc' = [pcs EXCEPT ![v] = "woken"]
      BY <3>1
    <3>3. LookingAt(wpc') = LookingAt(pcs) \cup {v} /\ v \notin LookingAt(pcs)
      BY <3>2 DEF LookingAt, WaitingAt
    <3>4. LookingAt(pcs) \in SUBSET Workers
      BY DEF LookingAt
    <3>5. Cardinality(LookingAt(wpc')) = Cardinality(LookingAt(pcs)) + 1
      BY <3>3, <3>4, WorkersFinite, FS_AddElement
    <3>6. count' <= Cardinality(LookingAt(wpc'))
      BY <1>2, <2>2, <3>4, <3>5, WorkersFinite DEF TypeOK
    <3>7. QED
      BY <3>6 DEF NoStrandedJob, Looking, LookingAt
  <2>3. QED
    BY <2>1, <2>2
<1>3. QED
  BY <1>1, <1>2 DEF AddJob

LEMMA GetJobWakes ==
  ASSUME TypeOK, NoStrandedJob, NEW w \in Workers, GetJob(w) PROVE NoStrandedJob'
<1>1. CASE count = 0
  <2>1. count' = 0
    BY <1>1 DEF GetJob
  <2>2. Looking' \in SUBSET Workers
    BY DEF Looking
  <2>3. QED
    BY <2>1, <2>2, WorkersFinite DEF NoStrandedJob
<1>2. CASE count > 0
  <2>1. count' = count - 1 /\ wpc' = [wpc EXCEPT ![w] = "run"] /\ w \in Looking
    BY <1>2 DEF GetJob, Looking
  <2>2. Looking' = Looking \ {w} /\ Waiting' = Waiting
    BY <2>1 DEF Looking, Waiting, TypeOK
  <2>3. Looking \in SUBSET Workers
    BY DEF Looking
  <2>4. Cardinality(Looking') = Cardinality(Looking) - 1
    BY <2>1, <2>2, <2>3, WorkersFinite, FS_RemoveElement
  <2>5. QED
    BY <2>1, <2>2, <2>3, <2>4, WorkersFinite DEF NoStrandedJob, TypeOK
<1>3. QED
  BY <1>1, <1>2 DEF TypeOK

\* A worker that is done with its job goes back to the pile.
LEMMA BackToPile ==
  ASSUME TypeOK, NoStrandedJob, NEW w \in Workers, NEW p \in WorkerPc,
         wpc[w] \notin {"get", "woken"}, p # "waiting"
  PROVE  LET pcs == [wpc EXCEPT ![w] = p]
         IN  /\ pcs \in [Workers -> WorkerPc]
             /\ WaitingAt(pcs) # {} => count <= Cardinality(LookingAt(pcs))
<1> DEFINE pcs == [wpc EXCEPT ![w] = p]
<1>1. pcs \in [Workers -> WorkerPc]
  BY DEF TypeOK
<1>2. WaitingAt(pcs) \subseteq Waiting /\ Looking \subseteq LookingAt(pcs)
  BY DEF TypeOK, WaitingAt, Waiting, LookingAt, Looking
<1>3. QED
  BY <1>1, <1>2, MoreLooking

LEMMA WakeStep ==
  ASSUME TypeOK, NoStrandedJob, [Next]_vars PROVE NoStrandedJob'
<1>1. ASSUME NEW w \in Workers, NEW p \in WorkerPc,
             wpc' = [wpc EXCEPT ![w] = p], count' = count,
             wpc[w] \notin {"get", "woken"}, p # "waiting"
      PROVE  NoStrandedJob'
  BY <1>1, BackToPile DEF NoStrandedJob, Waiting, Looking, WaitingAt, LookingAt
<1>2. ASSUME NEW w \in Workers, RunCheck(w) \/ RelayClose(w) PROVE NoStrandedJob'
  <2>1. wpc' = [wpc EXCEPT ![w] = "get"] /\ count' = count /\ wpc[w] = "run"
    BY <1>2 DEF RunCheck, RelayClose
  <2>2. QED
    BY <1>1, <2>1 DEF WorkerPc
<1>3. ASSUME NEW w \in Workers, TakeQuit(w) PROVE NoStrandedJob'
  <2>1. wpc' = [wpc EXCEPT ![w] = "requeue"] /\ count' = count /\ wpc[w] = "run"
    BY <1>3 DEF TakeQuit
  <2>2. QED
    BY <1>1, <2>1 DEF WorkerPc
<1>4. ASSUME NEW w \in Workers, SpuriousWake(w) PROVE NoStrandedJob'
  <2>1. wpc' = [wpc EXCEPT ![w] = "woken"] /\ count' = count /\ wpc[w] = "waiting"
    BY <1>4 DEF SpuriousWake
  <2>2. QED
    BY <1>1, <2>1 DEF WorkerPc
<1>5. ASSUME NEW w \in Workers, RelayRetry(w) PROVE NoStrandedJob'
  <2>1. wpc[w] = "run" /\ job[w] \in Jobs /\ AddJob(job[w], [wpc EXCEPT ![w] = "get"])
    BY <1>5 DEF RelayRetry, Jobs
  <2>2. QED
    BY <2>1, BackToPile, AddJobWakes DEF WorkerPc
<1>6. ASSUME NEW w \in Workers, RequeueQuit(w) PROVE NoStrandedJob'
  <2>1. wpc[w] = "requeue" /\ AddJob(Quit, [wpc EXCEPT ![w] = "exited"])
    BY <1>6 DEF RequeueQuit
  <2>2. QED
    BY <2>1, BackToPile, AddJobWakes DEF WorkerPc, Jobs
<1>7. ASSUME NEW j \in Jobs, AddJob(j, wpc) PROVE NoStrandedJob'
  <2>1. WaitingAt(wpc) # {} => count <= Cardinality(LookingAt(wpc))
    BY DEF NoStrandedJob, Waiting, Looking, WaitingAt, LookingAt
  <2>2. QED
    BY <1>7, <2>1, AddJobWakes DEF TypeOK
<1>8. CASE (\E k \in Checks : Tick(k)) \/ (\E c \in Conns : NewConn(c)) \/ AddQuit
  BY <1>7, <1>8 DEF Tick, NewConn, AddQuit, Jobs
<1>9. CASE LoopEnds \/ Join \/ UNCHANGED vars
  BY <1>9 DEF NoStrandedJob, Waiting, Looking, LoopEnds, Join, vars
<1>10. QED
  BY <1>2, <1>3, <1>4, <1>5, <1>6, <1>8, <1>9, GetJobWakes DEF Next, WorkerStep

\* No job waits in the pile while the only workers that could take it sleep.
THEOREM NoLostWakeup == Spec => []NoStrandedJob
<1>1. Init => NoStrandedJob
  BY DEF Init, NoStrandedJob, Waiting
<1>2. TypeOK /\ NoStrandedJob /\ [Next]_vars => NoStrandedJob'
  BY WakeStep
<1>3. QED
  BY <1>1, <1>2, TypeCorrect, PTL DEF Spec

-----------------------------------------------------------------------------
(* The bag.  At and HeldBy are where the copies of a job are.                *)

At(p, j) == {i \in Slots : p[i] = j}
HeldBy(f, j) == {w \in Workers : f[w] = j}

LEMMA FillPends ==
  ASSUME NEW p \in [Slots -> Jobs \cup {NoJob}], NEW i \in Slots, p[i] = NoJob,
         NEW j \in Jobs, NEW k \in Jobs
  PROVE  Cardinality(At([p EXCEPT ![i] = j], k))
            = IF k = j THEN Cardinality(At(p, k)) + 1 ELSE Cardinality(At(p, k))
<1>1. At([p EXCEPT ![i] = j], k) = IF k = j THEN At(p, k) \cup {i} ELSE At(p, k)
  BY DEF At
<1>2. i \notin At(p, k) /\ IsFiniteSet(At(p, k))
  BY SlotsCount DEF At
<1>3. QED
  BY <1>1, <1>2, FS_AddElement

LEMMA ClearPends ==
  ASSUME NEW p \in [Slots -> Jobs \cup {NoJob}], NEW i \in Slots, p[i] \in Jobs,
         NEW k \in Jobs
  PROVE  Cardinality(At([p EXCEPT ![i] = NoJob], k))
            = IF k = p[i] THEN Cardinality(At(p, k)) - 1 ELSE Cardinality(At(p, k))
<1>1. At([p EXCEPT ![i] = NoJob], k) = IF k = p[i] THEN At(p, k) \ {i} ELSE At(p, k)
  BY DEF At
<1>2. IsFiniteSet(At(p, k))
  BY SlotsCount DEF At
<1>3. CASE k = p[i]
  <2>1. i \in At(p, k)
    BY <1>3 DEF At
  <2>2. Cardinality(At(p, k) \ {i}) = Cardinality(At(p, k)) - 1
    BY <1>2, <2>1, FS_RemoveElement
  <2>3. QED
    BY <1>1, <1>3, <2>2
<1>4. QED
  BY <1>1, <1>3

\* A refused job changes nothing, one that is not is one more of its kind.
LEMMA AddJobPends ==
  ASSUME TypeOK, NEW j \in Jobs, NEW pcs, AddJob(j, pcs)
  PROVE  \/ Full /\ pile' = pile
         \/ /\ ~Full
            /\ \A k \in Jobs : Cardinality(At(pile', k))
                 = IF k = j THEN Cardinality(At(pile, k)) + 1
                            ELSE Cardinality(At(pile, k))
<1>1. CASE Full /\ pile' = pile
  BY <1>1
<1>2. ASSUME NEW i \in Slots, FirstFree(i), pile' = [pile EXCEPT ![i] = j]
      PROVE  /\ ~Full
             /\ \A k \in Jobs : Cardinality(At(pile', k))
                  = IF k = j THEN Cardinality(At(pile, k)) + 1
                             ELSE Cardinality(At(pile, k))
  <2>1. pile[i] = NoJob /\ pile \in [Slots -> Jobs \cup {NoJob}]
    BY <1>2 DEF FirstFree, TypeOK
  <2>2. ~Full
    BY <2>1 DEF Full
  <2>3. \A k \in Jobs : Cardinality(At([pile EXCEPT ![i] = j], k))
          = IF k = j THEN Cardinality(At(pile, k)) + 1 ELSE Cardinality(At(pile, k))
    BY <2>1, FillPends
  <2>4. QED
    BY <1>2, <2>2, <2>3
<1>3. QED
  BY <1>1, <1>2 DEF AddJob

\* A worker that gets a job takes one of its copies from the pile.
LEMMA GetJobTakes ==
  ASSUME IInv, NEW w \in Workers, GetJob(w)
  PROVE  \/ UNCHANGED <<pile, job>>
         \/ \E j \in Jobs :
              /\ job[w] = NoJob /\ job' = [job EXCEPT ![w] = j]
              /\ At(pile, j) # {}
              /\ \A k \in Jobs : Cardinality(At(pile', k))
                   = IF k = j THEN Cardinality(At(pile, k)) - 1
                              ELSE Cardinality(At(pile, k))
<1>1. CASE count = 0
  BY <1>1 DEF GetJob
<1>2. CASE count > 0
  <2>1. PICK i \in Slots : /\ FirstUsed(i)
                           /\ job' = [job EXCEPT ![w] = pile[i]]
                           /\ pile' = [pile EXCEPT ![i] = NoJob]
    BY <1>2 DEF GetJob
  <2>2. pile[i] \in Jobs /\ pile \in [Slots -> Jobs \cup {NoJob}]
    BY <2>1 DEF FirstUsed, IInv, TypeOK
  <2>3. job[w] = NoJob
    BY DEF GetJob, IInv, TypeOK
  <2>4. At(pile, pile[i]) # {}
    BY DEF At
  <2>5. QED
    BY <2>1, <2>2, <2>3, <2>4, ClearPends
<1>3. QED
  BY <1>1, <1>2 DEF IInv, TypeOK

Pending(p) == [j \in Jobs |-> Cardinality(At(p, j))]

\* What a change of the copies of one job is to the abstract bag.
LEMMA OneMore ==
  ASSUME NEW j \in Jobs,
         \A k \in Jobs : Cardinality(At(pile', k))
            = IF k = j THEN Cardinality(At(pile, k)) + 1 ELSE Cardinality(At(pile, k))
  PROVE  Pending(pile)' = [Pending(pile) EXCEPT ![j] = @ + 1]
BY DEF Pending

LEMMA OneLess ==
  ASSUME NEW j \in Jobs,
         \A k \in Jobs : Cardinality(At(pile', k))
            = IF k = j THEN Cardinality(At(pile, k)) - 1 ELSE Cardinality(At(pile, k))
  PROVE  Pending(pile)' = [Pending(pile) EXCEPT ![j] = @ - 1]
BY DEF Pending

\* A job added, or refused, is a post, or nothing.
LEMMA AddJobPosts ==
  ASSUME TypeOK, NEW j \in Jobs, NEW pcs, AddJob(j, pcs), job' = job
  PROVE  UNCHANGED <<Pending(pile), job>>
         \/ (Pending(pile)' = [Pending(pile) EXCEPT ![j] = @ + 1] /\ UNCHANGED job)
BY AddJobPends, OneMore DEF Pending

LEMMA BagStep ==
  ASSUME IInv, [Next]_vars PROVE [Bag!Next]_(Bag!vars)
<1> DEFINE Stutter == UNCHANGED <<Pending(pile), job>>
<1>a. Stutter => UNCHANGED Bag!vars
  BY DEF Bag!vars, Pending, At
<1>b. Pending(pile) = [j \in Jobs |-> Cardinality({i \in Slots : pile[i] = j})]
      /\ Pending(pile)' = [j \in Jobs |-> Cardinality({i \in Slots : pile'[i] = j})]
  BY DEF Pending, At
<1>c. ASSUME NEW j \in Jobs, Pending(pile)' = [Pending(pile) EXCEPT ![j] = @ + 1],
             UNCHANGED job
      PROVE  Bag!Next
  BY <1>b, <1>c DEF Bag!Next, Bag!Post
<1>d. ASSUME NEW w \in Workers, job[w] \in Jobs, job' = [job EXCEPT ![w] = NoJob],
             \/ UNCHANGED Pending(pile)
             \/ Pending(pile)' = [Pending(pile) EXCEPT ![job[w]] = @ + 1]
      PROVE  Bag!Next
  <2>1. job[w] # NoJob
    BY <1>d
  <2>2. CASE UNCHANGED Pending(pile)
    BY <1>b, <1>d, <2>1, <2>2 DEF Bag!Next, Bag!Finish
  <2>3. CASE Pending(pile)' = [Pending(pile) EXCEPT ![job[w]] = @ + 1]
    BY <1>b, <1>d, <2>1, <2>3 DEF Bag!Next, Bag!Repost
  <2>4. QED
    BY <1>d, <2>2, <2>3
<1>1. ASSUME NEW w \in Workers, GetJob(w) PROVE [Bag!Next]_(Bag!vars)
  <2>1. CASE UNCHANGED <<pile, job>>
    BY <1>a, <2>1 DEF Pending, At
  <2>2. ASSUME NEW j \in Jobs, job[w] = NoJob, job' = [job EXCEPT ![w] = j],
               At(pile, j) # {},
               \A k \in Jobs : Cardinality(At(pile', k))
                 = IF k = j THEN Cardinality(At(pile, k)) - 1
                            ELSE Cardinality(At(pile, k))
        PROVE  Bag!Next
    <3>1. Pending(pile)' = [Pending(pile) EXCEPT ![j] = @ - 1]
      BY <2>2, OneLess
    <3>2. At(pile, j) \in SUBSET Slots
      BY DEF At
    <3>3. Pending(pile)[j] > 0
      BY <2>2, <3>2, SlotsCount, FS_EmptySet DEF Pending
    <3>4. Bag!Take(w, j)
      BY <1>b, <2>2, <3>1, <3>3 DEF Bag!Take
    <3>5. QED
      BY <3>4 DEF Bag!Next
  <2>3. QED
    BY <1>1, <2>1, <2>2, GetJobTakes
<1>2. ASSUME NEW w \in Workers, RunCheck(w) \/ RelayClose(w) PROVE Bag!Next
  <2>1. job[w] \in Jobs /\ job' = [job EXCEPT ![w] = NoJob] /\ pile' = pile
    BY <1>2 DEF RunCheck, RelayClose, Jobs
  <2>2. UNCHANGED Pending(pile)
    BY <2>1 DEF Pending, At
  <2>3. QED
    BY <1>d, <2>1, <2>2
<1>3. ASSUME NEW w \in Workers, NEW pcs, AddJob(job[w], pcs), job[w] \in Jobs,
             job' = [job EXCEPT ![w] = NoJob]
      PROVE  Bag!Next
  <2>1. CASE pile' = pile
    BY <1>3, <1>d, <2>1 DEF Pending, At
  <2>2. CASE pile' # pile
    BY <1>3, <1>d, <2>2, AddJobPends, OneMore DEF IInv
  <2>3. QED
    BY <2>1, <2>2
<1>4. ASSUME NEW w \in Workers, RelayRetry(w) PROVE Bag!Next
  BY <1>3, <1>4 DEF RelayRetry, Jobs
<1>5. ASSUME NEW w \in Workers, RequeueQuit(w) PROVE Bag!Next
  <2>1. job[w] = Quit
    BY <1>5 DEF RequeueQuit, IInv, TypeOK
  <2>2. QED
    BY <1>3, <1>5, <2>1 DEF RequeueQuit, Jobs
<1>6. ASSUME NEW j \in Jobs, AddJob(j, wpc), job' = job PROVE [Bag!Next]_(Bag!vars)
  BY <1>6, <1>a, <1>c, AddJobPosts DEF IInv
<1>7. CASE (\E k \in Checks : Tick(k)) \/ (\E c \in Conns : NewConn(c)) \/ AddQuit
  BY <1>6, <1>7 DEF Tick, NewConn, AddQuit, Jobs
<1>8. CASE \/ \E w \in Workers : TakeQuit(w) \/ SpuriousWake(w)
           \/ LoopEnds \/ Join \/ UNCHANGED vars
  <2>1. UNCHANGED <<pile, job>>
    BY <1>8 DEF TakeQuit, SpuriousWake, LoopEnds, Join, vars
  <2>2. QED
    BY <1>a, <2>1 DEF Pending, At
<1>9. QED
  BY <1>1, <1>2, <1>4, <1>5, <1>7, <1>8 DEF Next, WorkerStep

\* The pile, with its slots, its count and its signals, implements the bag of
\* jobs: what is taken was posted, once for every time it was posted.
THEOREM ImplementsJobs == Spec => BagSpec
<1>1. Init => Bag!Init
  <2>1. \A p : (\A i \in Slots : p[i] = NoJob) =>
           \A j \in Jobs : {i \in Slots : p[i] = j} = {}
    OBVIOUS
  <2>2. QED
    BY <2>1, FS_EmptySet DEF Init, Bag!Init
<1>2. IInv /\ [Next]_vars => [Bag!Next]_(Bag!vars)
  BY BagStep
<1>3. QED
  BY <1>1, <1>2, InvInit, InvStep, PTL DEF Spec, BagSpec, Bag!Spec

-----------------------------------------------------------------------------
(* One owner.  A connection's places are the copies of it, in the pile and   *)
(* in hands; every step that makes one or takes one away knows its status.   *)

Places(c) == Cardinality(At(pile, c)) + Cardinality(HeldBy(job, c))
Owned(c) == Places(c) = IF conn[c] = "live" THEN 1 ELSE 0

LEMMA Copies ==
  ASSUME NEW k
  PROVE  /\ Cardinality(At(pile, k)) \in Nat
         /\ IsFiniteSet(HeldBy(job, k)) /\ Cardinality(HeldBy(job, k)) \in Nat
<1>1. At(pile, k) \in SUBSET Slots /\ HeldBy(job, k) \in SUBSET Workers
  BY DEF At, HeldBy
<1>2. QED
  BY <1>1, SlotsCount, WorkersFinite

\* A worker that puts its job down has one copy of it less, one that takes a
\* job one more; other jobs are where they were.
LEMMA PutDown ==
  ASSUME TypeOK, NEW w \in Workers, job[w] \in Jobs, job' = [job EXCEPT ![w] = NoJob],
         NEW k \in Jobs
  PROVE  Cardinality(HeldBy(job', k))
            = IF k = job[w] THEN Cardinality(HeldBy(job, k)) - 1
                            ELSE Cardinality(HeldBy(job, k))
<1>1. HeldBy(job', k) = IF k = job[w] THEN HeldBy(job, k) \ {w} ELSE HeldBy(job, k)
  BY DEF HeldBy, TypeOK
<1>2. CASE k = job[w]
  <2>1. w \in HeldBy(job, k)
    BY <1>2 DEF HeldBy
  <2>2. Cardinality(HeldBy(job, k) \ {w}) = Cardinality(HeldBy(job, k)) - 1
    BY <2>1, Copies, FS_RemoveElement
  <2>3. QED
    BY <1>1, <1>2, <2>2
<1>3. QED
  BY <1>1, <1>2

LEMMA PickUp ==
  ASSUME TypeOK, NEW w \in Workers, NEW j \in Jobs, job[w] = NoJob,
         job' = [job EXCEPT ![w] = j], NEW k \in Jobs
  PROVE  Cardinality(HeldBy(job', k))
            = IF k = j THEN Cardinality(HeldBy(job, k)) + 1
                       ELSE Cardinality(HeldBy(job, k))
<1>1. HeldBy(job', k) = IF k = j THEN HeldBy(job, k) \cup {w} ELSE HeldBy(job, k)
  BY DEF HeldBy, TypeOK
<1>2. w \notin HeldBy(job, k)
  BY DEF HeldBy
<1>3. Cardinality(HeldBy(job, k) \cup {w}) = Cardinality(HeldBy(job, k)) + 1
  BY <1>2, Copies, FS_AddElement
<1>4. QED
  BY <1>1, <1>3

\* A connection in a worker's hands is live, and nowhere else.
LEMMA InHand ==
  ASSUME TypeOK, NEW w \in Workers, job[w] \in Conns, Owned(job[w])
  PROVE  conn[job[w]] = "live" /\ Places(job[w]) = 1
<1>1. w \in HeldBy(job, job[w])
  BY DEF HeldBy
<1>2. Cardinality(HeldBy(job, job[w])) # 0
  BY <1>1, Copies, FS_EmptySet
<1>3. QED
  BY <1>2, Copies DEF Owned, Places

LEMMA OwnedStep ==
  ASSUME IInv, \A c \in Conns : Owned(c), [Next]_vars, NEW c \in Conns
  PROVE  Owned(c)'
<1> USE DEF IInv
<1>a. c \in Jobs
  BY DEF Jobs
<1>b. ASSUME UNCHANGED <<pile, job>>, conn'[c] = conn[c] PROVE Owned(c)'
  BY <1>b DEF Owned, Places, At, HeldBy
<1>c. ASSUME NEW j \in Jobs, NEW pcs, AddJob(j, pcs), job' = job, j # c,
             conn'[c] = conn[c]
      PROVE  Owned(c)'
  <2>1. Cardinality(At(pile', c)) = Cardinality(At(pile, c))
    BY <1>a, <1>c, AddJobPends
  <2>2. QED
    BY <1>c, <2>1 DEF Owned, Places, HeldBy
<1>1. ASSUME NEW w \in Workers, GetJob(w) PROVE Owned(c)'
  <2>1. conn' = conn
    BY <1>1 DEF GetJob
  <2>2. ASSUME NEW j \in Jobs, job[w] = NoJob, job' = [job EXCEPT ![w] = j],
               \A k \in Jobs : Cardinality(At(pile', k))
                 = IF k = j THEN Cardinality(At(pile, k)) - 1
                            ELSE Cardinality(At(pile, k))
        PROVE  Places(c)' = Places(c)
    <3>1. Cardinality(HeldBy(job', c)) = IF c = j THEN Cardinality(HeldBy(job, c)) + 1
                                                   ELSE Cardinality(HeldBy(job, c))
      BY <1>a, <2>2, PickUp
    <3>2. QED
      BY <1>a, <2>2, <3>1, Copies DEF Places
  <2>3. QED
    BY <1>1, <1>b, <2>1, <2>2, GetJobTakes DEF Owned
<1>2. ASSUME NEW w \in Workers, RunCheck(w) PROVE Owned(c)'
  <2>1. job[w] \in Jobs /\ job[w] # c /\ job' = [job EXCEPT ![w] = NoJob]
        /\ UNCHANGED <<pile, conn>>
    BY <1>2 DEF RunCheck, Jobs
  <2>2. Cardinality(HeldBy(job', c)) = Cardinality(HeldBy(job, c))
    BY <1>a, <2>1, PutDown
  <2>3. QED
    BY <2>1, <2>2 DEF Owned, Places, At
<1>3. ASSUME NEW w \in Workers, RelayClose(w) PROVE Owned(c)'
  <2>1. job[w] \in Conns /\ job[w] \in Jobs /\ job' = [job EXCEPT ![w] = NoJob]
        /\ UNCHANGED pile /\ conn' = [conn EXCEPT ![job[w]] = "closed"]
    BY <1>3 DEF RelayClose, Jobs
  <2>2. Cardinality(HeldBy(job', c))
          = IF c = job[w] THEN Cardinality(HeldBy(job, c)) - 1
                          ELSE Cardinality(HeldBy(job, c))
    BY <1>a, <2>1, PutDown
  <2>3. CASE c = job[w]
    <3>1. Places(c) = 1
      BY <2>1, <2>3, InHand
    <3>2. Places(c)' = 0
      BY <2>1, <2>2, <2>3, <3>1, Copies DEF Places, At
    <3>3. conn'[c] = "closed"
      BY <2>1, <2>3 DEF TypeOK
    <3>4. QED
      BY <3>2, <3>3 DEF Owned
  <2>4. CASE c # job[w]
    BY <2>1, <2>2, <2>4 DEF Owned, Places, At, TypeOK
  <2>5. QED
    BY <2>3, <2>4
<1>4. ASSUME NEW w \in Workers, RelayRetry(w) PROVE Owned(c)'
  <2>1. job[w] \in Conns /\ job[w] \in Jobs /\ job' = [job EXCEPT ![w] = NoJob]
        /\ AddJob(job[w], [wpc EXCEPT ![w] = "get"])
        /\ conn' = IF Full THEN [conn EXCEPT ![job[w]] = "lost"] ELSE conn
    BY <1>4 DEF RelayRetry, Jobs
  <2>2. Cardinality(HeldBy(job', c))
          = IF c = job[w] THEN Cardinality(HeldBy(job, c)) - 1
                          ELSE Cardinality(HeldBy(job, c))
    BY <1>a, <2>1, PutDown
  <2>3. \/ Full /\ Cardinality(At(pile', c)) = Cardinality(At(pile, c))
        \/ ~Full /\ Cardinality(At(pile', c))
                      = IF c = job[w] THEN Cardinality(At(pile, c)) + 1
                                      ELSE Cardinality(At(pile, c))
    BY <1>a, <2>1, AddJobPends
  <2>4. CASE c = job[w]
    <3>1. Places(c) = 1 /\ conn[c] = "live"
      BY <2>1, <2>4, InHand
    <3>2. CASE Full
      <4>1. Places(c)' = 0
        BY <2>2, <2>3, <2>4, <3>1, <3>2, Copies DEF Places
      <4>2. conn'[c] = "lost"
        BY <2>1, <2>4, <3>2 DEF TypeOK
      <4>3. QED
        BY <4>1, <4>2 DEF Owned
    <3>3. CASE ~Full
      <4>1. Places(c)' = 1
        BY <2>2, <2>3, <2>4, <3>1, <3>3, Copies DEF Places
      <4>2. QED
        BY <2>1, <3>1, <3>3, <4>1 DEF Owned
    <3>4. QED
      BY <3>2, <3>3
  <2>5. CASE c # job[w]
    <3>1. conn'[c] = conn[c]
      BY <2>1, <2>5 DEF TypeOK
    <3>2. Places(c)' = Places(c)
      BY <2>2, <2>3, <2>5 DEF Places
    <3>3. QED
      BY <3>1, <3>2 DEF Owned
  <2>6. QED
    BY <2>4, <2>5
<1>5. ASSUME NEW w \in Workers, RequeueQuit(w) PROVE Owned(c)'
  <2>1. job[w] = Quit /\ Quit \in Jobs /\ Quit # c
        /\ job' = [job EXCEPT ![w] = NoJob] /\ conn' = conn
        /\ AddJob(Quit, [wpc EXCEPT ![w] = "exited"])
    BY <1>5 DEF RequeueQuit, TypeOK, Jobs
  <2>2. Cardinality(HeldBy(job', c)) = Cardinality(HeldBy(job, c))
    BY <1>a, <2>1, PutDown
  <2>3. Cardinality(At(pile', c)) = Cardinality(At(pile, c))
    BY <1>a, <2>1, AddJobPends
  <2>4. QED
    BY <2>1, <2>2, <2>3 DEF Owned, Places
<1>6. ASSUME NEW d \in Conns, NewConn(d) PROVE Owned(c)'
  <2>1. d \in Jobs /\ AddJob(d, wpc) /\ job' = job /\ conn[d] = "none"
        /\ conn' = [conn EXCEPT ![d] = IF Full THEN "lost" ELSE "live"]
    BY <1>6 DEF NewConn, Jobs
  <2>2. CASE c = d
    <3>1. Places(c) = 0
      BY <2>1, <2>2 DEF Owned
    <3>2. \/ Full /\ pile' = pile
          \/ ~Full /\ Cardinality(At(pile', c)) = Cardinality(At(pile, c)) + 1
      BY <1>a, <2>1, <2>2, AddJobPends
    <3>3. Places(c)' = IF Full THEN 0 ELSE 1
      <4>1. Cardinality(HeldBy(job, c))' = Cardinality(HeldBy(job, c))
        BY <2>1 DEF HeldBy
      <4>2. CASE Full
        <5>1. Cardinality(At(pile, c))' = Cardinality(At(pile, c))
          BY <3>2, <4>2 DEF At
        <5>2. QED
          BY <3>1, <4>1, <4>2, <5>1 DEF Places
      <4>3. CASE ~Full
        <5>1. Cardinality(At(pile, c))' = Cardinality(At(pile, c)) + 1
          BY <3>2, <4>3
        <5>2. QED
          BY <3>1, <4>1, <4>3, <5>1, Copies DEF Places
      <4>4. QED
        BY <4>2, <4>3
    <3>4. conn'[c] = IF Full THEN "lost" ELSE "live"
      BY <2>1, <2>2 DEF TypeOK
    <3>5. QED
      BY <3>3, <3>4 DEF Owned
  <2>3. CASE c # d
    BY <1>c, <2>1, <2>3 DEF TypeOK
  <2>4. QED
    BY <2>2, <2>3
<1>7. CASE (\E k \in Checks : Tick(k)) \/ AddQuit
  BY <1>7, <1>c DEF Tick, AddQuit, Jobs
<1>8. CASE \/ \E w \in Workers : TakeQuit(w) \/ SpuriousWake(w)
           \/ LoopEnds \/ Join \/ UNCHANGED vars
  BY <1>8, <1>b DEF TakeQuit, SpuriousWake, LoopEnds, Join, vars
<1>9. QED
  BY <1>1, <1>2, <1>3, <1>4, <1>5, <1>6, <1>7, <1>8 DEF Next, WorkerStep

\* A live connection is in one slot or in one worker's hands, and any other in
\* none, whatever is refused, retried, or closed, and by whom.
THEOREM OwnerIsOne == Spec => []OneOwner
<1> DEFINE AllOwned == \A c \in Conns : Owned(c)
<1>1. Init => AllOwned
  <2> SUFFICES ASSUME Init, NEW c \in Conns PROVE Owned(c)
    OBVIOUS
  <2>1. At(pile, c) = {} /\ HeldBy(job, c) = {} /\ conn[c] = "none"
    BY DEF Init, At, HeldBy, Jobs
  <2>2. QED
    BY <2>1, FS_EmptySet DEF Owned, Places
<1>2. IInv /\ AllOwned /\ [Next]_vars => AllOwned'
  BY OwnedStep
<1>3. AllOwned => OneOwner
  BY DEF OneOwner, Owned, Places, At, HeldBy
<1>4. QED
  BY <1>1, <1>2, <1>3, InvInit, InvStep, PTL DEF Spec
=============================================================================
