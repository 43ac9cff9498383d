------------------------ MODULE PkManagerLocks_proofs ------------------------
(***************************************************************************)
(* For any number of workers, application threads, jobs and tunnels: the   *)
(* lock protocol of pkmanager.c keeps its promises.  Everything follows    *)
(* from LocksMatchPc: whoever is between a lock and its unlock in the code *)
(* owns the mutex, and nobody else does.  The mutexes do not check their   *)
(* owner, so this needs every unlock to be made by the owner.              *)
(***************************************************************************)
EXTENDS PkManagerLocks, TLAPS

USE ThreadsAreDistinct, BoundsAreNaturals DEF ThreadsAreDistinct, BoundsAreNaturals

\* The state variables keep their types in every step of any thread.
LEMMA TypeStep == ASSUME TypeOK, [Next]_vars PROVE TypeOK'
<1>1. ASSUME TypeOK, StartLoop PROVE TypeOK'
  BY <1>1 DEF TypeOK, Goto, aside, vars, MainPc, OtherPc, Callers, Threads, Others, StartLoop
<1>2. ASSUME TypeOK, YieldStart PROVE TypeOK'
  BY <1>2 DEF TypeOK, Goto, aside, vars, MainPc, OtherPc, Callers, Threads, Others, YieldStart
<1>3. ASSUME TypeOK, YieldStop PROVE TypeOK'
  BY <1>3 DEF TypeOK, Goto, aside, vars, MainPc, OtherPc, Callers, Threads, Others, YieldStop
<1>4. ASSUME TypeOK, InterruptCb PROVE TypeOK'
  BY <1>4 DEF TypeOK, Goto, aside, vars, MainPc, OtherPc, Callers, Threads, Others, InterruptCb
<1>5. ASSUME TypeOK, IcbTakeIntr PROVE TypeOK'
  BY <1>5 DEF TypeOK, Goto, aside, vars, MainPc, OtherPc, Callers, Threads, Others, IcbTakeIntr
<1>6. ASSUME TypeOK, IcbTakeLoop PROVE TypeOK'
  BY <1>6 DEF TypeOK, Goto, aside, vars, MainPc, OtherPc, Callers, Threads, Others, IcbTakeLoop
<1>7. ASSUME TypeOK, IcbRelease PROVE TypeOK'
  BY <1>7 DEF TypeOK, Goto, aside, vars, MainPc, OtherPc, Callers, Threads, Others, IcbRelease
<1>8. ASSUME TypeOK, TickCb PROVE TypeOK'
  BY <1>8 DEF TypeOK, Goto, aside, vars, MainPc, OtherPc, Callers, Threads, Others, TickCb
<1>9. ASSUME TypeOK, TickYieldStart PROVE TypeOK'
  BY <1>9 DEF TypeOK, Goto, aside, vars, MainPc, OtherPc, Callers, Threads, Others, TickYieldStart
<1>10. ASSUME TypeOK, TickYieldStop PROVE TypeOK'
  BY <1>10 DEF TypeOK, Goto, aside, vars, MainPc, OtherPc, Callers, Threads, Others, TickYieldStop
<1>11. ASSUME TypeOK, TickReconfigStop PROVE TypeOK'
  BY <1>11 DEF TypeOK, Goto, aside, vars, MainPc, OtherPc, Callers, Threads, Others, TickReconfigStop
<1>12. ASSUME TypeOK, TickRelease PROVE TypeOK'
  BY <1>12 DEF TypeOK, Goto, aside, vars, MainPc, OtherPc, Callers, Threads, Others, TickRelease
<1>13. ASSUME TypeOK, TickPost PROVE TypeOK'
  BY <1>13 DEF TypeOK, Goto, aside, vars, MainPc, OtherPc, Callers, Threads, Others, TickPost
<1>14. ASSUME TypeOK, QuitCb PROVE TypeOK'
  BY <1>14 DEF TypeOK, Goto, aside, vars, MainPc, OtherPc, Callers, Threads, Others, QuitCb
<1>15. ASSUME TypeOK, StopBlockers PROVE TypeOK'
  BY <1>15 DEF TypeOK, Goto, aside, vars, MainPc, OtherPc, Callers, Threads, Others, StopBlockers
<1>16. ASSUME TypeOK, NEW t \in Others, BlockTry(t) PROVE TypeOK'
  BY <1>16 DEF TypeOK, Goto, aside, vars, MainPc, OtherPc, Callers, Threads, Others, BlockTry
<1>17. ASSUME TypeOK, NEW t \in Others, InterruptLock(t) PROVE TypeOK'
  BY <1>17 DEF TypeOK, Goto, aside, vars, MainPc, OtherPc, Callers, Threads, Others, InterruptLock
<1>18. ASSUME TypeOK, NEW t \in Others, InterruptSend(t) PROVE TypeOK'
  BY <1>18 DEF TypeOK, Goto, aside, vars, MainPc, OtherPc, Callers, Threads, Others, InterruptSend
<1>19. ASSUME TypeOK, NEW t \in Others, InterruptTake(t) PROVE TypeOK'
  BY <1>19 DEF TypeOK, Goto, aside, vars, MainPc, OtherPc, Callers, Threads, Others, InterruptTake
<1>20. ASSUME TypeOK, NEW t \in Others, InterruptUnlock(t) PROVE TypeOK'
  BY <1>20 DEF TypeOK, Goto, aside, vars, MainPc, OtherPc, Callers, Threads, Others, InterruptUnlock
<1>21. ASSUME TypeOK, NEW t \in Others, Unblock(t) PROVE TypeOK'
  BY <1>21 DEF TypeOK, Goto, aside, vars, MainPc, OtherPc, Callers, Threads, Others, Unblock
<1>22. ASSUME TypeOK, NEW b \in Blockers, GetCheckJob(b) PROVE TypeOK'
  BY <1>22 DEF TypeOK, Goto, aside, vars, MainPc, OtherPc, Callers, Threads, Others, GetCheckJob
<1>23. ASSUME TypeOK, NEW b \in Blockers, EnterReconnectAll(b) PROVE TypeOK'
  BY <1>23 DEF TypeOK, Goto, aside, vars, MainPc, OtherPc, Callers, Threads, Others, EnterReconnectAll
<1>24. ASSUME TypeOK, NEW b \in Blockers, EnterDisconnectUnused(b) PROVE TypeOK'
  BY <1>24 DEF TypeOK, Goto, aside, vars, MainPc, OtherPc, Callers, Threads, Others, EnterDisconnectUnused
<1>25. ASSUME TypeOK, NEW b \in Blockers, ReconfigStop(b) PROVE TypeOK'
  BY <1>25 DEF TypeOK, Goto, aside, vars, MainPc, OtherPc, Callers, Threads, Others, ReconfigStop
<1>26. ASSUME TypeOK, NEW b \in Blockers, StartConnect(b) PROVE TypeOK'
  BY <1>26 DEF TypeOK, Goto, aside, vars, MainPc, OtherPc, Callers, Threads, Others, StartConnect
<1>27. ASSUME TypeOK, NEW b \in Blockers, ConnectUnblock(b) PROVE TypeOK'
  BY <1>27 DEF TypeOK, Goto, aside, vars, MainPc, OtherPc, Callers, Threads, Others, ConnectUnblock
<1>28. ASSUME TypeOK, NEW b \in Blockers, ConnectDone(b) PROVE TypeOK'
  BY <1>28 DEF TypeOK, Goto, aside, vars, MainPc, OtherPc, Callers, Threads, Others, ConnectDone
<1>29. ASSUME TypeOK, NEW b \in Blockers, ReconfigBlockingStart(b) PROVE TypeOK'
  BY <1>29 DEF TypeOK, Goto, aside, vars, MainPc, OtherPc, Callers, Threads, Others, ReconfigBlockingStart
<1>30. ASSUME TypeOK, NEW b \in Blockers, BlockerQuit(b) PROVE TypeOK'
  BY <1>30 DEF TypeOK, Goto, aside, vars, MainPc, OtherPc, Callers, Threads, Others, BlockerQuit
<1>31. ASSUME TypeOK, NEW a \in Apps, SetTimerEnabled(a) PROVE TypeOK'
  BY <1>31 DEF TypeOK, Goto, aside, vars, MainPc, OtherPc, Callers, Threads, Others, SetTimerEnabled
<1>32. ASSUME TypeOK, NEW a \in Apps, StopThread(a) PROVE TypeOK'
  BY <1>32 DEF TypeOK, Goto, aside, vars, MainPc, OtherPc, Callers, Threads, Others, StopThread
<1>33. ASSUME TypeOK, NEW a \in Apps, Joined(a) PROVE TypeOK'
  BY <1>33 DEF TypeOK, Goto, aside, vars, MainPc, OtherPc, Callers, Threads, Others, Joined
<1>34. ASSUME TypeOK, UNCHANGED vars PROVE TypeOK'
  BY <1>34 DEF TypeOK, Goto, aside, vars, MainPc, OtherPc, Callers, Threads, Others
<1>35. QED
  BY <1>1, <1>2, <1>3, <1>4, <1>5, <1>6, <1>7, <1>8, <1>9, <1>10, <1>11, <1>12, <1>13, <1>14, <1>15, <1>16, <1>17, <1>18, <1>19, <1>20, <1>21, <1>22, <1>23, <1>24, <1>25, <1>26, <1>27, <1>28, <1>29, <1>30, <1>31, <1>32, <1>33, <1>34
  DEF Next, MainStep, BlockStep, BlockerStep, AppStep, Finished

\* Type correctness of the lock protocol.
THEOREM TypeCorrect == Spec => []TypeOK
<1>1. Init => TypeOK
  <2> SUFFICES ASSUME Init PROVE TypeOK
    OBVIOUS
  <2>1. pc[MainThread] = "start" /\ \A t \in Others : pc[t] = "idle"
    BY DEF Init, Threads, Others
  <2>2. pc \in [Threads -> MainPc \cup OtherPc]
    BY DEF Init, MainPc, OtherPc
  <2>3. 0 \in 0..MaxJobs /\ 0 \in 0..MaxTunnels /\ MaxAppCalls \in 0..MaxAppCalls
    OBVIOUS
  <2>4. caller \in [Blockers -> Callers]
    BY DEF Init, Callers
  <2>5. QED
    BY <2>1, <2>2, <2>3, <2>4 DEF Init, TypeOK, MainPc, OtherPc, Others
<1>2. QED
  BY <1>1, TypeStep, PTL DEF Spec

\* No step of any thread parts a mutex from the thread that relies on it.
LEMMA LocksStep ==
  ASSUME TypeOK, LocksMatchPc, [Next]_vars PROVE LocksMatchPc'
<1>1. ASSUME TypeOK, LocksMatchPc, StartLoop PROVE LocksMatchPc'
  BY <1>1 DEF LocksMatchPc, AtLoop, AtIntr, AtConfig, TypeOK, Goto, aside, vars, MainPc, OtherPc, Callers, Threads, Others, StartLoop
<1>2. ASSUME TypeOK, LocksMatchPc, YieldStart PROVE LocksMatchPc'
  BY <1>2 DEF LocksMatchPc, AtLoop, AtIntr, AtConfig, TypeOK, Goto, aside, vars, MainPc, OtherPc, Callers, Threads, Others, YieldStart
<1>3. ASSUME TypeOK, LocksMatchPc, YieldStop PROVE LocksMatchPc'
  BY <1>3 DEF LocksMatchPc, AtLoop, AtIntr, AtConfig, TypeOK, Goto, aside, vars, MainPc, OtherPc, Callers, Threads, Others, YieldStop
<1>4. ASSUME TypeOK, LocksMatchPc, InterruptCb PROVE LocksMatchPc'
  BY <1>4 DEF LocksMatchPc, AtLoop, AtIntr, AtConfig, TypeOK, Goto, aside, vars, MainPc, OtherPc, Callers, Threads, Others, InterruptCb
<1>5. ASSUME TypeOK, LocksMatchPc, IcbTakeIntr PROVE LocksMatchPc'
  BY <1>5 DEF LocksMatchPc, AtLoop, AtIntr, AtConfig, TypeOK, Goto, aside, vars, MainPc, OtherPc, Callers, Threads, Others, IcbTakeIntr
<1>6. ASSUME TypeOK, LocksMatchPc, IcbTakeLoop PROVE LocksMatchPc'
  BY <1>6 DEF LocksMatchPc, AtLoop, AtIntr, AtConfig, TypeOK, Goto, aside, vars, MainPc, OtherPc, Callers, Threads, Others, IcbTakeLoop
<1>7. ASSUME TypeOK, LocksMatchPc, IcbRelease PROVE LocksMatchPc'
  BY <1>7 DEF LocksMatchPc, AtLoop, AtIntr, AtConfig, TypeOK, Goto, aside, vars, MainPc, OtherPc, Callers, Threads, Others, IcbRelease
<1>8. ASSUME TypeOK, LocksMatchPc, TickCb PROVE LocksMatchPc'
  BY <1>8 DEF LocksMatchPc, AtLoop, AtIntr, AtConfig, TypeOK, Goto, aside, vars, MainPc, OtherPc, Callers, Threads, Others, TickCb
<1>9. ASSUME TypeOK, LocksMatchPc, TickYieldStart PROVE LocksMatchPc'
  BY <1>9 DEF LocksMatchPc, AtLoop, AtIntr, AtConfig, TypeOK, Goto, aside, vars, MainPc, OtherPc, Callers, Threads, Others, TickYieldStart
<1>10. ASSUME TypeOK, LocksMatchPc, TickYieldStop PROVE LocksMatchPc'
  BY <1>10 DEF LocksMatchPc, AtLoop, AtIntr, AtConfig, TypeOK, Goto, aside, vars, MainPc, OtherPc, Callers, Threads, Others, TickYieldStop
<1>11. ASSUME TypeOK, LocksMatchPc, TickReconfigStop PROVE LocksMatchPc'
  BY <1>11 DEF LocksMatchPc, AtLoop, AtIntr, AtConfig, TypeOK, Goto, aside, vars, MainPc, OtherPc, Callers, Threads, Others, TickReconfigStop
<1>12. ASSUME TypeOK, LocksMatchPc, TickRelease PROVE LocksMatchPc'
  BY <1>12 DEF LocksMatchPc, AtLoop, AtIntr, AtConfig, TypeOK, Goto, aside, vars, MainPc, OtherPc, Callers, Threads, Others, TickRelease
<1>13. ASSUME TypeOK, LocksMatchPc, TickPost PROVE LocksMatchPc'
  BY <1>13 DEF LocksMatchPc, AtLoop, AtIntr, AtConfig, TypeOK, Goto, aside, vars, MainPc, OtherPc, Callers, Threads, Others, TickPost
<1>14. ASSUME TypeOK, LocksMatchPc, QuitCb PROVE LocksMatchPc'
  BY <1>14 DEF LocksMatchPc, AtLoop, AtIntr, AtConfig, TypeOK, Goto, aside, vars, MainPc, OtherPc, Callers, Threads, Others, QuitCb
<1>15. ASSUME TypeOK, LocksMatchPc, StopBlockers PROVE LocksMatchPc'
  BY <1>15 DEF LocksMatchPc, AtLoop, AtIntr, AtConfig, TypeOK, Goto, aside, vars, MainPc, OtherPc, Callers, Threads, Others, StopBlockers
<1>16. ASSUME TypeOK, LocksMatchPc, NEW t \in Others, BlockTry(t) PROVE LocksMatchPc'
  BY <1>16 DEF LocksMatchPc, AtLoop, AtIntr, AtConfig, TypeOK, Goto, aside, vars, MainPc, OtherPc, Callers, Threads, Others, BlockTry
<1>17. ASSUME TypeOK, LocksMatchPc, NEW t \in Others, InterruptLock(t) PROVE LocksMatchPc'
  BY <1>17 DEF LocksMatchPc, AtLoop, AtIntr, AtConfig, TypeOK, Goto, aside, vars, MainPc, OtherPc, Callers, Threads, Others, InterruptLock
<1>18. ASSUME TypeOK, LocksMatchPc, NEW t \in Others, InterruptSend(t) PROVE LocksMatchPc'
  BY <1>18 DEF LocksMatchPc, AtLoop, AtIntr, AtConfig, TypeOK, Goto, aside, vars, MainPc, OtherPc, Callers, Threads, Others, InterruptSend
<1>19. ASSUME TypeOK, LocksMatchPc, NEW t \in Others, InterruptTake(t) PROVE LocksMatchPc'
  BY <1>19 DEF LocksMatchPc, AtLoop, AtIntr, AtConfig, TypeOK, Goto, aside, vars, MainPc, OtherPc, Callers, Threads, Others, InterruptTake
<1>20. ASSUME TypeOK, LocksMatchPc, NEW t \in Others, InterruptUnlock(t) PROVE LocksMatchPc'
  BY <1>20 DEF LocksMatchPc, AtLoop, AtIntr, AtConfig, TypeOK, Goto, aside, vars, MainPc, OtherPc, Callers, Threads, Others, InterruptUnlock
<1>21. ASSUME TypeOK, LocksMatchPc, NEW t \in Others, Unblock(t) PROVE LocksMatchPc'
  BY <1>21 DEF LocksMatchPc, AtLoop, AtIntr, AtConfig, TypeOK, Goto, aside, vars, MainPc, OtherPc, Callers, Threads, Others, Unblock
<1>22. ASSUME TypeOK, LocksMatchPc, NEW b \in Blockers, GetCheckJob(b) PROVE LocksMatchPc'
  BY <1>22 DEF LocksMatchPc, AtLoop, AtIntr, AtConfig, TypeOK, Goto, aside, vars, MainPc, OtherPc, Callers, Threads, Others, GetCheckJob
<1>23. ASSUME TypeOK, LocksMatchPc, NEW b \in Blockers, EnterReconnectAll(b) PROVE LocksMatchPc'
  BY <1>23 DEF LocksMatchPc, AtLoop, AtIntr, AtConfig, TypeOK, Goto, aside, vars, MainPc, OtherPc, Callers, Threads, Others, EnterReconnectAll
<1>24. ASSUME TypeOK, LocksMatchPc, NEW b \in Blockers, EnterDisconnectUnused(b) PROVE LocksMatchPc'
  BY <1>24 DEF LocksMatchPc, AtLoop, AtIntr, AtConfig, TypeOK, Goto, aside, vars, MainPc, OtherPc, Callers, Threads, Others, EnterDisconnectUnused
<1>25. ASSUME TypeOK, LocksMatchPc, NEW b \in Blockers, ReconfigStop(b) PROVE LocksMatchPc'
  BY <1>25 DEF LocksMatchPc, AtLoop, AtIntr, AtConfig, TypeOK, Goto, aside, vars, MainPc, OtherPc, Callers, Threads, Others, ReconfigStop
<1>26. ASSUME TypeOK, LocksMatchPc, NEW b \in Blockers, StartConnect(b) PROVE LocksMatchPc'
  BY <1>26 DEF LocksMatchPc, AtLoop, AtIntr, AtConfig, TypeOK, Goto, aside, vars, MainPc, OtherPc, Callers, Threads, Others, StartConnect
<1>27. ASSUME TypeOK, LocksMatchPc, NEW b \in Blockers, ConnectUnblock(b) PROVE LocksMatchPc'
  BY <1>27 DEF LocksMatchPc, AtLoop, AtIntr, AtConfig, TypeOK, Goto, aside, vars, MainPc, OtherPc, Callers, Threads, Others, ConnectUnblock
<1>28. ASSUME TypeOK, LocksMatchPc, NEW b \in Blockers, ConnectDone(b) PROVE LocksMatchPc'
  BY <1>28 DEF LocksMatchPc, AtLoop, AtIntr, AtConfig, TypeOK, Goto, aside, vars, MainPc, OtherPc, Callers, Threads, Others, ConnectDone
<1>29. ASSUME TypeOK, LocksMatchPc, NEW b \in Blockers, ReconfigBlockingStart(b) PROVE LocksMatchPc'
  BY <1>29 DEF LocksMatchPc, AtLoop, AtIntr, AtConfig, TypeOK, Goto, aside, vars, MainPc, OtherPc, Callers, Threads, Others, ReconfigBlockingStart
<1>30. ASSUME TypeOK, LocksMatchPc, NEW b \in Blockers, BlockerQuit(b) PROVE LocksMatchPc'
  BY <1>30 DEF LocksMatchPc, AtLoop, AtIntr, AtConfig, TypeOK, Goto, aside, vars, MainPc, OtherPc, Callers, Threads, Others, BlockerQuit
<1>31. ASSUME TypeOK, LocksMatchPc, NEW a \in Apps, SetTimerEnabled(a) PROVE LocksMatchPc'
  BY <1>31 DEF LocksMatchPc, AtLoop, AtIntr, AtConfig, TypeOK, Goto, aside, vars, MainPc, OtherPc, Callers, Threads, Others, SetTimerEnabled
<1>32. ASSUME TypeOK, LocksMatchPc, NEW a \in Apps, StopThread(a) PROVE LocksMatchPc'
  BY <1>32 DEF LocksMatchPc, AtLoop, AtIntr, AtConfig, TypeOK, Goto, aside, vars, MainPc, OtherPc, Callers, Threads, Others, StopThread
<1>33. ASSUME TypeOK, LocksMatchPc, NEW a \in Apps, Joined(a) PROVE LocksMatchPc'
  BY <1>33 DEF LocksMatchPc, AtLoop, AtIntr, AtConfig, TypeOK, Goto, aside, vars, MainPc, OtherPc, Callers, Threads, Others, Joined
<1>34. ASSUME TypeOK, LocksMatchPc, UNCHANGED vars PROVE LocksMatchPc'
  BY <1>34 DEF LocksMatchPc, AtLoop, AtIntr, AtConfig, TypeOK, Goto, aside, vars, MainPc, OtherPc, Callers, Threads, Others
<1>35. QED
  BY <1>1, <1>2, <1>3, <1>4, <1>5, <1>6, <1>7, <1>8, <1>9, <1>10, <1>11, <1>12, <1>13, <1>14, <1>15, <1>16, <1>17, <1>18, <1>19, <1>20, <1>21, <1>22, <1>23, <1>24, <1>25, <1>26, <1>27, <1>28, <1>29, <1>30, <1>31, <1>32, <1>33, <1>34
  DEF Next, MainStep, BlockStep, BlockerStep, AppStep, Finished

\* Each mutex is owned by the one thread between its lock and its unlock.
THEOREM LocksCorrect == Spec => []LocksMatchPc
<1>1. Init => LocksMatchPc
  BY DEF Init, LocksMatchPc, AtLoop, AtIntr, AtConfig, Threads, Others
<1>2. QED
  BY <1>1, LocksStep, TypeCorrect, PTL DEF Spec

\* The event loop is idle, and every other thread out, while a thread is
\* between pkm_block and pkm_unblock.
THEOREM LoopIdle == Spec => []LoopIdleWhileBlocked
<1>1. LocksMatchPc => LoopIdleWhileBlocked
  BY DEF LocksMatchPc, LoopIdleWhileBlocked
<1>2. QED
  BY <1>1, LocksCorrect, PTL

\* Reconfigurations exclude one another, and each runs under its own lock.
THEOREM ReconfigurationsAlone == Spec => []OneReconfiguration
<1>1. LocksMatchPc => OneReconfiguration
  BY DEF LocksMatchPc, OneReconfiguration, AtConfig, Threads, Others
<1>2. QED
  BY <1>1, LocksCorrect, PTL

(***************************************************************************)
(* Deadlock freedom.  In a set of threads that wait for one another, a     *)
(* thread waiting for config_lock needs its owner in the set; the owner    *)
(* waits for intr_lock or loop_lock; the owner of intr_lock waits for      *)
(* loop_lock alone; and the owner of loop_lock waits for nothing.          *)
(***************************************************************************)
\* The owner of loop_lock never waits.
LEMMA LoopOwnerRuns ==
  ASSUME TypeOK, LocksMatchPc, NEW t \in Threads, loop_lock = t
  PROVE  WaitSet(t) = {}
  BY DEF LocksMatchPc, AtLoop, WaitSet, TypeOK, Threads, Others, MainPc, OtherPc

\* The owner of intr_lock waits for loop_lock or for nothing.
LEMMA IntrOwnerWaitsForLoop ==
  ASSUME TypeOK, LocksMatchPc, NEW t \in Threads, intr_lock = t
  PROVE  WaitSet(t) \subseteq {loop_lock} \ {NoThread}
  BY DEF LocksMatchPc, AtIntr, WaitSet, TypeOK, Threads, Others, MainPc, OtherPc

\* The owner of config_lock waits for one of the other two locks at most.
LEMMA ConfigOwnerWaits ==
  ASSUME TypeOK, LocksMatchPc, NEW t \in Threads, config_lock = t
  PROVE  WaitSet(t) \subseteq {loop_lock, intr_lock} \ {NoThread}
  BY DEF LocksMatchPc, AtConfig, WaitSet, TypeOK, Threads, Others, MainPc, OtherPc

\* A worker waits for owners of locks only, and so does the event loop until
\* it joins the workers; only application threads wait for the event loop.
LEMMA Waiting ==
  ASSUME TypeOK, NEW t \in Threads
  PROVE  \/ WaitSet(t) \subseteq {loop_lock, intr_lock, config_lock} \ {NoThread}
         \/ t = MainThread /\ WaitSet(t) \subseteq Blockers
         \/ t \in Apps /\ WaitSet(t) = {MainThread}
  BY DEF WaitSet, TypeOK, Threads, Others, MainPc, OtherPc

\* No set of threads waits for one another, in any reachable state.
THEOREM DeadlockFree == Spec => []NoWaitCycle
<1>1. ASSUME TypeOK, LocksMatchPc PROVE NoWaitCycle
  <2> SUFFICES ASSUME NEW S \in SUBSET Threads, S # {},
                      \A t \in S : WaitSet(t) \cap S # {}
               PROVE FALSE
    BY DEF NoWaitCycle
  <2>1. loop_lock \notin S
    BY <1>1, LoopOwnerRuns
  <2>2. intr_lock \notin S
    BY <1>1, <2>1, IntrOwnerWaitsForLoop
  <2>3. config_lock \notin S
    BY <1>1, <2>1, <2>2, ConfigOwnerWaits
  <2>4. S \cap Blockers = {}
    BY <1>1, <2>1, <2>2, <2>3, Waiting
  <2>5. MainThread \notin S
    BY <1>1, <2>1, <2>2, <2>3, <2>4, Waiting
  <2>6. S \cap Apps = {}
    BY <1>1, <2>1, <2>2, <2>3, <2>5, Waiting
  <2>7. QED
    BY <2>4, <2>5, <2>6 DEF Threads, Others
<1>2. QED
  BY <1>1, TypeCorrect, LocksCorrect, PTL

\* pkm_interrupt_cb returns to the event loop only after the thread that
\* woke it has had loop_lock.
THEOREM Handover == Spec => HandoverKept
<1>1. ASSUME TypeOK, LocksMatchPc, [Next]_vars
      PROVE  [ pc[MainThread] \in {"icb_intr", "icb_loop", "icb_release"}
               /\ pc'[MainThread] = "dispatch"
                 => \A t \in Others : pc[t] # "intr_wait" ]_vars
  <2> SUFFICES ASSUME pc[MainThread] \in {"icb_intr", "icb_loop", "icb_release"},
                      pc'[MainThread] = "dispatch",
                      NEW t \in Others, pc[t] = "intr_wait"
               PROVE  FALSE
    OBVIOUS
  <2>1. pc[MainThread] = "icb_release"
    BY <1>1 DEF Next, MainStep, BlockStep, BlockerStep, AppStep, Finished,
       StartLoop, YieldStart, YieldStop, InterruptCb, IcbTakeIntr, IcbTakeLoop,
       IcbRelease, TickCb, TickYieldStart, TickYieldStop, TickReconfigStop,
       TickRelease, TickPost, QuitCb, StopBlockers, BlockTry, InterruptLock,
       InterruptSend, InterruptTake, InterruptUnlock, Unblock, GetCheckJob,
       EnterReconnectAll, EnterDisconnectUnused, ReconfigStop, StartConnect,
       ConnectUnblock, ConnectDone, ReconfigBlockingStart, BlockerQuit,
       SetTimerEnabled, StopThread, Joined, Goto, TypeOK, Threads, Others,
       aside, vars
  <2>2. intr_lock = MainThread /\ intr_lock = t
    BY <1>1, <2>1 DEF LocksMatchPc, AtIntr, Threads, Others
  <2>3. QED
    BY <2>2 DEF Others
<1>2. QED
  BY <1>1, TypeCorrect, LocksCorrect, PTL DEF Spec, HandoverKept
=============================================================================
