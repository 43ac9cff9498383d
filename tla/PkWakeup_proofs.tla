---------------------------- MODULE PkWakeup_proofs ----------------------------
(***************************************************************************)
(* For any number of senders and of async watchers: the loop never sleeps  *)
(* on a request.  The invariant says where a request can be: flagged and   *)
(* on its way to async_pending (Flagged), with async_pending on its way to *)
(* the pipe's watcher (Noticed), and, if the loop has gone to sleep, a     *)
(* skipped write on its way to being made up for (MadeUpFor).  And for any *)
(* intervals that keep within twice the longest, the watchdog lets a loop  *)
(* live that its timer still wakes.                                        *)
(***************************************************************************)
EXTENDS PkWakeup, PkHousekeeping, SequenceTheorems, TLAPS

USE SendersAssumption, AsyncsAssumption

\* pipe_write_wanted, the pipe's pending events and the loop's own sending follow
\* the loop's place in ev_run.
InStep ==
    /\ pipe_write_wanted <=> pc \in {"decide", "poll", "disarm"}
    /\ pc \notin {"disarm", "skips", "invoke"} => pipe_w = {}
    /\ spc[Loop] # "idle" => pc = "sending"
    /\ pc = "pipe_scan" <=> scan # 0

\* A sent flag has async_pending up, or a sender that will see to it, or is about
\* to be found by pipecb.
Flagged ==
    \A a \in Kinds : sent[a] =>
        \/ async_pending
        \/ \E t \in Threads : spc[t] \in {"test", "set"}
        \/ \E i \in 1..scan : Asyncs[i] = a

\* async_pending has a skipped or a made write, a sender that will do one or the
\* other, or pipecb, to show for it.
Noticed ==
    async_pending =>
        \/ pipe_write_skipped \/ eventfd
        \/ \E t \in Threads : spc[t] \in {"skip", "write"}
        \/ pipe_w # {}
        \/ pc \in {"pipe_read", "pipe_skip", "pipe_flag"}

\* A write skipped since the loop went to sleep is made up for by the sender.
MadeUpFor ==
    pc = "poll" /\ may_block /\ pipe_write_skipped =>
        \E t \in Threads : spc[t] \in {"wanted", "unskip"}

IInv == TypeOK /\ InStep /\ Flagged /\ Noticed /\ MadeUpFor

\* The watchers that are scanned are of the right kind.
LEMMA KindsOfAsyncs ==
  /\ Len(Asyncs) \in Nat /\ DOMAIN Asyncs = 1..Len(Asyncs)
  /\ \A i \in 1..Len(Asyncs) : Asyncs[i] \in Kinds
  /\ \A a \in Kinds : \E i \in 1..Len(Asyncs) : Asyncs[i] = a
  /\ "quit" \in Kinds /\ "io" \notin Kinds /\ Loop \in Threads
  /\ \A i, j \in 1..Len(Asyncs) : Asyncs[i] = Asyncs[j] => i = j
BY DEF Kinds, ToSet, Threads

\* Types are kept.
LEMMA TypeStep ==
  ASSUME IInv, [Next]_vars
  PROVE  TypeOK'
<1>1. CASE Start
  BY <1>1, KindsOfAsyncs DEF Start, Goto, IInv, TypeOK, InStep, LoopPc, SendPc, flags, batch, Elsewhere
<1>2. CASE WantWakeup
  BY <1>2, KindsOfAsyncs DEF WantWakeup, Goto, IInv, TypeOK, InStep, LoopPc, SendPc, flags, batch, Elsewhere
<1>3. CASE Decide
  BY <1>3, KindsOfAsyncs DEF Decide, Goto, IInv, TypeOK, InStep, LoopPc, SendPc, flags, batch, Elsewhere
<1>4. CASE Poll
  <2>1. <<>> \in Seq(Kinds \cup {"io"}) /\ <<"io">> \in Seq(Kinds \cup {"io"})
    BY EmptySeq
  <2>2. pendings' \in Seq(Kinds \cup {"io"})
    BY <1>4, <2>1 DEF Poll
  <2>3. QED
    BY <1>4, <2>2 DEF Poll, Goto, IInv, TypeOK, LoopPc, flags
<1>5. CASE WantNoWakeup
  BY <1>5, KindsOfAsyncs DEF WantNoWakeup, Goto, IInv, TypeOK, InStep, LoopPc, SendPc, flags, batch, Elsewhere
<1>6. CASE FeedSkipped
  BY <1>6, KindsOfAsyncs DEF FeedSkipped, Goto, IInv, TypeOK, InStep, LoopPc, SendPc, flags, batch, Elsewhere
<1>7. CASE InvokePipe
  BY <1>7, KindsOfAsyncs DEF InvokePipe, Goto, IInv, TypeOK, InStep, LoopPc, SendPc, flags, batch, Elsewhere
<1>8. CASE Invoke
  <2>1. pendings \in Seq(Kinds \cup {"io"}) /\ pendings # <<>>
    BY <1>8 DEF Invoke, IInv, TypeOK
  <2>2. Front(pendings) \in Seq(Kinds \cup {"io"})
    BY <2>1 DEF Front
  <2>3. QED
    BY <1>8, <2>2 DEF Invoke, Goto, IInv, TypeOK, LoopPc, flags, batch
<1>9. CASE Return
  BY <1>9, KindsOfAsyncs DEF Return, IInv, TypeOK, InStep, LoopPc, SendPc, flags, batch, Elsewhere
<1>10. CASE EndIteration
  BY <1>10, KindsOfAsyncs DEF EndIteration, Goto, IInv, TypeOK, InStep, LoopPc, SendPc, flags, batch, Elsewhere
<1>11. CASE ReadPipe
  BY <1>11, KindsOfAsyncs DEF ReadPipe, Goto, IInv, TypeOK, InStep, LoopPc, SendPc, flags, batch, Elsewhere
<1>12. CASE PipeClearSkipped
  BY <1>12, KindsOfAsyncs DEF PipeClearSkipped, Goto, IInv, TypeOK, InStep, LoopPc, SendPc, flags, batch, Elsewhere
<1>13. CASE PipeTakeFlag
  <2>1. scan' \in 0..Len(Asyncs)
    BY <1>13, KindsOfAsyncs DEF PipeTakeFlag
  <2>2. pc' \in LoopPc
    BY <1>13 DEF PipeTakeFlag, Goto, LoopPc
  <2>3. QED
    BY <1>13, <2>1, <2>2 DEF PipeTakeFlag, IInv, TypeOK, batch
<1>14. CASE PipeScan
  <2>1. scan \in 1..Len(Asyncs) /\ Asyncs[scan] \in Kinds
    BY <1>14, KindsOfAsyncs DEF PipeScan, Goto, IInv, TypeOK, InStep
  <2>2. pendings \in Seq(Kinds \cup {"io"}) /\ Asyncs[scan] \in Kinds \cup {"io"}
    BY <2>1 DEF IInv, TypeOK
  <2>3. Append(pendings, Asyncs[scan]) \in Seq(Kinds \cup {"io"})
    BY <2>2, AppendProperties
  <2>4. pendings' \in Seq(Kinds \cup {"io"})
    BY <1>14, <2>2, <2>3 DEF PipeScan
  <2>5. sent' \in [Kinds -> BOOLEAN]
    BY <1>14, <2>1 DEF PipeScan, IInv, TypeOK
  <2>6. QED
    BY <1>14, <2>1, <2>4, <2>5 DEF PipeScan, Goto, IInv, TypeOK, LoopPc, flags, batch
<1>15. ASSUME NEW s \in Threads, TestPending(s) PROVE TypeOK'
  BY <1>15, KindsOfAsyncs DEF TestPending, GotoS, IInv, TypeOK, InStep, LoopPc, SendPc, flags, batch, Elsewhere
<1>16. ASSUME NEW s \in Threads, SetPending(s) PROVE TypeOK'
  BY <1>16, KindsOfAsyncs DEF SetPending, GotoS, IInv, TypeOK, InStep, LoopPc, SendPc, flags, batch, Elsewhere
<1>17. ASSUME NEW s \in Threads, SetSkipped(s) PROVE TypeOK'
  BY <1>17, KindsOfAsyncs DEF SetSkipped, GotoS, IInv, TypeOK, InStep, LoopPc, SendPc, flags, batch, Elsewhere
<1>18. ASSUME NEW s \in Threads, TestWanted(s) PROVE TypeOK'
  BY <1>18, KindsOfAsyncs DEF TestWanted, GotoS, IInv, TypeOK, InStep, LoopPc, SendPc, flags, batch, Elsewhere
<1>19. ASSUME NEW s \in Threads, ClearSkipped(s) PROVE TypeOK'
  BY <1>19, KindsOfAsyncs DEF ClearSkipped, GotoS, IInv, TypeOK, InStep, LoopPc, SendPc, flags, batch, Elsewhere
<1>20. ASSUME NEW s \in Threads, WritePipe(s) PROVE TypeOK'
  BY <1>20, KindsOfAsyncs DEF WritePipe, GotoS, IInv, TypeOK, InStep, LoopPc, SendPc, flags, batch, Elsewhere
<1>21. ASSUME NEW s \in Threads, NEW a \in Kinds, Send(s, a) PROVE TypeOK'
  BY <1>21, KindsOfAsyncs DEF Send, GotoS, IInv, TypeOK, InStep, LoopPc, SendPc, flags, batch, Elsewhere
<1>22. CASE UNCHANGED vars
  BY <1>22, KindsOfAsyncs DEF vars, IInv, TypeOK, InStep, LoopPc, SendPc, flags, batch, Elsewhere
<1>23. QED
  BY <1>1, <1>2, <1>3, <1>4, <1>5, <1>6, <1>7, <1>8, <1>9, <1>10, <1>11, <1>12, <1>13, <1>14, <1>15, <1>16, <1>17, <1>18, <1>19, <1>20, <1>21, <1>22 DEF Next, LoopStep, SenderStep

\* The loop's place decides the same as before.
LEMMA InStepKept ==
  ASSUME IInv, [Next]_vars
  PROVE  InStep'
<1>1. CASE Start
  BY <1>1, KindsOfAsyncs DEF Start, Goto, IInv, TypeOK, InStep, flags, batch, Elsewhere
<1>2. CASE WantWakeup
  BY <1>2, KindsOfAsyncs DEF WantWakeup, Goto, IInv, TypeOK, InStep, flags, batch, Elsewhere
<1>3. CASE Decide
  BY <1>3, KindsOfAsyncs DEF Decide, Goto, IInv, TypeOK, InStep, flags, batch, Elsewhere
<1>4. CASE Poll
  BY <1>4, KindsOfAsyncs DEF Poll, Goto, IInv, TypeOK, InStep, flags, batch, Elsewhere
<1>5. CASE WantNoWakeup
  BY <1>5, KindsOfAsyncs DEF WantNoWakeup, Goto, IInv, TypeOK, InStep, flags, batch, Elsewhere
<1>6. CASE FeedSkipped
  BY <1>6, KindsOfAsyncs DEF FeedSkipped, Goto, IInv, TypeOK, InStep, flags, batch, Elsewhere
<1>7. CASE InvokePipe
  BY <1>7, KindsOfAsyncs DEF InvokePipe, Goto, IInv, TypeOK, InStep, flags, batch, Elsewhere
<1>8. CASE Invoke
  BY <1>8, KindsOfAsyncs DEF Invoke, Goto, IInv, TypeOK, InStep, flags, batch, Elsewhere
<1>9. CASE Return
  BY <1>9, KindsOfAsyncs DEF Return, IInv, TypeOK, InStep, flags, batch, Elsewhere
<1>10. CASE EndIteration
  BY <1>10, KindsOfAsyncs DEF EndIteration, Goto, IInv, TypeOK, InStep, flags, batch, Elsewhere
<1>11. CASE ReadPipe
  BY <1>11, KindsOfAsyncs DEF ReadPipe, Goto, IInv, TypeOK, InStep, flags, batch, Elsewhere
<1>12. CASE PipeClearSkipped
  BY <1>12, KindsOfAsyncs DEF PipeClearSkipped, Goto, IInv, TypeOK, InStep, flags, batch, Elsewhere
<1>13. CASE PipeTakeFlag
  <2>1. Len(Asyncs) # 0
    BY KindsOfAsyncs
  <2>2. QED
    BY <1>13, <2>1, KindsOfAsyncs DEF PipeTakeFlag, Goto, IInv, TypeOK, InStep, flags, batch
<1>14. CASE PipeScan
  BY <1>14, KindsOfAsyncs DEF PipeScan, Goto, IInv, TypeOK, InStep, flags, batch, Elsewhere
<1>15. ASSUME NEW s \in Threads, TestPending(s) PROVE InStep'
  BY <1>15, KindsOfAsyncs DEF TestPending, GotoS, IInv, TypeOK, InStep, flags, batch, Elsewhere
<1>16. ASSUME NEW s \in Threads, SetPending(s) PROVE InStep'
  BY <1>16, KindsOfAsyncs DEF SetPending, GotoS, IInv, TypeOK, InStep, flags, batch, Elsewhere
<1>17. ASSUME NEW s \in Threads, SetSkipped(s) PROVE InStep'
  BY <1>17, KindsOfAsyncs DEF SetSkipped, GotoS, IInv, TypeOK, InStep, flags, batch, Elsewhere
<1>18. ASSUME NEW s \in Threads, TestWanted(s) PROVE InStep'
  BY <1>18, KindsOfAsyncs DEF TestWanted, GotoS, IInv, TypeOK, InStep, flags, batch, Elsewhere
<1>19. ASSUME NEW s \in Threads, ClearSkipped(s) PROVE InStep'
  BY <1>19, KindsOfAsyncs DEF ClearSkipped, GotoS, IInv, TypeOK, InStep, flags, batch, Elsewhere
<1>20. ASSUME NEW s \in Threads, WritePipe(s) PROVE InStep'
  BY <1>20, KindsOfAsyncs DEF WritePipe, GotoS, IInv, TypeOK, InStep, flags, batch, Elsewhere
<1>21. ASSUME NEW s \in Threads, NEW a \in Kinds, Send(s, a) PROVE InStep'
  BY <1>21, KindsOfAsyncs DEF Send, GotoS, IInv, TypeOK, InStep, flags, batch, Elsewhere
<1>22. CASE UNCHANGED vars
  BY <1>22, KindsOfAsyncs DEF vars, IInv, TypeOK, InStep, flags, batch, Elsewhere
<1>23. QED
  BY <1>1, <1>2, <1>3, <1>4, <1>5, <1>6, <1>7, <1>8, <1>9, <1>10, <1>11, <1>12, <1>13, <1>14, <1>15, <1>16, <1>17, <1>18, <1>19, <1>20, <1>21, <1>22 DEF Next, LoopStep, SenderStep

\* No flag is left behind.
LEMMA FlaggedKept ==
  ASSUME IInv, [Next]_vars
  PROVE  Flagged'
<1>1. CASE Start
  BY <1>1, KindsOfAsyncs DEF Start, Goto, IInv, TypeOK, InStep, Flagged, flags, batch, Elsewhere
<1>2. CASE WantWakeup
  BY <1>2, KindsOfAsyncs DEF WantWakeup, Goto, IInv, TypeOK, InStep, Flagged, flags, batch, Elsewhere
<1>3. CASE Decide
  BY <1>3, KindsOfAsyncs DEF Decide, Goto, IInv, TypeOK, InStep, Flagged, flags, batch, Elsewhere
<1>4. CASE Poll
  BY <1>4, KindsOfAsyncs DEF Poll, Goto, IInv, TypeOK, InStep, Flagged, flags, batch, Elsewhere
<1>5. CASE WantNoWakeup
  BY <1>5, KindsOfAsyncs DEF WantNoWakeup, Goto, IInv, TypeOK, InStep, Flagged, flags, batch, Elsewhere
<1>6. CASE FeedSkipped
  BY <1>6, KindsOfAsyncs DEF FeedSkipped, Goto, IInv, TypeOK, InStep, Flagged, flags, batch, Elsewhere
<1>7. CASE InvokePipe
  BY <1>7, KindsOfAsyncs DEF InvokePipe, Goto, IInv, TypeOK, InStep, Flagged, flags, batch, Elsewhere
<1>8. CASE Invoke
  BY <1>8, KindsOfAsyncs DEF Invoke, Goto, IInv, TypeOK, InStep, Flagged, flags, batch, Elsewhere
<1>9. CASE Return
  BY <1>9, KindsOfAsyncs DEF Return, IInv, TypeOK, InStep, Flagged, flags, batch, Elsewhere
<1>10. CASE EndIteration
  BY <1>10, KindsOfAsyncs DEF EndIteration, Goto, IInv, TypeOK, InStep, Flagged, flags, batch, Elsewhere
<1>11. CASE ReadPipe
  BY <1>11, KindsOfAsyncs DEF ReadPipe, Goto, IInv, TypeOK, InStep, Flagged, flags, batch, Elsewhere
<1>12. CASE PipeClearSkipped
  BY <1>12, KindsOfAsyncs DEF PipeClearSkipped, Goto, IInv, TypeOK, InStep, Flagged, flags, batch, Elsewhere
<1>13. CASE PipeTakeFlag
  BY <1>13, KindsOfAsyncs DEF PipeTakeFlag, Goto, IInv, TypeOK, InStep, Flagged, flags, batch, Elsewhere
<1>14. CASE PipeScan
  <2>1. scan \in 1..Len(Asyncs) /\ scan' = scan - 1 /\ sent \in [Kinds -> BOOLEAN]
    BY <1>14, KindsOfAsyncs DEF PipeScan, Goto, IInv, TypeOK, InStep
  <2>2. ASSUME NEW a \in Kinds, sent'[a] PROVE sent[a] /\ a # Asyncs[scan]
    BY <1>14, <2>1, <2>2, KindsOfAsyncs DEF PipeScan
  <2>3. UNCHANGED <<async_pending, spc>>
    BY <1>14 DEF PipeScan, flags
  <2>4. ASSUME NEW i \in 1..scan, Asyncs[i] # Asyncs[scan] PROVE i \in 1..scan'
    BY <2>1, <2>4
  <2>5. QED
    BY <2>1, <2>2, <2>3, <2>4 DEF IInv, Flagged
<1>15. ASSUME NEW s \in Threads, TestPending(s) PROVE Flagged'
  BY <1>15, KindsOfAsyncs DEF TestPending, GotoS, IInv, TypeOK, InStep, Flagged, flags, batch, Elsewhere
<1>16. ASSUME NEW s \in Threads, SetPending(s) PROVE Flagged'
  BY <1>16, KindsOfAsyncs DEF SetPending, GotoS, IInv, TypeOK, InStep, Flagged, flags, batch, Elsewhere
<1>17. ASSUME NEW s \in Threads, SetSkipped(s) PROVE Flagged'
  BY <1>17, KindsOfAsyncs DEF SetSkipped, GotoS, IInv, TypeOK, InStep, Flagged, flags, batch, Elsewhere
<1>18. ASSUME NEW s \in Threads, TestWanted(s) PROVE Flagged'
  BY <1>18, KindsOfAsyncs DEF TestWanted, GotoS, IInv, TypeOK, InStep, Flagged, flags, batch, Elsewhere
<1>19. ASSUME NEW s \in Threads, ClearSkipped(s) PROVE Flagged'
  BY <1>19, KindsOfAsyncs DEF ClearSkipped, GotoS, IInv, TypeOK, InStep, Flagged, flags, batch, Elsewhere
<1>20. ASSUME NEW s \in Threads, WritePipe(s) PROVE Flagged'
  BY <1>20, KindsOfAsyncs DEF WritePipe, GotoS, IInv, TypeOK, InStep, Flagged, flags, batch, Elsewhere
<1>21. ASSUME NEW s \in Threads, NEW a \in Kinds, Send(s, a) PROVE Flagged'
  BY <1>21, KindsOfAsyncs DEF Send, GotoS, IInv, TypeOK, InStep, Flagged, flags, batch, Elsewhere
<1>22. CASE UNCHANGED vars
  BY <1>22, KindsOfAsyncs DEF vars, IInv, TypeOK, InStep, Flagged, flags, batch, Elsewhere
<1>23. QED
  BY <1>1, <1>2, <1>3, <1>4, <1>5, <1>6, <1>7, <1>8, <1>9, <1>10, <1>11, <1>12, <1>13, <1>14, <1>15, <1>16, <1>17, <1>18, <1>19, <1>20, <1>21, <1>22 DEF Next, LoopStep, SenderStep

\* Nor is async_pending.
LEMMA NoticedKept ==
  ASSUME IInv, [Next]_vars
  PROVE  Noticed'
<1>1. CASE Start
  BY <1>1, KindsOfAsyncs DEF Start, Goto, IInv, TypeOK, InStep, Noticed, flags, batch, Elsewhere
<1>2. CASE WantWakeup
  BY <1>2, KindsOfAsyncs DEF WantWakeup, Goto, IInv, TypeOK, InStep, Noticed, flags, batch, Elsewhere
<1>3. CASE Decide
  BY <1>3, KindsOfAsyncs DEF Decide, Goto, IInv, TypeOK, InStep, Noticed, flags, batch, Elsewhere
<1>4. CASE Poll
  BY <1>4, KindsOfAsyncs DEF Poll, Goto, IInv, TypeOK, InStep, Noticed, flags, batch, Elsewhere
<1>5. CASE WantNoWakeup
  BY <1>5, KindsOfAsyncs DEF WantNoWakeup, Goto, IInv, TypeOK, InStep, Noticed, flags, batch, Elsewhere
<1>6. CASE FeedSkipped
  BY <1>6, KindsOfAsyncs DEF FeedSkipped, Goto, IInv, TypeOK, InStep, Noticed, flags, batch, Elsewhere
<1>7. CASE InvokePipe
  BY <1>7, KindsOfAsyncs DEF InvokePipe, Goto, IInv, TypeOK, InStep, Noticed, flags, batch, Elsewhere
<1>8. CASE Invoke
  BY <1>8, KindsOfAsyncs DEF Invoke, Goto, IInv, TypeOK, InStep, Noticed, flags, batch, Elsewhere
<1>9. CASE Return
  BY <1>9, KindsOfAsyncs DEF Return, IInv, TypeOK, InStep, Noticed, flags, batch, Elsewhere
<1>10. CASE EndIteration
  BY <1>10, KindsOfAsyncs DEF EndIteration, Goto, IInv, TypeOK, InStep, Noticed, flags, batch, Elsewhere
<1>11. CASE ReadPipe
  BY <1>11, KindsOfAsyncs DEF ReadPipe, Goto, IInv, TypeOK, InStep, Noticed, flags, batch, Elsewhere
<1>12. CASE PipeClearSkipped
  BY <1>12, KindsOfAsyncs DEF PipeClearSkipped, Goto, IInv, TypeOK, InStep, Noticed, flags, batch, Elsewhere
<1>13. CASE PipeTakeFlag
  BY <1>13, KindsOfAsyncs DEF PipeTakeFlag, Goto, IInv, TypeOK, InStep, Noticed, flags, batch, Elsewhere
<1>14. CASE PipeScan
  BY <1>14, KindsOfAsyncs DEF PipeScan, Goto, IInv, TypeOK, InStep, Noticed, flags, batch, Elsewhere
<1>15. ASSUME NEW s \in Threads, TestPending(s) PROVE Noticed'
  BY <1>15, KindsOfAsyncs DEF TestPending, GotoS, IInv, TypeOK, InStep, Noticed, flags, batch, Elsewhere
<1>16. ASSUME NEW s \in Threads, SetPending(s) PROVE Noticed'
  BY <1>16, KindsOfAsyncs DEF SetPending, GotoS, IInv, TypeOK, InStep, Noticed, flags, batch, Elsewhere
<1>17. ASSUME NEW s \in Threads, SetSkipped(s) PROVE Noticed'
  BY <1>17, KindsOfAsyncs DEF SetSkipped, GotoS, IInv, TypeOK, InStep, Noticed, flags, batch, Elsewhere
<1>18. ASSUME NEW s \in Threads, TestWanted(s) PROVE Noticed'
  BY <1>18, KindsOfAsyncs DEF TestWanted, GotoS, IInv, TypeOK, InStep, Noticed, flags, batch, Elsewhere
<1>19. ASSUME NEW s \in Threads, ClearSkipped(s) PROVE Noticed'
  BY <1>19, KindsOfAsyncs DEF ClearSkipped, GotoS, IInv, TypeOK, InStep, Noticed, flags, batch, Elsewhere
<1>20. ASSUME NEW s \in Threads, WritePipe(s) PROVE Noticed'
  BY <1>20, KindsOfAsyncs DEF WritePipe, GotoS, IInv, TypeOK, InStep, Noticed, flags, batch, Elsewhere
<1>21. ASSUME NEW s \in Threads, NEW a \in Kinds, Send(s, a) PROVE Noticed'
  BY <1>21, KindsOfAsyncs DEF Send, GotoS, IInv, TypeOK, InStep, Noticed, flags, batch, Elsewhere
<1>22. CASE UNCHANGED vars
  BY <1>22, KindsOfAsyncs DEF vars, IInv, TypeOK, InStep, Noticed, flags, batch, Elsewhere
<1>23. QED
  BY <1>1, <1>2, <1>3, <1>4, <1>5, <1>6, <1>7, <1>8, <1>9, <1>10, <1>11, <1>12, <1>13, <1>14, <1>15, <1>16, <1>17, <1>18, <1>19, <1>20, <1>21, <1>22 DEF Next, LoopStep, SenderStep

\* Nor is a skipped write.
LEMMA MadeUpForKept ==
  ASSUME IInv, [Next]_vars
  PROVE  MadeUpFor'
<1>1. CASE Start
  BY <1>1, KindsOfAsyncs DEF Start, Goto, IInv, TypeOK, InStep, MadeUpFor, flags, batch, Elsewhere
<1>2. CASE WantWakeup
  BY <1>2, KindsOfAsyncs DEF WantWakeup, Goto, IInv, TypeOK, InStep, MadeUpFor, flags, batch, Elsewhere
<1>3. CASE Decide
  BY <1>3, KindsOfAsyncs DEF Decide, Goto, IInv, TypeOK, InStep, MadeUpFor, flags, batch, Elsewhere
<1>4. CASE Poll
  BY <1>4, KindsOfAsyncs DEF Poll, Goto, IInv, TypeOK, InStep, MadeUpFor, flags, batch, Elsewhere
<1>5. CASE WantNoWakeup
  BY <1>5, KindsOfAsyncs DEF WantNoWakeup, Goto, IInv, TypeOK, InStep, MadeUpFor, flags, batch, Elsewhere
<1>6. CASE FeedSkipped
  BY <1>6, KindsOfAsyncs DEF FeedSkipped, Goto, IInv, TypeOK, InStep, MadeUpFor, flags, batch, Elsewhere
<1>7. CASE InvokePipe
  BY <1>7, KindsOfAsyncs DEF InvokePipe, Goto, IInv, TypeOK, InStep, MadeUpFor, flags, batch, Elsewhere
<1>8. CASE Invoke
  BY <1>8, KindsOfAsyncs DEF Invoke, Goto, IInv, TypeOK, InStep, MadeUpFor, flags, batch, Elsewhere
<1>9. CASE Return
  BY <1>9, KindsOfAsyncs DEF Return, IInv, TypeOK, InStep, MadeUpFor, flags, batch, Elsewhere
<1>10. CASE EndIteration
  BY <1>10, KindsOfAsyncs DEF EndIteration, Goto, IInv, TypeOK, InStep, MadeUpFor, flags, batch, Elsewhere
<1>11. CASE ReadPipe
  BY <1>11, KindsOfAsyncs DEF ReadPipe, Goto, IInv, TypeOK, InStep, MadeUpFor, flags, batch, Elsewhere
<1>12. CASE PipeClearSkipped
  BY <1>12, KindsOfAsyncs DEF PipeClearSkipped, Goto, IInv, TypeOK, InStep, MadeUpFor, flags, batch, Elsewhere
<1>13. CASE PipeTakeFlag
  BY <1>13, KindsOfAsyncs DEF PipeTakeFlag, Goto, IInv, TypeOK, InStep, MadeUpFor, flags, batch, Elsewhere
<1>14. CASE PipeScan
  BY <1>14, KindsOfAsyncs DEF PipeScan, Goto, IInv, TypeOK, InStep, MadeUpFor, flags, batch, Elsewhere
<1>15. ASSUME NEW s \in Threads, TestPending(s) PROVE MadeUpFor'
  BY <1>15, KindsOfAsyncs DEF TestPending, GotoS, IInv, TypeOK, InStep, MadeUpFor, flags, batch, Elsewhere
<1>16. ASSUME NEW s \in Threads, SetPending(s) PROVE MadeUpFor'
  BY <1>16, KindsOfAsyncs DEF SetPending, GotoS, IInv, TypeOK, InStep, MadeUpFor, flags, batch, Elsewhere
<1>17. ASSUME NEW s \in Threads, SetSkipped(s) PROVE MadeUpFor'
  BY <1>17, KindsOfAsyncs DEF SetSkipped, GotoS, IInv, TypeOK, InStep, MadeUpFor, flags, batch, Elsewhere
<1>18. ASSUME NEW s \in Threads, TestWanted(s) PROVE MadeUpFor'
  BY <1>18, KindsOfAsyncs DEF TestWanted, GotoS, IInv, TypeOK, InStep, MadeUpFor, flags, batch, Elsewhere
<1>19. ASSUME NEW s \in Threads, ClearSkipped(s) PROVE MadeUpFor'
  BY <1>19, KindsOfAsyncs DEF ClearSkipped, GotoS, IInv, TypeOK, InStep, MadeUpFor, flags, batch, Elsewhere
<1>20. ASSUME NEW s \in Threads, WritePipe(s) PROVE MadeUpFor'
  BY <1>20, KindsOfAsyncs DEF WritePipe, GotoS, IInv, TypeOK, InStep, MadeUpFor, flags, batch, Elsewhere
<1>21. ASSUME NEW s \in Threads, NEW a \in Kinds, Send(s, a) PROVE MadeUpFor'
  BY <1>21, KindsOfAsyncs DEF Send, GotoS, IInv, TypeOK, InStep, MadeUpFor, flags, batch, Elsewhere
<1>22. CASE UNCHANGED vars
  BY <1>22, KindsOfAsyncs DEF vars, IInv, TypeOK, InStep, MadeUpFor, flags, batch, Elsewhere
<1>23. QED
  BY <1>1, <1>2, <1>3, <1>4, <1>5, <1>6, <1>7, <1>8, <1>9, <1>10, <1>11, <1>12, <1>13, <1>14, <1>15, <1>16, <1>17, <1>18, <1>19, <1>20, <1>21, <1>22 DEF Next, LoopStep, SenderStep

LEMMA InitInv == Init => IInv
<1>1. SUFFICES ASSUME Init PROVE IInv
  OBVIOUS
<1>2. pendings \in Seq(Kinds \cup {"io"})
  BY <1>1, EmptySeq DEF Init
<1>3. TypeOK
  <2>1. sent \in [Kinds -> BOOLEAN] /\ spc \in [Threads -> SendPc]
    BY <1>1 DEF Init, SendPc
  <2>2. scan \in 0..Len(Asyncs)
    BY <1>1, KindsOfAsyncs DEF Init
  <2>3. pc \in LoopPc /\ pipe_w \subseteq {"read", "custom"}
    BY <1>1 DEF Init, LoopPc
  <2>4. /\ async_pending \in BOOLEAN /\ pipe_write_wanted \in BOOLEAN
        /\ pipe_write_skipped \in BOOLEAN /\ eventfd \in BOOLEAN
        /\ may_block \in BOOLEAN /\ loop_done \in BOOLEAN
    BY <1>1 DEF Init
  <2>5. QED
    BY <1>2, <2>1, <2>2, <2>3, <2>4 DEF TypeOK
<1>4. InStep
  BY <1>1, KindsOfAsyncs DEF Init, InStep
<1>5. Flagged /\ Noticed /\ MadeUpFor
  BY <1>1 DEF Init, Flagged, Noticed, MadeUpFor
<1>6. QED
  BY <1>3, <1>4, <1>5 DEF IInv

\* The invariant that all of this rests on.
THEOREM Invariant == Spec => []IInv
<1>1. IInv /\ [Next]_vars => IInv'
  BY TypeStep, InStepKept, FlaggedKept, NoticedKept, MadeUpForKept DEF IInv
<1>2. QED
  BY InitInv, <1>1, PTL DEF Spec

\* Type correctness of the flags, the threads and the loop.
THEOREM WakeupTypes == Spec => []TypeOK
<1>1. IInv => TypeOK
  BY DEF IInv
<1>2. QED
  BY Invariant, <1>1, PTL

\* The loop never sleeps on a request, for any number of senders and watchers.
THEOREM NeverSleepsOnARequest == Spec => []NoLostWakeup
<1>1. ASSUME IInv, pc = "poll", may_block, NEW a \in Kinds, sent[a], ~eventfd
      PROVE  \E s \in Senders : spc[s] # "idle"
  <2>1. scan = 0 /\ pipe_w = {} /\ spc[Loop] = "idle"
    BY <1>1, KindsOfAsyncs DEF IInv, TypeOK, InStep
  <2>2. \E t \in Threads : spc[t] # "idle"
    <3>1. CASE async_pending
      BY <1>1, <2>1, <3>1 DEF IInv, Noticed, MadeUpFor
    <3>2. CASE ~async_pending
      BY <1>1, <2>1, <3>2 DEF IInv, Flagged
    <3>3. QED
      BY <3>1, <3>2
  <2>3. QED
    BY <2>1, <2>2 DEF Threads
<1>2. IInv => NoLostWakeup
  BY <1>1 DEF NoLostWakeup
<1>3. QED
  BY Invariant, <1>2, PTL

-----------------------------------------------------------------------------
(* The refinement of PkRequests.                                             *)

\* What is pending is pending once, and nothing that pipecb has yet to look at.
OnceEach ==
    /\ pc \in {"run", "arm", "decide", "poll"} => pendings = <<>>
    /\ pc \in {"disarm", "skips", "pipe_read", "pipe_skip", "pipe_flag"} \/ pipe_w # {}
          => pendings \in {<<>>, <<"io">>}
    /\ \A i \in 1..scan, n \in 1..Len(pendings) : pendings[n] # Asyncs[i]
    /\ \A m, n \in 1..Len(pendings) : pendings[m] = pendings[n] => m = n
    /\ pc = "run" => ~loop_done

\* Appending adds one, and keeps a sequence without doubles so.
LEMMA AppendOnce ==
  ASSUME NEW S, NEW s \in Seq(S), NEW e \in S
  PROVE  /\ ToSet(Append(s, e)) = ToSet(s) \cup {e}
         /\ (\A m, n \in 1..Len(s) : s[m] = s[n] => m = n) /\ e \notin ToSet(s)
              => \A m, n \in 1..Len(Append(s, e)) :
                    Append(s, e)[m] = Append(s, e)[n] => m = n
<1>1. /\ Len(s) \in Nat /\ DOMAIN s = 1..Len(s)
      /\ DOMAIN Append(s, e) = 1..(Len(s) + 1) /\ Len(Append(s, e)) = Len(s) + 1
      /\ Append(s, e)[Len(s) + 1] = e
      /\ \A i \in 1..Len(s) : Append(s, e)[i] = s[i]
  BY AppendProperties, LenProperties
<1>2. ToSet(Append(s, e)) = ToSet(s) \cup {e}
  <2>1. ASSUME NEW x \in ToSet(Append(s, e))
        PROVE  x \in ToSet(s) \cup {e}
    <3>1. PICK i \in 1..(Len(s) + 1) : Append(s, e)[i] = x
      BY <1>1, <2>1 DEF ToSet
    <3>2. i \in 1..Len(s) \/ i = Len(s) + 1
      BY <1>1
    <3> QED  BY <1>1, <3>1, <3>2 DEF ToSet
  <2>2. ASSUME NEW x \in ToSet(s)
        PROVE  x \in ToSet(Append(s, e))
    <3>1. PICK i \in 1..Len(s) : s[i] = x
      BY <1>1, <2>2 DEF ToSet
    <3>2. i \in 1..(Len(s) + 1)
      BY <1>1
    <3> QED  BY <1>1, <3>1, <3>2 DEF ToSet
  <2>3. e \in ToSet(Append(s, e))
    <3>1. Len(s) + 1 \in 1..(Len(s) + 1)
      BY <1>1
    <3> QED  BY <1>1, <3>1 DEF ToSet
  <2> QED  BY <2>1, <2>2, <2>3
<1>3. ASSUME \A m, n \in 1..Len(s) : s[m] = s[n] => m = n, e \notin ToSet(s),
             NEW m \in 1..Len(Append(s, e)), NEW n \in 1..Len(Append(s, e)),
             Append(s, e)[m] = Append(s, e)[n]
      PROVE  m = n
  <2>1. ASSUME NEW i \in 1..Len(s)
        PROVE  Append(s, e)[i] # e
    BY <1>1, <1>3, <2>1 DEF ToSet
  <2>2. /\ m \in 1..Len(s) \/ m = Len(s) + 1
        /\ n \in 1..Len(s) \/ n = Len(s) + 1
    BY <1>1
  <2> QED  BY <1>1, <1>3, <2>1, <2>2
<1>4. QED
  BY <1>2, <1>3

\* Without the last element a sequence without doubles lacks just that.
LEMMA FrontOnce ==
  ASSUME NEW S, NEW s \in Seq(S), s # <<>>,
         \A m, n \in 1..Len(s) : s[m] = s[n] => m = n
  PROVE  /\ Front(s) \in Seq(S) /\ Len(Front(s)) = Len(s) - 1 /\ Len(s) \in Nat \ {0}
         /\ \A i \in 1..(Len(s) - 1) : Front(s)[i] = s[i]
         /\ Last(s) = s[Len(s)] /\ Last(s) \in ToSet(s)
         /\ ToSet(Front(s)) = ToSet(s) \ {Last(s)}
<1> DEFINE n == Len(s)
<1>1. n \in Nat \ {0} /\ DOMAIN s = 1..n
  BY EmptySeq, LenProperties
<1>2. /\ Front(s) \in Seq(S) /\ Len(Front(s)) = Len(s) - 1
      /\ \A i \in 1..(Len(s) - 1) : Front(s)[i] = s[i]
  BY <1>1 DEF Front
<1>3. Last(s) = s[Len(s)]
  BY <1>1 DEF Last
<1>4. DOMAIN Front(s) = 1..(Len(s) - 1)
  BY <1>1, <1>2, LenProperties
<1>5. Last(s) \in ToSet(s)
  BY <1>1, <1>3 DEF ToSet
<1>6. ASSUME NEW x \in ToSet(Front(s)) PROVE x \in ToSet(s) /\ x # Last(s)
  <2>1. PICK i \in 1..(n - 1) : Front(s)[i] = x
    BY <1>4 DEF ToSet
  <2>2. i \in 1..n /\ n \in 1..n /\ i # n
    <3> HIDE DEF n
    <3> QED
      BY <1>1
  <2>3. s[i] = x /\ s[i] # s[n]
    BY <1>2, <2>1, <2>2
  <2>4. QED
    BY <1>1, <1>3, <2>2, <2>3 DEF ToSet
<1>7. ASSUME NEW x \in ToSet(s), x # Last(s) PROVE x \in ToSet(Front(s))
  <2>1. PICK i \in 1..n : s[i] = x
    BY <1>1 DEF ToSet
  <2>2. i # n
    BY <1>3, <1>7, <2>1
  <2>3. i \in 1..(n - 1)
    <3> HIDE DEF n
    <3> QED
      BY <1>1, <2>2
  <2>4. QED
    BY <1>2, <1>4, <2>1, <2>3 DEF ToSet
<1>9. ToSet(Front(s)) = ToSet(s) \ {Last(s)}
  BY <1>6, <1>7
<1>10. QED
  BY <1>1, <1>2, <1>3, <1>5, <1>9

\* That is kept.
LEMMA OnceEachKept ==
  ASSUME IInv, OnceEach, [Next]_vars
  PROVE  OnceEach'
<1>1. CASE Start
  BY <1>1, KindsOfAsyncs DEF Start, Goto, IInv, TypeOK, InStep, OnceEach, flags, batch, Elsewhere
<1>2. CASE WantWakeup
  BY <1>2, KindsOfAsyncs DEF WantWakeup, Goto, IInv, TypeOK, InStep, OnceEach, flags, batch, Elsewhere
<1>3. CASE Decide
  BY <1>3, KindsOfAsyncs DEF Decide, Goto, IInv, TypeOK, InStep, OnceEach, flags, batch, Elsewhere
<1>4. CASE Poll
  <2>1. Len(<<"io">>) = 1 /\ Len(<<>>) = 0
    OBVIOUS
  <2>2. pendings' \in {<<>>, <<"io">>} /\ scan' = 0 /\ pc' = "disarm"
    BY <1>4, KindsOfAsyncs DEF Poll, Goto, IInv, TypeOK, InStep
  <2>3. QED
    BY <2>1, <2>2 DEF OnceEach
<1>5. CASE WantNoWakeup
  BY <1>5, KindsOfAsyncs DEF WantNoWakeup, Goto, IInv, TypeOK, InStep, OnceEach, flags, batch, Elsewhere
<1>6. CASE FeedSkipped
  BY <1>6, KindsOfAsyncs DEF FeedSkipped, Goto, IInv, TypeOK, InStep, OnceEach, flags, batch, Elsewhere
<1>7. CASE InvokePipe
  BY <1>7, KindsOfAsyncs DEF InvokePipe, Goto, IInv, TypeOK, InStep, OnceEach, flags, batch, Elsewhere
<1>8. CASE Invoke
  <2>1. pendings \in Seq(Kinds \cup {"io"}) /\ pendings # <<>> /\ scan = 0
    BY <1>8, KindsOfAsyncs DEF Invoke, Goto, IInv, TypeOK, InStep
  <2>2. pendings' = Front(pendings) /\ pc' = "callback" /\ pipe_w' = {} /\ scan' = 0
    BY <1>8, <2>1 DEF Invoke, Goto
  <2>3. /\ Len(pendings') = Len(pendings) - 1 /\ Len(pendings) \in Nat
        /\ \A i \in 1..(Len(pendings) - 1) : pendings'[i] = pendings[i]
    BY <2>1, <2>2, FrontOnce DEF OnceEach
  <2>4. QED
    BY <2>2, <2>3 DEF OnceEach
<1>9. CASE Return
  BY <1>9, KindsOfAsyncs DEF Return, IInv, TypeOK, InStep, OnceEach, flags, batch, Elsewhere
<1>10. CASE EndIteration
  BY <1>10, KindsOfAsyncs DEF EndIteration, Goto, IInv, TypeOK, InStep, OnceEach, flags, batch, Elsewhere
<1>11. CASE ReadPipe
  BY <1>11, KindsOfAsyncs DEF ReadPipe, Goto, IInv, TypeOK, InStep, OnceEach, flags, batch, Elsewhere
<1>12. CASE PipeClearSkipped
  BY <1>12, KindsOfAsyncs DEF PipeClearSkipped, Goto, IInv, TypeOK, InStep, OnceEach, flags, batch, Elsewhere
<1>13. CASE PipeTakeFlag
  <2>1. pendings' \in {<<>>, <<"io">>} /\ pipe_w' = {} /\ pendings' = pendings
    BY <1>13 DEF PipeTakeFlag, Goto, OnceEach, IInv, InStep, batch
  <2>2. pc' \in {"invoke", "pipe_scan"}
    BY <1>13 DEF PipeTakeFlag, Goto
  <2>3. Len(<<"io">>) = 1 /\ Len(<<>>) = 0
    OBVIOUS
  <2>4. \A i \in 1..scan', n \in 1..Len(pendings') : pendings'[n] # Asyncs[i]
    <3>1. scan' \in 0..Len(Asyncs)
      BY <1>13, KindsOfAsyncs DEF PipeTakeFlag
    <3>2. QED
      BY <2>1, <2>3, <3>1, KindsOfAsyncs
  <2>5. QED
    BY <2>1, <2>2, <2>4 DEF OnceEach
<1>14. CASE PipeScan
  <2>1. /\ pendings \in Seq(Kinds \cup {"io"}) /\ scan \in 1..Len(Asyncs)
        /\ Asyncs[scan] \in Kinds \cup {"io"} /\ scan' = scan - 1 /\ pipe_w' = {}
    BY <1>14, KindsOfAsyncs DEF PipeScan, Goto, IInv, TypeOK, InStep
  <2>2. Asyncs[scan] \notin ToSet(pendings)
    BY <2>1, LenProperties DEF OnceEach, ToSet
  <2>3. pc' \in {"invoke", "pipe_scan"}
    BY <1>14 DEF PipeScan, Goto
  <2>4. CASE pendings' = pendings
    BY <2>1, <2>3, <2>4, KindsOfAsyncs DEF OnceEach
  <2>5. CASE pendings' = Append(pendings, Asyncs[scan])
    <3>1. \A m, n \in 1..Len(pendings') : pendings'[m] = pendings'[n] => m = n
      BY <2>1, <2>2, <2>5, AppendOnce DEF OnceEach
    <3>2. \A n \in 1..Len(pendings') :
             pendings'[n] = Asyncs[scan]
             \/ (n \in 1..Len(pendings) /\ pendings'[n] = pendings[n])
      BY <2>1, <2>5, AppendProperties, LenProperties
    <3>3. \A i \in 1..scan', n \in 1..Len(pendings') : pendings'[n] # Asyncs[i]
      BY <2>1, <3>2, KindsOfAsyncs DEF OnceEach
    <3>4. QED
      BY <2>1, <2>3, <3>1, <3>3 DEF OnceEach
  <2>6. QED
    BY <1>14, <2>4, <2>5 DEF PipeScan
<1>15. ASSUME NEW s \in Threads, TestPending(s) PROVE OnceEach'
  BY <1>15, KindsOfAsyncs DEF TestPending, GotoS, IInv, TypeOK, InStep, OnceEach, flags, batch, Elsewhere
<1>16. ASSUME NEW s \in Threads, SetPending(s) PROVE OnceEach'
  BY <1>16, KindsOfAsyncs DEF SetPending, GotoS, IInv, TypeOK, InStep, OnceEach, flags, batch, Elsewhere
<1>17. ASSUME NEW s \in Threads, SetSkipped(s) PROVE OnceEach'
  BY <1>17, KindsOfAsyncs DEF SetSkipped, GotoS, IInv, TypeOK, InStep, OnceEach, flags, batch, Elsewhere
<1>18. ASSUME NEW s \in Threads, TestWanted(s) PROVE OnceEach'
  BY <1>18, KindsOfAsyncs DEF TestWanted, GotoS, IInv, TypeOK, InStep, OnceEach, flags, batch, Elsewhere
<1>19. ASSUME NEW s \in Threads, ClearSkipped(s) PROVE OnceEach'
  BY <1>19, KindsOfAsyncs DEF ClearSkipped, GotoS, IInv, TypeOK, InStep, OnceEach, flags, batch, Elsewhere
<1>20. ASSUME NEW s \in Threads, WritePipe(s) PROVE OnceEach'
  BY <1>20, KindsOfAsyncs DEF WritePipe, GotoS, IInv, TypeOK, InStep, OnceEach, flags, batch, Elsewhere
<1>21. ASSUME NEW s \in Threads, NEW a \in Kinds, Send(s, a) PROVE OnceEach'
  BY <1>21, KindsOfAsyncs DEF Send, GotoS, IInv, TypeOK, InStep, OnceEach, flags, batch, Elsewhere
<1>22. CASE UNCHANGED vars
  BY <1>22, KindsOfAsyncs DEF vars, IInv, TypeOK, InStep, OnceEach, flags, batch, Elsewhere
<1>23. QED
  BY <1>1, <1>2, <1>3, <1>4, <1>5, <1>6, <1>7, <1>8, <1>9, <1>10, <1>11, <1>12, <1>13, <1>14, <1>15, <1>16, <1>17, <1>18, <1>19, <1>20, <1>21, <1>22 DEF Next, LoopStep, SenderStep

\* A step that leaves the sent flags, the pending events and the end alone.
LEMMA Stutters ==
  ASSUME UNCHANGED <<sent, pendings, loop_done>>, (pc = "stopped") <=> (pc' = "stopped")
  PROVE  UNCHANGED Requests!vars
BY DEF Requests!vars

\* Every step is one of PkRequests or none at all.
LEMMA StepRefines ==
  ASSUME IInv, OnceEach, [Next]_vars
  PROVE  [Requests!Next]_(Requests!vars)
<1>1. CASE Start
  <2>1. loop_done' = loop_done
    BY <1>1 DEF Start, Goto, IInv, TypeOK, OnceEach
  <2>2. UNCHANGED <<sent, pendings>> /\ pc # "stopped" /\ pc' # "stopped"
    BY <1>1 DEF Start, Goto, batch
  <2>3. QED
    BY <2>1, <2>2, Stutters
<1>2. CASE WantWakeup
  BY <1>2, Stutters DEF WantWakeup, Goto, flags, batch, Elsewhere, Goto, GotoS
<1>3. CASE Decide
  BY <1>3, Stutters DEF Decide, Goto, flags, batch, Elsewhere, Goto, GotoS
<1>4. CASE Poll
  <2>1. ToSet(<<"io">>) = {"io"} /\ ToSet(<<>>) = {}
    BY DEF ToSet
  <2>2. ToSet(pendings') \ {"io"} = ToSet(pendings) \ {"io"}
    BY <1>4, <2>1 DEF Poll, Goto, OnceEach
  <2>3. QED
    BY <1>4, <2>2 DEF Poll, Goto, Requests!vars
<1>5. CASE WantNoWakeup
  BY <1>5, Stutters DEF WantNoWakeup, Goto, flags, batch, Elsewhere, Goto, GotoS
<1>6. CASE FeedSkipped
  BY <1>6, Stutters DEF FeedSkipped, Goto, flags, batch, Elsewhere, Goto, GotoS
<1>7. CASE InvokePipe
  BY <1>7, Stutters DEF InvokePipe, Goto, flags, batch, Elsewhere, Goto, GotoS
<1>8. CASE Invoke
  <2> DEFINE k == Last(pendings)
  <2>1. pendings \in Seq(Kinds \cup {"io"}) /\ pendings # <<>>
    BY <1>8 DEF Invoke, IInv, TypeOK
  <2>2. ToSet(Front(pendings)) = ToSet(pendings) \ {k} /\ k \in ToSet(pendings)
    BY <2>1, FrontOnce DEF OnceEach
  <2>3. k \in Kinds \cup {"io"}
    BY <2>1, <2>2, ElementOfSeq, LenProperties DEF ToSet
  <2>4. /\ sent' = sent /\ pendings' = Front(pendings) /\ pc = "invoke" /\ pc' = "callback"
        /\ loop_done' = (loop_done \/ k = "quit")
    BY <1>8 DEF Invoke, Goto
  <2>5. CASE k = "io"
    <3>1. (loop_done \/ k = "quit") <=> loop_done
      BY <2>5
    <3>2. loop_done' = loop_done
      BY <2>4, <3>1 DEF IInv, TypeOK
    <3>3. QED
      BY <2>2, <2>4, <2>5, <3>2 DEF Requests!vars
  <2>6. CASE k \in Kinds /\ k # "io"
    <3>1. Requests!Handle(k)
      BY <2>2, <2>4, <2>6 DEF Requests!Handle
    <3>2. QED
      BY <2>6, <3>1 DEF Requests!Next
  <2>7. QED
    BY <2>3, <2>5, <2>6, KindsOfAsyncs
<1>9. CASE Return
  BY <1>9, Stutters DEF Return, flags, batch, Elsewhere, Goto, GotoS
<1>10. CASE EndIteration
  <2>1. CASE loop_done
    <3>1. ToSet(pendings) = {}
      BY <1>10 DEF EndIteration, ToSet
    <3>2. Requests!End
      BY <1>10, <2>1, <3>1 DEF EndIteration, Goto, Requests!End, batch
    <3>3. QED
      BY <3>2 DEF Requests!Next
  <2>2. CASE ~loop_done
    BY <1>10, <2>2, Stutters DEF EndIteration, Goto, flags, batch
  <2>3. QED
    BY <2>1, <2>2
<1>11. CASE ReadPipe
  BY <1>11, Stutters DEF ReadPipe, Goto, flags, batch, Elsewhere, Goto, GotoS
<1>12. CASE PipeClearSkipped
  BY <1>12, Stutters DEF PipeClearSkipped, Goto, flags, batch, Elsewhere, Goto, GotoS
<1>13. CASE PipeTakeFlag
  BY <1>13, Stutters DEF PipeTakeFlag, Goto, flags, batch, Elsewhere, Goto, GotoS
<1>14. CASE PipeScan
  <2>0. PICK a \in Kinds : a = Asyncs[scan]
    BY <1>14, KindsOfAsyncs DEF PipeScan, Goto, IInv, TypeOK, InStep
  <2>1. pendings \in Seq(Kinds \cup {"io"}) /\ a # "io"
    BY KindsOfAsyncs DEF IInv, TypeOK
  <2>2. pc # "stopped" /\ pc' # "stopped" /\ loop_done' = loop_done
    BY <1>14 DEF PipeScan, Goto
  <2>3. CASE sent[a]
    <3>1. ToSet(pendings') = ToSet(pendings) \cup {a}
      <4>1. pendings' = Append(pendings, a) /\ a \in Kinds \cup {"io"}
        BY <1>14, <2>0, <2>3 DEF PipeScan
      <4>2. ToSet(Append(pendings, a)) = ToSet(pendings) \cup {a}
        BY <2>1, <4>1, AppendOnce
      <4>3. QED
        BY <4>1, <4>2
    <3>2. {b \in Kinds : sent'[b]} = {b \in Kinds : sent[b]} \ {a}
      BY <1>14, <2>0, <2>3 DEF PipeScan, IInv, TypeOK
    <3>3. Requests!Accept(a)
      BY <2>1, <2>2, <2>3, <3>1, <3>2 DEF Requests!Accept
    <3>4. \E k \in Kinds : Requests!Accept(k)
      BY <3>3
    <3>5. QED
      BY <3>4 DEF Requests!Next
  <2>4. CASE ~sent[a]
    BY <1>14, <2>0, <2>2, <2>4, Stutters DEF PipeScan
  <2>5. QED
    BY <2>3, <2>4
<1>15. ASSUME NEW s \in Threads, TestPending(s) PROVE [Requests!Next]_(Requests!vars)
  BY <1>15, Stutters DEF TestPending, GotoS, flags, batch, Elsewhere, Goto, GotoS
<1>16. ASSUME NEW s \in Threads, SetPending(s) PROVE [Requests!Next]_(Requests!vars)
  BY <1>16, Stutters DEF SetPending, GotoS, flags, batch, Elsewhere, Goto, GotoS
<1>17. ASSUME NEW s \in Threads, SetSkipped(s) PROVE [Requests!Next]_(Requests!vars)
  BY <1>17, Stutters DEF SetSkipped, GotoS, flags, batch, Elsewhere, Goto, GotoS
<1>18. ASSUME NEW s \in Threads, TestWanted(s) PROVE [Requests!Next]_(Requests!vars)
  BY <1>18, Stutters DEF TestWanted, GotoS, flags, batch, Elsewhere, Goto, GotoS
<1>19. ASSUME NEW s \in Threads, ClearSkipped(s) PROVE [Requests!Next]_(Requests!vars)
  BY <1>19, Stutters DEF ClearSkipped, GotoS, flags, batch, Elsewhere, Goto, GotoS
<1>20. ASSUME NEW s \in Threads, WritePipe(s) PROVE [Requests!Next]_(Requests!vars)
  BY <1>20, Stutters DEF WritePipe, GotoS, flags, batch, Elsewhere, Goto, GotoS
<1>21. ASSUME NEW s \in Threads, NEW a \in Kinds, Send(s, a) PROVE [Requests!Next]_(Requests!vars)
  <2>1. {b \in Kinds : sent'[b]} = {b \in Kinds : sent[b]} \cup {a}
    BY <1>21 DEF Send, IInv, TypeOK
  <2>2. (pc = "stopped") <=> (pc' = "stopped")
    BY <1>21 DEF Send
  <2>3. UNCHANGED <<pendings, loop_done>>
    BY <1>21 DEF Send, batch
  <2>4. Requests!Request(a)
    BY <2>1, <2>2, <2>3 DEF Requests!Request
  <2>5. QED
    BY <2>4 DEF Requests!Next
<1>22. CASE UNCHANGED vars
  BY <1>22, Stutters DEF vars, batch
<1>23. QED
  BY <1>1, <1>2, <1>3, <1>4, <1>5, <1>6, <1>7, <1>8, <1>9, <1>10, <1>11, <1>12, <1>13, <1>14, <1>15, <1>16, <1>17, <1>18, <1>19, <1>20, <1>21, <1>22 DEF Next, LoopStep, SenderStep

\* The flags and the pipe implement PkRequests, but for its fairness: nothing is
\* handled that was not asked for, nor twice for one request, no request vanishes,
\* and the loop ends only when asked to and with nothing accepted left over.
THEOREM ImplementsRequests ==
  Spec => Requests!Init /\ [][Requests!Next]_(Requests!vars)
<1>1. Init => OnceEach /\ Requests!Init
  <2>1. SUFFICES ASSUME Init PROVE OnceEach /\ Requests!Init
    OBVIOUS
  <2>2. OnceEach
    <3>1. Len(<<>>) = 0
      OBVIOUS
    <3>2. QED
      BY <2>1, <3>1 DEF Init, OnceEach
  <2>3. Requests!Init
    BY <2>1 DEF Init, Requests!Init, ToSet
  <2>4. QED
    BY <2>2, <2>3
<1>2. IInv /\ OnceEach /\ [Next]_vars => OnceEach'
  BY OnceEachKept
<1>3. IInv /\ OnceEach /\ [Next]_vars => [Requests!Next]_(Requests!vars)
  BY StepRefines
<1>4. QED
  BY Invariant, <1>1, <1>2, <1>3, PTL DEF Spec

-----------------------------------------------------------------------------
(* The watchdog.                                                             *)

\* What pkwatchdog.c takes for granted: that twice the longest interval is more than
\* any interval.  The setters of the two intervals do not see to it, and a rejected
\* program ticks more slowly.
Patient == 1 + IntervalMin <= 2*IntervalMax /\ "REJECTED" \notin Outcomes

\* Intervals are shorter than the watchdog's sleep, and statuses not rejected.
Paced ==
  /\ timer = [at |-> timer.at, repeat |-> timer.repeat]
  /\ timer.at \in (0..(2*IntervalMax)) \cup {Off}
  /\ timer.repeat \in 0..(2*IntervalMax)
  /\ next \in 0..(2*IntervalMax)
  /\ status \in Statuses \ {"REJECTED"}

\* The watchdog, and whether it is to be petted in time: it has been, or the timer
\* fires before it looks, or a tick is on its way.  A tick that does not pet it, for
\* the time being the one it has seen, comes when it has just looked.
PettedInTime ==
  /\ dog = [left |-> dog.left, pet |-> dog.pet, now |-> dog.now]
  /\ dog.left \in 0..(2*IntervalMax) /\ dog.pet \in BOOLEAN /\ dog.now \in BOOLEAN
  /\ watched /\ run = "running" /\ timer.at # Off =>
       dog.pet \/ tick \/ timer.at <= dog.left
  /\ dog.now => dog.pet \/ dog.left = 2*IntervalMax

WatchIInv == Paced /\ PettedInTime

\* The numbers, as the provers need them.
LEMMA IntervalsFit ==
  ASSUME Patient
  PROVE  /\ IntervalMax \in Nat /\ 2*IntervalMax \in Nat /\ IntervalMin \in Nat /\ World \in Nat
         /\ 1 + IntervalMin \in 0..(2*IntervalMax)
         /\ status # "REJECTED" => MaxTick \in 0..(2*IntervalMax)
<1>1. /\ IntervalMax \in Nat /\ IntervalMin \in Nat /\ IdleMax \in Nat /\ LeastMin \in Nat /\ World \in Nat
      /\ Fudge \in Nat /\ Fudge < 2*LeastMin /\ 2*LeastMin <= IdleMax /\ IdleMax <= IntervalMax
      /\ 1 + IntervalMin <= 2*IntervalMax
  BY Intervals DEF Patient
<1>2. IntervalMax + Fudge \in 0..(2*IntervalMax)
  BY <1>1
<1>3. (LeastMin + IdleMax) \div 2 \in 0..(2*IntervalMax)
  <2> DEFINE a == LeastMin + IdleMax
  <2>1. a \in Nat /\ a <= 2*IntervalMax
    BY <1>1
  <2> HIDE DEF a
  <2>2. a \div 2 \in 0..a
    BY <2>1
  <2> QED  BY <1>1, <2>1, <2>2 DEF a
<1>4. status # "REJECTED" => MaxTick \in {IntervalMax + Fudge, (LeastMin + IdleMax) \div 2}
  BY DEF MaxTick
<1> QED  BY <1>1, <1>2, <1>3, <1>4

\* The next interval.
LEMMA SlowedFits ==
  ASSUME Patient, Paced
  PROVE  Slowed \in 0..(2*IntervalMax)
<1>1. MaxTick \in 0..(2*IntervalMax) /\ IntervalMax \in Nat
  BY IntervalsFit DEF Paced
<1>2. next + (next \div 3) \in Nat
  <2>1. next \in Nat
    BY <1>1 DEF Paced
  <2> QED  BY <2>1
<1> HIDE DEF MaxTick
<1> QED  BY <1>1, <1>2 DEF Slowed, Cap

\* At the start the watchdog has just gone to sleep.
LEMMA WatchInit ==
  ASSUME Patient, HouseInit
  PROVE  WatchIInv
<1>1. IntervalMax \in Nat /\ 1 + IntervalMin \in 0..(2*IntervalMax)
  BY IntervalsFit
<1>2. Paced
  BY <1>1 DEF HouseInit, Paced, Statuses, Off
<1>3. PettedInTime
  BY <1>1 DEF HouseInit, PettedInTime
<1> QED  BY <1>2, <1>3 DEF WatchIInv

\* The statuses of the program.
LEMMA StatusesStay ==
  ASSUME Patient, WatchIInv, [HouseNext]_houseVars
  PROVE  status' \in Statuses \ {"REJECTED"}
<1>1. status \in Statuses \ {"REJECTED"} /\ "PROBLEMS" \in Statuses
  BY DEF WatchIInv, Paced, Statuses
<1>2. CASE UNCHANGED houseVars
  BY <1>1, <1>2 DEF houseVars
<1>3. CASE TickCb
  BY <1>1, <1>3 DEF TickCb
<1>4. ASSUME NEW ups \in SUBSET Tunnels, NEW s \in Statuses, NEW looked \in BOOLEAN,
             BlockerEnds(ups, s, looked)
      PROVE  status' \in Statuses \ {"REJECTED"}
  BY <1>4 DEF BlockerEnds, Patient
<1>5. CASE status' = status \/ status' = "PROBLEMS"
  BY <1>1, <1>5
<1> QED
  BY <1>2, <1>3, <1>4, <1>5
     DEF HouseNext, TicksGoOn, Environment, BlockerEndsSomehow, TimerFires, AppTick,
         SetTimerEnabled, Activity, GoesSilent, TunnelCloses, LoopHangs, LoopEnds,
         BlockerTakes, Stop, WatchdogLooks, TimePasses

\* The steps that leave timer, watchdog and intervals alone.
LEMMA QuietSteps ==
  ASSUME Patient, WatchIInv, status' \in Statuses \ {"REJECTED"},
         UNCHANGED <<timer, dog, watched>>, next' \in {next, 1 + IntervalMin},
         run' = "running" => run = "running", tick => tick'
  PROVE  WatchIInv'
<1>1. Paced'
  BY IntervalsFit DEF WatchIInv, Paced
<1>2. PettedInTime'
  BY DEF WatchIInv, PettedInTime
<1> QED  BY <1>1, <1>2 DEF WatchIInv

\* A tick pets the watchdog.
LEMMA TickPets ==
  ASSUME Patient, WatchIInv, status' \in Statuses \ {"REJECTED"}, TickCb
  PROVE  WatchIInv'
<1>1. /\ IntervalMax \in Nat /\ 1 + IntervalMin \in 0..(2*IntervalMax) /\ Slowed \in 0..(2*IntervalMax)
      /\ next \in 0..(2*IntervalMax) /\ timer = [at |-> timer.at, repeat |-> timer.repeat]
      /\ timer.repeat \in 0..(2*IntervalMax)
  BY IntervalsFit, SlowedFits DEF WatchIInv, Paced
<1> HIDE DEF Slowed
<1>2. /\ timer' = IF Repeating THEN [at |-> next, repeat |-> next]
                               ELSE [timer EXCEPT !.at = Off]
      /\ next' \in {1 + IntervalMin, Slowed}
      /\ dog' = Petted /\ UNCHANGED <<run, watched>>
  BY DEF TickCb
<1>3. [timer EXCEPT !.at = Off] = [at |-> Off, repeat |-> timer.repeat]
  BY <1>1
<1>4. /\ timer' = [at |-> timer'.at, repeat |-> timer'.repeat]
      /\ timer'.at \in (0..(2*IntervalMax)) \cup {Off} /\ timer'.repeat \in 0..(2*IntervalMax)
  <2>1. CASE Repeating
    BY <1>1, <1>2, <2>1
  <2>2. CASE ~Repeating
    <3>1. timer' = [at |-> Off, repeat |-> timer.repeat]
      BY <1>2, <1>3, <2>2
    <3> QED  BY <1>1, <3>1
  <2> QED  BY <2>1, <2>2
<1>5. Paced'
  BY <1>1, <1>2, <1>4 DEF Paced
<1>6. /\ dog = [left |-> dog.left, pet |-> dog.pet, now |-> dog.now]
      /\ dog.left \in 0..(2*IntervalMax) /\ dog.pet \in BOOLEAN /\ dog.now \in BOOLEAN
      /\ dog.now => dog.pet \/ dog.left = 2*IntervalMax
  BY DEF WatchIInv, PettedInTime
<1>7. CASE watched
  <2>1. dog' = [dog EXCEPT !.pet = @ \/ ~dog.now, !.now = TRUE]
    BY <1>2, <1>7 DEF Petted
  <2>2. dog' = [left |-> dog.left, pet |-> dog.pet \/ ~dog.now, now |-> TRUE]
    BY <1>6, <2>1
  <2>3. /\ dog' = [left |-> dog'.left, pet |-> dog'.pet, now |-> dog'.now]
        /\ dog'.left = dog.left /\ dog'.pet = (dog.pet \/ ~dog.now) /\ dog'.now = TRUE
    BY <2>2
  <2>4. dog'.pet \/ dog'.left = 2*IntervalMax
    BY <1>6, <2>3
  <2>5. dog'.left \in 0..(2*IntervalMax) /\ dog'.pet \in BOOLEAN /\ dog'.now \in BOOLEAN
    BY <1>6, <2>3
  <2>6. timer'.at # Off => timer'.at <= 2*IntervalMax
    BY <1>1, <1>4
  <2>7. PettedInTime'
    BY <2>3, <2>4, <2>5, <2>6 DEF PettedInTime
  <2> QED  BY <1>5, <2>7 DEF WatchIInv
<1>8. CASE ~watched
  <2>1. dog' = dog /\ ~watched'
    BY <1>2, <1>8 DEF Petted
  <2>2. PettedInTime'
    BY <1>6, <2>1 DEF PettedInTime
  <2> QED  BY <1>5, <2>2 DEF WatchIInv
<1> QED  BY <1>7, <1>8

\* The timer fires, and a tick comes of it.
LEMMA TimerTicks ==
  ASSUME Patient, WatchIInv, status' \in Statuses \ {"REJECTED"}, TimerFires
  PROVE  WatchIInv'
<1>1. /\ timer = [at |-> timer.at, repeat |-> timer.repeat]
      /\ timer' = [timer EXCEPT !.at = timer.repeat]
  BY DEF WatchIInv, Paced, TimerFires
<1>2. timer' = [at |-> timer.repeat, repeat |-> timer.repeat]
  BY <1>1
<1>3. timer' = [at |-> timer'.at, repeat |-> timer'.repeat]
      /\ timer'.at = timer.repeat /\ timer'.repeat = timer.repeat
  BY <1>2
<1>4. UNCHANGED <<dog, watched, run, next>> /\ tick' = TRUE
  BY DEF TimerFires, clock
<1>5. Paced'
  BY <1>3, <1>4 DEF WatchIInv, Paced
<1>6. PettedInTime'
  BY <1>4 DEF WatchIInv, PettedInTime
<1> QED  BY <1>5, <1>6 DEF WatchIInv

\* Enabling the timer makes it fire at once, unless it is on; then it stays.
LEMMA EnablingTicks ==
  ASSUME Patient, WatchIInv, status' \in Statuses \ {"REJECTED"}, NEW on \in BOOLEAN,
         SetTimerEnabled(on)
  PROVE  WatchIInv'
<1>1. /\ timer = [at |-> timer.at, repeat |-> timer.repeat]
      /\ timer.at \in (0..(2*IntervalMax)) \cup {Off} /\ timer.repeat \in 0..(2*IntervalMax)
      /\ next \in 0..(2*IntervalMax)
      /\ IntervalMax \in Nat /\ 1 + IntervalMin \in 0..(2*IntervalMax)
  BY IntervalsFit DEF WatchIInv, Paced
<1>2. /\ UNCHANGED <<dog, watched, run, tick>>
      /\ IF on
         THEN /\ timer' = [at |-> IF timer.at = Off THEN 0 ELSE timer.at,
                           repeat |-> 1 + IntervalMin]
              /\ next' = 1 + IntervalMin
         ELSE /\ timer' = [timer EXCEPT !.at = Off]
              /\ next' = next
  BY DEF SetTimerEnabled
<1>3. /\ dog.left \in 0..(2*IntervalMax)
      /\ watched /\ run = "running" /\ timer.at # Off =>
           dog.pet \/ tick \/ timer.at <= dog.left
  BY DEF WatchIInv, PettedInTime
<1>4. CASE on
  <2>1. timer' = [at |-> timer'.at, repeat |-> timer'.repeat]
        /\ timer'.at = (IF timer.at = Off THEN 0 ELSE timer.at) /\ timer'.repeat = 1 + IntervalMin
    BY <1>2, <1>4
  <2>2. Paced'
    BY <1>1, <1>2, <1>4, <2>1 DEF Paced
  <2>3. watched' /\ run' = "running" /\ timer'.at # Off =>
          dog'.pet \/ tick' \/ timer'.at <= dog'.left
    BY <1>1, <1>2, <1>3, <2>1
  <2>4. PettedInTime'
    BY <1>2, <2>3 DEF WatchIInv, PettedInTime
  <2> QED  BY <2>2, <2>4 DEF WatchIInv
<1>5. CASE ~on
  <2>1. timer' = [at |-> Off, repeat |-> timer.repeat]
    BY <1>1, <1>2, <1>5
  <2>2. timer' = [at |-> timer'.at, repeat |-> timer'.repeat]
        /\ timer'.at = Off /\ timer'.repeat = timer.repeat
    BY <2>1
  <2>3. Paced'
    BY <1>1, <1>2, <1>5, <2>2 DEF Paced
  <2>4. PettedInTime'
    BY <1>2, <2>2 DEF WatchIInv, PettedInTime
  <2> QED  BY <2>3, <2>4 DEF WatchIInv
<1> QED  BY <1>4, <1>5

\* The watchdog looks: it does not bark at a loop that goes round.
LEMMA LookingIsCalm ==
  ASSUME Patient, WatchIInv, status' \in Statuses \ {"REJECTED"}, WatchdogLooks
  PROVE  WatchIInv' /\ (run' = "dumped" => run # "running" \/ timer.at = Off)
<1>1. /\ timer.at \in (0..(2*IntervalMax)) \cup {Off} /\ IntervalMax \in Nat
      /\ dog = [left |-> dog.left, pet |-> dog.pet, now |-> dog.now]
      /\ dog.left \in 0..(2*IntervalMax) /\ dog.now \in BOOLEAN
      /\ watched /\ run = "running" /\ timer.at # Off =>
           dog.pet \/ tick \/ timer.at <= dog.left
      /\ dog.now => dog.pet \/ dog.left = 2*IntervalMax
  BY IntervalsFit DEF WatchIInv, Paced, PettedInTime
<1>2. UNCHANGED <<timer, next, tick, watched>> /\ watched /\ dog.left = 0
      /\ (run = "running" => ~tick /\ timer.at # 0)
  BY DEF WatchdogLooks, clock, Settled
<1>3. Paced'
  BY <1>2 DEF WatchIInv, Paced
<1>4. CASE dog.pet
  <2>1. dog' = [dog EXCEPT !.left = 2*IntervalMax, !.pet = FALSE] /\ run' = run
    BY <1>4 DEF WatchdogLooks, Look
  <2>2. dog' = [left |-> 2*IntervalMax, pet |-> FALSE, now |-> dog.now]
    BY <1>1, <2>1
  <2>3. dog' = [left |-> dog'.left, pet |-> dog'.pet, now |-> dog'.now]
        /\ dog'.left = 2*IntervalMax /\ dog'.pet = FALSE /\ dog'.now = dog.now
    BY <2>2
  <2>4. dog'.left \in 0..(2*IntervalMax) /\ (timer'.at # Off => timer'.at <= dog'.left)
    BY <1>1, <1>2, <2>3
  <2>5. PettedInTime'
    BY <1>1, <2>3, <2>4 DEF PettedInTime
  <2>6. run \in {"running", "stuck", "stopping"}
    BY DEF WatchdogLooks
  <2> QED  BY <1>3, <2>1, <2>5, <2>6 DEF WatchIInv
<1>5. CASE ~dog.pet
  <2>1. run' = "dumped" /\ dog' = dog
    BY <1>5 DEF WatchdogLooks, Look
  <2>2. PettedInTime'
    BY <1>2, <2>1 DEF WatchIInv, PettedInTime
  <2>3. run # "running" \/ timer.at = Off
    BY <1>1, <1>2, <1>5
  <2> QED  BY <1>3, <2>2, <2>3 DEF WatchIInv
<1> QED  BY <1>4, <1>5

\* Timer and watchdog grow older together.
LEMMA TimeIsFair ==
  ASSUME Patient, WatchIInv, status' \in Statuses \ {"REJECTED"}, TimePasses
  PROVE  WatchIInv'
<1>1. /\ timer = [at |-> timer.at, repeat |-> timer.repeat]
      /\ timer.at \in (0..(2*IntervalMax)) \cup {Off} /\ IntervalMax \in Nat
      /\ dog = [left |-> dog.left, pet |-> dog.pet, now |-> dog.now]
      /\ dog.left \in 0..(2*IntervalMax) /\ dog.pet \in BOOLEAN
      /\ watched /\ run = "running" /\ timer.at # Off =>
           dog.pet \/ tick \/ timer.at <= dog.left
  BY IntervalsFit DEF WatchIInv, Paced, PettedInTime
<1>2. /\ UNCHANGED <<run, next, tick, watched>>
      /\ (run = "running" => ~tick /\ timer.at # 0) /\ (watched => dog.left > 0)
      /\ timer' = IF timer.at > 0 THEN [timer EXCEPT !.at = @ - 1] ELSE timer
      /\ dog' = [dog EXCEPT !.left = IF watched THEN @ - 1 ELSE 0, !.now = FALSE]
  BY DEF TimePasses, Settled
<1>3. /\ timer' = [at |-> timer'.at, repeat |-> timer'.repeat]
      /\ timer'.at = (IF timer.at > 0 THEN timer.at - 1 ELSE timer.at)
      /\ timer'.repeat = timer.repeat
  <2>1. timer' = IF timer.at > 0 THEN [at |-> timer.at - 1, repeat |-> timer.repeat] ELSE timer
    BY <1>1, <1>2
  <2> QED  BY <1>1, <2>1
<1>4. /\ dog' = [left |-> dog'.left, pet |-> dog'.pet, now |-> dog'.now]
      /\ dog'.left = (IF watched THEN dog.left - 1 ELSE 0)
      /\ dog'.pet = dog.pet /\ dog'.now = FALSE
  <2>1. dog' = [left |-> IF watched THEN dog.left - 1 ELSE 0, pet |-> dog.pet, now |-> FALSE]
    BY <1>1, <1>2
  <2> QED  BY <2>1
<1>5. Paced'
  <2>1. timer'.at \in (0..(2*IntervalMax)) \cup {Off}
    BY <1>1, <1>3 DEF Off
  <2> QED  BY <1>2, <1>3, <2>1 DEF WatchIInv, Paced
<1>6. PettedInTime'
  <2>1. dog'.left \in 0..(2*IntervalMax)
    BY <1>1, <1>2, <1>4
  <2>2. watched' /\ run' = "running" /\ timer'.at # Off =>
          dog'.pet \/ tick' \/ timer'.at <= dog'.left
    <3> SUFFICES ASSUME watched, run = "running", timer'.at # Off, ~dog.pet
                 PROVE  timer'.at <= dog'.left
      BY <1>2, <1>4
    <3>1. timer.at # Off /\ timer.at # 0
      BY <1>1, <1>2, <1>3 DEF Off
    <3>2. timer.at > 0 /\ timer.at <= dog.left
      BY <1>1, <1>2, <3>1
    <3>3. timer'.at = timer.at - 1 /\ dog'.left = dog.left - 1
      BY <1>3, <1>4, <3>2
    <3>4. timer.at \in Int /\ dog.left \in Int
      BY <1>1 DEF Off
    <3> QED  BY ONLY <3>2, <3>3, <3>4
  <2> QED  BY <1>1, <1>4, <2>1, <2>2 DEF PettedInTime
<1> QED  BY <1>5, <1>6 DEF WatchIInv

\* Every step.
LEMMA WatchStep ==
  ASSUME Patient, WatchIInv, [HouseNext]_houseVars
  PROVE  WatchIInv' /\ (run' = "dumped" /\ run # "dumped" =>
                          run # "running" \/ timer.at = Off)
<1>1. status' \in Statuses \ {"REJECTED"}
  BY StatusesStay
<1>2. CASE TickCb
  <2>1. run' = run
    BY <1>2 DEF TickCb
  <2> QED  BY <1>1, <1>2, <2>1, TickPets
<1>3. CASE TimerFires
  <2>1. run' = run
    BY <1>3 DEF TimerFires
  <2> QED  BY <1>1, <1>3, <2>1, TimerTicks
<1>4. ASSUME NEW on \in BOOLEAN, SetTimerEnabled(on)
      PROVE  WatchIInv' /\ run' = run
  BY <1>1, <1>4, EnablingTicks DEF SetTimerEnabled
<1>5. CASE WatchdogLooks
  BY <1>1, <1>5, LookingIsCalm
<1>6. CASE TimePasses
  <2>1. run' = run
    BY <1>6 DEF TimePasses
  <2> QED  BY <1>1, <1>6, <2>1, TimeIsFair
<1> DEFINE Quiet == /\ UNCHANGED <<timer, dog, watched>> /\ next' \in {next, 1 + IntervalMin}
                    /\ run' \in {run, "stuck", "stopping", "stopped"} /\ (tick => tick')
<1>7. CASE Quiet
  <2>1. WatchIInv'
    BY <1>1, <1>7, QuietSteps
  <2> QED  BY <1>7, <2>1
<1>8. ASSUME NEW ups \in SUBSET Tunnels, NEW s \in Statuses, NEW looked \in BOOLEAN,
             BlockerEnds(ups, s, looked)
      PROVE  Quiet
  BY <1>8 DEF BlockerEnds, clock
<1>9. ASSUME NEW t \in Tunnels, Activity(t) \/ GoesSilent(t) \/ TunnelCloses(t)
      PROVE  Quiet
  BY <1>9 DEF Activity, GoesSilent, TunnelCloses, clock
<1>10. ASSUME NEW j \in Jobs, BlockerTakes(j) PROVE Quiet
  BY <1>10 DEF BlockerTakes, clock
<1>11. CASE AppTick \/ LoopHangs \/ LoopEnds \/ Stop \/ UNCHANGED houseVars
  BY <1>7, <1>11 DEF AppTick, LoopHangs, LoopEnds, Stop, clock, houseVars
<1> HIDE DEF Quiet
<1> QED
  BY <1>2, <1>3, <1>4, <1>5, <1>6, <1>7, <1>8, <1>9, <1>10, <1>11
     DEF HouseNext, TicksGoOn, Environment, BlockerEndsSomehow

(***************************************************************************)
(* The watchdog does not dump a program whose loop goes round, however     *)
(* far its ticks have slowed down, unless the timer is off                 *)
(* (BarksAtTheStuck of PkHousekeeping), if it is Patient.                  *)
(***************************************************************************)
THEOREM WatchdogIsCalm ==
  ASSUME Patient
  PROVE  HouseSpec => BarksAtTheStuck
<1>1. HouseInit => WatchIInv
  BY WatchInit
<1>2. WatchIInv /\ [HouseNext]_houseVars => WatchIInv'
  BY WatchStep
<1>3. WatchIInv /\ [HouseNext]_houseVars =>
        [run' = "dumped" => run # "running" \/ timer.at = Off]_houseVars
  <2> SUFFICES ASSUME WatchIInv, [HouseNext]_houseVars, run' = "dumped", run = "running"
               PROVE  timer.at = Off
    OBVIOUS
  <2> QED  BY WatchStep
<1> QED  BY <1>1, <1>2, <1>3, PTL DEF HouseSpec, BarksAtTheStuck
=============================================================================
