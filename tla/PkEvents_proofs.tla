---------------------------- MODULE PkEvents_proofs ----------------------------
(***************************************************************************)
(* For any number of threads, consumers and slots, as long as there is a   *)
(* slot for each thread and each consumer: while the loop runs, a blocking *)
(* post comes back with the answer to its own event, a consumer's event is *)
(* its own, and no slot is kept by nobody.                                 *)
(***************************************************************************)
EXTENDS PkEvents, FiniteSetTheorems, TLAPS

\* A thread that has a blocking event of its own.
Away(t) == tpc[t] \in {"filled", "waiting", "released", "back"}

\* A blocking event and the thread that posted it know each other; so no two
\* threads share a slot.
OwnSlots ==
    /\ \A t \in Threads : Away(t) =>
          /\ slots[mine[t]].kind = "request"
          /\ slots[mine[t]].from = t
          /\ slots[mine[t]].id = number[t]
    /\ \A i \in Slots : slots[i].kind = "request" =>
          \E t \in Threads : Away(t) /\ mine[t] = i

\* Nobody sees an event before its poster waits for the answer ...
UnseenWhileFilled ==
    \A t \in Threads : tpc[t] = "filled" => lock = t /\ ~slots[mine[t]].busy

\* ... and once the answer has come, nobody works on it any more.
Answered ==
    \A t \in Threads : tpc[t] \in {"released", "back"} =>
        /\ answer[t] = number[t]
        /\ slots[mine[t]].busy
        /\ \A c \in Consumers : cpc[c] = "hold" => held[c] # mine[t]

\* What is marked as being processed is with a consumer, or a blocking event.
BusyIsHeld ==
    \A i \in Slots : slots[i].busy /\ slots[i].kind # "request" =>
        \E c \in Consumers : cpc[c] = "hold" /\ held[c] = i

\* PK_EV_SHUTDOWN comes after the loop.
NoShutdown == \A i \in Slots : slots[i].kind # "shutdown"

\* An event that is being processed has been posted.
BusyIsPosted == \A i \in Slots : slots[i].busy => slots[i].posted # 0

RunningInv ==
    /\ OwnSlots /\ UnseenWhileFilled /\ Answered
    /\ BusyIsHeld /\ BusyIsPosted /\ NoShutdown /\ HeldIsOwn

\* What pke_cancel_all_events claims is a slot.
ClaimIsSlot == main = "claiming" => scan \in Slots

IInv == TypeOK /\ ClaimIsSlot /\ (main = "running" => RunningInv)

-----------------------------------------------------------------------------
(* Types.                                                                    *)

USE EventBounds DEF Slots

Events == [posted : 0..MaxTime, kind : Kinds, busy : BOOLEAN,
           from : Threads \cup {Nobody}, id : 0..MaxEvents]
TPlaces == {"idle", "filled", "waiting", "released", "back", "exited"}
CPlaces == {"look", "gap", "wait", "hold", "done"}
Phases == {"running", "testing", "claiming", "joining", "stopping", "stopped", "aborted"}

SlotTypes ==
    /\ slots \in [Slots -> Events]
    /\ lock \in Threads \cup {Nobody}
    /\ now \in 1..MaxTime
    /\ serial \in 0..MaxEvents

ThreadTypes ==
    /\ tpc \in [Threads -> TPlaces]
    /\ mine \in [Threads -> Slots]
    /\ number \in [Threads -> 0..MaxEvents]
    /\ answer \in [Threads -> 0..MaxEvents]
    /\ main \in Phases
    /\ scan \in 1..(MaxSlots + 1)
    /\ ClaimIsSlot

ConsumerTypes ==
    /\ cpc \in [Consumers -> CPlaces]
    /\ held \in [Consumers -> Slots]
    /\ took \in [Consumers -> 0..MaxEvents]

Types == SlotTypes /\ ThreadTypes /\ ConsumerTypes

LEMMA TypeParts == IInv <=> Types /\ (main = "running" => RunningInv)
  BY DEF IInv, TypeOK, Types, SlotTypes, ThreadTypes, ClaimIsSlot, ConsumerTypes, Events,
         TPlaces, CPlaces, Phases, RunningInv, BusyIsPosted

\* A new event is well typed.
LEMMA FillType ==
    ASSUME SlotTypes, NEW i \in Slots, NEW t \in Threads \cup {Nobody}, NEW k \in Kinds,
           Fill(i, t, k)
    PROVE  /\ slots' \in [Slots -> Events]
           /\ serial' \in 0..MaxEvents /\ serial + 1 \in 0..MaxEvents
           /\ slots'[i] = [posted |-> now, kind |-> k, busy |-> FALSE, from |-> t,
                           id |-> serial + 1]
           /\ \A j \in Slots \ {i} : slots'[j] = slots[j]
<1>1. serial + 1 \in 0..MaxEvents /\ serial' = serial + 1
  BY DEF SlotTypes, Fill
<1>2. [posted |-> now, kind |-> k, busy |-> FALSE, from |-> t, id |-> serial + 1] \in Events
  BY <1>1 DEF SlotTypes, Events
<1> QED
  BY <1>1, <1>2 DEF SlotTypes, Fill

\* The queue's signals wake consumers, and change nothing else of them.
LEMMA SignalType ==
    ASSUME cpc \in [Consumers -> CPlaces], SignalQueue \/ BroadcastQueue
    PROVE  /\ cpc' \in [Consumers -> CPlaces]
           /\ \A c \in Consumers :
                 \/ cpc'[c] = cpc[c]
                 \/ cpc[c] = "wait" /\ cpc'[c] = "look"
<1>1. "look" \in CPlaces
  BY DEF CPlaces
<1>2. CASE SignalQueue
  <2>1. CASE \E c \in Sleepers : cpc' = [cpc EXCEPT ![c] = "look"]
    BY <1>1, <2>1 DEF Sleepers
  <2>2. CASE UNCHANGED cpc
    BY <2>2
  <2> QED
    BY <1>2, <2>1, <2>2 DEF SignalQueue
<1>3. CASE BroadcastQueue
  BY <1>1, <1>3 DEF BroadcastQueue, Sleepers
<1> QED
  BY <1>2, <1>3

\* So is one that is marked as being processed.
LEMMA MarkType ==
    ASSUME slots \in [Slots -> Events], NEW i \in Slots
    PROVE  /\ [slots EXCEPT ![i].busy = TRUE] \in [Slots -> Events]
           /\ [slots EXCEPT ![i].busy = TRUE][i] = [slots[i] EXCEPT !.busy = TRUE]
           /\ \A j \in Slots \ {i} : [slots EXCEPT ![i].busy = TRUE][j] = slots[j]
<1>1. [slots[i] EXCEPT !.busy = TRUE] \in Events
  BY DEF Events
<1> QED
  BY <1>1

\* An answer leaves everything well typed, and the other slots alone.
LEMMA RespondType ==
    ASSUME slots \in [Slots -> Events], tpc \in [Threads -> TPlaces],
           answer \in [Threads -> 0..MaxEvents],
           NEW i \in Slots, NEW n \in 0..MaxEvents, Respond(i, n)
    PROVE  /\ slots' \in [Slots -> Events]
           /\ tpc' \in [Threads -> TPlaces]
           /\ answer' \in [Threads -> 0..MaxEvents]
           /\ \A j \in Slots \ {i} : slots'[j] = slots[j]
<1>1. CASE slots[i].kind = "shutdown" /\ slots' = [slots EXCEPT ![i].busy = TRUE]
           /\ UNCHANGED <<tpc, answer>>
  BY <1>1, MarkType
<1>2. CASE slots[i].kind \in {"none", "log"} /\ slots' = [slots EXCEPT ![i] = EmptySlot]
           /\ UNCHANGED <<tpc, answer>>
  <2>1. EmptySlot \in Events
    BY DEF EmptySlot, Kinds, Events
  <2> QED
    BY <1>2, <2>1
<1>3. CASE /\ slots[i].kind = "request"
           /\ slots' = [slots EXCEPT ![i].busy = TRUE]
           /\ answer' = [answer EXCEPT ![slots[i].from] = n]
           /\ ReleasePoster(i)
  <2>1. tpc' \in [Threads -> TPlaces]
    <3>1. "released" \in TPlaces
      BY DEF TPlaces
    <3> QED
      BY <1>3, <3>1 DEF ReleasePoster
  <2>2. answer' \in [Threads -> 0..MaxEvents]
    BY <1>3
  <2> QED
    BY <1>3, <2>1, <2>2, MarkType
<1> QED
  BY <1>1, <1>2, <1>3 DEF Respond

LEMMA InitInv == Init => IInv
<1> SUFFICES ASSUME Init PROVE IInv
  OBVIOUS
<1>1. SlotTypes /\ \A i \in Slots : slots[i] = EmptySlot
  BY DEF Init, SlotTypes, EmptySlot, Events, Kinds
<1>2. ThreadTypes /\ \A t \in Threads : tpc[t] = "idle"
  BY DEF Init, ThreadTypes, ClaimIsSlot, ClaimIsSlot, TPlaces, Phases
<1>3. ConsumerTypes /\ \A c \in Consumers : cpc[c] # "hold"
  BY DEF Init, ConsumerTypes, CPlaces
<1>4. RunningInv
  BY <1>1, <1>2, <1>3 DEF RunningInv, OwnSlots, UnseenWhileFilled, Answered, BusyIsHeld,
     BusyIsPosted, NoShutdown, HeldIsOwn, Away, EmptySlot
<1> QED
  BY <1>1, <1>2, <1>3, <1>4, TypeParts DEF Types

\* Every step leaves everything well typed.
LEMMA PostTypes ==
    ASSUME Types, NEW t \in Threads, PostLog(t) \/ PostRequest(t) PROVE Types'
<1>1. CASE PostLog(t)
  <2>1. PICK i \in Slots : Fill(i, Nobody, "log")
    BY <1>1 DEF PostLog
  <2>2. SlotTypes'
    BY <1>1, <2>1, FillType DEF PostLog, SlotTypes, Types, Kinds
  <2>3. ThreadTypes'
    BY <1>1 DEF PostLog, ThreadTypes, ClaimIsSlot, Types, tvars
  <2>4. ConsumerTypes'
    BY <1>1, SignalType DEF PostLog, ConsumerTypes, Types
  <2> QED
    BY <2>2, <2>3, <2>4 DEF Types
<1>2. CASE PostRequest(t)
  <2>1. PICK i \in Slots : Fill(i, t, "request") /\ mine' = [mine EXCEPT ![t] = i]
    BY <1>2 DEF PostRequest
  <2>2. SlotTypes' /\ serial + 1 \in 0..MaxEvents
    BY <1>2, <2>1, FillType DEF PostRequest, SlotTypes, Types, Kinds
  <2>3. ThreadTypes'
    <3>1. "filled" \in TPlaces
      BY DEF TPlaces
    <3> QED
      BY <1>2, <2>1, <2>2, <3>1 DEF PostRequest, ThreadTypes, ClaimIsSlot, Types
  <2>4. ConsumerTypes'
    BY <1>2, SignalType DEF PostRequest, ConsumerTypes, Types
  <2> QED
    BY <2>2, <2>3, <2>4 DEF Types
<1> QED
  BY <1>1, <1>2

LEMMA ThreadTypesKept ==
    ASSUME Types, NEW t \in Threads, ThreadStep(t) PROVE Types'
<1>1. ConsumerTypes'
  BY DEF ThreadStep, AwaitAnswer, ReturnAnswer, FreeEvent, BlockerExits, Types,
         ConsumerTypes, cvars
<1>2. CASE AwaitAnswer(t) \/ ReturnAnswer(t) \/ BlockerExits(t)
  BY <1>1, <1>2 DEF AwaitAnswer, ReturnAnswer, BlockerExits, Types, SlotTypes, ThreadTypes, ClaimIsSlot,
                    TPlaces
<1>3. CASE FreeEvent(t)
  <2>1. EmptySlot \in Events /\ "idle" \in TPlaces /\ 1 \in Slots
    BY DEF EmptySlot, Events, Kinds, TPlaces
  <2>2. SlotTypes'
    BY <1>3, <2>1 DEF FreeEvent, Types, SlotTypes, ThreadTypes, ClaimIsSlot, ClaimIsSlot
  <2>3. ThreadTypes'
    BY <1>3, <2>1 DEF FreeEvent, Types, ThreadTypes, ClaimIsSlot
  <2> QED
    BY <1>1, <2>2, <2>3 DEF Types
<1> QED
  BY <1>2, <1>3 DEF ThreadStep

LEMMA MainTypesKept ==
    ASSUME Types, LoopEnds \/ MainStep PROVE Types'
<1>1. CASE LoopEnds \/ CancelTest \/ Join
  BY <1>1 DEF LoopEnds, CancelTest, Join, Types, SlotTypes, ThreadTypes, ClaimIsSlot, ConsumerTypes,
              Phases, tvars, cvars
<1>2. CASE CancelClaim
  <2>1. scan \in Slots
    BY <1>2 DEF CancelClaim, Types, ThreadTypes, ClaimIsSlot
  <2>2. slots[scan].id \in 0..MaxEvents
    BY <2>1 DEF Types, SlotTypes, Events
  <2>3. /\ slots' \in [Slots -> Events]
        /\ tpc' \in [Threads -> TPlaces]
        /\ answer' \in [Threads -> 0..MaxEvents]
    BY <1>2, <2>1, <2>2, RespondType DEF CancelClaim, Types, SlotTypes, ThreadTypes
  <2> QED
    BY <1>2, <2>1, <2>3 DEF CancelClaim, Types, SlotTypes, ThreadTypes, ClaimIsSlot,
                            ConsumerTypes, Phases, cvars
<1>3. CASE CancelDone
  BY <1>3, SignalType DEF CancelDone, Types, SlotTypes, ThreadTypes, ClaimIsSlot, ConsumerTypes, Phases,
                          tvars
<1>4. CASE PostShutdown
  <2>1. PICK i \in Slots : Fill(i, Nobody, "shutdown")
    BY <1>4 DEF PostShutdown
  <2>2. SlotTypes'
    BY <1>4, <2>1, FillType DEF PostShutdown, SlotTypes, Types, Kinds
  <2>3. ThreadTypes'
    BY <1>4 DEF PostShutdown, ThreadTypes, ClaimIsSlot, Types, tvars, Phases
  <2>4. ConsumerTypes'
    BY <1>4, SignalType DEF PostShutdown, ConsumerTypes, Types
  <2> QED
    BY <2>2, <2>3, <2>4 DEF Types
<1> QED
  BY <1>1, <1>2, <1>3, <1>4 DEF MainStep

LEMMA ConsumerTypesKept ==
    ASSUME Types, (\E c \in Consumers : ConsumerStep(c)) \/ ClockTicks PROVE Types'
<1>0. /\ {"look", "gap", "wait", "hold", "done"} \subseteq CPlaces
      /\ "aborted" \in Phases
  BY DEF CPlaces, Phases
<1>1. CASE ClockTicks
  BY <1>1 DEF ClockTicks, Types, SlotTypes, ThreadTypes, ClaimIsSlot, ConsumerTypes, tvars, cvars
<1>2. ASSUME NEW c \in Consumers, Look(c) PROVE Types'
  <2>1. ThreadTypes'
    BY <1>2 DEF Look, Types, ThreadTypes, ClaimIsSlot, tvars
  <2>2. SlotTypes'
    <3>1. \/ UNCHANGED slots
          \/ \E i \in Slots : slots' = [slots EXCEPT ![i].busy = TRUE]
      BY <1>2 DEF Look
    <3> QED
      BY <1>2, <3>1, MarkType DEF Look, Types, SlotTypes
  <2>3. ConsumerTypes'
    <3>1. \A i \in Slots : slots[i].id \in 0..MaxEvents
      BY DEF Types, SlotTypes, Events
    <3> QED
      BY <1>0, <1>2, <3>1 DEF Look, Types, ConsumerTypes
  <2> QED
    BY <2>1, <2>2, <2>3 DEF Types
<1>3. ASSUME NEW c \in Consumers,
             Sleep(c) \/ Timeout(c) \/ HandleAborts(c) \/ HandleShutdown(c)
      PROVE  Types'
  BY <1>0, <1>3 DEF Sleep, Timeout, HandleAborts, HandleShutdown, Types, SlotTypes, ThreadTypes,
                    ClaimIsSlot, ConsumerTypes, tvars, cvars
<1>4. ASSUME NEW c \in Consumers, Handle(c) PROVE Types'
  <2>1. held[c] \in Slots /\ took[c] \in 0..MaxEvents /\ 1 \in Slots
    BY DEF Types, ConsumerTypes
  <2>2. /\ slots' \in [Slots -> Events]
        /\ tpc' \in [Threads -> TPlaces]
        /\ answer' \in [Threads -> 0..MaxEvents]
    BY <1>4, <2>1, RespondType DEF Handle, Types, SlotTypes, ThreadTypes
  <2> QED
    BY <1>0, <1>4, <2>1, <2>2 DEF Handle, Types, SlotTypes, ThreadTypes, ClaimIsSlot, ConsumerTypes
<1> QED
  BY <1>1, <1>2, <1>3, <1>4 DEF ConsumerStep

-----------------------------------------------------------------------------
(* There is a slot for a new event.                                          *)

\* A post finds a slot that neither a blocking event nor a consumer needs: the
\* other threads and the consumers have one each at most.
LEMMA SpareSlot ==
    ASSUME Types, RunningInv, main = "running", NEW t \in Threads, ~Away(t)
    PROVE  Reusable # {}
<1> DEFINE Others == Threads \ {t}
           Mine == {mine[u] : u \in Others}
           Held == {held[c] : c \in Consumers}
<1>1. IsFiniteSet(Threads) /\ IsFiniteSet(Consumers)
  <2>1. IsFiniteSet({Main}) /\ IsFiniteSet(Blockers)
    BY ThreadsAreDistinct, FS_Singleton DEF ThreadsAreDistinct
  <2> QED
    BY <2>1, FS_Union, ThreadsAreDistinct DEF Threads, ThreadsAreDistinct
<1>2. /\ Cardinality(Threads) \in Nat /\ Cardinality(Consumers) \in Nat
      /\ IsFiniteSet(Others) /\ Cardinality(Others) = Cardinality(Threads) - 1
  BY <1>1, FS_CardinalityType, FS_RemoveElement
<1>3. IsFiniteSet(Mine) /\ Cardinality(Mine) <= Cardinality(Others)
  <2> DEFINE f == [u \in Others |-> mine[u]]
  <2>1. f \in Surjection(Others, Mine)
    BY DEF Surjection
  <2> QED
    BY <1>2, <2>1, FS_Surjection
<1>4. IsFiniteSet(Held) /\ Cardinality(Held) <= Cardinality(Consumers)
  <2> DEFINE f == [c \in Consumers |-> held[c]]
  <2>1. f \in Surjection(Consumers, Held)
    BY DEF Surjection
  <2> QED
    BY <1>1, <2>1, FS_Surjection
<1>5. IsFiniteSet(Mine \cup Held) /\ Cardinality(Mine \cup Held) < MaxSlots
  <2> HIDE DEF Mine, Held, Others
  <2>1. IsFiniteSet(Mine \cap Held) /\ Cardinality(Mine \cap Held) \in Nat
    BY <1>3, FS_Intersection, FS_CardinalityType
  <2>2. Cardinality(Mine) \in Nat /\ Cardinality(Held) \in Nat
    BY <1>3, <1>4, FS_CardinalityType
  <2>3. Cardinality(Mine \cup Held)
          = Cardinality(Mine) + Cardinality(Held) - Cardinality(Mine \cap Held)
        /\ IsFiniteSet(Mine \cup Held)
    BY <1>3, <1>4, FS_Union
  <2> QED
    BY <1>2, <1>3, <1>4, <2>1, <2>2, <2>3, EnoughSlots DEF EnoughSlots
<1>6. IsFiniteSet(Slots) /\ Cardinality(Slots) = MaxSlots
  BY FS_Interval
<1>7. ~(Slots \subseteq Mine \cup Held)
  <2> HIDE DEF Mine, Held, Others
  <2> SUFFICES ASSUME Slots \subseteq Mine \cup Held PROVE FALSE
    OBVIOUS
  <2>1. Cardinality(Slots) <= Cardinality(Mine \cup Held)
    BY <1>5, FS_Subset
  <2>2. Cardinality(Mine \cup Held) \in Nat
    BY <1>5, FS_CardinalityType
  <2> QED
    BY <1>5, <1>6, <2>1, <2>2
<1>8. PICK i \in Slots : i \notin Mine \cup Held
  BY <1>7
<1>9. slots[i].kind # "request"
  BY <1>8 DEF RunningInv, OwnSlots
<1>10. ~slots[i].busy
  BY <1>8, <1>9 DEF RunningInv, BusyIsHeld
<1> QED
  BY <1>9, <1>10 DEF Reusable

-----------------------------------------------------------------------------
(* Posting.                                                                  *)

\* A post takes a slot that is nobody's.
LEMMA PostTakesSpare ==
    ASSUME Types, RunningInv, main = "running", NEW t \in Threads, ~Away(t),
           NEW i \in Slots, Target(i)
    PROVE  /\ i \in Reusable
           /\ \A u \in Threads : Away(u) => mine[u] # i
           /\ \A c \in Consumers : cpc[c] = "hold" => held[c] # i
<1>1. i \in Reusable
  BY SpareSlot DEF Target, Oldest
<1> QED
  BY <1>1 DEF Reusable, RunningInv, OwnSlots, HeldIsOwn

LEMMA PostLogKeeps ==
    ASSUME Types, RunningInv, main = "running", NEW t \in Threads, PostLog(t)
    PROVE  RunningInv'
<1>1. ~Away(t)
  BY DEF PostLog, Away
<1>2. PICK i \in Slots : Fill(i, Nobody, "log")
  BY DEF PostLog
<1>3. /\ i \in Reusable
      /\ \A u \in Threads : Away(u) => mine[u] # i
      /\ \A c \in Consumers : cpc[c] = "hold" => held[c] # i
  BY <1>1, <1>2, PostTakesSpare DEF Fill
<1>4. /\ slots'[i] = [posted |-> now, kind |-> "log", busy |-> FALSE, from |-> Nobody,
                      id |-> serial + 1]
      /\ \A j \in Slots \ {i} : slots'[j] = slots[j]
  BY <1>2, FillType DEF Types, Kinds
<1>5. \A c \in Consumers : cpc'[c] = "hold" <=> cpc[c] = "hold"
  BY SignalType DEF PostLog, Types, ConsumerTypes
<1>6. UNCHANGED <<tpc, mine, number, answer, lock, main, held, took>>
  BY DEF PostLog, tvars
<1>7. \A u \in Threads : mine[u] \in Slots
  BY DEF Types, ThreadTypes
<1>8. \A c \in Consumers : held[c] \in Slots
  BY DEF Types, ConsumerTypes
<1>9. OwnSlots'
  BY <1>3, <1>4, <1>6, <1>7 DEF OwnSlots, RunningInv, Away
<1>10. UnseenWhileFilled' /\ Answered'
  BY <1>3, <1>4, <1>5, <1>6, <1>7 DEF UnseenWhileFilled, Answered, RunningInv, Away
<1>11. BusyIsHeld' /\ BusyIsPosted' /\ NoShutdown'
  BY <1>4, <1>5, <1>6 DEF BusyIsHeld, BusyIsPosted, NoShutdown, RunningInv
<1>12. HeldIsOwn'
  BY <1>3, <1>4, <1>5, <1>6, <1>8 DEF HeldIsOwn, RunningInv
<1> QED
  BY <1>9, <1>10, <1>11, <1>12 DEF RunningInv

LEMMA PostRequestKeeps ==
    ASSUME Types, RunningInv, main = "running", NEW t \in Threads, PostRequest(t)
    PROVE  RunningInv'
<1>1. ~Away(t)
  BY DEF PostRequest, Away
<1>2. PICK i \in Slots : Fill(i, t, "request") /\ mine' = [mine EXCEPT ![t] = i]
  BY DEF PostRequest
<1>3. /\ i \in Reusable
      /\ \A u \in Threads : Away(u) => mine[u] # i
      /\ \A c \in Consumers : cpc[c] = "hold" => held[c] # i
  BY <1>1, <1>2, PostTakesSpare DEF Fill
<1>4. /\ slots'[i] = [posted |-> now, kind |-> "request", busy |-> FALSE, from |-> t,
                      id |-> serial + 1]
      /\ \A j \in Slots \ {i} : slots'[j] = slots[j]
  BY <1>2, FillType DEF Types, Kinds
<1>5. \A c \in Consumers : cpc'[c] = "hold" <=> cpc[c] = "hold"
  BY SignalType DEF PostRequest, Types, ConsumerTypes
<1>6. /\ tpc'[t] = "filled" /\ mine'[t] = i /\ number'[t] = serial + 1 /\ lock' = t
      /\ \A u \in Threads \ {t} : /\ tpc'[u] = tpc[u] /\ mine'[u] = mine[u]
                                  /\ number'[u] = number[u] /\ answer'[u] = answer[u]
      /\ UNCHANGED <<main, held, took>>
  BY <1>2 DEF PostRequest, Types, ThreadTypes
<1>7. \A u \in Threads : mine[u] \in Slots
  BY DEF Types, ThreadTypes
<1>8. \A c \in Consumers : held[c] \in Slots
  BY DEF Types, ConsumerTypes
<1>9. OwnSlots'
  <2>1. ASSUME NEW u \in Threads, Away(u)'
        PROVE  /\ slots'[mine'[u]].kind = "request"
               /\ slots'[mine'[u]].from = u
               /\ slots'[mine'[u]].id = number'[u]
    <3>1. CASE u = t
      BY <1>4, <1>6, <3>1
    <3>2. CASE u # t
      BY <1>3, <1>4, <1>6, <1>7, <2>1, <3>2 DEF OwnSlots, RunningInv, Away
    <3> QED
      BY <3>1, <3>2
  <2>2. ASSUME NEW j \in Slots, slots'[j].kind = "request"
        PROVE  \E u \in Threads : Away(u)' /\ mine'[u] = j
    <3>1. CASE j = i
      BY <1>6, <3>1 DEF Away
    <3>2. CASE j # i
      <4>1. PICK u \in Threads : Away(u) /\ mine[u] = j
        BY <1>4, <2>2, <3>2 DEF OwnSlots, RunningInv
      <4> QED
        BY <1>1, <1>6, <4>1 DEF Away
    <3> QED
      BY <3>1, <3>2
  <2> QED
    BY <2>1, <2>2 DEF OwnSlots
<1>10. UnseenWhileFilled'
  <2>1. lock = Nobody /\ Nobody \notin Threads
    BY ThreadsAreDistinct DEF PostRequest, ThreadsAreDistinct
  <2>2. \A u \in Threads \ {t} : tpc'[u] # "filled"
    BY <1>6, <2>1 DEF UnseenWhileFilled, RunningInv
  <2>3. ~slots'[mine'[t]].busy /\ lock' = t
    BY <1>4, <1>6
  <2> QED
    BY <2>2, <2>3 DEF UnseenWhileFilled
<1>11. Answered'
  BY <1>3, <1>4, <1>5, <1>6, <1>7 DEF Answered, RunningInv, Away
<1>12. BusyIsHeld' /\ BusyIsPosted' /\ NoShutdown'
  BY <1>4, <1>5, <1>6 DEF BusyIsHeld, BusyIsPosted, NoShutdown, RunningInv
<1>13. HeldIsOwn'
  BY <1>3, <1>4, <1>5, <1>6, <1>8 DEF HeldIsOwn, RunningInv
<1> QED
  BY <1>9, <1>10, <1>11, <1>12, <1>13 DEF RunningInv
-----------------------------------------------------------------------------
(* Waiting for the answer, and using it.                                     *)

LEMMA WaitKeeps ==
    ASSUME Types, RunningInv, NEW t \in Threads, AwaitAnswer(t) \/ ReturnAnswer(t)
    PROVE  RunningInv'
<1>1. /\ \A u \in Threads \ {t} : tpc'[u] = tpc[u]
      /\ \/ tpc[t] = "filled" /\ tpc'[t] = "waiting" /\ lock = t
         \/ tpc[t] = "released" /\ tpc'[t] = "back" /\ lock' = lock
      /\ UNCHANGED <<slots, mine, number, answer, main, cvars>>
  BY DEF AwaitAnswer, ReturnAnswer, Types, ThreadTypes, RunningInv, UnseenWhileFilled
<1>2. \A u \in Threads : Away(u)' <=> Away(u)
  BY <1>1 DEF Away
<1>3. OwnSlots' /\ BusyIsHeld' /\ BusyIsPosted' /\ NoShutdown' /\ HeldIsOwn'
  BY <1>1, <1>2 DEF OwnSlots, BusyIsHeld, BusyIsPosted, NoShutdown, HeldIsOwn, RunningInv, cvars
<1>4. UnseenWhileFilled'
  <2>1. \A u \in Threads : tpc'[u] = "filled" => u # t /\ tpc[u] = "filled"
    BY <1>1
  <2> QED
    BY <1>1, <2>1 DEF UnseenWhileFilled, RunningInv
<1>5. Answered'
  <2>1. \A u \in Threads :
           tpc'[u] \in {"released", "back"} => tpc[u] \in {"released", "back"}
    BY <1>1
  <2> QED
    BY <1>1, <2>1 DEF Answered, RunningInv, cvars
<1> QED
  BY <1>3, <1>4, <1>5 DEF RunningInv

LEMMA FreeEventKeeps ==
    ASSUME Types, RunningInv, NEW t \in Threads, FreeEvent(t)
    PROVE  RunningInv'
<1> DEFINE i == mine[t]
<1>1. /\ tpc[t] = "back" /\ Away(t) /\ i \in Slots
      /\ tpc'[t] = "idle"
      /\ \A u \in Threads \ {t} : /\ tpc'[u] = tpc[u] /\ mine'[u] = mine[u]
                                  /\ number'[u] = number[u] /\ answer'[u] = answer[u]
      /\ UNCHANGED <<lock, main, cpc, held, took>>
  BY DEF FreeEvent, Types, ThreadTypes, Away, cvars
<1>2. slots'[i] = EmptySlot /\ \A j \in Slots \ {i} : slots'[j] = slots[j]
  BY <1>1 DEF FreeEvent, Types, SlotTypes
<1>3. /\ \A u \in Threads : mine[u] \in Slots
      /\ \A u \in Threads : Away(u) /\ u # t => mine[u] # i
  BY <1>1 DEF OwnSlots, RunningInv, Types, ThreadTypes
<1>4. \A c \in Consumers : held[c] \in Slots /\ (cpc[c] = "hold" => held[c] # i)
  BY <1>1 DEF Answered, RunningInv, Types, ConsumerTypes
<1>5. ~Away(t)' /\ \A u \in Threads \ {t} : Away(u)' <=> Away(u)
  BY <1>1 DEF Away
<1>6. OwnSlots'
  <2>1. ASSUME NEW u \in Threads, Away(u)'
        PROVE  /\ slots'[mine'[u]].kind = "request"
               /\ slots'[mine'[u]].from = u
               /\ slots'[mine'[u]].id = number'[u]
    BY <1>1, <1>2, <1>3, <1>5, <2>1 DEF OwnSlots, RunningInv
  <2>2. ASSUME NEW j \in Slots, slots'[j].kind = "request"
        PROVE  \E u \in Threads : Away(u)' /\ mine'[u] = j
    <3>1. j # i /\ slots[j].kind = "request"
      BY <1>2, <2>2 DEF EmptySlot
    <3>2. PICK u \in Threads : Away(u) /\ mine[u] = j
      BY <3>1 DEF OwnSlots, RunningInv
    <3> QED
      BY <1>1, <1>5, <3>1, <3>2
  <2> QED
    BY <2>1, <2>2 DEF OwnSlots
<1>7. UnseenWhileFilled'
  BY <1>1, <1>2, <1>3 DEF UnseenWhileFilled, RunningInv, Away
<1>8. Answered'
  BY <1>1, <1>2, <1>3 DEF Answered, RunningInv, Away
<1>9. BusyIsHeld' /\ BusyIsPosted' /\ NoShutdown'
  BY <1>1, <1>2 DEF BusyIsHeld, BusyIsPosted, NoShutdown, RunningInv, EmptySlot
<1>10. HeldIsOwn'
  BY <1>1, <1>2, <1>4 DEF HeldIsOwn, RunningInv
<1> QED
  BY <1>6, <1>7, <1>8, <1>9, <1>10 DEF RunningInv

-----------------------------------------------------------------------------
(* The application.                                                          *)

\* A consumer that is not given an event, and the clock, disturb nothing.
LEMMA RestKeeps ==
    ASSUME Types, RunningInv, UNCHANGED <<slots, lock, tvars, main, held, took>>,
           cpc' \in [Consumers -> CPlaces],
           \A c \in Consumers : cpc'[c] = "hold" <=> cpc[c] = "hold"
    PROVE  RunningInv'
<1>1. OwnSlots' /\ UnseenWhileFilled' /\ BusyIsPosted' /\ NoShutdown'
  BY DEF OwnSlots, Away, UnseenWhileFilled, BusyIsPosted, NoShutdown, RunningInv, tvars
<1>2. Answered' /\ BusyIsHeld' /\ HeldIsOwn'
  BY DEF Answered, BusyIsHeld, HeldIsOwn, RunningInv, tvars
<1> QED
  BY <1>1, <1>2 DEF RunningInv

LEMMA LookKeeps ==
    ASSUME Types, RunningInv, main = "running", NEW c \in Consumers, Look(c)
    PROVE  RunningInv'
<1>0. {"look", "gap", "hold"} \subseteq CPlaces /\ cpc \in [Consumers -> CPlaces]
  BY DEF CPlaces, Types, ConsumerTypes
<1>1. CASE cpc' = [cpc EXCEPT ![c] = "gap"] /\ UNCHANGED <<slots, held, took>>
  <2>1. /\ cpc' \in [Consumers -> CPlaces] /\ cpc[c] = "look"
        /\ \A d \in Consumers : cpc'[d] = "hold" <=> cpc[d] = "hold"
    BY <1>0, <1>1 DEF Look
  <2> QED
    BY <1>1, <2>1, RestKeeps DEF Look
<1>2. ASSUME NEW i \in Slots,
             Oldest(Pending, i),
             slots' = [slots EXCEPT ![i].busy = TRUE],
             held' = [held EXCEPT ![c] = i],
             took' = [took EXCEPT ![c] = slots[i].id],
             cpc' = [cpc EXCEPT ![c] = "hold"]
      PROVE  RunningInv'
  <2>1. slots[i].posted > 0 /\ ~slots[i].busy /\ slots[i].posted \in Nat
    BY <1>2 DEF Oldest, Pending, Types, SlotTypes, Events
  <2>2. /\ slots'[i].posted = slots[i].posted /\ slots'[i].kind = slots[i].kind
        /\ slots'[i].from = slots[i].from /\ slots'[i].id = slots[i].id
        /\ slots'[i].busy
        /\ \A j \in Slots \ {i} : slots'[j] = slots[j]
    BY <1>2, MarkType DEF Types, SlotTypes, Events
  <2>3. /\ cpc[c] = "look" /\ lock = Nobody
        /\ cpc'[c] = "hold" /\ held'[c] = i /\ took'[c] = slots[i].id
        /\ \A d \in Consumers \ {c} :
              cpc'[d] = cpc[d] /\ held'[d] = held[d] /\ took'[d] = took[d]
        /\ UNCHANGED <<lock, main, tpc, mine, number, answer>>
    BY <1>2 DEF Look, Types, ConsumerTypes, tvars
  <2>4. \A u \in Threads : mine[u] \in Slots /\ tpc[u] # "filled"
    BY <2>3, ThreadsAreDistinct
       DEF Types, ThreadTypes, UnseenWhileFilled, RunningInv, ThreadsAreDistinct
  <2>5. OwnSlots'
    BY <2>2, <2>3, <2>4 DEF OwnSlots, RunningInv, Away
  <2>6. UnseenWhileFilled'
    BY <2>3, <2>4 DEF UnseenWhileFilled
  <2>7. Answered'
    BY <2>1, <2>2, <2>3, <2>4 DEF Answered, RunningInv
  <2>8. BusyIsHeld'
    <3>1. ASSUME NEW j \in Slots, slots'[j].busy, slots'[j].kind # "request"
          PROVE  \E d \in Consumers : cpc'[d] = "hold" /\ held'[d] = j
      <4>1. CASE j = i
        BY <2>3, <4>1
      <4>2. CASE j # i
        <5>1. PICK d \in Consumers : cpc[d] = "hold" /\ held[d] = j
          BY <2>2, <3>1, <4>2 DEF BusyIsHeld, RunningInv
        <5> QED
          BY <2>3, <5>1
      <4> QED
        BY <4>1, <4>2
    <3> QED
      BY <3>1 DEF BusyIsHeld
  <2>9. BusyIsPosted' /\ NoShutdown'
    BY <2>1, <2>2 DEF BusyIsPosted, NoShutdown, RunningInv
  <2>10. HeldIsOwn'
    <3>1. \A d \in Consumers : cpc[d] = "hold" => held[d] # i
      BY <2>1 DEF HeldIsOwn, RunningInv
    <3>2. \A d \in Consumers : held[d] \in Slots
      BY DEF Types, ConsumerTypes
    <3> QED
      BY <2>2, <2>3, <3>1, <3>2 DEF HeldIsOwn, RunningInv
  <2> QED
    BY <2>5, <2>6, <2>7, <2>8, <2>9, <2>10 DEF RunningInv
<1> QED
  BY <1>1, <1>2 DEF Look
\* The poster of the event a consumer answers is waiting for that answer.
LEMMA PosterWaits ==
    ASSUME Types, RunningInv, main = "running", NEW c \in Consumers, cpc[c] = "hold",
           slots[held[c]].kind = "request"
    PROVE  \E u \in Threads : /\ tpc[u] = "waiting" /\ mine[u] = held[c]
                              /\ slots[held[c]].from = u /\ number[u] = took[c]
                              /\ \A v \in Threads \ {u} : Away(v) => mine[v] # held[c]
<1> DEFINE i == held[c]
<1>1. i \in Slots /\ slots[i].busy /\ slots[i].id = took[c]
  BY DEF HeldIsOwn, RunningInv, Types, ConsumerTypes
<1>2. PICK u \in Threads : Away(u) /\ mine[u] = i
  BY <1>1 DEF OwnSlots, RunningInv
<1>3. slots[i].from = u /\ slots[i].id = number[u]
  BY <1>2 DEF OwnSlots, RunningInv
<1>4. tpc[u] # "filled"
  BY <1>1, <1>2 DEF UnseenWhileFilled, RunningInv
<1>5. tpc[u] \notin {"released", "back"}
  BY <1>2 DEF Answered, RunningInv
<1>6. \A v \in Threads \ {u} : Away(v) => mine[v] # i
  BY <1>2, <1>3 DEF OwnSlots, RunningInv
<1> QED
  BY <1>1, <1>2, <1>3, <1>4, <1>5, <1>6 DEF Away

LEMMA HandleKeeps ==
    ASSUME Types, RunningInv, main = "running", NEW c \in Consumers, Handle(c)
    PROVE  RunningInv'
<1> DEFINE i == held[c]
<1>1. /\ cpc[c] = "hold" /\ i \in Slots /\ slots[i].busy /\ slots[i].kind # "shutdown"
      /\ slots[i].posted # 0
      /\ Respond(i, took[c])
      /\ UNCHANGED <<lock, mine, number, main>>
  BY DEF Handle, Types, ConsumerTypes, RunningInv, BusyIsPosted
<1>2. /\ cpc'[c] = "look"
      /\ \A d \in Consumers \ {c} :
            cpc'[d] = cpc[d] /\ held'[d] = held[d] /\ took'[d] = took[d]
      /\ \A d \in Consumers : held[d] \in Slots
      /\ \A d \in Consumers \ {c} : cpc[d] = "hold" => held[d] # i
  BY <1>1 DEF Handle, Types, ConsumerTypes, RunningInv, HeldIsOwn
<1>3. \A u \in Threads : mine[u] \in Slots
  BY DEF Types, ThreadTypes
<1>4. \A j \in Slots : slots[j].kind \in Kinds
  BY DEF Types, SlotTypes, Events
<1>5. CASE slots[i].kind # "request"
  <2>1. slots' = [slots EXCEPT ![i] = EmptySlot] /\ UNCHANGED <<tpc, answer>>
    BY <1>1, <1>4, <1>5 DEF Respond, Kinds
  <2>2. slots'[i] = EmptySlot /\ \A j \in Slots \ {i} : slots'[j] = slots[j]
    BY <1>1, <2>1 DEF Types, SlotTypes
  <2>3. \A u \in Threads : (Away(u)' <=> Away(u)) /\ (Away(u) => mine[u] # i)
    BY <1>5, <2>1 DEF Away, OwnSlots, RunningInv
  <2>4. OwnSlots'
    BY <1>1, <1>3, <2>1, <2>2, <2>3 DEF OwnSlots, RunningInv, EmptySlot
  <2>5. UnseenWhileFilled'
    BY <1>1, <1>3, <2>1, <2>2, <2>3 DEF UnseenWhileFilled, RunningInv, Away
  <2>6. Answered'
    BY <1>1, <1>2, <1>3, <2>1, <2>2, <2>3 DEF Answered, RunningInv, Away
  <2>7. BusyIsHeld'
    BY <1>2, <2>2 DEF BusyIsHeld, RunningInv, EmptySlot
  <2>8. BusyIsPosted' /\ NoShutdown'
    BY <2>2 DEF BusyIsPosted, NoShutdown, RunningInv, EmptySlot
  <2>9. HeldIsOwn'
    BY <1>1, <1>2, <2>2 DEF HeldIsOwn, RunningInv
  <2> QED
    BY <2>4, <2>5, <2>6, <2>7, <2>8, <2>9 DEF RunningInv
<1>6. CASE slots[i].kind = "request"
  <2>1. PICK u \in Threads :
           /\ tpc[u] = "waiting" /\ mine[u] = i
           /\ slots[i].from = u /\ number[u] = took[c]
           /\ \A v \in Threads \ {u} : Away(v) => mine[v] # i
    BY <1>1, <1>6, PosterWaits
  <2>2. /\ slots' = [slots EXCEPT ![i].busy = TRUE]
        /\ answer' = [answer EXCEPT ![u] = took[c]]
        /\ ReleasePoster(i)
    BY <1>1, <1>6, <2>1 DEF Respond
  <2>3. UNCHANGED slots
    <3>0. slots[i] \in Events /\ slots[i].busy = TRUE
      BY <1>1 DEF Types, SlotTypes, Events
    <3>1. slots'[i] = slots[i] /\ \A j \in Slots \ {i} : slots'[j] = slots[j]
      <4>1. [slots[i] EXCEPT !.busy = TRUE] = slots[i]
        BY <3>0 DEF Events
      <4> QED
        BY <1>1, <2>2, <4>1, MarkType DEF Types, SlotTypes
    <3>2. slots' \in [Slots -> Events]
      BY <1>1, <2>2, MarkType DEF Types, SlotTypes
    <3> QED
      BY <3>1, <3>2 DEF Types, SlotTypes
  <2>4. /\ tpc'[u] = "released" /\ answer'[u] = number[u]
        /\ \A v \in Threads \ {u} : tpc'[v] = tpc[v] /\ answer'[v] = answer[v]
    <3>1. {v \in Threads : tpc[v] = "waiting" /\ mine[v] = i} = {u}
      BY <2>1 DEF Away
    <3> QED
      BY <2>1, <2>2, <3>1 DEF ReleasePoster, Types, ThreadTypes
  <2>5. \A v \in Threads : Away(v)' <=> Away(v)
    BY <2>1, <2>4 DEF Away
  <2>6. OwnSlots' /\ BusyIsPosted' /\ NoShutdown'
    BY <1>1, <2>3, <2>5 DEF OwnSlots, BusyIsPosted, NoShutdown, RunningInv
  <2>7. UnseenWhileFilled'
    BY <1>1, <2>3, <2>4 DEF UnseenWhileFilled, RunningInv
  <2>8. Answered'
    BY <1>1, <1>2, <2>1, <2>3, <2>4 DEF Answered, RunningInv
  <2>9. BusyIsHeld'
    BY <1>2, <1>6, <2>3 DEF BusyIsHeld, RunningInv
  <2>10. HeldIsOwn'
    BY <1>1, <1>2, <2>3 DEF HeldIsOwn, RunningInv
  <2> QED
    BY <2>6, <2>7, <2>8, <2>9, <2>10 DEF RunningInv
<1> QED
  BY <1>5, <1>6

LEMMA ConsumerKeeps ==
    ASSUME Types, RunningInv, main = "running", NEW c \in Consumers, ConsumerStep(c),
           main' = "running"
    PROVE  RunningInv'
<1>1. CASE Sleep(c) \/ Timeout(c) \/ HandleShutdown(c)
  <2>1. {"look", "wait", "done"} \subseteq CPlaces /\ cpc \in [Consumers -> CPlaces]
    BY DEF CPlaces, Types, ConsumerTypes
  <2>2. ~HandleShutdown(c)
    BY DEF HandleShutdown, RunningInv, NoShutdown, Types, ConsumerTypes
  <2>3. /\ cpc' \in [Consumers -> CPlaces]
        /\ \A d \in Consumers : cpc'[d] = "hold" <=> cpc[d] = "hold"
        /\ UNCHANGED <<slots, lock, tvars, main, held, took>>
    BY <1>1, <2>1, <2>2 DEF Sleep, Timeout
  <2> QED
    BY <2>3, RestKeeps
<1>2. ~HandleAborts(c)
  BY DEF HandleAborts
<1> QED
  BY <1>1, <1>2, LookKeeps, HandleKeeps DEF ConsumerStep

-----------------------------------------------------------------------------
(* The theorems.                                                             *)

LEMMA StepInv == IInv /\ [Next]_vars => IInv'
<1> SUFFICES ASSUME IInv, [Next]_vars PROVE IInv'
  OBVIOUS
<1>0. Types /\ (main = "running" => RunningInv)
  BY TypeParts
<1>1. Types'
  <2>1. CASE UNCHANGED vars
    BY <1>0, <2>1 DEF vars, tvars, cvars, Types, SlotTypes, ThreadTypes, ClaimIsSlot,
                      ConsumerTypes
  <2> QED
    BY <1>0, <2>1, PostTypes, ThreadTypesKept, MainTypesKept, ConsumerTypesKept DEF Next
<1>2. ASSUME main' = "running" PROVE RunningInv'
  <2>0. main = "running"
    BY <1>2 DEF Next, vars, PostLog, PostRequest, ThreadStep, AwaitAnswer, ReturnAnswer,
                FreeEvent, BlockerExits, LoopEnds, MainStep, CancelTest, CancelClaim,
                CancelDone, Join, PostShutdown, ConsumerStep, Look, Sleep, Timeout, Handle,
                HandleAborts, HandleShutdown, ClockTicks
  <2>1. CASE UNCHANGED vars
    BY <1>0, <2>0, <2>1, RestKeeps DEF vars, cvars, Types, ConsumerTypes
  <2>2. ASSUME NEW t \in Threads, PostLog(t) \/ PostRequest(t) \/ ThreadStep(t)
        PROVE  RunningInv'
    <3>1. ~BlockerExits(t)
      BY <2>0 DEF BlockerExits
    <3> QED
      BY <1>0, <2>0, <2>2, <3>1, PostLogKeeps, PostRequestKeeps, WaitKeeps, FreeEventKeeps
         DEF ThreadStep
  <2>3. ~(LoopEnds \/ MainStep)
    BY <1>2, <2>0 DEF LoopEnds, MainStep, CancelTest, CancelClaim, CancelDone, Join,
                      PostShutdown
  <2>4. ASSUME NEW c \in Consumers, ConsumerStep(c) PROVE RunningInv'
    BY <1>0, <1>2, <2>0, <2>4, ConsumerKeeps
  <2>5. CASE ClockTicks
    BY <1>0, <2>0, <2>5, RestKeeps DEF ClockTicks, cvars, Types, ConsumerTypes
  <2> QED
    BY <2>1, <2>2, <2>3, <2>4, <2>5 DEF Next
<1> QED
  BY <1>1, <1>2 DEF IInv, TypeOK, Types, SlotTypes, ThreadTypes, ClaimIsSlot, ConsumerTypes,
                    Events, TPlaces, CPlaces, Phases, RunningInv, BusyIsPosted
\* The events, the posters and the consumers keep to their types through the
\* library's whole life, stopping and all (pkhooks.c).
THEOREM TypeCorrect == Spec => []TypeOK
<1>1. IInv => TypeOK
  BY DEF IInv
<1> QED
  BY InitInv, StepInv, <1>1, PTL DEF Spec

\* Posters and consumers share the queue's slots by these rules as long as the
\* loop runs.
THEOREM Invariant == Spec => []IInv
  BY InitInv, StepInv, PTL DEF Spec

\* pke_post_blocking_event comes back with the answer to its own event: no
\* other post takes its slot while it waits, and no other answer wakes it.
THEOREM AnswersAreOwn == Spec => []AnswerIsOwn
<1>1. IInv => AnswerIsOwn
  BY DEF IInv, RunningInv, Answered, AnswerIsOwn
<1> QED
  BY InitInv, StepInv, <1>1, PTL DEF Spec

\* What pke_await_event gave a consumer stays that consumer's until it answers.
THEOREM HeldAreOwn == Spec => []HeldIsOwn
<1>1. IInv => HeldIsOwn
  BY DEF IInv, RunningInv, HeldIsOwn
<1> QED
  BY InitInv, StepInv, <1>1, PTL DEF Spec

\* pke_free_event and pke_post_response give every slot back.
THEOREM SlotsComeBack == Spec => []NoSlotLeaks
<1>1. IInv => NoSlotLeaks
  BY DEF IInv, RunningInv, OwnSlots, BusyIsHeld, NoSlotLeaks, Reusable, Away
<1> QED
  BY InitInv, StepInv, <1>1, PTL DEF Spec
=============================================================================
