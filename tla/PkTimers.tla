------------------------------- MODULE PkTimers -------------------------------
(***************************************************************************)
(* The timers of the event loop (libev/ev.c), which the housekeeping tick  *)
(* hangs on: a D-ary heap in an array, in which every entry caches its     *)
(* timer's due time and every timer remembers the index of its entry, and  *)
(* timers_reify, which takes the due ones from its top.                    *)
(*                                                                         *)
(* Indices are the array's: the root is at Heap0 = D - 1.  Times are on    *)
(* the loop's own clock, mn_now, which is read once per iteration.         *)
(* Callbacks run one after the other and may start, stop and set again any *)
(* timer, their own and those about to be called included.                 *)
(***************************************************************************)
EXTENDS Integers, SequencesExt

CONSTANTS
  Timers,    \* the timers
  D,         \* DHEAP: 4, or 2 where libev is built for size
  Afters,    \* the times timers are started with
  Repeats,   \* the repeat values they are given; 0 is none
  NowMax,    \* the last time: bounds the runs only
  MaxJump    \* max_block + MIN_TIMEJUMP; no bound at all with a monotonic clock

ASSUME TimerSizes == /\ D \in Nat \ {0, 1} /\ IsFiniteSet(Timers) /\ NowMax \in Nat
                     /\ MaxJump \in Nat
                     /\ Afters \subseteq Nat /\ Repeats \subseteq Nat

VARIABLES
  heap,     \* timers: the entries in use, each a timer and its cached time
  slot,    \* ev_active of each timer: its entry's index, 0 if it has none
  due,      \* ev_at; what ev_timer_stop leaves there nobody reads: 0
  repeat,   \* w->repeat
  mnNow,    \* mn_now
  firing    \* the timers whose callbacks are to be called, the last one first

timerVars == <<heap, slot, due, repeat, mnNow, firing>>

Heap0 == D - 1
Size  == Cardinality(DOMAIN heap)
None  == [i \in {} |-> 0]

TimersInit ==
  /\ heap = None
  /\ slot = [t \in Timers |-> 0]
  /\ due = [t \in Timers |-> 0]
  /\ repeat = [t \in Timers |-> 0]
  /\ mnNow = 0
  /\ firing = <<>>
-----------------------------------------------------------------------------
(* The heap.  A state of it is a record of the array and of the indices the *)
(* timers remember; sifting an entry writes those of the entries it moves.   *)

Parent(k)  == ((k - Heap0 - 1) \div D) + Heap0
Kids(h, k) == {i \in DOMAIN h : i > Heap0 /\ Parent(i) = k}

\* k and the entries above it.
Above[k \in Nat] == {k} \cup (IF k <= Heap0 THEN {} ELSE Above[Parent(k)])

\* The kid that is due first; of equals, the first one.
FirstKid(h, k) ==
  CHOOSE i \in Kids(h, k) :
    \A j \in Kids(h, k) : h[i].at < h[j].at \/ (h[i].at = h[j].at /\ i <= j)

\* An entry at an index of from comes from the index it has there, and its timer
\* remembers where it is now.
Moved(s, from) ==
  LET h == [i \in DOMAIN s.heap |-> IF i \in DOMAIN from THEN s.heap[from[i]] ELSE s.heap[i]]
      At(t) == {i \in DOMAIN from : h[i].w = t}
  IN  [heap |-> h,
       slot |-> [t \in Timers |-> IF At(t) # {} THEN CHOOSE i \in At(t) : TRUE ELSE s.slot[t]]]

\* Where the entry at k of h passes on its way up, past the ones that are due later.
WayUp(h, k) ==
  {j \in Above[k] : \A i \in Above[k] : i > j => h[Parent(i)].at > h[k].at}

\* upheap: it goes up, and each of the others down to the one below.
UpHeap(s, k) ==
  LET way == WayUp(s.heap, k)
  IN  Moved(s, [i \in way |-> IF \E j \in way : j < i THEN Parent(i) ELSE k])

\* Where it passes on its way down, past the first of the kids that are due earlier.
WayDown(h, k) ==
  {j \in DOMAIN h :
     k \in Above[j] /\ \A i \in Above[j] : i > k => /\ i = FirstKid(h, Parent(i))
                                                  /\ h[i].at < h[k].at}

\* downheap: it goes down, and each of the others up.
DownHeap(s, k) ==
  LET way == WayDown(s.heap, k)
  IN  Moved(s, [i \in way |-> IF \E j \in way : j > i THEN FirstKid(s.heap, i) ELSE k])

\* Seeded bug: an entry is taken to have become later, never earlier.
AdjustHeapDown(s, k) == DownHeap(s, k)

\* adjustheap
AdjustHeap(s, k) ==
  IF k > Heap0 /\ s.heap[k].at <= s.heap[Parent(k)].at THEN UpHeap(s, k) ELSE DownHeap(s, k)

\* The cache of the entry at k is brought up to date.
Cached(s, k, at) == [s EXCEPT !.heap[k].at = at]

TheHeap == [heap |-> heap, slot |-> slot]

\* ev_timer_start: a new entry at the end goes up.
Insert(s, t, at) ==
  LET k == Heap0 + Cardinality(DOMAIN s.heap)
      h == [i \in DOMAIN s.heap \cup {k} |-> IF i = k THEN [w |-> t, at |-> at] ELSE s.heap[i]]
  IN  UpHeap([heap |-> h, slot |-> [s.slot EXCEPT ![t] = k]], k)

\* ev_timer_stop: the last entry takes the slot of the one that goes.
TakeOut(s, t) ==
  LET last == Heap0 + Cardinality(DOMAIN s.heap) - 1
      k    == s.slot[t]
      h    == [i \in DOMAIN s.heap \ {last} |-> IF i = k THEN s.heap[last] ELSE s.heap[i]]
      cut  == [heap |-> h, slot |-> s.slot]
      new  == IF k < last THEN AdjustHeap(cut, k) ELSE cut
  IN  [heap |-> new.heap, slot |-> [new.slot EXCEPT ![t] = 0]]

Becomes(s) == \E new \in {s} : heap' = new.heap /\ slot' = new.slot

\* clear_pending; a timer is pending once at most.
Unpend(p, t) ==
  IF \E i \in DOMAIN p : p[i] = t THEN RemoveAt(p, CHOOSE i \in DOMAIN p : p[i] = t) ELSE p
-----------------------------------------------------------------------------
(* The calls. *)

\* ev_timer_set and ev_timer_start
TimerStart(t) ==
  /\ slot[t] = 0
  /\ \E after \in Afters, r \in Repeats :
       /\ due' = [due EXCEPT ![t] = mnNow + after]
       /\ repeat' = [repeat EXCEPT ![t] = r]
       /\ Becomes(Insert(TheHeap, t, mnNow + after))
  /\ UNCHANGED <<mnNow, firing>>

\* ev_timer_stop
TimerStop(t) ==
  /\ firing' = Unpend(firing, t)
  /\ IF slot[t] = 0 THEN UNCHANGED <<heap, slot, due>>
     ELSE /\ Becomes(TakeOut(TheHeap, t))
          /\ due' = [due EXCEPT ![t] = 0]
  /\ UNCHANGED <<repeat, mnNow>>

\* A new w->repeat and ev_timer_again, as pkm_reset_timer has it.
TimerAgain(t) ==
  \E r \in Repeats :
    /\ repeat' = [repeat EXCEPT ![t] = r]
    /\ firing' = Unpend(firing, t)
    /\ CASE slot[t] # 0 /\ r # 0 ->
              /\ due' = [due EXCEPT ![t] = mnNow + r]
              /\ Becomes(AdjustHeap(Cached(TheHeap, slot[t], mnNow + r), slot[t]))
         [] slot[t] # 0 /\ r = 0 ->
              /\ due' = [due EXCEPT ![t] = 0]
              /\ Becomes(TakeOut(TheHeap, t))
         [] slot[t] = 0 /\ r # 0 ->
              /\ due' = [due EXCEPT ![t] = mnNow + r]
              /\ Becomes(Insert(TheHeap, t, mnNow + r))
         [] OTHER -> UNCHANGED <<heap, slot, due>>
    /\ UNCHANGED mnNow

\* The next iteration comes when the due timers have fired.
Due     == Size > 0 /\ heap[Heap0].at < mnNow
NoneDue == firing = <<>> /\ ~Due

\* time_update; the two an iteration has are taken for one.
TimeUpdate ==
  /\ NoneDue /\ mnNow < NowMax
  /\ mnNow' \in (mnNow + 1)..NowMax /\ mnNow' <= mnNow + MaxJump
  /\ UNCHANGED <<heap, slot, due, repeat, firing>>

\* Where the clock is the realtime one and was set: timers_reschedule moves the
\* timers along.
TimeJump ==
  /\ NoneDue
  /\ mnNow' \in 0..NowMax
  /\ mnNow' < mnNow \/ mnNow' > mnNow + MaxJump
  /\ due' = [t \in Timers |-> IF slot[t] # 0 THEN due[t] + mnNow' - mnNow ELSE due[t]]
  /\ heap' = [i \in DOMAIN heap |-> [heap[i] EXCEPT !.at = due'[heap[i].w]]]
  /\ UNCHANGED <<slot, repeat, firing>>

\* One round of timers_reify, on the heap, the due times and what is fed so far.
\* A repeating timer that is more than one period late skips the missed ones.
Reify(s) ==
  IF DOMAIN s.heap = {} \/ s.heap[Heap0].at >= mnNow THEN s
  ELSE LET t    == s.heap[Heap0].w
           late == s.due[t] + repeat[t]
           next == IF late < mnNow THEN mnNow ELSE late
           old  == [heap |-> s.heap, slot |-> s.slot]
           new  == IF repeat[t] = 0 THEN TakeOut(old, t)
                   ELSE DownHeap(Cached(old, Heap0, next), Heap0)
       IN  [heap |-> new.heap, slot |-> new.slot, fed |-> Append(s.fed, t),
            due |-> [s.due EXCEPT ![t] = IF repeat[t] = 0 THEN 0 ELSE next]]

\* Rounds until none is due.
Reified ==
  LET start == [heap |-> heap, slot |-> slot, due |-> due, fed |-> <<>>]
      after[n \in 0..Size] == IF n = 0 THEN start ELSE Reify(after[n - 1])
  IN  after[Size]

\* Seeded bug: they are fed in the order in which they are due.
FedForth(fed) == fed

\* feed_reverse and feed_reverse_done
FedBack(fed) == Reverse(fed)

\* timers_reify, with nothing pending: every timer fires once at most.
TimersReify ==
  /\ firing = <<>> /\ Due
  /\ \E s \in {Reified} :
         /\ Becomes(s)
         /\ due' = s.due
         /\ firing' = FedBack(s.fed)
  /\ UNCHANGED <<repeat, mnNow>>

\* ev_invoke_pending calls the next callback; what that does is the calls above.
InvokeTimer ==
  /\ firing # <<>>
  /\ firing' = Front(firing)
  /\ UNCHANGED <<heap, slot, due, repeat, mnNow>>

TimersNext ==
  \/ \E t \in Timers : TimerStart(t) \/ TimerStop(t) \/ TimerAgain(t)
  \/ TimeUpdate \/ TimeJump \/ TimersReify \/ InvokeTimer

TimersSpec == TimersInit /\ [][TimersNext]_timerVars
-----------------------------------------------------------------------------
(***************************************************************************)
(* verify_heap (ev.c:2807-2821): every entry is where its timer says, is   *)
(* not due before its parent, and caches the right time.                   *)
(***************************************************************************)
HeapIsSound ==
  /\ \A i \in DOMAIN heap : /\ slot[heap[i].w] = i
                            /\ i = Heap0 \/ heap[Parent(i)].at <= heap[i].at
                            /\ heap[i].at = due[heap[i].w]
  /\ \A t \in Timers : slot[t] # 0 => slot[t] \in DOMAIN heap /\ heap[slot[t]].w = t

(***************************************************************************)
(* Whatever was started, stopped and set again before, in callbacks or     *)
(* not: when timers fire, all that are due do, and their callbacks are     *)
(* called in the order of their times, timers that are stopped meanwhile   *)
(* excepted.                                                               *)
(***************************************************************************)
TimersRunInOrder ==
  [][firing = <<>> /\ firing' # <<>> =>
       /\ \A i, j \in DOMAIN firing' : i < j => due[firing'[i]] >= due[firing'[j]]
       /\ \A t \in Timers : slot[t] # 0 /\ due[t] < mnNow =>
            \E i \in DOMAIN firing' : firing'[i] = t]_timerVars
=============================================================================
