-------------------------------- MODULE PkWakeup --------------------------------
(***************************************************************************)
(* How other threads wake the event loop: ev_async_send, evpipe_write and  *)
(* pipecb of the bundled libev, and the parts of ev_run that meet them.    *)
(* pkm_quit, pkm_tick and pkm_interrupt all rest on it.                    *)
(*                                                                         *)
(* A wake-up takes a sent flag per watcher, three flags of the loop and    *)
(* an eventfd, read and written by every thread without a lock; each       *)
(* access to one of them is a step here, and the fences of ev.c make the   *)
(* steps sequentially consistent.  The write is left out when the loop is  *)
(* awake (pipe_write_skipped), so the loop must look at what it missed     *)
(* before it blocks and after.                                             *)
(*                                                                         *)
(* MAX_BLOCKTIME, by which libev polls again after a minute at the latest, *)
(* is taken for never.  PkRequests is the abstract specification.          *)
(***************************************************************************)
EXTENDS Naturals, Sequences, SequencesExt

CONSTANTS
    Senders,    \* threads other than the loop's that call ev_async_send
    Asyncs,     \* async watchers, in the order pkm_manager_init starts them
    Loop        \* the loop's own thread, when one of its callbacks sends

ASSUME SendersAssumption == Loop \notin Senders
ASSUME AsyncsAssumption ==
    /\ Asyncs \in Seq(STRING) /\ "quit" \in ToSet(Asyncs)
    /\ "io" \notin ToSet(Asyncs)
    /\ \A i, j \in 1..Len(Asyncs) : Asyncs[i] = Asyncs[j] => i = j

Threads == Senders \cup {Loop}
Kinds == ToSet(Asyncs)

VARIABLES
    sent,                \* the sent flag of each async watcher
    async_pending,       \* some watcher may have been sent
    pipe_write_wanted,   \* the loop is about to block
    pipe_write_skipped,  \* a sender left the write out
    eventfd,             \* the eventfd is readable
    spc,                 \* where each thread is in ev_async_send
    pc,                  \* where the loop thread is in ev_run
    may_block,           \* the wait time of this iteration is not zero
    pipe_w,              \* events pending for the pipe's watcher
    pendings,            \* the other pending events, the last to be handed out first
    scan,                \* async watchers pipecb has not looked at yet
    loop_done            \* ev_break was called

flags == <<async_pending, pipe_write_wanted, pipe_write_skipped, eventfd>>
batch == <<pipe_w, pendings>>

vars == <<sent, flags, spc, pc, may_block, batch, scan, loop_done>>

LoopPc == {"run", "arm", "decide", "poll", "disarm", "skips", "invoke", "pipe_read",
           "pipe_skip", "pipe_flag", "pipe_scan", "callback", "sending", "stopped"}
SendPc == {"idle", "test", "set", "skip", "wanted", "unskip", "write"}

TypeOK ==
    /\ sent \in [Kinds -> BOOLEAN]
    /\ async_pending \in BOOLEAN /\ pipe_write_wanted \in BOOLEAN
    /\ pipe_write_skipped \in BOOLEAN /\ eventfd \in BOOLEAN
    /\ spc \in [Threads -> SendPc]
    /\ pc \in LoopPc
    /\ may_block \in BOOLEAN /\ loop_done \in BOOLEAN
    /\ pipe_w \subseteq {"read", "custom"}
    /\ pendings \in Seq(Kinds \cup {"io"})
    /\ scan \in 0..Len(Asyncs)

Init ==
    /\ sent = [a \in Kinds |-> FALSE]
    /\ async_pending = FALSE
    /\ pipe_write_wanted = FALSE
    /\ pipe_write_skipped = FALSE
    /\ eventfd = FALSE
    /\ spc = [s \in Threads |-> "idle"]
    /\ pc = "run"
    /\ may_block = FALSE
    /\ pipe_w = {}
    /\ pendings = <<>>
    /\ scan = 0
    /\ loop_done = FALSE

-----------------------------------------------------------------------------
(* ev_async_send and evpipe_write.                                           *)

GotoS(s, from, to) == spc[s] = from /\ spc' = [spc EXCEPT ![s] = to]

Elsewhere == <<pc, may_block, batch, scan, loop_done>>

\* A callback of the loop sends at most once (pkm_update_io and pkm_tick).
Send(s, a) ==
    /\ GotoS(s, "idle", "test")
    /\ IF s = Loop THEN pc = "callback" /\ pc' = "sending" ELSE UNCHANGED pc
    /\ sent' = [sent EXCEPT ![a] = TRUE]
    /\ UNCHANGED <<flags, may_block, batch, scan, loop_done>>

TestPending(s) ==
    /\ GotoS(s, "test", IF async_pending THEN "idle" ELSE "set")
    /\ UNCHANGED <<Elsewhere, sent, flags>>

SetPending(s) ==
    /\ GotoS(s, "set", "skip")
    /\ async_pending' = TRUE
    /\ UNCHANGED <<Elsewhere, sent, pipe_write_wanted, pipe_write_skipped, eventfd>>

\* Seeded bug: the loop is not told that a write was left out.
SetSkippedNot(s) ==
    /\ GotoS(s, "skip", "wanted")
    /\ UNCHANGED <<Elsewhere, sent, flags>>

SetSkipped(s) ==
    /\ GotoS(s, "skip", "wanted")
    /\ pipe_write_skipped' = TRUE
    /\ UNCHANGED <<Elsewhere, sent, async_pending, pipe_write_wanted, eventfd>>

TestWanted(s) ==
    /\ GotoS(s, "wanted", IF pipe_write_wanted THEN "unskip" ELSE "idle")
    /\ UNCHANGED <<Elsewhere, sent, flags>>

ClearSkipped(s) ==
    /\ GotoS(s, "unskip", "write")
    /\ pipe_write_skipped' = FALSE
    /\ UNCHANGED <<Elsewhere, sent, async_pending, pipe_write_wanted, eventfd>>

WritePipe(s) ==
    /\ GotoS(s, "write", "idle")
    /\ eventfd' = TRUE
    /\ UNCHANGED <<Elsewhere, sent, async_pending, pipe_write_wanted, pipe_write_skipped>>

SenderStep(s) ==
    \/ TestPending(s) \/ SetPending(s) \/ SetSkipped(s) \/ TestWanted(s)
    \/ ClearSkipped(s) \/ WritePipe(s)

-----------------------------------------------------------------------------
(* ev_run.                                                                   *)

Goto(from, to) == pc = from /\ pc' = to

Start ==
    /\ Goto("run", "arm")
    /\ loop_done' = FALSE
    /\ UNCHANGED <<sent, flags, spc, may_block, batch, scan>>

\* From here on the loop wants the pipe written ...
WantWakeup ==
    /\ Goto("arm", "decide")
    /\ pipe_write_wanted' = TRUE
    /\ UNCHANGED <<sent, async_pending, pipe_write_skipped, eventfd, spc, may_block,
                   batch, scan, loop_done>>

\* ... and only then does it look whether a write was skipped before.
Decide ==
    /\ Goto("decide", "poll")
    /\ may_block' = ~pipe_write_skipped
    /\ UNCHANGED <<sent, flags, spc, batch, scan, loop_done>>

\* A socket or the timer may end the wait as well.
Poll ==
    /\ Goto("poll", "disarm")
    /\ pendings' \in {<<>>, <<"io">>}
    /\ may_block => eventfd \/ pendings' # <<>>
    /\ may_block' = FALSE
    /\ pipe_w' = IF eventfd THEN {"read"} ELSE {}
    /\ UNCHANGED <<sent, flags, spc, scan, loop_done>>

WantNoWakeup ==
    /\ Goto("disarm", "skips")
    /\ pipe_write_wanted' = FALSE
    /\ UNCHANGED <<sent, async_pending, pipe_write_skipped, eventfd, spc, may_block,
                   batch, scan, loop_done>>

FeedSkipped ==
    /\ Goto("skips", "invoke")
    /\ pipe_w' = IF pipe_write_skipped THEN pipe_w \cup {"custom"} ELSE pipe_w
    /\ UNCHANGED <<sent, flags, spc, may_block, pendings, scan, loop_done>>

\* ev_invoke_pending: the pipe's watcher has the highest priority.
InvokePipe ==
    /\ pipe_w # {}
    /\ Goto("invoke", IF "read" \in pipe_w THEN "pipe_read" ELSE "pipe_skip")
    /\ pipe_w' = {}
    /\ UNCHANGED <<sent, flags, spc, may_block, pendings, scan, loop_done>>

Invoke ==
    /\ pipe_w = {} /\ pendings # <<>>
    /\ Goto("invoke", "callback")
    /\ loop_done' = (loop_done \/ Last(pendings) = "quit")
    /\ pendings' = Front(pendings)
    /\ UNCHANGED <<sent, flags, spc, may_block, pipe_w, scan>>

Return ==
    /\ pc \in {"callback", "sending"} /\ spc[Loop] = "idle"
    /\ pc' = "invoke"
    /\ UNCHANGED <<sent, flags, spc, may_block, batch, scan, loop_done>>

EndIteration ==
    /\ pipe_w = {} /\ pendings = <<>>
    /\ Goto("invoke", IF loop_done THEN "stopped" ELSE "arm")
    /\ UNCHANGED <<sent, flags, spc, may_block, batch, scan, loop_done>>

-----------------------------------------------------------------------------
(* pipecb.                                                                   *)

ReadPipe ==
    /\ Goto("pipe_read", "pipe_skip")
    /\ eventfd' = FALSE
    /\ UNCHANGED <<sent, async_pending, pipe_write_wanted, pipe_write_skipped, spc,
                   may_block, batch, scan, loop_done>>

PipeClearSkipped ==
    /\ Goto("pipe_skip", "pipe_flag")
    /\ pipe_write_skipped' = FALSE
    /\ UNCHANGED <<sent, async_pending, pipe_write_wanted, eventfd, spc, may_block,
                   batch, scan, loop_done>>

PipeTakeFlag ==
    /\ Goto("pipe_flag", IF async_pending THEN "pipe_scan" ELSE "invoke")
    /\ async_pending' = FALSE
    /\ scan' = IF async_pending THEN Len(Asyncs) ELSE 0
    /\ UNCHANGED <<sent, pipe_write_wanted, pipe_write_skipped, eventfd, spc, may_block,
                   batch, loop_done>>

\* Seeded bug: the last watcher started is left out.
PipeScanShort ==
    LET a == Asyncs[scan] IN
    /\ Goto("pipe_scan", IF scan = 1 THEN "invoke" ELSE "pipe_scan")
    /\ scan' = scan - 1
    /\ IF sent[a] /\ scan # Len(Asyncs)
       THEN /\ sent' = [sent EXCEPT ![a] = FALSE]
            /\ pendings' = Append(pendings, a)
       ELSE UNCHANGED <<sent, pendings>>
    /\ UNCHANGED <<flags, spc, may_block, pipe_w, loop_done>>

PipeScan ==
    LET a == Asyncs[scan] IN
    /\ Goto("pipe_scan", IF scan = 1 THEN "invoke" ELSE "pipe_scan")
    /\ scan' = scan - 1
    /\ IF sent[a]
       THEN /\ sent' = [sent EXCEPT ![a] = FALSE]
            /\ pendings' = Append(pendings, a)
       ELSE UNCHANGED <<sent, pendings>>
    /\ UNCHANGED <<flags, spc, may_block, pipe_w, loop_done>>

-----------------------------------------------------------------------------
LoopStep ==
    \/ Start \/ WantWakeup \/ Decide \/ WantNoWakeup \/ FeedSkipped
    \/ InvokePipe \/ Invoke \/ Return \/ EndIteration
    \/ ReadPipe \/ PipeClearSkipped \/ PipeTakeFlag \/ PipeScan

Next ==
    \/ LoopStep \/ Poll
    \/ \E s \in Threads : SenderStep(s) \/ \E a \in Kinds : Send(s, a)

Spec == Init /\ [][Next]_vars

(***************************************************************************)
(* Every thread keeps running and every callback comes to an end.  Nothing *)
(* says that a socket or the timer ever stirs: the loop leaves a blocking  *)
(* poll for certain only because of the eventfd.                           *)
(***************************************************************************)
Fairness ==
    /\ WF_vars(LoopStep)
    /\ WF_vars(Poll /\ (eventfd \/ ~may_block))
    /\ \A s \in Threads : WF_vars(SenderStep(s))

FairSpec == Spec /\ Fairness

-----------------------------------------------------------------------------
\* The loop never sleeps on a request: while it waits in the kernel with a sent
\* flag up, either the eventfd is readable or a sender is still on its way to
\* writing it (evpipe_write against ev_run, ev.c 2133-2179 and 3314-3377).
NoLostWakeup ==
    pc = "poll" /\ may_block /\ (\E a \in Kinds : sent[a]) =>
        eventfd \/ \E s \in Senders : spc[s] # "idle"

Requests == INSTANCE PkRequests WITH
    requested <- {a \in Kinds : sent[a]},
    due <- ToSet(pendings) \ {"io"},
    quitting <- loop_done,
    running <- pc # "stopped"

\* Every pkm_quit, pkm_tick and pkm_interrupt is handled, whatever thread calls it
\* and whatever the loop is doing, even before it starts, and pkm_quit ends the
\* loop: the flags and the pipe implement PkRequests, fairness included.
RequestsServed == Requests!Spec

=============================================================================
