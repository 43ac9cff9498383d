--------------------------------- MODULE PkLoop ---------------------------------
(***************************************************************************)
(* The event loop's descriptors: the bundled libev (ev.c with its epoll,   *)
(* poll and select back ends), as driven by the watchers pkmanager.c       *)
(* starts and stops.                                                       *)
(*                                                                         *)
(* libev tells the kernel about a descriptor lazily: ev_io_start and       *)
(* ev_io_stop only mark it changed, fd_reify works out its mask before the *)
(* next poll, and epoll_modify guesses what the kernel still knows from    *)
(* the mask it last sent.  Meanwhile descriptors are closed and their      *)
(* numbers are handed out again, in the same callback or by the thread     *)
(* that connects a tunnel.                                                 *)
(*                                                                         *)
(* How other threads wake the loop is in PkWakeup and how they trade locks *)
(* with it in PkManagerLocks: here they touch watchers while the loop is   *)
(* inside a callback.  The loop's one timer is in PkHousekeeping.          *)
(***************************************************************************)
EXTENDS Naturals

CONSTANTS
    Tunnels,     \* connections opened by a blocker thread (pk_connect_ai)
    Streams,     \* connections opened by the loop itself (pkm_connect_be)
    Fds,         \* descriptor numbers the process can get
    BackEnds,    \* the back ends loop_init may choose
    Racing       \* a blocker may open a socket while the loop closes a tunnel

Conns == Tunnels \cup Streams
NoFd == 0
Nobody == "nobody"
RW == {"r", "w"}

ASSUME FdsAreNumbers == Fds \subseteq Nat \ {NoFd}

ASSUME ConnsAreDistinct ==
    /\ Tunnels \cap Streams = {}
    /\ Conns \cap {Nobody, "quit", "interrupt"} = {}

ASSUME BackEndsAreKnown == BackEnds \subseteq {"epoll", "poll", "select"}

VARIABLES
    backend,    \* the back end in use
    owner,      \* the kernel: the connection whose socket a descriptor is, or Nobody
    interest,   \* the kernel's mask of each descriptor; poll and select keep it in an array
    sockfd,     \* the descriptor each connection holds, or NoFd
    status,     \* "free", "connecting" or "up"
    ev,         \* the io part of struct ev_loop, see LoopInit
    loop_done,  \* ev_break was called
    stage,      \* where the loop thread is
    closing     \* the tunnel whose descriptor it closes twice

kernel == <<owner, interest>>
conns == <<sockfd, status>>

watchVars == <<backend, kernel, conns, ev, loop_done, stage, closing>>

-----------------------------------------------------------------------------
(* libev's bookkeeping: operators on the record ev, whose fields are         *)
(*   heads    anfds[fd].head, the active watchers of each descriptor, in     *)
(*            whatever order                                                 *)
(*   events   anfds[fd].events, the mask fd_reify last computed              *)
(*   emask    anfds[fd].emask, the mask epoll was last told                  *)
(*   reify    anfds[fd].reify; fdchanges are the fds where it is not empty   *)
(*   pendings the events to be handed out, in whatever order; gone (history) *)
(*            tells that the socket of an event has been closed since         *)
(*   fresh    the watchers whose EV__IOFDSET bit is set                      *)

LoopInit == [heads |-> [f \in Fds |-> {}],
             events |-> [f \in Fds |-> {}],
             emask |-> [f \in Fds |-> {}],
             reify |-> [f \in Fds |-> {}],
             pendings |-> {},
             fresh |-> {}]

Watcher(c, e) == [conn |-> c, events |-> e]
Async(a) == Watcher(a, "async")
Watchers(c) == {Watcher(c, e) : e \in RW}
Active(l, w) == \E f \in Fds : w \in l.heads[f]

Pending(w) == [w |-> w, gone |-> FALSE]

\* ev_clear_pending: a watcher that does nothing takes its place in the queue.
ClearPending(l, w) == [l EXCEPT !.pendings = {p \in @ : p.w # w}]

\* Seeded bug: events already pending for the watcher survive the stop.
IoStopPending(l, w, fd) ==
    IF ~Active(l, w) THEN l
    ELSE [l EXCEPT !.heads[fd] = @ \ {w},
                   !.reify[fd] = @ \cup {"reify"}]

IoStop(l, w, fd) ==
    LET cleared == ClearPending(l, w) IN
    IF ~Active(l, w) THEN cleared
    ELSE [cleared EXCEPT !.heads[fd] = @ \ {w},
                         !.reify[fd] = @ \cup {"reify"}]

IoStart(l, w, fd) ==
    IF Active(l, w) THEN l
    ELSE [l EXCEPT !.heads[fd] = @ \cup {w},
                   !.reify[fd] = @ \cup {"reify"}
                                   \cup (IF w \in l.fresh THEN {"fdset"} ELSE {}),
                   !.fresh = @ \ {w}]

\* What is still pending for connection c will be about a socket that is closed.
Forgotten(l, c) ==
    [l EXCEPT !.pendings = {[p EXCEPT !.gone = @ \/ p.w.conn = c] : p \in @}]

\* Stop or start the two watchers of connection c: pkm_update_io's outcome.
Watching(l, c, fd, es) ==
    LET Apply(k, e) == IF e \in es THEN IoStart(k, Watcher(c, e), fd)
                                   ELSE IoStop(k, Watcher(c, e), fd)
    IN  Apply(Apply(l, "r"), "w")

\* ev_io_init of both watchers, then ev_io_start of those in es.
Introduced(l, c, fd, es) ==
    Watching([l EXCEPT !.fresh = @ \cup Watchers(c)], c, fd, es)

-----------------------------------------------------------------------------
(* The back ends.  Modify is backend_modify: the kernel's mask of fd after   *)
(* it, oev and nev being the masks before and now.                           *)

\* EPOLL_CTL_ADD of a descriptor the kernel knows already fails with EEXIST, and
\* is taken for done when the mask is the one last sent; every other failure is
\* put right with the other operation.  Nothing is ever deleted here.
EpollModify(mask, oldmask, nev) ==
    IF nev = {} \/ (mask # {} /\ oldmask = nev) THEN mask ELSE nev

\* Seeded bug: nothing is sent to the kernel when the mask is the one last sent.
ModifyLazy(fd, mask, oldmask, oev, nev) ==
    IF nev = {} \/ oldmask = nev THEN mask ELSE nev

Modify(fd, mask, oldmask, oev, nev) ==
    IF backend = "epoll"
    THEN EpollModify(mask, oldmask, nev)
    ELSE IF oev = nev THEN mask ELSE nev

\* What the kernel may report of fd: a part of its mask or, except from select,
\* an error or hang-up, which counts as both.
Reports(fd) ==
    IF owner[fd] = Nobody \/ interest[fd] = {} THEN {{}}
    ELSE SUBSET interest[fd] \cup (IF backend = "select" THEN {} ELSE {RW})

\* epoll_poll tells the kernel again when it reports what nobody wants any more.
Unwanted(fd, got) == backend = "epoll" /\ ~(got \subseteq ev.events[fd])

\* fd_event: the watchers that asked for what their descriptor has got.
Fed(got) ==
    {Pending(w) : w \in UNION {{w \in ev.heads[f] : w.events \in got[f]} : f \in Fds}}

-----------------------------------------------------------------------------
WatchInit ==
    /\ backend \in BackEnds
    /\ owner = [f \in Fds |-> Nobody]
    /\ interest = [f \in Fds |-> {}]
    /\ sockfd = [c \in Conns |-> NoFd]
    /\ status = [c \in Conns |-> "free"]
    /\ ev = LoopInit
    /\ loop_done = FALSE
    /\ stage = "reify"
    /\ closing \in Tunnels

Goto(from, to) == stage = from /\ stage' = to

Wanted(fd) == {w.events : w \in ev.heads[fd]}

\* The kernel is told of a changed descriptor if its mask changed or a watcher
\* was set to it anew.
Tells(fd) ==
    /\ ev.reify[fd] # {}
    /\ ev.events[fd] # Wanted(fd) \/ "fdset" \in ev.reify[fd]

FdReify ==
    /\ Goto("reify", "poll")
    /\ interest' = [f \in Fds |->
          IF Tells(f) THEN Modify(f, interest[f], ev.emask[f], ev.events[f], Wanted(f))
                      ELSE interest[f]]
    /\ ev' = [ev EXCEPT
          !.emask = [f \in Fds |-> IF backend = "epoll" /\ Tells(f) /\ Wanted(f) # {}
                                   THEN Wanted(f) ELSE @[f]],
          !.events = [f \in Fds |-> IF ev.reify[f] # {} THEN Wanted(f) ELSE @[f]],
          !.reify = [f \in Fds |-> {}]]
    /\ UNCHANGED <<backend, owner, conns, loop_done, closing>>

\* backend_poll queues what the kernel reports and, if the pipe was written too,
\* pipecb the async watchers that were sent.
Poll ==
    /\ Goto("poll", "invoke")
    /\ \E got \in [Fds -> SUBSET RW], asyncs \in SUBSET {Async("quit"), Async("interrupt")} :
          /\ \A f \in Fds : got[f] \in Reports(f)
          /\ ev' = [ev EXCEPT
               !.pendings = Fed(got) \cup {Pending(a) : a \in asyncs},
               !.emask = [f \in Fds |-> IF Unwanted(f, got[f]) THEN ev.events[f] ELSE @[f]]]
          /\ interest' = [f \in Fds |-> IF Unwanted(f, got[f]) THEN ev.events[f]
                                                               ELSE interest[f]]
    /\ UNCHANGED <<backend, owner, conns, loop_done, closing>>

\* ev_invoke_pending.  What pipecb queued comes first of all: last in, first
\* out.  pkm_quit_cb is the one callback that leaves every connection alone.
Invoke ==
    \E p \in ev.pendings :
        /\ p.w.conn \in Conns => \A q \in ev.pendings : q.w.conn \in Conns
        /\ Goto("invoke", IF p.w = Async("quit") THEN "invoke" ELSE "callback")
        /\ loop_done' = (loop_done \/ p.w = Async("quit"))
        /\ ev' = [ev EXCEPT !.pendings = @ \ {p}]
        /\ UNCHANGED <<backend, kernel, conns, closing>>

EndIteration ==
    /\ ev.pendings = {}
    /\ Goto("invoke", IF loop_done THEN "ended" ELSE "reify")
    /\ UNCHANGED <<backend, kernel, conns, ev, loop_done, closing>>

-----------------------------------------------------------------------------
(* Descriptors.                                                              *)

\* close(); epoll forgets a closed descriptor by itself.
Closed(fds) == [f \in Fds |-> IF f \in fds THEN Nobody ELSE owner[f]]
Unwatched(fds) ==
    IF backend # "epoll" THEN interest
    ELSE [f \in Fds |-> IF f \in fds THEN {} ELSE interest[f]]
Closes(fds) == owner' = Closed(fds) /\ interest' = Unwatched(fds)

\* pkc_reset_conn closes whatever descriptor the structure still holds, then
\* socket() hands out the lowest free number.
Opens(c, f) ==
    LET left == Closed({sockfd[c]}) IN
    /\ left[f] = Nobody /\ \A g \in Fds : left[g] = Nobody => f <= g
    /\ owner' = [left EXCEPT ![f] = c]
    /\ interest' = Unwatched({sockfd[c]})
    /\ sockfd' = [sockfd EXCEPT ![c] = f]

\* pk_connect_ai opens a socket on a blocker thread, whatever the loop is doing.
Connect(t) ==
    /\ status[t] = "free"
    /\ status' = [status EXCEPT ![t] = "connecting"]
    /\ stage \notin {"ended", "stopped"}
    /\ stage = "close_again" => Racing
    /\ \E f \in Fds : Opens(t, f)
    /\ UNCHANGED <<backend, ev, loop_done, stage, closing>>

\* The attempt fails and pkc_reset_conn closes its socket.
DialFails(t) ==
    /\ status[t] = "connecting"
    /\ status' = [status EXCEPT ![t] = "free"]
    /\ Closes({sockfd[t]})
    /\ sockfd' = [sockfd EXCEPT ![t] = NoFd]
    /\ UNCHANGED <<backend, ev, loop_done, stage, closing>>

\* Connected, under pkm_block: the tunnel's watchers are set up and the reading
\* one is started.
Connected(t) ==
    /\ stage = "callback" /\ status[t] = "connecting"
    /\ status' = [status EXCEPT ![t] = "up"]
    /\ ev' = Introduced(ev, t, sockfd[t], {"r"})
    /\ UNCHANGED <<backend, kernel, sockfd, loop_done, stage, closing>>

\* pkm_connect_be, from a chunk that starts a new stream.
ConnectBe(c) ==
    /\ stage = "callback" /\ status[c] = "free"
    /\ status' = [status EXCEPT ![c] = "up"]
    /\ \E f \in Fds :
          /\ Opens(c, f)
          /\ ev' = Introduced(ev, c, f, RW)
    /\ UNCHANGED <<backend, loop_done, stage, closing>>

\* pkm_update_io of a connection that stays open.
UpdateIo(c) ==
    /\ stage = "callback" /\ status[c] = "up"
    /\ \E es \in SUBSET RW : ev' = Watching(ev, c, sockfd[c], es)
    /\ UNCHANGED <<backend, kernel, conns, loop_done, stage, closing>>

\* Seeded bug: the descriptor is closed but not forgotten, as in CloseTunnel.
DisconnectKeeping(t) ==
    /\ stage = "callback" /\ status[t] = "up"
    /\ status' = [status EXCEPT ![t] = "free"]
    /\ ev' = Forgotten(Watching(ev, t, sockfd[t], {}), t)
    /\ Closes({sockfd[t]})
    /\ UNCHANGED <<backend, sockfd, loop_done, stage, closing>>

\* pkm_disconnect_unused and pkm_reconnect_all, under pkm_block: the watchers are
\* stopped, the descriptor closed and forgotten.
Disconnect(t) ==
    /\ stage = "callback" /\ status[t] = "up"
    /\ status' = [status EXCEPT ![t] = "free"]
    /\ ev' = Forgotten(Watching(ev, t, sockfd[t], {}), t)
    /\ Closes({sockfd[t]})
    /\ sockfd' = [sockfd EXCEPT ![t] = NoFd]
    /\ UNCHANGED <<backend, loop_done, stage, closing>>

\* pkm_update_io of a stream with nothing left to read or write.
CloseStream(c) ==
    /\ stage = "callback" /\ status[c] = "up"
    /\ status' = [status EXCEPT ![c] = "free"]
    /\ ev' = Forgotten(Watching(ev, c, sockfd[c], {}), c)
    /\ Closes({sockfd[c]})
    /\ sockfd' = [sockfd EXCEPT ![c] = NoFd]
    /\ UNCHANGED <<backend, loop_done, stage, closing>>

\* The same of a tunnel: its descriptor is closed here ...
CloseTunnel(t) ==
    /\ Goto("callback", "close_again")
    /\ status[t] = "up"
    /\ ev' = Forgotten(Watching(ev, t, sockfd[t], {}), t)
    /\ Closes({sockfd[t]})
    /\ closing' = t
    /\ UNCHANGED <<backend, conns, loop_done>>

\* ... and, not yet forgotten, once more by pkc_reset_conn.
CloseAgain ==
    /\ Goto("close_again", "callback")
    /\ Closes({sockfd[closing]})
    /\ sockfd' = [sockfd EXCEPT ![closing] = NoFd]
    /\ status' = [status EXCEPT ![closing] = "free"]
    /\ UNCHANGED <<backend, ev, loop_done, closing>>

CallbackReturns ==
    /\ Goto("callback", "invoke")
    /\ UNCHANGED <<backend, kernel, conns, ev, loop_done, closing>>

\* The blockers are joined, then pkm_reset_manager closes what is left.
ResetManager ==
    /\ Goto("ended", "stopped")
    /\ \A t \in Tunnels : status[t] # "connecting"
    /\ ev' = LoopInit
    /\ Closes({sockfd[c] : c \in Conns})
    /\ sockfd' = [c \in Conns |-> NoFd]
    /\ status' = [c \in Conns |-> "free"]
    /\ UNCHANGED <<backend, loop_done, closing>>

WatchNext ==
    \/ FdReify \/ Poll \/ Invoke \/ EndIteration \/ CallbackReturns \/ CloseAgain \/ ResetManager
    \/ \E t \in Tunnels : \/ Connect(t) \/ DialFails(t) \/ Connected(t)
                          \/ Disconnect(t) \/ CloseTunnel(t)
    \/ \E c \in Streams : ConnectBe(c) \/ CloseStream(c)
    \/ \E c \in Conns : UpdateIo(c)

WatchSpec == WatchInit /\ [][WatchNext]_watchVars

-----------------------------------------------------------------------------
\* A connection's descriptor still stands for the socket it opened: the numbers
\* are shared by every thread of the process, and pkm_update_io, pkc_reset_conn
\* and pk_connect_ai close them without a common lock (pkmanager.c 552 and 562).
HandlesAreOwn ==
    \A c \in Conns :
        status[c] # "free" /\ ~(stage = "close_again" /\ c = closing)
            => sockfd[c] # NoFd /\ owner[sockfd[c]] = c

\* Whenever the loop polls, the kernel watches every descriptor for what its
\* watchers want, however it was closed, handed out again, stopped and started
\* since the kernel was last told: otherwise a stream would hang although its
\* data is there.
KernelKnows ==
    stage = "poll" =>
        \A f \in Fds : \A w \in ev.heads[f] : w.events \in interest[f]

\* An event about to be handed to a connection is for a watcher that is started
\* and about the socket the connection has now, even if callbacks of the same
\* batch closed and reopened descriptors.
EventsAreFresh ==
    \A p \in ev.pendings :
        p.w.conn \in Conns => Active(ev, p.w) /\ ~p.gone

=============================================================================
