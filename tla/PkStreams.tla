------------------------------ MODULE PkStreams -------------------------------
(***************************************************************************)
(* The streams of one tunnel, as the event loop sees them (pkmanager.c     *)
(* 166-784, 1460-1551; pkconn.c 353-554): frames from the relay, backend   *)
(* sockets, half-closes, back-pressure, eviction and the tunnel's death.   *)
(*                                                                         *)
(* A callback is one step, but for the two places where it yields the loop *)
(* lock for long: between two frames of one read, and while it connects to *)
(* a backend.  There the housekeeping may disconnect or reconnect the      *)
(* tunnel.                                                                 *)
(*                                                                         *)
(* Data is a buffer that holds something or not.  A relay gives a stream   *)
(* id to one stream only.                                                  *)
(***************************************************************************)
EXTENDS Naturals, FiniteSets

CONSTANTS
    Slots,      \* pkm->be_conns
    MaxSids,    \* bound on the streams the relay opens
    MaxAhead,   \* bound on the blocks read and not acknowledged
    Window      \* send_window_kb, in the same blocks

ASSUME StreamBounds ==
    /\ IsFiniteSet(Slots) /\ "idle" \notin Slots /\ "tunnel" \notin Slots
    /\ MaxSids \in Nat
    /\ MaxAhead \in Nat
    /\ Window \in Nat

\* Stream ids, in the order in which the relay uses them; 0 is none.
Sids == 1..MaxSids

\* PK_EOF_READ, PK_EOF_WRITE.
Dirs == {"R", "W"}

VARIABLES
    streams,   \* the slots
    live,      \* pk_state.live_streams
    tun,       \* the tunnel: up, broken (CLS_WRITE set, not looked at yet),
               \* mute (CLS_WRITE and END_WRITE), down
    tout,      \* its out_buffer holds something
    tww,       \* its write watcher is active
    loop,      \* the loop thread: idle, in the tunnel's read callback, or
               \* there connecting a stream
    opened,    \* the last id the relay has used
    shut,      \* what the relay knows of each: "R", no more data from here;
               \* "W", no more data taken here
    torn       \* a write to this tunnel gave up halfway

tunnel == <<tun, tout, tww, torn>>
relay == <<opened, shut>>
vars == <<streams, live, tunnel, loop, relay>>

\* pkm_free_be_conn.  A stream is "here" while the connection it was opened on
\* is still the tunnel's.
Gone ==
    [alloc |-> FALSE, open |-> FALSE, sid |-> 0, endR |-> FALSE,
     endW |-> FALSE, clsR |-> FALSE, clsW |-> FALSE, tnlB |-> FALSE,
     here |-> FALSE, out |-> FALSE, wr |-> FALSE, ww |-> FALSE, ahead |-> 0]

TypeOK ==
    /\ streams \in [Slots ->
         [alloc : BOOLEAN, open : BOOLEAN, sid : Sids \cup {0},
          endR : BOOLEAN, endW : BOOLEAN, clsR : BOOLEAN, clsW : BOOLEAN,
          tnlB : BOOLEAN, here : BOOLEAN, out : BOOLEAN, wr : BOOLEAN, ww : BOOLEAN,
          ahead : 0..MaxAhead]]
    /\ \A i \in Slots : ~streams[i].alloc => streams[i] = Gone
    /\ live \in 0..Cardinality(Slots)
    /\ tun \in {"up", "broken", "mute", "down"}
    /\ tout \in BOOLEAN
    /\ tww \in BOOLEAN
    /\ tun = "down" => ~tout /\ ~tww
    /\ loop \in {"idle", "tunnel"} \cup Slots
    /\ opened \in Sids \cup {0}
    /\ shut \in [Sids -> SUBSET Dirs]
    /\ torn \in BOOLEAN

Init ==
    /\ streams = [i \in Slots |-> Gone]
    /\ live = 0
    /\ tun = "up"
    /\ tout = FALSE
    /\ tww = FALSE
    /\ loop = "idle"
    /\ opened = 0
    /\ shut = [s \in Sids |-> {}]
    /\ torn = FALSE

-----------------------------------------------------------------------------
(* Writing to the tunnel.                                                    *)

\* pkc_write: all of it is out, or the rest is buffered; when it does not fit,
\* a blocking flush may fail for good (CLS_WRITE) or time out, and the message
\* is torn.  A tunnel that cannot be written swallows it.
TunnelWrites ==
    IF tun = "up"
    THEN {[tun |-> "up", tout |-> FALSE, torn |-> torn],
          [tun |-> "up", tout |-> TRUE, torn |-> torn],
          [tun |-> "up", tout |-> TRUE, torn |-> TRUE],
          [tun |-> "broken", tout |-> TRUE, torn |-> torn]}
    ELSE {[tun |-> tun, tout |-> tun # "down", torn |-> torn]}

NoWrite == [tun |-> tun, tout |-> tout, torn |-> torn]

SetTunnel(t) == tun' = t.tun /\ tout' = t.tout /\ torn' = t.torn

-----------------------------------------------------------------------------
(* pkm_update_io for a stream.                                               *)

Blocked(s) == s.tnlB \/ s.ahead > Window

ReadOver(s) == s.clsR \/ s.endR
WriteOver(s) == s.clsW \/ (s.endW /\ ~s.out)

\* The directions the other end must be told are over.
EofOf(s) ==
    (IF s.clsR /\ ~s.endR THEN {"R"} ELSE {})
    \cup (IF s.clsW /\ ~s.endW THEN {"W"} ELSE {})

\* Seeded bug: the write watcher is not started.
UpdatedForgetsOutput(s) ==
    IF ~s.open THEN s
    ELSE IF ReadOver(s) /\ WriteOver(s) THEN Gone
    ELSE [s EXCEPT
            !.endR = ReadOver(s),
            !.clsR = ReadOver(s),
            !.endW = s.endW \/ s.clsW,
            !.clsW = WriteOver(s),
            !.out = s.out /\ ~s.clsW,
            !.wr = ~ReadOver(s) /\ ~Blocked(s),
            !.ww = FALSE]

\* Seeded bug: a direction the relay has closed is not counted.
UpdatedLeavesHalf(s) ==
    IF ~s.open THEN s
    ELSE IF (s.clsR /\ s.endR) /\ WriteOver(s) THEN Gone
    ELSE [s EXCEPT
            !.endR = ReadOver(s),
            !.clsR = ReadOver(s),
            !.endW = s.endW \/ s.clsW,
            !.clsW = WriteOver(s),
            !.out = s.out /\ ~s.clsW,
            !.wr = ~ReadOver(s) /\ ~Blocked(s),
            !.ww = s.out /\ ~s.clsW]

\* What becomes of it: watchers follow the buffers and the flow control, and
\* a stream with both directions over is closed and its slot freed.
Updated(s) ==
    IF ~s.open THEN s
    ELSE IF ReadOver(s) /\ WriteOver(s) THEN Gone
    ELSE [s EXCEPT
            !.endR = ReadOver(s),
            !.clsR = ReadOver(s),
            !.endW = s.endW \/ s.clsW,
            !.clsW = WriteOver(s),
            !.out = s.out /\ ~s.clsW,
            !.wr = ~ReadOver(s) /\ ~Blocked(s),
            !.ww = s.out /\ ~s.clsW]

\* Stream i has become s and is updated.
UpdateStream(i, s) ==
    /\ streams' = [streams EXCEPT ![i] = Updated(s)]
    /\ live' = IF s.open /\ ~Updated(s).open THEN live - 1 ELSE live

\* Its EOF is sent, if one is due; else a report of progress may be.
TellRelay(s) ==
    \/ /\ s.open
       /\ EofOf(s) # {}
       /\ \E t \in TunnelWrites : SetTunnel(t)
       /\ shut' = [shut EXCEPT ![s.sid] = @ \cup EofOf(s)]
    \/ /\ EofOf(s) = {} \/ ~s.open
       /\ \E t \in TunnelWrites \cup {NoWrite} : SetTunnel(t)
       /\ UNCHANGED shut

-----------------------------------------------------------------------------
(* Backend sockets.                                                          *)

\* pkm_be_conn_readable_cb, with data: it goes to the tunnel in a chunk.
BackendData(i) ==
    /\ loop = "idle"
    /\ streams[i].wr
    /\ ~streams[i].tnlB
    /\ streams[i].ahead < MaxAhead
    /\ \E t \in TunnelWrites : SetTunnel(t)
    /\ UpdateStream(i, [streams[i] EXCEPT !.ahead = @ + 1])
    /\ UNCHANGED <<tww, loop, relay>>

\* With an EOF (CLS_READ) or an error (BROKEN).
BackendEof(i) ==
    /\ loop = "idle"
    /\ streams[i].wr
    /\ ~streams[i].tnlB
    /\ \E s \in {[streams[i] EXCEPT !.clsR = TRUE],
                 [streams[i] EXCEPT !.clsR = TRUE, !.clsW = TRUE]} :
       TellRelay(s) /\ UpdateStream(i, s)
    /\ UNCHANGED <<tww, loop, opened>>

\* pkm_be_conn_writable_cb: the buffer is drained,
BackendDrains(i) ==
    LET s == [streams[i] EXCEPT !.out = FALSE]
    IN  /\ loop = "idle"
        /\ streams[i].ww
        /\ TellRelay(s)
        /\ UpdateStream(i, s)
        /\ UNCHANGED <<tww, loop, opened>>

\* or the backend is gone (CLS_WRITE).
BackendWriteFails(i) ==
    LET s == [streams[i] EXCEPT !.clsW = TRUE]
    IN  /\ loop = "idle"
        /\ streams[i].ww
        /\ TellRelay(s)
        /\ UpdateStream(i, s)
        /\ UNCHANGED <<tww, loop, opened>>

-----------------------------------------------------------------------------
(* Frames.                                                                   *)

\* pkm_tunnel_readable_cb has read something.
TunnelReadable ==
    /\ loop = "idle"
    /\ tun # "down"
    /\ loop' = "tunnel"
    /\ UNCHANGED <<streams, live, tunnel, relay>>

\* pkm_find_be_conn.
Holds(i, sid) == streams[i].alloc /\ streams[i].sid = sid

\* A chunk of data, maybe sent before the relay saw our EOF: drained, buffered
\* (also what a failed write leaves) or CLS_WRITE.
FrameData(i, sid) ==
    /\ loop = "tunnel"
    /\ sid <= opened
    /\ Holds(i, sid)
    /\ \E s \in {[streams[i] EXCEPT !.out = FALSE],
                 [streams[i] EXCEPT !.out = TRUE],
                 [streams[i] EXCEPT !.clsW = TRUE]} :
       TellRelay(s) /\ UpdateStream(i, s)
    /\ UNCHANGED <<tww, loop, opened>>

\* pkm_parse_eof: of R, W or both ("legacy").  It ends the other direction here.
FrameEof(i, sid) ==
    /\ loop = "tunnel"
    /\ sid <= opened
    /\ Holds(i, sid)
    /\ \E dirs \in {{"R"}, {"W"}, Dirs} :
       LET s == [streams[i] EXCEPT
                   !.endW = @ \/ "R" \in dirs,
                   !.endR = @ \/ "W" \in dirs]
       IN  /\ UpdateStream(i, s)
           /\ \E t \in TunnelWrites \cup {NoWrite} : SetTunnel(t)
           /\ shut' = [shut EXCEPT ![sid] =
                @ \cup {d \in Dirs : \E e \in dirs : e # d}]
    /\ UNCHANGED <<tww, loop, opened>>

\* An SKB acknowledges some of what was read.
FrameAck(i, sid) ==
    /\ loop = "tunnel"
    /\ sid <= opened
    /\ Holds(i, sid)
    /\ streams[i].ahead > 0
    /\ \E a \in 0..(streams[i].ahead - 1) :
       UpdateStream(i, [streams[i] EXCEPT !.ahead = a])
    /\ \E t \in TunnelWrites \cup {NoWrite} : SetTunnel(t)
    /\ UNCHANGED <<tww, loop, relay>>

\* A PING is answered.
FramePing ==
    /\ loop = "tunnel"
    /\ \E t \in TunnelWrites : SetTunnel(t)
    /\ UNCHANGED <<streams, live, tww, loop, relay>>

\* The rejection of a stream: a reply and an EOF of both directions.
Reject(sid) ==
    /\ \E t \in TunnelWrites : SetTunnel(t)
    /\ opened' = IF sid > opened THEN sid ELSE opened
    /\ shut' = [shut EXCEPT ![sid] = Dirs]

\* No kite matches, no slot is free and none may be evicted, or the stream is
\* over already and the chunk names no kite.
FrameRejected(sid) ==
    /\ loop = "tunnel"
    /\ sid <= opened + 1
    /\ \A i \in Slots : ~Holds(i, sid)
    /\ Reject(sid)
    /\ UNCHANGED <<streams, live, tww, loop>>

\* Seeded bug: the evicted stream's slot is simply taken.
AllocBeConnSilently(i) ==
    /\ ~streams[i].alloc \/ \A k \in Slots : streams[k].alloc
    /\ UNCHANGED <<live, tunnel, shut>>

\* pkm_alloc_be_conn: the slot of a new stream is a free one or, with every slot
\* taken, that of an idle stream, which is closed to make room.
AllocBeConn(i) ==
    \/ ~streams[i].alloc /\ UNCHANGED <<live, tunnel, shut>>
    \/ /\ \A k \in Slots : streams[k].alloc
       /\ TellRelay([streams[i] EXCEPT !.clsR = TRUE, !.clsW = TRUE])
       /\ live' = live - 1
       /\ UNCHANGED tww

\* A frame of an unknown stream; the thread is in pkm_connect_be now, without
\* the lock.
ConnectStart(i, sid) ==
    /\ loop = "tunnel"
    /\ sid = opened + 1
    /\ AllocBeConn(i)
    /\ streams' = [streams EXCEPT ![i] =
          [Gone EXCEPT !.alloc = TRUE, !.sid = sid, !.here = tun # "down"]]
    /\ opened' = sid
    /\ loop' = i

\* Connected: the chunk's data is written to the backend.
ConnectDone(i) ==
    LET c == [streams[i] EXCEPT !.open = TRUE]
    IN  /\ loop = i
        /\ \E s \in {c, [c EXCEPT !.out = TRUE]} :
           streams' = [streams EXCEPT ![i] = Updated(s)]
        /\ live' = live + 1
        /\ loop' = "tunnel"
        /\ \E t \in TunnelWrites \cup {NoWrite} : SetTunnel(t)
        /\ UNCHANGED <<tww, relay>>

ConnectFails(i) ==
    /\ loop = i
    /\ streams' = [streams EXCEPT ![i] = Gone]
    /\ Reject(streams[i].sid)
    /\ loop' = "tunnel"
    /\ UNCHANGED <<live, tww>>

-----------------------------------------------------------------------------
(* pkm_update_io for the tunnel.                                             *)

\* Every stream has become what new says and is updated.
UpdateAll(new) ==
    /\ streams' = [i \in Slots |-> Updated(new[i])]
    /\ live' = live - Cardinality({i \in Slots :
                        streams[i].open /\ ~Updated(new[i]).open})

\* The tunnel cannot be used: its streams end, once their output is written.
EndStream(s) == IF s.alloc THEN [s EXCEPT !.endR = TRUE, !.endW = TRUE] ELSE s
Ended == [i \in Slots |-> EndStream(streams[i])]
Lost == [i \in Slots |-> [EndStream(streams[i]) EXCEPT !.here = FALSE]]

\* TNL_BLOCKED, on the streams that have a socket.
SetBlocked(b) ==
    [i \in Slots |->
        IF streams[i].open THEN [streams[i] EXCEPT !.tnlB = b] ELSE streams[i]]

\* Seeded bug: a drained tunnel unblocks nobody.
UpdateTunnelStaysBlocked(o) ==
    \/ /\ tun = "up"
       /\ tout' = o
       /\ tww' = o
       /\ IF o THEN UpdateAll(SetBlocked(TRUE)) ELSE UNCHANGED <<streams, live>>
       /\ UNCHANGED tun
    \/ /\ tun = "broken"
       /\ tun' = "mute"
       /\ tout' = FALSE
       /\ tww' = FALSE
       /\ UpdateAll(Ended)
    \/ /\ tun \in {"mute", "down"}
       /\ tout' = FALSE
       /\ tww' = FALSE
       /\ UNCHANGED <<tun, streams, live>>

\* After its callbacks, with o telling if output is left: the streams follow
\* it, blocked while its output is.  One that cannot be written ends them all
\* but stays open for reading.
UpdateTunnel(o) ==
    \/ /\ tun = "up"
       /\ tout' = o
       /\ tww' = o
       /\ UpdateAll(SetBlocked(o))
       /\ UNCHANGED tun
    \/ /\ tun = "broken"
       /\ tun' = "mute"
       /\ tout' = FALSE
       /\ tww' = FALSE
       /\ UpdateAll(Ended)
    \/ /\ tun \in {"mute", "down"}
       /\ tout' = FALSE
       /\ tww' = FALSE
       /\ UNCHANGED <<tun, streams, live>>

\* The end of the read callback.
TunnelRead ==
    /\ loop = "tunnel"
    /\ loop' = "idle"
    /\ UpdateTunnel(tout)
    /\ UNCHANGED <<relay, torn>>

\* pkm_tunnel_writable_cb: drained; partly; or CLS_WRITE.
TunnelDrains ==
    /\ loop = "idle"
    /\ tww
    /\ UpdateTunnel(FALSE)
    /\ UNCHANGED <<loop, relay, torn>>

TunnelDrainsPart ==
    /\ loop = "idle"
    /\ tww
    /\ UpdateTunnel(TRUE)
    /\ UNCHANGED <<loop, relay, torn>>

TunnelWriteFails ==
    /\ loop = "idle"
    /\ tww
    /\ tun = "up"
    /\ tun' = "mute"
    /\ tout' = FALSE
    /\ tww' = FALSE
    /\ UpdateAll(Ended)
    /\ UNCHANGED <<loop, relay, torn>>

\* The relay has closed the tunnel, a frame does not parse, or pkm_tick_cb
\* finds it idle for too long: BROKEN.  It is closed; its streams end.
TunnelDies ==
    /\ loop \in {"idle", "tunnel"}
    /\ tun # "down"
    /\ loop' = "idle"
    /\ tun' = "down"
    /\ tout' = FALSE
    /\ tww' = FALSE
    /\ UpdateAll(Lost)
    /\ UNCHANGED <<relay, torn>>

-----------------------------------------------------------------------------
(* The housekeeping thread, when the loop is idle or has yielded.            *)

\* pkm_disconnect_unused: the tunnel is not wanted and no stream of it has a
\* socket.
DisconnectUnused ==
    /\ tun # "down"
    /\ \A i \in Slots : ~streams[i].open
    /\ tun' = "down"
    /\ tout' = FALSE
    /\ tww' = FALSE
    /\ streams' = [i \in Slots |-> [streams[i] EXCEPT !.here = FALSE]]
    /\ UNCHANGED <<live, loop, relay, torn>>

\* pkm_reconnect_all: a new connection, of which no byte has been written.  The
\* relay knows nothing of the streams of the old one.
Reconnect ==
    /\ tun = "down"
    /\ tun' = "up"
    /\ torn' = FALSE
    /\ shut' = [s \in Sids |-> IF s <= opened THEN Dirs ELSE {}]
    /\ UNCHANGED <<streams, live, tout, tww, loop, opened>>

-----------------------------------------------------------------------------
Backend(i) ==
    \/ BackendData(i) \/ BackendEof(i) \/ BackendDrains(i) \/ BackendWriteFails(i)

Frame(i, sid) ==
    \/ FrameData(i, sid) \/ FrameEof(i, sid) \/ FrameAck(i, sid)
    \/ ConnectStart(i, sid)

Next ==
    \/ \E i \in Slots : Backend(i) \/ ConnectDone(i) \/ ConnectFails(i)
    \/ \E i \in Slots, sid \in Sids : Frame(i, sid)
    \/ \E sid \in Sids : FrameRejected(sid)
    \/ TunnelReadable \/ FramePing \/ TunnelRead
    \/ TunnelDrains \/ TunnelDrainsPart \/ TunnelWriteFails \/ TunnelDies
    \/ DisconnectUnused \/ Reconnect

Spec == Init /\ [][Next]_vars

\* libev serves every ready descriptor in turn, callbacks end, and what is
\* written is read in the end by the backends and by the relay.
Fairness ==
    /\ WF_vars(TunnelRead)
    /\ SF_vars(TunnelDrains)
    /\ \A i \in Slots :
        /\ WF_vars(ConnectDone(i) \/ ConnectFails(i))
        /\ SF_vars(BackendDrains(i) \/ BackendWriteFails(i))

FairSpec == Spec /\ Fairness

-----------------------------------------------------------------------------
\* pk_state.live_streams counts the open streams: connects that fail, evicted
\* streams and the many ways a stream ends are each counted once.
LiveCount == live = Cardinality({i \in Slots : streams[i].open})

\* The relay and this end agree which half of a stream is over, whoever ended
\* it and however it ended: no stream is closed behind the relay's back, and
\* none stays that the relay has been told is gone.
HalfClosesAgree ==
    tun = "up" /\ ~torn =>
        \A sid \in 1..opened :
            \/ shut[sid] = Dirs /\ \A i \in Slots : ~Holds(i, sid)
            \/ \E i \in Slots :
               /\ Holds(i, sid)
               /\ streams[i].here =>
                    /\ "R" \in shut[sid] <=> streams[i].endR
                    /\ "W" \in shut[sid] <=> streams[i].endW

\* Flow control: a backend is never read further ahead of what the relay has
\* acknowledged than the window and the block that overruns it, whatever comes
\* between two reads (acknowledgements, blocking tunnels, half-closes).
AheadIsBounded == \A i \in Slots : streams[i].ahead <= Window + 1

\* No stream is forgotten by the event loop: one that may be read is watched
\* unless flow control blocks it, output waits for the write watcher, and a
\* stream blocked by the tunnel has a tunnel whose own watcher will free it.
NoStreamStalls ==
    \A i \in Slots :
        LET s == streams[i]
        IN  s.open =>
            /\ ~s.endR => s.wr \/ Blocked(s)
            /\ s.out => s.ww
            /\ s.tnlB /\ s.here /\ tun = "up" => tww

\* A stream that is over in both directions is closed and leaves its slot as
\* soon as the backend has taken the rest of its data.
OverIsClosed ==
    \A i \in Slots :
        streams[i].endR /\ streams[i].endW ~> ~(streams[i].endR /\ streams[i].endW)

\* Back-pressure ends: a stream blocked by the tunnel is let go again.
BlockedIsLetGo ==
    \A i \in Slots :
        streams[i].tnlB /\ streams[i].here ~>
            ~streams[i].tnlB \/ ~streams[i].here \/ tun # "up"

\* "Blocked: activate write listener" (pkmanager.c:504): output left in the
\* tunnel's buffer has the write watcher active.
OutputWatched == tun = "up" /\ loop = "idle" /\ tout => tww
=============================================================================
