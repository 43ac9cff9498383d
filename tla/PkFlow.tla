--------------------------------- MODULE PkFlow ---------------------------------
(***************************************************************************)
(* Flow control of one stream (pkmanager.c 245-277, 445-451, 579-652) and  *)
(* the writes that it counts (pkconn.c 356-554).                           *)
(*                                                                         *)
(* One end reads a backend and sends what it has read as chunks.  The      *)
(* other end writes the chunks to its own backend, and reports from time   *)
(* to time how much that has taken.  The first stops reading when it is a  *)
(* window ahead of the reports.  Both ends are this code; either may be    *)
(* the sender of a stream.                                                 *)
(*                                                                         *)
(* The unit is a kilobyte.  Kilobytes are numbered as they are read.       *)
(***************************************************************************)
EXTENDS Integers, SequencesExt

CONSTANTS
    Initial, Minimum, Maximum,  \* CONN_WINDOW_SIZE_KB_*
    Increment,                  \* CONN_REPORT_INCREMENT
    Buffer,                     \* CONN_IO_BUFFER_SIZE
    Backlog,                    \* what the kernel holds for the backend
    Reads,                      \* sizes of a read
    Throttles,                  \* the far end asks to be throttled (SPD)
    Timeouts,                   \* a blocking write may time out
    MaxData                     \* bound on the kilobytes of the stream

ASSUME FlowBounds ==
    /\ Minimum \in Nat \ {0} /\ Initial \in Nat /\ Maximum \in Nat
    /\ Minimum <= Initial /\ Initial <= Maximum
    /\ Increment \in Nat \ {0}
    /\ Buffer \in Nat \ {0} /\ Backlog \in Nat \ {0}
    /\ Reads \subseteq 1..Buffer
    /\ Throttles \in BOOLEAN /\ Timeouts \in BOOLEAN
    /\ MaxData \in Nat

VARIABLES
    \* The sending end.
    read,      \* read_kb
    acked,     \* sent_kb, what the far end has reported
    window,    \* send_window_kb
    dst, tnl,  \* CONN_STATUS_DST_BLOCKED, CONN_STATUS_TNL_BLOCKED
    \* The tunnel: chunks one way, reports (SKB) the other.
    chunks,
    reports,
    \* The receiving end.
    out,       \* out_buffer
    todo,      \* what a blocking pkc_flush has yet to write after that
    busy,      \* a blocking pkc_flush is going on, and the loop with it
    wrote,     \* wrote_bytes
    reported,  \* reported_kb
    sock,      \* what the kernel holds
    newest,    \* the last kilobyte the backend has taken
    \* History.
    lost       \* what a blocking pkc_flush gave up

sender == <<read, acked, window, dst, tnl>>
receiver == <<out, todo, busy, wrote, reported, sock, lost>>
flowVars == <<sender, chunks, reports, receiver, newest>>

FlowTypeOK ==
    /\ read \in 0..MaxData /\ acked \in 0..MaxData
    /\ window \in Minimum..Maximum
    /\ dst \in BOOLEAN /\ tnl \in BOOLEAN
    /\ chunks \in Seq(Seq(1..MaxData))
    /\ reports \in Seq(0..MaxData)
    /\ out \in Seq(1..MaxData) /\ Len(out) <= Buffer
    /\ todo \in Seq(1..MaxData)
    /\ busy \in BOOLEAN
    /\ wrote \in 0..MaxData /\ reported \in 0..MaxData
    /\ sock \in Seq(1..MaxData) /\ Len(sock) <= Backlog
    /\ newest \in 0..MaxData
    /\ lost \subseteq 1..MaxData

FlowInit ==
    /\ read = 0 /\ acked = 0 /\ window = Initial
    /\ dst = FALSE /\ tnl = FALSE
    /\ chunks = <<>> /\ reports = <<>>
    /\ out = <<>> /\ todo = <<>> /\ busy = FALSE
    /\ wrote = 0 /\ reported = 0
    /\ sock = <<>> /\ newest = 0
    /\ lost = {}

-----------------------------------------------------------------------------
(* The sending end.                                                          *)

\* Seeded bug: the destination stays blocked.
AheadForGood(r, s, w) == dst \/ r > s + w

\* pkm_update_io's look at the window: what is read, reported and allowed.
Ahead(r, s, w) == r > s + w

Clamped(w) ==
    IF w > Maximum THEN Maximum ELSE IF w < Minimum THEN Minimum ELSE w

\* pkm_be_conn_readable_cb: n are read and sent as a chunk.
Read(n) ==
    /\ ~dst /\ ~tnl
    /\ read + n <= MaxData
    /\ read' = read + n
    /\ chunks' = Append(chunks, [i \in 1..n |-> read + i])
    /\ dst' = Ahead(read', acked, window)
    /\ UNCHANGED <<acked, window, tnl, reports, receiver, newest>>

\* pkm_flow_control_tunnel, CONN_TUNNEL_BLOCKED: "writing too fast!"
TunnelBlocks ==
    /\ ~tnl
    /\ tnl' = TRUE
    /\ window' = LET w == window - (1 + window \div 3)
                 IN  IF w < Minimum THEN Minimum ELSE w
    /\ dst' = Ahead(read, acked, window')
    /\ UNCHANGED <<read, acked, chunks, reports, receiver, newest>>

TunnelUnblocks ==
    /\ tnl
    /\ tnl' = FALSE
    /\ dst' = Ahead(read, acked, window)
    /\ UNCHANGED <<read, acked, window, chunks, reports, receiver, newest>>

\* pkm_chunk_cb with remote_sent_kb: the first report sets the window to what is
\* under way and an eighth; so does one that finds it at its first size again.
Grown(s) ==
    IF window = Initial THEN (read - s) + (read - s) \div 8 ELSE window + 1

ReportArrives ==
    /\ reports # <<>>
    /\ reports' = Tail(reports)
    /\ acked' = Head(reports)
    /\ window' = Clamped(Grown(acked'))
    /\ dst' = Ahead(read, acked', window')
    /\ UNCHANGED <<read, tnl, chunks, receiver, newest>>

\* pkm_chunk_cb with throttle_spd: "reduce by about 20%".
Throttled ==
    /\ Throttles
    /\ window' = Clamped(window - (1 + window \div 5))
    /\ dst' = Ahead(read, acked, window')
    /\ UNCHANGED <<read, acked, tnl, chunks, reports, receiver, newest>>

-----------------------------------------------------------------------------
(* The receiving end.                                                        *)

\* What a write of s to the backend takes.
Taken(s) ==
    LET n == Backlog - Len(sock) IN SubSeq(s, 1, IF Len(s) < n THEN Len(s) ELSE n)
Untaken(s) == SubSeq(s, Len(Taken(s)) + 1, Len(s))

\* Seeded bug: what has been reported is counted again.
ReportAgain(w) ==
    IF w >= Increment
    THEN /\ wrote' = w
         /\ reported' = reported + w
         /\ reports' = Append(reports, reported')
    ELSE wrote' = w /\ UNCHANGED <<reported, reports>>

\* pkc_report_progress, with w written.
Report(w) ==
    IF w >= Increment
    THEN /\ wrote' = 0
         /\ reported' = reported + w
         /\ reports' = Append(reports, reported')
    ELSE wrote' = w /\ UNCHANGED <<reported, reports>>

\* s is written and pkm_update_io looks at the result.
Written(s) ==
    /\ sock' = sock \o Taken(s)
    /\ Report(wrote + Len(Taken(s)))

\* Seeded bug: new data overtakes what is buffered.
NewFirst(c) == c \o out

InTurn(c) == out \o c

\* pkm_chunk_cb with data: pkc_write flushes the buffer, then writes new data,
\* then buffers the rest.
ChunkArrives ==
    /\ chunks # <<>> /\ ~busy
    /\ chunks' = Tail(chunks)
    /\ LET c    == Head(chunks)
           rest == Untaken(InTurn(c))
           old  == IF Len(rest) > Len(c) THEN Len(rest) - Len(c) ELSE 0
       IN  IF Len(rest) <= Buffer
           THEN /\ Written(InTurn(c))
                /\ out' = rest
                /\ UNCHANGED <<todo, busy>>
           ELSE \* It does not fit: a blocking write of all of it.
                /\ sock' = sock \o Taken(InTurn(c))
                /\ wrote' = wrote + Len(Taken(InTurn(c)))
                /\ out' = SubSeq(rest, 1, old)
                /\ todo' = SubSeq(rest, old + 1, Len(rest))
                /\ busy' = TRUE
                /\ UNCHANGED <<reported, reports>>
    /\ UNCHANGED <<sender, lost, newest>>

\* pkc_flush, blocking: the buffer, then the new data.
Flush ==
    /\ busy /\ Taken(out \o todo) # <<>>
    /\ LET rest == Untaken(out \o todo)
           old  == IF Len(rest) > Len(todo) THEN Len(rest) - Len(todo) ELSE 0
       IN  /\ out' = SubSeq(rest, 1, old)
           /\ todo' = SubSeq(rest, old + 1, Len(rest))
           /\ busy' = (rest # <<>>)
           /\ IF rest = <<>>
              THEN Written(out \o todo)
              ELSE /\ sock' = sock \o Taken(out \o todo)
                   /\ wrote' = wrote + Len(Taken(out \o todo))
                   /\ UNCHANGED <<reported, reports>>
    /\ UNCHANGED <<sender, chunks, lost, newest>>

\* "Give up and return an error": which pkm_chunk_cb does not look at.
GiveUp ==
    /\ Timeouts /\ busy /\ Taken(out \o todo) = <<>>
    /\ todo' = <<>>
    /\ lost' = lost \cup ToSet(todo)
    /\ busy' = FALSE
    /\ Report(wrote)
    /\ UNCHANGED <<sender, chunks, out, sock, newest>>

\* pkm_be_conn_writable_cb.
Writable ==
    /\ ~busy /\ Taken(out) # <<>>
    /\ Written(out)
    /\ out' = Untaken(out)
    /\ UNCHANGED <<sender, chunks, todo, busy, lost, newest>>

BackendTakes ==
    /\ sock # <<>>
    /\ newest' = Head(sock)
    /\ sock' = Tail(sock)
    /\ UNCHANGED <<sender, chunks, reports, out, todo, busy, wrote, reported,
                   lost>>

FlowNext ==
    \/ \E n \in Reads : Read(n)
    \/ TunnelBlocks
    \/ TunnelUnblocks
    \/ ReportArrives
    \/ Throttled
    \/ ChunkArrives
    \/ Flush
    \/ GiveUp
    \/ Writable
    \/ BackendTakes

\* The loops of both ends go round, tunnels deliver and unblock, the backends
\* give and take.
FlowFairness ==
    /\ SF_flowVars(\E n \in Reads : Read(n))
    /\ WF_flowVars(TunnelUnblocks)
    /\ WF_flowVars(ReportArrives)
    /\ WF_flowVars(ChunkArrives \/ Flush)
    /\ WF_flowVars(Writable)
    /\ WF_flowVars(BackendTakes)

FlowSpec == FlowInit /\ [][FlowNext]_flowVars /\ FlowFairness

-----------------------------------------------------------------------------
\* The backend gets what the other backend has sent, nothing doubled or out of
\* turn, and nothing is missing but what a blocking write has given up
\* (pkconn.c:547).
InOrder == [][newest' # newest => newest' > newest /\ (newest + 1)..(newest' - 1) \subseteq lost]_flowVars

\* What is reported has been written; and so the sender's read_kb - sent_kb, an
\* int made of two size_t (pkmanager.c:258), is never below zero.
ReportsAreHonest ==
    /\ reported + wrote <= newest + Len(sock)
    /\ acked <= reported /\ reported <= read
    /\ \A i \in DOMAIN reports : acked <= reports[i] /\ reports[i] <= reported

\* When all that was sent has been written, and all that was reported has
\* arrived, the sender is not held back by the window (pkmanager.c:447), for
\* nobody would ever tell it more; unless the window has shrunk to less than what
\* the far end keeps to itself before it reports (pkconn.c 402-416).
Quiet == chunks = <<>> /\ reports = <<>> /\ out = <<>> /\ ~busy
NoStall == Quiet /\ lost = {} /\ window >= Increment - 1 => ~dst

\* However often the window shrinks, all data arrives in the end, unless it stays
\* smaller than that.
Delivered ==
    []<>(window >= Increment - 1) => <>(newest = MaxData \/ lost # {})

\* With the code's CONN_WINDOW_SIZE_KB_MINIMUM of 4 and CONN_REPORT_INCREMENT of
\* 16 it may: then the stream stalls.
DeliveredAnyway == <>(newest = MaxData \/ lost # {})

=============================================================================
