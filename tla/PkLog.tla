-------------------------------- MODULE PkLog --------------------------------
(***************************************************************************)
(* The log libpagekite keeps in memory: pks_logcopy, pks_copylog and       *)
(* pks_printlog of pkstate.c, and pk_log of pklogging.c, which feeds them. *)
(*                                                                         *)
(* The log is one array of Max + 1 bytes used as a ring.  The reader does  *)
(* not know the positions of lines: it copies the C string that begins at  *)
(* the ring's start and, when the ring wraps, the one that begins at the   *)
(* array's start.  Both ends of that bargain, the newlines and the NULs,   *)
(* are kept up by the writer's arithmetic alone.                           *)
(*                                                                         *)
(* A byte is NUL, NL or the number of the message it belongs to.  Writers  *)
(* and readers hold pk_state.lock throughout: each is one step.            *)
(***************************************************************************)
EXTENDS Integers, SequencesExt

CONSTANTS
  LogMax,     \* PKS_LOG_DATA_MAX
  LineMax,    \* the size of pk_log's buffer: what fits of one message
  LineSizes,  \* the lengths of the messages that are logged
  LogCount    \* how many messages are logged: bounds the runs only

\* The ring is much longer than a message: 64 KB against 4000.  Three messages
\* fit at least: with less, making room for one can give up all the others,
\* and the copy then runs off the end of the array instead of wrapping.
ASSUME LogSizes == /\ LogMax \in Nat \ {0} /\ LineMax \in Nat \ {0, 1}
                   /\ LineSizes \subseteq Nat \ {0}
                   /\ LogCount \in Nat
                   /\ 3 * LineMax < LogMax

VARIABLES
  ring,     \* pk_state.log_ring_buffer
  start,    \* pk_state.log_ring_start
  end,      \* pk_state.log_ring_end
  logged,   \* history: everything logged, with the newlines that end messages
  count     \* history: the number of messages logged

logVars == <<ring, start, end, logged, count>>

NUL == 0
NL  == -1

\* pks_global_init
LogInit ==
  /\ ring = [p \in 0..LogMax |-> NUL]
  /\ start = 0 /\ end = 0
  /\ logged = <<>> /\ count = 0

\* WRAP(p): a pointer that has run off the ring goes back to its beginning.
Wrap(p) == IF p >= LogMax THEN p - LogMax ELSE p

\* The first of these positions, from p on and round the ring.
From(p, stops) ==
  LET on(k) == (p + k) % LogMax
  IN  on(CHOOSE k \in 0..LogMax : on(k) \in stops /\ \A j \in 0..(k - 1) : on(j) \notin stops)

\* A message of the given size, whose text may itself end in a newline, and
\* what pk_log has of it: the length vsnprintf reports is that of the whole
\* message, also when its end did not fit.  The bytes behind the end of the
\* line are the terminating NUL and whatever the stack holds.
Text(k, n, broken) == [i \in 1..n |-> IF broken /\ i = n THEN NL ELSE k]
Fitted(text) == [i \in 1..Len(text) |-> IF i < LineMax THEN text[i] ELSE NUL]

\* Whether a message of this length (with its newline) overwrites the oldest.
Full(len) ==
  \/ end < start /\ end + len >= start
  \/ end > start /\ end + len >= start + LogMax

\* Seeded bug: the start is left in the middle of the line it cuts.
MakeRoomMidLine(len) == Wrap(start + len)

\* The start after the oldest messages have been given up: past the bytes the
\* new message needs, then past the rest of the line that is cut.
MakeRoom(len) ==
  LET newlines == {p \in 0..LogMax : ring[p] = NL}
      rest     == From(Wrap(start + len), newlines \cup {end})
  IN  From(rest, (0..LogMax) \ newlines)

\* The start a message of this length (with its newline) leaves.
Start(len) == IF Full(len) THEN MakeRoom(len) ELSE start

\* The ring with the bytes of src from position p on; round the end only if the
\* copy is known to wrap.
Copied(p, src, wraps) ==
  [q \in 0..LogMax |->
    LET i == (IF wraps /\ q < p THEN q + LogMax ELSE q) - p + 1
    IN  IF i \in 1..Len(src) /\ (wraps => q < LogMax) THEN src[i] ELSE ring[q]]

\* pks_logcopy: make room, copy, and end the line and the string.
LogCopy(src) ==
  IF Len(src) + 1 >= LogMax THEN UNCHANGED <<ring, start, end>>
  ELSE LET first == Start(Len(src) + 1)
           wraps == end > first /\ end + Len(src) >= LogMax
           last  == Wrap(end + Len(src))
           next  == Wrap(last + 1)
       IN  /\ ring' = [Copied(end, src, wraps) EXCEPT ![last] = NL, ![next] = NUL]
           /\ start' = first
           /\ end' = next

\* pk_log, for a message the log mask lets through.
Log ==
  \E n \in LineSizes, broken \in BOOLEAN :
    /\ count < LogCount
    /\ broken => n > 1
    /\ count' = count + 1
    /\ LET text == Text(count + 1, n, broken)
       IN  /\ LogCopy(Fitted(text))
           /\ logged' = logged \o text \o <<NL>>

LogNext == Log

LogSpec == LogInit /\ [][LogNext]_logVars
-----------------------------------------------------------------------------
\* The C string at p.
String(p) == LET z == CHOOSE z \in p..LogMax :
                        ring[z] = NUL /\ \A y \in p..(z - 1) : ring[y] # NUL
             IN  [i \in 1..(z - p) |-> ring[p + i - 1]]

\* pks_copylog and pks_printlog: what pagekite_get_log returns.
CopyLog == String(start) \o (IF end < start THEN String(0) ELSE <<>>)

(***************************************************************************)
(* What a reader of the log sees, as the ring fills, wraps and overwrites  *)
(* its oldest lines: the end of what was logged, beginning with a whole    *)
(* line and ending with the last message.                                  *)
(***************************************************************************)
LogIsTail ==
  LET before == Len(logged) - Len(CopyLog)
  IN  /\ IsSuffix(CopyLog, logged)
      /\ count > 0 => CopyLog # <<>> /\ (before = 0 \/ logged[before] = NL)
=============================================================================
