------------------------------- MODULE PkParser --------------------------------
(***************************************************************************)
(* The frame parser of a tunnel (pkproto.c 57-380) and its caller, the     *)
(* tunnel's read callback (pkmanager.c 667-703).                           *)
(*                                                                         *)
(* The relay sends frames: a length and CRLF, chunk headers, a blank line, *)
(* data.  TCP and TLS cut them anywhere.  The parser keeps one frame in a  *)
(* buffer of fixed size, and hands a frame that does not fit to its        *)
(* callback in fragments.                                                  *)
(*                                                                         *)
(* A byte is a cell: the frame it came from and what the parser tells      *)
(* apart (a number, CR, LF, header text, data, a zeroed CR or LF).         *)
(* Header lines have one cell of text, frames one header line.             *)
(***************************************************************************)
EXTENDS Integers, SequencesExt

CONSTANTS
    Cap,        \* bytes of the buffer behind the parser's own fields
    Shapes,     \* the frames the relay may send
    MaxFrames,  \* bound on the frames of one connection
    MaxRead,    \* bound on the bytes of one read
    MaxConns,   \* bound on the connections of the tunnel
    Yielding    \* the tunnel may be connected anew while a callback has
                \* yielded the loop (pkm_connect_be)

\* The headers of a well-formed frame fit the buffer with room for data: a few bytes
\* against the 1 KB of PARSER_BYTES_MIN (pkcommon.h:182).
ASSUME HeadersFit == Cap > 8

ASSUME ParserBounds ==
    /\ Cap \in Nat
    /\ MaxFrames \in Nat /\ MaxRead \in Nat /\ MaxConns \in Nat
    /\ Shapes \subseteq
         [ok : {"yes", "bad_frame", "bad_chunk", "no_line"},
          data : Nat, eof : BOOLEAN]
    /\ Yielding \in BOOLEAN

VARIABLES
    conn,      \* which connection of the tunnel this is
    sent,      \* the frames of this connection
    fed,       \* bytes of them that were read
    pc,        \* where the read callback is: idle, in the loop of
               \* pk_parser_parse, in pk_parser_parse_new_data, in the chunk's
               \* callback
    given,     \* what pk_parser_parse has not copied yet
    new,       \* pk_parser_parse_new_data's length
    nested,    \* it was called for leftovers
    raw,       \* frame.raw_frame, raw_length cells of it
    left,      \* buffer_bytes_left
    frame,     \* frame.length and hdr_length, -1 when not known
    chunk,     \* chunk.data (its offset in raw, 0 is NULL), offset, total
    call,      \* the locals fragmenting, wanted_length and the saved length
    got,       \* the last thing the callback was given
    broken     \* CONN_STATUS_BROKEN

parser == <<raw, left, frame, chunk>>
vars == <<conn, sent, fed, pc, given, new, nested, parser, call, got, broken>>

-----------------------------------------------------------------------------
(* Frames as they are sent.                                                  *)

Rep(k, n) == [p \in 1..n |-> k]

HeaderOf(f) ==
    CASE f.ok = "bad_frame" -> <<"text", "cr", "lf">>
      [] f.ok = "no_line" -> Rep("text", Cap)
      [] OTHER -> <<"num", "cr", "lf">>

ChunkOf(f) ==
    (IF f.ok = "bad_chunk" THEN <<"text", "cr", "lf">>
                           ELSE <<"text", "cr", "lf", "cr", "lf">>)
    \o Rep("data", f.data)

Cells(c, i, f) ==
    LET kinds == HeaderOf(f) \o ChunkOf(f)
    IN  [p \in 1..Len(kinds) |->
           [conn |-> c, frame |-> i, of |-> f, kind |-> kinds[p],
            at |-> p - (Len(kinds) - f.data)]]

Wire(c, s) == FlattenSeq([i \in 1..Len(s) |-> Cells(c, i, s[i])])

\* The number of bytes of the first i frames.
Upto(s, i) == Len(Wire(1, SubSeq(s, 1, i)))

\* Frames before the first malformed one.
Good(s) == {i \in 1..Len(s) : \A j \in 1..i : s[j].ok = "yes"}

-----------------------------------------------------------------------------
(* Finding lines.                                                            *)

IsCrlf(s, p) == p > 0 /\ p < Len(s) /\ s[p].kind = "cr" /\ s[p + 1].kind = "lf"

Crlfs(s) == {p \in 1..Len(s) : IsCrlf(s, p)}

ZeroedAt(s, ps) ==
    [p \in 1..Len(s) |->
       IF p \in ps \/ p - 1 \in ps THEN [s[p] EXCEPT !.kind = "nul"] ELSE s[p]]

First(ps) == CHOOSE p \in ps : \A q \in ps : p <= q

\* zero_first_crlf: 0, or how far the first line goes.
LineEnd(s) == IF Crlfs(s) = {} THEN 0 ELSE First(Crlfs(s)) + 1

\* parse_chunk_header's loop ends at the first line that is empty, or where
\* there is no further line: 0.
Blank(s) == {p \in Crlfs(s) : p = 1 \/ p - 2 \in Crlfs(s)}
HeadersEnd(s) == IF Blank(s) = {} THEN 0 ELSE First(Blank(s)) + 1

HeaderLines(s) ==
    IF Blank(s) = {} THEN Crlfs(s) ELSE {p \in Crlfs(s) : p <= First(Blank(s))}

-----------------------------------------------------------------------------
NoFrame == [len |-> -1, hdr |-> -1]
NoChunk == [data |-> 0, offset |-> 0, total |-> -1]
NoCall == [frag |-> FALSE, wanted |-> 0, len |-> 0]
Nothing == [conn |-> 0, frame |-> 0, from |-> 0, upto |-> 0, eof |-> FALSE]

Sendings == UNION {[1..n -> Shapes] : n \in 1..MaxFrames}

Init ==
    /\ conn = 1
    /\ sent \in Sendings
    /\ fed = 0
    /\ pc = "idle"
    /\ given = <<>>
    /\ new = 0
    /\ nested = FALSE
    /\ raw = <<>>
    /\ left = Cap
    /\ frame = NoFrame
    /\ chunk = NoChunk
    /\ call = NoCall
    /\ got = Nothing
    /\ broken = FALSE

\* pkm_tunnel_readable_cb: n bytes were read.
Readable(n) ==
    /\ pc = "idle" /\ ~broken
    /\ n > 0 /\ fed + n <= Len(Wire(conn, sent))
    /\ given' = SubSeq(Wire(conn, sent), fed + 1, fed + n)
    /\ fed' = fed + n
    /\ pc' = "copy"
    /\ UNCHANGED <<conn, sent, new, nested, parser, call, got, broken>>

\* pk_parser_parse with a full buffer: "This is bad!"
NoMemory ==
    /\ pc = "copy" /\ left <= 0
    /\ pc' = "idle"
    /\ given' = <<>>
    /\ broken' = TRUE
    /\ UNCHANGED <<conn, sent, fed, new, nested, parser, call, got>>

\* pk_parser_parse, up to the call of pk_parser_parse_new_data.
Copy ==
    /\ pc = "copy" /\ left > 0
    /\ LET n == IF Len(given) > left THEN left ELSE Len(given)
       IN  /\ raw' = raw \o SubSeq(given, 1, n)
           /\ left' = left - n
           /\ new' = n
           /\ given' = SubSeq(given, n + 1, Len(given))
    /\ nested' = FALSE
    /\ pc' = "parse"
    /\ UNCHANGED <<conn, sent, fed, frame, chunk, call, got, broken>>

Return == pc' = IF given = <<>> THEN "idle" ELSE "copy"

\* Seeded bug: the bytes that were moved are not taken off what is left.
ResetUncounted(n) ==
    /\ left' = Cap
    /\ raw' = SubSeq(raw, Len(raw) - n + 1, Len(raw))
    /\ frame' = NoFrame
    /\ chunk' = NoChunk

\* pk_parser_reset; then the n last bytes are moved to the front.
Reset(n) ==
    /\ left' = left + Len(raw) - n
    /\ raw' = SubSeq(raw, Len(raw) - n + 1, Len(raw))
    /\ frame' = NoFrame
    /\ chunk' = NoChunk

\* An error in what was copied resets the parser and breaks the tunnel; one in
\* leftovers is dropped, with f and r what the parser has become.
Fail(f, r) ==
    IF nested
    THEN /\ Return
         /\ frame' = f /\ raw' = r
         /\ UNCHANGED <<left, chunk, given, broken>>
    ELSE /\ pc' = "idle"
         /\ Reset(0)
         /\ given' = <<>>
         /\ broken' = TRUE

\* No whole frame yet.
Wait(f, r) ==
    /\ Return
    /\ frame' = f /\ raw' = r
    /\ UNCHANGED <<left, chunk, given, broken, call, got>>

\* Seeded bug: the end of the frame is not looked for.
NextPieceUnbounded == new

\* The length of a piece after the first: what is new, but not of the next
\* frame.
NextPiece ==
    IF chunk.offset + new > chunk.total THEN chunk.total - chunk.offset ELSE new

\* The chunk's callback is called with len bytes of data, the first of them at
\* ck.data in r.
Give(f, ck, r, len, frag) ==
    /\ pc' = "callback"
    /\ frame' = f
    /\ raw' = r
    /\ chunk' = [ck EXCEPT !.offset = @ + len]
    /\ call' = [frag |-> frag, wanted |-> f.len + f.hdr, len |-> len]
    /\ got' = [conn |-> r[ck.data].conn, frame |-> r[ck.data].frame,
               from |-> IF len = 0 THEN ck.offset ELSE r[ck.data + 1].at - 1,
               upto |-> IF len = 0 THEN ck.offset ELSE r[ck.data + len].at,
               eof |-> r[ck.data].of.eof /\ ~frag]
    /\ UNCHANGED <<left, given, broken>>

\* A frame whose header is known; r has that header zeroed.
Fragmenting(f) == left < 1 /\ f.len + f.hdr > Len(raw)

ParseChunk(f, r) ==
    LET frag == Fragmenting(f)
        len  == IF frag THEN Len(r) - f.hdr ELSE f.len
        body == SubSeq(r, f.hdr + 1, f.hdr + len)
        pos  == HeadersEnd(body)
        z    == SubSeq(r, 1, f.hdr)
                \o ZeroedAt(body, HeaderLines(body))
                \o SubSeq(r, f.hdr + len + 1, Len(r))
    IN  CASE ~frag /\ chunk.data = 0 /\ Len(r) < f.len + f.hdr -> Wait(f, r)
          [] chunk.data # 0 -> Give(f, chunk, r, NextPiece, frag)
          [] OTHER ->
               IF pos = 0
               THEN Fail(f, z) /\ UNCHANGED <<call, got>>
               ELSE Give(f, [data |-> f.hdr + pos, offset |-> 0,
                             total |-> f.len - pos], z, len - pos, frag)

\* pk_parser_parse_new_data, up to the callback.
ParseNewData ==
    /\ pc = "parse"
    /\ LET end == LineEnd(raw)
           z   == ZeroedAt(raw, {end - 1})
       IN  CASE Len(raw) < 3 -> Wait(frame, raw)
             [] Len(raw) >= 3 /\ frame.len < 0 /\ end = 0 -> Wait(frame, raw)
             [] Len(raw) >= 3 /\ frame.len < 0 /\ end > 0 ->
                  IF raw[1].kind = "num"
                  THEN ParseChunk([len |-> Len(ChunkOf(raw[1].of)),
                                   hdr |-> end], z)
                  ELSE Fail([len |-> -1, hdr |-> end], z)
                       /\ UNCHANGED <<call, got>>
             [] OTHER -> ParseChunk(frame, raw)
    /\ UNCHANGED <<conn, sent, fed, new, nested>>

\* The callback has returned.  A piece makes room for the next, the last piece
\* resets the parser; bytes of the next frame are moved to the front and parsed.
PieceLength == call.len

\* Seeded bug: what follows the frame in the buffer is forgotten.
LeftoversForgotten == 0

Leftovers == Len(raw) - call.wanted

AfterCallback ==
    /\ pc = "callback"
    /\ IF call.frag \/ chunk.offset < chunk.total
       THEN /\ frame' = [frame EXCEPT !.len = @ - PieceLength]
            /\ raw' = SubSeq(raw, 1, Len(raw) - PieceLength)
            /\ left' = left + PieceLength
            /\ Return
            /\ UNCHANGED <<chunk, new, nested>>
       ELSE IF Leftovers > 0
            THEN /\ Reset(Leftovers)
                 /\ new' = Leftovers
                 /\ nested' = TRUE
                 /\ pc' = "parse"
            ELSE /\ Reset(0)
                 /\ Return
                 /\ UNCHANGED <<new, nested>>
    /\ call' = NoCall
    /\ UNCHANGED <<conn, sent, fed, given, got, broken>>

\* pkm_reconnect_all connects the tunnel and resets its parser.  The callback
\* that has yielded the loop goes on with what it had.
Reconnect ==
    /\ conn < MaxConns
    /\ pc = "idle" \/ (Yielding /\ pc = "callback")
    /\ conn' = conn + 1
    /\ sent' \in Sendings
    /\ fed' = 0
    /\ Reset(0)
    /\ broken' = FALSE
    /\ got' = [Nothing EXCEPT !.conn = conn + 1]
    /\ UNCHANGED <<pc, given, new, nested, call>>

Next ==
    \/ \E n \in 1..MaxRead : Readable(n)
    \/ NoMemory
    \/ Copy
    \/ ParseNewData
    \/ AfterCallback
    \/ Reconnect

Spec == Init /\ [][Next]_vars

-----------------------------------------------------------------------------
TypeOK ==
    /\ conn \in Nat
    /\ sent \in Seq(Shapes)
    /\ fed \in Nat
    /\ pc \in {"idle", "copy", "parse", "callback"}
    /\ new \in Nat
    /\ nested \in BOOLEAN
    /\ left \in Int
    /\ frame \in [len : Int, hdr : Int]
    /\ chunk \in [data : Nat, offset : Int, total : Int]
    /\ call \in [frag : BOOLEAN, wanted : Int, len : Int]
    /\ broken \in BOOLEAN

\* The bytes in the buffer and the bytes left of it make up the buffer, however
\* frames were cut, given on in pieces, moved and dropped (pkproto.c:318-337): the
\* next bytes are copied to where there is room for them.
BufferAccounted == left >= 0 /\ left + Len(raw) = Cap

\* Whatever the cuts, the callback gets the data of the frames that were sent,
\* in their order, each byte once and each frame to its end before the next; and
\* nothing that follows a malformed frame.
SameFrames ==
    [][got' # got /\ got'.frame # 0 =>
         /\ got'.conn = conn /\ got'.frame \in Good(sent)
         /\ \/ /\ got'.frame = got.frame /\ got'.conn = got.conn
               /\ got'.from = got.upto
            \/ /\ got'.frame = got.frame + 1
               /\ got'.from = 0
               /\ got.frame # 0 => got.upto = sent[got.frame].data]_vars

\* When a read has been dealt with, no frame that has arrived whole waits in the
\* buffer for bytes that may never come.  The parser makes room for what was read
\* (pkproto.c:354), and the tunnel is only broken, when a frame is malformed.
NothingHeldBack ==
    /\ pc = "idle" /\ ~broken =>
         \A i \in Good(sent) :
            Upto(sent, i) <= fed =>
               got.frame > i \/ (got.frame = i /\ got.upto = sent[i].data)
    /\ pc = "copy" /\ left = 0 => raw[1].of.ok # "yes"
    /\ broken => \E i \in 1..Len(sent) :
                   sent[i].ok # "yes" /\ Upto(sent, i - 1) < fed

=============================================================================
