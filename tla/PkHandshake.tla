------------------------------- MODULE PkHandshake ------------------------------
(***************************************************************************)
(* How a tunnel is connected (pk_connect_ai, pkproto.c 880-1038, called by *)
(* pkm_reconnect_all, pkmanager.c 856-943), with the connection under it   *)
(* (pkconn.c 38-327) and the kites it asks for (pkmanager.c 1231-1279).    *)
(*                                                                         *)
(* A blocker connects to the relay, over TLS or not, and sends a request   *)
(* with a line for each kite.  The relay answers in lines, a blank one at  *)
(* the end, and may ask for kites to be signed with a salt of its own:     *)
(* then all is done once more.  The loop runs meanwhile, but leaves a      *)
(* connection alone that is CHANGING.                                      *)
(***************************************************************************)
EXTENDS Integers, SequencesExt, FiniteSets

CONSTANTS
    Kites,         \* kites the application adds
    Strangers,     \* kites the relay may name and the program does not have
    KiteMax,       \* kite_max
    Salts,         \* salts, the program's and the relay's
    Tls,           \* there is an ssl_ctx
    Hasty,         \* the relay may close early, or be silent
    MaxResponses,  \* pk_parse_pagekite_response takes fewer lines than this
    MaxLines       \* bound on the lines of an answer

NoSalt == 0

ASSUME HandshakeBounds ==
    /\ IsFiniteSet(Kites) /\ Kites \cap Strangers = {}
    /\ KiteMax \in Nat
    /\ NoSalt \notin Salts
    /\ Tls \in BOOLEAN /\ Hasty \in BOOLEAN
    /\ MaxResponses \in Nat /\ MaxLines \in Nat

VARIABLES
    kites,     \* pkm->kites: the kites of its slots
    pc,        \* where the tunnel is: down, connecting, tls, writing,
               \* reading, parsing, failed (to be cleaned up), up
    again,     \* reconnecting
    err,       \* pk_error when pc is failed
    sock,      \* conn.sockfd >= 0
    open,      \* sockets that are open
    state,     \* conn.state: clear, handshake, data
    closed,    \* CONN_STATUS_CLS_READ, CONN_STATUS_BROKEN
    salts,     \* bsalt and fsalt of the requests
    buf,       \* the lines that were read
    \* The relay.
    wire,      \* what it has sent and was not read
    ended,     \* it has closed
    \* History.
    first,     \* the request of the first of two connections
    request,   \* the request the relay has last got
    asked      \* the salts it last asked for

conn == <<sock, open, state, closed>>
relay == <<wire, ended>>
history == <<first, request, asked>>
vars == <<kites, pc, again, err, conn, salts, buf, relay, history>>

Line(kind, k, s) == [kind |-> kind, kite |-> k, salt |-> s]
NoKite == "no kite"
End == Line("end", NoKite, NoSalt)
Named == Kites \cup Strangers
Lines ==
    {Line(kind, k, NoSalt) : kind \in {"ok", "duplicate", "invalid"}, k \in Named}
    \cup {Line("sign", k, s) : k \in Named, s \in Salts}
    \cup {Line("other", NoKite, NoSalt)}

\* An answer, the whole of it or a part.
Answers == UNION {[1..n -> Lines] : n \in 0..MaxLines}

Unsalted == [k \in Kites |-> [b |-> NoSalt, f |-> NoSalt]]
Unasked == [k \in Kites |-> NoSalt]

TypeOK ==
    /\ kites \subseteq Kites
    /\ pc \in {"down", "connecting", "tls", "writing", "reading", "parsing",
               "failed", "up"}
    /\ again \in BOOLEAN
    /\ err \in {"none", "error", "rejected", "duplicate"}
    /\ sock \in BOOLEAN /\ open \in Nat
    /\ state \in {"clear", "handshake", "data"}
    /\ closed \in BOOLEAN
    /\ {salts, first, request} \subseteq
         [Kites -> [b : Salts \cup {NoSalt}, f : Salts \cup {NoSalt}]]
    /\ asked \in [Kites -> Salts \cup {NoSalt}]
    /\ buf \in Seq(Lines \cup {End}) /\ wire \in Seq(Lines \cup {End})
    /\ ended \in BOOLEAN

Init ==
    /\ kites = {}
    /\ pc = "down" /\ again = FALSE /\ err = "none"
    /\ sock = FALSE /\ open = 0 /\ state = "clear" /\ closed = FALSE
    /\ salts = Unsalted
    /\ buf = <<>>
    /\ wire = <<>> /\ ended = FALSE
    /\ first = Unsalted /\ request = Unsalted /\ asked = Unasked

-----------------------------------------------------------------------------
\* pkm_add_kite, before the program is started: the last slot is never used.
AddKite(k) ==
    /\ pc = "down" /\ open = 0 /\ request = Unsalted
    /\ k \notin kites /\ Cardinality(kites) + 1 < KiteMax
    /\ kites' = kites \cup {k}
    /\ UNCHANGED <<pc, again, err, conn, salts, buf, relay, history>>

\* Seeded bug: the socket is forgotten and not closed.
ResetLeaking ==
    /\ open' = open
    /\ sock' = FALSE /\ state' = "clear" /\ closed' = FALSE

\* pkc_reset_conn.
Reset ==
    /\ open' = IF sock THEN open - 1 ELSE open
    /\ sock' = FALSE /\ state' = "clear" /\ closed' = FALSE

\* pkm_reconnect_all resets the connection and the requests.
Begin ==
    /\ pc = "down"
    /\ pc' = "connecting" /\ again' = FALSE
    /\ salts' = Unsalted
    /\ Reset
    /\ buf' = <<>>
    /\ first' = Unsalted /\ asked' = Unasked
    /\ UNCHANGED <<kites, err, relay, request>>

\* Where an error leaves the connection for pkm_reconnect_all to clean up.
FailAs(e) == pc' = "failed" /\ err' = e

\* pkc_connect, whose failure closes the new socket.
Connect ==
    /\ pc = "connecting"
    /\ pc' = IF Tls THEN "tls" ELSE "writing"
    /\ sock' = TRUE /\ open' = open + 1
    /\ wire' = <<>> /\ ended' = FALSE
    /\ UNCHANGED <<kites, again, err, state, closed, salts, buf, history>>
ConnectFails ==
    /\ pc = "connecting"
    /\ FailAs("error")
    /\ UNCHANGED <<kites, again, conn, salts, buf, relay, history>>

\* pkc_start_ssl and pkc_do_handshake: done, timed out before it was, or failed.
StartTls(outcome) ==
    /\ pc = "tls"
    /\ CASE outcome = "done" -> state' = "data" /\ pc' = "writing" /\ UNCHANGED <<err, closed>>
         [] outcome = "wants" -> state' = "handshake" /\ pc' = "writing" /\ UNCHANGED <<err, closed>>
         [] outcome = "fails" -> state' = "handshake" /\ closed' = TRUE /\ FailAs("error")
    /\ UNCHANGED <<kites, again, sock, open, salts, buf, relay, history>>

\* pk_sign_kite_request: a kite's own salt is made once.
Made(s, b) == IF s.b = NoSalt THEN [s EXCEPT !.b = b] ELSE s

Sign ==
    \E b \in [kites -> Salts] :
        salts' = [k \in Kites |-> IF k \in kites THEN Made(salts[k], b[k]) ELSE salts[k]]

\* The request is written and flushed; or it is buffered, while pkc_raw_write goes
\* on with a TLS handshake that is not done.
Write ==
    /\ pc = "writing"
    /\ Sign
    /\ pc' = "reading"
    /\ \/ /\ state' = IF Tls THEN "data" ELSE "clear"
          /\ request' = salts'
          /\ UNCHANGED closed
       \/ /\ state = "handshake"
          /\ closed' \in BOOLEAN
          /\ UNCHANGED <<state, request>>
    /\ UNCHANGED <<kites, again, err, sock, open, buf, relay, first, asked>>
WriteFails ==
    /\ pc = "writing"
    /\ Sign
    /\ Reset
    /\ FailAs("error")
    /\ UNCHANGED <<kites, again, buf, relay, history>>

\* The loop's condition.
Reading == state # "handshake" /\ ~closed

\* Seeded bug: a line is taken for the last one.
EndsAtLine(b) == b # <<>>

\* pkc_wait and pkc_read: some of what is there.  The loop ends when the buffer
\* ends in a blank line.
EndsBlank(b) == b # <<>> /\ Last(b) = End

Read(n) ==
    /\ pc = "reading" /\ Reading
    /\ n \in 1..Len(wire)
    /\ buf' = buf \o SubSeq(wire, 1, n)
    /\ wire' = SubSeq(wire, n + 1, Len(wire))
    /\ pc' = IF EndsBlank(buf') THEN "parsing" ELSE pc
    /\ UNCHANGED <<kites, again, err, conn, salts, ended, history>>

ReadEof ==
    /\ pc = "reading" /\ Reading
    /\ wire = <<>> /\ ended
    /\ closed' = TRUE
    /\ UNCHANGED <<kites, pc, again, err, sock, open, state, salts, buf, relay, history>>

ReadBreaks ==
    /\ pc = "reading" /\ Reading
    /\ closed' = TRUE
    /\ UNCHANGED <<kites, pc, again, err, sock, open, state, salts, buf, relay, history>>

\* Seeded bug: the wait has no limit.
WaitsForEver == FALSE

\* Two seconds without a word.
TimesOut ==
    /\ pc = "reading" /\ Reading
    /\ FailAs("error")
    /\ UNCHANGED <<kites, again, conn, salts, buf, relay, history>>

StopReading ==
    /\ pc = "reading" /\ ~Reading
    /\ pc' = "parsing"
    /\ UNCHANGED <<kites, again, err, conn, salts, buf, relay, history>>

\* pk_parse_pagekite_response and what is made of it: the first refusal decides;
\* a salt is kept for each kite that is to be signed.
Refusals == {i \in 1..Len(buf) : buf[i].kind \in {"duplicate", "invalid"}}
Refusal == buf[CHOOSE i \in Refusals : \A j \in Refusals : i <= j].kind
Wanted(k) == {i \in 1..Len(buf) : buf[i].kind = "sign" /\ buf[i].kite = k}
TooMany == Len(SelectSeq(buf, LAMBDA l : l # End)) + 1 >= MaxResponses

\* Seeded bug: the first salt the relay asks for is kept, not the last.
WantedSaltFirst(k) == CHOOSE i \in Wanted(k) : \A j \in Wanted(k) : i <= j

WantedSalt(k) == CHOOSE i \in Wanted(k) : \A j \in Wanted(k) : i >= j

AskedFor == {k \in kites : Wanted(k) # {}}

ParseRefusal ==
    /\ pc = "parsing" /\ (TooMany \/ Refusals # {})
    /\ Reset
    /\ FailAs(IF ~TooMany /\ Refusal = "duplicate" THEN "duplicate" ELSE "rejected")
    /\ UNCHANGED <<kites, again, salts, buf, relay, history>>

ParseSign ==
    /\ pc = "parsing" /\ ~TooMany /\ Refusals = {} /\ AskedFor # {}
    /\ Reset
    /\ salts' = [k \in Kites |->
                   IF k \in AskedFor
                   THEN [salts[k] EXCEPT !.f = buf[WantedSalt(k)].salt] ELSE salts[k]]
    /\ asked' = [k \in Kites |->
                   IF k \in AskedFor THEN buf[Max(Wanted(k))].salt ELSE NoSalt]
    /\ IF again
       THEN FailAs("rejected") /\ UNCHANGED <<again, buf, first>>
       ELSE /\ pc' = "connecting" /\ again' = TRUE
            /\ buf' = <<>>
            /\ first' = request
            /\ UNCHANGED err
    /\ UNCHANGED <<kites, relay, request>>

ParseFlying ==
    /\ pc = "parsing" /\ ~TooMany /\ Refusals = {} /\ AskedFor = {}
    /\ pc' = "up"
    /\ UNCHANGED <<kites, again, err, conn, salts, buf, relay, history>>

\* pkm_reconnect_all's else branch.
CleanUp ==
    /\ pc = "failed"
    /\ Reset
    /\ pc' = "down"
    /\ err' = "none"
    /\ UNCHANGED <<kites, again, salts, buf, relay, history>>

\* The tunnel is lost again: pkm_update_io.
TunnelCloses ==
    /\ pc = "up"
    /\ Reset
    /\ pc' = "down"
    /\ UNCHANGED <<kites, again, err, salts, buf, relay, history>>

-----------------------------------------------------------------------------
(* The relay.                                                                *)

\* It answers a request in full, or in part and closes.
Answer(a, whole) ==
    /\ pc = "reading" /\ state # "handshake"
    /\ buf = <<>> /\ wire = <<>> /\ ~ended
    /\ whole \/ Hasty
    /\ wire' = IF whole THEN Append(a, End) ELSE a
    /\ ended' = ~whole
    /\ UNCHANGED <<kites, pc, again, err, conn, salts, buf, history>>

Connector ==
    \/ Begin \/ Connect \/ ConnectFails
    \/ \E o \in {"done", "wants", "fails"} : StartTls(o)
    \/ Write \/ WriteFails
    \/ \E n \in 1..(MaxLines + 1) : Read(n)
    \/ ReadEof \/ TimesOut \/ StopReading
    \/ ParseRefusal \/ ParseSign \/ ParseFlying
    \/ CleanUp

Next ==
    \/ \E k \in Kites : AddKite(k)
    \/ Connector
    \/ ReadBreaks
    \/ TunnelCloses
    \/ \E a \in Answers, whole \in BOOLEAN : Answer(a, whole)

\* The blocker goes on: every call it makes returns, with SO_RCVTIMEO and
\* SO_SNDTIMEO set and pkc_wait limited.
Fairness == WF_vars(Connector)

Spec == Init /\ [][Next]_vars /\ Fairness

-----------------------------------------------------------------------------
\* Each connection is made with what the one before was told: a tunnel is up only
\* if every kite that the relay wanted signed was signed with the relay's latest
\* salt and the program's first (pkproto.c:699, 988).
SignedAsAsked ==
    pc = "up" /\ state # "handshake" =>
       \A k \in kites : asked[k] # NoSalt =>
          request[k].f = asked[k] /\ request[k].b = first[k].b

\* Whatever the cuts, the whole of the answer has been read when the tunnel is up:
\* what is left of it would be parsed as frames.  A handshake that is not done
\* keeps it from being read.
AnswerIsRead ==
    pc = "up" /\ state # "handshake" /\ wire # <<>> => closed

\* A socket is not left open behind: not when connecting fails at any point, nor
\* between the two connections, nor when the tunnel is lost.
OneSocket ==
    /\ open = (IF sock THEN 1 ELSE 0)
    /\ pc \in {"down", "connecting"} => open = 0

\* An attempt ends.
AttemptEnds == pc \notin {"down", "up"} ~> pc \in {"down", "up"}

=============================================================================
