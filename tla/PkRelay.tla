------------------------------- MODULE PkRelay -------------------------------
(***************************************************************************)
(* The relay front-end of pkrelay.c (HAVE_RELAY builds): connections are   *)
(* accepted by pkm_listener_cb, and what they carry is found out by        *)
(* peeking at their first 512 bytes, again and again until they can be     *)
(* told, first by the event loop and then by the blocker threads.          *)
(*                                                                         *)
(* Nothing is consumed by peeking, so a connection is its kind (what it    *)
(* will turn out to be) and how much of it has arrived, cut where the      *)
(* parsers' decisions change.  _find_tunnel always answers 0: so far no    *)
(* request but a tunnel's is ever served.  The pile the jobs wait on is    *)
(* PkJobPile's; here it takes a job or refuses it.                         *)
(***************************************************************************)
EXTENDS Integers, FiniteSets

CONSTANTS
  Visitors,    \* the connections that may come
  RelaySlots   \* be_conn_max

ASSUME VisitorSlots == RelaySlots \in Nat \ {0} /\ IsFiniteSet(Visitors)

VARIABLES
  listening,   \* the listener has been added
  crashed,     \* the program has been killed
  kind,        \* what each visitor's bytes will turn out to be
  arrived,     \* how much of them has arrived
  hungUp,      \* the visitor has closed its end
  old,         \* more than 5 seconds have gone by since it was accepted
  place,       \* where the connection is
  result       \* what its pending job was added with

relayVars == <<listening, crashed, kind, arrived, hungUp, old, place, result>>

\* A tunnel request that fits the peek and one that does not, HTTP, an HTTP
\* proxy request, TLS, a legacy SSL hello, anything else.
Kinds == {"pagekite", "large", "http", "proxy", "tls", "ssl", "other"}

\* How much has arrived: nothing; at most 4 bytes (5 of a TLS record); less
\* than the first line (than a TLS record's header and its message's); the
\* first line; all that matters, the blank line or the peek's 512 bytes.
Nothing == 0
Few     == 1
Some    == 2
ALine   == 3
All     == 4

RelayInit ==
  /\ listening = FALSE /\ crashed = FALSE
  /\ kind \in [Visitors -> Kinds]
  /\ arrived = [v \in Visitors |-> Nothing]
  /\ hungUp = [v \in Visitors |-> FALSE]
  /\ old = [v \in Visitors |-> FALSE]
  /\ place = [v \in Visitors |-> "away"]
  /\ result = [v \in Visitors |-> "none"]

\* The connection slots in use.  None of these is ever evicted: the listener's
\* is LISTENING, and an accepted connection is left CHANGING for ever.
Held == {v \in Visitors : place[v] \notin {"away", "backlog", "closed"}}
Used == Cardinality(Held) + (IF listening THEN 1 ELSE 0)
-----------------------------------------------------------------------------
(* What the bytes that have arrived are taken for. *)

\* _pkr_parse_ssltls and _pkr_get_first_tls_sni: with 6 to 9 bytes the scan
\* stops before the end of the data and fails; cut anywhere else, a TLS hello
\* passes for one without a server name.
ParseSslTls(k, n) ==
  CASE k = "tls" -> (IF n = Some THEN "failed" ELSE "slow")
    [] k = "ssl" -> "slow"
    [] OTHER     -> "undecided"

\* _pkr_parse_pagekite_request: only the blank line completes it.
ParsePagekite(k, n) == IF k = "pagekite" /\ n = All THEN "slow" ELSE "want"

\* _pkr_parse_http: nothing is HTTP before the end of its first line; no
\* request has a tunnel to go to.
ParseHttp(k, n) ==
  CASE k \notin {"pagekite", "large", "http", "proxy"} -> "undecided"
    [] n < ALine                 -> "undecided"
    [] k \in {"pagekite", "large"} -> ParsePagekite(k, n)
    [] k = "http" /\ n = ALine   -> "want"
    [] OTHER                     -> "failed"

\* _pkr_process_readable, up to its result.
Parse(k, n, over) ==
  CASE n = Nothing /\ over                  -> "failed"
    [] n = Nothing                          -> "want"
    [] ParseSslTls(k, n) # "undecided"      -> ParseSslTls(k, n)
    [] ParseHttp(k, n) # "undecided"        -> ParseHttp(k, n)
    [] n > Few                              -> "failed"
    [] OTHER                                -> "want"

\* The rest of it: the refusal of a full pile is ignored, and leaves the
\* connection to nobody.
ProcessReadable(v) ==
  LET r == Parse(kind[v], arrived[v], hungUp[v])
  IN  IF r = "failed"
      THEN place' = [place EXCEPT ![v] = "closed"] /\ UNCHANGED result
      ELSE /\ \E p \in {"job", "stranded"} : place' = [place EXCEPT ![v] = p]
           /\ result' = [result EXCEPT ![v] = r]
-----------------------------------------------------------------------------
\* pagekite_add_relay_listener, pkm_add_listener and pkc_listen.
AddListener ==
  /\ ~listening /\ ~crashed
  /\ listening' = TRUE
  /\ UNCHANGED <<crashed, kind, arrived, hungUp, old, place, result>>

\* pkm_listener_cb and pkr_conn_accepted_cb: with no slot left the connection
\* is logged and closed through ics->pkb, which is still NULL.
Accept(v) ==
  /\ place[v] = "backlog" /\ ~crashed
  /\ IF Used < RelaySlots
     THEN place' = [place EXCEPT ![v] = "watched"] /\ UNCHANGED crashed
     ELSE crashed' = TRUE /\ UNCHANGED place
  /\ UNCHANGED <<listening, kind, arrived, hungUp, old, result>>

\* pkr_new_conn_readable_cb: the watcher is stopped for good.
Readable(v) ==
  /\ place[v] = "watched" /\ ~crashed
  /\ arrived[v] # Nothing \/ hungUp[v]
  /\ ProcessReadable(v)
  /\ UNCHANGED <<listening, crashed, kind, arrived, hungUp, old>>

\* Seeded bug: waiting for the rest of a request has no end.
RelayIncomingPatient(v) ==
  /\ place[v] = "job" /\ ~crashed
  /\ place' = [place EXCEPT ![v] =
       IF result[v] = "want" THEN "asleep"
       ELSE IF kind[v] = "pagekite" THEN "asking" ELSE "closed"]
  /\ UNCHANGED <<listening, crashed, kind, arrived, hungUp, old, result>>

\* pkr_relay_incoming, run by a worker, until it sleeps (100 ms, if the pile is
\* empty), posts its blocking event, or gives the connection up.
RelayIncoming(v) ==
  /\ place[v] = "job" /\ ~crashed
  /\ place' = [place EXCEPT ![v] =
       IF result[v] = "want"
       THEN IF old[v] THEN "closed" ELSE "asleep"
       ELSE IF kind[v] = "pagekite" THEN "asking" ELSE "closed"]
  /\ UNCHANGED <<listening, crashed, kind, arrived, hungUp, old, result>>

\* ... and looks at the data again.
LookAgain(v) ==
  /\ place[v] = "asleep" /\ ~crashed
  /\ ProcessReadable(v)
  /\ UNCHANGED <<listening, crashed, kind, arrived, hungUp, old>>

\* The answer to PK_EV_TUNNEL_REQUEST: with a kite flying the connection is
\* kept, watched by nobody; with any other answer or none it is closed.
Answered(v) ==
  /\ place[v] = "asking" /\ ~crashed
  /\ \E p \in {"kept", "closed"} : place' = [place EXCEPT ![v] = p]
  /\ UNCHANGED <<listening, crashed, kind, arrived, hungUp, old, result>>
-----------------------------------------------------------------------------
(* The visitors and time. *)

Visit(v) ==
  /\ place[v] = "away" /\ listening
  /\ place' = [place EXCEPT ![v] = "backlog"]
  /\ UNCHANGED <<listening, crashed, kind, arrived, hungUp, old, result>>

Sends(v) ==
  /\ place[v] \notin {"away", "closed"} /\ ~hungUp[v]
  /\ \E n \in (arrived[v] + 1)..All : arrived' = [arrived EXCEPT ![v] = n]
  /\ UNCHANGED <<listening, crashed, kind, hungUp, old, place, result>>

HangsUp(v) ==
  /\ place[v] \notin {"away", "closed"} /\ ~hungUp[v]
  /\ hungUp' = [hungUp EXCEPT ![v] = TRUE]
  /\ UNCHANGED <<listening, crashed, kind, arrived, old, place, result>>

GrowsOld(v) ==
  /\ place[v] \in {"watched", "job", "asleep"} /\ ~old[v]
  /\ old' = [old EXCEPT ![v] = TRUE]
  /\ UNCHANGED <<listening, crashed, kind, arrived, hungUp, place, result>>

RelayNext ==
  \/ AddListener
  \/ \E v \in Visitors :
       \/ Accept(v) \/ Readable(v) \/ RelayIncoming(v) \/ LookAgain(v)
       \/ Answered(v) \/ Visit(v) \/ Sends(v) \/ HangsUp(v) \/ GrowsOld(v)

\* The loop polls for ever, the workers take jobs, the application answers its
\* events (PkEvents) and time passes; visitors need not do anything.
RelayFairness ==
  \A v \in Visitors :
    /\ WF_relayVars(Accept(v)) /\ WF_relayVars(Readable(v))
    /\ WF_relayVars(RelayIncoming(v)) /\ WF_relayVars(LookAgain(v))
    /\ WF_relayVars(Answered(v)) /\ WF_relayVars(GrowsOld(v))

RelaySpec == RelayInit /\ [][RelayNext]_relayVars /\ RelayFairness
-----------------------------------------------------------------------------
(***************************************************************************)
(* A connection that has sent something, or hung up, is decided: it is     *)
(* closed or kept as a tunnel, however its request was cut up, or however  *)
(* much of it never comes - unless the pile refuses its job, or the        *)
(* program has run out of slots.                                           *)
(***************************************************************************)
RelayDecides ==
  \A v \in Visitors :
    (place[v] = "watched" /\ (arrived[v] # Nothing \/ hungUp[v]))
      ~> (crashed \/ place[v] \in {"closed", "kept", "stranded"})
=============================================================================
