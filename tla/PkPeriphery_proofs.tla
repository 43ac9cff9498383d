-------------------------- MODULE PkPeriphery_proofs ---------------------------
(***************************************************************************)
(* The handshake, setting up, and the log, for any kites, salts, lines,    *)
(* relays and ring: a tunnel that is up was signed as the relay asked, its *)
(* answer has been read to the end, and no socket is left behind; the list *)
(* of certificate names has one owner through all the ways of setting up   *)
(* and taking down; what the log returns is the end of what was logged;    *)
(* and the dictionary, for any keys, values and hash, finds what it holds. *)
(***************************************************************************)
EXTENDS PkHandshake, PkSetup, PkLog, PkDict, SequenceTheorems, FiniteSetTheorems,
        WellFoundedInduction, TLAPS

-----------------------------------------------------------------------------
(* The invariant of the handshake.                                           *)

\* The relay has got the request, or part of it.
Talking == {"reading", "parsing", "up"}

\* What the relay asked for is what the requests will hold, or hold: its own salt,
\* and the salt the program made for the first of the two connections.
Salted ==
    /\ pc \notin {"down", "failed"} =>
         \A k \in kites : asked[k] # NoSalt =>
            /\ salts[k].f = asked[k]
            /\ salts[k].b = first[k].b /\ first[k].b # NoSalt
    /\ pc \in Talking => \A k \in kites : salts[k].b # NoSalt
    /\ pc \in Talking /\ state # "handshake" => request = salts

\* A blank line is the last of an answer, and nothing of an answer comes before the
\* request is out.
Heard ==
    /\ pc \in {"connecting", "tls", "writing"} => buf = <<>>
    /\ pc \in {"tls", "writing"} => wire = <<>>
    /\ pc \in Talking /\ state = "handshake" => buf = <<>>
    /\ pc \in Talking =>
         /\ \A i \in 1..Len(wire) : wire[i] = End => i = Len(wire)
         /\ \A i \in 1..Len(buf) : buf[i] = End => i = Len(buf) /\ wire = <<>>
    /\ pc \in {"parsing", "up"} /\ state # "handshake" => closed \/ EndsBlank(buf)

ConnectIInv == TypeOK /\ Salted /\ Heard /\ OneSocket

LEMMA ConnectInit == Init => ConnectIInv
<1> SUFFICES ASSUME Init PROVE ConnectIInv  OBVIOUS
<1> USE HandshakeBounds DEF Init, Unsalted, Unasked, NoSalt
<1>1. TypeOK
  <2>1. {salts, first, request} \subseteq
          [Kites -> [b : Salts \cup {NoSalt}, f : Salts \cup {NoSalt}]]
    OBVIOUS
  <2>2. buf \in Seq(Lines \cup {End}) /\ wire \in Seq(Lines \cup {End})
    BY EmptySeq
  <2> QED  BY <2>1, <2>2 DEF TypeOK
<1>2. Salted /\ Heard /\ OneSocket
  BY DEF Salted, Heard, OneSocket, Talking, EndsBlank
<1> QED  BY <1>1, <1>2 DEF ConnectIInv

\* One socket at most, and it is closed on every way down.
LEMMA SocketStep ==
  ASSUME TypeOK, OneSocket, [Next]_vars
  PROVE  OneSocket'
<1> USE DEF TypeOK, OneSocket, conn, relay, history
<1>1. CASE UNCHANGED vars  BY <1>1 DEF vars
<1>2. CASE Begin  BY <1>2 DEF Begin, Reset
<1>3. CASE Connect  BY <1>3 DEF Connect
<1>4. CASE ConnectFails  BY <1>4 DEF ConnectFails, FailAs
<1>5. ASSUME NEW o \in {"done", "wants", "fails"}, StartTls(o) PROVE OneSocket'
  BY <1>5 DEF StartTls, FailAs
<1>6. CASE Write  BY <1>6 DEF Write
<1>7. CASE WriteFails  BY <1>7 DEF WriteFails, Reset, FailAs
<1>8. ASSUME NEW n \in 1..(MaxLines + 1), Read(n) PROVE OneSocket'
  BY <1>8 DEF Read
<1>9. CASE ReadEof \/ ReadBreaks \/ TimesOut \/ StopReading
  BY <1>9 DEF ReadEof, ReadBreaks, TimesOut, StopReading, FailAs
<1>10. CASE ParseRefusal  BY <1>10 DEF ParseRefusal, Reset, FailAs
<1>11. CASE ParseSign  BY <1>11 DEF ParseSign, Reset, FailAs
<1>12. CASE ParseFlying  BY <1>12 DEF ParseFlying
<1>13. CASE CleanUp \/ TunnelCloses  BY <1>13 DEF CleanUp, TunnelCloses, Reset
<1>14. ASSUME NEW k \in Kites, AddKite(k) PROVE OneSocket'
  BY <1>14 DEF AddKite
<1>15. ASSUME NEW a \in Answers, NEW whole \in BOOLEAN, Answer(a, whole)
       PROVE  OneSocket'
  BY <1>15 DEF Answer
<1> QED  BY <1>1, <1>2, <1>3, <1>4, <1>5, <1>6, <1>7, <1>8, <1>9, <1>10, <1>11,
            <1>12, <1>13, <1>14, <1>15 DEF Next, Connector

SaltPairs == [b : Salts \cup {NoSalt}, f : Salts \cup {NoSalt}]

\* Signing keeps the salts there are and makes up the others' own.
LEMMA SignKeeps ==
  ASSUME TypeOK, Sign
  PROVE  /\ salts' \in [Kites -> SaltPairs]
         /\ \A k \in kites : /\ salts'[k].f = salts[k].f
                             /\ salts'[k].b # NoSalt
                             /\ salts[k].b # NoSalt => salts'[k].b = salts[k].b
<1>1. PICK b \in [kites -> Salts] :
        salts' = [k \in Kites |-> IF k \in kites THEN Made(salts[k], b[k]) ELSE salts[k]]
  BY DEF Sign
<1>2. salts \in [Kites -> SaltPairs] /\ kites \subseteq Kites
  BY DEF TypeOK, SaltPairs
<1>3. \A k \in kites : /\ Made(salts[k], b[k]) \in SaltPairs
                       /\ Made(salts[k], b[k]).f = salts[k].f
                       /\ Made(salts[k], b[k]).b # NoSalt
                       /\ salts[k].b # NoSalt => Made(salts[k], b[k]).b = salts[k].b
  <2> SUFFICES ASSUME NEW k \in kites
               PROVE  /\ Made(salts[k], b[k]) \in SaltPairs
                      /\ Made(salts[k], b[k]).f = salts[k].f
                      /\ Made(salts[k], b[k]).b # NoSalt
                      /\ salts[k].b # NoSalt => Made(salts[k], b[k]).b = salts[k].b
    OBVIOUS
  <2>1. salts[k] \in SaltPairs /\ b[k] \in Salts /\ b[k] # NoSalt
    BY <1>2, HandshakeBounds
  <2> QED  BY <2>1 DEF Made, SaltPairs
<1>4. salts' \in [Kites -> SaltPairs]
  BY <1>1, <1>2, <1>3
<1>5. \A k \in kites : salts'[k] = Made(salts[k], b[k])
  BY <1>1, <1>2
<1> QED  BY <1>3, <1>4, <1>5

\* A set of numbers has a least one.
LEMMA Least ==
  ASSUME NEW T \in SUBSET Nat, T # {}
  PROVE  \E n \in T : \A m \in T : n <= m
<1> DEFINE R == {ss \in Nat \X Nat : ss[1] < ss[2]}
<1>1. IsWellFoundedOn(R, Nat)
  BY NatLessThanWellFounded DEF OpToRel
<1>2. \A m, n \in Nat : <<m, n>> \notin R => n <= m
  <2> TAKE m, n \in Nat
  <2> HAVE <<m, n>> \notin R
  <2>1. <<m, n>>[1] = m /\ <<m, n>>[2] = n /\ <<m, n>> \in Nat \X Nat
    OBVIOUS
  <2> QED  BY <2>1
<1> HIDE DEF R
<1>3. PICK n \in T : \A m \in T : <<m, n>> \notin R
  BY <1>1, WFMin
<1> QED  BY <1>2, <1>3

\* The places of a kite's lines in the buffer, and the last of them.
LEMMA WantedPlaces ==
  ASSUME TypeOK, NEW k \in Kites, Wanted(k) # {}
  PROVE  /\ WantedSalt(k) = Max(Wanted(k))
         /\ WantedSalt(k) \in Wanted(k)
         /\ buf[WantedSalt(k)].salt \in Salts
<1>1. buf \in Seq(Lines \cup {End})  BY DEF TypeOK
<1>2. Len(buf) \in Nat /\ \A i \in 1..Len(buf) : buf[i] \in Lines \cup {End}
  BY <1>1
<1>3. Wanted(k) \subseteq 1..Len(buf)  BY DEF Wanted
<1>4. PICK i \in Wanted(k) : \A j \in Wanted(k) : i >= j
  <2> DEFINE Below == {n \in Nat : \E i \in Wanted(k) : n = Len(buf) - i}
  <2>1. \A i \in Wanted(k) : Len(buf) - i \in Below
    BY <1>2, <1>3
  <2>2. PICK n \in Below : \A m \in Below : n <= m
    <3>1. Below \in SUBSET Nat /\ Below # {}
      BY <2>1
    <3> HIDE DEF Below
    <3> QED  BY <3>1, Least
  <2>3. PICK i \in Wanted(k) : n = Len(buf) - i
    BY <2>2
  <2>4. \A j \in Wanted(k) : n <= Len(buf) - j
    <3> HIDE DEF Below
    <3> QED  BY <2>1, <2>2
  <2>5. \A j \in Wanted(k) : j \in Int /\ i \in Int
    BY <1>2, <1>3
  <2>6. \A j \in Wanted(k) : i >= j
    BY <1>2, <2>3, <2>4, <2>5
  <2> QED  BY <2>6
<1>6. WantedSalt(k) \in Wanted(k)
  BY <1>4 DEF WantedSalt
<1>7. WantedSalt(k) = Max(Wanted(k))
  BY DEF WantedSalt, Max
<1>8. buf[WantedSalt(k)] \in Lines \cup {End} /\ buf[WantedSalt(k)].kind = "sign"
  BY <1>2, <1>3, <1>6 DEF Wanted
<1>9. buf[WantedSalt(k)].salt \in Salts
  BY <1>8 DEF Lines, End, Line
<1> QED  BY <1>6, <1>7, <1>9

\* What is read moves from the wire to the end of the buffer.
LEMMA ReadMoves ==
  ASSUME TypeOK, NEW n \in Int, Read(n)
  PROVE  /\ buf' \in Seq(Lines \cup {End}) /\ wire' \in Seq(Lines \cup {End})
         /\ n \in 1..Len(wire)
         /\ Len(buf') = Len(buf) + n /\ Len(wire') = Len(wire) - n
         /\ \A i \in 1..Len(buf) : buf'[i] = buf[i]
         /\ \A i \in 1..n : buf'[Len(buf) + i] = wire[i]
         /\ \A i \in 1..Len(wire') : wire'[i] = wire[n + i]
<1> DEFINE L == Lines \cup {End}
<1> DEFINE r == SubSeq(wire, 1, n)
<1>1. buf \in Seq(L) /\ wire \in Seq(L) /\ n \in 1..Len(wire)
  BY DEF TypeOK, Read
<1>2. buf' = buf \o r /\ wire' = SubSeq(wire, n + 1, Len(wire))
  BY DEF Read
<1>3. Len(buf) \in Nat /\ Len(wire) \in Nat /\ \A i \in 1..Len(wire) : wire[i] \in L
  BY <1>1
<1> HIDE DEF L
<1>4. /\ r \in Seq(L) /\ Len(r) = n
      /\ \A i \in 1..n : r[i] = wire[i]
  <2>1. \A i \in 1..n : wire[i] \in L
    BY <1>1, <1>3
  <2>2. /\ SubSeq(wire, 1, n) \in Seq(L)
        /\ Len(SubSeq(wire, 1, n)) = IF 1 <= n THEN n - 1 + 1 ELSE 0
        /\ \A i \in 1..n - 1 + 1 : SubSeq(wire, 1, n)[i] = wire[1 + i - 1]
    BY <2>1, SubSeqProperties
  <2> QED  BY <1>1, <1>3, <2>2
<1>5. /\ wire' \in Seq(L) /\ Len(wire') = Len(wire) - n
      /\ \A i \in 1..Len(wire') : wire'[i] = wire[n + i]
  <2> DEFINE m == n + 1
  <2>1. m \in Int /\ Len(wire) \in Int /\ \A i \in m..Len(wire) : wire[i] \in L
    BY <1>1, <1>3
  <2> HIDE DEF m
  <2>2. /\ SubSeq(wire, m, Len(wire)) \in Seq(L)
        /\ Len(SubSeq(wire, m, Len(wire)))
             = IF m <= Len(wire) THEN Len(wire) - m + 1 ELSE 0
        /\ \A i \in 1..Len(wire) - m + 1 :
             SubSeq(wire, m, Len(wire))[i] = wire[m + i - 1]
    BY <2>1, SubSeqProperties
  <2>3. m = n + 1  BY DEF m
  <2> QED  BY <1>1, <1>2, <1>3, <2>2, <2>3
<1> HIDE DEF r
<1>6. /\ buf \o r \in Seq(L) /\ Len(buf \o r) = Len(buf) + Len(r)
      /\ \A i \in 1..Len(buf) + Len(r) :
           (buf \o r)[i] = IF i <= Len(buf) THEN buf[i] ELSE r[i - Len(buf)]
  BY <1>1, <1>4, ConcatProperties
<1>7. buf' \in Seq(L) /\ Len(buf') = Len(buf) + n
  BY <1>2, <1>4, <1>6
<1>8. \A i \in 1..Len(buf) : buf'[i] = buf[i]
  BY <1>1, <1>2, <1>3, <1>4, <1>6
<1>9. \A i \in 1..n : buf'[Len(buf) + i] = wire[i]
  <2> SUFFICES ASSUME NEW i \in 1..n PROVE buf'[Len(buf) + i] = wire[i]
    OBVIOUS
  <2>1. /\ Len(buf) + i \in 1..Len(buf) + Len(r)
        /\ ~(Len(buf) + i <= Len(buf))
        /\ (Len(buf) + i) - Len(buf) = i
    BY <1>1, <1>3, <1>4
  <2>2. (buf \o r)[Len(buf) + i] = r[(Len(buf) + i) - Len(buf)]
    BY <1>6, <2>1
  <2> QED  BY <1>2, <1>4, <2>1, <2>2
<1> QED  BY <1>1, <1>5, <1>7, <1>8, <1>9 DEF L

\* What the relay sends is lines, and a blank one only at the end.
LEMMA AnswerLines ==
  ASSUME NEW a \in Answers, NEW whole \in BOOLEAN, Answer(a, whole)
  PROVE  /\ wire' \in Seq(Lines \cup {End})
         /\ \A i \in 1..Len(wire') : wire'[i] = End => i = Len(wire')
<1>1. PICK n \in 0..MaxLines : a \in [1..n -> Lines]
  BY DEF Answers
<1>2. n \in Nat  BY <1>1, HandshakeBounds
<1>3. a \in Seq(Lines)  BY <1>1, <1>2
<1>4. Len(a) \in Nat /\ \A i \in 1..Len(a) : a[i] \in Lines
  BY <1>3
<1>5. End \notin Lines
  <2>1. \A l \in Lines : l.kind # "end"
    BY DEF Lines, Line
  <2>2. End.kind = "end"
    BY DEF End, Line
  <2> QED  BY <2>1, <2>2
<1>6. CASE whole
  <2>1. wire' = Append(a, End)  BY <1>6 DEF Answer
  <2>2. a \in Seq(Lines \cup {End})  BY <1>1, <1>2
  <2>3. Append(a, End) \in Seq(Lines \cup {End})  BY <2>2
  <2>4. /\ Len(Append(a, End)) = Len(a) + 1
        /\ \A i \in 1..Len(a) : Append(a, End)[i] = a[i]
    BY <1>3
  <2> QED  BY <1>4, <1>5, <2>1, <2>3, <2>4
<1>7. CASE ~whole
  <2>1. wire' = a  BY <1>7 DEF Answer
  <2>2. a \in Seq(Lines \cup {End})  BY <1>1, <1>2
  <2> QED  BY <1>4, <1>5, <2>1, <2>2
<1> QED  BY <1>6, <1>7

LEMMA ResetShuts ==
  ASSUME TypeOK, OneSocket, Reset
  PROVE  open' = 0 /\ sock' = FALSE /\ state' = "clear" /\ closed' = FALSE
BY DEF TypeOK, OneSocket, Reset

LEMMA TypeStep ==
  ASSUME TypeOK, OneSocket, [Next]_vars
  PROVE  TypeOK'
<1> DEFINE Same == UNCHANGED <<kites, buf, wire, ended>>
<1> DEFINE Sane == /\ pc' \in {"down", "connecting", "tls", "writing", "reading",
                               "parsing", "failed", "up"}
                   /\ again' \in BOOLEAN
                   /\ err' \in {"none", "error", "rejected", "duplicate"}
                   /\ sock' \in BOOLEAN /\ open' \in Nat
                   /\ state' \in {"clear", "handshake", "data"}
                   /\ closed' \in BOOLEAN
<1> DEFINE Salting == /\ {salts, first, request}' \subseteq [Kites -> SaltPairs]
                      /\ asked' \in [Kites -> Salts \cup {NoSalt}]
<1>1. /\ {salts, first, request} \subseteq [Kites -> SaltPairs]
      /\ asked \in [Kites -> Salts \cup {NoSalt}]
      /\ open = (IF sock THEN 1 ELSE 0)
      /\ buf \in Seq(Lines \cup {End}) /\ wire \in Seq(Lines \cup {End})
      /\ Unsalted \in [Kites -> SaltPairs]
      /\ Unasked \in [Kites -> Salts \cup {NoSalt}]
  BY DEF TypeOK, OneSocket, SaltPairs, Unsalted, Unasked
<1>2. ASSUME Sane, Salting, kites' \subseteq Kites, ended' \in BOOLEAN,
             buf' \in Seq(Lines \cup {End}), wire' \in Seq(Lines \cup {End})
      PROVE  TypeOK'
  BY <1>2 DEF TypeOK, SaltPairs
<1>3. <<>> \in Seq(Lines \cup {End})
  BY EmptySeq
<1> USE DEF TypeOK, conn, relay, history
<1>4. CASE UNCHANGED vars  BY <1>4 DEF vars
<1>5. CASE Begin
  <2> Reset  BY <1>5 DEF Begin
  <2> open' = 0 /\ sock' = FALSE /\ state' = "clear" /\ closed' = FALSE
    BY ResetShuts
  <2>1. Sane  BY <1>5 DEF Begin
  <2>2. Salting  BY <1>1, <1>5 DEF Begin
  <2> QED  BY <1>2, <1>3, <1>5, <2>1, <2>2 DEF Begin
<1>6. CASE Connect
  <2>1. Sane  BY <1>6 DEF Connect
  <2>2. Salting  BY <1>1, <1>6 DEF Connect
  <2> QED  BY <1>2, <1>3, <1>6, <2>1, <2>2 DEF Connect
<1>7. CASE ConnectFails \/ TimesOut
  BY <1>7 DEF ConnectFails, TimesOut, FailAs
<1>8. ASSUME NEW o \in {"done", "wants", "fails"}, StartTls(o) PROVE TypeOK'
  <2>1. Sane  BY <1>8 DEF StartTls, FailAs
  <2>2. Salting /\ Same  BY <1>1, <1>8 DEF StartTls
  <2> QED  BY <1>2, <2>1, <2>2
<1>9. CASE Write
  <2>1. salts' \in [Kites -> SaltPairs]
    BY <1>9, SignKeeps DEF Write
  <2>2. Sane  BY <1>9 DEF Write
  <2>3. Salting /\ Same  BY <1>1, <1>9, <2>1 DEF Write
  <2> QED  BY <1>2, <2>2, <2>3
<1>10. CASE WriteFails
  <2>1. salts' \in [Kites -> SaltPairs]
    BY <1>10, SignKeeps DEF WriteFails
  <2> Reset  BY <1>10 DEF WriteFails
  <2> open' = 0 /\ sock' = FALSE /\ state' = "clear" /\ closed' = FALSE
    BY ResetShuts
  <2>2. Sane  BY <1>10 DEF WriteFails, FailAs
  <2>3. Salting /\ Same  BY <1>1, <1>10, <2>1 DEF WriteFails
  <2> QED  BY <1>2, <2>2, <2>3
<1>11. ASSUME NEW n \in 1..(MaxLines + 1), Read(n) PROVE TypeOK'
  <2>1. n \in Int  BY HandshakeBounds
  <2>2. buf' \in Seq(Lines \cup {End}) /\ wire' \in Seq(Lines \cup {End})
    BY <1>11, <2>1, ReadMoves
  <2>3. Sane /\ kites' \subseteq Kites /\ ended' \in BOOLEAN
    BY <1>11 DEF Read
  <2>4. Salting  BY <1>1, <1>11 DEF Read
  <2> QED  BY <1>2, <2>2, <2>3, <2>4
<1>12. CASE ReadEof \/ ReadBreaks \/ StopReading
  BY <1>12 DEF ReadEof, ReadBreaks, StopReading
<1>13. CASE ParseRefusal
  <2> Reset  BY <1>13 DEF ParseRefusal
  <2> open' = 0 /\ sock' = FALSE /\ state' = "clear" /\ closed' = FALSE
    BY ResetShuts
  <2>1. Sane  BY <1>13 DEF ParseRefusal, FailAs
  <2>2. Salting /\ Same  BY <1>1, <1>13 DEF ParseRefusal
  <2> QED  BY <1>2, <2>1, <2>2
<1>14. CASE ParseSign
  <2>1. \A k \in AskedFor : /\ k \in Kites
                            /\ buf[WantedSalt(k)].salt \in Salts
                            /\ buf[Max(Wanted(k))].salt \in Salts
    BY WantedPlaces DEF AskedFor
  <2>2. salts' \in [Kites -> SaltPairs]
    <3>1. \A s \in SaltPairs, f \in Salts : [s EXCEPT !.f = f] \in SaltPairs
      BY DEF SaltPairs
    <3>2. \A k \in AskedFor : salts[k] \in SaltPairs
      BY <1>1, <2>1
    <3>3. \A k \in AskedFor :
            [salts[k] EXCEPT !.f = buf[WantedSalt(k)].salt] \in SaltPairs
      BY <2>1, <3>1, <3>2
    <3> QED  BY <1>1, <1>14, <3>3 DEF ParseSign
  <2>3. asked' \in [Kites -> Salts \cup {NoSalt}]
    BY <1>14, <2>1 DEF ParseSign
  <2>4. first' \in [Kites -> SaltPairs] /\ request' \in [Kites -> SaltPairs]
    BY <1>1, <1>14 DEF ParseSign
  <2> Reset  BY <1>14 DEF ParseSign
  <2> open' = 0 /\ sock' = FALSE /\ state' = "clear" /\ closed' = FALSE
    BY ResetShuts
  <2>5. Sane  BY <1>14 DEF ParseSign, FailAs
  <2>6. kites' \subseteq Kites /\ ended' \in BOOLEAN
    BY <1>14 DEF ParseSign
  <2>7. buf' \in Seq(Lines \cup {End}) /\ wire' \in Seq(Lines \cup {End})
    BY <1>1, <1>3, <1>14 DEF ParseSign
  <2>8. Salting  BY <2>2, <2>3, <2>4
  <2> QED  BY <1>2, <2>5, <2>6, <2>7, <2>8
<1>15. CASE ParseFlying  BY <1>15 DEF ParseFlying
<1>16. CASE CleanUp \/ TunnelCloses
  <2> Reset  BY <1>16 DEF CleanUp, TunnelCloses
  <2> open' = 0 /\ sock' = FALSE /\ state' = "clear" /\ closed' = FALSE
    BY ResetShuts
  <2>1. Sane  BY <1>16 DEF CleanUp, TunnelCloses
  <2>2. Salting /\ Same  BY <1>1, <1>16 DEF CleanUp, TunnelCloses
  <2> QED  BY <1>2, <2>1, <2>2
<1>17. ASSUME NEW k \in Kites, AddKite(k) PROVE TypeOK'
  <2>1. Sane  BY <1>17 DEF AddKite
  <2>2. Salting  BY <1>1, <1>17 DEF AddKite
  <2>3. kites' \subseteq Kites  BY <1>17 DEF AddKite
  <2> QED  BY <1>1, <1>2, <1>17, <2>1, <2>2, <2>3 DEF AddKite
<1>18. ASSUME NEW a \in Answers, NEW whole \in BOOLEAN, Answer(a, whole)
       PROVE  TypeOK'
  <2>1. wire' \in Seq(Lines \cup {End})
    BY <1>18, AnswerLines
  <2>2. Sane /\ kites' \subseteq Kites /\ ended' \in BOOLEAN
    BY <1>18 DEF Answer
  <2>3. Salting  BY <1>1, <1>18 DEF Answer
  <2>4. buf' = buf  BY <1>18 DEF Answer
  <2> QED  BY <1>1, <1>2, <2>1, <2>2, <2>3, <2>4
<1> QED  BY <1>4, <1>5, <1>6, <1>7, <1>8, <1>9, <1>10, <1>11, <1>12, <1>13, <1>14,
            <1>15, <1>16, <1>17, <1>18 DEF Next, Connector

\* The lines of an answer keep their order, and its end is its last line.
LEMMA HeardStep ==
  ASSUME TypeOK, Heard, [Next]_vars
  PROVE  Heard'
<1> USE DEF Heard, Talking, conn, relay, history
<1>1. CASE UNCHANGED vars  BY <1>1 DEF vars, EndsBlank
<1>2. CASE Begin  BY <1>2 DEF Begin
<1>3. CASE Connect  BY <1>3 DEF Connect
<1>4. CASE ConnectFails \/ TimesOut
  BY <1>4 DEF ConnectFails, TimesOut, FailAs
<1>5. ASSUME NEW o \in {"done", "wants", "fails"}, StartTls(o) PROVE Heard'
  BY <1>5 DEF StartTls, FailAs
<1>6. CASE Write
  <2>1. pc = "writing" /\ pc' = "reading" /\ buf' = buf /\ wire' = wire
    BY <1>6 DEF Write
  <2>2. buf = <<>> /\ wire = <<>>
    BY <2>1
  <2> QED  BY <2>1, <2>2
<1>7. CASE WriteFails  BY <1>7 DEF WriteFails, FailAs
<1>8. ASSUME NEW n \in 1..(MaxLines + 1), Read(n) PROVE Heard'
  <2>1. n \in Int  BY HandshakeBounds
  <2>2. /\ n \in 1..Len(wire)
        /\ Len(buf') = Len(buf) + n /\ Len(wire') = Len(wire) - n
        /\ \A i \in 1..Len(buf) : buf'[i] = buf[i]
        /\ \A i \in 1..n : buf'[Len(buf) + i] = wire[i]
        /\ \A i \in 1..Len(wire') : wire'[i] = wire[n + i]
    BY <1>8, <2>1, ReadMoves
  <2>3. wire' \in Seq(Lines \cup {End})
    BY <1>8, <2>1, ReadMoves
  <2>4. /\ pc = "reading" /\ pc' \in {"reading", "parsing"}
        /\ pc' = "parsing" => EndsBlank(buf)'
        /\ state # "handshake" /\ state' = state
    BY <1>8 DEF Read, Reading, EndsBlank
  <2>5. Len(buf) \in Nat /\ Len(wire) \in Nat
    BY DEF TypeOK
  <2> DEFINE EndsIt(i) == wire[i] = End => i = Len(wire)
  <2>6. \A i \in 1..Len(wire) : EndsIt(i)
    BY <2>4
  <2>7. ASSUME NEW i \in 1..Len(wire'), wire'[i] = End PROVE i = Len(wire')
    <3>1. n + i \in 1..Len(wire) /\ wire[n + i] = End
      BY <2>2, <2>5, <2>7
    <3> HIDE DEF EndsIt
    <3>2. EndsIt(n + i)
      BY <2>6, <3>1
    <3>3. n + i = Len(wire)
      BY <3>1, <3>2 DEF EndsIt
    <3>4. n \in Int /\ Len(wire) \in Int /\ Len(wire') = Len(wire) - n
      BY <2>2, <2>5
    <3>5. i \in Int
      OBVIOUS
    <3> QED  BY <3>3, <3>4, <3>5
  <2>8. ASSUME NEW i \in 1..Len(buf'), buf'[i] = End
        PROVE  i = Len(buf') /\ wire' = <<>>
    <3>1. wire # <<>>  BY <2>2
    <3>2. ~(i <= Len(buf))
      <4> SUFFICES ASSUME i <= Len(buf) PROVE FALSE
        OBVIOUS
      <4>1. i \in 1..Len(buf) /\ buf[i] = End
        BY <2>2, <2>5, <2>8
      <4> QED  BY <2>4, <3>1, <4>1
    <3> DEFINE j == i - Len(buf)
    <3>3. j \in 1..n /\ i = Len(buf) + j
      BY <2>2, <2>5, <3>2
    <3>4. wire[j] = End
      BY <2>2, <2>8, <3>3
    <3>5. j = Len(wire)
      <4>1. j \in 1..Len(wire)
        BY <2>2, <2>5, <3>3
      <4> HIDE DEF j
      <4>2. EndsIt(j)
        BY <2>6, <4>1
      <4> QED  BY <3>4, <4>2
    <3>6. n = Len(wire) /\ Len(wire') = 0
      BY <2>2, <2>5, <3>3, <3>5
    <3> QED  BY <2>2, <2>3, <2>5, <3>3, <3>5, <3>6
  <2> QED  BY <2>4, <2>7, <2>8
<1>9. CASE ReadEof \/ ReadBreaks
  BY <1>9 DEF ReadEof, ReadBreaks, Reading
<1>10. CASE StopReading  BY <1>10 DEF StopReading, Reading, EndsBlank
<1>11. CASE ParseRefusal  BY <1>11 DEF ParseRefusal, FailAs
<1>12. CASE ParseSign  BY <1>12 DEF ParseSign, FailAs
<1>13. CASE ParseFlying  BY <1>13 DEF ParseFlying, EndsBlank
<1>14. CASE CleanUp \/ TunnelCloses  BY <1>14 DEF CleanUp, TunnelCloses
<1>15. ASSUME NEW k \in Kites, AddKite(k) PROVE Heard'
  BY <1>15 DEF AddKite
<1>16. ASSUME NEW a \in Answers, NEW whole \in BOOLEAN, Answer(a, whole)
       PROVE  Heard'
  <2>1. \A i \in 1..Len(wire') : wire'[i] = End => i = Len(wire')
    BY <1>16, AnswerLines
  <2>2. pc = "reading" /\ pc' = pc /\ buf' = <<>>
    BY <1>16 DEF Answer
  <2> QED  BY <2>1, <2>2
<1> QED  BY <1>1, <1>2, <1>3, <1>4, <1>5, <1>6, <1>7, <1>8, <1>9, <1>10, <1>11,
            <1>12, <1>13, <1>14, <1>15, <1>16 DEF Next, Connector

\* What was asked for is in the requests of the connection that is made with it.
LEMMA SaltedStep ==
  ASSUME TypeOK, Salted, Heard, [Next]_vars
  PROVE  Salted'
<1> USE DEF Salted, Talking, conn, relay, history
<1>1. CASE UNCHANGED vars  BY <1>1 DEF vars
<1>2. CASE Begin
  <2>1. pc' = "connecting" /\ kites' = kites /\ asked' = Unasked
    BY <1>2 DEF Begin
  <2>2. \A k \in kites : asked'[k] = NoSalt
    BY <2>1 DEF Unasked, TypeOK
  <2> QED  BY <2>1, <2>2
<1>3. CASE Connect  BY <1>3 DEF Connect
<1>4. CASE ConnectFails \/ TimesOut
  BY <1>4 DEF ConnectFails, TimesOut, FailAs
<1>5. ASSUME NEW o \in {"done", "wants", "fails"}, StartTls(o) PROVE Salted'
  BY <1>5 DEF StartTls, FailAs
<1>6. CASE Write
  <2>1. /\ pc = "writing" /\ pc' = "reading"
        /\ kites' = kites /\ asked' = asked /\ first' = first
        /\ state' # "handshake" => request' = salts'
    BY <1>6 DEF Write
  <2>2. \A k \in kites : /\ salts'[k].f = salts[k].f
                         /\ salts'[k].b # NoSalt
                         /\ salts[k].b # NoSalt => salts'[k].b = salts[k].b
    BY <1>6, SignKeeps DEF Write
  <2>3. \A k \in kites : asked[k] # NoSalt =>
          /\ salts[k].f = asked[k]
          /\ salts[k].b = first[k].b /\ first[k].b # NoSalt
    BY <2>1
  <2> QED  BY <2>1, <2>2, <2>3
<1>7. CASE WriteFails  BY <1>7 DEF WriteFails, FailAs
<1>8. ASSUME NEW n \in 1..(MaxLines + 1), Read(n) PROVE Salted'
  BY <1>8 DEF Read
<1>9. CASE ReadEof \/ ReadBreaks \/ StopReading
  BY <1>9 DEF ReadEof, ReadBreaks, StopReading
<1>10. CASE ParseRefusal  BY <1>10 DEF ParseRefusal, FailAs
<1>11. CASE ParseSign /\ again
  BY <1>11 DEF ParseSign, FailAs
<1>12. CASE ParseSign /\ ~again
  <2>1. /\ pc = "parsing" /\ pc' = "connecting" /\ AskedFor # {}
        /\ kites' = kites /\ first' = request
    BY <1>12 DEF ParseSign
  <2>2. request = salts
    <3>1. buf # <<>>
      BY <2>1 DEF AskedFor, Wanted
    <3> QED  BY <2>1, <3>1 DEF Heard
  <2>3. \A k \in kites : salts[k].b # NoSalt
    BY <2>1
  <2>4. kites \subseteq Kites /\ salts \in [Kites -> SaltPairs]
    BY DEF TypeOK, SaltPairs
  <2>5. ASSUME NEW k \in kites, asked'[k] # NoSalt
        PROVE  /\ salts'[k].f = asked'[k]
               /\ salts'[k].b = first'[k].b /\ first'[k].b # NoSalt
    <3>1. asked' = [i \in Kites |->
                      IF i \in AskedFor THEN buf[Max(Wanted(i))].salt ELSE NoSalt]
      BY <1>12 DEF ParseSign
    <3>2. k \in Kites /\ k \in AskedFor
      BY <2>4, <2>5, <3>1
    <3>3. asked'[k] = buf[Max(Wanted(k))].salt
      BY <3>1, <3>2
    <3>4. WantedSalt(k) = Max(Wanted(k))
      BY <3>2, WantedPlaces DEF AskedFor
    <3>5. salts'[k] = [salts[k] EXCEPT !.f = buf[WantedSalt(k)].salt]
      BY <1>12, <3>2 DEF ParseSign
    <3>6. /\ salts'[k].f = buf[WantedSalt(k)].salt
          /\ salts'[k].b = salts[k].b
      BY <2>4, <3>2, <3>5 DEF SaltPairs
    <3> QED  BY <2>1, <2>2, <2>3, <3>3, <3>4, <3>6
  <2> QED  BY <2>1, <2>5
<1>13. CASE ParseFlying  BY <1>13 DEF ParseFlying
<1>14. CASE CleanUp \/ TunnelCloses  BY <1>14 DEF CleanUp, TunnelCloses
<1>15. ASSUME NEW k \in Kites, AddKite(k) PROVE Salted'
  BY <1>15 DEF AddKite
<1>16. ASSUME NEW a \in Answers, NEW whole \in BOOLEAN, Answer(a, whole)
       PROVE  Salted'
  BY <1>16 DEF Answer
<1> QED  BY <1>1, <1>2, <1>3, <1>4, <1>5, <1>6, <1>7, <1>8, <1>9, <1>10, <1>11,
            <1>12, <1>13, <1>14, <1>15, <1>16 DEF Next, Connector

\* THEOREM: the invariant holds in every state of a connection's life.
THEOREM ConnectInvariant == Spec => []ConnectIInv
<1>1. Init => ConnectIInv
  BY ConnectInit
<1>2. ConnectIInv /\ [Next]_vars => ConnectIInv'
  BY TypeStep, SaltedStep, HeardStep, SocketStep DEF ConnectIInv
<1> QED  BY <1>1, <1>2, PTL DEF Spec

\* THEOREM: every variable of the handshake keeps its type.
THEOREM ConnectTyped == Spec => []TypeOK
<1>1. ConnectIInv => TypeOK
  BY DEF ConnectIInv
<1> QED  BY <1>1, ConnectInvariant, PTL

\* THEOREM: a tunnel that is up was signed with the relay's latest salts and the
\* program's first, for any number of kites and salts and any answers.
THEOREM SignedRight == Spec => []SignedAsAsked
<1>1. ConnectIInv => SignedAsAsked
  BY DEF ConnectIInv, Salted, SignedAsAsked, Talking
<1> QED  BY <1>1, ConnectInvariant, PTL

\* THEOREM: however an answer is cut into reads, nothing of it is left on the wire
\* of a tunnel that is up.
THEOREM AnswerTaken == Spec => []AnswerIsRead
<1>1. ConnectIInv => AnswerIsRead
  <2> SUFFICES ASSUME ConnectIInv, pc = "up", state # "handshake", wire # <<>>, ~closed
               PROVE  FALSE
    BY DEF AnswerIsRead, ConnectIInv, TypeOK
  <2>1. buf # <<>> /\ buf[Len(buf)] = End
    BY DEF ConnectIInv, Heard, EndsBlank, Last
  <2>2. Len(buf) \in 1..Len(buf)
    BY <2>1 DEF ConnectIInv, TypeOK
  <2>3. \A i \in 1..Len(buf) : buf[i] = End => wire = <<>>
    BY DEF ConnectIInv, Heard, Talking
  <2> QED  BY <2>1, <2>2, <2>3
<1> QED  BY <1>1, ConnectInvariant, PTL

\* THEOREM: there is one socket or none, and none while a tunnel is down or about
\* to connect.
THEOREM SocketsAreClosed == Spec => []OneSocket
<1>1. ConnectIInv => OneSocket
  BY DEF ConnectIInv
<1> QED  BY <1>1, ConnectInvariant, PTL

-----------------------------------------------------------------------------
(* The owner of the certificates' names.                                     *)

\* A state of the set-up with these relays and names.
SetupsOf(relays, names) ==
  [up : BOOLEAN, use4 : BOOLEAN, use6 : BOOLEAN, relays : {relays}, names : {names},
   at : {"null", "static", "heap"}, lists : Int, badFree : BOOLEAN,
   asked : BOOLEAN, calls : Int]

IsSetup(s) == s \in SetupsOf(s.relays, s.names)

\* The list has one owner, also between the steps of a call.
Owned(s) ==
  /\ IsSetup(s)
  /\ ~s.badFree
  /\ s.lists = (IF s.at = "heap" THEN 1 ELSE 0)

\* The same at the end of a call.
Settled(s) == Owned(s) /\ (~s.up => s.at = "null")

\* What follows s within a call, whose manager stays.
Follows(s, t) == Owned(t) /\ t.up = s.up

LEMMA FreeNamesOwned ==
  ASSUME Merged, NEW s, Owned(s)
  PROVE  Follows(s, FreeNames(s)) /\ FreeNames(s).at = "null" /\ FreeNames(s).lists = 0
<1>1. s \in SetupsOf(s.relays, s.names)
  BY DEF Owned, IsSetup
<1>2. FreeNames(s) = [s EXCEPT !.names = <<>>, !.at = "null", !.lists = 0]
  <2>1. (IF s.at = "heap" THEN s.lists - 1 ELSE s.lists) = 0
    BY <1>1 DEF Owned
  <2>2. (s.badFree \/ (s.at = "static" /\ ~Merged)) = FALSE
    BY DEF Owned
  <2>3. FreeNames(s) = [s EXCEPT !.names = <<>>, !.at = "null", !.lists = 0,
                                 !.badFree = FALSE]
    BY <2>1, <2>2 DEF FreeNames
  <2>4. s.badFree = FALSE
    BY <1>1 DEF Owned, SetupsOf
  <2> QED  BY <1>1, <2>3, <2>4 DEF SetupsOf
<1> DEFINE t == FreeNames(s)
<1> HIDE DEF t
<1>3. /\ IsSetup(t) /\ t.up = s.up /\ t.at = "null" /\ t.lists = 0
      /\ t.badFree = s.badFree
  <2>1. t = [s EXCEPT !.names = <<>>, !.at = "null", !.lists = 0]
    BY <1>2 DEF t
  <2> DEFINE u == [s EXCEPT !.names = <<>>]
  <2> DEFINE v == [u EXCEPT !.at = "null"]
  <2>2. u \in SetupsOf(s.relays, <<>>) /\ u.up = s.up /\ u.badFree = s.badFree
    BY <1>1 DEF SetupsOf
  <2>3. /\ v \in SetupsOf(s.relays, <<>>) /\ v.up = s.up /\ v.at = "null"
        /\ v.badFree = s.badFree
    <3> HIDE DEF u
    <3> QED  BY <2>2 DEF SetupsOf
  <2>4. t = [v EXCEPT !.lists = 0]
    BY <2>1
  <2>5. /\ t \in SetupsOf(s.relays, <<>>) /\ t.up = s.up /\ t.at = "null"
        /\ t.lists = 0 /\ t.badFree = s.badFree
    <3> HIDE DEF v
    <3> QED  BY <2>3, <2>4 DEF SetupsOf
  <2>6. t.relays = s.relays /\ t.names = <<>>
    BY <2>5 DEF SetupsOf
  <2> QED  BY <2>5, <2>6 DEF IsSetup
<1>4. Follows(s, t)
  BY <1>3 DEF Follows, Owned
<1> QED  BY <1>3, <1>4 DEF t

LEMMA AddNamesOwned ==
  ASSUME Merged, NEW s, NEW new, Owned(s)
  PROVE  Follows(s, AddNames(s, new))
<1>1. CASE s.names \o new = <<>>
  BY <1>1, FreeNamesOwned DEF AddNames
<1>2. CASE s.names \o new # <<>>
  <2> DEFINE f == FreeNames(s)
  <2>1. Follows(s, f) /\ f.at = "null" /\ f.lists = 0
    BY FreeNamesOwned
  <2>2. AddNames(s, new)
          = [f EXCEPT !.names = s.names \o new, !.at = "heap", !.lists = f.lists + 1]
    BY <1>2 DEF AddNames
  <2> DEFINE t == AddNames(s, new)
  <2> HIDE DEF f, t
  <2>3. f \in SetupsOf(f.relays, f.names)
    BY <2>1 DEF Follows, Owned, IsSetup
  <2>4. t = [f EXCEPT !.names = s.names \o new, !.at = "heap", !.lists = 1]
    <3>1. f.lists + 1 = 1
      BY <2>1
    <3> QED  BY <2>2, <3>1 DEF t
  <2>5. /\ IsSetup(t) /\ t.up = f.up /\ t.at = "heap" /\ t.lists = 1
        /\ t.badFree = f.badFree
    <3> DEFINE all == s.names \o new
    <3> DEFINE u == [f EXCEPT !.names = all]
    <3> DEFINE v == [u EXCEPT !.at = "heap"]
    <3>1. t = [v EXCEPT !.lists = 1]
      BY <2>4
    <3> HIDE DEF all
    <3>2. u \in SetupsOf(f.relays, all) /\ u.up = f.up /\ u.badFree = f.badFree
      BY <2>3 DEF SetupsOf
    <3>3. /\ v \in SetupsOf(f.relays, all) /\ v.up = f.up /\ v.at = "heap"
          /\ v.badFree = f.badFree
      <4> HIDE DEF u
      <4> QED  BY <3>2 DEF SetupsOf
    <3>4. /\ t \in SetupsOf(f.relays, all) /\ t.up = f.up /\ t.at = "heap"
          /\ t.lists = 1 /\ t.badFree = f.badFree
      <4> HIDE DEF v
      <4> QED  BY <3>1, <3>3 DEF SetupsOf
    <3>5. t.relays = f.relays /\ t.names = all
      BY <3>4 DEF SetupsOf
    <3> QED  BY <3>4, <3>5 DEF IsSetup
  <2>6. Follows(s, t)
    BY <2>1, <2>5 DEF Follows, Owned
  <2> QED  BY <2>6 DEF t
<1> QED  BY <1>1, <1>2

LEMMA ServiceNamesOwned ==
  ASSUME Merged, NEW s, Owned(s)
  PROVE  Follows(s, ServiceNames(s))
<1>1. CASE s.at # "null"
  BY <1>1, AddNamesOwned DEF ServiceNames
<1>2. CASE s.at = "null"
  <2> DEFINE t == [s EXCEPT !.names = <<Net>>, !.at = "static"]
  <2>1. ServiceNames(s) = t
    BY <1>2 DEF ServiceNames
  <2>2. s \in SetupsOf(s.relays, s.names)
    BY DEF Owned, IsSetup
  <2>3. /\ t.up = s.up /\ t.relays = s.relays /\ t.names = <<Net>>
        /\ t.at = "static" /\ t.lists = s.lists /\ t.badFree = s.badFree
    BY <2>2 DEF SetupsOf
  <2>4. t \in SetupsOf(s.relays, <<Net>>)
    BY <2>2 DEF SetupsOf
  <2> HIDE DEF t
  <2>5. IsSetup(t)
    BY <2>3, <2>4 DEF IsSetup
  <2>6. s.lists = 0 /\ ~s.badFree
    BY <1>2 DEF Owned
  <2>7. Follows(s, t)
    BY <2>3, <2>5, <2>6 DEF Follows, Owned
  <2> QED  BY <2>1, <2>7
<1> QED  BY <1>1, <1>2

LEMMA LookupOwned ==
  ASSUME NEW s, NEW name, NEW answer, NEW placeholder, Owned(s)
  PROVE  Follows(s, Lookup(s, name, answer, placeholder))
<1> DEFINE r == IF AddAnswer(s, name, answer) = s.relays /\ placeholder
                THEN AddRelay(AddAnswer(s, name, answer), name, NoAddress)
                ELSE AddAnswer(s, name, answer)
<1>1. Lookup(s, name, answer, placeholder) = [s EXCEPT !.relays = r]
  BY DEF Lookup
<1> HIDE DEF r
<1> DEFINE t == [s EXCEPT !.relays = r]
<1>2. s \in SetupsOf(s.relays, s.names)
  BY DEF Owned, IsSetup
<1>3. /\ t.up = s.up /\ t.relays = r /\ t.names = s.names
      /\ t.at = s.at /\ t.lists = s.lists /\ t.badFree = s.badFree
  BY <1>2 DEF SetupsOf
<1>4. t \in SetupsOf(r, s.names)
  BY <1>2 DEF SetupsOf
<1> HIDE DEF t
<1>5. IsSetup(t)
  BY <1>3, <1>4 DEF IsSetup
<1>6. Follows(s, t)
  BY <1>3, <1>5 DEF Follows, Owned
<1> QED  BY <1>1, <1>6 DEF t

LEMMA LookupBothOwned ==
  ASSUME NEW s, NEW domain, NEW flags, NEW answers, Owned(s)
  PROVE  Follows(s, LookupBoth(s, domain, flags, answers))
<1> DEFINE dynamic == "dynamic" \in flags
<1> DEFINE four == IF "ipv4" \in flags THEN Lookup(s, domain, answers.four, dynamic) ELSE s
<1> DEFINE six == IF "ipv6" \in flags THEN Lookup(four, domain, answers.six, dynamic) ELSE four
<1>1. LookupBoth(s, domain, flags, answers) = six
  BY DEF LookupBoth, After
<1>2. Follows(s, four)
  <2>1. Follows(s, s)  BY DEF Follows
  <2>2. Follows(s, Lookup(s, domain, answers.four, dynamic))
    BY LookupOwned
  <2> QED  BY <2>1, <2>2
<1>3. Follows(four, six)
  <2> HIDE DEF four
  <2>1. Owned(four)  BY <1>2 DEF Follows
  <2>2. Follows(four, four)  BY <2>1 DEF Follows
  <2>3. Follows(four, Lookup(four, domain, answers.six, dynamic))
    BY <2>1, LookupOwned
  <2> QED  BY <2>2, <2>3
<1> HIDE DEF four, six
<1> QED  BY <1>1, <1>2, <1>3 DEF Follows

LEMMA AddServiceOwned ==
  ASSUME Merged, NEW s, NEW flags, NEW answers, Owned(s)
  PROVE  Follows(s, AddService(s, flags, answers))
<1> DEFINE both == LookupBoth(s, Net, WithDefaults(flags), answers)
<1>1. AddService(s, flags, answers) = ServiceNames(both)
  BY DEF AddService, After
<1>2. Follows(s, both)
  BY LookupBothOwned
<1> HIDE DEF both
<1>3. Follows(both, ServiceNames(both))
  BY <1>2, ServiceNamesOwned DEF Follows
<1> QED  BY <1>1, <1>2, <1>3 DEF Follows

LEMMA AddWhitelabelOwned ==
  ASSUME Merged, NEW s, NEW flags, NEW tld, NEW answers, Owned(s)
  PROVE  Follows(s, AddWhitelabel(s, flags, tld, answers))
BY AddServiceOwned, LookupBothOwned DEF AddWhitelabel

LEMMA FreeManagerOwned ==
  ASSUME Merged, NEW s, Owned(s)
  PROVE  Settled(FreeManager(s)) /\ FreeManager(s).at = "null"
<1> DEFINE f == FreeNames(s)
<1> DEFINE u == [f EXCEPT !.up = FALSE]
<1> DEFINE v == [u EXCEPT !.relays = <<>>]
<1> DEFINE t == [v EXCEPT !.asked = FALSE]
<1>1. Follows(s, f) /\ f.at = "null" /\ f.lists = 0
  BY FreeNamesOwned
<1>2. FreeManager(s) = t
  BY DEF FreeManager
<1> HIDE DEF f
<1>3. f \in SetupsOf(f.relays, f.names) /\ ~f.badFree
  BY <1>1 DEF Follows, Owned, IsSetup
<1>4. u \in SetupsOf(f.relays, f.names) /\ u.at = "null" /\ u.lists = 0 /\ ~u.badFree
  BY <1>1, <1>3 DEF SetupsOf
<1>5. v \in SetupsOf(<<>>, f.names) /\ v.at = "null" /\ v.lists = 0 /\ ~v.badFree
  <2> HIDE DEF u
  <2> QED  BY <1>4 DEF SetupsOf
<1>6. t \in SetupsOf(<<>>, f.names) /\ t.at = "null" /\ t.lists = 0 /\ ~t.badFree
  <2> HIDE DEF v
  <2> QED  BY <1>5 DEF SetupsOf
<1> HIDE DEF t
<1>7. t.relays = <<>> /\ t.names = f.names
  BY <1>6 DEF SetupsOf
<1>8. Settled(t) /\ t.at = "null"
  BY <1>6, <1>7 DEF Settled, Owned, IsSetup
<1> QED  BY <1>2, <1>8

\* Whether the relays were found or not.
LEMMA OrFreeOwned ==
  ASSUME Merged, NEW before, NEW after, Settled(after)
  PROVE  Settled(OrFree(before, after))
<1> DEFINE t == [after EXCEPT !.asked = TRUE]
<1>1. OrFree(before, after)
        = IF after.relays = before.relays THEN FreeManager(after) ELSE t
  BY DEF OrFree, After
<1>2. Settled(FreeManager(after))
  BY FreeManagerOwned DEF Settled
<1>3. Settled(t)
  <2>1. after \in SetupsOf(after.relays, after.names)
    BY DEF Settled, Owned, IsSetup
  <2>2. /\ t \in SetupsOf(after.relays, after.names) /\ t.up = after.up
        /\ t.at = after.at /\ t.lists = after.lists /\ t.badFree = after.badFree
    BY <2>1 DEF SetupsOf
  <2> HIDE DEF t
  <2>3. t.relays = after.relays /\ t.names = after.names
    BY <2>2 DEF SetupsOf
  <2> QED  BY <2>2, <2>3 DEF Settled, Owned, IsSetup
<1> HIDE DEF t
<1> QED  BY <1>1, <1>2, <1>3

LEMMA FollowsSettled ==
  ASSUME NEW s, NEW t, s.up, Follows(s, t)
  PROVE  Settled(t) /\ t.up
BY DEF Follows, Settled

\* A manager is made when there is none; without the service's relays to be looked
\* up it is there afterwards.
LEMMA InitialiseOwned ==
  ASSUME Merged, NEW s, NEW flags, NEW answers, Settled(s), ~s.up
  PROVE  /\ Settled(Initialise(s, flags, answers))
         /\ "service" \notin flags => Initialise(s, flags, answers).up
<1> DEFINE f == WithDefaults(flags)
<1> DEFINE new == [Down EXCEPT !.up = TRUE, !.use4 = "ipv4" \in f, !.use6 = "ipv6" \in f,
                               !.lists = s.lists, !.badFree = s.badFree,
                               !.calls = s.calls]
<1> DEFINE i == Initialise(s, flags, answers)
<1>1. s \in SetupsOf(s.relays, s.names) /\ s.lists = 0 /\ ~s.badFree
  BY DEF Settled, Owned, IsSetup
<1>2. i = IF "service" \in f THEN OrFree(new, AddService(new, f, answers)) ELSE new
  BY DEF Initialise, After
<1>3. "service" \in f => "service" \in flags
  BY DEF WithDefaults
<1> HIDE DEF f
<1>4. s.calls \in Int /\ s.lists \in Int /\ s.badFree \in BOOLEAN
  BY <1>1 DEF SetupsOf
<1>5. new \in SetupsOf(<<>>, <<>>) /\ new.up /\ new.at = "null" /\ new.lists = 0
      /\ ~new.badFree
  <2> DEFINE u == [Down EXCEPT !.up = TRUE]
  <2> DEFINE four == "ipv4" \in f
  <2> DEFINE six == "ipv6" \in f
  <2> DEFINE u4 == [u EXCEPT !.use4 = four]
  <2> DEFINE v == [u4 EXCEPT !.use6 = six]
  <2> DEFINE w == [v EXCEPT !.lists = s.lists]
  <2> DEFINE x == [w EXCEPT !.badFree = s.badFree]
  <2>1. u \in SetupsOf(<<>>, <<>>) /\ u.up /\ u.at = "null"
    <3>1. Down \in SetupsOf(<<>>, <<>>) /\ Down.at = "null"
      BY DEF Down, SetupsOf
    <3> QED  BY <3>1 DEF SetupsOf
  <2>2. v \in SetupsOf(<<>>, <<>>) /\ v.up /\ v.at = "null"
    <3>1. four \in BOOLEAN /\ six \in BOOLEAN
      OBVIOUS
    <3> HIDE DEF u, four, six
    <3>2. u4 \in SetupsOf(<<>>, <<>>) /\ u4.up /\ u4.at = "null"
      BY <2>1, <3>1 DEF SetupsOf
    <3> HIDE DEF u4
    <3> QED  BY <3>1, <3>2 DEF SetupsOf
  <2>3. w \in SetupsOf(<<>>, <<>>) /\ w.up /\ w.at = "null" /\ w.lists = 0
    <3> HIDE DEF v
    <3> QED  BY <1>1, <1>4, <2>2 DEF SetupsOf
  <2>4. x \in SetupsOf(<<>>, <<>>) /\ x.up /\ x.at = "null" /\ x.lists = 0 /\ ~x.badFree
    <3> HIDE DEF w
    <3> QED  BY <1>1, <1>4, <2>3 DEF SetupsOf
  <2>5. new = [x EXCEPT !.calls = s.calls]
    OBVIOUS
  <2> HIDE DEF x, new
  <2> QED  BY <1>4, <2>4, <2>5 DEF SetupsOf
<1> HIDE DEF new
<1>6. new.relays = <<>> /\ new.names = <<>>
  BY <1>5 DEF SetupsOf
<1>7. Settled(new)
  BY <1>5, <1>6 DEF Settled, Owned, IsSetup
<1>8. Settled(OrFree(new, AddService(new, f, answers)))
  <2>1. Follows(new, AddService(new, f, answers))
    BY <1>7, AddServiceOwned DEF Settled
  <2>2. Settled(AddService(new, f, answers))
    BY <1>5, <2>1, FollowsSettled
  <2> QED  BY <2>2, OrFreeOwned
<1> HIDE DEF i
<1>9. Settled(i) /\ ("service" \notin flags => i.up)
  BY <1>2, <1>3, <1>5, <1>7, <1>8
<1> QED  BY <1>9 DEF i

LEMMA InitPagekiteNetOwned ==
  ASSUME Merged, NEW s, NEW flags, NEW answers, Settled(s), ~s.up
  PROVE  Settled(InitPagekiteNet(s, flags, answers))
<1> DEFINE f == WithDefaults(flags)
<1> DEFINE new == Initialise(s, f, answers)
<1>1. InitPagekiteNet(s, flags, answers)
        = IF new.up /\ f \cap {"service", "noservice"} = {}
          THEN OrFree(new, AddService(new, f, answers)) ELSE new
  BY DEF InitPagekiteNet, After
<1>2. Settled(new)
  BY InitialiseOwned
<1> HIDE DEF f, new
<1>3. new.up => Settled(OrFree(new, AddService(new, f, answers)))
  <2> SUFFICES ASSUME new.up PROVE Settled(OrFree(new, AddService(new, f, answers)))
    OBVIOUS
  <2>1. Follows(new, AddService(new, f, answers))
    BY <1>2, AddServiceOwned DEF Settled
  <2>2. Settled(AddService(new, f, answers))
    BY <2>1, FollowsSettled
  <2> QED  BY <2>2, OrFreeOwned
<1> QED  BY <1>1, <1>2, <1>3

LEMMA InitWhitelabelOwned ==
  ASSUME Merged, NEW s, NEW flags, NEW tld, NEW answers, Settled(s), ~s.up
  PROVE  /\ Settled(InitWhitelabel(s, flags, tld, answers))
         /\ "noservice" \in flags => InitWhitelabel(s, flags, tld, answers).up
<1> DEFINE f == WithDefaults(flags)
<1> DEFINE g == (f \ {"service"}) \cup {"noservice"}
<1> DEFINE new == Initialise(s, g, answers)
<1> DEFINE own == IF tld = NoTld THEN new ELSE AddNames(new, <<tld>>)
<1> DEFINE named == IF tld # NoTld /\ "sni" \in f THEN own ELSE AddNames(own, <<Net>>)
<1> DEFINE all == IF "noservice" \in f THEN named
                  ELSE OrFree(named, AddWhitelabel(named, f, tld, answers))
<1>1. InitWhitelabel(s, flags, tld, answers) = all
  BY DEF InitWhitelabel, After
<1>2. "noservice" \in flags => "noservice" \in f
  BY DEF WithDefaults
<1> HIDE DEF f
<1>3. Settled(new) /\ new.up
  BY InitialiseOwned
<1> HIDE DEF new
<1>4. Settled(own) /\ own.up
  <2>1. Follows(new, AddNames(new, <<tld>>))
    BY <1>3, AddNamesOwned DEF Settled
  <2>2. Settled(AddNames(new, <<tld>>)) /\ AddNames(new, <<tld>>).up
    BY <1>3, <2>1, FollowsSettled
  <2> QED  BY <1>3, <2>2
<1> HIDE DEF own
<1>5. Settled(named) /\ named.up
  <2>1. Follows(own, AddNames(own, <<Net>>))
    BY <1>4, AddNamesOwned DEF Settled
  <2>2. Settled(AddNames(own, <<Net>>)) /\ AddNames(own, <<Net>>).up
    BY <1>4, <2>1, FollowsSettled
  <2> QED  BY <1>4, <2>2
<1> HIDE DEF named
<1>6. Settled(OrFree(named, AddWhitelabel(named, f, tld, answers)))
  <2>1. Follows(named, AddWhitelabel(named, f, tld, answers))
    BY <1>5, AddWhitelabelOwned DEF Settled
  <2>2. Settled(AddWhitelabel(named, f, tld, answers))
    BY <1>5, <2>1, FollowsSettled
  <2> QED  BY <2>2, OrFreeOwned
<1>7. Settled(all) /\ ("noservice" \in flags => all.up)
  BY <1>2, <1>5, <1>6
<1> HIDE DEF all
<1> QED  BY <1>1, <1>7

LEMMA PagekitecOwned ==
  ASSUME Merged, NEW s, NEW opt \in Options, NEW answers, Settled(s), ~s.up
  PROVE  Settled(Pagekitec(s, opt, answers))
<1> DEFINE new == IF opt.tld # NoTld THEN InitWhitelabel(s, opt.flags, opt.tld, answers)
                  ELSE Initialise(s, opt.flags, answers)
<1> DEFINE flying == IF opt.current THEN Lookup(new, OwnName, answers.own, FALSE) ELSE new
<1> DEFINE byHand == Lookup(flying, "-F", answers.six, "dynamic" \in opt.flags)
<1> DEFINE white == OrFree(flying, AddWhitelabel(flying, opt.flags, opt.tld, answers))
<1> DEFINE net == OrFree(flying, AddService(flying, opt.flags, answers))
<1>1. Pagekitec(s, opt, answers) \in {byHand, white, net, flying}
  <2>1. /\ opt.frontend \in BOOLEAN /\ opt.service \in BOOLEAN
    BY DEF Options
  <2>2. Pagekitec(s, opt, answers)
          = CASE opt.frontend -> byHand
              [] ~opt.frontend /\ opt.tld # NoTld -> white
              [] ~opt.frontend /\ opt.tld = NoTld /\ opt.service -> net
              [] OTHER -> flying
    BY DEF Pagekitec, After
  <2> HIDE DEF byHand, white, net, flying
  <2> QED  BY <2>1, <2>2
<1>2. "noservice" \in opt.flags /\ "service" \notin opt.flags
  BY DEF Options
<1>3. Settled(new) /\ new.up
  BY <1>2, InitWhitelabelOwned, InitialiseOwned
<1> HIDE DEF new
<1>4. Settled(flying) /\ flying.up
  <2>1. Follows(new, Lookup(new, OwnName, answers.own, FALSE))
    BY <1>3, LookupOwned DEF Settled
  <2>2. /\ Settled(Lookup(new, OwnName, answers.own, FALSE))
        /\ Lookup(new, OwnName, answers.own, FALSE).up
    BY <1>3, <2>1, FollowsSettled
  <2> QED  BY <1>3, <2>2
<1> HIDE DEF flying
<1>5. Settled(byHand)
  <2>1. Follows(flying, byHand)
    BY <1>4, LookupOwned DEF Settled
  <2> QED  BY <1>4, <2>1, FollowsSettled
<1>6. Settled(white)
  <2>1. Follows(flying, AddWhitelabel(flying, opt.flags, opt.tld, answers))
    BY <1>4, AddWhitelabelOwned DEF Settled
  <2>2. Settled(AddWhitelabel(flying, opt.flags, opt.tld, answers))
    BY <1>4, <2>1, FollowsSettled
  <2> QED  BY <2>2, OrFreeOwned
<1>7. Settled(net)
  <2>1. Follows(flying, AddService(flying, opt.flags, answers))
    BY <1>4, AddServiceOwned DEF Settled
  <2>2. Settled(AddService(flying, opt.flags, answers))
    BY <1>4, <2>1, FollowsSettled
  <2> QED  BY <2>2, OrFreeOwned
<1> HIDE DEF byHand, white, net
<1> QED  BY <1>1, <1>4, <1>5, <1>6, <1>7

\* The count of the calls is all that a call adds.
LEMMA CallOwned ==
  ASSUME NEW s, Settled(s), Call(s)
  PROVE  Settled(setup')
<1>1. setup' = [s EXCEPT !.calls = s.calls + 1]
  BY DEF Call
<1>2. s \in SetupsOf(s.relays, s.names)
  BY DEF Settled, Owned, IsSetup
<1>3. s.calls \in Int
  BY <1>2 DEF SetupsOf
<1>4. /\ setup' \in SetupsOf(s.relays, s.names) /\ setup'.up = s.up
      /\ setup'.at = s.at /\ setup'.lists = s.lists /\ setup'.badFree = s.badFree
  BY <1>1, <1>2, <1>3 DEF SetupsOf
<1>5. setup'.relays = s.relays /\ setup'.names = s.names
  BY <1>4 DEF SetupsOf
<1> QED  BY <1>4, <1>5 DEF Settled, Owned, IsSetup

LEMMA SetupStep ==
  ASSUME Merged, Settled(setup), [SetupNext]_setupVars
  PROVE  Settled(setup')
<1>1. CASE UNCHANGED setupVars
  BY <1>1 DEF setupVars
<1>2. CASE StartUp
  <2>1. ~setup.up  BY <1>2 DEF StartUp
  <2>2. PICK a \in Resolved :
          \/ \E f \in FlagSets : Call(Initialise(setup, f, a))
          \/ \E f \in FlagSets : Call(InitPagekiteNet(setup, f, a))
          \/ \E f \in FlagSets, t \in {Tld, NoTld} : Call(InitWhitelabel(setup, f, t, a))
          \/ \E o \in Options : Call(Pagekitec(setup, o, a))
    BY <1>2 DEF StartUp
  <2>3. ASSUME NEW f \in FlagSets, Call(Initialise(setup, f, a)) PROVE Settled(setup')
    BY <2>1, <2>3, InitialiseOwned, CallOwned
  <2>4. ASSUME NEW f \in FlagSets, Call(InitPagekiteNet(setup, f, a)) PROVE Settled(setup')
    BY <2>1, <2>4, InitPagekiteNetOwned, CallOwned
  <2>5. ASSUME NEW f \in FlagSets, NEW t \in {Tld, NoTld},
               Call(InitWhitelabel(setup, f, t, a))
        PROVE  Settled(setup')
    BY <2>1, <2>5, InitWhitelabelOwned, CallOwned
  <2>6. ASSUME NEW o \in Options, Call(Pagekitec(setup, o, a)) PROVE Settled(setup')
    BY <2>1, <2>6, PagekitecOwned, CallOwned
  <2> QED  BY <2>2, <2>3, <2>4, <2>5, <2>6
<1>3. CASE AddRelays
  <2>1. setup.up /\ Owned(setup)  BY <1>3 DEF AddRelays, Settled
  <2>2. PICK a \in Resolved, f \in FlagSets :
          \/ Call(AddService(setup, f, a))
          \/ \E t \in {Tld, NoTld} : Call(AddWhitelabel(setup, f, t, a))
          \/ Call(Lookup(setup, OwnName, a.own, "dynamic" \in f))
    BY <1>3 DEF AddRelays
  <2>3. CASE Call(AddService(setup, f, a))
    BY <2>1, <2>3, AddServiceOwned, FollowsSettled, CallOwned
  <2>4. ASSUME NEW t \in {Tld, NoTld}, Call(AddWhitelabel(setup, f, t, a))
        PROVE  Settled(setup')
    BY <2>1, <2>4, AddWhitelabelOwned, FollowsSettled, CallOwned
  <2>5. CASE Call(Lookup(setup, OwnName, a.own, "dynamic" \in f))
    BY <2>1, <2>5, LookupOwned, FollowsSettled, CallOwned
  <2> QED  BY <2>2, <2>3, <2>4, <2>5
<1>4. CASE TearDown
  <2>1. Settled(FreeManager(setup))
    BY FreeManagerOwned DEF Settled
  <2> QED  BY <1>4, <2>1, CallOwned DEF TearDown
<1> QED  BY <1>1, <1>2, <1>3, <1>4 DEF SetupNext

\* THEOREM: with one copy of the service's list of names, whatever the flags, the
\* answers and the calls, the list of names has one owner at the end of each call.
THEOREM NamesOwned == Merged => (SetupSpec => []NamesAreOwned)
<1> SUFFICES ASSUME Merged PROVE SetupSpec => []NamesAreOwned
  OBVIOUS
<1> DEFINE Inv == Settled(setup)
<1>1. SetupInit => Inv
  <2> SUFFICES ASSUME SetupInit PROVE Settled(setup)
    OBVIOUS
  <2>1. setup \in SetupsOf(<<>>, <<>>)
    BY DEF SetupInit, Down, SetupsOf
  <2>2. /\ setup.relays = <<>> /\ setup.names = <<>> /\ setup.at = "null"
        /\ setup.lists = 0 /\ ~setup.badFree
    BY DEF SetupInit, Down
  <2> QED  BY <2>1, <2>2 DEF Settled, Owned, IsSetup
<1>2. Inv /\ [SetupNext]_setupVars => Inv'
  BY SetupStep
<1>3. Inv => NamesAreOwned
  BY DEF NamesAreOwned, Settled, Owned
<1> QED  BY <1>1, <1>2, <1>3, PTL DEF SetupSpec
-----------------------------------------------------------------------------
(* The ring.                                                                 *)

\* The bytes of the ring between its start and its end.
Used == IF end >= start THEN end - start ELSE LogMax - start + end

\* The k-th of them.
Byte(k) == ring[Wrap(start + k)]

LogTypeOK ==
  /\ ring \in [0..LogMax -> Int]
  /\ start \in 0..(LogMax - 1) /\ end \in 0..(LogMax - 1)
  /\ logged \in Seq(Int) /\ count \in Nat

\* The bytes are the last that were logged, there is a NUL behind them and at the
\* end of the array, and none among them.
Held ==
  /\ Used <= Len(logged)
  /\ \A k \in 0..(Used - 1) : Byte(k) = logged[Len(logged) - Used + 1 + k]
  /\ \A i \in 1..Len(logged) : logged[i] # NUL
  /\ ring[end] = NUL /\ ring[LogMax] = NUL

\* They begin with a line, and the last m of them are the last message.
Lined(m) ==
  /\ Used = Len(logged) \/ logged[Len(logged) - Used] = NL
  /\ m \in 1..LineMax /\ m <= Used
  /\ logged[Len(logged) - m + 1] # NL /\ logged[Len(logged)] = NL
  /\ m = Len(logged) \/ logged[Len(logged) - m] = NL

LogIInv ==
  /\ LogTypeOK /\ Held
  /\ count = 0 => start = 0 /\ end = 0 /\ logged = <<>>
  /\ count > 0 => \E m \in 1..LineMax : Lined(m)

-----------------------------------------------------------------------------
LEMMA ModWrap ==
  ASSUME NEW p \in 0..(LogMax - 1), NEW k \in 0..LogMax
  PROVE  (p + k) % LogMax = Wrap(p + k)
BY LogSizes DEF Wrap

\* Going round from one byte to a later one.
LEMMA WrapAgain ==
  ASSUME NEW s \in 0..(LogMax - 1), NEW d \in 0..LogMax, NEW j \in Nat, d + j <= LogMax
  PROVE  /\ Wrap(Wrap(s + d) + j) = Wrap(s + d + j)
         /\ Wrap(s + d) \in 0..(LogMax - 1)
BY LogSizes DEF Wrap

\* Two bytes of one round are at different places.
LEMMA WrapApart ==
  ASSUME NEW s \in 0..(LogMax - 1), NEW i \in 0..(LogMax - 1), NEW j \in 0..(LogMax - 1),
         i # j
  PROVE  Wrap(s + i) # Wrap(s + j)
BY LogSizes DEF Wrap

LEMMA FromFinds ==
  ASSUME NEW p \in 0..(LogMax - 1), NEW stops, NEW k \in 0..LogMax,
         Wrap(p + k) \in stops, \A j \in 0..(k - 1) : Wrap(p + j) \notin stops
  PROVE  From(p, stops) = Wrap(p + k)
<1> DEFINE on(j) == (p + j) % LogMax
<1> DEFINE stop(j) == on(j) \in stops /\ \A i \in 0..(j - 1) : on(i) \notin stops
<1>1. \A j \in 0..LogMax : on(j) = Wrap(p + j)
  BY ModWrap
<1>2. From(p, stops) = on(CHOOSE j \in 0..LogMax : stop(j))
  BY DEF From
<1> HIDE DEF on
<1>3. stop(k)
  <2>1. on(k) \in stops
    BY <1>1
  <2>2. \A i \in 0..(k - 1) : i \in 0..LogMax
    BY LogSizes
  <2> QED  BY <1>1, <2>1, <2>2
<1>4. \A j \in 0..LogMax : stop(j) => j = k
  BY <1>3
<1>5. (CHOOSE j \in 0..LogMax : stop(j)) = k
  <2> HIDE DEF stop
  <2> QED  BY <1>3, <1>4
<1> QED  BY <1>1, <1>2, <1>5

\* From the d-th byte on, the e-th is the first of the kind.
LEMMA FromByte ==
  ASSUME NEW s \in 0..(LogMax - 1), NEW d \in Nat, NEW e \in Nat, d <= e, e <= LogMax,
         NEW p, NEW q, p = Wrap(s + d), q = Wrap(s + e),
         NEW stops, q \in stops,
         \A j \in d..(e - 1) : Wrap(s + j) \notin stops
  PROVE  From(p, stops) = q
<1> DEFINE k == e - d
<1>1. p \in 0..(LogMax - 1) /\ k \in 0..LogMax
  BY WrapAgain, LogSizes DEF Wrap
<1>2. Wrap(p + k) = Wrap(s + e)
  BY WrapAgain, LogSizes DEF Wrap
<1>3. ASSUME NEW j \in 0..(k - 1) PROVE Wrap(p + j) \notin stops
  <2>1. d + j \in d..(e - 1)
    BY <1>3
  <2>2. Wrap(p + j) = Wrap(s + (d + j))
    BY <2>1, LogSizes DEF Wrap
  <2> QED  BY <2>1, <2>2
<1> HIDE DEF k
<1>4. From(p, stops) = Wrap(p + k)
  BY <1>1, <1>2, <1>3, FromFinds
<1> QED  BY <1>2, <1>4

LEMMA UsedSize ==
  ASSUME LogTypeOK
  PROVE  /\ Used \in 0..(LogMax - 1)
         /\ Wrap(start + Used) = end
         /\ \A len \in 1..LineMax : Full(len) <=> Used > 0 /\ Used + len >= LogMax
BY LogSizes DEF LogTypeOK, Used, Wrap, Full

\* Making room gives up whole lines, and not the last.
LEMMA MakeRoomDrops ==
  ASSUME LogTypeOK, Held, NEW m \in 1..LineMax, Lined(m), NEW len \in 1..LineMax, Full(len)
  PROVE  \E d \in 0..Used : /\ MakeRoom(len) = Wrap(start + d)
                            /\ len <= d /\ d + m <= Used
                            /\ logged[Len(logged) - Used + d] = NL
<1> DEFINE u == Used
<1> DEFINE newlines == {p \in 0..LogMax : ring[p] = NL}
<1> DEFINE stops == newlines \cup {end}
<1> DEFINE others == (0..LogMax) \ newlines
<1> DEFINE old == Len(logged) - u
<1>1. /\ u \in 0..(LogMax - 1) /\ Wrap(start + u) = end /\ u + len >= LogMax
      /\ start \in 0..(LogMax - 1)
  BY UsedSize DEF LogTypeOK
<1>2. /\ len \in Nat /\ m \in Nat /\ m >= 1 /\ len >= 1
      /\ len <= u - m - 1 /\ u - m < u /\ LogMax \in Nat
  BY <1>1, LogSizes
<1>3. Len(logged) \in Nat /\ old \in Nat
  BY <1>1 DEF LogTypeOK, Held
<1>4. \A d \in 0..(u - 1) : ring[Wrap(start + d)] = logged[old + 1 + d]
  BY DEF Held, Byte
<1>5. logged[old + (u - m)] = NL /\ logged[old + 1 + (u - m)] # NL
  <2>1. old + (u - m) = Len(logged) - m /\ old + 1 + (u - m) = Len(logged) - m + 1
    BY <1>1, <1>2, <1>3
  <2>2. m # Len(logged)
    BY <1>1, <1>2, <1>3
  <2> QED  BY <2>1, <2>2 DEF Lined
<1>6. \A d \in 0..LogMax : Wrap(start + d) \in 0..LogMax
  BY <1>1, LogSizes DEF Wrap
<1>7. \A d \in 0..(u - 1) : Wrap(start + d) \in newlines <=> logged[old + 1 + d] = NL
  <2> SUFFICES ASSUME NEW d \in 0..(u - 1)
               PROVE  Wrap(start + d) \in newlines <=> logged[old + 1 + d] = NL
    OBVIOUS
  <2>1. Wrap(start + d) \in 0..LogMax
    <3>1. d \in 0..LogMax
      BY <1>1, <1>2
    <3> QED  BY <1>6, <3>1
  <2> QED  BY <1>4, <2>1
<1> HIDE DEF newlines, old
\* The first newline behind the bytes that are needed.
<1>8. PICK a \in Nat : /\ len <= a /\ a <= u - m - 1
                       /\ logged[old + 1 + a] = NL
                       /\ \A j \in len..(a - 1) : logged[old + 1 + j] # NL
  <2> DEFINE Ends == {d \in Nat : len <= d /\ d <= u - m - 1 /\ logged[old + 1 + d] = NL}
  <2>1. u - m - 1 \in Ends
    <3>1. old + 1 + (u - m - 1) = old + (u - m)
      BY <1>1, <1>2, <1>3
    <3> QED  BY <1>1, <1>2, <1>5, <3>1
  <2>2. PICK a \in Ends : \A d \in Ends : a <= d
    <3>1. Ends \in SUBSET Nat /\ Ends # {}
      BY <2>1
    <3> HIDE DEF Ends
    <3> QED  BY <3>1, Least
  <2>3. \A j \in len..(a - 1) : logged[old + 1 + j] # NL
    BY <1>1, <1>2, <2>2
  <2> QED  BY <2>2, <2>3
<1>9. From(Wrap(start + len), stops) = Wrap(start + a)
  <2>1. Wrap(start + a) \in stops
    BY <1>1, <1>2, <1>7, <1>8
  <2>2. ASSUME NEW j \in len..(a - 1) PROVE Wrap(start + j) \notin stops
    <3>1. j \in 0..(u - 1) /\ j # u /\ j \in 0..(LogMax - 1)
      BY <1>1, <1>2, <1>8
    <3>2. Wrap(start + j) \notin newlines
      BY <1>7, <1>8, <3>1
    <3>3. Wrap(start + j) # end
      BY <1>1, <3>1, WrapApart
    <3> QED  BY <3>2, <3>3
  <2>3. a <= LogMax
    BY <1>1, <1>2, <1>8
  <2> HIDE DEF stops
  <2>4. \A j \in len..(a - 1) : Wrap(start + j) \notin stops
    BY <2>2
  <2>5. start \in 0..(LogMax - 1) /\ len \in Nat /\ a \in Nat /\ len <= a
    BY <1>1, <1>2, <1>8
  <2> DEFINE p == Wrap(start + len)
  <2> DEFINE q == Wrap(start + a)
  <2>6. p = Wrap(start + len) /\ q = Wrap(start + a) /\ q \in stops
    BY <2>1
  <2> HIDE DEF p, q
  <2>7. From(p, stops) = q
    BY <2>3, <2>4, <2>5, <2>6, FromByte
  <2> QED  BY <2>6, <2>7
\* The first byte behind it that is none.
<1>10. PICK b \in Nat : /\ a <= b /\ b <= u - m
                        /\ logged[old + 1 + b] # NL
                        /\ \A j \in a..(b - 1) : logged[old + 1 + j] = NL
  <2> DEFINE Begins == {d \in Nat : a <= d /\ d <= u - m /\ logged[old + 1 + d] # NL}
  <2>1. u - m \in Begins
    BY <1>1, <1>2, <1>5, <1>8
  <2>2. PICK b \in Begins : \A d \in Begins : b <= d
    <3>1. Begins \in SUBSET Nat /\ Begins # {}
      BY <2>1
    <3> HIDE DEF Begins
    <3> QED  BY <3>1, Least
  <2>3. \A j \in a..(b - 1) : logged[old + 1 + j] = NL
    BY <1>1, <1>2, <2>2
  <2> QED  BY <2>2, <2>3
<1>11. From(Wrap(start + a), others) = Wrap(start + b)
  <2>1. Wrap(start + b) \in others
    BY <1>1, <1>2, <1>6, <1>7, <1>10
  <2>2. ASSUME NEW j \in a..(b - 1) PROVE Wrap(start + j) \notin others
    <3>1. j \in 0..(u - 1)
      BY <1>1, <1>2, <1>8, <1>10
    <3> QED  BY <1>7, <1>10, <3>1
  <2>3. b <= LogMax
    BY <1>1, <1>2, <1>10
  <2> HIDE DEF others
  <2>4. \A j \in a..(b - 1) : Wrap(start + j) \notin others
    BY <2>2
  <2>5. start \in 0..(LogMax - 1) /\ a \in Nat /\ b \in Nat /\ a <= b
    BY <1>1, <1>8, <1>10
  <2> DEFINE p == Wrap(start + a)
  <2> DEFINE q == Wrap(start + b)
  <2>6. p = Wrap(start + a) /\ q = Wrap(start + b) /\ q \in others
    BY <2>1
  <2> HIDE DEF p, q
  <2>7. From(p, others) = q
    BY <2>3, <2>4, <2>5, <2>6, FromByte
  <2> QED  BY <2>6, <2>7
<1>12. MakeRoom(len) = Wrap(start + b)
  BY <1>9, <1>11 DEF MakeRoom, newlines
<1>13. b > a
  BY <1>8, <1>10
<1>14. logged[old + b] = NL
  <2>1. b - 1 \in a..(b - 1) /\ old + 1 + (b - 1) = old + b
    BY <1>3, <1>13
  <2> QED  BY <1>10, <2>1
<1> QED  BY <1>1, <1>2, <1>8, <1>10, <1>12, <1>13, <1>14 DEF old

\* The room there is for a line, with what is left of the others.
LEMMA StartLeaves ==
  ASSUME LogIInv, NEW len \in 1..LineMax
  PROVE  \E d \in 0..Used : /\ Start(len) = Wrap(start + d)
                            /\ Used - d + len < LogMax
                            /\ d = 0 \/ logged[Len(logged) - Used + d] = NL
                            /\ count > 0 => Used - d > 0
<1>1. /\ LogTypeOK /\ Held /\ LogMax \in Nat /\ LineMax \in Nat /\ LineMax < LogMax
      /\ count = 0 => Used = 0
      /\ count > 0 => \E m \in 1..LineMax : Lined(m)
  BY LogSizes DEF LogIInv, Used
<1>2. /\ Used \in 0..(LogMax - 1) /\ count \in Nat
      /\ Full(len) <=> Used > 0 /\ Used + len >= LogMax
  BY <1>1, UsedSize DEF LogTypeOK
<1>3. CASE ~Full(len)
  <2>1. Start(len) = Wrap(start + 0)
    BY <1>1, <1>3 DEF Start, Wrap, LogTypeOK
  <2>2. Used - 0 + len < LogMax
    <3>1. len < LogMax
      BY <1>1
    <3> QED  BY <1>1, <1>2, <1>3, <3>1
  <2>3. count > 0 => Used - 0 > 0
    BY <1>1, <1>2 DEF Lined
  <2> QED  BY <1>2, <2>1, <2>2, <2>3
<1>4. CASE Full(len)
  <2>1. count > 0
    BY <1>1, <1>2, <1>4
  <2>2. PICK m \in 1..LineMax : Lined(m)
    BY <1>1, <2>1
  <2>3. PICK d \in 0..Used : /\ MakeRoom(len) = Wrap(start + d)
                             /\ len <= d /\ d + m <= Used
                             /\ logged[Len(logged) - Used + d] = NL
    BY <1>1, <1>4, <2>2, MakeRoomDrops
  <2>4. Start(len) = Wrap(start + d)
    BY <1>4, <2>3 DEF Start
  <2>5. Used - d + len < LogMax /\ Used - d > 0
    BY <1>1, <1>2, <2>3
  <2> QED  BY <2>3, <2>4, <2>5
<1> QED  BY <1>3, <1>4

LEMMA CopiedBytes ==
  ASSUME LogTypeOK, NEW p \in 0..(LogMax - 1), NEW src \in Seq(Int), Len(src) < LogMax,
         NEW wraps \in BOOLEAN, ~wraps => p + Len(src) < LogMax
  PROVE  /\ Copied(p, src, wraps) \in [0..LogMax -> Int]
         /\ \A j \in 0..(Len(src) - 1) : Copied(p, src, wraps)[Wrap(p + j)] = src[j + 1]
         /\ \A q \in 0..(LogMax - 1) : (\A j \in 0..(Len(src) - 1) : Wrap(p + j) # q)
               => Copied(p, src, wraps)[q] = ring[q]
         /\ Copied(p, src, wraps)[LogMax] = ring[LogMax]
<1> DEFINE n == Len(src)
<1> DEFINE c == Copied(p, src, wraps)
<1> DEFINE at(q) == (IF wraps /\ q < p THEN q + LogMax ELSE q) - p + 1
<1>1. n \in Nat /\ LogMax \in Nat /\ p \in Nat /\ p < LogMax /\ ring \in [0..LogMax -> Int]
  BY LogSizes DEF LogTypeOK
<1>2. \A i \in 1..n : src[i] \in Int
  OBVIOUS
<1>3. c = [q \in 0..LogMax |->
             IF at(q) \in 1..n /\ (wraps => q < LogMax) THEN src[at(q)] ELSE ring[q]]
  BY DEF Copied
<1>4. \A q \in 0..LogMax : at(q) \in Int
  BY <1>1
<1>5. \A j \in 0..(n - 1) : /\ Wrap(p + j) \in 0..(LogMax - 1)
                            /\ at(Wrap(p + j)) = j + 1
  BY <1>1 DEF Wrap
<1>6. \A q \in 0..(LogMax - 1) : at(q) \in 1..n =>
        at(q) - 1 \in 0..(n - 1) /\ Wrap(p + (at(q) - 1)) = q
  BY <1>1 DEF Wrap
<1>7. ~(at(LogMax) \in 1..n /\ (wraps => LogMax < LogMax))
  BY <1>1
<1> HIDE DEF c, at, n
<1>8. c \in [0..LogMax -> Int]
  BY <1>1, <1>2, <1>3
<1>9. \A j \in 0..(n - 1) : c[Wrap(p + j)] = src[j + 1]
  <2> SUFFICES ASSUME NEW j \in 0..(n - 1) PROVE c[Wrap(p + j)] = src[j + 1]
    OBVIOUS
  <2> DEFINE q == Wrap(p + j)
  <2>1. q \in 0..(LogMax - 1) /\ at(q) = j + 1
    BY <1>5
  <2> HIDE DEF q
  <2>2. q \in 0..LogMax /\ q < LogMax /\ j + 1 \in 1..n
    BY <1>1, <2>1
  <2>3. c[q] = src[at(q)]
    BY <1>3, <2>1, <2>2
  <2> QED  BY <2>1, <2>3 DEF q
<1>10. ASSUME NEW q \in 0..(LogMax - 1), \A j \in 0..(n - 1) : Wrap(p + j) # q
       PROVE  c[q] = ring[q]
  <2>1. at(q) \notin 1..n
    BY <1>6, <1>10
  <2> QED  BY <1>1, <1>3, <2>1
<1>11. c[LogMax] = ring[LogMax]
  BY <1>1, <1>3, <1>7
<1> QED  BY <1>8, <1>9, <1>10, <1>11 DEF c, n

\* What d bytes given up, n bytes of src and a newline make of the ring.
Rolled(d, src) ==
  /\ ring' \in [0..LogMax -> Int]
  /\ start' \in 0..(LogMax - 1) /\ end' \in 0..(LogMax - 1)
  /\ Used' = Used - d + Len(src) + 1
  /\ \A k \in 0..(Used - d - 1) : Byte(k)' = Byte(d + k)
  /\ \A k \in 0..(Len(src) - 1) : ring'[Wrap(start' + (Used - d + k))] = src[k + 1]
  /\ ring'[Wrap(start' + (Used - d + Len(src)))] = NL
  /\ ring'[end'] = NUL /\ ring'[LogMax] = NUL

LEMMA LogCopyRolls ==
  ASSUME LogIInv, NEW src \in Seq(Int), Len(src) \in 1..(LineMax - 1), LogCopy(src)
  PROVE  \E d \in 0..Used : /\ Rolled(d, src)
                            /\ d = 0 \/ logged[Len(logged) - Used + d] = NL
                            /\ count > 0 => Used - d > 0
<1> DEFINE n == Len(src)
<1> DEFINE begin == Start(n + 1)
<1> DEFINE wraps == end > begin /\ end + n >= LogMax
<1> DEFINE last == Wrap(end + n)
<1> DEFINE next == Wrap(last + 1)
<1> DEFINE c == Copied(end, src, wraps)
<1>1. /\ LogMax \in Nat /\ LineMax \in Nat /\ LineMax < LogMax /\ n \in 1..(LineMax - 1)
      /\ n \in Nat /\ n + 1 \in 1..LineMax /\ n + 1 < LogMax
  BY LogSizes
<1>2. ring' = [c EXCEPT ![last] = NL, ![next] = NUL] /\ start' = begin /\ end' = next
  BY <1>1 DEF LogCopy
<1>3. LogTypeOK /\ Held /\ (count = 0 => start = 0 /\ end = 0)
  BY DEF LogIInv
<1>4. /\ Used \in 0..(LogMax - 1) /\ Wrap(start + Used) = end
      /\ start \in 0..(LogMax - 1) /\ end \in 0..(LogMax - 1) /\ count \in Nat
  BY <1>3, UsedSize DEF LogTypeOK
<1>5. PICK d \in 0..Used : /\ Start(n + 1) = Wrap(start + d)
                           /\ Used - d + (n + 1) < LogMax
                           /\ d = 0 \/ logged[Len(logged) - Used + d] = NL
                           /\ count > 0 => Used - d > 0
  BY <1>1, StartLeaves
<1> DEFINE v == Used - d
<1>6. /\ d \in Nat /\ d < LogMax /\ v \in Nat /\ v + n + 1 < LogMax
      /\ begin = Wrap(start + d) /\ d + v = Used
  BY <1>1, <1>4, <1>5
<1> HIDE DEF n, begin, v
<1>7. begin \in 0..(LogMax - 1) /\ Wrap(begin + v) = end
  BY <1>1, <1>4, <1>6, LogSizes DEF Wrap
<1> HIDE DEF wraps, last, next, c
<1>8. \A j \in 0..(n + 1) : Wrap(end + j) = Wrap(begin + (v + j))
  <2> SUFFICES ASSUME NEW j \in 0..(n + 1)
               PROVE  Wrap(end + j) = Wrap(begin + (v + j))
    OBVIOUS
  <2>1. j \in Nat /\ v + j <= LogMax /\ v \in 0..LogMax
    BY <1>1, <1>6
  <2>2. Wrap(end + j) = Wrap(begin + v + j)
    BY <1>7, <2>1, WrapAgain
  <2>3. begin + v + j = begin + (v + j)
    BY <1>1, <1>6, <1>7, <2>1
  <2> QED  BY <2>2, <2>3
<1>9. \A k \in 0..(v + n + 1) : /\ k \in 0..(LogMax - 1)
                                /\ Wrap(begin + k) \in 0..(LogMax - 1)
  <2> SUFFICES ASSUME NEW k \in 0..(v + n + 1)
               PROVE  k \in 0..(LogMax - 1) /\ Wrap(begin + k) \in 0..(LogMax - 1)
    OBVIOUS
  <2>1. k \in 0..(LogMax - 1)
    BY <1>1, <1>6
  <2> QED  BY <1>1, <1>7, <2>1 DEF Wrap
<1> USE DEF wraps, last, next, c
<1>10. \A i, k \in 0..(v + n + 1) : i # k => Wrap(begin + i) # Wrap(begin + k)
  BY <1>7, <1>9, WrapApart
<1>11. ~wraps => end + n < LogMax
  <2>1. count = 0 => begin = 0 /\ end = 0
    <3>1. count = 0 => Used = 0
      BY <1>1, <1>3 DEF Used
    <3> QED  BY <1>1, <1>3, <1>5, <1>6, <3>1 DEF Wrap, begin
  <2>2. count > 0 => v > 0
    BY <1>5 DEF v
  <2> QED  BY <1>1, <1>4, <1>6, <1>7, <2>1, <2>2 DEF Wrap
<1>12. /\ last = Wrap(begin + (v + n)) /\ next = Wrap(begin + (v + n + 1))
       /\ last \in 0..(LogMax - 1) /\ next \in 0..(LogMax - 1) /\ last # next
  <2>1. last = Wrap(begin + (v + n)) /\ n \in 0..(n + 1)
    BY <1>1, <1>8
  <2>2. next = Wrap(end + (n + 1))
    BY <1>1, <1>4 DEF Wrap
  <2>3. next = Wrap(begin + (v + (n + 1)))
    BY <1>1, <1>8, <2>2
  <2>4. v + n \in 0..(v + n + 1) /\ v + n + 1 \in 0..(v + n + 1) /\ v + n # v + n + 1
        /\ v + (n + 1) = v + n + 1
    BY <1>1, <1>6
  <2> HIDE DEF last, next
  <2> QED  BY <1>9, <1>10, <2>1, <2>3, <2>4
<1>13. /\ c \in [0..LogMax -> Int]
       /\ \A j \in 0..(n - 1) : c[Wrap(end + j)] = src[j + 1]
       /\ \A q \in 0..(LogMax - 1) : (\A j \in 0..(n - 1) : Wrap(end + j) # q)
             => c[q] = ring[q]
       /\ c[LogMax] = ring[LogMax]
  <2>1. wraps \in BOOLEAN /\ Len(src) < LogMax /\ (~wraps => end + Len(src) < LogMax)
    BY <1>1, <1>11 DEF n
  <2> HIDE DEF wraps
  <2> QED  BY <1>3, <1>4, <2>1, CopiedBytes DEF n
<1> HIDE DEF wraps, last, next, c
<1>14. /\ ring' \in [0..LogMax -> Int]
       /\ ring'[last] = NL /\ ring'[next] = NUL /\ ring'[LogMax] = NUL
       /\ \A q \in 0..(LogMax - 1) : q # last /\ q # next => ring'[q] = c[q]
  <2>1. NL \in Int /\ NUL \in Int /\ ring[LogMax] = NUL /\ LogMax \notin 0..(LogMax - 1)
    BY <1>1, <1>3 DEF NL, NUL, Held
  <2>2. \A q \in 0..(LogMax - 1) : q \in 0..LogMax
    BY <1>1
  <2>3. ring' \in [0..LogMax -> Int]
    BY <1>2, <1>13, <2>1
  <2>4. LogMax \in 0..LogMax /\ last \in 0..LogMax /\ next \in 0..LogMax
    BY <1>1, <1>12
  <2>5. ring'[last] = NL /\ ring'[next] = NUL
    BY <1>2, <1>12, <1>13, <2>4
  <2>6. ring'[LogMax] = NUL
    BY <1>2, <1>12, <1>13, <2>1, <2>4
  <2>7. \A q \in 0..(LogMax - 1) : q # last /\ q # next => ring'[q] = c[q]
    BY <1>2, <1>12, <1>13, <2>2
  <2> QED  BY <2>3, <2>5, <2>6, <2>7
<1>15. ASSUME NEW k \in 0..(v - 1) PROVE Byte(k)' = Byte(d + k)
  <2> DEFINE q == Wrap(begin + k)
  <2>1. /\ k \in 0..(v + n + 1) /\ v + n \in 0..(v + n + 1) /\ v + n + 1 \in 0..(v + n + 1)
        /\ k # v + n /\ k # v + n + 1
    BY <1>1, <1>6
  <2>2. q \in 0..(LogMax - 1) /\ q # last /\ q # next
    BY <1>9, <1>10, <1>12, <2>1
  <2>3. \A j \in 0..(n - 1) : Wrap(end + j) # q
    <3> SUFFICES ASSUME NEW j \in 0..(n - 1) PROVE Wrap(end + j) # q
      OBVIOUS
    <3>1. j \in 0..(n + 1) /\ v + j \in 0..(v + n + 1) /\ v + j # k
      BY <1>1, <1>6
    <3> QED  BY <1>8, <1>10, <2>1, <3>1
  <2>4. q = Wrap(start + (d + k))
    BY <1>1, <1>4, <1>6 DEF Wrap
  <2> HIDE DEF q
  <2>5. ring'[q] = ring[q]
    BY <1>13, <1>14, <2>2, <2>3
  <2> QED  BY <1>2, <2>4, <2>5 DEF Byte, q
<1>16. ASSUME NEW k \in 0..(n - 1) PROVE ring'[Wrap(begin + (v + k))] = src[k + 1]
  <2> DEFINE q == Wrap(begin + (v + k))
  <2>1. /\ k \in 0..(n + 1) /\ v + k \in 0..(v + n + 1)
        /\ v + n \in 0..(v + n + 1) /\ v + n + 1 \in 0..(v + n + 1)
        /\ v + k # v + n /\ v + k # v + n + 1
    BY <1>1, <1>6
  <2>2. q \in 0..(LogMax - 1) /\ q # last /\ q # next
    BY <1>9, <1>10, <1>12, <2>1
  <2>3. q = Wrap(end + k)
    BY <1>8, <2>1
  <2> HIDE DEF q
  <2>4. ring'[q] = src[k + 1]
    BY <1>13, <1>14, <2>2, <2>3
  <2> QED  BY <2>4 DEF q
<1>17. Used' = v + n + 1
  <2>1. Used' = IF next >= begin THEN next - begin ELSE LogMax - begin + next
    BY <1>2 DEF Used
  <2>2. next = Wrap(begin + (v + n + 1)) /\ v + n + 1 \in 0..(LogMax - 1)
    BY <1>1, <1>6, <1>12
  <2> DEFINE w == v + n + 1
  <2> HIDE DEF w
  <2>3. next = Wrap(begin + w) /\ w \in 0..(LogMax - 1)
    BY <2>2 DEF w
  <2>4. Used' = w
    BY <1>1, <1>7, <2>1, <2>3 DEF Wrap
  <2> QED  BY <2>4 DEF w
<1>18. Rolled(d, src)
  BY <1>2, <1>7, <1>12, <1>14, <1>15, <1>16, <1>17 DEF Rolled, v, n
<1> QED  BY <1>5, <1>18

\* A message that fits pk_log's buffer reaches the ring as it is.
LEMMA TextIs ==
  ASSUME NEW k \in Nat \ {0}, NEW n \in Nat \ {0}, n < LineMax, NEW broken \in BOOLEAN, broken => n > 1
  PROVE  /\ Text(k, n, broken) \in Seq(Int) /\ Len(Text(k, n, broken)) = n
         /\ \A i \in 1..n : Text(k, n, broken)[i] # NUL
         /\ Text(k, n, broken)[1] # NL
         /\ Fitted(Text(k, n, broken)) = Text(k, n, broken)
<1> DEFINE text == Text(k, n, broken)
<1>1. text = [i \in 1..n |-> IF broken /\ i = n THEN NL ELSE k]
  BY DEF Text
<1>2. text \in [1..n -> Int] /\ \A i \in 1..n : text[i] # NUL
  BY <1>1 DEF NL, NUL
<1>3. text \in Seq(Int) /\ Len(text) = n
  BY <1>1, <1>2
<1>4. text[1] # NL
  BY <1>1 DEF NL
<1>5. Fitted(text) = text
  <2>1. \A i \in 1..n : i < LineMax
    BY LogSizes
  <2>2. Fitted(text) = [i \in 1..n |-> text[i]]
    BY <1>3, <2>1 DEF Fitted
  <2> QED  BY <1>2, <2>2
<1> QED  BY <1>2, <1>3, <1>4, <1>5

LEMMA LoggedBytes ==
  ASSUME NEW l \in Seq(Int), NEW text \in Seq(Int)
  PROVE  LET all == l \o text \o <<NL>>
         IN  /\ all \in Seq(Int) /\ Len(all) = Len(l) + Len(text) + 1
             /\ \A i \in 1..Len(l) : all[i] = l[i]
             /\ \A i \in 1..Len(text) : all[Len(l) + i] = text[i]
             /\ all[Len(l) + Len(text) + 1] = NL
<1> DEFINE both == l \o text
<1>1. both \in Seq(Int) /\ Len(both) = Len(l) + Len(text)
  BY ConcatProperties
<1>2. \A i \in 1..Len(both) : both[i] = IF i <= Len(l) THEN l[i] ELSE text[i - Len(l)]
  BY ConcatProperties, <1>1
<1>3. <<NL>> \in Seq(Int) /\ Len(<<NL>>) = 1 /\ <<NL>>[1] = NL
  BY DEF NL
<1> DEFINE all == both \o <<NL>>
<1>4. all \in Seq(Int) /\ Len(all) = Len(both) + 1
  BY <1>1, <1>3, ConcatProperties
<1>5. \A i \in 1..Len(all) : all[i] = IF i <= Len(both) THEN both[i] ELSE <<NL>>[i - Len(both)]
  BY <1>1, <1>3, <1>4, ConcatProperties
<1> HIDE DEF both, all
<1>6. Len(l) \in Nat /\ Len(text) \in Nat
  OBVIOUS
<1> DEFINE m == Len(l)
<1> DEFINE n == Len(text)
<1>7. m \in Nat /\ n \in Nat /\ Len(both) = m + n /\ Len(all) = m + n + 1
  BY <1>1, <1>4, <1>6
<1> HIDE DEF m, n
<1>8. \A i \in 1..Len(l) : all[i] = l[i]
  <2> SUFFICES ASSUME NEW i \in 1..m PROVE all[i] = l[i]
    BY DEF m
  <2>1. i \in 1..Len(both) /\ i \in 1..Len(all) /\ i <= Len(both) /\ i <= m
    BY <1>7
  <2> QED  BY <1>2, <1>5, <2>1 DEF m
<1>9. \A i \in 1..Len(text) : all[Len(l) + i] = text[i]
  <2> SUFFICES ASSUME NEW i \in 1..n PROVE all[m + i] = text[i]
    BY DEF m, n
  <2>1. /\ m + i \in 1..Len(both) /\ m + i \in 1..Len(all) /\ m + i <= Len(both)
        /\ ~(m + i <= m) /\ m + i - m = i
    BY <1>7
  <2> QED  BY <1>2, <1>5, <2>1 DEF m
<1>10. all[Len(l) + Len(text) + 1] = NL
  <2>1. /\ Len(both) + 1 \in 1..Len(all) /\ ~(Len(both) + 1 <= Len(both))
        /\ Len(both) + 1 - Len(both) = 1
    BY <1>1, <1>4
  <2> QED  BY <1>1, <1>3, <1>5, <2>1
<1> QED  BY <1>1, <1>4, <1>8, <1>9, <1>10 DEF both, all

-----------------------------------------------------------------------------
LEMMA LogBegins == LogInit => LogIInv
<1> SUFFICES ASSUME LogInit PROVE LogIInv
  OBVIOUS
<1> USE LogSizes DEF LogInit
<1>1. ring \in [0..LogMax -> Int] /\ \A p \in 0..LogMax : ring[p] = NUL
  BY DEF NUL
<1>2. LogTypeOK
  BY <1>1 DEF LogTypeOK
<1>3. Used = 0 /\ Len(logged) = 0
  BY DEF Used
<1>4. Held
  BY <1>1, <1>3 DEF Held
<1> QED  BY <1>2, <1>4 DEF LogIInv

LEMMA LogStep ==
  ASSUME \A n \in LineSizes : n < LineMax, LogIInv, Log
  PROVE  LogIInv'
<1>1. PICK n \in LineSizes, broken \in BOOLEAN :
        /\ broken => n > 1
        /\ count' = count + 1
        /\ LogCopy(Fitted(Text(count + 1, n, broken)))
        /\ logged' = logged \o Text(count + 1, n, broken) \o <<NL>>
  BY DEF Log
<1>2. LogTypeOK /\ Held /\ (count = 0 => start = 0 /\ end = 0 /\ logged = <<>>)
  BY DEF LogIInv
<1>3. count \in Nat /\ n \in Nat \ {0} /\ n < LineMax /\ LineMax \in Nat
  BY <1>2, LogSizes DEF LogTypeOK
<1> DEFINE text == Text(count + 1, n, broken)
<1>4. /\ text \in Seq(Int) /\ Len(text) = n
      /\ \A i \in 1..n : text[i] # NUL
      /\ text[1] # NL /\ Fitted(text) = text
  BY <1>1, <1>3, TextIs
<1> HIDE DEF text
<1>5. LogCopy(text) /\ logged' = logged \o text \o <<NL>>
  BY <1>1, <1>4 DEF text
<1>6. PICK d \in 0..Used : /\ Rolled(d, text)
                           /\ d = 0 \/ logged[Len(logged) - Used + d] = NL
                           /\ count > 0 => Used - d > 0
  BY <1>3, <1>4, <1>5, LogCopyRolls
<1> DEFINE v == Used - d
<1> DEFINE size == Len(logged)
<1>7. /\ logged \in Seq(Int) /\ size \in Nat /\ Used \in Nat /\ Used <= size
      /\ d \in Nat /\ v \in Nat /\ v <= size /\ d + v = Used
  <2>1. logged \in Seq(Int) /\ size \in Nat
    BY <1>2 DEF LogTypeOK
  <2>2. Used \in Nat
    BY <1>2, UsedSize, LogSizes
  <2>3. Used <= size
    BY <1>2 DEF Held
  <2> HIDE DEF size
  <2> QED  BY <1>6, <2>1, <2>2, <2>3
<1>8. /\ logged' \in Seq(Int) /\ Len(logged') = size + n + 1
      /\ \A i \in 1..size : logged'[i] = logged[i]
      /\ \A i \in 1..n : logged'[size + i] = text[i]
      /\ logged'[size + n + 1] = NL
  BY <1>4, <1>5, <1>7, LoggedBytes
<1>9. /\ Used' = v + n + 1
      /\ \A k \in 0..(v - 1) : Byte(k)' = Byte(d + k)
      /\ \A k \in 0..(n - 1) : ring'[Wrap(start' + (v + k))] = text[k + 1]
      /\ ring'[Wrap(start' + (v + n))] = NL
      /\ ring'[end'] = NUL /\ ring'[LogMax] = NUL
  BY <1>4, <1>6 DEF Rolled
<1>10. LogTypeOK'
  BY <1>1, <1>3, <1>6, <1>8 DEF LogTypeOK, Rolled
<1> HIDE DEF v, size
<1>11. ASSUME NEW k \in 0..(Used' - 1)
       PROVE  Byte(k)' = logged'[Len(logged') - Used' + 1 + k]
  <2>0. k \in 0..(v + n) /\ Len(logged') - Used' + 1 + k = size - v + 1 + k
    BY <1>3, <1>7, <1>8, <1>9
  <2>1. CASE k < v
    <3>1. k \in 0..(v - 1) /\ size - v + 1 + k \in 1..size /\ d + k \in 0..(Used - 1)
      BY <1>7, <2>0, <2>1
    <3>2. Byte(k)' = Byte(d + k)
      BY <1>9, <3>1
    <3>3. Byte(d + k) = logged[size - Used + 1 + (d + k)]
      BY <1>2, <3>1 DEF Held, size
    <3>4. size - Used + 1 + (d + k) = size - v + 1 + k
      BY <1>7, <2>0
    <3> QED  BY <1>8, <2>0, <3>1, <3>2, <3>3, <3>4
  <2>2. CASE k >= v /\ k < v + n
    <3> DEFINE j == k - v
    <3>1. j \in 0..(n - 1) /\ k = v + j /\ size - v + 1 + k = size + (j + 1) /\ j + 1 \in 1..n
      BY <1>3, <1>7, <2>0, <2>2
    <3> HIDE DEF j
    <3>2. ring'[Wrap(start' + (v + j))] = text[j + 1]
      BY <1>9, <3>1
    <3> QED  BY <1>8, <2>0, <3>1, <3>2 DEF Byte
  <2>3. CASE k = v + n
    <3>1. size - v + 1 + k = size + n + 1
      BY <1>3, <1>7, <2>0, <2>3
    <3> QED  BY <1>8, <1>9, <2>0, <2>3, <3>1 DEF Byte
  <2> QED  BY <1>3, <1>7, <2>0, <2>1, <2>2, <2>3
<1>12. \A i \in 1..Len(logged') : logged'[i] # NUL
  <2> SUFFICES ASSUME NEW i \in 1..(size + n + 1) PROVE logged'[i] # NUL
    BY <1>8
  <2>1. CASE i \in 1..size
    BY <1>2, <1>8, <2>1 DEF Held, size
  <2>2. CASE i > size /\ i <= size + n
    <3> DEFINE j == i - size
    <3>1. j \in 1..n /\ i = size + j
      BY <1>3, <1>7, <2>2
    <3> HIDE DEF j
    <3> QED  BY <1>4, <1>8, <3>1
  <2>3. CASE i = size + n + 1
    BY <1>8, <2>3 DEF NL, NUL
  <2> QED  BY <1>3, <1>7, <2>1, <2>2, <2>3
<1>13. Held'
  <2>1. Used' <= Len(logged')
    BY <1>3, <1>7, <1>8, <1>9
  <2> QED  BY <1>9, <1>11, <1>12, <2>1 DEF Held
<1>14. Lined(n + 1)'
  <2>1. v = size \/ (size - v \in 1..size /\ logged[size - v] = NL)
    <3>1. CASE d > 0
      <4>1. size - v = size - Used + d /\ size - v \in 1..size
        BY <1>7, <3>1
      <4> QED  BY <1>6, <3>1, <4>1 DEF size
    <3>2. CASE d = 0 /\ count > 0
      <4>1. PICK m \in 1..LineMax : Lined(m)
        BY <3>2 DEF LogIInv
      <4>2. v = Used /\ (Used = size \/ logged[size - Used] = NL)
        BY <1>7, <3>2, <4>1 DEF Lined, size
      <4>3. Used > 0 /\ (Used # size => size - Used \in 1..size)
        BY <1>3, <1>7, <4>1 DEF Lined
      <4> QED  BY <4>2, <4>3
    <3>3. CASE count = 0
      <4>1. size = 0
        BY <1>2, <3>3 DEF size
      <4> QED  BY <1>7, <4>1
    <3> QED  BY <1>3, <1>7, <3>1, <3>2, <3>3
  <2>2. size = 0 \/ (size \in 1..size /\ logged[size] = NL)
    <3>1. CASE count > 0
      <4>1. PICK m \in 1..LineMax : Lined(m)
        BY <3>1 DEF LogIInv
      <4> QED  BY <1>7, <4>1 DEF Lined, size
    <3>2. CASE count = 0
      BY <1>2, <3>2 DEF size
    <3> QED  BY <1>3, <3>1, <3>2
  <2>3. Used' = Len(logged') \/ logged'[Len(logged') - Used'] = NL
    <3>1. Len(logged') - Used' = size - v /\ (v = size => Used' = Len(logged'))
      BY <1>3, <1>7, <1>8, <1>9
    <3> QED  BY <1>8, <2>1, <3>1
  <2>4. n + 1 \in 1..LineMax /\ n + 1 <= Used'
    BY <1>3, <1>7, <1>9
  <2>5. logged'[Len(logged') - (n + 1) + 1] # NL
    <3>1. Len(logged') - (n + 1) + 1 = size + 1 /\ 1 \in 1..n
      BY <1>3, <1>7, <1>8
    <3> QED  BY <1>4, <1>8, <3>1
  <2>6. logged'[Len(logged')] = NL
    BY <1>8
  <2>7. n + 1 = Len(logged') \/ logged'[Len(logged') - (n + 1)] = NL
    <3>1. Len(logged') - (n + 1) = size /\ (size = 0 => n + 1 = Len(logged'))
      BY <1>3, <1>7, <1>8
    <3> QED  BY <1>8, <2>2, <3>1
  <2> QED  BY <2>3, <2>4, <2>5, <2>6, <2>7 DEF Lined
<1>15. n + 1 \in 1..LineMax /\ count' # 0
  BY <1>1, <1>3
<1> QED  BY <1>10, <1>13, <1>14, <1>15 DEF LogIInv

-----------------------------------------------------------------------------
(* What the reader gets.                                                     *)

LEMMA StringIs ==
  ASSUME NEW p \in 0..LogMax, NEW z \in p..LogMax,
         ring[z] = NUL, \A y \in p..(z - 1) : ring[y] # NUL
  PROVE  String(p) = [i \in 1..(z - p) |-> ring[p + i - 1]]
<1> DEFINE ends(y) == ring[y] = NUL /\ \A x \in p..(y - 1) : ring[x] # NUL
<1>1. ends(z) /\ \A y \in p..LogMax : ends(y) => y = z
  BY LogSizes
<1>2. (CHOOSE y \in p..LogMax : ends(y)) = z
  <2> HIDE DEF ends
  <2> QED  BY <1>1
<1> QED  BY <1>2 DEF String

LEMMA SuffixIs ==
  ASSUME NEW c \in Seq(Int), NEW l \in Seq(Int), Len(c) <= Len(l),
         \A i \in 1..Len(c) : c[i] = l[Len(l) - Len(c) + i]
  PROVE  IsSuffix(c, l)
<1> DEFINE m == Len(c)
<1> DEFINE n == Len(l)
<1> DEFINE rc == Reverse(c)
<1> DEFINE rl == Reverse(l)
<1>1. m \in Nat /\ n \in Nat /\ m <= n
  OBVIOUS
<1>2. rc = [i \in 1..m |-> c[m - i + 1]] /\ rl = [i \in 1..n |-> l[n - i + 1]]
  BY DEF Reverse
<1> HIDE DEF m, n, rc, rl
<1>3. \A i \in 1..m : c[i] = l[n - m + i] /\ c[i] \in Int
  BY DEF m, n
<1>4. \A i \in 1..n : l[i] \in Int
  BY DEF n
<1>5. rc \in Seq(Int) /\ Len(rc) = m
  <2>1. \A i \in 1..m : m - i + 1 \in 1..m
    BY <1>1
  <2>2. rc \in [1..m -> Int]
    BY <1>2, <1>3, <2>1
  <2> QED  BY <1>1, <1>2, <2>2
<1>6. rl \in Seq(Int) /\ Len(rl) = n
  <2>1. \A i \in 1..n : n - i + 1 \in 1..n
    BY <1>1
  <2>2. rl \in [1..n -> Int]
    BY <1>2, <1>4, <2>1
  <2> QED  BY <1>1, <1>2, <2>2
<1>7. \A i \in 1..m : rc[i] = rl[i] /\ rc[i] \in Int
  <2> SUFFICES ASSUME NEW i \in 1..m PROVE rc[i] = rl[i] /\ rc[i] \in Int
    OBVIOUS
  <2> DEFINE k == m - i + 1
  <2>1. k \in 1..m /\ i \in 1..n /\ n - i + 1 = n - m + k
    BY <1>1
  <2>2. rc[i] = c[k] /\ rl[i] = l[n - i + 1]
    BY <1>2, <2>1
  <2> HIDE DEF k
  <2> QED  BY <1>3, <2>1, <2>2
<1>8. SubSeq(rc, 1, m) = SubSeq(rl, 1, m)
  <2> DEFINE sc == SubSeq(rc, 1, m)
  <2> DEFINE sl == SubSeq(rl, 1, m)
  <2>1. /\ sc \in Seq(Int) /\ Len(sc) = IF 1 <= m THEN m - 1 + 1 ELSE 0
        /\ \A i \in 1..(m - 1 + 1) : sc[i] = rc[1 + i - 1]
    BY <1>1, <1>7, SubSeqProperties
  <2>2. \A i \in 1..m : rl[i] \in Int
    BY <1>7
  <2>3. /\ sl \in Seq(Int) /\ Len(sl) = IF 1 <= m THEN m - 1 + 1 ELSE 0
        /\ \A i \in 1..(m - 1 + 1) : sl[i] = rl[1 + i - 1]
    BY <1>1, <2>2, SubSeqProperties
  <2> HIDE DEF sc, sl
  <2>4. Len(sc) = m /\ Len(sl) = m
    BY <1>1, <2>1, <2>3
  <2>5. \A i \in 1..m : sc[i] = rc[i] /\ sl[i] = rl[i]
    <3> SUFFICES ASSUME NEW i \in 1..m PROVE sc[i] = rc[i] /\ sl[i] = rl[i]
      OBVIOUS
    <3>1. i \in 1..(m - 1 + 1) /\ 1 + i - 1 = i
      BY <1>1
    <3> QED  BY <2>1, <2>3, <3>1
  <2>6. \A i \in 1..Len(sc) : sc[i] = sl[i]
    BY <1>7, <2>4, <2>5
  <2>7. sc = sl
    BY <2>1, <2>3, <2>4, <2>6, SeqEqual
  <2> QED  BY <2>7 DEF sc, sl
<1>9. IsPrefix(rc, rl)
  BY <1>1, <1>5, <1>6, <1>8 DEF IsPrefix
<1> QED  BY <1>9 DEF IsSuffix, rc, rl

\* The reader finds the bytes between the ring's start and its end.
LEMMA CopyIsUsed ==
  ASSUME LogTypeOK, Held
  PROVE  /\ CopyLog \in Seq(Int) /\ Len(CopyLog) = Used
         /\ \A i \in 1..Used : CopyLog[i] = Byte(i - 1)
<1>1. /\ LogMax \in Nat /\ start \in 0..(LogMax - 1) /\ end \in 0..(LogMax - 1)
      /\ ring \in [0..LogMax -> Int] /\ Used \in 0..(LogMax - 1)
  BY LogSizes, UsedSize DEF LogTypeOK
<1>2. \A k \in 0..(Used - 1) : Byte(k) # NUL
  <2> SUFFICES ASSUME NEW k \in 0..(Used - 1) PROVE Byte(k) # NUL
    OBVIOUS
  <2>1. Len(logged) \in Nat /\ Used <= Len(logged)
    BY DEF LogTypeOK, Held
  <2> DEFINE i == Len(logged) - Used + 1 + k
  <2>2. i \in 1..Len(logged)
    BY <1>1, <2>1
  <2>3. Byte(k) = logged[i]
    BY DEF Held
  <2> HIDE DEF i
  <2> QED  BY <2>2, <2>3 DEF Held
<1>3. CASE end >= start
  <2>1. Used = end - start
    BY <1>3 DEF Used
  <2>2. \A y \in start..(end - 1) : ring[y] # NUL
    <3> SUFFICES ASSUME NEW y \in start..(end - 1) PROVE ring[y] # NUL
      OBVIOUS
    <3> DEFINE k == y - start
    <3>1. k \in 0..(Used - 1) /\ Wrap(start + k) = y
      BY <1>1, <2>1 DEF Wrap
    <3> HIDE DEF k
    <3> QED  BY <1>2, <3>1 DEF Byte
  <2>3. ring[end] = NUL /\ start \in 0..LogMax /\ end \in start..LogMax
    BY <1>1, <1>3 DEF Held
  <2>4. String(start) = [i \in 1..Used |-> ring[start + i - 1]]
    BY <2>1, <2>2, <2>3, StringIs
  <2>5. \A i \in 1..Used : start + i - 1 \in 0..LogMax /\ Wrap(start + (i - 1)) = start + i - 1
    BY <1>1, <2>1 DEF Wrap
  <2>6. String(start) \in [1..Used -> Int]
    BY <1>1, <2>4, <2>5
  <2>7. String(start) \in Seq(Int) /\ Len(String(start)) = Used
    <3>1. Used \in Nat
      BY <1>1
    <3> QED  BY <2>4, <2>6, <3>1
  <2>8. ~(end < start)
    BY <1>1, <1>3
  <2>9. CopyLog = String(start)
    BY <2>7, <2>8, ConcatEmptySeq DEF CopyLog
  <2> QED  BY <2>4, <2>5, <2>7, <2>9 DEF Byte
<1>4. CASE end < start
  <2> DEFINE a == LogMax - start
  <2>1. Used = a + end /\ a \in Nat /\ end \in Nat /\ a <= LogMax
    BY <1>1, <1>4 DEF Used
  <2>2. \A y \in start..(LogMax - 1) : ring[y] # NUL
    <3> SUFFICES ASSUME NEW y \in start..(LogMax - 1) PROVE ring[y] # NUL
      OBVIOUS
    <3> DEFINE k == y - start
    <3>1. k \in 0..(Used - 1) /\ Wrap(start + k) = y
      BY <1>1, <2>1 DEF Wrap
    <3> HIDE DEF k
    <3> QED  BY <1>2, <3>1 DEF Byte
  <2>3. \A y \in 0..(end - 1) : ring[y] # NUL
    <3> SUFFICES ASSUME NEW y \in 0..(end - 1) PROVE ring[y] # NUL
      OBVIOUS
    <3> DEFINE k == a + y
    <3>1. k \in 0..(Used - 1) /\ Wrap(start + k) = y
      BY <1>1, <1>4, <2>1 DEF Wrap
    <3> HIDE DEF k
    <3> QED  BY <1>2, <3>1 DEF Byte
  <2>4. String(start) = [i \in 1..a |-> ring[start + i - 1]]
    <3>1. ring[LogMax] = NUL /\ start \in 0..LogMax /\ LogMax \in start..LogMax
      BY <1>1 DEF Held
    <3> QED  BY <2>2, <3>1, StringIs
  <2>5. String(0) = [i \in 1..end |-> ring[0 + i - 1]]
    <3>1. ring[end] = NUL /\ 0 \in 0..LogMax /\ end \in 0..LogMax /\ end - 0 = end
      BY <1>1 DEF Held
    <3>2. String(0) = [i \in 1..(end - 0) |-> ring[0 + i - 1]]
      BY <2>3, <3>1, StringIs
    <3> QED  BY <3>1, <3>2
  <2> HIDE DEF a
  <2>6. \A i \in 1..a : start + i - 1 \in 0..LogMax /\ Wrap(start + (i - 1)) = start + i - 1
    BY <1>1, <2>1 DEF Wrap, a
  <2>7. \A i \in 1..end : 0 + i - 1 \in 0..LogMax /\ Wrap(start + (a + i - 1)) = 0 + i - 1
    BY <1>1, <2>1 DEF Wrap, a
  <2>8. String(start) \in Seq(Int) /\ Len(String(start)) = a
    <3>1. String(start) \in [1..a -> Int]
      BY <1>1, <2>4, <2>6
    <3> QED  BY <2>1, <2>4, <3>1
  <2>9. String(0) \in Seq(Int) /\ Len(String(0)) = end
    <3>1. String(0) \in [1..end -> Int]
      BY <1>1, <2>5, <2>7
    <3> QED  BY <2>1, <2>5, <3>1
  <2>10. CopyLog = String(start) \o String(0)
    BY <1>4 DEF CopyLog
  <2>11. /\ CopyLog \in Seq(Int) /\ Len(CopyLog) = a + end
         /\ \A i \in 1..(a + end) :
              CopyLog[i] = IF i <= a THEN String(start)[i] ELSE String(0)[i - a]
    BY <2>8, <2>9, <2>10, ConcatProperties
  <2>12. ASSUME NEW i \in 1..Used PROVE CopyLog[i] = Byte(i - 1)
    <3>1. CASE i <= a
      <4>1. i \in 1..a /\ i \in 1..(a + end)
        BY <2>1, <3>1
      <4>2. CopyLog[i] = ring[start + i - 1]
        BY <2>4, <2>11, <3>1, <4>1
      <4> QED  BY <2>6, <4>1, <4>2 DEF Byte
    <3>2. CASE i > a
      <4> DEFINE j == i - a
      <4>1. j \in 1..end /\ i \in 1..(a + end) /\ i = a + j /\ ~(i <= a)
        BY <2>1, <3>2
      <4>2. CopyLog[i] = String(0)[j]
        BY <2>11, <4>1
      <4> HIDE DEF j
      <4>3. CopyLog[i] = ring[0 + j - 1]
        BY <2>5, <4>1, <4>2
      <4>4. i - 1 = a + j - 1
        BY <2>1, <4>1
      <4>5. Wrap(start + (i - 1)) = 0 + j - 1
        BY <2>7, <4>1, <4>4
      <4> QED  BY <4>3, <4>5 DEF Byte
    <3> QED  BY <2>1, <3>1, <3>2
  <2> QED  BY <2>1, <2>11, <2>12
<1> QED  BY <1>1, <1>3, <1>4

LEMMA TailFollows == LogIInv => LogIsTail
<1> SUFFICES ASSUME LogIInv PROVE LogIsTail
  OBVIOUS
<1>1. LogTypeOK /\ Held /\ (count > 0 => \E m \in 1..LineMax : Lined(m))
  BY DEF LogIInv
<1> DEFINE c == CopyLog
<1> DEFINE before == Len(logged) - Len(c)
<1>2. /\ c \in Seq(Int) /\ Len(c) = Used
      /\ \A i \in 1..Used : c[i] = Byte(i - 1)
  BY <1>1, CopyIsUsed
<1>3. /\ Used \in Nat /\ logged \in Seq(Int) /\ Len(logged) \in Nat /\ Used <= Len(logged)
      /\ LineMax \in Nat
  <2>1. Used \in Nat
    BY <1>1, UsedSize, LogSizes
  <2> QED  BY <1>1, <2>1, LogSizes DEF LogTypeOK, Held
<1> HIDE DEF c
<1>4. \A i \in 1..Used : c[i] = logged[Len(logged) - Used + i]
  <2> SUFFICES ASSUME NEW i \in 1..Used PROVE c[i] = logged[Len(logged) - Used + i]
    OBVIOUS
  <2> DEFINE k == i - 1
  <2>1. k \in 0..(Used - 1) /\ Len(logged) - Used + 1 + k = Len(logged) - Used + i
    BY <1>3
  <2>2. c[i] = Byte(k)
    BY <1>2
  <2> HIDE DEF k
  <2> QED  BY <1>1, <2>1, <2>2 DEF Held
<1>5. IsSuffix(c, logged)
  BY <1>2, <1>3, <1>4, SuffixIs
<1>6. ASSUME count > 0 PROVE c # <<>> /\ (before = 0 \/ logged[before] = NL)
  <2>1. PICK m \in 1..LineMax : Lined(m)
    BY <1>1, <1>6
  <2>2. Len(c) > 0 /\ before = Len(logged) - Used
    BY <1>2, <1>3, <2>1 DEF Lined
  <2>3. before = 0 \/ logged[before] = NL
    BY <1>3, <2>1, <2>2, SMTT(20) DEF Lined
  <2> QED  BY <2>2, <2>3
<1> QED  BY <1>5, <1>6 DEF LogIsTail, c

-----------------------------------------------------------------------------
\* While messages fit pk_log's buffer, pagekite_get_log returns the end of what
\* was logged: whole lines, the last message included, however often pks_logcopy
\* has come round the ring.  (A longer message leaves a NUL in the ring, which
\* hides what follows it from the reader.)
THEOREM LogKept ==
  (\A n \in LineSizes : n < LineMax) => (LogSpec => []LogIsTail)
<1> SUFFICES ASSUME \A n \in LineSizes : n < LineMax PROVE LogSpec => []LogIsTail
  OBVIOUS
<1>1. LogIInv /\ [LogNext]_logVars => LogIInv'
  <2> SUFFICES ASSUME LogIInv, [LogNext]_logVars PROVE LogIInv'
    OBVIOUS
  <2>1. CASE Log
    BY <2>1, LogStep
  <2>2. CASE UNCHANGED logVars
    BY <2>2 DEF logVars, LogIInv, LogTypeOK, Held, Lined, Used, Byte, Wrap
  <2> QED  BY <2>1, <2>2 DEF LogNext
<1> QED  BY <1>1, LogBegins, TailFollows, PTL DEF LogSpec

-----------------------------------------------------------------------------
\* Induction, for sets of numbers.
LEMMA Induct ==
  ASSUME NEW T \in SUBSET Nat, 0 \in T, \A n \in T : n + 1 \in T
  PROVE  T = Nat
<1> SUFFICES ASSUME Nat \ T # {} PROVE FALSE
  OBVIOUS
<1>1. PICK n \in Nat \ T : \A m \in Nat \ T : n <= m
  <2>1. Nat \ T \in SUBSET Nat
    OBVIOUS
  <2> QED BY <2>1, Least
<1>2. n # 0 /\ n - 1 \in Nat /\ n - 1 \in T
  BY <1>1
<1> QED BY <1>2

(* The dictionary: counting entries.                                         *)

\* What is added, the places of a table, and how many of some of them hold one of E.
Pairs == [key : Keys, val : Vals]
Places(d) == 0..(2^d.bits - 1)
Among(f, S, E) == Cardinality({j \in S : f[j] \in E})
In(x, E) == IF x \in E THEN 1 ELSE 0

\* An entry is empty, or it holds a pair.
LEMMA EmptyIsNoPair ==
  ASSUME NEW x \in Pairs \cup {Empty}
  PROVE  /\ x.key = Empty.key <=> x = Empty
         /\ x \in Pairs <=> x # Empty
         /\ x \in Pairs => x.key \in Keys /\ x.val \in Vals /\ x.key # Empty.key
         /\ \A k \in Keys : x.key = k => x \in Pairs
         /\ \A v \in Vals : x.val = v => x \in Pairs
<1>1. CASE x = Empty
  <2>1. \A y \in Pairs : y.key \in Keys
    BY DEF Pairs
  <2>2. x \notin Pairs
    BY <1>1, <2>1, NoneIsNone
  <2>3. x.val = NoVal
    BY <1>1 DEF Empty
  <2> QED  BY <1>1, <2>2, <2>3, NoneIsNone
<1>2. CASE x \in Pairs
  <2>1. x.key \in Keys /\ x.val \in Vals
    BY <1>2 DEF Pairs
  <2>2. x.key # Empty.key
    BY <2>1, NoneIsNone
  <2> QED  BY <1>2, <2>1, <2>2
<1> QED  BY <1>1, <1>2

\* A number.
LEMMA AmongIsNat ==
  ASSUME NEW f, NEW S, IsFiniteSet(S), NEW E
  PROVE  Among(f, S, E) \in Nat /\ IsFiniteSet({j \in S : f[j] \in E})
<1>1. IsFiniteSet({j \in S : f[j] \in E})
  BY FS_Subset
<1> QED  BY <1>1, FS_CardinalityType DEF Among

\* One place more.
LEMMA AmongMore ==
  ASSUME NEW f, NEW S, IsFiniteSet(S), NEW E, NEW j, j \notin S
  PROVE  Among(f, S \cup {j}, E) = Among(f, S, E) + In(f[j], E)
<1> DEFINE T == {i \in S : f[i] \in E}
<1>1. IsFiniteSet(T) /\ Cardinality(T) \in Nat /\ j \notin T
  BY AmongIsNat DEF Among
<1>2. CASE f[j] \in E
  <2>1. {i \in S \cup {j} : f[i] \in E} = T \cup {j}
    BY <1>2
  <2>2. Cardinality(T \cup {j}) = Cardinality(T) + 1
    BY <1>1, FS_AddElement
  <2> QED  BY <2>1, <2>2, <1>2 DEF Among, In
<1>3. CASE f[j] \notin E
  <2>1. {i \in S \cup {j} : f[i] \in E} = T
    BY <1>3
  <2> HIDE DEF T
  <2>2. Cardinality(T) = Cardinality(T) + 0
    BY <1>1
  <2> QED  BY <2>1, <2>2, <1>3 DEF Among, In, T
<1> QED  BY <1>2, <1>3

\* One place written.
LEMMA AmongPut ==
  ASSUME NEW f, NEW S, IsFiniteSet(S), S \subseteq DOMAIN f, NEW E, NEW j \in S, NEW x
  PROVE  Among([f EXCEPT ![j] = x], S, E) = Among(f, S, E) - In(f[j], E) + In(x, E)
<1> DEFINE g == [f EXCEPT ![j] = x]
           R == S \ {j}
<1>1. IsFiniteSet(R) /\ j \notin R /\ S = R \cup {j}
  BY FS_Subset
<1>2. Among(g, R, E) = Among(f, R, E)
  <2>1. \A i \in R : g[i] = f[i]
    OBVIOUS
  <2>2. {i \in R : g[i] \in E} = {i \in R : f[i] \in E}
    BY <2>1
  <2> QED  BY <2>2 DEF Among
<1>3. g[j] = x
  OBVIOUS
<1> HIDE DEF g, R
<1>4. Among(g, S, E) = Among(g, R, E) + In(x, E)
  BY <1>1, <1>3, AmongMore
<1>5. Among(f, S, E) = Among(f, R, E) + In(f[j], E)
  BY <1>1, AmongMore
<1>6. Among(f, R, E) \in Nat /\ In(x, E) \in Nat /\ In(f[j], E) \in Nat
  BY <1>1, AmongIsNat DEF In
<1>7. Among(g, S, E) = Among(f, S, E) - In(f[j], E) + In(x, E)
  BY ONLY <1>2, <1>4, <1>5, <1>6
<1> QED  BY <1>7 DEF g

-----------------------------------------------------------------------------
(* The dictionary: what holds of a table.                                    *)

\* Its fields; d is a record of them.
Table(d) ==
  /\ d = [bits |-> d.bits, entries |-> d.entries, shrink_at |-> d.shrink_at,
          count |-> d.count]
  /\ d.bits \in MinBits..MaxBits
  /\ d.entries \in [Places(d) -> Pairs \cup {Empty}]
  /\ d.shrink_at \in Int
  /\ d.count \in Nat

\* How many entries hold a pair of E.
Copies(d, E) == Among(d.entries, Places(d), E)

\* Every key is in its own bucket, and the count is that of the entries in use.
Homed(d) ==
  \A j \in Places(d) : d.entries[j] # Empty =>
     \E i \in 0..(MaxBucket - 1) : j = Nth(d, d.entries[j].key, i)

Sound(d) == Table(d) /\ Homed(d) /\ d.count = Copies(d, Pairs)

\* Two tables hold the same pairs, each as often.
SameBag(d, e) == \A E \in SUBSET Pairs : Copies(d, E) = Copies(e, E)

\* Tables have places.
LEMMA PlacesAre ==
  ASSUME NEW d, d.bits \in MinBits..MaxBits
  PROVE  /\ 2^d.bits \in Nat /\ 2^d.bits > 0
         /\ IsFiniteSet(Places(d))
         /\ Places(d) \subseteq Nat
<1>1. 2^d.bits \in Nat /\ 2^d.bits > 0
  BY DictSizes
<1> DEFINE m == 2^d.bits - 1
<1>2. m \in Int /\ 0 \in Int
  BY <1>1
<1>3. IsFiniteSet(0..m)
  <2> HIDE DEF m
  <2> QED  BY <1>2, FS_Interval
<1>4. 0..m \subseteq Nat
  <2> HIDE DEF m
  <2> QED  OBVIOUS
<1> QED  BY <1>1, <1>3, <1>4 DEF Places

\* A bucket is part of the table.
LEMMA NthIsPlace ==
  ASSUME NEW d, d.bits \in MinBits..MaxBits, NEW k \in Keys, NEW i \in 0..(MaxBucket - 1)
  PROVE  Nth(d, k, i) \in Places(d)
<1> DEFINE n == 2^d.bits
           h == Home(k, d.bits)
<1>1. n \in Nat /\ n > 0
  BY PlacesAre
<1>2. h \in 0..(n - 1)
  BY DictSizes
<1>3. i \in Nat
  BY DictSizes
<1> HIDE DEF n, h
<1>4. (h + i) % n \in 0..(n - 1)
  <2>1. h + i \in Int
    BY <1>1, <1>2, <1>3
  <2> QED  BY <1>1, <2>1
<1> QED  BY <1>4 DEF n, h, Nth, Places

\* What a search ends at.
LEMMA ClosestIs ==
  ASSUME NEW d, Table(d), NEW k \in Keys, NEW key, Where(d, k, key) # {}
  PROVE  /\ Closest(d, k, key) \in Places(d)
         /\ d.entries[Closest(d, k, key)].key = key
         /\ \E i \in 0..(MaxBucket - 1) : Closest(d, k, key) = Nth(d, k, i)
<1> DEFINE W == Where(d, k, key)
           c == CHOOSE i \in W : \A j \in W : i <= j
<1>1. W \in SUBSET Nat /\ W # {}
  BY DictSizes DEF Where
<1>2. \E i \in W : \A j \in W : i <= j
  <2> HIDE DEF W
  <2> QED  BY <1>1, Least
<1>3. c \in W
  <2> HIDE DEF W
  <2> QED  BY <1>2
<1>4. Closest(d, k, key) = Nth(d, k, c)
  BY DEF Closest
<1> HIDE DEF c
<1>5. c \in 0..(MaxBucket - 1) /\ d.entries[Nth(d, k, c)].key = key
  BY <1>3 DEF Where
<1>6. Nth(d, k, c) \in Places(d)
  BY <1>5, NthIsPlace DEF Table
<1> QED  BY <1>4, <1>5, <1>6

\* Two tables that have as many bits have the same buckets.
LEMMA SameBuckets ==
  ASSUME NEW d, NEW e, d.bits = e.bits
  PROVE  Places(d) = Places(e) /\ \A k, i : Nth(d, k, i) = Nth(e, k, i)
BY DEF Places, Nth

\* One entry of a table is written: with another pair, or none.
LEMMA WrittenIs ==
  ASSUME NEW d, Table(d), Homed(d), NEW j \in Places(d), NEW x \in Pairs \cup {Empty},
         x # Empty => \E i \in 0..(MaxBucket - 1) : j = Nth(d, x.key, i),
         NEW e, e = [bits |-> d.bits, entries |-> [d.entries EXCEPT ![j] = x],
                     shrink_at |-> e.shrink_at, count |-> e.count],
         e.shrink_at \in Int, e.count \in Nat
  PROVE  /\ Table(e) /\ Homed(e) /\ e.bits = d.bits /\ Places(e) = Places(d)
         /\ \A E : Copies(e, E) = Copies(d, E) - In(d.entries[j], E) + In(x, E)
<1> DEFINE f == d.entries
           g == [f EXCEPT ![j] = x]
<1>1. e.bits = d.bits /\ e.entries = g
  OBVIOUS
<1>2. Places(e) = Places(d) /\ \A k, i : Nth(e, k, i) = Nth(d, k, i)
  BY <1>1, SameBuckets
<1>3. f \in [Places(d) -> Pairs \cup {Empty}] /\ d.bits \in MinBits..MaxBits
  BY DEF Table
<1>4. g \in [Places(d) -> Pairs \cup {Empty}]
  BY <1>3
<1>5. \A i \in Places(d) : g[i] = IF i = j THEN x ELSE f[i]
  BY <1>3
<1> HIDE DEF f, g
<1>6. Table(e)
  <2>1. e = [bits |-> e.bits, entries |-> e.entries, shrink_at |-> e.shrink_at,
             count |-> e.count]
    BY <1>1 DEF g, f
  <2> QED  BY <2>1, <1>1, <1>2, <1>3, <1>4 DEF Table
<1>7. Homed(e)
  <2> SUFFICES ASSUME NEW p \in Places(d), g[p] # Empty
               PROVE  \E i \in 0..(MaxBucket - 1) : p = Nth(d, g[p].key, i)
    BY <1>1, <1>2 DEF Homed
  <2>1. CASE p = j
    BY <2>1, <1>5
  <2>2. CASE p # j
    <3>1. g[p] = f[p]
      BY <2>2, <1>5
    <3> QED  BY <3>1 DEF Homed, f
  <2> QED  BY <2>1, <2>2
<1>8. ASSUME NEW E PROVE Copies(e, E) = Copies(d, E) - In(f[j], E) + In(x, E)
  <2>1. IsFiniteSet(Places(d)) /\ Places(d) \subseteq DOMAIN f
    BY <1>3, PlacesAre
  <2>2. Among(g, Places(d), E) = Among(f, Places(d), E) - In(f[j], E) + In(x, E)
    BY <2>1, AmongPut DEF g
  <2> QED  BY <2>2, <1>1, <1>2 DEF Copies, f
<1> QED  BY <1>1, <1>2, <1>6, <1>7, <1>8 DEF f

\* How many is a number.
LEMMA CopiesAreNat ==
  ASSUME NEW d, Table(d), NEW E
  PROVE  Copies(d, E) \in Nat
<1>1. IsFiniteSet(Places(d))
  BY PlacesAre DEF Table
<1> QED  BY <1>1, AmongIsNat DEF Copies

\* Adding where there is room: one pair more, in its bucket.
LEMMA PutIsSound ==
  ASSUME NEW d, Sound(d), NEW k \in Keys, NEW v \in Vals, Room(d, k)
  PROVE  /\ Sound(Put(d, k, v))
         /\ Put(d, k, v).bits = d.bits /\ Put(d, k, v).count = d.count + 1
         /\ \A E \in SUBSET Pairs :
              Copies(Put(d, k, v), E) = Copies(d, E) + In([key |-> k, val |-> v], E)
<1> DEFINE j == Closest(d, k, Empty.key)
           x == [key |-> k, val |-> v]
           e == Put(d, k, v)
<1>0. Table(d) /\ Homed(d) /\ d.count = Copies(d, Pairs)
  BY DEF Sound
<1>1. j \in Places(d) /\ d.entries[j].key = Empty.key
      /\ \E i \in 0..(MaxBucket - 1) : j = Nth(d, k, i)
  BY <1>0, ClosestIs DEF Room
<1>2. d.entries[j] = Empty /\ d.entries[j] \notin Pairs
  BY <1>0, <1>1, EmptyIsNoPair DEF Table
<1>3. x \in Pairs /\ x.key = k
  BY DEF Pairs
<1>4. e = [bits |-> d.bits, entries |-> [d.entries EXCEPT ![j] = x],
           shrink_at |-> d.shrink_at, count |-> d.count + 1]
  <2> DEFINE b == d.bits
             f == d.entries
             s == d.shrink_at
             c == d.count
  <2>1. d = [bits |-> b, entries |-> f, shrink_at |-> s, count |-> c]
    BY <1>0 DEF Table
  <2>2. e = [d EXCEPT !.entries[j] = x, !.count = @ + 1]
    BY DEF Put, Pair
  <2> HIDE DEF e, j, x, b, f, s, c
  <2>3. e = [bits |-> b, entries |-> [f EXCEPT ![j] = x], shrink_at |-> s, count |-> c + 1]
    BY <2>1, <2>2
  <2> QED  BY <2>3 DEF b, f, s, c
<1>5. e.count = d.count + 1 /\ e.shrink_at = d.shrink_at /\ e.bits = d.bits
  <2> HIDE DEF e
  <2> QED  BY <1>4
<1>6. e.count \in Nat /\ e.shrink_at \in Int /\ d.count \in Nat
  BY <1>0, <1>5 DEF Table
<1>7. e = [bits |-> d.bits, entries |-> [d.entries EXCEPT ![j] = x],
           shrink_at |-> e.shrink_at, count |-> e.count]
  BY <1>4, <1>5
<1> HIDE DEF e, j, x
<1>8. /\ Table(e) /\ Homed(e)
      /\ \A E : Copies(e, E) = Copies(d, E) - In(d.entries[j], E) + In(x, E)
  BY <1>0, <1>1, <1>3, <1>6, <1>7, WrittenIs
<1>9. ASSUME NEW E \in SUBSET Pairs PROVE Copies(e, E) = Copies(d, E) + In(x, E)
  <2>1. In(d.entries[j], E) = 0
    BY <1>2 DEF In
  <2>2. Copies(d, E) \in Nat
    BY <1>0, CopiesAreNat
  <2> QED  BY <1>8, <2>1, <2>2
<1>10. e.count = Copies(e, Pairs)
  <2>1. In(x, Pairs) = 1
    BY <1>3 DEF In
  <2> QED  BY <1>0, <1>5, <1>9, <2>1
<1> QED  BY <1>5, <1>8, <1>9, <1>10 DEF Sound, e, x

\* Removing: one pair less.
LEMMA WithoutIsSound ==
  ASSUME NEW d, Sound(d), NEW j \in Places(d), d.entries[j] \in Pairs
  PROVE  /\ Sound(Without(d, j)) /\ Without(d, j).bits = d.bits
         /\ Without(d, j).entries = [d.entries EXCEPT ![j] = Empty]
         /\ \A E \in SUBSET Pairs :
              Copies(Without(d, j), E) = Copies(d, E) - In(d.entries[j], E)
<1> DEFINE e == Without(d, j)
<1>0. Table(d) /\ Homed(d) /\ d.count = Copies(d, Pairs)
  BY DEF Sound
<1>1. e = [bits |-> d.bits, entries |-> [d.entries EXCEPT ![j] = Empty],
           shrink_at |-> d.shrink_at, count |-> d.count - 1]
  <2> DEFINE b == d.bits
             f == d.entries
             s == d.shrink_at
             c == d.count
  <2>1. d = [bits |-> b, entries |-> f, shrink_at |-> s, count |-> c]
    BY <1>0 DEF Table
  <2>2. e = [d EXCEPT !.entries[j] = Empty, !.count = @ - 1]
    BY DEF Without
  <2> HIDE DEF e, b, f, s, c
  <2>3. e = [bits |-> b, entries |-> [f EXCEPT ![j] = Empty], shrink_at |-> s,
             count |-> c - 1]
    BY <2>1, <2>2
  <2> QED  BY <2>3 DEF b, f, s, c
<1>2. e.count = d.count - 1 /\ e.shrink_at = d.shrink_at /\ e.bits = d.bits
      /\ e.entries = [d.entries EXCEPT ![j] = Empty]
  <2> HIDE DEF e
  <2> QED  BY <1>1
<1>3. d.count \in Nat /\ d.shrink_at \in Int
  BY <1>0 DEF Table
<1>4. d.count > 0
  <2> DEFINE T == {i \in Places(d) : d.entries[i] \in Pairs}
  <2>1. IsFiniteSet(Places(d))
    BY <1>0, PlacesAre DEF Table
  <2>2. IsFiniteSet(T) /\ d.count = Cardinality(T)
    BY <1>0, <2>1, AmongIsNat DEF Copies, Among
  <2>3. j \in T
    OBVIOUS
  <2> HIDE DEF T
  <2>4. Cardinality(T) # 0
    BY <2>2, <2>3, FS_EmptySet
  <2> QED  BY <2>2, <2>4, <1>3
<1>5. e.count \in Nat /\ e.shrink_at \in Int
  BY <1>2, <1>3, <1>4
<1>6. e = [bits |-> d.bits, entries |-> [d.entries EXCEPT ![j] = Empty],
           shrink_at |-> e.shrink_at, count |-> e.count]
  BY <1>1, <1>2
<1> HIDE DEF e
<1>7. /\ Table(e) /\ Homed(e)
      /\ \A E : Copies(e, E) = Copies(d, E) - In(d.entries[j], E) + In(Empty, E)
  BY <1>0, <1>5, <1>6, WrittenIs
<1>8. ASSUME NEW E \in SUBSET Pairs
      PROVE  Copies(e, E) = Copies(d, E) - In(d.entries[j], E)
  <2>1. In(Empty, E) = 0
    BY EmptyIsNoPair DEF In
  <2>2. Copies(d, E) \in Nat /\ In(d.entries[j], E) \in Nat
    BY <1>0, CopiesAreNat DEF In
  <2> QED  BY <1>7, <2>1, <2>2
<1>9. e.count = Copies(e, Pairs)
  <2>1. In(d.entries[j], Pairs) = 1
    BY DEF In
  <2> QED  BY <1>0, <1>2, <1>8, <2>1
<1> QED  BY <1>2, <1>7, <1>8, <1>9 DEF Sound, e

\* A new table has nothing in it.
LEMMA SizedIsSound ==
  ASSUME NEW b \in MinBits..MaxBits
  PROVE  /\ Sound(Sized(b)) /\ Sized(b).bits = b
         /\ \A E \in SUBSET Pairs : Copies(Sized(b), E) = 0
<1> DEFINE d == Sized(b)
           n == 2^b
<1>1. d = [bits |-> b, entries |-> [i \in 0..(n - 1) |-> Empty],
           shrink_at |-> n \div ShrinkPart, count |-> 0]
  BY DEF Sized
<1>2. n \in Nat
  BY DictSizes
<1>3. n \div ShrinkPart \in Int
  <2> HIDE DEF n
  <2> QED  BY <1>2, DictSizes
<1> HIDE DEF d, n
<1>4. /\ d.bits = b /\ d.entries = [i \in 0..(n - 1) |-> Empty]
      /\ d.shrink_at = n \div ShrinkPart /\ d.count = 0
  BY <1>1
<1>5. Places(d) = 0..(n - 1)
  BY <1>4 DEF Places, n
<1>6. \A i \in Places(d) : d.entries[i] = Empty
  BY <1>4, <1>5
<1>7. Table(d) /\ Homed(d)
  <2>1. d = [bits |-> d.bits, entries |-> d.entries, shrink_at |-> d.shrink_at,
             count |-> d.count]
    BY <1>1, <1>4
  <2>2. d.entries \in [Places(d) -> Pairs \cup {Empty}]
    BY <1>4, <1>5
  <2>3. Table(d)
    BY <1>3, <1>4, <2>1, <2>2 DEF Table
  <2>4. Homed(d)
    BY <1>6 DEF Homed
  <2> QED  BY <2>3, <2>4
<1>8. ASSUME NEW E \in SUBSET Pairs PROVE Copies(d, E) = 0
  <2>1. {i \in Places(d) : d.entries[i] \in E} = {}
    BY <1>6, EmptyIsNoPair
  <2> QED  BY <2>1, FS_EmptySet DEF Copies, Among
<1> QED  BY <1>4, <1>7, <1>8 DEF Sound, d

-----------------------------------------------------------------------------
(* The dictionary: rebuilding it.                                            *)

\* g lists what the new table is after each of the first n entries of d.
Rebuilding(g, d, bits, n) ==
  g = [m \in 0..n |-> IF m = 0 THEN [d |-> Sized(bits), failed |-> FALSE]
                      ELSE Reinsert(g[m - 1], d.entries[m - 1])]

\* There is such a list.
LEMMA RebuildingExists ==
  ASSUME NEW d, NEW bits, NEW n \in Nat
  PROVE  \E g : Rebuilding(g, d, bits, n)
<1> DEFINE T == {m \in Nat : \E g : Rebuilding(g, d, bits, m)}
           z == [d |-> Sized(bits), failed |-> FALSE]
<1> HIDE DEF z
<1>1. 0 \in T
  <2> DEFINE h == [m \in 0..0 |-> z]
  <2>1. h = [m \in 0..0 |-> IF m = 0 THEN z ELSE Reinsert(h[m - 1], d.entries[m - 1])]
    OBVIOUS
  <2> HIDE DEF h
  <2> QED  BY <2>1 DEF Rebuilding, z
<1>2. ASSUME NEW m \in T PROVE m + 1 \in T
  <2>1. PICK g : Rebuilding(g, d, bits, m)
    OBVIOUS
  <2>2. m \in Nat /\ m + 1 \in Nat
    OBVIOUS
  <2> DEFINE x == Reinsert(g[m], d.entries[m])
             h == [i \in 0..(m + 1) |-> IF i = m + 1 THEN x ELSE g[i]]
  <2>3. ASSUME NEW i \in 0..(m + 1)
        PROVE  h[i] = IF i = 0 THEN z ELSE Reinsert(h[i - 1], d.entries[i - 1])
    <3>1. CASE i = m + 1
      <4>1. i # 0 /\ i - 1 = m /\ m \in 0..(m + 1) /\ m # m + 1
        BY <3>1, <2>2
      <4>2. h[i - 1] = g[m] /\ h[i] = x
        BY <4>1, <3>1
      <4> QED  BY <4>1, <4>2
    <3>2. CASE i # m + 1
      <4>1. i \in 0..m
        BY <3>2, <2>2
      <4>2. g[i] = IF i = 0 THEN z ELSE Reinsert(g[i - 1], d.entries[i - 1])
        BY <4>1, <2>1 DEF Rebuilding, z
      <4>3. h[i] = g[i]
        BY <3>2
      <4>4. i # 0 => h[i - 1] = g[i - 1]
        BY <4>1, <2>2
      <4> HIDE DEF h
      <4> QED  BY <4>2, <4>3, <4>4
    <3> QED  BY <3>1, <3>2
  <2>4. h = [i \in 0..(m + 1) |-> h[i]]
    OBVIOUS
  <2> HIDE DEF h
  <2>5. h = [i \in 0..(m + 1) |-> IF i = 0 THEN z
                                  ELSE Reinsert(h[i - 1], d.entries[i - 1])]
    BY <2>3, <2>4
  <2> QED  BY <2>2, <2>5 DEF Rebuilding, z
<1>3. T = Nat
  <2> HIDE DEF T
  <2>1. T \in SUBSET Nat
    BY DEF T
  <2> QED  BY <1>1, <1>2, <2>1, Induct
<1> QED  BY <1>3

\* And the new table is its last.
LEMMA RebuiltIsLast ==
  ASSUME NEW d, NEW bits, 2^d.bits \in Nat
  PROVE  \E g : Rebuilding(g, d, bits, 2^d.bits) /\ Rebuilt(d, bits) = g[2^d.bits]
<1> DEFINE after == CHOOSE g : Rebuilding(g, d, bits, 2^d.bits)
<1>1. Rebuilding(after, d, bits, 2^d.bits)
  <2>1. \E g : Rebuilding(g, d, bits, 2^d.bits)
    BY RebuildingExists
  <2> QED  BY <2>1
<1>2. Rebuilt(d, bits) = after[2^d.bits]
  BY DEF Rebuilt, Rebuilding
<1> QED  BY <1>1, <1>2

\* What the rebuild has by then: each pair as often as in the first n entries of d.
Caught(r, d, bits, n) ==
  /\ r = [d |-> r.d, failed |-> r.failed] /\ r.failed \in BOOLEAN
  /\ ~r.failed =>
       /\ Sound(r.d) /\ r.d.bits = bits
       /\ \A E \in SUBSET Pairs : Copies(r.d, E) = Among(d.entries, 0..(n - 1), E)

\* One entry more.
LEMMA ReinsertCatches ==
  ASSUME NEW d, Sound(d), NEW bits, NEW n \in Nat, n < 2^d.bits, NEW r,
         Caught(r, d, bits, n)
  PROVE  Caught(Reinsert(r, d.entries[n]), d, bits, n + 1)
<1> DEFINE e == d.entries[n]
           s == Reinsert(r, e)
<1>1. Table(d) /\ 2^d.bits \in Nat
  BY PlacesAre DEF Sound, Table
<1>2. n \in Places(d) /\ e \in Pairs \cup {Empty}
  BY <1>1 DEF Table, Places
<1>3. r = [d |-> r.d, failed |-> r.failed] /\ r.failed \in BOOLEAN
  BY DEF Caught
<1> HIDE DEF e, s
<1>4. CASE r.failed
  <2>1. s = r
    BY <1>4 DEF s, Reinsert
  <2> QED  BY <2>1, <1>3, <1>4 DEF Caught, s, e
<1>5. CASE ~r.failed
  <2>1. Sound(r.d) /\ r.d.bits = bits
    BY <1>5 DEF Caught
  <2>2. ASSUME NEW E \in SUBSET Pairs
        PROVE  Among(d.entries, 0..((n + 1) - 1), E) = Copies(r.d, E) + In(e, E)
    <3>1. 0..((n + 1) - 1) = (0..(n - 1)) \cup {n} /\ n \notin 0..(n - 1)
      OBVIOUS
    <3>2. IsFiniteSet(0..(n - 1))
      <4>1. n - 1 \in Int /\ 0 \in Int
        OBVIOUS
      <4> QED  BY <4>1, FS_Interval
    <3>3. Copies(r.d, E) = Among(d.entries, 0..(n - 1), E)
      BY <1>5 DEF Caught
    <3> DEFINE S == 0..(n - 1)
               T == 0..((n + 1) - 1)
    <3>4. IsFiniteSet(S) /\ n \notin S /\ T = S \cup {n}
      BY <3>1, <3>2
    <3> HIDE DEF S, T
    <3>5. Among(d.entries, T, E) = Among(d.entries, S, E) + In(d.entries[n], E)
      BY <3>4, AmongMore
    <3> QED  BY <3>3, <3>5 DEF S, T, e
  <2>3. CASE e = Empty
    <3>1. s = r
      BY <1>5, <2>3 DEF s, Reinsert
    <3>2. ASSUME NEW E \in SUBSET Pairs
          PROVE  Copies(r.d, E) = Among(d.entries, 0..((n + 1) - 1), E)
      <4>1. In(e, E) = 0
        BY <1>2, <2>3, EmptyIsNoPair DEF In
      <4>2. Copies(r.d, E) \in Nat
        BY <2>1, CopiesAreNat DEF Sound
      <4> QED  BY <4>1, <4>2, <2>2
    <3> QED  BY <3>1, <3>2, <2>1, <1>3 DEF Caught, s, e
  <2>4. CASE e # Empty /\ ~Room(r.d, e.key)
    <3>1. s = [r EXCEPT !.failed = TRUE]
      BY <1>5, <2>4 DEF s, Reinsert
    <3>2. s = [d |-> r.d, failed |-> TRUE]
      BY <3>1, <1>3
    <3>3. s = [d |-> s.d, failed |-> s.failed] /\ s.failed = TRUE
      BY <3>2
    <3> QED  BY <3>3 DEF Caught, s, e
  <2>5. CASE e # Empty /\ Room(r.d, e.key)
    <3> DEFINE k == e.key
               v == e.val
               p == Put(r.d, k, v)
    <3>1. k \in Keys /\ v \in Vals
      BY <1>2, <2>5, EmptyIsNoPair
    <3>2. s = [r EXCEPT !.d = p]
      BY <1>5, <2>5 DEF s, Reinsert
    <3> HIDE DEF p
    <3>3. s = [d |-> p, failed |-> r.failed]
      BY <3>2, <1>3
    <3>4. e = [key |-> k, val |-> v]
      BY <1>2, <2>5, EmptyIsNoPair DEF Pairs
    <3> HIDE DEF k, v
    <3>5. Room(r.d, k)
      BY <2>5 DEF k
    <3>6. /\ Sound(p) /\ p.bits = r.d.bits
          /\ \A E \in SUBSET Pairs : Copies(p, E) = Copies(r.d, E) + In(e, E)
      BY <2>1, <3>1, <3>4, <3>5, PutIsSound DEF p
    <3>7. s = [d |-> s.d, failed |-> s.failed] /\ s.failed \in BOOLEAN /\ s.d = p
      BY <3>3, <1>3
    <3> QED  BY <3>6, <3>7, <2>1, <2>2 DEF Caught, s, e
  <2> QED  BY <2>3, <2>4, <2>5
<1> QED  BY <1>4, <1>5

\* A rebuild that does not fail has every pair as often as before.
LEMMA RebuiltIsSound ==
  ASSUME NEW d, Sound(d), NEW bits \in MinBits..MaxBits
  PROVE  LET r == Rebuilt(d, bits)
         IN  /\ r.failed \in BOOLEAN
             /\ ~r.failed => Sound(r.d) /\ r.d.bits = bits /\ SameBag(r.d, d)
<1> DEFINE n == 2^d.bits
           r == Rebuilt(d, bits)
<1>1. n \in Nat /\ n > 0 /\ Places(d) = 0..(n - 1)
  BY PlacesAre DEF Sound, Table, Places
<1>2. PICK g : Rebuilding(g, d, bits, n) /\ r = g[n]
  BY <1>1, RebuiltIsLast
<1> HIDE DEF r
<1> DEFINE T == {m \in Nat : m <= n => Caught(g[m], d, bits, m)}
<1>3. 0 \in T
  <2> DEFINE z == Sized(bits)
  <2>1. g[0] = [d |-> z, failed |-> FALSE]
    <3> HIDE DEF n, z
    <3> QED  BY <1>1, <1>2 DEF Rebuilding, z
  <2> HIDE DEF z
  <2>2. g[0] = [d |-> g[0].d, failed |-> g[0].failed] /\ g[0].failed = FALSE /\ g[0].d = z
    BY <2>1
  <2>3. Sound(z) /\ z.bits = bits /\ \A E \in SUBSET Pairs : Copies(z, E) = 0
    BY SizedIsSound DEF z
  <2>4. ASSUME NEW E PROVE Among(d.entries, 0..(0 - 1), E) = 0
    <3>1. {j \in 0..(0 - 1) : d.entries[j] \in E} = {}
      OBVIOUS
    <3> QED  BY <3>1, FS_EmptySet DEF Among
  <2>5. Caught(g[0], d, bits, 0)
    BY <2>2, <2>3, <2>4 DEF Caught
  <2> QED  BY <2>5
<1>4. ASSUME NEW m \in T PROVE m + 1 \in T
  <2> HIDE DEF n
  <2> SUFFICES ASSUME m + 1 <= n PROVE Caught(g[m + 1], d, bits, m + 1)
    OBVIOUS
  <2>1. m \in Nat /\ m < n /\ m <= n
    BY <1>1
  <2>2. Caught(g[m], d, bits, m)
    BY <2>1
  <2>3. m + 1 \in 0..n /\ m + 1 # 0 /\ (m + 1) - 1 = m
    BY <2>1, <1>1
  <2>4. g[m + 1] = Reinsert(g[m], d.entries[m])
    BY <2>3, <1>2 DEF Rebuilding
  <2> QED  BY <2>1, <2>2, <2>4, ReinsertCatches DEF n
<1>5. T = Nat
  <2> HIDE DEF T
  <2>1. T \in SUBSET Nat
    BY DEF T
  <2> QED  BY <1>3, <1>4, <2>1, Induct
<1>6. Caught(r, d, bits, n)
  <2>1. n \in T /\ n <= n
    <3> HIDE DEF T, n
    <3> QED  BY <1>1, <1>5
  <2> HIDE DEF n
  <2> QED  BY <2>1, <1>2
<1>7. r.failed \in BOOLEAN
  BY <1>6 DEF Caught
<1>8. ~r.failed => Sound(r.d) /\ r.d.bits = bits /\ SameBag(r.d, d)
  <2> HIDE DEF n
  <2> QED  BY <1>1, <1>6 DEF Caught, SameBag, Copies
<1> QED  BY <1>7, <1>8 DEF r

\* The size at which a table shrinks is free.
LEMMA ShrinkAtIsFree ==
  ASSUME NEW d, Sound(d), NEW at \in Int
  PROVE  LET f == [d EXCEPT !.shrink_at = at]
         IN  Sound(f) /\ SameBag(f, d) /\ f.entries = d.entries /\ f.bits = d.bits
<1> DEFINE f == [d EXCEPT !.shrink_at = at]
           b == d.bits
           g == d.entries
           c == d.count
<1>1. Table(d) /\ Homed(d) /\ d.count = Copies(d, Pairs)
  BY DEF Sound
<1>2. d = [bits |-> b, entries |-> g, shrink_at |-> d.shrink_at, count |-> c]
  BY <1>1 DEF Table
<1>3. f = [bits |-> b, entries |-> g, shrink_at |-> at, count |-> c]
  <2> HIDE DEF b, g, c
  <2> QED  BY <1>2
<1> HIDE DEF f
<1>4. f.bits = d.bits /\ f.entries = d.entries /\ f.count = d.count /\ f.shrink_at = at
  BY <1>3
<1>5. Places(f) = Places(d) /\ \A k, i : Nth(f, k, i) = Nth(d, k, i)
  BY <1>4, SameBuckets
<1>6. \A E : Copies(f, E) = Copies(d, E)
  BY <1>4, <1>5 DEF Copies
<1>7. Table(f)
  <2>1. f = [bits |-> f.bits, entries |-> f.entries, shrink_at |-> f.shrink_at,
             count |-> f.count]
    BY <1>3, <1>4
  <2> QED  BY <2>1, <1>1, <1>4, <1>5 DEF Table
<1>8. Homed(f)
  BY <1>1, <1>4, <1>5 DEF Homed
<1> QED  BY <1>1, <1>4, <1>6, <1>7, <1>8 DEF Sound, SameBag, f

\* Resizing keeps every pair, and leaves the table alone where it does not succeed.
LEMMA ResizeIsSound ==
  ASSUME NEW d, Sound(d), NEW bits \in Nat, bits >= MinBits, NEW memory
  PROVE  LET r == Resize(d, bits, memory)
         IN  /\ Sound(r.d) /\ SameBag(r.d, d) /\ r.ok \in BOOLEAN
             /\ ~r.ok => r.d = d
<1> DEFINE r == Resize(d, bits, memory)
           new == Rebuilt(d, bits)
           due == new.d.count - new.d.count \div 3
           Refused == bits > MaxBits \/ (bits > SpareBits /\ 2^bits > 3 * d.count) \/ ~memory
<1>1. SameBag(d, d)
  BY DEF SameBag
<1>2. CASE Refused
  <2>1. r = [d |-> d, ok |-> FALSE]
    BY <1>2 DEF Resize
  <2> HIDE DEF r
  <2>2. r.d = d /\ r.ok = FALSE
    BY <2>1
  <2> QED  BY <2>2, <1>1 DEF r
<1>3. CASE ~Refused
  <2>1. bits \in MinBits..MaxBits
    BY <1>3, DictSizes
  <2>2. new.failed \in BOOLEAN
        /\ (~new.failed => Sound(new.d) /\ new.d.bits = bits /\ SameBag(new.d, d))
    BY <2>1, RebuiltIsSound
  <2>3. CASE new.failed
    <3>1. r = [d |-> d, ok |-> FALSE]
      BY <1>3, <2>3 DEF Resize, RolledBack
    <3> HIDE DEF r
    <3>2. r.d = d /\ r.ok = FALSE
      BY <3>1
    <3> QED  BY <3>2, <1>1 DEF r
  <2>4. CASE ~new.failed
    <3> DEFINE e == new.d
               f == [e EXCEPT !.shrink_at = IF due < @ THEN due ELSE @]
    <3>1. r = [d |-> f, ok |-> TRUE]
      BY <1>3, <2>4 DEF Resize
    <3> HIDE DEF Refused
    <3>2. Sound(e) /\ SameBag(e, d)
      BY <2>2, <2>4
    <3> HIDE DEF r, new
    <3> DEFINE at == IF due < e.shrink_at THEN due ELSE e.shrink_at
    <3>3. Table(e)
      BY <3>2 DEF Sound
    <3>4. e.shrink_at \in Int /\ e.count \in Nat
      BY <3>3 DEF Table
    <3>5. at \in Int
      BY <3>4
    <3>6. f = [e EXCEPT !.shrink_at = at]
      OBVIOUS
    <3> HIDE DEF f, at
    <3>7. Sound(f) /\ SameBag(f, e)
      <4> HIDE DEF e
      <4> QED  BY <3>2, <3>5, <3>6, ShrinkAtIsFree
    <3>8. r.d = f /\ r.ok = TRUE
      BY <3>1
    <3>9. SameBag(f, d)
      BY <3>2, <3>7 DEF SameBag
    <3> QED  BY <3>7, <3>8, <3>9 DEF r
  <2> QED  BY <2>2, <2>3, <2>4
<1> QED  BY <1>2, <1>3

\* Removing may shrink the table, which keeps every pair; where it does not, the
\* entries are what they were.
LEMMA ShrinkIsSound ==
  ASSUME NEW d, Sound(d), NEW memory
  PROVE  LET r == Shrink(d, memory)
         IN  /\ Sound(r.d) /\ SameBag(r.d, d) /\ r.ok \in BOOLEAN
             /\ ~r.ok => r.d.entries = d.entries /\ r.d.bits = d.bits
<1> DEFINE s == Shrink(d, memory)
           r == Resize(d, d.bits - 1, memory)
           Small == ~(d.bits > ShrinkBits /\ d.shrink_at > d.count)
<1>1. SameBag(d, d)
  BY DEF SameBag
<1>2. CASE Small
  <2>1. s = [d |-> d, ok |-> FALSE]
    BY <1>2 DEF Shrink
  <2> HIDE DEF s
  <2>2. s.d = d /\ s.ok = FALSE
    BY <2>1
  <2> QED  BY <2>2, <1>1 DEF s
<1>3. CASE ~Small
  <2>1. d.bits - 1 \in Nat /\ d.bits - 1 >= MinBits
    BY <1>3, DictSizes DEF Sound, Table
  <2>2. /\ Sound(r.d) /\ SameBag(r.d, d) /\ r.ok \in BOOLEAN
        /\ ~r.ok => r.d = d
    BY <2>1, ResizeIsSound
  <2>3. CASE r.ok
    <3>1. s = r
      BY <1>3, <2>3 DEF Shrink
    <3> HIDE DEF s, r
    <3> QED  BY <2>2, <2>3, <3>1 DEF s
  <2>4. CASE ~r.ok
    <3> DEFINE at == d.shrink_at - d.shrink_at \div 5
               f == [d EXCEPT !.shrink_at = at]
    <3>1. s = [r EXCEPT !.d.shrink_at = @ - @ \div 5]
      BY <1>3, <2>4 DEF Shrink
    <3>2. r = [d |-> d, ok |-> FALSE]
      BY <2>2, <2>4 DEF Resize
    <3> HIDE DEF s, r
    <3>3. s.d = [d EXCEPT !.shrink_at = @ - @ \div 5] /\ s.ok = FALSE
      BY <3>1, <3>2
    <3>4. s.d = f
      BY <3>3
    <3>5. d.shrink_at \in Int
      BY DEF Sound, Table
    <3>6. at \in Int
      BY <3>5
    <3> HIDE DEF f, at
    <3>7. Sound(f) /\ SameBag(f, d) /\ f.entries = d.entries /\ f.bits = d.bits
      BY <3>6, ShrinkAtIsFree DEF f
    <3> QED  BY <3>3, <3>4, <3>7 DEF s
  <2> QED  BY <2>2, <2>3, <2>4
<1> QED  BY <1>2, <1>3

-----------------------------------------------------------------------------
(* The dictionary: removing a value.                                         *)

\* g lists what the walk has made of the table after each of its first n entries.
Weeding(g, d, v, memory, n) ==
  g = [m \in 0..n |-> IF m = 0 THEN [d |-> d, astray |-> FALSE]
                      ELSE Weed(g[m - 1], m - 1, v, memory)]

\* There is such a list.
LEMMA WeedingExists ==
  ASSUME NEW d, NEW v, NEW memory, NEW n \in Nat
  PROVE  \E g : Weeding(g, d, v, memory, n)
<1> DEFINE T == {m \in Nat : \E g : Weeding(g, d, v, memory, m)}
           z == [d |-> d, astray |-> FALSE]
<1> HIDE DEF z
<1>1. 0 \in T
  <2> DEFINE h == [m \in 0..0 |-> z]
  <2>1. h = [m \in 0..0 |-> IF m = 0 THEN z ELSE Weed(h[m - 1], m - 1, v, memory)]
    OBVIOUS
  <2> HIDE DEF h
  <2> QED  BY <2>1 DEF Weeding, z
<1>2. ASSUME NEW m \in T PROVE m + 1 \in T
  <2>1. PICK g : Weeding(g, d, v, memory, m)
    OBVIOUS
  <2>2. m \in Nat /\ m + 1 \in Nat
    OBVIOUS
  <2> DEFINE x == Weed(g[m], m, v, memory)
             h == [i \in 0..(m + 1) |-> IF i = m + 1 THEN x ELSE g[i]]
  <2>3. ASSUME NEW i \in 0..(m + 1)
        PROVE  h[i] = IF i = 0 THEN z ELSE Weed(h[i - 1], i - 1, v, memory)
    <3>1. CASE i = m + 1
      <4>1. i # 0 /\ i - 1 = m /\ m \in 0..(m + 1) /\ m # m + 1
        BY <3>1, <2>2
      <4>2. h[i - 1] = g[m] /\ h[i] = x
        BY <4>1, <3>1
      <4> QED  BY <4>1, <4>2
    <3>2. CASE i # m + 1
      <4>1. i \in 0..m
        BY <3>2, <2>2
      <4>2. g[i] = IF i = 0 THEN z ELSE Weed(g[i - 1], i - 1, v, memory)
        BY <4>1, <2>1 DEF Weeding, z
      <4>3. h[i] = g[i]
        BY <3>2
      <4>4. i # 0 => h[i - 1] = g[i - 1]
        BY <4>1, <2>2
      <4> HIDE DEF h
      <4> QED  BY <4>2, <4>3, <4>4
    <3> QED  BY <3>1, <3>2
  <2>4. h = [i \in 0..(m + 1) |-> h[i]]
    OBVIOUS
  <2> HIDE DEF h
  <2>5. h = [i \in 0..(m + 1) |-> IF i = 0 THEN z ELSE Weed(h[i - 1], i - 1, v, memory)]
    BY <2>3, <2>4
  <2> QED  BY <2>2, <2>5 DEF Weeding, z
<1>3. T = Nat
  <2> HIDE DEF T
  <2>1. T \in SUBSET Nat
    BY DEF T
  <2> QED  BY <1>1, <1>2, <2>1, Induct
<1> QED  BY <1>3

\* And what is left is its last.
LEMMA WeededIsLast ==
  ASSUME NEW d, NEW v, NEW memory, 2^d.bits \in Nat
  PROVE  \E g : Weeding(g, d, v, memory, 2^d.bits) /\ Weeded(d, v, memory) = g[2^d.bits]
<1> DEFINE after == CHOOSE g : Weeding(g, d, v, memory, 2^d.bits)
<1>1. Weeding(after, d, v, memory, 2^d.bits)
  <2>1. \E g : Weeding(g, d, v, memory, 2^d.bits)
    BY WeedingExists
  <2> QED  BY <2>1
<1>2. Weeded(d, v, memory) = after[2^d.bits]
  BY DEF Weeded, Weeding
<1> QED  BY <1>1, <1>2

\* The first n entries have been looked at, and the table is the one they are in.
Culled(r, d, v, n) ==
  /\ r = [d |-> r.d, astray |-> r.astray] /\ r.astray \in BOOLEAN
  /\ ~r.astray =>
       /\ Sound(r.d) /\ r.d.bits = d.bits
       /\ \A j \in Places(d) :
            r.d.entries[j] = IF j < n /\ d.entries[j].val = v THEN Empty ELSE d.entries[j]

\* One entry more.
LEMMA WeedCulls ==
  ASSUME NEW d, Sound(d), NEW v \in Vals, NEW memory, NEW n \in Places(d), NEW r,
         Culled(r, d, v, n)
  PROVE  Culled(Weed(r, n, v, memory), d, v, n + 1)
<1> DEFINE s == Weed(r, n, v, memory)
<1>1. r = [d |-> r.d, astray |-> r.astray] /\ r.astray \in BOOLEAN
  BY DEF Culled
<1>2. n \in Nat /\ Places(d) \subseteq Nat
  BY PlacesAre DEF Sound, Table
<1>3. CASE r.astray
  <2>1. s = r
    BY <1>3 DEF Weed
  <2> HIDE DEF s
  <2> QED  BY <2>1, <1>1, <1>3 DEF Culled, s
<1>4. CASE ~r.astray
  <2>1. Sound(r.d) /\ r.d.bits = d.bits
    BY <1>4 DEF Culled
  <2>2. \A j \in Places(d) :
          r.d.entries[j] = IF j < n /\ d.entries[j].val = v THEN Empty ELSE d.entries[j]
    BY <1>4 DEF Culled
  <2>3. r.d.entries[n] = d.entries[n]
    BY <1>2, <2>2
  <2>4. \A j \in Places(d) : j < n + 1 <=> j < n \/ j = n
    BY <1>2
  <2>5. CASE d.entries[n].val # v
    <3>1. s = r
      BY <1>4, <2>3, <2>5 DEF Weed
    <3> HIDE DEF s
    <3>2. \A j \in Places(d) :
            r.d.entries[j] = IF j < n + 1 /\ d.entries[j].val = v THEN Empty
                             ELSE d.entries[j]
      BY <2>2, <2>4, <2>5
    <3> QED  BY <3>1, <3>2, <1>1, <2>1 DEF Culled, s
  <2>6. CASE d.entries[n].val = v
    <3> DEFINE e == Without(r.d, n)
               less == Shrink(e, memory)
    <3>1. s = [d |-> less.d, astray |-> less.ok]
      BY <1>4, <2>3, <2>6 DEF Weed
    <3>2. r.d.entries[n] \in Pairs
      <4>1. d.entries[n] \in Pairs \cup {Empty}
        BY DEF Sound, Table
      <4> QED  BY <4>1, <2>3, <2>6, EmptyIsNoPair
    <3>3. Places(r.d) = Places(d)
      BY <2>1, SameBuckets
    <3>4. Sound(e) /\ e.bits = d.bits /\ e.entries = [r.d.entries EXCEPT ![n] = Empty]
      BY <2>1, <3>2, <3>3, WithoutIsSound
    <3> HIDE DEF e
    <3>5. /\ Sound(less.d) /\ less.ok \in BOOLEAN
          /\ ~less.ok => less.d.entries = e.entries /\ less.d.bits = e.bits
      BY <3>4, ShrinkIsSound
    <3> HIDE DEF s, less
    <3>6. s.d = less.d /\ s.astray = less.ok /\ s = [d |-> s.d, astray |-> s.astray]
      BY <3>1
    <3>7. \A j \in Places(d) :
            e.entries[j] = IF j < n + 1 /\ d.entries[j].val = v THEN Empty
                           ELSE d.entries[j]
      <4>1. Places(d) = DOMAIN r.d.entries
        BY <2>1, <3>3 DEF Sound, Table
      <4>2. \A j \in Places(d) : e.entries[j] = IF j = n THEN Empty ELSE r.d.entries[j]
        BY <3>4, <4>1
      <4> QED  BY <4>2, <2>2, <2>4, <2>6
    <3> QED  BY <3>4, <3>5, <3>6, <3>7 DEF Culled, s
  <2> QED  BY <2>5, <2>6
<1> QED  BY <1>1, <1>3, <1>4

\* What is left when the walk has not gone astray: everything else.
LEMMA WeededIsSound ==
  ASSUME NEW d, Sound(d), NEW v \in Vals, NEW memory
  PROVE  LET s == Weeded(d, v, memory)
         IN  /\ s.astray \in BOOLEAN
             /\ ~s.astray =>
                  /\ Sound(s.d)
                  /\ \A k \in Keys, w \in Vals :
                       LET E == {[key |-> k, val |-> w]}
                       IN  Copies(s.d, E) = IF w = v THEN 0 ELSE Copies(d, E)
<1> DEFINE n == 2^d.bits
           s == Weeded(d, v, memory)
<1>1. n \in Nat /\ n > 0 /\ Places(d) = 0..(n - 1)
  BY PlacesAre DEF Sound, Table, Places
<1>2. PICK g : Weeding(g, d, v, memory, n) /\ s = g[n]
  BY <1>1, WeededIsLast
<1> HIDE DEF s
<1> DEFINE T == {m \in Nat : m <= n => Culled(g[m], d, v, m)}
<1>3. 0 \in T
  <2>1. g[0] = [d |-> d, astray |-> FALSE]
    <3> HIDE DEF n
    <3> QED  BY <1>1, <1>2 DEF Weeding
  <2>2. g[0] = [d |-> g[0].d, astray |-> g[0].astray] /\ g[0].astray = FALSE /\ g[0].d = d
    BY <2>1
  <2>3. \A j \in Places(d) : ~(j < 0)
    <3> HIDE DEF n
    <3> QED  BY <1>1
  <2>4. Culled(g[0], d, v, 0)
    BY <2>2, <2>3 DEF Culled
  <2> QED  BY <2>4
<1>4. ASSUME NEW m \in T PROVE m + 1 \in T
  <2> HIDE DEF n
  <2> SUFFICES ASSUME m + 1 <= n PROVE Culled(g[m + 1], d, v, m + 1)
    OBVIOUS
  <2>1. m \in Nat /\ m < n /\ m <= n
    BY <1>1
  <2>2. Culled(g[m], d, v, m) /\ m \in Places(d)
    BY <1>1, <2>1
  <2>3. m + 1 \in 0..n /\ m + 1 # 0 /\ (m + 1) - 1 = m
    BY <2>1, <1>1
  <2>4. g[m + 1] = Weed(g[m], m, v, memory)
    BY <2>3, <1>2 DEF Weeding
  <2> QED  BY <2>2, <2>4, WeedCulls
<1>5. T = Nat
  <2> HIDE DEF T
  <2>1. T \in SUBSET Nat
    BY DEF T
  <2> QED  BY <1>3, <1>4, <2>1, Induct
<1>6. Culled(s, d, v, n)
  <2>1. n \in T /\ n <= n
    <3> HIDE DEF T, n
    <3> QED  BY <1>1, <1>5
  <2> HIDE DEF n
  <2> QED  BY <2>1, <1>2
<1>7. s.astray \in BOOLEAN
  BY <1>6 DEF Culled
<1>8. ASSUME ~s.astray, NEW k \in Keys, NEW w \in Vals
      PROVE  LET E == {[key |-> k, val |-> w]}
             IN  Copies(s.d, E) = IF w = v THEN 0 ELSE Copies(d, E)
  <2> HIDE DEF n
  <2> DEFINE x == [key |-> k, val |-> w]
             E == {x}
  <2>1. Places(s.d) = Places(d)
    BY <1>6, <1>8, SameBuckets DEF Culled
  <2>2. ASSUME NEW j \in Places(d)
        PROVE  s.d.entries[j] = IF d.entries[j].val = v THEN Empty ELSE d.entries[j]
    <3>1. j < n
      BY <1>1
    <3> QED  BY <3>1, <1>6, <1>8 DEF Culled
  <2>3. x # Empty /\ x.val = w
    BY EmptyIsNoPair DEF Pairs
  <2> HIDE DEF x
  <2>4. CASE w = v
    <3>1. {j \in Places(d) : s.d.entries[j] \in E} = {}
      BY <2>2, <2>3, <2>4
    <3>2. Copies(s.d, E) = 0
      BY <3>1, <2>1, FS_EmptySet DEF Copies, Among
    <3> QED  BY <3>2, <2>4 DEF x
  <2>5. CASE w # v
    <3>1. {j \in Places(d) : s.d.entries[j] \in E} = {j \in Places(d) : d.entries[j] \in E}
      BY <2>2, <2>3, <2>5
    <3>2. Copies(s.d, E) = Copies(d, E)
      BY <3>1, <2>1 DEF Copies, Among
    <3> QED  BY <3>2, <2>5 DEF x
  <2> QED  BY <2>4, <2>5
<1>9. ~s.astray => Sound(s.d)
  BY <1>6 DEF Culled
<1> QED  BY <1>7, <1>8, <1>9 DEF s

-----------------------------------------------------------------------------
(* The dictionary: its invariant.                                            *)

\* The history agrees with the table, which is sound, until a walk goes astray.
DictIInv ==
  /\ held \in [Pairs -> Nat]
  /\ ~astray =>
       /\ Sound(dict)
       /\ \A e \in Pairs : held[e] = Copies(dict, {e})

\* A pair that some entry holds is held, and the other way round.
LEMMA CopiesArePlaces ==
  ASSUME NEW d, Table(d), NEW E
  PROVE  Copies(d, E) > 0 <=> \E j \in Places(d) : d.entries[j] \in E
<1> DEFINE T == {j \in Places(d) : d.entries[j] \in E}
<1>1. IsFiniteSet(T) /\ Copies(d, E) = Cardinality(T) /\ Cardinality(T) \in Nat
  <2>1. IsFiniteSet(Places(d))
    BY PlacesAre DEF Table
  <2> QED  BY <2>1, AmongIsNat DEF Copies, Among
<1>2. Cardinality(T) = 0 <=> T = {}
  <2> HIDE DEF T
  <2> QED  BY <1>1, FS_EmptySet
<1>3. Copies(d, E) > 0 <=> T # {}
  <2> HIDE DEF T
  <2> QED  BY <1>1, <1>2
<1> QED  BY <1>3

\* Searching a table.
LEMMA FindIs ==
  ASSUME NEW d, Sound(d), NEW k \in Keys
  PROVE  LET j == Closest(d, k, k)
         IN  IF \E i \in Places(d) : d.entries[i].key = k
             THEN /\ j \in Places(d) /\ d.entries[j] \in Pairs
                  /\ Find(d, k) \in Vals /\ d.entries[j] = [key |-> k, val |-> Find(d, k)]
             ELSE Find(d, k) = NoVal
<1> DEFINE j == Closest(d, k, k)
<1>1. Table(d) /\ Homed(d)
  BY DEF Sound
<1>2. ASSUME Where(d, k, k) # {}
      PROVE  /\ j \in Places(d) /\ d.entries[j] \in Pairs /\ d.entries[j].key = k
             /\ Find(d, k) \in Vals /\ d.entries[j] = [key |-> k, val |-> Find(d, k)]
  <2>1. j \in Places(d) /\ d.entries[j].key = k
    BY <1>1, <1>2, ClosestIs
  <2>2. d.entries[j] \in Pairs \cup {Empty}
    BY <1>1, <2>1 DEF Table
  <2>3. Find(d, k) = d.entries[j].val
    BY <1>2 DEF Find
  <2> HIDE DEF j
  <2>4. d.entries[j] \in Pairs
    BY <2>1, <2>2, EmptyIsNoPair
  <2> QED  BY <2>1, <2>3, <2>4 DEF Pairs
<1>3. ASSUME Where(d, k, k) = {}, NEW i \in Places(d), d.entries[i].key = k
      PROVE  FALSE
  <2>1. d.entries[i] \in Pairs \cup {Empty}
    BY <1>1 DEF Table
  <2>2. d.entries[i] # Empty
    BY <1>3, <2>1, EmptyIsNoPair
  <2>3. PICK n \in 0..(MaxBucket - 1) : i = Nth(d, k, n)
    BY <1>1, <1>3, <2>2 DEF Homed
  <2>4. n \in Where(d, k, k)
    BY <1>3, <2>3 DEF Where
  <2> QED  BY <1>3, <2>4
<1>4. Where(d, k, k) = {} => Find(d, k) = NoVal
  BY DEF Find
<1> HIDE DEF j
<1>5. (\E i \in Places(d) : d.entries[i].key = k) <=> Where(d, k, k) # {}
  <2>1. Where(d, k, k) # {} => \E i \in Places(d) : d.entries[i].key = k
    BY <1>2
  <2> QED  BY <2>1, <1>3
<1> QED  BY <1>2, <1>4, <1>5 DEF j

\* The property follows.
LEMMA DictFinds == DictIInv => FindsWhatIsHeld
<1> SUFFICES ASSUME DictIInv, ~astray PROVE FindsWhatIsHeld
  BY DEF FindsWhatIsHeld
<1>1. Sound(dict) /\ Table(dict) /\ \A e \in Pairs : held[e] = Copies(dict, {e})
  BY DEF DictIInv, Sound
<1>2. DOMAIN dict.entries = Places(dict)
      /\ \A i \in Places(dict) : dict.entries[i] \in Pairs \cup {Empty}
  BY <1>1 DEF Table
<1>3. dict.count = Cardinality({i \in DOMAIN dict.entries : dict.entries[i] # Empty})
  <2>1. \A i \in Places(dict) : dict.entries[i] \in Pairs <=> dict.entries[i] # Empty
    BY <1>2, EmptyIsNoPair
  <2>2. {i \in DOMAIN dict.entries : dict.entries[i] # Empty}
        = {i \in Places(dict) : dict.entries[i] \in Pairs}
    BY <1>2, <2>1
  <2> QED  BY <1>1, <2>2 DEF Sound, Copies, Among
<1>4. ASSUME NEW k \in Keys, \A v \in Vals : held[Pair(k, v)] = 0
      PROVE  Find(dict, k) = NoVal
  <2>1. ASSUME NEW i \in Places(dict), dict.entries[i].key = k PROVE FALSE
    <3> DEFINE e == dict.entries[i]
    <3>1. e \in Pairs
      BY <1>2, <2>1, EmptyIsNoPair
    <3>2. PICK v \in Vals : e = Pair(k, v)
      BY <2>1, <3>1 DEF Pairs, Pair
    <3>3. Copies(dict, {e}) > 0
      BY <1>1, CopiesArePlaces
    <3> HIDE DEF e
    <3>4. held[e] = Copies(dict, {e}) /\ held[e] = 0
      BY <1>1, <1>4, <3>1, <3>2
    <3> QED  BY <3>3, <3>4
  <2> QED  BY <1>1, <2>1, FindIs
<1>5. ASSUME NEW k \in Keys, ~(\A v \in Vals : held[Pair(k, v)] = 0)
      PROVE  \E v \in Vals : Find(dict, k) = v /\ held[Pair(k, v)] > 0
  <2>1. PICK v \in Vals : held[Pair(k, v)] # 0
    BY <1>5
  <2> DEFINE e == Pair(k, v)
             c == Copies(dict, {e})
  <2>2. c > 0
    <3>1. e \in Pairs
      BY DEF Pairs, Pair
    <3>2. held[e] = c
      BY <1>1, <3>1
    <3>3. c \in Nat
      BY <1>1, CopiesAreNat
    <3> HIDE DEF c
    <3> QED  BY <2>1, <3>2, <3>3
  <2>3. PICK i \in Places(dict) : dict.entries[i] \in {e}
    BY <1>1, <2>2, CopiesArePlaces
  <2>4. \E n \in Places(dict) : dict.entries[n].key = k
    BY <2>3 DEF Pair
  <2> DEFINE j == Closest(dict, k, k)
             w == Find(dict, k)
  <2>5. j \in Places(dict) /\ w \in Vals /\ dict.entries[j] = Pair(k, w)
        /\ dict.entries[j] \in Pairs
    BY <1>1, <2>4, FindIs DEF Pair
  <2> HIDE DEF j, w
  <2>6. Copies(dict, {Pair(k, w)}) > 0
    BY <1>1, <2>5, CopiesArePlaces
  <2>7. held[Pair(k, w)] > 0
    BY <1>1, <2>5, <2>6
  <2> QED  BY <2>5, <2>7 DEF w
<1>6. ASSUME NEW k \in Keys
      PROVE  IF \A v \in Vals : held[Pair(k, v)] = 0 THEN Find(dict, k) = NoVal
             ELSE \E v \in Vals : Find(dict, k) = v /\ held[Pair(k, v)] > 0
  BY <1>4, <1>5
<1> QED  BY <1>3, <1>6 DEF FindsWhatIsHeld

\* Nothing is held at first.
LEMMA DictInitInv == DictInit => DictIInv
<1> SUFFICES ASSUME DictInit PROVE DictIInv  OBVIOUS
<1>1. MinBits \in MinBits..MaxBits
  BY DictSizes
<1>2. Sound(dict) /\ \A E \in SUBSET Pairs : Copies(dict, E) = 0
  BY <1>1, SizedIsSound DEF DictInit
<1>3. held \in [Pairs -> Nat] /\ \A e \in Pairs : held[e] = 0
  BY DEF DictInit, Pairs
<1>4. \A e \in Pairs : {e} \in SUBSET Pairs
  OBVIOUS
<1> QED  BY <1>2, <1>3, <1>4 DEF DictIInv

\* The history follows a table that has one pair more, or less.
LEMMA HeldFollowsOne ==
  ASSUME DictIInv, ~astray, NEW x \in Pairs, NEW more \in {-1, 1},
         Sound(dict'), held' = [held EXCEPT ![x] = @ + more], held[x] + more \in Nat,
         \A E \in SUBSET Pairs : Copies(dict', E) = Copies(dict, E) + more * In(x, E)
  PROVE  DictIInv'
<1>1. held \in [Pairs -> Nat] /\ \A e \in Pairs : held[e] = Copies(dict, {e})
  BY DEF DictIInv
<1>2. held' \in [Pairs -> Nat]
  BY <1>1
<1>3. ASSUME NEW e \in Pairs PROVE held'[e] = Copies(dict', {e})
  <2>1. Copies(dict', {e}) = Copies(dict, {e}) + more * In(x, {e})
    <3>1. {e} \in SUBSET Pairs
      OBVIOUS
    <3> QED  BY <3>1
  <2>2. held[e] = Copies(dict, {e}) /\ held[e] \in Nat
    BY <1>1
  <2>3. CASE e = x
    <3>1. In(x, {e}) = 1 /\ held'[e] = held[e] + more
      BY <1>1, <2>3 DEF In
    <3>2. Copies(dict', {e}) = Copies(dict, {e}) + more
      BY <2>1, <3>1
    <3> QED  BY <2>2, <3>1, <3>2
  <2>4. CASE e # x
    <3>1. In(x, {e}) = 0 /\ held'[e] = held[e]
      BY <1>1, <2>4 DEF In
    <3>2. Copies(dict', {e}) = Copies(dict, {e})
      BY <2>1, <2>2, <3>1
    <3> QED  BY <2>2, <3>1, <3>2
  <2> QED  BY <2>3, <2>4
<1> QED  BY <1>2, <1>3 DEF DictIInv

\* One pair more, or none.
LEMMA AddDoes ==
  ASSUME Sound(dict), NEW k \in Keys, NEW v \in Vals, Add(k, v)
  PROVE  \/ /\ Sound(dict') /\ dict'.count = dict.count + 1
            /\ \A E \in SUBSET Pairs : Copies(dict', E) = Copies(dict, E) + In(Pair(k, v), E)
         \/ Sound(dict') /\ SameBag(dict', dict)
<1> DEFINE x == Pair(k, v)
<1>1. PICK memory \in BOOLEAN :
        LET once  == Resize(dict, dict.bits + 1, memory)
            twice == Resize(once.d, once.d.bits + 1, memory)
        IN  CASE Room(dict, k) -> dict' = Put(dict, k, v)
              [] ~Room(dict, k) /\ ~once.ok -> dict' = once.d
              [] ~Room(dict, k) /\ once.ok /\ Room(once.d, k) -> dict' = Put(once.d, k, v)
              [] OTHER -> dict' = twice.d
  BY DEF Add
<1> DEFINE once  == Resize(dict, dict.bits + 1, memory)
           twice == Resize(once.d, once.d.bits + 1, memory)
<1>2. CASE Room(dict, k)
  <2>1. dict' = Put(dict, k, v)
    BY <1>1, <1>2
  <2> QED  BY <1>2, <2>1, PutIsSound DEF Pair
<1>3. dict.bits + 1 \in Nat /\ dict.bits + 1 >= MinBits
  <2>1. dict.bits \in MinBits..MaxBits /\ MinBits \in Nat /\ MaxBits \in Nat
    BY DictSizes DEF Sound, Table
  <2> QED  BY <2>1
<1>4. Sound(once.d) /\ SameBag(once.d, dict) /\ once.ok \in BOOLEAN
  BY <1>3, ResizeIsSound
<1>5. once.d.bits + 1 \in Nat /\ once.d.bits + 1 >= MinBits
  <2> HIDE DEF once
  <2>1. once.d.bits \in MinBits..MaxBits /\ MinBits \in Nat /\ MaxBits \in Nat
    BY <1>4, DictSizes DEF Sound, Table
  <2> QED  BY <2>1
<1>6. CASE ~Room(dict, k) /\ ~once.ok
  <2>1. dict' = once.d
    BY <1>1, <1>6
  <2> QED  BY <1>4, <2>1
<1>7. CASE ~Room(dict, k) /\ once.ok /\ Room(once.d, k)
  <2> DEFINE d == once.d
  <2>1. dict' = Put(d, k, v)
    BY <1>1, <1>7
  <2> HIDE DEF once
  <2>2. Sound(d) /\ SameBag(d, dict) /\ Room(d, k)
    BY <1>4, <1>7
  <2> HIDE DEF d
  <2>3. /\ Sound(Put(d, k, v)) /\ Put(d, k, v).count = d.count + 1
        /\ \A E \in SUBSET Pairs : Copies(Put(d, k, v), E) = Copies(d, E) + In(x, E)
    BY <2>2, PutIsSound DEF Pair
  <2>4. d.count = dict.count /\ \A E \in SUBSET Pairs : Copies(d, E) = Copies(dict, E)
    BY <2>2 DEF SameBag, Sound
  <2> HIDE DEF x
  <2>5. /\ Sound(dict') /\ dict'.count = dict.count + 1
        /\ \A E \in SUBSET Pairs : Copies(dict', E) = Copies(dict, E) + In(x, E)
    BY <2>1, <2>3, <2>4
  <2> QED  BY <2>5 DEF x
<1>8. CASE ~Room(dict, k) /\ once.ok /\ ~Room(once.d, k)
  <2>1. dict' = twice.d
    BY <1>1, <1>8
  <2> HIDE DEF once
  <2>2. Sound(twice.d) /\ SameBag(twice.d, once.d)
    BY <1>4, <1>5, ResizeIsSound
  <2> HIDE DEF twice
  <2>3. SameBag(dict', dict)
    BY <2>1, <2>2, <1>4 DEF SameBag
  <2> QED  BY <2>1, <2>2, <2>3
<1> HIDE DEF once, twice
<1> QED  BY <1>2, <1>4, <1>6, <1>7, <1>8

\* Adding.
LEMMA AddKeeps ==
  ASSUME DictIInv, ~astray, NEW k \in Keys, NEW v \in Vals, Add(k, v)
  PROVE  DictIInv'
<1> DEFINE x == Pair(k, v)
<1>1. Sound(dict) /\ \A e \in Pairs : held[e] = Copies(dict, {e})
  BY DEF DictIInv
<1>2. held \in [Pairs -> Nat] /\ astray' = astray
      /\ held' = IF dict'.count > dict.count THEN [held EXCEPT ![x] = @ + 1] ELSE held
  BY DEF DictIInv, Add
<1>3. x \in Pairs
  BY DEF Pairs, Pair
<1>4. dict.count \in Nat
  BY <1>1 DEF Sound, Table
<1> DEFINE More == /\ Sound(dict') /\ dict'.count = dict.count + 1
                   /\ \A E \in SUBSET Pairs : Copies(dict', E) = Copies(dict, E) + In(x, E)
           Same == Sound(dict') /\ SameBag(dict', dict)
<1>5. More \/ Same
  BY <1>1, AddDoes
<1> HIDE DEF x
<1>6. CASE More
  <2>1. dict'.count > dict.count
    BY <1>4, <1>6
  <2>2. held' = [held EXCEPT ![x] = @ + 1]
    BY <1>2, <2>1
  <2>3. held[x] + 1 \in Nat
    BY <1>2, <1>3
  <2>4. \A E : 1 * In(x, E) = In(x, E)
    BY DEF In
  <2>5. \A E \in SUBSET Pairs : Copies(dict', E) = Copies(dict, E) + 1 * In(x, E)
    BY <1>6, <2>4
  <2> QED  BY <1>3, <1>6, <2>2, <2>3, <2>5, HeldFollowsOne
<1>7. CASE Same
  <2>1. dict'.count = dict.count
    BY <1>1, <1>7 DEF Sound, SameBag
  <2>2. held' = held
    BY <1>2, <1>4, <2>1
  <2>3. \A e \in Pairs : Copies(dict', {e}) = Copies(dict, {e})
    <3>1. \A e \in Pairs : {e} \in SUBSET Pairs
      OBVIOUS
    <3> QED  BY <1>7, <3>1 DEF SameBag
  <2> QED  BY <1>1, <1>2, <1>7, <2>2, <2>3 DEF DictIInv
<1> QED  BY <1>5, <1>6, <1>7

\* One pair less.
LEMMA RmKeeps ==
  ASSUME DictIInv, ~astray, NEW k \in Keys, Rm(k)
  PROVE  DictIInv'
<1> DEFINE j == Closest(dict, k, k)
           v == Find(dict, k)
           x == Pair(k, v)
           e == Without(dict, j)
<1>1. Sound(dict) /\ held \in [Pairs -> Nat]
      /\ \A p \in Pairs : held[p] = Copies(dict, {p})
  BY DEF DictIInv
<1>2. v # NoVal /\ held' = [held EXCEPT ![x] = @ - 1]
  BY DEF Rm
<1>3. j \in Places(dict) /\ dict.entries[j] \in Pairs /\ dict.entries[j] = x
  BY <1>1, <1>2, FindIs DEF Pair
<1>4. PICK memory \in BOOLEAN : dict' = Shrink(e, memory).d
  BY DEF Rm
<1>5. Sound(e) /\ \A E \in SUBSET Pairs : Copies(e, E) = Copies(dict, E) - In(x, E)
  <2> HIDE DEF j, x, v
  <2>0. Sound(dict) /\ j \in Places(dict) /\ dict.entries[j] \in Pairs
    BY <1>1, <1>3
  <2>1. /\ Sound(e)
        /\ \A E \in SUBSET Pairs : Copies(e, E) = Copies(dict, E) - In(dict.entries[j], E)
    BY <2>0, WithoutIsSound
  <2> HIDE DEF e
  <2> QED  BY <1>3, <2>1
<1> HIDE DEF j, v, x, e
<1>6. Sound(dict') /\ SameBag(dict', e)
  BY <1>4, <1>5, ShrinkIsSound
<1>7. x \in Pairs
  BY <1>3
<1>8. held[x] + (-1) \in Nat
  <2>1. Copies(dict, {x}) > 0
    BY <1>1, <1>3, CopiesArePlaces DEF Sound
  <2>2. held[x] \in Nat /\ held[x] > 0
    BY <1>1, <1>7, <2>1
  <2> QED  BY <2>2
<1>9. held' = [held EXCEPT ![x] = @ + (-1)]
  <2>1. held[x] \in Nat
    BY <1>1, <1>7
  <2>2. held[x] - 1 = held[x] + (-1)
    BY <2>1
  <2> QED  BY <1>1, <1>2, <2>2
<1>10. \A E \in SUBSET Pairs : Copies(dict', E) = Copies(dict, E) + (-1) * In(x, E)
  <2> TAKE E \in SUBSET Pairs
  <2>1. Copies(dict, E) \in Nat /\ In(x, E) \in Nat
    BY <1>1, CopiesAreNat DEF Sound, In
  <2>2. Copies(dict', E) = Copies(dict, E) - In(x, E)
    BY <1>5, <1>6 DEF SameBag
  <2> QED  BY <2>1, <2>2
<1> QED  BY <1>6, <1>7, <1>8, <1>9, <1>10, HeldFollowsOne

\* Every pair of one value less.
LEMMA RmValKeeps ==
  ASSUME DictIInv, ~astray, NEW v \in Vals, RmVal(v)
  PROVE  DictIInv'
<1>1. Sound(dict) /\ held \in [Pairs -> Nat] /\ \A e \in Pairs : held[e] = Copies(dict, {e})
  BY DEF DictIInv
<1>2. PICK memory \in BOOLEAN :
        dict' = Weeded(dict, v, memory).d /\ astray' = Weeded(dict, v, memory).astray
  BY DEF RmVal
<1>3. held' = [e \in Pairs |-> IF e.val = v THEN 0 ELSE held[e]]
  BY <1>1 DEF RmVal
<1>4. held' \in [Pairs -> Nat]
  BY <1>1, <1>3
<1>5. ASSUME ~astray' PROVE Sound(dict')
  BY <1>1, <1>2, <1>5, WeededIsSound
<1>6. ASSUME ~astray', NEW e \in Pairs
      PROVE  held'[e] = Copies(dict', {e})
  <2>1. PICK l \in Keys, w \in Vals : e = [key |-> l, val |-> w]
    BY DEF Pairs
  <2>2. Copies(dict', {e}) = IF w = v THEN 0 ELSE Copies(dict, {e})
    BY <1>1, <1>2, <1>6, <2>1, WeededIsSound
  <2>3. e.val = w
    BY <2>1
  <2>4. held'[e] = IF w = v THEN 0 ELSE held[e]
    BY <1>3, <2>3
  <2> QED  BY <1>1, <2>2, <2>4
<1> QED  BY <1>4, <1>5, <1>6 DEF DictIInv

(***************************************************************************)
(* A key is found as long as it was added more often than removed, with    *)
(* one of the values it was added with, through all rebuilds that succeed  *)
(* and that fail, and the count is right (FindsWhatIsHeld of PkDict).      *)
(***************************************************************************)
THEOREM DictHolds == DictSpec => []FindsWhatIsHeld
<1>1. DictInit => DictIInv
  BY DictInitInv
<1>2. DictIInv /\ [DictNext]_dictVars => DictIInv'
  <2> SUFFICES ASSUME DictIInv, [DictNext]_dictVars PROVE DictIInv'
    OBVIOUS
  <2>1. CASE UNCHANGED dictVars
    BY <2>1 DEF dictVars, DictIInv
  <2>2. CASE DictNext
    <3>1. ASSUME NEW k \in Keys, NEW v \in Vals, Add(k, v) PROVE DictIInv'
      BY <2>2, <3>1, AddKeeps DEF DictNext
    <3>2. ASSUME NEW k \in Keys, Rm(k) PROVE DictIInv'
      BY <2>2, <3>2, RmKeeps DEF DictNext
    <3>3. ASSUME NEW v \in Vals, RmVal(v) PROVE DictIInv'
      BY <2>2, <3>3, RmValKeeps DEF DictNext
    <3> QED  BY <2>2, <3>1, <3>2, <3>3 DEF DictNext
  <2> QED  BY <2>1, <2>2
<1>3. DictIInv => FindsWhatIsHeld
  BY DictFinds
<1> QED  BY <1>1, <1>2, <1>3, PTL DEF DictSpec
=============================================================================
