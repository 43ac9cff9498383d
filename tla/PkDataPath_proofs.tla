--------------------------- MODULE PkDataPath_proofs ---------------------------
(***************************************************************************)
(* What data goes through, for any window, any sizes and any number of     *)
(* streams: the reports of the receiving end are honest, no kilobyte is    *)
(* doubled or out of turn, and the window never holds a stream back for    *)
(* good unless it has shrunk too far.  And what it is read from and        *)
(* written to, for any connections, any descriptors and each of the back   *)
(* ends of the loop: the kernel watches what the loop wants watched        *)
(* whenever it polls, no event is handed to a watcher about a socket that  *)
(* is gone, and a descriptor stands for the socket its connection opened,  *)
(* as long as no blocker opens one while the loop closes a tunnel's twice. *)
(***************************************************************************)
EXTENDS PkStreams, PkFlow, PkLoop, SequenceTheorems, FiniteSetTheorems, TLAPS

-----------------------------------------------------------------------------
(* The invariant of the window.                                              *)

\* The receiving end has the data up to here: what is read and no longer, or
\* not yet, in the tunnel.
Arrived == IF chunks = <<>> THEN read ELSE chunks[1][1] - 1

\* A chunk is what one read has got, and chunks follow each other.
ChunksFollow ==
    \A k \in 1..Len(chunks) :
        /\ Len(chunks[k]) > 0
        /\ \A j \in 1..Len(chunks[k]) :
              chunks[k][j] = chunks[k][1] + (j - 1) /\ chunks[k][j] <= read
        /\ chunks[k][1] + Len(chunks[k])
              = IF k = Len(chunks) THEN read + 1 ELSE chunks[k + 1][1]

\* What the receiving end holds for the backend, in the order it goes there.
Held == sock \o (out \o todo)

\* The sequence h is in order and lies between from and upto; what is missing of
\* that is in gaps.
Follows(h, from, upto, gaps) ==
    /\ from <= upto
    /\ \A i \in 1..Len(h) : from + i <= h[i] /\ h[i] <= upto
    /\ \A i, j \in 1..Len(h) : i < j => j - i <= h[j] - h[i]
    /\ (from + 1)..upto \subseteq ToSet(h) \cup gaps
    /\ gaps = {} => /\ from + Len(h) = upto
                    /\ \A i \in 1..Len(h) : h[i] = from + i

\* It comes after what the backend has and before what is in the tunnel; what is
\* missing in between has been given up.
HeldFollows == Follows(Held, newest, Arrived, lost)

\* What has been written is what has been reported and what is counted for the
\* next report.
Counted ==
    /\ reported + wrote <= newest + Len(sock)
    /\ lost = {} => reported + wrote = newest + Len(sock)
    /\ ~busy => wrote < Increment /\ todo = <<>>

\* Reports come in order, up to what was reported last.
ReportsFollow ==
    /\ acked <= reported
    /\ \A i \in 1..Len(reports) : acked <= reports[i] /\ reports[i] <= reported
    /\ \A i, j \in 1..Len(reports) : i < j => reports[i] <= reports[j]
    /\ reported = IF reports = <<>> THEN acked ELSE reports[Len(reports)]

\* The sender is held back by the window and nothing else.
HeldBack == dst = Ahead(read, acked, window)

FlowIInv ==
    /\ FlowTypeOK
    /\ ChunksFollow /\ HeldFollows /\ Counted /\ ReportsFollow /\ HeldBack
-----------------------------------------------------------------------------
(* Writing to the backend.                                                   *)

Data == 1..MaxData

\* A write takes the first of it, as much as the kernel has room for.
LEMMA TakenFirst ==
    ASSUME FlowTypeOK, NEW s \in Seq(Data)
    PROVE  /\ Taken(s) \in Seq(Data) /\ Untaken(s) \in Seq(Data)
           /\ Taken(s) \o Untaken(s) = s
           /\ Len(Taken(s)) + Len(Untaken(s)) = Len(s)
           /\ Len(sock) + Len(Taken(s)) <= Backlog
<1> DEFINE room == Backlog - Len(sock)
           n == IF Len(s) < room THEN Len(s) ELSE room
<1>1. /\ room \in Nat /\ Len(s) \in Nat /\ n \in 0..Len(s) /\ n <= room
      /\ Backlog \in Nat /\ Len(sock) \in Nat
  BY FlowBounds, LenProperties DEF FlowTypeOK, FlowBounds
<1>2. Taken(s) = SubSeq(s, 1, n)
  BY DEF Taken
<1> HIDE DEF n
<1>3. Taken(s) \in Seq(Data) /\ Len(Taken(s)) = n
  BY <1>1, <1>2, SubSeqProperties, ElementOfSeq
<1>4. Untaken(s) = SubSeq(s, n + 1, Len(s))
  BY <1>3 DEF Untaken
<1>5. Untaken(s) \in Seq(Data) /\ Len(Untaken(s)) = Len(s) - n
  <2>1. \A i \in (n + 1)..Len(s) : s[i] \in Data
    BY <1>1, ElementOfSeq
  <2> QED
    BY <1>1, <1>4, <2>1, SubSeqProperties
<1>6. Taken(s) \o Untaken(s) = s
  <2>1. 1 \in 1..(Len(s) + 1) /\ n \in (1 - 1)..Len(s) /\ Len(s) \in n..Len(s)
    BY <1>1
  <2>2. SubSeq(s, 1, n) \o SubSeq(s, n + 1, Len(s)) = SubSeq(s, 1, Len(s))
    BY <2>1, ConcatAdjacentSubSeq
  <2> QED
    BY <1>2, <1>4, <2>2, SubSeqFull
<1> QED
  BY <1>1, <1>3, <1>5, <1>6

\* What is left is put back in two parts.
LEMMA PutBack ==
    ASSUME NEW rest \in Seq(Data), NEW old \in 0..Len(rest)
    PROVE  /\ SubSeq(rest, 1, old) \in Seq(Data)
           /\ SubSeq(rest, old + 1, Len(rest)) \in Seq(Data)
           /\ Len(SubSeq(rest, 1, old)) = old
           /\ SubSeq(rest, 1, old) \o SubSeq(rest, old + 1, Len(rest)) = rest
<1>1. Len(rest) \in Nat /\ \A i \in 1..Len(rest) : rest[i] \in Data
  BY ElementOfSeq
<1>2. SubSeq(rest, 1, old) \in Seq(Data) /\ Len(SubSeq(rest, 1, old)) = old
  BY <1>1, SubSeqProperties
<1>3. SubSeq(rest, old + 1, Len(rest)) \in Seq(Data)
  BY <1>1, SubSeqProperties
<1>4. SubSeq(rest, 1, old) \o SubSeq(rest, old + 1, Len(rest)) = rest
  <2>1. 1 \in 1..(Len(rest) + 1) /\ old \in (1 - 1)..Len(rest) /\ Len(rest) \in old..Len(rest)
    BY <1>1
  <2> QED
    BY <2>1, ConcatAdjacentSubSeq, SubSeqFull
<1> QED
  BY <1>2, <1>3, <1>4

\* What is held, and how much of it.
LEMMA HeldType ==
    ASSUME FlowTypeOK
    PROVE  /\ Held \in Seq(Data) /\ out \o todo \in Seq(Data)
           /\ Len(Held) = Len(sock) + Len(out) + Len(todo)
           /\ Len(sock) \in Nat /\ Len(out) \in Nat /\ Len(todo) \in Nat
<1>1. sock \in Seq(Data) /\ out \in Seq(Data) /\ todo \in Seq(Data)
  BY DEF FlowTypeOK, Data
<1>2. out \o todo \in Seq(Data) /\ Len(out \o todo) = Len(out) + Len(todo)
  BY <1>1, ConcatProperties
<1>3. Held \in Seq(Data) /\ Len(Held) = Len(sock) + Len(out \o todo)
  BY <1>1, <1>2, ConcatProperties DEF Held
<1> QED
  BY <1>1, <1>2, <1>3, LenProperties

\* What has been written was read.
LEMMA WrittenWasRead ==
    ASSUME FlowIInv
    PROVE  /\ Arrived \in Nat /\ Arrived <= read
           /\ newest + Len(Held) <= Arrived
           /\ newest + Len(sock) <= read /\ reported + wrote <= read
<1>1. /\ newest \in Nat /\ Len(sock) \in Nat /\ read \in Nat /\ reported \in Nat /\ wrote \in Nat
      /\ Len(Held) \in Nat /\ Len(sock) <= Len(Held)
      /\ \A i \in 1..Len(Held) : Held[i] \in Nat
  <2>1. /\ newest \in Nat /\ read \in Nat /\ reported \in Nat /\ wrote \in Nat
    BY DEF FlowIInv, FlowTypeOK
  <2>2. /\ Held \in Seq(Data) /\ Len(Held) = Len(sock) + Len(out) + Len(todo)
        /\ Len(sock) \in Nat /\ Len(out) \in Nat /\ Len(todo) \in Nat
    BY HeldType DEF FlowIInv
  <2>3. \A i \in 1..Len(Held) : Held[i] \in Data
    BY <2>2, ElementOfSeq
  <2>4. \A i \in 1..Len(Held) : Held[i] \in Nat
    BY <2>3 DEF Data
  <2> QED
    BY <2>1, <2>2, <2>4
<1>2. Arrived \in Nat /\ Arrived <= read
  <2>1. CASE chunks = <<>>
    BY <1>1, <2>1 DEF Arrived
  <2>2. CASE chunks # <<>>
    <3>1. Len(chunks) \in Nat /\ Len(chunks) > 0 /\ chunks[1] \in Seq(Data)
      BY <2>2, LenProperties, ElementOfSeq, EmptySeq DEF FlowIInv, FlowTypeOK, Data
    <3>2. Len(chunks[1]) > 0 /\ Len(chunks[1]) \in Nat
      BY <3>1, LenProperties DEF FlowIInv, ChunksFollow
    <3>3. chunks[1][1] \in Data /\ chunks[1][1] <= read
      BY <3>1, <3>2, ElementOfSeq DEF FlowIInv, ChunksFollow
    <3> QED
      BY <1>1, <2>2, <3>3 DEF Arrived, Data
  <2> QED
    BY <2>1, <2>2
<1>3. newest + Len(Held) <= Arrived
  <2>1. CASE Len(Held) = 0
    BY <1>1, <1>2, <2>1 DEF FlowIInv, HeldFollows, Follows
  <2>2. CASE Len(Held) > 0
    <3>1. newest + Len(Held) <= Held[Len(Held)] /\ Held[Len(Held)] <= Arrived
      BY <1>1, <2>2 DEF FlowIInv, HeldFollows, Follows
    <3> QED
      BY <1>1, <1>2, <2>2, <3>1
  <2> QED
    BY <1>1, <2>1, <2>2
<1> QED
  BY <1>1, <1>2, <1>3 DEF FlowIInv, Counted

\* pkc_report_progress: nothing written is reported twice, or forgotten.
LEMMA ReportKeeps ==
    ASSUME FlowTypeOK, ReportsFollow, NEW w \in Nat, Report(w), UNCHANGED acked,
           reported + w <= MaxData
    PROVE  /\ ReportsFollow'
           /\ reports' \in Seq(0..MaxData)
           /\ wrote' \in 0..MaxData /\ reported' \in 0..MaxData
           /\ reported' + wrote' = reported + w /\ wrote' < Increment
<1>1. /\ acked \in Nat /\ reported \in Nat /\ wrote \in Nat /\ MaxData \in Nat
      /\ Increment \in Nat \ {0} /\ reports \in Seq(0..MaxData) /\ Len(reports) \in Nat
      /\ \A i \in 1..Len(reports) : reports[i] \in Nat
  BY FlowBounds, LenProperties, ElementOfSeq DEF FlowTypeOK, FlowBounds
<1>2. CASE w < Increment
  <2>1. wrote' = w /\ UNCHANGED <<reported, reports>>
    BY <1>1, <1>2 DEF Report
  <2>2. ReportsFollow'
    BY <2>1 DEF ReportsFollow
  <2> QED
    BY <1>1, <1>2, <2>1, <2>2
<1>3. CASE w >= Increment
  <2> DEFINE n == Len(reports)
  <2>1. /\ wrote' = 0 /\ reported' = reported + w
        /\ reports' = Append(reports, reported + w)
    BY <1>3 DEF Report
  <2>2. reported + w \in 0..MaxData
    BY <1>1
  <2>3. /\ reports' \in Seq(0..MaxData) /\ Len(reports') = n + 1
        /\ \A i \in 1..n : reports'[i] = reports[i]
        /\ reports'[n + 1] = reported + w
        /\ reports' # <<>>
    BY <1>1, <2>1, <2>2, AppendProperties
  <2>4. ReportsFollow'
    <3>1. /\ n \in Nat /\ acked <= reported
          /\ \A i \in 1..n : acked <= reports[i] /\ reports[i] <= reported
          /\ \A i, j \in 1..n : i < j => reports[i] <= reports[j]
          /\ \A i \in 1..n : reports[i] \in Nat
      BY <1>1 DEF ReportsFollow
    <3> HIDE DEF n
    <3>2. \A i \in 1..(n + 1) : i \in 1..n \/ i = n + 1
      BY <3>1
    <3> DEFINE rs == reports'
               top == reported + w
    <3>3. /\ \A i \in 1..n : rs[i] = reports[i]
          /\ rs[n + 1] = top /\ top \in Nat /\ acked <= top /\ reported <= top
          /\ acked \in Nat /\ reported \in Nat
      BY <1>1, <2>3, <3>1
    <3> HIDE DEF rs, top
    <3>4. \A i \in 1..n : acked <= rs[i] /\ rs[i] <= top
      BY <3>1, <3>3
    <3>5. \A i \in 1..(n + 1) : acked <= rs[i] /\ rs[i] <= top
      BY <3>2, <3>3, <3>4
    <3>6. \A i, j \in 1..(n + 1) : i < j => rs[i] <= rs[j]
      <4> SUFFICES ASSUME NEW i \in 1..(n + 1), NEW j \in 1..(n + 1), i < j
                   PROVE  rs[i] <= rs[j]
        OBVIOUS
      <4>1. i \in 1..n
        BY <3>1
      <4>2. CASE j \in 1..n
        BY <3>1, <3>3, <4>1, <4>2
      <4>3. CASE j = n + 1
        BY <3>3, <3>4, <4>1, <4>3
      <4> QED
        BY <3>2, <4>2, <4>3
    <3> QED
      BY <1>1, <2>1, <2>3, <3>1, <3>3, <3>5, <3>6 DEF ReportsFollow, rs, top
  <2> QED
    BY <1>1, <2>1, <2>2, <2>3, <2>4
<1> QED
  BY <1>1, <1>2, <1>3
-----------------------------------------------------------------------------
(* What is held, as it grows, shrinks and is given up.                       *)

\* The elements of a sequence of kilobytes.
LEMMA Elements ==
    ASSUME NEW h \in Seq(Data)
    PROVE  /\ Len(h) \in Nat /\ \A i \in 1..Len(h) : h[i] \in Data /\ h[i] \in Nat
           /\ ToSet(h) = {h[i] : i \in 1..Len(h)}
<1>1. Len(h) \in Nat /\ \A i \in 1..Len(h) : h[i] \in Data
  BY ElementOfSeq
<1>2. DOMAIN h = 1..Len(h)
  BY LenProperties
<1> QED
  BY <1>1, <1>2 DEF ToSet, Data

\* A chunk arrives.
LEMMA FollowsMore ==
    ASSUME NEW h \in Seq(Data), NEW c \in Seq(Data), Len(c) > 0,
           NEW from \in Nat, NEW upto \in Nat, NEW gaps, Follows(h, from, upto, gaps),
           \A j \in 1..Len(c) : c[j] = upto + j
    PROVE  Follows(h \o c, from, upto + Len(c), gaps)
<1> DEFINE n == Len(h)
           m == Len(c)
           g == h \o c
<1>1. /\ n \in Nat /\ m \in Nat /\ \A i \in 1..n : h[i] \in Nat
      /\ g \in Seq(Data) /\ Len(g) = n + m
      /\ \A i \in 1..(n + m) : g[i] = IF i <= n THEN h[i] ELSE c[i - n]
  BY Elements, ConcatProperties
<1>2. ToSet(g) = {g[i] : i \in 1..(n + m)} /\ ToSet(h) = {h[i] : i \in 1..n}
  BY <1>1, Elements
<1>3. /\ from <= upto
      /\ \A i \in 1..n : from + i <= h[i] /\ h[i] <= upto
      /\ \A i, j \in 1..n : i < j => j - i <= h[j] - h[i]
      /\ (from + 1)..upto \subseteq ToSet(h) \cup gaps
      /\ gaps = {} => from + n = upto /\ \A i \in 1..n : h[i] = from + i
  BY DEF Follows
<1> HIDE DEF n, m, g
<1>0. \A j \in 1..m : c[j] = upto + j
  BY DEF m
<1>4. \A i \in 1..(n + m) : \/ i \in 1..n /\ g[i] = h[i]
                            \/ i - n \in 1..m /\ g[i] = upto + (i - n)
  <2> SUFFICES ASSUME NEW i \in 1..(n + m)
               PROVE  \/ i \in 1..n /\ g[i] = h[i]
                      \/ i - n \in 1..m /\ g[i] = upto + (i - n)
    OBVIOUS
  <2>1. CASE i <= n
    BY <1>1, <2>1
  <2>2. CASE i > n
    <3>1. i - n \in 1..m /\ g[i] = c[i - n]
      BY <1>1, <2>2
    <3> QED
      BY <1>0, <3>1
  <2> QED
    BY <1>1, <2>1, <2>2
<1>5. from + n <= upto
  <2>1. CASE n = 0
    BY <1>3, <2>1
  <2>2. CASE n # 0
    <3>1. n \in 1..n
      BY <1>1, <2>2
    <3>2. from + n <= h[n] /\ h[n] <= upto /\ h[n] \in Nat
      BY <1>1, <1>3, <3>1
    <3> QED
      BY <1>1, <3>2
  <2> QED
    BY <2>1, <2>2
<1>6. \A i \in 1..(n + m) : from + i <= g[i] /\ g[i] <= upto + m
  <2> SUFFICES ASSUME NEW i \in 1..(n + m)
               PROVE  from + i <= g[i] /\ g[i] <= upto + m
    OBVIOUS
  <2>1. CASE i \in 1..n /\ g[i] = h[i]
    <3>1. h[i] \in Nat /\ from + i <= h[i] /\ h[i] <= upto
      BY <1>1, <1>3, <2>1
    <3> QED
      BY <1>1, <2>1, <3>1
  <2>2. CASE i - n \in 1..m /\ g[i] = upto + (i - n)
    BY <1>1, <1>5, <2>2
  <2> QED
    BY <1>4, <2>1, <2>2
<1>7. \A i, j \in 1..(n + m) : i < j => j - i <= g[j] - g[i]
  <2> SUFFICES ASSUME NEW i \in 1..(n + m), NEW j \in 1..(n + m), i < j
               PROVE  j - i <= g[j] - g[i]
    OBVIOUS
  <2>1. CASE j \in 1..n
    <3>1. i \in 1..n
      BY <1>1, <2>1
    <3>2. g[i] = h[i] /\ g[j] = h[j] /\ j - i <= h[j] - h[i]
      BY <1>1, <1>3, <2>1, <3>1
    <3> QED
      BY <3>2
  <2>2. CASE i \notin 1..n
    BY <1>1, <1>4, <2>2
  <2>3. CASE i \in 1..n /\ j \notin 1..n
    <3>1. g[i] = h[i] /\ g[j] = upto + (j - n)
      BY <1>1, <1>4, <2>3
    <3>2. h[i] + (n - i) <= upto /\ h[i] \in Nat
      <4>1. CASE i = n
        BY <1>1, <1>3, <2>3, <4>1
      <4>2. CASE i < n
        <5>1. n \in 1..n
          BY <1>1, <2>3
        <5>2. n - i <= h[n] - h[i] /\ h[n] <= upto /\ h[n] \in Nat /\ h[i] \in Nat
          BY <1>1, <1>3, <2>3, <4>2, <5>1
        <5> QED
          BY <1>1, <2>3, <5>2, SMTT(20)
      <4> QED
        BY <1>1, <2>3, <4>1, <4>2
    <3> QED
      BY <1>1, <3>1, <3>2
  <2> QED
    BY <2>1, <2>2, <2>3
<1>8. (from + 1)..(upto + m) \subseteq ToSet(g) \cup gaps
  <2> SUFFICES ASSUME NEW k \in (from + 1)..(upto + m), k \notin gaps PROVE k \in ToSet(g)
    OBVIOUS
  <2>1. CASE k <= upto
    <3>1. PICK i \in 1..n : k = h[i]
      BY <1>2, <1>3, <2>1
    <3>2. i \in 1..(n + m) /\ g[i] = k
      BY <1>1, <3>1
    <3> QED
      BY <1>2, <3>2
  <2>2. CASE k > upto
    <3>1. n + (k - upto) \in 1..(n + m) /\ g[n + (k - upto)] = k
      BY <1>1, <1>4, <2>2
    <3> QED
      BY <1>2, <3>1
  <2> QED
    BY <2>1, <2>2
<1>9. gaps = {} => /\ from + (n + m) = upto + m
                   /\ \A i \in 1..(n + m) : g[i] = from + i
  <2> SUFFICES ASSUME gaps = {}
               PROVE  /\ from + (n + m) = upto + m
                      /\ \A i \in 1..(n + m) : g[i] = from + i
    OBVIOUS
  <2>1. from + n = upto /\ \A i \in 1..n : h[i] = from + i
    BY <1>3
  <2>2. \A i \in 1..(n + m) : g[i] = from + i
    <3> SUFFICES ASSUME NEW i \in 1..(n + m) PROVE g[i] = from + i
      OBVIOUS
    <3>1. CASE i \in 1..n /\ g[i] = h[i]
      BY <2>1, <3>1
    <3>2. CASE i - n \in 1..m /\ g[i] = upto + (i - n)
      BY <1>1, <2>1, <3>2
    <3> QED
      BY <1>4, <3>1, <3>2
  <2> QED
    BY <1>1, <2>1, <2>2
<1> QED
  <2>1. from <= upto + m
    BY <1>1, <1>3
  <2> QED
    BY <1>1, <1>6, <1>7, <1>8, <1>9, <2>1 DEF Follows, m, g

\* The backend takes the first: nothing before it was kept back.
LEMMA FollowsLess ==
    ASSUME NEW h \in Seq(Data), h # <<>>,
           NEW from \in Nat, NEW upto \in Nat, NEW gaps, Follows(h, from, upto, gaps)
    PROVE  /\ Head(h) \in Data /\ Tail(h) \in Seq(Data)
           /\ Follows(Tail(h), Head(h), upto, gaps)
           /\ from < Head(h) /\ (from + 1)..(Head(h) - 1) \subseteq gaps
           /\ gaps = {} => Head(h) = from + 1
<1> DEFINE n == Len(h)
           g == Tail(h)
<1>1. /\ n \in Nat /\ n > 0 /\ \A i \in 1..n : h[i] \in Nat
      /\ Head(h) = h[1] /\ Head(h) \in Data /\ g \in Seq(Data) /\ Len(g) = n - 1
      /\ \A i \in 1..(n - 1) : g[i] = h[i + 1]
  BY Elements, HeadTailProperties, EmptySeq
<1>2. ToSet(h) = {h[i] : i \in 1..n} /\ ToSet(g) = {g[i] : i \in 1..(n - 1)}
  BY <1>1, Elements
<1>3. /\ from <= upto
      /\ \A i \in 1..n : from + i <= h[i] /\ h[i] <= upto
      /\ \A i, j \in 1..n : i < j => j - i <= h[j] - h[i]
      /\ (from + 1)..upto \subseteq ToSet(h) \cup gaps
      /\ gaps = {} => from + n = upto /\ \A i \in 1..n : h[i] = from + i
  BY DEF Follows
<1> HIDE DEF n, g
<1>4. \A i \in 1..(n - 1) : i + 1 \in 1..n /\ g[i] = h[i + 1] /\ 1 \in 1..n
  BY <1>1
<1>5. h[1] \in Nat /\ h[1] <= upto /\ from < h[1]
  BY <1>1, <1>3
<1>6. \A i \in 1..(n - 1) : h[1] + i <= g[i] /\ g[i] <= upto
  <2> SUFFICES ASSUME NEW i \in 1..(n - 1) PROVE h[1] + i <= g[i] /\ g[i] <= upto
    OBVIOUS
  <2>1. 1 \in 1..n /\ i + 1 \in 1..n /\ 1 < i + 1
    BY <1>1
  <2>2. /\ (i + 1) - 1 <= h[i + 1] - h[1] /\ h[i + 1] <= upto
        /\ g[i] = h[i + 1] /\ h[i + 1] \in Nat
    BY <1>1, <1>3, <1>4, <2>1
  <2> QED
    BY <1>5, <2>2
<1>7. \A i, j \in 1..(n - 1) : i < j => j - i <= g[j] - g[i]
  <2> SUFFICES ASSUME NEW i \in 1..(n - 1), NEW j \in 1..(n - 1), i < j
               PROVE  j - i <= g[j] - g[i]
    OBVIOUS
  <2>1. (j + 1) - (i + 1) <= h[j + 1] - h[i + 1]
    BY <1>1, <1>3, <1>4
  <2> QED
    BY <1>1, <1>4, <2>1
<1>8. (h[1] + 1)..upto \subseteq ToSet(g) \cup gaps
  <2> SUFFICES ASSUME NEW k \in (h[1] + 1)..upto, k \notin gaps PROVE k \in ToSet(g)
    OBVIOUS
  <2>1. PICK i \in 1..n : k = h[i]
    BY <1>2, <1>3, <1>5
  <2>2. i # 1 /\ i - 1 \in 1..(n - 1)
    BY <1>1, <1>5, <2>1
  <2>3. g[i - 1] = k
    BY <1>1, <2>1, <2>2
  <2> QED
    BY <1>2, <2>2, <2>3
<1>9. gaps = {} => /\ h[1] + (n - 1) = upto
                   /\ \A i \in 1..(n - 1) : g[i] = h[1] + i
  <2> SUFFICES ASSUME gaps = {}
               PROVE  /\ h[1] + (n - 1) = upto
                      /\ \A i \in 1..(n - 1) : g[i] = h[1] + i
    OBVIOUS
  <2>1. from + n = upto /\ \A i \in 1..n : h[i] = from + i
    BY <1>3
  <2>2. 1 \in 1..n /\ h[1] = from + 1
    BY <1>1, <2>1
  <2>3. \A i \in 1..(n - 1) : g[i] = from + (i + 1)
    BY <1>4, <2>1
  <2> QED
    BY <1>1, <2>1, <2>2, <2>3
<1>10. (from + 1)..(h[1] - 1) \subseteq gaps
  <2> SUFFICES ASSUME NEW k \in (from + 1)..(h[1] - 1), k \notin gaps PROVE FALSE
    OBVIOUS
  <2>1. PICK i \in 1..n : k = h[i]
    BY <1>2, <1>3, <1>5
  <2>2. h[i] \in Nat /\ h[1] <= h[i]
    <3>1. CASE i = 1
      BY <1>5, <3>1
    <3>2. CASE i # 1
      <4>1. 1 \in 1..n /\ 1 < i
        BY <1>1, <3>2
      <4>2. i - 1 <= h[i] - h[1] /\ h[i] \in Nat
        BY <1>1, <1>3, <4>1
      <4> QED
        BY <1>5, <4>1, <4>2
    <3> QED
      BY <3>1, <3>2
  <2> QED
    BY <1>5, <2>1, <2>2
<1>11. gaps = {} => h[1] = from + 1
  <2>1. 1 \in 1..n
    BY <1>1
  <2> QED
    BY <1>3, <2>1
<1> QED
  BY <1>1, <1>5, <1>6, <1>7, <1>8, <1>9, <1>10, <1>11 DEF Follows, g

\* The last part is given up.
LEMMA FollowsGivenUp ==
    ASSUME NEW h \in Seq(Data), NEW t \in Seq(Data),
           NEW from \in Nat, NEW upto \in Nat, NEW gaps, Follows(h \o t, from, upto, gaps)
    PROVE  Follows(h, from, upto, gaps \cup ToSet(t))
<1> DEFINE n == Len(h)
           m == Len(t)
           g == h \o t
<1>1. /\ n \in Nat /\ m \in Nat /\ \A i \in 1..n : h[i] \in Nat
      /\ g \in Seq(Data) /\ Len(g) = n + m
      /\ \A i \in 1..(n + m) : g[i] = IF i <= n THEN h[i] ELSE t[i - n]
  BY Elements, ConcatProperties
<1>2. /\ ToSet(g) = {g[i] : i \in 1..(n + m)} /\ ToSet(h) = {h[i] : i \in 1..n}
      /\ ToSet(t) = {t[i] : i \in 1..m}
  BY <1>1, Elements
<1>3. /\ from <= upto
      /\ \A i \in 1..(n + m) : from + i <= g[i] /\ g[i] <= upto
      /\ \A i, j \in 1..(n + m) : i < j => j - i <= g[j] - g[i]
      /\ (from + 1)..upto \subseteq ToSet(g) \cup gaps
      /\ gaps = {} => from + (n + m) = upto /\ \A i \in 1..(n + m) : g[i] = from + i
  BY <1>1 DEF Follows
<1> HIDE DEF n, m, g
<1>4. \A i \in 1..n : i \in 1..(n + m) /\ g[i] = h[i]
  BY <1>1
<1>5. ToSet(g) \subseteq ToSet(h) \cup ToSet(t)
  <2> SUFFICES ASSUME NEW i \in 1..(n + m) PROVE g[i] \in ToSet(h) \cup ToSet(t)
    BY <1>2
  <2>1. CASE i <= n
    BY <1>1, <1>2, <2>1
  <2>2. CASE i > n
    <3>1. i - n \in 1..m /\ g[i] = t[i - n]
      BY <1>1, <2>2
    <3> QED
      BY <1>2, <3>1
  <2> QED
    BY <1>1, <2>1, <2>2
<1>6. gaps \cup ToSet(t) = {} => gaps = {} /\ m = 0
  <2> SUFFICES ASSUME gaps \cup ToSet(t) = {} PROVE m = 0
    OBVIOUS
  <2>1. 1 \in 1..m => t[1] \in ToSet(t)
    BY <1>2
  <2> QED
    BY <1>1, <2>1
<1>7. gaps \cup ToSet(t) = {} => from + n = upto /\ \A i \in 1..n : h[i] = from + i
  BY <1>1, <1>3, <1>4, <1>6
<1>8. /\ \A i \in 1..n : from + i <= h[i] /\ h[i] <= upto
      /\ \A i, j \in 1..n : i < j => j - i <= h[j] - h[i]
  BY <1>3, <1>4
<1>9. (from + 1)..upto \subseteq ToSet(h) \cup (gaps \cup ToSet(t))
  BY <1>3, <1>5
<1> QED
  BY <1>3, <1>7, <1>8, <1>9 DEF Follows, n
\* As much is held as there is room for between the two ends.
LEMMA FollowsLength ==
    ASSUME NEW h \in Seq(Data), NEW from \in Nat, NEW upto \in Nat, NEW gaps,
           Follows(h, from, upto, gaps)
    PROVE  from + Len(h) <= upto
<1>1. Len(h) \in Nat /\ \A i \in 1..Len(h) : h[i] \in Nat
  BY Elements
<1>2. from <= upto /\ \A i \in 1..Len(h) : from + i <= h[i] /\ h[i] <= upto
  BY DEF Follows
<1>3. CASE Len(h) = 0
  BY <1>2, <1>3
<1>4. CASE Len(h) # 0
  <2>1. Len(h) \in 1..Len(h)
    BY <1>1, <1>4
  <2>2. from + Len(h) <= h[Len(h)] /\ h[Len(h)] <= upto /\ h[Len(h)] \in Nat
    BY <1>1, <1>2, <2>1
  <2> QED
    BY <1>1, <2>2
<1> QED
  BY <1>3, <1>4

-----------------------------------------------------------------------------
(* The steps of the sending end.                                             *)

LEMMA FlowInitial == FlowInit => FlowIInv
<1> SUFFICES ASSUME FlowInit PROVE FlowIInv
  OBVIOUS
<1>1. /\ read = 0 /\ acked = 0 /\ window = Initial /\ dst = FALSE /\ tnl = FALSE
      /\ chunks = <<>> /\ reports = <<>> /\ out = <<>> /\ todo = <<>> /\ busy = FALSE
      /\ wrote = 0 /\ reported = 0 /\ sock = <<>> /\ newest = 0 /\ lost = {}
  BY DEF FlowInit
<1>2. FlowTypeOK
  <2>1. /\ read \in 0..MaxData /\ acked \in 0..MaxData /\ window \in Minimum..Maximum
        /\ wrote \in 0..MaxData /\ reported \in 0..MaxData /\ newest \in 0..MaxData
    BY <1>1, FlowBounds DEF FlowBounds
  <2>2. \A S : <<>> \in Seq(S)
    OBVIOUS
  <2>3. Len(out) <= Buffer /\ Len(sock) <= Backlog
    BY <1>1, FlowBounds DEF FlowBounds
  <2> QED
    BY <1>1, <2>1, <2>2, <2>3 DEF FlowTypeOK
<1>3. Held = <<>>
  BY <1>1 DEF Held
<1>4. ChunksFollow
  BY <1>1 DEF ChunksFollow
<1>5. HeldFollows
  BY <1>1, <1>3 DEF HeldFollows, Follows, Arrived
<1>6. Counted
  BY <1>1, FlowBounds DEF Counted, FlowBounds
<1>7. ReportsFollow
  BY <1>1 DEF ReportsFollow
<1>8. HeldBack
  <2>1. ~(read > acked + window)
    BY <1>1, FlowBounds DEF FlowBounds
  <2>2. Ahead(read, acked, window) = FALSE
    BY <2>1 DEF Ahead
  <2> QED
    BY <1>1, <2>2 DEF HeldBack
<1> QED
  BY <1>2, <1>4, <1>5, <1>6, <1>7, <1>8 DEF FlowIInv

\* What neither reads nor writes leaves the data alone.
LEMMA DataStays ==
    ASSUME FlowIInv, UNCHANGED <<read, chunks, receiver, newest>>
    PROVE  ChunksFollow' /\ HeldFollows' /\ Counted'
<1>1. UNCHANGED <<read, chunks, out, todo, busy, wrote, reported, sock, lost, newest>>
  BY DEF receiver
<1>2. Arrived' = Arrived /\ Held' = Held
  BY <1>1 DEF Arrived, Held
<1>3. ChunksFollow'
  BY <1>1 DEF FlowIInv, ChunksFollow
<1>4. HeldFollows'
  BY <1>1, <1>2 DEF FlowIInv, HeldFollows
<1>5. Counted'
  BY <1>1 DEF FlowIInv, Counted
<1> QED
  BY <1>3, <1>4, <1>5

\* The window stays between its bounds.
LEMMA Clamps == ASSUME NEW w \in Int PROVE Clamped(w) \in Minimum..Maximum
  BY FlowBounds DEF Clamped, FlowBounds

LEMMA TunnelBlocksKeeps == ASSUME FlowIInv, TunnelBlocks PROVE FlowIInv'
<1>1. /\ tnl' = TRUE /\ dst' = Ahead(read, acked, window')
      /\ UNCHANGED <<read, acked, chunks, reports, receiver, newest>>
  BY DEF TunnelBlocks
<1>2. window' \in Minimum..Maximum
  <2>1. window \in Nat /\ window >= Minimum /\ window <= Maximum /\ Minimum \in Nat /\ Maximum \in Nat
    BY FlowBounds DEF FlowIInv, FlowTypeOK, FlowBounds
  <2>2. window \div 3 \in Nat
    BY <2>1
  <2> QED
    BY <2>1, <2>2 DEF TunnelBlocks
<1>3. FlowTypeOK'
  BY <1>1, <1>2 DEF FlowIInv, FlowTypeOK, receiver, Ahead
<1>4. ChunksFollow' /\ HeldFollows' /\ Counted'
  BY <1>1, DataStays
<1>5. ReportsFollow' /\ HeldBack'
  BY <1>1 DEF FlowIInv, ReportsFollow, HeldBack, Ahead, receiver
<1> QED
  BY <1>3, <1>4, <1>5 DEF FlowIInv

LEMMA TunnelUnblocksKeeps == ASSUME FlowIInv, TunnelUnblocks PROVE FlowIInv'
<1>1. /\ tnl' = FALSE /\ dst' = Ahead(read, acked, window)
      /\ UNCHANGED <<read, acked, window, chunks, reports, receiver, newest>>
  BY DEF TunnelUnblocks
<1>2. dst' \in BOOLEAN
  <2>1. read \in Int /\ acked + window \in Int
    BY FlowBounds DEF FlowIInv, FlowTypeOK, FlowBounds
  <2> QED
    BY <1>1, <2>1 DEF Ahead
<1>3. FlowTypeOK'
  BY <1>1, <1>2 DEF FlowIInv, FlowTypeOK, receiver
<1>4. ChunksFollow' /\ HeldFollows' /\ Counted'
  BY <1>1, DataStays
<1>5. ReportsFollow' /\ HeldBack'
  BY <1>1 DEF FlowIInv, ReportsFollow, HeldBack, Ahead, receiver
<1> QED
  BY <1>3, <1>4, <1>5 DEF FlowIInv

LEMMA ThrottledKeeps == ASSUME FlowIInv, Throttled PROVE FlowIInv'
<1>1. /\ dst' = Ahead(read, acked, window')
      /\ UNCHANGED <<read, acked, tnl, chunks, reports, receiver, newest>>
  BY DEF Throttled
<1>2. window' \in Minimum..Maximum
  <2>1. window \in Nat
    BY FlowBounds DEF FlowIInv, FlowTypeOK, FlowBounds
  <2>2. window - (1 + window \div 5) \in Int
    BY <2>1
  <2> QED
    BY <2>2, Clamps DEF Throttled
<1>3. FlowTypeOK'
  BY <1>1, <1>2 DEF FlowIInv, FlowTypeOK, receiver, Ahead
<1>4. ChunksFollow' /\ HeldFollows' /\ Counted'
  BY <1>1, DataStays
<1>5. ReportsFollow' /\ HeldBack'
  BY <1>1 DEF FlowIInv, ReportsFollow, HeldBack, Ahead, receiver
<1> QED
  BY <1>3, <1>4, <1>5 DEF FlowIInv

LEMMA ReportArrivesKeeps == ASSUME FlowIInv, ReportArrives PROVE FlowIInv'
<1> DEFINE n == Len(reports)
<1>1. /\ reports # <<>> /\ reports' = Tail(reports) /\ acked' = Head(reports)
      /\ window' = Clamped(Grown(acked')) /\ dst' = Ahead(read, acked', window')
      /\ UNCHANGED <<read, tnl, chunks, receiver, newest>>
  BY DEF ReportArrives
<1>2. /\ reports \in Seq(0..MaxData) /\ read \in Nat /\ window \in Nat /\ reported \in 0..MaxData
      /\ MaxData \in Nat
  BY FlowBounds DEF FlowIInv, FlowTypeOK, FlowBounds
<1>3. /\ n \in Nat /\ n > 0 /\ acked' = reports[1] /\ acked' \in 0..MaxData
      /\ reports' \in Seq(0..MaxData) /\ Len(reports') = n - 1
      /\ \A i \in 1..(n - 1) : reports'[i] = reports[i + 1]
  BY <1>1, <1>2, HeadTailProperties, LenProperties, EmptySeq, ElementOfSeq
<1>4. window' \in Minimum..Maximum
  <2>1. acked' \in Int
    BY <1>2, <1>3
  <2>2. read - acked' \in Int /\ (read - acked') \div 8 \in Int
    BY <1>2, <2>1
  <2>3. Grown(acked') \in Int
    BY <1>2, <2>2 DEF Grown
  <2> QED
    BY <1>1, <2>3, Clamps
<1>5. FlowTypeOK'
  BY <1>1, <1>3, <1>4 DEF FlowIInv, FlowTypeOK, receiver, Ahead
<1>6. ChunksFollow' /\ HeldFollows' /\ Counted'
  BY <1>1, DataStays
<1>7. ReportsFollow'
  <2>1. /\ \A i \in 1..n : acked <= reports[i] /\ reports[i] <= reported
        /\ \A i, j \in 1..n : i < j => reports[i] <= reports[j]
        /\ reported = reports[n]
        /\ \A i \in 1..n : reports[i] \in Nat
        /\ reported' = reported
    <3>1. \A i \in 1..n : reports[i] \in 0..MaxData
      BY <1>2, ElementOfSeq
    <3>2. \A i \in 1..n : reports[i] \in Nat
      BY <1>2, <3>1
    <3> QED
      BY <1>1, <3>2 DEF FlowIInv, ReportsFollow, receiver
  <2> DEFINE rs == reports'
             first == acked'
  <2>2. /\ first = reports[1] /\ first \in Nat /\ Len(rs) = n - 1
        /\ \A i \in 1..(n - 1) : rs[i] = reports[i + 1]
        /\ rs = <<>> => Len(rs) = 0
    BY <1>2, <1>3
  <2>0. rs # <<>> => n > 1
    BY <1>3, EmptySeq
  <2> HIDE DEF n, rs, first
  <2>3. first <= reported
    BY <1>3, <2>1, <2>2
  <2>4. \A i \in 1..(n - 1) : first <= rs[i] /\ rs[i] <= reported
    <3> SUFFICES ASSUME NEW i \in 1..(n - 1) PROVE first <= rs[i] /\ rs[i] <= reported
      OBVIOUS
    <3>1. 1 \in 1..n /\ i + 1 \in 1..n /\ 1 < i + 1
      BY <1>3
    <3> QED
      BY <2>1, <2>2, <3>1
  <2>5. \A i, j \in 1..(n - 1) : i < j => rs[i] <= rs[j]
    <3> SUFFICES ASSUME NEW i \in 1..(n - 1), NEW j \in 1..(n - 1), i < j
                 PROVE  rs[i] <= rs[j]
      OBVIOUS
    <3>1. i + 1 \in 1..n /\ j + 1 \in 1..n /\ i + 1 < j + 1
      BY <1>3
    <3> QED
      BY <2>1, <2>2, <3>1
  <2>6. reported = IF rs = <<>> THEN first ELSE rs[Len(rs)]
    <3>1. CASE rs = <<>>
      BY <1>3, <2>1, <2>2, <3>1
    <3>2. CASE rs # <<>>
      <4>1. n - 1 \in 1..(n - 1) /\ (n - 1) + 1 = n
        BY <1>3, <2>0, <3>2
      <4>2. rs[n - 1] = reports[n]
        BY <2>2, <4>1
      <4> QED
        BY <2>1, <2>2, <3>2, <4>2
    <3> QED
      BY <3>1, <3>2
  <2> QED
    BY <2>1, <2>2, <2>3, <2>4, <2>5, <2>6 DEF ReportsFollow, rs, first
<1>8. HeldBack'
  BY <1>1 DEF HeldBack, Ahead
<1> QED
  BY <1>5, <1>6, <1>7, <1>8 DEF FlowIInv
\* A chunk in the tunnel.
LEMMA ChunkType ==
    ASSUME FlowIInv, NEW k \in 1..Len(chunks)
    PROVE  /\ Len(chunks) \in Nat
           /\ chunks[k] \in Seq(Data) /\ Len(chunks[k]) \in Nat /\ Len(chunks[k]) > 0
           /\ chunks[k][1] \in Data /\ chunks[k][1] \in Nat
           /\ \A j \in 1..Len(chunks[k]) :
                 /\ chunks[k][j] = chunks[k][1] + (j - 1) /\ chunks[k][j] <= read
                 /\ chunks[k][j] \in Nat
           /\ chunks[k][1] + Len(chunks[k])
                 = IF k = Len(chunks) THEN read + 1 ELSE chunks[k + 1][1]
<1>1. chunks \in Seq(Seq(Data)) /\ Len(chunks) \in Nat
  BY LenProperties DEF FlowIInv, FlowTypeOK, Data
<1>2. chunks[k] \in Seq(Data)
  BY <1>1, ElementOfSeq
<1>3. /\ Len(chunks[k]) > 0
      /\ \A j \in 1..Len(chunks[k]) :
            chunks[k][j] = chunks[k][1] + (j - 1) /\ chunks[k][j] <= read
      /\ chunks[k][1] + Len(chunks[k])
            = IF k = Len(chunks) THEN read + 1 ELSE chunks[k + 1][1]
  BY DEF FlowIInv, ChunksFollow
<1>4. Len(chunks[k]) \in Nat /\ 1 \in 1..Len(chunks[k])
  BY <1>2, <1>3, LenProperties
<1>5. chunks[k][1] \in Data
  BY <1>2, <1>4, ElementOfSeq
<1>6. \A j \in 1..Len(chunks[k]) : chunks[k][j] \in Nat
  BY <1>2, Elements
<1> QED
  BY <1>1, <1>2, <1>3, <1>4, <1>5, <1>6 DEF Data

LEMMA ReadKeeps == ASSUME FlowIInv, NEW n \in Reads, Read(n) PROVE FlowIInv'
<1> DEFINE c == [i \in 1..n |-> read + i]
           m == Len(chunks)
<1>1. /\ read + n <= MaxData /\ read' = read + n
      /\ chunks' = Append(chunks, c) /\ dst' = Ahead(read', acked, window)
      /\ UNCHANGED <<acked, window, tnl, reports, receiver, newest>>
      /\ UNCHANGED <<out, todo, busy, wrote, reported, sock, lost>>
  BY DEF Read, receiver
<1>2. /\ n \in Nat /\ n > 0 /\ read \in Nat /\ MaxData \in Nat
      /\ acked \in Int /\ window \in Int
  BY FlowBounds DEF FlowBounds, FlowIInv, FlowTypeOK
<1>3. /\ c \in Seq(Data) /\ Len(c) = n /\ \A j \in 1..n : c[j] = read + j
  BY <1>1, <1>2 DEF Data
<1>4. /\ chunks \in Seq(Seq(Data)) /\ m \in Nat /\ (chunks = <<>> <=> m = 0)
  BY LenProperties, EmptySeq DEF FlowIInv, FlowTypeOK, Data
<1> HIDE DEF c
<1>5. /\ chunks' \in Seq(Seq(Data)) /\ Len(chunks') = m + 1 /\ chunks' # <<>>
      /\ \A k \in 1..m : chunks'[k] = chunks[k]
      /\ chunks'[m + 1] = c
  BY <1>1, <1>3, <1>4, AppendProperties
<1> HIDE DEF m
<1>6. Arrived' = Arrived /\ Held' = Held
  <2>1. CASE m = 0
    <3>1. chunks'[1] = c /\ c[1] = read + 1
      BY <1>2, <1>3, <1>5, <2>1
    <3> QED
      BY <1>1, <1>2, <1>4, <1>5, <2>1, <3>1 DEF Arrived, Held
  <2>2. CASE m # 0
    <3>1. chunks'[1] = chunks[1]
      BY <1>4, <1>5, <2>2
    <3> QED
      BY <1>1, <1>4, <1>5, <2>2, <3>1 DEF Arrived, Held
  <2> QED
    BY <2>1, <2>2
<1>7. ChunksFollow'
  <2> SUFFICES ASSUME NEW k \in 1..Len(chunks')
               PROVE  /\ Len(chunks'[k]) > 0
                      /\ \A j \in 1..Len(chunks'[k]) :
                            /\ chunks'[k][j] = chunks'[k][1] + (j - 1)
                            /\ chunks'[k][j] <= read'
                      /\ chunks'[k][1] + Len(chunks'[k])
                            = IF k = Len(chunks') THEN read' + 1 ELSE chunks'[k + 1][1]
    BY DEF ChunksFollow
  <2>1. CASE k = m + 1
    <3>1. chunks'[k] = c /\ c[1] = read + 1 /\ k = Len(chunks')
      BY <1>2, <1>3, <1>5, <2>1
    <3>2. /\ Len(c) > 0
          /\ \A j \in 1..Len(c) : c[j] = c[1] + (j - 1) /\ c[j] <= read'
          /\ c[1] + Len(c) = read' + 1
      BY <1>1, <1>2, <1>3, <3>1
    <3> QED
      BY <3>1, <3>2
  <2>2. CASE k # m + 1
    <3>1. k \in 1..m /\ chunks'[k] = chunks[k] /\ k # Len(chunks')
      BY <1>4, <1>5, <2>2
    <3>2. /\ Len(chunks[k]) > 0 /\ Len(chunks[k]) \in Nat /\ chunks[k][1] \in Nat
          /\ \A j \in 1..Len(chunks[k]) :
                /\ chunks[k][j] = chunks[k][1] + (j - 1) /\ chunks[k][j] <= read
                /\ chunks[k][j] \in Nat
          /\ chunks[k][1] + Len(chunks[k])
                = IF k = m THEN read + 1 ELSE chunks[k + 1][1]
      BY <3>1, ChunkType DEF m
    <3>3. chunks[k][1] + Len(chunks[k]) = chunks'[k + 1][1]
      <4>1. CASE k = m
        BY <1>2, <1>3, <1>5, <3>2, <4>1
      <4>2. CASE k # m
        <5>1. k + 1 \in 1..m /\ chunks'[k + 1] = chunks[k + 1]
          BY <1>4, <1>5, <3>1, <4>2
        <5> QED
          BY <3>2, <4>2, <5>1
      <4> QED
        BY <4>1, <4>2
    <3>4. \A j \in 1..Len(chunks[k]) : chunks[k][j] <= read'
      BY <1>1, <1>2, <3>2, SMTT(20)
    <3> QED
      BY <3>1, <3>2, <3>3, <3>4
  <2> QED
    BY <2>1, <2>2
<1>8. HeldFollows' /\ Counted' /\ ReportsFollow' /\ HeldBack'
  BY <1>1, <1>6 DEF FlowIInv, HeldFollows, Counted, ReportsFollow, HeldBack, Ahead
<1>9. FlowTypeOK'
  <2>1. read' \in 0..MaxData
    BY <1>1, <1>2
  <2>2. dst' \in BOOLEAN
    BY <1>1, <1>2, <2>1 DEF Ahead
  <2> QED
    BY <1>1, <1>5, <2>1, <2>2 DEF FlowIInv, FlowTypeOK, Data
<1> QED
  BY <1>7, <1>8, <1>9 DEF FlowIInv

-----------------------------------------------------------------------------
(* The steps of the receiving end.                                           *)

\* The first chunk leaves the tunnel: it goes on where the last one ended.
LEMMA ChunkLeaves ==
    ASSUME FlowIInv, chunks # <<>>, chunks' = Tail(chunks), read' = read
    PROVE  /\ Head(chunks) \in Seq(Data) /\ Len(Head(chunks)) > 0
           /\ \A j \in 1..Len(Head(chunks)) : Head(chunks)[j] = Arrived + j
           /\ Arrived' = Arrived + Len(Head(chunks))
           /\ ChunksFollow' /\ chunks' \in Seq(Seq(Data))
           /\ Arrived' \in 0..MaxData
<1> DEFINE m == Len(chunks)
           c == Head(chunks)
<1>1. /\ chunks \in Seq(Seq(Data)) /\ m \in Nat /\ m > 0 /\ read \in Nat /\ read <= MaxData
      /\ MaxData \in Nat
  BY LenProperties, EmptySeq, FlowBounds DEF FlowIInv, FlowTypeOK, Data, FlowBounds
<1>2. /\ c = chunks[1] /\ chunks' \in Seq(Seq(Data)) /\ Len(chunks') = m - 1
      /\ \A k \in 1..(m - 1) : chunks'[k] = chunks[k + 1]
  BY <1>1, HeadTailProperties
<1>3. 1 \in 1..m
  BY <1>1
<1>4. /\ c \in Seq(Data) /\ Len(c) > 0 /\ Len(c) \in Nat /\ c[1] \in Nat
      /\ \A j \in 1..Len(c) : c[j] = c[1] + (j - 1) /\ c[j] <= read
      /\ m = 1 => c[1] + Len(c) = read + 1
      /\ m # 1 => c[1] + Len(c) = chunks[2][1]
  <2>1. /\ chunks[1] \in Seq(Data) /\ Len(chunks[1]) > 0 /\ Len(chunks[1]) \in Nat
        /\ chunks[1][1] \in Nat
        /\ \A j \in 1..Len(chunks[1]) :
              chunks[1][j] = chunks[1][1] + (j - 1) /\ chunks[1][j] <= read
        /\ chunks[1][1] + Len(chunks[1])
              = IF 1 = m THEN read + 1 ELSE chunks[1 + 1][1]
    BY <1>3, ChunkType
  <2> HIDE DEF m
  <2>2. m # 1 => chunks[1][1] + Len(chunks[1]) = chunks[2][1]
    BY <2>1
  <2> QED
    BY <1>2, <2>1, <2>2
<1>5. chunks' = <<>> <=> m = 1
  <2>1. chunks' = <<>> <=> Len(chunks') = 0
    BY <1>2, EmptySeq
  <2> QED
    BY <1>1, <1>2, <2>1, SMTT(20)
<1>6. Arrived = c[1] - 1
  BY <1>2 DEF Arrived
<1>0. PICK a \in Nat, n \in Nat : a = c[1] /\ n = Len(c)
  BY <1>4
<1> HIDE DEF c
<1>7. Arrived' = Arrived + Len(c)
  <2>1. CASE m = 1
    <3>1. Arrived' = read
      BY <1>5, <2>1 DEF Arrived
    <3>2. a + n = read + 1
      BY <1>0, <1>4, <2>1
    <3>3. Arrived = a - 1
      BY <1>0, <1>6
    <3>4. Arrived' = Arrived + n
      BY <1>1, <3>1, <3>2, <3>3
    <3> QED
      BY <1>0, <3>4
  <2>2. CASE m # 1
    <3>1. chunks'[1] = chunks[2]
      BY <1>1, <1>2, <2>2
    <3>2. Arrived' = chunks[2][1] - 1
      BY <1>5, <2>2, <3>1 DEF Arrived
    <3>3. Arrived' = (a + n) - 1
      BY <1>0, <1>4, <2>2, <3>2
    <3>4. Arrived = a - 1
      BY <1>0, <1>6
    <3>5. Arrived' = Arrived + n
      BY <3>3, <3>4
    <3> QED
      BY <1>0, <3>5
  <2> QED
    BY <2>1, <2>2
<1>8. \A j \in 1..Len(c) : c[j] = Arrived + j
  BY <1>4, <1>6
<1>9. ChunksFollow'
  <2> SUFFICES ASSUME NEW k \in 1..Len(chunks')
               PROVE  /\ Len(chunks'[k]) > 0
                      /\ \A j \in 1..Len(chunks'[k]) :
                            /\ chunks'[k][j] = chunks'[k][1] + (j - 1)
                            /\ chunks'[k][j] <= read'
                      /\ chunks'[k][1] + Len(chunks'[k])
                            = IF k = Len(chunks') THEN read' + 1 ELSE chunks'[k + 1][1]
    BY DEF ChunksFollow
  <2>1. k + 1 \in 1..m /\ chunks'[k] = chunks[k + 1]
    BY <1>1, <1>2
  <2>2. /\ Len(chunks[k + 1]) > 0
        /\ \A j \in 1..Len(chunks[k + 1]) :
              chunks[k + 1][j] = chunks[k + 1][1] + (j - 1) /\ chunks[k + 1][j] <= read
        /\ chunks[k + 1][1] + Len(chunks[k + 1])
              = IF k + 1 = m THEN read + 1 ELSE chunks[(k + 1) + 1][1]
    BY <2>1, ChunkType
  <2>3. k = Len(chunks') <=> k + 1 = m
    BY <1>1, <1>2
  <2>4. k + 1 # m => chunks'[k + 1] = chunks[(k + 1) + 1]
    <3>1. k + 1 # m => k + 1 \in 1..(m - 1)
      BY <1>1, <2>1
    <3> QED
      BY <1>2, <3>1
  <2> QED
    BY <2>1, <2>2, <2>3, <2>4
<1>10. Arrived' \in 0..MaxData
  <2>1. c[1] + Len(c) <= read + 1
    <3>1. Len(c) \in 1..Len(c)
      BY <1>4
    <3>2. c[Len(c)] = c[1] + (Len(c) - 1) /\ c[Len(c)] <= read
      BY <1>4, <3>1
    <3> QED
      BY <1>1, <1>4, <3>2
  <2> QED
    BY <1>1, <1>4, <1>6, <1>7, <2>1, SMTT(20)
<1> QED
  BY <1>2, <1>4, <1>7, <1>8, <1>9, <1>10 DEF c

\* Concatenation of data is associative.
LEMMA DataAssociates ==
  ASSUME NEW a \in Seq(Data), NEW b \in Seq(Data), NEW c \in Seq(Data)
  PROVE  (a \o b) \o c = a \o (b \o c)
BY ConcatAssociative, SMTT(30)


\* A write of s, which goes after what the kernel holds: what it takes of that
\* is counted, and the rest stays behind it.
LEMMA Writes ==
    ASSUME FlowIInv, NEW s \in Seq(Data), NEW upto \in 0..MaxData,
           Follows(sock \o s, newest, upto, lost)
    PROVE  /\ sock \o Taken(s) \in Seq(Data) /\ Len(sock \o Taken(s)) <= Backlog
           /\ Untaken(s) \in Seq(Data)
           /\ Len(Taken(s)) \in Nat /\ Len(Untaken(s)) <= Len(s)
           /\ (sock \o Taken(s)) \o Untaken(s) = sock \o s
           /\ Len(sock \o Taken(s)) = Len(sock) + Len(Taken(s))
           /\ newest + (Len(sock) + Len(Taken(s))) <= upto
<1>1. /\ sock \in Seq(Data) /\ newest \in Nat /\ upto \in Nat
      /\ FlowTypeOK
  BY FlowBounds DEF FlowIInv, FlowTypeOK, FlowBounds, Data
<1>2. /\ Taken(s) \in Seq(Data) /\ Untaken(s) \in Seq(Data)
      /\ Taken(s) \o Untaken(s) = s
      /\ Len(Taken(s)) + Len(Untaken(s)) = Len(s)
      /\ Len(sock) + Len(Taken(s)) <= Backlog
  BY <1>1, TakenFirst
<1>3. /\ Len(Taken(s)) \in Nat /\ Len(Untaken(s)) \in Nat /\ Len(sock) \in Nat
      /\ Len(s) \in Nat
  BY <1>1, <1>2, LenProperties
<1>4. /\ sock \o Taken(s) \in Seq(Data)
      /\ Len(sock \o Taken(s)) = Len(sock) + Len(Taken(s))
  BY <1>1, <1>2, ConcatProperties
<1>5. (sock \o Taken(s)) \o Untaken(s) = sock \o s
  <2> DEFINE t == Taken(s)
             u == Untaken(s)
  <2>0. sock \in Seq(Data) /\ t \in Seq(Data) /\ u \in Seq(Data)
    BY <1>1, <1>2
  <2>1. t \o u = s
    BY <1>2
  <2> HIDE DEF t, u
  <2>2. (sock \o t) \o u = sock \o (t \o u)
    BY <2>0, DataAssociates
  <2>3. (sock \o t) \o u = sock \o s
    BY <2>1, <2>2
  <2> QED
    BY <2>3 DEF t, u
<1>6. sock \o s \in Seq(Data) /\ Len(sock \o s) = Len(sock) + Len(s)
  BY <1>1, ConcatProperties
<1>7. newest + (Len(sock) + Len(s)) <= upto
  <2>1. newest + Len(sock \o s) <= upto
    BY <1>1, <1>6, FollowsLength
  <2> QED
    BY <1>6, <2>1
<1>8. Len(Taken(s)) <= Len(s) /\ Len(Untaken(s)) <= Len(s)
  BY <1>2, <1>3
<1>9. newest + (Len(sock) + Len(Taken(s))) <= upto
  BY <1>1, <1>3, <1>7, <1>8
<1> QED
  BY <1>2, <1>3, <1>4, <1>5, <1>8, <1>9

\* Whatever is written and whatever wrote it: all of it is still held, in its
\* order, and counted once.
LEMMA WriteKeeps ==
    ASSUME FlowIInv, NEW s \in Seq(Data), NEW upto \in 0..MaxData,
           Follows(sock \o s, newest, upto, lost), Arrived' = upto,
           sock' = sock \o Taken(s),
           out' \in Seq(Data), todo' \in Seq(Data), out' \o todo' = Untaken(s),
           Len(out') <= Buffer, busy' \in BOOLEAN,
           chunks' \in Seq(Seq(Data)), ChunksFollow',
           UNCHANGED <<sender, lost, newest>>,
           \/ todo' = <<>> /\ Report(wrote + Len(Taken(s)))
           \/ /\ busy' /\ wrote' = wrote + Len(Taken(s))
              /\ UNCHANGED <<reported, reports>>
    PROVE  FlowIInv'
<1> DEFINE w == wrote + Len(Taken(s))
<1>1. /\ FlowTypeOK /\ newest \in Nat /\ read \in Nat /\ reported \in Nat /\ wrote \in Nat
      /\ MaxData \in Nat
  BY FlowBounds DEF FlowIInv, FlowTypeOK, FlowBounds
<1>2. /\ sock' \in Seq(Data) /\ Len(sock') <= Backlog /\ Len(Taken(s)) \in Nat
      /\ sock' \o Untaken(s) = sock \o s
      /\ Len(sock') = Len(sock) + Len(Taken(s)) /\ Len(sock) \in Nat
      /\ newest + (Len(sock) + Len(Taken(s))) <= upto
  BY <1>1, Writes, HeldType
<1>3. /\ UNCHANGED <<read, acked, window, dst, tnl, lost, newest>>
      /\ reported + wrote <= newest + Len(sock)
      /\ lost = {} => reported + wrote = newest + Len(sock)
  BY DEF sender, FlowIInv, Counted
<1>4. /\ w \in Nat /\ reported + w <= newest + Len(sock')
      /\ lost = {} => reported + w = newest + Len(sock')
      /\ newest + Len(sock') <= MaxData /\ reported + w <= MaxData
  <2>1. PICK n \in Nat, m \in Nat : n = Len(Taken(s)) /\ m = Len(sock)
    BY <1>2
  <2>2. w = wrote + n /\ Len(sock') = m + n /\ upto \in Nat /\ upto <= MaxData
    BY <1>1, <1>2, <2>1
  <2>3. /\ reported + wrote <= newest + m /\ newest + (m + n) <= upto
        /\ lost = {} => reported + wrote = newest + m
    BY <1>2, <1>3, <2>1
  <2> HIDE DEF w
  <2> QED
    BY <1>1, <2>2, <2>3
<1> HIDE DEF w
<1>5. HeldFollows'
  <2>1. Held' = sock \o s
    BY <1>2 DEF Held
  <2> QED
    BY <1>3, <2>1 DEF HeldFollows
<1>6. HeldBack'
  BY <1>3 DEF FlowIInv, HeldBack, Ahead
<1>7. /\ ReportsFollow' /\ reports' \in Seq(0..MaxData)
      /\ wrote' \in 0..MaxData /\ reported' \in 0..MaxData
      /\ reported' + wrote' = reported + w
      /\ ~busy' => wrote' < Increment /\ todo' = <<>>
  <2>1. CASE todo' = <<>> /\ Report(w)
    BY <1>1, <1>3, <1>4, <2>1, ReportKeeps DEF FlowIInv
  <2>2. CASE busy' /\ wrote' = w /\ UNCHANGED <<reported, reports>>
    <3>1. wrote' \in 0..MaxData
      BY <1>1, <1>4, <2>2
    <3> QED
      BY <1>3, <2>2, <3>1 DEF FlowIInv, FlowTypeOK, ReportsFollow
  <2> QED
    BY <2>1, <2>2 DEF w
<1>8. Counted'
  BY <1>3, <1>4, <1>7 DEF Counted
<1>9. FlowTypeOK'
  BY <1>2, <1>3, <1>7 DEF FlowIInv, FlowTypeOK, Data
<1> QED
  BY <1>5, <1>6, <1>7, <1>8, <1>9 DEF FlowIInv

LEMMA ChunkArrivesKeeps == ASSUME FlowIInv, ChunkArrives PROVE FlowIInv'
<1> DEFINE c == Head(chunks)
           s == out \o c
           rest == Untaken(s)
           old == IF Len(rest) > Len(c) THEN Len(rest) - Len(c) ELSE 0
           upto == Arrived + Len(c)
<1>1. /\ chunks # <<>> /\ ~busy /\ chunks' = Tail(chunks) /\ UNCHANGED <<sender, lost, newest>>
      /\ read' = read
  BY DEF ChunkArrives, sender
<1>2. /\ c \in Seq(Data) /\ Len(c) > 0 /\ \A j \in 1..Len(c) : c[j] = Arrived + j
      /\ Arrived' = upto /\ ChunksFollow' /\ chunks' \in Seq(Seq(Data))
      /\ upto \in 0..MaxData
  BY <1>1, ChunkLeaves
<1>3. \/ /\ Len(rest) <= Buffer
         /\ sock' = sock \o Taken(s) /\ Report(wrote + Len(Taken(s)))
         /\ out' = rest /\ UNCHANGED <<todo, busy>>
      \/ /\ sock' = sock \o Taken(s) /\ wrote' = wrote + Len(Taken(s))
         /\ out' = SubSeq(rest, 1, old) /\ todo' = SubSeq(rest, old + 1, Len(rest))
         /\ busy' = TRUE /\ UNCHANGED <<reported, reports>>
  BY DEF ChunkArrives, Written, InTurn
<1> HIDE DEF c
<1>4. /\ out \in Seq(Data) /\ sock \in Seq(Data) /\ todo = <<>> /\ newest \in Nat
      /\ Len(out) <= Buffer /\ FlowTypeOK /\ busy \in BOOLEAN
      /\ Buffer \in Nat
  BY <1>1, FlowBounds DEF FlowIInv, FlowTypeOK, Counted, Data, FlowBounds
<1>5. s \in Seq(Data) /\ Len(s) = Len(out) + Len(c)
  BY <1>2, <1>4, ConcatProperties
<1>6. sock \o s = Held \o c
  <2>1. out \o todo = out
    BY <1>4, ConcatEmptySeq
  <2>2. (sock \o out) \o c = sock \o (out \o c)
    BY <1>2, <1>4, DataAssociates
  <2> QED
    BY <2>1, <2>2 DEF Held
<1>7. Follows(sock \o s, newest, upto, lost)
  <2>1. Held \in Seq(Data) /\ Arrived \in Nat
    BY <1>4, HeldType, WrittenWasRead
  <2>2. Follows(Held, newest, Arrived, lost)
    BY DEF FlowIInv, HeldFollows
  <2>3. Follows(Held \o c, newest, upto, lost)
    BY <1>2, <1>4, <2>1, <2>2, FollowsMore
  <2> QED
    BY <1>6, <2>3
<1> HIDE DEF s, upto
<1>8. rest \in Seq(Data) /\ Len(rest) <= Len(s)
  BY <1>2, <1>5, <1>7, Writes
<1> HIDE DEF rest
<1>9. CASE /\ Len(rest) <= Buffer
           /\ sock' = sock \o Taken(s) /\ Report(wrote + Len(Taken(s)))
           /\ out' = rest /\ UNCHANGED <<todo, busy>>
  <2>1. /\ out' \in Seq(Data) /\ todo' = <<>> /\ todo' \in Seq(Data)
        /\ Len(out') <= Buffer /\ busy' \in BOOLEAN
    BY <1>4, <1>8, <1>9
  <2>2. out' \o todo' = Untaken(s)
    BY <1>8, <1>9, <2>1, ConcatEmptySeq DEF rest
  <2> QED
    BY <1>1, <1>2, <1>5, <1>7, <1>9, <2>1, <2>2, WriteKeeps
<1>10. CASE /\ sock' = sock \o Taken(s) /\ wrote' = wrote + Len(Taken(s))
            /\ out' = SubSeq(rest, 1, old) /\ todo' = SubSeq(rest, old + 1, Len(rest))
            /\ busy' = TRUE /\ UNCHANGED <<reported, reports>>
  <2>1. /\ out' \in Seq(Data) /\ todo' \in Seq(Data) /\ Len(out') <= Len(out)
        /\ out' \o todo' = rest
    <3>1. /\ Len(rest) <= Len(out) + Len(c)
          /\ Len(rest) \in Nat /\ Len(c) \in Nat /\ Len(out) \in Nat
      BY <1>2, <1>4, <1>5, <1>8, LenProperties
    <3>2. old \in 0..Len(rest) /\ old <= Len(out)
      BY <3>1
    <3> HIDE DEF old
    <3> QED
      BY <1>8, <1>10, <3>2, PutBack
  <2>2. Len(out') <= Buffer
    BY <1>4, <2>1, LenProperties
  <2>3. out' \o todo' = Untaken(s) /\ busy' \in BOOLEAN
    BY <1>10, <2>1 DEF rest
  <2> QED
    BY <1>1, <1>2, <1>5, <1>7, <1>10, <2>1, <2>2, <2>3, WriteKeeps
<1> QED
  BY <1>3, <1>9, <1>10
LEMMA FlushKeeps == ASSUME FlowIInv, Flush PROVE FlowIInv'
<1> DEFINE s == out \o todo
           rest == Untaken(s)
           old == IF Len(rest) > Len(todo) THEN Len(rest) - Len(todo) ELSE 0
<1>1. /\ out' = SubSeq(rest, 1, old) /\ todo' = SubSeq(rest, old + 1, Len(rest))
      /\ busy' = (rest # <<>>)
      /\ sock' = sock \o Taken(s)
      /\ \/ rest = <<>> /\ Report(wrote + Len(Taken(s)))
         \/ /\ rest # <<>> /\ wrote' = wrote + Len(Taken(s))
            /\ UNCHANGED <<reported, reports>>
      /\ UNCHANGED <<sender, chunks, lost, newest>>
  BY DEF Flush, Written
<1>2. /\ out \in Seq(Data) /\ todo \in Seq(Data) /\ newest \in Nat /\ Len(out) <= Buffer
      /\ FlowTypeOK /\ Buffer \in Nat /\ chunks \in Seq(Seq(Data)) /\ MaxData \in Nat
      /\ read \in 0..MaxData
  BY FlowBounds DEF FlowIInv, FlowTypeOK, FlowBounds, Data
<1>3. s \in Seq(Data) /\ Len(s) = Len(out) + Len(todo)
  BY <1>2, ConcatProperties
<1>4. /\ Follows(sock \o s, newest, Arrived, lost)
      /\ Arrived \in 0..MaxData
  BY <1>2, WrittenWasRead DEF FlowIInv, HeldFollows, Held
<1> HIDE DEF s
<1>5. rest \in Seq(Data) /\ Len(rest) <= Len(s)
  BY <1>2, <1>3, <1>4, Writes
<1> HIDE DEF rest
<1>6. /\ out' \in Seq(Data) /\ todo' \in Seq(Data) /\ Len(out') <= Len(out)
      /\ out' \o todo' = rest
  <2>1. /\ Len(rest) <= Len(out) + Len(todo)
        /\ Len(rest) \in Nat /\ Len(todo) \in Nat /\ Len(out) \in Nat
    BY <1>2, <1>3, <1>5, LenProperties
  <2>2. old \in 0..Len(rest) /\ old <= Len(out)
    BY <2>1
  <2> HIDE DEF old
  <2> QED
    BY <1>1, <1>5, <2>2, PutBack
<1> HIDE DEF old
<1>7. Len(out') <= Buffer /\ busy' \in BOOLEAN /\ out' \o todo' = Untaken(s)
  <2>1. Len(out') \in Nat /\ Len(out) \in Nat
    BY <1>2, <1>6, LenProperties
  <2>2. Len(out') <= Buffer
    BY <1>2, <1>6, <2>1
  <2> QED
    BY <1>1, <1>6, <2>2 DEF rest
<1>8. Arrived' = Arrived /\ ChunksFollow' /\ chunks' \in Seq(Seq(Data))
  BY <1>1, <1>2 DEF Arrived, ChunksFollow, FlowIInv, sender
<1>9. rest = <<>> => todo' = <<>>
  <2>1. ASSUME rest = <<>> PROVE Len(todo') = 0
    <3>1. Len(out') + Len(todo') = Len(rest) /\ Len(out') \in Nat /\ Len(todo') \in Nat
      BY <1>6, ConcatProperties, LenProperties
    <3>2. Len(rest) = 0
      BY <2>1
    <3> QED
      BY <3>1, <3>2
  <2> QED
    BY <1>6, <2>1, EmptySeq
<1>10. \/ todo' = <<>> /\ Report(wrote + Len(Taken(s)))
       \/ /\ busy' /\ wrote' = wrote + Len(Taken(s))
          /\ UNCHANGED <<reported, reports>>
  BY <1>1, <1>9
<1> QED
  BY <1>1, <1>3, <1>4, <1>6, <1>7, <1>8, <1>10, WriteKeeps

LEMMA WritableKeeps == ASSUME FlowIInv, Writable PROVE FlowIInv'
<1>1. /\ ~busy /\ sock' = sock \o Taken(out) /\ Report(wrote + Len(Taken(out)))
      /\ out' = Untaken(out)
      /\ UNCHANGED <<sender, chunks, todo, busy, lost, newest>>
  BY DEF Writable, Written
<1>2. /\ out \in Seq(Data) /\ todo = <<>> /\ todo \in Seq(Data) /\ Len(out) <= Buffer
      /\ FlowTypeOK /\ Buffer \in Nat /\ chunks \in Seq(Seq(Data)) /\ MaxData \in Nat
      /\ read \in 0..MaxData /\ busy \in BOOLEAN
  BY <1>1, FlowBounds DEF FlowIInv, FlowTypeOK, FlowBounds, Data, Counted
<1>3. out \o todo = out
  BY <1>2, ConcatEmptySeq
<1>4. /\ Follows(sock \o out, newest, Arrived, lost)
      /\ Arrived \in 0..MaxData
  BY <1>2, <1>3, WrittenWasRead DEF FlowIInv, HeldFollows, Held
<1>5. Untaken(out) \in Seq(Data) /\ Len(Untaken(out)) <= Len(out)
  BY <1>2, <1>4, Writes
<1>6. out' \in Seq(Data) /\ Len(out') <= Buffer
  BY <1>1, <1>2, <1>5, LenProperties
<1>7. out' \o todo' = Untaken(out)
  BY <1>1, <1>2, <1>5, ConcatEmptySeq
<1>8. Arrived' = Arrived /\ ChunksFollow' /\ chunks' \in Seq(Seq(Data))
  BY <1>1, <1>2 DEF Arrived, ChunksFollow, FlowIInv, sender
<1> QED
  BY <1>1, <1>2, <1>4, <1>6, <1>7, <1>8, WriteKeeps

\* What is given up was the last to come: what has been written and buffered
\* before it still goes to the backend.
LEMMA GiveUpKeeps == ASSUME FlowIInv, GiveUp PROVE FlowIInv'
<1>1. /\ busy /\ todo' = <<>> /\ lost' = lost \cup ToSet(todo) /\ busy' = FALSE
      /\ Report(wrote) /\ UNCHANGED <<sender, chunks, out, sock, newest>>
      /\ UNCHANGED <<read, acked, window, dst, tnl>>
  BY DEF GiveUp, sender
<1>2. /\ sock \in Seq(Data) /\ out \in Seq(Data) /\ todo \in Seq(Data)
      /\ newest \in Nat /\ FlowTypeOK /\ wrote \in Nat /\ reported \in Nat
      /\ MaxData \in Nat /\ read \in 0..MaxData /\ lost \subseteq Data
  BY FlowBounds DEF FlowIInv, FlowTypeOK, FlowBounds, Data
<1>3. sock \o out \in Seq(Data)
  BY <1>2, ConcatProperties
<1>4. Held = (sock \o out) \o todo
  <2>1. (sock \o out) \o todo = sock \o (out \o todo)
    BY <1>2, DataAssociates
  <2> QED
    BY <2>1 DEF Held
<1>5. Arrived \in Nat /\ reported + wrote <= read
  BY WrittenWasRead
<1>6. Follows(sock \o out, newest, Arrived, lost')
  BY <1>1, <1>2, <1>3, <1>4, <1>5, FollowsGivenUp DEF FlowIInv, HeldFollows
<1>7. HeldFollows'
  <2>1. Held' = sock \o out
    BY <1>1, <1>2, ConcatEmptySeq DEF Held
  <2>2. Arrived' = Arrived
    BY <1>1 DEF Arrived
  <2> QED
    BY <1>1, <1>6, <2>1, <2>2 DEF HeldFollows
<1>8. /\ ReportsFollow' /\ reports' \in Seq(0..MaxData)
      /\ wrote' \in 0..MaxData /\ reported' \in 0..MaxData
      /\ reported' + wrote' = reported + wrote /\ wrote' < Increment
  <2>1. reported + wrote <= MaxData
    BY <1>2, <1>5
  <2> QED
    BY <1>1, <1>2, <2>1, ReportKeeps DEF FlowIInv
<1>9. ChunksFollow' /\ HeldBack'
  BY <1>1 DEF FlowIInv, ChunksFollow, HeldBack, Ahead
<1>10. Counted'
  <2>1. lost' = {} => lost = {}
    BY <1>1
  <2> QED
    BY <1>1, <1>8, <2>1 DEF Counted, FlowIInv
<1>11. FlowTypeOK'
  <2>1. ToSet(todo) \subseteq Data
    BY <1>2, Elements
  <2>2. <<>> \in Seq(Data)
    OBVIOUS
  <2> QED
    BY <1>1, <1>2, <1>8, <2>1, <2>2 DEF FlowTypeOK, Data
<1> QED
  BY <1>7, <1>8, <1>9, <1>10, <1>11 DEF FlowIInv

\* The backend takes the first of what is held.
LEMMA Takes ==
    ASSUME FlowIInv, BackendTakes
    PROVE  /\ Held' = Tail(Held) /\ newest' = Head(Held) /\ Held # <<>> /\ Held \in Seq(Data)
           /\ sock' \in Seq(Data) /\ Len(sock') = Len(sock) - 1 /\ Len(sock) \in Nat
<1> DEFINE r == out \o todo
           n == Len(sock)
<1>1. /\ sock # <<>> /\ newest' = Head(sock) /\ sock' = Tail(sock)
      /\ UNCHANGED <<sender, chunks, reports, out, todo, busy, wrote, reported, lost>>
  BY DEF BackendTakes
<1>2. /\ sock \in Seq(Data) /\ r \in Seq(Data)
  BY HeldType DEF FlowIInv, FlowTypeOK, Data
<1> HIDE DEF r
<1>3. /\ n \in Nat /\ n > 0 /\ sock' \in Seq(Data) /\ Len(sock') = n - 1
      /\ Head(sock) = sock[1]
      /\ \A i \in 1..(n - 1) : sock'[i] = sock[i + 1]
  BY <1>1, <1>2, HeadTailProperties, EmptySeq, LenProperties
<1>4. /\ Held = sock \o r /\ Held' = sock' \o r
  BY <1>1 DEF Held, r
<1>5. /\ Held \in Seq(Data) /\ Len(Held) = n + Len(r) /\ Len(r) \in Nat
      /\ \A i \in 1..(n + Len(r)) : Held[i] = IF i <= n THEN sock[i] ELSE r[i - n]
  BY <1>2, <1>4, ConcatProperties, LenProperties
<1>6. Held # <<>> /\ Head(Held) = Held[1]
  BY <1>3, <1>5, HeadTailProperties, EmptySeq
<1>7. newest' = Head(Held)
  BY <1>1, <1>3, <1>5, <1>6
<1>8. Held' = Tail(Held)
  <2> DEFINE g == Held'
             t == Tail(Held)
             q == sock'
  <2>1. /\ g \in Seq(Data) /\ Len(g) = (n - 1) + Len(r)
        /\ \A i \in 1..((n - 1) + Len(r)) :
              g[i] = IF i <= n - 1 THEN q[i] ELSE r[i - (n - 1)]
    BY <1>2, <1>3, <1>4, ConcatProperties
  <2>2. /\ t \in Seq(Data) /\ Len(t) = (n + Len(r)) - 1
        /\ \A i \in 1..((n + Len(r)) - 1) : t[i] = Held[i + 1]
    BY <1>5, <1>6, HeadTailProperties
  <2>3. \A i \in 1..(n - 1) : q[i] = sock[i + 1]
    BY <1>3
  <2> HIDE DEF g, t, q, n
  <2>4. Len(g) = Len(t)
    BY <1>3, <1>5, <2>1, <2>2
  <2>5. \A i \in 1..Len(g) : g[i] = t[i]
    <3> SUFFICES ASSUME NEW i \in 1..Len(g) PROVE g[i] = t[i]
      OBVIOUS
    <3>0. i \in 1..((n - 1) + Len(r)) /\ i + 1 \in 1..(n + Len(r)) /\ t[i] = Held[i + 1]
      BY <1>3, <1>5, <2>1, <2>2
    <3>1. CASE i <= n - 1
      <4>1. g[i] = q[i] /\ q[i] = sock[i + 1] /\ i + 1 <= n
        BY <1>3, <2>1, <2>3, <3>0, <3>1
      <4> QED
        BY <1>5, <3>0, <4>1
    <3>2. CASE i > n - 1
      <4>1. g[i] = r[i - (n - 1)] /\ i + 1 > n /\ (i + 1) - n = i - (n - 1)
        BY <1>3, <2>1, <3>0, <3>2
      <4>2. Held[i + 1] = r[(i + 1) - n]
        BY <1>3, <1>5, <3>0, <4>1
      <4> QED
        BY <3>0, <4>1, <4>2
    <3> QED
      BY <1>3, <3>0, <3>1, <3>2
  <2>6. g = t
    BY <2>1, <2>2, <2>4, <2>5, SeqEqual
  <2> QED
    BY <2>6 DEF g, t
<1> QED
  BY <1>3, <1>5, <1>6, <1>7, <1>8

LEMMA BackendTakesKeeps ==
    ASSUME FlowIInv, BackendTakes
    PROVE  /\ FlowIInv'
           /\ newest' > newest /\ (newest + 1)..(newest' - 1) \subseteq lost
<1> DEFINE first == Head(Held)
<1>1. /\ Held' = Tail(Held) /\ newest' = first /\ Held # <<>> /\ Held \in Seq(Data)
      /\ sock' \in Seq(Data) /\ Len(sock') = Len(sock) - 1 /\ Len(sock) \in Nat
  BY Takes
<1>2. /\ UNCHANGED <<read, acked, window, dst, tnl>>
      /\ UNCHANGED <<chunks, reports, out, todo, busy, wrote, reported, lost>>
  BY DEF BackendTakes, sender
<1>3. /\ newest \in Nat /\ Arrived \in Nat /\ reported \in Nat /\ wrote \in Nat
      /\ MaxData \in Nat /\ Len(sock) <= Backlog /\ Backlog \in Nat
  BY FlowBounds, WrittenWasRead DEF FlowIInv, FlowTypeOK, FlowBounds
<1>4. Follows(Held, newest, Arrived, lost)
  BY DEF FlowIInv, HeldFollows
<1>5. /\ first \in Data
      /\ Follows(Tail(Held), first, Arrived, lost)
      /\ newest < first /\ (newest + 1)..(first - 1) \subseteq lost
      /\ lost = {} => first = newest + 1
  BY <1>1, <1>3, <1>4, FollowsLess
<1>6. first \in Nat /\ first \in 0..MaxData
  BY <1>3, <1>5 DEF Data
<1> HIDE DEF first
<1>7. HeldFollows'
  <2>1. Arrived' = Arrived
    BY <1>2 DEF Arrived
  <2> QED
    BY <1>1, <1>2, <1>5, <2>1 DEF HeldFollows
<1>8. Counted'
  <2>1. /\ reported + wrote <= newest + Len(sock)
        /\ lost = {} => reported + wrote = newest + Len(sock)
        /\ ~busy => wrote < Increment /\ todo = <<>>
    BY DEF FlowIInv, Counted
  <2>2. reported + wrote <= first + Len(sock')
    BY <1>1, <1>3, <1>5, <1>6, <2>1
  <2>3. ASSUME lost = {} PROVE reported + wrote = first + Len(sock')
    <3>1. first = newest + 1 /\ reported + wrote = newest + Len(sock)
      BY <1>5, <2>1, <2>3
    <3> QED
      BY <1>1, <1>3, <3>1
  <2> QED
    BY <1>1, <1>2, <2>1, <2>2, <2>3 DEF Counted
<1>9. ChunksFollow' /\ ReportsFollow' /\ HeldBack'
  BY <1>2 DEF FlowIInv, ChunksFollow, ReportsFollow, HeldBack, Ahead
<1>10. FlowTypeOK'
  <2>1. Len(sock') <= Backlog
    BY <1>1, <1>3
  <2> QED
    BY <1>1, <1>2, <1>6, <2>1 DEF FlowIInv, FlowTypeOK, Data
<1> QED
  BY <1>1, <1>3, <1>5, <1>6, <1>7, <1>8, <1>9, <1>10 DEF FlowIInv
-----------------------------------------------------------------------------
(* The theorems of the window.                                               *)

LEMMA FlowSteps ==
    ASSUME FlowIInv, [FlowNext]_flowVars
    PROVE  /\ FlowIInv'
           /\ newest' # newest =>
                 newest' > newest /\ (newest + 1)..(newest' - 1) \subseteq lost
<1>1. ASSUME NEW n \in Reads, Read(n) PROVE FlowIInv' /\ newest' = newest
  BY <1>1, ReadKeeps DEF Read
<1>2. CASE TunnelBlocks
  BY <1>2, TunnelBlocksKeeps DEF TunnelBlocks
<1>3. CASE TunnelUnblocks
  BY <1>3, TunnelUnblocksKeeps DEF TunnelUnblocks
<1>4. CASE ReportArrives
  BY <1>4, ReportArrivesKeeps DEF ReportArrives
<1>5. CASE Throttled
  BY <1>5, ThrottledKeeps DEF Throttled
<1>6. CASE ChunkArrives
  BY <1>6, ChunkArrivesKeeps DEF ChunkArrives
<1>7. CASE Flush
  BY <1>7, FlushKeeps DEF Flush
<1>8. CASE GiveUp
  BY <1>8, GiveUpKeeps DEF GiveUp
<1>9. CASE Writable
  BY <1>9, WritableKeeps DEF Writable
<1>10. CASE BackendTakes
  BY <1>10, BackendTakesKeeps
<1>11. CASE UNCHANGED flowVars
  <2>1. UNCHANGED <<read, acked, window, dst, tnl, chunks, reports, out, todo, busy, wrote,
                    reported, sock, lost, newest>>
    BY <1>11 DEF flowVars, sender, receiver
  <2>2. ChunksFollow' /\ HeldFollows' /\ Counted'
    BY <1>11, DataStays DEF flowVars, sender
  <2>3. FlowTypeOK'
    BY <2>1 DEF FlowIInv, FlowTypeOK
  <2>4. ReportsFollow' /\ HeldBack'
    BY <2>1 DEF FlowIInv, ReportsFollow, HeldBack, Ahead
  <2> QED
    BY <2>1, <2>2, <2>3, <2>4 DEF FlowIInv
<1> QED
  BY <1>1, <1>2, <1>3, <1>4, <1>5, <1>6, <1>7, <1>8, <1>9, <1>10, <1>11 DEF FlowNext

\* The invariant of the window, and with it the bounds of pkm_update_io's window
\* (pkmanager.c:267), of an out_buffer and of the report counters.
THEOREM FlowInvariant == FlowSpec => []FlowIInv
<1>1. FlowInit => FlowIInv
  BY FlowInitial
<1>2. FlowIInv /\ [FlowNext]_flowVars => FlowIInv'
  BY FlowSteps
<1> QED
  BY <1>1, <1>2, PTL DEF FlowSpec

\* pkc_report_progress (pkconn.c:402) reports nothing that is not written, and the
\* sender's read_kb - sent_kb (pkmanager.c:258) is never below zero.
THEOREM HonestReports == FlowSpec => []ReportsAreHonest
<1>1. FlowIInv => ReportsAreHonest
  <2> SUFFICES ASSUME FlowIInv PROVE ReportsAreHonest
    OBVIOUS
  <2>1. reported + wrote <= read /\ reported \in Nat /\ wrote \in Nat /\ read \in Nat
    BY WrittenWasRead DEF FlowIInv, FlowTypeOK
  <2>2. reported <= read
    BY <2>1
  <2>3. \A i \in DOMAIN reports : acked <= reports[i] /\ reports[i] <= reported
    <3>1. DOMAIN reports = 1..Len(reports)
      BY LenProperties DEF FlowIInv, FlowTypeOK
    <3> QED
      BY <3>1 DEF FlowIInv, ReportsFollow
  <2> QED
    BY <2>2, <2>3 DEF FlowIInv, Counted, ReportsFollow, ReportsAreHonest
<1> QED
  BY <1>1, FlowInvariant, PTL

\* A stream whose data is all written is not held back by its window
\* (pkmanager.c:447), whatever the sizes, unless the window is smaller than what the
\* far end may keep to itself.
THEOREM NothingStalls == FlowSpec => []NoStall
<1>1. FlowIInv => NoStall
  <2> SUFFICES ASSUME FlowIInv, Quiet, lost = {}, window >= Increment - 1 PROVE ~dst
    BY DEF NoStall
  <2>1. /\ read \in Nat /\ acked \in Nat /\ window \in Nat /\ wrote \in Nat /\ newest \in Nat
        /\ Increment \in Nat
    BY FlowBounds DEF FlowIInv, FlowTypeOK, FlowBounds
  <2>2. out = <<>> /\ todo = <<>> /\ Arrived = read /\ reported = acked /\ wrote < Increment
    BY DEF Quiet, FlowIInv, Counted, ReportsFollow, Arrived
  <2>3. Len(Held) = Len(sock) /\ Len(sock) \in Nat
    BY <2>2, HeldType DEF FlowIInv
  <2>4. newest + Len(Held) = read
    BY <2>2 DEF FlowIInv, HeldFollows, Follows
  <2>5. acked + wrote = newest + Len(sock)
    BY <2>2 DEF FlowIInv, Counted
  <2>6. acked + wrote = read
    BY <2>3, <2>4, <2>5
  <2>7. ~(read > acked + window)
    BY <2>1, <2>2, <2>6
  <2> QED
    BY <2>7 DEF FlowIInv, HeldBack, Ahead
<1> QED
  BY <1>1, FlowInvariant, PTL

\* The backend gets every kilobyte in its turn and at most once, and only what a
\* blocking pkc_flush gave up (pkconn.c:547) is ever missing.
THEOREM DataInOrder == FlowSpec => InOrder
<1>1. FlowIInv /\ [FlowNext]_flowVars =>
         [newest' # newest =>
             newest' > newest /\ (newest + 1)..(newest' - 1) \subseteq lost]_flowVars
  BY FlowSteps
<1> QED
  BY <1>1, FlowInvariant, PTL DEF FlowSpec, InOrder
-----------------------------------------------------------------------------
(* The invariant of the streams.                                             *)

StreamType ==
    [alloc : BOOLEAN, open : BOOLEAN, sid : Sids \cup {0},
     endR : BOOLEAN, endW : BOOLEAN, clsR : BOOLEAN, clsW : BOOLEAN,
     tnlB : BOOLEAN, here : BOOLEAN, out : BOOLEAN, wr : BOOLEAN, ww : BOOLEAN,
     ahead : 0..MaxAhead]

\* A slot while pkm_connect_be works on it.
Connecting(sid, here) == [Gone EXCEPT !.alloc = TRUE, !.sid = sid, !.here = here]

\* A slot without a socket is free, or it is the one the loop thread connects.
OnlyOneConnects ==
    /\ \A i \in Slots : ~streams[i].open =>
        \/ streams[i] = Gone
        \/ loop = i /\ streams[i] = Connecting(streams[i].sid, streams[i].here)
    /\ \A i \in Slots : loop = i => streams[i].alloc /\ ~streams[i].open
    /\ \A i \in Slots : streams[i].open => streams[i].alloc

\* An id is held once, and was used by the relay.
OneHolds ==
    /\ \A i \in Slots : streams[i].alloc => streams[i].sid \in 1..opened
    /\ \A i, k \in Slots :
        streams[i].alloc /\ streams[k].alloc /\ streams[i].sid = streams[k].sid => i = k

\* What pkm_update_io leaves of a stream.
Settled(s) ==
    /\ s.clsR <=> s.endR
    /\ s.clsW => s.endW
    /\ ~s.endR => s.wr \/ Blocked(s)
    /\ s.wr => s.ahead <= Window
    /\ s.ahead <= Window + 1
    /\ s.out => s.ww

AllSettled == \A i \in Slots : streams[i].open => Settled(streams[i])

\* Who blocks a stream will let it go.
Unblocking == \A i \in Slots : tun = "up" /\ streams[i].tnlB /\ streams[i].here => tww

HereIsUp == tun = "down" => \A i \in Slots : ~streams[i].here

\* The relay knows nothing of an id that it has not used, and takes for over what
\* an earlier connection has left.
UnusedNotShut == \A sid \in Sids : sid > opened => shut[sid] = {}
LeftIsShut ==
    tun # "down" =>
        \A i \in Slots :
            streams[i].alloc /\ ~streams[i].here => shut[streams[i].sid] = Dirs

Agrees(s, dirs) == ("R" \in dirs <=> s.endR) /\ ("W" \in dirs <=> s.endW)

HalvesAgree ==
    tun = "up" /\ ~torn =>
        /\ \A i \in Slots : streams[i].alloc /\ streams[i].here =>
                Agrees(streams[i], shut[streams[i].sid])
        /\ \A sid \in 1..opened : shut[sid] = Dirs \/ \E i \in Slots : Holds(i, sid)

StreamIInv ==
    /\ TypeOK /\ LiveCount
    /\ OnlyOneConnects /\ OneHolds /\ AllSettled
    /\ Unblocking /\ HereIsUp
    /\ UnusedNotShut /\ LeftIsShut /\ HalvesAgree

-----------------------------------------------------------------------------
(* What pkm_update_io makes of a stream.                                     *)

LEMMA GoneType ==
    /\ Gone \in StreamType
    /\ ~Gone.alloc /\ ~Gone.open /\ ~Gone.here /\ ~Gone.tnlB
    /\ ~Gone.wr /\ ~Gone.ww /\ ~Gone.out
  BY StreamBounds DEF Gone, StreamType, StreamBounds

LEMMA ConnectingType ==
    ASSUME NEW sid \in Sids \cup {0}, NEW here \in BOOLEAN
    PROVE  LET c == Connecting(sid, here)
           IN  /\ c \in StreamType /\ c.alloc /\ ~c.open /\ c.sid = sid /\ c.here = here
               /\ ~c.endR /\ ~c.endW /\ ~c.clsR /\ ~c.clsW
               /\ ~c.tnlB /\ ~c.out /\ ~c.wr /\ ~c.ww /\ c.ahead = 0
<1> DEFINE c == Connecting(sid, here)
<1>1. Gone \in StreamType /\ sid \in Sids \cup {0}
  BY GoneType
<1>2. c \in StreamType
  BY <1>1 DEF StreamType, Connecting
<1>3. /\ c.alloc /\ c.sid = sid /\ c.here = here
      /\ c.open = Gone.open /\ c.endR = Gone.endR /\ c.endW = Gone.endW
      /\ c.clsR = Gone.clsR /\ c.clsW = Gone.clsW /\ c.tnlB = Gone.tnlB
      /\ c.out = Gone.out /\ c.wr = Gone.wr /\ c.ww = Gone.ww /\ c.ahead = Gone.ahead
  BY <1>1 DEF StreamType, Connecting
<1>4. /\ ~Gone.open /\ ~Gone.endR /\ ~Gone.endW /\ ~Gone.clsR /\ ~Gone.clsW
      /\ ~Gone.tnlB /\ ~Gone.out /\ ~Gone.wr /\ ~Gone.ww /\ Gone.ahead = 0
  BY DEF Gone
<1> HIDE DEF c
<1> QED
  BY <1>2, <1>3, <1>4 DEF c

\* A stream of an earlier connection.
LEMMA NotHere ==
    ASSUME NEW s \in StreamType
    PROVE  LET z == [s EXCEPT !.here = FALSE]
           IN  /\ z \in StreamType /\ z.open = s.open /\ z.alloc = s.alloc
               /\ z.sid = s.sid /\ z.ahead = s.ahead /\ z.tnlB = s.tnlB /\ z.here = FALSE
               /\ ~s.here => z = s
  BY DEF StreamType

\* A slot that is being connected when the tunnel is disconnected.
LEMMA ConnectingNotHere ==
    ASSUME NEW sid \in Sids \cup {0}, NEW here \in BOOLEAN
    PROVE  [Connecting(sid, here) EXCEPT !.here = FALSE] = Connecting(sid, FALSE)
<1> DEFINE c == Connecting(sid, here)
           z == [c EXCEPT !.here = FALSE]
           d == Connecting(sid, FALSE)
<1>1. c \in StreamType /\ d \in StreamType
  BY ConnectingType
<1>2. c = [Gone EXCEPT !.alloc = TRUE, !.sid = sid, !.here = here]
  BY DEF Connecting
<1>3. d = [Gone EXCEPT !.alloc = TRUE, !.sid = sid, !.here = FALSE]
  BY DEF Connecting
<1>4. Gone \in StreamType
  BY GoneType
<1> HIDE DEF c, d
<1>5. z = d
  BY <1>1, <1>2, <1>3, <1>4 DEF StreamType
<1> QED
  BY <1>5 DEF c, d

LEMMA AfterUpdate ==
    ASSUME NEW s \in StreamType, s.open, s.alloc, s.ahead <= Window + 1
    PROVE  LET u == Updated(s)
           IN  /\ u \in StreamType
               /\ ~u.open => u = Gone /\ (s.clsR \/ s.endR) /\ (s.clsW \/ s.endW)
               /\ u.open => /\ u.alloc /\ Settled(u)
                            /\ u.sid = s.sid /\ u.here = s.here /\ u.tnlB = s.tnlB
                            /\ u.endR <=> s.clsR \/ s.endR
                            /\ u.endW <=> s.clsW \/ s.endW
<1> DEFINE u == Updated(s)
<1>1. CASE ReadOver(s) /\ WriteOver(s)
  <2>1. u = Gone
    BY <1>1 DEF Updated
  <2>2. (s.clsR \/ s.endR) /\ (s.clsW \/ s.endW)
    BY <1>1 DEF ReadOver, WriteOver
  <2> QED
    BY <2>1, <2>2, GoneType
<1>2. CASE ~(ReadOver(s) /\ WriteOver(s))
  <2> DEFINE r == ReadOver(s)
             w == WriteOver(s)
             e == s.endW \/ s.clsW
             o == s.out /\ ~s.clsW
             b == ~r /\ ~Blocked(s)
             f == [s EXCEPT !.endR = r, !.clsR = r, !.endW = e, !.clsW = w,
                            !.out = o, !.wr = b, !.ww = o]
  <2>1. u = f
    BY <1>2 DEF Updated
  <2>2. /\ s.clsR \in BOOLEAN /\ s.endR \in BOOLEAN /\ s.clsW \in BOOLEAN
        /\ s.endW \in BOOLEAN /\ s.out \in BOOLEAN /\ s.ahead \in Nat
    BY DEF StreamType
  <2>3. /\ r \in BOOLEAN /\ w \in BOOLEAN /\ e \in BOOLEAN /\ o \in BOOLEAN /\ b \in BOOLEAN
    BY <2>2 DEF ReadOver, WriteOver
  <2>4. /\ (r <=> s.clsR \/ s.endR) /\ (e <=> s.clsW \/ s.endW)
        /\ (w => e) /\ (o => s.out)
        /\ (b <=> ~r /\ ~(s.tnlB \/ s.ahead > Window))
    BY DEF ReadOver, WriteOver, Blocked
  <2> HIDE DEF r, w, e, o, b
  <2>5. /\ f.endR = r /\ f.clsR = r /\ f.endW = e /\ f.clsW = w
        /\ f.out = o /\ f.wr = b /\ f.ww = o
        /\ f.alloc = s.alloc /\ f.open = s.open /\ f.sid = s.sid /\ f.here = s.here
        /\ f.tnlB = s.tnlB /\ f.ahead = s.ahead
    BY DEF StreamType
  <2>6. f \in StreamType
    BY <2>3, ZenonT(30) DEF StreamType
  <2> HIDE DEF f
  <2>7. Settled(f)
    <3>1. (f.clsR <=> f.endR) /\ (f.clsW => f.endW) /\ (f.out => f.ww)
      BY <2>3, <2>4, <2>5
    <3>2. b <=> ~r /\ ~Blocked(f)
      BY <2>4, <2>5 DEF Blocked
    <3>3. (~f.endR => f.wr \/ Blocked(f))
      BY <2>5, <3>2
    <3>4. f.wr => f.ahead <= Window
      BY <2>2, <2>4, <2>5, StreamBounds DEF StreamBounds
    <3>5. f.ahead <= Window + 1
      BY <2>5
    <3> QED
      BY <3>1, <3>3, <3>4, <3>5 DEF Settled
  <2> QED
    BY <2>1, <2>4, <2>5, <2>6, <2>7
<1> QED
  BY <1>1, <1>2
-----------------------------------------------------------------------------
(* How many there are, and what the tunnel may do to them.                   *)

Open == {i \in Slots : streams[i].open}

\* A closed stream is counted off.
LEMMA LiveFalls ==
    ASSUME LiveCount, NEW S \in SUBSET Open, Open' = Open \ S,
           live' = live - Cardinality(S)
    PROVE  LiveCount' /\ live' \in 0..Cardinality(Slots)
<1>1. /\ IsFiniteSet(Slots) /\ Open \subseteq Slots /\ Open' \subseteq Slots
      /\ live = Cardinality(Open)
  BY StreamBounds DEF StreamBounds, Open, LiveCount
<1>2. IsFiniteSet(Open) /\ Cardinality(Open) \in Nat
  BY <1>1, FS_Subset, FS_CardinalityType
<1>3. IsFiniteSet(Open') /\ Cardinality(Open') <= Cardinality(Slots)
  BY <1>1, FS_Subset
<1>4. Cardinality(Open') \in Nat /\ Cardinality(Slots) \in Nat
  BY <1>1, <1>3, FS_CardinalityType
<1>5. Open \cap S = S
  OBVIOUS
<1>6. Cardinality(Open \ S) = Cardinality(Open) - Cardinality(S)
  BY <1>2, <1>5, FS_Difference
<1>7. live' = Cardinality(Open')
  BY <1>1, <1>6
<1> QED
  BY <1>3, <1>4, <1>7 DEF LiveCount, Open

\* A new one is counted.
LEMMA LiveRises ==
    ASSUME LiveCount, NEW i \in Slots, i \notin Open, Open' = Open \cup {i},
           live' = live + 1
    PROVE  LiveCount' /\ live' \in 0..Cardinality(Slots)
<1>1. /\ IsFiniteSet(Slots) /\ Open \subseteq Slots /\ Open' \subseteq Slots
      /\ live = Cardinality(Open)
  BY StreamBounds DEF StreamBounds, Open, LiveCount
<1>2. IsFiniteSet(Open)
  BY <1>1, FS_Subset
<1>3. IsFiniteSet(Open') /\ Cardinality(Open') <= Cardinality(Slots)
  BY <1>1, FS_Subset
<1>4. Cardinality(Open') \in Nat /\ Cardinality(Slots) \in Nat
  BY <1>1, <1>3, FS_CardinalityType
<1>5. Cardinality(Open \cup {i}) = Cardinality(Open) + 1
  BY <1>2, FS_AddElement
<1>6. live' = Cardinality(Open')
  BY <1>1, <1>5
<1> QED
  BY <1>3, <1>4, <1>6 DEF LiveCount, Open

\* And what is neither closed nor opened is not.
LEMMA LiveStays ==
    ASSUME LiveCount, Open' = Open, live' = live
    PROVE  LiveCount' /\ live' \in 0..Cardinality(Slots)
<1>1. {} \in SUBSET Open /\ Open' = Open \ {} /\ Cardinality({}) = 0
  BY FS_EmptySet
<1>2. live \in Nat
  <2>1. IsFiniteSet(Open)
    BY StreamBounds, FS_Subset DEF StreamBounds, Open
  <2> QED
    BY <2>1, FS_CardinalityType DEF LiveCount, Open
<1>3. live' = live - Cardinality({})
  BY <1>1, <1>2
<1> QED
  BY <1>1, <1>3, LiveFalls

\* A write never makes a tunnel usable, nor whole again what was torn.
LEMMA TunnelWritten ==
    ASSUME TypeOK, NEW t \in TunnelWrites \cup {NoWrite}, SetTunnel(t)
    PROVE  /\ tun' \in {"up", "broken", "mute", "down"} /\ tout' \in BOOLEAN
           /\ torn' \in BOOLEAN
           /\ tun' = "up" => tun = "up"
           /\ torn => torn'
           /\ tun' = "down" <=> tun = "down"
           /\ tun' = "down" => ~tout'
<1>1. /\ tun \in {"up", "broken", "mute", "down"} /\ tout \in BOOLEAN /\ torn \in BOOLEAN
      /\ tun = "down" => ~tout
  BY DEF TypeOK
<1>2. tun' = t.tun /\ tout' = t.tout /\ torn' = t.torn
  BY DEF SetTunnel
<1>3. CASE t = NoWrite
  BY <1>1, <1>2, <1>3 DEF NoWrite
<1>4. CASE t \in TunnelWrites /\ tun = "up"
  <2>1. \/ t = [tun |-> "up", tout |-> FALSE, torn |-> torn]
        \/ t = [tun |-> "up", tout |-> TRUE, torn |-> torn]
        \/ t = [tun |-> "up", tout |-> TRUE, torn |-> TRUE]
        \/ t = [tun |-> "broken", tout |-> TRUE, torn |-> torn]
    BY <1>4 DEF TunnelWrites
  <2>2. t.tun = "up" \/ t.tun = "broken"
    BY <2>1
  <2>3. t.tout = TRUE \/ t.tout = FALSE
    BY <2>1
  <2>4. t.torn = torn \/ t.torn = TRUE
    BY <2>1
  <2>5. tout' \in BOOLEAN /\ torn' \in BOOLEAN /\ (torn => torn')
    BY <1>1, <1>2, <2>3, <2>4
  <2>6. tun' = "up" \/ tun' = "broken"
    BY <1>2, <2>2
  <2> QED
    BY <1>4, <2>5, <2>6
<1>5. CASE t \in TunnelWrites /\ tun # "up"
  <2>1. t = [tun |-> tun, tout |-> tun # "down", torn |-> torn]
    BY <1>5 DEF TunnelWrites
  <2>2. t.tun = tun /\ (t.tout <=> tun # "down") /\ t.tout \in BOOLEAN /\ t.torn = torn
    BY <2>1
  <2>3. tun' = tun /\ torn' = torn /\ tout' \in BOOLEAN
    BY <1>2, <2>2
  <2>4. tun' = "down" => ~tout'
    BY <1>2, <2>2
  <2>5. torn' \in BOOLEAN /\ (torn => torn')
    BY <1>1, <2>3
  <2>6. /\ tun' \in {"up", "broken", "mute", "down"}
        /\ tun' = "up" => tun = "up"
        /\ tun' = "down" <=> tun = "down"
    BY <1>1, <2>3
  <2> QED
    BY <2>3, <2>4, <2>5, <2>6
<1> QED
  BY <1>3, <1>4, <1>5
-----------------------------------------------------------------------------
(* A step of one stream.                                                     *)

\* Stream i becomes s and is updated, and the relay is told what is over: whoever
\* does it, the invariant stays.
LEMMA OneStream ==
    ASSUME StreamIInv, NEW i \in Slots, NEW s \in StreamType,
           streams[i].open, s.open, s.alloc,
           s.sid = streams[i].sid, s.here = streams[i].here, s.tnlB = streams[i].tnlB,
           s.ahead <= Window + 1,
           UpdateStream(i, s), UNCHANGED <<loop, opened, tww>>,
           \E t \in TunnelWrites \cup {NoWrite} : SetTunnel(t),
           shut' \in [Sids -> SUBSET Dirs],
           \A sid \in Sids : sid # s.sid => shut'[sid] = shut[sid],
           shut[s.sid] \subseteq shut'[s.sid],
           tun = "up" /\ ~torn /\ s.here =>
               /\ "R" \in shut'[s.sid] <=> s.clsR \/ s.endR
               /\ "W" \in shut'[s.sid] <=> s.clsW \/ s.endW
    PROVE  StreamIInv'
<1> DEFINE u == Updated(s)
<1>1. /\ u \in StreamType
      /\ ~u.open => u = Gone /\ (s.clsR \/ s.endR) /\ (s.clsW \/ s.endW)
      /\ u.open => /\ u.alloc /\ Settled(u)
                   /\ u.sid = s.sid /\ u.here = s.here /\ u.tnlB = s.tnlB
                   /\ u.endR <=> s.clsR \/ s.endR
                   /\ u.endW <=> s.clsW \/ s.endW
  BY AfterUpdate
<1>2. /\ streams' = [streams EXCEPT ![i] = u]
      /\ live' = IF s.open /\ ~u.open THEN live - 1 ELSE live
      /\ loop' = loop /\ opened' = opened /\ tww' = tww
  BY DEF UpdateStream
<1> HIDE DEF u
<1>3. /\ TypeOK /\ LiveCount /\ OnlyOneConnects /\ OneHolds /\ AllSettled /\ Unblocking
      /\ HereIsUp /\ UnusedNotShut /\ LeftIsShut /\ HalvesAgree
  BY DEF StreamIInv
<1>4. /\ streams \in [Slots -> StreamType]
      /\ \A k \in Slots : ~streams[k].alloc => streams[k] = Gone
      /\ tww \in BOOLEAN /\ opened \in Sids \cup {0} /\ shut \in [Sids -> SUBSET Dirs]
      /\ loop \in {"idle", "tunnel"} \cup Slots
      /\ tun = "down" => ~tout /\ ~tww
  BY <1>3 DEF TypeOK, StreamType
<1>5. /\ streams' \in [Slots -> StreamType]
      /\ streams'[i] = u
      /\ \A k \in Slots : k # i => streams'[k] = streams[k]
  BY <1>1, <1>2, <1>4
<1>6. /\ tun' \in {"up", "broken", "mute", "down"} /\ tout' \in BOOLEAN /\ torn' \in BOOLEAN
      /\ tun' = "up" => tun = "up"
      /\ torn => torn'
      /\ tun' = "down" <=> tun = "down"
      /\ tun' = "down" => ~tout'
  BY <1>3, TunnelWritten
<1>7. streams[i].alloc /\ s.sid \in 1..opened /\ s.sid \in Sids /\ 1..opened \subseteq Sids
  <2>1. streams[i].alloc /\ s.sid \in 1..opened
    BY <1>3 DEF OnlyOneConnects, OneHolds
  <2>2. 1..opened \subseteq Sids
    BY <1>4, StreamBounds DEF StreamBounds, Sids
  <2> QED
    BY <2>1, <2>2
<1>8. loop # i
  BY <1>3 DEF OnlyOneConnects
<1>9. \A k \in Slots : k # i /\ streams[k].alloc => streams[k].sid # s.sid
  BY <1>3, <1>7 DEF OneHolds
<1>10. LiveCount' /\ live' \in 0..Cardinality(Slots)
  <2>1. CASE u.open
    <3>1. Open' = Open
      BY <1>5, <2>1 DEF Open
    <3> QED
      BY <1>2, <1>3, <2>1, <3>1, LiveStays
  <2>2. CASE ~u.open
    <3>1. Open' = Open \ {i} /\ {i} \in SUBSET Open
      BY <1>5, <2>2 DEF Open
    <3>2. live' = live - Cardinality({i})
      BY <1>2, <2>2, FS_Singleton
    <3> QED
      BY <1>3, <3>1, <3>2, LiveFalls
  <2> QED
    BY <2>1, <2>2
<1>11. TypeOK'
  <2>1. \A k \in Slots : ~streams'[k].alloc => streams'[k] = Gone
    BY <1>1, <1>4, <1>5
  <2>2. tun' = "down" => ~tout' /\ ~tww'
    BY <1>2, <1>4, <1>6
  <2> QED
    BY <1>2, <1>4, <1>5, <1>6, <1>10, <2>1, <2>2 DEF TypeOK, StreamType
<1>12. OnlyOneConnects'
  <2>1. \A k \in Slots : ~streams'[k].open =>
          \/ streams'[k] = Gone
          \/ loop' = k /\ streams'[k] = Connecting(streams'[k].sid, streams'[k].here)
    BY <1>1, <1>2, <1>3, <1>5 DEF OnlyOneConnects
  <2>2. \A k \in Slots : loop' = k => streams'[k].alloc /\ ~streams'[k].open
    BY <1>2, <1>3, <1>5, <1>8 DEF OnlyOneConnects
  <2>3. \A k \in Slots : streams'[k].open => streams'[k].alloc
    BY <1>1, <1>3, <1>5 DEF OnlyOneConnects
  <2> QED
    BY <2>1, <2>2, <2>3 DEF OnlyOneConnects
<1>13. u.alloc => u.open
  BY <1>1, GoneType
<1>14. OneHolds'
  <2>1. \A k \in Slots : streams'[k].alloc => streams'[k].sid \in 1..opened'
    BY <1>1, <1>2, <1>3, <1>5, <1>7, <1>13 DEF OneHolds
  <2>2. ASSUME NEW k \in Slots, NEW m \in Slots, streams'[k].alloc, streams'[m].alloc,
               streams'[k].sid = streams'[m].sid
        PROVE  k = m
    BY <1>1, <1>3, <1>5, <1>9, <1>13, <2>2 DEF OneHolds
  <2> QED
    BY <2>1, <2>2 DEF OneHolds
<1>15. AllSettled'
  BY <1>1, <1>3, <1>5 DEF AllSettled, Settled, Blocked
<1>16. Unblocking'
  BY <1>1, <1>2, <1>3, <1>5, <1>6, GoneType DEF Unblocking
<1>17. HereIsUp'
  BY <1>1, <1>3, <1>5, <1>6, GoneType DEF HereIsUp
<1>18. UnusedNotShut'
  <2>1. \A sid \in Sids : sid > opened => sid # s.sid
    BY <1>4, <1>7, StreamBounds DEF StreamBounds, Sids
  <2> QED
    BY <1>2, <1>3, <2>1 DEF UnusedNotShut
<1>19. \A k \in Slots : k # i /\ streams[k].alloc =>
          streams[k].sid \in Sids /\ shut'[streams[k].sid] = shut[streams[k].sid]
  BY <1>3, <1>7, <1>9 DEF OneHolds
<1>20. shut'[s.sid] \subseteq Dirs /\ s.sid \in DOMAIN shut'
  BY <1>7
<1>21. tun # "down" /\ ~s.here => shut'[s.sid] = Dirs
  <2>1. tun # "down" /\ ~s.here => shut[s.sid] = Dirs
    BY <1>3, <1>7 DEF LeftIsShut
  <2> QED
    BY <1>20, <2>1
<1>22. LeftIsShut'
  <2> SUFFICES ASSUME tun' # "down", NEW k \in Slots, streams'[k].alloc, ~streams'[k].here
               PROVE  shut'[streams'[k].sid] = Dirs
    BY DEF LeftIsShut
  <2>1. tun # "down"
    BY <1>6
  <2>2. CASE k = i
    BY <1>1, <1>5, <1>13, <1>21, <2>1, <2>2
  <2>3. CASE k # i
    BY <1>3, <1>5, <1>19, <2>1, <2>3 DEF LeftIsShut
  <2> QED
    BY <2>2, <2>3
<1>23. HalvesAgree'
  <2> SUFFICES ASSUME tun' = "up", ~torn'
               PROVE  /\ \A k \in Slots : streams'[k].alloc /\ streams'[k].here =>
                              Agrees(streams'[k], shut'[streams'[k].sid])
                      /\ \A sid \in 1..opened :
                              \/ shut'[sid] = Dirs
                              \/ \E k \in Slots : streams'[k].alloc /\ streams'[k].sid = sid
    BY <1>2 DEF HalvesAgree, Agrees, Holds
  <2>1. tun = "up" /\ ~torn
    BY <1>6
  <2>2. ASSUME NEW k \in Slots, streams'[k].alloc, streams'[k].here
        PROVE  Agrees(streams'[k], shut'[streams'[k].sid])
    <3>1. CASE k = i
      <4>1. u.open /\ u.here = s.here /\ u.sid = s.sid
        BY <1>1, <1>5, <1>13, <2>2, <3>1
      <4>2. /\ "R" \in shut'[s.sid] <=> s.clsR \/ s.endR
            /\ "W" \in shut'[s.sid] <=> s.clsW \/ s.endW
        BY <1>5, <2>1, <2>2, <3>1, <4>1
      <4> QED
        BY <1>1, <1>5, <3>1, <4>1, <4>2 DEF Agrees
    <3>2. CASE k # i
      BY <1>3, <1>5, <1>19, <2>1, <2>2, <3>2 DEF HalvesAgree
    <3> QED
      BY <3>1, <3>2
  <2>3. ASSUME NEW sid \in 1..opened
        PROVE  \/ shut'[sid] = Dirs
               \/ \E k \in Slots : streams'[k].alloc /\ streams'[k].sid = sid
    <3>1. CASE sid # s.sid
      <4>1. shut'[sid] = shut[sid]
        BY <1>7, <3>1
      <4>2. CASE shut[sid] = Dirs
        BY <4>1, <4>2
      <4>3. CASE \E k \in Slots : Holds(k, sid)
        <5>1. PICK k \in Slots : streams[k].alloc /\ streams[k].sid = sid
          BY <4>3 DEF Holds
        <5>2. k # i
          BY <3>1, <5>1
        <5> QED
          BY <1>5, <5>1, <5>2
      <4> QED
        BY <1>3, <2>1, <4>2, <4>3 DEF HalvesAgree
    <3>2. CASE sid = s.sid /\ u.open
      BY <1>1, <1>5, <3>2
    <3>3. CASE sid = s.sid /\ ~u.open
      <4>1. (s.clsR \/ s.endR) /\ (s.clsW \/ s.endW)
        BY <1>1, <3>3
      <4>2. CASE s.here
        BY <1>20, <2>1, <3>3, <4>1, <4>2 DEF Dirs
      <4>3. CASE ~s.here
        BY <1>21, <2>1, <3>3, <4>3
      <4> QED
        BY <4>2, <4>3
    <3> QED
      BY <3>1, <3>2, <3>3
  <2> QED
    BY <2>2, <2>3
<1> QED
  BY <1>10, <1>11, <1>12, <1>14, <1>15, <1>16, <1>17, <1>18, <1>22, <1>23 DEF StreamIInv
\* What has a watcher or gets a frame has a socket.
LEMMA WatchedIsOpen ==
    ASSUME StreamIInv, NEW i \in Slots
    PROVE  /\ streams[i] \in StreamType
           /\ streams[i].wr \/ streams[i].ww => streams[i].open
           /\ (loop \notin Slots /\ streams[i].alloc) => streams[i].open
           /\ streams[i].open =>
                streams[i].alloc /\ Settled(streams[i]) /\ streams[i].sid \in Sids
<1>1. streams[i] \in StreamType
  BY DEF StreamIInv, TypeOK, StreamType
<1>2. streams[i].sid \in Sids \cup {0} /\ streams[i].here \in BOOLEAN
  BY <1>1 DEF StreamType
<1>3. ~streams[i].open => /\ ~streams[i].wr /\ ~streams[i].ww
                          /\ loop # i => ~streams[i].alloc
  BY <1>2, GoneType, ConnectingType DEF StreamIInv, OnlyOneConnects
<1>4. streams[i].open => streams[i].alloc /\ Settled(streams[i])
  BY DEF StreamIInv, OnlyOneConnects, AllSettled
<1>5. streams[i].alloc => streams[i].sid \in Sids
  <2>1. streams[i].alloc => streams[i].sid \in 1..opened
    BY DEF StreamIInv, OneHolds
  <2>2. 1..opened \subseteq Sids
    BY StreamBounds DEF StreamBounds, Sids, StreamIInv, TypeOK
  <2> QED
    BY <2>1, <2>2
<1>6. loop \notin Slots => loop # i
  OBVIOUS
<1> QED
  BY <1>1, <1>3, <1>4, <1>5, <1>6

\* TellRelay tells what is over and was not known to be.
LEMMA Told ==
    ASSUME StreamIInv, NEW i \in Slots, streams[i].open, NEW s \in StreamType, s.open,
           s.sid = streams[i].sid, s.here = streams[i].here,
           s.endR = streams[i].endR, s.endW = streams[i].endW, TellRelay(s)
    PROVE  /\ \E t \in TunnelWrites \cup {NoWrite} : SetTunnel(t)
           /\ shut' \in [Sids -> SUBSET Dirs]
           /\ \A sid \in Sids : sid # s.sid => shut'[sid] = shut[sid]
           /\ shut[s.sid] \subseteq shut'[s.sid]
           /\ tun = "up" /\ ~torn /\ s.here =>
                 /\ "R" \in shut'[s.sid] <=> s.clsR \/ s.endR
                 /\ "W" \in shut'[s.sid] <=> s.clsW \/ s.endW
<1>1. s.sid \in Sids /\ streams[i].alloc
  BY WatchedIsOpen
<1>2. shut \in [Sids -> SUBSET Dirs]
  BY DEF StreamIInv, TypeOK
<1>3. /\ EofOf(s) \subseteq Dirs
      /\ "R" \in EofOf(s) <=> s.clsR /\ ~s.endR
      /\ "W" \in EofOf(s) <=> s.clsW /\ ~s.endW
  BY DEF EofOf, Dirs
<1>4. tun = "up" /\ ~torn /\ s.here =>
         /\ "R" \in shut[s.sid] <=> s.endR
         /\ "W" \in shut[s.sid] <=> s.endW
  BY <1>1 DEF StreamIInv, HalvesAgree, Agrees
<1>5. \/ /\ \E t \in TunnelWrites : SetTunnel(t)
         /\ shut' = [shut EXCEPT ![s.sid] = @ \cup EofOf(s)]
      \/ /\ EofOf(s) = {}
         /\ \E t \in TunnelWrites \cup {NoWrite} : SetTunnel(t)
         /\ shut' = shut
  BY DEF TellRelay
<1>6. \E t \in TunnelWrites \cup {NoWrite} : SetTunnel(t)
  BY <1>5
<1>7. /\ shut' \in [Sids -> SUBSET Dirs] /\ shut'[s.sid] = shut[s.sid] \cup EofOf(s)
      /\ \A sid \in Sids : sid # s.sid => shut'[sid] = shut[sid]
  <2>1. CASE shut' = [shut EXCEPT ![s.sid] = @ \cup EofOf(s)]
    BY <1>1, <1>2, <1>3, <2>1
  <2>2. CASE EofOf(s) = {} /\ shut' = shut
    BY <1>1, <1>2, <2>2
  <2> QED
    BY <1>5, <2>1, <2>2
<1>8. tun = "up" /\ ~torn /\ s.here =>
         /\ "R" \in shut'[s.sid] <=> s.clsR \/ s.endR
         /\ "W" \in shut'[s.sid] <=> s.clsW \/ s.endW
  BY <1>3, <1>4, <1>7
<1> QED
  BY <1>6, <1>7, <1>8

\* When nothing new is over, nothing need be told.
LEMMA NothingToTell ==
    ASSUME StreamIInv, NEW i \in Slots, streams[i].open, NEW s \in StreamType,
           s.sid = streams[i].sid, s.here = streams[i].here,
           s.endR = streams[i].endR, s.endW = streams[i].endW,
           s.clsR = streams[i].clsR, s.clsW = streams[i].clsW, shut' = shut
    PROVE  /\ shut' \in [Sids -> SUBSET Dirs]
           /\ \A sid \in Sids : sid # s.sid => shut'[sid] = shut[sid]
           /\ shut[s.sid] \subseteq shut'[s.sid]
           /\ tun = "up" /\ ~torn /\ s.here =>
                 /\ "R" \in shut'[s.sid] <=> s.clsR \/ s.endR
                 /\ "W" \in shut'[s.sid] <=> s.clsW \/ s.endW
<1>1. (s.clsR => s.endR) /\ (s.clsW => s.endW) /\ streams[i].alloc
  BY WatchedIsOpen DEF Settled
<1>2. tun = "up" /\ ~torn /\ s.here =>
         /\ "R" \in shut[s.sid] <=> s.endR
         /\ "W" \in shut[s.sid] <=> s.endW
  BY <1>1 DEF StreamIInv, HalvesAgree, Agrees
<1>3. shut \in [Sids -> SUBSET Dirs]
  BY DEF StreamIInv, TypeOK
<1> QED
  BY <1>1, <1>2, <1>3

LEMMA BackendKeeps == ASSUME StreamIInv, NEW i \in Slots, Backend(i) PROVE StreamIInv'
<1> DEFINE z == streams[i]
<1>1. z.open /\ z.alloc /\ z \in StreamType /\ Settled(z)
  BY WatchedIsOpen DEF Backend, BackendData, BackendEof, BackendDrains, BackendWriteFails
<1>2. z.ahead \in 0..MaxAhead /\ MaxAhead \in Nat /\ Window \in Nat /\ z.ahead <= Window + 1
  BY <1>1, StreamBounds DEF StreamBounds, StreamType, Settled
<1>3. CASE BackendData(i)
  <2> DEFINE s == [z EXCEPT !.ahead = @ + 1]
  <2>1. /\ z.ahead < MaxAhead /\ z.wr /\ (\E t \in TunnelWrites : SetTunnel(t))
        /\ UpdateStream(i, s) /\ UNCHANGED <<tww, loop, opened, shut>>
    BY <1>3 DEF BackendData, relay
  <2>2. s.ahead \in 0..MaxAhead /\ s.ahead <= Window + 1
    <3>1. s.ahead = z.ahead + 1 /\ z.ahead <= Window
      BY <1>1, <2>1 DEF StreamType, Settled
    <3> QED
      BY <1>2, <2>1, <3>1
  <2>3. s \in StreamType
    BY <1>1, <1>2, <2>1 DEF StreamType
  <2>4. /\ s.open = z.open /\ s.alloc = z.alloc /\ s.sid = z.sid /\ s.here = z.here
        /\ s.endR = z.endR /\ s.endW = z.endW /\ s.clsR = z.clsR /\ s.clsW = z.clsW
        /\ s.tnlB = z.tnlB
    BY <1>1 DEF StreamType
  <2>5. \E t \in TunnelWrites \cup {NoWrite} : SetTunnel(t)
    BY <2>1
  <2> HIDE DEF s
  <2> QED
    BY <1>1, <2>1, <2>2, <2>3, <2>4, <2>5, NothingToTell, OneStream
<1>4. ASSUME NEW s \in StreamType, s.open, s.alloc, s.sid = z.sid, s.here = z.here,
             s.endR = z.endR, s.endW = z.endW, s.tnlB = z.tnlB, s.ahead = z.ahead,
             TellRelay(s), UpdateStream(i, s), UNCHANGED <<tww, loop, opened>>
      PROVE  StreamIInv'
  <2>1. /\ \E t \in TunnelWrites \cup {NoWrite} : SetTunnel(t)
        /\ shut' \in [Sids -> SUBSET Dirs]
        /\ \A sid \in Sids : sid # s.sid => shut'[sid] = shut[sid]
        /\ shut[s.sid] \subseteq shut'[s.sid]
        /\ tun = "up" /\ ~torn /\ s.here =>
              /\ "R" \in shut'[s.sid] <=> s.clsR \/ s.endR
              /\ "W" \in shut'[s.sid] <=> s.clsW \/ s.endW
    BY <1>1, <1>4, Told
  <2>2. s.ahead <= Window + 1
    BY <1>2, <1>4
  <2> QED
    BY <1>1, <1>4, <2>1, <2>2, OneStream
<1>5. CASE BackendEof(i)
  <2>1. PICK s \in {[z EXCEPT !.clsR = TRUE], [z EXCEPT !.clsR = TRUE, !.clsW = TRUE]} :
           TellRelay(s) /\ UpdateStream(i, s)
    BY <1>5 DEF BackendEof
  <2>2. /\ s \in StreamType /\ s.open = z.open /\ s.alloc = z.alloc /\ s.sid = z.sid
        /\ s.here = z.here /\ s.endR = z.endR /\ s.endW = z.endW /\ s.tnlB = z.tnlB
        /\ s.ahead = z.ahead
    BY <1>1, <2>1, ZenonT(30) DEF StreamType
  <2> QED
    BY <1>1, <1>4, <1>5, <2>1, <2>2 DEF BackendEof
<1>6. CASE BackendDrains(i)
  <2> DEFINE s == [z EXCEPT !.out = FALSE]
  <2>1. TellRelay(s) /\ UpdateStream(i, s) /\ UNCHANGED <<tww, loop, opened>>
    BY <1>6 DEF BackendDrains
  <2>2. /\ s \in StreamType /\ s.open = z.open /\ s.alloc = z.alloc /\ s.sid = z.sid
        /\ s.here = z.here /\ s.endR = z.endR /\ s.endW = z.endW /\ s.tnlB = z.tnlB
        /\ s.ahead = z.ahead
    BY <1>1 DEF StreamType
  <2> HIDE DEF s
  <2> QED
    BY <1>1, <1>4, <2>1, <2>2
<1>7. CASE BackendWriteFails(i)
  <2> DEFINE s == [z EXCEPT !.clsW = TRUE]
  <2>1. TellRelay(s) /\ UpdateStream(i, s) /\ UNCHANGED <<tww, loop, opened>>
    BY <1>7 DEF BackendWriteFails
  <2>2. /\ s \in StreamType /\ s.open = z.open /\ s.alloc = z.alloc /\ s.sid = z.sid
        /\ s.here = z.here /\ s.endR = z.endR /\ s.endW = z.endW /\ s.tnlB = z.tnlB
        /\ s.ahead = z.ahead
    BY <1>1 DEF StreamType
  <2> HIDE DEF s
  <2> QED
    BY <1>1, <1>4, <2>1, <2>2
<1> QED
  BY <1>3, <1>5, <1>6, <1>7 DEF Backend
-----------------------------------------------------------------------------
(* Frames.                                                                   *)

LEMMA FrameDataKeeps ==
    ASSUME StreamIInv, NEW i \in Slots, NEW sid \in Sids, FrameData(i, sid)
    PROVE  StreamIInv'
<1> DEFINE z == streams[i]
<1>1. loop \notin Slots /\ z.alloc
  BY StreamBounds DEF FrameData, Holds, StreamBounds
<1>2. z.open /\ z \in StreamType /\ Settled(z)
  BY <1>1, WatchedIsOpen
<1>3. PICK s \in {[z EXCEPT !.out = FALSE], [z EXCEPT !.out = TRUE],
                  [z EXCEPT !.clsW = TRUE]} :
         TellRelay(s) /\ UpdateStream(i, s)
  BY DEF FrameData
<1>4. UNCHANGED <<tww, loop, opened>>
  BY DEF FrameData
<1>5. /\ s \in StreamType /\ s.open = z.open /\ s.alloc = z.alloc /\ s.sid = z.sid
      /\ s.here = z.here /\ s.endR = z.endR /\ s.endW = z.endW /\ s.tnlB = z.tnlB
      /\ s.ahead = z.ahead
  BY <1>2, <1>3, ZenonT(30) DEF StreamType
<1>6. /\ \E t \in TunnelWrites \cup {NoWrite} : SetTunnel(t)
      /\ shut' \in [Sids -> SUBSET Dirs]
      /\ \A d \in Sids : d # s.sid => shut'[d] = shut[d]
      /\ shut[s.sid] \subseteq shut'[s.sid]
      /\ tun = "up" /\ ~torn /\ s.here =>
            /\ "R" \in shut'[s.sid] <=> s.clsR \/ s.endR
            /\ "W" \in shut'[s.sid] <=> s.clsW \/ s.endW
  BY <1>2, <1>3, <1>5, Told
<1>7. s.ahead <= Window + 1
  BY <1>2, <1>5 DEF Settled
<1> QED
  BY <1>1, <1>2, <1>3, <1>4, <1>5, <1>6, <1>7, OneStream

\* An EOF ends the other direction here: both ends note the same.
LEMMA FrameEofKeeps ==
    ASSUME StreamIInv, NEW i \in Slots, NEW sid \in Sids, FrameEof(i, sid)
    PROVE  StreamIInv'
<1> DEFINE z == streams[i]
<1>1. loop \notin Slots /\ z.alloc /\ z.sid = sid
  BY StreamBounds DEF FrameEof, Holds, StreamBounds
<1>2. z.open /\ z \in StreamType /\ Settled(z)
  BY <1>1, WatchedIsOpen
<1>3. PICK dirs \in {{"R"}, {"W"}, Dirs} :
         /\ UpdateStream(i, [z EXCEPT !.endW = @ \/ "R" \in dirs,
                                      !.endR = @ \/ "W" \in dirs])
         /\ \E t \in TunnelWrites \cup {NoWrite} : SetTunnel(t)
         /\ shut' = [shut EXCEPT ![sid] = @ \cup {d \in Dirs : \E e \in dirs : e # d}]
  BY DEF FrameEof
<1>4. UNCHANGED <<tww, loop, opened>>
  BY DEF FrameEof
<1> DEFINE eW == z.endW \/ "R" \in dirs
           eR == z.endR \/ "W" \in dirs
           s == [z EXCEPT !.endW = eW, !.endR = eR]
           X == {d \in Dirs : \E e \in dirs : e # d}
<1>5. X \subseteq Dirs /\ ("R" \in X <=> "W" \in dirs) /\ ("W" \in X <=> "R" \in dirs)
  BY <1>3 DEF Dirs
<1> HIDE DEF X
<1>6. UpdateStream(i, s)
  BY <1>2, <1>3 DEF StreamType
<1>7. eW \in BOOLEAN /\ eR \in BOOLEAN
  BY <1>2 DEF StreamType
<1>8. /\ eW <=> z.endW \/ "R" \in dirs
      /\ eR <=> z.endR \/ "W" \in dirs
  OBVIOUS
<1> HIDE DEF eW, eR
<1>9. /\ s \in StreamType /\ s.open = z.open /\ s.alloc = z.alloc /\ s.sid = z.sid
      /\ s.here = z.here /\ s.endR = eR /\ s.endW = eW /\ s.tnlB = z.tnlB
      /\ s.ahead = z.ahead /\ s.clsR = z.clsR /\ s.clsW = z.clsW
  BY <1>2, <1>7 DEF StreamType
<1> HIDE DEF s
<1>10. shut \in [Sids -> SUBSET Dirs]
  BY DEF StreamIInv, TypeOK
<1>11. /\ shut' \in [Sids -> SUBSET Dirs] /\ shut'[s.sid] = shut[s.sid] \cup X
       /\ \A d \in Sids : d # s.sid => shut'[d] = shut[d]
  BY <1>1, <1>3, <1>5, <1>9, <1>10 DEF X
<1>12. tun = "up" /\ ~torn /\ s.here =>
          /\ "R" \in shut'[s.sid] <=> s.clsR \/ s.endR
          /\ "W" \in shut'[s.sid] <=> s.clsW \/ s.endW
  <2>1. tun = "up" /\ ~torn /\ s.here =>
           /\ "R" \in shut[s.sid] <=> z.endR
           /\ "W" \in shut[s.sid] <=> z.endW
    BY <1>1, <1>9 DEF StreamIInv, HalvesAgree, Agrees
  <2>2. (s.clsR => z.endR) /\ (s.clsW => z.endW)
    BY <1>2, <1>9 DEF Settled
  <2> QED
    BY <1>5, <1>8, <1>9, <1>11, <2>1, <2>2
<1>13. s.ahead <= Window + 1
  BY <1>2, <1>9 DEF Settled
<1> QED
  BY <1>1, <1>2, <1>3, <1>4, <1>6, <1>9, <1>11, <1>12, <1>13, OneStream

LEMMA FrameAckKeeps ==
    ASSUME StreamIInv, NEW i \in Slots, NEW sid \in Sids, FrameAck(i, sid)
    PROVE  StreamIInv'
<1> DEFINE z == streams[i]
<1>1. loop \notin Slots /\ z.alloc
  BY StreamBounds DEF FrameAck, Holds, StreamBounds
<1>2. z.open /\ z \in StreamType /\ Settled(z)
  BY <1>1, WatchedIsOpen
<1>3. z.ahead \in 0..MaxAhead /\ z.ahead <= Window + 1 /\ MaxAhead \in Nat /\ Window \in Nat
  BY <1>2, StreamBounds DEF StreamType, Settled, StreamBounds
<1>4. PICK a \in 0..(z.ahead - 1) : UpdateStream(i, [z EXCEPT !.ahead = a])
  BY DEF FrameAck
<1>5. /\ UNCHANGED <<tww, loop, opened, shut>>
      /\ \E t \in TunnelWrites \cup {NoWrite} : SetTunnel(t)
  BY DEF FrameAck, relay
<1> DEFINE s == [z EXCEPT !.ahead = a]
<1>6. a \in 0..MaxAhead /\ a <= Window + 1
  BY <1>3
<1>7. /\ s \in StreamType /\ s.open = z.open /\ s.alloc = z.alloc /\ s.sid = z.sid
      /\ s.here = z.here /\ s.endR = z.endR /\ s.endW = z.endW /\ s.tnlB = z.tnlB
      /\ s.ahead = a /\ s.clsR = z.clsR /\ s.clsW = z.clsW
  BY <1>2, <1>6 DEF StreamType
<1>8. UpdateStream(i, s)
  BY <1>4
<1> HIDE DEF s
<1>9. /\ shut' \in [Sids -> SUBSET Dirs]
      /\ \A d \in Sids : d # s.sid => shut'[d] = shut[d]
      /\ shut[s.sid] \subseteq shut'[s.sid]
      /\ tun = "up" /\ ~torn /\ s.here =>
            /\ "R" \in shut'[s.sid] <=> s.clsR \/ s.endR
            /\ "W" \in shut'[s.sid] <=> s.clsW \/ s.endW
  BY <1>2, <1>5, <1>7, NothingToTell
<1> QED
  BY <1>1, <1>2, <1>5, <1>6, <1>7, <1>8, <1>9, OneStream

\* No stream changes: the loop thread goes on, the tunnel is written, and an id that
\* nobody holds may be rejected.
LEMMA NoStream ==
    ASSUME StreamIInv, UNCHANGED <<streams, live>>,
           tun' \in {"up", "broken", "mute", "down"}, tout' \in BOOLEAN, torn' \in BOOLEAN,
           tun' = "up" => tun = "up",
           torn => torn',
           tun' = "down" <=> tun = "down",
           tun' = "down" => ~tout',
           tww' = tww \/ (tun' # "up" /\ tww' = FALSE),
           loop' = loop \/ (loop \notin Slots /\ loop' \in {"idle", "tunnel"}),
           \/ shut' = shut /\ opened' = opened
           \/ \E sid \in Sids :
              /\ sid <= opened + 1 /\ \A i \in Slots : ~Holds(i, sid)
              /\ opened' = IF sid > opened THEN sid ELSE opened
              /\ shut' = [shut EXCEPT ![sid] = Dirs]
    PROVE  StreamIInv'
<1>1. /\ TypeOK /\ LiveCount /\ OnlyOneConnects /\ OneHolds /\ AllSettled /\ Unblocking
      /\ HereIsUp /\ UnusedNotShut /\ LeftIsShut /\ HalvesAgree
  BY DEF StreamIInv
<1>2. /\ tww' \in BOOLEAN /\ (tun' = "down" => ~tout' /\ ~tww')
      /\ tun' = "up" => tww' = tww
  <2>1. tww \in BOOLEAN /\ (tun = "down" => ~tww)
    BY <1>1 DEF TypeOK
  <2>2. CASE tww' = tww
    BY <2>1, <2>2
  <2>3. CASE tun' # "up" /\ tww' = FALSE
    BY <2>3
  <2> QED
    BY <2>2, <2>3
<1>3. /\ opened \in Nat /\ opened \in Sids \cup {0} /\ shut \in [Sids -> SUBSET Dirs]
      /\ MaxSids \in Nat
  BY <1>1, StreamBounds DEF TypeOK, Sids, StreamBounds
<1>4. /\ opened' \in Sids \cup {0} /\ opened' \in Nat /\ opened <= opened'
      /\ shut' \in [Sids -> SUBSET Dirs]
      /\ \A i \in Slots : streams[i].alloc => shut'[streams[i].sid] = shut[streams[i].sid]
      /\ \A d \in Sids : d > opened' => shut'[d] = {}
      /\ \A d \in 1..opened' : (d \in 1..opened /\ shut'[d] = shut[d]) \/ shut'[d] = Dirs
  <2>0. /\ \A d \in Sids : d > opened => shut[d] = {}
        /\ \A i \in Slots : streams[i].alloc => streams[i].sid \in 1..opened
        /\ 1..opened \subseteq Sids
    BY <1>1, <1>3 DEF UnusedNotShut, OneHolds, Sids
  <2>1. CASE shut' = shut /\ opened' = opened
    <3>1. opened <= opened' /\ opened' \in Nat /\ opened' \in Sids \cup {0}
      BY <1>3, <2>1
    <3>2. \A d \in Sids : d > opened' => shut'[d] = {}
      BY <2>0, <2>1
    <3>3. /\ \A d \in 1..opened' : d \in 1..opened /\ shut'[d] = shut[d]
          /\ shut' \in [Sids -> SUBSET Dirs]
          /\ \A i \in Slots : streams[i].alloc =>
                shut'[streams[i].sid] = shut[streams[i].sid]
      BY <1>3, <2>1
    <3> QED
      BY <3>1, <3>2, <3>3
  <2>2. CASE ~(shut' = shut /\ opened' = opened)
    <3>1. PICK sid \in Sids :
             /\ sid <= opened + 1 /\ \A i \in Slots : ~Holds(i, sid)
             /\ opened' = IF sid > opened THEN sid ELSE opened
             /\ shut' = [shut EXCEPT ![sid] = Dirs]
      BY <2>2
    <3>2. sid \in Nat /\ opened' \in Sids \cup {0} /\ opened' \in Nat /\ opened <= opened'
          /\ sid <= opened' /\ (opened' = opened \/ (opened' = opened + 1 /\ sid = opened'))
      <4>1. sid \in Nat
        BY <1>3 DEF Sids
      <4>2. CASE sid > opened
        <5>1. opened' = sid /\ sid = opened + 1
          BY <1>3, <3>1, <4>1, <4>2
        <5> QED
          BY <1>3, <4>1, <5>1
      <4>3. CASE ~(sid > opened)
        <5>1. opened' = opened
          BY <3>1, <4>3
        <5> QED
          BY <1>3, <4>1, <4>3, <5>1
      <4> QED
        BY <4>2, <4>3
    <3>3. /\ shut' \in [Sids -> SUBSET Dirs] /\ shut'[sid] = Dirs
          /\ \A d \in Sids : d # sid => shut'[d] = shut[d]
      BY <1>3, <3>1
    <3>4. \A i \in Slots : streams[i].alloc => streams[i].sid # sid
      BY <3>1 DEF Holds
    <3>5. \A d \in 1..opened' : d = sid \/ d \in 1..opened
      BY <1>3, <3>2
    <3>6. \A d \in Sids : d > opened' => d > opened /\ d # sid
      BY <1>3, <3>2 DEF Sids
    <3> QED
      BY <2>0, <3>2, <3>3, <3>4, <3>5, <3>6
  <2> QED
    BY <2>1, <2>2
<1>5. LiveCount' /\ live' \in 0..Cardinality(Slots)
  <2>1. Open' = Open
    BY DEF Open
  <2> QED
    BY <1>1, <2>1, LiveStays
<1>6. TypeOK'
  BY <1>1, <1>2, <1>4, <1>5 DEF TypeOK
<1>7. OnlyOneConnects'
  <2>1. \A i \in Slots : loop' = i <=> loop = i
    BY StreamBounds DEF StreamBounds
  <2> QED
    BY <1>1, <2>1 DEF OnlyOneConnects
<1>8. OneHolds' /\ AllSettled'
  <2>1. 1..opened \subseteq 1..opened'
    BY <1>3, <1>4
  <2> QED
    BY <1>1, <2>1 DEF OneHolds, AllSettled, Settled, Blocked
<1>9. Unblocking' /\ HereIsUp' /\ UnusedNotShut' /\ LeftIsShut'
  <2>1. Unblocking' /\ HereIsUp'
    BY <1>1, <1>2 DEF Unblocking, HereIsUp
  <2>2. UnusedNotShut' /\ LeftIsShut'
    BY <1>1, <1>4 DEF UnusedNotShut, LeftIsShut
  <2> QED
    BY <2>1, <2>2
<1>10. HalvesAgree'
  <2> SUFFICES ASSUME tun' = "up", ~torn'
               PROVE  /\ \A k \in Slots : streams[k].alloc /\ streams[k].here =>
                              Agrees(streams[k], shut'[streams[k].sid])
                      /\ \A sid \in 1..opened' :
                              shut'[sid] = Dirs \/ \E k \in Slots : Holds(k, sid)
    BY DEF HalvesAgree, Agrees, Holds
  <2>1. tun = "up" /\ ~torn
    OBVIOUS
  <2> QED
    BY <1>1, <1>4, <2>1 DEF HalvesAgree
<1> QED
  BY <1>5, <1>6, <1>7, <1>8, <1>9, <1>10 DEF StreamIInv
LEMMA QuietKeeps ==
    ASSUME StreamIInv, TunnelReadable \/ FramePing \/ \E sid \in Sids : FrameRejected(sid)
    PROVE  StreamIInv'
<1>1. /\ TypeOK /\ UNCHANGED <<streams, live, tww>>
      /\ loop' = loop \/ (loop \notin Slots /\ loop' \in {"idle", "tunnel"})
  BY StreamBounds
     DEF StreamBounds, StreamIInv, TunnelReadable, FramePing, FrameRejected, tunnel
<1>2. \E t \in TunnelWrites \cup {NoWrite} : SetTunnel(t)
  <2>1. SetTunnel(NoWrite) <=> UNCHANGED <<tun, tout, torn>>
    BY DEF SetTunnel, NoWrite
  <2>2. CASE TunnelReadable
    BY <2>1, <2>2 DEF TunnelReadable, tunnel
  <2>3. CASE FramePing
    BY <2>3 DEF FramePing
  <2>4. CASE \E sid \in Sids : FrameRejected(sid)
    BY <2>4 DEF FrameRejected, Reject
  <2> QED
    BY <2>2, <2>3, <2>4
<1>3. \/ shut' = shut /\ opened' = opened
      \/ \E sid \in Sids :
         /\ sid <= opened + 1 /\ \A i \in Slots : ~Holds(i, sid)
         /\ opened' = IF sid > opened THEN sid ELSE opened
         /\ shut' = [shut EXCEPT ![sid] = Dirs]
  BY DEF TunnelReadable, FramePing, FrameRejected, Reject, relay
<1>4. /\ tun' \in {"up", "broken", "mute", "down"} /\ tout' \in BOOLEAN /\ torn' \in BOOLEAN
      /\ tun' = "up" => tun = "up"
      /\ torn => torn'
      /\ tun' = "down" <=> tun = "down"
      /\ tun' = "down" => ~tout'
  BY <1>1, <1>2, TunnelWritten
<1> QED
  BY <1>1, <1>3, <1>4, NoStream

-----------------------------------------------------------------------------
(* The tunnel's update.                                                      *)

\* Every stream has become what new says and is updated.
LEMMA AllStreams ==
    ASSUME StreamIInv, loop \notin Slots, loop' \in {"idle", "tunnel"},
           NEW new \in [Slots -> StreamType],
           \A k \in Slots : /\ new[k].open = streams[k].open /\ new[k].alloc = streams[k].alloc
                            /\ new[k].sid = streams[k].sid /\ new[k].ahead = streams[k].ahead
                            /\ ~streams[k].open => new[k] = Gone,
           UpdateAll(new), UNCHANGED <<opened, shut, torn>>,
           tun' \in {"up", "broken", "mute", "down"}, tout' \in BOOLEAN, tww' \in BOOLEAN,
           tun' = "down" => ~tout' /\ ~tww' /\ \A k \in Slots : ~new[k].here,
           tun' # "down" =>
               tun # "down" /\ \A k \in Slots : new[k].here = streams[k].here,
           tun' = "up" =>
               /\ tun = "up"
               /\ \A k \in Slots : streams[k].open =>
                      /\ new[k].endR = streams[k].endR /\ new[k].endW = streams[k].endW
                      /\ new[k].clsR = streams[k].clsR /\ new[k].clsW = streams[k].clsW
                      /\ new[k].tnlB => tww'
    PROVE  StreamIInv'
<1>1. /\ TypeOK /\ LiveCount /\ OnlyOneConnects /\ OneHolds /\ AllSettled /\ Unblocking
      /\ HereIsUp /\ UnusedNotShut /\ LeftIsShut /\ HalvesAgree
  BY DEF StreamIInv
<1>2. /\ streams' = [i \in Slots |-> Updated(new[i])]
      /\ live' = live - Cardinality({i \in Slots :
                          streams[i].open /\ ~Updated(new[i]).open})
  BY DEF UpdateAll
<1>3. \A k \in Slots : streams'[k] = Updated(new[k])
  BY <1>2
<1>4. ASSUME NEW k \in Slots, streams[k].open
      PROVE  /\ streams'[k] \in StreamType /\ streams[k].alloc /\ Settled(streams[k])
             /\ ~streams'[k].open =>
                   /\ streams'[k] = Gone
                   /\ (new[k].clsR \/ new[k].endR) /\ (new[k].clsW \/ new[k].endW)
             /\ streams'[k].open =>
                   /\ streams'[k].alloc /\ Settled(streams'[k])
                   /\ streams'[k].sid = streams[k].sid /\ streams'[k].here = new[k].here
                   /\ streams'[k].tnlB = new[k].tnlB
                   /\ streams'[k].endR <=> new[k].clsR \/ new[k].endR
                   /\ streams'[k].endW <=> new[k].clsW \/ new[k].endW
  <2>1. streams[k].alloc /\ Settled(streams[k])
    BY <1>1, <1>4 DEF OnlyOneConnects, AllSettled
  <2>2. new[k] \in StreamType /\ new[k].open /\ new[k].alloc /\ new[k].ahead <= Window + 1
    BY <1>4, <2>1 DEF Settled
  <2>3. new[k].sid = streams[k].sid
    OBVIOUS
  <2> QED
    BY <1>3, <2>1, <2>2, <2>3, AfterUpdate
<1>5. ASSUME NEW k \in Slots, ~streams[k].open
      PROVE  streams'[k] = Gone /\ streams[k] = Gone
  <2>1. new[k] = Gone
    BY <1>5
  <2>2. Updated(Gone) = Gone
    BY GoneType DEF Updated
  <2>3. loop # k
    OBVIOUS
  <2> QED
    BY <1>1, <1>3, <1>5, <2>1, <2>2, <2>3 DEF OnlyOneConnects
<1>6. \A k \in Slots : \/ streams'[k] = Gone
                       \/ /\ streams[k].open /\ streams[k].alloc
                          /\ streams'[k].open /\ streams'[k].alloc
                          /\ streams'[k].sid = streams[k].sid
  BY <1>4, <1>5
<1>7. LiveCount' /\ live' \in 0..Cardinality(Slots)
  <2> DEFINE S == {i \in Slots : streams[i].open /\ ~Updated(new[i]).open}
  <2>1. S \in SUBSET Open
    BY DEF Open
  <2>2. Open' = Open \ S
    <3>1. \A k \in Slots : streams'[k].open <=> streams[k].open /\ Updated(new[k]).open
      BY <1>3, <1>6, GoneType
    <3> QED
      BY <3>1 DEF Open
  <2>3. live' = live - Cardinality(S)
    BY <1>2
  <2> HIDE DEF S
  <2> QED
    BY <1>1, <2>1, <2>2, <2>3, LiveFalls
<1>8. TypeOK'
  <2>1. \A k \in Slots : streams'[k] \in StreamType
    BY <1>4, <1>5, GoneType
  <2>2. streams' \in [Slots -> StreamType]
    BY <1>2, <1>3, <2>1
  <2>3. \A k \in Slots : ~streams'[k].alloc => streams'[k] = Gone
    BY <1>6
  <2>4. loop' \in {"idle", "tunnel"} \cup Slots /\ torn' \in BOOLEAN
        /\ opened' \in Sids \cup {0} /\ shut' \in [Sids -> SUBSET Dirs]
    BY <1>1 DEF TypeOK
  <2> QED
    BY <1>7, <2>2, <2>3, <2>4 DEF TypeOK, StreamType
<1>9. OnlyOneConnects'
  <2>1. \A k \in Slots : loop' # k
    BY StreamBounds DEF StreamBounds
  <2> QED
    BY <1>6, <2>1, GoneType DEF OnlyOneConnects
<1>10. OneHolds'
  BY <1>1, <1>6, GoneType DEF OneHolds
<1>11. AllSettled'
  <2>1. \A k \in Slots : streams'[k].open => Settled(streams'[k])
    BY <1>4, <1>5, GoneType
  <2> QED
    BY <2>1 DEF AllSettled, Settled, Blocked
<1>12. Unblocking'
  <2> SUFFICES ASSUME NEW k \in Slots, tun' = "up", streams'[k].tnlB PROVE tww'
    BY DEF Unblocking
  <2>1. streams[k].open /\ streams'[k].open
    BY <1>6, GoneType
  <2> QED
    BY <1>4, <2>1
<1>13. HereIsUp'
  <2> SUFFICES ASSUME NEW k \in Slots, tun' = "down" PROVE ~streams'[k].here
    BY DEF HereIsUp
  <2>1. CASE streams'[k] = Gone
    BY <2>1, GoneType
  <2>2. CASE streams'[k] # Gone
    BY <1>4, <1>6, <2>2
  <2> QED
    BY <2>1, <2>2
<1>14. UnusedNotShut'
  BY <1>1 DEF UnusedNotShut
<1>15. LeftIsShut'
  <2> SUFFICES ASSUME NEW k \in Slots, tun' # "down", streams'[k].alloc, ~streams'[k].here
               PROVE  shut[streams'[k].sid] = Dirs
    BY DEF LeftIsShut
  <2>1. /\ streams[k].open /\ streams[k].alloc /\ streams'[k].open
        /\ streams'[k].sid = streams[k].sid
    BY <1>6, GoneType
  <2>2. streams'[k].here = streams[k].here /\ tun # "down"
    BY <1>4, <2>1
  <2> QED
    BY <1>1, <2>1, <2>2 DEF LeftIsShut
<1>16. HalvesAgree'
  <2> SUFFICES ASSUME tun' = "up", ~torn
               PROVE  /\ \A k \in Slots : streams'[k].alloc /\ streams'[k].here =>
                              Agrees(streams'[k], shut[streams'[k].sid])
                      /\ \A sid \in 1..opened :
                              \/ shut[sid] = Dirs
                              \/ \E k \in Slots : streams'[k].alloc /\ streams'[k].sid = sid
    BY DEF HalvesAgree, Agrees, Holds
  <2>1. tun = "up" /\ tun' # "down"
    OBVIOUS
  <2>2. ASSUME NEW k \in Slots, streams[k].open
        PROVE  /\ new[k].here = streams[k].here
               /\ new[k].clsR \/ new[k].endR <=> streams[k].endR
               /\ new[k].clsW \/ new[k].endW <=> streams[k].endW
    <3>1. (streams[k].clsR => streams[k].endR) /\ (streams[k].clsW => streams[k].endW)
      BY <1>4, <2>2 DEF Settled
    <3>2. /\ new[k].endR = streams[k].endR /\ new[k].endW = streams[k].endW
          /\ new[k].clsR = streams[k].clsR /\ new[k].clsW = streams[k].clsW
          /\ new[k].here = streams[k].here
      BY <2>1, <2>2
    <3> QED
      BY <3>1, <3>2
  <2>3. ASSUME NEW k \in Slots, streams'[k].alloc, streams'[k].here
        PROVE  Agrees(streams'[k], shut[streams'[k].sid])
    <3>1. /\ streams[k].open /\ streams[k].alloc /\ streams'[k].open
          /\ streams'[k].sid = streams[k].sid
      BY <1>6, <2>3, GoneType
    <3>2. /\ streams[k].here
          /\ streams'[k].endR <=> streams[k].endR
          /\ streams'[k].endW <=> streams[k].endW
      BY <1>4, <2>2, <2>3, <3>1
    <3>3. Agrees(streams[k], shut[streams[k].sid])
      BY <1>1, <2>1, <3>1, <3>2 DEF HalvesAgree
    <3> QED
      BY <3>1, <3>2, <3>3 DEF Agrees
  <2>4. ASSUME NEW sid \in 1..opened, shut[sid] # Dirs
        PROVE  \E k \in Slots : streams'[k].alloc /\ streams'[k].sid = sid
    <3>1. PICK k \in Slots : streams[k].alloc /\ streams[k].sid = sid
      BY <1>1, <2>1, <2>4 DEF HalvesAgree, Holds
    <3>2. streams[k].open
      BY <1>5, <3>1, GoneType
    <3>3. streams'[k].open
      <4> SUFFICES ASSUME ~streams'[k].open PROVE FALSE
        OBVIOUS
      <4>1. streams[k].endR /\ streams[k].endW
        BY <1>4, <2>2, <3>2
      <4>2. CASE streams[k].here
        <5>1. Agrees(streams[k], shut[sid]) /\ shut[sid] \subseteq Dirs
          BY <1>1, <2>1, <3>1, <4>2, StreamBounds
             DEF HalvesAgree, TypeOK, Sids, StreamBounds
        <5> QED
          BY <2>4, <4>1, <5>1 DEF Agrees, Dirs
      <4>3. CASE ~streams[k].here
        BY <1>1, <2>1, <2>4, <3>1, <4>3 DEF LeftIsShut
      <4> QED
        BY <4>2, <4>3
    <3> QED
      BY <1>4, <3>1, <3>2, <3>3
  <2> QED
    BY <2>3, <2>4
<1> QED
  BY <1>7, <1>8, <1>9, <1>10, <1>11, <1>12, <1>13, <1>14, <1>15, <1>16 DEF StreamIInv

\* What the three updates of the tunnel make of a stream.
LEMMA EndedType ==
    ASSUME StreamIInv, loop \notin Slots
    PROVE  /\ Ended \in [Slots -> StreamType]
           /\ \A k \in Slots :
                /\ Ended[k].open = streams[k].open /\ Ended[k].alloc = streams[k].alloc
                /\ Ended[k].sid = streams[k].sid /\ Ended[k].ahead = streams[k].ahead
                /\ Ended[k].here = streams[k].here
                /\ ~streams[k].open => Ended[k] = Gone
<1>1. ASSUME NEW k \in Slots
      PROVE  /\ Ended[k] \in StreamType
             /\ Ended[k].open = streams[k].open /\ Ended[k].alloc = streams[k].alloc
             /\ Ended[k].sid = streams[k].sid /\ Ended[k].ahead = streams[k].ahead
             /\ Ended[k].here = streams[k].here
             /\ ~streams[k].open => Ended[k] = Gone
  <2>1. /\ streams[k] \in StreamType
        /\ ~streams[k].open => streams[k] = Gone
        /\ streams[k].open => streams[k].alloc
    BY WatchedIsOpen DEF StreamIInv, OnlyOneConnects
  <2>2. Ended[k] = EndStream(streams[k])
    BY DEF Ended
  <2>3. CASE streams[k].open
    <3>1. Ended[k] = [streams[k] EXCEPT !.endR = TRUE, !.endW = TRUE]
      BY <2>1, <2>2, <2>3 DEF EndStream
    <3> QED
      BY <2>1, <2>3, <3>1 DEF StreamType
  <2>4. CASE ~streams[k].open
    BY <2>1, <2>2, <2>4, GoneType DEF EndStream
  <2> QED
    BY <2>3, <2>4
<1>2. Ended \in [Slots -> StreamType]
  <2>1. \A k \in Slots : Ended[k] \in StreamType
    BY <1>1
  <2> QED
    BY <2>1 DEF Ended
<1>3. \A k \in Slots :
        /\ Ended[k].open = streams[k].open /\ Ended[k].alloc = streams[k].alloc
        /\ Ended[k].sid = streams[k].sid /\ Ended[k].ahead = streams[k].ahead
        /\ Ended[k].here = streams[k].here
        /\ ~streams[k].open => Ended[k] = Gone
  BY <1>1
<1> QED
  BY <1>2, <1>3

LEMMA LostType ==
    ASSUME StreamIInv, loop \notin Slots
    PROVE  /\ Lost \in [Slots -> StreamType]
           /\ \A k \in Slots :
                /\ Lost[k].open = streams[k].open /\ Lost[k].alloc = streams[k].alloc
                /\ Lost[k].sid = streams[k].sid /\ Lost[k].ahead = streams[k].ahead
                /\ Lost[k].here = FALSE
                /\ ~streams[k].open => Lost[k] = Gone
<1>1. ASSUME NEW k \in Slots
      PROVE  /\ Lost[k] \in StreamType
             /\ Lost[k].open = streams[k].open /\ Lost[k].alloc = streams[k].alloc
             /\ Lost[k].sid = streams[k].sid /\ Lost[k].ahead = streams[k].ahead
             /\ Lost[k].here = FALSE
             /\ ~streams[k].open => Lost[k] = Gone
  <2>1. PICK s : s = Ended[k]
    OBVIOUS
  <2>2. Lost[k] = [s EXCEPT !.here = FALSE]
    BY <2>1 DEF Lost, Ended
  <2>3. /\ s \in StreamType
        /\ s.open = streams[k].open /\ s.alloc = streams[k].alloc
        /\ s.sid = streams[k].sid /\ s.ahead = streams[k].ahead
        /\ ~streams[k].open => s = Gone
    BY <2>1, EndedType
  <2>4. /\ Lost[k] \in StreamType
        /\ Lost[k].open = s.open /\ Lost[k].alloc = s.alloc
        /\ Lost[k].sid = s.sid /\ Lost[k].ahead = s.ahead
        /\ Lost[k].here = FALSE
        /\ ~s.here => Lost[k] = s
    BY <2>2, <2>3, NotHere
  <2>5. ~streams[k].open => Lost[k] = Gone
    <3> SUFFICES ASSUME ~streams[k].open PROVE Lost[k] = Gone
      OBVIOUS
    <3>1. s = Gone
      BY <2>3
    <3>2. ~s.here
      BY <3>1, GoneType
    <3> QED
      BY <2>4, <3>1, <3>2
  <2> QED
    BY <2>3, <2>4, <2>5
<1>2. Lost \in [Slots -> StreamType]
  <2>1. \A k \in Slots : Lost[k] \in StreamType
    BY <1>1
  <2> QED
    BY <2>1 DEF Lost
<1>3. \A k \in Slots :
        /\ Lost[k].open = streams[k].open /\ Lost[k].alloc = streams[k].alloc
        /\ Lost[k].sid = streams[k].sid /\ Lost[k].ahead = streams[k].ahead
        /\ Lost[k].here = FALSE
        /\ ~streams[k].open => Lost[k] = Gone
  BY <1>1
<1> QED
  BY <1>2, <1>3

LEMMA BlockedType ==
    ASSUME StreamIInv, loop \notin Slots, NEW b \in BOOLEAN,
           NEW new, new = SetBlocked(b)
    PROVE  /\ new \in [Slots -> StreamType]
           /\ \A k \in Slots :
                /\ new[k].open = streams[k].open /\ new[k].alloc = streams[k].alloc
                /\ new[k].sid = streams[k].sid /\ new[k].ahead = streams[k].ahead
                /\ new[k].here = streams[k].here
                /\ ~streams[k].open => new[k] = Gone
                /\ streams[k].open =>
                    /\ new[k].endR = streams[k].endR /\ new[k].endW = streams[k].endW
                    /\ new[k].clsR = streams[k].clsR /\ new[k].clsW = streams[k].clsW
                    /\ new[k].tnlB = b
<1>1. ASSUME NEW k \in Slots
      PROVE  /\ new[k] \in StreamType
             /\ new[k].open = streams[k].open /\ new[k].alloc = streams[k].alloc
             /\ new[k].sid = streams[k].sid /\ new[k].ahead = streams[k].ahead
             /\ new[k].here = streams[k].here
             /\ ~streams[k].open => new[k] = Gone
             /\ streams[k].open =>
                    /\ new[k].endR = streams[k].endR /\ new[k].endW = streams[k].endW
                    /\ new[k].clsR = streams[k].clsR /\ new[k].clsW = streams[k].clsW
                    /\ new[k].tnlB = b
  <2>1. streams[k] \in StreamType /\ (~streams[k].open => streams[k] = Gone)
    BY WatchedIsOpen DEF StreamIInv, OnlyOneConnects
  <2>2. CASE streams[k].open
    <3>1. new[k] = [streams[k] EXCEPT !.tnlB = b]
      BY <2>2 DEF SetBlocked
    <3> QED
      BY <2>1, <2>2, <3>1 DEF StreamType
  <2>3. CASE ~streams[k].open
    <3>1. new[k] = streams[k]
      BY <2>3 DEF SetBlocked
    <3> QED
      BY <2>1, <2>3, <3>1
  <2> QED
    BY <2>2, <2>3
<1>2. new \in [Slots -> StreamType]
  <2>1. \A k \in Slots : new[k] \in StreamType
    BY <1>1
  <2> QED
    BY <2>1 DEF SetBlocked
<1> QED
  BY <1>1, <1>2

\* pkm_update_io for the tunnel, whoever calls it.
LEMMA UpdateTunnelKeeps ==
    ASSUME StreamIInv, loop \notin Slots, loop' \in {"idle", "tunnel"},
           NEW o \in BOOLEAN, UpdateTunnel(o), UNCHANGED <<opened, shut, torn>>
    PROVE  StreamIInv'
<1>1. CASE tun = "up" /\ tout' = o /\ tww' = o /\ UpdateAll(SetBlocked(o)) /\ UNCHANGED tun
  <2> DEFINE new == SetBlocked(o)
  <2>1. new \in [Slots -> StreamType]
    BY BlockedType
  <2>2. \A k \in Slots :
          /\ new[k].open = streams[k].open /\ new[k].alloc = streams[k].alloc
          /\ new[k].sid = streams[k].sid /\ new[k].ahead = streams[k].ahead
          /\ new[k].here = streams[k].here
          /\ ~streams[k].open => new[k] = Gone
          /\ streams[k].open =>
              /\ new[k].endR = streams[k].endR /\ new[k].endW = streams[k].endW
              /\ new[k].clsR = streams[k].clsR /\ new[k].clsW = streams[k].clsW
              /\ new[k].tnlB = o
    BY BlockedType
  <2>3. UpdateAll(new)
    BY <1>1
  <2> HIDE DEF new
  <2>4. /\ tun' = "up" /\ tun' # "down" /\ tout' \in BOOLEAN /\ tww' \in BOOLEAN
        /\ \A k \in Slots : streams[k].open /\ new[k].tnlB => tww'
    BY <1>1, <2>2
  <2> QED
    BY <1>1, <2>1, <2>2, <2>3, <2>4, AllStreams
<1>2. CASE tun = "broken" /\ tun' = "mute" /\ tout' = FALSE /\ tww' = FALSE /\ UpdateAll(Ended)
  BY <1>2, EndedType, AllStreams
<1>3. CASE /\ tun \in {"mute", "down"} /\ tout' = FALSE /\ tww' = FALSE
           /\ UNCHANGED <<tun, streams, live>>
  <2>1. torn' \in BOOLEAN /\ torn' = torn
    BY DEF StreamIInv, TypeOK
  <2>2. /\ tun' \in {"up", "broken", "mute", "down"} /\ tout' \in BOOLEAN
        /\ tun' = "up" => tun = "up"
        /\ tun' = "down" <=> tun = "down"
        /\ tun' = "down" => ~tout'
        /\ tun' # "up" /\ tww' = FALSE
    BY <1>3
  <2>3. torn => torn'
    BY <2>1
  <2> QED
    BY <1>3, <2>1, <2>2, <2>3, NoStream
<1> QED
  BY <1>1, <1>2, <1>3 DEF UpdateTunnel

LEMMA TunnelKeeps ==
    ASSUME StreamIInv,
           TunnelRead \/ TunnelDrains \/ TunnelDrainsPart \/ TunnelWriteFails \/ TunnelDies
    PROVE  StreamIInv'
<1>1. /\ loop \notin Slots /\ loop' \in {"idle", "tunnel"} /\ tout \in BOOLEAN
      /\ UNCHANGED <<opened, shut, torn>>
  BY StreamBounds DEF StreamBounds, StreamIInv, TypeOK, TunnelRead, TunnelDrains,
     TunnelDrainsPart, TunnelWriteFails, TunnelDies, relay
<1>2. CASE TunnelRead
  BY <1>1, <1>2, UpdateTunnelKeeps DEF TunnelRead
<1>3. CASE TunnelDrains
  BY <1>1, <1>3, UpdateTunnelKeeps DEF TunnelDrains
<1>4. CASE TunnelDrainsPart
  BY <1>1, <1>4, UpdateTunnelKeeps DEF TunnelDrainsPart
<1>5. CASE TunnelWriteFails
  <2>1. tun = "up" /\ tun' = "mute" /\ tout' = FALSE /\ tww' = FALSE /\ UpdateAll(Ended)
    BY <1>5 DEF TunnelWriteFails
  <2> QED
    BY <1>1, <2>1, EndedType, AllStreams
<1>6. CASE TunnelDies
  <2>1. tun' = "down" /\ tout' = FALSE /\ tww' = FALSE /\ UpdateAll(Lost)
    BY <1>6 DEF TunnelDies
  <2>2. \A k \in Slots : ~Lost[k].here
    BY <1>1, LostType
  <2> QED
    BY <1>1, <2>1, <2>2, LostType, AllStreams
<1> QED
  BY <1>2, <1>3, <1>4, <1>5, <1>6

-----------------------------------------------------------------------------
(* A slot is taken, connected or freed.                                      *)

\* Slot i becomes u while the loop thread handles a frame or connects i.
LEMMA OneSlot ==
    ASSUME StreamIInv, NEW i \in Slots, NEW u \in StreamType,
           streams' = [streams EXCEPT ![i] = u], tww' = tww,
           \E t \in TunnelWrites \cup {NoWrite} : SetTunnel(t),
           LiveCount', live' \in 0..Cardinality(Slots),
           opened' \in Sids \cup {0}, opened <= opened',
           shut' \in [Sids -> SUBSET Dirs],
           \A d \in Sids : d > opened' => shut'[d] = {},
           \A k \in Slots : k # i /\ streams[k].alloc =>
               shut'[streams[k].sid] = shut[streams[k].sid],
           loop \in {"tunnel", i},
           \/ u = Gone /\ loop' = "tunnel"
           \/ u.open /\ u.alloc /\ Settled(u) /\ loop' = "tunnel"
           \/ u = Connecting(u.sid, u.here) /\ u.alloc /\ ~u.open /\ loop' = i,
           u.alloc => /\ u.sid \in 1..opened'
                      /\ \A k \in Slots : k # i /\ streams[k].alloc => streams[k].sid # u.sid,
           ~u.tnlB,
           tun = "down" => ~u.here,
           tun # "down" /\ u.alloc /\ ~u.here => shut'[u.sid] = Dirs,
           tun = "up" /\ ~torn =>
               /\ u.alloc /\ u.here => Agrees(u, shut'[u.sid])
               /\ \A d \in 1..opened' :
                    \/ shut'[d] = Dirs
                    \/ u.alloc /\ u.sid = d
                    \/ \E k \in Slots : k # i /\ Holds(k, d)
    PROVE  StreamIInv'
<1>1. /\ TypeOK /\ OnlyOneConnects /\ OneHolds /\ AllSettled /\ Unblocking
      /\ HereIsUp /\ UnusedNotShut /\ LeftIsShut /\ HalvesAgree
  BY DEF StreamIInv
<1>2. /\ streams \in [Slots -> StreamType]
      /\ \A k \in Slots : ~streams[k].alloc => streams[k] = Gone
      /\ tww \in BOOLEAN /\ opened \in Sids \cup {0}
      /\ tun = "down" => ~tww
  BY <1>1 DEF TypeOK, StreamType
<1>3. /\ streams' \in [Slots -> StreamType]
      /\ streams'[i] = u
      /\ \A k \in Slots : k # i => streams'[k] = streams[k]
  BY <1>2
<1>4. /\ tun' \in {"up", "broken", "mute", "down"} /\ tout' \in BOOLEAN /\ torn' \in BOOLEAN
      /\ tun' = "up" => tun = "up"
      /\ torn => torn'
      /\ tun' = "down" <=> tun = "down"
      /\ tun' = "down" => ~tout'
  BY <1>1, TunnelWritten
<1>5. (u.open => u.alloc) /\ (~u.alloc => u = Gone)
  BY GoneType
<1>6. \A k \in Slots : k # i => loop # k /\ loop' # k
  BY StreamBounds DEF StreamBounds
<1>7. 1..opened \subseteq 1..opened'
  BY <1>2, StreamBounds DEF StreamBounds, Sids
<1>8. TypeOK'
  <2>1. \A k \in Slots : ~streams'[k].alloc => streams'[k] = Gone
    BY <1>2, <1>3, <1>5
  <2>2. (tun' = "down" => ~tout' /\ ~tww') /\ tww' \in BOOLEAN
    BY <1>2, <1>4
  <2>3. loop' \in {"idle", "tunnel"} \cup Slots
    OBVIOUS
  <2> QED
    BY <1>3, <1>4, <2>1, <2>2, <2>3 DEF TypeOK, StreamType
<1>9. OnlyOneConnects'
  <2>1. ASSUME NEW k \in Slots, ~streams'[k].open
        PROVE  \/ streams'[k] = Gone
               \/ loop' = k /\ streams'[k] = Connecting(streams'[k].sid, streams'[k].here)
    <3>1. CASE k = i
      BY <1>3, <2>1, <3>1
    <3>2. CASE k # i
      BY <1>1, <1>3, <1>6, <2>1, <3>2 DEF OnlyOneConnects
    <3> QED
      BY <3>1, <3>2
  <2>2. ASSUME NEW k \in Slots, loop' = k
        PROVE  streams'[k].alloc /\ ~streams'[k].open
    <3>1. k = i
      BY <1>6, <2>2
    <3>2. loop' # "tunnel"
      BY <2>2, StreamBounds DEF StreamBounds
    <3> QED
      BY <1>3, <3>1, <3>2
  <2>3. \A k \in Slots : streams'[k].open => streams'[k].alloc
    BY <1>1, <1>3, <1>5 DEF OnlyOneConnects
  <2> QED
    BY <2>1, <2>2, <2>3 DEF OnlyOneConnects
<1>10. OneHolds'
  <2>1. ASSUME NEW k \in Slots, streams'[k].alloc PROVE streams'[k].sid \in 1..opened'
    <3>1. CASE k = i
      BY <1>3, <2>1, <3>1
    <3>2. CASE k # i
      BY <1>1, <1>3, <1>7, <2>1, <3>2 DEF OneHolds
    <3> QED
      BY <3>1, <3>2
  <2>2. ASSUME NEW k \in Slots, NEW m \in Slots, streams'[k].alloc, streams'[m].alloc,
               streams'[k].sid = streams'[m].sid
        PROVE  k = m
    BY <1>1, <1>3, <2>2 DEF OneHolds
  <2> QED
    BY <2>1, <2>2 DEF OneHolds
<1>11. AllSettled'
  <2>1. u.open => Settled(u)
    BY GoneType
  <2>2. \A k \in Slots : streams'[k].open => Settled(streams'[k])
    BY <1>1, <1>3, <2>1 DEF AllSettled
  <2> QED
    BY <2>2 DEF AllSettled, Settled, Blocked
<1>12. Unblocking' /\ HereIsUp'
  <2>1. Unblocking'
    BY <1>1, <1>3, <1>4 DEF Unblocking
  <2>2. HereIsUp'
    BY <1>1, <1>3, <1>4 DEF HereIsUp
  <2> QED
    BY <2>1, <2>2
<1>13. UnusedNotShut'
  BY DEF UnusedNotShut
<1>14. LeftIsShut'
  <2> SUFFICES ASSUME tun' # "down", NEW k \in Slots, streams'[k].alloc, ~streams'[k].here
               PROVE  shut'[streams'[k].sid] = Dirs
    BY DEF LeftIsShut
  <2>1. tun # "down"
    BY <1>4
  <2>2. CASE k = i
    BY <1>3, <2>1, <2>2
  <2>3. CASE k # i
    BY <1>1, <1>3, <2>1, <2>3 DEF LeftIsShut
  <2> QED
    BY <2>2, <2>3
<1>15. HalvesAgree'
  <2> SUFFICES ASSUME tun' = "up", ~torn'
               PROVE  /\ \A k \in Slots : streams'[k].alloc /\ streams'[k].here =>
                              Agrees(streams'[k], shut'[streams'[k].sid])
                      /\ \A d \in 1..opened' :
                              \/ shut'[d] = Dirs
                              \/ \E k \in Slots : streams'[k].alloc /\ streams'[k].sid = d
    BY DEF HalvesAgree, Agrees, Holds
  <2>1. tun = "up" /\ ~torn
    BY <1>4
  <2>2. ASSUME NEW k \in Slots, streams'[k].alloc, streams'[k].here
        PROVE  Agrees(streams'[k], shut'[streams'[k].sid])
    <3>1. CASE k = i
      BY <1>3, <2>1, <2>2, <3>1
    <3>2. CASE k # i
      BY <1>1, <1>3, <2>1, <2>2, <3>2 DEF HalvesAgree
    <3> QED
      BY <3>1, <3>2
  <2>3. ASSUME NEW d \in 1..opened', shut'[d] # Dirs
        PROVE  \E k \in Slots : streams'[k].alloc /\ streams'[k].sid = d
    <3>1. CASE u.alloc /\ u.sid = d
      BY <1>3, <3>1
    <3>2. CASE \E k \in Slots : k # i /\ Holds(k, d)
      BY <1>3, <3>2 DEF Holds
    <3> QED
      BY <2>1, <2>3, <3>1, <3>2
  <2> QED
    BY <2>2, <2>3
<1> QED
  BY <1>8, <1>9, <1>10, <1>11, <1>12, <1>13, <1>14, <1>15 DEF StreamIInv

\* The slot that a new stream gets: with a stream of its own, the relay is told
\* that it is over before it is lost.
LEMMA AllocKeeps ==
    ASSUME StreamIInv, NEW i \in Slots, loop = "tunnel", AllocBeConn(i),
           NEW u \in StreamType, ~u.open, streams' = [streams EXCEPT ![i] = u]
    PROVE  /\ tww' = tww /\ \E t \in TunnelWrites \cup {NoWrite} : SetTunnel(t)
           /\ LiveCount' /\ live' \in 0..Cardinality(Slots)
           /\ shut' \in [Sids -> SUBSET Dirs]
           /\ \A d \in Sids : ~(streams[i].alloc /\ d = streams[i].sid) => shut'[d] = shut[d]
           /\ tun = "up" /\ ~torn /\ streams[i].alloc => shut'[streams[i].sid] = Dirs
<1> DEFINE z == streams[i]
<1>1. /\ LiveCount /\ LeftIsShut /\ shut \in [Sids -> SUBSET Dirs] /\ z \in StreamType
      /\ streams \in [Slots -> StreamType] /\ loop \notin Slots
  BY WatchedIsOpen, StreamBounds DEF StreamIInv, TypeOK, StreamType, StreamBounds
<1>2. z.open <=> z.alloc
  BY <1>1, WatchedIsOpen
<1>3. Open' = Open \ {i}
  BY <1>1 DEF Open
<1>4. CASE ~z.alloc /\ UNCHANGED <<live, tunnel, shut>>
  <2>1. SetTunnel(NoWrite) /\ tww' = tww
    BY <1>4 DEF SetTunnel, NoWrite, tunnel
  <2>2. Open' = Open
    BY <1>2, <1>3, <1>4 DEF Open
  <2>3. LiveCount' /\ live' \in 0..Cardinality(Slots)
    BY <1>1, <1>4, <2>2, LiveStays
  <2> QED
    BY <1>1, <1>4, <2>1, <2>3
<1>5. CASE /\ \A k \in Slots : streams[k].alloc
           /\ TellRelay([z EXCEPT !.clsR = TRUE, !.clsW = TRUE])
           /\ live' = live - 1
           /\ UNCHANGED tww
  <2> DEFINE s == [z EXCEPT !.clsR = TRUE, !.clsW = TRUE]
  <2>1. z.alloc /\ z.open /\ z.sid \in Sids
    BY <1>1, <1>2, <1>5, WatchedIsOpen
  <2>2. /\ s \in StreamType /\ s.open = z.open /\ s.sid = z.sid /\ s.here = z.here
        /\ s.endR = z.endR /\ s.endW = z.endW /\ s.clsR = TRUE /\ s.clsW = TRUE
    BY <1>1 DEF StreamType
  <2>3. TellRelay(s)
    BY <1>5
  <2> HIDE DEF s
  <2>4. /\ \E t \in TunnelWrites \cup {NoWrite} : SetTunnel(t)
        /\ shut' \in [Sids -> SUBSET Dirs]
        /\ \A d \in Sids : d # s.sid => shut'[d] = shut[d]
        /\ shut[s.sid] \subseteq shut'[s.sid]
        /\ tun = "up" /\ ~torn /\ s.here =>
              /\ "R" \in shut'[s.sid] <=> s.clsR \/ s.endR
              /\ "W" \in shut'[s.sid] <=> s.clsW \/ s.endW
    BY <2>1, <2>2, <2>3, Told
  <2>5. tun = "up" /\ ~torn => shut'[z.sid] = Dirs
    <3>1. shut'[z.sid] \subseteq Dirs
      BY <2>1, <2>4
    <3>2. CASE z.here
      BY <2>2, <2>4, <3>1, <3>2 DEF Dirs
    <3>3. CASE ~z.here
      BY <1>1, <2>1, <2>2, <2>4, <3>1, <3>3 DEF LeftIsShut
    <3> QED
      BY <3>2, <3>3
  <2>6. LiveCount' /\ live' \in 0..Cardinality(Slots)
    <3>1. {i} \in SUBSET Open
      BY <2>1 DEF Open
    <3>2. live' = live - Cardinality({i})
      BY <1>5, FS_Singleton
    <3> QED
      BY <1>1, <1>3, <3>1, <3>2, LiveFalls
  <2> QED
    BY <1>5, <2>2, <2>4, <2>5, <2>6
<1> QED
  BY <1>4, <1>5 DEF AllocBeConn

LEMMA ConnectStartKeeps ==
    ASSUME StreamIInv, NEW i \in Slots, NEW sid \in Sids, ConnectStart(i, sid)
    PROVE  StreamIInv'
<1> DEFINE h == tun # "down"
           u == Connecting(sid, h)
<1>1. /\ loop = "tunnel" /\ sid = opened + 1 /\ AllocBeConn(i)
      /\ streams' = [streams EXCEPT ![i] = u] /\ opened' = sid /\ loop' = i
  BY DEF ConnectStart, Connecting
<1>2. h \in BOOLEAN /\ (h <=> tun # "down") /\ sid \in Sids \cup {0}
  OBVIOUS
<1> HIDE DEF h
<1>3. /\ u \in StreamType /\ u.alloc /\ ~u.open /\ u.sid = sid /\ u.here = h
      /\ ~u.endR /\ ~u.endW /\ ~u.tnlB
  BY <1>2, ConnectingType
<1>4. u = Connecting(u.sid, u.here)
  BY <1>3
<1> HIDE DEF u
<1>5. /\ tww' = tww /\ \E t \in TunnelWrites \cup {NoWrite} : SetTunnel(t)
      /\ LiveCount' /\ live' \in 0..Cardinality(Slots)
      /\ shut' \in [Sids -> SUBSET Dirs]
      /\ \A d \in Sids : ~(streams[i].alloc /\ d = streams[i].sid) => shut'[d] = shut[d]
      /\ tun = "up" /\ ~torn /\ streams[i].alloc => shut'[streams[i].sid] = Dirs
  BY <1>1, <1>3, AllocKeeps
<1>6. /\ opened \in Nat /\ sid \in Nat /\ sid > opened /\ opened <= sid
      /\ 1..opened \subseteq Sids /\ sid \in 1..sid
      /\ \A d \in 1..sid : d = sid \/ d \in 1..opened
      /\ \A d \in Sids : d > sid => d > opened
      /\ \A d \in 1..opened : d < sid
  <2>1. opened \in Nat /\ sid \in Nat /\ MaxSids \in Nat /\ opened \in 0..MaxSids
    BY StreamBounds DEF StreamBounds, Sids, StreamIInv, TypeOK
  <2> QED
    BY <1>1, <2>1 DEF Sids
<1>7. \A k \in Slots : streams[k].alloc =>
         /\ streams[k].sid \in 1..opened /\ streams[k].sid # sid
         /\ k # i /\ streams[i].alloc => streams[k].sid # streams[i].sid
  BY <1>6 DEF StreamIInv, OneHolds
<1>8. \A d \in Sids : d > opened => shut'[d] = {}
  <2>1. \A d \in Sids : d > opened => ~(streams[i].alloc /\ d = streams[i].sid)
    BY <1>6, <1>7
  <2> QED
    BY <1>5, <2>1 DEF StreamIInv, UnusedNotShut
<1>9. \A k \in Slots : k # i /\ streams[k].alloc =>
         shut'[streams[k].sid] = shut[streams[k].sid]
  BY <1>5, <1>6, <1>7
<1>10. Agrees(u, shut'[u.sid])
  BY <1>3, <1>6, <1>8 DEF Agrees
<1>11. ASSUME tun = "up", ~torn, NEW d \in 1..sid
       PROVE  \/ shut'[d] = Dirs
              \/ u.alloc /\ u.sid = d
              \/ \E k \in Slots : k # i /\ Holds(k, d)
  <2>1. CASE d = sid
    BY <1>3, <2>1
  <2>2. CASE d \in 1..opened /\ streams[i].alloc /\ d = streams[i].sid
    BY <1>5, <1>11, <2>2
  <2>3. CASE d \in 1..opened /\ ~(streams[i].alloc /\ d = streams[i].sid)
    <3>1. shut'[d] = shut[d]
      BY <1>5, <1>6, <2>3
    <3>2. shut[d] = Dirs \/ \E k \in Slots : Holds(k, d)
      BY <1>11, <2>3 DEF StreamIInv, HalvesAgree
    <3> QED
      BY <2>3, <3>1, <3>2 DEF Holds
  <2> QED
    BY <1>6, <2>1, <2>2, <2>3
<1>12. \A d \in Sids : d > opened' => shut'[d] = {}
  BY <1>1, <1>6, <1>8
<1>13. /\ opened' \in Sids \cup {0} /\ opened <= opened' /\ u.sid \in 1..opened'
       /\ \A k \in Slots : k # i /\ streams[k].alloc => streams[k].sid # u.sid
  BY <1>1, <1>2, <1>3, <1>6, <1>7
<1>14. (tun = "down" => ~u.here) /\ (tun # "down" => u.here)
  BY <1>2, <1>3
<1>15. tun = "up" /\ ~torn =>
         /\ u.alloc /\ u.here => Agrees(u, shut'[u.sid])
         /\ \A d \in 1..opened' :
              \/ shut'[d] = Dirs
              \/ u.alloc /\ u.sid = d
              \/ \E k \in Slots : k # i /\ Holds(k, d)
  BY <1>1, <1>10, <1>11
<1> QED
  BY <1>1, <1>3, <1>4, <1>5, <1>9, <1>12, <1>13, <1>14, <1>15, OneSlot

\* What is being connected has no socket yet.
LEMMA Connects ==
    ASSUME StreamIInv, NEW i \in Slots, loop = i
    PROVE  LET z == streams[i]
           IN  /\ z \in StreamType /\ z.alloc /\ ~z.open /\ z.sid \in 1..opened /\ z.sid \in Sids
               /\ ~z.endR /\ ~z.endW /\ ~z.clsR /\ ~z.clsW /\ ~z.tnlB /\ z.ahead = 0
               /\ tun = "down" => ~z.here
               /\ tun # "down" /\ ~z.here => shut[z.sid] = Dirs
               /\ tun = "up" /\ ~torn /\ z.here => Agrees(z, shut[z.sid])
               /\ \A k \in Slots : k # i /\ streams[k].alloc => streams[k].sid # z.sid
<1> DEFINE z == streams[i]
<1>1. z \in StreamType /\ z.alloc /\ ~z.open /\ z.sid \in 1..opened
  BY WatchedIsOpen DEF StreamIInv, OnlyOneConnects, OneHolds
<1>2. z.sid \in Sids \cup {0} /\ z.here \in BOOLEAN /\ z # Gone
  BY <1>1, GoneType DEF StreamType
<1>3. z = Connecting(z.sid, z.here)
  BY <1>1, <1>2 DEF StreamIInv, OnlyOneConnects
<1>4. /\ ~z.endR /\ ~z.endW /\ ~z.clsR /\ ~z.clsW /\ ~z.tnlB /\ z.ahead = 0
  BY <1>2, <1>3, ConnectingType
<1>5. z.sid \in Sids
  BY <1>1, <1>2, StreamBounds DEF Sids, StreamBounds, StreamIInv, TypeOK
<1>6. /\ tun = "down" => ~z.here
      /\ tun # "down" /\ ~z.here => shut[z.sid] = Dirs
      /\ tun = "up" /\ ~torn /\ z.here => Agrees(z, shut[z.sid])
      /\ \A k \in Slots : k # i /\ streams[k].alloc => streams[k].sid # z.sid
  BY <1>1 DEF StreamIInv, HereIsUp, LeftIsShut, HalvesAgree, OneHolds
<1> QED
  BY <1>1, <1>4, <1>5, <1>6

LEMMA ConnectDoneKeeps ==
    ASSUME StreamIInv, NEW i \in Slots, ConnectDone(i)
    PROVE  StreamIInv'
<1> DEFINE z == streams[i]
           c == [z EXCEPT !.open = TRUE]
<1>1. /\ loop = i /\ live' = live + 1 /\ loop' = "tunnel"
      /\ \E t \in TunnelWrites \cup {NoWrite} : SetTunnel(t)
      /\ UNCHANGED <<tww, opened, shut>>
  BY DEF ConnectDone, relay
<1>2. PICK s \in {c, [c EXCEPT !.out = TRUE]} : streams' = [streams EXCEPT ![i] = Updated(s)]
  BY DEF ConnectDone
<1>3. /\ z \in StreamType /\ z.alloc /\ ~z.open /\ z.sid \in 1..opened /\ z.sid \in Sids
      /\ ~z.endR /\ ~z.endW /\ ~z.clsR /\ ~z.clsW /\ ~z.tnlB /\ z.ahead = 0
      /\ tun = "down" => ~z.here
      /\ tun # "down" /\ ~z.here => shut[z.sid] = Dirs
      /\ tun = "up" /\ ~torn /\ z.here => Agrees(z, shut[z.sid])
      /\ \A k \in Slots : k # i /\ streams[k].alloc => streams[k].sid # z.sid
  BY <1>1, Connects
<1>4. /\ c \in StreamType /\ c.open = TRUE /\ c.alloc = z.alloc /\ c.sid = z.sid
      /\ c.here = z.here /\ c.endR = z.endR /\ c.endW = z.endW /\ c.clsR = z.clsR
      /\ c.clsW = z.clsW /\ c.tnlB = z.tnlB /\ c.ahead = z.ahead
  BY <1>3 DEF StreamType
<1> HIDE DEF c
<1>5. /\ s \in StreamType /\ s.open = TRUE /\ s.alloc = z.alloc /\ s.sid = z.sid
      /\ s.here = z.here /\ s.endR = z.endR /\ s.endW = z.endW /\ s.clsR = z.clsR
      /\ s.clsW = z.clsW /\ s.tnlB = z.tnlB /\ s.ahead = z.ahead
  BY <1>2, <1>4 DEF StreamType
<1> DEFINE u == Updated(s)
<1>6. s.ahead <= Window + 1
  BY <1>3, <1>5, StreamBounds DEF StreamBounds
<1>7. /\ u \in StreamType
      /\ ~u.open => u = Gone /\ (s.clsR \/ s.endR) /\ (s.clsW \/ s.endW)
      /\ u.open => /\ u.alloc /\ Settled(u)
                   /\ u.sid = s.sid /\ u.here = s.here /\ u.tnlB = s.tnlB
                   /\ u.endR <=> s.clsR \/ s.endR
                   /\ u.endW <=> s.clsW \/ s.endW
  BY <1>3, <1>5, <1>6, AfterUpdate
<1>8. streams' = [streams EXCEPT ![i] = u]
  BY <1>2
<1> HIDE DEF u
<1>9. /\ u.open /\ u.alloc /\ Settled(u) /\ u.sid = z.sid /\ u.here = z.here /\ ~u.tnlB
      /\ ~u.endR /\ ~u.endW
  BY <1>3, <1>5, <1>7
<1>10. LiveCount' /\ live' \in 0..Cardinality(Slots)
  <2>1. streams \in [Slots -> StreamType]
    BY DEF StreamIInv, TypeOK, StreamType
  <2>2. Open' = Open \cup {i} /\ i \notin Open
    BY <1>3, <1>8, <1>9, <2>1 DEF Open
  <2> QED
    BY <1>1, <2>2, LiveRises DEF StreamIInv
<1>11. /\ opened \in Sids \cup {0} /\ opened <= opened
       /\ shut \in [Sids -> SUBSET Dirs]
       /\ \A d \in Sids : d > opened => shut[d] = {}
  BY StreamBounds DEF StreamIInv, TypeOK, UnusedNotShut, Sids, StreamBounds
<1>12. tun = "up" /\ ~torn /\ u.here => Agrees(u, shut[u.sid])
  BY <1>3, <1>9 DEF Agrees
<1>13. ASSUME tun = "up", ~torn, NEW d \in 1..opened
       PROVE  \/ shut[d] = Dirs
              \/ u.alloc /\ u.sid = d
              \/ \E k \in Slots : k # i /\ Holds(k, d)
  <2>1. shut[d] = Dirs \/ \E k \in Slots : Holds(k, d)
    BY <1>13 DEF StreamIInv, HalvesAgree
  <2> QED
    BY <1>9, <2>1 DEF Holds
<1>14. /\ opened' \in Sids \cup {0} /\ opened <= opened' /\ shut' \in [Sids -> SUBSET Dirs]
       /\ \A d \in Sids : d > opened' => shut'[d] = {}
       /\ \A k \in Slots : k # i /\ streams[k].alloc =>
            shut'[streams[k].sid] = shut[streams[k].sid]
  BY <1>1, <1>11
<1>15. u.alloc => /\ u.sid \in 1..opened'
                  /\ \A k \in Slots : k # i /\ streams[k].alloc => streams[k].sid # u.sid
  BY <1>1, <1>3, <1>9
<1>16. /\ tun = "down" => ~u.here
       /\ tun # "down" /\ u.alloc /\ ~u.here => shut'[u.sid] = Dirs
  BY <1>1, <1>3, <1>9
<1>17. tun = "up" /\ ~torn =>
         /\ u.alloc /\ u.here => Agrees(u, shut'[u.sid])
         /\ \A d \in 1..opened' :
              \/ shut'[d] = Dirs
              \/ u.alloc /\ u.sid = d
              \/ \E k \in Slots : k # i /\ Holds(k, d)
  BY <1>1, <1>12, <1>13
<1> QED
  BY <1>1, <1>7, <1>8, <1>9, <1>10, <1>14, <1>15, <1>16, <1>17, OneSlot

LEMMA ConnectFailsKeeps ==
    ASSUME StreamIInv, NEW i \in Slots, ConnectFails(i)
    PROVE  StreamIInv'
<1> DEFINE z == streams[i]
<1>1. /\ loop = i /\ live' = live /\ loop' = "tunnel" /\ tww' = tww
      /\ streams' = [streams EXCEPT ![i] = Gone]
      /\ opened' = (IF z.sid > opened THEN z.sid ELSE opened)
      /\ shut' = [shut EXCEPT ![z.sid] = Dirs]
      /\ \E t \in TunnelWrites : SetTunnel(t)
  BY DEF ConnectFails, Reject
<1>2. /\ z \in StreamType /\ z.alloc /\ ~z.open /\ z.sid \in 1..opened /\ z.sid \in Sids
      /\ \A k \in Slots : k # i /\ streams[k].alloc => streams[k].sid # z.sid
  BY <1>1, Connects
<1>3. /\ opened \in Sids \cup {0} /\ opened \in Nat /\ shut \in [Sids -> SUBSET Dirs]
      /\ \A d \in Sids : d > opened => shut[d] = {}
      /\ streams \in [Slots -> StreamType] /\ 1..opened \subseteq Sids
      /\ \A k \in Slots : streams[k].alloc => streams[k].sid \in 1..opened
  BY StreamBounds
     DEF StreamIInv, TypeOK, StreamType, UnusedNotShut, Sids, StreamBounds, OneHolds
<1>4. opened' = opened /\ opened <= opened'
  BY <1>1, <1>2, <1>3
<1>5. /\ shut' \in [Sids -> SUBSET Dirs] /\ shut'[z.sid] = Dirs
      /\ \A d \in Sids : d # z.sid => shut'[d] = shut[d]
  BY <1>1, <1>2, <1>3
<1>6. \A d \in Sids : d > opened' => shut'[d] = {}
  <2>1. \A d \in Sids : d > opened => d # z.sid
    BY <1>2, <1>3 DEF Sids
  <2> QED
    BY <1>3, <1>4, <1>5, <2>1
<1>7. \A k \in Slots : k # i /\ streams[k].alloc =>
         shut'[streams[k].sid] = shut[streams[k].sid]
  BY <1>2, <1>3, <1>5
<1>8. LiveCount' /\ live' \in 0..Cardinality(Slots)
  <2>1. Open' = Open
    BY <1>1, <1>2, <1>3, GoneType DEF Open
  <2> QED
    BY <1>1, <2>1, LiveStays DEF StreamIInv
<1>9. ASSUME tun = "up", ~torn, NEW d \in 1..opened
      PROVE  shut'[d] = Dirs \/ \E k \in Slots : k # i /\ Holds(k, d)
  <2>1. shut[d] = Dirs \/ \E k \in Slots : Holds(k, d)
    BY <1>9 DEF StreamIInv, HalvesAgree
  <2>2. CASE d = z.sid
    BY <1>5, <2>2
  <2>3. CASE d # z.sid
    BY <1>3, <1>5, <2>1, <2>3 DEF Holds
  <2> QED
    BY <2>2, <2>3
<1>10. opened' \in Sids \cup {0} /\ \E t \in TunnelWrites \cup {NoWrite} : SetTunnel(t)
  BY <1>1, <1>3, <1>4
<1>11. tun = "up" /\ ~torn =>
         /\ Gone.alloc /\ Gone.here => Agrees(Gone, shut'[Gone.sid])
         /\ \A d \in 1..opened' :
              \/ shut'[d] = Dirs
              \/ Gone.alloc /\ Gone.sid = d
              \/ \E k \in Slots : k # i /\ Holds(k, d)
  BY <1>4, <1>9, GoneType
<1> QED
  BY <1>1, <1>4, <1>5, <1>6, <1>7, <1>8, <1>10, <1>11, GoneType, OneSlot

-----------------------------------------------------------------------------
(* The housekeeping, and the theorems.                                       *)

\* No stream has a socket, but one may be being connected.
LEMMA DisconnectUnusedKeeps == ASSUME StreamIInv, DisconnectUnused PROVE StreamIInv'
<1>1. /\ TypeOK /\ LiveCount /\ OnlyOneConnects /\ OneHolds /\ UnusedNotShut
      /\ streams \in [Slots -> StreamType]
  BY DEF StreamIInv, TypeOK, StreamType
<1>2. /\ \A k \in Slots : ~streams[k].open
      /\ tun' = "down" /\ tout' = FALSE /\ tww' = FALSE
      /\ streams' = [k \in Slots |-> [streams[k] EXCEPT !.here = FALSE]]
      /\ UNCHANGED <<live, loop, opened, shut, torn>>
  BY DEF DisconnectUnused, relay
<1>3. ASSUME NEW k \in Slots
      PROVE  /\ streams'[k] \in StreamType /\ ~streams'[k].open
             /\ streams'[k].alloc = streams[k].alloc /\ streams'[k].sid = streams[k].sid
             /\ ~streams'[k].here
             /\ ~streams[k].here => streams'[k] = streams[k]
  <2> DEFINE z == [streams[k] EXCEPT !.here = FALSE]
  <2>1. streams'[k] = z /\ streams[k] \in StreamType /\ ~streams[k].open
    BY <1>1, <1>2
  <2>2. /\ z \in StreamType /\ z.open = streams[k].open /\ z.alloc = streams[k].alloc
        /\ z.sid = streams[k].sid /\ z.here = FALSE
        /\ ~streams[k].here => z = streams[k]
    BY <2>1, NotHere
  <2> HIDE DEF z
  <2> QED
    BY <2>1, <2>2
<1>4. LiveCount' /\ live' \in 0..Cardinality(Slots)
  <2>1. Open' = Open
    BY <1>2, <1>3 DEF Open
  <2> QED
    BY <1>1, <1>2, <2>1, LiveStays
<1>5. ASSUME NEW k \in Slots
      PROVE  \/ streams'[k] = Gone
             \/ loop = k /\ streams'[k] = Connecting(streams'[k].sid, streams'[k].here)
  <2>1. CASE streams[k] = Gone
    BY <1>3, <2>1, GoneType
  <2>2. CASE loop = k /\ streams[k] = Connecting(streams[k].sid, streams[k].here)
    <3>1. PICK sid, here : sid = streams[k].sid /\ here = streams[k].here
      OBVIOUS
    <3>2. sid \in Sids \cup {0} /\ here \in BOOLEAN
      BY <1>1, <3>1 DEF StreamType
    <3>3. streams'[k] = [Connecting(sid, here) EXCEPT !.here = FALSE]
      BY <1>2, <2>2, <3>1
    <3>4. streams'[k] = Connecting(sid, FALSE)
      BY <3>2, <3>3, ConnectingNotHere
    <3>5. streams'[k].sid = sid
      BY <1>3, <3>1
    <3>6. streams'[k].here = FALSE
      BY <3>2, <3>4, ConnectingType
    <3> QED
      BY <2>2, <3>4, <3>5, <3>6
  <2> QED
    BY <1>1, <1>2, <2>1, <2>2 DEF OnlyOneConnects
<1>6. TypeOK'
  <2>1. streams' \in [Slots -> StreamType]
    BY <1>2, <1>3
  <2>2. \A k \in Slots : ~streams'[k].alloc => streams'[k] = Gone
    <3> SUFFICES ASSUME NEW k \in Slots, ~streams'[k].alloc PROVE streams'[k] = Gone
      OBVIOUS
    <3>1. ~streams[k].alloc
      BY <1>3
    <3>2. loop # k
      BY <1>1, <3>1 DEF OnlyOneConnects
    <3> QED
      BY <1>5, <3>2
  <2> QED
    BY <1>1, <1>2, <1>4, <2>1, <2>2 DEF TypeOK, StreamType
<1>7. OnlyOneConnects'
  <2>1. \A k \in Slots : loop = k => streams'[k].alloc
    BY <1>1, <1>3 DEF OnlyOneConnects
  <2> QED
    BY <1>2, <1>3, <1>5, <2>1 DEF OnlyOneConnects
<1>8. OneHolds'
  BY <1>1, <1>2, <1>3 DEF OneHolds
<1>9. AllSettled' /\ Unblocking' /\ HereIsUp' /\ UnusedNotShut' /\ LeftIsShut' /\ HalvesAgree'
  BY <1>1, <1>2, <1>3
     DEF AllSettled, Unblocking, HereIsUp, UnusedNotShut, LeftIsShut, HalvesAgree
<1> QED
  BY <1>4, <1>6, <1>7, <1>8, <1>9 DEF StreamIInv

\* A new connection: no stream is left here, and the relay knows of none.
LEMMA ReconnectKeeps == ASSUME StreamIInv, Reconnect PROVE StreamIInv'
<1>1. /\ TypeOK /\ LiveCount /\ OnlyOneConnects /\ OneHolds /\ AllSettled /\ HereIsUp
  BY DEF StreamIInv
<1>2. /\ tun = "down" /\ tun' = "up" /\ torn' = FALSE
      /\ shut' = [s \in Sids |-> IF s <= opened THEN Dirs ELSE {}]
      /\ UNCHANGED <<streams, live, tout, tww, loop, opened>>
  BY DEF Reconnect
<1>3. /\ opened \in Nat /\ 1..opened \subseteq Sids /\ \A s \in Sids : s \in Nat
  BY <1>1, StreamBounds DEF TypeOK, Sids, StreamBounds
<1>4. /\ shut' \in [Sids -> SUBSET Dirs]
      /\ \A s \in 1..opened : shut'[s] = Dirs
      /\ \A s \in Sids : s > opened => shut'[s] = {}
  <2>1. \A s \in Sids : s > opened => ~(s <= opened)
    BY <1>3
  <2>2. \A s \in 1..opened : s <= opened /\ s \in Sids
    BY <1>3
  <2> QED
    BY <1>2, <2>1, <2>2
<1>5. LiveCount' /\ live' \in 0..Cardinality(Slots)
  <2>1. Open' = Open
    BY <1>2 DEF Open
  <2> QED
    BY <1>1, <1>2, <2>1, LiveStays
<1>6. TypeOK'
  BY <1>1, <1>2, <1>4, <1>5 DEF TypeOK
<1>7. OnlyOneConnects' /\ OneHolds' /\ AllSettled'
  BY <1>1, <1>2 DEF OnlyOneConnects, OneHolds, AllSettled, Settled, Blocked
<1>8. \A k \in Slots : ~streams[k].here
  BY <1>1, <1>2 DEF HereIsUp
<1>9. Unblocking' /\ HereIsUp' /\ UnusedNotShut'
  BY <1>2, <1>4, <1>8 DEF Unblocking, HereIsUp, UnusedNotShut
<1>10. LeftIsShut'
  BY <1>1, <1>2, <1>4 DEF LeftIsShut, OneHolds
<1>11. HalvesAgree'
  BY <1>2, <1>4, <1>8 DEF HalvesAgree
<1> QED
  BY <1>5, <1>6, <1>7, <1>9, <1>10, <1>11 DEF StreamIInv

LEMMA StreamInitial == Init => StreamIInv
<1> SUFFICES ASSUME Init PROVE StreamIInv
  OBVIOUS
<1>1. /\ streams = [i \in Slots |-> Gone] /\ live = 0 /\ tun = "up" /\ tout = FALSE
      /\ tww = FALSE /\ loop = "idle" /\ opened = 0 /\ shut = [s \in Sids |-> {}]
      /\ torn = FALSE
  BY DEF Init
<1>2. \A i \in Slots : streams[i] = Gone
  BY <1>1
<1>3. Cardinality(Slots) \in Nat /\ IsFiniteSet(Slots)
  BY StreamBounds, FS_CardinalityType DEF StreamBounds
<1>4. TypeOK
  <2>1. streams \in [Slots -> StreamType]
    BY <1>1, GoneType
  <2>2. shut \in [Sids -> SUBSET Dirs]
    BY <1>1
  <2>3. live \in 0..Cardinality(Slots)
    BY <1>1, <1>3
  <2>4. /\ opened \in Sids \cup {0} /\ loop \in {"idle", "tunnel"} \cup Slots
        /\ tun \in {"up", "broken", "mute", "down"}
        /\ tout \in BOOLEAN /\ tww \in BOOLEAN /\ torn \in BOOLEAN
        /\ tun = "down" => ~tout /\ ~tww
    BY <1>1
  <2>5. \A i \in Slots : ~streams[i].alloc => streams[i] = Gone
    BY <1>2
  <2> QED
    BY <2>1, <2>2, <2>3, <2>4, <2>5 DEF TypeOK, StreamType
<1>5. LiveCount
  <2>1. {i \in Slots : streams[i].open} = {}
    BY <1>2, GoneType
  <2> QED
    BY <1>1, <2>1, FS_EmptySet DEF LiveCount
<1>6. OnlyOneConnects
  <2>1. \A i \in Slots : loop # i
    BY <1>1, StreamBounds DEF StreamBounds
  <2> QED
    BY <1>2, <2>1, GoneType DEF OnlyOneConnects
<1>7. OneHolds /\ AllSettled /\ Unblocking /\ HereIsUp /\ LeftIsShut
  BY <1>1, <1>2, GoneType DEF OneHolds, AllSettled, Unblocking, HereIsUp, LeftIsShut
<1>8. UnusedNotShut
  BY <1>1 DEF UnusedNotShut
<1>9. HalvesAgree
  <2>1. 1..opened = {}
    BY <1>1
  <2> QED
    BY <1>2, <2>1, GoneType DEF HalvesAgree
<1> QED
  BY <1>4, <1>5, <1>6, <1>7, <1>8, <1>9 DEF StreamIInv

LEMMA StreamSteps == ASSUME StreamIInv, [Next]_vars PROVE StreamIInv'
<1>1. ASSUME NEW i \in Slots, Backend(i) \/ ConnectDone(i) \/ ConnectFails(i)
      PROVE  StreamIInv'
  BY <1>1, BackendKeeps, ConnectDoneKeeps, ConnectFailsKeeps
<1>2. ASSUME NEW i \in Slots, NEW sid \in Sids, Frame(i, sid) PROVE StreamIInv'
  BY <1>2, FrameDataKeeps, FrameEofKeeps, FrameAckKeeps, ConnectStartKeeps DEF Frame
<1>3. CASE TunnelReadable \/ FramePing \/ \E sid \in Sids : FrameRejected(sid)
  BY <1>3, QuietKeeps
<1>4. CASE TunnelRead \/ TunnelDrains \/ TunnelDrainsPart \/ TunnelWriteFails \/ TunnelDies
  BY <1>4, TunnelKeeps
<1>5. CASE DisconnectUnused
  BY <1>5, DisconnectUnusedKeeps
<1>6. CASE Reconnect
  BY <1>6, ReconnectKeeps
<1>7. CASE UNCHANGED vars
  <2>1. UNCHANGED <<streams, live, tun, tout, tww, torn, loop, opened, shut>>
    BY <1>7 DEF vars, tunnel, relay
  <2>2. UNCHANGED <<tww, loop, shut, opened>> /\ torn => torn'
    BY <2>1
  <2>3. /\ tun' \in {"up", "broken", "mute", "down"} /\ tout' \in BOOLEAN
        /\ torn' \in BOOLEAN /\ (torn => torn')
        /\ tun' = "up" => tun = "up"
        /\ tun' = "down" <=> tun = "down"
        /\ tun' = "down" => ~tout'
    BY <2>1 DEF StreamIInv, TypeOK
  <2> QED
    BY <2>1, <2>3, NoStream
<1> QED
  BY <1>1, <1>2, <1>3, <1>4, <1>5, <1>6, <1>7 DEF Next

\* Whatever the relay, the backends and the housekeeping do, the streams, the count
\* of them, the tunnel's watchers and what the relay was told go together.
THEOREM StreamInvariant == Spec => []StreamIInv
<1>1. Init => StreamIInv
  BY StreamInitial
<1>2. StreamIInv /\ [Next]_vars => StreamIInv'
  BY StreamSteps
<1> QED
  BY <1>1, <1>2, PTL DEF Spec

\* The slots, the tunnel and the relay's view are what they may be.
THEOREM StreamsTyped == Spec => []TypeOK
<1>1. StreamIInv => TypeOK
  BY DEF StreamIInv
<1> QED
  BY <1>1, StreamInvariant, PTL

\* pk_state.live_streams is the number of open streams, whichever of the ways in
\* which a stream starts and ends were taken (pkmanager.c:385, 556).
THEOREM StreamsCounted == Spec => []LiveCount
<1>1. StreamIInv => LiveCount
  BY DEF StreamIInv
<1> QED
  BY <1>1, StreamInvariant, PTL

\* Relay and front-end agree which half of which stream is over, as long as no
\* write to the tunnel was given up halfway: for any number of slots, streams,
\* evictions and reconnects.
THEOREM HalvesStayAgreed == Spec => []HalfClosesAgree
<1>1. StreamIInv => HalfClosesAgree
  <2> SUFFICES ASSUME StreamIInv, tun = "up", ~torn, NEW sid \in 1..opened
               PROVE  \/ shut[sid] = Dirs /\ \A i \in Slots : ~Holds(i, sid)
                      \/ \E i \in Slots :
                         /\ Holds(i, sid)
                         /\ streams[i].here =>
                              /\ "R" \in shut[sid] <=> streams[i].endR
                              /\ "W" \in shut[sid] <=> streams[i].endW
    BY DEF HalfClosesAgree
  <2>1. CASE \E i \in Slots : Holds(i, sid)
    BY <2>1 DEF StreamIInv, HalvesAgree, Agrees, Holds
  <2>2. CASE \A i \in Slots : ~Holds(i, sid)
    BY <2>2 DEF StreamIInv, HalvesAgree
  <2> QED
    BY <2>1, <2>2
<1> QED
  BY <1>1, StreamInvariant, PTL

\* A stream that may be read, has output or waits for the tunnel has a watcher that
\* will look at it (pkm_update_io, pkmanager.c:413-577).
THEOREM NoStreamIsForgotten == Spec => []NoStreamStalls
<1>1. StreamIInv => NoStreamStalls
  <2> SUFFICES ASSUME StreamIInv, NEW i \in Slots, streams[i].open
               PROVE  /\ ~streams[i].endR => streams[i].wr \/ Blocked(streams[i])
                      /\ streams[i].out => streams[i].ww
                      /\ streams[i].tnlB /\ streams[i].here /\ tun = "up" => tww
    BY DEF NoStreamStalls
  <2>1. Settled(streams[i])
    BY DEF StreamIInv, AllSettled
  <2>2. streams[i].tnlB /\ streams[i].here /\ tun = "up" => tww
    BY DEF StreamIInv, Unblocking
  <2> QED
    BY <2>1, <2>2 DEF Settled
<1> QED
  BY <1>1, StreamInvariant, PTL

\* No backend is read further ahead than the window and the block that overruns it
\* (pkm_update_io, pkmanager.c:445-453).
THEOREM NeverFarAhead == Spec => []AheadIsBounded
<1>1. StreamIInv => AheadIsBounded
  <2> SUFFICES ASSUME StreamIInv, NEW i \in Slots PROVE streams[i].ahead <= Window + 1
    BY DEF AheadIsBounded
  <2>1. CASE streams[i].open
    BY <2>1 DEF StreamIInv, AllSettled, Settled
  <2>2. CASE ~streams[i].open
    <3>1. streams[i] \in StreamType
      BY WatchedIsOpen
    <3>2. streams[i].sid \in Sids \cup {0} /\ streams[i].here \in BOOLEAN
      BY <3>1 DEF StreamType
    <3>3. Gone.ahead = 0
      BY DEF Gone
    <3>4. streams[i].ahead = 0
      BY <2>2, <3>2, <3>3, ConnectingType DEF StreamIInv, OnlyOneConnects
    <3> QED
      BY <3>4, StreamBounds DEF StreamBounds
  <2> QED
    BY <2>1, <2>2
<1> QED
  BY <1>1, StreamInvariant, PTL

-----------------------------------------------------------------------------
(* The descriptors: the invariant of the loop.                               *)

AllWatchers == [conn : Conns, events : RW]
Asyncs == {Async("quit"), Async("interrupt")}
Loops == [heads : [Fds -> SUBSET AllWatchers],
          events : [Fds -> SUBSET RW],
          emask : [Fds -> SUBSET RW],
          reify : [Fds -> SUBSET {"reify", "fdset"}],
          pendings : SUBSET [w : AllWatchers \cup Asyncs, gone : BOOLEAN],
          fresh : SUBSET AllWatchers]

WatchTypeOK ==
    /\ backend \in BackEnds
    /\ owner \in [Fds -> Conns \cup {Nobody}]
    /\ interest \in [Fds -> SUBSET RW]
    /\ sockfd \in [Conns -> Fds \cup {NoFd}]
    /\ status \in [Conns -> {"free", "connecting", "up"}]
    /\ ev \in Loops
    /\ loop_done \in BOOLEAN
    /\ stage \in {"reify", "poll", "invoke", "callback", "close_again", "ended", "stopped"}
    /\ closing \in Tunnels

\* The first of a tunnel's two closes has been done, the second has not.
HalfClosed(c) == stage = "close_again" /\ c = closing

\* A connection that is not free holds a descriptor, which the kernel knows for
\* its own, and the kernel's sockets are held by the connections they are of.
SocketsAreHeld ==
    /\ \A c \in Conns : status[c] = "free" <=> sockfd[c] = NoFd
    /\ \A c \in Conns : status[c] # "free" /\ ~HalfClosed(c) => owner[sockfd[c]] = c
    /\ \A f \in Fds : owner[f] \in Conns => sockfd[owner[f]] = f
    /\ stage = "close_again" => /\ status[closing] = "up"
                                /\ owner[sockfd[closing]] = Nobody

\* Only the watchers of connections that are up are started, on the
\* connection's own descriptor.
WatchersAreUp ==
    \A f \in Fds : \A w \in ev.heads[f] :
        /\ status[w.conn] = "up" /\ sockfd[w.conn] = f
        /\ ~HalfClosed(w.conn)

\* What fd_reify last computed is right, but for descriptors marked changed.
EventsAreComputed ==
    /\ \A f \in Fds : ev.reify[f] = {} => ev.events[f] = Wanted(f)
    /\ stage = "poll" => \A f \in Fds : ev.reify[f] = {}

\* epoll's masks: what it was told last holds unless the descriptor was closed
\* since, and a new socket, of which the kernel knows nothing, is marked.
EpollKnows ==
    backend = "epoll" /\ stage # "stopped" =>
        /\ \A f \in Fds : interest[f] # {} => interest[f] = ev.emask[f]
        /\ \A c \in Conns : status[c] = "up" /\ ~HalfClosed(c) =>
              \/ "fdset" \in ev.reify[sockfd[c]]
              \/ ev.events[sockfd[c]] \subseteq interest[sockfd[c]]

\* poll's and select's arrays are fd_reify's own.
ArrayKnows ==
    backend # "epoll" /\ stage # "stopped" => \A f \in Fds : interest[f] = ev.events[f]

LoopIInv ==
    /\ WatchTypeOK
    /\ SocketsAreHeld /\ WatchersAreUp /\ EventsAreComputed
    /\ EpollKnows /\ ArrayKnows
    /\ EventsAreFresh
-----------------------------------------------------------------------------
(* Starting and stopping watchers.                                           *)

\* What starting or stopping watchers of connection c on descriptor fd, which
\* makes k of the bookkeeping l, may do: other watchers stay as they are, a
\* descriptor whose watchers change is marked, and what stays pending stays
\* started.
Turned(l, k, c, fd) ==
    /\ k \in Loops
    /\ k.events = l.events /\ k.emask = l.emask
    /\ k.pendings \subseteq l.pendings
    /\ \A p \in k.pendings : Active(l, p.w) => Active(k, p.w)
    /\ \A f \in Fds :
          /\ \A w \in k.heads[f] : w \in l.heads[f] \/ (f = fd /\ w.conn = c)
          /\ l.reify[f] \subseteq k.reify[f]
          /\ k.reify[f] = {} => k.heads[f] = l.heads[f]

LEMMA TurnedTwice ==
    ASSUME NEW l, NEW k, NEW m, NEW c, NEW fd, Turned(l, k, c, fd), Turned(k, m, c, fd)
    PROVE  Turned(l, m, c, fd)
<1>1. \A f \in Fds : l.reify[f] \subseteq m.reify[f] /\ (m.reify[f] = {} => m.heads[f] = l.heads[f])
  BY DEF Turned
<1>2. \A f \in Fds : \A w \in m.heads[f] : w \in l.heads[f] \/ (f = fd /\ w.conn = c)
  BY DEF Turned
<1>3. \A p \in m.pendings : Active(l, p.w) => Active(m, p.w)
  BY DEF Turned
<1> QED
  BY <1>1, <1>2, <1>3 DEF Turned

LEMMA WatcherType ==
    ASSUME NEW c \in Conns, NEW e \in RW
    PROVE  /\ Watcher(c, e) \in AllWatchers
           /\ Watcher(c, e).conn = c /\ Watcher(c, e).events = e
  BY DEF Watcher, AllWatchers

\* ev_io_stop.
LEMMA Stopped ==
    ASSUME NEW l \in Loops, NEW c \in Conns, NEW e \in RW, NEW fd \in Fds,
           \A f \in Fds : Watcher(c, e) \in l.heads[f] => f = fd
    PROVE  LET k == IoStop(l, Watcher(c, e), fd)
           IN  /\ Turned(l, k, c, fd)
               /\ ~Active(k, Watcher(c, e)) /\ \A p \in k.pendings : p.w # Watcher(c, e)
               /\ k.fresh = l.fresh
<1> DEFINE w == Watcher(c, e)
           k == IoStop(l, w, fd)
           cleared == ClearPending(l, w)
<1>1. /\ cleared \in Loops
      /\ cleared.heads = l.heads /\ cleared.events = l.events /\ cleared.emask = l.emask
      /\ cleared.reify = l.reify /\ cleared.fresh = l.fresh
      /\ cleared.pendings = {p \in l.pendings : p.w # w}
  BY DEF ClearPending, Loops
<1>2. CASE ~Active(l, w)
  BY <1>1, <1>2 DEF IoStop, Turned, Active
<1>3. CASE Active(l, w)
  <2>1. k = [cleared EXCEPT !.heads[fd] = @ \ {w}, !.reify[fd] = @ \cup {"reify"}]
    BY <1>3 DEF IoStop
  <2> HIDE DEF k, cleared
  <2>2. /\ k.heads = [l.heads EXCEPT ![fd] = @ \ {w}]
        /\ k.reify = [l.reify EXCEPT ![fd] = @ \cup {"reify"}]
        /\ k.events = l.events /\ k.emask = l.emask /\ k.fresh = l.fresh
        /\ k.pendings = {p \in l.pendings : p.w # w}
        /\ k \in Loops
    BY <1>1, <2>1 DEF Loops
  <2>3. \A f \in Fds : /\ k.heads[f] = IF f = fd THEN l.heads[f] \ {w} ELSE l.heads[f]
                       /\ k.reify[f] = IF f = fd THEN l.reify[f] \cup {"reify"} ELSE l.reify[f]
    BY <2>2 DEF Loops
  <2>4. ~Active(k, w)
    BY <2>3 DEF Active
  <2>5. \A p \in k.pendings : Active(l, p.w) => Active(k, p.w)
    BY <2>2, <2>3 DEF Active
  <2> QED
    BY <2>2, <2>3, <2>4, <2>5 DEF Turned, k
<1> QED
  BY <1>2, <1>3

\* ev_io_start.
LEMMA Started ==
    ASSUME NEW l \in Loops, NEW c \in Conns, NEW e \in RW, NEW fd \in Fds
    PROVE  LET k == IoStart(l, Watcher(c, e), fd)
           IN  /\ Turned(l, k, c, fd)
               /\ Watcher(c, e) \in l.fresh /\ ~Active(l, Watcher(c, e))
                     => "fdset" \in k.reify[fd]
<1> DEFINE w == Watcher(c, e)
           k == IoStart(l, w, fd)
<1>1. w \in AllWatchers /\ w.conn = c
  BY WatcherType
<1>2. CASE Active(l, w)
  BY <1>2 DEF IoStart, Turned
<1>3. CASE ~Active(l, w)
  <2> DEFINE marks == IF w \in l.fresh THEN {"fdset"} ELSE {}
  <2>1. k = [l EXCEPT !.heads[fd] = @ \cup {w}, !.reify[fd] = @ \cup {"reify"} \cup marks,
                      !.fresh = @ \ {w}]
    BY <1>3 DEF IoStart
  <2>0. marks \subseteq {"fdset"} /\ (w \in l.fresh => "fdset" \in marks)
    OBVIOUS
  <2> HIDE DEF k, w, marks
  <2>2. /\ k.heads = [l.heads EXCEPT ![fd] = @ \cup {w}]
        /\ k.reify = [l.reify EXCEPT ![fd] = @ \cup {"reify"} \cup marks]
        /\ k.events = l.events /\ k.emask = l.emask /\ k.fresh = l.fresh \ {w}
        /\ k.pendings = l.pendings
        /\ k \in Loops
    <3>1. k.heads = [l.heads EXCEPT ![fd] = @ \cup {w}] 
      BY <2>1 DEF Loops
    <3>2. k.reify = [l.reify EXCEPT ![fd] = @ \cup {"reify"} \cup marks]
      BY <2>1 DEF Loops
    <3>3. k.fresh = l.fresh \ {w} 
      BY <2>1 DEF Loops
    <3>4. k.events = l.events /\ k.emask = l.emask /\ k.pendings = l.pendings
      BY <2>1 DEF Loops
    <3>5. k \in Loops
      BY <1>1, <2>0, <2>1, <3>1, <3>2, <3>3, <3>4, ZenonT(30) DEF Loops
    <3> QED
      BY <3>1, <3>2, <3>3, <3>4, <3>5
  <2>3. \A f \in Fds : /\ k.heads[f] = IF f = fd THEN l.heads[f] \cup {w} ELSE l.heads[f]
                       /\ k.reify[f] = IF f = fd THEN l.reify[f] \cup {"reify"} \cup marks
                                                 ELSE l.reify[f]
    BY <2>2 DEF Loops
  <2>4. \A p \in k.pendings : Active(l, p.w) => Active(k, p.w)
    BY <2>2, <2>3 DEF Active
  <2>5. Turned(l, k, c, fd)
    BY <1>1, <2>2, <2>3, <2>4 DEF Turned
  <2> QED
    BY <2>3, <2>5, <2>0 DEF k, w
<1> QED
  BY <1>2, <1>3

\* pkm_update_io and ev_io_init with ev_io_start: every watcher of c that is
\* started is on fd.
LEMMA Watched ==
    ASSUME NEW l \in Loops, NEW c \in Conns, NEW fd \in Fds, NEW es \in SUBSET RW,
           \A f \in Fds : \A w \in l.heads[f] : w.conn = c => f = fd
    PROVE  LET k == Watching(l, c, fd, es)
           IN  /\ Turned(l, k, c, fd)
               /\ es = {} => /\ \A f \in Fds : \A w \in k.heads[f] : w.conn # c
                             /\ \A p \in k.pendings : p.w.conn # c
               /\ /\ "r" \in es /\ Watcher(c, "r") \in l.fresh
                  /\ \A f \in Fds : \A w \in l.heads[f] : w.conn # c
                  => "fdset" \in k.reify[fd]
<1> DEFINE wr == Watcher(c, "r")
           ww == Watcher(c, "w")
           j == IF "r" \in es THEN IoStart(l, wr, fd) ELSE IoStop(l, wr, fd)
           k == IF "w" \in es THEN IoStart(j, ww, fd) ELSE IoStop(j, ww, fd)
<1>0. Watching(l, c, fd, es) = k
  BY DEF Watching
<1>1. "r" \in RW /\ "w" \in RW /\ wr.conn = c /\ ww.conn = c
  BY WatcherType DEF RW
<1>2. Turned(l, j, c, fd)
  BY <1>1, Started, Stopped
<1>3. j \in Loops /\ \A f \in Fds : \A w \in j.heads[f] : w.conn = c => f = fd
  BY <1>2 DEF Turned
<1>4. Turned(j, k, c, fd)
  <2> HIDE DEF j
  <2> QED
    BY <1>1, <1>3, Started, Stopped
<1>5. Turned(l, k, c, fd)
  BY <1>2, <1>4, TurnedTwice
<1>6. ASSUME es = {}
      PROVE  /\ \A f \in Fds : \A w \in k.heads[f] : w.conn # c
             /\ \A p \in k.pendings : p.w.conn # c
  <2>1. /\ ~Active(j, wr) /\ \A p \in j.pendings : p.w # wr
    BY <1>1, <1>6, Stopped
  <2> HIDE DEF j
  <2>2. /\ ~Active(k, ww) /\ \A p \in k.pendings : p.w # ww
        /\ k.pendings \subseteq j.pendings
    BY <1>1, <1>3, <1>4, <1>6, Stopped DEF Turned
  <2>3. ~Active(k, wr)
    BY <1>3, <1>6, <2>1 DEF IoStop, ClearPending, Active, Loops
  <2>4. k \in Loops
    BY <1>5 DEF Turned
  <2>5. \A w \in AllWatchers \cup Asyncs : w.conn = c => w = wr \/ w = ww
    BY ConnsAreDistinct DEF AllWatchers, Asyncs, Async, Watcher, RW, ConnsAreDistinct
  <2> HIDE DEF k, wr, ww
  <2>6. \A f \in Fds : \A w \in k.heads[f] : w \in AllWatchers
    BY <2>4 DEF Loops
  <2>7. \A p \in k.pendings : p.w \in AllWatchers \cup Asyncs
    BY <2>4 DEF Loops
  <2> QED
    BY <2>1, <2>2, <2>3, <2>5, <2>6, <2>7 DEF Active
<1>7. ASSUME "r" \in es, wr \in l.fresh, \A f \in Fds : \A w \in l.heads[f] : w.conn # c
      PROVE  "fdset" \in k.reify[fd]
  <2>1. "fdset" \in j.reify[fd]
    BY <1>1, <1>7, Started DEF Active
  <2> QED
    BY <1>4, <2>1 DEF Turned
<1> QED
  BY <1>0, <1>5, <1>6, <1>7
\* ev_io_init changes what the next start marks, and nothing else.
LEMMA IntroducedTurns ==
    ASSUME ev \in Loops, NEW c \in Conns, NEW fd \in Fds, NEW es \in SUBSET RW, "r" \in es,
           \A f \in Fds : \A w \in ev.heads[f] : w.conn # c
    PROVE  LET k == Introduced(ev, c, fd, es)
           IN  Turned(ev, k, c, fd) /\ "fdset" \in k.reify[fd]
<1> DEFINE l == [ev EXCEPT !.fresh = @ \cup Watchers(c)]
           k == Watching(l, c, fd, es)
<1>1. Watchers(c) \subseteq AllWatchers /\ Watcher(c, "r") \in Watchers(c)
  BY WatcherType DEF Watchers, RW
<1>2. /\ l \in Loops /\ Watcher(c, "r") \in l.fresh
      /\ l.heads = ev.heads /\ l.events = ev.events /\ l.emask = ev.emask
      /\ l.reify = ev.reify /\ l.pendings = ev.pendings
  BY <1>1 DEF Loops
<1> HIDE DEF l
<1>3. Turned(l, k, c, fd) /\ "fdset" \in k.reify[fd]
  BY <1>2, Watched
<1>4. Turned(ev, k, c, fd)
  BY <1>2, <1>3 DEF Turned, Active
<1> QED
  BY <1>3, <1>4 DEF Introduced, l

\* Nothing is pending any more for a connection whose watchers were stopped.
LEMMA NothingForgotten ==
    ASSUME NEW k \in Loops, NEW c, \A p \in k.pendings : p.w.conn # c
    PROVE  Forgotten(k, c) = k
<1>1. ASSUME NEW p \in k.pendings
      PROVE  [p EXCEPT !.gone = @ \/ p.w.conn = c] = p
  <2>1. p \in [w : AllWatchers \cup Asyncs, gone : BOOLEAN]
    BY DEF Loops
  <2>2. (p.gone \/ p.w.conn = c) = p.gone
    BY <2>1
  <2> QED
    BY <2>1, <2>2
<1>2. {[p EXCEPT !.gone = @ \/ p.w.conn = c] : p \in k.pendings} = k.pendings
  BY <1>1
<1>3. [k EXCEPT !.pendings = k.pendings] = k
  BY DEF Loops
<1> QED
  BY <1>2, <1>3 DEF Forgotten

\* Turning the watchers of one connection leaves the bookkeeping right.
LEMMA TurnKeeps ==
    ASSUME WatchTypeOK, EventsAreComputed, EventsAreFresh, NEW c, NEW fd,
           Turned(ev, ev', c, fd), stage' # "poll"
    PROVE  EventsAreComputed' /\ EventsAreFresh'
<1>1. EventsAreComputed'
  BY DEF Turned, EventsAreComputed, Wanted
<1>2. EventsAreFresh'
  BY DEF Turned, EventsAreFresh
<1> QED
  BY <1>1, <1>2

-----------------------------------------------------------------------------
(* Descriptors.                                                              *)

LEMMA ClosesOne ==
    ASSUME WatchTypeOK, NEW fd \in Fds, Closes({fd})
    PROVE  /\ owner' \in [Fds -> Conns \cup {Nobody}] /\ interest' \in [Fds -> SUBSET RW]
           /\ owner'[fd] = Nobody
           /\ \A f \in Fds \ {fd} : owner'[f] = owner[f] /\ interest'[f] = interest[f]
           /\ backend = "epoll" => interest'[fd] = {}
           /\ backend # "epoll" => interest' = interest
  BY DEF WatchTypeOK, Closes, Closed, Unwatched

LEMMA OpensOne ==
    ASSUME WatchTypeOK, SocketsAreHeld, NEW c \in Conns, status[c] = "free",
           NEW f \in Fds, Opens(c, f)
    PROVE  /\ owner[f] = Nobody /\ owner' = [owner EXCEPT ![f] = c]
           /\ interest' = interest /\ sockfd' = [sockfd EXCEPT ![c] = f]
<1>1. sockfd[c] = NoFd /\ NoFd \notin Fds
  BY FdsAreNumbers DEF SocketsAreHeld
<1>2. Closed({sockfd[c]}) = owner /\ Unwatched({sockfd[c]}) = interest
  BY <1>1 DEF Closed, Unwatched, WatchTypeOK
<1> QED
  BY <1>2 DEF Opens

\* A connection's descriptor is nobody else's.
LEMMA HeldAlone ==
    ASSUME WatchTypeOK, SocketsAreHeld, NEW c \in Conns, NEW d \in Conns, c # d,
           status[c] # "free", status[d] # "free"
    PROVE  sockfd[c] # sockfd[d] /\ sockfd[c] \in Fds
<1>1. closing \in Conns /\ Nobody \notin Conns
  BY ConnsAreDistinct DEF WatchTypeOK, Conns, ConnsAreDistinct
<1>2. sockfd[c] \in Fds
  BY DEF WatchTypeOK, SocketsAreHeld
<1>3. sockfd[c] # sockfd[d]
  <2>1. CASE HalfClosed(c) \/ HalfClosed(d)
    BY <1>1, <2>1 DEF SocketsAreHeld, HalfClosed
  <2>2. CASE ~HalfClosed(c) /\ ~HalfClosed(d)
    BY <2>2 DEF SocketsAreHeld
  <2> QED
    BY <2>1, <2>2
<1> QED
  BY <1>2, <1>3

\* The first open of a free connection: nothing of it is started.
LEMMA OpenKeepsSockets ==
    ASSUME WatchTypeOK, SocketsAreHeld, stage # "close_again", stage' = stage,
           NEW c \in Conns, status[c] = "free", NEW s \in {"connecting", "up"},
           status' = [status EXCEPT ![c] = s], UNCHANGED closing,
           NEW f \in Fds, Opens(c, f)
    PROVE  SocketsAreHeld'
<1>1. /\ owner[f] = Nobody /\ owner' = [owner EXCEPT ![f] = c]
      /\ sockfd' = [sockfd EXCEPT ![c] = f]
  BY OpensOne
<1>2. Nobody \notin Conns /\ NoFd \notin Fds
  BY FdsAreNumbers, ConnsAreDistinct DEF ConnsAreDistinct
<1>3. \A d \in Conns : status'[d] = "free" <=> sockfd'[d] = NoFd
  BY <1>1, <1>2 DEF SocketsAreHeld, WatchTypeOK
<1>4. \A d \in Conns : status'[d] # "free" => owner'[sockfd'[d]] = d
  BY <1>1, <1>2 DEF SocketsAreHeld, WatchTypeOK, HalfClosed
<1>5. \A g \in Fds : owner'[g] \in Conns => sockfd'[owner'[g]] = g
  BY <1>1, <1>2 DEF SocketsAreHeld, WatchTypeOK
<1> QED
  BY <1>3, <1>4, <1>5 DEF SocketsAreHeld

\* Closing, and forgetting, the descriptor of a connection.
LEMMA CloseKeepsSockets ==
    ASSUME WatchTypeOK, SocketsAreHeld, NEW c \in Conns, status[c] # "free",
           Closes({sockfd[c]}),
           sockfd' = [sockfd EXCEPT ![c] = NoFd], status' = [status EXCEPT ![c] = "free"],
           UNCHANGED closing,
           \/ stage' = stage /\ ~HalfClosed(c)
           \/ stage' # "close_again" /\ HalfClosed(c)
    PROVE  SocketsAreHeld'
<1>1. sockfd[c] \in Fds
  BY DEF SocketsAreHeld, WatchTypeOK
<1>2. /\ owner'[sockfd[c]] = Nobody
      /\ \A f \in Fds \ {sockfd[c]} : owner'[f] = owner[f]
  BY <1>1, ClosesOne
<1>3. Nobody \notin Conns /\ NoFd \notin Fds /\ closing \in Conns
  BY FdsAreNumbers, ConnsAreDistinct DEF ConnsAreDistinct, WatchTypeOK, Conns
<1>4. \A d \in Conns \ {c} : /\ sockfd'[d] = sockfd[d] /\ status'[d] = status[d]
                             /\ status[d] # "free" => sockfd[d] # sockfd[c] /\ sockfd[d] \in Fds
  BY HeldAlone DEF WatchTypeOK
<1>5. \A d \in Conns : status'[d] = "free" <=> sockfd'[d] = NoFd
  BY <1>3, <1>4 DEF SocketsAreHeld, WatchTypeOK
<1>6. \A d \in Conns : status'[d] # "free" /\ ~HalfClosed(d)' => owner'[sockfd'[d]] = d
  BY <1>2, <1>3, <1>4 DEF SocketsAreHeld, WatchTypeOK, HalfClosed
<1>7. \A g \in Fds : owner'[g] \in Conns => sockfd'[owner'[g]] = g
  BY <1>2, <1>3, <1>4 DEF SocketsAreHeld, WatchTypeOK
<1>8. stage' = "close_again" => /\ status'[closing] = "up"
                                /\ owner'[sockfd'[closing]] = Nobody
  BY <1>2, <1>3, <1>4 DEF SocketsAreHeld, WatchTypeOK, HalfClosed
<1> QED
  BY <1>5, <1>6, <1>7, <1>8 DEF SocketsAreHeld
-----------------------------------------------------------------------------
(* The steps.                                                                *)

LEMMA LoopInitInv == WatchInit => LoopIInv
<1> SUFFICES ASSUME WatchInit PROVE LoopIInv
  OBVIOUS
<1>1. Nobody \notin Conns /\ NoFd \notin Fds
  BY FdsAreNumbers, ConnsAreDistinct DEF ConnsAreDistinct
<1>2. WatchTypeOK
  BY DEF WatchInit, WatchTypeOK, LoopInit, Loops
<1>3. SocketsAreHeld
  BY <1>1 DEF WatchInit, SocketsAreHeld
<1>4. WatchersAreUp /\ EventsAreComputed /\ EpollKnows /\ ArrayKnows /\ EventsAreFresh
  BY DEF WatchInit, LoopInit, WatchersAreUp, EventsAreComputed, Wanted, EpollKnows,
         ArrayKnows, EventsAreFresh
<1> QED
  BY <1>2, <1>3, <1>4 DEF LoopIInv

\* The steps that neither open nor close, start nor stop anything.
LEMMA LoopQuietKeeps ==
    ASSUME LoopIInv, EndIteration \/ CallbackReturns \/ UNCHANGED watchVars
    PROVE  LoopIInv'
<1>1. /\ UNCHANGED <<backend, owner, interest, sockfd, status, ev, loop_done, closing>>
      /\ stage' = stage \/ (stage \in {"invoke", "callback"}
                            /\ stage' \in {"reify", "invoke", "ended"})
  BY DEF EndIteration, CallbackReturns, Goto, watchVars, kernel, conns
<1>2. WatchTypeOK'
  BY <1>1 DEF LoopIInv, WatchTypeOK
<1>3. SocketsAreHeld' /\ WatchersAreUp'
  BY <1>1 DEF LoopIInv, SocketsAreHeld, WatchersAreUp, HalfClosed
<1>4. EventsAreComputed' /\ EventsAreFresh'
  BY <1>1 DEF LoopIInv, EventsAreComputed, Wanted, EventsAreFresh, Active
<1>5. EpollKnows' /\ ArrayKnows'
  BY <1>1 DEF LoopIInv, EpollKnows, ArrayKnows, HalfClosed
<1> QED
  BY <1>2, <1>3, <1>4, <1>5 DEF LoopIInv

LEMMA InvokeKeeps ==
    ASSUME LoopIInv, Invoke PROVE LoopIInv'
<1>1. PICK p \in ev.pendings : ev' = [ev EXCEPT !.pendings = @ \ {p}]
  BY DEF Invoke
<1>2. /\ UNCHANGED <<backend, owner, interest, sockfd, status, closing>>
      /\ loop_done' \in BOOLEAN
      /\ stage = "invoke" /\ stage' \in {"invoke", "callback"}
  BY DEF Invoke, Goto, LoopIInv, WatchTypeOK, kernel, conns
<1>3. /\ ev' \in Loops
      /\ ev'.heads = ev.heads /\ ev'.events = ev.events /\ ev'.emask = ev.emask
      /\ ev'.reify = ev.reify /\ ev'.pendings \subseteq ev.pendings
  BY <1>1 DEF LoopIInv, WatchTypeOK, Loops
<1>4. WatchTypeOK'
  BY <1>2, <1>3 DEF LoopIInv, WatchTypeOK
<1>5. SocketsAreHeld' /\ WatchersAreUp'
  BY <1>2, <1>3 DEF LoopIInv, SocketsAreHeld, WatchersAreUp, HalfClosed
<1>6. EventsAreComputed' /\ EventsAreFresh'
  BY <1>2, <1>3 DEF LoopIInv, EventsAreComputed, Wanted, EventsAreFresh, Active
<1>7. EpollKnows' /\ ArrayKnows'
  BY <1>2, <1>3 DEF LoopIInv, EpollKnows, ArrayKnows, HalfClosed
<1> QED
  BY <1>4, <1>5, <1>6, <1>7 DEF LoopIInv

LEMMA WantedType ==
    ASSUME WatchTypeOK, NEW f \in Fds PROVE Wanted(f) \in SUBSET RW
  BY DEF WatchTypeOK, Loops, AllWatchers, Wanted

LEMMA FdReifyKeeps ==
    ASSUME LoopIInv, FdReify PROVE LoopIInv'
<1> DEFINE mask(f) == IF backend = "epoll" /\ Tells(f) /\ Wanted(f) # {}
                      THEN Wanted(f) ELSE ev.emask[f]
           want(f) == IF ev.reify[f] # {} THEN Wanted(f) ELSE ev.events[f]
           told(f) == IF Tells(f)
                      THEN Modify(f, interest[f], ev.emask[f], ev.events[f], Wanted(f))
                      ELSE interest[f]
<1>1. /\ UNCHANGED <<backend, owner, sockfd, status, loop_done, closing>>
      /\ stage = "reify" /\ stage' = "poll"
      /\ interest' = [f \in Fds |-> told(f)]
  BY DEF FdReify, Goto, conns
<1>2. \A f \in Fds : /\ Wanted(f) \in SUBSET RW /\ ev.events[f] \in SUBSET RW
                     /\ ev.emask[f] \in SUBSET RW /\ interest[f] \in SUBSET RW
  BY WantedType DEF LoopIInv, WatchTypeOK, Loops
<1>3. /\ ev'.emask = [f \in Fds |-> mask(f)]
      /\ ev'.events = [f \in Fds |-> want(f)]
      /\ ev'.reify = [f \in Fds |-> {}]
      /\ ev'.heads = ev.heads /\ ev'.pendings = ev.pendings /\ ev'.fresh = ev.fresh
  BY DEF FdReify, LoopIInv, WatchTypeOK, Loops
<1>4. \A f \in Fds : want(f) = Wanted(f)
  BY DEF LoopIInv, EventsAreComputed
<1>5. ev' \in Loops
  <2>1. /\ [f \in Fds |-> mask(f)] \in [Fds -> SUBSET RW]
        /\ [f \in Fds |-> want(f)] \in [Fds -> SUBSET RW]
    BY <1>2
  <2>2. ev' = [ev EXCEPT !.emask = [f \in Fds |-> mask(f)],
                         !.events = [f \in Fds |-> want(f)],
                         !.reify = [f \in Fds |-> {}]]
    BY DEF FdReify, LoopIInv, WatchTypeOK, Loops
  <2> HIDE DEF mask, want
  <2> QED
    BY <2>1, <2>2 DEF LoopIInv, WatchTypeOK, Loops
<1>6. WatchTypeOK'
  <2>1. \A f \in Fds : told(f) \in SUBSET RW
    BY <1>2 DEF Modify, EpollModify
  <2> QED
    BY <1>1, <1>5, <2>1 DEF LoopIInv, WatchTypeOK
<1>7. SocketsAreHeld' /\ WatchersAreUp'
  BY <1>1, <1>3 DEF LoopIInv, SocketsAreHeld, WatchersAreUp, HalfClosed
<1>8. EventsAreComputed' /\ EventsAreFresh'
  BY <1>1, <1>3, <1>4 DEF LoopIInv, EventsAreComputed, Wanted, EventsAreFresh, Active
<1>9. ASSUME backend = "epoll", NEW f \in Fds, interest'[f] # {}
      PROVE  interest'[f] = ev'.emask[f]
  <2>1. interest[f] # {} => interest[f] = ev.emask[f]
    BY <1>1, <1>9 DEF LoopIInv, EpollKnows
  <2> QED
    BY <1>1, <1>3, <1>9, <2>1 DEF Modify, EpollModify
<1>10. ASSUME backend = "epoll", NEW c \in Conns, status[c] = "up"
       PROVE  ev'.events[sockfd[c]] \subseteq interest'[sockfd[c]]
  <2> DEFINE f == sockfd[c]
  <2>1. f \in Fds /\ ~HalfClosed(c)
    BY <1>1, <1>10 DEF LoopIInv, WatchTypeOK, SocketsAreHeld, HalfClosed
  <2>2. /\ interest[f] # {} => interest[f] = ev.emask[f]
        /\ "fdset" \in ev.reify[f] \/ ev.events[f] \subseteq interest[f]
    BY <1>1, <1>10, <2>1 DEF LoopIInv, EpollKnows
  <2>3. ev'.events[f] = Wanted(f) /\ interest'[f] = told(f)
    BY <1>1, <1>3, <1>4, <2>1
  <2>4. CASE Tells(f)
    BY <1>10, <2>2, <2>3, <2>4 DEF Modify, EpollModify
  <2>5. CASE ~Tells(f)
    <3>1. ev.events[f] = Wanted(f) /\ ev.events[f] \subseteq interest[f]
      BY <2>1, <2>2, <2>5, <1>4 DEF Tells
    <3> QED
      BY <2>3, <2>5, <3>1
  <2> QED
    BY <2>4, <2>5
<1>11. EpollKnows'
  BY <1>1, <1>9, <1>10 DEF EpollKnows
<1>12. ArrayKnows'
  <2> SUFFICES ASSUME backend # "epoll", NEW f \in Fds PROVE interest'[f] = ev'.events[f]
    BY <1>1 DEF ArrayKnows
  <2>1. interest[f] = ev.events[f]
    BY <1>1 DEF LoopIInv, ArrayKnows
  <2>2. ev'.events[f] = Wanted(f) /\ interest'[f] = told(f)
    BY <1>1, <1>3, <1>4
  <2>3. ~Tells(f) => ev.events[f] = Wanted(f)
    BY <1>4 DEF Tells
  <2> QED
    BY <2>1, <2>2, <2>3 DEF Modify
<1> QED
  BY <1>6, <1>7, <1>8, <1>11, <1>12 DEF LoopIInv
\* What is queued is for watchers that are started.
LEMMA PollKeeps ==
    ASSUME LoopIInv, Poll PROVE LoopIInv'
<1>1. /\ UNCHANGED <<backend, owner, sockfd, status, loop_done, closing>>
      /\ stage = "poll" /\ stage' = "invoke"
  BY DEF Poll, Goto, conns
<1>2. PICK got \in [Fds -> SUBSET RW],
           asyncs \in SUBSET {Async("quit"), Async("interrupt")} :
        /\ \A f \in Fds : got[f] \in Reports(f)
        /\ ev' = [ev EXCEPT
             !.pendings = Fed(got) \cup {Pending(a) : a \in asyncs},
             !.emask = [f \in Fds |-> IF Unwanted(f, got[f]) THEN ev.events[f] ELSE @[f]]]
        /\ interest' = [f \in Fds |-> IF Unwanted(f, got[f]) THEN ev.events[f]
                                                             ELSE interest[f]]
  BY DEF Poll
<1> DEFINE queue == Fed(got) \cup {Pending(a) : a \in asyncs}
           mask == [f \in Fds |-> IF Unwanted(f, got[f]) THEN ev.events[f] ELSE ev.emask[f]]
<1>3. \A p \in queue :
         /\ p \in [w : AllWatchers \cup Asyncs, gone : BOOLEAN]
         /\ p.w.conn \in Conns => Active(ev, p.w) /\ ~p.gone
  <2>1. ASSUME NEW p \in Fed(got)
        PROVE  /\ p \in [w : AllWatchers \cup Asyncs, gone : BOOLEAN]
               /\ Active(ev, p.w) /\ ~p.gone
    <3>1. PICK f \in Fds : \E w \in ev.heads[f] : p = Pending(w)
      BY DEF Fed
    <3>2. PICK w \in ev.heads[f] : p = Pending(w)
      BY <3>1
    <3>3. w \in AllWatchers
      BY DEF LoopIInv, WatchTypeOK, Loops
    <3> QED
      BY <3>2, <3>3 DEF Pending, Active
  <2>2. ASSUME NEW a \in asyncs
        PROVE  /\ Pending(a) \in [w : AllWatchers \cup Asyncs, gone : BOOLEAN]
               /\ Pending(a).w.conn \notin Conns
    BY ConnsAreDistinct DEF Pending, Asyncs, Async, Watcher, ConnsAreDistinct
  <2> QED
    BY <2>1, <2>2
<1>4. \A f \in Fds : /\ ev.events[f] \in SUBSET RW
                     /\ ev.emask[f] \in SUBSET RW /\ interest[f] \in SUBSET RW
  BY DEF LoopIInv, WatchTypeOK, Loops
<1>5. /\ ev'.pendings = queue /\ ev'.emask = mask
      /\ ev'.heads = ev.heads /\ ev'.events = ev.events /\ ev'.reify = ev.reify
      /\ ev'.fresh = ev.fresh
      /\ ev' \in Loops
  <2>1. ev' = [ev EXCEPT !.pendings = queue, !.emask = mask]
    BY <1>2 DEF LoopIInv, WatchTypeOK, Loops
  <2>2. queue \in SUBSET [w : AllWatchers \cup Asyncs, gone : BOOLEAN]
    BY <1>3
  <2>3. mask \in [Fds -> SUBSET RW]
    BY <1>4
  <2> HIDE DEF queue, mask
  <2> QED
    BY <2>1, <2>2, <2>3 DEF LoopIInv, WatchTypeOK, Loops
<1>6. WatchTypeOK'
  BY <1>1, <1>2, <1>4, <1>5 DEF LoopIInv, WatchTypeOK
<1>7. SocketsAreHeld' /\ WatchersAreUp'
  BY <1>1, <1>5 DEF LoopIInv, SocketsAreHeld, WatchersAreUp, HalfClosed
<1>8. EventsAreComputed'
  BY <1>1, <1>5 DEF LoopIInv, EventsAreComputed, Wanted
<1>9. EventsAreFresh'
  BY <1>3, <1>5 DEF EventsAreFresh, Active
<1>10. EpollKnows'
  <2> SUFFICES ASSUME backend = "epoll" PROVE EpollKnows'
    BY <1>1 DEF EpollKnows
  <2>1. \A f \in Fds : interest'[f] # {} => interest'[f] = ev'.emask[f]
    BY <1>1, <1>2, <1>5 DEF LoopIInv, EpollKnows
  <2>2. ASSUME NEW c \in Conns, status[c] = "up"
        PROVE  ev'.events[sockfd[c]] \subseteq interest'[sockfd[c]]
    <3>1. sockfd[c] \in Fds /\ ~HalfClosed(c)
      BY <1>1, <2>2 DEF LoopIInv, WatchTypeOK, SocketsAreHeld, HalfClosed
    <3>2. ev.reify[sockfd[c]] = {}
      BY <1>1, <3>1 DEF LoopIInv, EventsAreComputed
    <3> QED
      BY <1>1, <1>2, <1>5, <2>2, <3>1, <3>2 DEF LoopIInv, EpollKnows
  <2> QED
    BY <1>1, <2>1, <2>2 DEF EpollKnows
<1>11. ArrayKnows'
  BY <1>1, <1>2, <1>5 DEF LoopIInv, ArrayKnows, Unwanted
<1> QED
  BY <1>6, <1>7, <1>8, <1>9, <1>10, <1>11 DEF LoopIInv

\* The watchers of a connection that is up, or has just become so, are turned.
LEMMA UpKeeps ==
    ASSUME LoopIInv, stage = "callback", UNCHANGED <<backend, interest, stage, closing>>,
           NEW c \in Conns, sockfd'[c] \in Fds, status'[c] = "up",
           \A d \in Conns \ {c} : sockfd'[d] = sockfd[d] /\ status'[d] = status[d],
           \A f \in Fds : \A w \in ev.heads[f] : w.conn = c => f = sockfd'[c],
           Turned(ev, ev', c, sockfd'[c]),
           \/ status[c] = "up" /\ sockfd'[c] = sockfd[c]
           \/ "fdset" \in ev'.reify[sockfd'[c]]
    PROVE  WatchersAreUp' /\ EventsAreComputed' /\ EpollKnows' /\ ArrayKnows' /\ EventsAreFresh'
<1>1. WatchersAreUp'
  <2> SUFFICES ASSUME NEW f \in Fds, NEW w \in ev'.heads[f]
               PROVE  /\ status'[w.conn] = "up" /\ sockfd'[w.conn] = f
    BY DEF WatchersAreUp, HalfClosed
  <2>1. w \in AllWatchers /\ w.conn \in Conns
    BY DEF Turned, Loops, AllWatchers
  <2>2. CASE w.conn = c
    BY <2>2 DEF Turned
  <2>3. CASE w.conn # c
    BY <2>1, <2>3 DEF Turned, LoopIInv, WatchersAreUp
  <2> QED
    BY <2>2, <2>3
<1>2. EventsAreComputed' /\ EventsAreFresh'
  BY TurnKeeps DEF LoopIInv
<1>3. EpollKnows'
  <2> SUFFICES ASSUME backend = "epoll" PROVE EpollKnows'
    BY DEF EpollKnows
  <2>1. \A f \in Fds : interest'[f] # {} => interest'[f] = ev'.emask[f]
    BY DEF LoopIInv, EpollKnows, Turned
  <2>2. ASSUME NEW d \in Conns, status'[d] = "up"
        PROVE  \/ "fdset" \in ev'.reify[sockfd'[d]]
               \/ ev'.events[sockfd'[d]] \subseteq interest'[sockfd'[d]]
    <3>1. CASE d = c /\ "fdset" \in ev'.reify[sockfd'[c]]
      BY <3>1
    <3>2. CASE status[d] = "up" /\ sockfd'[d] = sockfd[d]
      <4>1. sockfd[d] \in Fds /\ ~HalfClosed(d)
        BY <3>2 DEF LoopIInv, WatchTypeOK, SocketsAreHeld, HalfClosed
      <4> QED
        BY <3>2, <4>1 DEF LoopIInv, EpollKnows, Turned
    <3> QED
      BY <2>2, <3>1, <3>2
  <2> QED
    BY <2>1, <2>2 DEF EpollKnows
<1>4. ArrayKnows'
  BY DEF LoopIInv, ArrayKnows, Turned
<1> QED
  BY <1>1, <1>2, <1>3, <1>4

\* A connection that is not up has no watcher.
LEMMA OnlyUpWatch ==
    ASSUME LoopIInv, NEW c \in Conns
    PROVE  /\ status[c] # "up" => \A f \in Fds : \A w \in ev.heads[f] : w.conn # c
           /\ \A f \in Fds : \A w \in ev.heads[f] : w.conn = c => f = sockfd[c]
  BY DEF LoopIInv, WatchersAreUp

LEMMA UpdateIoKeeps ==
    ASSUME LoopIInv, NEW c \in Conns, UpdateIo(c) PROVE LoopIInv'
<1>1. /\ stage = "callback" /\ status[c] = "up" /\ ev \in Loops
      /\ UNCHANGED <<backend, owner, interest, sockfd, status, loop_done, stage, closing>>
  BY DEF UpdateIo, kernel, conns, LoopIInv, WatchTypeOK
<1>2. sockfd[c] \in Fds
  BY <1>1 DEF LoopIInv, WatchTypeOK, SocketsAreHeld
<1>3. Turned(ev, ev', c, sockfd[c])
  <2>1. PICK es \in SUBSET RW : ev' = Watching(ev, c, sockfd[c], es)
    BY DEF UpdateIo
  <2> QED
    BY <1>1, <1>2, <2>1, Watched, OnlyUpWatch
<1>4. WatchTypeOK' /\ SocketsAreHeld'
  BY <1>1, <1>3 DEF LoopIInv, WatchTypeOK, SocketsAreHeld, HalfClosed, Turned
<1>5. WatchersAreUp' /\ EventsAreComputed' /\ EpollKnows' /\ ArrayKnows' /\ EventsAreFresh'
  BY <1>1, <1>2, <1>3, UpKeeps, OnlyUpWatch
<1> QED
  BY <1>4, <1>5 DEF LoopIInv

LEMMA ConnectedKeeps ==
    ASSUME LoopIInv, NEW t \in Tunnels, Connected(t) PROVE LoopIInv'
<1>1. /\ stage = "callback" /\ status[t] = "connecting" /\ ev \in Loops /\ t \in Conns
      /\ status' = [status EXCEPT ![t] = "up"]
      /\ UNCHANGED <<backend, owner, interest, sockfd, loop_done, stage, closing>>
  BY DEF Connected, kernel, Conns, LoopIInv, WatchTypeOK
<1>2. sockfd[t] \in Fds
  BY <1>1 DEF LoopIInv, WatchTypeOK, SocketsAreHeld
<1>3. Turned(ev, ev', t, sockfd[t]) /\ "fdset" \in ev'.reify[sockfd[t]]
  <2>1. ev' = Introduced(ev, t, sockfd[t], {"r"}) /\ {"r"} \in SUBSET RW
    BY DEF Connected, RW
  <2> QED
    BY <1>1, <1>2, <2>1, IntroducedTurns, OnlyUpWatch
<1>4. WatchTypeOK' /\ SocketsAreHeld'
  BY <1>1, <1>3 DEF LoopIInv, WatchTypeOK, SocketsAreHeld, HalfClosed, Turned
<1>5. WatchersAreUp' /\ EventsAreComputed' /\ EpollKnows' /\ ArrayKnows' /\ EventsAreFresh'
  <2>1. status'[t] = "up" /\ \A d \in Conns \ {t} : status'[d] = status[d]
    BY <1>1 DEF LoopIInv, WatchTypeOK
  <2> QED
    BY <1>1, <1>2, <1>3, <2>1, UpKeeps, OnlyUpWatch
<1> QED
  BY <1>4, <1>5 DEF LoopIInv

LEMMA ConnectBeKeeps ==
    ASSUME LoopIInv, NEW c \in Streams, ConnectBe(c) PROVE LoopIInv'
<1>1. /\ stage = "callback" /\ status[c] = "free" /\ ev \in Loops /\ c \in Conns
      /\ status' = [status EXCEPT ![c] = "up"]
      /\ UNCHANGED <<backend, loop_done, stage, closing>>
  BY DEF ConnectBe, Conns, LoopIInv, WatchTypeOK
<1>2. PICK f \in Fds : Opens(c, f) /\ ev' = Introduced(ev, c, f, RW)
  BY DEF ConnectBe
<1>3. /\ owner' = [owner EXCEPT ![f] = c]
      /\ interest' = interest /\ sockfd' = [sockfd EXCEPT ![c] = f]
  BY <1>1, <1>2, OpensOne DEF LoopIInv
<1>4. Turned(ev, ev', c, f) /\ "fdset" \in ev'.reify[f]
  BY <1>1, <1>2, IntroducedTurns, OnlyUpWatch DEF RW
<1>5. WatchTypeOK' /\ SocketsAreHeld'
  <2>1. SocketsAreHeld'
    BY <1>1, <1>2, OpenKeepsSockets DEF LoopIInv
  <2>2. ev' \in Loops
    BY <1>4 DEF Turned
  <2> QED
    BY <1>1, <1>3, <2>1, <2>2 DEF LoopIInv, WatchTypeOK
<1>6. WatchersAreUp' /\ EventsAreComputed' /\ EpollKnows' /\ ArrayKnows' /\ EventsAreFresh'
  <2>1. /\ status'[c] = "up" /\ sockfd'[c] = f
        /\ \A d \in Conns \ {c} : status'[d] = status[d] /\ sockfd'[d] = sockfd[d]
    BY <1>1, <1>3 DEF LoopIInv, WatchTypeOK
  <2> QED
    BY <1>1, <1>3, <1>4, <2>1, UpKeeps, OnlyUpWatch
<1> QED
  BY <1>5, <1>6 DEF LoopIInv
\* The watchers of a connection are stopped and its descriptor is closed: it is
\* free afterwards, or half closed.
LEMMA DownKeeps ==
    ASSUME LoopIInv, stage = "callback", stage' \in {"callback", "close_again"}, UNCHANGED backend,
           NEW c \in Conns, status[c] = "up",
           ev' = Forgotten(Watching(ev, c, sockfd[c], {}), c), Closes({sockfd[c]}),
           \A d \in Conns \ {c} : /\ sockfd'[d] = sockfd[d] /\ status'[d] = status[d]
                                  /\ ~HalfClosed(d)',
           status'[c] = "free" \/ HalfClosed(c)'
    PROVE  /\ ev' \in Loops
           /\ WatchersAreUp' /\ EventsAreComputed' /\ EpollKnows' /\ ArrayKnows'
           /\ EventsAreFresh'
<1>1. ev \in Loops /\ sockfd[c] \in Fds
  BY DEF LoopIInv, WatchTypeOK, SocketsAreHeld
<1>2. /\ Turned(ev, ev', c, sockfd[c])
      /\ \A f \in Fds : \A w \in ev'.heads[f] : w.conn # c
  <2> DEFINE k == Watching(ev, c, sockfd[c], {})
  <2>1. /\ Turned(ev, k, c, sockfd[c])
        /\ \A f \in Fds : \A w \in k.heads[f] : w.conn # c
        /\ \A p \in k.pendings : p.w.conn # c
    BY <1>1, Watched, OnlyUpWatch
  <2>2. k \in Loops
    BY <2>1 DEF Turned
  <2> HIDE DEF k
  <2>3. Forgotten(k, c) = k
    BY <2>1, <2>2, NothingForgotten
  <2> QED
    BY <2>1, <2>3 DEF k
<1>3. EventsAreComputed' /\ EventsAreFresh'
  BY <1>2, TurnKeeps DEF LoopIInv
<1>4. WatchersAreUp'
  <2> SUFFICES ASSUME NEW f \in Fds, NEW w \in ev'.heads[f]
               PROVE  /\ status'[w.conn] = "up" /\ sockfd'[w.conn] = f
                      /\ ~HalfClosed(w.conn)'
    BY DEF WatchersAreUp, HalfClosed
  <2>1. w \in AllWatchers /\ w.conn \in Conns /\ w.conn # c
    BY <1>2 DEF Turned, Loops, AllWatchers
  <2> QED
    BY <1>2, <2>1 DEF Turned, LoopIInv, WatchersAreUp
<1>5. /\ \A f \in Fds \ {sockfd[c]} : interest'[f] = interest[f]
      /\ backend = "epoll" => interest'[sockfd[c]] = {}
      /\ backend # "epoll" => interest' = interest
  BY <1>1, ClosesOne DEF LoopIInv
<1>6. EpollKnows'
  <2> SUFFICES ASSUME backend = "epoll" PROVE EpollKnows'
    BY DEF EpollKnows
  <2>1. \A f \in Fds : interest'[f] # {} => interest'[f] = ev'.emask[f]
    BY <1>2, <1>5 DEF LoopIInv, EpollKnows, Turned
  <2>2. ASSUME NEW d \in Conns, status'[d] = "up", ~HalfClosed(d)'
        PROVE  \/ "fdset" \in ev'.reify[sockfd'[d]]
               \/ ev'.events[sockfd'[d]] \subseteq interest'[sockfd'[d]]
    <3>1. d # c /\ status[d] = "up" /\ ~HalfClosed(d) /\ sockfd'[d] = sockfd[d]
      BY <2>2 DEF HalfClosed
    <3>2. sockfd[d] \in Fds /\ sockfd[d] # sockfd[c]
      BY <3>1, HeldAlone DEF LoopIInv
    <3> QED
      BY <1>2, <1>5, <3>1, <3>2 DEF LoopIInv, EpollKnows, Turned
  <2> QED
    BY <2>1, <2>2 DEF EpollKnows
<1>7. ArrayKnows'
  BY <1>2, <1>5 DEF LoopIInv, ArrayKnows, Turned
<1>8. ev' \in Loops
  BY <1>2 DEF Turned
<1> QED
  BY <1>3, <1>4, <1>6, <1>7, <1>8

LEMMA CloseKeeps ==
    ASSUME LoopIInv, NEW c \in Conns, Disconnect(c) \/ CloseStream(c) PROVE LoopIInv'
<1>1. /\ stage = "callback" /\ status[c] = "up" /\ stage' = stage
      /\ status' = [status EXCEPT ![c] = "free"]
      /\ ev' = Forgotten(Watching(ev, c, sockfd[c], {}), c)
      /\ Closes({sockfd[c]})
      /\ sockfd' = [sockfd EXCEPT ![c] = NoFd]
      /\ UNCHANGED <<backend, loop_done, closing>>
  BY DEF Disconnect, CloseStream
<1>2. SocketsAreHeld'
  BY <1>1, CloseKeepsSockets DEF LoopIInv, HalfClosed
<1>3. /\ ev' \in Loops
      /\ WatchersAreUp' /\ EventsAreComputed' /\ EpollKnows' /\ ArrayKnows' /\ EventsAreFresh'
  <2>1. /\ status'[c] = "free"
        /\ \A d \in Conns \ {c} : sockfd'[d] = sockfd[d] /\ status'[d] = status[d]
        /\ \A d \in Conns : ~HalfClosed(d)'
    BY <1>1 DEF LoopIInv, WatchTypeOK, HalfClosed
  <2> QED
    BY <1>1, <2>1, DownKeeps
<1>4. WatchTypeOK'
  <2>1. sockfd[c] \in Fds
    BY <1>1 DEF LoopIInv, WatchTypeOK, SocketsAreHeld
  <2>2. owner' \in [Fds -> Conns \cup {Nobody}] /\ interest' \in [Fds -> SUBSET RW]
    BY <1>1, <2>1, ClosesOne DEF LoopIInv
  <2> QED
    BY <1>1, <1>3, <2>2 DEF LoopIInv, WatchTypeOK
<1> QED
  BY <1>2, <1>3, <1>4 DEF LoopIInv

LEMMA CloseTunnelKeeps ==
    ASSUME LoopIInv, NEW t \in Tunnels, CloseTunnel(t) PROVE LoopIInv'
<1>1. /\ stage = "callback" /\ status[t] = "up" /\ stage' = "close_again" /\ t \in Conns
      /\ ev' = Forgotten(Watching(ev, t, sockfd[t], {}), t)
      /\ Closes({sockfd[t]}) /\ closing' = t
      /\ UNCHANGED <<backend, sockfd, status, loop_done>>
  BY DEF CloseTunnel, Goto, conns, Conns
<1>2. sockfd[t] \in Fds
  BY <1>1 DEF LoopIInv, WatchTypeOK, SocketsAreHeld
<1>3. /\ owner' \in [Fds -> Conns \cup {Nobody}] /\ interest' \in [Fds -> SUBSET RW]
      /\ owner'[sockfd[t]] = Nobody
      /\ \A f \in Fds \ {sockfd[t]} : owner'[f] = owner[f]
  BY <1>1, <1>2, ClosesOne DEF LoopIInv
<1>4. SocketsAreHeld'
  <2>1. Nobody \notin Conns
    BY ConnsAreDistinct DEF ConnsAreDistinct
  <2>2. \A d \in Conns : status[d] # "free" /\ d # t => owner'[sockfd[d]] = d
    <3> SUFFICES ASSUME NEW d \in Conns, status[d] # "free", d # t PROVE owner'[sockfd[d]] = d
      OBVIOUS
    <3>1. sockfd[d] # sockfd[t] /\ sockfd[d] \in Fds
      BY <1>1, HeldAlone DEF LoopIInv
    <3> QED
      BY <1>1, <1>3, <3>1 DEF LoopIInv, SocketsAreHeld, HalfClosed
  <2>3. \A f \in Fds : owner'[f] \in Conns => sockfd[owner'[f]] = f
    BY <1>3, <2>1 DEF LoopIInv, SocketsAreHeld
  <2>4. \A d \in Conns : status[d] = "free" <=> sockfd[d] = NoFd
    BY DEF LoopIInv, SocketsAreHeld
  <2> QED
    BY <1>1, <1>3, <2>2, <2>3, <2>4 DEF SocketsAreHeld, HalfClosed
<1>5. /\ ev' \in Loops
      /\ WatchersAreUp' /\ EventsAreComputed' /\ EpollKnows' /\ ArrayKnows' /\ EventsAreFresh'
  BY <1>1, DownKeeps DEF HalfClosed
<1>6. WatchTypeOK'
  BY <1>1, <1>3, <1>5 DEF LoopIInv, WatchTypeOK
<1> QED
  BY <1>4, <1>5, <1>6 DEF LoopIInv

\* Steps that leave the watchers alone and close or open no descriptor that is
\* watched.
LEMMA AsideKeeps ==
    ASSUME LoopIInv, UNCHANGED <<backend, ev>>, stage # "stopped",
           stage' \in {stage, "callback"},
           \A d \in Conns : status'[d] = "up" /\ ~HalfClosed(d)' =>
                status[d] = "up" /\ ~HalfClosed(d),
           \A d \in Conns : status[d] = "up" /\ ~HalfClosed(d) =>
                /\ status'[d] = "up" /\ sockfd'[d] = sockfd[d] /\ ~HalfClosed(d)'
                /\ interest'[sockfd[d]] = interest[sockfd[d]],
           \A f \in Fds : interest'[f] = interest[f] \/ (backend = "epoll" /\ interest'[f] = {})
    PROVE  WatchersAreUp' /\ EventsAreComputed' /\ EpollKnows' /\ ArrayKnows' /\ EventsAreFresh'
<1>1. WatchersAreUp'
  <2>1. \A f \in Fds : \A w \in ev.heads[f] : w.conn \in Conns
    BY DEF LoopIInv, WatchTypeOK, Loops, AllWatchers
  <2> QED
    BY <2>1 DEF LoopIInv, WatchersAreUp
<1>2. EventsAreComputed' /\ EventsAreFresh'
  BY DEF LoopIInv, EventsAreComputed, Wanted, EventsAreFresh, Active
<1>3. EpollKnows'
  BY DEF LoopIInv, EpollKnows
<1>4. ArrayKnows'
  BY DEF LoopIInv, ArrayKnows
<1> QED
  BY <1>1, <1>2, <1>3, <1>4

LEMMA ConnectKeeps ==
    ASSUME LoopIInv, ~Racing, NEW t \in Tunnels, Connect(t) PROVE LoopIInv'
<1>1. /\ status[t] = "free" /\ t \in Conns
      /\ stage \notin {"close_again", "ended", "stopped"}
      /\ status' = [status EXCEPT ![t] = "connecting"]
      /\ UNCHANGED <<backend, ev, loop_done, stage, closing>>
  BY DEF Connect, Conns
<1>2. PICK f \in Fds : Opens(t, f)
  BY DEF Connect
<1>3. /\ owner' = [owner EXCEPT ![f] = t]
      /\ interest' = interest /\ sockfd' = [sockfd EXCEPT ![t] = f]
  BY <1>1, <1>2, OpensOne DEF LoopIInv
<1>4. SocketsAreHeld'
  BY <1>1, <1>2, OpenKeepsSockets DEF LoopIInv
<1>5. WatchTypeOK'
  BY <1>1, <1>3 DEF LoopIInv, WatchTypeOK
<1>6. /\ status'[t] = "connecting"
      /\ \A d \in Conns \ {t} : status'[d] = status[d] /\ sockfd'[d] = sockfd[d]
      /\ \A d \in Conns : HalfClosed(d)' <=> HalfClosed(d)
  BY <1>1, <1>3 DEF LoopIInv, WatchTypeOK, HalfClosed
<1>7. WatchersAreUp' /\ EventsAreComputed' /\ EpollKnows' /\ ArrayKnows' /\ EventsAreFresh'
  BY <1>1, <1>3, <1>6, AsideKeeps DEF HalfClosed
<1> QED
  BY <1>4, <1>5, <1>7 DEF LoopIInv

LEMMA DialFailsKeeps ==
    ASSUME LoopIInv, NEW t \in Tunnels, DialFails(t) PROVE LoopIInv'
<1>1. /\ status[t] = "connecting" /\ t \in Conns
      /\ status' = [status EXCEPT ![t] = "free"]
      /\ Closes({sockfd[t]}) /\ sockfd' = [sockfd EXCEPT ![t] = NoFd]
      /\ UNCHANGED <<backend, ev, loop_done, stage, closing>>
  BY DEF DialFails, Conns
<1>2. sockfd[t] \in Fds /\ ~HalfClosed(t)
  BY <1>1 DEF LoopIInv, WatchTypeOK, SocketsAreHeld, HalfClosed
<1>3. SocketsAreHeld'
  BY <1>1, <1>2, CloseKeepsSockets DEF LoopIInv
<1>4. /\ owner' \in [Fds -> Conns \cup {Nobody}] /\ interest' \in [Fds -> SUBSET RW]
      /\ \A f \in Fds \ {sockfd[t]} : interest'[f] = interest[f]
      /\ backend = "epoll" => interest'[sockfd[t]] = {}
      /\ backend # "epoll" => interest' = interest
  BY <1>1, <1>2, ClosesOne DEF LoopIInv
<1>5. WatchTypeOK'
  BY <1>1, <1>4 DEF LoopIInv, WatchTypeOK
<1>6. /\ status'[t] = "free"
      /\ \A d \in Conns \ {t} : /\ status'[d] = status[d] /\ sockfd'[d] = sockfd[d]
                                /\ status[d] # "free" => sockfd[d] # sockfd[t]
                                                         /\ sockfd[d] \in Fds
      /\ \A d \in Conns : HalfClosed(d)' <=> HalfClosed(d)
  BY <1>1, HeldAlone DEF LoopIInv, WatchTypeOK, HalfClosed
<1>7. WatchersAreUp' /\ EventsAreComputed' /\ EpollKnows' /\ ArrayKnows' /\ EventsAreFresh'
  <2>1. \A d \in Conns : status[d] = "up" => d # t
    BY <1>1
  <2>2. CASE stage = "stopped"
    BY <1>1, <1>4, <1>6, <2>1, <2>2
       DEF LoopIInv, WatchersAreUp, EventsAreComputed, EventsAreFresh, EpollKnows, ArrayKnows,
           Wanted, Active, WatchTypeOK, Loops, AllWatchers
  <2>3. CASE stage # "stopped"
    BY <1>1, <1>4, <1>6, <2>1, <2>3, AsideKeeps
  <2> QED
    BY <2>2, <2>3
<1> QED
  BY <1>3, <1>5, <1>7 DEF LoopIInv

LEMMA CloseAgainKeeps ==
    ASSUME LoopIInv, CloseAgain PROVE LoopIInv'
<1>1. /\ stage = "close_again" /\ stage' = "callback" /\ closing \in Conns
      /\ status[closing] = "up"
      /\ status' = [status EXCEPT ![closing] = "free"]
      /\ Closes({sockfd[closing]}) /\ sockfd' = [sockfd EXCEPT ![closing] = NoFd]
      /\ UNCHANGED <<backend, ev, loop_done, closing>>
  BY DEF CloseAgain, Goto, Conns, LoopIInv, WatchTypeOK, SocketsAreHeld
<1>2. sockfd[closing] \in Fds /\ HalfClosed(closing)
  BY <1>1 DEF LoopIInv, WatchTypeOK, SocketsAreHeld, HalfClosed
<1>3. SocketsAreHeld'
  BY <1>1, <1>2, CloseKeepsSockets DEF LoopIInv
<1>4. /\ owner' \in [Fds -> Conns \cup {Nobody}] /\ interest' \in [Fds -> SUBSET RW]
      /\ \A f \in Fds \ {sockfd[closing]} : interest'[f] = interest[f]
      /\ backend = "epoll" => interest'[sockfd[closing]] = {}
      /\ backend # "epoll" => interest' = interest
  BY <1>1, <1>2, ClosesOne DEF LoopIInv
<1>5. WatchTypeOK'
  BY <1>1, <1>4 DEF LoopIInv, WatchTypeOK
<1>6. /\ status'[closing] = "free"
      /\ \A d \in Conns \ {closing} : /\ status'[d] = status[d] /\ sockfd'[d] = sockfd[d]
                                      /\ status[d] # "free" => sockfd[d] # sockfd[closing]
                                                               /\ sockfd[d] \in Fds
      /\ \A d \in Conns : ~HalfClosed(d)' /\ (HalfClosed(d) <=> d = closing)
  BY <1>1, HeldAlone DEF LoopIInv, WatchTypeOK, HalfClosed
<1>7. WatchersAreUp' /\ EventsAreComputed' /\ EpollKnows' /\ ArrayKnows' /\ EventsAreFresh'
  BY <1>1, <1>4, <1>6, AsideKeeps
<1> QED
  BY <1>3, <1>5, <1>7 DEF LoopIInv

LEMMA ResetManagerKeeps ==
    ASSUME LoopIInv, ResetManager PROVE LoopIInv'
<1>1. /\ stage = "ended" /\ stage' = "stopped" /\ ev' = LoopInit
      /\ Closes({sockfd[c] : c \in Conns})
      /\ sockfd' = [c \in Conns |-> NoFd] /\ status' = [c \in Conns |-> "free"]
      /\ UNCHANGED <<backend, loop_done, closing>>
  BY DEF ResetManager, Goto
<1>2. owner' = [f \in Fds |-> Nobody]
  <2>1. \A f \in Fds : owner[f] \in Conns => f \in {sockfd[c] : c \in Conns}
    BY DEF LoopIInv, SocketsAreHeld
  <2> QED
    BY <1>1, <2>1 DEF LoopIInv, WatchTypeOK, Closes, Closed
<1>3. WatchTypeOK'
  <2>1. LoopInit \in Loops
    BY DEF LoopInit, Loops
  <2>2. interest' \in [Fds -> SUBSET RW]
    BY <1>1 DEF LoopIInv, WatchTypeOK, Closes, Unwatched
  <2> QED
    BY <1>1, <1>2, <2>1, <2>2 DEF LoopIInv, WatchTypeOK
<1>4. SocketsAreHeld'
  BY <1>1, <1>2, ConnsAreDistinct DEF SocketsAreHeld, ConnsAreDistinct
<1>5. WatchersAreUp' /\ EventsAreComputed' /\ EpollKnows' /\ ArrayKnows' /\ EventsAreFresh'
  BY <1>1 DEF LoopInit, WatchersAreUp, EventsAreComputed, Wanted, EpollKnows, ArrayKnows,
              EventsAreFresh
<1> QED
  BY <1>3, <1>4, <1>5 DEF LoopIInv

LEMMA LoopStepInv == ~Racing /\ LoopIInv /\ [WatchNext]_watchVars => LoopIInv'
<1> SUFFICES ASSUME ~Racing, LoopIInv, [WatchNext]_watchVars PROVE LoopIInv'
  OBVIOUS
<1>1. \A t \in Tunnels : t \in Conns
  BY DEF Conns
<1>2. \A c \in Streams : c \in Conns
  BY DEF Conns
<1> QED
  BY <1>1, <1>2, LoopQuietKeeps, InvokeKeeps, FdReifyKeeps, PollKeeps, UpdateIoKeeps,
     ConnectedKeeps, ConnectBeKeeps, CloseKeeps, CloseTunnelKeeps, CloseAgainKeeps,
     ConnectKeeps, DialFailsKeeps, ResetManagerKeeps DEF WatchNext

-----------------------------------------------------------------------------
(* The theorems.                                                             *)

\* Sockets, watchers, libev's bookkeeping and the kernel's masks keep to their
\* types and to these rules.
THEOREM LoopInvariant == ~Racing => (WatchSpec => []LoopIInv)
<1> SUFFICES ASSUME ~Racing PROVE WatchSpec => []LoopIInv
  OBVIOUS
<1> QED
  BY LoopInitInv, LoopStepInv, PTL DEF WatchSpec

\* A connection's descriptor stands for the socket it opened, however often
\* descriptors are closed, closed twice and handed out again, unless a blocker
\* opens one between a tunnel's two closes (pkmanager.c 552 and 562).
THEOREM HandlesOwn == ~Racing => (WatchSpec => []HandlesAreOwn)
<1> SUFFICES ASSUME ~Racing PROVE WatchSpec => []HandlesAreOwn
  OBVIOUS
<1>1. LoopIInv => HandlesAreOwn
  BY DEF LoopIInv, SocketsAreHeld, HandlesAreOwn, HalfClosed
<1> QED
  BY LoopInitInv, LoopStepInv, <1>1, PTL DEF WatchSpec

\* fd_reify, epoll_modify, poll_modify and select_modify leave the kernel
\* watching everything a watcher wants whenever the loop polls.
THEOREM KernelInformed == ~Racing => (WatchSpec => []KernelKnows)
<1> SUFFICES ASSUME ~Racing PROVE WatchSpec => []KernelKnows
  OBVIOUS
<1>1. LoopIInv => KernelKnows
  <2> SUFFICES ASSUME LoopIInv, stage = "poll", NEW f \in Fds, NEW w \in ev.heads[f]
               PROVE  w.events \in interest[f]
    BY DEF KernelKnows
  <2>1. w.events \in ev.events[f] /\ ev.reify[f] = {}
    BY DEF LoopIInv, EventsAreComputed, Wanted
  <2>2. /\ w.conn \in Conns /\ status[w.conn] = "up" /\ sockfd[w.conn] = f
        /\ ~HalfClosed(w.conn)
    BY DEF LoopIInv, WatchersAreUp, WatchTypeOK, Loops, AllWatchers
  <2>3. ev.events[f] \subseteq interest[f]
    BY <2>1, <2>2 DEF LoopIInv, EpollKnows, ArrayKnows
  <2> QED
    BY <2>1, <2>3
<1> QED
  BY LoopInitInv, LoopStepInv, <1>1, PTL DEF WatchSpec

\* ev_clear_pending keeps events about a closed socket from its successor.
THEOREM EventsFresh == ~Racing => (WatchSpec => []EventsAreFresh)
<1> SUFFICES ASSUME ~Racing PROVE WatchSpec => []EventsAreFresh
  OBVIOUS
<1>1. LoopIInv => EventsAreFresh
  BY DEF LoopIInv
<1> QED
  BY LoopInitInv, LoopStepInv, <1>1, PTL DEF WatchSpec
================================================================================
