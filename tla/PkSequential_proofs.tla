---------------------------- MODULE PkSequential_proofs -------------------------
(***************************************************************************)
(* Two components that run on the loop's thread alone.                     *)
(*                                                                         *)
(* The frame parser, for a buffer of any size, frames of any shape and     *)
(* number, cut anywhere: the bytes of the buffer are accounted for, the    *)
(* callback gets the data of the frames that were sent, in order and once, *)
(* and no frame that has arrived whole is held back, as long as the tunnel *)
(* is not connected anew while the callback has yielded the loop           *)
(* (pkmanager.c 667-703).                                                  *)
(*                                                                         *)
(* The timers of the event loop, for any number of them and a heap of any  *)
(* arity: the heap stays sound, and the timers that are due fire in order. *)
(***************************************************************************)
EXTENDS PkParser, PkTimers, FiniteSetTheorems, WellFoundedInduction, TLAPS

-----------------------------------------------------------------------------
(* Induction, and what FlattenSeq returns.                                   *)

\* A set of numbers that is not empty has a least one.
LEMMA Least ==
  ASSUME NEW T \in SUBSET Nat, T # {}
  PROVE  \E n \in T : \A m \in T : n <= m
<1> DEFINE R == {ss \in Nat \X Nat : ss[1] < ss[2]}
<1>1. IsWellFoundedOn(R, Nat)
  BY NatLessThanWellFounded DEF OpToRel
<1>2. \A m, n \in Nat : <<m, n>> \notin R => n <= m
  <2> TAKE m, n \in Nat
  <2> HAVE <<m, n>> \notin R
  <2>1. <<m, n>>[1] = m /\ <<m, n>>[2] = n /\ <<m, n>> \in Nat \X Nat
    OBVIOUS
  <2> QED  BY <2>1
<1> HIDE DEF R
<1>3. PICK n \in T : \A m \in T : <<m, n>> \notin R
  BY <1>1, WFMin
<1> QED  BY <1>2, <1>3

\* Induction, for sets of numbers.
LEMMA Induct ==
  ASSUME NEW T \in SUBSET Nat, 0 \in T, \A n \in T : n + 1 \in T
  PROVE  T = Nat
<1> SUFFICES ASSUME Nat \ T # {} PROVE FALSE
  OBVIOUS
<1>1. PICK n \in Nat \ T : \A m \in Nat \ T : n <= m
  <2>1. Nat \ T \in SUBSET Nat
    OBVIOUS
  <2> QED BY <2>1, Least
<1>2. n # 0 /\ n - 1 \in Nat /\ n - 1 \in T
  BY <1>1
<1> QED BY <1>2

\* g lists what the first sequences of q are put together.
Joins(g, q, S) ==
  /\ g \in [0..Len(q) -> Seq(S)]
  /\ g[0] = <<>>
  /\ \A i \in 1..Len(q) : g[i] = g[i - 1] \o q[i]

\* They can be listed.
LEMMA JoinsExist ==
  ASSUME NEW S, NEW q \in Seq(Seq(S))
  PROVE  \E g : Joins(g, q, S)
<1> DEFINE n == Len(q)
           Is(g, m) == /\ g \in [0..m -> Seq(S)]
                       /\ g[0] = <<>>
                       /\ \A i \in 1..m : g[i] = g[i - 1] \o q[i]
           T == {m \in Nat : m <= n => \E g : Is(g, m)}
<1>1. 0 \in T
  <2>1. Is([i \in 0..0 |-> <<>>], 0)
    OBVIOUS
  <2> QED BY <2>1
<1>2. ASSUME NEW m \in T PROVE m + 1 \in T
  <2> SUFFICES ASSUME m + 1 <= n PROVE \E g : Is(g, m + 1)
    <3> HIDE DEF Is
    <3> QED OBVIOUS
  <2>0. m \in Nat /\ m <= n /\ m + 1 \in 1..n
    OBVIOUS
  <2>1. PICK g : Is(g, m)
    BY <2>0
  <2>2. g[m] \in Seq(S) /\ q[m + 1] \in Seq(S)
    BY <2>0, <2>1
  <2> DEFINE h == [i \in 0..(m + 1) |-> IF i = m + 1 THEN g[m] \o q[m + 1] ELSE g[i]]
  <2>3. h \in [0..(m + 1) -> Seq(S)]
    BY <2>0, <2>1, <2>2
  <2>4. h[0] = <<>>
    BY <2>0, <2>1
  <2>5. ASSUME NEW i \in 1..(m + 1) PROVE h[i] = h[i - 1] \o q[i]
    <3>1. CASE i = m + 1
      <4>0. m \in 0..(m + 1) /\ m + 1 \in 0..(m + 1) /\ m # m + 1
        BY <2>0
      <4>1. h[m + 1] = g[m] \o q[m + 1] /\ h[m] = g[m]
        <5> HIDE DEF Is
        <5> QED BY <4>0
      <4>2. i - 1 = m
        BY <2>0, <3>1
      <4> QED BY <4>1, <4>2, <3>1
    <3>2. CASE i # m + 1
      <4>1. i \in 1..m /\ i - 1 \in 0..m /\ i \in 0..m /\ i - 1 # m + 1
        BY <2>0, <3>2
      <4>2. h[i] = g[i] /\ h[i - 1] = g[i - 1]
        BY <2>0, <4>1, <3>2
      <4> QED BY <4>1, <4>2, <2>1
    <3> QED BY <3>1, <3>2
  <2> HIDE DEF h
  <2> QED BY <2>3, <2>4, <2>5
<1>3. T = Nat
  <2> HIDE DEF T
  <2>1. T \in SUBSET Nat BY DEF T
  <2> QED BY <1>1, <1>2, <2>1, Induct
<1>4. n \in Nat
  OBVIOUS
<1>5. \E g : Is(g, n)
  <2>1. n \in T /\ n <= n
    <3> HIDE DEF T
    <3> QED BY <1>3, <1>4
  <2> HIDE DEF Is
  <2> QED BY <2>1
<1> QED BY <1>5 DEF Joins

\* FlattenSeq is the last of the list.
LEMMA JoinsFlatten ==
  ASSUME NEW S, NEW q \in Seq(Seq(S)), NEW g, Joins(g, q, S)
  PROVE  FlattenSeq(q) = g[Len(q)]
<1>1. CASE q = <<>>
  BY <1>1 DEF FlattenSeq, Joins
<1>2. CASE q # <<>>
  <2> DEFINE n == Len(q)
             Is(f) == f = [i \in 1..n |-> IF i = 1 THEN q[i] ELSE f[i - 1] \o q[i]]
             f0 == [i \in 1..n |-> g[i]]
             f1 == CHOOSE f : Is(f)
  <2>1. n \in Nat \ {0}
    BY <1>2
  <2>2. \A i \in 1..n : i - 1 \in 0..n /\ q[i] \in Seq(S) /\ g[i] = g[i - 1] \o q[i]
    <3>1. \A i \in 1..n : i - 1 \in 0..n /\ q[i] \in Seq(S)
      BY <2>1
    <3>2. \A i \in 1..n : g[i] = g[i - 1] \o q[i]
      BY DEF Joins
    <3> QED BY <3>1, <3>2
  <2>3. g[1] = q[1]
    <3>1. 1 \in 1..n /\ 1 - 1 = 0
      BY <2>1
    <3>2. q[1] \in Seq(S) /\ g[1] = g[0] \o q[1]
      BY <3>1, <2>2
    <3>3. g[0] = <<>>
      BY DEF Joins
    <3> HIDE DEF n
    <3> QED BY <3>2, <3>3
  <2>4. ASSUME NEW i \in 1..n PROVE g[i] = IF i = 1 THEN q[i] ELSE f0[i - 1] \o q[i]
    <3>1. i # 1 => i - 1 \in 1..n
      BY <2>1
    <3>2. i # 1 => f0[i - 1] = g[i - 1]
      BY <3>1
    <3> QED BY <2>2, <2>3, <3>2
  <2>5. Is(f0)
    BY <2>4
  <2>6. Is(f1)
    <3> HIDE DEF Is, f0
    <3> QED BY <2>5
  <2>7. \A i \in 1..n : f1[i] = IF i = 1 THEN q[i] ELSE f1[i - 1] \o q[i]
    <3> HIDE DEF f1
    <3> QED BY <2>6
  <2>8. FlattenSeq(q) = f1[n]
    BY <1>2 DEF FlattenSeq
  <2> HIDE DEF f1
  <2> DEFINE T == {m \in Nat : m \in 1..n => f1[m] = g[m]}
  <2>9. 0 \in T
    OBVIOUS
  <2>10. ASSUME NEW m \in T PROVE m + 1 \in T
    <3> SUFFICES ASSUME m + 1 \in 1..n PROVE f1[m + 1] = g[m + 1]
      OBVIOUS
    <3>1. CASE m = 0
      BY <3>1, <2>7, <2>3
    <3>2. CASE m # 0
      <4>1. m \in 1..n /\ m + 1 # 1 /\ (m + 1) - 1 = m
        BY <3>2
      <4>2. f1[m] = g[m]
        BY <4>1
      <4>3. f1[m + 1] = f1[m] \o q[m + 1] /\ g[m + 1] = g[m] \o q[m + 1]
        BY <4>1, <2>7, <2>2
      <4> QED BY <4>2, <4>3
    <3> QED BY <3>1, <3>2
  <2>11. T = Nat
    <3> HIDE DEF T
    <3>1. T \in SUBSET Nat BY DEF T
    <3> QED BY <2>9, <2>10, <3>1, Induct
  <2>12. f1[n] = g[n]
    <3>1. n \in T /\ n \in 1..n
      BY <2>11, <2>1, SMTT(20)
    <3> QED BY <3>1
  <2> QED BY <2>8, <2>12
<1> QED BY <1>1, <1>2

-----------------------------------------------------------------------------
(* The bytes of a frame.                                                     *)

\* What the parser tells apart, and the bytes.
Kinds == {"text", "num", "cr", "lf", "data", "nul"}
Cell == [conn : Nat, frame : Nat, of : Shapes, kind : Kinds, at : Int]
\* A frame: its kinds of bytes, how many it has, and the frames of a connection.
KindsOf(f) == HeaderOf(f) \o ChunkOf(f)
LenOf(f) == Len(KindsOf(f))
FramesOf(c, s) == [i \in 1..Len(s) |-> Cells(c, i, s[i])]

\* What a shape is made of.
LEMMA ShapesAre ==
  ASSUME NEW f \in Shapes
  PROVE  /\ f.ok \in {"yes", "bad_frame", "bad_chunk", "no_line"}
         /\ f.data \in Nat
  BY ParserBounds

\* What Rep repeats.
LEMMA RepIs ==
  ASSUME NEW k \in Kinds, NEW n \in Nat
  PROVE  /\ Rep(k, n) \in Seq(Kinds) /\ Len(Rep(k, n)) = n
         /\ \A p \in 1..n : Rep(k, n)[p] = k
  BY DEF Rep

\* The line that begins a frame.
LEMMA HeaderIs ==
  ASSUME NEW f \in Shapes
  PROVE  /\ HeaderOf(f) \in Seq(Kinds)
         /\ f.ok \in {"yes", "bad_chunk"} => HeaderOf(f) = <<"num", "cr", "lf">>
         /\ f.ok \in {"bad_frame", "no_line"} =>
              Len(HeaderOf(f)) >= 1 /\ HeaderOf(f)[1] = "text"
<1>1. "text" \in Kinds /\ "cr" \in Kinds /\ "lf" \in Kinds /\ "num" \in Kinds
  BY DEF Kinds
<1>2. Cap \in Nat /\ Cap > 8
  BY ParserBounds, HeadersFit
<1>3. /\ Rep("text", Cap) \in Seq(Kinds) /\ Len(Rep("text", Cap)) = Cap
      /\ \A p \in 1..Cap : Rep("text", Cap)[p] = "text"
  BY <1>1, <1>2, RepIs
<1>4. 1 \in 1..Cap
  BY <1>2
<1>5. CASE f.ok = "no_line"
  <2>1. HeaderOf(f) = Rep("text", Cap)
    BY <1>5 DEF HeaderOf
  <2> QED BY <2>1, <1>2, <1>3, <1>4, <1>5
<1>6. CASE f.ok = "bad_frame"
  <2>1. HeaderOf(f) = <<"text", "cr", "lf">>
    BY <1>6 DEF HeaderOf
  <2> QED BY <2>1, <1>1, <1>6
<1>7. CASE f.ok \notin {"no_line", "bad_frame"}
  <2>1. HeaderOf(f) = <<"num", "cr", "lf">>
    BY <1>7 DEF HeaderOf
  <2> QED BY <2>1, <1>1, <1>7
<1> QED BY <1>5, <1>6, <1>7

\* The lines of the chunk, and its data.
LEMMA ChunkIs ==
  ASSUME NEW f \in Shapes
  PROVE  /\ ChunkOf(f) \in Seq(Kinds)
         /\ f.ok = "bad_chunk" =>
              /\ Len(ChunkOf(f)) = 3 + f.data
              /\ ChunkOf(f)[1] = "text" /\ ChunkOf(f)[2] = "cr" /\ ChunkOf(f)[3] = "lf"
              /\ \A p \in 1..(3 + f.data) : p > 3 => ChunkOf(f)[p] = "data"
         /\ f.ok # "bad_chunk" =>
              /\ Len(ChunkOf(f)) = 5 + f.data
              /\ ChunkOf(f)[1] = "text" /\ ChunkOf(f)[2] = "cr" /\ ChunkOf(f)[3] = "lf"
              /\ ChunkOf(f)[4] = "cr" /\ ChunkOf(f)[5] = "lf"
              /\ \A p \in 1..(5 + f.data) : p > 5 => ChunkOf(f)[p] = "data"
<1> DEFINE n == f.data
           d == Rep("data", n)
           short == <<"text", "cr", "lf">>
           long == <<"text", "cr", "lf", "cr", "lf">>
<1>1. n \in Nat
  BY ShapesAre
<1>2. "text" \in Kinds /\ "cr" \in Kinds /\ "lf" \in Kinds /\ "data" \in Kinds
  BY DEF Kinds
<1>3. d \in Seq(Kinds) /\ Len(d) = n /\ \A p \in 1..n : d[p] = "data"
  BY <1>1, <1>2, RepIs
<1>4. /\ short \in Seq(Kinds) /\ Len(short) = 3
      /\ long \in Seq(Kinds) /\ Len(long) = 5
  BY <1>2
<1>5. CASE f.ok = "bad_chunk"
  <2>1. ChunkOf(f) = short \o d
    BY <1>5 DEF ChunkOf
  <2> HIDE DEF d, n
  <2>2. ChunkOf(f) \in Seq(Kinds) /\ Len(ChunkOf(f)) = 3 + n
    BY <2>1, <1>1, <1>3, <1>4
  <2>3. ChunkOf(f)[1] = "text" /\ ChunkOf(f)[2] = "cr" /\ ChunkOf(f)[3] = "lf"
    BY <2>1, <1>1, <1>3, <1>4
  <2>4. ASSUME NEW p \in 1..(3 + n), p > 3 PROVE ChunkOf(f)[p] = "data"
    <3>1. p - 3 \in 1..n
      BY <2>4, <1>1
    <3>2. ChunkOf(f)[p] = d[p - 3]
      BY <2>1, <2>4, <1>1, <1>3, <1>4
    <3> QED BY <3>1, <3>2, <1>3
  <2> QED BY <2>2, <2>3, <2>4, <1>5 DEF n
<1>6. CASE f.ok # "bad_chunk"
  <2>1. ChunkOf(f) = long \o d
    BY <1>6 DEF ChunkOf
  <2> HIDE DEF d, n
  <2>2. ChunkOf(f) \in Seq(Kinds) /\ Len(ChunkOf(f)) = 5 + n
    BY <2>1, <1>1, <1>3, <1>4
  <2>3. /\ ChunkOf(f)[1] = "text" /\ ChunkOf(f)[2] = "cr" /\ ChunkOf(f)[3] = "lf"
        /\ ChunkOf(f)[4] = "cr" /\ ChunkOf(f)[5] = "lf"
    BY <2>1, <1>1, <1>3, <1>4
  <2>4. ASSUME NEW p \in 1..(5 + n), p > 5 PROVE ChunkOf(f)[p] = "data"
    <3>1. p - 5 \in 1..n
      BY <2>4, <1>1
    <3>2. ChunkOf(f)[p] = d[p - 5]
      BY <2>1, <2>4, <1>1, <1>3, <1>4
    <3> QED BY <3>1, <3>2, <1>3
  <2> QED BY <2>2, <2>3, <2>4, <1>6 DEF n
<1> QED BY <1>5, <1>6

\* Each byte of a frame is a cell of it.
LEMMA CellsAre ==
  ASSUME NEW c \in Nat, NEW i \in Nat, NEW f \in Shapes
  PROVE  /\ LenOf(f) \in Nat
         /\ Cells(c, i, f) \in Seq(Cell) /\ Len(Cells(c, i, f)) = LenOf(f)
         /\ \A p \in 1..LenOf(f) :
              /\ Cells(c, i, f)[p].conn = c /\ Cells(c, i, f)[p].frame = i
              /\ Cells(c, i, f)[p].of = f
              /\ Cells(c, i, f)[p].kind = KindsOf(f)[p]
              /\ Cells(c, i, f)[p].at = p - (LenOf(f) - f.data)
<1> DEFINE kinds == KindsOf(f)
<1>1. kinds \in Seq(Kinds)
  BY HeaderIs, ChunkIs DEF KindsOf
<1>2. f.data \in Nat /\ Len(kinds) \in Nat /\ LenOf(f) = Len(kinds)
  BY <1>1, ShapesAre DEF LenOf
<1>3. Cells(c, i, f) = [p \in 1..Len(kinds) |->
           [conn |-> c, frame |-> i, of |-> f, kind |-> kinds[p],
            at |-> p - (Len(kinds) - f.data)]]
  BY DEF Cells, KindsOf
<1> HIDE DEF kinds
<1>4. ASSUME NEW p \in 1..Len(kinds)
      PROVE  [conn |-> c, frame |-> i, of |-> f, kind |-> kinds[p],
              at |-> p - (Len(kinds) - f.data)] \in Cell
  BY <1>1, <1>2 DEF Cell
<1>5. Cells(c, i, f) \in Seq(Cell) /\ Len(Cells(c, i, f)) = Len(kinds)
  BY <1>2, <1>3, <1>4
<1>6. \A p \in 1..Len(kinds) :
        Cells(c, i, f)[p] = [conn |-> c, frame |-> i, of |-> f, kind |-> kinds[p],
                             at |-> p - (Len(kinds) - f.data)]
  BY <1>3
<1>7. \A p \in 1..Len(kinds) :
         /\ Cells(c, i, f)[p].conn = c /\ Cells(c, i, f)[p].frame = i
         /\ Cells(c, i, f)[p].of = f /\ Cells(c, i, f)[p].kind = kinds[p]
         /\ Cells(c, i, f)[p].at = p - (Len(kinds) - f.data)
  <2> TAKE p \in 1..Len(kinds)
  <2> DEFINE cell == Cells(c, i, f)[p]
  <2>1. cell = [conn |-> c, frame |-> i, of |-> f, kind |-> kinds[p],
                at |-> p - (Len(kinds) - f.data)]
    BY <1>6
  <2> HIDE DEF cell
  <2>2. /\ cell.conn = c /\ cell.frame = i /\ cell.of = f /\ cell.kind = kinds[p]
        /\ cell.at = p - (Len(kinds) - f.data)
    BY <2>1
  <2> QED BY <2>2 DEF cell
<1>8. kinds = KindsOf(f)
  BY DEF kinds
<1> QED BY <1>2, <1>5, <1>7, <1>8

\* Their kinds.
LEMMA KindsAre ==
  ASSUME NEW c, NEW i, NEW f
  PROVE  \A p \in 1..LenOf(f) : Cells(c, i, f)[p].kind = KindsOf(f)[p]
<1> DEFINE kinds == KindsOf(f)
<1>1. Cells(c, i, f) =
        [p \in 1..Len(kinds) |->
           [conn |-> c, frame |-> i, of |-> f, kind |-> kinds[p],
            at |-> p - (Len(kinds) - f.data)]]
  BY DEF Cells, KindsOf
<1>2. LenOf(f) = Len(kinds)
  BY DEF LenOf
<1> HIDE DEF kinds
<1>3. \A p \in 1..Len(kinds) : Cells(c, i, f)[p].kind = kinds[p]
  BY <1>1
<1> QED BY <1>2, <1>3 DEF kinds

\* The shape of a frame that is well formed, and of one with a malformed chunk.
GoodFrame(g, f) ==
  /\ LenOf(f) = 8 + f.data /\ Len(ChunkOf(f)) = 5 + f.data
  /\ g[1].kind = "num" /\ g[2].kind = "cr" /\ g[3].kind = "lf"
  /\ g[4].kind = "text" /\ g[5].kind = "cr" /\ g[6].kind = "lf"
  /\ g[7].kind = "cr" /\ g[8].kind = "lf"
  /\ \A p \in 1..LenOf(f) : p > 8 => g[p].kind = "data" /\ g[p].at = p - 8

BadChunkFrame(g, f) ==
  /\ LenOf(f) = 3 + Len(ChunkOf(f)) /\ Len(ChunkOf(f)) = 3 + f.data
  /\ g[1].kind = "num" /\ g[2].kind = "cr" /\ g[3].kind = "lf"
  /\ \A p \in 1..LenOf(f) : p > 3 /\ p # 5 => g[p].kind # "cr"

\* A well-formed frame is cut into a number, a line, an empty line and data.
LEMMA GoodCells ==
  ASSUME NEW c \in Nat, NEW i \in Nat, NEW f \in Shapes, f.ok = "yes"
  PROVE  GoodFrame(Cells(c, i, f), f)
<1> DEFINE h == HeaderOf(f)
           k == ChunkOf(f)
           n == f.data
           kinds == h \o k
<1>1. n \in Nat
  BY ShapesAre
<1>2. h = <<"num", "cr", "lf">>
  BY HeaderIs
<1>3. /\ k \in Seq(Kinds) /\ Len(k) = 5 + n
      /\ k[1] = "text" /\ k[2] = "cr" /\ k[3] = "lf" /\ k[4] = "cr" /\ k[5] = "lf"
      /\ \A p \in 1..(5 + n) : p > 5 => k[p] = "data"
  BY ChunkIs
<1>4. h \in Seq(Kinds)
  BY HeaderIs
<1>5. LenOf(f) = Len(kinds)
  BY DEF LenOf, KindsOf
<1>6. \A p \in 1..LenOf(f) : /\ Cells(c, i, f)[p].kind = kinds[p]
                            /\ Cells(c, i, f)[p].at = p - (LenOf(f) - n)
  <2>1. KindsOf(f) = kinds
    BY DEF KindsOf
  <2> HIDE DEF kinds
  <2> QED BY CellsAre, <2>1
<1> HIDE DEF h, k, n
<1>7. Len(kinds) = 8 + n
  BY <1>1, <1>2, <1>3, <1>4
<1>8. /\ kinds[1] = "num" /\ kinds[2] = "cr" /\ kinds[3] = "lf" /\ kinds[4] = "text"
      /\ kinds[5] = "cr" /\ kinds[6] = "lf" /\ kinds[7] = "cr" /\ kinds[8] = "lf"
  BY <1>1, <1>2, <1>3, <1>4
<1>9. ASSUME NEW p \in 1..(8 + n), p > 8 PROVE kinds[p] = "data"
  <2>1. p - 3 \in 1..(5 + n) /\ p - 3 > 5
    BY <1>1, <1>9
  <2>2. kinds[p] = k[p - 3]
    BY <1>1, <1>2, <1>3, <1>4, <1>9
  <2> QED BY <2>1, <2>2, <1>3
<1> HIDE DEF kinds
<1>10. LenOf(f) = 8 + n
  BY <1>5, <1>7
<1>11. /\ 1 \in 1..LenOf(f) /\ 2 \in 1..LenOf(f) /\ 3 \in 1..LenOf(f) /\ 4 \in 1..LenOf(f)
       /\ 5 \in 1..LenOf(f) /\ 6 \in 1..LenOf(f) /\ 7 \in 1..LenOf(f) /\ 8 \in 1..LenOf(f)
  BY <1>10, <1>1
<1>12. \A p \in 1..LenOf(f) : p > 8 => /\ Cells(c, i, f)[p].kind = "data"
                                      /\ Cells(c, i, f)[p].at = p - 8
  BY <1>6, <1>9, <1>10, <1>1
<1>13. Len(ChunkOf(f)) = 5 + f.data
  BY <1>3 DEF k, n
<1>14. LenOf(f) = 8 + f.data
  BY <1>10 DEF n
<1> QED BY <1>6, <1>8, <1>11, <1>12, <1>13, <1>14 DEF GoodFrame

\* In a malformed chunk no line but the first ends.
LEMMA BadChunkCells ==
  ASSUME NEW c \in Nat, NEW i \in Nat, NEW f \in Shapes, f.ok = "bad_chunk"
  PROVE  BadChunkFrame(Cells(c, i, f), f)
<1> DEFINE h == HeaderOf(f)
           k == ChunkOf(f)
           n == f.data
           kinds == h \o k
<1>1. n \in Nat
  BY ShapesAre
<1>2. h = <<"num", "cr", "lf">>
  BY HeaderIs
<1>3. /\ k \in Seq(Kinds) /\ Len(k) = 3 + n
      /\ k[1] = "text" /\ k[2] = "cr" /\ k[3] = "lf"
      /\ \A p \in 1..(3 + n) : p > 3 => k[p] = "data"
  BY ChunkIs
<1>4. h \in Seq(Kinds)
  BY HeaderIs
<1>5. LenOf(f) = Len(kinds)
  BY DEF LenOf, KindsOf
<1>6. \A p \in 1..LenOf(f) : Cells(c, i, f)[p].kind = kinds[p]
  <2>1. KindsOf(f) = kinds
    BY DEF KindsOf
  <2> HIDE DEF kinds
  <2> QED BY CellsAre, <2>1
<1> HIDE DEF h, k, n
<1>7. Len(kinds) = 6 + n
  BY <1>1, <1>2, <1>3, <1>4
<1>8. kinds[1] = "num" /\ kinds[2] = "cr" /\ kinds[3] = "lf"
  BY <1>1, <1>2, <1>3, <1>4
<1>9. ASSUME NEW p \in 1..(6 + n), p > 3, p # 5 PROVE kinds[p] # "cr"
  <2>1. p - 3 \in 1..(3 + n) /\ p - 3 # 2
    BY <1>1, <1>9
  <2>2. kinds[p] = k[p - 3]
    BY <1>1, <1>2, <1>3, <1>4, <1>9
  <2>3. k[p - 3] # "cr"
    <3> DEFINE r == p - 3
    <3>1. r \in 1..(3 + n) /\ r # 2
      BY <2>1
    <3> HIDE DEF r
    <3>2. r = 1 \/ r = 3 \/ r > 3
      BY <3>1, <1>1
    <3>3. k[r] # "cr"
      BY <3>1, <3>2, <1>3
    <3> QED BY <3>3 DEF r
  <2> QED BY <2>2, <2>3
<1> HIDE DEF kinds
<1>10. LenOf(f) = 6 + n
  BY <1>5, <1>7
<1>11. 1 \in 1..LenOf(f) /\ 2 \in 1..LenOf(f) /\ 3 \in 1..LenOf(f)
  BY <1>10, <1>1
<1>12. \A p \in 1..LenOf(f) : p > 3 /\ p # 5 => Cells(c, i, f)[p].kind # "cr"
  BY <1>6, <1>9, <1>10, <1>1
<1>13. Len(ChunkOf(f)) = 3 + f.data
  BY <1>3 DEF k, n
<1>14. LenOf(f) = 3 + Len(ChunkOf(f))
  BY <1>10, <1>13, <1>1 DEF n
<1> QED BY <1>6, <1>8, <1>11, <1>12, <1>13, <1>14 DEF BadChunkFrame

\* The other malformed frames begin with text.
LEMMA BadFrameCells ==
  ASSUME NEW c \in Nat, NEW i \in Nat, NEW f \in Shapes, f.ok \in {"bad_frame", "no_line"}
  PROVE  LenOf(f) >= 1 /\ Cells(c, i, f)[1].kind = "text"
<1> DEFINE h == HeaderOf(f)
           k == ChunkOf(f)
<1>1. h \in Seq(Kinds) /\ Len(h) >= 1 /\ h[1] = "text" /\ k \in Seq(Kinds)
  BY HeaderIs, ChunkIs
<1>2. LenOf(f) = Len(h \o k) /\ (1 \in 1..LenOf(f) => Cells(c, i, f)[1].kind = (h \o k)[1])
  <2>1. KindsOf(f) = h \o k
    BY DEF KindsOf
  <2> HIDE DEF h, k
  <2>2. LenOf(f) = Len(h \o k)
    BY <2>1 DEF LenOf
  <2>3. \A p \in 1..LenOf(f) : Cells(c, i, f)[p].kind = KindsOf(f)[p]
    BY ONLY KindsAre
  <2> QED BY <2>1, <2>2, <2>3
<1> HIDE DEF h, k
<1>3. Len(h \o k) >= 1 /\ (h \o k)[1] = "text" /\ Len(h \o k) \in Nat
  BY <1>1
<1>4. 1 \in 1..LenOf(f)
  BY <1>2, <1>3
<1> QED BY <1>2, <1>3, <1>4

-----------------------------------------------------------------------------
(* The bytes of a connection: the frames behind each other.                  *)

\* Where the elements of two joined sequences are.
LEMMA Concat ==
  ASSUME NEW a \in Seq(Cell), NEW b \in Seq(Cell)
  PROVE  /\ a \o b \in Seq(Cell) /\ Len(a \o b) = Len(a) + Len(b)
         /\ \A i \in 1..Len(a) : (a \o b)[i] = a[i]
         /\ \A i \in 1..Len(b) : (a \o b)[Len(a) + i] = b[i]
  OBVIOUS

\* The frames are sequences of cells.
LEMMA FramesAre ==
  ASSUME NEW c \in Nat, NEW s \in Seq(Shapes)
  PROVE  /\ FramesOf(c, s) \in Seq(Seq(Cell)) /\ Len(FramesOf(c, s)) = Len(s)
         /\ \A i \in 1..Len(s) : FramesOf(c, s)[i] = Cells(c, i, s[i])
<1>1. ASSUME NEW i \in 1..Len(s) PROVE Cells(c, i, s[i]) \in Seq(Cell)
  <2>1. i \in Nat /\ s[i] \in Shapes
    OBVIOUS
  <2> QED BY <2>1, CellsAre
<1>2. Len(s) \in Nat
  OBVIOUS
<1> QED BY <1>1, <1>2 DEF FramesOf

\* The wire is what its frames are put together.
LEMMA WireJoins ==
  ASSUME NEW c \in Nat, NEW s \in Seq(Shapes)
  PROVE  \E g : Joins(g, FramesOf(c, s), Cell) /\ Wire(c, s) = g[Len(s)]
<1> DEFINE q == FramesOf(c, s)
<1>1. q \in Seq(Seq(Cell)) /\ Len(q) = Len(s)
  BY FramesAre
<1>2. Wire(c, s) = FlattenSeq(q)
  BY DEF Wire, FramesOf
<1> HIDE DEF q
<1>3. PICK g : Joins(g, q, Cell)
  BY <1>1, JoinsExist
<1>4. FlattenSeq(q) = g[Len(s)]
  BY <1>1, <1>3, JoinsFlatten
<1> QED BY <1>2, <1>3, <1>4 DEF q

\* b is a with frame i of s behind it.
Appended(a, b, c, s, i) ==
  /\ a \in Seq(Cell) /\ b \in Seq(Cell)
  /\ s[i] \in Shapes /\ LenOf(s[i]) \in Nat
  /\ Len(b) = Len(a) + LenOf(s[i])
  /\ \A p \in 1..Len(a) : b[p] = a[p]
  /\ \A p \in 1..LenOf(s[i]) : b[Len(a) + p] = Cells(c, i, s[i])[p]

\* One frame more.
LEMMA JoinsStep ==
  ASSUME NEW c \in Nat, NEW s \in Seq(Shapes), NEW g, Joins(g, FramesOf(c, s), Cell),
         NEW i \in 1..Len(s)
  PROVE  Appended(g[i - 1], g[i], c, s, i)
<1> DEFINE a == g[i - 1]
           b == Cells(c, i, s[i])
<1>1. i - 1 \in 0..Len(s) /\ i \in 0..Len(s) /\ i \in Nat /\ s[i] \in Shapes
  OBVIOUS
<1>2. b \in Seq(Cell) /\ Len(b) = LenOf(s[i]) /\ LenOf(s[i]) \in Nat
  <2> DEFINE f == s[i]
  <2>1. f \in Shapes /\ i \in Nat
    BY <1>1
  <2> HIDE DEF f
  <2>2. Cells(c, i, f) \in Seq(Cell) /\ Len(Cells(c, i, f)) = LenOf(f) /\ LenOf(f) \in Nat
    BY ONLY <2>1, CellsAre, c \in Nat
  <2> QED BY <2>2 DEF f
<1>3. Len(FramesOf(c, s)) = Len(s) /\ FramesOf(c, s)[i] = b
  BY FramesAre
<1>4. g \in [0..Len(s) -> Seq(Cell)] /\ g[i] = a \o b
  BY <1>3 DEF Joins
<1>5. a \in Seq(Cell) /\ g[i] \in Seq(Cell)
  BY <1>1, <1>4
<1> HIDE DEF a, b
<1>6. Len(g[i]) = Len(a) + Len(b)
  <2>1. Len(a \o b) = Len(a) + Len(b)
    BY <1>2, <1>5, Concat
  <2> QED BY <1>4, <2>1
<1>7. \A p \in 1..Len(a) : g[i][p] = a[p]
  BY <1>2, <1>4, <1>5
<1>8. ASSUME NEW p \in 1..Len(b) PROVE g[i][Len(a) + p] = b[p]
  BY <1>2, <1>4, <1>5
<1>9. \A p \in 1..LenOf(s[i]) : g[i][Len(a) + p] = b[p]
  BY <1>8, <1>2
<1>10. Len(g[i]) = Len(a) + LenOf(s[i])
  BY <1>6, <1>2
<1> QED BY <1>1, <1>2, <1>5, <1>7, <1>9, <1>10 DEF a, b, Appended

\* No frame.
LEMMA JoinsZero ==
  ASSUME NEW c \in Nat, NEW s \in Seq(Shapes), NEW g, Joins(g, FramesOf(c, s), Cell)
  PROVE  g[0] = <<>> /\ Len(g[0]) = 0 /\ \A i \in 0..Len(s) : g[i] \in Seq(Cell)
  BY FramesAre DEF Joins

\* a is how b begins.
Starts(a, b) == Len(a) <= Len(b) /\ \A p \in 1..Len(a) : b[p] = a[p]

\* What is joined later does not change what was joined.
LEMMA JoinsPrefix ==
  ASSUME NEW c \in Nat, NEW s \in Seq(Shapes), NEW g, Joins(g, FramesOf(c, s), Cell),
         NEW i \in 0..Len(s), NEW j \in i..Len(s)
  PROVE  Starts(g[i], g[j])
<1> DEFINE Goes(m) == Starts(g[i], g[m])
           T == {d \in Nat : i + d <= Len(s) => Goes(i + d)}
<1>0. i \in Nat /\ Len(s) \in Nat /\ g[i] \in Seq(Cell)
  BY JoinsZero
<1>1. 0 \in T
  <2>1. Goes(i)
    BY <1>0 DEF Starts
  <2>2. i + 0 = i
    BY <1>0
  <2> HIDE DEF Goes
  <2> QED BY <2>1, <2>2
<1>2. ASSUME NEW d \in T PROVE d + 1 \in T
  <2>0. d \in Nat
    OBVIOUS
  <2> SUFFICES ASSUME i + (d + 1) <= Len(s) PROVE Goes(i + (d + 1))
    <3> HIDE DEF Goes
    <3> QED BY <2>0
  <2> DEFINE m == i + d
             n == i + (d + 1)
  <2>1. m \in Nat /\ n \in 1..Len(s) /\ n - 1 = m /\ m <= Len(s)
    BY <1>0, <2>0
  <2>2. Goes(m)
    <3> HIDE DEF Goes
    <3> QED BY <2>1
  <2> HIDE DEF m, n
  <2>3. /\ Len(g[n]) = Len(g[m]) + LenOf(s[n]) /\ LenOf(s[n]) \in Nat
        /\ g[m] \in Seq(Cell) /\ g[n] \in Seq(Cell)
        /\ \A p \in 1..Len(g[m]) : g[n][p] = g[m][p]
    <3>1. Appended(g[n - 1], g[n], c, s, n)
      BY <2>1, JoinsStep
    <3> QED BY <3>1, <2>1 DEF Appended
  <2>4. Len(g[i]) <= Len(g[n])
    BY <2>2, <2>3, <1>0 DEF Starts
  <2>5. \A p \in 1..Len(g[i]) : p \in 1..Len(g[m])
    BY <2>2, <2>3, <1>0 DEF Starts
  <2>6. \A p \in 1..Len(g[i]) : g[n][p] = g[i][p]
    BY <2>2, <2>3, <2>5 DEF Starts
  <2> QED BY <2>4, <2>6 DEF n, Starts
<1>3. T = Nat
  <2> HIDE DEF T
  <2>1. T \in SUBSET Nat BY DEF T
  <2> QED BY <1>1, <1>2, <2>1, Induct
<1>4. j - i \in Nat /\ i + (j - i) = j /\ j <= Len(s)
  BY <1>0
<1> HIDE DEF Goes
<1>5. Goes(j)
  BY <1>3, <1>4
<1> QED BY <1>5 DEF Goes

\* Upto is the length of the first frames on any connection.
LEMMA UptoJoins ==
  ASSUME NEW c \in Nat, NEW s \in Seq(Shapes), NEW g, Joins(g, FramesOf(c, s), Cell),
         NEW n \in 0..Len(s)
  PROVE  Upto(s, n) = Len(g[n])
<1> DEFINE s1 == SubSeq(s, 1, n)
<1>1. s1 \in Seq(Shapes) /\ Len(s1) = n /\ \A i \in 1..n : s1[i] = s[i]
  OBVIOUS
<1>2. Upto(s, n) = Len(Wire(1, s1))
  BY DEF Upto
<1> HIDE DEF s1
<1>3. PICK h : Joins(h, FramesOf(1, s1), Cell) /\ Wire(1, s1) = h[n]
  BY <1>1, WireJoins
<1> DEFINE T == {m \in Nat : m <= n => Len(h[m]) = Len(g[m])}
<1>4. 0 \in T
  BY <1>1, <1>3, JoinsZero
<1>5. ASSUME NEW m \in T PROVE m + 1 \in T
  <2>0. m \in Nat
    OBVIOUS
  <2> SUFFICES ASSUME m + 1 <= n PROVE Len(h[m + 1]) = Len(g[m + 1])
    BY <2>0
  <2>1. Len(h[m]) = Len(g[m])
    BY <2>0
  <2> HIDE DEF T
  <2> DEFINE k == m + 1
  <2>2. k \in 1..n /\ k \in 1..Len(s) /\ k \in 1..Len(s1) /\ k - 1 = m
    BY <2>0, <1>1
  <2> HIDE DEF k
  <2>3. Len(g[k]) = Len(g[k - 1]) + LenOf(s[k])
    <3>1. Appended(g[k - 1], g[k], c, s, k)
      BY <2>2, JoinsStep
    <3> QED BY <3>1 DEF Appended
  <2>4. Len(h[k]) = Len(h[k - 1]) + LenOf(s1[k])
    <3>1. Appended(h[k - 1], h[k], 1, s1, k)
      BY <2>2, <1>1, <1>3, JoinsStep
    <3> QED BY <3>1 DEF Appended
  <2>6. s1[k] = s[k]
    BY <2>2, <1>1
  <2>5. Len(h[k]) = Len(g[k])
    BY <2>1, <2>2, <2>3, <2>4, <2>6
  <2> QED BY <2>5 DEF k
<1>6. T = Nat
  <2> HIDE DEF T
  <2>1. T \in SUBSET Nat BY DEF T
  <2> QED BY <1>4, <1>5, <2>1, Induct
<1>7. n \in Nat /\ n <= n
  OBVIOUS
<1> QED BY <1>2, <1>3, <1>6, <1>7

\* Frame i + 1 is at its place on the wire.
LEMMA WireIs ==
  ASSUME NEW c \in Nat, NEW s \in Seq(Shapes)
  PROVE  /\ Wire(c, s) \in Seq(Cell) /\ Len(Wire(c, s)) = Upto(s, Len(s))
         /\ \A i \in 0..Len(s) : Upto(s, i) \in Nat /\ Upto(s, i) <= Len(Wire(c, s))
         /\ Upto(s, 0) = 0
         /\ \A i \in 1..Len(s) :
              /\ Upto(s, i) = Upto(s, i - 1) + LenOf(s[i])
              /\ \A p \in 1..LenOf(s[i]) :
                    Wire(c, s)[Upto(s, i - 1) + p] = Cells(c, i, s[i])[p]
<1>1. PICK g : Joins(g, FramesOf(c, s), Cell) /\ Wire(c, s) = g[Len(s)]
  BY WireJoins
<1>2. \A i \in 0..Len(s) : Upto(s, i) = Len(g[i])
  BY <1>1, UptoJoins
<1>3. Len(s) \in 0..Len(s) /\ 0 \in 0..Len(s)
  OBVIOUS
<1>4. Wire(c, s) \in Seq(Cell) /\ Len(Wire(c, s)) = Upto(s, Len(s))
  BY <1>1, <1>2, <1>3, JoinsZero
<1>5. ASSUME NEW i \in 0..Len(s) PROVE Upto(s, i) \in Nat /\ Upto(s, i) <= Len(Wire(c, s))
  <2>1. Len(s) \in i..Len(s)
    OBVIOUS
  <2>2. Len(g[i]) <= Len(g[Len(s)])
    <3>1. Starts(g[i], g[Len(s)])
      BY <1>1, <2>1, JoinsPrefix
    <3> QED BY <3>1 DEF Starts
  <2>3. Len(g[i]) \in Nat
    BY <1>1, JoinsZero
  <2> QED BY <2>2, <2>3, <1>1, <1>2
<1>6. Upto(s, 0) = 0
  BY <1>1, <1>2, <1>3, JoinsZero
<1>7. ASSUME NEW i \in 1..Len(s)
      PROVE  /\ Upto(s, i) = Upto(s, i - 1) + LenOf(s[i])
             /\ \A p \in 1..LenOf(s[i]) :
                    Wire(c, s)[Upto(s, i - 1) + p] = Cells(c, i, s[i])[p]
  <2>1. /\ i - 1 \in 0..Len(s) /\ i \in 0..Len(s)
        /\ g[i - 1] \in Seq(Cell) /\ g[i] \in Seq(Cell) /\ LenOf(s[i]) \in Nat
        /\ Len(g[i]) = Len(g[i - 1]) + LenOf(s[i])
        /\ \A p \in 1..LenOf(s[i]) : g[i][Len(g[i - 1]) + p] = Cells(c, i, s[i])[p]
    <3>1. Appended(g[i - 1], g[i], c, s, i)
      BY <1>1, JoinsStep
    <3>2. i - 1 \in 0..Len(s) /\ i \in 0..Len(s)
      OBVIOUS
    <3> QED BY ONLY <3>1, <3>2 DEF Appended
  <2>2. Len(s) \in i..Len(s) /\ i \in 0..Len(s)
    OBVIOUS
  <2>3. \A p \in 1..Len(g[i]) : g[Len(s)][p] = g[i][p]
    <3>1. Starts(g[i], g[Len(s)])
      BY <1>1, <2>2, JoinsPrefix
    <3> QED BY <3>1 DEF Starts
  <2>4. \A p \in 1..LenOf(s[i]) : Len(g[i - 1]) + p \in 1..Len(g[i])
    BY <2>1
  <2> QED BY <1>1, <1>2, <2>1, <2>3, <2>4
<1> QED BY <1>4, <1>5, <1>6, <1>7

\* More frames have no fewer bytes.
LEMMA UptoGrows ==
  ASSUME NEW s \in Seq(Shapes), NEW i \in 0..Len(s), NEW j \in i..Len(s)
  PROVE  Upto(s, i) <= Upto(s, j)
<1>1. PICK g : Joins(g, FramesOf(1, s), Cell) /\ Wire(1, s) = g[Len(s)]
  BY WireJoins
<1>2. i \in 0..Len(s) /\ j \in 0..Len(s)
  OBVIOUS
<1>3. Upto(s, i) = Len(g[i]) /\ Upto(s, j) = Len(g[j])
  BY <1>1, <1>2, UptoJoins
<1>4. Starts(g[i], g[j])
  BY <1>1, JoinsPrefix
<1> QED BY <1>3, <1>4 DEF Starts

-----------------------------------------------------------------------------
(* Lines: where they end, and what zeroing their ends changes.               *)

\* c is d, or d zeroed.
Masked(c, d) ==
  /\ c.conn = d.conn /\ c.frame = d.frame /\ c.of = d.of
  /\ c.kind = d.kind \/ c.kind = "nul"

\* First is the least.
LEMMA FirstIs ==
  ASSUME NEW ps \in SUBSET Nat, NEW p \in ps, \A q \in ps : p <= q
  PROVE  First(ps) = p
<1> DEFINE f == CHOOSE r \in ps : \A q \in ps : r <= q
<1>1. f \in ps /\ \A q \in ps : f <= q
  OBVIOUS
<1>2. First(ps) = f
  BY DEF First
<1> HIDE DEF f
<1>3. f <= p /\ p <= f /\ f \in Nat /\ p \in Nat
  BY <1>1
<1>4. f = p
  BY <1>3
<1> QED BY <1>2, <1>4

\* First of a set is one of it.
LEMMA FirstIn ==
  ASSUME NEW ps \in SUBSET Nat, ps # {}
  PROVE  First(ps) \in ps
<1>1. PICK p \in ps : \A q \in ps : p <= q
  BY Least
<1> QED BY <1>1, FirstIs

\* Where the lines of a sequence end.
LEMMA CrlfsAre ==
  ASSUME NEW s \in Seq(Cell)
  PROVE  /\ Crlfs(s) \in SUBSET Nat
         /\ \A p \in Crlfs(s) : p \in 1..Len(s) /\ p + 1 \in 1..Len(s)
                                /\ s[p].kind = "cr" /\ s[p + 1].kind = "lf"
         /\ \A p \in 1..Len(s) : p < Len(s) /\ s[p].kind = "cr" /\ s[p + 1].kind = "lf"
                                   => p \in Crlfs(s)
  BY DEF Crlfs, IsCrlf

\* zero_first_crlf finds the first of them.
LEMMA LineEndIs ==
  ASSUME NEW s \in Seq(Cell), Len(s) >= 3,
         s[1].kind # "cr", s[2].kind = "cr", s[3].kind = "lf"
  PROVE  LineEnd(s) = 3
<1>1. 2 \in 1..Len(s) /\ 2 < Len(s) /\ 2 + 1 = 3
  OBVIOUS
<1>2. 2 \in Crlfs(s)
  BY <1>1, CrlfsAre
<1>3. \A q \in Crlfs(s) : 2 <= q
  BY CrlfsAre
<1>4. First(Crlfs(s)) = 2
  BY <1>2, <1>3, CrlfsAre, FirstIs
<1> QED BY <1>2, <1>4 DEF LineEnd

\* Where a line ends that does not begin with a CR.
LEMMA LineEndAfter ==
  ASSUME NEW s \in Seq(Cell), LineEnd(s) # 0
  PROVE  LineEnd(s) \in Nat /\ LineEnd(s) - 1 \in Crlfs(s) /\ LineEnd(s) >= 2
<1>1. Crlfs(s) # {} /\ LineEnd(s) = First(Crlfs(s)) + 1
  BY DEF LineEnd
<1>2. First(Crlfs(s)) \in Crlfs(s)
  BY <1>1, CrlfsAre, FirstIn
<1>3. First(Crlfs(s)) \in Nat /\ First(Crlfs(s)) >= 1
  BY <1>2, CrlfsAre
<1> QED BY <1>1, <1>2, <1>3

\* Zeroing leaves all but the ends of lines.
LEMMA ZeroedIs ==
  ASSUME NEW s \in Seq(Cell), NEW ps
  PROVE  /\ ZeroedAt(s, ps) \in Seq(Cell) /\ Len(ZeroedAt(s, ps)) = Len(s)
         /\ \A p \in 1..Len(s) : Masked(ZeroedAt(s, ps)[p], s[p])
         /\ \A p \in 1..Len(s) : p \notin ps /\ p - 1 \notin ps => ZeroedAt(s, ps)[p] = s[p]
<1> DEFINE z == ZeroedAt(s, ps)
<1>1. ASSUME NEW p \in 1..Len(s)
      PROVE  [s[p] EXCEPT !.kind = "nul"] \in Cell /\ Masked([s[p] EXCEPT !.kind = "nul"], s[p])
  <2>1. s[p] \in Cell /\ "nul" \in Kinds
    BY DEF Kinds
  <2> QED BY <2>1 DEF Cell, Masked
<1>2. z = [p \in 1..Len(s) |->
       IF p \in ps \/ p - 1 \in ps THEN [s[p] EXCEPT !.kind = "nul"] ELSE s[p]]
  BY DEF ZeroedAt
<1> HIDE DEF z
<1>3. \A p \in 1..Len(s) : \/ z[p] = [s[p] EXCEPT !.kind = "nul"]
                           \/ z[p] = s[p]
  BY <1>2
<1>4. \A p \in 1..Len(s) : z[p] \in Cell
  <2> TAKE p \in 1..Len(s)
  <2>1. [s[p] EXCEPT !.kind = "nul"] \in Cell
    BY <1>1
  <2>2. s[p] \in Cell
    OBVIOUS
  <2> HIDE DEF Cell
  <2> QED BY <1>3, <2>1, <2>2
<1>5. \A p \in 1..Len(s) : Masked(z[p], s[p])
  <2> TAKE p \in 1..Len(s)
  <2>1. Masked(s[p], s[p])
    BY DEF Masked
  <2> QED BY <2>1, <1>1, <1>3
<1>6. z \in Seq(Cell) /\ Len(z) = Len(s)
  <2>1. Len(s) \in Nat
    OBVIOUS
  <2>2. z = [p \in 1..Len(s) |-> z[p]]
    BY <1>2
  <2> QED BY <2>1, <2>2, <1>4
<1>7. \A p \in 1..Len(s) : p \notin ps /\ p - 1 \notin ps => z[p] = s[p]
  BY <1>2
<1> QED BY <1>5, <1>6, <1>7 DEF z

\* Zeroed twice is zeroed.
LEMMA MaskedTwice ==
  ASSUME NEW a, NEW b, NEW c, Masked(a, b), Masked(b, c)
  PROVE  Masked(a, c)
  BY DEF Masked

\* The headers of a chunk: one line and the empty one.
LEMMA GoodHeaders ==
  ASSUME NEW s \in Seq(Cell), Len(s) >= 5,
         s[1].kind = "text", s[2].kind = "cr", s[3].kind = "lf",
         s[4].kind = "cr", s[5].kind = "lf",
         \A p \in 1..Len(s) : p > 5 => s[p].kind # "cr"
  PROVE  HeadersEnd(s) = 5 /\ \A p \in HeaderLines(s) : p \in Nat /\ p <= 4
<1>1. /\ 2 \in 1..Len(s) /\ 2 < Len(s) /\ 4 \in 1..Len(s) /\ 4 < Len(s)
      /\ 2 + 1 = 3 /\ 4 + 1 = 5
  OBVIOUS
<1>2. 2 \in Crlfs(s) /\ 4 \in Crlfs(s)
  BY <1>1, CrlfsAre
<1>3. \A p \in Crlfs(s) : p = 2 \/ p = 4
  <2> TAKE p \in Crlfs(s)
  <2>1. p \in 1..Len(s) /\ s[p].kind = "cr"
    BY CrlfsAre
  <2>2. p # 1 /\ p # 3 /\ p # 5 /\ ~(p > 5)
    BY <2>1
  <2> QED BY <2>1, <2>2
<1>4. Blank(s) = {4}
  <2>1. 4 \in Blank(s)
    BY <1>2 DEF Blank
  <2>2. 0 \notin Crlfs(s)
    BY <1>3
  <2>3. 2 \notin Blank(s)
    BY <2>2 DEF Blank
  <2>4. \A p \in Blank(s) : p \in Crlfs(s)
    BY DEF Blank
  <2> QED BY <1>3, <2>1, <2>3, <2>4
<1>5. First({4}) = 4
  BY FirstIs
<1>6. HeadersEnd(s) = 5
  BY <1>4, <1>5 DEF HeadersEnd
<1>7. \A p \in HeaderLines(s) : p \in Crlfs(s)
  BY DEF HeaderLines
<1> QED BY <1>3, <1>6, <1>7

\* Without an empty line there are no headers.
LEMMA BadHeaders ==
  ASSUME NEW s \in Seq(Cell), \A p \in 1..Len(s) : p # 2 => s[p].kind # "cr"
  PROVE  HeadersEnd(s) = 0
<1>1. \A p \in Crlfs(s) : p = 2
  BY CrlfsAre
<1>2. Blank(s) = {}
  BY <1>1 DEF Blank
<1> QED BY <1>2 DEF HeadersEnd

\* What parse_chunk_header leaves of the buffer.
ChunkZeroed(r, h, n, ps) ==
  SubSeq(r, 1, h) \o ZeroedAt(SubSeq(r, h + 1, h + n), ps) \o SubSeq(r, h + n + 1, Len(r))

\* It is the buffer, with the ends of its header lines zeroed.
LEMMA ChunkZeroedIs ==
  ASSUME NEW r \in Seq(Cell), NEW h \in Nat, NEW n \in Nat, h + n <= Len(r), NEW ps
  PROVE  /\ ChunkZeroed(r, h, n, ps) \in Seq(Cell)
         /\ Len(ChunkZeroed(r, h, n, ps)) = Len(r)
         /\ \A j \in 1..Len(r) : Masked(ChunkZeroed(r, h, n, ps)[j], r[j])
         /\ \A j \in 1..Len(r) : j > h /\ j - h \notin ps /\ j - h - 1 \notin ps
                                   => ChunkZeroed(r, h, n, ps)[j] = r[j]
<1> DEFINE a == SubSeq(r, 1, h)
           s == SubSeq(r, h + 1, h + n)
           b == ZeroedAt(s, ps)
           d == SubSeq(r, h + n + 1, Len(r))
           z == ChunkZeroed(r, h, n, ps)
<1>0. Len(r) \in Nat
  OBVIOUS
<1>1. a \in Seq(Cell) /\ Len(a) = h /\ \A j \in 1..h : a[j] = r[j]
  OBVIOUS
<1>2. s \in Seq(Cell) /\ Len(s) = n /\ \A j \in 1..n : s[j] = r[h + j]
  OBVIOUS
<1>3. /\ d \in Seq(Cell) /\ Len(d) = Len(r) - (h + n)
      /\ \A j \in 1..(Len(r) - (h + n)) : d[j] = r[h + n + j]
  OBVIOUS
<1> HIDE DEF a, s, d
<1>4. /\ b \in Seq(Cell) /\ Len(b) = n /\ \A j \in 1..n : Masked(b[j], s[j])
      /\ \A j \in 1..n : j \notin ps /\ j - 1 \notin ps => b[j] = s[j]
  BY <1>2, ZeroedIs
<1>5. z = (a \o b) \o d
  BY DEF ChunkZeroed, a, s, d
<1> HIDE DEF b, z
<1>6. /\ a \o b \in Seq(Cell) /\ Len(a \o b) = h + n
      /\ \A i \in 1..n : (a \o b)[h + i] = b[i]
  <2>1. /\ a \o b \in Seq(Cell) /\ Len(a \o b) = Len(a) + Len(b)
        /\ \A i \in 1..Len(b) : (a \o b)[Len(a) + i] = b[i]
    <3>1. a \in Seq(Cell) /\ b \in Seq(Cell)
      BY <1>1, <1>4
    <3> QED BY ONLY <3>1, Concat
  <2> QED BY <1>1, <1>4, <2>1
<1>7. z \in Seq(Cell) /\ Len(z) = Len(r)
  <2> DEFINE e == a \o b
  <2>1. e \in Seq(Cell) /\ Len(e) = h + n /\ z = e \o d
    BY <1>5, <1>6
  <2> HIDE DEF e
  <2>2. z \in Seq(Cell) /\ Len(z) = Len(e) + Len(d)
    <3>1. e \in Seq(Cell) /\ d \in Seq(Cell)
      BY <1>3, <2>1
    <3>2. e \o d \in Seq(Cell) /\ Len(e \o d) = Len(e) + Len(d)
      BY ONLY <3>1, Concat
    <3> QED BY <2>1, <3>2
  <2> QED BY <1>0, <1>3, <2>1, <2>2
<1>8. ASSUME NEW j \in 1..Len(r)
      PROVE  /\ Masked(z[j], r[j])
             /\ j > h /\ j - h \notin ps /\ j - h - 1 \notin ps => z[j] = r[j]
  <2>0. Masked(r[j], r[j]) /\ j \in Nat
    BY DEF Masked
  <2>1. CASE j <= h
    <3>1. j \in 1..Len(a) /\ j \in 1..Len(a \o b)
      BY <2>1, <2>0, <1>1, <1>6
    <3>2. (a \o b)[j] = a[j]
      BY <3>1, <1>1, <1>4
    <3>3. z[j] = (a \o b)[j]
      BY <3>1, <1>3, <1>5, <1>6
    <3>4. a[j] = r[j]
      BY <3>1, <1>1
    <3> QED BY <3>2, <3>3, <3>4, <2>0, <2>1
  <2>2. CASE j > h /\ j <= h + n
    <3> DEFINE i == j - h
    <3>1. i \in 1..n /\ j \in 1..Len(a \o b) /\ h + i = j
      BY <2>2, <2>0, <1>1, <1>6
    <3>2. (a \o b)[j] = b[i]
      BY <3>1, <1>6
    <3>3. z[j] = (a \o b)[j]
      BY <3>1, <1>3, <1>5, <1>6
    <3> HIDE DEF i
    <3>4. s[i] = r[j]
      BY <3>1, <1>2
    <3>5. Masked(b[i], s[i]) /\ (i \notin ps /\ i - 1 \notin ps => b[i] = s[i])
      BY <3>1, <1>4
    <3>6. Masked(z[j], r[j]) /\ (i \notin ps /\ i - 1 \notin ps => z[j] = r[j])
      BY <3>2, <3>3, <3>4, <3>5
    <3> QED BY <3>6 DEF i
  <2>3. CASE j > h + n
    <3> DEFINE i == j - (h + n)
    <3>1. i \in 1..(Len(r) - (h + n)) /\ h + n + i = j
      BY <2>3, <2>0, <1>0
    <3>2. z[j] = d[i]
      BY <2>3, <2>0, <1>0, <1>3, <1>5, <1>6
    <3> HIDE DEF i
    <3>3. d[i] = r[j]
      BY <3>1, <1>3
    <3> QED BY <3>2, <3>3, <2>0
  <2> QED BY <2>0, <2>1, <2>2, <2>3
<1>9. \A j \in 1..Len(r) : Masked(z[j], r[j])
  BY <1>8
<1>10. \A j \in 1..Len(r) : j > h /\ j - h \notin ps /\ j - h - 1 \notin ps => z[j] = r[j]
  BY <1>8
<1> QED BY <1>7, <1>9, <1>10 DEF z

-----------------------------------------------------------------------------
(* The invariant.  k is the number of frames that were handed on.            *)

\* What the relay sends, what of it was copied into the buffer, and where frame
\* k + 1 begins.
Wired == Wire(conn, sent)
Copied == fed - Len(given)
Begin(k) == Upto(sent, k)

\* TypeOK, and what the sequences and the callback's last piece are made of.
Types ==
  /\ TypeOK
  /\ given \in Seq(Cell)
  /\ raw \in Seq(Cell)
  /\ got \in [conn : Nat, frame : Nat, from : Int, upto : Int, eof : BOOLEAN]

\* What the tunnel has read and the parser has not copied.
Reading ==
  /\ fed <= Len(Wired) /\ Len(given) <= fed
  /\ given = SubSeq(Wired, Copied + 1, fed)
  /\ pc = "idle" => given = <<>>
  /\ pc = "copy" => given # <<>>

\* A tunnel is broken for a malformed frame, and nothing more is read.
Breaks ==
  broken => /\ pc = "idle"
            /\ \E i \in 1..Len(sent) : sent[i].ok # "yes" /\ Upto(sent, i - 1) < fed

\* The callback has got frame k to its end.
GotAll(k) == got.frame = k /\ (k > 0 => got.conn = conn /\ got.upto = sent[k].data)

\* Behind its first n cells the buffer holds what was copied from byte b on.
Behind(n, b) ==
  /\ Len(raw) = n + (Copied - b)
  /\ \A j \in 1..Len(raw) : j > n => raw[j] = Wired[b + (j - n)]

\* Frame k + 1 has not arrived whole, and there is room for more of it.
Short(k) == k < Len(sent) /\ sent[k + 1].ok = "yes" =>
              Len(raw) < LenOf(sent[k + 1]) /\ Len(raw) < Cap

\* The first k frames are well formed.
Whole(k) == \A i \in 1..k : sent[i].ok = "yes"

\* Nothing of frame k + 1 was looked at.
Fresh(k) ==
  /\ frame = NoFrame /\ chunk = NoChunk
  /\ pc # "callback"
  /\ Behind(0, Begin(k))
  /\ GotAll(k)
  /\ pc # "parse" => Short(k)

\* Its first line was.
Headed(k) ==
  /\ k < Len(sent) /\ sent[k + 1].ok \in {"yes", "bad_chunk"}
  /\ frame = [len |-> Len(ChunkOf(sent[k + 1])), hdr |-> 3] /\ chunk = NoChunk
  /\ pc # "callback"
  /\ Len(raw) = Copied - Begin(k) /\ Len(raw) >= 3
  /\ \A j \in 1..Len(raw) : Masked(raw[j], Wired[Begin(k) + j])
  /\ sent[k + 1].ok = "yes" =>
       \A j \in 1..Len(raw) : j > 3 => raw[j] = Wired[Begin(k) + j]
  /\ GotAll(k)
  /\ pc # "parse" => Short(k)

\* It is malformed, and what was found to be was dropped.
Stuck(k) ==
  /\ k < Len(sent) /\ sent[k + 1].ok \in {"bad_frame", "no_line"}
  /\ Len(raw) >= 1 /\ raw[1].kind = "text" /\ raw[1].of = sent[k + 1]
  /\ frame.len < 0 /\ chunk = NoChunk
  /\ pc # "callback"
  /\ Begin(k) < Copied
  /\ GotAll(k)

\* The callback got o bytes of it before this piece.
InPieces(k, o) ==
  /\ k < Len(sent) /\ sent[k + 1].ok = "yes"
  /\ Len(raw) >= 8
  /\ raw[8].conn = conn /\ raw[8].frame = k + 1 /\ raw[8].of = sent[k + 1]
  /\ Behind(8, Begin(k) + 8 + o)
  /\ chunk.data = 8 /\ chunk.total = sent[k + 1].data
  /\ frame = [len |-> 5 + sent[k + 1].data - o, hdr |-> 3]
  /\ got.frame = k + 1 /\ got.conn = conn /\ got.upto = chunk.offset

\* The next piece has not been given yet.
Pieces(k, o) ==
  /\ InPieces(k, o)
  /\ chunk.offset = o /\ o < sent[k + 1].data
  /\ pc # "callback"
  /\ pc = "parse" => new = Len(raw) - 8 /\ new > 0
  /\ pc # "parse" => Len(raw) = 8

\* It is being given.
Calling(k, o) ==
  /\ InPieces(k, o)
  /\ pc = "callback"
  /\ chunk.offset = o + call.len /\ chunk.offset <= sent[k + 1].data
  /\ call.len >= 0
  /\ call.wanted = frame.len + 3
  /\ Len(raw) >= 8 + call.len
  /\ call.frag => chunk.offset < sent[k + 1].data
  /\ chunk.offset < sent[k + 1].data => call.len >= 1 /\ Len(raw) = 8 + call.len

\* Where the parser is in frame k + 1.
At(k) ==
  \/ Fresh(k)
  \/ Headed(k)
  \/ Stuck(k)
  \/ \E o \in Nat : Pieces(k, o) \/ Calling(k, o)

Midway == \E k \in 0..Len(sent) : Whole(k) /\ At(k)

IInv ==
  /\ Types
  /\ BufferAccounted
  /\ Reading
  /\ Breaks
  /\ ~broken => Midway

\* The bytes from b on are those of f, the frame of number n of connection c.
Framed(w, b, f, c, n) ==
  /\ f \in Shapes /\ f.data \in Nat /\ LenOf(f) \in Nat /\ b \in Nat
  /\ b + LenOf(f) <= Len(w)
  /\ \A q \in 1..Len(w) : q > b /\ q <= b + LenOf(f) =>
        w[q].conn = c /\ w[q].frame = n /\ w[q].of = f
  /\ f.ok = "yes" =>
       /\ LenOf(f) = 8 + f.data /\ Len(ChunkOf(f)) = 5 + f.data
       /\ w[b + 1].kind = "num" /\ w[b + 2].kind = "cr" /\ w[b + 3].kind = "lf"
       /\ w[b + 4].kind = "text" /\ w[b + 5].kind = "cr" /\ w[b + 6].kind = "lf"
       /\ w[b + 7].kind = "cr" /\ w[b + 8].kind = "lf"
       /\ \A q \in 1..Len(w) : q > b + 8 /\ q <= b + LenOf(f) =>
            w[q].kind = "data" /\ w[q].at = q - b - 8
  /\ f.ok = "bad_chunk" =>
       /\ LenOf(f) = 3 + Len(ChunkOf(f)) /\ Len(ChunkOf(f)) = 3 + f.data
       /\ w[b + 1].kind = "num" /\ w[b + 2].kind = "cr" /\ w[b + 3].kind = "lf"
       /\ \A q \in 1..Len(w) : q > b + 3 /\ q <= b + LenOf(f) /\ q # b + 5 =>
            w[q].kind # "cr"
  /\ f.ok \in {"bad_frame", "no_line"} => LenOf(f) >= 1 /\ w[b + 1].kind = "text"

\* g are bytes of f, sent as frame i of connection c.
FrameCells(g, c, i, f) ==
  /\ LenOf(f) \in Nat
  /\ \A p \in 1..LenOf(f) : g[p].conn = c /\ g[p].frame = i /\ g[p].of = f

\* The bytes of a frame, before it is sent.
LEMMA FrameCellsAre ==
  ASSUME NEW c \in Nat, NEW i \in Nat, NEW f \in Shapes
  PROVE  /\ FrameCells(Cells(c, i, f), c, i, f)
         /\ f.ok = "yes" => GoodFrame(Cells(c, i, f), f)
         /\ f.ok = "bad_chunk" => BadChunkFrame(Cells(c, i, f), f)
<1>1. FrameCells(Cells(c, i, f), c, i, f)
  <2>1. /\ LenOf(f) \in Nat
        /\ \A p \in 1..LenOf(f) : /\ Cells(c, i, f)[p].conn = c /\ Cells(c, i, f)[p].frame = i
                                 /\ Cells(c, i, f)[p].of = f
    BY CellsAre
  <2> QED BY <2>1 DEF FrameCells
<1>2. ASSUME f.ok = "yes" PROVE GoodFrame(Cells(c, i, f), f)
  BY <1>2, GoodCells
<1>3. ASSUME f.ok = "bad_chunk" PROVE BadChunkFrame(Cells(c, i, f), f)
  BY <1>3, BadChunkCells
<1> QED BY <1>1, <1>2, <1>3

\* The frame behind the first k is at its place on the wire.
LEMMA FrameIs ==
  ASSUME NEW c \in Nat, NEW s \in Seq(Shapes), NEW k \in Nat, k < Len(s)
  PROVE  /\ Framed(Wire(c, s), Upto(s, k), s[k + 1], c, k + 1)
         /\ Upto(s, k + 1) = Upto(s, k) + LenOf(s[k + 1])
<1> DEFINE n == k + 1
           f == s[n]
           b == Upto(s, k)
           w == Wire(c, s)
           g == Cells(c, n, f)
<1>1. n \in 1..Len(s) /\ n \in Nat /\ f \in Shapes /\ n - 1 = k /\ k \in 0..Len(s) /\ n \in 0..Len(s)
  OBVIOUS
<1>2. /\ w \in Seq(Cell) /\ b \in Nat
      /\ Upto(s, n) = Upto(s, n - 1) + LenOf(f) /\ Upto(s, n) <= Len(w)
      /\ \A p \in 1..LenOf(f) : w[Upto(s, n - 1) + p] = g[p]
  <2> HIDE DEF n
  <2> QED BY <1>1, WireIs
<1>3. /\ f.data \in Nat /\ LenOf(f) \in Nat
      /\ \A p \in 1..LenOf(f) : g[p].conn = c /\ g[p].frame = n /\ g[p].of = f
  <2> HIDE DEF n, f
  <2>1. FrameCells(g, c, n, f) /\ f.data \in Nat
    BY <1>1, FrameCellsAre, ShapesAre
  <2> HIDE DEF g
  <2> QED BY <2>1 DEF FrameCells
<1>4. Upto(s, n) = b + LenOf(f) /\ \A p \in 1..LenOf(f) : w[b + p] = g[p]
  BY <1>1, <1>2
<1>5. f.ok = "yes" =>
         /\ LenOf(f) = 8 + f.data /\ Len(ChunkOf(f)) = 5 + f.data
         /\ g[1].kind = "num" /\ g[2].kind = "cr" /\ g[3].kind = "lf"
         /\ g[4].kind = "text" /\ g[5].kind = "cr" /\ g[6].kind = "lf"
         /\ g[7].kind = "cr" /\ g[8].kind = "lf"
         /\ \A p \in 1..LenOf(f) : p > 8 => g[p].kind = "data" /\ g[p].at = p - 8
  <2> HIDE DEF n, f
  <2>1. f.ok = "yes" => GoodFrame(g, f)
    BY <1>1, FrameCellsAre
  <2> HIDE DEF g
  <2> QED BY <2>1 DEF GoodFrame
<1>6. f.ok = "bad_chunk" =>
         /\ LenOf(f) = 3 + Len(ChunkOf(f)) /\ Len(ChunkOf(f)) = 3 + f.data
         /\ g[1].kind = "num" /\ g[2].kind = "cr" /\ g[3].kind = "lf"
         /\ \A p \in 1..LenOf(f) : p > 3 /\ p # 5 => g[p].kind # "cr"
  <2> HIDE DEF n, f
  <2>1. f.ok = "bad_chunk" => BadChunkFrame(g, f)
    BY <1>1, FrameCellsAre
  <2> HIDE DEF g
  <2> QED BY <2>1 DEF BadChunkFrame
<1>7. f.ok \in {"bad_frame", "no_line"} => LenOf(f) >= 1 /\ g[1].kind = "text"
  <2> HIDE DEF n, f
  <2> QED BY <1>1, BadFrameCells
<1> HIDE DEF n, f, b, w, g
<1>8. b + LenOf(f) <= Len(w)
  BY <1>2, <1>4
<1>9. ASSUME NEW q \in 1..Len(w), q > b, q <= b + LenOf(f)
      PROVE  q - b \in 1..LenOf(f) /\ w[q] = g[q - b]
  <2>1. q - b \in 1..LenOf(f) /\ b + (q - b) = q
    BY <1>2, <1>3, <1>9
  <2> QED BY <2>1, <1>4
<1>10. \A q \in 1..Len(w) : q > b /\ q <= b + LenOf(f) =>
         w[q].conn = c /\ w[q].frame = n /\ w[q].of = f
  BY <1>3, <1>9
<1>11. ASSUME f.ok = "yes"
       PROVE  /\ w[b + 1].kind = "num" /\ w[b + 2].kind = "cr" /\ w[b + 3].kind = "lf"
              /\ w[b + 4].kind = "text" /\ w[b + 5].kind = "cr" /\ w[b + 6].kind = "lf"
              /\ w[b + 7].kind = "cr" /\ w[b + 8].kind = "lf"
              /\ \A q \in 1..Len(w) : q > b + 8 /\ q <= b + LenOf(f) =>
                    w[q].kind = "data" /\ w[q].at = q - b - 8
  <2>1. /\ 1 \in 1..LenOf(f) /\ 2 \in 1..LenOf(f) /\ 3 \in 1..LenOf(f) /\ 4 \in 1..LenOf(f)
        /\ 5 \in 1..LenOf(f) /\ 6 \in 1..LenOf(f) /\ 7 \in 1..LenOf(f) /\ 8 \in 1..LenOf(f)
    BY <1>3, <1>5, <1>11
  <2>2. \A q \in 1..Len(w) : q > b + 8 /\ q <= b + LenOf(f) =>
                    w[q].kind = "data" /\ w[q].at = q - b - 8
    <3> SUFFICES ASSUME NEW q \in 1..Len(w), q > b + 8, q <= b + LenOf(f)
                 PROVE  w[q].kind = "data" /\ w[q].at = q - b - 8
      OBVIOUS
    <3>1. q > b /\ q - b > 8
      BY <1>2
    <3>2. q - b \in 1..LenOf(f) /\ w[q] = g[q - b]
      BY <3>1, <1>9
    <3> QED BY <3>1, <3>2, <1>5, <1>11
  <2> QED BY <2>1, <2>2, <1>4, <1>5, <1>11
<1>12. ASSUME f.ok = "bad_chunk"
       PROVE  /\ w[b + 1].kind = "num" /\ w[b + 2].kind = "cr" /\ w[b + 3].kind = "lf"
              /\ \A q \in 1..Len(w) : q > b + 3 /\ q <= b + LenOf(f) /\ q # b + 5 =>
                    w[q].kind # "cr"
  <2>1. 1 \in 1..LenOf(f) /\ 2 \in 1..LenOf(f) /\ 3 \in 1..LenOf(f)
    BY <1>3, <1>6, <1>12
  <2>2. \A q \in 1..Len(w) : q > b + 3 /\ q <= b + LenOf(f) /\ q # b + 5 => w[q].kind # "cr"
    <3> SUFFICES ASSUME NEW q \in 1..Len(w), q > b + 3, q <= b + LenOf(f), q # b + 5
                 PROVE  w[q].kind # "cr"
      OBVIOUS
    <3>1. q > b /\ q - b > 3 /\ q - b # 5
      BY <1>2
    <3>2. q - b \in 1..LenOf(f) /\ w[q] = g[q - b]
      BY <3>1, <1>9
    <3> QED BY <3>1, <3>2, <1>6, <1>12
  <2> QED BY <2>1, <2>2, <1>4, <1>6, <1>12
<1>13. f.ok \in {"bad_frame", "no_line"} => LenOf(f) >= 1 /\ w[b + 1].kind = "text"
  <2> SUFFICES ASSUME f.ok \in {"bad_frame", "no_line"}
               PROVE  LenOf(f) >= 1 /\ w[b + 1].kind = "text"
    OBVIOUS
  <2>1. 1 \in 1..LenOf(f)
    BY <1>3, <1>7
  <2> QED BY <2>1, <1>4, <1>7
<1>14. Framed(w, b, f, c, n)
  BY <1>1, <1>2, <1>3, <1>5, <1>6, <1>8, <1>10, <1>11, <1>12, <1>13 DEF Framed
<1> QED BY <1>4, <1>14 DEF n, f, b, w

-----------------------------------------------------------------------------
(* The steps that do not parse.                                              *)

\* What the callback has read, and what of it was copied.
LEMMA Now ==
  ASSUME Types, Reading
  PROVE  /\ conn \in Nat /\ sent \in Seq(Shapes) /\ fed \in Nat
         /\ Len(sent) \in Nat
         /\ Wired \in Seq(Cell) /\ Len(Wired) = Begin(Len(sent))
         /\ Copied \in Nat /\ Copied <= Len(Wired) /\ fed = Copied + Len(given)
         /\ fed <= Len(Wired) /\ Len(given) \in Nat /\ Len(raw) \in Nat
         /\ \A j \in 1..Len(given) : given[j] = Wired[Copied + j]
<1>1. conn \in Nat /\ sent \in Seq(Shapes) /\ fed \in Nat
  BY DEF Types, TypeOK
<1>2. Len(sent) \in Nat
  BY <1>1
<1>3. Wired \in Seq(Cell) /\ Len(Wired) = Begin(Len(sent))
  BY <1>1, WireIs DEF Wired, Begin
<1>4. given \in Seq(Cell) /\ raw \in Seq(Cell) /\ Len(given) \in Nat /\ Len(raw) \in Nat
  BY DEF Types
<1>5. /\ fed <= Len(Wired) /\ Len(given) <= fed
      /\ given = SubSeq(Wired, Copied + 1, fed)
  BY DEF Reading
<1>6. Copied \in Nat /\ fed = Copied + Len(given)
  BY <1>1, <1>4, <1>5 DEF Copied
<1>7. Copied <= Len(Wired)
  BY <1>4, <1>5, <1>6, <1>3
<1>8. \A j \in 1..Len(given) : given[j] = Wired[Copied + j]
  <2> HIDE DEF Wired, Copied
  <2> TAKE j \in 1..Len(given)
  <2>1. SubSeq(Wired, Copied + 1, fed)[j] = Wired[Copied + j]
    BY <1>3, <1>4, <1>5, <1>6
  <2> QED BY <2>1, <1>5
<1> QED BY <1>1, <1>2, <1>3, <1>4, <1>5, <1>6, <1>7, <1>8

\* Frame k + 1 is behind the first k, if there is one.
LEMMA Place ==
  ASSUME Types, Reading, NEW k \in 0..Len(sent)
  PROVE  /\ k \in Nat /\ Begin(k) \in Nat /\ Begin(k) <= Len(Wired)
         /\ k < Len(sent) =>
              /\ Framed(Wired, Begin(k), sent[k + 1], conn, k + 1)
              /\ Begin(k + 1) = Begin(k) + LenOf(sent[k + 1])
              /\ k + 1 \in 0..Len(sent)
         /\ ~(k < Len(sent)) => k = Len(sent) /\ Begin(k) = Len(Wired)
<1>1. conn \in Nat /\ sent \in Seq(Shapes) /\ Len(sent) \in Nat /\ Len(Wired) = Begin(Len(sent))
  BY Now
<1>2. k \in Nat
  OBVIOUS
<1>3. Begin(k) \in Nat /\ Begin(k) <= Len(Wired)
  BY <1>1, WireIs DEF Begin, Wired
<1>4. k < Len(sent) =>
              /\ Framed(Wired, Begin(k), sent[k + 1], conn, k + 1)
              /\ Begin(k + 1) = Begin(k) + LenOf(sent[k + 1])
  BY <1>1, <1>2, FrameIs DEF Begin, Wired
<1>5. k < Len(sent) => k + 1 \in 0..Len(sent)
  BY <1>1
<1>6. ~(k < Len(sent)) => k = Len(sent)
  BY <1>1
<1> QED BY <1>1, <1>2, <1>3, <1>4, <1>5, <1>6

\* Initially the parser waits for the first frame.
LEMMA Begins ==
  ASSUME Init, ~Yielding
  PROVE  IInv
<1>1. MaxFrames \in Nat /\ Cap \in Nat /\ Cap > 8
  BY ParserBounds, HeadersFit
<1>2. sent \in Seq(Shapes) /\ Len(sent) \in Nat
  BY <1>1 DEF Init, Sendings
<1>3. fed = 0 /\ given = <<>> /\ raw = <<>> /\ pc = "idle" /\ Len(given) = 0 /\ Len(raw) = 0
  BY DEF Init
<1>4. Types
  <2>1. TypeOK
    <3>1. frame \in [len : Int, hdr : Int] /\ chunk \in [data : Nat, offset : Int, total : Int]
      BY DEF Init, NoFrame, NoChunk
    <3>2. call \in [frag : BOOLEAN, wanted : Int, len : Int]
      BY DEF Init, NoCall
    <3>3. conn \in Nat /\ fed \in Nat /\ new \in Nat /\ nested \in BOOLEAN /\ broken \in BOOLEAN
      BY DEF Init
    <3>4. pc \in {"idle", "copy", "parse", "callback"} /\ left \in Int
      BY <1>1 DEF Init
    <3> QED BY <1>2, <3>1, <3>2, <3>3, <3>4 DEF TypeOK
  <2>2. got \in [conn : Nat, frame : Nat, from : Int, upto : Int, eof : BOOLEAN]
    BY DEF Init, Nothing
  <2>3. given \in Seq(Cell) /\ raw \in Seq(Cell)
    BY <1>3
  <2> QED BY <2>1, <2>2, <2>3 DEF Types
<1>5. BufferAccounted
  BY <1>1 DEF Init, BufferAccounted
<1>6. conn \in Nat
  BY <1>4 DEF Types, TypeOK
<1>7. Wired \in Seq(Cell) /\ Begin(0) = 0
  BY <1>2, <1>6, WireIs DEF Wired, Begin
<1>8. Copied = 0
  <2>1. fed - Len(given) = 0
    <3>1. fed = 0 /\ Len(given) = 0
      BY <1>3
    <3> QED BY ONLY <3>1
  <2> QED BY <2>1 DEF Copied
<1>9. Reading
  <2>1. SubSeq(Wired, 1, 0) = <<>>
    BY <1>7
  <2>2. 0 <= Len(Wired)
    BY <1>7
  <2> QED BY <1>3, <1>8, <2>1, <2>2 DEF Reading
<1>10. ~broken
  BY DEF Init
<1>11. Fresh(0)
  <2>1. GotAll(0)
    BY DEF Init, GotAll, Nothing
  <2>2. Behind(0, Begin(0))
    BY <1>3, <1>7, <1>8 DEF Behind
  <2>3. Short(0)
    <3>1. 0 < Len(sent) => sent[1] \in Shapes
      BY <1>2
    <3>2. 0 < Len(sent) /\ sent[1].ok = "yes" => LenOf(sent[1]) = 8 + sent[1].data /\ sent[1].data \in Nat
      <4> SUFFICES ASSUME 0 < Len(sent), sent[1].ok = "yes"
                   PROVE  LenOf(sent[1]) = 8 + sent[1].data /\ sent[1].data \in Nat
        OBVIOUS
      <4> DEFINE f == sent[1]
      <4>1. f \in Shapes /\ f.ok = "yes"
        BY <3>1
      <4> HIDE DEF f
      <4>2. GoodFrame(Cells(1, 1, f), f) /\ f.data \in Nat
        BY <4>1, GoodCells, ShapesAre
      <4> QED BY <4>2 DEF GoodFrame, f
    <3> QED BY <1>1, <1>3, <3>2 DEF Short
  <2> QED BY <1>3, <2>1, <2>2, <2>3 DEF Fresh, Init
<1>12. Whole(0)
  BY DEF Whole
<1>13. 0 \in 0..Len(sent)
  BY <1>2
<1>14. Midway
  BY <1>11, <1>12, <1>13 DEF Midway, At
<1> QED BY <1>4, <1>5, <1>9, <1>10, <1>14 DEF IInv, Breaks

\* pkm_tunnel_readable_cb.
LEMMA Reads ==
  ASSUME IInv, NEW n \in 1..MaxRead, Readable(n)
  PROVE  IInv'
<1> USE DEF IInv
<1>1. /\ pc = "idle" /\ ~broken /\ n > 0 /\ fed + n <= Len(Wired)
      /\ given' = SubSeq(Wired, fed + 1, fed + n) /\ fed' = fed + n /\ pc' = "copy"
      /\ UNCHANGED <<conn, sent, new, nested, call, got, broken>>
      /\ UNCHANGED <<raw, left, frame, chunk>>
  BY DEF Readable, Wired, parser
<1>2. n \in Nat
  BY ParserBounds
<1>3. /\ conn \in Nat /\ sent \in Seq(Shapes) /\ fed \in Nat
      /\ Len(sent) \in Nat /\ Wired \in Seq(Cell) /\ Copied \in Nat
      /\ fed = Copied + Len(given)
  BY Now
<1>4. given = <<>> /\ Copied = fed
  <2>1. given = <<>> /\ Len(given) = 0
    BY <1>1 DEF Reading
  <2> QED BY <2>1, <1>3
<1>5. given' \in Seq(Cell) /\ Len(given') = n
  <2>1. Len(Wired) \in Nat
    BY <1>3
  <2> HIDE DEF Wired
  <2> QED BY <1>1, <1>2, <1>3, <2>1
<1>6. Wired' = Wired
  BY <1>1 DEF Wired
<1>7. Copied' = Copied
  BY <1>1, <1>2, <1>3, <1>4, <1>5 DEF Copied
<1>8. Types'
  <2>1. TypeOK
    BY DEF Types
  <2>2. TypeOK'
    BY <2>1, <1>1, <1>2, <1>3 DEF TypeOK
  <2> QED BY <2>2, <1>1, <1>5 DEF Types
<1>9. BufferAccounted'
  BY <1>1 DEF BufferAccounted
<1>10. Reading'
  <2>1. given' # <<>>
    <3>1. Len(given') > 0
      BY <1>1, <1>5
    <3>2. ASSUME given' = <<>> PROVE Len(given') = 0
      BY <3>2
    <3> QED BY <3>1, <3>2
  <2>2. Len(given') <= fed' /\ fed' <= Len(Wired)
    BY <1>1, <1>2, <1>3, <1>5
  <2> QED BY <1>1, <1>4, <1>6, <1>7, <2>1, <2>2 DEF Reading
<1>11. PICK k \in 0..Len(sent) : Whole(k) /\ At(k)
  BY <1>1 DEF Midway
<1>12. Whole(k)'
  BY <1>1, <1>11 DEF Whole
<1>13. At(k)'
  <2>1. CASE Fresh(k)
    BY <2>1, <1>1, <1>6, <1>7 DEF Fresh, At, Behind, Begin, GotAll, Short
  <2>2. CASE Headed(k)
    BY <2>2, <1>1, <1>6, <1>7 DEF Headed, At, Begin, GotAll, Short
  <2>3. CASE Stuck(k)
    BY <2>3, <1>1, <1>6, <1>7 DEF Stuck, At, Begin, GotAll
  <2>4. CASE \E o \in Nat : Pieces(k, o) \/ Calling(k, o)
    <3>1. PICK o \in Nat : Pieces(k, o) \/ Calling(k, o)
      BY <2>4
    <3>2. Pieces(k, o)
      BY <3>1, <1>1 DEF Calling
    <3>3. Pieces(k, o)'
      BY <3>2, <1>1, <1>6, <1>7 DEF Pieces, InPieces, Begin, Behind
    <3> QED BY <3>3 DEF At
  <2> QED BY <1>11, <2>1, <2>2, <2>3, <2>4 DEF At
<1>14. Midway'
  <2>1. k \in 0..Len(sent')
    BY <1>1
  <2> QED BY <2>1, <1>12, <1>13 DEF Midway
<1>15. Breaks'
  BY <1>1 DEF Breaks
<1> QED BY <1>8, <1>9, <1>10, <1>14, <1>15

\* A frame that keeps the parser from going on is malformed.
LEMMA BadAhead ==
  ASSUME IInv, NEW k \in 0..Len(sent), k < Len(sent), sent[k + 1].ok # "yes", Begin(k) < fed
  PROVE  \E i \in 1..Len(sent) : sent[i].ok # "yes" /\ Upto(sent, i - 1) < fed
<1>1. k + 1 \in 1..Len(sent) /\ (k + 1) - 1 = k
  <2>1. Len(sent) \in Nat
    BY Now DEF IInv
  <2> QED BY <2>1
<1> QED BY <1>1 DEF Begin

\* With a full buffer the frame in it is malformed.
LEMMA FullBuffer ==
  ASSUME IInv, ~broken, pc = "copy", left <= 0
  PROVE  /\ \E i \in 1..Len(sent) : sent[i].ok # "yes" /\ Upto(sent, i - 1) < fed
         /\ raw[1].of.ok # "yes"
<1> USE DEF IInv
<1>0. Cap \in Nat /\ Cap > 8
  BY ParserBounds, HeadersFit
<1>1. left \in Int /\ raw \in Seq(Cell)
  BY DEF Types, TypeOK
<1>2. Len(raw) >= Cap /\ Len(raw) \in Nat /\ Len(raw) > 8
  BY <1>0, <1>1 DEF BufferAccounted
<1>3. /\ conn \in Nat /\ sent \in Seq(Shapes) /\ fed \in Nat /\ Len(sent) \in Nat
      /\ Copied \in Nat /\ Copied <= Len(Wired) /\ fed = Copied + Len(given)
      /\ Len(given) \in Nat /\ Wired \in Seq(Cell)
  BY Now
<1>4. PICK k \in 0..Len(sent) : Whole(k) /\ At(k)
  BY DEF Midway
<1>5. /\ Begin(k) \in Nat
      /\ k < Len(sent) => Framed(Wired, Begin(k), sent[k + 1], conn, k + 1)
      /\ ~(k < Len(sent)) => Begin(k) = Len(Wired)
  BY Place
<1>6. k < Len(sent) /\ sent[k + 1].ok # "yes" /\ Begin(k) < Copied /\ raw[1].of = sent[k + 1]
  <2>1. CASE Fresh(k)
    <3>1. Len(raw) = Copied - Begin(k) /\ raw[1] = Wired[Begin(k) + 1]
      <4>1. Len(raw) = 0 + (Copied - Begin(k)) /\ (1 \in 1..Len(raw) => raw[1] = Wired[Begin(k) + (1 - 0)])
        BY <2>1 DEF Fresh, Behind
      <4> QED BY <4>1, <1>2, <1>3, <1>5
    <3>2. k < Len(sent) /\ Begin(k) < Copied
      BY <3>1, <1>2, <1>3, <1>5
    <3>3. sent[k + 1].ok # "yes"
      BY <2>1, <3>2, <1>0, <1>2 DEF Fresh, Short
    <3>4. Framed(Wired, Begin(k), sent[k + 1], conn, k + 1) /\ sent[k + 1].ok \in {"bad_frame", "bad_chunk", "no_line"}
      BY <3>2, <3>3, <1>5, ShapesAre DEF Framed
    <3>5. LenOf(sent[k + 1]) >= 1 /\ LenOf(sent[k + 1]) \in Nat
      <4>1. CASE sent[k + 1].ok = "bad_chunk"
        BY <3>4, <4>1 DEF Framed
      <4>2. CASE sent[k + 1].ok \in {"bad_frame", "no_line"}
        BY <3>4, <4>2 DEF Framed
      <4>3. sent[k + 1].ok = "bad_chunk" \/ sent[k + 1].ok \in {"bad_frame", "no_line"}
        BY <3>4
      <4> QED BY <4>1, <4>2, <4>3
    <3>6. Wired[Begin(k) + 1].of = sent[k + 1]
      <4>1. Begin(k) + 1 \in 1..Len(Wired) /\ Begin(k) + 1 <= Begin(k) + LenOf(sent[k + 1])
        BY <3>2, <3>5, <1>3, <1>5
      <4> DEFINE q == Begin(k) + 1
      <4>2. q \in 1..Len(Wired) /\ q > Begin(k) /\ q <= Begin(k) + LenOf(sent[k + 1])
        BY <4>1, <1>5
      <4> HIDE DEF q
      <4>3. Wired[q].of = sent[k + 1]
        BY <4>2, <3>4 DEF Framed
      <4> QED BY <4>3 DEF q
    <3> QED BY <3>1, <3>2, <3>3, <3>6
  <2>2. CASE Headed(k)
    <3>1. k < Len(sent) /\ Len(raw) = Copied - Begin(k) /\ raw[1].of = Wired[Begin(k) + 1].of
      <4>1. 1 \in 1..Len(raw)
        BY <1>2
      <4> QED BY <2>2, <4>1 DEF Headed, Masked
    <3>2. Begin(k) < Copied
      BY <3>1, <1>2, <1>3, <1>5
    <3>3. sent[k + 1].ok = "bad_chunk"
      BY <2>2, <3>1, <1>0, <1>2 DEF Headed, Short
    <3>4. Framed(Wired, Begin(k), sent[k + 1], conn, k + 1)
      BY <3>1, <1>5
    <3>5. LenOf(sent[k + 1]) >= 1 /\ LenOf(sent[k + 1]) \in Nat
      BY <3>3, <3>4 DEF Framed
    <3>6. Wired[Begin(k) + 1].of = sent[k + 1]
      <4> DEFINE q == Begin(k) + 1
      <4>2. q \in 1..Len(Wired) /\ q > Begin(k) /\ q <= Begin(k) + LenOf(sent[k + 1])
        BY <3>2, <3>5, <1>3, <1>5
      <4> HIDE DEF q
      <4>3. Wired[q].of = sent[k + 1]
        BY <4>2, <3>4 DEF Framed
      <4> QED BY <4>3 DEF q
    <3> QED BY <3>1, <3>2, <3>3, <3>6
  <2>3. CASE Stuck(k)
    BY <2>3 DEF Stuck
  <2>4. CASE \E o \in Nat : Pieces(k, o) \/ Calling(k, o)
    <3>1. PICK o \in Nat : Pieces(k, o) \/ Calling(k, o)
      BY <2>4
    <3>2. pc = "copy" /\ pc # "parse" /\ pc # "callback"
      OBVIOUS
    <3>3. ~Calling(k, o)
      BY <3>2 DEF Calling
    <3>4. ~Pieces(k, o)
      <4> SUFFICES ASSUME Pieces(k, o) PROVE FALSE
        OBVIOUS
      <4>1. Len(raw) = 8
        BY <3>2 DEF Pieces
      <4>2. Len(raw) > 8
        BY <1>2
      <4> QED BY <4>1, <4>2
    <3> QED BY <3>1, <3>3, <3>4
  <2> QED BY <1>4, <2>1, <2>2, <2>3, <2>4 DEF At
<1>7. Begin(k) < fed
  BY <1>3, <1>5, <1>6
<1> QED BY <1>6, <1>7, BadAhead

\* pk_parser_parse, with a full buffer: the frame is malformed.
LEMMA RunsOut ==
  ASSUME IInv, NoMemory
  PROVE  IInv'
<1> USE DEF IInv
<1>1. /\ pc = "copy" /\ left <= 0 /\ pc' = "idle" /\ given' = <<>> /\ broken' = TRUE
      /\ UNCHANGED <<conn, sent, fed, new, nested, call, got>>
      /\ UNCHANGED <<raw, left, frame, chunk>>
  BY DEF NoMemory, parser
<1>2. ~broken
  BY <1>1 DEF Breaks
<1>3. /\ fed \in Nat /\ Wired \in Seq(Cell) /\ fed <= Len(Wired)
  BY Now
<1>4. Wired' = Wired
  BY <1>1 DEF Wired
<1>5. Len(given') = 0 /\ Copied' = fed
  <2>1. Len(given') = 0
    BY <1>1
  <2> QED BY <2>1, <1>1, <1>3 DEF Copied
<1>6. Types'
  <2>1. TypeOK
    BY DEF Types
  <2>2. TypeOK'
    BY <2>1, <1>1 DEF TypeOK
  <2>3. given' \in Seq(Cell)
    BY <1>1
  <2> QED BY <2>2, <2>3, <1>1 DEF Types
<1>7. BufferAccounted'
  BY <1>1 DEF BufferAccounted
<1>8. Reading'
  <2>1. SubSeq(Wired, fed + 1, fed) = <<>>
    <3> HIDE DEF Wired
    <3> QED BY <1>3
  <2> QED BY <2>1, <1>1, <1>3, <1>4, <1>5 DEF Reading
<1>9. Breaks'
  BY <1>1, <1>2, FullBuffer DEF Breaks
<1> QED BY <1>1, <1>6, <1>7, <1>8, <1>9

\* pk_parser_parse, up to the call.
LEMMA Copies ==
  ASSUME IInv, Copy
  PROVE  IInv'
<1> USE DEF IInv
<1> DEFINE n == IF Len(given) > left THEN left ELSE Len(given)
<1>1. /\ pc = "copy" /\ left > 0
      /\ raw' = raw \o SubSeq(given, 1, n) /\ left' = left - n /\ new' = n
      /\ given' = SubSeq(given, n + 1, Len(given))
      /\ nested' = FALSE /\ pc' = "parse"
      /\ UNCHANGED <<conn, sent, fed, frame, chunk, call, got, broken>>
  BY DEF Copy
<1>2. /\ conn \in Nat /\ sent \in Seq(Shapes) /\ fed \in Nat
      /\ Len(sent) \in Nat /\ Wired \in Seq(Cell) /\ Copied \in Nat
      /\ fed = Copied + Len(given) /\ Len(given) \in Nat /\ Len(raw) \in Nat
      /\ fed <= Len(Wired)
      /\ \A j \in 1..Len(given) : given[j] = Wired[Copied + j]
  BY Now
<1>3. left \in Int /\ raw \in Seq(Cell) /\ given \in Seq(Cell) /\ TypeOK
  BY DEF Types, TypeOK
<1>4. Len(given) > 0
  <2>1. given # <<>>
    BY <1>1 DEF Reading
  <2> QED BY <2>1, <1>3
<1>5. n \in Nat /\ n >= 1 /\ n <= Len(given) /\ n <= left
  BY <1>1, <1>2, <1>3, <1>4
<1> HIDE DEF n
<1>6. given' \in Seq(Cell) /\ Len(given') = Len(given) - n
  <2>1. given' = SubSeq(given, n + 1, Len(given)) /\ given \in Seq(Cell)
        /\ n \in Nat /\ n <= Len(given)
    BY <1>1, <1>3, <1>5
  <2> QED BY ONLY <2>1
<1>7. /\ raw' \in Seq(Cell) /\ Len(raw') = Len(raw) + n
      /\ \A j \in 1..Len(raw) : raw'[j] = raw[j]
      /\ \A j \in 1..Len(raw') : j > Len(raw) => raw'[j] = given[j - Len(raw)]
  <2> DEFINE g == SubSeq(given, 1, n)
  <2>1. g \in Seq(Cell) /\ Len(g) = n /\ \A j \in 1..n : g[j] = given[j]
    BY <1>2, <1>3, <1>5
  <2>2. raw' = raw \o g
    BY <1>1
  <2> HIDE DEF g
  <2>3. raw' \in Seq(Cell) /\ Len(raw') = Len(raw) + n
    <3>1. Len(raw \o g) = Len(raw) + n
      BY <2>1, <1>3, Concat
    <3>2. raw \o g \in Seq(Cell)
      BY <2>1, <1>3
    <3> QED BY <3>1, <3>2, <2>2
  <2>4. \A j \in 1..Len(raw) : raw'[j] = raw[j]
    BY <2>1, <2>2, <1>3
  <2>5. ASSUME NEW j \in 1..Len(raw'), j > Len(raw) PROVE raw'[j] = given[j - Len(raw)]
    <3>1. j - Len(raw) \in 1..n
      BY <2>3, <2>5, <1>2, <1>5
    <3>2. raw'[j] = g[j - Len(raw)]
      BY <2>1, <2>2, <2>3, <2>5, <1>2, <1>3, <1>5
    <3> QED BY <3>1, <3>2, <2>1
  <2> QED BY <2>3, <2>4, <2>5
<1>8. Wired' = Wired
  BY <1>1 DEF Wired
<1>9. Copied' = Copied + n
  <2>1. Copied' = fed' - Len(given') /\ Copied = fed - Len(given)
    BY DEF Copied
  <2>2. fed' = fed /\ Len(given') = Len(given) - n
    BY <1>1, <1>6
  <2> HIDE DEF Copied
  <2> QED BY <2>1, <2>2, <1>2, <1>5
<1>10. Types'
  <2>2. TypeOK'
    <3>1. left - n \in Int
      BY <1>3, <1>5
    <3> QED BY <3>1, <1>1, <1>2, <1>3, <1>5 DEF TypeOK
  <2> QED BY <2>2, <1>1, <1>6, <1>7 DEF Types
<1>11. BufferAccounted'
  <2>1. left >= 0 /\ left + Len(raw) = Cap /\ left' = left - n /\ Len(raw') = Len(raw) + n
    BY <1>1, <1>7 DEF BufferAccounted
  <2>2. left - n >= 0 /\ (left - n) + (Len(raw) + n) = left + Len(raw)
    BY <1>2, <1>3, <1>5
  <2> QED BY <2>1, <2>2 DEF BufferAccounted
<1>12. Reading'
  <2>1. SubSeq(given, n + 1, Len(given)) = SubSeq(Wired, (Copied + n) + 1, fed)
    <3> DEFINE a == SubSeq(given, n + 1, Len(given))
               b == SubSeq(Wired, (Copied + n) + 1, fed)
    <3>1. a \in Seq(Cell) /\ Len(a) = Len(given) - n
      BY <1>2, <1>3, <1>5
    <3>2. b \in Seq(Cell) /\ Len(b) = Len(given) - n
      <4> HIDE DEF Wired, Copied
      <4> QED BY <1>2, <1>5
    <3>3. ASSUME NEW j \in 1..(Len(given) - n) PROVE a[j] = b[j]
      <4>1. n + j \in 1..Len(given)
        BY <1>2, <1>5
      <4>2. a[j] = given[n + j]
        BY <1>2, <1>3, <1>5
      <4>3. b[j] = Wired[(Copied + n) + j]
        <5> HIDE DEF Wired, Copied
        <5> QED BY <1>2, <1>5
      <4>4. given[n + j] = Wired[Copied + (n + j)]
        BY <4>1, <1>2
      <4>5. Copied + (n + j) = (Copied + n) + j
        BY <1>2, <1>5
      <4> QED BY <4>2, <4>3, <4>4, <4>5
    <3> HIDE DEF a, b
    <3>4. a = b
      BY <3>1, <3>2, <3>3
    <3> QED BY <3>4 DEF a, b
  <2>2. Len(given') <= fed'
    BY <1>1, <1>2, <1>5, <1>6, SMTT(20)
  <2> QED BY <2>1, <2>2, <1>1, <1>2, <1>8, <1>9 DEF Reading
<1>13. ~broken /\ ~broken'
  BY <1>1 DEF Breaks
<1>14. Breaks'
  BY <1>13 DEF Breaks
<1>15. PICK k \in 0..Len(sent) : Whole(k) /\ At(k)
  BY <1>13 DEF Midway
<1>16. Whole(k)' /\ k \in 0..Len(sent')
  BY <1>1, <1>15 DEF Whole
<1>17. k \in Nat /\ Begin(k) \in Nat
  BY Place
<1>18. ASSUME NEW m \in Nat, NEW b \in Nat, Len(raw) = m + (Copied - b),
              NEW j \in 1..Len(raw'), j > Len(raw)
       PROVE  raw'[j] = Wired[b + (j - m)]
  <2>1. j - Len(raw) \in 1..Len(given) /\ Copied + (j - Len(raw)) = b + (j - m)
    BY <1>2, <1>5, <1>7, <1>18
  <2> QED BY <2>1, <1>2, <1>7, <1>18
<1>19. ASSUME NEW m \in Nat, NEW b \in Nat, Behind(m, b)
       PROVE  /\ Len(raw') = m + (Copied' - b)
              /\ \A j \in 1..Len(raw') : j > m => raw'[j] = Wired'[b + (j - m)]
  <2>1. Len(raw) = m + (Copied - b) /\ \A j \in 1..Len(raw) : j > m => raw[j] = Wired[b + (j - m)]
    BY <1>19 DEF Behind
  <2>2. Len(raw') = m + (Copied' - b)
    BY <2>1, <1>2, <1>5, <1>7, <1>9
  <2>3. ASSUME NEW j \in 1..Len(raw'), j > m PROVE raw'[j] = Wired[b + (j - m)]
    <3>1. CASE j > Len(raw)
      BY <3>1, <2>1, <1>18
    <3>2. CASE ~(j > Len(raw))
      <4>1. j \in 1..Len(raw)
        BY <3>2, <1>2
      <4> QED BY <4>1, <2>1, <2>3, <1>7
    <3> QED BY <3>1, <3>2
  <2> QED BY <2>2, <2>3, <1>8
<1>20. At(k)'
  <2>1. CASE Fresh(k)
    <3>1. Behind(0, Begin(k))'
      <4>1. Behind(0, Begin(k))
        BY <2>1 DEF Fresh
      <4> DEFINE b == Begin(k)
      <4>2. b' = b
        BY <1>1 DEF Begin
      <4>3. b \in Nat /\ Behind(0, b)
        BY <4>1, <1>17
      <4> HIDE DEF b
      <4>4. /\ Len(raw') = 0 + (Copied' - b)
            /\ \A j \in 1..Len(raw') : j > 0 => raw'[j] = Wired'[b + (j - 0)]
        BY <4>3, <1>19
      <4>5. Behind(0, b)'
        BY <4>2, <4>4 DEF Behind
      <4> QED BY <4>5 DEF b
    <3> QED BY <2>1, <3>1, <1>1 DEF Fresh, At, GotAll
  <2>2. CASE Headed(k)
    <3>1. Len(raw) = Copied - Begin(k) /\ Len(raw) >= 3
      BY <2>2 DEF Headed
    <3>2. Len(raw') = Copied' - Begin(k) /\ Len(raw') >= 3
      BY <3>1, <1>2, <1>5, <1>7, <1>9, <1>17, SMTT(20)
    <3>3. ASSUME NEW j \in 1..Len(raw'), j > Len(raw) PROVE raw'[j] = Wired[Begin(k) + j]
      <4>1. Len(raw) = 0 + (Copied - Begin(k)) /\ Begin(k) + (j - 0) = Begin(k) + j
        BY <3>1, <1>2, <1>17
      <4>2. raw'[j] = Wired[Begin(k) + (j - 0)]
        BY <4>1, <3>3, <1>17, <1>18
      <4> QED BY <4>1, <4>2
    <3>4. ASSUME NEW j \in 1..Len(raw') PROVE Masked(raw'[j], Wired[Begin(k) + j])
      <4>1. CASE j > Len(raw)
        BY <4>1, <3>3 DEF Masked
      <4>2. CASE ~(j > Len(raw))
        <5>1. j \in 1..Len(raw)
          BY <4>2, <1>2
        <5> QED BY <5>1, <2>2, <1>7 DEF Headed
      <4> QED BY <4>1, <4>2
    <3>5. ASSUME sent[k + 1].ok = "yes", NEW j \in 1..Len(raw'), j > 3
          PROVE  raw'[j] = Wired[Begin(k) + j]
      <4>1. CASE j > Len(raw)
        BY <4>1, <3>3
      <4>2. CASE ~(j > Len(raw))
        <5>1. j \in 1..Len(raw)
          BY <4>2, <1>2
        <5> QED BY <5>1, <3>5, <2>2, <1>7 DEF Headed
      <4> QED BY <4>1, <4>2
    <3>6. Headed(k)'
      <4>1. Begin(k)' = Begin(k)
        BY <1>1 DEF Begin
      <4> QED BY <2>2, <3>2, <3>4, <3>5, <4>1, <1>1, <1>8 DEF Headed, GotAll
    <3> QED BY <3>6 DEF At
  <2>3. CASE Stuck(k)
    <3>1. raw'[1] = raw[1] /\ Len(raw') >= 1
      BY <2>3, <1>2, <1>5, <1>7 DEF Stuck
    <3>2. Begin(k)' < Copied'
      <4>1. Begin(k)' = Begin(k)
        BY <1>1 DEF Begin
      <4> QED BY <2>3, <4>1, <1>2, <1>5, <1>9, <1>17 DEF Stuck
    <3> QED BY <2>3, <3>1, <3>2, <1>1 DEF Stuck, At, GotAll
  <2>4. CASE \E o \in Nat : Pieces(k, o) \/ Calling(k, o)
    <3>1. PICK o \in Nat : Pieces(k, o)
      BY <2>4, <1>1 DEF Calling
    <3>2. Len(raw) = 8
      BY <3>1, <1>1 DEF Pieces
    <3> DEFINE b == Begin(k) + 8 + o
    <3>3. b \in Nat /\ Behind(8, b)
      BY <3>1, <1>17 DEF Pieces, InPieces
    <3>4. b' = b
      BY <1>1 DEF Begin
    <3> HIDE DEF b
    <3>5. /\ Len(raw') = 8 + (Copied' - b)
          /\ \A j \in 1..Len(raw') : j > 8 => raw'[j] = Wired'[b + (j - 8)]
      BY <3>3, <1>19
    <3>10. Behind(8, b)'
      BY <3>4, <3>5 DEF Behind
    <3>6. Behind(8, Begin(k) + 8 + o)'
      BY <3>10 DEF b
    <3>7. raw'[8] = raw[8] /\ Len(raw') >= 8 /\ new' = Len(raw') - 8 /\ new' > 0
      BY <3>2, <1>1, <1>5, <1>7
    <3>8. InPieces(k, o)'
      BY <3>1, <3>6, <3>7, <1>1 DEF Pieces, InPieces
    <3>9. Pieces(k, o)'
      BY <3>1, <3>7, <3>8, <1>1 DEF Pieces
    <3> QED BY <3>9 DEF At
  <2> QED BY <1>15, <2>1, <2>2, <2>3, <2>4 DEF At
<1>21. Midway'
  BY <1>16, <1>20 DEF Midway
<1> QED BY <1>10, <1>11, <1>12, <1>14, <1>21

\* The size of a well-formed frame.
LEMMA GoodSize ==
  ASSUME NEW f \in Shapes, f.ok = "yes"
  PROVE  LenOf(f) = 8 + f.data /\ f.data \in Nat /\ LenOf(f) > 0
<1>1. GoodFrame(Cells(1, 1, f), f) /\ f.data \in Nat
  BY GoodCells, ShapesAre
<1> QED BY <1>1 DEF GoodFrame

\* The end of a sequence.
LEMMA TailIs ==
  ASSUME NEW S, NEW s \in Seq(S), NEW a \in Nat, a <= Len(s)
  PROVE  /\ SubSeq(s, a + 1, Len(s)) \in Seq(S)
         /\ Len(SubSeq(s, a + 1, Len(s))) = Len(s) - a
         /\ \A j \in 1..(Len(s) - a) : SubSeq(s, a + 1, Len(s))[j] = s[a + j]
  OBVIOUS

\* pkm_reconnect_all, while the parser is idle.
LEMMA Connects ==
  ASSUME IInv, Reconnect, ~Yielding
  PROVE  IInv'
<1> USE DEF IInv
<1>1. /\ pc = "idle" /\ conn' = conn + 1 /\ sent' \in Sendings /\ fed' = 0
      /\ left' = left + Len(raw) - 0 /\ raw' = SubSeq(raw, Len(raw) - 0 + 1, Len(raw))
      /\ frame' = NoFrame /\ chunk' = NoChunk /\ broken' = FALSE
      /\ got' = [Nothing EXCEPT !.conn = conn + 1]
      /\ UNCHANGED <<pc, given, new, nested, call>>
  BY DEF Reconnect, Reset
<1>2. MaxFrames \in Nat /\ Cap \in Nat /\ Cap > 8
  BY ParserBounds, HeadersFit
<1>3. sent' \in Seq(Shapes) /\ Len(sent') \in Nat
  BY <1>1, <1>2 DEF Sendings
<1>4. TypeOK /\ raw \in Seq(Cell) /\ Len(raw) \in Nat /\ conn \in Nat /\ left \in Int
  BY DEF Types, TypeOK
<1>5. given' = <<>> /\ Len(given') = 0
  BY <1>1 DEF Reading
<1>6. raw' = <<>> /\ Len(raw') = 0
  <2>1. Len(raw) - 0 + 1 = Len(raw) + 1
    BY <1>4
  <2>2. SubSeq(raw, Len(raw) + 1, Len(raw)) = <<>>
    BY <1>4
  <2> QED BY <1>1, <2>1, <2>2
<1>7. Types'
  <2>1. TypeOK'
    <3>1. frame' \in [len : Int, hdr : Int] /\ chunk' \in [data : Nat, offset : Int, total : Int]
      BY <1>1 DEF NoFrame, NoChunk
    <3>2. call' \in [frag : BOOLEAN, wanted : Int, len : Int] /\ new' \in Nat /\ nested' \in BOOLEAN
          /\ pc' \in {"idle", "copy", "parse", "callback"}
      BY <1>1, <1>4 DEF TypeOK
    <3>3. conn' \in Nat /\ fed' \in Nat /\ left' \in Int /\ broken' \in BOOLEAN
      <4>1. conn + 1 \in Nat /\ left + Len(raw) - 0 \in Int
        BY <1>4
      <4> QED BY <4>1, <1>1
    <3> QED BY <1>3, <3>1, <3>2, <3>3 DEF TypeOK
  <2>2. got' \in [conn : Nat, frame : Nat, from : Int, upto : Int, eof : BOOLEAN]
    <3>1. got' = [conn |-> conn + 1, frame |-> 0, from |-> 0, upto |-> 0, eof |-> FALSE]
      BY <1>1 DEF Nothing
    <3>2. conn + 1 \in Nat
      BY <1>4
    <3> QED BY <3>1, <3>2
  <2>3. given' \in Seq(Cell) /\ raw' \in Seq(Cell)
    BY <1>5, <1>6
  <2> QED BY <2>1, <2>2, <2>3 DEF Types
<1>8. BufferAccounted'
  <2>1. left' = Cap
    BY <1>1, <1>2, <1>4 DEF BufferAccounted
  <2> QED BY <2>1, <1>2, <1>6 DEF BufferAccounted
<1>9. conn' \in Nat
  BY <1>1, <1>4
<1>10. Wired' \in Seq(Cell) /\ Begin(0)' = 0
  BY <1>3, <1>9, WireIs DEF Wired, Begin
<1>11. Copied' = 0
  <2>1. fed' - Len(given') = 0
    <3>1. fed' = 0 /\ Len(given') = 0
      BY <1>1, <1>5
    <3> QED BY ONLY <3>1
  <2> QED BY <2>1 DEF Copied
<1>12. Reading'
  <2>1. SubSeq(Wired', 0 + 1, 0) = <<>>
    BY <1>10
  <2>2. 0 <= Len(Wired')
    BY <1>10
  <2>3. given' = SubSeq(Wired', Copied' + 1, fed')
    BY <2>1, <1>1, <1>5, <1>11
  <2>4. Len(given') <= fed' /\ fed' <= Len(Wired')
    BY <2>2, <1>1, <1>5
  <2>5. pc' = "idle"
    BY <1>1
  <2> QED BY <2>3, <2>4, <2>5, <1>5 DEF Reading
<1>13. Fresh(0)'
  <2>1. GotAll(0)'
    BY <1>1 DEF GotAll, Nothing
  <2>2. Behind(0, Begin(0))'
    BY <1>6, <1>10, <1>11 DEF Behind
  <2>3. Short(0)'
    <3>1. ASSUME 0 < Len(sent'), sent'[1].ok = "yes" PROVE LenOf(sent'[1]) > 0
      <4> DEFINE f == sent'[1]
      <4>1. f \in Shapes /\ f.ok = "yes"
        BY <3>1, <1>3
      <4> HIDE DEF f
      <4>2. LenOf(f) > 0
        BY <4>1, GoodSize
      <4> QED BY <4>2 DEF f
    <3> QED BY <1>2, <1>6, <3>1 DEF Short
  <2> QED BY <1>1, <2>1, <2>2, <2>3 DEF Fresh
<1>14. Whole(0)'
  BY DEF Whole
<1>15. 0 \in 0..Len(sent')
  BY <1>3
<1>16. Midway'
  BY <1>13, <1>14, <1>15 DEF Midway, At
<1> QED BY <1>1, <1>7, <1>8, <1>12, <1>16 DEF Breaks

\* What pk_parser_parse_new_data does when the callback has returned.
LEMMA Returns ==
  ASSUME IInv, AfterCallback
  PROVE  IInv'
<1> USE DEF IInv
<1>1. /\ pc = "callback" /\ call' = NoCall
      /\ UNCHANGED <<conn, sent, fed, given, got, broken>>
  BY DEF AfterCallback
<1>2. /\ conn \in Nat /\ sent \in Seq(Shapes) /\ fed \in Nat
      /\ Len(sent) \in Nat /\ Wired \in Seq(Cell) /\ Copied \in Nat
      /\ Copied <= Len(Wired) /\ Len(raw) \in Nat
  BY Now
<1>3. TypeOK /\ raw \in Seq(Cell) /\ left \in Int /\ given \in Seq(Cell)
  BY DEF Types, TypeOK
<1>4. Cap \in Nat /\ Cap > 8 /\ left >= 0 /\ left + Len(raw) = Cap
  BY ParserBounds, HeadersFit DEF BufferAccounted
<1>5. ~broken /\ ~broken'
  BY <1>1 DEF Breaks
<1>6. PICK k \in 0..Len(sent) : Whole(k) /\ At(k)
  BY <1>5 DEF Midway
<1>7. PICK o \in Nat : Calling(k, o)
  BY <1>1, <1>6 DEF At, Fresh, Headed, Stuck, Pieces
<1> DEFINE f == sent[k + 1]
           b == Begin(k)
           l == call.len
           p == chunk.offset
<1>8. /\ k < Len(sent) /\ f.ok = "yes" /\ Len(raw) >= 8
      /\ raw[8].conn = conn /\ raw[8].frame = k + 1 /\ raw[8].of = f
      /\ chunk.data = 8 /\ chunk.total = f.data
      /\ frame = [len |-> 5 + f.data - o, hdr |-> 3]
      /\ got.frame = k + 1 /\ got.conn = conn /\ got.upto = p
  BY <1>7 DEF Calling, InPieces
<1>9. /\ Len(raw) = 8 + (Copied - (b + 8 + o))
      /\ \A j \in 1..Len(raw) : j > 8 => raw[j] = Wired[b + 8 + o + (j - 8)]
  BY <1>7 DEF Calling, InPieces, Behind
<1>10. /\ p = o + l /\ p <= f.data /\ l >= 0
       /\ call.wanted = frame.len + 3 /\ Len(raw) >= 8 + l
       /\ call.frag => p < f.data
       /\ p < f.data => l >= 1 /\ Len(raw) = 8 + l
  BY <1>7 DEF Calling
<1>11. /\ k \in Nat /\ b \in Nat /\ Framed(Wired, b, f, conn, k + 1)
       /\ Begin(k + 1) = b + LenOf(f) /\ k + 1 \in 0..Len(sent)
  BY <1>8, Place
<1>12. f \in Shapes /\ f.data \in Nat /\ LenOf(f) = 8 + f.data
  BY <1>8, <1>11 DEF Framed
<1>13. l \in Int /\ p \in Int /\ l \in Nat /\ p \in Nat
  <2>1. l \in Int /\ p \in Int
    BY <1>3 DEF TypeOK
  <2> QED BY <2>1, <1>10
<1>14. Wired' = Wired /\ Copied' = Copied /\ Begin(k)' = b /\ Begin(k + 1)' = Begin(k + 1)
       /\ k \in 0..Len(sent') /\ k + 1 \in 0..Len(sent')
  BY <1>1, <1>11 DEF Wired, Copied, Begin
<1>15. CASE call.frag \/ chunk.offset < chunk.total
  <2>1. /\ frame' = [frame EXCEPT !.len = @ - l]
        /\ raw' = SubSeq(raw, 1, Len(raw) - l) /\ left' = left + l
        /\ pc' = (IF given = <<>> THEN "idle" ELSE "copy")
        /\ UNCHANGED <<chunk, new, nested>>
    BY <1>15 DEF AfterCallback, PieceLength, Return
  <2>2. p < f.data /\ l >= 1 /\ Len(raw) = 8 + l
    BY <1>15, <1>8, <1>10
  <2>3. raw' \in Seq(Cell) /\ Len(raw') = 8 /\ raw'[8] = raw[8]
    <3>1. Len(raw) - l = 8
      BY <2>2, <1>13
    <3> HIDE DEF l
    <3> QED BY <2>1, <3>1, <1>3, <1>8, SMTT(20)
  <2>4. frame' = [len |-> 5 + f.data - p, hdr |-> 3]
    <3>1. frame' = [len |-> (5 + f.data - o) - l, hdr |-> 3]
      BY <2>1, <1>8
    <3>2. (5 + f.data - o) - l = 5 + f.data - p
      <4> HIDE DEF f, l, p
      <4> QED BY <1>10, <1>12, <1>13
    <3> QED BY <3>1, <3>2
  <2>5. pc' \in {"idle", "copy"}
    BY <2>1
  <2>6. Types'
    <3>1. frame' \in [len : Int, hdr : Int]
      <4>1. 5 + f.data - p \in Int
        BY <1>12, <1>13
      <4> QED BY <2>4, <4>1
    <3>2. call' \in [frag : BOOLEAN, wanted : Int, len : Int]
      BY <1>1 DEF NoCall
    <3>3. left' \in Int /\ pc' \in {"idle", "copy", "parse", "callback"}
      BY <2>1, <2>5, <1>3, <1>13
    <3>4. TypeOK'
      BY <3>1, <3>2, <3>3, <2>1, <1>1, <1>3 DEF TypeOK
    <3> QED BY <3>4, <2>3, <1>1 DEF Types
  <2>7. BufferAccounted'
    <3>1. left + l >= 0 /\ left + l + 8 = Cap
      BY <2>2, <1>3, <1>4, <1>13, SMTT(20)
    <3> QED BY <2>1, <2>3, <3>1 DEF BufferAccounted
  <2>8. Reading'
    <3>1. Reading
      OBVIOUS
    <3> QED BY <3>1, <2>1, <1>1, <1>14 DEF Reading
  <2>9. Behind(8, Begin(k) + 8 + p)'
    <3>1. 8 = 8 + (Copied - (b + 8 + p))
      <4> HIDE DEF f, l, p, b
      <4> QED BY <2>2, <1>2, <1>9, <1>10, <1>11, <1>13
    <3>2. p' = p
      BY <2>1
    <3> HIDE DEF p, b
    <3> QED BY <3>1, <3>2, <2>3, <1>14 DEF Behind
  <2>10. Pieces(k, p)'
    <3>1. InPieces(k, p)'
      BY <2>1, <2>3, <2>4, <2>9, <1>1, <1>8, SMTT(20) DEF InPieces
    <3> QED BY <3>1, <2>1, <2>2, <2>3, <2>5, <1>1 DEF Pieces
  <2>11. At(k)'
    <3>1. p' \in Nat
      BY <2>1, <1>13
    <3> HIDE DEF p
    <3> QED BY <2>10, <3>1 DEF At
  <2>12. Whole(k)'
    BY <1>1, <1>6 DEF Whole
  <2>13. Midway'
    BY <2>11, <2>12, <1>14 DEF Midway
  <2> QED BY <2>6, <2>7, <2>8, <2>13, <1>5 DEF Breaks
<1>16. CASE ~(call.frag \/ chunk.offset < chunk.total)
  <2> DEFINE n == Leftovers
  <2>1. p = f.data
    BY <1>16, <1>8, <1>10, <1>12, <1>13, SMTT(20)
  <2>2. n = Len(raw) - (8 + f.data - o) /\ n \in Nat /\ n = Copied - Begin(k + 1)
        /\ n <= Len(raw) /\ Len(raw) - n = 8 + l
    <3>1. call.wanted = 8 + f.data - o
      <4>1. frame.len = 5 + f.data - o
        BY <1>8
      <4> QED BY <4>1, <1>10, <1>12
    <3>2. n = Len(raw) - (8 + f.data - o)
      BY <3>1 DEF Leftovers
    <3>3. f.data - o = l
      BY <2>1, <1>10, <1>12, <1>13
    <3>4. Begin(k + 1) = b + 8 + f.data
      <4> HIDE DEF f, b
      <4> QED BY <1>11, <1>12
    <3> HIDE DEF f, l, p, b, n
    <3>5. Len(raw) - (8 + f.data - o) = Copied - (b + 8 + f.data)
      <4>1. Len(raw) = 8 + (Copied - (b + 8 + o))
        BY <1>9
      <4>2. Copied \in Nat /\ b \in Nat /\ f.data \in Nat /\ o \in Nat
        BY <1>2, <1>11, <1>12
      <4> QED BY ONLY <4>1, <4>2, SMTT(20)
    <3>6. n = Copied - Begin(k + 1)
      BY <3>2, <3>4, <3>5
    <3>7. n \in Nat /\ n <= Len(raw) /\ Len(raw) - n = 8 + l
      <4>1. n = Len(raw) - (8 + l)
        BY <3>2, <3>3, <1>12, <1>13, <1>2
      <4> QED BY <4>1, <1>10, <1>13, <1>2
    <3> QED BY <3>2, <3>6, <3>7
  <2>3. /\ left' = left + Len(raw) - n /\ raw' = SubSeq(raw, Len(raw) - n + 1, Len(raw))
        /\ frame' = NoFrame /\ chunk' = NoChunk
        /\ pc' \in {"idle", "copy", "parse"} /\ new' \in Nat /\ nested' \in BOOLEAN
        /\ n > 0 => pc' = "parse"
        /\ n = 0 => pc' = (IF given = <<>> THEN "idle" ELSE "copy")
    <3>1. CASE n > 0
      <4>1. Reset(n) /\ new' = n /\ nested' = TRUE /\ pc' = "parse"
        BY <1>16, <3>1 DEF AfterCallback
      <4> QED BY <4>1, <3>1, <2>2 DEF Reset
    <3>2. CASE ~(n > 0)
      <4>1. n = 0
        BY <2>2, <3>2
      <4>2. Reset(0) /\ Return /\ UNCHANGED <<new, nested>>
        BY <1>16, <3>2 DEF AfterCallback
      <4> HIDE DEF n
      <4> QED BY <4>1, <4>2, <1>3 DEF Reset, Return, TypeOK
    <3> QED BY <3>1, <3>2
  <2> HIDE DEF n
  <2>4. /\ raw' \in Seq(Cell) /\ Len(raw') = n
        /\ \A j \in 1..n : raw'[j] = raw[(Len(raw) - n) + j]
    <3> DEFINE a == Len(raw) - n
    <3>1. a \in Nat /\ Len(raw) - a = n /\ Len(raw) - n + 1 = a + 1 /\ a <= Len(raw)
      BY <2>2, <1>2, SMTT(20)
    <3>2. raw' = SubSeq(raw, a + 1, Len(raw))
      BY <2>3, <3>1
    <3> HIDE DEF a
    <3>4. raw' \in Seq(Cell) /\ Len(raw') = Len(raw) - a
      BY <3>1, <3>2, <1>2, <1>3, TailIs
    <3>5. \A j \in 1..(Len(raw) - a) : raw'[j] = raw[a + j]
      BY <3>1, <3>2, <1>2, <1>3, TailIs
    <3>3. raw' \in Seq(Cell) /\ Len(raw') = n /\ \A j \in 1..n : raw'[j] = raw[a + j]
      BY <3>1, <3>4, <3>5
    <3> QED BY <3>3 DEF a
  <2>5. ASSUME NEW j \in 1..n PROVE raw'[j] = Wired[Begin(k + 1) + j]
    <3>1. raw'[j] = raw[8 + l + j]
      BY <2>2, <2>4
    <3> DEFINE i == 8 + l + j
    <3>2. i \in 1..Len(raw) /\ i > 8 /\ b + 8 + o + (i - 8) = Begin(k + 1) + j
      <4>1. Begin(k + 1) = b + 8 + f.data /\ j \in Nat /\ j <= n /\ j >= 1
        <5>1. Begin(k + 1) = b + 8 + f.data
          <6> HIDE DEF f, b
          <6> QED BY <1>11, <1>12, SMTT(20)
        <5> HIDE DEF f, b
        <5> QED BY <5>1, <2>2
      <4> HIDE DEF f, l, p, b
      <4> QED BY <4>1, <2>1, <2>2, <1>2, <1>10, <1>11, <1>12, <1>13, SMTT(20)
    <3> HIDE DEF i
    <3>3. raw[i] = Wired[b + 8 + o + (i - 8)]
      BY <3>2, <1>9
    <3> QED BY <3>1, <3>2, <3>3 DEF i
  <2>6. Types'
    <3>1. frame' \in [len : Int, hdr : Int] /\ chunk' \in [data : Nat, offset : Int, total : Int]
      BY <2>3 DEF NoFrame, NoChunk
    <3>2. call' \in [frag : BOOLEAN, wanted : Int, len : Int]
      BY <1>1 DEF NoCall
    <3>3. left' \in Int /\ pc' \in {"idle", "copy", "parse", "callback"}
      <4>1. left + Len(raw) - n \in Int
        <5> HIDE DEF f, l
        <5> QED BY <2>2, <1>2, <1>3
      <4> QED BY <4>1, <2>3
    <3>4. TypeOK'
      BY <3>1, <3>2, <3>3, <2>3, <1>1, <1>3 DEF TypeOK
    <3> QED BY <3>4, <2>4, <1>1 DEF Types
  <2>7. BufferAccounted'
    <3>1. left + Len(raw) - n >= 0 /\ (left + Len(raw) - n) + n = Cap
      <4> DEFINE r == Len(raw)
      <4>1. n \in Nat /\ n <= r /\ r \in Nat
        BY <2>2, <1>2
      <4>2. left \in Int /\ left >= 0 /\ left + r = Cap
        BY <1>3, <1>4
      <4> HIDE DEF r
      <4>3. left + r - n >= 0 /\ (left + r - n) + n = Cap
        BY ONLY <4>1, <4>2
      <4> QED BY <4>3 DEF r
    <3> QED BY <2>3, <2>4, <3>1 DEF BufferAccounted
  <2>8. Reading'
    <3>1. Reading
      OBVIOUS
    <3>2. n > 0 \/ n = 0
      <4> HIDE DEF f, l
      <4> QED BY <2>2
    <3>3. (pc' = "idle" => given = <<>>) /\ (pc' = "copy" => given # <<>>)
      BY <3>2, <2>3
    <3> QED BY <3>1, <3>3, <1>1, <1>14 DEF Reading
  <2>9. Behind(0, Begin(k + 1))'
    <3>1. n = 0 + (Copied - Begin(k + 1))
      BY <2>2, <1>2, <1>11, <1>12
    <3>2. \A j \in 1..n : j > 0 => raw'[j] = Wired[Begin(k + 1) + (j - 0)]
      <4> TAKE j \in 1..n
      <4>1. j - 0 = j
        BY <2>2
      <4> QED BY <4>1, <2>5
    <3> QED BY <3>1, <3>2, <2>4, <1>14 DEF Behind
  <2>10. GotAll(k + 1)'
    <3>1. got'.frame = k + 1 /\ got'.conn = conn' /\ got'.upto = sent'[k + 1].data
      BY <2>1, <1>1, <1>8
    <3> QED BY <3>1 DEF GotAll
  <2>11. pc' # "parse" => Short(k + 1)'
    <3> SUFFICES ASSUME pc' # "parse", k + 1 < Len(sent), sent[k + 1 + 1].ok = "yes"
                 PROVE  Len(raw') < LenOf(sent[k + 1 + 1]) /\ Len(raw') < Cap
      BY <1>1 DEF Short
    <3>1. Len(raw') = 0
      BY <2>2, <2>3, <2>4
    <3> DEFINE g == sent[k + 1 + 1]
    <3>2. g \in Shapes /\ g.ok = "yes"
      BY <1>2, <1>11
    <3> HIDE DEF g
    <3>3. LenOf(g) > 0
      BY <3>2, GoodSize
    <3> QED BY <3>1, <3>3, <1>4 DEF g
  <2>12. Fresh(k + 1)'
    BY <2>3, <2>9, <2>10, <2>11 DEF Fresh
  <2>13. Whole(k + 1)'
    <3>1. \A i \in 1..(k + 1) : i \in 1..k \/ i = k + 1
      BY <1>11
    <3> QED BY <3>1, <1>1, <1>6, <1>8 DEF Whole
  <2>14. Midway'
    BY <2>12, <2>13, <1>14 DEF Midway, At
  <2> QED BY <2>6, <2>7, <2>8, <2>14, <1>5 DEF Breaks
<1> QED BY <1>15, <1>16

-----------------------------------------------------------------------------
(* pk_parser_parse_new_data: what each way out of it keeps and gives.        *)

\* A part of a sequence.
LEMMA PartIs ==
  ASSUME NEW S, NEW s \in Seq(S), NEW a \in Nat, NEW n \in Nat, a + n <= Len(s)
  PROVE  /\ SubSeq(s, a + 1, a + n) \in Seq(S) /\ Len(SubSeq(s, a + 1, a + n)) = n
         /\ \A j \in 1..n : SubSeq(s, a + 1, a + n)[j] = s[a + j]
<1>1. Len(s) \in Nat
  OBVIOUS
<1> QED BY <1>1

\* The headers of a frame that is well formed are found, however much of the
\* frame there is.
LEMMA GoodBody ==
  ASSUME NEW w \in Seq(Cell), NEW b \in Nat, NEW g, NEW c, NEW i, Framed(w, b, g, c, i),
         g.ok = "yes",
         NEW r \in Seq(Cell), b + Len(r) <= Len(w),
         \A j \in 1..Len(r) : j > 3 => r[j] = w[b + j],
         NEW n \in Nat, n >= 5, 3 + n <= Len(r), 3 + n <= LenOf(g)
  PROVE  /\ HeadersEnd(SubSeq(r, 3 + 1, 3 + n)) = 5
         /\ \A p \in HeaderLines(SubSeq(r, 3 + 1, 3 + n)) : p \in Nat /\ p <= 4
<1> DEFINE s == SubSeq(r, 3 + 1, 3 + n)
<1>1. s \in Seq(Cell) /\ Len(s) = n /\ \A j \in 1..n : s[j] = r[3 + j]
  <2>1. 3 \in Nat
    OBVIOUS
  <2> QED BY <2>1, PartIs
<1> HIDE DEF s
<1>2. ASSUME NEW j \in 1..n PROVE s[j] = w[b + (3 + j)]
  <2>1. 3 + j \in 1..Len(r) /\ 3 + j > 3
    BY <1>1
  <2> QED BY <2>1, <1>1
<1>3. /\ 1 \in 1..n /\ 2 \in 1..n /\ 3 \in 1..n /\ 4 \in 1..n /\ 5 \in 1..n
  OBVIOUS
<1>4. /\ s[1] = w[b + 4] /\ s[2] = w[b + 5] /\ s[3] = w[b + 6] /\ s[4] = w[b + 7]
      /\ s[5] = w[b + 8]
  BY <1>2, <1>3
<1>5. /\ s[1].kind = "text" /\ s[2].kind = "cr" /\ s[3].kind = "lf"
      /\ s[4].kind = "cr" /\ s[5].kind = "lf"
  BY <1>4 DEF Framed
<1>6. ASSUME NEW j \in 1..n, j > 5 PROVE s[j].kind # "cr"
  <2> DEFINE q == b + (3 + j)
  <2>1. q \in 1..Len(w) /\ q > b + 8 /\ q <= b + LenOf(g)
    <3>1. LenOf(g) \in Nat /\ Len(w) \in Nat /\ Len(r) \in Nat
      BY DEF Framed
    <3> QED BY <3>1, <1>6
  <2>2. s[j] = w[q]
    BY <1>2
  <2> HIDE DEF q
  <2>3. w[q].kind = "data"
    BY <2>1 DEF Framed
  <2> QED BY <2>2, <2>3
<1> QED BY <1>1, <1>5, <1>6, GoodHeaders DEF s

\* No empty line is found in a malformed chunk.
LEMMA BadBody ==
  ASSUME NEW w \in Seq(Cell), NEW b \in Nat, NEW g, NEW c, NEW i, Framed(w, b, g, c, i),
         g.ok = "bad_chunk",
         NEW r \in Seq(Cell), b + Len(r) <= Len(w),
         \A j \in 1..Len(r) : Masked(r[j], w[b + j]),
         NEW n \in Nat, 3 + n <= Len(r), 3 + n <= LenOf(g)
  PROVE  HeadersEnd(SubSeq(r, 3 + 1, 3 + n)) = 0
<1> DEFINE s == SubSeq(r, 3 + 1, 3 + n)
<1>1. s \in Seq(Cell) /\ Len(s) = n /\ \A j \in 1..n : s[j] = r[3 + j]
  <2>1. 3 \in Nat
    OBVIOUS
  <2> QED BY <2>1, PartIs
<1> HIDE DEF s
<1>2. ASSUME NEW j \in 1..n PROVE Masked(s[j], w[b + (3 + j)])
  <2>1. 3 + j \in 1..Len(r)
    BY <1>1
  <2> QED BY <2>1, <1>1
<1>3. ASSUME NEW j \in 1..n, j # 2 PROVE s[j].kind # "cr"
  <2> DEFINE q == b + (3 + j)
  <2>1. q \in 1..Len(w) /\ q > b + 3 /\ q <= b + LenOf(g) /\ q # b + 5
    <3>1. LenOf(g) \in Nat
      BY DEF Framed
    <3>2. Len(w) \in Nat /\ Len(r) \in Nat
      OBVIOUS
    <3> QED BY <3>1, <3>2, <1>3
  <2>2. Masked(s[j], w[q])
    BY <1>2
  <2> HIDE DEF q
  <2>3. w[q].kind # "cr"
    BY <2>1 DEF Framed
  <2> QED BY <2>2, <2>3 DEF Masked
<1> QED BY <1>1, <1>3, BadHeaders DEF s

\* SameFrames, of a step.
Gives ==
  got' # got /\ got'.frame # 0 =>
         /\ got'.conn = conn /\ got'.frame \in Good(sent)
         /\ \/ /\ got'.frame = got.frame /\ got'.conn = got.conn
               /\ got'.from = got.upto
            \/ /\ got'.frame = got.frame + 1
               /\ got'.from = 0
               /\ got.frame # 0 => got.upto = sent[got.frame].data

\* All but where the parser is.
Kept ==
  /\ Types' /\ BufferAccounted' /\ Reading' /\ Breaks' /\ ~broken'
  /\ Wired' = Wired /\ Copied' = Copied

\* Without an error all but where the parser is goes on to hold.
LEMMA GoesOn ==
  ASSUME IInv, pc = "parse", UNCHANGED <<conn, sent, fed, new, nested, left, given, broken>>,
         raw' \in Seq(Cell), Len(raw') = Len(raw),
         frame' \in [len : Int, hdr : Int],
         chunk' \in [data : Nat, offset : Int, total : Int],
         call' \in [frag : BOOLEAN, wanted : Int, len : Int],
         got' \in [conn : Nat, frame : Nat, from : Int, upto : Int, eof : BOOLEAN],
         Return \/ pc' = "callback"
  PROVE  Kept
<1> USE DEF IInv
<1>1. Types'
  <2>1. TypeOK /\ given \in Seq(Cell)
    BY DEF Types
  <2>2. pc' \in {"idle", "copy", "parse", "callback"}
    BY DEF Return
  <2>3. TypeOK'
    BY <2>1, <2>2 DEF TypeOK
  <2> QED BY <2>1, <2>3 DEF Types
<1>2. BufferAccounted'
  BY DEF BufferAccounted
<1>3. Wired' = Wired /\ Copied' = Copied
  BY DEF Wired, Copied
<1>4. Reading'
  <2>1. Reading
    OBVIOUS
  <2>2. (pc' = "idle" => given = <<>>) /\ (pc' = "copy" => given # <<>>)
    BY DEF Return
  <2> QED BY <1>3, <2>1, <2>2 DEF Reading
<1>5. ~broken' /\ Breaks'
  BY DEF Breaks
<1> QED BY <1>1, <1>2, <1>3, <1>4, <1>5 DEF Kept

\* With an error the tunnel is broken.
LEMMA GivesUp ==
  ASSUME IInv, pc = "parse", UNCHANGED <<conn, sent, fed, new, nested, call, got>>,
         pc' = "idle", Reset(0), given' = <<>>, broken' = TRUE,
         \E i \in 1..Len(sent) : sent[i].ok # "yes" /\ Upto(sent, i - 1) < fed
  PROVE  IInv' /\ Gives
<1> USE DEF IInv
<1>1. /\ left' = left + Len(raw) - 0 /\ raw' = SubSeq(raw, Len(raw) - 0 + 1, Len(raw))
      /\ frame' = NoFrame /\ chunk' = NoChunk
  BY DEF Reset
<1>2. TypeOK /\ raw \in Seq(Cell) /\ Len(raw) \in Nat /\ left \in Int
      /\ got \in [conn : Nat, frame : Nat, from : Int, upto : Int, eof : BOOLEAN]
  BY DEF Types, TypeOK
<1>3. raw' = <<>> /\ Len(raw') = 0
  <2>1. Len(raw) - 0 + 1 = Len(raw) + 1
    BY <1>2
  <2>2. SubSeq(raw, Len(raw) + 1, Len(raw)) = <<>>
    BY <1>2
  <2> QED BY <1>1, <2>1, <2>2
<1>4. Types'
  <2>1. frame' \in [len : Int, hdr : Int] /\ chunk' \in [data : Nat, offset : Int, total : Int]
    BY <1>1 DEF NoFrame, NoChunk
  <2>2. left' \in Int
    <3>1. left + Len(raw) - 0 \in Int
      BY <1>2
    <3> QED BY <3>1, <1>1
  <2>3. TypeOK'
    BY <2>1, <2>2, <1>2 DEF TypeOK
  <2>4. raw' \in Seq(Cell) /\ given' \in Seq(Cell)
    BY <1>3
  <2> QED BY <2>3, <2>4, <1>2 DEF Types
<1>5. BufferAccounted'
  <2>1. left + Len(raw) - 0 = left + Len(raw) /\ left + Len(raw) = Cap /\ left + Len(raw) >= 0
    BY <1>2 DEF BufferAccounted
  <2>2. left' = Cap /\ Cap + 0 = Cap /\ Cap >= 0
    BY <2>1, <1>1, ParserBounds
  <2> QED BY <2>2, <1>3 DEF BufferAccounted
<1>6. fed \in Nat /\ Wired \in Seq(Cell) /\ fed <= Len(Wired)
  BY Now
<1>7. Wired' = Wired
  BY DEF Wired
<1>8. Len(given') = 0 /\ Copied' = fed
  <2>1. Len(given') = 0
    OBVIOUS
  <2> QED BY <2>1, <1>6 DEF Copied
<1>9. Reading'
  <2>1. SubSeq(Wired, fed + 1, fed) = <<>>
    <3> HIDE DEF Wired
    <3> QED BY <1>6
  <2> QED BY <2>1, <1>6, <1>7, <1>8 DEF Reading
<1>10. Breaks'
  BY DEF Breaks
<1>11. Gives
  BY DEF Gives
<1> QED BY <1>4, <1>5, <1>9, <1>10, <1>11

\* A frame whose first line was read: its headers are parsed once it is there, or
\* once the buffer is full.
LEMMA ParsesHead ==
  ASSUME IInv, pc = "parse", UNCHANGED <<conn, sent, fed, new, nested>>,
         NEW k \in 0..Len(sent), Whole(k), k < Len(sent),
         sent[k + 1].ok \in {"yes", "bad_chunk"}, GotAll(k), chunk = NoChunk,
         NEW r \in Seq(Cell), Len(r) = Len(raw), Len(raw) = Copied - Begin(k), Len(raw) >= 3,
         \A j \in 1..Len(raw) : Masked(r[j], Wired[Begin(k) + j]),
         sent[k + 1].ok = "yes" => \A j \in 1..Len(raw) : j > 3 => r[j] = Wired[Begin(k) + j],
         NEW f, f = [len |-> Len(ChunkOf(sent[k + 1])), hdr |-> 3],
         ParseChunk(f, r)
  PROVE  IInv' /\ Gives
<1> USE DEF IInv
<1> DEFINE g == sent[k + 1]
           b == Begin(k)
           c == Len(ChunkOf(g))
           frag == left < 1 /\ c + 3 > Len(raw)
           n == IF frag THEN Len(r) - 3 ELSE c
           body == SubSeq(r, 3 + 1, 3 + n)
           pos == HeadersEnd(body)
           z == ChunkZeroed(r, 3, n, HeaderLines(body))
<1>1. /\ conn \in Nat /\ sent \in Seq(Shapes) /\ fed \in Nat
      /\ Len(sent) \in Nat /\ Wired \in Seq(Cell) /\ Copied \in Nat
      /\ Copied <= Len(Wired) /\ Len(raw) \in Nat /\ Len(given) \in Nat
      /\ fed = Copied + Len(given)
  BY Now
<1>2. TypeOK /\ raw \in Seq(Cell) /\ left \in Int /\ given \in Seq(Cell)
      /\ call \in [frag : BOOLEAN, wanted : Int, len : Int]
      /\ got \in [conn : Nat, frame : Nat, from : Int, upto : Int, eof : BOOLEAN]
  BY DEF Types, TypeOK
<1>3. Cap \in Nat /\ Cap > 8 /\ left >= 0 /\ left + Len(raw) = Cap
  BY ParserBounds, HeadersFit DEF BufferAccounted
<1>4. ~broken
  BY DEF Breaks
<1>5. /\ k \in Nat /\ b \in Nat /\ Framed(Wired, b, g, conn, k + 1)
  BY Place
<1>6. /\ g \in Shapes /\ g.data \in Nat /\ LenOf(g) \in Nat
      /\ g.ok = "yes" => LenOf(g) = 8 + g.data /\ c = 5 + g.data
      /\ g.ok = "bad_chunk" => LenOf(g) = 3 + c /\ c = 3 + g.data
      /\ b + LenOf(g) <= Len(Wired)
  BY <1>5 DEF Framed
<1>7. g.ok = "yes" \/ g.ok = "bad_chunk"
  OBVIOUS
<1>8. c \in Nat /\ LenOf(g) = 3 + c
  <2> HIDE DEF g, c
  <2> QED BY <1>6, <1>7, SMTT(20)
<1>9. f.len = c /\ f.hdr = 3 /\ chunk.data = 0 /\ chunk.offset = 0 /\ chunk.total = -1
  BY DEF NoChunk
<1>10. Fragmenting(f) <=> frag
  BY <1>9 DEF Fragmenting
<1>11. Len(r) = Copied - b /\ b + Len(r) <= Len(Wired) /\ b < fed /\ Len(Wired) \in Nat
  <2>1. Len(r) = Copied - b /\ Len(r) >= 3
    OBVIOUS
  <2>2. b \in Nat /\ Copied \in Nat /\ Len(Wired) \in Nat /\ Copied <= Len(Wired)
        /\ fed = Copied + Len(given) /\ Len(given) \in Nat
    BY <1>1, <1>5
  <2> HIDE DEF b
  <2> QED BY ONLY <2>1, <2>2
<1>12. Begin(k)' = b /\ k \in 0..Len(sent') /\ Whole(k)'
  BY DEF Begin, Whole
<1>13. CASE ~frag /\ Len(r) < c + 3
  <2>1. Wait(f, r)
    BY <1>13, <1>9, <1>10 DEF ParseChunk
  <2>2. /\ Return /\ frame' = f /\ raw' = r
        /\ UNCHANGED <<left, chunk, given, broken, call, got>>
    BY <2>1 DEF Wait
  <2>3. f \in [len : Int, hdr : Int]
    BY <1>8
  <2>4. chunk \in [data : Nat, offset : Int, total : Int]
    BY <1>2 DEF TypeOK
  <2>5. Kept
    BY <2>2, <2>3, <2>4, <1>2, GoesOn
  <2>6. Wired' = Wired /\ Copied' = Copied /\ ~broken'
    BY <2>5 DEF Kept
  <2>7. pc' # "callback"
    BY <2>2 DEF Return
  <2>8. Short(k)'
    <3> SUFFICES ASSUME g.ok = "yes" PROVE Len(r) < LenOf(g) /\ Len(r) < Cap
      <4>1. sent' = sent /\ raw' = r
        BY <2>2
      <4> QED BY <4>1 DEF Short
    <3>1. Len(r) < LenOf(g)
      <4> HIDE DEF g, c
      <4> QED BY <1>1, <1>8, <1>13
    <3>2. left >= 1
      <4> HIDE DEF g, c
      <4> QED BY <1>1, <1>2, <1>8, <1>13
    <3>3. Len(r) < Cap
      <4>1. left \in Int /\ left + Len(raw) = Cap /\ Len(raw) \in Nat /\ Len(r) = Len(raw)
        BY <1>1, <1>2, <1>3
      <4> QED BY ONLY <4>1, <3>2
    <3> QED BY <3>1, <3>3
  <2>9. GotAll(k)'
    BY <2>2 DEF GotAll
  <2>10. Headed(k)'
    BY <2>2, <2>6, <2>7, <2>8, <2>9, <1>12 DEF Headed
  <2>11. Midway'
    BY <2>10, <1>12 DEF Midway, At
  <2>12. Gives
    BY <2>2 DEF Gives
  <2> QED BY <2>5, <2>11, <2>12 DEF Kept
<1>14. CASE ~(~frag /\ Len(r) < c + 3)
  <2>1. n \in Nat /\ 3 + n <= Len(r) /\ n <= c
    <3> HIDE DEF g, c
    <3> QED BY <1>1, <1>8, <1>14, SMTT(20)
  <2>2. /\ z \in Seq(Cell) /\ Len(z) = Len(r)
        /\ \A j \in 1..Len(r) : Masked(z[j], r[j])
        /\ \A j \in 1..Len(r) : j > 3 /\ j - 3 \notin HeaderLines(body)
                                  /\ j - 3 - 1 \notin HeaderLines(body) => z[j] = r[j]
    <3>1. 3 \in Nat
      OBVIOUS
    <3> HIDE DEF n, body
    <3> QED BY <3>1, <2>1, ChunkZeroedIs
  <2>3. ASSUME NEW j \in 1..Len(raw) PROVE Masked(z[j], Wired[b + j])
    <3>1. Masked(z[j], r[j]) /\ Masked(r[j], Wired[b + j])
      BY <2>2
    <3> HIDE DEF z
    <3> QED BY <3>1, MaskedTwice
  <2>4. /\ pos = 0 => Fail(f, z) /\ UNCHANGED <<call, got>>
        /\ pos # 0 => Give(f, [data |-> 3 + pos, offset |-> 0, total |-> c - pos], z, n - pos, frag)
    <3>1. ~(~Fragmenting(f) /\ chunk.data = 0 /\ Len(r) < f.len + f.hdr) /\ ~(chunk.data # 0)
      BY <1>9, <1>10, <1>14
    <3>2. n = IF Fragmenting(f) THEN Len(r) - f.hdr ELSE f.len
      BY <1>9, <1>10
    <3> DEFINE fr == Fragmenting(f)
               m == IF fr THEN Len(r) - f.hdr ELSE f.len
               bd == SubSeq(r, f.hdr + 1, f.hdr + m)
               ps == HeadersEnd(bd)
               y == SubSeq(r, 1, f.hdr) \o ZeroedAt(bd, HeaderLines(bd))
                      \o SubSeq(r, f.hdr + m + 1, Len(r))
    <3>3. /\ ps = 0 => Fail(f, y) /\ UNCHANGED <<call, got>>
          /\ ps # 0 => Give(f, [data |-> f.hdr + ps, offset |-> 0,
                                total |-> f.len - ps], y, m - ps, fr)
      BY <3>1 DEF ParseChunk
    <3>4. m = n /\ f.hdr = 3 /\ f.len = c /\ (fr <=> frag)
      BY <3>2, <1>9, <1>10
    <3> HIDE DEF m, fr, frag, n, c
    <3>5. bd = body /\ ps = pos
      BY <3>4
    <3>6. y = z
      BY <3>4, <3>5 DEF ChunkZeroed
    <3>7. fr = frag
      BY <3>4 DEF fr, frag, Fragmenting
    <3> HIDE DEF bd, ps, y, z, body, pos
    <3> QED BY <3>3, <3>4, <3>5, <3>6, <3>7
  <2>5. 3 + n <= LenOf(g)
    <3> HIDE DEF g, c, n
    <3> QED BY <2>1, <1>8
  <2>6. CASE g.ok = "bad_chunk"
    <3>1. pos = 0
      <4>1. /\ Wired \in Seq(Cell) /\ b \in Nat /\ Framed(Wired, b, g, conn, k + 1)
            /\ g.ok = "bad_chunk" /\ r \in Seq(Cell) /\ b + Len(r) <= Len(Wired)
            /\ n \in Nat /\ 3 + n <= Len(r) /\ 3 + n <= LenOf(g)
        BY <2>1, <2>5, <2>6, <1>1, <1>5, <1>11
      <4>2. \A j \in 1..Len(r) : Masked(r[j], Wired[b + j])
        OBVIOUS
      <4> HIDE DEF n, g, b
      <4> QED BY ONLY <4>1, <4>2, BadBody
    <3>2. Fail(f, z) /\ UNCHANGED <<call, got>>
      BY <2>4, <3>1
    <3> HIDE DEF z
    <3>3. CASE nested
      <4>1. Return /\ frame' = f /\ raw' = z /\ UNCHANGED <<left, chunk, given, broken, call, got>>
        BY <3>2, <3>3 DEF Fail
      <4>2. f \in [len : Int, hdr : Int]
        BY <1>8
      <4>3. chunk \in [data : Nat, offset : Int, total : Int]
        BY <1>2 DEF TypeOK
      <4>4. Kept
        BY <4>1, <4>2, <4>3, <2>2, <1>2, GoesOn
      <4>5. Wired' = Wired /\ Copied' = Copied /\ ~broken'
        BY <4>4 DEF Kept
      <4>6. pc' # "callback"
        BY <4>1 DEF Return
      <4>7. Short(k)' /\ GotAll(k)'
        BY <4>1, <2>6 DEF Short, GotAll
      <4>8. Headed(k)'
        BY <4>1, <4>5, <4>6, <4>7, <2>2, <2>3, <2>6, <1>12 DEF Headed
      <4>9. Midway'
        BY <4>8, <1>12 DEF Midway, At
      <4> QED BY <4>1, <4>4, <4>9 DEF Kept, Gives
    <3>4. CASE ~nested
      <4>1. pc' = "idle" /\ Reset(0) /\ given' = <<>> /\ broken' = TRUE /\ UNCHANGED <<call, got>>
        BY <3>2, <3>4 DEF Fail
      <4>2. b < fed
        BY <1>11
      <4>3. \E i \in 1..Len(sent) : sent[i].ok # "yes" /\ Upto(sent, i - 1) < fed
        BY <4>2, <2>6, BadAhead
      <4> QED BY <4>1, <4>3, GivesUp
    <3> QED BY <3>3, <3>4
  <2>7. CASE g.ok = "yes"
    <3>1. n >= 5 /\ (~frag => n = c) /\ (frag => 3 + n = Cap)
      <4>1. frag => Len(raw) = Cap
        <5>1. left \in Int /\ left >= 0 /\ left + Len(raw) = Cap /\ Len(raw) \in Nat
          BY <1>1, <1>2, <1>3
        <5>2. frag => left < 1
          OBVIOUS
        <5> HIDE DEF frag
        <5> QED BY ONLY <5>1, <5>2
      <4>2. frag => 3 + n = Cap
        <5>1. frag => n = Len(r) - 3
          OBVIOUS
        <5>2. Len(r) = Len(raw) /\ Len(raw) \in Nat /\ Cap \in Nat
          BY <1>1, <1>3
        <5> HIDE DEF frag, n
        <5> QED BY ONLY <4>1, <5>1, <5>2
      <4>3. ~frag => n = c
        OBVIOUS
      <4>4. c >= 5
        <5> HIDE DEF g, c
        <5> QED BY <1>6, <2>7
      <4>5. n >= 5
        <5> HIDE DEF n, g, c, frag
        <5> QED BY <4>2, <4>3, <4>4, <2>1, <1>3
      <4> QED BY <4>2, <4>3, <4>5
    <3>2. pos = 5 /\ \A p \in HeaderLines(body) : p \in Nat /\ p <= 4
      <4>1. \A j \in 1..Len(r) : j > 3 => r[j] = Wired[b + j]
        BY <2>7
      <4> HIDE DEF n, g, b
      <4> QED BY <4>1, <3>1, <2>1, <2>5, <2>7, <1>1, <1>5, <1>11, GoodBody
    <3>3. Give(f, [data |-> 8, offset |-> 0, total |-> c - 5], z, n - 5, frag)
      <4>1. 3 + 5 = 8
        OBVIOUS
      <4> HIDE DEF z, n, frag, body, c, g
      <4> QED BY <4>1, <2>4, <3>2
    <3>4. c - 5 = g.data
      <4> HIDE DEF g, c
      <4> QED BY <2>7, <1>6
    <3> DEFINE l == n - 5
    <3>5. l \in Nat /\ 8 + l <= Len(r) /\ l <= g.data
      <4>1. n \in Nat /\ n >= 5 /\ 3 + n <= Len(r) /\ n <= c /\ Len(r) \in Nat
        BY <2>1, <3>1, <1>1
      <4>2. c - 5 = g.data /\ c \in Nat
        BY <3>4, <1>8
      <4> HIDE DEF g, c, n
      <4> QED BY ONLY <4>1, <4>2
    <3>6. ASSUME NEW j \in 1..Len(r), j > 8 PROVE z[j] = Wired[b + j]
      <4>1. j > 3 /\ j - 3 > 4 /\ j - 3 - 1 > 4 /\ j - 3 \in Nat /\ j - 3 - 1 \in Nat
        BY <3>6
      <4>2. j - 3 \notin HeaderLines(body) /\ j - 3 - 1 \notin HeaderLines(body)
        <5> HIDE DEF body
        <5> QED BY <4>1, <3>2, <3>6, <1>1, SMTT(20)
      <4>3. z[j] = r[j]
        <5> HIDE DEF z, body
        <5> QED BY <4>1, <4>2, <2>2
      <4>4. r[j] = Wired[b + j]
        BY <4>1, <2>7
      <4> QED BY <4>3, <4>4
    <3> HIDE DEF z
    <3>7. z[8].conn = conn /\ z[8].frame = k + 1 /\ z[8].of = g
      <4> DEFINE q == b + 8
      <4>1. 8 \in 1..Len(raw)
        <5> HIDE DEF l, n
        <5> QED BY <3>5, <1>1, SMTT(20)
      <4>2. Masked(z[8], Wired[q])
        BY <4>1, <2>3
      <4>3. q \in 1..Len(Wired) /\ q > b /\ q <= b + LenOf(g)
        <5>1. LenOf(g) = 8 + g.data
          BY <2>7, <1>6
        <5>2. b \in Nat /\ g.data \in Nat /\ b + LenOf(g) <= Len(Wired) /\ Len(Wired) \in Nat
          BY <1>5, <1>6, <1>11
        <5> HIDE DEF b, g
        <5> QED BY ONLY <5>1, <5>2
      <4> HIDE DEF q
      <4>4. Wired[q].conn = conn /\ Wired[q].frame = k + 1 /\ Wired[q].of = g
        <5> HIDE DEF b, g
        <5> QED BY <4>3, <1>5 DEF Framed
      <4> QED BY <4>2, <4>4 DEF Masked
    <3>8. ASSUME NEW i \in 1..l PROVE z[8 + i].at = i
      <4> DEFINE q == b + (8 + i)
      <4>1. 8 + i \in 1..Len(r) /\ 8 + i > 8
        <5> HIDE DEF l
        <5> QED BY <3>5, <1>1, SMTT(20)
      <4>2. z[8 + i] = Wired[q]
        BY <4>1, <3>6
      <4>3. q \in 1..Len(Wired) /\ q > b + 8 /\ q <= b + LenOf(g) /\ q - b - 8 = i
        <5>1. LenOf(g) = 8 + g.data
          BY <2>7, <1>6
        <5>2. b \in Nat /\ g.data \in Nat /\ b + LenOf(g) <= Len(Wired) /\ Len(Wired) \in Nat
          BY <1>5, <1>6, <1>11
        <5>3. l \in Nat /\ l <= g.data /\ i \in 1..l
          BY <3>5
        <5> HIDE DEF l, b, g
        <5> QED BY ONLY <5>1, <5>2, <5>3
      <4> HIDE DEF q
      <4>4. Wired[q].at = q - b - 8
        <5> HIDE DEF b, g
        <5> QED BY <4>3, <2>7, <1>5 DEF Framed
      <4> QED BY <4>2, <4>3, <4>4
    <3>9. /\ pc' = "callback" /\ frame' = f /\ raw' = z
          /\ chunk' = [data |-> 8, offset |-> 0 + l, total |-> g.data]
          /\ call' = [frag |-> frag, wanted |-> f.len + f.hdr, len |-> l]
          /\ got' = [conn |-> z[8].conn, frame |-> z[8].frame,
                     from |-> IF l = 0 THEN 0 ELSE z[8 + 1].at - 1,
                     upto |-> IF l = 0 THEN 0 ELSE z[8 + l].at,
                     eof |-> z[8].of.eof /\ ~frag]
          /\ UNCHANGED <<left, given, broken>>
      <4> HIDE DEF l, frag, n, c, g
      <4>1. l = n - 5
        BY DEF l
      <4>2. Give(f, [data |-> 8, offset |-> 0, total |-> g.data], z, l, frag)
        BY <4>1, <3>3, <3>4
      <4> QED BY <4>2 DEF Give
    <3> HIDE DEF n
    <3>10. got' = [conn |-> conn, frame |-> k + 1, from |-> 0, upto |-> l, eof |-> z[8].of.eof /\ ~frag]
      <4>1. l = 0 \/ (1 \in 1..l /\ l \in 1..l)
        <5> HIDE DEF l
        <5> QED BY <3>5
      <4>2. (IF l = 0 THEN 0 ELSE z[8 + 1].at - 1) = 0
        <5> HIDE DEF l
        <5> QED BY <4>1, <3>8
      <4>3. (IF l = 0 THEN 0 ELSE z[8 + l].at) = l
        <5> HIDE DEF l
        <5> QED BY <4>1, <3>8
      <4> HIDE DEF l, frag, g
      <4> QED BY <4>2, <4>3, <3>7, <3>9
    <3>11. chunk' = [data |-> 8, offset |-> l, total |-> g.data] /\ chunk' \in [data : Nat, offset : Int, total : Int]
      <4>1. 0 + l = l
        <5> HIDE DEF l
        <5> QED BY <3>5
      <4> HIDE DEF l, g
      <4> QED BY <4>1, <3>5, <3>9, <1>6
    <3>12. frag \in BOOLEAN
      OBVIOUS
    <3>13. call' \in [frag : BOOLEAN, wanted : Int, len : Int] /\ call'.frag = frag
           /\ call'.wanted = c + 3 /\ call'.len = l
      <4>1. f.len + f.hdr \in Int /\ f.len + f.hdr = c + 3
        <5> HIDE DEF c, g
        <5> QED BY <1>8, <1>9
      <4> HIDE DEF l, frag, c, g
      <4> QED BY <4>1, <3>5, <3>9, <3>12
    <3>14. got' \in [conn : Nat, frame : Nat, from : Int, upto : Int, eof : BOOLEAN]
      <4>1. (z[8].of.eof /\ ~frag) \in BOOLEAN
        OBVIOUS
      <4>2. k + 1 \in Nat
        BY <1>5
      <4> DEFINE e == z[8].of.eof /\ ~frag
      <4> HIDE DEF l, frag, g, e
      <4>3. got' = [conn |-> conn, frame |-> k + 1, from |-> 0, upto |-> l, eof |-> e] /\ e \in BOOLEAN
        BY <3>10, <4>1 DEF e
      <4> QED BY <4>2, <4>3, <3>5, <1>1
    <3>15. frame' \in [len : Int, hdr : Int]
      BY <3>9, <1>8
    <3>16. Kept
      <4>1. raw' \in Seq(Cell) /\ Len(raw') = Len(raw)
        BY <3>9, <2>2
      <4> HIDE DEF l, frag, g
      <4> QED BY <4>1, <3>9, <3>11, <3>13, <3>14, <3>15, GoesOn
    <3>17. Wired' = Wired /\ Copied' = Copied
      BY <3>16 DEF Kept
    <3>18. Behind(8, Begin(k) + 8 + 0)'
      <4>1. Len(raw') = 8 + (Copied' - (b + 8 + 0))
        <5>1. Len(raw') = Copied - b
          BY <3>9, <2>2
        <5> HIDE DEF b
        <5> QED BY <5>1, <3>17, <1>1, <1>5
      <4>2. ASSUME NEW j \in 1..Len(raw'), j > 8 PROVE raw'[j] = Wired'[b + 8 + 0 + (j - 8)]
        <5>1. j \in 1..Len(r)
          BY <3>9, <2>2
        <5>2. z[j] = Wired[b + j]
          BY <5>1, <4>2, <3>6
        <5>3. b + 8 + 0 + (j - 8) = b + j
          <6> HIDE DEF b
          <6> QED BY <5>1, <1>1, <1>5
        <5> QED BY <5>2, <5>3, <3>9, <3>17
      <4> QED BY <4>1, <4>2, <1>12 DEF Behind
    <3>19. InPieces(k, 0)'
      <4>1. sent'[k + 1] = g /\ conn' = conn /\ Len(sent') = Len(sent)
        OBVIOUS
      <4>2. frame' = [len |-> 5 + g.data - 0, hdr |-> 3]
        <5>1. c = 5 + g.data - 0
          <6> HIDE DEF g, c
          <6> QED BY <2>7, <1>6
        <5> QED BY <5>1, <3>9
      <4>3. Len(raw') >= 8
        <5>1. Len(raw') = Len(r)
          BY <3>9, <2>2
        <5> HIDE DEF l
        <5> QED BY <5>1, <3>5, <1>1, SMTT(20)
      <4>4. got'.frame = k + 1 /\ got'.conn = conn /\ got'.upto = chunk'.offset
        <5> HIDE DEF l, frag, g
        <5> QED BY <3>10, <3>11
      <4>5. chunk'.data = 8 /\ chunk'.total = g.data
        BY <3>11
      <4> HIDE DEF l, frag, g
      <4> QED BY <4>1, <4>2, <4>3, <4>4, <4>5, <3>7, <3>9, <3>18, <2>7 DEF InPieces, g
    <3>20. Calling(k, 0)'
      <4>1. chunk'.offset = l /\ call'.len = l /\ 0 + l = l
        <5> HIDE DEF l, frag, g
        <5> QED BY <3>5, <3>11, <3>13
      <4>2. call'.wanted = frame'.len + 3
        BY <3>9, <3>13, <1>9
      <4>3. Len(raw') >= 8 + l
        <5>1. Len(raw') = Len(r)
          BY <3>9, <2>2
        <5> HIDE DEF l
        <5> QED BY <5>1, <3>5, <1>1
      <4>4. frag => l < g.data
        <5>1. frag => Len(r) < c + 3 /\ 8 + l = Len(r)
          <6> HIDE DEF g, c
          <6> QED BY <2>1, <3>1, <1>1, <1>8, SMTT(20) DEF n
        <5> HIDE DEF l, frag, g, c
        <5> QED BY <5>1, <3>4, <3>5, <1>1, <1>6, <1>8, SMTT(20)
      <4>5. l < g.data => l >= 1 /\ Len(raw') = 8 + l
        <5>1. ~frag => l = g.data
          <6> HIDE DEF frag, g, c
          <6> QED BY <3>1, <3>4
        <5>2. frag => 8 + l = Cap /\ Len(r) = Cap
          <6>1. frag => n = Len(r) - 3
            BY DEF n
          <6> HIDE DEF frag, g, c
          <6> QED BY <6>1, <3>1, <2>1, <1>1, <1>3, SMTT(20)
        <5>3. Len(raw') = Len(r)
          BY <3>9, <2>2
        <5> HIDE DEF l, frag, g
        <5> QED BY <5>1, <5>2, <5>3, <3>5, <1>3, <1>6, SMTT(20)
      <4>6. sent'[k + 1] = g
        OBVIOUS
      <4>7. call'.frag = frag /\ pc' = "callback"
        BY <3>9, <3>13
      <4> HIDE DEF l, frag, g
      <4> QED BY <4>1, <4>2, <4>3, <4>4, <4>5, <4>6, <4>7, <3>5, <3>19 DEF Calling
    <3>21. Midway'
      <4>1. 0 \in Nat
        OBVIOUS
      <4> QED BY <4>1, <3>20, <1>12 DEF Midway, At
    <3>22. Gives
      <4>1. k + 1 \in Good(sent)
        <5>1. k + 1 \in 1..Len(sent)
          BY <1>1, <1>5
        <5>2. \A i \in 1..(k + 1) : i \in 1..k \/ i = k + 1
          BY <1>5
        <5>3. \A i \in 1..(k + 1) : sent[i].ok = "yes"
          BY <5>2, <2>7 DEF Whole
        <5> QED BY <5>1, <5>3 DEF Good
      <4>2. got'.conn = conn /\ got'.frame = k + 1 /\ got'.from = 0
        BY <3>10
      <4>3. got.frame = k /\ (k # 0 => got.upto = sent[k].data)
        BY <1>5 DEF GotAll
      <4> QED BY <4>1, <4>2, <4>3 DEF Gives
    <3> QED BY <3>16, <3>21, <3>22 DEF Kept
  <2> QED BY <2>6, <2>7, <1>7
<1> QED BY <1>13, <1>14

\* Frame k + 1 is the next of the good ones.
LEMMA GoodNext ==
  ASSUME NEW s \in Seq(Shapes), NEW k \in Nat, k < Len(s), s[k + 1].ok = "yes",
         \A i \in 1..k : s[i].ok = "yes"
  PROVE  k + 1 \in Good(s)
<1>1. k + 1 \in 1..Len(s)
  OBVIOUS
<1>2. \A i \in 1..(k + 1) : i \in 1..k \/ i = k + 1
  OBVIOUS
<1>3. \A i \in 1..(k + 1) : s[i].ok = "yes"
  BY <1>2
<1> QED BY <1>1, <1>3 DEF Good

\* A further piece of a frame.
LEMMA ParsesPiece ==
  ASSUME IInv, pc = "parse", UNCHANGED <<conn, sent, fed, new, nested>>,
         NEW k \in 0..Len(sent), Whole(k), NEW o \in Nat, Pieces(k, o),
         ParseChunk(frame, raw)
  PROVE  IInv' /\ Gives
<1> USE DEF IInv
<1> DEFINE g == sent[k + 1]
           b == Begin(k)
           d == g.data
           l == NextPiece
           frag == Fragmenting(frame)
<1>1. /\ conn \in Nat /\ sent \in Seq(Shapes) /\ fed \in Nat
      /\ Len(sent) \in Nat /\ Wired \in Seq(Cell) /\ Copied \in Nat
      /\ Copied <= Len(Wired) /\ Len(raw) \in Nat /\ Len(Wired) \in Nat
  BY Now
<1>2. TypeOK /\ raw \in Seq(Cell) /\ left \in Int
      /\ chunk \in [data : Nat, offset : Int, total : Int]
      /\ frame \in [len : Int, hdr : Int]
  BY DEF Types, TypeOK
<1>3. /\ k < Len(sent) /\ g.ok = "yes" /\ Len(raw) >= 8
      /\ raw[8].conn = conn /\ raw[8].frame = k + 1 /\ raw[8].of = g
      /\ chunk.data = 8 /\ chunk.total = d
      /\ frame = [len |-> 5 + d - o, hdr |-> 3]
      /\ got.frame = k + 1 /\ got.conn = conn /\ got.upto = chunk.offset
      /\ chunk.offset = o /\ o < d /\ new = Len(raw) - 8 /\ new > 0
  BY DEF Pieces, InPieces
<1>4. /\ Len(raw) = 8 + (Copied - (b + 8 + o))
      /\ \A j \in 1..Len(raw) : j > 8 => raw[j] = Wired[b + 8 + o + (j - 8)]
  BY DEF Pieces, InPieces, Behind
<1>5. /\ k \in Nat /\ b \in Nat /\ Framed(Wired, b, g, conn, k + 1) /\ k + 1 \in Nat
  BY <1>3, Place
<1>6. /\ g \in Shapes /\ d \in Nat /\ LenOf(g) = 8 + d /\ b + LenOf(g) <= Len(Wired)
  BY <1>3, <1>5 DEF Framed
<1>7. Give(frame, chunk, raw, l, frag)
  <2>1. ~(~Fragmenting(frame) /\ chunk.data = 0 /\ Len(raw) < frame.len + frame.hdr) /\ chunk.data # 0
    BY <1>3
  <2> QED BY <2>1 DEF ParseChunk
<1>8. l = IF o + new > d THEN d - o ELSE new
  BY <1>3 DEF NextPiece
<1> HIDE DEF g, b, d, l
<1>9. l \in Nat /\ l >= 1 /\ l <= new /\ o + l <= d /\ (o + l < d => l = new)
  BY <1>1, <1>3, <1>6, <1>8, SMTT(20)
<1>10. frag => o + l < d
  <2>1. frag => frame.len + frame.hdr > Len(raw)
    BY DEF Fragmenting
  <2>2. /\ frame.len = 5 + d - o /\ frame.hdr = 3
        /\ d \in Nat /\ o \in Nat /\ Len(raw) \in Nat /\ new = Len(raw) - 8
        /\ l = IF o + new > d THEN d - o ELSE new
        /\ l \in Nat /\ o + l <= d
    BY <1>1, <1>3, <1>6, <1>8, <1>9
  <2> HIDE DEF frag
  <2> QED BY ONLY <2>1, <2>2
<1>11. ASSUME NEW i \in 1..l PROVE raw[8 + i].at = o + i
  <2> DEFINE j == 8 + i
             q == b + 8 + o + (j - 8)
  <2>1. j \in 1..Len(raw) /\ j > 8
    BY <1>1, <1>3, <1>9
  <2>2. raw[j] = Wired[q]
    <3> HIDE DEF j
    <3> QED BY <2>1, <1>4
  <2>3. q \in 1..Len(Wired) /\ q > b + 8 /\ q <= b + LenOf(g) /\ q - b - 8 = o + i
    <3>1. b \in Nat /\ d \in Nat /\ b + LenOf(g) <= Len(Wired) /\ Len(Wired) \in Nat
          /\ LenOf(g) = 8 + d
      BY <1>1, <1>5, <1>6
    <3>2. i \in 1..l /\ l \in Nat /\ o + l <= d /\ o \in Nat
      BY <1>9
    <3> QED BY ONLY <3>1, <3>2
  <2> HIDE DEF q
  <2>4. Wired[q].at = q - b - 8
    BY <2>3, <1>3, <1>5 DEF Framed
  <2> QED BY <2>2, <2>3, <2>4
<1> HIDE DEF frag
<1>12. /\ pc' = "callback" /\ frame' = frame /\ raw' = raw
       /\ chunk' = [chunk EXCEPT !.offset = @ + l]
       /\ call' = [frag |-> frag, wanted |-> frame.len + frame.hdr, len |-> l]
       /\ got' = [conn |-> raw[8].conn, frame |-> raw[8].frame,
                  from |-> IF l = 0 THEN chunk.offset ELSE raw[8 + 1].at - 1,
                  upto |-> IF l = 0 THEN chunk.offset ELSE raw[8 + l].at,
                  eof |-> raw[8].of.eof /\ ~frag]
       /\ UNCHANGED <<left, given, broken>>
  BY <1>3, <1>7 DEF Give
<1> DEFINE e == raw[8].of.eof /\ ~frag
<1>13. got' = [conn |-> conn, frame |-> k + 1, from |-> o, upto |-> o + l, eof |-> e] /\ e \in BOOLEAN
  <2>1. 1 \in 1..l /\ l \in 1..l /\ l # 0
    BY <1>9
  <2>2. raw[8 + 1].at = o + 1 /\ raw[8 + l].at = o + l
    BY <2>1, <1>11
  <2>3. (o + 1) - 1 = o
    OBVIOUS
  <2>4. e \in BOOLEAN
    OBVIOUS
  <2>5. got' = [conn |-> raw[8].conn, frame |-> raw[8].frame,
                  from |-> IF l = 0 THEN chunk.offset ELSE raw[8 + 1].at - 1,
                  upto |-> IF l = 0 THEN chunk.offset ELSE raw[8 + l].at,
                  eof |-> e]
    BY <1>12
  <2> HIDE DEF e
  <2> QED BY <2>1, <2>2, <2>3, <2>4, <2>5, <1>3
<1> HIDE DEF e
<1>14. chunk' \in [data : Nat, offset : Int, total : Int]
       /\ chunk'.data = 8 /\ chunk'.offset = o + l /\ chunk'.total = d
  <2>1. o + l \in Int
    BY <1>9
  <2>2. chunk' = [chunk EXCEPT !.offset = o + l]
    BY <1>12, <1>3
  <2> QED BY <2>1, <2>2, <1>2, <1>3
<1>15. frag \in BOOLEAN
  BY DEF frag, Fragmenting
<1>16. call' \in [frag : BOOLEAN, wanted : Int, len : Int] /\ call'.frag = frag
       /\ call'.wanted = frame.len + 3 /\ call'.len = l
  <2>1. frame.len + frame.hdr \in Int /\ frame.hdr = 3
    BY <1>2, <1>3, SMTT(20)
  <2> QED BY <2>1, <1>9, <1>12, <1>15
<1>17. got' \in [conn : Nat, frame : Nat, from : Int, upto : Int, eof : BOOLEAN]
  <2>1. o + l \in Int /\ o \in Int
    BY <1>9
  <2> QED BY <2>1, <1>1, <1>5, <1>13
<1>18. Kept
  <2>1. raw' \in Seq(Cell) /\ Len(raw') = Len(raw) /\ frame' \in [len : Int, hdr : Int]
    BY <1>2, <1>12
  <2> QED BY <2>1, <1>12, <1>14, <1>16, <1>17, GoesOn
<1>19. Wired' = Wired /\ Copied' = Copied
  BY <1>18 DEF Kept
<1>20. Begin(k)' = b /\ k \in 0..Len(sent') /\ Whole(k)' /\ sent'[k + 1] = g
  BY DEF Begin, Whole, b, g
<1>21. Behind(8, Begin(k) + 8 + o)'
  BY <1>4, <1>12, <1>19, <1>20 DEF Behind
<1>22. InPieces(k, o)'
  <2>1. got'.frame = k + 1 /\ got'.conn = conn /\ got'.upto = chunk'.offset
    BY <1>13, <1>14
  <2>2. sent'[k + 1].data = d
    BY <1>20 DEF d
  <2> QED BY <2>1, <2>2, <1>3, <1>12, <1>14, <1>20, <1>21 DEF InPieces
<1>23. Calling(k, o)'
  <2>1. sent'[k + 1].data = d
    BY <1>20 DEF d
  <2>2. Len(raw') >= 8 + l /\ (o + l < d => l >= 1 /\ Len(raw') = 8 + l)
    <3>1. Len(raw') = Len(raw)
      BY <1>12
    <3>2. /\ Len(raw) \in Nat /\ new = Len(raw) - 8 /\ l \in Nat /\ l >= 1 /\ l <= new
          /\ o + l < d => l = new
      BY <1>1, <1>3, <1>9
    <3> QED BY ONLY <3>1, <3>2
  <2> QED BY <2>1, <2>2, <1>9, <1>10, <1>12, <1>14, <1>16, <1>22, SMTT(20) DEF Calling
<1>24. Midway'
  BY <1>20, <1>23 DEF Midway, At
<1>25. k + 1 \in Good(sent)
  BY <1>1, <1>3, <1>5, GoodNext DEF Whole, g
<1>26. Gives
  <2>1. got'.conn = conn /\ got'.frame = k + 1 /\ got'.from = o
    BY <1>13
  <2> QED BY <2>1, <1>3, <1>25 DEF Gives
<1> QED BY <1>18, <1>24, <1>26 DEF Kept

\* Less than a line is left for later.
LEMMA ParsesNothing ==
  ASSUME IInv, pc = "parse", UNCHANGED <<conn, sent, fed, new, nested>>,
         Wait(frame, raw),
         Len(raw) < 3 \/ (frame.len < 0 /\ LineEnd(raw) = 0)
  PROVE  IInv' /\ Gives
<1> USE DEF IInv
<1>1. /\ conn \in Nat /\ sent \in Seq(Shapes) /\ fed \in Nat
      /\ Len(sent) \in Nat /\ Wired \in Seq(Cell) /\ Copied \in Nat
      /\ Copied <= Len(Wired) /\ Len(raw) \in Nat /\ Len(Wired) \in Nat
  BY Now
<1>2. TypeOK /\ raw \in Seq(Cell) /\ frame \in [len : Int, hdr : Int]
      /\ chunk \in [data : Nat, offset : Int, total : Int]
      /\ call \in [frag : BOOLEAN, wanted : Int, len : Int]
      /\ got \in [conn : Nat, frame : Nat, from : Int, upto : Int, eof : BOOLEAN]
  BY DEF Types, TypeOK
<1>3. Cap \in Nat /\ Cap > 8
  BY ParserBounds, HeadersFit
<1>4. ~broken
  BY DEF Breaks
<1>5. PICK k \in 0..Len(sent) : Whole(k) /\ At(k)
  BY <1>4 DEF Midway
<1>6. /\ Return /\ UNCHANGED <<frame, raw, left, chunk, given, broken, call, got>>
  BY DEF Wait
<1>7. Kept
  BY <1>2, <1>6, GoesOn
<1>8. Wired' = Wired /\ Copied' = Copied /\ pc' # "callback"
  BY <1>6, <1>7 DEF Kept, Return
<1>9. Begin(k)' = Begin(k) /\ k \in 0..Len(sent') /\ Whole(k)'
  BY <1>5 DEF Begin, Whole
<1>10. k \in Nat /\ Begin(k) \in Nat /\ (k < Len(sent) => Framed(Wired, Begin(k), sent[k + 1], conn, k + 1))
  BY Place
<1>11. At(k)'
  <2>1. CASE Fresh(k)
    <3>1. Short(k)'
      <4> SUFFICES ASSUME k < Len(sent), sent[k + 1].ok = "yes"
                   PROVE  Len(raw) < LenOf(sent[k + 1]) /\ Len(raw) < Cap
        BY <1>6 DEF Short
      <4> DEFINE g == sent[k + 1]
                 b == Begin(k)
      <4>1. Framed(Wired, b, g, conn, k + 1) /\ g.ok = "yes"
        BY <1>10
      <4>2. LenOf(g) = 8 + g.data /\ g.data \in Nat
        BY <4>1 DEF Framed
      <4>3. Len(raw) < 3
        <5> SUFFICES ASSUME Len(raw) >= 3, frame.len < 0 /\ LineEnd(raw) = 0 PROVE FALSE
          BY <1>1
        <5>1. \A j \in 1..Len(raw) : j > 0 => raw[j] = Wired[b + (j - 0)]
          BY <2>1 DEF Fresh, Behind
        <5>2. 1 \in 1..Len(raw) /\ 2 \in 1..Len(raw) /\ 3 \in 1..Len(raw)
          BY <1>1
        <5>3. raw[1] = Wired[b + 1] /\ raw[2] = Wired[b + 2] /\ raw[3] = Wired[b + 3]
          <6> HIDE DEF b
          <6> QED BY <5>1, <5>2
        <5>4. raw[1].kind # "cr" /\ raw[2].kind = "cr" /\ raw[3].kind = "lf"
          BY <4>1, <5>3 DEF Framed
        <5>5. LineEnd(raw) = 3
          BY <5>4, <1>2, LineEndIs
        <5> QED BY <5>5
      <4> HIDE DEF g
      <4> QED BY <4>2, <4>3, <1>1, <1>3, SMTT(20) DEF g
    <3> QED BY <2>1, <3>1, <1>6, <1>8, <1>9 DEF Fresh, At, Behind, GotAll
  <2>2. CASE Headed(k)
    <3>1. Len(raw) >= 3 /\ frame.len \in Nat
      <4>1. sent[k + 1] \in Shapes
        BY <2>2, <1>1, <1>10 DEF Headed
      <4> DEFINE g == sent[k + 1]
      <4> HIDE DEF g
      <4>2. g \in Shapes
        BY <4>1 DEF g
      <4>3. Len(ChunkOf(g)) \in Nat
        BY <4>2, ChunkIs
      <4> QED BY <4>3, <2>2 DEF Headed, g
    <3> QED BY <3>1, <1>1
  <2>3. CASE Stuck(k)
    BY <2>3, <1>6, <1>8, <1>9 DEF Stuck, At, GotAll
  <2>4. CASE \E o \in Nat : Pieces(k, o) \/ Calling(k, o)
    <3>1. PICK o \in Nat : Pieces(k, o)
      BY <2>4 DEF Calling
    <3>2. frame.len = 5 + sent[k + 1].data - o /\ o < sent[k + 1].data /\ Len(raw) >= 8
          /\ k < Len(sent)
      BY <3>1 DEF Pieces, InPieces
    <3>3. sent[k + 1].data \in Nat
      BY <3>2, <1>10 DEF Framed
    <3>4. ~(Len(raw) < 3) /\ ~(frame.len < 0)
      <4> DEFINE d == sent[k + 1].data
      <4>1. frame.len = 5 + d - o /\ o < d /\ d \in Nat /\ Len(raw) >= 8
        BY <3>2, <3>3
      <4> HIDE DEF d
      <4> QED BY <4>1, <1>1
    <3> QED BY <3>4
  <2> QED BY <1>5, <2>1, <2>2, <2>3, <2>4 DEF At
<1>12. Midway'
  BY <1>9, <1>11 DEF Midway
<1>13. Gives
  BY <1>6 DEF Gives
<1> QED BY <1>7, <1>12, <1>13 DEF Kept

\* The first line is there.
LEMMA ParsesLine ==
  ASSUME IInv, pc = "parse", UNCHANGED <<conn, sent, fed, new, nested>>,
         Len(raw) >= 3, frame.len < 0, LineEnd(raw) > 0,
         NEW z, z = ZeroedAt(raw, {LineEnd(raw) - 1}),
         IF raw[1].kind = "num"
         THEN ParseChunk([len |-> Len(ChunkOf(raw[1].of)), hdr |-> LineEnd(raw)], z)
         ELSE Fail([len |-> -1, hdr |-> LineEnd(raw)], z) /\ UNCHANGED <<call, got>>
  PROVE  IInv' /\ Gives
<1> USE DEF IInv
<1>1. /\ conn \in Nat /\ sent \in Seq(Shapes) /\ fed \in Nat
      /\ Len(sent) \in Nat /\ Wired \in Seq(Cell) /\ Copied \in Nat
      /\ Copied <= Len(Wired) /\ Len(raw) \in Nat /\ Len(Wired) \in Nat
      /\ fed = Copied + Len(given) /\ Len(given) \in Nat
  BY Now
<1>2. TypeOK /\ raw \in Seq(Cell) /\ frame \in [len : Int, hdr : Int]
      /\ chunk \in [data : Nat, offset : Int, total : Int]
      /\ call \in [frag : BOOLEAN, wanted : Int, len : Int]
      /\ got \in [conn : Nat, frame : Nat, from : Int, upto : Int, eof : BOOLEAN]
  BY DEF Types, TypeOK
<1>3. ~broken
  BY DEF Breaks
<1>4. PICK k \in 0..Len(sent) : Whole(k) /\ At(k)
  BY <1>3 DEF Midway
<1> DEFINE g == sent[k + 1]
           b == Begin(k)
           end == LineEnd(raw)
<1>5. /\ k \in Nat /\ b \in Nat
      /\ k < Len(sent) => Framed(Wired, b, g, conn, k + 1)
      /\ ~(k < Len(sent)) => b = Len(Wired)
  BY Place
<1>6. end \in Nat /\ end - 1 \in Crlfs(raw) /\ end >= 2
  BY <1>2, LineEndAfter, SMTT(20)
<1>7. /\ z \in Seq(Cell) /\ Len(z) = Len(raw)
      /\ \A j \in 1..Len(raw) : Masked(z[j], raw[j])
      /\ \A j \in 1..Len(raw) : j \notin {end - 1} /\ j - 1 \notin {end - 1} => z[j] = raw[j]
  BY <1>2, ZeroedIs
<1>8. 1 \in 1..Len(raw) /\ 2 \in 1..Len(raw) /\ 3 \in 1..Len(raw)
  BY <1>1
<1>9. Fresh(k) \/ Stuck(k)
  <2>1. ~Headed(k)
    <3> SUFFICES ASSUME Headed(k) PROVE FALSE
      OBVIOUS
    <3>1. k < Len(sent) /\ frame.len = Len(ChunkOf(g))
      BY DEF Headed
    <3>2. g \in Shapes
      BY <3>1, <1>5 DEF Framed
    <3> HIDE DEF g
    <3>3. Len(ChunkOf(g)) \in Nat
      BY <3>2, ChunkIs
    <3> QED BY <3>1, <3>3
  <2>2. ASSUME NEW o \in Nat PROVE ~Pieces(k, o) /\ ~Calling(k, o)
    <3>1. ~Calling(k, o)
      BY DEF Calling
    <3>2. ~Pieces(k, o)
      <4> SUFFICES ASSUME Pieces(k, o) PROVE FALSE
        OBVIOUS
      <4> DEFINE d == g.data
      <4>1. frame.len = 5 + d - o /\ o < d /\ k < Len(sent)
        BY DEF Pieces, InPieces
      <4>2. d \in Nat
        BY <4>1, <1>5 DEF Framed
      <4> HIDE DEF d
      <4> QED BY <4>1, <4>2
    <3> QED BY <3>1, <3>2
  <2> QED BY <1>4, <2>1, <2>2 DEF At
<1>10. k < Len(sent) /\ b < Copied /\ GotAll(k) /\ chunk = NoChunk
       /\ Framed(Wired, b, g, conn, k + 1)
  <2>1. CASE Fresh(k)
    <3>1. Len(raw) = 0 + (Copied - b) /\ GotAll(k) /\ chunk = NoChunk
      BY <2>1 DEF Fresh, Behind
    <3>2. b < Copied
      <4> HIDE DEF b
      <4> QED BY <3>1, <1>1, <1>5
    <3>3. k < Len(sent)
      <4> HIDE DEF b
      <4> QED BY <3>2, <1>1, <1>5
    <3> QED BY <3>1, <3>2, <3>3, <1>5
  <2>2. CASE Stuck(k)
    BY <2>2, <1>5 DEF Stuck
  <2> QED BY <1>9, <2>1, <2>2
<1>11. Fresh(k) => Len(raw) = Copied - b /\ \A j \in 1..Len(raw) : raw[j] = Wired[b + j]
  <2> SUFFICES ASSUME Fresh(k) PROVE Len(raw) = Copied - b /\ \A j \in 1..Len(raw) : raw[j] = Wired[b + j]
    OBVIOUS
  <2>1. Len(raw) = 0 + (Copied - b) /\ \A j \in 1..Len(raw) : j > 0 => raw[j] = Wired[b + (j - 0)]
    BY DEF Fresh, Behind
  <2>2. \A j \in 1..Len(raw) : j > 0 /\ j - 0 = j
    OBVIOUS
  <2>3. Len(raw) = Copied - b
    <3> HIDE DEF b
    <3> QED BY <2>1, <1>1, <1>5
  <2> QED BY <2>1, <2>2, <2>3
<1>12. Fresh(k) => raw[1].of = g /\ raw[1] = Wired[b + 1]
  <2> SUFFICES ASSUME Fresh(k) PROVE raw[1].of = g /\ raw[1] = Wired[b + 1]
    OBVIOUS
  <2>1. raw[1] = Wired[b + 1]
    BY <1>8, <1>11
  <2> DEFINE q == b + 1
  <2>2. LenOf(g) >= 1 /\ LenOf(g) \in Nat
    <3>1. g \in Shapes
      BY <1>10 DEF Framed
    <3>2. g.ok \in {"yes", "bad_frame", "bad_chunk", "no_line"} /\ g.data \in Nat
      <4> HIDE DEF g
      <4> QED BY <3>1, ShapesAre
    <3>3. /\ g.ok = "yes" => LenOf(g) = 8 + g.data
          /\ g.ok = "bad_chunk" => LenOf(g) = 3 + Len(ChunkOf(g)) /\ Len(ChunkOf(g)) = 3 + g.data
          /\ g.ok \in {"bad_frame", "no_line"} => LenOf(g) >= 1
          /\ LenOf(g) \in Nat
      BY <1>10 DEF Framed
    <3> HIDE DEF g
    <3> QED BY <3>2, <3>3
  <2>3. q \in 1..Len(Wired) /\ q > b /\ q <= b + LenOf(g)
    <3>1. b < Copied /\ Copied <= Len(Wired) /\ Copied \in Nat /\ Len(Wired) \in Nat /\ b \in Nat
      BY <1>1, <1>5, <1>10
    <3> HIDE DEF b, g
    <3> QED BY <2>2, <3>1
  <2> HIDE DEF q
  <2>4. Wired[q].of = g
    <3> HIDE DEF b, g
    <3> QED BY <2>3, <1>10 DEF Framed
  <2> QED BY <2>1, <2>4 DEF q
<1>13. g.ok \in {"yes", "bad_frame", "bad_chunk", "no_line"}
  <2>1. g \in Shapes
    BY <1>10 DEF Framed
  <2> HIDE DEF g
  <2> QED BY <2>1, ShapesAre
<1>14. CASE g.ok \in {"yes", "bad_chunk"}
  <2>1. Fresh(k)
    BY <1>9, <1>14 DEF Stuck
  <2>2. raw[1].kind = "num" /\ raw[2].kind = "cr" /\ raw[3].kind = "lf"
    <3>1. raw[1] = Wired[b + 1] /\ raw[2] = Wired[b + 2] /\ raw[3] = Wired[b + 3]
      <4> HIDE DEF b
      <4> QED BY <2>1, <1>8, <1>11
    <3> QED BY <3>1, <1>10, <1>14 DEF Framed
  <2>3. end = 3
    BY <2>2, <1>2, LineEndIs
  <2> DEFINE f == [len |-> Len(ChunkOf(g)), hdr |-> 3]
  <2>4. ParseChunk(f, z)
    BY <2>1, <2>2, <2>3, <1>12
  <2>5. \A j \in 1..Len(raw) : Masked(z[j], Wired[b + j])
    BY <2>1, <1>7, <1>11
  <2>6. \A j \in 1..Len(raw) : j > 3 => z[j] = Wired[b + j]
    <3> TAKE j \in 1..Len(raw)
    <3> HAVE j > 3
    <3>1. j \notin {end - 1} /\ j - 1 \notin {end - 1}
      <4> HIDE DEF end
      <4> QED BY <2>3
    <3> QED BY <3>1, <2>1, <1>7, <1>11
  <2>7. Len(raw) = Copied - b
    BY <2>1, <1>11
  <2> HIDE DEF f
  <2>8. f = [len |-> Len(ChunkOf(sent[k + 1])), hdr |-> 3]
    BY DEF f
  <2> QED BY <2>4, <2>5, <2>6, <2>7, <2>8, <1>4, <1>7, <1>10, <1>14, ParsesHead
<1>15. CASE g.ok \in {"bad_frame", "no_line"}
  <2>1. raw[1].kind = "text" /\ raw[1].of = g
    <3>1. CASE Fresh(k)
      BY <3>1, <1>10, <1>12, <1>15 DEF Framed
    <3>2. CASE Stuck(k)
      BY <3>2 DEF Stuck
    <3> QED BY <1>9, <3>1, <3>2
  <2>2. Fail([len |-> -1, hdr |-> end], z) /\ UNCHANGED <<call, got>>
    BY <2>1
  <2>3. z[1] = raw[1]
    <3>1. 1 \notin {end - 1}
      <4>1. raw[end - 1].kind = "cr"
        BY <1>2, <1>6, CrlfsAre
      <4> HIDE DEF end
      <4> QED BY <2>1, <4>1
    <3>2. 1 - 1 \notin {end - 1}
      <4> HIDE DEF end
      <4> QED BY <1>6
    <3> QED BY <3>1, <3>2, <1>7, <1>8
  <2>4. CASE nested
    <3> DEFINE f == [len |-> -1, hdr |-> end]
    <3>1. Return /\ frame' = f /\ raw' = z /\ UNCHANGED <<left, chunk, given, broken, call, got>>
      BY <2>2, <2>4 DEF Fail
    <3>2. frame' \in [len : Int, hdr : Int] /\ frame'.len < 0
      <4> HIDE DEF end
      <4> QED BY <3>1, <1>6
    <3>3. Kept
      BY <3>1, <3>2, <1>2, <1>7, GoesOn
    <3>4. Copied' = Copied /\ pc' # "callback"
      BY <3>1, <3>3 DEF Kept, Return
    <3>5. Begin(k)' = b /\ k \in 0..Len(sent') /\ Whole(k)' /\ GotAll(k)'
      BY <3>1, <1>4, <1>10 DEF Begin, Whole, GotAll
    <3>6. Stuck(k)'
      <4>1. Len(raw') >= 1 /\ raw'[1] = raw[1]
        BY <3>1, <2>3, <1>7
      <4>2. sent'[k + 1] = g /\ Len(sent') = Len(sent)
        OBVIOUS
      <4> HIDE DEF f
      <4> QED BY <4>1, <4>2, <3>1, <3>2, <3>4, <3>5, <2>1, <1>10, <1>15 DEF Stuck
    <3>7. Midway'
      BY <3>5, <3>6 DEF Midway, At
    <3> QED BY <3>1, <3>3, <3>7 DEF Kept, Gives
  <2>5. CASE ~nested
    <3>1. pc' = "idle" /\ Reset(0) /\ given' = <<>> /\ broken' = TRUE /\ UNCHANGED <<call, got>>
      BY <2>2, <2>5 DEF Fail
    <3>2. b < fed
      <4> HIDE DEF b
      <4> QED BY <1>1, <1>5, <1>10
    <3>3. \E i \in 1..Len(sent) : sent[i].ok # "yes" /\ Upto(sent, i - 1) < fed
      BY <3>2, <1>10, <1>15, BadAhead
    <3> QED BY <3>1, <3>3, GivesUp
  <2> QED BY <2>4, <2>5
<1> QED BY <1>13, <1>14, <1>15

\* pk_parser_parse_new_data.
LEMMA Parses ==
  ASSUME IInv, ParseNewData
  PROVE  IInv' /\ Gives
<1> USE DEF IInv
<1> DEFINE end == LineEnd(raw)
           z == ZeroedAt(raw, {end - 1})
<1>1. /\ pc = "parse" /\ UNCHANGED <<conn, sent, fed, new, nested>>
  BY DEF ParseNewData
<1>2. Len(raw) \in Nat /\ raw \in Seq(Cell) /\ frame \in [len : Int, hdr : Int]
      /\ end \in Nat
  <2>1. end = 0 \/ end # 0
    OBVIOUS
  <2> QED BY <2>1, LineEndAfter DEF Types, TypeOK
<1>16. (CASE Len(raw) < 3 -> Wait(frame, raw)
          [] Len(raw) >= 3 /\ frame.len < 0 /\ end = 0 -> Wait(frame, raw)
          [] Len(raw) >= 3 /\ frame.len < 0 /\ end > 0 ->
               IF raw[1].kind = "num"
               THEN ParseChunk([len |-> Len(ChunkOf(raw[1].of)), hdr |-> end], z)
               ELSE Fail([len |-> -1, hdr |-> end], z) /\ UNCHANGED <<call, got>>
          [] OTHER -> ParseChunk(frame, raw))
  BY ONLY ParseNewData DEF ParseNewData
<1>3. CASE Len(raw) < 3
  <2>1. Wait(frame, raw)
    BY <1>16, <1>3
  <2> QED BY <2>1, <1>1, <1>3, ParsesNothing
<1>4. CASE Len(raw) >= 3 /\ frame.len < 0 /\ end = 0
  <2>1. Wait(frame, raw)
    BY <1>16, <1>4
  <2> QED BY <2>1, <1>1, <1>4, ParsesNothing
<1>5. CASE Len(raw) >= 3 /\ frame.len < 0 /\ end > 0
  <2>1. IF raw[1].kind = "num"
        THEN ParseChunk([len |-> Len(ChunkOf(raw[1].of)), hdr |-> end], z)
        ELSE Fail([len |-> -1, hdr |-> end], z) /\ UNCHANGED <<call, got>>
    BY <1>16, <1>5
  <2> QED BY <2>1, <1>1, <1>5, ParsesLine
<1>6. CASE Len(raw) >= 3 /\ frame.len >= 0
  <2>1. ParseChunk(frame, raw)
    <3>1. frame.len \in Int /\ Len(raw) \in Nat
      BY <1>2
    <3>2. ~(Len(raw) < 3) /\ ~(frame.len < 0)
      BY ONLY <3>1, <1>6
    <3> QED BY ONLY <3>2, <1>16
  <2>2. PICK k \in 0..Len(sent) : Whole(k) /\ At(k)
    BY <1>1 DEF Midway, Breaks
  <2>3. ~Fresh(k) /\ ~Stuck(k)
    <3>1. frame.len \in Int /\ frame.len >= 0
      BY <1>2, <1>6
    <3>2. Fresh(k) => frame.len = -1
      BY DEF Fresh, NoFrame
    <3>3. Stuck(k) => frame.len < 0
      BY DEF Stuck
    <3> QED BY ONLY <3>1, <3>2, <3>3
  <2>4. CASE Headed(k)
    <3>1. /\ k < Len(sent) /\ sent[k + 1].ok \in {"yes", "bad_chunk"} /\ GotAll(k)
          /\ chunk = NoChunk /\ Len(raw) = Copied - Begin(k)
          /\ \A j \in 1..Len(raw) : Masked(raw[j], Wired[Begin(k) + j])
          /\ sent[k + 1].ok = "yes" =>
               \A j \in 1..Len(raw) : j > 3 => raw[j] = Wired[Begin(k) + j]
          /\ frame = [len |-> Len(ChunkOf(sent[k + 1])), hdr |-> 3]
      BY <2>4 DEF Headed
    <3> QED BY <3>1, <2>1, <2>2, <1>1, <1>2, <1>6, ParsesHead
  <2>5. CASE \E o \in Nat : Pieces(k, o) \/ Calling(k, o)
    <3>1. PICK o \in Nat : Pieces(k, o)
      BY <2>5, <1>1 DEF Calling
    <3> QED BY <3>1, <2>1, <2>2, <1>1, ParsesPiece
  <2> QED BY <2>2, <2>3, <2>4, <2>5 DEF At
<1> QED BY <1>2, <1>3, <1>4, <1>5, <1>6

-----------------------------------------------------------------------------
(* The theorems.                                                             *)

\* A step that changes nothing.
LEMMA StandsStill ==
  ASSUME IInv, UNCHANGED vars
  PROVE  IInv'
<1> USE DEF vars, parser
<1>1. Types' /\ BufferAccounted'
  BY DEF IInv, Types, TypeOK, BufferAccounted
<1>2. Reading' /\ Breaks'
  BY DEF IInv, Reading, Breaks, Copied, Wired
<1>3. ~broken' => Midway'
  <2> SUFFICES ASSUME ~broken' PROVE Midway'
    OBVIOUS
  <2>1. PICK k \in 0..Len(sent) : Whole(k) /\ At(k)
    BY DEF IInv, Midway
  <2>2. k \in 0..Len(sent') /\ Whole(k)'
    BY <2>1 DEF Whole
  <2> USE DEF Behind, GotAll, Begin, Copied, Wired
  <2>3. Fresh(k) => Fresh(k)'
    BY DEF Fresh, Short
  <2>4. Headed(k) => Headed(k)'
    BY DEF Headed, Short
  <2>5. Stuck(k) => Stuck(k)'
    BY DEF Stuck
  <2>6. ASSUME NEW o \in Nat PROVE InPieces(k, o) => InPieces(k, o)'
    BY DEF InPieces
  <2>7. ASSUME NEW o \in Nat PROVE Pieces(k, o) => Pieces(k, o)'
    BY <2>6 DEF Pieces
  <2>8. ASSUME NEW o \in Nat PROVE Calling(k, o) => Calling(k, o)'
    BY <2>6 DEF Calling
  <2>9. At(k)'
    BY <2>1, <2>3, <2>4, <2>5, <2>7, <2>8 DEF At
  <2> QED BY <2>2, <2>9 DEF Midway
<1> QED BY <1>1, <1>2, <1>3 DEF IInv

\* Every step keeps the invariant.
LEMMA NextKeeps ==
  ASSUME ~Yielding, IInv, [Next]_vars
  PROVE  IInv'
<1>1. CASE \E n \in 1..MaxRead : Readable(n)
  BY <1>1, Reads
<1>2. CASE NoMemory
  BY <1>2, RunsOut
<1>3. CASE Copy
  BY <1>3, Copies
<1>4. CASE ParseNewData
  BY <1>4, Parses
<1>5. CASE AfterCallback
  BY <1>5, Returns
<1>6. CASE Reconnect
  BY <1>6, Connects
<1>7. CASE UNCHANGED vars
  BY <1>7, StandsStill
<1> QED BY <1>1, <1>2, <1>3, <1>4, <1>5, <1>6, <1>7 DEF Next

\* Every step that gives the callback something gives it what comes next.
LEMMA NextGives ==
  ASSUME IInv, [Next]_vars
  PROVE  Gives
<1>1. CASE ParseNewData
  BY <1>1, Parses
<1>2. CASE Reconnect
  BY <1>2 DEF Reconnect, Nothing, Gives
<1>3. CASE ~ParseNewData /\ ~Reconnect
  <2>1. got' = got
    BY <1>3 DEF Next, Readable, NoMemory, Copy, AfterCallback, vars
  <2> QED BY <2>1 DEF Gives
<1> QED BY <1>1, <1>2, <1>3

\* An idle parser has given all that has arrived.
LEMMA HandedOn ==
  ASSUME IInv, pc = "idle", ~broken, NEW i \in Good(sent), Upto(sent, i) <= fed
  PROVE  got.frame > i \/ (got.frame = i /\ got.upto = sent[i].data)
<1>1. /\ Types /\ Reading /\ Midway /\ given = <<>>
  BY DEF IInv, Reading
<1>2. PICK k \in 0..Len(sent) : Whole(k) /\ At(k)
  BY <1>1 DEF Midway
<1>3. /\ sent \in Seq(Shapes) /\ Len(sent) \in Nat /\ fed \in Nat /\ Copied = fed
      /\ Begin(k) \in Nat /\ k \in Nat /\ Len(raw) \in Nat
      /\ got \in [conn : Nat, frame : Nat, from : Int, upto : Int, eof : BOOLEAN]
  <2>1. Types /\ Reading /\ got \in [conn : Nat, frame : Nat, from : Int, upto : Int, eof : BOOLEAN]
    BY <1>1 DEF Types
  <2>2. Copied \in Nat /\ fed = Copied + Len(given) /\ Len(given) = 0
    BY <1>1, <2>1, Now
  <2> QED BY <1>1, <2>1, <2>2, Now, Place
<1>4. i \in 1..Len(sent) /\ i \in Nat /\ \A j \in 1..i : sent[j].ok = "yes"
  BY DEF Good
<1>5. CASE GotAll(k) /\ i <= k
  BY <1>3, <1>4, <1>5 DEF GotAll
<1>6. ASSUME i > k
      PROVE  k < Len(sent) /\ sent[k + 1].ok = "yes" /\ Begin(k) + LenOf(sent[k + 1]) <= fed
  <2>1. k < Len(sent) /\ k + 1 \in 1..i /\ k + 1 \in 0..Len(sent) /\ i \in (k + 1)..Len(sent)
    BY <1>3, <1>4, <1>6
  <2>2. sent[k + 1].ok = "yes"
    BY <2>1, <1>4
  <2>3. Begin(k + 1) = Begin(k) + LenOf(sent[k + 1])
    BY <2>1, <1>1, Place
  <2>4. Begin(k + 1) <= Upto(sent, i)
    BY <2>1, <1>3, UptoGrows DEF Begin
  <2>5. Begin(k + 1) \in Nat /\ Upto(sent, i) \in Nat
    <3>1. i \in 0..Len(sent)
      BY <1>4
    <3> QED BY <3>1, <2>1, <1>3, WireIs DEF Begin
  <2>6. Begin(k + 1) <= fed
    BY <2>4, <2>5, <1>3
  <2> QED BY <2>1, <2>2, <2>3, <2>6
<1>7. ASSUME i > k, Short(k), Len(raw) = Copied - Begin(k) PROVE FALSE
  <2>1. k < Len(sent) /\ sent[k + 1].ok = "yes" /\ Begin(k) + LenOf(sent[k + 1]) <= fed
    BY <1>6, <1>7
  <2>2. Len(raw) < LenOf(sent[k + 1])
    BY <2>1, <1>7 DEF Short
  <2>3. LenOf(sent[k + 1]) \in Nat
    BY <2>1, <1>1, Place DEF Framed
  <2> QED BY <2>1, <2>2, <2>3, <1>3, <1>7
<1>8. i <= k \/ i > k
  BY <1>3, <1>4
<1>9. CASE Fresh(k)
  <2>1. GotAll(k) /\ Short(k) /\ Len(raw) = 0 + (Copied - Begin(k))
    BY <1>9 DEF Fresh, Behind
  <2>2. Len(raw) = Copied - Begin(k)
    BY <2>1, <1>3
  <2> QED BY <2>1, <2>2, <1>5, <1>7, <1>8
<1>10. CASE Headed(k)
  <2>1. GotAll(k) /\ Short(k) /\ Len(raw) = Copied - Begin(k)
    BY <1>10 DEF Headed
  <2> QED BY <2>1, <1>5, <1>7, <1>8
<1>11. CASE Stuck(k)
  <2>1. GotAll(k) /\ sent[k + 1].ok # "yes"
    BY <1>11 DEF Stuck
  <2> QED BY <2>1, <1>5, <1>6, <1>8
<1>12. CASE \E o \in Nat : Pieces(k, o)
  <2>1. PICK o \in Nat : Pieces(k, o)
    BY <1>12
  <2>2. /\ k < Len(sent) /\ sent[k + 1].ok = "yes" /\ got.frame = k + 1
        /\ Len(raw) = 8 /\ o < sent[k + 1].data
        /\ Len(raw) = 8 + (Copied - (Begin(k) + 8 + o))
    BY <2>1 DEF Pieces, InPieces, Behind
  <2>3. CASE i <= k
    <3>1. got.frame > i
      BY <2>2, <2>3, <1>3, <1>4
    <3> QED BY <3>1
  <2>4. CASE i > k
    <3>1. Begin(k) + LenOf(sent[k + 1]) <= fed
      BY <2>4, <1>6
    <3>2. LenOf(sent[k + 1]) = 8 + sent[k + 1].data /\ sent[k + 1].data \in Nat
      <4>1. sent[k + 1] \in Shapes
        BY <1>3, <2>2
      <4>2. sent[k + 1].ok = "yes"
        BY <2>2
      <4> QED BY ONLY <4>1, <4>2, GoodSize
    <3>3. /\ Copied = fed /\ fed \in Nat /\ Begin(k) \in Nat /\ o \in Nat
          /\ o < sent[k + 1].data /\ 8 = 8 + (Copied - (Begin(k) + 8 + o))
      BY <2>2, <1>3
    <3> DEFINE d == sent[k + 1].data
               z == LenOf(sent[k + 1])
               b == Begin(k)
    <3>4. b + z <= fed /\ z = 8 + d /\ d \in Nat
      BY <3>1, <3>2
    <3>5. fed \in Nat /\ b \in Nat /\ o \in Nat /\ o < d /\ 8 = 8 + (fed - (b + 8 + o))
      BY <3>3
    <3> HIDE DEF d, z, b
    <3>6. FALSE
      BY ONLY <3>4, <3>5
    <3> QED BY <3>6
  <2> QED BY <2>3, <2>4, <1>8
<1>13. ~(\E o \in Nat : Calling(k, o))
  BY DEF Calling
<1> QED BY <1>2, <1>9, <1>10, <1>11, <1>12, <1>13 DEF At

\* The invariant says what NothingHeldBack says.
LEMMA HoldsBack == IInv => NothingHeldBack
<1> SUFFICES ASSUME IInv PROVE NothingHeldBack
  OBVIOUS
<1>1. pc = "idle" /\ ~broken =>
        \A i \in Good(sent) :
           Upto(sent, i) <= fed =>
              got.frame > i \/ (got.frame = i /\ got.upto = sent[i].data)
  BY HandedOn
<1>2. pc = "copy" /\ left = 0 => raw[1].of.ok # "yes"
  <2> SUFFICES ASSUME pc = "copy", left = 0 PROVE raw[1].of.ok # "yes"
    OBVIOUS
  <2>1. ~broken
    BY DEF IInv, Breaks
  <2> QED BY <2>1, FullBuffer
<1>3. broken => \E i \in 1..Len(sent) : sent[i].ok # "yes" /\ Upto(sent, i - 1) < fed
  BY DEF IInv, Breaks
<1> QED BY <1>1, <1>2, <1>3 DEF NothingHeldBack

\* The bytes in the buffer and the room left of it make up the buffer, through every
\* frame that is cut, given on in pieces, moved and dropped (pkproto.c 318-337).
THEOREM ParserBuffer == ~Yielding => (Spec => []BufferAccounted)
<1> SUFFICES ASSUME ~Yielding PROVE Spec => []BufferAccounted
  OBVIOUS
<1>1. Init => IInv
  BY Begins
<1>2. IInv /\ [Next]_vars => IInv'
  BY NextKeeps
<1>3. IInv => BufferAccounted
  BY DEF IInv
<1> QED BY <1>1, <1>2, <1>3, PTL DEF Spec

\* When a read has been dealt with, every well-formed frame that has arrived whole was
\* given to the callback to its end; the buffer is full before a frame only when the
\* frame is malformed, and the tunnel is only broken behind a malformed frame
\* (pkproto.c 345-380).
THEOREM ParserHolds == ~Yielding => (Spec => []NothingHeldBack)
<1> SUFFICES ASSUME ~Yielding PROVE Spec => []NothingHeldBack
  OBVIOUS
<1>1. Init => IInv
  BY Begins
<1>2. IInv /\ [Next]_vars => IInv'
  BY NextKeeps
<1> QED BY <1>1, <1>2, HoldsBack, PTL DEF Spec

\* However TCP and TLS cut the bytes, the callback is given the data of the frames that
\* were sent, in their order, each byte once and each frame to its end before the
\* next, and nothing that follows a malformed frame (pkproto.c 236-340).
THEOREM ParserGives == ~Yielding => (Spec => SameFrames)
<1> SUFFICES ASSUME ~Yielding PROVE Spec => SameFrames
  OBVIOUS
<1>1. Init => IInv
  BY Begins
<1>2. IInv /\ [Next]_vars => IInv'
  BY NextKeeps
<1>3. IInv /\ [Next]_vars => [Gives]_vars
  BY NextGives
<1>4. Spec => [][Gives]_vars
  BY <1>1, <1>2, <1>3, PTL DEF Spec
<1> QED BY <1>4 DEF SameFrames, Gives
-----------------------------------------------------------------------------
(* The timers.                                                               *)

\* The root's index, and how deep the heap may be.
LEMMA RootIndex ==
  /\ D \in Nat /\ D >= 2 /\ Heap0 \in Nat /\ Heap0 >= 1
  /\ IsFiniteSet(Timers)
  /\ Afters \subseteq Nat /\ Repeats \subseteq Nat
  BY TimerSizes DEF Heap0

\* A parent comes before its kids.
LEMMA ParentComesFirst ==
  ASSUME NEW k \in Nat, k > Heap0
  PROVE  Parent(k) \in Nat /\ Heap0 <= Parent(k) /\ Parent(k) < k
<1>1. /\ D \in Nat /\ D >= 2 /\ Heap0 \in Nat
  BY RootIndex
<1> DEFINE m == k - Heap0 - 1
<1>2. m \in Nat
  BY <1>1
<1>3. m \div D \in Nat /\ m \div D <= m
  <2> HIDE DEF m
  <2>1. m \div D \in Int /\ m = D * (m \div D) + (m % D) /\ m % D \in 0..(D - 1)
    BY <1>1, <1>2
  <2> DEFINE q == m \div D
             r == m % D
  <2>2. q \in Int /\ m = D * q + r /\ r \in Nat /\ r < D
    BY <1>1, <2>1
  <2> HIDE DEF q, r
  <2>3. q \in Nat
    <3> SUFFICES ASSUME q <= -1 PROVE FALSE
      BY <2>2
    <3>1. D * q <= D * (-1)
      BY <1>1, <2>2
    <3> QED BY <1>1, <1>2, <2>2, <3>1
  <2>4. q <= D * q
    BY <1>1, <2>3
  <2> QED BY <1>1, <1>2, <2>2, <2>3, <2>4 DEF q
<1>4. Parent(k) = (m \div D) + Heap0
  BY DEF Parent
<1> DEFINE q == m \div D
<1>5. q \in Nat /\ q <= k - Heap0 - 1 /\ Parent(k) = q + Heap0
  BY <1>3, <1>4
<1> HIDE DEF q
<1> QED BY <1>1, <1>5

\* The entries above one, as a set with what is above in it.
LEMMA AboveExists ==
  \E f : f = [k \in Nat |-> {k} \cup (IF k <= Heap0 THEN {} ELSE f[Parent(k)])]
<1> DEFINE Up(S) == \A i \in S : i > Heap0 => Parent(i) \in S
           A(k) == {j \in Nat : \A S \in SUBSET Nat : k \in S /\ Up(S) => j \in S}
           f == [k \in Nat |-> A(k)]
<1>1. Heap0 \in Nat
  BY RootIndex
<1>2. ASSUME NEW k \in Nat, k <= Heap0
      PROVE  A(k) = {k}
  <2>1. {k} \in SUBSET Nat /\ k \in {k} /\ Up({k})
    BY <1>1, <1>2
  <2> QED BY <2>1
<1>3. ASSUME NEW k \in Nat, ~ k <= Heap0
      PROVE  A(k) = {k} \cup A(Parent(k))
  <2>1. k > Heap0 /\ Parent(k) \in Nat
    BY <1>1, <1>3, ParentComesFirst
  <2>2. ASSUME NEW j \in A(Parent(k)), NEW S \in SUBSET Nat, k \in S, Up(S)
        PROVE  j \in S
    BY <2>1, <2>2
  <2>3. ASSUME NEW j \in A(k), j # k, NEW S \in SUBSET Nat, Parent(k) \in S, Up(S)
        PROVE  j \in S
    <3> DEFINE T == S \cup {k}
    <3>1. T \in SUBSET Nat /\ k \in T /\ Up(T)
      BY <2>3
    <3>2. j \in T
      <4> HIDE DEF T
      <4> QED BY <3>1
    <3> QED BY <2>3, <3>2
  <2>4. A(k) \subseteq Nat /\ A(Parent(k)) \subseteq Nat /\ k \in A(k)
    OBVIOUS
  <2>5. \A j \in A(Parent(k)) : j \in A(k)
    BY <2>2, <2>4
  <2>6. \A j \in A(k) : j = k \/ j \in A(Parent(k))
    BY <2>3, <2>4
  <2> HIDE DEF A
  <2> QED BY <2>4, <2>5, <2>6
<1>4. ASSUME NEW k \in Nat
      PROVE  A(k) = {k} \cup (IF k <= Heap0 THEN {} ELSE f[Parent(k)])
  <2>1. CASE k <= Heap0
    BY <1>2, <2>1
  <2>2. CASE ~ k <= Heap0
    <3>1. Parent(k) \in Nat
      BY <1>1, <2>2, ParentComesFirst
    <3>2. f[Parent(k)] = A(Parent(k))
      BY <3>1
    <3>3. A(k) = {k} \cup A(Parent(k))
      BY <1>3, <2>2
    <3> HIDE DEF A, f
    <3> QED BY <2>2, <3>2, <3>3
  <2> QED BY <2>1, <2>2
<1> HIDE DEF A
<1>5. f = [k \in Nat |-> {k} \cup (IF k <= Heap0 THEN {} ELSE f[Parent(k)])]
  BY <1>4
<1> QED BY <1>5

\* What is above an entry: itself, and what is above its parent.
LEMMA AboveIs ==
  ASSUME NEW k \in Nat
  PROVE  Above[k] = {k} \cup (IF k <= Heap0 THEN {} ELSE Above[Parent(k)])
<1>1. Above = [i \in Nat |-> {i} \cup (IF i <= Heap0 THEN {} ELSE Above[Parent(i)])]
  BY AboveExists DEF Above
<1> QED BY <1>1

\* What is above the entry at k is in one line, up to the root.
Line(k) ==
  /\ Above[k] \subseteq Heap0..k /\ k \in Above[k]
  /\ \A i \in Above[k] : Above[i] \subseteq Above[k]
  /\ \A i, j \in Above[k] : i <= j => i \in Above[j]
  /\ \A i \in Above[k] : i # k => \E c \in Above[k] : c > Heap0 /\ Parent(c) = i

\* It is.
LEMMA InLine ==
  ASSUME NEW k \in Nat, k >= Heap0
  PROVE  Line(k)
<1> DEFINE T == {n \in Nat : n >= Heap0 /\ ~Line(n)}
<1> SUFFICES ASSUME T # {} PROVE FALSE
  OBVIOUS
<1>1. Heap0 \in Nat
  BY RootIndex
<1>2. PICK n \in T : \A m \in T : n <= m
  <2>1. T \in SUBSET Nat
    OBVIOUS
  <2> HIDE DEF T
  <2> QED BY <2>1, Least
<1>3. n \in Nat /\ n >= Heap0 /\ ~Line(n)
  OBVIOUS
<1>4. \A m \in Nat : Heap0 <= m /\ m < n => Line(m)
  BY <1>2, <1>3
<1> HIDE DEF T
<1>5. CASE n <= Heap0
  <2>1. n = Heap0 /\ Above[n] = {n}
    BY <1>1, <1>3, <1>5, AboveIs
  <2>2. Above[n] \subseteq Heap0..n
    BY <2>1, <1>1
  <2> QED BY <1>3, <2>1, <2>2 DEF Line
<1>6. CASE ~ n <= Heap0
  <2> DEFINE p == Parent(n)
  <2>1. p \in Nat /\ Heap0 <= p /\ p < n /\ n > Heap0
    BY <1>1, <1>3, <1>6, ParentComesFirst
  <2>2. Above[n] = {n} \cup Above[p]
    BY <1>3, <1>6, AboveIs
  <2>3. Line(p)
    BY <1>4, <2>1
  <2> HIDE DEF p
  <2>4. Above[n] \subseteq Heap0..n /\ n \in Above[n]
    BY <1>1, <1>3, <2>1, <2>2, <2>3 DEF Line
  <2>5. ASSUME NEW i \in Above[n] PROVE Above[i] \subseteq Above[n]
    BY <2>2, <2>3, <2>5 DEF Line
  <2>6. ASSUME NEW i \in Above[n], NEW j \in Above[n], i <= j
        PROVE  i \in Above[j]
    <3>1. CASE j = n
      BY <3>1, <2>6
    <3>2. CASE j # n
      <4>1. j \in Above[p] /\ j <= p
        BY <3>2, <2>2, <2>3, <2>1, <1>1 DEF Line
      <4>2. i # n
        BY <4>1, <2>1, <2>4, <2>6, <1>1
      <4> QED BY <4>1, <4>2, <2>2, <2>3, <2>6 DEF Line
    <3> QED BY <3>1, <3>2
  <2>7. ASSUME NEW i \in Above[n], i # n
        PROVE  \E c \in Above[n] : c > Heap0 /\ Parent(c) = i
    <3>1. i \in Above[p]
      BY <2>2, <2>7
    <3>2. CASE i = p
      BY <3>2, <2>1, <2>4 DEF p
    <3>3. CASE i # p
      BY <3>1, <3>3, <2>2, <2>3 DEF Line
    <3> QED BY <3>2, <3>3
  <2> QED BY <1>3, <2>4, <2>5, <2>6, <2>7 DEF Line
<1> QED BY <1>5, <1>6

\* Nothing of a line is between an entry and its parent.
LEMMA NextInLine ==
  ASSUME NEW k \in Nat, k >= Heap0, NEW i \in Above[k], NEW j \in Above[k], i < j
  PROVE  /\ j > Heap0 /\ Parent(j) \in Above[k] /\ i \in Above[Parent(j)] /\ i <= Parent(j)
         /\ Parent(j) < j
<1>1. Heap0 \in Nat /\ Line(k)
  BY RootIndex, InLine
<1>2. /\ i \in Nat /\ j \in Nat /\ Heap0 <= i /\ Heap0 <= j
      /\ i \in Above[j] /\ Above[j] \subseteq Above[k]
  BY <1>1 DEF Line
<1>3. j > Heap0 /\ Parent(j) \in Nat /\ Heap0 <= Parent(j) /\ Parent(j) < j
  BY <1>1, <1>2, ParentComesFirst
<1>4. Above[j] = {j} \cup Above[Parent(j)]
  BY <1>1, <1>2, <1>3, AboveIs
<1>5. i # j
  BY <1>2
<1>6. Line(Parent(j))
  BY <1>3, InLine
<1>7. i \in Above[Parent(j)] /\ Parent(j) \in Above[j]
  BY <1>2, <1>4, <1>5, <1>6 DEF Line
<1>8. i <= Parent(j)
  BY <1>1, <1>3, <1>6, <1>7 DEF Line
<1> QED BY <1>2, <1>3, <1>7, <1>8

\* A set of numbers that is not empty and bounded has a greatest one.
LEMMA Greatest ==
  ASSUME NEW b \in Nat, NEW T \in SUBSET (0..b), T # {}
  PROVE  \E n \in T : \A m \in T : m <= n
<1> DEFINE R == {m \in Nat : \E n \in T : m = b - n}
<1>1. \A n \in T : b - n \in R
  OBVIOUS
<1>2. PICK m \in R : \A l \in R : m <= l
  <2>1. R \in SUBSET Nat /\ R # {}
    BY <1>1
  <2> HIDE DEF R
  <2> QED BY <2>1, Least
<1>3. PICK n \in T : m = b - n
  OBVIOUS
<1>4. \A l \in T : m <= b - l
  <2> HIDE DEF R
  <2> QED BY <1>1, <1>2
<1>5. \A l \in T : l <= n
  BY <1>3, <1>4
<1> QED BY <1>5

\* An array of n entries.
Filled(h, n) ==
  /\ n \in Nat
  /\ h \in [Heap0..(Heap0 + n - 1) -> [w : Timers, at : Int]]

\* The entry at i is not due before its parent.
InOrder(h, i) == i = Heap0 \/ h[Parent(i)].at <= h[i].at

\* No entry is due before its parent.
Ordered(h) == \A i \in DOMAIN h : InOrder(h, i)

\* None is but the one at k and its kids, and those are not due before k's parent.
OrderedBut(h, k) ==
  /\ \A i \in DOMAIN h : i = Heap0 \/ (i # k /\ Parent(i) # k) => InOrder(h, i)
  /\ k > Heap0 => \A i \in Kids(h, k) : h[Parent(k)].at <= h[i].at

\* What is known of a timer's slot.
Known(h, sl, t) == sl[t] # 0 => sl[t] \in DOMAIN h /\ h[sl[t]].w = t

\* No timer has two entries, and the slots other than k are known.
OneEach(h) == \A i, j \in DOMAIN h : h[i].w = h[j].w => i = j

KnownBut(h, sl, P) ==
  /\ sl \in [Timers -> Nat] /\ OneEach(h)
  /\ \A i \in DOMAIN h \ P : sl[h[i].w] = i

\* The entries themselves.
Entries(h) == {h[i] : i \in DOMAIN h}

\* An array, and its indices.
LEMMA ArrayHas ==
  ASSUME NEW h, NEW n, Filled(h, n)
  PROVE  /\ DOMAIN h = Heap0..(Heap0 + n - 1) /\ DOMAIN h \subseteq Nat /\ n \in Nat
         /\ IsFiniteSet(DOMAIN h) /\ Cardinality(DOMAIN h) = n
         /\ \A i \in DOMAIN h : /\ i \in Nat /\ i >= Heap0 /\ i # 0 /\ h[i].w \in Timers
                                /\ h[i].at \in Int /\ h[i] = [w |-> h[i].w, at |-> h[i].at]
         /\ \A i \in DOMAIN h : i > Heap0 => Parent(i) \in DOMAIN h /\ Parent(i) < i
         /\ n # 0 => Heap0 \in DOMAIN h
<1>1. Heap0 \in Nat /\ Heap0 >= 1 /\ n \in Nat
  BY RootIndex DEF Filled
<1>2. DOMAIN h = Heap0..(Heap0 + n - 1)
  BY DEF Filled
<1>3. IsFiniteSet(DOMAIN h) /\ Cardinality(DOMAIN h) = n
  BY <1>1, <1>2, FS_Interval
<1>4. ASSUME NEW i \in DOMAIN h
      PROVE  /\ i \in Nat /\ i >= Heap0 /\ i # 0 /\ h[i].w \in Timers
             /\ h[i].at \in Int /\ h[i] = [w |-> h[i].w, at |-> h[i].at]
  <2>1. h[i] \in [w : Timers, at : Int]
    BY <1>2 DEF Filled
  <2> QED BY <1>1, <1>2, <2>1
<1>5. ASSUME NEW i \in DOMAIN h, i > Heap0
      PROVE  Parent(i) \in DOMAIN h /\ Parent(i) < i
  BY <1>1, <1>2, <1>4, <1>5, ParentComesFirst
<1>6. DOMAIN h \subseteq Nat /\ (n # 0 => Heap0 \in DOMAIN h)
  BY <1>1, <1>2
<1> QED BY <1>1, <1>2, <1>3, <1>4, <1>5, <1>6

\* Entries that are moved around, from the ones to the others of some indices,
\* stay the entries they were, and their timers know where they are.
LEMMA MovedAbout ==
  ASSUME NEW s, NEW n, Filled(s.heap, n),
         NEW P \in SUBSET DOMAIN s.heap, NEW from \in [P -> P],
         \A i, j \in P : from[i] = from[j] => i = j,
         \A j \in P : \E i \in P : from[i] = j,
         KnownBut(s.heap, s.slot, P)
  PROVE  LET m == Moved(s, from)
         IN  /\ m = [heap |-> m.heap, slot |-> m.slot]
             /\ Filled(m.heap, n) /\ DOMAIN m.heap = DOMAIN s.heap
             /\ \A i \in DOMAIN s.heap :
                   m.heap[i] = IF i \in P THEN s.heap[from[i]] ELSE s.heap[i]
             /\ KnownBut(m.heap, m.slot, {})
             /\ \A t \in Timers : Known(s.heap, s.slot, t) => Known(m.heap, m.slot, t)
             /\ Entries(m.heap) = Entries(s.heap)
<1> DEFINE h == s.heap
           g == [i \in DOMAIN h |-> IF i \in P THEN h[from[i]] ELSE h[i]]
           its(t) == {i \in P : g[i].w = t}
           sl == [t \in Timers |-> IF its(t) # {} THEN CHOOSE i \in its(t) : TRUE ELSE s.slot[t]]
           m == Moved(s, from)
           src(i) == IF i \in P THEN from[i] ELSE i
<1>1. m = [heap |-> g, slot |-> sl] /\ m.heap = g /\ m.slot = sl
  BY DEF Moved
<1>2. /\ DOMAIN h \subseteq Nat /\ \A i \in DOMAIN h : h[i].w \in Timers
      /\ \A i \in DOMAIN h : h[i] \in [w : Timers, at : Int]
      /\ DOMAIN h = Heap0..(Heap0 + n - 1) /\ n \in Nat /\ 0 \notin DOMAIN h
  BY ArrayHas DEF Filled
<1>3. \A i \in DOMAIN h : src(i) \in DOMAIN h /\ g[i] = h[src(i)]
  OBVIOUS
<1>4. \A j \in DOMAIN h : \E i \in DOMAIN h : src(i) = j
  OBVIOUS
<1>5. \A i, j \in DOMAIN h : src(i) = src(j) => i = j
  OBVIOUS
<1>6. DOMAIN g = DOMAIN h
  OBVIOUS
<1>7. OneEach(h) /\ s.slot \in [Timers -> Nat] /\ \A i \in DOMAIN h \ P : s.slot[h[i].w] = i
  BY DEF KnownBut
<1>8. \A i \in P : src(i) \in P
  OBVIOUS
<1>9. \A i \in DOMAIN h \ P : src(i) = i
  OBVIOUS
<1> HIDE DEF src, m, h
<1>10. Filled(g, n)
  <2>1. \A i \in DOMAIN h : g[i] \in [w : Timers, at : Int]
    BY <1>2, <1>3
  <2>2. g = [i \in DOMAIN h |-> g[i]]
    OBVIOUS
  <2> HIDE DEF g
  <2> QED BY <1>2, <2>1, <2>2 DEF Filled
<1>11. OneEach(g)
  <2> HIDE DEF g
  <2> QED BY <1>3, <1>5, <1>6, <1>7 DEF OneEach
<1>12. Entries(g) = Entries(h)
  <2> HIDE DEF g
  <2> QED BY <1>3, <1>4, <1>6 DEF Entries
<1>13. \A t \in Timers : its(t) # {} => sl[t] \in its(t)
  <2> HIDE DEF g, its
  <2> QED OBVIOUS
<1>14. \A t \in Timers : its(t) = {} => sl[t] = s.slot[t]
  <2> HIDE DEF g, its
  <2> QED OBVIOUS
<1>15. \A t \in Timers : \A i : i \in its(t) <=> i \in P /\ g[i].w = t
  <2> HIDE DEF g
  <2> QED OBVIOUS
<1>16. sl \in [Timers -> Nat]
  <2>1. \A t \in Timers : sl[t] \in Nat
    <3> HIDE DEF sl, its, g
    <3> QED BY <1>2, <1>7, <1>13, <1>14, <1>15 DEF h
  <2>2. sl = [t \in Timers |-> sl[t]]
    OBVIOUS
  <2> HIDE DEF sl
  <2> QED BY <2>1, <2>2
<1> HIDE DEF sl, its, g
<1>17. ASSUME NEW i \in DOMAIN h PROVE sl[g[i].w] = i
  <2>1. g[i].w \in Timers /\ g[i] = h[src(i)] /\ src(i) \in DOMAIN h
    BY <1>2, <1>3
  <2>2. CASE i \in P
    <3>1. i \in its(g[i].w)
      BY <1>15, <2>1, <2>2
    <3>2. sl[g[i].w] \in P /\ g[sl[g[i].w]].w = g[i].w
      BY <1>13, <1>15, <2>1, <3>1
    <3> QED BY <3>2, <1>11, <1>6 DEF OneEach, h
  <2>3. CASE i \notin P
    <3>1. src(i) = i /\ g[i] = h[i]
      BY <1>9, <2>1, <2>3
    <3>2. its(g[i].w) = {}
      <4> SUFFICES ASSUME NEW j \in its(g[i].w) PROVE FALSE
        OBVIOUS
      <4>1. j \in P /\ g[j].w = g[i].w
        BY <1>15, <2>1
      <4> QED BY <4>1, <1>11, <1>6, <2>3 DEF OneEach, h
    <3> QED BY <1>7, <1>14, <2>1, <2>3, <3>1, <3>2
  <2> QED BY <2>2, <2>3
<1>18. ASSUME NEW t \in Timers, Known(h, s.slot, t), sl[t] # 0
       PROVE  sl[t] \in DOMAIN g /\ g[sl[t]].w = t
  <2>1. CASE its(t) # {}
    BY <1>6, <1>13, <1>15, <2>1 DEF h
  <2>2. CASE its(t) = {}
    <3>1. sl[t] = s.slot[t] /\ sl[t] \in DOMAIN h /\ h[sl[t]].w = t
      BY <1>14, <1>18, <2>2 DEF Known
    <3>2. sl[t] \notin P
      <4> SUFFICES ASSUME sl[t] \in P PROVE FALSE
        OBVIOUS
      <4>1. PICK i \in P : from[i] = sl[t]
        OBVIOUS
      <4>2. src(i) = sl[t] /\ i \in DOMAIN h
        BY <4>1 DEF src, h
      <4>3. g[i].w = t
        BY <4>2, <1>3, <3>1
      <4> QED BY <4>3, <1>15, <2>2
    <3> QED BY <3>1, <3>2, <1>3, <1>6, <1>9
  <2> QED BY <2>1, <2>2
<1>19. KnownBut(g, sl, {})
  BY <1>6, <1>11, <1>16, <1>17 DEF KnownBut
<1>20. \A t \in Timers : Known(h, s.slot, t) => Known(g, sl, t)
  BY <1>18 DEF Known
<1>21. \A i \in DOMAIN h : g[i] = IF i \in P THEN h[from[i]] ELSE h[i]
  BY DEF g
<1> QED
  BY <1>1, <1>6, <1>10, <1>12, <1>19, <1>20, <1>21 DEF h, m

\* Which entry comes to each index of the way up.
From(h, k) == [i \in WayUp(h, k) |-> IF \E j \in WayUp(h, k) : j < i THEN Parent(i) ELSE k]

\* The way up ends at k, and the entries on it change places.
LEMMA TheWayUp ==
  ASSUME NEW h, NEW n, Filled(h, n), NEW k \in DOMAIN h
  PROVE  LET P == WayUp(h, k)
             from == From(h, k)
         IN  /\ P \in SUBSET DOMAIN h /\ P \subseteq Above[k] /\ k \in P
             /\ from \in [P -> P]
             /\ \A i, j \in P : from[i] = from[j] => i = j
             /\ \A j \in P : \E i \in P : from[i] = j
             /\ \A i \in P : \/ /\ from[i] = Parent(i) /\ i > Heap0
                                /\ h[k].at < h[Parent(i)].at
                             \/ /\ from[i] = k /\ \A j \in P : i <= j
                                /\ i = Heap0 \/ h[Parent(i)].at <= h[k].at
             /\ \A j \in P : j # k => \E i \in P : Parent(i) = j /\ from[i] = j
<1> DEFINE P == WayUp(h, k)
           from == From(h, k)
<1>1. /\ k \in Nat /\ k >= Heap0 /\ Heap0 \in Nat /\ n \in Nat
      /\ DOMAIN h = Heap0..(Heap0 + n - 1)
      /\ \A i \in DOMAIN h : h[i].at \in Int
  BY ArrayHas, RootIndex
<1>2. Line(k)
  BY <1>1, InLine
<1>3. Above[k] \subseteq Nat /\ Above[k] \subseteq DOMAIN h /\ k \in Above[k]
      /\ \A i \in Above[k] : Heap0 <= i /\ i <= k
  BY <1>1, <1>2 DEF Line
<1>4. \A j : j \in P <=> /\ j \in Above[k]
                         /\ \A i \in Above[k] : i > j => h[Parent(i)].at > h[k].at
  BY DEF WayUp
<1>5. \A i \in P : from[i] = IF \E j \in P : j < i THEN Parent(i) ELSE k
  BY DEF From
<1>6. DOMAIN from = P
  BY DEF From
<1> HIDE DEF P, from
<1>7. k \in P
  BY <1>3, <1>4
<1>8. \A j \in P : \A i \in Above[k] : i > j => i \in P
  <2> TAKE j \in P
  <2> TAKE i \in Above[k]
  <2> HAVE i > j
  <2>1. ASSUME NEW l \in Above[k], l > i PROVE h[Parent(l)].at > h[k].at
    BY <1>3, <1>4, <2>1
  <2> QED BY <2>1, <1>4
<1>9. ASSUME NEW i \in P, NEW j \in P, j < i
      PROVE  /\ i > Heap0 /\ Parent(i) \in P /\ Parent(i) < i /\ j <= Parent(i)
             /\ from[i] = Parent(i) /\ h[k].at < h[Parent(i)].at
  <2>1. i \in Above[k] /\ j \in Above[k]
    BY <1>4
  <2>2. /\ i > Heap0 /\ Parent(i) \in Above[k] /\ j <= Parent(i) /\ Parent(i) < i
    BY <1>1, <1>9, <2>1, NextInLine
  <2>3. h[Parent(i)].at > h[k].at
    BY <1>4, <1>9, <2>1
  <2>4. CASE j = Parent(i)
    BY <1>1, <1>3, <1>5, <1>9, <2>2, <2>3, <2>4
  <2>5. CASE j # Parent(i)
    <3>1. Parent(i) > j
      BY <2>2, <2>5, <1>3, <2>1
    <3>2. Parent(i) \in P
      BY <1>8, <2>2, <3>1
    <3> QED BY <1>1, <1>3, <1>5, <1>9, <2>2, <2>3, <3>2
  <2> QED BY <2>4, <2>5
<1>10. ASSUME NEW i \in P, ~\E j \in P : j < i
       PROVE  /\ from[i] = k /\ \A j \in P : i <= j
              /\ i = Heap0 \/ h[Parent(i)].at <= h[k].at
  <2>1. from[i] = k
    BY <1>5, <1>10
  <2>2. \A j \in P : i <= j
    BY <1>3, <1>4, <1>10
  <2>3. ASSUME i # Heap0 PROVE h[Parent(i)].at <= h[k].at
    <3> SUFFICES ASSUME ~ h[Parent(i)].at <= h[k].at PROVE FALSE
      OBVIOUS
    <3>1. i \in Above[k] /\ i \in Nat /\ i > Heap0 /\ Line(i) /\ Above[i] \subseteq Above[k]
      BY <1>1, <1>2, <1>3, <1>4, <2>3, InLine DEF Line
    <3>2. Parent(i) \in Above[i] /\ Parent(i) < i /\ Parent(i) \in Nat
      <4>1. Above[i] = {i} \cup Above[Parent(i)] /\ Parent(i) \in Nat
            /\ Parent(i) >= Heap0 /\ Parent(i) < i
        BY <1>1, <3>1, AboveIs, ParentComesFirst
      <4>2. Line(Parent(i))
        BY <4>1, InLine
      <4> QED BY <4>1, <4>2 DEF Line
    <3>3. h[Parent(i)].at > h[k].at
      BY <1>1, <1>3, <3>1, <3>2
    <3>4. ASSUME NEW l \in Above[k], l > Parent(i) PROVE h[Parent(l)].at > h[k].at
      <4>1. CASE l > i
        BY <4>1, <1>4
      <4>2. CASE l = i
        BY <4>2, <3>3
      <4>3. CASE l < i
        <5>1. l <= Parent(i)
          BY <4>3, <3>1, <1>1, NextInLine
        <5> QED BY <5>1, <3>4, <3>2, <1>3
      <4> QED BY <4>1, <4>2, <4>3, <1>3, <3>1
    <3>5. Parent(i) \in P
      BY <1>4, <3>1, <3>2, <3>4
    <3> QED BY <3>5, <3>2, <1>10
  <2> QED BY <2>1, <2>2, <2>3
<1>11. \A i \in P : from[i] \in P
  BY <1>7, <1>9, <1>10
<1>12. from \in [P -> P]
  <2>1. from = [i \in P |-> from[i]]
    BY DEF from, P, From
  <2> QED BY <1>11, <2>1
<1>13. ASSUME NEW i \in P, NEW j \in P, i < j
       PROVE  from[i] # from[j]
  <2>1. from[j] = Parent(j) /\ i <= Parent(j) /\ Parent(j) < j
    BY <1>9, <1>13
  <2>2. CASE \E l \in P : l < i
    <3>1. from[i] = Parent(i) /\ Parent(i) < i
      BY <1>9, <2>2
    <3>2. Parent(i) \in P /\ Parent(j) \in P
      BY <1>9, <1>13, <2>2
    <3> QED BY <1>3, <1>4, <2>1, <3>1, <3>2
  <2>3. CASE ~\E l \in P : l < i
    <3>1. from[i] = k /\ j <= k
      BY <1>3, <1>4, <1>10, <2>3
    <3>2. Parent(j) \in P
      BY <1>9, <1>13
    <3> QED BY <1>3, <1>4, <2>1, <3>1, <3>2
  <2> QED BY <2>2, <2>3
<1>14. \A i, j \in P : from[i] = from[j] => i = j
  BY <1>3, <1>4, <1>13
<1>15. ASSUME NEW j \in P, j # k
       PROVE  \E i \in P : Parent(i) = j /\ from[i] = j
  <2>1. PICK c \in Above[k] : c > Heap0 /\ Parent(c) = j
    BY <1>2, <1>4, <1>15 DEF Line
  <2>2. j < c
    BY <1>1, <1>3, <2>1, ParentComesFirst
  <2>3. c \in P
    BY <1>8, <2>1, <2>2
  <2> QED BY <1>9, <2>1, <2>2, <2>3
<1>16. \A j \in P : \E i \in P : from[i] = j
  <2>1. PICK i \in P : \A j \in P : i <= j
    <3>1. P \in SUBSET Nat /\ P # {}
      BY <1>3, <1>4, <1>7
    <3> QED BY <3>1, Least
  <2>2. ~\E j \in P : j < i
    BY <2>1, <1>3, <1>4
  <2>3. from[i] = k
    BY <2>2, <1>10
  <2> QED BY <1>15, <2>3
<1>17. P \in SUBSET DOMAIN h /\ P \subseteq Above[k]
  BY <1>3, <1>4
<1>18. \A i \in P : \/ /\ from[i] = Parent(i) /\ i > Heap0
                       /\ h[k].at < h[Parent(i)].at
                    \/ /\ from[i] = k /\ \A j \in P : i <= j
                       /\ i = Heap0 \/ h[Parent(i)].at <= h[k].at
  BY <1>9, <1>10
<1> QED
  BY <1>7, <1>12, <1>14, <1>15, <1>16, <1>17, <1>18 DEF P, from

\* Of some indices one has the least value; of equals, the first one.
LEMMA FirstOfLeast ==
  ASSUME NEW b \in Nat, NEW T \in SUBSET (0..b), T # {}, NEW f,
         \A i \in T : f[i] \in Int
  PROVE  \E i \in T : \A j \in T : f[i] < f[j] \/ (f[i] = f[j] /\ i <= j)
<1> DEFINE IsFirst(S, i) == i \in S /\ \A j \in S : f[i] < f[j] \/ (f[i] = f[j] /\ i <= j)
           Fits == {m \in Nat : \A S \in SUBSET T : S # {} /\ S \subseteq 0..m
                                                  => \E i : IsFirst(S, i)}
<1>1. 0 \in Fits
  <2> SUFFICES ASSUME NEW S \in SUBSET T, S # {}, S \subseteq 0..0
               PROVE  \E i : IsFirst(S, i)
    OBVIOUS
  <2>1. \A i \in S : i = 0
    OBVIOUS
  <2>2. 0 \in S /\ f[0] \in Int
    BY <2>1
  <2>3. IsFirst(S, 0)
    BY <2>1, <2>2
  <2> HIDE DEF IsFirst
  <2> QED BY <2>3
<1>2. ASSUME NEW m \in Fits PROVE m + 1 \in Fits
  <2>1. m \in Nat /\ m + 1 \in Nat
    OBVIOUS
  <2> SUFFICES ASSUME NEW S \in SUBSET T, S # {}, S \subseteq 0..(m + 1)
               PROVE  \E i : IsFirst(S, i)
    BY <2>1
  <2>2. \A i \in S : f[i] \in Int /\ i \in Nat
    OBVIOUS
  <2> DEFINE R == S \ {m + 1}
  <2>3. R \in SUBSET T /\ R \subseteq 0..m
    BY <2>1
  <2>4. CASE R = {}
    <3>1. S = {m + 1}
      BY <2>4
    <3>2. IsFirst(S, m + 1)
      BY <3>1, <2>1, <2>2
    <3> HIDE DEF IsFirst
    <3> QED BY <3>2
  <2>5. CASE R # {}
    <3>1. PICK i : IsFirst(R, i)
      <4> HIDE DEF R, First
      <4> QED BY <2>3, <2>5
    <3>2. i \in R /\ i \in S /\ f[i] \in Int /\ i <= m
      BY <3>1, <2>2, <2>3
    <3>3. CASE m + 1 \in S /\ f[m + 1] < f[i]
      <4>1. IsFirst(S, m + 1)
        BY <3>1, <3>2, <3>3, <2>1, <2>2
      <4> HIDE DEF IsFirst
      <4> QED BY <4>1
    <3>4. CASE ~(m + 1 \in S /\ f[m + 1] < f[i])
      <4>1. IsFirst(S, i)
        BY <3>1, <3>2, <3>4, <2>1, <2>2
      <4> HIDE DEF IsFirst
      <4> QED BY <4>1
    <3> QED BY <3>3, <3>4
  <2> QED BY <2>4, <2>5
<1> HIDE DEF IsFirst
<1>3. Fits = Nat
  <2>1. Fits \in SUBSET Nat
    OBVIOUS
  <2> HIDE DEF Fits
  <2> QED BY <1>1, <1>2, <2>1, Induct
<1>4. \E i : IsFirst(T, i)
  BY <1>3
<1> QED BY <1>4 DEF IsFirst

\* The first of the kids.
LEMMA TheFirstKid ==
  ASSUME NEW h, NEW n, Filled(h, n), NEW k, Kids(h, k) # {}
  PROVE  /\ FirstKid(h, k) \in Kids(h, k)
         /\ \A j \in Kids(h, k) : h[FirstKid(h, k)].at <= h[j].at
<1>1. /\ DOMAIN h = Heap0..(Heap0 + n - 1) /\ \A i \in DOMAIN h : h[i].at \in Int
      /\ Heap0 \in Nat /\ n \in Nat
  BY ArrayHas, RootIndex
<1> DEFINE K == Kids(h, k)
           f == [i \in K |-> h[i].at]
<1>2. K \subseteq DOMAIN h
  BY DEF Kids
<1> HIDE DEF K
<1>3. Heap0 + n \in Nat /\ K \in SUBSET (0..(Heap0 + n)) /\ \A i \in K : f[i] \in Int
  BY <1>1, <1>2
<1>4. \E i \in K : \A j \in K : f[i] < f[j] \/ (f[i] = f[j] /\ i <= j)
  <2> HIDE DEF f
  <2> QED BY <1>3, FirstOfLeast DEF K
<1>5. \A i, j \in K : f[i] = h[i].at /\ f[j] = h[j].at
  OBVIOUS
<1> HIDE DEF f
<1>6. \E i \in K : \A j \in K : h[i].at < h[j].at \/ (h[i].at = h[j].at /\ i <= j)
  BY <1>4, <1>5
<1>7. /\ FirstKid(h, k) \in K
      /\ \A j \in K : \/ h[FirstKid(h, k)].at < h[j].at
                     \/ (h[FirstKid(h, k)].at = h[j].at /\ FirstKid(h, k) <= j)
  BY <1>6 DEF FirstKid, K
<1>8. \A j \in K : h[FirstKid(h, k)].at <= h[j].at
  BY <1>1, <1>2, <1>7
<1> QED BY <1>7, <1>8 DEF K

\* Which entry comes to each index of the way down.
To(h, k) == [i \in WayDown(h, k) |->
               IF \E j \in WayDown(h, k) : j > i THEN FirstKid(h, i) ELSE k]

\* The way down starts at k, and the entries on it change places.
LEMMA TheWayDown ==
  ASSUME NEW h, NEW n, Filled(h, n), NEW k \in DOMAIN h
  PROVE  LET P == WayDown(h, k)
             from == To(h, k)
         IN  /\ P \in SUBSET DOMAIN h /\ k \in P
             /\ from \in [P -> P]
             /\ \A i, j \in P : from[i] = from[j] => i = j
             /\ \A j \in P : \E i \in P : from[i] = j
             /\ \A i \in P : \/ /\ from[i] = FirstKid(h, i) /\ Kids(h, i) # {}
                                /\ from[i] # k /\ Parent(from[i]) = i
                             \/ /\ from[i] = k
                                /\ \A j \in Kids(h, i) : h[k].at <= h[j].at
             /\ \A j \in P : j # k => /\ j > Heap0 /\ Parent(j) \in P
                                      /\ from[Parent(j)] = j /\ h[j].at < h[k].at
<1> DEFINE P == WayDown(h, k)
           from == To(h, k)
<1>1. /\ k \in Nat /\ k >= Heap0 /\ Heap0 \in Nat /\ n \in Nat
      /\ DOMAIN h = Heap0..(Heap0 + n - 1)
      /\ \A i \in DOMAIN h : h[i].at \in Int /\ i \in Nat /\ Heap0 <= i
  BY ArrayHas, RootIndex
<1>2. \A j \in DOMAIN h : Line(j)
  BY <1>1, InLine
<1>3. \A j : j \in P <=> /\ j \in DOMAIN h /\ k \in Above[j]
                         /\ \A i \in Above[j] : i > k => /\ i = FirstKid(h, Parent(i))
                                                         /\ h[i].at < h[k].at
  BY DEF WayDown
<1>4. \A i \in P : from[i] = IF \E j \in P : j > i THEN FirstKid(h, i) ELSE k
  BY DEF To
<1>5. from = [i \in P |-> from[i]]
  BY DEF To
<1> HIDE DEF P, from
<1>6. k \in P
  <2>1. k \in Above[k] /\ \A i \in Above[k] : i <= k
    BY <1>1, <1>2 DEF Line
  <2>2. \A i \in Above[k] : ~ i > k
    BY <2>1, <1>1, <1>2 DEF Line
  <2> QED BY <1>3, <2>1, <2>2
<1>7. \A j \in P : j \in DOMAIN h /\ j \in Nat /\ k <= j
  BY <1>1, <1>2, <1>3 DEF Line
<1>8. ASSUME NEW j \in P, j # k
      PROVE  /\ j > Heap0 /\ j > k /\ Parent(j) \in P /\ Parent(j) < j
             /\ j = FirstKid(h, Parent(j)) /\ h[j].at < h[k].at
             /\ Above[j] = {j} \cup Above[Parent(j)]
  <2>1. j > k /\ j \in Above[j] /\ k \in Above[j]
    BY <1>1, <1>2, <1>3, <1>7, <1>8 DEF Line
  <2>2. /\ j > Heap0 /\ Parent(j) \in Above[j] /\ k \in Above[Parent(j)] /\ Parent(j) < j
    BY <1>1, <1>7, <2>1, NextInLine
  <2>3. Parent(j) \in DOMAIN h
    BY <1>7, <2>2, ArrayHas
  <2>4. Above[Parent(j)] \subseteq Above[j]
    BY <1>2, <1>7, <2>2 DEF Line
  <2>5. Parent(j) \in P
    BY <1>3, <2>2, <2>3, <2>4
  <2>6. j = FirstKid(h, Parent(j)) /\ h[j].at < h[k].at
    BY <1>3, <2>1
  <2>7. Above[j] = {j} \cup Above[Parent(j)]
    BY <1>1, <1>7, <2>2, AboveIs
  <2> QED BY <2>1, <2>2, <2>5, <2>6, <2>7
\* All of it is in one line.
<1>9. ASSUME NEW j \in P, NEW i \in Above[j], i >= k
      PROVE  i \in P
  <2>1. i \in DOMAIN h /\ Above[i] \subseteq Above[j]
    <3>1. Above[j] \subseteq Heap0..j /\ Above[i] \subseteq Above[j] /\ j <= Heap0 + n - 1
      BY <1>1, <1>2, <1>7 DEF Line
    <3> QED BY <1>1, <1>7, <3>1
  <2>2. k \in Above[i]
    BY <1>2, <1>3, <1>7, <1>9 DEF Line
  <2> QED BY <1>3, <2>1, <2>2
<1>10. ASSUME NEW j \in P, NEW i \in Above[j], i >= k, i # j
       PROVE  /\ i \in P /\ FirstKid(h, i) \in P /\ FirstKid(h, i) \in Above[j]
              /\ Parent(FirstKid(h, i)) = i /\ FirstKid(h, i) > i
              /\ FirstKid(h, i) \in Kids(h, i)
  <2>1. PICK c \in Above[j] : c > Heap0 /\ Parent(c) = i
    BY <1>2, <1>7, <1>10 DEF Line
  <2>2. c \in Nat /\ c <= j
    BY <1>1, <1>2, <1>7, <2>1 DEF Line
  <2>3. c > i /\ c > k /\ i \in Nat
    <3>1. Parent(c) < c /\ Parent(c) \in Nat
      BY <1>1, <2>1, <2>2, ParentComesFirst
    <3> QED BY <3>1, <2>1, <2>2, <1>1, <1>10
  <2>4. c = FirstKid(h, Parent(c))
    BY <1>3, <2>1, <2>3
  <2>5. c = FirstKid(h, i) /\ c \in P /\ i \in P
    BY <1>9, <1>10, <1>1, <2>1, <2>2, <2>3, <2>4
  <2>6. c \in Kids(h, i)
    BY <1>7, <2>1, <2>5 DEF Kids
  <2> QED BY <2>1, <2>3, <2>5, <2>6
<1>11. \A i, j \in P : i \in Above[j] \/ j \in Above[i]
  <2> DEFINE Bad == {b \in Nat : \E i, j \in P : /\ i <= b /\ j <= b
                                              /\ i \notin Above[j] /\ j \notin Above[i]}
  <2> SUFFICES ASSUME Bad # {} PROVE FALSE
    <3>1. ASSUME NEW i \in P, NEW j \in P, i \notin Above[j], j \notin Above[i]
          PROVE  i + j \in Bad
      BY <1>7, <3>1
    <3> QED BY <3>1
  <2>1. PICK b \in Bad : \A a \in Bad : b <= a
    <3>1. Bad \in SUBSET Nat
      OBVIOUS
    <3> HIDE DEF Bad
    <3> QED BY <3>1, Least
  <2>2. b \in Nat
    OBVIOUS
  <2>3. ASSUME NEW i \in P, NEW j \in P, i < j, j <= b, i \notin Above[j], j \notin Above[i]
        PROVE  FALSE
    <3>1. j # k /\ i \in Nat /\ j \in Nat
      BY <1>1, <1>7, <2>3
    <3> DEFINE p == Parent(j)
    <3>2. p \in P /\ p \in Nat /\ p < j /\ j = FirstKid(h, p) /\ p \in Above[j]
          /\ Above[p] \subseteq Above[j] /\ p >= k
      <4>1. p \in P /\ p < j /\ j = FirstKid(h, p) /\ Above[j] = {j} \cup Above[p]
        BY <1>8, <3>1
      <4>2. p \in Above[p]
        BY <4>1, <1>2, <1>7 DEF Line
      <4> QED BY <4>1, <4>2, <1>7
    <3> HIDE DEF p
    <3>3. i \in Above[p] \/ p \in Above[i]
      <4> SUFFICES ASSUME i \notin Above[p], p \notin Above[i] PROVE FALSE
        OBVIOUS
      <4>1. j - 1 \in Nat /\ i <= j - 1 /\ p <= j - 1
        BY <2>3, <3>1, <3>2
      <4>2. j - 1 \in Bad
        BY <4>1, <3>2
      <4>3. b <= j - 1
        BY <2>1, <4>2
      <4> QED BY <2>2, <2>3, <3>1, <4>3
    <3>4. i \notin Above[p]
      BY <2>3, <3>2
    <3>5. p \in Above[i] /\ p # i
      <4>1. i \in Above[i]
        BY <1>2, <1>7 DEF Line
      <4> QED BY <3>3, <3>4, <4>1
    <3>6. FirstKid(h, p) \in Above[i]
      BY <1>10, <3>2, <3>5
    <3> QED BY <2>3, <3>2, <3>6
  <2>4. PICK i \in P, j \in P : i <= b /\ j <= b /\ i \notin Above[j] /\ j \notin Above[i]
    OBVIOUS
  <2>5. i # j /\ i \in Nat /\ j \in Nat
    BY <1>2, <1>7, <2>4 DEF Line
  <2> HIDE DEF Bad
  <2> QED BY <2>3, <2>4, <2>5
<1>12. ASSUME NEW i \in P, NEW j \in P, j > i
       PROVE  /\ FirstKid(h, i) \in P /\ Parent(FirstKid(h, i)) = i /\ FirstKid(h, i) > i
              /\ from[i] = FirstKid(h, i) /\ FirstKid(h, i) \in Kids(h, i)
  <2>1. i \in Above[j]
    <3>1. Above[i] \subseteq Heap0..i
      BY <1>2, <1>7 DEF Line
    <3>2. j \notin Above[i]
      BY <3>1, <1>1, <1>7, <1>12
    <3> QED BY <1>11, <3>2
  <2>2. i # j /\ i >= k
    BY <1>7, <1>12
  <2> QED BY <1>4, <1>10, <1>12, <2>1, <2>2
<1>13. ASSUME NEW i \in P, ~\E j \in P : j > i
       PROVE  from[i] = k /\ \A j \in Kids(h, i) : h[k].at <= h[j].at
  <2>1. from[i] = k
    BY <1>4, <1>13
  <2>2. ASSUME NEW j \in Kids(h, i) PROVE h[k].at <= h[j].at
    <3> DEFINE c == FirstKid(h, i)
    <3>1. c \in Kids(h, i) /\ h[c].at <= h[j].at
      BY <2>2, TheFirstKid
    <3> HIDE DEF c
    <3>2. c \in DOMAIN h /\ j \in DOMAIN h /\ c > Heap0 /\ Parent(c) = i
      BY <3>1 DEF Kids
    <3>3. c \in Nat /\ i < c /\ Above[c] = {c} \cup Above[i]
      BY <1>1, <3>2, ParentComesFirst, AboveIs
    <3>4. ~ h[c].at < h[k].at
      <4> SUFFICES ASSUME h[c].at < h[k].at PROVE FALSE
        OBVIOUS
      <4>1. c \in P
        <5>1. k \in Above[c]
          BY <1>3, <3>3
        <5>2. ASSUME NEW l \in Above[c], l > k
              PROVE  l = FirstKid(h, Parent(l)) /\ h[l].at < h[k].at
          BY <1>3, <3>2, <3>3, <5>2 DEF c
        <5> QED BY <1>3, <3>2, <5>1, <5>2
      <4> QED BY <4>1, <3>3, <1>13
    <3> QED BY <1>1, <3>1, <3>2, <3>4
  <2> QED BY <2>1, <2>2
<1>14. \A i \in P : from[i] \in P
  BY <1>6, <1>12, <1>13
<1>15. from \in [P -> P]
  BY <1>5, <1>14
<1>16. \A i \in P : \/ /\ from[i] = FirstKid(h, i) /\ Kids(h, i) # {}
                       /\ from[i] # k /\ Parent(from[i]) = i
                    \/ /\ from[i] = k
                       /\ \A j \in Kids(h, i) : h[k].at <= h[j].at
  <2> TAKE i \in P
  <2>1. CASE \E j \in P : j > i
    <3>1. FirstKid(h, i) \in P /\ Parent(FirstKid(h, i)) = i /\ FirstKid(h, i) > i
          /\ from[i] = FirstKid(h, i) /\ FirstKid(h, i) \in Kids(h, i)
      BY <1>12, <2>1
    <3>2. FirstKid(h, i) # k
      BY <1>1, <1>7, <3>1
    <3> QED BY <3>1, <3>2
  <2>2. CASE ~\E j \in P : j > i
    BY <1>13, <2>2
  <2> QED BY <2>1, <2>2
<1>17. \A j \in P : j # k => /\ j > Heap0 /\ Parent(j) \in P
                             /\ from[Parent(j)] = j /\ h[j].at < h[k].at
  <2> SUFFICES ASSUME NEW j \in P, j # k
               PROVE  /\ j > Heap0 /\ Parent(j) \in P
                      /\ from[Parent(j)] = j /\ h[j].at < h[k].at
    OBVIOUS
  <2>1. /\ j > Heap0 /\ Parent(j) \in P /\ Parent(j) < j
        /\ j = FirstKid(h, Parent(j)) /\ h[j].at < h[k].at
    BY <1>8
  <2>2. from[Parent(j)] = FirstKid(h, Parent(j))
    <3>1. j > Parent(j)
      BY <1>7, <2>1
    <3> QED BY <1>12, <2>1, <3>1
  <2> QED BY <2>1, <2>2
<1>18. \A i, j \in P : from[i] = from[j] => i = j
  <2> TAKE i, j \in P
  <2> HAVE from[i] = from[j]
  <2>1. CASE \E l \in P : l > i
    <3>1. from[i] = FirstKid(h, i) /\ Parent(from[i]) = i /\ from[i] > k
      BY <1>1, <1>7, <1>12, <2>1
    <3>2. \E l \in P : l > j
      <4>1. from[j] # k
        BY <1>1, <1>7, <1>14, <3>1
      <4> QED BY <4>1, <1>13
    <3>3. from[j] = FirstKid(h, j) /\ Parent(from[j]) = j
      BY <1>12, <3>2
    <3> QED BY <3>1, <3>3
  <2>2. CASE ~\E l \in P : l > i
    <3>1. from[i] = k
      BY <1>13, <2>2
    <3>2. ~\E l \in P : l > j
      <4> SUFFICES ASSUME \E l \in P : l > j PROVE FALSE
        OBVIOUS
      <4>1. from[j] > j /\ from[j] \in P
        BY <1>12
      <4> QED BY <4>1, <3>1, <1>1, <1>7
    <3> QED BY <1>7, <2>2, <3>2
  <2> QED BY <2>1, <2>2
<1>19. \A j \in P : \E i \in P : from[i] = j
  <2>1. PICK i \in P : \A j \in P : j <= i
    <3>1. Heap0 + n \in Nat /\ P \in SUBSET (0..(Heap0 + n)) /\ P # {}
      BY <1>1, <1>6, <1>7
    <3> QED BY <3>1, Greatest
  <2>2. from[i] = k
    <3>1. ~\E j \in P : j > i
      BY <1>7, <2>1
    <3> QED BY <1>13, <3>1
  <2> QED BY <1>17, <2>2
<1>20. P \in SUBSET DOMAIN h
  BY <1>7
<1> QED
  BY <1>6, <1>15, <1>16, <1>17, <1>18, <1>19, <1>20 DEF P, from

\* What sifting the entry at k makes of s, whose array has n: an ordered array of
\* the same entries, in slots their timers know.
Sifted(s, n, m) ==
  /\ m = [heap |-> m.heap, slot |-> m.slot]
  /\ Filled(m.heap, n) /\ Ordered(m.heap)
  /\ KnownBut(m.heap, m.slot, {})
  /\ \A t \in Timers : Known(s.heap, s.slot, t) => Known(m.heap, m.slot, t)
  /\ Entries(m.heap) = Entries(s.heap)

\* upheap, where the entry is not due after its kids.
LEMMA UpHeapSifts ==
  ASSUME NEW s, NEW n, Filled(s.heap, n), NEW k \in DOMAIN s.heap,
         KnownBut(s.heap, s.slot, {k}), OrderedBut(s.heap, k),
         \A i \in Kids(s.heap, k) : s.heap[k].at <= s.heap[i].at
  PROVE  Sifted(s, n, UpHeap(s, k))
<1> DEFINE h == s.heap
           P == WayUp(h, k)
           from == From(h, k)
           m == UpHeap(s, k)
           g == m.heap
<1>1. /\ P \in SUBSET DOMAIN h /\ P \subseteq Above[k] /\ k \in P
      /\ from \in [P -> P]
      /\ \A i, j \in P : from[i] = from[j] => i = j
      /\ \A j \in P : \E i \in P : from[i] = j
      /\ \A i \in P : \/ /\ from[i] = Parent(i) /\ i > Heap0
                         /\ h[k].at < h[Parent(i)].at
                      \/ /\ from[i] = k /\ \A j \in P : i <= j
                         /\ i = Heap0 \/ h[Parent(i)].at <= h[k].at
      /\ \A j \in P : j # k => \E i \in P : Parent(i) = j /\ from[i] = j
  BY TheWayUp
<1>2. m = Moved(s, from)
  BY DEF UpHeap, From
<1>3. KnownBut(h, s.slot, P)
  BY <1>1 DEF KnownBut
<1>10. /\ P \in SUBSET DOMAIN s.heap /\ from \in [P -> P]
       /\ \A i, j \in P : from[i] = from[j] => i = j
       /\ \A j \in P : \E i \in P : from[i] = j
       /\ KnownBut(s.heap, s.slot, P)
  BY <1>1, <1>3
<1> HIDE DEF P, from
<1>11. LET mm == Moved(s, from)
       IN  /\ mm = [heap |-> mm.heap, slot |-> mm.slot]
           /\ Filled(mm.heap, n) /\ DOMAIN mm.heap = DOMAIN s.heap
           /\ \A i \in DOMAIN s.heap :
                 mm.heap[i] = IF i \in P THEN s.heap[from[i]] ELSE s.heap[i]
           /\ KnownBut(mm.heap, mm.slot, {})
           /\ \A t \in Timers : Known(s.heap, s.slot, t) => Known(mm.heap, mm.slot, t)
           /\ Entries(mm.heap) = Entries(s.heap)
  BY <1>10, MovedAbout
<1> HIDE DEF m
<1>4. /\ m = [heap |-> m.heap, slot |-> m.slot]
      /\ Filled(g, n) /\ DOMAIN g = DOMAIN h
      /\ \A i \in DOMAIN h : g[i] = IF i \in P THEN h[from[i]] ELSE h[i]
      /\ KnownBut(m.heap, m.slot, {})
      /\ \A t \in Timers : Known(h, s.slot, t) => Known(m.heap, m.slot, t)
      /\ Entries(m.heap) = Entries(h)
  BY <1>2, <1>11
<1> HIDE DEF g, h
<1>5. /\ DOMAIN h \subseteq Nat /\ Heap0 \in Nat
      /\ \A i \in DOMAIN h : i >= Heap0 /\ h[i].at \in Int
      /\ \A i \in DOMAIN h : i > Heap0 => Parent(i) \in DOMAIN h /\ Parent(i) < i
  BY ArrayHas, RootIndex DEF h
<1>6. /\ \A i \in DOMAIN h : i # Heap0 /\ i # k /\ Parent(i) # k => h[Parent(i)].at <= h[i].at
      /\ k > Heap0 => \A i \in Kids(h, k) : h[Parent(k)].at <= h[i].at
      /\ \A i \in Kids(h, k) : h[k].at <= h[i].at
  BY <1>5 DEF OrderedBut, InOrder, h
<1>7. Line(k) /\ k \in DOMAIN h /\ k \in Nat /\ k >= Heap0
  BY <1>5, InLine DEF h
<1>8. \A i \in P : i <= k /\ i \in DOMAIN h
  BY <1>1, <1>5, <1>7 DEF Line
<1>9. ASSUME NEW i \in DOMAIN h, i # Heap0
      PROVE  g[Parent(i)].at <= g[i].at
  <2> DEFINE p == Parent(i)
  <2>1. p \in DOMAIN h /\ p < i /\ i > Heap0 /\ i \in Kids(h, p)
    BY <1>5, <1>9 DEF Kids
  <2> HIDE DEF p
  <2>2. CASE i \in P /\ from[i] = p /\ h[k].at < h[p].at
    <3>1. g[i] = h[p] /\ p \in P
      BY <1>1, <1>4, <2>2
    <3>2. p # k
      BY <1>5, <1>8, <2>1, <2>2
    <3>3. CASE from[p] = k
      <4>1. g[p] = h[k]
        BY <1>4, <2>1, <3>1, <3>3
      <4> QED BY <1>5, <1>7, <2>1, <2>2, <3>1, <4>1 DEF p
    <3>4. CASE from[p] = Parent(p) /\ p > Heap0
      <4>1. g[p] = h[Parent(p)] /\ Parent(p) \in DOMAIN h /\ Parent(p) < p
        BY <1>4, <1>5, <2>1, <3>1, <3>4
      <4>2. Parent(p) # k /\ p # Heap0
        BY <1>5, <1>7, <1>8, <3>1, <3>4, <4>1
      <4>3. h[Parent(p)].at <= h[p].at
        BY <1>6, <2>1, <3>2, <4>2
      <4> QED BY <3>1, <4>1, <4>3 DEF p
    <3> QED BY <1>1, <3>1, <3>3, <3>4
  <2>3. CASE i \in P /\ from[i] = k /\ (\A j \in P : i <= j) /\ h[p].at <= h[k].at
    <3>1. g[i] = h[k]
      BY <1>4, <2>3
    <3>2. p \notin P
      BY <1>5, <1>8, <2>1, <2>3
    <3>3. g[p] = h[p]
      BY <1>4, <2>1, <3>2
    <3> QED BY <2>3, <3>1, <3>3 DEF p
  <2>4. CASE i \notin P
    <3>1. g[i] = h[i] /\ i # k
      BY <1>1, <1>4, <2>4
    <3>2. CASE p \notin P
      <4>1. g[p] = h[p] /\ p # k
        BY <1>1, <1>4, <2>1, <3>2
      <4> QED BY <1>6, <1>9, <3>1, <4>1 DEF p
    <3>3. CASE p \in P /\ from[p] = Parent(p) /\ p > Heap0
      <4>1. g[p] = h[Parent(p)] /\ Parent(p) \in DOMAIN h
        BY <1>4, <1>5, <2>1, <3>3
      <4>2. CASE p = k
        BY <1>6, <2>1, <3>1, <3>3, <4>1, <4>2 DEF p
      <4>3. CASE p # k
        <5>1. h[p].at <= h[i].at
          BY <1>6, <1>9, <3>1, <4>3 DEF p
        <5>2. Parent(p) # k
          BY <1>5, <1>7, <1>8, <3>3
        <5>3. h[Parent(p)].at <= h[p].at
          BY <1>5, <1>6, <2>1, <3>3, <4>3, <5>2
        <5> QED BY <1>5, <2>1, <3>1, <4>1, <5>1, <5>3 DEF p
      <4> QED BY <4>2, <4>3
    <3>4. CASE p \in P /\ from[p] = k
      <4>1. g[p] = h[k]
        BY <1>4, <2>1, <3>4
      <4>2. CASE p = k
        BY <1>6, <2>1, <3>1, <4>1, <4>2 DEF p
      <4>3. CASE p # k
        <5>1. h[p].at <= h[i].at
          BY <1>6, <1>9, <3>1, <4>3 DEF p
        <5>2. PICK c \in P : Parent(c) = p /\ from[c] = p
          BY <1>1, <3>4, <4>3
        <5>3. h[k].at < h[p].at
          BY <1>1, <4>3, <5>2
        <5> QED BY <1>5, <1>7, <2>1, <3>1, <4>1, <5>1, <5>3 DEF p
      <4> QED BY <4>2, <4>3
    <3> QED BY <1>1, <3>2, <3>3, <3>4
  <2> QED BY <1>1, <1>9, <2>2, <2>3, <2>4 DEF p
<1>12. Ordered(g)
  BY <1>4, <1>9 DEF Ordered, InOrder
<1> QED BY <1>4, <1>12 DEF Sifted, g, h, m

\* downheap, where the entry is not due before its parent.
LEMMA DownHeapSifts ==
  ASSUME NEW s, NEW n, Filled(s.heap, n), NEW k \in DOMAIN s.heap,
         KnownBut(s.heap, s.slot, {k}), OrderedBut(s.heap, k),
         k = Heap0 \/ s.heap[Parent(k)].at <= s.heap[k].at
  PROVE  Sifted(s, n, DownHeap(s, k))
<1> DEFINE h == s.heap
           P == WayDown(h, k)
           from == To(h, k)
           m == DownHeap(s, k)
           g == m.heap
<1>1. /\ P \in SUBSET DOMAIN h /\ k \in P
      /\ from \in [P -> P]
      /\ \A i, j \in P : from[i] = from[j] => i = j
      /\ \A j \in P : \E i \in P : from[i] = j
      /\ \A i \in P : \/ /\ from[i] = FirstKid(h, i) /\ Kids(h, i) # {}
                         /\ from[i] # k /\ Parent(from[i]) = i
                      \/ /\ from[i] = k
                         /\ \A j \in Kids(h, i) : h[k].at <= h[j].at
      /\ \A j \in P : j # k => /\ j > Heap0 /\ Parent(j) \in P
                               /\ from[Parent(j)] = j /\ h[j].at < h[k].at
  BY TheWayDown
<1>2. m = Moved(s, from)
  BY DEF DownHeap, To
<1>3. KnownBut(h, s.slot, P)
  BY <1>1 DEF KnownBut
<1>10. /\ P \in SUBSET DOMAIN s.heap /\ from \in [P -> P]
       /\ \A i, j \in P : from[i] = from[j] => i = j
       /\ \A j \in P : \E i \in P : from[i] = j
       /\ KnownBut(s.heap, s.slot, P)
  BY <1>1, <1>3
<1> HIDE DEF P, from
<1>11. LET mm == Moved(s, from)
       IN  /\ mm = [heap |-> mm.heap, slot |-> mm.slot]
           /\ Filled(mm.heap, n) /\ DOMAIN mm.heap = DOMAIN s.heap
           /\ \A i \in DOMAIN s.heap :
                 mm.heap[i] = IF i \in P THEN s.heap[from[i]] ELSE s.heap[i]
           /\ KnownBut(mm.heap, mm.slot, {})
           /\ \A t \in Timers : Known(s.heap, s.slot, t) => Known(mm.heap, mm.slot, t)
           /\ Entries(mm.heap) = Entries(s.heap)
  BY <1>10, MovedAbout
<1> HIDE DEF m
<1>4. /\ m = [heap |-> m.heap, slot |-> m.slot]
      /\ Filled(g, n) /\ DOMAIN g = DOMAIN h
      /\ \A i \in DOMAIN h : g[i] = IF i \in P THEN h[from[i]] ELSE h[i]
      /\ KnownBut(m.heap, m.slot, {})
      /\ \A t \in Timers : Known(h, s.slot, t) => Known(m.heap, m.slot, t)
      /\ Entries(m.heap) = Entries(h)
  BY <1>2, <1>11
<1> HIDE DEF g, h
<1>5. /\ DOMAIN h \subseteq Nat /\ Heap0 \in Nat
      /\ \A i \in DOMAIN h : i >= Heap0 /\ h[i].at \in Int
      /\ \A i \in DOMAIN h : i > Heap0 => Parent(i) \in DOMAIN h /\ Parent(i) < i
      /\ k \in DOMAIN h
  BY ArrayHas, RootIndex DEF h
<1>6. /\ \A i \in DOMAIN h : i # Heap0 /\ i # k /\ Parent(i) # k => h[Parent(i)].at <= h[i].at
      /\ k > Heap0 => \A i \in Kids(h, k) : h[Parent(k)].at <= h[i].at
      /\ k = Heap0 \/ h[Parent(k)].at <= h[k].at
  BY <1>5 DEF OrderedBut, InOrder, h
<1>7. \A i \in P : Kids(h, i) # {} =>
         /\ FirstKid(h, i) \in Kids(h, i)
         /\ \A j \in Kids(h, i) : h[FirstKid(h, i)].at <= h[j].at
  BY TheFirstKid DEF h
<1>8. \A i \in P : i \in DOMAIN h
  BY <1>1
<1>9. ASSUME NEW i \in DOMAIN h, i # Heap0
      PROVE  g[Parent(i)].at <= g[i].at
  <2> DEFINE p == Parent(i)
  <2>1. p \in DOMAIN h /\ p < i /\ i > Heap0 /\ i \in Kids(h, p)
    BY <1>5, <1>9 DEF Kids
  <2> HIDE DEF p
  <2>2. CASE i \notin P
    <3>1. g[i] = h[i] /\ i # k
      BY <1>1, <1>4, <2>2
    <3>2. CASE p \notin P
      <4>1. g[p] = h[p] /\ p # k
        BY <1>1, <1>4, <2>1, <3>2
      <4> QED BY <1>6, <1>9, <3>1, <4>1 DEF p
    <3>3. CASE p \in P /\ from[p] = FirstKid(h, p)
      <4>1. g[p] = h[FirstKid(h, p)]
        BY <1>4, <2>1, <3>3
      <4>2. h[FirstKid(h, p)].at <= h[i].at
        BY <1>7, <2>1, <3>3
      <4> QED BY <3>1, <4>1, <4>2 DEF p
    <3>4. CASE p \in P /\ from[p] = k /\ \A j \in Kids(h, p) : h[k].at <= h[j].at
      <4>1. g[p] = h[k]
        BY <1>4, <2>1, <3>4
      <4> QED BY <2>1, <3>1, <3>4, <4>1 DEF p
    <3> QED BY <1>1, <3>2, <3>3, <3>4
  <2>3. CASE i = k
    <3>1. p \notin P
      <4> SUFFICES ASSUME p \in P PROVE FALSE
        OBVIOUS
      <4> DEFINE Lower == {j \in P : j < k}
      <4>1. p \in Lower
        BY <2>1, <2>3
      <4>2. PICK j \in Lower : \A l \in Lower : j <= l
        <5>1. Lower \in SUBSET Nat /\ Lower # {}
          BY <1>5, <1>8, <4>1
        <5> HIDE DEF Lower
        <5> QED BY <5>1, Least
      <4>3. j \in P /\ j # k /\ j \in DOMAIN h /\ j < k
        BY <1>5, <1>8, <4>2
      <4>4. j > Heap0 /\ Parent(j) \in P /\ Parent(j) < j
        BY <1>1, <1>5, <4>3
      <4>5. Parent(j) \in Lower
        BY <1>5, <1>8, <4>3, <4>4
      <4> QED BY <1>5, <1>8, <4>2, <4>4, <4>5
    <3>2. g[p] = h[p] /\ k > Heap0
      BY <1>4, <2>1, <2>3, <3>1
    <3>3. CASE from[k] = k
      <4>1. g[i] = h[k]
        BY <1>1, <1>4, <2>3, <3>3
      <4> QED BY <1>6, <1>9, <2>3, <3>2, <4>1 DEF p
    <3>4. CASE from[k] = FirstKid(h, k) /\ Kids(h, k) # {}
      <4>1. g[i] = h[FirstKid(h, k)]
        BY <1>1, <1>4, <2>3, <3>4
      <4>2. h[Parent(k)].at <= h[FirstKid(h, k)].at
        BY <1>1, <1>6, <1>7, <3>2, <3>4
      <4> QED BY <2>3, <3>2, <4>1, <4>2 DEF p
    <3> QED BY <1>1, <3>3, <3>4
  <2>4. CASE i \in P /\ i # k
    <3>1. p \in P /\ from[p] = i /\ h[i].at < h[k].at
      BY <1>1, <2>4 DEF p
    <3>2. g[p] = h[i]
      BY <1>4, <2>1, <3>1
    <3>3. CASE from[i] = k
      <4>1. g[i] = h[k]
        BY <1>4, <2>4, <3>3
      <4> QED BY <1>5, <3>1, <3>2, <4>1 DEF p
    <3>4. CASE from[i] = FirstKid(h, i) /\ Kids(h, i) # {} /\ from[i] # k
      <4>1. g[i] = h[FirstKid(h, i)]
        BY <1>4, <2>4, <3>4
      <4>2. FirstKid(h, i) \in DOMAIN h /\ FirstKid(h, i) > Heap0
            /\ Parent(FirstKid(h, i)) = i
        BY <1>7, <2>4, <3>4 DEF Kids
      <4>3. h[i].at <= h[FirstKid(h, i)].at
        BY <1>5, <1>6, <2>4, <3>4, <4>2
      <4> QED BY <3>2, <4>1, <4>3 DEF p
    <3> QED BY <1>1, <2>4, <3>3, <3>4
  <2> QED BY <2>2, <2>3, <2>4
<1>12. Ordered(g)
  BY <1>4, <1>9 DEF Ordered, InOrder
<1> QED BY <1>4, <1>12 DEF Sifted, g, h, m

\* adjustheap.
LEMMA AdjustHeapSifts ==
  ASSUME NEW s, NEW n, Filled(s.heap, n), NEW k \in DOMAIN s.heap,
         KnownBut(s.heap, s.slot, {k}), OrderedBut(s.heap, k)
  PROVE  Sifted(s, n, AdjustHeap(s, k))
<1>1. /\ Heap0 \in Nat /\ k \in Nat /\ k >= Heap0 /\ s.heap[k].at \in Int
      /\ \A i \in DOMAIN s.heap : s.heap[i].at \in Int
      /\ k > Heap0 => s.heap[Parent(k)].at \in Int
  <2>1. k > Heap0 => Parent(k) \in DOMAIN s.heap
    BY ArrayHas
  <2> QED BY <2>1, ArrayHas, RootIndex
<1>2. CASE k > Heap0 /\ s.heap[k].at <= s.heap[Parent(k)].at
  <2>1. \A i \in Kids(s.heap, k) : s.heap[Parent(k)].at <= s.heap[i].at /\ i \in DOMAIN s.heap
    BY <1>2 DEF OrderedBut, Kids
  <2>2. \A i \in Kids(s.heap, k) : s.heap[k].at <= s.heap[i].at
    BY <1>1, <1>2, <2>1
  <2>3. AdjustHeap(s, k) = UpHeap(s, k)
    BY <1>2 DEF AdjustHeap
  <2> QED BY <2>2, <2>3, UpHeapSifts
<1>3. CASE ~(k > Heap0 /\ s.heap[k].at <= s.heap[Parent(k)].at)
  <2>1. k = Heap0 \/ s.heap[Parent(k)].at <= s.heap[k].at
    BY <1>1, <1>3
  <2>2. AdjustHeap(s, k) = DownHeap(s, k)
    BY <1>3 DEF AdjustHeap
  <2> QED BY <2>1, <2>2, DownHeapSifts
<1> QED BY <1>2, <1>3

\* verify_heap, for an array, the timers' slots and their times.
Sound(h, sl, du) ==
  /\ \E n \in Nat : Filled(h, n)
  /\ Ordered(h) /\ KnownBut(h, sl, {})
  /\ \A t \in Timers : Known(h, sl, t)
  /\ du \in [Timers -> Int]
  /\ \A i \in DOMAIN h : h[i].at = du[h[i].w]

\* An array is sound when each entry is known, and no other timer has a slot.
LEMMA MadeSound ==
  ASSUME NEW h, NEW sl, NEW du, NEW n \in Nat, Filled(h, n), Ordered(h),
         KnownBut(h, sl, {}), du \in [Timers -> Int],
         \A t \in Timers : sl[t] # 0 => \E i \in DOMAIN h : h[i].w = t,
         \A i \in DOMAIN h : h[i].at = du[h[i].w]
  PROVE  Sound(h, sl, du)
<1>1. ASSUME NEW t \in Timers PROVE Known(h, sl, t)
  <2> SUFFICES ASSUME sl[t] # 0 PROVE sl[t] \in DOMAIN h /\ h[sl[t]].w = t
    BY DEF Known
  <2>1. PICK i \in DOMAIN h : h[i].w = t
    OBVIOUS
  <2>2. sl[t] = i
    BY <2>1 DEF KnownBut
  <2> QED BY <2>1, <2>2
<1> QED BY <1>1 DEF Sound

\* Whoever has a slot has an entry, and the other way round.
LEMMA SoundIs ==
  ASSUME NEW h, NEW sl, NEW du, Sound(h, sl, du)
  PROVE  /\ \A i \in DOMAIN h : sl[h[i].w] = i /\ i # 0 /\ h[i].w \in Timers
         /\ \A t \in Timers : sl[t] # 0 => sl[t] \in DOMAIN h /\ h[sl[t]].w = t
         /\ \A t \in Timers : sl[t] # 0 <=> \E i \in DOMAIN h : h[i].w = t
         /\ sl \in [Timers -> Nat]
<1>1. PICK n \in Nat : Filled(h, n)
  BY DEF Sound
<1>2. \A i \in DOMAIN h : i # 0 /\ h[i].w \in Timers
  BY <1>1, ArrayHas
<1>3. \A i \in DOMAIN h : sl[h[i].w] = i
  BY DEF Sound, KnownBut
<1>4. \A t \in Timers : sl[t] # 0 => sl[t] \in DOMAIN h /\ h[sl[t]].w = t
  BY DEF Sound, Known
<1>5. sl \in [Timers -> Nat]
  BY DEF Sound, KnownBut
<1> QED BY <1>2, <1>3, <1>4, <1>5

\* Who has no entry and no slot has none after sifting, and no entry is lost.
LEMMA SiftedKeeps ==
  ASSUME NEW s, NEW n, NEW m, Sifted(s, n, m), s.slot \in [Timers -> Nat]
  PROVE  /\ \A t \in Timers : s.slot[t] = 0 /\ m.slot[t] # 0 =>
               \E i \in DOMAIN s.heap : s.heap[i].w = t
         /\ \A i \in DOMAIN m.heap : \E j \in DOMAIN s.heap : m.heap[i] = s.heap[j]
         /\ \A j \in DOMAIN s.heap : \E i \in DOMAIN m.heap : m.heap[i] = s.heap[j]
         /\ \A i \in DOMAIN m.heap : m.slot[m.heap[i].w] = i
<1>1. \A i \in DOMAIN m.heap : \E j \in DOMAIN s.heap : m.heap[i] = s.heap[j]
  <2> TAKE i \in DOMAIN m.heap
  <2>1. m.heap[i] \in Entries(s.heap)
    <3>1. m.heap[i] \in Entries(m.heap)
      BY DEF Entries
    <3> QED BY <3>1 DEF Sifted
  <2> QED BY <2>1 DEF Entries
<1>2. \A j \in DOMAIN s.heap : \E i \in DOMAIN m.heap : m.heap[i] = s.heap[j]
  <2> TAKE j \in DOMAIN s.heap
  <2>1. s.heap[j] \in Entries(m.heap)
    <3>1. s.heap[j] \in Entries(s.heap)
      BY DEF Entries
    <3> QED BY <3>1 DEF Sifted
  <2> QED BY <2>1 DEF Entries
<1>3. ASSUME NEW t \in Timers, s.slot[t] = 0, m.slot[t] # 0
      PROVE  \E i \in DOMAIN s.heap : s.heap[i].w = t
  <2>1. Known(s.heap, s.slot, t)
    BY <1>3 DEF Known
  <2>2. m.slot[t] \in DOMAIN m.heap /\ m.heap[m.slot[t]].w = t
    BY <1>3, <2>1 DEF Sifted, Known
  <2> QED BY <1>1, <2>2
<1>4. \A i \in DOMAIN m.heap : m.slot[m.heap[i].w] = i
  BY DEF Sifted, KnownBut
<1> QED BY <1>1, <1>2, <1>3, <1>4

\* ev_timer_start keeps the heap sound.
LEMMA InsertIsSound ==
  ASSUME NEW h, NEW sl, NEW du, Sound(h, sl, du),
         NEW t \in Timers, sl[t] = 0, NEW at \in Int
  PROVE  LET m == Insert([heap |-> h, slot |-> sl], t, at)
         IN  /\ m = [heap |-> m.heap, slot |-> m.slot]
             /\ Sound(m.heap, m.slot, [du EXCEPT ![t] = at])
<1> DEFINE k == Heap0 + Cardinality(DOMAIN h)
           g == [i \in DOMAIN h \cup {k} |-> IF i = k THEN [w |-> t, at |-> at] ELSE h[i]]
           gs == [sl EXCEPT ![t] = k]
           s == [heap |-> g, slot |-> gs]
           m == UpHeap(s, k)
           nd == [du EXCEPT ![t] = at]
<1>1. PICK n \in Nat : Filled(h, n)
  BY DEF Sound
<1>2. /\ DOMAIN h = Heap0..(Heap0 + n - 1) /\ k = Heap0 + n /\ Heap0 \in Nat /\ Heap0 >= 1
      /\ \A i \in DOMAIN h : /\ i \in Nat /\ i # k /\ h[i] \in [w : Timers, at : Int]
                             /\ h[i].w \in Timers
                             /\ i > Heap0 => Parent(i) \in DOMAIN h /\ Parent(i) < i
  <2>1. /\ DOMAIN h = Heap0..(Heap0 + n - 1) /\ Cardinality(DOMAIN h) = n
        /\ \A i \in DOMAIN h : i \in Nat /\ h[i].w \in Timers
        /\ \A i \in DOMAIN h : i > Heap0 => Parent(i) \in DOMAIN h /\ Parent(i) < i
    BY <1>1, ArrayHas
  <2>2. \A i \in DOMAIN h : i # Heap0 + n
    BY <2>1, RootIndex
  <2>3. \A i \in DOMAIN h : h[i] \in [w : Timers, at : Int]
    BY <1>1, <2>1 DEF Filled
  <2> QED BY <2>1, <2>2, <2>3, RootIndex
<1>3. Insert([heap |-> h, slot |-> sl], t, at) = m
  BY DEF Insert
<1>4. s.heap = g /\ s.slot = gs
  OBVIOUS
<1> HIDE DEF k
<1>5. /\ DOMAIN g = DOMAIN h \cup {k} /\ g[k] = [w |-> t, at |-> at]
      /\ \A i \in DOMAIN h : g[i] = h[i]
  BY <1>2
<1>6. /\ \A i \in DOMAIN h : sl[h[i].w] = i /\ i # 0
      /\ sl \in [Timers -> Nat] /\ OneEach(h)
      /\ \A u \in Timers : sl[u] # 0 => sl[u] \in DOMAIN h /\ h[sl[u]].w = u
  BY SoundIs DEF Sound, KnownBut
<1>7. gs \in [Timers -> Nat] /\ gs[t] = k /\ \A u \in Timers : u # t => gs[u] = sl[u]
  BY <1>2, <1>6
<1>8. \A i \in DOMAIN h : h[i].w # t
  BY <1>6
<1>9. Filled(g, n + 1) /\ k \in DOMAIN g /\ n + 1 \in Nat
  <2>1. DOMAIN g = Heap0..(Heap0 + (n + 1) - 1)
    BY <1>2, <1>5
  <2>2. \A i \in DOMAIN g : g[i] \in [w : Timers, at : Int]
    BY <1>2, <1>5
  <2>3. g = [i \in DOMAIN g |-> g[i]]
    OBVIOUS
  <2> HIDE DEF g
  <2>4. k \in DOMAIN g
    BY <1>5
  <2> QED BY <2>1, <2>2, <2>3, <2>4 DEF Filled
<1> HIDE DEF g, gs
<1>10. KnownBut(g, gs, {k})
  <2>1. OneEach(g)
    BY <1>2, <1>5, <1>6, <1>8 DEF OneEach
  <2>2. \A i \in DOMAIN g \ {k} : gs[g[i].w] = i
    BY <1>2, <1>5, <1>6, <1>7, <1>8
  <2> QED BY <1>7, <2>1, <2>2 DEF KnownBut
<1>11. /\ Kids(g, k) = {}
       /\ \A i \in DOMAIN g : i # Heap0 => i >= Heap0 /\ i > Heap0 /\ Parent(i) \in DOMAIN h
  <2>1. ASSUME NEW i \in DOMAIN g, i > Heap0
        PROVE  Parent(i) \in Nat /\ Heap0 <= Parent(i) /\ Parent(i) < i /\ i <= k /\ i \in Nat
    <3>1. i \in Nat /\ i <= k
      BY <1>2, <1>5
    <3> QED BY <3>1, <2>1, ParentComesFirst
  <2>2. \A i \in DOMAIN g : i >= Heap0
    BY <1>2, <1>5
  <2>3. \A i \in DOMAIN g : i > Heap0 => Parent(i) < k /\ Parent(i) \in DOMAIN h
    BY <1>2, <2>1
  <2>4. \A i \in DOMAIN g : i > Heap0 => Parent(i) # k
    BY <1>2, <2>1, <2>3
  <2> QED BY <1>2, <1>5, <2>2, <2>3, <2>4 DEF Kids
<1>12. OrderedBut(g, k)
  <2>1. ASSUME NEW i \in DOMAIN g, i # Heap0, i # k PROVE InOrder(g, i)
    <3>1. i \in DOMAIN h /\ Parent(i) \in DOMAIN h
      BY <1>5, <1>11, <2>1
    <3>2. h[Parent(i)].at <= h[i].at
      BY <2>1, <3>1 DEF Sound, Ordered, InOrder
    <3> QED BY <1>5, <3>1, <3>2 DEF InOrder
  <2> QED BY <1>11, <2>1 DEF OrderedBut, InOrder
<1>13. Sifted(s, n + 1, m)
  <2>1. \A i \in Kids(s.heap, k) : s.heap[k].at <= s.heap[i].at
    BY <1>4, <1>11
  <2> HIDE DEF s
  <2> QED BY <1>4, <1>9, <1>10, <1>12, <2>1, UpHeapSifts
<1> HIDE DEF s, m
<1>14. m = [heap |-> m.heap, slot |-> m.slot] /\ Filled(m.heap, n + 1) /\ Ordered(m.heap)
       /\ KnownBut(m.heap, m.slot, {})
  BY <1>13 DEF Sifted
<1>15. /\ \A i \in DOMAIN m.heap : \E j \in DOMAIN g : m.heap[i] = g[j]
       /\ \A j \in DOMAIN g : \E i \in DOMAIN m.heap : m.heap[i] = g[j]
       /\ \A u \in Timers : gs[u] = 0 /\ m.slot[u] # 0 => \E i \in DOMAIN g : g[i].w = u
  BY <1>4, <1>7, <1>13, SiftedKeeps
<1>16. du \in [Timers -> Int] /\ \A i \in DOMAIN h : h[i].at = du[h[i].w]
  BY DEF Sound
<1>17. nd \in [Timers -> Int] /\ \A j \in DOMAIN g : g[j].at = nd[g[j].w]
  BY <1>2, <1>5, <1>8, <1>16
<1> HIDE DEF nd
<1>18. \A i \in DOMAIN m.heap : m.heap[i].at = nd[m.heap[i].w]
  BY <1>15, <1>17
<1>19. ASSUME NEW u \in Timers, m.slot[u] # 0
       PROVE  \E i \in DOMAIN m.heap : m.heap[i].w = u
  <2>1. \E j \in DOMAIN g : g[j].w = u
    <3>1. CASE gs[u] = 0
      BY <1>15, <1>19, <3>1
    <3>2. CASE gs[u] # 0 /\ u # t
      BY <1>5, <1>6, <1>7, <3>2
    <3>3. CASE u = t
      BY <1>5, <3>3
    <3> QED BY <3>1, <3>2, <3>3
  <2> QED BY <1>15, <2>1
<1>20. Sound(m.heap, m.slot, nd)
  BY <1>9, <1>14, <1>17, <1>18, <1>19, MadeSound
<1> QED BY <1>3, <1>14, <1>20 DEF nd

\* Times that differ for one timer at most.
OnlyOf(t, du, nd) == nd \in [Timers -> Int] /\ \A u \in Timers : u # t => nd[u] = du[u]

\* A sound heap in which t has no entry, and the others have theirs.
Without(t, sl, nd, m) ==
  /\ m = [heap |-> m.heap, slot |-> m.slot]
  /\ Sound(m.heap, m.slot, nd)
  /\ m.slot[t] = 0
  /\ \A u \in Timers : u # t => (m.slot[u] # 0 <=> sl[u] # 0)

\* A sound heap in which all timers have an entry that had one.
With(sl, nd, m) ==
  /\ m = [heap |-> m.heap, slot |-> m.slot]
  /\ Sound(m.heap, m.slot, nd)
  /\ \A u \in Timers : m.slot[u] # 0 <=> sl[u] # 0

\* A heap that is sound once its entry at k is sifted.
ToSift(sl, nd, k, s) ==
  \E n : /\ Filled(s.heap, n) /\ k \in DOMAIN s.heap
         /\ KnownBut(s.heap, s.slot, {k}) /\ OrderedBut(s.heap, k)
         /\ \A m : Sifted(s, n, m) => With(sl, nd, m)

\* ev_timer_stop does, and leaves all others in use that were.
LEMMA TakeOutIsSound ==
  ASSUME NEW h, NEW sl, NEW du, Sound(h, sl, du),
         NEW t \in Timers, sl[t] # 0, NEW nd, OnlyOf(t, du, nd)
  PROVE  Without(t, sl, nd, TakeOut([heap |-> h, slot |-> sl], t))
<1> DEFINE s == [heap |-> h, slot |-> sl]
           last == Heap0 + Cardinality(DOMAIN h) - 1
           k == sl[t]
           g == [i \in DOMAIN h \ {last} |-> IF i = k THEN h[last] ELSE h[i]]
           cut == [heap |-> g, slot |-> sl]
           stay == IF k < last THEN AdjustHeap(cut, k) ELSE cut
           ms == [stay.slot EXCEPT ![t] = 0]
           m == TakeOut(s, t)
<1>1. PICK n \in Nat : Filled(h, n)
  BY DEF Sound
<1>2. m = [heap |-> stay.heap, slot |-> ms]
  BY DEF TakeOut
<1>3. /\ \A i \in DOMAIN h : sl[h[i].w] = i /\ i # 0 /\ h[i].w \in Timers
      /\ sl \in [Timers -> Nat] /\ OneEach(h)
      /\ \A u \in Timers : sl[u] # 0 => sl[u] \in DOMAIN h /\ h[sl[u]].w = u
  BY SoundIs DEF Sound, KnownBut
<1>4. k \in DOMAIN h /\ h[k].w = t
  BY <1>3
<1>5. /\ DOMAIN h = Heap0..(Heap0 + n - 1) /\ last = Heap0 + n - 1
      /\ Heap0 \in Nat /\ Heap0 >= 1
      /\ \A i \in DOMAIN h : /\ i \in Nat /\ i >= Heap0 /\ h[i] \in [w : Timers, at : Int]
                             /\ h[i].at \in Int
                             /\ i > Heap0 => Parent(i) \in DOMAIN h /\ Parent(i) < i
  <2>1. /\ DOMAIN h = Heap0..(Heap0 + n - 1) /\ Cardinality(DOMAIN h) = n
        /\ \A i \in DOMAIN h : i \in Nat /\ i >= Heap0 /\ h[i].at \in Int
        /\ \A i \in DOMAIN h : i > Heap0 => Parent(i) \in DOMAIN h /\ Parent(i) < i
    BY <1>1, ArrayHas
  <2>2. \A i \in DOMAIN h : h[i] \in [w : Timers, at : Int]
    BY <1>1, <2>1 DEF Filled
  <2> QED BY <2>1, <2>2, RootIndex
<1> HIDE DEF last, k
<1>6. n - 1 \in Nat /\ k <= last /\ last \in DOMAIN h /\ k \in Nat /\ last \in Nat
      /\ \A i \in DOMAIN h : i <= last
  BY <1>4, <1>5
<1>7. /\ DOMAIN g = DOMAIN h \ {last}
      /\ \A i \in DOMAIN g : i # k => g[i] = h[i]
      /\ k \in DOMAIN g => g[k] = h[last]
  OBVIOUS
<1>8. Filled(g, n - 1)
  <2>1. DOMAIN g = Heap0..(Heap0 + (n - 1) - 1)
    BY <1>5, <1>6, <1>7
  <2>2. \A i \in DOMAIN g : g[i] \in [w : Timers, at : Int]
    BY <1>5, <1>6, <1>7
  <2>3. g = [i \in DOMAIN g |-> g[i]]
    OBVIOUS
  <2> HIDE DEF g
  <2> QED BY <1>6, <2>1, <2>2, <2>3 DEF Filled
<1>9. cut.heap = g /\ cut.slot = sl
  OBVIOUS
<1> HIDE DEF g
\* The entries that are left are the others.
<1>10. \A i \in DOMAIN g : \E j \in DOMAIN h : j # k /\ g[i] = h[j]
  <2> TAKE i \in DOMAIN g
  <2>1. CASE i = k
    <3>1. last # k /\ g[i] = h[last]
      BY <1>7, <2>1
    <3> QED BY <1>6, <3>1
  <2>2. CASE i # k
    BY <1>7, <2>2
  <2> QED BY <2>1, <2>2
<1>11. \A j \in DOMAIN h : j # k => \E i \in DOMAIN g : g[i] = h[j]
  <2> SUFFICES ASSUME NEW j \in DOMAIN h, j # k PROVE \E i \in DOMAIN g : g[i] = h[j]
    OBVIOUS
  <2>1. CASE j = last
    <3>1. k \in DOMAIN g /\ g[k] = h[j]
      BY <1>4, <1>7, <2>1
    <3> QED BY <3>1
  <2>2. CASE j # last
    BY <1>7, <2>2
  <2> QED BY <2>1, <2>2
<1>12. OneEach(g)
  <2> SUFFICES ASSUME NEW i \in DOMAIN g, NEW j \in DOMAIN g, g[i].w = g[j].w
               PROVE  i = j
    BY DEF OneEach
  <2> DEFINE src(l) == IF l = k THEN last ELSE l
  <2>1. src(i) \in DOMAIN h /\ src(j) \in DOMAIN h /\ g[i] = h[src(i)] /\ g[j] = h[src(j)]
    BY <1>6, <1>7
  <2>2. src(i) = src(j)
    <3> HIDE DEF src
    <3> QED BY <1>3, <2>1 DEF OneEach
  <2> QED BY <1>7, <2>2
<1>13. /\ \A i \in DOMAIN g \ {k} : sl[g[i].w] = i
       /\ k = last => KnownBut(g, sl, {})
  BY <1>3, <1>7, <1>12 DEF KnownBut
<1>14. \A i \in DOMAIN h : i # Heap0 => h[Parent(i)].at <= h[i].at
  BY DEF Sound, Ordered, InOrder
<1>15. ASSUME NEW i \in DOMAIN g, i # Heap0
       PROVE  /\ i \in DOMAIN h /\ i > Heap0 /\ Parent(i) \in DOMAIN g /\ Parent(i) \in DOMAIN h
              /\ i # k /\ Parent(i) # k => g[Parent(i)].at <= g[i].at
  <2>1. i \in DOMAIN h /\ i > Heap0 /\ i < last /\ i \in Nat
    <3>1. i \in DOMAIN h /\ i # last
      BY <1>7
    <3>2. i \in Nat /\ i >= Heap0 /\ i <= last /\ Heap0 \in Nat /\ last \in Nat
      BY <1>5, <1>6, <3>1
    <3> QED BY <1>15, <3>1, <3>2
  <2>2. Parent(i) \in DOMAIN h /\ Parent(i) < i
    BY <1>5, <2>1
  <2>3. Parent(i) \in DOMAIN g
    BY <1>5, <1>6, <1>7, <2>1, <2>2
  <2>4. h[Parent(i)].at <= h[i].at
    BY <1>14, <1>15, <2>1
  <2> QED BY <1>7, <2>1, <2>2, <2>3, <2>4
<1>16. OrderedBut(g, k)
  <2>1. ASSUME k > Heap0, NEW i \in Kids(g, k) PROVE g[Parent(k)].at <= g[i].at
    <3>1. i \in DOMAIN g /\ i > Heap0 /\ Parent(i) = k
      BY DEF Kids
    <3>2. i # Heap0 /\ i \in Nat /\ i \in DOMAIN h
      BY <1>5, <1>7, <3>1
    <3>3. k \in DOMAIN g /\ k # Heap0
      BY <1>5, <1>6, <1>15, <2>1, <3>1, <3>2
    <3>4. Parent(k) \in DOMAIN g /\ Parent(k) < k /\ Parent(k) # k /\ i # k
      <4>1. Parent(k) < k /\ Parent(i) < i
        BY <1>4, <1>5, <2>1, <3>1, <3>2
      <4> QED BY <1>5, <1>6, <1>15, <3>1, <3>3, <4>1
    <3>5. h[Parent(k)].at <= h[k].at /\ h[k].at <= h[i].at
      BY <1>4, <1>14, <3>1, <3>2, <3>3
    <3>6. g[Parent(k)] = h[Parent(k)] /\ g[i] = h[i] /\ Parent(k) \in DOMAIN h
      BY <1>7, <3>1, <3>4
    <3> QED BY <1>4, <1>5, <3>2, <3>5, <3>6
  <2> QED BY <1>15, <2>1 DEF OrderedBut, InOrder
\* So they are after the last one has been moved to its place.
<1>17. /\ stay = [heap |-> stay.heap, slot |-> stay.slot]
       /\ Filled(stay.heap, n - 1) /\ Ordered(stay.heap) /\ KnownBut(stay.heap, stay.slot, {})
       /\ \A i \in DOMAIN stay.heap : \E j \in DOMAIN g : stay.heap[i] = g[j]
       /\ \A j \in DOMAIN g : \E i \in DOMAIN stay.heap : stay.heap[i] = g[j]
       /\ \A u \in Timers : sl[u] = 0 => stay.slot[u] = 0
  <2>1. CASE k < last
    <3>1. stay = AdjustHeap(cut, k)
      BY <2>1
    <3>2. k \in DOMAIN g
      BY <1>4, <1>5, <1>6, <1>7, <2>1
    <3>3. KnownBut(g, sl, {k})
      BY <1>3, <1>12, <1>13 DEF KnownBut
    <3>4. Sifted(cut, n - 1, AdjustHeap(cut, k))
      <4> HIDE DEF cut
      <4> QED BY <1>8, <1>9, <1>16, <3>2, <3>3, AdjustHeapSifts
    <3> HIDE DEF cut, stay
    <3>5. Sifted(cut, n - 1, stay)
      BY <3>1, <3>4
    <3>6. /\ \A u \in Timers : sl[u] = 0 /\ stay.slot[u] # 0 => \E i \in DOMAIN g : g[i].w = u
          /\ \A i \in DOMAIN stay.heap : \E j \in DOMAIN g : stay.heap[i] = g[j]
          /\ \A j \in DOMAIN g : \E i \in DOMAIN stay.heap : stay.heap[i] = g[j]
      BY <1>3, <1>9, <3>5, SiftedKeeps
    <3>7. \A u \in Timers : (\E i \in DOMAIN g : g[i].w = u) => sl[u] # 0
      BY <1>3, <1>10
    <3> QED BY <3>5, <3>6, <3>7 DEF Sifted
  <2>2. CASE ~ k < last
    <3>1. k = last /\ stay = cut
      BY <1>6, <2>2
    <3>2. stay.heap = g /\ stay.slot = sl
      BY <1>9, <3>1
    <3>3. Ordered(g)
      <4>1. k \notin DOMAIN g
        BY <1>7, <3>1
      <4>2. ASSUME NEW i \in DOMAIN g, i # Heap0 PROVE g[Parent(i)].at <= g[i].at
        BY <1>15, <4>1, <4>2
      <4> QED BY <4>2 DEF Ordered, InOrder
    <3>4. stay = [heap |-> stay.heap, slot |-> stay.slot]
      BY <3>1
    <3> HIDE DEF stay
    <3> QED BY <1>8, <1>13, <3>1, <3>2, <3>3, <3>4
  <2> QED BY <2>1, <2>2
<1> HIDE DEF stay, cut
<1>18. /\ \A i \in DOMAIN stay.heap : \E j \in DOMAIN h : j # k /\ stay.heap[i] = h[j]
       /\ \A j \in DOMAIN h : j # k => \E i \in DOMAIN stay.heap : stay.heap[i] = h[j]
  BY <1>10, <1>11, <1>17
<1>19. /\ \A i \in DOMAIN stay.heap : stay.heap[i].w # t /\ stay.heap[i].w \in Timers
       /\ stay.slot \in [Timers -> Nat] /\ OneEach(stay.heap)
       /\ \A i \in DOMAIN stay.heap : stay.slot[stay.heap[i].w] = i
  <2>1. ASSUME NEW i \in DOMAIN stay.heap
        PROVE  stay.heap[i].w # t /\ stay.heap[i].w \in Timers
    <3>1. PICK j \in DOMAIN h : j # k /\ stay.heap[i] = h[j]
      BY <1>18
    <3>2. h[j].w # t
      BY <1>3, <1>4, <3>1 DEF OneEach
    <3> QED BY <1>3, <3>1, <3>2
  <2> QED BY <1>17, <2>1 DEF KnownBut
<1>20. /\ ms \in [Timers -> Nat] /\ ms[t] = 0
       /\ \A u \in Timers : u # t => ms[u] = stay.slot[u]
  BY <1>19
<1> HIDE DEF ms
<1>21. KnownBut(stay.heap, ms, {})
  BY <1>19, <1>20 DEF KnownBut
<1>22. ASSUME NEW u \in Timers, ms[u] # 0
       PROVE  \E i \in DOMAIN stay.heap : stay.heap[i].w = u
  <2>1. u # t /\ sl[u] # 0
    BY <1>17, <1>20, <1>22
  <2>2. sl[u] \in DOMAIN h /\ h[sl[u]].w = u /\ sl[u] # k
    BY <1>3, <1>4, <2>1
  <2> QED BY <1>18, <2>2
<1>23. du \in [Timers -> Int] /\ \A i \in DOMAIN h : h[i].at = du[h[i].w]
  BY DEF Sound
<1>24. nd \in [Timers -> Int] /\ \A i \in DOMAIN stay.heap : stay.heap[i].at = nd[stay.heap[i].w]
  BY <1>18, <1>19, <1>23 DEF OnlyOf
<1>25. Sound(stay.heap, ms, nd)
  BY <1>6, <1>17, <1>21, <1>22, <1>24, MadeSound
<1>26. ASSUME NEW u \in Timers, u # t
       PROVE  ms[u] # 0 <=> sl[u] # 0
  <2>1. ASSUME sl[u] # 0 PROVE ms[u] # 0
    <3>1. sl[u] \in DOMAIN h /\ h[sl[u]].w = u /\ sl[u] # k
      BY <1>3, <1>4, <1>26, <2>1
    <3>2. PICK i \in DOMAIN stay.heap : stay.heap[i] = h[sl[u]]
      BY <1>18, <3>1
    <3>3. stay.slot[u] = i /\ i # 0
      <4>1. i # 0
        BY <1>17, <3>2, ArrayHas
      <4> QED BY <1>19, <3>1, <3>2, <4>1
    <3> QED BY <1>20, <1>26, <3>3
  <2>2. ASSUME sl[u] = 0 PROVE ms[u] = 0
    BY <1>17, <1>20, <1>26, <2>2
  <2> QED BY <2>1, <2>2
<1> HIDE DEF m
<1>27. m.heap = stay.heap /\ m.slot = ms /\ m = [heap |-> m.heap, slot |-> m.slot]
  BY <1>2
<1>28. Without(t, sl, nd, m)
  BY <1>20, <1>25, <1>26, <1>27 DEF Without
<1> QED BY <1>28 DEF m, s

\* A timer that is set again keeps the heap sound once its entry is sifted.
LEMMA SetAgain ==
  ASSUME NEW h, NEW sl, NEW du, Sound(h, sl, du),
         NEW t \in Timers, sl[t] # 0, NEW at \in Int, NEW nd, OnlyOf(t, du, nd), nd[t] = at
  PROVE  ToSift(sl, nd, sl[t], Cached([heap |-> h, slot |-> sl], sl[t], at))
<1> DEFINE k == sl[t]
           s == Cached([heap |-> h, slot |-> sl], k, at)
           g == [h EXCEPT ![k] = [w |-> h[k].w, at |-> at]]
<1>1. PICK n \in Nat : Filled(h, n)
  BY DEF Sound
<1>2. /\ \A i \in DOMAIN h : sl[h[i].w] = i /\ i # 0 /\ h[i].w \in Timers
      /\ sl \in [Timers -> Nat] /\ OneEach(h)
      /\ \A u \in Timers : sl[u] # 0 => sl[u] \in DOMAIN h /\ h[sl[u]].w = u
  BY SoundIs DEF Sound, KnownBut
<1>3. k \in DOMAIN h /\ h[k].w = t
  BY <1>2
<1>4. /\ DOMAIN h = Heap0..(Heap0 + n - 1)
      /\ \A i \in DOMAIN h : /\ i \in Nat /\ i >= Heap0 /\ h[i] \in [w : Timers, at : Int]
                             /\ h[i].at \in Int /\ h[i] = [w |-> h[i].w, at |-> h[i].at]
                             /\ i > Heap0 => Parent(i) \in DOMAIN h /\ Parent(i) < i
      /\ Heap0 \in Nat
  <2>1. /\ DOMAIN h = Heap0..(Heap0 + n - 1)
        /\ \A i \in DOMAIN h : /\ i \in Nat /\ i >= Heap0 /\ h[i].at \in Int
                               /\ h[i] = [w |-> h[i].w, at |-> h[i].at]
        /\ \A i \in DOMAIN h : i > Heap0 => Parent(i) \in DOMAIN h /\ Parent(i) < i
    BY <1>1, ArrayHas
  <2>2. \A i \in DOMAIN h : h[i] \in [w : Timers, at : Int]
    BY <1>1, <2>1 DEF Filled
  <2> QED BY <2>1, <2>2, RootIndex
<1> HIDE DEF k
<1>5. [h[k] EXCEPT !.at = at] = [w |-> h[k].w, at |-> at]
  BY <1>3, <1>4
<1>6. s.heap = g /\ s.slot = sl
  BY <1>3, <1>5 DEF Cached
<1> HIDE DEF s
<1>7. /\ DOMAIN g = DOMAIN h /\ g[k] = [w |-> t, at |-> at]
      /\ \A i \in DOMAIN h : i # k => g[i] = h[i]
  BY <1>3
<1>8. Filled(g, n)
  <2>1. \A i \in DOMAIN g : g[i] \in [w : Timers, at : Int]
    BY <1>4, <1>7
  <2>2. g = [i \in DOMAIN g |-> g[i]]
    OBVIOUS
  <2> HIDE DEF g
  <2> QED BY <1>4, <1>7, <2>1, <2>2 DEF Filled
<1> HIDE DEF g
<1>9. \A i \in DOMAIN h : g[i].w = h[i].w
  BY <1>3, <1>7
<1>10. KnownBut(g, sl, {})
  BY <1>2, <1>7, <1>9 DEF KnownBut, OneEach
<1>11. \A i \in DOMAIN h : i # Heap0 => h[Parent(i)].at <= h[i].at
  BY DEF Sound, Ordered, InOrder
<1>12. OrderedBut(g, k)
  <2>1. ASSUME NEW i \in DOMAIN g, i # Heap0, i # k, Parent(i) # k PROVE InOrder(g, i)
    <3>1. i \in DOMAIN h /\ i > Heap0 /\ Parent(i) \in DOMAIN h
      BY <1>4, <1>7, <2>1
    <3> QED BY <1>7, <1>11, <2>1, <3>1 DEF InOrder
  <2>2. ASSUME k > Heap0, NEW i \in Kids(g, k) PROVE g[Parent(k)].at <= g[i].at
    <3>1. i \in DOMAIN h /\ i > Heap0 /\ Parent(i) = k /\ i # Heap0 /\ k # Heap0
      BY <1>4, <1>3, <1>7, <2>2 DEF Kids
    <3>2. Parent(k) \in DOMAIN h /\ Parent(k) # k /\ i # k
      BY <1>3, <1>4, <2>2, <3>1
    <3>3. h[Parent(k)].at <= h[k].at /\ h[k].at <= h[i].at
      BY <1>3, <1>11, <3>1
    <3> QED BY <1>3, <1>4, <1>7, <3>1, <3>2, <3>3
  <2> QED BY <2>1, <2>2 DEF OrderedBut, InOrder
<1>13. du \in [Timers -> Int] /\ \A i \in DOMAIN h : h[i].at = du[h[i].w]
  BY DEF Sound
<1>14. nd \in [Timers -> Int] /\ \A i \in DOMAIN h : g[i].at = nd[g[i].w]
  <2>1. \A i \in DOMAIN h : i # k => h[i].w # t
    BY <1>2, <1>3 DEF OneEach
  <2> QED BY <1>2, <1>7, <1>13, <2>1 DEF OnlyOf
<1>15. ASSUME NEW m, Sifted(s, n, m)
       PROVE  With(sl, nd, m)
  <2>1. /\ m = [heap |-> m.heap, slot |-> m.slot] /\ Filled(m.heap, n) /\ Ordered(m.heap)
        /\ KnownBut(m.heap, m.slot, {})
    BY <1>15 DEF Sifted
  <2>2. /\ \A u \in Timers : sl[u] = 0 /\ m.slot[u] # 0 => \E i \in DOMAIN g : g[i].w = u
        /\ \A i \in DOMAIN m.heap : \E j \in DOMAIN g : m.heap[i] = g[j]
        /\ \A j \in DOMAIN g : \E i \in DOMAIN m.heap : m.heap[i] = g[j]
        /\ \A i \in DOMAIN m.heap : m.slot[m.heap[i].w] = i
    BY <1>2, <1>6, <1>15, SiftedKeeps
  <2>3. ASSUME NEW u \in Timers PROVE m.slot[u] # 0 <=> sl[u] # 0
    <3>1. ASSUME sl[u] # 0 PROVE m.slot[u] # 0
      <4>1. sl[u] \in DOMAIN g /\ g[sl[u]].w = u
        BY <1>2, <1>7, <1>9, <3>1
      <4>2. PICK i \in DOMAIN m.heap : m.heap[i] = g[sl[u]]
        BY <2>2, <4>1
      <4>3. m.slot[u] = i /\ i # 0
        BY <2>1, <2>2, <4>1, <4>2, ArrayHas
      <4> QED BY <4>3
    <3>2. ASSUME sl[u] = 0 PROVE m.slot[u] = 0
      <4>1. ~\E i \in DOMAIN g : g[i].w = u
        BY <1>2, <1>7, <1>9, <3>2
      <4> QED BY <2>2, <3>2, <4>1
    <3> QED BY <3>1, <3>2
  <2>4. \A i \in DOMAIN m.heap : m.heap[i].at = nd[m.heap[i].w]
    BY <1>7, <1>14, <2>2
  <2>5. ASSUME NEW u \in Timers, m.slot[u] # 0
        PROVE  \E i \in DOMAIN m.heap : m.heap[i].w = u
    <3>1. sl[u] # 0
      BY <2>3, <2>5
    <3>2. sl[u] \in DOMAIN g /\ g[sl[u]].w = u
      BY <1>2, <1>7, <1>9, <3>1
    <3> QED BY <2>2, <3>2
  <2>6. Sound(m.heap, m.slot, nd)
    BY <1>14, <2>1, <2>4, <2>5, MadeSound
  <2> QED BY <2>1, <2>3, <2>6 DEF With
<1>16. KnownBut(g, sl, {k})
  BY <1>10 DEF KnownBut
<1> QED
  <2>1. ToSift(sl, nd, k, s)
    BY <1>3, <1>6, <1>7, <1>8, <1>12, <1>15, <1>16 DEF ToSift
  <2> QED BY <2>1 DEF s, k

\* The root is due first.
LEMMA RootIsFirst ==
  ASSUME NEW h, NEW sl, NEW du, Sound(h, sl, du)
  PROVE  \A i \in DOMAIN h : Heap0 \in DOMAIN h /\ h[Heap0].at <= h[i].at
<1>1. PICK n \in Nat : Filled(h, n)
  BY DEF Sound
<1>2. /\ \A i \in DOMAIN h : /\ i \in Nat /\ i >= Heap0 /\ h[i].at \in Int
                             /\ i > Heap0 => Parent(i) \in DOMAIN h /\ Parent(i) < i
      /\ Heap0 \in Nat /\ DOMAIN h = Heap0..(Heap0 + n - 1)
  BY <1>1, ArrayHas, RootIndex
<1>3. \A i \in DOMAIN h : Heap0 \in DOMAIN h
  BY <1>2
<1> DEFINE T == {i \in DOMAIN h : ~ h[Heap0].at <= h[i].at}
<1> SUFFICES ASSUME T # {} PROVE FALSE
  BY <1>3
<1>4. PICK i \in T : \A j \in T : i <= j
  <2>1. T \in SUBSET Nat
    BY <1>2
  <2> HIDE DEF T
  <2> QED BY <2>1, Least
<1>5. i \in DOMAIN h /\ Heap0 \in DOMAIN h /\ ~ h[Heap0].at <= h[i].at /\ i # Heap0 /\ i > Heap0
  BY <1>2, <1>3
<1>6. Parent(i) \in DOMAIN h /\ Parent(i) < i /\ Parent(i) \in Nat /\ i \in Nat
  BY <1>2, <1>5
<1>7. h[Parent(i)].at <= h[i].at
  BY <1>5 DEF Sound, Ordered, InOrder
<1>8. ~ h[Heap0].at <= h[Parent(i)].at
  BY <1>2, <1>5, <1>6, <1>7
<1>9. Parent(i) \in T
  BY <1>6, <1>8
<1> HIDE DEF T
<1> QED BY <1>4, <1>6, <1>9

\* A round of timers_reify feeds the timer that is due first, and it is due no more.
LEMMA ReifyRound ==
  ASSUME NEW h, NEW sl, NEW du, NEW q, Sound(h, sl, du),
         DOMAIN h # {}, h[Heap0].at < mnNow, mnNow \in Nat, repeat \in [Timers -> Nat]
  PROVE  LET r == Reify([heap |-> h, slot |-> sl, due |-> du, fed |-> q])
             t == h[Heap0].w
         IN  /\ r = [heap |-> r.heap, slot |-> r.slot, due |-> r.due, fed |-> r.fed]
             /\ Sound(r.heap, r.slot, r.due) /\ r.fed = Append(q, t)
             /\ t \in Timers /\ sl[t] # 0 /\ du[t] < mnNow
             /\ \A u \in Timers : sl[u] # 0 => du[t] <= du[u]
             /\ \A u \in Timers : u # t => /\ r.due[u] = du[u]
                                           /\ r.slot[u] # 0 <=> sl[u] # 0
             /\ r.slot[t] = 0 \/ r.due[t] >= mnNow
<1> DEFINE s == [heap |-> h, slot |-> sl, due |-> du, fed |-> q]
           t == h[Heap0].w
           late == du[t] + repeat[t]
           nxt == IF late < mnNow THEN mnNow ELSE late
           old == [heap |-> h, slot |-> sl]
           m == IF repeat[t] = 0 THEN TakeOut(old, t)
                ELSE DownHeap(Cached(old, Heap0, nxt), Heap0)
           nd == [du EXCEPT ![t] = IF repeat[t] = 0 THEN 0 ELSE nxt]
           r == Reify(s)
<1>1. /\ \A i \in DOMAIN h : sl[h[i].w] = i /\ i # 0 /\ h[i].w \in Timers
      /\ \A u \in Timers : sl[u] # 0 => sl[u] \in DOMAIN h /\ h[sl[u]].w = u
      /\ Heap0 \in DOMAIN h /\ \A i \in DOMAIN h : h[Heap0].at <= h[i].at
      /\ du \in [Timers -> Int] /\ \A i \in DOMAIN h : h[i].at = du[h[i].w]
  BY SoundIs, RootIsFirst DEF Sound
<1>2. t \in Timers /\ sl[t] = Heap0 /\ sl[t] # 0 /\ du[t] = h[Heap0].at /\ du[t] < mnNow
  BY <1>1
<1>3. \A u \in Timers : sl[u] # 0 => du[t] <= du[u]
  <2> TAKE u \in Timers
  <2> HAVE sl[u] # 0
  <2>1. sl[u] \in DOMAIN h /\ h[sl[u]].w = u
    BY <1>1
  <2>2. h[sl[u]].at = du[u] /\ h[Heap0].at <= h[sl[u]].at
    BY <1>1, <2>1
  <2> QED BY <1>2, <2>2
<1>4. r = [heap |-> m.heap, slot |-> m.slot, fed |-> Append(q, t), due |-> nd]
  <2>1. ~(DOMAIN s.heap = {} \/ s.heap[Heap0].at >= mnNow)
    <3>1. h[Heap0].at \in Int
      BY <1>1, <1>2
    <3> QED BY <3>1
  <2> QED BY <2>1 DEF Reify
<1> HIDE DEF t, r
<1>5. late \in Int /\ nxt \in Int /\ nxt >= mnNow
  BY <1>1, <1>2
<1> HIDE DEF late, nxt
<1>6. /\ OnlyOf(t, du, nd) /\ \A u \in Timers : u # t => nd[u] = du[u]
      /\ nd[t] = IF repeat[t] = 0 THEN 0 ELSE nxt
  BY <1>1, <1>2, <1>5 DEF OnlyOf
<1> HIDE DEF nd
<1>7. /\ Sound(m.heap, m.slot, nd)
      /\ \A u \in Timers : u # t => (m.slot[u] # 0 <=> sl[u] # 0)
      /\ m.slot[t] = 0 \/ nd[t] >= mnNow
  <2>1. CASE repeat[t] = 0
    <3>1. m = TakeOut([heap |-> h, slot |-> sl], t)
      BY <2>1
    <3> HIDE DEF m
    <3>2. Without(t, sl, nd, m)
      BY <1>2, <1>6, <3>1, TakeOutIsSound
    <3> QED BY <3>2 DEF Without
  <2>2. CASE repeat[t] # 0
    <3> DEFINE c == Cached([heap |-> h, slot |-> sl], Heap0, nxt)
    <3>1. m = DownHeap(c, Heap0) /\ nd[t] = nxt
      BY <1>6, <2>2
    <3> HIDE DEF m
    <3>2. ToSift(sl, nd, Heap0, c)
      BY <1>2, <1>5, <1>6, <3>1, SetAgain
    <3>3. PICK n : /\ Filled(c.heap, n) /\ Heap0 \in DOMAIN c.heap
                   /\ KnownBut(c.heap, c.slot, {Heap0}) /\ OrderedBut(c.heap, Heap0)
                   /\ \A m1 : Sifted(c, n, m1) =>
                         /\ Sound(m1.heap, m1.slot, nd)
                         /\ \A u \in Timers : m1.slot[u] # 0 <=> sl[u] # 0
      BY <3>2 DEF ToSift, With
    <3>4. Sifted(c, n, DownHeap(c, Heap0))
      BY <3>3, DownHeapSifts
    <3> QED BY <1>5, <3>1, <3>3, <3>4
  <2> QED BY <2>1, <2>2
<1> HIDE DEF m
<1>8. r.heap = m.heap /\ r.slot = m.slot /\ r.due = nd /\ r.fed = Append(q, t)
      /\ r = [heap |-> r.heap, slot |-> r.slot, due |-> r.due, fed |-> r.fed]
  BY <1>4
<1> QED BY <1>2, <1>3, <1>6, <1>7, <1>8 DEF r, t

\* What timers_reify starts from, and the rounds of it.
Start == [heap |-> heap, slot |-> slot, due |-> due, fed |-> <<>>]

Rounds(g, n) == g = [m \in 0..n |-> IF m = 0 THEN Start ELSE Reify(g[m - 1])]

\* There are as many as one likes.
LEMMA RoundsExist ==
  ASSUME NEW n \in Nat
  PROVE  \E g : Rounds(g, n)
<1> DEFINE T == {m \in Nat : \E g : Rounds(g, m)}
<1>1. 0 \in T
  <2> DEFINE h == [m \in 0..0 |-> Start]
  <2>1. h = [m \in 0..0 |-> IF m = 0 THEN Start ELSE Reify(h[m - 1])]
    OBVIOUS
  <2> HIDE DEF h
  <2> QED BY <2>1 DEF Rounds
<1>2. ASSUME NEW m \in T PROVE m + 1 \in T
  <2>1. PICK g : Rounds(g, m)
    OBVIOUS
  <2>2. m \in Nat /\ m + 1 \in Nat
    OBVIOUS
  <2> DEFINE x == Reify(g[m])
             h == [i \in 0..(m + 1) |-> IF i = m + 1 THEN x ELSE g[i]]
  <2>3. ASSUME NEW i \in 0..(m + 1)
        PROVE  h[i] = IF i = 0 THEN Start ELSE Reify(h[i - 1])
    <3>1. CASE i = m + 1
      <4>1. i # 0 /\ i - 1 = m /\ m \in 0..(m + 1) /\ m # m + 1
        BY <3>1, <2>2
      <4>2. h[i - 1] = g[m] /\ h[i] = x
        BY <4>1, <3>1
      <4> QED BY <4>1, <4>2
    <3>2. CASE i # m + 1
      <4>1. i \in 0..m
        BY <3>2, <2>2
      <4>2. g[i] = IF i = 0 THEN Start ELSE Reify(g[i - 1])
        BY <4>1, <2>1 DEF Rounds
      <4>3. h[i] = g[i]
        BY <3>2
      <4>4. i # 0 => h[i - 1] = g[i - 1]
        BY <4>1, <2>2
      <4> HIDE DEF h
      <4> QED BY <4>2, <4>3, <4>4
    <3> QED BY <3>1, <3>2
  <2>4. h = [i \in 0..(m + 1) |-> h[i]]
    OBVIOUS
  <2> HIDE DEF h
  <2>5. h = [i \in 0..(m + 1) |-> IF i = 0 THEN Start ELSE Reify(h[i - 1])]
    BY <2>3, <2>4
  <2> QED BY <2>2, <2>5 DEF Rounds
<1>3. T = Nat
  <2>1. T \in SUBSET Nat
    OBVIOUS
  <2> HIDE DEF T
  <2> QED BY <1>1, <1>2, <2>1, Induct
<1> QED BY <1>3

\* The heap, and what it takes for it to stay sound.
TimersIInv ==
  /\ Sound(heap, slot, due)
  /\ repeat \in [Timers -> Nat]
  /\ mnNow \in Nat

\* The timers that are due in s.
DueIn(s) == {t \in Timers : s.slot[t] # 0 /\ s.due[t] < mnNow}

\* After n rounds: the timers that are fed were due, and no later than those that
\* are not; they are due no more.
Halfway(s, n) ==
  /\ s = [heap |-> s.heap, slot |-> s.slot, due |-> s.due, fed |-> s.fed]
  /\ Sound(s.heap, s.slot, s.due) /\ s.fed \in Seq(Timers)
  /\ \A t \in Timers \ ToSet(s.fed) : s.due[t] = due[t] /\ (s.slot[t] # 0 <=> slot[t] # 0)
  /\ \A t \in ToSet(s.fed) : /\ slot[t] # 0
                             /\ s.slot[t] = 0 \/ s.due[t] >= mnNow
  /\ \A i, j \in 1..Len(s.fed) : i < j => due[s.fed[i]] <= due[s.fed[j]]
  /\ \A t \in ToSet(s.fed) : \A u \in Timers \ ToSet(s.fed) :
        slot[u] # 0 => due[t] <= due[u]
  /\ IsFiniteSet(DueIn(s)) /\ Cardinality(DueIn(s)) + n <= Size

\* Nothing is fed at first, and no more is due than the heap has.
LEMMA HalfwayStarts ==
  ASSUME TimersIInv
  PROVE  Halfway(Start, 0) /\ Size \in Nat
<1>1. PICK n \in Nat : Filled(heap, n)
  BY DEF TimersIInv, Sound
<1>2. IsFiniteSet(DOMAIN heap) /\ Size = n
  BY <1>1, ArrayHas DEF Size
<1> DEFINE f == [i \in DOMAIN heap |-> heap[i].w]
           W == {heap[i].w : i \in DOMAIN heap}
<1>3. IsFiniteSet(W) /\ Cardinality(W) <= n /\ Cardinality(W) \in Nat
  <2>1. f \in [DOMAIN heap -> W] /\ \A w \in W : \E i \in DOMAIN heap : f[i] = w
    OBVIOUS
  <2>2. f \in Surjection(DOMAIN heap, W)
    BY <2>1 DEF Surjection
  <2> HIDE DEF f, W
  <2> QED BY <1>2, <2>2, FS_Surjection, FS_CardinalityType DEF Size
<1>4. DueIn(Start) \subseteq W
  <2> SUFFICES ASSUME NEW t \in DueIn(Start) PROVE t \in W
    OBVIOUS
  <2>1. t \in Timers /\ slot[t] # 0
    BY DEF DueIn, Start
  <2> QED BY <2>1, SoundIs DEF TimersIInv
<1>5. IsFiniteSet(DueIn(Start)) /\ Cardinality(DueIn(Start)) <= Cardinality(W)
      /\ Cardinality(DueIn(Start)) \in Nat
  <2> HIDE DEF W
  <2> QED BY <1>3, <1>4, FS_Subset, FS_CardinalityType
<1>6. Cardinality(DueIn(Start)) + 0 <= Size
  BY <1>2, <1>3, <1>5
<1>7. /\ Start.heap = heap /\ Start.slot = slot /\ Start.due = due /\ Start.fed = <<>>
      /\ Start = [heap |-> Start.heap, slot |-> Start.slot, due |-> Start.due,
                  fed |-> Start.fed]
  BY DEF Start
<1>8. ToSet(<<>>) = {} /\ <<>> \in Seq(Timers) /\ Len(<<>>) = 0
  BY DEF ToSet
<1> QED
  BY <1>2, <1>5, <1>6, <1>7, <1>8 DEF Halfway, TimersIInv

\* A round goes on with it.
LEMMA HalfwayGoesOn ==
  ASSUME TimersIInv, NEW n \in Nat, NEW s, Halfway(s, n), n + 1 <= Size
  PROVE  Halfway(Reify(s), n + 1)
<1> DEFINE r == Reify(s)
           t == s.heap[Heap0].w
<1>1. /\ s = [heap |-> s.heap, slot |-> s.slot, due |-> s.due, fed |-> s.fed]
      /\ Sound(s.heap, s.slot, s.due) /\ s.fed \in Seq(Timers)
      /\ mnNow \in Nat /\ repeat \in [Timers -> Nat]
      /\ IsFiniteSet(DueIn(s)) /\ Cardinality(DueIn(s)) + n <= Size
      /\ Cardinality(DueIn(s)) \in Nat /\ Size \in Nat
  BY HalfwayStarts, FS_CardinalityType DEF Halfway, TimersIInv
<1>2. /\ \A i \in DOMAIN s.heap : s.heap[i].at \in Int /\ s.heap[i].at = s.due[s.heap[i].w]
      /\ \A u \in Timers : s.slot[u] # 0 => s.slot[u] \in DOMAIN s.heap /\ s.heap[s.slot[u]].w = u
      /\ \A i \in DOMAIN s.heap : Heap0 \in DOMAIN s.heap /\ s.heap[Heap0].at <= s.heap[i].at
      /\ s.due \in [Timers -> Int]
  <2>1. \A i \in DOMAIN s.heap : s.heap[i].at \in Int
    BY <1>1, ArrayHas DEF Sound
  <2>2. \A u \in Timers : s.slot[u] # 0 => s.slot[u] \in DOMAIN s.heap /\ s.heap[s.slot[u]].w = u
    BY <1>1, SoundIs
  <2>3. \A i \in DOMAIN s.heap : Heap0 \in DOMAIN s.heap /\ s.heap[Heap0].at <= s.heap[i].at
    BY <1>1, RootIsFirst
  <2> QED BY <1>1, <2>1, <2>2, <2>3 DEF Sound
<1>3. CASE DOMAIN s.heap = {} \/ s.heap[Heap0].at >= mnNow
  <2>1. r = s
    BY <1>3 DEF Reify
  <2>2. DueIn(s) = {}
    <3> SUFFICES ASSUME NEW u \in DueIn(s) PROVE FALSE
      OBVIOUS
    <3>1. u \in Timers /\ s.slot[u] # 0 /\ s.due[u] < mnNow
      BY DEF DueIn
    <3>2. s.slot[u] \in DOMAIN s.heap /\ s.heap[s.slot[u]].at = s.due[u]
      BY <1>2, <3>1
    <3>3. s.heap[Heap0].at <= s.due[u] /\ s.heap[Heap0].at \in Int /\ s.due[u] \in Int
      BY <1>2, <3>1, <3>2
    <3> QED BY <1>1, <1>3, <3>1, <3>2, <3>3
  <2>3. Cardinality(DueIn(s)) = 0
    BY <2>2, FS_EmptySet
  <2>4. Cardinality(DueIn(s)) + (n + 1) <= Size
    BY <2>3
  <2> HIDE DEF r
  <2> QED BY <2>1, <2>4 DEF Halfway, r
<1>4. CASE ~(DOMAIN s.heap = {} \/ s.heap[Heap0].at >= mnNow)
  <2>1. DOMAIN s.heap # {} /\ s.heap[Heap0].at < mnNow
    BY <1>1, <1>2, <1>4
  <2>2. /\ r = [heap |-> r.heap, slot |-> r.slot, due |-> r.due, fed |-> r.fed]
        /\ Sound(r.heap, r.slot, r.due) /\ r.fed = Append(s.fed, t)
        /\ t \in Timers /\ s.slot[t] # 0 /\ s.due[t] < mnNow
        /\ \A u \in Timers : s.slot[u] # 0 => s.due[t] <= s.due[u]
        /\ \A u \in Timers : u # t => /\ r.due[u] = s.due[u]
                                      /\ r.slot[u] # 0 <=> s.slot[u] # 0
        /\ r.slot[t] = 0 \/ r.due[t] >= mnNow
    <3> DEFINE v == [heap |-> s.heap, slot |-> s.slot, due |-> s.due, fed |-> s.fed]
    <3>1. r = Reify(v)
      BY <1>1
    <3>2. LET x == Reify([heap |-> s.heap, slot |-> s.slot, due |-> s.due, fed |-> s.fed])
              w == s.heap[Heap0].w
          IN  /\ x = [heap |-> x.heap, slot |-> x.slot, due |-> x.due, fed |-> x.fed]
              /\ Sound(x.heap, x.slot, x.due) /\ x.fed = Append(s.fed, w)
              /\ w \in Timers /\ s.slot[w] # 0 /\ s.due[w] < mnNow
              /\ \A u \in Timers : s.slot[u] # 0 => s.due[w] <= s.due[u]
              /\ \A u \in Timers : u # w => /\ x.due[u] = s.due[u]
                                            /\ x.slot[u] # 0 <=> s.slot[u] # 0
              /\ x.slot[w] = 0 \/ x.due[w] >= mnNow
      BY ONLY <1>1, <2>1, ReifyRound
    <3> HIDE DEF r
    <3> QED BY <3>1, <3>2
  <2> HIDE DEF r, t
  <2>3. /\ \A u \in Timers \ ToSet(s.fed) : s.due[u] = due[u] /\ (s.slot[u] # 0 <=> slot[u] # 0)
        /\ \A u \in ToSet(s.fed) : /\ slot[u] # 0
                                   /\ s.slot[u] = 0 \/ s.due[u] >= mnNow
        /\ \A i, j \in 1..Len(s.fed) : i < j => due[s.fed[i]] <= due[s.fed[j]]
        /\ \A w \in ToSet(s.fed) : \A u \in Timers \ ToSet(s.fed) :
              slot[u] # 0 => due[w] <= due[u]
    BY DEF Halfway
  <2>4. t \notin ToSet(s.fed)
    BY <1>1, <1>2, <2>2, <2>3
  <2>5. s.due[t] = due[t] /\ slot[t] # 0
    BY <2>2, <2>3, <2>4
  <2>6. /\ r.fed \in Seq(Timers) /\ Len(r.fed) = Len(s.fed) + 1 /\ Len(s.fed) \in Nat
        /\ r.fed[Len(s.fed) + 1] = t
        /\ \A i \in 1..Len(s.fed) : r.fed[i] = s.fed[i] /\ s.fed[i] \in ToSet(s.fed)
        /\ \A i \in 1..(Len(s.fed) + 1) : i \in 1..Len(s.fed) \/ i = Len(s.fed) + 1
    <3>1. r.fed \in Seq(Timers) /\ Len(r.fed) = Len(s.fed) + 1 /\ Len(s.fed) \in Nat
      BY <1>1, <2>2
    <3>2. r.fed[Len(s.fed) + 1] = t
      BY <1>1, <2>2
    <3>3. \A i \in 1..Len(s.fed) : r.fed[i] = s.fed[i] /\ s.fed[i] \in ToSet(s.fed)
      BY <1>1, <2>2 DEF ToSet
    <3>4. \A i \in 1..(Len(s.fed) + 1) : i \in 1..Len(s.fed) \/ i = Len(s.fed) + 1
      BY <3>1
    <3> QED BY <3>1, <3>2, <3>3, <3>4
  <2>7. ToSet(r.fed) = ToSet(s.fed) \cup {t}
    <3>1. ASSUME NEW u \in ToSet(r.fed) PROVE u \in ToSet(s.fed) \cup {t}
      <4>1. PICK i \in 1..(Len(s.fed) + 1) : u = r.fed[i]
        BY <2>6 DEF ToSet
      <4> QED BY <2>6, <4>1
    <3>2. ASSUME NEW u \in ToSet(s.fed) PROVE u \in ToSet(r.fed)
      <4>1. PICK i \in 1..Len(s.fed) : u = s.fed[i]
        BY <1>1 DEF ToSet
      <4>2. i \in 1..Len(r.fed) /\ r.fed[i] = u
        BY <2>6, <4>1
      <4> QED BY <2>6, <4>2 DEF ToSet
    <3>3. t \in ToSet(r.fed)
      <4>1. Len(s.fed) + 1 \in 1..Len(r.fed)
        BY <2>6
      <4> QED BY <2>6, <4>1 DEF ToSet
    <3> QED BY <3>1, <3>2, <3>3
  <2>8. \A u \in Timers \ ToSet(r.fed) : r.due[u] = due[u] /\ (r.slot[u] # 0 <=> slot[u] # 0)
    BY <2>2, <2>3, <2>7
  <2>9. ToSet(s.fed) \subseteq Timers
    BY <1>1 DEF ToSet
  <2>10. \A u \in ToSet(r.fed) : /\ slot[u] # 0
                                 /\ r.slot[u] = 0 \/ r.due[u] >= mnNow
    BY <2>2, <2>3, <2>4, <2>5, <2>7, <2>9
  <2>11. ASSUME NEW i \in 1..Len(r.fed), NEW j \in 1..Len(r.fed), i < j
         PROVE  due[r.fed[i]] <= due[r.fed[j]]
    <3>1. i \in 1..Len(s.fed)
      BY <2>6, <2>11
    <3>2. CASE j \in 1..Len(s.fed)
      BY <2>3, <2>6, <2>11, <3>1, <3>2
    <3>3. CASE j = Len(s.fed) + 1
      BY <2>2, <2>3, <2>4, <2>5, <2>6, <3>1, <3>3
    <3> QED BY <2>6, <3>2, <3>3
  <2>12. ASSUME NEW w \in ToSet(r.fed), NEW u \in Timers \ ToSet(r.fed), slot[u] # 0
         PROVE  due[w] <= due[u]
    <3>1. u \in Timers \ ToSet(s.fed)
      BY <2>7
    <3>2. CASE w \in ToSet(s.fed)
      BY <2>3, <2>12, <3>1, <3>2
    <3>3. CASE w = t
      BY <2>2, <2>3, <2>5, <2>12, <3>1, <3>3
    <3> QED BY <2>7, <3>2, <3>3
  <2>13. DueIn(r) = DueIn(s) \ {t} /\ t \in DueIn(s)
    <3>1. r.due \in [Timers -> Int]
      BY <2>2 DEF Sound
    <3>2. t \notin DueIn(r)
      BY <1>1, <2>2, <3>1 DEF DueIn
    <3> QED BY <2>2, <3>2 DEF DueIn
  <2>14. IsFiniteSet(DueIn(r)) /\ Cardinality(DueIn(r)) = Cardinality(DueIn(s)) - 1
    BY <1>1, <2>13, FS_RemoveElement
  <2>15. Cardinality(DueIn(r)) + (n + 1) <= Size
    BY <1>1, <2>14
  <2> QED
    BY <2>2, <2>6, <2>8, <2>10, <2>11, <2>12, <2>14, <2>15 DEF Halfway, r
<1> QED BY <1>3, <1>4

\* In the end none is due but was fed.
LEMMA ReifiedIs ==
  ASSUME TimersIInv
  PROVE  Halfway(Reified, Size) /\ DueIn(Reified) = {}
<1> DEFINE g == CHOOSE g : Rounds(g, Size)
<1>1. Size \in Nat
  BY HalfwayStarts
<1>2. Reified = g[Size]
  BY DEF Reified, Rounds, Start
<1>3. Rounds(g, Size)
  <2>1. \E f : Rounds(f, Size)
    BY <1>1, RoundsExist
  <2> QED BY <2>1
<1> HIDE DEF g
<1>4. \A n \in 0..Size : g[n] = IF n = 0 THEN Start ELSE Reify(g[n - 1])
  BY <1>3 DEF Rounds
<1> DEFINE T == {n \in Nat : n <= Size => Halfway(g[n], n)}
<1>5. 0 \in T
  BY <1>1, <1>4, HalfwayStarts
<1>6. ASSUME NEW n \in T PROVE n + 1 \in T
  <2>1. n \in Nat /\ n + 1 \in Nat
    OBVIOUS
  <2>2. CASE n + 1 <= Size
    <3>1. n <= Size /\ Halfway(g[n], n)
      BY <1>1, <2>1, <2>2
    <3>2. g[n + 1] = Reify(g[n])
      <4>1. n + 1 \in 0..Size /\ n + 1 # 0 /\ (n + 1) - 1 = n
        BY <1>1, <2>1, <2>2
      <4> HIDE DEF T
      <4> QED BY <1>4, <4>1
    <3>3. Halfway(g[n + 1], n + 1)
      BY <2>1, <2>2, <3>1, <3>2, HalfwayGoesOn
    <3> QED BY <2>1, <3>3
  <2>3. CASE ~ n + 1 <= Size
    BY <2>1, <2>3
  <2> QED BY <2>2, <2>3
<1>7. T = Nat
  <2>1. T \in SUBSET Nat
    OBVIOUS
  <2> HIDE DEF T
  <2> QED BY <1>5, <1>6, <2>1, Induct
<1>8. Halfway(Reified, Size)
  BY <1>1, <1>2, <1>7
<1>9. DueIn(Reified) = {}
  <2>1. IsFiniteSet(DueIn(Reified)) /\ Cardinality(DueIn(Reified)) + Size <= Size
    BY <1>8 DEF Halfway
  <2>2. Cardinality(DueIn(Reified)) \in Nat
    BY <2>1, FS_CardinalityType
  <2>3. Cardinality(DueIn(Reified)) = 0
    BY <1>1, <2>1, <2>2
  <2> QED BY <2>1, <2>3, FS_EmptySet
<1> QED BY <1>8, <1>9

\* The array that a step makes of the heap, and the times.
LEMMA SoundNext ==
  ASSUME NEW m, NEW nd, Sound(m.heap, m.slot, nd), heap' = m.heap, slot' = m.slot, due' = nd
  PROVE  Sound(heap, slot, due)'
BY DEF Sound, Filled, Ordered, InOrder, KnownBut, OneEach, Known, Parent, Heap0

\* What a call makes of the heap.
LEMMA TimerCalls ==
  ASSUME TimersIInv, NEW t \in Timers, TimerStart(t) \/ TimerStop(t) \/ TimerAgain(t)
  PROVE  TimersIInv' /\ (firing = <<>> => firing' = <<>>)
<1>1. Sound(heap, slot, due) /\ repeat \in [Timers -> Nat] /\ mnNow \in Nat
  BY DEF TimersIInv
<1>2. ASSUME Sound(heap, slot, due)', repeat' \in [Timers -> Nat], mnNow' = mnNow
      PROVE  TimersIInv'
  BY <1>1, <1>2 DEF TimersIInv
<1>3. Unpend(<<>>, t) = <<>>
  BY DEF Unpend
<1>4. Afters \subseteq Nat /\ Repeats \subseteq Nat
  BY RootIndex
<1>5. CASE TimerStart(t)
  <2>1. PICK after \in Afters, r \in Repeats :
          /\ due' = [due EXCEPT ![t] = mnNow + after]
          /\ repeat' = [repeat EXCEPT ![t] = r]
          /\ Becomes(Insert(TheHeap, t, mnNow + after))
    BY <1>5 DEF TimerStart
  <2> DEFINE m == Insert(TheHeap, t, mnNow + after)
  <2>2. slot[t] = 0 /\ mnNow + after \in Int /\ r \in Nat
    BY <1>1, <1>4, <1>5 DEF TimerStart
  <2>3. Sound(m.heap, m.slot, [due EXCEPT ![t] = mnNow + after])
    BY <1>1, <2>2, InsertIsSound DEF TheHeap
  <2>4. heap' = m.heap /\ slot' = m.slot
    BY <2>1 DEF Becomes
  <2> HIDE DEF m
  <2>5. Sound(heap, slot, due)'
    BY <2>1, <2>3, <2>4, SoundNext
  <2>6. repeat' \in [Timers -> Nat]
    BY <1>1, <2>1, <2>2
  <2> QED BY <1>2, <1>5, <2>5, <2>6 DEF TimerStart
<1>6. CASE TimerStop(t)
  <2>1. firing' = Unpend(firing, t) /\ repeat' = repeat /\ mnNow' = mnNow
    BY <1>6 DEF TimerStop
  <2>2. CASE slot[t] = 0
    <3>1. heap' = heap /\ slot' = slot /\ due' = due
      BY <1>6, <2>2 DEF TimerStop
    <3>2. Sound(heap, slot, due)'
      BY <1>1, <3>1, SoundNext
    <3> QED BY <1>1, <1>2, <1>3, <2>1, <3>2
  <2>3. CASE slot[t] # 0
    <3> DEFINE m == TakeOut(TheHeap, t)
    <3>1. Becomes(m) /\ due' = [due EXCEPT ![t] = 0]
      BY <1>6, <2>3 DEF TimerStop
    <3>2. Sound(m.heap, m.slot, due')
      <4>1. OnlyOf(t, due, due')
        BY <1>1, <3>1 DEF Sound, OnlyOf
      <4>2. Without(t, slot, due', m)
        BY <1>1, <2>3, <4>1, TakeOutIsSound DEF TheHeap
      <4> HIDE DEF m
      <4> QED BY <4>2 DEF Without
    <3>3. heap' = m.heap /\ slot' = m.slot
      BY <3>1 DEF Becomes
    <3> HIDE DEF m
    <3>4. Sound(heap, slot, due)'
      BY <3>1, <3>2, <3>3, SoundNext
    <3> QED BY <1>1, <1>2, <1>3, <2>1, <3>4
  <2> QED BY <2>2, <2>3
<1>7. CASE TimerAgain(t)
  <2>1. PICK r \in Repeats :
          /\ repeat' = [repeat EXCEPT ![t] = r]
          /\ firing' = Unpend(firing, t)
          /\ CASE slot[t] # 0 /\ r # 0 ->
                    /\ due' = [due EXCEPT ![t] = mnNow + r]
                    /\ Becomes(AdjustHeap(Cached(TheHeap, slot[t], mnNow + r), slot[t]))
               [] slot[t] # 0 /\ r = 0 ->
                    /\ due' = [due EXCEPT ![t] = 0]
                    /\ Becomes(TakeOut(TheHeap, t))
               [] slot[t] = 0 /\ r # 0 ->
                    /\ due' = [due EXCEPT ![t] = mnNow + r]
                    /\ Becomes(Insert(TheHeap, t, mnNow + r))
               [] OTHER -> UNCHANGED <<heap, slot, due>>
          /\ UNCHANGED mnNow
    BY <1>7 DEF TimerAgain
  <2>2. r \in Nat /\ mnNow + r \in Int /\ repeat' \in [Timers -> Nat]
    BY <1>1, <1>4, <2>1
  <2>3. CASE slot[t] # 0 /\ r # 0
    <3> DEFINE at == mnNow + r
               s == Cached(TheHeap, slot[t], at)
               m == AdjustHeap(s, slot[t])
    <3>1. due' = [due EXCEPT ![t] = at] /\ Becomes(m)
      BY <2>1, <2>3
    <3>2. at \in Int /\ due'[t] = at /\ OnlyOf(t, due, due')
      BY <1>1, <2>2, <3>1 DEF Sound, OnlyOf
    <3> HIDE DEF at
    <3>3. ToSift(slot, due', slot[t], s)
      BY <1>1, <2>3, <3>2, SetAgain DEF TheHeap
    <3>4. heap' = m.heap /\ slot' = m.slot
      BY <3>1 DEF Becomes
    <3> HIDE DEF s
    <3>5. PICK n : /\ Filled(s.heap, n) /\ slot[t] \in DOMAIN s.heap
                   /\ KnownBut(s.heap, s.slot, {slot[t]}) /\ OrderedBut(s.heap, slot[t])
                   /\ \A x : Sifted(s, n, x) =>
                         Sound(x.heap, x.slot, due')
      BY <3>3 DEF ToSift, With
    <3>6. Sifted(s, n, m)
      BY <3>5, AdjustHeapSifts
    <3> HIDE DEF m
    <3>7. Sound(m.heap, m.slot, due')
      BY <3>5, <3>6
    <3>8. Sound(heap, slot, due)'
      BY <3>1, <3>4, <3>7, SoundNext
    <3> QED BY <1>2, <1>3, <2>1, <2>2, <3>8
  <2>4. CASE slot[t] # 0 /\ r = 0
    <3> DEFINE m == TakeOut(TheHeap, t)
    <3>1. due' = [due EXCEPT ![t] = 0] /\ Becomes(m)
      BY <2>1, <2>4
    <3>2. Sound(m.heap, m.slot, due')
      <4>1. OnlyOf(t, due, due')
        BY <1>1, <3>1 DEF Sound, OnlyOf
      <4>2. Without(t, slot, due', m)
        BY <1>1, <2>4, <4>1, TakeOutIsSound DEF TheHeap
      <4> HIDE DEF m
      <4> QED BY <4>2 DEF Without
    <3>3. heap' = m.heap /\ slot' = m.slot
      BY <3>1 DEF Becomes
    <3> HIDE DEF m
    <3>4. Sound(heap, slot, due)'
      BY <3>1, <3>2, <3>3, SoundNext
    <3> QED BY <1>2, <1>3, <2>1, <2>2, <3>4
  <2>5. CASE slot[t] = 0 /\ r # 0
    <3> DEFINE m == Insert(TheHeap, t, mnNow + r)
    <3>1. due' = [due EXCEPT ![t] = mnNow + r] /\ Becomes(m)
      BY <2>1, <2>5
    <3>2. Sound(m.heap, m.slot, [due EXCEPT ![t] = mnNow + r])
      BY <1>1, <2>2, <2>5, InsertIsSound DEF TheHeap
    <3>3. heap' = m.heap /\ slot' = m.slot
      BY <3>1 DEF Becomes
    <3> HIDE DEF m
    <3>4. Sound(heap, slot, due)'
      BY <3>1, <3>2, <3>3, SoundNext
    <3> QED BY <1>2, <1>3, <2>1, <2>2, <3>4
  <2>6. CASE slot[t] = 0 /\ r = 0
    <3>1. heap' = heap /\ slot' = slot /\ due' = due
      BY <2>1, <2>6
    <3>2. Sound(heap, slot, due)'
      BY <1>1, <3>1, SoundNext
    <3> QED BY <1>2, <1>3, <2>1, <2>2, <3>2
  <2> QED BY <2>3, <2>4, <2>5, <2>6
<1> QED BY <1>5, <1>6, <1>7

\* A clock that is set moves all timers along.
LEMMA JumpIsSound ==
  ASSUME TimersIInv, TimeJump
  PROVE  TimersIInv'
<1>1. Sound(heap, slot, due) /\ repeat' \in [Timers -> Nat] /\ mnNow \in Nat
      /\ mnNow' \in Nat /\ slot' = slot
  <2>1. mnNow' \in 0..NowMax
    BY DEF TimeJump
  <2> QED BY <2>1, TimerSizes DEF TimersIInv, TimeJump
<1> DEFINE by == mnNow' - mnNow
           nd == [t \in Timers |-> IF slot[t] # 0 THEN due[t] + by ELSE due[t]]
           g == [i \in DOMAIN heap |-> [heap[i] EXCEPT !.at = nd[heap[i].w]]]
<1>2. due' = nd
  <2>1. \A t \in Timers : due[t] + mnNow' - mnNow = due[t] + by
    BY <1>1 DEF Sound
  <2>2. due' = [t \in Timers |-> IF slot[t] # 0 THEN due[t] + mnNow' - mnNow ELSE due[t]]
    BY DEF TimeJump
  <2> HIDE DEF by
  <2> QED BY <2>1, <2>2
<1>3. heap' = g
  BY <1>2 DEF TimeJump
<1>4. PICK n \in Nat : Filled(heap, n)
  BY <1>1 DEF Sound
<1>5. /\ \A i \in DOMAIN heap : slot[heap[i].w] = i /\ i # 0 /\ heap[i].w \in Timers
      /\ slot \in [Timers -> Nat] /\ OneEach(heap)
      /\ \A u \in Timers : slot[u] # 0 => slot[u] \in DOMAIN heap /\ heap[slot[u]].w = u
      /\ due \in [Timers -> Int] /\ \A i \in DOMAIN heap : heap[i].at = due[heap[i].w]
      /\ \A i \in DOMAIN heap : i # Heap0 => heap[Parent(i)].at <= heap[i].at
  BY <1>1, SoundIs DEF Sound, KnownBut, Ordered, InOrder
<1>6. /\ DOMAIN heap = Heap0..(Heap0 + n - 1)
      /\ \A i \in DOMAIN heap : /\ heap[i].at \in Int /\ i >= Heap0 /\ i \in Nat
                                /\ heap[i] = [w |-> heap[i].w, at |-> heap[i].at]
                                /\ i > Heap0 => Parent(i) \in DOMAIN heap
  BY <1>4, ArrayHas
<1>7. by \in Int
  BY <1>1
<1> HIDE DEF by
<1>8. nd \in [Timers -> Int]
  BY <1>5, <1>7
<1>9. DOMAIN g = DOMAIN heap
      /\ \A i \in DOMAIN heap : /\ g[i] = [w |-> heap[i].w, at |-> heap[i].at + by]
                                /\ nd[heap[i].w] = heap[i].at + by
  <2>1. \A i \in DOMAIN heap : nd[heap[i].w] = heap[i].at + by
    BY <1>5
  <2> HIDE DEF nd
  <2>2. ASSUME NEW i \in DOMAIN heap
        PROVE  g[i] = [w |-> heap[i].w, at |-> nd[heap[i].w]]
    <3> DEFINE e == heap[i]
    <3>1. e = [w |-> e.w, at |-> e.at]
      BY <1>6
    <3>2. g[i] = [e EXCEPT !.at = nd[e.w]]
      OBVIOUS
    <3> HIDE DEF e, g
    <3>3. [e EXCEPT !.at = nd[e.w]] = [w |-> e.w, at |-> nd[e.w]]
      BY <3>1
    <3> QED BY <3>2, <3>3 DEF e
  <2> QED BY <2>1, <2>2
<1>10. g = [i \in DOMAIN heap |-> g[i]]
  OBVIOUS
<1> HIDE DEF g, nd
<1>11. Filled(g, n)
  <2>1. \A i \in DOMAIN heap : g[i] \in [w : Timers, at : Int]
    BY <1>5, <1>6, <1>7, <1>9
  <2> QED BY <1>6, <1>10, <2>1 DEF Filled
<1>12. Ordered(g)
  <2>1. ASSUME NEW i \in DOMAIN heap, i # Heap0 PROVE g[Parent(i)].at <= g[i].at
    <3>1. Parent(i) \in DOMAIN heap /\ heap[Parent(i)].at <= heap[i].at
      <4>1. i > Heap0
        BY <1>6, <2>1, RootIndex
      <4> QED BY <1>5, <1>6, <2>1, <4>1
    <3> QED BY <1>6, <1>7, <1>9, <3>1
  <2> QED BY <1>9, <2>1 DEF Ordered, InOrder
<1>13. KnownBut(g, slot, {})
  BY <1>5, <1>9 DEF KnownBut, OneEach
<1>14. \A u \in Timers : slot[u] # 0 => \E i \in DOMAIN g : g[i].w = u
  <2> TAKE u \in Timers
  <2> HAVE slot[u] # 0
  <2>1. slot[u] \in DOMAIN heap /\ heap[slot[u]].w = u
    BY <1>5
  <2> QED BY <1>9, <2>1
<1>15. \A i \in DOMAIN g : g[i].at = nd[g[i].w]
  BY <1>9
<1>16. Sound(g, slot, nd)
  BY <1>8, <1>11, <1>12, <1>13, <1>14, <1>15, MadeSound
<1> DEFINE m == [heap |-> g, slot |-> slot]
<1>17. m.heap = g /\ m.slot = slot
  OBVIOUS
<1> HIDE DEF m
<1>18. Sound(heap, slot, due)'
  BY <1>1, <1>2, <1>3, <1>16, <1>17, SoundNext
<1> QED BY <1>1, <1>18 DEF TimersIInv

\* What timers_reify leaves.
LEMMA ReifyStep ==
  ASSUME TimersIInv, TimersReify
  PROVE  /\ TimersIInv'
         /\ \A i, j \in DOMAIN firing' : i < j => due[firing'[i]] >= due[firing'[j]]
         /\ \A t \in Timers : slot[t] # 0 /\ due[t] < mnNow =>
               \E i \in DOMAIN firing' : firing'[i] = t
<1> DEFINE s == Reified
           n == Len(s.fed)
<1>1. /\ Becomes(s) /\ due' = s.due /\ firing' = FedBack(s.fed)
      /\ repeat' = repeat /\ mnNow' = mnNow
  BY DEF TimersReify
<1>2. Halfway(s, Size) /\ DueIn(s) = {}
  BY ReifiedIs
<1> HIDE DEF s
<1>3. TimersIInv'
  <2>1. heap' = s.heap /\ slot' = s.slot
    BY <1>1 DEF Becomes
  <2>2. Sound(heap, slot, due)'
    BY <1>1, <1>2, <2>1, SoundNext DEF Halfway
  <2> QED BY <1>1, <2>2 DEF TimersIInv
<1>4. /\ s.fed \in Seq(Timers) /\ n \in Nat
      /\ \A i, j \in 1..n : i < j => due[s.fed[i]] <= due[s.fed[j]]
      /\ \A i \in 1..n : s.fed[i] \in Timers
  BY <1>2 DEF Halfway
<1>5. firing' = [i \in 1..n |-> s.fed[(n - i) + 1]]
  BY <1>1 DEF FedBack, Reverse
<1>6. DOMAIN firing' = 1..n /\ \A i \in 1..n : firing'[i] = s.fed[(n - i) + 1]
  BY <1>5
<1>7. ASSUME NEW i \in 1..n, NEW j \in 1..n, i < j
      PROVE  due[firing'[i]] >= due[firing'[j]]
  <2>1. (n - i) + 1 \in 1..n /\ (n - j) + 1 \in 1..n /\ (n - j) + 1 < (n - i) + 1
    <3>1. n \in Nat
      BY <1>4
    <3> HIDE DEF n
    <3> QED BY ONLY <3>1, <1>7, i \in 1..n, j \in 1..n
  <2>2. due[s.fed[(n - j) + 1]] <= due[s.fed[(n - i) + 1]]
    BY <1>4, <2>1
  <2>3. due[s.fed[(n - j) + 1]] \in Int /\ due[s.fed[(n - i) + 1]] \in Int
    BY <1>4, <2>1 DEF TimersIInv, Sound
  <2> QED BY <1>6, <2>2, <2>3
<1>8. ASSUME NEW t \in Timers, slot[t] # 0, due[t] < mnNow
      PROVE  \E i \in 1..n : firing'[i] = t
  <2>1. t \in ToSet(s.fed)
    <3> SUFFICES ASSUME t \notin ToSet(s.fed) PROVE FALSE
      OBVIOUS
    <3>1. s.due[t] = due[t] /\ s.slot[t] # 0
      BY <1>2, <1>8 DEF Halfway
    <3>2. t \in DueIn(s)
      BY <1>8, <3>1 DEF DueIn
    <3> QED BY <1>2, <3>2
  <2>2. PICK i \in 1..n : s.fed[i] = t
    BY <1>4, <2>1 DEF ToSet
  <2>3. (n - i) + 1 \in 1..n /\ (n - ((n - i) + 1)) + 1 = i
    BY <1>4
  <2> QED BY <1>6, <2>2, <2>3
<1> HIDE DEF n
<1> QED BY <1>3, <1>6, <1>7, <1>8

\* Every step keeps the heap sound, and fires timers in order.
LEMMA TimersStep ==
  ASSUME TimersIInv, [TimersNext]_timerVars
  PROVE  /\ TimersIInv'
         /\ firing = <<>> /\ firing' # <<>> =>
              /\ \A i, j \in DOMAIN firing' : i < j => due[firing'[i]] >= due[firing'[j]]
              /\ \A t \in Timers : slot[t] # 0 /\ due[t] < mnNow =>
                   \E i \in DOMAIN firing' : firing'[i] = t
<1>1. ASSUME heap' = heap, slot' = slot, due' = due, repeat' = repeat, mnNow' \in Nat
      PROVE  TimersIInv'
  BY <1>1, SoundNext DEF TimersIInv
<1>2. CASE \E t \in Timers : TimerStart(t) \/ TimerStop(t) \/ TimerAgain(t)
  BY <1>2, TimerCalls
<1>3. CASE TimeUpdate
  <2>1. mnNow' \in Nat
    <3>1. mnNow' \in (mnNow + 1)..NowMax /\ mnNow \in Nat /\ NowMax \in Nat
      BY <1>3, TimerSizes DEF TimeUpdate, TimersIInv
    <3> QED BY <3>1
  <2> QED BY <1>1, <1>3, <2>1 DEF TimeUpdate
<1>4. CASE TimeJump
  BY <1>4, JumpIsSound DEF TimeJump
<1>5. CASE TimersReify
  BY <1>5, ReifyStep
<1>6. CASE InvokeTimer
  BY <1>1, <1>6 DEF InvokeTimer, TimersIInv
<1>7. CASE UNCHANGED timerVars
  BY <1>1, <1>7 DEF timerVars, TimersIInv
<1> QED BY <1>2, <1>3, <1>4, <1>5, <1>6, <1>7 DEF TimersNext

\* No timer is started at first.
LEMMA TimersStart ==
  ASSUME TimersInit
  PROVE  TimersIInv
<1>1. heap = [i \in {} |-> 0] /\ slot = [t \in Timers |-> 0] /\ due = [t \in Timers |-> 0]
      /\ repeat = [t \in Timers |-> 0] /\ mnNow = 0
  BY DEF TimersInit, None
<1>2. DOMAIN heap = {} /\ Heap0 \in Nat /\ Heap0..(Heap0 + 0 - 1) = {}
  BY <1>1, RootIndex
<1>3. Filled(heap, 0)
  BY <1>1, <1>2 DEF Filled
<1>4. Ordered(heap) /\ KnownBut(heap, slot, {})
  BY <1>1, <1>2 DEF Ordered, KnownBut, OneEach
<1>5. Sound(heap, slot, due)
  BY <1>1, <1>2, <1>3, <1>4, MadeSound
<1> QED BY <1>1, <1>5 DEF TimersIInv

(***************************************************************************)
(* For any number of timers and a heap of any arity, every entry is where  *)
(* its timer says, with the right time, and none is due before its parent  *)
(* (HeapIsSound of PkTimers, verify_heap in ev.c), through all calls and   *)
(* changes of the clock.                                                   *)
(***************************************************************************)
THEOREM TimersHold == TimersSpec => []HeapIsSound
<1>1. TimersInit => TimersIInv
  BY TimersStart
<1>2. TimersIInv /\ [TimersNext]_timerVars => TimersIInv'
  BY TimersStep
<1>3. TimersIInv => HeapIsSound
  <2> SUFFICES ASSUME TimersIInv PROVE HeapIsSound
    OBVIOUS
  <2>1. Sound(heap, slot, due)
    BY DEF TimersIInv
  <2> QED BY <2>1, SoundIs DEF HeapIsSound, Sound, Ordered, InOrder
<1> QED BY <1>1, <1>2, <1>3, PTL DEF TimersSpec

(***************************************************************************)
(* And when timers fire, all that are due do, in the order of their times  *)
(* (TimersRunInOrder of PkTimers).                                         *)
(***************************************************************************)
THEOREM TimersFire == TimersSpec => TimersRunInOrder
<1>1. TimersInit => TimersIInv
  BY TimersStart
<1>2. TimersIInv /\ [TimersNext]_timerVars => TimersIInv'
  BY TimersStep
<1>3. TimersIInv /\ [TimersNext]_timerVars =>
        [firing = <<>> /\ firing' # <<>> =>
           /\ \A i, j \in DOMAIN firing' : i < j => due[firing'[i]] >= due[firing'[j]]
           /\ \A t \in Timers : slot[t] # 0 /\ due[t] < mnNow =>
                \E i \in DOMAIN firing' : firing'[i] = t]_timerVars
  BY TimersStep
<1> QED BY <1>1, <1>2, <1>3, PTL DEF TimersSpec, TimersRunInOrder
================================================================================
