------------------------- MODULE FormPromise_proofs -------------------------
(***************************************************************************)
(* Every card that EMAIL_CREDENTIALS can carry is read back as it was      *)
(* typed, and every form of such cards card by card, for any words and any *)
(* number of segments in the passwords.  The functions split, join and     *)
(* FlattenSeq are defined by recursion over a text; what they compute is   *)
(* shown by induction with the least number that would be a counterexample.*)
(***************************************************************************)
EXTENDS FormPromise, SequenceTheorems, WellFoundedInduction, TLAPS

-----------------------------------------------------------------------------
(* Induction. *)

\* The least number with a property holds, or none: what induction on sets needs.
LEMMA Least ==
  ASSUME NEW T, T \subseteq Nat, T # {}
  PROVE  \E x \in T : \A y \in T : x <= y
<1> DEFINE R == OpToRel(<, Nat)
<1>1. IsWellFoundedOn(R, Nat)
  BY NatLessThanWellFounded
<1>2. R = {ss \in Nat \X Nat : ss[1] < ss[2]}
  BY DEF OpToRel
<1> HIDE DEF R
<1>3. PICK x \in T : \A y \in T : ~ (<<y, x>> \in R)
  BY <1>1, WFMin
<1>4. ASSUME NEW y \in T PROVE x <= y
  <2>1. x \in Nat /\ y \in Nat
    BY <1>3
  <2>2. <<y, x>> \notin {ss \in Nat \X Nat : ss[1] < ss[2]}
    BY <1>2, <1>3
  <2>3. ~ (y < x)
    BY <2>1, <2>2
  <2>4. QED
    BY <2>1, <2>3
<1>5. QED
  BY <1>3, <1>4

\* Induction on a set of numbers.
LEMMA UpTo ==
  ASSUME NEW N \in Nat, NEW S, 0 \in S, \A n \in 1 .. N : n - 1 \in S => n \in S
  PROVE  0 .. N \subseteq S
<1> DEFINE T == (0 .. N) \ S
<1> SUFFICES ASSUME T # {} PROVE FALSE
  OBVIOUS
<1>1. T \subseteq Nat
  OBVIOUS
<1> HIDE DEF T
<1>2. PICK n \in T : \A y \in T : n <= y
  BY <1>1, Least
<1> USE DEF T
<1>3. n \in 1 .. N /\ n - 1 \notin T
  BY <1>2
<1>4. QED
  BY <1>2, <1>3

\* A function is defined by its value at 0 and its steps.
Steps(N, V) == [1 .. N -> [V -> V]]
Values(N, V) == [0 .. N -> V]
Unrolls(f, v, step, N) == f[0] = v /\ \A n \in 1 .. N : f[n] = step[n][f[n - 1]]

\* A function so defined exists, whatever its steps.
LEMMA Recursion ==
  ASSUME NEW V, NEW N \in Nat, NEW v \in V, NEW step \in Steps(N, V)
  PROVE  \E f \in Values(N, V) : Unrolls(f, v, step, N)
<1> USE DEF Steps
<1> DEFINE OK(n, f) == f[0] = v /\ \A m \in 1 .. n : f[m] = step[m][f[m - 1]]
           S == {n \in 0 .. N : \E f \in [0 .. n -> V] : OK(n, f)}
<1>1. 0 \in S
  <2> DEFINE f == [m \in 0 .. 0 |-> v]
  <2>1. f \in [0 .. 0 -> V] /\ OK(0, f)
    OBVIOUS
  <2> HIDE DEF OK, f
  <2>2. QED
    BY <2>1
<1>2. ASSUME NEW n \in 1 .. N, n - 1 \in S PROVE n \in S
  <2>1. PICK f \in [0 .. n - 1 -> V] : OK(n - 1, f)
    BY <1>2
  <2> DEFINE g == [m \in 0 .. n |-> IF m < n THEN f[m] ELSE step[n][f[n - 1]]]
  <2>2. g \in [0 .. n -> V]
    BY <1>2
  <2>3. ASSUME NEW m \in 1 .. n PROVE g[m] = step[m][g[m - 1]]
    <3>1. g[m - 1] = f[m - 1]
      OBVIOUS
    <3>2. CASE m = n
      <4>1. g[n] = step[n][f[n - 1]]
        BY <1>2
      <4>2. QED
        BY <3>1, <3>2, <4>1
    <3>3. CASE m < n
      <4>1. m \in 1 .. n - 1 /\ m \in 0 .. n
        BY <1>2, <3>3
      <4>2. f[m] = step[m][f[m - 1]]
        BY <2>1, <4>1
      <4>3. g[m] = f[m]
        BY <3>3, <4>1
      <4>4. QED
        BY <3>1, <4>2, <4>3
    <3>4. QED
      BY <3>2, <3>3
  <2>0. f[0] = v /\ g[0] = f[0]
    BY <1>2, <2>1
  <2> HIDE DEF g
  <2>4. OK(n, g)
    BY <2>0, <2>3
  <2> HIDE DEF OK
  <2>5. \E h \in [0 .. n -> V] : OK(n, h)
    BY <2>2, <2>4
  <2>6. QED
    BY <2>5
<1> HIDE DEF S
<1>3. 0 .. N \subseteq S
  BY <1>1, <1>2, UpTo
<1>4. N \in S
  BY <1>3
<1>5. QED
  BY <1>4 DEF S, Values, Unrolls

\* Two functions that start alike and go on alike are alike.
LEMMA Agree ==
  ASSUME NEW N \in Nat, NEW f, NEW g, f[0] = g[0],
         \A n \in 1 .. N : f[n - 1] = g[n - 1] => f[n] = g[n]
  PROVE  f[N] = g[N]
<1> DEFINE S == {n \in 0 .. N : f[n] = g[n]}
<1>1. 0 \in S /\ \A n \in 1 .. N : n - 1 \in S => n \in S
  OBVIOUS
<1> HIDE DEF S
<1>2. 0 .. N \subseteq S
  BY <1>1, UpTo
<1>3. QED
  BY <1>2 DEF S

\* Induction on sequences, by their last element.
LEMMA ByLast ==
  ASSUME NEW S, NEW P, <<>> \in P,
         \A s \in Seq(S) : \A x \in S : s \in P => Append(s, x) \in P
  PROVE  Seq(S) \subseteq P
<1> SUFFICES ASSUME NEW s \in Seq(S) PROVE s \in P
  OBVIOUS
<1> DEFINE Q == {n \in 0 .. Len(s) : SubSeq(s, 1, n) \in P}
<1>1. Len(s) \in Nat
  BY LenProperties
<1>2. 0 \in Q
  <2>1. SubSeq(s, 1, 0) = <<>>
    BY SubSeqEmpty
  <2>2. SubSeq(s, 1, 0) \in P
    BY <2>1, Zenon
  <2>3. QED
    BY <1>1, <2>2
<1>3. ASSUME NEW n \in 1 .. Len(s), n - 1 \in Q PROVE n \in Q
  <2>1. s[n] \in S /\ \A i \in 1 .. n - 1 : s[i] \in S
    BY <1>1, ElementOfSeq
  <2>2. SubSeq(s, 1, n) = SubSeq(s, 1, n - 1) \o <<s[n]>>
    BY <1>1, SubSeqRecursiveSecond
  <2>3. SubSeq(s, 1, n - 1) \in Seq(S)
    BY <2>1, SubSeqProperties
  <2>4. SubSeq(s, 1, n) = Append(SubSeq(s, 1, n - 1), s[n])
    BY <2>1, <2>2, <2>3, AppendIsConcat
  <2>5. SubSeq(s, 1, n - 1) \in P
    BY <1>3
  <2>6. SubSeq(s, 1, n) \in P
    BY <2>1, <2>3, <2>4, <2>5, Zenon
  <2>7. QED
    BY <1>1, <2>6
<1> HIDE DEF Q
<1>4. 0 .. Len(s) \subseteq Q
  BY <1>1, <1>2, <1>3, UpTo
<1>5. SubSeq(s, 1, Len(s)) \in P
  BY <1>1, <1>4 DEF Q
<1>6. QED
  BY <1>5, SubSeqFull

\* The last segment with a word more.
extend(segs, x) == [segs EXCEPT ![Len(segs)] = Append(@, x)]

Segments(S) == Seq(Seq(S)) \ {<<>>}

LEMMA ExtendTyped ==
  ASSUME NEW S, NEW segs \in Segments(S), NEW x \in S
  PROVE  extend(segs, x) \in Segments(S)
<1>1. Len(segs) \in 1 .. Len(segs) /\ segs[Len(segs)] \in Seq(S)
  BY EmptySeq, ElementOfSeq DEF Segments
<1>2. Append(segs[Len(segs)], x) \in Seq(S)
  BY <1>1, AppendProperties
<1>3. extend(segs, x) \in Seq(Seq(S)) /\ Len(extend(segs, x)) = Len(segs)
  BY <1>1, <1>2, ExceptSeq DEF extend, Segments
<1>4. QED
  BY <1>1, <1>3, EmptySeq DEF Segments

\* A sequence with its last element replaced.
LEMMA LastReplaced ==
  ASSUME NEW T, NEW a \in Seq(T), NEW l \in T, NEW y \in T
  PROVE  LET w == Append(a, l) IN w[Len(w)] = l /\ [w EXCEPT ![Len(w)] = y] = Append(a, y)
<1> DEFINE w == Append(a, l)
           u == Append(a, y)
           v == [w EXCEPT ![Len(w)] = y]
<1>1. Len(a) \in Nat /\ w \in Seq(T) /\ Len(w) = Len(a) + 1 /\ w[Len(a) + 1] = l
      /\ \A i \in 1 .. Len(a) : w[i] = a[i]
  BY AppendProperties, LenProperties
<1>2. /\ u \in Seq(T) /\ Len(u) = Len(a) + 1 /\ u[Len(a) + 1] = y
      /\ \A i \in 1 .. Len(a) : u[i] = a[i]
  BY AppendProperties
<1> HIDE DEF w, u
<1>3. /\ v \in Seq(T) /\ Len(v) = Len(w)
      /\ \A j \in 1 .. Len(w) : v[j] = IF j = Len(w) THEN y ELSE w[j]
  BY <1>1, ExceptSeq
<1> HIDE DEF v
<1>4. \A i \in 1 .. Len(v) : v[i] = u[i]
  BY <1>1, <1>2, <1>3
<1>5. v = u
  BY <1>1, <1>2, <1>3, <1>4, SeqEqual
<1>6. QED
  BY <1>1, <1>5 DEF v, w, u

\* A word goes to the last segment, and leaves those before it alone.
LEMMA ExtendAppend ==
  ASSUME NEW S, NEW a \in Seq(Seq(S)), NEW l \in Seq(S), NEW x \in S
  PROVE  extend(Append(a, l), x) = Append(a, Append(l, x))
<1> DEFINE y == Append(l, x)
           w == Append(a, l)
<1>1. y \in Seq(S)
  BY AppendProperties
<1> HIDE DEF y
<1>2. w[Len(w)] = l /\ [w EXCEPT ![Len(w)] = y] = Append(a, y)
  BY <1>1, LastReplaced
<1> HIDE DEF w
<1>3. extend(w, x) = [w EXCEPT ![Len(w)] = y]
  BY <1>2 DEF extend, y
<1>4. QED
  BY <1>2, <1>3 DEF w, y

LEMMA ExtendConcat ==
  ASSUME NEW S, NEW a \in Seq(Seq(S)), NEW b \in Segments(S), NEW x \in S
  PROVE  extend(a \o b, x) = a \o extend(b, x)
<1>1. PICK c \in Seq(Seq(S)), l \in Seq(S) : b = Append(c, l)
  BY SequenceEmptyOrAppend DEF Segments
<1>2. Append(l, x) \in Seq(S) /\ a \o c \in Seq(Seq(S))
  BY AppendProperties, ConcatProperties
<1>3. \A m \in Seq(S) : a \o Append(c, m) = Append(a \o c, m)
  <2> SUFFICES ASSUME NEW m \in Seq(S) PROVE a \o Append(c, m) = Append(a \o c, m)
    OBVIOUS
  <2>1. Append(c, m) = c \o <<m>> /\ Append(a \o c, m) = (a \o c) \o <<m>> /\ <<m>> \in Seq(Seq(S))
    BY <1>2, AppendIsConcat
  <2>2. QED
    BY <2>1, ConcatAssociative
<1> DEFINE d == a \o c
<1>4. extend(Append(d, l), x) = Append(d, Append(l, x))
  <2>1. d \in Seq(Seq(S))
    BY <1>2
  <2> HIDE DEF d
  <2>2. QED
    BY <2>1, ExtendAppend
<1>5. extend(b, x) = Append(c, Append(l, x))
  BY <1>1, ExtendAppend
<1>6. a \o Append(c, l) = Append(a \o c, l) /\ a \o Append(c, Append(l, x)) = Append(a \o c, Append(l, x))
  BY <1>2, <1>3
<1>7. QED
  BY <1>1, <1>4, <1>5, <1>6, Zenon

-----------------------------------------------------------------------------
(* Splitting a text. *)

\* The segments of the first n words of a text, as split computes them.
segment(segs, x, sep) == IF x = sep THEN Append(segs, Blank) ELSE extend(segs, x)

IsUpTo(f, text, sep) ==
  f = [n \in 0 .. Len(text) |-> IF n = 0 THEN <<Blank>> ELSE segment(f[n - 1], text[n], sep)]

\* What split adds for one word.
LEMMA UpToStep ==
  ASSUME NEW f, NEW text, NEW sep, IsUpTo(f, text, sep), Len(text) \in Nat,
         NEW n \in 1 .. Len(text)
  PROVE  f[n] = segment(f[n - 1], text[n], sep)
BY DEF IsUpTo

LEMMA SegmentTyped ==
  ASSUME NEW S, NEW segs \in Segments(S), NEW x \in S, NEW sep
  PROVE  segment(segs, x, sep) \in Segments(S)
<1>1. Blank \in Seq(S) /\ segs \in Seq(Seq(S))
  BY EmptySeq DEF Blank, Segments
<1>2. Append(segs, Blank) \in Segments(S)
  BY <1>1, AppendProperties DEF Segments
<1>3. QED
  BY <1>2, ExtendTyped DEF segment

\* The segments split computes are those of a function defined word by word.
LEMMA SplitIs ==
  ASSUME NEW S, NEW text \in Seq(S), NEW sep
  PROVE  \E f : /\ IsUpTo(f, text, sep) /\ split(text, sep) = f[Len(text)]
                /\ \A n \in 0 .. Len(text) : f[n] \in Segments(S)
<1> DEFINE N == Len(text)
           V == Segments(S)
           v == <<Blank>>
           step == [n \in 1 .. N |-> [segs \in V |-> segment(segs, text[n], sep)]]
<1>1. N \in Nat /\ \A n \in 1 .. N : text[n] \in S
  BY LenProperties, ElementOfSeq
<1>2. v \in V
  BY EmptySeq DEF Segments, Blank
<1>3. step \in Steps(N, V)
  BY <1>1, SegmentTyped DEF Steps
<1>4. \A n \in 1 .. N : \A segs \in V : step[n][segs] = segment(segs, text[n], sep)
  OBVIOUS
<1> HIDE DEF step, V, v, N
<1>5. PICK g \in Values(N, V) : Unrolls(g, v, step, N)
  BY <1>1, <1>2, <1>3, Recursion
<1>6. ASSUME NEW n \in 0 .. N
      PROVE  g[n] = IF n = 0 THEN v ELSE segment(g[n - 1], text[n], sep)
  <2>1. CASE n = 0
    BY <1>5, <2>1 DEF Unrolls
  <2>2. CASE n # 0
    <3>1. n \in 1 .. N /\ n - 1 \in 0 .. N
      BY <1>1, <2>2
    <3>2. g[n - 1] \in V
      BY <1>5, <3>1 DEF Values
    <3>3. g[n] = step[n][g[n - 1]]
      BY <1>5, <3>1 DEF Unrolls
    <3>4. QED
      BY <1>4, <2>2, <3>1, <3>2, <3>3
  <2>3. QED
    BY <2>1, <2>2
<1>7. IsUpTo(g, text, sep)
  BY <1>5, <1>6 DEF IsUpTo, N, v, Values
<1> DEFINE f == CHOOSE h : IsUpTo(h, text, sep)
<1>8. IsUpTo(f, text, sep)
  BY <1>7
<1>9. split(text, sep) = f[N]
  BY DEF split, IsUpTo, segment, extend, N
<1> HIDE DEF f
<1>10. f[0] = g[0] /\ \A n \in 1 .. N : f[n - 1] = g[n - 1] => f[n] = g[n]
  <2>1. f[0] = g[0]
    BY <1>1, <1>7, <1>8 DEF IsUpTo, N
  <2>2. ASSUME NEW n \in 1 .. N
        PROVE  f[n] = segment(f[n - 1], text[n], sep) /\ g[n] = segment(g[n - 1], text[n], sep)
    BY <1>1, <1>7, <1>8, UpToStep DEF N
  <2>3. QED
    BY <2>1, <2>2
<1>11. ASSUME NEW n \in 0 .. N PROVE f[n] \in V
  <2>1. n \in Nat /\ \A m \in 1 .. n : m \in 1 .. N
    BY <1>1
  <2>2. f[0] = g[0] /\ \A m \in 1 .. n : f[m - 1] = g[m - 1] => f[m] = g[m]
    BY <1>10, <2>1
  <2>3. f[n] = g[n]
    BY <2>1, <2>2, Agree
  <2>4. QED
    BY <1>5, <2>3 DEF Values
<1>12. QED
  BY <1>8, <1>9, <1>11 DEF V, N

\* A text of nothing is one empty segment.
LEMMA SplitBlank == ASSUME NEW sep PROVE split(Blank, sep) = <<Blank>>
<1>1. Blank \in Seq({}) /\ Len(Blank) = 0
  BY EmptySeq DEF Blank
<1>2. PICK f : IsUpTo(f, Blank, sep) /\ split(Blank, sep) = f[Len(Blank)]
  BY <1>1, SplitIs
<1>3. QED
  BY <1>1, <1>2 DEF IsUpTo

LEMMA SplitTyped ==
  ASSUME NEW S, NEW text \in Seq(S), NEW sep
  PROVE  split(text, sep) \in Segments(S)
<1>1. PICK f : /\ split(text, sep) = f[Len(text)]
               /\ \A n \in 0 .. Len(text) : f[n] \in Segments(S)
  BY SplitIs
<1>2. Len(text) \in 0 .. Len(text)
  BY LenProperties
<1>3. QED
  BY <1>1, <1>2

\* A word more begins a segment, or goes to the last one.
LEMMA SplitAppend ==
  ASSUME NEW S, NEW text \in Seq(S), NEW x \in S, NEW sep
  PROVE  split(Append(text, x), sep) = segment(split(text, sep), x, sep)
<1> DEFINE longer == Append(text, x)
           N == Len(text)
<1>1. /\ N \in Nat /\ longer \in Seq(S) /\ Len(longer) = N + 1 /\ longer[N + 1] = x
      /\ \A i \in 1 .. N : longer[i] = text[i]
  BY AppendProperties, LenProperties
<1> HIDE DEF longer
<1>2. PICK f : IsUpTo(f, text, sep) /\ split(text, sep) = f[N]
  BY SplitIs
<1>3. PICK g : IsUpTo(g, longer, sep) /\ split(longer, sep) = g[N + 1]
  BY <1>1, SplitIs
<1>4. f[0] = g[0] /\ \A n \in 1 .. N : f[n - 1] = g[n - 1] => f[n] = g[n]
  <2>1. f[0] = g[0]
    BY <1>1, <1>2, <1>3 DEF IsUpTo
  <2>2. ASSUME NEW n \in 1 .. N
        PROVE  /\ f[n] = segment(f[n - 1], text[n], sep)
               /\ g[n] = segment(g[n - 1], longer[n], sep)
    BY <1>1, <1>2, <1>3, UpToStep
  <2>3. QED
    BY <1>1, <2>1, <2>2
<1>5. f[N] = g[N]
  BY <1>1, <1>4, Agree
<1>6. g[N + 1] = segment(g[N], x, sep)
  <2>1. N + 1 \in 1 .. Len(longer) /\ N + 1 - 1 = N
    BY <1>1
  <2>2. g[N + 1] = segment(g[N + 1 - 1], longer[N + 1], sep)
    BY <1>1, <1>3, <2>1, UpToStep
  <2>3. QED
    BY <1>1, <2>1, <2>2
<1>7. QED
  BY <1>2, <1>3, <1>5, <1>6 DEF longer

-----------------------------------------------------------------------------
(* Joining segments. *)

\* What join puts before the nth segment.
glue(n, sep) == IF n = 1 THEN Blank ELSE <<sep>>

JoinsUpTo(f, segs, sep) ==
  f = [n \in 0 .. Len(segs) |-> IF n = 0 THEN Blank ELSE f[n - 1] \o glue(n, sep) \o segs[n]]

Joins(f, segs, sep) ==
  /\ f[0] = Blank
  /\ \A n \in 1 .. Len(segs) : f[n] = f[n - 1] \o glue(n, sep) \o segs[n]

\* What join adds for one segment.
LEMMA JoinStep ==
  ASSUME NEW f, NEW segs, NEW sep, JoinsUpTo(f, segs, sep), Len(segs) \in Nat
  PROVE  Joins(f, segs, sep)
BY DEF JoinsUpTo, Joins

LEMMA Glue ==
  ASSUME NEW S, NEW a \in Seq(S), NEW sep \in S, NEW b \in Seq(S), NEW n
  PROVE  a \o glue(n, sep) \o b \in Seq(S)
<1>1. glue(n, sep) \in Seq(S)
  BY EmptySeq DEF glue, Blank
<1>2. a \o glue(n, sep) \in Seq(S)
  BY <1>1, ConcatProperties
<1>3. QED
  BY <1>2, ConcatProperties

\* The text join computes is that of a function defined segment by segment.
LEMMA JoinIs ==
  ASSUME NEW S, NEW segs \in Seq(Seq(S)), NEW sep \in S
  PROVE  \E f : /\ Joins(f, segs, sep) /\ join(segs, sep) = f[Len(segs)]
                /\ f[Len(segs)] \in Seq(S)
<1> DEFINE N == Len(segs)
           V == Seq(S)
           v == Blank
           step == [n \in 1 .. N |-> [t \in V |-> t \o glue(n, sep) \o segs[n]]]
<1>1. N \in Nat /\ \A n \in 1 .. N : segs[n] \in V
  BY LenProperties, ElementOfSeq
<1>2. v \in V
  BY EmptySeq DEF Blank
<1>3. step \in Steps(N, V)
  BY <1>1, Glue DEF Steps
<1>4. \A n \in 1 .. N : \A t \in V : step[n][t] = t \o glue(n, sep) \o segs[n]
  OBVIOUS
<1> HIDE DEF step, V, v, N
<1>5. PICK g \in Values(N, V) : Unrolls(g, v, step, N)
  BY <1>1, <1>2, <1>3, Recursion
<1>6. ASSUME NEW n \in 0 .. N
      PROVE  g[n] = IF n = 0 THEN v ELSE g[n - 1] \o glue(n, sep) \o segs[n]
  <2>1. CASE n = 0
    BY <1>5, <2>1 DEF Unrolls
  <2>2. CASE n # 0
    <3>1. n \in 1 .. N /\ n - 1 \in 0 .. N
      BY <1>1, <2>2
    <3>2. g[n - 1] \in V
      BY <1>5, <3>1 DEF Values
    <3>3. g[n] = step[n][g[n - 1]]
      BY <1>5, <3>1 DEF Unrolls
    <3>4. QED
      BY <1>4, <2>2, <3>1, <3>2, <3>3
  <2>3. QED
    BY <2>1, <2>2
<1>7. JoinsUpTo(g, segs, sep)
  BY <1>5, <1>6 DEF JoinsUpTo, N, v, Values
<1> DEFINE f == CHOOSE h : JoinsUpTo(h, segs, sep)
<1>8. JoinsUpTo(f, segs, sep)
  BY <1>7
<1>9. join(segs, sep) = f[N]
  BY DEF join, JoinsUpTo, N, glue
<1> HIDE DEF f
<1>10. Joins(f, segs, sep) /\ Joins(g, segs, sep)
  BY <1>1, <1>7, <1>8, JoinStep DEF N
<1>11. f[0] = g[0] /\ \A n \in 1 .. N : f[n - 1] = g[n - 1] => f[n] = g[n]
  BY <1>10 DEF Joins, N
<1>12. f[N] = g[N]
  BY <1>1, <1>11, Agree
<1>14. g[N] \in V
  BY <1>1, <1>5 DEF Values
<1>13. QED
  BY <1>9, <1>10, <1>12, <1>14 DEF V, N

LEMMA JoinTyped ==
  ASSUME NEW S, NEW segs \in Seq(Seq(S)), NEW sep \in S
  PROVE  join(segs, sep) \in Seq(S)
BY JoinIs

\* Joining nothing, one segment, and one more.
LEMMA JoinNone == ASSUME NEW sep PROVE join(<<>>, sep) = Blank
<1>1. <<>> \in Seq(Seq({sep})) /\ Len(<<>>) = 0
  BY EmptySeq
<1>2. PICK f : Joins(f, <<>>, sep) /\ join(<<>>, sep) = f[Len(<<>>)]
  BY <1>1, JoinIs
<1>3. QED
  BY <1>1, <1>2 DEF Joins

\* A segment more, behind the separator unless it is the first.
LEMMA JoinNext ==
  ASSUME NEW S, NEW segs \in Seq(Seq(S)), NEW s \in Seq(S), NEW sep \in S
  PROVE  join(Append(segs, s), sep) = join(segs, sep) \o glue(Len(segs) + 1, sep) \o s
<1> DEFINE longer == Append(segs, s)
           N == Len(segs)
<1>1. /\ N \in Nat /\ longer \in Seq(Seq(S)) /\ Len(longer) = N + 1 /\ longer[N + 1] = s
      /\ \A i \in 1 .. N : longer[i] = segs[i]
  BY LenProperties, AppendProperties
<1> HIDE DEF longer, N
<1>2. PICK f : Joins(f, segs, sep) /\ join(segs, sep) = f[N]
  BY JoinIs DEF N
<1>3. PICK g : Joins(g, longer, sep) /\ join(longer, sep) = g[N + 1]
  BY <1>1, JoinIs
<1>4. ASSUME NEW n \in 1 .. N, f[n - 1] = g[n - 1] PROVE f[n] = g[n]
  <2>1. f[n] = f[n - 1] \o glue(n, sep) \o segs[n]
    BY <1>2 DEF Joins, N
  <2>2. n \in 1 .. Len(longer)
    BY <1>1
  <2>3. g[n] = g[n - 1] \o glue(n, sep) \o longer[n]
    BY <1>3, <2>2 DEF Joins
  <2>4. QED
    BY <1>1, <1>4, <2>1, <2>3
<1>5. f[0] = g[0]
  BY <1>2, <1>3 DEF Joins
<1>6. f[N] = g[N]
  BY <1>1, <1>4, <1>5, Agree
<1> DEFINE m == N + 1
<1>7. m \in 1 .. Len(longer) /\ m - 1 = N
  BY <1>1
<1> HIDE DEF m
<1>8. g[m] = g[m - 1] \o glue(m, sep) \o longer[m]
  BY <1>3, <1>7 DEF Joins
<1> USE DEF m
<1>9. QED
  BY <1>1, <1>2, <1>3, <1>6, <1>7, <1>8 DEF longer, N

LEMMA JoinOne ==
  ASSUME NEW S, NEW s \in Seq(S), NEW sep \in S
  PROVE  join(<<s>>, sep) = s
<1>1. <<>> \in Seq(Seq(S)) /\ Len(<<>>) = 0 /\ Blank \in Seq(S)
  BY EmptySeq DEF Blank
<1>2. Append(<<>>, s) = <<s>>
  OBVIOUS
<1>3. join(Append(<<>>, s), sep) = join(<<>>, sep) \o glue(1, sep) \o s
  <2> DEFINE none == <<>>
  <2>1. none \in Seq(Seq(S)) /\ Len(none) + 1 = 1
    BY <1>1
  <2> HIDE DEF none
  <2>2. join(Append(none, s), sep) = join(none, sep) \o glue(Len(none) + 1, sep) \o s
    BY <2>1, JoinNext
  <2>3. QED
    BY <2>1, <2>2 DEF none
<1>4. join(<<>>, sep) \o glue(1, sep) \o s = (Blank \o Blank) \o s
  BY JoinNone DEF glue
<1>5. Blank \o Blank = Blank /\ Blank \o s = s
  BY <1>1, ConcatEmptySeq DEF Blank
<1>6. QED
  BY <1>2, <1>3, <1>4, <1>5

LEMMA JoinAppend ==
  ASSUME NEW S, NEW segs \in Segments(S), NEW s \in Seq(S), NEW sep \in S
  PROVE  join(Append(segs, s), sep) = join(segs, sep) \o <<sep>> \o s
<1>1. segs \in Seq(Seq(S)) /\ Len(segs) + 1 # 1
  BY EmptySeq DEF Segments
<1>2. QED
  BY <1>1, JoinNext DEF glue

-----------------------------------------------------------------------------
(* Splitting and joining. *)

LEMMA ConcatAppend ==
  ASSUME NEW S, NEW a \in Seq(S), NEW b \in Seq(S), NEW x \in S
  PROVE  a \o Append(b, x) = Append(a \o b, x)
<1>1. Append(b, x) = b \o <<x>> /\ <<x>> \in Seq(S) /\ a \o b \in Seq(S)
  BY AppendIsConcat, ConcatProperties
<1>2. Append(a \o b, x) = (a \o b) \o <<x>>
  BY <1>1, AppendIsConcat
<1>3. QED
  BY <1>1, <1>2, ConcatAssociative

\* A word more in the last segment is a word more in the text.
LEMMA JoinExtend ==
  ASSUME NEW S, NEW segs \in Segments(S), NEW x \in S, NEW sep \in S
  PROVE  join(extend(segs, x), sep) = Append(join(segs, sep), x)
<1>1. PICK a \in Seq(Seq(S)), l \in Seq(S) : segs = Append(a, l)
  BY SequenceEmptyOrAppend DEF Segments
<1> DEFINE m == Append(l, x)
           A == join(a, sep)
           G == glue(Len(a) + 1, sep)
<1>2. m \in Seq(S) /\ A \in Seq(S) /\ G \in Seq(S)
  BY AppendProperties, JoinTyped, EmptySeq DEF glue, Blank
<1>3. join(Append(a, l), sep) = A \o G \o l
  BY JoinNext
<1>4. extend(segs, x) = Append(a, m)
  BY <1>1, ExtendAppend
<1> HIDE DEF m
<1>5. join(Append(a, m), sep) = A \o G \o m
  BY <1>2, JoinNext
<1> HIDE DEF A, G
<1>6. A \o G \in Seq(S)
  BY <1>2, ConcatProperties
<1>7. A \o G \o m = Append(A \o G \o l, x)
  BY <1>6, ConcatAppend DEF m
<1>8. QED
  BY <1>1, <1>3, <1>4, <1>5, <1>7

\* Joining the segments of a text gives the text.
LEMMA JoinSplit ==
  ASSUME NEW S, NEW text \in Seq(S), NEW sep \in S
  PROVE  join(split(text, sep), sep) = text
<1> DEFINE P == {t \in Seq(S) : join(split(t, sep), sep) = t}
<1>1. <<>> \in P
  <2>1. split(<<>>, sep) = <<Blank>> /\ Blank \in Seq(S)
    BY SplitBlank, EmptySeq DEF Blank
  <2>2. join(<<Blank>>, sep) = Blank
    BY <2>1, JoinOne
  <2>3. QED
    BY <2>1, <2>2 DEF Blank
<1>2. ASSUME NEW t \in Seq(S), NEW x \in S, t \in P PROVE Append(t, x) \in P
  <2> DEFINE segs == split(t, sep)
  <2>1. segs \in Segments(S) /\ join(segs, sep) = t /\ Append(t, x) \in Seq(S)
    BY <1>2, SplitTyped, AppendProperties
  <2>2. split(Append(t, x), sep) = segment(segs, x, sep)
    BY SplitAppend
  <2> HIDE DEF segs
  <2>3. CASE x = sep
    <3>1. Blank \in Seq(S)
      BY EmptySeq DEF Blank
    <3>2. join(Append(segs, Blank), sep) = (t \o <<sep>>) \o Blank
      BY <2>1, <3>1, JoinAppend
    <3>3. t \o <<sep>> = Append(t, x)
      BY <2>3, AppendIsConcat
    <3>4. Append(t, x) \o Blank = Append(t, x)
      BY <2>1, ConcatEmptySeq DEF Blank
    <3>5. join(Append(segs, Blank), sep) = Append(t, x)
      BY <3>2, <3>3, <3>4
    <3>6. QED
      BY <2>1, <2>2, <2>3, <3>5 DEF segment
  <2>4. CASE x # sep
    <3>1. join(extend(segs, x), sep) = Append(t, x)
      BY <2>1, JoinExtend
    <3>2. QED
      BY <2>1, <2>2, <2>4, <3>1 DEF segment
  <2>5. QED
    BY <2>3, <2>4
<1> HIDE DEF P
<1>3. text \in P
  BY <1>1, <1>2, ByLast
<1>4. QED
  BY <1>3 DEF P

\* Two texts with the separator between them are split one by one.
LEMMA SplitBehind ==
  ASSUME NEW S, NEW a \in Seq(S), NEW b \in Seq(S), NEW sep \in S
  PROVE  split(Append(a, sep) \o b, sep) = split(a, sep) \o split(b, sep)
<1> DEFINE P == {t \in Seq(S) : split(Append(a, sep) \o t, sep) = split(a, sep) \o split(t, sep)}
           d == Append(a, sep)
           segs == split(a, sep)
<1>0. d \in Seq(S)
  BY AppendProperties
<1>1. segs \in Segments(S) /\ segs \in Seq(Seq(S))
  BY SplitTyped DEF Segments
<1>2. split(d, sep) = Append(segs, Blank)
  BY SplitAppend DEF segment
<1> HIDE DEF d, segs
<1>3. <<>> \in P
  <2>1. Blank \in Seq(S) /\ <<>> \in Seq(S)
    BY EmptySeq DEF Blank
  <2>2. d \o <<>> = d
    BY <1>0, ConcatEmptySeq
  <2>3. Append(segs, Blank) = segs \o <<Blank>>
    BY <1>1, <2>1, AppendIsConcat
  <2>4. split(d \o <<>>, sep) = segs \o split(<<>>, sep)
    BY <1>2, <2>2, <2>3, SplitBlank DEF Blank
  <2>5. QED
    BY <2>1, <2>4 DEF d, segs
<1>4. ASSUME NEW t \in Seq(S), NEW x \in S, t \in P PROVE Append(t, x) \in P
  <2> DEFINE B == split(t, sep)
  <2>1. Append(t, x) \in Seq(S) /\ d \o t \in Seq(S) /\ B \in Segments(S) /\ B \in Seq(Seq(S))
    BY <1>0, AppendProperties, ConcatProperties, SplitTyped DEF Segments
  <2>2. split(Append(t, x), sep) = segment(B, x, sep)
    BY SplitAppend
  <2> HIDE DEF B
  <2>3. d \o Append(t, x) = Append(d \o t, x)
    BY <1>0, ConcatAppend
  <2>4. split(d \o t, sep) = segs \o B
    BY <1>4 DEF d, segs, B
  <2>5. split(Append(d \o t, x), sep) = segment(segs \o B, x, sep)
    BY <2>1, <2>4, SplitAppend
  <2>6. segment(segs \o B, x, sep) = segs \o segment(B, x, sep)
    <3>1. CASE x = sep
      <4>1. Blank \in Seq(S)
        BY EmptySeq DEF Blank
      <4>2. segs \o Append(B, Blank) = Append(segs \o B, Blank)
        BY <1>1, <2>1, <4>1, ConcatAppend
      <4>3. QED
        BY <3>1, <4>2 DEF segment
    <3>2. CASE x # sep
      <4>1. extend(segs \o B, x) = segs \o extend(B, x)
        BY <1>1, <2>1, ExtendConcat
      <4>2. QED
        BY <3>2, <4>1 DEF segment
    <3>3. QED
      BY <3>1, <3>2
  <2>7. split(d \o Append(t, x), sep) = segs \o split(Append(t, x), sep)
    BY <2>2, <2>3, <2>5, <2>6
  <2>8. QED
    BY <2>1, <2>7 DEF d, segs
<1> HIDE DEF P
<1>5. b \in P
  BY <1>3, <1>4, ByLast
<1>6. QED
  BY <1>5 DEF P

\* A text without the separator is one segment.
LEMMA SplitPlain ==
  ASSUME NEW S, NEW text \in Seq(S), NEW sep, sep \notin S
  PROVE  split(text, sep) = <<text>>
<1> DEFINE P == {t \in Seq(S) : split(t, sep) = <<t>>}
<1>1. <<>> \in P
  BY SplitBlank, EmptySeq DEF Blank
<1>2. ASSUME NEW t \in Seq(S), NEW x \in S, t \in P PROVE Append(t, x) \in P
  <2>1. Append(t, x) \in Seq(S) /\ x # sep /\ split(t, sep) = <<t>>
    BY <1>2, AppendProperties
  <2>2. split(Append(t, x), sep) = segment(<<t>>, x, sep)
    BY <2>1, SplitAppend
  <2>3. segment(<<t>>, x, sep) = <<Append(t, x)>>
    BY <2>1 DEF segment, extend
  <2>4. QED
    BY <2>1, <2>2, <2>3
<1> HIDE DEF P
<1>3. text \in P
  BY <1>1, <1>2, ByLast
<1>4. QED
  BY <1>3 DEF P

\* Segments without the separator, joined behind others, are split off again.
LEMMA SplitJoinBehind ==
  ASSUME NEW S, NEW sep \in S, NEW a \in Segments(S), NEW segs \in Seq(Seq(S \ {sep}))
  PROVE  split(join(a \o segs, sep), sep) = split(join(a, sep), sep) \o segs
<1> DEFINE T == Seq(S \ {sep})
           A == split(join(a, sep), sep)
           P == {s \in Seq(T) : split(join(a \o s, sep), sep) = A \o s}
<1>1. T \subseteq Seq(S)
  BY SeqMonotonic
<1>2. \A s \in Seq(T) : s \in Seq(Seq(S))
  BY <1>1, SeqMonotonic
<1>3. a \in Seq(Seq(S)) /\ A \in Seq(Seq(S)) /\ a # <<>>
  BY JoinTyped, SplitTyped DEF Segments
<1> HIDE DEF A
<1>4. <<>> \in P
  <2>1. a \o <<>> = a /\ A \o <<>> = A /\ <<>> \in Seq(T)
    BY <1>3, ConcatEmptySeq, EmptySeq
  <2>2. QED
    BY <2>1 DEF A
<1>5. ASSUME NEW s \in Seq(T), NEW x \in T, s \in P PROVE Append(s, x) \in P
  <2> HIDE DEF T
  <2>1. s \in Seq(Seq(S)) /\ x \in Seq(S) /\ Append(s, x) \in Seq(T)
    BY <1>1, <1>2, AppendProperties
  <2>2. a \o s \in Segments(S)
    <3>1. a \o s \in Seq(Seq(S)) /\ a \o s # <<>>
      BY <1>3, <2>1, ConcatProperties, ConcatEqualIffEmpty
    <3>2. QED
      BY <3>1 DEF Segments
  <2> DEFINE d == a \o s
             J == join(d, sep)
  <2>3. a \o Append(s, x) = Append(d, x)
    BY <1>3, <2>1, ConcatAppend
  <2>4. J \in Seq(S) /\ join(Append(d, x), sep) = J \o <<sep>> \o x
    BY <2>1, <2>2, JoinAppend, JoinTyped DEF Segments
  <2>5. split(J, sep) = A \o s
    BY <1>5
  <2> HIDE DEF d, J, P
  <2>6. split(J \o <<sep>> \o x, sep) = split(J, sep) \o split(x, sep)
    <3>1. split(Append(J, sep) \o x, sep) = split(J, sep) \o split(x, sep)
      BY <2>1, <2>4, SplitBehind
    <3>2. Append(J, sep) = J \o <<sep>>
      BY <2>4, AppendIsConcat
    <3>3. QED
      BY <3>1, <3>2
  <2>7. split(x, sep) = <<x>>
    BY SplitPlain DEF T
  <2>8. (A \o s) \o <<x>> = A \o Append(s, x)
    <3>1. Append(s, x) = s \o <<x>> /\ <<x>> \in Seq(Seq(S))
      BY <2>1, AppendIsConcat
    <3>2. QED
      BY <1>3, <2>1, <3>1, ConcatAssociative
  <2>9. split(join(a \o Append(s, x), sep), sep) = A \o Append(s, x)
    BY <2>3, <2>4, <2>5, <2>6, <2>7, <2>8
  <2>10. QED
    BY <2>1, <2>9 DEF P
<1> HIDE DEF P, T
<1>6. segs \in P
  BY <1>4, <1>5, ByLast DEF T
<1>7. QED
  BY <1>6 DEF P, A

\* Splitting undoes joining.
LEMMA SplitJoin ==
  ASSUME NEW S, NEW sep \in S, NEW segs \in Seq(Seq(S \ {sep})), segs # <<>>
  PROVE  split(join(segs, sep), sep) = segs
<1> DEFINE T == Seq(S \ {sep})
           h == Head(segs)
           t == Tail(segs)
<1>1. h \in T /\ t \in Seq(T) /\ segs = <<h>> \o t
  <2>1. h \in T /\ t \in Seq(T)
    BY HeadTailProperties
  <2>2. Len(segs) \in Nat \ {0} /\ 1 \in 1 .. Len(segs)
    BY EmptySeq
  <2>3. SubSeq(segs, 1, Len(segs)) = <<segs[1]>> \o SubSeq(segs, 2, Len(segs))
    BY <2>2, SubSeqRecursiveFirst
  <2>4. SubSeq(segs, 1, Len(segs)) = segs /\ t = SubSeq(segs, 2, Len(segs))
    BY SubSeqFull, TailIsSubSeq
  <2>5. QED
    BY <2>1, <2>3, <2>4
<1> HIDE DEF h, t
<1>2. h \in Seq(S)
  BY <1>1, SeqMonotonic, S \ {sep} \subseteq S
<1>3. <<h>> \in Segments(S) /\ join(<<h>>, sep) = h
  BY <1>2, JoinOne DEF Segments
<1>4. split(h, sep) = <<h>>
  BY <1>1, SplitPlain
<1>5. split(join(<<h>> \o t, sep), sep) = split(join(<<h>>, sep), sep) \o t
  BY <1>1, <1>3, SplitJoinBehind
<1>6. QED
  BY <1>1, <1>3, <1>4, <1>5

LEMMA JoinBehind ==
  ASSUME NEW S, NEW segs \in Segments(S), NEW s \in Seq(S), NEW sep \in S
  PROVE  join(Append(segs, s), sep) = Append(join(segs, sep), sep) \o s
<1>1. join(segs, sep) \in Seq(S)
  BY JoinTyped DEF Segments
<1>2. Append(join(segs, sep), sep) = join(segs, sep) \o <<sep>>
  BY <1>1, AppendIsConcat
<1>3. QED
  BY <1>2, JoinAppend

LEMMA JoinConcatNext ==
  ASSUME NEW S, NEW a \in Segments(S), NEW c \in Segments(S), NEW x \in Seq(S), NEW sep \in S,
         NEW d \in Seq(S), join(a \o c, sep) = d \o join(c, sep)
  PROVE  join(a \o Append(c, x), sep) = d \o join(Append(c, x), sep)
<1> DEFINE B == join(c, sep)
           e == a \o c
<1>1. a \in Seq(Seq(S)) /\ c \in Seq(Seq(S)) /\ a # <<>>
  BY DEF Segments
<1>2. B \in Seq(S)
  BY <1>1, JoinTyped
<1>3. e \in Segments(S)
  BY <1>1, ConcatProperties, ConcatEqualIffEmpty DEF Segments
<1>4. a \o Append(c, x) = Append(e, x)
  BY <1>1, ConcatAppend
<1> HIDE DEF e
<1>5. join(Append(e, x), sep) = Append(join(e, sep), sep) \o x
  BY <1>3, JoinBehind
<1>6. join(Append(c, x), sep) = Append(B, sep) \o x
  BY JoinBehind
<1>7. join(e, sep) = d \o B
  BY DEF e
<1> HIDE DEF B
<1> DEFINE m == Append(B, sep)
<1>8. d \o m = Append(d \o B, sep)
  BY <1>2, ConcatAppend
<1>9. m \in Seq(S)
  BY <1>2, AppendProperties
<1> HIDE DEF m
<1>10. (d \o m) \o x = d \o (m \o x)
  BY <1>9, ConcatAssociative
<1>11. QED
  BY <1>4, <1>5, <1>6, <1>7, <1>8, <1>10 DEF m

\* Two lists of segments are joined one after the other.
LEMMA JoinConcat ==
  ASSUME NEW S, NEW a \in Segments(S), NEW b \in Segments(S), NEW sep \in S
  PROVE  join(a \o b, sep) = Append(join(a, sep), sep) \o join(b, sep)
<1> DEFINE d == Append(join(a, sep), sep)
           T == Seq(S)
           P == {c \in Seq(T) : c # <<>> => join(a \o c, sep) = d \o join(c, sep)}
<1>1. d \in Seq(S) /\ a \in Seq(T)
  BY JoinTyped, AppendProperties DEF Segments
<1>2. <<>> \in P
  BY EmptySeq
<1>3. ASSUME NEW c \in Seq(T), NEW x \in T, c \in P PROVE Append(c, x) \in P
  <2>1. Append(c, x) \in Seq(T)
    BY AppendProperties
  <2>2. CASE c = <<>>
    <3>1. Append(c, x) = <<x>> /\ join(<<x>>, sep) = x
      BY <2>2, JoinOne
    <3>2. a \o <<x>> = Append(a, x)
      BY <1>1, AppendIsConcat
    <3>3. join(Append(a, x), sep) = d \o x
      BY JoinBehind
    <3>4. QED
      BY <2>1, <3>1, <3>2, <3>3
  <2>3. CASE c # <<>>
    <3>1. c \in Segments(S) /\ join(a \o c, sep) = d \o join(c, sep)
      BY <1>3, <2>3 DEF Segments
    <3> HIDE DEF d
    <3>2. join(a \o Append(c, x), sep) = d \o join(Append(c, x), sep)
      BY <1>1, <3>1, JoinConcatNext
    <3> USE DEF d
    <3>3. QED
      BY <2>1, <3>2
  <2>4. QED
    BY <2>2, <2>3
<1> HIDE DEF P, T
<1>4. b \in P
  BY <1>2, <1>3, ByLast DEF Segments, T
<1>5. QED
  BY <1>4 DEF P, Segments, d

\* A list of lists of one element each is flattened to those elements.
LEMMA FlattenOnes ==
  ASSUME NEW S, NEW q \in Seq(S), NEW ones, Len(ones) = Len(q), q # <<>>,
         \A i \in 1 .. Len(q) : ones[i] = <<q[i]>>
  PROVE  FlattenSeq(ones) = q
<1> DEFINE N == Len(q)
           Flat(f) == f = [i \in 1 .. N |-> IF i = 1 THEN ones[i] ELSE f[i - 1] \o ones[i]]
           g == [n \in 1 .. N |-> SubSeq(q, 1, n)]
           f == CHOOSE h : Flat(h)
<1>1. N \in Nat \ {0} /\ Len(ones) = N
  BY EmptySeq
<1>2. ASSUME NEW n \in 1 .. N
      PROVE  g[n] = IF n = 1 THEN ones[n] ELSE g[n - 1] \o ones[n]
  <2>1. SubSeq(q, 1, n) = SubSeq(q, 1, n - 1) \o <<q[n]>>
    BY <1>1, 1 \in 1 .. N, N \in n .. N, n \in 1 .. n, SubSeqRecursiveSecond
  <2>2. CASE n = 1
    <3>1. SubSeq(q, 1, 0) = <<>> /\ <<q[1]>> \in Seq(S) /\ <<>> \o <<q[1]>> = <<q[1]>>
      BY <1>1, ElementOfSeq, SubSeqEmpty
    <3>2. QED
      BY <2>1, <2>2, <3>1
  <2>3. CASE n # 1
    <3>1. n - 1 \in 1 .. N
      BY <2>3
    <3>2. QED
      BY <2>1, <2>3, <3>1
  <2>4. QED
    BY <2>2, <2>3
<1>3. Flat(g)
  <2>1. g = [i \in 1 .. N |-> g[i]]
    OBVIOUS
  <2> HIDE DEF g
  <2>2. QED
    BY <1>2, <2>1
<1>4. g[N] = q
  BY <1>1, SubSeqFull
<1> HIDE DEF g
<1>5. Flat(f)
  <2> HIDE DEF Flat
  <2>1. QED
    BY <1>3
<1>6. FlattenSeq(ones) = f[N]
  BY <1>1 DEF FlattenSeq
<1> HIDE DEF f
<1> DEFINE Q == {n \in 0 .. N : n = 0 \/ f[n] = g[n]}
<1>7. 0 \in Q
  BY <1>1
<1>8. ASSUME NEW n \in 1 .. N, n - 1 \in Q PROVE n \in Q
  <2>1. f[n] = IF n = 1 THEN ones[n] ELSE f[n - 1] \o ones[n]
    BY <1>5
  <2>2. n # 1 => f[n - 1] = g[n - 1]
    BY <1>8
  <2>3. f[n] = g[n]
    BY <1>1, <1>2, <2>1, <2>2
  <2>4. QED
    BY <2>3
<1> HIDE DEF Q, N, Flat
<1>9. 0 .. N \subseteq Q
  BY <1>1, <1>7, <1>8, UpTo
<1>10. N \in Q
  BY <1>1, <1>9
<1>11. QED
  BY <1>1, <1>4, <1>6, <1>10 DEF Q

\* Blanks are cut off the ends only.
LEMMA TrimKeeps ==
  ASSUME NEW S, NEW t \in Seq(S), t # <<>>, t[1] # Space, t[Len(t)] # Space
  PROVE  trim(t) = t
<1> DEFINE ink == {i \in DOMAIN t : t[i] # Space}
<1>1. Len(t) \in Nat \ {0} /\ DOMAIN t = 1 .. Len(t)
  BY EmptySeq, LenProperties
<1>2. 1 \in ink /\ Len(t) \in ink /\ ink \subseteq 1 .. Len(t)
  BY <1>1
<1> HIDE DEF ink
<1>3. Min(ink) = 1
  <2>1. \A j \in ink : 1 <= j
    BY <1>1, <1>2
  <2>2. Min(ink) \in ink /\ \A j \in ink : Min(ink) <= j
    BY <1>2, <2>1 DEF Min
  <2>3. Min(ink) \in 1 .. Len(t) /\ Min(ink) <= 1
    BY <1>2, <2>2
  <2>4. QED
    BY <1>1, <2>3
<1>4. Max(ink) = Len(t)
  <2>1. \A j \in ink : Len(t) >= j
    BY <1>1, <1>2
  <2>2. Max(ink) \in ink /\ \A j \in ink : Max(ink) >= j
    BY <1>2, <2>1 DEF Max
  <2>3. Max(ink) \in 1 .. Len(t) /\ Max(ink) >= Len(t)
    BY <1>2, <2>2
  <2>4. QED
    BY <1>1, <2>3
<1>5. trim(t) = SubSeq(t, 1, Len(t))
  BY <1>2, <1>3, <1>4 DEF trim, ink
<1>6. QED
  BY <1>5, SubSeqFull

LEMMA TrimBlank == trim(Blank) = Blank
<1>1. DOMAIN Blank = {}
  BY DEF Blank
<1>2. QED
  BY <1>1 DEF trim

\* Only a text of blanks is trimmed to nothing.
LEMMA TrimNotBlank ==
  ASSUME NEW S, NEW t \in Seq(S), NEW i \in 1 .. Len(t), t[i] # Space
  PROVE  trim(t) # Blank
<1> DEFINE ink == {j \in DOMAIN t : t[j] # Space}
           n == Len(t)
           back == {n - j : j \in ink}
<1>1. n \in Nat /\ DOMAIN t = 1 .. n
  BY LenProperties
<1>2. ink \subseteq 1 .. n /\ i \in ink
  BY <1>1
<1>3. PICK a \in ink : \A j \in ink : a <= j
  <2> HIDE DEF ink
  <2>1. ink \subseteq Nat /\ ink # {}
    BY <1>1, <1>2
  <2>2. QED
    BY <2>1, Least
<1>4. PICK b \in ink : \A j \in ink : b >= j
  <2>1. back \subseteq Nat /\ back # {}
    BY <1>1, <1>2
  <2>2. PICK m \in back : \A k \in back : m <= k
    <3> HIDE DEF back
    <3>1. QED
      BY <2>1, Least
  <2>3. PICK c \in ink : m = n - c
    BY <2>2
  <2>4. ASSUME NEW j \in ink PROVE c >= j
    <3>1. n - c <= n - j
      BY <2>2, <2>3
    <3>2. QED
      BY <1>1, <1>2, <3>1
  <2>5. QED
    BY <2>4
<1> HIDE DEF ink
<1>5. Min(ink) \in ink /\ \A j \in ink : Min(ink) <= j
  BY <1>3 DEF Min
<1>6. Max(ink) \in ink /\ \A j \in ink : Max(ink) >= j
  BY <1>4 DEF Max
<1>7. trim(t) = SubSeq(t, Min(ink), Max(ink))
  BY <1>2 DEF trim, ink
<1> DEFINE x == Min(ink)
           y == Max(ink)
<1>8. x \in 1 .. n /\ y \in 1 .. n /\ x <= y
  BY <1>2, <1>5, <1>6
<1> HIDE DEF x, y
<1>9. \A k \in x .. y : t[k] \in S
  BY <1>1, <1>8, ElementOfSeq
<1>10. Len(SubSeq(t, x, y)) = y - x + 1
  BY <1>8, <1>9, SubSeqProperties
<1>11. Len(Blank) = 0
  BY DEF Blank
<1>12. trim(t) = SubSeq(t, x, y)
  BY <1>7 DEF x, y
<1>13. QED
  BY <1>8, <1>10, <1>11, <1>12

-----------------------------------------------------------------------------
(* Reading the servers behind a password. *)

Starts(u, t) == Len(u) <= Len(t) /\ \A i \in 1 .. Len(u) : u[i] = t[i]

\* What is left of a sequence when its end is taken off.
LEMMA PrefixIs ==
  ASSUME NEW S, NEW s \in Seq(S), NEW t \in Seq(S), NEW u \in Seq(S),
         Len(u) <= Len(t), \A i \in 1 .. Len(u) : u[i] = t[i]
  PROVE  SubSeq(s \o t, 1, Len(s) + Len(u)) = s \o u
<1> DEFINE n == Len(s) + Len(u)
           p == SubSeq(s \o t, 1, n)
<1>1. Len(s) \in Nat /\ Len(t) \in Nat /\ Len(u) \in Nat
  BY LenProperties
<1>2. /\ Len(s \o t) = Len(s) + Len(t)
      /\ \A i \in 1 .. Len(s) + Len(t) :
           (s \o t)[i] \in S /\ (s \o t)[i] = IF i <= Len(s) THEN s[i] ELSE t[i - Len(s)]
  <2>1. s \o t \in Seq(S) /\ Len(s \o t) = Len(s) + Len(t)
    BY ConcatProperties
  <2>2. \A i \in 1 .. Len(s) + Len(t) : (s \o t)[i] \in S
    BY <2>1, ElementOfSeq
  <2>3. QED
    BY <2>1, <2>2, ConcatProperties
<1>3. /\ s \o u \in Seq(S) /\ Len(s \o u) = n
      /\ \A i \in 1 .. n : (s \o u)[i] = IF i <= Len(s) THEN s[i] ELSE u[i - Len(s)]
  BY ConcatProperties
<1>4. p \in Seq(S) /\ Len(p) = n /\ \A i \in 1 .. n : p[i] = (s \o t)[i]
  <2>1. \A i \in 1 .. n : (s \o t)[i] \in S
    BY <1>1, <1>2
  <2>2. p \in Seq(S) /\ Len(p) = (IF 1 <= n THEN n - 1 + 1 ELSE 0)
        /\ \A i \in 1 .. n - 1 + 1 : p[i] = (s \o t)[1 + i - 1]
    BY <1>1, <2>1, SubSeqProperties
  <2> HIDE DEF p
  <2>3. QED
    BY <1>1, <2>2
<1>5. \A i \in 1 .. n : p[i] = (s \o u)[i]
  <2> SUFFICES ASSUME NEW i \in 1 .. n PROVE p[i] = (s \o u)[i]
    OBVIOUS
  <2> HIDE DEF p
  <2>1. p[i] = IF i <= Len(s) THEN s[i] ELSE t[i - Len(s)]
    BY <1>1, <1>2, <1>4
  <2>2. i > Len(s) => t[i - Len(s)] = u[i - Len(s)]
    BY <1>1
  <2>3. QED
    BY <1>1, <1>3, <2>1, <2>2
<1> HIDE DEF n, p
<1>6. p = s \o u
  BY <1>3, <1>4, <1>5, SeqEqual
<1>7. QED
  BY <1>6 DEF p, n

\* The segments of an entry after its address.
LEMMA AfterFirst ==
  ASSUME NEW S, NEW b \in Seq(S), Len(b) = 1, NEW v \in Seq(S)
  PROVE  Tail(b \o v) = v /\ Len(b \o v) = 1 + Len(v)
<1> DEFINE w == b \o v
<1>1. Len(v) \in Nat
  BY LenProperties
<1>2. w \in Seq(S) /\ Len(w) = 1 + Len(v)
  BY ConcatProperties
<1>3. \A i \in 1 .. Len(b) + Len(v) : w[i] = IF i <= Len(b) THEN b[i] ELSE v[i - Len(b)]
  BY ConcatProperties
<1> HIDE DEF w
<1>4. w # <<>>
  BY <1>1, <1>2, EmptySeq
<1>5. Tail(w) \in Seq(S) /\ Len(Tail(w)) = Len(w) - 1
      /\ \A i \in 1 .. Len(Tail(w)) : Tail(w)[i] = w[i + 1]
  BY <1>2, <1>4, HeadTailProperties
<1>6. Len(Tail(w)) = Len(v) /\ \A i \in 1 .. Len(v) : Tail(w)[i] = v[i]
  BY <1>1, <1>2, <1>3, <1>5
<1>7. Tail(w) = v
  BY <1>5, <1>6, SeqEqual
<1>8. QED
  BY <1>2, <1>7 DEF w

LEMMA TailOfParts ==
  ASSUME NEW S, Blank \in S, NEW s \in Seq(S), NEW t \in Seq(S)
  PROVE  /\ Tail(<<Blank>> \o s \o t) = s \o t
         /\ Len(<<Blank>> \o s \o t) = 1 + Len(s) + Len(t)
<1>1. <<Blank>> \in Seq(S) /\ Len(<<Blank>>) = 1
  OBVIOUS
<1>2. s \o t \in Seq(S) /\ Len(s \o t) = Len(s) + Len(t)
  BY ConcatProperties
<1>3. Len(s) \in Nat /\ Len(t) \in Nat
  BY LenProperties
<1>4. (<<Blank>> \o s) \o t = <<Blank>> \o (s \o t)
  BY <1>1, ConcatAssociative
<1>5. Tail(<<Blank>> \o (s \o t)) = s \o t
      /\ Len(<<Blank>> \o (s \o t)) = 1 + Len(s \o t)
  BY <1>1, <1>2, AfterFirst
<1>6. QED
  BY <1>2, <1>3, <1>4, <1>5

Ends(w, s, t) ==
  /\ Len(w) = Len(s) + Len(t)
  /\ \A i \in 1 .. Len(t) : w[Len(s) + i] = t[i]
  /\ \A i \in 1 .. Len(s) : w[i] = s[i]

LEMMA EndIs ==
  ASSUME NEW S, NEW s \in Seq(S), NEW t \in Seq(S)
  PROVE  /\ s \o t \in Seq(S)
         /\ Ends(s \o t, s, t)
<1>1. Len(s) \in Nat /\ Len(t) \in Nat
  BY LenProperties
<1>2. s \o t \in Seq(S) /\ Len(s \o t) = Len(s) + Len(t)
  BY ConcatProperties
<1>3. \A i \in 1 .. Len(s) + Len(t) :
        (s \o t)[i] = IF i <= Len(s) THEN s[i] ELSE t[i - Len(s)]
  BY ConcatProperties
<1>4. ASSUME NEW i \in 1 .. Len(t) PROVE (s \o t)[Len(s) + i] = t[i]
  <2>1. Len(s) + i \in 1 .. Len(s) + Len(t) /\ ~(Len(s) + i <= Len(s))
        /\ Len(s) + i - Len(s) = i
    BY <1>1
  <2>2. QED
    BY <1>3, <2>1
<1>5. \A i \in 1 .. Len(s) : (s \o t)[i] = s[i]
  BY <1>1, <1>3
<1>6. QED
  BY <1>2, <1>4, <1>5 DEF Ends

\* The words of a server are told apart.
LEMMA Hosts ==
  ASSUME NEW h \in HostNames
  PROVE  looksLikeHost(h) /\ ~isPortSegment(h) /\ ~isSmtpSecurity(h) /\ h # Blank
<1>1. PICK w \in {"localhost"} \cup Dotted : h = <<w>>
  BY DEF HostNames
<1>2. w \notin DOMAIN Number /\ ~isSmtpSecurity(<<w>>)
  BY WordsApart
<1>3. DOMAIN h = {1} /\ h[1] = w
  BY <1>1
<1>4. looksLikeHost(h) /\ ~isPortSegment(h)
  BY <1>1, <1>2, <1>3 DEF looksLikeHost, isPortSegment
<1>5. QED
  BY <1>1, <1>2, <1>4 DEF Blank

LEMMA Ports ==
  ASSUME NEW q \in PortNames
  PROVE  isPortSegment(q) /\ ~isSmtpSecurity(q)
<1>1. PICK w \in DOMAIN Number : q = <<w>>
  BY DEF PortNames
<1>2. ~isSmtpSecurity(<<w>>)
  BY WordsApart
<1>3. DOMAIN q = {1} /\ q[1] = w
  BY <1>1
<1>4. QED
  BY <1>1, <1>2, <1>3 DEF isPortSegment, Blank

LEMMA SecurityWords ==
  ASSUME NEW s \in Securities
  PROVE  isSmtpSecurity(s) /\ toLowerCase(s) = s
BY WordsApart DEF isSmtpSecurity

\* The end of a tail, and what is left without it.
LEMMA Left ==
  ASSUME NEW S, NEW s \in Seq(S), NEW t \in Seq(S), NEW u \in Seq(S), Starts(u, t),
         NEW n, n = Len(s) + Len(u)
  PROVE  SubSeq(s \o t, 1, n) = s \o u
BY PrefixIs DEF Starts

LEMMA AllLeft ==
  ASSUME NEW S, NEW s \in Seq(S), NEW t \in Seq(S)
  PROVE  SubSeq(s \o t, 1, Len(s \o t) - Len(t)) = s
<1> DEFINE u == SubSeq(t, 1, 0)
<1>1. u = <<>> /\ u \in Seq(S) /\ Len(u) = 0
  BY SubSeqEmpty, EmptySeq
<1>2. Len(t) \in Nat /\ s \o <<>> = s
  BY LenProperties, ConcatEmptySeq
<1> HIDE DEF u
<1>3. Starts(u, t) /\ Len(s \o t) - Len(t) = Len(s) + Len(u)
  BY <1>1, <1>2, EndIs, LenProperties DEF Starts, Ends
<1>4. SubSeq(s \o t, 1, Len(s \o t) - Len(t)) = s \o u
  BY <1>1, <1>2, <1>3, Left
<1>5. QED
  BY <1>1, <1>2, <1>4

\* The servers of IMAP are taken off the end.
LEMMA ImapHost ==
  ASSUME NEW S, NEW s \in Seq(S), NEW h \in HostNames, h \in S
  PROVE  extractImapSegments(s \o <<h>>) = [rest |-> s, host |-> h, port |-> Undefined]
<1> DEFINE t == <<h>>
           w == s \o t
<1>1. t \in Seq(S) /\ Len(t) = 1 /\ t[1] = h
  OBVIOUS
<1> HIDE DEF t
<1>2. Len(s) \in Nat /\ Len(w) = Len(s) + 1 /\ w[Len(s) + 1] = h
  BY <1>1, EndIs, LenProperties DEF Ends
<1>3. SubSeq(w, 1, Len(w) - 1) = s
  BY <1>1, AllLeft
<1> HIDE DEF w
<1>4. w[Len(w)] = h /\ looksLikeHost(h) /\ ~isPortSegment(h)
  BY <1>2, Hosts
<1>5. extractImapSegments(w) = [rest |-> s, host |-> h, port |-> Undefined]
  BY <1>3, <1>4 DEF extractImapSegments, Front
<1>6. QED
  BY <1>5 DEF w, t

LEMMA ImapHostPort ==
  ASSUME NEW S, NEW s \in Seq(S), s # <<>>, NEW h \in HostNames, NEW q \in PortNames,
         h \in S, q \in S
  PROVE  extractImapSegments(s \o <<h, q>>) = [rest |-> s, host |-> h, port |-> parsePort(q)]
<1> DEFINE t == <<h, q>>
           w == s \o t
<1>1. t \in Seq(S) /\ Len(t) = 2 /\ t[1] = h /\ t[2] = q
  OBVIOUS
<1> HIDE DEF t
<1>2. Len(s) \in Nat \ {0} /\ Len(w) = Len(s) + 2
      /\ w[Len(s) + 1] = h /\ w[Len(s) + 2] = q
  <2>1. Ends(w, s, t)
    BY <1>1, EndIs
  <2>2. Len(s) \in Nat \ {0}
    BY EmptySeq
  <2>3. QED
    BY <1>1, <2>1, <2>2 DEF Ends
<1>3. SubSeq(w, 1, Len(w) - 2) = s
  BY <1>1, AllLeft
<1> HIDE DEF w
<1>4. Len(w) >= 3 /\ w[Len(w)] = q /\ w[Len(w) - 1] = h
      /\ looksLikeHost(h) /\ isPortSegment(q)
  BY <1>2, Hosts, Ports
<1>5. extractImapSegments(w) = [rest |-> s, host |-> h, port |-> parsePort(q)]
  BY <1>3, <1>4 DEF extractImapSegments
<1>6. QED
  BY <1>5 DEF w, t

\* Nothing of SMTP is taken off when only IMAP's servers follow the password.
LEMMA NoSmtp ==
  ASSUME NEW w, w # <<>>, ~isSmtpSecurity(w[Len(w)]), ~canHaveSmtpHostPort(w)
  PROVE  extractSmtpSegments(w) =
           [rest |-> w, host |-> Blank, port |-> Undefined, security |-> Blank]
BY DEF extractSmtpSegments, Last

\* The host and port of SMTP, with or without its security.
LEMMA SmtpHostPort ==
  ASSUME NEW w, ~isSmtpSecurity(w[Len(w)]), canHaveSmtpHostPort(w)
  PROVE  extractSmtpSegments(w) =
           [rest |-> SubSeq(w, 1, Len(w) - 2), host |-> w[Len(w) - 1],
            port |-> parsePort(w[Len(w)]), security |-> Blank]
BY DEF extractSmtpSegments, Last

LEMMA SmtpHostPortSecurity ==
  ASSUME NEW w, NEW v, Len(w) >= 4, isSmtpSecurity(w[Len(w)]),
         v = SubSeq(w, 1, Len(w) - 1), canHaveSmtpHostPort(v)
  PROVE  extractSmtpSegments(w) =
           [rest |-> SubSeq(v, 1, Len(v) - 2), host |-> v[Len(v) - 1],
            port |-> parsePort(v[Len(v)]), security |-> toLowerCase(w[Len(w)])]
BY DEF extractSmtpSegments, Last, Front

LEMMA SmtpHostSecurity ==
  ASSUME NEW w, NEW v, Len(w) >= 4, isSmtpSecurity(w[Len(w)]),
         v = SubSeq(w, 1, Len(w) - 1), Len(v) >= 3,
         ~canHaveSmtpHostPort(v), looksLikeHost(v[Len(v)])
  PROVE  extractSmtpSegments(w) =
           [rest |-> SubSeq(v, 1, Len(v) - 1), host |-> v[Len(v)],
            port |-> Undefined, security |-> toLowerCase(w[Len(w)])]
BY DEF extractSmtpSegments, Last, Front

\* The whole entry, from what its two ends are read as.
LEMMA Parsed ==
  ASSUME NEW parts, Len(parts) # 2, NEW s, NEW rest, NEW smtpHost, NEW smtpPort, NEW security,
         NEW h, NEW p,
         extractSmtpSegments(Tail(parts)) =
           [rest |-> rest, host |-> smtpHost, port |-> smtpPort, security |-> security],
         extractImapSegments(rest) = [rest |-> s, host |-> h, port |-> p]
  PROVE  parsePasswordAndHost(parts) = Read(s, h, p, smtpHost, smtpPort, security)
<1> DEFINE x == extractSmtpSegments(Tail(parts))
           y == extractImapSegments(x.rest)
<1>1. parsePasswordAndHost(parts) =
        [password |-> y.rest, imap |-> [host |-> y.host, port |-> y.port],
         smtp |-> [host |-> x.host, port |-> x.port, security |-> x.security]]
  BY Zenon DEF parsePasswordAndHost
<1>2. x = [rest |-> rest, host |-> smtpHost, port |-> smtpPort, security |-> security]
  OBVIOUS
<1> HIDE DEF x
<1>3. x.rest = rest /\ x.host = smtpHost /\ x.port = smtpPort /\ x.security = security
  BY <1>2
<1>4. y = [rest |-> s, host |-> h, port |-> p]
  BY <1>3
<1> HIDE DEF y
<1>5. y.rest = s /\ y.host = h /\ y.port = p
  BY <1>4
<1>6. QED
  BY <1>1, <1>3, <1>5 DEF Read

(***************************************************************************)
(* The five ways the servers are written after a password.                 *)
(***************************************************************************)
LEMMA ReadsHost ==
  ASSUME NEW S, Blank \in S, NEW s \in Seq(S), s # <<>>, NEW h \in HostNames, h \in S
  PROVE  parsePasswordAndHost(<<Blank>> \o s \o <<h>>) =
           Read(s, h, Undefined, Blank, Undefined, Blank)
<1> DEFINE t == <<h>>
           w == s \o t
<1>1. t \in Seq(S) /\ Len(t) = 1 /\ t[1] = h
  OBVIOUS
<1>2. extractImapSegments(w) = [rest |-> s, host |-> h, port |-> Undefined]
  BY ImapHost
<1> HIDE DEF t
<1>3. Len(s) \in Nat \ {0} /\ w \in Seq(S) /\ Len(w) = Len(s) + 1 /\ w[Len(s) + 1] = h
  <2>1. w \in Seq(S) /\ Ends(w, s, t)
    BY <1>1, EndIs
  <2>2. Len(s) \in Nat \ {0}
    BY EmptySeq
  <2>3. QED
    BY <1>1, <2>1, <2>2 DEF Ends
<1> HIDE DEF w
<1>4. w # <<>> /\ w[Len(w)] = h
  BY <1>3, EmptySeq
<1>5. ~isSmtpSecurity(w[Len(w)]) /\ ~canHaveSmtpHostPort(w)
  BY <1>4, Hosts DEF canHaveSmtpHostPort
<1>6. extractSmtpSegments(w) = [rest |-> w, host |-> Blank, port |-> Undefined, security |-> Blank]
  BY <1>4, <1>5, NoSmtp
<1>7. parsePasswordAndHost(<<Blank>> \o s \o t) = Read(s, h, Undefined, Blank, Undefined, Blank)
  <2>1. Len(s) + Len(t) >= 2 /\ Len(<<Blank>> \o s \o t) = 1 + Len(s) + Len(t)
        /\ Tail(<<Blank>> \o s \o t) = w
    BY <1>1, <1>3, TailOfParts DEF w
  <2>2. Len(<<Blank>> \o s \o t) # 2
    BY <1>1, <1>3, <2>1
  <2>3. extractSmtpSegments(Tail(<<Blank>> \o s \o t)) = [rest |-> w, host |-> Blank, port |-> Undefined, security |-> Blank]
    BY <1>6, <2>1
  <2>4. QED
    BY <1>2, <2>2, <2>3, Parsed, Zenon
<1>8. QED
  BY <1>7 DEF t

LEMMA ReadsHostPort ==
  ASSUME NEW S, Blank \in S, NEW s \in Seq(S), s # <<>>, NEW h \in HostNames, h \in S,
         NEW q \in PortNames, q \in S, ~LooksFull(s)
  PROVE  parsePasswordAndHost(<<Blank>> \o s \o <<h, q>>) =
           Read(s, h, parsePort(q), Blank, Undefined, Blank)
<1> DEFINE t == <<h, q>>
           w == s \o t
<1>1. t \in Seq(S) /\ Len(t) = 2 /\ t[1] = h /\ t[2] = q
  OBVIOUS
<1>2. extractImapSegments(w) = [rest |-> s, host |-> h, port |-> parsePort(q)]
  BY ImapHostPort
<1> HIDE DEF t
<1>3. /\ Len(s) \in Nat \ {0} /\ w \in Seq(S) /\ Len(w) = Len(s) + 2
      /\ w[Len(s) + 2] = q
      /\ \A i \in 1 .. Len(s) : w[i] = s[i]
  <2>1. w \in Seq(S) /\ Ends(w, s, t)
    BY <1>1, EndIs
  <2>2. Len(s) \in Nat \ {0}
    BY EmptySeq
  <2>3. QED
    BY <1>1, <2>1, <2>2 DEF Ends
<1> HIDE DEF w
<1>4. w # <<>> /\ w[Len(w)] = q
  BY <1>3, EmptySeq
<1>5. ~isSmtpSecurity(w[Len(w)])
  BY <1>4, Ports
<1>6. ~canHaveSmtpHostPort(w)
  <2> SUFFICES ASSUME Len(w) >= 5, looksLikeHost(w[Len(w) - 3]) PROVE FALSE
    BY DEF canHaveSmtpHostPort
  <2>1. Len(s) >= 3 /\ Len(w) - 3 = Len(s) - 1 /\ Len(s) - 1 \in 1 .. Len(s)
    BY <1>3
  <2>2. w[Len(w) - 3] = s[Len(s) - 1]
    BY <1>3, <2>1
  <2>3. QED
    BY <2>1, <2>2 DEF LooksFull
<1>7. extractSmtpSegments(w) = [rest |-> w, host |-> Blank, port |-> Undefined, security |-> Blank]
  BY <1>4, <1>5, <1>6, NoSmtp
<1>8. parsePasswordAndHost(<<Blank>> \o s \o t) = Read(s, h, parsePort(q), Blank, Undefined, Blank)
  <2>1. Len(s) + Len(t) >= 2 /\ Len(<<Blank>> \o s \o t) = 1 + Len(s) + Len(t)
        /\ Tail(<<Blank>> \o s \o t) = w
    BY <1>1, <1>3, TailOfParts DEF w
  <2>2. Len(<<Blank>> \o s \o t) # 2
    BY <1>1, <1>3, <2>1
  <2>3. extractSmtpSegments(Tail(<<Blank>> \o s \o t)) = [rest |-> w, host |-> Blank, port |-> Undefined, security |-> Blank]
    BY <1>7, <2>1
  <2>4. QED
    BY <1>2, <2>2, <2>3, Parsed, Zenon
<1>9. QED
  BY <1>8 DEF t

\* What may follow the host and the port of IMAP, and how they are read before it.
FullEnd(t) ==
  Len(t) = 4 /\ t[1] \in HostNames /\ t[3] \in HostNames /\ t[4] \in PortNames
FullSecureEnd(t) ==
  /\ Len(t) = 5 /\ t[1] \in HostNames /\ t[3] \in HostNames /\ t[4] \in PortNames
  /\ t[5] \in Securities
HostSecureEnd(t) ==
  Len(t) = 4 /\ t[1] \in HostNames /\ t[3] \in HostNames /\ t[4] \in Securities
ImapRead(s, t, u) ==
  /\ Len(u) = 2 /\ Starts(u, t)
  /\ extractImapSegments(s \o u) = [rest |-> s, host |-> t[1], port |-> parsePort(t[2])]
FullTaken(w, rest, t) ==
  /\ canHaveSmtpHostPort(w) /\ SubSeq(w, 1, Len(w) - 2) = rest
  /\ w[Len(w) - 1] = t[3] /\ w[Len(w)] = t[4]

LEMMA ReadsSmtpHostPort ==
  ASSUME NEW S, Blank \in S, NEW s \in Seq(S), s # <<>>, NEW t \in Seq(S), NEW u \in Seq(S),
         FullEnd(t), ImapRead(s, t, u)
  PROVE  /\ FullTaken(s \o t, s \o u, t)
         /\ parsePasswordAndHost(<<Blank>> \o s \o t) =
              Read(s, t[1], parsePort(t[2]), t[3], parsePort(t[4]), Blank)
<1> DEFINE w == s \o t
<1>1. w \in Seq(S) /\ Ends(w, s, t)
  BY EndIs
<1>2. Len(s) \in Nat \ {0}
  BY EmptySeq
<1>3. SubSeq(w, 1, Len(w) - 2) = s \o u
  <2>1. Starts(u, t) /\ Len(w) - 2 = Len(s) + Len(u)
    BY <1>1, <1>2 DEF FullEnd, ImapRead, Ends
  <2>2. QED
    BY <2>1, Left
<1> HIDE DEF w
<1>4. /\ Len(w) >= 5 /\ w[Len(w)] = t[4] /\ w[Len(w) - 1] = t[3] /\ w[Len(w) - 3] = t[1]
  BY <1>1, <1>2 DEF FullEnd, Ends
<1>5. canHaveSmtpHostPort(w) /\ ~isSmtpSecurity(w[Len(w)])
  BY <1>4, Hosts, Ports DEF canHaveSmtpHostPort, FullEnd
<1>6. extractSmtpSegments(w) =
        [rest |-> s \o u, host |-> t[3], port |-> parsePort(t[4]), security |-> Blank]
  BY <1>3, <1>4, <1>5, SmtpHostPort
<1>7. parsePasswordAndHost(<<Blank>> \o s \o t) =
        Read(s, t[1], parsePort(t[2]), t[3], parsePort(t[4]), Blank)
  <2>1. Len(<<Blank>> \o s \o t) = 1 + Len(s) + Len(t) /\ Tail(<<Blank>> \o s \o t) = w
    BY TailOfParts DEF w
  <2>2. Len(<<Blank>> \o s \o t) # 2
    BY <1>2, <2>1 DEF FullEnd, FullSecureEnd
  <2>3. extractSmtpSegments(Tail(<<Blank>> \o s \o t)) =
          [rest |-> s \o u, host |-> t[3], port |-> parsePort(t[4]), security |-> Blank]
    BY <1>6, <2>1
  <2>4. extractImapSegments(s \o u) = [rest |-> s, host |-> t[1], port |-> parsePort(t[2])]
    BY DEF ImapRead
  <2>5. QED
    BY <2>2, <2>3, <2>4, Parsed, Zenon
<1>8. QED
  BY <1>3, <1>4, <1>5, <1>7 DEF w, FullTaken

LEMMA ReadsSmtpHostPortSecurity ==
  ASSUME NEW S, Blank \in S, NEW s \in Seq(S), s # <<>>, NEW t \in Seq(S), NEW v \in Seq(S),
         NEW u \in Seq(S),
         FullSecureEnd(t), Starts(v, t), FullEnd(v), ImapRead(s, v, u)
  PROVE  parsePasswordAndHost(<<Blank>> \o s \o t) =
           Read(s, t[1], parsePort(t[2]), t[3], parsePort(t[4]), t[5])
<1> DEFINE w == s \o t
           x == s \o v
<1>0. v[1] = t[1] /\ v[2] = t[2] /\ v[3] = t[3] /\ (FullEnd(v) => v[4] = t[4])
  BY DEF Starts, FullEnd
<1>1. w \in Seq(S) /\ Ends(w, s, t)
  BY EndIs
<1>2. Len(s) \in Nat \ {0}
  BY EmptySeq
<1>3. SubSeq(w, 1, Len(w) - 1) = x
  <2>1. Len(w) - 1 = Len(s) + Len(v)
    BY <1>1, <1>2 DEF FullSecureEnd, FullEnd, Ends
  <2>2. QED
    BY <2>1, Left
<1>5. /\ canHaveSmtpHostPort(x) /\ SubSeq(x, 1, Len(x) - 2) = s \o u
      /\ x[Len(x) - 1] = t[3] /\ x[Len(x)] = t[4]
  <2>1. FullTaken(x, s \o u, v)
    BY ReadsSmtpHostPort
  <2>2. v[3] = t[3] /\ v[4] = t[4]
    BY <1>0
  <2>3. QED
    BY <2>1, <2>2 DEF FullTaken
<1> HIDE DEF w, x
<1>6. Len(w) >= 4 /\ w[Len(w)] = t[5]
  BY <1>1, <1>2 DEF FullSecureEnd, Ends
<1>7. isSmtpSecurity(w[Len(w)]) /\ toLowerCase(w[Len(w)]) = t[5]
  BY <1>6, SecurityWords DEF FullSecureEnd
<1>8. extractSmtpSegments(w) =
        [rest |-> s \o u, host |-> t[3], port |-> parsePort(t[4]), security |-> t[5]]
  BY <1>3, <1>5, <1>6, <1>7, SmtpHostPortSecurity
<1>9. QED
  <2>1. Len(<<Blank>> \o s \o t) = 1 + Len(s) + Len(t) /\ Tail(<<Blank>> \o s \o t) = w
    BY TailOfParts DEF w
  <2>2. Len(<<Blank>> \o s \o t) # 2
    BY <1>2, <2>1 DEF FullEnd, FullSecureEnd
  <2>3. extractSmtpSegments(Tail(<<Blank>> \o s \o t)) =
          [rest |-> s \o u, host |-> t[3], port |-> parsePort(t[4]), security |-> t[5]]
    BY <1>8, <2>1
  <2>4. extractImapSegments(s \o u) = [rest |-> s, host |-> t[1], port |-> parsePort(t[2])]
    BY <1>0 DEF ImapRead
  <2>5. QED
    BY <2>2, <2>3, <2>4, Parsed, Zenon

LEMMA ReadsSmtpHostSecurity ==
  ASSUME NEW S, Blank \in S, NEW s \in Seq(S), s # <<>>, NEW t \in Seq(S), NEW v \in Seq(S),
         NEW u \in Seq(S),
         HostSecureEnd(t), Starts(v, t), Len(v) = 3, ImapRead(s, v, u)
  PROVE  parsePasswordAndHost(<<Blank>> \o s \o t) =
           Read(s, t[1], parsePort(t[2]), t[3], Undefined, t[4])
<1> DEFINE w == s \o t
           x == s \o v
<1>0. v[1] = t[1] /\ v[2] = t[2] /\ v[3] = t[3] /\ (FullEnd(v) => v[4] = t[4])
  BY DEF Starts, FullEnd
<1>1. w \in Seq(S) /\ Ends(w, s, t)
  BY EndIs
<1>2. x \in Seq(S) /\ Ends(x, s, v)
  BY EndIs
<1>3. Len(s) \in Nat \ {0}
  BY EmptySeq
<1>4. SubSeq(w, 1, Len(w) - 1) = x
  <2>1. Len(w) - 1 = Len(s) + Len(v)
    BY <1>1, <1>3 DEF HostSecureEnd, Ends
  <2>2. QED
    BY <2>1, Left
<1>5. SubSeq(x, 1, Len(x) - 1) = s \o u
  <2>1. Starts(u, v) /\ Len(x) - 1 = Len(s) + Len(u)
    BY <1>2, <1>3 DEF ImapRead, Ends
  <2>2. QED
    BY <2>1, Left
<1> HIDE DEF w, x
<1>6. Len(w) >= 4 /\ w[Len(w)] = t[4] /\ Len(x) >= 3 /\ x[Len(x)] = t[3]
  BY <1>0, <1>1, <1>2, <1>3 DEF HostSecureEnd, Ends
<1>7. isSmtpSecurity(w[Len(w)]) /\ toLowerCase(w[Len(w)]) = t[4]
  BY <1>6, SecurityWords DEF HostSecureEnd
<1>8. looksLikeHost(x[Len(x)]) /\ ~canHaveSmtpHostPort(x)
  BY <1>6, Hosts DEF canHaveSmtpHostPort, HostSecureEnd
<1>9. extractSmtpSegments(w) =
        [rest |-> s \o u, host |-> t[3], port |-> Undefined, security |-> t[4]]
  BY <1>4, <1>5, <1>6, <1>7, <1>8, SmtpHostSecurity
<1>10. QED
  <2>1. Len(<<Blank>> \o s \o t) = 1 + Len(s) + Len(t) /\ Tail(<<Blank>> \o s \o t) = w
    BY TailOfParts DEF w
  <2>2. Len(<<Blank>> \o s \o t) # 2
    BY <1>3, <2>1 DEF HostSecureEnd
  <2>3. extractSmtpSegments(Tail(<<Blank>> \o s \o t)) =
          [rest |-> s \o u, host |-> t[3], port |-> Undefined, security |-> t[4]]
    BY <1>9, <2>1
  <2>4. extractImapSegments(s \o u) = [rest |-> s, host |-> t[1], port |-> parsePort(t[2])]
    BY <1>0 DEF ImapRead
  <2>5. QED
    BY <2>2, <2>3, <2>4, Parsed, Zenon

\* The same with the servers as they are written.
LEMMA ReadsFull ==
  ASSUME NEW S, Blank \in S, NEW s \in Seq(S), s # <<>>, NEW h \in HostNames, h \in S,
         NEW q \in PortNames, q \in S, NEW g \in HostNames, g \in S,
         NEW r \in PortNames, r \in S
  PROVE  parsePasswordAndHost(<<Blank>> \o s \o <<h, q, g, r>>) =
           Read(s, h, parsePort(q), g, parsePort(r), Blank)
<1> DEFINE t == <<h, q, g, r>>
           u == <<h, q>>
<1>1. t \in Seq(S) /\ FullEnd(t) /\ t[1] = h /\ t[2] = q /\ t[3] = g /\ t[4] = r
  BY DEF FullEnd
<1>2. u \in Seq(S) /\ Len(u) = 2 /\ Starts(u, t)
  BY DEF Starts
<1>3. extractImapSegments(s \o u) = [rest |-> s, host |-> h, port |-> parsePort(q)]
  BY ImapHostPort
<1> HIDE DEF t, u
<1>4. ImapRead(s, t, u)
  BY <1>1, <1>2, <1>3 DEF ImapRead
<1>5. parsePasswordAndHost(<<Blank>> \o s \o t) =
        Read(s, t[1], parsePort(t[2]), t[3], parsePort(t[4]), Blank)
  BY <1>1, <1>2, <1>4, ReadsSmtpHostPort
<1>6. QED
  BY <1>1, <1>5 DEF t

HoldsWords(S) == {Blank} \cup HostNames \cup PortNames \cup Securities \subseteq S

FullSecureReads(s) ==
  \A h, g \in HostNames, q, r \in PortNames, c \in Securities :
    parsePasswordAndHost(<<Blank>> \o s \o <<h, q, g, r, c>>) =
      Read(s, h, parsePort(q), g, parsePort(r), c)

LEMMA ReadsFullSecure ==
  ASSUME NEW S, HoldsWords(S),
         NEW s \in Seq(S), s # <<>>
  PROVE  FullSecureReads(s)
<1> SUFFICES ASSUME NEW h \in HostNames, NEW g \in HostNames, NEW q \in PortNames,
                    NEW r \in PortNames, NEW c \in Securities
             PROVE  parsePasswordAndHost(<<Blank>> \o s \o <<h, q, g, r, c>>) =
                      Read(s, h, parsePort(q), g, parsePort(r), c)
  BY Zenon DEF FullSecureReads
<1> DEFINE t == <<h, q, g, r, c>>
           v == <<h, q, g, r>>
           u == <<h, q>>
<1>0. Blank \in S /\ h \in S /\ q \in S /\ g \in S /\ r \in S /\ c \in S
  BY DEF HoldsWords
<1>1. t \in Seq(S) /\ FullSecureEnd(t)
      /\ t[1] = h /\ t[2] = q /\ t[3] = g /\ t[4] = r /\ t[5] = c
  BY <1>0 DEF FullSecureEnd
<1>2. v \in Seq(S) /\ FullEnd(v) /\ Starts(v, t) /\ v[1] = h /\ v[2] = q
  BY <1>0 DEF FullEnd, Starts
<1>3. u \in Seq(S) /\ Len(u) = 2 /\ Starts(u, v)
  BY <1>0 DEF Starts
<1>4. extractImapSegments(s \o u) = [rest |-> s, host |-> h, port |-> parsePort(q)]
  BY <1>0, ImapHostPort
<1> HIDE DEF t, u, v
<1>5. ImapRead(s, v, u)
  BY <1>2, <1>3, <1>4 DEF ImapRead
<1>6. parsePasswordAndHost(<<Blank>> \o s \o t) =
        Read(s, t[1], parsePort(t[2]), t[3], parsePort(t[4]), t[5])
  BY <1>0, <1>1, <1>2, <1>3, <1>5, ReadsSmtpHostPortSecurity
<1>7. QED
  BY <1>1, <1>6 DEF t

LEMMA ReadsHostSecure ==
  ASSUME NEW S, Blank \in S, NEW s \in Seq(S), s # <<>>, NEW h \in HostNames, h \in S,
         NEW q \in PortNames, q \in S, NEW g \in HostNames, g \in S,
         NEW c \in Securities, c \in S
  PROVE  parsePasswordAndHost(<<Blank>> \o s \o <<h, q, g, c>>) =
           Read(s, h, parsePort(q), g, Undefined, c)
<1> DEFINE t == <<h, q, g, c>>
           v == <<h, q, g>>
           u == <<h, q>>
<1>1. t \in Seq(S) /\ HostSecureEnd(t) /\ t[1] = h /\ t[2] = q /\ t[3] = g /\ t[4] = c
  BY DEF HostSecureEnd
<1>2. v \in Seq(S) /\ Len(v) = 3 /\ Starts(v, t) /\ v[1] = h /\ v[2] = q
  BY DEF Starts
<1>3. u \in Seq(S) /\ Len(u) = 2 /\ Starts(u, v)
  BY DEF Starts
<1>4. extractImapSegments(s \o u) = [rest |-> s, host |-> h, port |-> parsePort(q)]
  BY ImapHostPort
<1> HIDE DEF t, u, v
<1>5. ImapRead(s, v, u)
  BY <1>2, <1>3, <1>4 DEF ImapRead
<1>6. parsePasswordAndHost(<<Blank>> \o s \o t) =
        Read(s, t[1], parsePort(t[2]), t[3], Undefined, t[4])
  BY <1>1, <1>2, <1>3, <1>5, ReadsSmtpHostSecurity
<1>7. QED
  BY <1>1, <1>6 DEF t

(***************************************************************************)
(* A password of any segments is read back whole, and the servers after it *)
(* as they were written, when they are written as the host of IMAP, as its *)
(* host and port (unless the password looks full), or as both servers with *)
(* the port of SMTP, its security, or both (parsePasswordAndHost).  Nothing*)
(* is said of the SMTP host alone, which the form writes too.              *)
(***************************************************************************)
THEOREM PasswordsReadBack ==
  ASSUME NEW T, NEW segs \in Seq(T), segs # <<>>
  PROVE  ReadsBack(segs)
<1> DEFINE S == T \cup HostNames \cup PortNames \cup Securities \cup {Blank}
<1>1. segs \in Seq(S)
  BY SeqMonotonic, T \subseteq S
<1> SUFFICES ASSUME NEW h \in HostNames, NEW g \in HostNames,
                    NEW q \in PortNames, NEW r \in PortNames, NEW c \in Securities
             PROVE  LET parse(tail) == parsePasswordAndHost(<<Blank>> \o segs \o tail) IN
                    /\ parse(<<h>>) = Read(segs, h, Undefined, Blank, Undefined, Blank)
                    /\ LooksFull(segs) \/
                         parse(<<h, q>>) = Read(segs, h, parsePort(q), Blank, Undefined, Blank)
                    /\ parse(<<h, q, g, c>>) = Read(segs, h, parsePort(q), g, Undefined, c)
                    /\ parse(<<h, q, g, r>>) = Read(segs, h, parsePort(q), g, parsePort(r), Blank)
                    /\ parse(<<h, q, g, r, c>>) = Read(segs, h, parsePort(q), g, parsePort(r), c)
  BY Zenon DEF ReadsBack
<1>2. Blank \in S /\ h \in S /\ g \in S /\ q \in S /\ r \in S /\ c \in S
  OBVIOUS
<1>0. HoldsWords(S)
  BY DEF HoldsWords
<1> HIDE DEF S
<1>3. parsePasswordAndHost(<<Blank>> \o segs \o <<h>>) =
        Read(segs, h, Undefined, Blank, Undefined, Blank)
  BY <1>1, <1>2, ReadsHost, Zenon
<1>4. LooksFull(segs) \/ parsePasswordAndHost(<<Blank>> \o segs \o <<h, q>>) =
        Read(segs, h, parsePort(q), Blank, Undefined, Blank)
  BY <1>1, <1>2, ReadsHostPort, Zenon
<1>5. parsePasswordAndHost(<<Blank>> \o segs \o <<h, q, g, c>>) =
        Read(segs, h, parsePort(q), g, Undefined, c)
  BY <1>1, <1>2, ReadsHostSecure, Zenon
<1>6. parsePasswordAndHost(<<Blank>> \o segs \o <<h, q, g, r>>) =
        Read(segs, h, parsePort(q), g, parsePort(r), Blank)
  BY <1>1, <1>2, ReadsFull, Zenon
<1>7. parsePasswordAndHost(<<Blank>> \o segs \o <<h, q, g, r, c>>) =
        Read(segs, h, parsePort(q), g, parsePort(r), c)
  <2>1. FullSecureReads(segs)
    BY <1>0, <1>1, ReadsFullSecure
  <2>2. QED
    BY <2>1, Zenon DEF FullSecureReads
<1>8. QED
  BY <1>3, <1>4, <1>5, <1>6, <1>7, Zenon

\* So no password the model checks is misread.
LEMMA NoTailMisread == MisreadTails = {}
<1>1. ASSUME NEW segs \in Tails PROVE ReadsBack(segs)
  BY <1>1, TailsKnown, PasswordsReadBack
<1>2. QED
  BY <1>1 DEF MisreadTails

-----------------------------------------------------------------------------
(* Reading an entry. *)

\* A text that trim leaves alone.
Inked(t) == t # <<>> /\ t[1] # Space /\ t[Len(t)] # Space

\* Such a text is kept, and so is a word.
LEMMA InkedKept ==
  ASSUME NEW S, NEW t \in Seq(S), Inked(t)
  PROVE  trim(t) = t /\ t # Blank
BY TrimKeeps DEF Inked, Blank

LEMMA WordInked ==
  ASSUME NEW w, w # Space
  PROVE  Inked(<<w>>) /\ trim(<<w>>) = <<w>>
<1>1. <<w>> \in Seq({w}) /\ Inked(<<w>>)
  BY DEF Inked
<1>2. QED
  BY <1>1, InkedKept

\* Two texts make such a text when its ends are theirs.
LEMMA InkedConcat ==
  ASSUME NEW S, NEW a \in Seq(S), NEW b \in Seq(S),
         a # <<>>, a[1] # Space, b # <<>>, b[Len(b)] # Space
  PROVE  Inked(a \o b)
<1>1. Len(a) \in Nat \ {0} /\ Len(b) \in Nat \ {0}
  BY EmptySeq
<1> DEFINE c == a \o b
<1>2. c \in Seq(S) /\ Ends(c, a, b)
  BY EndIs
<1> HIDE DEF c
<1>3. Len(c) = Len(a) + Len(b) /\ c[Len(a) + Len(b)] = b[Len(b)] /\ c[1] = a[1]
  BY <1>1, <1>2 DEF Ends
<1>4. c # <<>>
  BY <1>1, <1>3, EmptySeq
<1>5. QED
  BY <1>3, <1>4 DEF Inked, c

LEMMA LastInked ==
  ASSUME NEW S, NEW a \in Seq(S), NEW b \in Seq(S), b # <<>>, b[Len(b)] # Space
  PROVE  LET c == a \o b IN c \in Seq(S) /\ c # <<>> /\ c[Len(c)] # Space
<1>1. Len(a) \in Nat /\ Len(b) \in Nat \ {0}
  BY EmptySeq, LenProperties
<1> DEFINE c == a \o b
<1>2. c \in Seq(S) /\ Ends(c, a, b)
  BY EndIs
<1> HIDE DEF c
<1>3. Len(c) = Len(a) + Len(b) /\ c[Len(a) + Len(b)] = b[Len(b)]
  BY <1>1, <1>2 DEF Ends
<1>4. c # <<>>
  BY <1>1, <1>3, EmptySeq
<1>5. QED
  BY <1>2, <1>3, <1>4 DEF c

\* The last field of an entry ends it.
LEMMA JoinLast ==
  ASSUME NEW S, NEW F \in Segments(S), NEW sep \in S,
         LET x == F[Len(F)] IN x # <<>> /\ x[Len(x)] # Space
  PROVE  LET c == join(F, sep) IN c \in Seq(S) /\ c # <<>> /\ c[Len(c)] # Space
<1>1. F \in Seq(Seq(S)) /\ F # <<>>
  BY DEF Segments
<1>2. PICK a \in Seq(Seq(S)), x \in Seq(S) : F = Append(a, x)
  BY <1>1, SequenceEmptyOrAppend
<1>3. F[Len(F)] = x
  BY <1>2, AppendProperties, LenProperties
<1>4. x # <<>> /\ x[Len(x)] # Space
  BY <1>3
<1>5. CASE a = <<>>
  <2>1. F = <<x>>
    BY <1>2, <1>5
  <2>2. join(F, sep) = x
    BY <2>1, JoinOne
  <2>3. QED
    BY <1>4, <2>2
<1>6. CASE a # <<>>
  <2> DEFINE d == Append(join(a, sep), sep)
  <2>1. a \in Segments(S) /\ d \in Seq(S)
    BY <1>6, JoinTyped, AppendProperties DEF Segments
  <2>2. join(F, sep) = d \o x
    BY <1>2, <2>1, JoinBehind
  <2> HIDE DEF d
  <2>3. QED
    BY <1>4, <2>1, <2>2, LastInked
<1>7. QED
  BY <1>5, <1>6

\* A word as a segment of its own.
LEMMA OneSegment ==
  ASSUME NEW S, NEW e \in S
  PROVE  <<e>> \in Seq(S) /\ <<<<e>>>> \in Segments(S)
<1>1. <<e>> \in Seq(S)
  OBVIOUS
<1> DEFINE w == <<e>>
<1> HIDE DEF w
<1>2. w \in Seq(S) => <<w>> \in Seq(Seq(S)) /\ <<w>> # <<>>
  OBVIOUS
<1>3. QED
  BY <1>1, <1>2 DEF w, Segments

\* Two pieces that make a whole, with or without a separator between them.
Cat(z, a, b) == z = a \o b
CatWith(z, a, sep, b) == z = Append(a, sep) \o b

\* What the lemmas on join and split say of such pieces.
LEMMA JoinCat ==
  ASSUME NEW S, NEW a \in Segments(S), NEW b \in Segments(S), NEW sep \in S,
         NEW z, Cat(z, a, b)
  PROVE  CatWith(join(z, sep), join(a, sep), sep, join(b, sep))
<1>1. join(a \o b, sep) = Append(join(a, sep), sep) \o join(b, sep)
  BY JoinConcat
<1>2. QED
  BY <1>1 DEF Cat, CatWith

LEMMA SplitCat ==
  ASSUME NEW S, NEW a \in Seq(S), NEW b \in Seq(S), NEW sep \in S, NEW z, CatWith(z, a, sep, b)
  PROVE  Cat(split(z, sep), split(a, sep), split(b, sep))
<1>1. split(Append(a, sep) \o b, sep) = split(a, sep) \o split(b, sep)
  BY SplitBehind
<1>2. QED
  BY <1>1 DEF Cat, CatWith

LEMMA SplitJoinCat ==
  ASSUME NEW S, NEW sep \in S, NEW a \in Segments(S), NEW segs \in Seq(Seq(S \ {sep})),
         NEW z, Cat(z, a, segs)
  PROVE  Cat(split(join(z, sep), sep), split(join(a, sep), sep), segs)
<1>1. split(join(a \o segs, sep), sep) = split(join(a, sep), sep) \o segs
  BY SplitJoinBehind
<1>2. QED
  BY <1>1 DEF Cat

LEMMA CatTyped ==
  ASSUME NEW S, NEW a \in Seq(S), NEW b \in Seq(S), NEW z, Cat(z, a, b)
  PROVE  z \in Seq(S) /\ Len(z) = Len(a) + Len(b) /\ Ends(z, a, b)
BY EndIs DEF Cat, Ends

\* An entry is split into its address and the segments of its other fields.
LEMMA EntryParts ==
  ASSUME NEW S, Colon \in S, NEW e \in S \ {Colon, Space}, NEW F \in Segments(S),
         LET x == F[Len(F)] IN x # <<>> /\ x[Len(x)] # Space,
         NEW z, Cat(z, <<<<e>>>>, F)
  PROVE  LET entry == join(z, Colon) IN
         /\ entry \in Seq(S) /\ Inked(entry)
         /\ Cat(split(entry, Colon), <<<<e>>>>, split(join(F, Colon), Colon))
<1> DEFINE w == <<e>>
           c == join(F, Colon)
           entry == join(z, Colon)
<1>1. w \in Seq(S) /\ <<w>> \in Segments(S) /\ w # <<>> /\ w[1] = e
  BY OneSegment
<1>2. join(<<w>>, Colon) = w
  <2> HIDE DEF w
  <2>1. QED
    BY <1>1, JoinOne
<1>3. c \in Seq(S) /\ c # <<>> /\ c[Len(c)] # Space
  BY JoinLast
<1>4. split(w, Colon) = <<w>>
  <2>1. w \in Seq({e}) /\ Colon \notin {e}
    OBVIOUS
  <2> HIDE DEF w
  <2>2. QED
    BY <2>1, SplitPlain
<1>5. Cat(z, <<w>>, F)
  OBVIOUS
<1> HIDE DEF w
<1>6. CatWith(entry, w, Colon, c)
  BY <1>1, <1>2, <1>5, JoinCat
<1> HIDE DEF c, entry
<1>7. Cat(split(entry, Colon), <<w>>, split(c, Colon))
  BY <1>1, <1>3, <1>4, <1>6, SplitCat
<1>8. entry \in Seq(S) /\ Inked(entry)
  <2> DEFINE d == Append(w, Colon)
  <2>1. d \in Seq(S) /\ d # <<>> /\ d[1] = e
    BY <1>1, AppendProperties
  <2>2. entry = d \o c
    BY <1>6 DEF CatWith
  <2> HIDE DEF d
  <2>3. QED
    BY <1>3, <2>1, <2>2, InkedConcat, ConcatProperties
<1>9. QED
  BY <1>7, <1>8 DEF w, c, entry

\* And read as the entry of that address.
LEMMA EntryRead ==
  ASSUME NEW S, Colon \in S, NEW e \in S \ {Colon, Space}, NEW F \in Segments(S),
         LET x == F[Len(F)] IN x # <<>> /\ x[Len(x)] # Space,
         NEW z, Cat(z, <<<<e>>>>, F)
  PROVE  \E parts : /\ Cat(parts, <<<<e>>>>, split(join(F, Colon), Colon))
                    /\ parseSingleCredential(join(z, Colon)) = handlePasswordEntry(<<e>>, parts)
<1> DEFINE entry == join(z, Colon)
           segs == split(join(F, Colon), Colon)
           parts == split(entry, Colon)
           E == <<<<e>>>>
<1>1. entry \in Seq(S) /\ Inked(entry) /\ Cat(parts, E, segs)
  BY EntryParts
<1>2. trim(entry) = entry /\ entry # Blank
  BY <1>1, InkedKept
<1>3. segs \in Seq(Seq(S)) /\ Len(segs) \in Nat \ {0}
  BY JoinTyped, SplitTyped, EmptySeq DEF Segments
<1>4. E \in Seq(Seq(S)) /\ Len(E) = 1 /\ E[1] = <<e>>
  BY OneSegment DEF Segments
<1> HIDE DEF segs, parts, E, entry
<1>5. Len(parts) >= 2 /\ parts[1] = <<e>>
  <2> DEFINE T == Seq(S)
  <2>1. E \in Seq(T) /\ segs \in Seq(T)
    BY <1>3, <1>4
  <2> HIDE DEF T
  <2>2. Len(parts) = Len(E) + Len(segs) /\ Ends(parts, E, segs)
    BY <1>1, <2>1, CatTyped
  <2>3. 1 \in 1 .. Len(E)
    BY <1>4
  <2>4. parts[1] = E[1]
    BY <2>2, <2>3 DEF Ends
  <2>5. QED
    BY <1>3, <1>4, <2>2, <2>4
<1>6. trim(<<e>>) = <<e>>
  BY WordInked
<1>7. parseSingleCredential(entry) = handlePasswordEntry(<<e>>, parts)
  BY <1>2, <1>5, <1>6 DEF parseSingleCredential, parts
<1>8. QED
  BY <1>1, <1>7 DEF entry, E, segs

\* The words of an entry, and those a field holds one of.
Written == STRING \cup {"localhost", "tls", "ssl", "starttls", "none"}
Words == (Written \cup {Colon}) \ {Comma}
Plain == Written \ {Colon, Comma, Space}
OneWord == {<<w>> : w \in Plain}

\* The words of the fields are none of the separators.
LEMMA SeparatorsApart == Colon # Comma /\ Colon # Space /\ Comma # Space
BY Zenon DEF Colon, Comma, Space

LEMMA LocalhostPlain == "localhost" \in Plain
<1>1. "localhost" # Colon /\ "localhost" # Comma /\ "localhost" # Space
  BY Zenon DEF Colon, Comma, Space
<1>2. QED
  BY <1>1 DEF Plain, Written

LEMMA SecuritiesPlain ==
  "tls" \in Plain /\ "ssl" \in Plain /\ "starttls" \in Plain /\ "none" \in Plain
<1>1. /\ "tls" # Colon /\ "tls" # Comma /\ "tls" # Space
      /\ "ssl" # Colon /\ "ssl" # Comma /\ "ssl" # Space
      /\ "starttls" # Colon /\ "starttls" # Comma /\ "starttls" # Space
      /\ "none" # Colon /\ "none" # Comma /\ "none" # Space
  BY Zenon DEF Colon, Comma, Space
<1>2. QED
  BY <1>1 DEF Plain, Written

LEMMA FieldsPlain ==
  /\ HostNames \subseteq OneWord /\ PortNames \subseteq OneWord /\ Securities \subseteq OneWord
  /\ <<"993">> \in PortNames
<1>1. HostNames \subseteq OneWord
  BY LocalhostPlain, WordsKnown DEF HostNames, OneWord, Plain, Written
<1>2. PortNames \subseteq OneWord /\ <<"993">> \in PortNames
  BY WordsKnown DEF PortNames, OneWord, Plain, Written
<1>3. Securities \subseteq OneWord
  BY SecuritiesPlain DEF Securities, OneWord
<1>4. QED
  BY <1>1, <1>2, <1>3

\* A field of one word is neither split nor trimmed.
LEMMA OneWordIs ==
  ASSUME NEW s \in OneWord
  PROVE  /\ s \in Seq(Words \ {Colon}) /\ s \in Seq(Words) /\ s # Blank /\ s # <<>>
         /\ trim(s) = s /\ s[Len(s)] # Space
         /\ \A i \in 1 .. Len(s) : s[i] \in Plain
<1>1. PICK w \in Plain : s = <<w>>
  BY DEF OneWord
<1>2. w \in Words /\ w \in Words \ {Colon} /\ w # Space
  BY DEF Words, Plain
<1>3. trim(s) = s
  BY <1>1, <1>2, WordInked
<1>4. QED
  BY <1>1, <1>2, <1>3 DEF Blank

LEMMA OneWordsTyped ==
  /\ OneWord \subseteq Seq(Words \ {Colon}) /\ OneWord \subseteq Seq(Words)
  /\ Seq(OneWord) \subseteq Seq(Seq(Words \ {Colon}))
  /\ Seq(OneWord) \subseteq Seq(Seq(Words))
<1>1. OneWord \subseteq Seq(Words \ {Colon}) /\ OneWord \subseteq Seq(Words)
  BY OneWordIs
<1> DEFINE U == Seq(Words \ {Colon})
           V == Seq(Words)
<1>2. OneWord \subseteq U /\ OneWord \subseteq V
  BY <1>1
<1> HIDE DEF U, V
<1>3. Seq(OneWord) \subseteq Seq(U) /\ Seq(OneWord) \subseteq Seq(V)
  BY <1>2, SeqMonotonic
<1>4. QED
  BY <1>1, <1>3 DEF U, V

LEMMA ColonIsWord == Colon \in Words
BY SeparatorsApart DEF Words

LEMMA PlainIsWord == Plain \subseteq Words \ {Colon, Space}
BY DEF Plain, Words

\* Beyond two segments, only those behind the address count.
LEMMA SameTail ==
  ASSUME NEW p, NEW q, Len(p) = Len(q), Len(p) # 2, Tail(p) = Tail(q)
  PROVE  parsePasswordAndHost(p) = parsePasswordAndHost(q)
BY DEF parsePasswordAndHost

LEMMA SameTailCat ==
  ASSUME NEW S, NEW b \in Seq(S), Len(b) = 1, NEW c \in Seq(S), Len(c) = 1, NEW v \in Seq(S),
         Len(v) # 1, NEW p, Cat(p, b, v)
  PROVE  parsePasswordAndHost(p) = parsePasswordAndHost(c \o v)
<1>1. Tail(b \o v) = v /\ Len(b \o v) = 1 + Len(v)
  BY AfterFirst
<1>2. Tail(c \o v) = v /\ Len(c \o v) = 1 + Len(v)
  BY AfterFirst
<1> DEFINE q == c \o v
           r == b \o v
<1>3. Tail(r) = Tail(q) /\ Len(r) = Len(q) /\ p = r
  BY <1>1, <1>2 DEF Cat
<1>4. Len(r) # 2
  BY <1>1, LenProperties
<1> HIDE DEF q, r
<1>5. parsePasswordAndHost(p) = parsePasswordAndHost(q)
  BY <1>3, <1>4, SameTail
<1>6. QED
  BY <1>5 DEF q

\* A password, and a login: the fields every entry starts with.
Passwords == Seq(Words) \ {<<>>}

LEMMA LastOfCat ==
  ASSUME NEW S, NEW a \in Seq(S), NEW b \in Seq(S), b # <<>>, NEW z, Cat(z, a, b)
  PROVE  z[Len(z)] = b[Len(b)] /\ Len(b) \in 1 .. Len(b)
<1>1. Len(a) \in Nat /\ Len(b) \in Nat \ {0}
  BY EmptySeq, LenProperties
<1>2. Len(z) = Len(a) + Len(b) /\ Ends(z, a, b)
  BY CatTyped
<1>3. QED
  BY <1>1, <1>2 DEF Ends

\* The fields behind an address: a password, and words.
LEMMA FieldsTyped ==
  ASSUME NEW pw \in Passwords, NEW T \in Seq(OneWord), T # <<>>, NEW F, Cat(F, <<pw>>, T)
  PROVE  /\ F \in Segments(Words)
         /\ LET x == F[Len(F)] IN x # <<>> /\ x[Len(x)] # Space
         /\ Cat(split(join(F, Colon), Colon), split(pw, Colon), T)
<1> DEFINE U == Seq(Words)
           P == <<pw>>
<1>1. T \in Seq(U) /\ T \in Seq(Seq(Words \ {Colon}))
  BY OneWordsTyped
<1>2. pw \in U /\ P \in Seq(U) /\ P # <<>> /\ Cat(F, P, T)
  BY DEF Passwords
<1>3. P \in Segments(Words)
  BY <1>2 DEF Segments
<1>4. join(P, Colon) = pw
  BY ColonIsWord, JoinOne DEF Passwords
<1> HIDE DEF U, P
<1>5. F \in Seq(U) /\ Len(F) = Len(P) + Len(T)
  BY <1>1, <1>2, CatTyped
<1>6. F # <<>>
  <2>1. Len(P) \in Nat /\ Len(T) \in Nat \ {0}
    BY <1>2, EmptySeq, LenProperties
  <2>2. QED
    BY <1>5, <2>1, EmptySeq
<1>7. F[Len(F)] = T[Len(T)] /\ Len(T) \in 1 .. Len(T)
  BY <1>1, <1>2, LastOfCat
<1>8. T[Len(T)] \in OneWord
  BY <1>7, ElementOfSeq
<1>9. Cat(split(join(F, Colon), Colon), split(join(P, Colon), Colon), T)
  BY <1>1, <1>2, <1>3, ColonIsWord, SplitJoinCat
<1>10. QED
  BY <1>4, <1>5, <1>6, <1>7, <1>8, <1>9, OneWordIs DEF Segments, U

\* The entry of a password and the servers behind it.
LEMMA ServersRead ==
  ASSUME NEW e \in Plain, NEW pw \in Passwords, NEW T \in Seq(OneWord), T # <<>>,
         NEW F, Cat(F, <<pw>>, T), NEW z, Cat(z, <<<<e>>>>, F)
  PROVE  /\ join(z, Colon) \in Seq(Words) /\ Inked(join(z, Colon))
         /\ \E parts :
              /\ parsePasswordAndHost(parts) =
                   parsePasswordAndHost(<<Blank>> \o split(pw, Colon) \o T)
              /\ parseSingleCredential(join(z, Colon)) = handlePasswordEntry(<<e>>, parts)
<1> DEFINE segs == split(join(F, Colon), Colon)
           A == split(pw, Colon)
           U == Seq(Words)
           E == <<<<e>>>>
           B == <<Blank>>
<1>1. e \in Words \ {Colon, Space} /\ Colon \in Words
  BY PlainIsWord, ColonIsWord
<1>2. F \in Segments(Words) /\ (LET x == F[Len(F)] IN x # <<>> /\ x[Len(x)] # Space)
      /\ Cat(segs, A, T)
  BY FieldsTyped
<1>3. join(z, Colon) \in Seq(Words) /\ Inked(join(z, Colon))
  BY <1>1, <1>2, EntryParts
<1>4. PICK parts : /\ Cat(parts, E, segs)
                   /\ parseSingleCredential(join(z, Colon)) = handlePasswordEntry(<<e>>, parts)
  BY <1>1, <1>2, EntryRead
<1>5. A \in Seq(U) /\ T \in Seq(U) /\ A # <<>>
  <2>1. A \in Segments(Words)
    BY SplitTyped DEF Passwords
  <2>2. QED
    BY <2>1, OneWordsTyped DEF Segments
<1>6. E \in Seq(U) /\ Len(E) = 1
  BY <1>1, OneSegment DEF Segments
<1>7. B \in Seq(U) /\ Len(B) = 1
  BY EmptySeq DEF Blank
<1> HIDE DEF segs, A, U, E, B
<1>8. segs \in Seq(U) /\ Len(segs) = Len(A) + Len(T)
  BY <1>2, <1>5, CatTyped
<1>9. Len(A) \in Nat \ {0} /\ Len(T) \in Nat \ {0}
  BY <1>5, EmptySeq
<1>10. Len(segs) # 1
  BY <1>8, <1>9
<1>11. parsePasswordAndHost(parts) = parsePasswordAndHost(B \o segs)
  BY <1>4, <1>6, <1>7, <1>8, <1>10, SameTailCat
<1>12. B \o segs = B \o A \o T
  <2>1. segs = A \o T
    BY <1>2 DEF Cat
  <2>2. (B \o A) \o T = B \o (A \o T)
    BY <1>5, <1>7, ConcatAssociative
  <2>3. QED
    BY <2>1, <2>2
<1>13. parsePasswordAndHost(parts) = parsePasswordAndHost(B \o A \o T)
  BY <1>11, <1>12
<1>14. QED
  BY <1>3, <1>4, <1>13 DEF A, B

\* The entry of a login alone.
LEMMA LoginRead ==
  ASSUME NEW e \in Plain, NEW pw \in Passwords, pw \in Seq(Words \ {Colon}),
         pw[Len(pw)] # Space, NEW z, Cat(z, <<<<e>>>>, <<pw>>)
  PROVE  /\ join(z, Colon) \in Seq(Words) /\ Inked(join(z, Colon))
         /\ \E parts :
              /\ parsePasswordAndHost(parts) =
                   Read(<<pw>>, Blank, Undefined, Blank, Undefined, Blank)
              /\ parseSingleCredential(join(z, Colon)) = handlePasswordEntry(<<e>>, parts)
<1> DEFINE F == <<pw>>
           U == Seq(Words)
           E == <<<<e>>>>
<1>1. e \in Words \ {Colon, Space} /\ Colon \in Words
  BY PlainIsWord, ColonIsWord
<1>2. pw \in U /\ F \in Seq(U) /\ F # <<>> /\ F[Len(F)] = pw /\ Len(F) = 1 /\ F[1] = pw
  BY DEF Passwords
<1>3. F \in Segments(Words) /\ pw # <<>>
  BY <1>2 DEF Segments, Passwords
<1>4. join(F, Colon) = pw
  BY <1>1, JoinOne DEF Passwords
<1>5. split(pw, Colon) = F
  <2>1. Colon \notin Words \ {Colon}
    OBVIOUS
  <2>2. QED
    BY <2>1, SplitPlain
<1>6. Cat(z, E, F)
  OBVIOUS
<1>7. E \in Seq(U) /\ Len(E) = 1
  BY <1>1, OneSegment DEF Segments
<1> HIDE DEF F, U
<1>8. join(z, Colon) \in Seq(Words) /\ Inked(join(z, Colon))
  BY <1>1, <1>2, <1>3, <1>6, EntryParts DEF E
<1>9. PICK parts : /\ Cat(parts, E, F)
                   /\ parseSingleCredential(join(z, Colon)) = handlePasswordEntry(<<e>>, parts)
  <2>1. PICK parts : /\ Cat(parts, E, split(join(F, Colon), Colon))
                     /\ parseSingleCredential(join(z, Colon)) = handlePasswordEntry(<<e>>, parts)
    BY <1>1, <1>2, <1>3, <1>6, EntryRead DEF E
  <2>2. QED
    BY <1>4, <1>5, <2>1
<1> HIDE DEF E
<1>10. Len(parts) = 2 /\ parts[2] = pw
  <2>0. E \in Seq(U) /\ F \in Seq(U) /\ Cat(parts, E, F)
    BY <1>2, <1>7, <1>9
  <2>1. Len(parts) = Len(E) + Len(F) /\ Ends(parts, E, F)
    BY <2>0, CatTyped
  <2>2. 1 \in 1 .. Len(F)
    BY <1>2
  <2>3. parts[Len(E) + 1] = F[1]
    BY <2>1, <2>2 DEF Ends
  <2>4. QED
    BY <1>2, <1>7, <2>1, <2>3
<1>11. parsePasswordAndHost(parts) = Read(F, Blank, Undefined, Blank, Undefined, Blank)
  BY <1>10 DEF parsePasswordAndHost, Read, F
<1>12. QED
  BY <1>8, <1>9, <1>11 DEF F

-----------------------------------------------------------------------------
(* Writing a card. *)

\* A sequence is known by its two ends.
LEMMA EndsAre ==
  ASSUME NEW S, NEW a \in Seq(S), NEW b \in Seq(S), NEW z \in Seq(S), Ends(z, a, b)
  PROVE  a \o b = z
<1> DEFINE y == a \o b
<1>1. y \in Seq(S) /\ Ends(y, a, b)
  BY EndIs
<1>2. Len(a) \in Nat /\ Len(b) \in Nat
  BY LenProperties
<1> HIDE DEF y
<1>3. Len(z) = Len(y)
  BY <1>1 DEF Ends
<1>4. ASSUME NEW i \in 1 .. Len(z) PROVE z[i] = y[i]
  <2>1. CASE i <= Len(a)
    BY <1>1, <1>2, <2>1 DEF Ends
  <2>2. CASE i > Len(a)
    <3> DEFINE j == i - Len(a)
    <3>1. j \in 1 .. Len(b) /\ i = Len(a) + j
      BY <1>2, <2>2 DEF Ends
    <3> HIDE DEF j
    <3>2. z[Len(a) + j] = b[j] /\ y[Len(a) + j] = b[j]
      BY <1>1, <3>1 DEF Ends
    <3>3. QED
      BY <3>1, <3>2
  <2>3. QED
    BY <1>2, <2>1, <2>2
<1>5. z = y
  BY <1>1, <1>3, <1>4, SeqEqual
<1>6. QED
  BY <1>5 DEF y

\* Lists of fields put together.
LEMMA Pair ==
  ASSUME NEW S, NEW a \in S, NEW b \in S
  PROVE  <<a>> \o <<b>> = <<a, b>>
<1> DEFINE s == <<a>>
           t == <<b>>
           z == <<a, b>>
<1>1. s \in Seq(S) /\ t \in Seq(S) /\ z \in Seq(S)
  OBVIOUS
<1>2. Ends(z, s, t)
  BY DEF Ends
<1> HIDE DEF s, t, z
<1>3. s \o t = z
  BY <1>1, <1>2, EndsAre
<1>4. QED
  BY <1>3 DEF s, t, z

LEMMA Triple ==
  ASSUME NEW S, NEW a \in S, NEW b \in S, NEW c \in S
  PROVE  <<a, b>> \o <<c>> = <<a, b, c>>
<1> DEFINE s == <<a, b>>
           t == <<c>>
           z == <<a, b, c>>
<1>1. s \in Seq(S) /\ t \in Seq(S) /\ z \in Seq(S)
  OBVIOUS
<1>2. Ends(z, s, t)
  BY DEF Ends
<1> HIDE DEF s, t, z
<1>3. s \o t = z
  BY <1>1, <1>2, EndsAre
<1>4. QED
  BY <1>3 DEF s, t, z

LEMMA Four ==
  ASSUME NEW S, NEW a \in S, NEW b \in S, NEW c \in S, NEW d \in S
  PROVE  <<a, b, c>> \o <<d>> = <<a, b, c, d>>
<1> DEFINE s == <<a, b, c>>
           t == <<d>>
           z == <<a, b, c, d>>
<1>1. s \in Seq(S) /\ t \in Seq(S) /\ z \in Seq(S)
  OBVIOUS
<1>2. Ends(z, s, t)
  BY DEF Ends
<1> HIDE DEF s, t, z
<1>3. s \o t = z
  BY <1>1, <1>2, EndsAre
<1>4. QED
  BY <1>3 DEF s, t, z

LEMMA Five ==
  ASSUME NEW S, NEW a \in S, NEW b \in S, NEW c \in S, NEW d \in S, NEW e \in S
  PROVE  <<a, b, c, d>> \o <<e>> = <<a, b, c, d, e>>
<1> DEFINE s == <<a, b, c, d>>
           t == <<e>>
           z == <<a, b, c, d, e>>
<1>1. s \in Seq(S) /\ t \in Seq(S) /\ z \in Seq(S)
  OBVIOUS
<1>2. Ends(z, s, t)
  BY DEF Ends
<1> HIDE DEF s, t, z
<1>3. s \o t = z
  BY <1>1, <1>2, EndsAre
<1>4. QED
  BY <1>3 DEF s, t, z

Grouped(a, b, c, d) == (a \o b) \o c \o d = a \o (b \o (c \o d))
GroupedMore(a, b, c, d, e) == (a \o b) \o c \o d \o e = a \o (b \o (c \o d \o e))

\* A list of fields is the same however it is grouped.
LEMMA Regroup ==
  ASSUME NEW S, NEW a \in Seq(S), NEW b \in Seq(S), NEW c \in Seq(S), NEW d \in Seq(S)
  PROVE  Grouped(a, b, c, d)
<1> DEFINE m == c \o d
           l == a \o b
<1>1. m \in Seq(S) /\ l \in Seq(S)
  BY ConcatProperties
<1>2. l \o c \o d = l \o m
  <2> HIDE DEF l
  <2>1. QED
    BY <1>1, ConcatAssociative
<1>3. (a \o b) \o m = a \o (b \o m)
  <2> HIDE DEF m
  <2>1. QED
    BY <1>1, ConcatAssociative
<1>4. QED
  BY <1>2, <1>3 DEF Grouped

LEMMA RegroupMore ==
  ASSUME NEW S, NEW a \in Seq(S), NEW b \in Seq(S), NEW c \in Seq(S), NEW d \in Seq(S),
         NEW e \in Seq(S)
  PROVE  GroupedMore(a, b, c, d, e)
<1> DEFINE f == c \o d
           l == a \o b
<1>1. f \in Seq(S) /\ l \in Seq(S)
  BY ConcatProperties
<1>2. (l \o c) \o d = l \o f
  <2> HIDE DEF l
  <2>1. QED
    BY <1>1, ConcatAssociative
<1>3. (a \o b) \o f \o e = a \o (b \o (f \o e))
  <2> HIDE DEF f
  <2>1. Grouped(a, b, f, e)
    BY <1>1, Regroup
  <2>2. QED
    BY <2>1 DEF Grouped
<1>4. QED
  BY <1>2, <1>3 DEF GroupedMore

(***************************************************************************)
(* How a card is written.                                                  *)
(***************************************************************************)
some(seg) == IF seg = Blank THEN <<>> ELSE <<seg>>

Fields(email, pw, h, q, g, r, s) ==
  LET login == <<email, pw>>
      full == login \o <<h, portOr993(q), g>> \o some(r) \o some(s)
      short == login \o some(h) \o IF Contains(h, Colon) THEN <<>> ELSE some(q)
  IN IF h = Blank THEN login ELSE IF g # Blank THEN full ELSE short

LEMMA Encodes ==
  ASSUME NEW card, trim(card.email) = card.email, trim(card.imap_host) = card.imap_host,
         trim(card.imap_port) = card.imap_port, trim(card.smtp_host) = card.smtp_host,
         trim(card.smtp_port) = card.smtp_port,
         toLowerCase(trim(card.smtp_security)) = card.smtp_security,
         card.email # Blank, ~isOutlookDomain(card.email), card.password # Blank
  PROVE  encodeCard(card) =
           <<join(Fields(card.email, card.password, card.imap_host, card.imap_port,
                         card.smtp_host, card.smtp_port, card.smtp_security), Colon)>>
BY DEF encodeCard, Fields, some

\* The segments behind the password.
Servers(h, q, g, r, s) ==
  IF g # Blank THEN <<h, portOr993(q), g>> \o some(r) \o some(s)
  ELSE <<h>> \o IF Contains(h, Colon) THEN <<>> ELSE some(q)

FieldsGrouped(email, pw, h, q, g, r, s) ==
  Fields(email, pw, h, q, g, r, s) = <<email>> \o (<<pw>> \o Servers(h, q, g, r, s))

\* A card with a host is written as its address, its password and its servers.
LEMMA FieldsAre ==
  ASSUME NEW S, NEW email \in S, NEW pw \in S, NEW h \in S, h # Blank, NEW q \in S,
         NEW g \in S, NEW r \in S, NEW s \in S, portOr993(q) \in S
  PROVE  FieldsGrouped(email, pw, h, q, g, r, s)
<1> DEFINE A == <<email>>
           B == <<pw>>
           M == <<h, portOr993(q), g>>
           R == some(r)
           C == some(s)
           H == <<h>>
           Q == IF Contains(h, Colon) THEN <<>> ELSE some(q)
<1>0. A \o B = <<email, pw>>
  BY Pair
<1>1. /\ A \in Seq(S) /\ B \in Seq(S) /\ M \in Seq(S) /\ H \in Seq(S)
      /\ R \in Seq(S) /\ C \in Seq(S) /\ Q \in Seq(S)
  BY EmptySeq DEF some
<1>3. some(h) = H
  BY DEF some
<1>4. g # Blank => Fields(email, pw, h, q, g, r, s) = <<email, pw>> \o M \o R \o C
                   /\ Servers(h, q, g, r, s) = M \o R \o C
  BY DEF Fields, Servers
<1>5. g = Blank => Fields(email, pw, h, q, g, r, s) = <<email, pw>> \o H \o Q
                   /\ Servers(h, q, g, r, s) = H \o Q
  BY <1>3 DEF Fields, Servers
<1> HIDE DEF A, B, M, R, C, H, Q
<1>6. GroupedMore(A, B, M, R, C)
  BY <1>1, RegroupMore
<1>7. Grouped(A, B, H, Q)
  BY <1>1, Regroup
<1>8. QED
  BY <1>0, <1>4, <1>5, <1>6, <1>7 DEF A, B, Grouped, GroupedMore, FieldsGrouped

LEMMA AddressPlain == DOMAIN Id \subseteq Plain
BY WordsKnown DEF Plain, Written

LEMMA ServerWords == \A w \in {"localhost"} \cup Dotted \cup DOMAIN Number : w \in Plain
BY WordsKnown, LocalhostPlain DEF Plain, Written

\* A host and its port in one field.
LEMMA HostPortIs ==
  ASSUME NEW t \in HostPorts
  PROVE  \E h \in HostNames, q \in PortNames :
           /\ CatWith(t, h, Colon, q) /\ trim(t) = t /\ t # Blank /\ t \in Seq(Words)
           /\ t # <<>> /\ Contains(t, Colon) /\ t[Len(t)] # Space
<1>1. PICK h \in HostNames, q \in PortNames : t = <<h[1], Colon, q[1]>>
  BY DEF HostPorts
<1>2. PICK v \in Plain, w \in Plain : h = <<v>> /\ q = <<w>>
  BY FieldsPlain DEF OneWord
<1>3. t = <<v, Colon, w>>
  BY <1>1, <1>2
<1>4. v \in Words /\ w \in Words /\ Colon \in Words /\ v # Space /\ w # Space
  BY PlainIsWord, ColonIsWord
<1>5. t \in Seq(Words) /\ t # <<>> /\ t # Blank /\ t[1] # Space /\ t[Len(t)] # Space
      /\ Contains(t, Colon)
  BY <1>3, <1>4 DEF Blank, Contains
<1>6. trim(t) = t
  BY <1>5, TrimKeeps
<1>7. CatWith(t, h, Colon, q)
  <2>1. <<v, Colon>> \o <<w>> = <<v, Colon, w>>
    BY <1>4, Triple
  <2>2. Append(h, Colon) = <<v, Colon>>
    <3>1. h \in Seq(Words)
      BY <1>2, <1>4
    <3>2. Append(h, Colon) = h \o <<Colon>>
      BY <1>4, <3>1, AppendIsConcat
    <3>3. <<v>> \o <<Colon>> = <<v, Colon>>
      BY <1>4, Pair
    <3>4. QED
      BY <1>2, <3>2, <3>3
  <2>3. QED
    BY <1>2, <1>3, <2>1, <2>2 DEF CatWith
<1>8. QED
  BY <1>5, <1>6, <1>7

\* A field that was left empty.
LEMMA BlankFields == trim(Blank) = Blank /\ toLowerCase(Blank) = Blank /\ Blank \in Seq(Words)
<1>1. DOMAIN Blank = {} /\ Blank = <<>>
  BY DEF Blank
<1>2. toLowerCase(Blank) = <<>>
  BY <1>1 DEF toLowerCase
<1>3. QED
  BY <1>1, <1>2, TrimBlank, EmptySeq

\* The fields of a card are read as they were typed, and a card is written from them.
LEMMA CardFields ==
  ASSUME NEW card \in Typable
  PROVE  /\ \E e \in DOMAIN Id : card.email = <<e>> /\ trim(card.email) = <<e>>
         /\ card.imap_host \in {Blank} \cup HostNames \cup HostPorts
         /\ card.imap_port \in {Blank} \cup PortNames
         /\ card.smtp_host \in {Blank} \cup HostNames
         /\ card.smtp_port \in {Blank} \cup PortNames
         /\ card.smtp_security \in {Blank} \cup Securities
         /\ card.password \in Seq(STRING)
BY AddressPlain, WordInked DEF Typable, Plain

LEMMA TypedFields ==
  ASSUME NEW card \in Typable
  PROVE  /\ trim(card.imap_host) = card.imap_host /\ trim(card.imap_port) = card.imap_port
         /\ trim(card.smtp_host) = card.smtp_host /\ trim(card.smtp_port) = card.smtp_port
         /\ toLowerCase(trim(card.smtp_security)) = card.smtp_security
         /\ card.imap_host \in Seq(Words) /\ card.imap_port \in Seq(Words)
         /\ card.smtp_host \in Seq(Words) /\ card.smtp_port \in Seq(Words)
         /\ card.smtp_security \in Seq(Words) /\ portOr993(card.imap_port) \in Seq(Words)
<1>1. \A f \in {Blank} \cup HostNames \cup HostPorts \cup PortNames \cup Securities :
        trim(f) = f /\ f \in Seq(Words)
  BY FieldsPlain, OneWordIs, HostPortIs, BlankFields
<1>2. \A f \in {Blank} \cup Securities : toLowerCase(f) = f
  BY WordsApart, BlankFields
<1>3. portOr993(card.imap_port) \in {Blank} \cup PortNames
  BY CardFields, FieldsPlain DEF portOr993
<1>4. QED
  BY <1>1, <1>2, <1>3, CardFields

\* So a card with a host is written as its address, its password and its servers.
LEMMA CardWritten ==
  ASSUME NEW card \in Typable, ~isOutlookDomain(card.email),
         card.password \in Passwords, card.imap_host # Blank
  PROVE  LET T == Servers(card.imap_host, card.imap_port, card.smtp_host, card.smtp_port,
                          card.smtp_security)
         IN encodeCard(card) = <<join(<<card.email>> \o (<<card.password>> \o T), Colon)>>
<1> DEFINE U == Seq(Words)
<1>1. PICK e \in DOMAIN Id : card.email = <<e>> /\ trim(card.email) = <<e>>
  BY CardFields
<1>2. card.email # Blank /\ card.email \in U
  <2>1. e \in Words
    BY AddressPlain, PlainIsWord
  <2>2. QED
    BY <1>1, <2>1 DEF Blank
<1>3. card.password # Blank /\ card.password \in U
  BY DEF Passwords, Blank
<1>4. encodeCard(card) =
        <<join(Fields(card.email, card.password, card.imap_host, card.imap_port,
                      card.smtp_host, card.smtp_port, card.smtp_security), Colon)>>
  BY <1>1, <1>2, <1>3, TypedFields, Encodes
<1>5. card.imap_host \in U /\ card.imap_port \in U /\ card.smtp_host \in U
      /\ card.smtp_port \in U /\ card.smtp_security \in U /\ portOr993(card.imap_port) \in U
  BY TypedFields
<1> HIDE DEF U
<1>6. FieldsGrouped(card.email, card.password, card.imap_host, card.imap_port,
                    card.smtp_host, card.smtp_port, card.smtp_security)
  BY <1>2, <1>3, <1>5, FieldsAre
<1>7. QED
  BY <1>4, <1>6 DEF FieldsGrouped

-----------------------------------------------------------------------------
(* Every card is read as it was typed. *)

LEMMA PortOf ==
  ASSUME NEW q, NEW n, NEW v, Len(q) = 1, q[1] \in DOMAIN Number, isPortSegment(q),
         Number[q[1]] = n
  PROVE  default(parsePort(q), v) = typedPort(q, v)
<1> DEFINE range == 1 .. 65535
<1>1. Undefined \notin range
  BY SMT DEF Undefined
<1>2. parsePort(q) = IF n \in range THEN n ELSE Undefined
  BY SMT DEF parsePort
<1>3. typedPort(q, v) = IF n \in range THEN n ELSE v
  BY SMT DEF typedPort, hasPort
<1> HIDE DEF range
<1>4. QED
  BY <1>1, <1>2, <1>3, Zenon DEF default

LEMMA PortTyped ==
  ASSUME NEW q \in PortNames, NEW v
  PROVE  default(parsePort(q), v) = typedPort(q, v)
<1>1. PICK w \in DOMAIN Number : q = <<w>>
  BY DEF PortNames
<1>2. Len(q) = 1 /\ q[1] \in DOMAIN Number /\ isPortSegment(q)
  BY <1>1, Ports
<1>3. QED
  BY <1>2, PortOf

LEMMA NoPortTyped == \A v : typedPort(Blank, v) = v /\ default(Undefined, v) = v
<1>1. Len(Blank) = 0
  BY DEF Blank
<1>2. QED
  BY <1>1 DEF typedPort, hasPort, default

\* The port of IMAP is written even if it was left empty.
LEMMA ImapPortTyped ==
  ASSUME NEW q \in {Blank} \cup PortNames
  PROVE  portOr993(q) \in PortNames /\ default(parsePort(portOr993(q)), 993) = typedPort(q, 993)
<1>1. CASE q = Blank
  <2>1. portOr993(q) = <<"993">> /\ <<"993">> \in PortNames
    BY <1>1, FieldsPlain DEF portOr993
  <2>2. typedPort(<<"993">>, 993) = 993
    BY WordsKnown DEF typedPort, hasPort
  <2>3. QED
    BY <1>1, <2>1, <2>2, PortTyped, NoPortTyped
<1>2. CASE q # Blank
  BY <1>2, PortTyped DEF portOr993
<1>3. QED
  BY <1>1, <1>2

\* The account of an entry, from what its password and its servers are read as.
ImapOf(h, port) == [host |-> h, port |-> port, secure |-> port = 993]
SmtpOf(h, g, r, s) ==
  IF g # Blank THEN buildSmtpConfig([host |-> g, port |-> r, security |-> s]) ELSE guessSmtp(h)

LEMMA AccountIs ==
  ASSUME NEW e \in DOMAIN Id, NEW pw \in Passwords, NEW parts, NEW h, h # Blank,
         NEW p, NEW g, NEW r, NEW s,
         parsePasswordAndHost(parts) = Read(split(pw, Colon), h, p, g, r, s)
  PROVE  handlePasswordEntry(<<e>>, parts) =
           <<[id |-> Id[e], email |-> <<e>>, password |-> pw, auth |-> "password",
              imap |-> ImapOf(h, default(p, 993)), smtp |-> SmtpOf(h, g, r, s)]>>
<1> DEFINE read == parsePasswordAndHost(parts)
<1>1. /\ read.password = split(pw, Colon)
      /\ read.imap.host = h /\ read.imap.port = p
      /\ read.smtp = [host |-> g, port |-> r, security |-> s] /\ read.smtp.host = g
  BY DEF Read
<1>2. join(split(pw, Colon), Colon) = pw
  BY ColonIsWord, JoinSplit DEF Passwords
<1>3. emailToId(<<e>>) = Id[e]
  BY DEF emailToId, isAddress
<1> HIDE DEF read
<1>4. resolvesServers(<<e>>, read)
  BY <1>1 DEF resolvesServers
<1>5. /\ resolveServerConfig(<<e>>, read).imap = ImapOf(h, default(p, 993))
      /\ resolveServerConfig(<<e>>, read).smtp = SmtpOf(h, g, r, s)
  BY <1>1 DEF resolveServerConfig, ImapOf, SmtpOf
<1>6. QED
  BY <1>1, <1>2, <1>3, <1>4, <1>5 DEF handlePasswordEntry, read

(***************************************************************************)
(* A card is read as typed: its entry, which holds no comma, is read as one*)
(* account, that keeps the card and has the identity of its address.       *)
(***************************************************************************)
KeptAs(account, card) == Keeps(account, card) /\ account.id = emailToId(card.email)

EntryKeeps(entry, card) ==
  /\ entry \in Seq(Words) /\ Inked(entry)
  /\ \E account : parseSingleCredential(entry) = <<account>> /\ KeptAs(account, card)

EncodedAsTyped(card) == \E entry : encodeCard(card) = <<entry>> /\ EntryKeeps(entry, card)

\* A card is kept when its servers are read as they were typed.
LEMMA CardRead ==
  ASSUME NEW card \in Typable, ~isOutlookDomain(card.email),
         card.password \in Passwords, card.imap_host # Blank,
         NEW T \in Seq(OneWord), T # <<>>,
         encodeCard(card) = <<join(<<card.email>> \o (<<card.password>> \o T), Colon)>>,
         NEW h \in HostNames, NEW p, NEW g, NEW r, NEW s,
         parsePasswordAndHost(<<Blank>> \o split(card.password, Colon) \o T) =
           Read(split(card.password, Colon), h, p, g, r, s),
         typedImap(card) = ImapOf(h, default(p, 993)),
         typedSmtp(card) = SmtpOf(h, g, r, s)
  PROVE  EncodedAsTyped(card)
<1> DEFINE pw == card.password
           F == <<pw>> \o T
           z == <<card.email>> \o F
           entry == join(z, Colon)
<1>1. PICK e \in DOMAIN Id : card.email = <<e>>
  BY CardFields
<1>2. Cat(F, <<pw>>, T) /\ Cat(z, <<<<e>>>>, F) /\ e \in Plain
  BY <1>1, AddressPlain DEF Cat
<1>3. encodeCard(card) = <<entry>>
  OBVIOUS
<1> HIDE DEF F, z
<1>4. /\ entry \in Seq(Words) /\ Inked(entry)
      /\ \E parts :
           /\ parsePasswordAndHost(parts) =
                parsePasswordAndHost(<<Blank>> \o split(pw, Colon) \o T)
           /\ parseSingleCredential(entry) = handlePasswordEntry(<<e>>, parts)
  BY <1>2, ServersRead
<1> HIDE DEF entry
<1>5. PICK parts :
        /\ parsePasswordAndHost(parts) =
             parsePasswordAndHost(<<Blank>> \o split(pw, Colon) \o T)
        /\ parseSingleCredential(entry) = handlePasswordEntry(<<e>>, parts)
  BY <1>4
<1>6. parsePasswordAndHost(parts) = Read(split(pw, Colon), h, p, g, r, s)
  BY <1>5
<1> DEFINE a == [id |-> Id[e], email |-> <<e>>, password |-> pw, auth |-> "password",
                 imap |-> ImapOf(h, default(p, 993)), smtp |-> SmtpOf(h, g, r, s)]
<1>7. parseSingleCredential(entry) = <<a>>
  <2>1. h # Blank
    BY Hosts
  <2>2. QED
    BY <1>5, <1>6, <2>1, AccountIs
<1>8. KeptAs(a, card)
  <2>1. emailToId(card.email) = Id[e]
    BY <1>1 DEF emailToId, isAddress
  <2>2. QED
    BY <1>1, <2>1 DEF KeptAs, Keeps
<1> HIDE DEF a
<1>9. QED
  BY <1>3, <1>4, <1>7, <1>8 DEF EntryKeeps, EncodedAsTyped

LEMMA SeqWithout ==
  ASSUME NEW S, NEW t \in Seq(S), NEW T, \A i \in 1 .. Len(t) : t[i] \in T
  PROVE  t \in Seq(T)
OBVIOUS

\* The password of a card the string can carry holds no comma.
LEMMA PasswordTyped ==
  ASSUME NEW pw \in Seq(STRING), pw # Blank, ~Contains(pw, Comma)
  PROVE  pw \in Passwords /\ (~Contains(pw, Colon) => pw \in Seq(Words \ {Colon}))
<1>1. \A i \in 1 .. Len(pw) : pw[i] \in STRING /\ pw[i] # Comma
  BY ElementOfSeq DEF Contains
<1>2. \A i \in 1 .. Len(pw) : pw[i] \in Words
  BY <1>1 DEF Words, Written
<1>3. pw \in Seq(Words)
  BY <1>2, SeqWithout
<1>4. ASSUME ~Contains(pw, Colon) PROVE pw \in Seq(Words \ {Colon})
  <2>1. \A i \in 1 .. Len(pw) : pw[i] \in Words \ {Colon}
    BY <1>2, <1>4 DEF Contains
  <2>2. QED
    BY <2>1, SeqWithout
<1>5. QED
  BY <1>3, <1>4 DEF Passwords, Blank

\* The host is told from the host with its port.
LEMMA HostPlain ==
  ASSUME NEW h \in HostNames
  PROVE  ~Contains(h, Colon) /\ split(h, Colon)[1] = h /\ h # Blank
<1>1. h \in OneWord /\ h \in Seq(Words \ {Colon})
  BY FieldsPlain, OneWordIs
<1>2. \A i \in 1 .. Len(h) : h[i] # Colon
  BY <1>1, OneWordIs DEF Plain
<1>3. split(h, Colon) = <<h>>
  <2>1. Colon \notin Words \ {Colon}
    OBVIOUS
  <2>2. QED
    BY <1>1, <2>1, SplitPlain
<1>4. QED
  BY <1>2, <1>3, Hosts DEF Contains

\* A host with its port is split into the two.
LEMMA HostPortParts ==
  ASSUME NEW h \in HostNames, NEW q \in PortNames, NEW t, CatWith(t, h, Colon, q)
  PROVE  split(t, Colon)[1] = h /\ split(t, Colon)[2] = q
<1> DEFINE H == <<h>>
           Q == <<q>>
           U == Seq(Words)
<1>1. h \in OneWord /\ q \in OneWord
  BY FieldsPlain
<1>2. h \in Seq(Words \ {Colon}) /\ h \in U /\ q \in Seq(Words \ {Colon}) /\ q \in U
  BY <1>1, OneWordIs
<1>3. split(h, Colon) = H /\ split(q, Colon) = Q
  <2>1. Colon \notin Words \ {Colon}
    OBVIOUS
  <2>2. QED
    BY <1>2, <2>1, SplitPlain
<1>4. H \in Seq(U) /\ Q \in Seq(U) /\ Len(H) = 1 /\ Len(Q) = 1 /\ H[1] = h /\ Q[1] = q
  BY <1>2
<1>5. Cat(split(t, Colon), split(h, Colon), split(q, Colon))
  BY <1>2, ColonIsWord, SplitCat
<1> HIDE DEF H, Q, U
<1>6. Cat(split(t, Colon), H, Q)
  BY <1>3, <1>5
<1>7. Ends(split(t, Colon), H, Q)
  BY <1>4, <1>6, CatTyped
<1>8. 1 \in 1 .. Len(H) /\ 1 \in 1 .. Len(Q) /\ Len(H) + 1 = 2
  BY <1>4
<1>9. split(t, Colon)[1] = H[1] /\ split(t, Colon)[Len(H) + 1] = Q[1]
  BY <1>7, <1>8 DEF Ends
<1>10. QED
  BY <1>4, <1>8, <1>9

\* Written in one field or in two, they are the same entry.
LEMMA SameBehind ==
  ASSUME NEW S, NEW sep \in S, NEW a \in Segments(S), NEW b \in Segments(S),
         NEW c \in Segments(S), join(b, sep) = join(c, sep), NEW y, NEW z,
         Cat(y, a, b), Cat(z, a, c)
  PROVE  join(y, sep) = join(z, sep)
<1>1. CatWith(join(y, sep), join(a, sep), sep, join(b, sep))
  BY JoinCat
<1>2. CatWith(join(z, sep), join(a, sep), sep, join(c, sep))
  BY JoinCat
<1>3. QED
  BY <1>1, <1>2 DEF CatWith

LEMMA SegmentsCat ==
  ASSUME NEW S, NEW a \in Segments(S), NEW b \in Segments(S), NEW z, Cat(z, a, b)
  PROVE  z \in Segments(S)
<1> DEFINE T == Seq(S)
<1>1. a \in Seq(T) /\ b \in Seq(T) /\ a # <<>>
  BY DEF Segments
<1> HIDE DEF T
<1>2. z \in Seq(T) /\ Len(z) = Len(a) + Len(b)
  BY <1>1, CatTyped
<1>3. Len(a) \in Nat \ {0} /\ Len(b) \in Nat
  BY <1>1, EmptySeq, LenProperties
<1>4. z # <<>>
  BY <1>2, <1>3, EmptySeq
<1>5. QED
  BY <1>2, <1>4 DEF Segments, T

LEMMA OneSegments ==
  ASSUME NEW S, NEW s \in Seq(S)
  PROVE  <<s>> \in Segments(S)
<1> DEFINE T == Seq(S)
<1>1. s \in T
  OBVIOUS
<1> HIDE DEF T
<1>2. <<s>> \in Seq(T) /\ <<s>> # <<>>
  BY <1>1
<1>3. QED
  BY <1>2 DEF Segments, T

\* A host with its port is written like the host and the port.
LEMMA HostPortWritten ==
  ASSUME NEW email \in Seq(Words), NEW pw \in Seq(Words), NEW h \in HostNames,
         NEW q \in PortNames, NEW t \in Seq(Words), CatWith(t, h, Colon, q)
  PROVE  join(<<email>> \o (<<pw>> \o <<t>>), Colon) =
           join(<<email>> \o (<<pw>> \o <<h, q>>), Colon)
<1> DEFINE A == <<email>>
           B == <<pw>>
           C == <<t>>
           H == <<h>>
           Q == <<q>>
           D == <<h, q>>
           X == B \o C
           Y == B \o D
<1>1. h \in Seq(Words) /\ q \in Seq(Words)
  BY FieldsPlain, OneWordIs
<1>2. A \in Segments(Words) /\ B \in Segments(Words) /\ C \in Segments(Words)
      /\ H \in Segments(Words) /\ Q \in Segments(Words)
  BY <1>1, OneSegments
<1>3. join(C, Colon) = t /\ join(H, Colon) = h /\ join(Q, Colon) = q
  BY <1>1, ColonIsWord, JoinOne
<1>4. Cat(D, H, Q)
  <2> DEFINE U == Seq(Words)
  <2>1. h \in U /\ q \in U
    BY <1>1
  <2> HIDE DEF U
  <2>2. <<h>> \o <<q>> = <<h, q>>
    BY <2>1, Pair
  <2>3. QED
    BY <2>2 DEF Cat
<1>5. Cat(X, B, C) /\ Cat(Y, B, D) /\ Cat(A \o X, A, X) /\ Cat(A \o Y, A, Y)
  BY DEF Cat
<1> HIDE DEF A, B, C, D, H, Q, X, Y
<1>6. D \in Segments(Words)
  BY <1>2, <1>4, SegmentsCat
<1>7. join(D, Colon) = join(C, Colon)
  <2>1. CatWith(join(D, Colon), join(H, Colon), Colon, join(Q, Colon))
    BY <1>2, <1>4, ColonIsWord, JoinCat
  <2>2. CatWith(join(D, Colon), h, Colon, q)
    BY <1>3, <2>1
  <2>3. QED
    BY <1>3, <2>2 DEF CatWith
<1>8. join(X, Colon) = join(Y, Colon)
  BY <1>2, <1>5, <1>6, <1>7, ColonIsWord, SameBehind
<1>9. X \in Segments(Words) /\ Y \in Segments(Words)
  BY <1>2, <1>5, <1>6, SegmentsCat
<1>10. join(A \o X, Colon) = join(A \o Y, Colon)
  BY <1>2, <1>5, <1>8, <1>9, ColonIsWord, SameBehind
<1>11. QED
  BY <1>10 DEF A, B, C, D, X, Y

\* The five ways of writing the servers, for the segments of a password.
LEMMA TailRead ==
  ASSUME NEW pw \in Passwords, NEW h \in HostNames, NEW g \in HostNames,
         NEW q \in PortNames, NEW r \in PortNames, NEW s \in Securities
  PROVE  LET segs == split(pw, Colon)
             parse(T) == parsePasswordAndHost(<<Blank>> \o split(pw, Colon) \o T) IN
         /\ parse(<<h>>) = Read(segs, h, Undefined, Blank, Undefined, Blank)
         /\ LooksFull(segs) \/
              parse(<<h, q>>) = Read(segs, h, parsePort(q), Blank, Undefined, Blank)
         /\ parse(<<h, q, g, s>>) = Read(segs, h, parsePort(q), g, Undefined, s)
         /\ parse(<<h, q, g, r>>) = Read(segs, h, parsePort(q), g, parsePort(r), Blank)
         /\ parse(<<h, q, g, r, s>>) = Read(segs, h, parsePort(q), g, parsePort(r), s)
<1> DEFINE segs == split(pw, Colon)
<1>1. segs \in Seq(Seq(Words)) /\ segs # <<>>
  BY SplitTyped DEF Passwords, Segments
<1> HIDE DEF segs
<1>2. ReadsBack(segs)
  BY <1>1, PasswordsReadBack
<1>3. QED
  BY <1>2, Zenon DEF ReadsBack, segs

\* There is a word of each kind.
LEMMA SomeWords ==
  \E h \in PortNames, s \in Securities : TRUE
BY FieldsPlain DEF Securities

LEMMA TailOfSmtpPort ==
  ASSUME NEW pw \in Passwords, NEW h \in HostNames, NEW g \in HostNames,
         NEW q \in PortNames, NEW r \in PortNames, NEW T, T = <<h, q, g, r>>
  PROVE  parsePasswordAndHost(<<Blank>> \o split(pw, Colon) \o T) =
           Read(split(pw, Colon), h, parsePort(q), g, parsePort(r), Blank)
BY SomeWords, TailRead

LEMMA TailOfSmtpSecurity ==
  ASSUME NEW pw \in Passwords, NEW h \in HostNames, NEW g \in HostNames,
         NEW q \in PortNames, NEW s \in Securities, NEW T, T = <<h, q, g, s>>
  PROVE  parsePasswordAndHost(<<Blank>> \o split(pw, Colon) \o T) =
           Read(split(pw, Colon), h, parsePort(q), g, Undefined, s)
BY SomeWords, TailRead

LEMMA TailOfSmtpPortSecurity ==
  ASSUME NEW pw \in Passwords, NEW h \in HostNames, NEW g \in HostNames,
         NEW q \in PortNames, NEW r \in PortNames, NEW s \in Securities,
         NEW T, T = <<h, q, g, r, s>>
  PROVE  parsePasswordAndHost(<<Blank>> \o split(pw, Colon) \o T) =
           Read(split(pw, Colon), h, parsePort(q), g, parsePort(r), s)
BY TailRead

\* A card with a host to type, but the servers it writes.
LEMMA CardServers ==
  ASSUME NEW card \in Typable, ~isOutlookDomain(card.email), Expressible(card),
         card.imap_host # Blank, NEW T,
         Servers(card.imap_host, card.imap_port, card.smtp_host, card.smtp_port,
                 card.smtp_security) = T
  PROVE  /\ card.password \in Passwords
         /\ encodeCard(card) = <<join(<<card.email>> \o (<<card.password>> \o T), Colon)>>
<1>1. card.password \in Passwords
  BY CardFields, PasswordTyped DEF Expressible, Documented
<1>2. QED
  BY <1>1, CardWritten

\* A card with a host for IMAP alone, with its port, and with both in one field.
LEMMA HostCard ==
  ASSUME NEW card \in Typable, ~isOutlookDomain(card.email), Expressible(card),
         card.imap_host \in HostNames, card.smtp_host = Blank, card.imap_port = Blank
  PROVE  EncodedAsTyped(card)
<1> DEFINE h == card.imap_host
           T == <<h>>
<1>1. ~Contains(h, Colon) /\ split(h, Colon)[1] = h /\ h # Blank /\ h \in OneWord
  BY HostPlain, FieldsPlain
<1>2. T \in Seq(OneWord) /\ T # <<>>
  BY <1>1
<1>3. Servers(h, card.imap_port, card.smtp_host, card.smtp_port, card.smtp_security) = T
  <2>1. Servers(h, card.imap_port, card.smtp_host, card.smtp_port, card.smtp_security)
          = T \o <<>>
    BY <1>1 DEF Servers, some
  <2>2. T \o <<>> = T
    BY <1>2, ConcatEmptySeq
  <2>3. QED
    BY <2>1, <2>2
<1>4. /\ card.password \in Passwords
      /\ encodeCard(card) = <<join(<<card.email>> \o (<<card.password>> \o T), Colon)>>
  BY <1>1, <1>3, CardServers
<1>5. parsePasswordAndHost(<<Blank>> \o split(card.password, Colon) \o T) =
        Read(split(card.password, Colon), h, Undefined, Blank, Undefined, Blank)
  BY <1>4, SomeWords, TailRead
<1>6. typedImap(card) = ImapOf(h, default(Undefined, 993))
  BY <1>1, NoPortTyped DEF typedImap, typedHost, typedImapPort, ImapOf
<1>7. typedSmtp(card) = SmtpOf(h, Blank, Undefined, Blank)
  BY <1>1 DEF typedSmtp, typedHost, SmtpOf
<1> HIDE DEF T
<1>8. QED
  BY <1>1, <1>2, <1>4, <1>5, <1>6, <1>7, CardRead

LEMMA HostPortCard ==
  ASSUME NEW card \in Typable, ~isOutlookDomain(card.email), Expressible(card),
         card.imap_host \in HostNames, card.smtp_host = Blank, card.imap_port # Blank
  PROVE  EncodedAsTyped(card)
<1> DEFINE h == card.imap_host
           q == card.imap_port
           T == <<h, q>>
<1>1. ~Contains(h, Colon) /\ split(h, Colon)[1] = h /\ h # Blank /\ h \in OneWord
  BY HostPlain, FieldsPlain
<1>2. q \in PortNames /\ q \in OneWord
  BY CardFields, FieldsPlain
<1>3. T \in Seq(OneWord) /\ T # <<>>
  BY <1>1, <1>2
<1>4. Servers(h, q, card.smtp_host, card.smtp_port, card.smtp_security) = T
  <2>1. Servers(h, q, card.smtp_host, card.smtp_port, card.smtp_security) = <<h>> \o <<q>>
    BY <1>1 DEF Servers, some
  <2>2. <<h>> \o <<q>> = <<h, q>>
    BY <1>1, <1>2, Pair
  <2>3. QED
    BY <2>1, <2>2
<1>5. /\ card.password \in Passwords
      /\ encodeCard(card) = <<join(<<card.email>> \o (<<card.password>> \o T), Colon)>>
  BY <1>1, <1>4, CardServers
<1>6. ~LooksFull(split(card.password, Colon))
  BY <1>1 DEF Expressible, typedImapPort
<1>7. parsePasswordAndHost(<<Blank>> \o split(card.password, Colon) \o T) =
        Read(split(card.password, Colon), h, parsePort(q), Blank, Undefined, Blank)
  BY <1>2, <1>5, <1>6, SomeWords, TailRead
<1>8. typedImap(card) = ImapOf(h, default(parsePort(q), 993))
  BY <1>1, <1>2, PortTyped DEF typedImap, typedHost, typedImapPort, ImapOf
<1>9. typedSmtp(card) = SmtpOf(h, Blank, Undefined, Blank)
  BY <1>1 DEF typedSmtp, typedHost, SmtpOf
<1> HIDE DEF T
<1>10. QED
  BY <1>1, <1>3, <1>5, <1>7, <1>8, <1>9, CardRead

LEMMA HostAndPortCard ==
  ASSUME NEW card \in Typable, ~isOutlookDomain(card.email), Expressible(card),
         card.imap_host \in HostPorts, card.smtp_host = Blank
  PROVE  EncodedAsTyped(card)
<1> DEFINE t == card.imap_host
<1>1. PICK h \in HostNames, q \in PortNames :
        /\ CatWith(t, h, Colon, q) /\ t # Blank /\ t \in Seq(Words) /\ Contains(t, Colon)
  BY HostPortIs
<1>2. split(t, Colon)[1] = h /\ split(t, Colon)[2] = q
  BY <1>1, HostPortParts
<1>3. h \in OneWord /\ q \in OneWord /\ h # Blank /\ q # Blank
  BY FieldsPlain, OneWordIs
<1> DEFINE T == <<h, q>>
<1>4. T \in Seq(OneWord) /\ T # <<>>
  BY <1>3
<1>5. Servers(t, card.imap_port, card.smtp_host, card.smtp_port, card.smtp_security) = <<t>>
  <2>1. Servers(t, card.imap_port, card.smtp_host, card.smtp_port, card.smtp_security)
          = <<t>> \o <<>>
    BY <1>1 DEF Servers, some
  <2> DEFINE X == <<t>>
  <2>2. X \in Seq({t})
    OBVIOUS
  <2> HIDE DEF X
  <2>3. X \o <<>> = X
    BY <2>2, ConcatEmptySeq
  <2>4. QED
    BY <2>1, <2>3 DEF X
<1>6. /\ card.password \in Passwords
      /\ encodeCard(card) = <<join(<<card.email>> \o (<<card.password>> \o <<t>>), Colon)>>
  BY <1>1, <1>5, CardServers
<1>7. encodeCard(card) = <<join(<<card.email>> \o (<<card.password>> \o T), Colon)>>
  <2>1. card.email \in Seq(Words) /\ card.password \in Seq(Words)
    <3>1. PICK e \in DOMAIN Id : card.email = <<e>>
      BY CardFields
    <3>2. e \in Words
      BY AddressPlain, PlainIsWord
    <3>3. QED
      BY <1>6, <3>1, <3>2 DEF Passwords
  <2>2. join(<<card.email>> \o (<<card.password>> \o <<t>>), Colon)
          = join(<<card.email>> \o (<<card.password>> \o <<h, q>>), Colon)
    BY <1>1, <2>1, HostPortWritten
  <2>3. QED
    BY <1>6, <2>2
<1>8. ~LooksFull(split(card.password, Colon))
  BY <1>1, <1>2, <1>3 DEF Expressible, typedImapPort
<1>9. parsePasswordAndHost(<<Blank>> \o split(card.password, Colon) \o T) =
        Read(split(card.password, Colon), h, parsePort(q), Blank, Undefined, Blank)
  BY <1>6, <1>8, SomeWords, TailRead
<1>10. typedImap(card) = ImapOf(h, default(parsePort(q), 993))
  BY <1>1, <1>2, PortTyped DEF typedImap, typedHost, typedImapPort, ImapOf
<1>11. typedSmtp(card) = SmtpOf(h, Blank, Undefined, Blank)
  BY <1>2 DEF typedSmtp, typedHost, SmtpOf
<1> HIDE DEF T
<1>12. QED
  BY <1>1, <1>4, <1>6, <1>7, <1>9, <1>10, <1>11, CardRead

\* The servers of IMAP and SMTP, as a card with a host of SMTP writes them.
LEMMA FullTyped ==
  ASSUME NEW card \in Typable, ~isOutlookDomain(card.email), Expressible(card),
         card.imap_host # Blank, card.smtp_host # Blank
  PROVE  LET h == card.imap_host
             q == portOr993(card.imap_port)
             g == card.smtp_host IN
         /\ h \in HostNames /\ q \in PortNames /\ g \in HostNames
         /\ h \in OneWord /\ q \in OneWord /\ g \in OneWord
         /\ typedImap(card) = ImapOf(h, default(parsePort(q), 993))
<1> DEFINE h == card.imap_host
           q == portOr993(card.imap_port)
           g == card.smtp_host
<1>1. ~Contains(h, Colon)
  BY DEF Expressible
<1>2. h \in HostNames /\ g \in HostNames
  BY <1>1, CardFields, HostPortIs
<1>3. q \in PortNames /\ default(parsePort(q), 993) = typedPort(card.imap_port, 993)
  BY CardFields, ImapPortTyped
<1>4. h \in OneWord /\ q \in OneWord /\ g \in OneWord
  BY <1>2, <1>3, FieldsPlain
<1>5. split(h, Colon)[1] = h
  BY <1>2, HostPlain
<1>6. typedImap(card) = ImapOf(h, default(parsePort(q), 993))
  BY <1>1, <1>3, <1>5 DEF typedImap, typedHost, typedImapPort, ImapOf
<1>7. QED
  BY <1>2, <1>3, <1>4, <1>6

\* The server of SMTP is read as it was typed, with the standard port in place of none.
LEMMA SmtpTyped ==
  ASSUME NEW card, card.smtp_host # Blank, NEW r,
         \A v : default(r, v) = typedPort(card.smtp_port, v), NEW h
  PROVE  typedSmtp(card) = SmtpOf(h, card.smtp_host, r, card.smtp_security)
<1> DEFINE implicit == card.smtp_security \in {<<"tls">>, <<"ssl">>}
           none == card.smtp_security = <<"none">>
<1>1. typedSmtp(card) =
        [host |-> card.smtp_host, secure |-> implicit,
         port |-> typedPort(card.smtp_port, CASE implicit -> 465 [] none -> 25
                                              [] OTHER -> 587)]
  BY DEF typedSmtp
<1>2. SmtpOf(h, card.smtp_host, r, card.smtp_security) =
        [host |-> card.smtp_host, secure |-> implicit,
         port |-> default(r, IF implicit THEN 465 ELSE IF none THEN 25 ELSE 587)]
  BY DEF SmtpOf, buildSmtpConfig
<1>3. ~(implicit /\ none)
  <2>1. "none" # "tls" /\ "none" # "ssl"
    BY Zenon
  <2>2. QED
    BY <2>1
<1> DEFINE standard == IF implicit THEN 465 ELSE IF none THEN 25 ELSE 587
<1>4. (CASE implicit -> 465 [] none -> 25 [] OTHER -> 587) = standard
  <2> HIDE DEF implicit, none
  <2>1. QED
    BY <1>3
<1> HIDE DEF implicit, none, standard
<1>5. default(r, standard) = typedPort(card.smtp_port, standard)
  OBVIOUS
<1>6. QED
  BY <1>1, <1>2, <1>4, <1>5 DEF standard

\* A card with the servers of both: a port for SMTP, its security, or the two.
LEMMA SmtpPortCard ==
  ASSUME NEW card \in Typable, ~isOutlookDomain(card.email), Expressible(card),
         card.imap_host # Blank, card.smtp_host # Blank,
         card.smtp_port # Blank, card.smtp_security = Blank
  PROVE  EncodedAsTyped(card)
<1> DEFINE h == card.imap_host
           q == portOr993(card.imap_port)
           g == card.smtp_host
           r == card.smtp_port
           T == <<h, q, g, r>>
<1>1. /\ h \in HostNames /\ q \in PortNames /\ g \in HostNames
      /\ h \in OneWord /\ q \in OneWord /\ g \in OneWord
      /\ typedImap(card) = ImapOf(h, default(parsePort(q), 993))
  BY FullTyped
<1>2. r \in PortNames /\ r \in OneWord
  BY CardFields, FieldsPlain
<1>3. T \in Seq(OneWord) /\ T # <<>>
  BY <1>1, <1>2
<1>4. Servers(h, card.imap_port, g, r, card.smtp_security) = T
  <2>1. Servers(h, card.imap_port, g, r, card.smtp_security) = <<h, q, g>> \o <<r>> \o <<>>
    BY DEF Servers, some
  <2>2. <<h, q, g>> \o <<r>> = T
    BY <1>1, <1>2, Four
  <2>3. T \o <<>> = T
    BY <1>3, ConcatEmptySeq
  <2>4. QED
    BY <2>1, <2>2, <2>3
<1>5. /\ card.password \in Passwords
      /\ encodeCard(card) = <<join(<<card.email>> \o (<<card.password>> \o T), Colon)>>
  BY <1>4, CardServers
<1>6. parsePasswordAndHost(<<Blank>> \o split(card.password, Colon) \o T) =
        Read(split(card.password, Colon), h, parsePort(q), g, parsePort(r), Blank)
  <2>1. T = <<h, q, g, r>>
    OBVIOUS
  <2> HIDE DEF h, q, g, r, T
  <2>2. QED
    BY <1>1, <1>2, <1>5, <2>1, TailOfSmtpPort
<1>7. typedSmtp(card) = SmtpOf(h, g, parsePort(r), Blank)
  BY <1>2, PortTyped, SmtpTyped
<1> HIDE DEF T
<1>8. QED
  BY <1>1, <1>3, <1>5, <1>6, <1>7, CardRead

LEMMA SmtpSecurityCard ==
  ASSUME NEW card \in Typable, ~isOutlookDomain(card.email), Expressible(card),
         card.imap_host # Blank, card.smtp_host # Blank,
         card.smtp_port = Blank, card.smtp_security # Blank
  PROVE  EncodedAsTyped(card)
<1> DEFINE h == card.imap_host
           q == portOr993(card.imap_port)
           g == card.smtp_host
           s == card.smtp_security
           T == <<h, q, g, s>>
<1>1. /\ h \in HostNames /\ q \in PortNames /\ g \in HostNames
      /\ h \in OneWord /\ q \in OneWord /\ g \in OneWord
      /\ typedImap(card) = ImapOf(h, default(parsePort(q), 993))
  BY FullTyped
<1>2. s \in Securities /\ s \in OneWord
  BY CardFields, FieldsPlain
<1>3. T \in Seq(OneWord) /\ T # <<>>
  BY <1>1, <1>2
<1>4. Servers(h, card.imap_port, g, card.smtp_port, s) = T
  <2>1. Servers(h, card.imap_port, g, card.smtp_port, s) = <<h, q, g>> \o <<>> \o <<s>>
    BY DEF Servers, some
  <2>2. <<h, q, g>> \o <<s>> = T
    BY <1>1, <1>2, Four
  <2>3. <<h, q, g>> \o <<>> = <<h, q, g>>
    BY <1>1, <<h, q, g>> \in Seq(OneWord), ConcatEmptySeq
  <2>4. QED
    BY <2>1, <2>2, <2>3
<1>5. /\ card.password \in Passwords
      /\ encodeCard(card) = <<join(<<card.email>> \o (<<card.password>> \o T), Colon)>>
  BY <1>4, CardServers
<1>6. parsePasswordAndHost(<<Blank>> \o split(card.password, Colon) \o T) =
        Read(split(card.password, Colon), h, parsePort(q), g, Undefined, s)
  <2>1. T = <<h, q, g, s>>
    OBVIOUS
  <2> HIDE DEF h, q, g, s, T
  <2>2. QED
    BY <1>1, <1>2, <1>5, <2>1, TailOfSmtpSecurity
<1>7. typedSmtp(card) = SmtpOf(h, g, Undefined, s)
  BY NoPortTyped, SmtpTyped
<1> HIDE DEF T
<1>8. QED
  BY <1>1, <1>3, <1>5, <1>6, <1>7, CardRead

LEMMA SmtpPortSecurityCard ==
  ASSUME NEW card \in Typable, ~isOutlookDomain(card.email), Expressible(card),
         card.imap_host # Blank, card.smtp_host # Blank,
         card.smtp_port # Blank, card.smtp_security # Blank
  PROVE  EncodedAsTyped(card)
<1> DEFINE h == card.imap_host
           q == portOr993(card.imap_port)
           g == card.smtp_host
           r == card.smtp_port
           s == card.smtp_security
           T == <<h, q, g, r, s>>
<1>1. /\ h \in HostNames /\ q \in PortNames /\ g \in HostNames
      /\ h \in OneWord /\ q \in OneWord /\ g \in OneWord
      /\ typedImap(card) = ImapOf(h, default(parsePort(q), 993))
  BY FullTyped
<1>2. r \in PortNames /\ r \in OneWord /\ s \in Securities /\ s \in OneWord
  BY CardFields, FieldsPlain
<1>3. T \in Seq(OneWord) /\ T # <<>>
  BY <1>1, <1>2
<1>4. Servers(h, card.imap_port, g, r, s) = T
  <2>1. Servers(h, card.imap_port, g, r, s) = <<h, q, g>> \o <<r>> \o <<s>>
    BY DEF Servers, some
  <2>2. <<h, q, g>> \o <<r>> = <<h, q, g, r>>
    BY <1>1, <1>2, Four
  <2>3. <<h, q, g, r>> \o <<s>> = T
    BY <1>1, <1>2, Five
  <2>4. QED
    BY <2>1, <2>2, <2>3
<1>5. /\ card.password \in Passwords
      /\ encodeCard(card) = <<join(<<card.email>> \o (<<card.password>> \o T), Colon)>>
  BY <1>4, CardServers
<1>6. parsePasswordAndHost(<<Blank>> \o split(card.password, Colon) \o T) =
        Read(split(card.password, Colon), h, parsePort(q), g, parsePort(r), s)
  <2>1. T = <<h, q, g, r, s>>
    OBVIOUS
  <2> HIDE DEF h, q, g, r, s, T
  <2>2. QED
    BY <1>1, <1>2, <1>5, <2>1, TailOfSmtpPortSecurity
<1>7. typedSmtp(card) = SmtpOf(h, g, parsePort(r), s)
  BY <1>2, PortTyped, SmtpTyped
<1> HIDE DEF T
<1>8. QED
  BY <1>1, <1>3, <1>5, <1>6, <1>7, CardRead

\* A login alone, at a provider the code knows.
LEMMA LoginCard ==
  ASSUME NEW card \in Typable, ~isOutlookDomain(card.email), Expressible(card),
         card.imap_host = Blank
  PROVE  EncodedAsTyped(card)
<1> DEFINE pw == card.password
           P == <<pw>>
           z == <<card.email, pw>>
           entry == join(z, Colon)
<1>1. PICK e \in DOMAIN Id : card.email = <<e>> /\ trim(card.email) = <<e>>
  BY CardFields
<1>2. /\ pw \in Seq(STRING) /\ pw # Blank /\ ~Contains(pw, Comma) /\ ~Contains(pw, Colon)
      /\ hasSettings(card.email) /\ pw[Len(pw)] # Space
  BY CardFields DEF Expressible, Documented, Last
<1>3. pw \in Passwords /\ pw \in Seq(Words \ {Colon}) /\ pw \in Seq(Words)
  BY <1>2, PasswordTyped DEF Passwords
<1>4. e \in Plain /\ e \in Words
  BY AddressPlain, PlainIsWord
<1>5. Cat(z, <<<<e>>>>, P)
  <2> DEFINE U == Seq(Words)
             w == <<e>>
  <2>1. w \in U /\ pw \in U
    BY <1>3, <1>4
  <2> HIDE DEF U, w
  <2>2. <<w>> \o <<pw>> = <<w, pw>>
    BY <2>1, Pair
  <2>3. QED
    BY <1>1, <2>2 DEF Cat, w
<1>6. encodeCard(card) = <<entry>>
  <2>1. card.email # Blank
    BY <1>1 DEF Blank
  <2>2. encodeCard(card) =
          <<join(Fields(card.email, pw, card.imap_host, card.imap_port,
                        card.smtp_host, card.smtp_port, card.smtp_security), Colon)>>
    BY <1>1, <1>2, <2>1, TypedFields, Encodes
  <2>3. QED
    BY <2>2 DEF Fields
<1> HIDE DEF z
<1>7. /\ entry \in Seq(Words) /\ Inked(entry)
      /\ \E parts :
           /\ parsePasswordAndHost(parts) =
                Read(P, Blank, Undefined, Blank, Undefined, Blank)
           /\ parseSingleCredential(entry) = handlePasswordEntry(<<e>>, parts)
  BY <1>2, <1>3, <1>4, <1>5, LoginRead
<1> HIDE DEF entry
<1>8. PICK parts :
        /\ parsePasswordAndHost(parts) = Read(P, Blank, Undefined, Blank, Undefined, Blank)
        /\ parseSingleCredential(entry) = handlePasswordEntry(<<e>>, parts)
  BY <1>7
<1>9. join(P, Colon) = pw
  BY <1>3, ColonIsWord, JoinOne
<1> HIDE DEF P
<1> DEFINE a == [id |-> Id[e], email |-> <<e>>, password |-> pw, auth |-> "password",
                 imap |-> Discovered[e].imap, smtp |-> Discovered[e].smtp]
<1>10. handlePasswordEntry(<<e>>, parts) = <<a>>
  <2> DEFINE read == parsePasswordAndHost(parts)
  <2>1. read.password = P /\ read.imap.host = Blank /\ read.smtp.host = Blank
    BY <1>8 DEF Read
  <2>2. emailToId(<<e>>) = Id[e] /\ hasSettings(<<e>>) /\ ~isOutlookDomain(<<e>>)
    BY <1>1, <1>2 DEF emailToId, isAddress
  <2> HIDE DEF read
  <2>3. resolvesServers(<<e>>, read)
    BY <2>2 DEF resolvesServers
  <2>4. /\ resolveServerConfig(<<e>>, read).imap = Discovered[e].imap
        /\ resolveServerConfig(<<e>>, read).smtp = Discovered[e].smtp
    BY <2>1 DEF resolveServerConfig
  <2>5. QED
    BY <1>9, <2>1, <2>2, <2>3, <2>4 DEF handlePasswordEntry, read
<1>11. KeptAs(a, card)
  <2>1. emailToId(card.email) = Id[e]
    BY <1>1 DEF emailToId, isAddress
  <2>2. QED
    BY <1>1, <2>1 DEF KeptAs, Keeps
<1> HIDE DEF a
<1>12. QED
  BY <1>6, <1>7, <1>8, <1>10, <1>11 DEF EntryKeeps, EncodedAsTyped

\* An address on the OAuth path is an entry of its own.
LEMMA OutlookCard ==
  ASSUME NEW card \in Typable, isOutlookDomain(card.email), Expressible(card)
  PROVE  EncodedAsTyped(card)
<1> DEFINE entry == card.email
<1>1. PICK e \in DOMAIN Id : entry = <<e>> /\ trim(entry) = <<e>>
  BY CardFields
<1>2. e \in Plain /\ hasSettings(entry)
  BY AddressPlain DEF Expressible
<1>3. entry \in OneWord /\ entry # Blank
  BY <1>1, <1>2 DEF OneWord, Blank
<1>4. encodeCard(card) = <<entry>>
  BY <1>1, <1>3 DEF encodeCard
<1>5. entry \in Seq(Words) /\ Inked(entry)
  BY <1>1, <1>2, PlainIsWord DEF Inked
<1>6. split(entry, Colon) = <<entry>>
  <2>1. Colon \notin Words \ {Colon} /\ entry \in Seq(Words \ {Colon})
    BY <1>3, OneWordIs
  <2>2. QED
    BY <2>1, SplitPlain
<1>7. parseSingleCredential(entry) = createOAuth2Account(entry)
  <2> DEFINE parts == split(trim(entry), Colon)
  <2>1. trim(entry) = entry
    BY <1>1
  <2>2. Len(parts) = 1 /\ parts[1] = entry
    BY <1>6, <2>1
  <2> HIDE DEF entry
  <2>3. QED
    BY <1>3, <2>1, <2>2 DEF parseSingleCredential
<1> DEFINE a == [id |-> emailToId(entry), email |-> entry, password |-> Blank,
                 auth |-> "oauth2", imap |-> Discovered[entry[1]].imap,
                 smtp |-> Discovered[entry[1]].smtp]
<1>8. createOAuth2Account(entry) = <<a>>
  BY <1>2 DEF createOAuth2Account
<1>9. KeptAs(a, card)
  BY DEF KeptAs, Keeps
<1> HIDE DEF a
<1>10. QED
  BY <1>4, <1>5, <1>7, <1>8, <1>9 DEF EntryKeeps, EncodedAsTyped

(***************************************************************************)
(* Every card the string can carry is read back as it was typed.           *)
(***************************************************************************)
THEOREM ExpressibleCardsReadBack ==
  ASSUME NEW card \in Typable, Expressible(card)
  PROVE  EncodedAsTyped(card)
<1>1. CASE isOutlookDomain(card.email)
  BY <1>1, OutlookCard
<1>2. CASE ~isOutlookDomain(card.email) /\ card.imap_host = Blank
  BY <1>2, LoginCard
<1>3. CASE ~isOutlookDomain(card.email) /\ card.imap_host # Blank /\ card.smtp_host = Blank
  <2>1. card.imap_host \in HostNames \cup HostPorts
    BY <1>3, CardFields
  <2>2. QED
    BY <1>3, <2>1, HostCard, HostPortCard, HostAndPortCard
<1>4. CASE ~isOutlookDomain(card.email) /\ card.imap_host # Blank /\ card.smtp_host # Blank
  <2>1. card.smtp_port # Blank \/ card.smtp_security # Blank
    BY <1>4 DEF Expressible
  <2>2. QED
    BY <1>4, <2>1, SmtpPortCard, SmtpSecurityCard, SmtpPortSecurityCard
<1>5. QED
  BY <1>1, <1>2, <1>3, <1>4

-----------------------------------------------------------------------------
(* Every form is read back. *)

\* The entries of a form are split off again, and none is skipped.
LEMMA EntriesSplit ==
  ASSUME NEW entries \in Segments(Words), \A i \in 1 .. Len(entries) : Inked(entries[i])
  PROVE  /\ split(join(entries, Comma), Comma) = entries
         /\ trim(join(entries, Comma)) # Blank
<1> DEFINE S == Words \cup {Comma}
           text == join(entries, Comma)
<1>1. Comma \notin Words /\ S \ {Comma} = Words /\ Comma \in S
  BY DEF Words
<1>2. entries \in Seq(Seq(S \ {Comma})) /\ entries # <<>>
  BY <1>1 DEF Segments
<1> HIDE DEF S
<1>3. split(text, Comma) = entries
  BY <1>1, <1>2, SplitJoin
<1>4. Seq(Words) \subseteq Seq(S)
  BY SeqMonotonic DEF S
<1>5. entries \in Seq(Seq(S))
  BY <1>4, SeqMonotonic DEF Segments
<1>6. text \in Seq(S)
  BY <1>1, <1>5, JoinTyped
<1> HIDE DEF text
<1>7. trim(text) # Blank
  <2>1. Len(entries) \in 1 .. Len(entries)
    BY <1>2, EmptySeq
  <2>2. Inked(entries[Len(entries)])
    BY <2>1
  <2> DEFINE x == entries[Len(entries)]
  <2>3. x # <<>> /\ x[Len(x)] # Space
    BY <2>2 DEF Inked
  <2> HIDE DEF x
  <2>4. entries \in Segments(S)
    BY <1>2, <1>5 DEF Segments
  <2>5. text # <<>> /\ text[Len(text)] # Space
    BY <1>1, <2>3, <2>4, JoinLast DEF x, text
  <2>6. Len(text) \in 1 .. Len(text)
    BY <1>6, <2>5, EmptySeq
  <2>7. QED
    BY <1>6, <2>5, <2>6, TrimNotBlank
<1>8. QED
  BY <1>3, <1>7 DEF text

\* The entry of a card, and the account it is read as.
Entry(card) == CHOOSE entry : encodeCard(card) = <<entry>> /\ EntryKeeps(entry, card)
AccountRead(card) ==
  CHOOSE account : /\ parseSingleCredential(Entry(card)) = <<account>>
                   /\ KeptAs(account, card)

\* Every card the string can carry has such an entry, and such an account.
LEMMA EntryOf ==
  ASSUME NEW card \in Typable, Expressible(card)
  PROVE  /\ encodeCard(card) = <<Entry(card)>>
         /\ Entry(card) \in Seq(Words) /\ Inked(Entry(card))
         /\ parseSingleCredential(Entry(card)) = <<AccountRead(card)>>
         /\ KeptAs(AccountRead(card), card)
<1>1. \E entry : encodeCard(card) = <<entry>> /\ EntryKeeps(entry, card)
  BY ExpressibleCardsReadBack DEF EncodedAsTyped
<1>2. encodeCard(card) = <<Entry(card)>> /\ EntryKeeps(Entry(card), card)
  BY <1>1, Zenon DEF Entry
<1>3. \E account : /\ parseSingleCredential(Entry(card)) = <<account>>
                   /\ KeptAs(account, card)
  BY <1>2 DEF EntryKeeps
<1>4. parseSingleCredential(Entry(card)) = <<AccountRead(card)>> /\ KeptAs(AccountRead(card), card)
  BY <1>3, Zenon DEF AccountRead
<1>5. QED
  BY <1>2, <1>4 DEF EntryKeeps

\* A form is read back when each card becomes its account, in order.
FormReadBack(f) ==
  LET read == parseCredentials(assembleEmailCredentials(f)) IN
  /\ DOMAIN read = DOMAIN f
  /\ \A j \in DOMAIN f : KeptAs(read[j], f[j])

\* Nothing is read back as nothing.
LEMMA EmptyFormReadBack == FormReadBack(<<>>)
<1>1. DOMAIN <<>> = {} /\ Len(<<>>) = 0
  OBVIOUS
<1> DEFINE encoded == [i \in DOMAIN <<>> |-> encodeCard(<<>>[i])]
<1>2. encoded = <<>> /\ Len(encoded) = 0
  OBVIOUS
<1> HIDE DEF encoded
<1>3. FlattenSeq(encoded) = <<>>
  BY <1>2 DEF FlattenSeq
<1>4. assembleEmailCredentials(<<>>) = Blank
  BY <1>3, JoinNone DEF assembleEmailCredentials, encoded
<1>5. parseCredentials(Blank) = <<>>
  BY TrimBlank DEF parseCredentials
<1>6. QED
  BY <1>4, <1>5 DEF FormReadBack

\* So is every form of cards that the string can carry: as many accounts, in order, each
\* with the ID of its address (assembleEmailCredentials, parseCredentials).
THEOREM FormsReadBack ==
  ASSUME NEW f \in Seq(Typable), \A j \in DOMAIN f : Expressible(f[j])
  PROVE  FormReadBack(f)
<1>1. CASE f = <<>>
  BY <1>1, EmptyFormReadBack
<1>2. CASE f # <<>>
  <2> DEFINE n == Len(f)
             entries == [i \in 1 .. n |-> Entry(f[i])]
             accounts == [i \in 1 .. n |-> AccountRead(f[i])]
             encoded == [i \in DOMAIN f |-> encodeCard(f[i])]
             parsed == [i \in DOMAIN entries |-> parseSingleCredential(entries[i])]
             text == assembleEmailCredentials(f)
             S == {AccountRead(card) : card \in Typable}
  <2>1. n \in Nat \ {0} /\ DOMAIN f = 1 .. n
    BY <1>2, EmptySeq, LenProperties
  <2>2. ASSUME NEW i \in 1 .. n
        PROVE  /\ f[i] \in Typable /\ encodeCard(f[i]) = <<Entry(f[i])>>
               /\ Entry(f[i]) \in Seq(Words) /\ Inked(Entry(f[i]))
               /\ parseSingleCredential(Entry(f[i])) = <<AccountRead(f[i])>>
               /\ KeptAs(AccountRead(f[i]), f[i])
    <3>1. f[i] \in Typable /\ Expressible(f[i])
      BY <2>1, ElementOfSeq
    <3>2. QED
      BY <3>1, EntryOf
  <2>3. entries \in Seq(Seq(Words)) /\ Len(entries) = n /\ DOMAIN entries = 1 .. n
        /\ \A i \in 1 .. n : entries[i] = Entry(f[i])
    BY <2>1, <2>2
  <2>4. accounts \in Seq(S) /\ Len(accounts) = n /\ DOMAIN accounts = 1 .. n
        /\ \A i \in 1 .. n : accounts[i] = AccountRead(f[i])
    BY <2>1, <2>2
  <2>5. Len(encoded) = n /\ \A i \in 1 .. n : encoded[i] = encodeCard(f[i])
    BY <2>1
  <2>6. Len(parsed) = n /\ \A i \in 1 .. n : parsed[i] = parseSingleCredential(entries[i])
    BY <2>1, <2>3
  <2> HIDE DEF entries, accounts, encoded, parsed, n, S
  <2>7. entries # <<>> /\ accounts # <<>>
    BY <2>1, <2>3, <2>4, EmptySeq
  <2>8. FlattenSeq(encoded) = entries
    <3>1. \A i \in 1 .. Len(entries) : encoded[i] = <<entries[i]>>
      BY <2>2, <2>3, <2>5
    <3>2. QED
      BY <2>3, <2>5, <2>7, <3>1, FlattenOnes
  <2>9. text = join(entries, Comma)
    BY <2>8 DEF assembleEmailCredentials, encoded
  <2>10. split(text, Comma) = entries /\ trim(text) # Blank
    <3>1. entries \in Segments(Words)
      BY <2>3, <2>7 DEF Segments
    <3>2. \A i \in 1 .. Len(entries) : Inked(entries[i])
      BY <2>2, <2>3
    <3>3. QED
      BY <2>9, <3>1, <3>2, EntriesSplit
  <2> HIDE DEF text
  <2>11. FlattenSeq(parsed) = accounts
    <3>1. \A i \in 1 .. Len(accounts) : parsed[i] = <<accounts[i]>>
      BY <2>2, <2>3, <2>4, <2>6
    <3>2. QED
      BY <2>4, <2>6, <2>7, <3>1, FlattenOnes
  <2>12. parseCredentials(text) = accounts
    BY <2>10, <2>11 DEF parseCredentials, parsed
  <2>13. QED
    BY <2>1, <2>2, <2>4, <2>12 DEF FormReadBack, text
<1>3. QED
  BY <1>1, <1>2

\* So no card the model checks is misread.
LEMMA NoCardMisread == Misread = {}
<1> SUFFICES ASSUME NEW card \in Cards, Expressible(card)
             PROVE  Kept(parseCredentials(assembleEmailCredentials(<<card>>)), card)
  BY DEF Misread
<1> DEFINE f == <<card>>
<1>1. card \in Typable
  BY CardsKnown
<1>2. f \in Seq(Typable) /\ DOMAIN f = {1} /\ f[1] = card
  BY <1>1
<1> HIDE DEF f
<1>3. FormReadBack(f)
  BY <1>2, FormsReadBack
<1>4. QED
  BY <1>2, <1>3 DEF FormReadBack, Kept, KeptAs, f
=============================================================================
