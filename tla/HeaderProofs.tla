---------------------------- MODULE HeaderProofs ----------------------------
(***************************************************************************)
(* Proofs about the header formats, for texts of any length and contents.  *)
(*                                                                         *)
(* The parsers are folds over a text.  Induction over texts goes through   *)
(* the set of the texts that have the property (TextInduction): it has the *)
(* empty text, and with a text its extension by any symbol.  The parts:    *)
(*                                                                         *)
(*   - runs: a fold is the last place of a machine that runs along a text, *)
(*     one symbol after the other, and may stop and go on (PrefixRuns);    *)
(*   - parse_quoted: what an escaped value reads back to, and, unit by     *)
(*     unit, what any text reads to (StringsAreParsed);                    *)
(*   - the two splitters, and how they go past quoted strings;             *)
(*   - what the serialized headers read back to (HeadersAreReadBack);      *)
(*   - the list of skipped sessions, item by item (ReportsAreNotMisread).  *)
(***************************************************************************)
EXTENDS HeaderWire, NaturalsInduction, WellFoundedInduction, SequenceTheorems,
        FiniteSetTheorems, TLAPS

-----------------------------------------------------------------------------
(* Induction, and the runs of a machine along a text. *)

(* A set of numbers with 0 and the successor of each member has them all. *)
LEMMA NatSetInduction ==
  ASSUME NEW T, 0 \in T, \A n \in Nat : n \in T => n + 1 \in T
  PROVE  Nat \subseteq T
<1> DEFINE L == OpToRel(<, Nat)
           B == Nat \ T
<1>1. IsWellFoundedOn(L, Nat)
  BY NatLessThanWellFounded
<1>2. SUFFICES ASSUME B # {} PROVE FALSE
  OBVIOUS
<1>3. B \subseteq Nat
  OBVIOUS
<1>4. \A y, x \in Nat : y < x => <<y, x>> \in L
  BY DEF OpToRel
<1> HIDE DEF B, L
<1>5. PICK x \in B : \A y \in B : ~(<<y, x>> \in L)
  BY <1>1, <1>2, <1>3, WFMin
<1>6. x \in Nat /\ x \notin T
  BY <1>5 DEF B
<1>7. x # 0 /\ x - 1 \in Nat /\ x - 1 < x /\ (x - 1) + 1 = x
  BY <1>6
<1>8. <<x - 1, x>> \in L
  BY <1>4, <1>6, <1>7
<1>9. x - 1 \in T
  BY <1>5, <1>7, <1>8 DEF B
<1> QED
  BY <1>6, <1>7, <1>9

LEMMA AppendCat ==
  ASSUME NEW S, NEW t \in Seq(S), NEW v \in Seq(S), NEW c \in S
  PROVE  t \o Append(v, c) = Append(t \o v, c)
<1>1. /\ <<c>> \in Seq(S) /\ Append(v, c) = v \o <<c>>
      /\ t \o v \in Seq(S) /\ Append(t \o v, c) = (t \o v) \o <<c>>
  BY AppendIsConcat, ConcatProperties
<1>2. t \o (v \o <<c>>) = (t \o v) \o <<c>>
  BY <1>1, ConcatAssociative
<1> QED
  BY <1>1, <1>2

LEMMA Literals ==
  ASSUME NEW S, NEW c \in S, NEW d \in S
  PROVE  /\ <<c>> \in Seq(S) /\ Len(<<c>>) = 1 /\ <<c>>[1] = c /\ <<c>> = Append(<<>>, c)
         /\ <<c, d>> \in Seq(S) /\ <<c, d>> = Append(<<c>>, d)
OBVIOUS

LEMMA ThreeOf ==
  ASSUME NEW S, NEW a \in S, NEW b \in S, NEW c \in S
  PROVE  <<a, b, c>> \in Seq(S) /\ <<a, b, c>> = (<<a>> \o <<b>>) \o <<c>>
<1>1. <<a, b, c>> = Append(<<a, b>>, c) /\ <<a, b>> = Append(<<a>>, b)
  OBVIOUS
<1> DEFINE one == <<a>>
           two == <<a, b>>
<1>2. one \in Seq(S) /\ two \in Seq(S) /\ <<c>> \in Seq(S)
  BY Literals
<1>3. <<a, b, c>> = Append(two, c) /\ two = Append(one, b)
  BY <1>1
<1> HIDE DEF one, two
<1>4. Append(two, c) = two \o <<c>> /\ Append(two, c) \in Seq(S)
  BY <1>2, AppendIsConcat, AppendProperties
<1>5. Append(one, b) = one \o <<b>>
  BY <1>2, AppendIsConcat
<1> QED
  BY <1>3, <1>4, <1>5 DEF one

LEMMA TailOfOne ==
  ASSUME NEW S, NEW c \in S, NEW x \in Seq(S)
  PROVE  /\ <<c>> \o x \in Seq(S) /\ <<c>> \o x # <<>>
         /\ Len(<<c>> \o x) = Len(x) + 1
         /\ (<<c>> \o x)[1] = c
         /\ Tail(<<c>> \o x) = x
<1> DEFINE t == <<c>> \o x
<1>1. <<c>> \in Seq(S) /\ Len(<<c>>) = 1 /\ <<c>>[1] = c /\ Len(x) \in Nat
  OBVIOUS
<1>2. t \in Seq(S) /\ Len(t) = Len(x) + 1 /\ t[1] = c
      /\ \A i \in 1 .. Len(x) : t[i + 1] = x[i]
  BY <1>1, ConcatProperties
<1> HIDE DEF t
<1>3. t # <<>>
  BY <1>1, <1>2
<1>4. Tail(t) \in Seq(S) /\ Len(Tail(t)) = Len(x)
      /\ \A i \in 1 .. Len(x) : Tail(t)[i] = x[i]
  BY <1>1, <1>2, <1>3, HeadTailProperties
<1>5. Tail(t) = x
  BY <1>4, SeqEqual
<1> QED
  BY <1>1, <1>2, <1>3, <1>5 DEF t

(* A set of texts with the empty one and every extension of a member has   *)
(* them all.                                                               *)
LEMMA TextInduction ==
  ASSUME NEW S, NEW T, <<>> \in T,
         \A s \in Seq(S), c \in S : s \in T => Append(s, c) \in T
  PROVE  Seq(S) \subseteq T
<1> DEFINE N == {n \in Nat : \A s \in Seq(S) : Len(s) = n => s \in T}
<1>1. 0 \in N
  BY EmptySeq
<1>2. \A n \in Nat : n \in N => n + 1 \in N
  <2>1. SUFFICES ASSUME NEW n \in Nat, n \in N, NEW s \in Seq(S), Len(s) = n + 1
                 PROVE  s \in T
    OBVIOUS
  <2> DEFINE front == [i \in 1 .. n |-> s[i]]
  <2>2. front \in Seq(S) /\ Len(front) = n
    BY <2>1
  <2>3. s[n + 1] \in S /\ s = Append(front, s[n + 1])
    BY <2>1, <2>2
  <2> QED
    BY <2>1, <2>2, <2>3
<1> HIDE DEF N
<1>3. Nat \subseteq N
  BY <1>1, <1>2, NatSetInduction
<1> QED
  BY <1>3 DEF N

LEMMA MaxIs ==
  ASSUME NEW S \in SUBSET Int, NEW x \in S, \A y \in S : x >= y
  PROVE  Max(S) = x
<1>1. \A z \in S : (\A y \in S : z >= y) => z = x
  OBVIOUS
<1> QED
  BY <1>1 DEF Max

LEMMA MinIs ==
  ASSUME NEW S \in SUBSET Int, NEW x \in S, \A y \in S : x <= y
  PROVE  Min(S) = x
<1>1. \A z \in S : (\A y \in S : z <= y) => z = x
  OBVIOUS
<1> QED
  BY <1>1 DEF Min

LEMMA MaxIn ==
  ASSUME NEW N \in Nat, NEW S \in SUBSET (1 .. N), S # {}
  PROVE  Max(S) \in S /\ \A y \in S : Max(S) >= y
<1> DEFINE T == {n \in Nat : \A R \in SUBSET (1 .. n) :
                   R # {} => \E x \in R : \A y \in R : x >= y}
<1>1. 0 \in T
  <2>1. 1 .. 0 = {}
    OBVIOUS
  <2> QED
    BY <2>1
<1>2. \A n \in Nat : n \in T => n + 1 \in T
  <2> SUFFICES ASSUME NEW n \in Nat, n \in T,
                      NEW R \in SUBSET (1 .. n + 1), R # {}
               PROVE  \E x \in R : \A y \in R : x >= y
    OBVIOUS
  <2>1. CASE n + 1 \in R
    BY <2>1
  <2>2. CASE n + 1 \notin R
    <3>1. R \in SUBSET (1 .. n)
      BY <2>2
    <3> QED
      BY <3>1
  <2> QED
    BY <2>1, <2>2
<1> HIDE DEF T
<1>3. N \in T
  BY <1>1, <1>2, NatSetInduction
<1>4. PICK x \in S : \A y \in S : x >= y
  BY <1>3 DEF T
<1>5. Max(S) = x
  BY <1>4, MaxIs
<1> QED
  BY <1>4, <1>5

LEMMA MinIn ==
  ASSUME NEW S \in SUBSET Nat, S # {}
  PROVE  Min(S) \in S /\ \A y \in S : Min(S) <= y
<1> DEFINE T == {n \in Nat : \A k \in S : k <= n => \E x \in S : \A y \in S : x <= y}
<1>1. 0 \in T
  OBVIOUS
<1>2. \A n \in Nat : n \in T => n + 1 \in T
  <2> SUFFICES ASSUME NEW n \in Nat, n \in T, NEW k \in S, k <= n + 1
               PROVE  \E x \in S : \A y \in S : x <= y
    OBVIOUS
  <2>1. CASE \E j \in S : j <= n
    BY <2>1
  <2>2. CASE \A j \in S : ~(j <= n)
    BY <2>2
  <2> QED
    BY <2>1, <2>2
<1> HIDE DEF T
<1>3. Nat \subseteq T
  BY <1>1, <1>2, NatSetInduction
<1>4. PICK x \in S : \A y \in S : x <= y
  <2>1. PICK k \in S : TRUE
    OBVIOUS
  <2>2. k \in T
    BY <1>3
  <2> QED
    BY <2>2 DEF T
<1>5. Min(S) = x
  BY <1>4, MinIs
<1> QED
  BY <1>4, <1>5

(* f is what FoldLeft tabulates of a machine with N inputs and turn d. *)
Tabulates(f, Q, b, N, d) ==
  /\ f \in [SUBSET (1 .. N) -> Q]
  /\ \A S \in SUBSET (1 .. N) :
       f[S] = IF S = {} THEN b ELSE d[<<f[S \ {Max(S)}], Max(S)>>]

LEMMA TableExists ==
  ASSUME NEW Q, NEW b \in Q, NEW N \in Nat, NEW d \in [Q \X (1 .. N) -> Q]
  PROVE  \E f : Tabulates(f, Q, b, N, d)
<1> DEFINE Has(m) == \E f : Tabulates(f, Q, b, m, d)
           T == {m \in Nat : m <= N => Has(m)}
<1>1. Has(0)
  <2>1. Tabulates([S \in SUBSET (1 .. 0) |-> b], Q, b, 0, d)
    BY DEF Tabulates
  <2> QED
    BY <2>1
<1>2. ASSUME NEW m \in Nat, m + 1 <= N, Has(m)
      PROVE  Has(m + 1)
  <2>1. PICK f : Tabulates(f, Q, b, m, d)
    BY <1>2
  <2> DEFINE g == [S \in SUBSET (1 .. m + 1) |->
                     IF m + 1 \in S THEN d[<<f[S \ {m + 1}], m + 1>>] ELSE f[S]]
  <2>2. \A S \in SUBSET (1 .. m + 1) : S \ {m + 1} \in SUBSET (1 .. m)
    OBVIOUS
  <2>3. g \in [SUBSET (1 .. m + 1) -> Q]
    <3> SUFFICES ASSUME NEW S \in SUBSET (1 .. m + 1)
                 PROVE  (IF m + 1 \in S THEN d[<<f[S \ {m + 1}], m + 1>>] ELSE f[S]) \in Q
      OBVIOUS
    <3>1. f[S \ {m + 1}] \in Q /\ m + 1 \in 1 .. N
      BY <2>1, <2>2, <1>2 DEF Tabulates
    <3>2. d[<<f[S \ {m + 1}], m + 1>>] \in Q
      BY <3>1
    <3>3. m + 1 \notin S => f[S] \in Q
      BY <2>1, <2>2 DEF Tabulates
    <3> QED
      BY <3>2, <3>3
  <2>4. ASSUME NEW S \in SUBSET (1 .. m + 1)
        PROVE  g[S] = IF S = {} THEN b ELSE d[<<g[S \ {Max(S)}], Max(S)>>]
    <3>1. CASE m + 1 \in S
      <4>1. Max(S) = m + 1
        BY <3>1, MaxIs
      <4>2. g[S] = d[<<f[S \ {m + 1}], m + 1>>]
        BY <3>1
      <4>3. g[S \ {m + 1}] = f[S \ {m + 1}]
        OBVIOUS
      <4> HIDE DEF g
      <4> QED
        BY <4>1, <4>2, <4>3, <3>1
    <3>2. CASE m + 1 \notin S
      <4>1. S \in SUBSET (1 .. m)
        BY <3>2
      <4>2. S \ {Max(S)} \in SUBSET (1 .. m)
        BY <4>1
      <4>3. g[S] = f[S] /\ g[S \ {Max(S)}] = f[S \ {Max(S)}]
        BY <3>2, <4>1, <4>2
      <4>4. f[S] = IF S = {} THEN b ELSE d[<<f[S \ {Max(S)}], Max(S)>>]
        BY <2>1, <4>1 DEF Tabulates
      <4> HIDE DEF g
      <4> QED
        BY <4>3, <4>4
    <3> QED
      BY <3>1, <3>2
  <2> HIDE DEF g
  <2>5. Tabulates(g, Q, b, m + 1, d)
    BY <2>3, <2>4 DEF Tabulates
  <2> QED
    BY <2>5
<1> HIDE DEF Has
<1>3. 0 \in T /\ \A m \in Nat : m \in T => m + 1 \in T
  BY <1>1, <1>2
<1> HIDE DEF T
<1>4. N \in T
  BY <1>3, NatSetInduction
<1> QED
  BY <1>4 DEF T, Has

(* What a fold tabulates, read along the prefixes of the text. *)
LEMMA PrefixRuns ==
  ASSUME NEW N \in Nat, NEW f, NEW S \in SUBSET (1 .. N),
         NEW n \in 0 .. N, S = 1 .. n
  PROVE  IF n = 0 THEN S = {}
         ELSE S # {} /\ Max(S) = n /\ S \ {Max(S)} = 1 .. n - 1
<1>1. n = 0 => S = {}
  OBVIOUS
<1>2. n # 0 => n \in S /\ \A y \in S : n >= y
  OBVIOUS
<1>3. n # 0 => Max(S) = n
  <2>1. S \in SUBSET Int
    OBVIOUS
  <2> QED
    BY <1>2, <2>1, MaxIs
<1>4. S \ {n} = 1 .. n - 1
  OBVIOUS
<1> QED
  BY <1>1, <1>2, <1>3, <1>4

(* What every turn keeps, a run keeps. *)
LEMMA RunKeeps ==
  ASSUME NEW N \in Nat, NEW f, NEW Q, f[0] \in Q,
         \A n \in 1 .. N : f[n - 1] \in Q => f[n] \in Q
  PROVE  \A n \in 0 .. N : f[n] \in Q
<1> DEFINE T == {n \in Nat : n <= N => f[n] \in Q}
<1>1. 0 \in T
  OBVIOUS
<1>2. \A n \in Nat : n \in T => n + 1 \in T
  <2> SUFFICES ASSUME NEW n \in Nat, n + 1 <= N, f[n] \in Q
               PROVE  f[n + 1] \in Q
    OBVIOUS
  <2>1. n + 1 \in 1 .. N /\ (n + 1) - 1 = n
    OBVIOUS
  <2> QED
    BY <2>1
<1> HIDE DEF T
<1>3. Nat \subseteq T
  BY <1>1, <1>2, NatSetInduction
<1> QED
  BY <1>3 DEF T

(* Two runs of one machine agree. *)
LEMMA RunsAgree ==
  ASSUME NEW N \in Nat, NEW f, NEW g, f[0] = g[0],
         \A n \in 1 .. N : f[n - 1] = g[n - 1] => f[n] = g[n]
  PROVE  f[N] = g[N]
<1> DEFINE T == {n \in Nat : n <= N => f[n] = g[n]}
<1>1. 0 \in T
  OBVIOUS
<1>2. \A n \in Nat : n \in T => n + 1 \in T
  <2> SUFFICES ASSUME NEW n \in Nat, n + 1 <= N, f[n] = g[n]
               PROVE  f[n + 1] = g[n + 1]
    OBVIOUS
  <2>1. n + 1 \in 1 .. N /\ (n + 1) - 1 = n
    OBVIOUS
  <2> QED
    BY <2>1
<1> HIDE DEF T
<1>3. Nat \subseteq T
  BY <1>1, <1>2, NatSetInduction
<1> QED
  BY <1>3 DEF T

-----------------------------------------------------------------------------
(* Concatenation of a sequence of texts. *)

FlattensAlong(f, ss, S) ==
  /\ f \in [0 .. Len(ss) -> Seq(S)]
  /\ f[0] = <<>>
  /\ \A n \in 1 .. Len(ss) : f[n] = f[n - 1] \o ss[n]
  /\ FlattenSeq(ss) = f[Len(ss)]

LEMMA FlattenRuns ==
  ASSUME NEW S, NEW ss \in Seq(Seq(S))
  PROVE  \E f : FlattensAlong(f, ss, S)
<1> DEFINE N == Len(ss)
           d == [q \in Seq(S) \X (1 .. N) |-> q[1] \o ss[q[2]]]
           Runs(f) == f = [i \in 1 .. N |-> IF i = 1 THEN ss[i] ELSE f[i - 1] \o ss[i]]
           flatten == CHOOSE f : Runs(f)
<1>1. N \in Nat
  OBVIOUS
<1>2. \A n \in 1 .. N : ss[n] \in Seq(S)
  OBVIOUS
<1>3. d \in [Seq(S) \X (1 .. N) -> Seq(S)]
  <2> SUFFICES ASSUME NEW q \in Seq(S), NEW n \in 1 .. N
               PROVE  q \o ss[n] \in Seq(S)
    OBVIOUS
  <2> QED
    BY <1>2, ConcatProperties
<1>4. PICK f : Tabulates(f, Seq(S), <<>>, N, d)
  <2>1. <<>> \in Seq(S)
    OBVIOUS
  <2> HIDE DEF d, N
  <2> QED
    BY <1>1, <1>3, <2>1, TableExists
<1> DEFINE h == [n \in 0 .. N |-> f[1 .. n]]
<1>5. ASSUME NEW n \in 0 .. N
      PROVE  /\ h[n] \in Seq(S)
             /\ h[n] = IF n = 0 THEN <<>> ELSE h[n - 1] \o ss[n]
  <2>1. 1 .. n \in SUBSET (1 .. N)
    BY <1>1
  <2>2. IF n = 0 THEN 1 .. n = {}
        ELSE 1 .. n # {} /\ Max(1 .. n) = n /\ (1 .. n) \ {Max(1 .. n)} = 1 .. n - 1
    BY <1>1, <2>1, PrefixRuns
  <2>3. f[1 .. n] = IF 1 .. n = {} THEN <<>>
                    ELSE d[<<f[(1 .. n) \ {Max(1 .. n)}], Max(1 .. n)>>]
    BY <1>4, <2>1 DEF Tabulates
  <2>4. h[n] \in Seq(S)
    BY <1>4, <2>1 DEF Tabulates
  <2>5. n # 0 => n - 1 \in 0 .. N /\ 1 .. n - 1 \in SUBSET (1 .. N)
    BY <1>1
  <2>6. n # 0 => h[n - 1] = f[1 .. n - 1] /\ f[1 .. n - 1] \in Seq(S)
    BY <1>4, <2>5 DEF Tabulates
  <2>7. n # 0 => h[n] = d[<<h[n - 1], n>>] /\ h[n - 1] \in Seq(S) /\ n \in 1 .. N
    <3>1. h[n] = f[1 .. n]
      OBVIOUS
    <3>2. n # 0 => n \in 1 .. N
      BY <1>1
    <3> HIDE DEF h, d
    <3> QED
      BY <2>2, <2>3, <2>6, <3>1, <3>2
  <2>8. n = 0 => h[n] = <<>>
    BY <2>2, <2>3
  <2> HIDE DEF h
  <2> QED
    BY <2>4, <2>7, <2>8
<1>6. DOMAIN h = 0 .. N /\ h = [n \in 0 .. N |-> h[n]]
  OBVIOUS
<1> HIDE DEF h
<1>7. h[0] = <<>> /\ \A n \in 1 .. N : h[n] = h[n - 1] \o ss[n]
  <2>1. 0 \in 0 .. N /\ \A n \in 1 .. N : n \in 0 .. N /\ n # 0
    BY <1>1
  <2> HIDE DEF N
  <2> QED
    BY <1>5, <2>1
<1>8. h \in [0 .. N -> Seq(S)]
  BY <1>5, <1>6
<1>9. CASE N = 0
  <2>1. FlattenSeq(ss) = ss /\ ss = <<>>
    BY <1>9 DEF FlattenSeq
  <2> QED
    BY <1>7, <1>8, <1>9, <2>1 DEF FlattensAlong
<1>10. CASE N # 0
  <2> DEFINE g == [i \in 1 .. N |-> h[i]]
  <2>1. ASSUME NEW i \in 1 .. N
        PROVE  g[i] = IF i = 1 THEN ss[i] ELSE g[i - 1] \o ss[i]
    <3>1. h[0] \o ss[1] = ss[1]
      BY <1>2, <1>7, <1>10, <1>1, ConcatEmptySeq
    <3>2. g[i] = h[i] /\ (i # 1 => g[i - 1] = h[i - 1])
      BY <1>1
    <3>3. h[i] = h[i - 1] \o ss[i]
      BY <1>7
    <3>4. i = 1 => i - 1 = 0
      OBVIOUS
    <3> HIDE DEF g
    <3> QED
      BY <3>1, <3>2, <3>3, <3>4
  <2>2. Runs(g)
    BY <2>1
  <2>3. Runs(flatten)
    <3> HIDE DEF Runs
    <3> QED
      BY <2>2
  <2>4. FlattenSeq(ss) = flatten[N]
    BY <1>10 DEF FlattenSeq
  <2> HIDE DEF flatten
  <2> DEFINE k == [i \in 0 .. N |-> IF i = 0 THEN <<>> ELSE flatten[i]]
  <2>5. ASSUME NEW i \in 1 .. N, k[i - 1] = h[i - 1]
        PROVE  k[i] = h[i]
    <3>1. flatten[i] = IF i = 1 THEN ss[i] ELSE flatten[i - 1] \o ss[i]
      BY <2>3
    <3>2. h[0] \o ss[1] = ss[1]
      BY <1>2, <1>7, <1>10, <1>1, ConcatEmptySeq
    <3>3. k[i] = flatten[i] /\ (i # 1 => k[i - 1] = flatten[i - 1])
      BY <1>1
    <3>4. h[i] = h[i - 1] \o ss[i]
      BY <1>7
    <3>5. i = 1 => i - 1 = 0
      OBVIOUS
    <3> HIDE DEF k
    <3>6. CASE i = 1
      BY <3>1, <3>2, <3>3, <3>4, <3>5, <3>6
    <3>7. CASE i # 1
      BY <2>5, <3>1, <3>3, <3>4, <3>7
    <3> QED
      BY <3>6, <3>7
  <2>6. k[0] = h[0] /\ k[N] = flatten[N]
    BY <1>1, <1>7, <1>10
  <2> HIDE DEF k, N
  <2>7. k[N] = h[N]
    BY <1>1, <2>5, <2>6, RunsAgree
  <2>8. FlattenSeq(ss) = h[N]
    BY <1>1, <2>4, <2>6, <2>7
  <2> QED
    BY <1>7, <1>8, <2>8 DEF FlattensAlong, N
<1> QED
  BY <1>9, <1>10

LEMMA FlattenEmpty ==
  FlattenSeq(<<>>) = <<>>
BY DEF FlattenSeq

LEMMA FlattenIn ==
  ASSUME NEW S, NEW ss \in Seq(Seq(S))
  PROVE  FlattenSeq(ss) \in Seq(S)
<1>1. PICK f : FlattensAlong(f, ss, S)
  BY FlattenRuns
<1>2. Len(ss) \in 0 .. Len(ss)
  OBVIOUS
<1> QED
  BY <1>1, <1>2 DEF FlattensAlong

LEMMA FlattenAppend ==
  ASSUME NEW S, NEW ss \in Seq(Seq(S)), NEW x \in Seq(S)
  PROVE  FlattenSeq(Append(ss, x)) = FlattenSeq(ss) \o x
<1> DEFINE uu == Append(ss, x)
           N == Len(ss)
<1>1. N \in Nat
  OBVIOUS
<1>2. Len(uu) = N + 1
  BY AppendProperties
<1>3. uu \in Seq(Seq(S))
  BY AppendProperties
<1>4. uu[N + 1] = x
  BY AppendProperties
<1>5. \A n \in 1 .. N : uu[n] = ss[n]
  BY AppendProperties
<1>6. PICK f : FlattensAlong(f, ss, S)
  BY FlattenRuns
<1> HIDE DEF uu
<1>7. PICK g : FlattensAlong(g, uu, S)
  BY <1>3, FlattenRuns
<1> HIDE DEF N
<1>8. f[N] = g[N]
  <2>1. \A n \in 1 .. N : f[n] = f[n - 1] \o ss[n]
    BY <1>6 DEF FlattensAlong, N
  <2>2. \A n \in 1 .. N : g[n] = g[n - 1] \o uu[n]
    <3> SUFFICES ASSUME NEW n \in 1 .. N
                 PROVE  g[n] = g[n - 1] \o uu[n]
      OBVIOUS
    <3>1. n \in 1 .. Len(uu)
      BY <1>1, <1>2
    <3> QED
      BY <1>7, <3>1 DEF FlattensAlong
  <2>3. \A n \in 1 .. N : f[n - 1] = g[n - 1] => f[n] = g[n]
    BY <1>1, <1>5, <2>1, <2>2
  <2>4. f[0] = g[0]
    BY <1>6, <1>7 DEF FlattensAlong
  <2> QED
    BY <1>1, <2>3, <2>4, RunsAgree
<1>9. g[N + 1] = g[N] \o x
  <2>1. N + 1 \in 1 .. Len(uu) /\ (N + 1) - 1 = N
    BY <1>1, <1>2
  <2> QED
    BY <1>4, <1>7, <2>1 DEF FlattensAlong
<1> QED
  BY <1>1, <1>2, <1>6, <1>7, <1>8, <1>9 DEF FlattensAlong, uu, N

-----------------------------------------------------------------------------
(* The reader of quoted strings. *)

Reader == [at : {"string", "escape", "end", "failed"}, out : Seq(Symbols)]

LEMMA ReadTyped ==
  ASSUME NEW r \in Reader, NEW c \in Symbols
  PROVE  Read(r, c) \in Reader
BY DEF Reader, Read

(* What Read makes of a text, symbol by symbol. *)
ReadsAlong(f, b, t) ==
  /\ f \in [0 .. Len(t) -> Reader]
  /\ f[0] = b
  /\ \A n \in 1 .. Len(t) : f[n] = Read(f[n - 1], t[n])
  /\ FoldLeft(Read, b, t) = f[Len(t)]

LEMMA ReadRuns ==
  ASSUME NEW b \in Reader, NEW t \in Seq(Symbols)
  PROVE  \E f : ReadsAlong(f, b, t)
<1> DEFINE N == Len(t)
           d == [q \in Reader \X (1 .. N) |-> Read(q[1], t[q[2]])]
           Runs(f) == f = [S \in SUBSET (1 .. N) |->
                             IF S = {} THEN b ELSE Read(f[S \ {Max(S)}], t[Max(S)])]
           iter == CHOOSE f : Runs(f)
<1>1. N \in Nat /\ DOMAIN t = 1 .. N /\ \A n \in 1 .. N : t[n] \in Symbols
  OBVIOUS
<1>2. d \in [Reader \X (1 .. N) -> Reader]
  <2> SUFFICES ASSUME NEW q \in Reader, NEW n \in 1 .. N
               PROVE  Read(q, t[n]) \in Reader
    OBVIOUS
  <2> QED
    BY <1>1, ReadTyped
<1>3. PICK f : Tabulates(f, Reader, b, N, d)
  <2> HIDE DEF d, N
  <2> QED
    BY <1>1, <1>2, TableExists
<1>4. Runs(f)
  <2>1. ASSUME NEW S \in SUBSET (1 .. N)
        PROVE  f[S] = IF S = {} THEN b ELSE Read(f[S \ {Max(S)}], t[Max(S)])
    <3>1. S # {} => Max(S) \in 1 .. N /\ S \ {Max(S)} \in SUBSET (1 .. N)
      BY <1>1, MaxIn
    <3>2. S # {} => f[S \ {Max(S)}] \in Reader
      BY <1>3, <3>1 DEF Tabulates
    <3> QED
      BY <1>3, <3>1, <3>2 DEF Tabulates
  <2>2. f = [S \in SUBSET (1 .. N) |-> f[S]]
    BY <1>3 DEF Tabulates
  <2> QED
    BY <2>1, <2>2
<1>5. Runs(iter)
  <2> HIDE DEF Runs
  <2> QED
    BY <1>4
<1>6. FoldLeft(Read, b, t) = iter[1 .. N]
  BY <1>1 DEF FoldLeft, MapThenFoldSet
<1> HIDE DEF iter
<1> DEFINE g == [n \in 0 .. N |-> iter[1 .. n]]
<1>7. ASSUME NEW n \in 0 .. N
      PROVE  g[n] = IF n = 0 THEN b ELSE Read(g[n - 1], t[n])
  <2>1. 1 .. n \in SUBSET (1 .. N)
    BY <1>1
  <2>2. IF n = 0 THEN 1 .. n = {}
        ELSE 1 .. n # {} /\ Max(1 .. n) = n /\ (1 .. n) \ {Max(1 .. n)} = 1 .. n - 1
    BY <1>1, <2>1, PrefixRuns
  <2>3. iter[1 .. n] = IF 1 .. n = {} THEN b
                       ELSE Read(iter[(1 .. n) \ {Max(1 .. n)}], t[Max(1 .. n)])
    BY <1>5, <2>1
  <2>4. n # 0 => g[n - 1] = iter[1 .. n - 1]
    BY <1>1
  <2> QED
    BY <2>2, <2>3, <2>4
<1>8. FoldLeft(Read, b, t) = g[N] /\ DOMAIN g = 0 .. N
  BY <1>1, <1>6
<1> HIDE DEF g
<1>9. g[0] = b /\ \A n \in 1 .. N : g[n] = Read(g[n - 1], t[n])
  BY <1>1, <1>7
<1>10. \A n \in 0 .. N : g[n] \in Reader
  <2> HIDE DEF N
  <2>1. \A n \in 1 .. N : g[n - 1] \in Reader => g[n] \in Reader
    BY <1>1, <1>9, ReadTyped
  <2> QED
    BY <1>1, <1>9, <2>1, RunKeeps
<1>11. g = [n \in 0 .. N |-> g[n]]
  BY DEF g
<1> QED
  BY <1>9, <1>8, <1>10, <1>11 DEF ReadsAlong

LEMMA ReadEmpty ==
  ASSUME NEW b \in Reader
  PROVE  FoldLeft(Read, b, <<>>) = b
<1>1. <<>> \in Seq(Symbols) /\ Len(<<>>) = 0
  OBVIOUS
<1>2. PICK f : ReadsAlong(f, b, <<>>)
  BY <1>1, ReadRuns
<1> QED
  BY <1>1, <1>2 DEF ReadsAlong

LEMMA ReadAppend ==
  ASSUME NEW b \in Reader, NEW t \in Seq(Symbols), NEW c \in Symbols
  PROVE  FoldLeft(Read, b, Append(t, c)) = Read(FoldLeft(Read, b, t), c)
<1> DEFINE u == Append(t, c)
           N == Len(t)
<1>1. N \in Nat
  OBVIOUS
<1>2. /\ u \in Seq(Symbols) /\ N \in Nat /\ Len(u) = N + 1 /\ u[N + 1] = c
      /\ \A n \in 1 .. N : u[n] = t[n]
  <2>1. Len(u) = N + 1
    BY AppendProperties
  <2>2. u \in Seq(Symbols)
    BY AppendProperties
  <2>3. u[N + 1] = c
    BY AppendProperties
  <2>4. \A n \in 1 .. N : u[n] = t[n]
    BY AppendProperties
  <2> QED
    BY <1>1, <2>1, <2>2, <2>3, <2>4
<1>3. PICK f : ReadsAlong(f, b, t)
  BY ReadRuns
<1> HIDE DEF u
<1>4. PICK g : ReadsAlong(g, b, u)
  BY <1>2, ReadRuns
<1> HIDE DEF N
<1>5. f[N] = g[N]
  <2>1. /\ \A n \in 1 .. N : f[n] = Read(f[n - 1], t[n])
        /\ \A n \in 1 .. N : g[n] = Read(g[n - 1], u[n])
    BY <1>2, <1>3, <1>4 DEF ReadsAlong, N
  <2>2. \A n \in 1 .. N : f[n - 1] = g[n - 1] => f[n] = g[n]
    BY <1>2, <2>1
  <2>3. f[0] = g[0]
    BY <1>3, <1>4 DEF ReadsAlong
  <2> QED
    BY <1>1, <2>2, <2>3, RunsAgree
<1>6. g[N + 1] = Read(g[N], c)
  <2>1. N + 1 \in 1 .. Len(u) /\ (N + 1) - 1 = N
    BY <1>2
  <2> QED
    BY <1>2, <1>4, <2>1 DEF ReadsAlong
<1> QED
  BY <1>2, <1>3, <1>4, <1>5, <1>6 DEF ReadsAlong, u, N

LEMMA ReadIn ==
  ASSUME NEW b \in Reader, NEW t \in Seq(Symbols)
  PROVE  FoldLeft(Read, b, t) \in Reader
<1>1. PICK f : ReadsAlong(f, b, t)
  BY ReadRuns
<1>2. Len(t) \in 0 .. Len(t)
  OBVIOUS
<1> QED
  BY <1>1, <1>2 DEF ReadsAlong

(* Reading two texts is reading the one and then the other. *)
LEMMA ReadCat ==
  ASSUME NEW b \in Reader, NEW t \in Seq(Symbols), NEW u \in Seq(Symbols)
  PROVE  FoldLeft(Read, b, t \o u) = FoldLeft(Read, FoldLeft(Read, b, t), u)
<1> DEFINE r == FoldLeft(Read, b, t)
           T == {v \in Seq(Symbols) : FoldLeft(Read, b, t \o v) = FoldLeft(Read, r, v)}
<1>1. r \in Reader
  BY ReadIn
<1>2. <<>> \in T
  BY <1>1, ReadEmpty, ConcatEmptySeq, EmptySeq
<1> HIDE DEF r
<1>3. ASSUME NEW v \in Seq(Symbols), NEW c \in Symbols, v \in T
      PROVE  Append(v, c) \in T
  <2>1. t \o v \in Seq(Symbols)
    BY ConcatProperties
  <2>2. t \o Append(v, c) = Append(t \o v, c)
    BY AppendCat
  <2>3. FoldLeft(Read, b, t \o v) = FoldLeft(Read, r, v)
    BY <1>3
  <2>4. FoldLeft(Read, b, Append(t \o v, c)) = Read(FoldLeft(Read, b, t \o v), c)
    BY <2>1, ReadAppend
  <2>5. FoldLeft(Read, r, Append(v, c)) = Read(FoldLeft(Read, r, v), c)
    BY <1>1, ReadAppend
  <2>6. Append(v, c) \in Seq(Symbols)
    BY AppendProperties
  <2> QED
    BY <2>2, <2>3, <2>4, <2>5, <2>6
<1> HIDE DEF T
<1>4. u \in T
  BY <1>2, <1>3, TextInduction
<1> QED
  BY <1>4 DEF T, r

-----------------------------------------------------------------------------
(* Escaping and quoting. *)

LEMMA SyntaxIn ==
  /\ Syntax \subseteq Symbols
  /\ Quote \in Symbols /\ Backslash \in Symbols /\ Space \in Symbols
  /\ "," \in Symbols /\ ";" \in Symbols /\ "=" \in Symbols
BY SymbolsAssumption DEF Syntax

LEMMA SymbolsDiffer ==
  /\ Quote # Backslash /\ Quote # Space /\ Quote # "," /\ Quote # ";" /\ Quote # "="
  /\ Backslash # Space /\ Backslash # "," /\ Backslash # ";" /\ Backslash # "="
  /\ Space # "," /\ Space # ";" /\ Space # "="
BY DEF Quote, Backslash, Space

Escaped(c) == IF c \in {Quote, Backslash} THEN <<Backslash, c>> ELSE <<c>>

LEMMA EscapedIn ==
  ASSUME NEW c \in Symbols
  PROVE  Escaped(c) \in Seq(Symbols)
<1>1. <<Backslash, c>> \in Seq(Symbols) /\ <<c>> \in Seq(Symbols)
  BY SyntaxIn, Literals
<1> QED
  BY <1>1 DEF Escaped

LEMMA EscapeSteps ==
  ASSUME NEW v \in Seq(Symbols)
  PROVE  /\ sf_escape(<<>>) = <<>>
         /\ sf_escape(v) \in Seq(Symbols)
         /\ \A c \in Symbols : sf_escape(Append(v, c)) = sf_escape(v) \o Escaped(c)
<1> DEFINE E(w) == [i \in DOMAIN w |-> Escaped(w[i])]
<1>1. \A w : sf_escape(w) = FlattenSeq(E(w))
  BY DEF sf_escape, Escaped
<1>2. ASSUME NEW w \in Seq(Symbols)
      PROVE  E(w) \in Seq(Seq(Symbols)) /\ Len(E(w)) = Len(w)
  <2>1. \A i \in 1 .. Len(w) : Escaped(w[i]) \in Seq(Symbols)
    BY EscapedIn, ElementOfSeq
  <2>2. DOMAIN w = 1 .. Len(w) /\ Len(w) \in Nat
    OBVIOUS
  <2> QED
    BY <2>1, <2>2
<1>3. sf_escape(<<>>) = <<>>
  <2>1. E(<<>>) = <<>>
    OBVIOUS
  <2> QED
    BY <1>1, <2>1, FlattenEmpty
<1>4. sf_escape(v) \in Seq(Symbols)
  BY <1>1, <1>2, FlattenIn
<1>5. ASSUME NEW c \in Symbols
      PROVE  sf_escape(Append(v, c)) = sf_escape(v) \o Escaped(c)
  <2> DEFINE w == Append(v, c)
  <2>1. w \in Seq(Symbols) /\ Len(w) = Len(v) + 1 /\ Len(v) \in Nat
    BY AppendProperties
  <2>2. \A i \in 1 .. Len(v) : w[i] = v[i]
    BY AppendProperties
  <2>3. w[Len(v) + 1] = c
    BY AppendProperties
  <2>4. Escaped(c) \in Seq(Symbols)
    BY EscapedIn
  <2>5. DOMAIN w = 1 .. Len(v) + 1 /\ DOMAIN v = 1 .. Len(v)
    BY <2>1
  <2> HIDE DEF w
  <2>6. E(w) = Append(E(v), Escaped(c))
    <3>1. E(w) \in Seq(Seq(Symbols)) /\ E(v) \in Seq(Seq(Symbols))
      BY <1>2, <2>1
    <3>2. /\ Append(E(v), Escaped(c)) \in Seq(Seq(Symbols))
          /\ Len(Append(E(v), Escaped(c))) = Len(v) + 1
          /\ \A i \in 1 .. Len(v) : Append(E(v), Escaped(c))[i] = E(v)[i]
          /\ Append(E(v), Escaped(c))[Len(v) + 1] = Escaped(c)
      <4>1. Len(E(v)) = Len(v)
        BY <1>2
      <4> HIDE DEF E
      <4> QED
        BY <3>1, <2>4, <4>1, AppendProperties
    <3>3. Len(E(w)) = Len(v) + 1
      BY <1>2, <2>1
    <3>4. \A i \in 1 .. Len(v) + 1 : E(w)[i] = Append(E(v), Escaped(c))[i]
      <4> SUFFICES ASSUME NEW i \in 1 .. Len(v) + 1
                   PROVE  E(w)[i] = Append(E(v), Escaped(c))[i]
        OBVIOUS
      <4>1. E(w)[i] = Escaped(w[i])
        BY <2>5
      <4>2. i \in 1 .. Len(v) => E(v)[i] = Escaped(v[i])
        BY <2>5
      <4>3. i \in 1 .. Len(v) \/ i = Len(v) + 1
        BY <2>1
      <4> HIDE DEF E
      <4> QED
        BY <4>1, <4>2, <4>3, <2>2, <2>3, <3>2
    <3> HIDE DEF E
    <3> QED
      BY <3>1, <3>2, <3>3, <3>4, SeqEqual
  <2>7. E(v) \in Seq(Seq(Symbols))
    BY <1>2
  <2> HIDE DEF E
  <2>8. FlattenSeq(Append(E(v), Escaped(c))) = FlattenSeq(E(v)) \o Escaped(c)
    BY <2>4, <2>7, FlattenAppend
  <2> QED
    BY <1>1, <2>6, <2>8 DEF w
<1> QED
  BY <1>3, <1>4, <1>5

(* Reading an escaped text inside a string gives the text. *)
LEMMA ReadEscaped ==
  ASSUME NEW r \in Reader, r.at = "string", NEW v \in Seq(Symbols)
  PROVE  FoldLeft(Read, r, sf_escape(v)) = [at |-> "string", out |-> r.out \o v]
<1> DEFINE Reached(w) == [at |-> "string", out |-> r.out \o w]
           T == {w \in Seq(Symbols) : FoldLeft(Read, r, sf_escape(w)) = Reached(w)}
<1>1. r.out \in Seq(Symbols)
  BY DEF Reader
<1>2. <<>> \in T
  <2>1. sf_escape(<<>>) = <<>>
    BY EscapeSteps
  <2>2. r.out \o <<>> = r.out
    BY <1>1, ConcatEmptySeq
  <2>3. r = [at |-> "string", out |-> r.out]
    BY DEF Reader
  <2>4. FoldLeft(Read, r, <<>>) = r
    BY ReadEmpty
  <2> QED
    BY <2>1, <2>2, <2>3, <2>4, EmptySeq
<1>3. ASSUME NEW w \in Seq(Symbols), NEW c \in Symbols, w \in T
      PROVE  Append(w, c) \in T
  <2> DEFINE q == Reached(w)
  <2>1. sf_escape(w) \in Seq(Symbols) /\ sf_escape(Append(w, c)) = sf_escape(w) \o Escaped(c)
    BY EscapeSteps
  <2>2. Escaped(c) \in Seq(Symbols)
    BY EscapedIn
  <2>3. FoldLeft(Read, r, sf_escape(w)) = q
    BY <1>3
  <2>4. FoldLeft(Read, r, sf_escape(w) \o Escaped(c)) = FoldLeft(Read, q, Escaped(c))
    <3> HIDE DEF q
    <3> DEFINE e == sf_escape(w)
               x == Escaped(c)
    <3>1. e \in Seq(Symbols) /\ x \in Seq(Symbols) /\ FoldLeft(Read, r, e) = q
      BY <2>1, <2>2, <2>3
    <3> HIDE DEF e, x
    <3>2. FoldLeft(Read, r, e \o x) = FoldLeft(Read, FoldLeft(Read, r, e), x)
      BY <3>1, ReadCat
    <3> QED
      BY <3>1, <3>2 DEF e, x
  <2>5. r.out \o w \in Seq(Symbols)
    BY <1>1, ConcatProperties
  <2>6. q \in Reader
    BY <2>5 DEF Reader
  <2>7. r.out \o Append(w, c) = Append(r.out \o w, c)
    <3> DEFINE o == r.out
    <3>1. o \in Seq(Symbols)
      BY <1>1
    <3> HIDE DEF o
    <3>2. o \o Append(w, c) = Append(o \o w, c)
      BY <3>1, AppendCat
    <3> QED
      BY <3>2 DEF o
  <2>8. \A p \in Reader, x \in Symbols : FoldLeft(Read, p, <<x>>) = Read(p, x)
    <3> SUFFICES ASSUME NEW p \in Reader, NEW x \in Symbols
                 PROVE  FoldLeft(Read, p, <<x>>) = Read(p, x)
      OBVIOUS
    <3>1. <<x>> = Append(<<>>, x) /\ <<>> \in Seq(Symbols)
      OBVIOUS
    <3> QED
      BY <3>1, ReadAppend, ReadEmpty, ZenonT(60)
  <2>9. FoldLeft(Read, q, Escaped(c)) = Reached(Append(w, c))
    <3>1. CASE c \in {Quote, Backslash}
      <4> DEFINE p == [q EXCEPT !.at = "escape"]
      <4>1. Escaped(c) = Append(<<Backslash>>, c) /\ <<Backslash>> \in Seq(Symbols)
        BY <3>1, SyntaxIn, Literals DEF Escaped
      <4>2. FoldLeft(Read, q, <<Backslash>>) = Read(q, Backslash)
        BY <2>6, <2>8, SyntaxIn
      <4>3. Read(q, Backslash) = p
        <5>1. q.at = "string" /\ Backslash # Quote
          BY SymbolsDiffer
        <5> HIDE DEF q
        <5> QED
          BY <2>6, <5>1 DEF Read, Reader
      <4>4. Read(p, c) = [at |-> "string", out |-> Append(r.out \o w, c)]
        BY DEF Read
      <4> HIDE DEF p, q
      <4> QED
        BY <2>6, <2>7, <4>1, <4>2, <4>3, <4>4, ReadAppend
    <3>2. CASE c \notin {Quote, Backslash}
      <4>1. Escaped(c) = <<c>>
        BY <3>2 DEF Escaped
      <4>2. Read(q, c) = [at |-> "string", out |-> Append(r.out \o w, c)]
        BY <3>2 DEF Read
      <4> HIDE DEF q
      <4> QED
        BY <2>6, <2>7, <2>8, <4>1, <4>2
    <3> QED
      BY <3>1, <3>2
  <2>10. Append(w, c) \in Seq(Symbols)
    BY AppendProperties
  <2> HIDE DEF q
  <2> QED
    BY <2>1, <2>4, <2>9, <2>10
<1> HIDE DEF T
<1>4. v \in T
  BY <1>2, <1>3, TextInduction
<1> QED
  BY <1>4 DEF T

Text == Seq(Symbols)

(* Reading up to the closing quote. *)
Start == [at |-> "string", out |-> <<>>]

LEMMA StartIn ==
  Start \in Reader
BY DEF Start, Reader

LEMMA ReadOne ==
  ASSUME NEW r \in Reader, NEW c \in Symbols
  PROVE  FoldLeft(Read, r, <<c>>) = Read(r, c)
<1>1. <<c>> = Append(<<>>, c) /\ <<>> \in Seq(Symbols)
  OBVIOUS
<1> QED
  BY <1>1, ReadAppend, ReadEmpty

LEMMA ReadQuoted ==
  ASSUME NEW v \in Text
  PROVE  FoldLeft(Read, Start, sf_escape(v) \o <<Quote>>) = [at |-> "end", out |-> v]
<1> DEFINE e == sf_escape(v)
           q == [at |-> "string", out |-> v]
<1>1. e \in Seq(Symbols) /\ <<Quote>> \in Seq(Symbols)
  BY EscapeSteps, SyntaxIn, Literals DEF Text
<1>2. FoldLeft(Read, Start, e) = q
  <2>1. Start.at = "string" /\ Start.out \o v = v
    BY ConcatEmptySeq DEF Start, Text
  <2> QED
    BY <2>1, StartIn, ReadEscaped DEF Text
<1>3. q \in Reader
  BY DEF Reader, Text
<1>4. Read(q, Quote) = [at |-> "end", out |-> v]
  BY DEF Read
<1> HIDE DEF e, q
<1>5. FoldLeft(Read, Start, e \o <<Quote>>) = FoldLeft(Read, q, <<Quote>>)
  BY <1>1, <1>2, StartIn, ReadCat
<1> QED
  BY <1>3, <1>4, <1>5, ReadOne, SyntaxIn DEF e

-----------------------------------------------------------------------------
(* Trimming. *)

Solid(t) == {i \in DOMAIN t : t[i] # Space}

(* What trim leaves is a part of the text without space at its ends, and   *)
(* nothing but spaces is lost.                                             *)
LEMMA TrimPart ==
  ASSUME NEW t \in Text
  PROVE  /\ trim(t) \in Text
         /\ Solid(t) = {} => trim(t) = <<>>
         /\ Solid(t) # {} =>
              \E m, n \in 1 .. Len(t) :
                /\ m = Min(Solid(t)) /\ n = Max(Solid(t)) /\ m <= n
                /\ t[m] # Space /\ t[n] # Space
                /\ \A i \in 1 .. m - 1 : t[i] = Space
                /\ \A i \in n + 1 .. Len(t) : t[i] = Space
                /\ trim(t) = SubSeq(t, m, n)
                /\ Len(trim(t)) = n - m + 1
                /\ \A i \in 1 .. n - m + 1 : trim(t)[i] = t[m + i - 1]
<1> DEFINE S == Solid(t)
           N == Len(t)
<1>1. N \in Nat /\ DOMAIN t = 1 .. N /\ \A i \in 1 .. N : t[i] \in Symbols
  BY DEF Text
<1>2. S \in SUBSET (1 .. N) /\ S \in SUBSET Nat
  BY <1>1 DEF Solid
<1>3. CASE S = {}
  <2>1. trim(t) = <<>>
    BY <1>3 DEF trim, Solid
  <2> QED
    BY <1>3, <2>1 DEF Text
<1>4. CASE S # {}
  <2> DEFINE m == Min(S)
             n == Max(S)
             u == SubSeq(t, m, n)
  <2>1. m \in S /\ \A i \in S : m <= i
    BY <1>2, <1>4, MinIn
  <2>2. n \in S /\ \A i \in S : n >= i
    BY <1>1, <1>2, <1>4, MaxIn
  <2>3. trim(t) = u
    BY <1>4 DEF trim, Solid
  <2> HIDE DEF m, n
  <2>4. /\ m \in 1 .. N /\ n \in 1 .. N /\ m <= n /\ t[m] # Space /\ t[n] # Space
        /\ \A i \in 1 .. m - 1 : t[i] = Space
        /\ \A i \in n + 1 .. N : t[i] = Space
    BY <1>1, <2>1, <2>2 DEF Solid
  <2>5. \A i \in m .. n : t[i] \in Symbols
    BY <1>1, <2>4
  <2>6. u \in Seq(Symbols) /\ Len(u) = n - m + 1
        /\ \A i \in 1 .. n - m + 1 : u[i] = t[m + i - 1]
    BY <1>1, <2>4, <2>5, SubSeqProperties
  <2> HIDE DEF u
  <2>7. trim(t) \in Text /\ Len(trim(t)) = n - m + 1
        /\ \A i \in 1 .. n - m + 1 : trim(t)[i] = t[m + i - 1]
    BY <2>3, <2>6 DEF Text
  <2> QED
    BY <1>4, <2>3, <2>4, <2>7 DEF m, n, u
<1> QED
  BY <1>3, <1>4

(* A text with no space at its ends is left alone. *)
LEMMA TrimSolid ==
  ASSUME NEW t \in Text, t # <<>>, t[1] # Space, t[Len(t)] # Space
  PROVE  trim(t) = t
<1>1. Len(t) \in Nat \ {0} /\ DOMAIN t = 1 .. Len(t)
  BY EmptySeq DEF Text
<1>2. Solid(t) # {} /\ 1 \in Solid(t) /\ Len(t) \in Solid(t)
  BY <1>1 DEF Solid
<1>3. Solid(t) \in SUBSET (1 .. Len(t)) /\ Solid(t) \in SUBSET Int
  BY <1>1 DEF Solid
<1>4. Min(Solid(t)) = 1
  BY <1>2, <1>3, MinIs
<1>5. Max(Solid(t)) = Len(t)
  BY <1>1, <1>2, <1>3, MaxIs
<1>6. trim(t) = SubSeq(t, 1, Len(t))
  BY <1>2, <1>4, <1>5 DEF trim, Solid
<1> QED
  BY <1>6, SubSeqFull DEF Text

(* What parse_quoted makes of a text that begins with a quote. *)
LEMMA ParseQuoted ==
  ASSUME NEW x \in Text, NEW t, t = <<Quote>> \o x, trim(t) = t
  PROVE  parse_quoted(t) =
           LET r == FoldLeft(Read, Start, x)
           IN  IF r.at = "end" THEN r.out ELSE None
<1>1. <<Quote>> \in Seq(Symbols) /\ Len(<<Quote>>) = 1 /\ <<Quote>>[1] = Quote
  BY SyntaxIn, Literals
<1>2. t # <<>> /\ t[1] = Quote /\ Tail(t) = x
  BY TailOfOne, SyntaxIn DEF Text
<1> QED
  BY <1>2 DEF parse_quoted, Start

(* A value that is written as a string is read back. *)
LEMMA QuotedReadBack ==
  ASSUME NEW v \in Text
  PROVE  /\ Quoted(v) \in Text /\ Quoted(v) # <<>> /\ Quoted(v)[1] = Quote
         /\ Quoted(v)[Len(Quoted(v))] = Quote
         /\ parse_quoted(Quoted(v)) = v
<1> DEFINE e == sf_escape(v)
           x == e \o <<Quote>>
           t == Quoted(v)
<1>1. e \in Seq(Symbols) /\ <<Quote>> \in Seq(Symbols)
  BY EscapeSteps, SyntaxIn, Literals DEF Text
<1> HIDE DEF e
<1>2. x \in Seq(Symbols)
  BY <1>1, ConcatProperties
<1>3. t = <<Quote>> \o x
  BY <1>1, ConcatAssociative DEF Quoted, e
<1>4. Len(e) \in Nat /\ Len(x) = Len(e) + 1 /\ x[Len(e) + 1] = Quote
  BY <1>1, ConcatProperties
<1> HIDE DEF x, t
<1>5. /\ t \in Seq(Symbols) /\ Len(t) = Len(e) + 2 /\ t[1] = Quote
      /\ t[Len(e) + 2] = Quote
  BY <1>1, <1>2, <1>3, <1>4, ConcatProperties
<1>6. t # <<>>
  BY <1>4, <1>5
<1>7. trim(t) = t
  BY <1>4, <1>5, <1>6, TrimSolid, SymbolsDiffer DEF Text
<1>8. FoldLeft(Read, Start, x) = [at |-> "end", out |-> v]
  BY ReadQuoted DEF x, e
<1>9. parse_quoted(t) = LET r == FoldLeft(Read, Start, x)
                        IN  IF r.at = "end" THEN r.out ELSE None
  BY <1>2, <1>3, <1>7, ParseQuoted DEF Text
<1>10. parse_quoted(t) = v
  BY <1>8, <1>9
<1> QED
  BY <1>4, <1>5, <1>6, <1>10 DEF t, Text

-----------------------------------------------------------------------------
(* Strings of the grammar. *)

(* A reader that follows the units of a string ends with what it says. *)
LEMMA UnitsRead ==
  ASSUME NEW t \in Text, NEW m \in 1 .. Len(t), NEW n \in m + 1 .. Len(t), t[n] = Quote,
         NEW U \in SUBSET (m + 1 .. n - 1), Units(t, m + 1 .. n - 1, U),
         NEW x \in Text, Len(x) = n - m, \A i \in 1 .. n - m : x[i] = t[m + i],
         NEW r, ReadsAlong(r, Start, x)
  PROVE  /\ At(t, n, U) \in Text
         /\ r[n - m] = [at |-> "end", out |-> At(t, n, U)]
<1> DEFINE inner == m + 1 .. n - 1
           ss == [i \in 1 .. n - 1 |-> IF i \in U THEN <<t[i]>> ELSE <<>>]
<1>1. /\ m \in Nat /\ n \in Nat /\ m >= 1 /\ m + 1 <= n /\ n <= Len(t) /\ Len(t) \in Nat
      /\ \A i \in 1 .. Len(t) : t[i] \in Symbols
  BY DEF Text
<1>2. ss \in Seq(Seq(Symbols)) /\ Len(ss) = n - 1
      /\ \A i \in 1 .. n - 1 : ss[i] = IF i \in U THEN <<t[i]>> ELSE <<>>
  <2>1. \A i \in 1 .. n - 1 : (IF i \in U THEN <<t[i]>> ELSE <<>>) \in Seq(Symbols)
    BY <1>1
  <2>2. n - 1 \in Nat
    BY <1>1
  <2> QED
    BY <2>1, <2>2
<1>3. At(t, n, U) = FlattenSeq(ss)
  BY DEF At
<1> HIDE DEF ss
<1>4. PICK F : FlattensAlong(F, ss, Symbols)
  BY <1>2, FlattenRuns
<1>5. /\ F[0] = <<>> /\ At(t, n, U) = F[n - 1]
      /\ \A i \in 0 .. n - 1 : F[i] \in Seq(Symbols)
      /\ \A i \in 1 .. n - 1 : F[i] = F[i - 1] \o ss[i]
  BY <1>2, <1>3, <1>4 DEF FlattensAlong
<1>6. \A i \in 1 .. n - 1 :
        F[i] = IF i \in U THEN Append(F[i - 1], t[i]) ELSE F[i - 1]
  <2> SUFFICES ASSUME NEW i \in 1 .. n - 1
               PROVE  F[i] = IF i \in U THEN Append(F[i - 1], t[i]) ELSE F[i - 1]
    OBVIOUS
  <2>1. F[i - 1] \in Seq(Symbols) /\ t[i] \in Symbols
    BY <1>1, <1>5
  <2>2. F[i - 1] \o <<t[i]>> = Append(F[i - 1], t[i])
    BY <2>1, AppendIsConcat
  <2>3. F[i - 1] \o <<>> = F[i - 1]
    BY <2>1, ConcatEmptySeq
  <2> QED
    BY <1>2, <1>5, <2>2, <2>3
<1>7. F[m] = <<>>
  <2> DEFINE g == [i \in 0 .. m |-> <<>>]
  <2>1. \A i \in 1 .. m : F[i - 1] = g[i - 1] => F[i] = g[i]
    <3> SUFFICES ASSUME NEW i \in 1 .. m, F[i - 1] = g[i - 1]
                 PROVE  F[i] = g[i]
      OBVIOUS
    <3>1. i \in 1 .. n - 1 /\ i \notin U
      BY <1>1
    <3>2. g[i] = <<>> /\ g[i - 1] = <<>>
      BY <1>1
    <3> QED
      BY <1>6, <3>1, <3>2
  <2>2. F[0] = g[0] /\ g[m] = <<>>
    BY <1>1, <1>5
  <2> HIDE DEF g
  <2> QED
    BY <1>1, <2>1, <2>2, RunsAgree
<1> DEFINE N == n - m - 1
           g == [j \in 0 .. N |-> [at |-> IF m + j \in inner \ U THEN "escape" ELSE "string",
                                   out |-> F[m + j]]]
<1>8. N \in Nat
  BY <1>1
<1>9. \A j \in 1 .. n - m : r[j] = Read(r[j - 1], t[m + j])
  BY <1>1 DEF ReadsAlong
<1>10. r[0] = g[0]
  <2>1. g[0] = [at |-> "string", out |-> <<>>]
    BY <1>1, <1>7, <1>8
  <2> QED
    BY <2>1 DEF ReadsAlong, Start
<1>11. ASSUME NEW j \in 1 .. N, r[j - 1] = g[j - 1]
       PROVE  r[j] = g[j]
  <2> DEFINE i == m + j
  <2>1. i \in inner /\ i \in 1 .. n - 1 /\ i - 1 = m + (j - 1) /\ j \in 1 .. n - m
    BY <1>1
  <2>2. r[j] = Read(g[j - 1], t[i])
    BY <1>9, <1>11, <2>1, SMTT(40)
  <2>3. /\ g[j - 1].at = IF i - 1 \in inner \ U THEN "escape" ELSE "string"
        /\ g[j - 1].out = F[i - 1]
        /\ g[j - 1] = [at |-> g[j - 1].at, out |-> F[i - 1]]
    BY <1>1, <2>1
  <2>4. g[j] = [at |-> IF i \in inner \ U THEN "escape" ELSE "string", out |-> F[i]]
    BY <1>1
  <2>5. F[i] = IF i \in U THEN Append(F[i - 1], t[i]) ELSE F[i - 1]
    BY <1>6, <2>1
  <2>6. IF i \in U THEN t[i] \in {Quote, Backslash} => i - 1 \in inner \ U
        ELSE t[i] = Backslash /\ i + 1 \in U
    BY <2>1 DEF Units
  <2>7. i - 1 \in inner \ U => i \in U
    <3> SUFFICES ASSUME i - 1 \in inner \ U PROVE i \in U
      OBVIOUS
    <3>1. (i - 1) + 1 \in U
      BY DEF Units
    <3> QED
      BY <1>1, <3>1
  <2> HIDE DEF g, inner, i
  <2>8. CASE i \notin U
    <3>1. g[j - 1] = [at |-> "string", out |-> F[i - 1]] /\ t[i] = Backslash
      BY <2>3, <2>6, <2>7, <2>8
    <3>2. Read([at |-> "string", out |-> F[i - 1]], Backslash)
            = [at |-> "escape", out |-> F[i - 1]]
      BY SymbolsDiffer DEF Read
    <3> QED
      BY <2>1, <2>2, <2>4, <2>5, <2>8, <3>1, <3>2
  <2>9. CASE i \in U /\ i - 1 \in inner \ U
    <3>1. Read(g[j - 1], t[i]) = [at |-> "string", out |-> Append(F[i - 1], t[i])]
      BY <2>3, <2>9 DEF Read
    <3> QED
      BY <2>2, <2>4, <2>5, <2>9, <3>1
  <2>10. CASE i \in U /\ i - 1 \notin inner \ U
    <3>1. Read(g[j - 1], t[i]) = [at |-> "string", out |-> Append(F[i - 1], t[i])]
      BY <2>3, <2>6, <2>10 DEF Read
    <3> QED
      BY <2>2, <2>4, <2>5, <2>10, <3>1
  <2> QED
    BY <2>8, <2>9, <2>10
<1>12. r[N] = g[N]
  <2> HIDE DEF g, N
  <2> QED
    BY <1>8, <1>10, <1>11, RunsAgree
<1>13. g[N] = [at |-> "string", out |-> F[n - 1]]
  <2>1. m + N = n - 1
    BY <1>1
  <2>2. n - 1 \notin inner \ U
    <3> SUFFICES ASSUME n - 1 \in inner \ U PROVE FALSE
      OBVIOUS
    <3>1. (n - 1) + 1 \in U
      BY DEF Units
    <3> QED
      BY <1>1, <3>1
  <2>3. N \in 0 .. N
    BY <1>8
  <2> HIDE DEF N, inner
  <2> QED
    BY <2>1, <2>2, <2>3
<1>14. r[n - m] = Read(r[N], Quote)
  <2>1. n - m \in 1 .. n - m /\ (n - m) - 1 = N /\ m + (n - m) = n
    BY <1>1
  <2> QED
    BY <1>9, <2>1
<1>15. Read([at |-> "string", out |-> F[n - 1]], Quote) = [at |-> "end", out |-> F[n - 1]]
  BY DEF Read
<1>16. F[n - 1] \in Text
  BY <1>1, <1>5 DEF Text
<1> QED
  BY <1>5, <1>12, <1>13, <1>14, <1>15, <1>16

(* A reader that reaches the end of a text whose last symbol is no space   *)
(* has read the closing quote there, and followed its units.               *)
LEMMA ReadUnits ==
  ASSUME NEW t \in Text, NEW m \in 1 .. Len(t), NEW n \in m + 1 .. Len(t), t[n] # Space,
         NEW x \in Text, Len(x) = n - m, \A i \in 1 .. n - m : x[i] = t[m + i],
         NEW r, ReadsAlong(r, Start, x), r[n - m].at = "end"
  PROVE  t[n] = Quote /\ \E U \in SUBSET (m + 1 .. n - 1) : Units(t, m + 1 .. n - 1, U)
<1> DEFINE inner == m + 1 .. n - 1
           K == n - m
           U == {i \in inner : r[i - m].at = "string"}
<1>1. /\ m \in Nat /\ n \in Nat /\ m >= 1 /\ m + 1 <= n /\ n <= Len(t) /\ Len(t) \in Nat
      /\ K \in Nat /\ K >= 1
  BY DEF Text
<1>2. \A j \in 0 .. K : r[j] \in Reader
  BY DEF ReadsAlong
<1>3. \A j \in 1 .. K : r[j] = Read(r[j - 1], t[m + j])
  BY <1>1 DEF ReadsAlong
<1>4. \A j \in 1 .. K : j - 1 \in 0 .. K
  BY <1>1
<1>5. ASSUME NEW q \in Reader, NEW c
      PROVE  /\ Read(q, c).at = "string" => \/ q.at = "string" /\ c \notin {Quote, Backslash}
                                            \/ q.at = "escape"
             /\ Read(q, c).at = "escape" => q.at = "string" /\ c = Backslash
             /\ Read(q, c).at = "end" /\ c # Space => q.at = "string" /\ c = Quote
             /\ q.at = "escape" => Read(q, c).at = "string"
  BY DEF Reader, Read
<1>6. t[n] = Quote /\ r[K - 1].at = "string"
  <2>1. K \in 1 .. K /\ m + K = n
    BY <1>1
  <2>2. r[K] = Read(r[K - 1], t[n]) /\ r[K - 1] \in Reader
    BY <1>2, <1>3, <1>4, <2>1
  <2> QED
    BY <1>5, <2>2
<1>7. \A j \in 0 .. K - 1 : r[j].at \in {"string", "escape"}
  <2> DEFINE T == {k \in Nat : k <= K - 1 => r[K - 1 - k].at \in {"string", "escape"}}
  <2>1. 0 \in T
    BY <1>1, <1>6
  <2>2. ASSUME NEW k \in Nat, k \in T
        PROVE  k + 1 \in T
    <3> SUFFICES ASSUME k + 1 <= K - 1
                 PROVE  r[K - 1 - (k + 1)].at \in {"string", "escape"}
      OBVIOUS
    <3> DEFINE j == K - 1 - k
    <3>1. j \in 1 .. K /\ j - 1 = K - 1 - (k + 1) /\ j - 1 \in 0 .. K
      BY <1>1
    <3>2. r[j].at \in {"string", "escape"}
      BY <1>1, <2>2
    <3>3. r[j] = Read(r[j - 1], t[m + j]) /\ r[j - 1] \in Reader
      BY <1>2, <1>3, <3>1
    <3> HIDE DEF j
    <3>4. r[j - 1].at \in {"string", "escape"}
      BY <1>5, <3>2, <3>3
    <3> QED
      BY <3>1, <3>4
  <2> HIDE DEF T
  <2>3. Nat \subseteq T
    BY <2>1, <2>2, NatSetInduction
  <2> SUFFICES ASSUME NEW j \in 0 .. K - 1
               PROVE  r[j].at \in {"string", "escape"}
    OBVIOUS
  <2>4. K - 1 - j \in Nat /\ K - 1 - j <= K - 1 /\ K - 1 - (K - 1 - j) = j
    BY <1>1
  <2>5. K - 1 - j \in T
    BY <2>3, <2>4
  <2> QED
    BY <2>4, <2>5 DEF T
<1>8. ASSUME NEW i \in inner
      PROVE  IF i \in U THEN t[i] \in {Quote, Backslash} => i - 1 \in inner \ U
             ELSE t[i] = Backslash /\ i + 1 \in U
  <2> DEFINE j == i - m
  <2>1. j \in 1 .. K /\ j \in 0 .. K - 1 /\ j - 1 \in 0 .. K - 1 /\ m + j = i
    BY <1>1
  <2>2. r[j] = Read(r[j - 1], t[i]) /\ r[j - 1] \in Reader /\ r[j] \in Reader
    BY <1>2, <1>3, <1>4, <2>1
  <2>3. CASE i \in U
    <3>1. r[j].at = "string"
      BY <2>3
    <3>2. t[i] \in {Quote, Backslash} => r[j - 1].at = "escape"
      <4> HIDE DEF j
      <4> QED
        BY <1>5, <2>2, <3>1
    <3>3. r[j - 1].at = "escape" => j - 1 # 0
      BY DEF ReadsAlong, Start
    <3>4. j - 1 # 0 => i - 1 \in inner
      BY <1>1
    <3>5. r[j - 1].at = "escape" => i - 1 \notin U
      <4>1. (i - 1) - m = j - 1
        BY <1>1
      <4> QED
        BY <4>1
    <3> QED
      BY <2>3, <3>2, <3>3, <3>4, <3>5
  <2>4. CASE i \notin U
    <3>1. r[j].at = "escape"
      BY <1>7, <2>1, <2>4
    <3>2. t[i] = Backslash
      <4> HIDE DEF j
      <4> QED
        BY <1>5, <2>2, <3>1
    <3>3. j # K - 1
      BY <1>6, <3>1
    <3>4. j + 1 \in 1 .. K /\ (j + 1) - 1 = j /\ i + 1 \in inner /\ (i + 1) - m = j + 1
      BY <1>1, <3>3
    <3>5. r[j + 1] = Read(r[j], t[m + (j + 1)])
      BY <1>3, <3>4
    <3>6. r[j + 1].at = "string"
      <4> HIDE DEF j
      <4> QED
        BY <1>5, <2>2, <3>1, <3>5
    <3> QED
      BY <2>4, <3>2, <3>4, <3>6
  <2> QED
    BY <2>3, <2>4
<1>9. Units(t, inner, U)
  <2> HIDE DEF U, inner
  <2> QED
    BY <1>8 DEF Units
<1> QED
  BY <1>6, <1>9

LEMMA NoTextIsNone ==
  ASSUME NEW v \in Text
  PROVE  v # None
BY SymbolsAssumption DEF Text

(* parse_quoted reads a text exactly when it is a string of the grammar,   *)
(* and then reads what it says.                                            *)
LEMMA SaysWhatIsRead ==
  ASSUME NEW t \in Text
  PROVE  Says(t) = {parse_quoted(t)} \ {None}
<1>1. CASE Solid(t) = {}
  <2>1. Says(t) = {}
    BY <1>1 DEF Says, Solid
  <2>2. parse_quoted(t) = None
    BY <1>1, TrimPart DEF parse_quoted
  <2> QED
    BY <2>1, <2>2
<1>2. CASE Solid(t) # {}
  <2>1. PICK m, n \in 1 .. Len(t) :
          /\ m = Min(Solid(t)) /\ n = Max(Solid(t)) /\ m <= n
          /\ t[m] # Space /\ t[n] # Space
          /\ Len(trim(t)) = n - m + 1
          /\ \A i \in 1 .. n - m + 1 : trim(t)[i] = t[m + i - 1]
    BY <1>2, TrimPart
  <2> DEFINE u == trim(t)
             x == Tail(u)
             inner == m + 1 .. n - 1
  <2>2. m \in Nat /\ n \in Nat /\ m <= n
    BY <2>1
  <2>3. u \in Text /\ u # <<>> /\ u[1] = t[m] /\ Len(u) = n - m + 1
    <3>1. u \in Text /\ Len(u) = n - m + 1 /\ n - m + 1 # 0 /\ 1 \in 1 .. n - m + 1
      BY <2>1, <2>2, TrimPart
    <3> QED
      BY <2>1, <2>2, <3>1
  <2>4. Says(t) = IF m = n \/ t[m] # Quote \/ t[n] # Quote THEN {}
                  ELSE {At(t, n, U) : U \in {V \in SUBSET inner : Units(t, inner, V)}}
    BY <1>2, <2>1 DEF Says, Solid
  <2>5. CASE t[m] # Quote
    <3>1. parse_quoted(t) = None
      BY <2>3, <2>5 DEF parse_quoted
    <3> QED
      BY <2>4, <2>5, <3>1
  <2>6. CASE t[m] = Quote
    <3>1. /\ x \in Text /\ Len(x) = n - m
          /\ \A i \in 1 .. n - m : x[i] = t[m + i]
      <4>1. x \in Text /\ Len(x) = n - m /\ \A i \in 1 .. Len(x) : x[i] = u[i + 1]
        <5> HIDE DEF u
        <5> QED
          BY <2>2, <2>3, HeadTailProperties DEF Text
      <4>2. \A i \in 1 .. n - m : u[i + 1] = t[m + i]
        BY <2>1, <2>2, SMTT(40)
      <4> HIDE DEF u, x
      <4> QED
        BY <4>1, <4>2
    <3>2. PICK r : ReadsAlong(r, Start, x)
      <4> HIDE DEF x
      <4> QED
        BY <3>1, StartIn, ReadRuns DEF Text
    <3>3. parse_quoted(t) = IF r[n - m].at = "end" THEN r[n - m].out ELSE None
      <4>1. FoldLeft(Read, Start, x) = r[n - m]
        BY <3>1, <3>2 DEF ReadsAlong
      <4>2. parse_quoted(t) = LET q == FoldLeft(Read, Start, x)
                              IN  IF q.at = "end" THEN q.out ELSE None
        BY <2>3, <2>6 DEF parse_quoted, Start
      <4> QED
        BY <4>1, <4>2
    <3> HIDE DEF x
    <3>4. CASE m = n
      <4>1. r[n - m] = Start
        BY <2>2, <3>2, <3>4 DEF ReadsAlong
      <4>2. parse_quoted(t) = None
        BY <3>3, <4>1 DEF Start
      <4> QED
        BY <2>4, <3>4, <4>2
    <3>5. CASE m # n
      <4>1. n \in m + 1 .. Len(t)
        BY <2>1, <2>2, <3>5
      <4>2. \A U \in SUBSET inner :
              t[n] = Quote /\ Units(t, inner, U)
                => At(t, n, U) \in Text /\ r[n - m] = [at |-> "end", out |-> At(t, n, U)]
        BY <3>1, <3>2, <4>1, UnitsRead, ZenonT(60)
      <4>3. r[n - m].at = "end" =>
              t[n] = Quote /\ \E U \in SUBSET inner : Units(t, inner, U)
        BY <2>1, <3>1, <3>2, <4>1, ReadUnits
      <4> HIDE DEF inner
      <4>4. CASE r[n - m].at = "end"
        <5>1. t[n] = Quote
          BY <4>3, <4>4
        <5>2. PICK U \in SUBSET inner : Units(t, inner, U)
          BY <4>3, <4>4
        <5>3. parse_quoted(t) = r[n - m].out
          BY <3>3, <4>4
        <5>4. \A V \in SUBSET inner : Units(t, inner, V) =>
                At(t, n, V) \in Text /\ r[n - m].out = At(t, n, V)
          <6> SUFFICES ASSUME NEW V \in SUBSET inner, Units(t, inner, V)
                       PROVE  At(t, n, V) \in Text /\ r[n - m].out = At(t, n, V)
            OBVIOUS
          <6>1. At(t, n, V) \in Text /\ r[n - m] = [at |-> "end", out |-> At(t, n, V)]
            BY <4>2, <5>1
          <6> QED
            BY <6>1
        <5>5. r[n - m].out = At(t, n, U) /\ r[n - m].out # None
          BY <5>2, <5>4, NoTextIsNone
        <5>6. Says(t) = {At(t, n, V) : V \in {W \in SUBSET inner : Units(t, inner, W)}}
          BY <2>4, <2>6, <3>5, <5>1
        <5>7. Says(t) = {r[n - m].out}
          BY <5>2, <5>4, <5>6
        <5> QED
          BY <5>3, <5>5, <5>7
      <4>5. CASE r[n - m].at # "end"
        <5>1. parse_quoted(t) = None
          BY <3>3, <4>5
        <5>2. \A U \in SUBSET inner : ~(t[n] = Quote /\ Units(t, inner, U))
          <6> SUFFICES ASSUME NEW U \in SUBSET inner, t[n] = Quote /\ Units(t, inner, U)
                       PROVE  FALSE
            OBVIOUS
          <6>1. r[n - m] = [at |-> "end", out |-> At(t, n, U)]
            BY <4>2
          <6> QED
            BY <4>5, <6>1
        <5>3. Says(t) = {}
          BY <2>4, <5>2
        <5> QED
          BY <5>1, <5>3
      <4> QED
        BY <4>4, <4>5
    <3> QED
      BY <3>4, <3>5
  <2> QED
    BY <2>5, <2>6
<1> QED
  BY <1>1, <1>2

-----------------------------------------------------------------------------
(* The reports a browser makes are lists of entries. *)

EntriesOK == entries \in Seq(SkippedEntry)

LEMMA EntriesStep ==
  ASSUME EntriesOK, [HeaderNext]_headerVars
  PROVE  EntriesOK'
<1>1. CASE Skip
  <2>1. PICK r \in SkipReason : entries' = Append(entries, [reason |-> r, session_id |-> <<>>])
    BY <1>1 DEF Skip
  <2>2. [reason |-> r, session_id |-> <<>>] \in SkippedEntry
    BY DEF SkippedEntry
  <2> QED
    BY <2>1, <2>2, AppendProperties DEF EntriesOK
<1>2. CASE Extend
  <2>1. PICK p \in Pieces :
          entries' = [entries EXCEPT ![Len(entries)].session_id = @ \o p]
    BY <1>2 DEF Extend
  <2> DEFINE n == Len(entries)
             e == [entries[n] EXCEPT !.session_id = @ \o p]
  <2>2. n \in 1 .. n /\ entries[n] \in SkippedEntry
    BY <1>2, EmptySeq DEF Extend, EntriesOK
  <2>3. entries[n].session_id \o p \in Seq(Symbols)
    BY <2>2, PiecesAssumption, ConcatProperties DEF SkippedEntry
  <2>4. e \in SkippedEntry
    BY <2>2, <2>3 DEF SkippedEntry
  <2>5. entries' = [entries EXCEPT ![n] = e]
    BY <2>1
  <2> HIDE DEF e, n
  <2>6. [entries EXCEPT ![n] = e] \in Seq(SkippedEntry)
    BY <2>2, <2>4, ExceptSeq DEF EntriesOK, n
  <2> QED
    BY <2>5, <2>6 DEF EntriesOK
<1>3. CASE UNCHANGED headerVars
  BY <1>3 DEF EntriesOK, headerVars
<1> QED
  BY <1>1, <1>2, <1>3 DEF HeaderNext

LEMMA EntriesTyped ==
  HeaderSpec => []EntriesOK
<1>1. HeaderInit => EntriesOK
  BY DEF HeaderInit, EntriesOK
<1> QED
  BY <1>1, EntriesStep, PTL DEF HeaderSpec

(* The reader of Secure-Session-Response, Sec-Secure-Session-Id and of the *)
(* identifiers in a report accepts the strings of the grammar and no other *)
(* header, and reads what they say, for values of any length.              *)
THEOREM StringsAreParsed ==
  HeaderSpec => []ParsesAsString
<1>1. EntriesOK => ParsesAsString
  <2> SUFFICES ASSUME EntriesOK, NEW i \in DOMAIN entries,
                      NEW before \in {<<>>, <<Quote>>}, NEW after \in {<<>>, <<Quote>>}
               PROVE  Says(before \o IdOf(i) \o after)
                        = {parse_quoted(before \o IdOf(i) \o after)} \ {None}
    BY DEF ParsesAsString
  <2> DEFINE id == IdOf(i)
             t == before \o id \o after
  <2>1. id \in Seq(Symbols)
    <3>1. entries[i] \in SkippedEntry
      BY DEF EntriesOK
    <3> QED
      BY <3>1 DEF SkippedEntry, IdOf
  <2>2. before \in Seq(Symbols) /\ after \in Seq(Symbols)
    <3>1. <<Quote>> \in Seq(Symbols)
      BY SyntaxIn, Literals
    <3>2. <<>> \in Seq(Symbols)
      OBVIOUS
    <3> QED
      BY <3>1, <3>2
  <2> HIDE DEF id
  <2>3. before \o id \in Seq(Symbols)
    BY <2>1, <2>2, ConcatProperties
  <2>4. t \in Text
    BY <2>2, <2>3, ConcatProperties DEF Text
  <2> HIDE DEF t
  <2>5. Says(t) = {parse_quoted(t)} \ {None}
    BY <2>4, SaysWhatIsRead
  <2> QED
    BY <2>5 DEF t, id
<1> QED
  BY <1>1, EntriesTyped, PTL

-----------------------------------------------------------------------------
(* Cutting at the separators outside of quotes. *)

Cut == [at : {Outside, "string", "escape"}, pieces : Seq(Text) \ {<<>>}]

LEMMA PlacedIn ==
  ASSUME NEW p \in Seq(Text) \ {<<>>}, NEW c \in Symbols, NEW cuts
  PROVE  /\ Placed(p, c, cuts) \in Seq(Text) \ {<<>>}
         /\ Len(p) \in Nat \ {0}
         /\ cuts => Placed(p, c, cuts) = Append(p, <<>>)
         /\ ~cuts => /\ Len(Placed(p, c, cuts)) = Len(p)
                     /\ \A i \in 1 .. Len(p) :
                          Placed(p, c, cuts)[i] = IF i = Len(p) THEN Append(p[i], c) ELSE p[i]
<1>1. Len(p) \in Nat \ {0} /\ Len(p) \in 1 .. Len(p)
  BY EmptySeq
<1>2. CASE cuts
  <2>1. <<>> \in Text
    BY DEF Text
  <2>2. Append(p, <<>>) \in Seq(Text) \ {<<>>}
    BY <2>1, AppendProperties
  <2> QED
    BY <1>1, <1>2, <2>2 DEF Placed
<1>3. CASE ~cuts
  <2> DEFINE n == Len(p)
             e == Append(p[n], c)
  <2>1. p[n] \in Text
    BY <1>1
  <2>2. e \in Text
    BY <2>1, AppendProperties DEF Text
  <2>3. Placed(p, c, cuts) = [p EXCEPT ![n] = e]
    BY <1>3 DEF Placed
  <2> HIDE DEF e
  <2>4. /\ [p EXCEPT ![n] = e] \in Seq(Text)
        /\ Len([p EXCEPT ![n] = e]) = n
        /\ \A i \in 1 .. n : [p EXCEPT ![n] = e][i] = IF i = n THEN e ELSE p[i]
    BY <1>1, <2>2, ExceptSeq
  <2>5. [p EXCEPT ![n] = e] # <<>>
    BY <1>1, <2>4, EmptySeq
  <2> QED
    BY <1>1, <1>3, <2>3, <2>4, <2>5 DEF e
<1> QED
  BY <1>2, <1>3

LEMMA CutTyped ==
  ASSUME NEW sep, NEW q \in Cut, NEW c \in Symbols
  PROVE  CutTurn(q, c, sep) \in Cut
<1>1. Placed(q.pieces, c, q.at = Outside /\ c = sep) \in Seq(Text) \ {<<>>}
  BY PlacedIn DEF Cut
<1>2. Quoting(q.at, c) \in {Outside, "string", "escape"}
  BY DEF Cut, Quoting
<1> QED
  BY <1>1, <1>2 DEF CutTurn, Cut

CutAll(b, t, sep) == FoldLeft(LAMBDA cut, c : CutTurn(cut, c, sep), b, t)

(* What CutTurn makes of a text, symbol by symbol. *)
CutsAlong(f, b, t, sep) ==
  /\ f \in [0 .. Len(t) -> Cut]
  /\ f[0] = b
  /\ \A n \in 1 .. Len(t) : f[n] = CutTurn(f[n - 1], t[n], sep)
  /\ CutAll(b, t, sep) = f[Len(t)]

LEMMA CutRuns ==
  ASSUME NEW sep, NEW b \in Cut, NEW t \in Seq(Symbols)
  PROVE  \E f : CutsAlong(f, b, t, sep)
<1> DEFINE N == Len(t)
           d == [q \in Cut \X (1 .. N) |-> CutTurn(q[1], t[q[2]], sep)]
           Runs(f) == f = [S \in SUBSET (1 .. N) |->
                             IF S = {} THEN b ELSE CutTurn(f[S \ {Max(S)}], t[Max(S)], sep)]
           iter == CHOOSE f : Runs(f)
<1>1. N \in Nat /\ DOMAIN t = 1 .. N /\ \A n \in 1 .. N : t[n] \in Symbols
  OBVIOUS
<1>2. d \in [Cut \X (1 .. N) -> Cut]
  <2> SUFFICES ASSUME NEW q \in Cut, NEW n \in 1 .. N
               PROVE  CutTurn(q, t[n], sep) \in Cut
    OBVIOUS
  <2> QED
    BY <1>1, CutTyped
<1>3. PICK f : Tabulates(f, Cut, b, N, d)
  <2> HIDE DEF d, N
  <2> QED
    BY <1>1, <1>2, TableExists
<1>4. Runs(f)
  <2>1. ASSUME NEW S \in SUBSET (1 .. N)
        PROVE  f[S] = IF S = {} THEN b ELSE CutTurn(f[S \ {Max(S)}], t[Max(S)], sep)
    <3>1. S # {} => Max(S) \in 1 .. N /\ S \ {Max(S)} \in SUBSET (1 .. N)
      BY <1>1, MaxIn
    <3>2. S # {} => f[S \ {Max(S)}] \in Cut
      BY <1>3, <3>1 DEF Tabulates
    <3> QED
      BY <1>3, <3>1, <3>2 DEF Tabulates
  <2>2. f = [S \in SUBSET (1 .. N) |-> f[S]]
    BY <1>3 DEF Tabulates
  <2> QED
    BY <2>1, <2>2
<1>5. Runs(iter)
  <2> HIDE DEF Runs
  <2> QED
    BY <1>4
<1>6. CutAll(b, t, sep) = iter[1 .. N]
  BY <1>1 DEF CutAll, FoldLeft, MapThenFoldSet
<1> HIDE DEF iter
<1> DEFINE g == [n \in 0 .. N |-> iter[1 .. n]]
<1>7. ASSUME NEW n \in 0 .. N
      PROVE  g[n] = IF n = 0 THEN b ELSE CutTurn(g[n - 1], t[n], sep)
  <2>1. 1 .. n \in SUBSET (1 .. N)
    BY <1>1
  <2>2. IF n = 0 THEN 1 .. n = {}
        ELSE 1 .. n # {} /\ Max(1 .. n) = n /\ (1 .. n) \ {Max(1 .. n)} = 1 .. n - 1
    BY <1>1, <2>1, PrefixRuns
  <2>3. iter[1 .. n] = IF 1 .. n = {} THEN b
                       ELSE CutTurn(iter[(1 .. n) \ {Max(1 .. n)}], t[Max(1 .. n)], sep)
    BY <1>5, <2>1
  <2>4. n # 0 => g[n - 1] = iter[1 .. n - 1]
    BY <1>1
  <2> QED
    BY <2>2, <2>3, <2>4
<1>8. CutAll(b, t, sep) = g[N] /\ DOMAIN g = 0 .. N
  BY <1>1, <1>6
<1> HIDE DEF g
<1>9. g[0] = b /\ \A n \in 1 .. N : g[n] = CutTurn(g[n - 1], t[n], sep)
  BY <1>1, <1>7
<1>10. \A n \in 0 .. N : g[n] \in Cut
  <2> HIDE DEF N
  <2>1. \A n \in 1 .. N : g[n - 1] \in Cut => g[n] \in Cut
    BY <1>1, <1>9, CutTyped
  <2> QED
    BY <1>1, <1>9, <2>1, RunKeeps
<1>11. g = [n \in 0 .. N |-> g[n]]
  BY DEF g
<1> QED
  BY <1>9, <1>8, <1>10, <1>11 DEF CutsAlong

LEMMA CutEmpty ==
  ASSUME NEW sep, NEW b \in Cut
  PROVE  CutAll(b, <<>>, sep) = b
<1>1. <<>> \in Seq(Symbols) /\ Len(<<>>) = 0
  OBVIOUS
<1>2. PICK f : CutsAlong(f, b, <<>>, sep)
  BY <1>1, CutRuns
<1> QED
  BY <1>1, <1>2 DEF CutsAlong

LEMMA CutAppend ==
  ASSUME NEW sep, NEW b \in Cut, NEW t \in Seq(Symbols), NEW c \in Symbols
  PROVE  CutAll(b, Append(t, c), sep) = CutTurn(CutAll(b, t, sep), c, sep)
<1> DEFINE u == Append(t, c)
           N == Len(t)
<1>1. N \in Nat
  OBVIOUS
<1>2. /\ u \in Seq(Symbols) /\ N \in Nat /\ Len(u) = N + 1 /\ u[N + 1] = c
      /\ \A n \in 1 .. N : u[n] = t[n]
  <2>1. Len(u) = N + 1
    BY AppendProperties
  <2>2. u \in Seq(Symbols)
    BY AppendProperties
  <2>3. u[N + 1] = c
    BY AppendProperties
  <2>4. \A n \in 1 .. N : u[n] = t[n]
    BY AppendProperties
  <2> QED
    BY <1>1, <2>1, <2>2, <2>3, <2>4
<1>3. PICK f : CutsAlong(f, b, t, sep)
  BY CutRuns
<1> HIDE DEF u
<1>4. PICK g : CutsAlong(g, b, u, sep)
  BY <1>2, CutRuns
<1> HIDE DEF N
<1>5. f[N] = g[N]
  <2>1. /\ \A n \in 1 .. N : f[n] = CutTurn(f[n - 1], t[n], sep)
        /\ \A n \in 1 .. N : g[n] = CutTurn(g[n - 1], u[n], sep)
    BY <1>2, <1>3, <1>4 DEF CutsAlong, N
  <2>2. \A n \in 1 .. N : f[n - 1] = g[n - 1] => f[n] = g[n]
    BY <1>2, <2>1
  <2>3. f[0] = g[0]
    BY <1>3, <1>4 DEF CutsAlong
  <2> QED
    BY <1>1, <2>2, <2>3, RunsAgree
<1>6. g[N + 1] = CutTurn(g[N], c, sep)
  <2>1. N + 1 \in 1 .. Len(u) /\ (N + 1) - 1 = N
    BY <1>2
  <2> QED
    BY <1>2, <1>4, <2>1 DEF CutsAlong
<1> QED
  BY <1>2, <1>3, <1>4, <1>5, <1>6 DEF CutsAlong, u, N

LEMMA CutIn ==
  ASSUME NEW sep, NEW b \in Cut, NEW t \in Seq(Symbols)
  PROVE  CutAll(b, t, sep) \in Cut
<1>1. PICK f : CutsAlong(f, b, t, sep)
  BY CutRuns
<1>2. Len(t) \in 0 .. Len(t)
  OBVIOUS
<1> QED
  BY <1>1, <1>2 DEF CutsAlong

(* Cutting two texts is cutting the one and then the other. *)
LEMMA CutCat ==
  ASSUME NEW sep, NEW b \in Cut, NEW t \in Seq(Symbols), NEW u \in Seq(Symbols)
  PROVE  CutAll(b, t \o u, sep) = CutAll(CutAll(b, t, sep), u, sep)
<1> DEFINE r == CutAll(b, t, sep)
           T == {v \in Seq(Symbols) : CutAll(b, t \o v, sep) = CutAll(r, v, sep)}
<1>1. r \in Cut
  BY CutIn
<1>2. <<>> \in T
  BY <1>1, CutEmpty, ConcatEmptySeq, EmptySeq
<1> HIDE DEF r
<1>3. ASSUME NEW v \in Seq(Symbols), NEW c \in Symbols, v \in T
      PROVE  Append(v, c) \in T
  <2>1. t \o v \in Seq(Symbols)
    BY ConcatProperties
  <2>2. t \o Append(v, c) = Append(t \o v, c)
    BY AppendCat
  <2>3. CutAll(b, t \o v, sep) = CutAll(r, v, sep)
    BY <1>3
  <2>4. CutAll(b, Append(t \o v, c), sep) = CutTurn(CutAll(b, t \o v, sep), c, sep)
    BY <2>1, CutAppend
  <2>5. CutAll(r, Append(v, c), sep) = CutTurn(CutAll(r, v, sep), c, sep)
    BY <1>1, CutAppend
  <2>6. Append(v, c) \in Seq(Symbols)
    BY AppendProperties
  <2> QED
    BY <2>2, <2>3, <2>4, <2>5, <2>6
<1> HIDE DEF T
<1>4. u \in T
  BY <1>2, <1>3, TextInduction
<1> QED
  BY <1>4 DEF T, r

-----------------------------------------------------------------------------
(* Splitting at every separator. *)

Pieced == Seq(Text) \ {<<>>}

SplitTurn(pieces, c, sep) == Placed(pieces, c, c = sep)

LEMMA SplitTyped ==
  ASSUME NEW sep, NEW q \in Pieced, NEW c \in Symbols
  PROVE  SplitTurn(q, c, sep) \in Pieced
BY PlacedIn DEF Pieced, SplitTurn

SplitFrom(b, t, sep) == FoldLeft(LAMBDA pieces, c : SplitTurn(pieces, c, sep), b, t)

(* What splitting makes of a text, symbol by symbol. *)
SplitsAlong(f, b, t, sep) ==
  /\ f \in [0 .. Len(t) -> Pieced]
  /\ f[0] = b
  /\ \A n \in 1 .. Len(t) : f[n] = SplitTurn(f[n - 1], t[n], sep)
  /\ SplitFrom(b, t, sep) = f[Len(t)]

LEMMA SplitRuns ==
  ASSUME NEW sep, NEW b \in Pieced, NEW t \in Seq(Symbols)
  PROVE  \E f : SplitsAlong(f, b, t, sep)
<1> DEFINE N == Len(t)
           d == [q \in Pieced \X (1 .. N) |-> SplitTurn(q[1], t[q[2]], sep)]
           Runs(f) == f = [S \in SUBSET (1 .. N) |->
                             IF S = {} THEN b ELSE SplitTurn(f[S \ {Max(S)}], t[Max(S)], sep)]
           iter == CHOOSE f : Runs(f)
<1>1. N \in Nat /\ DOMAIN t = 1 .. N /\ \A n \in 1 .. N : t[n] \in Symbols
  OBVIOUS
<1>2. d \in [Pieced \X (1 .. N) -> Pieced]
  <2> SUFFICES ASSUME NEW q \in Pieced, NEW n \in 1 .. N
               PROVE  SplitTurn(q, t[n], sep) \in Pieced
    OBVIOUS
  <2> QED
    BY <1>1, SplitTyped
<1>3. PICK f : Tabulates(f, Pieced, b, N, d)
  <2> HIDE DEF d, N
  <2> QED
    BY <1>1, <1>2, TableExists
<1>4. Runs(f)
  <2>1. ASSUME NEW S \in SUBSET (1 .. N)
        PROVE  f[S] = IF S = {} THEN b ELSE SplitTurn(f[S \ {Max(S)}], t[Max(S)], sep)
    <3>1. S # {} => Max(S) \in 1 .. N /\ S \ {Max(S)} \in SUBSET (1 .. N)
      BY <1>1, MaxIn
    <3>2. S # {} => f[S \ {Max(S)}] \in Pieced
      BY <1>3, <3>1 DEF Tabulates
    <3> QED
      BY <1>3, <3>1, <3>2 DEF Tabulates
  <2>2. f = [S \in SUBSET (1 .. N) |-> f[S]]
    BY <1>3 DEF Tabulates
  <2> QED
    BY <2>1, <2>2
<1>5. Runs(iter)
  <2> HIDE DEF Runs
  <2> QED
    BY <1>4
<1>6. SplitFrom(b, t, sep) = iter[1 .. N]
  BY <1>1 DEF SplitFrom, FoldLeft, MapThenFoldSet
<1> HIDE DEF iter
<1> DEFINE g == [n \in 0 .. N |-> iter[1 .. n]]
<1>7. ASSUME NEW n \in 0 .. N
      PROVE  g[n] = IF n = 0 THEN b ELSE SplitTurn(g[n - 1], t[n], sep)
  <2>1. 1 .. n \in SUBSET (1 .. N)
    BY <1>1
  <2>2. IF n = 0 THEN 1 .. n = {}
        ELSE 1 .. n # {} /\ Max(1 .. n) = n /\ (1 .. n) \ {Max(1 .. n)} = 1 .. n - 1
    BY <1>1, <2>1, PrefixRuns
  <2>3. iter[1 .. n] = IF 1 .. n = {} THEN b
                       ELSE SplitTurn(iter[(1 .. n) \ {Max(1 .. n)}], t[Max(1 .. n)], sep)
    BY <1>5, <2>1
  <2>4. n # 0 => g[n - 1] = iter[1 .. n - 1]
    BY <1>1
  <2> QED
    BY <2>2, <2>3, <2>4
<1>8. SplitFrom(b, t, sep) = g[N] /\ DOMAIN g = 0 .. N
  BY <1>1, <1>6
<1> HIDE DEF g
<1>9. g[0] = b /\ \A n \in 1 .. N : g[n] = SplitTurn(g[n - 1], t[n], sep)
  BY <1>1, <1>7
<1>10. \A n \in 0 .. N : g[n] \in Pieced
  <2> HIDE DEF N
  <2>1. \A n \in 1 .. N : g[n - 1] \in Pieced => g[n] \in Pieced
    BY <1>1, <1>9, SplitTyped
  <2> QED
    BY <1>1, <1>9, <2>1, RunKeeps
<1>11. g = [n \in 0 .. N |-> g[n]]
  BY DEF g
<1> QED
  BY <1>9, <1>8, <1>10, <1>11 DEF SplitsAlong

LEMMA SplitEmpty ==
  ASSUME NEW sep, NEW b \in Pieced
  PROVE  SplitFrom(b, <<>>, sep) = b
<1>1. <<>> \in Seq(Symbols) /\ Len(<<>>) = 0
  OBVIOUS
<1>2. PICK f : SplitsAlong(f, b, <<>>, sep)
  BY <1>1, SplitRuns
<1> QED
  BY <1>1, <1>2 DEF SplitsAlong

LEMMA SplitAppend ==
  ASSUME NEW sep, NEW b \in Pieced, NEW t \in Seq(Symbols), NEW c \in Symbols
  PROVE  SplitFrom(b, Append(t, c), sep) = SplitTurn(SplitFrom(b, t, sep), c, sep)
<1> DEFINE u == Append(t, c)
           N == Len(t)
<1>1. N \in Nat
  OBVIOUS
<1>2. /\ u \in Seq(Symbols) /\ N \in Nat /\ Len(u) = N + 1 /\ u[N + 1] = c
      /\ \A n \in 1 .. N : u[n] = t[n]
  <2>1. Len(u) = N + 1
    BY AppendProperties
  <2>2. u \in Seq(Symbols)
    BY AppendProperties
  <2>3. u[N + 1] = c
    BY AppendProperties
  <2>4. \A n \in 1 .. N : u[n] = t[n]
    BY AppendProperties
  <2> QED
    BY <1>1, <2>1, <2>2, <2>3, <2>4
<1>3. PICK f : SplitsAlong(f, b, t, sep)
  BY SplitRuns
<1> HIDE DEF u
<1>4. PICK g : SplitsAlong(g, b, u, sep)
  BY <1>2, SplitRuns
<1> HIDE DEF N
<1>5. f[N] = g[N]
  <2>1. /\ \A n \in 1 .. N : f[n] = SplitTurn(f[n - 1], t[n], sep)
        /\ \A n \in 1 .. N : g[n] = SplitTurn(g[n - 1], u[n], sep)
    BY <1>2, <1>3, <1>4 DEF SplitsAlong, N
  <2>2. \A n \in 1 .. N : f[n - 1] = g[n - 1] => f[n] = g[n]
    BY <1>2, <2>1
  <2>3. f[0] = g[0]
    BY <1>3, <1>4 DEF SplitsAlong
  <2> QED
    BY <1>1, <2>2, <2>3, RunsAgree
<1>6. g[N + 1] = SplitTurn(g[N], c, sep)
  <2>1. N + 1 \in 1 .. Len(u) /\ (N + 1) - 1 = N
    BY <1>2
  <2> QED
    BY <1>2, <1>4, <2>1 DEF SplitsAlong
<1> QED
  BY <1>2, <1>3, <1>4, <1>5, <1>6 DEF SplitsAlong, u, N

LEMMA SplitIn ==
  ASSUME NEW sep, NEW b \in Pieced, NEW t \in Seq(Symbols)
  PROVE  SplitFrom(b, t, sep) \in Pieced
<1>1. PICK f : SplitsAlong(f, b, t, sep)
  BY SplitRuns
<1>2. Len(t) \in 0 .. Len(t)
  OBVIOUS
<1> QED
  BY <1>1, <1>2 DEF SplitsAlong

(* Splitting two texts is splitting the one and then the other. *)
LEMMA SplitCat ==
  ASSUME NEW sep, NEW b \in Pieced, NEW t \in Seq(Symbols), NEW u \in Seq(Symbols)
  PROVE  SplitFrom(b, t \o u, sep) = SplitFrom(SplitFrom(b, t, sep), u, sep)
<1> DEFINE r == SplitFrom(b, t, sep)
           T == {v \in Seq(Symbols) : SplitFrom(b, t \o v, sep) = SplitFrom(r, v, sep)}
<1>1. r \in Pieced
  BY SplitIn
<1>2. <<>> \in T
  BY <1>1, SplitEmpty, ConcatEmptySeq, EmptySeq
<1> HIDE DEF r
<1>3. ASSUME NEW v \in Seq(Symbols), NEW c \in Symbols, v \in T
      PROVE  Append(v, c) \in T
  <2>1. t \o v \in Seq(Symbols)
    BY ConcatProperties
  <2>2. t \o Append(v, c) = Append(t \o v, c)
    BY AppendCat
  <2>3. SplitFrom(b, t \o v, sep) = SplitFrom(r, v, sep)
    BY <1>3
  <2>4. SplitFrom(b, Append(t \o v, c), sep) = SplitTurn(SplitFrom(b, t \o v, sep), c, sep)
    BY <2>1, SplitAppend
  <2>5. SplitFrom(r, Append(v, c), sep) = SplitTurn(SplitFrom(r, v, sep), c, sep)
    BY <1>1, SplitAppend
  <2>6. Append(v, c) \in Seq(Symbols)
    BY AppendProperties
  <2> QED
    BY <2>2, <2>3, <2>4, <2>5, <2>6
<1> HIDE DEF T
<1>4. u \in T
  BY <1>2, <1>3, TextInduction
<1> QED
  BY <1>4 DEF T, r

LEMMA SplitIsFrom ==
  ASSUME NEW t, NEW sep
  PROVE  split(t, sep) = SplitFrom(<< <<>> >>, t, sep)
BY DEF split, SplitFrom, SplitTurn

LEMMA CutIsFrom ==
  ASSUME NEW t, NEW sep
  PROVE  SplitOutside(t, sep) = CutAll([at |-> Outside, pieces |-> << <<>> >>], t, sep).pieces
BY DEF SplitOutside, CutAll

-----------------------------------------------------------------------------
(* What the server writes falls at its separators into what it put there.  *)

(* A text that is cut so far: the pieces before the last, and the last.    *)
CutSoFar(at, front, last) == [at |-> at, pieces |-> Append(front, last)]

LEMMA PlacedLast ==
  ASSUME NEW front \in Seq(Text), NEW last \in Text, NEW c \in Symbols, NEW cuts
  PROVE  /\ Append(front, last) \in Seq(Text) \ {<<>>}
         /\ Append(last, c) \in Text
         /\ cuts => Placed(Append(front, last), c, cuts) = Append(Append(front, last), <<>>)
         /\ ~cuts => Placed(Append(front, last), c, cuts) = Append(front, Append(last, c))
<1> DEFINE p == Append(front, last)
           e == Append(last, c)
           q == Placed(p, c, cuts)
           n == Len(front)
<1>1. n \in Nat
  OBVIOUS
<1>2. /\ p \in Seq(Text) \ {<<>>} /\ Len(p) = n + 1 /\ p[n + 1] = last
      /\ \A i \in 1 .. n : p[i] = front[i]
  BY AppendProperties
<1>3. e \in Text
  BY AppendProperties DEF Text
<1> HIDE DEF p, e
<1>4. cuts => q = Append(p, <<>>)
  BY <1>2, PlacedIn
<1>5. CASE ~cuts
  <2>1. /\ q \in Seq(Text) /\ Len(q) = n + 1
        /\ \A i \in 1 .. n + 1 : q[i] = IF i = n + 1 THEN Append(p[i], c) ELSE p[i]
    BY <1>2, <1>5, PlacedIn
  <2> DEFINE f == Append(front, e)
  <2>2. /\ f \in Seq(Text) /\ Len(f) = n + 1 /\ f[n + 1] = e
        /\ \A i \in 1 .. n : f[i] = front[i]
    BY <1>3, AppendProperties
  <2> HIDE DEF f, q
  <2>3. \A i \in 1 .. n + 1 : q[i] = f[i]
    <3> SUFFICES ASSUME NEW i \in 1 .. n + 1
                 PROVE  q[i] = f[i]
      OBVIOUS
    <3>1. CASE i = n + 1
      BY <1>2, <2>1, <2>2, <3>1 DEF e
    <3>2. CASE i # n + 1
      <4>1. i \in 1 .. n
        BY <1>1, <3>2
      <4> QED
        BY <1>2, <2>1, <2>2, <3>2, <4>1
    <3> QED
      BY <3>1, <3>2
  <2>4. q = f
    BY <2>1, <2>2, <2>3, SeqEqual
  <2> QED
    BY <1>2, <1>3, <1>4, <1>5, <2>4 DEF f, p, e, q
<1> QED
  BY <1>2, <1>3, <1>4, <1>5 DEF p, e

LEMMA CutSoFarIn ==
  ASSUME NEW at \in {Outside, "string", "escape"}, NEW front \in Seq(Text), NEW last \in Text
  PROVE  CutSoFar(at, front, last) \in Cut
<1>1. Append(front, last) \in Seq(Text) \ {<<>>}
  BY AppendProperties
<1> QED
  BY <1>1 DEF CutSoFar, Cut

(* One symbol goes into the last piece, unless it cuts. *)
LEMMA CutTurnOne ==
  ASSUME NEW sep, NEW b \in Cut, NEW c \in Symbols
  PROVE  CutAll(b, <<c>>, sep) = CutTurn(b, c, sep)
<1>1. <<c>> = Append(<<>>, c) /\ <<>> \in Seq(Symbols)
  OBVIOUS
<1>2. CutAll(b, Append(<<>>, c), sep) = CutTurn(CutAll(b, <<>>, sep), c, sep)
  BY <1>1, CutAppend
<1>3. CutAll(b, <<>>, sep) = b
  BY CutEmpty
<1> QED
  BY <1>1, <1>2, <1>3

(* Where a reader of the grammar is. *)
Places == {Outside, "string", "escape"}

LEMMA CutKeeps ==
  ASSUME NEW sep, NEW at \in Places, NEW front \in Seq(Text), NEW last \in Text,
         NEW c \in Symbols, at # Outside \/ c # sep
  PROVE  CutAll(CutSoFar(at, front, last), <<c>>, sep)
           = CutSoFar(Quoting(at, c), front, Append(last, c))
<1> DEFINE b == CutSoFar(at, front, last)
           cuts == at = Outside /\ c = sep
<1>1. b \in Cut /\ b.at = at /\ b.pieces = Append(front, last)
  BY CutSoFarIn DEF CutSoFar, Places
<1>2. ~cuts
  OBVIOUS
<1>3. CutTurn(b, c, sep)
        = [at |-> Quoting(at, c), pieces |-> Placed(Append(front, last), c, cuts)]
  BY <1>1 DEF CutTurn
<1> HIDE DEF cuts, b
<1>4. Placed(Append(front, last), c, cuts) = Append(front, Append(last, c))
  BY <1>2, PlacedLast
<1>5. CutAll(b, <<c>>, sep) = CutTurn(b, c, sep)
  BY <1>1, CutTurnOne
<1> QED
  BY <1>3, <1>4, <1>5 DEF CutSoFar, b

LEMMA PlacesAre ==
  /\ Outside \in Places /\ "string" \in Places /\ "escape" \in Places
  /\ "string" # Outside /\ "escape" # Outside
  /\ Quoting(Outside, Quote) = "string" /\ Quoting("string", Quote) = Outside
  /\ Quoting("string", Backslash) = "escape"
  /\ \A c : Quoting("escape", c) = "string"
  /\ \A c : c # Quote => Quoting(Outside, c) = Outside
  /\ \A c : c \notin {Quote, Backslash} => Quoting("string", c) = "string"
BY SymbolsDiffer DEF Places, Quoting, Outside

LEMMA CutCuts ==
  ASSUME NEW sep \in Symbols, sep # Quote, NEW front \in Seq(Text), NEW last \in Text
  PROVE  CutAll(CutSoFar(Outside, front, last), <<sep>>, sep)
           = CutSoFar(Outside, Append(front, last), <<>>)
<1> DEFINE b == CutSoFar(Outside, front, last)
           cuts == b.at = Outside /\ sep = sep
<1>1. b \in Cut /\ b.at = Outside /\ b.pieces = Append(front, last)
  BY CutSoFarIn DEF CutSoFar
<1>2. cuts
  BY <1>1
<1>3. CutTurn(b, sep, sep)
        = [at |-> Quoting(Outside, sep), pieces |-> Placed(Append(front, last), sep, cuts)]
  BY <1>1 DEF CutTurn
<1> HIDE DEF cuts, b
<1>4. Placed(Append(front, last), sep, cuts) = Append(Append(front, last), <<>>)
  BY <1>2 DEF Placed
<1>5. CutAll(b, <<sep>>, sep) = CutTurn(b, sep, sep)
  BY <1>1, CutTurnOne
<1>6. Quoting(Outside, sep) = Outside
  BY DEF Quoting, Outside
<1> QED
  BY <1>3, <1>4, <1>5, <1>6 DEF CutSoFar, b

(* Inside a string an escaped text is not cut, and does not end it. *)
LEMMA CutEscaped ==
  ASSUME NEW sep, NEW front \in Seq(Text), NEW last \in Text, NEW v \in Seq(Symbols)
  PROVE  CutAll(CutSoFar("string", front, last), sf_escape(v), sep)
           = CutSoFar("string", front, last \o sf_escape(v))
<1> DEFINE b == CutSoFar("string", front, last)
           Reached(w) == CutSoFar("string", front, last \o sf_escape(w))
           T == {w \in Seq(Symbols) : CutAll(b, sf_escape(w), sep) = Reached(w)}
<1>1. b \in Cut
  BY CutSoFarIn
<1>2. <<>> \in T
  <2>1. sf_escape(<<>>) = <<>>
    BY EscapeSteps
  <2>2. last \o <<>> = last
    BY ConcatEmptySeq DEF Text
  <2>3. CutAll(b, <<>>, sep) = b
    BY <1>1, CutEmpty
  <2> QED
    BY <2>1, <2>2, <2>3, EmptySeq
<1>3. ASSUME NEW w \in Seq(Symbols), NEW c \in Symbols, w \in T
      PROVE  Append(w, c) \in T
  <2> DEFINE e == sf_escape(w)
             x == Escaped(c)
             l == last \o e
  <2>1. e \in Seq(Symbols) /\ sf_escape(Append(w, c)) = e \o x
    BY EscapeSteps
  <2>2. x \in Seq(Symbols)
    BY EscapedIn
  <2>3. CutAll(b, e, sep) = CutSoFar("string", front, l)
    BY <1>3
  <2> HIDE DEF e, x, b
  <2>4. CutAll(b, e \o x, sep) = CutAll(CutAll(b, e, sep), x, sep)
    BY <1>1, <2>1, <2>2, CutCat
  <2>5. l \in Seq(Symbols) /\ l \in Text
    BY <2>1, ConcatProperties DEF Text
  <2>6. last \o (e \o x) = l \o x
    <3>1. last \in Seq(Symbols)
      BY DEF Text
    <3>2. (last \o e) \o x = last \o (e \o x)
      BY <2>1, <2>2, <3>1, SMTT(40)
    <3> QED
      BY <3>2
  <2> HIDE DEF l
  <2>7. CutAll(CutSoFar("string", front, l), x, sep) = CutSoFar("string", front, l \o x)
    <3>1. CASE c \in {Quote, Backslash}
      <4>1. x = <<Backslash>> \o <<c>> /\ <<Backslash>> \in Seq(Symbols) /\ <<c>> \in Seq(Symbols)
        BY <3>1, SyntaxIn, Literals, AppendIsConcat, ZenonT(60) DEF Escaped, x
      <4> DEFINE str == "string"
                 esc == "escape"
                 k == Append(l, Backslash)
                 m == Append(k, c)
                 s == <<Backslash>>
                 y == <<c>>
      <4>2. k \in Text
        BY <2>5, SyntaxIn, AppendProperties DEF Text
      <4>3. /\ str \in Places /\ esc \in Places /\ str # Outside /\ esc # Outside
            /\ esc = Quoting(str, Backslash) /\ str = Quoting(esc, c) /\ Backslash \in Symbols
        BY PlacesAre, SyntaxIn
      <4>4. CutAll(CutSoFar(str, front, l), s, sep) = CutSoFar(esc, front, k)
        <5> DEFINE q == Backslash
        <5>1. q \in Symbols /\ s = <<q>> /\ k = Append(l, q) /\ esc = Quoting(str, q)
          BY <4>3
        <5> HIDE DEF str, esc, k, s, q
        <5>2. CutAll(CutSoFar(str, front, l), <<q>>, sep)
                = CutSoFar(Quoting(str, q), front, Append(l, q))
          BY <2>5, <4>3, <5>1, CutKeeps
        <5> QED
          BY <5>1, <5>2
      <4>5. CutAll(CutSoFar(esc, front, k), y, sep) = CutSoFar(str, front, m)
        <5>1. y = <<c>> /\ m = Append(k, c)
          OBVIOUS
        <5> HIDE DEF str, esc, k, m, y
        <5>2. CutAll(CutSoFar(esc, front, k), <<c>>, sep)
                = CutSoFar(Quoting(esc, c), front, Append(k, c))
          BY <4>2, <4>3, CutKeeps
        <5> QED
          BY <4>3, <5>1, <5>2
      <4>6. Append(Append(l, Backslash), c) = l \o x
        <5>1. /\ Append(l, Backslash) = l \o <<Backslash>>
              /\ Append(Append(l, Backslash), c) = Append(l, Backslash) \o <<c>>
          BY <2>5, <4>2, SyntaxIn, AppendIsConcat DEF Text
        <5> QED
          BY <2>5, <4>1, <5>1, SMTT(40)
      <4>7. CutAll(CutSoFar("string", front, l), <<Backslash>> \o <<c>>, sep)
              = CutAll(CutAll(CutSoFar("string", front, l), <<Backslash>>, sep), <<c>>, sep)
        BY <2>5, <4>1, CutSoFarIn, CutCat
      <4> QED
        BY <4>1, <4>4, <4>5, <4>6, <4>7
    <3>2. CASE c \notin {Quote, Backslash}
      <4>1. x = <<c>>
        BY <3>2 DEF Escaped, x
      <4>2. CutAll(CutSoFar("string", front, l), <<c>>, sep)
              = CutSoFar("string", front, Append(l, c))
        <5> DEFINE at == "string"
                   y == <<c>>
                   m == Append(l, c)
        <5>1. at \in Places /\ at # Outside /\ at = Quoting(at, c) /\ y = <<c>> /\ m = Append(l, c)
          BY <3>2, PlacesAre
        <5> HIDE DEF at, y, m
        <5>2. CutAll(CutSoFar(at, front, l), <<c>>, sep)
                = CutSoFar(Quoting(at, c), front, Append(l, c))
          BY <2>5, <5>1, CutKeeps
        <5> QED
          BY <5>1, <5>2 DEF at, m
      <4>3. Append(l, c) = l \o <<c>>
        BY <2>5, AppendIsConcat
      <4> QED
        BY <4>1, <4>2, <4>3
    <3> QED
      BY <3>1, <3>2
  <2>8. Append(w, c) \in Seq(Symbols)
    BY AppendProperties
  <2> QED
    BY <2>1, <2>3, <2>4, <2>6, <2>7, <2>8
<1> HIDE DEF T
<1>4. v \in T
  BY <1>2, <1>3, TextInduction
<1> QED
  BY <1>4 DEF T

(* A string opens and closes in the piece it is in. *)
LEMMA CutQuoted ==
  ASSUME NEW sep \in Symbols, sep # Quote,
         NEW front \in Seq(Text), NEW last \in Text, NEW v \in Text
  PROVE  CutAll(CutSoFar(Outside, front, last), Quoted(v), sep)
           = CutSoFar(Outside, front, last \o Quoted(v))
<1> DEFINE e == sf_escape(v)
           o == <<Quote>>
           b == CutSoFar(Outside, front, last)
           str == "string"
           l1 == last \o o
           l2 == l1 \o e
           l3 == l2 \o o
<1>1. e \in Seq(Symbols) /\ o \in Seq(Symbols) /\ last \in Seq(Symbols) /\ v \in Seq(Symbols)
  BY EscapeSteps, SyntaxIn, Literals DEF Text
<1>2. Quoted(v) = (o \o e) \o o
  BY DEF Quoted
<1>3. /\ str = Quoting(Outside, Quote) /\ Outside = Quoting(str, Quote)
      /\ str # Outside /\ str \in Places /\ Outside \in Places /\ Quote \in Symbols
  BY SyntaxIn, PlacesAre
<1> HIDE DEF e
<1>4. l1 \in Text /\ l1 = Append(last, Quote)
  BY <1>1, <1>3, ConcatProperties, AppendIsConcat DEF Text
<1>5. l2 \in Text
  BY <1>1, <1>4, ConcatProperties DEF Text
<1>6. l3 = Append(l2, Quote)
  <2> HIDE DEF l2
  <2> QED
    BY <1>3, <1>5, AppendIsConcat DEF Text
<1>7. l3 = last \o ((o \o e) \o o)
  <2> HIDE DEF o
  <2>1. o \o e \in Seq(Symbols) /\ last \o o \in Seq(Symbols)
    BY <1>1, ConcatProperties
  <2>2. (last \o o) \o e = last \o (o \o e)
    BY <1>1
  <2>3. (last \o (o \o e)) \o o = last \o ((o \o e) \o o)
    BY <1>1, <2>1, SMTT(40)
  <2> QED
    BY <2>2, <2>3
<1> HIDE DEF l1, l2, l3, str
<1>8. CutAll(b, o, sep) = CutSoFar(str, front, l1)
  <2> DEFINE q == Quote
  <2>1. q \in Symbols /\ o = <<q>> /\ l1 = Append(last, q) /\ str = Quoting(Outside, q) /\ q # sep
    BY <1>3, <1>4
  <2> HIDE DEF q, o, b
  <2>2. CutAll(CutSoFar(Outside, front, last), <<q>>, sep)
          = CutSoFar(Quoting(Outside, q), front, Append(last, q))
    BY <1>3, <2>1, CutKeeps
  <2> QED
    BY <2>1, <2>2 DEF b
<1>9. CutAll(CutSoFar(str, front, l1), e, sep) = CutSoFar(str, front, l2)
  BY <1>1, <1>4, CutEscaped DEF str, e, l2
<1>10. CutAll(CutSoFar(str, front, l2), o, sep) = CutSoFar(Outside, front, l3)
  <2> DEFINE q == Quote
  <2>1. q \in Symbols /\ o = <<q>> /\ l3 = Append(l2, q) /\ Outside = Quoting(str, q) /\ q # sep
    BY <1>3, <1>6
  <2> HIDE DEF q, o, b
  <2>2. CutAll(CutSoFar(str, front, l2), <<q>>, sep)
          = CutSoFar(Quoting(str, q), front, Append(l2, q))
    BY <1>3, <1>5, <2>1, CutKeeps
  <2> QED
    BY <2>1, <2>2
<1>11. b \in Cut
  BY CutSoFarIn
<1> HIDE DEF b, o
<1>12. o \o e \in Seq(Symbols)
  BY <1>1, ConcatProperties
<1>13. CutAll(b, (o \o e) \o o, sep) = CutAll(CutAll(b, o \o e, sep), o, sep)
  BY <1>1, <1>11, <1>12, CutCat
<1>14. CutAll(b, o \o e, sep) = CutAll(CutAll(b, o, sep), e, sep)
  BY <1>1, <1>11, CutCat
<1> QED
  BY <1>2, <1>7, <1>8, <1>9, <1>10, <1>13, <1>14 DEF b

(* A key starts a piece of its own. *)
LEMMA CutLead ==
  ASSUME NEW front \in Seq(Text), NEW last \in Text,
         NEW sc \in Symbols, NEW key \in Symbols, NEW eq \in Symbols,
         sc # Quote, key # Quote, eq # Quote, key # sc, eq # sc
  PROVE  CutAll(CutSoFar(Outside, front, last), <<sc, key, eq>>, sc)
           = CutSoFar(Outside, Append(front, last), <<key, eq>>)
<1> DEFINE p == Append(front, last)
           s == <<sc>>
           k == <<key>>
           q == <<eq>>
           lead == <<key, eq>>
           none == <<>>
           b == CutSoFar(Outside, front, last)
<1>1. p \in Seq(Text)
  BY AppendProperties
<1>2. Outside \in Places
  BY PlacesAre
<1>3. Outside = Quoting(Outside, key) /\ Outside = Quoting(Outside, eq)
  BY PlacesAre
<1>4. k = Append(none, key) /\ lead = Append(k, eq)
  BY Literals
<1>5. <<sc, key, eq>> = (s \o k) \o q
  BY ThreeOf
<1>6. s \in Seq(Symbols) /\ k \in Seq(Symbols) /\ q \in Seq(Symbols)
  BY Literals
<1>7. none \in Text
  BY EmptySeq DEF Text
<1>8. k \in Text
  BY <1>6 DEF Text
<1>9. s \o k \in Seq(Symbols)
  BY <1>6, ConcatProperties
<1>10. s = <<sc>> /\ k = <<key>> /\ q = <<eq>>
  OBVIOUS
<1>11. b \in Cut
  BY CutSoFarIn
<1> HIDE DEF p, s, k, q, lead, none, b
<1>12. CutAll(b, s, sc) = CutSoFar(Outside, p, none)
  BY <1>10, CutCuts DEF p, none, b
<1>13. CutAll(CutSoFar(Outside, p, none), k, sc) = CutSoFar(Outside, p, k)
  <2>1. CutAll(CutSoFar(Outside, p, none), <<key>>, sc)
          = CutSoFar(Quoting(Outside, key), p, Append(none, key))
    BY <1>1, <1>7, <1>2, CutKeeps
  <2> QED
    BY <1>3, <1>4, <1>10, <2>1
<1>14. CutAll(CutSoFar(Outside, p, k), q, sc) = CutSoFar(Outside, p, lead)
  <2>1. CutAll(CutSoFar(Outside, p, k), <<eq>>, sc)
          = CutSoFar(Quoting(Outside, eq), p, Append(k, eq))
    BY <1>1, <1>8, <1>2, CutKeeps
  <2> QED
    BY <1>3, <1>4, <1>10, <2>1
<1>15. CutAll(b, (s \o k) \o q, sc) = CutAll(CutAll(b, s \o k, sc), q, sc)
  BY <1>6, <1>9, <1>11, CutCat
<1>16. CutAll(b, s \o k, sc) = CutAll(CutAll(b, s, sc), k, sc)
  BY <1>6, <1>11, CutCat
<1>17. CutAll(b, <<sc, key, eq>>, sc) = CutSoFar(Outside, p, lead)
  BY <1>5, <1>12, <1>13, <1>14, <1>15, <1>16
<1> QED
  BY <1>17 DEF b, p, lead

LEMMA LastOf ==
  ASSUME NEW S, NEW s \in Seq(S), s # <<>>
  PROVE  \E front \in Seq(S), last \in S : s = Append(front, last)
<1> DEFINE n == Len(s) - 1
           front == [i \in 1 .. n |-> s[i]]
<1>1. n \in Nat /\ Len(s) = n + 1
  BY EmptySeq
<1> HIDE DEF n
<1>2. front \in Seq(S) /\ Len(front) = n
  BY <1>1
<1>3. s[n + 1] \in S /\ s = Append(front, s[n + 1])
  BY <1>1, <1>2
<1> QED
  BY <1>2, <1>3

(* Text without a quote or the separator goes into the last piece. *)
LEMMA CutPlain ==
  ASSUME NEW sep, NEW front \in Seq(Text), NEW last \in Text,
         NEW t \in Seq(Symbols \ {Quote, sep})
  PROVE  CutAll(CutSoFar(Outside, front, last), t, sep) = CutSoFar(Outside, front, last \o t)
<1> DEFINE S == Symbols \ {Quote, sep}
           b == CutSoFar(Outside, front, last)
           Reached(w) == CutSoFar(Outside, front, last \o w)
           T == {w \in Seq(S) : CutAll(b, w, sep) = Reached(w)}
<1>1. b \in Cut /\ Outside \in Places
  BY CutSoFarIn, PlacesAre DEF Places
<1>2. <<>> \in T
  <2>1. last \o <<>> = last
    BY ConcatEmptySeq DEF Text
  <2>2. CutAll(b, <<>>, sep) = b
    BY <1>1, CutEmpty
  <2> QED
    BY <2>1, <2>2, EmptySeq
<1>3. ASSUME NEW w \in Seq(S), NEW c \in S, w \in T
      PROVE  Append(w, c) \in T
  <2> DEFINE l == last \o w
  <2>1. c \in Symbols /\ c # sep /\ c # Quote
    OBVIOUS
  <2>2. w \in Seq(Symbols) /\ last \in Seq(Symbols)
    BY SeqMonotonic DEF Text
  <2>3. l \in Text
    BY <2>2, ConcatProperties DEF Text
  <2>4. CutAll(b, w, sep) = CutSoFar(Outside, front, l)
    BY <1>3
  <2>5. <<c>> \in Seq(Symbols) /\ Append(w, c) = w \o <<c>>
    BY <2>1, <2>2, Literals, AppendIsConcat
  <2>6. last \o Append(w, c) = Append(l, c)
    BY <2>1, <2>2, AppendCat
  <2>7. Append(w, c) \in Seq(S)
    BY AppendProperties
  <2>8. Quoting(Outside, c) = Outside
    BY <2>1, PlacesAre
  <2> HIDE DEF l, b, S
  <2>9. CutAll(CutSoFar(Outside, front, l), <<c>>, sep)
          = CutSoFar(Quoting(Outside, c), front, Append(l, c))
    BY <1>1, <2>1, <2>3, CutKeeps
  <2>10. CutAll(b, w \o <<c>>, sep) = CutAll(CutAll(b, w, sep), <<c>>, sep)
    BY <1>1, <2>2, <2>5, CutCat
  <2> QED
    BY <2>4, <2>5, <2>6, <2>7, <2>8, <2>9, <2>10
<1> HIDE DEF T
<1>4. t \in T
  BY <1>2, <1>3, TextInduction
<1> QED
  BY <1>4 DEF T

(* A parameter that is written is one more piece. *)
LEMMA CutParam ==
  ASSUME NEW ps \in Pieced, NEW v \in Text,
         NEW sc \in Symbols, NEW key \in Symbols, NEW eq \in Symbols,
         sc # Quote, key # Quote, eq # Quote, key # sc, eq # sc
  PROVE  /\ <<key, eq>> \o Quoted(v) \in Text
         /\ CutAll([at |-> Outside, pieces |-> ps], <<sc, key, eq>> \o Quoted(v), sc)
              = [at |-> Outside, pieces |-> Append(ps, <<key, eq>> \o Quoted(v))]
<1>1. PICK front \in Seq(Text), last \in Text : ps = Append(front, last)
  <2>1. ps \in Seq(Text) /\ ps # <<>>
    BY DEF Pieced
  <2> QED
    BY <2>1, LastOf
<1> DEFINE b == CutSoFar(Outside, front, last)
           lead == <<sc, key, eq>>
           kept == <<key, eq>>
           q == Quoted(v)
<1>2. /\ b = [at |-> Outside, pieces |-> ps] /\ b \in Cut
  BY <1>1, CutSoFarIn DEF CutSoFar
<1>3. lead \in Seq(Symbols) /\ kept \in Text
  BY ThreeOf, Literals DEF Text
<1>4. q \in Seq(Symbols)
  BY QuotedReadBack DEF Text
<1>5. CutAll(b, lead, sc) = CutSoFar(Outside, ps, kept)
  BY <1>1, CutLead
<1> HIDE DEF b, lead, kept, q
<1>6. ps \in Seq(Text)
  BY DEF Pieced
<1>7. CutAll(CutSoFar(Outside, ps, kept), q, sc) = CutSoFar(Outside, ps, kept \o q)
  BY <1>3, <1>6, CutQuoted DEF q
<1>8. CutAll(b, lead \o q, sc) = CutAll(CutAll(b, lead, sc), q, sc)
  BY <1>2, <1>3, <1>4, CutCat
<1>9. kept \o q \in Text
  BY <1>3, <1>4, ConcatProperties DEF Text
<1>10. CutAll(b, lead \o q, sc) = CutSoFar(Outside, ps, kept \o q)
  BY <1>5, <1>7, <1>8
<1> QED
  BY <1>2, <1>9, <1>10 DEF CutSoFar, lead, kept, q

(* And its value reads back from that piece. *)
LEMMA KeyValueOf ==
  ASSUME NEW v \in Text, NEW key \in Symbols, NEW eq, eq = "=",
         key # eq, key # Space
  PROVE  /\ KeyValue(<<key, eq>> \o Quoted(v)) = << <<key>>, Quoted(v) >>
         /\ ReadParam(<<key, eq>> \o Quoted(v)) = << <<key>>, v >>
<1> DEFINE q == Quoted(v)
           k == <<key>>
           h == <<key, eq>>
           t == h \o q
           at == {i \in DOMAIN t : t[i] = eq}
<1>1. eq \in Symbols /\ eq # Space
  BY SyntaxIn, SymbolsDiffer
<1>2. /\ q \in Text /\ q # <<>> /\ q[1] = Quote /\ q[Len(q)] = Quote /\ parse_quoted(q) = v
      /\ Len(q) \in Nat
  BY QuotedReadBack DEF Text
<1>3. h \in Seq(Symbols) /\ Len(h) = 2 /\ h[1] = key /\ h[2] = eq
      /\ k \in Seq(Symbols) /\ Len(k) = 1 /\ k[1] = key
  BY <1>1, Literals
<1> HIDE DEF q, k, h
<1>4. /\ t \in Seq(Symbols) /\ Len(t) = 2 + Len(q) /\ t[1] = key /\ t[2] = eq
      /\ \A i \in 1 .. Len(q) : t[i + 2] = q[i]
  <2>1. h \in Seq(Symbols) /\ q \in Seq(Symbols)
    BY <1>2, <1>3 DEF Text
  <2>2. t \in Seq(Symbols) /\ Len(t) = Len(h) + Len(q)
    BY <2>1, ConcatProperties
  <2>3. \A i \in 1 .. Len(h) : t[i] = h[i]
    BY <2>1, ConcatProperties
  <2>4. \A i \in 1 .. Len(q) : t[Len(h) + i] = q[i]
    BY <2>1, ConcatProperties
  <2> QED
    BY <1>2, <1>3, <2>2, <2>3, <2>4
<1> HIDE DEF t
<1>5. Min(at) = 2
  <2>1. at \in SUBSET Int /\ 2 \in at /\ \A y \in at : 2 <= y
    BY <1>2, <1>4
  <2> QED
    BY <2>1, MinIs
<1>6. at # {}
  BY <1>2, <1>4
<1>7. SubSeq(t, 1, 1) = k
  <2>1. /\ SubSeq(t, 1, 1) \in Seq(Symbols) /\ Len(SubSeq(t, 1, 1)) = 1
        /\ SubSeq(t, 1, 1)[1] = t[1]
    BY <1>2, <1>4, SubSeqProperties
  <2> QED
    BY <1>3, <1>4, <2>1, SeqEqual
<1>8. SubSeq(t, 3, Len(t)) = q
  <2> DEFINE u == SubSeq(t, 3, Len(t))
  <2>1. /\ u \in Seq(Symbols) /\ Len(u) = Len(q)
        /\ \A i \in 1 .. Len(q) : u[i] = t[i + 2]
    BY <1>2, <1>4, SubSeqProperties
  <2> HIDE DEF u
  <2>2. \A i \in 1 .. Len(q) : u[i] = q[i]
    BY <1>4, <2>1
  <2>3. u = q
    BY <1>2, <2>1, <2>2, SeqEqual DEF Text
  <2> QED
    BY <2>3 DEF u
<1>9. trim(k) = k
  <2>1. k \in Text /\ k # <<>> /\ k[1] # Space /\ k[Len(k)] # Space
    BY <1>3 DEF Text
  <2> QED
    BY <2>1, TrimSolid
<1>10. trim(q) = q
  <2>1. q[1] # Space /\ q[Len(q)] # Space
    BY <1>2, SymbolsDiffer
  <2> QED
    BY <1>2, <2>1, TrimSolid
<1>11. KeyValue(t) = << k, q >>
  <2>1. KeyValue(t) = <<trim(SubSeq(t, 1, Min(at) - 1)), trim(SubSeq(t, Min(at) + 1, Len(t)))>>
    BY <1>6 DEF KeyValue
  <2>2. Min(at) - 1 = 1 /\ Min(at) + 1 = 3
    BY <1>5
  <2> QED
    BY <1>7, <1>8, <1>9, <1>10, <2>1, <2>2
<1>12. ReadParam(t) = <<k, v>>
  BY <1>2, <1>11 DEF ReadParam
<1> QED
  BY <1>11, <1>12 DEF t, h, q, k

(* What a reader makes of the pieces, piece by piece. *)
AllRead(ps) == [n \in DOMAIN ps |-> ReadParam(ps[n])]

LEMMA AllReadCat ==
  ASSUME NEW x \in Seq(Text), NEW y \in Seq(Text)
  PROVE  AllRead(x \o y) = AllRead(x) \o AllRead(y)
<1> DEFINE S == {ReadParam(p) : p \in Text}
           z == x \o y
<1>1. /\ z \in Seq(Text) /\ Len(z) = Len(x) + Len(y)
      /\ \A i \in 1 .. Len(x) : z[i] = x[i]
      /\ \A i \in 1 .. Len(y) : z[i + Len(x)] = y[i]
      /\ Len(x) \in Nat /\ Len(y) \in Nat
  BY ConcatProperties
<1> HIDE DEF z
<1>2. ASSUME NEW s \in Seq(Text)
      PROVE  /\ AllRead(s) \in Seq(S) /\ Len(AllRead(s)) = Len(s)
             /\ \A i \in 1 .. Len(s) : AllRead(s)[i] = ReadParam(s[i])
  <2>1. DOMAIN s = 1 .. Len(s) /\ Len(s) \in Nat
    OBVIOUS
  <2>2. \A i \in 1 .. Len(s) : ReadParam(s[i]) \in S
    OBVIOUS
  <2> HIDE DEF S
  <2> QED
    BY <2>1, <2>2 DEF AllRead
<1> HIDE DEF S
<1> DEFINE a == AllRead(x)
           b == AllRead(y)
           c == AllRead(z)
<1>3. /\ a \in Seq(S) /\ Len(a) = Len(x) /\ \A i \in 1 .. Len(x) : a[i] = ReadParam(x[i])
      /\ b \in Seq(S) /\ Len(b) = Len(y) /\ \A i \in 1 .. Len(y) : b[i] = ReadParam(y[i])
      /\ c \in Seq(S) /\ Len(c) = Len(z) /\ \A i \in 1 .. Len(z) : c[i] = ReadParam(z[i])
  BY <1>1, <1>2
<1> HIDE DEF a, b, c
<1> DEFINE d == a \o b
<1>4. /\ d \in Seq(S) /\ Len(d) = Len(x) + Len(y)
      /\ \A i \in 1 .. Len(x) : d[i] = a[i]
      /\ \A i \in 1 .. Len(y) : d[i + Len(x)] = b[i]
  <2>1. a \in Seq(S) /\ b \in Seq(S) /\ Len(a) = Len(x) /\ Len(b) = Len(y)
    BY <1>3
  <2>2. d \in Seq(S) /\ Len(d) = Len(a) + Len(b)
    BY <2>1, ConcatProperties
  <2>3. \A i \in 1 .. Len(a) : d[i] = a[i]
    BY <2>1, ConcatProperties
  <2>4. \A i \in 1 .. Len(b) : d[Len(a) + i] = b[i]
    BY <2>1, ConcatProperties
  <2> QED
    BY <1>1, <2>1, <2>2, <2>3, <2>4
<1> HIDE DEF d
<1>5. ASSUME NEW i \in 1 .. Len(c)
      PROVE  c[i] = d[i]
  <2>1. CASE i \in 1 .. Len(x)
    BY <1>1, <1>3, <1>4, <2>1
  <2>2. CASE i \notin 1 .. Len(x)
    <3>1. i - Len(x) \in 1 .. Len(y) /\ (i - Len(x)) + Len(x) = i
      BY <1>1, <1>3, <2>2
    <3>2. z[i] = y[i - Len(x)] /\ d[i] = b[i - Len(x)]
      BY <1>1, <1>4, <3>1
    <3> QED
      BY <1>1, <1>3, <3>1, <3>2
  <2> QED
    BY <2>1, <2>2
<1>6. c = d
  BY <1>1, <1>3, <1>4, <1>5, SeqEqual
<1> QED
  BY <1>6 DEF c, d, a, b, z

-----------------------------------------------------------------------------
(* The headers of the server, as sequences of parameters.                  *)

Semicolon == ";"
Equals == "="

Keys == {"path", "challenge", "authorization", "provider_key",
         "provider_session_id", "provider_url", "id"}

LEMMA KeysAre ==
  /\ \A key \in Keys : /\ key \in Symbols /\ key # Quote /\ key # Space
                       /\ key # Semicolon /\ key # Equals
  /\ Semicolon \in Symbols /\ Semicolon # Quote
  /\ Equals \in Symbols /\ Equals # Quote /\ Equals # Semicolon
<1>1. Keys \subseteq Syntax
  BY DEF Keys, Syntax
<1>2. Keys \subseteq Symbols
  BY <1>1, SyntaxIn
<1>3. \A key \in Keys : key # Quote /\ key # Space /\ key # Semicolon /\ key # Equals
  BY DEF Keys, Quote, Space, Semicolon, Equals
<1>4. /\ Semicolon \in Symbols /\ Semicolon # Quote
      /\ Equals \in Symbols /\ Equals # Quote /\ Equals # Semicolon
  BY SyntaxIn, SymbolsDiffer DEF Semicolon, Equals
<1> QED
  BY <1>2, <1>3, <1>4

(* The piece of a parameter, if it is written.                             *)
Carried(key, v) == IF v = <<>> THEN <<>> ELSE << <<key, Equals>> \o Quoted(v) >>

AtOutside(ps) == [at |-> Outside, pieces |-> ps]

LEMMA ParamCut ==
  ASSUME NEW ps \in Pieced, NEW key \in Keys, NEW v \in Text
  PROVE  /\ param(key, v) \in Text
         /\ Carried(key, v) \in Seq(Text)
         /\ CutAll(AtOutside(ps), param(key, v), Semicolon) = AtOutside(ps \o Carried(key, v))
         /\ AllRead(Carried(key, v)) = Sent(key, v)
<1>1. v # None
  BY NoTextIsNone
<1>2. AtOutside(ps) \in Cut /\ ps \in Seq(Text)
  BY PlacesAre DEF AtOutside, Cut, Places, Pieced
<1>3. CASE v = <<>>
  <2>1. param(key, v) = <<>> /\ Carried(key, v) = <<>> /\ Sent(key, v) = <<>>
    BY <1>3 DEF param, Carried, Sent
  <2>2. <<>> \in Text /\ <<>> \in Seq(Text)
    BY EmptySeq DEF Text
  <2>3. AllRead(<<>>) = <<>>
    BY DEF AllRead
  <2>4. ps \o <<>> = ps
    BY <1>2, ConcatEmptySeq
  <2>5. CutAll(AtOutside(ps), <<>>, Semicolon) = AtOutside(ps)
    BY <1>2, CutEmpty
  <2> QED
    BY <2>1, <2>2, <2>3, <2>4, <2>5
<1>4. CASE v # <<>>
  <2> DEFINE x == <<key, Equals>> \o Quoted(v)
             lead == <<Semicolon, key, Equals>>
             q == Quoted(v)
  <2>1. param(key, v) = lead \o q
    BY <1>1, <1>4 DEF param, Semicolon, Equals
  <2>2. Carried(key, v) = <<x>> /\ Sent(key, v) = << << <<key>>, v>> >>
    BY <1>4 DEF Carried, Sent
  <2>3. /\ key \in Symbols /\ key # Quote /\ key # Space
        /\ key # Semicolon /\ key # Equals
        /\ Semicolon \in Symbols /\ Semicolon # Quote
        /\ Equals \in Symbols /\ Equals # Quote /\ Equals # Semicolon
    BY KeysAre
  <2>4. ReadParam(x) = << <<key>>, v>>
    BY <2>3, KeyValueOf DEF Equals
  <2>5. /\ x \in Text
        /\ CutAll([at |-> Outside, pieces |-> ps], lead \o q, Semicolon)
             = [at |-> Outside, pieces |-> Append(ps, x)]
    BY <2>3, CutParam, ZenonT(60)
  <2>6. lead \o q \in Text
    <3>1. q \in Seq(Symbols)
      BY QuotedReadBack DEF Text
    <3>2. lead \in Seq(Symbols)
      BY <2>3, ThreeOf
    <3> HIDE DEF lead, q
    <3> QED
      BY <3>1, <3>2, ConcatProperties DEF Text
  <2> HIDE DEF x, lead, q
  <2>7. <<x>> \in Seq(Text) /\ DOMAIN <<x>> = {1} /\ <<x>>[1] = x
    BY <2>5
  <2>8. Append(ps, x) = ps \o <<x>>
    BY <1>2, <2>5, AppendIsConcat
  <2>9. AllRead(<<x>>) = << << <<key>>, v>> >>
    <3> DEFINE r == << <<key>>, v>>
    <3>1. AllRead(<<x>>) = [n \in {1} |-> r]
      BY <2>4, <2>7 DEF AllRead
    <3> HIDE DEF r
    <3>2. [n \in {1} |-> r] = <<r>>
      OBVIOUS
    <3> QED
      BY <3>1, <3>2 DEF r
  <2> QED
    BY <2>1, <2>2, <2>5, <2>6, <2>7, <2>8, <2>9 DEF AtOutside
<1> QED
  BY <1>3, <1>4

(* h falls into the piece o, and pieces that are read as told.             *)
Begin == AtOutside(<< <<>> >>)

Reads(h, o, read) ==
  /\ h \in Text
  /\ \E rest \in Seq(Text) :
       /\ CutAll(Begin, h, Semicolon) = AtOutside(<<o>> \o rest)
       /\ AllRead(rest) = read

LEMMA BeginIn ==
  /\ Begin \in Cut
  /\ Begin = CutSoFar(Outside, <<>>, <<>>)
<1> DEFINE e == <<>>
<1>1. e \in Text
  BY EmptySeq DEF Text
<1>2. <<e>> = Append(<<>>, e) /\ <<>> \in Seq(Text)
  OBVIOUS
<1>3. Begin = CutSoFar(Outside, <<>>, e)
  BY <1>2 DEF Begin, AtOutside, CutSoFar
<1> HIDE DEF e
<1>4. CutSoFar(Outside, <<>>, e) \in Cut
  BY <1>1, <1>2, CutSoFarIn
<1> QED
  BY <1>3, <1>4 DEF e

LEMMA ReadsMore ==
  ASSUME NEW o \in Text, NEW h, NEW read, Reads(h, o, read),
         NEW key \in Keys, NEW v \in Text
  PROVE  Reads(h \o param(key, v), o, read \o Sent(key, v))
<1>1. h \in Text
  BY DEF Reads
<1>2. PICK rest \in Seq(Text) : /\ CutAll(Begin, h, Semicolon) = AtOutside(<<o>> \o rest)
                                /\ AllRead(rest) = read
  BY DEF Reads
<1> DEFINE p == param(key, v)
           c == Carried(key, v)
           f == <<o>>
<1>3. f \in Seq(Text) /\ f \o rest \in Seq(Text) /\ f \o rest # <<>>
  BY TailOfOne
<1>4. f \o rest \in Pieced
  BY <1>3 DEF Pieced
<1>5. /\ p \in Text /\ c \in Seq(Text) /\ AllRead(c) = Sent(key, v)
      /\ CutAll(AtOutside(f \o rest), p, Semicolon) = AtOutside((f \o rest) \o c)
  BY <1>4, ParamCut
<1> HIDE DEF p, c, f
<1>6. h \o p \in Text
  BY <1>1, <1>5, ConcatProperties DEF Text
<1>7. CutAll(Begin, h \o p, Semicolon) = CutAll(CutAll(Begin, h, Semicolon), p, Semicolon)
  BY <1>1, <1>5, BeginIn, CutCat DEF Text
<1>8. (f \o rest) \o c = f \o (rest \o c)
  BY <1>3, <1>5, SMTT(40)
<1>9. rest \o c \in Seq(Text)
  BY <1>5, ConcatProperties
<1>10. AllRead(rest \o c) = read \o Sent(key, v)
  BY <1>2, <1>5, AllReadCat
<1>11. CutAll(Begin, h \o p, Semicolon) = AtOutside(f \o (rest \o c))
  BY <1>2, <1>5, <1>7, <1>8 DEF f
<1> QED
  BY <1>6, <1>9, <1>10, <1>11 DEF Reads, p, f

LEMMA ReadsSplit ==
  ASSUME NEW o \in Text, NEW h, NEW read, Reads(h, o, read)
  PROVE  /\ AllRead(Tail(SplitOutside(h, ";"))) = read
         /\ SplitOutside(h, ";") \in Seq(Text)
         /\ SplitOutside(h, ";")[1] = o
<1>1. PICK rest \in Seq(Text) : /\ CutAll(Begin, h, Semicolon) = AtOutside(<<o>> \o rest)
                                /\ AllRead(rest) = read
  BY DEF Reads
<1>2. SplitOutside(h, Semicolon) = <<o>> \o rest
  <2>1. SplitOutside(h, Semicolon) = CutAll(Begin, h, Semicolon).pieces
    BY CutIsFrom DEF Begin, AtOutside
  <2> QED
    BY <1>1, <2>1 DEF AtOutside
<1>3. /\ Tail(<<o>> \o rest) = rest /\ <<o>> \o rest \in Seq(Text)
      /\ (<<o>> \o rest)[1] = o
  BY TailOfOne
<1> QED
  BY <1>1, <1>2, <1>3 DEF Semicolon

LEMMA JoinedOne ==
  ASSUME NEW x \in Text, NEW sep
  PROVE  Joined(<<x>>, sep) = x
<1> DEFINE ts == <<x>>
           f == [i \in DOMAIN ts |-> IF i = 1 THEN ts[i] ELSE sep \o ts[i]]
<1>1. DOMAIN ts = {1} /\ ts[1] = x
  OBVIOUS
<1> HIDE DEF ts
<1>2. f = [i \in {1} |-> x]
  BY <1>1
<1>3. [i \in {1} |-> x] = <<x>>
  OBVIOUS
<1>4. <<x>> = Append(<<>>, x) /\ <<>> \in Seq(Text)
  OBVIOUS
<1>5. FlattenSeq(<<x>>) = x
  <2>1. <<>> \in Seq(Seq(Symbols)) /\ x \in Seq(Symbols)
    BY DEF Text
  <2>2. FlattenSeq(Append(<<>>, x)) = FlattenSeq(<<>>) \o x
    BY <2>1, FlattenAppend
  <2>3. <<>> \o x = x
    BY <2>1, ConcatEmptySeq
  <2> QED
    BY <1>4, <2>2, <2>3, FlattenEmpty
<1>6. FlattenSeq(f) = x
  BY <1>2, <1>3, <1>5
<1>7. Joined(ts, sep) = FlattenSeq(f)
  BY DEF Joined
<1> QED
  BY <1>6, <1>7 DEF ts

(* A text without quotes and semicolons at the start is one piece.         *)
LEMMA ReadsPlain ==
  ASSUME NEW t \in Seq(Symbols \ {Quote, Semicolon})
  PROVE  t \in Text /\ Reads(t, t, <<>>)
<1>1. t \in Text
  BY SeqMonotonic DEF Text
<1>2. <<>> \in Text /\ <<>> \in Seq(Text)
  BY EmptySeq DEF Text
<1>3. CutAll(Begin, t, Semicolon) = CutSoFar(Outside, <<>>, <<>> \o t)
  BY <1>2, BeginIn, CutPlain
<1>4. <<>> \o t = t
  BY <1>1, ConcatEmptySeq DEF Text
<1>5. Append(<<>>, t) = <<t>> \o <<>>
  <2>1. <<t>> \in Seq(Text) /\ <<t>> = Append(<<>>, t)
    BY <1>1
  <2> QED
    BY <2>1, ConcatEmptySeq
<1>6. CutAll(Begin, t, Semicolon) = AtOutside(<<t>> \o <<>>)
  BY <1>3, <1>4, <1>5 DEF CutSoFar, AtOutside
<1>7. AllRead(<<>>) = <<>>
  BY DEF AllRead
<1> QED
  BY <1>1, <1>2, <1>6, <1>7 DEF Reads

Opening == <<"(">> \o Joined(<< <<"ES256">> >>, <<Space>>) \o <<")">>

LEMMA OpeningReads ==
  Opening \in Text /\ Reads(Opening, Opening, <<>>)
<1> DEFINE S == Symbols \ {Quote, Semicolon}
           l == "("
           e == "ES256"
           r == ")"
<1>1. l \in S /\ e \in S /\ r \in S
  BY SyntaxIn DEF Syntax, Quote, Semicolon
<1>2. Opening = <<l>> \o Joined(<< <<e>> >>, <<Space>>) \o <<r>>
  BY DEF Opening
<1> HIDE DEF l, e, r, S
<1>3. <<e>> \in Text
  BY <1>1 DEF S, Text
<1>4. Joined(<< <<e>> >>, <<Space>>) = <<e>>
  BY <1>3, JoinedOne
<1>5. Opening = (<<l>> \o <<e>>) \o <<r>>
  BY <1>2, <1>4
<1>6. <<l>> \in Seq(S) /\ <<e>> \in Seq(S) /\ <<r>> \in Seq(S)
  BY <1>1, Literals
<1>7. Opening \in Seq(S)
  <2>1. <<l>> \o <<e>> \in Seq(S)
    BY <1>6, ConcatProperties
  <2> QED
    BY <1>5, <1>6, <2>1, ConcatProperties
<1> QED
  BY <1>7, ReadsPlain DEF S

LEMMA RegistrationReads ==
  ASSUME NEW a \in Text, NEW b \in Text
  PROVE  AllRead(Tail(SplitOutside(
           registration_header(<< <<"ES256">> >>, a, b, a, None, b, <<>>), ";")))
           = Sent("path", a) \o Sent("challenge", b)
               \o Sent("authorization", a) \o Sent("provider_session_id", b)
<1> DEFINE K1 == "path"
           K2 == "challenge"
           K3 == "authorization"
           K4 == "provider_key"
           K5 == "provider_session_id"
           K6 == "provider_url"
           o == Opening
           h1 == o \o param(K1, a)
           h2 == h1 \o param(K2, b)
           h3 == h2 \o param(K3, a)
           h5 == h3 \o param(K5, b)
           R1 == Sent(K1, a)
           R2 == R1 \o Sent(K2, b)
           R3 == R2 \o Sent(K3, a)
           R5 == R3 \o Sent(K5, b)
           H == registration_header(<< <<"ES256">> >>, a, b, a, None, b, <<>>)
<1>1. K1 \in Keys /\ K2 \in Keys /\ K3 \in Keys /\ K5 \in Keys
  BY DEF Keys
<1>2. param(K4, None) = <<>> /\ param(K6, <<>>) = <<>>
  BY DEF param
<1>3. H = ((h3 \o param(K4, None)) \o param(K5, b)) \o param(K6, <<>>)
  BY DEF registration_header, Opening
<1>4. R5 = Sent("path", a) \o Sent("challenge", b)
             \o Sent("authorization", a) \o Sent("provider_session_id", b)
  OBVIOUS
<1>5. <<>> \o R1 = R1
  <2> DEFINE x == << <<K1>>, a>>
  <2>1. R1 = <<>> \/ R1 = <<x>>
    BY DEF Sent
  <2> HIDE DEF R1, x
  <2>2. <<x>> \in Seq({x}) /\ <<>> \in Seq({x})
    OBVIOUS
  <2> QED
    BY <2>1, <2>2, ConcatEmptySeq
<1> HIDE DEF K1, K2, K3, K4, K5, K6, o, R1, R2, R3, R5, H, h1, h2, h3, h5
<1>6. o \in Text /\ Reads(o, o, <<>>)
  BY OpeningReads DEF o
<1>7. Reads(h1, o, R1)
  BY <1>1, <1>5, <1>6, ReadsMore DEF h1, R1
<1>8. Reads(h2, o, R2)
  BY <1>1, <1>6, <1>7, ReadsMore DEF h2, R2
<1>9. Reads(h3, o, R3)
  BY <1>1, <1>6, <1>8, ReadsMore DEF h3, R3
<1>10. Reads(h5, o, R5)
  BY <1>1, <1>6, <1>9, ReadsMore DEF h5, R5
<1>11. H = h5
  <2>1. h3 \in Seq(Symbols) /\ h5 \in Seq(Symbols)
    BY <1>9, <1>10 DEF Reads, Text
  <2>2. h3 \o <<>> = h3 /\ h5 \o <<>> = h5
    BY <2>1, ConcatEmptySeq
  <2>3. h5 = h3 \o param(K5, b)
    BY DEF h5
  <2> QED
    BY <1>2, <1>3, <2>2, <2>3
<1>12. AllRead(Tail(SplitOutside(H, ";"))) = R5
  BY <1>6, <1>10, <1>11, ReadsSplit
<1> QED
  BY <1>4, <1>12 DEF H

LEMMA ChallengeReads ==
  ASSUME NEW a \in Text, NEW b \in Text
  PROVE  LET challenge == SplitOutside(challenge_header(a, b), ";")
         IN  /\ Len(challenge) = 2
             /\ parse_quoted(challenge[1]) = a
             /\ ReadParam(challenge[2]) = << <<"id">>, b>>
<1> DEFINE id == "id"
           q == Quoted(a)
           lead == <<Semicolon, id, Equals>>
           x == <<id, Equals>> \o Quoted(b)
           h == challenge_header(a, b)
           c == SplitOutside(h, ";")
<1>1. h = (q \o lead) \o Quoted(b)
  BY DEF challenge_header, Semicolon, Equals
<1>2. id \in Keys
  BY DEF Keys
<1>3. <<id>> = <<"id">>
  OBVIOUS
<1> HIDE DEF id
<1>4. /\ id \in Symbols /\ id # Quote /\ id # Space
      /\ id # Semicolon /\ id # Equals
      /\ Semicolon \in Symbols /\ Semicolon # Quote
      /\ Equals \in Symbols /\ Equals # Quote /\ Equals # Semicolon
  BY <1>2, KeysAre
<1>5. ReadParam(x) = << <<id>>, b>>
  BY <1>4, KeyValueOf DEF Equals
<1>6. q \in Text /\ parse_quoted(q) = a /\ Quoted(b) \in Text
  BY QuotedReadBack
<1>7. CutAll(Begin, q, Semicolon) = AtOutside(<<q>>) /\ <<q>> \in Pieced
  <2> HIDE DEF q
  <2>1. <<>> \in Text /\ <<>> \in Seq(Text)
    BY EmptySeq DEF Text
  <2>2. CutAll(Begin, q, Semicolon) = CutSoFar(Outside, <<>>, <<>> \o q)
    BY <1>4, <2>1, BeginIn, CutQuoted DEF q
  <2>3. <<>> \o q = q
    BY <1>6, ConcatEmptySeq DEF Text
  <2>4. Append(<<>>, q) = <<q>>
    BY <1>6
  <2>5. <<q>> \in Seq(Text) /\ <<q>> # <<>>
    BY <1>6
  <2> QED
    BY <2>2, <2>3, <2>4, <2>5 DEF CutSoFar, AtOutside, Pieced
<1>8. /\ x \in Text
      /\ CutAll(AtOutside(<<q>>), lead \o Quoted(b), Semicolon) = AtOutside(Append(<<q>>, x))
  <2> DEFINE ps == <<q>>
  <2>1. ps \in Pieced
    BY <1>7
  <2> HIDE DEF ps
  <2>2. /\ <<id, Equals>> \o Quoted(b) \in Text
        /\ CutAll([at |-> Outside, pieces |-> ps], <<Semicolon, id, Equals>> \o Quoted(b), Semicolon)
             = [at |-> Outside, pieces |-> Append(ps, <<id, Equals>> \o Quoted(b))]
    BY <1>4, <2>1, CutParam, ZenonT(60)
  <2>3. x \in Text /\ CutAll(AtOutside(ps), lead \o Quoted(b), Semicolon) = AtOutside(Append(ps, x))
    BY <2>2 DEF AtOutside
  <2> QED
    BY <2>3 DEF ps
<1>9. lead \in Seq(Symbols)
  BY <1>4, ThreeOf
<1> DEFINE y == Quoted(b)
<1> HIDE DEF lead, q, x, y, h
<1>10. lead \o y \in Seq(Symbols) /\ (q \o lead) \o y = q \o (lead \o y)
  BY <1>6, <1>9, ConcatProperties, ConcatAssociative, SMTT(40) DEF Text, y
<1>11. CutAll(Begin, q \o (lead \o y), Semicolon)
         = CutAll(CutAll(Begin, q, Semicolon), lead \o y, Semicolon)
  BY <1>6, <1>10, BeginIn, CutCat, ZenonT(60) DEF Text
<1>12. CutAll(Begin, h, Semicolon) = AtOutside(<<q, x>>)
  <2>1. Append(<<q>>, x) = <<q, x>>
    BY <1>6, <1>8, Literals
  <2> QED
    BY <1>1, <1>7, <1>8, <1>10, <1>11, <2>1 DEF y
<1>13. c = <<q, x>>
  <2>1. SplitOutside(h, Semicolon) = CutAll(Begin, h, Semicolon).pieces
    BY CutIsFrom DEF Begin, AtOutside
  <2>2. c = SplitOutside(h, Semicolon)
    BY DEF Semicolon
  <2> HIDE DEF c
  <2> DEFINE w == <<q, x>>
  <2>3. CutAll(Begin, h, Semicolon) = AtOutside(w)
    BY <1>12
  <2> HIDE DEF w
  <2>4. CutAll(Begin, h, Semicolon).pieces = w
    BY <2>3 DEF AtOutside
  <2>5. c = w
    BY <2>1, <2>2, <2>4
  <2> QED
    BY <2>5 DEF w
<1>14. Len(c) = 2 /\ c[1] = q /\ c[2] = x
  <2> HIDE DEF c
  <2> QED
    BY <1>13
<1>15. parse_quoted(c[1]) = a /\ ReadParam(c[2]) = << <<"id">>, b>>
  BY <1>3, <1>5, <1>6, <1>14
<1> QED
  BY <1>14, <1>15 DEF h

(***************************************************************************)
(* Whatever path, challenge, authorization and identifiers a server sends  *)
(* in Secure-Session-Registration and Secure-Session-Challenge             *)
(* (registration_header, challenge_header), a reader of the grammar finds  *)
(* the same values under the same keys, and no others.                     *)
(***************************************************************************)
THEOREM HeadersAreReadBack ==
  HeaderSpec => []HeadersReadBack
<1>1. EntriesOK => HeadersReadBack
  <2> SUFFICES ASSUME EntriesOK, entries # <<>>
               PROVE  HeadersReadBack
    BY DEF HeadersReadBack
  <2> DEFINE a == IdOf(1)
             b == IdOf(Len(entries))
  <2>1. 1 \in DOMAIN entries /\ Len(entries) \in DOMAIN entries
    BY EmptySeq DEF EntriesOK
  <2>2. \A i \in DOMAIN entries : entries[i] \in SkippedEntry
    BY DEF EntriesOK
  <2>3. a \in Text /\ b \in Text
    BY <2>1, <2>2 DEF IdOf, SkippedEntry, Text
  <2> HIDE DEF a, b
  <2>4. AllRead(Tail(SplitOutside(
          registration_header(<< <<"ES256">> >>, a, b, a, None, b, <<>>), ";")))
          = Sent("path", a) \o Sent("challenge", b)
              \o Sent("authorization", a) \o Sent("provider_session_id", b)
    BY <2>3, RegistrationReads
  <2> DEFINE challenge == SplitOutside(challenge_header(a, b), ";")
  <2>5. /\ Len(challenge) = 2
        /\ parse_quoted(challenge[1]) = a
        /\ ReadParam(challenge[2]) = << <<"id">>, b>>
    BY <2>3, ChallengeReads
  <2> QED
    BY <2>4, <2>5 DEF HeadersReadBack, AllRead, a, b
<1>2. HeaderSpec => []EntriesOK
  BY EntriesTyped
<1> QED
  BY <1>1, <1>2, PTL

-----------------------------------------------------------------------------
(* Splitting at every separator: a list falls into its items, and these    *)
(* into pieces that hold no separator.                                     *)

FirstPiece == << <<>> >>

LEMMA FirstPieceIn ==
  FirstPiece \in Pieced
BY EmptySeq DEF FirstPiece, Pieced, Text

(* What was cut off before stays before. *)
LEMMA SplitAfter ==
  ASSUME NEW sep, NEW before \in Seq(Text), NEW ps \in Pieced, NEW t \in Text
  PROVE  /\ before \o ps \in Pieced
         /\ SplitFrom(before \o ps, t, sep) = before \o SplitFrom(ps, t, sep)
<1> DEFINE T == {w \in Seq(Symbols) : SplitFrom(before \o ps, w, sep)
                                        = before \o SplitFrom(ps, w, sep)}
<1>1. ASSUME NEW qs \in Pieced
      PROVE  before \o qs \in Pieced
  <2>1. /\ before \o qs \in Seq(Text) /\ Len(before \o qs) = Len(before) + Len(qs)
        /\ Len(before) \in Nat /\ Len(qs) \in Nat /\ Len(qs) # 0
    BY ConcatProperties, EmptySeq DEF Pieced
  <2> DEFINE z == before \o qs
  <2> HIDE DEF z
  <2>2. z # <<>>
    BY <2>1, EmptySeq DEF z
  <2> QED
    BY <2>1, <2>2 DEF Pieced, z
<1>2. <<>> \in T
  BY <1>1, SplitEmpty, EmptySeq
<1>3. ASSUME NEW w \in Seq(Symbols), NEW c \in Symbols, w \in T
      PROVE  Append(w, c) \in T
  <2> DEFINE qs == SplitFrom(ps, w, sep)
             cuts == c = sep
  <2>1. qs \in Pieced /\ Append(w, c) \in Seq(Symbols)
    BY SplitIn, AppendProperties
  <2>2. SplitFrom(before \o ps, w, sep) = before \o qs
    BY <1>3
  <2>3. /\ SplitFrom(ps, Append(w, c), sep) = SplitTurn(qs, c, sep)
        /\ SplitFrom(before \o ps, Append(w, c), sep) = SplitTurn(before \o qs, c, sep)
    BY <1>1, <2>2, SplitAppend, ZenonT(60)
  <2> HIDE DEF qs
  <2>4. PICK front \in Seq(Text), last \in Text : qs = Append(front, last)
    BY <2>1, LastOf DEF Pieced
  <2> DEFINE more == before \o front
             none == <<>>
             l == Append(last, c)
             u == Append(front, last)
  <2>5. more \in Seq(Text) /\ none \in Text /\ l \in Text /\ u \in Seq(Text)
    BY ConcatProperties, AppendProperties, EmptySeq DEF Text
  <2>6. before \o qs = Append(more, last)
    BY <2>4, AppendCat
  <2>7. /\ cuts => Placed(Append(front, last), c, cuts) = Append(u, none)
        /\ ~cuts => Placed(Append(front, last), c, cuts) = Append(front, l)
    <3> HIDE DEF cuts
    <3> QED
      BY PlacedLast
  <2>8. /\ cuts => Placed(Append(more, last), c, cuts) = Append(Append(more, last), none)
        /\ ~cuts => Placed(Append(more, last), c, cuts) = Append(more, l)
    <3> HIDE DEF cuts, more, l
    <3> QED
      BY <2>5, PlacedLast, SMTT(40) DEF l
  <2>9. /\ before \o Append(u, none) = Append(before \o u, none)
        /\ before \o Append(front, l) = Append(more, l)
        /\ before \o u = Append(more, last)
    <3> HIDE DEF u, l, none
    <3>1. before \o Append(u, none) = Append(before \o u, none)
      BY <2>5, AppendCat
    <3>2. before \o Append(front, l) = Append(more, l)
      BY <2>5, AppendCat
    <3> QED
      BY <3>1, <3>2, <2>4, <2>6 DEF u
  <2> HIDE DEF more, none, l, u, cuts
  <2>10. Placed(before \o qs, c, cuts) = before \o Placed(qs, c, cuts)
    BY <2>4, <2>6, <2>7, <2>8, <2>9
  <2>11. SplitTurn(before \o qs, c, sep) = before \o SplitTurn(qs, c, sep)
    BY <2>10 DEF SplitTurn, cuts
  <2> QED
    BY <2>1, <2>3, <2>11
<1> HIDE DEF T
<1>4. t \in T
  BY <1>2, <1>3, TextInduction DEF Text
<1> QED
  BY <1>1, <1>4 DEF T

LEMMA SplitBetween ==
  ASSUME NEW sep \in Symbols, NEW a \in Text, NEW b \in Text
  PROVE  split(a \o (<<sep>> \o b), sep) = split(a, sep) \o split(b, sep)
<1> DEFINE s == <<sep>>
           qs == SplitFrom(FirstPiece, a, sep)
<1>1. FirstPiece \in Pieced /\ a \in Seq(Symbols) /\ b \in Seq(Symbols) /\ s \in Seq(Symbols)
  BY FirstPieceIn DEF Text
<1>2. qs \in Pieced
  BY <1>1, SplitIn
<1> HIDE DEF qs
<1>3. SplitFrom(qs, s, sep) = qs \o FirstPiece
  <2>1. s = Append(<<>>, sep) /\ <<>> \in Seq(Symbols)
    OBVIOUS
  <2>2. SplitFrom(qs, Append(<<>>, sep), sep) = SplitTurn(SplitFrom(qs, <<>>, sep), sep, sep)
    BY <1>2, <2>1, SplitAppend
  <2>3. SplitFrom(qs, <<>>, sep) = qs
    BY <1>2, SplitEmpty
  <2>4. SplitTurn(qs, sep, sep) = Append(qs, <<>>)
    BY DEF SplitTurn, Placed
  <2>5. Append(qs, <<>>) = qs \o FirstPiece
    BY <1>2, EmptySeq, AppendIsConcat DEF Pieced, Text, FirstPiece
  <2> QED
    BY <2>1, <2>2, <2>3, <2>4, <2>5
<1> HIDE DEF s
<1>4. s \o b \in Seq(Symbols)
  BY <1>1, ConcatProperties
<1>5. SplitFrom(FirstPiece, a \o (s \o b), sep) = SplitFrom(qs, s \o b, sep)
  BY <1>1, <1>4, SplitCat DEF qs
<1>6. SplitFrom(qs, s \o b, sep) = SplitFrom(SplitFrom(qs, s, sep), b, sep)
  BY <1>1, <1>2, SplitCat
<1>7. SplitFrom(qs \o FirstPiece, b, sep) = qs \o SplitFrom(FirstPiece, b, sep)
  <2>1. qs \in Seq(Text) /\ b \in Text
    BY <1>1, <1>2 DEF Pieced, Text
  <2> QED
    BY <1>1, <2>1, SplitAfter
<1> QED
  BY <1>3, <1>5, <1>6, <1>7, SplitIsFrom DEF FirstPiece, qs, s

LEMMA SplitPlain ==
  ASSUME NEW sep, NEW t \in Seq(Symbols \ {sep})
  PROVE  split(t, sep) = <<t>>
<1> DEFINE S == Symbols \ {sep}
           T == {w \in Seq(S) : SplitFrom(FirstPiece, w, sep) = <<w>>}
<1>1. <<>> \in T
  BY FirstPieceIn, SplitEmpty, EmptySeq DEF FirstPiece
<1>2. ASSUME NEW w \in Seq(S), NEW c \in S, w \in T
      PROVE  Append(w, c) \in T
  <2> DEFINE cuts == c = sep
             none == <<>>
             x == Append(w, c)
  <2>1. c \in Symbols /\ ~cuts
    OBVIOUS
  <2>2. w \in Seq(Symbols) /\ w \in Text
    BY SeqMonotonic DEF Text
  <2>3. SplitFrom(FirstPiece, x, sep) = SplitTurn(SplitFrom(FirstPiece, w, sep), c, sep)
    BY <2>1, <2>2, FirstPieceIn, SplitAppend
  <2>4. x \in Seq(S) /\ x \in Text
    BY <2>1, <2>2, AppendProperties DEF Text
  <2>5. <<w>> = Append(none, w) /\ <<x>> = Append(none, x) /\ none \in Seq(Text)
    <3> HIDE DEF x
    <3> QED
      OBVIOUS
  <2> HIDE DEF none, cuts, S, x
  <2>6. ~cuts => Placed(Append(none, w), c, cuts) = Append(none, Append(w, c))
    <3>1. none \in Seq(Text) /\ w \in Text /\ c \in Symbols
      BY <2>1, <2>2, <2>5
    <3> QED
      BY <3>1, PlacedLast
  <2>7. SplitTurn(<<w>>, c, sep) = <<x>>
    BY <2>1, <2>5, <2>6 DEF SplitTurn, cuts, x
  <2>8. SplitFrom(FirstPiece, w, sep) = <<w>>
    BY <1>2
  <2>9. SplitFrom(FirstPiece, x, sep) = <<x>>
    BY <2>3, <2>7, <2>8
  <2> QED
    BY <2>4, <2>9 DEF x, S
<1> HIDE DEF T
<1>3. t \in T
  BY <1>1, <1>2, TextInduction
<1> QED
  BY <1>3, SplitIsFrom DEF T, FirstPiece

-----------------------------------------------------------------------------
(* What an item parses to.                                                 *)

LEMMA ParseQuotedIn ==
  ASSUME NEW t \in Text
  PROVE  parse_quoted(t) \in Text \cup {None}
<1> DEFINE x == trim(t)
           r == FoldLeft(Read, Start, Tail(x))
<1>1. x \in Seq(Symbols)
  BY TrimPart DEF Text
<1>2. CASE x = <<>> \/ x[1] # Quote
  BY <1>2 DEF parse_quoted
<1>3. CASE ~(x = <<>> \/ x[1] # Quote)
  <2>1. Tail(x) \in Seq(Symbols)
    BY <1>1, <1>3
  <2>2. parse_quoted(t) = IF r.at = "end" THEN r.out ELSE None
    BY <1>3 DEF parse_quoted, Start
  <2> HIDE DEF x, r
  <2>3. r \in Reader
    BY <2>1, StartIn, ReadIn DEF r
  <2>4. r.out \in Text
    BY <2>3 DEF Reader, Text
  <2> QED
    BY <2>2, <2>4
<1> QED
  BY <1>2, <1>3

LEMMA KeyValueIn ==
  ASSUME NEW t \in Text, Len(KeyValue(t)) = 2
  PROVE  \E m \in 1 .. Len(t) :
           /\ t[m] = Equals
           /\ SubSeq(t, m + 1, Len(t)) \in Text
           /\ KeyValue(t)[2] = trim(SubSeq(t, m + 1, Len(t)))
<1> DEFINE at == {i \in DOMAIN t : t[i] = "="}
           m == Min(at)
           k == trim(SubSeq(t, 1, m - 1))
           v == trim(SubSeq(t, m + 1, Len(t)))
<1>1. at # {}
  <2>1. at = {} => Len(KeyValue(t)) = 1
    BY DEF KeyValue
  <2> QED
    BY <2>1
<1>2. DOMAIN t = 1 .. Len(t) /\ Len(t) \in Nat /\ t \in Seq(Symbols)
  BY DEF Text
<1>3. at \in SUBSET Nat
  BY <1>2
<1>4. KeyValue(t) = <<k, v>>
  BY <1>1 DEF KeyValue
<1>5. m \in at
  BY <1>1, <1>3, MinIn
<1>6. m \in 1 .. Len(t) /\ t[m] = Equals
  BY <1>2, <1>5 DEF Equals
<1>7. KeyValue(t)[2] = v
  <2> HIDE DEF k, v
  <2> QED
    BY <1>4
<1> HIDE DEF m
<1>8. SubSeq(t, m + 1, Len(t)) \in Text
  BY <1>2, <1>6, SubSeqProperties DEF Text
<1> QED
  BY <1>6, <1>7, <1>8

(* The identifier is what the last of the named parameters parses to. *)
LEMMA IdentifierOf ==
  ASSUME NEW params \in Seq(Text)
  PROVE  /\ SessionIdentifier(params) \in Text \cup {None}
         /\ \/ SessionIdentifier(params) = None
            \/ \E i \in DOMAIN params :
                 /\ Len(KeyValue(params[i])) = 2
                 /\ SessionIdentifier(params) = parse_quoted(KeyValue(params[i])[2])
<1> DEFINE named == {i \in DOMAIN params :
                       /\ Len(KeyValue(params[i])) = 2
                       /\ KeyValue(params[i])[1] = <<"session_identifier">>}
           m == Max(named)
           v == KeyValue(params[m])[2]
<1>1. CASE named = {}
  BY <1>1 DEF SessionIdentifier
<1>2. CASE named # {}
  <2>1. SessionIdentifier(params) = parse_quoted(v)
    BY <1>2 DEF SessionIdentifier
  <2>2. Len(params) \in Nat /\ DOMAIN params = 1 .. Len(params)
    OBVIOUS
  <2>3. named \in SUBSET (1 .. Len(params))
    BY <2>2
  <2>4. m \in named
    BY <1>2, <2>2, <2>3, MaxIn
  <2>5. m \in DOMAIN params /\ Len(KeyValue(params[m])) = 2
    BY <2>4
  <2> HIDE DEF m, named
  <2>6. params[m] \in Text
    BY <2>5
  <2>7. v \in Text
    <3>1. PICK j \in 1 .. Len(params[m]) :
            /\ SubSeq(params[m], j + 1, Len(params[m])) \in Text
            /\ v = trim(SubSeq(params[m], j + 1, Len(params[m])))
      BY <2>5, <2>6, KeyValueIn
    <3> QED
      BY <3>1, TrimPart
  <2> HIDE DEF v
  <2>8. parse_quoted(v) \in Text \cup {None}
    BY <2>7, ParseQuotedIn
  <2> QED
    BY <2>1, <2>5, <2>8 DEF v
<1> QED
  BY <1>1, <1>2

LEMMA SplitPieces ==
  ASSUME NEW sep, NEW t \in Text
  PROVE  split(t, sep) \in Pieced /\ split(t, sep)[1] \in Text /\ Tail(split(t, sep)) \in Seq(Text)
<1>1. split(t, sep) \in Pieced
  BY FirstPieceIn, SplitIn, SplitIsFrom DEF FirstPiece, Text
<1> DEFINE p == split(t, sep)
<1> HIDE DEF p
<1>2. p \in Pieced => p[1] \in Text /\ Tail(p) \in Seq(Text)
  BY DEF Pieced
<1> QED
  BY <1>1, <1>2 DEF p

LEMMA TokenIn ==
  ASSUME NEW token
  PROVE  from_token(token) \in SkipReason \cup {None}
<1>1. CASE \E r \in SkipReason : token = <<r>>
  <2>1. PICK r \in SkipReason : token = <<r>>
    BY <1>1
  <2>2. from_token(token) = token[1]
    BY <1>1 DEF from_token
  <2>3. token[1] = r
    BY <2>1
  <2> QED
    BY <2>2, <2>3
<1>2. CASE ~ \E r \in SkipReason : token = <<r>>
  BY <1>2 DEF from_token
<1> QED
  BY <1>1, <1>2

LEMMA ParseItemIn ==
  ASSUME NEW item \in Text
  PROVE  /\ ParseItem(item) \in Seq(SkippedEntry)
         /\ SessionIdentifier(Tail(split(trim(item), ";"))) = None => ParseItem(item) = <<>>
<1> DEFINE parts == split(trim(item), ";")
           reason == from_token(trim(parts[1]))
           id == SessionIdentifier(Tail(parts))
           e == [reason |-> reason, session_id |-> id]
<1>1. trim(item) \in Text
  BY TrimPart
<1>2. Tail(parts) \in Seq(Text)
  BY <1>1, SplitPieces
<1>3. id \in Text \cup {None}
  BY <1>2, IdentifierOf
<1>4. reason \in SkipReason \cup {None}
  BY TokenIn
<1>5. ParseItem(item) = IF None \in {reason, id} THEN <<>> ELSE <<e>>
  BY DEF ParseItem
<1> HIDE DEF parts, reason, id
<1>6. CASE None \in {reason, id}
  <2>1. ParseItem(item) = <<>>
    BY <1>5, <1>6
  <2> QED
    BY <2>1, EmptySeq
<1>7. CASE None \notin {reason, id}
  <2>1. e \in SkippedEntry
    BY <1>3, <1>4, <1>7 DEF SkippedEntry, Text
  <2> HIDE DEF e
  <2>2. <<e>> \in Seq(SkippedEntry)
    BY <2>1
  <2>3. id # None
    BY <1>7
  <2> QED
    BY <1>5, <1>7, <2>2, <2>3 DEF id, parts
<1> QED
  BY <1>6, <1>7

Parsed(items) == FlattenSeq([i \in DOMAIN items |-> ParseItem(items[i])])

LEMMA ParsedMore ==
  ASSUME NEW items \in Seq(Text), NEW t \in Text
  PROVE  Parsed(Append(items, t)) = Parsed(items) \o ParseItem(t)
<1> DEFINE S == SkippedEntry
           n == Len(items)
           more == Append(items, t)
           f == [i \in DOMAIN items |-> ParseItem(items[i])]
           g == [i \in DOMAIN more |-> ParseItem(more[i])]
           x == ParseItem(t)
           h == Append(f, x)
<1>1. /\ n \in Nat /\ DOMAIN items = 1 .. n
      /\ more \in Seq(Text) /\ DOMAIN more = 1 .. n + 1 /\ Len(more) = n + 1 /\ more[n + 1] = t
      /\ \A i \in 1 .. n : more[i] = items[i]
  BY AppendProperties
<1> HIDE DEF more, n
<1>2. x \in Seq(S)
  BY ParseItemIn
<1>3. ASSUME NEW i \in 1 .. n
      PROVE  ParseItem(items[i]) \in Seq(S)
  <2>1. items[i] \in Text
    BY <1>1
  <2> QED
    BY <2>1, ParseItemIn
<1>4. ASSUME NEW i \in 1 .. n + 1
      PROVE  ParseItem(more[i]) \in Seq(S)
  <2>1. more[i] \in Text
    BY <1>1
  <2> QED
    BY <2>1, ParseItemIn
<1> HIDE DEF S, x
<1>5. /\ f \in Seq(Seq(S)) /\ Len(f) = n /\ \A i \in 1 .. n : f[i] = ParseItem(items[i])
  BY <1>1, <1>3
<1>6. /\ g \in Seq(Seq(S)) /\ Len(g) = n + 1
      /\ \A i \in 1 .. n + 1 : g[i] = ParseItem(more[i])
  BY <1>1, <1>4
<1> HIDE DEF f, g
<1>7. /\ h \in Seq(Seq(S)) /\ Len(h) = n + 1 /\ h[n + 1] = x
      /\ \A i \in 1 .. n : h[i] = f[i]
  BY <1>2, <1>5, AppendProperties
<1> HIDE DEF h
<1>8. ASSUME NEW i \in 1 .. n + 1
      PROVE  g[i] = h[i]
  <2>1. CASE i = n + 1
    BY <1>1, <1>6, <1>7, <2>1 DEF x
  <2>2. CASE i # n + 1
    <3>1. i \in 1 .. n
      BY <1>1, <2>2
    <3> QED
      BY <1>1, <1>5, <1>6, <1>7, <3>1
  <2> QED
    BY <2>1, <2>2
<1>9. g = h
  BY <1>6, <1>7, <1>8, SeqEqual
<1>10. FlattenSeq(h) = FlattenSeq(f) \o x
  BY <1>2, <1>5, FlattenAppend DEF h
<1> QED
  BY <1>9, <1>10 DEF Parsed, f, g, more, x

LEMMA ParsedCat ==
  ASSUME NEW a \in Seq(Text), NEW b \in Seq(Text)
  PROVE  /\ Parsed(b) \in Seq(SkippedEntry)
         /\ Parsed(a \o b) = Parsed(a) \o Parsed(b)
         /\ Parsed(<<>>) = <<>>
<1>1. Parsed(<<>>) = <<>>
  <2>1. [i \in DOMAIN <<>> |-> ParseItem(<<>>[i])] = <<>>
    OBVIOUS
  <2> QED
    BY <2>1, FlattenEmpty DEF Parsed
<1> DEFINE In == {w \in Seq(Text) : Parsed(w) \in Seq(SkippedEntry)}
           T == {w \in Seq(Text) : Parsed(a \o w) = Parsed(a) \o Parsed(w)}
<1>2. Seq(Text) \subseteq In
  <2>1. <<>> \in In
    BY <1>1, EmptySeq
  <2>2. ASSUME NEW w \in Seq(Text), NEW c \in Text, w \in In
        PROVE  Append(w, c) \in In
    <3>1. Parsed(Append(w, c)) = Parsed(w) \o ParseItem(c)
      BY ParsedMore
    <3>2. ParseItem(c) \in Seq(SkippedEntry)
      BY ParseItemIn
    <3>3. Parsed(w) \o ParseItem(c) \in Seq(SkippedEntry)
      BY <2>2, <3>2, ConcatProperties
    <3>4. Append(w, c) \in Seq(Text)
      BY AppendProperties
    <3> QED
      BY <3>1, <3>3, <3>4
  <2> HIDE DEF In
  <2> QED
    BY <2>1, <2>2, TextInduction
<1>3. \A w \in Seq(Text) : Parsed(w) \in Seq(SkippedEntry)
  BY <1>2
<1>4. <<>> \in T
  <2>1. a \o <<>> = a /\ Parsed(a) \o <<>> = Parsed(a)
    BY <1>3, ConcatEmptySeq
  <2> QED
    BY <1>1, <2>1, EmptySeq
<1>5. ASSUME NEW w \in Seq(Text), NEW c \in Text, w \in T
      PROVE  Append(w, c) \in T
  <2>1. a \o Append(w, c) = Append(a \o w, c)
    BY AppendCat
  <2>2. a \o w \in Seq(Text) /\ Append(w, c) \in Seq(Text)
    BY ConcatProperties, AppendProperties
  <2>3. Parsed(Append(a \o w, c)) = Parsed(a \o w) \o ParseItem(c)
    BY <2>2, ParsedMore
  <2>4. Parsed(a \o w) = Parsed(a) \o Parsed(w)
    BY <1>5
  <2>5. Parsed(Append(w, c)) = Parsed(w) \o ParseItem(c)
    BY ParsedMore
  <2> DEFINE x == Parsed(a)
             y == Parsed(w)
             z == ParseItem(c)
  <2>6. x \in Seq(SkippedEntry) /\ y \in Seq(SkippedEntry) /\ z \in Seq(SkippedEntry)
    BY <1>3, ParseItemIn
  <2> HIDE DEF x, y, z
  <2>7. (x \o y) \o z = x \o (y \o z)
    BY <2>6, SMTT(40)
  <2> QED
    BY <2>1, <2>2, <2>3, <2>4, <2>5, <2>7 DEF x, y, z
<1> HIDE DEF T
<1>6. b \in T
  BY <1>4, <1>5, TextInduction
<1> QED
  BY <1>1, <1>3, <1>6 DEF T

-----------------------------------------------------------------------------
(* Parts of a text, by where they start in it.                             *)

Within(v, t, off) ==
  /\ off \in Nat /\ off + Len(v) <= Len(t)
  /\ \A i \in 1 .. Len(v) : v[i] = t[off + i]

LEMMA WithinPart ==
  ASSUME NEW v \in Text, NEW p \in Text, NEW t \in Text, NEW m, NEW n,
         Within(v, p, m), Within(p, t, n)
  PROVE  Within(v, t, m + n)
<1>1. Len(v) \in Nat /\ Len(p) \in Nat /\ Len(t) \in Nat
  BY DEF Text
<1>2. /\ m \in Nat /\ m + Len(v) <= Len(p) /\ \A i \in 1 .. Len(v) : v[i] = p[m + i]
      /\ n \in Nat /\ n + Len(p) <= Len(t) /\ \A i \in 1 .. Len(p) : p[i] = t[n + i]
  BY DEF Within
<1>3. ASSUME NEW i \in 1 .. Len(v)
      PROVE  v[i] = t[(m + n) + i]
  <2>1. m + i \in 1 .. Len(p) /\ n + (m + i) = (m + n) + i
    BY <1>1, <1>2
  <2>2. v[i] = p[m + i] /\ p[m + i] = t[n + (m + i)]
    BY <1>2, <2>1
  <2> QED
    BY <2>1, <2>2
<1>4. m + n \in Nat /\ (m + n) + Len(v) <= Len(t)
  BY <1>1, <1>2
<1> QED
  BY <1>3, <1>4 DEF Within

LEMMA TrimWithin ==
  ASSUME NEW t \in Text
  PROVE  /\ trim(t) \in Text /\ trim(trim(t)) = trim(t)
         /\ \E off : Within(trim(t), t, off) /\ (off > 0 => t[off] = Space)
<1> DEFINE v == trim(t)
<1>1. v \in Text
  BY TrimPart
<1>2. Len(t) \in Nat
  BY DEF Text
<1>3. CASE Solid(t) = {}
  <2>1. v = <<>>
    BY <1>3, TrimPart
  <2>2. Within(<<>>, t, 0)
    BY <1>2, EmptySeq DEF Within
  <2>3. trim(<<>>) = <<>>
    BY DEF trim
  <2> QED
    BY <1>1, <2>1, <2>2, <2>3
<1>4. CASE Solid(t) # {}
  <2>1. PICK m \in 1 .. Len(t), n \in 1 .. Len(t) :
          /\ m <= n /\ t[m] # Space /\ t[n] # Space
          /\ \A i \in 1 .. m - 1 : t[i] = Space
          /\ Len(v) = n - m + 1
          /\ \A i \in 1 .. n - m + 1 : v[i] = t[m + i - 1]
    BY <1>4, TrimPart
  <2> HIDE DEF v
  <2>2. Within(v, t, m - 1)
    <3>1. m - 1 \in Nat /\ (m - 1) + Len(v) <= Len(t)
      BY <1>2, <2>1
    <3>2. ASSUME NEW i \in 1 .. Len(v)
          PROVE  v[i] = t[(m - 1) + i]
      <4>1. m + i - 1 = (m - 1) + i /\ i \in 1 .. n - m + 1
        BY <1>2, <2>1
      <4> QED
        BY <2>1, <4>1
    <3> QED
      BY <3>1, <3>2 DEF Within
  <2>3. m - 1 > 0 => t[m - 1] = Space
    BY <1>2, <2>1
  <2>4. v # <<>> /\ v[1] # Space /\ v[Len(v)] # Space
    <3>1. Len(v) \in 1 .. n - m + 1 /\ 1 \in 1 .. n - m + 1 /\ m + 1 - 1 = m
          /\ m + Len(v) - 1 = n
      BY <1>2, <2>1
    <3>2. v[1] = t[m] /\ v[Len(v)] = t[n]
      BY <2>1, <3>1
    <3>3. v # <<>>
      BY <3>1, <2>1, EmptySeq
    <3> QED
      BY <2>1, <3>2, <3>3
  <2>5. trim(v) = v
    BY <1>1, <2>4, TrimSolid
  <2> QED
    BY <1>1, <2>2, <2>3, <2>5 DEF v
<1> QED
  BY <1>3, <1>4

(* The pieces so far hold no separator, and the last one ends with the text. *)
Fallen(p, t, sep) ==
  \A n \in 1 .. Len(p) :
    /\ \A i \in 1 .. Len(p[n]) : p[n][i] # sep
    /\ \E off : Within(p[n], t, off) /\ (n = Len(p) => off + Len(p[n]) = Len(t))

LEMMA FallenMore ==
  ASSUME NEW sep, NEW p \in Pieced, NEW t \in Text, NEW c \in Symbols, Fallen(p, t, sep)
  PROVE  Fallen(SplitTurn(p, c, sep), Append(t, c), sep)
<1> DEFINE cuts == c = sep
           q == Placed(p, c, cuts)
           u == Append(t, c)
           N == Len(t)
           L == Len(p)
           none == <<>>
<1>1. p \in Seq(Text) \ {<<>>} /\ L \in Nat \ {0}
  BY EmptySeq DEF Pieced
<1>2. /\ u \in Text /\ N \in Nat /\ Len(u) = N + 1 /\ u[N + 1] = c
      /\ \A i \in 1 .. N : u[i] = t[i]
  BY AppendProperties DEF Text
<1>3. \A n \in 1 .. L : p[n] \in Text /\ Len(p[n]) \in Nat
  BY <1>1 DEF Text
<1>4. SplitTurn(p, c, sep) = q
  BY DEF SplitTurn
<1> HIDE DEF u, L, none
<1>5. ASSUME NEW n \in 1 .. L
      PROVE  /\ \A i \in 1 .. Len(p[n]) : p[n][i] # sep
             /\ \E off : Within(p[n], u, off) /\ (n = L => off + Len(p[n]) = N)
  <2>1. /\ \A i \in 1 .. Len(p[n]) : p[n][i] # sep
        /\ \E off : Within(p[n], t, off) /\ (n = L => off + Len(p[n]) = N)
    BY DEF Fallen, L
  <2>2. PICK off : Within(p[n], t, off) /\ (n = L => off + Len(p[n]) = N)
    BY <2>1
  <2>3. off \in Nat /\ off + Len(p[n]) <= N /\ \A i \in 1 .. Len(p[n]) : p[n][i] = t[off + i]
    BY <2>2 DEF Within
  <2>4. off + Len(p[n]) <= Len(u)
    BY <1>2, <1>3, <2>3
  <2>5. ASSUME NEW i \in 1 .. Len(p[n])
        PROVE  p[n][i] = u[off + i]
    <3>1. off + i \in 1 .. N
      BY <1>2, <1>3, <2>3
    <3> QED
      BY <1>2, <2>3, <3>1
  <2>6. Within(p[n], u, off)
    BY <2>3, <2>4, <2>5 DEF Within
  <2> QED
    BY <2>1, <2>2, <2>6
<1>6. CASE cuts
  <2> HIDE DEF N
  <2>1. q = Append(p, none)
    <3> HIDE DEF cuts
    <3> QED
      BY <1>1, <1>6, PlacedIn DEF none
  <2>2. none \in Text /\ Len(none) = 0
    BY EmptySeq DEF none, Text
  <2> HIDE DEF q
  <2>3. /\ Len(q) = L + 1 /\ q[L + 1] = none
        /\ \A i \in 1 .. L : q[i] = p[i]
    BY <1>1, <2>1, <2>2, AppendProperties DEF L
  <2>4. ASSUME NEW n \in 1 .. Len(q)
        PROVE  /\ \A i \in 1 .. Len(q[n]) : q[n][i] # sep
               /\ \E off : Within(q[n], u, off) /\ (n = Len(q) => off + Len(q[n]) = Len(u))
    <3>1. CASE n = L + 1
      <4>1. Within(none, u, N + 1) /\ (N + 1) + Len(none) = Len(u)
        BY <1>2, <2>2 DEF Within
      <4>2. q[n] = none
        BY <2>3, <3>1
      <4> QED
        BY <2>2, <4>1, <4>2
    <3>2. CASE n # L + 1
      <4>1. n \in 1 .. L /\ n # Len(q)
        BY <1>1, <2>3, <3>2
      <4>2. q[n] = p[n]
        BY <2>3, <4>1
      <4> QED
        BY <1>5, <4>1, <4>2
    <3> QED
      BY <3>1, <3>2
  <2> QED
    BY <1>4, <2>4 DEF Fallen, u, q
<1>7. CASE ~cuts
  <2> HIDE DEF N
  <2>1. /\ Len(q) = L
        /\ \A i \in 1 .. L : q[i] = IF i = L THEN Append(p[i], c) ELSE p[i]
    <3> HIDE DEF cuts
    <3> QED
      BY <1>1, <1>7, PlacedIn DEF L
  <2> HIDE DEF q
  <2>2. ASSUME NEW n \in 1 .. Len(q)
        PROVE  /\ \A i \in 1 .. Len(q[n]) : q[n][i] # sep
               /\ \E off : Within(q[n], u, off) /\ (n = Len(q) => off + Len(q[n]) = Len(u))
    <3>1. n \in 1 .. L
      BY <2>1
    <3>2. CASE n = L
      <4> DEFINE x == p[n]
                 y == Append(x, c)
                 k == Len(x)
      <4>1. q[n] = y
        BY <2>1, <3>1, <3>2
      <4>2. x \in Text
        BY <1>3, <3>1
      <4>3. k \in Nat /\ Len(y) = k + 1 /\ y[k + 1] = c /\ \A i \in 1 .. k : y[i] = x[i]
        BY <4>2, AppendProperties DEF Text
      <4>4. PICK off : Within(x, u, off) /\ off + k = N
        BY <1>5, <3>1, <3>2
      <4>5. \A i \in 1 .. k : x[i] # sep
        BY <1>5, <3>1
      <4> HIDE DEF x, y
      <4>6. \A i \in 1 .. k : x[i] = u[off + i]
        BY <4>4 DEF Within
      <4>7. off \in Nat
        BY <4>4 DEF Within
      <4> HIDE DEF k
      <4>8. Within(y, u, off)
        <5>1. off + Len(y) <= Len(u)
          BY <1>2, <4>3, <4>4, <4>7
        <5>2. ASSUME NEW i \in 1 .. Len(y)
              PROVE  y[i] = u[off + i]
          <6>1. CASE i = k + 1
            <7>1. off + i = N + 1
              BY <1>2, <4>3, <4>4, <4>7, <6>1
            <7> QED
              BY <1>2, <4>3, <6>1, <7>1
          <6>2. CASE i # k + 1
            <7>1. i \in 1 .. k
              BY <4>3, <6>2
            <7> QED
              BY <4>3, <4>6, <7>1
          <6> QED
            BY <6>1, <6>2
        <5> QED
          BY <4>7, <5>1, <5>2 DEF Within
      <4>9. off + Len(y) = Len(u)
        BY <1>2, <4>3, <4>4, <4>7
      <4>10. ASSUME NEW i \in 1 .. Len(y)
             PROVE  y[i] # sep
        <5>1. CASE i = k + 1
          BY <1>7, <4>3, <5>1
        <5>2. CASE i # k + 1
          <6>1. i \in 1 .. k
            BY <4>3, <5>2
          <6> QED
            BY <4>3, <4>5, <6>1
        <5> QED
          BY <5>1, <5>2
      <4> QED
        BY <4>1, <4>8, <4>9, <4>10
    <3>3. CASE n # L
      <4>1. q[n] = p[n] /\ n # Len(q)
        BY <2>1, <3>1, <3>3
      <4> QED
        BY <1>5, <3>1, <4>1
    <3> QED
      BY <3>2, <3>3
  <2> QED
    BY <1>4, <2>2 DEF Fallen, u, q
<1> QED
  BY <1>6, <1>7

LEMMA SplitWithin ==
  ASSUME NEW sep, NEW t \in Text, NEW n \in DOMAIN split(t, sep)
  PROVE  LET piece == split(t, sep)[n]
         IN  /\ piece \in Text
             /\ \A i \in 1 .. Len(piece) : piece[i] # sep
             /\ \E off : Within(piece, t, off)
<1> DEFINE T == {w \in Seq(Symbols) : Fallen(SplitFrom(FirstPiece, w, sep), w, sep)}
           p == split(t, sep)
<1>1. <<>> \in T
  <2> DEFINE f == FirstPiece
             e == <<>>
  <2>1. SplitFrom(f, e, sep) = f
    BY FirstPieceIn, SplitEmpty
  <2>2. Len(f) = 1 /\ f[1] = e
    BY DEF FirstPiece
  <2>3. Len(e) = 0 /\ e \in Seq(Symbols)
    BY EmptySeq
  <2> HIDE DEF f, e
  <2>4. Within(e, e, 0) /\ 0 + Len(e) = Len(e)
    BY <2>3 DEF Within
  <2>5. Fallen(f, e, sep)
    BY <2>2, <2>3, <2>4 DEF Fallen
  <2> QED
    BY <2>1, <2>3, <2>5 DEF f, e
<1>2. ASSUME NEW w \in Seq(Symbols), NEW c \in Symbols, w \in T
      PROVE  Append(w, c) \in T
  <2> DEFINE q == SplitFrom(FirstPiece, w, sep)
  <2>1. q \in Pieced
    BY FirstPieceIn, SplitIn
  <2>2. SplitFrom(FirstPiece, Append(w, c), sep) = SplitTurn(q, c, sep)
    BY FirstPieceIn, SplitAppend
  <2>3. Fallen(q, w, sep)
    BY <1>2
  <2>4. w \in Text /\ Append(w, c) \in Seq(Symbols)
    BY AppendProperties DEF Text
  <2> HIDE DEF q
  <2>5. Fallen(SplitTurn(q, c, sep), Append(w, c), sep)
    BY <2>1, <2>3, <2>4, FallenMore
  <2> QED
    BY <2>2, <2>4, <2>5
<1> HIDE DEF T
<1>3. t \in T
  BY <1>1, <1>2, TextInduction DEF Text
<1>4. Fallen(p, t, sep)
  BY <1>3, SplitIsFrom DEF T, FirstPiece
<1>5. p \in Seq(Text)
  BY SplitPieces DEF Pieced
<1>6. n \in DOMAIN p
  OBVIOUS
<1> HIDE DEF p
<1>7. n \in 1 .. Len(p) /\ p[n] \in Text
  BY <1>5, <1>6
<1> QED
  BY <1>4, <1>7 DEF Fallen, p

-----------------------------------------------------------------------------
(* Part of an item is no string, unless it is the whole quoted identifier. *)

(* Every quote of an escaped text has its backslash, and every symbol of   *)
(* the text is still there.                                                *)
LEMMA EscapeGuards ==
  ASSUME NEW v \in Text
  PROVE  LET e == sf_escape(v)
         IN  /\ \A i \in 1 .. Len(e) : e[i] = Quote => i > 1 /\ e[i - 1] = Backslash
             /\ \A i \in 1 .. Len(v) : \E j \in 1 .. Len(e) : e[j] = v[i]
<1> DEFINE Guarded(e) == \A i \in 1 .. Len(e) : e[i] = Quote => i > 1 /\ e[i - 1] = Backslash
           Kept(w, e) == \A i \in 1 .. Len(w) : \E j \in 1 .. Len(e) : e[j] = w[i]
           T == {w \in Seq(Symbols) : Guarded(sf_escape(w)) /\ Kept(w, sf_escape(w))}
<1>1. <<>> \in T
  <2> DEFINE none == <<>>
  <2>1. none \in Seq(Symbols) /\ Len(none) = 0
    BY EmptySeq
  <2>2. sf_escape(none) = none
    <3>1. sf_escape(<<>>) = <<>>
      BY <2>1, EscapeSteps
    <3> QED
      BY <3>1
  <2> HIDE DEF none
  <2>3. Guarded(none) /\ Kept(none, none)
    BY <2>1
  <2>4. Guarded(sf_escape(none)) /\ Kept(none, sf_escape(none))
    BY <2>2, <2>3
  <2> QED
    BY <2>1, <2>4 DEF none
<1>2. ASSUME NEW w \in Seq(Symbols), NEW c \in Symbols, w \in T
      PROVE  Append(w, c) \in T
  <2> DEFINE e == sf_escape(w)
             x == Escaped(c)
             y == e \o x
             u == Append(w, c)
  <2>1. e \in Seq(Symbols) /\ sf_escape(u) = y
    BY EscapeSteps
  <2>2. Guarded(e) /\ Kept(w, e)
    BY <1>2
  <2>3. x \in Seq(Symbols)
    BY EscapedIn
  <2>4. /\ u \in Seq(Symbols) /\ Len(u) = Len(w) + 1 /\ u[Len(w) + 1] = c
        /\ \A i \in 1 .. Len(w) : u[i] = w[i]
        /\ Len(w) \in Nat
    BY AppendProperties
  <2>5. \/ Len(x) = 1 /\ x[1] = c /\ c # Quote
        \/ Len(x) = 2 /\ x[1] = Backslash /\ x[2] = c
    <3>1. CASE c \in {Quote, Backslash}
      <4>1. x = <<Backslash, c>>
        BY <3>1 DEF Escaped
      <4> HIDE DEF x
      <4> QED
        BY <4>1
    <3>2. CASE c \notin {Quote, Backslash}
      <4>1. x = <<c>>
        BY <3>2 DEF Escaped
      <4> HIDE DEF x
      <4> QED
        BY <3>2, <4>1
    <3> QED
      BY <3>1, <3>2
  <2> HIDE DEF e, x, u
  <2>6. /\ Len(y) = Len(e) + Len(x) /\ Len(e) \in Nat
        /\ \A i \in 1 .. Len(e) : y[i] = e[i]
        /\ \A i \in 1 .. Len(x) : y[Len(e) + i] = x[i]
    <3>1. Len(y) = Len(e) + Len(x) /\ Len(e) \in Nat
      BY <2>1, <2>3, ConcatProperties
    <3>2. \A i \in 1 .. Len(e) : y[i] = e[i]
      BY <2>1, <2>3, ConcatProperties
    <3>3. \A i \in 1 .. Len(x) : y[Len(e) + i] = x[i]
      BY <2>1, <2>3, ConcatProperties
    <3> QED
      BY <3>1, <3>2, <3>3
  <2> HIDE DEF y
  <2>7. Guarded(y)
    <3> SUFFICES ASSUME NEW i \in 1 .. Len(y), y[i] = Quote
                 PROVE  i > 1 /\ y[i - 1] = Backslash
      OBVIOUS
    <3>1. CASE i \in 1 .. Len(e)
      <4>1. i > 1 /\ e[i - 1] = Backslash
        BY <2>2, <2>6, <3>1
      <4>2. i - 1 \in 1 .. Len(e)
        BY <2>6, <3>1, <4>1
      <4> QED
        BY <2>6, <4>1, <4>2
    <3>2. CASE i \notin 1 .. Len(e)
      <4>1. Len(x) \in {1, 2}
        BY <2>5
      <4>2. i = Len(e) + 1 \/ (i = Len(e) + 2 /\ Len(x) = 2)
        BY <2>6, <3>2, <4>1, SMTT(40)
      <4>3. i # Len(e) + 1
        <5> SUFFICES ASSUME i = Len(e) + 1 PROVE FALSE
          OBVIOUS
        <5>1. y[i] = x[1]
          BY <2>6, <4>1
        <5> QED
          BY <2>5, <5>1, SymbolsDiffer
      <4>4. i = Len(e) + 2 /\ Len(x) = 2 /\ x[1] = Backslash
        <5>1. i = Len(e) + 2 /\ Len(x) = 2
          BY <4>2, <4>3
        <5>2. Len(x) # 1
          BY <5>1
        <5> QED
          BY <2>5, <5>1, <5>2
      <4>5. y[Len(e) + 1] = x[1] /\ i - 1 = Len(e) + 1
        BY <2>6, <4>1, <4>4
      <4> QED
        BY <2>6, <4>4, <4>5
    <3> QED
      BY <3>1, <3>2
  <2>8. Kept(u, y)
    <3> SUFFICES ASSUME NEW i \in 1 .. Len(u)
                 PROVE  \E j \in 1 .. Len(y) : y[j] = u[i]
      OBVIOUS
    <3>1. CASE i \in 1 .. Len(w)
      <4>1. PICK j \in 1 .. Len(e) : e[j] = w[i]
        BY <2>2, <3>1
      <4>2. j \in 1 .. Len(y) /\ y[j] = e[j] /\ u[i] = w[i]
        BY <2>4, <2>5, <2>6, <3>1
      <4> QED
        BY <4>1, <4>2
    <3>2. CASE i \notin 1 .. Len(w)
      <4>1. i = Len(w) + 1 /\ u[i] = c
        BY <2>4, <3>2
      <4>2. Len(x) \in {1, 2} /\ x[Len(x)] = c
        BY <2>5
      <4>3. Len(e) + Len(x) \in 1 .. Len(y) /\ y[Len(e) + Len(x)] = x[Len(x)]
        <5>1. Len(x) \in 1 .. Len(x)
          BY <4>2
        <5>2. y[Len(e) + Len(x)] = x[Len(x)]
          BY <2>6, <5>1
        <5>3. Len(e) + Len(x) \in 1 .. Len(y)
          <6>1. Len(y) = Len(e) + Len(x) /\ Len(e) \in Nat
            BY <2>6
          <6>2. Len(x) \in 1 .. 2
            BY <4>2
          <6> DEFINE p == Len(e)
                     s == Len(x)
                     t == Len(y)
          <6>3. t = p + s /\ p \in Nat /\ s \in 1 .. 2
            BY <6>1, <6>2
          <6> HIDE DEF p, s, t
          <6>4. p + s \in 1 .. t
            BY <6>3
          <6> QED
            BY <6>4 DEF p, s, t
        <5> QED
          BY <5>2, <5>3
      <4> QED
        BY <4>1, <4>2, <4>3
    <3> QED
      BY <3>1, <3>2
  <2> QED
    BY <2>1, <2>4, <2>7, <2>8 DEF u
<1> HIDE DEF T
<1>3. v \in T
  BY <1>1, <1>2, TextInduction DEF Text
<1> QED
  BY <1>3 DEF T

(* Once it is past the closing quote, the reader never reads a string again. *)
LEMMA ReadPast ==
  ASSUME NEW r \in Reader, r.at \notin {"string", "escape"}, NEW t \in Text
  PROVE  FoldLeft(Read, r, t).at \notin {"string", "escape"}
<1> DEFINE T == {w \in Seq(Symbols) : FoldLeft(Read, r, w).at \notin {"string", "escape"}}
<1>1. <<>> \in T
  BY ReadEmpty, EmptySeq
<1>2. ASSUME NEW w \in Seq(Symbols), NEW c \in Symbols, w \in T
      PROVE  Append(w, c) \in T
  <2> DEFINE q == FoldLeft(Read, r, w)
  <2>1. q \in Reader
    BY ReadIn
  <2>2. q.at \notin {"string", "escape"}
    BY <1>2
  <2>3. FoldLeft(Read, r, Append(w, c)) = Read(q, c)
    BY ReadAppend
  <2> HIDE DEF q
  <2>4. Read(q, c).at \notin {"string", "escape"}
    BY <2>1, <2>2 DEF Read, Reader
  <2> QED
    BY <2>3, <2>4, AppendProperties
<1> HIDE DEF T
<1>3. t \in T
  BY <1>1, <1>2, TextInduction DEF Text
<1> QED
  BY <1>3 DEF T

LEMMA PrefixIs ==
  ASSUME NEW S, NEW x \in Seq(S), NEW e \in Seq(S), Len(x) <= Len(e),
         \A i \in 1 .. Len(x) : x[i] = e[i]
  PROVE  \E y \in Seq(S) : e = x \o y
<1> DEFINE k == Len(x)
           n == Len(e) - k
           y == [i \in 1 .. n |-> e[k + i]]
           z == x \o y
<1>1. k \in Nat /\ n \in Nat /\ Len(e) = k + n
  OBVIOUS
<1> HIDE DEF k, n
<1>2. y \in Seq(S) /\ Len(y) = n /\ \A i \in 1 .. n : y[i] = e[k + i]
  BY <1>1
<1> HIDE DEF y
<1>3. /\ z \in Seq(S) /\ Len(z) = k + n
      /\ \A i \in 1 .. k + n : z[i] = IF i <= k THEN x[i] ELSE y[i - k]
  BY <1>2, ConcatProperties DEF k
<1> HIDE DEF z
<1>4. ASSUME NEW i \in 1 .. k + n
      PROVE  z[i] = e[i]
  <2>1. CASE i <= k
    BY <1>1, <1>3, <2>1 DEF k
  <2>2. CASE ~(i <= k)
    <3>1. i - k \in 1 .. n /\ k + (i - k) = i
      BY <1>1, <2>2
    <3> QED
      BY <1>2, <1>3, <2>2, <3>1
  <2> QED
    BY <2>1, <2>2
<1>5. z = e
  BY <1>1, <1>3, <1>4, SeqEqual
<1> QED
  BY <1>2, <1>5 DEF z

(* What starts an escaped text is no string yet. *)
LEMMA PrefixUnread ==
  ASSUME NEW id \in Text, NEW x \in Text, Len(x) <= Len(sf_escape(id)),
         \A i \in 1 .. Len(x) : x[i] = sf_escape(id)[i]
  PROVE  FoldLeft(Read, Start, x).at # "end"
<1> DEFINE e == sf_escape(id)
           r == FoldLeft(Read, Start, x)
<1>1. e \in Seq(Symbols) /\ x \in Seq(Symbols) /\ id \in Seq(Symbols)
  BY EscapeSteps DEF Text
<1>2. PICK y \in Seq(Symbols) : e = x \o y
  <2> HIDE DEF e
  <2> QED
    BY <1>1, PrefixIs DEF e
<1>3. FoldLeft(Read, Start, e).at = "string"
  <2>1. Start.at = "string"
    BY DEF Start
  <2>2. FoldLeft(Read, Start, e) = [at |-> "string", out |-> Start.out \o id]
    BY <1>1, <2>1, StartIn, ReadEscaped
  <2> QED
    BY <2>2
<1> HIDE DEF e
<1>4. FoldLeft(Read, Start, e) = FoldLeft(Read, r, y)
  BY <1>1, <1>2, StartIn, ReadCat
<1>5. r \in Reader
  BY <1>1, StartIn, ReadIn
<1> HIDE DEF r
<1>6. r.at \notin {"string", "escape"} => FoldLeft(Read, r, y).at \notin {"string", "escape"}
  BY <1>5, ReadPast DEF Text
<1> QED
  BY <1>3, <1>4, <1>6 DEF r

(* A part of an item that is a string, but does not have all the symbols   *)
(* of the identifier in it, is none: it would have to start at the opening *)
(* quote, or after a backslash, or be the closing quote alone.             *)
LEMMA PartUnread ==
  ASSUME NEW pre \in Text, \A i \in 1 .. Len(pre) : pre[i] # Quote,
         NEW id \in Text, NEW v \in Text, trim(v) = v,
         NEW off \in Nat, Within(v, pre \o Quoted(id), off),
         off > 0, (pre \o Quoted(id))[off] # Backslash,
         NEW k \in 1 .. Len(id), \A i \in 1 .. Len(v) : v[i] # id[k]
  PROVE  parse_quoted(v) = None
<1> DEFINE e == sf_escape(id)
           q == <<Quote>>
           m == Len(pre)
           n == Len(e)
           w == pre \o Quoted(id)
<1>1. e \in Seq(Symbols) /\ id \in Seq(Symbols)
  BY EscapeSteps DEF Text
<1>2. /\ \A i \in 1 .. n : e[i] = Quote => i > 1 /\ e[i - 1] = Backslash
      /\ \E j \in 1 .. n : e[j] = id[k]
  BY EscapeGuards
<1>3. m \in Nat /\ pre \in Seq(Symbols)
  BY DEF Text
<1>4. n \in Nat
  BY <1>1
<1>5. w = pre \o ((q \o e) \o q)
  BY DEF Quoted
<1>6. q \in Seq(Symbols) /\ Len(q) = 1 /\ q[1] = Quote
  BY SyntaxIn, Literals
<1> HIDE DEF e, q
<1> DEFINE a == q \o e
           b == a \o q
<1>7. /\ a \in Seq(Symbols) /\ Len(a) = n + 1 /\ a[1] = Quote
      /\ \A i \in 1 .. n : a[i + 1] = e[i]
  <2>1. a \in Seq(Symbols) /\ Len(a) = Len(q) + Len(e)
    BY <1>1, <1>6, ConcatProperties
  <2>2. \A i \in 1 .. Len(q) + Len(e) : a[i] = IF i <= Len(q) THEN q[i] ELSE e[i - Len(q)]
    BY <1>1, <1>6, ConcatProperties
  <2> HIDE DEF a
  <2>3. a[1] = Quote
    BY <1>4, <1>6, <2>2
  <2>4. ASSUME NEW i \in 1 .. n
        PROVE  a[i + 1] = e[i]
    <3>1. i + 1 \in 1 .. Len(q) + Len(e) /\ ~(i + 1 <= Len(q)) /\ (i + 1) - Len(q) = i
      BY <1>4, <1>6
    <3> QED
      BY <2>2, <3>1
  <2> QED
    BY <1>4, <1>6, <2>1, <2>3, <2>4
<1> HIDE DEF a
<1>8. /\ b \in Seq(Symbols) /\ Len(b) = n + 2 /\ b[1] = Quote /\ b[n + 2] = Quote
      /\ \A i \in 1 .. n : b[i + 1] = e[i]
  <2>1. b \in Seq(Symbols) /\ Len(b) = Len(a) + Len(q)
    BY <1>6, <1>7, ConcatProperties
  <2>2. \A i \in 1 .. Len(a) + Len(q) : b[i] = IF i <= Len(a) THEN a[i] ELSE q[i - Len(a)]
    BY <1>6, <1>7, ConcatProperties
  <2> HIDE DEF b
  <2>3. b[1] = Quote
    <3>1. 1 \in 1 .. Len(a) + Len(q) /\ 1 <= Len(a)
      BY <1>4, <1>6, <1>7
    <3> QED
      BY <1>7, <2>2, <3>1
  <2>4. b[n + 2] = Quote
    <3>1. n + 2 \in 1 .. Len(a) + Len(q) /\ ~(n + 2 <= Len(a)) /\ (n + 2) - Len(a) = 1
      BY <1>4, <1>6, <1>7
    <3> QED
      BY <1>6, <2>2, <3>1
  <2>5. ASSUME NEW i \in 1 .. n
        PROVE  b[i + 1] = e[i]
    <3>1. i + 1 \in 1 .. Len(a) + Len(q) /\ i + 1 <= Len(a)
      BY <1>4, <1>6, <1>7
    <3>2. b[i + 1] = a[i + 1]
      BY <2>2, <3>1
    <3> QED
      BY <1>7, <3>2
  <2> QED
    BY <1>4, <1>6, <1>7, <2>1, <2>3, <2>4, <2>5
<1> HIDE DEF b
<1>9. w = pre \o b
  BY <1>5 DEF a, b
<1> HIDE DEF w
<1>10. /\ Len(w) = m + (n + 2)
       /\ \A i \in 1 .. m : w[i] = pre[i]
       /\ \A i \in 1 .. n + 2 : w[m + i] = b[i]
  <2>1. Len(w) = Len(pre) + Len(b)
    BY <1>3, <1>8, <1>9, ConcatProperties
  <2>2. \A i \in 1 .. Len(pre) + Len(b) : w[i] = IF i <= Len(pre) THEN pre[i] ELSE b[i - Len(pre)]
    BY <1>3, <1>8, <1>9, ConcatProperties
  <2>3. ASSUME NEW i \in 1 .. n + 2
        PROVE  w[m + i] = b[i]
    <3>1. m + i \in 1 .. Len(pre) + Len(b) /\ ~(m + i <= Len(pre)) /\ (m + i) - Len(pre) = i
      BY <1>3, <1>4, <1>8
    <3> QED
      BY <2>2, <3>1
  <2>4. ASSUME NEW i \in 1 .. m
        PROVE  w[i] = pre[i]
    <3>1. i \in 1 .. Len(pre) + Len(b) /\ i <= Len(pre)
      BY <1>3, <1>4, <1>8
    <3> QED
      BY <2>2, <3>1
  <2> QED
    BY <1>8, <2>1, <2>3, <2>4
<1>11. /\ off + Len(v) <= m + (n + 2)
       /\ \A i \in 1 .. Len(v) : v[i] = w[off + i]
  BY <1>10 DEF Within, w
<1>12. w[off] # Backslash
  BY DEF w
<1>13. \A i \in 1 .. m : pre[i] # Quote
  BY DEF m
<1>14. Len(v) \in Nat /\ v \in Seq(Symbols)
  BY DEF Text
<1> HIDE DEF m, n
<1>15. CASE v = <<>> \/ v[1] # Quote
  BY <1>15 DEF parse_quoted
<1>16. CASE ~(v = <<>> \/ v[1] # Quote)
  <2> DEFINE x == Tail(v)
             r == FoldLeft(Read, Start, x)
             l == Len(v) - 1
  <2>1. parse_quoted(v) = IF r.at = "end" THEN r.out ELSE None
    BY <1>16 DEF parse_quoted, Start
  <2>2. /\ l \in Nat /\ Len(v) = l + 1 /\ v[1] = Quote
        /\ x \in Text /\ Len(x) = l /\ \A i \in 1 .. l : x[i] = v[i + 1]
    BY <1>14, <1>16, EmptySeq, HeadTailProperties DEF Text
  <2> HIDE DEF r, l, x
  <2>3. w[off + 1] = Quote
    BY <1>11, <2>2
  <2>4. ~(off + 1 <= m)
    <3> SUFFICES ASSUME off + 1 <= m PROVE FALSE
      OBVIOUS
    <3>1. off + 1 \in 1 .. m
      BY <1>3
    <3> QED
      BY <1>10, <1>13, <2>3, <3>1
  <2> DEFINE d == off - m
  <2>5. /\ d \in Nat /\ off = m + d /\ d <= n + 1 /\ d + l <= n + 1
    BY <1>3, <1>4, <1>11, <2>2, <2>4
  <2> HIDE DEF d
  <2>6. b[d + 1] = Quote
    <3>1. d + 1 \in 1 .. n + 2 /\ m + (d + 1) = off + 1
      BY <1>3, <1>4, <2>5
    <3> QED
      BY <1>10, <2>3, <3>1
  <2>7. r.at # "end"
    <3>1. CASE d = 0
      <4>1. \A i \in 1 .. l : x[i] = b[i + 1]
        <5> SUFFICES ASSUME NEW i \in 1 .. l PROVE x[i] = b[i + 1]
          OBVIOUS
        <5>1. i + 1 \in 1 .. Len(v) /\ i + 1 \in 1 .. n + 2 /\ off + (i + 1) = m + (i + 1)
          BY <1>3, <1>4, <2>2, <2>5, <3>1
        <5>2. x[i] = v[i + 1] /\ v[i + 1] = w[off + (i + 1)] /\ w[m + (i + 1)] = b[i + 1]
          BY <1>10, <1>11, <2>2, <5>1
        <5> QED
          BY <5>1, <5>2
      <4>2. l <= n
        <5> SUFFICES ASSUME l > n PROVE FALSE
          BY <1>4, <2>2
        <5>1. PICK j \in 1 .. n : e[j] = id[k]
          BY <1>2
        <5>2. j \in 1 .. l /\ j + 1 \in 1 .. Len(v)
          BY <1>4, <2>2
        <5>3. x[j] = v[j + 1] /\ x[j] = b[j + 1] /\ b[j + 1] = e[j]
          BY <1>8, <2>2, <4>1, <5>2
        <5>4. v[j + 1] # id[k]
          BY <5>2
        <5> QED
          BY <5>1, <5>3, <5>4
      <4>3. \A i \in 1 .. l : x[i] = e[i]
        BY <1>4, <1>8, <2>2, <4>1, <4>2
      <4> QED
        BY <2>2, <4>2, <4>3, PrefixUnread DEF r, e, n
    <3>2. CASE d = n + 1
      <4>1. l = 0
        BY <1>4, <2>2, <2>5, <3>2
      <4>2. x = <<>>
        BY <2>2, <4>1, EmptySeq DEF Text
      <4>3. r = Start
        BY <4>2, StartIn, ReadEmpty DEF r
      <4> QED
        BY <4>3 DEF Start
    <3>3. CASE d # 0 /\ d # n + 1
      <4>1. d \in 1 .. n
        BY <1>4, <2>5, <3>3
      <4>2. e[d] = Quote
        BY <1>8, <2>6, <4>1
      <4>3. d > 1 /\ e[d - 1] = Backslash
        BY <1>2, <4>1, <4>2 DEF n
      <4>4. d - 1 \in 1 .. n /\ (d - 1) + 1 = d /\ d \in 1 .. n + 2
        BY <1>4, <4>1, <4>3
      <4>5. b[d] = Backslash
        BY <1>8, <4>3, <4>4
      <4>6. w[m + d] = b[d]
        BY <1>10, <4>4
      <4> QED
        BY <1>12, <2>5, <4>5, <4>6
    <3> QED
      BY <3>1, <3>2, <3>3
  <2> QED
    BY <2>1, <2>7
<1> QED
  BY <1>15, <1>16

-----------------------------------------------------------------------------
(* An item of the list is read back, or nothing in it is read.             *)

Comma == ","
Identifier == "session_identifier"

Item(reason, id) == <<reason, Semicolon, Identifier, Equals>> \o Quoted(id)

LEMMA WordsAre ==
  /\ SkipReason \subseteq Symbols /\ Identifier \in Symbols
  /\ Comma \in Symbols /\ Comma # Quote /\ Comma # Backslash /\ Comma # Space
  /\ Semicolon # Backslash /\ Semicolon # Space
  /\ Equals # Comma /\ Equals # Space /\ Equals # Backslash
  /\ \A r \in SkipReason \cup {Identifier} :
       /\ r # Quote /\ r # Space /\ r # Backslash
       /\ r # Comma /\ r # Semicolon /\ r # Equals
<1>1. SkipReason \subseteq Syntax /\ Identifier \in Syntax
  BY DEF Syntax, Identifier
<1>2. \A r \in SkipReason \cup {Identifier} :
        /\ r # Quote /\ r # Space /\ r # Backslash
        /\ r # Comma /\ r # Semicolon /\ r # Equals
  BY DEF SkipReason, Identifier, Quote, Space, Backslash, Comma, Semicolon, Equals
<1>3. /\ Comma \in Symbols /\ Comma # Quote /\ Comma # Backslash /\ Comma # Space
      /\ Semicolon # Backslash /\ Semicolon # Space
      /\ Equals # Comma /\ Equals # Space /\ Equals # Backslash
  BY SyntaxIn, SymbolsDiffer DEF Comma, Semicolon, Equals
<1> QED
  BY <1>1, <1>2, <1>3, SyntaxIn

(* Escaping adds no separator. *)
LEMMA EscapeClean ==
  ASSUME NEW S \in SUBSET Symbols, Quote \in S, Backslash \in S, NEW id \in Seq(S)
  PROVE  Quoted(id) \in Seq(S)
<1> DEFINE T == {w \in Seq(S) : sf_escape(w) \in Seq(S)}
<1>1. \A w \in Seq(S) : w \in Seq(Symbols)
  BY SeqMonotonic
<1>2. <<>> \in T
  <2>1. <<>> \in Seq(Symbols) /\ <<>> \in Seq(S)
    BY EmptySeq
  <2> QED
    BY <2>1, EscapeSteps
<1>3. ASSUME NEW w \in Seq(S), NEW c \in S, w \in T
      PROVE  Append(w, c) \in T
  <2>1. w \in Seq(Symbols) /\ c \in Symbols
    BY <1>1
  <2>2. sf_escape(Append(w, c)) = sf_escape(w) \o Escaped(c)
    BY <2>1, EscapeSteps
  <2>3. Escaped(c) \in Seq(S)
    BY Literals DEF Escaped
  <2>4. sf_escape(w) \in Seq(S)
    BY <1>3
  <2>5. sf_escape(w) \o Escaped(c) \in Seq(S)
    BY <2>3, <2>4, ConcatProperties
  <2> QED
    BY <2>2, <2>5, AppendProperties
<1> HIDE DEF T
<1>4. id \in T
  BY <1>2, <1>3, TextInduction
<1> DEFINE e == sf_escape(id)
           q == <<Quote>>
<1>5. e \in Seq(S)
  BY <1>4 DEF T
<1>6. q \in Seq(S)
  BY Literals
<1>7. Quoted(id) = (q \o e) \o q
  BY DEF Quoted
<1> HIDE DEF e, q
<1>8. q \o e \in Seq(S)
  BY <1>5, <1>6, ConcatProperties
<1> QED
  BY <1>6, <1>7, <1>8, ConcatProperties

LEMMA TrimLead ==
  ASSUME NEW t \in Text, t # <<>>, t[1] # Space, t[Len(t)] # Space
  PROVE  trim(<<Space>> \o t) = t
<1> DEFINE u == <<Space>> \o t
           N == Len(t)
<1>1. t \in Seq(Symbols) /\ N \in Nat \ {0} /\ Space \in Symbols
  BY EmptySeq, SyntaxIn DEF Text
<1>2. /\ u \in Seq(Symbols) /\ Len(u) = N + 1 /\ u[1] = Space
      /\ \A i \in 1 .. N : u[i + 1] = t[i]
  <2> DEFINE s == <<Space>>
  <2>1. s \in Seq(Symbols) /\ Len(s) = 1 /\ s[1] = Space
    BY <1>1, Literals
  <2> HIDE DEF s
  <2>2. /\ s \o t \in Seq(Symbols) /\ Len(s \o t) = Len(s) + Len(t)
        /\ \A i \in 1 .. Len(s) + Len(t) : (s \o t)[i] = IF i <= Len(s) THEN s[i] ELSE t[i - Len(s)]
    BY <1>1, <2>1, ConcatProperties
  <2>3. (s \o t)[1] = Space
    <3>1. 1 \in 1 .. Len(s) + Len(t) /\ 1 <= Len(s)
      BY <1>1, <2>1
    <3> QED
      BY <2>1, <2>2, <3>1
  <2>4. ASSUME NEW i \in 1 .. N
        PROVE  (s \o t)[i + 1] = t[i]
    <3>1. i + 1 \in 1 .. Len(s) + Len(t) /\ ~(i + 1 <= Len(s)) /\ (i + 1) - Len(s) = i
      BY <1>1, <2>1
    <3> QED
      BY <2>2, <3>1
  <2>5. Len(s) + Len(t) = N + 1
    BY <1>1, <2>1
  <2> QED
    BY <2>2, <2>3, <2>4, <2>5 DEF s
<1> HIDE DEF u
<1> DEFINE solid == Solid(u)
<1>3. DOMAIN u = 1 .. N + 1
  BY <1>1, <1>2
<1>4. u[2] = t[1] /\ u[N + 1] = t[N]
  <2>1. 1 \in 1 .. N /\ N \in 1 .. N /\ 1 + 1 = 2
    BY <1>1
  <2> QED
    BY <1>2, <2>1
<1>5. solid \in SUBSET Int /\ 2 \in solid /\ N + 1 \in solid
  BY <1>1, <1>3, <1>4 DEF Solid
<1>6. \A y \in solid : 2 <= y /\ N + 1 >= y
  BY <1>1, <1>2, <1>3 DEF Solid
<1> HIDE DEF solid
<1>7. Min(solid) = 2 /\ Max(solid) = N + 1
  BY <1>5, <1>6, MinIs, MaxIs
<1>8. trim(u) = SubSeq(u, 2, N + 1)
  <2>1. solid # {}
    BY <1>5
  <2> QED
    BY <1>7, <2>1 DEF trim, solid, Solid
<1>9. SubSeq(u, 2, N + 1) = t
  <2> DEFINE x == SubSeq(u, 2, N + 1)
  <2>1. \A i \in 2 .. N + 1 : u[i] \in Symbols
    BY <1>1, <1>2
  <2>2. /\ x \in Seq(Symbols) /\ Len(x) = N
        /\ \A i \in 1 .. N : x[i] = u[2 + i - 1]
    BY <1>1, <2>1, SubSeqProperties
  <2> HIDE DEF x
  <2>3. ASSUME NEW i \in 1 .. N
        PROVE  x[i] = t[i]
    <3>1. 2 + i - 1 = i + 1
      BY <1>1
    <3> QED
      BY <1>2, <2>2, <3>1
  <2>4. x = t
    BY <1>1, <2>2, <2>3, SeqEqual
  <2> QED
    BY <2>4 DEF x
<1> QED
  BY <1>8, <1>9 DEF u

LEMMA ItemIs ==
  ASSUME NEW reason \in SkipReason, NEW id \in Text
  PROVE  /\ Item(reason, id) \in Text /\ Item(reason, id) # <<>>
         /\ Item(reason, id)[1] # Space /\ Item(reason, id)[Len(Item(reason, id))] # Space
         /\ <<Identifier, Equals>> \o Quoted(id) \in Text
         /\ Item(reason, id)
              = <<reason>> \o (<<Semicolon>> \o (<<Identifier, Equals>> \o Quoted(id)))
<1> DEFINE q == Quoted(id)
           h == <<reason, Semicolon, Identifier, Equals>>
           t == h \o q
<1>1. /\ q \in Seq(Symbols) /\ q # <<>> /\ q[Len(q)] = Quote
  BY QuotedReadBack DEF Text
<1>2. /\ reason \in Symbols /\ Semicolon \in Symbols /\ Identifier \in Symbols
      /\ Equals \in Symbols /\ reason # Space
  BY WordsAre, KeysAre
<1> HIDE DEF q
<1>3. h \in Seq(Symbols) /\ Len(h) = 4 /\ h[1] = reason
  BY <1>2
<1>4. /\ h \o q = <<reason>> \o (<<Semicolon>> \o (<<Identifier, Equals>> \o q))
      /\ <<Identifier, Equals>> \o q \in Seq(Symbols)
  <2> DEFINE S == Symbols
             a == reason
             b == Semicolon
             c == Identifier
             d == Equals
  <2>1. a \in S /\ b \in S /\ c \in S /\ d \in S
    BY <1>2
  <2>2. q \in Seq(S)
    BY <1>1
  <2> HIDE DEF S, a, b, c, d
  <2> DEFINE three == <<a, b, c>>
             four == <<a, b, c, d>>
             o == <<a>>
             p == <<b>>
             k == <<c>>
             r == <<d>>
             kr == <<c, d>>
  <2>3. four = Append(three, d) /\ four \in Seq(S)
    BY <2>1
  <2>4. /\ three \in Seq(S) /\ three = (o \o p) \o k
        /\ o \in Seq(S) /\ p \in Seq(S) /\ k \in Seq(S) /\ r \in Seq(S)
        /\ kr \in Seq(S) /\ kr = Append(k, d) /\ r = <<d>>
    BY <2>1, ThreeOf, Literals, SMTT(40)
  <2> HIDE DEF three, four, o, p, k, r, kr
  <2>5. four = three \o r /\ kr = k \o r
    BY <2>3, <2>4, <2>1, AppendIsConcat
  <2> DEFINE op == o \o p
             y == kr \o q
             z == p \o y
  <2>6. o \in Seq(S)
    BY <2>4
  <2>7. p \in Seq(S)
    BY <2>4
  <2>8. k \in Seq(S)
    BY <2>4
  <2>9. r \in Seq(S)
    BY <2>4
  <2>10. kr \in Seq(S)
    BY <2>4
  <2>11. op \in Seq(S)
    BY <2>6, <2>7, ConcatProperties
  <2>12. y \in Seq(S)
    BY <2>10, <2>2, ConcatProperties
  <2> HIDE DEF y
  <2>13. z \in Seq(S)
    BY <2>7, <2>12, ConcatProperties
  <2>14. (o \o p) \o y = o \o (p \o y)
    BY <2>6, <2>7, <2>12
  <2> HIDE DEF op
  <2>15. (op \o k) \o r = op \o (k \o r)
    BY <2>8, <2>9, <2>11
  <2>16. (op \o kr) \o q = op \o (kr \o q)
    BY <2>10, <2>11, <2>2, SMTT(40)
  <2>17. four = op \o kr
    BY <2>4, <2>5, <2>15 DEF op
  <2>18. four \o q = o \o z
    BY <2>14, <2>16, <2>17 DEF y, op
  <2> QED
    BY <2>12, <2>18 DEF h, four, o, p, kr, y, z, S, a, b, c, d
<1> HIDE DEF h
<1>5. Len(q) \in Nat \ {0}
  BY <1>1, EmptySeq
<1>6. /\ t \in Seq(Symbols) /\ Len(t) = 4 + Len(q)
      /\ t[1] = reason /\ t[Len(t)] = Quote
  <2>1. h \in Seq(Symbols) /\ q \in Seq(Symbols)
    BY <1>1, <1>3
  <2>2. t \in Seq(Symbols) /\ Len(t) = 4 + Len(q)
    <3>1. t \in Seq(Symbols) /\ Len(t) = Len(h) + Len(q)
      BY <2>1, ConcatProperties
    <3> QED
      BY <1>3, <3>1
  <2>3. \A i \in 1 .. Len(h) + Len(q) : t[i] = IF i <= Len(h) THEN h[i] ELSE q[i - Len(h)]
    BY <1>1, <1>3, ConcatProperties
  <2> HIDE DEF t
  <2>4. t[1] = reason
    <3>1. 1 \in 1 .. Len(h) + Len(q) /\ 1 <= Len(h)
      BY <1>3, <1>5
    <3> QED
      BY <1>3, <2>3, <3>1
  <2>5. t[4 + Len(q)] = Quote
    <3>1. 4 + Len(q) \in 1 .. Len(h) + Len(q) /\ ~(4 + Len(q) <= Len(h))
          /\ (4 + Len(q)) - Len(h) = Len(q)
      BY <1>3, <1>5
    <3> QED
      BY <1>1, <2>3, <3>1
  <2> QED
    BY <2>2, <2>4, <2>5
<1>7. Item(reason, id) = t
  BY DEF Item, h, q
<1> HIDE DEF t
<1>8. t # <<>>
  BY <1>5, <1>6, EmptySeq
<1>9. t[1] # Space /\ t[Len(t)] # Space
  BY <1>2, <1>6, SymbolsDiffer
<1> QED
  BY <1>4, <1>6, <1>7, <1>8, <1>9 DEF Text, t, q, h

(* An identifier without separators comes back. *)
LEMMA CleanItemParses ==
  ASSUME NEW reason \in SkipReason, NEW id \in Seq(Symbols \ {Comma, Semicolon}),
         NEW w, w = Item(reason, id) \/ w = <<Space>> \o Item(reason, id)
  PROVE  /\ w \in Seq(Symbols \ {Comma})
         /\ ParseItem(w) = << [reason |-> reason, session_id |-> id] >>
<1> DEFINE S == Symbols \ {Comma, Semicolon}
           C == Symbols \ {Comma}
           D == Symbols \ {Semicolon}
           q == Quoted(id)
           kv == <<Identifier, Equals>> \o q
           t == Item(reason, id)
           o == <<reason>>
<1>1. id \in Text
  BY SeqMonotonic DEF Text
<1>2. /\ reason \in S /\ Identifier \in S /\ Equals \in S /\ Quote \in S /\ Backslash \in S
      /\ Space \in C /\ Semicolon \in C /\ Semicolon \in Symbols
      /\ S \subseteq C /\ S \subseteq D /\ S \in SUBSET Symbols
      /\ Identifier # Equals /\ Identifier # Space /\ reason # Space
  <2>1. /\ reason \in Symbols /\ Identifier \in Symbols /\ Equals \in Symbols
        /\ Quote \in Symbols /\ Backslash \in Symbols /\ Space \in Symbols
        /\ Semicolon \in Symbols
    BY WordsAre, KeysAre, SyntaxIn
  <2>2. /\ reason # Comma /\ reason # Semicolon /\ reason # Space
        /\ Identifier # Comma /\ Identifier # Semicolon /\ Identifier # Equals
        /\ Identifier # Space /\ Equals # Comma /\ Equals # Semicolon
    BY WordsAre, KeysAre
  <2>3. /\ Quote # Comma /\ Quote # Semicolon /\ Backslash # Comma /\ Backslash # Semicolon
        /\ Space # Comma /\ Semicolon # Comma
    BY WordsAre, KeysAre DEF Semicolon, Comma
  <2> QED
    BY <2>1, <2>2, <2>3
<1> HIDE DEF S, C, D
<1>3. id \in Seq(S)
  BY DEF S
<1>4. q \in Seq(S)
  BY <1>2, <1>3, EscapeClean
<1>5. kv \in Seq(S)
  <2> DEFINE l == <<Identifier, Equals>>
  <2>1. l \in Seq(S)
    BY <1>2, Literals
  <2> HIDE DEF l, q
  <2>2. l \o q \in Seq(S)
    BY <1>4, <2>1, ConcatProperties
  <2> QED
    BY <2>2 DEF l
<1>6. /\ t \in Text /\ t # <<>> /\ t[1] # Space /\ t[Len(t)] # Space /\ kv \in Text
      /\ t = o \o (<<Semicolon>> \o kv)
  BY <1>1, ItemIs
<1>7. /\ KeyValue(kv) = << <<Identifier>>, q >>
      /\ ReadParam(kv) = << <<Identifier>>, id >>
  BY <1>1, <1>2, KeyValueOf, KeysAre, WordsAre DEF Equals
<1>8. parse_quoted(q) = id
  BY <1>1, QuotedReadBack
<1> HIDE DEF q, kv, t
<1>9. trim(w) = t
  BY <1>6, TrimSolid, TrimLead DEF t
<1>10. o \in Seq(S) /\ o \in Text /\ o \in Seq(D) /\ kv \in Seq(D)
  <2>1. o \in Seq(S)
    BY <1>2, Literals
  <2> HIDE DEF o
  <2>2. o \in Seq(D) /\ kv \in Seq(D) /\ o \in Text
    BY <1>2, <1>5, <2>1, SeqMonotonic DEF Text
  <2> QED
    BY <2>1, <2>2
<1>11. split(t, Semicolon) = <<o>> \o <<kv>>
  <2> HIDE DEF o
  <2>1. split(t, Semicolon) = split(o, Semicolon) \o split(kv, Semicolon)
    BY <1>2, <1>6, <1>10, SplitBetween
  <2>2. split(o, Semicolon) = <<o>>
    BY <1>10, SplitPlain DEF D
  <2>3. split(kv, Semicolon) = <<kv>>
    BY <1>10, SplitPlain DEF D
  <2> QED
    BY <2>1, <2>2, <2>3
<1>12. from_token(trim(o)) = reason
  <2>1. o # <<>> /\ o[1] = reason /\ o[Len(o)] = reason
    OBVIOUS
  <2>2. trim(o) = o
    <3> HIDE DEF o
    <3> QED
      BY <1>2, <1>10, <2>1, TrimSolid
  <2>3. from_token(o) = o[1]
    BY DEF from_token
  <2> QED
    BY <2>1, <2>2, <2>3
<1> HIDE DEF o
<1> DEFINE parts == split(t, Semicolon)
           rest == <<kv>>
<1>13. parts[1] = o /\ Tail(parts) = rest
  <2>1. rest \in Seq(Text)
    BY <1>6
  <2> HIDE DEF rest
  <2> QED
    BY <1>10, <1>11, <2>1, TailOfOne, ZenonT(60) DEF rest
<1>14. SessionIdentifier(rest) = id
  <2> DEFINE named == {i \in DOMAIN rest :
                         /\ Len(KeyValue(rest[i])) = 2
                         /\ KeyValue(rest[i])[1] = <<"session_identifier">>}
  <2>1. DOMAIN rest = {1} /\ rest[1] = kv
    OBVIOUS
  <2> DEFINE k == <<Identifier>>
  <2>2. Len(KeyValue(kv)) = 2 /\ KeyValue(kv)[1] = k /\ KeyValue(kv)[2] = q
    BY <1>7
  <2>3. k = <<"session_identifier">>
    BY DEF Identifier
  <2> HIDE DEF rest, k
  <2>4. named = {1}
    BY <2>1, <2>2, <2>3
  <2>5. Max(named) = 1
    <3>1. {1} \in SUBSET Int /\ 1 \in {1} /\ \A y \in {1} : 1 >= y
      OBVIOUS
    <3> QED
      BY <2>4, <3>1, MaxIs
  <2>6. SessionIdentifier(rest) = parse_quoted(KeyValue(rest[Max(named)])[2])
    BY <2>4 DEF SessionIdentifier
  <2> QED
    BY <1>8, <2>1, <2>2, <2>5, <2>6
<1>15. ParseItem(w) = << [reason |-> reason, session_id |-> id] >>
  <2>1. reason # None /\ id # None
    BY <1>1, <1>2, NoTextIsNone, SymbolsAssumption DEF S
  <2>2. parts = split(trim(w), ";")
    BY <1>9 DEF Semicolon
  <2> HIDE DEF parts
  <2>3. /\ from_token(trim(parts[1])) = reason
        /\ SessionIdentifier(Tail(parts)) = id
    BY <1>12, <1>13, <1>14
  <2> QED
    BY <2>1, <2>2, <2>3 DEF ParseItem
<1>16. w \in Seq(C)
  <2>1. kv \in Seq(C) /\ o \in Seq(C)
    BY <1>2, <1>5, <1>10, SeqMonotonic
  <2>2. <<Semicolon>> \in Seq(C) /\ <<Space>> \in Seq(C)
    BY <1>2, Literals
  <2> DEFINE s == <<Semicolon>>
             x == s \o kv
  <2>3. x \in Seq(C)
    BY <2>1, <2>2, ConcatProperties
  <2> HIDE DEF s, x
  <2>4. t = o \o x
    BY <1>6 DEF s, x
  <2>5. t \in Seq(C)
    BY <2>1, <2>3, <2>4, ConcatProperties
  <2> DEFINE p == <<Space>>
  <2>6. p \in Seq(C)
    BY <2>2
  <2> HIDE DEF p
  <2>7. p \o t \in Seq(C)
    BY <2>5, <2>6, ConcatProperties
  <2> QED
    BY <2>5, <2>7 DEF p, t
<1> QED
  BY <1>15, <1>16 DEF C

(* The text is a quoted identifier after a part without quotes. *)
Opens(w, id) ==
  /\ w \in Text
  /\ \E pre \in Text : (\A i \in 1 .. Len(pre) : pre[i] # Quote) /\ w = pre \o Quoted(id)

LEMMA ItemOpens ==
  ASSUME NEW reason \in SkipReason, NEW id \in Text,
         NEW w, w = Item(reason, id) \/ w = <<Space>> \o Item(reason, id)
  PROVE  Opens(w, id)
<1> DEFINE q == Quoted(id)
           h == <<reason, Semicolon, Identifier, Equals>>
           s == <<Space>>
           p == s \o h
<1>1. q \in Seq(Symbols)
  BY QuotedReadBack DEF Text
<1>2. /\ reason \in Symbols /\ Semicolon \in Symbols /\ Identifier \in Symbols
      /\ Equals \in Symbols /\ Space \in Symbols
      /\ reason # Quote /\ Semicolon # Quote /\ Identifier # Quote
      /\ Equals # Quote /\ Space # Quote
  BY WordsAre, KeysAre, SyntaxIn, SymbolsDiffer
<1> DEFINE S == Symbols \ {Quote}
<1>3. /\ reason \in S /\ Semicolon \in S /\ Identifier \in S /\ Equals \in S /\ Space \in S
  BY <1>2
<1>4. S \subseteq Symbols /\ Quote \notin S
  OBVIOUS
<1> HIDE DEF S
<1>5. h \in Seq(S) /\ s \in Seq(S)
  BY <1>3
<1>6. Item(reason, id) = h \o q
  BY DEF Item
<1> HIDE DEF h, q, s
<1>7. p \in Seq(S)
  BY <1>5, ConcatProperties
<1>8. h \in Text /\ p \in Text /\ s \in Seq(Symbols) /\ h \in Seq(Symbols)
  BY <1>4, <1>5, <1>7, SeqMonotonic DEF Text
<1>9. \A i \in 1 .. Len(h) : h[i] # Quote
  BY <1>4, <1>5
<1>10. \A i \in 1 .. Len(p) : p[i] # Quote
  <2> HIDE DEF p
  <2> QED
    BY <1>4, <1>7
<1>11. s \o (h \o q) = p \o q
  BY <1>1, <1>8
<1>12. w = h \o q \/ w = p \o q
  BY <1>6, <1>11 DEF s
<1> HIDE DEF p
<1>13. h \o q \in Text /\ p \o q \in Text
  BY <1>1, <1>8, ConcatProperties DEF Text
<1> QED
  BY <1>8, <1>9, <1>10, <1>12, <1>13 DEF Opens, q

(* With a separator in its identifier an item falls apart, and in none of  *)
(* the parts there is an identifier to read.                               *)
LEMMA BrokenItemLost ==
  ASSUME NEW reason \in SkipReason, NEW id \in Text,
         NEW w, w = Item(reason, id) \/ w = <<Space>> \o Item(reason, id),
         NEW k \in 1 .. Len(id), id[k] \in {Comma, Semicolon},
         NEW n \in DOMAIN split(w, Comma)
  PROVE  ParseItem(split(w, Comma)[n]) = <<>>
<1> DEFINE p == split(w, Comma)[n]
           t == trim(p)
           parts == split(t, ";")
           params == Tail(parts)
<1>1. Opens(w, id)
  BY ItemOpens
<1>2. w \in Text
  BY <1>1 DEF Opens
<1>3. PICK pre \in Text : /\ \A i \in 1 .. Len(pre) : pre[i] # Quote
                          /\ w = pre \o Quoted(id)
  BY <1>1 DEF Opens
<1>4. /\ p \in Text /\ \A i \in 1 .. Len(p) : p[i] # Comma
      /\ \E off : Within(p, w, off)
  BY <1>2, SplitWithin
<1>5. PICK a : Within(p, w, a)
  BY <1>4
<1> HIDE DEF p
<1>6. t \in Text /\ \E off : Within(t, p, off)
  BY <1>4, TrimWithin
<1>7. PICK b : Within(t, p, b)
  BY <1>6
<1> HIDE DEF t
<1>8. parts \in Pieced /\ params \in Seq(Text)
  BY <1>6, SplitPieces
<1>9. SUFFICES ASSUME SessionIdentifier(params) # None
               PROVE  FALSE
  BY <1>4, ParseItemIn DEF p, t
<1>10. PICK j \in DOMAIN params :
        /\ Len(KeyValue(params[j])) = 2
        /\ SessionIdentifier(params) = parse_quoted(KeyValue(params[j])[2])
  BY <1>8, <1>9, IdentifierOf
<1> DEFINE kv == params[j]
<1>11. j + 1 \in DOMAIN parts /\ kv = parts[j + 1]
  <2> HIDE DEF parts
  <2>1. parts \in Seq(Text) /\ parts # <<>>
    BY <1>8 DEF Pieced
  <2> QED
    BY <2>1
<1>12. /\ kv \in Text /\ \A i \in 1 .. Len(kv) : kv[i] # ";"
       /\ \E off : Within(kv, t, off)
  <2> DEFINE m == j + 1
  <2>1. m \in DOMAIN split(t, ";") /\ kv = split(t, ";")[m]
    BY <1>11
  <2> HIDE DEF m, kv
  <2> QED
    BY <1>6, <2>1, SplitWithin
<1>13. PICK c : Within(kv, t, c)
  BY <1>12
<1> HIDE DEF parts, params, kv
<1>14. Len(KeyValue(kv)) = 2 /\ parse_quoted(KeyValue(kv)[2]) # None
  BY <1>9, <1>10 DEF kv
<1>15. PICK m \in 1 .. Len(kv) :
         /\ kv[m] = Equals
         /\ SubSeq(kv, m + 1, Len(kv)) \in Text
         /\ KeyValue(kv)[2] = trim(SubSeq(kv, m + 1, Len(kv)))
  BY <1>12, <1>14, KeyValueIn
<1> DEFINE x == SubSeq(kv, m + 1, Len(kv))
           v == trim(x)
<1>16. Len(kv) \in Nat /\ kv \in Seq(Symbols)
  <2>1. kv \in Text
    BY <1>12
  <2> QED
    BY <2>1 DEF Text
<1>17. Within(x, kv, m)
  <2>1. \A i \in m + 1 .. Len(kv) : kv[i] \in Symbols
    BY <1>16
  <2>2. /\ Len(x) = IF m + 1 <= Len(kv) THEN Len(kv) - (m + 1) + 1 ELSE 0
        /\ \A i \in 1 .. Len(kv) - (m + 1) + 1 : x[i] = kv[(m + 1) + i - 1]
    BY <1>16, <2>1, SubSeqProperties
  <2> HIDE DEF x
  <2>3. Len(x) = Len(kv) - m
    BY <1>16, <2>2
  <2>4. ASSUME NEW i \in 1 .. Len(x)
        PROVE  x[i] = kv[m + i]
    <3>1. i \in 1 .. Len(kv) - (m + 1) + 1 /\ (m + 1) + i - 1 = m + i
      BY <1>16, <2>3
    <3> QED
      BY <2>2, <3>1
  <2>5. m \in Nat /\ m + Len(x) <= Len(kv)
    BY <1>16, <2>3
  <2> QED
    BY <2>4, <2>5 DEF Within
<1>18. x \in Text /\ KeyValue(kv)[2] = v
  BY <1>15
<1> HIDE DEF x
<1>19. /\ v \in Text /\ trim(v) = v
       /\ \E off : Within(v, x, off) /\ (off > 0 => x[off] = Space)
  BY <1>18, TrimWithin
<1>20. PICK d : Within(v, x, d) /\ (d > 0 => x[d] = Space)
  BY <1>19
<1> HIDE DEF v
<1>21. Within(v, kv, d + m)
  BY <1>12, <1>17, <1>18, <1>19, <1>20, WithinPart
<1>22. Within(v, t, (d + m) + c)
  BY <1>6, <1>12, <1>13, <1>19, <1>21, WithinPart
<1>23. Within(v, p, ((d + m) + c) + b)
  BY <1>4, <1>6, <1>7, <1>19, <1>22, WithinPart
<1>24. Within(kv, p, c + b)
  BY <1>4, <1>6, <1>7, <1>12, <1>13, WithinPart
<1>25. Within(kv, w, (c + b) + a)
  BY <1>2, <1>4, <1>5, <1>12, <1>24, WithinPart
<1>26. Within(v, w, (d + m) + ((c + b) + a))
  BY <1>2, <1>12, <1>19, <1>21, <1>25, WithinPart
<1>27. kv[d + m] \in {Equals, Space} /\ d + m \in 1 .. Len(kv)
  <2>1. d \in Nat /\ d + Len(v) <= Len(x) /\ Len(v) \in Nat
    BY <1>19, <1>20 DEF Within, Text
  <2>2. m + Len(x) <= Len(kv) /\ \A i \in 1 .. Len(x) : x[i] = kv[m + i]
    BY <1>17 DEF Within
  <2>3. Len(x) \in Nat
    BY <1>18 DEF Text
  <2>4. CASE d = 0
    BY <1>15, <1>16, <2>4
  <2>5. CASE d # 0
    <3>1. d > 0 /\ d \in 1 .. Len(x) /\ m + d = d + m
      BY <1>16, <2>1, <2>3, <2>5
    <3>2. x[d] = Space /\ x[d] = kv[m + d]
      BY <1>20, <2>2, <3>1
    <3>3. d + m \in 1 .. Len(kv)
      BY <1>16, <2>1, <2>2, <2>3, <3>1
    <3> QED
      BY <3>1, <3>2, <3>3
  <2> QED
    BY <2>4, <2>5
<1> DEFINE off == (d + m) + ((c + b) + a)
<1>28. off \in Nat /\ off > 0 /\ w[off] = kv[d + m]
  <2>1. /\ (c + b) + a \in Nat
        /\ \A i \in 1 .. Len(kv) : kv[i] = w[((c + b) + a) + i]
    BY <1>25 DEF Within
  <2>2. d + m \in Nat \ {0}
    BY <1>16, <1>27
  <2>3. off = ((c + b) + a) + (d + m) /\ off \in Nat /\ off > 0
    <3> DEFINE g == (c + b) + a
               h == d + m
    <3>1. g \in Nat /\ h \in Nat \ {0}
      BY <2>1, <2>2
    <3> HIDE DEF g, h
    <3>2. h + g = g + h /\ h + g \in Nat /\ h + g > 0
      BY <3>1
    <3> QED
      BY <3>2 DEF g, h
  <2> QED
    BY <1>27, <2>1, <2>3
<1>29. w[off] # Backslash
  BY <1>27, <1>28, WordsAre, SymbolsDiffer
<1>30. \A i \in 1 .. Len(v) : v[i] # Comma /\ v[i] # Semicolon
  <2> SUFFICES ASSUME NEW i \in 1 .. Len(v)
               PROVE  v[i] # Comma /\ v[i] # Semicolon
    OBVIOUS
  <2>1. /\ d + m \in Nat /\ (d + m) + Len(v) <= Len(kv) /\ v[i] = kv[(d + m) + i]
    BY <1>21 DEF Within
  <2>2. (d + m) + i \in 1 .. Len(kv)
    <3> DEFINE h == d + m
    <3>1. h \in Nat /\ h + Len(v) <= Len(kv) /\ Len(v) \in Nat
      BY <1>19, <2>1 DEF Text
    <3> HIDE DEF h
    <3>2. h + i \in 1 .. Len(kv)
      BY <1>16, <3>1
    <3> QED
      BY <3>2 DEF h
  <2>3. v[i] # Semicolon
    BY <1>12, <2>1, <2>2 DEF Semicolon
  <2> DEFINE g == ((d + m) + c) + b
  <2>4. /\ g \in Nat /\ g + Len(v) <= Len(p) /\ v[i] = p[g + i]
    BY <1>23 DEF Within
  <2> HIDE DEF g
  <2>5. g + i \in 1 .. Len(p)
    <3>1. Len(p) \in Nat /\ Len(v) \in Nat
      BY <1>4, <1>19 DEF Text
    <3> QED
      BY <2>4, <3>1
  <2>6. v[i] # Comma
    BY <1>4, <2>4, <2>5
  <2> QED
    BY <2>3, <2>6
<1>31. \A i \in 1 .. Len(v) : v[i] # id[k]
  BY <1>30
<1> HIDE DEF off
<1>32. Within(v, pre \o Quoted(id), off) /\ (pre \o Quoted(id))[off] # Backslash
  BY <1>3, <1>26, <1>29 DEF off
<1>33. parse_quoted(v) = None
  BY <1>3, <1>19, <1>28, <1>31, <1>32, PartUnread
<1> QED
  BY <1>14, <1>18, <1>33

LEMMA ParsedOne ==
  ASSUME NEW t \in Text
  PROVE  Parsed(<<t>>) = ParseItem(t)
<1> DEFINE none == <<>>
           x == ParseItem(t)
<1>1. none \in Seq(Text) /\ <<t>> = Append(none, t)
  BY EmptySeq
<1>2. Parsed(none) = <<>>
  BY <1>1, ParsedCat
<1>3. x \in Seq(SkippedEntry)
  BY ParseItemIn
<1> HIDE DEF none, x
<1>4. Parsed(Append(none, t)) = Parsed(none) \o x
  BY <1>1, ParsedMore DEF x
<1>5. <<>> \o x = x
  BY <1>3, ConcatEmptySeq
<1> QED
  BY <1>1, <1>2, <1>4, <1>5 DEF x

LEMMA ParsedNone ==
  ASSUME NEW items \in Seq(Text), \A n \in DOMAIN items : ParseItem(items[n]) = <<>>
  PROVE  Parsed(items) = <<>>
<1> DEFINE S == {t \in Text : ParseItem(t) = <<>>}
           T == {ps \in Seq(S) : Parsed(ps) = <<>>}
<1>1. \A t \in S : t \in Text /\ ParseItem(t) = <<>>
  OBVIOUS
<1>2. items \in Seq(S)
  <2>1. \A i \in 1 .. Len(items) : items[i] \in S
    OBVIOUS
  <2>2. Len(items) \in Nat /\ DOMAIN items = 1 .. Len(items) /\ items = [i \in DOMAIN items |-> items[i]]
    OBVIOUS
  <2> HIDE DEF S
  <2> QED
    BY <2>1, <2>2, SeqDef
<1>3. S \subseteq Text
  OBVIOUS
<1> HIDE DEF S
<1>4. \A ps \in Seq(S) : ps \in Seq(Text)
  BY <1>3, SeqMonotonic
<1>5. <<>> \in T
  <2>1. Parsed(<<>>) = <<>>
    BY EmptySeq, ParsedCat
  <2> QED
    BY <2>1, EmptySeq
<1>6. ASSUME NEW ps \in Seq(S), NEW t \in S, ps \in T
      PROVE  Append(ps, t) \in T
  <2>1. ps \in Seq(Text) /\ t \in Text /\ ParseItem(t) = <<>>
    BY <1>1, <1>4
  <2>2. Parsed(Append(ps, t)) = Parsed(ps) \o ParseItem(t)
    BY <2>1, ParsedMore
  <2>3. Parsed(ps) = <<>>
    BY <1>6
  <2>4. <<>> \o <<>> = <<>>
    OBVIOUS
  <2>5. Append(ps, t) \in Seq(S)
    BY AppendProperties
  <2> QED
    BY <2>1, <2>2, <2>3, <2>4, <2>5
<1> HIDE DEF T
<1>7. items \in T
  BY <1>2, <1>5, <1>6, TextInduction
<1> QED
  BY <1>7 DEF T

(* What arrives of an entry. *)
Arrives(e) == IF {",", ";"} \cap ToSet(e.session_id) = {} THEN <<e>> ELSE <<>>

LEMMA ItemParsed ==
  ASSUME NEW e \in SkippedEntry,
         NEW w, w = Item(e.reason, e.session_id) \/ w = <<Space>> \o Item(e.reason, e.session_id)
  PROVE  w \in Text /\ Parsed(split(w, Comma)) = Arrives(e)
<1> DEFINE reason == e.reason
           id == e.session_id
<1>1. reason \in SkipReason /\ id \in Text /\ e = [reason |-> reason, session_id |-> id]
  BY DEF SkippedEntry, Text
<1>2. w = Item(reason, id) \/ w = <<Space>> \o Item(reason, id)
  OBVIOUS
<1>3. Arrives(e) = IF \A i \in 1 .. Len(id) : id[i] \notin {Comma, Semicolon}
                   THEN <<e>> ELSE <<>>
  <2>1. DOMAIN id = 1 .. Len(id)
    BY <1>1 DEF Text
  <2> HIDE DEF id
  <2>2. ({",", ";"} \cap ToSet(id) = {})
          <=> \A i \in 1 .. Len(id) : id[i] \notin {Comma, Semicolon}
    BY <2>1 DEF ToSet, Comma, Semicolon
  <2> QED
    BY <2>2 DEF Arrives, id
<1> HIDE DEF reason, id
<1>4. Opens(w, id)
  BY <1>1, <1>2, ItemOpens
<1>5. w \in Text
  BY <1>4 DEF Opens
<1>6. CASE \A i \in 1 .. Len(id) : id[i] \notin {Comma, Semicolon}
  <2> DEFINE S == Symbols \ {Comma, Semicolon}
  <2>1. id \in Seq(S)
    <3>1. id \in Seq(Symbols) /\ Len(id) \in Nat /\ DOMAIN id = 1 .. Len(id)
          /\ id = [i \in DOMAIN id |-> id[i]]
      BY <1>1 DEF Text
    <3>2. \A i \in 1 .. Len(id) : id[i] \in S
      BY <1>6, <3>1
    <3> HIDE DEF S
    <3> QED
      BY <3>1, <3>2, SeqDef
  <2>2. w \in Seq(Symbols \ {Comma}) /\ ParseItem(w) = << [reason |-> reason, session_id |-> id] >>
    BY <1>1, <1>2, <2>1, CleanItemParses
  <2>3. split(w, Comma) = <<w>>
    BY <2>2, SplitPlain
  <2>4. Parsed(<<w>>) = ParseItem(w)
    BY <1>5, ParsedOne
  <2> QED
    BY <1>1, <1>3, <1>5, <1>6, <2>2, <2>3, <2>4
<1>7. CASE ~ \A i \in 1 .. Len(id) : id[i] \notin {Comma, Semicolon}
  <2>1. PICK k \in 1 .. Len(id) : id[k] \in {Comma, Semicolon}
    BY <1>7
  <2> DEFINE items == split(w, Comma)
  <2>2. items \in Seq(Text)
    BY <1>5, SplitPieces DEF Pieced
  <2>3. \A n \in DOMAIN items : ParseItem(items[n]) = <<>>
    BY <1>1, <1>2, <2>1, BrokenItemLost
  <2> HIDE DEF items
  <2>4. Parsed(items) = <<>>
    BY <2>2, <2>3, ParsedNone
  <2> QED
    BY <1>3, <1>5, <1>7, <2>4 DEF items
<1> QED
  BY <1>6, <1>7

-----------------------------------------------------------------------------
(* The list, entry by entry. *)

Items(es) == [i \in DOMAIN es |-> Item(es[i].reason, es[i].session_id)]
Separated(es) == [i \in DOMAIN es |-> IF i = 1 THEN Items(es)[i]
                                      ELSE <<Comma, Space>> \o Items(es)[i]]
Arrived(es) == [i \in DOMAIN es |-> Arrives(es[i])]

LEMMA HeaderIs ==
  ASSUME NEW es \in Seq(SkippedEntry)
  PROVE  session_skipped_header(es) = FlattenSeq(Separated(es))
BY DEF session_skipped_header, Joined, Items, Separated, Item, Comma, Semicolon, Identifier, Equals

(* The text of an entry after the ones before it. *)
Follows(e) == <<Comma, Space>> \o Item(e.reason, e.session_id)

LEMMA EntryText ==
  ASSUME NEW e \in SkippedEntry
  PROVE  /\ Item(e.reason, e.session_id) \in Text
         /\ <<Space>> \o Item(e.reason, e.session_id) \in Text
         /\ Follows(e) \in Text
         /\ Follows(e) = <<Comma>> \o (<<Space>> \o Item(e.reason, e.session_id))
         /\ Arrives(e) \in Seq(SkippedEntry)
<1> DEFINE t == Item(e.reason, e.session_id)
           b == Comma
           c == Space
           o == <<b>>
           p == <<c>>
           two == <<b, c>>
<1>1. t \in Seq(Symbols) /\ p \o t \in Seq(Symbols)
  BY ItemParsed DEF Text
<1>2. b \in Symbols /\ c \in Symbols
  BY WordsAre, SyntaxIn
<1> HIDE DEF b, c, t
<1>3. o \in Seq(Symbols) /\ p \in Seq(Symbols) /\ two \in Seq(Symbols) /\ two = Append(o, c)
  BY <1>2, Literals
<1>4. Append(o, c) = o \o p
  <2> HIDE DEF o
  <2> QED
    BY <1>2, <1>3, AppendIsConcat
<1> HIDE DEF o, p, two
<1>5. (o \o p) \o t = o \o (p \o t)
  BY <1>1, <1>3, SMTT(40)
<1>6. two \o t \in Seq(Symbols)
  BY <1>1, <1>3, ConcatProperties
<1>7. two \o t = o \o (p \o t)
  BY <1>3, <1>4, <1>5
<1>8. Arrives(e) \in Seq(SkippedEntry)
  <2>1. <<e>> \in Seq(SkippedEntry) /\ <<>> \in Seq(SkippedEntry)
    OBVIOUS
  <2> QED
    BY <2>1 DEF Arrives
<1> QED
  BY <1>1, <1>6, <1>7, <1>8 DEF Follows, Text, two, o, p, b, c, t

LEMMA SeparatedMore ==
  ASSUME NEW es \in Seq(SkippedEntry), NEW e \in SkippedEntry
  PROVE  /\ Separated(es) \in Seq(Seq(Symbols))
         /\ Separated(Append(es, e))
              = Append(Separated(es),
                       IF es = <<>> THEN Item(e.reason, e.session_id) ELSE Follows(e))
<1> DEFINE Nth(i, x) == IF i = 1 THEN Item(x.reason, x.session_id) ELSE Follows(x)
           S == Seq(Symbols)
           N == Len(es)
           u == Append(es, e)
           f == Separated(es)
           g == Separated(u)
           t == Nth(N + 1, e)
           h == Append(f, t)
<1>1. /\ N \in Nat /\ DOMAIN es = 1 .. N
      /\ u \in Seq(SkippedEntry) /\ DOMAIN u = 1 .. N + 1 /\ Len(u) = N + 1
      /\ u[N + 1] = e /\ \A i \in 1 .. N : u[i] = es[i]
  BY AppendProperties
<1>2. \A i \in Nat, x \in SkippedEntry : Nth(i, x) \in S
  BY EntryText DEF Text
<1>3. f = [i \in 1 .. N |-> Nth(i, es[i])]
  BY <1>1 DEF Separated, Items, Follows
<1>4. g = [i \in 1 .. N + 1 |-> Nth(i, u[i])]
  <2> HIDE DEF u
  <2> QED
    BY <1>1 DEF Separated, Items, Follows
<1>5. t = IF es = <<>> THEN Item(e.reason, e.session_id) ELSE Follows(e)
  <2>1. es = <<>> <=> N + 1 = 1
    BY <1>1, EmptySeq
  <2> HIDE DEF N
  <2> QED
    BY <2>1
<1>6. t \in S
  BY <1>1, <1>2
<1> HIDE DEF S, N, u, f, g, t, Nth
<1>7. ASSUME NEW i \in 1 .. N
      PROVE  Nth(i, es[i]) \in S
  <2>1. i \in Nat /\ es[i] \in SkippedEntry
    BY <1>1
  <2> QED
    BY <1>2, <2>1
<1>8. ASSUME NEW i \in 1 .. N + 1
      PROVE  Nth(i, u[i]) \in S
  <2>1. i \in Nat /\ u[i] \in SkippedEntry
    BY <1>1
  <2> QED
    BY <1>2, <2>1
<1>9. f \in Seq(S) /\ Len(f) = N /\ \A i \in 1 .. N : f[i] = Nth(i, es[i])
  BY <1>1, <1>3, <1>7
<1>10. g \in Seq(S) /\ Len(g) = N + 1 /\ \A i \in 1 .. N + 1 : g[i] = Nth(i, u[i])
  BY <1>1, <1>4, <1>8
<1>11. /\ h \in Seq(S) /\ Len(h) = N + 1 /\ h[N + 1] = t /\ \A i \in 1 .. N : h[i] = f[i]
  BY <1>6, <1>9, AppendProperties
<1> HIDE DEF h
<1>12. ASSUME NEW i \in 1 .. N + 1
       PROVE  g[i] = h[i]
  <2>1. CASE i = N + 1
    BY <1>1, <1>10, <1>11, <2>1 DEF t
  <2>2. CASE i # N + 1
    <3>1. i \in 1 .. N
      BY <1>1, <2>2
    <3> QED
      BY <1>1, <1>9, <1>10, <1>11, <3>1
  <2> QED
    BY <2>1, <2>2
<1>13. g = h
  BY <1>1, <1>10, <1>11, <1>12, SeqEqual
<1> QED
  BY <1>5, <1>9, <1>13 DEF S, f, g, h, u

LEMMA ArrivedMore ==
  ASSUME NEW es \in Seq(SkippedEntry), NEW e \in SkippedEntry
  PROVE  /\ Arrived(es) \in Seq(Seq(SkippedEntry))
         /\ Arrived(Append(es, e)) = Append(Arrived(es), Arrives(e))
<1> DEFINE S == Seq(SkippedEntry)
           N == Len(es)
           u == Append(es, e)
           f == Arrived(es)
           g == Arrived(u)
           t == Arrives(e)
           h == Append(f, t)
<1>1. /\ N \in Nat /\ DOMAIN es = 1 .. N
      /\ u \in Seq(SkippedEntry) /\ DOMAIN u = 1 .. N + 1 /\ Len(u) = N + 1
      /\ u[N + 1] = e /\ \A i \in 1 .. N : u[i] = es[i]
  BY AppendProperties
<1>2. \A x \in SkippedEntry : Arrives(x) \in S
  BY EntryText
<1>3. f = [i \in 1 .. N |-> Arrives(es[i])]
  BY <1>1 DEF Arrived
<1>4. g = [i \in 1 .. N + 1 |-> Arrives(u[i])]
  BY <1>1 DEF Arrived
<1>5. t \in S
  BY <1>2
<1>6. \A i \in 1 .. N : es[i] \in SkippedEntry
  BY <1>1
<1>7. \A i \in 1 .. N + 1 : u[i] \in SkippedEntry
  BY <1>1
<1> HIDE DEF S, N, u, f, g, t
<1>8. f \in Seq(S) /\ Len(f) = N /\ \A i \in 1 .. N : f[i] = Arrives(es[i])
  BY <1>1, <1>2, <1>3, <1>6
<1>9. g \in Seq(S) /\ Len(g) = N + 1 /\ \A i \in 1 .. N + 1 : g[i] = Arrives(u[i])
  BY <1>1, <1>2, <1>4, <1>7
<1>10. /\ h \in Seq(S) /\ Len(h) = N + 1 /\ h[N + 1] = t /\ \A i \in 1 .. N : h[i] = f[i]
  BY <1>5, <1>8, AppendProperties
<1> HIDE DEF h
<1>11. ASSUME NEW i \in 1 .. N + 1
       PROVE  g[i] = h[i]
  <2>1. CASE i = N + 1
    BY <1>1, <1>9, <1>10, <2>1 DEF t
  <2>2. CASE i # N + 1
    <3>1. i \in 1 .. N
      BY <1>1, <2>2
    <3> QED
      BY <1>1, <1>8, <1>9, <1>10, <3>1
  <2> QED
    BY <2>1, <2>2
<1>12. g = h
  BY <1>1, <1>9, <1>10, <1>11, SeqEqual
<1> QED
  BY <1>8, <1>12 DEF S, f, g, h, u, t

LEMMA NothingParsed ==
  ParseItem(<<>>) = <<>>
<1> DEFINE none == <<>>
<1>1. none \in Text
  BY EmptySeq DEF Text
<1>2. trim(none) = none
  BY DEF trim
<1>3. split(none, ";") = FirstPiece
  BY FirstPieceIn, SplitEmpty, SplitIsFrom DEF FirstPiece
<1>4. Tail(FirstPiece) = <<>>
  BY DEF FirstPiece
<1>5. SessionIdentifier(<<>>) = None
  BY DEF SessionIdentifier
<1> HIDE DEF none
<1>6. ParseItem(none) = <<>>
  BY <1>1, <1>2, <1>3, <1>4, <1>5, ParseItemIn
<1> QED
  BY <1>6 DEF none

LEMMA ListReadBack ==
  ASSUME NEW es \in Seq(SkippedEntry)
  PROVE  parse_session_skipped(session_skipped_header(es)) = FlattenSeq(Arrived(es))
<1> DEFINE H(s) == FlattenSeq(Separated(s))
           T == {s \in Seq(SkippedEntry) :
                   /\ H(s) \in Text
                   /\ FlattenSeq(Arrived(s)) \in Seq(SkippedEntry)
                   /\ Parsed(split(H(s), Comma)) = FlattenSeq(Arrived(s))}
<1>1. <<>> \in T
  <2> DEFINE none == <<>>
  <2>1. Separated(none) = <<>> /\ Arrived(none) = <<>>
    BY DEF Separated, Arrived
  <2>2. H(none) = <<>> /\ FlattenSeq(Arrived(none)) = <<>>
    BY <2>1, FlattenEmpty
  <2>3. <<>> \in Text /\ <<>> \in Seq(SkippedEntry)
    BY EmptySeq DEF Text
  <2>4. split(<<>>, Comma) = << <<>> >>
    BY FirstPieceIn, SplitEmpty, SplitIsFrom DEF FirstPiece
  <2>5. Parsed(<< <<>> >>) = <<>>
    BY <2>3, ParsedOne, NothingParsed
  <2> QED
    BY <2>2, <2>3, <2>4, <2>5
<1>2. ASSUME NEW s \in Seq(SkippedEntry), NEW e \in SkippedEntry, s \in T
      PROVE  Append(s, e) \in T
  <2> DEFINE t == Item(e.reason, e.session_id)
             m == <<Space>> \o t
             h == H(s)
             x == FlattenSeq(Arrived(s))
             y == Arrives(e)
             u == Append(s, e)
  <2>1. /\ h \in Text /\ x \in Seq(SkippedEntry) /\ Parsed(split(h, Comma)) = x
    BY <1>2
  <2>2. /\ t \in Text /\ m \in Text /\ Follows(e) \in Text
        /\ Follows(e) = <<Comma>> \o m /\ y \in Seq(SkippedEntry)
    BY EntryText
  <2>3. /\ Parsed(split(t, Comma)) = y
        /\ Parsed(split(m, Comma)) = y
    BY ItemParsed
  <2>4. /\ Arrived(u) = Append(Arrived(s), y)
        /\ Arrived(s) \in Seq(Seq(SkippedEntry))
    BY ArrivedMore
  <2>5. /\ Separated(u) = Append(Separated(s), IF s = <<>> THEN t ELSE Follows(e))
        /\ Separated(s) \in Seq(Seq(Symbols))
    BY SeparatedMore
  <2>6. u \in Seq(SkippedEntry)
    BY AppendProperties
  <2> HIDE DEF t, m, y, u
  <2>7. FlattenSeq(Arrived(u)) = x \o y
    BY <2>2, <2>4, FlattenAppend
  <2>8. x \o y \in Seq(SkippedEntry)
    <3> HIDE DEF x
    <3> QED
      BY <2>1, <2>2, ConcatProperties
  <2>9. ASSUME s = <<>> PROVE u \in T
    <3>1. Separated(s) = <<>> /\ Arrived(s) = <<>>
      BY <2>9 DEF Separated, Arrived
    <3>2. FlattenSeq(Append(<<>>, t)) = FlattenSeq(<<>>) \o t
      BY <2>2, <2>5, <3>1, FlattenAppend DEF Text
    <3>3. <<>> \o t = t /\ <<>> \o y = y
      BY <2>2, ConcatEmptySeq DEF Text
    <3>4. H(u) = t
      BY <2>5, <2>9, <3>1, <3>2, <3>3, FlattenEmpty
    <3>5. x = <<>>
      BY <3>1, FlattenEmpty
    <3>6. x \o y = y
      BY <3>3, <3>5
    <3> HIDE DEF H, x
    <3> QED
      BY <2>2, <2>3, <2>6, <2>7, <2>8, <3>4, <3>6
  <2>10. ASSUME s # <<>> PROVE u \in T
    <3>1. H(u) = h \o Follows(e)
      BY <2>2, <2>5, <2>10, FlattenAppend DEF Text
    <3> HIDE DEF h, x, H
    <3>2. split(h \o (<<Comma>> \o m), Comma) = split(h, Comma) \o split(m, Comma)
      BY <2>1, <2>2, WordsAre, SplitBetween
    <3>3. split(h, Comma) \in Seq(Text) /\ split(m, Comma) \in Seq(Text)
      BY <2>1, <2>2, SplitPieces DEF Pieced
    <3>4. Parsed(split(h, Comma) \o split(m, Comma))
            = Parsed(split(h, Comma)) \o Parsed(split(m, Comma))
      BY <3>3, ParsedCat
    <3>5. h \o Follows(e) \in Text
      BY <2>1, <2>2, ConcatProperties DEF Text
    <3>6. Parsed(split(H(u), Comma)) = x \o y
      BY <2>1, <2>2, <2>3, <3>1, <3>2, <3>4
    <3> QED
      BY <2>6, <2>7, <2>8, <3>1, <3>5, <3>6
  <2>11. u \in T
    BY <2>9, <2>10
  <2> QED
    BY <2>11 DEF u
<1> HIDE DEF T
<1>3. es \in T
  BY <1>1, <1>2, TextInduction
<1>4. Parsed(split(session_skipped_header(es), Comma)) = FlattenSeq(Arrived(es))
  BY <1>3, HeaderIs DEF T
<1> QED
  BY <1>4 DEF parse_session_skipped, Parsed, Comma

(***************************************************************************)
(* EntriesNotMisread: whatever identifiers the skipped sessions have, the  *)
(* list that a browser reports (session_skipped_header) is never misread   *)
(* by the server (parse_session_skipped).  What is read are sent entries,  *)
(* each at most once and in their order, and all those without a comma or  *)
(* a semicolon in the identifier.                                          *)
(***************************************************************************)
THEOREM ReportsAreNotMisread ==
  HeaderSpec => []EntriesNotMisread
<1>1. EntriesOK => EntriesNotMisread
  <2> SUFFICES ASSUME EntriesOK
               PROVE  EntriesNotMisread
    OBVIOUS
  <2> DEFINE kept == {i \in DOMAIN entries : {",", ";"} \cap ToSet(IdOf(i)) = {}}
  <2>1. parse_session_skipped(session_skipped_header(entries)) = FlattenSeq(Arrived(entries))
    BY ListReadBack DEF EntriesOK
  <2>2. Arrived(entries)
          = [i \in DOMAIN entries |-> IF i \in kept THEN <<entries[i]>> ELSE <<>>]
    BY DEF Arrived, Arrives, IdOf
  <2>3. /\ kept \in SUBSET DOMAIN entries
        /\ \A i \in DOMAIN entries : {",", ";"} \cap ToSet(IdOf(i)) = {} => i \in kept
    OBVIOUS
  <2> HIDE DEF kept
  <2> QED
    BY <2>1, <2>2, <2>3 DEF EntriesNotMisread
<1>2. HeaderSpec => []EntriesOK
  BY EntriesTyped
<1> QED
  BY <1>1, <1>2, PTL

=============================================================================
