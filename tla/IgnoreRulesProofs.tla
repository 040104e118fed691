------------------------- MODULE IgnoreRulesProofs -------------------------
(***************************************************************************)
(* The ignore rules and the walker's filter, for every tree of entries,    *)
(* every content of the ignore files and every size of the buffers.  What  *)
(* match_glob answers is left open: the results hold for any matcher.      *)
(***************************************************************************)
EXTENDS IgnoreRules, FiniteSetTheorems, SequenceTheorems, WellFoundedInduction, TLAPS

-----------------------------------------------------------------------------
(* Least and greatest positions.                                           *)

LEMMA Least ==
  ASSUME NEW S, S \subseteq Nat, S # {}
  PROVE  Min(S) \in S /\ \A n \in S : Min(S) <= n
<1>1. PICK m \in S : \A n \in S : ~(<<n, m>> \in OpToRel(<, Nat))
  BY WFMin, NatLessThanWellFounded
<1>2. ASSUME NEW n \in S PROVE m <= n
  <2>1. ~(n < m)
    BY <1>1 DEF OpToRel
  <2> QED BY <2>1
<1> QED BY <1>2 DEF Min

LEMMA Greatest ==
  ASSUME NEW N \in Nat, NEW S, S \subseteq 0..N, S # {}
  PROVE  Max(S) \in S /\ \A n \in S : Max(S) >= n
<1> DEFINE D == {d \in 0..N : N - d \in S}
<1>1. D \subseteq Nat /\ D # {}
  <2>1. PICK n \in S : TRUE
    OBVIOUS
  <2>2. N - n \in 0..N /\ N - (N - n) = n
    BY <2>1
  <2>3. N - n \in D
    BY <2>2
  <2> QED BY <2>3
<1>2. Min(D) \in D /\ \A d \in D : Min(D) <= d
  <2> HIDE DEF D
  <2> QED BY <1>1, Least
<1>3. ASSUME NEW n \in S PROVE N - Min(D) >= n
  <2>1. n \in 0..N /\ N - n \in 0..N /\ N - (N - n) = n
    OBVIOUS
  <2>2. N - n \in D
    BY <2>1
  <2> QED BY <1>2, <2>1, <2>2
<1>4. N - Min(D) \in S
  BY <1>2
<1> QED BY <1>3, <1>4 DEF Max

-----------------------------------------------------------------------------
(* Lines and rules.                                                        *)

LEMMA SolidPlaces ==
  ASSUME NEW t \in Seq(STRING)
  PROVE  /\ Solid(t) \subseteq 1..Len(t)
         /\ Solid(t) # {} =>
              /\ Min(Solid(t)) \in 1..Len(t)
              /\ Max(Solid(t)) \in 1..Len(t)
<1>1. Solid(t) \subseteq 1..Len(t) /\ Len(t) \in Nat
  BY LenProperties DEF Solid
<1>2. Solid(t) \subseteq Nat /\ Solid(t) \subseteq 0..Len(t)
  BY <1>1
<1> QED BY <1>1, <1>2, Least, Greatest

\* Cutting a text gives a text.
LEMMA Cutting ==
  ASSUME NEW t \in Seq(STRING), NEW m \in 1..Len(t) + 1, NEW n \in 0..Len(t)
  PROVE  SubSeq(t, m, n) \in Seq(STRING)
<1>1. \A i \in m..n : t[i] \in STRING
  BY LenProperties, ElementOfSeq
<1> QED BY <1>1, SubSeqProperties, LenProperties

LEMMA TrimmedText ==
  ASSUME NEW t \in Seq(STRING)
  PROVE  Trim(t) \in Seq(STRING) /\ SkipBlanks(t) \in Seq(STRING)
<1>1. CASE Solid(t) = {}
  BY <1>1 DEF Trim, SkipBlanks
<1>2. CASE Solid(t) # {}
  <2>1. /\ Min(Solid(t)) \in 1..Len(t) + 1
        /\ Max(Solid(t)) \in 0..Len(t)
        /\ Len(t) \in 0..Len(t)
    BY <1>2, SolidPlaces, LenProperties
  <2> QED BY <1>2, <2>1, Cutting DEF Trim, SkipBlanks
<1> QED BY <1>1, <1>2

\* A line stands for one rule or none.
LEMMA ParsedLine ==
  ASSUME NEW t \in Seq(STRING)
  PROVE  /\ Parse(t) = <<>> \/ \E r \in Rule : Parse(t) = <<r>>
         /\ Parse(t) \in Seq(Rule)
         /\ Len(Parse(t)) \in {0, 1}
<1> DEFINE all == Trim(t)
           negated == StartsWith(all, "!")
           body == IF negated THEN SkipBlanks(Tail(all)) ELSE all
           anchored == StartsWith(body, "/")
           rel == IF anchored THEN Tail(body) ELSE body
           dirOnly == rel # <<>> /\ Last(rel) = "/"
           pat == IF dirOnly THEN Front(rel) ELSE rel
           glob == {"*", "?"} \cap Range(pat) # {}
           r == [pattern |-> pat, is_negation |-> negated, is_anchored |-> anchored,
                 is_dir_only |-> dirOnly, is_glob |-> glob]
<1>1. Parse(t) = <<>> \/ Parse(t) = <<r>>
  BY DEF Parse
<1>2. all \in Seq(STRING)
  BY TrimmedText
<1>3. body \in Seq(STRING)
  <2> HIDE DEF all
  <2>1. negated => Tail(all) \in Seq(STRING)
    BY <1>2, HeadTailProperties DEF StartsWith
  <2> QED BY <1>2, <2>1, TrimmedText
<1>4. rel \in Seq(STRING)
  <2> HIDE DEF body
  <2> QED BY <1>3, HeadTailProperties DEF StartsWith
<1>5. pat \in Seq(STRING)
  <2> HIDE DEF rel
  <2>1. ASSUME dirOnly PROVE Front(rel) \in Seq(STRING)
    <3>1. Len(rel) \in Nat \ {0}
      BY <1>4, <2>1, EmptySeq
    <3>2. 1 \in 1..Len(rel) + 1 /\ Len(rel) - 1 \in 0..Len(rel)
      BY <3>1
    <3> QED BY <1>4, <3>2, Cutting DEF Front
  <2> QED BY <1>4, <2>1
<1>6. r \in Rule
  <2>1. negated \in BOOLEAN /\ anchored \in BOOLEAN /\ dirOnly \in BOOLEAN /\ glob \in BOOLEAN
    BY DEF StartsWith
  <2> HIDE DEF negated, anchored, dirOnly, glob, pat
  <2> QED BY <1>5, <2>1 DEF Rule
<1> HIDE DEF r
<1>7. <<r>> \in Seq(Rule) /\ Len(<<r>>) = 1 /\ <<>> \in Seq(Rule) /\ Len(<<>>) = 0
  BY <1>6
<1>8. CASE Parse(t) = <<>>
  BY <1>7, <1>8
<1>9. CASE Parse(t) = <<r>>
  BY <1>6, <1>7, <1>9
<1> QED BY <1>1, <1>8, <1>9

\* The newline at the end of a line means nothing.
LEMMA NewlineMeansNothing ==
  ASSUME NEW t \in Seq(STRING), NEW a \in 1..Len(t), NEW e \in a..Len(t), t[e] = "\n"
  PROVE  Parse(SubSeq(t, a, e)) = Parse(SubSeq(t, a, e - 1))
<1> DEFINE u == SubSeq(t, a, e)
           v == SubSeq(t, a, e - 1)
<1>0. Len(t) \in Nat
  BY LenProperties
<1>1. /\ u \in Seq(STRING) /\ Len(u) = e - a + 1
      /\ \A i \in 1..e - a + 1 : u[i] = t[a + i - 1]
  <2>1. \A i \in a..e : t[i] \in STRING
    BY <1>0, ElementOfSeq
  <2>2. e \in Int /\ a \in Int /\ a <= e
    BY <1>0
  <2> QED BY <2>1, <2>2, SubSeqProperties
<1>2. /\ v \in Seq(STRING) /\ Len(v) = e - a
      /\ \A i \in 1..e - a : v[i] = t[a + i - 1]
  <2>1. \A i \in a..e - 1 : t[i] \in STRING
    BY <1>0, ElementOfSeq
  <2>2. e - 1 \in Int /\ a \in Int /\ (e - 1) - a + 1 = e - a
    BY <1>0
  <2> QED BY <1>0, <2>1, <2>2, SubSeqProperties
<1> HIDE DEF u, v
<1>3. Solid(u) = Solid(v)
  <2>1. DOMAIN u = 1..e - a + 1 /\ DOMAIN v = 1..e - a
    BY <1>1, <1>2, LenProperties
  <2>2. u[e - a + 1] \in Blank
    <3>1. e - a + 1 \in 1..e - a + 1 /\ a + (e - a + 1) - 1 = e
      BY <1>0
    <3> QED BY <1>1, <3>1 DEF Blank
  <2>3. \A i \in 1..e - a : u[i] = v[i]
    BY <1>0, <1>1, <1>2
  <2>4. \A i \in 1..e - a + 1 : i \in 1..e - a \/ i = e - a + 1
    BY <1>0
  <2>5. \A i \in 1..e - a : i \in 1..e - a + 1
    BY <1>0
  <2> QED BY <2>1, <2>2, <2>3, <2>4, <2>5 DEF Solid
<1>4. Trim(u) = Trim(v)
  <2>1. CASE Solid(v) = {}
    BY <1>3, <2>1 DEF Trim
  <2>2. CASE Solid(v) # {}
    <3> DEFINE m == Min(Solid(v))
               n == Max(Solid(v))
    <3>1. m \in 1..e - a /\ n \in 1..e - a
      BY <1>2, <2>2, SolidPlaces
    <3> HIDE DEF m, n
    <3>2. \A i \in m..n : i \in 1..e - a /\ u[i] = v[i] /\ v[i] \in STRING
      BY <1>0, <1>1, <1>2, <3>1, ElementOfSeq
    <3>3. SubSeq(u, m, n) = SubSeq(v, m, n)
      <4>1. m \in Int /\ n \in Int
        BY <3>1
      <4>2. /\ SubSeq(v, m, n) \in Seq(STRING)
            /\ Len(SubSeq(v, m, n)) = IF m <= n THEN n - m + 1 ELSE 0
            /\ \A i \in 1..n - m + 1 : SubSeq(v, m, n)[i] = v[m + i - 1]
        BY <3>2, <4>1, SubSeqProperties
      <4>3. /\ SubSeq(u, m, n) \in Seq(STRING)
            /\ Len(SubSeq(u, m, n)) = IF m <= n THEN n - m + 1 ELSE 0
            /\ \A i \in 1..n - m + 1 : SubSeq(u, m, n)[i] = u[m + i - 1]
        BY <3>2, <4>1, SubSeqProperties
      <4>4. \A i \in 1..n - m + 1 : m + i - 1 \in m..n
        BY <4>1
      <4>5. \A i \in 1..Len(SubSeq(v, m, n)) : i \in 1..n - m + 1
        BY <4>1, <4>2
      <4> QED BY <3>2, <4>2, <4>3, <4>4, <4>5, SeqEqual
    <3> QED BY <1>3, <2>2, <3>3 DEF Trim, m, n
  <2> QED BY <2>1, <2>2
<1> QED BY <1>4 DEF Parse, u, v

-----------------------------------------------------------------------------
(* What is written in an ignore file.                                      *)

LEMMA LineEnds ==
  ASSUME NEW t \in Seq(STRING), NEW i \in 1..Len(t)
  PROVE  /\ EndOfLine(t, i) \in i..Len(t) + 1
         /\ EndOfLine(t, i) <= Len(t) => t[EndOfLine(t, i)] = "\n"
         /\ \A k \in i..Len(t) : t[k] = "\n" => EndOfLine(t, i) <= k
<1> DEFINE S == {Len(t) + 1} \cup {k \in i..Len(t) : t[k] = "\n"}
<1>0. Len(t) \in Nat
  BY LenProperties
<1>1. S \subseteq Nat /\ S # {} /\ S \subseteq i..Len(t) + 1
  BY <1>0
<1>2. Min(S) \in S /\ \A n \in S : Min(S) <= n
  <2> HIDE DEF S
  <2> QED BY <1>1, Least
<1>3. \A n \in S : n \in i..Len(t) + 1 /\ (n <= Len(t) => t[n] = "\n")
  BY <1>0
<1>4. \A k \in i..Len(t) : t[k] = "\n" => k \in S
  OBVIOUS
<1> HIDE DEF S
<1> QED BY <1>2, <1>3, <1>4 DEF EndOfLine, S

\* The rules from position i on, given those from the later positions.
Row(t, from, i) ==
  IF i > Len(t) THEN <<>>
  ELSE Parse(SubSeq(t, i, EndOfLine(t, i) - 1)) \o from[EndOfLine(t, i) + 1]

LEMMA LaterRow ==
  ASSUME NEW t \in Seq(STRING), NEW i \in 1..Len(t) + 2, NEW f, NEW g,
         \A j \in (i + 1)..Len(t) + 2 : f[j] = g[j]
  PROVE  Row(t, f, i) = Row(t, g, i)
<1>1. CASE i > Len(t)
  BY <1>1 DEF Row
<1>2. CASE ~(i > Len(t))
  <2>1. i \in 1..Len(t) /\ Len(t) \in Nat
    BY <1>2, LenProperties
  <2>2. EndOfLine(t, i) + 1 \in (i + 1)..Len(t) + 2
    BY <2>1, LineEnds
  <2> QED BY <1>2, <2>2 DEF Row
<1> QED BY <1>1, <1>2

LEMMA RowOfRules ==
  ASSUME NEW t \in Seq(STRING), NEW i \in 1..Len(t) + 2, NEW f,
         \A j \in (i + 1)..Len(t) + 2 : f[j] \in Seq(Rule)
  PROVE  Row(t, f, i) \in Seq(Rule)
<1>1. CASE i > Len(t)
  BY <1>1 DEF Row
<1>2. CASE ~(i > Len(t))
  <2>1. i \in 1..Len(t) /\ Len(t) \in Nat
    BY <1>2, LenProperties
  <2>2. EndOfLine(t, i) \in i..Len(t) + 1
    BY <2>1, LineEnds
  <2>3. EndOfLine(t, i) + 1 \in (i + 1)..Len(t) + 2 /\ EndOfLine(t, i) - 1 \in 0..Len(t)
    BY <2>1, <2>2
  <2>4. Parse(SubSeq(t, i, EndOfLine(t, i) - 1)) \in Seq(Rule)
    <3>1. i \in 1..Len(t) + 1
      BY <2>1
    <3>2. SubSeq(t, i, EndOfLine(t, i) - 1) \in Seq(STRING)
      BY <2>3, <3>1, Cutting
    <3> QED BY <3>2, ParsedLine
  <2> QED BY <1>2, <2>3, <2>4, ConcatProperties DEF Row
<1> QED BY <1>1, <1>2

\* The recursion has a value, a sequence of rules at each position.
LEMMA RowsExist ==
  ASSUME NEW t \in Seq(STRING)
  PROVE  \E f : f = [i \in 1..Len(t) + 2 |-> Row(t, f, i)]
<1> DEFINE L == Len(t) + 2
           Filled(f, n) == \A i \in 1..L : i > L - n => f[i] = Row(t, f, i)
           Bad == {n \in 0..L : ~\E f : f = [i \in 1..L |-> f[i]] /\ Filled(f, n)}
<1>1. L \in Nat \ {0}
  BY LenProperties
<1>2. Bad = {}
  <2> SUFFICES ASSUME Bad # {} PROVE FALSE
    OBVIOUS
  <2>1. Bad \subseteq Nat
    BY <1>1
  <2> DEFINE n == Min(Bad)
  <2>2. n \in Bad /\ \A m \in Bad : n <= m
    <3> HIDE DEF Bad
    <3> QED BY <2>1, Least
  <2> HIDE DEF n
  <2>3. n # 0
    <3> DEFINE f == [i \in 1..L |-> <<>>]
    <3>1. f = [i \in 1..L |-> f[i]]
      OBVIOUS
    <3>2. Filled(f, 0)
      BY <1>1
    <3> HIDE DEF Filled, f
    <3> QED BY <2>2, <3>1, <3>2
  <2>4. n - 1 \in 0..L /\ n - 1 \notin Bad
    <3>1. n \in 0..L
      BY <2>2
    <3> HIDE DEF Bad, L
    <3> QED BY <1>1, <2>2, <2>3, <3>1
  <2>5. PICK f : f = [i \in 1..L |-> f[i]] /\ Filled(f, n - 1)
    BY <2>4
  <2> DEFINE r == L - n + 1
             g == [i \in 1..L |-> IF i = r THEN Row(t, f, r) ELSE f[i]]
  <2>6. r \in 1..L
    BY <1>1, <2>2, <2>3
  <2>7. \A i \in 1..L : i > r => f[i] = g[i] /\ f[i] = Row(t, f, i)
    <3>1. \A i \in 1..L : i > r => f[i] = g[i]
      <4>1. r \in Int
        BY <1>1, <2>6
      <4> HIDE DEF L, r
      <4> QED BY <4>1
    <3>2. \A i \in 1..L : i > L - (n - 1) => f[i] = Row(t, f, i)
      <4> HIDE DEF L
      <4> QED BY <2>5
    <3>3. \A i \in 1..L : i > r => i > L - (n - 1)
      <4>1. n \in 0..L
        BY <2>2
      <4> HIDE DEF L
      <4> QED BY <1>1, <4>1
    <3> HIDE DEF L, r, g
    <3> QED BY <3>1, <3>2, <3>3
  <2>8. ASSUME NEW i \in 1..L, i >= r
        PROVE  g[i] = Row(t, g, i)
    <3>1. \A j \in (i + 1)..L : f[j] = g[j]
      <4>1. \A j \in (i + 1)..L : j \in 1..L /\ j > r
        <5> HIDE DEF L
        <5> QED BY <1>1, <2>6, <2>8
      <4> HIDE DEF L, g, r
      <4> QED BY <2>7, <4>1
    <3>2. Row(t, f, i) = Row(t, g, i)
      <4> HIDE DEF g
      <4> QED BY <3>1, LaterRow
    <3>3. g[i] = Row(t, f, i)
      <4>1. CASE i = r
        BY <4>1
      <4>2. CASE i > r
        <5> HIDE DEF g
        <5> QED BY <2>7, <4>2
      <4> HIDE DEF L, g
      <4> QED BY <1>1, <2>6, <2>8, <4>1, <4>2
    <3> QED BY <3>2, <3>3
  <2>9. Filled(g, n)
    <3>1. \A i \in 1..L : i > L - n => i >= r
      <4>1. n \in 0..L
        BY <2>2
      <4> HIDE DEF L
      <4> QED BY <1>1, <2>6, <4>1
    <3> HIDE DEF g, L, r
    <3> QED BY <2>8, <3>1
  <2>10. g = [i \in 1..L |-> g[i]]
    OBVIOUS
  <2>11. n \in 0..L /\ ~\E h : h = [i \in 1..L |-> h[i]] /\ Filled(h, n)
    BY <2>2
  <2> HIDE DEF Filled, g, Bad
  <2> QED BY <2>9, <2>10, <2>11
<1>3. PICK f : f = [i \in 1..L |-> f[i]] /\ Filled(f, L)
  <2>1. L \in 0..L
    BY <1>1
  <2> HIDE DEF L, Filled
  <2> QED BY <1>2, <2>1
<1>4. \A i \in 1..L : f[i] = Row(t, f, i)
  <2> HIDE DEF L
  <2> QED BY <1>1, <1>3
<1> QED BY <1>3, <1>4

LEMMA WrittenRows ==
  ASSUME NEW t \in Seq(STRING)
  PROVE  \A i \in 1..Len(t) + 2 : WrittenFrom(t)[i] = Row(t, WrittenFrom(t), i)
<1> DEFINE P(f) == f = [i \in 1..Len(t) + 2 |-> Row(t, f, i)]
<1>1. \E f : P(f)
  BY RowsExist
<1>2. WrittenFrom(t) = CHOOSE f : P(f)
  BY DEF WrittenFrom, Row
<1> HIDE DEF P
<1>3. P(WrittenFrom(t))
  BY <1>1, <1>2
<1> USE DEF P
<1> QED BY <1>3

LEMMA WrittenRules ==
  ASSUME NEW t \in Seq(STRING)
  PROVE  \A i \in 1..Len(t) + 2 : WrittenFrom(t)[i] \in Seq(Rule)
<1> DEFINE L == Len(t) + 2
           w == WrittenFrom(t)
           Bad == {k \in 0..L : L - k \in 1..L /\ w[L - k] \notin Seq(Rule)}
<1>1. L \in Nat \ {0}
  BY LenProperties
<1>2. Bad = {}
  <2> SUFFICES ASSUME Bad # {} PROVE FALSE
    OBVIOUS
  <2>1. Bad \subseteq Nat
    BY <1>1
  <2> DEFINE n == Min(Bad)
  <2>2. n \in Bad /\ \A m \in Bad : n <= m
    <3> HIDE DEF Bad
    <3> QED BY <2>1, Least
  <2> HIDE DEF n
  <2>3. n \in 0..L /\ L - n \in 1..L /\ w[L - n] \notin Seq(Rule)
    BY <2>2
  <2>4. \A j \in (L - n + 1)..L : w[j] \in Seq(Rule)
    <3>1. ASSUME NEW j \in (L - n + 1)..L, w[j] \notin Seq(Rule)
          PROVE  FALSE
      <4>1. L - j \in 0..L /\ L - (L - j) = j /\ j \in 1..L /\ L - j < n
        <5> HIDE DEF L
        <5> QED BY <1>1, <2>3, <3>1
      <4>2. L - j \in Bad
        BY <3>1, <4>1
      <4> HIDE DEF Bad, L
      <4> QED BY <1>1, <2>2, <2>3, <4>1, <4>2
    <3> QED BY <3>1
  <2>5. Row(t, w, L - n) \in Seq(Rule)
    <3> HIDE DEF w
    <3> QED BY <2>3, <2>4, RowOfRules
  <2> QED BY <2>3, <2>5, WrittenRows
<1>3. ASSUME NEW i \in 1..L PROVE w[i] \in Seq(Rule)
  <2>1. L - i \in 0..L /\ L - (L - i) = i
    BY <1>1
  <2> HIDE DEF w
  <2> QED BY <1>2, <2>1
<1> QED BY <1>3

-----------------------------------------------------------------------------
(* What reading a line takes from a text.                                  *)

LEMMA LineTaken ==
  ASSUME NEW t \in Seq(STRING), t # <<>>
  PROVE  /\ LineLength(t) \in 1..Len(t)
         /\ \/ LineLength(t) = Len(t)
            \/ LineLength(t) = LineMax - 1
            \/ t[LineLength(t)] = "\n"
         /\ LineLength(t) < LineMax
         /\ \A i \in 1..LineLength(t) - 1 : t[i] # "\n"
<1> DEFINE S == {n \in 1..Len(t) : n = Len(t) \/ n = LineMax - 1 \/ t[n] = "\n"}
           m == Min(S)
<1>1. Len(t) \in Nat \ {0}
  BY EmptySeq
<1>2. LineMax \in Nat /\ LineMax - 1 \in Nat \ {0}
  BY RulesAssumption
<1>3. S \subseteq Nat /\ Len(t) \in S
  BY <1>1
<1>4. m \in S /\ \A n \in S : m <= n
  <2> HIDE DEF S
  <2> QED BY <1>3, Least
<1> HIDE DEF m
<1>5. m \in 1..Len(t) /\ (m = Len(t) \/ m = LineMax - 1 \/ t[m] = "\n")
  BY <1>4
<1>6. m < LineMax
  <2>1. CASE LineMax - 1 <= Len(t)
    <3>1. LineMax - 1 \in S
      BY <1>1, <1>2, <2>1
    <3> HIDE DEF S
    <3> QED BY <1>2, <1>4, <1>5, <3>1
  <2>2. CASE LineMax - 1 > Len(t)
    BY <1>1, <1>2, <1>5, <2>2
  <2> QED BY <1>1, <1>2, <2>1, <2>2
<1>7. \A i \in 1..m - 1 : t[i] # "\n"
  <2>1. ASSUME NEW i \in 1..m - 1, t[i] = "\n" PROVE FALSE
    <3>1. i \in 1..Len(t) /\ ~(m <= i)
      BY <1>1, <1>5
    <3>2. i \in S
      BY <2>1, <3>1
    <3> HIDE DEF S
    <3> QED BY <1>4, <3>1, <3>2
  <2> QED BY <2>1
<1> DEFINE P(n) == /\ n \in 1..Len(t)
                   /\ n = Len(t) \/ n = LineMax - 1 \/ t[n] = "\n"
                   /\ n < LineMax
                   /\ \A i \in 1..n - 1 : t[i] # "\n"
<1>8. P(m)
  BY <1>5, <1>6, <1>7
<1>9. LineLength(t) = CHOOSE n : P(n)
  BY DEF LineLength
<1>10. P(LineLength(t))
  <2> HIDE DEF P
  <2> QED BY <1>8, <1>9
<1> QED BY <1>10

\* What is left of a text from a position on.
LEMMA Suffix ==
  ASSUME NEW t \in Seq(STRING), NEW a \in 1..Len(t) + 1
  PROVE  /\ SubSeq(t, a, Len(t)) \in Seq(STRING)
         /\ Len(SubSeq(t, a, Len(t))) = Len(t) - a + 1
         /\ \A i \in 1..Len(t) - a + 1 : SubSeq(t, a, Len(t))[i] = t[a + i - 1]
<1>1. Len(t) \in Nat
  BY LenProperties
<1>2. \A i \in a..Len(t) : t[i] \in STRING
  BY <1>1, ElementOfSeq
<1>3. /\ SubSeq(t, a, Len(t)) \in Seq(STRING)
      /\ Len(SubSeq(t, a, Len(t))) = IF a <= Len(t) THEN Len(t) - a + 1 ELSE 0
      /\ \A i \in 1..Len(t) - a + 1 : SubSeq(t, a, Len(t))[i] = t[a + i - 1]
  BY <1>1, <1>2, SubSeqProperties
<1> QED BY <1>1, <1>3

\* A line of a text is read at position a: n characters of what is left, which
\* leads to position b.
LineRead(t, a, left, n, b) ==
  left = SubSeq(t, a, Len(t)) /\ n = LineLength(left) /\ b = a + n

\* The rules from position a on are this one and those from position b on.
FirstRule(t, a, rule, b) == WrittenFrom(t)[a] = rule \o WrittenFrom(t)[b]

\* What is left behind that line starts at b, and what is written from a is the
\* rule of the line before what is written from b.
OneLineOn(t, a, left, n, b) ==
  /\ n \in 1..Len(left)
  /\ b \in 1..Len(t) + 1
  /\ SubSeq(left, n + 1, Len(left)) = SubSeq(t, b, Len(t))
  /\ FirstRule(t, a, Parse(SubSeq(left, 1, n)), b)

\* Reading a line of a text, from any position on, gives the first of the
\* rules written there and leaves the others, if no line fills the buffer.
LEMMA ReadsOn ==
  ASSUME NEW t \in Seq(STRING), NEW a \in 1..Len(t), FitsBuffer(t),
         NEW left, NEW n \in Nat, NEW b \in Nat, LineRead(t, a, left, n, b)
  PROVE  OneLineOn(t, a, left, n, b)
<1> DEFINE w == WrittenFrom(t)
           e == EndOfLine(t, a)
<1>1. Len(t) \in Nat
  BY LenProperties
<1>2. left = SubSeq(t, a, Len(t)) /\ n = LineLength(left) /\ b = a + n
  BY DEF LineRead
<1>3. /\ left \in Seq(STRING) /\ Len(left) = Len(t) - a + 1
      /\ \A i \in 1..Len(left) : left[i] = t[a + i - 1]
  <2>1. a \in 1..Len(t) + 1
    BY <1>1
  <2> QED BY <1>2, <2>1, Suffix
<1>4. left # <<>>
  <2>1. Len(left) # 0
    BY <1>1, <1>3
  <2> QED BY <2>1, EmptySeq
<1>5. /\ n \in 1..Len(left)
      /\ n = Len(left) \/ n = LineMax - 1 \/ left[n] = "\n"
      /\ n < LineMax
      /\ \A i \in 1..n - 1 : left[i] # "\n"
  BY <1>2, <1>3, <1>4, LineTaken
<1>6. a + n \in 1..Len(t) + 1 /\ n \in Nat \ {0}
  BY <1>1, <1>3, <1>5
<1>7. n # Len(left) => n < Len(left)
  <2>1. Len(left) \in Nat
    BY <1>1, <1>3
  <2> QED BY <1>5, <2>1
<1>8. \A i \in a..a + n - 2 : t[i] # "\n"
  <2>1. ASSUME NEW i \in a..a + n - 2 PROVE t[i] # "\n"
    <3>1. i - a + 1 \in 1..n - 1 /\ i - a + 1 \in 1..Len(left) /\ a + (i - a + 1) - 1 = i
      BY <1>1, <1>3, <1>5
    <3> QED BY <1>3, <1>5, <3>1
  <2> QED BY <2>1
<1>9. /\ e \in a..Len(t) + 1
      /\ e <= Len(t) => t[e] = "\n"
      /\ \A k \in a..Len(t) : t[k] = "\n" => e <= k
  BY LineEnds
<1>10. w[a] = Parse(SubSeq(t, a, e - 1)) \o w[e + 1]
  <2>1. a \in 1..Len(t) + 2 /\ ~(a > Len(t))
    BY <1>1
  <2> QED BY <2>1, WrittenRows DEF Row
<1> HIDE DEF e
<1>11. SubSeq(left, 1, n) = SubSeq(t, a, a + n - 1)
  <2>1. n \in 1..Len(t) - a + 1 /\ 1 \in 1..Len(t) - a + 1 /\ Len(t) \in 1..Len(t)
    BY <1>1, <1>3, <1>5
  <2>2. a + 1 - 1 = a
    BY <1>1
  <2> QED BY <1>2, <1>3, <2>1, <2>2, SubSeqOfSubSeq
<1>12. SubSeq(left, n + 1, Len(left)) = SubSeq(t, a + n, Len(t))
  <2>1. CASE n = Len(left)
    <3>1. n + 1 \in Int /\ Len(left) \in Int /\ Len(left) < n + 1
      BY <1>3, <1>5, <2>1
    <3>2. a + n \in Int /\ Len(t) \in Int /\ Len(t) < a + n
      BY <1>1, <1>3, <1>5, <2>1
    <3> QED BY <1>2, <3>1, <3>2, SubSeqEmpty
  <2>2. CASE n # Len(left)
    <3>1. /\ n + 1 \in 1..Len(t) - a + 1 /\ Len(left) \in 1..Len(t) - a + 1
          /\ Len(t) \in 1..Len(t)
      <4>1. n < Len(left)
        BY <1>7, <2>2
      <4> QED BY <1>1, <1>3, <1>6, <4>1
    <3>2. a + (n + 1) - 1 = a + n /\ a + Len(left) - 1 = Len(t)
      BY <1>1, <1>3, <1>5
    <3>3. SubSeq(SubSeq(t, a, Len(t)), n + 1, Len(left))
            = SubSeq(t, a + (n + 1) - 1, a + Len(left) - 1)
      <4> DEFINE from == n + 1
                 to == Len(left)
      <4>1. from \in 1..Len(t) - a + 1 /\ to \in 1..Len(t) - a + 1 /\ Len(t) \in 1..Len(t)
        BY <3>1
      <4> HIDE DEF from, to
      <4>2. SubSeq(SubSeq(t, a, Len(t)), from, to) = SubSeq(t, a + from - 1, a + to - 1)
        BY <4>1, SubSeqOfSubSeq
      <4> QED BY <4>2 DEF from, to
    <3> QED BY <1>2, <3>2, <3>3
  <2> QED BY <2>1, <2>2
<1>13. w[a] = Parse(SubSeq(t, a, a + n - 1)) \o w[a + n]
  <2>1. CASE left[n] = "\n"
    <3>1. t[a + n - 1] = "\n" /\ a + n - 1 \in a..Len(t)
      BY <1>1, <1>3, <1>5, <2>1
    <3>2. e = a + n - 1
      <4>1. e <= a + n - 1
        BY <1>9, <3>1
      <4>2. ~(e <= a + n - 2)
        <5>1. ASSUME e <= a + n - 2 PROVE FALSE
          <6>1. e \in a..a + n - 2 /\ e <= Len(t)
            BY <1>1, <1>3, <1>5, <1>9, <5>1
          <6> QED BY <1>8, <1>9, <6>1
        <5> QED BY <5>1
      <4>3. e \in Int /\ a \in Int /\ n \in Int
        BY <1>1, <1>6, <1>9
      <4> QED BY <4>1, <4>2, <4>3
    <3>3. Parse(SubSeq(t, a, e)) = Parse(SubSeq(t, a, e - 1))
      BY <3>1, <3>2, NewlineMeansNothing
    <3>4. e + 1 = a + n
      BY <1>1, <1>6, <3>2
    <3> QED BY <1>10, <3>2, <3>3, <3>4
  <2>2. CASE left[n] # "\n"
    <3>1. \A i \in a..a + n - 1 : t[i] # "\n"
      <4>1. t[a + n - 1] # "\n"
        BY <1>3, <1>5, <2>2
      <4>2. ASSUME NEW i \in a..a + n - 1, i # a + n - 1 PROVE i \in a..a + n - 2
        BY <1>1, <1>6, <4>2
      <4> QED BY <1>8, <4>1, <4>2
    <3>2. ~(e <= a + n - 1)
      <4>1. ASSUME e <= a + n - 1 PROVE FALSE
        <5>1. e \in a..a + n - 1 /\ e <= Len(t)
          BY <1>1, <1>3, <1>5, <1>9, <4>1
        <5> QED BY <1>9, <3>1, <5>1
      <4> QED BY <4>1
    <3>3. e = a + n
      <4>1. CASE n = Len(left)
        BY <1>1, <1>3, <1>5, <1>9, <3>2, <4>1
      <4>2. CASE n # Len(left)
        <5>1. n = LineMax - 1 /\ LineMax \in Nat
          BY <1>5, <2>2, <4>2, RulesAssumption
        <5>2. a \in 1..Len(t) - LineMax + 1
          <6>1. n < Len(t) - a + 1
            BY <1>1, <1>3, <1>5, <4>2
          <6> QED BY <1>1, <5>1, <6>1
        <5>3. PICK k \in a..a + LineMax - 1 : t[k] = "\n"
          BY <5>2 DEF FitsBuffer
        <5>4. k = a + n
          <6>1. k \in a..a + n - 1 \/ k = a + n
            BY <1>1, <1>6, <5>1
          <6> QED BY <3>1, <5>3, <6>1
        <5>5. k \in a..Len(t)
          <6>1. n < Len(left)
            BY <1>7, <4>2
          <6> QED BY <1>1, <1>3, <1>6, <5>4, <6>1
        <5>6. e <= a + n
          BY <1>9, <5>3, <5>4, <5>5
        <5> QED BY <1>1, <1>6, <1>9, <3>2, <5>6
      <4> QED BY <4>1, <4>2
    <3>4. a + n - 1 = e - 1
      BY <1>1, <1>6, <1>9, <3>3
    <3>5. w[a + n] = w[e + 1]
      <4>1. a + n \in 1..Len(t) + 2 /\ e + 1 \in 1..Len(t) + 2
        BY <1>1, <1>6, <3>3
      <4>2. CASE a + n > Len(t)
        <5>1. e + 1 > Len(t)
          BY <1>1, <1>6, <3>3, <4>2
        <5> QED BY <4>1, <4>2, <5>1, WrittenRows DEF Row
      <4>3. CASE ~(a + n > Len(t))
        <5>1. e \in 1..Len(t) /\ t[e] = "\n"
          BY <1>1, <1>6, <1>9, <3>3, <4>3
        <5>2. EndOfLine(t, e) = e
          <6>1. /\ EndOfLine(t, e) \in e..Len(t) + 1
                /\ \A k \in e..Len(t) : t[k] = "\n" => EndOfLine(t, e) <= k
            BY <5>1, LineEnds
          <6>2. e \in e..Len(t)
            BY <5>1
          <6>3. EndOfLine(t, e) <= e
            BY <5>1, <6>1, <6>2
          <6> QED BY <1>1, <5>1, <6>1, <6>3
        <5>3. w[e] = Parse(SubSeq(t, e, e - 1)) \o w[e + 1]
          <6>1. e \in 1..Len(t) + 2 /\ ~(e > Len(t))
            BY <1>1, <5>1
          <6> QED BY <5>2, <6>1, WrittenRows DEF Row
        <5>4. SubSeq(t, e, e - 1) = <<>>
          BY <5>1, SubSeqEmpty
        <5>5. Parse(<<>>) = <<>>
          <6>1. Solid(<<>>) = {}
            BY DEF Solid
          <6>2. Trim(<<>>) = <<>>
            BY <6>1, Zenon DEF Trim
          <6>3. \A c : ~StartsWith(<<>>, c)
            BY Zenon DEF StartsWith
          <6> QED BY <6>2, <6>3, Zenon DEF Parse
        <5>6. w[e + 1] \in Seq(Rule)
          BY <4>1, WrittenRules
        <5>7. <<>> \o w[e + 1] = w[e + 1]
          BY <5>6, ConcatEmptySeq
        <5> HIDE DEF w
        <5>8. w[e] = w[e + 1]
          BY <5>3, <5>4, <5>5, <5>7, Zenon
        <5> QED BY <3>3, <5>8, Zenon
      <4> QED BY <4>2, <4>3
    <3> QED BY <1>10, <3>4, <3>5
  <2> QED BY <2>1, <2>2
<1> QED BY <1>2, <1>5, <1>6, <1>11, <1>12, <1>13 DEF FirstRule, OneLineOn

-----------------------------------------------------------------------------
(* What the rules of a directory say of a path.                            *)

\* The rules among the first k that match.
HitsUpTo(rules, k, full, is_dir) == {l \in 1..k : RuleMatches(rules[l], full, is_dir)}

\* The last of some rules decides.
Verdict(rules, hits) ==
  IF hits = {} THEN "none" ELSE IF rules[Max(hits)].is_negation THEN "keep" ELSE "ignore"

LEMMA NextHit ==
  ASSUME NEW N \in Nat, NEW k \in 1..N, NEW rules, NEW full, NEW is_dir
  PROVE  Verdict(rules, HitsUpTo(rules, k, full, is_dir)) =
           IF RuleMatches(rules[k], full, is_dir)
           THEN Decide(Verdict(rules, HitsUpTo(rules, k - 1, full, is_dir)), rules[k])
           ELSE Verdict(rules, HitsUpTo(rules, k - 1, full, is_dir))
<1> DEFINE H == HitsUpTo(rules, k, full, is_dir)
           G == HitsUpTo(rules, k - 1, full, is_dir)
<1>1. \A l \in 1..k : l \in 1..k - 1 \/ l = k
  OBVIOUS
<1>2. \A l \in 1..k - 1 : l \in 1..k
  OBVIOUS
<1>3. k \in 1..k /\ k \in Nat
  OBVIOUS
<1>4. CASE RuleMatches(rules[k], full, is_dir)
  <2>1. k \in H /\ H \subseteq 0..k
    BY <1>3, <1>4 DEF HitsUpTo
  <2> HIDE DEF H
  <2>2. Max(H) \in 0..k /\ Max(H) >= k
    BY <1>3, <2>1, Greatest
  <2>3. Max(H) = k
    BY <1>3, <2>2
  <2>4. Verdict(rules, H) = Decide(Verdict(rules, G), rules[k])
    BY <2>1, <2>3 DEF Verdict, Decide
  <2> QED BY <1>4, <2>4 DEF H
<1>5. CASE ~RuleMatches(rules[k], full, is_dir)
  <2>1. H = G
    BY <1>1, <1>2, <1>5 DEF HitsUpTo
  <2> QED BY <1>5, <2>1
<1> QED BY <1>4, <1>5

\* The loop over the rules ends with what the last rule that matches says.
LEMMA DecisionIs ==
  ASSUME NEW rules \in Seq(Rule), NEW full, NEW is_dir
  PROVE  Decision(rules, full, is_dir)
           = Verdict(rules, HitsUpTo(rules, Len(rules), full, is_dir))
<1> DEFINE N == Len(rules)
           D(b, k) == IF RuleMatches(rules[k], full, is_dir) THEN Decide(b, rules[k]) ELSE b
           P(f) == f = [k \in 0..N |-> IF k = 0 THEN "none" ELSE D(f[k - 1], k)]
           v == [k \in 0..N |-> Verdict(rules, HitsUpTo(rules, k, full, is_dir))]
<1>1. N \in Nat
  BY LenProperties
<1>2. \A k \in 0..N : v[k] = IF k = 0 THEN "none" ELSE D(v[k - 1], k)
  <2>1. ASSUME NEW k \in 0..N, k = 0 PROVE v[k] = "none"
    BY <2>1 DEF Verdict, HitsUpTo
  <2>2. ASSUME NEW k \in 0..N, k # 0 PROVE v[k] = D(v[k - 1], k)
    <3>1. k \in 1..N /\ k - 1 \in 0..N
      BY <1>1, <2>2
    <3>2. /\ v[k] = Verdict(rules, HitsUpTo(rules, k, full, is_dir))
          /\ v[k - 1] = Verdict(rules, HitsUpTo(rules, k - 1, full, is_dir))
      BY <3>1
    <3> HIDE DEF N, v
    <3> QED BY <1>1, <3>1, <3>2, NextHit
  <2> HIDE DEF v, D
  <2> QED BY <2>1, <2>2
<1>3. P(v)
  <2>1. v = [k \in 0..N |-> v[k]]
    OBVIOUS
  <2> HIDE DEF v, D
  <2> QED BY <1>2, <2>1
<1> DEFINE after == CHOOSE f : P(f)
<1>4. P(after)
  <2> HIDE DEF P, v
  <2> QED BY <1>3
<1>5. Decision(rules, full, is_dir) = after[N]
  BY DEF Decision
<1> HIDE DEF after
<1>6. \A k \in 0..N : after[k] = IF k = 0 THEN "none" ELSE D(after[k - 1], k)
  <2> HIDE DEF D
  <2> QED BY <1>4
<1> DEFINE Bad == {k \in 0..N : after[k] # v[k]}
<1>7. Bad = {}
  <2> SUFFICES ASSUME Bad # {} PROVE FALSE
    OBVIOUS
  <2>1. Bad \subseteq Nat
    BY <1>1
  <2> DEFINE n == Min(Bad)
  <2>2. n \in Bad /\ \A m \in Bad : n <= m
    <3> HIDE DEF Bad
    <3> QED BY <2>1, Least
  <2> HIDE DEF n
  <2>3. n \in 0..N /\ after[n] # v[n]
    BY <2>2
  <2> HIDE DEF v, D
  <2>4. n # 0
    BY <1>2, <1>6, <2>3
  <2>5. n - 1 \in 0..N /\ n - 1 \notin Bad
    <3>1. n - 1 \in 0..N /\ ~(n <= n - 1)
      BY <1>1, <2>3, <2>4
    <3> HIDE DEF Bad
    <3> QED BY <2>2, <3>1
  <2>6. after[n - 1] = v[n - 1]
    BY <2>5
  <2> QED BY <1>2, <1>6, <2>3, <2>4, <2>6
<1>8. N \in 0..N /\ N \notin Bad
  <2>1. N \in 0..N
    BY <1>1
  <2> HIDE DEF Bad
  <2> QED BY <1>7, <2>1
<1>9. after[N] = v[N]
  <2> HIDE DEF v
  <2> QED BY <1>8
<1> QED BY <1>5, <1>8, <1>9

-----------------------------------------------------------------------------
(* The types.                                                              *)

\* There are two files to read, and directories lead to directories.
Typed ==
  /\ RTypeOK
  /\ phase = "load" => file \in {1, 2}
  /\ entry.type = "dir" => entry.to \in Dirs

\* The list that a rule is added to stays within its array.
LEMMA AppendedList ==
  ASSUME NEW list \in RuleList, Len(list.rules) <= list.capacity,
         NEW rule \in Seq(Rule), Len(rule) \in {0, 1}
  PROVE  /\ grow_rules(list) \in RuleList
         /\ grow_rules(list).rules = list.rules
         /\ Len(list.rules) <= grow_rules(list).capacity
         /\ Append1(list, rule) \in RuleList
         /\ Append1(list, rule).rules = list.rules \o rule
         /\ Len(list.rules \o rule) <= Append1(list, rule).capacity
<1> DEFINE g == grow_rules(list)
<1>1. list.rules \in Seq(Rule) /\ list.capacity \in Nat /\ Len(list.rules) \in Nat
  BY LenProperties DEF RuleList
<1>2. /\ g \in RuleList /\ g.rules = list.rules
      /\ Len(list.rules) + 1 <= g.capacity
  <2>1. CASE ~Full(list)
    <3>1. g = list
      BY <2>1 DEF grow_rules
    <3> QED BY <1>1, <2>1, <3>1 DEF Full
  <2>2. CASE Full(list)
    <3> DEFINE c == IF list.capacity = 0 THEN InitialRules ELSE list.capacity * 2
    <3>1. g = [list EXCEPT !.capacity = c]
      BY <2>2 DEF grow_rules
    <3>2. c \in Nat /\ Len(list.rules) + 1 <= c
      BY <1>1, <2>2, RulesAssumption DEF Full
    <3> HIDE DEF c
    <3>3. g \in RuleList /\ g.rules = list.rules /\ g.capacity = c
      BY <3>1, <3>2 DEF RuleList
    <3> HIDE DEF g
    <3> QED BY <3>2, <3>3
  <2> QED BY <2>1, <2>2
<1> HIDE DEF g
<1>3. Append1(list, rule) = [g EXCEPT !.rules = g.rules \o rule]
  BY DEF Append1, g
<1>4. g.capacity \in Nat
  BY <1>2 DEF RuleList
<1>5. list.rules \o rule \in Seq(Rule) /\ Len(list.rules \o rule) = Len(list.rules) + Len(rule)
  BY <1>1, ConcatProperties
<1>6. /\ Append1(list, rule) \in RuleList
      /\ Append1(list, rule).rules = list.rules \o rule
      /\ Append1(list, rule).capacity = g.capacity
  <2> DEFINE r == list.rules \o rule
  <2> HIDE DEF r
  <2>1. Append1(list, rule) = [g EXCEPT !.rules = r] /\ r \in Seq(Rule)
    BY <1>2, <1>3, <1>5 DEF r
  <2>2. /\ Append1(list, rule) \in RuleList
        /\ Append1(list, rule).rules = r
        /\ Append1(list, rule).capacity = g.capacity
    BY <1>2, <2>1 DEF RuleList
  <2> QED BY <2>2 DEF r
<1>7. Len(list.rules) <= g.capacity /\ Len(list.rules \o rule) <= g.capacity
  <2> DEFINE m == Len(list.rules)
             k == Len(rule)
             l == Len(list.rules \o rule)
             c == g.capacity
  <2>1. m \in Nat /\ k \in {0, 1} /\ c \in Nat
    BY <1>1, <1>4
  <2>2. l = m + k /\ m + 1 <= c
    BY <1>2, <1>5
  <2> HIDE DEF m, k, l, c
  <2>3. m <= c /\ l <= c
    BY <2>1, <2>2
  <2> QED BY <2>3 DEF m, l, c
<1>8. Len(list.rules \o rule) <= Append1(list, rule).capacity
  BY <1>6, <1>7, Zenon
<1>9. g \in RuleList /\ g.rules = list.rules /\ Len(list.rules) <= g.capacity
  BY <1>2, <1>7
<1> QED BY <1>6, <1>8, <1>9 DEF g

\* The two outcomes of reading a line.
LEMMA ReadLineIs ==
  ASSUME Typed, ReadLine
  PROVE  /\ chain # <<>> /\ rest # <<>>
         /\ \E list \in RuleList :
              /\ chain' = [chain EXCEPT ![1] = list]
              /\ Len(list.rules) <= list.capacity
              /\ \/ /\ list.rules =
                         chain[1].rules \o Parse(SubSeq(rest, 1, LineLength(rest)))
                    /\ rest' = SubSeq(rest, LineLength(rest) + 1, Len(rest))
                    /\ truncated' = truncated
                 \/ /\ list.rules = chain[1].rules
                    /\ rest' = <<>>
                    /\ truncated' = TRUE
<1> DEFINE n == LineLength(rest)
           rule == Parse(SubSeq(rest, 1, n))
           left == SubSeq(rest, n + 1, Len(rest))
<1>1. rest \in Seq(STRING) /\ rest # <<>> /\ Len(rest) \in Nat
  BY LenProperties DEF Typed, RTypeOK, ReadLine
<1>2. n \in 1..Len(rest)
  BY <1>1, LineTaken
<1> HIDE DEF n
<1>3. rule \in Seq(Rule) /\ Len(rule) \in {0, 1}
  <2>1. 1 \in 1..Len(rest) + 1 /\ n \in 0..Len(rest)
    BY <1>1, <1>2
  <2>2. SubSeq(rest, 1, n) \in Seq(STRING)
    BY <1>1, <2>1, Cutting
  <2> QED BY <2>2, ParsedLine
<1>4. chain # <<>> /\ chain[1] \in RuleList /\ Len(chain[1].rules) <= chain[1].capacity
  <2>1. chain \in Seq(RuleList) /\ Len(chain) = Len(trail) /\ trail \in Seq(Dirs) /\ trail # <<>>
    BY DEF Typed, RTypeOK
  <2>2. Len(chain) \in Nat \ {0}
    BY <2>1, EmptySeq
  <2>3. 1 \in 1..Len(chain) /\ DOMAIN chain = 1..Len(chain)
    BY <2>1, <2>2, LenProperties
  <2>4. chain[1] \in RuleList
    BY <2>1, <2>3, ElementOfSeq
  <2>5. Len(chain[1].rules) <= chain[1].capacity
    BY <2>3 DEF Typed, RTypeOK
  <2> QED BY <2>2, <2>4, <2>5, EmptySeq
<1>5. \/ /\ chain' = [chain EXCEPT ![1] = IF rule = <<>> THEN @ ELSE Append1(@, rule)]
         /\ rest' = left
         /\ truncated' = truncated
      \/ /\ \/ LeaveOut(chain[1], left)
            \/ LeaveOut(grow_rules(chain[1]), left)
         /\ truncated' = TRUE
  BY DEF ReadLine, n
<1> HIDE DEF rule, left
<1>6. /\ grow_rules(chain[1]) \in RuleList
      /\ grow_rules(chain[1]).rules = chain[1].rules
      /\ Len(chain[1].rules) <= grow_rules(chain[1]).capacity
      /\ Append1(chain[1], rule) \in RuleList
      /\ Append1(chain[1], rule).rules = chain[1].rules \o rule
      /\ Len(chain[1].rules \o rule) <= Append1(chain[1], rule).capacity
  BY <1>3, <1>4, AppendedList
<1> DEFINE Outcome(list) ==
             /\ chain' = [chain EXCEPT ![1] = list]
             /\ Len(list.rules) <= list.capacity
             /\ \/ /\ list.rules = chain[1].rules \o rule
                   /\ rest' = left
                   /\ truncated' = truncated
                \/ /\ list.rules = chain[1].rules
                   /\ rest' = <<>>
                   /\ truncated' = TRUE
<1>7. \E list \in RuleList : Outcome(list)
  <2>1. CASE /\ chain' = [chain EXCEPT ![1] = IF rule = <<>> THEN @ ELSE Append1(@, rule)]
             /\ rest' = left
             /\ truncated' = truncated
    <3>1. CASE rule = <<>>
      <4>1. chain[1].rules \o rule = chain[1].rules
        <5>1. chain[1].rules \in Seq(Rule)
          BY <1>4 DEF RuleList
        <5> QED BY <3>1, <5>1, ConcatEmptySeq
      <4>2. chain' = [chain EXCEPT ![1] = chain[1]]
        BY <2>1, <3>1
      <4>3. Outcome(chain[1])
        BY <1>4, <2>1, <4>1, <4>2
      <4> HIDE DEF Outcome
      <4> QED BY <1>4, <4>3
    <3>2. CASE rule # <<>>
      <4>1. chain' = [chain EXCEPT ![1] = Append1(chain[1], rule)]
        BY <2>1, <3>2
      <4>2. Outcome(Append1(chain[1], rule))
        BY <1>6, <2>1, <4>1
      <4> HIDE DEF Outcome
      <4> QED BY <1>6, <4>2
    <3> QED BY <3>1, <3>2
  <2>2. CASE LeaveOut(chain[1], left) /\ truncated' = TRUE
    <3>1. Outcome(chain[1])
      BY <1>4, <2>2 DEF LeaveOut
    <3> HIDE DEF Outcome
    <3> QED BY <1>4, <3>1
  <2>3. CASE LeaveOut(grow_rules(chain[1]), left) /\ truncated' = TRUE
    <3>1. Outcome(grow_rules(chain[1]))
      BY <1>6, <2>3 DEF LeaveOut
    <3> HIDE DEF Outcome
    <3> QED BY <1>6, <3>1
  <2> QED BY <1>5, <2>1, <2>2, <2>3
<1> QED BY <1>1, <1>4, <1>7 DEF n, rule, left

LEMMA PathIs ==
  ASSUME path \in Seq(Names), NEW e, e.name \in Names
  PROVE  /\ FullPath(e) \in Seq(Names)
         /\ Len(FullPath(e)) = Len(path) + 2
         /\ Last(FullPath(e)) = e.name
<1> DEFINE end == <<"/", e.name>>
<1>1. end \in Seq(Names) /\ Len(end) = 2 /\ end[2] = e.name
  <2>1. "/" \in Names
    BY DEF Names
  <2>2. end \in Seq(Names)
    BY <2>1
  <2>3. Len(end) = 2 /\ end[2] = e.name
    OBVIOUS
  <2> QED BY <2>2, <2>3
<1> HIDE DEF end
<1>2. Len(path) \in Nat
  BY LenProperties
<1>3. /\ path \o end \in Seq(Names)
      /\ Len(path \o end) = Len(path) + 2
      /\ \A i \in 1..Len(path) + 2 :
           (path \o end)[i] = IF i <= Len(path) THEN path[i] ELSE end[i - Len(path)]
  <2>1. /\ path \o end \in Seq(Names)
        /\ Len(path \o end) = Len(path) + Len(end)
        /\ \A i \in 1..Len(path) + Len(end) :
             (path \o end)[i] = IF i <= Len(path) THEN path[i] ELSE end[i - Len(path)]
    BY <1>1, ConcatProperties
  <2> QED BY <1>1, <2>1
<1>4. (path \o end)[Len(path) + 2] = e.name
  <2>1. /\ Len(path) + 2 \in 1..Len(path) + 2
        /\ ~(Len(path) + 2 <= Len(path))
        /\ (Len(path) + 2) - Len(path) = 2
    BY <1>2
  <2> QED BY <1>1, <1>3, <2>1
<1> QED BY <1>3, <1>4 DEF FullPath, Last, end

-----------------------------------------------------------------------------
(* The length of a path.                                                   *)

\* What Bytes counts.
Piece(p, i) == {i} \X (1..Length[p[i]])
Cells(p) == UNION {Piece(p, i) : i \in DOMAIN p}

LEMMA NameHasLength ==
  ASSUME NEW n \in Names
  PROVE  Length[n] \in Nat \ {0}
BY RulesAssumption

LEMMA PartIs ==
  ASSUME NEW p, NEW i, Length[p[i]] \in Nat
  PROVE  IsFiniteSet(Piece(p, i)) /\ Cardinality(Piece(p, i)) = Length[p[i]]
<1> DEFINE n == Length[p[i]]
<1> HIDE DEF n
<1>1. n \in Nat
  BY DEF n
<1>2. IsFiniteSet({i}) /\ Cardinality({i}) = 1
  BY FS_Singleton
<1>3. IsFiniteSet(1..n) /\ Cardinality(1..n) = n
  <2>1. IsFiniteSet(1..n) /\ Cardinality(1..n) = IF 1 > n THEN 0 ELSE n - 1 + 1
    BY <1>1, FS_Interval
  <2> QED BY <1>1, <2>1
<1>4. IsFiniteSet({i} \X (1..n)) /\ Cardinality({i} \X (1..n)) = 1 * n
  <2>1. \A S, T : IsFiniteSet(S) /\ IsFiniteSet(T) =>
          /\ IsFiniteSet(S \X T)
          /\ Cardinality(S \X T) = Cardinality(S) * Cardinality(T)
    BY FS_Product, Zenon
  <2>2. /\ IsFiniteSet({i} \X (1..n))
        /\ Cardinality({i} \X (1..n)) = Cardinality({i}) * Cardinality(1..n)
    BY <1>2, <1>3, <2>1, Zenon
  <2> QED BY <1>2, <1>3, <2>2, Zenon
<1>5. 1 * n = n
  BY <1>1
<1>6. Piece(p, i) = {i} \X (1..n)
  BY DEF Piece, n
<1> QED BY <1>4, <1>5, <1>6 DEF n

LEMMA CellsAreFinite ==
  ASSUME NEW p \in Seq(Names)
  PROVE  IsFiniteSet(Cells(p)) /\ Bytes(p) = Cardinality(Cells(p)) /\ Bytes(p) \in Nat
<1> DEFINE part == [i \in DOMAIN p |-> Piece(p, i)]
           parts == {Piece(p, i) : i \in DOMAIN p}
<1>1. DOMAIN p = 1..Len(p) /\ Len(p) \in Nat
  BY LenProperties
<1>2. IsFiniteSet(DOMAIN p)
  BY <1>1, FS_Interval
<1>3. IsFiniteSet(parts)
  <2>1. part \in Surjection(DOMAIN p, parts)
    BY DEF Surjection
  <2> HIDE DEF part, parts
  <2> QED BY <1>2, <2>1, FS_Surjection
<1>4. \A T \in parts : IsFiniteSet(T)
  <2>1. ASSUME NEW i \in DOMAIN p PROVE IsFiniteSet(Piece(p, i))
    <3>1. p[i] \in Names
      BY <1>1, ElementOfSeq
    <3>2. Length[p[i]] \in Nat
      BY <3>1, NameHasLength
    <3> QED BY <3>2, PartIs
  <2> QED BY <2>1
<1>5. IsFiniteSet(Cells(p))
  <2> HIDE DEF parts
  <2>1. IsFiniteSet(UNION parts)
    BY <1>3, <1>4, FS_UNION
  <2> QED BY <2>1 DEF Cells, parts
<1>6. Bytes(p) = Cardinality(Cells(p))
  BY DEF Bytes, Cells, Piece
<1> QED BY <1>5, <1>6, FS_CardinalityType

\* dir_len + 1 + name_len.
LEMMA BytesOfPath ==
  ASSUME path \in Seq(Names), NEW e, e.name \in Names
  PROVE  /\ Bytes(path) \in Nat /\ Length[e.name] \in Nat \ {0}
         /\ Bytes(FullPath(e)) = Bytes(path) + 1 + Length[e.name]
<1> DEFINE full == FullPath(e)
           end == <<"/", e.name>>
           L == Len(path)
           slash == Piece(full, L + 1)
           last == Piece(full, L + 2)
<1>1. end \in Seq(Names) /\ Len(end) = 2 /\ end[1] = "/" /\ end[2] = e.name
  <2>1. "/" \in Names
    BY DEF Names
  <2> QED BY <2>1
<1>2. L \in Nat /\ DOMAIN path = 1..L
  BY LenProperties
<1> HIDE DEF end
<1>3. /\ full \in Seq(Names) /\ DOMAIN full = 1..L + 2
      /\ \A i \in 1..L + 2 : full[i] = IF i <= L THEN path[i] ELSE end[i - L]
  <2>1. /\ path \o end \in Seq(Names)
        /\ Len(path \o end) = L + Len(end)
        /\ \A i \in 1..L + Len(end) :
             (path \o end)[i] = IF i <= L THEN path[i] ELSE end[i - L]
    BY <1>1, ConcatProperties
  <2>2. full = path \o end
    BY DEF FullPath, end
  <2> HIDE DEF full
  <2> QED BY <1>1, <2>1, <2>2, LenProperties
<1> HIDE DEF full, L
<1>4. full[L + 1] = "/" /\ full[L + 2] = e.name
  <2>1. /\ L + 1 \in 1..L + 2 /\ ~(L + 1 <= L) /\ (L + 1) - L = 1
        /\ L + 2 \in 1..L + 2 /\ ~(L + 2 <= L) /\ (L + 2) - L = 2
    BY <1>2
  <2> QED BY <1>1, <1>3, <2>1
<1>5. Length["/"] = 1 /\ Length[e.name] \in Nat \ {0}
  BY NameHasLength, RulesAssumption
<1>6. /\ IsFiniteSet(slash) /\ Cardinality(slash) = 1
      /\ IsFiniteSet(last) /\ Cardinality(last) = Length[e.name]
  <2>1. IsFiniteSet(slash) /\ Cardinality(slash) = 1
    BY <1>4, <1>5, PartIs
  <2>2. IsFiniteSet(last) /\ Cardinality(last) = Length[e.name]
    BY <1>4, <1>5, PartIs
  <2> QED BY <2>1, <2>2
<1>7. Cells(full) = (Cells(path) \cup slash) \cup last
  <2>1. \A i \in DOMAIN path : full[i] = path[i]
    <3>1. \A i \in 1..L : i \in 1..L + 2 /\ i <= L
      BY <1>2
    <3> QED BY <1>2, <1>3, <3>1
  <2>2. \A i \in DOMAIN path : Piece(full, i) = Piece(path, i)
    BY <2>1 DEF Piece
  <2>3. DOMAIN full = DOMAIN path \cup {L + 1, L + 2}
    <3>1. 1..L + 2 = 1..L \cup {L + 1, L + 2}
      BY <1>2
    <3> QED BY <1>2, <1>3, <3>1
  <2> HIDE DEF slash, last
  <2>4. Cells(full) = UNION ({Piece(full, i) : i \in DOMAIN path} \cup {slash, last})
    BY <2>3 DEF Cells, slash, last
  <2>5. {Piece(full, i) : i \in DOMAIN path} = {Piece(path, i) : i \in DOMAIN path}
    BY <2>2
  <2> QED BY <2>4, <2>5 DEF Cells
<1>8. Cells(path) \cap slash = {} /\ (Cells(path) \cup slash) \cap last = {}
  <2>1. \A c \in Cells(path) : c[1] \in 1..L
    BY <1>2 DEF Cells, Piece
  <2>2. (\A c \in slash : c[1] = L + 1) /\ (\A c \in last : c[1] = L + 2)
    BY DEF Piece
  <2>3. L + 1 \notin 1..L /\ L + 2 \notin 1..L /\ L + 1 # L + 2
    BY <1>2
  <2> HIDE DEF slash, last
  <2> QED BY <2>1, <2>2, <2>3
<1>9. IsFiniteSet(Cells(path)) /\ Bytes(path) = Cardinality(Cells(path)) /\ Bytes(path) \in Nat
  BY CellsAreFinite
<1>10. Bytes(full) = Cardinality(Cells(full))
  BY <1>3, CellsAreFinite
<1> HIDE DEF slash, last
<1>11. /\ IsFiniteSet(Cells(path) \cup slash)
       /\ Cardinality(Cells(path) \cup slash) = Bytes(path) + 1
  <2>1. /\ IsFiniteSet(Cells(path) \cup slash)
        /\ Cardinality(Cells(path) \cup slash) =
              Cardinality(Cells(path)) + Cardinality(slash) - Cardinality(Cells(path) \cap slash)
    BY <1>6, <1>9, FS_Union
  <2>2. Cardinality(Cells(path) \cap slash) = 0
    BY <1>8, FS_EmptySet
  <2> QED BY <1>6, <1>9, <2>1, <2>2
<1>12. Cardinality((Cells(path) \cup slash) \cup last) = (Bytes(path) + 1) + Length[e.name]
  <2>1. Cardinality((Cells(path) \cup slash) \cup last) =
          Cardinality(Cells(path) \cup slash) + Cardinality(last)
            - Cardinality((Cells(path) \cup slash) \cap last)
    BY <1>6, <1>11, FS_Union
  <2>2. Cardinality((Cells(path) \cup slash) \cap last) = 0
    BY <1>8, FS_EmptySet
  <2> QED BY <1>5, <1>6, <1>9, <1>11, <2>1, <2>2
<1> QED BY <1>5, <1>7, <1>9, <1>10, <1>12 DEF full

\* A file that has a place behind a path has one behind a shorter path.
LEMMA FitsAbove ==
  ASSUME path \in Seq(Names), NEW e, e.name \in Names, NEW n \in {1, 2},
         IgnoreFileFits(FullPath(e), n)
  PROVE  IgnoreFileFits(path, n)
<1>1. /\ Bytes(path) \in Nat /\ Length[e.name] \in Nat
      /\ Bytes(FullPath(e)) = Bytes(path) + 1 + Length[e.name]
  BY BytesOfPath
<1>2. Length[IgnoreFile[n]] \in Nat /\ PathMax \in Nat
  BY RulesAssumption
<1> QED BY <1>1, <1>2 DEF IgnoreFileFits

LEMMA ContentIs ==
  ASSUME text \in Texts, NEW d \in Dirs, NEW p, NEW n \in {1, 2}
  PROVE  Content(d, p, n) \in Seq(STRING)
<1>1. text[d][n] \in Seq(STRING)
  <2>1. text \in [Dirs -> [{1, 2} -> Seq(STRING)]]
    BY RulesAssumption
  <2> QED BY <2>1
<1>2. <<>> \in Seq(STRING)
  OBVIOUS
<1> QED BY <1>1, <1>2 DEF Content

\* The two outcomes of opening an ignore file.
LEMMA OpenIs ==
  ASSUME text \in Texts, truncated \in BOOLEAN,
         NEW d \in Dirs, NEW p, NEW n \in {1, 2}, Open(d, p, n)
  PROVE  /\ rest' \in Seq(STRING) /\ truncated' \in BOOLEAN
         /\ \/ rest' = Content(d, p, n) /\ truncated' = truncated
            \/ rest' = <<>> /\ truncated' = TRUE
<1>1. Content(d, p, n) \in Seq(STRING)
  BY ContentIs
<1>2. \/ rest' = Content(d, p, n) /\ truncated' = truncated
      \/ rest' = <<>> /\ truncated' = TRUE
  BY DEF Open
<1>3. CASE rest' = Content(d, p, n) /\ truncated' = truncated
  BY <1>1, <1>3
<1>4. CASE rest' = <<>> /\ truncated' = TRUE
  BY <1>4
<1> QED BY <1>2, <1>3, <1>4

\* A directory that is taken is one of the tree.
LEMMA LeadsToDir ==
  ASSUME Typed, IsDir(entry)
  PROVE  entry.to \in Dirs
<1>1. /\ entry.type \in {"dir", "file", "link", "other"}
      /\ entry.to \in Dirs \cup {"file", "other", "none"}
      /\ entry.type = "dir" => entry.to \in Dirs
  BY DEF Typed, RTypeOK, Entry
<1> QED BY <1>1 DEF IsDir, Stat, Target

\* Putting something in front of a sequence.
LEMMA InFront ==
  ASSUME NEW S, NEW s \in Seq(S), NEW x \in S
  PROVE  /\ <<x>> \o s \in Seq(S)
         /\ Len(<<x>> \o s) = Len(s) + 1
         /\ (<<x>> \o s)[1] = x
         /\ \A i \in 2..Len(s) + 1 : (<<x>> \o s)[i] = s[i - 1]
         /\ <<x>> \o s # <<>>
         /\ Head(<<x>> \o s) = x
<1>1. <<x>> \in Seq(S) /\ Len(<<x>>) = 1 /\ <<x>>[1] = x
  OBVIOUS
<1>2. Len(s) \in Nat
  BY LenProperties
<1> DEFINE f == <<x>>
<1> HIDE DEF f
<1>3. /\ f \o s \in Seq(S)
      /\ Len(f \o s) = 1 + Len(s)
      /\ \A i \in 1..1 + Len(s) : (f \o s)[i] = IF i <= 1 THEN f[i] ELSE s[i - 1]
  BY <1>1, ConcatProperties DEF f
<1>4. (f \o s)[1] = x
  <2>1. 1 \in 1..1 + Len(s) /\ 1 <= 1
    BY <1>2
  <2> QED BY <1>1, <1>3, <2>1 DEF f
<1>5. ASSUME NEW i \in 2..Len(s) + 1 PROVE (f \o s)[i] = s[i - 1]
  <2>1. i \in 1..1 + Len(s) /\ ~(i <= 1)
    BY <1>2
  <2> QED BY <1>3, <2>1
<1>6. f \o s # <<>>
  <2>1. Len(f \o s) # 0
    BY <1>2, <1>3
  <2> QED BY <2>1, EmptySeq
<1>7. Head(f \o s) = x
  BY <1>3, <1>4, <1>6
<1> QED BY <1>2, <1>3, <1>4, <1>5, <1>6, <1>7 DEF f

LEMMA TypedStep ==
  ASSUME Typed, [RNext]_rvars
  PROVE  Typed'
<1>0. /\ text \in Texts /\ path \in Seq(Names)
      /\ trail \in Seq(Dirs) /\ trail # <<>>
      /\ chain \in Seq(RuleList) /\ Len(chain) = Len(trail)
      /\ phase \in {"load", "walk", "taken", "skipped", "lost"}
      /\ file \in 1..3 /\ rest \in Seq(STRING) /\ truncated \in BOOLEAN
      /\ entry \in Entry /\ (entry.type = "dir" => entry.to \in Dirs)
      /\ phase = "load" => file \in {1, 2}
      /\ \A i \in DOMAIN chain : Len(chain[i].rules) <= chain[i].capacity
  BY DEF Typed, RTypeOK
<1>1. Head(trail) \in Dirs
  BY <1>0, HeadTailProperties
<1>2. Len(chain) \in Nat \ {0} /\ DOMAIN chain = 1..Len(chain) /\ 1 \in 1..Len(chain)
  <2>1. Len(chain) \in Nat \ {0}
    BY <1>0, EmptySeq
  <2> QED BY <1>0, <2>1, LenProperties
<1>3. CASE ReadLine
  <2>1. PICK list \in RuleList :
          /\ chain' = [chain EXCEPT ![1] = list]
          /\ Len(list.rules) <= list.capacity
          /\ \/ /\ rest' = SubSeq(rest, LineLength(rest) + 1, Len(rest))
                /\ truncated' = truncated
             \/ /\ rest' = <<>>
                /\ truncated' = TRUE
    BY <1>3, ReadLineIs
  <2>2. /\ chain' \in Seq(RuleList) /\ Len(chain') = Len(chain)
        /\ DOMAIN chain' = 1..Len(chain)
        /\ chain'[1] = list /\ \A i \in 2..Len(chain) : chain'[i] = chain[i]
    <3>1. chain' \in Seq(RuleList) /\ Len(chain') = Len(chain)
      BY <1>0, <1>2, <2>1, ExceptSeq
    <3> QED BY <1>2, <2>1, <3>1, LenProperties
  <2>3. \A i \in DOMAIN chain' : Len(chain'[i].rules) <= chain'[i].capacity
    <3>1. \A i \in 1..Len(chain) : i = 1 \/ i \in 2..Len(chain)
      BY <1>2
    <3> QED BY <1>0, <1>2, <2>1, <2>2, <3>1
  <2>4. rest' \in Seq(STRING)
    <3>1. CASE rest' = <<>>
      BY <3>1
    <3>2. CASE rest' = SubSeq(rest, LineLength(rest) + 1, Len(rest))
      <4>1. rest # <<>> /\ Len(rest) \in Nat
        BY <1>0, <1>3, LenProperties DEF ReadLine
      <4>2. LineLength(rest) + 1 \in 1..Len(rest) + 1 /\ Len(rest) \in 0..Len(rest)
        BY <1>0, <4>1, LineTaken
      <4> QED BY <1>0, <3>2, <4>2, Cutting
    <3> QED BY <2>1, <3>1, <3>2
  <2>5. UNCHANGED <<text, path, trail, phase, file, entry>>
    BY <1>3 DEF ReadLine, disk, place
  <2>6. truncated' \in BOOLEAN
    BY <1>0, <2>1
  <2> QED BY <1>0, <2>2, <2>3, <2>4, <2>5, <2>6 DEF Typed, RTypeOK
<1>4. CASE EndOfFile
  <2>1. UNCHANGED <<text, path, trail, chain, entry>>
    BY <1>4 DEF EndOfFile, disk, place
  <2>2. /\ file' \in 1..3 /\ phase' \in {"load", "walk", "taken", "skipped", "lost"}
        /\ phase' = "load" => file' \in {1, 2}
    BY <1>0, <1>4 DEF EndOfFile
  <2>3. rest' \in Seq(STRING) /\ truncated' \in BOOLEAN
    <3>1. CASE Open(Head(trail), path, 2)
      BY <1>0, <1>1, <3>1, OpenIs
    <3>2. CASE UNCHANGED <<rest, truncated>>
      BY <1>0, <3>2
    <3> QED BY <1>4, <3>1, <3>2 DEF EndOfFile
  <2> QED BY <1>0, <2>1, <2>2, <2>3 DEF Typed, RTypeOK
<1>5. CASE ReadEntry
  <2>1. UNCHANGED <<text, path, trail, chain, truncated, file, rest>>
    BY <1>5 DEF ReadEntry, disk, place, reading
  <2>2. PICK e \in Entries[Head(trail)] :
          entry' = e /\ phase' \in {"taken", "skipped", "lost"}
    BY <1>5 DEF ReadEntry
  <2>3. entry' \in Entry /\ (entry'.type = "dir" => entry'.to \in Dirs)
    BY <1>1, <2>2, RulesAssumption
  <2> QED BY <1>0, <2>1, <2>2, <2>3 DEF Typed, RTypeOK
<1>6. CASE Descend
  <2>1. UNCHANGED <<text, entry>>
    BY <1>6 DEF Descend, disk
  <2>2. entry.to \in Dirs
    BY <1>6, LeadsToDir DEF Descend
  <2>3. path' \in Seq(Names)
    BY <1>0, <1>6, PathIs DEF Descend, Entry
  <2>4. /\ trail' \in Seq(Dirs) /\ trail' # <<>> /\ Len(trail') = Len(trail) + 1
    BY <1>0, <1>6, <2>2, InFront DEF Descend
  <2>5. NewList \in RuleList /\ Len(NewList.rules) <= NewList.capacity
    BY DEF NewList, RuleList
  <2>6. /\ chain' \in Seq(RuleList) /\ Len(chain') = Len(chain) + 1
        /\ chain'[1] = NewList /\ \A i \in 2..Len(chain) + 1 : chain'[i] = chain[i - 1]
    BY <1>0, <1>6, <2>5, InFront DEF Descend
  <2>7. \A i \in DOMAIN chain' : Len(chain'[i].rules) <= chain'[i].capacity
    <3>1. DOMAIN chain' = 1..Len(chain) + 1
      BY <2>6, LenProperties
    <3>2. ASSUME NEW i \in 1..Len(chain) + 1
          PROVE  Len(chain'[i].rules) <= chain'[i].capacity
      <4>1. CASE i = 1
        BY <2>5, <2>6, <4>1
      <4>2. CASE i # 1
        <5>1. i \in 2..Len(chain) + 1 /\ i - 1 \in DOMAIN chain
          BY <1>2, <4>2
        <5> QED BY <1>0, <2>6, <5>1
      <4> QED BY <4>1, <4>2
    <3> QED BY <3>1, <3>2
  <2>8. file' \in {1, 2} /\ phase' \in {"load", "walk", "taken", "skipped", "lost"}
    BY <1>6 DEF Descend
  <2>9. rest' \in Seq(STRING) /\ truncated' \in BOOLEAN
    <3>1. Open(entry.to, path', 1)
      BY <1>6 DEF Descend
    <3> QED BY <1>0, <2>2, <3>1, OpenIs
  <2> QED BY <1>0, <2>1, <2>2, <2>3, <2>4, <2>6, <2>7, <2>8, <2>9 DEF Typed, RTypeOK
<1>7. CASE UNCHANGED rvars
  <2>1. UNCHANGED <<text, path, trail, chain, phase, file, rest, truncated, entry>>
    BY <1>7 DEF rvars, disk, place, reading
  <2> QED BY <1>0, <2>1 DEF Typed, RTypeOK
<1> QED BY <1>3, <1>4, <1>5, <1>6, <1>7 DEF RNext

LEMMA TypedInit ==
  ASSUME RInit
  PROVE  Typed
<1>1. Root \in Dirs /\ "." \in Names
  BY RulesAssumption DEF Names
<1>2. path \in Seq(Names) /\ trail \in Seq(Dirs) /\ trail # <<>> /\ Len(trail) = 1
  BY <1>1 DEF RInit
<1>3. NewList \in RuleList /\ NewList.rules = <<>> /\ NewList.capacity = 0
  BY DEF NewList, RuleList
<1>4. chain \in Seq(RuleList) /\ Len(chain) = 1 /\ DOMAIN chain = {1} /\ chain[1] = NewList
  BY <1>3 DEF RInit
<1>5. rest \in Seq(STRING) /\ truncated \in BOOLEAN
  <2>1. text \in Texts
    BY DEF RInit
  <2>2. Content(Root, path, 1) \in Seq(STRING)
    BY <1>1, <2>1, ContentIs
  <2>3. CASE rest = Content(Root, path, 1) /\ truncated = FALSE
    BY <2>2, <2>3
  <2>4. CASE rest = <<>> /\ truncated = TRUE
    BY <2>4
  <2> QED BY <2>3, <2>4 DEF RInit
<1>6. entry \in Entry /\ entry.to \in Dirs
  BY <1>1 DEF RInit, Entry
<1>7. \A i \in DOMAIN chain : Len(chain[i].rules) <= chain[i].capacity
  BY <1>3, <1>4
<1>8. /\ text \in Texts
      /\ phase = "load" /\ file = 1
  BY DEF RInit
<1>9. phase \in {"load", "walk", "taken", "skipped", "lost"} /\ file \in 1..3 /\ file \in {1, 2}
  BY <1>8
<1>10. Len(chain) = Len(trail) /\ truncated \in BOOLEAN
  BY <1>2, <1>4, <1>5
<1>11. text \in Texts
  BY <1>8
<1>12. RTypeOK
  BY <1>2, <1>4, <1>5, <1>6, <1>7, <1>9, <1>10, <1>11 DEF RTypeOK
<1> QED BY <1>6, <1>9, <1>12 DEF Typed

-----------------------------------------------------------------------------
(* Entries that were filtered.                                             *)

\* What became of the last entry is what the filter says of it, as long as the
\* walk is at that entry.
Filtered == phase \in {"taken", "skipped"} => (phase = "taken" <=> ~Skips(entry))

LEMMA SameFilter ==
  ASSUME NEW e, entry' = e, UNCHANGED <<path, chain, no_ignore, hidden, follow_links, d_type>>
  PROVE  Skips(entry)' <=> Skips(e)
<1>1. (IsDir(entry)' <=> IsDir(e)) /\ (IsFile(entry)' <=> IsFile(e))
  BY DEF IsDir, IsFile, NeedStat, Stat, Target
<1>2. FullPath(entry)' = FullPath(e) /\ (TooLong(entry)' <=> TooLong(e))
  BY DEF FullPath, TooLong
<1>3. IsDir(entry)' = IsDir(e)
  BY <1>1 DEF IsDir
<1>4. /\ greg_is_default_ignored(entry.name, IsDir(entry))'
           <=> greg_is_default_ignored(e.name, IsDir(e))
      /\ greg_is_default_ignored(Last(FullPath(entry)), IsDir(entry))'
           <=> greg_is_default_ignored(Last(FullPath(e)), IsDir(e))
  BY <1>2, <1>3 DEF greg_is_default_ignored
<1>5. greg_ignore_node_should_ignore(FullPath(entry), IsDir(entry))'
        <=> greg_ignore_node_should_ignore(FullPath(e), IsDir(e))
  BY <1>2, <1>3, <1>4 DEF greg_ignore_node_should_ignore, greg_is_default_ignored
<1> QED BY <1>1, <1>2, <1>4, <1>5 DEF Skips

LEMMA FilteredStep ==
  ASSUME Filtered, [RNext]_rvars
  PROVE  Filtered'
<1>1. CASE ReadLine
  BY <1>1 DEF ReadLine, Filtered
<1>2. CASE EndOfFile
  BY <1>2 DEF EndOfFile, Filtered
<1>3. CASE ReadEntry
  <2>1. PICK e : /\ entry' = e
                 /\ \/ phase' = IF Skips(e) THEN "skipped" ELSE "taken"
                    \/ phase' = "lost"
    BY <1>3 DEF ReadEntry
  <2>2. Skips(entry)' <=> Skips(e)
    BY <1>3, <2>1, SameFilter DEF ReadEntry, disk, place
  <2> QED BY <2>1, <2>2 DEF Filtered
<1>4. CASE Descend
  BY <1>4 DEF Descend, Filtered
<1>5. CASE UNCHANGED rvars
  <2>1. entry' = entry /\ phase' = phase
    BY <1>5 DEF rvars
  <2>2. Skips(entry)' <=> Skips(entry)
    BY <1>5, <2>1, SameFilter DEF rvars, disk, place
  <2> QED BY <2>1, <2>2 DEF Filtered
<1> QED BY <1>1, <1>2, <1>3, <1>4, <1>5 DEF RNext

LEMMA PathsFitStep ==
  ASSUME Typed, Typed', PathsFit, Filtered', [RNext]_rvars
  PROVE  PathsFit'
<1>0. path \in Seq(Names) /\ entry' \in Entry /\ entry \in Entry
  BY DEF Typed, RTypeOK
<1>1. ASSUME path' = path, phase' # "taken" PROVE PathsFit'
  BY <1>1 DEF PathsFit
<1>2. CASE ReadLine
  BY <1>1, <1>2 DEF ReadLine, place
<1>3. CASE EndOfFile
  BY <1>1, <1>3 DEF EndOfFile, place
<1>4. CASE ReadEntry
  <2>1. path' = path
    BY <1>4 DEF ReadEntry, place
  <2>2. ASSUME phase' = "taken" PROVE Bytes(FullPath(entry)') + 1 <= PathMax
    <3>1. entry'.name \in Names
      BY <1>0 DEF Entry
    <3>2. /\ Bytes(path) \in Nat /\ Length[entry'.name] \in Nat
          /\ Bytes(FullPath(entry')) = Bytes(path) + 1 + Length[entry'.name]
      BY <1>0, <3>1, BytesOfPath
    <3>3. ~(Bytes(path) + 1 + Length[entry'.name] + 1 > PathMax)
      <4>1. ~TooLong(entry)'
        BY <2>2 DEF Filtered, Skips
      <4> QED BY <2>1, <4>1 DEF TooLong
    <3>4. FullPath(entry)' = FullPath(entry')
      BY <2>1 DEF FullPath
    <3>5. PathMax \in Nat
      BY RulesAssumption
    <3> QED BY <3>2, <3>3, <3>4, <3>5
  <2> QED BY <2>1, <2>2 DEF PathsFit
<1>5. CASE Descend
  BY <1>5 DEF Descend, PathsFit
<1>6. CASE UNCHANGED rvars
  BY <1>6 DEF rvars, place, PathsFit, FullPath
<1> QED BY <1>2, <1>3, <1>4, <1>5, <1>6 DEF RNext

-----------------------------------------------------------------------------
(* The rules that are read.                                                *)

\* A file was read as far as left, which gave the rules in got; cut tells that
\* it may not have been read to its end.
Underway(got, t, left, cut) ==
  \/ /\ left = <<>> /\ cut
     /\ \E i \in 0..Len(Written(t)) : got = SubSeq(Written(t), 1, i)
  \/ \E a \in 1..Len(t) + 1 :
       left = SubSeq(t, a, Len(t)) /\ Written(t) = got \o WrittenFrom(t)[a]

\* The rules are those of a file up to some rule, the last one if it was read to
\* its end.
Part(got, t, cut) ==
  \E i \in 0..Len(Written(t)) :
    /\ got = SubSeq(Written(t), 1, i)
    /\ ~cut => i = Len(Written(t))

LEMMA WrittenIsRules ==
  ASSUME NEW t \in Seq(STRING)
  PROVE  Written(t) \in Seq(Rule) /\ Len(Written(t)) \in Nat
<1>1. 1 \in 1..Len(t) + 2
  BY LenProperties
<1>2. Written(t) \in Seq(Rule)
  BY <1>1, WrittenRules DEF Written
<1> QED BY <1>2, LenProperties

LEMMA UnderwayAtStart ==
  ASSUME NEW t \in Seq(STRING), NEW cut
  PROVE  Underway(<<>>, t, t, cut)
<1>1. 1 \in 1..Len(t) + 1
  BY LenProperties
<1>2. t = SubSeq(t, 1, Len(t))
  BY SubSeqFull
<1>3. Written(t) = <<>> \o WrittenFrom(t)[1]
  BY WrittenIsRules, ConcatEmptySeq DEF Written
<1> QED BY <1>1, <1>2, <1>3 DEF Underway

\* What is read first is a prefix of what is written.
LEMMA PrefixOf ==
  ASSUME NEW w \in Seq(Rule), NEW got \in Seq(Rule), NEW more \in Seq(Rule), w = got \o more
  PROVE  Len(got) \in 0..Len(w) /\ got = SubSeq(w, 1, Len(got))
<1>1. Len(got) \in Nat /\ Len(more) \in Nat /\ Len(w) = Len(got) + Len(more)
  BY LenProperties, ConcatProperties
<1>2. \A i \in 1..Len(got) : w[i] = got[i]
  <2>1. ASSUME NEW i \in 1..Len(got) PROVE w[i] = got[i]
    <3>1. i \in 1..Len(got) + Len(more) /\ i <= Len(got)
      BY <1>1
    <3> QED BY <3>1, ConcatProperties
  <2> QED BY <2>1
<1>3. \A i \in 1..Len(got) : w[i] \in Rule
  BY <1>2, ElementOfSeq
<1>4. /\ SubSeq(w, 1, Len(got)) \in Seq(Rule)
      /\ Len(SubSeq(w, 1, Len(got))) = Len(got)
      /\ \A i \in 1..Len(got) : SubSeq(w, 1, Len(got))[i] = w[i]
  <2>1. /\ SubSeq(w, 1, Len(got)) \in Seq(Rule)
        /\ Len(SubSeq(w, 1, Len(got))) = IF 1 <= Len(got) THEN Len(got) - 1 + 1 ELSE 0
        /\ \A i \in 1..Len(got) - 1 + 1 : SubSeq(w, 1, Len(got))[i] = w[1 + i - 1]
    BY <1>1, <1>3, SubSeqProperties
  <2>2. Len(got) - 1 + 1 = Len(got) /\ \A i \in 1..Len(got) : 1 + i - 1 = i
    BY <1>1
  <2> QED BY <1>1, <2>1, <2>2
<1>5. got = SubSeq(w, 1, Len(got))
  BY <1>2, <1>4, SeqEqual
<1> QED BY <1>1, <1>5

\* Appending to a second part is appending to the whole.
Joined(a, b, c) == b \o c \in Seq(Rule) /\ (a \o b) \o c = a \o (b \o c)

LEMMA RulesJoin ==
  ASSUME NEW a \in Seq(Rule), NEW b \in Seq(Rule), NEW c \in Seq(Rule)
  PROVE  Joined(a, b, c)
<1>1. b \o c \in Seq(Rule)
  BY ConcatProperties
<1>2. (a \o b) \o c = a \o (b \o c)
  BY ConcatAssociative
<1> QED BY <1>1, <1>2 DEF Joined

\* A line was read and its rule, if it has one, put behind the others.
LEMMA UnderwayOn ==
  ASSUME NEW t \in Seq(STRING), FitsBuffer(t), NEW got \in Seq(Rule), NEW left, left # <<>>,
         NEW cut, Underway(got, t, left, cut)
  PROVE  Underway(got \o Parse(SubSeq(left, 1, LineLength(left))), t,
                  SubSeq(left, LineLength(left) + 1, Len(left)), cut)
<1>1. PICK a \in 1..Len(t) + 1 :
        left = SubSeq(t, a, Len(t)) /\ Written(t) = got \o WrittenFrom(t)[a]
  BY DEF Underway
<1>2. Len(t) \in Nat
  BY LenProperties
<1>3. a \in 1..Len(t)
  <2>1. ASSUME a = Len(t) + 1 PROVE FALSE
    <3>1. left = <<>>
      BY <1>1, <1>2, <2>1, SubSeqEmpty
    <3> QED BY <3>1
  <2> QED BY <1>1, <1>2, <2>1
<1> DEFINE n == LineLength(left)
           b == a + n
           rule == Parse(SubSeq(left, 1, n))
           later == SubSeq(left, n + 1, Len(left))
           remaining == WrittenFrom(t)[b]
<1> HIDE DEF rule, later, remaining, b, n
<1>4. /\ n \in 1..Len(left) /\ b \in 1..Len(t) + 1
      /\ later = SubSeq(t, b, Len(t))
      /\ WrittenFrom(t)[a] = rule \o remaining
  <2>1. LineRead(t, a, left, n, b)
    BY <1>1 DEF b, n, LineRead
  <2>2. n \in Nat /\ b \in Nat
    <3>1. left \in Seq(STRING) /\ Len(left) \in Nat
      BY <1>1, Suffix, LenProperties
    <3>2. n \in 1..Len(left)
      BY <3>1, LineTaken DEF n
    <3> QED BY <1>2, <1>3, <3>1, <3>2 DEF b
  <2>3. /\ n \in 1..Len(left) /\ b \in 1..Len(t) + 1
        /\ SubSeq(left, n + 1, Len(left)) = SubSeq(t, b, Len(t))
        /\ FirstRule(t, a, Parse(SubSeq(left, 1, n)), b)
    <3>1. OneLineOn(t, a, left, n, b)
      BY <1>3, <2>1, <2>2, ReadsOn
    <3> QED BY <3>1 DEF OneLineOn
  <2> QED BY <2>3 DEF FirstRule, rule, later, remaining
<1>5. left \in Seq(STRING) /\ Len(left) \in Nat
  BY <1>1, Suffix, LenProperties
<1>6. rule \in Seq(Rule)
  <2>1. 1 \in 1..Len(left) + 1 /\ n \in 0..Len(left)
    BY <1>4, <1>5
  <2>2. SubSeq(left, 1, n) \in Seq(STRING)
    BY <1>5, <2>1, Cutting
  <2> QED BY <2>2, ParsedLine DEF rule
<1>7. remaining \in Seq(Rule)
  <2>1. b \in 1..Len(t) + 2
    BY <1>2, <1>4
  <2> QED BY <2>1, WrittenRules DEF remaining
<1>8. later = SubSeq(t, b, Len(t)) /\ Written(t) = got \o (rule \o remaining)
  BY <1>1, <1>4
<1>9. (got \o rule) \o remaining = got \o (rule \o remaining)
  <2>1. Joined(got, rule, remaining)
    BY <1>6, <1>7, RulesJoin
  <2> QED BY <2>1 DEF Joined
<1>10. Underway(got \o rule, t, later, cut)
  <2>1. Written(t) = (got \o rule) \o WrittenFrom(t)[b]
    BY <1>8, <1>9 DEF remaining
  <2> QED BY <1>4, <1>8, <2>1 DEF Underway
<1> QED BY <1>10 DEF rule, later, n

\* What follows is left out.
LEMMA UnderwayCut ==
  ASSUME NEW t \in Seq(STRING), NEW got \in Seq(Rule), NEW left, NEW cut,
         Underway(got, t, left, cut)
  PROVE  Underway(got, t, <<>>, TRUE)
<1>1. CASE \E i \in 0..Len(Written(t)) : got = SubSeq(Written(t), 1, i)
  BY <1>1 DEF Underway
<1>2. ASSUME NEW a \in 1..Len(t) + 1, Written(t) = got \o WrittenFrom(t)[a]
      PROVE  Underway(got, t, <<>>, TRUE)
  <2>1. a \in 1..Len(t) + 2
    BY LenProperties
  <2>2. WrittenFrom(t)[a] \in Seq(Rule) /\ Written(t) \in Seq(Rule)
    BY <2>1, WrittenRules, WrittenIsRules
  <2>3. Len(got) \in 0..Len(Written(t)) /\ got = SubSeq(Written(t), 1, Len(got))
    BY <1>2, <2>2, PrefixOf
  <2> QED BY <1>1, <2>3
<1> QED BY <1>1, <1>2 DEF Underway

\* The end of the file was reached.
LEMMA UnderwayEnds ==
  ASSUME NEW t \in Seq(STRING), NEW got \in Seq(Rule), NEW cut,
         Underway(got, t, <<>>, cut)
  PROVE  Part(got, t, cut)
<1>1. CASE cut /\ \E i \in 0..Len(Written(t)) : got = SubSeq(Written(t), 1, i)
  BY <1>1 DEF Part
<1>2. ASSUME NEW a \in 1..Len(t) + 1, <<>> = SubSeq(t, a, Len(t)),
             Written(t) = got \o WrittenFrom(t)[a]
      PROVE  Part(got, t, cut)
  <2>1. Len(t) \in Nat
    BY LenProperties
  <2>2. a = Len(t) + 1
    <3>1. Len(SubSeq(t, a, Len(t))) = Len(t) - a + 1
      BY Suffix
    <3>2. Len(t) - a + 1 = 0
      BY <1>2, <3>1, EmptySeq
    <3> QED BY <2>1, <3>2
  <2>3. WrittenFrom(t)[a] = <<>>
    <3>1. a \in 1..Len(t) + 2 /\ a > Len(t)
      BY <2>1, <2>2
    <3> QED BY <3>1, WrittenRows DEF Row
  <2>4. Written(t) = got
    BY <1>2, <2>3, ConcatEmptySeq
  <2>5. got = SubSeq(Written(t), 1, Len(Written(t))) /\ Len(Written(t)) \in 0..Len(Written(t))
    BY <2>4, WrittenIsRules, SubSeqFull
  <2> QED BY <2>5 DEF Part
<1> QED BY <1>1, <1>2 DEF Underway

\* The rules are parts of those of the two files, one after the other.
InOrder(rules, t1, t2, cut) ==
  \E one, two \in Seq(Rule) : rules = one \o two /\ Part(one, t1, cut) /\ Part(two, t2, cut)

\* So far the rules are those read from the first file, or a part of those of
\* the first and those read from the second.
ReadSoFar(rules, t1, t2, f, left, cut) ==
  \/ f = 1 /\ Underway(rules, t1, left, cut)
  \/ /\ f = 2
     /\ \E one, two \in Seq(Rule) :
          rules = one \o two /\ Part(one, t1, cut) /\ Underway(two, t2, left, cut)

LEMMA ReadSoFarOn ==
  ASSUME NEW t1 \in Seq(STRING), FitsBuffer(t1), NEW t2 \in Seq(STRING), FitsBuffer(t2),
         NEW rules \in Seq(Rule), NEW f, NEW left \in Seq(STRING), left # <<>>, NEW cut,
         ReadSoFar(rules, t1, t2, f, left, cut)
  PROVE  ReadSoFar(rules \o Parse(SubSeq(left, 1, LineLength(left))), t1, t2, f,
                   SubSeq(left, LineLength(left) + 1, Len(left)), cut)
<1> DEFINE rule == Parse(SubSeq(left, 1, LineLength(left)))
           later == SubSeq(left, LineLength(left) + 1, Len(left))
<1>1. rule \in Seq(Rule)
  <2>1. Len(left) \in Nat /\ LineLength(left) \in 1..Len(left)
    BY LineTaken, LenProperties
  <2>2. 1 \in 1..Len(left) + 1 /\ LineLength(left) \in 0..Len(left)
    BY <2>1
  <2>3. SubSeq(left, 1, LineLength(left)) \in Seq(STRING)
    BY <2>2, Cutting
  <2> QED BY <2>3, ParsedLine
<1>2. CASE f = 1 /\ Underway(rules, t1, left, cut)
  <2>1. Underway(rules \o rule, t1, later, cut)
    BY <1>2, UnderwayOn
  <2> HIDE DEF rule, later
  <2>2. ReadSoFar(rules \o rule, t1, t2, f, later, cut)
    BY <1>2, <2>1 DEF ReadSoFar
  <2> QED BY <2>2 DEF rule, later
<1>3. ASSUME f = 2,
             NEW one \in Seq(Rule), NEW two \in Seq(Rule),
             rules = one \o two, Part(one, t1, cut), Underway(two, t2, left, cut)
      PROVE  ReadSoFar(rules \o rule, t1, t2, f, later, cut)
  <2>1. Underway(two \o rule, t2, later, cut)
    BY <1>3, UnderwayOn
  <2> HIDE DEF rule, later
  <2>2. (one \o two) \o rule = one \o (two \o rule) /\ two \o rule \in Seq(Rule)
    <3>1. Joined(one, two, rule)
      BY <1>1, RulesJoin
    <3> QED BY <3>1 DEF Joined
  <2> QED BY <1>3, <2>1, <2>2 DEF ReadSoFar
<1> QED BY <1>2, <1>3 DEF ReadSoFar

LEMMA ReadSoFarCut ==
  ASSUME NEW t1 \in Seq(STRING), NEW t2 \in Seq(STRING), NEW rules \in Seq(Rule),
         NEW f, NEW left, NEW cut, ReadSoFar(rules, t1, t2, f, left, cut)
  PROVE  ReadSoFar(rules, t1, t2, f, <<>>, TRUE)
<1>1. CASE f = 1 /\ Underway(rules, t1, left, cut)
  BY <1>1, UnderwayCut DEF ReadSoFar
<1>2. ASSUME f = 2,
             NEW one \in Seq(Rule), NEW two \in Seq(Rule),
             rules = one \o two, Part(one, t1, cut), Underway(two, t2, left, cut)
      PROVE  ReadSoFar(rules, t1, t2, f, <<>>, TRUE)
  <2>1. Underway(two, t2, <<>>, TRUE)
    BY <1>2, UnderwayCut
  <2>2. Part(one, t1, TRUE)
    BY <1>2 DEF Part
  <2> QED BY <1>2, <2>1, <2>2 DEF ReadSoFar
<1> QED BY <1>1, <1>2 DEF ReadSoFar

LEMMA ReadSoFarTurns ==
  ASSUME NEW t1 \in Seq(STRING), NEW t2 \in Seq(STRING), NEW rules \in Seq(Rule), NEW cut,
         ReadSoFar(rules, t1, t2, 1, <<>>, cut)
  PROVE  ReadSoFar(rules, t1, t2, 2, t2, cut)
<1>1. Part(rules, t1, cut)
  <2>1. Underway(rules, t1, <<>>, cut)
    BY DEF ReadSoFar
  <2> QED BY <2>1, UnderwayEnds
<1>2. Underway(<<>>, t2, t2, cut)
  BY UnderwayAtStart
<1>3. rules = rules \o <<>> /\ <<>> \in Seq(Rule)
  BY ConcatEmptySeq
<1> QED BY <1>1, <1>2, <1>3 DEF ReadSoFar

LEMMA ReadSoFarEnds ==
  ASSUME NEW t1 \in Seq(STRING), NEW t2 \in Seq(STRING), NEW rules \in Seq(Rule), NEW cut,
         ReadSoFar(rules, t1, t2, 2, <<>>, cut)
  PROVE  InOrder(rules, t1, t2, cut)
<1>1. PICK one \in Seq(Rule), two \in Seq(Rule) :
        rules = one \o two /\ Part(one, t1, cut) /\ Underway(two, t2, <<>>, cut)
  BY DEF ReadSoFar
<1>2. Part(two, t2, cut)
  BY <1>1, UnderwayEnds
<1> QED BY <1>1, <1>2 DEF InOrder

\* Without a refusal the rules are all that is written.
LEMMA AllInOrder ==
  ASSUME NEW t1 \in Seq(STRING), NEW t2 \in Seq(STRING), NEW rules,
         InOrder(rules, t1, t2, FALSE)
  PROVE  rules = Written(t1) \o Written(t2)
<1>1. PICK one \in Seq(Rule), two \in Seq(Rule) :
        rules = one \o two /\ Part(one, t1, FALSE) /\ Part(two, t2, FALSE)
  BY DEF InOrder
<1>2. one = SubSeq(Written(t1), 1, Len(Written(t1)))
  BY <1>1 DEF Part
<1>3. two = SubSeq(Written(t2), 1, Len(Written(t2)))
  BY <1>1 DEF Part
<1>4. one = Written(t1) /\ two = Written(t2)
  BY <1>2, <1>3, WrittenIsRules, SubSeqFull
<1> QED BY <1>1, <1>4

-----------------------------------------------------------------------------
(* The chain of rules.                                                     *)

\* What is read of an ignore file of the directory being walked.
Text(n) == Content(Head(trail), path, n)

\* The directory being walked: its rules are in order, as far as they are read.
Ordered ==
  FitsBuffer(Text(1)) /\ FitsBuffer(Text(2)) =>
    /\ phase = "load" =>
         ReadSoFar(chain[1].rules, Text(1), Text(2), file, rest, truncated)
    /\ phase # "load" => InOrder(chain[1].rules, Text(1), Text(2), truncated)

\* The directories above it, which were read to the end.
Fits == IgnoreFileFits(path, 1) /\ IgnoreFileFits(path, 2)

Above ==
  ~truncated /\ Fits =>
    \A k \in 2..Len(chain) :
      FitsBuffer(text[trail[k]][1]) /\ FitsBuffer(text[trail[k]][2]) =>
        chain[k].rules = WrittenIn(k)

LEMMA TextIs ==
  ASSUME Typed
  PROVE  /\ Text(1) \in Seq(STRING) /\ Text(2) \in Seq(STRING)
         /\ chain[1].rules \in Seq(Rule)
         /\ rest \in Seq(STRING)
<1>1. Head(trail) \in Dirs
  BY HeadTailProperties DEF Typed, RTypeOK
<1>2. Text(1) \in Seq(STRING) /\ Text(2) \in Seq(STRING)
  BY <1>1, ContentIs DEF Text, Typed, RTypeOK
<1>3. chain[1] \in RuleList
  <2>1. chain \in Seq(RuleList) /\ Len(chain) = Len(trail) /\ trail \in Seq(Dirs) /\ trail # <<>>
    BY DEF Typed, RTypeOK
  <2>2. 1 \in 1..Len(chain)
    BY <2>1, EmptySeq
  <2> QED BY <2>1, <2>2, ElementOfSeq
<1>4. rest \in Seq(STRING)
  BY DEF Typed, RTypeOK
<1> QED BY <1>2, <1>3, <1>4 DEF RuleList

LEMMA OrderedStep ==
  ASSUME Typed, Ordered, [RNext]_rvars
  PROVE  Ordered'
<1> DEFINE t1 == Text(1)
           t2 == Text(2)
           rules == chain[1].rules
<1>0. t1 \in Seq(STRING) /\ t2 \in Seq(STRING) /\ rules \in Seq(Rule) /\ rest \in Seq(STRING)
  BY TextIs
<1>1. ASSUME UNCHANGED <<text, path, trail>>
      PROVE  Text(1)' = t1 /\ Text(2)' = t2
  BY <1>1 DEF Text, Content
<1>2. CASE ReadLine
  <2>1. UNCHANGED <<text, path, trail, file>> /\ phase = "load" /\ phase' = "load"
    BY <1>2 DEF ReadLine, disk, place
  <2>2. Text(1)' = t1 /\ Text(2)' = t2
    BY <1>1, <2>1
  <2>3. PICK list \in RuleList :
          /\ chain' = [chain EXCEPT ![1] = list]
          /\ \/ /\ list.rules = rules \o Parse(SubSeq(rest, 1, LineLength(rest)))
                /\ rest' = SubSeq(rest, LineLength(rest) + 1, Len(rest))
                /\ truncated' = truncated
             \/ /\ list.rules = rules
                /\ rest' = <<>>
                /\ truncated' = TRUE
    BY <1>2, ReadLineIs
  <2>4. chain'[1] = list /\ rest # <<>>
    <3>1. chain # <<>> /\ rest # <<>>
      BY <1>2, ReadLineIs
    <3>2. 1 \in DOMAIN chain
      <4>1. chain \in Seq(RuleList)
        BY DEF Typed, RTypeOK
      <4>2. Len(chain) \in Nat \ {0} /\ DOMAIN chain = 1..Len(chain)
        BY <3>1, <4>1, EmptySeq, LenProperties
      <4> QED BY <4>2
    <3> QED BY <2>3, <3>1, <3>2
  <2>5. ASSUME FitsBuffer(t1), FitsBuffer(t2)
        PROVE  ReadSoFar(list.rules, t1, t2, file, rest', truncated')
    <3>1. ReadSoFar(rules, t1, t2, file, rest, truncated)
      BY <2>1, <2>5 DEF Ordered
    <3> HIDE DEF t1, t2, rules
    <3>2. CASE /\ list.rules = rules \o Parse(SubSeq(rest, 1, LineLength(rest)))
               /\ rest' = SubSeq(rest, LineLength(rest) + 1, Len(rest))
               /\ truncated' = truncated
      <4>1. ReadSoFar(rules \o Parse(SubSeq(rest, 1, LineLength(rest))), t1, t2, file,
                      SubSeq(rest, LineLength(rest) + 1, Len(rest)), truncated)
        BY <1>0, <2>4, <2>5, <3>1, ReadSoFarOn
      <4> QED BY <3>2, <4>1
    <3>3. CASE list.rules = rules /\ rest' = <<>> /\ truncated' = TRUE
      <4>1. ReadSoFar(rules, t1, t2, file, <<>>, TRUE)
        BY <1>0, <3>1, ReadSoFarCut
      <4> QED BY <3>3, <4>1
    <3> QED BY <2>3, <3>2, <3>3
  <2> HIDE DEF t1, t2
  <2> QED BY <2>1, <2>2, <2>4, <2>5 DEF Ordered
<1>3. CASE EndOfFile
  <2>1. /\ UNCHANGED <<text, path, trail, chain>>
        /\ phase = "load" /\ rest = <<>> /\ file' = file + 1
        /\ \/ /\ file = 1 /\ phase' = "load"
              /\ \/ rest' = t2 /\ truncated' = truncated
                 \/ rest' = <<>> /\ truncated' = TRUE
           \/ file # 1 /\ phase' = "walk" /\ truncated' = truncated
    BY <1>3 DEF EndOfFile, Open, disk, place, Text
  <2>2. Text(1)' = t1 /\ Text(2)' = t2
    BY <1>1, <2>1
  <2>3. file \in {1, 2}
    BY <2>1 DEF Typed
  <2>4. ASSUME FitsBuffer(t1), FitsBuffer(t2)
        PROVE  ReadSoFar(rules, t1, t2, file, <<>>, truncated)
    BY <2>1, <2>4 DEF Ordered
  <2> HIDE DEF t1, t2, rules
  <2>5. ASSUME FitsBuffer(t1), FitsBuffer(t2), phase' = "load"
        PROVE  ReadSoFar(rules, t1, t2, file', rest', truncated')
    <3>1. /\ file = 1 /\ file' = 2
          /\ \/ rest' = t2 /\ truncated' = truncated
             \/ rest' = <<>> /\ truncated' = TRUE
      BY <2>1, <2>5
    <3>2. ReadSoFar(rules, t1, t2, 2, t2, truncated)
      BY <1>0, <2>4, <2>5, <3>1, ReadSoFarTurns
    <3>3. ReadSoFar(rules, t1, t2, 2, <<>>, TRUE)
      BY <1>0, <3>2, ReadSoFarCut
    <3>4. CASE rest' = t2 /\ truncated' = truncated
      BY <3>1, <3>2, <3>4
    <3>5. CASE rest' = <<>> /\ truncated' = TRUE
      BY <3>1, <3>3, <3>5
    <3> QED BY <3>1, <3>4, <3>5
  <2>6. ASSUME FitsBuffer(t1), FitsBuffer(t2), phase' # "load"
        PROVE  InOrder(rules, t1, t2, truncated')
    <3>1. file = 2 /\ truncated' = truncated
      BY <2>1, <2>3, <2>6
    <3> QED BY <1>0, <2>4, <2>6, <3>1, ReadSoFarEnds
  <2> QED BY <2>1, <2>2, <2>5, <2>6 DEF Ordered, rules
<1>4. CASE ReadEntry
  <2>1. /\ UNCHANGED <<text, path, trail, chain, truncated>>
        /\ phase # "load" /\ phase' # "load"
    BY <1>4 DEF ReadEntry, disk, place
  <2>2. Text(1)' = t1 /\ Text(2)' = t2
    BY <1>1, <2>1
  <2> QED BY <2>1, <2>2 DEF Ordered
<1>5. CASE Descend
  <2>1. /\ phase' = "load" /\ file' = 1 /\ chain'[1] = NewList
        /\ rest' = Text(1)' \/ (rest' = <<>> /\ truncated' = TRUE)
    <3>1. IsDir(entry)
      BY <1>5 DEF Descend
    <3>2. entry.to \in Dirs
      BY <3>1, LeadsToDir
    <3>3. Head(trail') = entry.to
      BY <1>5, <3>2, InFront DEF Descend, Typed, RTypeOK
    <3>4. chain'[1] = NewList
      <4>1. NewList \in RuleList
        BY DEF NewList, RuleList
      <4> QED BY <1>5, <4>1, InFront DEF Descend, Typed, RTypeOK
    <3>5. text' = text
      BY <1>5 DEF Descend, disk
    <3>6. Content(entry.to, path', 1) = Text(1)'
      BY <3>3, <3>5 DEF Text, Content, IgnoreFileFits
    <3> QED BY <1>5, <3>4, <3>6 DEF Descend, Open
  <2>2. Text(1)' \in Seq(STRING) /\ Text(2)' \in Seq(STRING)
    <3>1. Typed'
      BY TypedStep
    <3>2. Head(trail') \in Dirs /\ text' \in Texts
      BY <3>1, HeadTailProperties DEF Typed, RTypeOK
    <3>3. text' \in [Dirs -> [{1, 2} -> Seq(STRING)]]
      BY <3>2, RulesAssumption
    <3>4. text'[Head(trail')][1] \in Seq(STRING) /\ text'[Head(trail')][2] \in Seq(STRING)
      BY <3>2, <3>3
    <3>5. <<>> \in Seq(STRING)
      OBVIOUS
    <3> QED BY <3>4, <3>5 DEF Text, Content
  <2>3. ReadSoFar(<<>>, Text(1)', Text(2)', 1, Text(1)', truncated')
    <3>1. Underway(<<>>, Text(1)', Text(1)', truncated')
      BY <2>2, UnderwayAtStart
    <3> QED BY <3>1 DEF ReadSoFar
  <2>4. ReadSoFar(chain'[1].rules, Text(1)', Text(2)', file', rest', truncated')
    <3>1. CASE rest' = Text(1)'
      BY <2>1, <2>3, <3>1 DEF NewList
    <3>2. CASE rest' = <<>> /\ truncated' = TRUE
      <4>1. <<>> \in Seq(Rule)
        OBVIOUS
      <4>2. ReadSoFar(<<>>, Text(1)', Text(2)', 1, <<>>, TRUE)
        BY <2>2, <2>3, <4>1, ReadSoFarCut
      <4>3. chain'[1].rules = <<>> /\ file' = 1
        BY <2>1 DEF NewList
      <4> QED BY <3>2, <4>2, <4>3, Zenon
    <3> QED BY <2>1, <3>1, <3>2
  <2> QED BY <2>1, <2>4 DEF Ordered
<1>6. CASE UNCHANGED rvars
  <2>1. UNCHANGED <<text, path, trail, chain, truncated, phase, file, rest>>
    BY <1>6 DEF rvars, disk, place, reading
  <2>2. Text(1)' = t1 /\ Text(2)' = t2
    BY <1>1, <2>1
  <2> QED BY <2>1, <2>2 DEF Ordered
<1> QED BY <1>2, <1>3, <1>4, <1>5, <1>6 DEF RNext

\* Before its directory is left behind, the node has the rules it will keep.
LEMMA OrderedMeans ==
  ASSUME Typed, Ordered, Loaded, Fits, ~truncated,
         FitsBuffer(text[trail[1]][1]), FitsBuffer(text[trail[1]][2])
  PROVE  chain[1].rules = WrittenIn(1)
<1>1. Head(trail) = trail[1]
  BY DEF Typed, RTypeOK
<1>2. Text(1) = text[trail[1]][1] /\ Text(2) = text[trail[1]][2]
  BY <1>1 DEF Text, Content, Fits
<1>3. InOrder(chain[1].rules, Text(1), Text(2), truncated)
  BY <1>2 DEF Ordered, Loaded
<1>4. truncated = FALSE
  BY DEF Typed, RTypeOK
<1>5. InOrder(chain[1].rules, Text(1), Text(2), FALSE)
  BY <1>3, <1>4
<1>6. Text(1) \in Seq(STRING) /\ Text(2) \in Seq(STRING)
  BY TextIs
<1>7. chain[1].rules = Written(Text(1)) \o Written(Text(2))
  BY <1>5, <1>6, AllInOrder
<1> QED BY <1>2, <1>7 DEF WrittenIn

LEMMA AboveStep ==
  ASSUME Typed, Filtered, Ordered, Above, [RNext]_rvars
  PROVE  Above'
<1>0. /\ chain \in Seq(RuleList) /\ trail \in Seq(Dirs) /\ Len(chain) = Len(trail)
      /\ trail # <<>> /\ Len(chain) \in Nat \ {0} /\ DOMAIN chain = 1..Len(chain)
      /\ truncated \in BOOLEAN
  <2>1. /\ chain \in Seq(RuleList) /\ trail \in Seq(Dirs) /\ Len(chain) = Len(trail)
        /\ trail # <<>> /\ truncated \in BOOLEAN
    BY DEF Typed, RTypeOK
  <2>2. Len(chain) \in Nat \ {0}
    BY <2>1, EmptySeq
  <2> QED BY <2>1, <2>2, LenProperties
<1>1. ASSUME UNCHANGED <<text, path, trail>>, Len(chain') = Len(chain),
             \A k \in 2..Len(chain) : chain'[k] = chain[k],
             ~truncated' => ~truncated
      PROVE  Above'
  BY <1>1 DEF Above, WrittenIn, Fits, IgnoreFileFits
<1>2. CASE ReadLine
  <2>1. UNCHANGED <<text, path, trail>>
    BY <1>2 DEF ReadLine, disk, place
  <2>2. PICK list \in RuleList :
          chain' = [chain EXCEPT ![1] = list] /\ (truncated' = truncated \/ truncated' = TRUE)
    BY <1>2, ReadLineIs
  <2>3. Len(chain') = Len(chain)
    <3>1. 1 \in 1..Len(chain)
      BY <1>0
    <3> QED BY <1>0, <2>2, <3>1, ExceptSeq
  <2>4. \A k \in 2..Len(chain) : chain'[k] = chain[k]
    BY <1>0, <2>2
  <2> QED BY <1>1, <2>1, <2>2, <2>3, <2>4
<1>3. CASE EndOfFile
  BY <1>1, <1>3 DEF EndOfFile, Open, disk, place
<1>4. CASE ReadEntry
  BY <1>1, <1>4 DEF ReadEntry, disk, place
<1>5. CASE Descend
  <2>1. entry.to \in Dirs
    BY <1>5, LeadsToDir DEF Descend
  <2>2. NewList \in RuleList
    BY DEF NewList, RuleList
  <2>3. /\ Len(chain') = Len(chain) + 1
        /\ \A k \in 2..Len(chain) + 1 : chain'[k] = chain[k - 1]
    BY <1>0, <1>5, <2>2, InFront DEF Descend
  <2>4. \A k \in 2..Len(chain) + 1 : trail'[k] = trail[k - 1]
    BY <1>0, <1>5, <2>1, InFront DEF Descend
  <2>5. text' = text /\ (~truncated' => ~truncated)
    BY <1>5 DEF Descend, Open, disk
  <2>6. Fits' => Fits
    <3>1. path \in Seq(Names) /\ entry.name \in Names /\ path' = FullPath(entry)
      BY <1>5 DEF Descend, Typed, RTypeOK, Entry
    <3> QED BY <3>1, FitsAbove DEF Fits, IgnoreFileFits
  <2>7. ASSUME NEW k \in 2..Len(chain) + 1,
               ~truncated, Fits', FitsBuffer(text[trail'[k]][1]), FitsBuffer(text[trail'[k]][2])
        PROVE  chain'[k].rules = Written(text[trail'[k]][1]) \o Written(text[trail'[k]][2])
    <3>1. trail'[k] = trail[k - 1] /\ chain'[k] = chain[k - 1]
      BY <2>3, <2>4
    <3>2. CASE k = 2
      <4>1. chain[1].rules = WrittenIn(1)
        <5>1. Loaded /\ Fits
          BY <1>5, <2>6, <2>7 DEF Descend, Loaded
        <5>2. FitsBuffer(text[trail[1]][1]) /\ FitsBuffer(text[trail[1]][2])
          BY <2>7, <3>1, <3>2
        <5> QED BY <2>7, <5>1, <5>2, OrderedMeans
      <4>2. trail'[k] = trail[1] /\ chain'[k] = chain[1]
        BY <3>1, <3>2
      <4> QED BY <4>1, <4>2 DEF WrittenIn
    <3>3. CASE k # 2
      <4>1. k - 1 \in 2..Len(chain)
        BY <1>0, <3>3
      <4>2. chain[k - 1].rules = WrittenIn(k - 1)
        BY <2>6, <2>7, <3>1, <4>1 DEF Above
      <4> QED BY <3>1, <4>2 DEF WrittenIn
    <3> QED BY <3>2, <3>3
  <2> QED BY <2>3, <2>5, <2>7 DEF Above, WrittenIn
<1>6. CASE UNCHANGED rvars
  BY <1>1, <1>6 DEF rvars, disk, place
<1> QED BY <1>2, <1>3, <1>4, <1>5, <1>6 DEF RNext

-----------------------------------------------------------------------------
(* The filter and what is wanted.                                          *)

LEMMA VerdictMeans ==
  ASSUME NEW N \in Nat, NEW hits, hits \subseteq 1..N, NEW rules
  PROVE  /\ Verdict(rules, hits) = "none" <=> hits = {}
         /\ Verdict(rules, hits) = "ignore"
              <=> \E k \in hits : ~rules[k].is_negation /\ \A l \in hits : l <= k
<1>1. CASE hits = {}
  BY <1>1 DEF Verdict
<1>2. CASE hits # {}
  <2>1. Max(hits) \in hits /\ \A l \in hits : Max(hits) >= l
    <3>1. hits \subseteq 0..N
      OBVIOUS
    <3> QED BY <1>2, <3>1, Greatest
  <2> DEFINE m == Max(hits)
  <2>2. m \in hits /\ (\A l \in hits : l <= m) /\ m \in 1..N
    BY <2>1
  <2>3. Verdict(rules, hits) = IF rules[m].is_negation THEN "keep" ELSE "ignore"
    BY <1>2 DEF Verdict
  <2> HIDE DEF m
  <2>4. ASSUME NEW k \in hits, \A l \in hits : l <= k PROVE k = m
    <3>1. k <= m /\ m <= k /\ k \in 1..N
      BY <2>2, <2>4
    <3> QED BY <2>2, <3>1
  <2>5. CASE rules[m].is_negation
    BY <1>2, <2>3, <2>4, <2>5
  <2>6. CASE ~rules[m].is_negation
    BY <1>2, <2>2, <2>3, <2>6
  <2> QED BY <2>5, <2>6
<1> QED BY <1>1, <1>2

\* Where no refusal and no long line is in the way the chain holds what is
\* written in each directory.
LEMMA ChainIsWritten ==
  ASSUME Typed, Ordered, Above, Loaded, Undisturbed,
         NEW i \in DOMAIN trail
  PROVE  chain[i].rules = WrittenIn(i)
<1>1. ~truncated /\ Fits /\ \A n \in {1, 2} : FitsBuffer(text[trail[i]][n])
  BY DEF Undisturbed, UnreadRules, SplitLine, Fits
<1>2. FitsBuffer(text[trail[i]][1]) /\ FitsBuffer(text[trail[i]][2])
  BY <1>1
<1>3. /\ trail \in Seq(Dirs) /\ Len(chain) = Len(trail) /\ DOMAIN trail = 1..Len(trail)
      /\ Len(trail) \in Nat
  <2>1. trail \in Seq(Dirs) /\ Len(chain) = Len(trail)
    BY DEF Typed, RTypeOK
  <2> QED BY <2>1, LenProperties
<1>4. CASE i = 1
  BY <1>1, <1>2, <1>4, OrderedMeans
<1>5. CASE i # 1
  <2>1. i \in 2..Len(chain)
    BY <1>3, <1>5
  <2> QED BY <1>1, <1>2, <2>1 DEF Above
<1> QED BY <1>4, <1>5

LEMMA WrittenInIsRules ==
  ASSUME Typed, NEW i \in DOMAIN trail
  PROVE  WrittenIn(i) \in Seq(Rule)
<1>1. trail[i] \in Dirs
  <2>1. trail \in Seq(Dirs)
    BY DEF Typed, RTypeOK
  <2>2. i \in 1..Len(trail)
    BY <2>1, LenProperties
  <2> QED BY <2>1, <2>2, ElementOfSeq
<1>2. text \in [Dirs -> [{1, 2} -> Seq(STRING)]]
  BY RulesAssumption DEF Typed, RTypeOK
<1>3. text[trail[i]][1] \in Seq(STRING) /\ text[trail[i]][2] \in Seq(STRING)
  BY <1>1, <1>2
<1>4. Written(text[trail[i]][1]) \in Seq(Rule) /\ Written(text[trail[i]][2]) \in Seq(Rule)
  BY <1>3, WrittenIsRules
<1> QED BY <1>4, ConcatProperties DEF WrittenIn

\* The loop over the chain ignores what the files say is ignored.
LEMMA ChainDecides ==
  ASSUME Typed, Ordered, Above, Loaded, Undisturbed
  PROVE  IgnoredByFiles <=>
           \E i \in DOMAIN chain :
             /\ Decision(chain[i].rules, FullPath(entry), IsDir(entry)) = "ignore"
             /\ \A j \in 1..i - 1 :
                  Decision(chain[j].rules, FullPath(entry), IsDir(entry)) = "none"
<1> DEFINE dec(i) == Decision(chain[i].rules, FullPath(entry), IsDir(entry))
<1>1. DOMAIN chain = DOMAIN trail /\ DOMAIN trail = 1..Len(trail) /\ Len(trail) \in Nat
  <2>1. trail \in Seq(Dirs) /\ chain \in Seq(RuleList) /\ Len(chain) = Len(trail)
    BY DEF Typed, RTypeOK
  <2> QED BY <2>1, LenProperties
<1>2. ASSUME NEW i \in DOMAIN trail
      PROVE  /\ dec(i) = "none" <=> RulesHit(i) = {}
             /\ dec(i) = "ignore" <=>
                  \E k \in RulesHit(i) :
                    ~WrittenIn(i)[k].is_negation /\ \A l \in RulesHit(i) : l <= k
  <2>1. chain[i].rules = WrittenIn(i) /\ WrittenIn(i) \in Seq(Rule)
    BY ChainIsWritten, WrittenInIsRules
  <2> DEFINE w == WrittenIn(i)
             h == HitsUpTo(w, Len(w), FullPath(entry), IsDir(entry))
  <2>2. w \in Seq(Rule) /\ Len(w) \in Nat /\ DOMAIN w = 1..Len(w)
    BY <2>1, LenProperties
  <2>3. RulesHit(i) = h
    BY <2>2 DEF RulesHit, HitsUpTo
  <2> HIDE DEF w
  <2>4. dec(i) = Verdict(w, h)
    <3>1. chain[i].rules = w
      BY <2>1 DEF w
    <3> HIDE DEF h
    <3>2. Decision(w, FullPath(entry), IsDir(entry)) = Verdict(w, h)
      BY <2>2, DecisionIs DEF h
    <3> QED BY <3>1, <3>2
  <2>5. h \subseteq 1..Len(w)
    BY DEF HitsUpTo
  <2> HIDE DEF h, dec
  <2>6. /\ Verdict(w, h) = "none" <=> h = {}
        /\ Verdict(w, h) = "ignore"
             <=> \E k \in h : ~w[k].is_negation /\ \A l \in h : l <= k
    BY <2>2, <2>5, VerdictMeans
  <2> QED BY <2>3, <2>4, <2>6 DEF w
<1>3. \A i \in DOMAIN trail : \A j \in 1..i - 1 : j \in DOMAIN trail
  BY <1>1
<1> HIDE DEF dec
<1>4. IgnoredByFiles <=>
        \E i \in DOMAIN trail : dec(i) = "ignore" /\ \A j \in 1..i - 1 : dec(j) = "none"
  <2>1. ASSUME NEW i \in DOMAIN trail
        PROVE  (\A j \in 1..i - 1 : RulesHit(j) = {}) <=> (\A j \in 1..i - 1 : dec(j) = "none")
    BY <1>2, <1>3
  <2>2. IgnoredByFiles <=>
          \E i \in DOMAIN trail :
            /\ \E k \in RulesHit(i) :
                 ~WrittenIn(i)[k].is_negation /\ \A l \in RulesHit(i) : l <= k
            /\ \A j \in 1..i - 1 : RulesHit(j) = {}
    BY DEF IgnoredByFiles
  <2> QED BY <1>2, <2>1, <2>2
<1> QED BY <1>1, <1>4 DEF dec

\* For an entry that is no unfollowed link, d_type and stat say the same.
LEMMA KindIsKnown ==
  ASSUME Typed, Undisturbed
  PROVE  (IsDir(entry) <=> Kind = "dir") /\ (IsFile(entry) <=> Kind = "file")
<1>1. entry.type \in {"dir", "file", "link", "other"} /\ (entry.type = "link" => follow_links)
  BY DEF Typed, RTypeOK, Entry, Undisturbed, UnfollowedLink
<1> QED BY <1>1 DEF IsDir, IsFile, NeedStat, Stat, Kind

LEMMA FilterIsRight ==
  ASSUME Typed, Ordered, Above, Loaded, Undisturbed
  PROVE  Skips(entry) <=> ~Wanted
<1>1. path \in Seq(Names) /\ entry.name \in Names /\ PathMax \in Nat
  BY RulesAssumption DEF Typed, RTypeOK, Entry
<1>2. Last(FullPath(entry)) = entry.name
  BY <1>1, PathIs
<1>3. TooLong(entry) <=> ~(Bytes(FullPath(entry)) < PathMax)
  <2>1. /\ Bytes(path) \in Nat /\ Length[entry.name] \in Nat
        /\ Bytes(FullPath(entry)) = Bytes(path) + 1 + Length[entry.name]
    BY <1>1, BytesOfPath
  <2> QED BY <1>1, <2>1 DEF TooLong
<1>4. CASE TooLong(entry)
  BY <1>3, <1>4 DEF Skips, Wanted
<1>5. CASE ~TooLong(entry)
  <2>1. Bytes(FullPath(entry)) < PathMax
    BY <1>3, <1>5
  <2>2. (IsDir(entry) <=> Kind = "dir") /\ (IsFile(entry) <=> Kind = "file")
    BY KindIsKnown
  <2>3. IgnoredByFiles <=>
          \E i \in DOMAIN chain :
             /\ Decision(chain[i].rules, FullPath(entry), IsDir(entry)) = "ignore"
             /\ \A j \in 1..i - 1 :
                  Decision(chain[j].rules, FullPath(entry), IsDir(entry)) = "none"
    BY ChainDecides
  <2>4. greg_ignore_node_should_ignore(FullPath(entry), IsDir(entry)) <=>
          ~no_ignore /\ (greg_is_default_ignored(entry.name, IsDir(entry)) \/ IgnoredByFiles)
    BY <1>2, <2>3 DEF greg_ignore_node_should_ignore
  <2>5. greg_is_default_ignored(entry.name, IsDir(entry)) <=>
          /\ ~no_ignore
          /\ \/ entry.name \in DotNames /\ ~hidden
             \/ Kind = "dir" /\ entry.name \in BuildDirs
    BY <2>2 DEF greg_is_default_ignored
  <2>6. Skips(entry) <=>
          \/ greg_is_default_ignored(entry.name, IsDir(entry))
          \/ Kind \notin {"dir", "file"}
          \/ ~no_ignore /\ IgnoredByFiles
    BY <1>5, <2>2, <2>4 DEF Skips
  <2>7. ~(no_ignore /\ ~hidden /\ entry.name \in DotNames)
    BY DEF Undisturbed, HiddenUnderNoIgnore
  <2> QED BY <2>1, <2>5, <2>6, <2>7 DEF Wanted
<1> QED BY <1>4, <1>5

-----------------------------------------------------------------------------
(* The theorems.                                                           *)

RInv == Typed /\ Filtered /\ PathsFit /\ Ordered /\ Above

LEMMA RulesInit ==
  ASSUME RInit
  PROVE  RInv
<1>1. Typed
  BY TypedInit
<1>2. Filtered
  BY DEF RInit, Filtered
<1>3. PathsFit
  <2>1. path = <<".">> /\ phase = "load"
    BY DEF RInit
  <2>2. Bytes(path) = 1
    <3>1. path \in Seq(Names) /\ DOMAIN path = {1} /\ path[1] = "."
      BY <2>1 DEF Names
    <3>2. Bytes(path) = Cardinality(Cells(path))
      BY <3>1, CellsAreFinite
    <3>3. Cells(path) = Piece(path, 1)
      BY <3>1 DEF Cells
    <3>4. Cardinality(Piece(path, 1)) = 1
      BY <3>1, PartIs, RulesAssumption
    <3> QED BY <3>2, <3>3, <3>4
  <2> QED BY <2>1, <2>2, RulesAssumption DEF PathsFit
<1>4. Ordered
  <2>1. /\ phase = "load" /\ file = 1 /\ chain[1] = NewList
        /\ rest = Text(1) \/ (rest = <<>> /\ truncated = TRUE)
    BY DEF RInit, Text
  <2>2. Text(1) \in Seq(STRING) /\ Text(2) \in Seq(STRING)
    BY <1>1, TextIs
  <2>3. ReadSoFar(<<>>, Text(1), Text(2), 1, Text(1), truncated)
    <3>1. Underway(<<>>, Text(1), Text(1), truncated)
      BY <2>2, UnderwayAtStart
    <3> QED BY <3>1 DEF ReadSoFar
  <2>4. ReadSoFar(chain[1].rules, Text(1), Text(2), file, rest, truncated)
    <3>1. CASE rest = Text(1)
      BY <2>1, <2>3, <3>1 DEF NewList
    <3>2. CASE rest = <<>> /\ truncated = TRUE
      <4>1. <<>> \in Seq(Rule)
        OBVIOUS
      <4>2. ReadSoFar(<<>>, Text(1), Text(2), 1, <<>>, TRUE)
        BY <2>2, <2>3, <4>1, ReadSoFarCut
      <4>3. chain[1].rules = <<>> /\ file = 1
        BY <2>1 DEF NewList
      <4> QED BY <3>2, <4>2, <4>3, Zenon
    <3> QED BY <2>1, <3>1, <3>2
  <2> QED BY <2>1, <2>4 DEF Ordered
<1>5. Above
  <2>1. Len(chain) = 1
    BY DEF RInit
  <2> QED BY <2>1 DEF Above
<1> QED BY <1>1, <1>2, <1>3, <1>4, <1>5 DEF RInv

LEMMA RulesStep ==
  ASSUME RInv, [RNext]_rvars
  PROVE  RInv'
<1>1. Typed /\ Filtered /\ PathsFit /\ Ordered /\ Above
  BY DEF RInv
<1>2. Typed'
  BY <1>1, TypedStep
<1>3. Filtered'
  BY <1>1, FilteredStep
<1>4. PathsFit'
  BY <1>1, <1>2, <1>3, PathsFitStep
<1>5. Ordered'
  BY <1>1, OrderedStep
<1>6. Above'
  BY <1>1, AboveStep
<1> QED BY <1>2, <1>3, <1>4, <1>5, <1>6 DEF RInv

THEOREM RulesInvariant == RSpec => []RInv
<1>1. RInit => RInv
  BY RulesInit
<1>2. RInv /\ [RNext]_rvars => RInv'
  BY RulesStep
<1> QED BY <1>1, <1>2, PTL DEF RSpec

\* No rule is written past its array, whatever the ignore files contain
\* (ignore.c:181-199).
THEOREM RulesTypes == RSpec => []RTypeOK
<1>1. RInv => RTypeOK
  BY DEF RInv, Typed
<1> QED BY <1>1, RulesInvariant, PTL

\* No path that is put together leaves its buffer, however deep the tree is
\* and wherever links lead (walk.c:174-181).
THEOREM PathsShort == RSpec => []PathsFit
<1>1. RInv => PathsFit
  BY DEF RInv
<1> QED BY <1>1, RulesInvariant, PTL

\* The rules of a directory are those written in its ignore files, in their
\* order, and no failure leaves a hole in those of a file, where lines and the
\* paths of the ignore files fit their buffers (ignore.c:133-203, 228-238).
THEOREM RulesAsWritten == RSpec => []RulesInOrder
<1>1. RInv => RulesInOrder
  <2> DEFINE d == Head(trail)
             first == Written(text[d][1])
             second == Written(text[d][2])
  <2> SUFFICES ASSUME RInv, Loaded,
                      \A n \in {1, 2} : IgnoreFileFits(path, n) /\ FitsBuffer(text[d][n])
               PROVE  \E i \in 0..Len(first), j \in 0..Len(second) :
                        /\ chain[1].rules = SubSeq(first, 1, i) \o SubSeq(second, 1, j)
                        /\ ~truncated => i = Len(first) /\ j = Len(second)
    BY DEF RulesInOrder
  <2>1. Text(1) = text[d][1] /\ Text(2) = text[d][2]
    BY DEF Text, Content
  <2>2. FitsBuffer(Text(1)) /\ FitsBuffer(Text(2))
    BY <2>1
  <2>3. InOrder(chain[1].rules, Text(1), Text(2), truncated)
    BY <2>2 DEF RInv, Ordered, Loaded
  <2>4. PICK one \in Seq(Rule), two \in Seq(Rule) :
          /\ chain[1].rules = one \o two
          /\ Part(one, Text(1), truncated) /\ Part(two, Text(2), truncated)
    BY <2>3 DEF InOrder
  <2>5. PICK i \in 0..Len(first) :
          one = SubSeq(first, 1, i) /\ (~truncated => i = Len(first))
    BY <2>1, <2>4 DEF Part
  <2>6. PICK j \in 0..Len(second) :
          two = SubSeq(second, 1, j) /\ (~truncated => j = Len(second))
    BY <2>1, <2>4 DEF Part
  <2> HIDE DEF first, second
  <2> QED BY <2>4, <2>5, <2>6
<1> QED BY <1>1, RulesInvariant, PTL

\* An entry is taken exactly if the options and the ignore files want it, for
\* every tree, every content of the ignore files and every matcher of globs,
\* outside the five cases that Undisturbed names (walk.c:146-205,
\* ignore.c:261-318).
THEOREM FilterCorrect == RSpec => []TakesWhatIsWanted
<1>1. RInv => TakesWhatIsWanted
  <2> SUFFICES ASSUME RInv, phase \in {"taken", "skipped"}, Undisturbed
               PROVE  phase = "taken" <=> Wanted
    BY DEF TakesWhatIsWanted
  <2>1. phase = "taken" <=> ~Skips(entry)
    BY DEF RInv, Filtered
  <2>2. Skips(entry) <=> ~Wanted
    BY FilterIsRight DEF RInv, Loaded
  <2> QED BY <2>1, <2>2
<1> QED BY <1>1, RulesInvariant, PTL

=============================================================================
