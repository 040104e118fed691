-------------------------- MODULE IgnoreGlobProofs --------------------------
(***************************************************************************)
(* match_glob for every pattern and every string: it stays inside its      *)
(* buffers, what it reports as a match is one, and what it reports as a    *)
(* mismatch is one if the pattern is tractable; and it never comes back to *)
(* where it was.                                                           *)
(***************************************************************************)
EXTENDS IgnoreGlob, WellFoundedInduction, TLAPS

Arguments ==
  /\ pattern \in Seq(STRING)
  /\ str \in Seq(STRING)
  /\ result \in {Running, 0, 1}

Positions ==
  /\ p \in 1..Len(pattern) + 1
  /\ s \in 1..Len(str) + 1

\* A resume position reaches the terminating NUL only together with the
\* matching position, and then the loop is over.
Resumes ==
  /\ p_star \in 0..Len(pattern)
  /\ p_star_star \in 0..Len(pattern)
  /\ s_star \in 0..Len(str) + 1
  /\ s_star_star \in 0..Len(str) + 1
  /\ s_star = Len(str) + 1 => s = Len(str) + 1
  /\ s_star_star = Len(str) + 1 => s = Len(str) + 1
  /\ p_star # NULL => s_star # NULL
  /\ p_star_star # NULL => s_star_star # NULL

GInv == Arguments /\ Positions /\ Resumes

\* Skipping stars stops at the terminating NUL at the latest.
LEMMA SkipStarsAre ==
  ASSUME Arguments, NEW i \in 1..Len(pattern) + 1
  PROVE  /\ SkipStars(i) \in i..Len(pattern) + 1
         /\ ~Star(SkipStars(i))
         /\ \A j \in i..SkipStars(i) - 1 : Star(j)
<1> DEFINE K == {k \in i..Len(pattern) + 1 : ~Star(k)}
<1>1. Len(pattern) \in Nat
  BY DEF Arguments
<1>2. K \in SUBSET Nat /\ Len(pattern) + 1 \in K
  BY <1>1 DEF Star
<1>3. PICK m \in K : \A k \in K : m <= k
  <2> HIDE DEF K
  <2>1. PICK m \in K : \A k \in K : ~(<<k, m>> \in OpToRel(<, Nat))
    BY <1>2, WFMin, NatLessThanWellFounded
  <2>2. \A k \in K : m <= k
    <3>1. ASSUME NEW k \in K
          PROVE  ~(k < m)
      BY <1>2, <2>1 DEF OpToRel
    <3>2. QED
      BY <1>2, <3>1
  <2>3. QED
    BY <2>2
<1>4. \A j \in i..m - 1 : Star(j)
  <2>1. ASSUME NEW j \in i..m - 1
        PROVE  j \in i..Len(pattern) + 1 /\ j < m
    BY <1>1, <1>3
  <2>2. QED
    BY <1>1, <1>3, <2>1
<1>5. \E k \in i..Len(pattern) + 1 : ~Star(k) /\ \A j \in i..k - 1 : Star(j)
  BY <1>3, <1>4
<1>6. QED
  BY <1>5 DEF SkipStars

\* Skipping stars stays in the pattern.
LEMMA SkipStarsInside ==
  ASSUME Arguments, NEW i \in 1..Len(pattern) + 1
  PROVE  SkipStars(i) \in i..Len(pattern) + 1
  BY SkipStarsAre

\* Every way round the loop keeps the positions inside the strings.
LEMMA GStepInv ==
  ASSUME GInv, GStep
  PROVE  GInv'
<1> USE DEF GInv
<1>1. Len(pattern) \in Nat /\ Len(str) \in Nat
  BY DEF Arguments
<1>2. ASSUME NEW b \in BOOLEAN, Return(b)
      PROVE  GInv'
  BY <1>2 DEF Return, args, stars, Arguments, Positions, Resumes
<1>3. CASE EndOfString
  <2>1. AllStars(p) \in BOOLEAN
    BY DEF AllStars
  <2>2. QED
    BY <1>2, <1>3, <2>1 DEF EndOfString
<1>4. CASE DoubleStar
  <2>1. p + 2 \in 1..Len(pattern) + 1
    BY <1>1, <1>4 DEF DoubleStar, Star, Positions
  <2>2. SkipStars(p + 2) \in 1..Len(pattern) + 1
    BY <1>1, <2>1, SkipStarsInside
  <2>3. CASE SkipStars(p + 2) > Len(pattern)
    BY <1>2, <1>4, <2>3 DEF DoubleStar
  <2>4. CASE ~(SkipStars(p + 2) > Len(pattern))
    <3>1. /\ UNCHANGED <<pattern, str, s, result>>
          /\ p' = SkipStars(p + 2) /\ p_star_star' = SkipStars(p + 2)
          /\ s_star_star' = s /\ s <= Len(str)
          /\ p_star' = NULL /\ s_star' = NULL
      BY <1>4, <2>4 DEF DoubleStar, args, InLoop
    <3>2. QED
      BY <1>1, <2>2, <2>4, <3>1 DEF Arguments, Positions, Resumes, NULL
  <2>5. QED
    BY <2>3, <2>4
<1>5. CASE SingleStar
  <2>1. p + 1 \in 1..Len(pattern) + 1
    BY <1>1, <1>5 DEF SingleStar, Star, Positions
  <2>2. SkipStars(p + 1) \in 1..Len(pattern) + 1
    BY <1>1, <2>1, SkipStarsInside
  <2>3. CASE SkipStars(p + 1) > Len(pattern)
    BY <1>2, <1>5, <2>3 DEF SingleStar
  <2>4. CASE ~(SkipStars(p + 1) > Len(pattern))
    <3>1. /\ UNCHANGED <<pattern, str, s, p_star_star, s_star_star, result>>
          /\ p' = SkipStars(p + 1) /\ p_star' = SkipStars(p + 1)
          /\ s_star' = s /\ s <= Len(str)
      BY <1>5, <2>4 DEF SingleStar, args, InLoop
    <3>2. QED
      BY <1>1, <2>2, <2>4, <3>1 DEF Arguments, Positions, Resumes, NULL
  <2>5. QED
    BY <2>3, <2>4
<1>6. CASE Advance
  <2>1. /\ p <= Len(pattern) /\ s <= Len(str)
        /\ p' = p + 1 /\ s' = s + 1
        /\ UNCHANGED <<pattern, str, p_star, s_star, p_star_star, s_star_star, result>>
    BY <1>6 DEF Advance, InLoop, CharacterMatches, args, stars
  <2>2. s_star <= Len(str) /\ s_star_star <= Len(str)
    BY <1>1, <2>1 DEF Positions, Resumes
  <2>3. QED
    BY <1>1, <2>1, <2>2 DEF Arguments, Positions, Resumes
<1>7. CASE BacktrackStar
  <2>1. /\ s <= Len(str) /\ p_star # NULL
        /\ s_star' = s_star + 1 /\ s' = s_star + 1 /\ p' = p_star
        /\ UNCHANGED <<pattern, str, p_star, p_star_star, s_star_star, result>>
    BY <1>7 DEF BacktrackStar, Mismatch, InLoop, Extensible, args
  <2>2. s_star <= Len(str) /\ s_star_star <= Len(str)
    BY <1>1, <2>1 DEF Positions, Resumes
  <2>3. QED
    BY <1>1, <2>1, <2>2 DEF Arguments, Positions, Resumes, NULL
<1>8. CASE BacktrackStarStar
  <2>1. /\ s <= Len(str) /\ p_star_star # NULL
        /\ s_star_star' = s_star_star + 1 /\ s' = s_star_star + 1
        /\ p' = p_star_star
        /\ UNCHANGED <<pattern, str, p_star, s_star, p_star_star, result>>
    BY <1>8 DEF BacktrackStarStar, Resume, Mismatch, InLoop, args
  <2>2. s_star <= Len(str) /\ s_star_star <= Len(str)
    BY <1>1, <2>1 DEF Positions, Resumes
  <2>3. QED
    BY <1>1, <2>1, <2>2 DEF Arguments, Positions, Resumes, NULL
<1>9. CASE Fail
  BY <1>2, <1>9 DEF Fail
<1>10. QED
  BY <1>3, <1>4, <1>5, <1>6, <1>7, <1>8, <1>9 DEF GStep

\* match_glob reads only inside its two buffers, for every pattern and every
\* string: no bound on either is needed.
THEOREM GlobInBounds == GSpec => []InBounds
<1>1. GInit => GInv
  BY GlobAssumption
     DEF GInit, GInv, Arguments, Positions, Resumes, NULL, Running, GlobAssumption
<1>2. GInv /\ [GNext]_gvars => GInv'
  <2>1. ASSUME GInv, UNCHANGED gvars
        PROVE  GInv'
    BY <2>1 DEF gvars, GInv, Arguments, Positions, Resumes
  <2>2. QED
    BY <2>1, GStepInv DEF GNext, Returned
<1>3. GInv => InBounds
  BY DEF GInv, Arguments, Positions, Resumes, InBounds, InLoop
<1>4. QED
  BY <1>1, <1>2, <1>3, PTL DEF GSpec

-----------------------------------------------------------------------------
(* What the pattern stands for.                                            *)

\* What the recursion in Denotes says of the positions for i, given those for
\* the later ones.
Row(from, i) ==
  IF i > Len(pattern) THEN {Len(str) + 1}
  ELSE IF ~Star(i)
  THEN {j \in 1..Len(str) : pattern[i] \in {"?", str[j]} /\ j + 1 \in from[i + 1]}
  ELSE LET next == SkipStars(i)
       IN  {j \in 1..Len(str) + 1 :
              \E k \in from[next] :
                /\ j <= k
                /\ \/ next > i + 1
                   \/ \A x \in j..k - 1 : str[x] \notin Separators}

Unfold(from) == [i \in 1..Len(pattern) + 1 |-> Row(from, i)]

From == CHOOSE f : f = Unfold(f)

\* Denotes is the first row.
LEMMA DenotesFrom == Denotes <=> 1 \in From[1]
  BY DEF Denotes, From, Unfold, Row

\* Skipping stars from a star goes on by one position or more.
LEMMA SkipsAtLeastOne ==
  ASSUME Arguments, NEW i \in 1..Len(pattern), Star(i)
  PROVE  SkipStars(i) \in (i + 1)..(Len(pattern) + 1) /\ ~Star(SkipStars(i))
<1>1. Len(pattern) \in Nat
  BY DEF Arguments
<1>2. SkipStars(i) \in i..Len(pattern) + 1 /\ ~Star(SkipStars(i))
      /\ \A j \in i..SkipStars(i) - 1 : Star(j)
  BY <1>1, SkipStarsAre
<1> QED BY <1>1, <1>2

\* Stars that are skipped at a '**' and at a '*'.
LEMMA DoubleStarSkips ==
  ASSUME GInv, DoubleStar
  PROVE  /\ p \in 1..Len(pattern) - 1 /\ Star(p) /\ Star(p + 1)
         /\ s \in 1..Len(str)
         /\ SkipStars(p) = SkipStars(p + 2)
         /\ SkipStars(p) \in (p + 2)..Len(pattern) + 1
         /\ ~Star(SkipStars(p))
<1>1. Len(pattern) \in Nat /\ Len(str) \in Nat /\ p \in 1..Len(pattern) + 1 /\ s \in 1..Len(str) + 1
  BY DEF GInv, Arguments, Positions
<1>2. p \in 1..Len(pattern) - 1 /\ Star(p) /\ Star(p + 1) /\ s \in 1..Len(str)
  BY <1>1 DEF DoubleStar, Star, InLoop
<1>3. /\ SkipStars(p + 2) \in (p + 2)..Len(pattern) + 1 /\ ~Star(SkipStars(p + 2))
      /\ \A j \in (p + 2)..SkipStars(p + 2) - 1 : Star(j)
  <2>1. p + 2 \in 1..Len(pattern) + 1
    BY <1>1, <1>2
  <2> QED BY <2>1, SkipStarsAre DEF GInv
<1>4. /\ SkipStars(p) \in p..Len(pattern) + 1 /\ ~Star(SkipStars(p))
      /\ \A j \in p..SkipStars(p) - 1 : Star(j)
  BY <1>1, SkipStarsAre DEF GInv
<1> DEFINE a == SkipStars(p)
           b == SkipStars(p + 2)
<1> HIDE DEF a, b
<1>5. ~(a < b)
  BY <1>1, <1>2, <1>3, <1>4 DEF a, b
<1>6. ~(b < a)
  BY <1>1, <1>2, <1>3, <1>4 DEF a, b
<1>7. a = b
  BY <1>1, <1>2, <1>3, <1>4, <1>5, <1>6 DEF a, b
<1> QED BY <1>2, <1>3, <1>7 DEF a, b

LEMMA SingleStarSkips ==
  ASSUME GInv, SingleStar
  PROVE  /\ p \in 1..Len(pattern) /\ Star(p) /\ ~Star(p + 1)
         /\ s \in 1..Len(str)
         /\ SkipStars(p) = p + 1 /\ SkipStars(p + 1) = p + 1
<1>1. Len(pattern) \in Nat /\ Len(str) \in Nat /\ p \in 1..Len(pattern) + 1 /\ s \in 1..Len(str) + 1
  BY DEF GInv, Arguments, Positions
<1>2. p \in 1..Len(pattern) /\ Star(p) /\ ~Star(p + 1) /\ s \in 1..Len(str)
  BY <1>1 DEF SingleStar, Star, InLoop
<1>3. /\ SkipStars(p + 1) \in (p + 1)..Len(pattern) + 1
      /\ \A j \in (p + 1)..SkipStars(p + 1) - 1 : Star(j)
  <2>1. p + 1 \in 1..Len(pattern) + 1
    BY <1>1, <1>2
  <2> QED BY <2>1, SkipStarsAre DEF GInv
<1>4. /\ SkipStars(p) \in p..Len(pattern) + 1 /\ ~Star(SkipStars(p))
      /\ \A j \in p..SkipStars(p) - 1 : Star(j)
  BY <1>1, SkipStarsAre DEF GInv
<1>5. SkipStars(p + 1) = p + 1
  BY <1>1, <1>2, <1>3
<1>6. SkipStars(p) = p + 1
  BY <1>1, <1>2, <1>4
<1> QED BY <1>2, <1>5, <1>6

\* A row depends on later ones only.
LEMMA LaterRows ==
  ASSUME Arguments, NEW i \in 1..Len(pattern) + 1, NEW f, NEW g,
         \A j \in (i + 1)..(Len(pattern) + 1) : f[j] = g[j]
  PROVE  Row(f, i) = Row(g, i)
<1>1. Len(pattern) \in Nat
  BY DEF Arguments
<1>2. CASE i <= Len(pattern) /\ Star(i)
  <2>1. f[SkipStars(i)] = g[SkipStars(i)]
    BY <1>1, <1>2, SkipsAtLeastOne
  <2> QED BY <1>2, <2>1 DEF Row
<1>3. CASE i <= Len(pattern) /\ ~Star(i)
  <2>1. f[i + 1] = g[i + 1]
    BY <1>1, <1>3
  <2> QED BY <1>3, <2>1 DEF Row
<1>4. CASE i > Len(pattern)
  BY <1>4 DEF Row
<1> QED BY <1>1, <1>2, <1>3, <1>4

\* The recursion defines a function: the last n rows can be filled for every n.
LEMMA RowsExist ==
  ASSUME Arguments
  PROVE  \E f : f = Unfold(f)
<1> DEFINE L == Len(pattern) + 1
           Filled(f, n) == /\ DOMAIN f = 1..L
                           /\ \A i \in 1..L : i > L - n => f[i] = Row(f, i)
           Bad == {n \in 0..L : ~\E f : f = [i \in 1..L |-> f[i]] /\ Filled(f, n)}
<1>1. L \in Nat \ {0}
  BY DEF Arguments
<1>2. Bad = {}
  <2> SUFFICES ASSUME Bad # {} PROVE FALSE
    OBVIOUS
  <2>1. PICK n \in Bad : \A m \in Bad : ~(<<m, n>> \in OpToRel(<, Nat))
    <3>1. Bad \subseteq Nat
      BY <1>1
    <3> HIDE DEF Bad
    <3> QED BY <3>1, WFMin, NatLessThanWellFounded
  <2>2. n # 0
    <3> DEFINE f == [i \in 1..L |-> {}]
    <3>1. f = [i \in 1..L |-> f[i]] /\ Filled(f, 0)
      BY <1>1
    <3> HIDE DEF Filled, f
    <3> QED BY <3>1
  <2>3. n - 1 \in 0..L /\ n - 1 \notin Bad
    <3>1. n - 1 \in 0..L
      BY <1>1, <2>2
    <3>2. <<n - 1, n>> \in OpToRel(<, Nat)
      BY <1>1, <3>1 DEF OpToRel
    <3> HIDE DEF Bad
    <3> QED BY <2>1, <3>1, <3>2
  <2>4. PICK f : f = [i \in 1..L |-> f[i]] /\ Filled(f, n - 1)
    BY <2>3
  <2> DEFINE r == L - n + 1
             g == [i \in 1..L |-> IF i = r THEN Row(f, r) ELSE f[i]]
  <2>5. r \in 1..L
    BY <1>1, <2>2
  <2>6. \A i \in 1..L : i > r => f[i] = g[i] /\ f[i] = Row(f, i)
    <3>1. \A i \in 1..L : i > r => f[i] = g[i]
      <4>1. r \in Int
        BY <1>1, <2>5
      <4> HIDE DEF L, r
      <4> QED BY <4>1
    <3>2. \A i \in 1..L : i > L - (n - 1) => f[i] = Row(f, i)
      <4> HIDE DEF L
      <4> QED BY <2>4
    <3>3. \A i \in 1..L : i > r => i > L - (n - 1)
      <4> HIDE DEF L
      <4> QED BY <1>1
    <3> HIDE DEF L, r, g
    <3> QED BY <3>1, <3>2, <3>3
  <2>7. ASSUME NEW i \in 1..L, i >= r
        PROVE  g[i] = Row(g, i)
    <3>1. \A j \in (i + 1)..L : f[j] = g[j]
      <4>1. \A j \in (i + 1)..L : j \in 1..L /\ j > r
        <5> HIDE DEF L
        <5> QED BY <1>1, <2>5, <2>7
      <4> HIDE DEF L, g, r
      <4> QED BY <2>6, <4>1
    <3>2. Row(f, i) = Row(g, i)
      <4> HIDE DEF g
      <4> QED BY <3>1, LaterRows
    <3>3. g[i] = Row(f, i)
      <4>1. CASE i = r
        BY <4>1
      <4>2. CASE i > r
        <5> HIDE DEF g
        <5> QED BY <2>6, <4>2
      <4> HIDE DEF L, g
      <4> QED BY <1>1, <2>5, <2>7, <4>1, <4>2
    <3> QED BY <3>2, <3>3
  <2>8. Filled(g, n)
    <3>1. \A i \in 1..L : i > L - n => i >= r
      <4> HIDE DEF L
      <4> QED BY <1>1, <2>5
    <3>2. DOMAIN g = 1..L
      OBVIOUS
    <3> HIDE DEF g, L, r
    <3> QED BY <2>7, <3>1, <3>2
  <2>9. g = [i \in 1..L |-> g[i]]
    OBVIOUS
  <2> HIDE DEF Filled, g
  <2> QED BY <2>8, <2>9
<1>3. PICK f : f = [i \in 1..L |-> f[i]] /\ Filled(f, L)
  <2>1. L \in 0..L
    BY <1>1
  <2> HIDE DEF L, Filled
  <2> QED BY <1>2, <2>1
<1>4. \A i \in 1..L : f[i] = Row(f, i)
  <2> HIDE DEF L
  <2> QED BY <1>1, <1>3
<1> QED BY <1>3, <1>4 DEF Unfold

\* The rows are what the recursion says.
LEMMA FromRows ==
  ASSUME Arguments
  PROVE  \A i \in 1..Len(pattern) + 1 : From[i] = Row(From, i)
<1>1. From = Unfold(From)
  <2> DEFINE P(f) == f = Unfold(f)
  <2>1. \E f : P(f)
    BY RowsExist
  <2>2. From = CHOOSE f : P(f)
    BY DEF From
  <2> HIDE DEF P
  <2>3. P(From)
    BY <2>1, <2>2
  <2> USE DEF P
  <2> QED BY <2>3
<1> QED BY <1>1 DEF Unfold

\* Positions are inside the string or at its end.
LEMMA FromInside ==
  ASSUME Arguments, NEW i \in 1..Len(pattern) + 1
  PROVE  From[i] \subseteq 1..Len(str) + 1
<1>1. Len(str) \in Nat
  BY DEF Arguments
<1>2. From[i] = Row(From, i)
  BY FromRows
<1>3. Row(From, i) \subseteq 1..Len(str) + 1
  <2>1. CASE i > Len(pattern)
    BY <1>1, <2>1 DEF Row
  <2>2. CASE ~(i > Len(pattern)) /\ ~Star(i)
    BY <1>1, <2>2 DEF Row
  <2>3. CASE ~(i > Len(pattern)) /\ Star(i)
    BY <2>3 DEF Row
  <2> QED BY <2>1, <2>2, <2>3
<1> QED BY <1>2, <1>3

\* From for the arguments pt and st.
FromOf(pt, st) ==
  LET star(i) == i \in 1..Len(pt) /\ pt[i] = "*"
      skip(i) == CHOOSE k \in i..Len(pt) + 1 : ~star(k) /\ \A j \in i..k - 1 : star(j)
  IN  CHOOSE f : f = [i \in 1..Len(pt) + 1 |->
        IF i > Len(pt) THEN {Len(st) + 1}
        ELSE IF ~star(i)
        THEN {j \in 1..Len(st) : pt[i] \in {"?", st[j]} /\ j + 1 \in f[i + 1]}
        ELSE LET next == skip(i)
             IN  {j \in 1..Len(st) + 1 :
                    \E k \in f[next] :
                      /\ j <= k
                      /\ \/ next > i + 1
                         \/ \A x \in j..k - 1 : st[x] \notin Separators}]

\* What a pattern stands for is a matter of the arguments alone.
LEMMA SameFrom ==
  ASSUME UNCHANGED args
  PROVE  From' = From /\ (Denotes' <=> Denotes)
<1>1. From = FromOf(pattern, str)
  BY DEF From, Unfold, Row, SkipStars, Star, FromOf
<1>2. From' = FromOf(pattern', str')
  BY DEF From, Unfold, Row, SkipStars, Star, FromOf
<1>3. From' = From
  BY <1>1, <1>2 DEF args
<1>4. Denotes <=> 1 \in From[1]
  BY DenotesFrom
<1>5. Denotes' <=> 1 \in From'[1]
  BY DEF Denotes, From, Unfold, Row
<1> QED BY <1>3, <1>4, <1>5

\* From every position that match_glob goes back to, a match of the rest is a
\* match of the whole.
Meant ==
  /\ s \in From[p] => Denotes
  /\ p_star # NULL =>
       \A k \in From[p_star] :
         s_star <= k /\ (\A x \in s_star..k - 1 : str[x] \notin Separators) => Denotes
  /\ p_star_star # NULL => \A k \in From[p_star_star] : s_star_star <= k => Denotes
  /\ result = 1 => Denotes

\* Every way round the loop goes on with what the rest of the pattern means.
LEMMA MeantStep ==
  ASSUME GInv, Meant, GStep
  PROVE  Meant'
<1> USE DEF GInv
<1>1. Len(pattern) \in Nat /\ Len(str) \in Nat
  BY DEF Arguments
<1>2. UNCHANGED args
  BY DEF GStep, EndOfString, DoubleStar, SingleStar, Advance, BacktrackStar,
         BacktrackStarStar, Fail, Return
<1>3. From' = From /\ (Denotes' <=> Denotes) /\ str' = str
  BY <1>2, SameFrom DEF args
<1>4. /\ p \in 1..Len(pattern) + 1 /\ s \in 1..Len(str) + 1
      /\ From[p] = Row(From, p)
      /\ From[Len(pattern) + 1] = {Len(str) + 1}
  <2>1. \A i \in 1..Len(pattern) + 1 : From[i] = Row(From, i)
    BY FromRows
  <2>2. Row(From, Len(pattern) + 1) = {Len(str) + 1}
    BY <1>1 DEF Row
  <2> QED BY <1>1, <2>1, <2>2 DEF Positions
<1>5. ASSUME NEW b \in BOOLEAN, Return(b), b => Denotes
      PROVE  Meant'
  <2>1. UNCHANGED <<p, s, p_star, s_star, p_star_star, s_star_star>> /\ (result' = 1 => Denotes)
    BY <1>5 DEF Return, stars
  <2> QED BY <1>3, <2>1 DEF Meant
<1>6. CASE EndOfString
  <2>1. ASSUME AllStars(p)
        PROVE  Denotes
    <3>1. s = Len(str) + 1
      BY <1>4, <1>6 DEF EndOfString
    <3>2. CASE p = Len(pattern) + 1
      BY <1>4, <3>1, <3>2 DEF Meant
    <3>3. CASE p <= Len(pattern)
      <4>1. Star(p)
        BY <1>1, <1>4, <2>1, <3>3 DEF AllStars
      <4>2. SkipStars(p) = Len(pattern) + 1
        <5>1. SkipStars(p) \in p..Len(pattern) + 1 /\ ~Star(SkipStars(p))
          BY <1>4, SkipStarsAre
        <5> QED BY <1>1, <1>4, <2>1, <5>1 DEF AllStars
      <4>3. Len(str) + 1 \in From[p]
        BY <1>1, <1>4, <3>3, <4>1, <4>2 DEF Row
      <4> QED BY <3>1, <4>3 DEF Meant
    <3> QED BY <1>1, <1>4, <3>2, <3>3
  <2>2. AllStars(p) \in BOOLEAN
    BY DEF AllStars
  <2> QED BY <1>5, <1>6, <2>1, <2>2 DEF EndOfString
<1>7. CASE DoubleStar
  <2> DEFINE q == SkipStars(p + 2)
  <2>1. p \in 1..Len(pattern) /\ p + 1 \in 1..Len(pattern) /\ Star(p) /\ Star(p + 1) /\ s <= Len(str)
    BY <1>1, <1>4, <1>7 DEF DoubleStar, Star, InLoop
  <2>2. q \in (p + 2)..Len(pattern) + 1 /\ SkipStars(p) = q
    BY <1>7, DoubleStarSkips
  <2>3. \A k \in From[q] : s <= k => Denotes
    <3>1. \A k \in From[q] : s <= k => s \in From[p]
      <4> HIDE DEF q
      <4> QED BY <1>1, <1>4, <2>1, <2>2 DEF Row
    <3> QED BY <3>1 DEF Meant
  <2>4. CASE q > Len(pattern)
    <3>1. q = Len(pattern) + 1
      <4> HIDE DEF q
      <4> QED BY <1>1, <2>2, <2>4
    <3>2. Denotes
      <4> HIDE DEF q
      <4> QED BY <1>4, <2>1, <2>3, <3>1
    <3>3. Return(TRUE)
      BY <1>7, <2>4 DEF DoubleStar
    <3> QED BY <1>5, <3>2, <3>3
  <2>5. CASE ~(q > Len(pattern))
    <3>1. p' = q /\ p_star_star' = q /\ s_star_star' = s /\ p_star' = NULL /\ s' = s /\ result' = result
      BY <1>7, <2>5 DEF DoubleStar
    <3> HIDE DEF q
    <3>2. s \in From[q] => Denotes
      BY <1>4, <2>3
    <3> QED BY <1>3, <2>3, <3>1, <3>2 DEF Meant
  <2> QED BY <2>4, <2>5
<1>8. CASE SingleStar
  <2> DEFINE q == SkipStars(p + 1)
  <2>1. p \in 1..Len(pattern) /\ Star(p) /\ ~Star(p + 1) /\ s <= Len(str)
    BY <1>1, <1>4, <1>8 DEF SingleStar, Star, InLoop
  <2>2. q = p + 1 /\ SkipStars(p) = q
    BY <1>8, SingleStarSkips
  <2>3. \A k \in From[q] :
          s <= k /\ (\A x \in s..k - 1 : str[x] \notin Separators) => Denotes
    <3>1. \A k \in From[q] :
            s <= k /\ (\A x \in s..k - 1 : str[x] \notin Separators) => s \in From[p]
      <4> HIDE DEF q
      <4> QED BY <1>1, <1>4, <2>1, <2>2 DEF Row
    <3> QED BY <3>1 DEF Meant
  <2>4. CASE q > Len(pattern)
    <3>1. q = Len(pattern) + 1
      <4> HIDE DEF q
      <4> QED BY <1>1, <2>1, <2>2, <2>4
    <3>2. (\A j \in s..Len(str) : Consumes(str[j])) => Denotes
      <4> HIDE DEF q
      <4>1. (Len(str) + 1) - 1 = Len(str) /\ s <= Len(str) + 1
        BY <1>1, <1>4, <2>1
      <4> QED BY <1>4, <2>3, <3>1, <4>1 DEF Consumes
    <3>3. Return(\A j \in s..Len(str) : Consumes(str[j]))
      BY <1>8, <2>4 DEF SingleStar
    <3> QED BY <1>5, <3>2, <3>3
  <2>5. CASE ~(q > Len(pattern))
    <3>1. /\ p' = q /\ p_star' = q /\ s_star' = s /\ s' = s
          /\ UNCHANGED <<p_star_star, s_star_star, result>>
      BY <1>8, <2>5 DEF SingleStar
    <3> HIDE DEF q
    <3>2. s \in From[q] => Denotes
      BY <1>4, <2>3
    <3> QED BY <1>3, <2>3, <3>1, <3>2 DEF Meant
  <2> QED BY <2>4, <2>5
<1>9. CASE Advance
  <2>1. /\ ~Star(p) /\ p <= Len(pattern) /\ s <= Len(str) /\ pattern[p] \in {"?", str[s]}
        /\ p' = p + 1 /\ s' = s + 1
        /\ UNCHANGED <<p_star, s_star, p_star_star, s_star_star, result>>
    BY <1>9 DEF Advance, InLoop, CharacterMatches, stars
  <2>2. s + 1 \in From[p + 1] => s \in From[p]
    BY <1>1, <1>4, <2>1 DEF Row
  <2> QED BY <1>3, <2>1, <2>2 DEF Meant
<1>10. CASE BacktrackStar
  <2>1. /\ p_star # NULL /\ str[s_star] \notin Separators
        /\ s_star' = s_star + 1 /\ s' = s_star + 1 /\ p' = p_star
        /\ UNCHANGED <<p_star, p_star_star, s_star_star, result>>
    BY <1>10 DEF BacktrackStar, Extensible, Consumes
  <2>2. s_star \in Nat
    BY <1>1 DEF Resumes
  <2>3. ASSUME NEW k \in From[p_star], s_star + 1 <= k,
               \A x \in (s_star + 1)..k - 1 : str[x] \notin Separators
        PROVE  Denotes
    <3>1. k \in Int
      BY <1>1, <2>1, <2>3, FromInside DEF Resumes, NULL
    <3>2. \A x \in s_star..k - 1 : x = s_star \/ x \in (s_star + 1)..k - 1
      BY <2>2, <3>1
    <3>3. \A x \in s_star..k - 1 : str[x] \notin Separators
      BY <2>1, <2>3, <3>2
    <3>4. s_star <= k
      BY <2>2, <2>3, <3>1
    <3> QED BY <2>1, <3>3, <3>4 DEF Meant
  <2>4. s_star + 1 \in From[p_star] => Denotes
    <3>1. \A x \in (s_star + 1)..((s_star + 1) - 1) : FALSE
      BY <2>2
    <3>2. s_star + 1 <= s_star + 1
      BY <2>2
    <3> QED BY <2>3, <3>1, <3>2
  <2> QED BY <1>3, <2>1, <2>3, <2>4 DEF Meant
<1>11. CASE BacktrackStarStar
  <2>1. /\ p_star_star # NULL
        /\ s_star_star' = s_star_star + 1 /\ s' = s_star_star + 1 /\ p' = p_star_star
        /\ UNCHANGED <<p_star, s_star, p_star_star, result>>
    BY <1>11 DEF BacktrackStarStar, Resume
  <2>2. s_star_star \in Nat
    BY <1>1 DEF Resumes
  <2>3. ASSUME NEW k \in From[p_star_star], s_star_star + 1 <= k
        PROVE  Denotes
    <3>1. k \in Int
      BY <1>1, <2>1, <2>3, FromInside DEF Resumes, NULL
    <3>2. s_star_star <= k
      BY <2>2, <2>3, <3>1
    <3> QED BY <2>1, <3>2 DEF Meant
  <2>4. s_star_star + 1 \in From[p_star_star] => Denotes
    BY <2>2, <2>3
  <2> QED BY <1>3, <2>1, <2>3, <2>4 DEF Meant
<1>12. CASE Fail
  BY <1>5, <1>12 DEF Fail
<1> QED BY <1>6, <1>7, <1>8, <1>9, <1>10, <1>11, <1>12 DEF GStep

\* Whatever match_glob reports as a match is one, for every pattern and every
\* string, wherever its backtracking takes it.
THEOREM GlobSound == GSpec => []Sound
<1>1. GInit => GInv /\ Meant
  <2>1. GInit => Meant
    BY DenotesFrom DEF GInit, Meant, NULL, Running
  <2>2. GInit => GInv
    BY GlobAssumption
       DEF GInit, GInv, Arguments, Positions, Resumes, NULL, Running, GlobAssumption
  <2> QED BY <2>1, <2>2
<1>2. GInv /\ Meant /\ [GNext]_gvars => GInv' /\ Meant'
  <2>1. ASSUME GInv, Meant, UNCHANGED gvars
        PROVE  GInv' /\ Meant'
    <3>1. From' = From /\ (Denotes' <=> Denotes)
      BY <2>1, SameFrom DEF gvars, args
    <3>2. GInv'
      BY <2>1 DEF gvars, GInv, Arguments, Positions, Resumes
    <3> QED BY <2>1, <3>1, <3>2 DEF gvars, Meant
  <2> QED BY <2>1, GStepInv, MeantStep DEF GNext, Returned
<1>3. Meant => Sound
  BY DEF Meant, Sound
<1> QED BY <1>1, <1>2, <1>3, PTL DEF GSpec

-----------------------------------------------------------------------------
(* What is not tried need not be tried.                                    *)

\* Nothing that a '*' may stand for is left at the place to resume from.
Blocked == s_star <= Len(str) /\ str[s_star] \in Separators

\* Since the '*' the pattern and the string went on side by side.
SideBySide ==
  /\ p_star <= p /\ p - p_star = s - s_star
  /\ \A d \in 0..p - p_star - 1 :
       ~Star(p_star + d) /\ pattern[p_star + d] \in {"?", str[s_star + d]}

\* Runs of stars are passed in one go, and the text behind a '*' has been
\* compared, unless a '**' was resumed since.
Shape ==
  /\ Star(p) => ~Star(p - 1)
  /\ p_star # NULL => ~Star(p_star) /\ (Blocked \/ SideBySide)
  /\ p_star_star # NULL => ~Star(p_star_star) /\ \E i \in 1..Len(pattern) - 1 : Star(i) /\ Star(i + 1)

\* The ways to a match that are still open: from the matching position, or
\* when a star takes more than it has.
LaterStar ==
  /\ p_star # NULL
  /\ \E k \in From[p_star] : s_star < k /\ \A x \in s_star..k - 1 : str[x] \notin Separators
LaterStarStar == p_star_star # NULL /\ \E k \in From[p_star_star] : s_star_star < k
Open == s \in From[p] \/ LaterStar \/ LaterStarStar

\* The rest of the pattern matches from here or from further on: match_glob
\* never uses up more of the string than it has to.
Ahead ==
  /\ \E k \in From[p] : s <= k
  /\ p_star # NULL => Blocked \/ \E k \in From[p_star] : s_star <= k

\* As long as there is a match, one is open.
Hope == Tractable /\ Denotes => result # 0 /\ (result = Running => Open /\ Ahead)

\* Every way round the loop keeps that.
LEMMA ShapeStep ==
  ASSUME GInv, Shape, GStep
  PROVE  Shape'
<1>1. Len(pattern) \in Nat /\ Len(str) \in Nat /\ p \in 1..Len(pattern) + 1 /\ s \in 1..Len(str) + 1
      /\ s_star \in Int
  BY DEF GInv, Arguments, Positions, Resumes
<1>2. UNCHANGED <<pattern, str>> /\ \A i : Star(i)' = Star(i)
  BY DEF GStep, EndOfString, DoubleStar, SingleStar, Advance, BacktrackStar,
         BacktrackStarStar, Fail, Return, args, Star
<1>3. ASSUME UNCHANGED <<p, s, stars>>
      PROVE  Shape'
  BY <1>2, <1>3 DEF Shape, Blocked, SideBySide, stars, Star
<1>4. CASE EndOfString \/ Fail
  BY <1>3, <1>4 DEF EndOfString, Fail, Return
<1>5. CASE DoubleStar
  <2>1. CASE SkipStars(p + 2) > Len(pattern)
    BY <1>3, <1>5, <2>1 DEF DoubleStar, Return
  <2>2. CASE ~(SkipStars(p + 2) > Len(pattern))
    <3>1. p' = SkipStars(p + 2) /\ p_star_star' = p' /\ p_star' = NULL
      BY <1>5, <2>2 DEF DoubleStar
    <3>2. ~Star(p') /\ \E i \in 1..Len(pattern) - 1 : Star(i) /\ Star(i + 1)
      BY <1>2, <1>5, <3>1, DoubleStarSkips DEF Star
    <3> QED BY <1>2, <3>1, <3>2 DEF Shape, Star
  <2> QED BY <2>1, <2>2
<1>6. CASE SingleStar
  <2>1. CASE SkipStars(p + 1) > Len(pattern)
    BY <1>3, <1>6, <2>1 DEF SingleStar, Return
  <2>2. CASE ~(SkipStars(p + 1) > Len(pattern))
    <3>1. /\ p' = p + 1 /\ p_star' = p + 1 /\ s_star' = s /\ s' = s
          /\ p_star_star' = p_star_star /\ ~Star(p + 1)
      BY <1>6, <2>2, SingleStarSkips DEF SingleStar
    <3>2. SideBySide'
      BY <1>1, <3>1 DEF SideBySide
    <3> QED BY <1>2, <3>1, <3>2 DEF Shape, Star
  <2> QED BY <2>1, <2>2
<1>7. CASE Advance
  <2>1. /\ ~Star(p) /\ pattern[p] \in {"?", str[s]}
        /\ p' = p + 1 /\ s' = s + 1
        /\ UNCHANGED <<p_star, s_star, p_star_star>>
    BY <1>7 DEF Advance, CharacterMatches, stars
  <2>2. ~Star(p' - 1)
    BY <1>1, <2>1
  <2>3. ASSUME p_star # NULL, Blocked PROVE Blocked'
    BY <1>2, <2>1, <2>3 DEF Blocked
  <2>4. ASSUME p_star # NULL, SideBySide PROVE SideBySide'
    <3>1. p_star \in Nat
      BY <1>1 DEF GInv, Resumes
    <3>2. p_star <= p' /\ p' - p_star = s' - s_star
      BY <1>1, <2>1, <2>4, <3>1 DEF SideBySide
    <3>3. ASSUME NEW d \in 0..p' - p_star - 1
          PROVE  ~Star(p_star + d) /\ pattern[p_star + d] \in {"?", str[s_star + d]}
      <4>1. CASE d \in 0..p - p_star - 1
        BY <2>4, <4>1 DEF SideBySide
      <4>2. CASE d = p - p_star
        <5>1. p_star + d = p /\ s_star + d = s
          BY <1>1, <2>4, <3>1, <4>2 DEF SideBySide
        <5> QED BY <2>1, <5>1
      <4> QED BY <1>1, <2>1, <3>1, <3>3, <4>1, <4>2
    <3> QED BY <1>2, <2>1, <3>2, <3>3 DEF SideBySide, Star
  <2> QED BY <1>2, <2>1, <2>2, <2>3, <2>4 DEF Shape, Star
<1>8. CASE BacktrackStar
  <2>1. /\ p_star # NULL
        /\ s_star' = s_star + 1 /\ s' = s_star + 1 /\ p' = p_star
        /\ UNCHANGED <<p_star, p_star_star>>
    BY <1>8 DEF BacktrackStar, Extensible
  <2>2. p_star \in Nat /\ SideBySide'
    BY <1>1, <2>1 DEF SideBySide, GInv, Resumes
  <2> QED BY <1>1, <1>2, <2>1, <2>2 DEF Shape, Star
<1>9. CASE BacktrackStarStar
  <2>1. /\ p_star_star # NULL /\ p' = p_star_star
        /\ UNCHANGED <<p_star, s_star, p_star_star>>
        /\ p_star # NULL => str[s_star] \in Separators
        /\ s \in 1..Len(str)
    BY <1>1, <1>9 DEF BacktrackStarStar, Mismatch, InLoop, Extensible, Consumes
  <2>2. p_star # NULL => Blocked'
    <3>1. s_star <= Len(str)
      BY <1>1, <2>1 DEF GInv, Resumes
    <3> QED BY <1>2, <2>1, <3>1 DEF Blocked
  <2> QED BY <1>2, <2>1, <2>2 DEF Shape, Star
<1> QED BY <1>4, <1>5, <1>6, <1>7, <1>8, <1>9 DEF GStep

\* The rows of From, by what the pattern has there.
LEMMA FromAt ==
  ASSUME Arguments, NEW i \in 1..Len(pattern) + 1
  PROVE  /\ i = Len(pattern) + 1 => From[i] = {Len(str) + 1}
         /\ i <= Len(pattern) /\ ~Star(i) =>
              From[i] = {j \in 1..Len(str) : pattern[i] \in {"?", str[j]} /\ j + 1 \in From[i + 1]}
         /\ Star(i) /\ SkipStars(i) > i + 1 =>
              From[i] = {j \in 1..Len(str) + 1 : \E k \in From[SkipStars(i)] : j <= k}
         /\ Star(i) /\ SkipStars(i) = i + 1 =>
              From[i] = {j \in 1..Len(str) + 1 :
                           \E k \in From[i + 1] :
                             j <= k /\ \A x \in j..k - 1 : str[x] \notin Separators}
<1>1. Len(pattern) \in Nat /\ From[i] = Row(From, i)
  BY FromRows DEF Arguments
<1>2. Star(i) => i <= Len(pattern)
  BY DEF Star
<1>3. i = Len(pattern) + 1 => Row(From, i) = {Len(str) + 1}
  BY <1>1 DEF Row
<1>4. i <= Len(pattern) /\ ~Star(i) =>
        Row(From, i) = {j \in 1..Len(str) : pattern[i] \in {"?", str[j]} /\ j + 1 \in From[i + 1]}
  BY <1>1 DEF Row
<1>5. Star(i) /\ SkipStars(i) > i + 1 =>
        Row(From, i) = {j \in 1..Len(str) + 1 : \E k \in From[SkipStars(i)] : j <= k}
  BY <1>1, <1>2 DEF Row
<1>6. Star(i) /\ SkipStars(i) = i + 1 =>
        Row(From, i) = {j \in 1..Len(str) + 1 :
                          \E k \in From[i + 1] :
                            j <= k /\ \A x \in j..k - 1 : str[x] \notin Separators}
  BY <1>1, <1>2 DEF Row
<1> QED BY <1>1, <1>3, <1>4, <1>5, <1>6

\* A match that begins with n characters goes on behind them.
LEMMA Segment ==
  ASSUME Arguments, NEW a \in 1..Len(pattern) + 1, NEW n \in Nat, a + n <= Len(pattern) + 1,
         \A d \in 0..n - 1 : ~Star(a + d), NEW j \in From[a]
  PROVE  /\ j + n \in From[a + n]
         /\ \A d \in 0..n - 1 : pattern[a + d] \in {"?", str[j + d]}
<1> DEFINE Here(m) == j + m \in From[a + m]
           Fits(d) == pattern[a + d] \in {"?", str[j + d]}
           Bad == {m \in 0..n : ~Here(m)}
<1>1. Len(pattern) \in Nat /\ j \in Int
  BY FromInside DEF Arguments
<1>2. ASSUME NEW m \in 0..n - 1, Here(m) PROVE Here(m + 1) /\ Fits(m)
  <2>1. a + m \in 1..Len(pattern) + 1 /\ a + m <= Len(pattern) /\ ~Star(a + m)
    BY <1>1
  <2>2. j + m \in {y \in 1..Len(str) : pattern[a + m] \in {"?", str[y]} /\ y + 1 \in From[(a + m) + 1]}
    BY <1>2, <2>1, FromAt
  <2>3. (j + m) + 1 = j + (m + 1) /\ (a + m) + 1 = a + (m + 1)
    BY <1>1
  <2> QED BY <2>2, <2>3
<1>3. Here(0)
  BY <1>1
<1> HIDE DEF Here, Fits
<1>4. \A m \in 0..n : Here(m)
  <2> SUFFICES ASSUME Bad # {} PROVE FALSE
    OBVIOUS
  <2>1. PICK m \in Bad : \A i \in Bad : ~(<<i, m>> \in OpToRel(<, Nat))
    <3>1. Bad \subseteq Nat
      OBVIOUS
    <3> HIDE DEF Bad
    <3> QED BY <3>1, WFMin, NatLessThanWellFounded
  <2>2. m \in 0..n /\ ~Here(m) /\ m # 0
    BY <1>3
  <2>3. m - 1 \in 0..n - 1 /\ m - 1 \in 0..n /\ (m - 1) + 1 = m
    BY <2>2
  <2>4. <<m - 1, m>> \in OpToRel(<, Nat)
    BY <2>2, <2>3 DEF OpToRel
  <2>5. Here(m - 1)
    BY <2>1, <2>3, <2>4
  <2>6. Here((m - 1) + 1)
    BY <1>2, <2>3, <2>5
  <2> QED BY <2>2, <2>3, <2>6
<1>5. Here(n)
  BY <1>4
<1>6. \A d \in 0..n - 1 : Fits(d)
  BY <1>2, <1>4
<1> QED BY <1>5, <1>6 DEF Here, Fits

\* At a further '*' there is nothing to gain from what the '*' before it could
\* take: it would end further on, and there is no separator up to there.
LEMMA EarliestIsBest ==
  ASSUME GInv, Shape, SingleStar, Tractable, LaterStar
  PROVE  s \in From[p]
<1>1. /\ Arguments /\ Len(pattern) \in Nat /\ Len(str) \in Nat
      /\ p \in 1..Len(pattern) /\ s \in 1..Len(str) /\ Star(p) /\ SkipStars(p) = p + 1
      /\ ~Star(p + 1) /\ ~Star(p - 1)
      /\ p_star \in 1..Len(pattern) /\ s_star \in 1..Len(str) + 1
  BY SingleStarSkips DEF GInv, Arguments, Positions, Resumes, Shape, LaterStar, NULL
<1>2. \/ \A i \in 1..Len(pattern) : pattern[i] # "?"
      \/ \A x \in 1..Len(str) : str[x] \notin Separators
  BY <1>1 DEF Tractable, IsSingleStar
<1>3. PICK k \in From[p_star] :
        s_star < k /\ \A x \in s_star..k - 1 : str[x] \notin Separators
  BY DEF LaterStar
<1>4. k \in 1..Len(str) + 1
  BY <1>1, FromInside
<1>5. SideBySide
  <2>1. s_star \in s_star..k - 1
    BY <1>1, <1>3, <1>4
  <2>2. ~Blocked
    BY <1>3, <2>1 DEF Blocked
  <2> QED BY <2>2 DEF Shape, LaterStar
<1> DEFINE n == p - p_star
           e == k + n
<1>6. n \in Nat /\ p_star + n = p /\ s_star + n = s
  BY <1>1, <1>5 DEF SideBySide
<1>7. \A d \in 0..n - 1 : ~Star(p_star + d) /\ pattern[p_star + d] \in {"?", str[s_star + d]}
  BY <1>5 DEF SideBySide
<1> HIDE DEF n
<1>8. /\ e \in From[p]
      /\ \A d \in 0..n - 1 : pattern[p_star + d] \in {"?", str[k + d]}
  <2>1. p_star \in 1..Len(pattern) + 1 /\ p_star + n <= Len(pattern) + 1
    BY <1>1, <1>6
  <2> QED BY <1>1, <1>6, <1>7, <2>1, Segment
<1>9. e \in 1..Len(str) + 1 /\ s < e
  <2>1. e \in 1..Len(str) + 1
    BY <1>1, <1>8, FromInside
  <2> QED BY <1>1, <1>3, <1>4, <1>6, <2>1
<1>0. From[p] = {j \in 1..Len(str) + 1 :
                   \E f \in From[p + 1] :
                     j <= f /\ \A x \in j..f - 1 : str[x] \notin Separators}
  <2>1. p \in 1..Len(pattern) + 1
    BY <1>1
  <2> QED BY <1>1, <2>1, FromAt
<1>10. PICK f \in From[p + 1] : e <= f /\ \A x \in e..f - 1 : str[x] \notin Separators
  BY <1>0, <1>8
<1>11. f \in 1..Len(str) + 1
  <2>1. p + 1 \in 1..Len(pattern) + 1
    BY <1>1
  <2> QED BY <1>1, <2>1, FromInside
<1>12. \A x \in s_star..e - 1 : str[x] \notin Separators
  <2> DEFINE Bad == {x \in s_star..e - 1 : str[x] \in Separators}
  <2> SUFFICES ASSUME Bad # {} PROVE FALSE
    OBVIOUS
  <2>1. PICK x \in Bad : \A y \in Bad : ~(<<y, x>> \in OpToRel(<, Nat))
    <3>1. Bad \subseteq Nat
      BY <1>1
    <3> HIDE DEF Bad
    <3> QED BY <3>1, WFMin, NatLessThanWellFounded
  <2>2. x \in s_star..e - 1 /\ str[x] \in Separators
    BY <2>1
  <2>3. k <= x /\ x \in 1..Len(str)
    <3>1. x \in Int /\ s_star \in 1..Len(str) + 1 /\ Len(str) \in Nat
      BY <1>1, <1>9, <2>2
    <3>2. x \in 1..Len(str)
      BY <1>9, <2>2, <3>1
    <3>3. x < k => x \in s_star..k - 1
      BY <1>4, <2>2, <3>1
    <3> QED BY <1>3, <1>4, <2>2, <3>1, <3>2, <3>3
  <2> DEFINE d == x - k
  <2>4. d \in 0..n - 1 /\ k + d = x
    BY <1>4, <1>6, <2>2, <2>3
  <2>5. /\ s_star + d \in s_star..e - 1 /\ s_star + d < x
        /\ s_star + d \in Nat /\ x \in Nat
    BY <1>1, <1>3, <1>4, <1>6, <2>2, <2>4
  <2> HIDE DEF d
  <2>6. str[s_star + d] \notin Separators
    <3>1. <<s_star + d, x>> \in OpToRel(<, Nat)
      BY <2>5 DEF OpToRel
    <3>2. s_star + d \notin Bad
      BY <2>1, <3>1
    <3> QED BY <2>5, <3>2
  <2>7. /\ pattern[p_star + d] \in {"?", str[s_star + d]}
        /\ pattern[p_star + d] \in {"?", str[x]}
    BY <1>7, <1>8, <2>4
  <2>8. pattern[p_star + d] = "?"
    BY <2>2, <2>6, <2>7
  <2>9. p_star + d \in 1..Len(pattern)
    <3>1. p_star \in 1..Len(pattern) /\ p \in 1..Len(pattern) /\ Len(pattern) \in Nat
      BY <1>1
    <3> QED BY <1>6, <2>4, <3>1
  <2> QED BY <1>2, <2>2, <2>3, <2>8, <2>9
<1>13. s <= f /\ \A x \in s..f - 1 : str[x] \notin Separators
  <2>1. s \in Nat /\ s_star \in Nat /\ e \in Nat /\ f \in Nat
    BY <1>1, <1>9, <1>11
  <2>2. s <= f /\ s_star <= s
    BY <1>6, <1>9, <1>10, <2>1
  <2>3. \A x \in s..f - 1 : x \in s_star..e - 1 \/ x \in e..f - 1
    BY <2>1, <2>2
  <2> QED BY <1>10, <1>12, <2>2, <2>3
<1>14. s \in 1..Len(str) + 1
  BY <1>1
<1> QED BY <1>0, <1>13, <1>14

\* No way round the loop gives up a match.
LEMMA HopeStep ==
  ASSUME GInv, Shape, Hope, GStep
  PROVE  Hope'
<1>1. /\ Arguments /\ Len(pattern) \in Nat /\ Len(str) \in Nat
      /\ p \in 1..Len(pattern) + 1 /\ s \in 1..Len(str) + 1
      /\ p_star \in 0..Len(pattern) /\ p_star_star \in 0..Len(pattern)
      /\ s_star \in Nat /\ s_star_star \in Nat
  BY DEF GInv, Arguments, Positions, Resumes
<1>2. UNCHANGED args /\ result = Running
  BY DEF GStep, EndOfString, DoubleStar, SingleStar, Advance, BacktrackStar,
         BacktrackStarStar, Fail, Return, Mismatch, InLoop
<1>3. From' = From /\ (Denotes' <=> Denotes) /\ str' = str /\ (Tractable' <=> Tractable)
  <2>1. Tractable' <=> Tractable
    BY <1>2 DEF args, Tractable, IsSingleStar, Star
  <2> QED BY <1>2, <2>1, SameFrom DEF args
<1> SUFFICES ASSUME Tractable, Denotes
             PROVE  result' # 0 /\ (result' = Running => Open' /\ Ahead')
  BY <1>3 DEF Hope
<1>4. Open /\ Ahead
  BY <1>2 DEF Hope
<1>5. ASSUME NEW i \in 1..Len(pattern) + 1, NEW k \in From[i] PROVE k \in 1..Len(str) + 1
  BY <1>1, <1>5, FromInside
<1>6. CASE EndOfString
  <2>1. s = Len(str) + 1
    BY <1>1, <1>6 DEF EndOfString
  <2>2. Len(str) + 1 \in From[p]
    BY <1>1, <1>4, <1>5, <2>1 DEF Ahead
  <2>3. CASE p = Len(pattern) + 1
    BY <1>1, <1>6, <2>3 DEF EndOfString, Return, AllStars, Running
  <2>4. CASE p <= Len(pattern)
    <3>1. Star(p)
      BY <1>1, <2>2, <2>4, FromAt
    <3>2. /\ SkipStars(p) \in (p + 1)..Len(pattern) + 1 /\ ~Star(SkipStars(p))
          /\ \A j \in p..SkipStars(p) - 1 : Star(j)
      <4>1. p \in 1..Len(pattern)
        BY <1>1, <2>4
      <4>2. SkipStars(p) \in (p + 1)..Len(pattern) + 1
        BY <1>1, <3>1, <4>1, SkipsAtLeastOne
      <4>3. ~Star(SkipStars(p)) /\ \A j \in p..SkipStars(p) - 1 : Star(j)
        BY <1>1, SkipStarsAre
      <4> QED BY <4>2, <4>3
    <3>3. Len(str) + 1 \in From[SkipStars(p)]
      <4>1. \E k \in From[SkipStars(p)] : Len(str) + 1 <= k
        <5>1. \A j \in From[p] : \E k \in From[SkipStars(p)] : j <= k
          BY <1>1, <3>1, <3>2, FromAt
        <5> QED BY <2>2, <5>1
      <4>2. SkipStars(p) \in 1..Len(pattern) + 1
        BY <1>1, <3>2
      <4> QED BY <1>1, <1>5, <4>1, <4>2
    <3>4. SkipStars(p) = Len(pattern) + 1
      <4>1. SkipStars(p) \in 1..Len(pattern) + 1
        BY <1>1, <3>2
      <4>2. SkipStars(p) <= Len(pattern) => Len(str) + 1 \in 1..Len(str)
        BY <1>1, <3>2, <3>3, <4>1, FromAt
      <4> QED BY <1>1, <4>1, <4>2
    <3>5. AllStars(p)
      BY <1>1, <3>2, <3>4 DEF AllStars
    <3> QED BY <1>6, <3>5 DEF EndOfString, Return, Running
  <2> QED BY <1>1, <2>3, <2>4
<1>7. CASE DoubleStar
  <2> DEFINE q == SkipStars(p)
  <2>1. /\ p \in 1..Len(pattern) - 1 /\ Star(p) /\ q = SkipStars(p + 2)
        /\ q \in (p + 2)..Len(pattern) + 1
    BY <1>7, DoubleStarSkips DEF GInv
  <2>2. PICK k \in From[q] : s <= k
    <3>1. PICK e \in From[p] : s <= e
      BY <1>4 DEF Ahead
    <3>2. PICK k \in From[q] : e <= k
      BY <1>1, <2>1, <3>1, FromAt
    <3>3. q \in 1..Len(pattern) + 1
      BY <1>1, <2>1
    <3> HIDE DEF q
    <3>4. e \in Int /\ k \in Int
      BY <1>1, <1>5, <3>3
    <3> QED BY <1>1, <3>1, <3>2, <3>4
  <2>3. CASE q > Len(pattern)
    BY <1>7, <2>1, <2>3 DEF DoubleStar, Return, Running
  <2>4. CASE ~(q > Len(pattern))
    <3>1. /\ p' = q /\ s' = s /\ p_star' = NULL /\ result' = result
          /\ p_star_star' = q /\ s_star_star' = s
      BY <1>7, <2>1, <2>4 DEF DoubleStar
    <3>2. q \in 1..Len(pattern) + 1 /\ q # NULL
      BY <1>1, <2>1 DEF NULL
    <3> HIDE DEF q
    <3>3. k = s \/ s < k
      BY <1>1, <1>5, <2>2, <3>2
    <3>4. Open'
      BY <1>3, <2>2, <3>1, <3>2, <3>3 DEF Open, LaterStarStar
    <3>5. Ahead'
      BY <1>3, <2>2, <3>1 DEF Ahead
    <3> QED BY <1>2, <3>1, <3>4, <3>5 DEF Running
  <2> QED BY <2>3, <2>4
<1>8. CASE SingleStar
  <2>1. /\ p \in 1..Len(pattern) /\ Star(p) /\ ~Star(p + 1) /\ ~Star(p - 1)
        /\ SkipStars(p) = p + 1 /\ SkipStars(p + 1) = p + 1 /\ p + 1 \in 1..Len(pattern) + 1
    BY <1>1, <1>8, SingleStarSkips DEF GInv, Shape
  <2>2. s \in From[p] \/ LaterStarStar
    BY <1>4, <1>8, EarliestIsBest DEF Open
  <2>3. ASSUME s \in From[p]
        PROVE  \E k \in From[p + 1] :
                 s <= k /\ \A x \in s..k - 1 : str[x] \notin Separators
    BY <1>1, <2>1, <2>3, FromAt
  <2>4. CASE p + 1 > Len(pattern)
    <3>1. p = Len(pattern) /\ IsSingleStar(Len(pattern))
      BY <1>1, <2>1, <2>4 DEF IsSingleStar
    <3>2. ~LaterStarStar
      BY <3>1 DEF LaterStarStar, Shape, Tractable
    <3>3. From[p + 1] = {Len(str) + 1}
      BY <1>1, <2>1, <3>1, FromAt
    <3>4. \A x \in s..Len(str) : str[x] \notin Separators
      <4>1. (Len(str) + 1) - 1 = Len(str)
        BY <1>1
      <4> QED BY <2>2, <2>3, <3>2, <3>3, <4>1
    <3> QED BY <1>8, <2>1, <2>4, <3>4 DEF SingleStar, Return, Consumes, Running
  <2>5. CASE ~(p + 1 > Len(pattern))
    <3>1. /\ p' = p + 1 /\ p_star' = p + 1 /\ s_star' = s /\ s' = s
          /\ UNCHANGED <<p_star_star, s_star_star, result>>
      BY <1>8, <2>1, <2>5 DEF SingleStar
    <3>2. ASSUME s \in From[p] PROVE Open'
      <4>1. PICK k \in From[p + 1] :
              s <= k /\ \A x \in s..k - 1 : str[x] \notin Separators
        BY <2>3, <3>2
      <4>2. k = s \/ s < k
        BY <1>1, <1>5, <2>1, <4>1
      <4>3. p + 1 # NULL
        BY <2>1 DEF NULL
      <4> QED BY <1>3, <3>1, <4>1, <4>2, <4>3 DEF Open, LaterStar
    <3>3. Open'
      BY <1>3, <2>2, <3>1, <3>2 DEF Open, LaterStarStar
    <3>4. \E k \in From[p + 1] : s <= k
      <4>1. PICK e \in From[p] : s <= e
        BY <1>4 DEF Ahead
      <4>2. PICK k \in From[p + 1] : e <= k
        BY <1>1, <2>1, <4>1, FromAt
      <4>3. e \in Int /\ k \in Int
        BY <1>5, <2>1
      <4> QED BY <1>1, <4>1, <4>2, <4>3
    <3>5. Ahead'
      BY <1>3, <3>1, <3>4 DEF Ahead
    <3> QED BY <1>2, <3>1, <3>3, <3>5 DEF Running
  <2> QED BY <2>4, <2>5
<1>9. CASE Advance
  <2>1. /\ ~Star(p) /\ p <= Len(pattern) /\ s <= Len(str)
        /\ p' = p + 1 /\ s' = s + 1
        /\ UNCHANGED <<p_star, s_star, p_star_star, s_star_star, result>>
    BY <1>9 DEF Advance, InLoop, CharacterMatches, stars
  <2>2. \A k \in From[p] : k + 1 \in From[p + 1]
    BY <1>1, <2>1, FromAt
  <2>3. Open'
    BY <1>3, <1>4, <2>1, <2>2 DEF Open, LaterStar, LaterStarStar
  <2>4. \E k \in From[p + 1] : s + 1 <= k
    <3>1. PICK k \in From[p] : s <= k
      BY <1>4 DEF Ahead
    <3>2. s + 1 <= k + 1
      BY <1>1, <1>5, <3>1
    <3> QED BY <2>2, <3>2
  <2>5. Ahead'
    BY <1>3, <1>4, <2>1, <2>4 DEF Ahead, Blocked
  <2> QED BY <1>2, <2>1, <2>3, <2>5 DEF Running
<1>10. ASSUME Mismatch PROVE s \notin From[p]
  <2>1. s \in 1..Len(str) /\ ~Star(p) /\ ~CharacterMatches
    BY <1>1, <1>10 DEF Mismatch, InLoop
  <2>2. CASE p = Len(pattern) + 1
    BY <1>1, <2>1, <2>2, FromAt
  <2>3. CASE p <= Len(pattern)
    BY <1>1, <2>1, <2>3, FromAt DEF CharacterMatches
  <2> QED BY <1>1, <2>2, <2>3
<1>11. ASSUME Mismatch, ~Extensible PROVE LaterStarStar
  <2>1. ASSUME LaterStar PROVE FALSE
    <3>1. PICK k \in From[p_star] :
            s_star < k /\ \A x \in s_star..k - 1 : str[x] \notin Separators
      BY <2>1 DEF LaterStar
    <3>2. p_star \in 1..Len(pattern) + 1
      BY <1>1, <2>1 DEF LaterStar, NULL
    <3>3. s_star \in s_star..k - 1
      BY <1>1, <1>5, <3>1, <3>2
    <3> QED BY <1>11, <2>1, <3>1, <3>3 DEF Extensible, Consumes, LaterStar
  <2> QED BY <1>4, <1>10, <1>11, <2>1 DEF Open
<1>12. CASE BacktrackStar
  <2>1. /\ p_star # NULL /\ str[s_star] \notin Separators /\ Mismatch
        /\ s_star' = s_star + 1 /\ s' = s_star + 1 /\ p' = p_star
        /\ UNCHANGED <<p_star, p_star_star, s_star_star, result>>
    BY <1>12 DEF BacktrackStar, Extensible, Consumes
  <2>2. p_star \in 1..Len(pattern) + 1 /\ ~Blocked
    BY <1>1, <2>1 DEF NULL, Blocked
  <2>3. Open'
    <3>1. ASSUME LaterStar PROVE Open'
      <4>1. PICK k \in From[p_star] :
              s_star < k /\ \A x \in s_star..k - 1 : str[x] \notin Separators
        BY <3>1 DEF LaterStar
      <4>2. k \in Int
        BY <1>5, <2>2
      <4>3. k = s_star + 1 \/ s_star + 1 < k
        BY <1>1, <4>1, <4>2
      <4>4. \A x \in (s_star + 1)..k - 1 : x \in s_star..k - 1
        BY <1>1, <4>2
      <4> QED BY <1>3, <2>1, <4>1, <4>3, <4>4 DEF Open, LaterStar
    <3>2. LaterStarStar => Open'
      BY <1>3, <2>1 DEF Open, LaterStarStar
    <3> QED BY <1>4, <1>10, <2>1, <3>1, <3>2 DEF Open
  <2>4. \E k \in From[p_star] : s_star + 1 <= k
    <3>1. PICK k \in From[p_star] : s_star <= k
      BY <1>4, <2>1, <2>2 DEF Ahead
    <3>2. k # s_star
      <4> DEFINE n == p - p_star
      <4>1. SideBySide
        BY <2>1, <2>2 DEF Shape
      <4>2. n \in Nat /\ p_star + n = p /\ s_star + n = s
        BY <1>1, <4>1 DEF SideBySide
      <4>3. \A d \in 0..n - 1 : ~Star(p_star + d)
        BY <4>1 DEF SideBySide
      <4> HIDE DEF n
      <4>4. p_star + n <= Len(pattern) + 1
        BY <1>1, <4>2
      <4>5. s_star \in From[p_star] => s_star + n \in From[p_star + n]
        BY <1>1, <2>2, <4>2, <4>3, <4>4, Segment
      <4> QED BY <1>10, <2>1, <4>2, <4>5
    <3> QED BY <1>1, <1>5, <2>2, <3>1, <3>2
  <2>5. Ahead'
    BY <1>3, <2>1, <2>4 DEF Ahead
  <2> QED BY <1>2, <2>1, <2>3, <2>5 DEF Running
<1>13. CASE BacktrackStarStar
  <2>1. /\ Mismatch /\ ~Extensible /\ p_star_star # NULL
        /\ s_star_star' = s_star_star + 1 /\ s' = s_star_star + 1 /\ p' = p_star_star
        /\ UNCHANGED <<p_star, s_star, p_star_star, result>>
    BY <1>13 DEF BacktrackStarStar, Resume
  <2>2. PICK k \in From[p_star_star] : s_star_star < k
    BY <1>11, <2>1 DEF LaterStarStar
  <2>3. s_star_star + 1 <= k /\ (k = s_star_star + 1 \/ s_star_star + 1 < k)
    <3>1. p_star_star \in 1..Len(pattern) + 1
      BY <1>1, <2>1 DEF NULL
    <3> QED BY <1>1, <1>5, <2>2, <3>1
  <2>4. Open'
    BY <1>3, <2>1, <2>2, <2>3 DEF Open, LaterStarStar
  <2>5. p_star # NULL => Blocked'
    <3>1. s_star <= Len(str)
      BY <1>1, <2>1 DEF Mismatch, InLoop, GInv, Resumes
    <3> QED BY <1>3, <2>1, <3>1 DEF Blocked, Extensible, Consumes
  <2>6. Ahead'
    BY <1>3, <2>1, <2>2, <2>3, <2>5 DEF Ahead
  <2> QED BY <1>2, <2>1, <2>4, <2>6 DEF Running
<1>14. CASE Fail
  BY <1>11, <1>14 DEF Fail, LaterStarStar
<1> QED BY <1>6, <1>7, <1>8, <1>9, <1>12, <1>13, <1>14 DEF GStep

\* Whatever match_glob reports as a mismatch is one, for every pattern and
\* every string of the kind that Tractable names (ignore.c:19-77).
THEOREM GlobComplete == GSpec => []CompleteWhenTractable
<1>1. GInit => GInv /\ Shape /\ Hope
  <2> SUFFICES ASSUME GInit PROVE GInv /\ Shape /\ Hope
    OBVIOUS
  <2>1. GInv
    BY GlobAssumption
       DEF GInit, GInv, Arguments, Positions, Resumes, NULL, Running, GlobAssumption
  <2>2. Shape
    BY DEF GInit, Shape, Star, NULL
  <2>3. Hope
    BY DenotesFrom DEF GInit, Hope, Open, Ahead, NULL, Running
  <2> QED BY <2>1, <2>2, <2>3
<1>2. GInv /\ Shape /\ Hope /\ [GNext]_gvars => GInv' /\ Shape' /\ Hope'
  <2>1. ASSUME GInv, Shape, Hope, UNCHANGED gvars
        PROVE  GInv' /\ Shape' /\ Hope'
    <3>1. From' = From /\ (Denotes' <=> Denotes)
      BY <2>1, SameFrom DEF gvars, args
    <3>2. GInv'
      BY <2>1 DEF gvars, GInv, Arguments, Positions, Resumes
    <3>3. Shape'
      BY <2>1 DEF gvars, Shape, Blocked, SideBySide, Star
    <3>4. Tractable' <=> Tractable
      BY <2>1 DEF gvars, Tractable, IsSingleStar, Star
    <3>5. Open' <=> Open
      BY <2>1, <3>1 DEF gvars, Open, LaterStar, LaterStarStar
    <3>6. Ahead' <=> Ahead
      BY <2>1, <3>1 DEF gvars, Ahead, Blocked
    <3>7. Hope'
      BY <2>1, <3>1, <3>4, <3>5, <3>6 DEF gvars, Hope
    <3> QED BY <3>2, <3>3, <3>7
  <2> QED BY <2>1, GStepInv, ShapeStep, HopeStep DEF GNext, Returned
<1>3. Hope => CompleteWhenTractable
  BY DEF Hope, CompleteWhenTractable
<1> QED BY <1>1, <1>2, <1>3, PTL DEF GSpec

-----------------------------------------------------------------------------
(* The loop ends.                                                          *)

\* The last '**' lies behind the matching position and the last '*'.
StarsInOrder == p_star_star <= p /\ (p_star # NULL => p_star_star <= p_star)

\* A place is later if a position is and none before it differs.
LEMMA LaterAt ==
  ASSUME NEW a1 \in Int, NEW a2 \in Int, NEW a3 \in Int, NEW a4 \in Int, NEW a5 \in Int,
         NEW b1 \in Int, NEW b2 \in Int, NEW b3 \in Int, NEW b4 \in Int, NEW b5 \in Int,
         \/ b1 > a1
         \/ b1 = a1 /\ b2 > a2
         \/ b1 = a1 /\ b2 = a2 /\ b3 > a3
         \/ b1 = a1 /\ b2 = a2 /\ b3 = a3 /\ b4 > a4
         \/ b1 = a1 /\ b2 = a2 /\ b3 = a3 /\ b4 = a4 /\ b5 > a5
  PROVE  Later(<<b1, b2, b3, b4, b5>>, <<a1, a2, a3, a4, a5>>)
<1> DEFINE a == <<a1, a2, a3, a4, a5>>
           b == <<b1, b2, b3, b4, b5>>
<1>1. /\ a[1] = a1 /\ a[2] = a2 /\ a[3] = a3 /\ a[4] = a4 /\ a[5] = a5
      /\ b[1] = b1 /\ b[2] = b2 /\ b[3] = b3 /\ b[4] = b4 /\ b[5] = b5
  OBVIOUS
<1> HIDE DEF a, b
<1>3. CASE b1 > a1
  <2>1. 1 \in 1..5 /\ b[1] > a[1]
    BY <1>1, <1>3
  <2>2. \A j \in 1..1 - 1 : b[j] = a[j]
    OBVIOUS
  <2> QED BY <2>1, <2>2 DEF Later
<1>4. CASE b1 = a1 /\ b2 > a2
  <2>1. 2 \in 1..5 /\ b[2] > a[2]
    BY <1>1, <1>4
  <2>2. \A j \in 1..2 - 1 : b[j] = a[j]
    <3>1. \A j \in 1..2 - 1 : j = 1
      OBVIOUS
    <3> QED BY <1>1, <1>4, <3>1
  <2> QED BY <2>1, <2>2 DEF Later
<1>5. CASE b1 = a1 /\ b2 = a2 /\ b3 > a3
  <2>1. 3 \in 1..5 /\ b[3] > a[3]
    BY <1>1, <1>5
  <2>2. \A j \in 1..3 - 1 : b[j] = a[j]
    <3>1. \A j \in 1..3 - 1 : j = 1 \/ j = 2
      OBVIOUS
    <3> QED BY <1>1, <1>5, <3>1
  <2> QED BY <2>1, <2>2 DEF Later
<1>6. CASE b1 = a1 /\ b2 = a2 /\ b3 = a3 /\ b4 > a4
  <2>1. 4 \in 1..5 /\ b[4] > a[4]
    BY <1>1, <1>6
  <2>2. \A j \in 1..4 - 1 : b[j] = a[j]
    <3>1. \A j \in 1..4 - 1 : j = 1 \/ j = 2 \/ j = 3
      OBVIOUS
    <3> QED BY <1>1, <1>6, <3>1
  <2> QED BY <2>1, <2>2 DEF Later
<1>7. CASE b1 = a1 /\ b2 = a2 /\ b3 = a3 /\ b4 = a4 /\ b5 > a5
  <2>1. 5 \in 1..5 /\ b[5] > a[5]
    BY <1>1, <1>7
  <2>2. \A j \in 1..5 - 1 : b[j] = a[j]
    <3>1. \A j \in 1..5 - 1 : j = 1 \/ j = 2 \/ j = 3 \/ j = 4
      OBVIOUS
    <3> QED BY <1>1, <1>7, <3>1
  <2> QED BY <2>1, <2>2 DEF Later
<1> QED BY <1>3, <1>4, <1>5, <1>6, <1>7 DEF a, b

LEMMA StarsInOrderStep ==
  ASSUME GInv, Shape, StarsInOrder, GStep
  PROVE  StarsInOrder' /\ (result' # Running \/ Later(Place', Place))
<1>1. /\ Len(pattern) \in Nat /\ Len(str) \in Nat
      /\ p \in 1..Len(pattern) + 1 /\ s \in 1..Len(str) + 1
      /\ p_star \in Nat /\ p_star_star \in Nat
      /\ s_star \in Nat /\ s_star_star \in Nat
  BY DEF GInv, Arguments, Positions, Resumes
<1> DEFINE behind == IF p_star <= p THEN p_star ELSE NULL
<1>0. ASSUME \/ p_star_star' > p_star_star
             \/ p_star_star' = p_star_star /\ s_star_star' > s_star_star
             \/ p_star_star' = p_star_star /\ s_star_star' = s_star_star /\ behind' > behind
             \/ /\ p_star_star' = p_star_star /\ s_star_star' = s_star_star
                /\ behind' = behind /\ s_star' > s_star
             \/ /\ p_star_star' = p_star_star /\ s_star_star' = s_star_star
                /\ behind' = behind /\ s_star' = s_star /\ s' > s
      PROVE  Later(Place', Place)
  <2>1. /\ p_star_star' \in Int /\ s_star_star' \in Int /\ p_star' \in Int
        /\ s_star' \in Int /\ s' \in Int
    <3>1. GInv'
      BY GStepInv
    <3>2. Len(pattern') \in Nat /\ Len(str') \in Nat
      BY <3>1 DEF GInv, Arguments
    <3> QED BY <3>1, <3>2 DEF GInv, Positions, Resumes
  <2>2. behind \in Int /\ behind' \in Int
    BY <1>1, <2>1 DEF NULL
  <2>3. /\ Place = <<p_star_star, s_star_star, behind, s_star, s>>
        /\ Place' = <<p_star_star', s_star_star', behind', s_star', s'>>
    BY DEF Place
  <2> HIDE DEF behind
  <2>4. Later(<<p_star_star', s_star_star', behind', s_star', s'>>,
              <<p_star_star, s_star_star, behind, s_star, s>>)
    <3>1. /\ p_star_star \in Int /\ s_star_star \in Int /\ s_star \in Int /\ s \in Int
      BY <1>1
    <3> QED BY <1>0, <2>1, <2>2, <3>1, LaterAt
  <2> QED BY <2>3, <2>4
<1>2. ASSUME NEW b \in BOOLEAN, Return(b)
      PROVE  StarsInOrder' /\ result' # Running
  BY <1>2 DEF Return, Running, StarsInOrder, stars
<1>3. CASE EndOfString \/ Fail
  <2>1. AllStars(p) \in BOOLEAN
    BY DEF AllStars
  <2> QED BY <1>2, <1>3, <2>1 DEF EndOfString, Fail
<1>4. CASE DoubleStar
  <2>1. CASE SkipStars(p + 2) > Len(pattern)
    BY <1>2, <1>4, <2>1 DEF DoubleStar
  <2>2. CASE ~(SkipStars(p + 2) > Len(pattern))
    <3>1. p' = p_star_star' /\ p_star_star' \in Nat /\ p_star_star' > p /\ p_star' = NULL
      <4>1. SkipStars(p + 2) \in (p + 2)..Len(pattern) + 1
        BY <1>4, DoubleStarSkips
      <4>2. p' = SkipStars(p + 2) /\ p_star_star' = SkipStars(p + 2) /\ p_star' = NULL
        BY <1>4, <2>2 DEF DoubleStar
      <4> QED BY <1>1, <4>1, <4>2
    <3>2. p_star_star' > p_star_star /\ p_star_star' <= p'
      BY <1>1, <3>1 DEF StarsInOrder
    <3>3. Later(Place', Place)
      BY <3>2, <1>0
    <3> QED BY <3>1, <3>2, <3>3 DEF StarsInOrder
  <2> QED BY <2>1, <2>2
<1>5. CASE SingleStar
  <2>1. CASE SkipStars(p + 1) > Len(pattern)
    BY <1>2, <1>5, <2>1 DEF SingleStar
  <2>2. CASE ~(SkipStars(p + 1) > Len(pattern))
    <3>1. /\ p' = p + 1 /\ p_star' = p + 1
          /\ p_star_star' = p_star_star /\ s_star_star' = s_star_star
      BY <1>5, <2>2, SingleStarSkips DEF SingleStar
    <3>2. behind' > behind
      BY <1>1, <3>1 DEF NULL
    <3>3. Later(Place', Place)
      BY <3>1, <3>2, <1>0
    <3> QED BY <1>1, <3>1, <3>3 DEF StarsInOrder
  <2> QED BY <2>1, <2>2
<1>6. CASE Advance
  <2>1. /\ p' = p + 1 /\ s' = s + 1
        /\ UNCHANGED <<p_star, s_star, p_star_star, s_star_star>>
    BY <1>6 DEF Advance, stars
  <2>2. CASE p_star <= p \/ ~(p_star <= p + 1)
    <3>1. (p_star <= p' <=> p_star <= p) /\ s' > s
      BY <1>1, <2>1, <2>2
    <3>2. behind' = behind
      BY <2>1, <3>1
    <3>3. Later(Place', Place)
      BY <2>1, <3>1, <3>2, <1>0
    <3> QED BY <1>1, <2>1, <3>3 DEF StarsInOrder
  <2>3. CASE p_star = p + 1
    <3>1. behind' > behind
      BY <1>1, <2>1, <2>3 DEF NULL
    <3>2. Later(Place', Place)
      BY <2>1, <3>1, <1>0
    <3> QED BY <1>1, <2>1, <3>2 DEF StarsInOrder
  <2> QED BY <1>1, <2>2, <2>3
<1>7. CASE BacktrackStar
  <2>1. /\ p_star # NULL /\ str[s_star] \notin Separators
        /\ s_star' = s_star + 1 /\ p' = p_star
        /\ UNCHANGED <<p_star, p_star_star, s_star_star>>
    BY <1>7 DEF BacktrackStar, Extensible, Consumes
  <2>2. p_star <= p
    BY <2>1 DEF Shape, Blocked, SideBySide
  <2>3. s_star' > s_star /\ behind' = behind
    BY <1>1, <2>1, <2>2
  <2>4. Later(Place', Place)
    BY <2>1, <2>3, <1>0
  <2> QED BY <2>1, <2>4 DEF StarsInOrder
<1>8. CASE BacktrackStarStar
  <2>1. /\ s_star_star' = s_star_star + 1 /\ p' = p_star_star
        /\ UNCHANGED <<p_star, s_star, p_star_star>>
    BY <1>8 DEF BacktrackStarStar, Resume
  <2>2. s_star_star' > s_star_star
    BY <1>1, <2>1
  <2>3. Later(Place', Place)
    BY <2>1, <2>2, <1>0
  <2> QED BY <1>1, <2>1, <2>3 DEF StarsInOrder
<1> QED BY <1>3, <1>4, <1>5, <1>6, <1>7, <1>8 DEF GStep

\* Every way round the loop leads to a later place, for every pattern and every
\* string; the positions of a place are bounded (GlobInBounds), so the loop can
\* go round only so often (ignore.c:19-77).
THEOREM GlobGoesOn == GSpec => RoundsGoOn
<1> DEFINE Inv == GInv /\ Shape /\ StarsInOrder
<1>1. GInit => Inv
  <2> SUFFICES ASSUME GInit PROVE Inv
    OBVIOUS
  <2>1. GInv
    BY GlobAssumption
       DEF GInit, GInv, Arguments, Positions, Resumes, NULL, Running, GlobAssumption
  <2>2. Shape
    BY DEF GInit, Shape, Star, NULL
  <2>3. StarsInOrder
    BY DEF GInit, StarsInOrder, NULL
  <2> QED BY <2>1, <2>2, <2>3
<1>2. Inv /\ [GNext]_gvars => Inv' /\ [GStep => result' # Running \/ Later(Place', Place)]_gvars
  <2>1. ASSUME Inv, UNCHANGED gvars PROVE Inv'
    BY <2>1 DEF gvars, GInv, Arguments, Positions, Resumes, Shape, Blocked, SideBySide, Star,
                StarsInOrder
  <2>2. ASSUME Inv, GStep PROVE Inv' /\ (result' # Running \/ Later(Place', Place))
    BY <2>2, GStepInv, ShapeStep, StarsInOrderStep
  <2>3. ASSUME Inv, Returned PROVE UNCHANGED gvars
    BY <2>3 DEF Returned
  <2> QED BY <2>1, <2>2, <2>3 DEF GNext
<1> QED BY <1>1, <1>2, PTL DEF GSpec, RoundsGoOn

=============================================================================
