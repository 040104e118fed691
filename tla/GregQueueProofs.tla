-------------------------- MODULE GregQueueProofs --------------------------
(***************************************************************************)
(* The safety of the work queue, for every number of workers, every set of *)
(* items and all batch sizes: the counters are exact, the shutdown is      *)
(* quiescent, no wakeup is lost and the list is empty when it is destroyed.*)
(***************************************************************************)
EXTENDS GregQueue, FiniteSetTheorems, SequenceTheorems, TLAPS

-----------------------------------------------------------------------------
(* Sequences.                                                              *)

\* An injective sequence has as many elements as positions.
LEMMA InjectiveCardinality ==
  ASSUME NEW S, NEW s \in Seq(S), IsInjective(s)
  PROVE  /\ IsFiniteSet(Range(s))
         /\ Cardinality(Range(s)) = Len(s)
<1>1. /\ Len(s) \in Nat
      /\ DOMAIN s = 1..Len(s)
      /\ s \in [1..Len(s) -> S]
  BY LenProperties
<1>2. s \in Bijection(1..Len(s), Range(s))
  BY <1>1 DEF Bijection, Injection, Surjection, Range, IsInjective
<1>3. /\ IsFiniteSet(1..Len(s))
      /\ Cardinality(1..Len(s)) = Len(s)
  BY <1>1, FS_Interval
<1>4. ExistsBijection(1..Len(s), Range(s))
  BY <1>2 DEF ExistsBijection
<1>5. QED
  BY <1>3, <1>4, FS_Bijection

\* Only the empty sequence has an empty range.
LEMMA EmptyRange ==
  ASSUME NEW S, NEW s \in Seq(S)
  PROVE  Range(s) = {} <=> s = <<>>
<1>1. /\ Len(s) \in Nat
      /\ DOMAIN s = 1..Len(s)
  BY LenProperties
<1>2. s # <<>> => 1 \in DOMAIN s
  BY <1>1, EmptySeq
<1>3. QED
  BY <1>2 DEF Range

\* Cutting a sequence in two splits its range, and cuts an injective sequence
\* into injective parts with nothing in common.
LEMMA CutSequence ==
  ASSUME NEW S, NEW s \in Seq(S), NEW n \in 0..Len(s)
  PROVE  LET a == SubSeq(s, 1, n)
             b == SubSeq(s, n + 1, Len(s))
         IN  /\ a \in Seq(S) /\ Len(a) = n
             /\ b \in Seq(S) /\ Len(b) = Len(s) - n
             /\ Range(a) \cup Range(b) = Range(s)
             /\ IsInjective(s) => /\ IsInjective(a)
                                  /\ IsInjective(b)
                                  /\ Range(a) \cap Range(b) = {}
<1> DEFINE a == SubSeq(s, 1, n)
           b == SubSeq(s, n + 1, Len(s))
<1>1. /\ Len(s) \in Nat
      /\ n \in Nat
      /\ n <= Len(s)
      /\ DOMAIN s = 1..Len(s)
      /\ \A i \in 1..Len(s) : s[i] \in S
  BY LenProperties
<1>2. /\ a \in Seq(S)
      /\ Len(a) = n
      /\ \A i \in 1..n : a[i] = s[i]
  <2>1. \A i \in 1..n : s[i] \in S
    BY <1>1
  <2>2. /\ SubSeq(s, 1, n) \in Seq(S)
        /\ Len(SubSeq(s, 1, n)) = IF 1 <= n THEN n - 1 + 1 ELSE 0
        /\ \A i \in 1..(n - 1 + 1) : SubSeq(s, 1, n)[i] = s[1 + i - 1]
    BY <1>1, <2>1, SubSeqProperties
  <2>3. QED
    BY <1>1, <2>2
<1>3. /\ b \in Seq(S)
      /\ Len(b) = Len(s) - n
      /\ \A i \in 1..(Len(s) - n) : b[i] = s[n + i]
  <2>1. \A i \in (n + 1)..Len(s) : s[i] \in S
    BY <1>1
  <2>2. /\ b \in Seq(S)
        /\ Len(b) = IF n + 1 <= Len(s) THEN Len(s) - (n + 1) + 1 ELSE 0
        /\ \A i \in 1..(Len(s) - (n + 1) + 1) : b[i] = s[(n + 1) + i - 1]
    BY <1>1, <2>1, SubSeqProperties
  <2>3. QED
    BY <1>1, <2>2
<1>4. DOMAIN a = 1..n /\ DOMAIN b = 1..(Len(s) - n)
  BY <1>2, <1>3, LenProperties
<1> HIDE DEF a, b
<1>5. Range(a) \cup Range(b) = Range(s)
  <2>1. Range(a) \subseteq Range(s)
    BY <1>1, <1>2, <1>4 DEF Range
  <2>2. Range(b) \subseteq Range(s)
    <3>1. ASSUME NEW j \in 1..(Len(s) - n)
          PROVE  b[j] \in Range(s)
      <4>1. n + j \in 1..Len(s)
        BY <1>1
      <4>2. QED
        BY <1>1, <1>3, <4>1 DEF Range
    <3>2. QED
      BY <1>4, <3>1 DEF Range
  <2>3. ASSUME NEW i \in 1..Len(s)
        PROVE  s[i] \in Range(a) \cup Range(b)
    <3>1. CASE i <= n
      BY <1>1, <1>2, <1>4, <3>1 DEF Range
    <3>2. CASE i > n
      <4>1. /\ i - n \in 1..(Len(s) - n)
            /\ n + (i - n) = i
        BY <1>1, <3>2
      <4>2. b[i - n] = s[i]
        BY <1>3, <4>1
      <4>3. QED
        BY <1>4, <4>1, <4>2 DEF Range
    <3>3. QED
      BY <1>1, <3>1, <3>2
  <2>4. QED
    BY <1>1, <2>1, <2>2, <2>3 DEF Range
<1>6. ASSUME IsInjective(s)
      PROVE  /\ IsInjective(a)
             /\ IsInjective(b)
             /\ Range(a) \cap Range(b) = {}
  <2>1. \A i, j \in 1..Len(s) : s[i] = s[j] => i = j
    BY <1>1, <1>6 DEF IsInjective
  <2>2. IsInjective(a)
    BY <1>1, <1>2, <1>4, <2>1 DEF IsInjective
  <2>3. IsInjective(b)
    <3>1. ASSUME NEW i \in 1..(Len(s) - n), NEW j \in 1..(Len(s) - n), b[i] = b[j]
          PROVE  i = j
      <4>1. n + i \in 1..Len(s) /\ n + j \in 1..Len(s)
        BY <1>1
      <4>2. s[n + i] = s[n + j]
        BY <1>3, <3>1
      <4>3. n + i = n + j
        BY <2>1, <4>1, <4>2
      <4>4. QED
        BY <1>1, <4>3
    <3>2. QED
      BY <1>4, <3>1 DEF IsInjective
  <2>4. ASSUME NEW i \in 1..n, NEW j \in 1..(Len(s) - n), a[i] = b[j]
        PROVE  FALSE
    <3>1. i \in 1..Len(s) /\ n + j \in 1..Len(s) /\ i # n + j
      BY <1>1
    <3>2. s[i] = s[n + j]
      BY <1>2, <1>3, <2>4
    <3>3. QED
      BY <2>1, <3>1, <3>2
  <2>5. QED
    BY <1>4, <2>2, <2>3, <2>4 DEF Range
<1>7. QED
  BY <1>2, <1>3, <1>5, <1>6 DEF a, b

\* Appending an injective sequence of new elements keeps a sequence injective.
LEMMA JoinInjective ==
  ASSUME NEW S, NEW s \in Seq(S), NEW t \in Seq(S),
         IsInjective(s), IsInjective(t), Range(s) \cap Range(t) = {}
  PROVE  IsInjective(s \o t)
<1>1. /\ Len(s) \in Nat /\ DOMAIN s = 1..Len(s)
      /\ Len(t) \in Nat /\ DOMAIN t = 1..Len(t)
  BY LenProperties
<1>2. /\ s \o t \in Seq(S)
      /\ Len(s \o t) = Len(s) + Len(t)
      /\ \A i \in 1..(Len(s) + Len(t)) :
           (s \o t)[i] = IF i <= Len(s) THEN s[i] ELSE t[i - Len(s)]
  BY ConcatProperties
<1>3. DOMAIN (s \o t) = 1..(Len(s) + Len(t))
  BY <1>2, LenProperties
<1>4. ASSUME NEW i \in 1..(Len(s) + Len(t)), NEW j \in 1..(Len(s) + Len(t)),
             (s \o t)[i] = (s \o t)[j]
      PROVE  i = j
  <2>1. CASE i <= Len(s) /\ j <= Len(s)
    BY <1>1, <1>2, <1>4, <2>1 DEF IsInjective
  <2>2. CASE i > Len(s) /\ j > Len(s)
    <3>1. /\ i - Len(s) \in DOMAIN t /\ j - Len(s) \in DOMAIN t
          /\ t[i - Len(s)] = t[j - Len(s)]
      BY <1>1, <1>2, <1>4, <2>2
    <3>2. i - Len(s) = j - Len(s)
      BY <3>1 DEF IsInjective
    <3>3. QED
      BY <1>1, <3>2
  <2>3. CASE i <= Len(s) /\ j > Len(s)
    <3>1. i \in DOMAIN s /\ j - Len(s) \in DOMAIN t /\ s[i] = t[j - Len(s)]
      BY <1>1, <1>2, <1>4, <2>3
    <3>2. QED
      BY <3>1 DEF Range
  <2>4. CASE i > Len(s) /\ j <= Len(s)
    <3>1. j \in DOMAIN s /\ i - Len(s) \in DOMAIN t /\ s[j] = t[i - Len(s)]
      BY <1>1, <1>2, <1>4, <2>4
    <3>2. QED
      BY <3>1 DEF Range
  <2>5. QED
    BY <1>1, <2>1, <2>2, <2>3, <2>4
<1>5. QED
  BY <1>3, <1>4 DEF IsInjective

\* A selection of some elements of an injective sequence, in its order.
LEMMA Selection ==
  ASSUME NEW S, NEW s \in Seq(S), IsInjective(s), NEW k \in Subsequences(s)
  PROVE  k \in Seq(S) /\ IsInjective(k) /\ Range(k) \subseteq Range(s)
<1>1. /\ Len(s) \in Nat
      /\ DOMAIN s = 1..Len(s)
      /\ \A i \in 1..Len(s) : s[i] \in S
  BY LenProperties
<1>n. PICK n \in 0..Len(s) :
        \E f \in [1..n -> 1..Len(s)] :
          /\ \A i, j \in 1..n : i < j => f[i] < f[j]
          /\ k = [i \in DOMAIN f |-> s[f[i]]]
  BY DEF Subsequences, Picks
<1>2. PICK f \in [1..n -> 1..Len(s)] :
        /\ \A i, j \in 1..n : i < j => f[i] < f[j]
        /\ k = [i \in DOMAIN f |-> s[f[i]]]
  BY <1>n
<1>3. n \in Nat /\ DOMAIN f = 1..n
  BY <1>1, <1>2
<1>4. /\ k = [i \in 1..n |-> s[f[i]]]
      /\ \A i \in 1..n : k[i] = s[f[i]]
      /\ DOMAIN k = 1..n
  BY <1>2, <1>3
<1>5. k \in Seq(S)
  <2>1. \A i \in 1..n : s[f[i]] \in S
    BY <1>1, <1>2
  <2>2. k \in [1..n -> S]
    BY <1>4, <2>1
  <2>3. QED
    BY <1>3, <2>2, SeqDef
<1>6. IsInjective(k)
  <2>1. ASSUME NEW i \in 1..n, NEW j \in 1..n, k[i] = k[j]
        PROVE  i = j
    <3>1. f[i] \in 1..Len(s) /\ f[j] \in 1..Len(s) /\ s[f[i]] = s[f[j]]
      BY <1>2, <1>4, <2>1
    <3>2. f[i] = f[j]
      BY <1>1, <3>1 DEF IsInjective
    <3>3. ~(f[i] < f[j]) /\ ~(f[j] < f[i])
      BY <1>1, <3>1, <3>2
    <3>4. ~(i < j) /\ ~(j < i)
      BY <1>2, <3>3
    <3>5. QED
      BY <1>3, <3>4
  <2>2. QED
    BY <1>4, <2>1 DEF IsInjective
<1>7. Range(k) \subseteq Range(s)
  <2>1. ASSUME NEW i \in 1..n
        PROVE  k[i] \in Range(s)
    <3>1. f[i] \in DOMAIN s
      BY <1>1, <1>2
    <3>2. QED
      BY <1>4, <3>1 DEF Range
  <2>2. QED
    BY <1>4, <2>1 DEF Range
<1>8. QED
  BY <1>5, <1>6, <1>7

-----------------------------------------------------------------------------
(* What the queue operations do to the items in circulation.               *)

\* Nothing is outstanding when the queue and every batch are empty.
LEMMA OutstandingEmpty ==
  ASSUME QTypeOK
  PROVE  Outstanding = {} <=> /\ queue = <<>>
                              /\ \A w \in Workers : held[w] = <<>>
<1>1. Range(queue) = {} <=> queue = <<>>
  BY EmptyRange DEF QTypeOK
<1>2. \A w \in Workers : Range(held[w]) = {} <=> held[w] = <<>>
  BY EmptyRange DEF QTypeOK
<1>3. QED
  BY <1>1, <1>2 DEF Outstanding

\* What a push stores is some of what it was given, and nothing once the
\* queue is inactive.
LEMMA StoredItems ==
  ASSUME NEW items \in Seq(Items), IsInjective(items), NEW kept \in Stored(items)
  PROVE  /\ kept \in Seq(Items)
         /\ IsInjective(kept)
         /\ Range(kept) \subseteq Range(items)
         /\ kept # <<>> => active
<1>1. CASE ~active
  <2>1. kept = <<>>
    BY <1>1 DEF Stored
  <2>2. <<>> \in Seq(Items) /\ DOMAIN <<>> = {}
    BY EmptySeq
  <2>3. QED
    BY <2>1, <2>2 DEF IsInjective, Range
<1>2. CASE active /\ Faults
  BY <1>2, Selection DEF Stored
<1>3. CASE active /\ ~Faults
  BY <1>3 DEF Stored
<1>4. QED
  BY <1>1, <1>2, <1>3

\* Storing fresh items keeps the items distinct and the counters exact.
LEMMA EnqueueCounted ==
  ASSUME QTypeOK, HandedOutOnce, Counted,
         NEW kept \in Seq(Items), IsInjective(kept),
         Range(kept) \cap Outstanding = {},
         Enqueue(kept), held' = held
  PROVE  /\ Outstanding' = Outstanding \cup Range(kept)
         /\ queue' \in Seq(Items)
         /\ size' \in Nat
         /\ active_tasks' \in Nat
         /\ queue' = <<>> => kept = <<>> /\ queue = <<>>
         /\ HandedOutOnce'
         /\ Counted'
<1>1. /\ queue \in Seq(Items) /\ Len(queue) \in Nat
      /\ Len(kept) \in Nat
      /\ queue' = queue \o kept
  BY LenProperties DEF QTypeOK, Enqueue
<1>2. /\ queue' \in Seq(Items)
      /\ Len(queue') = Len(queue) + Len(kept)
  BY <1>1, ConcatProperties
<1>3. Range(queue') = Range(queue) \cup Range(kept)
  BY <1>1, RangeConcatenation
<1>4. Outstanding' = Outstanding \cup Range(kept)
  BY <1>3 DEF Outstanding
<1>5. queue' = <<>> => kept = <<>> /\ queue = <<>>
  BY <1>1, <1>2, <1>3, EmptyRange
<1>6. HandedOutOnce'
  <2>1. Range(queue) \cap Range(kept) = {}
    BY DEF Outstanding
  <2>2. \A w \in Workers : Range(held[w]) \cap Range(kept) = {}
    BY DEF Outstanding
  <2>3. IsInjective(queue')
    BY <1>1, <2>1, JoinInjective DEF HandedOutOnce
  <2>4. QED
    BY <1>3, <2>2, <2>3 DEF HandedOutOnce
<1>7. /\ IsFiniteSet(Outstanding')
      /\ Cardinality(Outstanding') = Cardinality(Outstanding) + Len(kept)
  <2>1. IsFiniteSet(Range(kept)) /\ Cardinality(Range(kept)) = Len(kept)
    BY InjectiveCardinality
  <2>2. Cardinality(Outstanding \cap Range(kept)) = 0
    BY FS_EmptySet
  <2>3. /\ IsFiniteSet(Outstanding')
        /\ Cardinality(Outstanding') =
             Cardinality(Outstanding) + Cardinality(Range(kept))
               - Cardinality(Outstanding \cap Range(kept))
    BY <1>4, <2>1, FS_Union DEF Counted
  <2>4. Cardinality(Outstanding) \in Nat
    BY FS_CardinalityType DEF Counted
  <2>5. QED
    BY <1>1, <2>1, <2>2, <2>3, <2>4
<1>8. /\ size' = Len(queue')
      /\ active_tasks' = Cardinality(Outstanding')
  BY <1>2, <1>7 DEF Enqueue, Counted, TasksBalanced
<1>9. QED
  BY <1>1, <1>2, <1>4, <1>5, <1>6, <1>7, <1>8, FS_CardinalityType
     DEF Counted, TasksBalanced

\* A pop moves items from the queue to the worker and changes nothing else.
LEMMA TakeCounted ==
  ASSUME QTypeOK, HandedOutOnce, Counted,
         NEW w \in Workers, held[w] = <<>>,
         NEW n \in 1..Len(queue), Take(w, n)
  PROVE  /\ Outstanding' = Outstanding
         /\ queue' \in Seq(Items)
         /\ held' \in [Workers -> Seq(Items)]
         /\ held'[w] # <<>>
         /\ \A v \in Workers : v # w => held'[v] = held[v]
         /\ size' \in Nat
         /\ HandedOutOnce'
         /\ Counted'
<1> DEFINE a == SubSeq(queue, 1, n)
           b == SubSeq(queue, n + 1, Len(queue))
<1>1. queue \in Seq(Items) /\ Len(queue) \in Nat /\ n \in 0..Len(queue)
  BY LenProperties DEF QTypeOK
<1>2. /\ a \in Seq(Items) /\ Len(a) = n
      /\ b \in Seq(Items) /\ Len(b) = Len(queue) - n
      /\ Range(a) \cup Range(b) = Range(queue)
      /\ IsInjective(a) /\ IsInjective(b) /\ Range(a) \cap Range(b) = {}
  BY <1>1, CutSequence DEF HandedOutOnce
<1>3. queue' = b /\ held' = [held EXCEPT ![w] = a] /\ size' = size - n
  BY DEF Take
<1>4. a # <<>>
  BY <1>1, <1>2, EmptySeq
<1> HIDE DEF a, b
<1>5. /\ held' \in [Workers -> Seq(Items)]
      /\ held'[w] = a
      /\ \A v \in Workers : v # w => held'[v] = held[v]
  BY <1>2, <1>3 DEF QTypeOK
<1>6. Range(held[w]) = {}
  BY EmptyRange DEF QTypeOK
<1>7. Outstanding' = Outstanding
  <2>1. UNION {Range(held'[v]) : v \in Workers}
          = Range(a) \cup UNION {Range(held[v]) : v \in Workers}
    BY <1>5, <1>6
  <2>2. QED
    BY <1>2, <1>3, <2>1 DEF Outstanding
<1>8. HandedOutOnce'
  <2>1. ASSUME NEW v \in Workers
        PROVE  /\ IsInjective(held'[v])
               /\ Range(held'[v]) \cap Range(queue') = {}
    BY <1>2, <1>3, <1>5 DEF HandedOutOnce
  <2>2. ASSUME NEW u \in Workers, NEW v \in Workers, u # v
        PROVE  Range(held'[u]) \cap Range(held'[v]) = {}
    BY <1>2, <1>5, <2>2 DEF HandedOutOnce
  <2>3. QED
    BY <1>2, <1>3, <2>1, <2>2 DEF HandedOutOnce
<1>9. Counted' /\ size' \in Nat
  <2>1. size' = Len(queue') /\ size' \in Nat
    BY <1>1, <1>2, <1>3 DEF Counted, TasksBalanced
  <2>2. active_tasks' = active_tasks
    BY DEF Take
  <2>3. QED
    BY <1>7, <2>1, <2>2 DEF Counted, TasksBalanced
<1>10. QED
  BY <1>2, <1>3, <1>4, <1>5, <1>7, <1>8, <1>9

\* Reporting a batch done removes exactly its items from the count.
LEMMA DoneCounted ==
  ASSUME QTypeOK, HandedOutOnce, Counted,
         NEW w \in Workers, greg_queue_tasks_done(w)
  PROVE  /\ Outstanding' = Outstanding \ Range(held[w])
         /\ held' \in [Workers -> Seq(Items)]
         /\ held'[w] = <<>>
         /\ \A v \in Workers : v # w => held'[v] = held[v]
         /\ active_tasks' \in Nat
         /\ HandedOutOnce'
         /\ Counted'
<1>1. /\ queue' = queue /\ size' = size
      /\ held' = [held EXCEPT ![w] = <<>>]
      /\ active_tasks' = active_tasks - Len(held[w])
  BY DEF greg_queue_tasks_done
<1>2. /\ <<>> \in Seq(Items)
      /\ Range(<<>>) = {}
      /\ IsInjective(<<>>)
  BY EmptySeq DEF Range, IsInjective
<1>3. /\ held' \in [Workers -> Seq(Items)]
      /\ held'[w] = <<>>
      /\ \A v \in Workers : v # w => held'[v] = held[v]
  BY <1>1, <1>2 DEF QTypeOK
<1>4. Outstanding' = Outstanding \ Range(held[w])
  <2>1. UNION {Range(held'[v]) : v \in Workers}
          = (UNION {Range(held[v]) : v \in Workers}) \ Range(held[w])
    BY <1>2, <1>3 DEF HandedOutOnce
  <2>2. QED
    BY <1>1, <2>1 DEF Outstanding, HandedOutOnce
<1>5. HandedOutOnce'
  <2>1. ASSUME NEW v \in Workers
        PROVE  /\ IsInjective(held'[v])
               /\ Range(held'[v]) \cap Range(queue') = {}
    BY <1>1, <1>2, <1>3 DEF HandedOutOnce
  <2>2. ASSUME NEW u \in Workers, NEW v \in Workers, u # v
        PROVE  Range(held'[u]) \cap Range(held'[v]) = {}
    BY <1>2, <1>3, <2>2 DEF HandedOutOnce
  <2>3. QED
    BY <1>1, <2>1, <2>2 DEF HandedOutOnce
<1>6. /\ IsFiniteSet(Outstanding')
      /\ Cardinality(Outstanding') = Cardinality(Outstanding) - Len(held[w])
  <2>1. /\ IsFiniteSet(Range(held[w]))
        /\ Cardinality(Range(held[w])) = Len(held[w])
    BY InjectiveCardinality DEF QTypeOK, HandedOutOnce
  <2>2. Outstanding \cap Range(held[w]) = Range(held[w])
    BY DEF Outstanding
  <2>3. /\ IsFiniteSet(Outstanding \ Range(held[w]))
        /\ Cardinality(Outstanding \ Range(held[w]))
             = Cardinality(Outstanding) - Cardinality(Outstanding \cap Range(held[w]))
    BY FS_Difference DEF Counted
  <2>4. QED
    BY <1>4, <2>1, <2>2, <2>3
<1>7. Counted' /\ active_tasks' \in Nat
  BY <1>1, <1>6, FS_CardinalityType DEF Counted, TasksBalanced
<1>8. QED
  BY <1>3, <1>4, <1>5, <1>7

-----------------------------------------------------------------------------
(* QInv is inductive: one lemma per action that does more than move the    *)
(* caller's control.                                                       *)

\* Waking workers only turns waiters into poppers.
LEMMA WakeWaiters ==
  ASSUME QTypeOK, NEW W \in SUBSET Waiters, state' = Wake(W)
  PROVE  /\ state' \in [Workers -> WorkerStates]
         /\ \A w \in Workers : /\ state'[w] = "run" <=> state[w] = "run"
                               /\ state'[w] = "exit" <=> state[w] = "exit"
                               /\ state'[w] = "none" <=> state[w] = "none"
                               /\ state[w] = "pop" => state'[w] = "pop"
                               /\ w \in W => state'[w] = "pop"
                               /\ state'[w] = "wait" <=> w \in Waiters \ W
         /\ Created' = Created
<1>1. ASSUME NEW w \in Workers
      PROVE  state'[w] = IF w \in W THEN "pop" ELSE state[w]
  BY DEF Wake
<1>2. \A w \in W : state[w] = "wait"
  BY DEF Waiters
<1>3. state' \in [Workers -> WorkerStates]
  BY DEF QTypeOK, Wake, WorkerStates
<1>4. ASSUME NEW w \in Workers
      PROVE  /\ state'[w] = "run" <=> state[w] = "run"
             /\ state'[w] = "exit" <=> state[w] = "exit"
             /\ state'[w] = "none" <=> state[w] = "none"
             /\ state[w] = "pop" => state'[w] = "pop"
             /\ w \in W => state'[w] = "pop"
             /\ state'[w] = "wait" <=> w \in Waiters \ W
  BY <1>1, <1>2 DEF Waiters
<1>5. QED
  BY <1>3, <1>4 DEF Created

LEMMA InitInv == QInit => QInv
<1> SUFFICES ASSUME QInit PROVE QInv
  OBVIOUS
<1>1. <<>> \in Seq(Items) /\ Len(<<>>) = 0 /\ DOMAIN <<>> = {}
  BY EmptySeq
<1>2. QTypeOK
  BY <1>1 DEF QInit, greg_queue_init, QTypeOK, WorkerStates, MainStates
<1>3. Outstanding = {}
  BY <1>2, OutstandingEmpty DEF QInit, greg_queue_init
<1>4. HandedOutOnce
  BY <1>1 DEF QInit, greg_queue_init, HandedOutOnce, IsInjective, Range
<1>5. Counted
  BY <1>1, <1>3, FS_EmptySet DEF QInit, greg_queue_init, Counted, TasksBalanced
<1>6. QuiescentShutdown /\ NoLostWakeup /\ WorkerStanding /\ MainStanding
  BY <1>3 DEF QInit, greg_queue_init, QuiescentShutdown, NoLostWakeup,
              WorkerStanding, MainStanding
<1>7. QED
  BY <1>2, <1>4, <1>5, <1>6 DEF QInv

\* The root is pushed to an empty queue and one waiter, if any, is signalled.
LEMMA PushRootInv ==
  ASSUME QInv, NEW item \in Items, PushRoot(item)
  PROVE  QInv'
<1> USE DEF QInv
<1>1. PICK kept \in Stored(<<item>>) :
        /\ greg_queue_push(item, kept)
        /\ main' = IF kept = <<>> THEN "deactivate" ELSE "join"
  BY DEF PushRoot
<1>2. main = "walk" /\ held' = held /\ active /\ Outstanding = {}
  BY DEF PushRoot, MainStanding
<1>3. /\ kept \in Seq(Items)
      /\ IsInjective(kept)
  <2>1. <<item>> \in Seq(Items) /\ IsInjective(<<item>>)
    BY DEF IsInjective
  <2>2. QED
    BY <2>1, StoredItems
<1>4. Enqueue(kept) /\ active' = active
  BY <1>1 DEF greg_queue_push, Enqueue
<1>5. /\ Outstanding' = Range(kept)
      /\ queue' \in Seq(Items) /\ size' \in Nat /\ active_tasks' \in Nat
      /\ queue' = <<>> => kept = <<>>
      /\ HandedOutOnce' /\ Counted'
  BY <1>2, <1>3, <1>4, EnqueueCounted
<1>6. PICK W \in SUBSET Waiters :
        /\ state' = Wake(W)
        /\ kept # <<>> /\ Waiters # {} => W # {}
  <2>1. CASE kept = <<>>
    <3>1. state' = Wake({})
      BY <1>1, <2>1 DEF greg_queue_push, Wake, QTypeOK
    <3>2. QED
      BY <2>1, <3>1
  <2>2. CASE kept # <<>>
    <3>1. PICK W \in Signalled : state' = Wake(W)
      BY <1>1, <2>2 DEF greg_queue_push
    <3>2. W \in SUBSET Waiters /\ (Waiters # {} => W # {})
      BY <3>1 DEF Signalled
    <3>3. QED
      BY <3>1, <3>2
  <2>3. QED
    BY <2>1, <2>2
<1>7. /\ state' \in [Workers -> WorkerStates]
      /\ \A w \in Workers : /\ state'[w] = "run" <=> state[w] = "run"
                            /\ state'[w] = "exit" <=> state[w] = "exit"
                            /\ state[w] = "pop" => state'[w] = "pop"
                            /\ w \in W => state'[w] = "pop"
      /\ Created' = Created
  BY <1>6, WakeWaiters
<1>8. main' \in {"deactivate", "join"} /\ (main' = "deactivate" <=> kept = <<>>)
  BY <1>1
<1>9. QTypeOK'
  BY <1>2, <1>4, <1>5, <1>7, <1>8 DEF QTypeOK, MainStates
<1>10. QuiescentShutdown'
  BY <1>2, <1>4 DEF QuiescentShutdown
<1>11. NoLostWakeup'
  <2>1. ASSUME queue' # <<>>
        PROVE  \E w \in Workers : state'[w] \in {"pop", "run"}
    <3>1. kept # <<>>
      <4>1. Range(queue') # {} /\ Range(queue') \subseteq Outstanding'
        BY <1>5, <2>1, EmptyRange DEF Outstanding
      <4>2. QED
        BY <1>3, <1>5, <4>1, EmptyRange
    <3>2. CASE Waiters # {}
      <4>1. PICK w \in W : w \in Workers
        BY <1>6, <3>1, <3>2 DEF Waiters
      <4>2. QED
        BY <1>7, <4>1
    <3>3. CASE Waiters = {}
      <4>1. PICK w \in Workers : state[w] # "none"
        BY <1>2 DEF MainStanding, Created
      <4>2. state[w] \in {"pop", "run"}
        BY <1>2, <3>3, <4>1 DEF QTypeOK, WorkerStates, WorkerStanding, Waiters
      <4>3. QED
        BY <1>7, <4>2
    <3>4. QED
      BY <3>2, <3>3
  <2>2. QED
    BY <1>2, <1>4, <2>1 DEF NoLostWakeup
<1>12. WorkerStanding'
  BY <1>2, <1>4, <1>7 DEF WorkerStanding
<1>13. MainStanding'
  <2>1. kept = <<>> => Outstanding' = {}
    BY <1>3, <1>5, EmptyRange
  <2>2. kept # <<>> => Outstanding' # {}
    BY <1>3, <1>5, EmptyRange
  <2>3. Created' # {}
    BY <1>2, <1>7 DEF MainStanding
  <2>4. QED
    BY <1>2, <1>4, <1>8, <2>1, <2>2, <2>3 DEF MainStanding
<1>14. QED
  BY <1>5, <1>9, <1>10, <1>11, <1>12, <1>13

\* A worker that holds a batch pushes fresh items and wakes every waiter.
LEMMA PushBatchInv ==
  ASSUME QInv, NEW w \in Workers, PushBatch(w)
  PROVE  QInv'
<1> USE DEF QInv
<1>1. PICK n \in 1..PushMax : \E items \in [1..n -> Items] :
        /\ IsInjective(items)
        /\ Range(items) \cap Outstanding = {}
        /\ \E kept \in Stored(items) : greg_queue_push_batch(items, kept)
  BY DEF PushBatch
<1>p. PICK items \in [1..n -> Items] :
        /\ IsInjective(items)
        /\ Range(items) \cap Outstanding = {}
        /\ \E kept \in Stored(items) : greg_queue_push_batch(items, kept)
  BY <1>1
<1>2. PICK kept \in Stored(items) : greg_queue_push_batch(items, kept)
  BY <1>p
<1>3. state[w] = "run" /\ held' = held /\ main' = main
  BY DEF PushBatch
<1>4. active /\ main # "exit" /\ Outstanding # {}
  <2>1. held[w] # <<>>
    BY <1>3 DEF WorkerStanding
  <2>2. QED
    BY <1>3, <2>1, OutstandingEmpty DEF QuiescentShutdown, MainStanding
<1>5. main = "join"
  BY <1>4 DEF MainStanding, QTypeOK, MainStates
<1>6. /\ kept \in Seq(Items)
      /\ IsInjective(kept)
      /\ Range(kept) \cap Outstanding = {}
  <2>1. n \in Nat
    BY QueueAssumption DEF QueueAssumption
  <2>2. items \in Seq(Items)
    BY <2>1, SeqDef
  <2>3. QED
    BY <1>p, <2>2, StoredItems
<1>7. Enqueue(kept) /\ active' = active
  BY <1>2 DEF greg_queue_push_batch, Enqueue
<1>8. /\ Outstanding' = Outstanding \cup Range(kept)
      /\ queue' \in Seq(Items) /\ size' \in Nat /\ active_tasks' \in Nat
      /\ HandedOutOnce' /\ Counted'
  BY <1>3, <1>6, <1>7, EnqueueCounted
<1>9. PICK W \in SUBSET Waiters : state' = Wake(W)
  <2>1. CASE kept = <<>>
    <3>1. state' = Wake({})
      BY <1>2, <2>1 DEF greg_queue_push_batch, Wake, QTypeOK
    <3>2. QED
      BY <3>1
  <2>2. QED
    BY <1>2, <2>1 DEF greg_queue_push_batch
<1>10. /\ state' \in [Workers -> WorkerStates]
       /\ \A v \in Workers : /\ state'[v] = "run" <=> state[v] = "run"
                             /\ state'[v] = "exit" <=> state[v] = "exit"
       /\ Created' = Created
  BY <1>9, WakeWaiters
<1>11. QTypeOK'
  BY <1>3, <1>7, <1>8, <1>10 DEF QTypeOK
<1>12. QuiescentShutdown' /\ NoLostWakeup'
  BY <1>3, <1>4, <1>7, <1>10 DEF QuiescentShutdown, NoLostWakeup
<1>13. WorkerStanding' /\ MainStanding'
  BY <1>3, <1>4, <1>5, <1>7, <1>8, <1>10 DEF WorkerStanding, MainStanding
<1>14. QED
  BY <1>8, <1>11, <1>12, <1>13

\* A worker waits, leaves, or takes items from the head.
LEMMA PopBatchInv ==
  ASSUME QInv, NEW w \in Workers, PopBatch(w)
  PROVE  QInv'
<1> USE DEF QInv
<1>1. PICK max \in 1..PopMax : greg_queue_pop_batch(w, max)
  BY DEF PopBatch
<1>2. state[w] = "pop" /\ main' = main /\ held[w] = <<>>
  BY <1>1 DEF PopBatch, greg_queue_pop_batch, WorkerStanding
<1>3. main \in {"spawn", "walk", "deactivate", "join"}
  BY <1>2 DEF MainStanding, QTypeOK, MainStates
<1>4. CASE queue = <<>>
  <2>1. /\ UNCHANGED <<queue, size, active, active_tasks, held>>
        /\ state' = [state EXCEPT ![w] = IF active THEN "wait" ELSE "exit"]
    BY <1>1, <1>4 DEF greg_queue_pop_batch, Take, queueVars
  <2>2. /\ state'[w] = IF active THEN "wait" ELSE "exit"
        /\ \A v \in Workers : v # w => state'[v] = state[v]
        /\ state' \in [Workers -> WorkerStates]
    BY <2>1 DEF QTypeOK, WorkerStates
  <2>3. Outstanding' = Outstanding /\ HandedOutOnce' /\ Counted'
    BY <2>1 DEF Outstanding, HandedOutOnce, Counted, TasksBalanced
  <2>4. QTypeOK'
    BY <1>2, <2>1, <2>2 DEF QTypeOK
  <2>5. QuiescentShutdown' /\ NoLostWakeup'
    BY <1>4, <2>1, <2>2, <2>3 DEF QuiescentShutdown, NoLostWakeup, Waiters
  <2>6. WorkerStanding'
    BY <1>2, <2>1, <2>2 DEF WorkerStanding
  <2>7. MainStanding'
    BY <1>2, <1>3, <2>1, <2>2, <2>3 DEF MainStanding, Created
  <2>8. QED
    BY <2>3, <2>4, <2>5, <2>6, <2>7
<1>5. CASE queue # <<>>
  <2>1. PICK n \in 1..Len(queue) : Take(w, n)
    <3>1. Len(queue) \in Nat /\ Len(queue) # 0
      BY <1>5, EmptySeq DEF QTypeOK
    <3>2. max \in Nat \ {0}
      BY QueueAssumption DEF QueueAssumption
    <3>3. Batch(max) \in 1..Len(queue)
      BY <3>1, <3>2 DEF Batch
    <3>4. QED
      BY <1>1, <1>5, <3>3 DEF greg_queue_pop_batch
  <2>2. /\ Outstanding' = Outstanding
        /\ queue' \in Seq(Items)
        /\ held' \in [Workers -> Seq(Items)]
        /\ held'[w] # <<>>
        /\ \A v \in Workers : v # w => held'[v] = held[v]
        /\ size' \in Nat
        /\ HandedOutOnce'
        /\ Counted'
    BY <1>2, <2>1, TakeCounted
  <2>3. /\ UNCHANGED <<active, active_tasks>>
        /\ state' \in [Workers -> WorkerStates]
        /\ state'[w] = "run"
        /\ \A v \in Workers : v # w => state'[v] = state[v]
    BY <2>1 DEF Take, QTypeOK, WorkerStates
  <2>4. active
    BY <1>5, OutstandingEmpty DEF QuiescentShutdown
  <2>5. QTypeOK'
    BY <1>2, <2>2, <2>3 DEF QTypeOK
  <2>6. QuiescentShutdown' /\ NoLostWakeup'
    BY <2>3, <2>4 DEF QuiescentShutdown, NoLostWakeup
  <2>7. WorkerStanding'
    BY <2>2, <2>3, <2>4 DEF WorkerStanding
  <2>8. MainStanding'
    BY <1>2, <1>3, <2>2, <2>3 DEF MainStanding, Created
  <2>9. QED
    BY <2>2, <2>5, <2>6, <2>7, <2>8
<1>6. QED
  BY <1>4, <1>5

\* The count reaches zero only when nothing is queued and nobody else runs.
LEMMA TasksDoneInv ==
  ASSUME QInv, NEW w \in Workers, TasksDone(w)
  PROVE  QInv'
<1> USE DEF QInv
<1> DEFINE W == {w} \cup IF Finished(active_tasks') THEN Waiters ELSE {}
<1>1. state[w] = "run" /\ main' = main /\ greg_queue_tasks_done(w)
  BY DEF TasksDone
<1>2. active /\ main = "join"
  BY <1>1, OutstandingEmpty
     DEF QuiescentShutdown, MainStanding, WorkerStanding, QTypeOK, MainStates
<1>3. /\ Outstanding' = Outstanding \ Range(held[w])
      /\ held' \in [Workers -> Seq(Items)]
      /\ held'[w] = <<>>
      /\ \A v \in Workers : v # w => held'[v] = held[v]
      /\ active_tasks' \in Nat
      /\ HandedOutOnce'
      /\ Counted'
  BY <1>1, DoneCounted
<1>4. /\ queue' = queue /\ size' = size
      /\ active' = ~Finished(active_tasks')
      /\ state' = Wake(W)
  BY <1>1, <1>2 DEF greg_queue_tasks_done, Finished, QTypeOK
<1>5. /\ state' \in [Workers -> WorkerStates]
      /\ state'[w] = "pop"
      /\ \A v \in Workers : v # w =>
           /\ state'[v] = "run" <=> state[v] = "run"
           /\ state'[v] = "exit" <=> state[v] = "exit"
           /\ state'[v] = "none" <=> state[v] = "none"
           /\ state'[v] = "wait" <=> state[v] = "wait" /\ ~Finished(active_tasks')
  BY <1>4 DEF Wake, Waiters, QTypeOK, WorkerStates
<1>6. QTypeOK'
  BY <1>1, <1>3, <1>4, <1>5 DEF QTypeOK, Finished
<1>7. Outstanding' = {} <=> Finished(active_tasks')
  <2>1. active_tasks' = Cardinality(Outstanding') /\ IsFiniteSet(Outstanding')
    BY <1>3 DEF Counted, TasksBalanced
  <2>2. Outstanding' = {} <=> active_tasks' = 0
    BY <2>1, FS_EmptySet
  <2>3. Outstanding' = {} => queue = <<>>
    BY <1>3, <1>4, EmptyRange DEF Outstanding, QTypeOK
  <2>4. QED
    BY <1>3, <2>2, <2>3 DEF Finished
<1>8. WorkerStanding'
  BY <1>2, <1>3, <1>5 DEF WorkerStanding
<1>9. QuiescentShutdown'
  <2>1. ASSUME Outstanding' = {}, NEW v \in Workers
        PROVE  held'[v] = <<>>
    <3>1. held'[v] \in Seq(Items) /\ Range(held'[v]) = {}
      BY <1>3, <2>1 DEF Outstanding
    <3>2. QED
      BY <3>1, EmptyRange
  <2>2. QED
    BY <1>4, <1>7, <1>8, <2>1 DEF QuiescentShutdown, WorkerStanding
<1>10. NoLostWakeup'
  BY <1>4, <1>5 DEF NoLostWakeup, Waiters
<1>11. MainStanding'
  BY <1>1, <1>2, <1>4, <1>5, <1>7 DEF MainStanding, Created
<1>12. QED
  BY <1>3, <1>6, <1>8, <1>9, <1>10, <1>11

\* The main thread's own steps, a thread that starts and a wakeup that
\* nobody caused.
LEMMA ControlInv ==
  ASSUME QInv,
         \/ PoolReady \/ RootFails \/ Deactivate \/ JoinAndDestroy
         \/ \E w \in Workers : StartThread(w) \/ SpuriousWakeup(w)
  PROVE  QInv'
<1> USE DEF QInv
<1>1. CASE PoolReady
  <2>1. /\ main = "spawn" /\ Outstanding = {} /\ active
        /\ UNCHANGED <<size, active, active_tasks, state, held>>
        /\ queue = <<>> /\ queue' = queue
        /\ main' = IF Created = {} THEN "exit" ELSE "walk"
    BY <1>1, OutstandingEmpty
       DEF PoolReady, greg_queue_destroy, queueVars, MainStanding
  <2>2. Outstanding' = Outstanding /\ Created' = Created
    BY <2>1 DEF Outstanding, Created
  <2>3. QTypeOK' /\ HandedOutOnce' /\ Counted'
    BY <2>1, <2>2 DEF QTypeOK, MainStates, HandedOutOnce, Counted, TasksBalanced
  <2>4. QuiescentShutdown' /\ NoLostWakeup' /\ WorkerStanding'
    BY <2>1, <2>2 DEF QuiescentShutdown, NoLostWakeup, WorkerStanding, Waiters
  <2>5. MainStanding'
    BY <2>1, <2>2 DEF MainStanding, Created
  <2>6. QED
    BY <2>3, <2>4, <2>5
<1>2. CASE RootFails
  <2>1. /\ main = "walk" /\ main' = "deactivate"
        /\ UNCHANGED <<queue, size, active, active_tasks, state, held>>
    BY <1>2 DEF RootFails, queueVars
  <2>2. Outstanding' = Outstanding /\ Created' = Created
    BY <2>1 DEF Outstanding, Created
  <2>3. QTypeOK' /\ HandedOutOnce' /\ Counted'
    BY <2>1, <2>2 DEF QTypeOK, MainStates, HandedOutOnce, Counted, TasksBalanced
  <2>4. QuiescentShutdown' /\ NoLostWakeup' /\ WorkerStanding' /\ MainStanding'
    BY <2>1, <2>2
       DEF QuiescentShutdown, NoLostWakeup, WorkerStanding, Waiters, MainStanding
  <2>5. QED
    BY <2>3, <2>4
<1>3. CASE Deactivate
  <2>1. /\ main = "deactivate" /\ main' = "join"
        /\ UNCHANGED <<queue, size, active_tasks, held>>
        /\ active' = FALSE
        /\ state' = Wake(Waiters)
        /\ Outstanding = {} /\ Created # {}
    BY <1>3 DEF Deactivate, greg_queue_deactivate, MainStanding
  <2>2. /\ state' \in [Workers -> WorkerStates]
        /\ \A w \in Workers : /\ state'[w] = "run" <=> state[w] = "run"
                              /\ state'[w] # "wait"
        /\ Created' = Created
    BY <2>1, WakeWaiters
  <2>3. Outstanding' = Outstanding
    BY <2>1 DEF Outstanding
  <2>4. queue = <<>> /\ \A w \in Workers : state[w] # "run"
    BY <2>1, OutstandingEmpty DEF WorkerStanding
  <2>5. QTypeOK' /\ HandedOutOnce' /\ Counted'
    BY <2>1, <2>2, <2>3 DEF QTypeOK, MainStates, HandedOutOnce, Counted, TasksBalanced
  <2>6. QuiescentShutdown' /\ NoLostWakeup' /\ WorkerStanding' /\ MainStanding'
    BY <2>1, <2>2, <2>3, <2>4
       DEF QuiescentShutdown, NoLostWakeup, WorkerStanding, Waiters, MainStanding
  <2>7. QED
    BY <2>5, <2>6
<1>4. CASE JoinAndDestroy
  <2>1. /\ main = "join" /\ main' = "exit" /\ queue' = <<>>
        /\ UNCHANGED <<size, active, active_tasks, state, held>>
        /\ \A w \in Created : state[w] = "exit"
    BY <1>4 DEF JoinAndDestroy, greg_queue_destroy
  <2>2. ~active /\ Outstanding = {} /\ queue = <<>>
    BY <2>1, OutstandingEmpty
       DEF MainStanding, Created, WorkerStanding, QuiescentShutdown
  <2>3. Outstanding' = Outstanding
    BY <2>1, <2>2 DEF Outstanding
  <2>4. QTypeOK' /\ HandedOutOnce' /\ Counted'
    BY <2>1, <2>2, <2>3 DEF QTypeOK, MainStates, HandedOutOnce, Counted, TasksBalanced
  <2>5. QuiescentShutdown' /\ NoLostWakeup' /\ WorkerStanding' /\ MainStanding'
    BY <2>1, <2>2, <2>3
       DEF QuiescentShutdown, NoLostWakeup, WorkerStanding, Waiters, MainStanding, Created
  <2>6. QED
    BY <2>4, <2>5
<1>5. CASE \E w \in Workers : StartThread(w) \/ SpuriousWakeup(w)
  <2>1. PICK w \in Workers : StartThread(w) \/ SpuriousWakeup(w)
    BY <1>5
  <2>2. /\ state[w] \in {"none", "wait"}
        /\ state[w] = "none" => main = "spawn"
        /\ state' = [state EXCEPT ![w] = "pop"]
        /\ UNCHANGED <<queue, size, active, active_tasks, held, main>>
    BY <2>1 DEF StartThread, SpuriousWakeup, queueVars
  <2>3. /\ state' \in [Workers -> WorkerStates]
        /\ state'[w] = "pop"
        /\ \A v \in Workers : v # w => state'[v] = state[v]
    BY <2>2 DEF QTypeOK, WorkerStates
  <2>4. Outstanding' = Outstanding
    BY <2>2 DEF Outstanding
  <2>5. QTypeOK' /\ HandedOutOnce' /\ Counted'
    BY <2>2, <2>3, <2>4 DEF QTypeOK, HandedOutOnce, Counted, TasksBalanced
  <2>6. QuiescentShutdown' /\ NoLostWakeup' /\ WorkerStanding'
    BY <2>2, <2>3, <2>4 DEF QuiescentShutdown, NoLostWakeup, WorkerStanding, Waiters
  <2>7. main # "exit"
    BY <2>2 DEF MainStanding
  <2>8. MainStanding'
    BY <2>2, <2>3, <2>4, <2>7 DEF MainStanding, Created
  <2>9. QED
    BY <2>5, <2>6, <2>8
<1>6. QED
  BY <1>1, <1>2, <1>3, <1>4, <1>5

LEMMA StepInv == QInv /\ [QNext]_qvars => QInv'
<1> SUFFICES ASSUME QInv, [QNext]_qvars PROVE QInv'
  OBVIOUS
<1>1. CASE \E item \in Items : PushRoot(item)
  BY <1>1, PushRootInv
<1>2. CASE \E w \in Workers : PushBatch(w)
  BY <1>2, PushBatchInv
<1>3. CASE \E w \in Workers : PopBatch(w)
  BY <1>3, PopBatchInv
<1>4. CASE \E w \in Workers : TasksDone(w)
  BY <1>4, TasksDoneInv
<1>5. CASE \/ PoolReady \/ RootFails \/ Deactivate \/ JoinAndDestroy
           \/ \E w \in Workers : StartThread(w) \/ SpuriousWakeup(w)
  BY <1>5, ControlInv
<1>6. CASE UNCHANGED qvars
  <2>1. Outstanding' = Outstanding /\ Created' = Created /\ Waiters' = Waiters
    BY <1>6 DEF qvars, Outstanding, Created, Waiters
  <2>2. QED
    BY <1>6, <2>1
       DEF qvars, QInv, QTypeOK, HandedOutOnce, Counted, TasksBalanced,
           QuiescentShutdown, NoLostWakeup, WorkerStanding, MainStanding
<1>7. QED
  BY <1>1, <1>2, <1>3, <1>4, <1>5, <1>6 DEF QNext, Exited

-----------------------------------------------------------------------------
(* The theorems.                                                           *)

\* The inductive invariant holds in every state of every run of the queue.
THEOREM QueueInvariant == QSpec => []QInv
<1>1. QInit => QInv
  BY InitInv
<1>2. QInv /\ [QNext]_qvars => QInv'
  BY StepInv
<1>3. QED
  BY <1>1, <1>2, PTL DEF QSpec

\* Type correctness: the counters of queue.c never go below zero.
THEOREM QueueTypes == QSpec => []QTypeOK
<1>1. QInv => QTypeOK
  BY DEF QInv
<1>2. QED
  BY <1>1, QueueInvariant, PTL

\* The termination counter is exact although pop and tasks_done are far apart.
THEOREM ExactCounting == QSpec => []TasksBalanced
<1>1. QInv => TasksBalanced
  BY DEF QInv, Counted
<1>2. QED
  BY <1>1, QueueInvariant, PTL

\* No item is queued twice or given to two workers.
THEOREM ExclusiveHandOut == QSpec => []HandedOutOnce
<1>1. QInv => HandedOutOnce
  BY DEF QInv
<1>2. QED
  BY <1>1, QueueInvariant, PTL

\* The queue is shut down only when no work is left anywhere.
THEOREM NoPrematureShutdown == QSpec => []QuiescentShutdown
<1>1. QInv => QuiescentShutdown
  BY DEF QInv
<1>2. QED
  BY <1>1, QueueInvariant, PTL

\* Queued work always has an awake worker, and a shutdown wakes everybody.
THEOREM WakeupsReachWorkers == QSpec => []NoLostWakeup
<1>1. QInv => NoLostWakeup
  BY DEF QInv
<1>2. QED
  BY <1>1, QueueInvariant, PTL

\* The pool never falls asleep as a whole while main waits for it.
THEOREM SomebodyWorks == QSpec => []NoStall
<1>1. ASSUME QInv, main = "join", active
      PROVE  \E w \in Workers : state[w] \in {"pop", "run"}
  <2>1. CASE queue # <<>>
    BY <1>1, <2>1 DEF QInv, NoLostWakeup
  <2>2. CASE queue = <<>>
    <3>1. \E w \in Workers : held[w] # <<>>
      BY <1>1, <2>2, OutstandingEmpty DEF QInv, MainStanding
    <3>2. QED
      BY <1>1, <3>1 DEF QInv, WorkerStanding
  <2>3. QED
    BY <2>1, <2>2
<1>2. QInv => NoStall
  BY <1>1 DEF NoStall
<1>3. QED
  BY <1>2, QueueInvariant, PTL

\* greg_queue_destroy finds an empty list once every thread has been joined.
THEOREM DestroyedEmpty == QSpec => []NothingLeftToDestroy
<1>1. ASSUME QInv, main = "join", \A w \in Created : state[w] = "exit"
      PROVE  queue = <<>>
  <2>1. ~active
    BY <1>1 DEF QInv, MainStanding, WorkerStanding, Created
  <2>2. QED
    BY <1>1, <2>1, OutstandingEmpty DEF QInv, QuiescentShutdown
<1>2. QInv => NothingLeftToDestroy
  BY <1>1 DEF NothingLeftToDestroy
<1>3. QED
  BY <1>2, QueueInvariant, PTL

=============================================================================
