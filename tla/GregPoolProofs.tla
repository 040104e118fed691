--------------------------- MODULE GregPoolProofs ---------------------------
(***************************************************************************)
(* The safety of a whole search, for every tree, every number of workers   *)
(* and all batch sizes: the pool uses the queue as GregQueue requires and  *)
(* implements Traversal, its reference counts are exact, and the exit      *)
(* status is right.                                                        *)
(***************************************************************************)
EXTENDS GregPool, GregQueueProofs

\* What is known of the traversal that the pool implements.
Covering == INSTANCE TraversalProofs
  WITH Children <- ChildItems, phase <- Phase, todo <- ToDo

-----------------------------------------------------------------------------
(* The inductive invariant.                                                *)

\* A worker stands at an item of its batch, or past the last one; only a
\* walker has entries in its array, all from what it has read.
Walking(w) ==
  /\ pos[w] \in 0..Len(Kids[Current(w)])
  /\ IsInjective(out[w])
  /\ Len(out[w]) <= PushMax + 1
  /\ Range(out[w]) \subseteq {Kids[Current(w)][i] : i \in 1..pos[w]}

Placed(w) ==
  /\ Len(held[w]) <= PopMax
  /\ idx[w] \in 1..Len(held[w]) + 1
  /\ idx[w] = Len(held[w]) + 1 => step[w] = "begin"
  /\ step[w] \in {"open", "walk"} => Current(w) \in Dirs
  /\ step[w] = "free" <=> drops[w] # <<>>
  /\ IF step[w] = "walk" THEN Walking(w) ELSE out[w] = <<>>

\* What a walker has found and not pushed is new to the queue.
Found(w) == Range(out[w]) \cup Unread(w)

Fresh == \A w \in Workers : Found(w) \cap Outstanding = {}

\* The items that a worker has dealt with are accounted for.
DealtWith(w) ==
  {held[w][i] : i \in {j \in DOMAIN held[w] :
                         j < idx[w] \/ (j = idx[w] /\ step[w] \in {"walk", "free"})}}

Recorded == \A w \in Workers : DealtWith(w) \subseteq handled \cup lost

\* A directory has a node only once its walker has created it.
Opening == {Current(w) : w \in {v \in Workers : step[v] = "open"}}

NodesInOrder == \A d \in Dirs : node[d] # "none" => d \in Opening \cup handled \cup lost

\* Every count is the number of holders, and a live node has one.
Counts(d) ==
  /\ IsFiniteSet(Holders(d))
  /\ node[d] = "live" => ref_count[d] = Cardinality(Holders(d)) /\ Holders(d) # {}
  /\ node[d] # "live" => Holders(d) = {}

\* The count of matches is that of the files searched, and main has been told
\* of a failure only when nothing was searched.
Tallied ==
  /\ match_count > 0 <=> \E f \in Files \cap handled : Matches[f] > 0
  /\ walk_rc # 0 => /\ main \in {"deactivate", "join", "exit"}
                    /\ handled = {}
                    /\ Outstanding = {}
  /\ exit_code # Running <=> main = "exit"
  /\ exit_code # Running => exit_code = ExitStatus

PoolShape ==
  /\ PTypeOK
  /\ \A w \in Workers : Placed(w)
  /\ Fresh
  /\ Recorded
  /\ NodesInOrder
  /\ Tallied

PInv ==
  /\ QInv
  /\ Covering!TInv
  /\ PoolShape
  /\ \A d \in Dirs : Counts(d)

\* What is shown of each step, the reference counts apart.
Advances ==
  /\ [QNext]_qvars
  /\ [Abstract!TNext]_(Abstract!tvars)
  /\ PoolShape'

-----------------------------------------------------------------------------
(* The tree.                                                               *)

\* An item lies under one directory at most, the root under none, a file's
\* node is nobody's, and no directory lies under itself.
LEMMA Parents ==
  /\ \A i \in Items : \A d, e \in NodeOf(i) : d = e
  /\ \A i \in Files : NodeOf(i) = {}
  /\ NodeOf(Root) = {}
  /\ \A d \in Dirs : d \notin NodeOf(d)
  /\ \A d \in Dirs : \A i \in Listed(d) \cap Dirs : NodeOf(i) = {d}
  /\ \A i \in Dirs : i \in Items /\ i \notin Files /\ ChildItems[i] = Listed(i) \cap Items
  /\ \A i \in Files : i \in Items /\ ChildItems[i] = {}
<1> USE PoolAssumption DEF PoolAssumption, NodeOf
<1>1. \A i \in Items : \A d, e \in NodeOf(i) : d = e
  OBVIOUS
<1>2. \A i \in Files : NodeOf(i) = {}
  OBVIOUS
<1>3. NodeOf(Root) = {}
  OBVIOUS
<1>4. /\ \A i \in Dirs : i \in Items /\ i \notin Files /\ ChildItems[i] = Listed(i) \cap Items
      /\ \A i \in Files : i \in Items /\ ChildItems[i] = {}
  BY DEF ChildItems
<1>5. ASSUME NEW d \in Dirs, d \in NodeOf(d)
      PROVE  FALSE
  <2> DEFINE S == Items \ {d}
  <2>1. d \in Listed(d) /\ d # Root
    BY <1>3, <1>5
  <2>2. ASSUME NEW i \in S
        PROVE  ChildItems[i] \subseteq S
    <3>1. CASE i \in Dirs
      BY <1>4, <2>1, <3>1
    <3>2. CASE i \in Files
      BY <1>4, <3>2
    <3>3. QED
      BY <3>1, <3>2
  <2>3. S = Items
    <3>1. S \in SUBSET Items /\ Root \in S
      BY <2>1
    <3>2. QED
      BY <2>2, <3>1, TreeAssumption DEF Abstract!Connected
  <2>4. QED
    BY <1>4, <2>3
<1>6. \A d \in Dirs : \A i \in Listed(d) \cap Dirs : NodeOf(i) = {d}
  OBVIOUS
<1>7. QED
  BY <1>1, <1>2, <1>3, <1>4, <1>5, <1>6

\* The references an item gives back: one, or none for the root and for files.
LEMMA NodeSeqs ==
  ASSUME NEW i \in Items
  PROVE  \/ NodeOf(i) = {} /\ NodeSeq(i) = <<>>
         \/ \E p \in Dirs : NodeOf(i) = {p} /\ NodeSeq(i) = <<p>>
<1>1. CASE NodeOf(i) = {}
  <2>1. Cardinality({}) = 0
    BY FS_EmptySet
  <2>2. <<>> \in [1..0 -> {}] /\ IsInjective(<<>>)
    BY DEF IsInjective
  <2>3. NodeSeq(i) \in [1..0 -> {}]
    BY <1>1, <2>1, <2>2 DEF NodeSeq, SetToSeq
  <2>4. QED
    BY <1>1, <2>3
<1>2. CASE NodeOf(i) # {}
  <2>1. PICK p \in Dirs : p \in NodeOf(i)
    BY <1>2 DEF NodeOf
  <2>2. NodeOf(i) = {p}
    BY <2>1, Parents
  <2>3. Cardinality({p}) = 1
    BY FS_Singleton
  <2>4. <<p>> \in [1..1 -> {p}] /\ IsInjective(<<p>>)
    BY DEF IsInjective
  <2>5. NodeSeq(i) \in [1..1 -> {p}]
    BY <2>2, <2>3, <2>4 DEF NodeSeq, SetToSeq
  <2>6. NodeSeq(i) = <<p>>
    BY <2>5
  <2>7. QED
    BY <2>2, <2>6
<1>3. QED
  BY <1>1, <1>2

\* Appending an element adds it to the range.
LEMMA AppendRange ==
  ASSUME NEW S, NEW s \in Seq(S), NEW e \in S
  PROVE  Range(Append(s, e)) = Range(s) \cup {e}
<1>1. Append(s, e) = s \o <<e>>
  BY AppendIsConcat
<1>2. <<e>> \in Seq(S)
  OBVIOUS
<1>3. Range(<<e>>) = {e}
  BY DEF Range
<1>4. Range(s \o <<e>>) = Range(s) \cup Range(<<e>>)
  BY <1>2, RangeConcatenation
<1>5. QED
  BY <1>1, <1>3, <1>4

-----------------------------------------------------------------------------
(* The holders of a node.                                                  *)

\* A node without holders is one that nobody of any kind holds.
LEMMA NoHolders ==
  ASSUME NEW d
  PROVE  Holders(d) = {} <=> /\ WalkersOf(d) = {} /\ ItemsUnder(d) = {}
                             /\ NodesUnder(d) = {} /\ DropsOf(d) = {}
<1>1. \A S, t : {t} \X S = {} <=> S = {}
  <2>1. ASSUME NEW S, NEW t, NEW x \in S
        PROVE  <<t, x>> \in {t} \X S
    OBVIOUS
  <2>2. \A t : {t} \X {} = {}
    OBVIOUS
  <2>3. QED
    BY <2>1, <2>2
<1> DEFINE A == {"walker"} \X WalkersOf(d)
           B == {"item"} \X ItemsUnder(d)
           C == {"node"} \X NodesUnder(d)
           D == {"drop"} \X DropsOf(d)
<1>2. /\ A = {} <=> WalkersOf(d) = {}
      /\ B = {} <=> ItemsUnder(d) = {}
      /\ C = {} <=> NodesUnder(d) = {}
      /\ D = {} <=> DropsOf(d) = {}
  BY <1>1
<1>3. Holders(d) = A \cup B \cup C \cup D
  BY DEF Holders
<1> HIDE DEF A, B, C, D
<1>4. QED
  BY <1>2, <1>3

\* The references a worker is about to give back, one by one.
LEMMA DropsMember ==
  ASSUME NEW d
  PROVE  /\ \A w \in Workers : \A i \in DOMAIN drops[w] :
              drops[w][i] = d => <<w, Len(drops[w]) - i>> \in DropsOf(d)
         /\ \A r \in DropsOf(d) : \E w \in Workers : \E i \in DOMAIN drops[w] :
              drops[w][i] = d /\ r = <<w, Len(drops[w]) - i>>
BY DEF DropsOf

\* The first reference in hand holds its node.
LEMMA HeadHeld ==
  ASSUME NEW w \in Workers, drops[w] \in Seq(Dirs), drops[w] # <<>>
  PROVE  Holders(Head(drops[w])) # {}
<1>1. 1 \in DOMAIN drops[w] /\ drops[w][1] = Head(drops[w])
  BY LenProperties, EmptySeq
<1>2. DropsOf(Head(drops[w])) # {}
  BY <1>1, DropsMember
<1>3. QED
  BY <1>2, NoHolders

-----------------------------------------------------------------------------
(* A worker and its batch.                                                 *)

\* The items of the batch that come after the one in hand.
After(w) == {held[w][i] : i \in {j \in DOMAIN held[w] : j > idx[w]}}

\* The queued items and what the other workers have to do.
Others(w) ==
  Range(queue) \cup UNION {Pending(v) \cup Found(v) : v \in Workers \ {w}}

\* The state of worker w.
Unchanged(w) ==
  /\ held'[w] = held[w] /\ idx'[w] = idx[w] /\ step'[w] = step[w]
  /\ pos'[w] = pos[w] /\ out'[w] = out[w] /\ drops'[w] = drops[w]

\* Nothing said of a worker changes while the worker does not.
LEMMA Frame ==
  ASSUME NEW v \in Workers, Unchanged(v)
  PROVE  /\ Current(v)' = Current(v)
         /\ Pending(v)' = Pending(v)
         /\ Unreleased(v)' = Unreleased(v)
         /\ DealtWith(v)' = DealtWith(v)
         /\ Found(v)' = Found(v)
         /\ Placed(v)' <=> Placed(v)
<1>1. Current(v)' = Current(v)
  BY DEF Unchanged, Current
<1>2. /\ Pending(v)' = Pending(v)
      /\ Unreleased(v)' = Unreleased(v)
      /\ DealtWith(v)' = DealtWith(v)
  BY DEF Unchanged, Pending, Unreleased, DealtWith
<1>3. Found(v)' = Found(v)
  BY <1>1 DEF Unchanged, Found, Unread
<1>4. Placed(v)' <=> Placed(v)
  BY <1>1 DEF Unchanged, Placed, Walking
<1>5. QED
  BY <1>1, <1>2, <1>3, <1>4

\* The parts of a batch: what is before the item in hand, the item itself, and
\* what comes after.
LEMMA Batches ==
  ASSUME PInv, NEW w \in Workers
  PROVE  /\ Pending(w) \subseteq Range(held[w])
         /\ Range(held[w]) = Pending(w) \cup DealtWith(w)
         /\ Unreleased(w) \subseteq Range(held[w])
         /\ idx[w] <= Len(held[w]) =>
              /\ Current(w) \in Range(held[w]) \cap Items
              /\ Current(w) \notin After(w)
              /\ Pending(w) = IF step[w] \in {"begin", "open"}
                              THEN {Current(w)} \cup After(w) ELSE After(w)
              /\ Unreleased(w) = IF step[w] = "free"
                                 THEN After(w) ELSE {Current(w)} \cup After(w)
         /\ idx[w] > Len(held[w]) => Pending(w) = {} /\ Unreleased(w) = {}
<1>1. /\ held[w] \in Seq(Items) /\ IsInjective(held[w])
      /\ Len(held[w]) \in Nat /\ DOMAIN held[w] = 1..Len(held[w])
      /\ \A i \in 1..Len(held[w]) : held[w][i] \in Items
      /\ idx[w] \in 1..Len(held[w]) + 1
      /\ step[w] \in {"begin", "open", "walk", "free"}
  BY LenProperties DEF PInv, PoolShape, QInv, PTypeOK, QTypeOK, HandedOutOnce, Placed, Steps
<1>2. \A i, j \in 1..Len(held[w]) : held[w][i] = held[w][j] => i = j
  BY <1>1 DEF IsInjective
<1>3. Pending(w) \subseteq Range(held[w]) /\ Unreleased(w) \subseteq Range(held[w])
  BY DEF Pending, Unreleased, Range
<1>4. Range(held[w]) = Pending(w) \cup DealtWith(w)
  <2>1. DealtWith(w) \subseteq Range(held[w])
    BY DEF DealtWith, Range
  <2>2. ASSUME NEW j \in 1..Len(held[w])
        PROVE  held[w][j] \in Pending(w) \cup DealtWith(w)
    <3>1. j > idx[w] \/ j = idx[w] \/ j < idx[w]
      BY <1>1
    <3>2. QED
      BY <1>1, <3>1 DEF Pending, DealtWith
  <2>3. QED
    BY <1>1, <1>3, <2>1, <2>2 DEF Range
<1>5. ASSUME idx[w] <= Len(held[w])
      PROVE  /\ Current(w) \in Range(held[w]) \cap Items
             /\ Current(w) \notin After(w)
             /\ Pending(w) = IF step[w] \in {"begin", "open"}
                             THEN {Current(w)} \cup After(w) ELSE After(w)
             /\ Unreleased(w) = IF step[w] = "free"
                                THEN After(w) ELSE {Current(w)} \cup After(w)
  <2>1. idx[w] \in 1..Len(held[w])
    BY <1>1, <1>5
  <2>2. Current(w) \in Range(held[w]) \cap Items
    BY <1>1, <2>1 DEF Current, Range
  <2>3. Current(w) \notin After(w)
    BY <1>1, <1>2, <2>1 DEF Current, After
  <2>4. Pending(w) = IF step[w] \in {"begin", "open"}
                     THEN {Current(w)} \cup After(w) ELSE After(w)
    BY <1>1, <2>1 DEF Current, After, Pending
  <2>5. Unreleased(w) = IF step[w] = "free"
                        THEN After(w) ELSE {Current(w)} \cup After(w)
    BY <1>1, <2>1 DEF Current, After, Unreleased
  <2>6. QED
    BY <2>2, <2>3, <2>4, <2>5
<1>6. ASSUME idx[w] > Len(held[w])
      PROVE  Pending(w) = {} /\ Unreleased(w) = {}
  BY <1>1, <1>6 DEF Pending, Unreleased
<1>7. QED
  BY <1>3, <1>4, <1>5, <1>6

\* What a walker has found lies under its directory.
LEMMA FoundUnder ==
  ASSUME PInv, NEW w \in Workers
  PROVE  /\ Found(w) \subseteq Items
         /\ step[w] # "walk" => Found(w) = {}
         /\ step[w] = "walk" =>
              /\ Current(w) \in Dirs
              /\ Found(w) \subseteq ChildItems[Current(w)]
              /\ Range(out[w]) \cap Unread(w) = {}
<1>1. Placed(w) /\ out[w] \in Seq(Items) /\ Range(out[w]) \subseteq Items
  <2>1. out[w] \in Seq(Items)
    BY DEF PInv, PoolShape, PTypeOK
  <2>2. QED
    BY <2>1, LenProperties DEF PInv, PoolShape, Range
<1>2. CASE step[w] # "walk"
  <2>1. out[w] = <<>>
    BY <1>1, <1>2 DEF Placed
  <2>2. Range(out[w]) = {}
    BY <1>1, <2>1, EmptyRange
  <2>3. QED
    BY <1>2, <2>2 DEF Found, Unread
<1>3. CASE step[w] = "walk"
  <2> DEFINE c == Current(w)
  <2>1. c \in Dirs /\ Walking(w)
    BY <1>1, <1>3 DEF Placed
  <2>2. /\ Kids[c] \in Seq(Range(Kids[c])) /\ IsInjective(Kids[c])
        /\ Len(Kids[c]) \in Nat /\ DOMAIN Kids[c] = 1..Len(Kids[c])
    BY <2>1, PoolAssumption, LenProperties DEF PoolAssumption
  <2>3. pos[w] \in 0..Len(Kids[c])
    BY <2>1 DEF Walking
  <2>4. ChildItems[c] = Listed(c) \cap Items
    BY <2>1, Parents
  <2>5. Unread(w) \subseteq ChildItems[c]
    BY <1>3, <2>2, <2>3, <2>4 DEF Unread, Listed, Range
  <2>6. Range(out[w]) \subseteq ChildItems[c]
    <3>1. \A i \in 1..pos[w] : Kids[c][i] \in Listed(c)
      BY <2>2, <2>3 DEF Listed, Range
    <3>2. QED
      BY <1>1, <2>1, <2>4, <3>1 DEF Walking
  <2>7. Range(out[w]) \cap Unread(w) = {}
    <3>1. ASSUME NEW i \in 1..pos[w], NEW j \in pos[w] + 1..Len(Kids[c])
          PROVE  Kids[c][i] # Kids[c][j]
      BY <2>2, <2>3 DEF IsInjective
    <3>2. QED
      BY <1>3, <2>1, <3>1 DEF Walking, Unread
  <2>8. QED
    BY <1>3, <2>1, <2>4, <2>5, <2>6, <2>7 DEF Found
<1>4. QED
  BY <1>2, <1>3

\* What is left to do is in one place only.
LEMMA OnePlace ==
  ASSUME PInv, NEW w \in Workers
  PROVE  /\ ToDo = Others(w) \cup Pending(w) \cup Found(w)
         /\ Others(w) \cap Pending(w) = {}
         /\ Others(w) \cap Found(w) = {}
         /\ Pending(w) \cap Found(w) = {}
         /\ Range(held[w]) \cap Others(w) = {}
<1>1. ToDo = Others(w) \cup Pending(w) \cup Found(w)
  BY DEF ToDo, Others, Found
<1>2. \A v \in Workers : Pending(v) \subseteq Range(held[v])
  BY Batches
<1>3. Found(w) \cap Outstanding = {} /\ \A v \in Workers : Found(v) \cap Outstanding = {}
  BY DEF PInv, PoolShape, Fresh
<1>4. ASSUME NEW v \in Workers \ {w}
      PROVE  /\ Range(held[v]) \cap Range(held[w]) = {}
             /\ Found(v) \cap Found(w) = {}
  <2>1. Range(held[v]) \cap Range(held[w]) = {}
    BY DEF PInv, QInv, HandedOutOnce
  <2>2. CASE step[v] = "walk" /\ step[w] = "walk"
    <3>1. /\ idx[v] \in 1..Len(held[v]) + 1 /\ idx[v] # Len(held[v]) + 1
          /\ idx[w] \in 1..Len(held[w]) + 1 /\ idx[w] # Len(held[w]) + 1
          /\ Len(held[v]) \in Nat /\ Len(held[w]) \in Nat
      BY <2>2, LenProperties DEF PInv, PoolShape, Placed, PTypeOK, QTypeOK
    <3>2. Current(v) \in Range(held[v]) \cap Items /\ Current(w) \in Range(held[w]) \cap Items
      BY <3>1, Batches
    <3>3. ChildItems[Current(v)] \cap ChildItems[Current(w)] = {}
      BY <2>1, <3>2, TreeAssumption DEF Abstract!Tree
    <3>4. QED
      BY <2>1, <2>2, <3>3, FoundUnder
  <2>3. CASE step[v] # "walk" \/ step[w] # "walk"
    BY <2>1, <2>3, FoundUnder
  <2>4. QED
    BY <2>2, <2>3
<1>5. Range(held[w]) \cap Range(queue) = {}
  BY DEF PInv, QInv, HandedOutOnce
<1>6. Range(queue) \subseteq Outstanding /\ \A v \in Workers : Range(held[v]) \subseteq Outstanding
  BY DEF Outstanding
<1>7. Range(held[w]) \cap Others(w) = {}
  BY <1>2, <1>3, <1>4, <1>5, <1>6 DEF Others
<1>8. Others(w) \cap Found(w) = {}
  BY <1>2, <1>3, <1>4, <1>6 DEF Others
<1>9. QED
  BY <1>1, <1>2, <1>3, <1>6, <1>7, <1>8

\* While a worker has a batch, the search is on.
LEMMA AtWork ==
  ASSUME PInv, NEW w \in Workers, state[w] = "run"
  PROVE  /\ active /\ main = "join" /\ Phase = "run"
         /\ held[w] # <<>> /\ Outstanding # {}
         /\ walk_rc = 0 /\ exit_code = Running
         /\ Outstanding \subseteq ToDo \cup handled \cup lost
<1>1. held[w] # <<>> /\ Outstanding # {}
  BY OutstandingEmpty DEF PInv, QInv, WorkerStanding
<1>2. active /\ main = "join"
  BY <1>1 DEF PInv, QInv, QuiescentShutdown, MainStanding, QTypeOK, MainStates
<1>3. Phase = "run"
  BY <1>2 DEF Phase
<1>4. walk_rc = 0 /\ exit_code = Running
  BY <1>1, <1>2 DEF PInv, PoolShape, Tallied
<1>5. Outstanding \subseteq ToDo \cup handled \cup lost
  <2>1. \A v \in Workers : Range(held[v]) \subseteq ToDo \cup handled \cup lost
    <3>1. \A v \in Workers : Range(held[v]) = Pending(v) \cup DealtWith(v)
      BY Batches
    <3>2. QED
      BY <3>1 DEF ToDo, PInv, PoolShape, Recorded
  <2>2. QED
    BY <2>1 DEF Outstanding, ToDo
<1>6. QED
  BY <1>1, <1>2, <1>3, <1>4, <1>5

\* The worker in front of an item.
LEMMA AtItem ==
  ASSUME PInv, NEW w \in Workers, NEW s, At(w, s)
  PROVE  /\ state[w] = "run" /\ step[w] = s
         /\ idx[w] \in 1..Len(held[w])
         /\ Current(w) \in Range(held[w]) \cap Items
         /\ Current(w) \in Outstanding
         /\ s # "walk" => out[w] = <<>>
<1>1. idx[w] \in 1..Len(held[w])
  BY LenProperties DEF PInv, PoolShape, Placed, At, PTypeOK, QTypeOK
<1>2. Current(w) \in Range(held[w]) \cap Items
  BY <1>1, Batches, LenProperties DEF PInv, PoolShape, PTypeOK, QTypeOK
<1>3. QED
  BY <1>1, <1>2 DEF At, Outstanding, PInv, PoolShape, Placed

\* What Release does to the worker.
LEMMA ReleaseEffect ==
  ASSUME PInv, NEW w \in Workers, NEW s, At(w, s), out[w] = <<>>,
         NEW nodes \in Seq(Dirs), Release(w, nodes),
         held' = held, out' = out, pos' = pos
  PROVE  /\ \A v \in Workers \ {w} : Unchanged(v)
         /\ Pending(w)' = After(w)
         /\ Unreleased(w)' = After(w)
         /\ DealtWith(w)' \subseteq DealtWith(w) \cup {Current(w)}
         /\ Found(w)' = {}
         /\ Placed(w)'
         /\ drops'[w] = nodes
         /\ step'[w] = IF nodes = <<>> THEN "begin" ELSE "free"
         /\ step' \in [Workers -> Steps]
         /\ idx' \in [Workers -> 1..PopMax + 1]
         /\ drops' \in [Workers -> Seq(Dirs)]
<1>1. /\ step \in [Workers -> Steps] /\ idx \in [Workers -> 1..PopMax + 1]
      /\ drops \in [Workers -> Seq(Dirs)]
      /\ Len(held[w]) \in Nat /\ DOMAIN held[w] = 1..Len(held[w])
      /\ Len(held[w]) <= PopMax /\ PopMax \in Nat
      /\ idx[w] \in 1..Len(held[w])
  BY AtItem, LenProperties, QueueAssumption
     DEF QueueAssumption, PInv, PoolShape, PTypeOK, QTypeOK, Placed
<1>2. /\ drops'[w] = nodes
      /\ step'[w] = IF nodes = <<>> THEN "begin" ELSE "free"
      /\ idx'[w] = IF nodes = <<>> THEN idx[w] + 1 ELSE idx[w]
      /\ \A v \in Workers \ {w} : Unchanged(v)
  BY <1>1 DEF Release, Unchanged
<1>3. /\ step' \in [Workers -> Steps]
      /\ idx' \in [Workers -> 1..PopMax + 1]
      /\ drops' \in [Workers -> Seq(Dirs)]
  BY <1>1 DEF Release, Steps
<1>4. Pending(w)' = After(w) /\ Unreleased(w)' = After(w)
  <2>1. CASE nodes = <<>>
    BY <1>1, <1>2, <2>1 DEF Pending, Unreleased, After
  <2>2. CASE nodes # <<>>
    BY <1>1, <1>2, <2>2 DEF Pending, Unreleased, After
  <2>3. QED
    BY <2>1, <2>2
<1>5. DealtWith(w)' \subseteq DealtWith(w) \cup {Current(w)}
  BY <1>1, <1>2 DEF DealtWith, Current
<1>6. Found(w)' = {}
  <2>1. Range(out'[w]) = {}
    BY EmptyRange DEF PInv, PoolShape, PTypeOK
  <2>2. QED
    BY <1>2, <2>1 DEF Found, Unread
<1>7. Placed(w)'
  BY <1>1, <1>2 DEF Placed
<1>8. QED
  BY <1>2, <1>3, <1>4, <1>5, <1>6, <1>7

\* A step of one worker that leaves the queue alone does to the items left to
\* do what it does to this worker's share.
LEMMA ShareOfToDo ==
  ASSUME NEW w \in Workers, UNCHANGED qvars,
         \A v \in Workers \ {w} : Unchanged(v)
  PROVE  /\ ToDo' = Others(w) \cup Pending(w)' \cup Found(w)'
         /\ Phase' = Phase /\ Outstanding' = Outstanding
         /\ [QNext]_qvars
<1>1. \A v \in Workers \ {w} : Pending(v)' = Pending(v) /\ Found(v)' = Found(v)
  BY Frame
<1>2. queue' = queue /\ held' = held /\ main' = main /\ active' = active
  BY DEF qvars
<1>3. ToDo' = Range(queue') \cup UNION {Pending(v)' \cup Found(v)' : v \in Workers}
  BY DEF ToDo, Found
<1>4. QED
  BY <1>1, <1>2, <1>3 DEF Others, Phase, Outstanding

\* Such a step keeps the shape of the pool when this worker keeps its own.
LEMMA LocalShape ==
  ASSUME PInv, NEW w \in Workers, state[w] = "run", UNCHANGED <<qvars, mainVars>>,
         \A v \in Workers \ {w} : Unchanged(v),
         PTypeOK', Placed(w)',
         Found(w)' \cap Outstanding = {},
         DealtWith(w)' \subseteq handled' \cup lost',
         handled \subseteq handled', lost \subseteq lost',
         NodesInOrder',
         match_count' > 0 <=> \E f \in Files \cap handled' : Matches[f] > 0
  PROVE  PoolShape'
<1>1. Outstanding' = Outstanding
  BY ShareOfToDo
<1>2. \A v \in Workers \ {w} : /\ Placed(v)' <=> Placed(v)
                               /\ Found(v)' = Found(v)
                               /\ DealtWith(v)' = DealtWith(v)
  BY Frame
<1>3. \A v \in Workers : Placed(v)'
  BY <1>2 DEF PInv, PoolShape
<1>4. Fresh'
  BY <1>1, <1>2 DEF PInv, PoolShape, Fresh
<1>5. Recorded'
  BY <1>2 DEF PInv, PoolShape, Recorded
<1>6. Tallied'
  <2>1. walk_rc' = 0 /\ exit_code' = Running /\ main' = "join"
    BY AtWork DEF mainVars, qvars
  <2>2. QED
    BY <2>1 DEF Tallied
<1>7. QED
  BY <1>3, <1>4, <1>5, <1>6 DEF PoolShape

\* The opening of the other workers' directories is not affected.
LEMMA StillOpening ==
  ASSUME NEW w \in Workers, \A v \in Workers \ {w} : Unchanged(v)
  PROVE  /\ step[w] # "open" => Opening \subseteq Opening'
         /\ Opening \subseteq Opening' \cup {Current(w)}
<1>1. \A v \in Workers \ {w} : Current(v)' = Current(v) /\ step'[v] = step[v]
  BY Frame DEF Unchanged
<1>2. QED
  BY <1>1 DEF Opening

\* The types of the nodes and their counts.
NodeTypes ==
  /\ node \in [Dirs -> {"none", "live", "freed"}]
  /\ ref_count \in [Dirs -> Nat]

-----------------------------------------------------------------------------
(* The steps of a worker on one item.                                      *)

\* A worker that is done with an item has one item less to do.
LEMMA DoneWith ==
  ASSUME PInv, NEW w \in Workers, NEW s \in {"begin", "open"}, At(w, s),
         NEW nodes \in Seq(Dirs), Release(w, nodes),
         UNCHANGED <<qvars, out, pos>>
  PROVE  /\ Current(w) \in ToDo
         /\ ToDo' = ToDo \ {Current(w)}
         /\ Found(w)' = {}
<1>1. /\ step[w] = s /\ idx[w] \in 1..Len(held[w]) /\ out[w] = <<>>
      /\ Current(w) \in Range(held[w])
  BY AtItem
<1>2. /\ \A v \in Workers \ {w} : Unchanged(v)
      /\ Pending(w)' = After(w)
      /\ Found(w)' = {}
  BY <1>1, ReleaseEffect DEF qvars
<1>3. Pending(w) = {Current(w)} \cup After(w) /\ Current(w) \notin After(w)
  <2>1. idx[w] <= Len(held[w])
    BY <1>1
  <2>2. QED
    BY <1>1, <2>1, Batches
<1>4. Found(w) = {}
  BY <1>1, FoundUnder
<1>5. ToDo' = Others(w) \cup After(w)
  BY <1>2, ShareOfToDo
<1>6. ToDo = Others(w) \cup Pending(w) /\ Current(w) \notin Others(w)
  BY <1>1, <1>4, OnePlace
<1>7. QED
  BY <1>2, <1>3, <1>5, <1>6

\* An item that is given up at its begin or at its opening.
LEMMA GiveUp ==
  ASSUME PInv, NEW w \in Workers, NEW s \in {"begin", "open"}, At(w, s),
         NEW nodes \in Seq(Dirs), Release(w, nodes), Lose({Current(w)}),
         UNCHANGED <<qvars, drain, out, pos, nodeVars, match_count, mainVars>>
  PROVE  Advances
<1>1. /\ state[w] = "run" /\ step[w] = s /\ out[w] = <<>>
      /\ Current(w) \in Items
  BY AtItem
<1>2. /\ \A v \in Workers \ {w} : Unchanged(v)
      /\ DealtWith(w)' \subseteq DealtWith(w) \cup {Current(w)}
      /\ Placed(w)'
      /\ step' \in [Workers -> Steps]
      /\ idx' \in [Workers -> 1..PopMax + 1]
      /\ drops' \in [Workers -> Seq(Dirs)]
  BY <1>1, ReleaseEffect DEF qvars
<1>3. Current(w) \in ToDo /\ ToDo' = ToDo \ {Current(w)} /\ Found(w)' = {}
  BY DoneWith
<1>4. lost' = lost \cup {Current(w)} /\ handled' = handled
  BY DEF Lose
<1>5. [QNext]_qvars /\ Phase' = Phase /\ Phase = "run"
  BY <1>1, <1>2, AtWork, ShareOfToDo
<1>6. Abstract!TNext
  <2>1. Abstract!Lose({Current(w)})
    BY <1>3, <1>4, <1>5 DEF Abstract!Lose
  <2>2. QED
    BY <1>1, <2>1 DEF Abstract!TNext
<1>7. PTypeOK'
  BY <1>1, <1>2, <1>4
     DEF PInv, PoolShape, PTypeOK, QTypeOK, qvars, nodeVars, mainVars
<1>8. NodesInOrder'
  BY <1>2, <1>4, StillOpening DEF PInv, PoolShape, NodesInOrder, nodeVars
<1>9. DealtWith(w)' \subseteq handled' \cup lost'
  BY <1>2, <1>4 DEF PInv, PoolShape, Recorded
<1>10. match_count' > 0 <=> \E f \in Files \cap handled' : Matches[f] > 0
  BY <1>4 DEF PInv, PoolShape, Tallied
<1>11. PoolShape'
  <2>1. /\ Found(w)' \cap Outstanding = {}
        /\ handled \subseteq handled' /\ lost \subseteq lost'
    BY <1>3, <1>4
  <2>2. QED
    BY <1>1, <1>2, <1>7, <1>8, <1>9, <1>10, <2>1, LocalShape
<1>12. QED
  BY <1>5, <1>6, <1>11 DEF Advances

\* The references of an item are a sequence of directories.
LEMMA NodeSeqType == \A i \in Items : NodeSeq(i) \in Seq(Dirs)
<1>1. \A p \in Dirs : <<p>> \in Seq(Dirs)
  OBVIOUS
<1>2. <<>> \in Seq(Dirs)
  OBVIOUS
<1>3. QED
  BY <1>1, <1>2, NodeSeqs

\* A drained item is given up.
LEMMA DrainItemAdvances ==
  ASSUME PInv, NEW w \in Workers, DrainItem(w)
  PROVE  Advances
<1>1. At(w, "begin") /\ Release(w, NodeSeq(Current(w)))
  BY DEF DrainItem
<1>2. Current(w) \in Items
  BY <1>1, AtItem
<1>3. NodeSeq(Current(w)) \in Seq(Dirs)
  BY <1>2, NodeSeqType
<1>4. QED
  BY <1>1, <1>3, GiveUp DEF DrainItem

\* A searched file is handled, and the count of matches follows.
LEMMA SearchFileAdvances ==
  ASSUME PInv, NEW w \in Workers, SearchFile(w)
  PROVE  Advances
<1> DEFINE c == Current(w)
<1>1. At(w, "begin") /\ Release(w, <<>>) /\ <<>> \in Seq(Dirs) /\ c \in Files
  BY DEF SearchFile
<1>2. CASE Lose({c}) /\ UNCHANGED match_count
  BY <1>1, <1>2, GiveUp DEF SearchFile
<1>3. CASE match_count' = match_count + Matches[c] /\ Handle(c)
  <2>1. /\ state[w] = "run" /\ step[w] = "begin" /\ out[w] = <<>>
        /\ c \in Items
    BY <1>1, AtItem
  <2>2. UNCHANGED <<qvars, drain, pos, out, nodeVars, mainVars>>
    BY DEF SearchFile
  <2>3. /\ \A v \in Workers \ {w} : Unchanged(v)
        /\ DealtWith(w)' \subseteq DealtWith(w) \cup {c}
        /\ Placed(w)'
        /\ step' \in [Workers -> Steps]
        /\ idx' \in [Workers -> 1..PopMax + 1]
        /\ drops' \in [Workers -> Seq(Dirs)]
    BY <1>1, <2>1, <2>2, ReleaseEffect DEF qvars
  <2>4. c \in ToDo /\ ToDo' = ToDo \ {c} /\ Found(w)' = {}
    BY <1>1, <2>2, DoneWith
  <2>5. handled' = handled \cup {c} /\ lost' = lost
    BY <1>3 DEF Handle
  <2>6. [QNext]_qvars /\ Phase' = Phase /\ Phase = "run"
    BY <2>1, <2>2, <2>3, AtWork, ShareOfToDo
  <2>7. Abstract!TNext
    <3>1. ChildItems[c] = {}
      BY <1>1, Parents
    <3>2. Abstract!Handle(c)
      BY <2>4, <2>5, <2>6, <3>1 DEF Abstract!Handle
    <3>3. QED
      BY <2>1, <3>2 DEF Abstract!TNext
  <2>8. /\ Matches[c] \in Nat /\ match_count \in Nat
        /\ match_count' = match_count + Matches[c]
    BY <1>1, <1>3, PoolAssumption DEF PoolAssumption, PInv, PoolShape, PTypeOK
  <2>9. PTypeOK'
    <3>1. match_count' \in Nat
      BY <2>8
    <3>2. handled' \subseteq Items /\ lost' \subseteq Items
      BY <2>1, <2>5 DEF PInv, PoolShape, PTypeOK
    <3>3. QED
      BY <2>2, <2>3, <3>1, <3>2
         DEF PInv, PoolShape, PTypeOK, QTypeOK, qvars, nodeVars, mainVars
  <2>10. NodesInOrder'
    BY <2>1, <2>2, <2>3, <2>5, StillOpening DEF PInv, PoolShape, NodesInOrder, nodeVars
  <2>11. DealtWith(w)' \subseteq handled' \cup lost'
    BY <2>3, <2>5 DEF PInv, PoolShape, Recorded
  <2>12. match_count' > 0 <=> \E f \in Files \cap handled' : Matches[f] > 0
    <3>1. match_count > 0 <=> \E f \in Files \cap handled : Matches[f] > 0
      BY DEF PInv, PoolShape, Tallied
    <3>2. match_count' > 0 <=> match_count > 0 \/ Matches[c] > 0
      BY <2>8
    <3>3. QED
      BY <1>1, <2>5, <3>1, <3>2
  <2>13. PoolShape'
    <3>1. /\ Found(w)' \cap Outstanding = {}
          /\ handled \subseteq handled' /\ lost \subseteq lost'
      BY <2>4, <2>5
    <3>2. QED
      BY <2>1, <2>2, <2>3, <2>9, <2>10, <2>11, <2>12, <3>1, LocalShape
  <2>14. QED
    BY <2>6, <2>7, <2>13 DEF Advances
<1>4. QED
  BY <1>2, <1>3 DEF SearchFile

\* A directory without memory for its node is given up; otherwise nothing is
\* dealt with yet.
LEMMA CreateNodeAdvances ==
  ASSUME PInv, NEW w \in Workers, CreateNode(w)
  PROVE  Advances
<1> DEFINE c == Current(w)
<1>1. At(w, "begin") /\ c \in Dirs
  BY DEF CreateNode
<1>2. /\ state[w] = "run" /\ step[w] = "begin" /\ out[w] = <<>>
      /\ idx[w] \in 1..Len(held[w])
      /\ c \in Items
  BY <1>1, AtItem
<1>3. CASE Release(w, NodeSeq(c)) /\ Lose({c}) /\ UNCHANGED nodeVars
  <2>1. NodeSeq(c) \in Seq(Dirs)
    BY <1>2, NodeSeqType
  <2>2. QED
    BY <1>1, <1>3, <2>1, GiveUp DEF CreateNode
<1>4. CASE /\ greg_ignore_node_create(c)
           /\ step' = [step EXCEPT ![w] = "open"]
           /\ UNCHANGED <<idx, drops, historyVars>>
  <2>1. UNCHANGED <<qvars, drain, pos, out, match_count, mainVars, idx, drops, handled, lost>>
    BY <1>4 DEF CreateNode, historyVars
  <2>2. /\ step' \in [Workers -> Steps] /\ step'[w] = "open"
        /\ \A v \in Workers \ {w} : step'[v] = step[v]
    BY <1>4 DEF PInv, PoolShape, PTypeOK, Steps
  <2>3. \A v \in Workers \ {w} : Unchanged(v)
    BY <2>1, <2>2 DEF Unchanged, qvars
  <2>4. /\ Pending(w)' = Pending(w)
        /\ DealtWith(w)' = DealtWith(w)
        /\ Current(w)' = c
    BY <1>2, <2>1, <2>2 DEF Pending, DealtWith, Current, qvars
  <2>5. Found(w) = {} /\ Found(w)' = {}
    <3>1. Range(out[w]) = {}
      BY <1>2, EmptyRange DEF PInv, PoolShape, PTypeOK
    <3>2. QED
      BY <1>2, <2>1, <2>2, <3>1 DEF Found, Unread
  <2>6. ToDo' = ToDo /\ Phase' = Phase /\ [QNext]_qvars
    BY <2>1, <2>3, <2>4, <2>5, ShareOfToDo, OnePlace
  <2>7. Placed(w)'
    <3>1. /\ Placed(w) /\ idx[w] # Len(held[w]) + 1
      BY <1>2, LenProperties DEF PInv, PoolShape, PTypeOK, QTypeOK
    <3>2. QED
      BY <1>1, <1>2, <2>1, <2>2, <2>4, <3>1 DEF Placed, qvars
  <2>8. node' \in [Dirs -> {"none", "live", "freed"}] /\ ref_count' \in [Dirs -> Nat]
    <3>1. node \in [Dirs -> {"none", "live", "freed"}] /\ \A e \in Dirs : ref_count[e] \in Nat
      BY DEF PInv, PoolShape, PTypeOK
    <3>2. node' \in [Dirs -> {"none", "live", "freed"}]
      BY <1>1, <1>4, <3>1 DEF greg_ignore_node_create
    <3>3. ref_count' \in [Dirs -> Nat]
      BY <1>4, <3>1 DEF greg_ignore_node_create
    <3>4. QED
      BY <3>2, <3>3
  <2>9. PTypeOK'
    BY <2>1, <2>2, <2>8 DEF PInv, PoolShape, PTypeOK, QTypeOK, qvars, mainVars
  <2>10. NodesInOrder'
    <3>1. c \in Opening' /\ Opening \subseteq Opening'
      BY <1>2, <2>2, <2>3, <2>4, StillOpening DEF Opening
    <3>2. \A d \in Dirs : node'[d] # "none" => node[d] # "none" \/ d = c
      BY <1>4 DEF greg_ignore_node_create, PInv, PoolShape, PTypeOK
    <3>3. QED
      BY <2>1, <3>1, <3>2 DEF PInv, PoolShape, NodesInOrder
  <2>11. PoolShape'
    <3>1. /\ DealtWith(w)' \subseteq handled' \cup lost'
          /\ match_count' > 0 <=> \E f \in Files \cap handled' : Matches[f] > 0
      BY <2>1, <2>4 DEF PInv, PoolShape, Recorded, Tallied
    <3>2. QED
      BY <1>2, <2>1, <2>3, <2>5, <2>7, <2>9, <2>10, <3>1, LocalShape
  <2>12. QED
    BY <2>1, <2>6, <2>11 DEF Advances, Abstract!tvars
<1>5. QED
  BY <1>3, <1>4 DEF CreateNode

\* A directory that is opened is handled: its entries are what there is to do.
LEMMA OpenDirAdvances ==
  ASSUME PInv, NEW w \in Workers, OpenDir(w)
  PROVE  Advances
<1> DEFINE c == Current(w)
<1>1. At(w, "open")
  BY DEF OpenDir
<1>2. /\ state[w] = "run" /\ step[w] = "open" /\ out[w] = <<>>
      /\ idx[w] \in 1..Len(held[w])
      /\ c \in Items /\ c \in Outstanding /\ c \in Dirs
  BY <1>1, AtItem DEF PInv, PoolShape, Placed
<1>3. CASE Release(w, <<c>> \o NodeSeq(c)) /\ Lose({c}) /\ UNCHANGED pos
  <2>1. <<c>> \o NodeSeq(c) \in Seq(Dirs)
    BY <1>2, NodeSeqType, ConcatProperties
  <2>2. QED
    BY <1>1, <1>3, <2>1, GiveUp DEF OpenDir
<1>4. CASE /\ step' = [step EXCEPT ![w] = "walk"]
           /\ pos' = [pos EXCEPT ![w] = 0]
           /\ Handle(c)
           /\ UNCHANGED <<idx, drops>>
  <2>1. /\ UNCHANGED <<qvars, drain, out, nodeVars, match_count, mainVars, idx, drops, lost>>
        /\ handled' = handled \cup {c}
    BY <1>4 DEF OpenDir, Handle
  <2>2. /\ step' \in [Workers -> Steps] /\ step'[w] = "walk"
        /\ pos' \in [Workers -> Nat] /\ pos'[w] = 0
        /\ \A v \in Workers \ {w} : step'[v] = step[v] /\ pos'[v] = pos[v]
    BY <1>4 DEF PInv, PoolShape, PTypeOK, Steps
  <2>3. \A v \in Workers \ {w} : Unchanged(v)
    BY <2>1, <2>2 DEF Unchanged, qvars
  <2>4. /\ Pending(w)' = Pending(w) \ {c}
        /\ c \in Pending(w)
        /\ DealtWith(w)' \subseteq DealtWith(w) \cup {c}
        /\ Current(w)' = c
    <3>1. /\ Pending(w) = {c} \cup After(w) /\ c \notin After(w)
      <4>1. idx[w] <= Len(held[w])
        BY <1>2
      <4>2. QED
        BY <1>2, <4>1, Batches
    <3>2. Pending(w)' = After(w)
      BY <1>2, <2>1, <2>2 DEF Pending, After, qvars
    <3>3. QED
      BY <1>2, <2>1, <2>2, <3>1, <3>2 DEF DealtWith, Current, qvars
  <2>5. Range(out[w]) = {}
    BY <1>2, EmptyRange DEF PInv, PoolShape, PTypeOK
  <2>6. Found(w) = {} /\ Found(w)' = ChildItems[c]
    <3>1. /\ Kids[c] \in Seq(Range(Kids[c])) /\ DOMAIN Kids[c] = 1..Len(Kids[c])
          /\ ChildItems[c] = Listed(c) \cap Items
      BY <1>2, PoolAssumption, LenProperties, Parents DEF PoolAssumption
    <3>2. {Kids[c][i] : i \in 0 + 1..Len(Kids[c])} = Listed(c)
      BY <3>1 DEF Listed, Range
    <3>3. Unread(w)' = ChildItems[c]
      BY <2>2, <2>4, <3>1, <3>2 DEF Unread
    <3>4. QED
      BY <1>2, <2>1, <2>5, <3>3 DEF Found, Unread
  <2>7. ToDo' = (ToDo \ {c}) \cup ChildItems[c] /\ c \in ToDo
    <3>1. ToDo' = Others(w) \cup Pending(w)' \cup Found(w)'
      BY <2>1, <2>3, ShareOfToDo
    <3>2. ToDo = Others(w) \cup Pending(w) /\ c \notin Others(w)
      BY <2>4, <2>6, OnePlace
    <3>3. QED
      BY <2>4, <2>6, <3>1, <3>2
  <2>8. Phase' = Phase /\ Phase = "run" /\ [QNext]_qvars /\ Outstanding' = Outstanding
    BY <1>2, <2>1, <2>3, AtWork, ShareOfToDo
  <2>9. Abstract!TNext
    <3>1. Abstract!Handle(c)
      BY <2>1, <2>7, <2>8 DEF Abstract!Handle
    <3>2. QED
      BY <1>2, <3>1 DEF Abstract!TNext
  \* The entries of a directory that is only now opened are new.
  <2>10. Found(w)' \cap Outstanding = {}
    <3>1. ASSUME NEW i \in ChildItems[c], i \in Outstanding
          PROVE  FALSE
      <4>1. i \in ToDo \cup handled \cup lost
        BY <1>2, <3>1, AtWork
      <4>2. i # Root
        BY <1>2, TreeAssumption DEF Abstract!Tree
      <4>3. PICK d \in handled : i \in ChildItems[d]
        BY <4>1, <4>2 DEF PInv, Covering!TInv, Covering!Descended, Covering!Met
      <4>4. c \notin handled /\ d \in Items
        BY <2>7, <4>3 DEF PInv, PoolShape, PTypeOK, Covering!TInv, Covering!Separate
      <4>5. QED
        BY <1>2, <3>1, <4>3, <4>4, TreeAssumption DEF Abstract!Tree
    <3>2. QED
      BY <2>6, <3>1
  <2>11. Placed(w)'
    <3>1. Placed(w) /\ idx[w] # Len(held[w]) + 1
      BY <1>2, LenProperties DEF PInv, PoolShape, PTypeOK, QTypeOK
    <3>2. Len(Kids[c]) \in Nat
      BY <1>2, PoolAssumption, LenProperties DEF PoolAssumption
    <3>3. Walking(w)'
      <4>1. IsInjective(out[w]) /\ Len(out[w]) = 0
        BY <1>2 DEF IsInjective
      <4>2. QED
        BY <2>1, <2>2, <2>4, <2>5, <3>2, <4>1, QueueAssumption
           DEF Walking, QueueAssumption
    <3>4. QED
      BY <1>2, <2>1, <2>2, <2>4, <3>1, <3>3 DEF Placed, qvars
  <2>12. PTypeOK'
    BY <1>2, <2>1, <2>2 DEF PInv, PoolShape, PTypeOK, QTypeOK, qvars, mainVars, nodeVars
  <2>13. NodesInOrder'
    BY <2>1, <2>3, StillOpening DEF PInv, PoolShape, NodesInOrder, nodeVars
  <2>14. PoolShape'
    <3>1. DealtWith(w)' \subseteq handled' \cup lost'
      BY <2>1, <2>4 DEF PInv, PoolShape, Recorded
    <3>2. match_count' > 0 <=> \E f \in Files \cap handled' : Matches[f] > 0
      <4>1. Files \cap handled' = Files \cap handled
        BY <1>2, <2>1, Parents
      <4>2. QED
        BY <2>1, <4>1 DEF PInv, PoolShape, Tallied
    <3>3. QED
      BY <1>2, <2>1, <2>3, <2>10, <2>11, <2>12, <2>13, <3>1, <3>2, LocalShape
  <2>15. QED
    BY <2>8, <2>9, <2>14 DEF Advances
<1>5. QED
  BY <1>3, <1>4 DEF OpenDir

\* An entry goes from the unread part of the directory to the array, or is
\* given up.
LEMMA ReadEntryAdvances ==
  ASSUME PInv, NEW w \in Workers, ReadEntry(w)
  PROVE  Advances
<1> DEFINE c == Current(w)
           e == Kids[c][pos[w] + 1]
<1>1. At(w, "walk") /\ ~AtEnd(w) /\ Len(out[w]) <= PushMax
  BY DEF ReadEntry
<1>2. /\ state[w] = "run" /\ step[w] = "walk"
      /\ idx[w] \in 1..Len(held[w])
      /\ c \in Items /\ c \in Dirs /\ Placed(w) /\ Walking(w)
  BY <1>1, AtItem DEF PInv, PoolShape, Placed
<1>3. /\ Kids[c] \in Seq(Range(Kids[c])) /\ IsInjective(Kids[c])
      /\ Len(Kids[c]) \in Nat /\ DOMAIN Kids[c] = 1..Len(Kids[c])
      /\ pos[w] + 1 \in 1..Len(Kids[c]) /\ pos[w] \in Nat
  <2>1. /\ Kids[c] \in Seq(Range(Kids[c])) /\ IsInjective(Kids[c])
        /\ Len(Kids[c]) \in Nat /\ DOMAIN Kids[c] = 1..Len(Kids[c])
    BY <1>2, PoolAssumption, LenProperties DEF PoolAssumption
  <2>2. pos[w] \in 0..Len(Kids[c]) /\ pos[w] # Len(Kids[c])
    BY <1>1, <1>2 DEF Walking, AtEnd
  <2>3. QED
    BY <2>1, <2>2
<1>4. /\ pos' = [pos EXCEPT ![w] = @ + 1]
      /\ UNCHANGED <<qvars, step, drain, idx, drops, match_count, mainVars>>
      /\ \/ e \notin Items /\ UNCHANGED <<out, nodeVars, historyVars>>
         \/ e \in Items /\ TakeEntry(w, e) /\ UNCHANGED historyVars
         \/ e \in Items /\ Lose({e}) /\ UNCHANGED <<out, nodeVars>>
  BY DEF ReadEntry
<1>5. pos' \in [Workers -> Nat] /\ pos'[w] = pos[w] + 1
  BY <1>3, <1>4 DEF PInv, PoolShape, PTypeOK
<1>6. out \in [Workers -> Seq(Items)]
  BY DEF PInv, PoolShape, PTypeOK
\* The entry is met for the first time.
<1>7. e \in Unread(w) <=> e \in Items
  BY <1>2, <1>3 DEF Unread
<1>8. /\ Unread(w)' = Unread(w) \ {e}
      /\ e \notin {Kids[c][i] : i \in 1..pos[w]}
      /\ {Kids[c][i] : i \in 1..pos'[w]} = {Kids[c][i] : i \in 1..pos[w]} \cup {e}
  <2>1. \A i, j \in 1..Len(Kids[c]) : Kids[c][i] = Kids[c][j] => i = j
    BY <1>3 DEF IsInjective
  <2>2. e \notin {Kids[c][i] : i \in 1..pos[w]}
    <3>1. ASSUME NEW i \in 1..pos[w]
          PROVE  e # Kids[c][i]
      <4>1. i \in 1..Len(Kids[c]) /\ i # pos[w] + 1
        BY <1>3
      <4>2. QED
        BY <1>3, <2>1, <4>1
    <3>2. QED
      BY <3>1
  <2>3. {Kids[c][i] : i \in 1..pos[w] + 1} = {Kids[c][i] : i \in 1..pos[w]} \cup {e}
    <3>1. 1..pos[w] + 1 = (1..pos[w]) \cup {pos[w] + 1}
      BY <1>3
    <3>2. QED
      BY <3>1
  <2>4. Current(w)' = c /\ step'[w] = "walk"
    BY <1>2, <1>4 DEF Current, qvars
  <2>5. {Kids[c][i] : i \in pos[w] + 1 + 1..Len(Kids[c])}
          = {Kids[c][i] : i \in pos[w] + 1..Len(Kids[c])} \ {e}
    BY <1>3, <2>1
  <2>6. Unread(w)' = Unread(w) \ {e}
    BY <1>2, <1>5, <2>4, <2>5 DEF Unread
  <2>7. QED
    BY <1>5, <2>2, <2>3, <2>6
<1>9. /\ out' \in [Workers -> Seq(Items)]
      /\ \A v \in Workers \ {w} : out'[v] = out[v]
      /\ \/ out'[w] = out[w] /\ UNCHANGED nodeVars
         \/ e \in Items /\ out'[w] = Append(out[w], e)
  <2>1. CASE UNCHANGED <<out, nodeVars>>
    BY <1>6, <2>1
  <2>2. CASE e \in Items /\ TakeEntry(w, e)
    <3> HIDE DEF e
    <3>1. out' = [out EXCEPT ![w] = Append(out[w], e)]
      BY <2>2 DEF TakeEntry
    <3>2. Append(out[w], e) \in Seq(Items)
      BY <1>6, <2>2, AppendProperties
    <3>3. QED
      BY <1>6, <2>2, <3>1, <3>2
  <2>3. QED
    BY <1>4, <2>1, <2>2
<1>10. \A v \in Workers \ {w} : Unchanged(v)
  BY <1>4, <1>9 DEF Unchanged, qvars, PInv, PoolShape, PTypeOK
<1>11. /\ Pending(w)' = Pending(w) /\ DealtWith(w)' = DealtWith(w) /\ Current(w)' = c
       /\ step'[w] = "walk"
  BY <1>2, <1>4 DEF Pending, DealtWith, Current, qvars
<1>12. ASSUME e \in Items, out'[w] = Append(out[w], e)
       PROVE  /\ Range(out'[w]) = Range(out[w]) \cup {e}
              /\ IsInjective(out'[w])
              /\ Len(out'[w]) = Len(out[w]) + 1
  <2>1. /\ out[w] \in Seq(Items) /\ Len(out[w]) \in Nat /\ DOMAIN out[w] = 1..Len(out[w])
        /\ out'[w] \in Seq(Items)
        /\ Len(out'[w]) = Len(out[w]) + 1
        /\ \A i \in 1..Len(out[w]) : out'[w][i] = out[w][i]
        /\ out'[w][Len(out[w]) + 1] = e
    BY <1>6, <1>9, <1>12, LenProperties, AppendProperties
  <2>2. DOMAIN out'[w] = 1..Len(out[w]) + 1
    BY <2>1, LenProperties
  <2>3. Range(out'[w]) = Range(out[w]) \cup {e}
    <3> HIDE DEF e
    <3>1. QED
      BY <1>12, <2>1, AppendRange
  <2>4. e \notin Range(out[w])
    BY <1>2, <1>8 DEF Walking
  <2>5. \A i \in 1..Len(out[w]) : out[w][i] # e
    BY <2>1, <2>4 DEF Range
  <2>6. \A i, j \in 1..Len(out[w]) : out[w][i] = out[w][j] => i = j
    BY <1>2, <2>1 DEF Walking, IsInjective
  <2>7. ASSUME NEW i \in 1..Len(out[w]) + 1, NEW j \in 1..Len(out[w]) + 1,
               out'[w][i] = out'[w][j]
        PROVE  i = j
    <3>1. CASE i <= Len(out[w]) /\ j <= Len(out[w])
      BY <2>1, <2>6, <2>7, <3>1
    <3>2. CASE i = Len(out[w]) + 1
      BY <2>1, <2>5, <2>7, <3>2
    <3>3. CASE j = Len(out[w]) + 1
      BY <2>1, <2>5, <2>7, <3>3
    <3>4. QED
      BY <2>1, <3>1, <3>2, <3>3
  <2>8. QED
    BY <2>1, <2>2, <2>3, <2>7 DEF IsInjective
<1>13. /\ \/ Found(w)' = Found(w) /\ lost' = lost
          \/ e \in Items /\ Found(w)' = Found(w) \ {e} /\ lost' = lost \cup {e}
       /\ handled' = handled
  <2>1. CASE e \notin Items /\ UNCHANGED <<out, historyVars>>
    BY <1>7, <1>8, <2>1 DEF Found, historyVars
  <2>2. CASE e \in Items /\ TakeEntry(w, e) /\ UNCHANGED historyVars
    <3>1. out'[w] = Append(out[w], e)
      BY <1>6, <2>2 DEF TakeEntry
    <3>2. Range(out'[w]) = Range(out[w]) \cup {e}
      BY <1>12, <2>2, <3>1
    <3>3. QED
      BY <1>7, <1>8, <2>2, <3>2 DEF Found, historyVars
  <2>3. CASE e \in Items /\ Lose({e}) /\ UNCHANGED out
    <3>1. e \notin Range(out[w])
      BY <1>2, <1>8 DEF Walking
    <3>2. QED
      BY <1>7, <1>8, <2>3, <3>1 DEF Found, Lose
  <2>4. QED
    BY <1>4, <2>1, <2>2, <2>3
<1>14. /\ ToDo' = Others(w) \cup Pending(w) \cup Found(w)'
       /\ Phase' = Phase /\ Phase = "run" /\ [QNext]_qvars
  BY <1>2, <1>4, <1>10, <1>11, AtWork, ShareOfToDo
<1>15. [Abstract!TNext]_(Abstract!tvars)
  <2>1. CASE Found(w)' = Found(w) /\ lost' = lost
    BY <1>13, <1>14, <2>1, OnePlace DEF Abstract!tvars
  <2>2. CASE e \in Items /\ Found(w)' = Found(w) \ {e} /\ lost' = lost \cup {e}
    <3>1. e \in Found(w)
      BY <1>7, <2>2 DEF Found
    <3>2. e \in ToDo /\ ToDo' = ToDo \ {e}
      BY <1>14, <2>2, <3>1, OnePlace
    <3>3. Abstract!Lose({e})
      BY <1>13, <1>14, <2>2, <3>2 DEF Abstract!Lose
    <3>4. QED
      BY <2>2, <3>3 DEF Abstract!TNext
  <2>3. QED
    BY <1>13, <2>1, <2>2
<1>16. Placed(w)'
  <2>1. Range(out'[w]) \subseteq {Kids[c][i] : i \in 1..pos'[w]}
    BY <1>2, <1>8, <1>9, <1>12 DEF Walking
  <2>2. IsInjective(out'[w]) /\ Len(out'[w]) <= PushMax + 1
    <3>1. PushMax \in Nat /\ Len(out[w]) \in Nat
      BY <1>6, QueueAssumption, LenProperties DEF QueueAssumption
    <3>2. QED
      BY <1>1, <1>2, <1>9, <1>12, <3>1 DEF Walking
  <2>3. Walking(w)'
    BY <1>3, <1>5, <1>11, <2>1, <2>2 DEF Walking
  <2>4. QED
    BY <1>2, <1>4, <1>11, <2>3 DEF Placed, qvars
<1>17. PTypeOK'
  <2>1. node' \in [Dirs -> {"none", "live", "freed"}] /\ ref_count' \in [Dirs -> Nat]
    <3>1. node \in [Dirs -> {"none", "live", "freed"}] /\ ref_count \in [Dirs -> Nat]
      BY DEF PInv, PoolShape, PTypeOK
    <3>2. QED
      BY <1>2, <1>4, <3>1 DEF TakeEntry, nodeVars
  <2>2. handled' \subseteq Items /\ lost' \subseteq Items
    BY <1>13 DEF PInv, PoolShape, PTypeOK
  <2>3. QED
    BY <1>4, <1>5, <1>9, <2>1, <2>2 DEF PInv, PoolShape, PTypeOK, QTypeOK, qvars, mainVars
<1>18. NodesInOrder'
  <2>1. node' = node
    BY <1>4 DEF TakeEntry, nodeVars
  <2>2. QED
    BY <1>2, <1>10, <1>13, <2>1, StillOpening DEF PInv, PoolShape, NodesInOrder
<1>19. PoolShape'
  <2>1. Found(w)' \cap Outstanding = {}
    BY <1>13 DEF PInv, PoolShape, Fresh
  <2>2. DealtWith(w)' \subseteq handled' \cup lost'
    BY <1>11, <1>13 DEF PInv, PoolShape, Recorded
  <2>3. match_count' > 0 <=> \E f \in Files \cap handled' : Matches[f] > 0
    BY <1>4, <1>13 DEF PInv, PoolShape, Tallied
  <2>4. QED
    BY <1>2, <1>4, <1>10, <1>13, <1>16, <1>17, <1>18, <2>1, <2>2, <2>3, LocalShape
<1>20. QED
  BY <1>14, <1>15, <1>19 DEF Advances

\* A directory is closed when nothing of it is left to read or to push.
LEMMA CloseDirAdvances ==
  ASSUME PInv, NEW w \in Workers, CloseDir(w)
  PROVE  Advances
<1> DEFINE c == Current(w)
<1>1. At(w, "walk") /\ AtEnd(w) /\ out[w] = <<>> /\ Release(w, <<c>> \o NodeSeq(c))
  BY DEF CloseDir
<1>2. /\ state[w] = "run" /\ step[w] = "walk"
      /\ idx[w] \in 1..Len(held[w]) /\ Len(held[w]) \in Nat
      /\ c \in Items /\ c \in Dirs
  BY <1>1, AtItem, LenProperties DEF PInv, PoolShape, Placed, PTypeOK, QTypeOK
<1>3. <<c>> \o NodeSeq(c) \in Seq(Dirs)
  BY <1>2, NodeSeqType, ConcatProperties
<1>4. UNCHANGED <<qvars, drain, pos, out, nodeVars, match_count, mainVars, handled, lost>>
  BY DEF CloseDir, historyVars
<1>5. /\ \A v \in Workers \ {w} : Unchanged(v)
      /\ Pending(w)' = After(w)
      /\ DealtWith(w)' \subseteq DealtWith(w) \cup {c}
      /\ Found(w)' = {}
      /\ Placed(w)'
      /\ step' \in [Workers -> Steps]
      /\ idx' \in [Workers -> 1..PopMax + 1]
      /\ drops' \in [Workers -> Seq(Dirs)]
  BY <1>1, <1>3, <1>4, ReleaseEffect DEF qvars
<1>6. Pending(w) = After(w) /\ c \in DealtWith(w)
  <2>1. idx[w] <= Len(held[w])
    BY <1>2
  <2>2. Pending(w) = After(w)
    BY <1>2, <2>1, Batches
  <2>3. idx[w] \in DOMAIN held[w]
    BY <1>2, LenProperties DEF PInv, PoolShape, PTypeOK, QTypeOK
  <2>4. QED
    BY <1>2, <2>2, <2>3 DEF DealtWith, Current
<1>7. Found(w) = {}
  <2>1. Range(out[w]) = {}
    BY <1>1, EmptyRange DEF PInv, PoolShape, PTypeOK
  <2>2. Unread(w) = {}
    <3>1. pos[w] = Len(Kids[c]) /\ Len(Kids[c]) \in Nat
      BY <1>1, <1>2, PoolAssumption, LenProperties DEF PoolAssumption, AtEnd
    <3>2. QED
      BY <1>2, <3>1 DEF Unread
  <2>3. QED
    BY <2>1, <2>2 DEF Found
<1>8. ToDo' = ToDo /\ Phase' = Phase /\ [QNext]_qvars
  <2>1. ToDo = Others(w) \cup Pending(w) \cup Found(w)
    BY OnePlace
  <2>2. /\ ToDo' = Others(w) \cup Pending(w)' \cup Found(w)'
        /\ Phase' = Phase /\ [QNext]_qvars
    BY <1>4, <1>5, ShareOfToDo
  <2>3. QED
    BY <1>5, <1>6, <1>7, <2>1, <2>2
<1>9. PTypeOK'
  BY <1>4, <1>5 DEF PInv, PoolShape, PTypeOK, QTypeOK, qvars, mainVars, nodeVars
<1>10. PoolShape'
  <2>1. NodesInOrder'
    BY <1>2, <1>4, <1>5, StillOpening DEF PInv, PoolShape, NodesInOrder, nodeVars
  <2>2. DealtWith(w)' \subseteq handled' \cup lost'
    BY <1>4, <1>5, <1>6 DEF PInv, PoolShape, Recorded
  <2>3. match_count' > 0 <=> \E f \in Files \cap handled' : Matches[f] > 0
    BY <1>4 DEF PInv, PoolShape, Tallied
  <2>4. QED
    BY <1>2, <1>4, <1>5, <1>9, <2>1, <2>2, <2>3, LocalShape
<1>11. QED
  BY <1>4, <1>8, <1>10 DEF Advances, Abstract!tvars

\* References are given back after the item was dealt with.
LEMMA UnrefAdvances ==
  ASSUME PInv, NEW w \in Workers, Unref(w), NodeTypes'
  PROVE  Advances
<1> DEFINE d == Head(drops[w])
           nodes == (IF ref_count[d] = 1 THEN NodeSeq(d) ELSE <<>>) \o Tail(drops[w])
<1>1. At(w, "free") /\ Release(w, nodes)
  BY DEF Unref, greg_ignore_node_unref
<1>2. /\ state[w] = "run" /\ step[w] = "free" /\ out[w] = <<>>
      /\ idx[w] \in 1..Len(held[w]) /\ Len(held[w]) \in Nat
      /\ drops[w] # <<>> /\ drops[w] \in Seq(Dirs)
  BY <1>1, AtItem, LenProperties DEF PInv, PoolShape, Placed, PTypeOK, QTypeOK
<1>3. d \in Dirs /\ Tail(drops[w]) \in Seq(Dirs)
  BY <1>2, HeadTailProperties
<1>4. nodes \in Seq(Dirs)
  <2>1. <<>> \in Seq(Dirs) /\ NodeSeq(d) \in Seq(Dirs)
    BY <1>3, NodeSeqType, Parents
  <2>2. QED
    BY <1>3, <2>1, ConcatProperties
<1>5. UNCHANGED <<qvars, drain, pos, out, match_count, mainVars, handled, lost>>
  BY DEF Unref, historyVars
<1> HIDE DEF nodes
<1>6. /\ \A v \in Workers \ {w} : Unchanged(v)
      /\ Pending(w)' = After(w)
      /\ DealtWith(w)' \subseteq DealtWith(w) \cup {Current(w)}
      /\ Found(w)' = {}
      /\ Placed(w)'
      /\ step' \in [Workers -> Steps]
      /\ idx' \in [Workers -> 1..PopMax + 1]
      /\ drops' \in [Workers -> Seq(Dirs)]
  BY <1>1, <1>2, <1>4, <1>5, ReleaseEffect DEF qvars
<1>7. Pending(w) = After(w) /\ Current(w) \in DealtWith(w)
  <2>1. idx[w] <= Len(held[w])
    BY <1>2
  <2>2. Pending(w) = After(w)
    BY <1>2, <2>1, Batches
  <2>3. idx[w] \in DOMAIN held[w]
    BY <1>2, LenProperties DEF PInv, PoolShape, PTypeOK, QTypeOK
  <2>4. QED
    BY <1>2, <2>2, <2>3 DEF DealtWith, Current
<1>8. ToDo' = ToDo /\ Phase' = Phase /\ [QNext]_qvars
  <2>1. ToDo = Others(w) \cup Pending(w) \cup Found(w) /\ Found(w) = {}
    BY <1>2, OnePlace, FoundUnder
  <2>2. /\ ToDo' = Others(w) \cup Pending(w)' \cup Found(w)'
        /\ Phase' = Phase /\ [QNext]_qvars
    BY <1>5, <1>6, ShareOfToDo
  <2>3. QED
    BY <1>6, <1>7, <2>1, <2>2
<1>9. PTypeOK'
  BY <1>5, <1>6 DEF NodeTypes, PInv, PoolShape, PTypeOK, QTypeOK, qvars, mainVars
<1>10. NodesInOrder'
  <2>1. node[d] # "none"
    <3>1. Holders(d) # {}
      BY <1>2, HeadHeld
    <3>2. QED
      BY <1>3, <3>1 DEF PInv, Counts
  <2>2. \A e \in Dirs : node'[e] # "none" => node[e] # "none"
    BY <2>1 DEF Unref, greg_ignore_node_unref, PInv, PoolShape, PTypeOK
  <2>3. Opening \subseteq Opening'
    BY <1>2, <1>6, StillOpening
  <2>4. QED
    BY <1>5, <2>2, <2>3 DEF PInv, PoolShape, NodesInOrder
<1>11. PoolShape'
  <2>1. DealtWith(w)' \subseteq handled' \cup lost'
    BY <1>5, <1>6, <1>7 DEF PInv, PoolShape, Recorded
  <2>2. match_count' > 0 <=> \E f \in Files \cap handled' : Matches[f] > 0
    BY <1>5 DEF PInv, PoolShape, Tallied
  <2>3. QED
    BY <1>2, <1>5, <1>6, <1>9, <1>10, <2>1, <2>2, LocalShape
<1>12. QED
  BY <1>5, <1>8, <1>11 DEF Advances, Abstract!tvars

-----------------------------------------------------------------------------
(* The steps of a worker on the queue.                                     *)

\* A worker that takes a batch takes over what there is to do.
LEMMA PopAdvances ==
  ASSUME PInv, NEW w \in Workers, Pop(w)
  PROVE  Advances
<1> DEFINE max == IF w \in drain THEN DrainMax ELSE PopMax
<1>1. /\ greg_queue_pop_batch(w, max) /\ state[w] = "pop" /\ max \in 1..PopMax
      /\ UNCHANGED <<main, step, drain, idx, pos, out, drops, node, ref_count,
                     match_count, walk_rc, exit_code, handled, lost>>
  BY PoolAssumption, QueueAssumption
     DEF Pop, PoolAssumption, QueueAssumption, greg_queue_pop_batch, workerVars, walkVars,
         nodeVars, mainVars, historyVars
<1>2. QNext
  BY <1>1 DEF QNext, PopBatch
<1>3. QInv'
  BY <1>2, StepInv DEF PInv
<1>4. PTypeOK'
  BY <1>1, <1>3 DEF QInv, PInv, PoolShape, PTypeOK
<1>5. held[w] = <<>> /\ Range(held[w]) = {}
  BY <1>1, EmptyRange DEF PInv, QInv, WorkerStanding, QTypeOK
<1>6. CASE queue = <<>>
  <2>1. UNCHANGED <<queue, active, held>>
    BY <1>1, <1>6 DEF greg_queue_pop_batch, Take, queueVars
  <2>2. \A v \in Workers : Unchanged(v)
    BY <1>1, <2>1 DEF Unchanged
  <2>3. ToDo' = ToDo /\ Phase' = Phase /\ Outstanding' = Outstanding
    BY <1>1, <2>1 DEF ToDo, Phase, Outstanding, Pending, Unread, Current
  <2>4. PoolShape'
    <3>1. /\ \A v \in Workers : Placed(v)' /\ Found(v)' = Found(v) /\ DealtWith(v)' = DealtWith(v)
      BY <2>2, Frame DEF PInv, PoolShape
    <3>2. Opening' = Opening /\ ExitStatus' = ExitStatus
      BY <1>1, <2>1 DEF Opening, Current, ExitStatus
    <3>3. QED
      BY <1>1, <1>4, <2>3, <3>1, <3>2
         DEF PInv, PoolShape, Fresh, Recorded, NodesInOrder, Tallied
  <2>5. QED
    BY <1>1, <1>2, <2>3, <2>4 DEF Advances, Abstract!tvars
<1>7. CASE queue # <<>>
  <2>1. PICK n \in 1..Len(queue) : Take(w, n) /\ n <= PopMax
    <3>1. Len(queue) \in Nat /\ Len(queue) # 0 /\ PopMax \in Nat
      BY <1>7, EmptySeq, LenProperties, QueueAssumption
         DEF PInv, QInv, QTypeOK, QueueAssumption
    <3>2. max \in 1..PopMax
      BY <1>1
    <3>3. Batch(max) \in 1..Len(queue) /\ Batch(max) <= PopMax
      BY <3>1, <3>2 DEF Batch
    <3>4. QED
      BY <1>1, <1>7, <3>3 DEF greg_queue_pop_batch
  <2> DEFINE a == SubSeq(queue, 1, n)
             b == SubSeq(queue, n + 1, Len(queue))
  <2>2. /\ a \in Seq(Items) /\ Len(a) = n /\ n \in Nat
        /\ b \in Seq(Items)
        /\ Range(a) \cup Range(b) = Range(queue)
    <3>1. queue \in Seq(Items) /\ n \in 0..Len(queue)
      BY LenProperties DEF PInv, QInv, QTypeOK
    <3>2. QED
      BY <3>1, CutSequence
  <2>3. /\ held' = [held EXCEPT ![w] = a] /\ queue' = b /\ active' = active
        /\ held \in [Workers -> Seq(Items)]
    BY <2>1 DEF Take, PInv, QInv, QTypeOK
  <2>4. held'[w] = a /\ \A v \in Workers \ {w} : held'[v] = held[v]
    BY <2>3
  <2> HIDE DEF a, b
  <2>5. \A v \in Workers \ {w} : Unchanged(v)
    BY <1>1, <2>4 DEF Unchanged
  <2>6. idx[w] = 1 /\ step[w] = "begin"
    BY <1>5 DEF PInv, PoolShape, Placed
  <2>7. /\ Pending(w)' = Range(a) /\ Pending(w) = {}
        /\ DealtWith(w)' = {} /\ Found(w) = {} /\ Found(w)' = {}
    <3>1. DOMAIN a = 1..n
      BY <2>2, LenProperties
    <3>2. Pending(w)' = Range(a) /\ DealtWith(w)' = {}
      BY <1>1, <2>2, <2>4, <2>6, <3>1 DEF Pending, DealtWith, Range
    <3>3. Pending(w) = {}
      BY <1>5, Batches
    <3>4. Found(w) = {} /\ Found(w)' = {}
      BY <1>1, <2>6, FoundUnder DEF Found, Unread
    <3>5. QED
      BY <3>2, <3>3, <3>4
  <2>8. \A v \in Workers \ {w} : /\ Pending(v)' = Pending(v) /\ Found(v)' = Found(v)
                                 /\ DealtWith(v)' = DealtWith(v)
                                 /\ Placed(v)' /\ Current(v)' = Current(v)
    BY <2>5, Frame DEF PInv, PoolShape
  <2>9. ToDo' = ToDo
    <3>1. ToDo = Range(queue) \cup UNION {Pending(v) \cup Found(v) : v \in Workers \ {w}}
      BY <2>7, OnePlace DEF Others
    <3>2. ToDo' = Range(queue') \cup UNION {Pending(v)' \cup Found(v)' : v \in Workers}
      BY DEF ToDo, Found
    <3>3. ToDo' = Range(b) \cup Range(a)
            \cup UNION {Pending(v) \cup Found(v) : v \in Workers \ {w}}
      BY <2>3, <2>7, <2>8, <3>2
    <3>4. QED
      BY <2>2, <3>1, <3>3
  <2>10. Phase' = Phase
    BY <1>1, <2>3 DEF Phase
  <2>11. Outstanding' = Outstanding
    <3>1. Outstanding' = Range(b) \cup Range(a)
            \cup UNION {Range(held[v]) : v \in Workers \ {w}}
      BY <2>3, <2>4 DEF Outstanding
    <3>2. Outstanding = Range(queue) \cup UNION {Range(held[v]) : v \in Workers \ {w}}
      BY <1>5 DEF Outstanding
    <3>3. QED
      BY <2>2, <3>1, <3>2
  <2>12. Placed(w)'
    BY <1>1, <2>1, <2>2, <2>4, <2>6 DEF Placed, PInv, PoolShape
  <2>13. Opening' = Opening
    BY <1>1, <2>6, <2>8 DEF Opening
  <2>14. PoolShape'
    <3>1. Fresh' /\ Recorded'
      BY <1>1, <2>7, <2>8, <2>11 DEF PInv, PoolShape, Fresh, Recorded
    <3>2. NodesInOrder'
      BY <1>1, <2>13 DEF PInv, PoolShape, NodesInOrder
    <3>3. Tallied'
      BY <1>1, <2>11 DEF PInv, PoolShape, Tallied, ExitStatus
    <3>4. QED
      BY <1>4, <2>8, <2>12, <3>1, <3>2, <3>3 DEF PoolShape
  <2>15. QED
    BY <1>1, <1>2, <2>9, <2>10, <2>14 DEF Advances, Abstract!tvars
<1>8. QED
  BY <1>6, <1>7

\* A worker that reports its batch done has nothing of it left to do; if the
\* queue is shut down, nobody has.
LEMMA ReportAdvances ==
  ASSUME PInv, NEW w \in Workers, Report(w)
  PROVE  Advances
<1>1. /\ greg_queue_tasks_done(w) /\ state[w] = "run" /\ idx[w] > Len(held[w])
      /\ idx' = [idx EXCEPT ![w] = 1]
      /\ UNCHANGED <<main, step, drain, pos, out, drops, node, ref_count,
                     match_count, walk_rc, exit_code, handled, lost>>
  BY DEF Report, walkVars, nodeVars, mainVars, historyVars
<1>2. QNext
  BY <1>1 DEF QNext, TasksDone
<1>3. QInv'
  BY <1>2, StepInv DEF PInv
<1>4. /\ active /\ main = "join" /\ Phase = "run"
      /\ walk_rc = 0 /\ exit_code = Running
  BY <1>1, AtWork
<1>5. /\ idx \in [Workers -> 1..PopMax + 1] /\ PopMax \in Nat
      /\ Len(held[w]) \in Nat /\ idx[w] \in 1..Len(held[w]) + 1
      /\ held \in [Workers -> Seq(Items)]
  BY QueueAssumption, LenProperties
     DEF QueueAssumption, PInv, QInv, PoolShape, PTypeOK, QTypeOK, Placed
<1>6. step[w] = "begin" /\ Placed(w)
  BY <1>1, <1>5 DEF PInv, PoolShape, Placed
<1>7. /\ queue' = queue /\ held' = [held EXCEPT ![w] = <<>>]
      /\ held'[w] = <<>>
      /\ \A v \in Workers \ {w} : held'[v] = held[v]
  BY <1>1, <1>5 DEF greg_queue_tasks_done
<1>8. /\ idx' \in [Workers -> 1..PopMax + 1] /\ idx'[w] = 1
      /\ \A v \in Workers \ {w} : Unchanged(v)
  BY <1>1, <1>5, <1>7 DEF Unchanged
<1>9. /\ Pending(w) = {} /\ Pending(w)' = {} /\ DealtWith(w)' = {}
      /\ Found(w) = {} /\ Found(w)' = {}
  <2>1. DOMAIN held'[w] = {}
    BY <1>7
  <2>2. Pending(w)' = {} /\ DealtWith(w)' = {}
    BY <2>1 DEF Pending, DealtWith
  <2>3. Found(w) = {} /\ Found(w)' = {}
    BY <1>1, <1>6, FoundUnder DEF Found, Unread
  <2>4. QED
    BY <1>1, <2>2, <2>3, Batches
<1>10. \A v \in Workers \ {w} : /\ Pending(v)' = Pending(v) /\ Found(v)' = Found(v)
                                /\ DealtWith(v)' = DealtWith(v)
                                /\ Placed(v)' /\ Current(v)' = Current(v)
  BY <1>8, Frame DEF PInv, PoolShape
<1>11. ToDo' = ToDo
  <2>1. /\ ToDo = Range(queue) \cup UNION {Pending(v) \cup Found(v) : v \in Workers}
        /\ ToDo' = Range(queue') \cup UNION {Pending(v)' \cup Found(v)' : v \in Workers}
    BY DEF ToDo, Found
  <2>2. \A v \in Workers : Pending(v)' = Pending(v) /\ Found(v)' = Found(v)
    BY <1>9, <1>10
  <2>3. QED
    BY <1>7, <2>1, <2>2
<1>12. Outstanding' \subseteq Outstanding
  <2>1. Range(held'[w]) = {}
    BY <1>3, <1>7, EmptyRange DEF QInv, QTypeOK
  <2>2. QED
    BY <1>7, <2>1 DEF Outstanding
<1>13. [Abstract!TNext]_(Abstract!tvars)
  <2>1. CASE active'
    BY <1>1, <1>4, <1>11, <2>1 DEF Phase, Abstract!tvars
  <2>2. CASE ~active'
    <3>1. Outstanding' = {} /\ \A v \in Workers : state'[v] # "run"
      BY <1>3, <2>2 DEF QInv, QuiescentShutdown
    <3>2. \A v \in Workers : Found(v)' = {}
      <4>1. ASSUME NEW v \in Workers \ {w}
            PROVE  Found(v)' = {}
        <5>1. held'[v] = <<>> /\ held[v] = <<>>
          BY <1>3, <1>7, <3>1 DEF QInv, WorkerStanding
        <5>2. step[v] # "walk"
          BY <5>1 DEF PInv, PoolShape, Placed
        <5>3. QED
          BY <1>10, <5>2, FoundUnder
      <4>2. QED
        BY <1>9, <4>1
    <3>3. \A v \in Workers : Pending(v)' = {}
      <4>1. \A v \in Workers : Pending(v) \subseteq Range(held[v])
        BY Batches
      <4>2. QED
        BY <1>7, <1>9, <1>10, <3>1, <4>1 DEF Outstanding
    <3>4. ToDo' = {}
      BY <3>1, <3>2, <3>3 DEF ToDo, Found, Outstanding
    <3>5. Phase' = "done"
      BY <1>1, <1>4, <2>2 DEF Phase
    <3>6. Abstract!Finish
      BY <1>1, <1>4, <1>11, <3>4, <3>5 DEF Abstract!Finish
    <3>7. QED
      BY <3>6 DEF Abstract!TNext
  <2>3. QED
    BY <2>1, <2>2
<1>14. Opening' = Opening
  BY <1>1, <1>6, <1>10 DEF Opening
<1>15. PoolShape'
  <2>1. PTypeOK'
    BY <1>1, <1>3, <1>8 DEF QInv, PInv, PoolShape, PTypeOK
  <2>2. Placed(w)'
    <3>1. Len(held'[w]) = 0
      BY <1>7
    <3>2. QED
      BY <1>1, <1>5, <1>6, <1>8, <3>1 DEF Placed
  <2>3. Fresh' /\ Recorded'
    BY <1>1, <1>9, <1>10, <1>12 DEF PInv, PoolShape, Fresh, Recorded
  <2>4. NodesInOrder'
    BY <1>1, <1>14 DEF PInv, PoolShape, NodesInOrder
  <2>5. Tallied'
    BY <1>1, <1>4 DEF PInv, PoolShape, Tallied, Running
  <2>6. QED
    BY <1>10, <2>1, <2>2, <2>3, <2>4, <2>5 DEF PoolShape
<1>16. QED
  BY <1>2, <1>13, <1>15 DEF Advances

\* A walker that flushes its array hands over what the queue keeps and gives
\* up what it refuses.
LEMMA FlushAdvances ==
  ASSUME PInv, NEW w \in Workers, Flush(w), NodeTypes'
  PROVE  Advances
<1> DEFINE c == Current(w)
           n == FlushSize(w)
           items == SubSeq(out[w], 1, n)
           rest == SubSeq(out[w], n + 1, Len(out[w]))
<1>1. /\ At(w, "walk") /\ MustFlush(w)
      /\ out' = [out EXCEPT ![w] = rest]
      /\ UNCHANGED <<held, main, step, drain, idx, pos, drops, node, match_count,
                     walk_rc, exit_code>>
  BY DEF Flush, Rest, mainVars
<1>2. PICK kept \in Stored(items) :
        /\ greg_queue_push_batch(items, kept)
        /\ Lose(Range(items) \ Range(kept))
  BY DEF Flush
<1>3. /\ state[w] = "run" /\ step[w] = "walk" /\ idx[w] \in 1..Len(held[w])
      /\ c \in Items /\ c \in Dirs /\ Placed(w) /\ Walking(w)
  BY <1>1, AtItem DEF PInv, PoolShape, Placed
<1>4. /\ out \in [Workers -> Seq(Items)] /\ out[w] \in Seq(Items) /\ Len(out[w]) \in Nat
      /\ PushMax \in Nat \ {0}
  BY QueueAssumption, LenProperties DEF QueueAssumption, PInv, PoolShape, PTypeOK
<1>5. n \in 1..PushMax /\ n \in 0..Len(out[w])
  <2>1. Len(out[w]) > PushMax \/ out[w] # <<>>
    BY <1>1 DEF MustFlush
  <2>2. out[w] # <<>> => Len(out[w]) > 0
    BY <1>4, EmptySeq
  <2>3. QED
    BY <1>4, <2>1, <2>2 DEF FlushSize
<1> HIDE DEF n
<1>6. /\ items \in Seq(Items) /\ Len(items) = n /\ IsInjective(items)
      /\ rest \in Seq(Items) /\ Len(rest) = Len(out[w]) - n /\ IsInjective(rest)
      /\ Range(items) \cup Range(rest) = Range(out[w])
      /\ Range(items) \cap Range(rest) = {}
  BY <1>3, <1>4, <1>5, CutSequence DEF Walking
<1> HIDE DEF items, rest
<1>7. Range(out[w]) \subseteq Found(w) /\ Found(w) \cap Outstanding = {}
  BY DEF PInv, PoolShape, Fresh, Found
<1>8. PushBatch(w)
  <2>1. DOMAIN items = 1..n
    BY <1>6, LenProperties
  <2>2. items \in [1..n -> Items]
    BY <1>6, <2>1, LenProperties
  <2>3. Range(items) \cap Outstanding = {}
    BY <1>6, <1>7
  <2>4. QED
    BY <1>1, <1>2, <1>3, <1>5, <1>6, <2>2, <2>3 DEF PushBatch
<1>9. QNext /\ QInv'
  BY <1>8, StepInv DEF QNext, PInv
<1>10. /\ kept \in Seq(Items) /\ Range(kept) \subseteq Range(items)
  BY <1>2, <1>6, StoredItems
<1>11. queue' = queue \o kept /\ active' = active /\ queue \in Seq(Items)
  BY <1>2 DEF greg_queue_push_batch, Enqueue, PInv, QInv, QTypeOK
<1>12. Range(queue') = Range(queue) \cup Range(kept)
  BY <1>10, <1>11, RangeConcatenation
<1>13. Outstanding' = Outstanding \cup Range(kept)
  BY <1>1, <1>12 DEF Outstanding
<1>14. /\ out' \in [Workers -> Seq(Items)] /\ out'[w] = rest
       /\ \A v \in Workers \ {w} : Unchanged(v)
  BY <1>1, <1>4, <1>6 DEF Unchanged
<1>15. /\ Pending(w)' = Pending(w) /\ DealtWith(w)' = DealtWith(w)
       /\ Current(w)' = c /\ Unread(w)' = Unread(w)
  BY <1>1 DEF Pending, DealtWith, Current, Unread
<1>16. \A v \in Workers \ {w} : /\ Pending(v)' = Pending(v) /\ Found(v)' = Found(v)
                                /\ DealtWith(v)' = DealtWith(v)
                                /\ Placed(v)' /\ Current(v)' = Current(v)
  BY <1>14, Frame DEF PInv, PoolShape
<1>17. Found(w)' = Found(w) \ Range(items)
  BY <1>3, <1>6, <1>14, <1>15, FoundUnder DEF Found
<1>18. handled' = handled /\ lost' = lost \cup (Range(items) \ Range(kept))
  BY <1>2 DEF Lose
<1>19. /\ ToDo' = ToDo \ (Range(items) \ Range(kept))
       /\ Range(items) \subseteq ToDo
  <2>1. ToDo' = Range(queue') \cup UNION {Pending(v)' \cup Found(v)' : v \in Workers}
    BY DEF ToDo, Found
  <2>2. ToDo' = Others(w) \cup Range(kept) \cup Pending(w) \cup (Found(w) \ Range(items))
    BY <1>12, <1>15, <1>16, <1>17, <2>1 DEF Others
  <2>3. Range(items) \subseteq Found(w)
    BY <1>6, <1>7
  <2>4. QED
    BY <1>10, <2>2, <2>3, OnePlace
<1>20. /\ Phase' = Phase /\ Phase = "run" /\ walk_rc = 0 /\ exit_code = Running
       /\ main = "join"
  BY <1>1, <1>3, <1>11, AtWork DEF Phase
<1>21. Abstract!TNext
  <2>1. Abstract!Lose(Range(items) \ Range(kept))
    BY <1>18, <1>19, <1>20 DEF Abstract!Lose
  <2>2. Range(items) \ Range(kept) \in SUBSET Items
    BY <1>6, <1>7, FoundUnder
  <2>3. QED
    BY <2>1, <2>2 DEF Abstract!TNext
<1>22. Placed(w)'
  <2>1. Walking(w)'
    BY <1>1, <1>3, <1>4, <1>5, <1>6, <1>14, <1>15 DEF Walking
  <2>2. QED
    BY <1>1, <1>3, <1>15, <2>1 DEF Placed
<1>23. Fresh'
  <2>1. ASSUME NEW v \in Workers \ {w}
        PROVE  Found(v)' \cap Outstanding' = {}
    <3>1. Found(v) \subseteq Others(w) /\ Found(v) \cap Outstanding = {}
      BY DEF Others, PInv, PoolShape, Fresh
    <3>2. Others(w) \cap Found(w) = {}
      BY OnePlace
    <3>3. QED
      BY <1>6, <1>7, <1>10, <1>13, <1>16, <3>1, <3>2
  <2>2. Found(w)' \cap Outstanding' = {}
    BY <1>7, <1>10, <1>13, <1>17
  <2>3. QED
    BY <2>1, <2>2 DEF Fresh
<1>24. Opening' = Opening
  BY <1>1, <1>3, <1>16 DEF Opening
<1>25. PoolShape'
  <2>1. PTypeOK'
    <3>1. lost' \subseteq Items
      BY <1>6, <1>7, <1>18, FoundUnder DEF PInv, PoolShape, PTypeOK
    <3>2. QED
      BY <1>1, <1>9, <1>14, <1>18, <3>1 DEF NodeTypes, QInv, PInv, PoolShape, PTypeOK
  <2>2. Recorded' /\ NodesInOrder'
    BY <1>1, <1>15, <1>16, <1>18, <1>24 DEF PInv, PoolShape, Recorded, NodesInOrder
  <2>3. Tallied'
    BY <1>1, <1>18, <1>20 DEF PInv, PoolShape, Tallied
  <2>4. QED
    BY <1>16, <1>22, <1>23, <2>1, <2>2, <2>3 DEF PoolShape
<1>26. QED
  BY <1>9, <1>21, <1>25 DEF Advances

-----------------------------------------------------------------------------
(* The main thread, and threads that start or wake up.                     *)

\* Nothing is left to do when nothing is outstanding.
LEMMA NothingToDo ==
  ASSUME PInv, Outstanding = {}
  PROVE  /\ ToDo = {} /\ queue = <<>>
         /\ \A v \in Workers : held[v] = <<>> /\ Found(v) = {}
<1>1. queue = <<>> /\ \A v \in Workers : held[v] = <<>>
  BY OutstandingEmpty DEF PInv, QInv
<1>2. \A v \in Workers : step[v] = "begin"
  BY <1>1 DEF PInv, PoolShape, Placed
<1>3. \A v \in Workers : Pending(v) = {} /\ Found(v) = {}
  <2>1. \A v \in Workers : Found(v) = {}
    BY <1>2, FoundUnder
  <2>2. \A v \in Workers : Pending(v) = {}
    BY <1>1 DEF Pending
  <2>3. QED
    BY <2>1, <2>2
<1>4. QED
  BY <1>1, <1>3 DEF ToDo, Found, Outstanding

\* A step that leaves the workers and the history alone keeps their shape.
LEMMA QuietShape ==
  ASSUME PInv, QInv',
         UNCHANGED <<held, step, idx, walkVars, nodeVars, match_count, handled>>,
         drain' \in SUBSET Workers,
         walk_rc' \in {-1, 0}, exit_code' \in {Running, 0, 1},
         lost \subseteq lost', lost' \subseteq Items,
         \A v \in Workers : Found(v) \cap Outstanding' = {},
         Tallied'
  PROVE  PoolShape'
<1>1. UNCHANGED <<held, step, idx, pos, out, drops, node, ref_count, match_count, handled>>
  BY DEF walkVars, nodeVars
<1>2. \A v \in Workers : Unchanged(v)
  BY <1>1 DEF Unchanged
<1>3. \A v \in Workers : /\ Found(v)' = Found(v)
                         /\ DealtWith(v)' = DealtWith(v)
                         /\ Placed(v)' /\ Current(v)' = Current(v)
  BY <1>2, Frame DEF PInv, PoolShape
<1>4. PTypeOK'
  BY <1>1 DEF QInv, PInv, PoolShape, PTypeOK
<1>5. Opening' = Opening
  BY <1>1, <1>3 DEF Opening
<1>6. QED
  BY <1>1, <1>3, <1>4, <1>5 DEF PInv, PoolShape, Fresh, Recorded, NodesInOrder

\* The items left to do by workers that have not moved.
LEMMA QuietToDo ==
  ASSUME UNCHANGED <<held, step, idx, walkVars>>
  PROVE  ToDo' = Range(queue') \cup (UNION {Pending(v) \cup Found(v) : v \in Workers})
<1>1. \A v \in Workers : Unchanged(v)
  BY DEF Unchanged, walkVars
<1>2. \A v \in Workers : Pending(v)' = Pending(v) /\ Found(v)' = Found(v)
  BY <1>1, Frame
<1>3. ToDo' = Range(queue') \cup UNION {Pending(v)' \cup Found(v)' : v \in Workers}
  BY DEF ToDo, Found
<1>4. QED
  BY <1>2, <1>3

\* Threads that start or wake up change nothing else.
LEMMA ThreadAdvances ==
  ASSUME PInv, NEW w \in Workers, CreateThread(w) \/ Spurious(w)
  PROVE  Advances
<1>1. /\ StartThread(w) \/ SpuriousWakeup(w)
      /\ UNCHANGED <<queue, active, held, main, step, idx, walkVars, nodeVars, match_count,
                     walk_rc, exit_code, handled, lost>>
  BY DEF CreateThread, Spurious, StartThread, SpuriousWakeup, queueVars, workerVars,
         mainVars, historyVars
<1>2. QNext /\ QInv'
  <2>1. QNext
    BY <1>1 DEF QNext
  <2>2. QED
    BY <2>1, StepInv DEF PInv
<1>3. drain' \in SUBSET Workers
  BY DEF CreateThread, Spurious, workerVars, PInv, PoolShape, PTypeOK
<1>4. Outstanding' = Outstanding
  BY <1>1 DEF Outstanding
<1>5. ToDo' = ToDo /\ Phase' = Phase
  BY <1>1, QuietToDo DEF ToDo, Found, Phase
<1>6. Tallied'
  BY <1>1, <1>4 DEF PInv, PoolShape, Tallied, ExitStatus
<1>7. PoolShape'
  BY <1>1, <1>2, <1>3, <1>4, <1>6, QuietShape DEF PInv, PoolShape, PTypeOK, Fresh
<1>8. QED
  BY <1>1, <1>2, <1>5, <1>7 DEF Advances, Abstract!tvars

\* The pool is ready, or the search is abandoned.
LEMMA PoolInitAdvances ==
  ASSUME PInv, PoolInit
  PROVE  Advances
<1>1. /\ PoolReady /\ main = "spawn" /\ main' \in {"walk", "exit"}
      /\ UNCHANGED <<held, step, drain, idx, walkVars, nodeVars, match_count, walk_rc>>
      /\ IF main' = "exit" THEN exit_code' = 1 /\ lost' = lost \cup {Root} /\ handled' = handled
         ELSE UNCHANGED <<exit_code, handled, lost>>
  BY DEF PoolInit, PoolReady, workerVars, historyVars, Lose
<1>2. QNext /\ QInv'
  <2>1. QNext
    BY <1>1 DEF QNext
  <2>2. QED
    BY <2>1, StepInv DEF PInv
<1>3. active /\ Outstanding = {} /\ Phase = "start"
  BY <1>1 DEF PInv, QInv, MainStanding, Phase
<1>4. ToDo = {} /\ handled = {} /\ lost = {}
  BY <1>3 DEF PInv, Covering!TInv, Covering!Met
<1>5. queue' = <<>> /\ queue = <<>> /\ active' = active
  BY <1>1, <1>3, NothingToDo DEF PoolReady, greg_queue_destroy, queueVars
<1>6. ToDo' = ToDo /\ Outstanding' = Outstanding
  BY <1>1, <1>5, QuietToDo DEF ToDo, Found, Outstanding
<1>7. [Abstract!TNext]_(Abstract!tvars)
  <2>1. CASE main' = "walk"
    <3>1. Phase' = "start"
      BY <2>1 DEF Phase
    <3>2. QED
      BY <1>1, <1>3, <1>6, <2>1, <3>1 DEF Abstract!tvars
  <2>2. CASE main' = "exit"
    <3>1. Phase' = "done"
      BY <2>2 DEF Phase
    <3>2. Abstract!Abandon
      BY <1>1, <1>3, <1>4, <1>6, <2>2, <3>1 DEF Abstract!Abandon
    <3>3. QED
      BY <3>2 DEF Abstract!TNext
  <2>3. QED
    BY <1>1, <2>1, <2>2
<1>8. walk_rc = 0 /\ exit_code = Running /\ match_count = 0
  BY <1>1, <1>4 DEF PInv, PoolShape, Tallied, PTypeOK
<1>9. Tallied'
  BY <1>1, <1>4, <1>8 DEF Tallied, ExitStatus, Running
<1>10. PoolShape'
  <2>1. lost' \subseteq Items /\ handled' = handled /\ lost \subseteq lost'
    BY <1>1, PoolAssumption DEF PoolAssumption, PInv, PoolShape, PTypeOK
  <2>2. exit_code' \in {Running, 0, 1} /\ walk_rc' \in {-1, 0} /\ drain' \in SUBSET Workers
    BY <1>1, <1>8 DEF PInv, PoolShape, PTypeOK
  <2>3. QED
    BY <1>1, <1>2, <1>3, <1>6, <1>9, <2>1, <2>2, QuietShape
<1>11. QED
  BY <1>2, <1>7, <1>10 DEF Advances

\* The root becomes the first item to do, or is given up.
LEMMA WalkRootAdvances ==
  ASSUME PInv, WalkRoot
  PROVE  Advances
<1>1. /\ main = "walk"
      /\ UNCHANGED <<held, step, drain, idx, walkVars, nodeVars, match_count, exit_code>>
      /\ handled' = handled
  BY DEF WalkRoot, RootFails, PushRoot, workerVars, Lose, historyVars
<1>2. active /\ Outstanding = {} /\ Phase = "start"
  BY <1>1 DEF PInv, QInv, MainStanding, Phase
<1>3. /\ ToDo = {} /\ handled = {} /\ lost = {} /\ queue = <<>>
      /\ \A v \in Workers : Pending(v) = {} /\ Found(v) = {}
  BY <1>2, NothingToDo DEF PInv, Covering!TInv, Covering!Met, ToDo
<1>4. Root \in Items
  BY PoolAssumption DEF PoolAssumption
<1>5. walk_rc = 0 /\ exit_code = Running
  BY <1>1 DEF PInv, PoolShape, Tallied
<1>6. QNext /\ QInv'
  <2>1. QNext
    BY <1>4 DEF WalkRoot, QNext
  <2>2. QED
    BY <2>1, StepInv DEF PInv
\* The root is pushed, or given up.
<1>7. \/ /\ main' = "join" /\ queue' = <<Root>> /\ active' = active
         /\ walk_rc' = walk_rc /\ lost' = lost
      \/ /\ main' = "deactivate" /\ queue' = <<>> /\ active' = active
         /\ walk_rc' = -1 /\ lost' = {Root}
  <2>1. CASE RootFails /\ walk_rc' = -1 /\ Lose({Root})
    BY <1>3, <2>1 DEF RootFails, queueVars, Lose
  <2>2. CASE /\ PushRoot(Root)
             /\ IF main' = "join" THEN UNCHANGED <<walk_rc, historyVars>>
                ELSE walk_rc' = -1 /\ Lose({Root})
    <3>1. PICK kept \in Stored(<<Root>>) :
            /\ Enqueue(kept)
            /\ main' = IF kept = <<>> THEN "deactivate" ELSE "join"
      BY <2>2 DEF PushRoot, greg_queue_push
    <3>2. /\ <<Root>> \in Seq(Items) /\ Range(<<Root>>) = {Root} /\ Len(<<Root>>) = 1
          /\ IsInjective(<<Root>>)
      BY <1>4 DEF Range, IsInjective
    <3>3. kept = <<>> \/ kept = <<Root>>
      <4>1. kept \in Seq(Items) /\ IsInjective(kept) /\ Range(kept) \subseteq {Root}
        BY <3>1, <3>2, StoredItems
      <4>2. ASSUME kept # <<>>
            PROVE  kept = <<Root>>
        <5>1. Range(kept) = {Root} /\ Len(kept) \in Nat /\ DOMAIN kept = 1..Len(kept)
          BY <4>1, <4>2, EmptyRange, LenProperties
        <5>2. Len(kept) = 1
          BY <4>1, <5>1, InjectiveCardinality, FS_Singleton
        <5>3. kept[1] = Root
          BY <5>1, <5>2 DEF Range
        <5>4. QED
          BY <4>1, <5>2, <5>3
      <4>3. QED
        BY <4>2
    <3>4. queue' = kept /\ active' = active
      <4>1. queue' = <<>> \o kept /\ active' = active /\ kept \in Seq(Items)
        BY <1>3, <3>1, <3>2, StoredItems DEF Enqueue
      <4>2. QED
        BY <4>1, ConcatEmptySeq
    <3>5. QED
      BY <1>3, <2>2, <3>1, <3>2, <3>3, <3>4 DEF Lose, historyVars
  <2>3. QED
    BY <2>1, <2>2 DEF WalkRoot
<1>8. ToDo' = Range(queue') /\ Outstanding' = Range(queue')
  <2>1. ToDo' = Range(queue')
    BY <1>1, <1>3, QuietToDo
  <2>2. \A v \in Workers : Range(held[v]) = {}
    BY <1>2 DEF Outstanding
  <2>3. QED
    BY <1>1, <2>1, <2>2 DEF Outstanding
<1>9. Range(<<Root>>) = {Root} /\ Range(<<>>) = {}
  BY DEF Range
<1>10. Phase' = "run"
  BY <1>2, <1>7 DEF Phase
<1>11. Abstract!TNext
  <2>1. Abstract!Begin
    BY <1>1, <1>2, <1>3, <1>7, <1>8, <1>9, <1>10 DEF Abstract!Begin
  <2>2. QED
    BY <2>1 DEF Abstract!TNext
<1>12. Tallied'
  BY <1>1, <1>3, <1>5, <1>7, <1>8, <1>9 DEF PInv, PoolShape, Tallied, Running
<1>13. PoolShape'
  <2>1. lost \subseteq lost' /\ lost' \subseteq Items
    BY <1>3, <1>4, <1>7
  <2>2. walk_rc' \in {-1, 0} /\ exit_code' \in {Running, 0, 1} /\ drain' \in SUBSET Workers
    BY <1>1, <1>5, <1>7 DEF PInv, PoolShape, PTypeOK
  <2>3. \A v \in Workers : Found(v) \cap Outstanding' = {}
    BY <1>3
  <2>4. QED
    BY <1>1, <1>6, <1>12, <2>1, <2>2, <2>3, QuietShape
<1>14. QED
  BY <1>6, <1>11, <1>13 DEF Advances

\* A search whose root was given up is finished.
LEMMA DeactivateAdvances ==
  ASSUME PInv, DeactivateQueue
  PROVE  Advances
<1>1. /\ Deactivate /\ main = "deactivate" /\ main' = "join" /\ active' = FALSE
      /\ UNCHANGED <<queue, held, step, drain, idx, walkVars, nodeVars, match_count,
                     walk_rc, exit_code, handled, lost>>
  BY DEF DeactivateQueue, Deactivate, greg_queue_deactivate, workerVars, mainVars, historyVars
<1>2. QNext /\ QInv'
  <2>1. QNext
    BY <1>1 DEF QNext
  <2>2. QED
    BY <2>1, StepInv DEF PInv
<1>3. active /\ Outstanding = {} /\ Outstanding' = Outstanding
  BY <1>1 DEF PInv, QInv, MainStanding, Outstanding
<1>4. ToDo = {} /\ ToDo' = ToDo
  BY <1>1, <1>3, NothingToDo, QuietToDo DEF ToDo, Found
<1>5. Phase = "run" /\ Phase' = "done"
  BY <1>1, <1>3 DEF Phase
<1>6. Abstract!TNext
  <2>1. Abstract!Finish
    BY <1>1, <1>4, <1>5 DEF Abstract!Finish
  <2>2. QED
    BY <2>1 DEF Abstract!TNext
<1>7. Tallied'
  BY <1>1, <1>3 DEF PInv, PoolShape, Tallied
<1>8. PoolShape'
  BY <1>1, <1>2, <1>3, <1>7, QuietShape DEF PInv, PoolShape, PTypeOK
<1>9. QED
  BY <1>2, <1>6, <1>8 DEF Advances

\* Main joins the workers when nothing is left, and fixes the exit status.
LEMMA FinaleAdvances ==
  ASSUME PInv, Finale
  PROVE  Advances
<1>1. /\ JoinAndDestroy /\ main = "join" /\ main' = "exit" /\ exit_code' = ExitStatus
      /\ queue' = <<>>
      /\ UNCHANGED <<active, held, step, drain, idx, walkVars, nodeVars, match_count,
                     walk_rc, handled, lost>>
      /\ \A v \in Created : state[v] = "exit"
  BY DEF Finale, JoinAndDestroy, greg_queue_destroy, workerVars, historyVars
<1>2. QNext /\ QInv'
  <2>1. QNext
    BY <1>1 DEF QNext
  <2>2. QED
    BY <2>1, StepInv DEF PInv
<1>3. ~active /\ Outstanding = {}
  BY <1>1 DEF PInv, QInv, MainStanding, WorkerStanding, QuiescentShutdown, Created
<1>4. queue = <<>> /\ Outstanding' = Outstanding
  BY <1>1, <1>3, NothingToDo DEF Outstanding
<1>5. ToDo' = ToDo
  BY <1>1, <1>4, QuietToDo DEF ToDo, Found
<1>6. Phase = "done" /\ Phase' = "done"
  BY <1>1, <1>3 DEF Phase
<1>7. Tallied'
  BY <1>1, <1>3, <1>4 DEF PInv, PoolShape, Tallied, ExitStatus, Running
<1>8. PoolShape'
  <2>1. exit_code' \in {Running, 0, 1}
    BY <1>1 DEF ExitStatus
  <2>2. QED
    BY <1>1, <1>2, <1>3, <1>4, <1>7, <2>1, QuietShape DEF PInv, PoolShape, PTypeOK
<1>9. QED
  BY <1>1, <1>2, <1>5, <1>6, <1>8 DEF Advances, Abstract!tvars

-----------------------------------------------------------------------------
(* Counting the holders.                                                   *)

Bounded(W, I, N, D) ==
  IsFiniteSet(W) /\ IsFiniteSet(I) /\ IsFiniteSet(N) /\ IsFiniteSet(D)

SumOf(W, I, N, D) ==
  Cardinality(W) + Cardinality(I) + Cardinality(N) + Cardinality(D)

\* Tagging a set does not change its size.
LEMMA Tagging ==
  ASSUME NEW t, NEW S
  PROVE  /\ IsFiniteSet({t} \X S) <=> IsFiniteSet(S)
         /\ IsFiniteSet(S) => Cardinality({t} \X S) = Cardinality(S)
         /\ \A r \in {t} \X S : r[1] = t
<1> DEFINE f == [x \in S |-> <<t, x>>]
           g == [r \in {t} \X S |-> r[2]]
<1>1. f \in Bijection(S, {t} \X S)
  <2>1. f \in [S -> {t} \X S]
    OBVIOUS
  <2>2. \A x, y \in S : f[x] = f[y] => x = y
    OBVIOUS
  <2>3. ASSUME NEW r \in {t} \X S
        PROVE  \E x \in S : f[x] = r
    <3>1. PICK x \in S : r = <<t, x>>
      OBVIOUS
    <3>2. QED
      BY <3>1
  <2>4. QED
    BY <2>1, <2>2, <2>3 DEF Bijection, Injection, Surjection, IsInjective
<1>2. g \in Surjection({t} \X S, S)
  <2>1. g \in [{t} \X S -> S]
    OBVIOUS
  <2>2. ASSUME NEW x \in S
        PROVE  \E r \in {t} \X S : g[r] = x
    <3>1. <<t, x>> \in {t} \X S /\ g[<<t, x>>] = x
      OBVIOUS
    <3>2. QED
      BY <3>1
  <2>3. QED
    BY <2>1, <2>2 DEF Surjection
<1> HIDE DEF f, g
<1>3. IsFiniteSet(S) => IsFiniteSet({t} \X S) /\ Cardinality({t} \X S) = Cardinality(S)
  <2>1. ExistsBijection(S, {t} \X S)
    BY <1>1 DEF ExistsBijection
  <2>2. QED
    BY <2>1, FS_Bijection
<1>4. IsFiniteSet({t} \X S) => IsFiniteSet(S)
  BY <1>2, FS_Surjection
<1>5. \A r \in {t} \X S : r[1] = t
  OBVIOUS
<1>6. QED
  BY <1>3, <1>4, <1>5

\* The size of two sets that have nothing in common.
LEMMA DisjointUnion ==
  ASSUME NEW S, NEW T, IsFiniteSet(S), IsFiniteSet(T), S \cap T = {}
  PROVE  /\ IsFiniteSet(S \cup T)
         /\ Cardinality(S \cup T) = Cardinality(S) + Cardinality(T)
<1>1. Cardinality(S \cap T) = 0
  BY FS_EmptySet
<1>2. /\ IsFiniteSet(S \cup T)
      /\ Cardinality(S \cup T) = Cardinality(S) + Cardinality(T) - Cardinality(S \cap T)
  BY FS_Union
<1>3. Cardinality(S) \in Nat /\ Cardinality(T) \in Nat
  BY FS_CardinalityType
<1>4. QED
  BY <1>1, <1>2, <1>3

\* The number of holders is the sum over their kinds.
LEMMA SumOfParts ==
  ASSUME NEW W, NEW I, NEW N, NEW D, NEW H,
         H = ({"walker"} \X W) \cup ({"item"} \X I) \cup ({"node"} \X N) \cup ({"drop"} \X D)
  PROVE  /\ IsFiniteSet(H) <=> Bounded(W, I, N, D)
         /\ Bounded(W, I, N, D) =>
              /\ SumOf(W, I, N, D) \in Nat
              /\ Cardinality(H) = SumOf(W, I, N, D)
              /\ H = {} <=> SumOf(W, I, N, D) = 0
<1> DEFINE A == {"walker"} \X W
           B == {"item"} \X I
           C == {"node"} \X N
           E == {"drop"} \X D
<1>1. H = A \cup B \cup C \cup E
  OBVIOUS
<1>2. /\ \A r \in A : r[1] = "walker"
      /\ \A r \in B : r[1] = "item"
      /\ \A r \in C : r[1] = "node"
      /\ \A r \in E : r[1] = "drop"
  BY Tagging
<1>3. /\ IsFiniteSet(A) <=> IsFiniteSet(W)
      /\ IsFiniteSet(B) <=> IsFiniteSet(I)
      /\ IsFiniteSet(C) <=> IsFiniteSet(N)
      /\ IsFiniteSet(E) <=> IsFiniteSet(D)
  BY Tagging
<1>4. /\ IsFiniteSet(W) => Cardinality(A) = Cardinality(W)
      /\ IsFiniteSet(I) => Cardinality(B) = Cardinality(I)
      /\ IsFiniteSet(N) => Cardinality(C) = Cardinality(N)
      /\ IsFiniteSet(D) => Cardinality(E) = Cardinality(D)
  BY Tagging
<1> HIDE DEF A, B, C, E
<1>5. ASSUME IsFiniteSet(H)
      PROVE  Bounded(W, I, N, D)
  <2>1. A \in SUBSET H /\ B \in SUBSET H /\ C \in SUBSET H /\ E \in SUBSET H
    BY <1>1
  <2>2. IsFiniteSet(A) /\ IsFiniteSet(B) /\ IsFiniteSet(C) /\ IsFiniteSet(E)
    BY <1>5, <2>1, FS_Subset
  <2>3. QED
    BY <1>3, <2>2 DEF Bounded
<1>6. ASSUME Bounded(W, I, N, D)
      PROVE  /\ IsFiniteSet(H)
             /\ SumOf(W, I, N, D) \in Nat
             /\ Cardinality(H) = SumOf(W, I, N, D)
             /\ H = {} <=> SumOf(W, I, N, D) = 0
  <2>1. /\ IsFiniteSet(A) /\ IsFiniteSet(B) /\ IsFiniteSet(C) /\ IsFiniteSet(E)
        /\ Cardinality(A) = Cardinality(W) /\ Cardinality(B) = Cardinality(I)
        /\ Cardinality(C) = Cardinality(N) /\ Cardinality(E) = Cardinality(D)
    BY <1>3, <1>4, <1>6 DEF Bounded
  <2>2. /\ Cardinality(A) \in Nat /\ Cardinality(B) \in Nat
        /\ Cardinality(C) \in Nat /\ Cardinality(E) \in Nat
    BY <2>1, FS_CardinalityType
  <2>3. /\ A \cap B = {} /\ (A \cup B) \cap C = {} /\ (A \cup B \cup C) \cap E = {}
    BY <1>2
  <2>4. /\ IsFiniteSet(A \cup B)
        /\ Cardinality(A \cup B) = Cardinality(A) + Cardinality(B)
    BY <2>1, <2>3, DisjointUnion
  <2>5. /\ IsFiniteSet(A \cup B \cup C)
        /\ Cardinality(A \cup B \cup C) = Cardinality(A) + Cardinality(B) + Cardinality(C)
    BY <2>1, <2>3, <2>4, DisjointUnion
  <2>6. /\ IsFiniteSet(H)
        /\ Cardinality(H) = Cardinality(A) + Cardinality(B) + Cardinality(C) + Cardinality(E)
    <3>1. /\ IsFiniteSet((A \cup B \cup C) \cup E)
          /\ Cardinality((A \cup B \cup C) \cup E)
               = Cardinality(A \cup B \cup C) + Cardinality(E)
      BY <2>1, <2>3, <2>5, DisjointUnion
    <3>2. QED
      BY <1>1, <2>5, <3>1
  <2>7. H = {} <=> Cardinality(H) = 0
    BY <2>6, FS_EmptySet
  <2>8. QED
    BY <2>1, <2>2, <2>6, <2>7 DEF SumOf
<1>7. QED
  BY <1>5, <1>6

\* What Counts says of a directory, by the kinds of its holders.
Total(d) == SumOf(WalkersOf(d), ItemsUnder(d), NodesUnder(d), DropsOf(d))

Countable(d) == Bounded(WalkersOf(d), ItemsUnder(d), NodesUnder(d), DropsOf(d))

\* From the holders to their numbers ...
LEMMA CountsByKind ==
  ASSUME NEW d, Counts(d)
  PROVE  /\ Countable(d)
         /\ Total(d) \in Nat
         /\ node[d] = "live" => ref_count[d] = Total(d) /\ Total(d) # 0
         /\ node[d] # "live" => Total(d) = 0
<1> DEFINE W == WalkersOf(d)
           I == ItemsUnder(d)
           N == NodesUnder(d)
           D == DropsOf(d)
           H == Holders(d)
<1>1. H = ({"walker"} \X W) \cup ({"item"} \X I) \cup ({"node"} \X N) \cup ({"drop"} \X D)
  BY DEF Holders
<1>2. /\ IsFiniteSet(H)
      /\ node[d] = "live" => ref_count[d] = Cardinality(H) /\ H # {}
      /\ node[d] # "live" => H = {}
  BY DEF Counts
<1>3. /\ Countable(d) <=> Bounded(W, I, N, D)
      /\ Total(d) = SumOf(W, I, N, D)
  BY DEF Countable, Total
<1> HIDE DEF W, I, N, D, H
<1>4. QED
  BY <1>1, <1>2, <1>3, SumOfParts

\* ... and back, for the state after a step.
LEMMA CountsAfter ==
  ASSUME NEW d, Countable(d)',
         node'[d] = "live" => ref_count'[d] = Total(d)' /\ Total(d)' # 0,
         node'[d] # "live" => Total(d)' = 0
  PROVE  Counts(d)'
<1> DEFINE W == WalkersOf(d)'
           I == ItemsUnder(d)'
           N == NodesUnder(d)'
           D == DropsOf(d)'
           H == Holders(d)'
<1>1. H = ({"walker"} \X W) \cup ({"item"} \X I) \cup ({"node"} \X N) \cup ({"drop"} \X D)
  BY DEF Holders
<1>2. Bounded(W, I, N, D) /\ Total(d)' = SumOf(W, I, N, D)
  BY DEF Countable, Total, Bounded, SumOf
<1>3. \/ ~(/\ IsFiniteSet(H)
           /\ node'[d] = "live" => ref_count'[d] = Cardinality(H) /\ H # {}
           /\ node'[d] # "live" => H = {})
      \/ Counts(d)'
  BY DEF Counts
<1> HIDE DEF W, I, N, D, H
<1>4. QED
  BY <1>1, <1>2, <1>3, SumOfParts

\* The references to d in hand when a worker is left with the references s.
Stack(w, s, d) == {<<w, Len(s) - i>> : i \in {j \in DOMAIN s : s[j] = d}}

\* One more reference in front of the others.
LEMMA StackPush ==
  ASSUME NEW w, NEW d, NEW s \in Seq(Dirs), NEW x \in Dirs, IsFiniteSet(Stack(w, s, d))
  PROVE  /\ IsFiniteSet(Stack(w, <<x>> \o s, d))
         /\ Cardinality(Stack(w, <<x>> \o s, d))
              = Cardinality(Stack(w, s, d)) + (IF x = d THEN 1 ELSE 0)
<1> DEFINE t == <<x>> \o s
<1>1. /\ Len(s) \in Nat /\ DOMAIN s = 1..Len(s)
      /\ Len(t) = Len(s) + 1 /\ DOMAIN t = 1..Len(s) + 1
      /\ t[1] = x /\ \A j \in 1..Len(s) : t[j + 1] = s[j]
  <2>1. <<x>> \in Seq(Dirs) /\ Len(<<x>>) = 1 /\ <<x>>[1] = x
    OBVIOUS
  <2>2. /\ Len(s) \in Nat /\ DOMAIN s = 1..Len(s)
        /\ t \in Seq(Dirs) /\ Len(t) = 1 + Len(s)
        /\ t[1] = x /\ \A j \in 1..Len(s) : t[j + 1] = s[j]
    BY <2>1, LenProperties, ConcatProperties
  <2>3. DOMAIN t = 1..Len(t)
    BY <2>2, LenProperties
  <2>4. QED
    BY <2>2, <2>3
<1>2. <<w, Len(s)>> \notin Stack(w, s, d)
  BY <1>1 DEF Stack
<1>3. Stack(w, t, d) = Stack(w, s, d) \cup (IF x = d THEN {<<w, Len(s)>>} ELSE {})
  <2> HIDE DEF t
  <2>1. ASSUME NEW r \in Stack(w, s, d)
        PROVE  r \in Stack(w, t, d)
    <3>1. PICK j \in 1..Len(s) : s[j] = d /\ r = <<w, Len(s) - j>>
      BY <1>1 DEF Stack
    <3>2. j + 1 \in DOMAIN t /\ t[j + 1] = d /\ Len(t) - (j + 1) = Len(s) - j
      BY <1>1, <3>1
    <3>3. <<w, Len(t) - (j + 1)>> \in Stack(w, t, d)
      BY <3>2 DEF Stack
    <3>4. QED
      BY <3>1, <3>2, <3>3
  <2>2. ASSUME NEW r \in Stack(w, t, d)
        PROVE  r \in Stack(w, s, d) \/ (x = d /\ r = <<w, Len(s)>>)
    <3>1. PICK j \in 1..Len(s) + 1 : t[j] = d /\ r = <<w, Len(t) - j>>
      BY <1>1 DEF Stack
    <3>2. CASE j = 1
      BY <1>1, <3>1, <3>2
    <3>3. CASE j # 1
      <4>1. /\ j - 1 \in 1..Len(s) /\ t[(j - 1) + 1] = s[j - 1]
            /\ (j - 1) + 1 = j /\ Len(t) - j = Len(s) - (j - 1)
        BY <1>1, <3>1, <3>3
      <4>2. <<w, Len(s) - (j - 1)>> \in Stack(w, s, d)
        BY <1>1, <3>1, <4>1 DEF Stack
      <4>3. QED
        BY <3>1, <4>1, <4>2
    <3>4. QED
      BY <3>2, <3>3
  <2>3. x = d => <<w, Len(s)>> \in Stack(w, t, d)
    <3>1. 1 \in DOMAIN t /\ Len(t) - 1 = Len(s) /\ t[1] = x
      BY <1>1
    <3>2. <<w, Len(t) - 1>> \in Stack(w, t, x)
      BY <3>1 DEF Stack
    <3>3. QED
      BY <3>1, <3>2
  <2>4. QED
    BY <2>1, <2>2, <2>3
<1> HIDE DEF t
<1>4. CASE x = d
  <2>1. Cardinality(Stack(w, s, d)) \in Nat
    BY FS_CardinalityType
  <2>2. /\ IsFiniteSet(Stack(w, s, d) \cup {<<w, Len(s)>>})
        /\ Cardinality(Stack(w, s, d) \cup {<<w, Len(s)>>}) = Cardinality(Stack(w, s, d)) + 1
    BY <1>2, FS_AddElement
  <2>3. QED
    BY <1>3, <1>4, <2>2 DEF t
<1>5. CASE x # d
  <2>1. Cardinality(Stack(w, s, d)) \in Nat
    BY FS_CardinalityType
  <2>2. Stack(w, t, d) = Stack(w, s, d)
    BY <1>3, <1>5
  <2>3. QED
    BY <1>5, <2>1, <2>2 DEF t
<1>6. QED
  BY <1>4, <1>5

\* No references in hand.
LEMMA EmptyStack ==
  ASSUME NEW w, NEW d
  PROVE  IsFiniteSet(Stack(w, <<>>, d)) /\ Cardinality(Stack(w, <<>>, d)) = 0
<1>1. Stack(w, <<>>, d) = {}
  BY DEF Stack
<1>2. QED
  BY <1>1, FS_EmptySet

\* The references that an item gives back.
LEMMA StackNodes ==
  ASSUME NEW w, NEW d, NEW s \in Seq(Dirs), NEW i \in Items, IsFiniteSet(Stack(w, s, d))
  PROVE  /\ NodeSeq(i) \o s \in Seq(Dirs)
         /\ IsFiniteSet(Stack(w, NodeSeq(i) \o s, d))
         /\ Cardinality(Stack(w, NodeSeq(i) \o s, d))
              = Cardinality(Stack(w, s, d)) + (IF d \in NodeOf(i) THEN 1 ELSE 0)
<1>1. Cardinality(Stack(w, s, d)) \in Nat
  BY FS_CardinalityType
<1>2. CASE NodeOf(i) = {} /\ NodeSeq(i) = <<>>
  <2>1. NodeSeq(i) \o s = s
    BY <1>2, ConcatEmptySeq
  <2>2. QED
    BY <1>1, <1>2, <2>1
<1>3. ASSUME NEW p \in Dirs, NodeOf(i) = {p} /\ NodeSeq(i) = <<p>>
      PROVE  /\ NodeSeq(i) \o s \in Seq(Dirs)
             /\ IsFiniteSet(Stack(w, NodeSeq(i) \o s, d))
             /\ Cardinality(Stack(w, NodeSeq(i) \o s, d))
                  = Cardinality(Stack(w, s, d)) + (IF d \in NodeOf(i) THEN 1 ELSE 0)
  <2>1. /\ IsFiniteSet(Stack(w, <<p>> \o s, d))
        /\ Cardinality(Stack(w, <<p>> \o s, d))
             = Cardinality(Stack(w, s, d)) + (IF p = d THEN 1 ELSE 0)
    BY StackPush
  <2>2. d \in NodeOf(i) <=> p = d
    BY <1>3
  <2>3. <<p>> \o s \in Seq(Dirs)
    BY ConcatProperties
  <2>4. QED
    BY <1>3, <2>1, <2>2, <2>3
<1>4. QED
  BY <1>2, <1>3, NodeSeqs

\* How the references in hand change with those of one worker.
LEMMA DropsChange ==
  ASSUME NEW w \in Workers, \A v \in Workers \ {w} : Unchanged(v),
         NEW d, IsFiniteSet(DropsOf(d)), IsFiniteSet(Stack(w, drops'[w], d))
  PROVE  /\ IsFiniteSet(Stack(w, drops[w], d))
         /\ IsFiniteSet(DropsOf(d)')
         /\ Cardinality(DropsOf(d)') + Cardinality(Stack(w, drops[w], d))
              = Cardinality(DropsOf(d)) + Cardinality(Stack(w, drops'[w], d))
<1> DEFINE Else == UNION {Stack(v, drops[v], d) : v \in Workers \ {w}}
           Old == Stack(w, drops[w], d)
           New == Stack(w, drops'[w], d)
           After1 == DropsOf(d)'
<1>1. DropsOf(d) = Else \cup Old
  BY DEF DropsOf, Stack
<1>2. After1 = Else \cup New
  <2>1. After1 = UNION {Stack(v, drops'[v], d) : v \in Workers}
    BY DEF DropsOf, Stack
  <2>2. \A v \in Workers \ {w} : Stack(v, drops'[v], d) = Stack(v, drops[v], d)
    BY DEF Unchanged
  <2>3. QED
    BY <2>1, <2>2
<1>3. Else \cap Old = {} /\ Else \cap New = {}
  <2>1. \A r \in Else : r[1] # w
    BY DEF Stack
  <2>2. (\A r \in Old : r[1] = w) /\ (\A r \in New : r[1] = w)
    BY DEF Stack
  <2>3. QED
    BY <2>1, <2>2
<1> HIDE DEF Else, Old, New, After1
<1>4. IsFiniteSet(Else) /\ IsFiniteSet(Old) /\ IsFiniteSet(New)
  <2>1. IsFiniteSet(New)
    BY DEF New
  <2>2. Else \in SUBSET DropsOf(d) /\ Old \in SUBSET DropsOf(d)
    BY <1>1
  <2>3. QED
    BY <2>1, <2>2, FS_Subset
<1>5. /\ Cardinality(Else) \in Nat /\ Cardinality(Old) \in Nat /\ Cardinality(New) \in Nat
  BY <1>4, FS_CardinalityType
<1>6. Cardinality(Else \cup Old) = Cardinality(Else) + Cardinality(Old)
  BY <1>3, <1>4, DisjointUnion
<1>7. /\ IsFiniteSet(Else \cup New)
      /\ Cardinality(Else \cup New) = Cardinality(Else) + Cardinality(New)
  BY <1>3, <1>4, DisjointUnion
<1>8. /\ IsFiniteSet(Old) /\ IsFiniteSet(After1)
      /\ Cardinality(After1) + Cardinality(Old) = Cardinality(DropsOf(d)) + Cardinality(New)
  BY <1>1, <1>2, <1>4, <1>5, <1>6, <1>7
<1>9. QED
  BY <1>8 DEF Old, New, After1

\* What the queue and the other workers carry.
CarriedElse(w) ==
  Range(queue) \cup UNION {Unreleased(v) \cup Range(out[v]) : v \in Workers \ {w}}

\* The items that a worker carries are carried by nobody else.
LEMMA CarriedParts ==
  ASSUME PInv, NEW w \in Workers
  PROVE  /\ Carried = CarriedElse(w) \cup Unreleased(w) \cup Range(out[w])
         /\ Range(held[w]) \cap CarriedElse(w) = {}
         /\ Found(w) \cap (CarriedElse(w) \cup Range(held[w])) = {}
         /\ Unreleased(w) \subseteq Range(held[w])
         /\ Carried \subseteq Items
<1>1. Carried = CarriedElse(w) \cup Unreleased(w) \cup Range(out[w])
  BY DEF Carried, CarriedElse
<1>2. \A v \in Workers : Unreleased(v) \subseteq Range(held[v])
  BY Batches
<1>3. /\ Range(queue) \subseteq Outstanding
      /\ \A v \in Workers : Range(held[v]) \subseteq Outstanding
  BY DEF Outstanding
<1>4. \A v \in Workers : /\ Range(out[v]) \subseteq Found(v)
                         /\ Found(v) \cap Outstanding = {}
                         /\ Found(v) \subseteq Items
  BY FoundUnder DEF Found, PInv, PoolShape, Fresh
<1>5. Range(held[w]) \cap Range(queue) = {}
  BY DEF PInv, QInv, HandedOutOnce
<1>6. \A v \in Workers \ {w} : Range(held[v]) \cap Range(held[w]) = {}
  BY DEF PInv, QInv, HandedOutOnce
<1>7. Range(held[w]) \cap CarriedElse(w) = {}
  BY <1>2, <1>3, <1>4, <1>5, <1>6 DEF CarriedElse
<1>8. Found(w) \cap CarriedElse(w) = {}
  <2>1. \A v \in Workers \ {w} : Found(v) \subseteq Others(w)
    BY DEF Others
  <2>2. Others(w) \cap Found(w) = {}
    BY OnePlace
  <2>3. QED
    BY <1>2, <1>3, <1>4, <2>1, <2>2 DEF CarriedElse
<1>9. Carried \subseteq Items
  <2>1. Outstanding \subseteq Items
    BY LenProperties DEF PInv, QInv, QTypeOK, Outstanding, Range
  <2>2. QED
    BY <1>2, <1>3, <1>4, <2>1 DEF Carried
<1>10. QED
  BY <1>1, <1>2, <1>3, <1>4, <1>7, <1>8, <1>9

\* A step of one worker changes its share of what is carried, and whether it
\* is the walker of its directory.
LEMMA CarriedChange ==
  ASSUME NEW w \in Workers, \A v \in Workers \ {w} : Unchanged(v)
  PROVE  /\ queue' = queue =>
              Carried' = CarriedElse(w) \cup Unreleased(w)' \cup Range(out'[w])
         /\ \A d : WalkersOf(d)' \ {w} = WalkersOf(d) \ {w}
<1>1. \A v \in Workers \ {w} : /\ Unreleased(v)' = Unreleased(v)
                               /\ out'[v] = out[v] /\ step'[v] = step[v]
                               /\ Current(v)' = Current(v)
  BY Frame DEF Unchanged
<1>2. Carried' = Range(queue') \cup UNION {Unreleased(v)' \cup Range(out'[v]) : v \in Workers}
  BY DEF Carried
<1>3. QED
  BY <1>1, <1>2 DEF CarriedElse, WalkersOf

\* A worker that keeps its share leaves what is carried as it is.
LEMMA CarriedSame ==
  ASSUME PInv, NEW w \in Workers, \A v \in Workers \ {w} : Unchanged(v),
         queue' = queue, out' = out, Unreleased(w)' = Unreleased(w)
  PROVE  Carried' = Carried
<1>1. Carried' = CarriedElse(w) \cup Unreleased(w)' \cup Range(out'[w])
  BY CarriedChange
<1>2. Carried = CarriedElse(w) \cup Unreleased(w) \cup Range(out[w])
  BY CarriedParts
<1>3. QED
  BY <1>1, <1>2

\* A directory whose holders and node stay the same keeps its count.
LEMMA StillCounted ==
  ASSUME NEW d, Counts(d),
         WalkersOf(d)' = WalkersOf(d), ItemsUnder(d)' = ItemsUnder(d),
         NodesUnder(d)' = NodesUnder(d), DropsOf(d)' = DropsOf(d),
         node'[d] = node[d], ref_count'[d] = ref_count[d]
  PROVE  Counts(d)'
BY DEF Counts, Holders

-----------------------------------------------------------------------------
(* The counts after each step.                                             *)

\* A worker that is done with an item turns its own references into some that
\* it is about to give back: that of the item, and that of its walk.
LEMMA ReleaseCounts ==
  ASSUME PInv, NEW w \in Workers, NEW s \in {"begin", "open", "walk"}, At(w, s),
         out[w] = <<>>,
         NEW nodes \in Seq(Dirs), Release(w, nodes),
         nodes = IF s = "begin" THEN NodeSeq(Current(w))
                 ELSE <<Current(w)>> \o NodeSeq(Current(w)),
         UNCHANGED <<qvars, pos, out, nodeVars>>,
         NEW d \in Dirs
  PROVE  Counts(d)'
<1> DEFINE c == Current(w)
           Own == IF d = c /\ s # "begin" THEN 1 ELSE 0
           Item == IF d \in NodeOf(c) THEN 1 ELSE 0
<1>1. /\ state[w] = "run" /\ step[w] = s /\ idx[w] \in 1..Len(held[w])
      /\ c \in Items /\ c \in Range(held[w])
      /\ drops[w] = <<>>
      /\ s # "begin" => c \in Dirs
  BY AtItem DEF PInv, PoolShape, Placed
<1>2. /\ \A v \in Workers \ {w} : Unchanged(v)
      /\ Unreleased(w)' = After(w)
      /\ drops'[w] = nodes
      /\ step'[w] \in {"begin", "free"}
  BY ReleaseEffect DEF qvars
<1>3. /\ Countable(d) /\ Total(d) \in Nat
      /\ node[d] = "live" => ref_count[d] = Total(d) /\ Total(d) # 0
      /\ node[d] # "live" => Total(d) = 0
  BY CountsByKind DEF PInv
<1>4. /\ IsFiniteSet(WalkersOf(d)) /\ IsFiniteSet(ItemsUnder(d))
      /\ IsFiniteSet(NodesUnder(d)) /\ IsFiniteSet(DropsOf(d))
  BY <1>3 DEF Countable, Bounded
\* The references in hand.
<1>5. /\ IsFiniteSet(DropsOf(d)')
      /\ Cardinality(DropsOf(d)') = Cardinality(DropsOf(d)) + Own + Item
  <2>1. /\ IsFiniteSet(Stack(w, <<>>, d)) /\ Cardinality(Stack(w, <<>>, d)) = 0
        /\ <<>> \in Seq(Dirs)
    BY EmptyStack
  <2>2. /\ NodeSeq(c) \o <<>> \in Seq(Dirs)
        /\ IsFiniteSet(Stack(w, NodeSeq(c) \o <<>>, d))
        /\ Cardinality(Stack(w, NodeSeq(c) \o <<>>, d)) = 0 + Item
    <3>1. /\ NodeSeq(c) \o <<>> \in Seq(Dirs)
          /\ IsFiniteSet(Stack(w, NodeSeq(c) \o <<>>, d))
          /\ Cardinality(Stack(w, NodeSeq(c) \o <<>>, d))
               = Cardinality(Stack(w, <<>>, d)) + (IF d \in NodeOf(c) THEN 1 ELSE 0)
      <4>1. c \in Items
        BY <1>1
      <4>2. QED
        BY <2>1, <4>1, StackNodes
    <3>2. QED
      BY <2>1, <3>1
  <2>3. NodeSeq(c) \o <<>> = NodeSeq(c) /\ NodeSeq(c) \in Seq(Dirs)
    BY <1>1, NodeSeqType, ConcatEmptySeq
  <2>4. /\ IsFiniteSet(Stack(w, NodeSeq(c), d))
        /\ Cardinality(Stack(w, NodeSeq(c), d)) = Item
    BY <2>2, <2>3
  <2>5. /\ IsFiniteSet(Stack(w, nodes, d))
        /\ Cardinality(Stack(w, nodes, d)) = Own + Item
    <3>1. CASE s = "begin"
      BY <2>4, <3>1
    <3>2. CASE s # "begin"
      <4>1. /\ IsFiniteSet(Stack(w, <<c>> \o NodeSeq(c), d))
            /\ Cardinality(Stack(w, <<c>> \o NodeSeq(c), d))
                 = Cardinality(Stack(w, NodeSeq(c), d)) + (IF c = d THEN 1 ELSE 0)
        BY <1>1, <2>3, <2>4, <3>2, StackPush
      <4>2. nodes = <<c>> \o NodeSeq(c)
        BY <3>2
      <4>3. QED
        BY <2>4, <3>2, <4>1, <4>2
    <3>3. QED
      BY <3>1, <3>2
  <2>6. /\ IsFiniteSet(DropsOf(d)')
        /\ Cardinality(DropsOf(d)') + Cardinality(Stack(w, <<>>, d))
             = Cardinality(DropsOf(d)) + Cardinality(Stack(w, nodes, d))
    BY <1>1, <1>2, <1>4, <2>5, DropsChange
  <2>7. Cardinality(DropsOf(d)) \in Nat /\ Cardinality(DropsOf(d)') \in Nat
    BY <1>4, <2>6, FS_CardinalityType
  <2>8. QED
    BY <2>1, <2>5, <2>6, <2>7
\* The items carried.
<1>6. /\ IsFiniteSet(ItemsUnder(d)')
      /\ Cardinality(ItemsUnder(d)') = Cardinality(ItemsUnder(d)) - Item
  <2>1. c \notin After(w) /\ Unreleased(w) = {c} \cup After(w)
    <3>1. idx[w] <= Len(held[w])
      BY <1>1
    <3>2. QED
      BY <1>1, <3>1, Batches
  <2>2. Carried' = Carried \ {c} /\ c \in Carried
    <3>1. Range(out[w]) = {}
      BY EmptyRange DEF PInv, PoolShape, PTypeOK
    <3>2. Carried = CarriedElse(w) \cup Unreleased(w) /\ c \notin CarriedElse(w)
      BY <1>1, <3>1, CarriedParts
    <3>3. Carried' = CarriedElse(w) \cup After(w)
      BY <1>2, <3>1, CarriedChange DEF qvars
    <3>4. QED
      BY <2>1, <3>2, <3>3
  <2>3. ItemsUnder(d)' = {i \in Carried' : d \in NodeOf(i)}
    BY DEF ItemsUnder
  <2>4. ItemsUnder(d)' = ItemsUnder(d) \ {c} /\ (c \in ItemsUnder(d) <=> d \in NodeOf(c))
    BY <2>2, <2>3 DEF ItemsUnder
  <2>5. Cardinality(ItemsUnder(d)) \in Nat
    BY <1>4, FS_CardinalityType
  <2>6. /\ IsFiniteSet(ItemsUnder(d) \ {c})
        /\ Cardinality(ItemsUnder(d) \ {c})
             = IF c \in ItemsUnder(d) THEN Cardinality(ItemsUnder(d)) - 1
               ELSE Cardinality(ItemsUnder(d))
    BY <1>4, FS_RemoveElement
  <2>7. QED
    BY <2>4, <2>5, <2>6
\* The walkers.
<1>7. /\ IsFiniteSet(WalkersOf(d)')
      /\ Cardinality(WalkersOf(d)') = Cardinality(WalkersOf(d)) - Own
  <2>1. w \notin WalkersOf(d)' /\ (w \in WalkersOf(d) <=> d = c /\ s # "begin")
    BY <1>1, <1>2 DEF WalkersOf
  <2>2. WalkersOf(d)' = WalkersOf(d) \ {w}
    BY <1>2, <2>1, CarriedChange
  <2>3. Cardinality(WalkersOf(d)) \in Nat
    BY <1>4, FS_CardinalityType
  <2>4. /\ IsFiniteSet(WalkersOf(d) \ {w})
        /\ Cardinality(WalkersOf(d) \ {w})
             = IF w \in WalkersOf(d) THEN Cardinality(WalkersOf(d)) - 1
               ELSE Cardinality(WalkersOf(d))
    BY <1>4, FS_RemoveElement
  <2>5. QED
    BY <2>1, <2>2, <2>3, <2>4
<1>8. NodesUnder(d)' = NodesUnder(d) /\ node' = node /\ ref_count' = ref_count
  BY DEF NodesUnder, nodeVars
<1>9. Countable(d)' /\ Total(d)' = Total(d)
  <2>1. /\ Cardinality(WalkersOf(d)) \in Nat /\ Cardinality(ItemsUnder(d)) \in Nat
        /\ Cardinality(NodesUnder(d)) \in Nat /\ Cardinality(DropsOf(d)) \in Nat
    BY <1>4, FS_CardinalityType
  <2>2. Cardinality(WalkersOf(d)') + Cardinality(ItemsUnder(d)') + Cardinality(NodesUnder(d)')
          + Cardinality(DropsOf(d)')
        = Cardinality(WalkersOf(d)) + Cardinality(ItemsUnder(d)) + Cardinality(NodesUnder(d))
            + Cardinality(DropsOf(d))
    <3> HIDE DEF Own, Item
    <3>1. Own \in Int /\ Item \in Int
      BY DEF Own, Item
    <3>2. QED
      BY <1>5, <1>6, <1>7, <1>8, <2>1, <3>1
  <2>3. QED
    BY <1>4, <1>5, <1>6, <1>7, <1>8, <2>2 DEF Countable, Bounded, Total, SumOf
<1>10. QED
  BY <1>3, <1>8, <1>9, CountsAfter

\* The item's reference is the one given back.
LEMMA DrainItemCounts ==
  ASSUME PInv, NEW w \in Workers, DrainItem(w), NEW d \in Dirs
  PROVE  Counts(d)'
<1>1. /\ At(w, "begin") /\ Release(w, NodeSeq(Current(w)))
      /\ UNCHANGED <<qvars, pos, out, nodeVars>>
  BY DEF DrainItem
<1>2. Current(w) \in Items /\ out[w] = <<>>
  BY <1>1, AtItem
<1>3. NodeSeq(Current(w)) \in Seq(Dirs)
  BY <1>2, NodeSeqType
<1>4. QED
  BY <1>1, <1>2, <1>3, ReleaseCounts

\* A file has no reference to give back.
LEMMA SearchFileCounts ==
  ASSUME PInv, NEW w \in Workers, SearchFile(w), NEW d \in Dirs
  PROVE  Counts(d)'
<1>1. /\ At(w, "begin") /\ Release(w, <<>>) /\ Current(w) \in Files
      /\ UNCHANGED <<qvars, pos, out, nodeVars>>
  BY DEF SearchFile
<1>2. Current(w) \in Items /\ out[w] = <<>>
  BY <1>1, AtItem
<1>3. NodeSeq(Current(w)) = <<>> /\ <<>> \in Seq(Dirs)
  BY <1>1, <1>2, Parents, NodeSeqs
<1>4. QED
  BY <1>1, <1>2, <1>3, ReleaseCounts

\* The walker gives back its own reference and that of its item.
LEMMA CloseDirCounts ==
  ASSUME PInv, NEW w \in Workers, CloseDir(w), NEW d \in Dirs
  PROVE  Counts(d)'
<1>1. /\ At(w, "walk") /\ Release(w, <<Current(w)>> \o NodeSeq(Current(w))) /\ out[w] = <<>>
      /\ UNCHANGED <<qvars, pos, out, nodeVars>>
  BY DEF CloseDir
<1>2. Current(w) \in Items /\ Current(w) \in Dirs
  BY <1>1, AtItem DEF PInv, PoolShape, Placed
<1>3. <<Current(w)>> \o NodeSeq(Current(w)) \in Seq(Dirs)
  BY <1>2, NodeSeqType, ConcatProperties
<1>4. QED
  BY <1>1, <1>3, ReleaseCounts

\* A node that is created has its walker for its only holder, and is one more
\* holder of its parent's, which is live because the item held it.
LEMMA CreateNodeCounts ==
  ASSUME PInv, NEW w \in Workers, CreateNode(w), NEW d \in Dirs
  PROVE  Counts(d)'
<1> DEFINE c == Current(w)
<1>1. /\ At(w, "begin") /\ c \in Dirs
      /\ UNCHANGED <<qvars, pos, out>>
  BY DEF CreateNode
<1>2. /\ step[w] = "begin" /\ out[w] = <<>> /\ idx[w] \in 1..Len(held[w])
      /\ c \in Items /\ c \in Range(held[w])
  BY <1>1, AtItem
<1>3. CASE Release(w, NodeSeq(c)) /\ UNCHANGED nodeVars
  <2>1. NodeSeq(c) \in Seq(Dirs)
    BY <1>2, NodeSeqType
  <2>2. QED
    BY <1>1, <1>2, <1>3, <2>1, ReleaseCounts
<1>4. CASE /\ greg_ignore_node_create(c)
           /\ step' = [step EXCEPT ![w] = "open"]
           /\ UNCHANGED <<idx, drops, historyVars>>
  <2>1. /\ step'[w] = "open" /\ \A v \in Workers \ {w} : step'[v] = step[v]
    BY <1>4 DEF PInv, PoolShape, PTypeOK
  <2>2. \A v \in Workers \ {w} : Unchanged(v)
    BY <1>1, <1>4, <2>1 DEF Unchanged, qvars
  <2>3. c \in Pending(w) /\ c \in Unreleased(w)
    <3>1. idx[w] <= Len(held[w])
      BY <1>2
    <3>2. QED
      BY <1>2, <3>1, Batches
  \* The directory has no node yet.
  <2>4. node[c] = "none"
    <3>1. c \notin handled /\ c \notin lost
      BY <2>3 DEF PInv, Covering!TInv, Covering!Separate, ToDo
    <3>2. c \notin Opening
      <4>1. ASSUME NEW v \in Workers, step[v] = "open", Current(v) = c
            PROVE  FALSE
        <5>1. v # w
          BY <1>2, <4>1
        <5>2. idx[v] <= Len(held[v])
          BY <4>1, LenProperties DEF PInv, PoolShape, Placed, PTypeOK, QTypeOK
        <5>3. c \in Range(held[v])
          BY <4>1, <5>2, Batches
        <5>4. QED
          BY <1>2, <5>1, <5>3 DEF PInv, QInv, HandedOutOnce
      <4>2. QED
        BY <4>1 DEF Opening
    <3>3. QED
      BY <1>1, <3>1, <3>2 DEF PInv, PoolShape, NodesInOrder
  <2>5. /\ node'[c] = "live" /\ ref_count'[c] = 1
        /\ \A e \in Dirs \ {c} : node'[e] = node[e]
        /\ \A e \in Dirs \ {c} :
             ref_count'[e] = IF e \in NodeOf(c) THEN ref_count[e] + 1 ELSE ref_count[e]
        /\ c \notin NodeOf(c)
    BY <1>1, <1>4, Parents DEF greg_ignore_node_create, PInv, PoolShape, PTypeOK
  \* What the holders become.
  <2>6. Carried' = Carried
    <3>1. Unreleased(w)' = Unreleased(w)
      BY <1>1, <1>2, <1>4, <2>1 DEF Unreleased, qvars
    <3>2. QED
      BY <1>1, <2>2, <3>1, CarriedSame DEF qvars
  <2>7. ItemsUnder(d)' = ItemsUnder(d)
    BY <2>6 DEF ItemsUnder
  <2>8. DropsOf(d)' = DropsOf(d)
    BY <1>4 DEF DropsOf
  <2>9. WalkersOf(d)' = WalkersOf(d) \cup (IF d = c THEN {w} ELSE {}) /\ w \notin WalkersOf(d)
    <3>1. Current(w)' = c
      BY <1>1, <1>4 DEF Current, qvars
    <3>2. (w \in WalkersOf(d)' <=> d = c) /\ w \notin WalkersOf(d)
      BY <1>2, <2>1, <3>1 DEF WalkersOf
    <3>3. QED
      BY <2>2, <3>2, CarriedChange
  <2>10. /\ NodesUnder(d)' = NodesUnder(d) \cup (IF d \in NodeOf(c) THEN {c} ELSE {})
         /\ c \notin NodesUnder(d)
    BY <1>1, <2>4, <2>5 DEF NodesUnder
  <2>11. /\ Countable(d) /\ Total(d) \in Nat
         /\ node[d] = "live" => ref_count[d] = Total(d) /\ Total(d) # 0
         /\ node[d] # "live" => Total(d) = 0
    BY CountsByKind DEF PInv
  <2>12. /\ IsFiniteSet(WalkersOf(d)) /\ IsFiniteSet(ItemsUnder(d))
         /\ IsFiniteSet(NodesUnder(d)) /\ IsFiniteSet(DropsOf(d))
    BY <2>11 DEF Countable, Bounded
  <2>13. /\ Cardinality(WalkersOf(d)) \in Nat /\ Cardinality(ItemsUnder(d)) \in Nat
         /\ Cardinality(NodesUnder(d)) \in Nat /\ Cardinality(DropsOf(d)) \in Nat
    BY <2>12, FS_CardinalityType
  <2>14. CASE d = c
    <3>1. d \notin NodeOf(c)
      BY <2>5, <2>14
    <3>2. /\ IsFiniteSet(WalkersOf(d)')
          /\ Cardinality(WalkersOf(d)') = Cardinality(WalkersOf(d)) + 1
      <4>1. WalkersOf(d)' = WalkersOf(d) \cup {w} /\ w \notin WalkersOf(d)
        BY <2>9, <2>14
      <4>2. QED
        BY <2>12, <4>1, FS_AddElement
    <3>3. Countable(d)' /\ Total(d)' = Total(d) + 1
      BY <2>7, <2>8, <2>10, <2>12, <2>13, <3>1, <3>2 DEF Countable, Bounded, Total, SumOf
    <3>4. Total(d) = 0
      BY <2>4, <2>11, <2>14
    <3>5. QED
      BY <2>5, <2>14, <3>3, <3>4, CountsAfter
  <2>15. CASE d \in NodeOf(c)
    <3>1. d # c
      BY <2>5, <2>15
    <3>2. /\ IsFiniteSet(NodesUnder(d)')
          /\ Cardinality(NodesUnder(d)') = Cardinality(NodesUnder(d)) + 1
      <4>1. NodesUnder(d)' = NodesUnder(d) \cup {c} /\ c \notin NodesUnder(d)
        BY <2>10, <2>15
      <4>2. QED
        BY <2>12, <4>1, FS_AddElement
    <3>3. Countable(d)' /\ Total(d)' = Total(d) + 1
      BY <2>7, <2>8, <2>9, <2>12, <2>13, <3>1, <3>2 DEF Countable, Bounded, Total, SumOf
    <3>4. node[d] = "live"
      <4>1. c \in ItemsUnder(d)
        BY <2>3, <2>15 DEF ItemsUnder, Carried
      <4>2. Holders(d) # {}
        BY <4>1, NoHolders
      <4>3. QED
        BY <4>2 DEF PInv, Counts
    <3>5. node'[d] = "live" /\ ref_count'[d] = ref_count[d] + 1
      BY <2>5, <2>15, <3>1, <3>4
    <3>6. ref_count'[d] = Total(d)' /\ Total(d)' # 0
      BY <2>11, <3>3, <3>4, <3>5
    <3>7. QED
      BY <3>3, <3>5, <3>6, CountsAfter
  <2>16. CASE d # c /\ d \notin NodeOf(c)
    <3>1. WalkersOf(d)' = WalkersOf(d) /\ NodesUnder(d)' = NodesUnder(d)
      BY <2>9, <2>10, <2>16
    <3>2. node'[d] = node[d] /\ ref_count'[d] = ref_count[d]
      BY <2>5, <2>16
    <3>3. QED
      BY <2>7, <2>8, <3>1, <3>2, StillCounted DEF PInv
  <2>17. QED
    BY <2>14, <2>15, <2>16
<1>5. QED
  BY <1>3, <1>4 DEF CreateNode

\* A directory that cannot be opened is released like one that was closed.
LEMMA OpenDirCounts ==
  ASSUME PInv, NEW w \in Workers, OpenDir(w), NEW d \in Dirs
  PROVE  Counts(d)'
<1> DEFINE c == Current(w)
<1>1. At(w, "open") /\ UNCHANGED <<qvars, out, nodeVars>>
  BY DEF OpenDir
<1>2. /\ step[w] = "open" /\ out[w] = <<>> /\ idx[w] \in 1..Len(held[w])
      /\ c \in Items /\ c \in Dirs
  BY <1>1, AtItem DEF PInv, PoolShape, Placed
<1>3. CASE Release(w, <<c>> \o NodeSeq(c)) /\ UNCHANGED pos
  <2>1. <<c>> \o NodeSeq(c) \in Seq(Dirs)
    BY <1>2, NodeSeqType, ConcatProperties
  <2>2. QED
    BY <1>1, <1>2, <1>3, <2>1, ReleaseCounts
<1>4. CASE /\ step' = [step EXCEPT ![w] = "walk"]
           /\ pos' = [pos EXCEPT ![w] = 0]
           /\ UNCHANGED <<idx, drops>>
  <2>1. /\ step'[w] = "walk"
        /\ \A v \in Workers \ {w} : step'[v] = step[v] /\ pos'[v] = pos[v]
    BY <1>4 DEF PInv, PoolShape, PTypeOK
  <2>2. \A v \in Workers \ {w} : Unchanged(v)
    BY <1>1, <1>4, <2>1 DEF Unchanged, qvars
  <2>3. Unreleased(w)' = Unreleased(w) /\ Current(w)' = c
    BY <1>1, <1>2, <1>4, <2>1 DEF Unreleased, Current, qvars
  <2>4. Carried' = Carried
    BY <1>1, <2>2, <2>3, CarriedSame DEF qvars
  <2>5. WalkersOf(d)' = WalkersOf(d)
    <3>1. w \in WalkersOf(d)' <=> w \in WalkersOf(d)
      BY <1>2, <2>1, <2>3 DEF WalkersOf
    <3>2. QED
      BY <2>2, <3>1, CarriedChange
  <2>6. /\ ItemsUnder(d)' = ItemsUnder(d) /\ DropsOf(d)' = DropsOf(d)
        /\ NodesUnder(d)' = NodesUnder(d)
    BY <1>1, <1>4, <2>4 DEF ItemsUnder, DropsOf, NodesUnder, nodeVars
  <2>7. QED
    BY <1>1, <2>5, <2>6, StillCounted DEF PInv, nodeVars
<1>5. QED
  BY <1>3, <1>4 DEF OpenDir

\* An entry that is a directory becomes an item that holds the walked node,
\* which is live because its walker holds it.
LEMMA ReadEntryCounts ==
  ASSUME PInv, NEW w \in Workers, ReadEntry(w), NEW d \in Dirs
  PROVE  Counts(d)'
<1> DEFINE c == Current(w)
           e == Kids[c][pos[w] + 1]
<1>1. /\ At(w, "walk") /\ ~AtEnd(w)
      /\ pos' = [pos EXCEPT ![w] = @ + 1]
      /\ UNCHANGED <<qvars, step, drain, idx, drops>>
      /\ \/ UNCHANGED <<out, nodeVars>>
         \/ e \in Items /\ TakeEntry(w, e)
  BY DEF ReadEntry
<1>2. /\ step[w] = "walk" /\ idx[w] \in 1..Len(held[w])
      /\ c \in Items /\ c \in Dirs /\ Placed(w) /\ Walking(w)
  BY <1>1, AtItem DEF PInv, PoolShape, Placed
<1>3. Current(w)' = c /\ Unreleased(w)' = Unreleased(w)
  BY <1>1 DEF Current, Unreleased, qvars
<1>4. /\ WalkersOf(d)' = WalkersOf(d) /\ DropsOf(d)' = DropsOf(d)
      /\ \A v \in Workers : Unreleased(v)' = Unreleased(v)
  BY <1>1 DEF WalkersOf, DropsOf, Current, Unreleased, qvars
<1>5. CASE UNCHANGED <<out, nodeVars>>
  <2>1. Carried' = Carried
    BY <1>1, <1>4, <1>5 DEF Carried, qvars
  <2>2. ItemsUnder(d)' = ItemsUnder(d) /\ NodesUnder(d)' = NodesUnder(d)
    BY <1>5, <2>1 DEF ItemsUnder, NodesUnder, nodeVars
  <2>3. QED
    BY <1>4, <1>5, <2>2, StillCounted DEF PInv, nodeVars
<1>6. CASE e \in Items /\ TakeEntry(w, e)
  <2>1. /\ out' = [out EXCEPT ![w] = Append(out[w], e)]
        /\ ref_count' = [ref_count EXCEPT ![c] = IF e \in Dirs THEN @ + 1 ELSE @]
        /\ node' = node
    BY <1>6 DEF TakeEntry
  <2>2. out \in [Workers -> Seq(Items)] /\ out[w] \in Seq(Items)
    BY DEF PInv, PoolShape, PTypeOK
  <2>3. e \in Unread(w) /\ e \in Listed(c)
    <3>1. pos[w] \in 0..Len(Kids[c]) /\ pos[w] # Len(Kids[c])
      BY <1>1, <1>2 DEF Walking, AtEnd
    <3>2. Len(Kids[c]) \in Nat /\ DOMAIN Kids[c] = 1..Len(Kids[c])
      BY <1>2, PoolAssumption, LenProperties DEF PoolAssumption
    <3>3. pos[w] + 1 \in pos[w] + 1..Len(Kids[c]) /\ pos[w] + 1 \in DOMAIN Kids[c]
      BY <3>1, <3>2
    <3>4. QED
      BY <1>2, <1>6, <3>3 DEF Unread, Listed, Range
  <2> HIDE DEF e
  <2>4. /\ out'[w] = Append(out[w], e)
        /\ \A v \in Workers \ {w} : out'[v] = out[v]
        /\ Range(out'[w]) = Range(out[w]) \cup {e}
    BY <1>6, <2>1, <2>2, AppendRange
  <2>5. Carried' = Carried \cup {e} /\ e \notin Carried
    <3>1. Carried' = Carried \cup {e}
      <4>1. \A v \in Workers \ {w} : Unchanged(v)
        BY <1>1, <2>4 DEF Unchanged, qvars, PInv, PoolShape, PTypeOK
      <4>2. Carried' = CarriedElse(w) \cup Unreleased(w) \cup Range(out'[w])
        BY <1>1, <1>3, <4>1, CarriedChange DEF qvars
      <4>3. QED
        BY <2>4, <4>2, CarriedParts
    <3>2. e \in Found(w) /\ e \notin Range(out[w])
      BY <1>2, <2>3, FoundUnder DEF Found
    <3>3. QED
      BY <3>1, <3>2, CarriedParts
  <2>6. ItemsUnder(d)' = ItemsUnder(d) \cup (IF d \in NodeOf(e) THEN {e} ELSE {})
        /\ e \notin ItemsUnder(d) /\ NodesUnder(d)' = NodesUnder(d)
    BY <2>1, <2>5 DEF ItemsUnder, NodesUnder
  <2>7. d \in NodeOf(e) <=> e \in Dirs /\ d = c
    <3>1. CASE e \in Dirs
      <4>1. NodeOf(e) = {c}
        BY <1>2, <2>3, <3>1, Parents
      <4>2. QED
        BY <3>1, <4>1
    <3>2. CASE e \in Files
      BY <3>2, PoolAssumption, Parents DEF PoolAssumption
    <3>3. QED
      BY <1>6, <3>1, <3>2, PoolAssumption DEF PoolAssumption
  <2>8. /\ ref_count \in [Dirs -> Nat]
        /\ ref_count'[d] = ref_count[d] + (IF d \in NodeOf(e) THEN 1 ELSE 0)
    BY <1>2, <2>1, <2>7 DEF PInv, PoolShape, PTypeOK
  <2>9. CASE d \in NodeOf(e)
    <3>1. /\ Countable(d) /\ Total(d) \in Nat
          /\ node[d] = "live" => ref_count[d] = Total(d) /\ Total(d) # 0
          /\ node[d] # "live" => Total(d) = 0
      BY CountsByKind DEF PInv
    <3>2. /\ IsFiniteSet(WalkersOf(d)) /\ IsFiniteSet(ItemsUnder(d))
          /\ IsFiniteSet(NodesUnder(d)) /\ IsFiniteSet(DropsOf(d))
      BY <3>1 DEF Countable, Bounded
    <3>3. /\ Cardinality(WalkersOf(d)) \in Nat /\ Cardinality(ItemsUnder(d)) \in Nat
          /\ Cardinality(NodesUnder(d)) \in Nat /\ Cardinality(DropsOf(d)) \in Nat
      BY <3>2, FS_CardinalityType
    <3>4. /\ IsFiniteSet(ItemsUnder(d)')
          /\ Cardinality(ItemsUnder(d)') = Cardinality(ItemsUnder(d)) + 1
      BY <2>6, <2>9, <3>2, FS_AddElement
    <3>5. Countable(d)' /\ Total(d)' = Total(d) + 1
      BY <1>4, <2>6, <3>2, <3>3, <3>4 DEF Countable, Bounded, Total, SumOf
    <3>6. node[d] = "live"
      <4>1. w \in WalkersOf(d)
        BY <1>2, <2>7, <2>9 DEF WalkersOf
      <4>2. Holders(d) # {}
        BY <4>1, NoHolders
      <4>3. QED
        BY <4>2 DEF PInv, Counts
    <3>7. node'[d] = "live" /\ ref_count'[d] = Total(d)' /\ Total(d)' # 0
      BY <2>1, <2>8, <2>9, <3>1, <3>5, <3>6
    <3>8. QED
      BY <3>5, <3>7, CountsAfter
  <2>10. CASE d \notin NodeOf(e)
    <3>1. ItemsUnder(d)' = ItemsUnder(d) /\ node'[d] = node[d] /\ ref_count'[d] = ref_count[d]
      BY <2>1, <2>6, <2>8, <2>10
    <3>2. QED
      BY <1>4, <2>6, <3>1, StillCounted DEF PInv
  <2>11. QED
    BY <2>9, <2>10
<1>7. QED
  BY <1>1, <1>5, <1>6

\* The first reference in hand is to a live node, so that its count is not 0.
LEMMA HeadLive ==
  ASSUME PInv, NEW w \in Workers, Unref(w)
  PROVE  /\ drops[w] \in Seq(Dirs) /\ Head(drops[w]) \in Dirs
         /\ Tail(drops[w]) \in Seq(Dirs)
         /\ drops[w] = <<Head(drops[w])>> \o Tail(drops[w])
         /\ node[Head(drops[w])] = "live"
         /\ ref_count[Head(drops[w])] \in Nat \ {0}
<1> DEFINE h == Head(drops[w])
<1>1. step[w] = "free" /\ drops[w] \in Seq(Dirs) /\ drops[w] # <<>>
  BY DEF Unref, At, PInv, PoolShape, Placed, PTypeOK
<1>2. /\ h \in Dirs /\ Tail(drops[w]) \in Seq(Dirs)
      /\ drops[w] = <<h>> \o Tail(drops[w])
  BY <1>1, HeadTailProperties
<1>3. Holders(h) # {}
  BY <1>1, HeadHeld
<1>4. node[h] = "live" /\ ref_count[h] = Total(h) /\ Total(h) # 0 /\ Total(h) \in Nat
  BY <1>2, <1>3, CountsByKind DEF PInv, Counts
<1>5. QED
  BY <1>1, <1>2, <1>4

\* A count never goes below zero.
LEMMA UnrefTypes ==
  ASSUME PInv, NEW w \in Workers, Unref(w)
  PROVE  NodeTypes'
<1> DEFINE h == Head(drops[w])
<1>1. h \in Dirs /\ ref_count[h] - 1 \in Nat
  <2>1. h \in Dirs /\ ref_count[h] \in Nat \ {0}
    BY HeadLive
  <2>2. QED
    BY <2>1
<1>2. /\ node \in [Dirs -> {"none", "live", "freed"}]
      /\ ref_count \in [Dirs -> Nat]
  BY DEF PInv, PoolShape, PTypeOK
<1>3. /\ ref_count' = [ref_count EXCEPT ![h] = ref_count[h] - 1]
      /\ node' = [node EXCEPT ![h] = IF ref_count[h] = 1 THEN "freed" ELSE node[h]]
  BY DEF Unref, greg_ignore_node_unref
<1> HIDE DEF h
<1>4. ref_count' \in [Dirs -> Nat]
  BY <1>1, <1>2, <1>3
<1>5. node' \in [Dirs -> {"none", "live", "freed"}]
  BY <1>1, <1>2, <1>3
<1>6. QED
  BY <1>4, <1>5 DEF NodeTypes

\* Giving back a reference takes one holder away.  A node that loses its last
\* one is freed, and its reference on the parent becomes one to give back.
LEMMA UnrefCounts ==
  ASSUME PInv, NEW w \in Workers, Unref(w), NEW d \in Dirs
  PROVE  Counts(d)'
<1> DEFINE h == Head(drops[w])
           rest == Tail(drops[w])
           last == ref_count[h] = 1
           nodes == (IF last THEN NodeSeq(h) ELSE <<>>) \o rest
           Up == IF last /\ d \in NodeOf(h) THEN 1 ELSE 0
           Own == IF d = h THEN 1 ELSE 0
<1>1. /\ At(w, "free") /\ Release(w, nodes)
      /\ UNCHANGED <<qvars, pos, out>>
      /\ ref_count' = [ref_count EXCEPT ![h] = @ - 1]
      /\ node' = [node EXCEPT ![h] = IF last THEN "freed" ELSE @]
  BY DEF Unref, greg_ignore_node_unref
<1>2. /\ step[w] = "free" /\ out[w] = <<>> /\ idx[w] \in 1..Len(held[w])
  BY <1>1, AtItem
<1>3. /\ drops[w] \in Seq(Dirs) /\ h \in Dirs /\ rest \in Seq(Dirs)
      /\ drops[w] = <<h>> \o rest
      /\ node[h] = "live" /\ ref_count[h] \in Nat \ {0}
  BY HeadLive
<1>4. h \in Items /\ h \notin NodeOf(h)
  BY <1>3, Parents
<1>5. nodes \in Seq(Dirs)
  <2>1. NodeSeq(h) \in Seq(Dirs) /\ <<>> \in Seq(Dirs)
    BY <1>4, NodeSeqType
  <2>2. QED
    BY <1>3, <2>1, ConcatProperties
<1>6. /\ \A v \in Workers \ {w} : Unchanged(v)
      /\ Unreleased(w)' = After(w)
      /\ drops'[w] = nodes
      /\ step'[w] \in {"begin", "free"}
  <2> HIDE DEF nodes
  <2>1. QED
    BY <1>1, <1>2, <1>5, ReleaseEffect DEF qvars
<1>7. /\ Countable(d) /\ Total(d) \in Nat
      /\ node[d] = "live" => ref_count[d] = Total(d) /\ Total(d) # 0
      /\ node[d] # "live" => Total(d) = 0
  BY CountsByKind DEF PInv
<1>8. /\ IsFiniteSet(WalkersOf(d)) /\ IsFiniteSet(ItemsUnder(d))
      /\ IsFiniteSet(NodesUnder(d)) /\ IsFiniteSet(DropsOf(d))
  BY <1>7 DEF Countable, Bounded
<1>9. /\ Cardinality(WalkersOf(d)) \in Nat /\ Cardinality(ItemsUnder(d)) \in Nat
      /\ Cardinality(NodesUnder(d)) \in Nat /\ Cardinality(DropsOf(d)) \in Nat
  BY <1>8, FS_CardinalityType
<1>10. /\ WalkersOf(d)' = WalkersOf(d)
       /\ ItemsUnder(d)' = ItemsUnder(d)
  <2>1. w \notin WalkersOf(d) /\ w \notin WalkersOf(d)'
    BY <1>2, <1>6 DEF WalkersOf
  <2>2. Unreleased(w) = After(w)
    <3>1. idx[w] <= Len(held[w])
      BY <1>2
    <3>2. QED
      BY <1>2, <3>1, Batches
  <2>3. Carried' = Carried
    BY <1>1, <1>6, <2>2, CarriedSame DEF qvars
  <2>4. WalkersOf(d)' = WalkersOf(d)
    <3>1. \A v \in Workers \ {w} : Unchanged(v)
      BY <1>6
    <3>2. WalkersOf(d)' \ {w} = WalkersOf(d) \ {w}
      BY <3>1, CarriedChange
    <3>3. QED
      BY <2>1, <3>2
  <2>5. ItemsUnder(d)' = ItemsUnder(d)
    BY <2>3 DEF ItemsUnder
  <2>6. QED
    BY <2>4, <2>5
<1>11. /\ IsFiniteSet(DropsOf(d)')
       /\ Cardinality(DropsOf(d)') + Own = Cardinality(DropsOf(d)) + Up
  <2>1. IsFiniteSet(Stack(w, drops[w], d))
    <3>1. Stack(w, drops[w], d) \in SUBSET DropsOf(d)
      BY DEF Stack, DropsOf
    <3>2. QED
      BY <1>8, <3>1, FS_Subset
  <2>2. IsFiniteSet(Stack(w, rest, d))
    <3>1. Stack(w, rest, d) \in SUBSET Stack(w, drops[w], d)
      <4>1. ASSUME NEW r \in Stack(w, rest, d)
            PROVE  r \in Stack(w, drops[w], d)
        <5>1. /\ Len(rest) \in Nat /\ DOMAIN rest = 1..Len(rest)
              /\ Len(drops[w]) = Len(rest) + 1 /\ DOMAIN drops[w] = 1..Len(rest) + 1
              /\ \A j \in 1..Len(rest) : rest[j] = drops[w][j + 1]
          BY <1>2, <1>3, HeadTailProperties, LenProperties, EmptySeq
             DEF PInv, PoolShape, Placed
        <5>2. PICK j \in 1..Len(rest) : rest[j] = d /\ r = <<w, Len(rest) - j>>
          BY <5>1 DEF Stack
        <5>3. /\ j + 1 \in DOMAIN drops[w] /\ drops[w][j + 1] = d
              /\ Len(drops[w]) - (j + 1) = Len(rest) - j
          BY <5>1, <5>2
        <5>4. <<w, Len(drops[w]) - (j + 1)>> \in Stack(w, drops[w], d)
          BY <5>3 DEF Stack
        <5>5. QED
          BY <5>2, <5>3, <5>4
      <4>2. QED
        BY <4>1
    <3>2. QED
      BY <2>1, <3>1, FS_Subset
  <2>3. Cardinality(Stack(w, rest, d)) \in Nat
    BY <2>2, FS_CardinalityType
  <2>4. Cardinality(Stack(w, drops[w], d)) = Cardinality(Stack(w, rest, d)) + Own
    <3>1. Cardinality(Stack(w, <<h>> \o rest, d))
            = Cardinality(Stack(w, rest, d)) + (IF h = d THEN 1 ELSE 0)
      BY <1>3, <2>2, StackPush
    <3>2. QED
      BY <1>3, <3>1
  <2>5. /\ IsFiniteSet(Stack(w, nodes, d))
        /\ Cardinality(Stack(w, nodes, d)) = Cardinality(Stack(w, rest, d)) + Up
    <3>1. CASE last
      <4>1. /\ IsFiniteSet(Stack(w, NodeSeq(h) \o rest, d))
            /\ Cardinality(Stack(w, NodeSeq(h) \o rest, d))
                 = Cardinality(Stack(w, rest, d)) + (IF d \in NodeOf(h) THEN 1 ELSE 0)
        BY <1>3, <1>4, <2>2, StackNodes
      <4>2. QED
        BY <3>1, <4>1
    <3>2. CASE ~last
      <4>1. nodes = rest
        BY <1>3, <3>2, ConcatEmptySeq
      <4>2. QED
        BY <2>2, <2>3, <3>2, <4>1
    <3>3. QED
      BY <3>1, <3>2
  <2> HIDE DEF nodes
  <2>6. /\ IsFiniteSet(DropsOf(d)')
        /\ Cardinality(DropsOf(d)') + Cardinality(Stack(w, drops[w], d))
             = Cardinality(DropsOf(d)) + Cardinality(Stack(w, nodes, d))
    BY <1>6, <1>8, <2>5, DropsChange
  <2>7. Cardinality(DropsOf(d)') \in Nat
    BY <2>6, FS_CardinalityType
  <2>8. Own \in Int /\ Up \in Int
    OBVIOUS
  <2> HIDE DEF Own, Up
  <2>9. QED
    BY <1>9, <2>3, <2>4, <2>5, <2>6, <2>7, <2>8
<1>12. /\ IsFiniteSet(NodesUnder(d)')
       /\ Cardinality(NodesUnder(d)') = Cardinality(NodesUnder(d)) - Up
  <2>1. /\ node'[h] = IF last THEN "freed" ELSE "live"
        /\ \A e \in Dirs \ {h} : node'[e] = node[e]
    BY <1>1, <1>3 DEF PInv, PoolShape, PTypeOK
  <2>2. CASE last /\ d \in NodeOf(h)
    <3>1. NodesUnder(d)' = NodesUnder(d) \ {h} /\ h \in NodesUnder(d)
      BY <1>3, <2>1, <2>2 DEF NodesUnder
    <3>2. QED
      BY <1>8, <2>2, <3>1, FS_RemoveElement
  <2>3. CASE ~(last /\ d \in NodeOf(h))
    <3>1. NodesUnder(d)' = NodesUnder(d)
      BY <1>3, <2>1, <2>3 DEF NodesUnder
    <3>2. QED
      BY <1>8, <1>9, <2>3, <3>1
  <2>4. QED
    BY <2>2, <2>3
<1>13. Countable(d)' /\ Total(d)' = Total(d) - Own
  <2>1. Own \in Int /\ Up \in Int
    OBVIOUS
  <2>2. Cardinality(DropsOf(d)') \in Nat
    BY <1>11, FS_CardinalityType
  <2> HIDE DEF Own, Up
  <2>3. QED
    BY <1>8, <1>9, <1>10, <1>11, <1>12, <2>1, <2>2 DEF Countable, Bounded, Total, SumOf
<1>14. CASE d = h
  <2>1. ref_count'[d] = ref_count[d] - 1 /\ node'[d] = IF last THEN "freed" ELSE "live"
    BY <1>1, <1>3, <1>14 DEF PInv, PoolShape, PTypeOK
  <2>2. ref_count[d] = Total(d) /\ Total(d)' = Total(d) - 1
    BY <1>3, <1>7, <1>13, <1>14
  <2>3. QED
    BY <1>3, <1>7, <1>13, <1>14, <2>1, <2>2, CountsAfter
<1>15. CASE d # h
  <2>1. ref_count'[d] = ref_count[d] /\ node'[d] = node[d]
    BY <1>1, <1>15 DEF PInv, PoolShape, PTypeOK
  <2>2. Total(d)' = Total(d)
    BY <1>7, <1>13, <1>15
  <2>3. QED
    BY <1>7, <1>13, <2>1, <2>2, CountsAfter
<1>16. QED
  BY <1>14, <1>15

\* A flush takes the references of the items that the queue refuses.
LEMMA FlushTakes ==
  ASSUME PInv, NEW w \in Workers, Flush(w)
  PROVE  \E c \in Dirs : \E Gone \in SUBSET Items :
           /\ Carried' = Carried \ Gone /\ Gone \subseteq Carried
           /\ \A d \in Dirs : WalkersOf(d)' = WalkersOf(d)
           /\ \A d \in Dirs : DropsOf(d)' = DropsOf(d)
           /\ node' = node
           /\ ref_count' = [ref_count EXCEPT ![c] = @ - Cardinality(Gone \cap Dirs)]
           /\ w \in WalkersOf(c)
           /\ Gone \subseteq ChildItems[c]
<1> DEFINE c == Current(w)
           n == FlushSize(w)
           items == SubSeq(out[w], 1, n)
           rest == SubSeq(out[w], n + 1, Len(out[w]))
<1>1. /\ At(w, "walk") /\ MustFlush(w)
      /\ out' = [out EXCEPT ![w] = rest]
      /\ UNCHANGED <<held, step, idx, drops, node>>
  BY DEF Flush, Rest
<1>2. PICK kept \in Stored(items) :
        /\ greg_queue_push_batch(items, kept)
        /\ DropRefused(c, Range(items) \ Range(kept))
  BY DEF Flush
<1>3. /\ step[w] = "walk" /\ c \in Dirs /\ IsInjective(out[w])
  BY <1>1, AtItem DEF PInv, PoolShape, Placed, Walking
<1>4. /\ out \in [Workers -> Seq(Items)] /\ out[w] \in Seq(Items) /\ Len(out[w]) \in Nat
      /\ PushMax \in Nat \ {0}
  BY QueueAssumption, LenProperties DEF QueueAssumption, PInv, PoolShape, PTypeOK
<1>5. n \in 0..Len(out[w])
  BY <1>4 DEF FlushSize
<1> HIDE DEF n
<1>6. /\ items \in Seq(Items) /\ IsInjective(items) /\ rest \in Seq(Items)
      /\ Range(items) \cup Range(rest) = Range(out[w])
      /\ Range(items) \cap Range(rest) = {}
  BY <1>3, <1>4, <1>5, CutSequence
<1> HIDE DEF items, rest
<1>7. /\ kept \in Seq(Items) /\ Range(kept) \subseteq Range(items)
  BY <1>2, <1>6, StoredItems
<1>8. Range(queue') = Range(queue) \cup Range(kept)
  <2>1. queue' = queue \o kept /\ queue \in Seq(Items)
    BY <1>2 DEF greg_queue_push_batch, Enqueue, PInv, QInv, QTypeOK
  <2>2. QED
    BY <1>7, <2>1, RangeConcatenation
<1> DEFINE Gone == Range(items) \ Range(kept)
<1>9. /\ Range(out[w]) \subseteq ChildItems[c] /\ Range(out[w]) \subseteq Items
      /\ Range(out[w]) \cap (CarriedElse(w) \cup Unreleased(w)) = {}
      /\ Carried = CarriedElse(w) \cup Unreleased(w) \cup Range(out[w])
  BY <1>3, FoundUnder, CarriedParts DEF Found
<1>10. Carried' = Carried \ Gone
  <2>1. out'[w] = rest /\ \A v \in Workers \ {w} : out'[v] = out[v]
    BY <1>1, <1>4
  <2>2. \A v \in Workers : Unreleased(v)' = Unreleased(v)
    BY <1>1 DEF Unreleased
  <2>3. Carried' = Range(queue') \cup UNION {Unreleased(v)' \cup Range(out'[v]) : v \in Workers}
    BY DEF Carried
  <2>4. Carried' = CarriedElse(w) \cup Range(kept) \cup Unreleased(w) \cup Range(rest)
    BY <1>8, <2>1, <2>2, <2>3 DEF CarriedElse
  <2>5. QED
    BY <1>6, <1>7, <1>9, <2>4
<1>11. /\ \A d \in Dirs : WalkersOf(d)' = WalkersOf(d)
       /\ \A d \in Dirs : DropsOf(d)' = DropsOf(d)
       /\ w \in WalkersOf(c)
  BY <1>1, <1>3 DEF WalkersOf, DropsOf, Current
<1>12. ref_count' = [ref_count EXCEPT ![c] = @ - Cardinality(Gone \cap Dirs)]
  BY <1>2 DEF DropRefused
<1>13. Gone \subseteq Range(out[w])
  BY <1>6
<1>14. Gone \in SUBSET Items /\ Gone \subseteq Carried /\ Gone \subseteq ChildItems[c]
  BY <1>9, <1>13
<1> HIDE DEF Gone, c
<1>15. QED
  BY <1>1, <1>3, <1>10, <1>11, <1>12, <1>14

\* The counts after a flush.  The walker holds the node, so that it stays live.
LEMMA FlushCounts ==
  ASSUME PInv, NEW w \in Workers, Flush(w)
  PROVE  NodeTypes' /\ \A d \in Dirs : Counts(d)'
<1>1. PICK c \in Dirs : \E Gone \in SUBSET Items :
        /\ Carried' = Carried \ Gone /\ Gone \subseteq Carried
        /\ \A d \in Dirs : WalkersOf(d)' = WalkersOf(d)
        /\ \A d \in Dirs : DropsOf(d)' = DropsOf(d)
        /\ node' = node
        /\ ref_count' = [ref_count EXCEPT ![c] = @ - Cardinality(Gone \cap Dirs)]
        /\ w \in WalkersOf(c)
        /\ Gone \subseteq ChildItems[c]
  BY FlushTakes
<1>2. PICK Gone \in SUBSET Items :
        /\ Carried' = Carried \ Gone /\ Gone \subseteq Carried
        /\ \A d \in Dirs : WalkersOf(d)' = WalkersOf(d)
        /\ \A d \in Dirs : DropsOf(d)' = DropsOf(d)
        /\ node' = node
        /\ ref_count' = [ref_count EXCEPT ![c] = @ - Cardinality(Gone \cap Dirs)]
        /\ w \in WalkersOf(c)
        /\ Gone \subseteq ChildItems[c]
  BY <1>1
<1> DEFINE Lost == Gone \cap Dirs
<1>3. \A d \in Dirs : NodesUnder(d)' = NodesUnder(d)
  BY <1>2 DEF NodesUnder
<1>4. \A i \in Lost : NodeOf(i) = {c}
  <2>1. \A i \in Lost : i \in Listed(c) \cap Dirs
    BY <1>2, Parents
  <2>2. QED
    BY <1>2, <2>1, Parents
<1>5. \A i \in Gone \ Dirs : NodeOf(i) = {}
  BY PoolAssumption, Parents DEF PoolAssumption
<1>6. /\ ItemsUnder(c)' = ItemsUnder(c) \ Lost
      /\ ItemsUnder(c) \cap Lost = Lost
      /\ \A d \in Dirs \ {c} : ItemsUnder(d)' = ItemsUnder(d)
  BY <1>2, <1>4, <1>5 DEF ItemsUnder
<1>7. /\ Countable(c) /\ Total(c) \in Nat
      /\ node[c] = "live" => ref_count[c] = Total(c) /\ Total(c) # 0
  BY <1>2, CountsByKind DEF PInv
<1>8. node[c] = "live"
  <2>1. Holders(c) # {}
    BY <1>2, NoHolders
  <2>2. QED
    BY <1>2, <2>1 DEF PInv, Counts
<1>9. /\ IsFiniteSet(WalkersOf(c)) /\ IsFiniteSet(ItemsUnder(c))
      /\ IsFiniteSet(NodesUnder(c)) /\ IsFiniteSet(DropsOf(c))
  BY <1>7 DEF Countable, Bounded
<1>10. /\ Cardinality(WalkersOf(c)) \in Nat \ {0} /\ Cardinality(ItemsUnder(c)) \in Nat
      /\ Cardinality(NodesUnder(c)) \in Nat /\ Cardinality(DropsOf(c)) \in Nat
  <2>1. Cardinality(WalkersOf(c)) # 0
    BY <1>2, <1>9, FS_EmptySet
  <2>2. QED
    BY <1>9, <2>1, FS_CardinalityType
<1>11. /\ IsFiniteSet(ItemsUnder(c) \ Lost)
       /\ Cardinality(ItemsUnder(c) \ Lost) = Cardinality(ItemsUnder(c)) - Cardinality(Lost)
  <2>1. /\ IsFiniteSet(ItemsUnder(c) \ Lost)
        /\ Cardinality(ItemsUnder(c) \ Lost)
             = Cardinality(ItemsUnder(c)) - Cardinality(ItemsUnder(c) \cap Lost)
    BY <1>9, FS_Difference
  <2>2. QED
    BY <1>6, <2>1
<1>12. Cardinality(Lost) \in Nat /\ Cardinality(Lost) <= Cardinality(ItemsUnder(c))
  <2>1. Lost \in SUBSET ItemsUnder(c)
    BY <1>6
  <2>2. QED
    BY <1>9, <2>1, FS_Subset, FS_CardinalityType
<1>13. Countable(c)' /\ Total(c)' = Total(c) - Cardinality(Lost)
  BY <1>2, <1>3, <1>6, <1>9, <1>10, <1>11, <1>12 DEF Countable, Bounded, Total, SumOf
<1>14. Total(c) - Cardinality(Lost) \in Nat \ {0}
  <2> HIDE DEF Lost
  <2>1. Total(c) = Cardinality(WalkersOf(c)) + Cardinality(ItemsUnder(c))
                     + Cardinality(NodesUnder(c)) + Cardinality(DropsOf(c))
    BY DEF Total, SumOf
  <2>2. \A a, i, m, r, l \in Nat : a # 0 /\ l <= i => a + i + m + r - l \in Nat \ {0}
    OBVIOUS
  <2>3. QED
    BY <1>10, <1>12, <2>1, <2>2
<1>15. /\ node \in [Dirs -> {"none", "live", "freed"}] /\ ref_count \in [Dirs -> Nat]
  BY DEF PInv, PoolShape, PTypeOK
<1>16. ref_count' = [ref_count EXCEPT ![c] = Total(c) - Cardinality(Lost)]
  BY <1>2, <1>7, <1>8, <1>15
<1>17. NodeTypes'
  BY <1>2, <1>14, <1>15, <1>16 DEF NodeTypes
<1>18. Counts(c)'
  <2>1. ref_count'[c] = Total(c)' /\ Total(c)' # 0 /\ node'[c] = "live"
    BY <1>2, <1>8, <1>13, <1>14, <1>15, <1>16
  <2>2. QED
    BY <1>13, <2>1, CountsAfter
<1>19. ASSUME NEW d \in Dirs \ {c}
       PROVE  Counts(d)'
  <2>1. ref_count'[d] = ref_count[d] /\ node'[d] = node[d]
    BY <1>2
  <2>2. QED
    BY <1>2, <1>3, <1>6, <2>1, StillCounted DEF PInv
<1>20. QED
  BY <1>2, <1>17, <1>18, <1>19

\* A step that moves items between the queue and the batches, or adds an item
\* that lies under no directory, leaves the counts alone.
LEMMA MovesCount ==
  ASSUME PInv, UNCHANGED <<step, drops, nodeVars>>,
         \A v \in Workers : step[v] \in {"open", "walk"} => Current(v)' = Current(v),
         \A i : NodeOf(i) # {} => (i \in Carried' <=> i \in Carried),
         NEW d \in Dirs
  PROVE  Counts(d)'
<1>1. WalkersOf(d)' = WalkersOf(d) /\ DropsOf(d)' = DropsOf(d)
  BY DEF WalkersOf, DropsOf
<1>2. ItemsUnder(d)' = ItemsUnder(d) /\ NodesUnder(d)' = NodesUnder(d)
  BY DEF ItemsUnder, NodesUnder, nodeVars
<1>3. QED
  BY <1>1, <1>2, StillCounted DEF PInv, nodeVars

\* A popped item keeps its reference.
LEMMA PopCounts ==
  ASSUME PInv, NEW w \in Workers, Pop(w), NEW d \in Dirs
  PROVE  Counts(d)'
<1> DEFINE max == IF w \in drain THEN DrainMax ELSE PopMax
<1>1. /\ greg_queue_pop_batch(w, max) /\ state[w] = "pop" /\ max \in 1..PopMax
      /\ UNCHANGED <<step, idx, out, drops, nodeVars>>
  BY PoolAssumption, QueueAssumption
     DEF Pop, PoolAssumption, QueueAssumption, greg_queue_pop_batch, workerVars, walkVars
<1>2. held[w] = <<>> /\ step[w] = "begin" /\ idx[w] = 1
  BY <1>1, EmptyRange DEF PInv, QInv, WorkerStanding, QTypeOK, PoolShape, Placed
<1>3. \A v \in Workers : Range(out'[v]) = Range(out[v])
  BY <1>1
<1>4. CASE queue = <<>>
  <2>1. queue' = queue /\ held' = held
    BY <1>1, <1>4 DEF greg_queue_pop_batch, Take, queueVars
  <2>2. Carried' = Carried /\ \A v \in Workers : Current(v)' = Current(v)
    BY <1>1, <2>1 DEF Carried, Unreleased, Current
  <2>3. QED
    BY <1>1, <2>2, MovesCount
<1>5. CASE queue # <<>>
  <2>1. PICK n \in 1..Len(queue) : Take(w, n)
    <3>1. Len(queue) \in Nat /\ Len(queue) # 0
      BY <1>5, EmptySeq, LenProperties DEF PInv, QInv, QTypeOK
    <3>2. max \in 1..PopMax /\ PopMax \in Nat
      BY <1>1, QueueAssumption DEF QueueAssumption
    <3>3. Batch(max) \in 1..Len(queue)
      BY <3>1, <3>2 DEF Batch
    <3>4. QED
      BY <1>1, <1>5, <3>3 DEF greg_queue_pop_batch
  <2> DEFINE a == SubSeq(queue, 1, n)
             b == SubSeq(queue, n + 1, Len(queue))
  <2>2. /\ a \in Seq(Items) /\ Range(a) \cup Range(b) = Range(queue)
    <3>1. queue \in Seq(Items) /\ n \in 0..Len(queue)
      BY LenProperties DEF PInv, QInv, QTypeOK
    <3>2. QED
      BY <3>1, CutSequence
  <2>3. /\ held' = [held EXCEPT ![w] = a] /\ queue' = b
        /\ held \in [Workers -> Seq(Items)]
    BY <2>1 DEF Take, PInv, QInv, QTypeOK
  <2>4. held'[w] = a /\ \A v \in Workers \ {w} : held'[v] = held[v]
    BY <2>3
  <2> HIDE DEF a, b
  <2>5. Unreleased(w) = {} /\ Unreleased(w)' = Range(a)
    <3>1. DOMAIN a = 1..Len(a) /\ Len(a) \in Nat
      BY <2>2, LenProperties
    <3>2. Unreleased(w)' = Range(a)
      BY <1>1, <1>2, <2>4, <3>1 DEF Unreleased, Range
    <3>3. QED
      BY <1>2, <3>2 DEF Unreleased
  <2>6. \A v \in Workers \ {w} : Unreleased(v)' = Unreleased(v) /\ Current(v)' = Current(v)
    BY <1>1, <2>4 DEF Unreleased, Current
  <2>7. Carried' = Carried
    <3>1. Carried' = Range(queue') \cup UNION {Unreleased(v)' \cup Range(out'[v]) : v \in Workers}
      BY DEF Carried
    <3>2. Carried' = Range(b) \cup Range(a) \cup Range(out[w])
            \cup UNION {Unreleased(v) \cup Range(out[v]) : v \in Workers \ {w}}
      BY <1>3, <2>3, <2>5, <2>6, <3>1
    <3>3. Carried = Range(queue) \cup Range(out[w])
            \cup UNION {Unreleased(v) \cup Range(out[v]) : v \in Workers \ {w}}
      BY <2>5 DEF Carried
    <3>4. QED
      BY <2>2, <3>2, <3>3
  <2>8. QED
    BY <1>1, <1>2, <2>6, <2>7, MovesCount
<1>6. QED
  BY <1>4, <1>5

\* A batch that is reported has no reference left.
LEMMA ReportCounts ==
  ASSUME PInv, NEW w \in Workers, Report(w), NEW d \in Dirs
  PROVE  Counts(d)'
<1>1. /\ greg_queue_tasks_done(w) /\ idx[w] > Len(held[w])
      /\ idx' = [idx EXCEPT ![w] = 1]
      /\ UNCHANGED <<step, out, drops, nodeVars>>
  BY DEF Report, walkVars
<1>2. /\ queue' = queue /\ held'[w] = <<>>
      /\ \A v \in Workers \ {w} : held'[v] = held[v] /\ idx'[v] = idx[v]
  BY <1>1 DEF greg_queue_tasks_done, PInv, QInv, QTypeOK, PoolShape, PTypeOK
<1>3. step[w] = "begin"
  <2>1. idx[w] \in 1..Len(held[w]) + 1 /\ Len(held[w]) \in Nat
    BY LenProperties DEF PInv, PoolShape, Placed, PTypeOK, QTypeOK
  <2>2. QED
    BY <1>1, <2>1 DEF PInv, PoolShape, Placed
<1>4. Unreleased(w) = {} /\ Unreleased(w)' = {}
  <2>1. Unreleased(w)' = {}
    BY <1>2 DEF Unreleased
  <2>2. QED
    BY <1>1, <2>1, Batches
<1>5. \A v \in Workers \ {w} : Unreleased(v)' = Unreleased(v) /\ Current(v)' = Current(v)
  BY <1>1, <1>2 DEF Unreleased, Current
<1>6. Carried' = Carried
  <2>1. Carried' = Range(queue') \cup UNION {Unreleased(v)' \cup Range(out'[v]) : v \in Workers}
    BY DEF Carried
  <2>2. QED
    BY <1>1, <1>2, <1>4, <1>5, <2>1 DEF Carried
<1>7. QED
  BY <1>1, <1>3, <1>5, <1>6, MovesCount

\* The main thread, and threads that start or wake up, move no item but the
\* root, which lies under no directory.
LEMMA QuietCounts ==
  ASSUME PInv, UNCHANGED <<held, step, idx, walkVars, nodeVars>>,
         Range(queue') \ {Root} = Range(queue) \ {Root},
         NEW d \in Dirs
  PROVE  Counts(d)'
<1>1. UNCHANGED <<step, drops, out>>
  BY DEF walkVars
<1>2. \A v \in Workers : Current(v)' = Current(v) /\ Unreleased(v)' = Unreleased(v)
  BY DEF Current, Unreleased
<1>3. Carried' \ {Root} = Carried \ {Root}
  <2>1. Carried' = Range(queue') \cup UNION {Unreleased(v)' \cup Range(out'[v]) : v \in Workers}
    BY DEF Carried
  <2>2. QED
    BY <1>1, <1>2, <2>1 DEF Carried
<1>4. NodeOf(Root) = {}
  BY Parents
<1>5. \A i : NodeOf(i) # {} => (i \in Carried' <=> i \in Carried)
  BY <1>3, <1>4
<1>6. QED
  BY <1>1, <1>2, <1>5, MovesCount

-----------------------------------------------------------------------------
(* The invariant.                                                          *)

\* Nothing is held and nothing is to be done at the start.
LEMMA PoolStart ==
  ASSUME PInit
  PROVE  /\ Range(queue) = {} /\ Outstanding = {}
         /\ \A w \in Workers : /\ DOMAIN held[w] = {} /\ Len(held[w]) = 0
                               /\ out[w] = <<>> /\ drops[w] = <<>>
                               /\ Range(out[w]) = {}
                               /\ step[w] = "begin" /\ idx[w] = 1
                               /\ Pending(w) = {} /\ Found(w) = {} /\ DealtWith(w) = {}
                               /\ Unreleased(w) = {}
         /\ ToDo = {} /\ Carried = {}
<1>1. queue = <<>> /\ Range(queue) = {}
  <2>1. queue = <<>>
    BY DEF PInit, QInit, greg_queue_init
  <2>2. QED
    BY <2>1 DEF Range
<1>2. \A w \in Workers : /\ held[w] = <<>> /\ DOMAIN held[w] = {} /\ Len(held[w]) = 0
                         /\ Range(held[w]) = {}
                         /\ out[w] = <<>> /\ drops[w] = <<>> /\ Range(out[w]) = {}
                         /\ step[w] = "begin" /\ idx[w] = 1
  BY DEF PInit, QInit, Range
<1>3. \A w \in Workers : /\ Pending(w) = {} /\ Found(w) = {} /\ DealtWith(w) = {}
                         /\ Unreleased(w) = {}
  BY <1>2 DEF Pending, Found, Unread, DealtWith, Unreleased
<1>4. Outstanding = {}
  BY <1>1, <1>2 DEF Outstanding
<1>5. ToDo = {} /\ Carried = {}
  BY <1>1, <1>2, <1>3 DEF ToDo, Carried, Found
<1>6. QED
  BY <1>1, <1>2, <1>3, <1>4, <1>5

\* A pool that starts is a traversal that starts.
LEMMA PoolInitTraversal ==
  ASSUME PInit
  PROVE  Abstract!TInit
<1>1. main = "spawn" /\ handled = {} /\ lost = {}
  BY DEF PInit, QInit
<1>2. QED
  BY <1>1, PoolStart DEF Abstract!TInit, Phase

\* The invariant holds at the start ...
LEMMA PoolInitInv == PInit => PInv
<1> SUFFICES ASSUME PInit PROVE PInv
  OBVIOUS
<1>1. QInit /\ QInv
  BY InitInv DEF PInit
<1>2. Covering!TInv
  <2>1. Covering!TInit
    BY PoolInitTraversal DEF Abstract!TInit, Covering!TInit
  <2>2. QED
    BY <2>1, Covering!TInitInv
<1>3. /\ step = [w \in Workers |-> "begin"] /\ drain = {}
      /\ idx = [w \in Workers |-> 1] /\ pos = [w \in Workers |-> 0]
      /\ out = [w \in Workers |-> <<>>] /\ drops = [w \in Workers |-> <<>>]
      /\ node = [d \in Dirs |-> "none"] /\ ref_count = [d \in Dirs |-> 0]
      /\ match_count = 0 /\ walk_rc = 0 /\ exit_code = Running
      /\ handled = {} /\ lost = {} /\ main = "spawn"
  BY DEF PInit, QInit
<1>4. PTypeOK
  <2>1. PopMax + 1 \in Nat \ {0} /\ 1 \in 1..PopMax + 1
    BY QueueAssumption DEF QueueAssumption
  <2>2. QED
    BY <1>1, <1>3, <2>1 DEF PTypeOK, QInv, Steps
<1>5. \A w \in Workers : Placed(w)
  <2>1. PopMax \in Nat
    BY QueueAssumption DEF QueueAssumption
  <2>2. QED
    BY <1>3, <2>1, PoolStart DEF Placed
<1>6. PoolShape
  <2>1. Fresh /\ Recorded
    BY PoolStart DEF Fresh, Recorded
  <2>2. NodesInOrder /\ Tallied
    BY <1>3 DEF NodesInOrder, Tallied, Running
  <2>3. QED
    BY <1>4, <1>5, <2>1, <2>2 DEF PoolShape
<1>7. ASSUME NEW d \in Dirs
      PROVE  Counts(d)
  <2>1. WalkersOf(d) = {} /\ ItemsUnder(d) = {}
    BY PoolStart DEF WalkersOf, ItemsUnder
  <2>2. NodesUnder(d) = {}
    BY <1>3 DEF NodesUnder
  <2>3. DropsOf(d) = {}
    BY <1>3 DEF DropsOf
  <2>4. Holders(d) = {} /\ IsFiniteSet(Holders(d)) /\ node[d] # "live"
    BY <1>3, <2>1, <2>2, <2>3, NoHolders, FS_EmptySet
  <2>5. QED
    BY <2>4 DEF Counts
<1>8. QED
  BY <1>1, <1>2, <1>6, <1>7 DEF PInv

\* Nothing happens once the process has ended.
LEMMA StutterAdvances ==
  ASSUME PInv, UNCHANGED pvars
  PROVE  Advances /\ \A d \in Dirs : Counts(d)'
<1>1. UNCHANGED <<qvars, queue, active, held, main, step, drain, idx, walkVars, nodeVars,
                  match_count, mainVars, walk_rc, exit_code, handled, lost>>
  BY DEF pvars, qvars, queueVars, mainVars, historyVars
<1>2. \A d \in Dirs : Counts(d)'
  BY <1>1, QuietCounts
<1>3. ToDo' = ToDo /\ Phase' = Phase /\ Outstanding' = Outstanding
  BY <1>1, QuietToDo DEF ToDo, Found, Phase, Outstanding
<1>4. QInv'
  BY <1>1, StepInv DEF PInv
<1>5. Tallied'
  BY <1>1, <1>3 DEF PInv, PoolShape, Tallied, ExitStatus
<1>6. PoolShape'
  BY <1>1, <1>3, <1>4, <1>5, QuietShape DEF PInv, PoolShape, PTypeOK, Fresh
<1>7. QED
  BY <1>1, <1>2, <1>3, <1>6 DEF Advances, Abstract!tvars

\* Every step is one of the queue and one of the traversal.
LEMMA PoolAdvances ==
  ASSUME PInv, [PNext]_pvars
  PROVE  Advances /\ \A d \in Dirs : Counts(d)'
<1>1. CASE PoolInit
  <2>1. /\ UNCHANGED <<held, step, idx, walkVars, nodeVars>>
        /\ queue' = <<>> \/ queue' = queue
        /\ main = "spawn"
    BY <1>1 DEF PoolInit, PoolReady, workerVars, greg_queue_destroy, queueVars
  <2>2. queue = <<>>
    BY <2>1, NothingToDo DEF PInv, QInv, MainStanding
  <2>3. QED
    BY <1>1, <2>1, <2>2, PoolInitAdvances, QuietCounts
<1>2. CASE WalkRoot
  <2>1. UNCHANGED <<held, step, idx, walkVars, nodeVars>> /\ main = "walk"
    BY <1>2 DEF WalkRoot, RootFails, PushRoot, workerVars
  <2>2. queue = <<>> /\ Range(queue) = {}
    BY <2>1, NothingToDo DEF PInv, QInv, MainStanding, Range
  <2>3. Range(queue') \subseteq {Root}
    <3>1. CASE RootFails
      BY <2>2, <3>1 DEF RootFails, queueVars
    <3>2. CASE PushRoot(Root)
      <4>1. PICK kept \in Stored(<<Root>>) : queue' = queue \o kept
        BY <3>2 DEF PushRoot, greg_queue_push, Enqueue
      <4>2. /\ <<Root>> \in Seq(Items) /\ Range(<<Root>>) = {Root} /\ IsInjective(<<Root>>)
        BY PoolAssumption DEF PoolAssumption, Range, IsInjective
      <4>3. kept \in Seq(Items) /\ Range(kept) \subseteq {Root}
        BY <4>2, StoredItems
      <4>4. queue' = kept
        BY <2>2, <4>1, <4>3, ConcatEmptySeq
      <4>5. QED
        BY <4>3, <4>4
    <3>3. QED
      BY <1>2, <3>1, <3>2 DEF WalkRoot
  <2>4. QED
    BY <1>2, <2>1, <2>2, <2>3, WalkRootAdvances, QuietCounts
<1>3. CASE DeactivateQueue
  <2>1. UNCHANGED <<queue, held, step, idx, walkVars, nodeVars>>
    BY <1>3 DEF DeactivateQueue, Deactivate, greg_queue_deactivate, workerVars
  <2>2. QED
    BY <1>3, <2>1, DeactivateAdvances, QuietCounts
<1>4. CASE Finale
  <2>1. /\ UNCHANGED <<held, step, idx, walkVars, nodeVars>> /\ queue' = <<>>
        /\ main = "join" /\ \A v \in Created : state[v] = "exit"
    BY <1>4 DEF Finale, JoinAndDestroy, greg_queue_destroy, workerVars
  <2>2. queue = <<>>
    <3>1. Outstanding = {}
      BY <2>1 DEF PInv, QInv, MainStanding, WorkerStanding, QuiescentShutdown, Created
    <3>2. QED
      BY <3>1, NothingToDo
  <2>3. QED
    BY <1>4, <2>1, <2>2, FinaleAdvances, QuietCounts
<1>5. CASE Stopped
  BY <1>5, StutterAdvances DEF Stopped
<1>6. ASSUME NEW w \in Workers, CreateThread(w) \/ Spurious(w)
      PROVE  Advances /\ \A d \in Dirs : Counts(d)'
  <2>1. UNCHANGED <<queue, held, step, idx, walkVars, nodeVars>>
    BY <1>6 DEF CreateThread, Spurious, StartThread, SpuriousWakeup, queueVars, workerVars
  <2>2. QED
    BY <1>6, <2>1, ThreadAdvances, QuietCounts
<1>7. ASSUME NEW w \in Workers, WorkerNext(w)
      PROVE  Advances /\ \A d \in Dirs : Counts(d)'
  <2>1. CASE Pop(w)
    BY <2>1, PopAdvances, PopCounts
  <2>2. CASE DrainItem(w)
    BY <2>2, DrainItemAdvances, DrainItemCounts
  <2>3. CASE SearchFile(w)
    BY <2>3, SearchFileAdvances, SearchFileCounts
  <2>4. CASE Report(w)
    BY <2>4, ReportAdvances, ReportCounts
  <2>5. CASE Unref(w)
    BY <2>5, UnrefTypes, UnrefAdvances, UnrefCounts
  <2>6. CASE CreateNode(w)
    BY <2>6, CreateNodeAdvances, CreateNodeCounts
  <2>7. CASE OpenDir(w)
    BY <2>7, OpenDirAdvances, OpenDirCounts
  <2>8. CASE ReadEntry(w)
    BY <2>8, ReadEntryAdvances, ReadEntryCounts
  <2>9. CASE Flush(w)
    BY <2>9, FlushAdvances, FlushCounts
  <2>10. CASE CloseDir(w)
    BY <2>10, CloseDirAdvances, CloseDirCounts
  <2>11. QED
    BY <1>7, <2>1, <2>2, <2>3, <2>4, <2>5, <2>6, <2>7, <2>8, <2>9, <2>10 DEF WorkerNext
<1>8. CASE UNCHANGED pvars
  BY <1>8, StutterAdvances
<1>9. QED
  BY <1>1, <1>2, <1>3, <1>4, <1>5, <1>6, <1>7, <1>8 DEF PNext, MainNext

\* ... and after every step.
LEMMA PoolStepInv == PInv /\ [PNext]_pvars => PInv'
<1> SUFFICES ASSUME PInv, [PNext]_pvars PROVE PInv'
  OBVIOUS
<1>1. Advances /\ \A d \in Dirs : Counts(d)'
  BY PoolAdvances
<1>2. QInv'
  BY <1>1, StepInv DEF Advances, PInv
<1>3. Covering!TInv'
  <2>1. [Covering!TNext]_(Covering!tvars)
    BY <1>1
       DEF Advances, Covering!TNext, Abstract!TNext, Covering!tvars, Abstract!tvars,
           Covering!Begin, Abstract!Begin, Covering!Abandon, Abstract!Abandon,
           Covering!Finish, Abstract!Finish, Covering!Handle, Abstract!Handle,
           Covering!Lose, Abstract!Lose
  <2>2. Covering!Tree
    BY TreeAssumption DEF Abstract!Tree, Covering!Tree
  <2>3. QED
    BY <2>1, <2>2, Covering!TStepInv DEF PInv
<1>4. QED
  BY <1>1, <1>2, <1>3 DEF Advances, PInv

-----------------------------------------------------------------------------
(* The theorems.                                                           *)

\* The inductive invariant of a search by any number of workers.
THEOREM PoolInvariant == PSpec => []PInv
<1>1. PInit => PInv
  BY PoolInitInv
<1>2. PInv /\ [PNext]_pvars => PInv'
  BY PoolStepInv
<1>3. QED
  BY <1>1, <1>2, PTL DEF PSpec

\* The pool's variables keep their types; no reference count goes below zero
\* (ignore.c:304-320), and no loop over a batch runs past its array.
THEOREM PoolTypes == PSpec => []PTypeOK
<1>1. PInv => PTypeOK
  BY DEF PInv, PoolShape
<1>2. QED
  BY <1>1, PoolInvariant, PTL

\* The count of a live ignore node is the number of pointers to it, whichever
\* threads hold them (ignore.c:296-320, walk.c:120-230, queue.c:93-140).
THEOREM ExactReferenceCounts == PSpec => []RefCountExact
<1>1. PInv => RefCountExact
  BY DEF PInv, Counts, RefCountExact
<1>2. QED
  BY <1>1, PoolInvariant, PTL

\* No thread has a pointer to an ignore node that has been freed or does not
\* exist yet: no use after free, no double free.
THEOREM NoUseAfterFree == PSpec => []NoDanglingNode
<1>1. PInv => NoDanglingNode
  BY DEF PInv, Counts, NoDanglingNode
<1>2. QED
  BY <1>1, PoolInvariant, PTL

\* The threads use the queue as GregQueue assumes, so that everything proved
\* of the queue in GregQueueProofs holds of the program.
THEOREM PoolUsesQueue == PSpec => ImplementsQueue
<1>1. PInit => QInit
  BY DEF PInit
<1>2. PInv /\ [PNext]_pvars => [QNext]_qvars
  BY PoolAdvances DEF Advances
<1>3. QED
  BY <1>1, <1>2, PoolInvariant, PTL DEF PSpec, ImplementsQueue, QSpec

\* The threads together are a traversal: each item is handled once or given
\* up, and the search is over only when nothing is left to do.
THEOREM PoolTraverses == PSpec => ImplementsTraversal
<1>1. PInit => Abstract!TInit
  BY PoolInitTraversal
<1>2. PInv /\ [PNext]_pvars => [Abstract!TNext]_(Abstract!tvars)
  BY PoolAdvances DEF Advances
<1>3. QED
  BY <1>1, <1>2, PoolInvariant, PTL DEF PSpec, ImplementsTraversal, Abstract!TSpec

\* A search that gave nothing up has searched every file and opened every
\* directory that the ignore rules let through.
THEOREM PoolCovers == PSpec => []FullCoverage
<1>1. ASSUME Covering!TInv, Phase = "done", lost = {}
      PROVE  handled = Items
  <2>1. Root \in handled /\ \A i \in handled : ChildItems[i] \subseteq handled
    BY <1>1 DEF Covering!TInv, Covering!Accounted, Covering!Met
  <2>2. handled \in SUBSET Items
    BY <1>1 DEF Covering!TInv, Covering!TTypeOK
  <2>3. QED
    BY <2>1, <2>2, TreeAssumption DEF Abstract!Connected
<1>2. PInv => FullCoverage
  BY <1>1 DEF PInv, FullCoverage, Abstract!Complete
<1>3. QED
  BY <1>2, PoolInvariant, PTL

\* Nothing is searched twice and nothing is forgotten, whether or not something
\* was given up: an item is to do, handled or lost, and only one of these.
THEOREM PoolAccounts == PSpec => [](Abstract!Separate /\ Abstract!Accounted)
<1>1. PInv => Abstract!Separate /\ Abstract!Accounted
  BY DEF PInv, Covering!TInv, Covering!Separate, Abstract!Separate, Covering!Accounted,
         Abstract!Accounted, Covering!Met, Abstract!Met
<1>2. QED
  BY <1>1, PoolInvariant, PTL

\* When main is at its end, only nodes can hold nodes.
LEMMA AtExit ==
  ASSUME PInv, main = "exit", NEW d \in Dirs, node[d] = "live"
  PROVE  NodesUnder(d) # {}
<1>1. Outstanding = {}
  <2>1. \A w \in Workers : state[w] \notin {"pop", "run"}
    BY DEF PInv, QInv, MainStanding
  <2>2. queue = <<>> /\ \A w \in Workers : held[w] = <<>>
    BY <2>1 DEF PInv, QInv, NoLostWakeup, WorkerStanding
  <2>3. QED
    BY <2>2, OutstandingEmpty DEF PInv, QInv
<1>2. queue = <<>> /\ \A w \in Workers : held[w] = <<>>
  BY <1>1, NothingToDo
<1>3. \A w \in Workers : step[w] = "begin" /\ drops[w] = <<>> /\ out[w] = <<>>
  <2>1. \A w \in Workers : Len(held[w]) = 0 /\ Placed(w)
    BY <1>2 DEF PInv, PoolShape
  <2>2. QED
    BY <2>1 DEF Placed
<1>4. \A w \in Workers : Unreleased(w) = {} /\ Range(out[w]) = {}
  BY <1>2, <1>3 DEF Unreleased, Range
<1>5. Carried = {}
  BY <1>1, <1>4 DEF Carried, Outstanding
<1>6. WalkersOf(d) = {} /\ ItemsUnder(d) = {} /\ DropsOf(d) = {}
  BY <1>3, <1>5 DEF WalkersOf, ItemsUnder, DropsOf
<1>7. Holders(d) # {}
  BY DEF PInv, Counts
<1>8. QED
  BY <1>6, <1>7, NoHolders

\* Nodes that hold each other cannot be left over: each live node would have a
\* live node under it, as many as there are live nodes, so that each of them
\* would also have a live parent, the topmost one included.
LEMMA NoNodeLeft ==
  ASSUME PInv, main = "exit"
  PROVE  \A d \in Dirs : node[d] # "live"
<1> DEFINE L == {d \in Dirs : node[d] = "live"}
           f == [d \in L |-> CHOOSE e \in NodesUnder(d) : TRUE]
<1>1. \A d \in L : f[d] \in NodesUnder(d)
  BY AtExit
<1>2. \A d \in L : f[d] \in L /\ d \in NodeOf(f[d]) /\ f[d] \in Items
  <2> HIDE DEF f
  <2>1. \A d \in L : f[d] \in Dirs /\ node[f[d]] = "live" /\ d \in NodeOf(f[d])
    BY <1>1 DEF NodesUnder
  <2>2. QED
    BY <2>1, Parents
<1>3. f \in Injection(L, L)
  <2>1. f = [d \in L |-> f[d]]
    OBVIOUS
  <2> HIDE DEF f
  <2>2. f \in [L -> L]
    BY <1>2, <2>1
  <2>3. \A d, e \in L : f[d] = f[e] => d = e
    BY <1>2, Parents
  <2> HIDE DEF L
  <2>4. QED
    BY <2>2, <2>3 DEF Injection, IsInjective
<1>4. IsFiniteSet(L)
  <2>1. L \in SUBSET Items
    BY Parents
  <2>2. QED
    BY <2>1, PoolAssumption, FS_Subset DEF PoolAssumption
<1>5. f \in Surjection(L, L)
  <2> HIDE DEF f, L
  <2>1. QED
    BY <1>3, <1>4, FS_Injection
\* The parent of a live node is live.
<1>6. \A e \in L : \E d \in L : d \in NodeOf(e)
  <2>1. \A e \in L : \E d \in L : f[d] = e
    <3> HIDE DEF f, L
    <3>1. QED
      BY <1>5 DEF Surjection
  <2> HIDE DEF f
  <2>2. QED
    BY <1>2, <2>1
<1> DEFINE S == Items \ L
<1>7. Root \in S
  BY <1>6, Parents, PoolAssumption DEF PoolAssumption
<1>8. ASSUME NEW i \in S
      PROVE  ChildItems[i] \subseteq S
  <2>1. CASE i \in Dirs
    <3>1. ASSUME NEW c \in ChildItems[i], c \in L
          PROVE  FALSE
      <4>1. NodeOf(c) = {i}
        BY <2>1, <3>1, Parents
      <4>2. QED
        BY <1>6, <3>1, <4>1
    <3>2. ChildItems[i] \subseteq Items
      BY <2>1, Parents
    <3>3. QED
      BY <3>1, <3>2
  <2>2. CASE i \in Files
    BY <2>2, Parents
  <2>3. QED
    BY <2>1, <2>2, PoolAssumption DEF PoolAssumption
<1>9. S = Items
  <2>1. S \in SUBSET Items
    OBVIOUS
  <2> HIDE DEF S
  <2>2. QED
    BY <1>7, <1>8, <2>1, TreeAssumption DEF Abstract!Connected
<1>10. QED
  <2>1. \A d \in Dirs : d \in Items
    BY Parents
  <2>2. QED
    BY <1>9, <2>1

\* Every ignore node has been freed when the process ends.
THEOREM NodesAllFreed == PSpec => []NodesFreed
<1>1. PInv => NodesFreed
  BY NoNodeLeft DEF PInv, PoolShape, Tallied, NodesFreed
<1>2. QED
  BY <1>1, PoolInvariant, PTL

\* The exit status is 0 exactly when a file that was searched matched, in
\* whichever thread (main.c:301-313).
THEOREM ExitStatusCorrect == PSpec => []ExitStatusRight
<1>1. ASSUME PInv, exit_code # Running
      PROVE  exit_code = 0 <=> \E f \in Files \cap handled : Matches[f] > 0
  <2>1. /\ exit_code = IF walk_rc # 0 \/ match_count = 0 THEN 1 ELSE 0
        /\ walk_rc # 0 => handled = {}
        /\ match_count > 0 <=> \E f \in Files \cap handled : Matches[f] > 0
        /\ match_count \in Nat
    BY <1>1 DEF PInv, PoolShape, PTypeOK, Tallied, ExitStatus
  <2>2. match_count = 0 <=> ~(match_count > 0)
    BY <2>1
  <2>3. QED
    BY <2>1, <2>2
<1>2. PInv => ExitStatusRight
  BY <1>1 DEF ExitStatusRight
<1>3. QED
  BY <1>2, PoolInvariant, PTL

=============================================================================
