-------------------------- MODULE SlabQueueProofs --------------------------
(***************************************************************************)
(* The memory of the work queue for any number of workers and items and    *)
(* any size of a slab: the linked list holds the queue, every node that    *)
(* was cut from a slab is on one of the two lists, and the queue with its  *)
(* nodes is used as GregQueue says.                                        *)
(***************************************************************************)
EXTENDS SlabQueue, GregQueueProofs, WellFoundedInduction

Lists ==
  [head : Nodes \cup {NULL}, tail : Nodes \cup {NULL}, free_list : Nodes \cup {NULL},
   slabs : Nat, used : 0..SlabSize,
   next : [Nodes -> Nodes \cup {NULL}], item : [Nodes -> Items \cup {NoItem}]]

\* Linked for a chain of m nodes.
Path(l, n, c, m) ==
  /\ n = IF m = 0 THEN NULL ELSE c[1]
  /\ \A k \in 1..m : l.next[c[k]] = IF k = m THEN NULL ELSE c[k + 1]

Different(c, m) == \A i, k \in 1..m : c[i] = c[k] => i = k

\* The m nodes of c hold the items of q and are linked from head to tail, the
\* j nodes of f are those given back, and the nodes of X are in the hands of
\* the operation.
Holding(l, q, c, m, f, j, X) ==
  /\ m \in Nat /\ c \in [1..m -> Nodes] /\ Different(c, m)
  /\ j \in Nat /\ f \in [1..j -> Nodes] /\ Different(f, j)
  /\ \A i \in 1..m, k \in 1..j : c[i] # f[k]
  /\ Path(l, l.head, c, m)
  /\ Path(l, l.free_list, f, j)
  /\ l.tail = IF m = 0 THEN NULL ELSE c[m]
  /\ Len(q) = m
  /\ \A k \in 1..m : l.item[c[k]] = q[k]

Accounted(l, c, m, f, j, X) ==
  /\ \A x \in X : (\A i \in 1..m : c[i] # x) /\ (\A k \in 1..j : f[k] # x)
  /\ {c[i] : i \in 1..m} \cup {f[k] : k \in 1..j} \cup X = 1..Cut(l)
  /\ l.slabs = 0 => l.used = 0

Kept(l, q, c, m, f, j, X) ==
  l \in Lists /\ Holding(l, q, c, m, f, j, X) /\ Accounted(l, c, m, f, j, X)

Good(l, q) ==
  \E m, j \in Nat : \E c \in [1..m -> Nodes] : \E f \in [1..j -> Nodes] :
    Kept(l, q, c, m, f, j, {})

\* Some nodes are left for the items that are not queued.
LEMMA NodesAre ==
  /\ Cardinality(Items) \in Nat
  /\ Nodes = 1..Cardinality(Items)
  /\ NULL \notin Nodes
  /\ SlabSize \in Nat \ {0}
  BY SlabAssumption, FS_CardinalityType DEF SlabAssumption, Nodes, NULL

\* The number of the nodes cut.
LEMMA CutType ==
  ASSUME NEW l \in Lists
  PROVE  Cut(l) \in Nat
<1>1. l.slabs \in Nat /\ l.used \in Nat
  BY NodesAre DEF Lists
<1>2. CASE l.slabs # 0
  <2>1. l.slabs - 1 \in Nat
    BY <1>1, <1>2
  <2>2. SlabSize * (l.slabs - 1) \in Nat
    BY <2>1, NodesAre
  <2> QED BY <1>1, <2>2 DEF Cut
<1> QED BY <1>2 DEF Cut

\* alloc_node hands out a node that is on neither list.
LEMMA AllocKept ==
  ASSUME NEW l, NEW q, NEW c, NEW m, NEW f, NEW j, Kept(l, q, c, m, f, j, {}),
         m < Cardinality(Items)
  PROVE  \E k, g, a, n : /\ alloc_node(l) = <<n, a>> /\ n \in Nodes
                         /\ Kept(a, q, c, m, g, k, {n})
<1> USE NodesAre
<1>1. CASE j # 0
  <2> DEFINE n == f[1]
             g == [i \in 1..j - 1 |-> f[i + 1]]
             a == [l EXCEPT !.free_list = l.next[n]]
  <2>1. j \in Nat /\ j >= 1 /\ 1 \in 1..j /\ l.free_list = n /\ n \in Nodes /\ n # NULL
    BY <1>1 DEF Kept, Holding, Path
  <2>2. alloc_node(l) = <<n, a>>
    BY <2>1 DEF alloc_node
  <2>3. l.next[n] = IF j = 1 THEN NULL ELSE f[2]
    BY <2>1 DEF Kept, Holding, Path
  <2>4. l.next[n] \in Nodes \cup {NULL}
    BY <2>1 DEF Kept, Lists
  <2>5. /\ a \in Lists
        /\ a.free_list = l.next[n] /\ a.head = l.head /\ a.tail = l.tail
        /\ a.slabs = l.slabs /\ a.used = l.used /\ a.next = l.next /\ a.item = l.item
    <3> HIDE DEF n
    <3> QED BY <2>4 DEF Kept, Lists
  <2>6. \A i \in 1..j - 1 : i + 1 \in 1..j /\ g[i] = f[i + 1]
    BY <2>1
  <2>7. /\ j - 1 \in Nat /\ g \in [1..j - 1 -> Nodes] /\ Different(g, j - 1)
        /\ \A i \in 1..m, k \in 1..j - 1 : c[i] # g[k]
        /\ \A k \in 1..j - 1 : g[k] # n
    <3>1. j - 1 \in Nat /\ g \in [1..j - 1 -> Nodes]
      BY <2>1, <2>6 DEF Kept, Holding
    <3>2. Different(g, j - 1)
      <4> SUFFICES ASSUME NEW i \in 1..j - 1, NEW k \in 1..j - 1, g[i] = g[k]
                   PROVE  i = k
        BY DEF Different
      <4>1. f[i + 1] = f[k + 1]
        BY <2>6
      <4>2. i + 1 = k + 1
        BY <2>6, <4>1 DEF Kept, Holding, Different
      <4> QED BY <2>1, <4>2
    <3>3. \A i \in 1..m, k \in 1..j - 1 : c[i] # g[k]
      BY <2>6 DEF Kept, Holding
    <3>4. ASSUME NEW k \in 1..j - 1 PROVE g[k] # n
      <4>1. k + 1 # 1 /\ k + 1 \in 1..j /\ 1 \in 1..j
        BY <2>1
      <4> QED BY <2>6, <4>1 DEF Kept, Holding, Different
    <3> QED BY <3>1, <3>2, <3>3, <3>4
  <2>8. Path(a, a.free_list, g, j - 1)
    <3>1. a.free_list = IF j - 1 = 0 THEN NULL ELSE g[1]
      BY <2>1, <2>3, <2>5, <2>6
    <3>2. ASSUME NEW k \in 1..j - 1
          PROVE  a.next[g[k]] = IF k = j - 1 THEN NULL ELSE g[k + 1]
      <4>1. l.next[f[k + 1]] = IF k + 1 = j THEN NULL ELSE f[(k + 1) + 1]
        BY <2>6 DEF Kept, Holding, Path
      <4>2. CASE k = j - 1
        BY <2>1, <2>5, <2>6, <4>1, <4>2
      <4>3. CASE k # j - 1
        <5>1. k + 1 \in 1..j - 1 /\ k + 1 # j
          BY <2>1, <4>3
        <5>2. g[k + 1] = f[(k + 1) + 1]
          BY <2>6, <5>1
        <5> QED BY <2>5, <2>6, <4>1, <4>3, <5>1, <5>2
      <4> QED BY <4>2, <4>3
    <3> QED BY <3>1, <3>2 DEF Path
  <2>9. Path(a, a.head, c, m)
    BY <2>5 DEF Kept, Holding, Path
  <2>10. Holding(a, q, c, m, g, j - 1, {n})
    <3> HIDE DEF a, g, n
    <3> QED BY <2>5, <2>7, <2>8, <2>9 DEF Kept, Holding
  <2>11. Accounted(a, c, m, g, j - 1, {n})
    <3>1. Cut(a) = Cut(l)
      BY <2>5 DEF Cut
    <3>2. {f[k] : k \in 1..j} = {g[k] : k \in 1..j - 1} \cup {n}
      <4>1. ASSUME NEW k \in 1..j PROVE f[k] \in {g[i] : i \in 1..j - 1} \cup {n}
        <5>1. CASE k = 1
          BY <5>1
        <5>2. CASE k # 1
          <6>1. k - 1 \in 1..j - 1 /\ (k - 1) + 1 = k
            BY <2>1, <5>2
          <6>2. g[k - 1] = f[k]
            BY <2>6, <6>1
          <6> HIDE DEF g
          <6> QED BY <6>1, <6>2
        <5> QED BY <5>1, <5>2
      <4>2. \A i \in 1..j - 1 : g[i] \in {f[k] : k \in 1..j}
        BY <2>6
      <4> QED BY <2>1, <4>1, <4>2
    <3>3. \A i \in 1..m : c[i] # n
      BY <2>1 DEF Kept, Holding
    <3> HIDE DEF a, g, n
    <3> QED BY <2>5, <2>7, <3>1, <3>2, <3>3 DEF Kept, Accounted
  <2> QED BY <2>1, <2>2, <2>5, <2>10, <2>11 DEF Kept
<1>2. CASE j = 0
  <2> DEFINE a == IF NeedsSlab(l) THEN [l EXCEPT !.slabs = @ + 1, !.used = 0] ELSE l
             n == SlabSize * (a.slabs - 1) + a.used + 1
             b == [a EXCEPT !.used = @ + 1]
  <2>1. l \in Lists /\ l.free_list = NULL /\ l.slabs \in Nat /\ l.used \in 0..SlabSize
    BY <1>2 DEF Kept, Holding, Path, Lists
  <2>2. alloc_node(l) = <<n, b>>
    BY <2>1 DEF alloc_node
  <2>3. Cut(l) = m
    <3>1. Range(c) = 1..Cut(l)
      <4>1. 1..j = {} /\ DOMAIN c = 1..m
        BY <1>2 DEF Kept, Holding
      <4> QED BY <4>1 DEF Kept, Accounted, Range
    <3>2. m \in Nat /\ c \in Seq(Nodes) /\ IsInjective(c) /\ Len(c) = m
      <4>1. m \in Nat /\ c \in [1..m -> Nodes] /\ Different(c, m)
        BY DEF Kept, Holding
      <4>2. c \in Seq(Nodes) /\ DOMAIN c = 1..m
        BY <4>1, SeqDef
      <4> QED BY <4>1, <4>2, LenProperties DEF IsInjective, Different
    <3>3. Cardinality(1..Cut(l)) = Cut(l)
      BY <2>1, CutType, FS_Interval
    <3> QED BY <3>1, <3>2, <3>3, InjectiveCardinality
  <2>4. /\ a \in Lists /\ a.slabs \in Nat \ {0} /\ a.used \in 0..SlabSize - 1
        /\ a.head = l.head /\ a.tail = l.tail /\ a.free_list = l.free_list
        /\ a.next = l.next /\ a.item = l.item
        /\ SlabSize * (a.slabs - 1) + a.used = Cut(l)
    <3>1. CASE ~NeedsSlab(l)
      BY <2>1, <3>1 DEF NeedsSlab, Cut
    <3>2. CASE NeedsSlab(l)
      <4>1. /\ a = [l EXCEPT !.slabs = @ + 1, !.used = 0]
            /\ a \in Lists /\ a.slabs = l.slabs + 1 /\ a.used = 0
            /\ a.head = l.head /\ a.tail = l.tail /\ a.free_list = l.free_list
            /\ a.next = l.next /\ a.item = l.item
        <5>1. a = [l EXCEPT !.slabs = @ + 1, !.used = 0]
          BY <3>2
        <5>2. l.slabs + 1 \in Nat /\ 0 \in 0..SlabSize
          BY <2>1
        <5> HIDE DEF a
        <5>3. a \in Lists
          BY <2>1, <5>1, <5>2 DEF Lists
        <5>4. a.slabs = l.slabs + 1 /\ a.used = 0
          BY <2>1, <5>1 DEF Lists
        <5> QED BY <2>1, <5>1, <5>3, <5>4 DEF Lists
      <4>2. SlabSize * (a.slabs - 1) = Cut(l)
        <5>1. CASE l.slabs = 0
          BY <4>1, <5>1 DEF Cut
        <5>2. CASE l.slabs # 0
          <6>1. l.used = SlabSize
            BY <2>1, <3>2, <5>2 DEF NeedsSlab
          <6>2. SlabSize * (l.slabs - 1) + SlabSize = SlabSize * l.slabs
            BY <2>1
          <6>3. a.slabs - 1 = l.slabs
            BY <2>1, <4>1
          <6> QED BY <5>2, <6>1, <6>2, <6>3 DEF Cut
        <5> QED BY <5>1, <5>2
      <4>3. SlabSize * (a.slabs - 1) \in Nat
        BY <2>1, <4>2, CutType
      <4> HIDE DEF a
      <4> QED BY <2>1, <4>1, <4>2, <4>3
    <3> HIDE DEF a
    <3> QED BY <3>1, <3>2
  <2>5. n = m + 1 /\ n \in Nodes /\ m \in Nat
    <3>1. m \in Nat
      BY DEF Kept, Holding
    <3> HIDE DEF a
    <3> QED BY <2>3, <2>4, <3>1
  <2>6. /\ b \in Lists /\ b.slabs = a.slabs /\ b.used = a.used + 1
        /\ b.head = l.head /\ b.tail = l.tail /\ b.free_list = l.free_list
        /\ b.next = l.next /\ b.item = l.item
    <3> HIDE DEF a
    <3>1. a.used + 1 \in 0..SlabSize
      BY <2>4
    <3>2. b \in Lists
      BY <2>4, <3>1 DEF Lists
    <3>3. b.used = a.used + 1 /\ b.slabs = a.slabs
      BY <2>4 DEF Lists
    <3>4. /\ b.head = a.head /\ b.tail = a.tail /\ b.free_list = a.free_list
          /\ b.next = a.next /\ b.item = a.item
      BY <2>4 DEF Lists
    <3> HIDE DEF b
    <3> QED BY <2>4, <3>2, <3>3, <3>4
  <2>7. Cut(b) = m + 1
    <3>1. Cut(b) = SlabSize * (a.slabs - 1) + (a.used + 1)
      <4> HIDE DEF a, b
      <4> QED BY <2>4, <2>6 DEF Cut
    <3>2. Cut(l) \in Nat /\ SlabSize * (a.slabs - 1) \in Int
      <4> HIDE DEF a
      <4> QED BY <2>1, <2>4, CutType
    <3> HIDE DEF a, b
    <3> QED BY <2>3, <2>4, <3>1, <3>2
  <2>8. Holding(b, q, c, m, f, j, {n})
    <3> HIDE DEF b
    <3> QED BY <2>6 DEF Kept, Holding, Path
  <2>9. Accounted(b, c, m, f, j, {n})
    <3>1. {c[i] : i \in 1..m} \cup {f[k] : k \in 1..j} = 1..m
      BY <2>3 DEF Kept, Accounted
    <3>2. \A i \in 1..m : c[i] # n
      BY <2>5, <3>1
    <3>3. 1..j = {}
      BY <1>2
    <3>4. 1..m + 1 = (1..m) \cup {n}
      BY <2>5
    <3>5. b.slabs # 0
      <4> HIDE DEF a, b
      <4> QED BY <2>4, <2>6
    <3> HIDE DEF a, b, n
    <3> QED BY <2>7, <3>1, <3>2, <3>3, <3>4, <3>5 DEF Accounted
  <2> QED BY <2>2, <2>5, <2>6, <2>8, <2>9 DEF Kept
<1> QED BY <1>1, <1>2

\* The node that was handed out becomes the last one of the linked list.
LEMMA LinkKept ==
  ASSUME NEW l, NEW q, NEW c, NEW m, NEW f, NEW j, NEW n \in Nodes, NEW it \in Items,
         Kept(l, q, c, m, f, j, {n}),
         NEW p, Len(p) = m + 1, \A k \in 1..m : p[k] = q[k], p[m + 1] = it
  PROVE  \E d \in [1..m + 1 -> Nodes] : Kept(Link(l, n, it), p, d, m + 1, f, j, {})
<1> DEFINE d == [i \in 1..m + 1 |-> IF i = m + 1 THEN n ELSE c[i]]
           a == [l EXCEPT !.item[n] = it, !.next[n] = NULL]
           b == Link(l, n, it)
<1> USE NodesAre
<1>1. /\ m \in Nat /\ c \in [1..m -> Nodes] /\ Different(c, m) /\ l \in Lists
      /\ j \in Nat /\ f \in [1..j -> Nodes] /\ Different(f, j)
      /\ \A i \in 1..m : c[i] # n
      /\ \A k \in 1..j : f[k] # n
      /\ \A i \in 1..m, k \in 1..j : c[i] # f[k]
      /\ l.tail = IF m = 0 THEN NULL ELSE c[m]
      /\ l.head = IF m = 0 THEN NULL ELSE c[1]
      /\ \A k \in 1..m : l.item[c[k]] = q[k]
      /\ \A k \in 1..m : l.next[c[k]] = IF k = m THEN NULL ELSE c[k + 1]
      /\ l.free_list = IF j = 0 THEN NULL ELSE f[1]
      /\ \A k \in 1..j : l.next[f[k]] = IF k = j THEN NULL ELSE f[k + 1]
  BY DEF Kept, Holding, Accounted, Path
<1>2. /\ m + 1 \in Nat /\ d \in [1..m + 1 -> Nodes]
      /\ d[m + 1] = n
      /\ \A i \in 1..m : d[i] = c[i] /\ i \in 1..m + 1
      /\ \A i \in 1..m + 1 : i \in 1..m \/ i = m + 1
  BY <1>1
<1>3. /\ a \in Lists
      /\ a.item = [l.item EXCEPT ![n] = it] /\ a.next = [l.next EXCEPT ![n] = NULL]
      /\ a.head = l.head /\ a.tail = l.tail /\ a.free_list = l.free_list
      /\ a.slabs = l.slabs /\ a.used = l.used
  BY <1>1 DEF Lists
<1>4. /\ b \in Lists
      /\ b.item = a.item /\ b.free_list = l.free_list
      /\ b.slabs = l.slabs /\ b.used = l.used /\ b.tail = n
      /\ b.head = IF m = 0 THEN n ELSE l.head
      /\ b.next = IF m = 0 THEN a.next ELSE [a.next EXCEPT ![c[m]] = n]
  <2>1. CASE m = 0
    <3>1. b = [a EXCEPT !.head = n, !.tail = n]
      BY <1>1, <1>3, <2>1 DEF Link
    <3> HIDE DEF a, b
    <3> QED BY <1>3, <2>1, <3>1 DEF Lists
  <2>2. CASE m # 0
    <3>1. l.tail = c[m] /\ c[m] \in Nodes /\ c[m] # NULL
      BY <1>1, <2>2
    <3>2. b = [a EXCEPT !.next[c[m]] = n, !.tail = n]
      BY <1>3, <3>1 DEF Link
    <3> HIDE DEF a, b
    <3> QED BY <1>3, <2>2, <3>1, <3>2 DEF Lists
  <2> QED BY <2>1, <2>2
<1>5. /\ b.next[n] = NULL
      /\ m # 0 => b.next[c[m]] = n
      /\ \A x \in Nodes : x # n /\ (m # 0 => x # c[m]) => b.next[x] = l.next[x]
      /\ b.item[n] = it
      /\ \A x \in Nodes : x # n => b.item[x] = l.item[x]
  <2>1. l.next \in [Nodes -> Nodes \cup {NULL}] /\ l.item \in [Nodes -> Items \cup {NoItem}]
    BY <1>1 DEF Lists
  <2>2. m # 0 => c[m] \in Nodes /\ c[m] # n
    BY <1>1
  <2> HIDE DEF a, b
  <2> QED BY <1>3, <1>4, <2>1, <2>2
<1> HIDE DEF a, b, d
<1>6. Different(d, m + 1)
  <2> SUFFICES ASSUME NEW i \in 1..m + 1, NEW k \in 1..m + 1, d[i] = d[k]
               PROVE  i = k
    BY DEF Different
  <2>1. CASE i \in 1..m /\ k \in 1..m
    <3>1. c[i] = c[k]
      BY <1>2, <2>1
    <3> QED BY <1>1, <2>1, <3>1 DEF Different
  <2>2. CASE i = m + 1
    <3>1. ~(k \in 1..m)
      BY <1>1, <1>2, <2>2
    <3> QED BY <1>2, <2>2, <3>1
  <2>3. CASE k = m + 1
    <3>1. ~(i \in 1..m)
      BY <1>1, <1>2, <2>3
    <3> QED BY <1>2, <2>3, <3>1
  <2> QED BY <1>2, <2>1, <2>2, <2>3
<1>7. Path(b, b.head, d, m + 1)
  <2>1. b.head = d[1]
    <3>1. CASE m = 0
      BY <1>2, <1>4, <3>1
    <3>2. CASE m # 0
      <4>1. 1 \in 1..m
        BY <1>1, <3>2
      <4> QED BY <1>1, <1>2, <1>4, <3>2, <4>1
    <3> QED BY <3>1, <3>2
  <2>2. ASSUME NEW k \in 1..m + 1
        PROVE  b.next[d[k]] = IF k = m + 1 THEN NULL ELSE d[k + 1]
    <3>1. CASE k = m + 1
      BY <1>2, <1>5, <3>1
    <3>2. CASE k = m /\ m # 0
      <4>1. k \in 1..m /\ k # m + 1 /\ k + 1 = m + 1
        BY <1>1, <3>2
      <4> QED BY <1>2, <1>5, <3>2, <4>1
    <3>3. CASE k \in 1..m /\ k # m
      <4>1. k + 1 \in 1..m /\ k # m + 1 /\ k + 1 # m + 1 /\ m \in 1..m /\ m # 0
        BY <1>1, <3>3
      <4>2. c[k] # c[m] /\ c[k] \in Nodes /\ c[k] # n
        BY <1>1, <3>3, <4>1 DEF Different
      <4>3. b.next[c[k]] = l.next[c[k]]
        BY <1>5, <4>2
      <4> QED BY <1>1, <1>2, <3>3, <4>1, <4>3
    <3> QED BY <1>1, <1>2, <3>1, <3>2, <3>3
  <2>3. m + 1 # 0
    BY <1>1
  <2> QED BY <2>1, <2>2, <2>3 DEF Path
<1>8. Path(b, b.free_list, f, j)
  <2>1. \A k \in 1..j : f[k] \in Nodes /\ f[k] # n /\ (m # 0 => f[k] # c[m])
    BY <1>1
  <2>2. \A k \in 1..j : b.next[f[k]] = l.next[f[k]]
    BY <1>5, <2>1
  <2> QED BY <1>1, <1>4, <2>2 DEF Path
<1>9. Holding(b, p, d, m + 1, f, j, {})
  <2>1. \A i \in 1..m + 1, k \in 1..j : d[i] # f[k]
    BY <1>1, <1>2
  <2>2. \A k \in 1..m + 1 : b.item[d[k]] = p[k]
    <3>1. ASSUME NEW k \in 1..m PROVE b.item[d[k]] = p[k]
      <4>1. d[k] = c[k] /\ c[k] \in Nodes /\ c[k] # n
        BY <1>1, <1>2
      <4>2. b.item[c[k]] = l.item[c[k]]
        BY <1>5, <4>1
      <4> QED BY <1>1, <4>1, <4>2
    <3> QED BY <1>2, <1>5, <3>1
  <2>3. b.tail = IF m + 1 = 0 THEN NULL ELSE d[m + 1]
    BY <1>1, <1>2, <1>4
  <2> QED BY <1>1, <1>2, <1>6, <1>7, <1>8, <2>1, <2>2, <2>3 DEF Holding
<1>10. Accounted(b, d, m + 1, f, j, {})
  <2>1. {d[i] : i \in 1..m + 1} = {c[i] : i \in 1..m} \cup {n}
    <3>1. \A i \in 1..m + 1 : d[i] \in {c[k] : k \in 1..m} \cup {n}
      BY <1>2
    <3>2. \A i \in 1..m : c[i] \in {d[k] : k \in 1..m + 1}
      BY <1>2
    <3>3. m + 1 \in 1..m + 1
      BY <1>1
    <3> QED BY <1>2, <3>1, <3>2, <3>3
  <2>2. Cut(b) = Cut(l)
    BY <1>4 DEF Cut
  <2> QED BY <1>4, <2>1, <2>2 DEF Kept, Accounted
<1> QED BY <1>2, <1>4, <1>9, <1>10 DEF Kept, b

\* The first node leaves the linked list for the free list.
LEMMA UnlinkKept ==
  ASSUME NEW l, NEW q, Good(l, q), Len(q) # 0,
         NEW p, Len(p) = Len(q) - 1, \A k \in 1..Len(p) : p[k] = q[k + 1]
  PROVE  Good(Unlink(l), p)
<1> USE NodesAre
<1>0. PICK m \in Nat, j \in Nat : \E c \in [1..m -> Nodes] : \E f \in [1..j -> Nodes] :
        Kept(l, q, c, m, f, j, {})
  BY DEF Good
<1>00. PICK c \in [1..m -> Nodes], f \in [1..j -> Nodes] : Kept(l, q, c, m, f, j, {})
  BY <1>0
<1> DEFINE n == c[1]
           d == [i \in 1..m - 1 |-> c[i + 1]]
           g == [i \in 1..j + 1 |-> IF i = 1 THEN n ELSE f[i - 1]]
           first == l.next[n]
           a == [l EXCEPT !.head = first, !.tail = IF first = NULL THEN NULL ELSE @]
           b == Unlink(l)
<1>1. /\ l \in Lists /\ Different(c, m) /\ Different(f, j)
      /\ \A i \in 1..m, k \in 1..j : c[i] # f[k]
      /\ l.tail = IF m = 0 THEN NULL ELSE c[m]
      /\ l.head = IF m = 0 THEN NULL ELSE c[1]
      /\ \A k \in 1..m : l.item[c[k]] = q[k]
      /\ \A k \in 1..m : l.next[c[k]] = IF k = m THEN NULL ELSE c[k + 1]
      /\ l.free_list = IF j = 0 THEN NULL ELSE f[1]
      /\ \A k \in 1..j : l.next[f[k]] = IF k = j THEN NULL ELSE f[k + 1]
      /\ m = Len(q)
  BY <1>00 DEF Kept, Holding, Accounted, Path
<1>2. /\ m - 1 \in Nat /\ 1 \in 1..m /\ m \in 1..m /\ n \in Nodes /\ n # NULL
      /\ d \in [1..m - 1 -> Nodes]
      /\ \A i \in 1..m - 1 : i + 1 \in 1..m /\ d[i] = c[i + 1]
      /\ \A i \in 1..m : i = 1 \/ (i - 1 \in 1..m - 1 /\ (i - 1) + 1 = i)
  BY <1>1
<1>3. /\ j + 1 \in Nat /\ g \in [1..j + 1 -> Nodes] /\ g[1] = n
      /\ \A i \in 1..j + 1 : i = 1 \/ (i - 1 \in 1..j /\ g[i] = f[i - 1])
      /\ \A i \in 1..j : i + 1 \in 1..j + 1 /\ g[i + 1] = f[i]
  BY <1>2
<1>4. first = IF m = 1 THEN NULL ELSE c[2]
  BY <1>1, <1>2
<1>5. first \in Nodes \cup {NULL} /\ (first = NULL <=> m = 1)
  <2>1. CASE m = 1
    BY <1>4, <2>1
  <2>2. CASE m # 1
    <3>1. 2 \in 1..m
      BY <1>2, <2>2
    <3>2. c[2] \in Nodes
      BY <3>1
    <3> QED BY <1>4, <2>2, <3>2
  <2> QED BY <2>1, <2>2
<1>6. /\ a \in Lists
      /\ a.head = first /\ a.tail = IF m = 1 THEN NULL ELSE l.tail
      /\ a.free_list = l.free_list /\ a.slabs = l.slabs /\ a.used = l.used
      /\ a.next = l.next /\ a.item = l.item
  <2> HIDE DEF first
  <2> QED BY <1>1, <1>5 DEF Lists
<1>7. b = [a EXCEPT !.next[n] = a.free_list, !.item[n] = NoItem, !.free_list = n]
  BY <1>1, <1>2 DEF Unlink, free_node
<1>8. /\ b \in Lists
      /\ b.head = first /\ b.tail = a.tail /\ b.free_list = n
      /\ b.slabs = l.slabs /\ b.used = l.used
      /\ b.next = [l.next EXCEPT ![n] = l.free_list]
      /\ b.item = [l.item EXCEPT ![n] = NoItem]
  <2>1. a.free_list \in Nodes \cup {NULL}
    BY <1>6 DEF Lists
  <2> HIDE DEF a, b, n, first
  <2> QED BY <1>2, <1>6, <1>7, <2>1 DEF Lists
<1>9. /\ b.next[n] = l.free_list
      /\ \A x \in Nodes : x # n => b.next[x] = l.next[x] /\ b.item[x] = l.item[x]
  <2>1. l.next \in [Nodes -> Nodes \cup {NULL}] /\ l.item \in [Nodes -> Items \cup {NoItem}]
    BY <1>1 DEF Lists
  <2> HIDE DEF b, n
  <2> QED BY <1>2, <1>8, <2>1
<1> HIDE DEF a, b, d, g, first, n
<1>10. /\ \A i \in 1..m - 1 : d[i] # n /\ d[i] \in Nodes
       /\ \A k \in 1..j : f[k] # n /\ f[k] \in Nodes
  <2>1. ASSUME NEW i \in 1..m - 1 PROVE d[i] # n
    <3>1. i + 1 # 1 /\ i + 1 \in 1..m
      BY <1>2
    <3> QED BY <1>1, <1>2, <3>1 DEF Different, n
  <2>2. \A k \in 1..j : f[k] # n
    BY <1>1, <1>2 DEF n
  <2> QED BY <1>2, <2>1, <2>2
<1>11. Different(d, m - 1)
  <2> SUFFICES ASSUME NEW i \in 1..m - 1, NEW k \in 1..m - 1, d[i] = d[k]
               PROVE  i = k
    BY DEF Different
  <2>1. i + 1 = k + 1
    BY <1>1, <1>2 DEF Different
  <2> QED BY <2>1
<1>12. Different(g, j + 1)
  <2> SUFFICES ASSUME NEW i \in 1..j + 1, NEW k \in 1..j + 1, g[i] = g[k]
               PROVE  i = k
    BY DEF Different
  <2>1. CASE i = 1
    BY <1>3, <1>10, <2>1
  <2>2. CASE i # 1
    <3>1. i - 1 \in 1..j /\ k - 1 \in 1..j /\ f[i - 1] = f[k - 1]
      BY <1>3, <1>10, <2>2
    <3>2. i - 1 = k - 1
      BY <1>1, <3>1 DEF Different
    <3> QED BY <3>2
  <2> QED BY <2>1, <2>2
<1>13. Path(b, b.head, d, m - 1)
  <2>1. b.head = IF m - 1 = 0 THEN NULL ELSE d[1]
    <3>1. CASE m = 1
      BY <1>4, <1>8, <3>1
    <3>2. CASE m # 1
      <4>1. 1 \in 1..m - 1 /\ m - 1 # 0
        BY <1>2, <3>2
      <4> QED BY <1>2, <1>4, <1>8, <3>2, <4>1
    <3> QED BY <3>1, <3>2
  <2>2. ASSUME NEW k \in 1..m - 1
        PROVE  b.next[d[k]] = IF k = m - 1 THEN NULL ELSE d[k + 1]
    <3>1. b.next[d[k]] = l.next[c[k + 1]]
      BY <1>2, <1>9, <1>10
    <3>2. l.next[c[k + 1]] = IF k + 1 = m THEN NULL ELSE c[(k + 1) + 1]
      BY <1>1, <1>2
    <3>3. CASE k = m - 1
      BY <1>2, <3>1, <3>2, <3>3
    <3>4. CASE k # m - 1
      <4>1. k + 1 \in 1..m - 1 /\ k + 1 # m
        BY <1>2, <3>4
      <4> QED BY <1>2, <3>1, <3>2, <3>4, <4>1
    <3> QED BY <3>3, <3>4
  <2> QED BY <2>1, <2>2 DEF Path
<1>14. Path(b, b.free_list, g, j + 1)
  <2>1. b.free_list = g[1] /\ j + 1 # 0
    BY <1>3, <1>8
  <2>2. ASSUME NEW k \in 1..j + 1
        PROVE  b.next[g[k]] = IF k = j + 1 THEN NULL ELSE g[k + 1]
    <3>1. CASE k = 1
      <4>1. b.next[g[k]] = IF j = 0 THEN NULL ELSE f[1]
        BY <1>1, <1>3, <1>9, <3>1
      <4>2. j # 0 => 1 \in 1..j /\ g[1 + 1] = f[1]
        BY <1>3
      <4> QED BY <3>1, <4>1, <4>2
    <3>2. CASE k # 1
      <4>1. k - 1 \in 1..j /\ g[k] = f[k - 1] /\ (k - 1) + 1 = k
        BY <1>3, <3>2
      <4>2. b.next[g[k]] = l.next[f[k - 1]]
        BY <1>9, <1>10, <4>1
      <4>3. l.next[f[k - 1]] = IF k - 1 = j THEN NULL ELSE f[k]
        BY <1>1, <4>1
      <4>4. CASE k = j + 1
        BY <4>2, <4>3, <4>4
      <4>5. CASE k # j + 1
        <5>1. k \in 1..j /\ k - 1 # j
          BY <3>2, <4>1, <4>5
        <5> QED BY <1>3, <4>2, <4>3, <4>5, <5>1
      <4> QED BY <4>4, <4>5
    <3> QED BY <3>1, <3>2
  <2> QED BY <2>1, <2>2 DEF Path
<1>15. Holding(b, p, d, m - 1, g, j + 1, {})
  <2>1. \A i \in 1..m - 1, k \in 1..j + 1 : d[i] # g[k]
    <3>1. ASSUME NEW i \in 1..m - 1, NEW k \in 1..j + 1 PROVE d[i] # g[k]
      <4>1. CASE k = 1
        BY <1>3, <1>10, <4>1
      <4>2. CASE k # 1
        <5>1. k - 1 \in 1..j /\ g[k] = f[k - 1] /\ i + 1 \in 1..m /\ d[i] = c[i + 1]
          BY <1>2, <1>3, <4>2
        <5> QED BY <1>1, <5>1
      <4> QED BY <4>1, <4>2
    <3> QED BY <3>1
  <2>2. b.tail = IF m - 1 = 0 THEN NULL ELSE d[m - 1]
    <3>1. CASE m = 1
      BY <1>6, <1>8, <3>1
    <3>2. CASE m # 1
      <4>1. m - 1 \in 1..m - 1 /\ (m - 1) + 1 = m /\ m - 1 # 0 /\ m # 0
        BY <1>2, <3>2
      <4> QED BY <1>1, <1>2, <1>6, <1>8, <3>2, <4>1
    <3> QED BY <3>1, <3>2
  <2>3. ASSUME NEW k \in 1..m - 1
        PROVE  b.item[d[k]] = p[k]
    <3>1. b.item[d[k]] = l.item[c[k + 1]]
      BY <1>2, <1>9, <1>10
    <3> QED BY <1>1, <1>2, <3>1
  <2> QED BY <1>1, <1>2, <1>3, <1>11, <1>12, <1>13, <1>14, <2>1, <2>2, <2>3 DEF Holding
<1>16. Accounted(b, d, m - 1, g, j + 1, {})
  <2>1. {c[i] : i \in 1..m} = {d[i] : i \in 1..m - 1} \cup {n}
    <3>1. ASSUME NEW i \in 1..m PROVE c[i] \in {d[k] : k \in 1..m - 1} \cup {n}
      <4>1. CASE i = 1
        BY <4>1 DEF n
      <4>2. CASE i # 1
        <5>1. i - 1 \in 1..m - 1 /\ d[i - 1] = c[i]
          BY <1>2, <4>2
        <5> QED BY <5>1
      <4> QED BY <4>1, <4>2
    <3>2. \A i \in 1..m - 1 : d[i] \in {c[k] : k \in 1..m}
      BY <1>2
    <3> QED BY <1>2, <3>1, <3>2 DEF n
  <2>2. {g[i] : i \in 1..j + 1} = {f[i] : i \in 1..j} \cup {n}
    <3>1. \A i \in 1..j + 1 : g[i] \in {f[k] : k \in 1..j} \cup {n}
      BY <1>3
    <3>2. \A i \in 1..j : f[i] \in {g[k] : k \in 1..j + 1}
      BY <1>3
    <3>3. 1 \in 1..j + 1
      OBVIOUS
    <3> QED BY <1>3, <3>1, <3>2, <3>3
  <2>3. Cut(b) = Cut(l)
    BY <1>8 DEF Cut
  <2> QED BY <1>00, <1>8, <2>1, <2>2, <2>3 DEF Kept, Accounted
<1>17. Kept(b, p, d, m - 1, g, j + 1, {})
  BY <1>8, <1>15, <1>16 DEF Kept
<1> QED BY <1>2, <1>3, <1>17 DEF Good, b

-----------------------------------------------------------------------------
(* The loops.                                                              *)

\* There is a node for one more item.
LEMMA RoomForOne ==
  ASSUME NEW q \in Seq(Items), IsInjective(q), NEW it \in Items, it \notin Range(q)
  PROVE  Len(q) < Cardinality(Items)
<1>1. IsFiniteSet(Range(q)) /\ Cardinality(Range(q)) = Len(q) /\ Len(q) \in Nat
  BY InjectiveCardinality, LenProperties
<1>2. /\ IsFiniteSet(Range(q) \cup {it})
      /\ Cardinality(Range(q) \cup {it}) = Cardinality(Range(q)) + 1
  BY <1>1, FS_AddElement
<1>3. Range(q) \subseteq Items
  <2>1. DOMAIN q = 1..Len(q) /\ \A i \in 1..Len(q) : q[i] \in Items
    BY LenProperties
  <2> QED BY <2>1 DEF Range
<1>4. IsFiniteSet(Items) /\ Range(q) \cup {it} \subseteq Items
  BY <1>3, SlabAssumption DEF SlabAssumption
<1>5. Cardinality(Range(q) \cup {it}) <= Cardinality(Items)
  BY <1>4, FS_Subset
<1> QED BY <1>1, <1>2, <1>5, NodesAre

\* One item more, or what was there before.
LEMMA StoreKept ==
  ASSUME NEW r, NEW q \in Seq(Items), NEW it \in Items, IsInjective(q), it \notin Range(q),
         Good(r.list, q), NEW x \in Store(r, it)
  PROVE  x = r \/ (x.kept = Append(r.kept, it) /\ Good(x.list, Append(q, it)))
<1>1. Len(q) \in Nat /\ Len(q) < Cardinality(Items)
  BY RoomForOne, LenProperties
<1>2. PICK m \in Nat, j \in Nat : \E c \in [1..m -> Nodes] : \E f \in [1..j -> Nodes] :
        Kept(r.list, q, c, m, f, j, {})
  BY DEF Good
<1>3. PICK c \in [1..m -> Nodes], f \in [1..j -> Nodes] : Kept(r.list, q, c, m, f, j, {})
  BY <1>2
<1>4. m = Len(q)
  BY <1>3 DEF Kept, Holding
<1>5. PICK k, g, a, n : /\ alloc_node(r.list) = <<n, a>> /\ n \in Nodes
                        /\ Kept(a, q, c, m, g, k, {n})
  BY <1>1, <1>3, <1>4, AllocKept
<1> DEFINE p == Append(q, it)
<1>6. Len(p) = m + 1 /\ (\A i \in 1..m : p[i] = q[i]) /\ p[m + 1] = it
  BY <1>4, AppendProperties
<1>7. Good(Link(a, n, it), p)
  <2>1. k \in Nat /\ g \in [1..k -> Nodes]
    BY <1>5 DEF Kept, Holding
  <2>2. PICK d \in [1..m + 1 -> Nodes] : Kept(Link(a, n, it), p, d, m + 1, g, k, {})
    <3> HIDE DEF p
    <3> QED BY <1>5, <1>6, LinkKept
  <2>3. m + 1 \in Nat
    BY <1>2
  <2> HIDE DEF p
  <2> QED BY <2>1, <2>2, <2>3 DEF Good
<1>8. x = r \/ x = [list |-> Link(a, n, it), kept |-> Append(r.kept, it)]
  <2>1. alloc_node(r.list)[1] = n /\ alloc_node(r.list)[2] = a
    BY <1>5
  <2> QED BY <2>1 DEF Store
<1> QED BY <1>7, <1>8

\* The states of the push loop, by the number of its rounds.
StoreRounds(items) ==
  CHOOSE f : f = [k \in 0..Len(items) |->
    IF k = 0 THEN {[list |-> list, kept |-> <<>>]}
    ELSE UNION {Store(r, items[k]) : r \in f[k - 1]}]

\* The recursion has a solution, so that the rounds follow it.
LEMMA StoreRoundsAre ==
  ASSUME NEW items, Len(items) \in Nat
  PROVE  /\ StoreRounds(items)[0] = {[list |-> list, kept |-> <<>>]}
         /\ \A k \in 1..Len(items) :
              StoreRounds(items)[k] =
                UNION {Store(r, items[k]) : r \in StoreRounds(items)[k - 1]}
<1> DEFINE N == Len(items)
           start == {[list |-> list, kept |-> <<>>]}
           next(k, R) == UNION {Store(r, items[k]) : r \in R}
           P(f) == f = [k \in 0..N |-> IF k = 0 THEN start ELSE next(k, f[k - 1])]
           Upto(f, n) == f[0] = start /\ \A i \in 1..n : f[i] = next(i, f[i - 1])
           Bad == {n \in 0..N : ~\E f : f = [i \in 0..N |-> f[i]] /\ Upto(f, n)}
<1> HIDE DEF next
<1>1. Bad = {}
  <2> SUFFICES ASSUME Bad # {} PROVE FALSE
    OBVIOUS
  <2>1. PICK n \in Bad : \A m \in Bad : ~(<<m, n>> \in OpToRel(<, Nat))
    <3>1. Bad \subseteq Nat
      OBVIOUS
    <3> HIDE DEF Bad
    <3> QED BY <3>1, WFMin, NatLessThanWellFounded
  <2>2. n # 0
    <3> DEFINE f == [i \in 0..N |-> start]
    <3>1. f = [i \in 0..N |-> f[i]] /\ Upto(f, 0)
      OBVIOUS
    <3> HIDE DEF Upto, f
    <3> QED BY <3>1
  <2>3. n - 1 \in 0..N /\ n - 1 \notin Bad
    <3>1. n - 1 \in 0..N
      BY <2>2
    <3>2. <<n - 1, n>> \in OpToRel(<, Nat)
      BY <3>1 DEF OpToRel
    <3> HIDE DEF Bad
    <3> QED BY <2>1, <3>1, <3>2
  <2>4. PICK f : f = [i \in 0..N |-> f[i]] /\ Upto(f, n - 1)
    BY <2>3
  <2> DEFINE g == [i \in 0..N |-> IF i = n THEN next(n, f[n - 1]) ELSE f[i]]
  <2>5. /\ n \in 1..N
        /\ \A i \in 0..n - 1 : g[i] = f[i]
        /\ g[n] = next(n, f[n - 1])
    BY <2>2
  <2>6. Upto(g, n)
    <3>1. g[0] = start
      BY <2>4, <2>5
    <3>2. ASSUME NEW i \in 1..n PROVE g[i] = next(i, g[i - 1])
      <4>1. CASE i = n
        BY <2>5, <4>1
      <4>2. CASE i # n
        <5>1. i \in 1..n - 1 /\ i \in 0..n - 1 /\ i - 1 \in 0..n - 1
          BY <4>2
        <5>2. g[i] = f[i] /\ g[i - 1] = f[i - 1]
          BY <2>5, <5>1
        <5> HIDE DEF g
        <5> QED BY <2>4, <5>1, <5>2
      <4> QED BY <4>1, <4>2
    <3> HIDE DEF g
    <3> QED BY <3>1, <3>2
  <2>7. g = [i \in 0..N |-> g[i]]
    OBVIOUS
  <2> HIDE DEF Upto, g
  <2> QED BY <2>6, <2>7
<1>2. PICK f : f = [i \in 0..N |-> f[i]] /\ Upto(f, N)
  <2>1. N \in 0..N
    OBVIOUS
  <2> HIDE DEF Upto
  <2> QED BY <1>1, <2>1
<1>3. P(f)
  BY <1>2
<1>4. StoreRounds(items) = CHOOSE h : P(h)
  BY DEF StoreRounds, next
<1>5. P(StoreRounds(items))
  <2> HIDE DEF P
  <2> QED BY <1>3, <1>4
<1>6. ASSUME NEW h, P(h)
      PROVE  h[0] = start /\ \A k \in 1..N : h[k] = next(k, h[k - 1])
  <2>1. ASSUME NEW k \in 1..N
        PROVE  k \in 0..N /\ k # 0
    OBVIOUS
  <2>2. 0 \in 0..N
    OBVIOUS
  <2> HIDE DEF N, start
  <2> QED BY <1>6, <2>1, <2>2
<1>7. /\ StoreRounds(items)[0] = start
      /\ \A k \in 1..N : StoreRounds(items)[k] = next(k, StoreRounds(items)[k - 1])
  <2> HIDE DEF P
  <2> QED BY <1>5, <1>6
<1> QED BY <1>7 DEF next

\* One new element more.
LEMMA AppendOne ==
  ASSUME NEW S, NEW q \in Seq(S), NEW k \in Seq(S), NEW e \in S,
         IsInjective(k), e \notin Range(k)
  PROVE  /\ Append(q \o k, e) = q \o Append(k, e)
         /\ Append(k, e) \in Seq(S)
         /\ Range(Append(k, e)) = Range(k) \cup {e}
         /\ IsInjective(Append(k, e))
<1>1. <<e>> \in Seq(S) /\ IsInjective(<<e>>) /\ Range(<<e>>) = {e}
  <2>1. <<e>> \in Seq(S)
    OBVIOUS
  <2>2. IsInjective(<<e>>) /\ Range(<<e>>) = {e}
    BY DEF IsInjective, Range
  <2> QED BY <2>1, <2>2
<1>2. Append(k, e) = k \o <<e>>
  BY AppendIsConcat
<1>3. q \o k \in Seq(S)
  BY ConcatProperties
<1>4. Append(q \o k, e) = (q \o k) \o <<e>>
  BY <1>3, AppendIsConcat
<1>5. (q \o k) \o <<e>> = q \o (k \o <<e>>)
  BY <1>1, ConcatAssociative
<1>6. k \o <<e>> \in Seq(S)
  BY <1>1, ConcatProperties
<1>7. Range(k \o <<e>>) = Range(k) \cup {e}
  <2> DEFINE t == <<e>>
  <2>1. t \in Seq(S) /\ Range(t) = {e}
    BY <1>1
  <2> HIDE DEF t
  <2>2. Range(k \o t) = Range(k) \cup Range(t)
    BY <2>1, RangeConcatenation
  <2> QED BY <2>1, <2>2 DEF t
<1>8. IsInjective(k \o <<e>>)
  BY <1>1, JoinInjective
<1> QED BY <1>2, <1>4, <1>5, <1>6, <1>7, <1>8

\* Whatever a push stores, the nodes hold the queue that comes of it.
LEMMA StoresKept ==
  ASSUME Good(list, queue), queue \in Seq(Items), IsInjective(queue),
         NEW N \in Nat, NEW items \in [1..N -> Items \ Range(queue)], IsInjective(items),
         NEW s \in Stores(items)
  PROVE  Good(s.list, queue \o s.kept)
<1> DEFINE Right(r, k) == /\ r.kept \in Seq(Items)
                          /\ IsInjective(r.kept)
                          /\ Range(r.kept) \subseteq {items[i] : i \in 1..k}
                          /\ Good(r.list, queue \o r.kept)
           Rounds == StoreRounds(items)
           Bad == {k \in 0..N : ~\A r \in Rounds[k] : Right(r, k)}
<1>1. /\ Len(items) = N /\ DOMAIN items = 1..N
      /\ \A k \in 1..N : items[k] \in Items /\ items[k] \notin Range(queue)
      /\ \A i, k \in 1..N : items[i] = items[k] => i = k
  <2>1. items \in Seq(Items)
    BY SeqDef
  <2> QED BY <2>1, LenProperties DEF IsInjective
<1>2. /\ Rounds[0] = {[list |-> list, kept |-> <<>>]}
      /\ \A k \in 1..N : Rounds[k] = UNION {Store(r, items[k]) : r \in Rounds[k - 1]}
  BY <1>1, StoreRoundsAre
<1> HIDE DEF Rounds
<1>3. ASSUME NEW r \in Rounds[0] PROVE Right(r, 0)
  <2>1. r.list = list /\ r.kept = <<>>
    BY <1>2
  <2>2. <<>> \in Seq(Items) /\ DOMAIN <<>> = {} /\ Len(<<>>) = 0
    BY EmptySeq
  <2>3. queue \o <<>> = queue
    BY ConcatEmptySeq
  <2> QED BY <2>1, <2>2, <2>3 DEF IsInjective, Range
<1>4. ASSUME NEW k \in 1..N, \A r \in Rounds[k - 1] : Right(r, k - 1), NEW x \in Rounds[k]
      PROVE  Right(x, k)
  <2>1. PICK r \in Rounds[k - 1] : x \in Store(r, items[k])
    BY <1>2
  <2> DEFINE q == queue \o r.kept
             it == items[k]
  <2>2. Right(r, k - 1)
    BY <1>4
  <2>3. it \in Items /\ it \notin Range(queue) /\ it \notin Range(r.kept)
    <3>1. it \notin {items[i] : i \in 1..k - 1}
      BY <1>1
    <3> QED BY <1>1, <2>2, <3>1
  <2>4. q \in Seq(Items) /\ IsInjective(q) /\ it \notin Range(q)
    <3>1. Range(queue) \cap Range(r.kept) = {}
      <4>1. \A i \in 1..k - 1 : items[i] \notin Range(queue)
        BY <1>1
      <4> QED BY <2>2, <4>1
    <3>2. q \in Seq(Items) /\ Range(q) = Range(queue) \cup Range(r.kept)
      BY <2>2, ConcatProperties, RangeConcatenation
    <3> QED BY <2>2, <2>3, <3>1, <3>2, JoinInjective
  <2>5. x = r \/ (x.kept = Append(r.kept, it) /\ Good(x.list, Append(q, it)))
    <3> HIDE DEF q
    <3>1. Good(r.list, q)
      BY <2>2 DEF q
    <3> QED BY <2>1, <2>3, <2>4, <3>1, StoreKept
  <2>6. {items[i] : i \in 1..k} = {items[i] : i \in 1..k - 1} \cup {it}
    <3>1. \A i \in 1..k : i \in 1..k - 1 \/ i = k
      OBVIOUS
    <3>2. k \in 1..k /\ \A i \in 1..k - 1 : i \in 1..k
      OBVIOUS
    <3> QED BY <3>1, <3>2
  <2>7. CASE x = r
    BY <2>2, <2>6, <2>7
  <2>8. CASE x.kept = Append(r.kept, it) /\ Good(x.list, Append(q, it))
    <3>0. r.kept \in Seq(Items) /\ IsInjective(r.kept) /\ it \notin Range(r.kept)
      BY <2>2, <2>3
    <3>1. /\ Append(queue \o r.kept, it) = queue \o Append(r.kept, it)
          /\ Append(r.kept, it) \in Seq(Items)
          /\ Range(Append(r.kept, it)) = Range(r.kept) \cup {it}
          /\ IsInjective(Append(r.kept, it))
      <4> HIDE DEF Right, it
      <4> QED BY <2>3, <3>0, AppendOne
    <3>2. Append(q, it) = queue \o x.kept
      <4> HIDE DEF Right, it
      <4> QED BY <2>8, <3>1
    <3>3. /\ x.kept \in Seq(Items)
          /\ Range(x.kept) = Range(r.kept) \cup {it}
          /\ IsInjective(x.kept)
      <4> HIDE DEF Right, it
      <4> QED BY <2>8, <3>1
    <3> HIDE DEF q, it
    <3> QED BY <2>2, <2>6, <2>8, <3>2, <3>3
  <2> QED BY <2>5, <2>7, <2>8
<1>5. Bad = {}
  <2> SUFFICES ASSUME Bad # {} PROVE FALSE
    OBVIOUS
  <2>1. PICK k \in Bad : \A m \in Bad : ~(<<m, k>> \in OpToRel(<, Nat))
    <3>1. Bad \subseteq Nat
      OBVIOUS
    <3> HIDE DEF Bad
    <3> QED BY <3>1, WFMin, NatLessThanWellFounded
  <2>2. CASE k = 0
    <3> HIDE DEF Right
    <3> QED BY <1>3, <2>2
  <2>3. CASE k # 0
    <3>1. k \in 1..N /\ k - 1 \in 0..N
      BY <2>3
    <3>2. <<k - 1, k>> \in OpToRel(<, Nat)
      BY <3>1 DEF OpToRel
    <3>3. k - 1 \notin Bad
      <4> HIDE DEF Bad
      <4> QED BY <2>1, <3>1, <3>2
    <3> HIDE DEF Right
    <3> QED BY <1>4, <3>1, <3>3
  <2> QED BY <2>2, <2>3
<1>6. \E k \in 0..N : s \in Rounds[k]
  <2>1. Stores(items) = IF active THEN Rounds[Len(items)] ELSE Rounds[0]
    BY DEF Stores, StoreRounds, Rounds
  <2> QED BY <1>1, <2>1
<1> HIDE DEF Bad
<1>7. PICK k \in 0..N : s \in Rounds[k]
  BY <1>6
<1>8. Right(s, k)
  <2> HIDE DEF Right
  <2> QED BY <1>5, <1>7 DEF Bad
<1> QED BY <1>8

\* The states of the pop loop, by the number of its rounds.
TakeRounds(n) ==
  CHOOSE f : f = [k \in 0..n |-> IF k = 0 THEN list ELSE Unlink(f[k - 1])]

\* The recursion has a solution, so that the rounds follow it.
LEMMA TakeRoundsAre ==
  ASSUME NEW N \in Nat
  PROVE  /\ TakeRounds(N)[0] = list
         /\ \A k \in 1..N : TakeRounds(N)[k] = Unlink(TakeRounds(N)[k - 1])
<1> DEFINE P(f) == f = [k \in 0..N |-> IF k = 0 THEN list ELSE Unlink(f[k - 1])]
           Upto(f, n) == f[0] = list /\ \A i \in 1..n : f[i] = Unlink(f[i - 1])
           Bad == {n \in 0..N : ~\E f : f = [i \in 0..N |-> f[i]] /\ Upto(f, n)}
<1>1. Bad = {}
  <2> SUFFICES ASSUME Bad # {} PROVE FALSE
    OBVIOUS
  <2>1. PICK n \in Bad : \A m \in Bad : ~(<<m, n>> \in OpToRel(<, Nat))
    <3>1. Bad \subseteq Nat
      OBVIOUS
    <3> HIDE DEF Bad
    <3> QED BY <3>1, WFMin, NatLessThanWellFounded
  <2>2. n # 0
    <3> DEFINE f == [i \in 0..N |-> list]
    <3>1. f = [i \in 0..N |-> f[i]] /\ Upto(f, 0)
      OBVIOUS
    <3> HIDE DEF Upto, f
    <3> QED BY <3>1
  <2>3. n - 1 \in 0..N /\ n - 1 \notin Bad
    <3>1. n - 1 \in 0..N
      BY <2>2
    <3>2. <<n - 1, n>> \in OpToRel(<, Nat)
      BY <3>1 DEF OpToRel
    <3> HIDE DEF Bad
    <3> QED BY <2>1, <3>1, <3>2
  <2>4. PICK f : f = [i \in 0..N |-> f[i]] /\ Upto(f, n - 1)
    BY <2>3
  <2> DEFINE g == [i \in 0..N |-> IF i = n THEN Unlink(f[n - 1]) ELSE f[i]]
  <2>5. /\ n \in 1..N
        /\ \A i \in 0..n - 1 : g[i] = f[i]
        /\ g[n] = Unlink(f[n - 1])
    BY <2>2
  <2>6. Upto(g, n)
    <3>1. g[0] = list
      BY <2>4, <2>5
    <3>2. ASSUME NEW i \in 1..n PROVE g[i] = Unlink(g[i - 1])
      <4>1. CASE i = n
        BY <2>5, <4>1
      <4>2. CASE i # n
        <5>1. i \in 1..n - 1 /\ i \in 0..n - 1 /\ i - 1 \in 0..n - 1
          BY <4>2
        <5>2. g[i] = f[i] /\ g[i - 1] = f[i - 1]
          BY <2>5, <5>1
        <5> HIDE DEF g
        <5> QED BY <2>4, <5>1, <5>2
      <4> QED BY <4>1, <4>2
    <3> HIDE DEF g
    <3> QED BY <3>1, <3>2
  <2>7. g = [i \in 0..N |-> g[i]]
    OBVIOUS
  <2> HIDE DEF Upto, g
  <2> QED BY <2>6, <2>7
<1>2. PICK f : f = [i \in 0..N |-> f[i]] /\ Upto(f, N)
  <2>1. N \in 0..N
    OBVIOUS
  <2> HIDE DEF Upto
  <2> QED BY <1>1, <2>1
<1>3. P(f)
  <2>1. \A k \in 0..N : k = 0 \/ k \in 1..N
    OBVIOUS
  <2>2. \A k \in 0..N : f[k] = IF k = 0 THEN list ELSE Unlink(f[k - 1])
    BY <1>2, <2>1
  <2> QED BY <1>2, <2>2
<1>4. P(TakeRounds(N))
  <2>1. TakeRounds(N) = CHOOSE h : P(h)
    BY DEF TakeRounds
  <2> HIDE DEF P
  <2> QED BY <1>3, <2>1
<1>5. ASSUME NEW h, P(h)
      PROVE  h[0] = list /\ \A k \in 1..N : h[k] = Unlink(h[k - 1])
  <2>1. ASSUME NEW k \in 1..N
        PROVE  k \in 0..N /\ k # 0
    OBVIOUS
  <2>2. 0 \in 0..N
    OBVIOUS
  <2> QED BY <1>5, <2>1, <2>2
<1> HIDE DEF P
<1> QED BY <1>4, <1>5

\* Taking items from the front takes their nodes.
LEMMA TakeKept ==
  ASSUME Good(list, queue), queue \in Seq(Items), NEW N \in 0..Len(queue), TakeNodes(N)
  PROVE  Good(list', SubSeq(queue, N + 1, Len(queue)))
<1> DEFINE Left(k) == SubSeq(queue, k + 1, Len(queue))
           Rounds == TakeRounds(N)
           Bad == {k \in 0..N : ~Good(Rounds[k], Left(k))}
<1>1. Len(queue) \in Nat /\ N \in Nat /\ \A i \in 1..Len(queue) : queue[i] \in Items
  BY LenProperties
<1>2. \A k \in 0..N : /\ Len(Left(k)) = Len(queue) - k
                      /\ \A i \in 1..Len(queue) - k : Left(k)[i] = queue[k + i]
  <2> SUFFICES ASSUME NEW k \in 0..N
               PROVE  /\ Len(Left(k)) = Len(queue) - k
                      /\ \A i \in 1..Len(queue) - k : Left(k)[i] = queue[k + i]
    OBVIOUS
  <2>1. \A i \in (k + 1)..Len(queue) : queue[i] \in Items
    BY <1>1
  <2>2. /\ Len(Left(k)) = IF k + 1 <= Len(queue) THEN Len(queue) - (k + 1) + 1 ELSE 0
        /\ \A i \in 1..Len(queue) - (k + 1) + 1 : Left(k)[i] = queue[(k + 1) + i - 1]
    BY <1>1, <2>1, SubSeqProperties
  <2> HIDE DEF Left
  <2> QED BY <1>1, <2>2
<1>3. Left(0) = queue
  <2>1. /\ Left(0) \in Seq(Items)
        /\ Len(Left(0)) = Len(queue) /\ \A i \in 1..Len(queue) : Left(0)[i] = queue[i]
    <3>1. SubSeq(queue, 0 + 1, Len(queue)) \in Seq(Items)
      BY <1>1, SubSeqProperties
    <3>2. 0 \in 0..N
      BY <1>1
    <3>3. Len(Left(0)) = Len(queue) - 0
      BY <1>2, <3>2
    <3>4. \A i \in 1..Len(queue) - 0 : Left(0)[i] = queue[0 + i]
      BY <1>2, <3>2
    <3> HIDE DEF Left
    <3> QED BY <1>1, <3>1, <3>3, <3>4 DEF Left
  <2> HIDE DEF Left
  <2> QED BY <2>1, LenProperties
<1> HIDE DEF Left
<1>4. Rounds[0] = list /\ \A k \in 1..N : Rounds[k] = Unlink(Rounds[k - 1])
  BY <1>1, TakeRoundsAre
<1>5. list' = Rounds[N]
  BY DEF TakeNodes, TakeRounds
<1> HIDE DEF Rounds
<1>6. Bad = {}
  <2> SUFFICES ASSUME Bad # {} PROVE FALSE
    OBVIOUS
  <2>1. PICK k \in Bad : \A m \in Bad : ~(<<m, k>> \in OpToRel(<, Nat))
    <3>1. Bad \subseteq Nat
      BY <1>1
    <3> HIDE DEF Bad
    <3> QED BY <3>1, WFMin, NatLessThanWellFounded
  <2>2. k # 0
    BY <1>3, <1>4
  <2>3. k \in 1..N /\ k - 1 \in 0..N
    BY <1>1, <2>2
  <2>4. <<k - 1, k>> \in OpToRel(<, Nat)
    BY <1>1, <2>3 DEF OpToRel
  <2>5. Good(Rounds[k - 1], Left(k - 1))
    <3>1. k - 1 \notin Bad
      <4> HIDE DEF Bad
      <4> QED BY <2>1, <2>3, <2>4
    <3> QED BY <2>3, <3>1
  <2>6. /\ Len(Left(k - 1)) = Len(queue) - (k - 1) /\ Len(Left(k)) = Len(queue) - k
        /\ \A i \in 1..Len(Left(k)) : Left(k)[i] = Left(k - 1)[i + 1]
    <3>1. /\ Len(Left(k - 1)) = Len(queue) - (k - 1) /\ Len(Left(k)) = Len(queue) - k
      BY <1>2, <2>3
    <3>2. ASSUME NEW i \in 1..Len(queue) - k PROVE Left(k)[i] = Left(k - 1)[i + 1]
      <4>1. i + 1 \in 1..Len(queue) - (k - 1) /\ (k - 1) + (i + 1) = k + i
        BY <1>1, <2>3
      <4>2. Left(k - 1)[i + 1] = queue[(k - 1) + (i + 1)]
        BY <1>2, <2>3, <4>1
      <4>3. Left(k)[i] = queue[k + i]
        BY <1>2, <2>3
      <4> QED BY <4>1, <4>2, <4>3
    <3> QED BY <3>1, <3>2
  <2>7. Len(Left(k - 1)) # 0 /\ Len(Left(k)) = Len(Left(k - 1)) - 1
    BY <1>1, <2>3, <2>6
  <2>8. Good(Unlink(Rounds[k - 1]), Left(k))
    BY <2>5, <2>6, <2>7, UnlinkKept
  <2>9. Good(Rounds[k], Left(k))
    BY <1>4, <2>3, <2>8
  <2> QED BY <2>9
<1>7. Good(Rounds[N], Left(N))
  BY <1>1, <1>6
<1> QED BY <1>5, <1>7 DEF Left

-----------------------------------------------------------------------------
(* The operations.                                                         *)

\* No node was cut yet, or all slabs were freed with the nodes in them.
LEMMA EmptyKept == Good(EmptyList, <<>>)
<1> DEFINE c == <<>>
<1>1. EmptyList \in Lists
  BY NodesAre DEF EmptyList, Lists
<1>2. c \in [1..0 -> Nodes] /\ Different(c, 0) /\ Len(c) = 0
  BY DEF Different
<1>3. 1..0 = {}
  OBVIOUS
<1>4. Path(EmptyList, NULL, c, 0)
  BY <1>3 DEF Path
<1>5. EmptyList.head = NULL /\ EmptyList.tail = NULL /\ EmptyList.free_list = NULL
      /\ EmptyList.slabs = 0 /\ EmptyList.used = 0 /\ Cut(EmptyList) = 0
  BY DEF EmptyList, Cut
<1>6. Holding(EmptyList, <<>>, c, 0, c, 0, {})
  <2> HIDE DEF c
  <2> QED BY <1>2, <1>3, <1>4, <1>5 DEF Holding
<1>7. Accounted(EmptyList, c, 0, c, 0, {})
  <2> HIDE DEF c
  <2> QED BY <1>3, <1>5 DEF Accounted
<1>8. Kept(EmptyList, <<>>, c, 0, c, 0, {})
  <2> HIDE DEF c
  <2> QED BY <1>1, <1>6, <1>7 DEF Kept
<1>9. 0 \in Nat
  OBVIOUS
<1> HIDE DEF c
<1> QED BY <1>2, <1>8, <1>9 DEF Good

\* Every step keeps the nodes in accord with the queue.
LEMMA StepKept ==
  ASSUME QInv, Good(list, queue), [SNext]_svars
  PROVE  Good(list', queue')
<1>1. queue \in Seq(Items) /\ Len(queue) \in Nat /\ IsInjective(queue)
  BY LenProperties DEF QInv, QTypeOK, HandedOutOnce
<1>2. ASSUME NEW N \in Nat, NEW items \in [1..N -> Items \ Range(queue)],
             IsInjective(items), StorePushed(items)
      PROVE  Good(list', queue')
  <2>1. PICK s \in Stores(items) : list' = s.list /\ queue' = queue \o s.kept
    BY <1>2 DEF StorePushed
  <2> QED BY <1>1, <1>2, <2>1, StoresKept
<1>3. ASSUME NEW item \in Items, SPushRoot(item)
      PROVE  Good(list', queue')
  <2>1. item \notin Range(queue)
    BY <1>3 DEF SPushRoot, PushRoot, QInv, MainStanding, Outstanding
  <2>2. <<item>> \in [1..1 -> Items \ Range(queue)] /\ IsInjective(<<item>>)
    BY <2>1 DEF IsInjective
  <2> QED BY <1>2, <1>3, <2>2 DEF SPushRoot
<1>4. ASSUME NEW w \in Workers, SPushBatch(w)
      PROVE  Good(list', queue')
  <2>1. PICK n \in 1..PushMax : \E items \in [1..n -> Items \ Outstanding] :
          IsInjective(items) /\ StorePushed(items)
    BY <1>4 DEF SPushBatch
  <2>2. PICK items \in [1..n -> Items \ Outstanding] :
          IsInjective(items) /\ StorePushed(items)
    BY <2>1
  <2>3. items \in [1..n -> Items \ Range(queue)] /\ n \in Nat
    BY <2>2, QueueAssumption DEF Outstanding, QueueAssumption
  <2> QED BY <1>2, <2>2, <2>3
<1>5. ASSUME NEW w \in Workers, SPopBatch(w)
      PROVE  Good(list', queue')
  <2>1. TakeNodes(Len(queue) - Len(queue'))
    BY <1>5 DEF SPopBatch
  <2>2. PICK N \in 0..Len(queue) : queue' = SubSeq(queue, N + 1, Len(queue))
    <3>1. PICK max \in 1..PopMax : greg_queue_pop_batch(w, max)
      BY <1>5 DEF SPopBatch, PopBatch
    <3>2. CASE queue' = queue
      <4>1. queue = SubSeq(queue, 0 + 1, Len(queue))
        BY <1>1
      <4>2. 0 \in 0..Len(queue)
        BY <1>1
      <4> QED BY <3>2, <4>1, <4>2
    <3>3. CASE Take(w, Batch(max))
      <4>1. Batch(max) \in 0..Len(queue)
        BY <1>1, QueueAssumption DEF Batch, QueueAssumption
      <4> QED BY <3>3, <4>1 DEF Take
    <3> QED BY <3>1, <3>2, <3>3 DEF greg_queue_pop_batch, queueVars
  <2>3. Len(queue') = Len(queue) - N
    BY <1>1, <2>2, CutSequence
  <2>4. Len(queue) - Len(queue') = N
    BY <1>1, <2>3
  <2> QED BY <1>1, <2>1, <2>2, <2>4, TakeKept
<1>6. CASE SJoinAndDestroy
  BY <1>6, EmptyKept DEF SJoinAndDestroy, JoinAndDestroy, greg_queue_destroy
<1>7. CASE SPoolReady
  <2>1. CASE Created = {}
    BY <1>7, <2>1, EmptyKept DEF SPoolReady, PoolReady, greg_queue_destroy
  <2>2. CASE Created # {}
    BY <1>7, <2>2 DEF SPoolReady, PoolReady, queueVars
  <2> QED BY <2>1, <2>2
<1>8. CASE UNCHANGED list /\ UNCHANGED queue
  BY <1>8
<1>9. CASE /\ UNCHANGED list
           /\ \/ RootFails \/ Deactivate \/ Exited
              \/ \E w \in Workers : StartThread(w) \/ TasksDone(w) \/ SpuriousWakeup(w)
  BY <1>9 DEF RootFails, Deactivate, Exited, StartThread, TasksDone, SpuriousWakeup,
     greg_queue_deactivate, greg_queue_tasks_done, queueVars, qvars
<1> QED BY <1>3, <1>4, <1>5, <1>6, <1>7, <1>8, <1>9 DEF SNext, svars, qvars

\* Beside its nodes the queue does nothing that it may not do, so that every
\* theorem about GregQueue holds of it.
LEMMA QueueKept == SSpec => QSpec
<1>1. SInit => QInit
  BY DEF SInit
<1>2. [SNext]_svars => [QNext]_qvars
  BY DEF SNext, svars, QNext, SPoolReady, SJoinAndDestroy, SPushRoot, SPushBatch, SPopBatch
<1> QED BY <1>1, <1>2, PTL DEF SSpec, QSpec

\* Such a chain is one in the sense of the properties.
LEMMA ChainsAre ==
  ASSUME NEW l, NEW n, NEW m \in Nat, NEW c \in [1..m -> Nodes], Different(c, m),
         Path(l, n, c, m)
  PROVE  c \in Chains /\ Linked(l, n, c) /\ Len(c) = m /\ (c = <<>> <=> m = 0)
         /\ DOMAIN c = 1..m
<1>1. c \in Seq(Nodes) /\ Len(c) = m /\ DOMAIN c = 1..m /\ (c = <<>> <=> m = 0)
  <2>1. c \in Seq(Nodes)
    BY SeqDef
  <2>2. Len(c) = m /\ DOMAIN c = 1..m
    BY <2>1, LenProperties
  <2> QED BY <2>1, <2>2, EmptySeq
<1>2. IsInjective(c)
  BY <1>1 DEF IsInjective, Different
<1>3. m <= Cardinality(Nodes) /\ Cardinality(Nodes) \in Nat
  <2>1. IsFiniteSet(Nodes) /\ Cardinality(Nodes) \in Nat
    BY NodesAre, FS_Interval, FS_CardinalityType
  <2>2. Range(c) \subseteq Nodes
    BY <1>1 DEF Range
  <2>3. Cardinality(Range(c)) = m
    BY <1>1, <1>2, InjectiveCardinality
  <2> QED BY <2>1, <2>2, <2>3, FS_Subset
<1>4. c \in Chains
  BY <1>2, <1>3 DEF Chains
<1> QED BY <1>1, <1>4 DEF Linked, Path

\* The invariant is what the two properties say.
LEMMA GoodMeans ==
  ASSUME Good(list, queue), queue \in Seq(Items)
  PROVE  ListIsQueue /\ NodesAccounted
<1>1. PICK m \in Nat, j \in Nat : \E c \in [1..m -> Nodes] : \E f \in [1..j -> Nodes] :
        Kept(list, queue, c, m, f, j, {})
  BY DEF Good
<1>2. PICK c \in [1..m -> Nodes], f \in [1..j -> Nodes] : Kept(list, queue, c, m, f, j, {})
  BY <1>1
<1>0. /\ Different(c, m) /\ Path(list, list.head, c, m)
      /\ Different(f, j) /\ Path(list, list.free_list, f, j)
  BY <1>2 DEF Kept, Holding
<1>3. /\ c \in Chains /\ Linked(list, list.head, c) /\ Len(c) = m /\ (c = <<>> <=> m = 0)
      /\ DOMAIN c = 1..m
  BY <1>0, ChainsAre
<1>4. f \in Chains /\ Linked(list, list.free_list, f) /\ DOMAIN f = 1..j
  BY <1>0, ChainsAre
<1>5. ListIsQueue
  <2>1. queue = [k \in DOMAIN c |-> list.item[c[k]]]
    <3>1. queue \in [1..m -> Items]
      BY <1>2, LenProperties DEF Kept, Holding
    <3>2. \A k \in 1..m : queue[k] = list.item[c[k]]
      BY <1>2 DEF Kept, Holding
    <3> QED BY <1>3, <3>1, <3>2
  <2>2. list.tail = IF c = <<>> THEN NULL ELSE c[Len(c)]
    BY <1>2, <1>3 DEF Kept, Holding
  <2> QED BY <1>3, <2>1, <2>2 DEF ListIsQueue
<1>6. NodesAccounted
  <2>1. Range(c) \cap Range(f) = {}
    BY <1>2, <1>3, <1>4 DEF Kept, Holding, Range
  <2>2. Range(c) \cup Range(f) = 1..Cut(list)
    BY <1>2, <1>3, <1>4 DEF Kept, Accounted, Range
  <2> QED BY <1>3, <1>4, <2>1, <2>2 DEF NodesAccounted
<1> QED BY <1>5, <1>6

\* The nodes are always in accord with the queue.
THEOREM NodesInvariant == SSpec => [](QInv /\ Good(list, queue))
<1>1. SInit => Good(list, queue)
  BY EmptyKept DEF SInit, QInit, greg_queue_init
<1>2. SSpec => []QInv
  BY QueueKept, QueueInvariant, PTL
<1>3. QInv /\ Good(list, queue) /\ [SNext]_svars => Good(list, queue)'
  BY StepKept
<1> QED BY <1>1, <1>2, <1>3, PTL DEF SSpec

\* The linked list is the queue, whatever was popped, recycled and refused
\* before, for any number of items and any size of a slab (queue.c:9-30, 89-92,
\* 147-154).
THEOREM ListHoldsQueue == SSpec => []ListIsQueue
<1>1. QInv /\ Good(list, queue) => ListIsQueue
  BY GoodMeans DEF QInv, QTypeOK
<1> QED BY <1>1, NodesInvariant, PTL

\* No node is lost, or handed out while it is in use (queue.c:9-30).
THEOREM NoNodeLost == SSpec => []NodesAccounted
<1>1. QInv /\ Good(list, queue) => NodesAccounted
  BY GoodMeans DEF QInv, QTypeOK
<1> QED BY <1>1, NodesInvariant, PTL

-----------------------------------------------------------------------------
(* The nodes alone.                                                        *)

LEMMA Least ==
  ASSUME NEW S, S \subseteq Nat, S # {}
  PROVE  \E m \in S : \A n \in S : m <= n
<1>1. PICK m \in S : \A n \in S : ~(<<n, m>> \in OpToRel(<, Nat))
  BY WFMin, NatLessThanWellFounded
<1>2. ASSUME NEW n \in S PROVE m <= n
  <2>1. ~(n < m)
    BY <1>1 DEF OpToRel
  <2> QED BY <2>1
<1> QED BY <1>2

LEMMA ChainIs ==
  ASSUME NEW c \in Chains
  PROVE  /\ Len(c) \in Nat /\ c \in [1..Len(c) -> Nodes] /\ DOMAIN c = 1..Len(c)
         /\ c = <<>> <=> Len(c) = 0
<1>1. PICK k \in 0..Cardinality(Nodes) : c \in [1..k -> Nodes]
  BY DEF Chains
<1>2. Cardinality(Nodes) = Cardinality(Items)
  BY NodesAre, FS_Interval
<1>3. k \in Nat /\ c \in Seq(Nodes) /\ Len(c) = k
  BY <1>1, <1>2, NodesAre
<1> QED BY <1>1, <1>3, EmptySeq

\* What one chain meets, the other meets at the same place.
LEMMA ChainBegins ==
  ASSUME NEW l, NEW n, NEW c \in Chains, NEW d \in Chains, Linked(l, n, c), Linked(l, n, d)
  PROVE  \A k \in 1..Len(c) : k <= Len(d) /\ c[k] = d[k]
<1> DEFINE Bad == {k \in 1..Len(c) : ~(k <= Len(d) /\ c[k] = d[k])}
<1> SUFFICES ASSUME Bad # {} PROVE FALSE
  OBVIOUS
<1>1. /\ Len(c) \in Nat /\ c \in [1..Len(c) -> Nodes] /\ DOMAIN c = 1..Len(c)
      /\ Len(d) \in Nat /\ d \in [1..Len(d) -> Nodes] /\ DOMAIN d = 1..Len(d)
      /\ c = <<>> <=> Len(c) = 0
      /\ d = <<>> <=> Len(d) = 0
  BY ChainIs
<1>2. PICK k \in Bad : \A m \in Bad : k <= m
  <2>1. Bad \subseteq Nat
    BY <1>1
  <2> HIDE DEF Bad
  <2> QED BY <2>1, Least
<1>3. k \in 1..Len(c) /\ ~(k <= Len(d) /\ c[k] = d[k])
  BY <1>2
<1>4. c[k] \in Nodes /\ c[k] # NULL
  BY <1>1, <1>3, NodesAre
<1>5. CASE k = 1
  <2>1. c # <<>> /\ n = c[1]
    BY <1>1, <1>3 DEF Linked
  <2>2. d # <<>> /\ n = d[1]
    BY <1>4, <1>5, <2>1 DEF Linked
  <2> QED BY <1>1, <1>3, <1>5, <2>1, <2>2
<1>6. CASE k # 1
  <2>1. k - 1 \in 1..Len(c) /\ ~(k <= k - 1) /\ k - 1 # Len(c) /\ (k - 1) + 1 = k
    BY <1>1, <1>3, <1>6
  <2>2. k - 1 <= Len(d) /\ c[k - 1] = d[k - 1]
    <3>1. k - 1 \notin Bad
      <4> HIDE DEF Bad
      <4> QED BY <1>2, <2>1
    <3> QED BY <2>1, <3>1
  <2>3. l.next[c[k - 1]] = c[k]
    BY <1>1, <2>1 DEF Linked
  <2>4. l.next[d[k - 1]] = IF k - 1 = Len(d) THEN NULL ELSE d[k]
    <3>1. k - 1 \in DOMAIN d
      BY <1>1, <2>1, <2>2
    <3> QED BY <2>1, <3>1 DEF Linked
  <2>5. k - 1 # Len(d) /\ d[k] = c[k]
    BY <1>4, <2>2, <2>3, <2>4
  <2>6. k <= Len(d)
    BY <1>1, <1>3, <2>2, <2>5
  <2> QED BY <1>3, <2>5, <2>6
<1> QED BY <1>5, <1>6

\* No other chain leads through the nodes.
LEMMA OneChain ==
  ASSUME NEW l, NEW n, NEW c \in Chains, NEW d \in Chains, Linked(l, n, c), Linked(l, n, d)
  PROVE  c = d
<1>1. /\ Len(c) \in Nat /\ c \in [1..Len(c) -> Nodes]
      /\ Len(d) \in Nat /\ d \in [1..Len(d) -> Nodes]
  BY ChainIs
<1>2. \A k \in 1..Len(c) : k <= Len(d) /\ c[k] = d[k]
  BY ChainBegins
<1>3. \A k \in 1..Len(d) : k <= Len(c) /\ d[k] = c[k]
  BY ChainBegins
<1>4. Len(c) = Len(d)
  <2>1. ~(Len(c) < Len(d))
    <3>1. Len(c) < Len(d) => Len(d) \in 1..Len(d)
      BY <1>1
    <3> QED BY <1>1, <1>3, <3>1
  <2>2. ~(Len(d) < Len(c))
    <3>1. Len(d) < Len(c) => Len(c) \in 1..Len(c)
      BY <1>1
    <3> QED BY <1>1, <1>2, <3>1
  <2>3. Len(c) \in Nat /\ Len(d) \in Nat
    BY <1>1
  <2> QED BY <2>1, <2>2, <2>3
<1> QED BY <1>1, <1>2, <1>4

\* The queue is what is read off the nodes.
Agrees == queue = Contents(list)

LEMMA ContentsAre ==
  ASSUME ListIsQueue
  PROVE  Agrees
<1>1. PICK c \in Chains : /\ Linked(list, list.head, c)
                          /\ queue = [k \in DOMAIN c |-> list.item[c[k]]]
  BY DEF ListIsQueue
<1> DEFINE d == CHOOSE e \in Chains : Linked(list, list.head, e)
<1>2. d \in Chains /\ Linked(list, list.head, d)
  BY <1>1
<1>3. d = c
  <2> HIDE DEF d
  <2> QED BY <1>1, <1>2, OneChain
<1> QED BY <1>1, <1>3 DEF Contents, Agrees

\* What GregQueue says of the list read off the nodes it says of the queue.
LEMMA SameOperators ==
  ASSUME Agrees
  PROVE  /\ OfNodes!Outstanding = Outstanding
         /\ OfNodes!Created = Created /\ OfNodes!Waiters = Waiters
         /\ OfNodes!Signalled = Signalled
         /\ \A W : OfNodes!Wake(W) = Wake(W)
         /\ \A items : OfNodes!Stored(items) = Stored(items)
<1> USE DEF Agrees
<1>1. OfNodes!Outstanding = Outstanding
  BY DEF OfNodes!Outstanding, Outstanding, OfNodes!Range, Range
<1>2. OfNodes!Created = Created /\ OfNodes!Waiters = Waiters
  BY DEF OfNodes!Created, Created, OfNodes!Waiters, Waiters
<1>3. OfNodes!Signalled = Signalled
  BY <1>2 DEF OfNodes!Signalled, Signalled
<1>4. \A W : OfNodes!Wake(W) = Wake(W)
  BY DEF OfNodes!Wake, Wake
<1>5. ASSUME NEW items PROVE OfNodes!Stored(items) = Stored(items)
  BY DEF OfNodes!Stored, Stored, OfNodes!Subsequences, Subsequences, OfNodes!Picks, Picks
<1> QED BY <1>1, <1>2, <1>3, <1>4, <1>5

LEMMA SameStep ==
  ASSUME Agrees, Agrees', [QNext]_qvars
  PROVE  [OfNodes!QNext]_OfNodes!qvars
<1> USE SameOperators DEF Agrees, queueVars, OfNodes!queueVars, qvars, OfNodes!qvars
<1>1. ASSUME NEW items, NEW kept, Enqueue(kept)
      PROVE  OfNodes!Enqueue(kept)
  BY <1>1 DEF Enqueue, OfNodes!Enqueue
<1>2. greg_queue_destroy => OfNodes!greg_queue_destroy
  BY DEF greg_queue_destroy, OfNodes!greg_queue_destroy
<1>3. CASE PoolReady
  BY <1>2, <1>3 DEF PoolReady, OfNodes!PoolReady, OfNodes!QNext
<1>4. CASE RootFails \/ Exited
  BY <1>4 DEF RootFails, OfNodes!RootFails, Exited, OfNodes!Exited, OfNodes!QNext
<1>5. CASE Deactivate
  BY <1>5 DEF Deactivate, OfNodes!Deactivate, greg_queue_deactivate,
     OfNodes!greg_queue_deactivate, OfNodes!QNext
<1>6. CASE JoinAndDestroy
  BY <1>2, <1>6 DEF JoinAndDestroy, OfNodes!JoinAndDestroy, OfNodes!QNext
<1>7. ASSUME NEW item \in Items, PushRoot(item)
      PROVE  OfNodes!QNext
  <2>1. PICK kept \in Stored(<<item>>) :
          /\ greg_queue_push(item, kept)
          /\ main' = IF kept = <<>> THEN "deactivate" ELSE "join"
    BY <1>7 DEF PushRoot
  <2>2. OfNodes!greg_queue_push(item, kept)
    BY <1>1, <2>1 DEF greg_queue_push, OfNodes!greg_queue_push
  <2>3. OfNodes!PushRoot(item)
    BY <1>7, <2>1, <2>2 DEF PushRoot, OfNodes!PushRoot
  <2> QED BY <2>3 DEF OfNodes!QNext
<1>8. ASSUME NEW w \in Workers, StartThread(w) \/ SpuriousWakeup(w)
      PROVE  OfNodes!QNext
  BY <1>8 DEF StartThread, OfNodes!StartThread, SpuriousWakeup, OfNodes!SpuriousWakeup,
     OfNodes!QNext
<1>9. ASSUME NEW w \in Workers, PopBatch(w)
      PROVE  OfNodes!QNext
  <2>1. PICK max \in 1..PopMax : greg_queue_pop_batch(w, max)
    BY <1>9 DEF PopBatch
  <2>2. Take(w, Batch(max)) => OfNodes!Take(w, OfNodes!Batch(max))
    BY DEF Take, OfNodes!Take, Batch, OfNodes!Batch
  <2>3. OfNodes!greg_queue_pop_batch(w, max)
    BY <2>1, <2>2 DEF greg_queue_pop_batch, OfNodes!greg_queue_pop_batch
  <2>4. OfNodes!PopBatch(w)
    BY <1>9, <2>3 DEF PopBatch, OfNodes!PopBatch
  <2> QED BY <2>4 DEF OfNodes!QNext
<1>10. ASSUME NEW w \in Workers, PushBatch(w)
       PROVE  OfNodes!QNext
  <2>0. PICK n \in 1..PushMax : \E items \in [1..n -> Items] :
          /\ IsInjective(items)
          /\ Range(items) \cap Outstanding = {}
          /\ \E kept \in Stored(items) : greg_queue_push_batch(items, kept)
    BY <1>10 DEF PushBatch
  <2>1. PICK items \in [1..n -> Items] :
          /\ IsInjective(items)
          /\ Range(items) \cap Outstanding = {}
          /\ \E kept \in Stored(items) : greg_queue_push_batch(items, kept)
    BY <2>0
  <2>2. PICK kept \in Stored(items) : greg_queue_push_batch(items, kept)
    BY <2>1
  <2>3. OfNodes!greg_queue_push_batch(items, kept)
    BY <1>1, <2>2 DEF greg_queue_push_batch, OfNodes!greg_queue_push_batch
  <2>4. OfNodes!PushBatch(w)
    BY <1>10, <2>1, <2>2, <2>3
       DEF PushBatch, OfNodes!PushBatch, OfNodes!Range, Range, OfNodes!IsInjective, IsInjective
  <2> QED BY <2>4 DEF OfNodes!QNext
<1>11. ASSUME NEW w \in Workers, TasksDone(w)
       PROVE  OfNodes!QNext
  <2>1. OfNodes!greg_queue_tasks_done(w)
    BY <1>11 DEF TasksDone, greg_queue_tasks_done, OfNodes!greg_queue_tasks_done,
       Finished, OfNodes!Finished
  <2>2. OfNodes!TasksDone(w)
    BY <1>11, <2>1 DEF TasksDone, OfNodes!TasksDone
  <2> QED BY <2>2 DEF OfNodes!QNext
<1>12. CASE UNCHANGED qvars
  BY <1>12
<1> QED BY <1>3, <1>4, <1>5, <1>6, <1>7, <1>8, <1>9, <1>10, <1>11, <1>12 DEF QNext

\* The list of nodes alone, followed from its head, is a queue that does what
\* GregQueue says: items join at the end and leave from the front in order,
\* none but those a push may drop is lost, whatever was popped, recycled and
\* refused before, for any number of items and any size of a slab
\* (queue.c:9-30, 89-92, 115-125, 147-154).
THEOREM NodesServeQueue == SSpec => OfNodes!QSpec
<1>1. SSpec => []Agrees
  <2>1. ListIsQueue => Agrees
    BY ContentsAre
  <2> QED BY <2>1, ListHoldsQueue, PTL
<1>2. QInit /\ Agrees => OfNodes!QInit
  BY DEF Agrees, QInit, OfNodes!QInit, greg_queue_init, OfNodes!greg_queue_init
<1>3. Agrees /\ Agrees' /\ [QNext]_qvars => [OfNodes!QNext]_OfNodes!qvars
  BY SameStep
<1> QED BY <1>1, <1>2, <1>3, QueueKept, PTL DEF QSpec, OfNodes!QSpec

=============================================================================
