----------------------------- MODULE SlabQueue -----------------------------
(***************************************************************************)
(* The memory of the work queue (src/src/queue.c): a list of nodes linked  *)
(* from head to tail, the list of the nodes given back, and the slabs that *)
(* new nodes are cut from.  Every operation of GregQueue runs side by side *)
(* with what it does to the nodes.  A node is given no memory only when    *)
(* the free list is empty, the newest slab is used up and malloc refuses   *)
(* another one, which narrows what a push of GregQueue may leave out.      *)
(***************************************************************************)
EXTENDS GregQueue

CONSTANTS
  SlabSize,    \* GREG_QUEUE_SLAB_SIZE (256)
  NoItem       \* in a node that is on the free list or was never used

ASSUME SlabAssumption ==
  SlabSize \in Nat \ {0} /\ IsFiniteSet(Items) /\ NoItem \notin Items

VARIABLE list       \* head, tail, free_list, slabs and the nodes' fields

svars == <<qvars, list>>

NULL == 0

\* The nodes of the slabs in the order in which they are cut: SlabSize of the
\* first slab, then those of the second, ...  No more are needed than items.
Nodes == 1..Cardinality(Items)

EmptyList ==
  [head |-> NULL, tail |-> NULL, free_list |-> NULL,
   slabs |-> 0, used |-> 0,
   next |-> [n \in Nodes |-> NULL], item |-> [n \in Nodes |-> NoItem]]

-----------------------------------------------------------------------------
(* The nodes.                                                              *)

\* alloc_node has to ask malloc for a slab.
NeedsSlab(l) == l.free_list = NULL /\ (l.slabs = 0 \/ l.used >= SlabSize)

\* Faulty variant: the node stays on the free list.
AllocKeepsFree(l) ==
  IF l.free_list # NULL THEN <<l.free_list, l>>
  ELSE LET m == IF NeedsSlab(l) THEN [l EXCEPT !.slabs = @ + 1, !.used = 0] ELSE l
       IN  <<SlabSize * (m.slabs - 1) + m.used + 1, [m EXCEPT !.used = @ + 1]>>

\* The node that is handed out, and the list without it.
alloc_node(l) ==
  IF l.free_list # NULL
  THEN <<l.free_list, [l EXCEPT !.free_list = l.next[l.free_list]]>>
  ELSE LET m == IF NeedsSlab(l) THEN [l EXCEPT !.slabs = @ + 1, !.used = 0] ELSE l
       IN  <<SlabSize * (m.slabs - 1) + m.used + 1, [m EXCEPT !.used = @ + 1]>>

\* What is left in the node's item is never read again.
free_node(l, n) ==
  [l EXCEPT !.next[n] = l.free_list, !.item[n] = NoItem, !.free_list = n]

\* Faulty variant: a node from the free list keeps its next.
LinkWithOldNext(l, n, it) ==
  LET m == [l EXCEPT !.item[n] = it]
  IN  IF m.tail # NULL THEN [m EXCEPT !.next[m.tail] = n, !.tail = n]
      ELSE [m EXCEPT !.head = n, !.tail = n]

\* The node n with item it becomes the last one.
Link(l, n, it) ==
  LET m == [l EXCEPT !.item[n] = it, !.next[n] = NULL]
  IN  IF m.tail # NULL THEN [m EXCEPT !.next[m.tail] = n, !.tail = n]
      ELSE [m EXCEPT !.head = n, !.tail = n]

\* Faulty variant: the tail is left at the node that was the last.
UnlinkKeepsTail(l) == free_node([l EXCEPT !.head = l.next[l.head]], l.head)

\* The first node leaves the list and goes to the free list.
Unlink(l) ==
  LET first == l.next[l.head]
  IN  free_node([l EXCEPT !.head = first,
                          !.tail = IF first = NULL THEN NULL ELSE @], l.head)

-----------------------------------------------------------------------------
(* The loops of the operations.                                            *)

\* One round of the push loop: the item is stored, or malloc fails and it is
\* dropped.
Store(r, it) ==
  LET a == alloc_node(r.list)
  IN  {[list |-> Link(a[2], a[1], it), kept |-> Append(r.kept, it)]}
        \cup IF NeedsSlab(r.list) /\ Faults THEN {r} ELSE {}

\* What pushing the items may come to.
Stores(items) ==
  LET after[k \in 0..Len(items)] ==
        IF k = 0 THEN {[list |-> list, kept |-> <<>>]}
        ELSE UNION {Store(r, items[k]) : r \in after[k - 1]}
  IN  IF active THEN after[Len(items)] ELSE after[0]

StorePushed(items) ==
  \E r \in Stores(items) : list' = r.list /\ queue' = queue \o r.kept

\* The pop loop: n nodes are taken from the head.
TakeNodes(n) ==
  LET after[k \in 0..n] == IF k = 0 THEN list ELSE Unlink(after[k - 1])
  IN  list' = after[n]

-----------------------------------------------------------------------------
(* The operations of GregQueue and what they do to the nodes.              *)

SInit == QInit /\ list = EmptyList

SPushRoot(item) == PushRoot(item) /\ StorePushed(<<item>>)

SPushBatch(w) ==
  /\ PushBatch(w)
  /\ \E n \in 1..PushMax : \E items \in [1..n -> Items \ Outstanding] :
       IsInjective(items) /\ StorePushed(items)

SPopBatch(w) == PopBatch(w) /\ TakeNodes(Len(queue) - Len(queue'))

\* greg_queue_destroy frees the slabs with every node in them.
SJoinAndDestroy == JoinAndDestroy /\ list' = EmptyList

SPoolReady ==
  /\ PoolReady
  /\ list' = IF main' = "exit" THEN EmptyList ELSE list

SNext ==
  \/ SPoolReady \/ SJoinAndDestroy
  \/ \E item \in Items : SPushRoot(item)
  \/ \E w \in Workers : SPushBatch(w) \/ SPopBatch(w)
  \/ /\ UNCHANGED list
     /\ \/ RootFails \/ Deactivate \/ Exited
        \/ \E w \in Workers : StartThread(w) \/ TasksDone(w) \/ SpuriousWakeup(w)

SSpec == SInit /\ [][SNext]_svars

-----------------------------------------------------------------------------
(* Properties.                                                             *)

\* Chains of different nodes.
Chains == {c \in UNION {[1..k -> Nodes] : k \in 0..Cardinality(Nodes)} : IsInjective(c)}

\* The nodes met from n on are those of c.
Linked(l, n, c) ==
  /\ n = IF c = <<>> THEN NULL ELSE c[1]
  /\ \A k \in DOMAIN c : l.next[c[k]] = IF k = Len(c) THEN NULL ELSE c[k + 1]

\* How many nodes were cut from the slabs so far.
Cut(l) == IF l.slabs = 0 THEN 0 ELSE SlabSize * (l.slabs - 1) + l.used

\* The items met from head on.
Contents(l) ==
  LET c == CHOOSE d \in Chains : Linked(l, l.head, d)
  IN  [k \in DOMAIN c |-> l.item[c[k]]]

\* A queue whose items are what the nodes say and nothing else.
OfNodes == INSTANCE GregQueue WITH queue <- Contents(list)

\* The linked list holds the items of the queue, in their order and each with
\* the item it was pushed with, and tail is its last node: a push never goes
\* to a node that was taken from the list (queue.c:91, queue.c:151).
ListIsQueue ==
  \E c \in Chains :
    /\ Linked(list, list.head, c)
    /\ queue = [k \in DOMAIN c |-> list.item[c[k]]]
    /\ list.tail = IF c = <<>> THEN NULL ELSE c[Len(c)]

\* Every node cut from a slab is on exactly one of the two lists, once: none
\* is lost, and none is handed out while it still is in use; and another slab
\* is asked for only when the queue has never been that long
\* (queue.c:9-23, queue.c:153).
NodesAccounted ==
  \E c \in Chains :
    /\ Linked(list, list.head, c)
    /\ \E f \in Chains :
         /\ Linked(list, list.free_list, f)
         /\ Range(c) \cap Range(f) = {}
         /\ Range(c) \cup Range(f) = 1..Cut(list)

=============================================================================
