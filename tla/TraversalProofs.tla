-------------------------- MODULE TraversalProofs --------------------------
(***************************************************************************)
(* The promise of a traversal, for every tree: no item is met twice, none  *)
(* is forgotten, and a search that gave nothing up has handled everything. *)
(***************************************************************************)
EXTENDS Traversal, TLAPS

\* Whatever has been met is the root or lies under an opened directory, so
\* that a newly opened directory cannot bring up an item for a second time.
Descended == \A i \in Met : i = Root \/ \E d \in handled : i \in Children[d]

TInv ==
  /\ TTypeOK
  /\ Separate
  /\ Accounted
  /\ Descended
  /\ phase = "start" => Met = {}
  /\ phase = "done" => todo = {}

LEMMA TInitInv == TInit => TInv
BY DEF TInit, TInv, TTypeOK, Separate, Accounted, Descended, Met

LEMMA TStepInv ==
  ASSUME Tree, TInv, [TNext]_tvars
  PROVE  TInv'
<1> USE DEF TInv
<1>1. CASE Begin
  BY <1>1 DEF Begin, TTypeOK, Separate, Accounted, Descended, Met, Tree
<1>2. CASE Abandon
  BY <1>2 DEF Abandon, TTypeOK, Separate, Accounted, Descended, Met, Tree
<1>3. CASE Finish
  BY <1>3 DEF Finish, TTypeOK, Separate, Accounted, Descended, Met
<1>4. ASSUME NEW i \in Items, Handle(i)
      PROVE  TInv'
  <2>1. /\ phase = "run" /\ phase' = "run" /\ lost' = lost
        /\ i \in todo
        /\ todo' = (todo \ {i}) \cup Children[i]
        /\ handled' = handled \cup {i}
    BY <1>4 DEF Handle
  <2>2. Children[i] \subseteq Items
    BY DEF Tree
  \* The children of i are new: they are not the root and have no other parent.
  <2>3. Children[i] \cap Met = {}
    <3>1. i \notin handled
      BY <2>1 DEF Separate
    <3>2. ASSUME NEW c \in Children[i], c \in Met
          PROVE  FALSE
      <4>1. PICK d \in handled : c \in Children[d]
        BY <3>2 DEF Descended, Tree
      <4>2. d \in Items /\ d # i
        BY <3>1 DEF TTypeOK
      <4>3. QED
        BY <4>1, <4>2 DEF Tree
    <3>3. QED
      BY <3>2
  <2>4. Met' = Met \cup Children[i]
    BY <2>1 DEF Met
  <2>5. i \notin Children[i]
    BY <2>1, <2>3 DEF Met
  <2>6. TTypeOK'
    BY <2>1, <2>2 DEF TTypeOK
  <2>7. Separate'
    BY <2>1, <2>3, <2>5 DEF Separate, Met
  <2>8. Accounted'
    BY <2>1, <2>4 DEF Accounted
  <2>9. Descended'
    BY <2>1, <2>4 DEF Descended
  <2>10. QED
    BY <2>1, <2>6, <2>7, <2>8, <2>9
<1>5. ASSUME NEW S \in SUBSET Items, Lose(S)
      PROVE  TInv'
  <2>1. Met' = Met
    BY <1>5 DEF Lose, Met
  <2>2. QED
    BY <1>5, <2>1 DEF Lose, TTypeOK, Separate, Accounted, Descended
<1>6. CASE UNCHANGED tvars
  BY <1>6 DEF tvars, TTypeOK, Separate, Accounted, Descended, Met
<1>7. QED
  BY <1>1, <1>2, <1>3, <1>4, <1>5, <1>6 DEF TNext

\* The inductive invariant of every traversal of a tree.
THEOREM TraversalInvariant ==
  ASSUME Tree
  PROVE  TSpec => []TInv
<1>1. TInit => TInv
  BY TInitInv
<1>2. TInv /\ [TNext]_tvars => TInv'
  BY TStepInv
<1>3. QED
  BY <1>1, <1>2, PTL DEF TSpec

\* Nothing is skipped: when a search is over and gave nothing up, all the
\* items of the tree have been handled.
THEOREM TraversalComplete ==
  ASSUME Tree, Connected
  PROVE  TSpec => []Complete
<1>1. ASSUME TInv, phase = "done", lost = {}
      PROVE  handled = Items
  <2>1. Root \in handled /\ \A i \in handled : Children[i] \subseteq handled
    BY <1>1 DEF TInv, Accounted, Met
  <2>2. handled \in SUBSET Items
    BY <1>1 DEF TInv, TTypeOK
  <2>3. QED
    BY <2>1, <2>2 DEF Connected
<1>2. TInv => Complete
  BY <1>1 DEF Complete
<1>3. QED
  BY <1>2, TraversalInvariant, PTL

=============================================================================
