----------------------------- MODULE Traversal -----------------------------
(***************************************************************************)
(* What greg promises of a search, whatever its threads do: starting from  *)
(* the root every item of the tree is handled once or given up, the items  *)
(* under a given-up directory are never met, and the search is over only   *)
(* when nothing is left to do.  GregPool is shown to implement it.         *)
(***************************************************************************)
EXTENDS FiniteSets

CONSTANTS
  Items,     \* the files and directories that the ignore rules let through
  Root,      \* the path given on the command line
  Children   \* the items directly under each item; none under a file

\* The items form a tree ...
Tree ==
  /\ Root \in Items
  /\ Children \in [Items -> SUBSET Items]
  /\ \A i \in Items : Root \notin Children[i]
  /\ \A i, j \in Items : i # j => Children[i] \cap Children[j] = {}

\* ... all of which can be reached from the root.
Connected ==
  \A S \in SUBSET Items :
    Root \in S /\ (\A i \in S : Children[i] \subseteq S) => S = Items

VARIABLES
  phase,     \* before the root is pushed, during the search, after it
  todo,      \* items found and not yet dealt with
  handled,   \* files searched and directories opened
  lost       \* items given up: no memory, no access, no search

tvars == <<phase, todo, handled, lost>>

TInit ==
  /\ phase = "start"
  /\ todo = {}
  /\ handled = {}
  /\ lost = {}

\* The root is accepted, or found to be inaccessible.
Begin ==
  /\ phase = "start"
  /\ phase' = "run"
  /\ \/ todo' = {Root} /\ UNCHANGED lost
     \/ lost' = {Root} /\ UNCHANGED todo
  /\ UNCHANGED handled

\* The search cannot even start.
Abandon ==
  /\ phase = "start"
  /\ phase' = "done"
  /\ lost' = {Root}
  /\ UNCHANGED <<todo, handled>>

\* A file is searched, or a directory opened and its contents found.
Handle(i) ==
  /\ phase = "run"
  /\ i \in todo
  /\ todo' = (todo \ {i}) \cup Children[i]
  /\ handled' = handled \cup {i}
  /\ UNCHANGED <<phase, lost>>

\* Items are given up.
Lose(S) ==
  /\ phase = "run"
  /\ S \subseteq todo
  /\ todo' = todo \ S
  /\ lost' = lost \cup S
  /\ UNCHANGED <<phase, handled>>

Finish ==
  /\ phase = "run"
  /\ todo = {}
  /\ phase' = "done"
  /\ UNCHANGED <<todo, handled, lost>>

TNext ==
  \/ Begin \/ Abandon \/ Finish
  \/ \E i \in Items : Handle(i)
  \/ \E S \in SUBSET Items : Lose(S)

TSpec == TInit /\ [][TNext]_tvars

-----------------------------------------------------------------------------
(* Properties.                                                             *)

Met == todo \cup handled \cup lost

TTypeOK ==
  /\ phase \in {"start", "run", "done"}
  /\ todo \subseteq Items
  /\ handled \subseteq Items
  /\ lost \subseteq Items

\* No item is in two states at once, hence none is handled a second time.
Separate ==
  /\ todo \cap handled = {}
  /\ todo \cap lost = {}
  /\ handled \cap lost = {}

\* Nothing is forgotten: the root and whatever is under an opened directory is
\* either still to do, handled or given up.
Accounted ==
  /\ phase # "start" => Root \in Met
  /\ \A i \in handled : Children[i] \subseteq Met

\* A search that gave nothing up has handled the whole tree.
Complete == phase = "done" /\ lost = {} => handled = Items

=============================================================================
