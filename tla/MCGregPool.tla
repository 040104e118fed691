----------------------------- MODULE MCGregPool -----------------------------
(* A small tree for GregPool: a chain of three directories, an empty       *)
(* directory, three files, and an entry that the ignore rules suppress.    *)
EXTENDS GregPool

MCDirs == {"r", "r/a", "r/a/b", "r/c"}
MCFiles == {"r/f", "r/a/g", "r/a/b/h"}
MCItems == MCDirs \cup MCFiles

MCKids ==
  [d \in MCDirs |->
     CASE d = "r" -> <<"r/a", "r/.git", "r/f", "r/c">>
       [] d = "r/a" -> <<"r/a/g", "r/a/b">>
       [] d = "r/a/b" -> <<"r/a/b/h">>
       [] d = "r/c" -> <<>>]

MCMatches ==
  [f \in MCFiles |->
     CASE f = "r/f" -> 0
       [] f = "r/a/g" -> 2
       [] f = "r/a/b/h" -> 1]

=============================================================================
