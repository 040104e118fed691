---------------------------- MODULE MCIgnoreGlob ----------------------------
(* Every pattern of up to five characters against every path of up to      *)
(* three.                                                                  *)
EXTENDS IgnoreGlob

Words(C, n) == UNION {[1..k -> C] : k \in 0..n}

MCPatterns == Words({"a", "b", "*", "?", "/"}, 5)
MCStrings == Words({"a", "b", "/"}, 3)

=============================================================================
