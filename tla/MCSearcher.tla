----------------------------- MODULE MCSearcher -----------------------------
(* Files of at most three lines, each with every answer of the matcher.    *)
EXTENDS Searcher

MCLines == UNION {[1..n -> Answers] : n \in 0..3}

\* 9 does not fit an int of 4 bits, whose values are -8 to 7, nor does 17: the
\* first becomes negative, the second 1.
MCRequests == {1, 2, 9, 17}
=============================================================================
