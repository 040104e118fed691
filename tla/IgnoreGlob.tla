----------------------------- MODULE IgnoreGlob -----------------------------
(***************************************************************************)
(* match_glob of src/src/ignore.c: the iterative matcher of ignore         *)
(* patterns, one action per way round its loop.                            *)
(*                                                                         *)
(* Pointers into the pattern and the string are positions from 1; position *)
(* Len + 1 is the terminating NUL and 0 is the NULL pointer.               *)
(***************************************************************************)
EXTENDS Integers, Sequences

CONSTANTS
  Patterns,  \* the patterns tried, sequences of characters
  Strings    \* the file names and paths tried, without NUL

ASSUME GlobAssumption ==
  /\ Patterns \subseteq Seq(STRING)
  /\ Strings \subseteq Seq(STRING)

VARIABLES
  pattern, str,                \* the arguments
  p, s,                        \* the matching position in each
  p_star, s_star,              \* where to resume after a '*'
  p_star_star, s_star_star,    \* where to resume after a '**'
  result                       \* what is returned, Running before that

gvars == <<pattern, str, p, s, p_star, s_star, p_star_star, s_star_star, result>>
args == <<pattern, str>>
stars == <<p_star, s_star, p_star_star, s_star_star>>

NULL == 0
Running == -1
Separators == {"/", "\\"}

Star(i) == i \in 1..Len(pattern) /\ pattern[i] = "*"

\* Faulty variant: trailing stars are not skipped.
UsedUp(i) == i > Len(pattern)

AllStars(i) == \A j \in i..Len(pattern) : Star(j)

\* The position that while (*p == '*') p++ reaches from i.
SkipStars(i) ==
  CHOOSE k \in i..Len(pattern) + 1 : ~Star(k) /\ \A j \in i..k - 1 : Star(j)

GInit ==
  /\ pattern \in Patterns
  /\ str \in Strings
  /\ p = 1
  /\ s = 1
  /\ p_star = NULL /\ s_star = NULL
  /\ p_star_star = NULL /\ s_star_star = NULL
  /\ result = Running

InLoop == result = Running /\ s <= Len(str)

Return(b) ==
  /\ result' = IF b THEN 1 ELSE 0
  /\ UNCHANGED <<args, p, s, stars>>

\* The string is used up: the rest of the pattern must be stars.
EndOfString ==
  /\ result = Running
  /\ s > Len(str)
  /\ Return(AllStars(p))

DoubleStar ==
  LET q == SkipStars(p + 2)
  IN  /\ InLoop
      /\ Star(p) /\ Star(p + 1)
      /\ IF q > Len(pattern) THEN Return(TRUE)
         ELSE /\ p' = q
              /\ p_star_star' = q
              /\ s_star_star' = s
              /\ p_star' = NULL
              /\ s_star' = NULL
              /\ UNCHANGED <<args, s, result>>

\* Faulty variant: a '*' consumes separators too.
ConsumesAll(c) == TRUE

\* What a '*' may stand for.
Consumes(c) == c \notin Separators

\* A trailing '*' decides the match at once.
SingleStar ==
  LET q == SkipStars(p + 1)
  IN  /\ InLoop
      /\ Star(p) /\ ~Star(p + 1)
      /\ IF q > Len(pattern)
         THEN Return(\A j \in s..Len(str) : Consumes(str[j]))
         ELSE /\ p' = q
              /\ p_star' = q
              /\ s_star' = s
              /\ UNCHANGED <<args, s, p_star_star, s_star_star, result>>

CharacterMatches == p <= Len(pattern) /\ pattern[p] \in {"?", str[s]}

Advance ==
  /\ InLoop
  /\ ~Star(p)
  /\ CharacterMatches
  /\ p' = p + 1
  /\ s' = s + 1
  /\ UNCHANGED <<args, stars, result>>

Mismatch == InLoop /\ ~Star(p) /\ ~CharacterMatches

\* A '*' can take one more character.
Extensible == p_star # NULL /\ Consumes(str[s_star])

BacktrackStar ==
  /\ Mismatch
  /\ Extensible
  /\ s_star' = s_star + 1
  /\ s' = s_star + 1
  /\ p' = p_star
  /\ UNCHANGED <<args, p_star, p_star_star, s_star_star, result>>

\* Faulty variants: the position to resume from moves too far, or not at all.
ResumeTooFar == s_star_star + 2
ResumeInPlace == s_star_star

\* Where to resume when a '**' takes one more character.
Resume == s_star_star + 1

BacktrackStarStar ==
  /\ Mismatch
  /\ ~Extensible
  /\ p_star_star # NULL
  /\ s_star_star' = Resume
  /\ s' = Resume
  /\ p' = p_star_star
  /\ UNCHANGED <<args, p_star, s_star, p_star_star, result>>

Fail ==
  /\ Mismatch
  /\ ~Extensible
  /\ p_star_star = NULL
  /\ Return(FALSE)

Returned ==
  /\ result # Running
  /\ UNCHANGED gvars

GStep ==
  \/ EndOfString \/ DoubleStar \/ SingleStar \/ Advance
  \/ BacktrackStar \/ BacktrackStarStar \/ Fail

GNext == GStep \/ Returned

GSpec == GInit /\ [][GNext]_gvars

\* match_glob runs on its own stack: nothing stops it.
GFairSpec == GSpec /\ WF_gvars(GStep)

-----------------------------------------------------------------------------
(* What a pattern stands for.                                              *)

\* Reference definition: the positions of the string from which the pattern
\* from position i on matches the rest.  A run of two or more stars matches
\* anything, a single star anything without a separator, a question mark any
\* one character.
Denotes ==
  LET from[i \in 1..Len(pattern) + 1] ==
        IF i > Len(pattern) THEN {Len(str) + 1}
        ELSE IF ~Star(i)
        THEN {j \in 1..Len(str) : pattern[i] \in {"?", str[j]} /\ j + 1 \in from[i + 1]}
        ELSE LET next == SkipStars(i)
             IN  {j \in 1..Len(str) + 1 :
                    \E k \in from[next] :
                      /\ j <= k
                      /\ \/ next > i + 1
                         \/ \A x \in j..k - 1 : str[x] \notin Separators}
  IN  1 \in from[1]

IsSingleStar(i) == Star(i) /\ ~Star(i + 1) /\ ~Star(i - 1)

\* The patterns for which one pair of resume positions per kind of star is
\* enough: no trailing '*' after a '**', and no '?' that could stand for a
\* separator next to a '*'.
Tractable ==
  /\ IsSingleStar(Len(pattern)) =>
       ~\E i \in 1..Len(pattern) - 1 : Star(i) /\ Star(i + 1)
  /\ \/ \A i \in 1..Len(pattern) : ~IsSingleStar(i)
     \/ \A i \in 1..Len(pattern) : pattern[i] # "?"
     \/ \A j \in 1..Len(str) : str[j] \notin Separators

-----------------------------------------------------------------------------
(* Properties.                                                             *)

\* No pointer leaves its buffer, whatever the pattern and the string are: the
\* loop never reads behind the terminating NUL, and the positions to resume
\* from are inside the string whenever the loop may still read them.
InBounds ==
  /\ p \in 1..Len(pattern) + 1
  /\ s \in 1..Len(str) + 1
  /\ p_star \in 0..Len(pattern)
  /\ p_star_star \in 0..Len(pattern)
  /\ InLoop => s_star \in 0..Len(str) /\ s_star_star \in 0..Len(str)
  /\ p_star # NULL => s_star # NULL
  /\ p_star_star # NULL => s_star_star # NULL

\* Whatever is reported as a match is one.
Sound == result = 1 => Denotes

\* A mismatch is reported only where there is no match.
CompleteWhenTractable == result = 0 /\ Tractable => ~Denotes

\* "'**' can consume any characters including separators" (ignore.c:65): a
\* pattern of letters, '*' and '**' fails only when no choice of what the
\* stars consume fits.
CompleteForStars ==
  result = 0 /\ (\A i \in 1..Len(pattern) : pattern[i] # "?") => ~Denotes

\* How far the loop has come, the most significant position first.  A '*' that
\* a resumed '**' has gone back over does not count.
Place == <<p_star_star, s_star_star, IF p_star <= p THEN p_star ELSE NULL, s_star, s>>
Later(a, b) == \E i \in 1..5 : a[i] > b[i] /\ \A j \in 1..i - 1 : a[j] = b[j]

\* Backtracking never comes back to a place where it has been: each way round
\* the loop leads to a later one or ends it, and there are only so many
\* (ignore.c:19-77).
RoundsGoOn == [][GStep => result' # Running \/ Later(Place', Place)]_gvars

\* The matcher returns for every pattern and every string.
Returns == <>(result # Running)

=============================================================================
