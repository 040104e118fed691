---------------------------- MODULE IgnoreRules ----------------------------
(***************************************************************************)
(* Which entries of a directory greg searches: the ignore files that       *)
(* src/src/ignore.c reads for each directory, the decision over the chain  *)
(* of directories up to the root, and the filter of the walker             *)
(* (src/src/walk.c) that every directory entry passes.                     *)
(*                                                                         *)
(* The module follows one branch of a walk: the ignore files of a          *)
(* directory are read line by line, its entries are filtered, and one that *)
(* was taken and is a directory is walked next.                            *)
(*                                                                         *)
(* Text is a sequence of tokens: the characters the code tells apart, and  *)
(* names, each standing for a run of ordinary characters.  All blanks are  *)
(* one token.  A path is its names with "/" between them.                  *)
(***************************************************************************)
EXTENDS Integers, SequencesExt

CONSTANTS
  Entries,       \* the entries of each directory
  Length,        \* the bytes of each name
  Root,          \* the directory the walk starts from, as "."
  Texts,         \* the contents tried for the two ignore files of each directory
  DotNames,      \* the names that begin with a dot
  BuildDirs,     \* the directory names skipped by default: node_modules, build, ...
  LineMax,       \* size of the line buffer (1024)
  PathMax,       \* size of the path buffers (4096)
  InitialRules,  \* rules allocated first (8)
  Faults         \* may the system refuse memory, a stat, or to open or read a file?

Dirs == DOMAIN Entries

\* What paths are made of.
Names == {e.name : e \in UNION {Entries[d] : d \in Dirs}} \cup {"/", "."}

IgnoreFile == <<".gitignore", ".ignore">>

\* What an entry is, and where it leads: to a directory, to a file or
\* something else, or nowhere.
Entry == [name : Names, type : {"dir", "file", "link", "other"},
          to : Dirs \cup {"file", "other", "none"}]

ASSUME RulesAssumption ==
  /\ Root \in Dirs
  /\ \A d \in Dirs : \A e \in Entries[d] : e \in Entry /\ (e.type = "dir" => e.to \in Dirs)
  /\ Texts \subseteq [Dirs -> [{1, 2} -> Seq(STRING)]]
  /\ Length \in [Names \cup {IgnoreFile[1], IgnoreFile[2]} -> Nat \ {0}]
  /\ Length["/"] = 1 /\ Length["."] = 1
  /\ LineMax \in Nat \ {0, 1} /\ PathMax \in Nat \ {0, 1} /\ InitialRules \in Nat \ {0}
  /\ Faults \in BOOLEAN

VARIABLES
  text,         \* what .gitignore and .ignore hold, by directory
  no_ignore, hidden, follow_links,
  d_type,       \* does readdir tell the type of an entry?
  path,         \* the path of the directory being walked
  trail,        \* that directory and those above it, nearest first
  chain,        \* their ignore nodes
  phase,        \* load: reading ignore files; walk: at readdir; else what
                \* became of the last entry
  file, rest,   \* the ignore file being read and what is left of it
  truncated,    \* history: an ignore file was not read to its end
  entry         \* the last entry

disk == <<text, no_ignore, hidden, follow_links, d_type>>
place == <<path, trail>>
reading == <<file, rest>>
rvars == <<disk, place, chain, phase, reading, truncated, entry>>

-----------------------------------------------------------------------------
(* load_ignore_file.                                                       *)

\* strlen of a path: the positions in its names, counted.
Bytes(p) == Cardinality(UNION {{i} \X (1..Length[p[i]]) : i \in DOMAIN p})

Blank == {" ", "\n"}

\* What one fgets takes from the text: a line, or what fits the buffer.
LineLength(t) ==
  CHOOSE n \in 1..Len(t) :
    /\ n = Len(t) \/ n = LineMax - 1 \/ t[n] = "\n"
    /\ n < LineMax
    /\ \A i \in 1..n - 1 : t[i] # "\n"

Solid(t) == {i \in DOMAIN t : t[i] \notin Blank}

SkipBlanks(t) == IF Solid(t) = {} THEN <<>> ELSE SubSeq(t, Min(Solid(t)), Len(t))

Trim(t) == IF Solid(t) = {} THEN <<>> ELSE SubSeq(t, Min(Solid(t)), Max(Solid(t)))

StartsWith(t, c) == t # <<>> /\ Head(t) = c

\* The rule a line stands for, as a sequence of at most one.
Parse(line) ==
  LET all == Trim(line)
      negated == StartsWith(all, "!")
      body == IF negated THEN SkipBlanks(Tail(all)) ELSE all
      anchored == StartsWith(body, "/")
      rel == IF anchored THEN Tail(body) ELSE body
      dirOnly == rel # <<>> /\ Last(rel) = "/"
      pat == IF dirOnly THEN Front(rel) ELSE rel
  IN  IF StartsWith(all, "#") \/ pat = <<>> THEN <<>>
      ELSE << [pattern |-> pat, is_negation |-> negated, is_anchored |-> anchored,
               is_dir_only |-> dirOnly, is_glob |-> {"*", "?"} \cap Range(pat) # {}] >>

Rule == [pattern : Seq(STRING), is_negation : BOOLEAN, is_anchored : BOOLEAN,
         is_dir_only : BOOLEAN, is_glob : BOOLEAN]

RuleList == [rules : Seq(Rule), capacity : Nat]

NewList == [rules |-> <<>>, capacity |-> 0]

\* Faulty variant: the array is thought to have one more place.
FullTooLate(list) == Len(list.rules) > list.capacity

Full(list) == Len(list.rules) >= list.capacity

grow_rules(list) ==
  IF ~Full(list) THEN list
  ELSE [list EXCEPT !.capacity = IF @ = 0 THEN InitialRules ELSE @ * 2]

Append1(list, rule) ==
  LET grown == grow_rules(list)
  IN  [grown EXCEPT !.rules = @ \o rule]

\* Faulty variant: only the rule in hand is left out.
LeaveOutRule(list, left) == chain' = [chain EXCEPT ![1] = list] /\ rest' = left

\* The array or the pattern cannot be allocated, or the file cannot be read on:
\* the rest of it is left out.
LeaveOut(list, left) == chain' = [chain EXCEPT ![1] = list] /\ rest' = <<>>

ReadLine ==
  /\ phase = "load" /\ rest # <<>>
  /\ LET n == LineLength(rest)
         rule == Parse(SubSeq(rest, 1, n))
         left == SubSeq(rest, n + 1, Len(rest))
     IN  \/ /\ chain' = [chain EXCEPT ![1] = IF rule = <<>> THEN @ ELSE Append1(@, rule)]
            /\ rest' = left
            /\ UNCHANGED truncated
         \/ /\ Faults
            /\ \/ LeaveOut(chain[1], left)
               \/ rule # <<>> /\ LeaveOut(grow_rules(chain[1]), left)
            /\ truncated' = TRUE
  /\ UNCHANGED <<disk, place, phase, file, entry>>

\* The path of an ignore file must fit its buffer, or it is passed over.
IgnoreFileFits(p, n) == Bytes(p) + 1 + Length[IgnoreFile[n]] < PathMax

Content(d, p, n) == IF IgnoreFileFits(p, n) THEN text[d][n] ELSE <<>>

\* fopen may fail; nothing is said then.
Open(d, p, n) ==
  \/ rest' = Content(d, p, n) /\ UNCHANGED truncated
  \/ Faults /\ rest' = <<>> /\ truncated' = TRUE

EndOfFile ==
  /\ phase = "load" /\ rest = <<>>
  /\ file' = file + 1
  /\ IF file = 1
     THEN Open(Head(trail), path, 2) /\ UNCHANGED phase
     ELSE phase' = "walk" /\ UNCHANGED <<rest, truncated>>
  /\ UNCHANGED <<disk, place, chain, entry>>

-----------------------------------------------------------------------------
(* The decision over the chain.                                            *)

\* match_glob at the level of tokens, by the meaning IgnoreGlob checks it
\* against.
Glob(pattern, str) ==
  INSTANCE IgnoreGlob
    WITH Patterns <- {pattern}, Strings <- {str}, p <- 1, s <- 1, p_star <- 0,
         s_star <- 0, p_star_star <- 0, s_star_star <- 0, result <- 1

match_glob(pattern, str) == Glob(pattern, str)!Denotes

RuleMatches(rule, full, is_dir) ==
  LET fits(s) == IF rule.is_glob THEN match_glob(rule.pattern, s) ELSE rule.pattern = s
  IN  /\ rule.is_dir_only => is_dir
      /\ fits(full) \/ (~rule.is_anchored /\ fits(<<Last(full)>>))

\* Faulty variant: the first rule that matches decides.
DecideFirst(before, rule) ==
  IF before # "none" THEN before ELSE IF rule.is_negation THEN "keep" ELSE "ignore"

Decide(before, rule) == IF rule.is_negation THEN "keep" ELSE "ignore"

\* What the rules of one node say, in the order of the loop.
Decision(rules, full, is_dir) ==
  LET after[k \in 0..Len(rules)] ==
        IF k = 0 THEN "none"
        ELSE IF RuleMatches(rules[k], full, is_dir) THEN Decide(after[k - 1], rules[k])
        ELSE after[k - 1]
  IN  after[Len(rules)]

greg_is_default_ignored(name, is_dir) ==
  /\ ~no_ignore
  /\ \/ name \in DotNames /\ ~hidden
     \/ is_dir /\ name \in BuildDirs

\* The nearest node with a matching rule decides.
greg_ignore_node_should_ignore(full, is_dir) ==
  /\ ~no_ignore
  /\ \/ greg_is_default_ignored(Last(full), is_dir)
     \/ \E i \in DOMAIN chain :
          /\ Decision(chain[i].rules, full, is_dir) = "ignore"
          /\ \A j \in 1..i - 1 : Decision(chain[j].rules, full, is_dir) = "none"

-----------------------------------------------------------------------------
(* The walker's filter.                                                    *)

\* What a link leads to.
Target(e) == IF e.to \in Dirs THEN "dir" ELSE e.to

NeedStat(e) == ~d_type \/ (e.type = "link" /\ follow_links)

\* What stat or lstat says.
Stat(e) == IF follow_links /\ e.type = "link" THEN Target(e) ELSE e.type

IsDir(e) == (IF NeedStat(e) THEN Stat(e) ELSE e.type) = "dir"

\* Not followed, a link counts as a file when readdir says that it is a link.
IsFile(e) ==
  IF NeedStat(e) THEN Stat(e) = "file" ELSE e.type \in {"file", "link"}

FullPath(e) == path \o <<"/", e.name>>

\* Faulty variant: no place for the terminating NUL.
TooLongWithoutNul(e) == Bytes(path) + 1 + Length[e.name] > PathMax

TooLong(e) == Bytes(path) + 1 + Length[e.name] + 1 > PathMax

Skips(e) ==
  \/ greg_is_default_ignored(e.name, IsDir(e))
  \/ TooLong(e)
  \/ ~IsDir(e) /\ ~IsFile(e)
  \/ greg_ignore_node_should_ignore(FullPath(e), IsDir(e))

\* An entry is skipped, becomes an item, or is lost: its path cannot be
\* copied or it cannot be examined.
ReadEntry ==
  /\ phase # "load"
  /\ \E e \in Entries[Head(trail)] :
       /\ entry' = e
       /\ \/ phase' = IF Skips(e) THEN "skipped" ELSE "taken"
          \/ Faults /\ (NeedStat(e) \/ ~Skips(e)) /\ phase' = "lost"
  /\ UNCHANGED <<disk, place, chain, reading, truncated>>

\* greg_walk_single_directory for a directory that was taken.
Descend ==
  /\ phase = "taken"
  /\ IsDir(entry)
  /\ path' = FullPath(entry)
  /\ trail' = <<entry.to>> \o trail
  /\ chain' = <<NewList>> \o chain
  /\ phase' = "load"
  /\ file' = 1
  /\ Open(entry.to, path', 1)
  /\ UNCHANGED <<disk, entry>>

RInit ==
  /\ text \in Texts
  /\ no_ignore \in BOOLEAN /\ hidden \in BOOLEAN
  /\ follow_links \in BOOLEAN /\ d_type \in BOOLEAN
  /\ path = <<".">>
  /\ trail = <<Root>>
  /\ chain = <<NewList>>
  /\ phase = "load"
  /\ file = 1
  /\ \/ rest = Content(Root, path, 1) /\ truncated = FALSE
     \/ Faults /\ rest = <<>> /\ truncated = TRUE
  /\ entry = [name |-> ".", type |-> "dir", to |-> Root]

RNext == ReadLine \/ EndOfFile \/ ReadEntry \/ Descend

RSpec == RInit /\ [][RNext]_rvars

-----------------------------------------------------------------------------
(* Properties.                                                             *)

\* The values of the state.  No rule is written past its array
\* (ignore.c:181-199).
RTypeOK ==
  /\ text \in Texts
  /\ path \in Seq(Names)
  /\ trail \in Seq(Dirs) /\ trail # <<>>
  /\ chain \in Seq(RuleList) /\ Len(chain) = Len(trail)
  /\ phase \in {"load", "walk", "taken", "skipped", "lost"}
  /\ file \in 1..3 /\ rest \in Seq(STRING)
  /\ truncated \in BOOLEAN
  /\ entry \in Entry
  /\ \A i \in DOMAIN chain : Len(chain[i].rules) <= chain[i].capacity

\* Every path that is put together fits its buffer with the terminating NUL.
\* With --follow a link may lead back up; only this bound ends such a walk
\* (walk.c:174-181).
PathsFit ==
  /\ Bytes(path) + 1 <= PathMax
  /\ phase = "taken" => Bytes(FullPath(entry)) + 1 <= PathMax

\* Where the line that begins at position i of a text ends.
EndOfLine(t, i) == Min({Len(t) + 1} \cup {k \in i..Len(t) : t[k] = "\n"})

\* The rules written in an ignore file, in their order, from each position on.
WrittenFrom(t) ==
  LET from[i \in 1..Len(t) + 2] ==
        IF i > Len(t) THEN <<>>
        ELSE Parse(SubSeq(t, i, EndOfLine(t, i) - 1)) \o from[EndOfLine(t, i) + 1]
  IN  from

Written(t) == WrittenFrom(t)[1]

\* Every line, with its terminating NUL, fits the line buffer.
FitsBuffer(t) ==
  \A i \in 1..Len(t) - LineMax + 1 : \E k \in i..i + LineMax - 1 : t[k] = "\n"

Loaded == phase # "load"

\* The rules of a node are those written in .gitignore and then those of
\* .ignore, in order.  A file that cannot be opened or read on and refused
\* memory truncate that file's rules behind some rule and leave no hole: a rule
\* is never dropped while a later one of the same file, which may take it back,
\* is kept (ignore.c:133-203).  Left out: a line too long for its buffer, which
\* is taken for two (ignore.c:137), and a directory whose path leaves no place
\* for the names of its ignore files, which are passed over (ignore.c:230-238).
RulesInOrder ==
  /\ Loaded
  /\ \A n \in {1, 2} : IgnoreFileFits(path, n) /\ FitsBuffer(text[Head(trail)][n])
  =>
    LET first == Written(text[Head(trail)][1])
        second == Written(text[Head(trail)][2])
        rules == chain[1].rules
    IN  \E i \in 0..Len(first), j \in 0..Len(second) :
          /\ rules = SubSeq(first, 1, i) \o SubSeq(second, 1, j)
          /\ ~truncated => i = Len(first) /\ j = Len(second)

\* What the ignore files say of an entry, put as git does: a rule decides when
\* it matches and nothing that matches comes after it in its directory or
\* stands in a directory nearer to the entry.
WrittenIn(i) == Written(text[trail[i]][1]) \o Written(text[trail[i]][2])
RulesHit(i) ==
  {k \in DOMAIN WrittenIn(i) : RuleMatches(WrittenIn(i)[k], FullPath(entry), IsDir(entry))}
IgnoredByFiles ==
  \E i \in DOMAIN trail : \E k \in RulesHit(i) :
    /\ ~WrittenIn(i)[k].is_negation
    /\ \A l \in RulesHit(i) : l <= k
    /\ \A j \in 1..i - 1 : RulesHit(j) = {}

\* What an entry is for a walk that follows links, or one that does not.
Kind == IF entry.type = "link" /\ follow_links THEN Target(entry) ELSE entry.type

\* --hidden alone shows hidden entries (README.md:82, main.c:71); --no-ignore
\* takes back ignore files and the build directories (README.md:80, main.c:69).
Wanted ==
  /\ Kind \in {"dir", "file"}
  /\ Bytes(FullPath(entry)) < PathMax
  /\ entry.name \in DotNames => hidden
  /\ \/ no_ignore
     \/ /\ Kind = "dir" => entry.name \notin BuildDirs
        /\ ~IgnoredByFiles

\* Where the code is known to do something else than the options and the ignore
\* files say:
UnreadRules ==           \* ignore.c:133-134, 200-202, 230-238
  truncated \/ \E n \in {1, 2} : ~IgnoreFileFits(path, n)
SplitLine ==             \* ignore.c:137
  \E i \in DOMAIN trail : \E n \in {1, 2} : ~FitsBuffer(text[trail[i]][n])
AnchoredRule ==          \* ignore.c:299 against ignore.h:11
  \E i \in DOMAIN trail : \E k \in DOMAIN WrittenIn(i) : WrittenIn(i)[k].is_anchored
UnfollowedLink ==        \* walk.c:159
  entry.type = "link" /\ ~follow_links
HiddenUnderNoIgnore ==   \* ignore.c:81 against README.md:80, 82
  no_ignore /\ ~hidden /\ entry.name \in DotNames

Undisturbed ==
  ~(UnreadRules \/ SplitLine \/ AnchoredRule \/ UnfollowedLink \/ HiddenUnderNoIgnore)

\* An entry becomes an item exactly if the ignore files, the defaults and the
\* options want it, whether readdir tells the types of entries or stat has to:
\* what a file system reports does not change what is searched (walk.c:146-205,
\* ignore.c:261-318).  Left out are ignore files that are not read to the end or
\* passed over for the length of their path, lines taken for two, rules anchored
\* with "/", links that are not followed, and hidden entries under --no-ignore
\* without --hidden, which the code takes.
TakesWhatIsWanted ==
  phase \in {"taken", "skipped"} /\ Undisturbed => (phase = "taken" <=> Wanted)

\* "Starts with / (relative to the directory level)" (ignore.h:11): where the
\* only rule of a directory is such a rule for a name, that name is not taken.
AnchoredToItsLevel ==
  phase = "taken" /\ ~no_ignore =>
    ~\E r \in Range(chain[1].rules) :
       /\ chain[1].rules = <<r>>
       /\ r.is_anchored /\ ~r.is_negation /\ ~r.is_dir_only
       /\ r.pattern = <<entry.name>>

=============================================================================
