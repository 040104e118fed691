--------------------------- MODULE MCIgnoreRules ---------------------------
(* A directory with a file, two directories, a hidden file, a device and a *)
(* dangling link; the directory "sub" has files and a link back up.        *)
EXTENDS IgnoreRules

File(n) == [name |-> n, type |-> "file", to |-> "file"]
Dir(n, d) == [name |-> n, type |-> "dir", to |-> d]
Link(n, t) == [name |-> n, type |-> "link", to |-> t]

MCEntries ==
  [d \in {"top", "sub", "out"} |->
     CASE d = "top" -> {File("f"), Dir("sub", "sub"), Dir("build", "out"), File(".h"),
                        [name |-> "dev", type |-> "other", to |-> "other"],
                        Link("gone", "none")}
       [] d = "sub" -> {File("f"), File("build"), Link("up", "top")}
       [] d = "out" -> {File("f")}]

\* The path of "./sub/up" leaves place for its ignore files, that of
\* "./sub/up/sub" only for a short entry.
MCLength ==
  [n \in Names \cup Range(IgnoreFile) |->
     CASE n = ".gitignore" -> 3
       [] n \in {".ignore", "build", "up"} -> 2
       [] OTHER -> 1]

\* The lines of an ignore file; the comment is longer than the line buffer.
MCLines ==
  { <<"f">>, <<" ", "!", " ", "f">>, <<"/", "f">>, <<"sub", "/">>,
    <<"#", "a", "b", "c", "a", "f">>, <<"*">> }

Ended(line) == line \o <<"\n">>
NoFile == <<>>
OneLine == {Ended(l) : l \in MCLines} \cup {Ended(<<"!", "/">>), NoFile}
TwoLines ==
  OneLine \cup {Ended(l) \o m : l \in MCLines, m \in {<<"f">>, <<" ", "!", " ", "f">>, <<"*">>}}

\* The globs are Tractable, in the words of IgnoreGlob, for every path: no two
\* stars in a row and no question mark.
ASSUME GlobsAreTractable ==
  \A l \in MCLines : \A i \in DOMAIN l :
    l[i] # "?" /\ (l[i] = "*" => i = Len(l) \/ l[i + 1] # "*")

\* .gitignore and .ignore of the top directory, and .gitignore below it.
MCTops == TwoLines \X {NoFile} \cup OneLine \X {<<"f">>}

MCTexts ==
  {[d \in {"top", "sub", "out"} |->
      CASE d = "top" -> t
        [] d = "sub" -> <<s, NoFile>>
        [] d = "out" -> <<NoFile, NoFile>>] :
     t \in MCTops,
     s \in {NoFile, <<"!", "f", "\n">>}}

=============================================================================
