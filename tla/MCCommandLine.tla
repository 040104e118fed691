--------------------------- MODULE MCCommandLine ---------------------------
(* Every command line of two arguments, and longer ones of fewer words.   *)
EXTENDS CommandLine

MCNumbers == [w \in {"0", "2", "9", "-1"} |->
                CASE w = "0" -> 0 [] w = "2" -> 2 [] w = "9" -> 9 [] w = "-1" -> -1]

MCArguments == DOMAIN Switch \cup Valued \cup Informs
                 \cup {"-x", "-1", "p", "P", "", "(", "0", "2", "9", "never", "dir"}
MCFew == {"-m", "-j", "--color", "--raw", "-v", "--heading", "-F", "--version", "p", "2"}
MCFewer == {"-m", "-j", "--raw", "--heading", "-v", "p", "2"}

MCArgvs == UNION {[1..n -> MCArguments] : n \in 0..2}
             \cup [1..3 -> MCFew] \cup [1..4 -> MCFewer]

=============================================================================
