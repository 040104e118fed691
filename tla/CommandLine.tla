----------------------------- MODULE CommandLine -----------------------------
(***************************************************************************)
(* main of src/src/main.c: the command line is read argument by argument,  *)
(* then matcher, printer, queue and pool are set up one after the other,   *)
(* the search runs in the pool, and what was set up is taken down again.   *)
(*                                                                         *)
(* An argument is an atom, and the short spelling of an option stands for  *)
(* the long one too.  What a worker does with the tree is the business of  *)
(* GregPool; here it is whether there is a line to report.                 *)
(***************************************************************************)
EXTENDS Integers, Sequences, FiniteSets

CONSTANTS
  Argvs,       \* the command lines tried, without the program's name
  Numbers,     \* a function from the words strtol accepts to their value
  IntMax,      \* the largest int (2^31 - 1); long is wider
  MaxThreads,  \* GREG_MAX_THREADS (256)
  Cores,       \* what get_cpu_cores returns
  Empty,       \* the empty word
  Upper,       \* the words with an upper-case letter
  Malformed,   \* the words that are no regular expression
  Unknown      \* the words that begin with a dash and name no option

ASSUME CommandLineAssumption ==
  /\ IntMax \in Nat /\ MaxThreads \in 1..IntMax /\ Cores \in 1..IntMax
  /\ \A w \in DOMAIN Numbers : Numbers[w] \in Int

VARIABLES
  argv, tty,   \* what main is given: the arguments, and whether stdout is a tty
  tree,        \* has the tree lines that match the pattern, and others?
  jit,         \* can the linked libpcre2 compile just in time?
  i,           \* the argument to be read
  opts,        \* greg_options_t with search_path and num_threads
  positionals, \* parsed_positionals
  pc,          \* where main stands
  live,        \* what is set up and not yet taken down
  running,     \* the worker threads that have not returned
  todo,        \* what main still takes down
  active, work,   \* the queue: is it active, and does it hold the root?
  match_count,    \* of the printer
  missed,         \* history: was something in the tree not searched?
  total_matches, walk_rc, status  \* of main

args == <<argv, tty, tree, jit>>
parsing == <<i, opts, positionals>>
search == <<running, active, work, match_count, missed, walk_rc>>
ending == <<total_matches, status>>
cvars == <<args, parsing, pc, live, todo, search, ending>>

Unset == -1    \* total_matches and status before they are assigned
NULL == "NULL" \* a pattern that was not given

-----------------------------------------------------------------------------
(* The options.                                                            *)

Valued == {"-m", "-j", "--color"}
Informs == {"-h", "--version"}

\* The fields an option without a value sets.
Switch ==
  [o \in {"-i", "-S", "--no-smart-case", "-v", "-F", "--heading", "--no-heading",
          "-n", "-N", "-l", "-c", "-a", "--raw", "--no-ignore", "--follow",
          "--hidden"} |->
     CASE o = "-i" -> [case_insensitive |-> 1]
       [] o = "-S" -> [smart_case |-> 1]
       [] o = "--no-smart-case" -> [smart_case |-> 0]
       [] o = "-v" -> [invert_match |-> 1]
       [] o = "-F" -> [fixed_strings |-> 1]
       [] o = "--heading" -> [heading |-> 1]
       [] o = "--no-heading" -> [heading |-> 0]
       [] o = "-n" -> [show_line_numbers |-> 1]
       [] o = "-N" -> [show_line_numbers |-> 0]
       [] o = "-l" -> [files_with_matches |-> 1]
       [] o = "-c" -> [count_only |-> 1]
       [] o = "-a" -> [search_binary |-> 1]
       [] o = "--raw" -> [raw |-> 1, color_enabled |-> 0, heading |-> 0]
       [] o = "--no-ignore" -> [no_ignore |-> 1]
       [] o = "--follow" -> [follow_links |-> 1]
       [] o = "--hidden" -> [hidden |-> 1]]

\* The words that begin with a dash and have more to them.
Dashed == DOMAIN Switch \cup Valued \cup Informs \cup Unknown

ASSUME WordsAssumption ==
  /\ \A a \in Argvs : a \in Seq({a[k] : k \in DOMAIN a})
  /\ Unknown \cap (DOMAIN Switch \cup Valued \cup Informs) = {}

Defaults(terminal) ==
  LET shown == IF terminal THEN 1 ELSE 0
  IN  [case_insensitive |-> 0, smart_case |-> 1, invert_match |-> 0,
       fixed_strings |-> 0, heading |-> shown, show_line_numbers |-> shown,
       color_enabled |-> shown, files_with_matches |-> 0, search_binary |-> 0,
       raw |-> 0, count_only |-> 0, max_count |-> 0, no_ignore |-> 0,
       follow_links |-> 0, hidden |-> 0, pattern |-> NULL,
       search_path |-> ".", num_threads |-> Cores]

\* The options o with the fields of e replaced.
With(o, e) == [f \in DOMAIN o |-> IF f \in DOMAIN e THEN e[f] ELSE o[f]]

\* Faulty variant: the field is as wide as a long.
KeepsLong(n) == n

\* A long as an int.
AsInt(n) == ((n + IntMax + 1) % (2 * (IntMax + 1))) - (IntMax + 1)

Positive(w) == w \in DOMAIN Numbers /\ Numbers[w] >= 1

\* Is the word w accepted as the value of the option o, and what does it set?
Accepts(o, w) ==
  CASE o = "-m" -> Positive(w)
    [] o = "-j" -> Positive(w) /\ Numbers[w] <= MaxThreads
    [] o = "--color" -> w \in {"always", "never"}

SetBy(o, w) ==
  CASE o = "-m" -> [max_count |-> AsInt(Numbers[w])]
    [] o = "-j" -> [num_threads |-> Numbers[w]]
    [] o = "--color" -> [color_enabled |-> IF w = "always" THEN 1 ELSE 0]

-----------------------------------------------------------------------------
(* Reading the command line.                                               *)

CInit ==
  /\ argv \in Argvs
  /\ tty \in BOOLEAN
  /\ tree \in [match : BOOLEAN, other : BOOLEAN]
  /\ jit \in BOOLEAN
  /\ i = 1
  /\ opts = Defaults(tty)
  /\ positionals = 0
  /\ pc = "parse"
  /\ live = {}
  /\ running = 0
  /\ todo = <<>>
  /\ active = FALSE /\ work = FALSE
  /\ match_count = 0 /\ missed = FALSE
  /\ total_matches = Unset /\ walk_rc = 0 /\ status = Unset

Exit(code) == pc' = "exit" /\ status' = code

\* main returns before anything is set up.
Leave(code) ==
  /\ Exit(code)
  /\ UNCHANGED <<args, parsing, live, todo, search, total_matches>>

Arg == argv[i]
Given(S) == pc = "parse" /\ i <= Len(argv) /\ Arg \in S

Continue(next, o) ==
  /\ i' = next
  /\ opts' = o
  /\ UNCHANGED <<args, pc, live, todo, search, ending>>

ReadSwitch ==
  /\ Given(DOMAIN Switch)
  /\ Continue(i + 1, With(opts, Switch[Arg]))
  /\ UNCHANGED positionals

\* Faulty variant: the value is left to be read again.
AfterOption(k) == k + 1

\* Where reading goes on after an option with a value.
AfterValue(k) == k + 2

ReadValued ==
  /\ Given(Valued)
  /\ IF i < Len(argv) /\ Accepts(Arg, argv[i + 1])
     THEN /\ Continue(AfterValue(i), With(opts, SetBy(Arg, argv[i + 1])))
          /\ UNCHANGED positionals
     ELSE Leave(1)

Inform == Given(Informs) /\ Leave(0)

RefuseOption == Given(Unknown) /\ Leave(1)

\* The first word is the pattern, the second the path, and a third too many.
ReadPositional ==
  /\ pc = "parse" /\ i <= Len(argv) /\ Arg \notin Dashed
  /\ IF positionals < 2
     THEN /\ Continue(i + 1, With(opts, IF positionals = 0 THEN [pattern |-> Arg]
                                        ELSE [search_path |-> Arg]))
          /\ positionals' = positionals + 1
     ELSE Leave(1)

Parsed ==
  /\ pc = "parse" /\ i > Len(argv)
  /\ IF opts.pattern = NULL THEN Leave(1)
     ELSE /\ pc' = "matcher"
          /\ UNCHANGED <<args, parsing, live, todo, search, ending>>

-----------------------------------------------------------------------------
(* Setting up.  Every part can be refused memory, a mutex or a thread.     *)

Caseless(o) ==
  o.case_insensitive = 1 \/ (o.smart_case = 1 /\ o.pattern \notin Upper)

CompileOptions(o) ==
  {"MULTILINE"} \cup (IF Caseless(o) THEN {"CASELESS"} ELSE {})
                \cup (IF o.fixed_strings = 1 THEN {"LITERAL"} ELSE {})

\* pcre2_compile: a literal pattern goes with few other options, and a
\* multiline one is not among them.
Compiles(word, options) ==
  IF "LITERAL" \in options THEN options \subseteq {"LITERAL", "CASELESS"}
  ELSE word \notin Malformed

\* main goes on with the part that comes next.
SetUp(part, next) ==
  /\ pc' = next
  /\ live' = live \cup part
  /\ UNCHANGED <<args, parsing, todo, ending>>

\* What greg_matcher_init rejects is not freed either: there is no code.
greg_matcher_init ==
  /\ pc = "matcher"
  /\ IF opts.pattern # Empty /\ Compiles(opts.pattern, CompileOptions(opts))
     THEN SetUp({"matcher"}, "printer") /\ UNCHANGED search
     ELSE Leave(1)

\* A part could not be set up: what is there is taken down, in this order.
Undo(parts) ==
  /\ pc' = "cleanup"
  /\ todo' = parts
  /\ UNCHANGED <<args, parsing, search, ending>>

greg_printer_init ==
  /\ pc = "printer"
  /\ SetUp({"printer"}, "queue")
  /\ match_count' = 0
  /\ UNCHANGED <<running, active, work, missed, walk_rc>>

PrinterFails ==
  /\ pc = "printer"
  /\ Undo(<<"matcher">>)
  /\ UNCHANGED live

greg_queue_init ==
  /\ pc = "queue"
  /\ SetUp({"mutex", "cond"}, "pool")
  /\ active' = TRUE
  /\ UNCHANGED <<running, work, match_count, missed, walk_rc>>

\* Faulty variant: the mutex is kept although there is no condition variable.
UndoneKeepsMutex(got) == {}

\* What greg_queue_init gives back of the parts it got before it failed.
Undone(got) == got

QueueFails ==
  /\ pc = "queue"
  /\ \E got \in {{}, {"mutex"}} : live' = live \cup (got \ Undone(got))
  /\ Undo(<<"printer", "matcher">>)

\* As many threads as were asked for, or as could be had.
Threads(n) == IF n < 1 THEN 1 ELSE n

greg_pool_init ==
  /\ pc = "pool"
  /\ running' \in 1..Threads(opts.num_threads)
  /\ SetUp({"pool"}, "walk")
  /\ UNCHANGED <<active, work, match_count, missed, walk_rc>>

\* Faulty variant: the queue is left behind.
UndoWithoutQueue == <<"printer", "matcher">>

UndoQueue == <<"queue", "printer", "matcher">>

PoolFails ==
  /\ pc = "pool"
  /\ Undo(UndoQueue)
  /\ UNCHANGED live

-----------------------------------------------------------------------------
(* The search.                                                             *)

\* Faulty variants: the workers outlive what they use, and the matches are
\* counted before the workers are joined.
PrinterFirst == <<"printer", "pool", "queue", "count", "matcher">>
CountFirst == <<"count", "pool", "queue", "printer", "matcher">>

\* What main does once the root is with the workers.
InOrder == <<"pool", "queue", "count", "printer", "matcher">>

\* The root is pushed, or it cannot be and the queue is deactivated.
greg_walk_directory ==
  /\ pc = "walk"
  /\ \/ walk_rc' = 0 /\ work' = TRUE /\ UNCHANGED active
     \/ walk_rc' = -1 /\ active' = FALSE /\ UNCHANGED work
  /\ pc' = "cleanup"
  /\ todo' = InOrder
  /\ UNCHANGED <<args, parsing, live, running, match_count, missed, ending>>

\* Is there a line to report?
HasLine == IF opts.invert_match = 1 THEN tree.other ELSE tree.match

\* Without code compiled just in time pcre2_jit_match answers every question
\* with an error, which is neither a match nor the lack of one.
Finds == jit /\ HasLine

Found == match_count + (IF Finds THEN 1 ELSE 0)

\* The workers go through the tree; the last item ends the queue.  On the way
\* they may lose what has the line: a worker without match data discards its
\* items, a push can be refused, a file or directory need not open, and a -c
\* report without a buffer is not counted.
Search ==
  /\ running > 0 /\ active /\ work
  /\ \/ match_count' = Found /\ UNCHANGED missed
     \/ match_count' \in {match_count, Found} /\ missed' = TRUE
  /\ work' = FALSE /\ active' = FALSE
  /\ UNCHANGED <<args, parsing, pc, live, running, todo, walk_rc, ending>>

WorkerReturns ==
  /\ running > 0 /\ ~active
  /\ running' = running - 1
  /\ UNCHANGED <<args, parsing, pc, live, todo, active, work, match_count, missed,
                 walk_rc, ending>>

-----------------------------------------------------------------------------
(* Taking down.                                                            *)

Holds(part) == IF part = "queue" THEN {"mutex", "cond"} ELSE {part}

\* greg_pool_wait_and_destroy waits for every thread.
TakeDown ==
  /\ pc = "cleanup" /\ todo # <<>>
  /\ Head(todo) = "pool" => running = 0
  /\ live' = live \ Holds(Head(todo))
  /\ todo' = Tail(todo)
  /\ total_matches' = IF Head(todo) = "count" THEN match_count ELSE total_matches
  /\ UNCHANGED <<args, parsing, pc, search, status>>

\* The value main returns: 1 after a part that could not be set up, too.
StatusOf(rc, total) == IF rc # 0 \/ total \in {Unset, 0} THEN 1 ELSE 0

Return ==
  /\ pc = "cleanup" /\ todo = <<>>
  /\ Exit(StatusOf(walk_rc, total_matches))
  /\ UNCHANGED <<args, parsing, live, todo, search, total_matches>>

\* The process has exited.
Gone == pc = "exit" /\ UNCHANGED cvars

CNext ==
  \/ ReadSwitch \/ ReadValued \/ Inform \/ RefuseOption \/ ReadPositional \/ Parsed
  \/ greg_matcher_init \/ greg_printer_init \/ PrinterFails
  \/ greg_queue_init \/ QueueFails \/ greg_pool_init \/ PoolFails
  \/ greg_walk_directory \/ Search \/ WorkerReturns \/ TakeDown \/ Return \/ Gone

CSpec == CInit /\ [][CNext]_cvars

-----------------------------------------------------------------------------
(* The command line as a reader of the usage text takes it.                *)

\* Is the argument at a position the value of the option before it?
IsValue[k \in Nat] == k > 1 /\ argv[k - 1] \in Valued /\ ~IsValue[k - 1]

Options == {k \in DOMAIN argv : ~IsValue[k] /\ argv[k] \in Dashed}
Words == {k \in DOMAIN argv : ~IsValue[k] /\ argv[k] \notin Dashed}

\* The word that stands at the nth place among the words.
IsWord(k, n) == k \in Words /\ Cardinality({j \in Words : j <= k}) = n

\* The first argument after which nothing more is read.
Bad(k) ==
  \/ argv[k] \in Unknown
  \/ argv[k] \in Valued /\ ~(k < Len(argv) /\ Accepts(argv[k], argv[k + 1]))
  \/ \E n \in 3..Len(argv) : IsWord(k, n)
Ends(k) == argv[k] \in Informs \/ Bad(k)
IsFirst(k, S) == k \in S /\ \A j \in S : k <= j
Endings == {k \in Options \cup Words : Ends(k)}
Informed == \E k \in Endings : IsFirst(k, Endings) /\ argv[k] \in Informs

\* What the argument at k says about the options; a number is taken as it is
\* written.
Says(k) ==
  CASE argv[k] \in DOMAIN Switch -> Switch[argv[k]]
    [] argv[k] = "-m" -> [max_count |-> Numbers[argv[k + 1]]]
    [] argv[k] \in Valued \ {"-m"} -> SetBy(argv[k], argv[k + 1])
    [] IsWord(k, 1) -> [pattern |-> argv[k]]
    [] IsWord(k, 2) -> [search_path |-> argv[k]]

\* The last argument that says something about a field decides.
Decides(k, f) ==
  /\ k \in Options \cup Words /\ f \in DOMAIN Says(k)
  /\ \A j \in Options \cup Words : j > k => f \notin DOMAIN Says(j)

\* The one field that is narrower than what was read into it (main.c:105).
TooWide(f, n) == f = "max_count" /\ n > IntMax

-----------------------------------------------------------------------------
(* Properties.                                                             *)

\* The values the variables take; max_count and num_threads are C ints.
CTypeOK ==
  /\ i \in 1..(Len(argv) + 1)
  /\ opts.max_count \in (-IntMax - 1)..IntMax
  /\ opts.num_threads \in 1..IntMax
  /\ \A f \in DOMAIN opts \ {"max_count", "num_threads", "pattern", "search_path"} :
       opts[f] \in {0, 1}
  /\ positionals \in 0..2
  /\ pc \in {"parse", "matcher", "printer", "queue", "pool", "walk", "cleanup", "exit"}
  /\ live \subseteq {"matcher", "printer", "mutex", "cond", "pool"}
  /\ running \in 0..IntMax
  /\ active \in BOOLEAN /\ work \in BOOLEAN
  /\ match_count \in Nat /\ missed \in BOOLEAN
  /\ total_matches \in Nat \cup {Unset}
  /\ walk_rc \in {0, -1}
  /\ status \in {0, 1, Unset}

\* Once the command line is read (main.c:142-239), every option has the value
\* that the last argument about it gives, or its default; a value that looks
\* like an option or like a path is neither.  Left out: a --max-count that
\* does not fit an int, which is cut to its low bits.
OptionsAsGiven ==
  pc = "matcher" =>
    \A f \in DOMAIN opts :
      IF \E k \in DOMAIN argv : Decides(k, f)
      THEN \E k \in DOMAIN argv :
             Decides(k, f) /\ (opts[f] = Says(k)[f] \/ TooWide(f, Says(k)[f]))
      ELSE opts[f] = Defaults(tty)[f]

\* Whatever could not be set up, main leaves nothing behind when it returns:
\* no thread, no mutex, no condition variable, no compiled pattern
\* (main.c:248-294, queue.c:40-44).
CleanExit == pc = "exit" => live = {} /\ running = 0

\* A worker thread never outlives the matcher, the printer and the queue it
\* was started with (main.c:289-294).
WorkersHaveTheirResources ==
  running > 0 => {"matcher", "printer", "mutex", "cond", "pool"} \subseteq live

\* The root was handed to the workers, and main knows their count.
Walked == total_matches # Unset /\ walk_rc = 0

\* main returns 0 only when it was asked for help or its version before
\* anything was wrong with the command line, or when the path was walked and
\* has a line to report; and it does then return 0, even if main is ahead of
\* its workers (main.c:215-220, main.c:281-313).  Left out of the second half:
\* a search that lost something, whose status may be 1 although the tree has
\* the line (pool.c:22, queue.c:114-121, searcher.c:101, searcher.c:220), and
\* a libpcre2 that cannot compile just in time, see FallsBack.
StatusMeans ==
  pc = "exit" =>
    /\ status = 0 => Informed \/ (Walked /\ HasLine)
    /\ Informed \/ (Walked /\ HasLine /\ ~missed /\ jit) => status = 0

\* matcher.c:59-61: without the just-in-time compiler greg falls back to the
\* interpreted matcher, so that a search that loses nothing finds its lines.
FallsBack ==
  pc = "exit" /\ Walked /\ ~missed /\ HasLine => status = 0

=============================================================================
