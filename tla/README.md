# A verification development for greg

greg is a parallel recursive grep in C: a main thread pushes the root of the
search on a shared queue, worker threads pop directories and files from it, walk
the former (pushing what they find) and search the latter. This directory holds
TLA+ models of the parts where it can go wrong in ways a test hardly reaches, the
TLC runs that check them on small instances, and TLAPS proofs for every instance.
Source lines are given as `file:line`, relative to `src/src/` or `src/include/`.

## 1. The system

| component | state | operations | interacts with |
|---|---|---|---|
| Work queue (`queue.c`) | linked list, `size`, `active`, `active_tasks`, slab free list, mutex and condition variable | init, push, push_batch, pop_batch, tasks_done, deactivate, destroy | shared by main and all workers |
| Worker pool (`pool.c`) | threads, per-thread PCRE2 match data | pool_init, worker loop, drain loop, wait_and_destroy | queue, walker, searcher |
| Directory walker (`walk.c`) | open directory, local array of 64 items | walk_single_directory, walk_directory | readdir/stat, ignore tree, queue |
| Ignore tree (`ignore.c`) | nodes with rules, parent pointer, atomic `ref_count` | create, ref, unref, should_ignore | shared by items of all threads |
| Glob matcher (`ignore.c:8-78`) | six pointers | match_glob | should_ignore |
| Ignore rules (`ignore.c`) | list of rules per node | load_ignore_file, default ignores, decision | ignore tree, glob matcher |
| File search (`searcher.c`) | match array (stack, then heap), output buffer | greg_search_file | file view, pattern matcher, printer |
| Printer (`printer.c`) | `match_count`, mutex, stdout | init, print_file | shared by all workers, read by main |
| Pattern matcher (`matcher.c`) | compiled pattern | init, find | PCRE2 |
| File view (`greg_mmap.c`) | descriptor, mapping or heap copy, size | map, unmap | the file system, which may cut the file |
| Command line, lifecycle (`main.c`) | options, what is set up, `walk_rc`, exit status | parse, set up, walk, join, take down | everything |

Behaviours that are hard here: the decision that the search is over (nobody
knows in advance how much work there is), waiting and waking, reference counts
that cross threads, the many places where memory, a thread, a directory or a
file can be refused in the middle of something, buffers at their limit, and the
backtracking of the glob matcher.

What makes each part correct:

* queue: counters agree with the list and with the work in hand; shutdown only at
  quiescence; queued work always has an awake worker; nothing left at the end;
* pool, walker, ignore tree: every item reachable through the ignore rules is
  dealt with exactly once; counts equal the number of holders; no node is used
  after it is freed and none is left; the exit status reflects every file
  searched; the search ends;
* glob: no pointer leaves its string; the answer agrees with the pattern's
  meaning; the loop ends;
* ignore rules and filter: rules in bounds, in the order they are written and
  without a hole when memory runs out or a file cannot be read; an entry is taken
  exactly if the options and the ignore files want it; every path fits its
  buffer;
* file view: a search sees the bytes that were read and no others; descriptor
  and memory are released on every way out;
* command line: every option has the value that was given last; whatever fails,
  nothing is left behind, and no thread outlives what it uses; the exit status
  tells whether lines were found;
* file search: no write past array or buffer; released on every return; the
  report is the first NUM selected lines, or a prefix of that when memory runs
  out; the shared count grows by what is returned.

`PROJECT.json` lists the hazards one by one, each with its line and the
properties that would notice it going wrong, or why none does yet.

## 2. The modules

```
Traversal  <-- implemented by --  GregPool  -- EXTENDS -->  GregQueue  <-- EXTENDS --  SlabQueue
    |                                |                          |                          |
TraversalProofs            MCGregPool, GregPoolProofs    GregQueueProofs    MCGregQueue, SlabQueueProofs

IgnoreRules -- Glob: INSTANCE -->  IgnoreGlob      Searcher -- EXTENDS --> FileView     CommandLine
    |                                  |               |                                    |
MCIgnoreRules,                  MCIgnoreGlob,      MCSearcher,                      MCCommandLine,
IgnoreRulesProofs               IgnoreGlobProofs   SearcherProofs                   CommandLineProofs
```

**GregQueue** is `queue.c` with the protocol of its callers. `queue` is the list
from head to tail; `size`, `active`, `active_tasks` are the fields. Each
operation is one step, because each is one region of the mutex; `greg_cond_wait`
leaves the region, so a worker is in `state` "wait" until `Signalled`, a
broadcast (`Wake(Waiters)`) or `SpuriousWakeup` returns it to the test of
`pop_batch`. `held[w]` is the batch a worker has popped and not reported;
`main` is main's place. A worker in "run" may push any items that are not
outstanding: the environment is as free as the queue allows, and GregPool is
shown to be one such environment. The constant `Faults` says whether memory,
threads and files may be refused (`alloc_node` returning NULL, `pool.c:71,80`).

**SlabQueue** is the memory under that sequence: `list` holds head, tail,
free_list, the slabs and the nodes' fields, and every operation of GregQueue runs
together with what `alloc_node`, `free_node` and the push and pop loops do to the
nodes. The two have nothing in common but the items and `active`, and
`ListIsQueue` compares them. `Contents` reads the items off the nodes from head
on, and `OfNodes` is GregQueue with that in the place of `queue`: what the nodes
do by themselves. A node is refused only when the free list is empty,
the newest slab used up and malloc fails, so pushes leave out fewer items here
than GregQueue allows, and exactly those the code can leave out.

**GregPool** is a whole search. A worker goes through its batch with `idx`; the
item in hand is at `step` "begin", "open" (node created, directory not opened),
"walk" (entries being read, `pos` of them done, `out` the local array) or "free"
(giving back the references in `drops`). `node` and `ref_count` are the ignore
nodes, named by their directory. `drain` holds the workers without match data.
`handled` and `lost` are history: what was searched or opened, and what was
given up. The actions are the queue's, joined with what the thread does between
two of them; one atomic update of a reference count is a step of its own
(`Unref`), so releases by different threads interleave. What the ignore rules
let through is the constant tree `Kids`.

**Traversal** is what that amounts to: a set of items to do, each handled once or
given up, children found when a directory is handled, the end only with nothing
to do. `GregPool!ImplementsTraversal` is the refinement; the mapping is `Phase`
and `ToDo` (queue, batches, local arrays, and entries not yet read).

**IgnoreGlob** is `match_glob`, one action per way round its loop: positions from
1, `Len + 1` for the terminating NUL, 0 for NULL. `Denotes` is the reference: a
run of two or more stars takes anything, a single one anything without a
separator. It is written from what the code treats as the meaning of stars
(`ignore.c:32,55,65`) and as a recursive function, never as the loop.

**IgnoreRules** follows one branch of a walk. In phase "load" `ReadLine` takes
one `fgets` from the ignore file at hand and `Parse`s it into the node's rule
list (`chain[1]`); `EndOfFile` goes from `.gitignore` to `.ignore` and then to
the walk. `ReadEntry` filters any entry of the directory: it is "taken",
"skipped", or "lost" (no memory for its path, or stat fails). `Descend` walks a
directory that was taken, with a new node in front of the chain. Text is a
sequence of tokens, a name being one; a path is its names with "/" between, and
its size in `Bytes` is the sum of the `Length` of each. The names of the ignore
files have lengths of their own (`IgnoreFile`), so that their paths may not fit
where that of an entry does (`IgnoreFileFits`). A file may fail to open (`Open`)
or to be read on (`LeaveOut`); `truncated` remembers it. `Wanted` is written from
what README, usage text and `ignore.h` say; the cases in which the code is known
to differ have a name each (`UnreadRules`, `SplitLine`, `AnchoredRule`,
`UnfollowedLink`, `HiddenUnderNoIgnore`) and are left out by `Undisturbed`.
`match_glob` is the meaning IgnoreGlob checks the loop against; MCIgnoreRules
assumes that the globs of its instance are `Tractable`, where the two agree
(`GlobsAreTractable`). The proofs assume nothing of what a glob matches.

**FileView** is `greg_file_map` and `greg_file_unmap`, one action per system
call: `Open`, `fstat` with its outcomes (`Unusable`, `ViewEmpty`, `StartRead`,
`Map`), `Read` with any number of bytes, `ReadFails`, `EndRead`. `Shrink` is
another process that cuts the file while it is read. `kind` is what the path
names: a regular file, a pipe, whose `Open` waits for a writer (`NeedsWriter`), or
something else. A call interrupted by a signal is made again and changes nothing.
The unit of size is a line.

**Searcher** is `greg_search_file` for one file, on top of a FileView. A file is a sequence of what the
matcher answers for each line and, independently, for the whole buffer. `pc`
follows the function: map, check (binary and pre-check), scan, render, format,
done. `matches`, `matches_cap`, `matches_is_heap` are the array; `ob`, `cap`,
`oom` the output buffer, in pieces (where a match is, what it reads), because a
failure may fall between two appends of one line. `shown`, `listed` and `total`
are what the file adds to stdout and to the printer. `request` is the argument
of `--max-count`, converted as `main.c:98-107` does with ints up to `IntMax`.

**CommandLine** is `main`. The arguments are read one per action into `opts`,
`greg_options_t` with `search_path` and `num_threads`. Then matcher, printer,
queue and pool are set up, each of which may fail; `live` is what is there (the
parts of the queue one by one), `todo` what main still takes down. The search is
one step of the workers (`Search`), which do not wait for main; what happens in
it is GregPool's and Searcher's matter, and it may lose what has the line to
report (no match data, a refused item, a file that does not open, a `-c` report
without a buffer), which `missed` remembers. `HasLine` is what the tree has to
report, `Finds` what a matcher without the just-in-time compiler (`jit`) makes of
it. The properties read the command line by
their own grammar (`IsValue`, `Says`, `Decides`, `Endings`), which looks at all
of it at once.

Operators commented "Faulty variant" are not part of the specifications. Each is
a plausible slip in the operator that follows it and was used to see that the property paired with it in `PROJECT.json`
notices.

## 3. The runs

| run | question | instance |
|---|---|---|
| `queue` | Is the termination protocol right, and does the list of recycled nodes hold the queue? | 3 workers, 5 items, batches and slabs of 2 |
| `pool` | Are coverage, reference counts and exit status right, does the pool implement Traversal and use the queue as GregQueue assumes, and does every search end? | 2 workers, 4 directories, 3 files, an ignored entry |
| `glob` | Does match_glob stay in bounds, answer rightly, never come back to a place, return? | all patterns up to 5, all paths up to 3 characters |
| `ignore` | Are the rules what is written, and is what the walker takes what is wanted? | three directories, a link back up, files of up to two lines, names of one to three bytes |
| `searcher` | Are the reports of one file right under every option and failure, and however the file is cut? | all files up to 3 lines |
| `command_line` | Do options mean what was given, is everything taken down, is the exit status right? | all command lines of up to 2 words of 32, and those of 3 and 4 of fewer words |
| `glob_stars`, `ignore_anchored`, `searcher_exit`, `searcher_num`, `searcher_pipe`, `no_jit` | What comments, README and help promise and the code does not do | as above |

Why the bounds are enough. *queue*: three workers give one that pops, one that
reports and one asleep, the most the protocol tells apart; five items with
batches of two let both a partial and a full batch be pushed and popped while
others are outstanding; slabs of two make three slabs necessary, with a last one
used in part, and let the free list have any order. Threads and items are
interchangeable, so the run uses symmetry. *pool*: two workers suffice for every race on a node
(walker against last child, drain against walker); the chain `r`, `r/a`,
`r/a/b` makes a release recurse through two parents; `r` has more items than
`PushMax`, so the array is flushed in the middle and at the end; `r/c` is empty.
The sizes 32, 64 and 16 of the code are 2, 2 and 1. *glob*: five pattern
characters hold two runs of stars with something between and after them, which
is all the state the four resume pointers have; three path characters hold a
separator with a character on each side. *searcher*: the array starts at 1, so
three matches grow it twice (stack to heap, heap to heap); the buffer starts at
1, so most pieces may fail; ints have 4 bits, with requests that are exact (1,
2), that become negative (9) and that wrap to 1 (17). Files of two lines
are read and may be cut to one or to none, those of three are mapped; what is
no regular file has no lines.
*ignore*: the line buffer holds five tokens, less than one comment of the
instance. The path buffer holds eleven bytes with the NUL; names have one or two,
`.gitignore` three and `.ignore` two: a walk through the link back up reads the ignore
files of a third directory, does not find place for those of a fourth, where
short entries still fit and long ones are skipped, and ends there; rules
start with room for one, so the second grows the array; two lines in a directory
are a rule and one that takes it back, two directories a nearer rule and one
further up. *command_line*: three words suffice for an option, its value and
something after it, four for two options with values, one the value of the
other's look; ints have 4 bits, so that 9 does not fit.

Deadlock is checked in every run: finished systems stutter explicitly (`Stopped`,
`Returned`, `Done`, `Gone` and the queue's `Exited`), so a state without a successor
is an error.

**Fairness.** `pool`, `glob` and `searcher` have liveness properties. `pool` assumes weak fairness of
main (with the creation of threads, which main performs) and of each worker: the
operating system runs a thread that can run, and mutex regions are finite, so a
thread that wants a mutex of this program gets it in time (each competitor has
finitely much to do). It also takes the search of one file to end, which
`SearchReturns` shows for every file but a pipe that nobody writes to; with such
a pipe greg hangs (`searcher_pipe`). Nothing is assumed of spurious wakeups, and
nothing of failures: the search ends whether they occur or not. `glob` assumes weak
fairness of the loop, which runs on its own thread and blocks on nothing.
`searcher` assumes weak fairness of what the search does by itself (`Progress`):
the thread runs and system calls return, except the open of a pipe, which waits
for a writer; that one comes, that the file is cut or that a read fails is never
assumed, so a read loop that only an error could end would be noticed.

**Findings.** Six runs end in a violation on purpose.

* `no_jit`: `greg_matcher_find` calls `pcre2_jit_match` whatever
  `pcre2_jit_compile` returned (`matcher.c:62,83`). Without the just-in-time
  compiler every answer is an error, nothing matches and greg exits with 1, where
  `matcher.c:59-61,69` promises the interpreted matcher.
* `ignore_anchored`: an anchored rule is compared with the whole path
  (`ignore.c:293,299`), which begins with the path given on the command line, so
  `/f` in `.gitignore` has no effect on the `f` beside it.
* `glob_stars`: a trailing `*` returns at once (`ignore.c:36-39`) and never goes
  back to an earlier `**`: `**/a*` does not match `x/a/ab`. For the patterns of
  `Tractable`, which leaves these out (and `?` next to `*` where the path has a
  separator), the `glob` run finds every mismatch right.
* `searcher_num`: `--max-count` is narrowed to int (`main.c:105`).
* `searcher_exit`: with `-c` and no memory for the buffer, matches are not
  counted for the exit status (`searcher.c:220`, compare 259).
* `searcher_pipe`: the kind of a file is looked at after `open`
  (`greg_mmap.c:95,107`), and the open of a pipe waits for a writer, so the comment
  at `greg_mmap.c:104-106`, that such files are skipped because reading them can
  block, does not help a worker that is sent to one: as the root of the search, or
  through a link (`walk.c:159`).

**Divergences seen without a run of their own**, each left out of a property by a
condition that its comment names:

* `-F` sets PCRE2_LITERAL, and MULTILINE is always added (`matcher.c:37-41`);
  PCRE2 allows few options with a literal pattern and that one is not among them,
  so `-F` always ends with a pattern error, whatever README.md:71 says of it
  (`Compiles` has it; no property speaks of it);
* the pre-check skips a file of which a line matches by itself but the buffer does
  not, as with `\Afoo` (`searcher.c:118-124`; `SkippedBefore`, in
  `ReportsExactly`);
* `-l` with `-c` shows a count line for a file without a match that passed the
  pre-check (`searcher.c:218`), although `-l` asks for names only
  (`ReportsExactly`);
* under `-c` a number that is too small is shown, with a warning, after the array
  of matches could not grow (`searcher.c:186,213`; `TruncatedNotGarbled`);
* a symbolic link to a file is searched without `--follow` where `readdir` tells
  its type (`walk.c:159`), and not where it does not (`UnfollowedLink`);
* `--no-ignore` also switches off the defaults of `greg_is_default_ignored`
  (`ignore.c:81`), so hidden files are searched without `--hidden`, which
  README.md:80,82 and `main.c:69,71` keep apart (`HiddenUnderNoIgnore`);
* a line of an ignore file that is longer than the buffer is taken for several
  (`ignore.c:137`; `SplitLine`, and `FitsBuffer` in `RulesInOrder`);
* where `<dir>/.gitignore` does not fit the path buffer the rules of a directory
  are not read, nor where the file cannot be opened or read to its end; the first
  two are silent (`ignore.c:133-134,200-202,230-238`; `UnreadRules`);
* the buffer of a file that is cut to nothing between fstat and read is not
  freed (`greg_mmap.c:147,173`; the exception in `NothingHeld`).

## 4. The proofs

All for arbitrary constants that satisfy the named assumptions, which TLC also
evaluates on each instance.

* **GregQueueProofs** (from `QueueAssumption`). `QInv` is inductive: types,
  exact counts, exclusive hand-out, quiescent shutdown, no lost wakeup, and two
  parts that no property of the runs contains. `WorkerStanding`: a worker is in
  "run" exactly while its batch is not empty, and leaves only when the queue is
  inactive; without it `tasks_done` could subtract from a count of 0.
  `MainStanding`: nothing is outstanding before the root is pushed, and from
  then on something is until the shutdown; this is what makes "active with
  nothing outstanding", where everybody would sleep, unreachable. The counting
  part also keeps `Outstanding` finite, which cardinalities need. All seven
  properties of the `queue` run follow, as theorems.
* **TraversalProofs**. Separation and accounting are inductive; with `Tree` and
  `Connected` a finished traversal that gave nothing up has handled the tree.
  The theorem is about every implementation of Traversal.
* **GregPoolProofs** (from `PoolAssumption`, `TreeAssumption` and, as `PopMax` is
  the queue's, `QueueAssumption`). The pool implements GregQueue and Traversal,
  so the queue's theorems hold of it and `FullCoverage` follows from
  TraversalComplete; the reference counts, the release of every node and the
  exit status are proved of it directly. The inductive invariant is `PInv`:
  `QInv` of the queue, `TInv` of the traversal (under the mapping), `PoolShape`
  and `Counts(d)` of every directory. Its parts are needed together.
  `Placed` ties a worker's step to what it has in hand. `Fresh` says that what a
  walker has found and not pushed is not outstanding: the guard of the queue's
  push, which the code does not test and the tree supplies; it needs the
  traversal's separation to stay true. `Recorded` says that the items behind a
  worker's position are handled or lost, so that reporting the batch forgets
  nothing. `NodesInOrder` says that nodes come into being with their walkers,
  so that a freed one never returns. `Counts` is exact: a node's count is the
  cardinality of its holders, and a node that is not live has none. The holders
  are of four kinds (the walker inside, items, child nodes, releases under
  way), and an action moves one holder from one kind to another or adds and
  removes some; there is a lemma on the cardinality for each such change.
  `NodesFreed` follows at the end: nothing but a live child can hold a live
  node then; a child has one parent, so taking a child of each maps the finite
  set of live nodes onto itself and each of them has a live parent too; the rest
  of the tree thus contains the root and all children of its members, and by
  connectedness everything.
* **SlabQueueProofs** (from `QueueAssumption` and `SlabAssumption`). `Good` says
  that the memory is in accord with the queue: there is a chain of nodes from
  head to tail that holds the items of `queue` one by one, a second chain of the
  nodes given back, the two have no node in common (`Holding`), and together
  with the nodes an operation has in hand they are all that was ever cut from a
  slab (`Accounted`). A push takes its nodes and a pop gives them back one by
  one, in recursive functions of the model (`Stores`, `TakeNodes`); that such a
  function takes the values its equation says follows from well-foundedness, and
  each round then keeps `Good`. That the nodes never run out is part of it: one
  is cut only when none is free, so there are never more than the longest queue
  had items. `ListIsQueue` and `NodesAccounted` follow. `NodesServeQueue` is that
  the nodes alone implement GregQueue: `SSpec => OfNodes!QSpec`, where the
  sequence is not the variable `queue` but what stands in the list from head on,
  which carries every theorem about the queue over to its nodes.
* **IgnoreGlobProofs** (from `GlobAssumption`): `InBounds`, with the existence
  of the position that skipping stars reaches, from well-foundedness; `Sound`;
  `CompleteWhenTractable`; and `RoundsGoOn`. For `Sound` the invariant says what a match of the rest would mean,
  from wherever the loop can stand (`Meant`): if the rest of the pattern denotes
  the rest of the string then the whole denotes the whole, at the current
  position and at both resume positions, for any later place in the string (for
  a single star, any that no separator lies before). For
  `CompleteWhenTractable` it is `Shape`, by which pattern and string went on
  side by side since the last `*` (`SideBySide`) or that `*` stands before a
  separator and can take no more (`Blocked`), with `Hope`: as long as the whole matches, one way
  to a match is open, from the current position or by one of the two stars
  taking more (`Ahead`). A `*` that is passed forgets the one before it; nothing
  is lost, since its earliest place is as good as any (`EarliestIsBest`).
  `RoundsGoOn` orders the places of the loop lexicographically (`Place`), by
  `StarsInOrder`; they are bounded by `InBounds`, so what `Returns` needs beyond
  it is only that the thread runs.
* **IgnoreRulesProofs** (from `RulesAssumption`): all four properties of the
  `ignore` run, the last outside the five cases that `Undisturbed` names. The
  size of a path is a cardinality, so that an entry adds its length to it
  (`BytesOfPath`) without an induction. `RInv` has five parts: `Typed`, with every list of rules within
  its capacity; `PathsFit`; `Filtered`, an entry was taken exactly if the filter
  did not skip it; `Ordered`, the rules read so far from the files of the
  directory at hand, with those still in the text behind the position of
  `fgets`, are the rules written, unless something failed (`ReadSoFar`,
  `Underway`, `Part`); and `Above`, the rules of the directories further up are
  those written there, as their ignore files fit where those of the directory at
  hand do (`FitsAbove`). What is written in a text and what a list of rules
  decides are recursive; the equations are solved by well-foundedness, and
  `Verdict` puts the second as the last of the rules that match.
* **SearcherProofs** (from `SearcherAssumption`): every safety property of the
  `searcher` run. `SInv` has the bounds, release and counting. `ViewInv` says
  what a file view always satisfies; it is preserved by every call and by every
  cut of the file. `Unfinished` is the strengthening: nothing is counted before
  the end, the array stays on the stack until the scan and can grow until the
  scan ends, and the buffer is open exactly while the report is formatted and
  has room for something. `RepInv` adds the report. `Scanned`: the matches
  stored are the lines selected among those passed, fewer than NUM while the
  scan goes on, and the wanted lines when it ends, or a beginning of them if the
  array could not grow. `Formatted`: the buffer holds the first pieces of the
  report on these matches, as many as were appended until memory ran out.
  `Reported`: what was shown when the search is over. `ReportsExactly` and
  `TruncatedNotGarbled` follow. A report is flattened from the pieces of its
  lines; `IsRun` gives the flattening its values and `JoinedGrows` says that
  more lines only make it longer.
* **CommandLineProofs** (from `WordsAssumption` and `CommandLineAssumption`;
  `CInv` needs neither): every property of the `command_line` run, by three
  invariants. `CInv` says what is live wherever main stands, and which parts of
  `todo` go with it; threads run only in the cases where everything is there.
  `RInv` says of the command line read so far (`ReadUpTo`) that nothing in it
  ends the reading and that every option has the value of the last argument
  about it, or its default (`Faithful`). Which arguments are values of the one
  before is a recursion in the grammar; it is solved by the parity of the run of
  options that stands before an argument (`OddRun`). `SInv` says what the count
  of matches is worth wherever main takes things down (`Reckoning`), more than 0
  only with a line to report and always then if nothing was missed, so that the
  status follows when it returns.

Recursive functions occur in the models as ordinary functions. Facts about them
are proved by taking a least counterexample (`WFMin`, from the
well-foundedness of `<` on Nat), since the library's induction theorems need an
operator as a parameter, which the provers here do not instantiate.

Only model-checked: the liveness properties (`Terminates`, `SearchReturns`,
`Returns`), because the prover does not treat fairness. For `Returns` the part
that does not need it is proved as `RoundsGoOn`.

## 5. Not modelled

The Windows variants (`walk.c:13-120`, first half of `greg_mmap.c` and
`greg_thread.c`): same protocol, other system calls. Layout and colours of the
output, and the texts of usage and errors. PCRE2. What `fflush` at `main.c:299`
returns is ignored by the code, and output that cannot be written is not
modelled. A mapped file that is cut while it is scanned: the process gets a
signal, for which it has no handler. A mapped file whose contents change while
it is scanned. The mutex: it is the atomicity of the steps. Memory ordering of
`ref_count`: the builtins used are full barriers.

## 6. Plan

Done: all modules of section 2, and proofs of every safety property that a
passing run checks.

Next:

1. a progress measure for the search of a file and for the pool, like
   `RoundsGoOn`: each step of a thread leaves less to do, so that `Terminates`
   and `SearchReturns` rest on the scheduling alone;
2. `match_glob` of IgnoreRules by the loop itself on tractable globs: GlobSound
   and GlobComplete together, used where `GlobsAreTractable` is assumed.
