------------------------------ MODULE GregPool ------------------------------
(***************************************************************************)
(* A whole search by greg: the worker threads of src/src/pool.c pop work   *)
(* from the queue of GregQueue, walk directories (src/src/walk.c), search  *)
(* files, share the reference-counted nodes that carry the ignore rules of *)
(* each directory (src/src/ignore.c), and main (src/src/main.c) joins them *)
(* and chooses the exit status.                                            *)
(*                                                                         *)
(* An ignore node is named by its directory: greg walks a directory once.  *)
(* One step is one queue operation, one system call or one atomic update   *)
(* of a reference count, with the thread-local work around it.             *)
(***************************************************************************)
EXTENDS GregQueue, SequencesExt

CONSTANTS
  Dirs, Files,   \* the directories and files of the tree, as paths
  Root,          \* the path given on the command line
  Kids,          \* what readdir returns for each directory, in its order
  Matches,       \* what searching each file adds to printer->match_count
  DrainMax       \* the most items a worker without match data pops (16)

Listed(d) == Range(Kids[d])

\* The listed names that are neither default-ignored, too long, of another
\* type, nor matched by an ignore rule.
ChildItems == [i \in Items |-> IF i \in Dirs THEN Listed(i) \cap Items ELSE {}]

ASSUME PoolAssumption ==
  /\ Items = Dirs \cup Files
  /\ Dirs \cap Files = {}
  /\ IsFiniteSet(Items)
  /\ Root \in Items
  /\ DrainMax \in 1..PopMax
  /\ Matches \in [Files -> Nat]
  /\ DOMAIN Kids = Dirs
  /\ \A d \in Dirs : /\ Kids[d] \in Seq(Range(Kids[d]))
                     /\ IsInjective(Kids[d])
                     /\ Root \notin Listed(d)
  /\ \A d, e \in Dirs : d # e => Listed(d) \cap Listed(e) \cap Items = {}

VARIABLES
  step,         \* what each worker is doing with its current item
  drain,        \* the workers that have no match data
  idx,          \* the loop variable i: position in the batch, from 1
  pos,          \* entries of the directory read so far
  out,          \* the walker's local batch, with the entry in hand at its end
  drops,        \* references the worker is about to give back, in order
  node,         \* the ignore node of each directory
  ref_count,    \* and its ref_count
  match_count,  \* printer->match_count
  walk_rc,      \* what greg_walk_directory returned to main
  exit_code,    \* the exit status, Running until main returns
  handled,      \* history: files searched, directories opened
  lost          \* history: items given up

walkVars == <<pos, out, drops>>
nodeVars == <<node, ref_count>>
mainVars == <<walk_rc, exit_code>>
historyVars == <<handled, lost>>
pvars == <<qvars, step, drain, idx, walkVars, nodeVars, match_count, mainVars,
           historyVars>>

Running == -1

Steps == {"begin", "open", "walk", "free"}

\* The item worker w is working on: batch[i].
Current(w) == held[w][idx[w]]

\* The node an item's ignore_node points to: that of the directory listing it.
\* The root item and files have none.
NodeOf(i) == IF i \in Files THEN {} ELSE {d \in Dirs : i \in Listed(d)}

NodeSeq(i) == SetToSeq(NodeOf(i))

\* Worker w, done with its item, gives back these references and then goes on
\* to the next item of its batch.
Release(w, nodes) ==
  /\ drops' = [drops EXCEPT ![w] = nodes]
  /\ step' = [step EXCEPT ![w] = IF nodes = <<>> THEN "begin" ELSE "free"]
  /\ idx' = [idx EXCEPT ![w] = IF nodes = <<>> THEN @ + 1 ELSE @]

At(w, s) ==
  /\ state[w] = "run"
  /\ step[w] = s
  /\ idx[w] <= Len(held[w])

Handle(i) == handled' = handled \cup {i} /\ UNCHANGED lost

Lose(S) == lost' = lost \cup S /\ UNCHANGED handled

-----------------------------------------------------------------------------
(* The main thread.                                                        *)

PInit ==
  /\ QInit
  /\ step = [w \in Workers |-> "begin"]
  /\ drain = {}
  /\ idx = [w \in Workers |-> 1]
  /\ pos = [w \in Workers |-> 0]
  /\ out = [w \in Workers |-> <<>>]
  /\ drops = [w \in Workers |-> <<>>]
  /\ node = [d \in Dirs |-> "none"]
  /\ ref_count = [d \in Dirs |-> 0]
  /\ match_count = 0
  /\ walk_rc = 0
  /\ exit_code = Running
  /\ handled = {}
  /\ lost = {}

workerVars == <<step, drain, idx, walkVars, nodeVars, match_count>>

\* A thread starts; without match data it will only drain the queue.
CreateThread(w) ==
  /\ StartThread(w)
  /\ drain' \in {drain} \cup (IF Faults THEN {drain \cup {w}} ELSE {})
  /\ UNCHANGED <<step, idx, walkVars, nodeVars, match_count, mainVars, historyVars>>

PoolInit ==
  /\ PoolReady
  /\ IF main' = "exit"
     THEN exit_code' = 1 /\ Lose({Root})
     ELSE UNCHANGED <<exit_code, historyVars>>
  /\ UNCHANGED <<workerVars, walk_rc>>

\* greg_walk_directory: stat or strdup fails, or the root is pushed.
WalkRoot ==
  /\ \/ /\ Faults
        /\ RootFails
        /\ walk_rc' = -1
        /\ Lose({Root})
     \/ /\ PushRoot(Root)
        /\ IF main' = "join"
           THEN UNCHANGED <<walk_rc, historyVars>>
           ELSE walk_rc' = -1 /\ Lose({Root})
  /\ UNCHANGED <<workerVars, exit_code>>

DeactivateQueue ==
  /\ Deactivate
  /\ UNCHANGED <<workerVars, mainVars, historyVars>>

\* The workers have been joined; main looks at what they found.
ExitStatus == IF walk_rc # 0 \/ match_count = 0 THEN 1 ELSE 0

\* Faulty variant: main reads the count before the threads are joined.
FinaleWithoutJoin ==
  /\ main = "join"
  /\ main' = "exit"
  /\ exit_code' = ExitStatus
  /\ UNCHANGED <<queueVars, state, held, workerVars, walk_rc, historyVars>>

Finale ==
  /\ JoinAndDestroy
  /\ exit_code' = ExitStatus
  /\ UNCHANGED <<workerVars, walk_rc, historyVars>>

-----------------------------------------------------------------------------
(* A worker's loop.                                                        *)

Pop(w) ==
  /\ greg_queue_pop_batch(w, IF w \in drain THEN DrainMax ELSE PopMax)
  /\ UNCHANGED <<main, workerVars, mainVars, historyVars>>

\* Without match data: the item is freed and forgotten.
DrainItem(w) ==
  /\ At(w, "begin")
  /\ w \in drain
  /\ Release(w, NodeSeq(Current(w)))
  /\ Lose({Current(w)})
  /\ UNCHANGED <<qvars, drain, pos, out, nodeVars, match_count, mainVars>>

\* work_func searches the file, or cannot.
SearchFile(w) ==
  /\ At(w, "begin")
  /\ w \notin drain
  /\ Current(w) \in Files
  /\ \/ /\ match_count' = match_count + Matches[Current(w)]
        /\ Handle(Current(w))
     \/ /\ Faults
        /\ Lose({Current(w)})
        /\ UNCHANGED match_count
  /\ Release(w, <<>>)
  /\ UNCHANGED <<qvars, drain, pos, out, nodeVars, mainVars>>

\* Faulty variant: the batch is reported done before its last item is handled.
ReportEarly(w) ==
  /\ state[w] = "run"
  /\ step[w] = "begin"
  /\ idx[w] >= Len(held[w])
  /\ greg_queue_tasks_done(w)
  /\ idx' = [idx EXCEPT ![w] = 1]
  /\ UNCHANGED <<main, step, drain, walkVars, nodeVars, match_count, mainVars,
                 historyVars>>

\* Faulty variant: a worker without match data does not report what it drained.
ReportUnlessDraining(w) ==
  /\ state[w] = "run"
  /\ idx[w] > Len(held[w])
  /\ IF w \in drain
     THEN /\ state' = [state EXCEPT ![w] = "pop"]
          /\ held' = [held EXCEPT ![w] = <<>>]
          /\ UNCHANGED queueVars
     ELSE greg_queue_tasks_done(w)
  /\ idx' = [idx EXCEPT ![w] = 1]
  /\ UNCHANGED <<main, step, drain, walkVars, nodeVars, match_count, mainVars,
                 historyVars>>

\* The whole batch is reported done.
Report(w) ==
  /\ state[w] = "run"
  /\ idx[w] > Len(held[w])
  /\ greg_queue_tasks_done(w)
  /\ idx' = [idx EXCEPT ![w] = 1]
  /\ UNCHANGED <<main, step, drain, walkVars, nodeVars, match_count, mainVars,
                 historyVars>>

Spurious(w) ==
  /\ SpuriousWakeup(w)
  /\ UNCHANGED <<workerVars, mainVars, historyVars>>

-----------------------------------------------------------------------------
(* Ignore nodes.                                                           *)

\* Faulty variant: the new node takes no reference on its parent.
CreateWithoutRef(d) ==
  /\ node' = [node EXCEPT ![d] = "live"]
  /\ ref_count' = [ref_count EXCEPT ![d] = 1]

greg_ignore_node_create(d) ==
  /\ node' = [node EXCEPT ![d] = "live"]
  /\ ref_count' = [e \in Dirs |-> IF e = d THEN 1
                                  ELSE IF e \in NodeOf(d) THEN ref_count[e] + 1
                                  ELSE ref_count[e]]

\* One round of greg_ignore_node_unref for the first reference in hand; the
\* parent's reference follows when the node is freed.
greg_ignore_node_unref(w) ==
  LET d == Head(drops[w])
      last == ref_count[d] = 1
  IN  /\ ref_count' = [ref_count EXCEPT ![d] = @ - 1]
      /\ node' = [node EXCEPT ![d] = IF last THEN "freed" ELSE @]
      /\ Release(w, (IF last THEN NodeSeq(d) ELSE <<>>) \o Tail(drops[w]))

Unref(w) ==
  /\ At(w, "free")
  /\ greg_ignore_node_unref(w)
  /\ UNCHANGED <<qvars, drain, pos, out, match_count, mainVars, historyVars>>

-----------------------------------------------------------------------------
(* greg_walk_single_directory.                                             *)

CreateNode(w) ==
  /\ At(w, "begin")
  /\ w \notin drain
  /\ Current(w) \in Dirs
  /\ \/ /\ greg_ignore_node_create(Current(w))
        /\ step' = [step EXCEPT ![w] = "open"]
        /\ UNCHANGED <<idx, drops, historyVars>>
     \/ /\ Faults
        /\ Release(w, NodeSeq(Current(w)))
        /\ Lose({Current(w)})
        /\ UNCHANGED nodeVars
  /\ UNCHANGED <<qvars, drain, pos, out, match_count, mainVars>>

OpenDir(w) ==
  /\ At(w, "open")
  /\ \/ /\ step' = [step EXCEPT ![w] = "walk"]
        /\ pos' = [pos EXCEPT ![w] = 0]
        /\ Handle(Current(w))
        /\ UNCHANGED <<idx, drops>>
     \/ /\ Faults
        /\ Release(w, <<Current(w)>> \o NodeSeq(Current(w)))
        /\ Lose({Current(w)})
        /\ UNCHANGED pos
  /\ UNCHANGED <<qvars, drain, out, nodeVars, match_count, mainVars>>

AtEnd(w) == pos[w] = Len(Kids[Current(w)])

\* The local array is full with one more entry in hand, or the directory has
\* been read and the array is not empty.
MustFlush(w) == Len(out[w]) > PushMax \/ (AtEnd(w) /\ out[w] # <<>>)

\* Faulty variant: a directory entry takes no reference for its item.
TakeEntryWithoutRef(w, e) ==
  /\ out' = [out EXCEPT ![w] = Append(@, e)]
  /\ UNCHANGED nodeVars

TakeEntry(w, e) ==
  /\ out' = [out EXCEPT ![w] = Append(@, e)]
  /\ ref_count' = [ref_count EXCEPT ![Current(w)] = IF e \in Dirs THEN @ + 1 ELSE @]
  /\ UNCHANGED node

\* readdir returns one more entry: it is skipped, its path cannot be copied,
\* or it becomes an item.
ReadEntry(w) ==
  /\ At(w, "walk")
  /\ ~AtEnd(w)
  /\ Len(out[w]) <= PushMax
  /\ pos' = [pos EXCEPT ![w] = @ + 1]
  /\ LET e == Kids[Current(w)][pos[w] + 1]
     IN  \/ e \notin Items /\ UNCHANGED <<out, nodeVars, historyVars>>
         \/ e \in Items /\ TakeEntry(w, e) /\ UNCHANGED historyVars
         \/ e \in Items /\ Faults /\ Lose({e}) /\ UNCHANGED <<out, nodeVars>>
  /\ UNCHANGED <<qvars, step, drain, idx, drops, match_count, mainVars>>

\* Faulty variants: the reference of a refused item is leaked, or given back
\* twice.
DropRefusedNever(d, refused) == UNCHANGED ref_count

DropRefusedTwice(d, refused) ==
  ref_count' = [ref_count EXCEPT ![d] = @ - 2 * Cardinality(refused \cap Dirs)]

\* greg_queue_push_batch gives back the reference of every item it refuses.
DropRefused(d, refused) ==
  ref_count' = [ref_count EXCEPT ![d] = @ - Cardinality(refused \cap Dirs)]

\* What Flush pushes: the full array, or at the end what is left.
FlushSize(w) == IF Len(out[w]) > PushMax THEN PushMax ELSE Len(out[w])

\* What stays in the array after n items were pushed: the entry in hand.
\* Faulty variants: it stays full; the entry in hand is forgotten.
RestUncleared(w, n) == out[w]
RestForgotten(w, n) == <<>>
Rest(w, n) == SubSeq(out[w], n + 1, Len(out[w]))

Flush(w) ==
  /\ At(w, "walk")
  /\ MustFlush(w)
  /\ LET items == SubSeq(out[w], 1, FlushSize(w))
     IN  /\ out' = [out EXCEPT ![w] = Rest(w, FlushSize(w))]
         /\ \E kept \in Stored(items) :
              /\ greg_queue_push_batch(items, kept)
              /\ DropRefused(Current(w), Range(items) \ Range(kept))
              /\ Lose(Range(items) \ Range(kept))
  /\ UNCHANGED <<held, main, step, drain, idx, pos, drops, node, match_count,
                 mainVars>>

\* closedir, then the walker's own reference, then the item's.
CloseDir(w) ==
  /\ At(w, "walk")
  /\ AtEnd(w)
  /\ out[w] = <<>>
  /\ Release(w, <<Current(w)>> \o NodeSeq(Current(w)))
  /\ UNCHANGED <<qvars, drain, pos, out, nodeVars, match_count, mainVars,
                 historyVars>>

-----------------------------------------------------------------------------

MainNext ==
  PoolInit \/ WalkRoot \/ DeactivateQueue \/ Finale

WorkerNext(w) ==
  \/ Pop(w) \/ DrainItem(w) \/ SearchFile(w) \/ Report(w) \/ Unref(w)
  \/ CreateNode(w) \/ OpenDir(w) \/ ReadEntry(w) \/ Flush(w) \/ CloseDir(w)

Stopped ==
  /\ main = "exit"
  /\ UNCHANGED pvars

PNext ==
  \/ MainNext \/ Stopped
  \/ \E w \in Workers : CreateThread(w) \/ WorkerNext(w) \/ Spurious(w)

PSpec == PInit /\ [][PNext]_pvars

\* The scheduler runs every thread that can run, and the search of a file ends,
\* as Searcher shows of every file but a pipe that nobody writes to; wakeups
\* without a cause are not promised.
PFairness ==
  /\ WF_pvars(MainNext \/ \E w \in Workers : CreateThread(w))
  /\ \A w \in Workers : WF_pvars(WorkerNext(w))

PFairSpec == PSpec /\ PFairness

-----------------------------------------------------------------------------
(* Properties.                                                             *)

PTypeOK ==
  /\ QTypeOK
  /\ step \in [Workers -> Steps]
  /\ drain \in SUBSET Workers
  /\ idx \in [Workers -> 1..PopMax + 1]
  /\ pos \in [Workers -> Nat]
  /\ out \in [Workers -> Seq(Items)]
  /\ drops \in [Workers -> Seq(Dirs)]
  /\ node \in [Dirs -> {"none", "live", "freed"}]
  /\ ref_count \in [Dirs -> Nat]
  /\ match_count \in Nat
  /\ walk_rc \in {-1, 0}
  /\ exit_code \in {Running, 0, 1}
  /\ handled \subseteq Items
  /\ lost \subseteq Items

\* Items of the batch of worker w that still own their reference.
Unreleased(w) ==
  {held[w][i] : i \in {j \in DOMAIN held[w] :
                         j > idx[w] \/ (j = idx[w] /\ step[w] # "free")}}

\* Everything that holds a pointer to the ignore node of d: the walker of d,
\* items under d, nodes under d, and references being dropped, each of them
\* named by its worker and its height above the last one.
Carried ==
  Range(queue) \cup UNION {Unreleased(w) \cup Range(out[w]) : w \in Workers}

WalkersOf(d) == {w \in Workers : step[w] \in {"open", "walk"} /\ Current(w) = d}
ItemsUnder(d) == {i \in Carried : d \in NodeOf(i)}
NodesUnder(d) == {e \in Dirs : node[e] = "live" /\ d \in NodeOf(e)}
DropsOf(d) ==
  UNION {{<<w, Len(drops[w]) - i>> : i \in {j \in DOMAIN drops[w] : drops[w][j] = d}} :
           w \in Workers}

Holders(d) ==
  ({"walker"} \X WalkersOf(d)) \cup ({"item"} \X ItemsUnder(d))
    \cup ({"node"} \X NodesUnder(d)) \cup ({"drop"} \X DropsOf(d))

\* Reference counts are exact although directories are walked, refused, lost
\* and released by different threads: a live node's count is the number of
\* pointers to it.
RefCountExact ==
  \A d \in Dirs : node[d] = "live" => ref_count[d] = Cardinality(Holders(d))

\* No use after free and no double free: nobody holds a pointer to a node
\* that is not there, parents (ignore.c:314) included.
NoDanglingNode ==
  \A d \in Dirs : node[d] # "live" => Holders(d) = {}

\* When the process exits normally every ignore node has been freed.
NodesFreed ==
  exit_code # Running => \A d \in Dirs : node[d] # "live"

\* The exit status tells whether a file that was searched matched, whichever
\* thread searched it and however late it reported (main.c:301-313).
ExitStatusRight ==
  exit_code # Running =>
    (exit_code = 0 <=> \E f \in Files \cap handled : Matches[f] > 0)

\* Items that are known and not dealt with: in the queue, in a batch, in a
\* walker's array, or not yet read from an open directory.
Pending(w) ==
  {held[w][i] : i \in {j \in DOMAIN held[w] :
                         j > idx[w] \/ (j = idx[w] /\ step[w] \in {"begin", "open"})}}

Unread(w) ==
  IF step[w] = "walk"
  THEN {Kids[Current(w)][i] : i \in pos[w] + 1..Len(Kids[Current(w)])} \cap Items
  ELSE {}

ToDo == Range(queue) \cup UNION {Pending(w) \cup Range(out[w]) \cup Unread(w) : w \in Workers}

Phase ==
  CASE main \in {"spawn", "walk"} -> "start"
    [] main \in {"deactivate", "join"} /\ active -> "run"
    [] OTHER -> "done"

Abstract == INSTANCE Traversal
  WITH Children <- ChildItems, phase <- Phase, todo <- ToDo

\* The directories and files form a tree.
ASSUME TreeAssumption == Abstract!Tree /\ Abstract!Connected

\* The threads together do what a traversal promises: every step is a step of
\* Traversal or does not concern it.
ImplementsTraversal == Abstract!TSpec

\* A search that lost nothing has searched every file and opened every
\* directory that the ignore rules let through.
FullCoverage == Abstract!Complete

\* The queue is used by the pool in the way GregQueue assumes.
ImplementsQueue == QSpec

\* Every search ends: no deadlock, no lost wakeup, no thread waiting for work
\* that nobody will push.  Left out: a worker that opens a pipe without a
\* writer (greg_mmap.c:95), see SkipsIrregular in Searcher.
Terminates == <>(exit_code # Running)

=============================================================================
