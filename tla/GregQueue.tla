----------------------------- MODULE GregQueue -----------------------------
(***************************************************************************)
(* The shared work queue of greg (src/src/queue.c) together with the       *)
(* protocol its callers follow: the worker loop of src/src/pool.c and the  *)
(* start and join sequence of src/src/main.c.                              *)
(*                                                                         *)
(* Every queue operation runs inside one mutex region, so each of them is  *)
(* one atomic step.  greg_cond_wait releases the mutex: a waiting worker   *)
(* is in state "wait" until a signal, a broadcast or a spurious wakeup     *)
(* sends it back to the test at the top of greg_queue_pop_batch.           *)
(*                                                                         *)
(* What a worker does with a batch is left open here: while it holds one   *)
(* it may push any items that are not outstanding.                         *)
(* GregPool says what it really pushes.                                    *)
(***************************************************************************)
EXTENDS Integers, Sequences, FiniteSets, Functions

CONSTANTS
  Workers,     \* the thread slots of the pool
  Items,       \* work items, told apart by the path they own
  PopMax,      \* the most items one pop takes (32 in pool.c)
  PushMax,     \* the most items one batch push is given (64 in walk.c)
  Faults       \* may the system refuse memory, a thread or a file?

ASSUME QueueAssumption ==
  /\ PopMax \in Nat \ {0}
  /\ PushMax \in Nat \ {0}
  /\ Faults \in BOOLEAN

VARIABLES
  queue,         \* the linked list from head to tail
  size,          \* q->size
  active,        \* q->active
  active_tasks,  \* q->active_tasks, the termination counter
  state,         \* where each worker stands in its loop
  held,          \* the batch a worker popped and has not reported done
  main           \* where the main thread stands

queueVars == <<queue, size, active, active_tasks>>
qvars == <<queue, size, active, active_tasks, state, held, main>>

WorkerStates == {"none", "pop", "wait", "run", "exit"}
MainStates == {"spawn", "walk", "deactivate", "join", "exit"}

Waiters == {w \in Workers : state[w] = "wait"}

\* The threads main joins.
Created == {w \in Workers : state[w] # "none"}

\* Items pushed and not yet reported done: queued, or in some worker's hands.
Outstanding == Range(queue) \cup UNION {Range(held[w]) : w \in Workers}

-----------------------------------------------------------------------------
(* Condition variable.                                                     *)

\* The workers of W go back to the test of pop_batch's wait loop.
Wake(W) == [w \in Workers |-> IF w \in W THEN "pop" ELSE state[w]]

\* greg_cond_signal wakes one waiter when there is one.
Signalled == IF Waiters = {} THEN {{}} ELSE {{w} : w \in Waiters}

-----------------------------------------------------------------------------
(* Queue operations.                                                       *)

Picks(n) ==
  UNION {{f \in [1..k -> 1..n] : \A i, j \in 1..k : i < j => f[i] < f[j]} :
           k \in 0..n}

Subsequences(s) == {[i \in DOMAIN f |-> s[f[i]]] : f \in Picks(Len(s))}

\* What a push of items may leave in the queue: nothing once the queue is
\* inactive, and no item for which alloc_node finds no node.
Stored(items) ==
  IF ~active THEN {<<>>}
  ELSE IF Faults THEN Subsequences(items)
  ELSE {items}

Enqueue(kept) ==
  /\ queue' = queue \o kept
  /\ size' = size + Len(kept)
  /\ active_tasks' = active_tasks + Len(kept)
  /\ UNCHANGED active

greg_queue_init ==
  /\ queue = <<>>
  /\ size = 0
  /\ active = TRUE
  /\ active_tasks = 0

\* Faulty variant: the pushed item is not signalled.
PushWithoutSignal(item, kept) ==
  /\ kept \in Stored(<<item>>)
  /\ Enqueue(kept)
  /\ UNCHANGED state

\* Returns 0 when kept is <<item>> and -1 when it is empty.
greg_queue_push(item, kept) ==
  /\ kept \in Stored(<<item>>)
  /\ Enqueue(kept)
  /\ IF kept = <<>> THEN UNCHANGED state
     ELSE \E W \in Signalled : state' = Wake(W)

\* Faulty variant: adds count where the code adds pushed.
PushBatchCountsDropped(items, kept) ==
  /\ kept \in Stored(items)
  /\ queue' = queue \o kept
  /\ size' = size + Len(kept)
  /\ active_tasks' = active_tasks + Len(items)
  /\ state' = IF kept = <<>> THEN state ELSE Wake(Waiters)
  /\ UNCHANGED active

greg_queue_push_batch(items, kept) ==
  /\ kept \in Stored(items)
  /\ Enqueue(kept)
  /\ state' = IF kept = <<>> THEN state ELSE Wake(Waiters)

\* Faulty variant: the last item taken stays at the head of the list.
TakeKeepsLast(w, n) ==
  /\ held' = [held EXCEPT ![w] = SubSeq(queue, 1, n)]
  /\ queue' = SubSeq(queue, n, Len(queue))
  /\ size' = size - n
  /\ state' = [state EXCEPT ![w] = "run"]
  /\ UNCHANGED <<active, active_tasks>>

Take(w, n) ==
  /\ held' = [held EXCEPT ![w] = SubSeq(queue, 1, n)]
  /\ queue' = SubSeq(queue, n + 1, Len(queue))
  /\ size' = size - n
  /\ state' = [state EXCEPT ![w] = "run"]
  /\ UNCHANGED <<active, active_tasks>>

Batch(max) == IF Len(queue) < max THEN Len(queue) ELSE max

\* Faulty variant: leaves an empty queue without waiting for its shutdown.
PopWithoutWaiting(w, max) ==
  /\ state[w] = "pop"
  /\ \/ /\ queue = <<>>
        /\ state' = [state EXCEPT ![w] = "exit"]
        /\ UNCHANGED <<queueVars, held>>
     \/ /\ queue # <<>>
        /\ Take(w, Batch(max))

\* Wait while the queue is empty and active; leave when it is empty and
\* inactive; otherwise take up to max items.
greg_queue_pop_batch(w, max) ==
  /\ state[w] = "pop"
  /\ \/ /\ queue = <<>>
        /\ state' = [state EXCEPT ![w] = IF active THEN "wait" ELSE "exit"]
        /\ UNCHANGED <<queueVars, held>>
     \/ /\ queue # <<>>
        /\ Take(w, Batch(max))

\* Faulty variant: the queue is shut down as soon as it is empty.
FinishedWhenEmpty(tasks) == queue = <<>>

\* Faulty variant: an off-by-one in the termination test.
FinishedBelowZero(tasks) == tasks < 0 /\ queue = <<>>

Finished(tasks) == tasks <= 0 /\ queue = <<>>

\* Faulty variant: reports a full batch whatever was popped.
TasksDoneFullBatch(w) ==
  /\ active_tasks' = active_tasks - PopMax
  /\ active' = (active /\ ~Finished(active_tasks'))
  /\ state' = Wake({w} \cup IF Finished(active_tasks') THEN Waiters ELSE {})
  /\ held' = [held EXCEPT ![w] = <<>>]
  /\ UNCHANGED <<queue, size>>

\* The caller then goes back to greg_queue_pop_batch.
greg_queue_tasks_done(w) ==
  /\ active_tasks' = active_tasks - Len(held[w])
  /\ active' = (active /\ ~Finished(active_tasks'))
  /\ state' = Wake({w} \cup IF Finished(active_tasks') THEN Waiters ELSE {})
  /\ held' = [held EXCEPT ![w] = <<>>]
  /\ UNCHANGED <<queue, size>>

greg_queue_deactivate ==
  /\ active' = FALSE
  /\ state' = Wake(Waiters)
  /\ UNCHANGED <<queue, size, active_tasks>>

\* Frees whatever is still queued and every slab.
greg_queue_destroy ==
  /\ queue' = <<>>
  /\ UNCHANGED <<size, active, active_tasks>>

-----------------------------------------------------------------------------
(* The callers.                                                            *)

QInit ==
  /\ greg_queue_init
  /\ state = [w \in Workers |-> "none"]
  /\ held = [w \in Workers |-> <<>>]
  /\ main = "spawn"

\* greg_pool_init starts one more thread.
StartThread(w) ==
  /\ main = "spawn"
  /\ state[w] = "none"
  /\ state' = [state EXCEPT ![w] = "pop"]
  /\ UNCHANGED <<queueVars, held, main>>

\* greg_pool_init returns: every slot has its thread, or creating the next
\* one failed.  Without any thread main tears the queue down and exits.
PoolReady ==
  /\ main = "spawn"
  /\ Created = Workers \/ Faults
  /\ IF Created = {}
     THEN greg_queue_destroy /\ main' = "exit"
     ELSE main' = "walk" /\ UNCHANGED queueVars
  /\ UNCHANGED <<state, held>>

\* greg_walk_directory: the root cannot be examined, or it is pushed.
PushRoot(item) ==
  /\ main = "walk"
  /\ \E kept \in Stored(<<item>>) :
       /\ greg_queue_push(item, kept)
       /\ main' = IF kept = <<>> THEN "deactivate" ELSE "join"
  /\ UNCHANGED held

RootFails ==
  /\ main = "walk"
  /\ main' = "deactivate"
  /\ UNCHANGED <<queueVars, state, held>>

Deactivate ==
  /\ main = "deactivate"
  /\ greg_queue_deactivate
  /\ main' = "join"
  /\ UNCHANGED held

\* greg_pool_wait_and_destroy returns once every thread has; then
\* greg_queue_destroy.
JoinAndDestroy ==
  /\ main = "join"
  /\ \A w \in Created : state[w] = "exit"
  /\ greg_queue_destroy
  /\ main' = "exit"
  /\ UNCHANGED <<state, held>>

PopBatch(w) ==
  /\ \E max \in 1..PopMax : greg_queue_pop_batch(w, max)
  /\ UNCHANGED main

\* A batch push during the processing of a popped item: of paths that are not
\* outstanding, since a directory is walked once and lists a name once.
PushBatch(w) ==
  /\ state[w] = "run"
  /\ \E n \in 1..PushMax : \E items \in [1..n -> Items] :
       /\ IsInjective(items)
       /\ Range(items) \cap Outstanding = {}
       /\ \E kept \in Stored(items) : greg_queue_push_batch(items, kept)
  /\ UNCHANGED <<held, main>>

TasksDone(w) ==
  /\ state[w] = "run"
  /\ greg_queue_tasks_done(w)
  /\ UNCHANGED main

\* greg_cond_wait may return although nobody signalled.
SpuriousWakeup(w) ==
  /\ state[w] = "wait"
  /\ state' = [state EXCEPT ![w] = "pop"]
  /\ UNCHANGED <<queueVars, held, main>>

\* The process has exited.
Exited ==
  /\ main = "exit"
  /\ UNCHANGED qvars

QNext ==
  \/ PoolReady \/ RootFails \/ Deactivate \/ JoinAndDestroy \/ Exited
  \/ \E item \in Items : PushRoot(item)
  \/ \E w \in Workers :
       \/ StartThread(w) \/ PopBatch(w) \/ PushBatch(w)
       \/ TasksDone(w) \/ SpuriousWakeup(w)

QSpec == QInit /\ [][QNext]_qvars

-----------------------------------------------------------------------------
(* Properties.                                                             *)

\* The values the variables take.  The two counters are C ints that the code
\* only ever adds to and subtracts from; they never go below zero.
QTypeOK ==
  /\ queue \in Seq(Items)
  /\ size \in Nat
  /\ active \in BOOLEAN
  /\ active_tasks \in Nat
  /\ state \in [Workers -> WorkerStates]
  /\ held \in [Workers -> Seq(Items)]
  /\ main \in MainStates

\* The counters agree with the data: size with the list, and active_tasks
\* with the items that are queued or in the hands of a worker, although a
\* popped item leaves the list long before it leaves the count (queue.c:157).
TasksBalanced ==
  /\ size = Len(queue)
  /\ active_tasks = Cardinality(Outstanding)

\* Work is handed out once: no item is queued twice, held by two workers, or
\* still queued while a worker holds it (each path is freed by its holder).
HandedOutOnce ==
  /\ IsInjective(queue)
  /\ \A w \in Workers : /\ IsInjective(held[w])
                        /\ Range(held[w]) \cap Range(queue) = {}
  /\ \A v, w \in Workers : v # w => Range(held[v]) \cap Range(held[w]) = {}

\* No premature shutdown: when the queue is inactive, no item is queued and
\* no worker is in the middle of a batch, so nothing can be pushed any more
\* and no push is ever refused for inactivity (queue.c:76, queue.c:104).
QuiescentShutdown ==
  ~active => Outstanding = {} /\ \A w \in Workers : state[w] # "run"

\* No lost wakeup: queued work always has a worker that is awake to take it,
\* and once the queue is inactive nobody sleeps on the condition variable.
NoLostWakeup ==
  /\ queue # <<>> => \E w \in Workers : state[w] \in {"pop", "run"}
  /\ ~active => Waiters = {}

\* While main waits in greg_pool_wait_and_destroy, either the shutdown has
\* been decided or some worker is awake: the pool cannot all fall asleep.
NoStall ==
  main = "join" /\ active => \E w \in Workers : state[w] \in {"pop", "run"}

\* When the last thread has been joined there is nothing left to free in the
\* list that greg_queue_destroy walks (queue.c:50-58).
NothingLeftToDestroy ==
  main = "join" /\ (\A w \in Created : state[w] = "exit") => queue = <<>>

-----------------------------------------------------------------------------
(* The inductive invariant that GregQueueProofs establishes.               *)

Counted == IsFiniteSet(Outstanding) /\ TasksBalanced

\* A worker runs exactly while it holds a batch, and leaves only a queue that
\* is inactive.
WorkerStanding ==
  \A w \in Workers : /\ state[w] = "run" <=> held[w] # <<>>
                     /\ state[w] = "exit" => ~active

\* Nothing is outstanding before main pushes the root, and from then on
\* something is until the queue is inactive; main gets past greg_pool_init
\* only with a thread, and past the join only with no thread at work.
MainStanding ==
  /\ main \in {"spawn", "walk", "deactivate"} => active /\ Outstanding = {}
  /\ main \in {"walk", "deactivate", "join"} => Created # {}
  /\ main = "join" /\ active => Outstanding # {}
  /\ main = "exit" => \A w \in Workers : state[w] \in {"none", "exit"}

QInv ==
  /\ QTypeOK
  /\ HandedOutOnce
  /\ Counted
  /\ QuiescentShutdown
  /\ NoLostWakeup
  /\ WorkerStanding
  /\ MainStanding

=============================================================================
