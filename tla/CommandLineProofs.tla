-------------------------- MODULE CommandLineProofs --------------------------
(***************************************************************************)
(* Three invariants of main.  CInv says what is set up wherever main can   *)
(* stand, and that threads run only while all of it is there.  RInv says   *)
(* that the options are those of the arguments read so far, whatever the   *)
(* command line, and SInv what the count of matches is worth.              *)
(***************************************************************************)
EXTENDS CommandLine, WellFoundedInduction, FiniteSetTheorems, TLAPS

Everything == {"matcher", "printer", "mutex", "cond", "pool"}

\* What is live when main still has to take down the parts of t.  Without
\* threads but for the first case.
Left(t, there) == todo = t /\ live = there /\ running = 0

Cleaning ==
  \/ todo = <<"pool", "queue", "count", "printer", "matcher">> /\ live = Everything
  \/ Left(<<"queue", "count", "printer", "matcher">>, {"matcher", "printer", "mutex", "cond"})
  \/ Left(<<"queue", "printer", "matcher">>, {"matcher", "printer", "mutex", "cond"})
  \/ Left(<<"count", "printer", "matcher">>, {"matcher", "printer"})
  \/ Left(<<"printer", "matcher">>, {"matcher", "printer"})
  \/ Left(<<"matcher">>, {"matcher"})
  \/ Left(<<>>, {})

Idle(there) == live = there /\ running = 0

CInv ==
  \/ pc \in {"parse", "matcher", "exit"} /\ Idle({})
  \/ pc = "printer" /\ Idle({"matcher"})
  \/ pc = "queue" /\ Idle({"matcher", "printer"})
  \/ pc = "pool" /\ Idle({"matcher", "printer", "mutex", "cond"})
  \/ pc = "walk" /\ live = Everything
  \/ pc = "cleanup" /\ Cleaning

-----------------------------------------------------------------------------
\* Reading the command line sets nothing up.
LEMMA Parsing ==
  ASSUME CInv,
         ReadSwitch \/ ReadValued \/ Inform \/ RefuseOption \/ ReadPositional \/ Parsed
  PROVE  CInv'
<1>1. pc = "parse" /\ pc' \in {"parse", "matcher", "exit"}
  BY DEF ReadSwitch, ReadValued, Inform, RefuseOption, ReadPositional, Parsed, Given,
         Continue, Leave, Exit
<1>2. UNCHANGED <<live, running>>
  BY DEF ReadSwitch, ReadValued, Inform, RefuseOption, ReadPositional, Parsed,
         Continue, Leave, search
<1> QED BY <1>1, <1>2 DEF CInv, Idle

\* A part that is set up is live from then on.
LEMMA SettingUp ==
  ASSUME CInv,
         greg_matcher_init \/ greg_printer_init \/ greg_queue_init \/ greg_pool_init
  PROVE  CInv'
<1>1. CASE greg_matcher_init
  <2>1. live = {} /\ running = 0 /\ running' = running
    BY <1>1 DEF greg_matcher_init, CInv, Idle, Leave, search
  <2>2. CASE SetUp({"matcher"}, "printer")
    BY <2>1, <2>2 DEF SetUp, CInv, Idle
  <2>3. CASE Leave(1)
    BY <2>1, <2>3 DEF Leave, Exit, CInv, Idle
  <2> QED BY <1>1, <2>2, <2>3 DEF greg_matcher_init
<1>2. CASE greg_printer_init
  BY <1>2 DEF greg_printer_init, SetUp, CInv, Idle
<1>3. CASE greg_queue_init
  BY <1>3 DEF greg_queue_init, SetUp, CInv, Idle
<1>4. CASE greg_pool_init
  BY <1>4 DEF greg_pool_init, SetUp, CInv, Idle, Everything
<1> QED BY <1>1, <1>2, <1>3, <1>4

\* When a part cannot be set up, what is to be taken down is what was there.
LEMMA Failing ==
  ASSUME CInv, PrinterFails \/ QueueFails \/ PoolFails
  PROVE  CInv'
<1>1. running = 0 /\ running' = running
  BY DEF PrinterFails, QueueFails, PoolFails, Undo, search, CInv, Idle
<1>2. CASE PrinterFails
  BY <1>1, <1>2 DEF PrinterFails, Undo, CInv, Idle, Cleaning, Left
<1>3. CASE QueueFails
  BY <1>1, <1>3 DEF QueueFails, Undone, Undo, CInv, Idle, Cleaning, Left
<1>4. CASE PoolFails
  BY <1>1, <1>4 DEF PoolFails, Undo, UndoQueue, CInv, Idle, Cleaning, Left
<1> QED BY <1>2, <1>3, <1>4

\* The workers work, and return, only while everything is there.
LEMMA Searching ==
  ASSUME CInv, greg_walk_directory \/ Search \/ WorkerReturns
  PROVE  CInv'
<1>1. CASE greg_walk_directory
  BY <1>1 DEF greg_walk_directory, InOrder, CInv, Idle, Cleaning
<1>2. CASE Search \/ WorkerReturns
  <2>1. running > 0 /\ UNCHANGED <<pc, live, todo>>
    BY <1>2 DEF Search, WorkerReturns
  <2>2. running # 0
    BY <2>1
  <2> QED BY <2>1, <2>2 DEF CInv, Idle, Cleaning, Left
<1> QED BY <1>1, <1>2

\* main takes one part down after the other, the threads first.
LEMMA TakingDown ==
  ASSUME CInv, TakeDown \/ Return
  PROVE  CInv'
<1>1. pc = "cleanup" /\ Cleaning /\ running' = running
  BY DEF TakeDown, Return, CInv, search
<1>2. CASE Return
  BY <1>1, <1>2 DEF Return, Exit, CInv, Idle, Cleaning, Left
<1>3. CASE TakeDown
  <2>1. /\ pc' = "cleanup" /\ todo # <<>> /\ todo' = Tail(todo)
        /\ live' = live \ Holds(Head(todo))
        /\ Head(todo) = "pool" => running = 0
    BY <1>1, <1>3 DEF TakeDown
  <2>2. CASE todo = <<"pool", "queue", "count", "printer", "matcher">> /\ live = Everything
    <3>1. Head(todo) = "pool" /\ todo' = <<"queue", "count", "printer", "matcher">>
      BY <2>1, <2>2
    <3>2. live' = {"matcher", "printer", "mutex", "cond"}
      BY <2>1, <2>2, <3>1 DEF Holds, Everything
    <3> QED BY <1>1, <2>1, <3>1, <3>2 DEF CInv, Cleaning, Left
  <2>3. CASE Left(<<"queue", "count", "printer", "matcher">>,
                  {"matcher", "printer", "mutex", "cond"})
    <3>1. Head(todo) = "queue" /\ todo' = <<"count", "printer", "matcher">>
      BY <2>1, <2>3 DEF Left
    <3>2. live' = {"matcher", "printer"}
      BY <2>1, <2>3, <3>1 DEF Holds, Left
    <3> QED BY <1>1, <2>1, <2>3, <3>1, <3>2 DEF CInv, Cleaning, Left
  <2>4. CASE Left(<<"queue", "printer", "matcher">>, {"matcher", "printer", "mutex", "cond"})
    <3>1. Head(todo) = "queue" /\ todo' = <<"printer", "matcher">>
      BY <2>1, <2>4 DEF Left
    <3>2. live' = {"matcher", "printer"}
      BY <2>1, <2>4, <3>1 DEF Holds, Left
    <3> QED BY <1>1, <2>1, <2>4, <3>1, <3>2 DEF CInv, Cleaning, Left
  <2>5. CASE Left(<<"count", "printer", "matcher">>, {"matcher", "printer"})
    <3>1. Head(todo) = "count" /\ todo' = <<"printer", "matcher">>
      BY <2>1, <2>5 DEF Left
    <3>2. live' = {"matcher", "printer"}
      BY <2>1, <2>5, <3>1 DEF Holds, Left
    <3> QED BY <1>1, <2>1, <2>5, <3>1, <3>2 DEF CInv, Cleaning, Left
  <2>6. CASE Left(<<"printer", "matcher">>, {"matcher", "printer"})
    <3>1. Head(todo) = "printer" /\ todo' = <<"matcher">>
      BY <2>1, <2>6 DEF Left
    <3>2. live' = {"matcher"}
      BY <2>1, <2>6, <3>1 DEF Holds, Left
    <3> QED BY <1>1, <2>1, <2>6, <3>1, <3>2 DEF CInv, Cleaning, Left
  <2>7. CASE Left(<<"matcher">>, {"matcher"})
    <3>1. Head(todo) = "matcher" /\ todo' = <<>>
      BY <2>1, <2>7 DEF Left
    <3>2. live' = {}
      BY <2>1, <2>7, <3>1 DEF Holds, Left
    <3> QED BY <1>1, <2>1, <2>7, <3>1, <3>2 DEF CInv, Cleaning, Left
  <2> QED BY <1>1, <2>1, <2>2, <2>3, <2>4, <2>5, <2>6, <2>7 DEF Cleaning, Left
<1> QED BY <1>2, <1>3

-----------------------------------------------------------------------------
\* What is live is known wherever main stands.
THEOREM LiveParts == CSpec => []CInv
<1>1. CInit => CInv
  BY DEF CInit, CInv, Idle
<1>2. CInv /\ [CNext]_cvars => CInv'
  <2> SUFFICES ASSUME CInv, [CNext]_cvars
               PROVE  CInv'
    OBVIOUS
  <2>1. CASE Gone \/ UNCHANGED cvars
    BY <2>1 DEF Gone, cvars, search, CInv, Idle, Cleaning, Left
  <2>2. CASE CNext /\ ~Gone
    BY <2>2, Parsing, SettingUp, Failing, Searching, TakingDown DEF CNext
  <2> QED BY <2>1, <2>2
<1> QED BY <1>1, <1>2, PTL DEF CSpec

\* main leaves nothing behind when it returns, for every command line and
\* every part that cannot be set up (main.c:248-294, queue.c:40-44).
THEOREM NothingLeftBehind == CSpec => []CleanExit
<1>1. CInv => CleanExit
  BY DEF CInv, Idle, CleanExit
<1> QED BY <1>1, LiveParts, PTL

\* No worker thread outlives the matcher, the printer or the queue
\* (main.c:289-294).
THEOREM ThreadsHaveTheirResources == CSpec => []WorkersHaveTheirResources
<1>1. CInv => WorkersHaveTheirResources
  BY DEF CInv, Idle, Cleaning, Left, Everything, WorkersHaveTheirResources
<1> QED BY <1>1, LiveParts, PTL

-----------------------------------------------------------------------------
(* The options.                                                            *)

Numeric == {"max_count", "num_threads"}
Worded == {"pattern", "search_path"}
Fields == DOMAIN Defaults(TRUE)
Flags == Fields \ (Numeric \cup Worded)

\* What holds of every record of options.
WellFormed(o) ==
  /\ DOMAIN o = Fields
  /\ o.max_count \in (-IntMax - 1)..IntMax
  /\ o.num_threads \in 1..IntMax
  /\ \A f \in Flags : o[f] \in {0, 1}

\* What an argument may change: flags to 0 or 1, the two ints within bounds.
Harmless(e) ==
  /\ "max_count" \in DOMAIN e => e.max_count \in (-IntMax - 1)..IntMax
  /\ "num_threads" \in DOMAIN e => e.num_threads \in 1..IntMax
  /\ \A f \in Flags \cap DOMAIN e : e[f] \in {0, 1}

\* The fields of greg_options_t, with search_path and num_threads.
LEMMA FieldNames ==
  \A b \in BOOLEAN :
    DOMAIN Defaults(b) =
      {"case_insensitive", "smart_case", "invert_match", "fixed_strings", "heading",
       "show_line_numbers", "color_enabled", "files_with_matches", "search_binary",
       "raw", "count_only", "max_count", "no_ignore", "follow_links", "hidden",
       "pattern", "search_path", "num_threads"}
  BY DEF Defaults

\* The options main starts with (main.c:81-96) are well formed.
LEMMA DefaultsWellFormed == \A b \in BOOLEAN : WellFormed(Defaults(b))
<1> SUFFICES ASSUME NEW b \in BOOLEAN PROVE WellFormed(Defaults(b))
  OBVIOUS
<1>1. DOMAIN Defaults(b) = Fields
  BY FieldNames DEF Fields
<1>2. Defaults(b).max_count = 0 /\ Defaults(b).num_threads = Cores
  BY DEF Defaults
<1>3. \A f \in Flags : Defaults(b)[f] \in {0, 1}
  BY FieldNames DEF Defaults, Flags, Fields, Numeric, Worded
<1> QED
  BY <1>1, <1>2, <1>3, CommandLineAssumption DEF WellFormed, CommandLineAssumption

\* Setting fields to harmless values keeps the options well formed.
LEMMA WithKeepsForm ==
  ASSUME NEW o, NEW e, WellFormed(o), Harmless(e)
  PROVE  WellFormed(With(o, e))
<1>1. {"max_count", "num_threads"} \cup Flags \subseteq Fields
  BY FieldNames DEF Flags, Fields
<1>2. DOMAIN With(o, e) = Fields
  BY DEF With, WellFormed
<1>3. \A f \in Fields : With(o, e)[f] = IF f \in DOMAIN e THEN e[f] ELSE o[f]
  BY DEF With, WellFormed
<1> QED
  BY <1>1, <1>2, <1>3 DEF WellFormed, Harmless

\* What is narrowed to an int fits one (main.c:105).
LEMMA IntRange == \A n \in Int : AsInt(n) \in (-IntMax - 1)..IntMax
<1> SUFFICES ASSUME NEW n \in Int PROVE AsInt(n) \in (-IntMax - 1)..IntMax
  OBVIOUS
<1> DEFINE m == 2 * (IntMax + 1)
           s == n + IntMax + 1
<1>1. m \in Nat /\ m > 0 /\ s \in Int
  BY CommandLineAssumption DEF CommandLineAssumption
<1>2. s % m \in 0..(m - 1)
  <2> HIDE DEF m, s
  <2>1. QED
    BY <1>1
<1> QED
  BY <1>2, CommandLineAssumption DEF AsInt, CommandLineAssumption

\* A positive number that fits an int is not changed by narrowing.
LEMMA SmallInt == \A n \in 1..IntMax : AsInt(n) = n
<1> SUFFICES ASSUME NEW n \in 1..IntMax PROVE AsInt(n) = n
  OBVIOUS
<1> DEFINE m == 2 * (IntMax + 1)
           s == n + IntMax + 1
<1>1. m \in Nat /\ m > 0 /\ s \in 0..(m - 1)
  BY CommandLineAssumption DEF CommandLineAssumption
<1>2. s % m = s
  <2> HIDE DEF m, s
  <2>1. QED
    BY <1>1
<1> QED
  BY <1>2, CommandLineAssumption DEF AsInt, CommandLineAssumption

\* Options without a value set flags only.
LEMMA SwitchHarmless == \A o \in DOMAIN Switch : Harmless(Switch[o])
<1> SUFFICES ASSUME NEW o \in DOMAIN Switch PROVE Harmless(Switch[o])
  OBVIOUS
<1> DEFINE Changes ==
             {[case_insensitive |-> 1], [smart_case |-> 1], [smart_case |-> 0],
              [invert_match |-> 1], [fixed_strings |-> 1], [heading |-> 1],
              [heading |-> 0], [show_line_numbers |-> 1], [show_line_numbers |-> 0],
              [files_with_matches |-> 1], [count_only |-> 1], [search_binary |-> 1],
              [raw |-> 1, color_enabled |-> 0, heading |-> 0], [no_ignore |-> 1],
              [follow_links |-> 1], [hidden |-> 1]}
<1>1. \A e \in Changes : Harmless(e)
  BY DEF Harmless
<1>2. Switch[o] \in Changes
  BY DEF Switch
<1> QED
  BY <1>1, <1>2

-----------------------------------------------------------------------------
(* The values of options.                                                  *)

\* A number of options with a value stand before k, n of them without a gap.
RunBefore(k, n) ==
  /\ n < k
  /\ \A j \in (k - n)..(k - 1) : argv[j] \in Valued
  /\ k - n - 1 < 1 \/ argv[k - n - 1] \notin Valued

LEMMA OneRun ==
  ASSUME NEW k \in Nat, NEW m \in Nat, NEW n \in Nat, RunBefore(k, m), RunBefore(k, n)
  PROVE  m = n
<1>1. CASE m < n
  <2>1. k - m - 1 \in (k - n)..(k - 1) /\ k - m - 1 >= 1
    BY <1>1 DEF RunBefore
  <2> QED BY <2>1 DEF RunBefore
<1>2. CASE n < m
  <2>1. k - n - 1 \in (k - m)..(k - 1) /\ k - n - 1 >= 1
    BY <1>2 DEF RunBefore
  <2> QED BY <2>1 DEF RunBefore
<1> QED BY <1>1, <1>2

LEMMA SomeRun ==
  ASSUME NEW k \in Nat \ {0}
  PROVE  \E n \in Nat : RunBefore(k, n)
<1> DEFINE T == {q \in 1..k : k - q < 1 \/ argv[k - q] \notin Valued}
<1>1. k \in T
  OBVIOUS
<1>2. PICK q \in T : \A p \in T : ~(<<p, q>> \in OpToRel(<, Nat))
  <2>1. T \subseteq Nat /\ T # {}
    BY <1>1
  <2> HIDE DEF T
  <2> QED BY <2>1, WFMin, NatLessThanWellFounded
<1>3. \A p \in T : q <= p
  <2> SUFFICES ASSUME NEW p \in T, p < q PROVE FALSE
    OBVIOUS
  <2>1. <<p, q>> \in OpToRel(<, Nat)
    BY DEF OpToRel
  <2> HIDE DEF T
  <2> QED BY <1>2, <2>1
<1>4. \A j \in (k - (q - 1))..(k - 1) : argv[j] \in Valued
  <2> SUFFICES ASSUME NEW j \in (k - (q - 1))..(k - 1), argv[j] \notin Valued PROVE FALSE
    OBVIOUS
  <2>1. k - j \in 1..k /\ k - (k - j) = j /\ k - j < q
    OBVIOUS
  <2>2. k - j \in T
    BY <2>1
  <2> QED BY <1>3, <2>1, <2>2
<1>5. k - (q - 1) - 1 = k - q /\ q - 1 \in Nat /\ q - 1 < k
  OBVIOUS
<1> QED BY <1>4, <1>5 DEF RunBefore

OddRun(k) == \E n \in Nat : n % 2 = 1 /\ RunBefore(k, n)

LEMMA Alternation ==
  ASSUME NEW k \in Nat
  PROVE  OddRun(k) <=> k > 1 /\ argv[k - 1] \in Valued /\ ~OddRun(k - 1)
<1>1. ASSUME k > 1, argv[k - 1] \in Valued, NEW n \in Nat
      PROVE  RunBefore(k - 1, n) <=> RunBefore(k, n + 1)
  <2>1. /\ n < k - 1 <=> n + 1 < k
        /\ (k - 1) - n - 1 = k - (n + 1) - 1
        /\ (k - 1) - n = k - (n + 1)
        /\ (k - (n + 1))..(k - 1) = ((k - 1) - n)..((k - 1) - 1) \cup {k - 1}
    BY <1>1
  <2> QED BY <1>1, <2>1 DEF RunBefore
<1>2. ASSUME OddRun(k)
      PROVE  k > 1 /\ argv[k - 1] \in Valued
  <2>1. PICK n \in Nat : n % 2 = 1 /\ RunBefore(k, n)
    BY <1>2 DEF OddRun
  <2>2. n > 0
    BY <2>1
  <2> QED BY <2>1, <2>2 DEF RunBefore
<1>3. ASSUME k > 1, argv[k - 1] \in Valued
      PROVE  OddRun(k) <=> ~OddRun(k - 1)
  <2>1. k - 1 \in Nat \ {0}
    BY <1>3
  <2>2. PICK n \in Nat : RunBefore(k - 1, n)
    BY <2>1, SomeRun
  <2>3. RunBefore(k, n + 1)
    BY <1>1, <1>3, <2>2
  <2>4. OddRun(k - 1) <=> n % 2 = 1
    BY <2>1, <2>2, OneRun DEF OddRun
  <2>5. OddRun(k) <=> (n + 1) % 2 = 1
    BY <2>3, OneRun DEF OddRun
  <2> QED BY <2>4, <2>5
<1> QED BY <1>2, <1>3

\* IsValue is what its recursive definition says.
LEMMA IsValueDef ==
  \A k \in Nat : IsValue[k] <=> k > 1 /\ argv[k - 1] \in Valued /\ ~IsValue[k - 1]
<1> DEFINE Unfold(f) == [k \in Nat |-> k > 1 /\ argv[k - 1] \in Valued /\ ~f[k - 1]]
           g == [k \in Nat |-> OddRun(k)]
<1>1. g = Unfold(g)
  <2>1. ASSUME NEW k \in Nat
        PROVE  OddRun(k) <=> k > 1 /\ argv[k - 1] \in Valued /\ ~g[k - 1]
    <3>1. CASE k > 1
      <4>1. k - 1 \in Nat
        BY <3>1
      <4>2. g[k - 1] = OddRun(k - 1)
        BY <4>1
      <4> HIDE DEF g
      <4> QED BY <4>2, Alternation
    <3>2. CASE ~(k > 1)
      BY <3>2, Alternation
    <3> QED BY <3>1, <3>2
  <2>2. \A k \in Nat : OddRun(k) \in BOOLEAN
    BY DEF OddRun
  <2>3. \A k \in Nat : OddRun(k) = (k > 1 /\ argv[k - 1] \in Valued /\ ~g[k - 1])
    <3> HIDE DEF g
    <3> QED BY <2>1, <2>2, Zenon
  <2> QED BY <2>3
<1>2. IsValue = CHOOSE f : f = Unfold(f)
  BY DEF IsValue
<1>3. IsValue = Unfold(IsValue)
  <2> HIDE DEF g, Unfold
  <2> QED BY <1>1, <1>2
<1> QED BY <1>3

\* IsValue for the arguments a.
ValuesIn(a) == CHOOSE f : f = [k \in Nat |-> k > 1 /\ a[k - 1] \in Valued /\ ~f[k - 1]]

\* How the command line reads is a matter of argv alone.
LEMMA SameReading ==
  ASSUME UNCHANGED argv
  PROVE  /\ IsValue' = IsValue /\ Options' = Options /\ Words' = Words
         /\ \A k, n : IsWord(k, n)' <=> IsWord(k, n)
         /\ \A k : Says(k)' = Says(k)
         /\ \A k : Ends(k)' <=> Ends(k)
         /\ Informed' <=> Informed
<1>1. IsValue' = IsValue
  <2>1. IsValue = ValuesIn(argv)
    BY DEF IsValue, ValuesIn
  <2>2. IsValue' = ValuesIn(argv')
    BY DEF IsValue, ValuesIn
  <2> QED BY <2>1, <2>2
<1>2. Options' = Options /\ Words' = Words
  BY <1>1 DEF Options, Words
<1>3. \A k, n : IsWord(k, n)' <=> IsWord(k, n)
  BY <1>2 DEF IsWord
<1>4. \A k : Says(k)' = Says(k)
  BY <1>3 DEF Says
<1>5. \A k : Ends(k)' <=> Ends(k)
  BY <1>3 DEF Ends, Bad
<1>6. Endings' = Endings
  BY <1>2, <1>5 DEF Endings
<1>7. Informed' <=> Informed
  BY <1>6 DEF Informed, IsFirst
<1> QED BY <1>1, <1>2, <1>3, <1>4, <1>5, <1>7

-----------------------------------------------------------------------------
\* The arguments before n that are options or words.
Before(n) == {k \in Options \cup Words : k < n}

\* The options o are what the arguments before n say.
Faithful(o, n) ==
  \A f \in Fields :
    \/ o[f] = Defaults(tty)[f] /\ \A k \in Before(n) : f \notin DOMAIN Says(k)
    \/ \E k \in Before(n) :
         /\ f \in DOMAIN Says(k)
         /\ \A j \in Before(n) : j > k => f \notin DOMAIN Says(j)
         /\ o[f] = Says(k)[f] \/ TooWide(f, Says(k)[f])

\* The command line is read up to n: p words, the options o, and nothing that
\* ends the reading.
ReadUpTo(n, p, o) ==
  /\ n \in 1..Len(argv) + 1
  /\ ~IsValue[n]
  /\ \A k \in Before(n) : ~Ends(k)
  /\ p = Cardinality({k \in Words : k < n})
  /\ Faithful(o, n)

\* The command line is a sequence of arguments.
ArgvOK == argv \in Seq({argv[k] : k \in DOMAIN argv})

\* Options and words are different places of the command line, finitely many.
LEMMA Marks ==
  ASSUME ArgvOK
  PROVE  /\ Options \cup Words \subseteq 1..Len(argv)
         /\ \A k \in Options : k \notin Words
         /\ \A n : /\ IsFiniteSet({k \in Words : k < n})
                  /\ Cardinality({k \in Words : k < n}) \in Nat
<1>1. Len(argv) \in Nat /\ DOMAIN argv = 1..Len(argv)
  BY DEF ArgvOK
<1>2. Options \cup Words \subseteq 1..Len(argv) /\ \A k \in Options : k \notin Words
  BY <1>1 DEF Options, Words
<1>3. ASSUME NEW n
      PROVE  IsFiniteSet({k \in Words : k < n}) /\ Cardinality({k \in Words : k < n}) \in Nat
  <2>1. {k \in Words : k < n} \subseteq 1..Len(argv)
    BY <1>2
  <2>2. IsFiniteSet(1..Len(argv))
    BY <1>1, FS_Interval
  <2> QED BY <2>1, <2>2, FS_Subset, FS_CardinalityType
<1> QED BY <1>2, <1>3

\* One more argument is read, which says what e is about.
LEMMA OneMore ==
  ASSUME NEW n, NEW k \in Options \cup Words, NEW m, NEW o, NEW e,
         Before(n) \subseteq Int, k \in Int,
         Before(m) = Before(n) \cup {k}, \A j \in Before(n) : j < k,
         DOMAIN o = Fields, Faithful(o, n),
         DOMAIN e = DOMAIN Says(k),
         \A f \in DOMAIN e : e[f] = Says(k)[f] \/ TooWide(f, Says(k)[f])
  PROVE  Faithful(With(o, e), m)
<1> SUFFICES ASSUME NEW f \in Fields
             PROVE  \/ /\ With(o, e)[f] = Defaults(tty)[f]
                       /\ \A j \in Before(m) : f \notin DOMAIN Says(j)
                    \/ \E l \in Before(m) :
                         /\ f \in DOMAIN Says(l)
                         /\ \A j \in Before(m) : j > l => f \notin DOMAIN Says(j)
                         /\ With(o, e)[f] = Says(l)[f] \/ TooWide(f, Says(l)[f])
  BY DEF Faithful
<1>1. With(o, e)[f] = IF f \in DOMAIN e THEN e[f] ELSE o[f]
  BY DEF With
<1>2. CASE f \in DOMAIN e
  <2>1. \A j \in Before(m) : ~(j > k)
    OBVIOUS
  <2> QED BY <1>1, <1>2, <2>1
<1>3. CASE f \notin DOMAIN e
  <2>1. CASE o[f] = Defaults(tty)[f] /\ \A j \in Before(n) : f \notin DOMAIN Says(j)
    BY <1>1, <1>3, <2>1
  <2>2. CASE \E l \in Before(n) :
               /\ f \in DOMAIN Says(l)
               /\ \A j \in Before(n) : j > l => f \notin DOMAIN Says(j)
               /\ o[f] = Says(l)[f] \/ TooWide(f, Says(l)[f])
    BY <1>1, <1>3, <2>2
  <2> QED BY <2>1, <2>2 DEF Faithful
<1> QED BY <1>2, <1>3

-----------------------------------------------------------------------------
\* The argument at hand is an option or a word, and the next one is too,
\* unless it is the value of the one at hand.
LEMMA NextArgument ==
  ASSUME ArgvOK, NEW n \in 1..Len(argv), ~IsValue[n]
  PROVE  /\ n \in DOMAIN argv
         /\ IF argv[n] \in Dashed THEN n \in Options ELSE n \in Words
         /\ \A j \in Before(n) : j < n
         /\ Before(n) \subseteq Int
         /\ argv[n] \notin Valued => ~IsValue[n + 1] /\ Before(n + 1) = Before(n) \cup {n}
         /\ argv[n] \in Valued => /\ IsValue[n + 1] /\ ~IsValue[n + 2]
                                  /\ Before(n + 2) = Before(n) \cup {n}
<1>1. n \in DOMAIN argv /\ Len(argv) \in Nat
  BY DEF ArgvOK
<1>2. IF argv[n] \in Dashed THEN n \in Options ELSE n \in Words
  BY <1>1 DEF Options, Words
<1>3. Options \cup Words \subseteq 1..Len(argv)
  BY Marks
<1>4. argv[n] \notin Valued => ~IsValue[n + 1]
  <2>1. n + 1 \in Nat /\ (n + 1) - 1 = n
    OBVIOUS
  <2> QED BY <2>1, IsValueDef
<1>5. argv[n] \in Valued => IsValue[n + 1] /\ ~IsValue[n + 2]
  <2>1. n + 1 \in Nat /\ (n + 1) - 1 = n /\ n + 2 \in Nat /\ (n + 2) - 1 = n + 1 /\ n + 1 > 1
    OBVIOUS
  <2> QED BY <2>1, IsValueDef
<1>6. Before(n + 1) = Before(n) \cup {n}
  BY <1>2, <1>3 DEF Before
<1>7. IsValue[n + 1] => Before(n + 2) = Before(n) \cup {n}
  <2>1. IsValue[n + 1] => n + 1 \notin Options \cup Words
    BY DEF Options, Words
  <2> QED BY <1>2, <1>3, <2>1 DEF Before
<1> QED BY <1>1, <1>2, <1>3, <1>4, <1>5, <1>6, <1>7 DEF Before

\* The words before an argument: one more when it is a word itself.
LEMMA WordCount ==
  ASSUME ArgvOK, NEW n \in 1..Len(argv), NEW m, Before(m) = Before(n) \cup {n},
         NEW p, p = Cardinality({k \in Words : k < n})
  PROVE  /\ n \in Options => /\ Cardinality({k \in Words : k < m}) = p
                             /\ \A q : ~IsWord(n, q)
         /\ n \in Words => /\ Cardinality({k \in Words : k < m}) = p + 1
                           /\ \A q : IsWord(n, q) <=> q = p + 1
         /\ p \in Nat
<1>1. Options \cup Words \subseteq 1..Len(argv) /\ \A k \in Options : k \notin Words
  BY Marks
<1>2. IsFiniteSet({k \in Words : k < n}) /\ p \in Nat
  BY Marks
<1>3. ASSUME n \in Options
      PROVE  {k \in Words : k < m} = {k \in Words : k < n} /\ \A q : ~IsWord(n, q)
  BY <1>1, <1>3 DEF Before, IsWord
<1>4. ASSUME n \in Words
      PROVE  /\ {k \in Words : k < m} = {k \in Words : k < n} \cup {n}
             /\ {k \in Words : k <= n} = {k \in Words : k < n} \cup {n}
  BY <1>1, <1>4 DEF Before
<1>5. Cardinality({k \in Words : k < n} \cup {n}) = p + 1
  <2>1. n \notin {k \in Words : k < n}
    OBVIOUS
  <2> QED BY <1>2, <2>1, FS_AddElement
<1> QED BY <1>2, <1>3, <1>4, <1>5 DEF IsWord

\* What the words that are options say is theirs alone.
LEMMA OptionKinds ==
  /\ \A w \in DOMAIN Switch : w \in Dashed /\ w \notin Valued \cup Informs \cup Unknown
  /\ \A w \in Valued : w \in Dashed /\ w \notin DOMAIN Switch \cup Informs \cup Unknown
  /\ \A w \in Informs : w \in Dashed /\ w \notin DOMAIN Switch \cup Valued \cup Unknown
  /\ \A w \in Unknown : w \in Dashed /\ w \notin DOMAIN Switch \cup Valued \cup Informs
<1>1. DOMAIN Switch \cap (Valued \cup Informs) = {} /\ Valued \cap Informs = {}
  BY DEF Switch, Valued, Informs
<1> QED BY <1>1, WordsAssumption DEF Dashed, WordsAssumption

\* A switch, an accepted value and one of the first two words do not end the
\* reading, and say what main takes from them.
LEMMA Meanings ==
  ASSUME ArgvOK, NEW n \in 1..Len(argv), ~IsValue[n],
         NEW p, p = Cardinality({k \in Words : k < n})
  PROVE  /\ argv[n] \in DOMAIN Switch => ~Ends(n) /\ Says(n) = Switch[argv[n]]
         /\ argv[n] \in Valued /\ n < Len(argv) /\ Accepts(argv[n], argv[n + 1]) =>
              /\ ~Ends(n)
              /\ DOMAIN Says(n) = DOMAIN SetBy(argv[n], argv[n + 1])
              /\ \A f \in DOMAIN Says(n) : \/ SetBy(argv[n], argv[n + 1])[f] = Says(n)[f]
                                           \/ TooWide(f, Says(n)[f])
         /\ argv[n] \notin Dashed /\ p < 2 =>
              /\ ~Ends(n)
              /\ Says(n) = IF p = 0 THEN [pattern |-> argv[n]] ELSE [search_path |-> argv[n]]
<1> USE OptionKinds
<1>0. /\ n \in DOMAIN argv
      /\ IF argv[n] \in Dashed THEN n \in Options ELSE n \in Words
      /\ \E m : Before(m) = Before(n) \cup {n}
  BY NextArgument
<1>1. \A q : IsWord(n, q) <=> argv[n] \notin Dashed /\ q = p + 1
  <2>1. \A k \in Options : k \notin Words
    BY Marks
  <2> QED BY <1>0, <2>1, WordCount
<1>2. p \in Nat
  BY <1>0, WordCount
<1>3. ASSUME argv[n] \in DOMAIN Switch
      PROVE  ~Ends(n) /\ Says(n) = Switch[argv[n]]
  <2>1. ~Ends(n)
    BY <1>1, <1>3 DEF Ends, Bad
  <2>2. argv[n] # "-m" /\ argv[n] \notin Valued
    BY <1>3 DEF Valued
  <2> QED BY <1>1, <1>3, <2>1, <2>2 DEF Says
<1>4. ASSUME argv[n] \in Valued, n < Len(argv), Accepts(argv[n], argv[n + 1])
      PROVE  /\ ~Ends(n)
             /\ DOMAIN Says(n) = DOMAIN SetBy(argv[n], argv[n + 1])
             /\ \A f \in DOMAIN Says(n) : \/ SetBy(argv[n], argv[n + 1])[f] = Says(n)[f]
                                          \/ TooWide(f, Says(n)[f])
  <2>1. ~Ends(n)
    BY <1>1, <1>4 DEF Ends, Bad
  <2>2. CASE argv[n] = "-m"
    <3>1. Says(n) = [max_count |-> Numbers[argv[n + 1]]]
      BY <1>1, <1>4, <2>2 DEF Says
    <3>2. SetBy(argv[n], argv[n + 1]) = [max_count |-> AsInt(Numbers[argv[n + 1]])]
      BY <2>2 DEF SetBy
    <3>3. argv[n + 1] \in DOMAIN Numbers /\ Numbers[argv[n + 1]] >= 1
      BY <1>4, <2>2 DEF Accepts, Positive
    <3>4. \/ AsInt(Numbers[argv[n + 1]]) = Numbers[argv[n + 1]]
          \/ Numbers[argv[n + 1]] > IntMax
      BY <3>3, SmallInt, CommandLineAssumption DEF CommandLineAssumption
    <3> QED BY <2>1, <3>1, <3>2, <3>4 DEF TooWide
  <2>3. CASE argv[n] # "-m"
    <3>1. Says(n) = SetBy(argv[n], argv[n + 1])
      BY <1>1, <1>4, <2>3 DEF Says
    <3> QED BY <2>1, <3>1
  <2> QED BY <2>2, <2>3
<1>5. ASSUME argv[n] \notin Dashed, p < 2
      PROVE  /\ ~Ends(n)
             /\ Says(n) = IF p = 0 THEN [pattern |-> argv[n]] ELSE [search_path |-> argv[n]]
  <2>1. ~Ends(n)
    BY <1>1, <1>2, <1>5 DEF Ends, Bad
  <2>2. argv[n] \notin DOMAIN Switch /\ argv[n] # "-m" /\ argv[n] \notin Valued
    BY <1>5 DEF Valued
  <2> QED BY <1>1, <1>2, <1>5, <2>1, <2>2 DEF Says
<1> QED BY <1>3, <1>4, <1>5


\* Each of the three ways to read on keeps the account of what was read.
LEMMA ReadsOn ==
  ASSUME ArgvOK, NEW n \in 1..Len(argv), NEW p, NEW o, DOMAIN o = Fields, ReadUpTo(n, p, o)
  PROVE  /\ argv[n] \in DOMAIN Switch =>
              ReadUpTo(n + 1, p, With(o, Switch[argv[n]]))
         /\ argv[n] \in Valued /\ n < Len(argv) /\ Accepts(argv[n], argv[n + 1]) =>
              ReadUpTo(n + 2, p, With(o, SetBy(argv[n], argv[n + 1])))
         /\ argv[n] \notin Dashed /\ p < 2 =>
              ReadUpTo(n + 1, p + 1,
                       With(o, IF p = 0 THEN [pattern |-> argv[n]] ELSE [search_path |-> argv[n]]))
<1> DEFINE Word == IF p = 0 THEN [pattern |-> argv[n]] ELSE [search_path |-> argv[n]]
<1>1. ~IsValue[n] /\ p = Cardinality({k \in Words : k < n})
  BY DEF ReadUpTo
<1>2. /\ n \in DOMAIN argv /\ Len(argv) \in Nat
      /\ IF argv[n] \in Dashed THEN n \in Options ELSE n \in Words
      /\ \A j \in Before(n) : j < n
      /\ Before(n) \subseteq Int
  BY <1>1, NextArgument DEF ArgvOK
<1>3. ASSUME NEW m \in 1..Len(argv) + 1, NEW e, NEW q, ~IsValue[m], ~Ends(n),
             Before(m) = Before(n) \cup {n},
             q = Cardinality({k \in Words : k < m}),
             DOMAIN e = DOMAIN Says(n),
             \A f \in DOMAIN e : e[f] = Says(n)[f] \/ TooWide(f, Says(n)[f])
      PROVE  ReadUpTo(m, q, With(o, e))
  <2>1. Faithful(With(o, e), m)
    BY <1>2, <1>3, OneMore DEF ReadUpTo
  <2> QED BY <1>3, <2>1 DEF ReadUpTo
<1>4. ASSUME argv[n] \in DOMAIN Switch
      PROVE  ReadUpTo(n + 1, p, With(o, Switch[argv[n]]))
  <2>1. argv[n] \in Dashed /\ argv[n] \notin Valued
    BY <1>4, OptionKinds
  <2>2. ~IsValue[n + 1] /\ Before(n + 1) = Before(n) \cup {n}
    BY <1>1, <2>1, NextArgument
  <2>3. p = Cardinality({k \in Words : k < n + 1})
    BY <1>1, <1>2, <2>1, <2>2, WordCount
  <2>4. ~Ends(n) /\ Says(n) = Switch[argv[n]]
    BY <1>1, <1>4, Meanings
  <2>5. n + 1 \in 1..Len(argv) + 1
    BY <1>2
  <2> DEFINE e == Switch[argv[n]]
  <2>6. DOMAIN e = DOMAIN Says(n) /\ \A f \in DOMAIN e : e[f] = Says(n)[f]
    BY <2>4
  <2>7. ReadUpTo(n + 1, p, With(o, e))
    <3> HIDE DEF e
    <3> QED BY <1>3, <2>2, <2>3, <2>4, <2>5, <2>6
  <2> QED BY <2>7
<1>5. ASSUME argv[n] \in Valued, n < Len(argv), Accepts(argv[n], argv[n + 1])
      PROVE  ReadUpTo(n + 2, p, With(o, SetBy(argv[n], argv[n + 1])))
  <2>1. argv[n] \in Dashed
    BY <1>5, OptionKinds
  <2>2. ~IsValue[n + 2] /\ Before(n + 2) = Before(n) \cup {n}
    BY <1>1, <1>5, NextArgument
  <2>3. p = Cardinality({k \in Words : k < n + 2})
    BY <1>1, <1>2, <2>1, <2>2, WordCount
  <2>4. /\ ~Ends(n)
        /\ DOMAIN Says(n) = DOMAIN SetBy(argv[n], argv[n + 1])
        /\ \A f \in DOMAIN Says(n) : \/ SetBy(argv[n], argv[n + 1])[f] = Says(n)[f]
                                     \/ TooWide(f, Says(n)[f])
    BY <1>1, <1>5, Meanings
  <2>5. n + 2 \in 1..Len(argv) + 1
    BY <1>2, <1>5
  <2> QED BY <1>3, <2>2, <2>3, <2>4, <2>5
<1>6. ASSUME argv[n] \notin Dashed, p < 2
      PROVE  ReadUpTo(n + 1, p + 1, With(o, Word))
  <2>1. argv[n] \notin Valued
    BY <1>6, OptionKinds
  <2>2. ~IsValue[n + 1] /\ Before(n + 1) = Before(n) \cup {n}
    BY <1>1, <2>1, NextArgument
  <2>3. p + 1 = Cardinality({k \in Words : k < n + 1})
    BY <1>1, <1>2, <1>6, <2>2, WordCount
  <2>4. ~Ends(n) /\ Says(n) = Word
    BY <1>1, <1>6, Meanings
  <2> HIDE DEF Word
  <2> QED BY <1>2, <1>3, <2>2, <2>3, <2>4
<1> QED BY <1>4, <1>5, <1>6

\* Nothing is read when reading starts.
LEMMA StartsReading ==
  ASSUME ArgvOK
  PROVE  ReadUpTo(1, 0, Defaults(tty))
<1>1. Options \cup Words \subseteq 1..Len(argv) /\ Len(argv) \in Nat
  BY Marks
<1>2. Before(1) = {} /\ {k \in Words : k < 1} = {}
  BY <1>1 DEF Before
<1>3. ~IsValue[1]
  BY IsValueDef
<1>4. Faithful(Defaults(tty), 1)
  BY <1>2 DEF Faithful
<1>5. Cardinality({k \in Words : k < 1}) = 0
  BY <1>2, FS_EmptySet
<1>6. 1 \in 1..Len(argv) + 1
  BY <1>1
<1> QED BY <1>2, <1>3, <1>4, <1>5, <1>6 DEF ReadUpTo

\* The first argument that ends the reading says whether help was asked for.
LEMMA FirstEnding ==
  ASSUME ArgvOK, NEW n \in 1..Len(argv) + 1, NEW p, NEW o, ReadUpTo(n, p, o)
  PROVE  /\ n = Len(argv) + 1 => ~Informed
         /\ n \in Options \cup Words /\ Ends(n) => (Informed <=> argv[n] \in Informs)
<1>1. Options \cup Words \subseteq 1..Len(argv) /\ Len(argv) \in Nat
  BY Marks
<1>2. \A k \in Endings : k \in Int /\ n <= k
  BY <1>1 DEF ReadUpTo, Before, Endings
<1>3. n = Len(argv) + 1 => Endings = {}
  BY <1>1, <1>2 DEF Endings
<1>4. ASSUME n \in Endings
      PROVE  \A k : IsFirst(k, Endings) <=> k = n
  <2>1. ASSUME NEW k, IsFirst(k, Endings)
        PROVE  k = n
    <3>1. k \in Int /\ k <= n /\ n <= k
      BY <1>2, <1>4, <2>1 DEF IsFirst
    <3> QED BY <1>1, <3>1
  <2>2. IsFirst(n, Endings)
    BY <1>2, <1>4 DEF IsFirst
  <2> QED BY <2>1, <2>2
<1>5. n = Len(argv) + 1 => ~Informed
  BY <1>3 DEF Informed
<1>6. n \in Endings => (Informed <=> argv[n] \in Informs)
  BY <1>4 DEF Informed
<1> QED BY <1>5, <1>6 DEF Endings

\* An option that is not accepted, and a third word, end the reading.
LEMMA Refusals ==
  ASSUME ArgvOK, NEW n \in 1..Len(argv), NEW p, NEW o, ReadUpTo(n, p, o)
  PROVE  /\ argv[n] \in Informs => Informed
         /\ argv[n] \in Unknown => ~Informed
         /\ argv[n] \in Valued /\ ~(n < Len(argv) /\ Accepts(argv[n], argv[n + 1])) => ~Informed
         /\ argv[n] \notin Dashed /\ ~(p < 2) => ~Informed
<1>1. ~IsValue[n] /\ p = Cardinality({k \in Words : k < n})
  BY DEF ReadUpTo
<1>2. /\ n \in DOMAIN argv /\ Len(argv) \in Nat
      /\ IF argv[n] \in Dashed THEN n \in Options ELSE n \in Words
  BY <1>1, NextArgument DEF ArgvOK
<1>3. n \in 1..Len(argv) + 1
  BY <1>2
<1>4. ASSUME argv[n] \notin Dashed, ~(p < 2)
      PROVE  Ends(n)
  <2>1. argv[n] \notin Valued
    BY <1>4, OptionKinds
  <2>2. Before(n + 1) = Before(n) \cup {n}
    BY <1>1, <2>1, NextArgument
  <2>3. IsWord(n, p + 1) /\ p \in Nat
    BY <1>1, <1>2, <1>4, <2>2, WordCount
  <2>4. p <= n - 1
    <3>1. {k \in Words : k < n} \subseteq 1..(n - 1)
      BY Marks
    <3>2. IsFiniteSet(1..(n - 1)) /\ Cardinality(1..(n - 1)) = n - 1
      BY FS_Interval
    <3> QED BY <1>1, <3>1, <3>2, FS_Subset
  <2>5. p + 1 \in 3..Len(argv)
    BY <1>2, <1>4, <2>3, <2>4
  <2> QED BY <2>3, <2>5 DEF Ends, Bad
<1>5. argv[n] \in Informs \/ argv[n] \in Unknown => Ends(n)
  BY DEF Ends, Bad
<1>6. argv[n] \in Valued /\ ~(n < Len(argv) /\ Accepts(argv[n], argv[n + 1])) => Ends(n)
  BY DEF Ends, Bad
<1>7. n \in Options \cup Words
  BY <1>2
<1>8. Ends(n) => (Informed <=> argv[n] \in Informs)
  BY <1>3, <1>7, FirstEnding
<1> QED BY <1>4, <1>5, <1>6, <1>8, OptionKinds

-----------------------------------------------------------------------------
(* Types.                                                                  *)

\* The types of CTypeOK, with what they rest on.
Typed ==
  /\ argv \in Argvs /\ tty \in BOOLEAN
  /\ i \in 1..(Len(argv) + 1)
  /\ WellFormed(opts)
  /\ positionals \in 0..2
  /\ pc \in {"parse", "matcher", "printer", "queue", "pool", "walk", "cleanup", "exit"}
  /\ live \subseteq Everything
  /\ running \in 0..IntMax
  /\ active \in BOOLEAN /\ work \in BOOLEAN /\ missed \in BOOLEAN
  /\ match_count \in Nat
  /\ total_matches \in Nat \cup {Unset}
  /\ walk_rc \in {0, -1}
  /\ status \in {0, 1, Unset}

\* The value of an option that is accepted fits.
LEMMA ValuesHarmless ==
  ASSUME NEW o \in Valued, NEW w, Accepts(o, w)
  PROVE  Harmless(SetBy(o, w))
<1>1. CASE o = "-m"
  <2>1. Numbers[w] \in Int
    BY <1>1, CommandLineAssumption DEF Accepts, Positive, CommandLineAssumption
  <2>2. AsInt(Numbers[w]) \in (-IntMax - 1)..IntMax
    BY <2>1, IntRange
  <2>3. SetBy(o, w) = [max_count |-> AsInt(Numbers[w])]
    BY <1>1 DEF SetBy
  <2> QED BY <2>2, <2>3 DEF Harmless, Flags, Numeric
<1>2. CASE o = "-j"
  <2>1. Numbers[w] \in 1..IntMax
    BY <1>2, CommandLineAssumption DEF Accepts, Positive, CommandLineAssumption
  <2>2. SetBy(o, w) = [num_threads |-> Numbers[w]]
    BY <1>2 DEF SetBy
  <2> QED BY <2>1, <2>2 DEF Harmless, Flags, Numeric
<1>3. CASE o = "--color"
  <2>1. SetBy(o, w) = [color_enabled |-> 1] \/ SetBy(o, w) = [color_enabled |-> 0]
    BY <1>3 DEF SetBy
  <2> QED BY <2>1 DEF Harmless
<1> QED BY <1>1, <1>2, <1>3 DEF Valued

\* A word that is no option sets the pattern or the path.
LEMMA WordsHarmless ==
  \A w : Harmless([pattern |-> w]) /\ Harmless([search_path |-> w])
  BY DEF Harmless, Flags, Worded

\* Reading an argument keeps the values within their types.
LEMMA TypedReading ==
  ASSUME Typed,
         ReadSwitch \/ ReadValued \/ Inform \/ RefuseOption \/ ReadPositional \/ Parsed
  PROVE  Typed'
<1> USE DEF args, parsing, search, ending
<1>0. Len(argv) \in Nat
  BY WordsAssumption DEF Typed, WordsAssumption
<1>1. ASSUME NEW n \in 1..(Len(argv) + 1), NEW o, Continue(n, o), WellFormed(o),
             positionals' \in 0..2
      PROVE  Typed'
  BY <1>1 DEF Typed, Continue
<1>2. ASSUME NEW c \in {0, 1}, Leave(c)
      PROVE  Typed'
  BY <1>2 DEF Typed, Leave, Exit
<1>3. CASE ReadSwitch
  <2>1. WellFormed(With(opts, Switch[Arg])) /\ i + 1 \in 1..(Len(argv) + 1)
    BY <1>0, <1>3, WithKeepsForm, SwitchHarmless DEF Typed, ReadSwitch, Given
  <2>2. positionals' \in 0..2
    BY <1>3 DEF Typed, ReadSwitch
  <2> QED BY <1>1, <1>3, <2>1, <2>2 DEF ReadSwitch
<1>4. CASE ReadValued
  <2>1. CASE i < Len(argv) /\ Accepts(Arg, argv[i + 1])
    <3>1. WellFormed(With(opts, SetBy(Arg, argv[i + 1])))
      BY <1>4, <2>1, WithKeepsForm, ValuesHarmless DEF Typed, ReadValued, Given
    <3>2. AfterValue(i) \in 1..(Len(argv) + 1)
      BY <1>0, <2>1 DEF Typed, AfterValue
    <3>3. positionals' \in 0..2
      BY <1>4, <2>1 DEF Typed, ReadValued
    <3>4. Continue(AfterValue(i), With(opts, SetBy(Arg, argv[i + 1])))
      BY <1>4, <2>1 DEF ReadValued
    <3> QED BY <1>1, <3>1, <3>2, <3>3, <3>4
  <2>2. CASE ~(i < Len(argv) /\ Accepts(Arg, argv[i + 1]))
    BY <1>2, <1>4, <2>2 DEF ReadValued
  <2> QED BY <2>1, <2>2
<1>5. CASE Inform \/ RefuseOption
  BY <1>2, <1>5 DEF Inform, RefuseOption
<1>6. CASE ReadPositional
  <2>1. CASE positionals < 2
    <3> DEFINE Word == IF positionals = 0 THEN [pattern |-> Arg] ELSE [search_path |-> Arg]
    <3>1. Harmless(Word)
      BY WordsHarmless
    <3>2. WellFormed(With(opts, Word))
      BY <3>1, WithKeepsForm DEF Typed
    <3>3. i + 1 \in 1..(Len(argv) + 1) /\ positionals + 1 \in 0..2
      BY <1>0, <1>6, <2>1 DEF Typed, ReadPositional
    <3>4. Continue(i + 1, With(opts, Word)) /\ positionals' = positionals + 1
      BY <1>6, <2>1 DEF ReadPositional
    <3> HIDE DEF Word
    <3> QED BY <1>1, <3>2, <3>3, <3>4
  <2>2. CASE ~(positionals < 2)
    BY <1>2, <1>6, <2>2 DEF ReadPositional
  <2> QED BY <2>1, <2>2
<1>7. CASE Parsed
  <2>1. CASE opts.pattern = NULL
    BY <1>2, <1>7, <2>1 DEF Parsed
  <2>2. CASE opts.pattern # NULL
    BY <1>7, <2>2 DEF Typed, Parsed
  <2> QED BY <2>1, <2>2
<1> QED BY <1>3, <1>4, <1>5, <1>6, <1>7

\* So does everything main and the workers do afterwards.
LEMMA TypedRunning ==
  ASSUME Typed,
         \/ greg_matcher_init \/ greg_printer_init \/ PrinterFails
         \/ greg_queue_init \/ QueueFails \/ greg_pool_init \/ PoolFails
         \/ greg_walk_directory \/ Search \/ WorkerReturns \/ TakeDown \/ Return
  PROVE  Typed'
<1> USE DEF Typed, args, parsing, search, ending
<1>1. CASE greg_matcher_init
  BY <1>1 DEF greg_matcher_init, SetUp, Leave, Exit, Everything
<1>2. CASE greg_printer_init
  BY <1>2 DEF greg_printer_init, SetUp, Everything
<1>9. CASE greg_queue_init
  BY <1>9 DEF greg_queue_init, SetUp, Everything
<1>3. CASE greg_pool_init
  <2>1. opts.num_threads \in 1..IntMax
    BY DEF WellFormed
  <2>2. running' \in 0..IntMax
    BY <1>3, <2>1, CommandLineAssumption DEF greg_pool_init, Threads, CommandLineAssumption
  <2> QED BY <1>3, <2>2 DEF greg_pool_init, SetUp, Everything
<1>4. CASE PrinterFails \/ QueueFails \/ PoolFails
  BY <1>4 DEF PrinterFails, QueueFails, PoolFails, Undo, Undone, Everything
<1>5. CASE greg_walk_directory
  BY <1>5 DEF greg_walk_directory
<1>6. CASE Search
  <2>1. match_count' \in Nat
    BY <1>6 DEF Search, Found
  <2> QED BY <1>6, <2>1 DEF Search
<1>10. CASE WorkerReturns
  <2>1. running' \in 0..IntMax
    BY <1>10, CommandLineAssumption DEF WorkerReturns, CommandLineAssumption
  <2> QED BY <1>10, <2>1 DEF WorkerReturns
<1>7. CASE TakeDown
  <2>1. total_matches' \in Nat \cup {Unset} /\ live' \subseteq Everything
    BY <1>7 DEF TakeDown
  <2> QED BY <1>7, <2>1 DEF TakeDown
<1>8. CASE Return
  <2>1. status' \in {0, 1}
    BY <1>8 DEF Return, Exit, StatusOf
  <2> QED BY <1>8, <2>1 DEF Return, Exit
<1> QED BY <1>1, <1>2, <1>3, <1>4, <1>5, <1>6, <1>7, <1>8, <1>9, <1>10

\* The types are kept from the start.
LEMMA TypedInv == CSpec => []Typed
<1>1. CInit => Typed
  <2> SUFFICES ASSUME CInit PROVE Typed
    OBVIOUS
  <2>1. Len(argv) \in Nat
    BY WordsAssumption DEF CInit, WordsAssumption
  <2>2. WellFormed(opts) /\ i \in 1..(Len(argv) + 1)
    BY <2>1, DefaultsWellFormed DEF CInit
  <2>3. running \in 0..IntMax
    BY CommandLineAssumption DEF CInit, CommandLineAssumption
  <2>4. argv \in Argvs /\ tty \in BOOLEAN /\ active \in BOOLEAN /\ work \in BOOLEAN
        /\ missed \in BOOLEAN
    BY DEF CInit
  <2>5. positionals \in 0..2 /\ match_count \in Nat /\ walk_rc \in {0, -1}
    BY DEF CInit
  <2>6. /\ pc \in {"parse", "matcher", "printer", "queue", "pool", "walk", "cleanup", "exit"}
        /\ live \subseteq Everything
        /\ total_matches \in Nat \cup {Unset} /\ status \in {0, 1, Unset}
    BY DEF CInit
  <2> QED BY <2>2, <2>3, <2>4, <2>5, <2>6 DEF Typed
<1>2. Typed /\ [CNext]_cvars => Typed'
  <2> SUFFICES ASSUME Typed, [CNext]_cvars
               PROVE  Typed'
    OBVIOUS
  <2>1. CASE Gone \/ UNCHANGED cvars
    BY <2>1 DEF Gone, cvars, args, parsing, search, ending, Typed
  <2>2. CASE CNext /\ ~Gone
    BY <2>2, TypedReading, TypedRunning DEF CNext
  <2> QED BY <2>1, <2>2
<1> QED BY <1>1, <1>2, PTL DEF CSpec

\* Every variable stays within its type, max_count and num_threads within
\* those of C, for every command line (main.c:98-121).
THEOREM CommandLineTypes == CSpec => []CTypeOK
<1>1. Typed => CTypeOK
  <2> SUFFICES ASSUME Typed PROVE CTypeOK
    OBVIOUS
  <2>1. \A f \in DOMAIN opts \ {"max_count", "num_threads", "pattern", "search_path"} :
          opts[f] \in {0, 1}
    BY DEF Typed, WellFormed, Flags, Numeric, Worded
  <2> QED BY <2>1 DEF Typed, WellFormed, CTypeOK, Everything
<1> QED BY <1>1, TypedInv, PTL

-----------------------------------------------------------------------------
(* What was read.                                                          *)

\* While main parses, it has read what lies behind i, and everything later.
RInv ==
  /\ pc = "parse" => ReadUpTo(i, positionals, opts)
  /\ pc \notin {"parse", "exit"} => /\ i = Len(argv) + 1
                                    /\ ReadUpTo(i, positionals, opts)

\* A step that leaves argv alone may be accounted for in the old state.
LEMMA StillRead ==
  ASSUME UNCHANGED <<argv, tty>>, ReadUpTo(i', positionals', opts')
  PROVE  ReadUpTo(i, positionals, opts)'
<1>1. /\ IsValue' = IsValue /\ Options' = Options /\ Words' = Words
      /\ \A k : Says(k)' = Says(k)
      /\ \A k : Ends(k)' <=> Ends(k)
  BY SameReading
<1>2. Before(i)' = Before(i')
  BY <1>1 DEF Before
<1>3. Faithful(opts', i') => Faithful(opts, i)'
  BY <1>1, <1>2 DEF Faithful
<1> QED BY <1>1, <1>2, <1>3 DEF ReadUpTo

\* Every step keeps the account of what was read.
LEMMA ReadingStep ==
  ASSUME Typed, RInv, [CNext]_cvars
  PROVE  RInv'
<1> USE DEF args, parsing, search, ending
<1>0. ArgvOK /\ Len(argv) \in Nat /\ DOMAIN opts = Fields
  BY WordsAssumption DEF Typed, ArgvOK, WordsAssumption, WellFormed
<1>1. ASSUME pc' = "exit"
      PROVE  RInv'
  BY <1>1 DEF RInv
<1>2. ASSUME pc = "parse", i \in 1..Len(argv)
      PROVE  /\ Arg \in DOMAIN Switch =>
                  ReadUpTo(i + 1, positionals, With(opts, Switch[Arg]))
             /\ Arg \in Valued /\ i < Len(argv) /\ Accepts(Arg, argv[i + 1]) =>
                  ReadUpTo(i + 2, positionals, With(opts, SetBy(Arg, argv[i + 1])))
             /\ Arg \notin Dashed /\ positionals < 2 =>
                  ReadUpTo(i + 1, positionals + 1,
                    With(opts, IF positionals = 0 THEN [pattern |-> Arg]
                               ELSE [search_path |-> Arg]))
  <2>1. ReadUpTo(i, positionals, opts)
    BY <1>2 DEF RInv
  <2> QED BY <1>0, <1>2, <2>1, ReadsOn DEF Arg
<1>3. ASSUME pc = "parse", pc' = pc, UNCHANGED args, ReadUpTo(i', positionals', opts')
      PROVE  RInv'
  BY <1>3, StillRead DEF RInv
<1>4. CASE ReadSwitch
  <2>1. i \in 1..Len(argv)
    BY <1>0, <1>4 DEF Typed, ReadSwitch, Given
  <2> QED BY <1>2, <1>3, <1>4, <2>1 DEF ReadSwitch, Given, Continue
<1>5. CASE ReadValued
  <2>1. i \in 1..Len(argv)
    BY <1>0, <1>5 DEF Typed, ReadValued, Given
  <2>2. CASE i < Len(argv) /\ Accepts(Arg, argv[i + 1])
    <3>1. /\ Continue(i + 2, With(opts, SetBy(Arg, argv[i + 1])))
          /\ UNCHANGED positionals /\ pc = "parse" /\ Arg \in Valued
      BY <1>5, <2>2 DEF ReadValued, AfterValue, Given
    <3> QED BY <1>2, <1>3, <2>1, <2>2, <3>1 DEF Continue
  <2>3. CASE ~(i < Len(argv) /\ Accepts(Arg, argv[i + 1]))
    BY <1>1, <1>5, <2>3 DEF ReadValued, Leave, Exit
  <2> QED BY <2>2, <2>3
<1>6. CASE Inform \/ RefuseOption
  BY <1>1, <1>6 DEF Inform, RefuseOption, Leave, Exit
<1>7. CASE ReadPositional
  <2>1. i \in 1..Len(argv) /\ pc = "parse" /\ Arg \notin Dashed
    BY <1>0, <1>7 DEF Typed, ReadPositional
  <2>2. CASE positionals < 2
    <3> DEFINE o == With(opts, IF positionals = 0 THEN [pattern |-> Arg]
                               ELSE [search_path |-> Arg])
    <3>1. Continue(i + 1, o) /\ positionals' = positionals + 1
      BY <1>7, <2>2 DEF ReadPositional
    <3>2. ReadUpTo(i + 1, positionals + 1, o)
      BY <1>2, <2>1, <2>2
    <3> HIDE DEF o
    <3> QED BY <1>3, <2>1, <3>1, <3>2 DEF Continue
  <2>3. CASE ~(positionals < 2)
    BY <1>1, <1>7, <2>3 DEF ReadPositional, Leave, Exit
  <2> QED BY <2>2, <2>3
<1>8. ASSUME UNCHANGED <<args, parsing>>, RInv,
             \/ pc # "parse" /\ pc # "exit"
             \/ pc = "parse" /\ i = Len(argv) + 1
             \/ pc' = pc
      PROVE  RInv'
  <2>1. CASE pc' = "exit"
    BY <1>1, <2>1
  <2>2. CASE pc' # "exit" /\ pc = "exit"
    BY <1>8, <2>2
  <2>3. CASE pc' # "exit" /\ pc # "exit"
    <3>1. ReadUpTo(i, positionals, opts)'
      BY <1>8, <2>3, StillRead DEF RInv
    <3>2. pc' # "parse" => (i = Len(argv) + 1)'
      BY <1>8, <2>3 DEF RInv
    <3> QED BY <3>1, <3>2 DEF RInv
  <2> QED BY <2>1, <2>2, <2>3
<1>9. CASE Parsed
  BY <1>0, <1>1, <1>8, <1>9 DEF Parsed, Typed, Leave, Exit
<1>10. CASE greg_matcher_init
  BY <1>1, <1>8, <1>10 DEF greg_matcher_init, SetUp, Leave, Exit
<1>11. CASE greg_printer_init \/ PrinterFails \/ greg_queue_init \/ QueueFails
            \/ greg_pool_init \/ PoolFails \/ greg_walk_directory
  BY <1>8, <1>11 DEF greg_printer_init, PrinterFails, greg_queue_init, QueueFails,
       greg_pool_init, PoolFails, greg_walk_directory, SetUp, Undo
<1>12. CASE Search \/ WorkerReturns \/ TakeDown \/ Gone \/ UNCHANGED cvars
  BY <1>8, <1>12 DEF Search, WorkerReturns, TakeDown, Gone, cvars
<1>13. CASE Return
  BY <1>1, <1>13 DEF Return, Exit
<1> QED BY <1>4, <1>5, <1>6, <1>7, <1>9, <1>10, <1>11, <1>12, <1>13 DEF CNext

\* What main has read is known wherever it stands.
LEMMA ReadingInv == CSpec => []RInv
<1>1. CInit => RInv
  <2> SUFFICES ASSUME CInit PROVE RInv
    OBVIOUS
  <2>1. ArgvOK
    BY WordsAssumption DEF CInit, ArgvOK, WordsAssumption
  <2> QED BY <2>1, StartsReading DEF CInit, RInv
<1> QED BY <1>1, TypedInv, ReadingStep, PTL DEF CSpec

\* Once the command line is read every option has the value that the last
\* argument about it gives, or its default, for every command line
\* (main.c:142-239).
THEOREM OptionsFaithful == CSpec => []OptionsAsGiven
<1>1. Typed /\ RInv => OptionsAsGiven
  <2> SUFFICES ASSUME Typed, RInv, pc = "matcher", NEW f \in DOMAIN opts
               PROVE  IF \E k \in DOMAIN argv : Decides(k, f)
                      THEN \E k \in DOMAIN argv :
                             Decides(k, f) /\ (opts[f] = Says(k)[f] \/ TooWide(f, Says(k)[f]))
                      ELSE opts[f] = Defaults(tty)[f]
    BY DEF OptionsAsGiven
  <2>1. ArgvOK /\ Len(argv) \in Nat /\ DOMAIN argv = 1..Len(argv) /\ f \in Fields
    BY WordsAssumption DEF Typed, ArgvOK, WordsAssumption, WellFormed
  <2>2. Options \cup Words \subseteq 1..Len(argv)
    BY <2>1, Marks
  <2>3. i = Len(argv) + 1 /\ Faithful(opts, i)
    BY DEF RInv, ReadUpTo
  <2>4. Before(i) = Options \cup Words
    BY <2>1, <2>2, <2>3 DEF Before
  <2>5. \/ /\ opts[f] = Defaults(tty)[f]
           /\ \A k \in Options \cup Words : f \notin DOMAIN Says(k)
        \/ \E k \in Options \cup Words :
             /\ f \in DOMAIN Says(k)
             /\ \A j \in Options \cup Words : j > k => f \notin DOMAIN Says(j)
             /\ opts[f] = Says(k)[f] \/ TooWide(f, Says(k)[f])
    BY <2>1, <2>3, <2>4 DEF Faithful
  <2>6. CASE /\ opts[f] = Defaults(tty)[f]
             /\ \A k \in Options \cup Words : f \notin DOMAIN Says(k)
    BY <2>6 DEF Decides
  <2>7. ASSUME NEW k \in Options \cup Words,
               f \in DOMAIN Says(k),
               \A j \in Options \cup Words : j > k => f \notin DOMAIN Says(j),
               opts[f] = Says(k)[f] \/ TooWide(f, Says(k)[f])
        PROVE  \E l \in DOMAIN argv :
                 Decides(l, f) /\ (opts[f] = Says(l)[f] \/ TooWide(f, Says(l)[f]))
    BY <2>1, <2>2, <2>7 DEF Decides
  <2> QED BY <2>5, <2>6, <2>7
<1> QED BY <1>1, TypedInv, ReadingInv, PTL

-----------------------------------------------------------------------------
(* The exit status.                                                        *)

\* The count says whether a line to report was found; if nothing was lost it
\* was, unless nothing can be found.
Counted ==
  /\ match_count \in {0, 1}
  /\ match_count = 1 => HasLine
  /\ ~missed /\ Finds => match_count = 1

\* A walk that was begun is still to be searched, or it has been.
Underway ==
  \/ active /\ work /\ running > 0 /\ match_count = 0
  \/ ~active /\ Counted

\* Where main takes down, and whether it knows the count by then.
Reckoning ==
  \/ /\ todo \in {<<"queue", "printer", "matcher">>, <<"printer", "matcher">>,
                  <<"matcher">>, <<>>}
     /\ total_matches = Unset
  \/ /\ todo = InOrder
     /\ total_matches = Unset
     /\ walk_rc = 0 => Underway
  \/ /\ todo \in {<<"queue", "count", "printer", "matcher">>, <<"count", "printer", "matcher">>}
     /\ total_matches = Unset
     /\ walk_rc = 0 => Counted
     /\ running = 0
  \/ /\ todo \in {<<"printer", "matcher">>, <<"matcher">>, <<>>}
     /\ total_matches = match_count
     /\ walk_rc = 0 => Counted
     /\ running = 0

\* The count is not known before the workers are joined, and says then what
\* the tree has.
SInv ==
  /\ pc \notin {"cleanup", "exit"} => total_matches = Unset /\ ~work
  /\ pc \in {"queue", "pool", "walk"} => match_count = 0
  /\ pc \in {"pool", "walk"} => active
  /\ pc = "walk" => running > 0
  /\ pc = "cleanup" => Reckoning
  /\ StatusMeans

\* What ends the reading decides the status.
LEMMA StatusOfReading ==
  ASSUME Typed, RInv, SInv,
         \/ ReadSwitch \/ ReadValued \/ Inform \/ RefuseOption \/ ReadPositional
         \/ Parsed \/ greg_matcher_init
  PROVE  SInv'
<1> USE DEF args, parsing, search, ending
<1>0. ArgvOK /\ Len(argv) \in Nat /\ i \in 1..Len(argv) + 1
  BY WordsAssumption DEF Typed, ArgvOK, WordsAssumption
<1>1. pc \in {"parse", "matcher"} /\ UNCHANGED <<argv, total_matches, work, search>>
  BY DEF ReadSwitch, ReadValued, Inform, RefuseOption, ReadPositional, Parsed,
         greg_matcher_init, Given, Continue, Leave, SetUp
<1>2. total_matches = Unset /\ ~work /\ ReadUpTo(i, positionals, opts)
  BY <1>1 DEF SInv, RInv
<1>3. pc \notin {"cleanup", "exit"}
  BY <1>1
<1>4. ASSUME pc' \in {"parse", "matcher", "printer"}
      PROVE  SInv'
  BY <1>1, <1>2, <1>4 DEF SInv, StatusMeans
<1>5. ASSUME NEW c \in {0, 1}, Leave(c), c = 0 <=> Informed
      PROVE  SInv'
  <2>1. Informed' <=> Informed
    BY <1>1, SameReading
  <2>2. /\ pc' = "exit" /\ status' = c
        /\ total_matches' = Unset /\ ~work'
    BY <1>1, <1>2, <1>5 DEF Leave, Exit
  <2>3. ~Walked'
    BY <2>2 DEF Walked
  <2>4. (status' = 0) <=> Informed'
    BY <1>5, <2>1, <2>2
  <2>5. StatusMeans'
    BY <2>3, <2>4 DEF StatusMeans
  <2> QED BY <2>2, <2>5 DEF SInv
<1>6. i \in 1..Len(argv) =>
        /\ argv[i] \in Informs => Informed
        /\ argv[i] \in Unknown => ~Informed
        /\ argv[i] \in Valued /\ ~(i < Len(argv) /\ Accepts(argv[i], argv[i + 1])) => ~Informed
        /\ argv[i] \notin Dashed /\ ~(positionals < 2) => ~Informed
  BY <1>0, <1>2, Refusals
<1>7. i = Len(argv) + 1 => ~Informed
  BY <1>0, <1>2, FirstEnding
<1>8. CASE ReadSwitch
  BY <1>4, <1>8 DEF ReadSwitch, Given, Continue
<1>9. CASE ReadValued
  <2>1. i \in 1..Len(argv)
    BY <1>0, <1>9 DEF ReadValued, Given
  <2>2. CASE i < Len(argv) /\ Accepts(Arg, argv[i + 1])
    BY <1>4, <1>9, <2>2 DEF ReadValued, Given, Continue
  <2>3. CASE ~(i < Len(argv) /\ Accepts(Arg, argv[i + 1]))
    <3>1. Leave(1) /\ Arg \in Valued
      BY <1>9, <2>3 DEF ReadValued, Given
    <3>2. ~Informed
      BY <1>6, <2>1, <2>3, <3>1 DEF Arg
    <3> QED BY <1>5, <3>1, <3>2
  <2> QED BY <2>2, <2>3
<1>10. CASE Inform
  <2>1. i \in 1..Len(argv) /\ Leave(0) /\ Arg \in Informs
    BY <1>0, <1>10 DEF Inform, Given
  <2>2. Informed
    BY <1>6, <2>1 DEF Arg
  <2> QED BY <1>5, <2>1, <2>2
<1>11. CASE RefuseOption
  <2>1. i \in 1..Len(argv) /\ Leave(1) /\ Arg \in Unknown
    BY <1>0, <1>11 DEF RefuseOption, Given
  <2>2. ~Informed
    BY <1>6, <2>1 DEF Arg
  <2> QED BY <1>5, <2>1, <2>2
<1>12. CASE ReadPositional
  <2>1. i \in 1..Len(argv) /\ Arg \notin Dashed
    BY <1>0, <1>12 DEF ReadPositional
  <2>2. CASE positionals < 2
    BY <1>4, <1>12, <2>2 DEF ReadPositional, Continue
  <2>3. CASE ~(positionals < 2)
    <3>1. Leave(1)
      BY <1>12, <2>3 DEF ReadPositional
    <3>2. ~Informed
      BY <1>6, <2>1, <2>3 DEF Arg
    <3> QED BY <1>5, <3>1, <3>2
  <2> QED BY <2>2, <2>3
<1>13. CASE Parsed
  <2>1. ~Informed
    BY <1>0, <1>7, <1>13 DEF Parsed
  <2>2. Leave(1) \/ pc' = "matcher"
    BY <1>13 DEF Parsed
  <2> QED BY <1>4, <1>5, <2>1, <2>2
<1>14. CASE greg_matcher_init
  <2>1. ~Informed
    BY <1>7, <1>14 DEF greg_matcher_init, RInv
  <2>2. Leave(1) \/ pc' = "printer"
    BY <1>14 DEF greg_matcher_init, SetUp
  <2> QED BY <1>4, <1>5, <2>1, <2>2
<1> QED BY <1>8, <1>9, <1>10, <1>11, <1>12, <1>13, <1>14

\* Setting up, the search and taking down lead main to the count.
LEMMA StatusOfSearch ==
  ASSUME Typed, RInv, CInv, SInv,
         \/ greg_printer_init \/ PrinterFails \/ greg_queue_init \/ QueueFails
         \/ greg_pool_init \/ PoolFails \/ greg_walk_directory
         \/ Search \/ WorkerReturns \/ TakeDown \/ Return
  PROVE  SInv'
<1> USE DEF args, parsing, search, ending
<1>1. ASSUME pc' = "cleanup", Reckoning'
      PROVE  SInv'
  BY <1>1 DEF SInv, StatusMeans
<1>2. CASE greg_printer_init \/ greg_queue_init
  BY <1>2 DEF greg_printer_init, greg_queue_init, SetUp, SInv, StatusMeans
<1>3. CASE greg_pool_init
  <2>1. running' > 0
    BY <1>3, CommandLineAssumption
       DEF greg_pool_init, Threads, Typed, WellFormed, CommandLineAssumption
  <2> QED BY <1>3, <2>1 DEF greg_pool_init, SetUp, SInv, StatusMeans
<1>4. CASE PrinterFails \/ QueueFails \/ PoolFails
  <2>1. /\ pc' = "cleanup" /\ total_matches' = Unset
        /\ todo' \in {<<"queue", "printer", "matcher">>, <<"printer", "matcher">>, <<"matcher">>}
    BY <1>4 DEF PrinterFails, QueueFails, PoolFails, Undo, UndoQueue, SInv
  <2>2. Reckoning'
    BY <2>1 DEF Reckoning
  <2> QED BY <1>1, <2>1, <2>2
<1>5. CASE greg_walk_directory
  <2>1. pc' = "cleanup" /\ todo' = InOrder /\ total_matches' = Unset
    BY <1>5 DEF greg_walk_directory, SInv
  <2>2. walk_rc' = 0 => Underway'
    BY <1>5 DEF greg_walk_directory, SInv, Underway
  <2>3. Reckoning'
    BY <2>1, <2>2 DEF Reckoning, InOrder
  <2> QED BY <1>1, <2>1, <2>3
<1>6. CASE Search
  <2>1. /\ running > 0 /\ active /\ work /\ running' = running
        /\ UNCHANGED <<pc, todo, total_matches, walk_rc>>
        /\ UNCHANGED <<HasLine, Finds>>
    BY <1>6 DEF Search, HasLine, Finds
  <2>2. pc = "cleanup"
    BY <2>1 DEF SInv, CInv, Idle, Typed
  <2>3. Underway => Underway'
    <3>1. /\ match_count' \in {match_count, Found} /\ ~active'
          /\ ~missed' => match_count' = Found
      BY <1>6 DEF Search
    <3> QED BY <2>1, <3>1 DEF Underway, Counted, Found, Finds
  <2>4. running # 0
    BY <2>1
  <2>5. Reckoning'
    BY <2>1, <2>2, <2>3, <2>4 DEF SInv, Reckoning, InOrder
  <2> QED BY <1>1, <2>1, <2>2, <2>5
<1>7. CASE WorkerReturns
  <2>1. /\ running > 0 /\ ~active
        /\ UNCHANGED <<pc, todo, total_matches, walk_rc, match_count, missed, active, work>>
        /\ UNCHANGED <<HasLine, Finds>>
    BY <1>7 DEF WorkerReturns, HasLine, Finds
  <2>2. pc = "cleanup"
    BY <2>1 DEF SInv, CInv, Idle, Typed
  <2>3. running # 0
    BY <2>1
  <2>4. (Counted' <=> Counted) /\ (Underway => Underway')
    BY <2>1 DEF Underway, Counted
  <2>5. Reckoning'
    BY <2>1, <2>2, <2>3, <2>4 DEF SInv, Reckoning, InOrder
  <2> QED BY <1>1, <2>1, <2>2, <2>5
<1>8. CASE TakeDown
  <2>1. /\ pc = "cleanup" /\ pc' = "cleanup" /\ todo # <<>> /\ todo' = Tail(todo)
        /\ UNCHANGED <<walk_rc, match_count, active, work, running>>
        /\ Counted' <=> Counted
        /\ Head(todo) = "pool" => running = 0
        /\ total_matches' = IF Head(todo) = "count" THEN match_count ELSE total_matches
    BY <1>8 DEF TakeDown, Counted, HasLine, Finds
  <2>2. CASE todo = InOrder /\ total_matches = Unset /\ (walk_rc = 0 => Underway)
    <3>1. Head(todo) = "pool" /\ todo' = <<"queue", "count", "printer", "matcher">>
      BY <2>1, <2>2 DEF InOrder
    <3>2. walk_rc = 0 => Counted
      BY <2>1, <2>2, <3>1 DEF Underway
    <3> QED BY <1>1, <2>1, <2>2, <3>1, <3>2 DEF Reckoning
  <2>3. CASE /\ total_matches = Unset /\ running = 0 /\ (walk_rc = 0 => Counted)
             /\ todo = <<"queue", "count", "printer", "matcher">>
    <3>1. Head(todo) = "queue" /\ todo' = <<"count", "printer", "matcher">>
      BY <2>1, <2>3
    <3> QED BY <1>1, <2>1, <2>3, <3>1 DEF Reckoning
  <2>4. CASE /\ total_matches = Unset /\ running = 0 /\ (walk_rc = 0 => Counted)
             /\ todo = <<"count", "printer", "matcher">>
    <3>1. Head(todo) = "count" /\ todo' = <<"printer", "matcher">>
      BY <2>1, <2>4
    <3> QED BY <1>1, <2>1, <2>4, <3>1 DEF Reckoning
  <2>5. CASE todo = <<"queue", "printer", "matcher">> /\ total_matches = Unset
    <3>1. Head(todo) = "queue" /\ todo' = <<"printer", "matcher">>
      BY <2>1, <2>5
    <3> QED BY <1>1, <2>1, <2>5, <3>1 DEF Reckoning
  <2>6. CASE /\ todo \in {<<"printer", "matcher">>, <<"matcher">>}
             /\ \/ total_matches = Unset
                \/ total_matches = match_count /\ running = 0 /\ (walk_rc = 0 => Counted)
    <3>1. CASE todo = <<"printer", "matcher">>
      <4>1. Head(todo) = "printer" /\ todo' = <<"matcher">>
        BY <2>1, <3>1
      <4> QED BY <1>1, <2>1, <2>6, <4>1 DEF Reckoning
    <3>2. CASE todo = <<"matcher">>
      <4>1. Head(todo) = "matcher" /\ todo' = <<>>
        BY <2>1, <3>2
      <4> QED BY <1>1, <2>1, <2>6, <4>1 DEF Reckoning
    <3> QED BY <2>6, <3>1, <3>2
  <2>7. Reckoning
    BY <2>1 DEF SInv
  <2> QED BY <2>1, <2>2, <2>3, <2>4, <2>5, <2>6, <2>7 DEF Reckoning
<1>9. CASE Return
  <2>1. /\ pc = "cleanup" /\ pc' = "exit" /\ todo = <<>>
        /\ status' = StatusOf(walk_rc, total_matches)
        /\ UNCHANGED <<total_matches, walk_rc, match_count, missed, argv, jit>>
        /\ UNCHANGED HasLine
    BY <1>9 DEF Return, Exit, HasLine
  <2>2. \/ total_matches = Unset
        \/ total_matches = match_count /\ (walk_rc = 0 => Counted)
    BY <2>1 DEF SInv, Reckoning, InOrder
  <2>3. ~Informed'
    <3>1. ArgvOK /\ i \in 1..Len(argv) + 1
      BY WordsAssumption DEF Typed, ArgvOK, WordsAssumption
    <3>2. ~Informed
      BY <2>1, <3>1, FirstEnding DEF RInv
    <3> QED BY <2>1, <3>2, SameReading
  <2>4. /\ status' = 0 => Walked /\ HasLine
        /\ Walked /\ HasLine /\ ~missed /\ jit => status' = 0
    BY <2>1, <2>2 DEF StatusOf, Walked, Counted, Finds, Unset
  <2> QED BY <2>1, <2>3, <2>4 DEF SInv, StatusMeans, Walked
<1> QED BY <1>2, <1>3, <1>4, <1>5, <1>6, <1>7, <1>8, <1>9

\* main returns 0 only when it was asked for help or its version before
\* anything was wrong, or when the path was walked and has a line to report;
\* and it does so then, unless the search lost something or libpcre2 cannot
\* compile just in time; for every command line, every part that cannot be
\* set up and every order of main and its workers (main.c:215-220, 281-313).
THEOREM StatusCorrect == CSpec => []StatusMeans
<1>1. CInit => SInv
  BY DEF CInit, SInv, StatusMeans
<1>2. Typed /\ RInv /\ CInv /\ SInv /\ [CNext]_cvars => SInv'
  <2> SUFFICES ASSUME Typed, RInv, CInv, SInv, [CNext]_cvars
               PROVE  SInv'
    OBVIOUS
  <2>1. CASE Gone \/ UNCHANGED cvars
    <3>1. UNCHANGED <<argv, pc, total_matches, work, match_count, active, running, todo,
                      walk_rc, status, missed, jit>>
          /\ UNCHANGED <<HasLine, Finds>>
      BY <2>1 DEF Gone, cvars, args, parsing, search, ending, HasLine, Finds
    <3>2. Informed' <=> Informed
      BY <3>1, SameReading
    <3> QED BY <3>1, <3>2 DEF SInv, Reckoning, Underway, Counted, StatusMeans, Walked, InOrder
  <2>2. CASE CNext /\ ~Gone
    BY <2>2, StatusOfReading, StatusOfSearch DEF CNext
  <2> QED BY <2>1, <2>2
<1>3. SInv => StatusMeans
  BY DEF SInv
<1> QED BY <1>1, <1>2, <1>3, TypedInv, ReadingInv, LiveParts, PTL DEF CSpec

=============================================================================
