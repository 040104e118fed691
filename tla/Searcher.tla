------------------------------ MODULE Searcher ------------------------------
(***************************************************************************)
(* greg_search_file of src/src/searcher.c: one worker searches one file    *)
(* and adds what it found to the printer that all workers share.           *)
(* FileView says how it comes by the lines of the file.                    *)
(*                                                                         *)
(* A file is the sequence of what greg_matcher_find answers for each of    *)
(* its lines, and the answer for the whole file, which the pre-check asks  *)
(* for first.  The two are independent: a pattern may match across lines,  *)
(* and an anchor such as \A means something else in a line than in a file. *)
(* The output is kept as pieces, not as text: where a match is and what it *)
(* reads go into the buffer one after the other.                           *)
(***************************************************************************)
EXTENDS FileView, SequencesExt

CONSTANTS
  Lines,          \* the files tried: sequences of answers, one per line
  IntMax,         \* the largest int (2^31 - 1); long is wider
  Requests,       \* the arguments of --max-count tried
  StackMatches,   \* capacity of the array on the stack (128)
  InitialCap      \* OUTBUF_INITIAL_CAP, in lines

Answers == {"match", "nomatch", "error"}

ASSUME SearcherAssumption ==
  /\ Lines \subseteq Seq(Answers)
  /\ IntMax \in Nat
  /\ Requests \subseteq Nat \ {0}
  /\ StackMatches \in Nat \ {0}
  /\ InitialCap \in Nat \ {0}

None == 0

\* (int)val of a positive long.
ToInt(v) == ((v + IntMax + 1) % (2 * (IntMax + 1))) - (IntMax + 1)

\* What opts.max_count holds for a command line: 0 without the option.
parse_max_count(request) == IF request = None THEN 0 ELSE ToInt(request)

VARIABLES
  lines, whole, binary,          \* the file
  invert_match, count_only, files_with_matches, search_binary,
  request,                       \* the argument of --max-count, None without
  pc,                            \* where the search stands
  line_num,                      \* the line to look at next
  matches,                       \* the line numbers stored so far
  matches_cap, matches_is_heap,  \* the array they are stored in
  alloc_failed,                  \* the array could not grow
  piece,                         \* the next piece of the report
  ob, cap, oom,                  \* the output buffer, its capacity, oom flag
  shown,                         \* what this file put on stdout
  listed,                        \* how often its name was printed for -l
  total,                         \* added to printer->match_count
  ret                            \* the return value

file == <<lines, whole, binary, kind>>
opts == <<invert_match, count_only, files_with_matches, search_binary, request>>
stored == <<matches, matches_cap, alloc_failed>>
array == <<stored, matches_is_heap>>
outbuf == <<ob, cap, oom>>
effects == <<shown, listed, total>>
svars == <<file, opts, pc, line_num, array, view, piece, outbuf, effects, ret>>

max_count == parse_max_count(request)

\* The line is selected: it matches, or with -v it does not.
Selects(answer) == answer = IF invert_match THEN "nomatch" ELSE "match"

SInit ==
  /\ lines \in Lines
  /\ whole \in Answers
  /\ binary \in BOOLEAN
  /\ invert_match \in BOOLEAN
  /\ count_only \in BOOLEAN
  /\ files_with_matches \in BOOLEAN
  /\ search_binary \in BOOLEAN
  /\ request \in Requests \cup {None}
  /\ pc = "map"
  /\ line_num = 1
  /\ matches = <<>>
  /\ matches_cap = StackMatches
  /\ matches_is_heap = FALSE
  /\ alloc_failed = FALSE
  /\ VInit(Len(lines))
  /\ kind # "regular" => lines = <<>>
  /\ piece = 1
  /\ ob = <<>> /\ cap = 0 /\ oom = FALSE
  /\ shown = <<>>
  /\ listed = 0
  /\ total = 0
  /\ ret = 0

\* Faulty variant: the view is not released.
FinishMapped(r) ==
  /\ pc' = "done"
  /\ ret' = r
  /\ UNCHANGED view

\* greg_file_unmap and return.
Finish(r) ==
  /\ pc' = "done"
  /\ ret' = r
  /\ greg_file_unmap

\* greg_printer_print_file: the name counts as one match.
PrintFile ==
  /\ listed' = listed + 1
  /\ total' = total + 1
  /\ UNCHANGED shown

\* A step of greg_file_map; when it fails the search returns -1.
MapFile ==
  /\ pc = "map"
  /\ greg_file_map
  /\ pc' = IF mapping' = "mapped" THEN "check" ELSE IF mapping' = "failed" THEN "done" ELSE pc
  /\ ret' = IF mapping' = "failed" THEN -1 ELSE ret
  /\ UNCHANGED <<file, opts, line_num, array, piece, outbuf, effects>>

FileCut ==
  /\ Shrink
  /\ UNCHANGED <<file, opts, pc, line_num, array, piece, outbuf, effects, ret>>

SkipsBinary == ~search_binary /\ size > 0 /\ binary

SkipBinary ==
  /\ pc = "check"
  /\ SkipsBinary
  /\ Finish(0)
  /\ UNCHANGED <<file, opts, line_num, array, piece, outbuf, effects>>

\* Except with -v the whole file is tried before its lines.
PreChecked == ~invert_match /\ size > 0

SkipFile ==
  /\ pc = "check"
  /\ ~SkipsBinary
  /\ PreChecked /\ whole = "nomatch"
  /\ Finish(0)
  /\ UNCHANGED <<file, opts, line_num, array, piece, outbuf, effects>>

\* With -l a match somewhere in the file settles it.
ListWholeFile ==
  /\ pc = "check"
  /\ ~SkipsBinary
  /\ PreChecked /\ whole = "match" /\ files_with_matches
  /\ PrintFile
  /\ Finish(1)
  /\ UNCHANGED <<file, opts, line_num, array, piece, outbuf>>

StartScan ==
  /\ pc = "check"
  /\ ~SkipsBinary
  /\ PreChecked => whole = "error" \/ (whole = "match" /\ ~files_with_matches)
  /\ pc' = "scan"
  /\ UNCHANGED <<file, opts, line_num, array, view, piece, outbuf, effects, ret>>

AtLine == pc = "scan" /\ line_num <= size

\* A line that is not selected, or on which matching failed.
PassLine ==
  /\ AtLine
  /\ ~Selects(lines[line_num])
  /\ line_num' = line_num + 1
  /\ UNCHANGED <<file, opts, pc, array, view, piece, outbuf, effects, ret>>

\* With -l the first selected line settles the file.
ListFile ==
  /\ AtLine
  /\ Selects(lines[line_num])
  /\ files_with_matches
  /\ PrintFile
  /\ matches_is_heap' = FALSE
  /\ Finish(1)
  /\ UNCHANGED <<file, opts, line_num, stored, piece, outbuf>>

\* Faulty variant: the array is thought to have one more place.
FullTooLate == Len(matches) > matches_cap

Full == Len(matches) >= matches_cap

\* The array moves to the heap, or grows there; without memory the scan ends.
Grow ==
  \/ /\ matches_cap' = matches_cap * 2
     /\ matches_is_heap' = TRUE
     /\ UNCHANGED alloc_failed
  \/ /\ alloc_failed' = TRUE
     /\ UNCHANGED <<matches_cap, matches_is_heap>>

\* Faulty variant: one match too many.
EnoughTooLate(n) == max_count > 0 /\ n > max_count

\* The number of matches that ends the scan.
Enough(n) == max_count > 0 /\ n >= max_count

StoreLine ==
  /\ AtLine
  /\ Selects(lines[line_num])
  /\ ~files_with_matches
  /\ IF Full THEN Grow ELSE UNCHANGED <<matches_cap, matches_is_heap, alloc_failed>>
  /\ IF alloc_failed'
     THEN pc' = "render" /\ UNCHANGED <<matches, line_num>>
     ELSE /\ matches' = Append(matches, line_num)
          /\ IF Enough(Len(matches'))
             THEN pc' = "render" /\ UNCHANGED line_num
             ELSE line_num' = line_num + 1 /\ UNCHANGED pc
  /\ UNCHANGED <<file, opts, view, piece, outbuf, effects, ret>>

EndOfFile ==
  /\ pc = "scan"
  /\ line_num > size
  /\ pc' = "render"
  /\ UNCHANGED <<file, opts, line_num, array, view, piece, outbuf, effects, ret>>

\* The end of the function: free the array, unmap, return the number of matches.
Return ==
  /\ matches_is_heap' = FALSE
  /\ Finish(Len(matches))

AddTotal == total' = total + Len(matches)

HasReport == count_only \/ matches # <<>>

\* Faulty variant: matches that are not shown are not counted.
CountsNothing == FALSE

\* Without an output buffer the matches still count, but not with -c.
CountsNoBuffer == ~count_only

\* outbuf_init fails: nothing is shown.
NoBuffer ==
  /\ pc = "render"
  /\ HasReport
  /\ oom' = TRUE
  /\ IF CountsNoBuffer THEN AddTotal ELSE UNCHANGED total
  /\ Return
  /\ UNCHANGED <<file, opts, line_num, stored, piece, ob, cap, shown, listed>>

NothingToShow ==
  /\ pc = "render"
  /\ ~HasReport
  /\ Return
  /\ UNCHANGED <<file, opts, line_num, stored, piece, outbuf, effects>>

OpenBuffer ==
  /\ pc = "render"
  /\ HasReport
  /\ pc' = "format"
  /\ cap' = InitialCap
  /\ UNCHANGED <<file, opts, line_num, array, view, piece, ob, oom, effects, ret>>

\* What a match at line n adds to the output.
PiecesOf(n) == << <<"place", n>>, <<"text", n>> >>

\* The output for the lines found: with -c their number, else each of them.
Pieces(found) ==
  IF count_only
  THEN << <<"place", 0>>, <<"count", Len(found)>> >>
  ELSE FlattenSeq([i \in DOMAIN found |-> PiecesOf(found[i])])

\* Faulty variant: a failure does not silence the appends that follow it.
NeverSilent == FALSE

Silent == oom

\* Append a piece; a buffer that is full is doubled, or gives up for good.
outbuf_append(p) ==
  \/ /\ Silent
     /\ UNCHANGED outbuf
  \/ /\ ~Silent
     /\ cap' = IF Len(ob) + 1 <= cap THEN cap ELSE cap * 2
     /\ ob' = Append(ob, p)
     /\ UNCHANGED oom
  \/ /\ ~Silent
     /\ Len(ob) + 1 > cap
     /\ oom' = TRUE
     /\ UNCHANGED <<ob, cap>>

Format ==
  /\ pc = "format"
  /\ piece <= Len(Pieces(matches))
  /\ outbuf_append(Pieces(matches)[piece])
  /\ piece' = piece + 1
  /\ UNCHANGED <<file, opts, pc, line_num, array, view, effects, ret>>

\* Under the printer's mutex: count the matches and write the buffer.
Write ==
  /\ pc = "format"
  /\ piece > Len(Pieces(matches))
  /\ AddTotal
  /\ shown' = ob
  /\ ob' = <<>> /\ cap' = 0
  /\ Return
  /\ UNCHANGED <<file, opts, line_num, stored, piece, oom, listed>>

Done ==
  /\ pc = "done"
  /\ UNCHANGED svars

SStep ==
  \/ MapFile \/ FileCut \/ SkipBinary \/ SkipFile \/ ListWholeFile \/ StartScan
  \/ PassLine \/ ListFile \/ StoreLine \/ EndOfFile
  \/ NoBuffer \/ NothingToShow \/ OpenBuffer \/ Format \/ Write

SNext == SStep \/ Done

SSpec == SInit /\ [][SNext]_svars

\* What the search does of its own accord: it need not be cut off by another
\* process, nor saved by a read error, nor is a writer bound to come.
Progress == SStep /\ ~FileCut /\ ~(MapFile /\ (ReadFails \/ NeedsWriter))

\* The worker's thread runs, and its system calls return, but for the open of
\* a pipe.
SFairSpec == SSpec /\ WF_svars(Progress)

-----------------------------------------------------------------------------
\* The values of the state.  No match is written past the array, which leaves
\* the stack only to grow, and nothing is written past the output buffer
\* (searcher.c:172-199 and 40-62).
STypeOK ==
  /\ pc \in {"map", "check", "scan", "render", "format", "done"}
  /\ line_num \in Nat /\ piece \in Nat
  /\ matches \in Seq(Nat) /\ Len(matches) <= matches_cap
  /\ matches_cap \in Nat /\ matches_cap >= StackMatches
  /\ matches_is_heap => matches_cap > StackMatches
  /\ matches_cap > StackMatches => matches_is_heap \/ pc = "done"
  /\ cap \in Nat /\ Len(ob) <= cap
  /\ alloc_failed \in BOOLEAN /\ oom \in BOOLEAN
  /\ listed \in 0..1 /\ total \in Nat

\* Each of the returns has released what the search holds by then: the file,
\* its contents, the array on the heap and the output buffer (searcher.c:101,
\* 112, 122, 127, 167-168, 252, 335, 339-342; greg_mmap.c:86-160).  The buffer
\* of a file that was cut to nothing while it was read is never freed
\* (greg_mmap.c:147, 173): a view of size 0 is left out.
NothingHeld ==
  pc = "done" =>
    /\ fd = "closed"
    /\ data \in {"heap", "mmap"} => size = 0
    /\ ~matches_is_heap /\ cap = 0 /\ ob = <<>>

\* "treat as a short read rather than silently scanning garbage"
\* (greg_mmap.c:144): the search looks at the lines that were read and no
\* others, and unless the file was cut meanwhile these are all its lines.
ScansWhatWasRead ==
  pc \notin {"map", "done"} =>
    /\ data = "heap" => size = total_read
    /\ on_disk = Len(lines) => size = Len(lines)

\* The lines selected among the first k, in their order.
SelectedUpTo(k) == FlattenSeq([n \in 1..k |-> IF Selects(lines[n]) THEN <<n>> ELSE <<>>])
Selected == SelectedUpTo(size)
FirstNum(num) ==
  SubSeq(Selected, 1, IF num < Len(Selected) THEN num ELSE Len(Selected))

\* The lines a search is to report: the first NUM of those selected.
Wanted == IF request = None THEN Selected ELSE FirstNum(request)

SkippedBefore == PreChecked /\ whole = "nomatch"

\* Searches that ran to their end without an allocation failing, with a NUM
\* that an int can hold, on a file that the pre-check does not misjudge: the
\* whole buffer can fail to match although a line of it does, say for a pattern
\* that begins with \A (searcher.c:121).
Undisturbed ==
  /\ pc = "done" /\ ret # -1 /\ ~SkipsBinary
  /\ ~alloc_failed /\ ~oom
  /\ SkippedBefore => Selected = <<>>
  /\ request <= IntMax

Hit == Selected # <<>> \/ (PreChecked /\ whole = "match")

\* The search says all there is to say and nothing else: under -l the name of
\* a file with a match, once, and no text; otherwise the first NUM lines
\* selected, or under -c their number, even if it is 0 (only the pre-check
\* silences a file); and it returns the same number and counts it for the exit
\* status (searcher.c:117-343).  Left out, besides what Undisturbed leaves out:
\* what is shown under -l and -c together for a file without a match, which
\* gets a count line although -l asks for names only (searcher.c:218).
ReportsExactly ==
  Undisturbed =>
    /\ total = ret
    /\ IF files_with_matches
       THEN /\ listed = IF Hit THEN 1 ELSE 0
            /\ ret = listed
            /\ Hit \/ ~count_only => shown = <<>>
       ELSE /\ listed = 0
            /\ ret = Len(Wanted)
            /\ shown = IF SkippedBefore THEN <<>> ELSE Pieces(Wanted)

\* Whatever allocation fails, what is shown is the beginning of the report of
\* the first n lines wanted, without a gap, and n is all of them unless the
\* array could not grow (searcher.c:21 "remaining appends become no-ops").  So
\* lines are truncated, never garbled; but under -c a number that is too small
\* can be shown after the array could not grow, and only the warning of
\* searcher.c:213 tells it from a right one.  A NUM that does not fit an int is
\* left out: see StopsAfterNum.
TruncatedNotGarbled ==
  request <= IntMax =>
    \E n \in 0..Len(Wanted) :
      /\ IsPrefix(shown, Pieces(SubSeq(Wanted, 1, n)))
      /\ n < Len(Wanted) => alloc_failed

\* The shared counter that decides greg's exit status grows by what the search
\* returns.  A -c report whose buffer cannot be had is left out: see
\* CountedForExit (searcher.c:247, 259, 329, printer.c:16-26).
TotalAgrees ==
  pc = "done" /\ (count_only /\ oom => shown # <<>>) =>
    total = IF ret > 0 THEN ret ELSE 0

\* The search of a file returns, also when the file is cut while it is read:
\* the read loop ends at the end of the file and does not wait for the bytes
\* that fstat promised (greg_mmap.c:131-141), nor does a refused allocation
\* hold up what comes after it.  A pipe is left out: see SkipsIrregular.
SearchReturns == kind # "pipe" => <>(pc = "done")

\* greg_mmap.c:104-106: what is no regular file is skipped, so that reading it
\* cannot block.  The kind is known only after open (greg_mmap.c:95), and the
\* open of a pipe waits for a writer.
SkipsIrregular == kind # "regular" => <>(pc = "done")

\* A file with a match makes greg's exit status say so: printer.h has
\* "Track total matches for UX summary/exit code".  With -c the counter is
\* skipped when the output buffer cannot be had (searcher.c:220).
CountedForExit == pc = "done" /\ ret > 0 => total > 0

\* With --max-count "Stop after NUM matches per file" (README.md): the search
\* finds NUM matches or all there are.  main.c:105 keeps NUM in an int.
StopsAfterNum ==
  /\ pc = "done" /\ request # None
  /\ ~files_with_matches /\ ~alloc_failed /\ ret > 0
  => matches = Wanted

=============================================================================
