--------------------------- MODULE SearcherProofs ---------------------------
(* For every file, option, capacity and largest int: one search stays      *)
(* within its array and its buffer, looks at nothing that was not read,    *)
(* releases what it holds on every return, counts what it returns and      *)
(* reports the lines it was to report and no others.                       *)
EXTENDS Searcher, SequenceTheorems, WellFoundedInduction, TLAPS

LEMMA Capacities == StackMatches \in Nat \ {0} /\ InitialCap \in Nat \ {0}
  BY SearcherAssumption DEF SearcherAssumption

\* What the later steps owe to the earlier ones: nothing is counted, listed or
\* returned before the end, the file is there after "map" and not before, the
\* array is on the stack until the scan and can grow until the scan ends, and
\* the buffer exists only while the report is formatted.
Unfinished ==
  /\ pc # "done" => listed = 0 /\ total = 0 /\ ret = 0 /\ shown = <<>>
  /\ pc \in {"map", "check"} => matches_cap = StackMatches
  /\ pc = "map" <=> mapping \in {"open", "stat", "read"}
  /\ mapping = "failed" => pc = "done"
  /\ pc \in {"map", "check", "scan"} => ~alloc_failed
  /\ pc = "format" => cap > 0
  /\ pc # "format" => cap = 0 /\ ob = <<>>
  /\ \E S : ob \in Seq(S)

SInv ==
  /\ STypeOK /\ NothingHeld /\ TotalAgrees /\ Unfinished
  /\ Len(lines) \in Nat
  /\ ViewInv(Len(lines))

\* The view keeps its invariant while greg_file_map runs, whatever it reads,
\* and whatever another process cuts off.
LEMMA ViewStep ==
  ASSUME ViewInv(Len(lines)), Len(lines) \in Nat, UNCHANGED lines,
         greg_file_map \/ Shrink
  PROVE  ViewInv(Len(lines))'
<1> USE ViewAssumption DEF ViewAssumption, ViewInv
<1>1. CASE Open
  BY <1>1 DEF Open, Fail
<1>2. CASE Unusable
  BY <1>2 DEF Unusable, Fail
<1>3. CASE ViewEmpty
  BY <1>3 DEF ViewEmpty, Succeed
<1>4. CASE StartRead
  BY <1>4 DEF StartRead, Fail
<1>5. CASE Map
  BY <1>5 DEF Map, Succeed, Fail
<1>6. CASE Read
  BY <1>6 DEF Read
<1>7. CASE ReadFails
  BY <1>7 DEF ReadFails, Fail
<1>8. CASE EndRead
  BY <1>8 DEF EndRead, AtEndOfFile, SizeFromRead, Succeed
<1>9. CASE Shrink
  BY <1>9 DEF Shrink
<1> QED
  BY <1>1, <1>2, <1>3, <1>4, <1>5, <1>6, <1>7, <1>8, <1>9 DEF greg_file_map

\* Unmapping releases a buffer and a mapping, except one of size 0.
LEMMA ViewEnd ==
  ASSUME ViewInv(Len(lines)), UNCHANGED lines, greg_file_unmap,
         mapping \notin {"open", "stat", "read"}
  PROVE  /\ ViewInv(Len(lines))'
         /\ fd' = "closed"
         /\ data' \in {"heap", "mmap"} => size' = 0
         /\ mapping' = mapping
  BY DEF greg_file_unmap, ViewInv

\* A piece more makes a sequence one longer, whatever its pieces are.
LEMMA AppendAny ==
  ASSUME NEW s, NEW p, \E S : s \in Seq(S)
  PROVE  /\ \E S : Append(s, p) \in Seq(S)
         /\ Len(s) \in Nat
         /\ Len(Append(s, p)) = Len(s) + 1
<1>1. PICK S : s \in Seq(S)
  OBVIOUS
<1>2. s \in Seq(S \cup {p})
  BY <1>1
<1>3. Append(s, p) \in Seq(S \cup {p})
  BY <1>2
<1> QED
  BY <1>2, <1>3

\* A step that leaves file and view alone keeps the view's invariant.
LEMMA ViewSame ==
  ASSUME ViewInv(Len(lines)), Len(lines) \in Nat, UNCHANGED lines, UNCHANGED view
  PROVE  /\ ViewInv(Len(lines))'
         /\ Len(lines') \in Nat
         /\ UNCHANGED <<mapping, fd, data, size>>
  BY DEF ViewInv, view

LEMMA InitSInv == SInit => SInv
<1> SUFFICES ASSUME SInit PROVE SInv
  OBVIOUS
<1>1. ob \in Seq({})
  BY DEF SInit
<1>2. alloc_failed \in BOOLEAN /\ oom \in BOOLEAN
  BY DEF SInit
<1>3. STypeOK
  BY <1>2, Capacities DEF SInit, STypeOK
<1>4. Len(lines) \in Nat
  BY SearcherAssumption DEF SInit, SearcherAssumption
<1>5. ViewInv(Len(lines)) /\ mapping = "open"
  BY <1>4 DEF SInit, VInit, ViewInv
<1> QED
  BY <1>1, <1>3, <1>4, <1>5 DEF SInit, SInv, NothingHeld, TotalAgrees, Unfinished

LEMMA StepSInv == SInv /\ [SNext]_svars => SInv'
<1> SUFFICES ASSUME SInv, [SNext]_svars PROVE SInv'
  OBVIOUS
<1> USE Capacities DEF SInv, STypeOK, NothingHeld, TotalAgrees, Unfinished
<1>1. CASE MapFile
  <2>1. /\ UNCHANGED <<line_num, array, piece, outbuf, effects, lines>>
        /\ pc = "map"
    BY <1>1, Zenon DEF MapFile, file
  <2>2. ViewInv(Len(lines))'
    BY <1>1, <2>1, ViewStep DEF MapFile
  <2>3. CASE mapping' = "mapped"
    <3>1. pc' = "check" /\ ret' = ret
      BY <1>1, <2>3 DEF MapFile
    <3> QED
      BY <2>1, <2>2, <2>3, <3>1 DEF stored, array, outbuf, effects
  <2>4. CASE mapping' = "failed"
    <3>1. pc' = "done" /\ ret' = -1
      BY <1>1, <2>4 DEF MapFile
    <3>2. fd' = "closed" /\ data' = "null"
      BY <2>2, <2>4 DEF ViewInv
    <3> QED
      BY <2>1, <2>2, <2>4, <3>1, <3>2 DEF stored, array, outbuf, effects
  <2>5. CASE mapping' \notin {"mapped", "failed"}
    <3>1. pc' = "map" /\ ret' = ret
      BY <1>1, <2>1, <2>5 DEF MapFile
    <3>2. mapping' \in {"open", "stat", "read"}
      BY <2>2, <2>5 DEF ViewInv
    <3> QED
      BY <2>1, <2>2, <3>1, <3>2 DEF stored, array, outbuf, effects
  <2> QED
    BY <2>3, <2>4, <2>5
<1>0. CASE FileCut
  <2>1. /\ UNCHANGED <<lines, count_only, pc, line_num, array, piece, outbuf, effects, ret>>
        /\ Shrink
    BY <1>0 DEF FileCut, file, opts
  <2>2. ViewInv(Len(lines))'
    BY <2>1, ViewStep
  <2>3. UNCHANGED <<mapping, fd, data, size>>
    BY <2>1 DEF Shrink
  <2> QED
    BY <2>1, <2>2, <2>3 DEF stored, array, outbuf, effects
<1>2. CASE SkipBinary
  <2>1. greg_file_unmap /\ UNCHANGED lines
    BY <1>2 DEF SkipBinary, Return, Finish, file
  <2>2. pc \in {"check", "scan", "render", "format"}
    BY <1>2 DEF SkipBinary, AtLine
  <2>3. mapping \notin {"open", "stat", "read"}
    BY <2>2
  <2>4. /\ ViewInv(Len(lines))' /\ fd' = "closed" /\ mapping' = mapping
        /\ data' \in {"heap", "mmap"} => size' = 0
    BY <2>1, <2>3, ViewEnd
  <2> QED
    BY <1>2, <2>1, <2>2, <2>3, <2>4 DEF SkipBinary, Finish, opts, stored, array, outbuf, effects
<1>3. CASE SkipFile
  <2>1. greg_file_unmap /\ UNCHANGED lines
    BY <1>3 DEF SkipFile, Return, Finish, file
  <2>2. pc \in {"check", "scan", "render", "format"}
    BY <1>3 DEF SkipFile, AtLine
  <2>3. mapping \notin {"open", "stat", "read"}
    BY <2>2
  <2>4. /\ ViewInv(Len(lines))' /\ fd' = "closed" /\ mapping' = mapping
        /\ data' \in {"heap", "mmap"} => size' = 0
    BY <2>1, <2>3, ViewEnd
  <2> QED
    BY <1>3, <2>1, <2>2, <2>3, <2>4 DEF SkipFile, Finish, opts, stored, array, outbuf, effects
<1>4. CASE ListWholeFile
  <2>1. greg_file_unmap /\ UNCHANGED lines
    BY <1>4 DEF ListWholeFile, Return, Finish, file
  <2>2. pc \in {"check", "scan", "render", "format"}
    BY <1>4 DEF ListWholeFile, AtLine
  <2>3. mapping \notin {"open", "stat", "read"}
    BY <2>2
  <2>4. /\ ViewInv(Len(lines))' /\ fd' = "closed" /\ mapping' = mapping
        /\ data' \in {"heap", "mmap"} => size' = 0
    BY <2>1, <2>3, ViewEnd
  <2> QED
    BY <1>4, <2>1, <2>2, <2>3, <2>4 DEF ListWholeFile, Finish, PrintFile, opts, stored, array, outbuf
<1>5. CASE StartScan
  <2>1. /\ ViewInv(Len(lines))' /\ Len(lines') \in Nat
        /\ UNCHANGED <<lines, mapping, fd, data, size>>
    BY <1>5, ViewSame DEF StartScan, file
  <2> QED
    BY <1>5, <2>1 DEF StartScan, opts, stored, array, outbuf, effects
<1>6. CASE PassLine
  <2>1. /\ ViewInv(Len(lines))' /\ Len(lines') \in Nat
        /\ UNCHANGED <<lines, mapping, fd, data, size>>
    BY <1>6, ViewSame DEF PassLine, file
  <2> QED
    BY <1>6, <2>1 DEF PassLine, AtLine, opts, stored, array, outbuf, effects
<1>7. CASE ListFile
  <2>1. greg_file_unmap /\ UNCHANGED lines
    BY <1>7 DEF ListFile, Return, Finish, file
  <2>2. pc \in {"check", "scan", "render", "format"}
    BY <1>7 DEF ListFile, AtLine
  <2>3. mapping \notin {"open", "stat", "read"}
    BY <2>2
  <2>4. /\ ViewInv(Len(lines))' /\ fd' = "closed" /\ mapping' = mapping
        /\ data' \in {"heap", "mmap"} => size' = 0
    BY <2>1, <2>3, ViewEnd
  <2> QED
    BY <1>7, <2>1, <2>2, <2>3, <2>4 DEF ListFile, stored, AtLine, Finish, PrintFile, opts, outbuf
<1>8. CASE StoreLine
  <2>4. /\ ViewInv(Len(lines))' /\ Len(lines') \in Nat
        /\ UNCHANGED <<lines, mapping, fd, data, size>>
    BY <1>8, ViewSame DEF StoreLine, file
  <2> USE DEF StoreLine, AtLine, opts, outbuf, effects
  <2>1. UNCHANGED <<ob, cap, oom, shown, listed, total, ret, piece>>
    BY <1>8
  <2>0. alloc_failed' = TRUE \/ alloc_failed' = alloc_failed
    BY <1>8 DEF Grow
  <2>2. CASE alloc_failed'
    <3>1. alloc_failed' \in BOOLEAN /\ oom' \in BOOLEAN
      BY <2>0, <2>1
    <3>2. /\ pc' = "render" /\ UNCHANGED <<matches, line_num>>
          /\ UNCHANGED <<matches_cap, matches_is_heap>>
      BY <1>8, <2>2 DEF Grow
    <3> QED
      BY <1>8, <2>1, <2>4, <3>1, <3>2
  <2>3. CASE ~alloc_failed'
    <3>1. /\ matches' = Append(matches, line_num)
          /\ pc' \in {"scan", "render"} /\ line_num' \in Nat
      BY <1>8, <2>3
    <3>2. /\ matches' \in Seq(Nat)
          /\ Len(matches') = Len(matches) + 1
      BY <3>1
    <3>3. /\ matches_cap' \in Nat /\ Len(matches') <= matches_cap'
          /\ matches_cap' >= StackMatches
          /\ matches_is_heap' => matches_cap' > StackMatches
          /\ matches_cap' > StackMatches => matches_is_heap'
      BY <1>8, <2>3, <3>2 DEF Full, Grow
    <3>4. alloc_failed' \in BOOLEAN /\ oom' \in BOOLEAN
      BY <2>0, <2>1
    <3> QED
      BY <1>8, <2>1, <2>4, <3>1, <3>2, <3>3, <3>4
  <2> QED
    BY <2>2, <2>3
<1>9. CASE EndOfFile
  <2>1. /\ ViewInv(Len(lines))' /\ Len(lines') \in Nat
        /\ UNCHANGED <<lines, mapping, fd, data, size>>
    BY <1>9, ViewSame DEF EndOfFile, file
  <2> QED
    BY <1>9, <2>1 DEF EndOfFile, opts, stored, array, outbuf, effects
<1>10. CASE NoBuffer
  <2>1. greg_file_unmap /\ UNCHANGED lines
    BY <1>10 DEF NoBuffer, Return, Finish, file
  <2>2. pc \in {"check", "scan", "render", "format"}
    BY <1>10 DEF NoBuffer, AtLine
  <2>3. mapping \notin {"open", "stat", "read"}
    BY <2>2
  <2>4. /\ ViewInv(Len(lines))' /\ fd' = "closed" /\ mapping' = mapping
        /\ data' \in {"heap", "mmap"} => size' = 0
    BY <2>1, <2>3, ViewEnd
  <2> QED
    BY <1>10, <2>1, <2>2, <2>3, <2>4 DEF NoBuffer, CountsNoBuffer, stored, Return, Finish, AddTotal, opts
<1>11. CASE NothingToShow
  <2>1. greg_file_unmap /\ UNCHANGED lines
    BY <1>11 DEF NothingToShow, Return, Finish, file
  <2>2. pc \in {"check", "scan", "render", "format"}
    BY <1>11 DEF NothingToShow, AtLine
  <2>3. mapping \notin {"open", "stat", "read"}
    BY <2>2
  <2>4. /\ ViewInv(Len(lines))' /\ fd' = "closed" /\ mapping' = mapping
        /\ data' \in {"heap", "mmap"} => size' = 0
    BY <2>1, <2>3, ViewEnd
  <2> QED
    BY <1>11, <2>1, <2>2, <2>3, <2>4 DEF NothingToShow, stored, HasReport, Return, Finish, opts, outbuf, effects
<1>12. CASE OpenBuffer
  <2>1. /\ ViewInv(Len(lines))' /\ Len(lines') \in Nat
        /\ UNCHANGED <<lines, mapping, fd, data, size>>
    BY <1>12, ViewSame DEF OpenBuffer, file
  <2> QED
    BY <1>12, <2>1 DEF OpenBuffer, opts, stored, array, effects
<1>13. CASE Format
  <2>1. PICK p : outbuf_append(p)
    BY <1>13 DEF Format
  <2>0. /\ ViewInv(Len(lines))' /\ Len(lines') \in Nat
        /\ UNCHANGED <<lines, mapping, fd, data, size>>
    BY <1>13, ViewSame DEF Format, file
  <2>2. /\ UNCHANGED <<pc, line_num, array, effects, ret>>
        /\ pc = "format" /\ piece' \in Nat
    BY <1>13 DEF Format
  <2>3. oom' \in BOOLEAN
    BY <2>1 DEF outbuf_append, Silent, outbuf
  <2>4. /\ Len(ob) \in Nat /\ Len(Append(ob, p)) = Len(ob) + 1
        /\ \E S : Append(ob, p) \in Seq(S)
    BY AppendAny
  <2>5. CASE UNCHANGED <<ob, cap>>
    BY <2>0, <2>2, <2>3, <2>5 DEF stored, array, effects
  <2>6. CASE /\ cap' = IF Len(ob) + 1 <= cap THEN cap ELSE cap * 2
             /\ ob' = Append(ob, p)
    <3>1. cap' \in Nat /\ Len(ob') <= cap'
      BY <2>2, <2>4, <2>6
    <3> QED
      BY <2>0, <2>2, <2>3, <2>4, <2>6, <3>1 DEF stored, array, effects
  <2> QED
    BY <2>1, <2>5, <2>6 DEF outbuf_append, Silent, outbuf
<1>14. CASE Write
  <2>1. greg_file_unmap /\ UNCHANGED lines
    BY <1>14 DEF Write, Return, Finish, file
  <2>2. pc \in {"check", "scan", "render", "format"}
    BY <1>14 DEF Write, AtLine
  <2>3. mapping \notin {"open", "stat", "read"}
    BY <2>2
  <2>4. /\ ViewInv(Len(lines))' /\ fd' = "closed" /\ mapping' = mapping
        /\ data' \in {"heap", "mmap"} => size' = 0
    BY <2>1, <2>3, ViewEnd
  <2> QED
    BY <1>14, <2>1, <2>2, <2>3, <2>4 DEF Write, stored, Return, Finish, AddTotal, opts
<1>15. CASE UNCHANGED svars
  <2>1. /\ ViewInv(Len(lines))' /\ Len(lines') \in Nat
        /\ UNCHANGED <<lines, mapping, fd, data, size>>
    BY <1>15, ViewSame DEF svars, file
  <2> QED
    BY <1>15, <2>1 DEF svars, opts, stored, array, outbuf, effects
<1> QED
  BY <1>0, <1>1, <1>2, <1>3, <1>4, <1>5, <1>6, <1>7, <1>8, <1>9, <1>10, <1>11,
     <1>12, <1>13, <1>14, <1>15 DEF SNext, SStep, Done

\* The invariant holds in every search.
THEOREM SearchInvariant == SSpec => []SInv
  BY InitSInv, StepSInv, PTL DEF SSpec

\* No match is stored past the array and no piece past the buffer, for every
\* file and every initial capacity (searcher.c:172-199 and 40-62).
THEOREM SearchWithinBounds == SSpec => []STypeOK
  BY SearchInvariant, PTL DEF SInv

\* Every return has closed and unmapped the file, unless it was cut to
\* nothing, and freed array and buffer (searcher.c:112-343, greg_mmap.c:172-179).
THEOREM SearchReleasesAll == SSpec => []NothingHeld
  BY SearchInvariant, PTL DEF SInv

\* The search looks only at lines that were read, and at all of them unless
\* another process cut the file (greg_mmap.c:122-149).
THEOREM SearchScansWhatWasRead == SSpec => []ScansWhatWasRead
<1>1. SInv => ScansWhatWasRead
  BY DEF SInv, Unfinished, ViewInv, ScansWhatWasRead
<1> QED
  BY SearchInvariant, <1>1, PTL

\* The counter that decides the exit status grows by what the search returns,
\* but for a -c report without a buffer (searcher.c:247, 259, 329).
THEOREM SearchCountsWhatItReturns == SSpec => []TotalAgrees
  BY SearchInvariant, PTL DEF SInv

-----------------------------------------------------------------------------
(* Sequences joined one after the other, and what begins what.             *)

LEMMA Least ==
  ASSUME NEW S, S \subseteq Nat, S # {}
  PROVE  \E m \in S : \A n \in S : m <= n
<1>1. PICK m \in S : \A n \in S : ~(<<n, m>> \in OpToRel(<, Nat))
  BY WFMin, NatLessThanWellFounded
<1>2. ASSUME NEW n \in S PROVE m <= n
  <2>1. ~(n < m)
    BY <1>1 DEF OpToRel
  <2> QED BY <2>1
<1> QED BY <1>2

\* The first k of some sequences, one after the other.
Joined(g, k) == FlattenSeq([i \in 1..k |-> g[i]])

\* The joins of the first 0, 1, ... n of them.
IsRun(f, g, n, S) ==
  /\ \A k \in 1..n : g[k] \in Seq(S)
  /\ f \in [0..n -> Seq(S)]
  /\ f[0] = <<>>
  /\ \A k \in 1..n : f[k] = f[k - 1] \o g[k]

LEMMA RunExists ==
  ASSUME NEW S, NEW N \in Nat, NEW g, \A i \in 1..N : g[i] \in Seq(S)
  PROVE  \E f : IsRun(f, g, N, S)
<1> DEFINE Bad == {n \in 0..N : ~\E f : IsRun(f, g, n, S)}
<1> SUFFICES ASSUME Bad # {} PROVE FALSE
  <2>1. N \in 0..N
    OBVIOUS
  <2> QED BY <2>1
<1>1. PICK n \in Bad : \A m \in Bad : n <= m
  <2>1. Bad \subseteq Nat
    OBVIOUS
  <2> HIDE DEF Bad
  <2> QED BY <2>1, Least
<1>2. CASE n = 0
  <2>1. IsRun([i \in 0..0 |-> <<>>], g, 0, S)
    BY EmptySeq DEF IsRun
  <2> QED BY <1>2, <2>1
<1>3. CASE n # 0
  <2>1. n \in 1..N /\ n - 1 \in 0..N /\ n - 1 < n
    BY <1>3
  <2>2. n - 1 \notin Bad
    <3> HIDE DEF Bad
    <3> QED BY <1>1, <2>1
  <2>3. PICK f : IsRun(f, g, n - 1, S)
    BY <2>1, <2>2
  <2> DEFINE h == [i \in 0..n |-> IF i < n THEN f[i] ELSE f[n - 1] \o g[n]]
  <2>4. \A i \in 0..n - 1 : f[i] \in Seq(S) /\ h[i] = f[i]
    <3>1. \A i \in 0..n - 1 : f[i] \in Seq(S)
      BY <2>3 DEF IsRun
    <3>2. \A i \in 0..n - 1 : i \in 0..n /\ i < n
      BY <2>1
    <3>3. \A i \in 0..n - 1 : h[i] = f[i]
      BY <3>2
    <3> QED BY <3>1, <3>3
  <2>5. h[n] = h[n - 1] \o g[n] /\ h[n] \in Seq(S)
    <3>1. n - 1 \in 0..n - 1 /\ n \in 0..n
      BY <2>1
    <3>2. h[n] = f[n - 1] \o g[n]
      <4>1. ~(n < n)
        BY <2>1
      <4> QED BY <3>1, <4>1
    <3>3. f[n - 1] \o g[n] \in Seq(S)
      BY <2>1, <2>4, <3>1, ConcatProperties
    <3> HIDE DEF h
    <3> QED BY <2>4, <3>1, <3>2, <3>3
  <2>6. h \in [0..n -> Seq(S)]
    <3>1. \A i \in 0..n : h[i] \in Seq(S)
      <4>1. \A i \in 0..n : i \in 0..n - 1 \/ i = n
        BY <2>1
      <4> HIDE DEF h
      <4> QED BY <2>4, <2>5, <4>1
    <3>2. h = [i \in 0..n |-> h[i]]
      OBVIOUS
    <3> HIDE DEF h
    <3> QED BY <3>1, <3>2
  <2>7. \A k \in 1..n : h[k] = h[k - 1] \o g[k]
    <3> HIDE DEF h
    <3>1. ASSUME NEW k \in 1..n, k # n PROVE h[k] = h[k - 1] \o g[k]
      <4>1. k \in 1..n - 1 /\ k \in 0..n - 1 /\ k - 1 \in 0..n - 1
        BY <2>1, <3>1
      <4> QED BY <2>3, <2>4, <4>1 DEF IsRun
    <3> QED BY <2>5, <3>1
  <2>8. h[0] = <<>>
    <3>1. 0 \in 0..n - 1
      BY <2>1
    <3> HIDE DEF h
    <3> QED BY <2>3, <2>4, <3>1 DEF IsRun
  <2>9. IsRun(h, g, n, S)
    <3> HIDE DEF h
    <3>1. \A k \in 1..n : k \in 1..N
      BY <2>1
    <3> QED BY <2>6, <2>7, <2>8, <3>1 DEF IsRun
  <2> HIDE DEF h
  <2> QED BY <2>9
<1> QED BY <1>2, <1>3

LEMMA JoinedIsRun ==
  ASSUME NEW S, NEW N \in Nat, NEW g, NEW f, IsRun(f, g, N, S), NEW k \in 0..N
  PROVE  Joined(g, k) = f[k]
<1> DEFINE seqs == [i \in 1..k |-> g[i]]
<1>1. seqs \in Seq(Seq(S)) /\ Len(seqs) = k
  <2>1. \A i \in 1..k : g[i] \in Seq(S)
    BY DEF IsRun
  <2> QED BY <2>1
<1>2. CASE k = 0
  <2>1. Joined(g, k) = seqs
    BY <1>1, <1>2 DEF Joined, FlattenSeq
  <2>2. seqs = <<>>
    <3> HIDE DEF seqs
    <3> QED BY <1>1, <1>2, EmptySeq
  <2> QED BY <1>2, <2>1, <2>2 DEF IsRun
<1>3. CASE k # 0
  <2> DEFINE P(h) == h = [i \in 1..Len(seqs) |-> IF i = 1 THEN seqs[i] ELSE h[i - 1] \o seqs[i]]
             flat == CHOOSE h : P(h)
             r == [i \in 1..k |-> f[i]]
  <2>1. \A i \in 1..k : f[i] = IF i = 1 THEN g[i] ELSE f[i - 1] \o g[i]
    <3>1. ASSUME NEW i \in 1..k PROVE f[i] = f[i - 1] \o g[i] /\ g[i] \in Seq(S)
      <4>1. i \in 1..N
        OBVIOUS
      <4> QED BY <4>1 DEF IsRun
    <3>2. ASSUME NEW i \in 1..k, i = 1 PROVE f[i] = g[i]
      <4>1. f[i] = <<>> \o g[i]
        <5>1. i - 1 = 0 /\ f[0] = <<>>
          BY <3>2 DEF IsRun
        <5>2. f[i] = f[i - 1] \o g[i]
          BY <3>1
        <5> QED BY <5>1, <5>2
      <4> QED BY <3>1, <4>1, ConcatEmptySeq
    <3> QED BY <3>1, <3>2
  <2>2. \A i \in 1..k : r[i] = IF i = 1 THEN seqs[i] ELSE r[i - 1] \o seqs[i]
    <3>1. ASSUME NEW i \in 1..k, i # 1 PROVE r[i - 1] = f[i - 1]
      <4>1. i - 1 \in 1..k
        BY <3>1
      <4> QED BY <4>1
    <3>2. \A i \in 1..k : r[i] = f[i] /\ seqs[i] = g[i]
      OBVIOUS
    <3> HIDE DEF r, seqs
    <3> QED BY <2>1, <3>1, <3>2
  <2>3. P(r)
    <3>1. r = [i \in 1..k |-> r[i]]
      OBVIOUS
    <3> HIDE DEF r, seqs
    <3> QED BY <1>1, <2>2, <3>1
  <2>4. P(flat)
    <3> HIDE DEF P, r
    <3> QED BY <2>3
  <2>5. Joined(g, k) = flat[k]
    BY <1>1, <1>3 DEF Joined, FlattenSeq
  <2> HIDE DEF flat
  <2>6. \A i \in 1..k : flat[i] = IF i = 1 THEN g[i] ELSE flat[i - 1] \o g[i]
    <3>1. \A i \in 1..k : flat[i] = IF i = 1 THEN seqs[i] ELSE flat[i - 1] \o seqs[i]
      <4> HIDE DEF seqs
      <4> QED BY <1>1, <2>4
    <3>2. \A i \in 1..k : seqs[i] = g[i]
      OBVIOUS
    <3> HIDE DEF seqs
    <3> QED BY <3>1, <3>2
  <2> HIDE DEF seqs, r
  <2> DEFINE Bad == {i \in 1..k : flat[i] # f[i]}
  <2>7. Bad = {}
    <3> SUFFICES ASSUME Bad # {} PROVE FALSE
      OBVIOUS
    <3>1. PICK n \in Bad : \A m \in Bad : n <= m
      <4>1. Bad \subseteq Nat
        OBVIOUS
      <4> HIDE DEF Bad
      <4> QED BY <4>1, Least
    <3>2. n \in 1..k /\ flat[n] # f[n]
      BY <3>1
    <3>3. n # 1
      BY <2>1, <2>6, <3>2
    <3>4. n - 1 \in 1..k /\ ~(n <= n - 1)
      BY <3>2, <3>3
    <3>5. n - 1 \notin Bad
      <4> HIDE DEF Bad
      <4> QED BY <3>1, <3>4
    <3>6. flat[n - 1] = f[n - 1]
      BY <3>4, <3>5
    <3> QED BY <2>1, <2>6, <3>2, <3>3, <3>6
  <2>8. k \in 1..k
    BY <1>3
  <2> QED BY <2>5, <2>7, <2>8
<1> QED BY <1>2, <1>3

\* What FlattenSeq makes of a sequence, and of one more.
LEMMA JoinedNext ==
  ASSUME NEW S, NEW N \in Nat, NEW g, \A i \in 1..N : g[i] \in Seq(S)
  PROVE  /\ Joined(g, 0) = <<>>
         /\ \A k \in 0..N : Joined(g, k) \in Seq(S)
         /\ \A k \in 1..N : Joined(g, k) = Joined(g, k - 1) \o g[k]
<1>1. PICK f : IsRun(f, g, N, S)
  BY RunExists
<1>2. \A k \in 0..N : Joined(g, k) = f[k]
  <2>1. ASSUME NEW k \in 0..N PROVE Joined(g, k) = f[k]
    BY <1>1, JoinedIsRun
  <2> QED BY <2>1
<1>3. /\ f[0] = <<>>
      /\ \A k \in 0..N : f[k] \in Seq(S)
      /\ \A k \in 1..N : f[k] = f[k - 1] \o g[k]
  BY <1>1 DEF IsRun
<1>4. 0 \in 0..N /\ \A k \in 1..N : k \in 0..N /\ k - 1 \in 0..N
  OBVIOUS
<1>5. Joined(g, 0) = <<>>
  BY <1>2, <1>3, <1>4
<1>6. ASSUME NEW k \in 0..N PROVE Joined(g, k) \in Seq(S)
  <2>1. Joined(g, k) = f[k] /\ f[k] \in Seq(S)
    BY <1>2, <1>3
  <2> QED BY <2>1
<1>7. ASSUME NEW k \in 1..N PROVE Joined(g, k) = Joined(g, k - 1) \o g[k]
  <2>1. Joined(g, k) = f[k] /\ Joined(g, k - 1) = f[k - 1]
    BY <1>2, <1>4
  <2> QED BY <1>3, <2>1
<1> QED BY <1>5, <1>6, <1>7

\* The first sequence is how the second begins.
Begins(s, t) == Len(s) <= Len(t) /\ \A i \in 1..Len(s) : s[i] = t[i]

LEMMA JoinedGrows ==
  ASSUME NEW S, NEW N \in Nat, NEW g, \A i \in 1..N : g[i] \in Seq(S),
         NEW j \in 0..N, NEW k \in j..N
  PROVE  Begins(Joined(g, j), Joined(g, k))
<1> DEFINE Bad == {n \in j..N : ~Begins(Joined(g, j), Joined(g, n))}
<1> SUFFICES ASSUME Bad # {} PROVE FALSE
  OBVIOUS
<1>1. PICK n \in Bad : \A m \in Bad : n <= m
  <2>1. Bad \subseteq Nat
    OBVIOUS
  <2> HIDE DEF Bad
  <2> QED BY <2>1, Least
<1>2. n \in j..N /\ ~Begins(Joined(g, j), Joined(g, n))
  BY <1>1
<1>3. \A i \in 0..N : Joined(g, i) \in Seq(S) /\ Len(Joined(g, i)) \in Nat
  BY JoinedNext, LenProperties
<1>4. n # j
  BY <1>2, <1>3 DEF Begins
<1>5. n - 1 \in j..N /\ n - 1 \in 0..N /\ n \in 1..N /\ ~(n <= n - 1)
  BY <1>2, <1>4
<1>6. Begins(Joined(g, j), Joined(g, n - 1))
  <2>1. n - 1 \notin Bad
    <3> HIDE DEF Bad
    <3> QED BY <1>1, <1>5
  <2> QED BY <1>5, <2>1
<1>7. Joined(g, n) = Joined(g, n - 1) \o g[n]
  BY <1>5, JoinedNext
<1> DEFINE a == Joined(g, j)
           b == Joined(g, n - 1)
<1>8. a \in Seq(S) /\ b \in Seq(S) /\ g[n] \in Seq(S)
  BY <1>3, <1>5
<1> HIDE DEF a, b
<1>9. Begins(a, b \o g[n])
  <2>1. Len(a) \in Nat /\ Len(b) \in Nat /\ Len(g[n]) \in Nat /\ Begins(a, b)
    BY <1>6, <1>8, LenProperties DEF a, b
  <2>2. /\ Len(b \o g[n]) = Len(b) + Len(g[n])
        /\ \A i \in 1..Len(b) + Len(g[n]) : i <= Len(b) => (b \o g[n])[i] = b[i]
    BY <1>8, ConcatProperties
  <2>3. \A i \in 1..Len(a) : i \in 1..Len(b) + Len(g[n]) /\ i <= Len(b)
    BY <2>1 DEF Begins
  <2>4. Len(a) <= Len(b) + Len(g[n])
    BY <2>1 DEF Begins
  <2>5. \A i \in 1..Len(a) : (b \o g[n])[i] = b[i] /\ a[i] = b[i]
    BY <2>1, <2>2, <2>3 DEF Begins
  <2> QED BY <2>2, <2>4, <2>5 DEF Begins
<1> QED BY <1>2, <1>7, <1>9 DEF a, b

\* The first n of a sequence.
LEMMA SubSeqOne ==
  ASSUME NEW S, NEW s, NEW n \in Nat, \A i \in 1..n : s[i] \in S
  PROVE  /\ SubSeq(s, 1, n) \in Seq(S) /\ Len(SubSeq(s, 1, n)) = n
         /\ \A i \in 1..n : SubSeq(s, 1, n)[i] = s[i]
<1>1. /\ SubSeq(s, 1, n) \in Seq(S)
      /\ Len(SubSeq(s, 1, n)) = IF 1 <= n THEN n - 1 + 1 ELSE 0
      /\ \A i \in 1..n - 1 + 1 : SubSeq(s, 1, n)[i] = s[1 + i - 1]
  BY SubSeqProperties
<1>2. n - 1 + 1 = n /\ \A i \in 1..n : 1 + i - 1 = i
  OBVIOUS
<1>3. Len(SubSeq(s, 1, n)) = n
  BY <1>1, <1>2
<1> QED BY <1>1, <1>2, <1>3

LEMMA BeginsIsPrefix ==
  ASSUME NEW S, NEW s \in Seq(S), NEW t \in Seq(S), Begins(s, t)
  PROVE  /\ IsPrefix(s, t)
         /\ Len(s) = Len(t) => s = t
<1>1. Len(s) \in Nat /\ Len(t) \in Nat /\ Len(s) <= Len(t)
  BY LenProperties DEF Begins
<1>2. \A i \in 1..Len(s) : s[i] = t[i] /\ s[i] \in S /\ t[i] \in S
  BY <1>1, ElementOfSeq DEF Begins
<1> DEFINE n == Len(s)
<1>3. /\ SubSeq(s, 1, n) \in Seq(S) /\ Len(SubSeq(s, 1, n)) = n
      /\ \A i \in 1..n : SubSeq(s, 1, n)[i] = s[i]
  BY <1>1, <1>2, SubSeqOne
<1>4. /\ SubSeq(t, 1, n) \in Seq(S) /\ Len(SubSeq(t, 1, n)) = n
      /\ \A i \in 1..n : SubSeq(t, 1, n)[i] = t[i]
  BY <1>1, <1>2, SubSeqOne
<1>5. SubSeq(s, 1, n) = SubSeq(t, 1, n)
  BY <1>2, <1>3, <1>4, SeqEqual
<1>6. Len(s) = Len(t) => s = t
  BY <1>2, SeqEqual
<1> QED BY <1>1, <1>5, <1>6 DEF IsPrefix

\* A beginning is what the first elements make.
LEMMA BeginsIsFirst ==
  ASSUME NEW S, NEW s \in Seq(S), NEW t \in Seq(S), Begins(s, t)
  PROVE  SubSeq(t, 1, Len(s)) = s
<1> DEFINE n == Len(s)
<1>1. n \in Nat /\ Len(t) \in Nat /\ n <= Len(t)
  BY LenProperties DEF Begins
<1>2. \A i \in 1..n : s[i] = t[i] /\ t[i] \in S
  BY <1>1, ElementOfSeq DEF Begins
<1>3. /\ SubSeq(t, 1, n) \in Seq(S) /\ Len(SubSeq(t, 1, n)) = n
      /\ \A i \in 1..n : SubSeq(t, 1, n)[i] = t[i]
  BY <1>1, <1>2, SubSeqOne
<1> QED BY <1>2, <1>3, SeqEqual

\* Two beginnings of one sequence: the shorter begins the longer.
LEMMA BothBegin ==
  ASSUME NEW S, NEW r \in Seq(S), NEW s \in Seq(S), NEW t \in Seq(S), Begins(r, t), Begins(s, t),
         Len(r) <= Len(s)
  PROVE  Begins(r, s)
<1>1. Len(r) \in Nat /\ Len(s) \in Nat /\ Len(t) \in Nat
  BY LenProperties
<1>2. \A i \in 1..Len(r) : i \in 1..Len(s)
  BY <1>1
<1> QED BY <1>2 DEF Begins

-----------------------------------------------------------------------------
(* The lines selected.                                                     *)

LEMMA SelectedNext ==
  ASSUME size \in Nat
  PROVE  /\ SelectedUpTo(0) = <<>>
         /\ \A k \in 0..size : SelectedUpTo(k) \in Seq(Nat)
         /\ \A k \in 1..size :
              SelectedUpTo(k) = IF Selects(lines[k]) THEN Append(SelectedUpTo(k - 1), k)
                                ELSE SelectedUpTo(k - 1)
         /\ \A j \in 0..size : \A k \in j..size : Begins(SelectedUpTo(j), SelectedUpTo(k))
<1> DEFINE g == [n \in 1..size |-> IF Selects(lines[n]) THEN <<n>> ELSE <<>>]
<1>1. \A n \in 1..size : g[n] \in Seq(Nat)
  BY EmptySeq
<1>2. \A k \in 0..size : SelectedUpTo(k) = Joined(g, k)
  <2>1. ASSUME NEW k \in 0..size
        PROVE  [n \in 1..k |-> IF Selects(lines[n]) THEN <<n>> ELSE <<>>] = [i \in 1..k |-> g[i]]
    <3>1. \A n \in 1..k : g[n] = IF Selects(lines[n]) THEN <<n>> ELSE <<>>
      OBVIOUS
    <3> HIDE DEF g
    <3> QED BY <3>1
  <2> HIDE DEF g
  <2> QED BY <2>1 DEF SelectedUpTo, Joined
<1>3. \A n \in 1..size : g[n] = IF Selects(lines[n]) THEN <<n>> ELSE <<>>
  OBVIOUS
<1> HIDE DEF g
<1>4. /\ Joined(g, 0) = <<>>
      /\ \A k \in 0..size : Joined(g, k) \in Seq(Nat)
      /\ \A k \in 1..size : Joined(g, k) = Joined(g, k - 1) \o g[k]
  BY <1>1, JoinedNext
<1>5. SelectedUpTo(0) = <<>>
  <2>1. 0 \in 0..size
    OBVIOUS
  <2> QED BY <1>2, <1>4, <2>1
<1>6. ASSUME NEW k \in 0..size PROVE SelectedUpTo(k) \in Seq(Nat)
  BY <1>2, <1>4
<1>7. ASSUME NEW k \in 1..size
      PROVE  SelectedUpTo(k) = IF Selects(lines[k]) THEN Append(SelectedUpTo(k - 1), k)
                               ELSE SelectedUpTo(k - 1)
  <2>1. k \in 0..size /\ k - 1 \in 0..size /\ k \in Nat
    OBVIOUS
  <2>2. SelectedUpTo(k) = SelectedUpTo(k - 1) \o g[k] /\ SelectedUpTo(k - 1) \in Seq(Nat)
    BY <1>2, <1>4, <2>1
  <2>3. CASE Selects(lines[k])
    <3>1. SelectedUpTo(k - 1) \o <<k>> = Append(SelectedUpTo(k - 1), k)
      BY <2>1, <2>2, AppendIsConcat
    <3> QED BY <1>3, <2>2, <2>3, <3>1
  <2>4. CASE ~Selects(lines[k])
    <3>1. SelectedUpTo(k - 1) \o <<>> = SelectedUpTo(k - 1)
      BY <2>2, ConcatEmptySeq
    <3> QED BY <1>3, <2>2, <2>4, <3>1
  <2> QED BY <2>3, <2>4
<1>8. ASSUME NEW j \in 0..size, NEW k \in j..size PROVE Begins(SelectedUpTo(j), SelectedUpTo(k))
  <2>1. Begins(Joined(g, j), Joined(g, k))
    BY <1>1, JoinedGrows
  <2>2. k \in 0..size
    OBVIOUS
  <2> QED BY <1>2, <2>1, <2>2
<1> QED BY <1>5, <1>6, <1>7, <1>8

LEMMA WantedIs ==
  ASSUME size \in Nat, request \in Nat
  PROVE  /\ Selected \in Seq(Nat) /\ Len(Selected) \in Nat
         /\ Wanted \in Seq(Nat) /\ Len(Wanted) \in Nat
         /\ Begins(Wanted, Selected)
         /\ request = None => Wanted = Selected
         /\ request # None =>
              Len(Wanted) = IF request < Len(Selected) THEN request ELSE Len(Selected)
<1>1. Selected \in Seq(Nat) /\ Len(Selected) \in Nat
  <2>1. size \in 0..size
    OBVIOUS
  <2>2. Selected \in Seq(Nat)
    BY <2>1, SelectedNext DEF Selected
  <2> QED BY <2>2, LenProperties
<1>2. CASE request = None
  <2>1. Wanted = Selected
    BY <1>2 DEF Wanted
  <2>2. Begins(Selected, Selected)
    BY <1>1 DEF Begins
  <2> QED BY <1>1, <1>2, <2>1, <2>2
<1>3. CASE request # None
  <2> DEFINE m == IF request < Len(Selected) THEN request ELSE Len(Selected)
  <2>1. Wanted = SubSeq(Selected, 1, m)
    BY <1>3 DEF Wanted, FirstNum
  <2>2. m \in Nat /\ m <= Len(Selected)
    BY <1>1
  <2>3. Len(Wanted) = m => Len(Wanted) = IF request < Len(Selected) THEN request ELSE Len(Selected)
    OBVIOUS
  <2> HIDE DEF m
  <2>4. \A i \in 1..m : Selected[i] \in Nat
    BY <1>1, <2>2, ElementOfSeq
  <2>5. /\ Wanted \in Seq(Nat) /\ Len(Wanted) = m
        /\ \A i \in 1..m : Wanted[i] = Selected[i]
    BY <2>1, <2>2, <2>4, SubSeqOne
  <2>6. Begins(Wanted, Selected)
    BY <2>2, <2>5 DEF Begins
  <2> QED BY <1>1, <1>3, <2>2, <2>3, <2>5, <2>6
<1> QED BY <1>2, <1>3

-----------------------------------------------------------------------------
(* The pieces of a report.                                                 *)

AnyPiece == {<<"place", n>> : n \in Nat} \cup {<<"text", n>> : n \in Nat} \cup {<<"count", n>> : n \in Nat}

LEMMA PiecesJoined ==
  ASSUME NEW w \in Seq(Nat), ~count_only
  PROVE  LET g == [i \in 1..Len(w) |-> PiecesOf(w[i])]
         IN  /\ \A i \in 1..Len(w) : g[i] \in Seq(AnyPiece) /\ g[i] = PiecesOf(w[i])
             /\ Pieces(w) = Joined(g, Len(w))
<1> DEFINE g == [i \in 1..Len(w) |-> PiecesOf(w[i])]
<1>1. Len(w) \in Nat /\ DOMAIN w = 1..Len(w)
  BY LenProperties
<1>2. ASSUME NEW i \in 1..Len(w) PROVE g[i] \in Seq(AnyPiece) /\ g[i] = PiecesOf(w[i])
  <2>1. w[i] \in Nat
    BY ElementOfSeq
  <2>2. <<"place", w[i]>> \in AnyPiece /\ <<"text", w[i]>> \in AnyPiece
    BY <2>1 DEF AnyPiece
  <2>3. PiecesOf(w[i]) \in Seq(AnyPiece)
    BY <2>2 DEF PiecesOf
  <2> QED BY <2>3
<1>3. Pieces(w) = FlattenSeq(g)
  BY <1>1 DEF Pieces
<1>4. [i \in 1..Len(w) |-> g[i]] = g
  OBVIOUS
<1>5. Pieces(w) = Joined(g, Len(w))
  <2> HIDE DEF g
  <2> QED BY <1>3, <1>4 DEF Joined
<1> QED BY <1>2, <1>5

LEMMA PiecesAre ==
  ASSUME NEW w \in Seq(Nat)
  PROVE  /\ Pieces(w) \in Seq(AnyPiece) /\ Len(Pieces(w)) \in Nat
         /\ w = <<>> /\ ~count_only => Pieces(w) = <<>>
<1>1. Len(w) \in Nat
  BY LenProperties
<1>2. CASE count_only
  <2>1. <<"place", 0>> \in AnyPiece /\ <<"count", Len(w)>> \in AnyPiece
    BY <1>1 DEF AnyPiece
  <2>2. Pieces(w) = << <<"place", 0>>, <<"count", Len(w)>> >>
    BY <1>2 DEF Pieces
  <2>3. Pieces(w) \in Seq(AnyPiece)
    BY <2>1, <2>2
  <2> QED BY <1>2, <2>3, LenProperties
<1>3. CASE ~count_only
  <2> DEFINE g == [i \in 1..Len(w) |-> PiecesOf(w[i])]
  <2>1. /\ \A i \in 1..Len(w) : g[i] \in Seq(AnyPiece)
        /\ Pieces(w) = Joined(g, Len(w))
    BY <1>3, PiecesJoined
  <2> HIDE DEF g
  <2>2. /\ Joined(g, 0) = <<>>
        /\ \A k \in 0..Len(w) : Joined(g, k) \in Seq(AnyPiece)
    BY <1>1, <2>1, JoinedNext
  <2>3. Pieces(w) \in Seq(AnyPiece)
    BY <1>1, <2>1, <2>2
  <2>4. w = <<>> => Pieces(w) = <<>>
    BY <2>1, <2>2
  <2> QED BY <2>3, <2>4, LenProperties
<1> QED BY <1>2, <1>3

-----------------------------------------------------------------------------
(* The report.                                                             *)

\* A number of matches that an int can hold is not changed by narrowing.
LEMMA SmallInt ==
  ASSUME NEW n \in Nat, n <= IntMax
  PROVE  parse_max_count(n) = n
<1>1. CASE n = None
  BY <1>1 DEF parse_max_count, None
<1>2. CASE n # None
  <2> DEFINE m == 2 * (IntMax + 1)
             s == n + IntMax + 1
  <2>1. m \in Nat /\ m > 0 /\ s \in 0..(m - 1)
    BY SearcherAssumption
  <2>2. s % m = s
    <3> HIDE DEF m, s
    <3> QED BY <2>1
  <2>3. ToInt(n) = n
    BY <2>2, SearcherAssumption DEF ToInt
  <2> QED BY <1>2, <2>3 DEF parse_max_count
<1> QED BY <1>1, <1>2

\* A search that got past the checks.
Begun ==
  /\ ~SkipsBinary
  /\ PreChecked => whole = "error" \/ (whole = "match" /\ ~files_with_matches)

\* The matches stored are the lines selected so far; with -l the first would
\* have ended the search.
Scanned ==
  /\ request \in Nat
  /\ pc \in {"map", "check"} => matches = <<>> /\ line_num = 1
  /\ pc = "scan" =>
       /\ Begun
       /\ line_num \in 1..size + 1
       /\ matches = SelectedUpTo(line_num - 1)
       /\ files_with_matches => matches = <<>>
       /\ max_count > 0 => Len(matches) < max_count
  /\ pc \in {"render", "format"} =>
       /\ Begun
       /\ files_with_matches => matches = <<>> /\ Selected = <<>>
       /\ request <= IntMax =>
            /\ Begins(matches, Wanted)
            /\ ~alloc_failed => matches = Wanted

\* The buffer holds the pieces formatted, all of them until memory runs out.
Formatted ==
  /\ pc \in {"map", "check", "scan", "render"} => piece = 1 /\ ~oom
  /\ pc = "format" =>
       /\ HasReport
       /\ piece \in 1..Len(Pieces(matches)) + 1
       /\ ob \in Seq(AnyPiece)
       /\ Begins(ob, Pieces(matches))
       /\ ~oom => Len(ob) = piece - 1

\* What an undisturbed search has reported: the name if there is a match, else
\* the lines wanted or their number.
AsWanted ==
  Undisturbed =>
    IF files_with_matches /\ Hit
    THEN listed = 1 /\ ret = 1 /\ shown = <<>>
    ELSE /\ listed = 0
         /\ ret = Len(Wanted)
         /\ shown = IF SkippedBefore THEN <<>> ELSE Pieces(Wanted)

\* What the search has reported when it returns.
Reported ==
  pc = "done" =>
    /\ AsWanted
    /\ shown # <<>> => TruncatedNotGarbled

LEMMA Sizes ==
  ASSUME SInv
  PROVE  size \in Nat /\ matches \in Seq(Nat) /\ Len(matches) \in Nat
<1>1. size \in Nat /\ matches \in Seq(Nat)
  BY DEF SInv, ViewInv, STypeOK
<1> QED BY <1>1, LenProperties

\* What is to be found depends on the file, its size and the options only.
LEMMA SameMeaning ==
  ASSUME UNCHANGED <<file, opts, size>>
  PROVE  /\ UNCHANGED <<Selected, Wanted, max_count>>
         /\ \A k : SelectedUpTo(k)' = SelectedUpTo(k)
         /\ \A w : Pieces(w)' = Pieces(w)
         /\ Begun' = Begun /\ SkipsBinary' = SkipsBinary /\ PreChecked' = PreChecked
<1>1. UNCHANGED <<lines, whole, binary, invert_match, count_only, files_with_matches,
                  search_binary, request, size>>
  BY DEF file, opts
<1>2. \A k : SelectedUpTo(k)' = SelectedUpTo(k)
  BY <1>1 DEF SelectedUpTo, Selects
<1>3. Selected' = Selected
  BY <1>1 DEF Selected, SelectedUpTo, Selects
<1>4. Wanted' = Wanted
  BY <1>1, <1>3 DEF Wanted, FirstNum
<1>5. \A w : Pieces(w)' = Pieces(w)
  BY <1>1 DEF Pieces
<1>6. SkipsBinary' = SkipsBinary /\ PreChecked' = PreChecked /\ max_count' = max_count
  BY <1>1 DEF SkipsBinary, PreChecked, max_count
<1>7. Begun' = Begun
  BY <1>1, <1>6 DEF Begun
<1> QED BY <1>2, <1>3, <1>4, <1>5, <1>6, <1>7

\* The lines selected among the first k, if they are no more than wanted.
LEMMA PartWanted ==
  ASSUME size \in Nat, request \in Nat, NEW k \in 0..size,
         request # None => Len(SelectedUpTo(k)) <= request
  PROVE  /\ Begins(SelectedUpTo(k), Wanted)
         /\ k = size \/ (request # None /\ Len(SelectedUpTo(k)) = request)
              => SelectedUpTo(k) = Wanted
<1> DEFINE u == SelectedUpTo(k)
<1>1. u \in Seq(Nat) /\ Len(u) \in Nat /\ Begins(u, Selected)
  <2>1. u \in Seq(Nat)
    BY SelectedNext
  <2>2. size \in k..size
    OBVIOUS
  <2>3. Begins(u, Selected)
    BY <2>2, SelectedNext DEF Selected
  <2> QED BY <2>1, <2>3, LenProperties
<1>2. k = size => u = Selected
  BY DEF Selected
<1> HIDE DEF u
<1>3. /\ Selected \in Seq(Nat) /\ Len(Selected) \in Nat
      /\ Wanted \in Seq(Nat) /\ Len(Wanted) \in Nat
      /\ Begins(Wanted, Selected)
  BY WantedIs
<1>4. CASE request = None
  <2>1. Wanted = Selected
    BY <1>4, WantedIs
  <2> QED BY <1>1, <1>2, <1>4, <2>1 DEF u
<1>5. CASE request # None
  <2>1. Len(Wanted) = IF request < Len(Selected) THEN request ELSE Len(Selected)
    BY <1>5, WantedIs
  <2>2. Len(u) <= request /\ Len(u) <= Len(Selected)
    BY <1>1, <1>5 DEF u, Begins
  <2>3. Len(u) <= Len(Wanted)
    BY <1>1, <1>3, <2>1, <2>2
  <2>4. Begins(u, Wanted)
    BY <1>1, <1>3, <2>3, BothBegin
  <2>5. ASSUME k = size \/ Len(u) = request PROVE u = Wanted
    <3>1. Len(u) = Len(Wanted)
      BY <1>1, <1>2, <1>3, <2>1, <2>2, <2>5
    <3> QED BY <1>1, <1>3, <2>4, <3>1, BeginsIsPrefix
  <2> QED BY <2>4, <2>5 DEF u
<1> QED BY <1>4, <1>5

LEMMA ScannedStep ==
  ASSUME SInv, SInv', Scanned, [SNext]_svars
  PROVE  Scanned'
<1>0. size \in Nat /\ matches \in Seq(Nat) /\ Len(matches) \in Nat
  BY Sizes
<1>1. CASE pc' = "done" /\ request' = request
  BY <1>1 DEF Scanned
<1>2. CASE MapFile
  <2>1. UNCHANGED <<matches, line_num, request>> /\ pc = "map"
        /\ pc' \in {"map", "check", "done"}
    BY <1>2 DEF MapFile, opts, array, stored
  <2> QED BY <2>1 DEF Scanned
<1>3. CASE FileCut
  <2>1. UNCHANGED <<file, opts, size, pc, line_num, matches, alloc_failed, request, files_with_matches>>
    BY <1>3 DEF FileCut, Shrink, array, stored, opts
  <2>2. /\ UNCHANGED <<Selected, Wanted, max_count>> /\ Begun' = Begun
        /\ SelectedUpTo(line_num - 1)' = SelectedUpTo(line_num - 1)
    <3>1. \A k : SelectedUpTo(k)' = SelectedUpTo(k)
      BY <2>1, SameMeaning
    <3>2. SelectedUpTo(line_num - 1)' = SelectedUpTo(line_num - 1)
      BY <2>1 DEF SelectedUpTo, Selects, file, opts
    <3> QED BY <2>1, <3>2, SameMeaning
  <2> QED BY <2>1, <2>2 DEF Scanned, Begins
<1>4. CASE StartScan
  <2>1. /\ UNCHANGED <<file, opts, size, line_num, matches, request, files_with_matches>>
        /\ pc = "check" /\ pc' = "scan" /\ Begun
    BY <1>4 DEF StartScan, array, stored, opts, view, Begun
  <2>2. matches = <<>> /\ line_num = 1 /\ request \in Nat
    BY <2>1 DEF Scanned
  <2>3. SelectedUpTo(line_num - 1)' = SelectedUpTo(0)
    BY <2>1, <2>2 DEF SelectedUpTo, Selects, file, opts
  <2>4. Begun' /\ SelectedUpTo(0) = <<>>
    BY <1>0, <2>1, SameMeaning, SelectedNext
  <2>5. line_num' \in 1..size' + 1 /\ Len(matches') = 0
    BY <1>0, <2>1, <2>2, EmptySeq
  <2> QED BY <2>1, <2>2, <2>3, <2>4, <2>5 DEF Scanned
<1>5. CASE PassLine
  <2>1. /\ UNCHANGED <<file, opts, size, matches, request, files_with_matches>>
        /\ pc = "scan" /\ pc' = "scan" /\ line_num <= size /\ line_num' = line_num + 1
        /\ ~Selects(lines[line_num])
    BY <1>5 DEF PassLine, AtLine, array, stored, opts, view
  <2>2. /\ Begun /\ line_num \in 1..size /\ matches = SelectedUpTo(line_num - 1)
        /\ files_with_matches => matches = <<>>
        /\ max_count > 0 => Len(matches) < max_count
        /\ request \in Nat
    BY <1>0, <2>1 DEF Scanned
  <2>3. SelectedUpTo(line_num - 1)' = SelectedUpTo(line_num)
    <3>1. line_num' - 1 = line_num
      BY <2>1, <2>2
    <3> QED BY <2>1, <3>1 DEF SelectedUpTo, Selects, file, opts
  <2>4. SelectedUpTo(line_num) = matches
    BY <1>0, <2>1, <2>2, SelectedNext
  <2>5. Begun' /\ max_count' = max_count
    BY <2>1, <2>2, SameMeaning
  <2>6. line_num' \in 1..size' + 1
    BY <1>0, <2>1, <2>2
  <2> QED BY <2>1, <2>2, <2>3, <2>4, <2>5, <2>6 DEF Scanned
<1>6. CASE StoreLine
  <2>1. /\ UNCHANGED <<file, opts, size, request, files_with_matches>>
        /\ pc = "scan" /\ line_num <= size /\ Selects(lines[line_num])
        /\ ~files_with_matches
        /\ alloc_failed' => pc' = "render" /\ UNCHANGED matches
        /\ ~alloc_failed' =>
             /\ matches' = Append(matches, line_num)
             /\ \/ Enough(Len(matches')) /\ pc' = "render"
                \/ ~Enough(Len(matches')) /\ pc' = "scan" /\ line_num' = line_num + 1
    BY <1>6 DEF StoreLine, AtLine, opts, view
  <2>2. /\ Begun /\ line_num \in 1..size /\ matches = SelectedUpTo(line_num - 1)
        /\ max_count > 0 => Len(matches) < max_count
        /\ request \in Nat
    BY <1>0, <2>1 DEF Scanned
  <2>3. /\ Begun' /\ max_count' = max_count /\ Wanted' = Wanted /\ request' \in Nat
        /\ ~files_with_matches'
    BY <2>1, <2>2, SameMeaning
  <2>4. request <= IntMax => max_count = request
    BY <2>2, SmallInt DEF max_count
  <2>5. line_num - 1 \in 0..size /\ line_num \in 0..size
    BY <1>0, <2>2
  <2>6. CASE alloc_failed'
    <3>1. ASSUME request <= IntMax PROVE Begins(matches, Wanted)
      <4>1. request # None => Len(matches) <= request
        BY <1>0, <2>2, <2>4, <3>1 DEF None
      <4> QED BY <1>0, <2>2, <2>5, <4>1, PartWanted
    <3>2. matches' = matches /\ pc' = "render"
      BY <2>1, <2>6
    <3> QED BY <2>1, <2>3, <2>6, <3>1, <3>2 DEF Scanned, Begins
  <2>7. CASE ~alloc_failed'
    <3>1. matches' = SelectedUpTo(line_num) /\ Len(matches') = Len(matches) + 1
      <4>1. matches' = SelectedUpTo(line_num)
        BY <1>0, <2>1, <2>2, <2>7, SelectedNext
      <4>2. line_num \in Nat
        BY <2>2
      <4>3. Len(matches') = Len(matches) + 1
        BY <1>0, <2>1, <2>7, <4>2, AppendProperties
      <4> QED BY <4>1, <4>3
    <3>2. CASE Enough(Len(matches')) /\ pc' = "render"
      <4>1. ASSUME request <= IntMax PROVE matches' = Wanted
        <5>1. request # None /\ Len(matches') = request
          BY <1>0, <2>2, <2>4, <3>1, <3>2, <4>1 DEF Enough, None
        <5>2. request # None => Len(SelectedUpTo(line_num)) <= request
          BY <2>2, <3>1, <5>1
        <5> QED BY <1>0, <2>2, <2>5, <3>1, <5>1, <5>2, PartWanted
      <4>2. request <= IntMax => Begins(Wanted, Wanted)
        <5>1. Len(Wanted) \in Nat
          BY <1>0, <2>2, WantedIs
        <5> QED BY <5>1 DEF Begins
      <4> QED BY <2>1, <2>3, <2>7, <3>2, <4>1, <4>2 DEF Scanned, Begins
    <3>3. CASE ~Enough(Len(matches')) /\ pc' = "scan" /\ line_num' = line_num + 1
      <4>1. SelectedUpTo(line_num - 1)' = SelectedUpTo(line_num)
        <5>1. line_num' - 1 = line_num
          BY <2>2, <3>3
        <5> QED BY <2>1, <5>1 DEF SelectedUpTo, Selects, file, opts
      <4>2. max_count > 0 => Len(matches') < max_count
        <5>1. max_count \in Int \/ ~(max_count > 0)
          BY <1>0, <2>2, SearcherAssumption DEF max_count, parse_max_count, ToInt, None
        <5> QED BY <1>0, <3>1, <3>3, <5>1 DEF Enough
      <4>3. line_num' \in 1..size' + 1
        BY <1>0, <2>1, <2>2, <3>3
      <4> QED BY <2>3, <3>1, <3>3, <4>1, <4>2, <4>3 DEF Scanned
    <3> QED BY <2>1, <2>7, <3>2, <3>3
  <2> QED BY <2>6, <2>7
<1>7. CASE EndOfFile
  <2>1. /\ UNCHANGED <<file, opts, size, matches, alloc_failed, request, files_with_matches>>
        /\ pc = "scan" /\ line_num > size /\ pc' = "render"
    BY <1>7 DEF EndOfFile, array, stored, opts, view
  <2>2. /\ Begun /\ line_num - 1 = size /\ matches = SelectedUpTo(line_num - 1)
        /\ files_with_matches => matches = <<>>
        /\ max_count > 0 => Len(matches) < max_count
        /\ request \in Nat
    BY <1>0, <2>1 DEF Scanned
  <2>3. matches = SelectedUpTo(size) /\ matches = Selected /\ size \in 0..size
    BY <1>0, <2>2 DEF Selected
  <2>4. ASSUME request <= IntMax PROVE Begins(matches, Wanted) /\ matches = Wanted
    <3>1. max_count = request
      BY <2>2, <2>4, SmallInt DEF max_count
    <3>2. request # None => Len(SelectedUpTo(size)) <= request
      BY <1>0, <2>2, <2>3, <3>1 DEF None
    <3> QED BY <1>0, <2>2, <2>3, <3>2, PartWanted
  <2>5. Begun' /\ Wanted' = Wanted /\ Selected' = Selected
    BY <2>1, <2>2, SameMeaning
  <2> QED BY <2>1, <2>2, <2>3, <2>4, <2>5 DEF Scanned, Begins
<1>8. CASE OpenBuffer \/ Format
  <2>1. /\ UNCHANGED <<file, opts, size, matches, alloc_failed, request, files_with_matches>>
        /\ pc \in {"render", "format"} /\ pc' = "format"
    BY <1>8 DEF OpenBuffer, Format, array, stored, opts, view
  <2>2. Begun' = Begun /\ Wanted' = Wanted /\ Selected' = Selected
    BY <2>1, SameMeaning
  <2> QED BY <2>1, <2>2 DEF Scanned, Begins
<1>9. CASE UNCHANGED svars
  <2>1. UNCHANGED <<file, opts, size, pc, line_num, matches, alloc_failed, request, files_with_matches>>
    BY <1>9 DEF svars, view, array, stored, opts
  <2>2. /\ UNCHANGED <<Selected, Wanted, max_count>> /\ Begun' = Begun
        /\ SelectedUpTo(line_num - 1)' = SelectedUpTo(line_num - 1)
    <3>1. SelectedUpTo(line_num - 1)' = SelectedUpTo(line_num - 1)
      BY <2>1 DEF SelectedUpTo, Selects, file, opts
    <3> QED BY <2>1, <3>1, SameMeaning
  <2> QED BY <2>1, <2>2 DEF Scanned, Begins
<1>10. CASE SkipBinary \/ SkipFile \/ ListWholeFile \/ ListFile \/ NoBuffer \/ NothingToShow \/ Write
  <2>1. pc' = "done" /\ request' = request
    BY <1>10 DEF SkipBinary, SkipFile, ListWholeFile, ListFile, NoBuffer, NothingToShow, Write,
                 Return, Finish, opts
  <2> QED BY <1>1, <2>1
<1> QED BY <1>2, <1>3, <1>4, <1>5, <1>6, <1>7, <1>8, <1>9, <1>10 DEF SNext, SStep, Done

LEMMA FormattedStep ==
  ASSUME SInv, Scanned, Formatted, [SNext]_svars
  PROVE  Formatted'
<1>0. size \in Nat /\ matches \in Seq(Nat) /\ Len(matches) \in Nat
  BY Sizes
<1>1. CASE pc' = "done"
  BY <1>1 DEF Formatted
<1>2. CASE MapFile
  <2>1. UNCHANGED <<piece, oom>> /\ pc = "map" /\ pc' \in {"map", "check", "done"}
    BY <1>2 DEF MapFile, outbuf
  <2> QED BY <2>1 DEF Formatted
<1>3. CASE StartScan \/ PassLine \/ StoreLine \/ EndOfFile
  <2>1. /\ UNCHANGED <<piece, oom>>
        /\ pc \in {"check", "scan"} /\ pc' \in {"scan", "render"}
    BY <1>3 DEF StartScan, PassLine, StoreLine, EndOfFile, AtLine, outbuf
  <2> QED BY <2>1 DEF Formatted
<1>4. CASE OpenBuffer
  <2>1. /\ UNCHANGED <<file, opts, size, matches, count_only, piece, ob, oom>>
        /\ pc = "render" /\ pc' = "format" /\ HasReport
    BY <1>4 DEF OpenBuffer, array, stored, opts, view
  <2>2. ob = <<>> /\ piece = 1 /\ ~oom
    BY <2>1 DEF SInv, Unfinished, Formatted
  <2>3. Pieces(matches)' = Pieces(matches)
    BY <2>1 DEF Pieces
  <2>4. Len(Pieces(matches)) \in Nat
    BY <1>0, PiecesAre
  <2>5. /\ <<>> \in Seq(AnyPiece) /\ Len(<<>>) = 0
        /\ Begins(<<>>, Pieces(matches))
        /\ 1 \in 1..Len(Pieces(matches)) + 1
    BY <2>4, EmptySeq DEF Begins
  <2> QED BY <2>1, <2>2, <2>3, <2>5 DEF Formatted, HasReport, Begins
<1>5. CASE Format
  <2> DEFINE all == Pieces(matches)
  <2>1. /\ UNCHANGED <<file, opts, size, matches, count_only>>
        /\ pc = "format" /\ pc' = "format"
        /\ piece <= Len(all) /\ piece' = piece + 1
        /\ outbuf_append(all[piece])
    BY <1>5 DEF Format, array, stored, opts, view
  <2>2. /\ HasReport /\ piece \in 1..Len(all) + 1
        /\ ob \in Seq(AnyPiece) /\ Begins(ob, all)
        /\ ~oom => Len(ob) = piece - 1
    BY <2>1 DEF Formatted
  <2>3. Pieces(matches)' = all
    BY <2>1 DEF Pieces
  <2>4. all \in Seq(AnyPiece) /\ Len(all) \in Nat /\ Len(ob) \in Nat
    BY <1>0, <2>2, PiecesAre, LenProperties
  <2> HIDE DEF all
  <2>5. piece \in 1..Len(all) /\ piece' \in 1..Len(all) + 1 /\ piece' - 1 = piece
    BY <2>1, <2>2, <2>4
  <2>6. CASE oom' /\ UNCHANGED ob
    BY <2>1, <2>2, <2>3, <2>5, <2>6 DEF Formatted, HasReport, Begins, all
  <2>7. CASE ~oom /\ UNCHANGED oom /\ ob' = Append(ob, all[piece])
    <3>1. all[piece] \in AnyPiece
      BY <2>4, <2>5, ElementOfSeq
    <3>2. /\ ob' \in Seq(AnyPiece) /\ Len(ob') = Len(ob) + 1
          /\ \A i \in 1..Len(ob) : ob'[i] = ob[i]
          /\ ob'[Len(ob) + 1] = all[piece]
      BY <2>2, <2>7, <3>1, AppendProperties
    <3>3. Len(ob) + 1 = piece /\ Len(ob') = piece
      BY <2>2, <2>5, <2>7, <3>2
    <3>4. Begins(ob', all)
      <4>1. \A i \in 1..Len(ob') : i \in 1..Len(ob) \/ i = piece
        BY <2>4, <3>3
      <4>2. \A i \in 1..Len(ob) : ob'[i] = all[i]
        BY <2>2, <3>2 DEF Begins
      <4>3. ob'[piece] = all[piece]
        BY <3>2, <3>3
      <4>4. Len(ob') <= Len(all)
        BY <2>5, <3>3
      <4> QED BY <4>1, <4>2, <4>3, <4>4 DEF Begins
    <3>5. Begins(ob, Pieces(matches))'
      BY <2>3, <3>4 DEF Begins
    <3>6. piece' \in 1..Len(Pieces(matches)') + 1 /\ Len(ob') = piece' - 1
      BY <2>3, <2>5, <3>3
    <3> QED BY <2>1, <2>2, <3>2, <3>5, <3>6 DEF Formatted, HasReport
  <2> QED BY <2>1, <2>6, <2>7 DEF outbuf_append, Silent, outbuf
<1>6. CASE FileCut \/ UNCHANGED svars
  <2>1. UNCHANGED <<pc, matches, count_only, piece, ob, oom>>
    BY <1>6 DEF FileCut, svars, array, stored, opts, outbuf
  <2>2. Pieces(matches)' = Pieces(matches)
    BY <2>1 DEF Pieces
  <2> QED BY <2>1, <2>2 DEF Formatted, HasReport, Begins
<1>7. CASE SkipBinary \/ SkipFile \/ ListWholeFile \/ ListFile \/ NoBuffer \/ NothingToShow \/ Write
  <2>1. pc' = "done"
    BY <1>7 DEF SkipBinary, SkipFile, ListWholeFile, ListFile, NoBuffer, NothingToShow, Write,
                Return, Finish
  <2> QED BY <1>1, <2>1
<1> QED BY <1>2, <1>3, <1>4, <1>5, <1>6, <1>7 DEF SNext, SStep, Done

\* The values that decide whether a search counts as undisturbed.
LEMMA SameTrouble ==
  ASSUME UNCHANGED <<file, opts, size, alloc_failed, oom>>, Undisturbed'
  PROVE  /\ ~SkipsBinary /\ ~alloc_failed /\ ~oom
         /\ PreChecked /\ whole = "nomatch" => Selected = <<>>
         /\ request <= IntMax
<1>1. /\ Selected' = Selected /\ SkipsBinary' = SkipsBinary /\ PreChecked' = PreChecked
      /\ whole' = whole /\ request' = request
  BY SameMeaning DEF file, opts
<1> QED BY <1>1 DEF Undisturbed, SkippedBefore

LEMMA ReportedStep ==
  ASSUME SInv, Scanned, Formatted, Reported, [SNext]_svars
  PROVE  Reported'
<1>0. /\ size \in Nat /\ matches \in Seq(Nat) /\ Len(matches) \in Nat /\ request \in Nat
      /\ Selected \in Seq(Nat) /\ Len(Selected) \in Nat
      /\ Wanted \in Seq(Nat) /\ Len(Wanted) \in Nat
      /\ Selected = <<>> => Wanted = <<>>
  <2>1. size \in Nat /\ matches \in Seq(Nat) /\ Len(matches) \in Nat /\ request \in Nat
    BY Sizes DEF Scanned
  <2>2. /\ Selected \in Seq(Nat) /\ Len(Selected) \in Nat
        /\ Wanted \in Seq(Nat) /\ Len(Wanted) \in Nat
        /\ Begins(Wanted, Selected)
    BY <2>1, WantedIs
  <2>3. Selected = <<>> => Wanted = <<>>
    <3>1. Selected = <<>> => ~(Len(Wanted) \in Nat \ {0})
      BY <2>2, EmptySeq DEF Begins
    <3> QED BY <2>2, <3>1, EmptySeq
  <2> QED BY <2>1, <2>2, <2>3
<1>1. pc # "done" => shown = <<>> /\ listed = 0
  BY DEF SInv, Unfinished
<1>2. CASE pc' # "done"
  BY <1>2 DEF Reported
<1>3. CASE MapFile
  <2>1. pc = "map" /\ shown' = shown /\ pc' = "done" => ret' = -1
    BY <1>3 DEF MapFile, effects
  <2>2. pc = "map" /\ shown' = shown
    BY <1>3 DEF MapFile, effects
  <2> QED BY <1>1, <2>1, <2>2 DEF Reported, AsWanted, Undisturbed
<1>4. CASE SkipBinary
  <2>1. /\ UNCHANGED <<file, opts, size, alloc_failed, oom, shown>>
        /\ pc = "check" /\ SkipsBinary
    BY <1>4 DEF SkipBinary, Finish, greg_file_unmap, array, stored, outbuf, effects
  <2>2. ~Undisturbed'
    BY <2>1, SameTrouble
  <2> QED BY <1>1, <2>1, <2>2 DEF Reported, AsWanted
<1>5. CASE SkipFile
  <2>1. /\ UNCHANGED <<file, opts, size, alloc_failed, oom, shown, listed>>
        /\ pc = "check" /\ PreChecked /\ whole = "nomatch" /\ ret' = 0
    BY <1>5 DEF SkipFile, Finish, greg_file_unmap, array, stored, outbuf, effects
  <2>2. ASSUME Undisturbed' PROVE Selected' = <<>> /\ Wanted' = <<>>
    BY <1>0, <2>1, <2>2, SameTrouble, SameMeaning
  <2>3. SkippedBefore' /\ whole' = "nomatch" /\ shown' = <<>> /\ listed' = 0
    BY <1>1, <2>1, SameMeaning DEF SkippedBefore, file
  <2>4. AsWanted'
    BY <2>1, <2>2, <2>3, EmptySeq DEF AsWanted, Hit
  <2> QED BY <2>3, <2>4 DEF Reported
<1>6. CASE ListWholeFile
  <2>1. /\ UNCHANGED <<file, opts, size, shown, whole, files_with_matches>>
        /\ pc = "check" /\ PreChecked /\ whole = "match" /\ files_with_matches
        /\ ret' = 1 /\ listed' = listed + 1
    BY <1>6 DEF ListWholeFile, PrintFile, Finish, greg_file_unmap, file, opts
  <2>2. PreChecked' /\ whole' = "match" /\ shown' = <<>> /\ listed' = 1 /\ files_with_matches'
    BY <1>1, <2>1, SameMeaning
  <2> QED BY <2>1, <2>2 DEF Reported, AsWanted, Hit
<1>7. CASE ListFile
  <2>1. /\ UNCHANGED <<file, opts, size, shown, files_with_matches>>
        /\ pc = "scan" /\ line_num <= size /\ Selects(lines[line_num]) /\ files_with_matches
        /\ ret' = 1 /\ listed' = listed + 1
    BY <1>7 DEF ListFile, AtLine, PrintFile, Finish, greg_file_unmap, file, opts
  <2>2. line_num \in 1..size
    BY <1>0, <2>1 DEF Scanned
  <2>3. Selected # <<>>
    <3>1. line_num - 1 \in 0..size /\ line_num \in 0..size /\ size \in line_num..size
          /\ line_num \in Nat
      BY <1>0, <2>2
    <3>2. /\ SelectedUpTo(line_num - 1) \in Seq(Nat)
          /\ SelectedUpTo(line_num) = Append(SelectedUpTo(line_num - 1), line_num)
          /\ Begins(SelectedUpTo(line_num), Selected)
      BY <1>0, <2>1, <2>2, <3>1, SelectedNext DEF Selected
    <3>3. /\ Len(SelectedUpTo(line_num)) = Len(SelectedUpTo(line_num - 1)) + 1
          /\ Len(SelectedUpTo(line_num - 1)) \in Nat
      BY <3>1, <3>2, AppendProperties, LenProperties
    <3>4. Len(Selected) # 0
      BY <1>0, <3>2, <3>3 DEF Begins
    <3> QED BY <3>4, EmptySeq
  <2>4. Selected' # <<>> /\ shown' = <<>> /\ listed' = 1 /\ files_with_matches'
    BY <1>1, <2>1, <2>3, SameMeaning
  <2> QED BY <2>1, <2>4 DEF Reported, AsWanted, Hit
<1>8. CASE NoBuffer
  <2>1. oom' /\ shown' = shown /\ pc = "render"
    BY <1>8 DEF NoBuffer
  <2> QED BY <1>1, <2>1 DEF Reported, AsWanted, Undisturbed
<1>9. CASE NothingToShow
  <2>1. /\ UNCHANGED <<file, opts, size, alloc_failed, oom, shown, listed, whole,
                       files_with_matches, count_only>>
        /\ pc = "render" /\ matches = <<>> /\ ~count_only /\ ret' = Len(matches)
    BY <1>9 DEF NothingToShow, HasReport, Return, Finish, greg_file_unmap, stored, outbuf,
                effects, file, opts
  <2>2. shown' = <<>> /\ listed' = 0
    BY <1>1, <2>1
  <2>3. /\ Begun
        /\ files_with_matches => Selected = <<>>
        /\ request <= IntMax /\ ~alloc_failed => matches = Wanted
    BY <2>1 DEF Scanned
  <2>4. ~(files_with_matches' /\ Hit')
    <3>1. files_with_matches' => Selected' = <<>> /\ ~(PreChecked' /\ whole' = "match")
      <4>1. PreChecked' = PreChecked /\ Selected' = Selected
        BY <2>1, SameMeaning
      <4>2. whole' = whole /\ files_with_matches' = files_with_matches
        BY <2>1
      <4>3. files_with_matches /\ PreChecked => whole # "match"
        BY <2>3 DEF Begun
      <4> QED BY <2>3, <4>1, <4>2, <4>3, Zenon
    <3> QED BY <3>1 DEF Hit
  <2>5. ASSUME Undisturbed' PROVE Wanted' = <<>> /\ Pieces(Wanted)' = <<>>
    <3>1. Wanted = <<>>
      <4>1. ~alloc_failed /\ request <= IntMax
        BY <2>1, <2>5, SameTrouble
      <4> QED BY <2>1, <2>3, <4>1
    <3>2. Wanted' = <<>>
      BY <2>1, <3>1, SameMeaning
    <3>3. Pieces(<<>>) = <<>>
      <4>1. <<>> \in Seq(Nat)
        BY EmptySeq
      <4> QED BY <2>1, <4>1, PiecesAre
    <3>4. Pieces(Wanted)' = Pieces(<<>>)
      BY <2>1, <3>2 DEF Pieces
    <3> QED BY <3>2, <3>3, <3>4
  <2>6. ret' = 0 /\ Len(<<>>) = 0
    BY <2>1, EmptySeq
  <2>7. AsWanted'
    BY <2>2, <2>4, <2>5, <2>6 DEF AsWanted
  <2> QED BY <2>2, <2>7 DEF Reported
<1>10. CASE Write
  <2>1. /\ UNCHANGED <<file, opts, size, alloc_failed, oom, listed, whole, request,
                       files_with_matches, count_only>>
        /\ pc = "format" /\ piece > Len(Pieces(matches)) /\ ret' = Len(matches) /\ shown' = ob
    BY <1>10 DEF Write, Return, Finish, greg_file_unmap, stored, file, opts
  <2>2. /\ Begun
        /\ files_with_matches => Selected = <<>>
        /\ request <= IntMax => Begins(matches, Wanted) /\ (~alloc_failed => matches = Wanted)
    BY <2>1 DEF Scanned
  <2>3. /\ piece \in 1..Len(Pieces(matches)) + 1
        /\ ob \in Seq(AnyPiece)
        /\ Begins(ob, Pieces(matches))
        /\ ~oom => Len(ob) = piece - 1
    BY <2>1 DEF Formatted
  <2>4. /\ Pieces(matches) \in Seq(AnyPiece) /\ Len(Pieces(matches)) \in Nat
        /\ Pieces(Wanted) \in Seq(AnyPiece)
    BY <1>0, PiecesAre
  <2>5. Pieces(Wanted)' = Pieces(Wanted) /\ Wanted' = Wanted
    <3>1. Wanted' = Wanted
      BY <2>1, SameMeaning
    <3> QED BY <2>1, <3>1 DEF Pieces
  <2>6. ~(files_with_matches' /\ Hit') /\ ~SkippedBefore'
    <3>1. files_with_matches' => Selected' = <<>> /\ ~(PreChecked' /\ whole' = "match")
      <4>1. PreChecked' = PreChecked /\ Selected' = Selected
        BY <2>1, SameMeaning
      <4>2. whole' = whole /\ files_with_matches' = files_with_matches
        BY <2>1
      <4>3. files_with_matches /\ PreChecked => whole # "match"
        BY <2>2 DEF Begun
      <4> QED BY <2>2, <4>1, <4>2, <4>3, Zenon
    <3>2. ~(PreChecked' /\ whole' = "nomatch")
      <4>1. PreChecked' = PreChecked /\ whole' = whole
        BY <2>1, SameMeaning
      <4>2. PreChecked => whole # "nomatch"
        BY <2>2 DEF Begun
      <4> QED BY <4>1, <4>2, Zenon
    <3> QED BY <3>1, <3>2 DEF Hit, SkippedBefore
  <2>7. ASSUME Undisturbed' PROVE shown' = Pieces(Wanted) /\ ret' = Len(Wanted)
    <3>1. matches = Wanted /\ ~oom
      <4>1. ~alloc_failed /\ ~oom /\ request <= IntMax
        BY <2>1, <2>7, SameTrouble
      <4> QED BY <2>2, <4>1
    <3>2. Len(ob) = Len(Pieces(matches))
      BY <2>1, <2>3, <2>4, <3>1
    <3>3. ob = Pieces(matches)
      BY <2>3, <2>4, <3>2, BeginsIsPrefix
    <3> QED BY <2>1, <3>1, <3>3
  <2>8. listed' = 0
    BY <1>1, <2>1
  <2>9. AsWanted'
    BY <2>5, <2>6, <2>7, <2>8 DEF AsWanted
  <2> DEFINE n == Len(matches)
  <2>10. ASSUME request <= IntMax
         PROVE  /\ n \in 0..Len(Wanted)
                /\ IsPrefix(ob, Pieces(SubSeq(Wanted, 1, n)))
                /\ n < Len(Wanted) => alloc_failed
    <3>1. n \in 0..Len(Wanted) /\ SubSeq(Wanted, 1, n) = matches
      BY <1>0, <2>2, <2>10, BeginsIsFirst DEF Begins
    <3>2. IsPrefix(ob, Pieces(matches))
      BY <2>3, <2>4, BeginsIsPrefix
    <3>3. n < Len(Wanted) => alloc_failed
      BY <1>0, <2>2, <2>10
    <3> QED BY <3>1, <3>2, <3>3
  <2>11. Pieces(SubSeq(Wanted, 1, n))' = Pieces(SubSeq(Wanted, 1, n))
    <3>1. UNCHANGED <<matches, count_only>>
      BY <1>10 DEF Write, stored, opts
    <3> QED BY <2>5, <3>1 DEF Pieces
  <2>12. n' = n /\ alloc_failed' = alloc_failed
    BY <1>10 DEF Write, stored
  <2> HIDE DEF n
  <2>13. TruncatedNotGarbled'
    BY <2>1, <2>5, <2>10, <2>11, <2>12 DEF TruncatedNotGarbled, IsPrefix
  <2> QED BY <2>9, <2>13 DEF Reported
<1>11. CASE FileCut
  <2>1. pc' = pc /\ mapping = "read"
    BY <1>11 DEF FileCut, Shrink
  <2>2. pc = "map"
    BY <2>1 DEF SInv, Unfinished
  <2> QED BY <2>1, <2>2 DEF Reported
<1>12. CASE UNCHANGED svars
  <2>1. UNCHANGED <<file, opts, size, pc, alloc_failed, oom, shown, listed, ret, whole, request,
                    files_with_matches, count_only>>
    BY <1>12 DEF svars, view, array, stored, opts, outbuf, effects, file
  <2>2. UNCHANGED <<Selected, Wanted, SkipsBinary, PreChecked>>
    BY <2>1, SameMeaning
  <2>3. Pieces(Wanted)' = Pieces(Wanted)
    BY <2>1, <2>2 DEF Pieces
  <2>4. SkippedBefore' = SkippedBefore /\ Hit' = Hit
    BY <2>1, <2>2 DEF SkippedBefore, Hit
  <2>5. Undisturbed' = Undisturbed
    BY <2>1, <2>2, <2>4 DEF Undisturbed
  <2>6. AsWanted' = AsWanted
    BY <2>1, <2>2, <2>3, <2>4, <2>5 DEF AsWanted
  <2>7. TruncatedNotGarbled' = TruncatedNotGarbled
    BY <2>1, <2>2 DEF TruncatedNotGarbled, Pieces, IsPrefix
  <2> QED BY <2>1, <2>6, <2>7 DEF Reported
<1>13. CASE StartScan \/ PassLine \/ StoreLine \/ EndOfFile \/ OpenBuffer \/ Format
  <2>1. pc' # "done"
    BY <1>13 DEF StartScan, PassLine, StoreLine, EndOfFile, OpenBuffer, Format, AtLine
  <2> QED BY <1>2, <2>1
<1> QED BY <1>3, <1>4, <1>5, <1>6, <1>7, <1>8, <1>9, <1>10, <1>11, <1>12, <1>13 DEF SNext, SStep, Done

\* Nothing is shown before the end, and nothing begins every report.
LEMMA ReportInit == SInit => Scanned /\ Formatted /\ Reported
<1> SUFFICES ASSUME SInit PROVE Scanned /\ Formatted /\ Reported
  OBVIOUS
<1>1. request \in Nat
  BY SearcherAssumption DEF SInit, None
<1> QED
  BY <1>1 DEF SInit, Scanned, Formatted, Reported

\* What a search knows of its report on the way to it.
RepInv == SInv /\ Scanned /\ Formatted /\ Reported

THEOREM SearchReports == SSpec => []RepInv
<1>1. SInit => RepInv
  BY InitSInv, ReportInit DEF RepInv
<1>2. RepInv /\ [SNext]_svars => RepInv'
  BY StepSInv, ScannedStep, FormattedStep, ReportedStep DEF RepInv
<1> QED BY <1>1, <1>2, PTL DEF SSpec

\* A search that nothing disturbed reports the lines it was to report, each
\* once and in their order, and returns and counts their number; under -l it
\* lists the file if there is one and shows nothing (searcher.c:117-343).
THEOREM SearchReportsExactly == SSpec => []ReportsExactly
<1>1. ASSUME RepInv, Undisturbed PROVE ReportsExactly
  <2>1. AsWanted /\ TotalAgrees /\ ~oom /\ pc = "done"
    BY <1>1 DEF RepInv, SInv, Reported, Undisturbed
  <2>2. /\ Len(Wanted) \in Nat /\ Len(Selected) \in Nat
        /\ Wanted \in Seq(Nat) /\ Begins(Wanted, Selected)
    <3>1. size \in Nat /\ request \in Nat
      BY <1>1, Sizes DEF RepInv, Scanned
    <3> QED BY <3>1, WantedIs
  <2>3. Selected = <<>> => Wanted = <<>> /\ Len(Wanted) = 0
    <3>1. Selected = <<>> => ~(Len(Wanted) \in Nat \ {0})
      BY <2>2, EmptySeq DEF Begins
    <3> QED BY <2>2, <3>1, EmptySeq
  <2>4. ret \in Nat
    BY <1>1, <2>1, <2>2 DEF AsWanted
  <2>5. total = ret
    BY <2>1, <2>4 DEF TotalAgrees
  <2>6. CASE files_with_matches /\ Hit
    BY <1>1, <2>1, <2>5, <2>6 DEF AsWanted, ReportsExactly
  <2>7. CASE files_with_matches /\ ~Hit
    <3>1. Wanted = <<>> /\ Len(Wanted) = 0
      BY <2>3, <2>7 DEF Hit
    <3>2. ~count_only => Pieces(Wanted) = <<>>
      BY <2>2, <3>1, PiecesAre
    <3> QED BY <1>1, <2>1, <2>5, <2>7, <3>1, <3>2 DEF AsWanted, ReportsExactly
  <2>8. CASE ~files_with_matches
    BY <1>1, <2>1, <2>5, <2>8 DEF AsWanted, ReportsExactly
  <2> QED BY <2>6, <2>7, <2>8
<1>2. RepInv => ReportsExactly
  BY <1>1 DEF ReportsExactly
<1> QED BY SearchReports, <1>2, PTL

\* Whichever allocation fails, what is shown begins the report of the first
\* lines wanted, with -c too, and of all of them unless the array could not
\* grow, for every file and every NUM that an int can hold (searcher.c:21,
\* 40-62, 172-199, 252-343).
THEOREM SearchTruncatedNotGarbled == SSpec => []TruncatedNotGarbled
<1>1. ASSUME RepInv PROVE TruncatedNotGarbled
  <2>1. CASE shown = <<>>
    <3>1. size \in Nat /\ request \in Nat
      BY <1>1, Sizes DEF RepInv, Scanned
    <3>2. Wanted \in Seq(Nat) /\ Len(Wanted) \in Nat /\ Begins(Wanted, Wanted)
      BY <3>1, WantedIs DEF Begins
    <3>3. SubSeq(Wanted, 1, Len(Wanted)) = Wanted
      BY <3>2, BeginsIsFirst
    <3>4. Pieces(Wanted) \in Seq(AnyPiece) /\ Len(Pieces(Wanted)) \in Nat
      BY <3>2, PiecesAre
    <3>5. <<>> \in Seq(AnyPiece) /\ Begins(<<>>, Pieces(Wanted))
      BY <3>4, EmptySeq DEF Begins
    <3>6. IsPrefix(<<>>, Pieces(Wanted))
      BY <3>4, <3>5, BeginsIsPrefix
    <3> DEFINE k == Len(Wanted)
    <3>7. SubSeq(Wanted, 1, k) = Wanted
      BY <3>3
    <3>8. k \in 0..Len(Wanted) /\ ~(k < Len(Wanted))
      BY <3>2
    <3> HIDE DEF k
    <3>9. Pieces(SubSeq(Wanted, 1, k)) = Pieces(Wanted)
      BY <3>7
    <3> QED BY <2>1, <3>6, <3>8, <3>9 DEF TruncatedNotGarbled
  <2>2. CASE shown # <<>>
    <3>1. pc = "done"
      BY <1>1, <2>2 DEF RepInv, SInv, Unfinished
    <3> QED BY <1>1, <2>2, <3>1 DEF RepInv, Reported
  <2> QED BY <2>1, <2>2
<1> QED BY SearchReports, <1>1, PTL

=============================================================================
