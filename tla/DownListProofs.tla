--------------------------- MODULE DownListProofs ---------------------------
(***************************************************************************)
(* The list of nodes that are down, for any number of replies: the stores  *)
(* of the manager and the loads of consensusMonitor in any order.          *)
(***************************************************************************)
EXTENDS DownList, TLAPS

(* The list is as long as the failures of the round are many, and the      *)
(* length in the slice is behind by at most the entry under way.           *)
Counted ==
  /\ Length <= Replies
  /\ failures + left <= Replies
  /\ first => todo = {}
  /\ first /\ left > 0 => failures = 0
  /\ ~first => Length = failures
  /\ IF "len" \in todo THEN Length \in {0, slice.len + 1} ELSE Length = slice.len

(* While consensusMonitor appends, the entry under way is contested, and   *)
(* so is every one past the length it loaded.                              *)
Contested ==
  /\ loaded # {} /\ todo # {} /\ Length > 0 => Length \in contested
  /\ "len" \in loaded => \A i \in DOMAIN list : i > header.len => i \in contested

ForeignContested == \A i \in DOMAIN list : list[i] = "own" \/ i \in contested

DownInv ==
  /\ DownTypeOK
  /\ Counted
  /\ Contested
  /\ ForeignContested

\* The empty list.
LEMMA EmptyList ==
  <<>> \in Seq({"own", "foreign"}) /\ Len(<<>>) = 0 /\ DOMAIN <<>> = {}
<1>1. <<>> \in Seq({"own", "foreign"})
  OBVIOUS
<1>2. Len(<<>>) = 0
  OBVIOUS
<1>3. DOMAIN <<>> = {}
  OBVIOUS
<1> QED
  BY <1>1, <1>2, <1>3

\* The lists are the sequences of at most Replies entries.
LEMMA EntriesFacts ==
  ASSUME NEW l
  PROVE  l \in Entries <=> l \in Seq({"own", "foreign"}) /\ Len(l) <= Replies
<1>1. ASSUME l \in Entries PROVE l \in Seq({"own", "foreign"}) /\ Len(l) <= Replies
  <2>1. PICK n \in 0..Replies : l \in [1..n -> {"own", "foreign"}]
    BY <1>1 DEF Entries
  <2>2. l \in Seq({"own", "foreign"}) /\ Len(l) = n
    BY <2>1, RepliesAssumption
  <2> QED
    BY <2>2, RepliesAssumption
<1>2. ASSUME l \in Seq({"own", "foreign"}), Len(l) <= Replies PROVE l \in Entries
  <2>1. Len(l) \in 0..Replies /\ l \in [1..Len(l) -> {"own", "foreign"}]
    BY <1>2, RepliesAssumption
  <2> QED
    BY <2>1 DEF Entries
<1> QED
  BY <1>1, <1>2

\* What the list and its lengths are.
LEMMA DownFacts ==
  ASSUME DownInv
  PROVE  /\ list \in Seq({"own", "foreign"}) /\ Len(list) \in Nat /\ DOMAIN list = 1..Len(list)
         /\ Length = (IF "entry" \in todo THEN Len(list) + 1 ELSE Len(list))
         /\ Length \in 0..Replies /\ Replies \in Nat
         /\ slice \in Slice /\ slice.len \in Nat /\ header \in Slice /\ header.len \in Nat
<1>1. list \in Seq({"own", "foreign"})
  BY EntriesFacts DEF DownInv, DownTypeOK
<1>2. Len(list) \in Nat /\ DOMAIN list = 1..Len(list)
  BY <1>1
<1>3. Length = (IF "entry" \in todo THEN Len(list) + 1 ELSE Len(list))
  BY <1>2 DEF Length
<1>4. Length \in 0..Replies /\ Replies \in Nat
  <2>1. Length <= Replies
    BY Zenon DEF DownInv, Counted
  <2>2. Length \in Nat
    <3>1. Len(list) \in Nat /\ Len(list) + 1 \in Nat
      BY <1>2
    <3> QED
      BY <1>3, <3>1, Zenon
  <2> QED
    BY <2>1, <2>2, RepliesAssumption
<1>5. slice \in Slice /\ header \in Slice
  BY DEF DownInv, DownTypeOK
<1>6. slice.len \in 0..Replies /\ header.len \in 0..Replies
  BY <1>5 DEF Slice
<1>7. slice.len \in Nat /\ header.len \in Nat
  BY <1>4, <1>6
<1> QED
  BY <1>1, <1>2, <1>3, <1>4, <1>5, <1>7, Zenon

\* A slice of another array has the same length.
LEMMA MovedFacts ==
  ASSUME NEW s \in Slice
  PROVE  Moved(s) \in Slice /\ Moved(s).len = s.len
<1> DEFINE a == [s.array EXCEPT !.current = FALSE]
<1>1. s.array \in [size : Places, current : BOOLEAN] /\ s.len \in 0..Replies /\ s.cap \in Places
  BY DEF Slice
<1>2. a \in [size : Places, current : BOOLEAN]
  BY <1>1
<1>3. Moved(s) = [s EXCEPT !.array = a]
  BY Zenon DEF Moved
<1> HIDE DEF a
<1> QED
  BY <1>1, <1>2, <1>3 DEF Slice

\* The nil slice.
LEMMA NilFacts == NilSlice \in Slice /\ NilSlice.len = 0
<1>1. 0 \in 0..Replies /\ 0 \in Places
  BY RepliesAssumption DEF Places
<1>2. [size |-> 0, current |-> FALSE] \in [size : Places, current : BOOLEAN]
  BY <1>1
<1>3. NilSlice \in Slice
  BY <1>1, <1>2, Zenon DEF NilSlice, Slice
<1> QED
  BY <1>3 DEF NilSlice

\* The round begins, a reply is no failure, or the list is published: the list and
\* the slice are left alone.
LEMMA CountInv ==
  ASSUME DownInv, BeginDrain \/ DrainReply \/ PublishDown
  PROVE  DownInv'
<1>1. UNCHANGED <<list, size, todo, slice, loaded, header, contested, outside>>
  BY Zenon DEF BeginDrain, DrainReply, PublishDown
<1>2. Length' = Length
  BY <1>1 DEF Length
<1>3. left \in 0..Replies /\ failures \in 0..Replies /\ Replies \in Nat /\ Length \in Nat
  BY DownFacts DEF DownInv, DownTypeOK
<1>4. /\ left' \in 0..Replies /\ failures' \in 0..Replies /\ first' \in BOOLEAN
      /\ failures' + left' <= Replies
      /\ first' => todo = {}
      /\ first' /\ left' > 0 => failures' = 0
      /\ ~first' => Length = failures'
  <2>1. CASE BeginDrain
    BY <1>3, <2>1 DEF BeginDrain, DownInv, DownTypeOK, Counted
  <2>2. CASE DrainReply
    BY <1>3, <2>2 DEF DrainReply, DownInv, DownTypeOK, Counted
  <2>3. CASE PublishDown
    BY <1>3, <2>3 DEF PublishDown, DownInv, DownTypeOK, Counted
  <2> QED
    BY <2>1, <2>2, <2>3
<1>5. DownTypeOK' /\ Counted'
  BY <1>1, <1>2, <1>4 DEF DownInv, DownTypeOK, Counted
<1>6. Contested' /\ ForeignContested'
  BY <1>1, <1>2 DEF DownInv, Contested, ForeignContested
<1> QED
  BY <1>5, <1>6 DEF DownInv

\* The list is emptied at the first reply.
LEMMA ResetInv ==
  ASSUME DownInv, Reset
  PROVE  DownInv'
<1>1. /\ left > 0 /\ first /\ first' = FALSE /\ list' = <<>> /\ size' = 0 /\ todo' = SliceWords
      /\ slice' = Moved(slice) /\ header' = Moved(header) /\ contested' = {}
      /\ UNCHANGED <<left, failures, loaded, outside>>
  BY DEF Reset
<1>2. Len(list') = 0 /\ DOMAIN list' = {} /\ list' \in Seq({"own", "foreign"})
  BY <1>1, EmptyList
<1>3. Length' = 0 /\ "len" \in todo'
  BY <1>1, <1>2 DEF Length, SliceWords
<1>4. slice' \in Slice /\ header' \in Slice
  BY <1>1, DownFacts, MovedFacts
<1>5. Replies \in Nat /\ list' \in Entries
  <2>1. Replies \in Nat /\ Len(list') <= Replies
    BY <1>2, RepliesAssumption
  <2> QED
    BY <1>2, <2>1, EntriesFacts, Zenon
<1>6. DownTypeOK'
  <2>1. size' \in Length'..2 * Replies
    BY <1>1, <1>3, <1>5
  <2> QED
    BY <1>1, <1>4, <1>5, <2>1 DEF DownInv, DownTypeOK
<1>7. Counted'
  <2>1. failures = 0 /\ failures + left <= Replies
    BY <1>1 DEF DownInv, Counted
  <2> QED
    BY <1>1, <1>3, <1>5, <2>1 DEF Counted
<1>8. Contested' /\ ForeignContested'
  BY <1>2, <1>3 DEF Contested, ForeignContested
<1> QED
  BY <1>6, <1>7, <1>8 DEF DownInv

\* An append by the manager begins: there is room for the entry, in the array or in
\* the one that growslice made.
LEMMA FailureInv ==
  ASSUME DownInv, DrainFailure
  PROVE  DownInv'
<1> DEFINE full == Len(list) = size
<1>1. /\ left > 0 /\ ~first /\ todo = {} /\ left' = left - 1 /\ failures' = failures + 1
      /\ size' = (IF full THEN Grow(size) ELSE size)
      /\ todo' = {"len", "entry"} \cup (IF full THEN {"array", "cap"} ELSE {})
      /\ slice' = (IF full THEN Moved(slice) ELSE slice)
      /\ header' = (IF full THEN Moved(header) ELSE header)
      /\ contested' = contested \cup (IF loaded # {} THEN {Len(list) + 1} ELSE {})
      /\ UNCHANGED <<first, list, loaded, outside>>
  BY DEF DrainFailure
<1>2. /\ Len(list) \in Nat /\ DOMAIN list = 1..Len(list) /\ Length = Len(list)
      /\ Replies \in Nat
  BY <1>1, DownFacts
<1> DEFINE n == Len(list)
<1>a. /\ left > 0 /\ left' = left - 1 /\ failures' = failures + 1 /\ n \in Nat /\ Replies \in Nat
      /\ (n = size => size' = Grow(size)) /\ (n # size => size' = size)
  BY <1>1, <1>2
<1>3. /\ left \in 0..Replies /\ failures \in 0..Replies /\ failures + left <= Replies
      /\ failures = Len(list) /\ slice.len = Len(list) /\ size \in Len(list)..2 * Replies
  BY <1>1, <1>2 DEF DownInv, DownTypeOK, Counted
<1>4. "entry" \in todo' /\ "len" \in todo' /\ todo' \subseteq SliceWords \cup {"entry"}
  BY <1>1 DEF SliceWords
<1>5. Length' = Len(list) + 1
  BY <1>1, <1>4 DEF Length
<1>6. /\ slice' \in Slice /\ slice'.len = slice.len
      /\ header' \in Slice /\ header'.len = header.len
  <2>1. CASE full
    BY <1>1, <2>1, DownFacts, MovedFacts
  <2>2. CASE ~full
    BY <1>1, <2>2, DownFacts
  <2> QED
    BY <2>1, <2>2
<1>b. /\ left \in 0..Replies /\ failures = n /\ failures + left <= Replies
      /\ size \in n..2 * Replies
  BY <1>3
<1> HIDE DEF n
<1>7. n + 1 <= Replies
  BY <1>a, <1>b
<1>8. size' \in (n + 1)..2 * Replies
  <2>1. CASE n = size
    BY <1>a, <1>b, <1>7, <2>1 DEF Grow
  <2>2. CASE n # size
    BY <1>a, <1>b, <2>2
  <2> QED
    BY <2>1, <2>2
<1>9. contested' \subseteq 0..Replies
  <2>1. n + 1 \in 0..Replies
    BY <1>a, <1>7
  <2> QED
    BY <1>1, <2>1, Zenon DEF DownInv, DownTypeOK, n
<1>10. left' \in 0..Replies /\ failures' \in 0..Replies /\ failures' + left' <= Replies
  BY <1>a, <1>b
<1> USE DEF n
<1>11. DownTypeOK'
  BY <1>1, <1>4, <1>5, <1>6, <1>8, <1>9, <1>10 DEF DownInv, DownTypeOK
<1>12. Counted'
  BY <1>1, <1>3, <1>4, <1>5, <1>6, <1>7, <1>10 DEF Counted
<1>13. Contested'
  <2>1. loaded' # {} => Length' \in contested'
    BY <1>1, <1>5
  <2>2. "len" \in loaded' => \A i \in DOMAIN list' : i > header'.len => i \in contested'
    BY <1>1, <1>6 DEF DownInv, Contested
  <2> QED
    BY <2>1, <2>2 DEF Contested
<1>14. ForeignContested'
  BY <1>1 DEF DownInv, ForeignContested
<1> QED
  BY <1>11, <1>12, <1>13, <1>14 DEF DownInv

\* The list with the entry that was under way.
LEMMA AppendFacts ==
  ASSUME DownInv, "entry" \in todo, NEW e \in {"own", "foreign"}
  PROVE  /\ Append(list, e) \in Entries /\ Len(Append(list, e)) = Length
         /\ DOMAIN Append(list, e) = 1..Length
         /\ \A i \in 1..Length : Append(list, e)[i] = IF i \in DOMAIN list THEN list[i] ELSE e
         /\ \A i \in 1..Length : i \in DOMAIN list \/ i = Length
<1>1. /\ list \in Seq({"own", "foreign"}) /\ Len(list) \in Nat /\ DOMAIN list = 1..Len(list)
      /\ Length = Len(list) + 1 /\ Length <= Replies
  BY DownFacts
<1>2. /\ Append(list, e) \in Seq({"own", "foreign"}) /\ Len(Append(list, e)) = Len(list) + 1
      /\ DOMAIN Append(list, e) = 1..(Len(list) + 1)
      /\ \A i \in 1..(Len(list) + 1) : Append(list, e)[i] = IF i <= Len(list) THEN list[i] ELSE e
  BY <1>1
<1>3. Append(list, e) \in Entries
  BY <1>1, <1>2, EntriesFacts, Zenon
<1>4. \A i \in 1..Length : (i \in DOMAIN list <=> i <= Len(list)) /\ (i \in DOMAIN list \/ i = Length)
  BY <1>1
<1> QED
  BY <1>1, <1>2, <1>3, <1>4

\* The entry is stored: it is the manager's own, or, where consensusMonitor stores at
\* once, contested.
LEMMA EntryInv ==
  ASSUME DownInv, "entry" \in todo, NEW e \in {"own", "foreign"},
         list' = Append(list, e), todo' = todo \ {"entry"},
         e = "foreign" => loaded # {},
         \/ loaded' = loaded /\ header' = header
         \/ loaded' = {} /\ header' = NilSlice,
         outside' \in BOOLEAN,
         UNCHANGED <<left, first, failures, size, slice, contested>>
  PROVE  DownInv'
<1>1. /\ list' \in Entries /\ Len(list') = Length /\ DOMAIN list' = 1..Length
      /\ \A i \in 1..Length : list'[i] = IF i \in DOMAIN list THEN list[i] ELSE e
      /\ \A i \in 1..Length : i \in DOMAIN list \/ i = Length
  BY AppendFacts
<1>2. Length \in 0..Replies /\ Replies \in Nat
  BY DownFacts
<1>3. Length' = Length
  BY <1>1, <1>2 DEF Length
<1>4. "len" \in todo' <=> "len" \in todo
  OBVIOUS
<1>5. header' \in Slice /\ loaded' \subseteq SliceWords
  BY NilFacts DEF DownInv, DownTypeOK
<1>6. DownTypeOK'
  BY <1>1, <1>3, <1>5 DEF DownInv, DownTypeOK
<1>7. Counted'
  BY <1>3, <1>4 DEF DownInv, Counted
<1>8. loaded # {} /\ Length > 0 => Length \in contested
  BY DEF DownInv, Contested
<1>9. Contested'
  <2>1. loaded' # {} /\ Length' > 0 => Length' \in contested'
    BY <1>3, <1>8
  <2>2. ASSUME "len" \in loaded', NEW i \in 1..Length, i > header'.len
        PROVE  i \in contested'
    <3>1. header' = header /\ loaded' = loaded /\ "len" \in loaded
      BY <2>2
    <3>2. CASE i \in DOMAIN list
      BY <2>2, <3>1, <3>2 DEF DownInv, Contested
    <3>3. CASE i = Length
      BY <1>2, <1>8, <2>2, <3>1, <3>3
    <3> QED
      BY <1>1, <3>2, <3>3
  <2> QED
    BY <1>1, <2>1, <2>2 DEF Contested
<1>10. ForeignContested'
  <2> SUFFICES ASSUME NEW i \in 1..Length
               PROVE  list'[i] = "own" \/ i \in contested'
    BY <1>1 DEF ForeignContested
  <2>1. CASE i \in DOMAIN list
    BY <1>1, <2>1 DEF DownInv, ForeignContested
  <2>2. CASE i \notin DOMAIN list
    BY <1>1, <1>2, <1>8, <2>2
  <2> QED
    BY <2>1, <2>2
<1> QED
  BY <1>6, <1>7, <1>9, <1>10 DEF DownInv

\* A word of the manager's slice is stored.
LEMMA StoreInv ==
  ASSUME DownInv, NEW w \in SliceWords \cup {"entry"}, Store(w)
  PROVE  DownInv'
<1>1. CASE w = "entry"
  <2>1. /\ list' = Append(list, "own") /\ todo' = todo \ {"entry"} /\ "entry" \in todo
        /\ loaded' = loaded /\ header' = header /\ outside' = outside
        /\ UNCHANGED <<left, first, failures, size, slice, contested>>
    BY <1>1 DEF Store
  <2>2. outside' \in BOOLEAN
    BY <2>1 DEF DownInv, DownTypeOK
  <2>3. "own" \in {"own", "foreign"} /\ ("own" = "foreign" => loaded # {})
    OBVIOUS
  <2> QED
    BY <2>1, <2>2, <2>3, EntryInv, Zenon
<1>2. CASE w # "entry"
  <2> DEFINE a == [size |-> size, current |-> TRUE]
             own == [array |-> a, len |-> Length, cap |-> size]
  <2>1. /\ w \in todo /\ todo' = todo \ {w} /\ list' = list
        /\ slice' = [slice EXCEPT ![w] = own[w]]
        /\ UNCHANGED <<left, first, failures, size, loaded, header, contested, outside>>
    BY <1>2 DEF Store
  <2>2. Length' = Length
    BY <1>2, <2>1 DEF Length
  <2>3. Length \in 0..Replies /\ Replies \in Nat /\ slice \in Slice
    BY DownFacts
  <2>4. size \in Places
    BY <2>3 DEF DownInv, DownTypeOK, Places
  <2>5. a \in [size : Places, current : BOOLEAN]
    BY <2>4
  <2> HIDE DEF a
  <2>6. own["array"] = a /\ own["len"] = Length /\ own["cap"] = size
    OBVIOUS
  <2> HIDE DEF own
  <2>7. slice' \in Slice /\ slice'.len = IF w = "len" THEN Length ELSE slice.len
    <3>1. CASE w = "array"
      BY <2>1, <2>3, <2>5, <2>6, <3>1 DEF Slice
    <3>2. CASE w = "len"
      BY <2>1, <2>3, <2>6, <3>2 DEF Slice
    <3>3. CASE w = "cap"
      BY <2>1, <2>3, <2>4, <2>6, <3>3 DEF Slice
    <3> QED
      BY <1>2, <3>1, <3>2, <3>3 DEF SliceWords
  <2>8. DownTypeOK'
    BY <2>1, <2>2, <2>7 DEF DownInv, DownTypeOK
  <2>9. Counted'
    BY <2>1, <2>2, <2>3, <2>7 DEF DownInv, Counted
  <2>10. Contested' /\ ForeignContested'
    BY <2>1, <2>2 DEF DownInv, Contested, ForeignContested
  <2> QED
    BY <2>8, <2>9, <2>10 DEF DownInv
<1> QED
  BY <1>1, <1>2

\* A word of the slice is loaded.
LEMMA LoadInv ==
  ASSUME DownInv, NEW w \in SliceWords, Load(w)
  PROVE  DownInv'
<1>1. /\ loaded' = loaded \cup {w} /\ header' = [header EXCEPT ![w] = slice[w]]
      /\ contested' = contested \cup (IF todo # {} THEN {Length} ELSE {})
      /\ UNCHANGED <<left, first, failures, list, size, todo, slice, outside>>
  BY DEF Load
<1>2. Length' = Length
  BY <1>1 DEF Length
<1>3. /\ Length \in 0..Replies /\ Replies \in Nat /\ slice \in Slice /\ header \in Slice
      /\ Len(list) \in Nat /\ DOMAIN list = 1..Len(list) /\ Len(list) <= Length
      /\ ("entry" \notin todo => Len(list) = Length)
      /\ slice.len \in Nat
  BY DownFacts
<1>4. header' \in Slice /\ header'.len = IF w = "len" THEN slice.len ELSE header.len
  <2>1. CASE w = "array"
    BY <1>1, <1>3, <2>1 DEF Slice
  <2>2. CASE w = "len"
    BY <1>1, <1>3, <2>2 DEF Slice
  <2>3. CASE w = "cap"
    BY <1>1, <1>3, <2>3 DEF Slice
  <2> QED
    BY <2>1, <2>2, <2>3 DEF SliceWords
<1>5. contested' \subseteq 0..Replies /\ loaded' \subseteq SliceWords
  BY <1>1, <1>3 DEF DownInv, DownTypeOK
<1>6. DownTypeOK'
  BY <1>1, <1>2, <1>4, <1>5 DEF DownInv, DownTypeOK
<1>7. Counted'
  BY <1>1, <1>2 DEF DownInv, Counted
<1>8. Contested'
  <2>1. todo' # {} => Length' \in contested'
    BY <1>1, <1>2
  <2>2. ASSUME "len" \in loaded', NEW i \in DOMAIN list, i > header'.len
        PROVE  i \in contested'
    <3>1. CASE w # "len"
      BY <1>1, <1>4, <2>2, <3>1 DEF DownInv, Contested
    <3>2. CASE w = "len"
      <4>1. i > slice.len /\ i \in 1..Len(list)
        BY <1>3, <1>4, <2>2, <3>2
      <4>2. "len" \in todo /\ Length = slice.len + 1
        <5>1. IF "len" \in todo THEN Length \in {0, slice.len + 1} ELSE Length = slice.len
          BY Zenon DEF DownInv, Counted
        <5> DEFINE n == Len(list)
                   m == slice.len
        <5>a. i > m /\ i \in 1..n /\ n \in Nat /\ m \in Nat /\ n <= Length /\ Length \in 0..Replies
          BY <1>3, <4>1, Zenon
        <5> HIDE DEF n, m
        <5>b. Replies \in Nat
          BY RepliesAssumption
        <5>2. Length # slice.len /\ Length # 0
          BY <5>a, <5>b DEF m
        <5> QED
          BY <5>1, <5>2, Zenon
      <4>3. i = Length
        BY <1>3, <4>1, <4>2
      <4> QED
        BY <1>1, <4>2, <4>3
    <3> QED
      BY <3>1, <3>2
  <2> QED
    BY <1>1, <2>1, <2>2 DEF Contested
<1>9. ForeignContested'
  BY <1>1 DEF DownInv, ForeignContested
<1> QED
  BY <1>6, <1>7, <1>8, <1>9 DEF DownInv

\* consensusMonitor's append: the entry it may replace is past the length it loaded.
LEMMA AppendForeignInv ==
  ASSUME DownInv, AppendForeign
  PROVE  DownInv'
<1> DEFINE slot == header.len + 1
<1>1. /\ loaded = SliceWords /\ loaded' = {} /\ header' = NilSlice
      /\ UNCHANGED <<left, first, failures, size, slice, contested>>
  BY DEF AppendForeign
<1>2. outside' \in BOOLEAN
  BY DEF AppendForeign, DownInv, DownTypeOK
<1>3. loaded # {} /\ "len" \in loaded
  BY <1>1 DEF SliceWords
<1>4. /\ list \in Seq({"own", "foreign"}) /\ Len(list) \in Nat /\ DOMAIN list = 1..Len(list)
      /\ header.len \in Nat
  BY DownFacts
<1>5. CASE todo' = todo /\ list' = list
  <2>1. Length' = Length
    BY <1>5 DEF Length
  <2>2. DownTypeOK'
    BY <1>1, <1>2, <1>5, <2>1, NilFacts DEF DownInv, DownTypeOK
  <2>3. Counted'
    BY <1>1, <1>5, <2>1 DEF DownInv, Counted
  <2>4. Contested' /\ ForeignContested'
    BY <1>1, <1>5 DEF DownInv, Contested, ForeignContested
  <2> QED
    BY <2>2, <2>3, <2>4 DEF DownInv
<1>6. CASE todo' = todo /\ slot \in DOMAIN list /\ list' = [list EXCEPT ![slot] = "foreign"]
  <2>1. /\ list' \in Seq({"own", "foreign"}) /\ Len(list') = Len(list) /\ DOMAIN list' = DOMAIN list
        /\ \A i \in DOMAIN list : list'[i] = IF i = slot THEN "foreign" ELSE list[i]
    BY <1>4, <1>6
  <2>2. Length' = Length
    BY <1>6, <2>1 DEF Length
  <2>3. list' \in Entries
    BY <2>1, EntriesFacts DEF DownInv, DownTypeOK
  <2>4. DownTypeOK'
    BY <1>1, <1>2, <1>6, <2>2, <2>3, NilFacts DEF DownInv, DownTypeOK
  <2>5. Counted'
    BY <1>1, <1>6, <2>2 DEF DownInv, Counted
  <2>6. slot \in contested
    BY <1>3, <1>4, <1>6 DEF DownInv, Contested
  <2>7. Contested' /\ ForeignContested'
    BY <1>1, <2>1, <2>6 DEF DownInv, Contested, ForeignContested
  <2> QED
    BY <2>4, <2>5, <2>7 DEF DownInv
<1>7. CASE "entry" \in todo /\ list' = Append(list, "foreign") /\ todo' = todo \ {"entry"}
  <2>1. "foreign" \in {"own", "foreign"}
    OBVIOUS
  <2> QED
    BY <1>1, <1>2, <1>3, <1>7, <2>1, EntryInv, Zenon
<1> QED
  BY <1>5, <1>6, <1>7, Zenon DEF AppendForeign

\* Every step of the manager and of consensusMonitor keeps DownInv.
LEMMA DownStep ==
  ASSUME DownInv, DownNext
  PROVE  DownInv'
<1>1. ASSUME NEW w \in SliceWords \cup {"entry"}, Store(w) PROVE DownInv'
  BY <1>1, StoreInv
<1>2. ASSUME NEW w \in SliceWords, Load(w) PROVE DownInv'
  BY <1>2, LoadInv
<1> QED
  BY <1>1, <1>2, CountInv, ResetInv, FailureInv, AppendForeignInv DEF DownNext

\* The list begins empty.
LEMMA DownInitial ==
  ASSUME DownInit
  PROVE  DownInv
<1>1. /\ left = 0 /\ first = TRUE /\ failures = 0 /\ list = <<>> /\ size = 0 /\ todo = {}
      /\ slice = NilSlice /\ loaded = {} /\ header = NilSlice /\ contested = {}
      /\ outside = FALSE
  BY DEF DownInit
<1>2. Len(list) = 0 /\ DOMAIN list = {} /\ list \in Seq({"own", "foreign"})
  BY <1>1, EmptyList
<1>3. Length = 0 /\ Replies \in Nat
  BY <1>1, <1>2, RepliesAssumption DEF Length
<1>4. list \in Entries
  <2>1. Len(list) <= Replies
    BY <1>2, <1>3
  <2> QED
    BY <1>2, <2>1, EntriesFacts, Zenon
<1>5. DownTypeOK
  <2>1. 0 \in 0..Replies /\ size \in Length..2 * Replies
    BY <1>1, <1>3
  <2> QED
    BY <1>1, <1>4, <2>1, NilFacts DEF DownTypeOK
<1>6. Counted
  BY <1>1, <1>3, NilFacts DEF Counted
<1>7. Contested /\ ForeignContested
  BY <1>1, <1>2 DEF Contested, ForeignContested
<1> QED
  BY <1>5, <1>6, <1>7 DEF DownInv

\* DownInv holds of every state of the list.
THEOREM DownInductive == DownSpec => []DownInv
<1>1. DownInit => DownInv
  BY DownInitial
<1>2. DownInv /\ [DownNext]_downVars => DownInv'
  <2>1. CASE DownNext
    BY <2>1, DownStep
  <2>2. CASE UNCHANGED downVars
    <3>1. Length' = Length
      BY <2>2 DEF downVars, Length
    <3> QED
      BY <2>2, <3>1 DEF downVars, DownInv, DownTypeOK, Counted, Contested, ForeignContested
  <2> QED
    BY <2>1, <2>2
<1> QED
  BY <1>1, <1>2, PTL DEF DownSpec

\* A published list of the nodes that are down has an entry for each failure of its
\* round, and one that is not the manager's was stored while consensusMonitor was
\* appending: for any number of nodes, and any order of the stores and the loads.
THEOREM DownListKept == DownSpec => DownListKeepsFailures
<1>1. ASSUME DownInv, [DownNext]_downVars, ~first /\ first'
      PROVE  /\ Len(list) = failures
             /\ \A i \in DOMAIN list : list[i] = "own" \/ i \in contested
  <2>1. PublishDown
    BY <1>1, Zenon DEF downVars, DownNext, BeginDrain, Reset, DrainReply, DrainFailure,
       AppendForeign, Store, Load
  <2>2. todo = {} /\ Length = failures
    BY <1>1, <2>1 DEF PublishDown, DownInv, Counted
  <2>3. Length = Len(list)
    BY <1>1, <2>2, DownFacts
  <2> QED
    BY <1>1, <2>2, <2>3 DEF DownInv, ForeignContested
<1>2. DownInv /\ [DownNext]_downVars =>
        [~first /\ first' =>
           /\ Len(list) = failures
           /\ \A i \in DOMAIN list : list[i] = "own" \/ i \in contested]_downVars
  BY <1>1
<1> QED
  BY <1>2, DownInductive, PTL DEF DownSpec, DownListKeepsFailures
=============================================================================
