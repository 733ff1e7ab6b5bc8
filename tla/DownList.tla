------------------------------ MODULE DownList ------------------------------
(***************************************************************************)
(* The list of nodes that did not answer, WorkingBlockHeader.Down.  The    *)
(* manager of the block headers fills it reply by reply, without the lock, *)
(* while consensusMonitor appends failures of its own to the same slice    *)
(* (consensus-monitor.go:53).  A Go slice is an array, a length and a      *)
(* capacity: an append writes into the array if there is room, and into a  *)
(* new one of twice the size if not.  consensusMonitor keeps the result to *)
(* itself, but what it writes in place is in the manager's array.          *)
(*                                                                         *)
(* Neither side is atomic.  The three words of the slice and the entry are *)
(* stored one after the other, and the three words are loaded one after    *)
(* the other, in an order that compiler and processor choose.              *)
(*                                                                         *)
(* Nodes are interchangeable here: an entry is "own" if the manager wrote  *)
(* it and "foreign" if some word of it is consensusMonitor's.              *)
(***************************************************************************)
EXTENDS Integers, Sequences

CONSTANT Replies    \* the number of nodes, hence of replies in a round

ASSUME RepliesAssumption == Replies \in Nat \ {0}

VARIABLES
  left, first,      \* the drain: replies to come, before the first of them
  failures,         \* failures among the replies seen (history)
  list, size,       \* the manager's array: the entries it has stored, its places
  todo,             \* the stores of its statement that are still to come
  slice,            \* the words of WorkingBlockHeader.Down
  loaded, header,   \* the words consensusMonitor has loaded, and what it found
  contested,        \* entries stored while consensusMonitor was appending (history)
  outside           \* it has accessed memory outside the array it loaded

downVars == <<left, first, failures, list, size, todo, slice, loaded, header,
              contested, outside>>

SliceWords == {"array", "len", "cap"}
Places == 0..2 * Replies
Slice == [array : [size : Places, current : BOOLEAN], len : 0..Replies, cap : Places]

\* current: the array is the one that the manager now fills.
NilSlice == [array |-> [size |-> 0, current |-> FALSE], len |-> 0, cap |-> 0]

Entries == UNION {[1..n -> {"own", "foreign"}] : n \in 0..Replies}

\* The length the manager's list has when its statement is complete.
Length == Len(list) + IF "entry" \in todo THEN 1 ELSE 0

DownTypeOK ==
  /\ left \in 0..Replies /\ first \in BOOLEAN
  /\ failures \in 0..Replies
  /\ list \in Entries /\ size \in Length..2 * Replies
  /\ todo \subseteq SliceWords \cup {"entry"}
  /\ slice \in Slice
  /\ loaded \subseteq SliceWords /\ header \in Slice
  /\ contested \subseteq 0..Replies
  /\ outside \in BOOLEAN

DownInit ==
  /\ left = 0 /\ first = TRUE /\ failures = 0
  /\ list = <<>> /\ size = 0 /\ todo = {}
  /\ slice = NilSlice
  /\ loaded = {} /\ header = NilSlice
  /\ contested = {}
  /\ outside = FALSE

-----------------------------------------------------------------------------
(* The manager.                                                            *)

\* The workers have answered; the drain begins.
BeginDrain ==
  /\ left = 0 /\ first
  /\ left' = Replies
  /\ failures' = 0
  /\ UNCHANGED <<first, list, size, todo, slice, loaded, header, contested, outside>>

\* The manager fills another array: a word loaded or not yet replaced is of the old.
Moved(s) == [s EXCEPT !.array.current = FALSE]

\* Down = []noReply{}, at the first reply, whether it failed or not: an array
\* without places.
Reset ==
  /\ left > 0 /\ first
  /\ first' = FALSE
  /\ list' = <<>> /\ size' = 0
  /\ todo' = SliceWords
  /\ slice' = Moved(slice) /\ header' = Moved(header)
  /\ contested' = {}
  /\ UNCHANGED <<left, failures, loaded, outside>>

\* The capacity of append: room for one, then doubled (past 32 places the runtime
\* rounds up a little further).
Grow(n) == IF n = 0 THEN 1 ELSE 2 * n

\* A reply that is no failure.
DrainReply ==
  /\ left > 0 /\ ~first /\ todo = {}
  /\ left' = left - 1
  /\ UNCHANGED <<first, failures, list, size, todo, slice, loaded, header, contested,
                 outside>>

\* Down = append(Down, noReply{...}) begins: growslice copies a full array.
DrainFailure ==
  LET full == Len(list) = size IN
    /\ left > 0 /\ ~first /\ todo = {}
    /\ left' = left - 1
    /\ failures' = failures + 1
    /\ size' = IF full THEN Grow(size) ELSE size
    /\ todo' = {"len", "entry"} \cup IF full THEN {"array", "cap"} ELSE {}
    /\ slice' = IF full THEN Moved(slice) ELSE slice
    /\ header' = IF full THEN Moved(header) ELSE header
    /\ contested' = contested \cup IF loaded # {} THEN {Len(list) + 1} ELSE {}
    /\ UNCHANGED <<first, list, loaded, outside>>

\* One store of the statement under way, in any order.
Store(w) ==
  LET own == [array |-> [size |-> size, current |-> TRUE], len |-> Length, cap |-> size] IN
    /\ w \in todo
    /\ todo' = todo \ {w}
    /\ IF w = "entry" THEN list' = Append(list, "own") /\ UNCHANGED slice
                      ELSE slice' = [slice EXCEPT ![w] = own[w]] /\ UNCHANGED list
    /\ UNCHANGED <<left, first, failures, size, loaded, header, contested, outside>>

\* blockHeaderCopy, under the lock, copies the entries for the reports.
PublishDown ==
  /\ left = 0 /\ ~first /\ todo = {}
  /\ first' = TRUE
  /\ UNCHANGED <<left, failures, list, size, todo, slice, loaded, header, contested, outside>>

-----------------------------------------------------------------------------
(* consensusMonitor, for a node that failed in its own round.               *)

\* One load of the three words, in any order.
Load(w) ==
  /\ w \in SliceWords \ loaded
  /\ loaded' = loaded \cup {w}
  /\ header' = [header EXCEPT ![w] = slice[w]]
  /\ contested' = contested \cup IF todo # {} THEN {Length} ELSE {}
  /\ UNCHANGED <<left, first, failures, list, size, todo, slice, outside>>

\* The new entry in the place of the last.
AppendForeignLast ==
  /\ loaded = SliceWords
  /\ list' = IF header.array.current /\ header.len \in DOMAIN list
               THEN [list EXCEPT ![header.len] = "foreign"] ELSE list
  /\ loaded' = {} /\ header' = NilSlice
  /\ UNCHANGED <<left, first, failures, size, todo, slice, contested, outside>>

\* The append: in place, or by copying to a new array of its own.  A place that
\* the manager has not filled yet is written again when it does, or by both at
\* once.  A length and an array that do not belong together reach past the end of
\* the array.
AppendForeign ==
  LET slot == header.len + 1
      inPlace == header.len < header.cap
      shared == inPlace /\ header.array.current
      reached == IF inPlace THEN slot ELSE header.len IN
    /\ loaded = SliceWords
    /\ \/ /\ list' = IF shared /\ slot \in DOMAIN list
                       THEN [list EXCEPT ![slot] = "foreign"] ELSE list
          /\ UNCHANGED todo
       \/ /\ shared /\ slot = Length /\ "entry" \in todo
          /\ list' = Append(list, "foreign")
          /\ todo' = todo \ {"entry"}
    /\ outside' = (outside \/ reached > header.array.size)
    /\ loaded' = {} /\ header' = NilSlice
    /\ UNCHANGED <<left, first, failures, size, slice, contested>>

\* An access outside the array is the end: what follows is not defined.
DownNext ==
  /\ ~outside
  /\ \/ BeginDrain \/ Reset \/ DrainReply \/ DrainFailure \/ PublishDown \/ AppendForeign
     \/ \E w \in SliceWords \cup {"entry"} : Store(w)
     \/ \E w \in SliceWords : Load(w)

DownSpec == DownInit /\ [][DownNext]_downVars

-----------------------------------------------------------------------------
\* The list that blockHeaderCopy publishes has one entry for each failure of the
\* round, and only an entry that the manager stored while consensusMonitor was in
\* the middle of an append of its own can be consensusMonitor's: an append that
\* ends before or begins after harms nothing, in whatever order the words are
\* stored and loaded and from however many rounds they stem.  No failure is safe
\* by its place in the list, the first included.
DownListKeepsFailures ==
  [][~first /\ first' =>
       /\ Len(list) = failures
       /\ \A i \in DOMAIN list : list[i] = "own" \/ i \in contested]_downVars
=============================================================================
