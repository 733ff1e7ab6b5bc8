------------------------------ MODULE Committee ------------------------------
(***************************************************************************)
(* The staking committee.  The manager of the block headers starts a       *)
(* goroutine stakingCommitteeUpdate when it sees a new epoch, and update   *)
(* starts one at the beginning.  Each asks a node and stores the answer in *)
(* SuperCommittee, without the lock and in several words; the status       *)
(* report reads two of them, also without the lock.                        *)
(*                                                                         *)
(* A committee is the epoch it belongs to.                                 *)
(***************************************************************************)
EXTENDS Integers

CONSTANT MaxEpoch      \* bound on the chain's epoch

ASSUME MaxEpochAssumption == MaxEpoch \in Nat \ {0}

VARIABLES
  epoch,               \* the chain's
  prevEpoch,           \* the manager's
  started,             \* number of updates started
  updates,             \* the goroutines, in the order they were started
  committee,           \* m.SuperCommittee.CurrentCommittee
  clashed,             \* two updates wrote at once, none alone since (history)
  status               \* a status report under construction

committeeVars == <<epoch, prevEpoch, started, updates, committee, clashed, status>>

NoCommittee == 0                     \* the zero value, also of an invalid answer
Committees == NoCommittee..MaxEpoch
Words == {"deciders", "count"}       \* Deciders, ExternalCount
Ids == 1..MaxEpoch + 1

\* left: the words still to be written.
Update == [pc : {"off", "ask", "write", "done", "failed"}, answer : Committees,
           left : SUBSET Words]
Off    == [pc |-> "off", answer |-> NoCommittee, left |-> {}]
Asking == [pc |-> "ask", answer |-> NoCommittee, left |-> {}]

\* disturbed: a write was under way, or happened, or two had left a mixture.
Status == [pc : {"idle", "half", "sent"}, deciders : Committees, count : Committees,
           disturbed : BOOLEAN]
NoStatus == [pc |-> "idle", deciders |-> NoCommittee, count |-> NoCommittee,
             disturbed |-> FALSE]

CommitteeTypeOK ==
  /\ epoch \in 1..MaxEpoch
  /\ prevEpoch \in 0..epoch
  /\ started \in Ids /\ started <= prevEpoch + 1
  /\ updates \in [Ids -> Update]
  /\ \A i \in Ids : updates[i] = Off <=> i > started
  /\ committee \in [Words -> Committees]
  /\ clashed \in BOOLEAN
  /\ status \in Status

\* update starts one goroutine.  Its node may know any epoch.
CommitteeInit ==
  /\ epoch = 1 /\ prevEpoch = 0
  /\ started = 1
  /\ updates = [i \in Ids |-> IF i = 1 THEN Asking ELSE Off]
  /\ committee = [w \in Words |-> NoCommittee]
  /\ clashed = FALSE
  /\ status = NoStatus

-----------------------------------------------------------------------------
NewEpoch ==
  /\ epoch < MaxEpoch
  /\ epoch' = epoch + 1
  /\ UNCHANGED <<prevEpoch, started, updates, committee, clashed, status>>

\* The manager's test, in the critical section that publishes the headers.  e is
\* the epoch of the first header of shard 0: of a node that may lag, or 0 from an
\* answer that is no header.
EpochOfHeader(e) ==
  /\ e \in 0..epoch
  /\ e > prevEpoch
  /\ prevEpoch' = e
  /\ started' = started + 1
  /\ updates' = [updates EXCEPT ![started + 1] = Asking]
  /\ UNCHANGED <<epoch, committee, clashed, status>>

\* The request of update i fails: it returns, and nobody asks again.
UpdateFails(i) ==
  /\ updates[i].pc = "ask"
  /\ updates' = [updates EXCEPT ![i].pc = "failed"]
  /\ UNCHANGED <<epoch, prevEpoch, started, committee, clashed, status>>

\* The node answers with the committee it knows, or with something else.
UpdateAnswered(i, a) ==
  /\ updates[i].pc = "ask"
  /\ a \in 0..epoch
  /\ updates' = [updates EXCEPT ![i] = [@ EXCEPT !.pc = "write", !.answer = a, !.left = Words]]
  /\ UNCHANGED <<epoch, prevEpoch, started, committee, clashed, status>>

HalfWritten(i) == updates[i].pc = "write" /\ updates[i].left # Words

\* The count is forgotten.
WriteDeciders(i, w) ==
  /\ updates[i].pc = "write" /\ w \in updates[i].left
  /\ committee' = [committee EXCEPT !["deciders"] = updates[i].answer]
  /\ updates' = [updates EXCEPT ![i] = [@ EXCEPT !.left = {}, !.pc = "done"]]
  /\ UNCHANGED <<epoch, prevEpoch, started, clashed, status>>

\* m.SuperCommittee = committeeReply.Result, word by word in any order.
Write(i, w) ==
  LET rest == updates[i].left \ {w} IN
    /\ updates[i].pc = "write" /\ w \in updates[i].left
    /\ committee' = [committee EXCEPT ![w] = updates[i].answer]
    /\ updates' = [updates EXCEPT ![i] = [@ EXCEPT !.left = rest,
                                            !.pc = IF rest = {} THEN "done" ELSE "write"]]
    /\ clashed' = ((\E j \in Ids \ {i} : HalfWritten(j)) \/ (clashed /\ HalfWritten(i)))
    /\ status' = [status EXCEPT !.disturbed = @ \/ status.pc = "half"]
    /\ UNCHANGED <<epoch, prevEpoch, started>>

-----------------------------------------------------------------------------
(* statusSnapshot.  The map of deciders is replaced, never changed, so the *)
(* loop over it is one read.                                               *)

ReadDeciders ==
  /\ status.pc = "idle"
  /\ status' = [pc |-> "half", deciders |-> committee["deciders"], count |-> NoCommittee,
                disturbed |-> clashed \/ \E i \in Ids : HalfWritten(i)]
  /\ UNCHANGED <<epoch, prevEpoch, started, updates, committee, clashed>>

ReadCount ==
  /\ status.pc = "half"
  /\ status' = [status EXCEPT !.pc = "sent", !.count = committee["count"]]
  /\ UNCHANGED <<epoch, prevEpoch, started, updates, committee, clashed>>

EndStatus ==
  /\ status.pc = "sent"
  /\ status' = NoStatus
  /\ UNCHANGED <<epoch, prevEpoch, started, updates, committee, clashed>>

CommitteeNext ==
  \/ NewEpoch \/ ReadDeciders \/ ReadCount \/ EndStatus
  \/ \E e \in Committees : EpochOfHeader(e)
  \/ \E i \in Ids : UpdateFails(i)
  \/ \E i \in Ids, a \in Committees : UpdateAnswered(i, a)
  \/ \E i \in Ids, w \in Words : Write(i, w)

CommitteeSpec == CommitteeInit /\ [][CommitteeNext]_committeeVars

-----------------------------------------------------------------------------
\* used-seats and avail-seats of a status report are of one committee, unless an
\* update wrote between the two reads, was half-way through its write, or two
\* updates had left a mixture.
SeatsOfOneCommittee ==
  status.pc = "sent" /\ ~status.disturbed => status.deciders = status.count
=============================================================================
