---------------------------- MODULE ReportServer ----------------------------
(***************************************************************************)
(* The state of `monitor` that is shared under the mutex inUse: the        *)
(* monitors publish the outcome of their rounds into it, and the HTTP      *)
(* handlers build their reports from it.                                   *)
(*                                                                         *)
(* A publisher (the two managers and crossLinkMonitor) copies its working  *)
(* data under the lock.  consensusMonitor publishes a map by reference and *)
(* goes on writing it without the lock, one shard after the other.  A      *)
(* report is put together in two critical sections, and the page handler   *)
(* saves its summary in a third for the CSV handler.  (NoReplySnapshot,    *)
(* saved with it, is never read and left out.)                             *)
(*                                                                         *)
(* A snapshot is the number of the round it comes from, the nodes that     *)
(* answered in it and the nodes that its Down list names.  Of what the     *)
(* replies say only one thing is kept: whether some header has a signature *)
(* too short for summaryMaps, which shortens the signatures in the         *)
(* snapshot itself.                                                        *)
(***************************************************************************)
EXTENDS Integers, FiniteSets

CONSTANTS
  Nodes,
  Shards,
  ShardOf,     \* ShardOf[n]: the shard node n reports in its header
  Requests,    \* HTTP requests in progress, at most this many at a time
  ShortSigs,   \* whether a header may have a signature of 1 to 4 characters
  MaxRound,    \* bound: MaxRound[p], the rounds of publisher p
  MaxRequests  \* bound: requests served

Free == "free"
Consensus == "consensus"
Publishers == {"metadata", "header", "crosslink", Consensus}
Procs == Publishers \cup Requests

ASSUME ServerAssumption ==
  /\ IsFiniteSet(Nodes)
  /\ ShardOf \in [Nodes -> Shards]
  /\ Requests \cap (Publishers \cup {Free}) = {}
  /\ ShortSigs \in BOOLEAN
  /\ MaxRound \in [Publishers -> Nat] /\ MaxRequests \in Nat

VARIABLES
  lock,     \* inUse: Free or the process that holds it
  pc,       \* pc[p]: where process p is
  kind,     \* kind[r]: the handler request r called
  snap,     \* snap[p]: MetadataSnapshot, BlockHeaderSnapshot, LastCrossLinks,
            \* consensusProgress
  toWrite,  \* the entries of consensusStatus still to be written in this round
  report,   \* report[r]: the report request r is building
  saved,    \* SummarySnapshot
  served,   \* requests accepted so far
  fault     \* the runtime noticed a map iterated and written at once

vars == <<lock, pc, kind, snap, toWrite, report, saved, served, fault>>

Snapshot == [round : Nat, up : SUBSET Nodes, down : SUBSET Nodes, short : BOOLEAN]
NoSnapshot == [round |-> 0, up |-> {}, down |-> {}, short |-> FALSE]

(* What a critical section reads of the metadata and of the headers.       *)
Reading == [metadata : Snapshot, header : Snapshot]
NoReading == [metadata |-> NoSnapshot, header |-> NoSnapshot]

(* sum: the snapshots summarised in the first critical section; down: those *)
(* whose Down lists were taken in the second.                              *)
Report == [sum : Reading, down : Reading]
NoReport == [sum |-> NoReading, down |-> NoReading]

(* The keys of the header summary: shards with a node that answered.       *)
HeaderShards(s) == {ShardOf[n] : n \in s.up}

\* networkSnapshot for a page or for /network, statusSnapshot, and produceCSV; what
\* else tells the handlers apart is chosen where it matters.
Kinds == {"report", "status", "csv"}

Waiting == {"publish", "summary", "rest", "save", "csv"}
Inside  == {"publishing", "summing", "iterating", "saving", "csving"}

TypeOK ==
  /\ lock \in {Free} \cup Procs
  /\ pc \in [Procs -> Waiting \cup Inside \cup {"idle", "page", "panicked"}]
  /\ kind \in [Requests -> Kinds \cup {"none"}]
  /\ snap \in [Publishers -> Snapshot]
  /\ toWrite \subseteq Shards
  /\ report \in [Requests -> Report]
  /\ saved \in Reading
  /\ served \in 0..MaxRequests
  /\ fault \in BOOLEAN
  /\ \A p \in Procs : lock = p <=> pc[p] \in Inside \cup {"panicked"}

Init ==
  /\ lock = Free
  /\ pc = [p \in Procs |-> "idle"]
  /\ kind = [r \in Requests |-> "none"]
  /\ snap = [p \in Publishers |-> NoSnapshot]
  /\ toWrite = {}
  /\ report = [r \in Requests |-> NoReport]
  /\ saved = NoReading
  /\ served = 0
  /\ fault = FALSE

-----------------------------------------------------------------------------
\* m.inUse.Lock() returns.
Lock(p) ==
  /\ pc[p] \in Waiting
  /\ lock = Free
  /\ lock' = p
  /\ pc' = [pc EXCEPT ![p] =
       CASE pc[p] = "publish" -> "publishing" [] pc[p] = "summary" -> "summing"
         [] pc[p] = "rest" -> "iterating"     [] pc[p] = "save" -> "saving"
         [] pc[p] = "csv" -> "csving"]
  /\ UNCHANGED <<kind, snap, toWrite, report, saved, served, fault>>

-----------------------------------------------------------------------------
(* The publishers.                                                         *)

\* A round is over.  Its container belongs to this goroutine alone until it is
\* copied, so what it holds is chosen in Publish.
FinishRound(p) ==
  /\ p # Consensus
  /\ pc[p] = "idle"
  /\ snap[p].round < MaxRound[p]
  /\ pc' = [pc EXCEPT ![p] = "publish"]
  /\ UNCHANGED <<lock, kind, snap, toWrite, report, saved, served, fault>>

\* The nodes that can have answered, where the snapshot lists them.
Answering(p) == IF p \in {"metadata", "header"} THEN SUBSET Nodes ELSE {{}}

\* Whether a header has a signature of the length that summaryMaps cannot cut.
Signatures(p, up) == IF ShortSigs /\ p = "header" /\ up # {} THEN BOOLEAN ELSE {FALSE}

\* The nodes a Down list can name.  DownList shows that the list of the headers
\* has an entry for each node that did not answer, but that consensusMonitor can
\* have replaced entries, by any nodes.
Named(p, missing) ==
  IF p = "header" THEN {d \in SUBSET Nodes : Cardinality(d) <= Cardinality(missing)}
  ELSE {missing}

\* A copy that forgets the Down list.
PublishWithoutDown(p) ==
  /\ pc[p] = "publishing"
  /\ \E up \in Answering(p) : \E short \in Signatures(p, up) :
       snap' = [snap EXCEPT ![p] = [@ EXCEPT !.round = @ + 1, !.up = up, !.short = short]]
  /\ lock' = Free
  /\ pc' = [pc EXCEPT ![p] = "idle"]
  /\ UNCHANGED <<kind, toWrite, report, saved, served, fault>>

\* metadataCopy, blockHeaderCopy, the copy of the cross links, the assignment of
\* consensusStatus to consensusProgress (the map itself, not a copy); Unlock.
\* Every node asked either answered or is missing: WorkerPool shows it.
Publish(p) ==
  /\ pc[p] = "publishing"
  /\ \E up \in Answering(p) : \E short \in Signatures(p, up), down \in Named(p, Nodes \ up) :
       snap' = [snap EXCEPT ![p] =
         [round |-> @.round + 1, up |-> up, down |-> down, short |-> short]]
  /\ lock' = Free
  /\ pc' = [pc EXCEPT ![p] = "idle"]
  /\ UNCHANGED <<kind, toWrite, report, saved, served, fault>>

\* consensusMonitor starts on the shards some node answered for.
StartEvaluation ==
  /\ pc[Consensus] = "idle"
  /\ snap[Consensus].round < MaxRound[Consensus]
  /\ toWrite' \in SUBSET Shards
  /\ pc' = [pc EXCEPT ![Consensus] = "page"]
  /\ UNCHANGED <<lock, kind, snap, report, saved, served, fault>>

\* Some handler is iterating over consensusProgress, and it is consensusStatus.
Iterating == snap[Consensus].round > 0 /\ \E r \in Requests :
  pc[r] = "iterating" \/ (pc[r] = "summing" /\ kind[r] = "status")

\* consensusStatus[shard] = ..., without the lock.
WriteStatus(s) ==
  /\ pc[Consensus] = "page"
  /\ s \in toWrite
  /\ toWrite' = toWrite \ {s}
  /\ fault' \in IF Iterating THEN BOOLEAN ELSE {FALSE}
  /\ UNCHANGED <<lock, pc, kind, snap, report, saved, served>>

EndEvaluation ==
  /\ pc[Consensus] = "page"
  /\ toWrite = {}
  /\ pc' = [pc EXCEPT ![Consensus] = "publish"]
  /\ UNCHANGED <<lock, kind, snap, toWrite, report, saved, served, fault>>

-----------------------------------------------------------------------------
(* The handlers.                                                           *)

\* The handler returns; its locals are gone.
Return(r) ==
  /\ pc' = [pc EXCEPT ![r] = "idle"]
  /\ report' = [report EXCEPT ![r] = NoReport]
  /\ kind' = [kind EXCEPT ![r] = "none"]

\* A request comes in.
Accept(r) ==
  /\ pc[r] = "idle"
  /\ served < MaxRequests
  /\ served' = served + 1
  /\ \E k \in Kinds :
       /\ kind' = [kind EXCEPT ![r] = k]
       /\ pc' = [pc EXCEPT ![r] = IF k = "csv" THEN "csv" ELSE "summary"]
  /\ UNCHANGED <<lock, snap, toWrite, report, saved, fault>>

\* What a critical section finds.
Current == [metadata |-> snap["metadata"], header |-> snap["header"]]

\* summaryMaps takes the first and the last five characters of every signature
\* that is not empty: a shorter one panics inside the lock.
SummaryPanics(r) ==
  /\ pc[r] = "summing" /\ snap["header"].short
  /\ pc' = [pc EXCEPT ![r] = "panicked"]
  /\ UNCHANGED <<lock, kind, snap, toWrite, report, saved, served, fault>>

\* The summary without the Unlock.
SummariseLocked(r) ==
  /\ pc[r] = "summing" /\ kind[r] # "status" /\ ~snap["header"].short
  /\ report' = [report EXCEPT ![r].sum = Current]
  /\ pc' = [pc EXCEPT ![r] = "rest"]
  /\ UNCHANGED <<lock, kind, snap, toWrite, saved, served, fault>>

\* The first critical section of networkSnapshot: summaryMaps over both snapshots.
Summarise(r) ==
  /\ pc[r] = "summing" /\ kind[r] # "status" /\ ~snap["header"].short
  /\ lock' = Free
  /\ report' = [report EXCEPT ![r].sum = Current]
  /\ pc' = [pc EXCEPT ![r] = "rest"]
  /\ UNCHANGED <<kind, snap, toWrite, saved, served, fault>>

\* statusSnapshot summarises and copies consensusProgress in one critical section
\* and is then done with the shared state.
StatusReport(r) ==
  /\ pc[r] = "summing" /\ kind[r] = "status" /\ ~snap["header"].short
  /\ lock' = Free
  /\ Return(r)
  /\ UNCHANGED <<snap, toWrite, saved, served, fault>>

\* The headers are summarised again for the page.
TakeDownAgain(r) ==
  /\ pc[r] = "iterating"
  /\ report' = [report EXCEPT ![r].down = Current, ![r].sum.header = snap["header"]]
  /\ lock' = Free
  /\ pc' = [pc EXCEPT ![r] = "page"]
  /\ UNCHANGED <<kind, snap, toWrite, saved, served, fault>>

\* The second critical section of networkSnapshot: consensusProgress, the Down
\* lists and the cross links.
TakeDown(r) ==
  /\ pc[r] = "iterating"
  /\ report' = [report EXCEPT ![r].down = Current]
  /\ lock' = Free
  /\ pc' = [pc EXCEPT ![r] = "page"]
  /\ UNCHANGED <<kind, snap, toWrite, saved, served, fault>>

\* renderReport sends the page and goes on to save it.  It returns before that if
\* the template does not parse, and /network is answered with the report itself.
SendPage(r) ==
  /\ pc[r] = "page"
  /\ \/ /\ pc' = [pc EXCEPT ![r] = "save"]
        /\ UNCHANGED <<kind, report>>
     \/ Return(r)
  /\ UNCHANGED <<lock, snap, toWrite, saved, served, fault>>

\* A page saved without waiting for the lock.
SaveUnlocked(r) ==
  /\ pc[r] \in {"save", "saving"}
  /\ saved' = report[r].sum
  /\ lock' = Free
  /\ Return(r)
  /\ UNCHANGED <<snap, toWrite, served, fault>>

\* summaryCopy.
Save(r) ==
  /\ pc[r] = "saving"
  /\ saved' = report[r].sum
  /\ lock' = Free
  /\ Return(r)
  /\ UNCHANGED <<snap, toWrite, served, fault>>

\* produceCSV for a shard, which the URL names.  The type assertion on a missing
\* key panics; net/http recovers in the goroutine of the request and Unlock is
\* never reached.
HeaderCSV(r) ==
  /\ pc[r] = "csving"
  /\ \E shard \in Shards :
       \/ /\ shard \in HeaderShards(saved.header)
          /\ lock' = Free
          /\ Return(r)
       \/ /\ shard \notin HeaderShards(saved.header)
          /\ pc' = [pc EXCEPT ![r] = "panicked"]
          /\ UNCHANGED <<lock, kind, report>>
  /\ UNCHANGED <<snap, toWrite, saved, served, fault>>

\* A download that does not release the lock.
MetadataCSVLocked(r) ==
  /\ pc[r] = "csving"
  /\ Return(r)
  /\ UNCHANGED <<lock, snap, toWrite, saved, served, fault>>

\* produceCSV for a version, which tests the key first.
MetadataCSV(r) ==
  /\ pc[r] = "csving"
  /\ lock' = Free
  /\ Return(r)
  /\ UNCHANGED <<snap, toWrite, saved, served, fault>>

-----------------------------------------------------------------------------
PublisherStep(p) == FinishRound(p) \/ Lock(p) \/ Publish(p)

ConsensusStep ==
  \/ StartEvaluation \/ EndEvaluation
  \/ \E s \in Shards : WriteStatus(s)

\* What a request does once it has been accepted.
HandlerStep(r) ==
  \/ Lock(r) \/ SummaryPanics(r) \/ Summarise(r) \/ StatusReport(r) \/ TakeDown(r) \/ SendPage(r)
  \/ Save(r) \/ HeaderCSV(r) \/ MetadataCSV(r)

Next ==
  /\ ~fault
  /\ \/ \E p \in Publishers : PublisherStep(p)
     \/ ConsensusStep
     \/ \E r \in Requests : Accept(r) \/ HandlerStep(r)

Spec == Init /\ [][Next]_vars

(***************************************************************************)
(* Scheduling: a goroutine that can go on does so, and one that waits gets *)
(* the lock when it stays free.  (sync.Mutex promises more: in starvation  *)
(* mode it hands itself to the waiter.  With finitely many rounds and      *)
(* requests the weaker assumption is enough.)  Requests and rounds need    *)
(* not come.                                                               *)
(***************************************************************************)
GoesOn(p) == ~fault /\
  \/ Lock(p)
  \/ p \in Publishers /\ Publish(p)
  \/ p = Consensus /\ (EndEvaluation \/ \E s \in Shards : WriteStatus(s))
  \/ p \in Requests /\ HandlerStep(p)

Fairness == \A p \in Procs : WF_vars(GoesOn(p))

FairSpec == Spec /\ Fairness

-----------------------------------------------------------------------------
(* Properties.                                                             *)

Older(a, b) ==
  a.metadata.round <= b.metadata.round /\ a.header.round <= b.header.round

Readings ==
  {saved} \cup {report[r].sum : r \in Requests} \cup {report[r].down : r \in Requests}

\* A summary is not newer than the list.  Of one round the metadata show every
\* node in exactly one of the two; the headers no more nodes than there are.
ReportFits(rep) ==
  /\ Older(rep.sum, rep.down)
  /\ rep.sum.metadata.round = rep.down.metadata.round /\ rep.sum.metadata.round > 0 =>
       \A n \in Nodes : n \in rep.sum.metadata.up <=> n \notin rep.down.metadata.down
  /\ rep.sum.header.round = rep.down.header.round =>
       Cardinality(rep.sum.header.up) + Cardinality(rep.down.header.down) <= Cardinality(Nodes)

\* networkSnapshot releases the lock between the summary and the list of nodes
\* that do not reply.  It never pairs a summary with an older list.  If no newer
\* round was published in between, the metadata show every node in exactly one of
\* the two; of the headers, where entries can be consensusMonitor's, a node may
\* be in both or in neither, but no more nodes are shown than there are.
TornOnlyByNewerRound ==
  \A r \in Requests : pc[r] \in {"page", "save", "saving"} => ReportFits(report[r])

\* Any two readings of the shared state that a report under way or the saved page
\* rests on can be put in order of time: never is one older in the metadata and
\* newer in the headers, whichever publishers came in between and whichever
\* handlers overtook each other.
ReadingsAreOrdered ==
  \A a, b \in Readings : Older(a, b) \/ Older(b, a)

Wedged == \E r \in Requests : pc[r] = "panicked"

\* A panic inside the lock freezes the shared state for good: no monitor
\* publishes and no page is saved ever again, whatever was under way, while
\* requests are still accepted and rounds still finished.
FrozenByPanic == [][Wedged => Wedged' /\ UNCHANGED <<lock, snap, saved>>]_vars

\* Whoever has work with the shared state gets done with it, unless the process
\* has ended or a handler has panicked inside the lock, in a CSV download or over
\* a short signature: there is no other way to lose the lock, and no order of
\* monitors and handlers that blocks one.
EverybodyFinishes ==
  \A p \in Procs : []<>(pc[p] = "idle" \/ fault \/ Wedged)

\* A bad cast explodes in the goroutine (the comment on summaryMaps): the rest of
\* the program keeps the use of the lock.
LockIsReleased == \A p \in Procs : lock = p ~> (lock # p \/ fault)
=============================================================================
