------------------------- MODULE ReportServerProofs -------------------------
(***************************************************************************)
(* The safety of the shared report state, for any sets of nodes, shards    *)
(* and requests and any number of rounds: the lock is held by whoever is   *)
(* in a critical section, reports are torn only by a newer round, what     *)
(* they rest on can be put in order of time, and a panic inside the lock   *)
(* freezes all of it.                                                      *)
(***************************************************************************)
EXTENDS ReportServer, FiniteSetTheorems, TLAPS

(* A published snapshot of the metadata splits the nodes in two; one of    *)
(* the headers names no more nodes than did not answer.                    *)
SnapshotsSound ==
  /\ snap["metadata"].round > 0 => snap["metadata"].down = Nodes \ snap["metadata"].up
  /\ Cardinality(snap["header"].up) + Cardinality(snap["header"].down) <= Cardinality(Nodes)

(* A snapshot read earlier: of an older round, or this very one.           *)
Earlier(old, now) ==
  /\ old.round <= now.round
  /\ old.round = now.round => old = now

(* What has been read is not newer than what is there.                     *)
Past(a) == Earlier(a.metadata, snap["metadata"]) /\ Earlier(a.header, snap["header"])
ReadingsPast == Past(NoReading) /\ \A a \in Readings : Past(a)

IInv ==
  /\ TypeOK
  /\ SnapshotsSound
  /\ ReadingsPast
  /\ ReadingsAreOrdered
  /\ TornOnlyByNewerRound

-----------------------------------------------------------------------------
(* Types and the lock.                                                     *)

\* The process in a critical section, or stuck in one, is the one that has inUse.
HoldsLock(p) == lock = p <=> pc[p] \in Inside \cup {"panicked"}

\* A process that takes the free lock, gives its lock back, or does neither,
\* leaves the lock with whoever is in a critical section.
LEMMA LockFrame ==
  ASSUME TypeOK, NEW q \in Procs, NEW v, pc' = [pc EXCEPT ![q] = v],
         \/ lock' = lock /\ (v \in Inside \cup {"panicked"} <=> pc[q] \in Inside \cup {"panicked"})
         \/ lock = Free /\ lock' = q /\ v \in Inside
         \/ pc[q] \in Inside /\ lock' = Free /\ v \notin Inside \cup {"panicked"}
  PROVE  \A p \in Procs : HoldsLock(p)'
<1> SUFFICES ASSUME NEW p \in Procs PROVE HoldsLock(p)'
  OBVIOUS
<1>1. HoldsLock(p) /\ HoldsLock(q) /\ p # Free /\ q # Free
  BY ServerAssumption DEF TypeOK, HoldsLock, Procs, Publishers, Free, Consensus
<1>2. pc'[q] = v /\ (p # q => pc'[p] = pc[p])
  BY DEF TypeOK
<1> QED
  BY <1>1, <1>2 DEF HoldsLock, Inside

\* What a request holds is a report, before and after each critical section.
LEMMA NoReportType ==
  NoSnapshot \in Snapshot /\ NoReading \in Reading /\ NoReport \in Report
<1>1. NoSnapshot \in Snapshot
  BY DEF NoSnapshot, Snapshot
<1>2. NoReading \in Reading
  BY <1>1, Zenon DEF NoReading, Reading
<1>3. NoReport \in Report
  BY <1>2, Zenon DEF NoReport, Report
<1> QED
  BY <1>1, <1>2, <1>3

\* So is what a critical section finds.
LEMMA CurrentType ==
  ASSUME TypeOK
  PROVE  Current \in Reading
<1>1. snap["metadata"] \in Snapshot /\ snap["header"] \in Snapshot
  BY DEF TypeOK, Publishers
<1> QED
  BY <1>1, Zenon DEF Current, Reading

\* What the two critical sections of networkSnapshot leave in the report.
LEMMA ReportFacts ==
  ASSUME TypeOK, NEW r \in Requests
  PROVE  /\ report[r] \in Report /\ report[r].sum \in Reading /\ report[r].down \in Reading
         /\ LET a == [report[r] EXCEPT !.sum = Current] IN
              a \in Report /\ a.sum = Current /\ a.down = report[r].down
         /\ LET a == [report[r] EXCEPT !.down = Current] IN
              a \in Report /\ a.sum = report[r].sum /\ a.down = Current
<1>1. report[r] \in Report
  BY DEF TypeOK
<1>2. Current \in Reading
  BY CurrentType
<1> QED
  BY <1>1, <1>2 DEF Report

\* A handler that returns leaves the shape of the state as it is.
LEMMA ReturnType ==
  ASSUME TypeOK, NEW r \in Requests, Return(r)
  PROVE  /\ pc' \in [Procs -> Waiting \cup Inside \cup {"idle", "page", "panicked"}]
         /\ report' \in [Requests -> Report]
         /\ kind' \in [Requests -> Kinds \cup {"none"}]
  BY NoReportType DEF TypeOK, Return, Procs

\* Publishing makes a round newer, and what it publishes is sound.
LEMMA PublishFacts ==
  ASSUME TypeOK, NEW p \in Publishers, Publish(p)
  PROVE  /\ snap' \in [Publishers -> Snapshot]
         /\ \A q \in Publishers : q # p => snap'[q] = snap[q]
         /\ snap'[p].round = snap[p].round + 1
         /\ snap'[p].down \in Named(p, Nodes \ snap'[p].up)
<1>0. PICK up \in Answering(p) : \E short \in Signatures(p, up), down \in Named(p, Nodes \ up) :
       snap' = [snap EXCEPT ![p] =
         [round |-> snap[p].round + 1, up |-> up, down |-> down, short |-> short]]
  BY Zenon DEF Publish
<1>1. PICK short \in Signatures(p, up), down \in Named(p, Nodes \ up) :
       snap' = [snap EXCEPT ![p] =
         [round |-> snap[p].round + 1, up |-> up, down |-> down, short |-> short]]
  BY <1>0, Zenon
<1>2. up \subseteq Nodes /\ short \in BOOLEAN /\ down \subseteq Nodes
  <2>1. up \subseteq Nodes /\ short \in BOOLEAN
    BY Zenon DEF Answering, Signatures
  <2>2. CASE p = "header"
    BY <2>1, <2>2 DEF Named
  <2>3. CASE p # "header"
    BY <2>1, <2>3 DEF Named
  <2> QED
    BY <2>1, <2>2, <2>3
<1>3. snap \in [Publishers -> Snapshot] /\ snap[p].round + 1 \in Nat
  BY DEF TypeOK, Snapshot
<1> DEFINE new == [round |-> snap[p].round + 1, up |-> up, down |-> down, short |-> short]
<1>4. new \in Snapshot
  BY <1>2, <1>3, Zenon DEF Snapshot
<1>5. new.round = snap[p].round + 1 /\ new.up = up /\ new.down = down
  OBVIOUS
<1> HIDE DEF new
<1>6. snap' = [snap EXCEPT ![p] = new]
  BY <1>1, Zenon DEF new
<1>7. /\ snap' \in [Publishers -> Snapshot] /\ snap'[p] = new
      /\ \A q \in Publishers : q # p => snap'[q] = snap[q]
  BY <1>3, <1>4, <1>6
<1> QED
  BY <1>5, <1>7

\* The lock is held exactly by the process in a critical section, and the shared
\* state keeps its shape.
LEMMA TypeStep ==
  ASSUME TypeOK, Next
  PROVE  TypeOK'
<1> USE DEF Procs
<1>1. ASSUME NEW p \in Procs, Lock(p) PROVE TypeOK'
  <2>1. PICK v \in Inside : pc' = [pc EXCEPT ![p] = v]
    BY <1>1, Zenon DEF Lock, Waiting, Inside
  <2>2. \A q \in Procs : HoldsLock(q)'
    BY <1>1, <2>1, LockFrame, Zenon DEF Lock
  <2>3. /\ lock' = p
        /\ UNCHANGED <<kind, snap, toWrite, report, saved, served, fault>>
    BY <1>1 DEF Lock
  <2> QED
    BY <2>1, <2>2, <2>3 DEF TypeOK, HoldsLock
<1>2. ASSUME NEW p \in Publishers, FinishRound(p) PROVE TypeOK'
  <2>1. \A q \in Procs : HoldsLock(q)'
    BY <1>2, LockFrame, Zenon DEF FinishRound, Inside
  <2> QED
    BY <1>2, <2>1 DEF FinishRound, TypeOK, HoldsLock, Waiting
<1>3. ASSUME NEW p \in Publishers, Publish(p) PROVE TypeOK'
  <2>1. \A q \in Procs : HoldsLock(q)'
    BY <1>3, LockFrame, Zenon DEF Publish, Inside
  <2>6. snap' \in [Publishers -> Snapshot]
    BY <1>3, PublishFacts
  <2> QED
    BY <1>3, <2>1, <2>6 DEF Publish, TypeOK, HoldsLock
<1>4. CASE StartEvaluation
  <2>1. \A q \in Procs : HoldsLock(q)'
    BY <1>4, LockFrame, Zenon DEF StartEvaluation, Inside, Publishers
  <2> QED
    BY <1>4, <2>1, Zenon DEF StartEvaluation, TypeOK, HoldsLock
<1>5. CASE EndEvaluation
  <2>1. \A q \in Procs : HoldsLock(q)'
    BY <1>5, LockFrame, Zenon DEF EndEvaluation, Inside, Publishers
  <2> QED
    BY <1>5, <2>1, Zenon DEF EndEvaluation, TypeOK, HoldsLock, Waiting
<1>6. ASSUME NEW s \in Shards, WriteStatus(s) PROVE TypeOK'
  BY <1>6, Zenon DEF WriteStatus, TypeOK
<1>7. ASSUME NEW r \in Requests, Accept(r) PROVE TypeOK'
  <2>1. PICK k \in Kinds :
       /\ kind' = [kind EXCEPT ![r] = k]
       /\ pc' = [pc EXCEPT ![r] = IF k = "csv" THEN "csv" ELSE "summary"]
    BY <1>7, Zenon DEF Accept
  <2>2. \A q \in Procs : HoldsLock(q)'
    BY <1>7, <2>1, LockFrame, Zenon DEF Accept, Inside
  <2>3. served' \in 0..MaxRequests
    BY <1>7, ServerAssumption DEF Accept, TypeOK
  <2> QED
    BY <1>7, <2>1, <2>2, <2>3, ServerAssumption DEF Accept, TypeOK, HoldsLock, Waiting
<1>8. ASSUME NEW r \in Requests, SummaryPanics(r) PROVE TypeOK'
  <2>1. \A q \in Procs : HoldsLock(q)'
    BY <1>8, LockFrame, Zenon DEF SummaryPanics, Inside
  <2> QED
    BY <1>8, <2>1 DEF SummaryPanics, TypeOK, HoldsLock
<1>9. ASSUME NEW r \in Requests, Summarise(r) PROVE TypeOK'
  <2>1. \A q \in Procs : HoldsLock(q)'
    BY <1>9, LockFrame, Zenon DEF Summarise, Inside
  <2>2. report' \in [Requests -> Report]
    BY <1>9, ReportFacts DEF Summarise, TypeOK
  <2> QED
    BY <1>9, <2>1, <2>2 DEF Summarise, TypeOK, HoldsLock, Waiting
<1>10. ASSUME NEW r \in Requests, StatusReport(r) PROVE TypeOK'
  <2>1. \A q \in Procs : HoldsLock(q)'
    BY <1>10, LockFrame, Zenon DEF StatusReport, Return, Inside
  <2> QED
    BY <1>10, <2>1, ReturnType DEF StatusReport, TypeOK, HoldsLock
<1>11. ASSUME NEW r \in Requests, TakeDown(r) PROVE TypeOK'
  <2>1. \A q \in Procs : HoldsLock(q)'
    BY <1>11, LockFrame, Zenon DEF TakeDown, Inside
  <2>2. report' \in [Requests -> Report]
    BY <1>11, ReportFacts DEF TakeDown, TypeOK
  <2> QED
    BY <1>11, <2>1, <2>2 DEF TakeDown, TypeOK, HoldsLock
<1>12. ASSUME NEW r \in Requests, SendPage(r) PROVE TypeOK'
  <2>1. CASE pc' = [pc EXCEPT ![r] = "save"] /\ UNCHANGED <<kind, report>>
    <3>1. \A q \in Procs : HoldsLock(q)'
      BY <1>12, <2>1, LockFrame, Zenon DEF SendPage, Inside
    <3> QED
      BY <1>12, <2>1, <3>1 DEF SendPage, TypeOK, HoldsLock, Waiting
  <2>2. CASE Return(r)
    <3>1. \A q \in Procs : HoldsLock(q)'
      BY <1>12, <2>2, LockFrame, Zenon DEF SendPage, Return, Inside
    <3> QED
      BY <1>12, <2>2, <3>1, ReturnType DEF SendPage, TypeOK, HoldsLock
  <2> QED
    BY <1>12, <2>1, <2>2 DEF SendPage
<1>13. ASSUME NEW r \in Requests, Save(r) PROVE TypeOK'
  <2>1. \A q \in Procs : HoldsLock(q)'
    BY <1>13, LockFrame, Zenon DEF Save, Return, Inside
  <2>2. saved' \in Reading
    BY <1>13, ReportFacts DEF Save
  <2> QED
    BY <1>13, <2>1, <2>2, ReturnType DEF Save, TypeOK, HoldsLock
<1>14. ASSUME NEW r \in Requests, HeaderCSV(r) PROVE TypeOK'
  <2>1. CASE Return(r) /\ lock' = Free
    <3>1. \A q \in Procs : HoldsLock(q)'
      BY <1>14, <2>1, LockFrame, Zenon DEF HeaderCSV, Return, Inside
    <3> QED
      BY <1>14, <2>1, <3>1, ReturnType DEF HeaderCSV, TypeOK, HoldsLock
  <2>2. CASE pc' = [pc EXCEPT ![r] = "panicked"] /\ UNCHANGED <<lock, kind, report>>
    <3>1. \A q \in Procs : HoldsLock(q)'
      BY <1>14, <2>2, LockFrame, Zenon DEF HeaderCSV, Inside
    <3> QED
      BY <1>14, <2>2, <3>1 DEF HeaderCSV, TypeOK, HoldsLock
  <2> QED
    BY <1>14, <2>1, <2>2 DEF HeaderCSV
<1>15. ASSUME NEW r \in Requests, MetadataCSV(r) PROVE TypeOK'
  <2>1. \A q \in Procs : HoldsLock(q)'
    BY <1>15, LockFrame, Zenon DEF MetadataCSV, Return, Inside
  <2> QED
    BY <1>15, <2>1, ReturnType DEF MetadataCSV, TypeOK, HoldsLock
<1> QED
  BY <1>1, <1>2, <1>3, <1>4, <1>5, <1>6, <1>7, <1>8, <1>9, <1>10, <1>11, <1>12,
     <1>13, <1>14, <1>15
     DEF Next, PublisherStep, ConsensusStep, HandlerStep

\* The server starts with the lock free and every process outside.
LEMMA InitType == Init => TypeOK
<1> SUFFICES ASSUME Init PROVE TypeOK
  OBVIOUS
<1>1. \A p \in Procs : p # Free
  BY ServerAssumption DEF Procs, Publishers, Free, Consensus
<1>2. \A p \in Procs : lock = p <=> pc[p] \in Inside \cup {"panicked"}
  BY <1>1 DEF Init, Inside
<1>3. /\ snap \in [Publishers -> Snapshot] /\ saved \in Reading
      /\ report \in [Requests -> Report]
  BY NoReportType DEF Init
<1>4. served \in 0..MaxRequests
  BY ServerAssumption DEF Init
<1> QED
  BY <1>2, <1>3, <1>4, Zenon DEF Init, TypeOK

\* The lock is held exactly by the process in a critical section, or stuck in
\* one: two processes are never in critical sections at once, and a free lock
\* means that nobody is.
THEOREM TypeInvariant == Spec => []TypeOK
<1>1. TypeOK /\ [Next]_vars => TypeOK'
  <2>1. TypeOK /\ UNCHANGED vars => TypeOK'
    BY DEF TypeOK, vars
  <2> QED
    BY <2>1, TypeStep
<1> QED
  BY <1>1, InitType, PTL DEF Spec

-----------------------------------------------------------------------------
(* Reports.                                                                *)

\* What was read before a newer round is published was read before it.
LEMMA EarlierKept ==
  ASSUME NEW old \in Snapshot, NEW now \in Snapshot, NEW next \in Snapshot,
         Earlier(old, now), next = now \/ next.round = now.round + 1
  PROVE  Earlier(old, next)
  BY DEF Earlier, Snapshot

\* The readings, one of the past and what is there now, and the rounds they are of.
LEMMA ReadingFacts ==
  ASSUME TypeOK
  PROVE  /\ Readings \subseteq Reading /\ NoReading \in Reading /\ Current \in Reading
         /\ Current.metadata = snap["metadata"] /\ Current.header = snap["header"]
         /\ NoReading.metadata.round = 0 /\ NoReading.header.round = 0
         /\ \A a \in Reading : /\ a.metadata \in Snapshot /\ a.header \in Snapshot
                               /\ a.metadata.round \in Nat /\ a.header.round \in Nat
<1>1. Readings \subseteq Reading
  BY ReportFacts DEF Readings, TypeOK
<1>2. NoReading \in Reading /\ Current \in Reading
  BY NoReportType, CurrentType
<1>3. /\ Current.metadata = snap["metadata"] /\ Current.header = snap["header"]
      /\ NoReading.metadata.round = 0 /\ NoReading.header.round = 0
  BY DEF Current, NoReading, NoSnapshot
<1>4. \A a \in Reading : a.metadata \in Snapshot /\ a.header \in Snapshot
  BY DEF Reading
<1>5. \A x \in Snapshot : x.round \in Nat
  BY DEF Snapshot
<1> QED
  BY <1>1, <1>2, <1>3, <1>4, <1>5

\* The nodes that answered and the names in a list that a publisher can make.
LEMMA NamedCount ==
  ASSUME NEW up \in SUBSET Nodes, NEW down \in Named("header", Nodes \ up)
  PROVE  Cardinality(up) + Cardinality(down) <= Cardinality(Nodes)
<1>1. IsFiniteSet(Nodes) /\ down \in SUBSET Nodes /\ Cardinality(down) <= Cardinality(Nodes \ up)
  BY ServerAssumption DEF Named
<1>2. IsFiniteSet(up) /\ IsFiniteSet(Nodes \ up) /\ IsFiniteSet(down)
  BY <1>1, FS_Subset
<1>3. Cardinality(Nodes \ up) = Cardinality(Nodes) - Cardinality(Nodes \cap up)
  BY <1>1, FS_Difference
<1>4. Nodes \cap up = up
  OBVIOUS
<1>5. /\ Cardinality(Nodes) \in Nat /\ Cardinality(up) \in Nat
      /\ Cardinality(down) \in Nat /\ Cardinality(Nodes \ up) \in Nat
  BY <1>1, <1>2, FS_CardinalityType
<1>6. Cardinality(Nodes \ up) = Cardinality(Nodes) - Cardinality(up)
  BY <1>3, <1>4, Zenon
<1> QED
  BY <1>1, <1>5, <1>6

Reports == SnapshotsSound /\ ReadingsPast /\ ReadingsAreOrdered /\ TornOnlyByNewerRound

\* A step that publishes nothing has to be looked at for what it reads anew, and
\* for the reports it completes.
LEMMA HandlerFrame ==
  ASSUME IInv, NEW r \in Requests, snap' = snap,
         \A q \in Requests : q # r => pc'[q] = pc[q] /\ report'[q] = report[q],
         report'[r].sum \in {report[r].sum, NoReading, Current},
         report'[r].down \in {report[r].down, NoReading, Current},
         saved' \in {saved, report[r].sum},
         pc'[r] \in {"page", "save", "saving"} => ReportFits(report'[r])
  PROVE  Reports'
<1> DEFINE all == Readings \cup {NoReading, Current}
<1>1. Readings' \subseteq all
  <2>1. \A q \in Requests : report[q].sum \in all /\ report[q].down \in all
    BY DEF Readings
  <2>2. saved \in all /\ NoReading \in all /\ Current \in all
    BY DEF Readings
  <2>3. saved' \in all
    BY <2>1, <2>2
  <2>4. \A q \in Requests : report'[q].sum \in all /\ report'[q].down \in all
    BY <2>1, <2>2
  <2> HIDE DEF all
  <2> QED
    BY <2>3, <2>4 DEF Readings
<1>2. TypeOK
  BY DEF IInv
<1>3. all \subseteq Reading
  BY <1>2, ReadingFacts
<1>4. \A a \in all : Past(a)
  <2>1. Past(Current)
    <3>1. /\ Current.metadata = snap["metadata"] /\ Current.header = snap["header"]
          /\ snap["metadata"].round \in Nat /\ snap["header"].round \in Nat
      BY <1>2, ReadingFacts
    <3> QED
      BY <3>1 DEF Past, Earlier
  <2> QED
    BY <2>1 DEF IInv, ReadingsPast
<1>5. \A a, b \in all : Older(a, b) \/ Older(b, a)
  <2>1. \A a \in all : Older(a, Current)
    BY <1>2, <1>4, ReadingFacts, Zenon DEF Older, Past, Earlier
  <2>2. \A a \in all : Older(NoReading, a)
    <3> SUFFICES ASSUME NEW a \in all PROVE Older(NoReading, a)
      OBVIOUS
    <3>1. /\ a.metadata.round \in Nat /\ a.header.round \in Nat
          /\ NoReading.metadata.round = 0 /\ NoReading.header.round = 0
      BY <1>2, <1>3, ReadingFacts, Zenon
    <3> QED
      BY <3>1 DEF Older
  <2>3. \A a, b \in Readings : Older(a, b) \/ Older(b, a)
    BY Zenon DEF IInv, ReadingsAreOrdered
  <2> QED
    BY <2>1, <2>2, <2>3
<1>6. SnapshotsSound'
  BY DEF IInv, SnapshotsSound
<1>7. \A a : Past(a)' <=> Past(a)
  BY DEF Past
<1> HIDE DEF all
<1>8. ReadingsPast'
  <2>1. Past(NoReading)
    BY DEF IInv, ReadingsPast
  <2> QED
    BY <1>1, <1>4, <2>1 DEF ReadingsPast, Past
<1>9. ReadingsAreOrdered'
  BY <1>1, <1>5, Zenon DEF ReadingsAreOrdered, Older
<1>10. TornOnlyByNewerRound'
  BY DEF IInv, TornOnlyByNewerRound
<1> QED
  BY <1>6, <1>8, <1>9, <1>10 DEF Reports

\* A step of a publisher reads nothing; at most its snapshot is newer.
LEMMA PublisherFrame ==
  ASSUME IInv, TypeOK', report' = report, saved' = saved,
         \A r \in Requests : pc'[r] = pc[r],
         SnapshotsSound',
         \A p \in {"metadata", "header"} :
           snap'[p] = snap[p] \/ snap'[p].round = snap[p].round + 1
  PROVE  Reports'
<1>1. Readings' = Readings
  BY DEF Readings
<1>2. ASSUME NEW a \in Reading, Past(a) PROVE Past(a)'
  <2>1. /\ a.metadata \in Snapshot /\ a.header \in Snapshot
        /\ snap["metadata"] \in Snapshot /\ snap["header"] \in Snapshot
        /\ snap'["metadata"] \in Snapshot /\ snap'["header"] \in Snapshot
    BY DEF Reading, IInv, TypeOK, Publishers
  <2>2. Earlier(a.metadata, snap'["metadata"]) /\ Earlier(a.header, snap'["header"])
    BY <1>2, <2>1, EarlierKept DEF Past
  <2> QED
    BY <2>2 DEF Past
<1>3. ReadingsPast'
  <2>1. Readings \subseteq Reading /\ NoReading \in Reading
    BY ReadingFacts DEF IInv
  <2> QED
    BY <1>1, <1>2, <2>1 DEF IInv, ReadingsPast
<1>4. ReadingsAreOrdered' /\ TornOnlyByNewerRound'
  BY <1>1 DEF IInv, ReadingsAreOrdered, TornOnlyByNewerRound
<1> QED
  BY <1>3, <1>4 DEF Reports

\* A summary of the past and the Down lists of now fit together.
LEMMA PastFits ==
  ASSUME IInv, NEW rep, rep.sum \in Reading, Past(rep.sum), rep.down = Current
  PROVE  ReportFits(rep)
<1> DEFINE a == rep.sum
           m == snap["metadata"]
           h == snap["header"]
<1>1. rep.down.metadata = m /\ rep.down.header = h
  BY ReadingFacts DEF IInv
<1>2. Earlier(a.metadata, m) /\ Earlier(a.header, h)
  BY DEF Past
<1>3. /\ m.round > 0 => m.down = Nodes \ m.up
      /\ Cardinality(h.up) + Cardinality(h.down) <= Cardinality(Nodes)
  BY DEF IInv, SnapshotsSound
<1> HIDE DEF a, m, h
<1>4. Older(a, rep.down)
  BY <1>1, <1>2, Zenon DEF Older, Earlier
<1>5. ASSUME a.metadata.round = rep.down.metadata.round, a.metadata.round > 0
      PROVE  \A n \in Nodes : n \in a.metadata.up <=> n \notin rep.down.metadata.down
  <2>1. a.metadata = m
    BY <1>1, <1>2, <1>5, Zenon DEF Earlier
  <2>2. m.down = Nodes \ m.up
    BY <1>3, <1>5, <2>1
  <2> QED
    BY <1>1, <2>1, <2>2
<1>6. ASSUME a.header.round = rep.down.header.round
      PROVE  Cardinality(a.header.up) + Cardinality(rep.down.header.down) <= Cardinality(Nodes)
  <2>1. a.header = h
    BY <1>1, <1>2, <1>6, Zenon DEF Earlier
  <2> QED
    BY <1>1, <1>3, <2>1
<1> QED
  BY <1>4, <1>5, <1>6, Zenon DEF ReportFits, a

\* No step of a monitor or of a handler breaks what holds of reports.
LEMMA ReportStep ==
  ASSUME IInv, Next
  PROVE  Reports'
<1> USE DEF Procs
<1>0. TypeOK /\ TypeOK'
  BY TypeStep DEF IInv
<1>p. \A p \in Publishers, r \in Requests : p # r
  BY ServerAssumption
<1>1. ASSUME NEW p \in Publishers, Lock(p) \/ FinishRound(p) PROVE Reports'
  <2>1. snap' = snap /\ report' = report /\ saved' = saved
    BY <1>1 DEF Lock, FinishRound
  <2>2. \A r \in Requests : pc'[r] = pc[r]
    BY <1>0, <1>1, <1>p DEF Lock, FinishRound, TypeOK
  <2>3. SnapshotsSound'
    BY <2>1 DEF IInv, SnapshotsSound
  <2> QED
    BY <1>0, <2>1, <2>2, <2>3, PublisherFrame
<1>2. ASSUME NEW p \in Publishers, Publish(p) PROVE Reports'
  <2>1. /\ snap' \in [Publishers -> Snapshot]
        /\ \A q \in Publishers : q # p => snap'[q] = snap[q]
        /\ snap'[p].round = snap[p].round + 1
        /\ snap'[p].down \in Named(p, Nodes \ snap'[p].up)
    BY <1>0, <1>2, PublishFacts
  <2>2. "metadata" \in Publishers /\ "header" \in Publishers
    BY DEF Publishers
  <2>3. SnapshotsSound'
    <3>1. snap'["metadata"].round > 0 => snap'["metadata"].down = Nodes \ snap'["metadata"].up
      <4>1. CASE p = "metadata"
        BY <2>1, <4>1 DEF Named
      <4>2. CASE p # "metadata"
        BY <2>1, <2>2, <4>2 DEF IInv, SnapshotsSound
      <4> QED
        BY <4>1, <4>2
    <3>2. Cardinality(snap'["header"].up) + Cardinality(snap'["header"].down) <= Cardinality(Nodes)
      <4>1. CASE p = "header"
        <5>1. snap'["header"].up \in SUBSET Nodes
          BY <2>1, <2>2 DEF Snapshot
        <5>2. snap'["header"].down \in Named("header", Nodes \ snap'["header"].up)
          BY <2>1, <4>1, Zenon
        <5> QED
          BY <5>1, <5>2, NamedCount, Zenon
      <4>2. CASE p # "header"
        BY <2>1, <2>2, <4>2 DEF IInv, SnapshotsSound
      <4> QED
        BY <4>1, <4>2
    <3> QED
      BY <3>1, <3>2 DEF SnapshotsSound
  <2>4. \A q \in {"metadata", "header"} : snap'[q] = snap[q] \/ snap'[q].round = snap[q].round + 1
    BY <2>1, <2>2
  <2>5. \A r \in Requests : pc'[r] = pc[r]
    BY <1>0, <1>2, <1>p DEF Publish, TypeOK
  <2>6. report' = report /\ saved' = saved
    BY <1>2 DEF Publish
  <2> QED
    BY <1>0, <2>3, <2>4, <2>5, <2>6, PublisherFrame, Zenon
<1>3. CASE ConsensusStep
  <2>1. \A r \in Requests : pc'[r] = pc[r]
    BY <1>0, <1>3, <1>p, Zenon DEF ConsensusStep, StartEvaluation, EndEvaluation, WriteStatus, TypeOK, Publishers
  <2>2. snap' = snap /\ report' = report /\ saved' = saved
    BY <1>3 DEF ConsensusStep, StartEvaluation, EndEvaluation, WriteStatus
  <2>3. SnapshotsSound'
    BY <2>2 DEF IInv, SnapshotsSound
  <2> QED
    BY <1>0, <2>1, <2>2, <2>3, PublisherFrame
<1>4. ASSUME NEW r \in Requests, snap' = snap, report' = report, saved' = saved,
             \A q \in Requests : q # r => pc'[q] = pc[q],
             pc'[r] \in {"page", "save", "saving"} => pc[r] \in {"page", "save", "saving"}
      PROVE  Reports'
  <2>1. pc'[r] \in {"page", "save", "saving"} => ReportFits(report'[r])
    BY <1>4 DEF IInv, TornOnlyByNewerRound
  <2> QED
    BY <1>4, <2>1, HandlerFrame
<1>5. ASSUME NEW r \in Requests, Accept(r) PROVE Reports'
  <2>1. pc'[r] \in {"csv", "summary"} /\ \A q \in Requests : q # r => pc'[q] = pc[q]
    BY <1>0, <1>5 DEF Accept, TypeOK
  <2> QED
    BY <1>4, <1>5, <2>1 DEF Accept
<1>6. ASSUME NEW r \in Requests, Lock(r) PROVE Reports'
  <2>1. \A q \in Requests : q # r => pc'[q] = pc[q]
    BY <1>0, <1>6 DEF Lock, TypeOK
  <2>2. pc'[r] \in {"page", "save", "saving"} => pc[r] = "save"
    BY <1>0, <1>6 DEF Lock, TypeOK, Waiting
  <2> QED
    BY <1>4, <1>6, <2>1, <2>2 DEF Lock
<1>7. ASSUME NEW r \in Requests, SummaryPanics(r) PROVE Reports'
  <2>1. pc'[r] = "panicked" /\ \A q \in Requests : q # r => pc'[q] = pc[q]
    BY <1>0, <1>7 DEF SummaryPanics, TypeOK
  <2> QED
    BY <1>4, <1>7, <2>1 DEF SummaryPanics
<1>8. ASSUME NEW r \in Requests, Summarise(r) PROVE Reports'
  <2>1. report' = [report EXCEPT ![r] = [report[r] EXCEPT !.sum = Current]]
    BY <1>8, Zenon DEF Summarise
  <2>2. /\ pc'[r] = "rest" /\ \A q \in Requests : q # r => pc'[q] = pc[q]
        /\ snap' = snap /\ saved' = saved
    BY <1>0, <1>8 DEF Summarise, TypeOK
  <2>3. /\ report'[r] = [report[r] EXCEPT !.sum = Current]
        /\ \A q \in Requests : q # r => report'[q] = report[q]
    BY <1>0, <2>1 DEF TypeOK
  <2>4. report'[r].sum = Current /\ report'[r].down = report[r].down
    BY <1>0, <2>3, ReportFacts
  <2> QED
    BY <2>2, <2>3, <2>4, HandlerFrame
<1>9. ASSUME NEW r \in Requests, Return(r), snap' = snap, saved' \in {saved, report[r].sum}
      PROVE  Reports'
  <2>1. /\ pc'[r] = "idle" /\ report'[r] = NoReport
        /\ \A q \in Requests : q # r => pc'[q] = pc[q] /\ report'[q] = report[q]
    BY <1>0, <1>9 DEF Return, TypeOK
  <2>2. NoReport.sum = NoReading /\ NoReport.down = NoReading
    BY DEF NoReport
  <2> QED
    BY <1>9, <2>1, <2>2, HandlerFrame
<1>10. ASSUME NEW r \in Requests, StatusReport(r) \/ MetadataCSV(r) \/ Save(r) PROVE Reports'
  BY <1>9, <1>10 DEF StatusReport, MetadataCSV, Save
<1>11. ASSUME NEW r \in Requests, TakeDown(r) PROVE Reports'
  <2>1. report' = [report EXCEPT ![r] = [report[r] EXCEPT !.down = Current]]
    BY <1>11, Zenon DEF TakeDown
  <2>2. /\ pc'[r] = "page" /\ \A q \in Requests : q # r => pc'[q] = pc[q]
        /\ snap' = snap /\ saved' = saved
    BY <1>0, <1>11 DEF TakeDown, TypeOK
  <2>3. /\ report'[r] = [report[r] EXCEPT !.down = Current]
        /\ \A q \in Requests : q # r => report'[q] = report[q]
    BY <1>0, <2>1 DEF TypeOK
  <2>4. report'[r].sum = report[r].sum /\ report'[r].down = Current
    BY <1>0, <2>3, ReportFacts
  <2>5. report[r].sum \in Reading /\ report[r].sum \in Readings
    BY <1>0, ReportFacts DEF Readings
  <2>6. Past(report[r].sum)
    BY <2>5 DEF IInv, ReadingsPast
  <2>7. ReportFits(report'[r])
    BY <2>4, <2>5, <2>6, PastFits
  <2> QED
    BY <2>2, <2>3, <2>4, <2>7, HandlerFrame
<1>12. ASSUME NEW r \in Requests, SendPage(r) PROVE Reports'
  <2>1. snap' = snap /\ saved' = saved /\ pc[r] = "page"
    BY <1>12 DEF SendPage
  <2>2. CASE pc' = [pc EXCEPT ![r] = "save"] /\ UNCHANGED <<kind, report>>
    <3>1. \A q \in Requests : q # r => pc'[q] = pc[q]
      BY <1>0, <2>2 DEF TypeOK
    <3> QED
      BY <1>4, <2>1, <2>2, <3>1
  <2>3. CASE Return(r)
    BY <1>9, <2>1, <2>3
  <2> QED
    BY <1>12, <2>2, <2>3 DEF SendPage
<1>13. ASSUME NEW r \in Requests, HeaderCSV(r) PROVE Reports'
  <2>1. snap' = snap /\ saved' = saved
    BY <1>13 DEF HeaderCSV
  <2>2. CASE Return(r)
    BY <1>9, <2>1, <2>2
  <2>3. CASE pc' = [pc EXCEPT ![r] = "panicked"] /\ UNCHANGED <<lock, kind, report>>
    <3>1. pc'[r] = "panicked" /\ \A q \in Requests : q # r => pc'[q] = pc[q]
      BY <1>0, <2>3 DEF TypeOK
    <3> QED
      BY <1>4, <2>1, <2>3, <3>1
  <2> QED
    BY <1>13, <2>2, <2>3 DEF HeaderCSV
<1> QED
  BY <1>1, <1>2, <1>3, <1>5, <1>6, <1>7, <1>8, <1>10, <1>11, <1>12, <1>13
     DEF Next, PublisherStep, HandlerStep

\* Every reachable state of the shared report state satisfies the invariant.
LEMMA Inductive == Spec => []IInv
<1>1. Init => IInv
  <2> SUFFICES ASSUME Init PROVE IInv
    OBVIOUS
  <2>1. TypeOK
    BY InitType
  <2>2. /\ snap["metadata"] = NoSnapshot /\ snap["header"] = NoSnapshot
        /\ saved = NoReading /\ \A r \in Requests : report[r] = NoReport /\ pc[r] = "idle"
    BY DEF Init, Publishers, Procs
  <2>3. SnapshotsSound
    <3>1. Cardinality({}) = 0 /\ Cardinality(Nodes) \in Nat
      BY ServerAssumption, FS_EmptySet, FS_CardinalityType
    <3> QED
      BY <2>2, <3>1 DEF SnapshotsSound, NoSnapshot
  <2>4. \A a \in Readings : a = NoReading
    BY <2>2 DEF Readings, NoReport
  <2>5. Past(NoReading) /\ Older(NoReading, NoReading)
    BY <2>2 DEF Past, Earlier, Older, NoReading, NoSnapshot
  <2>6. ReadingsPast /\ ReadingsAreOrdered
    BY <2>4, <2>5 DEF ReadingsPast, ReadingsAreOrdered
  <2>7. TornOnlyByNewerRound
    BY <2>2 DEF TornOnlyByNewerRound
  <2> QED
    BY <2>1, <2>3, <2>6, <2>7 DEF IInv
<1>2. IInv /\ [Next]_vars => IInv'
  <2>1. IInv /\ UNCHANGED vars => IInv'
    <3> SUFFICES ASSUME IInv, UNCHANGED vars PROVE IInv'
      OBVIOUS
    <3>1. TypeOK' /\ SnapshotsSound' /\ TornOnlyByNewerRound'
      BY DEF IInv, TypeOK, SnapshotsSound, TornOnlyByNewerRound, vars
    <3>2. Readings' = Readings
      BY DEF Readings, vars
    <3>3. ReadingsPast' /\ ReadingsAreOrdered'
      BY <3>2 DEF IInv, ReadingsPast, Past, ReadingsAreOrdered, vars
    <3> QED
      BY <3>1, <3>3 DEF IInv
  <2>2. IInv /\ Next => IInv'
    BY ReportStep, TypeStep DEF IInv, Reports
  <2> QED
    BY <2>1, <2>2
<1> QED
  BY <1>1, <1>2, PTL DEF Spec

\* However monitors and handlers interleave, a report that networkSnapshot has
\* put together in its two critical sections never pairs a summary with an older
\* list; without a newer round between them the metadata show every node once, and
\* the headers, whatever consensusMonitor wrote into the list, no more nodes than
\* there are.
THEOREM ReportsTornOnlyByNewerRound == Spec => []TornOnlyByNewerRound
<1>1. IInv => TornOnlyByNewerRound
  BY DEF IInv
<1> QED
  BY <1>1, Inductive, PTL

\* However many pages are rendered, overtake each other and are saved, what they
\* and the saved summary were read from can be put in order of time.
THEOREM ReadingsOrdered == Spec => []ReadingsAreOrdered
<1>1. IInv => ReadingsAreOrdered
  BY DEF IInv
<1> QED
  BY <1>1, Inductive, PTL

-----------------------------------------------------------------------------
(* After a panic.                                                          *)

\* While a handler is stuck in its critical section nobody else enters or is in
\* one: nothing is published and nothing is saved, for ever.
THEOREM PanicFreezes == Spec => FrozenByPanic
<1>1. TypeOK /\ [Next]_vars => [Wedged => Wedged' /\ UNCHANGED <<lock, snap, saved>>]_vars
  <2> SUFFICES ASSUME TypeOK, Next, Wedged
               PROVE  Wedged' /\ UNCHANGED <<lock, snap, saved>>
    OBVIOUS
  <2>0. PICK w \in Requests : pc[w] = "panicked"
    BY DEF Wedged
  <2>1. lock = w /\ w # Free
    BY <2>0, ServerAssumption DEF TypeOK, Procs
  <2>2. \A p \in Procs : pc[p] \notin Inside
    BY <2>0, <2>1 DEF TypeOK, Procs, Inside
  <2>3. \A p \in Procs : ~Lock(p)
    BY <2>1 DEF Lock
  <2>4. ASSUME NEW p \in Procs, NEW v, pc' = [pc EXCEPT ![p] = v], p # w PROVE Wedged'
    BY <2>0, <2>4 DEF TypeOK, Wedged, Procs
  <2>5. ASSUME NEW p \in Publishers, PublisherStep(p)
        PROVE  Wedged' /\ UNCHANGED <<lock, snap, saved>>
    <3>1. FinishRound(p)
      BY <2>2, <2>3, <2>5 DEF PublisherStep, Publish, Procs, Inside
    <3>2. p # w
      BY ServerAssumption
    <3> QED
      BY <2>4, <3>1, <3>2, Zenon DEF FinishRound, Procs
  <2>6. CASE ConsensusStep
    <3>1. Consensus # w /\ Consensus \in Procs
      BY ServerAssumption DEF Publishers, Procs
    <3>2. CASE StartEvaluation \/ EndEvaluation
      BY <2>4, <3>1, <3>2 DEF StartEvaluation, EndEvaluation
    <3>3. CASE \E s \in Shards : WriteStatus(s)
      BY <2>0, <3>3 DEF WriteStatus, Wedged
    <3> QED
      BY <2>6, <3>2, <3>3 DEF ConsensusStep
  <2>7. ASSUME NEW r \in Requests, Accept(r)
        PROVE  Wedged' /\ UNCHANGED <<lock, snap, saved>>
    BY <2>0, <2>4, <2>7, Zenon DEF Accept, Procs
  <2>8. ASSUME NEW r \in Requests, HandlerStep(r)
        PROVE  Wedged' /\ UNCHANGED <<lock, snap, saved>>
    <3>1. SendPage(r)
      BY <2>2, <2>3, <2>8 DEF HandlerStep, SummaryPanics, Summarise, StatusReport, TakeDown,
         Save, HeaderCSV, MetadataCSV, Procs, Inside
    <3>2. r # w
      BY <2>0, <3>1 DEF SendPage
    <3> QED
      BY <2>4, <3>1, <3>2 DEF SendPage, Return, Procs
  <2> QED
    BY <2>5, <2>6, <2>7, <2>8 DEF Next
<1> QED
  BY <1>1, TypeInvariant, PTL DEF Spec, FrozenByPanic
=============================================================================
