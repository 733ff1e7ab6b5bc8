----------------------------- MODULE WorkerPoolProofs -----------------------
(***************************************************************************)
(* The safety of the worker pool, for any number of nodes, workers, loops  *)
(* and RPCs; that a blocked loop is always served and a phase takes a      *)
(* bounded number of steps; and that the pool implements PollRound.        *)
(***************************************************************************)
EXTENDS WorkerPoolInvariant

\* The pool starts in the inductive invariant: no work, open empty channels.
LEMMA InitInv == Init => IInv
<1> SUFFICES ASSUME Init PROVE IInv
  OBVIOUS
<1> USE DEF Init
<1>1. TypeOK
  BY PoolAssumption DEF TypeOK, Faults
<1>2. Queued = {} /\ \A r \in Rpcs : Pending(r) = {}
  BY PoolAssumption DEF Queued, Pending
<1>3. JobsUnique /\ PendingOwned
  BY <1>2 DEF JobsUnique, PendingOwned
<1>4. LoopsSound /\ ChannelsSound
  BY RpcFacts DEF LoopsSound, ChannelsSound, LoopChannels, Active
<1>5. GroupCountsPending
  <2>1. \A r \in Rpcs : ~Adding(r)
    BY DEF Adding
  <2>2. \A r \in Rpcs : Cardinality(Pending(r)) = 0
    BY <1>2, FS_EmptySet, Zenon
  <2> QED
    BY <2>1, <2>2 DEF GroupCountsPending
<1>6. RepliesSound /\ NoChannelPanic /\ NoMapRaceAlone
  BY DEF RepliesSound, Active, NoChannelPanic, NoMapRaceAlone
<1> QED
  BY <1>1, <1>3, <1>4, <1>5, <1>6 DEF IInv

\* Every step of the pool preserves the inductive invariant.
LEMMA NextInv == IInv /\ [Next]_vars => IInv'
<1> SUFFICES ASSUME IInv, [Next]_vars PROVE IInv'
  OBVIOUS
<1>1. CASE UNCHANGED vars
  <2>1. UNCHANGED <<jobs, wjob, wpc>>
    BY <1>1 DEF vars
  <2>2. TypeOK' /\ LoopsSound' /\ ChannelsSound' /\ NoChannelPanic' /\ NoMapRaceAlone'
    BY <1>1 DEF IInv, vars, TypeOK, LoopsSound, ChannelsSound, LoopChannels, Active,
                NoChannelPanic, NoMapRaceAlone
  <2>3. JobsUnique' /\ PendingOwned' /\ GroupCountsPending'
    <3>1. JobsUnique'
      BY <2>1, WorkFrame DEF IInv
    <3>2. PendingOwned'
      BY <1>1, <2>1, OwnedFrame DEF IInv, vars
    <3>3. GroupCountsPending'
      BY <1>1, <2>1, WorkFrame DEF IInv, vars, GroupCountsPending, Adding
    <3> QED
      BY <3>1, <3>2, <3>3
  <2>4. RepliesSound'
    BY <1>1, <2>1, WorkFrame DEF IInv, vars, RepliesSound, PhaseReplies, Active
  <2> QED
    BY <2>2, <2>3, <2>4 DEF IInv
<1>2. ASSUME NEW l \in Loops, LoopStep(l) PROVE IInv'
  <2>1. CASE Tick(l) \/ Send(l) \/ Add(l) \/ Wait(l)
    BY <2>1, TickInv, SendInv, AddInv, WaitInv
  <2>2. CASE Close(l) \/ Collect(l) \/ BeginRemake(l) \/ EndRemake(l)
    BY <2>2, CloseInv, CollectInv, BeginRemakeInv, EndRemakeInv
  <2> QED
    BY <1>2, <2>1, <2>2 DEF LoopStep
<1>3. ASSUME NEW w \in Workers, WorkerStep(w) PROVE IInv'
  BY <1>3, RecvInv, RequestInv, SendReplyInv, DoneInv DEF WorkerStep
<1> QED
  BY <1>1, <1>2, <1>3 DEF Next, Exited

\* The inductive invariant holds in every reachable state.
THEOREM Invariance == Spec => []IInv
  BY InitInv, NextInv, PTL DEF Spec

\* Type correctness of the pool; in particular no wait group is ever negative.
THEOREM TypeCorrect == Spec => []TypeOK
<1>1. IInv => TypeOK
  BY DEF IInv
<1> QED
  BY <1>1, Invariance, PTL

\* The inductive invariant implies that a drained channel is complete.
LEMMA CompleteInv == IInv => RoundComplete
<1> SUFFICES ASSUME IInv, NEW l \in Loops, pc[l] = "collect"
             PROVE  /\ Heard(channels[rpc[l]]) = asked[l]
                    /\ Len(channels[rpc[l]]) = Cardinality(asked[l])
  BY DEF RoundComplete
<1> DEFINE s == channels[rpc[l]]
<1>1. s \in Seq(Reply) /\ asked[l] \subseteq Nodes /\ rpc[l] \in Rpcs
  BY DEF IInv, TypeOK
<1>2. PhaseReplies(l) /\ toSend[l] = {}
  BY DEF IInv, RepliesSound, Active, LoopsSound
<1>3. \A n \in Nodes : ~Undelivered(n, rpc[l])
  <2> SUFFICES ASSUME NEW n \in Nodes, Undelivered(n, rpc[l]) PROVE FALSE
    OBVIOUS
  <2>1. n \in Pending(rpc[l])
    BY PendingQueued DEF Undelivered
  <2>2. PICK k \in Loops : rpc[k] = rpc[l] /\ pc[k] \in {"send", "add"}
    BY <1>1, <2>1 DEF IInv, PendingOwned
  <2> QED
    BY <2>2, OwnerUnique DEF IInv
<1>4. Heard(s) \subseteq Nodes /\ Cardinality(Heard(s)) = Len(s)
  BY <1>1, <1>2, LenHeard DEF PhaseReplies
<1>5. Heard(s) = asked[l]
  BY <1>1, <1>2, <1>3, <1>4, Zenon DEF PhaseReplies
<1> QED
  BY <1>4, <1>5

\* When a loop drains its channel there is exactly one reply per node asked.
THEOREM RoundsAreComplete == Spec => []RoundComplete
  BY CompleteInv, Invariance, PTL

\* No send to a closed channel and no second close, in any interleaving.
THEOREM ChannelsNeverPanic == Spec => []NoChannelPanic
<1>1. IInv => NoChannelPanic
  BY DEF IInv
<1> QED
  BY <1>1, Invariance, PTL

\* The inductive invariant implies that a reply channel has room for a reply.
LEMMA RoomForReply == IInv => RepliesNeverBlock
<1> SUFFICES ASSUME IInv, NEW w \in Workers, wpc[w] = "reply"
             PROVE  Len(channels[wjob[w].rpc]) < Capacity
  BY DEF RepliesNeverBlock
<1> DEFINE n == wjob[w].address
           s == channels[wjob[w].rpc]
<1>1. PICK l \in Loops : /\ wjob[w] \in Work
                         /\ rpc[l] = wjob[w].rpc
                         /\ pc[l] \in {"send", "add"}
  BY WorkerOwner
<1>2. n \in Nodes /\ wjob[w] = Job(n, wjob[w].rpc) /\ s \in Seq(Reply)
  BY <1>1 DEF Work, Job, IInv, TypeOK
<1>3. PhaseReplies(l) /\ Undelivered(n, rpc[l])
  BY <1>1, <1>2 DEF IInv, RepliesSound, Active, Undelivered
<1>4. n \notin Heard(s)
  BY <1>1, <1>2, <1>3 DEF PhaseReplies
<1>5. /\ IsFiniteSet(Heard(s)) /\ Heard(s) \subseteq Nodes
      /\ Cardinality(Heard(s)) = Len(s)
  BY <1>1, <1>2, <1>3, LenHeard DEF PhaseReplies
<1>6. Cardinality(Heard(s)) <= Cardinality(Nodes) /\ Cardinality(Heard(s)) # Cardinality(Nodes)
  BY <1>2, <1>4, <1>5, PoolAssumption, FS_Subset
<1>7. Cardinality(Heard(s)) \in Nat /\ Cardinality(Nodes) \in Nat
  BY <1>5, PoolAssumption, FS_CardinalityType
<1> QED
  BY <1>5, <1>6, <1>7 DEF Capacity

\* The reply channel always has room for a worker's reply.
THEOREM WorkersNeverBlock == Spec => []RepliesNeverBlock
  BY RoomForReply, Invariance, PTL

\* A pool with one loop never races on the map of reply channels.
THEOREM OneLoopNeverRaces == Spec => []NoMapRaceAlone
<1>1. IInv => NoMapRaceAlone
  BY DEF IInv
<1> QED
  BY <1>1, Invariance, PTL

\* The wait group counts the outstanding requests but for the Add that is due.
THEOREM GroupsCount == Spec => []GroupCountsPending
<1>1. IInv => GroupCountsPending
  BY DEF IInv
<1> QED
  BY <1>1, Invariance, PTL

\* A blocked loop is served: some worker can go on, and a loop in Wait has a
\* request of its own outstanding.
THEOREM NoCircularWait == Spec => []BlockedLoopIsServed
<1>1. IInv => BlockedLoopIsServed
  <2> SUFFICES ASSUME IInv, NEW l \in Loops, Blocked(l)
               PROVE  /\ Workers # {} => \E w \in Workers : CanGoOn(w)
                      /\ toSend[l] = {} => asked[l] \cap Pending(rpc[l]) # {}
    BY DEF BlockedLoopIsServed
  <2>1. \A w \in Workers : wpc[w] # "recv" \/ jobs # << >> => CanGoOn(w)
    BY RoomForReply DEF RepliesNeverBlock, CanGoOn
  <2>2. CASE toSend[l] # {}
    <3>1. Len(jobs) >= Capacity /\ Capacity \in Nat \ {0}
      BY <2>2, PoolAssumption, FS_CardinalityType, FS_EmptySet DEF Blocked, Capacity
    <3>2. jobs # << >>
      BY <3>1
    <3> QED
      BY <2>1, <2>2, <3>2
  <2>3. CASE toSend[l] = {}
    <3>1. groups[rpc[l]] \in Nat \ {0} /\ rpc[l] \in Rpcs
      BY <2>3 DEF Blocked, IInv, TypeOK
    <3>2. Pending(rpc[l]) # {}
      <4>1. ~Adding(rpc[l])
        BY OwnerUnique DEF IInv, Adding, Blocked
      <4>2. Cardinality(Pending(rpc[l])) # 0
        BY <3>1, <4>1 DEF IInv, GroupCountsPending
      <4> QED
        BY <4>2, FS_EmptySet
    <3>3. PICK n \in Pending(rpc[l]) : TRUE
      BY <3>2
    <3>4. n \in asked[l]
      BY <3>1, <3>3, OwnerUnique DEF IInv, PendingOwned
    <3>5. CASE jobs # << >>
      BY <2>1, <2>3, <3>3, <3>4, <3>5
    <3>6. CASE jobs = << >>
      <4>1. Queued = {}
        BY <3>6 DEF Queued
      <4>2. n \in Nodes /\ \E w \in Workers : wjob[w] = Job(n, rpc[l])
        BY <3>3, <4>1, PendingQueued
      <4>3. PICK w \in Workers : wjob[w] = Job(n, rpc[l])
        BY <4>2
      <4>4. wpc[w] # "recv"
        BY <3>1, <4>2, <4>3, PoolAssumption DEF IInv, JobsUnique, Job
      <4> QED
        BY <2>1, <3>3, <3>4, <4>4
    <3> QED
      BY <3>5, <3>6
  <2> QED
    BY <2>2, <2>3
<1> QED
  BY <1>1, Invariance, PTL

-----------------------------------------------------------------------------
(* The bound on a phase.  A step of a worker takes one job from one level  *)
(* of Unserved to the next.                                                *)

Levels == {{}, {"request"}, {"request", "reply"}, {"request", "reply", "done"}}

(* Job j is in the queue, or with a worker at one of these places.         *)
Open(j, places) == j \in Queued \/ \E w \in Workers : wjob[w] = j /\ wpc[w] \in places

Ahead(v) == CASE v = "add" -> 3 [] v = "send" -> 2 [] v = "close" -> 1 [] OTHER -> 0

\* Unserved in terms of the jobs.
LEMMA UnservedOpen ==
  ASSUME NEW l, NEW H
  PROVE  Unserved(l, H) = {n \in asked[l] : n \in toSend[l] \/ Open(Job(n, rpc[l]), H)}
  BY DEF Unserved, Open, Queued, Job

\* The sets that StepsLeft counts are finite.
LEMMA UnservedFinite ==
  TypeOK => \A l \in Loops :
              /\ IsFiniteSet(toSend[l]) /\ Cardinality(toSend[l]) \in Nat
              /\ \A H : IsFiniteSet(Unserved(l, H)) /\ Cardinality(Unserved(l, H)) \in Nat
<1> SUFFICES ASSUME TypeOK, NEW l \in Loops
             PROVE  /\ IsFiniteSet(toSend[l]) /\ Cardinality(toSend[l]) \in Nat
                    /\ \A H : IsFiniteSet(Unserved(l, H)) /\ Cardinality(Unserved(l, H)) \in Nat
  OBVIOUS
<1>1. toSend[l] \in SUBSET Nodes /\ asked[l] \in SUBSET Nodes
  BY DEF TypeOK
<1>2. \A H : Unserved(l, H) \in SUBSET Nodes
  BY <1>1 DEF Unserved
<1> QED
  BY <1>1, <1>2, PoolAssumption, FS_Subset, FS_CardinalityType

(* The summands of StepsLeft.                                              *)
Count(l, H) == Cardinality(Unserved(l, H))

\* StepsLeft as the sum of its counts.
LEMMA StepsLeftSum ==
  ASSUME NEW l \in Loops
  PROVE  StepsLeft(l) = 2 * Cardinality(toSend[l]) + Count(l, {}) + Count(l, {"request"})
                          + Count(l, {"request", "reply"}) + Count(l, {"request", "reply", "done"})
                          + Ahead(pc[l])
  BY DEF StepsLeft, Count, Ahead

\* The loop of a job that is open: the job was sent in its present phase.
LEMMA OpenOwned ==
  ASSUME IInv, NEW x \in Work, NEW G \in Levels, Open(x, G), NEW l \in Loops, rpc[l] = x.rpc
  PROVE  x.address \in asked[l] \ toSend[l] /\ x = Job(x.address, rpc[l])
<1>1. x.address \in Nodes /\ x.rpc \in Rpcs /\ x = Job(x.address, x.rpc)
  BY DEF Work, Job
<1>2. x.address \in Pending(x.rpc)
  BY <1>1, PendingQueued DEF Open
<1>3. PICK k \in Loops : rpc[k] = x.rpc /\ x.address \in asked[k] \ toSend[k]
  BY <1>1, <1>2 DEF IInv, PendingOwned
<1>4. k = l
  BY <1>3, OwnerUnique DEF IInv
<1> QED
  BY <1>1, <1>3, <1>4

\* The levels are four.
LEMMA LevelsDiffer ==
  /\ {} # {"request"} /\ {} # {"request", "reply"} /\ {} # {"request", "reply", "done"}
  /\ {"request"} # {"request", "reply"} /\ {"request"} # {"request", "reply", "done"}
  /\ {"request", "reply"} # {"request", "reply", "done"}
<1>1. "reply" \notin {"request"} /\ "done" \notin {"request", "reply"} /\ "done" \notin {"request"}
  OBVIOUS
<1> QED
  BY <1>1

\* A step that closes one job on one level leaves its loop one step less, and the
\* other loops as many as before.
LEMMA WorkerServes ==
  ASSUME IInv, NEW x \in Work, NEW G \in Levels, UNCHANGED <<pc, rpc, asked, toSend>>,
         Open(x, G),
         \A H \in Levels, j \in Work : Open(j, H)' <=> Open(j, H) /\ ~(j = x /\ H = G),
         NEW l \in Loops
  PROVE  StepsLeft(l)' = IF rpc[l] = x.rpc THEN StepsLeft(l) - 1 ELSE StepsLeft(l)
<1> DEFINE Hit(H) == rpc[l] = x.rpc /\ H = G
<1>1. asked[l] \subseteq Nodes /\ rpc[l] \in Rpcs
  BY DEF IInv, TypeOK
<1>2. \A n \in asked[l] : Job(n, rpc[l]) \in Work
  BY <1>1 DEF Job, Work
<1>3. \A n \in asked[l] : Job(n, rpc[l]) = x => n = x.address /\ rpc[l] = x.rpc
  BY DEF Job
<1>4. rpc[l] = x.rpc => x.address \in asked[l] \ toSend[l] /\ x = Job(x.address, rpc[l])
  BY OpenOwned
<1>5. ASSUME NEW H \in Levels
      PROVE  Unserved(l, H)' = IF Hit(H) THEN Unserved(l, H) \ {x.address} ELSE Unserved(l, H)
  <2>1. Unserved(l, H) = {n \in asked[l] : n \in toSend[l] \/ Open(Job(n, rpc[l]), H)}
    BY UnservedOpen
  <2>2. Unserved(l, H)' = {n \in asked[l] : n \in toSend[l] \/ Open(Job(n, rpc[l]), H)'}
    BY DEF Unserved, Open, Queued, Job
  <2>3. \A n \in asked[l] :
          Open(Job(n, rpc[l]), H)' <=> Open(Job(n, rpc[l]), H) /\ ~(Job(n, rpc[l]) = x /\ H = G)
    BY <1>2
  <2>4. CASE Hit(H)
    BY <1>3, <1>4, <2>1, <2>2, <2>3, <2>4
  <2>5. CASE ~Hit(H)
    BY <1>3, <2>1, <2>2, <2>3, <2>5
  <2> QED
    BY <2>4, <2>5
<1>6. ASSUME NEW H \in Levels
      PROVE  /\ Count(l, H) \in Nat
             /\ Count(l, H)' = IF Hit(H) THEN Count(l, H) - 1 ELSE Count(l, H)
  <2>1. IsFiniteSet(Unserved(l, H)) /\ Count(l, H) \in Nat
    BY UnservedFinite DEF IInv, Count
  <2>2. Hit(H) => x.address \in Unserved(l, H)
    BY <1>4, UnservedOpen
  <2>3. CASE Hit(H)
    <3>1. Cardinality(Unserved(l, H) \ {x.address}) = Count(l, H) - 1
      BY <2>1, <2>2, <2>3, FS_RemoveElement, Zenon DEF Count
    <3> QED
      BY <1>5, <2>1, <2>3, <3>1, Zenon DEF Count
  <2>4. CASE ~Hit(H)
    BY <1>5, <2>1, <2>4 DEF Count
  <2> QED
    BY <2>3, <2>4
<1>7. StepsLeft(l)' = 2 * Cardinality(toSend[l]) + Count(l, {})' + Count(l, {"request"})'
                        + Count(l, {"request", "reply"})' + Count(l, {"request", "reply", "done"})'
                        + Ahead(pc[l])
  BY DEF StepsLeft, Count, Ahead
<1>8. Cardinality(toSend[l]) \in Nat /\ Ahead(pc[l]) \in Nat
  BY UnservedFinite DEF IInv, Ahead
<1>9. /\ {} \in Levels /\ {"request"} \in Levels /\ {"request", "reply"} \in Levels
      /\ {"request", "reply", "done"} \in Levels
  BY DEF Levels
<1>10. CASE rpc[l] # x.rpc
  BY <1>6, <1>7, <1>8, <1>9, <1>10, StepsLeftSum
<1>11. CASE rpc[l] = x.rpc
  <2> DEFINE c == Count(l, {})
             d == Count(l, {"request"})
             e == Count(l, {"request", "reply"})
             f == Count(l, {"request", "reply", "done"})
             t == Cardinality(toSend[l])
             a == Ahead(pc[l])
  <2>1. /\ c \in Nat /\ c' = IF G = {} THEN c - 1 ELSE c
        /\ d \in Nat /\ d' = IF G = {"request"} THEN d - 1 ELSE d
    BY <1>6, <1>9, <1>11, Zenon
  <2>2. /\ e \in Nat /\ e' = IF G = {"request", "reply"} THEN e - 1 ELSE e
        /\ f \in Nat /\ f' = IF G = {"request", "reply", "done"} THEN f - 1 ELSE f
    BY <1>6, <1>9, <1>11, Zenon
  <2>3. /\ StepsLeft(l) = 2 * t + c + d + e + f + a
        /\ StepsLeft(l)' = 2 * t + c' + d' + e' + f' + a
        /\ t \in Nat /\ a \in Nat
    BY <1>7, <1>8, StepsLeftSum, Zenon
  <2> HIDE DEF c, d, e, f, t, a
  <2>4. CASE G = {}
    <3>1. c' = c - 1 /\ d' = d /\ e' = e /\ f' = f
      BY <2>1, <2>2, <2>4, LevelsDiffer, Zenon
    <3> QED
      BY <1>11, <2>1, <2>2, <2>3, <3>1
  <2>5. CASE G = {"request"}
    <3>1. c' = c /\ d' = d - 1 /\ e' = e /\ f' = f
      BY <2>1, <2>2, <2>5, LevelsDiffer, Zenon
    <3> QED
      BY <1>11, <2>1, <2>2, <2>3, <3>1
  <2>6. CASE G = {"request", "reply"}
    <3>1. c' = c /\ d' = d /\ e' = e - 1 /\ f' = f
      BY <2>1, <2>2, <2>6, LevelsDiffer, Zenon
    <3> QED
      BY <1>11, <2>1, <2>2, <2>3, <3>1
  <2>7. CASE G = {"request", "reply", "done"}
    <3>1. c' = c /\ d' = d /\ e' = e /\ f' = f - 1
      BY <2>1, <2>2, <2>7, LevelsDiffer, Zenon
    <3> QED
      BY <1>11, <2>1, <2>2, <2>3, <3>1
  <2> QED
    BY <2>4, <2>5, <2>6, <2>7, Zenon DEF Levels
<1> QED
  BY <1>10, <1>11

(* A step of worker w closes job x on level G and touches no other.        *)
Closes(w, x, G) ==
  /\ Open(x, G)
  /\ \A H \in Levels, j \in Work : Open(j, H)' <=> Open(j, H) /\ ~(j = x /\ H = G)
  /\ {wjob[w], wjob'[w]} \subseteq {x, NoWork}
  /\ \A v \in Workers \ {w} : wpc'[v] = wpc[v]
  /\ UNCHANGED <<pc, rpc, asked, toSend>>

\* Receiving a job takes it out of the queue and into the worker's hands.
LEMMA RecvCloses ==
  ASSUME IInv, NEW w \in Workers, Recv(w)
  PROVE  \E x \in Work, G \in Levels : Closes(w, x, G)
<1> DEFINE x == Head(jobs)
<1>1. /\ wpc[w] = "recv" /\ wjob' = [wjob EXCEPT ![w] = x] /\ wpc' = [wpc EXCEPT ![w] = "request"]
      /\ UNCHANGED <<pc, rpc, asked, toSend>>
  BY DEF Recv, loopVars
<1>2. x \in Work /\ Queued = Queued' \cup {x} /\ x \notin Queued'
  BY RecvFacts
<1>3. wjob[w] = NoWork /\ NoWork \notin Work
  BY <1>1, PoolAssumption DEF IInv, JobsUnique, Work
<1>4. /\ wjob'[w] = x /\ wpc'[w] = "request"
      /\ \A v \in Workers \ {w} : wjob'[v] = wjob[v] /\ wpc'[v] = wpc[v]
  BY <1>1 DEF IInv, TypeOK
<1> HIDE DEF x
<1>5. ASSUME NEW j \in Work PROVE Open(j, {})' <=> Open(j, {}) /\ j # x
  BY <1>2 DEF Open
<1>6. ASSUME NEW j \in Work, NEW H, "request" \in H PROVE Open(j, H)' <=> Open(j, H)
  <2>1. CASE j = x
    BY <1>2, <1>4, <1>6, <2>1 DEF Open
  <2>2. CASE j # x
    BY <1>2, <1>3, <1>4, <2>2 DEF Open
  <2> QED
    BY <2>1, <2>2
<1>7. \A H \in Levels : H = {} \/ "request" \in H
  BY DEF Levels
<1>8. \A H \in Levels, j \in Work : Open(j, H)' <=> Open(j, H) /\ ~(j = x /\ H = {})
  <2> SUFFICES ASSUME NEW H \in Levels, NEW j \in Work
               PROVE  Open(j, H)' <=> Open(j, H) /\ ~(j = x /\ H = {})
    BY Zenon
  <2>1. CASE H = {}
    BY <1>5, <2>1
  <2>2. CASE H # {} /\ "request" \in H
    BY <1>6, <2>2
  <2> QED
    BY <1>7, <2>1, <2>2
<1>9. Open(x, {}) /\ {} \in Levels
  BY <1>2 DEF Open, Levels
<1>10. Closes(w, x, {})
  BY <1>1, <1>3, <1>4, <1>8, <1>9 DEF Closes
<1> QED
  BY <1>2, <1>9, <1>10

\* A worker that moves on with its job, or puts it down, closes it on the level
\* that ends with the place it leaves.
LEMMA HeldCloses ==
  ASSUME IInv, NEW w \in Workers, wpc[w] # "recv", NEW G \in Levels, wpc[w] \in G,
         UNCHANGED <<jobs, pc, rpc, asked, toSend>>,
         wjob'[w] \in {wjob[w], NoWork},
         \A v \in Workers \ {w} : wjob'[v] = wjob[v] /\ wpc'[v] = wpc[v],
         \A H \in Levels : wjob'[w] = wjob[w] /\ wpc'[w] \in H <=> wpc[w] \in H /\ H # G
  PROVE  wjob[w] \in Work /\ Closes(w, wjob[w], G)
<1> DEFINE x == wjob[w]
<1>1. x \in Work /\ x # NoWork /\ x \notin Queued /\ Queued' = Queued
  BY DEF IInv, TypeOK, JobsUnique, Queued
<1>2. \A v \in Workers \ {w} : wjob[v] # x
  BY <1>1 DEF IInv, JobsUnique
<1>3. Open(x, G)
  BY DEF Open
<1>4. \A H \in Levels, j \in Work : Open(j, H)' <=> Open(j, H) /\ ~(j = x /\ H = G)
  <2> SUFFICES ASSUME NEW H \in Levels, NEW j \in Work
               PROVE  Open(j, H)' <=> Open(j, H) /\ ~(j = x /\ H = G)
    BY Zenon
  <2>1. Open(j, H)' <=> j \in Queued \/ \E v \in Workers : wjob'[v] = j /\ wpc'[v] \in H
    BY <1>1 DEF Open
  <2>2. Open(j, H) <=> j \in Queued \/ \E v \in Workers : wjob[v] = j /\ wpc[v] \in H
    BY DEF Open
  <2>3. CASE j = x
    BY <1>1, <1>2, <2>1, <2>2, <2>3
  <2>4. CASE j # x
    <3>1. NoWork \notin Work
      BY PoolAssumption DEF Work
    <3>2. wjob'[w] # j
      BY <2>4, <3>1
    <3> QED
      BY <2>1, <2>2, <2>4, <3>2
  <2> QED
    BY <2>3, <2>4
<1> QED
  BY <1>1, <1>3, <1>4 DEF Closes

\* Every step of a worker that does not end the process closes one job on one
\* level: the queue, the request, the reply, Done.
LEMMA WorkerCloses ==
  ASSUME IInv, NEW w \in Workers, WorkerStep(w), fault' = "none"
  PROVE  \E x \in Work, G \in Levels : Closes(w, x, G)
<1> USE DEF loopVars, chanVars
<1>1. CASE Recv(w)
  BY <1>1, RecvCloses
<1>2. CASE Request(w)
  <2>1. /\ wpc[w] = "request" /\ wpc'[w] = "reply" /\ wjob'[w] = wjob[w]
        /\ \A v \in Workers \ {w} : wjob'[v] = wjob[v] /\ wpc'[v] = wpc[v]
        /\ UNCHANGED <<jobs, pc, rpc, asked, toSend>>
    BY <1>2 DEF Request, IInv, TypeOK
  <2>2. {"request"} \in Levels
        /\ \A H \in Levels : "reply" \in H <=> "request" \in H /\ H # {"request"}
    BY LevelsDiffer DEF Levels
  <2>3. wjob[w] \in Work /\ Closes(w, wjob[w], {"request"})
    BY <2>1, <2>2, HeldCloses, Zenon
  <2> QED
    BY <2>2, <2>3
<1>3. CASE SendReply(w)
  <2>1. /\ wpc[w] = "reply" /\ wpc'[w] = "done" /\ wjob'[w] = wjob[w]
        /\ \A v \in Workers \ {w} : wjob'[v] = wjob[v] /\ wpc'[v] = wpc[v]
        /\ UNCHANGED <<jobs, pc, rpc, asked, toSend>>
    BY <1>3 DEF SendReply, Throw, IInv, TypeOK
  <2>2. {"request", "reply"} \in Levels
        /\ \A H \in Levels : "done" \in H <=> "reply" \in H /\ H # {"request", "reply"}
    BY LevelsDiffer DEF Levels
  <2>3. wjob[w] \in Work /\ Closes(w, wjob[w], {"request", "reply"})
    BY <2>1, <2>2, HeldCloses, Zenon
  <2> QED
    BY <2>2, <2>3
<1>4. CASE Done(w)
  <2>1. /\ wpc[w] = "done" /\ wjob'[w] = NoWork
        /\ \A v \in Workers \ {w} : wjob'[v] = wjob[v] /\ wpc'[v] = wpc[v]
        /\ UNCHANGED <<jobs, pc, rpc, asked, toSend>>
    BY <1>4 DEF Done, Throw, IInv, TypeOK
  <2>2. {"request", "reply", "done"} \in Levels
        /\ \A H \in Levels : "done" \in H => H = {"request", "reply", "done"}
    BY DEF Levels
  <2>3. wjob[w] # NoWork
    BY <2>1 DEF IInv, JobsUnique
  <2>4. wjob[w] \in Work /\ Closes(w, wjob[w], {"request", "reply", "done"})
    BY <2>1, <2>2, <2>3, HeldCloses, Zenon
  <2> QED
    BY <2>2, <2>4
<1> QED
  BY <1>1, <1>2, <1>3, <1>4 DEF WorkerStep

\* The count is a natural number.
LEMMA StepsNatural ==
  ASSUME IInv, NEW l \in Loops
  PROVE  StepsLeft(l) \in Nat
<1> DEFINE c == Count(l, {})
           d == Count(l, {"request"})
           e == Count(l, {"request", "reply"})
           f == Count(l, {"request", "reply", "done"})
           t == Cardinality(toSend[l])
           p == Ahead(pc[l])
<1>1. StepsLeft(l) = 2 * t + c + d + e + f + p
  BY StepsLeftSum
<1>2. c \in Nat /\ d \in Nat /\ e \in Nat /\ f \in Nat /\ t \in Nat /\ p \in Nat
  BY UnservedFinite DEF IInv, Count, Ahead
<1> HIDE DEF c, d, e, f, t, p
<1> QED
  BY <1>1, <1>2

\* A step that leaves the jobs and the nodes of loop l alone moves the count by
\* what the loop's own place accounts for.
LEMMA LoopFrame ==
  ASSUME IInv, NEW l \in Loops, UNCHANGED <<jobs, wjob, wpc>>,
         rpc'[l] = rpc[l], asked'[l] = asked[l], toSend'[l] = toSend[l]
  PROVE  /\ StepsLeft(l) \in Nat
         /\ StepsLeft(l)' = (StepsLeft(l) - Ahead(pc[l])) + Ahead(pc'[l])
<1> DEFINE c == Count(l, {})
           d == Count(l, {"request"})
           e == Count(l, {"request", "reply"})
           f == Count(l, {"request", "reply", "done"})
           t == Cardinality(toSend[l])
           p == Ahead(pc[l])
           q == Ahead(pc'[l])
<1>1. \A H : Unserved(l, H)' = Unserved(l, H)
  BY DEF Unserved
<1>2. StepsLeft(l)' = 2 * t + c + d + e + f + q
  BY <1>1 DEF StepsLeft, Count, Ahead
<1>3. StepsLeft(l) = 2 * t + c + d + e + f + p
  BY StepsLeftSum
<1>4. c \in Nat /\ d \in Nat /\ e \in Nat /\ f \in Nat /\ t \in Nat
  BY UnservedFinite DEF IInv, Count
<1>5. p \in Nat /\ q \in Nat
  BY DEF Ahead
<1> HIDE DEF c, d, e, f, t, p, q
<1>6. /\ StepsLeft(l) \in Nat
      /\ StepsLeft(l)' = (StepsLeft(l) - p) + q
  BY <1>2, <1>3, <1>4, <1>5
<1> QED
  BY <1>6 DEF p, q

\* Sending a job leaves its loop one step less, the Add being the next, and the
\* other loops as many as before.
LEMMA SendServes ==
  ASSUME IInv, NEW m \in Loops, Send(m), NEW l \in Loops
  PROVE  /\ StepsLeft(l) \in Nat
         /\ StepsLeft(l)' = IF l = m THEN StepsLeft(l) - 1 ELSE StepsLeft(l)
<1> DEFINE r == rpc[m]
           c == Count(l, {})
           d == Count(l, {"request"})
           e == Count(l, {"request", "reply"})
           f == Count(l, {"request", "reply", "done"})
           t == Cardinality(toSend[l])
           u == Cardinality(toSend'[l])
           p == Ahead(pc[l])
           q == Ahead(pc'[l])
<1>1. PICK n \in toSend[m] :
        /\ jobs' = Append(jobs, Job(n, r))
        /\ toSend' = [toSend EXCEPT ![m] = @ \ {n}]
  BY Zenon DEF Send, Job
<1>2. /\ pc[m] = "send" /\ pc' = [pc EXCEPT ![m] = "add"]
      /\ UNCHANGED <<rpc, asked, wpc, wjob>>
  BY DEF Send, workerVars
<1>3. Job(n, r) \in Work /\ n \in asked[m]
  BY <1>1 DEF IInv, TypeOK, LoopsSound, Work, Job
<1>4. Queued' = Queued \cup {Job(n, r)}
  <2>1. jobs \in Seq(Work)
    BY DEF IInv, TypeOK
  <2>2. /\ DOMAIN jobs = 1..Len(jobs) /\ Len(jobs) \in Nat
        /\ DOMAIN jobs' = 1..(Len(jobs) + 1)
        /\ \A i \in 1..Len(jobs) : jobs'[i] = jobs[i]
        /\ jobs'[Len(jobs) + 1] = Job(n, r)
    BY <1>1, <1>3, <2>1
  <2> QED
    BY <2>2 DEF Queued
<1>5. toSend'[l] = (IF l = m THEN toSend[l] \ {n} ELSE toSend[l])
      /\ pc'[l] = IF l = m THEN "add" ELSE pc[l]
  BY <1>1, <1>2, Zenon DEF IInv, TypeOK
<1>6. ASSUME NEW H PROVE Unserved(l, H)' = Unserved(l, H)
  <2>1. Unserved(l, H) = {k \in asked[l] : k \in toSend[l] \/ Open(Job(k, rpc[l]), H)}
    BY UnservedOpen
  <2>2. Unserved(l, H)' = {k \in asked[l] : k \in toSend'[l] \/ Open(Job(k, rpc[l]), H)'}
    BY <1>2 DEF Unserved, Open, Queued, Job
  <2>3. \A k : Open(Job(k, rpc[l]), H)' <=> Open(Job(k, rpc[l]), H) \/ Job(k, rpc[l]) = Job(n, r)
    BY <1>2, <1>4 DEF Open
  <2>4. \A k : Job(k, rpc[l]) = Job(n, r) <=> k = n /\ rpc[l] = r
    BY DEF Job
  <2>5. CASE l = m
    BY <1>1, <1>5, <2>1, <2>2, <2>3, <2>4, <2>5
  <2>6. CASE l # m
    <3>1. rpc[l] # r
      BY <2>6, OwnerUnique DEF IInv
    <3> QED
      BY <1>5, <2>1, <2>2, <2>3, <2>4, <2>6, <3>1
  <2> QED
    BY <2>5, <2>6
<1>7. StepsLeft(l)' = 2 * u + c + d + e + f + q
  BY <1>6 DEF StepsLeft, Count, Ahead
<1>8. StepsLeft(l) = 2 * t + c + d + e + f + p
  BY StepsLeftSum
<1>9. c \in Nat /\ d \in Nat /\ e \in Nat /\ f \in Nat /\ t \in Nat /\ IsFiniteSet(toSend[l])
  BY UnservedFinite DEF IInv, Count
<1>10. p \in Nat /\ (l = m => p = 2 /\ q = 3) /\ (l # m => q = p)
  BY <1>2, <1>5 DEF Ahead
<1>11. l = m => u = t - 1
  <2> SUFFICES ASSUME l = m PROVE Cardinality(toSend'[l]) = Cardinality(toSend[l]) - 1
    OBVIOUS
  <2>1. n \in toSend[l] /\ toSend'[l] = toSend[l] \ {n} /\ IsFiniteSet(toSend[l])
    BY <1>1, <1>5, <1>9
  <2>2. Cardinality(toSend[l] \ {n}) = Cardinality(toSend[l]) - 1
    BY <2>1, FS_RemoveElement, Zenon
  <2> QED
    BY <2>1, <2>2
<1>12. l # m => u = t
  BY <1>5
<1> HIDE DEF c, d, e, f, t, u, p, q
<1>13. CASE l = m
  BY <1>7, <1>8, <1>9, <1>10, <1>11, <1>13
<1>14. CASE l # m
  BY <1>7, <1>8, <1>9, <1>10, <1>12, <1>14
<1> QED
  BY <1>13, <1>14

\* A phase that asks k nodes starts with at most 6 * k + 2 steps, and never has
\* more: a loop that is about to Add has a request out.
LEMMA StepsBound ==
  ASSUME IInv, NEW l \in Loops
  PROVE  StepsLeft(l) <= 6 * Cardinality(asked[l]) + 2
<1> DEFINE c == Count(l, {})
           d == Count(l, {"request"})
           e == Count(l, {"request", "reply"})
           f == Count(l, {"request", "reply", "done"})
           t == Cardinality(toSend[l])
           p == Ahead(pc[l])
           k == Cardinality(asked[l])
<1>1. asked[l] \in SUBSET Nodes /\ toSend[l] \subseteq asked[l]
  BY DEF IInv, TypeOK, LoopsSound
<1>2. IsFiniteSet(asked[l]) /\ k \in Nat
  BY <1>1, PoolAssumption, FS_Subset, FS_CardinalityType
<1>3. \A H : Unserved(l, H) \subseteq asked[l]
  BY DEF Unserved
<1>4. c <= k /\ d <= k /\ e <= k /\ f <= k
  BY <1>2, <1>3, FS_Subset DEF Count
<1>5. t <= k /\ (t = k => toSend[l] = asked[l])
  BY <1>1, <1>2, FS_Subset
<1>6. pc[l] = "add" => t # k
  <2> SUFFICES ASSUME pc[l] = "add" PROVE toSend[l] # asked[l]
    BY <1>5
  <2>1. rpc[l] \in Rpcs /\ groups[rpc[l]] \in Nat
    BY DEF IInv, TypeOK
  <2>2. groups[rpc[l]] = Cardinality(Pending(rpc[l])) - 1
    BY <2>1 DEF IInv, GroupCountsPending, Adding
  <2>3. Pending(rpc[l]) # {}
    <3>1. Cardinality({}) = 0
      BY FS_EmptySet
    <3>2. IsFiniteSet(Pending(rpc[l])) /\ Cardinality(Pending(rpc[l])) \in Nat
      BY PendingFinite, FS_CardinalityType
    <3>3. Cardinality(Pending(rpc[l])) # 0
      BY <2>1, <2>2, <3>2
    <3> QED
      BY <3>1, <3>3
  <2>4. PICK n \in Pending(rpc[l]) : TRUE
    BY <2>3
  <2> QED
    BY <2>1, <2>4, OwnerUnique DEF IInv, PendingOwned
<1>7. c \in Nat /\ d \in Nat /\ e \in Nat /\ f \in Nat /\ t \in Nat
  BY UnservedFinite DEF IInv, Count
<1>8. p \in Nat /\ p <= 3 /\ (pc[l] # "add" => p <= 2)
  BY DEF Ahead
<1>9. StepsLeft(l) = 2 * t + c + d + e + f + p
  BY StepsLeftSum
<1> HIDE DEF c, d, e, f, t, p, k
<1>10. 2 * t + c + d + e + f + p <= 6 * k + 2
  <2>1. CASE pc[l] = "add"
    BY <1>2, <1>4, <1>5, <1>6, <1>7, <1>8, <2>1
  <2>2. CASE pc[l] # "add"
    BY <1>2, <1>4, <1>5, <1>7, <1>8, <2>2
  <2> QED
    BY <2>1, <2>2
<1> QED
  BY <1>9, <1>10 DEF k

\* What one step does to the count of a loop in its phase.
LEMMA StepServes ==
  ASSUME IInv, [Next]_vars, NEW l \in Loops, fault' = "none", pc[l] \in {"send", "add", "close"}
  PROVE  /\ StepsLeft(l)' <= StepsLeft(l)
         /\ WorksFor(l) => StepsLeft(l)' < StepsLeft(l)
<1> USE DEF loopVars, workerVars, chanVars
<1>1. CASE UNCHANGED vars
  <2>1. StepsLeft(l) \in Nat /\ StepsLeft(l)' = (StepsLeft(l) - Ahead(pc[l])) + Ahead(pc'[l])
    BY <1>1, LoopFrame DEF vars
  <2>2. pc'[l] = pc[l] /\ Ahead(pc[l]) \in Nat /\ ~WorksFor(l)
    BY <1>1 DEF vars, Ahead, WorksFor
  <2> QED
    BY <2>1, <2>2
<1>2. ASSUME NEW w \in Workers, WorkerStep(w)
      PROVE  /\ StepsLeft(l)' <= StepsLeft(l)
             /\ WorksFor(l) => StepsLeft(l)' < StepsLeft(l)
  <2>1. PICK x \in Work, G \in Levels : Closes(w, x, G)
    BY <1>2, WorkerCloses
  <2>2. /\ Open(x, G) /\ UNCHANGED <<pc, rpc, asked, toSend>>
        /\ \A H \in Levels, j \in Work : Open(j, H)' <=> Open(j, H) /\ ~(j = x /\ H = G)
    BY <2>1 DEF Closes
  <2>3. StepsLeft(l)' = IF rpc[l] = x.rpc THEN StepsLeft(l) - 1 ELSE StepsLeft(l)
    BY <2>2, WorkerServes
  <2>4. WorksFor(l) => rpc[l] = x.rpc
    <3> SUFFICES ASSUME WorksFor(l) PROVE rpc[l] = x.rpc
      OBVIOUS
    <3>1. PICK v \in Workers : /\ wpc'[v] # wpc[v]
                               /\ {wjob[v], wjob'[v]} \cap [address : Nodes, rpc : {rpc[l]}] # {}
      BY <2>2 DEF WorksFor
    <3>2. v = w /\ {wjob[w], wjob'[w]} \subseteq {x, NoWork}
      BY <2>1, <3>1 DEF Closes
    <3>3. NoWork \notin [address : Nodes, rpc : {rpc[l]}]
      <4>1. rpc[l] \in Rpcs
        BY DEF IInv, TypeOK
      <4>2. [address : Nodes, rpc : {rpc[l]}] \subseteq Work
        BY <4>1 DEF Work
      <4> QED
        BY <4>2, PoolAssumption DEF Work
    <3>4. x \in [address : Nodes, rpc : {rpc[l]}]
      BY <3>1, <3>2, <3>3
    <3> QED
      BY <3>4
  <2>5. StepsLeft(l) \in Nat
    BY StepsNatural
  <2> QED
    BY <2>3, <2>4, <2>5
<1>3. ASSUME NEW m \in Loops, LoopStep(m)
      PROVE  /\ StepsLeft(l)' <= StepsLeft(l)
             /\ WorksFor(l) => StepsLeft(l)' < StepsLeft(l)
  <2>1. UNCHANGED <<wjob, wpc>>
    BY <1>3, Zenon DEF LoopStep, Tick, Send, Add, Wait, Close, Collect, BeginRemake, EndRemake, Throw
  <2>2. WorksFor(l) => pc'[l] # pc[l]
    BY <2>1 DEF WorksFor
  <2>3. CASE Send(m)
    <3>1. /\ StepsLeft(l) \in Nat
          /\ StepsLeft(l)' = IF l = m THEN StepsLeft(l) - 1 ELSE StepsLeft(l)
      BY <2>3, SendServes
    <3>2. l # m => pc'[l] = pc[l]
      BY <2>3 DEF Send, IInv, TypeOK
    <3>3. CASE l = m
      BY <3>1, <3>3
    <3>4. CASE l # m
      BY <2>2, <3>1, <3>2, <3>4
    <3> QED
      BY <3>3, <3>4
  <2>4. ASSUME ~Send(m), l # m
        PROVE  /\ StepsLeft(l)' <= StepsLeft(l)
               /\ ~WorksFor(l)
    <3>1. /\ UNCHANGED jobs
          /\ pc'[l] = pc[l] /\ rpc'[l] = rpc[l] /\ asked'[l] = asked[l] /\ toSend'[l] = toSend[l]
      <4>1. CASE Tick(m) \/ Add(m) \/ Wait(m) \/ Close(m)
        BY <2>4, <4>1 DEF Tick, Add, Wait, Close, Throw, IInv, TypeOK
      <4>2. CASE Collect(m)
        BY <2>4, <4>2 DEF Collect, AskLeaders, EndRound, Throw, IInv, TypeOK
      <4>3. CASE BeginRemake(m) \/ EndRemake(m)
        BY <2>4, <4>3 DEF BeginRemake, EndRemake, Throw, IInv, TypeOK
      <4> QED
        BY <1>3, <2>4, <4>1, <4>2, <4>3 DEF LoopStep
    <3>2. StepsLeft(l) \in Nat /\ StepsLeft(l)' = (StepsLeft(l) - Ahead(pc[l])) + Ahead(pc'[l])
      BY <2>1, <3>1, LoopFrame
    <3>3. Ahead(pc[l]) \in Nat
      BY DEF Ahead
    <3> QED
      BY <2>2, <3>1, <3>2, <3>3
  <2>5. ASSUME ~Send(m), l = m
        PROVE  StepsLeft(l)' <= StepsLeft(l) /\ StepsLeft(l)' < StepsLeft(l)
    <3>1. Add(l) \/ Wait(l) \/ Close(l)
      BY <1>3, <2>5 DEF LoopStep, Tick, Collect, BeginRemake, EndRemake
    <3>2. /\ UNCHANGED <<jobs, rpc, asked, toSend>>
          /\ \/ pc[l] = "add" /\ pc'[l] = "send"
             \/ pc[l] = "send" /\ pc'[l] = "close"
             \/ pc[l] = "close" /\ pc'[l] = "collect"
      BY <3>1 DEF Add, Wait, Close, Throw, IInv, TypeOK
    <3>3. StepsLeft(l) \in Nat /\ StepsLeft(l)' = (StepsLeft(l) - Ahead(pc[l])) + Ahead(pc'[l])
      BY <2>1, <3>2, LoopFrame
    <3>4. Ahead(pc[l]) \in Nat /\ Ahead(pc'[l]) \in Nat /\ Ahead(pc'[l]) < Ahead(pc[l])
      BY <3>2 DEF Ahead
    <3> QED
      BY <3>3, <3>4
  <2>6. CASE ~Send(m) /\ l = m
    BY <2>5, <2>6
  <2> QED
    BY <2>3, <2>4, <2>6
<1>4. CASE Exited
  BY <1>1, <1>4 DEF Exited
<1> QED
  BY <1>1, <1>2, <1>3, <1>4 DEF Next

\* Of the steps that serve a question, at most 6 * k + 2 are left when it goes to
\* k nodes, and every one that is taken leaves fewer (manager and the polling
\* loops, down to close(channels[rpc])).
THEOREM PhasesEnd == Spec => PhaseIsBounded
<1>1. IInv /\ [Next]_vars =>
        [\A l \in Loops : fault' = "none" /\ pc[l] \in {"send", "add", "close"} =>
           /\ StepsLeft(l) <= 6 * Cardinality(asked[l]) + 2
           /\ StepsLeft(l)' <= StepsLeft(l)
           /\ WorksFor(l) => StepsLeft(l)' < StepsLeft(l)]_vars
  BY StepsBound, StepServes
<1> QED
  BY <1>1, Invariance, PTL DEF Spec, PhaseIsBounded

-----------------------------------------------------------------------------
Resting == {"idle", "remake", "remaking"}
Stages == [l \in Loops |-> IF pc[l] \in Resting THEN "idle"
                           ELSE IF rpc[l] = Lead[l] THEN "first" ELSE "second"]
Replies == [l \in Loops |-> IF pc[l] \in Resting THEN << >> ELSE channels[rpc[l]]]

\* PollRound reads a sequence of replies as the pool does.
LEMMA SameReading ==
  ASSUME NEW s
  PROVE  Abstract!Heard(s) = Heard(s) /\ Abstract!Answered(s) = Answered(s)
  BY DEF Abstract!Heard, Heard, Abstract!Answered, Answered

\* A step that leaves the mapped state alone is a stutter of PollRound.
LEMMA Stutter ==
  ASSUME Stages' = Stages, Replies' = Replies, UNCHANGED <<asked, fault>>
  PROVE  UNCHANGED Abstract!vars
  BY DEF Abstract!vars, Stages, Replies, Resting

\* The end of the process is PollRound's End.
LEMMA ThrowEnds ==
  ASSUME fault = "none", NEW what, what # "none", Throw(what)
  PROVE  Abstract!Next
  BY DEF Throw, loopVars, workerVars, chanVars, Abstract!Next, Abstract!End

\* The steps of a loop that are not visible: sending, adding, waiting, closing
\* and the replacement of the channels.
LEMMA HiddenLoopStep ==
  ASSUME IInv, fault = "none", NEW l \in Loops,
         Send(l) \/ Add(l) \/ Wait(l) \/ Close(l) \/ BeginRemake(l) \/ EndRemake(l)
  PROVE  Abstract!Next \/ UNCHANGED Abstract!vars
<1> USE DEF workerVars, chanVars
<1>1. CASE Throw("concurrentMap") \/ Throw("closeOfClosed")
  BY <1>1, ThrowEnds
<1>2. CASE /\ UNCHANGED <<rpc, asked, channels, fault>>
           /\ pc' = [pc EXCEPT ![l] = pc'[l]]
           /\ pc'[l] \in Resting <=> pc[l] \in Resting
  <2>1. Stages' = Stages /\ Replies' = Replies
    BY <1>2, Zenon DEF Stages, Replies, IInv, TypeOK
  <2> QED
    BY <1>2, <2>1, Stutter
<1>3. CASE EndRemake(l)
  <2>1. /\ pc[l] = "remaking" /\ pc' = [pc EXCEPT ![l] = pc'[l]] /\ pc'[l] \in Resting
        /\ rpc' = [rpc EXCEPT ![l] = rpc'[l]]
        /\ channels' = [channels EXCEPT ![rpc[l]] = << >>]
        /\ UNCHANGED <<asked, fault>>
    BY <1>3 DEF EndRemake, Resting, IInv, TypeOK
  <2>2. \A k \in Loops : k # l => channels'[rpc[k]] = channels[rpc[k]]
    BY <2>1, OwnerUnique DEF IInv, TypeOK
  <2>3. \A k \in Loops : /\ pc'[k] \in Resting <=> pc[k] \in Resting
                         /\ k # l => rpc'[k] = rpc[k]
    BY <2>1 DEF IInv, TypeOK, Resting
  <2>4. Stages' = Stages
    BY <2>1, <2>3 DEF Stages, Resting
  <2>5. Replies' = Replies
    BY <2>1, <2>2, <2>3 DEF Replies, Resting
  <2> QED
    BY <2>1, <2>4, <2>5, Stutter
<1>4. CASE Send(l) \/ Add(l) \/ Wait(l)
  BY <1>2, <1>4 DEF Send, Add, Wait, Resting, IInv, TypeOK
<1>5. CASE Close(l)
  BY <1>1, <1>2, <1>5 DEF Close, Resting, IInv, TypeOK
<1>6. CASE BeginRemake(l)
  BY <1>1, <1>2, <1>6 DEF BeginRemake, Resting, IInv, TypeOK
<1> QED
  BY <1>3, <1>4, <1>5, <1>6

\* A tick is PollRound's Ask.
LEMMA TickAsks ==
  ASSUME IInv, fault = "none", NEW l \in Loops, Tick(l)
  PROVE  Abstract!Next
<1> USE DEF Tick, workerVars, chanVars
<1>1. rpc[l] = Lead[l] /\ channels[rpc[l]] = << >>
  BY RpcFacts DEF IInv, LoopsSound, ChannelsSound, LoopChannels, Active
<1>2. Stages[l] = "idle" /\ Stages' = [Stages EXCEPT ![l] = "first"]
  BY <1>1, Zenon DEF Stages, Resting, IInv, TypeOK
<1>3. Replies' = Replies
  BY <1>1 DEF Replies, Resting, IInv, TypeOK
<1>4. Abstract!Ask(l)
  BY <1>2, <1>3 DEF Abstract!Ask, Stages, Replies, Resting
<1> QED
  BY <1>4 DEF Abstract!Next

\* Draining a channel is PollRound's AskAgain or Finish: all replies are there.
LEMMA CollectDelivers ==
  ASSUME IInv, fault = "none", NEW l \in Loops, Collect(l)
  PROVE  Abstract!Next
<1> USE DEF workerVars
<1>0. pc[l] = "collect"
  BY DEF Collect
<1>1. CASE Throw("concurrentMap")
  BY <1>1, ThrowEnds
<1>2. CASE /\ channels' = [channels EXCEPT ![rpc[l]] = << >>]
           /\ AskLeaders(l) \/ EndRound(l)
           /\ UNCHANGED <<workerVars, jobs, closed, groups, fault>>
  <2>0. Replies[l] = channels[rpc[l]]
    BY <1>0 DEF Replies, Resting
  <2>1. Abstract!AllHeard(l)
    <3>1. Heard(channels[rpc[l]]) = asked[l]
      BY <1>0, CompleteInv DEF RoundComplete
    <3>2. Abstract!Heard(Replies[l]) = asked[l]
      BY <2>0, <3>1, SameReading
    <3> QED
      BY <3>2 DEF Abstract!AllHeard, Replies, Resting
  <2>2. \A k \in Loops : k # l => channels'[rpc[k]] = channels[rpc[k]]
    BY <1>2, OwnerUnique DEF IInv, TypeOK
  <2>3. CASE AskLeaders(l)
    <3>1. Stages[l] = "first" /\ Stages' = [Stages EXCEPT ![l] = "second"]
      <4>1. /\ rpc[l] = Lead[l] /\ Follow[l] # Lead[l]
            /\ rpc' = [rpc EXCEPT ![l] = Follow[l]]
            /\ pc' = [pc EXCEPT ![l] = "send"]
        BY <2>3, RpcFacts DEF AskLeaders
      <4> QED
        BY <1>0, <4>1, Zenon DEF Stages, Resting, IInv, TypeOK
    <3>2. channels'[Follow[l]] = << >>
      BY <1>0, <1>2, <2>3, RpcFacts
         DEF AskLeaders, IInv, TypeOK, ChannelsSound, LoopChannels, Active
    <3>3. Replies' = [Replies EXCEPT ![l] = << >>]
      <4>1. /\ rpc' = [rpc EXCEPT ![l] = Follow[l]]
            /\ pc' = [pc EXCEPT ![l] = "send"]
        BY <2>3 DEF AskLeaders
      <4> QED
        BY <1>0, <2>2, <3>2, <4>1, Zenon DEF Replies, Resting, IInv, TypeOK
    <3>4. \E leaders \in SUBSET Abstract!Answered(Replies[l]) :
            asked' = [asked EXCEPT ![l] = leaders]
      <4>1. Abstract!Answered(Replies[l]) = Answered(channels[rpc[l]])
        BY <2>0, SameReading
      <4>2. PICK leaders \in SUBSET Answered(channels[rpc[l]]) :
              asked' = [asked EXCEPT ![l] = leaders]
        BY <2>3, Zenon DEF AskLeaders
      <4> QED
        BY <4>1, <4>2, Zenon
    <3>5. l \in {k \in Loops : Follow[k] # NoRpc}
      BY <2>3 DEF AskLeaders
    <3>6. /\ fault' = fault
          /\ \E leaders \in SUBSET Abstract!Answered(
                 [k \in Loops |-> IF pc[k] \in {"idle", "remake", "remaking"} THEN << >>
                                  ELSE channels[rpc[k]]][l]) :
               asked' = [asked EXCEPT ![l] = leaders]
      BY <1>2, <3>4, Zenon DEF Replies, Resting
    <3>7. Abstract!AskAgain(l)
      BY <2>1, <3>1, <3>3, <3>5, <3>6, Zenon DEF Abstract!AskAgain, Stages, Replies, Resting
    <3> QED
      BY <3>7 DEF Abstract!Next
  <2>4. CASE EndRound(l)
    <3>1. /\ Stages[l] = IF Follow[l] # NoRpc THEN "second" ELSE "first"
          /\ Stages' = [Stages EXCEPT ![l] = "idle"]
      <4>1. rpc[l] = IF Follow[l] # NoRpc THEN Follow[l] ELSE Lead[l]
        BY <2>4, RpcFacts DEF EndRound, IInv, LoopsSound
      <4>2. /\ rpc' = [rpc EXCEPT ![l] = Lead[l]]
            /\ pc' = [pc EXCEPT ![l] = "remake"]
        BY <2>4 DEF EndRound
      <4> QED
        BY <1>0, <4>1, <4>2, RpcFacts, Zenon DEF Stages, Resting, IInv, TypeOK
    <3>2. Replies' = [Replies EXCEPT ![l] = << >>]
      BY <1>0, <2>2, <2>4, Zenon DEF EndRound, Replies, Resting, IInv, TypeOK
    <3>3. Abstract!Finish(l)
      BY <1>2, <2>1, <2>4, <3>1, <3>2, Zenon
         DEF Abstract!Finish, EndRound, Stages, Replies, Resting
    <3> QED
      BY <3>3 DEF Abstract!Next
  <2> QED
    BY <1>2, <2>3, <2>4
<1> QED
  BY <1>1, <1>2 DEF Collect

\* A worker's reply is PollRound's Hear for the loop that asked.
LEMMA ReplyHeard ==
  ASSUME IInv, fault = "none", NEW w \in Workers, SendReply(w)
  PROVE  Abstract!Next
<1> DEFINE n == wjob[w].address
           r == wjob[w].rpc
           e == [address |-> n, oops |-> woops[w]]
<1> USE DEF loopVars
<1>0. wpc[w] = "reply"
  BY Zenon DEF SendReply
<1>1. PICK l \in Loops : /\ wjob[w] \in Work
                         /\ rpc[l] = r
                         /\ pc[l] \in {"send", "add"}
                         /\ n \in asked[l] \ toSend[l]
                         /\ ~closed[r]
  BY <1>0, WorkerOwner
<1>2. n \in Nodes /\ r \in Rpcs /\ wjob[w] = Job(n, r) /\ woops[w] \in BOOLEAN
  BY <1>1 DEF Work, Job, IInv, TypeOK
<1>3. CASE Throw("concurrentMap")
  BY <1>3, ThrowEnds
<1>4. CASE /\ channels' = [channels EXCEPT ![r] = Append(@, e)]
           /\ UNCHANGED <<loopVars, fault>>
  <2>1. Stages' = Stages /\ Stages[l] # "idle"
    BY <1>1, <1>4 DEF Stages, Resting
  <2>2. Replies' = [Replies EXCEPT ![l] = Append(@, e)] /\ Replies[l] = channels[r]
    <3>1. \A k \in Loops : k # l => rpc[k] # r
      BY <1>1, OwnerUnique, Zenon DEF IInv
    <3> QED
      BY <1>1, <1>2, <1>4, <3>1, Zenon DEF Replies, Resting, IInv, TypeOK
  <2>3. n \in asked[l] \ Heard(channels[r])
    <3>1. PhaseReplies(l) /\ Undelivered(n, r)
      BY <1>0, <1>1, <1>2 DEF IInv, RepliesSound, Active, Undelivered
    <3> QED
      BY <1>1, <1>2, <3>1 DEF PhaseReplies
  <2>4. n \in asked[l] \ Abstract!Heard(Replies[l])
    BY <2>2, <2>3, SameReading
  <2>5. Abstract!Hear(l)
    BY <1>2, <1>4, <2>1, <2>2, <2>4, Zenon DEF Abstract!Hear, Stages, Replies, Resting
  <2> QED
    BY <2>5 DEF Abstract!Next
<1> QED
  BY <1>1, <1>3, <1>4, Zenon DEF SendReply

\* What the other steps of a worker do is not visible.
LEMMA HiddenWorkerStep ==
  ASSUME fault = "none", NEW w \in Workers, Recv(w) \/ Request(w) \/ Done(w)
  PROVE  Abstract!Next \/ UNCHANGED Abstract!vars
<1> USE DEF loopVars, chanVars
<1>1. CASE UNCHANGED <<pc, rpc, asked, channels, fault>>
  BY <1>1, Stutter DEF Stages, Replies
<1>2. CASE Throw("negativeWaitGroup")
  BY <1>2, ThrowEnds
<1> QED
  BY <1>1, <1>2 DEF Recv, Request, Done

-----------------------------------------------------------------------------
\* The pool, with its channels, wait groups and workers, does nothing that
\* PollRound does not allow: complete rounds, or the end of the process.
THEOREM Refinement == Spec => ImplementsPollRound
<1>1. Init => Abstract!Init
  <2> SUFFICES ASSUME Init PROVE Abstract!Init
    OBVIOUS
  <2> QED
    BY DEF Init, Abstract!Init
<1>2. IInv /\ [Next]_vars => [Abstract!Next]_(Abstract!vars)
  <2> SUFFICES ASSUME IInv, [Next]_vars
               PROVE  Abstract!Next \/ UNCHANGED Abstract!vars
    OBVIOUS
  <2>1. CASE UNCHANGED vars
    BY <2>1, Stutter, Zenon DEF vars, Stages, Replies
  <2>2. ASSUME fault = "none", NEW l \in Loops, LoopStep(l)
        PROVE  Abstract!Next \/ UNCHANGED Abstract!vars
    BY <2>2, HiddenLoopStep, TickAsks, CollectDelivers DEF LoopStep
  <2>3. ASSUME fault = "none", NEW w \in Workers, WorkerStep(w)
        PROVE  Abstract!Next \/ UNCHANGED Abstract!vars
    BY <2>3, HiddenWorkerStep, ReplyHeard DEF WorkerStep
  <2> QED
    BY <2>1, <2>2, <2>3 DEF Next, Exited
<1> QED
  BY <1>1, <1>2, Invariance, PTL DEF Spec, Abstract!Spec, ImplementsPollRound
=============================================================================
