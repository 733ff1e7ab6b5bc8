----------------------------- MODULE WorkerPool -----------------------------
(***************************************************************************)
(* One RPC worker pool of the watchdog: the goroutines that poll           *)
(* (`manager`, `consensusMonitor`, `cxMonitor`, `crossLinkMonitor`), the   *)
(* `jobs` channel they feed, the goroutines running `worker`, and the      *)
(* reply channels and wait groups through which a round comes back.        *)
(*                                                                         *)
(* Every polling loop has the same shape.  For each address it sends a job *)
(* and then adds one to the wait group; it waits for the group, closes the *)
(* reply channel of the RPC, drains it, and stores a new channel in the    *)
(* shared map before the next tick.  `cxMonitor` and `crossLinkMonitor` do *)
(* that twice per tick, the second time only to the nodes that said they   *)
(* are leaders.  The two managers started by `update` share one pool; the  *)
(* other loops have a pool each.                                           *)
(*                                                                         *)
(* The Go runtime ends the process on a negative wait group, on a send to  *)
(* or a second close of a closed channel, and, when it notices it, on a    *)
(* map that is written while another goroutine uses it.  `fault` records   *)
(* which of these happened; nothing runs afterwards.                       *)
(***************************************************************************)
EXTENDS Integers, Sequences, FiniteSets

CONSTANTS
  Nodes,      \* the addresses, keys of shardMap
  Workers,    \* the goroutines running worker()
  Loops,      \* the polling goroutines that share this pool
  Rpcs,       \* the RPC methods, keys of replyChannels and syncGroups
  Lead,       \* Lead[l]: the RPC with which loop l starts a round
  Follow,     \* Follow[l]: the RPC loop l then sends to the leaders, or NoRpc
  NoRpc,      \* no second RPC in the round
  Scope,      \* Scope[l]: the addresses loop l asks at a tick
  HungNodes,  \* addresses that may accept a connection and never answer
  NoWork      \* a worker holds no job

RpcsOf(l) == {Lead[l], Follow[l]} \ {NoRpc}

ASSUME PoolAssumption ==
  /\ IsFiniteSet(Nodes) /\ Nodes # {}
  /\ Lead \in [Loops -> Rpcs]
  /\ Follow \in [Loops -> Rpcs \cup {NoRpc}]
  /\ NoRpc \notin Rpcs
  /\ \A l \in Loops : Lead[l] # Follow[l]
  /\ \A l, m \in Loops : l # m => RpcsOf(l) \cap RpcsOf(m) = {}
  /\ Scope \in [Loops -> SUBSET Nodes]
  /\ HungNodes \subseteq Nodes
  /\ NoWork \notin [address : Nodes, rpc : Rpcs]

VARIABLES
  jobs,      \* the buffered channel of work
  channels,  \* channels[r]: what the reply channel of RPC r holds
  closed,    \* closed[r]: that channel has been closed
  groups,    \* groups[r]: the counter of the wait group of r
  pc,        \* pc[l]: where loop l is
  rpc,       \* rpc[l]: the RPC loop l is working with
  asked,     \* asked[l]: the addresses loop l asks in this phase
  toSend,    \* toSend[l]: those its range statement has not reached yet
  wpc,       \* wpc[w]: where worker w is
  wjob,      \* wjob[w]: the job worker w holds
  woops,     \* woops[w]: request() returned an error for it
  fault      \* what made the runtime end the process, or "none"

loopVars   == <<pc, rpc, asked, toSend>>
workerVars == <<wpc, wjob, woops>>
chanVars   == <<jobs, channels, closed, groups>>
vars       == <<jobs, channels, closed, groups, pc, rpc, asked, toSend,
                wpc, wjob, woops, fault>>

Work   == [address : Nodes, rpc : Rpcs]
Reply  == [address : Nodes, oops : BOOLEAN]
Faults == {"none", "negativeWaitGroup", "sendOnClosed", "closeOfClosed",
           "concurrentMap"}

CapacityShort == Cardinality(Nodes) - 1

\* make(chan work, len(shardMap)) and make(chan reply, len(shardMap))
Capacity == Cardinality(Nodes)

TypeOK ==
  /\ jobs \in Seq(Work)
  /\ channels \in [Rpcs -> Seq(Reply)]
  /\ closed \in [Rpcs -> BOOLEAN]
  /\ groups \in [Rpcs -> Nat]
  /\ pc \in [Loops -> {"idle", "send", "add", "close", "collect", "remake", "remaking"}]
  /\ rpc \in [Loops -> Rpcs]
  /\ asked \in [Loops -> SUBSET Nodes]
  /\ toSend \in [Loops -> SUBSET Nodes]
  /\ wpc \in [Workers -> {"recv", "request", "reply", "done"}]
  /\ wjob \in [Workers -> Work \cup {NoWork}]
  /\ woops \in [Workers -> BOOLEAN]
  /\ fault \in Faults

Init ==
  /\ jobs = << >>
  /\ channels = [r \in Rpcs |-> << >>]
  /\ closed = [r \in Rpcs |-> FALSE]
  /\ groups = [r \in Rpcs |-> 0]
  /\ pc = [l \in Loops |-> "idle"]
  /\ rpc = Lead
  /\ asked = [l \in Loops |-> {}]
  /\ toSend = [l \in Loops |-> {}]
  /\ wpc = [w \in Workers |-> "recv"]
  /\ wjob = [w \in Workers |-> NoWork]
  /\ woops = [w \in Workers |-> FALSE]
  /\ fault = "none"

-----------------------------------------------------------------------------
(* The runtime ends the process.                                           *)
Throw(what) ==
  /\ fault' = what
  /\ UNCHANGED <<loopVars, workerVars, chanVars>>

(* A loop other than l is inside an assignment to the shared map           *)
(* `channels`: an access by l, or by a worker, may be noticed and fatal.   *)
MapWrittenBy(others) == \E m \in others : pc[m] = "remaking"

-----------------------------------------------------------------------------
(* The polling loop.                                                       *)

Tick(l) ==
  /\ pc[l] = "idle"
  /\ pc' = [pc EXCEPT ![l] = "send"]
  /\ asked' = [asked EXCEPT ![l] = Scope[l]]
  /\ toSend' = [toSend EXCEPT ![l] = Scope[l]]
  /\ UNCHANGED <<rpc, workerVars, chanVars, fault>>

\* jobs <- work{n, rpc, requestBody}: blocks while the channel is full.
Send(l) ==
  /\ pc[l] = "send"
  /\ Len(jobs) < Capacity
  /\ \E n \in toSend[l] :
       /\ jobs' = Append(jobs, [address |-> n, rpc |-> rpc[l]])
       /\ toSend' = [toSend EXCEPT ![l] = @ \ {n}]
  /\ pc' = [pc EXCEPT ![l] = "add"]
  /\ UNCHANGED <<rpc, asked, workerVars, channels, closed, groups, fault>>

\* group.Add(1), after the job has already been handed over.
Add(l) ==
  /\ pc[l] = "add"
  /\ groups' = [groups EXCEPT ![rpc[l]] = @ + 1]
  /\ pc' = [pc EXCEPT ![l] = "send"]
  /\ UNCHANGED <<rpc, asked, toSend, workerVars, jobs, channels, closed, fault>>

\* Wait returning while one request is still out.
WaitEarly(l) ==
  /\ pc[l] = "send"
  /\ toSend[l] = {}
  /\ groups[rpc[l]] <= 1
  /\ pc' = [pc EXCEPT ![l] = "close"]
  /\ UNCHANGED <<rpc, asked, toSend, workerVars, chanVars, fault>>

\* group.Wait()
Wait(l) ==
  /\ pc[l] = "send"
  /\ toSend[l] = {}
  /\ groups[rpc[l]] = 0
  /\ pc' = [pc EXCEPT ![l] = "close"]
  /\ UNCHANGED <<rpc, asked, toSend, workerVars, chanVars, fault>>

\* close(channels[rpc])
Close(l) ==
  /\ pc[l] = "close"
  /\ \/ /\ MapWrittenBy(Loops \ {l})
        /\ Throw("concurrentMap")
     \/ IF closed[rpc[l]]
        THEN Throw("closeOfClosed")
        ELSE /\ closed' = [closed EXCEPT ![rpc[l]] = TRUE]
             /\ pc' = [pc EXCEPT ![l] = "collect"]
             /\ UNCHANGED <<rpc, asked, toSend, workerVars, jobs, channels, groups, fault>>

\* The replies without an error; which of them claim leadership is up to the nodes.
Answered(s) == {s[i].address : i \in {j \in DOMAIN s : ~s[j].oops}}

\* The second phase of cxMonitor and crossLinkMonitor goes to the leaders among
\* the nodes that answered the first.
AskLeaders(l) ==
  /\ rpc[l] = Lead[l]
  /\ Follow[l] # NoRpc
  /\ \E leaders \in SUBSET Answered(channels[rpc[l]]) :
       /\ asked' = [asked EXCEPT ![l] = leaders]
       /\ toSend' = [toSend EXCEPT ![l] = leaders]
  /\ rpc' = [rpc EXCEPT ![l] = Follow[l]]
  /\ pc' = [pc EXCEPT ![l] = "send"]

EndRound(l) ==
  /\ rpc[l] = Follow[l] \/ Follow[l] = NoRpc
  /\ asked' = [asked EXCEPT ![l] = {}]
  /\ rpc' = [rpc EXCEPT ![l] = Lead[l]]
  /\ pc' = [pc EXCEPT ![l] = "remake"]
  /\ UNCHANGED toSend

\* for d := range channels[rpc] drains the closed channel; what is done with the
\* replies is the subject of other modules.  (crossLinkMonitor stops at the first
\* answer to its second question and drops the rest with the channel.)
Collect(l) ==
  /\ pc[l] = "collect"
  /\ \/ /\ MapWrittenBy(Loops \ {l})
        /\ Throw("concurrentMap")
     \/ /\ channels' = [channels EXCEPT ![rpc[l]] = << >>]
        /\ AskLeaders(l) \/ EndRound(l)
        /\ UNCHANGED <<workerVars, jobs, closed, groups, fault>>

\* channels[rpc] = make(chan reply, len(shardMap)): the map is being written
\* between the two steps.
BeginRemake(l) ==
  /\ pc[l] = "remake"
  /\ \/ /\ MapWrittenBy(Loops \ {l})
        /\ Throw("concurrentMap")
     \/ /\ pc' = [pc EXCEPT ![l] = "remaking"]
        /\ UNCHANGED <<rpc, asked, toSend, workerVars, chanVars, fault>>

\* The channel not replaced at the end of the round.
EndRemakeForgotten(l) ==
  /\ pc[l] = "remaking"
  /\ pc' = [pc EXCEPT ![l] = "idle"]
  /\ rpc' = [rpc EXCEPT ![l] = Lead[l]]
  /\ UNCHANGED <<asked, toSend, workerVars, chanVars, fault>>

EndRemake(l) ==
  /\ pc[l] = "remaking"
  /\ channels' = [channels EXCEPT ![rpc[l]] = << >>]
  /\ closed' = [closed EXCEPT ![rpc[l]] = FALSE]
  /\ \/ /\ rpc[l] = Lead[l]
        /\ Follow[l] # NoRpc
        /\ rpc' = [rpc EXCEPT ![l] = Follow[l]]
        /\ pc' = [pc EXCEPT ![l] = "remake"]
     \/ /\ rpc[l] = Follow[l] \/ Follow[l] = NoRpc
        /\ rpc' = [rpc EXCEPT ![l] = Lead[l]]
        /\ pc' = [pc EXCEPT ![l] = "idle"]
  /\ UNCHANGED <<asked, toSend, workerVars, jobs, groups, fault>>

-----------------------------------------------------------------------------
(* The worker.                                                             *)

\* for j := range jobs
Recv(w) ==
  /\ wpc[w] = "recv"
  /\ jobs # << >>
  /\ wjob' = [wjob EXCEPT ![w] = Head(jobs)]
  /\ jobs' = Tail(jobs)
  /\ wpc' = [wpc EXCEPT ![w] = "request"]
  /\ UNCHANGED <<loopVars, woops, channels, closed, groups, fault>>

\* A failed request goes back into the queue.
RequestRequeued(w) ==
  /\ wpc[w] = "request"
  /\ \/ /\ woops' = [woops EXCEPT ![w] = FALSE]
        /\ wpc' = [wpc EXCEPT ![w] = "reply"]
        /\ UNCHANGED <<wjob, jobs>>
     \/ /\ jobs' = Append(jobs, wjob[w])
        /\ wjob' = [wjob EXCEPT ![w] = NoWork]
        /\ wpc' = [wpc EXCEPT ![w] = "recv"]
        /\ UNCHANGED woops
  /\ UNCHANGED <<loopVars, channels, closed, groups, fault>>

\* request() returns: an error when the dial times out or is refused, the status
\* is not 200 or the body is empty; a body otherwise.  The client bounds the
\* dial only, so nothing makes this step happen when the node stays silent.
Request(w) ==
  /\ wpc[w] = "request"
  /\ \E oops \in BOOLEAN : woops' = [woops EXCEPT ![w] = oops]
  /\ wpc' = [wpc EXCEPT ![w] = "reply"]
  /\ UNCHANGED <<loopVars, wjob, chanVars, fault>>

\* channels[j.rpc] <- result: blocks while the channel is full.
SendReply(w) ==
  LET r == wjob[w].rpc IN
  /\ wpc[w] = "reply"
  /\ \/ /\ MapWrittenBy(Loops)
        /\ Throw("concurrentMap")
     \/ IF closed[r]
        THEN Throw("sendOnClosed")
        ELSE /\ Len(channels[r]) < Capacity
             /\ channels' = [channels EXCEPT ![r] =
                  Append(@, [address |-> wjob[w].address, oops |-> woops[w]])]
             /\ wpc' = [wpc EXCEPT ![w] = "done"]
             /\ UNCHANGED <<loopVars, wjob, woops, jobs, closed, groups, fault>>

\* Done without the runtime's check of the counter.
DoneUnchecked(w) ==
  /\ wpc[w] = "done"
  /\ groups' = [groups EXCEPT ![wjob[w].rpc] = @ - 1]
  /\ wpc' = [wpc EXCEPT ![w] = "recv"]
  /\ wjob' = [wjob EXCEPT ![w] = NoWork]
  /\ woops' = [woops EXCEPT ![w] = FALSE]
  /\ UNCHANGED <<loopVars, jobs, channels, closed, fault>>

\* Done forgotten on the error path.
DoneUnlessOops(w) ==
  LET r == wjob[w].rpc IN
  /\ wpc[w] = "done"
  /\ groups' = IF woops[w] \/ groups[r] = 0 THEN groups ELSE [groups EXCEPT ![r] = @ - 1]
  /\ wpc' = [wpc EXCEPT ![w] = "recv"]
  /\ wjob' = [wjob EXCEPT ![w] = NoWork]
  /\ woops' = [woops EXCEPT ![w] = FALSE]
  /\ UNCHANGED <<loopVars, jobs, channels, closed, fault>>

\* groups[j.rpc].Done()
Done(w) ==
  LET r == wjob[w].rpc IN
  /\ wpc[w] = "done"
  /\ \/ /\ groups[r] = 0
        /\ Throw("negativeWaitGroup")
     \/ /\ groups[r] # 0
        /\ groups' = [groups EXCEPT ![r] = @ - 1]
        /\ wpc' = [wpc EXCEPT ![w] = "recv"]
        /\ wjob' = [wjob EXCEPT ![w] = NoWork]
        /\ woops' = [woops EXCEPT ![w] = FALSE]
        /\ UNCHANGED <<loopVars, jobs, channels, closed, fault>>

-----------------------------------------------------------------------------
LoopStep(l) ==
  \/ Tick(l) \/ Send(l) \/ Add(l) \/ Wait(l) \/ Close(l)
  \/ Collect(l) \/ BeginRemake(l) \/ EndRemake(l)

WorkerStep(w) == Recv(w) \/ Request(w) \/ SendReply(w) \/ Done(w)

\* The process has ended.
Exited ==
  /\ fault # "none"
  /\ UNCHANGED vars

Next ==
  \/ /\ fault = "none"
     /\ \/ \E l \in Loops : LoopStep(l)
        \/ \E w \in Workers : WorkerStep(w)
  \/ Exited

Spec == Init /\ [][Next]_vars

(***************************************************************************)
(* Scheduling.  The Go scheduler is fair to runnable goroutines, and a     *)
(* goroutine blocked on a full channel is queued in order of arrival, so a *)
(* loop that can send again and again does send.  A request returns unless *)
(* its node is one of those that hold the connection and stay silent.      *)
(***************************************************************************)
Runs(l) == fault = "none" /\ LoopStep(l)

Works(w) ==
  /\ fault = "none"
  /\ \/ Recv(w) \/ SendReply(w) \/ Done(w)
     \/ wjob[w] # NoWork /\ wjob[w].address \notin HungNodes /\ Request(w)

Fairness ==
  /\ \A l \in Loops : SF_vars(Runs(l))
  /\ \A w \in Workers : WF_vars(Works(w))

FairSpec == Spec /\ Fairness

-----------------------------------------------------------------------------
(* Properties.                                                             *)

Heard(s) == {s[i].address : i \in DOMAIN s}

\* When a loop drains the reply channel (manager's range over channels[rpc]),
\* the channel holds exactly one reply for each address asked in this round:
\* none lost, none twice, none left over from an earlier round, although the
\* wait group is incremented only after the job is already with a worker.
RoundComplete ==
  \A l \in Loops : pc[l] = "collect" =>
    /\ Heard(channels[rpc[l]]) = asked[l]
    /\ Len(channels[rpc[l]]) = Cardinality(asked[l])

\* No worker sends its reply to a channel a loop has closed, and no loop closes
\* one twice, across any number of rounds of close and make.
NoChannelPanic == fault \notin {"sendOnClosed", "closeOfClosed"}

\* A reply channel made with room for len(shardMap) replies is never full when
\* a worker has a reply for it, so a worker never blocks between request and
\* Done, and the loops that wait for it cannot be caught in a cycle with it.
RepliesNeverBlock ==
  \A w \in Workers : wpc[w] = "reply" => Len(channels[wjob[w].rpc]) < Capacity

\* A pool used by one polling loop never touches the map of reply channels from
\* two goroutines at once: the loop replaces a channel only when no worker is
\* about to look one up.  (The pool of update has two loops.)
NoMapRaceAlone ==
  (\A l, m \in Loops : l = m) => fault # "concurrentMap"

\* The addresses of RPC r that were sent and whose Done has not happened.
Pending(r) ==
  {n \in Nodes : \/ \E i \in DOMAIN jobs : jobs[i] = [address |-> n, rpc |-> r]
                 \/ \E w \in Workers : wjob[w] = [address |-> n, rpc |-> r]}

Adding(r) == \E l \in Loops : pc[l] = "add" /\ rpc[l] = r

\* The wait group counts the outstanding requests, short by the one whose Add
\* has not run yet: the reason Wait cannot return early and, at zero, the reason
\* Done can come first and end the process.
GroupCountsPending ==
  \A r \in Rpcs :
    groups[r] = Cardinality(Pending(r)) - (IF Adding(r) THEN 1 ELSE 0)

\* Worker w is not blocked: jobs holds something for it to receive, and its reply
\* channel has room.
CanGoOn(w) ==
  /\ wpc[w] = "recv" => jobs # << >>
  /\ wpc[w] = "reply" => Len(channels[wjob[w].rpc]) < Capacity

\* Loop l is blocked: in group.Wait(), or on the full jobs channel.
Blocked(l) ==
  pc[l] = "send" /\ IF toSend[l] = {} THEN groups[rpc[l]] # 0 ELSE Len(jobs) >= Capacity

\* Nobody waits for nothing: when a loop is blocked, some worker is not, and a
\* loop in Wait has a request of its own in the queue or with a worker.  So loops
\* and workers never wait for each other in a circle, however the loops share the
\* pool.  (A negative num-workers passes sanityCheck and starts no worker.)
BlockedLoopIsServed ==
  \A l \in Loops : Blocked(l) =>
    /\ Workers # {} => \E w \in Workers : CanGoOn(w)
    /\ toSend[l] = {} => asked[l] \cap Pending(rpc[l]) # {}

\* The nodes loop l has asked whose request is unsent, in the queue, or with a
\* worker at one of these places.
Unserved(l, places) ==
  {n \in asked[l] :
     \/ n \in toSend[l]
     \/ \E i \in DOMAIN jobs : jobs[i] = [address |-> n, rpc |-> rpc[l]]
     \/ \E w \in Workers : wjob[w] = [address |-> n, rpc |-> rpc[l]] /\ wpc[w] \in places}

\* The steps that are left until loop l drains its channel: sending, receiving,
\* requesting, replying, Done and Add for each node, Wait and close.
StepsLeft(l) ==
  2 * Cardinality(toSend[l])
    + Cardinality(Unserved(l, {})) + Cardinality(Unserved(l, {"request"}))
    + Cardinality(Unserved(l, {"request", "reply"}))
    + Cardinality(Unserved(l, {"request", "reply", "done"}))
    + CASE pc[l] = "add" -> 3 [] pc[l] = "send" -> 2 [] pc[l] = "close" -> 1 [] OTHER -> 0

\* The place of loop l, or of a worker with a request of its, changes.
WorksFor(l) ==
  \/ pc'[l] # pc[l]
  \/ \E w \in Workers :
       wpc'[w] # wpc[w] /\ {wjob[w], wjob'[w]} \cap [address : Nodes, rpc : {rpc[l]}] # {}

\* A question that goes to k nodes is answered after at most 6 * k + 2 steps of
\* its loop and of the workers that serve it: each of them leaves fewer to be
\* taken, and what the other loops and their requests do in between adds none.
PhaseIsBounded ==
  [][\A l \in Loops : fault' = "none" /\ pc[l] \in {"send", "add", "close"} =>
       /\ StepsLeft(l) <= 6 * Cardinality(asked[l]) + 2
       /\ StepsLeft(l)' <= StepsLeft(l)
       /\ WorksFor(l) => StepsLeft(l)' < StepsLeft(l)]_vars

\* Once a loop has started a round it gets back to its tick, or the process has
\* ended: loops that share workers and a full jobs channel do not starve or
\* deadlock each other.
RoundsComplete ==
  \A l \in Loops : pc[l] = "send" ~> (pc[l] = "idle" \/ fault # "none")

\* Every loop goes on checking for ever, as the inspect-schedule of the README
\* says it does.
ChecksKeepHappening == \A l \in Loops : []<>(pc[l] = "send")

-----------------------------------------------------------------------------
(* The pool implements PollRound.  A loop is idle from the end of the last *)
(* drain on; the replies are what its current channel holds.               *)
Abstract == INSTANCE PollRound WITH
  TwoPhase <- {l \in Loops : Follow[l] # NoRpc},
  stage    <- [l \in Loops |->
                 IF pc[l] \in {"idle", "remake", "remaking"} THEN "idle"
                 ELSE IF rpc[l] = Lead[l] THEN "first" ELSE "second"],
  asked    <- asked,
  replies  <- [l \in Loops |->
                 IF pc[l] \in {"idle", "remake", "remaking"} THEN << >>
                 ELSE channels[rpc[l]]],
  alive    <- (fault = "none")

\* Seen from the monitors, a pool is a sequence of complete rounds that may be
\* cut short by the end of the process: PollRound.
ImplementsPollRound == Abstract!Spec
=============================================================================
