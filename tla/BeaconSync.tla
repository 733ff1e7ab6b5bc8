----------------------------- MODULE BeaconSync -----------------------------
(***************************************************************************)
(* beaconSyncMonitor: do the nodes of the other shards follow the beacon   *)
(* chain?  getBeaconHeaders asks them through a pipeline of its own: a     *)
(* goroutine feeds an unbuffered channel and closes it, poolSize workers   *)
(* request and pass the replies on over a second unbuffered channel, and   *)
(* the worker that brings an atomic counter to zero closes that one.  For  *)
(* a node that is behind, checkBeaconSync looks again after a sleep.       *)
(*                                                                         *)
(* consensusMonitor starts one beaconSyncMonitor per round with the height *)
(* it has just seen.  Two of them share nothing, so the model has one at a *)
(* time; the sleeping checks of all of them live on.  Heights are uint64.  *)
(***************************************************************************)
EXTENDS Integers, FiniteSets

CONSTANTS
  Nodes,      \* the nodes of shardMap whose shard is not 0
  Workers,    \* 1..poolSize
  Threshold,  \* shard-height tolerance
  Word,       \* the modulus of uint64 arithmetic, 2^64 in the code
  MaxHeight,  \* bound: blocks of the beacon chain
  MaxRounds   \* bound: calls of beaconSyncMonitor

Nobody == "nobody"
Failed == -1

ASSUME BeaconAssumption ==
  /\ IsFiniteSet(Nodes) /\ Nobody \notin Nodes
  /\ IsFiniteSet(Workers) /\ Workers # {}
  /\ Threshold \in Nat /\ MaxRounds \in Nat
  /\ MaxHeight \in Nat \ {0} /\ Word \in Nat /\ MaxHeight < Word

VARIABLES
  head,         \* the height of the beacon chain
  height,       \* height[n]: how much of the beacon chain node n has
  rounds,       \* calls of beaconSyncMonitor so far
  beaconBlock,  \* the argument of the current call
  pc,           \* "idle", "collect"
  toSend,       \* what the feeding goroutine has still to send
  requests,     \* the channel requests: "open" or "closed"
  data,         \* the channel data
  wpc, wjob, wans,  \* per worker: place, node, what request returned
  left,         \* the atomic counter workers
  ret,          \* the map of headers collected
  checks,       \* sleeping checkBeaconSync goroutines
  checked,      \* how the check that the last step ended came out, or NoCheck
  panicked      \* a send on the closed channel ended the process

world == <<head, height>>
pipe  == <<toSend, requests, data, wpc, wjob, wans, left, ret>>
vars  == <<head, height, rounds, beaconBlock, pc, toSend, requests, data, wpc, wjob, wans,
           left, ret, checks, checked, panicked>>

NoCheck == [node |-> Nobody, valid |-> FALSE, alert |-> FALSE]

\* An answer: a failure, or a header and whether the body really was one
\* (json.Unmarshal leaves block 0 otherwise).
Invalid == [number |-> 0, valid |-> FALSE]
Answers(n) == {[number |-> height[n], valid |-> TRUE], Invalid, [number |-> Failed, valid |-> FALSE]}

\* Subtraction of uint64.
Minus(a, b) == (a - b) % Word

TypeOK ==
  /\ head \in 1..MaxHeight
  /\ height \in [Nodes -> 1..head]
  /\ rounds \in 0..MaxRounds
  /\ beaconBlock \in 0..head
  /\ pc \in {"idle", "collect"}
  /\ toSend \subseteq Nodes
  /\ requests \in {"open", "closed"} /\ data \in {"open", "closed"}
  /\ wpc \in [Workers -> {"recv", "request", "send", "last", "gone"}]
  /\ \A w \in Workers : wjob[w] \in Nodes \cup {Nobody}
  /\ left = Cardinality({w \in Workers : wpc[w] \notin {"last", "gone"}})
  /\ DOMAIN ret \subseteq Nodes
  /\ \A n \in DOMAIN ret : ret[n] \in {Failed} \cup 0..height[n]
  /\ checks \subseteq [node : Nodes, number : 0..MaxHeight, top : 0..MaxHeight]
  /\ checked = NoCheck \/ checked \in [node : Nodes, valid : BOOLEAN, alert : BOOLEAN]
  /\ panicked \in BOOLEAN

Init ==
  /\ head = 1 /\ height = [n \in Nodes |-> 1]
  /\ rounds = 0 /\ beaconBlock = 0 /\ pc = "idle"
  /\ toSend = {} /\ requests = "closed" /\ data = "closed"
  /\ wpc = [w \in Workers |-> "gone"]
  /\ wjob = [w \in Workers |-> Nobody]
  /\ wans = [w \in Workers |-> Invalid]
  /\ left = 0
  /\ ret = <<>>
  /\ checks = {} /\ checked = NoCheck /\ panicked = FALSE

-----------------------------------------------------------------------------
(* The world.                                                              *)

NewBlock ==
  /\ head < MaxHeight
  /\ head' = head + 1
  /\ checked' = NoCheck
  /\ UNCHANGED <<height, rounds, beaconBlock, pc, pipe, checks, panicked>>

CatchUp(n) ==
  /\ height[n] < head
  /\ height' = [height EXCEPT ![n] = @ + 1]
  /\ checked' = NoCheck
  /\ UNCHANGED <<head, rounds, beaconBlock, pc, pipe, checks, panicked>>

-----------------------------------------------------------------------------
(* getBeaconHeaders.                                                       *)

\* consensusMonitor calls with the highest block some answer claimed for shard 0:
\* at most the head, and 0 if all it had was an answer that was not a header.
Start ==
  /\ pc = "idle" /\ rounds < MaxRounds
  /\ rounds' = rounds + 1
  /\ beaconBlock' \in 0..head
  /\ pc' = "collect"
  /\ toSend' = Nodes /\ requests' = "open" /\ data' = "open"
  /\ wpc' = [w \in Workers |-> "recv"]
  /\ left' = Cardinality(Workers)
  /\ ret' = <<>>
  /\ checked' = NoCheck
  /\ UNCHANGED <<world, wjob, wans, checks, panicked>>

\* requests <- work{n, ...} meets the receive of worker w.
Feed(w, n) ==
  /\ n \in toSend /\ wpc[w] = "recv"
  /\ toSend' = toSend \ {n}
  /\ wjob' = [wjob EXCEPT ![w] = n]
  /\ wpc' = [wpc EXCEPT ![w] = "request"]
  /\ checked' = NoCheck
  /\ UNCHANGED <<world, rounds, beaconBlock, pc, requests, data, wans, left, ret, checks, panicked>>

\* The deferred close(requests).
CloseRequests ==
  /\ requests = "open" /\ toSend = {}
  /\ requests' = "closed"
  /\ checked' = NoCheck
  /\ UNCHANGED <<world, rounds, beaconBlock, pc, toSend, data, wpc, wjob, wans, left, ret, checks,
                 panicked>>

\* A failed request is tried again.
RequestUntilAnswered(w) ==
  /\ wpc[w] = "request"
  /\ \E a \in Answers(wjob[w]) :
       /\ wans' = [wans EXCEPT ![w] = a]
       /\ wpc' = [wpc EXCEPT ![w] = IF a.number = Failed THEN "request" ELSE "send"]
  /\ checked' = NoCheck
  /\ UNCHANGED <<world, rounds, beaconBlock, pc, toSend, requests, data, wjob, left, ret, checks,
                 panicked>>

Request(w) ==
  /\ wpc[w] = "request"
  /\ \E a \in Answers(wjob[w]) : wans' = [wans EXCEPT ![w] = a]
  /\ wpc' = [wpc EXCEPT ![w] = "send"]
  /\ checked' = NoCheck
  /\ UNCHANGED <<world, rounds, beaconBlock, pc, toSend, requests, data, wjob, left, ret, checks,
                 panicked>>

\* data <- result meets the collecting loop, which stores the header, or nil.
\* A send on the closed channel panics, and the process ends.
Deliver(w) ==
  /\ wpc[w] = "send"
  /\ panicked' = (data = "closed")
  /\ ret' = [n \in DOMAIN ret \cup {wjob[w]} |->
               IF n = wjob[w] THEN wans[w].number ELSE ret[n]]
  /\ wpc' = [wpc EXCEPT ![w] = "recv"]
  /\ wjob' = [wjob EXCEPT ![w] = Nobody]
  /\ wans' = [wans EXCEPT ![w] = Invalid]
  /\ checked' = NoCheck
  /\ UNCHANGED <<world, rounds, beaconBlock, pc, toSend, requests, data, left, checks>>

\* A worker that leaves when it finds nothing to receive at the moment.
LeaveEarly(w) ==
  /\ wpc[w] = "recv"
  /\ left' = left - 1
  /\ wpc' = [wpc EXCEPT ![w] = IF left' = 0 THEN "last" ELSE "gone"]
  /\ checked' = NoCheck
  /\ UNCHANGED <<world, rounds, beaconBlock, pc, toSend, requests, data, wjob, wans, ret, checks,
                 panicked>>

\* A worker that leaves without being counted.
LeaveUncounted(w) ==
  /\ wpc[w] = "recv" /\ requests = "closed"
  /\ wpc' = [wpc EXCEPT ![w] = "gone"]
  /\ checked' = NoCheck
  /\ UNCHANGED <<world, rounds, beaconBlock, pc, toSend, requests, data, wjob, wans, left, ret,
                 checks, panicked>>

\* The range over requests ends; atomic.AddInt32(&workers, -1).
Leave(w) ==
  /\ wpc[w] = "recv" /\ requests = "closed"
  /\ left' = left - 1
  /\ wpc' = [wpc EXCEPT ![w] = IF left' = 0 THEN "last" ELSE "gone"]
  /\ checked' = NoCheck
  /\ UNCHANGED <<world, rounds, beaconBlock, pc, toSend, requests, data, wjob, wans, ret, checks,
                 panicked>>

\* close(data) by the worker that saw the counter reach zero.
CloseData(w) ==
  /\ wpc[w] = "last"
  /\ data' = "closed"
  /\ wpc' = [wpc EXCEPT ![w] = "gone"]
  /\ checked' = NoCheck
  /\ UNCHANGED <<world, rounds, beaconBlock, pc, toSend, requests, wjob, wans, left, ret, checks,
                 panicked>>

-----------------------------------------------------------------------------
(* The evaluation and checkBeaconSync.                                     *)

\* The difference alone: a node ahead of beaconBlock wraps around.
BehindWrapped(n) == ret[n] # Failed /\ Minus(beaconBlock, ret[n]) >= Threshold

\* > in place of >=.
BehindStrict(n) ==
  /\ ret[n] # Failed
  /\ beaconBlock > ret[n] /\ Minus(beaconBlock, ret[n]) > Threshold

\* The header is old enough for a second look.
Behind(n) ==
  /\ ret[n] # Failed
  /\ beaconBlock > ret[n] /\ Minus(beaconBlock, ret[n]) >= Threshold

\* The range over data ends; a goroutine is started for each node behind.
Evaluate ==
  /\ pc = "collect" /\ data = "closed"
  /\ checks' = checks \cup {[node |-> n, number |-> ret[n], top |-> beaconBlock] :
                              n \in {m \in DOMAIN ret : Behind(m)}}
  /\ pc' = "idle"
  /\ checked' = NoCheck
  /\ UNCHANGED <<world, rounds, beaconBlock, pipe, panicked>>

\* The node has not moved and is more than the threshold below the old height.
NoProgress(c, number) == ~(number > c.number) /\ Minus(c.top, number) > Threshold

\* The sleep is over; the node is asked once more, an error is skipped.
CheckBeaconSync(c) ==
  /\ checks' = checks \ {c}
  /\ \E a \in Answers(c.node) :
       checked' = [node |-> c.node, valid |-> a.valid,
                   alert |-> a.number # Failed /\ NoProgress(c, a.number)]
  /\ UNCHANGED <<world, rounds, beaconBlock, pc, pipe, panicked>>

-----------------------------------------------------------------------------
WorkerStep(w) ==
  \/ \E n \in Nodes : Feed(w, n)
  \/ Request(w) \/ Deliver(w) \/ Leave(w) \/ CloseData(w)

Next ==
  /\ ~panicked
  /\ \/ NewBlock \/ Start \/ CloseRequests \/ Evaluate
     \/ \E n \in Nodes : CatchUp(n)
     \/ \E w \in Workers : WorkerStep(w)
     \/ \E c \in checks : CheckBeaconSync(c)

Spec == Init /\ [][Next]_vars

\* Goroutines that can go on do; the request returns (a node that never answers
\* holds its worker, as in WorkerPool).
Fairness ==
  /\ WF_vars(CloseRequests) /\ WF_vars(Evaluate)
  /\ \A w \in Workers : WF_vars(WorkerStep(w))

FairSpec == Spec /\ Fairness

-----------------------------------------------------------------------------
(* Properties.                                                             *)

\* The channel data is closed after the last send: when it is, no worker holds a
\* reply, every node was asked, and each has its one entry, so that the log line
\* "Successfully fetched %d headers, Failed: %d" accounts for all of them.  A
\* send on the closed channel never ends the process.
ClosedAfterLastReply ==
  /\ ~panicked
  /\ data = "closed" => /\ \A w \in Workers : wpc[w] = "gone" /\ wjob[w] = Nobody
                        /\ rounds > 0 => DOMAIN ret = Nodes

\* An alert after a valid answer is about a node that is more than the threshold
\* behind the beacon chain at the moment it is sent, however long the check slept
\* and however the chain and the node moved: the unsigned differences of the two
\* tests never wrap around.
BeaconAlertIsRight ==
  checked.alert /\ checked.valid => head - height[checked.node] > Threshold

\* A node that is behind is not missed.  The evaluation starts a check for each
\* node that answered and is now the threshold or more below beaconBlock, though
\* its answer may be old; and the check reports a node that has not moved and is
\* more than the threshold below, unless its second request fails or is answered
\* with something else.  A node exactly the threshold behind is checked (>=) and
\* not reported (>).
LaggardIsReported ==
  [][/\ pc = "collect" /\ pc' = "idle" =>
          \A n \in Nodes : ret[n] # Failed /\ height[n] + Threshold <= beaconBlock
                             /\ height[n] < beaconBlock =>
                           \E c \in checks' : c.node = n /\ c.top = beaconBlock
     /\ \A c \in checks \ checks' :
          checked'.valid /\ height[c.node] = c.number /\ c.number + Threshold < c.top =>
            checked'.alert]_vars

\* In no state of getBeaconHeaders do all of its goroutines wait for each other:
\* the feeder can hand over a node or close requests, or a worker holds a node,
\* can leave or can close data, or the collecting loop can end.  Both channels
\* are unbuffered and the close of each is left to another goroutine than the one
\* that waits for it.
SomebodyCanGoOn ==
  pc = "collect" =>
    \/ toSend # {} /\ \E w \in Workers : wpc[w] = "recv"
    \/ toSend = {} /\ requests = "open"
    \/ requests = "closed" /\ \E w \in Workers : wpc[w] = "recv"
    \/ \E w \in Workers : wpc[w] \in {"request", "send", "last"}
    \/ data = "closed"

At(places) == Cardinality({w \in Workers : wpc[w] \in places})
One(b) == IF b THEN 1 ELSE 0

\* The steps that are left of getBeaconHeaders: the hand-over, the request and
\* the delivery of each node, the two of each worker that leaves, and the ends of
\* the feeding and the collecting goroutine.
StepsLeft ==
  3 * Cardinality(toSend)
    + At({"request"}) + At({"request", "send"}) + At({"request", "send", "recv"})
    + At({"request", "send", "recv", "last"})
    + One(requests = "open") + One(pc = "collect")

\* A call of getBeaconHeaders takes at most three steps for each node, two for
\* each worker and two more, in whatever order its goroutines run: each step they
\* take leaves fewer to be taken.
CollectingIsBounded ==
  [][/\ pc = "idle" /\ pc' = "collect" =>
          StepsLeft' <= 3 * Cardinality(Nodes) + 2 * Cardinality(Workers) + 2
     /\ pc = "collect" /\ <<pc, pipe>>' # <<pc, pipe>> => StepsLeft' < StepsLeft]_vars

\* getBeaconHeaders returns, whichever worker is the last: feeder, workers and
\* collector never wait for each other for ever.
HeadersAreCollected == pc = "collect" ~> pc = "idle"
=============================================================================
