-------------------------- MODULE BeaconSyncProofs --------------------------
(***************************************************************************)
(* The safety of beaconSyncMonitor, for any number of nodes and workers    *)
(* and chains of any height below the modulus: getBeaconHeaders closes its *)
(* channel after the last reply and has one for each node, the alerts of   *)
(* checkBeaconSync are right, and a node that is behind is not missed.  A  *)
(* call never has all of its goroutines waiting, and its steps are bounded.*)
(***************************************************************************)
EXTENDS BeaconSync, FiniteSetTheorems, TLAPS

Busy(w) == wpc[w] \in {"request", "send"}
Counted(w) == wpc[w] \notin {"last", "gone"}

(* A worker has a node exactly while it asks for it or passes the reply    *)
(* on, and the reply is no newer than the node.                            *)
WorkersSound ==
  /\ wjob \in [Workers -> Nodes \cup {Nobody}]
  /\ wans \in [Workers -> [number : {Failed} \cup 0..MaxHeight, valid : BOOLEAN]]
  /\ \A w \in Workers : Busy(w) <=> wjob[w] # Nobody
  /\ \A w \in Workers : wpc[w] = "send" => wans[w].number \in {Failed} \cup 0..height[wjob[w]]

(* Workers leave after the feeding goroutine has closed requests, and the  *)
(* one that is to close data is alone.                                     *)
LeavingSound ==
  /\ requests = "open" => \A w \in Workers : Counted(w)
  /\ requests = "closed" => toSend = {}
  /\ \A w \in Workers : wpc[w] = "last" => \A v \in Workers \ {w} : wpc[v] = "gone"
  /\ data = "closed" <=> \A w \in Workers : wpc[w] = "gone"
  /\ pc = "idle" => data = "closed"
  /\ pc = "collect" => rounds > 0

(* No node is lost between the feeding goroutine and the map.              *)
NodesAccounted ==
  rounds > 0 => \A n \in Nodes :
    n \in toSend \/ n \in DOMAIN ret \/ \E w \in Workers : wjob[w] = n

(* A sleeping check was started for a node that was behind.                *)
ChecksSound ==
  \A c \in checks : c.number < c.top /\ c.top <= head

IInv ==
  /\ TypeOK
  /\ WorkersSound
  /\ LeavingSound
  /\ NodesAccounted
  /\ ChecksSound
  /\ BeaconAlertIsRight
  /\ ~panicked

-----------------------------------------------------------------------------
(* Facts about uint64 and about the counter.                               *)

\* The unsigned difference is the difference when it is not negative.
LEMMA MinusFact ==
  ASSUME NEW a \in 0..MaxHeight, NEW b \in 0..MaxHeight, b <= a
  PROVE  Minus(a, b) = a - b
<1>1. a - b \in 0..(Word - 1) /\ Word \in Nat \ {0}
  BY BeaconAssumption
<1> QED
  BY <1>1 DEF Minus

CountedWorkers == {w \in Workers : Counted(w)}

\* The counter counts the workers that have not left.
LEMMA LeftIsCount == TypeOK => left = Cardinality(CountedWorkers)
  BY DEF TypeOK, CountedWorkers, Counted

\* A worker that leaves is counted down, and finds zero only as the last one.
LEMMA CountDown ==
  ASSUME TypeOK, NEW w \in Workers, Counted(w), NEW v \in {"last", "gone"},
         wpc' = [wpc EXCEPT ![w] = v]
  PROVE  /\ left \in Nat \ {0}
         /\ left - 1 = Cardinality(CountedWorkers)'
         /\ left - 1 = 0 <=> \A x \in Workers \ {w} : ~Counted(x)
<1>1. IsFiniteSet(CountedWorkers) /\ w \in CountedWorkers
  BY BeaconAssumption, FS_Subset DEF CountedWorkers
<1>2. CountedWorkers' = CountedWorkers \ {w}
  BY DEF CountedWorkers, Counted, TypeOK
<1>3. /\ IsFiniteSet(CountedWorkers \ {w})
      /\ Cardinality(CountedWorkers \ {w}) = Cardinality(CountedWorkers) - 1
      /\ Cardinality(CountedWorkers \ {w}) \in Nat
  BY <1>1, FS_RemoveElement, FS_CardinalityType
<1>4. Cardinality(CountedWorkers \ {w}) = 0 <=> CountedWorkers \ {w} = {}
  BY <1>3, FS_EmptySet, Zenon
<1>5. CountedWorkers \ {w} = {} <=> \A x \in Workers \ {w} : ~Counted(x)
  BY DEF CountedWorkers
<1>6. left \in Nat
  BY <1>1, LeftIsCount, FS_CardinalityType
<1>7. left - 1 = Cardinality(CountedWorkers \ {w})
  BY <1>3, LeftIsCount
<1>8. left \in Nat \ {0}
  BY <1>3, <1>6, <1>7
<1>9. left - 1 = Cardinality(CountedWorkers)'
  BY <1>2, <1>7
<1>10. left - 1 = 0 <=> \A x \in Workers \ {w} : ~Counted(x)
  BY <1>4, <1>5, <1>7, Zenon
<1> QED
  BY <1>8, <1>9, <1>10

\* A step of a worker that stays is not counted.
LEMMA CountKept ==
  ASSUME TypeOK, NEW w \in Workers, Counted(w), NEW v, v \notin {"last", "gone"},
         wpc' = [wpc EXCEPT ![w] = v]
  PROVE  left = Cardinality(CountedWorkers)'
<1>1. CountedWorkers' = CountedWorkers
  BY DEF CountedWorkers, Counted, TypeOK
<1> QED
  BY <1>1, LeftIsCount

\* No check, no alert.
LEMMA NoCheckQuiet == ASSUME checked' = NoCheck PROVE BeaconAlertIsRight'
  BY DEF BeaconAlertIsRight, NoCheck

-----------------------------------------------------------------------------
(* One lemma per step: each preserves the inductive invariant.             *)

\* The chain grows: what was collected and what is checked is still below it.
LEMMA NewBlockInv == IInv /\ NewBlock => IInv'
<1> SUFFICES ASSUME IInv, NewBlock PROVE IInv'
  OBVIOUS
<1>0. /\ head' = head + 1 /\ head' \in 1..MaxHeight /\ head \in 1..MaxHeight
      /\ checked' = NoCheck
      /\ UNCHANGED <<height, rounds, beaconBlock, pc, toSend, requests, data, wpc, wjob, wans,
                     left, ret, checks, panicked>>
  BY BeaconAssumption DEF NewBlock, pipe, IInv, TypeOK
<1>1. TypeOK'
  BY <1>0 DEF IInv, TypeOK
<1>2. WorkersSound' /\ LeavingSound' /\ NodesAccounted'
  BY <1>0 DEF IInv, WorkersSound, LeavingSound, NodesAccounted, Busy, Counted
<1>3. ChecksSound'
  <2> SUFFICES ASSUME NEW c \in checks PROVE c.number < c.top /\ c.top <= head'
    BY <1>0 DEF ChecksSound
  <2>1. c.number < c.top /\ c.top <= head /\ c.top \in Nat
    BY DEF IInv, ChecksSound, TypeOK
  <2> QED
    BY <1>0, <2>1
<1> QED
  BY <1>0, <1>1, <1>2, <1>3, NoCheckQuiet DEF IInv

\* A node gets a block: what it answered before is still no newer than the node.
LEMMA CatchUpInv == ASSUME IInv, NEW n \in Nodes, CatchUp(n) PROVE IInv'
<1>0. /\ height[n] < head /\ height' = [height EXCEPT ![n] = height[n] + 1]
      /\ checked' = NoCheck
      /\ UNCHANGED <<head, rounds, beaconBlock, pc, toSend, requests, data, wpc, wjob, wans,
                     left, ret, checks, panicked>>
  BY DEF CatchUp, pipe
<1>1. /\ head \in 1..MaxHeight /\ height \in [Nodes -> 1..head]
      /\ height' \in [Nodes -> 1..head]
      /\ \A m \in Nodes : height[m] <= height'[m]
  BY <1>0, BeaconAssumption DEF IInv, TypeOK
<1>2. \A m \in Nodes : {Failed} \cup 0..height[m] \subseteq {Failed} \cup 0..height'[m]
  BY <1>1
<1>3. TypeOK'
  BY <1>0, <1>1, <1>2 DEF IInv, TypeOK
<1>4. WorkersSound'
  <2>1. \A w \in Workers : wpc[w] = "send" => wjob[w] \in Nodes
    BY DEF IInv, WorkersSound, Busy
  <2> QED
    BY <1>0, <1>2, <2>1 DEF IInv, WorkersSound, Busy
<1>5. LeavingSound' /\ NodesAccounted' /\ ChecksSound'
  BY <1>0 DEF IInv, LeavingSound, NodesAccounted, ChecksSound, Counted
<1> QED
  BY <1>0, <1>3, <1>4, <1>5, NoCheckQuiet DEF IInv

\* A new call: the workers of the last one have all gone, so none holds a node.
LEMMA StartInv == ASSUME IInv, Start PROVE IInv'
<1>0. /\ pc = "idle" /\ rounds < MaxRounds
      /\ rounds' = rounds + 1 /\ beaconBlock' \in 0..head /\ pc' = "collect"
      /\ toSend' = Nodes /\ requests' = "open" /\ data' = "open"
      /\ wpc' = [w \in Workers |-> "recv"]
      /\ left' = Cardinality(Workers) /\ ret' = << >> /\ checked' = NoCheck
      /\ UNCHANGED <<head, height, wjob, wans, checks, panicked>>
  BY DEF Start, world
<1>1. DOMAIN ret' = {}
  BY <1>0
<1>2. CountedWorkers' = Workers
  BY <1>0 DEF CountedWorkers, Counted
<1>3. rounds' \in 0..MaxRounds /\ rounds' > 0
  BY <1>0, BeaconAssumption DEF IInv, TypeOK
<1>4. TypeOK'
  <2>1. left' = Cardinality({w \in Workers : wpc'[w] \notin {"last", "gone"}})
    BY <1>0, <1>2, Zenon DEF CountedWorkers, Counted
  <2> QED
    BY <1>0, <1>1, <1>3, <2>1 DEF IInv, TypeOK
<1>5. WorkersSound'
  <2>1. \A w \in Workers : wjob[w] = Nobody
    BY <1>0 DEF IInv, LeavingSound, WorkersSound, Busy
  <2>2. \A w \in Workers : wpc'[w] = "recv"
    BY <1>0
  <2> QED
    BY <1>0, <2>1, <2>2 DEF IInv, WorkersSound, Busy
<1>6. LeavingSound'
  BY <1>0, <1>3, BeaconAssumption DEF LeavingSound, Counted
<1>7. NodesAccounted' /\ ChecksSound'
  BY <1>0 DEF IInv, NodesAccounted, ChecksSound
<1> QED
  BY <1>0, <1>4, <1>5, <1>6, <1>7, NoCheckQuiet DEF IInv

\* A node goes from the feeding goroutine to one worker.
LEMMA FeedInv == ASSUME IInv, NEW w \in Workers, NEW n \in Nodes, Feed(w, n) PROVE IInv'
<1>0. /\ n \in toSend /\ wpc[w] = "recv" /\ toSend' = toSend \ {n}
      /\ wjob' = [wjob EXCEPT ![w] = n] /\ wpc' = [wpc EXCEPT ![w] = "request"]
      /\ checked' = NoCheck
      /\ UNCHANGED <<head, height, rounds, beaconBlock, pc, requests, data, wans, left, ret,
                     checks, panicked>>
  BY DEF Feed, world
<1>1. /\ wpc'[w] = "request" /\ wjob'[w] = n /\ wjob[w] = Nobody
      /\ \A v \in Workers \ {w} : wpc'[v] = wpc[v] /\ wjob'[v] = wjob[v]
  BY <1>0 DEF IInv, TypeOK, WorkersSound, Busy
<1>2. TypeOK'
  <2>1. left' = Cardinality({v \in Workers : wpc'[v] \notin {"last", "gone"}})
    BY <1>0, CountKept, Zenon DEF IInv, CountedWorkers, Counted
  <2> QED
    BY <1>0, <1>1, <2>1 DEF IInv, TypeOK
<1>3. WorkersSound'
  BY <1>0, <1>1, BeaconAssumption DEF IInv, WorkersSound, Busy
<1>4. LeavingSound'
  BY <1>0, <1>1 DEF IInv, LeavingSound, Counted
<1>5. NodesAccounted'
  BY <1>0, <1>1, BeaconAssumption DEF IInv, NodesAccounted
<1>6. ChecksSound'
  BY <1>0 DEF IInv, ChecksSound
<1> QED
  BY <1>0, <1>2, <1>3, <1>4, <1>5, <1>6, NoCheckQuiet DEF IInv

\* The feeding goroutine closes its channel when everything is sent.
LEMMA CloseRequestsInv == ASSUME IInv, CloseRequests PROVE IInv'
<1>0. /\ toSend = {} /\ requests' = "closed" /\ checked' = NoCheck
      /\ UNCHANGED <<head, height, rounds, beaconBlock, pc, toSend, data, wpc, wjob, wans, left,
                     ret, checks, panicked>>
  BY DEF CloseRequests, world
<1>1. TypeOK'
  BY <1>0 DEF IInv, TypeOK
<1>2. WorkersSound' /\ LeavingSound' /\ NodesAccounted' /\ ChecksSound'
  BY <1>0 DEF IInv, WorkersSound, LeavingSound, NodesAccounted, ChecksSound, Busy, Counted
<1> QED
  BY <1>0, <1>1, <1>2, NoCheckQuiet DEF IInv

\* What a request returns is no newer than the node.
LEMMA RequestInv == ASSUME IInv, NEW w \in Workers, Request(w) PROVE IInv'
<1>0. /\ wpc[w] = "request" /\ wpc' = [wpc EXCEPT ![w] = "send"] /\ checked' = NoCheck
      /\ UNCHANGED <<head, height, rounds, beaconBlock, pc, toSend, requests, data, wjob, left,
                     ret, checks, panicked>>
  BY DEF Request, world
<1>1. PICK a \in Answers(wjob[w]) : wans' = [wans EXCEPT ![w] = a]
  BY Zenon DEF Request
<1>2. wjob[w] \in Nodes /\ height[wjob[w]] \in 1..MaxHeight
  BY <1>0, BeaconAssumption DEF IInv, TypeOK, WorkersSound, Busy
<1>3. /\ a \in [number : {Failed} \cup 0..MaxHeight, valid : BOOLEAN]
      /\ a.number \in {Failed} \cup 0..height[wjob[w]]
  <2>1. \/ a = [number |-> height[wjob[w]], valid |-> TRUE]
        \/ a = [number |-> 0, valid |-> FALSE]
        \/ a = [number |-> Failed, valid |-> FALSE]
    BY <1>1 DEF Answers, Invalid
  <2>2. 0 \in 0..MaxHeight /\ 0 \in 0..height[wjob[w]] /\ height[wjob[w]] \in 0..MaxHeight
    BY <1>2, BeaconAssumption
  <2>3. height[wjob[w]] \in 0..height[wjob[w]]
    BY <1>2
  <2>4. a.number \in {Failed} \cup 0..height[wjob[w]]
    BY <2>1, <2>2, <2>3
  <2>5. a \in [number : {Failed} \cup 0..MaxHeight, valid : BOOLEAN]
    <3>1. \A x \in {Failed} \cup 0..MaxHeight, b \in BOOLEAN :
             [number |-> x, valid |-> b] \in [number : {Failed} \cup 0..MaxHeight, valid : BOOLEAN]
      OBVIOUS
    <3>2. TRUE \in BOOLEAN /\ FALSE \in BOOLEAN
      OBVIOUS
    <3> QED
      BY <2>1, <2>2, <3>1, <3>2, Zenon
  <2> QED
    BY <2>4, <2>5
<1>4. /\ wpc'[w] = "send" /\ wans'[w] = a
      /\ \A v \in Workers \ {w} : wpc'[v] = wpc[v] /\ wans'[v] = wans[v]
  BY <1>0, <1>1 DEF IInv, TypeOK, WorkersSound
<1>5. TypeOK'
  <2>1. left' = Cardinality({v \in Workers : wpc'[v] \notin {"last", "gone"}})
    BY <1>0, CountKept, Zenon DEF IInv, CountedWorkers, Counted
  <2> QED
    BY <1>0, <1>4, <2>1 DEF IInv, TypeOK
<1>6. WorkersSound'
  BY <1>0, <1>1, <1>3, <1>4 DEF IInv, WorkersSound, Busy
<1>7. LeavingSound'
  BY <1>0, <1>4 DEF IInv, LeavingSound, Counted
<1>8. NodesAccounted' /\ ChecksSound'
  BY <1>0 DEF IInv, NodesAccounted, ChecksSound
<1> QED
  BY <1>0, <1>5, <1>6, <1>7, <1>8, NoCheckQuiet DEF IInv

\* A reply is passed on before the channel is closed, and its node gets its entry.
LEMMA DeliverInv == ASSUME IInv, NEW w \in Workers, Deliver(w) PROVE IInv'
<1> DEFINE n == wjob[w]
<1>0. /\ wpc[w] = "send" /\ panicked' = (data = "closed")
      /\ ret' = [m \in DOMAIN ret \cup {n} |-> IF m = n THEN wans[w].number ELSE ret[m]]
      /\ wpc' = [wpc EXCEPT ![w] = "recv"] /\ wjob' = [wjob EXCEPT ![w] = Nobody]
      /\ wans' = [wans EXCEPT ![w] = Invalid] /\ checked' = NoCheck
      /\ UNCHANGED <<head, height, rounds, beaconBlock, pc, toSend, requests, data, left, checks>>
  BY DEF Deliver, world
<1>1. n \in Nodes /\ wans[w].number \in {Failed} \cup 0..height[n]
  BY <1>0 DEF IInv, WorkersSound, Busy
<1>2. /\ wpc'[w] = "recv" /\ wjob'[w] = Nobody /\ wans'[w] = Invalid
      /\ \A v \in Workers \ {w} : wpc'[v] = wpc[v] /\ wjob'[v] = wjob[v] /\ wans'[v] = wans[v]
  BY <1>0 DEF IInv, TypeOK, WorkersSound
<1>3. data # "closed" /\ ~panicked'
  BY <1>0, Zenon DEF IInv, LeavingSound
<1>4. DOMAIN ret' = DOMAIN ret \cup {n}
  BY <1>0
<1>5. TypeOK'
  <2>1. left' = Cardinality({v \in Workers : wpc'[v] \notin {"last", "gone"}})
    BY <1>0, CountKept, Zenon DEF IInv, CountedWorkers, Counted
  <2>2. /\ DOMAIN ret' \subseteq Nodes
        /\ \A m \in DOMAIN ret' : ret'[m] \in {Failed} \cup 0..height'[m]
    BY <1>0, <1>1, <1>4 DEF IInv, TypeOK
  <2>3. /\ wpc' \in [Workers -> {"recv", "request", "send", "last", "gone"}]
        /\ \A v \in Workers : wjob'[v] \in Nodes \cup {Nobody}
    BY <1>0, <1>2 DEF IInv, TypeOK
  <2> QED
    BY <1>0, <1>3, <2>1, <2>2, <2>3, Zenon DEF IInv, TypeOK
<1>6. WorkersSound'
  <2>1. Invalid \in [number : {Failed} \cup 0..MaxHeight, valid : BOOLEAN]
    BY BeaconAssumption DEF Invalid
  <2> QED
    BY <1>0, <1>2, <2>1 DEF IInv, WorkersSound, Busy
<1>7. LeavingSound'
  BY <1>0, <1>2 DEF IInv, LeavingSound, Counted
<1>8. NodesAccounted'
  BY <1>0, <1>2, <1>4 DEF IInv, NodesAccounted
<1>9. ChecksSound'
  BY <1>0 DEF IInv, ChecksSound
<1> QED
  BY <1>0, <1>3, <1>5, <1>6, <1>7, <1>8, <1>9, NoCheckQuiet DEF IInv

\* The worker that brings the counter to zero is the only one left.
LEMMA LeaveInv == ASSUME IInv, NEW w \in Workers, Leave(w) PROVE IInv'
<1>0. /\ wpc[w] = "recv" /\ requests = "closed" /\ left' = left - 1
      /\ wpc' = [wpc EXCEPT ![w] = IF left - 1 = 0 THEN "last" ELSE "gone"]
      /\ checked' = NoCheck
      /\ UNCHANGED <<head, height, rounds, beaconBlock, pc, toSend, requests, data, wjob, wans, ret,
                     checks, panicked>>
  BY DEF Leave, world
<1>1. PICK v \in {"last", "gone"} : wpc' = [wpc EXCEPT ![w] = v] /\ (v = "last" <=> left - 1 = 0)
  BY <1>0, Zenon
<1>2. /\ left - 1 = Cardinality(CountedWorkers)'
      /\ v = "last" <=> \A x \in Workers \ {w} : ~Counted(x)
  BY <1>0, <1>1, CountDown, Zenon DEF IInv, Counted
<1>3. wpc'[w] = v /\ \A x \in Workers \ {w} : wpc'[x] = wpc[x]
  BY <1>1 DEF IInv, TypeOK
<1>4. TypeOK'
  <2>1. left' = Cardinality({x \in Workers : wpc'[x] \notin {"last", "gone"}})
    BY <1>0, <1>2 DEF CountedWorkers, Counted
  <2> QED
    BY <1>0, <1>1, <2>1 DEF IInv, TypeOK
<1>5. WorkersSound'
  BY <1>0, <1>3 DEF IInv, WorkersSound, Busy
<1>6. LeavingSound'
  <2>1. \A x \in Workers : wpc[x] # "last"
    BY <1>0 DEF IInv, LeavingSound
  <2>2. data = "open"
    BY <1>0 DEF IInv, LeavingSound, TypeOK
  <2>3. \A x \in Workers : wpc'[x] = "last" => \A y \in Workers \ {x} : wpc'[y] = "gone"
    BY <1>2, <1>3, <2>1 DEF Counted
  <2>4. \E x \in Workers : wpc'[x] # "gone"
    BY <1>2, <1>3 DEF Counted
  <2> QED
    BY <1>0, <2>2, <2>3, <2>4 DEF IInv, LeavingSound
<1>7. NodesAccounted' /\ ChecksSound'
  BY <1>0 DEF IInv, NodesAccounted, ChecksSound
<1> QED
  BY <1>0, <1>4, <1>5, <1>6, <1>7, NoCheckQuiet DEF IInv

\* close(data): everybody else has gone.
LEMMA CloseDataInv == ASSUME IInv, NEW w \in Workers, CloseData(w) PROVE IInv'
<1>0. /\ wpc[w] = "last" /\ data' = "closed" /\ wpc' = [wpc EXCEPT ![w] = "gone"]
      /\ checked' = NoCheck
      /\ UNCHANGED <<head, height, rounds, beaconBlock, pc, toSend, requests, wjob, wans, left, ret,
                     checks, panicked>>
  BY DEF CloseData, world
<1>1. \A v \in Workers : wpc'[v] = "gone" /\ (v # w => wpc[v] = "gone")
  BY <1>0 DEF IInv, LeavingSound, TypeOK
<1>2. TypeOK'
  <2>1. {v \in Workers : wpc'[v] \notin {"last", "gone"}} = {v \in Workers : wpc[v] \notin {"last", "gone"}}
    BY <1>0, <1>1
  <2> QED
    BY <1>0, <2>1, Zenon DEF IInv, TypeOK
<1>3. WorkersSound'
  BY <1>0, <1>1 DEF IInv, WorkersSound, Busy
<1>4. LeavingSound'
  BY <1>0, <1>1 DEF IInv, LeavingSound, TypeOK, Counted
<1>5. NodesAccounted' /\ ChecksSound'
  BY <1>0 DEF IInv, NodesAccounted, ChecksSound
<1> QED
  BY <1>0, <1>2, <1>3, <1>4, <1>5, NoCheckQuiet DEF IInv

\* What the evaluation knows of a node behind.
LEMMA BehindFact ==
  ASSUME TypeOK, NEW n \in DOMAIN ret
  PROVE  /\ n \in Nodes /\ beaconBlock \in 0..head /\ beaconBlock \in 0..MaxHeight
         /\ height[n] \in 1..MaxHeight /\ (ret[n] # Failed => ret[n] \in 0..height[n])
         /\ Behind(n) <=> ret[n] # Failed /\ beaconBlock > ret[n] /\ beaconBlock - ret[n] >= Threshold
<1>1. /\ n \in Nodes /\ beaconBlock \in 0..head /\ beaconBlock \in 0..MaxHeight
      /\ height[n] \in 1..MaxHeight /\ (ret[n] # Failed => ret[n] \in 0..height[n])
  BY BeaconAssumption DEF TypeOK
<1>2. ret[n] # Failed /\ beaconBlock > ret[n] => Minus(beaconBlock, ret[n]) = beaconBlock - ret[n]
  <2>1. ret[n] # Failed => ret[n] \in 0..MaxHeight
    BY <1>1, BeaconAssumption
  <2> QED
    BY <1>1, <2>1, MinusFact
<1> QED
  BY <1>1, <1>2 DEF Behind

\* The evaluation starts checks for nodes whose header is below beaconBlock.
LEMMA EvaluateInv == ASSUME IInv, Evaluate PROVE IInv'
<1>0. /\ pc = "collect" /\ data = "closed" /\ pc' = "idle" /\ checked' = NoCheck
      /\ UNCHANGED <<head, height, rounds, beaconBlock, toSend, requests, data, wpc, wjob, wans,
                     left, ret, panicked>>
  BY DEF Evaluate, world, pipe
<1>1. \A c \in checks' : c \in checks \/ \E n \in DOMAIN ret :
         Behind(n) /\ c = [node |-> n, number |-> ret[n], top |-> beaconBlock]
  BY DEF Evaluate
<1>2. TypeOK /\ head \in 1..MaxHeight
  BY DEF IInv, TypeOK
<1>3. \A n \in DOMAIN ret : Behind(n) =>
         /\ n \in Nodes /\ ret[n] \in 0..MaxHeight /\ beaconBlock \in 0..MaxHeight
         /\ ret[n] < beaconBlock /\ beaconBlock <= head
  <2> SUFFICES ASSUME NEW n \in DOMAIN ret, Behind(n)
               PROVE  /\ n \in Nodes /\ ret[n] \in 0..MaxHeight /\ beaconBlock \in 0..MaxHeight
                      /\ ret[n] < beaconBlock /\ beaconBlock <= head
    OBVIOUS
  <2>1. /\ n \in Nodes /\ beaconBlock \in 0..head /\ beaconBlock \in 0..MaxHeight
        /\ height[n] \in 1..MaxHeight /\ ret[n] \in 0..height[n] /\ ret[n] < beaconBlock
    BY <1>2, BehindFact
  <2> QED
    BY <1>2, <2>1, BeaconAssumption
<1>4. \A c \in checks' : /\ c \in [node : Nodes, number : 0..MaxHeight, top : 0..MaxHeight]
                         /\ c.number < c.top /\ c.top <= head
  <2> SUFFICES ASSUME NEW c \in checks'
               PROVE  /\ c \in [node : Nodes, number : 0..MaxHeight, top : 0..MaxHeight]
                      /\ c.number < c.top /\ c.top <= head
    OBVIOUS
  <2>1. CASE c \in checks
    BY <2>1 DEF IInv, TypeOK, ChecksSound
  <2>2. CASE c \notin checks
    <3>1. PICK n \in DOMAIN ret :
            Behind(n) /\ c = [node |-> n, number |-> ret[n], top |-> beaconBlock]
      BY <1>1, <2>2
    <3> QED
      BY <1>3, <3>1
  <2> QED
    BY <2>1, <2>2
<1>5. TypeOK'
  BY <1>0, <1>4 DEF IInv, TypeOK
<1>6. WorkersSound' /\ LeavingSound' /\ NodesAccounted'
  BY <1>0 DEF IInv, WorkersSound, LeavingSound, NodesAccounted, Busy, Counted
<1>7. ChecksSound'
  BY <1>0, <1>4 DEF ChecksSound
<1> QED
  BY <1>0, <1>5, <1>6, <1>7, NoCheckQuiet DEF IInv

\* What a check that wakes up finds out.
LEMMA CheckFact ==
  ASSUME IInv, NEW c \in checks, CheckBeaconSync(c)
  PROVE  /\ checked' \in [node : Nodes, valid : BOOLEAN, alert : BOOLEAN]
         /\ checked'.node = c.node
         /\ checked'.valid =>
              (checked'.alert <=> height[c.node] <= c.number /\ c.top - height[c.node] > Threshold)
<1>1. PICK a \in Answers(c.node) :
        checked' = [node |-> c.node, valid |-> a.valid,
                    alert |-> a.number # Failed /\ NoProgress(c, a.number)]
  BY Zenon DEF CheckBeaconSync
<1>2. /\ c \in [node : Nodes, number : 0..MaxHeight, top : 0..MaxHeight]
      /\ c.number < c.top /\ height[c.node] \in 1..MaxHeight
  BY BeaconAssumption DEF IInv, TypeOK, ChecksSound
<1>3. a.valid \in BOOLEAN /\ (a.valid => a.number = height[c.node])
  <2>1. \/ a = [number |-> height[c.node], valid |-> TRUE]
        \/ a = [number |-> 0, valid |-> FALSE]
        \/ a = [number |-> Failed, valid |-> FALSE]
    BY DEF Answers, Invalid
  <2>2. CASE a = [number |-> height[c.node], valid |-> TRUE]
    BY <2>2
  <2>3. CASE a = [number |-> 0, valid |-> FALSE]
    BY <2>3
  <2>4. CASE a = [number |-> Failed, valid |-> FALSE]
    BY <2>4
  <2> QED
    BY <2>1, <2>2, <2>3, <2>4
<1>4. height[c.node] # Failed
  BY <1>2 DEF Failed
<1>5. NoProgress(c, height[c.node]) <=> height[c.node] <= c.number /\ c.top - height[c.node] > Threshold
  <2>1. ~(height[c.node] > c.number) <=> height[c.node] <= c.number
    BY <1>2
  <2>2. height[c.node] <= c.number => Minus(c.top, height[c.node]) = c.top - height[c.node]
    <3>1. height[c.node] <= c.number => height[c.node] <= c.top
      BY <1>2
    <3>2. c.top \in 0..MaxHeight /\ height[c.node] \in 0..MaxHeight
      BY <1>2
    <3> QED
      BY <3>1, <3>2, MinusFact
  <2> QED
    BY <2>1, <2>2 DEF NoProgress
<1>6. checked'.node = c.node /\ checked'.valid = a.valid
      /\ checked'.alert = (a.number # Failed /\ NoProgress(c, a.number))
  BY <1>1
<1>7. checked' \in [node : Nodes, valid : BOOLEAN, alert : BOOLEAN]
  <2>1. (a.number # Failed /\ NoProgress(c, a.number)) \in BOOLEAN /\ c.node \in Nodes
    BY <1>2 DEF NoProgress
  <2> QED
    BY <1>1, <1>3, <2>1, Zenon
<1> QED
  BY <1>3, <1>4, <1>5, <1>6, <1>7

\* An alert is about a node far enough below the chain as it is now.
LEMMA CheckInv == ASSUME IInv, NEW c \in checks, CheckBeaconSync(c) PROVE IInv'
<1>0. /\ checks' = checks \ {c}
      /\ UNCHANGED <<head, height, rounds, beaconBlock, pc, toSend, requests, data, wpc, wjob, wans,
                     left, ret, panicked>>
  BY DEF CheckBeaconSync, world, pipe
<1>1. TypeOK'
  BY <1>0, CheckFact DEF IInv, TypeOK
<1>2. WorkersSound' /\ LeavingSound' /\ NodesAccounted' /\ ChecksSound'
  BY <1>0 DEF IInv, WorkersSound, LeavingSound, NodesAccounted, ChecksSound, Busy, Counted
<1>3. BeaconAlertIsRight'
  <2> SUFFICES ASSUME checked'.alert, checked'.valid
               PROVE  head - height[c.node] > Threshold
    BY <1>0, CheckFact DEF BeaconAlertIsRight
  <2>1. c.top - height[c.node] > Threshold
    BY CheckFact
  <2>2. /\ c.top <= head /\ head \in Nat /\ height[c.node] \in Nat /\ c.top \in Nat
        /\ Threshold \in Nat
    BY BeaconAssumption DEF IInv, TypeOK, ChecksSound
  <2> QED
    BY <2>1, <2>2
<1> QED
  BY <1>0, <1>1, <1>2, <1>3 DEF IInv

\* The process starts with no call under way and no check asleep.
LEMMA InitInv == Init => IInv
<1> SUFFICES ASSUME Init PROVE IInv
  OBVIOUS
<1> USE DEF Init
<1>1. {w \in Workers : wpc[w] \notin {"last", "gone"}} = {}
  OBVIOUS
<1>2. Cardinality({}) = 0
  BY FS_EmptySet
<1>3. DOMAIN ret = {}
  OBVIOUS
<1>4. TypeOK
  <2>1. head \in 1..MaxHeight /\ height \in [Nodes -> 1..head] /\ rounds \in 0..MaxRounds
    BY BeaconAssumption
  <2>2. left = Cardinality({w \in Workers : wpc[w] \notin {"last", "gone"}})
    BY <1>1, <1>2, Zenon
  <2>3. beaconBlock \in 0..head /\ checks = {} /\ checked = NoCheck
    OBVIOUS
  <2>4. /\ wpc \in [Workers -> {"recv", "request", "send", "last", "gone"}]
        /\ \A w \in Workers : wjob[w] \in Nodes \cup {Nobody}
    OBVIOUS
  <2>5. toSend \subseteq Nodes /\ panicked \in BOOLEAN
    BY Zenon
  <2>6. pc \in {"idle", "collect"} /\ requests \in {"open", "closed"} /\ data \in {"open", "closed"}
    OBVIOUS
  <2> QED
    BY <1>3, <2>1, <2>2, <2>3, <2>4, <2>5, <2>6, Zenon DEF TypeOK
<1>5. WorkersSound
  <2>1. Invalid \in [number : {Failed} \cup 0..MaxHeight, valid : BOOLEAN]
    BY BeaconAssumption DEF Invalid
  <2> QED
    BY <2>1 DEF WorkersSound, Busy
<1>6. LeavingSound /\ NodesAccounted /\ ChecksSound
  BY BeaconAssumption DEF LeavingSound, NodesAccounted, ChecksSound
<1>7. BeaconAlertIsRight
  BY DEF BeaconAlertIsRight, NoCheck
<1> QED
  BY <1>4, <1>5, <1>6, <1>7 DEF IInv

\* Every step of the chain, the pipeline and the checks preserves the invariant.
LEMMA StepInv == IInv /\ Next => IInv'
<1> SUFFICES ASSUME IInv, Next PROVE IInv'
  OBVIOUS
<1>1. ASSUME NEW w \in Workers, WorkerStep(w) PROVE IInv'
  BY <1>1, FeedInv, RequestInv, DeliverInv, LeaveInv, CloseDataInv DEF WorkerStep
<1> QED
  BY <1>1, NewBlockInv, StartInv, CloseRequestsInv, EvaluateInv, CatchUpInv, CheckInv DEF Next

\* Every reachable state satisfies the invariant.
LEMMA Inductive == Spec => []IInv
<1>1. IInv /\ UNCHANGED vars => IInv'
  <2> SUFFICES ASSUME IInv, UNCHANGED vars PROVE IInv'
    OBVIOUS
  <2>1. TypeOK'
    BY DEF IInv, TypeOK, Counted, vars
  <2>2. WorkersSound' /\ LeavingSound' /\ NodesAccounted'
    BY DEF IInv, WorkersSound, LeavingSound, NodesAccounted, Busy, Counted, vars
  <2>3. ChecksSound' /\ BeaconAlertIsRight' /\ ~panicked'
    BY DEF IInv, ChecksSound, BeaconAlertIsRight, vars
  <2> QED
    BY <2>1, <2>2, <2>3 DEF IInv
<1> QED
  BY <1>1, InitInv, StepInv, PTL DEF Spec

\* When data is closed the workers have gone and each node has its entry.
LEMMA Collected == IInv => ClosedAfterLastReply
<1> SUFFICES ASSUME IInv, data = "closed"
             PROVE  /\ \A w \in Workers : wpc[w] = "gone" /\ wjob[w] = Nobody
                    /\ rounds > 0 => DOMAIN ret = Nodes
  BY DEF IInv, ClosedAfterLastReply
<1>1. \A w \in Workers : wpc[w] = "gone"
  BY DEF IInv, LeavingSound
<1>2. \A w \in Workers : wjob[w] = Nobody
  BY <1>1 DEF IInv, WorkersSound, Busy
<1>3. toSend = {}
  <2>1. PICK w \in Workers : wpc[w] = "gone"
    BY <1>1, BeaconAssumption
  <2> QED
    BY <2>1 DEF IInv, LeavingSound, TypeOK, Counted
<1>4. rounds > 0 => DOMAIN ret = Nodes
  <2>1. DOMAIN ret \subseteq Nodes /\ Nobody \notin Nodes
    BY BeaconAssumption DEF IInv, TypeOK
  <2>2. rounds > 0 => \A n \in Nodes : n \in DOMAIN ret
    BY <1>2, <1>3, <2>1, Zenon DEF IInv, NodesAccounted
  <2> QED
    BY <2>1, <2>2
<1> QED
  BY <1>1, <1>2, <1>4

-----------------------------------------------------------------------------
(* The theorems.                                                           *)

\* The state keeps its shape: the atomic counter is the number of workers that
\* have not left, and nothing collected is newer than the node it came from.
THEOREM TypeInvariant == Spec => []TypeOK
<1>1. IInv => TypeOK
  BY DEF IInv
<1> QED
  BY <1>1, Inductive, PTL

\* getBeaconHeaders closes data after the last reply, whichever worker is the
\* last: no send on a closed channel, and an entry for each node.
THEOREM ChannelClosedAfterLastReply == Spec => []ClosedAfterLastReply
<1> QED
  BY Collected, Inductive, PTL

\* An alert of checkBeaconSync after a valid answer is right when it is sent, for
\* every threshold and every height below the modulus.
THEOREM AlertsAreRight == Spec => []BeaconAlertIsRight
<1>1. IInv => BeaconAlertIsRight
  BY DEF IInv
<1> QED
  BY <1>1, Inductive, PTL

\* A node that answered and is far enough behind gets its check, and a check that
\* finds it where it was reports it.
THEOREM LaggardsAreReported == Spec => LaggardIsReported
<1> DEFINE Started == pc = "collect" /\ pc' = "idle" =>
             \A n \in Nodes : ret[n] # Failed /\ height[n] + Threshold <= beaconBlock
                                /\ height[n] < beaconBlock =>
                              \E c \in checks' : c.node = n /\ c.top = beaconBlock
           Ended == \A c \in checks \ checks' :
             checked'.valid /\ height[c.node] = c.number /\ c.number + Threshold < c.top =>
               checked'.alert
<1>1. ASSUME IInv, Next PROVE Started
  <2> SUFFICES ASSUME pc = "collect", pc' = "idle", NEW n \in Nodes, ret[n] # Failed,
                      height[n] + Threshold <= beaconBlock, height[n] < beaconBlock
               PROVE  \E c \in checks' : c.node = n /\ c.top = beaconBlock
    OBVIOUS
  <2>1. Evaluate
    BY <1>1 DEF Next, NewBlock, Start, CloseRequests, CatchUp, WorkerStep, Feed, Request, Deliver,
       Leave, CloseData, CheckBeaconSync
  <2>2. DOMAIN ret = Nodes
    BY <1>1, <2>1, Collected, Zenon DEF Evaluate, IInv, LeavingSound, ClosedAfterLastReply
  <2>3. Behind(n)
    BY <1>1, <2>2, BehindFact, BeaconAssumption DEF IInv
  <2>4. [node |-> n, number |-> ret[n], top |-> beaconBlock] \in checks'
    BY <2>1, <2>2, <2>3 DEF Evaluate
  <2> QED
    BY <2>4
<1>2. ASSUME IInv, Next PROVE Ended
  <2> SUFFICES ASSUME NEW c \in checks \ checks', checked'.valid, height[c.node] = c.number,
                      c.number + Threshold < c.top
               PROVE  checked'.alert
    OBVIOUS
  <2>1. CheckBeaconSync(c)
    BY <1>2, Zenon DEF Next, NewBlock, Start, CloseRequests, Evaluate, CatchUp, WorkerStep, Feed, Request,
       Deliver, Leave, CloseData, CheckBeaconSync
  <2>2. c.number \in Nat /\ c.top \in Nat /\ Threshold \in Nat
    BY <1>2, BeaconAssumption DEF IInv, TypeOK
  <2> QED
    BY <1>2, <2>1, <2>2, CheckFact
<1>3. IInv /\ [Next]_vars => [Started /\ Ended]_vars
  BY <1>1, <1>2
<1> QED
  BY <1>3, Inductive, PTL DEF Spec, LaggardIsReported

-----------------------------------------------------------------------------
(* getBeaconHeaders comes to its end: somebody can always go on, and there *)
(* is a bound on the steps they take.                                      *)

\* The goroutines of getBeaconHeaders never all wait for each other.
THEOREM NeverStuck == Spec => []SomebodyCanGoOn
<1>1. IInv => SomebodyCanGoOn
  <2> SUFFICES ASSUME IInv, pc = "collect", data # "closed",
                      ~\E w \in Workers : wpc[w] \in {"request", "send", "last"}
               PROVE  \/ toSend # {} /\ \E w \in Workers : wpc[w] = "recv"
                      \/ toSend = {} /\ requests = "open"
                      \/ requests = "closed" /\ \E w \in Workers : wpc[w] = "recv"
    BY DEF SomebodyCanGoOn
  <2>1. PICK w \in Workers : wpc[w] # "gone"
    BY DEF IInv, LeavingSound
  <2>2. wpc[w] = "recv"
    BY <2>1 DEF IInv, TypeOK
  <2> QED
    BY <2>2 DEF IInv, TypeOK
<1> QED
  BY <1>1, Inductive, PTL

\* A worker that moves is counted where it comes to, and no more where it was.
LEMMA AtMoves ==
  ASSUME TypeOK, NEW w \in Workers, NEW v, wpc' = [wpc EXCEPT ![w] = v], NEW CONSTANT P
  PROVE  /\ At(P) \in Nat
         /\ At(P)' = At(P) + One(v \in P) - One(wpc[w] \in P)
<1> DEFINE S == {x \in Workers : wpc[x] \in P}
           T == S \ {w}
<1>1. IsFiniteSet(S) /\ IsFiniteSet(T)
  BY BeaconAssumption, FS_Subset
<1>2. Cardinality(S) \in Nat /\ Cardinality(T) \in Nat
  BY <1>1, FS_CardinalityType
<1>3. Cardinality(S) = Cardinality(T) + One(wpc[w] \in P)
  <2>1. Cardinality(T) = IF w \in S THEN Cardinality(S) - 1 ELSE Cardinality(S)
    BY <1>1, FS_RemoveElement
  <2> QED
    BY <1>2, <2>1 DEF One
<1>4. Cardinality(S') = Cardinality(T) + One(v \in P)
  <2>1. S' = IF v \in P THEN T \cup {w} ELSE T
    BY DEF TypeOK
  <2>2. Cardinality(T \cup {w}) = Cardinality(T) + 1
    BY <1>1, FS_AddElement
  <2> QED
    BY <1>2, <2>1, <2>2 DEF One
<1>5. One(v \in P) \in {0, 1} /\ One(wpc[w] \in P) \in {0, 1}
  BY DEF One
<1> QED
  BY <1>2, <1>3, <1>4, <1>5 DEF At

\* The counts are numbers, and stay when no worker moves.
LEMMA AtKept ==
  ASSUME TypeOK, NEW CONSTANT P
  PROVE  At(P) \in Nat /\ (wpc' = wpc => At(P)' = At(P))
<1>1. IsFiniteSet({w \in Workers : wpc[w] \in P})
  BY BeaconAssumption, FS_Subset
<1> QED
  BY <1>1, FS_CardinalityType, Zenon DEF At

(* The counts that StepsLeft adds up, with the weight that a worker at v   *)
(* has in them.                                                            *)
AtSum == At({"request"}) + At({"request", "send"}) + At({"request", "send", "recv"})
           + At({"request", "send", "recv", "last"})

Weight(v) == CASE v = "request" -> 4 [] v = "send" -> 3 [] v = "recv" -> 2 [] v = "last" -> 1
               [] OTHER -> 0

\* A worker grows lighter on its way.
LEMMA Weights ==
  /\ Weight("send") < Weight("request") /\ Weight("recv") < Weight("send")
  /\ Weight("last") < Weight("recv") /\ Weight("gone") < Weight("recv")
  /\ Weight("gone") < Weight("last")
  BY DEF Weight

\* What a worker's move does to the sum.
LEMMA SumMoves ==
  ASSUME TypeOK, NEW w \in Workers, NEW v \in {"recv", "request", "send", "last", "gone"},
         wpc' = [wpc EXCEPT ![w] = v]
  PROVE  AtSum \in Nat /\ AtSum' = AtSum + Weight(v) - Weight(wpc[w])
<1> DEFINE u == wpc[w]
<1>1. u \in {"recv", "request", "send", "last", "gone"}
  BY DEF TypeOK
<1>2. /\ At({"request"}) \in Nat
      /\ At({"request"})' = At({"request"}) + One(v \in {"request"}) - One(u \in {"request"})
  BY AtMoves, Zenon
<1>3. /\ At({"request", "send"}) \in Nat
      /\ At({"request", "send"})' = At({"request", "send"}) + One(v \in {"request", "send"})
                                      - One(u \in {"request", "send"})
  BY AtMoves, Zenon
<1>4. /\ At({"request", "send", "recv"}) \in Nat
      /\ At({"request", "send", "recv"})' = At({"request", "send", "recv"})
           + One(v \in {"request", "send", "recv"}) - One(u \in {"request", "send", "recv"})
  BY AtMoves, Zenon
<1>5. /\ At({"request", "send", "recv", "last"}) \in Nat
      /\ At({"request", "send", "recv", "last"})' = At({"request", "send", "recv", "last"})
           + One(v \in {"request", "send", "recv", "last"})
           - One(u \in {"request", "send", "recv", "last"})
  BY AtMoves, Zenon
<1> HIDE DEF u
<1>6. \A x \in {"recv", "request", "send", "last", "gone"} :
        Weight(x) = One(x \in {"request"}) + One(x \in {"request", "send"})
                      + One(x \in {"request", "send", "recv"})
                      + One(x \in {"request", "send", "recv", "last"})
  BY DEF Weight, One
<1>7. \A d : One(d) \in {0, 1}
  BY DEF One
<1> DEFINE a == At({"request"})
           b == At({"request", "send"})
           c == At({"request", "send", "recv"})
           e == At({"request", "send", "recv", "last"})
           P(x) == One(x \in {"request"})
           Q(x) == One(x \in {"request", "send"})
           R(x) == One(x \in {"request", "send", "recv"})
           S(x) == One(x \in {"request", "send", "recv", "last"})
<1>8. /\ a \in Nat /\ a' = a + P(v) - P(u)
      /\ b \in Nat /\ b' = b + Q(v) - Q(u)
      /\ c \in Nat /\ c' = c + R(v) - R(u)
      /\ e \in Nat /\ e' = e + S(v) - S(u)
  BY <1>2, <1>3, <1>4, <1>5, Zenon
<1>9. AtSum = a + b + c + e
  BY Zenon DEF AtSum
<1>10. AtSum' = a' + b' + c' + e'
  BY Zenon DEF AtSum
<1>11. /\ Weight(v) = P(v) + Q(v) + R(v) + S(v)
       /\ Weight(u) = P(u) + Q(u) + R(u) + S(u)
  BY <1>1, <1>6, Zenon
<1>12. /\ P(v) \in Int /\ Q(v) \in Int /\ R(v) \in Int /\ S(v) \in Int
       /\ P(u) \in Int /\ Q(u) \in Int /\ R(u) \in Int /\ S(u) \in Int
  BY <1>7
<1> HIDE DEF a, b, c, e, P, Q, R, S
<1>13. AtSum \in Nat /\ AtSum' = AtSum + Weight(v) - Weight(u)
  BY <1>8, <1>9, <1>10, <1>11, <1>12
<1> QED
  BY <1>13 DEF u

\* The sum is a natural number, and stays when no worker moves.
LEMMA SumKept ==
  ASSUME TypeOK
  PROVE  AtSum \in Nat /\ (wpc' = wpc => AtSum' = AtSum)
  BY AtKept DEF AtSum

\* What is left to hand over, and one node less.
LEMMA ToSendCount ==
  TypeOK => /\ Cardinality(toSend) \in Nat
            /\ \A n \in toSend : Cardinality(toSend \ {n}) = Cardinality(toSend) - 1
<1> SUFFICES ASSUME TypeOK
             PROVE  /\ Cardinality(toSend) \in Nat
                    /\ \A n \in toSend : Cardinality(toSend \ {n}) = Cardinality(toSend) - 1
  OBVIOUS
<1>1. IsFiniteSet(toSend)
  BY BeaconAssumption, FS_Subset DEF TypeOK
<1> QED
  BY <1>1, FS_CardinalityType, FS_RemoveElement

\* StepsLeft in terms of the sum.
LEMMA StepsLeftSum ==
  TypeOK =>
    /\ Cardinality(toSend) \in Nat /\ AtSum \in Nat
    /\ StepsLeft = 3 * Cardinality(toSend) + AtSum + One(requests = "open") + One(pc = "collect")
<1> SUFFICES ASSUME TypeOK
             PROVE  /\ Cardinality(toSend) \in Nat /\ AtSum \in Nat
                    /\ StepsLeft = 3 * Cardinality(toSend) + AtSum + One(requests = "open")
                                     + One(pc = "collect")
  OBVIOUS
<1>1. /\ At({"request"}) \in Nat /\ At({"request", "send"}) \in Nat
      /\ At({"request", "send", "recv"}) \in Nat /\ At({"request", "send", "recv", "last"}) \in Nat
  BY AtKept
<1>2. Cardinality(toSend) \in Nat /\ One(requests = "open") \in Nat /\ One(pc = "collect") \in Nat
  BY ToSendCount DEF One
<1> QED
  BY <1>1, <1>2 DEF StepsLeft, AtSum

\* Each step of feeder, worker and collector leaves fewer.
LEMMA StepsDecrease ==
  ASSUME IInv, IInv', Next, pc = "collect", <<pc, pipe>>' # <<pc, pipe>>
  PROVE  StepsLeft' < StepsLeft
<1> DEFINE k == Cardinality(toSend)
           q == One(requests = "open")
           c == One(pc = "collect")
<1>1. TypeOK /\ TypeOK'
  BY DEF IInv
<1>2. k \in Nat /\ AtSum \in Nat /\ StepsLeft = 3 * k + AtSum + q + c
  BY <1>1, StepsLeftSum
<1>3. k' \in Nat /\ AtSum' \in Nat /\ StepsLeft' = 3 * k' + AtSum' + q' + c'
  <2>1. (TypeOK => k \in Nat /\ AtSum \in Nat /\ StepsLeft = 3 * k + AtSum + q + c)'
    BY StepsLeftSum, PTL
  <2> QED
    BY <1>1, <2>1
<1>0. q \in {0, 1} /\ c \in {0, 1} /\ q' \in {0, 1} /\ c' \in {0, 1}
  BY DEF One
<1> HIDE DEF k, q, c
<1>4. CASE CloseRequests
  <2>1. k' = k /\ AtSum' = AtSum /\ q = 1 /\ q' = 0 /\ c' = c
    BY <1>1, <1>4, SumKept DEF CloseRequests, k, q, c, One
  <2> QED
    BY <1>0, <1>2, <1>3, <2>1
<1>5. CASE Evaluate
  <2>1. k' = k /\ AtSum' = AtSum /\ q' = q /\ c = 1 /\ c' = 0
    BY <1>1, <1>5, SumKept DEF Evaluate, pipe, k, q, c, One
  <2> QED
    BY <1>0, <1>2, <1>3, <2>1
<1>6. ASSUME NEW w \in Workers, NEW n \in Nodes, Feed(w, n) PROVE StepsLeft' < StepsLeft
  <2>1. k' = k - 1 /\ q' = q /\ c' = c
    BY <1>1, <1>6, ToSendCount DEF Feed, k, q, c
  <2>2. AtSum' = AtSum + Weight("request") - Weight("recv")
    BY <1>1, <1>6, SumMoves, Zenon DEF Feed
  <2> QED
    BY <1>0, <1>2, <1>3, <2>1, <2>2 DEF Weight
<1>7. ASSUME NEW w \in Workers, NEW v \in {"recv", "request", "send", "last", "gone"},
             wpc' = [wpc EXCEPT ![w] = v], Weight(v) < Weight(wpc[w]),
             UNCHANGED <<toSend, requests, pc>>
      PROVE  StepsLeft' < StepsLeft
  <2>1. k' = k /\ q' = q /\ c' = c
    BY <1>7 DEF k, q, c
  <2>2. AtSum' = AtSum + Weight(v) - Weight(wpc[w])
    BY <1>1, <1>7, SumMoves, Zenon
  <2>3. Weight(v) \in Nat /\ Weight(wpc[w]) \in Nat
    BY DEF Weight
  <2> QED
    BY <1>0, <1>2, <1>3, <1>7, <2>1, <2>2, <2>3
<1>8. ASSUME NEW w \in Workers, Request(w) \/ Deliver(w) \/ Leave(w) \/ CloseData(w)
      PROVE  StepsLeft' < StepsLeft
  <2>1. CASE Request(w)
    <3>1. /\ wpc' = [wpc EXCEPT ![w] = "send"] /\ wpc[w] = "request"
          /\ UNCHANGED <<toSend, requests, pc>>
      BY <2>1 DEF Request
    <3> QED
      BY <1>7, <3>1, Weights, Zenon
  <2>2. CASE Deliver(w)
    <3>1. /\ wpc' = [wpc EXCEPT ![w] = "recv"] /\ wpc[w] = "send"
          /\ UNCHANGED <<toSend, requests, pc>>
      BY <2>2 DEF Deliver
    <3> QED
      BY <1>7, <3>1, Weights, Zenon
  <2>3. CASE Leave(w)
    <3>1. PICK v \in {"last", "gone"} :
            /\ wpc' = [wpc EXCEPT ![w] = v] /\ wpc[w] = "recv"
            /\ UNCHANGED <<toSend, requests, pc>>
      BY <2>3, Zenon DEF Leave
    <3> QED
      BY <1>7, <3>1, Weights, Zenon
  <2>4. CASE CloseData(w)
    <3>1. /\ wpc' = [wpc EXCEPT ![w] = "gone"] /\ wpc[w] = "last"
          /\ UNCHANGED <<toSend, requests, pc>>
      BY <2>4 DEF CloseData
    <3> QED
      BY <1>7, <3>1, Weights, Zenon
  <2> QED
    BY <1>8, <2>1, <2>2, <2>3, <2>4
<1>9. ~NewBlock /\ ~Start /\ ~(\E n \in Nodes : CatchUp(n))
        /\ ~(\E d \in checks : CheckBeaconSync(d))
  BY DEF NewBlock, Start, CatchUp, CheckBeaconSync
<1> QED
  BY <1>4, <1>5, <1>6, <1>8, <1>9 DEF Next, WorkerStep

\* A call begins with three steps for each node, two for each worker and two more.
LEMMA StartCount ==
  ASSUME TypeOK, TypeOK', Start
  PROVE  StepsLeft' <= 3 * Cardinality(Nodes) + 2 * Cardinality(Workers) + 2
<1> DEFINE W == Cardinality(Workers)
<1>1. /\ toSend' = Nodes /\ requests' = "open" /\ pc' = "collect"
      /\ \A w \in Workers : wpc'[w] = "recv"
  BY DEF Start
<1>2. W \in Nat /\ Cardinality({}) = 0 /\ Cardinality(Nodes) \in Nat
  BY BeaconAssumption, FS_CardinalityType, FS_EmptySet
<1>3. /\ At({"request"})' = 0 /\ At({"request", "send"})' = 0
      /\ At({"request", "send", "recv"})' = W /\ At({"request", "send", "recv", "last"})' = W
  <2>1. /\ {w \in Workers : wpc'[w] \in {"request"}} = {}
        /\ {w \in Workers : wpc'[w] \in {"request", "send"}} = {}
        /\ {w \in Workers : wpc'[w] \in {"request", "send", "recv"}} = Workers
        /\ {w \in Workers : wpc'[w] \in {"request", "send", "recv", "last"}} = Workers
    BY <1>1
  <2> QED
    BY <1>2, <2>1, Zenon DEF At
<1>4. One(requests' = "open") = 1 /\ One(pc' = "collect") = 1
  BY <1>1 DEF One
<1> QED
  BY <1>1, <1>2, <1>3, <1>4 DEF StepsLeft

\* getBeaconHeaders takes a bounded number of steps, for any number of nodes and
\* workers and in any order.
THEOREM CollectingEnds == Spec => CollectingIsBounded
<1> DEFINE Bounded ==
             /\ pc = "idle" /\ pc' = "collect" =>
                  StepsLeft' <= 3 * Cardinality(Nodes) + 2 * Cardinality(Workers) + 2
             /\ pc = "collect" /\ <<pc, pipe>>' # <<pc, pipe>> => StepsLeft' < StepsLeft
<1>1. IInv /\ IInv' /\ [Next]_vars => [Bounded]_vars
  <2> SUFFICES ASSUME IInv, IInv', Next PROVE Bounded
    OBVIOUS
  <2>1. pc = "idle" /\ pc' = "collect" => Start
    BY DEF Next, NewBlock, CloseRequests, Evaluate, CatchUp, WorkerStep, Feed, Request, Deliver,
       Leave, CloseData, CheckBeaconSync
  <2> QED
    BY <2>1, StartCount, StepsDecrease DEF IInv
<1> QED
  BY <1>1, Inductive, PTL DEF Spec, CollectingIsBounded
=============================================================================
