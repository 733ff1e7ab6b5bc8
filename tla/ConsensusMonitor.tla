-------------------------- MODULE ConsensusMonitor --------------------------
(***************************************************************************)
(* consensusMonitor and the checks it starts: at each tick it asks every   *)
(* node for its latest header, decides for each shard whether consensus is *)
(* stuck, and starts checkSync for the nodes that lag behind; checkSync    *)
(* looks again after `warning` seconds and alerts if there is no progress. *)
(*                                                                         *)
(* The replies of a round are read one by one while the chain goes on.     *)
(* time.Tick holds one tick and drops the others, so a slow round is       *)
(* followed by one whose `now` is old.  A node may be behind its shard; it *)
(* may fail to answer; and it may answer with a body that is not a header, *)
(* which json.Unmarshal leaves as zeros: block 0 of shard 0 in 1970.       *)
(*                                                                         *)
(* WorkerPool shows that every node asked contributes one reply.           *)
(***************************************************************************)
EXTENDS Integers, FiniteSets, FiniteSetsExt

CONSTANTS
  Nodes, Shards,
  ShardOf,    \* ShardOf[n]: the shard of node n
  Interval,   \* seconds between ticks
  Warning,    \* seconds without a block before the alarm, and checkSync's sleep
  Tolerance,  \* blocks a node may lag
  Modulus,    \* of uint64, 2^64 in the code
  MaxTime,    \* bound: seconds modelled
  MaxHeight   \* bound: blocks of a shard

ASSUME ConsensusAssumption ==
  /\ IsFiniteSet(Nodes)
  /\ 0 \in Shards /\ Shards \subseteq Nat
  /\ ShardOf \in [Nodes -> Shards]
  /\ Interval \in Nat \ {0} /\ Warning \in Nat /\ Tolerance \in Nat
  /\ MaxTime \in Nat /\ MaxHeight \in Nat \ {0}
  /\ Modulus \in Nat /\ Modulus > Warning + MaxTime + 1

VARIABLES
  clock,      \* the time
  tick,       \* the tick waiting in the channel of time.Tick, or NoTick
  head,       \* head[s]: the height of shard s
  blockTime,  \* blockTime[s][h]: when block h of shard s was made
  height,     \* height[n]: the block node n has reached
  pc,         \* "idle" or "poll"
  now,        \* the tick this round started with
  startHead,  \* head when the round started (not in the code)
  replies,    \* replies[n]: what n answered in this round
  last,       \* lastShardData
  status,     \* consensusStatus
  checks,     \* the checkSync goroutines asleep
  paged       \* the out-of-sync alert the last step sent, or NoPage

chainVars == <<head, blockTime, height>>
roundVars == <<pc, now, startHead, replies>>
vars == <<clock, tick, head, blockTime, height, pc, now, startHead, replies, last,
          status, checks, paged>>

NoTick == -1
Start  == Warning + 1          \* so that 1970 is long ago
Pending == [kind |-> "pending"]
Down    == [kind |-> "down"]
Header(s, h, t) == [kind |-> "header", shard |-> s, number |-> h, time |-> t]
Zero    == Header(0, 0, 0)
NoBlock == [number |-> -1, time |-> 0]
NoPage  == [node |-> "nobody", valid |-> TRUE]

TypeOK ==
  /\ clock \in Start..(Start + MaxTime)
  /\ tick \in {NoTick} \cup Start..clock
  /\ head \in [Shards -> 1..MaxHeight]
  /\ \A s \in Shards : blockTime[s] \in [1..head[s] -> Start..clock]
  /\ \A n \in Nodes : height[n] \in 1..head[ShardOf[n]]
  /\ pc \in {"idle", "poll"}
  /\ now \in {NoTick} \cup Start..clock
  /\ \A s \in Shards : startHead[s] \in 1..head[s]
  /\ \A n \in Nodes : replies[n] \in {Pending, Down, Zero} \cup
       {Header(ShardOf[n], h, blockTime[ShardOf[n]][h]) : h \in 1..height[n]}
  /\ \A s \in Shards : last[s] \in {NoBlock, [number |-> 0, time |-> 0]} \cup
       {[number |-> h, time |-> blockTime[s][h]] : h \in 1..head[s]}
  /\ status \in [Shards -> {"unknown", "progress", "stuck"}]
  /\ checks \subseteq [node : Nodes, number : Nat, top : Nat, due : Nat]
  /\ paged = NoPage \/ paged \in [node : Nodes, valid : BOOLEAN]

Init ==
  /\ clock = Start
  /\ tick = NoTick
  /\ head = [s \in Shards |-> 1]
  /\ blockTime = [s \in Shards |-> [h \in 1..1 |-> Start]]
  /\ height = [n \in Nodes |-> 1]
  /\ pc = "idle"
  /\ now = NoTick
  /\ startHead = head
  /\ replies = [n \in Nodes |-> Pending]
  /\ last = [s \in Shards |-> NoBlock]
  /\ status = [s \in Shards |-> "unknown"]
  /\ checks = {}
  /\ paged = NoPage

-----------------------------------------------------------------------------
(* The world: time, the chain and the nodes.                               *)

\* A second passes.  A tick that falls due is dropped if one is waiting.
Second ==
  /\ clock < Start + MaxTime
  /\ clock' = clock + 1
  /\ tick' = IF tick = NoTick /\ (clock' - Start) % Interval = 0 THEN clock' ELSE tick
  /\ paged' = NoPage
  /\ UNCHANGED <<chainVars, roundVars, last, status, checks>>

NewBlock(s) ==
  /\ head[s] < MaxHeight
  /\ head' = [head EXCEPT ![s] = @ + 1]
  /\ blockTime' = [blockTime EXCEPT ![s] =
       [h \in 1..(head[s] + 1) |-> IF h \in 1..head[s] THEN @[h] ELSE clock]]
  /\ paged' = NoPage
  /\ UNCHANGED <<clock, tick, height, roundVars, last, status, checks>>

CatchUp(n) ==
  /\ height[n] < head[ShardOf[n]]
  /\ height' = [height EXCEPT ![n] = @ + 1]
  /\ paged' = NoPage
  /\ UNCHANGED <<clock, tick, head, blockTime, roundVars, last, status, checks>>

-----------------------------------------------------------------------------
(* The round.                                                              *)

StartRound ==
  /\ pc = "idle"
  /\ tick # NoTick
  /\ pc' = "poll"
  /\ now' = tick
  /\ tick' = NoTick
  /\ startHead' = head
  /\ replies' = [n \in Nodes |-> Pending]
  /\ paged' = NoPage
  /\ UNCHANGED <<clock, chainVars, last, status, checks>>

\* What a node can say when it is asked at this moment.
Answers(n) == {Down, Zero, Header(ShardOf[n], height[n], blockTime[ShardOf[n]][height[n]])}

Reply(n) ==
  /\ pc = "poll"
  /\ replies[n] = Pending
  /\ \E a \in Answers(n) : replies' = [replies EXCEPT ![n] = a]
  /\ paged' = NoPage
  /\ UNCHANGED <<clock, tick, chainVars, pc, now, startHead, last, status, checks>>

\* The headers received for shard s, and blockHeaderSummary's block-max and
\* latest-block.
HeadersOf(s) == {replies[n] : n \in {m \in Nodes : replies[m] # Down /\ replies[m].shard = s}}
BlockMax(s) == Max({b.number : b \in HeadersOf(s)})
LatestBlock(s) == CHOOSE b \in HeadersOf(s) : b.number = BlockMax(s)

\* timeSinceLastSuccess, and the same as an uint64.
Elapsed(s) == now - last[s].time
ElapsedUint(s) == Elapsed(s) % Modulus

\* Without the test for a tick older than the block.
StuckUnsigned(s) ==
  /\ last[s] # NoBlock
  /\ BlockMax(s) <= last[s].number
  /\ ElapsedUint(s) > Warning

\* < in place of <=.
StuckNotYet(s) ==
  /\ last[s] # NoBlock
  /\ BlockMax(s) < last[s].number
  /\ Elapsed(s) > 0 /\ ElapsedUint(s) > Warning

\* The alarm of consensusMonitor.
Stuck(s) ==
  /\ last[s] # NoBlock
  /\ BlockMax(s) <= last[s].number
  /\ Elapsed(s) > 0 /\ ElapsedUint(s) > Warning

\* checkShardHeight: the nodes whose header is more than Tolerance behind the
\* highest of their shard.
Lagging == {n \in Nodes : /\ replies[n] # Down
                          /\ BlockMax(replies[n].shard) - replies[n].number > Tolerance}

NewCheck(n) == [node |-> n, number |-> replies[n].number,
                top |-> BlockMax(replies[n].shard), due |-> clock + Warning]

\* The record with the time of the round in place of the time of the block.
NextLastNow(s) ==
  IF HeadersOf(s) = {} \/ Stuck(s) THEN last[s]
  ELSE [number |-> LatestBlock(s).number, time |-> now]

\* lastShardData[shard]: unchanged for a shard nobody answered for, and for one
\* found stuck (the `continue`).
NextLast(s) ==
  IF HeadersOf(s) = {} \/ Stuck(s) THEN last[s]
  ELSE [number |-> LatestBlock(s).number, time |-> LatestBlock(s).time]

\* The drain of the replies, checkShardHeight and the loop over the shards.
Evaluate ==
  /\ pc = "poll"
  /\ \A n \in Nodes : replies[n] # Pending
  /\ last' = [s \in Shards |-> NextLast(s)]
  /\ status' = [s \in Shards |-> IF HeadersOf(s) = {} THEN status[s]
                                 ELSE IF Stuck(s) THEN "stuck" ELSE "progress"]
  /\ checks' = checks \cup {NewCheck(n) : n \in Lagging}
  /\ pc' = "idle"
  /\ replies' = [n \in Nodes |-> Pending]
  /\ paged' = NoPage
  /\ UNCHANGED <<clock, tick, chainVars, now, startHead>>

\* checkSync that alerts on any answer.
CheckSyncAnyway(c) ==
  /\ c.due <= clock
  /\ checks' = checks \ {c}
  /\ \E a \in Answers(c.node) :
       paged' = IF a # Down THEN [node |-> c.node, valid |-> a # Zero] ELSE NoPage
  /\ UNCHANGED <<clock, tick, chainVars, roundVars, last, status>>

\* checkSync wakes up and asks again: an error is ignored, anything else is
\* compared with the block the node had.
CheckSync(c) ==
  /\ c.due <= clock
  /\ checks' = checks \ {c}
  /\ \E a \in Answers(c.node) :
       paged' = IF a # Down /\ ~(a.number > c.number)
                THEN [node |-> c.node, valid |-> a # Zero] ELSE NoPage
  /\ UNCHANGED <<clock, tick, chainVars, roundVars, last, status>>

Next ==
  \/ Second \/ StartRound \/ Evaluate
  \/ \E s \in Shards : NewBlock(s)
  \/ \E n \in Nodes : CatchUp(n) \/ Reply(n)
  \/ \E c \in checks : CheckSync(c)

Spec == Init /\ [][Next]_vars

-----------------------------------------------------------------------------
(* Properties.                                                             *)

Evaluating == pc = "poll" /\ pc' = "idle"

\* Some answer of this round is at least as new as the shard was at its start.
FreshAnswer(s) == \E b \in HeadersOf(s) : b.number >= startHead[s]

\* The alarm is right: if a node that was up to date answered in the round, then
\* an alarm means that the newest block the shard had when the round began was
\* already older than the warning time.  Lagging nodes, invalid bodies, old
\* ticks and blocks made during the round do not cause a false alarm then.
NoFalseAlarm ==
  [][\A s \in Shards : Evaluating /\ FreshAnswer(s) /\ status'[s] = "stuck" =>
       now - blockTime[s][startHead[s]] > Warning]_vars

\* The alarm is given: a shard whose last recorded block is still its newest,
\* and is too old, is reported stuck as soon as an up-to-date node answers.
StuckIsReported ==
  [][\A s \in Shards :
       Evaluating /\ FreshAnswer(s) /\ BlockMax(s) = startHead[s]
         /\ last[s].number = startHead[s]
         /\ now - blockTime[s][startHead[s]] > Warning => status'[s] = "stuck"]_vars

\* A shard reported stuck is reported as making progress again only because of a
\* block higher than the one it was stuck at, never because of the passing of
\* time, a lagging node or a round nobody answered.
AlarmEndsWithProgress ==
  [][\A s \in Shards : status[s] = "stuck" /\ status'[s] # "stuck" =>
       last'[s].number > last[s].number]_vars

\* An out-of-sync alert after a valid answer is about a node that is still more
\* than the tolerance behind its shard when the alert is sent.
OutOfSyncIsBehind ==
  paged # NoPage /\ paged.valid =>
    head[ShardOf[paged.node]] - height[paged.node] > Tolerance

\* "If invalid reply, no-op": checkSync does not alert on an answer that is not
\* a header.
InvalidReplyIsNoOp == paged = NoPage \/ paged.valid
=============================================================================
