----------------------- MODULE ConsensusMonitorProofs -----------------------
(***************************************************************************)
(* The safety of consensusMonitor and of checkSync, for any sets of nodes  *)
(* and shards, any intervals and tolerance and any bounds.                 *)
(***************************************************************************)
EXTENDS ConsensusMonitor, WellFoundedInduction, TLAPS

-----------------------------------------------------------------------------
(* consensusMonitor.                                                       *)

(* TypeOK in three parts: the chains and their nodes, the round that runs,  *)
(* and what the monitor keeps.                                             *)
WorldOK ==
  /\ clock \in Start..(Start + MaxTime)
  /\ tick \in {NoTick} \cup Start..clock
  /\ head \in [Shards -> 1..MaxHeight]
  /\ \A s \in Shards : blockTime[s] \in [1..head[s] -> Start..clock]
  /\ \A n \in Nodes : height[n] \in 1..head[ShardOf[n]]

RoundOK ==
  /\ pc \in {"idle", "poll"}
  /\ now \in {NoTick} \cup Start..clock
  /\ \A s \in Shards : startHead[s] \in 1..head[s]
  /\ \A n \in Nodes : replies[n] \in {Pending, Down, Zero} \cup
       {Header(ShardOf[n], h, blockTime[ShardOf[n]][h]) : h \in 1..height[n]}

KeptOK ==
  /\ \A s \in Shards : last[s] \in {NoBlock, [number |-> 0, time |-> 0]} \cup
       {[number |-> h, time |-> blockTime[s][h]] : h \in 1..head[s]}
  /\ status \in [Shards -> {"unknown", "progress", "stuck"}]
  /\ checks \subseteq [node : Nodes, number : Nat, top : Nat, due : Nat]
  /\ paged = NoPage \/ paged \in [node : Nodes, valid : BOOLEAN]

(* The maps are functions on all shards and nodes.                         *)
FunctionsOK ==
  /\ blockTime = [s \in Shards |-> blockTime[s]]
  /\ height = [n \in Nodes |-> height[n]]
  /\ replies = [n \in Nodes |-> replies[n]]

(* The blocks of a shard are made one after the other.                     *)
TimesInOrder ==
  \A s \in Shards : \A g, h \in 1..head[s] : g <= h => blockTime[s][g] <= blockTime[s][h]

(* A tick that waits is not older than the round before it.                *)
TickIsLater == tick # NoTick => now <= tick

(* A shard stuck in some round stays too old in the rounds that follow.    *)
StuckIsOld ==
  \A s \in Shards : status[s] = "stuck" => /\ last[s] # NoBlock
                                           /\ Elapsed(s) > 0 /\ Elapsed(s) > Warning

(* A sleeping checkSync is for a node that was too far behind a block its  *)
(* shard has; or for an answer that was not a header.                      *)
ChecksSound ==
  \A c \in checks :
    \/ c.number = 0
    \/ c.top <= head[ShardOf[c.node]] /\ c.top - c.number > Tolerance

ConsensusInv ==
  /\ TypeOK
  /\ FunctionsOK
  /\ TimesInOrder
  /\ TickIsLater
  /\ StuckIsOld
  /\ ChecksSound
  /\ OutOfSyncIsBehind

\* The parts make up the type invariant.
LEMMA TypeParts == TypeOK <=> WorldOK /\ RoundOK /\ KeptOK
  BY Zenon DEF TypeOK, WorldOK, RoundOK, KeptOK

\* The fields of a header, and what is not one.
LEMMA HeaderFields ==
  ASSUME NEW s, NEW h, NEW t
  PROVE  /\ Header(s, h, t).shard = s /\ Header(s, h, t).number = h /\ Header(s, h, t).time = t
         /\ Header(s, h, t) # Pending /\ Header(s, h, t) # Down /\ Pending # Down
<1>1. Header(s, h, t).kind = "header" /\ Pending.kind = "pending" /\ Down.kind = "down"
  BY DEF Header, Pending, Down
<1>2. Header(s, h, t).shard = s /\ Header(s, h, t).number = h /\ Header(s, h, t).time = t
  BY DEF Header
<1> QED
  BY <1>1, <1>2

\* The body that is not a header reads as block 0 of shard 0.
LEMMA ZeroFields ==
  Zero.shard = 0 /\ Zero.number = 0 /\ Zero.time = 0 /\ Zero # Pending /\ Zero # Down
  BY HeaderFields DEF Zero

\* The types of the numbers.
LEMMA NumberFacts ==
  ASSUME ConsensusInv
  PROVE  /\ Start \in Nat /\ Start > Warning /\ clock \in Nat /\ Start <= clock
         /\ clock <= Start + MaxTime
         /\ now \in Int /\ now <= clock /\ tick \in Int
         /\ \A s \in Shards : /\ head[s] \in 1..MaxHeight
                             /\ \A h \in 1..head[s] : blockTime[s][h] \in Start..clock
                             /\ startHead[s] \in 1..head[s]
         /\ \A n \in Nodes : ShardOf[n] \in Shards /\ height[n] \in 1..head[ShardOf[n]]
<1>1. Start \in Nat /\ Start > Warning
  BY ConsensusAssumption DEF Start
<1>2. clock \in Nat /\ Start <= clock /\ clock <= Start + MaxTime
  BY <1>1, ConsensusAssumption DEF ConsensusInv, TypeOK
<1>3. now \in Int /\ now <= clock /\ tick \in Int
  BY <1>1, <1>2 DEF ConsensusInv, TypeOK, NoTick
<1>4. \A s \in Shards : /\ head[s] \in 1..MaxHeight
                       /\ \A h \in 1..head[s] : blockTime[s][h] \in Start..clock
                       /\ startHead[s] \in 1..head[s]
  BY Zenon DEF ConsensusInv, TypeOK
<1>5. \A n \in Nodes : ShardOf[n] \in Shards /\ height[n] \in 1..head[ShardOf[n]]
  BY ConsensusAssumption DEF ConsensusInv, TypeOK
<1> QED
  BY <1>1, <1>2, <1>3, <1>4, <1>5

\* A reply that is a header is of its node's shard and within what the node has,
\* or the zeros.
LEMMA ReplyFacts ==
  ASSUME ConsensusInv, NEW n \in Nodes, replies[n] # Pending, replies[n] # Down
  PROVE  \/ replies[n] = Zero
         \/ /\ replies[n].shard = ShardOf[n] /\ replies[n].number \in 1..head[ShardOf[n]]
            /\ replies[n].number <= height[n]
            /\ replies[n].time = blockTime[ShardOf[n]][replies[n].number]
<1>1. CASE replies[n] = Zero
  BY <1>1
<1>2. CASE replies[n] # Zero
  <2>1. PICK h \in 1..height[n] :
          replies[n] = Header(ShardOf[n], h, blockTime[ShardOf[n]][h])
    BY <1>2 DEF ConsensusInv, TypeOK
  <2>2. /\ replies[n].shard = ShardOf[n] /\ replies[n].number = h
        /\ replies[n].time = blockTime[ShardOf[n]][h]
    BY <2>1, HeaderFields
  <2>3. h \in 1..head[ShardOf[n]] /\ h <= height[n]
    BY NumberFacts
  <2> QED
    BY <2>2, <2>3
<1> QED
  BY <1>1, <1>2

\* The headers of a shard are blocks of it, or the zeros.
LEMMA HeadersFacts ==
  ASSUME ConsensusInv, \A n \in Nodes : replies[n] # Pending,
         NEW s \in Shards, NEW b \in HeadersOf(s)
  PROVE  \/ b.number = 0 /\ b.time = 0
         \/ b.number \in 1..head[s] /\ b.time = blockTime[s][b.number]
<1>1. PICK n \in Nodes : b = replies[n] /\ replies[n] # Down /\ replies[n].shard = s
  BY DEF HeadersOf
<1>2. CASE replies[n] = Zero
  BY <1>1, <1>2, ZeroFields
<1>3. CASE replies[n] # Zero
  BY <1>1, <1>3, ReplyFacts
<1> QED
  BY <1>2, <1>3

\* A set of natural numbers has a least one.
LEMMA LeastNatural ==
  ASSUME NEW T \in SUBSET Nat, T # {}
  PROVE  \E x \in T : \A y \in T : x <= y
<1> DEFINE R == OpToRel(<, Nat)
<1>1. \A x, y \in Nat : y < x => <<y, x>> \in R
  BY DEF OpToRel
<1>2. IsWellFoundedOn(R, Nat)
  BY NatLessThanWellFounded, Zenon
<1> HIDE DEF R
<1>3. PICK x \in T : \A y \in T : ~ (<<y, x>> \in R)
  BY <1>2, WFMin, Zenon
<1>4. \A y \in T : x <= y
  <2> SUFFICES ASSUME NEW y \in T PROVE x <= y
    OBVIOUS
  <2>1. ~(y < x)
    BY <1>1, <1>3, Zenon
  <2> QED
    BY <2>1
<1> QED
  BY <1>4

\* Bounded, it has a greatest one, which is its Max.
LEMMA MaxFacts ==
  ASSUME NEW m \in Nat, NEW S \in SUBSET (0..m), S # {}
  PROVE  Max(S) \in S /\ \A y \in S : y <= Max(S)
<1> DEFINE T == {m - x : x \in S}
<1>1. T \in SUBSET Nat /\ T # {}
  <2>1. \A x \in S : m - x \in Nat
    OBVIOUS
  <2>2. PICK z \in S : TRUE
    BY Zenon
  <2> QED
    BY <2>1, <2>2, Zenon
<1>2. PICK t \in T : \A y \in T : t <= y
  BY <1>1, LeastNatural, Zenon
<1>3. PICK x \in S : t = m - x
  OBVIOUS
<1>4. \A y \in S : x >= y
  <2> SUFFICES ASSUME NEW y \in S PROVE x >= y
    OBVIOUS
  <2>1. m - y \in T
    OBVIOUS
  <2>2. m - x <= m - y
    BY <1>2, <1>3, <2>1, Zenon
  <2> QED
    BY <2>2
<1>5. Max(S) \in S /\ \A y \in S : Max(S) >= y
  BY <1>4, Zenon DEF Max
<1>6. \A u, v \in 0..m : u >= v => v <= u
  OBVIOUS
<1> QED
  BY <1>5, <1>6

\* block-max is the greatest number of the headers, and latest-block is one of
\* the headers that have it.
LEMMA BlockMaxFacts ==
  ASSUME ConsensusInv, \A n \in Nodes : replies[n] # Pending,
         NEW s \in Shards, HeadersOf(s) # {}
  PROVE  /\ BlockMax(s) \in 0..head[s]
         /\ \A b \in HeadersOf(s) : b.number <= BlockMax(s)
         /\ LatestBlock(s) \in HeadersOf(s) /\ LatestBlock(s).number = BlockMax(s)
<1> DEFINE S == {b.number : b \in HeadersOf(s)}
<1>1. head[s] \in Nat /\ head[s] >= 1
  BY NumberFacts
<1>2. \A b \in HeadersOf(s) : b.number \in 0..head[s]
  BY <1>1, HeadersFacts
<1>3. S \in SUBSET (0..head[s]) /\ S # {}
  BY <1>2
<1> HIDE DEF S
<1>4. Max(S) \in S /\ \A y \in S : y <= Max(S)
  BY <1>1, <1>3, MaxFacts, Zenon
<1>5. BlockMax(s) = Max(S)
  BY DEF BlockMax, S
<1>6. PICK b \in HeadersOf(s) : b.number = BlockMax(s)
  BY <1>4, <1>5 DEF S
<1>7. LatestBlock(s) \in HeadersOf(s) /\ LatestBlock(s).number = BlockMax(s)
  BY <1>6, Zenon DEF LatestBlock
<1>8. \A c \in HeadersOf(s) : c.number <= BlockMax(s)
  BY <1>4, <1>5 DEF S
<1> QED
  BY <1>3, <1>4, <1>5, <1>7, <1>8, Zenon

\* The record of a shard: none, the zeros, or a block of the shard.
LEMMA LastFacts ==
  ASSUME ConsensusInv, NEW s \in Shards
  PROVE  /\ last[s].number \in Int /\ last[s].time \in Nat
         /\ last[s].number >= 1 =>
              last[s].number \in 1..head[s] /\ last[s].time = blockTime[s][last[s].number]
         /\ last[s] = NoBlock => last[s].number = -1
<1>1. \/ last[s] = NoBlock
      \/ last[s] = [number |-> 0, time |-> 0]
      \/ \E h \in 1..head[s] : last[s] = [number |-> h, time |-> blockTime[s][h]]
  BY Zenon DEF ConsensusInv, TypeOK
<1>2. CASE last[s] = NoBlock
  BY <1>2 DEF NoBlock
<1>3. CASE last[s] = [number |-> 0, time |-> 0]
  BY <1>3 DEF NoBlock
<1>4. CASE \E h \in 1..head[s] : last[s] = [number |-> h, time |-> blockTime[s][h]]
  <2>1. PICK h \in 1..head[s] : last[s] = [number |-> h, time |-> blockTime[s][h]]
    BY <1>4
  <2>2. last[s].number = h /\ last[s].time = blockTime[s][h]
    BY <2>1
  <2>3. blockTime[s][h] \in Start..clock /\ Start \in Nat /\ clock \in Nat /\ head[s] \in Nat
    BY NumberFacts
  <2>4. last[s] # NoBlock
    BY <2>2, <2>3 DEF NoBlock
  <2> QED
    BY <2>2, <2>3, <2>4
<1> QED
  BY <1>1, <1>2, <1>3, <1>4

\* For a block older than the tick the conversion to uint64 keeps the time.
LEMMA StuckFacts ==
  ASSUME ConsensusInv, NEW s \in Shards
  PROVE  Stuck(s) <=> /\ last[s] # NoBlock
                      /\ BlockMax(s) <= last[s].number
                      /\ Elapsed(s) > 0 /\ Elapsed(s) > Warning
<1>1. /\ Elapsed(s) \in Int /\ Elapsed(s) < Modulus
      /\ Modulus \in Nat
  <2>1. now \in Int /\ now <= clock /\ clock \in Nat /\ clock <= Start + MaxTime
    BY NumberFacts
  <2>2. last[s].time \in Nat
    BY LastFacts
  <2>3. Modulus \in Nat /\ Start + MaxTime < Modulus /\ Start \in Nat /\ MaxTime \in Nat
    BY ConsensusAssumption DEF Start
  <2> QED
    BY <2>1, <2>2, <2>3 DEF Elapsed
<1>2. Elapsed(s) > 0 => Elapsed(s) % Modulus = Elapsed(s)
  BY <1>1
<1> QED
  BY <1>2 DEF Stuck, ElapsedUint

\* A second passes.
LEMMA SecondInv ==
  ASSUME ConsensusInv, Second
  PROVE  ConsensusInv'
<1>1. /\ clock < Start + MaxTime /\ clock' = clock + 1
      /\ tick' = clock' \/ tick' = tick
      /\ paged' = NoPage
      /\ UNCHANGED <<head, blockTime, height, pc, now, startHead, replies, last, status, checks>>
  BY DEF Second, chainVars, roundVars
<1>2. /\ Start \in Nat /\ clock \in Nat /\ Start <= clock /\ now <= clock /\ MaxTime \in Nat
      /\ now \in Int /\ tick \in Int
  BY NumberFacts, ConsensusAssumption
<1>3. /\ clock' \in Start..(Start + MaxTime) /\ Start..clock \subseteq Start..clock'
      /\ clock' \in Start..clock'
  BY <1>1, <1>2
<1>4. TypeOK'
  <2>1. tick' \in {NoTick} \cup Start..clock' /\ now' \in {NoTick} \cup Start..clock'
    BY <1>1, <1>3 DEF ConsensusInv, TypeOK
  <2>2. \A s \in Shards : blockTime'[s] \in [1..head'[s] -> Start..clock']
    <3> SUFFICES ASSUME NEW s \in Shards
                 PROVE  blockTime[s] \in [1..head[s] -> Start..clock']
      BY <1>1
    <3>1. blockTime[s] \in [1..head[s] -> Start..clock]
      BY DEF ConsensusInv, TypeOK
    <3> QED
      BY <1>3, <3>1
  <2> QED
    BY <1>1, <1>3, <2>1, <2>2 DEF ConsensusInv, TypeOK
<1>5. FunctionsOK' /\ TimesInOrder'
  BY <1>1 DEF ConsensusInv, FunctionsOK, TimesInOrder
<1>6. TickIsLater'
  BY <1>1, <1>2 DEF ConsensusInv, TickIsLater
<1>7. StuckIsOld' /\ ChecksSound' /\ OutOfSyncIsBehind'
  BY <1>1 DEF ConsensusInv, StuckIsOld, Elapsed, ChecksSound, OutOfSyncIsBehind
<1> QED
  BY <1>4, <1>5, <1>6, <1>7 DEF ConsensusInv

\* A block is made.
LEMMA NewBlockInv ==
  ASSUME ConsensusInv, NEW z \in Shards, NewBlock(z)
  PROVE  ConsensusInv'
<1> DEFINE times == [h \in 1..(head[z] + 1) |-> IF h \in 1..head[z] THEN blockTime[z][h] ELSE clock]
<1>1. /\ head[z] < MaxHeight
      /\ head' = [head EXCEPT ![z] = head[z] + 1]
      /\ blockTime' = [blockTime EXCEPT ![z] = times]
      /\ paged' = NoPage
      /\ UNCHANGED <<clock, tick, height, pc, now, startHead, replies, last, status, checks>>
  BY DEF NewBlock, roundVars
<1>2. head \in [Shards -> 1..MaxHeight] /\ MaxHeight \in Nat
  BY ConsensusAssumption DEF ConsensusInv, TypeOK
<1>3. /\ head'[z] = head[z] + 1 /\ head' \in [Shards -> 1..MaxHeight]
      /\ \A s \in Shards : s # z => head'[s] = head[s]
  BY <1>1, <1>2
<1>4. \A s \in Shards : head'[s] \in Nat /\ head[s] <= head'[s] /\ 1..head[s] \subseteq 1..head'[s]
  BY <1>2, <1>3
<1>5. DOMAIN blockTime = Shards /\ DOMAIN blockTime' = Shards
  BY <1>1 DEF ConsensusInv, FunctionsOK
<1>6. blockTime'[z] = times /\ \A s \in Shards : s # z => blockTime'[s] = blockTime[s]
  BY <1>1, <1>5
<1>7. \A s \in Shards : \A h \in 1..head[s] : blockTime'[s][h] = blockTime[s][h]
  <2> SUFFICES ASSUME NEW s \in Shards, NEW h \in 1..head[s]
               PROVE  blockTime'[s][h] = blockTime[s][h]
    OBVIOUS
  <2>1. CASE s = z
    <3>1. h \in 1..(head[z] + 1) /\ h \in 1..head[z]
      BY <1>2, <2>1
    <3>2. times[h] = blockTime[z][h]
      BY <3>1, Zenon
    <3> QED
      BY <1>6, <2>1, <3>2, Zenon
  <2>2. CASE s # z
    BY <1>6, <2>2
  <2> QED
    BY <2>1, <2>2
<1>8. clock \in Start..clock /\ Start \in Nat /\ clock \in Nat
  BY NumberFacts
<1>9. \A h \in 1..head'[z] : h \in 1..head[z] \/ h = head'[z]
  BY <1>2, <1>3
<1>10. head'[z] \notin 1..head[z] /\ head'[z] \in 1..head'[z] /\ times[head'[z]] = clock
  BY <1>2, <1>3
<1>11. \A s \in Shards : blockTime'[s] \in [1..head'[s] -> Start..clock]
  <2> SUFFICES ASSUME NEW s \in Shards PROVE blockTime'[s] \in [1..head'[s] -> Start..clock]
    OBVIOUS
  <2>1. blockTime[s] \in [1..head[s] -> Start..clock]
    BY DEF ConsensusInv, TypeOK
  <2>2. CASE s = z
    <3>1. \A h \in 1..(head[z] + 1) : times[h] \in Start..clock
      BY <1>8, <2>1, <2>2, Zenon
    <3>2. times \in [1..(head[z] + 1) -> Start..clock]
      BY <3>1, Zenon
    <3> QED
      BY <1>3, <1>6, <2>2, <3>2
  <2>3. CASE s # z
    BY <1>3, <1>6, <2>1, <2>3
  <2> QED
    BY <2>2, <2>3
<1> HIDE DEF times
<1>12. TypeOK'
  <2>1. \A n \in Nodes : ShardOf[n] \in Shards
    BY ConsensusAssumption
  <2>2. \A n \in Nodes : height'[n] \in 1..head'[ShardOf[n]]
    BY <1>1, <1>4, <2>1 DEF ConsensusInv, TypeOK
  <2>3. \A s \in Shards : startHead'[s] \in 1..head'[s]
    BY <1>1, <1>4 DEF ConsensusInv, TypeOK
  <2>4. \A n \in Nodes : replies'[n] \in {Pending, Down, Zero} \cup
          {Header(ShardOf[n], h, blockTime'[ShardOf[n]][h]) : h \in 1..height'[n]}
    <3> SUFFICES ASSUME NEW n \in Nodes, replies[n] \notin {Pending, Down, Zero}
                 PROVE  \E h \in 1..height[n] :
                          replies[n] = Header(ShardOf[n], h, blockTime'[ShardOf[n]][h])
      BY <1>1
    <3>1. PICK h \in 1..height[n] :
            replies[n] = Header(ShardOf[n], h, blockTime[ShardOf[n]][h])
      BY DEF ConsensusInv, TypeOK
    <3>2. h \in 1..head[ShardOf[n]]
      BY NumberFacts
    <3> QED
      BY <1>7, <2>1, <3>1, <3>2
  <2>5. \A s \in Shards : last'[s] \in {NoBlock, [number |-> 0, time |-> 0]} \cup
          {[number |-> h, time |-> blockTime'[s][h]] : h \in 1..head'[s]}
    <3> SUFFICES ASSUME NEW s \in Shards, last[s] \notin {NoBlock, [number |-> 0, time |-> 0]}
                 PROVE  \E h \in 1..head'[s] : last[s] = [number |-> h, time |-> blockTime'[s][h]]
      BY <1>1, Zenon
    <3>1. PICK h \in 1..head[s] : last[s] = [number |-> h, time |-> blockTime[s][h]]
      BY DEF ConsensusInv, TypeOK
    <3> QED
      BY <1>4, <1>7, <3>1
  <2> QED
    BY <1>1, <1>3, <1>11, <2>2, <2>3, <2>4, <2>5 DEF ConsensusInv, TypeOK
<1>13. FunctionsOK'
  <2>1. blockTime' = [s \in Shards |-> blockTime'[s]]
    BY <1>1, <1>5, Zenon
  <2> QED
    BY <1>1, <2>1 DEF ConsensusInv, FunctionsOK
<1>14. TimesInOrder'
  <2> SUFFICES ASSUME NEW s \in Shards, NEW g \in 1..head'[s], NEW h \in 1..head'[s], g <= h
               PROVE  blockTime'[s][g] <= blockTime'[s][h]
    BY DEF TimesInOrder
  <2>1. CASE g \in 1..head[s] /\ h \in 1..head[s]
    BY <1>7, <2>1 DEF ConsensusInv, TimesInOrder
  <2>2. CASE h \notin 1..head[s]
    <3>1. s = z /\ h = head'[z]
      BY <1>3, <1>9, <2>2
    <3>2. blockTime'[s][h] = clock
      BY <1>6, <1>10, <3>1
    <3>3. blockTime'[s][g] \in Start..clock
      BY <1>11, Zenon
    <3> QED
      BY <1>8, <3>2, <3>3
  <2>3. CASE g \notin 1..head[s] /\ h \in 1..head[s]
    BY <1>2, <1>4, <2>3
  <2> QED
    BY <2>1, <2>2, <2>3
<1>15. TickIsLater' /\ StuckIsOld' /\ OutOfSyncIsBehind'
  BY <1>1 DEF ConsensusInv, TickIsLater, StuckIsOld, Elapsed, OutOfSyncIsBehind
<1>16. ChecksSound'
  <2> SUFFICES ASSUME NEW c \in checks, c.number # 0
               PROVE  c.top <= head'[ShardOf[c.node]] /\ c.top - c.number > Tolerance
    BY <1>1 DEF ChecksSound
  <2>1. c.top <= head[ShardOf[c.node]] /\ c.top - c.number > Tolerance
    BY DEF ConsensusInv, ChecksSound
  <2>2. c.node \in Nodes /\ c.top \in Nat
    BY DEF ConsensusInv, TypeOK
  <2>3. ShardOf[c.node] \in Shards
    BY <2>2, ConsensusAssumption
  <2> QED
    BY <1>2, <1>4, <2>1, <2>2, <2>3
<1> QED
  BY <1>12, <1>13, <1>14, <1>15, <1>16 DEF ConsensusInv

\* A node catches up with its shard.
LEMMA CatchUpInv ==
  ASSUME ConsensusInv, NEW m \in Nodes, CatchUp(m)
  PROVE  ConsensusInv'
<1>1. /\ height[m] < head[ShardOf[m]]
      /\ height' = [height EXCEPT ![m] = height[m] + 1]
      /\ paged' = NoPage
      /\ UNCHANGED <<clock, tick, head, blockTime, pc, now, startHead, replies, last, status, checks>>
  BY DEF CatchUp, roundVars
<1>2. DOMAIN height = Nodes /\ DOMAIN height' = Nodes
  BY <1>1 DEF ConsensusInv, FunctionsOK
<1>3. height'[m] = height[m] + 1 /\ \A n \in Nodes : n # m => height'[n] = height[n]
  BY <1>1, <1>2
<1>4. \A n \in Nodes : height[n] \in 1..head[ShardOf[n]] /\ head[ShardOf[n]] \in Nat
  BY NumberFacts
<1>5. \A n \in Nodes : height'[n] \in 1..head[ShardOf[n]] /\ 1..height[n] \subseteq 1..height'[n]
  BY <1>1, <1>3, <1>4
<1>6. TypeOK'
  <2>1. \A n \in Nodes : replies'[n] \in {Pending, Down, Zero} \cup
          {Header(ShardOf[n], h, blockTime'[ShardOf[n]][h]) : h \in 1..height'[n]}
    <3> SUFFICES ASSUME NEW n \in Nodes, replies[n] \notin {Pending, Down, Zero}
                 PROVE  \E h \in 1..height'[n] :
                          replies[n] = Header(ShardOf[n], h, blockTime[ShardOf[n]][h])
      BY <1>1
    <3>1. PICK h \in 1..height[n] :
            replies[n] = Header(ShardOf[n], h, blockTime[ShardOf[n]][h])
      BY DEF ConsensusInv, TypeOK
    <3> QED
      BY <1>5, <3>1
  <2>2. WorldOK'
    BY <1>1, <1>5, TypeParts DEF ConsensusInv, WorldOK
  <2>3. RoundOK'
    BY <1>1, <2>1, TypeParts DEF ConsensusInv, RoundOK
  <2>4. KeptOK'
    BY <1>1, TypeParts DEF ConsensusInv, KeptOK
  <2>5. TypeOK' <=> WorldOK' /\ RoundOK' /\ KeptOK'
    BY Zenon DEF TypeOK, WorldOK, RoundOK, KeptOK
  <2> QED
    BY <2>2, <2>3, <2>4, <2>5, Zenon
<1>7. FunctionsOK'
  <2>1. height' = [n \in Nodes |-> height'[n]]
    BY <1>1, <1>2, Zenon
  <2> QED
    BY <1>1, <2>1 DEF ConsensusInv, FunctionsOK
<1>8. TimesInOrder' /\ TickIsLater'
  <2>1. TimesInOrder'
    BY <1>1 DEF ConsensusInv, TimesInOrder
  <2>2. TickIsLater'
    BY <1>1 DEF ConsensusInv, TickIsLater
  <2> QED
    BY <2>1, <2>2
<1>9. StuckIsOld' /\ ChecksSound' /\ OutOfSyncIsBehind'
  BY <1>1 DEF ConsensusInv, StuckIsOld, Elapsed, ChecksSound, OutOfSyncIsBehind
<1> QED
  BY <1>6, <1>7, <1>8, <1>9 DEF ConsensusInv

\* A round begins with the tick that was waiting.
LEMMA StartRoundInv ==
  ASSUME ConsensusInv, StartRound
  PROVE  ConsensusInv'
<1>1. /\ tick # NoTick /\ pc' = "poll" /\ now' = tick /\ tick' = NoTick /\ startHead' = head
      /\ replies' = [n \in Nodes |-> Pending]
      /\ paged' = NoPage
      /\ UNCHANGED <<clock, head, blockTime, height, last, status, checks>>
  BY DEF StartRound, chainVars
<1>2. now <= tick /\ now \in Int /\ tick \in Int
  BY <1>1, NumberFacts DEF ConsensusInv, TickIsLater
<1>3. \A s \in Shards : head[s] \in 1..head[s]
  BY NumberFacts
<1>4. TypeOK'
  <2>1. \A n \in Nodes : replies'[n] = Pending
    BY <1>1
  <2>2. \A s \in Shards : startHead'[s] \in 1..head'[s]
    BY <1>1, <1>3
  <2> QED
    BY <1>1, <2>1, <2>2 DEF ConsensusInv, TypeOK
<1>5. FunctionsOK' /\ TimesInOrder' /\ TickIsLater'
  BY <1>1 DEF ConsensusInv, FunctionsOK, TimesInOrder, TickIsLater
<1>6. StuckIsOld'
  <2> SUFFICES ASSUME NEW s \in Shards, status[s] = "stuck"
               PROVE  /\ last[s] # NoBlock
                      /\ tick - last[s].time > 0 /\ tick - last[s].time > Warning
    BY <1>1 DEF StuckIsOld, Elapsed
  <2>1. last[s] # NoBlock /\ now - last[s].time > 0 /\ now - last[s].time > Warning
    BY DEF ConsensusInv, StuckIsOld, Elapsed
  <2>2. last[s].time \in Int
    BY <2>1, LastFacts
  <2> QED
    BY <1>2, <2>1, <2>2, ConsensusAssumption
<1>7. ChecksSound' /\ OutOfSyncIsBehind'
  BY <1>1 DEF ConsensusInv, ChecksSound, OutOfSyncIsBehind
<1> QED
  BY <1>4, <1>5, <1>6, <1>7 DEF ConsensusInv

\* What a node says is what it has.
LEMMA ReplyInv ==
  ASSUME ConsensusInv, NEW m \in Nodes, Reply(m)
  PROVE  ConsensusInv'
<1>1. PICK a \in Answers(m) : replies' = [replies EXCEPT ![m] = a]
  BY Zenon DEF Reply
<1>2. /\ paged' = NoPage
      /\ UNCHANGED <<clock, tick, head, blockTime, height, pc, now, startHead, last, status, checks>>
  BY DEF Reply, chainVars
<1>3. DOMAIN replies = Nodes /\ DOMAIN replies' = Nodes
  BY <1>1 DEF ConsensusInv, FunctionsOK
<1>4. replies'[m] = a /\ \A n \in Nodes : n # m => replies'[n] = replies[n]
  BY <1>1, <1>3
<1>5. height[m] \in 1..height[m]
  BY NumberFacts
<1>6. a \in {Pending, Down, Zero} \cup
        {Header(ShardOf[m], h, blockTime[ShardOf[m]][h]) : h \in 1..height[m]}
  BY <1>5 DEF Answers
<1>7. TypeOK'
  <2>1. \A n \in Nodes : replies'[n] \in {Pending, Down, Zero} \cup
          {Header(ShardOf[n], h, blockTime[ShardOf[n]][h]) : h \in 1..height[n]}
    <3>1. \A n \in Nodes : replies[n] \in {Pending, Down, Zero} \cup
            {Header(ShardOf[n], h, blockTime[ShardOf[n]][h]) : h \in 1..height[n]}
      BY DEF ConsensusInv, TypeOK
    <3> QED
      BY <1>4, <1>6, <3>1, Zenon
  <2>2. WorldOK'
    BY <1>2, TypeParts DEF ConsensusInv, WorldOK
  <2>3. RoundOK'
    BY <1>2, <2>1, TypeParts DEF ConsensusInv, RoundOK
  <2>4. KeptOK'
    BY <1>2, TypeParts DEF ConsensusInv, KeptOK
  <2>5. TypeOK' <=> WorldOK' /\ RoundOK' /\ KeptOK'
    BY Zenon DEF TypeOK, WorldOK, RoundOK, KeptOK
  <2> QED
    BY <2>2, <2>3, <2>4, <2>5, Zenon
<1>8. FunctionsOK'
  <2>1. replies' = [n \in Nodes |-> replies'[n]]
    BY <1>1, <1>3, Zenon
  <2> QED
    BY <1>2, <2>1 DEF ConsensusInv, FunctionsOK
<1>9. TimesInOrder' /\ TickIsLater'
  BY <1>2 DEF ConsensusInv, TimesInOrder, TickIsLater
<1>10. StuckIsOld' /\ ChecksSound' /\ OutOfSyncIsBehind'
  BY <1>2 DEF ConsensusInv, StuckIsOld, Elapsed, ChecksSound, OutOfSyncIsBehind
<1> QED
  BY <1>7, <1>8, <1>9, <1>10 DEF ConsensusInv

\* What Evaluate makes of a shard: nobody answered, it is stuck, or its newest
\* block is recorded.
LEMMA EvaluateFacts ==
  ASSUME ConsensusInv, Evaluate, NEW s \in Shards
  PROVE  \/ /\ HeadersOf(s) = {}
            /\ last'[s] = last[s] /\ status'[s] = status[s]
         \/ /\ HeadersOf(s) # {} /\ Stuck(s)
            /\ last'[s] = last[s] /\ status'[s] = "stuck"
         \/ /\ HeadersOf(s) # {} /\ ~Stuck(s)
            /\ last'[s] = [number |-> BlockMax(s), time |-> LatestBlock(s).time]
            /\ status'[s] = "progress"
<1>1. /\ last'[s] = NextLast(s)
      /\ status'[s] = IF HeadersOf(s) = {} THEN status[s]
                      ELSE IF Stuck(s) THEN "stuck" ELSE "progress"
  BY Zenon DEF Evaluate
<1>2. \A n \in Nodes : replies[n] # Pending
  BY DEF Evaluate
<1>3. HeadersOf(s) # {} => LatestBlock(s).number = BlockMax(s)
  BY <1>2, BlockMaxFacts
<1> QED
  BY <1>1, <1>3, Zenon DEF NextLast

\* A check that is started is sound.
LEMMA NewCheckFacts ==
  ASSUME ConsensusInv, \A n \in Nodes : replies[n] # Pending, NEW n \in Lagging
  PROVE  LET c == NewCheck(n) IN
           /\ c \in [node : Nodes, number : Nat, top : Nat, due : Nat]
           /\ c.number = 0 \/ (c.top <= head[ShardOf[c.node]] /\ c.top - c.number > Tolerance)
<1> DEFINE s == replies[n].shard
           c == NewCheck(n)
<1>1. n \in Nodes /\ replies[n] # Down /\ BlockMax(s) - replies[n].number > Tolerance
  BY DEF Lagging
<1>2. \/ replies[n].number = 0 /\ s = 0
      \/ s = ShardOf[n] /\ replies[n].number \in 1..head[ShardOf[n]]
  BY <1>1, ReplyFacts, ZeroFields
<1>3. s \in Shards
  BY <1>1, <1>2, ConsensusAssumption
<1>4. replies[n] \in HeadersOf(s)
  BY <1>1 DEF HeadersOf
<1>5. BlockMax(s) \in 0..head[s] /\ head[s] \in Nat
  BY <1>3, <1>4, BlockMaxFacts, NumberFacts
<1>6. /\ c.node = n /\ c.number = replies[n].number /\ c.top = BlockMax(s)
  BY DEF NewCheck
<1>7. clock + Warning \in Nat
  BY NumberFacts, ConsensusAssumption
<1>8. replies[n].number \in Nat /\ BlockMax(s) \in Nat
  BY <1>1, <1>2, <1>5, NumberFacts
<1>9. c \in [node : Nodes, number : Nat, top : Nat, due : Nat]
  BY <1>1, <1>7, <1>8, Zenon DEF NewCheck
<1>10. replies[n].number # 0 => BlockMax(s) <= head[ShardOf[n]]
  BY <1>2, <1>5
<1> QED
  BY <1>1, <1>6, <1>9, <1>10

\* The decisions of a round.
LEMMA EvaluateInv ==
  ASSUME ConsensusInv, Evaluate
  PROVE  ConsensusInv'
<1>1. /\ pc = "poll" /\ \A n \in Nodes : replies[n] # Pending
      /\ last' = [s \in Shards |-> NextLast(s)]
      /\ status' = [s \in Shards |-> IF HeadersOf(s) = {} THEN status[s]
                                     ELSE IF Stuck(s) THEN "stuck" ELSE "progress"]
      /\ checks' = checks \cup {NewCheck(n) : n \in Lagging}
      /\ pc' = "idle" /\ replies' = [n \in Nodes |-> Pending] /\ paged' = NoPage
      /\ UNCHANGED <<clock, tick, head, blockTime, height, now, startHead>>
  BY Zenon DEF Evaluate, chainVars
<1>2. \A s \in Shards : last'[s] \in {NoBlock, [number |-> 0, time |-> 0]} \cup
        {[number |-> h, time |-> blockTime[s][h]] : h \in 1..head[s]}
  <2> SUFFICES ASSUME NEW s \in Shards
               PROVE  last'[s] \in {NoBlock, [number |-> 0, time |-> 0]} \cup
                        {[number |-> h, time |-> blockTime[s][h]] : h \in 1..head[s]}
    OBVIOUS
  <2>1. CASE last'[s] = last[s]
    BY <2>1 DEF ConsensusInv, TypeOK
  <2>2. CASE HeadersOf(s) # {} /\ last'[s] = [number |-> BlockMax(s), time |-> LatestBlock(s).time]
    <3>1. LatestBlock(s) \in HeadersOf(s) /\ LatestBlock(s).number = BlockMax(s)
      BY <1>1, <2>2, BlockMaxFacts
    <3>2. \/ BlockMax(s) = 0 /\ LatestBlock(s).time = 0
          \/ BlockMax(s) \in 1..head[s] /\ LatestBlock(s).time = blockTime[s][BlockMax(s)]
      BY <1>1, <3>1, HeadersFacts
    <3> QED
      BY <2>2, <3>2, Zenon
  <2> QED
    BY <2>1, <2>2, EvaluateFacts
<1>3. \A c \in checks' :
        /\ c \in [node : Nodes, number : Nat, top : Nat, due : Nat]
        /\ c.number = 0 \/ (c.top <= head[ShardOf[c.node]] /\ c.top - c.number > Tolerance)
  <2> SUFFICES ASSUME NEW c \in checks'
               PROVE  /\ c \in [node : Nodes, number : Nat, top : Nat, due : Nat]
                      /\ \/ c.number = 0
                         \/ c.top <= head[ShardOf[c.node]] /\ c.top - c.number > Tolerance
    OBVIOUS
  <2>1. CASE c \in checks
    BY <2>1 DEF ConsensusInv, TypeOK, ChecksSound
  <2>2. CASE c \in {NewCheck(n) : n \in Lagging}
    BY <1>1, <2>2, NewCheckFacts
  <2> QED
    BY <1>1, <2>1, <2>2
<1>4. TypeOK'
  <2>1. \A n \in Nodes : replies'[n] = Pending
    BY <1>1
  <2>2. status' \in [Shards -> {"unknown", "progress", "stuck"}]
    BY <1>1 DEF ConsensusInv, TypeOK
  <2>3. WorldOK'
    BY <1>1, TypeParts DEF ConsensusInv, WorldOK
  <2>4. RoundOK'
    BY <1>1, <2>1, TypeParts DEF ConsensusInv, RoundOK
  <2>5. checks' \subseteq [node : Nodes, number : Nat, top : Nat, due : Nat]
    BY <1>3, Zenon
  <2>6. paged' = NoPage \/ paged' \in [node : Nodes, valid : BOOLEAN]
    BY <1>1, TypeParts DEF ConsensusInv, KeptOK
  <2>7. KeptOK'
    BY <1>1, <1>2, <2>2, <2>5, <2>6 DEF KeptOK
  <2>8. TypeOK' <=> WorldOK' /\ RoundOK' /\ KeptOK'
    BY Zenon DEF TypeOK, WorldOK, RoundOK, KeptOK
  <2> QED
    BY <2>3, <2>4, <2>7, <2>8, Zenon
<1>5. FunctionsOK' /\ TimesInOrder' /\ TickIsLater' /\ OutOfSyncIsBehind'
  BY <1>1 DEF ConsensusInv, FunctionsOK, TimesInOrder, TickIsLater, OutOfSyncIsBehind
<1>6. StuckIsOld'
  <2> SUFFICES ASSUME NEW s \in Shards, status'[s] = "stuck"
               PROVE  last'[s] # NoBlock /\ now - last'[s].time > 0 /\ now - last'[s].time > Warning
    BY <1>1 DEF StuckIsOld, Elapsed
  <2>1. last'[s] = last[s] /\ (Stuck(s) \/ status[s] = "stuck")
    BY EvaluateFacts, Zenon
  <2>2. CASE Stuck(s)
    BY <2>1, <2>2, StuckFacts DEF Elapsed
  <2>3. CASE status[s] = "stuck"
    BY <2>1, <2>3 DEF ConsensusInv, StuckIsOld, Elapsed
  <2> QED
    BY <2>1, <2>2, <2>3
<1>7. ChecksSound'
  BY <1>1, <1>3 DEF ChecksSound
<1> QED
  BY <1>4, <1>5, <1>6, <1>7 DEF ConsensusInv

\* checkSync: a valid answer that shows no progress is of a node still behind.
LEMMA CheckSyncInv ==
  ASSUME ConsensusInv, NEW c \in checks, CheckSync(c)
  PROVE  ConsensusInv'
<1> DEFINE n == c.node
<1>1. /\ checks' = checks \ {c}
      /\ UNCHANGED <<clock, tick, head, blockTime, height, pc, now, startHead, replies, last, status>>
  BY DEF CheckSync, chainVars, roundVars
<1>2. PICK a \in Answers(n) :
        paged' = IF a # Down /\ ~(a.number > c.number)
                 THEN [node |-> n, valid |-> a # Zero] ELSE NoPage
  BY Zenon DEF CheckSync
<1>3. n \in Nodes /\ c.number \in Nat /\ c.top \in Nat
  BY DEF ConsensusInv, TypeOK
<1>4. paged' = NoPage \/ paged' \in [node : Nodes, valid : BOOLEAN]
  <2>1. (a # Zero) \in BOOLEAN
    OBVIOUS
  <2>2. [node |-> n, valid |-> a # Zero] \in [node : Nodes, valid : BOOLEAN]
    BY <1>3, <2>1, Zenon
  <2> QED
    BY <1>2, <2>2, Zenon
<1>5. ASSUME paged' # NoPage, paged'.valid
      PROVE  head[ShardOf[paged'.node]] - height[paged'.node] > Tolerance
  <2>1. a # Down /\ ~(a.number > c.number) /\ paged' = [node |-> n, valid |-> a # Zero]
    BY <1>2, <1>5, Zenon
  <2>2. paged'.node = n
    BY <2>1
  <2>3. a # Zero
    <3>1. paged'.valid = (a # Zero)
      BY <2>1, Zenon
    <3> QED
      BY <1>5, <3>1, Zenon
  <2>4. a = Header(ShardOf[n], height[n], blockTime[ShardOf[n]][height[n]])
    BY <2>1, <2>3 DEF Answers
  <2>5. a.number = height[n]
    BY <2>4, HeaderFields
  <2>6. ShardOf[n] \in Shards /\ head[ShardOf[n]] \in Nat /\ height[n] \in Nat /\ height[n] >= 1
    BY <1>3, NumberFacts
  <2>7. height[n] <= c.number /\ c.number # 0
    BY <1>3, <2>1, <2>5, <2>6
  <2>8. c.top <= head[ShardOf[n]] /\ c.top - c.number > Tolerance
    BY <2>7 DEF ConsensusInv, ChecksSound
  <2>9. head[ShardOf[n]] - height[n] > Tolerance
    BY <1>3, <2>6, <2>7, <2>8, ConsensusAssumption
  <2> QED
    BY <2>2, <2>9, Zenon
<1>6. TypeOK'
  <2>1. WorldOK' /\ RoundOK'
    BY <1>1, TypeParts DEF ConsensusInv, WorldOK, RoundOK
  <2>2. KeptOK'
    BY <1>1, <1>4, TypeParts DEF ConsensusInv, KeptOK
  <2>3. TypeOK' <=> WorldOK' /\ RoundOK' /\ KeptOK'
    BY Zenon DEF TypeOK, WorldOK, RoundOK, KeptOK
  <2> QED
    BY <2>1, <2>2, <2>3, Zenon
<1>7. FunctionsOK' /\ TimesInOrder' /\ TickIsLater'
  BY <1>1 DEF ConsensusInv, FunctionsOK, TimesInOrder, TickIsLater
<1>8. StuckIsOld' /\ ChecksSound'
  BY <1>1 DEF ConsensusInv, StuckIsOld, Elapsed, ChecksSound
<1>9. OutOfSyncIsBehind'
  BY <1>1, <1>5, Zenon DEF OutOfSyncIsBehind
<1> QED
  BY <1>6, <1>7, <1>8, <1>9 DEF ConsensusInv

\* Every step keeps ConsensusInv.
LEMMA ConsensusStep ==
  ASSUME ConsensusInv, Next
  PROVE  ConsensusInv'
<1>1. CASE Second
  BY <1>1, SecondInv
<1>2. CASE StartRound
  BY <1>2, StartRoundInv
<1>3. CASE Evaluate
  BY <1>3, EvaluateInv
<1>4. ASSUME NEW s \in Shards, NewBlock(s) PROVE ConsensusInv'
  BY <1>4, NewBlockInv
<1>5. ASSUME NEW n \in Nodes, CatchUp(n) PROVE ConsensusInv'
  BY <1>5, CatchUpInv
<1>6. ASSUME NEW n \in Nodes, Reply(n) PROVE ConsensusInv'
  BY <1>6, ReplyInv
<1>7. ASSUME NEW c \in checks, CheckSync(c) PROVE ConsensusInv'
  BY <1>7, CheckSyncInv
<1> QED
  BY <1>1, <1>2, <1>3, <1>4, <1>5, <1>6, <1>7, Zenon DEF Next

\* The chain begins with one block of each shard.
LEMMA ConsensusInitial ==
  ASSUME Init
  PROVE  ConsensusInv
<1>1. /\ clock = Start /\ tick = NoTick /\ head = [s \in Shards |-> 1]
      /\ blockTime = [s \in Shards |-> [h \in 1..1 |-> Start]]
      /\ height = [n \in Nodes |-> 1] /\ pc = "idle" /\ now = NoTick /\ startHead = head
      /\ replies = [n \in Nodes |-> Pending] /\ last = [s \in Shards |-> NoBlock]
      /\ status = [s \in Shards |-> "unknown"] /\ checks = {} /\ paged = NoPage
  BY DEF Init
<1>2. Start \in Nat /\ MaxTime \in Nat /\ MaxHeight \in Nat /\ MaxHeight >= 1
  BY ConsensusAssumption DEF Start
<1>3. /\ clock \in Start..(Start + MaxTime) /\ 1 \in 1..MaxHeight /\ Start \in Start..clock /\ 1 \in 1..1
  BY <1>1, <1>2
<1>4. /\ head \in [Shards -> 1..MaxHeight]
      /\ \A s \in Shards : head[s] = 1 /\ last[s] = NoBlock /\ status[s] = "unknown"
      /\ \A s \in Shards : blockTime[s] = [h \in 1..1 |-> Start] /\ startHead[s] = 1
      /\ \A n \in Nodes : height[n] = 1 /\ replies[n] = Pending /\ ShardOf[n] \in Shards
  <2>1. head \in [Shards -> 1..MaxHeight]
    BY <1>1, <1>3
  <2>2. \A s \in Shards : head[s] = 1 /\ last[s] = NoBlock /\ status[s] = "unknown"
    BY <1>1, Zenon
  <2>3. \A s \in Shards : blockTime[s] = [h \in 1..1 |-> Start] /\ startHead[s] = 1
    BY <1>1, Zenon
  <2>4. \A n \in Nodes : height[n] = 1 /\ replies[n] = Pending /\ ShardOf[n] \in Shards
    BY <1>1, ConsensusAssumption, Zenon
  <2> QED
    BY <2>1, <2>2, <2>3, <2>4, Zenon
<1>5. [h \in 1..1 |-> Start] \in [1..1 -> Start..clock]
  BY <1>3
<1>6. TypeOK
  <2>1. \A s \in Shards : blockTime[s] \in [1..head[s] -> Start..clock] /\ startHead[s] \in 1..head[s]
    BY <1>3, <1>4, <1>5, Zenon
  <2>2. \A n \in Nodes : height[n] \in 1..head[ShardOf[n]]
    BY <1>3, <1>4
  <2>3. status \in [Shards -> {"unknown", "progress", "stuck"}]
    BY <1>1
  <2> QED
    <3>1. WorldOK
      BY <1>1, <1>3, <1>4, <2>1, <2>2 DEF WorldOK
    <3>2. RoundOK
      BY <1>1, <1>4, <2>1 DEF RoundOK
    <3>3. KeptOK
      BY <1>1, <1>4, <2>3 DEF KeptOK
    <3> QED
      BY <3>1, <3>2, <3>3, TypeParts, Zenon
<1>7. FunctionsOK
  BY <1>1 DEF FunctionsOK
<1>8. TimesInOrder
  <2>1. \A h \in 1..1 : [i \in 1..1 |-> Start][h] = Start
    OBVIOUS
  <2> QED
    BY <1>2, <1>4, <2>1 DEF TimesInOrder
<1>9. TickIsLater /\ StuckIsOld /\ ChecksSound /\ OutOfSyncIsBehind
  BY <1>1, <1>4 DEF TickIsLater, StuckIsOld, ChecksSound, OutOfSyncIsBehind
<1> QED
  BY <1>6, <1>7, <1>8, <1>9 DEF ConsensusInv

\* ConsensusInv holds of every state of consensusMonitor.
THEOREM ConsensusInductive == Spec => []ConsensusInv
<1>1. Init => ConsensusInv
  BY ConsensusInitial
<1>2. ConsensusInv /\ [Next]_vars => ConsensusInv'
  <2>1. CASE Next
    BY <2>1, ConsensusStep
  <2>2. CASE UNCHANGED vars
    <3>1. ConsensusInv => TypeOK' /\ FunctionsOK'
      BY <2>2 DEF vars, ConsensusInv, TypeOK, FunctionsOK
    <3>2. ConsensusInv => TimesInOrder' /\ TickIsLater' /\ StuckIsOld' /\ ChecksSound' /\ OutOfSyncIsBehind'
      BY <2>2 DEF vars, ConsensusInv, TimesInOrder, TickIsLater, StuckIsOld, Elapsed,
                  ChecksSound, OutOfSyncIsBehind
    <3> QED
      BY <3>1, <3>2 DEF ConsensusInv
  <2> QED
    BY <2>1, <2>2
<1> QED
  BY <1>1, <1>2, PTL DEF Spec

\* What consensusMonitor keeps has its types: a recorded block is one its shard has
\* made, with that block's time.
THEOREM TypeInvariant == Spec => []TypeOK
<1>1. ConsensusInv => TypeOK
  BY DEF ConsensusInv
<1> QED
  BY <1>1, ConsensusInductive, PTL

\* An out-of-sync alert after a valid answer is about a node that is more than
\* the tolerance behind its shard when checkSync sends it.
THEOREM OutOfSyncAlertsAreRight == Spec => []OutOfSyncIsBehind
<1>1. ConsensusInv => OutOfSyncIsBehind
  BY DEF ConsensusInv
<1> QED
  BY <1>1, ConsensusInductive, PTL

\* Only Evaluate ends a round, and only it changes the status of a shard.
LEMMA OnlyEvaluate ==
  ASSUME Next
  PROVE  (Evaluating => Evaluate) /\ (status' # status => Evaluate)
<1>1. CASE Second
  BY <1>1 DEF Second, roundVars, Evaluating
<1>2. CASE StartRound
  BY <1>2 DEF StartRound, Evaluating
<1>3. CASE Evaluate
  BY <1>3
<1>4. ASSUME NEW s \in Shards, NewBlock(s) PROVE UNCHANGED <<pc, status>>
  BY <1>4 DEF NewBlock, roundVars
<1>5. ASSUME NEW n \in Nodes, CatchUp(n) PROVE UNCHANGED <<pc, status>>
  BY <1>5 DEF CatchUp, roundVars
<1>6. ASSUME NEW n \in Nodes, Reply(n) PROVE UNCHANGED <<pc, status>>
  BY <1>6 DEF Reply
<1>7. ASSUME NEW c \in checks, CheckSync(c) PROVE UNCHANGED <<pc, status>>
  BY <1>7 DEF CheckSync, roundVars
<1>8. UNCHANGED <<pc, status>> => ~Evaluating /\ status' = status
  BY DEF Evaluating
<1> QED
  BY <1>1, <1>2, <1>3, <1>4, <1>5, <1>6, <1>7, <1>8, Zenon DEF Next

\* A header as new as the shard was when the round began makes block-max so.
LEMMA FreshFacts ==
  ASSUME ConsensusInv, Evaluate, NEW s \in Shards, FreshAnswer(s)
  PROVE  HeadersOf(s) # {} /\ BlockMax(s) \in Nat /\ startHead[s] <= BlockMax(s)
<1>1. \A n \in Nodes : replies[n] # Pending
  BY DEF Evaluate
<1>2. PICK b \in HeadersOf(s) : b.number >= startHead[s]
  BY DEF FreshAnswer
<1>3. head[s] \in Nat /\ startHead[s] \in Nat
  BY NumberFacts
<1>4. b.number \in Nat
  BY <1>1, <1>3, HeadersFacts
<1>5. BlockMax(s) \in 0..head[s] /\ b.number <= BlockMax(s)
  BY <1>1, <1>2, BlockMaxFacts
<1> QED
  BY <1>2, <1>3, <1>4, <1>5

\* The alarm of consensusMonitor is right: when an up-to-date node answered, the
\* newest block the shard had at the start of the round is older than the warning
\* time, whatever lagging nodes, invalid bodies, dropped ticks and new blocks
\* came in between.
THEOREM AlarmsAreRight == Spec => NoFalseAlarm
<1>1. ASSUME ConsensusInv, [Next]_vars, NEW s \in Shards,
             Evaluating /\ FreshAnswer(s) /\ status'[s] = "stuck"
      PROVE  now - blockTime[s][startHead[s]] > Warning
  <2>1. Evaluate
    BY <1>1, OnlyEvaluate DEF vars, Evaluating
  <2>2. HeadersOf(s) # {} /\ BlockMax(s) \in Nat /\ startHead[s] <= BlockMax(s)
    BY <1>1, <2>1, FreshFacts
  <2>3. Stuck(s)
    BY <1>1, <2>1, <2>2, EvaluateFacts, Zenon
  <2>4. BlockMax(s) <= last[s].number /\ now - last[s].time > Warning
    BY <1>1, <2>3, StuckFacts DEF Elapsed
  <2>5. startHead[s] \in 1..head[s] /\ head[s] \in Nat /\ now \in Int /\ Warning \in Nat
    BY <1>1, NumberFacts, ConsensusAssumption
  <2>6. last[s].number \in Int /\ last[s].time \in Int
    BY <1>1, LastFacts
  <2>7. startHead[s] <= last[s].number /\ last[s].number >= 1
    BY <2>2, <2>4, <2>5, <2>6
  <2>8. last[s].number \in 1..head[s] /\ last[s].time = blockTime[s][last[s].number]
    BY <1>1, <2>7, LastFacts
  <2>9. blockTime[s][startHead[s]] <= last[s].time
    BY <1>1, <2>5, <2>7, <2>8 DEF ConsensusInv, TimesInOrder
  <2>10. blockTime[s][startHead[s]] \in Start..clock /\ Start \in Nat /\ clock \in Nat
    BY <1>1, <2>5, NumberFacts
  <2> QED
    BY <2>4, <2>5, <2>6, <2>9, <2>10
<1>2. ConsensusInv /\ [Next]_vars =>
        [\A s \in Shards : Evaluating /\ FreshAnswer(s) /\ status'[s] = "stuck" =>
           now - blockTime[s][startHead[s]] > Warning]_vars
  BY <1>1
<1> QED
  BY <1>2, ConsensusInductive, PTL DEF Spec, NoFalseAlarm

\* The alarm is given: a recorded block that is still the newest, and too old, is
\* reported by the first round in which an up-to-date node answers.
THEOREM StuckShardsAreReported == Spec => StuckIsReported
<1>1. ASSUME ConsensusInv, [Next]_vars, NEW s \in Shards,
             Evaluating /\ FreshAnswer(s) /\ BlockMax(s) = startHead[s]
               /\ last[s].number = startHead[s]
               /\ now - blockTime[s][startHead[s]] > Warning
      PROVE  status'[s] = "stuck"
  <2>1. Evaluate
    BY <1>1, OnlyEvaluate DEF vars, Evaluating
  <2>2. HeadersOf(s) # {}
    BY <1>1, <2>1, FreshFacts
  <2>3. startHead[s] \in 1..head[s] /\ head[s] \in Nat /\ now \in Int /\ Warning \in Nat
    BY <1>1, NumberFacts, ConsensusAssumption
  <2>4. last[s].time = blockTime[s][startHead[s]] /\ last[s] # NoBlock
    BY <1>1, <2>3, LastFacts
  <2>5. last[s].time \in Int
    BY <1>1, LastFacts
  <2>6. BlockMax(s) <= last[s].number
    BY <1>1, <2>3
  <2>7. now - last[s].time > Warning
    BY <1>1, <2>4
  <2>8. now - last[s].time > 0
    BY <2>3, <2>5, <2>7
  <2>9. Stuck(s)
    BY <1>1, <2>4, <2>6, <2>7, <2>8, StuckFacts DEF Elapsed
  <2> QED
    BY <1>1, <2>1, <2>2, <2>9, EvaluateFacts, Zenon
<1>2. ConsensusInv /\ [Next]_vars =>
        [\A s \in Shards :
           Evaluating /\ FreshAnswer(s) /\ BlockMax(s) = startHead[s]
             /\ last[s].number = startHead[s]
             /\ now - blockTime[s][startHead[s]] > Warning => status'[s] = "stuck"]_vars
  BY <1>1
<1> QED
  BY <1>2, ConsensusInductive, PTL DEF Spec, StuckIsReported

\* A shard stops being reported as stuck only because of a block higher than the
\* one recorded for it.
THEOREM AlarmsEndWithProgress == Spec => AlarmEndsWithProgress
<1>1. ASSUME ConsensusInv, [Next]_vars, NEW s \in Shards,
             status[s] = "stuck" /\ status'[s] # "stuck"
      PROVE  last'[s].number > last[s].number
  <2>1. Evaluate
    BY <1>1, OnlyEvaluate DEF vars
  <2>2. /\ HeadersOf(s) # {} /\ ~Stuck(s)
        /\ last'[s] = [number |-> BlockMax(s), time |-> LatestBlock(s).time]
    BY <1>1, <2>1, EvaluateFacts, Zenon
  <2>3. last'[s].number = BlockMax(s)
    BY <2>2
  <2>4. ~(BlockMax(s) <= last[s].number)
    BY <1>1, <2>2, StuckFacts DEF ConsensusInv, StuckIsOld
  <2>5. BlockMax(s) \in 0..head[s] /\ head[s] \in Nat /\ last[s].number \in Int
    <3>1. \A n \in Nodes : replies[n] # Pending
      BY <2>1 DEF Evaluate
    <3>2. head[s] \in Nat /\ last[s].number \in Int
      BY <1>1, NumberFacts, LastFacts
    <3> QED
      BY <1>1, <2>2, <3>1, <3>2, BlockMaxFacts
  <2> QED
    BY <2>3, <2>4, <2>5
<1>2. ConsensusInv /\ [Next]_vars =>
        [\A s \in Shards : status[s] = "stuck" /\ status'[s] # "stuck" =>
           last'[s].number > last[s].number]_vars
  BY <1>1
<1> QED
  BY <1>2, ConsensusInductive, PTL DEF Spec, AlarmEndsWithProgress
=============================================================================
