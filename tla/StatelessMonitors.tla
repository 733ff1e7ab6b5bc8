------------------------- MODULE StatelessMonitors --------------------------
(***************************************************************************)
(* The two monitors that keep nothing from one round to the next.          *)
(*                                                                         *)
(*   cxMonitor   asks who leads, then asks all that claim to for the size  *)
(*               of their pool of pending cross-shard transactions.        *)
(*   p2pMonitor  averages, shard by shard, the connectivity of the nodes   *)
(*               that answered the metadata manager.                       *)
(*                                                                         *)
(* PollRound gives one reply per node asked.  A node that failed is not in *)
(* the domain of what was answered; a body that is not a reply reads as    *)
(* zeros: shard 0, no leader, pool 0, no peers.                            *)
(***************************************************************************)
EXTENDS Integers, FiniteSets, Functions

CONSTANTS
  Peers,       \* the nodes of shardMap
  Chains,      \* the shards a reply can name
  Limit,       \* pending-limit
  Sizes,       \* bound: pool sizes
  Tolerances,  \* bound: values of the connectivity tolerance, in percent
  Links        \* bound: pairs of connected and known peers

ASSUME MonitorsAssumption ==
  /\ IsFiniteSet(Peers) /\ 0 \in Chains
  /\ Limit \in Nat /\ Sizes \subseteq Nat /\ Tolerances \subseteq Nat
  /\ \A l \in Links : l[1] \in Nat /\ l[2] \in Nat

VARIABLE round  \* the round in progress or just finished

NoRound == [kind |-> "none"]
Claim == [leader : BOOLEAN, shard : Chains]
Partial(S, T) == UNION {[D -> T] : D \in SUBSET S}

StatelessInit == round = NoRound

-----------------------------------------------------------------------------
(* cxMonitor.                                                              *)

\* The map leaders.
Leaders(claims) ==
  [s \in Chains |-> {n \in DOMAIN claims : claims[n].leader /\ claims[n].shard = s}]

\* The first question of a round.
FindLeaders ==
  /\ round = NoRound
  /\ \E claims \in Partial(Peers, Claim) :
       round' = [kind |-> "leaders", claims |-> claims, leaders |-> Leaders(claims)]

\* The shard of an answer without the search.
ShardOfAnswerDefault(leaders, n) == 0

\* The shard of an answer is looked up in leaders and is 0 if the search fails.
ShardOfAnswer(leaders, n) ==
  IF \E s \in Chains : n \in leaders[s] THEN CHOOSE s \in Chains : n \in leaders[s] ELSE 0

\* All leaders found are asked; pool is what those that answered said.
AskPools ==
  /\ round.kind = "leaders"
  /\ \E pool \in Partial(UNION Range(round.leaders), Sizes) :
       round' = [kind |-> "cx", claims |-> round.claims, pool |-> pool,
                 alerts |-> {[shard |-> ShardOfAnswer(round.leaders, n), size |-> pool[n]] :
                               n \in {m \in DOMAIN pool : pool[m] > Limit}}]

-----------------------------------------------------------------------------
(* p2pMonitor.                                                             *)

\* The division of integers.
PercentOfIntegers(l) == IF l[2] = 0 THEN {0} ELSE {(l[1] \div l[2]) * 100}

\* int(connected / known * 100).  The quotient is a float64: a percentage that
\* should come out as a whole number may come out just below it (29 of 100 gives
\* 28.999...), and int cuts it off.
Percent(l) ==
  IF l[2] = 0 THEN {0}
  ELSE LET p == (100 * l[1]) \div l[2]
       IN IF (100 * l[1]) % l[2] = 0 /\ p > 0 THEN {p - 1, p} ELSE {p}

Sum(f) == FoldFunction(+, 0, f)

\* int(float64(sum) / float64(len(values))); with integers this small the
\* quotient is never rounded up to the next one.
Average(percents) == Sum(percents) \div Cardinality(DOMAIN percents)

\* The test for an alert: an average of zero is taken for "not reported".
TooFew(avg, tolerance) == avg # 0 /\ avg < tolerance

\* One shard of a round: percent[shard] is not empty, since a shard is there only
\* because a node named it.
CheckConnectivity ==
  /\ round = NoRound
  /\ \E S \in (SUBSET Peers) \ {{}}, t \in Tolerances : \E links \in [S -> Links] :
       \E percents \in {p \in [S -> UNION {Percent(links[n]) : n \in S}] :
                          \A n \in S : p[n] \in Percent(links[n])} :
         round' = [kind |-> "p2p", links |-> links, tolerance |-> t,
                   alert |-> TooFew(Average(percents), t)]

\* Nothing is left of the round.
EndRound == round.kind \in {"cx", "p2p"} /\ round' = NoRound

StatelessNext == FindLeaders \/ AskPools \/ CheckConnectivity \/ EndRound

StatelessSpec == StatelessInit /\ [][StatelessNext]_round

-----------------------------------------------------------------------------
(* Properties.                                                             *)

\* cxMonitor alerts exactly for the leaders above the limit, and names the shard
\* the leader claims: the search through the map of leaders never falls back to
\* shard 0 and never finds a node in the list of another shard.
PendingIsAttributed ==
  round.kind = "cx" =>
    round.alerts = {[shard |-> round.claims[n].shard, size |-> round.pool[n]] :
                      n \in {m \in DOMAIN round.pool : round.pool[m] > Limit}}

\* The exact mean of connected/known over the nodes is below b percent; a node
\* that knows nobody counts as zero.
MeanBelow(links, b) ==
  LET known  == [n \in DOMAIN links |-> IF links[n][2] = 0 THEN 1 ELSE links[n][2]]
      common == FoldFunction(LAMBDA x, y : x * y, 1, known)
      share  == [n \in DOMAIN links |-> IF links[n][2] = 0 THEN 0
                                        ELSE 100 * links[n][1] * (common \div known[n])]
  IN Sum(share) < b * Cardinality(DOMAIN links) * common

\* Cutting off twice, with floating point in between, costs p2pMonitor less than
\* one percent point: an alert means that the exact mean is below tolerance + 1.
\* A shard below the tolerance raises one, unless its mean is below 2 percent:
\* there the average may be cut to zero, which is taken for "not reported".
ConnectivityWithinOnePoint ==
  round.kind = "p2p" =>
    IF round.alert THEN MeanBelow(round.links, round.tolerance + 1)
    ELSE ~MeanBelow(round.links, round.tolerance) \/ MeanBelow(round.links, 2)
=============================================================================
