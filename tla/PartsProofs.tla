---------------------------- MODULE PartsProofs -----------------------------
(***************************************************************************)
(* The safety of the two monitors without memory and of the staking        *)
(* committee, for any values of their constants: cxMonitor names the shard *)
(* of a pool that is too large, the connectivity p2pMonitor compares is    *)
(* within one point of the exact mean, and the newest committee stays.     *)
(***************************************************************************)
EXTENDS StatelessMonitors, Committee, FiniteSetTheorems, WellFoundedInduction, TLAPS

-----------------------------------------------------------------------------
(* cxMonitor.                                                              *)

(* The leaders a round found are those of what the nodes claimed.          *)
AttributionInv ==
  /\ round.kind \in {"none", "leaders", "cx", "p2p"}
  /\ round.kind = "leaders" =>
       round.claims \in Partial(Peers, Claim) /\ round.leaders = Leaders(round.claims)
  /\ PendingIsAttributed

\* A leader is in the list of one shard, the one it claims.
LEMMA OneShard ==
  ASSUME NEW claims \in Partial(Peers, Claim),
         NEW n \in UNION Range(Leaders(claims))
  PROVE  n \in DOMAIN claims /\ ShardOfAnswer(Leaders(claims), n) = claims[n].shard
<1>1. PICK D \in SUBSET Peers : claims \in [D -> Claim]
  BY DEF Partial
<1>2. PICK t \in Chains : n \in Leaders(claims)[t]
  BY DEF Range, Leaders
<1>3. \A s \in Chains : n \in Leaders(claims)[s] <=>
        n \in DOMAIN claims /\ claims[n].leader /\ claims[n].shard = s
  BY DEF Leaders
<1>4. n \in DOMAIN claims /\ claims[n].shard = t
  BY <1>2, <1>3
<1>5. \A s \in Chains : n \in Leaders(claims)[s] => s = claims[n].shard
  BY <1>3
<1>6. (CHOOSE s \in Chains : n \in Leaders(claims)[s]) = claims[n].shard
  BY <1>2, <1>5
<1> QED
  BY <1>2, <1>4, <1>6, Zenon DEF ShardOfAnswer

\* cxMonitor names the shard that each leader above the limit claims, for every
\* set of nodes and shards and whatever they answer.
THEOREM PendingAttributed == StatelessSpec => []PendingIsAttributed
<1>1. StatelessInit => AttributionInv
  BY DEF StatelessInit, AttributionInv, NoRound, PendingIsAttributed
<1>2. AttributionInv /\ [StatelessNext]_round => AttributionInv'
  <2> SUFFICES ASSUME AttributionInv, [StatelessNext]_round PROVE AttributionInv'
    OBVIOUS
  <2>1. CASE FindLeaders
    <3>1. PICK claims \in Partial(Peers, Claim) :
            round' = [kind |-> "leaders", claims |-> claims, leaders |-> Leaders(claims)]
      BY <2>1, Zenon DEF FindLeaders
    <3>2. /\ round'.kind = "leaders" /\ round'.claims = claims
          /\ round'.leaders = Leaders(claims)
      BY <3>1
    <3> QED
      BY <3>2 DEF AttributionInv, PendingIsAttributed
  <2>2. CASE AskPools
    <3> DEFINE Above(p) == {m \in DOMAIN p : p[m] > Limit}
    <3>1. /\ round.claims \in Partial(Peers, Claim) /\ round.leaders = Leaders(round.claims)
      BY <2>2 DEF AskPools, AttributionInv
    <3>2. PICK pool \in Partial(UNION Range(round.leaders), Sizes) :
            round' = [kind |-> "cx", claims |-> round.claims, pool |-> pool,
                      alerts |-> {[shard |-> ShardOfAnswer(round.leaders, n), size |-> pool[n]] :
                                    n \in Above(pool)}]
      BY <2>2, Zenon DEF AskPools
    <3>3. DOMAIN pool \subseteq UNION Range(round.leaders)
      BY DEF Partial
    <3>4. \A n \in Above(pool) : ShardOfAnswer(round.leaders, n) = round.claims[n].shard
      BY <3>1, <3>3, OneShard
    <3>5. {[shard |-> ShardOfAnswer(round.leaders, n), size |-> pool[n]] : n \in Above(pool)}
            = {[shard |-> round.claims[n].shard, size |-> pool[n]] : n \in Above(pool)}
      BY <3>4, Zenon
    <3>6. /\ round'.kind = "cx" /\ round'.claims = round.claims /\ round'.pool = pool
          /\ round'.alerts = {[shard |-> round.claims[n].shard, size |-> pool[n]] :
                                 n \in Above(pool)}
      BY <3>2, <3>5
    <3>7. PendingIsAttributed'
      BY <3>6, Zenon DEF PendingIsAttributed
    <3> QED
      BY <3>6, <3>7 DEF AttributionInv
  <2>3. CASE CheckConnectivity
    <3>1. round'.kind = "p2p"
      BY <2>3 DEF CheckConnectivity
    <3> QED
      BY <3>1 DEF AttributionInv, PendingIsAttributed
  <2>4. CASE EndRound
    BY <2>4 DEF EndRound, NoRound, AttributionInv, PendingIsAttributed
  <2>5. CASE UNCHANGED round
    BY <2>5 DEF AttributionInv, PendingIsAttributed
  <2> QED
    BY <2>1, <2>2, <2>3, <2>4, <2>5 DEF StatelessNext
<1>3. AttributionInv => PendingIsAttributed
  BY DEF AttributionInv
<1> QED
  BY <1>1, <1>2, <1>3, PTL DEF StatelessSpec

-----------------------------------------------------------------------------
(* Induction, by the least number that would be an exception.              *)

\* A set of natural numbers has a least one.
LEMMA LeastNatural ==
  ASSUME NEW T \in SUBSET Nat, T # {}
  PROVE  \E x \in T : \A y \in T : x <= y
<1> DEFINE R == OpToRel(<, Nat)
<1>1. \A x, y \in Nat : y < x => <<y, x>> \in R
  BY DEF OpToRel
<1>2. IsWellFoundedOn(R, Nat)
  BY NatLessThanWellFounded, Zenon
<1> HIDE DEF R
<1>3. PICK x \in T : \A y \in T : ~ (<<y, x>> \in R)
  BY <1>2, WFMin, Zenon
<1>4. \A y \in T : x <= y
  <2>1. TAKE y \in T
  <2>2. ~(y < x)
    BY <1>1, <1>3, Zenon
  <2> QED
    BY <2>2
<1> QED
  BY <1>4

\* The exception: a number that is not 0 and follows one that is not.
LEMMA LeastException ==
  ASSUME NEW n \in Nat, NEW T \in SUBSET (0..n), T # {}, 0 \notin T
  PROVE  \E x \in T : x \in 1..n /\ x - 1 \in 0..n /\ x - 1 \notin T
<1>1. T \in SUBSET Nat
  OBVIOUS
<1>2. PICK x \in T : \A y \in T : x <= y
  BY <1>1, LeastNatural
<1>3. x \in 1..n /\ x - 1 \in 0..n /\ ~(x <= x - 1)
  OBVIOUS
<1> QED
  BY <1>2, <1>3

-----------------------------------------------------------------------------
(* Sums and products over a finite set, as FoldFunction computes them: an  *)
(* element is taken out of the set until nothing is left.                  *)

Pick(s) == CHOOSE x \in s : TRUE

FoldStep(f, mul, g, s) ==
  IF s = {} THEN IF mul THEN 1 ELSE 0
  ELSE IF mul THEN f[Pick(s)] * g[s \ {Pick(s)}] ELSE f[Pick(s)] + g[s \ {Pick(s)}]

(* g gives the sum, or the product, of f over each set of its domain.      *)
IsFold(f, mul, g) == g = [s \in SUBSET DOMAIN f |-> FoldStep(f, mul, g, s)]

\* Taking an element out.
LEMMA PickFacts ==
  ASSUME NEW S, IsFiniteSet(S), NEW s \in SUBSET S, s # {}
  PROVE  /\ Pick(s) \in s /\ s \ {Pick(s)} \in SUBSET S
         /\ Cardinality(s) \in Nat \ {0} /\ Cardinality(s \ {Pick(s)}) = Cardinality(s) - 1
<1>1. Pick(s) \in s
  BY Zenon DEF Pick
<1>2. IsFiniteSet(s)
  BY FS_Subset
<1>3. Cardinality(s \ {Pick(s)}) = Cardinality(s) - 1
  BY <1>1, <1>2, FS_RemoveElement, Zenon
<1>4. Cardinality(s) \in Nat /\ Cardinality(s) # 0
  BY <1>2, FS_CardinalityType, FS_EmptySet
<1> QED
  BY <1>1, <1>3, <1>4

\* A set of subsets of S that misses the empty set has one that becomes, without
\* the element taken out, no member of it: the induction over the sets.
LEMMA LeastSet ==
  ASSUME NEW S, IsFiniteSet(S), NEW T \in SUBSET (SUBSET S), T # {}, {} \notin T
  PROVE  \E s \in T : s # {} /\ s \in SUBSET S /\ s \ {Pick(s)} \in (SUBSET S) \ T
<1> DEFINE C == {Cardinality(s) : s \in T}
<1>1. \A s \in T : s # {} /\ s \in SUBSET S
  OBVIOUS
<1>2. C \in SUBSET Nat /\ C # {}
  <2>1. \A s \in T : Cardinality(s) \in Nat
    BY <1>1, PickFacts, Zenon
  <2> QED
    BY <2>1
<1>3. PICK c \in C : \A d \in C : c <= d
  BY <1>2, LeastNatural, Zenon
<1>4. PICK s \in T : c = Cardinality(s)
  BY <1>3
<1>5. s \ {Pick(s)} \notin T
  <2> SUFFICES ASSUME s \ {Pick(s)} \in T PROVE FALSE
    OBVIOUS
  <2>1. Cardinality(s \ {Pick(s)}) \in C
    OBVIOUS
  <2>2. Cardinality(s \ {Pick(s)}) = Cardinality(s) - 1 /\ Cardinality(s) \in Nat
    BY <1>1, <1>4, PickFacts
  <2>3. Cardinality(s) <= Cardinality(s \ {Pick(s)})
    BY <1>3, <1>4, <2>1, Zenon
  <2> QED
    BY <2>2, <2>3
<1> QED
  BY <1>1, <1>4, <1>5, PickFacts, Zenon

\* The recursion is well defined.
LEMMA FoldExists ==
  ASSUME NEW f, IsFiniteSet(DOMAIN f), NEW mul \in BOOLEAN
  PROVE  \E g : IsFold(f, mul, g)
<1> DEFINE S == DOMAIN f
           n == Cardinality(S)
           Upto(k) == {s \in SUBSET S : Cardinality(s) <= k}
           Solves(g, k) == g = [s \in Upto(k) |-> FoldStep(f, mul, g, s)]
           T == {k \in 0..n : ~\E g : Solves(g, k)}
<1>0. n \in Nat
  BY FS_CardinalityType
<1>1. \A s \in SUBSET S : Cardinality(s) \in 0..n
  BY <1>0, FS_Subset, FS_CardinalityType
<1>2. \E g : Solves(g, 0)
  <2> DEFINE g == [s \in Upto(0) |-> IF mul THEN 1 ELSE 0]
  <2>1. \A s \in Upto(0) : s = {}
    <3> SUFFICES ASSUME NEW s \in Upto(0), s # {} PROVE FALSE
      OBVIOUS
    <3>1. s \in SUBSET S /\ Cardinality(s) <= 0
      OBVIOUS
    <3>2. Cardinality(s) \in Nat \ {0}
      BY <3>1, PickFacts, Zenon
    <3> QED
      BY <3>1, <3>2
  <2>2. \A s \in Upto(0) : FoldStep(f, mul, g, s) = IF mul THEN 1 ELSE 0
    BY <2>1, Zenon DEF FoldStep
  <2>3. Solves(g, 0)
    BY <2>2, Zenon
  <2> QED
    BY <2>3, Zenon
<1>3. ASSUME NEW x \in 1..n, NEW g, Solves(g, x - 1)
      PROVE  \E h : Solves(h, x)
  <2> DEFINE h == [s \in Upto(x) |-> FoldStep(f, mul, g, s)]
  <2>1. \A s \in Upto(x) : s # {} => s \ {Pick(s)} \in Upto(x - 1)
    <3> SUFFICES ASSUME NEW s \in Upto(x), s # {} PROVE s \ {Pick(s)} \in Upto(x - 1)
      OBVIOUS
    <3> QED
      BY PickFacts
  <2>2. \A s \in Upto(x - 1) : s \in Upto(x)
    BY <1>1
  <2>3. \A s \in Upto(x - 1) : h[s] = g[s]
    BY <1>3, <2>2, Zenon
  <2>4. \A s \in Upto(x) : FoldStep(f, mul, g, s) = FoldStep(f, mul, h, s)
    BY <2>1, <2>3, Zenon DEF FoldStep
  <2>5. Solves(h, x)
    BY <2>4, Zenon
  <2> QED
    BY <2>5, Zenon
<1>4. T = {}
  <2> SUFFICES ASSUME T # {} PROVE FALSE
    OBVIOUS
  <2>1. 0 \notin T /\ T \in SUBSET (0..n)
    BY <1>2, Zenon
  <2>2. PICK x \in T : x \in 1..n /\ x - 1 \in 0..n /\ x - 1 \notin T
    BY <1>0, <2>1, LeastException, Zenon
  <2> QED
    BY <1>3, <2>2, Zenon
<1>5. PICK g : Solves(g, n)
  <2>1. n \in 0..n
    BY <1>0
  <2>2. n \notin T
    BY <1>4, Zenon
  <2> QED
    BY <2>1, <2>2, Zenon
<1>6. Upto(n) = SUBSET S
  BY <1>1
<1> QED
  BY <1>5, <1>6, Zenon DEF IsFold

\* What Sum computes.
LEMMA SumFolds ==
  ASSUME NEW f, IsFiniteSet(DOMAIN f)
  PROVE  \E g : IsFold(f, FALSE, g) /\ Sum(f) = g[DOMAIN f]
<1> DEFINE Iterates(h) == h = [s \in SUBSET DOMAIN f |->
                                 IF s = {} THEN 0
                                 ELSE f[CHOOSE x \in s : TRUE] + h[s \ {CHOOSE x \in s : TRUE}]]
           g == CHOOSE h : Iterates(h)
<1>1. \A h : IsFold(f, FALSE, h) <=> Iterates(h)
  BY DEF IsFold, FoldStep, Pick
<1>2. Sum(f) = g[DOMAIN f]
  BY DEF Sum, FoldFunction, FoldFunctionOnSet, MapThenFoldSet
<1> HIDE DEF Iterates
<1>3. \E h : Iterates(h)
  <2>1. PICK h : IsFold(f, FALSE, h)
    BY FoldExists, Zenon
  <2> QED
    BY <1>1, <2>1, Zenon
<1>4. Iterates(g)
  BY <1>3, Zenon
<1> QED
  BY <1>1, <1>2, <1>4, Zenon

\* What the product in MeanBelow computes.
LEMMA ProductFolds ==
  ASSUME NEW f, IsFiniteSet(DOMAIN f)
  PROVE  \E g : IsFold(f, TRUE, g) /\ FoldFunction(LAMBDA x, y : x * y, 1, f) = g[DOMAIN f]
<1> DEFINE Iterates(h) == h = [s \in SUBSET DOMAIN f |->
                                 IF s = {} THEN 1
                                 ELSE f[CHOOSE x \in s : TRUE] * h[s \ {CHOOSE x \in s : TRUE}]]
           g == CHOOSE h : Iterates(h)
<1>1. \A h : IsFold(f, TRUE, h) <=> Iterates(h)
  BY DEF IsFold, FoldStep, Pick
<1>2. FoldFunction(LAMBDA x, y : x * y, 1, f) = g[DOMAIN f]
  BY DEF FoldFunction, FoldFunctionOnSet, MapThenFoldSet
<1> HIDE DEF Iterates
<1>3. \E h : Iterates(h)
  <2>1. PICK h : IsFold(f, TRUE, h)
    BY FoldExists, Zenon
  <2> QED
    BY <1>1, <2>1, Zenon
<1>4. Iterates(g)
  BY <1>3, Zenon
<1> QED
  BY <1>1, <1>2, <1>4, Zenon

\* One step of the recursion.
LEMMA FoldUnfolds ==
  ASSUME NEW f, NEW mul \in BOOLEAN, NEW g, IsFold(f, mul, g), NEW s \in SUBSET DOMAIN f
  PROVE  g[s] = FoldStep(f, mul, g, s)
BY Zenon DEF IsFold

(* c is a positive multiple of each f[n].                                  *)
CommonMultiple(f, s, c) == c \in Nat \ {0} /\ \A n \in s : \E k \in Nat : c = f[n] * k

\* A product of positive numbers is positive, and each factor divides it.
LEMMA ProductDivisible ==
  ASSUME NEW S, IsFiniteSet(S), NEW f \in [S -> Nat \ {0}], NEW g, IsFold(f, TRUE, g)
  PROVE  CommonMultiple(f, S, g[S])
<1> DEFINE Good(s) == g[s] \in Nat \ {0} /\ \A n \in s : \E k \in Nat : g[s] = f[n] * k
           T == {s \in SUBSET S : ~Good(s)}
<1>1. DOMAIN f = S
  OBVIOUS
<1>2. Good({})
  <2>1. g[{}] = 1
    BY <1>1, FoldUnfolds, Zenon DEF FoldStep
  <2> QED
    BY <2>1
<1>3. ASSUME NEW s \in SUBSET S, s # {}, Good(s \ {Pick(s)})
      PROVE  Good(s)
  <2> DEFINE x == Pick(s)
             r == s \ {x}
  <2>1. x \in s /\ x \in S
    BY <1>3, PickFacts, Zenon
  <2>2. g[s] = f[x] * g[r]
    <3>1. g[s] = FoldStep(f, TRUE, g, s)
      BY <1>1, FoldUnfolds, Zenon
    <3> QED
      BY <1>3, <3>1, Zenon DEF FoldStep
  <2>3. f[x] \in Nat \ {0} /\ g[r] \in Nat \ {0}
    BY <1>3, <2>1
  <2> HIDE DEF x
  <2>4. g[s] \in Nat \ {0}
    BY <2>2, <2>3
  <2>5. ASSUME NEW n \in r PROVE \E k \in Nat : g[s] = f[n] * k
    <3>1. PICK k \in Nat : g[r] = f[n] * k
      BY <1>3, Zenon DEF x
    <3>2. f[n] \in Nat
      BY <1>3
    <3>3. f[x] * k \in Nat /\ f[x] * (f[n] * k) = f[n] * (f[x] * k)
      BY <2>3, <3>2
    <3> QED
      BY <2>2, <3>1, <3>3
  <2>6. \A n \in s : n = x \/ n \in r
    OBVIOUS
  <2> QED
    BY <2>2, <2>3, <2>4, <2>5, <2>6, Zenon
<1>4. T = {}
  <2> SUFFICES ASSUME T # {} PROVE FALSE
    OBVIOUS
  <2>1. {} \notin T /\ T \in SUBSET (SUBSET S)
    BY <1>2
  <2>2. PICK s \in T : s # {} /\ s \in SUBSET S /\ s \ {Pick(s)} \in (SUBSET S) \ T
    BY <2>1, LeastSet, Zenon
  <2>3. Good(s \ {Pick(s)})
    BY <2>2, Zenon
  <2>4. Good(s)
    BY <1>3, <2>2, <2>3
  <2> QED
    BY <2>2, <2>4, Zenon
<1>5. Good(S)
  BY <1>4, Zenon
<1> QED
  BY <1>5, Zenon DEF CommonMultiple

\* Distributing the common denominator over a sum.
LEMMA Distributes ==
  ASSUME NEW a \in Int, NEW b \in Int, NEW c \in Int
  PROVE  /\ c * (a + b) = c * a + c * b
         /\ c * a \in Int /\ c * b \in Int
OBVIOUS

\* The multiple of one less.
LEMMA TimesPredecessor ==
  ASSUME NEW c \in Nat, NEW k \in Nat, NEW l, l = k - 1
  PROVE  c * k = c * l + c /\ c * l \in Int
<1>1. c \in Int /\ 1 \in Int /\ l \in Int /\ k = l + 1 /\ c * 1 = c
  OBVIOUS
<1>2. c * (l + 1) = c * l + c * 1 /\ c * l \in Int
  BY <1>1, Distributes
<1> QED
  BY <1>1, <1>2, Zenon

\* Terms that are within c of c times other terms have sums that are within c
\* for each term.
LEMMA SumWithin ==
  ASSUME NEW S, IsFiniteSet(S), NEW c \in Nat,
         NEW p \in [S -> Nat], NEW q \in [S -> Nat],
         \A n \in S : c * p[n] <= q[n] /\ q[n] <= c * p[n] + c
  PROVE  /\ Sum(p) \in Nat /\ Sum(q) \in Nat
         /\ c * Sum(p) <= Sum(q) /\ Sum(q) <= c * Sum(p) + c * Cardinality(S)
<1>1. DOMAIN p = S /\ DOMAIN q = S
  OBVIOUS
<1>2. PICK g : IsFold(p, FALSE, g) /\ Sum(p) = g[S]
  BY <1>1, SumFolds, Zenon
<1>3. PICK h : IsFold(q, FALSE, h) /\ Sum(q) = h[S]
  BY <1>1, SumFolds, Zenon
<1> DEFINE Good(s) == /\ g[s] \in Nat /\ h[s] \in Nat
                      /\ c * g[s] <= h[s] /\ h[s] <= c * g[s] + c * Cardinality(s)
           T == {s \in SUBSET S : ~Good(s)}
<1>4. Good({})
  <2>1. g[{}] = 0 /\ h[{}] = 0
    BY <1>1, <1>2, <1>3, FoldUnfolds, Zenon DEF FoldStep
  <2>2. Cardinality({}) = 0
    BY FS_EmptySet
  <2> QED
    BY <2>1, <2>2
<1>5. ASSUME NEW s \in SUBSET S, s # {}, Good(s \ {Pick(s)})
      PROVE  Good(s)
  <2> DEFINE x == Pick(s)
             r == s \ {x}
  <2>1. x \in S /\ Cardinality(s) \in Nat /\ Cardinality(r) = Cardinality(s) - 1
    BY <1>5, PickFacts, Zenon
  <2>2. g[s] = p[x] + g[r] /\ h[s] = q[x] + h[r]
    <3>1. g[s] = FoldStep(p, FALSE, g, s) /\ h[s] = FoldStep(q, FALSE, h, s)
      BY <1>1, <1>2, <1>3, FoldUnfolds, Zenon
    <3> QED
      BY <1>5, <3>1, Zenon DEF FoldStep
  <2>3. p[x] \in Nat /\ q[x] \in Nat /\ c * p[x] <= q[x] /\ q[x] <= c * p[x] + c
    BY <2>1
  <2>4. Good(r)
    BY <1>5
  <2> HIDE DEF x
  <2>5. /\ c * g[s] = c * p[x] + c * g[r]
        /\ c * p[x] \in Int /\ c * g[r] \in Int
    <3>1. c \in Int /\ p[x] \in Int /\ g[r] \in Int
      BY <2>3, <2>4
    <3>2. /\ c * (p[x] + g[r]) = c * p[x] + c * g[r]
          /\ c * p[x] \in Int /\ c * g[r] \in Int
      BY <3>1, Distributes
    <3> QED
      BY <2>2, <3>2, Zenon
  <2>6. c * Cardinality(s) = c * Cardinality(r) + c /\ c * Cardinality(r) \in Int
    BY <2>1, TimesPredecessor, Zenon
  <2> QED
    BY <2>2, <2>3, <2>4, <2>5, <2>6
<1>6. T = {}
  <2> SUFFICES ASSUME T # {} PROVE FALSE
    OBVIOUS
  <2>1. {} \notin T /\ T \in SUBSET (SUBSET S)
    BY <1>4
  <2>2. PICK s \in T : s # {} /\ s \in SUBSET S /\ s \ {Pick(s)} \in (SUBSET S) \ T
    BY <2>1, LeastSet, Zenon
  <2>3. Good(s \ {Pick(s)})
    BY <2>2, Zenon
  <2>4. Good(s)
    BY <1>5, <2>2, <2>3, Zenon
  <2> QED
    BY <2>2, <2>4, Zenon
<1>7. Good(S)
  BY <1>6, Zenon
<1> QED
  BY <1>2, <1>3, <1>7

\* The arithmetic of one node: c times what Percent makes of a of k is within c of
\* 100 * a * (c \div k), if k divides c.
LEMMA PercentWithin ==
  ASSUME NEW l, NEW a \in Nat, NEW k \in Nat \ {0}, l[1] = a, l[2] = k,
         NEW c \in Nat, NEW d \in Nat, c = k * d, NEW p \in Percent(l)
  PROVE  /\ p \in Nat /\ c \div k = d
         /\ c * p <= 100 * a * d /\ 100 * a * d <= c * p + c
<1> DEFINE x == 100 * a
           q == x \div k
           r == x % k
<1>1. x \in Nat /\ q \in Nat /\ r \in Nat /\ r < k /\ x = k * q + r
  OBVIOUS
<1>2. p = q \/ (r = 0 /\ p = q - 1 /\ q > 0)
  BY DEF Percent
<1>3. p \in Nat /\ k * p <= x /\ x <= k * p + k
  BY <1>1, <1>2
<1>4. c \div k = d
  OBVIOUS
<1> HIDE DEF x
<1>5. ASSUME NEW y \in Int, NEW z \in Int, y <= z PROVE y * d <= z * d
  BY <1>5
<1>6. (k * p) * d <= x * d /\ x * d <= (k * p + k) * d
  BY <1>1, <1>3, <1>5
<1>7. (k * p) * d = c * p /\ (k * p + k) * d = c * p + c
  BY <1>3
<1> QED
  BY <1>3, <1>4, <1>6, <1>7 DEF x

\* What the average says of the sum.
LEMMA AverageFacts ==
  ASSUME NEW sum \in Nat, NEW N \in Nat \ {0}, NEW t \in Nat
  PROVE  /\ sum \div N < t => sum + 1 <= t * N
         /\ ~(sum \div N < t) => t * N <= sum
<1> DEFINE avg == sum \div N
<1>1. avg \in Nat /\ N * avg <= sum /\ sum < N * avg + N
  OBVIOUS
<1> HIDE DEF avg
<1>2. ASSUME avg < t PROVE sum + 1 <= t * N
  <2>1. avg + 1 <= t
    BY <1>1, <1>2
  <2>2. (avg + 1) * N <= t * N
    BY <1>1, <2>1
  <2> QED
    BY <1>1, <2>2
<1>3. ASSUME ~(avg < t) PROVE t * N <= sum
  <2>1. t <= avg
    BY <1>1, <1>3
  <2>2. t * N <= avg * N
    BY <1>1, <2>1
  <2> QED
    BY <1>1, <2>2
<1> QED
  BY <1>2, <1>3 DEF avg

\* Multiplying both by the common denominator.
LEMMA CommonBounds ==
  ASSUME NEW sum \in Nat, NEW N \in Nat \ {0}, NEW t \in Nat, NEW c \in Nat \ {0},
         NEW total \in Nat, c * sum <= total, total <= c * sum + c * N
  PROVE  /\ sum + 1 <= t * N => total < (t + 1) * N * c
         /\ t * N <= sum => ~(total < t * N * c)
<1> DEFINE m == t * N
<1>1. m \in Nat /\ (t + 1) * N = m + N
  OBVIOUS
<1>2. ASSUME sum + 1 <= m PROVE total < (m + N) * c
  <2>1. c * (sum + 1) <= c * m
    BY <1>1, <1>2
  <2> QED
    BY <1>1, <2>1
<1>3. ASSUME m <= sum PROVE ~(total < m * c)
  <2>1. c * m <= c * sum
    BY <1>1, <1>3
  <2> QED
    BY <1>1, <2>1
<1> QED
  BY <1>1, <1>2, <1>3

\* One shard of a round of p2pMonitor, for any number of nodes.
LEMMA MeanWithin ==
  ASSUME NEW S \in (SUBSET Peers) \ {{}}, NEW t \in Tolerances, NEW links \in [S -> Links],
         NEW percents, DOMAIN percents = S, percents = [n \in S |-> percents[n]],
         \A n \in S : percents[n] \in Percent(links[n])
  PROVE  IF TooFew(Average(percents), t) THEN MeanBelow(links, t + 1)
         ELSE ~MeanBelow(links, t) \/ MeanBelow(links, 2)
<1> DEFINE known == [n \in S |-> IF links[n][2] = 0 THEN 1 ELSE links[n][2]]
           common == FoldFunction(LAMBDA x, y : x * y, 1, known)
           share == [n \in S |-> IF links[n][2] = 0 THEN 0
                                 ELSE 100 * links[n][1] * (common \div known[n])]
           N == Cardinality(S)
<1>1. IsFiniteSet(S) /\ N \in Nat \ {0} /\ t \in Nat /\ DOMAIN links = S
  <2>1. IsFiniteSet(S)
    BY MonitorsAssumption, FS_Subset
  <2> QED
    BY <2>1, FS_CardinalityType, FS_EmptySet, MonitorsAssumption
<1>2. \A n \in S : links[n][1] \in Nat /\ links[n][2] \in Nat
  BY MonitorsAssumption
<1>3. known \in [S -> Nat \ {0}]
  BY <1>2
<1>4. /\ common \in Nat \ {0}
      /\ \A n \in S : \E d \in Nat : common = known[n] * d
  <2>1. PICK g : IsFold(known, TRUE, g) /\ common = g[S]
    <3>1. DOMAIN known = S
      OBVIOUS
    <3> HIDE DEF known
    <3> QED
      BY <1>1, <3>1, ProductFolds, Zenon
  <2> HIDE DEF known, common
  <2>2. IsFiniteSet(S)
    BY <1>1
  <2>3. CommonMultiple(known, S, g[S])
    BY <1>3, <2>1, <2>2, ProductDivisible, Zenon
  <2> QED
    BY <2>1, <2>3, Zenon DEF CommonMultiple
<1> HIDE DEF common
<1>5. ASSUME NEW n \in S
      PROVE  /\ percents[n] \in Nat /\ share[n] \in Nat
             /\ common * percents[n] <= share[n] /\ share[n] <= common * percents[n] + common
  <2>1. CASE links[n][2] = 0
    <3>1. percents[n] = 0 /\ share[n] = 0
      BY <2>1 DEF Percent
    <3> QED
      BY <1>4, <3>1
  <2>2. CASE links[n][2] # 0
    <3> DEFINE a == links[n][1]
               k == links[n][2]
    <3>1. a \in Nat /\ k \in Nat \ {0} /\ known[n] = k
      BY <1>2, <2>2
    <3>2. PICK d \in Nat : common = k * d
      BY <1>4, <3>1
    <3>3. percents[n] \in Percent(links[n])
      OBVIOUS
    <3>4. share[n] = 100 * a * (common \div k)
      BY <2>2, <3>1
    <3>5. common \in Nat
      BY <1>4
    <3> HIDE DEF share, known
    <3>6. /\ percents[n] \in Nat /\ common \div k = d
          /\ common * percents[n] <= 100 * a * d /\ 100 * a * d <= common * percents[n] + common
      BY <3>1, <3>2, <3>3, <3>5, PercentWithin
    <3> QED
      BY <3>1, <3>4, <3>6
  <2> QED
    BY <2>1, <2>2
<1>6. percents \in [S -> Nat] /\ share \in [S -> Nat]
  BY <1>5
<1> DEFINE sum == Sum(percents)
           total == Sum(share)
<1>7. /\ sum \in Nat /\ total \in Nat
      /\ common * sum <= total /\ total <= common * sum + common * N
  <2> HIDE DEF share, known
  <2>1. common \in Nat
    BY <1>4
  <2>2. \A n \in S : common * percents[n] <= share[n] /\ share[n] <= common * percents[n] + common
    BY <1>5, Zenon
  <2>3. IsFiniteSet(S)
    BY <1>1
  <2> QED
    BY <1>6, <2>1, <2>2, <2>3, SumWithin
<1>8. \A b : MeanBelow(links, b) <=> total < b * N * common
  BY <1>1, Zenon DEF MeanBelow, common
<1>9. Average(percents) = sum \div N
  BY DEF Average
<1> HIDE DEF N, sum, total
<1>10. ASSUME NEW b \in Nat
       PROVE  /\ sum \div N < b => MeanBelow(links, b + 1)
              /\ ~(sum \div N < b) => ~MeanBelow(links, b)
  <2>1. /\ sum \div N < b => sum + 1 <= b * N
        /\ ~(sum \div N < b) => b * N <= sum
    BY <1>1, <1>7, AverageFacts
  <2>2. /\ sum + 1 <= b * N => total < (b + 1) * N * common
        /\ b * N <= sum => ~(total < b * N * common)
    BY <1>1, <1>4, <1>7, CommonBounds
  <2> QED
    BY <1>8, <2>1, <2>2, Zenon
<1>11. CASE sum \div N = 0
  <2>1. sum \div N < 1 /\ 1 + 1 = 2 /\ 1 \in Nat
    BY <1>11
  <2>2. MeanBelow(links, 2)
    BY <1>10, <2>1
  <2>3. ~TooFew(Average(percents), t)
    BY <1>9, <1>11, Zenon DEF TooFew
  <2> QED
    BY <2>2, <2>3, Zenon
<1>12. CASE sum \div N # 0
  <2>1. TooFew(Average(percents), t) <=> sum \div N < t
    BY <1>9, <1>12, Zenon DEF TooFew
  <2>2. /\ sum \div N < t => MeanBelow(links, t + 1)
        /\ ~(sum \div N < t) => ~MeanBelow(links, t)
    BY <1>1, <1>10
  <2> QED
    BY <2>1, <2>2, Zenon
<1> QED
  BY <1>11, <1>12, Zenon

\* Every round of p2pMonitor, for any set of nodes, any counts of peers and any
\* tolerance: cutting off twice costs less than one percent point.
THEOREM ConnectivityWithin == StatelessSpec => []ConnectivityWithinOnePoint
<1> DEFINE Inv == ConnectivityWithinOnePoint
<1>1. StatelessInit => Inv
  BY DEF StatelessInit, NoRound, ConnectivityWithinOnePoint
<1>2. Inv /\ [StatelessNext]_round => Inv'
  <2> SUFFICES ASSUME Inv, [StatelessNext]_round PROVE Inv'
    OBVIOUS
  <2>1. CASE FindLeaders
    <3>1. round'.kind = "leaders"
      BY <2>1 DEF FindLeaders
    <3> QED
      BY <3>1 DEF ConnectivityWithinOnePoint
  <2>2. CASE AskPools
    <3>1. round'.kind = "cx"
      BY <2>2 DEF AskPools
    <3> QED
      BY <3>1 DEF ConnectivityWithinOnePoint
  <2>3. CASE CheckConnectivity
    <3>1. PICK S \in (SUBSET Peers) \ {{}}, t \in Tolerances : \E links \in [S -> Links] :
            \E percents \in {p \in [S -> UNION {Percent(links[n]) : n \in S}] :
                               \A n \in S : p[n] \in Percent(links[n])} :
              round' = [kind |-> "p2p", links |-> links, tolerance |-> t,
                        alert |-> TooFew(Average(percents), t)]
      BY <2>3, Zenon DEF CheckConnectivity
    <3>2. PICK links \in [S -> Links] :
            \E percents \in {p \in [S -> UNION {Percent(links[n]) : n \in S}] :
                               \A n \in S : p[n] \in Percent(links[n])} :
              round' = [kind |-> "p2p", links |-> links, tolerance |-> t,
                        alert |-> TooFew(Average(percents), t)]
      BY <3>1, Zenon
    <3>3. PICK percents \in [S -> UNION {Percent(links[n]) : n \in S}] :
            /\ \A n \in S : percents[n] \in Percent(links[n])
            /\ round' = [kind |-> "p2p", links |-> links, tolerance |-> t,
                         alert |-> TooFew(Average(percents), t)]
      BY <3>2, Zenon
    <3>4. DOMAIN percents = S /\ percents = [n \in S |-> percents[n]]
      BY Zenon
    <3>5. IF TooFew(Average(percents), t) THEN MeanBelow(links, t + 1)
          ELSE ~MeanBelow(links, t) \/ MeanBelow(links, 2)
      BY <3>3, <3>4, MeanWithin, Zenon
    <3>6. /\ round'.links = links /\ round'.tolerance = t
          /\ round'.alert = TooFew(Average(percents), t)
      BY <3>3
    <3> QED
      BY <3>5, <3>6, Zenon DEF ConnectivityWithinOnePoint
  <2>4. CASE EndRound
    <3>1. round'.kind = "none"
      BY <2>4 DEF EndRound, NoRound
    <3> QED
      BY <3>1 DEF ConnectivityWithinOnePoint
  <2>5. CASE UNCHANGED round
    BY <2>5 DEF ConnectivityWithinOnePoint
  <2> QED
    BY <2>1, <2>2, <2>3, <2>4, <2>5 DEF StatelessNext
<1> QED
  BY <1>1, <1>2, PTL DEF StatelessSpec

-----------------------------------------------------------------------------
(* The staking committee.                                                  *)

(* A goroutine is off until it is started, and writes until nothing is     *)
(* left to write.                                                          *)
UpdatesSound ==
  \A i \in Ids : /\ updates[i].pc = "off" <=> i > started
                 /\ updates[i].pc = "write" => updates[i].left # {}
                 /\ updates[i].pc = "done" => updates[i].left = {}

(* Without a clash the committee is whole, but for the update under way.   *)
Unmixed ==
  ~clashed =>
    /\ \A i \in Ids : HalfWritten(i) =>
         \A w \in Words \ updates[i].left : committee[w] = updates[i].answer
    /\ (\A i \in Ids : ~HalfWritten(i)) => committee["deciders"] = committee["count"]

(* A report half-way through, and undisturbed, has read of the committee   *)
(* that is still there.                                                    *)
StatusSound ==
  /\ status.pc = "half" /\ ~status.disturbed =>
       /\ status.deciders = committee["deciders"]
       /\ committee["deciders"] = committee["count"]
  /\ SeatsOfOneCommittee

CommitteeInv ==
  /\ CommitteeTypeOK
  /\ UpdatesSound
  /\ Unmixed
  /\ StatusSound

\* What an update is made of.
LEMMA UpdateFacts ==
  ASSUME CommitteeInv, NEW i \in Ids
  PROVE  /\ updates \in [Ids -> Update]
         /\ updates[i].pc \in {"off", "ask", "write", "done", "failed"}
         /\ updates[i].answer \in Committees
         /\ updates[i].left \in SUBSET Words
<1>1. updates \in [Ids -> Update]
  BY DEF CommitteeInv, CommitteeTypeOK
<1>2. updates[i] \in Update
  BY <1>1
<1> QED
  BY <1>1, <1>2 DEF Update

\* A record with the three fields is an update.
LEMMA IsUpdate ==
  ASSUME NEW p \in {"off", "ask", "write", "done", "failed"},
         NEW a \in Committees, NEW l \in SUBSET Words
  PROVE  [pc |-> p, answer |-> a, left |-> l] \in Update
  BY Zenon DEF Update

\* The epoch of the first header of shard 0 is new: an update for it is started.
LEMMA EpochInv ==
  ASSUME CommitteeInv, NEW e \in Committees, EpochOfHeader(e)
  PROVE  CommitteeInv'
<1>1. /\ e \in 0..epoch /\ e > prevEpoch /\ prevEpoch' = e /\ started' = started + 1
      /\ updates' = [updates EXCEPT ![started + 1] = Asking]
      /\ UNCHANGED <<epoch, committee, clashed, status>>
  BY DEF EpochOfHeader
<1>2. /\ epoch \in 1..MaxEpoch /\ prevEpoch \in 0..epoch /\ started \in 1..MaxEpoch + 1
      /\ started <= prevEpoch + 1 /\ updates \in [Ids -> Update]
      /\ \A i \in Ids : updates[i] = Off <=> i > started
  BY DEF CommitteeInv, CommitteeTypeOK, Ids
<1>3. /\ started + 1 \in Ids /\ started' \in Ids /\ started' <= prevEpoch' + 1
      /\ prevEpoch' \in 0..epoch'
  BY <1>1, <1>2, MaxEpochAssumption DEF Ids
<1>4. Asking \in Update /\ Asking # Off
  <2>1. 0 \in Committees
    BY MaxEpochAssumption DEF Committees, NoCommittee
  <2>2. Asking \in Update
    BY <2>1, IsUpdate DEF Asking, NoCommittee
  <2>3. Asking.pc = "ask" /\ Off.pc = "off"
    BY DEF Asking, Off
  <2> QED
    BY <2>2, <2>3
<1>5. /\ updates' \in [Ids -> Update] /\ updates'[started'] = Asking
      /\ \A i \in Ids : i # started' => updates'[i] = updates[i]
  BY <1>1, <1>2, <1>3, <1>4
<1>6. \A i \in Ids : (i > started' <=> i > started /\ i # started')
  BY <1>1, <1>2 DEF Ids
<1>7. started' > started
  BY <1>1, <1>2
<1>8. Asking.pc = "ask"
  BY DEF Asking
<1>9. CommitteeTypeOK'
  <2>1. \A i \in Ids : updates'[i] = Off <=> i > started'
    BY <1>2, <1>3, <1>4, <1>5, <1>6
  <2> QED
    BY <1>1, <1>3, <1>5, <2>1, Zenon DEF CommitteeInv, CommitteeTypeOK
<1>10. UpdatesSound'
  BY <1>3, <1>5, <1>6, <1>8 DEF CommitteeInv, UpdatesSound
<1>12. \A i \in Ids : HalfWritten(i)' <=> HalfWritten(i)
  <2>1. updates[started'].pc = "off"
    BY <1>3, <1>7 DEF CommitteeInv, UpdatesSound
  <2> QED
    BY <1>5, <1>8, <2>1 DEF HalfWritten
<1>13. \A i \in Ids : HalfWritten(i) => updates'[i] = updates[i]
  BY <1>5, <1>8, <1>12 DEF HalfWritten
<1>14. Unmixed'
  BY <1>1, <1>12, <1>13 DEF CommitteeInv, Unmixed
<1>15. StatusSound'
  BY <1>1 DEF CommitteeInv, StatusSound, SeatsOfOneCommittee
<1> QED
  BY <1>9, <1>10, <1>14, <1>15 DEF CommitteeInv

\* An update that waits for its node fails, or has its answer: nothing of it is
\* written before or after.
LEMMA WaitInv ==
  ASSUME CommitteeInv, NEW i \in Ids, NEW u \in Update,
         updates[i].pc = "ask", u.pc \in {"failed", "write"},
         u.pc = "write" => u.left = Words,
         updates' = [updates EXCEPT ![i] = u],
         UNCHANGED <<epoch, prevEpoch, started, committee, clashed, status>>
  PROVE  CommitteeInv'
<1>1. updates \in [Ids -> Update] /\ started \in Ids
  BY DEF CommitteeInv, CommitteeTypeOK
<1>2. /\ updates' \in [Ids -> Update] /\ updates'[i] = u
      /\ \A j \in Ids : j # i => updates'[j] = updates[j]
  BY <1>1
<1>3. u # Off /\ updates[i] # Off
  <2>1. Off.pc = "off"
    BY DEF Off
  <2> QED
    BY <2>1
<1>4. CommitteeTypeOK'
  <2>1. \A j \in Ids : updates'[j] = Off <=> j > started'
    BY <1>2, <1>3 DEF CommitteeInv, CommitteeTypeOK
  <2> QED
    BY <1>1, <1>2, <2>1 DEF CommitteeInv, CommitteeTypeOK
<1>5. Words # {}
  BY DEF Words
<1>6. UpdatesSound'
  BY <1>2, <1>5 DEF CommitteeInv, UpdatesSound
<1>8. \A j \in Ids : (HalfWritten(j)' <=> HalfWritten(j)) /\ (HalfWritten(j) => j # i)
  BY <1>2 DEF HalfWritten
<1>9. Unmixed'
  BY <1>2, <1>8 DEF CommitteeInv, Unmixed
<1>10. StatusSound'
  BY DEF CommitteeInv, StatusSound, SeatsOfOneCommittee
<1> QED
  BY <1>4, <1>6, <1>9, <1>10 DEF CommitteeInv

\* What one word written by update i changes.
LEMMA WriteFacts ==
  ASSUME CommitteeInv, NEW i \in Ids, NEW w \in Words, Write(i, w)
  PROVE  /\ committee' \in [Words -> Committees] /\ committee'[w] = updates[i].answer
         /\ \A v \in Words : v # w => committee'[v] = committee[v]
         /\ updates' \in [Ids -> Update]
         /\ \A j \in Ids : j # i => updates'[j] = updates[j]
         /\ updates'[i].left = updates[i].left \ {w}
         /\ updates'[i].pc = IF updates'[i].left = {} THEN "done" ELSE "write"
         /\ updates'[i].answer = updates[i].answer
<1> DEFINE rest == updates[i].left \ {w}
           u == [updates[i] EXCEPT !.left = rest, !.pc = IF rest = {} THEN "done" ELSE "write"]
<1>1. /\ committee' = [committee EXCEPT ![w] = updates[i].answer]
      /\ updates' = [updates EXCEPT ![i] = u]
  BY DEF Write
<1>2. committee \in [Words -> Committees]
  BY DEF CommitteeInv, CommitteeTypeOK
<1>3. updates[i] \in Update /\ updates \in [Ids -> Update]
  BY UpdateFacts DEF CommitteeInv, CommitteeTypeOK
<1>4. rest \in SUBSET Words
  BY UpdateFacts
<1>5. (IF rest = {} THEN "done" ELSE "write") \in {"off", "ask", "write", "done", "failed"}
  OBVIOUS
<1>6. /\ u \in Update /\ u.left = rest /\ u.pc = (IF rest = {} THEN "done" ELSE "write")
      /\ u.answer = updates[i].answer
  <2> DEFINE p == IF rest = {} THEN "done" ELSE "write"
  <2> HIDE DEF rest, p
  <2>1. p \in {"off", "ask", "write", "done", "failed"}
    BY <1>5 DEF p
  <2> DEFINE y == [updates[i] EXCEPT !.left = rest, !.pc = p]
  <2>2. y.left = rest
    BY <1>3 DEF Update
  <2>3. y.pc = p
    BY <1>3 DEF Update
  <2>4. y.answer = updates[i].answer
    BY <1>3 DEF Update
  <2>5. y \in Update
    BY <1>3, <1>4, <2>1, Zenon DEF Update
  <2>6. y = u
    BY Zenon DEF p
  <2> HIDE DEF y, u
  <2> QED
    BY <2>2, <2>3, <2>4, <2>5, <2>6 DEF p
<1> HIDE DEF u
<1>7. /\ updates' \in [Ids -> Update] /\ updates'[i] = u
      /\ \A j \in Ids : j # i => updates'[j] = updates[j]
  BY <1>1, <1>3, <1>6
<1>8. /\ committee' \in [Words -> Committees] /\ committee'[w] = updates[i].answer
      /\ \A v \in Words : v # w => committee'[v] = committee[v]
  BY <1>1, <1>2, UpdateFacts
<1> QED
  BY <1>6, <1>7, <1>8

\* One word of an answer is stored.
LEMMA WriteInv ==
  ASSUME CommitteeInv, NEW i \in Ids, NEW w \in Words, Write(i, w)
  PROVE  CommitteeInv'
<1> DEFINE written == Words \ updates[i].left
<1>1. /\ updates[i].pc = "write" /\ w \in updates[i].left
      /\ clashed' = ((\E j \in Ids \ {i} : HalfWritten(j)) \/ (clashed /\ HalfWritten(i)))
      /\ status' = [status EXCEPT !.disturbed = status.disturbed \/ status.pc = "half"]
      /\ UNCHANGED <<epoch, prevEpoch, started>>
  BY DEF Write
<1>2. /\ committee' \in [Words -> Committees] /\ committee'[w] = updates[i].answer
      /\ \A v \in Words : v # w => committee'[v] = committee[v]
  BY WriteFacts
<1>3. /\ updates' \in [Ids -> Update]
      /\ \A j \in Ids : j # i => updates'[j] = updates[j]
      /\ updates'[i].left = updates[i].left \ {w}
      /\ updates'[i].pc = IF updates'[i].left = {} THEN "done" ELSE "write"
      /\ updates'[i].answer = updates[i].answer
  BY WriteFacts
<1>4. started \in Ids /\ ~(i > started) /\ updates[i].left \in SUBSET Words
  BY <1>1, UpdateFacts DEF CommitteeInv, CommitteeTypeOK, UpdatesSound
<1>5. \A v \in Words \ updates'[i].left : v = w \/ v \in written
  BY <1>3
<1>6. (\A v \in written : committee[v] = updates[i].answer) =>
        \A v \in Words \ updates'[i].left : committee'[v] = updates'[i].answer
  BY <1>2, <1>3, <1>5
<1>7. /\ status' \in Status /\ status'.pc = status.pc /\ status'.deciders = status.deciders
      /\ status'.count = status.count
      /\ ~status'.disturbed => ~status.disturbed /\ status.pc # "half"
  <2> DEFINE b == status.disturbed \/ status.pc = "half"
  <2>1. status \in Status /\ b \in BOOLEAN
    BY DEF CommitteeInv, CommitteeTypeOK
  <2>2. status' = [status EXCEPT !.disturbed = b]
    BY <1>1
  <2>3. status.disturbed \/ status.pc = "half" => b
    OBVIOUS
  <2> HIDE DEF b
  <2>4. status' \in Status
    BY <2>1, <2>2 DEF Status
  <2>5. status'.disturbed = b /\ status'.pc = status.pc
    BY <2>1, <2>2 DEF Status
  <2>6. status'.deciders = status.deciders /\ status'.count = status.count
    BY <2>1, <2>2 DEF Status
  <2> QED
    BY <2>3, <2>4, <2>5, <2>6
<1>8. CommitteeTypeOK'
  <2>1. updates'[i].pc # "off" /\ updates[i].pc # "off" /\ Off.pc = "off"
    BY <1>1, <1>3 DEF Off
  <2>2. \A j \in Ids : updates'[j] = Off <=> j > started
    BY <1>3, <2>1 DEF CommitteeInv, CommitteeTypeOK
  <2>3. clashed' \in BOOLEAN
    BY <1>1
  <2> QED
    BY <1>1, <1>2, <1>3, <1>7, <2>2, <2>3 DEF CommitteeInv, CommitteeTypeOK
<1>9. UpdatesSound'
  BY <1>1, <1>3, <1>4 DEF CommitteeInv, UpdatesSound
<1>11. Unmixed'
  <2> SUFFICES ASSUME ~clashed'
               PROVE  /\ \A j \in Ids : HalfWritten(j)' =>
                           \A v \in Words \ updates'[j].left : committee'[v] = updates'[j].answer
                      /\ (\A j \in Ids : ~HalfWritten(j)') =>
                           committee'["deciders"] = committee'["count"]
    BY DEF Unmixed
  <2>1. \A v \in written : committee[v] = updates[i].answer
    BY <1>1, <1>4, Zenon DEF CommitteeInv, Unmixed, HalfWritten
  <2>2. \A v \in Words \ updates'[i].left : committee'[v] = updates'[i].answer
    BY <1>6, <2>1
  <2>3. \A j \in Ids : HalfWritten(j)' => j = i
    <3>1. \A j \in Ids \ {i} : ~HalfWritten(j)
      BY <1>1, Zenon
    <3>2. \A j \in Ids \ {i} : HalfWritten(j)' => HalfWritten(j)
      BY <1>3 DEF HalfWritten
    <3> QED
      BY <3>1, <3>2, Zenon
  <2>4. ASSUME ~HalfWritten(i)'
        PROVE  committee'["deciders"] = committee'["count"]
    <3>1. w \in Words /\ w \notin updates'[i].left
      BY <1>3
    <3>2. updates'[i].left = {}
      BY <1>3, <2>4, <3>1 DEF HalfWritten
    <3> QED
      BY <2>2, <3>2 DEF Words
  <2> QED
    BY <2>2, <2>3, <2>4
<1>12. StatusSound'
  BY <1>7 DEF CommitteeInv, StatusSound, SeatsOfOneCommittee
<1> QED
  BY <1>8, <1>9, <1>11, <1>12 DEF CommitteeInv

\* The two reads of a status report.
LEMMA StatusInv ==
  ASSUME CommitteeInv, ReadDeciders \/ ReadCount \/ EndStatus
  PROVE  CommitteeInv'
<1>1. UNCHANGED <<epoch, prevEpoch, started, updates, committee, clashed>>
  BY Zenon DEF ReadDeciders, ReadCount, EndStatus
<1>2. /\ committee["deciders"] \in Committees /\ committee["count"] \in Committees
      /\ NoCommittee \in Committees
  BY MaxEpochAssumption DEF CommitteeInv, CommitteeTypeOK, Words, Committees, NoCommittee
<1>3. \A i \in Ids : HalfWritten(i)' <=> HalfWritten(i)
  BY <1>1 DEF HalfWritten
<1>4. status' \in Status /\ StatusSound'
  <2>1. CASE ReadDeciders
    <3> DEFINE b == clashed \/ \E i \in Ids : HalfWritten(i)
    <3>1. b \in BOOLEAN
      BY DEF CommitteeInv, CommitteeTypeOK
    <3>2. status' = [pc |-> "half", deciders |-> committee["deciders"],
                     count |-> NoCommittee, disturbed |-> b]
      BY <2>1, Zenon DEF ReadDeciders
    <3>3. ~b => committee["deciders"] = committee["count"]
      BY Zenon DEF CommitteeInv, Unmixed
    <3> HIDE DEF b
    <3>4. status' \in Status
      BY <1>2, <3>1, <3>2, Zenon DEF Status
    <3>5. status'.pc = "half" /\ status'.deciders = committee["deciders"] /\ status'.disturbed = b
      BY <3>2
    <3> QED
      BY <1>1, <3>3, <3>4, <3>5 DEF StatusSound, SeatsOfOneCommittee
  <2>2. CASE ReadCount
    <3>1. /\ status.pc = "half" /\ status \in Status
          /\ status' = [status EXCEPT !.pc = "sent", !.count = committee["count"]]
      BY <2>2 DEF ReadCount, CommitteeInv, CommitteeTypeOK
    <3>2. status' \in Status
      BY <1>2, <3>1, Zenon DEF Status
    <3>3. status'.pc = "sent"
      BY <3>1 DEF Status
    <3>4. status'.count = committee["count"]
      BY <3>1 DEF Status
    <3>5. status'.deciders = status.deciders /\ status'.disturbed = status.disturbed
      BY <3>1 DEF Status
    <3>6. ~status.disturbed => status.deciders = committee["count"]
      BY <3>1 DEF CommitteeInv, StatusSound
    <3> QED
      BY <3>2, <3>3, <3>4, <3>5, <3>6 DEF StatusSound, SeatsOfOneCommittee
  <2>3. CASE EndStatus
    <3>1. status' = NoStatus
      BY <2>3 DEF EndStatus
    <3>2. NoStatus \in Status
      BY <1>2, Zenon DEF Status, NoStatus
    <3>3. NoStatus.pc = "idle"
      BY DEF NoStatus
    <3> QED
      BY <3>1, <3>2, <3>3 DEF StatusSound, SeatsOfOneCommittee
  <2> QED
    BY <2>1, <2>2, <2>3
<1>5. CommitteeTypeOK'
  BY <1>1, <1>4 DEF CommitteeInv, CommitteeTypeOK
<1>6. UpdatesSound'
  BY <1>1 DEF CommitteeInv, UpdatesSound
<1>7. Unmixed'
  BY <1>1, <1>3 DEF CommitteeInv, Unmixed
<1> QED
  BY <1>4, <1>5, <1>6, <1>7 DEF CommitteeInv

\* Every step of the manager, of the updates and of the report keeps CommitteeInv.
LEMMA CommitteeStep ==
  ASSUME CommitteeInv, CommitteeNext
  PROVE  CommitteeInv'
<1>1. CASE NewEpoch
  <2>1. /\ epoch < MaxEpoch /\ epoch' = epoch + 1
        /\ UNCHANGED <<prevEpoch, started, updates, committee, clashed, status>>
    BY <1>1 DEF NewEpoch
  <2>2. epoch' \in 1..MaxEpoch /\ prevEpoch' \in 0..epoch'
    BY <2>1, MaxEpochAssumption DEF CommitteeInv, CommitteeTypeOK
  <2>3. CommitteeTypeOK'
    BY <2>1, <2>2 DEF CommitteeInv, CommitteeTypeOK
  <2>4. UpdatesSound' /\ StatusSound'
    BY <2>1 DEF CommitteeInv, UpdatesSound, StatusSound, SeatsOfOneCommittee
  <2>5. Unmixed'
    BY <2>1 DEF CommitteeInv, Unmixed, HalfWritten
  <2> QED
    BY <2>3, <2>4, <2>5 DEF CommitteeInv
<1>2. CASE ReadDeciders \/ ReadCount \/ EndStatus
  BY <1>2, StatusInv
<1>3. ASSUME NEW e \in Committees, EpochOfHeader(e) PROVE CommitteeInv'
  BY <1>3, EpochInv
<1>4. ASSUME NEW i \in Ids, UpdateFails(i) PROVE CommitteeInv'
  <2> DEFINE u == [updates[i] EXCEPT !.pc = "failed"]
  <2>1. /\ updates[i].pc = "ask" /\ updates' = [updates EXCEPT ![i] = u]
        /\ UNCHANGED <<epoch, prevEpoch, started, committee, clashed, status>>
    BY <1>4 DEF UpdateFails
  <2>2. updates[i] \in Update
    BY UpdateFacts
  <2>3. u \in Update
    BY <2>2 DEF Update
  <2>4. u.pc = "failed"
    BY <2>2 DEF Update
  <2> HIDE DEF u
  <2> QED
    BY <2>1, <2>3, <2>4, WaitInv, Zenon
<1>5. ASSUME NEW i \in Ids, NEW a \in Committees, UpdateAnswered(i, a) PROVE CommitteeInv'
  <2> DEFINE u == [updates[i] EXCEPT !.pc = "write", !.answer = a, !.left = Words]
  <2>1. /\ updates[i].pc = "ask" /\ updates' = [updates EXCEPT ![i] = u]
        /\ UNCHANGED <<epoch, prevEpoch, started, committee, clashed, status>>
    BY <1>5 DEF UpdateAnswered
  <2>2. updates[i] \in Update
    BY UpdateFacts
  <2>3. u \in Update
    BY <2>2, Zenon DEF Update
  <2>4. u.pc = "write"
    BY <2>2 DEF Update
  <2>5. u.left = Words
    BY <2>2 DEF Update
  <2> HIDE DEF u
  <2> QED
    BY <2>1, <2>3, <2>4, <2>5, WaitInv, Zenon
<1>6. ASSUME NEW i \in Ids, NEW w \in Words, Write(i, w) PROVE CommitteeInv'
  BY <1>6, WriteInv
<1> QED
  BY <1>1, <1>2, <1>3, <1>4, <1>5, <1>6, Zenon DEF CommitteeNext

\* Nothing is known of the committee at first, and one update asks for it.
LEMMA CommitteeInitial ==
  ASSUME CommitteeInit
  PROVE  CommitteeInv
<1>1. /\ epoch = 1 /\ prevEpoch = 0 /\ started = 1
      /\ updates = [i \in Ids |-> IF i = 1 THEN Asking ELSE Off]
      /\ committee = [w \in Words |-> NoCommittee]
      /\ clashed = FALSE /\ status = NoStatus
  BY DEF CommitteeInit
<1>2. 1 \in Ids /\ 0 \in Committees /\ NoCommittee \in Committees /\ \A i \in Ids : i # 1 <=> i > 1
  BY MaxEpochAssumption DEF Ids, Committees, NoCommittee
<1>3. {} \in SUBSET Words
  OBVIOUS
<1>4. Asking \in Update
  BY <1>2, <1>3, IsUpdate, Zenon DEF Asking
<1>5. Off \in Update
  BY <1>2, <1>3, IsUpdate, Zenon DEF Off
<1>6. Asking.pc = "ask" /\ Off.pc = "off"
  BY DEF Asking, Off
<1>7. /\ updates \in [Ids -> Update]
      /\ \A i \in Ids : updates[i] = IF i = 1 THEN Asking ELSE Off
  BY <1>1, <1>4, <1>5
<1>8. \A i \in Ids : updates[i] = Off <=> i > started
  BY <1>1, <1>2, <1>6, <1>7
<1>9. status \in Status /\ status.pc = "idle"
  <2>1. NoStatus \in Status
    BY <1>2, Zenon DEF Status, NoStatus
  <2> QED
    BY <1>1, <2>1 DEF NoStatus
<1>10. /\ committee \in [Words -> Committees] /\ committee["deciders"] = committee["count"]
  BY <1>1, <1>2 DEF Words
<1>11. CommitteeTypeOK
  <2>1. epoch \in 1..MaxEpoch /\ prevEpoch \in 0..epoch /\ started \in Ids /\ started <= prevEpoch + 1
    BY <1>1, <1>2, MaxEpochAssumption
  <2>2. clashed \in BOOLEAN
    BY <1>1, Zenon
  <2> QED
    BY <1>7, <1>8, <1>9, <1>10, <2>1, <2>2 DEF CommitteeTypeOK
<1>12. UpdatesSound
  BY <1>1, <1>2, <1>6, <1>7 DEF UpdatesSound
<1>14. Unmixed
  BY <1>6, <1>7, <1>10 DEF Unmixed, HalfWritten
<1>15. StatusSound
  BY <1>9 DEF StatusSound, SeatsOfOneCommittee
<1> QED
  BY <1>11, <1>12, <1>14, <1>15 DEF CommitteeInv

\* CommitteeInv holds of every state of stakingCommitteeUpdate's goroutines.
THEOREM CommitteeInductive == CommitteeSpec => []CommitteeInv
<1>1. CommitteeInit => CommitteeInv
  BY CommitteeInitial
<1>2. CommitteeInv /\ [CommitteeNext]_committeeVars => CommitteeInv'
  <2>1. CASE CommitteeNext
    BY <2>1, CommitteeStep
  <2>2. CASE UNCHANGED committeeVars
    <3>1. CommitteeInv => CommitteeTypeOK' /\ UpdatesSound'
      BY <2>2 DEF CommitteeInv, committeeVars, CommitteeTypeOK, UpdatesSound
    <3>2. CommitteeInv => Unmixed' /\ StatusSound'
      BY <2>2 DEF CommitteeInv, committeeVars, Unmixed, HalfWritten, StatusSound,
                  SeatsOfOneCommittee
    <3> QED
      BY <3>1, <3>2 DEF CommitteeInv
  <2> QED
    BY <2>1, <2>2
<1> QED
  BY <1>1, <1>2, PTL DEF CommitteeSpec

\* The two seat counts of an undisturbed status report are of one committee.
THEOREM SeatsAgree == CommitteeSpec => []SeatsOfOneCommittee
<1>1. CommitteeInv => SeatsOfOneCommittee
  BY DEF CommitteeInv, StatusSound
<1> QED
  BY <1>1, CommitteeInductive, PTL
=============================================================================
