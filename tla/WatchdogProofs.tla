--------------------------- MODULE WatchdogProofs ---------------------------
(***************************************************************************)
(* The safety of crossLinkMonitor and of the process from its command line *)
(* to its end, for any values of their constants.  They share no           *)
(* variables, so each has its own invariant and its own argument; then the *)
(* process that all the parts make up.                                     *)
(***************************************************************************)
EXTENDS PartsProofs, DownListProofs, MCWatchdog

-----------------------------------------------------------------------------
(* crossLinkMonitor.                                                       *)

(* Ticks are taken in order, and a round has one.                          *)
TicksInOrder ==
  /\ tick # NoTick => now <= tick
  /\ pc = "poll" => now # NoTick

(* A record that has the newest link, or the newest the round could ask    *)
(* for, was made when that link was there.                                 *)
RecordsDated ==
  \A s \in Shards : last[s] # NoEntry =>
    /\ last[s].number >= link[s] => linkTime[s] <= last[s].seen
    /\ last[s].number >= startLink[s] => startTime[s] <= last[s].seen

(* What is shown was recorded.                                             *)
LinksRecorded == \A s \in Shards : s \in DOMAIN links => links[s] <= last[s].number

CrossLinkInv ==
  /\ TypeOK
  /\ TicksInOrder
  /\ RecordsDated
  /\ LinksRecorded

\* What an answer and the recorded links are.
LEMMA EntryFacts ==
  ASSUME TypeOK, NEW s \in Shards
  PROVE  /\ link[s] \in 0..MaxLink /\ startLink[s] \in 0..MaxLink /\ startLink[s] <= link[s]
         /\ linkTime[s] \in 0..clock /\ startTime[s] \in 0..clock /\ clock \in 0..MaxTime
         /\ last[s] # NoEntry =>
              /\ last[s].number \in 1..MaxLink /\ last[s].ts \in 0..MaxTime /\ last[s].seen \in 0..MaxTime
              /\ last[s].number <= link[s] /\ last[s].ts <= now /\ last[s].ts <= last[s].seen
         /\ last[s] = NoEntry => last[s].number = -1
<1>1. /\ link[s] \in 0..MaxLink /\ startLink[s] \in 0..link[s] /\ linkTime[s] \in 0..clock
      /\ startTime[s] \in 0..clock /\ clock \in 0..MaxTime
  BY DEF TypeOK
<1>2. last[s] # NoEntry =>
        /\ last[s] \in Entry /\ last[s].number <= link[s] /\ last[s].ts <= now
        /\ last[s].ts <= last[s].seen
  BY DEF TypeOK
<1>3. last[s] = NoEntry => last[s].number = -1
  BY DEF NoEntry
<1> QED
  BY <1>1, <1>2, <1>3, CrossLinkAssumption DEF Entry

\* An answer has links of known shards.
LEMMA AnswerFacts ==
  ASSUME NEW a \in Answers
  PROVE  DOMAIN a \subseteq Shards /\ \A s \in DOMAIN a : a[s] \in 1..MaxLink
  BY DEF Answers

\* The empty list of links is an answer.
LEMMA EmptyAnswer == <<>> \in Answers /\ DOMAIN <<>> = {}
<1>1. DOMAIN <<>> = {} /\ <<>> \in [{} -> 1..MaxLink]
  OBVIOUS
<1> QED
  BY <1>1 DEF Answers

\* The record of s is as new as answer a, or is replaced by it.
Kept(a, s) ==
  /\ last'[s] = last[s]
  /\ s \in DOMAIN a => last[s] # NoEntry /\ a[s] <= last[s].number
Renewed(a, s) ==
  /\ s \in DOMAIN a
  /\ last'[s].number = a[s] /\ last'[s].ts = now /\ last'[s].seen = clock
  /\ last'[s] \in Entry /\ last'[s] # NoEntry /\ a[s] <= link[s]
  /\ now \in 0..clock
  /\ last[s].number < a[s]

\* What a deciding answer does to the record of a shard.
LEMMA RecordFacts ==
  ASSUME TypeOK, pc = "poll" => now # NoTick, NEW a \in Answers, Decide(a), NEW s \in Shards
  PROVE  Kept(a, s) \/ Renewed(a, s)
<1>1. /\ pc = "poll" /\ last'[s] = NextLast(a, s)
      /\ s \in DOMAIN a => a[s] \in 1..MaxLink /\ a[s] <= link[s]
  BY AnswerFacts DEF Decide
<1>2. now \in 0..clock /\ clock \in 0..MaxTime /\ now \in 0..MaxTime
  BY <1>1, CrossLinkAssumption DEF TypeOK
<1>3. CASE s \notin DOMAIN a \/ Stale(a, s)
  BY <1>1, <1>3 DEF NextLast, Stale, Kept
<1>4. CASE s \in DOMAIN a /\ ~Stale(a, s)
  <2>1. last'[s] = [number |-> a[s], ts |-> now, seen |-> clock]
    BY <1>1, <1>4 DEF NextLast
  <2>2. last'[s] \in Entry
    BY <1>1, <1>2, <1>4, <2>1 DEF Entry
  <2>3. last'[s] # NoEntry
    BY <1>1, <1>4, <2>1 DEF NoEntry
  <2>4. last[s].number < a[s]
    BY <1>1, <1>4, EntryFacts DEF Stale
  <2> QED
    BY <1>1, <1>2, <1>4, <2>1, <2>2, <2>3, <2>4 DEF Renewed
<1> QED
  BY <1>3, <1>4

\* Every step of the chain, the clock and the monitor preserves the invariant.
LEMMA CrossLinkStep ==
  ASSUME CrossLinkInv, Next
  PROVE  CrossLinkInv'
<1>0. TypeOK
  BY DEF CrossLinkInv
<1> USE DEF chainVars, startVars
<1>1. CASE Second
  <2>1. /\ clock' = clock + 1 /\ clock' \in 0..MaxTime /\ clock \in 0..MaxTime
        /\ tick' = tick \/ (tick = NoTick /\ tick' = clock')
        /\ alarms' = {}
        /\ UNCHANGED <<link, linkTime, pc, now, startTime, startLink, last, links>>
    <3>1. /\ clock < MaxTime /\ clock' = clock + 1 /\ alarms' = {}
          /\ tick' = tick \/ (tick = NoTick /\ tick' = clock')
          /\ UNCHANGED <<link, linkTime, pc, now, startTime, startLink, last, links>>
      BY <1>1 DEF Second
    <3> QED
      BY <1>0, <3>1, CrossLinkAssumption DEF TypeOK
  <2>2. /\ linkTime' \in [Shards -> 0..clock'] /\ startTime' \in [Shards -> 0..clock']
        /\ tick' \in {NoTick} \cup 0..clock' /\ now' \in {NoTick} \cup 0..clock'
    BY <1>0, <2>1 DEF TypeOK
  <2>3. TypeOK'
    BY <1>0, <2>1, <2>2 DEF TypeOK
  <2>4. TicksInOrder'
    BY <1>0, <2>1 DEF CrossLinkInv, TicksInOrder, TypeOK, NoTick
  <2>5. RecordsDated' /\ LinksRecorded'
    BY <2>1 DEF CrossLinkInv, RecordsDated, LinksRecorded
  <2> QED
    BY <2>3, <2>4, <2>5 DEF CrossLinkInv
<1>2. ASSUME NEW z \in Shards, NewLink(z) PROVE CrossLinkInv'
  <2>1. /\ link[z] < MaxLink /\ link' = [link EXCEPT ![z] = link[z] + 1]
        /\ linkTime' = [linkTime EXCEPT ![z] = clock] /\ alarms' = {}
        /\ UNCHANGED <<clock, tick, pc, now, startTime, startLink, last, links>>
    BY <1>2 DEF NewLink
  <2>2. /\ link \in [Shards -> 0..MaxLink] /\ linkTime \in [Shards -> 0..clock]
        /\ clock \in 0..MaxTime
    BY <1>0 DEF TypeOK
  <2>3. /\ link' \in [Shards -> 0..MaxLink] /\ linkTime' \in [Shards -> 0..clock]
        /\ link'[z] = link[z] + 1
        /\ \A s \in Shards : /\ link[s] <= link'[s]
                             /\ s # z => link'[s] = link[s] /\ linkTime'[s] = linkTime[s]
    BY <2>1, <2>2, CrossLinkAssumption
  <2>4. \A s \in Shards : /\ startLink'[s] \in 0..link'[s]
                          /\ last'[s] # NoEntry => last'[s].number <= link'[s]
    BY <1>0, <2>1, <2>3, EntryFacts
  <2>5. TypeOK'
    BY <1>0, <2>1, <2>3, <2>4 DEF TypeOK
  <2>6. RecordsDated'
    <3> SUFFICES ASSUME NEW s \in Shards, last[s] # NoEntry
                 PROVE  /\ last[s].number >= link'[s] => linkTime'[s] <= last[s].seen
                        /\ last[s].number >= startLink[s] => startTime[s] <= last[s].seen
      BY <2>1 DEF RecordsDated
    <3>1. /\ last[s].number >= link[s] => linkTime[s] <= last[s].seen
          /\ last[s].number >= startLink[s] => startTime[s] <= last[s].seen
      BY DEF CrossLinkInv, RecordsDated
    <3>2. last[s].number <= link[s] /\ last[s].number \in Nat /\ link[s] \in Nat
      BY <1>0, EntryFacts
    <3> QED
      BY <2>3, <3>1, <3>2
  <2>7. TicksInOrder' /\ LinksRecorded'
    BY <2>1 DEF CrossLinkInv, TicksInOrder, LinksRecorded
  <2> QED
    BY <2>5, <2>6, <2>7 DEF CrossLinkInv
<1>3. CASE StartRound
  <2>1. /\ tick # NoTick /\ pc' = "poll" /\ now' = tick /\ tick' = NoTick
        /\ startTime' = linkTime /\ startLink' = link /\ alarms' = {}
        /\ UNCHANGED <<clock, link, linkTime, last, links>>
    BY <1>3 DEF StartRound
  <2>2. now' \in 0..clock /\ now <= now' /\ clock \in Nat /\ now \in Int
    BY <1>0, <2>1 DEF CrossLinkInv, TicksInOrder, TypeOK, NoTick
  <2>3. \A s \in Shards : /\ startLink'[s] \in 0..link'[s]
                          /\ last'[s] # NoEntry => last'[s].ts <= now'
    BY <1>0, <2>1, <2>2, EntryFacts
  <2>4. TypeOK'
    BY <1>0, <2>1, <2>2, <2>3 DEF TypeOK
  <2>5. RecordsDated' /\ LinksRecorded'
    BY <2>1 DEF CrossLinkInv, RecordsDated, LinksRecorded
  <2>6. TicksInOrder'
    BY <2>1 DEF TicksInOrder
  <2> QED
    BY <2>4, <2>5, <2>6 DEF CrossLinkInv
<1>4. CASE NoLeader
  <2>1. /\ links' = <<>> /\ alarms' = {} /\ pc' = "idle"
        /\ UNCHANGED <<clock, tick, link, linkTime, now, startTime, startLink, last>>
    BY <1>4 DEF NoLeader
  <2>2. links' \in Answers /\ DOMAIN links' = {}
    BY <2>1, EmptyAnswer
  <2>3. TypeOK'
    BY <1>0, <2>1, <2>2 DEF TypeOK
  <2>4. TicksInOrder' /\ RecordsDated' /\ LinksRecorded'
    BY <2>1, <2>2 DEF CrossLinkInv, TicksInOrder, RecordsDated, LinksRecorded
  <2> QED
    BY <2>3, <2>4 DEF CrossLinkInv
<1>5. ASSUME NEW a \in Answers, Decide(a) PROVE CrossLinkInv'
  <2>1. /\ alarms' \subseteq DOMAIN a /\ links' = a /\ pc' = "idle"
        /\ UNCHANGED <<clock, tick, link, linkTime, now, startTime, startLink>>
    BY <1>5 DEF Decide
  <2>2. pc = "poll" => now # NoTick
    BY DEF CrossLinkInv, TicksInOrder
  <2>8. \A s \in Shards : Kept(a, s) \/ Renewed(a, s)
    BY <1>0, <1>5, <2>2, RecordFacts, Zenon
  <2>3. \A s \in Shards : last'[s] # NoEntry =>
          /\ last'[s] \in Entry
          /\ last'[s].number <= link[s] /\ last'[s].ts <= now /\ last'[s].ts <= last'[s].seen
    <3> TAKE s \in Shards
    <3>1. CASE Kept(a, s)
      BY <1>0, <3>1 DEF TypeOK, Kept
    <3>2. CASE Renewed(a, s)
      BY <3>2 DEF Renewed
    <3> QED
      BY <2>8, <3>1, <3>2
  <2>4. TypeOK'
    BY <1>0, <2>1, <2>3, AnswerFacts DEF TypeOK
  <2>5. RecordsDated'
    <3> SUFFICES ASSUME NEW s \in Shards, last'[s] # NoEntry
                 PROVE  /\ last'[s].number >= link[s] => linkTime[s] <= last'[s].seen
                        /\ last'[s].number >= startLink[s] => startTime[s] <= last'[s].seen
      BY <2>1 DEF RecordsDated
    <3>1. CASE Kept(a, s)
      BY <3>1 DEF CrossLinkInv, RecordsDated, Kept
    <3>2. CASE Renewed(a, s)
      BY <1>0, <3>2, EntryFacts DEF Renewed
    <3> QED
      BY <2>8, <3>1, <3>2
  <2>6. LinksRecorded'
    <3> SUFFICES ASSUME NEW s \in Shards, s \in DOMAIN a PROVE a[s] <= last'[s].number
      BY <2>1 DEF LinksRecorded
    <3>1. a[s] \in Nat
      BY AnswerFacts
    <3>2. CASE Kept(a, s)
      BY <3>1, <3>2 DEF Kept
    <3>3. CASE Renewed(a, s)
      BY <3>1, <3>3 DEF Renewed
    <3> QED
      BY <2>8, <3>2, <3>3
  <2>7. TicksInOrder'
    BY <2>1 DEF CrossLinkInv, TicksInOrder
  <2> QED
    BY <2>4, <2>5, <2>6, <2>7 DEF CrossLinkInv
<1> QED
  BY <1>1, <1>2, <1>3, <1>4, <1>5 DEF Next

\* The monitor starts without a tick, without links and without records.
LEMMA CrossLinkInit == Init => CrossLinkInv
<1> SUFFICES ASSUME Init PROVE CrossLinkInv
  OBVIOUS
<1>1. links \in Answers /\ DOMAIN links = {}
  BY EmptyAnswer DEF Init
<1>2. \A s \in Shards : last[s] = NoEntry /\ startLink[s] = 0 /\ link[s] = 0
  BY Zenon DEF Init
<1>3. TypeOK
  BY <1>1, <1>2, CrossLinkAssumption DEF Init, TypeOK
<1>4. TicksInOrder /\ RecordsDated /\ LinksRecorded
  BY <1>1, <1>2 DEF Init, TicksInOrder, RecordsDated, LinksRecorded
<1> QED
  BY <1>3, <1>4 DEF CrossLinkInv

\* Every reachable state of crossLinkMonitor satisfies the invariant; in
\* particular no record is newer than the chain or than the tick in hand.
THEOREM CrossLinkInductive == Spec => []CrossLinkInv
<1>1. CrossLinkInv /\ UNCHANGED vars => CrossLinkInv'
  BY DEF CrossLinkInv, TypeOK, TicksInOrder, RecordsDated, LinksRecorded, vars
<1> QED
  BY <1>1, CrossLinkInit, CrossLinkStep, PTL DEF Spec

\* An alarm given after the answer of a leader that knew what the round could ask
\* for is right: no link was added between the record and the round, for the
\* warning time.
THEOREM AlarmsAreRight == Spec => CrossLinkAlarmIsRight
<1>1. ASSUME CrossLinkInv, Next, NEW s \in alarms', links'[s] >= startLink[s]
      PROVE  startTime[s] <= last[s].seen /\ now - last[s].ts >= Warning
  <2>1. PICK a \in Answers : Decide(a)
    BY <1>1, Zenon DEF Next, Second, NewLink, StartRound, NoLeader
  <2>2. s \in DOMAIN a /\ Stale(a, s) /\ Overdue(s) /\ links' = a
    BY <1>1, <2>1 DEF Decide
  <2>3. s \in Shards /\ a[s] \in 1..MaxLink
    BY <2>2, AnswerFacts
  <2>4. last[s] # NoEntry /\ a[s] <= last[s].number
    BY <2>2 DEF Stale
  <2>5. /\ last[s].number \in Nat /\ startLink[s] \in Nat
        /\ last[s].ts \in Nat /\ last[s].ts <= now
    BY <1>1, <2>3, <2>4, EntryFacts DEF CrossLinkInv
  <2>6. now \in Int
    BY <1>1 DEF CrossLinkInv, TypeOK, NoTick
  <2>7. last[s].number >= startLink[s]
    <3>1. a[s] >= startLink[s]
      BY <1>1, <2>2
    <3>2. a[s] \in Nat
      BY <2>3
    <3> QED
      BY <2>4, <2>5, <3>1, <3>2
  <2>8. startTime[s] <= last[s].seen
    BY <1>1, <2>3, <2>4, <2>7 DEF CrossLinkInv, RecordsDated
  <2> QED
    BY <2>2, <2>5, <2>6, <2>8 DEF Overdue
<1>2. CrossLinkInv /\ [Next]_vars =>
        [\A s \in alarms' : links'[s] >= startLink[s] =>
           /\ startTime[s] <= last[s].seen
           /\ now - last[s].ts >= Warning]_vars
  BY <1>1
<1> QED
  BY <1>2, CrossLinkInductive, PTL DEF Spec, CrossLinkAlarmIsRight

\* A stall is reported by every round that an answer for the shard decides.
THEOREM StallsAreReported == Spec => StallIsReported
<1>1. ASSUME CrossLinkInv, Next, NEW s \in Shards, pc = "poll", pc' = "idle",
             s \in DOMAIN links', last[s].number = link[s], now - last[s].ts >= Warning
      PROVE  s \in alarms'
  <2>1. ~NoLeader
    BY <1>1, EmptyAnswer DEF NoLeader
  <2>2. PICK a \in Answers : Decide(a)
    BY <1>1, <2>1, Zenon DEF Next, Second, NewLink, StartRound
  <2>3. /\ links' = a /\ a[s] <= link[s]
        /\ alarms' = {x \in DOMAIN a : Stale(a, x) /\ Overdue(x)}
    BY <1>1, <2>2 DEF Decide
  <2>4. last[s] # NoEntry
    BY <1>1, EntryFacts DEF CrossLinkInv
  <2> QED
    BY <1>1, <2>3, <2>4 DEF Stale, Overdue
<1>2. CrossLinkInv /\ [Next]_vars =>
        [\A s \in Shards :
           pc = "poll" /\ pc' = "idle" /\ s \in DOMAIN links'
             /\ last[s].number = link[s] /\ now - last[s].ts >= Warning => s \in alarms']_vars
  BY <1>1
<1> QED
  BY <1>2, CrossLinkInductive, PTL DEF Spec, StallIsReported

\* The record of a shard is replaced by a newer link only, and dated by the tick.
THEOREM RecordsOnlyAdvance == Spec => RecordOnlyAdvances
<1>1. ASSUME CrossLinkInv, Next, NEW s \in Shards
      PROVE  /\ last'[s] # last[s] => last'[s].number > last[s].number /\ last'[s].ts = now
             /\ s \in DOMAIN links' => links'[s] <= last'[s].number
  <2>1. s \in DOMAIN links' => links'[s] <= last'[s].number
    BY <1>1, CrossLinkStep DEF CrossLinkInv, LinksRecorded
  <2>2. ASSUME NEW a \in Answers, Decide(a), last'[s] # last[s]
        PROVE  last'[s].number > last[s].number /\ last'[s].ts = now
    <3>1. Renewed(a, s)
      BY <1>1, <2>2, RecordFacts, Zenon DEF CrossLinkInv, TicksInOrder, Kept
    <3>2. a[s] \in Nat
      BY <3>1, AnswerFacts DEF Renewed
    <3>3. last[s].number \in Int
      BY <1>1, EntryFacts DEF CrossLinkInv
    <3> QED
      BY <3>1, <3>2, <3>3 DEF Renewed
  <2>3. last'[s] # last[s] => \E a \in Answers : Decide(a)
    BY <1>1, Zenon DEF Next, Second, NewLink, StartRound, NoLeader
  <2> QED
    BY <2>1, <2>2, <2>3
<1>2. CrossLinkInv /\ [Next]_vars =>
        [\A s \in Shards :
           /\ last'[s] # last[s] => last'[s].number > last[s].number /\ last'[s].ts = now
           /\ s \in DOMAIN links' => links'[s] <= last'[s].number]_vars
  BY <1>1
<1> QED
  BY <1>2, CrossLinkInductive, PTL DEF Spec, RecordOnlyAdvances

-----------------------------------------------------------------------------
(* The configuration.  What the machine files leave in byShard is shown by *)
(* induction over the files, as a least number that would be an exception. *)

\* The empty tuple.
LEMMA EmptyTuple == DOMAIN <<>> = {}
  OBVIOUS

Start == [outcome |-> "ok", byShard |-> <<>>]

\* The recursion over the files is well defined.
LEMMA AfterDefined ==
  ASSUME NEW files, Len(files) \in Nat
  PROVE  /\ AfterFiles(files)[0] = Start
         /\ \A i \in 1..Len(files) :
              AfterFiles(files)[i] = AddFile(AfterFiles(files)[i - 1], files[i])
<1> DEFINE Step(f, i) == IF i = 0 THEN Start ELSE AddFile(f[i - 1], files[i])
           Solves(f, k) == f = [i \in 0..k |-> Step(f, i)]
           n == Len(files)
           T == {k \in 0..n : ~\E f : Solves(f, k)}
<1>1. \E f : Solves(f, 0)
  <2> DEFINE f == [i \in 0..0 |-> Start]
  <2>1. \A i \in 0..0 : i = 0
    OBVIOUS
  <2>2. f = [i \in 0..0 |-> Step(f, i)]
    BY <2>1, Zenon
  <2> QED
    BY <2>2, Zenon
<1>2. ASSUME NEW x \in 1..n, NEW g, Solves(g, x - 1)
      PROVE  \E f : Solves(f, x)
  <2> DEFINE f == [i \in 0..x |-> IF i = x THEN AddFile(g[x - 1], files[x]) ELSE g[i]]
  <2>1. \A i \in 0..x - 1 : f[i] = g[i] /\ g[i] = Step(g, i)
    <3> SUFFICES ASSUME NEW i \in 0..x - 1 PROVE f[i] = g[i] /\ g[i] = Step(g, i)
      BY Zenon
    <3>2. i \in 0..x /\ i # x
      OBVIOUS
    <3>3. g[i] = Step(g, i)
      BY <1>2, Zenon
    <3> QED
      BY <3>2, <3>3, Zenon
  <2>2. \A i \in 0..x : f[i] = Step(f, i)
    <3>1. TAKE i \in 0..x
    <3>2. CASE i = x
      <4>1. x # 0 /\ x - 1 \in 0..x - 1 /\ x \in 0..x
        OBVIOUS
      <4>2. f[x] = AddFile(g[x - 1], files[x]) /\ f[x - 1] = g[x - 1]
        BY <2>1, <4>1, Zenon
      <4> QED
        BY <3>2, <4>1, <4>2, Zenon
    <3>3. CASE i = 0
      <4>1. 0 \in 0..x - 1
        OBVIOUS
      <4> QED
        BY <2>1, <3>3, <4>1, Zenon
    <3>4. CASE i # x /\ i # 0
      <4>1. i \in 0..x - 1 /\ i - 1 \in 0..x - 1
        BY <3>4
      <4>2. f[i] = AddFile(g[i - 1], files[i]) /\ f[i - 1] = g[i - 1]
        BY <2>1, <3>4, <4>1, Zenon
      <4> QED
        BY <3>4, <4>2, Zenon
    <3> QED
      BY <3>2, <3>3, <3>4
  <2>3. f = [i \in 0..x |-> f[i]]
    OBVIOUS
  <2> HIDE DEF f, Step
  <2>4. f = [i \in 0..x |-> Step(f, i)]
    BY <2>2, <2>3, Zenon
  <2> QED
    BY <2>4
<1>3. \E f : Solves(f, n)
  <2> SUFFICES ASSUME n \in T PROVE FALSE
    OBVIOUS
  <2> HIDE DEF Solves
  <2>1. T \in SUBSET (0..n) /\ T # {} /\ 0 \notin T
    BY <1>1
  <2> HIDE DEF T
  <2>2. PICK x \in T : x \in 1..n /\ x - 1 \in 0..n /\ x - 1 \notin T
    BY <2>1, LeastException, Zenon
  <2>3. PICK g : Solves(g, x - 1)
    BY <2>2 DEF T
  <2>4. \E f : Solves(f, x)
    BY <1>2, <2>2, <2>3
  <2> QED
    BY <2>2, <2>4 DEF T
<1>4. AfterFiles(files) = CHOOSE f : Solves(f, n)
  BY Zenon DEF AfterFiles, Start
<1>5. Solves(AfterFiles(files), n)
  <2> HIDE DEF Solves
  <2> QED
    BY <1>3, <1>4, Zenon
<1>6. \A i \in 0..n : AfterFiles(files)[i] = Step(AfterFiles(files), i)
  <2> HIDE DEF Step
  <2> QED
    BY <1>5, Zenon
<1>7. 0 \in 0..n /\ \A i \in 1..n : i \in 0..n /\ i # 0
  OBVIOUS
<1> QED
  BY <1>6, <1>7, Zenon

(* byShard b with the members of one more file.                            *)
Stored(b, file) ==
  [s \in DOMAIN b \cup {ShardOf(file)} |-> IF s = ShardOf(file) THEN file.members ELSE b[s]]

\* What one file does: an outcome other than ok stays, a file that cannot be
\* used sets one, and any other file is stored.
LEMMA AddFileFacts ==
  ASSUME NEW o, NEW b, NEW file
  PROVE  LET r == [outcome |-> o, byShard |-> b] IN
           /\ o # "ok" => AddFile(r, file) = r
           /\ o = "ok" =>
                \/ AddFile(r, file) = [outcome |-> "error", byShard |-> b]
                \/ /\ file.state = "unopenable"
                   /\ AddFile(r, file) = [outcome |-> "nil", byShard |-> b]
                \/ /\ file.number # NoNumber
                   /\ AddFile(r, file) = [outcome |-> "ok", byShard |-> Stored(b, file)]
<1> DEFINE r == [outcome |-> o, byShard |-> b]
<1>1. r.outcome = o /\ r.byShard = b
  OBVIOUS
<1>2. \A v : [r EXCEPT !.outcome = v] = [outcome |-> v, byShard |-> b]
  OBVIOUS
<1>3. \A v : [r EXCEPT !.byShard = v] = [outcome |-> o, byShard |-> v]
  OBVIOUS
<1>4. CASE o # "ok"
  BY <1>1, <1>4 DEF AddFile
<1>5. CASE o = "ok" /\ file.number = NoNumber
  <2>1. AddFile(r, file) = [r EXCEPT !.outcome = "error"]
    BY <1>1, <1>5 DEF AddFile
  <2> QED
    BY <1>2, <1>5, <2>1
<1>6. CASE o = "ok" /\ file.number # NoNumber /\ file.state = "unopenable"
  <2>1. AddFile(r, file) = [r EXCEPT !.outcome = "nil"]
    BY <1>1, <1>6 DEF AddFile
  <2> QED
    BY <1>2, <1>6, <2>1
<1>7. CASE o = "ok" /\ file.number # NoNumber /\ file.state = "unscannable"
  <2>1. AddFile(r, file) = [r EXCEPT !.outcome = "error"]
    BY <1>1, <1>7 DEF AddFile
  <2> QED
    BY <1>2, <1>7, <2>1
<1>8. CASE o = "ok" /\ file.number # NoNumber /\ file.state \notin {"unopenable", "unscannable"}
  <2>1. AddFile(r, file) = [r EXCEPT !.byShard = Stored(b, file)]
    BY <1>1, <1>8 DEF AddFile, Stored
  <2> QED
    BY <1>3, <1>8, <2>1
<1> QED
  BY <1>4, <1>5, <1>6, <1>7, <1>8

(* After the first i files: the result is a record, a file that could not  *)
(* be opened was the cause of a nil, and otherwise each file's shard has   *)
(* the members of the last of them with the same digit.                    *)
Read(files, i) ==
  LET r == AfterFiles(files)[i] IN
    /\ \E o, b : r = [outcome |-> o, byShard |-> b]
    /\ r.outcome \in {"ok", "nil", "error"}
    /\ r.outcome = "nil" => \E j \in 1..i : files[j].state = "unopenable"
    /\ r.outcome = "ok" =>
         /\ DOMAIN r.byShard \subseteq 0..9
         /\ \A j \in 1..i : /\ ShardOf(files[j]) \in DOMAIN r.byShard
                            /\ \E k \in 1..i : /\ ShardOf(files[k]) = ShardOf(files[j])
                                              /\ r.byShard[ShardOf(files[j])] = files[k].members

\* One file more.
LEMMA ReadStep ==
  ASSUME NEW files \in Seq(Files), NEW x \in 1..Len(files), Read(files, x - 1)
  PROVE  Read(files, x)
<1> DEFINE r == AfterFiles(files)[x - 1]
           q == AfterFiles(files)[x]
           file == files[x]
<1>1. Len(files) \in Nat /\ file \in Files
  OBVIOUS
<1>2. q = AddFile(r, file)
  BY <1>1, AfterDefined
<1>3. PICK o, b : r = [outcome |-> o, byShard |-> b]
  BY Zenon DEF Read
<1>4. r.outcome = o /\ r.byShard = b
  BY <1>3
<1>5. /\ o \in {"ok", "nil", "error"}
      /\ o = "nil" => \E j \in 1..x - 1 : files[j].state = "unopenable"
      /\ o = "ok" =>
         /\ DOMAIN b \subseteq 0..9
         /\ \A j \in 1..x - 1 : /\ ShardOf(files[j]) \in DOMAIN b
                              /\ \E k \in 1..x - 1 : /\ ShardOf(files[k]) = ShardOf(files[j])
                                                   /\ b[ShardOf(files[j])] = files[k].members
  BY <1>4 DEF Read
<1> HIDE DEF r, q, file
<1>6. x \in 1..x /\ \A j \in 1..x - 1 : j \in 1..x
  OBVIOUS
<1>7. CASE o # "ok"
  <2>1. q = r
    BY <1>2, <1>3, <1>7, AddFileFacts, Zenon
  <2>2. \A j \in 1..x - 1 : j \in 1..x
    OBVIOUS
  <2> QED
    BY <1>3, <1>4, <1>5, <1>6, <1>7, <2>1, <2>2, Zenon DEF Read, q
<1>8. CASE o = "ok" /\ q = [outcome |-> "error", byShard |-> b]
  <2>1. q.outcome = "error"
    BY <1>8
  <2> QED
    BY <1>8, <2>1, Zenon DEF Read, q
<1>9. CASE o = "ok" /\ file.state = "unopenable" /\ q = [outcome |-> "nil", byShard |-> b]
  <2>1. q.outcome = "nil"
    BY <1>9
  <2> QED
    BY <1>6, <1>9, <2>1, Zenon DEF Read, q, file
<1>10. CASE /\ o = "ok" /\ file.number # NoNumber
            /\ q = [outcome |-> "ok", byShard |-> Stored(b, file)]
  <2> DEFINE c == Stored(b, file)
  <2>1. q.outcome = "ok" /\ q.byShard = c
    BY <1>10
  <2>2. ShardOf(file) \in 0..9
    <3>1. file.number \in Nat
      BY <1>1, <1>10, StartupAssumption, Zenon
    <3> QED
      BY <3>1 DEF ShardOf
  <2>3. /\ DOMAIN c = DOMAIN b \cup {ShardOf(file)} /\ c[ShardOf(file)] = file.members
        /\ \A s \in DOMAIN b : s # ShardOf(file) => c[s] = b[s]
    BY DEF Stored
  <2> HIDE DEF c
  <2>4. DOMAIN c \subseteq 0..9
    BY <1>5, <1>10, <2>2, <2>3
  <2>5. ASSUME NEW j \in 1..x
        PROVE  /\ ShardOf(files[j]) \in DOMAIN c
               /\ \E k \in 1..x : /\ ShardOf(files[k]) = ShardOf(files[j])
                                 /\ c[ShardOf(files[j])] = files[k].members
    <3>1. CASE ShardOf(files[j]) = ShardOf(file)
      BY <1>6, <2>3, <3>1 DEF file
    <3>2. CASE ShardOf(files[j]) # ShardOf(file)
      <4>1. j \in 1..x - 1
        BY <3>2 DEF file
      <4>2. ShardOf(files[j]) \in DOMAIN b
        BY <1>5, <1>10, <4>1
      <4>3. PICK k \in 1..x - 1 : /\ ShardOf(files[k]) = ShardOf(files[j])
                                 /\ b[ShardOf(files[j])] = files[k].members
        BY <1>5, <1>10, <4>1
      <4>4. c[ShardOf(files[j])] = files[k].members /\ k \in 1..x
        BY <1>6, <2>3, <3>2, <4>2, <4>3
      <4> QED
        BY <2>3, <4>2, <4>3, <4>4, Zenon
    <3> QED
      BY <3>1, <3>2
  <2> QED
    BY <1>10, <2>1, <2>4, <2>5, Zenon DEF Read, q
<1>11. o = "ok" =>
         \/ q = [outcome |-> "error", byShard |-> b]
         \/ file.state = "unopenable" /\ q = [outcome |-> "nil", byShard |-> b]
         \/ file.number # NoNumber /\ q = [outcome |-> "ok", byShard |-> Stored(b, file)]
  BY <1>2, <1>3, AddFileFacts
<1> QED
  BY <1>7, <1>8, <1>9, <1>10, <1>11, Zenon

\* All the files.
LEMMA ReadAll ==
  ASSUME NEW files \in Seq(Files)
  PROVE  Read(files, Len(files))
<1> DEFINE n == Len(files)
           T == {i \in 0..n : ~Read(files, i)}
<1>1. n \in Nat
  OBVIOUS
<1>2. Read(files, 0)
  <2>1. AfterFiles(files)[0] = Start
    BY <1>1, AfterDefined
  <2>2. Start.outcome = "ok" /\ Start.byShard = <<>> /\ DOMAIN <<>> = {} /\ 1..0 = {}
    BY EmptyTuple DEF Start
  <2>3. \E o, b : Start = [outcome |-> o, byShard |-> b]
    BY Zenon DEF Start
  <2> QED
    BY <2>1, <2>2, <2>3, Zenon DEF Read
<1> SUFFICES ASSUME n \in T PROVE FALSE
  BY <1>1
<1>3. T \in SUBSET (0..n) /\ T # {} /\ 0 \notin T
  BY <1>2
<1> HIDE DEF T, n
<1>4. PICK x \in T : x \in 1..n /\ x - 1 \in 0..n /\ x - 1 \notin T
  BY <1>1, <1>3, LeastException, Zenon
<1>5. Read(files, x - 1)
  BY <1>4 DEF T
<1>6. Read(files, x)
  BY <1>4, <1>5, ReadStep DEF n
<1> QED
  BY <1>4, <1>6 DEF T

(* What a configuration y must be for the members b to be accepted.        *)
Accepted(y, b) ==
  /\ \E s \in DOMAIN b : b[s] # <<>>
  /\ \A s, t \in DOMAIN b : \A i \in DOMAIN b[s], j \in DOMAIN b[t] :
       b[s][i] = b[t][j] => s = t /\ i = j
  /\ \A f \in FilesOf(y) :
       \/ f.number % 10 \in DOMAIN b /\ b[f.number % 10] = f.members
       \/ \E g \in FilesOf(y) : g # f /\ g.number % 10 = f.number % 10

\* What newInstructions returns.
LEMMA InstructionsFacts ==
  ASSUME NEW y \in Yamls
  PROVE  LET r == NewInstructions(y) IN
           /\ r.outcome \in {"ok", "nil", "error"}
           /\ r.outcome = "nil" => \E f \in FilesOf(y) : f.state = "unopenable"
           /\ r.outcome = "ok" => DOMAIN r.byShard \subseteq 0..9 /\ Accepted(y, r.byShard)
<1> DEFINE files == y.files
           n == Len(files)
           read == AfterFiles(files)[n]
           error == [outcome |-> "error", byShard |-> <<>>]
           r == NewInstructions(y)
<1>1. files \in Seq(Files) /\ n \in Nat /\ DOMAIN files = 1..n
  <2>1. files \in UNION {[1..m -> Files] : m \in 0..MaxFiles}
    BY DEF Yamls
  <2>2. PICK m \in 0..MaxFiles : files \in [1..m -> Files]
    BY <2>1
  <2> QED
    BY <2>2, StartupAssumption
<1>2. \/ r = error
      \/ r = read /\ read.outcome # "ok"
      \/ r = read /\ Listed(read.byShard) # {} /\ ~Duplicates(read.byShard)
  BY DEF NewInstructions
<1>3. Read(files, n)
  BY <1>1, ReadAll
<1>4. error.outcome = "error"
  OBVIOUS
<1>5. /\ read.outcome \in {"ok", "nil", "error"}
      /\ read.outcome = "nil" => \E j \in 1..n : files[j].state = "unopenable"
      /\ read.outcome = "ok" =>
           /\ DOMAIN read.byShard \subseteq 0..9
           /\ \A j \in 1..n : /\ ShardOf(files[j]) \in DOMAIN read.byShard
                              /\ \E k \in 1..n : /\ ShardOf(files[k]) = ShardOf(files[j])
                                                /\ read.byShard[ShardOf(files[j])] = files[k].members
  BY <1>3 DEF Read
<1>6. FilesOf(y) = {files[j] : j \in 1..n}
  BY <1>1 DEF FilesOf
<1> HIDE DEF read, error, r, n, files
<1>7. CASE r = error
  BY <1>4, <1>7 DEF r
<1>8. CASE r = read /\ read.outcome # "ok"
  <2>1. read.outcome = "nil" => \E f \in FilesOf(y) : f.state = "unopenable"
    BY <1>5, <1>6
  <2>2. read.outcome \in {"ok", "nil", "error"}
    BY <1>5, Zenon
  <2> QED
    BY <1>8, <2>1, <2>2 DEF r
<1>9. CASE r = read /\ Listed(read.byShard) # {} /\ ~Duplicates(read.byShard) /\ read.outcome = "ok"
  <2> DEFINE b == read.byShard
  <2> HIDE DEF b
  <2>1. \E s \in DOMAIN b : b[s] # <<>>
    <3>1. PICK s \in DOMAIN b : {s} \X DOMAIN b[s] # {}
      BY <1>9 DEF Listed, b
    <3>2. DOMAIN b[s] # {}
      BY <3>1
    <3> QED
      BY <3>2, EmptyTuple
  <2>2. \A s, t \in DOMAIN b : \A i \in DOMAIN b[s], j \in DOMAIN b[t] :
          b[s][i] = b[t][j] => s = t /\ i = j
    <3> SUFFICES ASSUME NEW s \in DOMAIN b, NEW t \in DOMAIN b,
                        NEW i \in DOMAIN b[s], NEW j \in DOMAIN b[t], b[s][i] = b[t][j]
                 PROVE  s = t /\ i = j
      OBVIOUS
    <3>1. <<s, i>> \in Listed(b) /\ <<t, j>> \in Listed(b)
      BY DEF Listed
    <3>2. <<s, i>>[1] = s /\ <<s, i>>[2] = i /\ <<t, j>>[1] = t /\ <<t, j>>[2] = j
      OBVIOUS
    <3>3. <<s, i>> = <<t, j>>
      BY <1>9, <3>1, <3>2, Zenon DEF Duplicates, b
    <3> QED
      BY <3>2, <3>3, Zenon
  <2>3. ASSUME NEW f \in FilesOf(y)
        PROVE  \/ f.number % 10 \in DOMAIN b /\ b[f.number % 10] = f.members
               \/ \E g \in FilesOf(y) : g # f /\ g.number % 10 = f.number % 10
    <3>1. PICK j \in 1..n : f = files[j]
      BY <1>6
    <3>2. PICK k \in 1..n : /\ files[k].number % 10 = f.number % 10
                             /\ b[f.number % 10] = files[k].members
      BY <1>5, <1>9, <3>1 DEF ShardOf, b
    <3>3. f.number % 10 \in DOMAIN b
      BY <1>5, <1>9, <3>1 DEF ShardOf, b
    <3>4. files[k] \in FilesOf(y)
      BY <1>6
    <3> QED
      BY <3>2, <3>3, <3>4, Zenon
  <2>4. Accepted(y, b)
    BY <2>1, <2>2, <2>3, Zenon DEF Accepted
  <2>5. DOMAIN b \subseteq 0..9
    BY <1>5, <1>9, Zenon DEF b
  <2> QED
    BY <1>9, <2>4, <2>5 DEF r, b
<1> QED
  BY <1>2, <1>5, <1>7, <1>8, <1>9, Zenon

-----------------------------------------------------------------------------
(* The process, from the command line to its end.                          *)

(* The instructions are those of the configuration file, and until main    *)
(* takes it the channel interrupt holds the first signal.                  *)
ConfigSound ==
  /\ main = "run" => /\ NewInstructions(yaml).outcome = "ok"
                     /\ instr = NewInstructions(yaml).byShard
  /\ exit = "panic" => NewInstructions(yaml).outcome = "nil"

SignalSound ==
  /\ main \in {"shell", "init", "run"} => firstSignal = "none"
  /\ main # "ended" => signals = IF firstSignal = "none" THEN <<>> ELSE <<firstSignal>>
  /\ FirstSignalDecides

StartupInv == StartupTypeOK /\ ConfigSound /\ SignalSound

\* preRunInit ends the process or accepts what newInstructions returns.
LEMMA PreRunInv ==
  ASSUME StartupInv, NEW ok \in BOOLEAN, PreRunInit(ok)
  PROVE  StartupInv'
<1> DEFINE r == NewInstructions(yaml)
<1>1. /\ main = "init"
      /\ \/ main' = "ended" /\ exit' = "error" /\ UNCHANGED instr
         \/ main' = "ended" /\ exit' = "panic" /\ UNCHANGED instr /\ r.outcome = "nil"
         \/ /\ main' = "run" /\ instr' = r.byShard /\ UNCHANGED exit
            /\ r.outcome # "error" /\ r.outcome # "nil"
      /\ UNCHANGED <<command, yaml, signals, firstSignal, http, accept, held>>
  BY DEF PreRunInit, End
<1>2. yaml \in Yamls /\ exit = "none"
  BY <1>1 DEF StartupInv, StartupTypeOK
<1>3. r.outcome \in {"ok", "nil", "error"} /\ (r.outcome = "ok" => DOMAIN r.byShard \subseteq 0..9)
  BY <1>2, InstructionsFacts
<1>4. NewInstructions(yaml)' = r
  BY <1>1
<1> HIDE DEF r
<1>5. StartupTypeOK'
  BY <1>1, <1>2, <1>3 DEF StartupInv, StartupTypeOK
<1>6. ConfigSound'
  BY <1>1, <1>2, <1>3, <1>4 DEF ConfigSound, r
<1>7. SignalSound'
  BY <1>1, <1>2 DEF StartupInv, SignalSound, FirstSignalDecides
<1> QED
  BY <1>5, <1>6, <1>7 DEF StartupInv

\* The empty configuration.
LEMMA NoYamlTyped == NoYaml \in Yamls
<1>1. <<>> \in [1..0 -> Files] /\ 0 \in 0..MaxFiles
  BY StartupAssumption
<1>2. <<>> \in UNION {[1..n -> Files] : n \in 0..MaxFiles}
  BY <1>1
<1>3. [f \in Fields |-> 0] \in [Fields -> {-1, 0, 1}]
  OBVIOUS
<1> QED
  BY <1>2, <1>3, Zenon DEF NoYaml, Yamls

\* Every step of the process keeps StartupInv.
LEMMA StartupStep ==
  ASSUME StartupInv, StartupNext
  PROVE  StartupInv'
<1> USE DEF StartupInv
<1>1. CASE AcceptConn
  BY <1>1 DEF AcceptConn, StartupTypeOK, ConfigSound, SignalSound, FirstSignalDecides
<1>2. CASE HoldConn
  <2>1. held' \in 0..Capacity
    BY <1>2, StartupAssumption DEF HoldConn, StartupTypeOK
  <2> QED
    BY <1>2, <2>1 DEF HoldConn, StartupTypeOK, ConfigSound, SignalSound, FirstSignalDecides
<1>3. CASE Stop
  <2>1. /\ main = "wait" /\ signals # <<>> /\ main' = "ended"
        /\ exit' = (IF Head(signals) = "interrupt" THEN "interrupted" ELSE "killed")
        /\ signals' = Tail(signals)
        /\ UNCHANGED <<command, yaml, instr, firstSignal, http, accept, held>>
    BY <1>3 DEF Stop, End
  <2>2. signals = <<firstSignal>> /\ firstSignal \in Signals
    BY <2>1 DEF SignalSound, StartupTypeOK
  <2>3. Head(signals) = firstSignal /\ signals' = <<>>
    BY <2>1, <2>2
  <2>4. <<>> \in Seq(Signals) /\ Len(<<>>) = 0
    OBVIOUS
  <2>5. exit' = (IF firstSignal = "interrupt" THEN "interrupted" ELSE "killed")
    BY <2>1, <2>3
  <2>6. StartupTypeOK'
    BY <2>1, <2>3, <2>4, <2>5 DEF StartupTypeOK
  <2>7. SignalSound' /\ ConfigSound'
    BY <2>1, <2>5 DEF SignalSound, ConfigSound, FirstSignalDecides
  <2> QED
    BY <2>6, <2>7
<1>4. ASSUME main = "shell", NEW c \in Commands, NEW y \in Yamls, Invoke(c, y)
      PROVE  StartupInv'
  BY <1>4 DEF Invoke, StartupTypeOK, ConfigSound, SignalSound, FirstSignalDecides
<1>5. ASSUME NEW ok \in BOOLEAN, PreRunInit(ok) PROVE StartupInv'
  BY <1>5, PreRunInv
<1>6. ASSUME NEW ok \in BOOLEAN, Service(ok) PROVE StartupInv'
  BY <1>6 DEF Service, End, StartupTypeOK, ConfigSound, SignalSound, FirstSignalDecides
<1>7. ASSUME NEW ok \in BOOLEAN, Listen(ok) PROVE StartupInv'
  <2>1. /\ main = "run" /\ yaml' = NoYaml /\ instr' = <<>>
        /\ \/ main' = "wait" /\ http' = "starting" /\ accept' = "accept" /\ UNCHANGED exit
           \/ main' = "ended" /\ exit' = "error" /\ UNCHANGED <<http, accept>>
        /\ UNCHANGED <<command, signals, firstSignal, held>>
    BY <1>7 DEF Listen, End
  <2>2. DOMAIN <<>> = {}
    BY EmptyTuple
  <2>3. StartupTypeOK'
    BY <2>1, <2>2, NoYamlTyped DEF StartupTypeOK
  <2>4. exit = "none"
    BY <2>1 DEF StartupTypeOK
  <2>5. ConfigSound' /\ SignalSound'
    BY <2>1, <2>4 DEF ConfigSound, SignalSound, FirstSignalDecides
  <2> QED
    BY <2>3, <2>5
<1>8. ASSUME NEW ok \in BOOLEAN, Serve(ok) PROVE StartupInv'
  BY <1>8 DEF Serve, StartupTypeOK, ConfigSound, SignalSound, FirstSignalDecides
<1>9. ASSUME NEW s \in Signals, Signal(s) PROVE StartupInv'
  <2>1. UNCHANGED <<command, yaml, instr, http, accept, held>> /\ exit = "none"
    BY <1>9 DEF Signal, StartupTypeOK
  <2>2. CASE main = "wait"
    <3>1. /\ signals' = (IF signals = <<>> THEN <<s>> ELSE signals)
          /\ firstSignal' = (IF firstSignal = "none" THEN s ELSE firstSignal)
          /\ UNCHANGED <<main, exit>>
      BY <1>9, <2>2 DEF Signal
    <3>2. <<s>> \in Seq(Signals) /\ Len(<<s>>) = 1 /\ s # "none"
      BY DEF Signals
    <3>3. signals = (IF firstSignal = "none" THEN <<>> ELSE <<firstSignal>>)
      BY <2>2 DEF SignalSound
    <3>4. <<firstSignal>> # <<>>
      OBVIOUS
    <3>5. signals' = <<firstSignal'>> /\ firstSignal' # "none"
      BY <3>1, <3>2, <3>3, <3>4
    <3>6. StartupTypeOK'
      BY <2>1, <3>1, <3>2 DEF StartupTypeOK
    <3>7. ConfigSound' /\ SignalSound'
      BY <2>1, <2>2, <3>1, <3>5 DEF ConfigSound, SignalSound, FirstSignalDecides
    <3> QED
      BY <3>6, <3>7
  <2>3. CASE main # "wait"
    <3>1. main' = "ended" /\ exit' = "default" /\ UNCHANGED <<signals, firstSignal>>
      BY <1>9, <2>3 DEF Signal, End
    <3> QED
      BY <2>1, <3>1 DEF StartupTypeOK, ConfigSound, SignalSound, FirstSignalDecides
  <2> QED
    BY <2>2, <2>3
<1> QED
  BY <1>1, <1>2, <1>3, <1>4, <1>5, <1>6, <1>7, <1>8, <1>9, Zenon DEF StartupNext

\* The shell has started nothing yet.
LEMMA StartupInitial ==
  ASSUME StartupInit
  PROVE  StartupInv
<1>1. /\ main = "shell" /\ command = "none" /\ exit = "none" /\ yaml = NoYaml /\ instr = <<>>
      /\ signals = <<>> /\ firstSignal = "none"
      /\ http = "off" /\ accept = "off" /\ held = 0
  BY DEF StartupInit
<1>2. /\ DOMAIN <<>> = {} /\ <<>> \in Seq(Signals) /\ Len(<<>>) = 0 /\ 0 \in 0..Capacity
  BY EmptyTuple, StartupAssumption
<1>3. StartupTypeOK
  BY <1>1, <1>2, NoYamlTyped DEF StartupTypeOK
<1>4. ConfigSound /\ SignalSound
  BY <1>1 DEF ConfigSound, SignalSound, FirstSignalDecides
<1> QED
  BY <1>3, <1>4 DEF StartupInv

\* StartupInv holds of every state of the process.
THEOREM StartupInductive == StartupSpec => []StartupInv
<1>1. StartupInit => StartupInv
  BY StartupInitial
<1>2. StartupInv /\ [StartupNext]_startupVars => StartupInv'
  <2>1. CASE StartupNext
    BY <2>1, StartupStep
  <2>2. CASE UNCHANGED startupVars
    BY <2>2 DEF startupVars, StartupInv, StartupTypeOK, ConfigSound, SignalSound,
                FirstSignalDecides
  <2> QED
    BY <2>1, <2>2
<1> QED
  BY <1>1, <1>2, PTL DEF StartupSpec

\* A configuration that newInstructions accepts, of however many machine files,
\* watches somebody and nobody twice, and if its files end with different digits
\* every line of every file, under that digit; the process panics in preRunInit
\* only for a file that cannot be opened.
THEOREM ConfigurationChecked == StartupSpec => [](StartupTypeOK /\ ConfigurationIsChecked)
<1>1. StartupInv => StartupTypeOK /\ ConfigurationIsChecked
  <2> SUFFICES ASSUME StartupInv PROVE ConfigurationIsChecked
    BY DEF StartupInv
  <2>1. yaml \in Yamls
    BY DEF StartupInv, StartupTypeOK
  <2>2. CASE main = "run"
    <3>1. NewInstructions(yaml).outcome = "ok" /\ instr = NewInstructions(yaml).byShard
      BY <2>2 DEF StartupInv, ConfigSound
    <3>2. exit # "panic"
      BY <2>2 DEF StartupInv, StartupTypeOK
    <3>3. Accepted(yaml, instr)
      BY <2>1, <3>1, InstructionsFacts
    <3>4. ASSUME \A f, g \in FilesOf(yaml) : f.number \in 0..9 /\ (f.number = g.number => f = g),
                 NEW f \in FilesOf(yaml)
          PROVE  f.number \in DOMAIN instr /\ instr[f.number] = f.members
      <4>1. \A g \in FilesOf(yaml) : g.number \in 0..9
        BY <3>4, Zenon
      <4>2. \A g \in FilesOf(yaml) : g.number % 10 = g.number
        BY <4>1
      <4>3. \/ f.number % 10 \in DOMAIN instr /\ instr[f.number % 10] = f.members
            \/ \E g \in FilesOf(yaml) : g # f /\ g.number % 10 = f.number % 10
        BY <3>3, <3>4, Zenon DEF Accepted
      <4>4. ~\E g \in FilesOf(yaml) : g # f /\ g.number % 10 = f.number % 10
        <5> SUFFICES ASSUME NEW g \in FilesOf(yaml), g # f, g.number % 10 = f.number % 10
                     PROVE  FALSE
          OBVIOUS
        <5>1. g.number % 10 = g.number /\ f.number % 10 = f.number
          BY <3>4, <4>2, Zenon
        <5>2. g.number = f.number
          BY <5>1
        <5> QED
          BY <3>4, <5>2, Zenon
      <4>5. f.number % 10 = f.number
        BY <3>4, <4>2, Zenon
      <4> QED
        BY <4>3, <4>4, <4>5
    <3> QED
      BY <3>2, <3>3, <3>4, Zenon DEF Accepted, ConfigurationIsChecked
  <2>3. CASE main # "run"
    <3>1. exit = "panic" => NewInstructions(yaml).outcome = "nil"
      BY DEF StartupInv, ConfigSound
    <3>2. exit = "panic" => \E f \in FilesOf(yaml) : f.state = "unopenable"
      BY <2>1, <3>1, InstructionsFacts
    <3> QED
      BY <2>3, <3>2, Zenon DEF ConfigurationIsChecked
  <2> QED
    BY <2>2, <2>3
<1> QED
  BY <1>1, StartupInductive, PTL

\* The error with which monitorNetwork ends names the first signal, however many
\* come and whatever becomes of the two goroutines.
THEOREM FirstSignalNamed == StartupSpec => []FirstSignalDecides
<1>1. StartupInv => FirstSignalDecides
  BY DEF StartupInv, SignalSound
<1> QED
  BY <1>1, StartupInductive, PTL

-----------------------------------------------------------------------------
(* The process.  Its parts share no variables, so what one of them shows   *)
(* of all its behaviours holds in the process, whatever the others do.     *)

Parts == Spec /\ StatelessSpec /\ DownSpec /\ CommitteeSpec /\ StartupSpec

\* A behaviour of the process, from the command line on, is one of each part: to
\* start the monitors later, or to run one at a time, gives none of them a step
\* of its own.
LEMMA ProcessIsItsParts == MCSpec => Parts
<1>1. MCInit => Init /\ StatelessInit /\ DownInit /\ CommitteeInit /\ StartupInit
  BY DEF MCInit
<1>2. [MCNext]_allVars => [Next]_vars
  BY DEF MCNext, allVars
<1>3. [MCNext]_allVars => [StatelessNext]_round
  BY DEF MCNext, allVars
<1>4. [MCNext]_allVars => [DownNext]_downVars
  BY DEF MCNext, allVars
<1>5. [MCNext]_allVars => [CommitteeNext]_committeeVars
  BY DEF MCNext, allVars
<1>6. [MCNext]_allVars => [StartupNext]_startupVars
  BY DEF MCNext, allVars
<1> QED
  BY <1>1, <1>2, <1>3, <1>4, <1>5, <1>6, PTL
     DEF MCSpec, Parts, Spec, StatelessSpec, DownSpec, CommitteeSpec, StartupSpec

\* Every part keeps its types however the steps of the parts alternate.
THEOREM PartsTyped == Parts => []MCTypeOK
<1>1. CrossLinkInv => TypeOK
  BY DEF CrossLinkInv
<1>2. TypeOK /\ DownInv /\ CommitteeInv /\ StartupInv => MCTypeOK
  BY DEF MCTypeOK, DownInv, CommitteeInv, StartupInv
<1> QED
  BY <1>1, <1>2, CrossLinkInductive, DownInductive, CommitteeInductive, StartupInductive, PTL
     DEF Parts

\* So does the process.
THEOREM ProcessTyped == MCSpec => []MCTypeOK
  BY ProcessIsItsParts, PartsTyped, PTL
=============================================================================
