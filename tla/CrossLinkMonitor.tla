-------------------------- MODULE CrossLinkMonitor --------------------------
(***************************************************************************)
(* crossLinkMonitor: is the beacon chain still given cross links for every *)
(* shard?  At a tick it asks the nodes of shard 0 who leads, asks all that *)
(* claim to for the last cross links, and uses the first answer that is    *)
(* not an error.  A link no newer than the recorded one raises the alarm   *)
(* once the record is `warning` seconds old; a newer one is recorded.      *)
(*                                                                         *)
(* Several nodes may claim to lead and some may lag, so the answer that    *)
(* decides may be of any age.  It may also be no list of links: Unmarshal  *)
(* then leaves the list empty.  WorkerPool shows that a round sees one     *)
(* reply for each node it asks; here a round is its tick and its answer.   *)
(***************************************************************************)
EXTENDS Integers

CONSTANTS
  Shards,    \* the shards with cross links
  Interval,  \* seconds between ticks
  Warning,   \* seconds without a newer cross link before the alarm
  MaxTime,   \* bound: seconds modelled
  MaxLink    \* bound: cross links of a shard

ASSUME CrossLinkAssumption ==
  /\ Interval \in Nat \ {0} /\ Warning \in Nat
  /\ MaxTime \in Nat /\ MaxLink \in Nat

VARIABLES
  clock,      \* the time
  tick,       \* the tick waiting in the channel of time.Tick, or NoTick
  link,       \* link[s]: the number of the newest cross link of shard s, 0 before the first
  linkTime,   \* linkTime[s]: when that link was made
  pc,         \* "idle", "poll"
  now,        \* the tick this round started with
  startTime,  \* linkTime when this round started (not in the code)
  startLink,  \* link when this round started (not in the code)
  last,       \* lastProcessed; `seen`, the time of the answer, is not in the code
  links,      \* LastCrossLinks, as a function of the shards listed
  alarms      \* the shards alerted by the last step

chainVars == <<link, linkTime>>
startVars == <<now, startTime, startLink>>
vars == <<clock, tick, link, linkTime, pc, now, startTime, startLink, last, links, alarms>>

NoTick  == -1
NoEntry == [number |-> -1, ts |-> 0, seen |-> 0]
Entry   == [number : 1..MaxLink, ts : 0..MaxTime, seen : 0..MaxTime]

\* The lists of cross links a leader can answer with, with the empty list for a
\* body that is none.
Answers == UNION {[S -> 1..MaxLink] : S \in SUBSET Shards}

TypeOK ==
  /\ clock \in 0..MaxTime
  /\ tick \in {NoTick} \cup 0..clock
  /\ link \in [Shards -> 0..MaxLink]
  /\ linkTime \in [Shards -> 0..clock]
  /\ pc \in {"idle", "poll"}
  /\ now \in {NoTick} \cup 0..clock
  /\ startTime \in [Shards -> 0..clock]
  /\ \A s \in Shards : startLink[s] \in 0..link[s]
  /\ \A s \in Shards : last[s] # NoEntry =>
       /\ last[s] \in Entry
       /\ last[s].number <= link[s] /\ last[s].ts <= now /\ last[s].ts <= last[s].seen
  /\ links \in Answers
  /\ alarms \subseteq Shards

Init ==
  /\ clock = 0 /\ tick = NoTick
  /\ link = [s \in Shards |-> 0] /\ linkTime = [s \in Shards |-> 0]
  /\ pc = "idle" /\ now = NoTick
  /\ startTime = linkTime /\ startLink = link
  /\ last = [s \in Shards |-> NoEntry]
  /\ links = <<>>
  /\ alarms = {}

-----------------------------------------------------------------------------
\* A second passes.  A tick that falls due is dropped if one is waiting.
Second ==
  /\ clock < MaxTime
  /\ clock' = clock + 1
  /\ tick' = IF tick = NoTick /\ clock' % Interval = 0 THEN clock' ELSE tick
  /\ alarms' = {}
  /\ UNCHANGED <<chainVars, pc, startVars, last, links>>

NewLink(s) ==
  /\ link[s] < MaxLink
  /\ link' = [link EXCEPT ![s] = @ + 1]
  /\ linkTime' = [linkTime EXCEPT ![s] = clock]
  /\ alarms' = {}
  /\ UNCHANGED <<clock, tick, pc, startVars, last, links>>

StartRound ==
  /\ pc = "idle" /\ tick # NoTick
  /\ pc' = "poll"
  /\ now' = tick /\ tick' = NoTick
  /\ startTime' = linkTime /\ startLink' = link
  /\ alarms' = {}
  /\ UNCHANGED <<clock, chainVars, last, links>>

\* Any answer counts as stale.
StaleAnyNumber(a, s) == last[s] # NoEntry

\* < in place of <=.
StaleStrict(a, s) == last[s] # NoEntry /\ a[s] < last[s].number

\* The recorded link is not exceeded by answer a.
Stale(a, s) == last[s] # NoEntry /\ a[s] <= last[s].number

\* uint64(elapsedTime.Seconds()) >= warning; a negative time converts to a huge
\* number.
Overdue(s) == now < last[s].ts \/ now - last[s].ts >= Warning

\* The record renewed by every answer.
NextLastAlways(a, s) ==
  IF s \notin DOMAIN a THEN last[s] ELSE [number |-> a[s], ts |-> now, seen |-> clock]

\* The time of the answer in place of the tick.
NextLastClock(a, s) ==
  IF s \notin DOMAIN a \/ Stale(a, s) THEN last[s]
  ELSE [number |-> a[s], ts |-> clock, seen |-> clock]

\* lastProcessed[result.ShardID] after the loop over the answer.
NextLast(a, s) ==
  IF s \notin DOMAIN a \/ Stale(a, s) THEN last[s]
  ELSE [number |-> a[s], ts |-> now, seen |-> clock]

\* The drain of the cross links up to the first answer a that is no error, and
\* the copy to LastCrossLinks.
Decide(a) ==
  /\ pc = "poll"
  /\ \A s \in DOMAIN a : a[s] <= link[s]
  /\ alarms' = {s \in DOMAIN a : Stale(a, s) /\ Overdue(s)}
  /\ last' = [s \in Shards |-> NextLast(a, s)]
  /\ links' = a
  /\ pc' = "idle"
  /\ UNCHANGED <<clock, tick, chainVars, startVars>>

\* No node claims to lead, or no leader answers: LastCrossLinks becomes empty.
NoLeader ==
  /\ pc = "poll"
  /\ links' = <<>>
  /\ alarms' = {}
  /\ pc' = "idle"
  /\ UNCHANGED <<clock, tick, chainVars, startVars, last>>

Next ==
  \/ Second \/ StartRound \/ NoLeader
  \/ \E s \in Shards : NewLink(s)
  \/ \E a \in Answers : Decide(a)

Spec == Init /\ [][Next]_vars

-----------------------------------------------------------------------------
(* Properties.                                                             *)

\* The alarm is right: if the leader that decided knew the newest link the round
\* could ask for, an alarm means that this link was there when the record was
\* made, so that none was added from then until the round began, for the warning
\* time or more by the ticks.  A lagging leader that answered earlier, an empty
\* answer, a silent round or a dropped tick does not cause a false alarm.
CrossLinkAlarmIsRight ==
  [][\A s \in alarms' : links'[s] >= startLink[s] =>
       /\ startTime[s] <= last[s].seen
       /\ now - last[s].ts >= Warning]_vars

\* The alarm is given: when the newest link has been recorded for the warning
\* time, each round decided by an answer that lists the shard alerts, whether the
\* leader that gave it lags or not.
StallIsReported ==
  [][\A s \in Shards :
       pc = "poll" /\ pc' = "idle" /\ s \in DOMAIN links'
         /\ last[s].number = link[s] /\ now - last[s].ts >= Warning => s \in alarms']_vars

\* lastProcessed never goes back to an older link, whatever the leaders say, and
\* its age starts again only with a newer link; what a page shows of a shard was
\* recorded.
RecordOnlyAdvances ==
  [][\A s \in Shards :
       /\ last'[s] # last[s] => last'[s].number > last[s].number /\ last'[s].ts = now
       /\ s \in DOMAIN links' => links'[s] <= last'[s].number]_vars
=============================================================================
