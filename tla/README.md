# A TLA+ model of the Harmony watchdog

The watchdog (`src/blockchain-watchdog`, Go) polls the nodes of a sharded
blockchain over JSON-RPC, raises PagerDuty alerts when a shard, a node or a
cross link falls behind, and serves an HTML/JSON/CSV report. The hard part is
not the arithmetic. It is a dozen goroutines that share channels, wait groups,
maps and one mutex, fed by nodes that are late, silent or wrong.

## Inventory

| part | source | model |
|---|---|---|
| pool: `jobs`, `worker`, reply channels, wait groups; the polling loops | `reporting-server.go` 156-180, 429-439, 463-571, `consensus-monitor.go` 14-48, `cx-monitor.go`, `crosslink-monitor.go` | `WorkerPool`, promise in `PollRound` |
| state under `inUse`: snapshots, saved summary; page, JSON and CSV handlers | `reporting-server.go` 112-154, 182-369, 655-778 | `ReportServer` |
| stuck shards: `consensusMonitor`, `checkShardHeight`, `checkSync` | `consensus-monitor.go` | `ConsensusMonitor` |
| `blockHeaderSummary` | `reporting-server.go` 62-107 | `BlockMax`, `LatestBlock`, `HeaderShards` |
| list of nodes that are down, shared by a manager and `consensusMonitor` | `reporting-server.go` 511-538, `consensus-monitor.go` 53 | `DownList` |
| staking committee | `reporting-server.go` 418-427, 441-461, 525-536, 736-754 | `Committee` |
| beacon sync | `beacon-monitor.go` | `BeaconSync` |
| stale cross links | `crosslink-monitor.go` | `CrossLinkMonitor`, polling in `WorkerPool` |
| pending cross-shard transactions | `cx-monitor.go` | `StatelessMonitors`, polling in `WorkerPool` |
| connectivity | `p2p-monitor.go` | `StatelessMonitors` |
| configuration, command line, signals | `root.go`, `daemon-cmds.go`, `main.go` | `Startup` |
| RPC types, alert texts, PagerDuty call, HTML | `rpc.go`, `alerts.go`, `pager.go`, `html-generators.go` | not modelled: declarations, wording, layout, one external call |
| `node-mock-rpc` | JavaScript test server | not modelled |

How they interact: `startReportingHTTPServer` starts `update`, which starts two
managers on one pool, and `consensusMonitor`, `cxMonitor` and `crossLinkMonitor`
with a pool each. `consensusMonitor` starts a `beaconSyncMonitor` per round, the
metadata manager a `p2pMonitor`, the header manager a `stakingCommitteeUpdate`
per epoch. Each publishes into `monitor` under `inUse`. The HTTP handlers
read from there. `consensusMonitor` starts goroutines that look again at lagging
nodes later.

The hazards of the code, with the line where each bites and the property that
covers it or why none does, are listed in `PROJECT.json`.

## Modules

### WorkerPool

State: the channels (`jobs`, `channels`, `closed`), the wait groups (`groups`),
for each polling loop where it is, which RPC and which addresses
(`pc, rpc, asked, toSend`), for each worker its job (`wpc, wjob, woops`), and
`fault`, what made the Go runtime end the process.

One action per statement that another goroutine can observe. Loop: `Tick`,
`Send` (`jobs <-`), `Add` (a step of its own, because the code calls it after the
send), `Wait`, `Close`, `Collect` (the drain, followed by the second question to
the leaders in the two monitors that have one), `BeginRemake`/`EndRemake` (the
map write, two steps so that others can overlap it). Worker: `Recv`, `Request`,
`SendReply`, `Done`. Panics are outcomes of the statement that panics. A
concurrent map access is fatal only when the runtime notices it, so it is a
nondeterministic outcome.

Abstracted: request bodies and what replies say. A reply is an address and
whether `request` failed. Which answering nodes claim to be leaders is free.
Ticks come at any time when the loop is ready.

### PollRound

What a pool promises: the loop asks a set of nodes, sees exactly one reply for
each, may then ask some of those that answered, and the process may end.
`WorkerPool` implements it under the mapping at the end of that module. The
modules about the monitors rely on it: a round is one reply per node.

### ReportServer

State: the mutex (`lock`), where each publisher and each HTTP request is (`pc`,
`kind`), the published snapshots (`snap`), the entries of the consensus map still
to be written (`toWrite`), the report under construction (`report`), the summary
of the page saved last (`saved`) and `fault`. A snapshot is its round number, the
nodes that answered and those that its Down list names. For the metadata the two
are complements. For the headers `Publish` lets the list name any nodes, no more
of them than did not answer, since `DownList` shows that it has an entry for each
but that entries can be `consensusMonitor`'s. A report is two readings of the
shared state, one for each critical section of `networkSnapshot`.

Each critical section is one action after `Lock`: `Publish`, `Summarise` and
`TakeDown` (the two sections of `networkSnapshot`), `StatusReport`, `Save`,
`HeaderCSV`, `MetadataCSV`. Outside the lock: `FinishRound`, `StartEvaluation`,
`WriteStatus`, `EndEvaluation` (the consensus map, written after it has been
published by reference), `Accept`, `SendPage` (where a page whose template does not
parse, and `/network`, end). `HeaderCSV` is for any shard, as the URL can name any.
The failing type assertion in
`HeaderCSV` leaves the request `"panicked"` with the lock held, since `net/http`
recovers the panic and `Unlock` is not deferred. `SummaryPanics` does the same
for a header whose signature has one to four characters, of which `summaryMaps`
takes the first and last five; `ShortSigs` says whether such headers come.

The epoch test that starts `stakingCommitteeUpdate` inside the header
publisher's critical section is in `Committee`.

### ConsensusMonitor

State: the clock and the one-slot channel of `time.Tick`; the chain (`head`,
`blockTime`) and how far each node is (`height`); the round (`pc, now, replies`,
and `startHead`, a history variable); `lastShardData`, `consensusStatus`, the
sleeping `checkSync` goroutines and the last alert.

`Second`, `NewBlock`, `CatchUp` are the world. `StartRound`, `Reply`, `Evaluate`,
`CheckSync` are the code. An answer is a failure, a header, or the zero header
that `json.Unmarshal` leaves for a body that is not one. Time is in seconds; the
clock starts at `Warning + 1`, so that the zero timestamp is always long ago.
`ElapsedUint` is the elapsed time as a `uint64`, modulo `Modulus`, 64 in the runs and
2^64 in the code: a negative one is huge, and the test before the conversion is
what keeps it from being an alarm. Two `checkSync` goroutines for the same node,
block and second count as one.
There are no forks: a height of a shard is one block.

### BeaconSync

State: the beacon chain and how much of it each node has; the pipeline of
`getBeaconHeaders` (what is still to be fed, the two channels, each worker, the
atomic counter, the map of headers); the sleeping checks; the outcome of the
check that just ended. `Feed` and `Deliver` are rendezvous on an unbuffered
channel. A send on the closed channel would be `panicked`. Subtraction is modulo
`Word`, 8 in the run and 2^64 in the code. Several `beaconSyncMonitor`s can run
at once and share nothing, so there is one at a time; checks of earlier ones
stay. Two checks with the same node and heights count as one.

### CrossLinkMonitor

Ticks as in `ConsensusMonitor`. A round is its tick and the first answer that is
no error (`Decide`), a list of links of any age, possibly empty; or no answer
(`NoLeader`). `last` is `lastProcessed`. `startTime`, `startLink` and `last[s].seen`
are history. `Overdue` keeps the conversion of a negative time to `uint64`.

### StatelessMonitors

`cxMonitor` (`FindLeaders`, `AskPools`) and `p2pMonitor` (`CheckConnectivity`)
remember nothing, so a round is one or two steps on the variable `round` with
arbitrary answers. `Percent` allows for the float64 quotient that falls just
below a whole number. The properties compare with definitions in exact fractions.

### DownList

`m.WorkingBlockHeader.Down` as the slice it is: an array, a length and a
capacity, three words (`slice`), and the array that the manager fills (`list`,
`size`). Neither goroutine is atomic. A statement of the manager is begun by
`Reset` (the empty list, at the first reply) or `DrainFailure` (`append`, with a
new array when the old one is full) and leaves stores to do (`todo`): the words
of the slice and the entry, one `Store` each, in any order. `Load` is one load of
a word by the `append` of `consensus-monitor.go:53`, again in any order, and
`AppendForeign` is its write: in the manager's array if the words it has loaded
say so, elsewhere if not. `PublishDown` is the copy under the lock. Capacities are those of the Go runtime
for an element of 56 bytes: 1, 2, 4, ... 32; past that the runtime rounds up
further than the model, which keeps doubling. An entry is "own", or "foreign" as
soon as one word of it can be `consensusMonitor`'s. `failures` and `contested` (the
entries stored while `consensusMonitor` was between its first load and its write)
are history. Behaviours end at an access outside the array that was loaded
(`outside`).

### Committee

The chain's epoch, `prevEpoch`, the update goroutines in the order they were
started, and `SuperCommittee` as two words written one by one in any order. An
update may fail, get an old committee, or an answer that is none (empty
committee). `ReadDeciders` and `ReadCount` are the unlocked reads of
`statusSnapshot`. `clashed` and `status.disturbed` are history.

### Startup

The command, `preRunInit` with `newInstructions` and `sanityCheck` as operators
(`NewInstructions`; `AfterFiles` applies `AddFile` to the machine files one by one), `monitorNetwork`,
the accept loop, the signals, the exit. A machine file is the number its name
ends with, how opening it goes (it may pass `os.Stat` and not open), its lines.
The numbers of the configuration are represented by one, since the code tests
each for zero and nothing else (a negative number passes). `start` stands for `start`, `stop`, `remove` and
`status`, which differ in the library call only.

## Runs

| run | bounds | result |
|---|---|---|
| `update_pool` | 2 managers, 2 nodes, 2 workers | `TypeOK`, `RoundComplete`, `NoChannelPanic`, `RepliesNeverBlock`, `GroupCountsPending`, `BlockedLoopIsServed`, `PhaseIsBounded`, `RoundsComplete` hold |
| `leader_pool` | 1 loop asking twice, 3 nodes, 2 workers | `NoMapRaceAlone`, `ImplementsPollRound`, `RoundsComplete` hold |
| `consensus_pool_add` | 1 loop asking once, 3 nodes | `ChecksKeepHappening` fails: `Done` before `Add` |
| `update_pool_silent` | as `update_pool`, n2 may stay silent | `RoundsComplete` fails: only the dial is bounded |
| `report_server` | 2 nodes of a shard, 2 concurrent requests, 1 round of each manager, 2 of `consensusMonitor`, short signatures | `TypeOK`, `TornOnlyByNewerRound`, `ReadingsAreOrdered`, `FrozenByPanic`, `EverybodyFinishes` hold |
| `report_server_csv` | same, no short signatures | `LockIsReleased` fails: panic in `produceCSV` |
| `consensus_monitor` | 2 nodes of a shard, 4 seconds, 2 blocks, interval and warning 1, tolerance 0 | `TypeOK`, `NoFalseAlarm`, `StuckIsReported`, `AlarmEndsWithProgress`, `OutOfSyncIsBehind` hold |
| `consensus_monitor_invalid` | 2 nodes of 2 shards, 3 seconds | `InvalidReplyIsNoOp` fails |
| `beacon_sync` | 3 nodes, 2 workers, threshold 1, 3 blocks, 1 call | `TypeOK`, `ClosedAfterLastReply`, `BeaconAlertIsRight`, `SomebodyCanGoOn`, `LaggardIsReported`, `CollectingIsBounded`, `HeadersAreCollected` hold |
| `watchdog` | cross links: 2 shards, 4 seconds, 2 links, interval 1, warning 2; 3 peers; 4 replies; 2 epochs; 2 machine files of 19, channel of 2 connections | `MCTypeOK`, `CrossLinkAlarmIsRight`, `StallIsReported`, `RecordOnlyAdvances`, `PendingIsAttributed`, `ConnectivityWithinOnePoint`, `DownListKeepsFailures`, `SeatsOfOneCommittee`, `ConfigurationIsChecked`, `FirstSignalDecides` hold |
| `shard_files` | as `watchdog` | `TrailingNumberIsShard` fails: the shard is the last character of the name |
| `service_start` | as `watchdog` | `StartReachesTheDaemon` fails: of the service commands only `install` has the flag that names the configuration |

`watchdog` starts with the command line. Once `monitorNetwork` waits, one of the
parts that share no variable (cross links, the two monitors without memory, the
Down list, the committee) goes on; interleaving them would add no behaviour to
any, and their state spaces add up in place of multiplying. Four replies are
enough for an array that is replaced (after 1 and 2 entries), one that is filled
in place (4), and words loaded in one round and used in a later one. Two epochs give three updates, one of which can be slower than both others; three
epochs pass too (5.2 million states, too slow to keep). A channel of two
connections stands for one of 100: what matters is that it fills.
Two machine files meet in each way: distinct, with a common address, with the
same last digit (0 and 10), the first or the second failing.

The pool has no counter, so its runs are exhaustive for their number of nodes,
workers and loops, over any number of rounds. Two nodes and two workers are
enough for a reply to overtake another, for the jobs channel to be full with two
managers, and for one worker to be behind when another finishes the round. In
`ReportServer`, a first round published between two critical sections tears a
report, the managers can be ahead of each other, two nodes are enough for one to
be named in the place of the other, and the second round of `consensusMonitor`
writes a map that handlers can see. Requests are not declared symmetric, as
`EverybodyFinishes` is a liveness property. In `ConsensusMonitor` four
seconds with warning 1 allow an alarm, its end, a dropped tick and a check that
wakes rounds later.

`CHECK_DEADLOCK FALSE` in all runs but those of the pool: rounds, requests, time
or the life of the process are bounded there, so the model stops.

`NoFalseAlarm` assumes one answer as new as the shard was when the round
started. Without it the alarm can be false: the recorded height may go back to
that of a lagging node, whose block is old. The code has no way to know.

What the properties leave open is as much of the result as what they show.
With two managers the map of reply channels is written while it is read, and the
consensus map while a handler iterates; both can end the process, and
`RoundsComplete` and `EverybodyFinishes` excuse that. A header report may name a
node as up and as down, or as neither, since entries of its Down list can be
`consensusMonitor`'s; any entry can, the first included, if it is stored in the
middle of an append of `consensusMonitor`. That append can also pair the length of
one array with another and reach outside it. An update of the committee that is
overtaken by an older one leaves the old committee until the next epoch, and a
page may be saved over a newer one: the code compares neither. After a
panic inside the lock everything stops (`FrozenByPanic`). A configuration with a
list of shard 10 is excused by `ConfigurationIsChecked`, which is about one digit;
`TrailingNumberIsShard` is what the documentation says of it, and fails.

`RoundsComplete` and `HeadersAreCollected` say that something happens. Two safety
properties next to each say why, and can be proved. `BlockedLoopIsServed`: a loop
blocked on the full `jobs` channel or in `Wait` has a worker that can go on, and
in `Wait` a request of its own that is out. `PhaseIsBounded`: `StepsLeft(l)`, the steps that remain
until loop l drains its channel, is at most 6k + 2 for a question to k nodes, is
never increased by what other loops and their requests do, and decreases with
every step of the loop or of a worker with a request of its. `SomebodyCanGoOn` and
`CollectingIsBounded` are the same for `getBeaconHeaders`, with at most three
steps for each node, two for each worker and two more. What is left to the
fairness below is that a goroutine that can run does.

Fairness. Pool: strong fairness for each loop, because a goroutine blocked on a
full channel is queued in arrival order by the Go runtime; weak fairness for
each worker. A request to a node in `HungNodes` need not return, since the HTTP
client has no read timeout. ReportServer: weak fairness for each goroutine, its
`Lock` included. `sync.Mutex` promises more (it hands itself to a waiter that has
starved for a millisecond); with finitely many rounds and requests the lock is
free for good in the end, and less is enough. Requests and rounds need not arrive. BeaconSync: weak
fairness for the workers, the feeder's close and the evaluation; requests return,
calls and sleeping checks need not. The other modules have safety properties only.

## Proofs

Every safety property of every passing run has a theorem, for all values of the
constants that the `ASSUME` of its module allows: finite sets of nodes, any
number of workers, requests, rounds, shards, files and epochs, any interval,
warning time and tolerance. The bounds of the models (`MaxTime`, `MaxHeight`,
`MaxEpoch`...) are constants like the others, so the theorems hold for each.

Of the properties only `ConnectivityWithinOnePoint` is inductive as it stands.
Each component has an invariant that is; TLC has checked it on the instances of the runs, and the proof has one lemma or
one step per action.

**The pool** (`WorkerPoolInvariant`, `WorkerPoolProofs`;
from `PoolAssumption`). The invariant `IInv` follows a job: a pair of an address and an RPC is at most once among the
queue and the hands of the workers (`JobsUnique`); what is outstanding belongs to
the current phase of the loop that owns the RPC (`PendingOwned`); the wait group
counts it, less one during `Add` (`GroupCountsPending`); an address asked is still
to be sent, undelivered, or in the reply channel, never two of these
(`RepliesSound`); and a channel is closed only after `Wait` has seen zero
(`ChannelsSound`). From these, `Wait` returning means every reply is there. The
argument does not need `Add` before `Done`: when `Done` comes first the process
ends. The same invariant gives `Refinement`: each step of the pool is one of
`PollRound` or leaves its variables unchanged.

`NoCircularWait` (`BlockedLoopIsServed`) needs all of it: a full queue has jobs
for the workers that receive, the others never block on a reply channel
(`RoomForReply`), and a wait group that is not zero counts a request that
`PendingOwned` gives to the loop that waits. For `PhasesEnd` (`PhaseIsBounded`) a
job passes four levels: queue, request, reply, `Done`. Each step of a worker closes
one job on one level and touches no other (`WorkerCloses`, by `JobsUnique`), which
takes one from the count of the loop that owns the job and nothing from the others
(`WorkerServes`). A send trades two steps for one, since the `Add` comes next
(`SendServes`). The bound holds during `Add` too, because a loop that is about to
`Add` has a request out (`StepsBound`).

**The report server** (`ReportServerProofs`; from `ServerAssumption`). The lock
and the critical sections agree (`TypeInvariant`), so two processes are never
inside at once. A published snapshot of the metadata splits the nodes in two, and
one of the headers names no more nodes than did not answer (`SnapshotsSound`).
Whatever was read is of an older round than what is published, or is that very
snapshot (`ReadingsPast`), for each of the two managers. A new reading is of what
is published, hence after all others: `ReadingsOrdered`. When the no-reply list is
taken, the summary fits it or is of an older round: `ReportsTornOnlyByNewerRound`.
A handler that panicked counts as inside, so nobody else gets in: `PanicFreezes`.

**Beacon sync** (`BeaconSyncProofs`; from `BeaconAssumption`, in which the
heights stay below the modulus). A worker has a node exactly while it asks or
delivers (`WorkersSound`); workers leave after the feeder has closed its channel,
and the one that closes the second channel is alone (`LeavingSound`, with the
counter of `TypeOK` equal to the number of workers that have not left); no node
is lost in between (`NodesAccounted`). That gives `ChannelClosedAfterLastReply`.
`ChecksSound`, that a check sleeps only for a node that was behind, makes the
unsigned differences the true ones: `AlertsAreRight`, `LaggardsAreReported`.
`NeverStuck`: while a call collects, some goroutine is not blocked; if all workers
wait for the feeder it has a node for them or closes, and when all have left the
last one has closed `data`. `CollectingEnds` writes the count as a weighted sum
over the places of the workers (`AtSum`) and shows that each step lowers it.

**The consensus monitor** (`ConsensusMonitorProofs`; from `ConsensusAssumption`).
Blocks of a shard are dated in order (`TimesInOrder`), ticks too (`TickIsLater`);
a shard reported as stuck has a record that stays too old (`StuckIsOld`); a
sleeping `checkSync` is for a node that was behind a block its shard has, or for
an answer that was none (`ChecksSound`). `AlarmsAreRight`,
`StuckShardsAreReported`, `AlarmsEndWithProgress` and `OutOfSyncAlertsAreRight`
follow with the fact that `BlockMax` is the greatest number among the answers
(`BlockMaxFacts`) and that
an elapsed time above zero survives its conversion to `uint64` (`StuckFacts`); `TypeInvariant` is the part of the invariant that says what is
recorded.

**The Down list** (`DownListProofs`; from `RepliesAssumption`).
The list is as long as the failures of the round are many, and the length in the
slice is behind by the entry under way at most (`Counted`). Once `consensusMonitor`
has loaded the length, every entry past it is contested, and so is the entry under
way while it appends (`Contested`). It writes right after the length it loaded,
hence to a contested entry or to none (`ForeignContested`), whatever array and
capacity it loaded with it. `DownListKept` follows.

**The monitors without memory** (`PartsProofs`; from `MonitorsAssumption`).
`PendingAttributed` needs no invariant over time: a node claims one shard, so the
lookup in the map of leaders finds it. `ConnectivityWithin` compares an average that
is cut off twice with an exact mean. The mean is a sum of shares over the product
of all peer counts. The folds that compute sum and product are shown to be the
recursion over subsets (`FoldExists`, `SumFolds`, `ProductFolds`), by the least
exception among the sizes of the subsets (`LeastSet`). Each factor divides the
product (`ProductDivisible`), each share is within one common denominator of its
percentage (`PercentWithin`), hence the sums within as many as there are terms
(`SumWithin`), and the integer average loses less than one more.

**The staking committee** (`PartsProofs`; from `MaxEpochAssumption`). An update is off until it is started and writes
until nothing is left (`UpdatesSound`). Without a clash the two words are of
one committee, but for the update under way (`Unmixed`). An undisturbed status
report has read of the committee that is still there (`StatusSound`): `SeatsAgree`.

**Cross links, start** (`WatchdogProofs`; from `CrossLinkAssumption`,
`StartupAssumption`). `RecordsDated`: a record that has the newest link was made
when that link was there. `ConfigurationChecked` is about `newInstructions` with any
number of machine files; the process has what it returned (`ConfigSound`), and the
channel `interrupt` holds the first signal until main takes it (`SignalSound`),
hence `FirstSignalNamed`.

**The process** (`WatchdogProofs`). `PartsTyped`: the five specifications together,
which allow every interleaving of the parts, keep all the types. A behaviour of
`MCWatchdog`, which runs one part at a time, is one of each part (the lemma
`ProcessIsItsParts`, by the definition of the composition), hence `ProcessTyped`; the other
theorems about a part hold in the process for the same reason.

Induction over data. The library's induction theorems take an operator and no
installed prover can use them. What is needed here goes through the least
exception: `WFMin` on the order of the naturals gives that a nonempty set of
naturals has a least element (`LeastNatural`), so the function `AfterFiles` exists
(`AfterDefined`), what it says of the first i files holds of all (`ReadAll`), and
a bounded set of naturals has a maximum (`MaxFacts`).

Only model-checked is liveness: `RoundsComplete`, `EverybodyFinishes`,
`HeadersAreCollected` (fairness and ENABLED are outside the prover). That the
predicates `CanGoOn`, `Blocked` and `SomebodyCanGoOn` stand for the actions being
enabled is by their definition next to the guards, for the same reason.

## Not modelled

- `html-generators.go`, `alerts.go`: layout and wording.
- `NoReplySnapshot`: saved with the summary, never read.
- `rpc.go`: types and constant request bodies, represented by what the monitors
  read of an answer.
- `pager.go`: one call of an external service. An alert is an event; that the call
  takes time shows in the models as late and dropped ticks only.
- The columns of the CSV files, the minima, epochs and unique lists of the
  summaries: displayed, never used.
- `version`, `generate-sample`: they print constants. The daemon library and
  `os/signal` are external, as are the Go runtime and the chain.
- `node-mock-rpc`: a test server with canned answers.
- Memory after an access outside an array, torn strings and maps: undefined in Go.

## Plan

Composition: `ConsensusMonitor` over `PollRound` in place of its own replies,
publishing into `ReportServer`.
