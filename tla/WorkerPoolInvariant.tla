------------------------ MODULE WorkerPoolInvariant -------------------------
(***************************************************************************)
(* The inductive invariant of the worker pool, and the facts its proof is  *)
(* built from, for any number of nodes, workers, loops and RPCs; then one  *)
(* lemma per action: the steps that end a round, the close, the drain and  *)
(* the new channel; the way of a job from the tick to the request, and the *)
(* way back with the reply, Done and the Wait of the loop.                 *)
(***************************************************************************)
EXTENDS WorkerPool, FiniteSetTheorems, TLAPS

Job(n, r) == [address |-> n, rpc |-> r]
Queued == {jobs[i] : i \in DOMAIN jobs}
Active(l) == pc[l] \in {"send", "add", "close", "collect"}

(* A job is in one place: once in the queue or with one worker.            *)
JobsUnique ==
  /\ \A i, j \in DOMAIN jobs : jobs[i] = jobs[j] => i = j
  /\ \A w \in Workers : wjob[w] \notin Queued
  /\ \A v, w \in Workers : wjob[v] = wjob[w] /\ wjob[v] # NoWork => v = w
  /\ \A w \in Workers : wpc[w] = "recv" <=> wjob[w] = NoWork

(* The loop's own bookkeeping.                                             *)
LoopsSound ==
  \A l \in Loops :
    /\ rpc[l] \in RpcsOf(l)
    /\ toSend[l] \subseteq asked[l]
    /\ pc[l] \notin {"send", "add"} => toSend[l] = {}
    /\ ~Active(l) => asked[l] = {}
    /\ pc[l] = "idle" => rpc[l] = Lead[l]

(* Outstanding work belongs to the phase its loop is in.                   *)
PendingOwned ==
  \A r \in Rpcs : \A n \in Pending(r) :
    \E l \in Loops :
      /\ rpc[l] = r
      /\ pc[l] \in {"send", "add"}
      /\ n \in asked[l] \ toSend[l]

(* The reply for n to RPC r has not been sent.                             *)
Undelivered(n, r) ==
  \/ Job(n, r) \in Queued
  \/ \E w \in Workers : wjob[w] = Job(n, r) /\ wpc[w] \in {"request", "reply"}

(* The replies to a phase: one for each job sent that is not undelivered.  *)
DistinctAddresses(s) == \A i, j \in DOMAIN s : s[i].address = s[j].address => i = j

PhaseReplies(l) ==
  /\ DistinctAddresses(channels[rpc[l]])
  /\ \A n \in Nodes :
       n \in Heard(channels[rpc[l]]) <=>
         n \in asked[l] \ toSend[l] /\ ~Undelivered(n, rpc[l])

RepliesSound == \A l \in Loops : Active(l) => PhaseReplies(l)

(* A channel is closed only between its close and its make, and holds      *)
(* replies only while its phase is running.                                *)
LoopChannels(l) ==
  /\ pc[l] \in {"idle", "send", "add", "close"} => ~closed[rpc[l]]
  /\ Active(l) /\ rpc[l] = Lead[l] /\ Follow[l] # NoRpc => ~closed[Follow[l]]
  /\ ~Active(l) /\ rpc[l] = Follow[l] => ~closed[Lead[l]]
  /\ pc[l] = "idle" => \A r \in RpcsOf(l) : ~closed[r]
  /\ \A r \in RpcsOf(l) : ~Active(l) \/ r # rpc[l] => channels[r] = << >>

ChannelsSound == \A l \in Loops : LoopChannels(l)

IInv ==
  /\ TypeOK
  /\ JobsUnique
  /\ LoopsSound
  /\ PendingOwned
  /\ GroupCountsPending
  /\ RepliesSound
  /\ ChannelsSound
  /\ NoChannelPanic
  /\ NoMapRaceAlone

-----------------------------------------------------------------------------
(* Facts about the sequences that model the channels.                      *)

\* The loops of a pool use disjoint sets of RPCs, so an RPC in use names its loop.
LEMMA OwnerUnique ==
  ASSUME LoopsSound, NEW l \in Loops, NEW m \in Loops, rpc[l] = rpc[m]
  PROVE  l = m
  BY PoolAssumption DEF LoopsSound

\* What the assumptions say of the RPCs of one loop.
LEMMA RpcFacts ==
  ASSUME NEW k \in Loops
  PROVE  /\ RpcsOf(k) \subseteq Rpcs
         /\ Lead[k] \in RpcsOf(k) /\ Lead[k] # Follow[k]
         /\ Follow[k] # NoRpc => Follow[k] \in RpcsOf(k)
         /\ \A r \in RpcsOf(k) : r = Lead[k] \/ (r = Follow[k] /\ Follow[k] # NoRpc)
  BY PoolAssumption DEF RpcsOf

\* The RPC a loop is using is not one of another loop's.
LEMMA OtherRpcs ==
  ASSUME LoopsSound, NEW l \in Loops, NEW k \in Loops, k # l
  PROVE  rpc[l] \notin RpcsOf(k) /\ Lead[l] \notin RpcsOf(k)
  BY PoolAssumption, RpcFacts DEF LoopsSound

\* What a channel holds once a reply has been sent to it.
LEMMA AppendFacts ==
  ASSUME NEW s \in Seq(Reply), NEW e \in Reply
  PROVE  /\ DOMAIN s = 1..Len(s)
         /\ DOMAIN Append(s, e) = 1..(Len(s) + 1)
         /\ Len(s) \in Nat
         /\ \A i \in 1..Len(s) : Append(s, e)[i] = s[i]
         /\ Append(s, e)[Len(s) + 1] = e
<1>1. /\ Append(s, e) \in Seq(Reply)
      /\ Len(Append(s, e)) = Len(s) + 1
      /\ \A i \in 1..Len(s) : Append(s, e)[i] = s[i]
      /\ Append(s, e)[Len(s) + 1] = e
  OBVIOUS
<1>2. /\ DOMAIN s = 1..Len(s)
      /\ DOMAIN Append(s, e) = 1..(Len(s) + 1)
      /\ Len(s) \in Nat
  BY <1>1
<1> QED
  BY <1>1, <1>2

\* A reply appended to a channel adds its address to those heard.
LEMMA HeardAppend ==
  ASSUME NEW s \in Seq(Reply), NEW e \in Reply
  PROVE  Heard(Append(s, e)) = Heard(s) \cup {e.address}
  BY AppendFacts DEF Heard

\* A reply from an address not heard yet keeps the addresses distinct.
LEMMA DistinctAppend ==
  ASSUME NEW s \in Seq(Reply), NEW e \in Reply,
         DistinctAddresses(s), e.address \notin Heard(s)
  PROVE  DistinctAddresses(Append(s, e))
<1> DEFINE t == Append(s, e)
<1>1. /\ DOMAIN s = 1..Len(s)
      /\ DOMAIN t = 1..(Len(s) + 1)
      /\ Len(s) \in Nat
      /\ \A i \in 1..Len(s) : t[i] = s[i]
      /\ t[Len(s) + 1] = e
  BY AppendFacts
<1>2. \A i \in 1..Len(s) : t[i].address # e.address
  BY <1>1 DEF Heard
<1> HIDE DEF t
<1>3. SUFFICES ASSUME NEW i \in 1..(Len(s) + 1), NEW j \in 1..(Len(s) + 1),
                      t[i].address = t[j].address
               PROVE  i = j
  BY <1>1 DEF DistinctAddresses, t
<1>4. CASE i \in 1..Len(s) /\ j \in 1..Len(s)
  BY <1>1, <1>3, <1>4 DEF DistinctAddresses
<1>5. CASE i = Len(s) + 1
  BY <1>1, <1>2, <1>3, <1>5
<1>6. CASE j = Len(s) + 1
  BY <1>1, <1>2, <1>3, <1>6
<1> QED
  BY <1>1, <1>4, <1>5, <1>6

\* The first element of a sequence, and the rest.
LEMMA HeadTailFacts ==
  ASSUME NEW S, NEW s \in Seq(S), s # << >>
  PROVE  /\ Len(s) \in Nat \ {0}
         /\ Head(s) \in S /\ Tail(s) \in Seq(S)
         /\ Len(Tail(s)) = Len(s) - 1
         /\ \A i \in 1..Len(Tail(s)) : Tail(s)[i] = s[i + 1]
<1>1. Len(s) \in Nat \ {0}
  OBVIOUS
<1>2. Head(s) \in S
  BY <1>1
<1>3. Tail(s) \in Seq(S)
  BY <1>1
<1>4. Len(Tail(s)) = Len(s) - 1
  BY <1>1
<1>5. \A i \in 1..Len(Tail(s)) : Tail(s)[i] = s[i + 1]
  BY <1>1, <1>4
<1> QED
  BY <1>1, <1>2, <1>3, <1>4, <1>5

\* What is in the queue is work.
LEMMA QueuedWork ==
  ASSUME jobs \in Seq(Work)
  PROVE  Queued \subseteq Work
<1>1. \A i \in DOMAIN jobs : jobs[i] \in Work
  OBVIOUS
<1> QED
  BY <1>1 DEF Queued

\* An empty channel has heard from nobody.
LEMMA HeardEmpty == Heard(<< >>) = {}
  BY DEF Heard

\* An interval from one has as many elements as its bound.
LEMMA IntervalCount ==
  ASSUME NEW k \in Nat
  PROVE  IsFiniteSet(1..k) /\ Cardinality(1..k) = k
<1>1. /\ IsFiniteSet(1..k)
      /\ Cardinality(1..k) = IF 1 > k THEN 0 ELSE k - 1 + 1
  BY FS_Interval
<1> QED
  BY <1>1

\* With distinct addresses, a channel holds as many replies as nodes heard.
LEMMA LenHeard ==
  ASSUME NEW s \in Seq(Reply), DistinctAddresses(s)
  PROVE  /\ IsFiniteSet(Heard(s))
         /\ Heard(s) \subseteq Nodes
         /\ Cardinality(Heard(s)) = Len(s)
<1> DEFINE f == [i \in 1..Len(s) |-> s[i].address]
<1>1. /\ DOMAIN s = 1..Len(s)
      /\ Len(s) \in Nat
      /\ \A i \in 1..Len(s) : s[i] \in Reply
  OBVIOUS
<1>2. f \in Bijection(1..Len(s), Heard(s))
  <2>1. f \in [1..Len(s) -> Heard(s)]
    BY <1>1 DEF Heard
  <2>2. \A i, j \in 1..Len(s) : f[i] = f[j] => i = j
    BY <1>1 DEF DistinctAddresses
  <2>3. \A n \in Heard(s) : \E i \in 1..Len(s) : f[i] = n
    BY <1>1 DEF Heard
  <2> QED
    BY <2>1, <2>2, <2>3 DEF Bijection, Injection, Surjection, IsInjective
<1>3. ExistsBijection(1..Len(s), Heard(s))
  BY <1>2 DEF ExistsBijection
<1>4. /\ IsFiniteSet(1..Len(s))
      /\ Cardinality(1..Len(s)) = Len(s)
  BY <1>1, IntervalCount
<1> QED
  BY <1>1, <1>3, <1>4, FS_Bijection DEF Heard, Reply

\* The set of nodes with work outstanding is finite.
LEMMA PendingFinite ==
  ASSUME NEW r
  PROVE  IsFiniteSet(Pending(r)) /\ Pending(r) \subseteq Nodes
  BY PoolAssumption, FS_Subset, Zenon DEF Pending

\* Pending in terms of the set of queued jobs.
LEMMA PendingQueued ==
  ASSUME NEW r
  PROVE  Pending(r) = {n \in Nodes : \/ Job(n, r) \in Queued
                                     \/ \E w \in Workers : wjob[w] = Job(n, r)}
  BY DEF Pending, Queued, Job

\* A step of a loop that touches neither the queue nor the workers changes no
\* fact about outstanding work.
LEMMA WorkFrame ==
  ASSUME UNCHANGED <<jobs, wjob, wpc>>
  PROVE  /\ JobsUnique' <=> JobsUnique
         /\ Queued' = Queued
         /\ \A r : Pending(r)' = Pending(r)
         /\ \A n, r : Undelivered(n, r)' <=> Undelivered(n, r)
  BY DEF JobsUnique, Queued, Pending, Undelivered

\* A step that keeps every sending loop in its phase keeps outstanding work owned.
LEMMA OwnedFrame ==
  ASSUME PendingOwned, UNCHANGED <<jobs, wjob, wpc>>,
         \A k \in Loops : pc[k] \in {"send", "add"} =>
           /\ pc'[k] \in {"send", "add"}
           /\ rpc'[k] = rpc[k] /\ asked'[k] = asked[k] /\ toSend'[k] = toSend[k]
  PROVE  PendingOwned'
<1> SUFFICES ASSUME NEW r \in Rpcs, NEW n \in Pending(r)'
             PROVE  \E l \in Loops : /\ rpc'[l] = r
                                     /\ pc'[l] \in {"send", "add"}
                                     /\ n \in asked'[l] \ toSend'[l]
  BY DEF PendingOwned
<1>1. n \in Pending(r)
  BY WorkFrame
<1>2. PICK l \in Loops : /\ rpc[l] = r
                        /\ pc[l] \in {"send", "add"}
                        /\ n \in asked[l] \ toSend[l]
  BY <1>1 DEF PendingOwned
<1> QED
  BY <1>2

-----------------------------------------------------------------------------
(* One lemma per step: each preserves the inductive invariant.             *)

\* A step that ends the process changes nothing else, and preserves the
\* invariant unless it is a channel fault or a map race in a one-loop pool.
LEMMA ThrowInv ==
  ASSUME IInv, NEW what \in Faults, Throw(what),
         what \notin {"sendOnClosed", "closeOfClosed"},
         what = "concurrentMap" => \E l, m \in Loops : l # m
  PROVE  IInv'
<1> USE DEF Throw, loopVars, workerVars, chanVars
<1>1. TypeOK'
  BY DEF IInv, TypeOK
<1>2. JobsUnique' /\ PendingOwned' /\ RepliesSound'
  BY WorkFrame DEF IInv, PendingOwned, RepliesSound, PhaseReplies, Active
<1>3. LoopsSound' /\ ChannelsSound'
  BY DEF IInv, LoopsSound, ChannelsSound, LoopChannels, Active
<1>4. GroupCountsPending'
  BY WorkFrame DEF IInv, GroupCountsPending, Adding
<1>5. NoChannelPanic' /\ NoMapRaceAlone'
  BY DEF NoChannelPanic, NoMapRaceAlone
<1> QED
  BY <1>1, <1>2, <1>3, <1>4, <1>5 DEF IInv

\* The loop a worker's job belongs to: it is sending or waiting in that phase,
\* its channel is open, and no other loop uses the RPC.
LEMMA WorkerOwner ==
  ASSUME IInv, NEW w \in Workers, wpc[w] # "recv"
  PROVE  \E l \in Loops :
           /\ wjob[w] \in Work
           /\ rpc[l] = wjob[w].rpc
           /\ pc[l] \in {"send", "add"}
           /\ wjob[w].address \in asked[l] \ toSend[l]
           /\ wjob[w].address \in Pending(rpc[l])
           /\ ~closed[rpc[l]]
<1>1. wjob[w] \in Work
  BY DEF IInv, TypeOK, JobsUnique
<1>2. wjob[w] = [address |-> wjob[w].address, rpc |-> wjob[w].rpc]
      /\ wjob[w].address \in Nodes /\ wjob[w].rpc \in Rpcs
  BY <1>1 DEF Work
<1>3. wjob[w].address \in Pending(wjob[w].rpc)
  BY <1>2 DEF Pending
<1> QED
  BY <1>1, <1>2, <1>3 DEF IInv, PendingOwned, ChannelsSound, LoopChannels

-----------------------------------------------------------------------------
(* The end of a round preserves the invariant: closing and draining the   *)
(* channel and replacing it.  One lemma per action.                        *)

\* close(channels[rpc]): the channel is open, so the close does not panic.
LEMMA CloseInv ==
  ASSUME IInv, NEW l \in Loops, Close(l)
  PROVE  IInv'
<1> USE DEF workerVars
<1>0. ~closed[rpc[l]]
  BY DEF Close, IInv, ChannelsSound, LoopChannels
<1>1. CASE MapWrittenBy(Loops \ {l}) /\ Throw("concurrentMap")
  BY <1>1, ThrowInv DEF MapWrittenBy, Faults
<1>2. CASE /\ pc[l] = "close"
           /\ closed' = [closed EXCEPT ![rpc[l]] = TRUE]
           /\ pc' = [pc EXCEPT ![l] = "collect"]
           /\ UNCHANGED <<rpc, asked, toSend, workerVars, jobs, channels, groups, fault>>
  <2> USE <1>2
  <2>1. TypeOK'
    BY DEF IInv, TypeOK
  <2>2. JobsUnique'
    BY WorkFrame DEF IInv
  <2>3. LoopsSound'
    BY DEF IInv, TypeOK, LoopsSound, Active
  <2>4. PendingOwned'
    BY OwnedFrame DEF IInv, TypeOK
  <2>5. GroupCountsPending'
    BY WorkFrame DEF IInv, TypeOK, GroupCountsPending, Adding
  <2>6. RepliesSound'
    BY WorkFrame DEF IInv, TypeOK, RepliesSound, PhaseReplies, Active
  <2>7. ChannelsSound'
    <3> SUFFICES ASSUME NEW k \in Loops
                 PROVE  LoopChannels(k)'
      BY DEF ChannelsSound
    <3>0. LoopChannels(k) /\ rpc[k] \in RpcsOf(k)
      BY DEF IInv, ChannelsSound, LoopsSound
    <3>1. CASE k = l
      BY <3>0, <3>1, RpcFacts DEF IInv, TypeOK, LoopChannels, Active
    <3>2. CASE k # l
      BY <3>0, <3>2, RpcFacts, OtherRpcs DEF IInv, TypeOK, LoopChannels, Active
    <3> QED
      BY <3>1, <3>2
  <2>8. NoChannelPanic' /\ NoMapRaceAlone'
    BY DEF IInv, NoChannelPanic, NoMapRaceAlone
  <2> QED
    BY <2>1, <2>2, <2>3, <2>4, <2>5, <2>6, <2>7, <2>8 DEF IInv
<1> QED
  BY <1>0, <1>1, <1>2 DEF Close

\* The replies without an error come from nodes.
LEMMA AnsweredNodes ==
  ASSUME NEW s \in Seq(Reply)
  PROVE  Answered(s) \subseteq Heard(s) /\ Heard(s) \subseteq Nodes
<1>1. /\ DOMAIN s = 1..Len(s)
      /\ \A i \in 1..Len(s) : s[i] \in Reply
  OBVIOUS
<1>2. Answered(s) \subseteq Heard(s)
  BY DEF Answered, Heard
<1>3. Heard(s) \subseteq Nodes
  BY <1>1 DEF Heard, Reply
<1> QED
  BY <1>2, <1>3

\* Draining the channel ends the phase: the loop goes on with an empty, open
\* channel for the leaders, or to the replacement of its channels.
LEMMA CollectInv ==
  ASSUME IInv, NEW l \in Loops, Collect(l)
  PROVE  IInv'
<1> USE DEF workerVars
<1>1. CASE MapWrittenBy(Loops \ {l}) /\ Throw("concurrentMap")
  BY <1>1, ThrowInv DEF MapWrittenBy, Faults
<1>2. CASE /\ pc[l] = "collect"
           /\ channels' = [channels EXCEPT ![rpc[l]] = << >>]
           /\ AskLeaders(l) \/ EndRound(l)
           /\ UNCHANGED <<workerVars, jobs, closed, groups, fault>>
  <2> USE <1>2
  <2>0. /\ rpc' = [rpc EXCEPT ![l] = rpc'[l]] /\ rpc'[l] \in RpcsOf(l)
        /\ pc' = [pc EXCEPT ![l] = pc'[l]]
        /\ asked' = [asked EXCEPT ![l] = asked'[l]] /\ asked'[l] \subseteq Nodes
        /\ toSend' = [toSend EXCEPT ![l] = toSend'[l]]
        /\ \/ /\ pc'[l] = "send" /\ rpc[l] = Lead[l] /\ rpc'[l] = Follow[l] /\ Follow[l] # NoRpc
              /\ toSend'[l] = asked'[l]
           \/ /\ pc'[l] = "remake" /\ rpc'[l] = Lead[l]
              /\ toSend'[l] = {} /\ asked'[l] = {}
        /\ rpc' \in [Loops -> Rpcs]
        /\ asked' \in [Loops -> SUBSET Nodes]
        /\ toSend' \in [Loops -> SUBSET Nodes]
        /\ pc' \in [Loops -> {"idle", "send", "add", "close", "collect", "remake", "remaking"}]
    <3>1. toSend[l] = {}
      BY DEF IInv, LoopsSound
    <3>2. CASE AskLeaders(l)
      <4>1. channels[rpc[l]] \in Seq(Reply)
        BY DEF IInv, TypeOK
      <4>2. PICK leaders \in SUBSET Answered(channels[rpc[l]]) :
              /\ asked' = [asked EXCEPT ![l] = leaders]
              /\ toSend' = [toSend EXCEPT ![l] = leaders]
        BY <3>2, Zenon DEF AskLeaders
      <4>3. leaders \subseteq Nodes
        BY <4>1, AnsweredNodes
      <4> QED
        BY <3>2, <4>2, <4>3, RpcFacts DEF AskLeaders, IInv, TypeOK
    <3>3. CASE EndRound(l)
      BY <3>1, <3>3, RpcFacts DEF EndRound, IInv, TypeOK
    <3> QED
      BY <3>2, <3>3
  <2>1. TypeOK'
    <3>1. channels' \in [Rpcs -> Seq(Reply)]
      BY DEF IInv, TypeOK
    <3> QED
      BY <2>0, <3>1 DEF IInv, TypeOK
  <2>2. JobsUnique'
    BY WorkFrame DEF IInv
  <2>9. ASSUME NEW k \in Loops, k # l
        PROVE  /\ pc'[k] = pc[k] /\ rpc'[k] = rpc[k]
               /\ asked'[k] = asked[k] /\ toSend'[k] = toSend[k]
    BY <2>0, <2>9 DEF IInv, TypeOK
  <2>3. LoopsSound'
    <3> SUFFICES ASSUME NEW k \in Loops
                 PROVE  /\ rpc'[k] \in RpcsOf(k)
                        /\ toSend'[k] \subseteq asked'[k]
                        /\ pc'[k] \notin {"send", "add"} => toSend'[k] = {}
                        /\ ~Active(k)' => asked'[k] = {}
                        /\ pc'[k] = "idle" => rpc'[k] = Lead[k]
      BY DEF LoopsSound
    <3>1. CASE k = l
      BY <2>0, <3>1 DEF Active
    <3>2. CASE k # l
      BY <2>9, <3>2 DEF IInv, LoopsSound, Active
    <3> QED
      BY <3>1, <3>2
  <2>4. PendingOwned'
    <3>1. \A k \in Loops : pc[k] \in {"send", "add"} => k # l
      OBVIOUS
    <3>2. PendingOwned
      BY DEF IInv
    <3> QED
      BY <2>9, <3>1, <3>2, OwnedFrame
  <2>5. GroupCountsPending'
    <3>1. \A r \in Rpcs : Adding(r)' <=> Adding(r)
      <4>1. pc[l] # "add" /\ pc'[l] # "add"
        BY <2>0
      <4> QED
        BY <2>9, <4>1 DEF Adding
    <3> QED
      BY <3>1, WorkFrame DEF IInv, GroupCountsPending
  <2>6. RepliesSound'
    <3> SUFFICES ASSUME NEW k \in Loops, Active(k)'
                 PROVE  PhaseReplies(k)'
      BY DEF RepliesSound
    <3>1. CASE k = l
      <4>0. Active(l)' /\ rpc'[l] \in RpcsOf(l) /\ RpcsOf(l) \subseteq Rpcs
        BY <2>0, <3>1, RpcFacts
      <4>1. channels'[rpc'[l]] = << >> /\ asked'[l] = toSend'[l]
        <5>1. asked'[l] = toSend'[l]
          BY <2>0, <4>0 DEF Active
        <5>2. channels \in [Rpcs -> Seq(Reply)] /\ LoopChannels(l)
          BY DEF IInv, TypeOK, ChannelsSound
        <5>3. \A r \in RpcsOf(l) : channels'[r] = << >>
          BY <4>0, <5>2 DEF LoopChannels
        <5> QED
          BY <4>0, <5>1, <5>3
      <4> QED
        BY <3>1, <4>1, HeardEmpty DEF PhaseReplies, DistinctAddresses
    <3>2. CASE k # l
      <4>1. Active(k) /\ rpc'[k] = rpc[k] /\ asked'[k] = asked[k] /\ toSend'[k] = toSend[k]
        BY <2>0, <3>2 DEF IInv, TypeOK, Active
      <4>2. channels'[rpc[k]] = channels[rpc[k]]
        BY <3>2, OwnerUnique DEF IInv, TypeOK
      <4> QED
        BY <4>1, <4>2, WorkFrame DEF IInv, RepliesSound, PhaseReplies
    <3> QED
      BY <3>1, <3>2
  <2>7. ChannelsSound'
    <3> SUFFICES ASSUME NEW k \in Loops
                 PROVE  LoopChannels(k)'
      BY DEF ChannelsSound
    <3>0. LoopChannels(k) /\ rpc[k] \in RpcsOf(k)
      BY DEF IInv, ChannelsSound, LoopsSound
    <3>3. /\ channels \in [Rpcs -> Seq(Reply)] /\ closed \in [Rpcs -> BOOLEAN]
          /\ RpcsOf(k) \subseteq Rpcs /\ rpc[l] \in Rpcs
      BY RpcFacts DEF IInv, TypeOK
    <3>1. CASE k = l
      <4>1. /\ rpc'[l] \in RpcsOf(l)
            /\ pc'[l] \in {"send", "remake"}
        BY <2>0
      <4> QED
        BY <2>0, <3>0, <3>1, <3>3, <4>1, RpcFacts DEF LoopChannels, Active
    <3>2. CASE k # l
      <4>1. rpc[l] \notin RpcsOf(k)
        BY <3>2, OtherRpcs DEF IInv
      <4>2. \A r \in RpcsOf(k) : channels'[r] = channels[r] /\ closed'[r] = closed[r]
        BY <3>3, <4>1
      <4> QED
        BY <2>9, <3>0, <3>2, <3>3, <4>2, RpcFacts DEF LoopChannels, Active
    <3> QED
      BY <3>1, <3>2
  <2>8. NoChannelPanic' /\ NoMapRaceAlone'
    BY DEF IInv, NoChannelPanic, NoMapRaceAlone
  <2> QED
    BY <2>1, <2>2, <2>3, <2>4, <2>5, <2>6, <2>7, <2>8 DEF IInv
<1> QED
  BY <1>1, <1>2 DEF Collect

\* Entering the assignment to the map changes nothing else.
LEMMA BeginRemakeInv ==
  ASSUME IInv, NEW l \in Loops, BeginRemake(l)
  PROVE  IInv'
<1> USE DEF workerVars, chanVars
<1>1. CASE MapWrittenBy(Loops \ {l}) /\ Throw("concurrentMap")
  BY <1>1, ThrowInv DEF MapWrittenBy, Faults
<1>2. CASE /\ pc[l] = "remake"
           /\ pc' = [pc EXCEPT ![l] = "remaking"]
           /\ UNCHANGED <<rpc, asked, toSend, workerVars, chanVars, fault>>
  <2> USE <1>2
  <2>1. TypeOK'
    BY DEF IInv, TypeOK
  <2>2. JobsUnique'
    BY WorkFrame DEF IInv
  <2>3. LoopsSound'
    BY DEF IInv, TypeOK, LoopsSound, Active
  <2>4. PendingOwned'
    BY OwnedFrame DEF IInv, TypeOK
  <2>5. GroupCountsPending'
    BY WorkFrame DEF IInv, TypeOK, GroupCountsPending, Adding
  <2>6. RepliesSound'
    BY WorkFrame DEF IInv, TypeOK, RepliesSound, PhaseReplies, Active
  <2>7. ChannelsSound'
    BY DEF IInv, TypeOK, ChannelsSound, LoopChannels, Active
  <2>8. NoChannelPanic' /\ NoMapRaceAlone'
    BY DEF IInv, NoChannelPanic, NoMapRaceAlone
  <2> QED
    BY <2>1, <2>2, <2>3, <2>4, <2>5, <2>6, <2>7, <2>8 DEF IInv
<1> QED
  BY <1>1, <1>2 DEF BeginRemake

\* channels[rpc] = make(...): after the last one every channel of the loop is
\* open and empty for the next tick.
LEMMA EndRemakeInv ==
  ASSUME IInv, NEW l \in Loops, EndRemake(l)
  PROVE  IInv'
<1> USE DEF workerVars
<1>0. /\ pc[l] = "remaking"
      /\ channels' = [channels EXCEPT ![rpc[l]] = << >>]
      /\ closed' = [closed EXCEPT ![rpc[l]] = FALSE]
      /\ rpc' = [rpc EXCEPT ![l] = rpc'[l]] /\ rpc'[l] \in RpcsOf(l)
      /\ pc' = [pc EXCEPT ![l] = pc'[l]]
      /\ \/ /\ pc'[l] = "remake" /\ rpc[l] = Lead[l] /\ rpc'[l] = Follow[l]
         \/ /\ pc'[l] = "idle" /\ rpc'[l] = Lead[l]
            /\ rpc[l] = Follow[l] \/ RpcsOf(l) = {Lead[l]}
      /\ UNCHANGED <<asked, toSend, workerVars, jobs, groups, fault>>
      /\ rpc' \in [Loops -> Rpcs]
      /\ pc' \in [Loops -> {"idle", "send", "add", "close", "collect", "remake", "remaking"}]
  <2>1. CASE /\ rpc[l] = Lead[l]
             /\ Follow[l] # NoRpc
             /\ rpc' = [rpc EXCEPT ![l] = Follow[l]]
             /\ pc' = [pc EXCEPT ![l] = "remake"]
    BY <2>1, RpcFacts DEF EndRemake, IInv, TypeOK
  <2>2. CASE /\ rpc[l] = Follow[l] \/ Follow[l] = NoRpc
             /\ rpc' = [rpc EXCEPT ![l] = Lead[l]]
             /\ pc' = [pc EXCEPT ![l] = "idle"]
    <3>1. rpc[l] = Follow[l] \/ RpcsOf(l) = {Lead[l]}
      BY <2>2, RpcFacts
    <3> QED
      BY <2>2, <3>1, RpcFacts DEF EndRemake, IInv, TypeOK
  <2> QED
    BY <2>1, <2>2 DEF EndRemake
<1>1. TypeOK'
  <2>1. channels' \in [Rpcs -> Seq(Reply)]
    BY <1>0 DEF IInv, TypeOK
  <2> QED
    BY <1>0, <2>1 DEF IInv, TypeOK
<1>2. JobsUnique'
  BY <1>0, WorkFrame DEF IInv
<1>3. LoopsSound'
  BY <1>0, Zenon DEF IInv, TypeOK, LoopsSound, Active
<1>4. PendingOwned'
  BY <1>0, OwnedFrame DEF IInv, TypeOK
<1>5. GroupCountsPending'
  <2>1. \A r \in Rpcs : Adding(r)' <=> Adding(r)
    BY <1>0, Zenon DEF IInv, TypeOK, Adding
  <2> QED
    BY <1>0, <2>1, WorkFrame DEF IInv, GroupCountsPending
<1>6. RepliesSound'
  <2> SUFFICES ASSUME NEW k \in Loops, Active(k)'
               PROVE  PhaseReplies(k)'
    BY DEF RepliesSound
  <2>1. k # l /\ Active(k) /\ rpc'[k] = rpc[k]
    BY <1>0 DEF IInv, TypeOK, Active
  <2>2. channels'[rpc[k]] = channels[rpc[k]]
    BY <1>0, <2>1, OwnerUnique DEF IInv, TypeOK
  <2> QED
    BY <1>0, <2>1, <2>2, WorkFrame DEF IInv, RepliesSound, PhaseReplies
<1>7. ChannelsSound'
  <2> SUFFICES ASSUME NEW k \in Loops
               PROVE  LoopChannels(k)'
    BY DEF ChannelsSound
  <2>0. LoopChannels(k) /\ rpc[k] \in RpcsOf(k)
    BY DEF IInv, ChannelsSound, LoopsSound
  <2>1. CASE k = l
    BY <1>0, <2>0, <2>1, RpcFacts DEF IInv, TypeOK, LoopChannels, Active
  <2>2. CASE k # l
    BY <1>0, <2>0, <2>2, RpcFacts, OtherRpcs DEF IInv, TypeOK, LoopChannels, Active
  <2> QED
    BY <2>1, <2>2
<1>8. NoChannelPanic' /\ NoMapRaceAlone'
  BY <1>0 DEF IInv, NoChannelPanic, NoMapRaceAlone
<1> QED
  BY <1>1, <1>2, <1>3, <1>4, <1>5, <1>6, <1>7, <1>8 DEF IInv

-----------------------------------------------------------------------------
(* The steps of a round.                                                   *)

\* The tick of time.Tick starts a phase with nothing sent and an empty, open
\* channel.
LEMMA TickInv ==
  ASSUME IInv, NEW l \in Loops, Tick(l)
  PROVE  IInv'
<1> USE DEF Tick, workerVars, chanVars
<1>1. TypeOK'
  BY PoolAssumption, Zenon DEF IInv, TypeOK
<1>2. JobsUnique'
  BY WorkFrame DEF IInv
<1>3. LoopsSound'
  BY DEF IInv, TypeOK, LoopsSound, Active
<1>4. PendingOwned'
  BY OwnedFrame DEF IInv, TypeOK
<1>5. GroupCountsPending'
  BY WorkFrame DEF IInv, TypeOK, GroupCountsPending, Adding
<1>6. RepliesSound'
  BY WorkFrame, HeardEmpty DEF IInv, TypeOK, RepliesSound, PhaseReplies, DistinctAddresses,
                                LoopsSound, ChannelsSound, LoopChannels, Active
<1>7. ChannelsSound'
  BY PoolAssumption DEF IInv, TypeOK, ChannelsSound, LoopChannels, LoopsSound, Active, RpcsOf
<1>8. NoChannelPanic' /\ NoMapRaceAlone'
  BY DEF IInv, NoChannelPanic, NoMapRaceAlone
<1> QED
  BY <1>1, <1>2, <1>3, <1>4, <1>5, <1>6, <1>7, <1>8 DEF IInv

\* jobs <- work: the job was not outstanding, is now, and its Add is due.
LEMMA SendInv ==
  ASSUME IInv, NEW l \in Loops, Send(l)
  PROVE  IInv'
<1> DEFINE r == rpc[l]
<1> USE DEF workerVars
<1>1. PICK n \in toSend[l] :
        /\ jobs' = Append(jobs, Job(n, r))
        /\ toSend' = [toSend EXCEPT ![l] = @ \ {n}]
  BY Zenon DEF Send, Job
<1>2. /\ pc[l] = "send"
      /\ pc' = [pc EXCEPT ![l] = "add"]
      /\ UNCHANGED <<rpc, asked, wpc, wjob, woops, channels, closed, groups, fault>>
  BY DEF Send
<1>3. /\ r \in Rpcs /\ n \in Nodes /\ n \in asked[l]
      /\ Job(n, r) \in Work
      /\ Job(n, r) # NoWork
  BY PoolAssumption DEF IInv, TypeOK, LoopsSound, Work, Job
<1>4. n \notin Pending(r)
  BY <1>3, OwnerUnique DEF IInv, PendingOwned
<1>5. /\ jobs' \in Seq(Work)
      /\ DOMAIN jobs' = 1..(Len(jobs) + 1)
      /\ DOMAIN jobs = 1..Len(jobs)
      /\ Len(jobs) \in Nat
      /\ \A i \in 1..Len(jobs) : jobs'[i] = jobs[i]
      /\ jobs'[Len(jobs) + 1] = Job(n, r)
  BY <1>1, <1>3 DEF IInv, TypeOK
<1>6. Queued' = Queued \cup {Job(n, r)}
  BY <1>5 DEF Queued
<1>7. /\ Job(n, r) \notin Queued
      /\ \A w \in Workers : wjob[w] # Job(n, r)
  BY <1>3, <1>4, PendingQueued
<1>8. \A m \in Nodes, q \in Rpcs : Job(m, q) = Job(n, r) <=> m = n /\ q = r
  BY DEF Job
<1>9. \A q \in Rpcs : Pending(q)' = IF q = r THEN Pending(q) \cup {n} ELSE Pending(q)
  <2> TAKE q \in Rpcs
  <2>1. Pending(q)' = {m \in Nodes : \/ Job(m, q) \in Queued'
                                     \/ \E w \in Workers : wjob'[w] = Job(m, q)}
    BY DEF Pending, Queued, Job
  <2> QED
    BY <2>1, <1>2, <1>3, <1>6, <1>8, PendingQueued
<1>10. TypeOK'
  BY <1>1, <1>2, <1>3, <1>5 DEF IInv, TypeOK
<1>11. JobsUnique'
  <2>1. \A i, j \in DOMAIN jobs' : jobs'[i] = jobs'[j] => i = j
    BY <1>5, <1>7 DEF IInv, JobsUnique, Queued
  <2> QED
    BY <2>1, <1>2, <1>6, <1>7 DEF IInv, JobsUnique
<1>12. LoopsSound'
  BY <1>1, <1>2, <1>3 DEF IInv, TypeOK, LoopsSound, Active
<1>13. PendingOwned'
  <2> SUFFICES ASSUME NEW q \in Rpcs, NEW m \in Pending(q)'
               PROVE  \E k \in Loops : /\ rpc'[k] = q
                                       /\ pc'[k] \in {"send", "add"}
                                       /\ m \in asked'[k] \ toSend'[k]
    BY DEF PendingOwned
  <2>1. CASE q = r /\ m = n
    BY <2>1, <1>1, <1>2, <1>3 DEF IInv, TypeOK
  <2>2. CASE m \in Pending(q)
    <3>1. PICK k \in Loops : /\ rpc[k] = q
                             /\ pc[k] \in {"send", "add"}
                             /\ m \in asked[k] \ toSend[k]
      BY <2>2 DEF IInv, PendingOwned
    <3> QED
      BY <3>1, <1>1, <1>2 DEF IInv, TypeOK
  <2> QED
    BY <2>1, <2>2, <1>9
<1>14. GroupCountsPending'
  <2> SUFFICES ASSUME NEW q \in Rpcs
               PROVE  groups'[q] = Cardinality(Pending(q)') - (IF Adding(q)' THEN 1 ELSE 0)
    BY DEF GroupCountsPending
  <2>0. Cardinality(Pending(q)) \in Nat
    BY PendingFinite, FS_CardinalityType
  <2>1. CASE q = r
    <3>1. ~Adding(q) /\ Adding(q)'
      BY <2>1, <1>2, OwnerUnique DEF IInv, TypeOK, Adding
    <3>2. Cardinality(Pending(q)') = Cardinality(Pending(q)) + 1
      BY <2>1, <1>4, <1>9, PendingFinite, FS_AddElement
    <3> QED
      BY <3>1, <3>2, <1>2, <2>0 DEF IInv, GroupCountsPending
  <2>2. CASE q # r
    <3>1. Adding(q)' <=> Adding(q)
      BY <2>2, <1>2 DEF IInv, TypeOK, Adding
    <3> QED
      BY <2>2, <3>1, <1>2, <1>9 DEF IInv, GroupCountsPending
  <2> QED
    BY <2>1, <2>2
<1>15. RepliesSound'
  <2>1. \A m \in Nodes, q \in Rpcs :
          Undelivered(m, q)' <=> Undelivered(m, q) \/ (m = n /\ q = r)
    BY <1>2, <1>6, <1>8 DEF Undelivered
  <2>2. \A k \in Loops : k # l => rpc[k] # r
    BY OwnerUnique DEF IInv
  <2>3. ~Undelivered(n, r) /\ n \notin Heard(channels[r])
    BY <1>2, <1>3, <1>7 DEF Undelivered, IInv, RepliesSound, PhaseReplies, Active
  <2> SUFFICES ASSUME NEW k \in Loops, Active(k)'
               PROVE  PhaseReplies(k)'
    BY DEF RepliesSound
  <2>4. Active(k) /\ rpc[k] \in Rpcs
    BY <1>2 DEF IInv, TypeOK, Active
  <2>5. CASE k = l
    BY <2>1, <2>3, <2>4, <2>5, <1>1, <1>2, <1>3 DEF IInv, TypeOK, RepliesSound, PhaseReplies
  <2>6. CASE k # l
    BY <2>1, <2>2, <2>4, <2>6, <1>1, <1>2 DEF IInv, TypeOK, RepliesSound, PhaseReplies
  <2> QED
    BY <2>5, <2>6
<1>16. ChannelsSound'
  BY <1>2 DEF IInv, TypeOK, ChannelsSound, LoopChannels, Active
<1>17. NoChannelPanic' /\ NoMapRaceAlone'
  BY <1>2 DEF IInv, NoChannelPanic, NoMapRaceAlone
<1> QED
  BY <1>10, <1>11, <1>12, <1>13, <1>14, <1>15, <1>16, <1>17 DEF IInv

\* group.Add(1): the count catches up with the job sent before it.
LEMMA AddInv ==
  ASSUME IInv, NEW l \in Loops, Add(l)
  PROVE  IInv'
<1> USE DEF Add, workerVars
<1>1. TypeOK'
  BY DEF IInv, TypeOK
<1>2. JobsUnique'
  BY WorkFrame DEF IInv
<1>3. LoopsSound'
  BY DEF IInv, TypeOK, LoopsSound, Active
<1>4. PendingOwned'
  BY OwnedFrame DEF IInv, TypeOK
<1>5. GroupCountsPending'
  <2> SUFFICES ASSUME NEW q \in Rpcs
               PROVE  groups'[q] = Cardinality(Pending(q)') - (IF Adding(q)' THEN 1 ELSE 0)
    BY DEF GroupCountsPending
  <2>0. Cardinality(Pending(q)) \in Nat /\ Pending(q)' = Pending(q)
    BY PendingFinite, FS_CardinalityType, WorkFrame
  <2>1. CASE q = rpc[l]
    <3>1. Adding(q) /\ ~Adding(q)'
      BY <2>1, OwnerUnique DEF IInv, TypeOK, Adding
    <3> QED
      BY <2>0, <2>1, <3>1 DEF IInv, TypeOK, GroupCountsPending
  <2>2. CASE q # rpc[l]
    <3>1. Adding(q)' <=> Adding(q)
      BY <2>2 DEF IInv, TypeOK, Adding
    <3> QED
      BY <2>0, <2>2, <3>1 DEF IInv, TypeOK, GroupCountsPending
  <2> QED
    BY <2>1, <2>2
<1>6. RepliesSound'
  BY WorkFrame DEF IInv, TypeOK, RepliesSound, PhaseReplies, Active
<1>7. ChannelsSound'
  BY DEF IInv, TypeOK, ChannelsSound, LoopChannels, Active
<1>8. NoChannelPanic' /\ NoMapRaceAlone'
  BY DEF IInv, NoChannelPanic, NoMapRaceAlone
<1> QED
  BY <1>1, <1>2, <1>3, <1>4, <1>5, <1>6, <1>7, <1>8 DEF IInv

\* What a worker takes is the first of the queue, and nowhere else in it.
LEMMA RecvFacts ==
  ASSUME IInv, NEW w \in Workers, Recv(w)
  PROVE  /\ Head(jobs) \in Work /\ Head(jobs) # NoWork /\ Head(jobs) = jobs[1]
         /\ jobs' \in Seq(Work)
         /\ Len(jobs) \in Nat \ {0}
         /\ DOMAIN jobs = 1..Len(jobs)
         /\ DOMAIN jobs' = 1..(Len(jobs) - 1)
         /\ \A i \in 1..(Len(jobs) - 1) : jobs'[i] = jobs[i + 1]
         /\ Queued = Queued' \cup {Head(jobs)}
         /\ Head(jobs) \notin Queued'
<1> DEFINE j == Head(jobs)
<1>0. jobs # << >> /\ jobs' = Tail(jobs)
  BY DEF Recv
<1>1. /\ j \in Work /\ j # NoWork /\ j = jobs[1]
      /\ jobs' \in Seq(Work)
      /\ Len(jobs) \in Nat \ {0}
      /\ DOMAIN jobs = 1..Len(jobs)
      /\ DOMAIN jobs' = 1..(Len(jobs) - 1)
      /\ \A i \in 1..(Len(jobs) - 1) : jobs'[i] = jobs[i + 1]
  <2>1. jobs \in Seq(Work) /\ Work = [address : Nodes, rpc : Rpcs]
    BY DEF IInv, TypeOK, Work
  <2>2. /\ Head(jobs) \in Work /\ Tail(jobs) \in Seq(Work)
        /\ Len(jobs) \in Nat \ {0}
        /\ Len(Tail(jobs)) = Len(jobs) - 1
        /\ \A i \in 1..Len(Tail(jobs)) : Tail(jobs)[i] = jobs[i + 1]
    BY <1>0, <2>1, HeadTailFacts, Zenon
  <2>3. /\ DOMAIN jobs = 1..Len(jobs)
        /\ DOMAIN Tail(jobs) = 1..Len(Tail(jobs))
    BY <2>1, <2>2
  <2>4. Head(jobs) = jobs[1]
    BY <2>1
  <2> QED
    BY <1>0, <2>1, <2>2, <2>3, <2>4, PoolAssumption
<1>2. Queued = Queued' \cup {j}
  <2>1. \A x \in Queued : x \in Queued' \cup {j}
    <3> SUFFICES ASSUME NEW i \in 1..Len(jobs), i # 1
                 PROVE  jobs[i] \in Queued'
      BY <1>1 DEF Queued
    <3>1. i - 1 \in 1..(Len(jobs) - 1) /\ jobs'[i - 1] = jobs[i]
      BY <1>1
    <3> QED
      BY <1>1, <3>1 DEF Queued
  <2>2. j \in Queued
    BY <1>1 DEF Queued
  <2>3. Queued' \subseteq Queued
    BY <1>1 DEF Queued
  <2> QED
    BY <2>1, <2>2, <2>3
<1>3. j \notin Queued'
  <2>1. \A i, k \in DOMAIN jobs : jobs[i] = jobs[k] => i = k
    BY DEF IInv, JobsUnique
  <2>2. \A i \in 1..(Len(jobs) - 1) : jobs'[i] # j
    BY <1>1, <2>1
  <2> QED
    BY <1>1, <2>2 DEF Queued
<1> QED
  BY <1>1, <1>2, <1>3

\* A worker takes a job: it is outstanding and undelivered as before.
LEMMA RecvInv ==
  ASSUME IInv, NEW w \in Workers, Recv(w)
  PROVE  IInv'
<1> DEFINE j == Head(jobs)
<1> USE DEF loopVars
<1>0. /\ wpc[w] = "recv" /\ jobs # << >>
      /\ wjob' = [wjob EXCEPT ![w] = j]
      /\ jobs' = Tail(jobs)
      /\ wpc' = [wpc EXCEPT ![w] = "request"]
      /\ UNCHANGED <<pc, rpc, asked, toSend, woops, channels, closed, groups, fault>>
  BY DEF Recv
<1>1. /\ j \in Work /\ j # NoWork /\ j = jobs[1]
      /\ jobs' \in Seq(Work)
      /\ Len(jobs) \in Nat \ {0}
      /\ DOMAIN jobs = 1..Len(jobs)
      /\ DOMAIN jobs' = 1..(Len(jobs) - 1)
      /\ \A i \in 1..(Len(jobs) - 1) : jobs'[i] = jobs[i + 1]
  BY RecvFacts
<1>2. Queued = Queued' \cup {j}
  BY RecvFacts
<1>3. j \notin Queued'
  BY RecvFacts
<1>4. TypeOK'
  BY <1>0, <1>1 DEF IInv, TypeOK
<1>5. JobsUnique'
  <2>1. \A i, k \in DOMAIN jobs' : jobs'[i] = jobs'[k] => i = k
    <3> SUFFICES ASSUME NEW i \in 1..(Len(jobs) - 1), NEW k \in 1..(Len(jobs) - 1),
                        jobs'[i] = jobs'[k]
                 PROVE  i = k
      BY <1>1
    <3>1. i + 1 \in DOMAIN jobs /\ k + 1 \in DOMAIN jobs /\ jobs[i + 1] = jobs[k + 1]
      BY <1>1
    <3>2. i + 1 = k + 1
      BY <3>1 DEF IInv, JobsUnique
    <3> QED
      BY <3>2
  <2>2. \A v \in Workers : wjob'[v] \notin Queued'
    BY <1>0, <1>2, <1>3 DEF IInv, TypeOK, JobsUnique
  <2>3. \A u, v \in Workers : wjob'[u] = wjob'[v] /\ wjob'[u] # NoWork => u = v
    BY <1>0, <1>2 DEF IInv, TypeOK, JobsUnique
  <2>4. \A v \in Workers : wpc'[v] = "recv" <=> wjob'[v] = NoWork
    BY <1>0, <1>1 DEF IInv, TypeOK, JobsUnique
  <2> QED
    BY <2>1, <2>2, <2>3, <2>4 DEF JobsUnique
<1>6. wjob[w] = NoWork
  BY <1>0 DEF IInv, JobsUnique
<1>7. \A n, r : n \in Nodes /\ r \in Rpcs => Job(n, r) # NoWork
  BY PoolAssumption DEF Job
<1>8. \A r \in Rpcs : Pending(r)' = Pending(r)
  <2> TAKE r \in Rpcs
  <2>1. Pending(r)' = {n \in Nodes : \/ Job(n, r) \in Queued'
                                     \/ \E v \in Workers : wjob'[v] = Job(n, r)}
    BY DEF Pending, Queued, Job
  <2>2. \A n \in Nodes : (\E v \in Workers : wjob'[v] = Job(n, r)) <=>
                           \/ Job(n, r) = j
                           \/ \E v \in Workers : wjob[v] = Job(n, r)
    BY <1>0, <1>6, <1>7 DEF IInv, TypeOK
  <2> QED
    BY <1>2, <2>1, <2>2, PendingQueued
<1>9. \A n \in Nodes, r \in Rpcs : Undelivered(n, r)' <=> Undelivered(n, r)
  <2> TAKE n \in Nodes, r \in Rpcs
  <2>1. (\E v \in Workers : wjob'[v] = Job(n, r) /\ wpc'[v] \in {"request", "reply"}) <=>
           \/ Job(n, r) = j
           \/ \E v \in Workers : wjob[v] = Job(n, r) /\ wpc[v] \in {"request", "reply"}
    BY <1>0, <1>6, <1>7 DEF IInv, TypeOK
  <2> QED
    BY <1>2, <2>1 DEF Undelivered
<1>10. LoopsSound' /\ ChannelsSound'
  BY <1>0 DEF IInv, LoopsSound, ChannelsSound, LoopChannels, Active
<1>11. PendingOwned'
  <2> SUFFICES ASSUME NEW r \in Rpcs, NEW n \in Pending(r)'
               PROVE  \E l \in Loops : /\ rpc'[l] = r
                                       /\ pc'[l] \in {"send", "add"}
                                       /\ n \in asked'[l] \ toSend'[l]
    BY DEF PendingOwned
  <2>1. n \in Pending(r)
    BY <1>8
  <2>2. PICK l \in Loops : /\ rpc[l] = r
                          /\ pc[l] \in {"send", "add"}
                          /\ n \in asked[l] \ toSend[l]
    BY <2>1 DEF IInv, PendingOwned
  <2> QED
    BY <1>0, <2>2
<1>12. GroupCountsPending'
  BY <1>0, <1>8 DEF IInv, GroupCountsPending, Adding
<1>13. RepliesSound'
  BY <1>0, <1>9 DEF IInv, TypeOK, RepliesSound, PhaseReplies, Active
<1>14. NoChannelPanic' /\ NoMapRaceAlone'
  BY <1>0 DEF IInv, NoChannelPanic, NoMapRaceAlone
<1> QED
  BY <1>4, <1>5, <1>10, <1>11, <1>12, <1>13, <1>14 DEF IInv

\* request() returning moves no job: the reply is still to be sent.
LEMMA RequestInv ==
  ASSUME IInv, NEW w \in Workers, Request(w)
  PROVE  IInv'
<1> USE DEF loopVars, chanVars
<1>0. /\ wpc[w] = "request"
      /\ woops' \in [Workers -> BOOLEAN]
      /\ wpc' = [wpc EXCEPT ![w] = "reply"]
      /\ UNCHANGED <<pc, rpc, asked, toSend, wjob, jobs, channels, closed, groups, fault>>
  BY DEF Request, IInv, TypeOK
<1>1. TypeOK'
  BY <1>0 DEF IInv, TypeOK
<1>2. JobsUnique'
  BY <1>0 DEF IInv, TypeOK, JobsUnique, Queued
<1>3. LoopsSound' /\ ChannelsSound'
  BY <1>0 DEF IInv, LoopsSound, ChannelsSound, LoopChannels, Active
<1>4. \A r \in Rpcs : Pending(r)' = Pending(r)
  BY <1>0 DEF Pending
<1>5. PendingOwned'
  BY <1>0, <1>4 DEF IInv, PendingOwned
<1>6. GroupCountsPending'
  BY <1>0, <1>4 DEF IInv, GroupCountsPending, Adding
<1>7. \A n \in Nodes, r \in Rpcs : Undelivered(n, r)' <=> Undelivered(n, r)
  BY <1>0 DEF IInv, TypeOK, Undelivered, Queued
<1>8. RepliesSound'
  BY <1>0, <1>7 DEF IInv, TypeOK, RepliesSound, PhaseReplies, Active
<1>9. NoChannelPanic' /\ NoMapRaceAlone'
  BY <1>0 DEF IInv, NoChannelPanic, NoMapRaceAlone
<1> QED
  BY <1>1, <1>2, <1>3, <1>5, <1>6, <1>8, <1>9 DEF IInv

-----------------------------------------------------------------------------
(* The way back.                                                           *)


\* channels[j.rpc] <- result: the channel is open, the node had not been heard,
\* and now it has.
LEMMA SendReplyInv ==
  ASSUME IInv, NEW w \in Workers, SendReply(w)
  PROVE  IInv'
<1> DEFINE n == wjob[w].address
           r == wjob[w].rpc
           e == [address |-> n, oops |-> woops[w]]
<1> USE DEF loopVars
<1>0. wpc[w] = "reply"
  BY DEF SendReply
<1>1. PICK l \in Loops : /\ wjob[w] \in Work
                         /\ rpc[l] = r
                         /\ pc[l] \in {"send", "add"}
                         /\ n \in asked[l] \ toSend[l]
                         /\ ~closed[r]
  BY <1>0, WorkerOwner
<1>2. n \in Nodes /\ r \in Rpcs /\ wjob[w] = Job(n, r) /\ e \in Reply
  BY <1>1 DEF Work, Job, Reply, IInv, TypeOK
<1>3. CASE MapWrittenBy(Loops) /\ Throw("concurrentMap")
  <2>1. \E m \in Loops : m # l
    BY <1>1, <1>3 DEF MapWrittenBy
  <2> QED
    BY <1>3, <2>1, ThrowInv DEF Faults
<1>4. CASE /\ channels' = [channels EXCEPT ![r] = Append(@, e)]
           /\ wpc' = [wpc EXCEPT ![w] = "done"]
           /\ UNCHANGED <<loopVars, wjob, woops, jobs, closed, groups, fault>>
  <2> USE <1>4
  <2>1. /\ channels[r] \in Seq(Reply)
        /\ channels'[r] = Append(channels[r], e)
        /\ \A q \in Rpcs : q # r => channels'[q] = channels[q]
    BY <1>2 DEF IInv, TypeOK
  <2>2. TypeOK'
    <3>1. Append(channels[r], e) \in Seq(Reply) /\ channels \in [Rpcs -> Seq(Reply)]
      BY <1>2, <2>1 DEF IInv, TypeOK
    <3>2. channels' \in [Rpcs -> Seq(Reply)]
      BY <3>1
    <3>3. wpc' \in [Workers -> {"recv", "request", "reply", "done"}]
      BY DEF IInv, TypeOK
    <3> QED
      BY <3>2, <3>3 DEF IInv, TypeOK
  <2>3. JobsUnique'
    <3>1. Queued' = Queued /\ UNCHANGED <<jobs, wjob>>
      BY DEF Queued
    <3>2. \A v \in Workers : wpc'[v] = "recv" <=> wpc[v] = "recv"
      BY <1>0 DEF IInv, TypeOK
    <3> QED
      BY <3>1, <3>2, Zenon DEF IInv, JobsUnique
  <2>4. LoopsSound'
    BY DEF IInv, LoopsSound, Active
  <2>5. \A q \in Rpcs : Pending(q)' = Pending(q)
    BY DEF Pending
  <2>6. PendingOwned'
    BY <2>5 DEF IInv, PendingOwned
  <2>7. GroupCountsPending'
    BY <2>5 DEF IInv, GroupCountsPending, Adding
  <2>8. ChannelsSound'
    <3> SUFFICES ASSUME NEW k \in Loops
                 PROVE  LoopChannels(k)'
      BY DEF ChannelsSound
    <3>1. LoopChannels(k)
      BY DEF IInv, ChannelsSound
    <3>2. CASE k = l
      BY <1>1, <2>1, <3>1, <3>2, RpcFacts DEF LoopChannels, Active
    <3>3. CASE k # l
      <4>1. r \notin RpcsOf(k)
        BY <1>1, <3>3, OtherRpcs DEF IInv
      <4>2. \A q \in RpcsOf(k) : channels'[q] = channels[q]
        BY <2>1, <4>1, RpcFacts
      <4> QED
        BY <3>1, <4>2, Zenon DEF LoopChannels, Active
    <3> QED
      BY <3>2, <3>3
  <2>9. \A m \in Nodes, q \in Rpcs :
          Undelivered(m, q)' <=> Undelivered(m, q) /\ ~(m = n /\ q = r)
    <3> TAKE m \in Nodes, q \in Rpcs
    <3>1. Job(m, q) = Job(n, r) <=> m = n /\ q = r
      BY DEF Job
    <3>2. wjob[w] \notin Queued /\ Queued' = Queued
      BY DEF IInv, JobsUnique, Queued
    <3>3. wjob[w] # NoWork
      BY <1>0 DEF IInv, JobsUnique
    <3>4. \A v \in Workers : v # w => wjob[v] # Job(n, r)
      BY <1>2, <3>3 DEF IInv, JobsUnique
    <3>5. \A v \in Workers : v # w => wpc'[v] = wpc[v]
      BY DEF IInv, TypeOK
    <3>6. wpc'[w] = "done"
      BY DEF IInv, TypeOK
    <3>7. Undelivered(n, r)
      BY <1>0, <1>2 DEF Undelivered
    <3>8. CASE m = n /\ q = r
      BY <1>2, <3>2, <3>4, <3>6, <3>8 DEF Undelivered
    <3>9. CASE ~(m = n /\ q = r)
      BY <1>2, <3>1, <3>2, <3>5, <3>9 DEF Undelivered
    <3> QED
      BY <3>8, <3>9
  <2>10. RepliesSound'
    <3> SUFFICES ASSUME NEW k \in Loops, Active(k)'
                 PROVE  PhaseReplies(k)'
      BY DEF RepliesSound
    <3>1. Active(k) /\ PhaseReplies(k) /\ rpc[k] \in Rpcs
      BY DEF IInv, TypeOK, RepliesSound, Active
    <3>2. CASE k = l
      <4>1. Heard(channels'[r]) = Heard(channels[r]) \cup {n}
        BY <1>2, <2>1, HeardAppend, Zenon
      <4>2. n \notin Heard(channels[r])
        <5>1. Undelivered(n, r)
          BY <1>0, <1>2, Zenon DEF Undelivered
        <5> QED
          BY <1>1, <1>2, <3>1, <3>2, <5>1, Zenon DEF PhaseReplies
      <4>3. DistinctAddresses(channels'[r])
        <5>1. DistinctAddresses(channels[r])
          BY <1>1, <3>1, <3>2 DEF PhaseReplies
        <5>2. e.address = n
          OBVIOUS
        <5> QED
          BY <1>2, <2>1, <4>2, <5>1, <5>2, DistinctAppend
      <4> QED
        BY <1>1, <1>2, <2>9, <3>1, <3>2, <4>1, <4>3, Zenon DEF PhaseReplies
    <3>3. CASE k # l
      <4>1. rpc[k] # r
        BY <1>1, <3>3, OwnerUnique, Zenon DEF IInv
      <4> QED
        BY <2>1, <2>9, <3>1, <4>1 DEF PhaseReplies
    <3> QED
      BY <3>2, <3>3
  <2>11. NoChannelPanic' /\ NoMapRaceAlone'
    BY DEF IInv, NoChannelPanic, NoMapRaceAlone
  <2> QED
    BY <2>2, <2>3, <2>4, <2>6, <2>7, <2>8, <2>10, <2>11 DEF IInv
<1> QED
  BY <1>1, <1>3, <1>4 DEF SendReply

\* groups[j.rpc].Done(): one request fewer is outstanding; its reply is in the
\* channel already.
LEMMA DoneInv ==
  ASSUME IInv, NEW w \in Workers, Done(w)
  PROVE  IInv'
<1> DEFINE n == wjob[w].address
           r == wjob[w].rpc
<1> USE DEF loopVars
<1>0. wpc[w] = "done"
  BY DEF Done
<1>1. PICK l \in Loops : /\ wjob[w] \in Work
                         /\ rpc[l] = r
                         /\ n \in Pending(r)
  BY <1>0, WorkerOwner
<1>2. n \in Nodes /\ r \in Rpcs /\ wjob[w] = Job(n, r) /\ wjob[w] # NoWork
  BY <1>0, <1>1 DEF Work, Job, IInv, JobsUnique
<1>3. CASE Throw("negativeWaitGroup")
  BY <1>3, ThrowInv DEF Faults
<1>4. CASE /\ groups[r] # 0
           /\ groups' = [groups EXCEPT ![r] = @ - 1]
           /\ wpc' = [wpc EXCEPT ![w] = "recv"]
           /\ wjob' = [wjob EXCEPT ![w] = NoWork]
           /\ woops' = [woops EXCEPT ![w] = FALSE]
           /\ UNCHANGED <<loopVars, jobs, channels, closed, fault>>
  <2> USE <1>4
  <2>0. /\ wjob'[w] = NoWork /\ wpc'[w] = "recv"
        /\ \A v \in Workers : v # w => wjob'[v] = wjob[v] /\ wpc'[v] = wpc[v]
        /\ Queued' = Queued
    BY DEF IInv, TypeOK, Queued
  <2>1. TypeOK'
    BY <1>2 DEF IInv, TypeOK
  <2>2. JobsUnique'
    <3>1. NoWork \notin Queued
      <4>1. jobs \in Seq(Work) /\ NoWork \notin Work
        BY PoolAssumption DEF IInv, TypeOK, Work
      <4> QED
        BY <4>1, QueuedWork
    <3> QED
      BY <2>0, <3>1 DEF IInv, JobsUnique
  <2>3. LoopsSound' /\ ChannelsSound'
    BY Zenon DEF IInv, LoopsSound, ChannelsSound, LoopChannels, Active
  <2>4. \A m \in Nodes, q \in Rpcs :
          /\ Job(m, q) # NoWork
          /\ Job(m, q) = wjob[w] <=> m = n /\ q = r
    <3> TAKE m \in Nodes, q \in Rpcs
    <3>1. Job(m, q) \in Work /\ NoWork \notin Work
      BY PoolAssumption, Zenon DEF Job, Work
    <3>2. Job(m, q) = Job(n, r) <=> m = n /\ q = r
      BY DEF Job
    <3> QED
      BY <1>2, <3>1, <3>2
  <2>5. /\ wjob[w] \notin Queued
        /\ \A v \in Workers : v # w => wjob[v] # wjob[w]
    BY <1>2 DEF IInv, JobsUnique
  <2>6. \A q \in Rpcs : Pending(q)' = IF q = r THEN Pending(q) \ {n} ELSE Pending(q)
    <3> TAKE q \in Rpcs
    <3>1. Pending(q)' = {m \in Nodes : \/ Job(m, q) \in Queued'
                                       \/ \E v \in Workers : wjob'[v] = Job(m, q)}
      BY DEF Pending, Queued, Job
    <3>2. \A m \in Nodes : (\E v \in Workers : wjob'[v] = Job(m, q)) <=>
                             /\ Job(m, q) # wjob[w]
                             /\ \E v \in Workers : wjob[v] = Job(m, q)
      BY <2>0, <2>4, <2>5
    <3> QED
      BY <2>0, <2>4, <2>5, <3>1, <3>2, PendingQueued
  <2>7. PendingOwned'
    BY <2>6 DEF IInv, PendingOwned
  <2>8. GroupCountsPending'
    <3> SUFFICES ASSUME NEW q \in Rpcs
                 PROVE  groups'[q] = Cardinality(Pending(q)') - (IF Adding(q)' THEN 1 ELSE 0)
      BY DEF GroupCountsPending
    <3>0. /\ Cardinality(Pending(q)) \in Nat
          /\ groups[q] = Cardinality(Pending(q)) - (IF Adding(q) THEN 1 ELSE 0)
          /\ Adding(q)' <=> Adding(q)
      BY PendingFinite, FS_CardinalityType DEF IInv, GroupCountsPending, Adding
    <3>1. CASE q = r
      <4>1. Cardinality(Pending(q)') = Cardinality(Pending(q)) - 1
        BY <1>1, <2>6, <3>1, PendingFinite, FS_RemoveElement
      <4>2. groups'[q] = groups[q] - 1
        BY <1>2, <3>1 DEF IInv, TypeOK
      <4> QED
        BY <3>0, <4>1, <4>2
    <3>2. CASE q # r
      BY <2>6, <3>0, <3>2 DEF IInv, TypeOK
    <3> QED
      BY <3>1, <3>2
  <2>9. \A m \in Nodes, q \in Rpcs : Undelivered(m, q)' <=> Undelivered(m, q)
    BY <1>0, <2>0 , <2>4 DEF Undelivered
  <2>10. RepliesSound'
    BY <2>9 DEF IInv, TypeOK, RepliesSound, PhaseReplies, Active
  <2>11. NoChannelPanic' /\ NoMapRaceAlone'
    BY DEF IInv, NoChannelPanic, NoMapRaceAlone
  <2> QED
    BY <2>1, <2>2, <2>3, <2>7, <2>8, <2>10, <2>11 DEF IInv
<1> QED
  BY <1>3, <1>4, Zenon DEF Done

\* group.Wait(): when it returns no request of the phase is outstanding.
LEMMA WaitInv ==
  ASSUME IInv, NEW l \in Loops, Wait(l)
  PROVE  IInv'
<1> USE DEF Wait, workerVars, chanVars
<1>0. Pending(rpc[l]) = {}
  <2>1. ~Adding(rpc[l])
    BY OwnerUnique DEF IInv, Adding
  <2>2. Cardinality(Pending(rpc[l])) \in Nat
    BY PendingFinite, FS_CardinalityType
  <2>3. Cardinality(Pending(rpc[l])) = 0
    BY <2>1, <2>2 DEF IInv, TypeOK, GroupCountsPending
  <2> QED
    BY <2>3, PendingFinite, FS_EmptySet
<1>1. TypeOK'
  BY DEF IInv, TypeOK
<1>2. JobsUnique'
  BY WorkFrame DEF IInv
<1>3. LoopsSound'
  BY DEF IInv, TypeOK, LoopsSound, Active
<1>4. PendingOwned'
  <2> SUFFICES ASSUME NEW r \in Rpcs, NEW n \in Pending(r)'
               PROVE  \E k \in Loops : /\ rpc'[k] = r
                                       /\ pc'[k] \in {"send", "add"}
                                       /\ n \in asked'[k] \ toSend'[k]
    BY DEF PendingOwned
  <2>1. n \in Pending(r)
    BY WorkFrame
  <2>2. PICK k \in Loops : /\ rpc[k] = r
                           /\ pc[k] \in {"send", "add"}
                           /\ n \in asked[k] \ toSend[k]
    BY <2>1 DEF IInv, PendingOwned
  <2>3. k # l
    BY <1>0, <2>1, <2>2
  <2> QED
    BY <2>2, <2>3 DEF IInv, TypeOK
<1>5. GroupCountsPending'
  BY WorkFrame DEF IInv, TypeOK, GroupCountsPending, Adding
<1>6. RepliesSound'
  BY WorkFrame DEF IInv, TypeOK, RepliesSound, PhaseReplies, Active
<1>7. ChannelsSound'
  BY DEF IInv, TypeOK, ChannelsSound, LoopChannels, Active
<1>8. NoChannelPanic' /\ NoMapRaceAlone'
  BY DEF IInv, NoChannelPanic, NoMapRaceAlone
<1> QED
  BY <1>1, <1>2, <1>3, <1>4, <1>5, <1>6, <1>7, <1>8 DEF IInv
=============================================================================
