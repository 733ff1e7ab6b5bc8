----------------------------- MODULE MCWatchdog -----------------------------
(***************************************************************************)
(* The process from its start, and the parts that share no variable with   *)
(* each other: crossLinkMonitor, the two monitors without memory, the list *)
(* of nodes that are down, the staking committee.  Interleaving them adds  *)
(* no behaviour to any, so at most one of them leaves its initial state,   *)
(* and it does so once monitorNetwork waits for signals.                   *)
(***************************************************************************)
EXTENDS CrossLinkMonitor, StatelessMonitors, DownList, Committee, Startup

CONSTANTS addr1, addr2      \* two addresses

\* No peers known, none reached, ordinary shares, a share that float64 cuts off
\* (29 of 100), one just above the tolerance, less than one percent.
MCLinks == {<<0, 0>>, <<0, 3>>, <<1, 3>>, <<2, 3>>, <<3, 3>>, <<29, 100>>, <<33, 100>>,
            <<67, 200>>, <<1, 200>>}

\* Good lists, with shards that clash in their last digit, and each way to fail.
MCFile(n, state, members) == [number |-> n, state |-> state, members |-> members]
MCFiles ==
  {MCFile(n, "ok", m) : n \in {0, 1, 10}, m \in
       {<<>>, <<addr1>>, <<addr2>>, <<addr1, addr2>>, <<addr1, addr1>>}}
    \cup {MCFile(NoNumber, "ok", <<addr1>>)}
    \cup {MCFile(1, state, <<addr1>>) : state \in {"missing", "unopenable", "unscannable"}}

allVars == <<vars, round, downVars, committeeVars, startupVars>>

MCInit == Init /\ StatelessInit /\ DownInit /\ CommitteeInit /\ StartupInit

Waiting == main = "wait" /\ http = "starting" /\ accept = "accept" /\ held = 0
             /\ signals = <<>>

MCNext ==
  \/ /\ Init /\ StatelessInit /\ DownInit /\ CommitteeInit /\ StartupNext
     /\ UNCHANGED <<vars, round, downVars, committeeVars>>
  \/ /\ Waiting /\ StatelessInit /\ DownInit /\ CommitteeInit /\ Next
     /\ UNCHANGED <<round, downVars, committeeVars, startupVars>>
  \/ /\ Waiting /\ Init /\ DownInit /\ CommitteeInit /\ StatelessNext
     /\ UNCHANGED <<vars, downVars, committeeVars, startupVars>>
  \/ /\ Waiting /\ Init /\ StatelessInit /\ CommitteeInit /\ DownNext
     /\ UNCHANGED <<vars, round, committeeVars, startupVars>>
  \/ /\ Waiting /\ Init /\ StatelessInit /\ DownInit /\ CommitteeNext
     /\ UNCHANGED <<vars, round, downVars, startupVars>>

MCSpec == MCInit /\ [][MCNext]_allVars

\* Every part's variables have their types.
MCTypeOK == TypeOK /\ DownTypeOK /\ CommitteeTypeOK /\ StartupTypeOK
=============================================================================
