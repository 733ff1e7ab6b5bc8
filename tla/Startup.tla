------------------------------- MODULE Startup -------------------------------
(***************************************************************************)
(* From the command line to the end of the process: the commands, the      *)
(* configuration (newInstructions, sanityCheck), and monitorNetwork with   *)
(* its signals, its listener and the loop that accepts connections.        *)
(*                                                                         *)
(* A configuration file is the sign of its numbers and the list of machine *)
(* files it names; a machine file is the number its base name ends with,   *)
(* what happens when it is opened, and its lines.                          *)
(***************************************************************************)
EXTENDS Integers, Sequences

CONSTANTS
  Fields,         \* the numbers of watchParams
  Files,          \* the machine files a configuration may name
  MaxFiles,       \* bound on how many it names
  Capacity,       \* of the channel of accepted connections, 100 in the code
  MaxConns        \* bound on the connections made

NoNumber == -1

ASSUME StartupAssumption ==
  /\ MaxFiles \in Nat /\ Capacity \in Nat \ {0} /\ MaxConns \in Nat
  /\ \A f \in Files : f.number \in Nat \cup {NoNumber}

Yamls == [broken : BOOLEAN, params : [Fields -> {-1, 0, 1}],
          files : UNION {[1..n -> Files] : n \in 0..MaxFiles}]

VARIABLES
  main, command, exit,   \* the main goroutine, what it was asked, how it ended
  yaml,                  \* the configuration file it was given
  instr,                 \* service.instruction: the members of each shard
  signals, firstSignal,  \* the channel interrupt; the first signal (history)
  http,                  \* the goroutine startReportingHTTPServer
  accept, held           \* acceptConnection, and the connections in its channel

startupVars == <<main, command, exit, yaml, instr, signals, firstSignal, http, accept, held>>

NoYaml == [broken |-> TRUE, params |-> [f \in Fields |-> 0], files |-> <<>>]
Commands == {"monitor", "install", "start"}    \* start, stop, remove and status alike
Signals == {"interrupt", "terminate"}

StartupTypeOK ==
  /\ main \in {"shell", "init", "run", "wait", "ended"}
  /\ command \in Commands \cup {"none"}
  /\ exit \in {"none", "error", "panic", "done", "refused", "interrupted", "killed", "default"}
  /\ (main = "ended") = (exit # "none")
  /\ yaml \in Yamls
  /\ DOMAIN instr \subseteq 0..9
  /\ signals \in Seq(Signals) /\ Len(signals) <= 1
  /\ firstSignal \in Signals \cup {"none"}
  /\ http \in {"off", "starting", "up", "down"}
  /\ accept \in {"off", "accept", "send"}
  /\ held \in 0..Capacity

StartupInit ==
  /\ main = "shell" /\ command = "none" /\ exit = "none"
  /\ yaml = NoYaml
  /\ instr = <<>>
  /\ signals = <<>> /\ firstSignal = "none"
  /\ http = "off" /\ accept = "off" /\ held = 0

-----------------------------------------------------------------------------
(* The configuration.                                                      *)

FilesOf(y) == {y.files[i] : i \in DOMAIN y.files}

\* Missing numbers are zero.  A file that exists passes, readable or not.
SanityCheck(y) ==
  /\ \A f \in Fields : y.params[f] # 0
  /\ \A f \in FilesOf(y) : f.state # "missing"

\* The number but for its last digit.
ShardOfLeading(file) == file.number \div 10

\* The last character of the base name, without the extension.
ShardOf(file) == file.number % 10

\* What one machine file does to byShard, which is also where an error ends up.
AddFile(r, file) ==
  IF r.outcome # "ok" THEN r
  ELSE IF file.number = NoNumber THEN [r EXCEPT !.outcome = "error"]
  ELSE CASE file.state = "unopenable"  -> [r EXCEPT !.outcome = "nil"]
         [] file.state = "unscannable" -> [r EXCEPT !.outcome = "error"]
         [] OTHER -> [r EXCEPT !.byShard =
                        [s \in DOMAIN @ \cup {ShardOf(file)} |->
                           IF s = ShardOf(file) THEN file.members ELSE @[s]]]

\* The members of the shards, once for each time they are listed.
Listed(byShard) == UNION {{s} \X DOMAIN byShard[s] : s \in DOMAIN byShard}

Duplicates(byShard) ==
  \E a, b \in Listed(byShard) : a # b /\ byShard[a[1]][a[2]] = byShard[b[1]][b[2]]

\* byShard after each of the files.
AfterFiles(files) ==
  LET after[i \in 0..Len(files)] ==
        IF i = 0 THEN [outcome |-> "ok", byShard |-> <<>>] ELSE AddFile(after[i - 1], files[i])
  IN after

NewInstructions(y) ==
  LET error == [outcome |-> "error", byShard |-> <<>>]
      read  == AfterFiles(y.files)[Len(y.files)] IN
    IF y.broken \/ ~SanityCheck(y) THEN error
    ELSE IF read.outcome # "ok" THEN read
    ELSE IF Listed(read.byShard) = {} \/ Duplicates(read.byShard) THEN error
    ELSE read

-----------------------------------------------------------------------------
(* The commands.                                                           *)

Invoke(c, y) ==
  /\ main' = "init" /\ command' = c /\ yaml' = y
  /\ UNCHANGED <<exit, instr, signals, firstSignal, http, accept, held>>

End(how) == main' = "ended" /\ exit' = how

\* start, stop, remove and status do not declare the flag yaml-config: the path
\* is empty and the file cannot be read.
Given == command \in {"monitor", "install"}

\* preRunInit.  A nil instruction without an error is dereferenced.
PreRunInit(daemonOk) ==
  LET r == NewInstructions(yaml) IN
    /\ main = "init"
    /\ IF ~Given \/ r.outcome = "error" \/ (r.outcome = "ok" /\ ~daemonOk)
         THEN End("error") /\ UNCHANGED instr
         ELSE IF r.outcome = "nil"
         THEN End("panic") /\ UNCHANGED instr
         ELSE main' = "run" /\ instr' = r.byShard /\ UNCHANGED exit
    /\ UNCHANGED <<command, yaml, signals, firstSignal, http, accept, held>>

\* install, start, stop, remove, status: one call of the daemon library.
Service(ok) ==
  /\ main = "run" /\ command # "monitor"
  /\ End(IF ok THEN "done" ELSE "refused")
  /\ UNCHANGED <<command, yaml, instr, signals, firstSignal, http, accept, held>>

-----------------------------------------------------------------------------
(* doMonitor and monitorNetwork.                                           *)

\* signal.Notify, net.Listen and the two goroutines.  The configuration has been
\* read for good.
Listen(ok) ==
  /\ main = "run" /\ command = "monitor"
  /\ IF ok THEN /\ main' = "wait" /\ http' = "starting" /\ accept' = "accept"
                /\ UNCHANGED exit
           ELSE End("error") /\ UNCHANGED <<http, accept>>
  /\ yaml' = NoYaml /\ instr' = <<>>
  /\ UNCHANGED <<command, signals, firstSignal, held>>

\* http.ListenAndServe, whose error nobody looks at.
Serve(ok) ==
  /\ main = "wait" /\ http = "starting"
  /\ http' = IF ok THEN "up" ELSE "down"
  /\ UNCHANGED <<main, command, exit, yaml, instr, signals, firstSignal, accept, held>>

\* acceptConnection: nobody receives from the channel listen.
AcceptConn ==
  /\ main = "wait" /\ accept = "accept" /\ held < MaxConns
  /\ accept' = "send"
  /\ UNCHANGED <<main, command, exit, yaml, instr, signals, firstSignal, http, held>>

HoldConn ==
  /\ main = "wait" /\ accept = "send" /\ held < Capacity
  /\ held' = held + 1 /\ accept' = "accept"
  /\ UNCHANGED <<main, command, exit, yaml, instr, signals, firstSignal, http>>

\* A signal ends the process before Notify; after it, it goes to the channel, or
\* is dropped if one is waiting there.
Signal(s) ==
  /\ main \in {"init", "run", "wait"}
  /\ IF main = "wait"
       THEN /\ signals' = IF signals = <<>> THEN <<s>> ELSE signals
            /\ firstSignal' = IF firstSignal = "none" THEN s ELSE firstSignal
            /\ UNCHANGED <<main, exit>>
       ELSE End("default") /\ UNCHANGED <<signals, firstSignal>>
  /\ UNCHANGED <<command, yaml, instr, http, accept, held>>

\* The error of the interrupt for both.
StopInterrupted ==
  /\ main = "wait" /\ signals # <<>>
  /\ End("interrupted")
  /\ signals' = Tail(signals)
  /\ UNCHANGED <<command, yaml, instr, firstSignal, http, accept, held>>

\* killSignal := <-interrupt, listener.Close, and the exit of main.
Stop ==
  /\ main = "wait" /\ signals # <<>>
  /\ End(IF Head(signals) = "interrupt" THEN "interrupted" ELSE "killed")
  /\ signals' = Tail(signals)
  /\ UNCHANGED <<command, yaml, instr, firstSignal, http, accept, held>>

StartupNext ==
  \/ AcceptConn \/ HoldConn \/ Stop
  \/ main = "shell" /\ \E c \in Commands, y \in Yamls : Invoke(c, y)
  \/ \E ok \in BOOLEAN : PreRunInit(ok) \/ Service(ok) \/ Listen(ok) \/ Serve(ok)
  \/ \E s \in Signals : Signal(s)

StartupSpec == StartupInit /\ [][StartupNext]_startupVars

-----------------------------------------------------------------------------
(* Properties.                                                             *)

\* A configuration that newInstructions accepts watches somebody and nobody
\* twice, so that update gives each address one shard; and if the numbers its
\* files end with are digits and no two are the same, every line of every file is
\* watched, under that number.  A file that cannot be opened is the only way to
\* the nil instruction that preRunInit dereferences.
ConfigurationIsChecked ==
  /\ main = "run" =>
       /\ \E s \in DOMAIN instr : instr[s] # <<>>
       /\ \A s, t \in DOMAIN instr : \A i \in DOMAIN instr[s], j \in DOMAIN instr[t] :
            instr[s][i] = instr[t][j] => s = t /\ i = j
       /\ (\A f, g \in FilesOf(yaml) : f.number \in 0..9 /\ (f.number = g.number => f = g)) =>
            \A f \in FilesOf(yaml) : f.number \in DOMAIN instr /\ instr[f.number] = f.members
  /\ exit = "panic" => \E f \in FilesOf(yaml) : f.state = "unopenable"

\* "The ending of the basename of the file is important, in this example the 0, 1,
\* 2, 3 indicate shardID.  Need to have some trailing number on the filename"
\* (README.md:50-53): the machines watched as a shard are those of a file whose
\* trailing number is that shard.
TrailingNumberIsShard ==
  main = "run" => \A s \in DOMAIN instr :
    \E f \in FilesOf(yaml) : f.number = s /\ instr[s] = f.members

\* The error with which the process ends names the first signal, however many
\* follow before main looks, and whatever becomes of the two goroutines: a report
\* server that could not listen, an accept loop stuck on its full channel.
FirstSignalDecides ==
  exit \in {"interrupted", "killed"} =>
    exit = IF firstSignal = "interrupt" THEN "interrupted" ELSE "killed"

\* "start the harmony-watchdogd service" (daemon-cmds.go:14): given a service
\* with a valid configuration, service start either starts it or reports that
\* the operating system refused.
StartReachesTheDaemon ==
  command = "start" /\ exit = "error" => NewInstructions(yaml).outcome # "ok"
=============================================================================
