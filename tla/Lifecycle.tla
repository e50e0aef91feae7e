------------------------------ MODULE Lifecycle ------------------------------
(***************************************************************************)
(* The life of one `zombienet spawn` on the native provider: start() of    *)
(* orchestrator.ts launching the nodes, the OS processes it leaves behind, *)
(* and everything that may tear them down again - the catch block of       *)
(* start(), the global timeout, and the signal handlers of cli.ts.         *)
(*                                                                         *)
(* The program is a single-threaded event loop, so an action is the code   *)
(* between two awaits; the promises in progress (the launcher, one spawn   *)
(* per node of the current batch, one teardown per event) interleave.  A   *)
(* step of the launcher or of a spawn may take for ever.                   *)
(***************************************************************************)
EXTENDS Naturals, Sequences, FiniteSets

CONSTANTS
    Phases,       \* the sets of nodes spawned one after the other: the first
                  \* relay node, the other relay nodes, the first collator of
                  \* a parachain, ..., the remaining collators
    Concurrency,  \* opts.spawnConcurrency
    Signals,      \* the SIGINTs and SIGTERMs the process may receive
    NodeVerifier  \* settings.node_verifier

Node == UNION {Phases[p] : p \in 1..Len(Phases)}

\* What may run a teardown: start()'s catch block and the process's handlers.
Handlers == Signals \cup {"timeout"}
Actors == Handlers \cup {"catch"}

ASSUME LifecycleAssumption ==
    /\ Phases \in Seq(SUBSET Node)
    /\ IsFiniteSet(Node)
    /\ \A p, q \in 1..Len(Phases) : p # q => Phases[p] \cap Phases[q] = {}
    /\ Concurrency \in Nat \ {0}
    /\ {"timeout", "catch", "start", "none"} \cap Signals = {}
    /\ NodeVerifier \in {"Metric", "None"}

VARIABLES
    stage,             \* where start() is
    network,           \* the Network exists and setGlobalNetwork was called
    timer,             \* timeoutTimer
    phase,             \* the element of Phases being spawned
    batch,             \* the spawnNode promises the launcher awaits
    task,              \* the progress of spawnNode for each node
    check,             \* what verifyNodes found of each node
    recorded,          \* the nodes with processMap[name].pid set
    os,                \* the nodes whose process is alive
    logsDir,           \* the directory <tmpDir>/logs exists
    alreadyTryToStop,  \* the flag of cli.ts
    down,              \* the progress of each teardown
    snap,              \* the pids each destroyNamespace() read
    exitedBy           \* what ended the program, "none" while it runs

launchVars == <<stage, network, timer, phase, batch, task, check>>
osVars == <<recorded, os>>
downVars == <<logsDir, alreadyTryToStop, down, snap>>
vars == <<launchVars, osVars, downVars, exitedBy>>

Running == exitedBy = "none"

Launched == {"launched", "up"}                         \* network.launched

Registered == {n \in Node : task[n] = "registered"}   \* network.nodesByName

Init ==
    /\ stage = "config"
    /\ network = FALSE
    /\ timer = "unarmed"
    /\ phase = 1
    /\ batch = {}
    /\ task = [n \in Node |-> "idle"]
    /\ check = [n \in Node |-> "unknown"]
    /\ recorded = {}
    /\ os = {}
    /\ logsDir \in BOOLEAN    \* with --dir, that of an earlier run
    /\ alreadyTryToStop = FALSE
    /\ down = [a \in Actors |-> "off"]
    /\ snap = [a \in Actors |-> {}]
    /\ exitedBy = "none"

-----------------------------------------------------------------------------
(* The launcher: start().                                                  *)

Stage(from, to) ==
    /\ Running
    /\ stage = from
    /\ stage' = to

\* generateNetworkSpec() succeeds and the global timeout is armed.
GenerateSpec ==
    /\ Stage("config", "prompt")
    /\ timer' = "armed"
    /\ UNCHANGED <<network, phase, batch, task, check, osVars, downVars, exitedBy>>

\* The directory is settled; new Network(...), setGlobalNetwork(network).
CreateNetwork ==
    /\ Stage("prompt", "setup")
    /\ network' = TRUE
    /\ UNCHANGED <<timer, phase, batch, task, check, osVars, downVars, exitedBy>>

\* process.exit(1) without a teardown: the directory question was answered with
\* no, or validateAccess() is false.
Refuse ==
    /\ Running
    /\ stage \in {"prompt", "setup"}
    /\ exitedBy' = "start"
    /\ UNCHANGED <<launchVars, osVars, downVars>>

\* Namespace, cleaner, chain specs and parachain files are in place.
Setup ==
    /\ Stage("setup", "spawn")
    /\ UNCHANGED <<network, timer, phase, batch, task, check, osVars, downVars, exitedBy>>

Waiting == {n \in Phases[phase] : task[n] = "idle"}

\* Mutants of BatchRegistered: the series swallows rejections; it goes on with the
\* first member that is done.
BatchSettled == \A n \in batch : task[n] \in {"registered", "failed"}
FirstRegistered == batch = {} \/ \E n \in batch : task[n] = "registered"

BatchRegistered == \A n \in batch : task[n] = "registered"

LowerOf(a, b) == IF a <= b THEN a ELSE b

\* series(): the next functions of the phase are called at once.  Their order is
\* left open here (Series is about it).
BeginBatch ==
    /\ Running
    /\ stage = "spawn"
    /\ phase <= Len(Phases)
    /\ BatchRegistered
    /\ Waiting # {}
    /\ \E S \in SUBSET Waiting :
         /\ Cardinality(S) = LowerOf(Concurrency, Cardinality(Waiting))
         /\ batch' = S
         /\ task' = [n \in Node |-> IF n \in S THEN "preparing" ELSE task[n]]
    /\ UNCHANGED <<stage, network, timer, phase, check, osVars, downVars, exitedBy>>

\* series() resolved; bootnodes are added, a parachain is registered.
EndPhase ==
    /\ Running
    /\ stage = "spawn"
    /\ phase <= Len(Phases)
    /\ BatchRegistered
    /\ Waiting = {}
    /\ phase' = phase + 1
    /\ batch' = {}
    /\ UNCHANGED <<stage, network, timer, task, check, osVars, downVars, exitedBy>>

\* Every phase is done: verifyNodes().
BeginVerify ==
    /\ phase = Len(Phases) + 1
    /\ Stage("spawn", "verify")
    /\ UNCHANGED <<network, timer, phase, batch, task, check, osVars, downVars, exitedBy>>

\* nodeChecker(): only a live process serves the metric.
CheckNode(n) ==
    /\ Running
    /\ stage = "verify"
    /\ NodeVerifier = "Metric"
    /\ check[n] = "unknown"
    /\ n \in Registered
    /\ \E found \in {"up", "down"} :
         /\ found = "up" => n \in os
         /\ check' = [check EXCEPT ![n] = found]
    /\ UNCHANGED <<stage, network, timer, phase, batch, task, osVars, downVars, exitedBy>>

AllChecked == NodeVerifier = "None" \/ \A n \in Registered : check[n] # "unknown"

\* Mutant of SomeDown: some() for every() in verifyNodes().
AllDown == NodeVerifier = "Metric" /\ \A n \in Registered : check[n] = "down"

SomeDown == NodeVerifier = "Metric" /\ \E n \in Registered : check[n] = "down"

\* network.launched = true; clearTimeout(timeoutTimer).
Launch ==
    /\ AllChecked
    /\ ~SomeDown
    /\ Stage("verify", "launched")
    /\ timer' = IF timer = "armed" THEN "cleared" ELSE timer
    /\ UNCHANGED <<network, phase, batch, task, check, osVars, downVars, exitedBy>>

\* zombie.json is written and start() returns the network.
SaveNetwork ==
    /\ Stage("launched", "up")
    /\ UNCHANGED <<network, timer, phase, batch, task, check, osVars, downVars, exitedBy>>

\* The awaits of the try block that reject, the writing of zombie.json included.
\* Within the spawning, it is either a step between two phases or the series, as
\* a member of the batch failed.
Throws ==
    \/ stage \in {"config", "prompt", "setup", "launched"}
    \/ stage = "spawn" /\ (batch = {} \/ \E n \in batch : task[n] = "failed")
    \/ stage = "verify" /\ AllChecked /\ SomeDown

\* The catch block: dumpLogs() and stop() when there is a network, and
\* process.exit(1) at once when there is none.
Catch ==
    /\ Running
    /\ Throws
    /\ stage' = "failed"
    /\ IF network
       THEN /\ down' = [down EXCEPT !["catch"] = "access"]
            /\ UNCHANGED exitedBy
       ELSE /\ exitedBy' = "catch"
            /\ UNCHANGED down
    /\ UNCHANGED <<network, timer, phase, batch, task, check, osVars,
                   logsDir, alreadyTryToStop, snap>>

-----------------------------------------------------------------------------
(* spawnNode(), and spawnFromDef() of the native client.                   *)

TaskStep(n, from, to) ==
    /\ Running
    /\ task[n] = from
    /\ task' = [task EXCEPT ![n] = to]
    /\ UNCHANGED <<stage, network, timer, phase, batch, check, downVars, exitedBy>>

\* Ports, keystore, snapshot or files: one of the awaits before the spawn fails.
PrepareFails(n) ==
    /\ TaskStep(n, "preparing", "failed")
    /\ UNCHANGED osVars

\* createResource(): spawn() and processMap[name].pid = nodeProcess.pid.
SpawnProcess(n) ==
    /\ TaskStep(n, "preparing", "booting")
    /\ recorded' = recorded \cup {n}
    /\ os' = os \cup {n}

\* wait_node_ready(): the first ps, one second after the spawn.
FirstPs(n) ==
    /\ TaskStep(n, "booting", IF n \in os THEN "logging" ELSE "failed")
    /\ UNCHANGED osVars

\* The log grew, or the second ps found the process; then network.addNode().
\* A process that died after writing to its log counts as ready.
Ready(n) ==
    /\ TaskStep(n, "logging", "registered")
    /\ UNCHANGED osVars

\* The log did not grow and the second ps did not find the process; or, with the
\* process alive, a wc, getNodeInfo() or addNode() failed.
SpawnFails(n) ==
    /\ TaskStep(n, "logging", "failed")
    /\ UNCHANGED osVars

\* The node's process ends by itself (or by the terminal's own SIGINT).
Die(n) ==
    /\ Running
    /\ n \in os
    /\ os' = os \ {n}
    /\ UNCHANGED <<launchVars, recorded, downVars, exitedBy>>

-----------------------------------------------------------------------------
(* Teardown: handleTermination(), Network.dumpLogs(), Network.stop() and   *)
(* NativeClient.destroyNamespace().                                        *)

\* Mutant of HandleTermination: the flag is set when the teardown is over.
HandleUnflagged(h) ==
    IF network
    THEN /\ down' = [down EXCEPT ![h] = "access"]
         /\ UNCHANGED <<exitedBy, alreadyTryToStop>>
    ELSE /\ down' = [down EXCEPT ![h] = "skipped"]
         /\ exitedBy' = h
         /\ UNCHANGED alreadyTryToStop

\* handleTermination() of handler h.  Without a network, or when a teardown was
\* started before, nothing is awaited and the handler's process.exit() follows.
HandleTermination(h) ==
    IF network /\ ~alreadyTryToStop
    THEN /\ alreadyTryToStop' = TRUE
         /\ down' = [down EXCEPT ![h] = "access"]
         /\ UNCHANGED exitedBy
    ELSE /\ down' = [down EXCEPT ![h] = "skipped"]
         /\ exitedBy' = h
         /\ UNCHANGED alreadyTryToStop

\* SIGINT or SIGTERM.
Signal(s) ==
    /\ Running
    /\ down[s] = "off"
    /\ HandleTermination(s)
    /\ UNCHANGED <<launchVars, osVars, logsDir, snap>>

\* Mutant of TimerFires: the timeout is only for a network with nodes.
TimerNeedsNodes ==
    /\ Running
    /\ timer = "armed"
    /\ timer' = "fired"
    /\ IF Registered # {} /\ stage \notin Launched
       THEN HandleTermination("timeout")
       ELSE UNCHANGED <<alreadyTryToStop, down, exitedBy>>
    /\ UNCHANGED <<stage, network, phase, batch, task, check, osVars,
                   logsDir, snap>>

\* The callback of timeoutTimer: it throws, which is an uncaughtException, if
\* there is a network that is not launched.  When the user has not answered the
\* question about the directory yet there is none, and the timeout is spent.
TimerFires ==
    /\ Running
    /\ timer = "armed"
    /\ timer' = "fired"
    /\ IF network /\ stage \notin Launched
       THEN HandleTermination("timeout")
       ELSE UNCHANGED <<alreadyTryToStop, down, exitedBy>>
    /\ UNCHANGED <<stage, network, phase, batch, task, check, osVars,
                   logsDir, snap>>

DownStep(a, from, to) ==
    /\ Running
    /\ down[a] = from
    /\ down' = [down EXCEPT ![a] = to]
    /\ UNCHANGED <<launchVars, recorded, alreadyTryToStop, exitedBy>>

\* dumpLogs(): fs.access(logsPath).  Every error of it leads to mkdir(): that of
\* a directory that is there and may not be written, too.
AccessLogs(a) ==
    /\ \E to \in {"copy", "mkdir"} :
         /\ to = "copy" => logsDir
         /\ DownStep(a, "access", to)
    /\ UNCHANGED <<os, logsDir, snap>>

\* dumpLogs(): fs.mkdir(logsPath), which rejects when the directory exists by now,
\* and on any other error: dumpLogs() is then rejected, and stop() not called.
MakeLogs(a) ==
    /\ \E made \in BOOLEAN :
         /\ made => ~logsDir
         /\ DownStep(a, "mkdir", IF made THEN "copy" ELSE "unlogged")
         /\ logsDir' = (logsDir \/ made)
    /\ UNCHANGED <<os, snap>>

\* Mutant of ReadPids: the pids of nodesByName.
ReadRegistered(a) ==
    /\ DownStep(a, "copy", "grep")
    /\ snap' = [snap EXCEPT ![a] = Registered]
    /\ UNCHANGED <<os, logsDir>>

\* Promise.allSettled of the copies; then stop() and destroyNamespace() up to
\* the ps, which read the pids of processMap.
ReadPids(a) ==
    /\ DownStep(a, "copy", "grep")
    /\ snap' = [snap EXCEPT ![a] = recorded]
    /\ UNCHANGED <<os, logsDir>>

\* ps | grep -E 'p1|p2': matches a live process of the list, any process at all
\* when the list is empty, and by accident a longer pid that contains a listed one.
Grep(a) ==
    /\ \E accident \in BOOLEAN :
         LET found == snap[a] = {} \/ snap[a] \cap os # {} \/ accident
         IN  DownStep(a, "grep", IF found THEN "kill" ELSE "stopped")
    /\ UNCHANGED <<os, logsDir, snap>>

\* Mutant of Kill: only the first pid is killed.
KillFirst(a) ==
    /\ DownStep(a, "kill", IF snap[a] \cap os # {} THEN "stopped" ELSE "failed")
    /\ \E first \in SUBSET snap[a] : Cardinality(first) <= 1 /\ os' = os \ first
    /\ UNCHANGED <<logsDir, snap>>

\* kill -9 p1 p2: fails, and runCommand throws, unless one of them was alive.
Kill(a) ==
    /\ DownStep(a, "kill", IF snap[a] \cap os # {} THEN "stopped" ELSE "failed")
    /\ os' = os \ snap[a]
    /\ UNCHANGED <<logsDir, snap>>

\* Mutant of Exit: a teardown that rejected does not end the program.
ExitWhenStopped(a) ==
    /\ Running
    /\ down[a] = "stopped"
    /\ exitedBy' = a
    /\ UNCHANGED <<launchVars, osVars, downVars>>

\* process.exit() of the handler or of the catch block, or, when the teardown
\* itself rejected, of the unhandledRejection handler or of asyncAction.
Exit(a) ==
    /\ Running
    /\ down[a] \in {"stopped", "unlogged", "failed"}
    /\ exitedBy' = a
    /\ UNCHANGED <<launchVars, osVars, downVars>>

-----------------------------------------------------------------------------
Launcher ==
    \/ GenerateSpec \/ CreateNetwork \/ Refuse \/ Setup
    \/ BeginBatch \/ EndPhase
    \/ BeginVerify \/ (\E n \in Node : CheckNode(n)) \/ Launch \/ SaveNetwork
    \/ Catch

Spawning(n) ==
    \/ PrepareFails(n) \/ SpawnProcess(n) \/ FirstPs(n) \/ Ready(n) \/ SpawnFails(n)

Teardown(a) ==
    \/ AccessLogs(a) \/ MakeLogs(a) \/ ReadPids(a) \/ Grep(a) \/ Kill(a) \/ Exit(a)

Next ==
    \/ Launcher
    \/ \E n \in Node : Spawning(n) \/ Die(n)
    \/ \E s \in Signals : Signal(s)
    \/ TimerFires
    \/ \E a \in Actors : Teardown(a)

Spec == Init /\ [][Next]_vars

\* Commands and file operations of a teardown end, a rejected await reaches its
\* catch block, a timer fires.  Nothing is assumed of the launch itself.
Fairness ==
    /\ \A a \in Actors : WF_vars(Teardown(a))
    /\ WF_vars(TimerFires)

FairSpec == Spec /\ Fairness

-----------------------------------------------------------------------------
TypeOK ==
    /\ stage \in {"config", "prompt", "setup", "spawn", "verify", "launched",
                 "up", "failed"}
    /\ network \in BOOLEAN
    /\ timer \in {"unarmed", "armed", "fired", "cleared"}
    /\ phase \in 1..(Len(Phases) + 1)
    /\ batch \in SUBSET Node
    /\ task \in [Node -> {"idle", "preparing", "booting", "logging",
                          "registered", "failed"}]
    /\ check \in [Node -> {"unknown", "up", "down"}]
    /\ recorded \in SUBSET Node
    /\ os \in SUBSET recorded
    /\ logsDir \in BOOLEAN
    /\ alreadyTryToStop \in BOOLEAN
    /\ down \in [Actors -> {"off", "skipped", "access", "mkdir", "copy", "grep",
                            "kill", "stopped", "unlogged", "failed"}]
    /\ snap \in [Actors -> SUBSET Node]
    /\ exitedBy \in Actors \cup {"none", "start"}

(***************************************************************************)
(* network.launched is only set when spawnNode() of every node of every    *)
(* phase registered it in the network and the verifier saw it up: neither  *)
(* a failure in the middle of a batch nor one teardown step can let the    *)
(* launcher skip a node.                                                   *)
(***************************************************************************)
LaunchedMeansVerified ==
    stage \in Launched =>
        /\ Registered = Node
        /\ NodeVerifier = "Metric" => \A n \in Node : check[n] = "up"

BeingSpawned == {n \in Node : task[n] \in {"preparing", "booting", "logging"}}

(***************************************************************************)
(* --spawn-concurrency: no more nodes than that are being spawned at a     *)
(* time, from one batch and one phase to the next, and while the spawns of *)
(* a failed batch go on next to the catch block and the other teardowns.   *)
(***************************************************************************)
SpawnsBounded == Cardinality(BeingSpawned) <= Concurrency

(***************************************************************************)
(* alreadyTryToStop: of all the signals, timeouts and rejections that may  *)
(* reach the process, at most one runs dumpLogs() and stop().              *)
(***************************************************************************)
TeardownOnce ==
    \A g, h \in Handlers :
        g # h => down[g] \in {"off", "skipped"} \/ down[h] \in {"off", "skipped"}

(***************************************************************************)
(* When the program ends after a teardown that went through, what is left  *)
(* alive was not yet spawned when the teardown read processMap, whatever   *)
(* the spawns, deaths and other teardowns did since.                       *)
(***************************************************************************)
OnlyLateSpawnsSurvive ==
    exitedBy \in Actors /\ down[exitedBy] = "stopped" => os \cap snap[exitedBy] = {}

(***************************************************************************)
(* A launch that fails, with nodes spawned one at a time, leaves no        *)
(* process behind when it is the catch block that ends the program:        *)
(* stop() finds them all, also next to the teardown of a signal or of the  *)
(* timeout.  Unless dumpLogs() is rejected: then the catch block never     *)
(* gets to stop().                                                         *)
(***************************************************************************)
FailedLaunchLeavesNothing ==
    /\ exitedBy \in {"catch", "start"}
    /\ Concurrency = 1
    /\ down["catch"] # "unlogged"
    => os = {}

(***************************************************************************)
(* Once a spawn has failed no further one is begun: the siblings of its    *)
(* batch go on, the rest of the network is not started.                    *)
(***************************************************************************)
NoSpawnAfterFailure ==
    [][\A n \in Node :
         (\E m \in Node : task[m] = "failed") /\ task[n] = "idle" => task'[n] = "idle"
      ]_vars

(***************************************************************************)
(* README.md:311 and docs/src/cli/teardown.md:3: terminating the process   *)
(* tears the network down.  Asked here only of a signal whose handler ran  *)
(* the teardown, to its end and without an error.                          *)
(***************************************************************************)
TerminationLeavesNothing ==
    exitedBy \in Signals /\ down[exitedBy] = "stopped" => os = {}

(***************************************************************************)
(* A teardown that has begun ends the program, whatever fails in it: a     *)
(* rejected dumpLogs() or kill still reaches a process.exit().             *)
(***************************************************************************)
TeardownEnds == (\E a \in Actors : down[a] # "off") ~> ~Running

(***************************************************************************)
(* settings.timeout: with a network and the timeout pending, the network   *)
(* is launched or the program ends, even if every await of the launch      *)
(* hangs.  (A timeout that fired before there was a network is spent.)     *)
(***************************************************************************)
LaunchSettles == (network /\ timer = "armed") ~> (stage \in Launched \/ ~Running)
-----------------------------------------------------------------------------
\* The promise of start().
Promise ==
    CASE stage = "up"     -> "up"
      [] stage = "failed" -> "caught"
      [] OTHER            -> "pending"

\* What the rest of the program sees of it.
Abstract == INSTANCE NetworkRun WITH
              attached <- FALSE,
              launch <- Promise,
              starts <- [n \in Node |-> IF n \in recorded THEN 1 ELSE 0],
              alive <- os \X {1},
              ended <- ~Running

(***************************************************************************)
(* start(), its catch block, the spawns of a batch and the teardowns       *)
(* implement the launch its callers rely on: none of the ways through      *)
(* series(), the verifier and the catch block returns a network of which a *)
(* node was never spawned, or spawns after the program took it for up.     *)
(***************************************************************************)
ImplementsNetworkRun == Abstract!Spec
=============================================================================
