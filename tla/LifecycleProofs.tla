-------------------------- MODULE LifecycleProofs ---------------------------
(***************************************************************************)
(* Proofs about Lifecycle, for every network, concurrency and number of    *)
(* signals.  The properties follow from the inductive invariant IInv,      *)
(* whose parts are named after what they relate.                           *)
(***************************************************************************)
EXTENDS Lifecycle, FiniteSetTheorems, TLAPS

InFlight == {"preparing", "booting", "logging"}

\* Nothing is spawned, and no directory made, before there is a network.
BeforeNetwork ==
    /\ ~network => /\ \A n \in Node : task[n] = "idle"
                   /\ batch = {}
                   /\ stage \in {"config", "prompt", "failed"}
                   /\ stage = "failed" => exitedBy # "none"
    /\ stage \in {"config", "prompt"} => ~network
    /\ stage \in {"config", "prompt", "setup"} =>
         \A n \in Node : task[n] = "idle"

\* The batch is what is being spawned: a spawn in progress or failed is in it.
BatchIsCurrent ==
    \A n \in Node : task[n] \in InFlight \cup {"failed"} => n \in batch

\* processMap has the pid of a node from the spawn on, and the phases before
\* the current one are registered.
Bookkeeping ==
    /\ \A n \in Node : task[n] \in {"idle", "preparing"} => n \notin recorded
    /\ \A n \in Node : task[n] \in {"booting", "logging", "registered"} => n \in recorded
    /\ \A q \in 1..Len(Phases) : q < phase => \A n \in Phases[q] : task[n] = "registered"
    /\ stage \in {"verify"} \cup Launched => phase = Len(Phases) + 1

\* What a teardown that reached stop() knows, and what is left when it went through.
SnapshotSound ==
    \A a \in Actors :
        /\ snap[a] \subseteq recorded
        /\ down[a] = "stopped" => os \cap snap[a] = {}

\* The flag of cli.ts is up while the handler that raised it tears down.
FlagSound ==
    /\ \A h \in Handlers : down[h] \notin {"off", "skipped"} => alreadyTryToStop
    /\ TeardownOnce
    /\ down["catch"] # "skipped"
    /\ down["catch"] # "off" => stage = "failed"

SafetyInv ==
    /\ TypeOK
    /\ BeforeNetwork
    /\ BatchIsCurrent
    /\ Bookkeeping
    /\ SnapshotSound
    /\ FlagSound
    /\ LaunchedMeansVerified

\* A batch has no more members than may be spawned at a time: with a concurrency
\* of one, one at most.
BatchBounded == IsFiniteSet(batch) /\ Cardinality(batch) <= Concurrency
OneAtATime == Concurrency = 1 => \A m, n \in batch : m = n

\* A failed launch with one spawn at a time has none in progress.
FailedIsIdle ==
    stage = "failed" /\ Concurrency = 1 => \A n \in Node : task[n] \notin InFlight

\* With one spawn at a time the snapshot of the catch block has every live
\* process, whatever the handlers do next to it, and its end leaves none.
CatchSound ==
    Concurrency = 1 =>
        /\ down["catch"] \in {"grep", "kill"} => os \subseteq snap["catch"]
        /\ down["catch"] \in {"stopped", "failed"} => os = {}
        /\ exitedBy \in {"catch", "start"} /\ down["catch"] # "unlogged" => os = {}

IInv ==
    /\ SafetyInv
    /\ BatchBounded
    /\ FailedIsIdle
    /\ CatchSound

-----------------------------------------------------------------------------
(* Facts about the constants.                                              *)

LEMMA PhaseNodes ==
    /\ Len(Phases) \in Nat
    /\ \A p \in 1..Len(Phases) : Phases[p] \subseteq Node
    /\ \A n \in Node : \E p \in 1..Len(Phases) : n \in Phases[p]
  BY LifecycleAssumption DEF Node

LEMMA ActorFacts ==
    /\ "catch" \notin Handlers
    /\ "timeout" \in Handlers
    /\ Signals \subseteq Handlers
    /\ Actors = Handlers \cup {"catch"}
    /\ "none" \notin Actors
    /\ "start" \notin Actors
  BY LifecycleAssumption DEF Actors, Handlers

-----------------------------------------------------------------------------
LEMMA InitSafety == Init => SafetyInv
<1> USE PhaseNodes, ActorFacts DEF Init
<1>1. Init => TypeOK
  <2>1. 1 \in 1..(Len(Phases) + 1)
    OBVIOUS
  <2>2. [a \in Actors |-> {}] \in [Actors -> SUBSET Node]
    OBVIOUS
  <2>3. Init => logsDir \in BOOLEAN
    BY Zenon
  <2>4. Init => /\ network \in BOOLEAN
                /\ alreadyTryToStop \in BOOLEAN
                /\ phase \in 1..(Len(Phases) + 1)
                /\ snap \in [Actors -> SUBSET Node]
    BY <2>1, <2>2
  <2>5. Init => /\ batch \in SUBSET Node
                /\ recorded \in SUBSET Node
                /\ os \in SUBSET recorded
                /\ exitedBy \in Actors \cup {"none", "start"}
    OBVIOUS
  <2>6. Init =>
          /\ stage \in {"config", "prompt", "setup", "spawn", "verify",
                       "launched", "up", "failed"}
          /\ timer \in {"unarmed", "armed", "fired", "cleared"}
    OBVIOUS
  <2>7. Init =>
          /\ task \in [Node -> {"idle", "preparing", "booting", "logging",
                                "registered", "failed"}]
          /\ check \in [Node -> {"unknown", "up", "down"}]
          /\ down \in [Actors -> {"off", "skipped", "access", "mkdir", "copy",
                                  "grep", "kill", "stopped", "unlogged",
                                  "failed"}]
    OBVIOUS
  <2> HIDE DEF Init
  <2> QED BY <2>3, <2>4, <2>5, <2>6, <2>7, Zenon DEF TypeOK
<1>2. Init => BeforeNetwork /\ BatchIsCurrent /\ Bookkeeping
  BY DEF BeforeNetwork, BatchIsCurrent, InFlight, Bookkeeping, Launched
<1>3. Init => SnapshotSound /\ FlagSound /\ LaunchedMeansVerified
  BY DEF SnapshotSound, FlagSound, TeardownOnce, LaunchedMeansVerified, Launched
<1> QED BY <1>1, <1>2, <1>3 DEF SafetyInv

\* Type correctness needs no other part of the invariant.
LEMMA TypeStep ==
    ASSUME TypeOK, [Next]_vars
    PROVE  TypeOK'
<1> USE PhaseNodes, ActorFacts DEF TypeOK, launchVars, osVars, downVars
<1>1. CASE Launcher
  <2>1. CASE GenerateSpec \/ CreateNetwork \/ Refuse \/ Setup
    BY <2>1 DEF GenerateSpec, CreateNetwork, Refuse, Setup, Stage
  <2>2. CASE BeginBatch
    BY <2>2 DEF BeginBatch, Waiting
  <2>3. CASE EndPhase \/ BeginVerify \/ Launch
            \/ SaveNetwork
    BY <2>3 DEF EndPhase, BeginVerify, Launch,
                SaveNetwork, Stage
  <2>4. CASE \E n \in Node : CheckNode(n)
    BY <2>4 DEF CheckNode
  <2>5. CASE Catch
    BY <2>5 DEF Catch
  <2> QED BY <1>1, <2>1, <2>2, <2>3, <2>4, <2>5 DEF Launcher
<1>2. ASSUME NEW n \in Node, Spawning(n) \/ Die(n)
      PROVE  TypeOK'
  BY <1>2 DEF Spawning, PrepareFails, SpawnProcess, FirstPs, Ready, SpawnFails, Die, TaskStep
<1>3. ASSUME NEW s \in Signals, Signal(s)
      PROVE  TypeOK'
  <2>1. s \in Actors
    OBVIOUS
  <2> QED BY <1>3, <2>1 DEF Signal, HandleTermination
<1>4. CASE TimerFires
  BY <1>4 DEF TimerFires, HandleTermination
<1>5. ASSUME NEW a \in Actors, Teardown(a)
      PROVE  TypeOK'
  <2>1. CASE AccessLogs(a) \/ MakeLogs(a) \/ ReadPids(a)
    BY <2>1 DEF AccessLogs, MakeLogs, ReadPids, DownStep
  <2>2. CASE Grep(a)
    BY <2>2 DEF Grep, DownStep
  <2>3. CASE Kill(a)
    BY <2>3 DEF Kill, DownStep
  <2>4. CASE Exit(a)
    BY <2>4 DEF Exit
  <2> QED BY <1>5, <2>1, <2>2, <2>3, <2>4 DEF Teardown
<1>6. CASE UNCHANGED vars
  BY <1>6 DEF vars
<1> QED BY <1>1, <1>2, <1>3, <1>4, <1>5, <1>6 DEF Next

\* Before the network exists nothing is spawned.
LEMMA BeforeNetworkStep ==
    ASSUME TypeOK, BeforeNetwork, [Next]_vars
    PROVE  BeforeNetwork'
<1> USE DEF TypeOK, BeforeNetwork, launchVars, osVars, downVars
<1>1. CASE Launcher
  <2>1. CASE GenerateSpec \/ CreateNetwork \/ Refuse \/ Setup \/ BeginVerify \/ Launch
            \/ SaveNetwork
    BY <2>1 DEF GenerateSpec, CreateNetwork, Refuse, Setup, BeginVerify, Launch,
                SaveNetwork, Stage, Running
  <2>2. CASE BeginBatch \/ EndPhase
    BY <2>2 DEF BeginBatch, EndPhase
  <2>3. CASE \E n \in Node : CheckNode(n)
    BY <2>3 DEF CheckNode
  <2>4. CASE Catch
    BY <2>4 DEF Catch, Throws
  <2> QED BY <1>1, <2>1, <2>2, <2>3, <2>4 DEF Launcher
<1>2. ASSUME NEW n \in Node, Spawning(n) \/ Die(n)
      PROVE  BeforeNetwork'
  BY <1>2 DEF Spawning, PrepareFails, SpawnProcess, FirstPs, Ready, SpawnFails, Die, TaskStep
<1>3. CASE (\E s \in Signals : Signal(s)) \/ TimerFires
  BY <1>3 DEF Signal, TimerFires, HandleTermination, Running
<1>4. ASSUME NEW a \in Actors, Teardown(a)
      PROVE  BeforeNetwork'
  BY <1>4 DEF Teardown, AccessLogs, MakeLogs, ReadPids, Grep, Kill, Exit, DownStep, Running
<1>5. CASE UNCHANGED vars
  BY <1>5 DEF vars
<1> QED BY <1>1, <1>2, <1>3, <1>4, <1>5 DEF Next

\* A new batch is begun when the last one is registered, so that no spawn in
\* progress, and none that failed, is ever left behind.
LEMMA BatchStep ==
    ASSUME TypeOK, BatchIsCurrent, [Next]_vars
    PROVE  BatchIsCurrent'
<1> USE DEF TypeOK, BatchIsCurrent, InFlight, launchVars, osVars, downVars
<1>1. CASE Launcher
  <2>1. CASE GenerateSpec \/ CreateNetwork \/ Refuse \/ Setup \/ BeginVerify \/ Launch
            \/ SaveNetwork \/ Catch
    BY <2>1 DEF GenerateSpec, CreateNetwork, Refuse, Setup, BeginVerify, Launch,
                SaveNetwork, Catch, Stage
  <2>2. CASE BeginBatch \/ EndPhase
    BY <2>2 DEF BeginBatch, EndPhase, BatchRegistered
  <2>3. CASE \E n \in Node : CheckNode(n)
    BY <2>3 DEF CheckNode
  <2> QED BY <1>1, <2>1, <2>2, <2>3 DEF Launcher
<1>2. ASSUME NEW n \in Node, Spawning(n) \/ Die(n)
      PROVE  BatchIsCurrent'
  BY <1>2 DEF Spawning, PrepareFails, SpawnProcess, FirstPs, Ready, SpawnFails, Die, TaskStep
<1>3. CASE (\E s \in Signals : Signal(s)) \/ TimerFires
  BY <1>3 DEF Signal, TimerFires
<1>4. ASSUME NEW a \in Actors, Teardown(a)
      PROVE  BatchIsCurrent'
  BY <1>4 DEF Teardown, AccessLogs, MakeLogs, ReadPids, Grep, Kill, Exit, DownStep
<1>5. CASE UNCHANGED vars
  BY <1>5 DEF vars
<1> QED BY <1>1, <1>2, <1>3, <1>4, <1>5 DEF Next

\* A phase ends with every node of it registered, and so it stays.
LEMMA BookkeepingStep ==
    ASSUME TypeOK, BatchIsCurrent, Bookkeeping, [Next]_vars
    PROVE  Bookkeeping'
<1> USE PhaseNodes DEF TypeOK, Bookkeeping, Launched, launchVars, osVars, downVars
<1>1. CASE Launcher
  <2>1. CASE GenerateSpec \/ CreateNetwork \/ Refuse \/ Setup \/ BeginVerify \/ Launch
            \/ SaveNetwork \/ Catch
    BY <2>1 DEF GenerateSpec, CreateNetwork, Refuse, Setup, BeginVerify, Launch,
                SaveNetwork, Catch, Stage
  <2>2. CASE BeginBatch
    BY <2>2 DEF BeginBatch, Waiting
  <2>3. CASE EndPhase
    <3>1. \A n \in Phases[phase] : task[n] = "registered"
      BY <2>3 DEF EndPhase, Waiting, BatchRegistered, BatchIsCurrent, InFlight
    <3>2. \A q \in 1..Len(Phases) : q < phase' => q < phase \/ q = phase
      BY <2>3 DEF EndPhase
    <3> QED BY <2>3, <3>1, <3>2 DEF EndPhase
  <2>4. CASE \E n \in Node : CheckNode(n)
    BY <2>4 DEF CheckNode
  <2> QED BY <1>1, <2>1, <2>2, <2>3, <2>4 DEF Launcher
<1>2. ASSUME NEW n \in Node, Spawning(n) \/ Die(n)
      PROVE  Bookkeeping'
  <2>1. CASE PrepareFails(n) \/ FirstPs(n) \/ Ready(n) \/ SpawnFails(n)
    BY <2>1 DEF PrepareFails, FirstPs, Ready, SpawnFails, TaskStep
  <2>2. CASE SpawnProcess(n)
    BY <2>2 DEF SpawnProcess, TaskStep
  <2>3. CASE Die(n)
    BY <2>3 DEF Die
  <2> QED BY <1>2, <2>1, <2>2, <2>3 DEF Spawning
<1>3. CASE (\E s \in Signals : Signal(s)) \/ TimerFires
  BY <1>3 DEF Signal, TimerFires
<1>4. ASSUME NEW a \in Actors, Teardown(a)
      PROVE  Bookkeeping'
  BY <1>4 DEF Teardown, AccessLogs, MakeLogs, ReadPids, Grep, Kill, Exit, DownStep
<1>5. CASE UNCHANGED vars
  BY <1>5 DEF vars
<1> QED BY <1>1, <1>2, <1>3, <1>4, <1>5 DEF Next

\* A teardown that went through killed all it knew of, and nothing it knew of
\* is spawned again: processMap has a pid only for nodes past their spawn.
LEMMA SnapshotStep ==
    ASSUME TypeOK, Bookkeeping, SnapshotSound, [Next]_vars
    PROVE  SnapshotSound'
<1> USE ActorFacts DEF TypeOK, SnapshotSound, launchVars, osVars, downVars
<1>1. CASE Launcher
  <2>1. CASE GenerateSpec \/ CreateNetwork \/ Refuse \/ Setup \/ BeginVerify \/ Launch
            \/ SaveNetwork
    BY <2>1 DEF GenerateSpec, CreateNetwork, Refuse, Setup, BeginVerify, Launch,
                SaveNetwork, Stage
  <2>2. CASE BeginBatch \/ EndPhase \/ \E n \in Node : CheckNode(n)
    BY <2>2 DEF BeginBatch, EndPhase, CheckNode
  <2>3. CASE Catch
    BY <2>3 DEF Catch
  <2> QED BY <1>1, <2>1, <2>2, <2>3 DEF Launcher
<1>2. ASSUME NEW n \in Node, Spawning(n) \/ Die(n)
      PROVE  SnapshotSound'
  <2>1. CASE PrepareFails(n) \/ FirstPs(n) \/ Ready(n) \/ SpawnFails(n)
    BY <2>1 DEF PrepareFails, FirstPs, Ready, SpawnFails, TaskStep
  <2>2. CASE SpawnProcess(n)
    <3>1. n \notin recorded
      BY <2>2 DEF SpawnProcess, TaskStep, Bookkeeping
    <3> QED BY <2>2, <3>1 DEF SpawnProcess, TaskStep
  <2>3. CASE Die(n)
    BY <2>3 DEF Die
  <2> QED BY <1>2, <2>1, <2>2, <2>3 DEF Spawning
<1>3. ASSUME NEW s \in Signals, Signal(s)
      PROVE  SnapshotSound'
  BY <1>3 DEF Signal, HandleTermination
<1>4. CASE TimerFires
  BY <1>4 DEF TimerFires, HandleTermination
<1>5. ASSUME NEW a \in Actors, Teardown(a)
      PROVE  SnapshotSound'
  <2>1. CASE AccessLogs(a) \/ MakeLogs(a) \/ Exit(a)
    BY <2>1 DEF AccessLogs, MakeLogs, Exit, DownStep
  <2>2. CASE ReadPids(a)
    BY <2>2 DEF ReadPids, DownStep
  <2>3. CASE Grep(a)
    <3>1. PICK accident \in BOOLEAN :
            down' = [down EXCEPT ![a] =
                       IF snap[a] = {} \/ snap[a] \cap os # {} \/ accident
                       THEN "kill" ELSE "stopped"]
      BY <2>3 DEF Grep, DownStep
    <3> QED BY <2>3, <3>1 DEF Grep, DownStep
  <2>4. CASE Kill(a)
    BY <2>4 DEF Kill, DownStep
  <2> QED BY <1>5, <2>1, <2>2, <2>3, <2>4 DEF Teardown
<1>6. CASE UNCHANGED vars
  BY <1>6 DEF vars
<1> QED BY <1>1, <1>2, <1>3, <1>4, <1>5, <1>6 DEF Next

\* alreadyTryToStop is set with the first teardown of a handler and never reset.
LEMMA HandleOnce ==
    ASSUME TypeOK, FlagSound, NEW h \in Handlers, HandleTermination(h),
           stage' = stage
    PROVE  FlagSound'
<1> USE ActorFacts DEF TypeOK, FlagSound, TeardownOnce, HandleTermination
<1>1. CASE network /\ ~alreadyTryToStop
  BY <1>1
<1>2. CASE ~(network /\ ~alreadyTryToStop)
  BY <1>2
<1> QED BY <1>1, <1>2

\* A teardown that is in progress was begun, and goes on as what it is.
LEMMA DownShape ==
    ASSUME TypeOK, NEW a \in Actors, Teardown(a), down' # down
    PROVE  /\ down[a] \notin {"off", "skipped"}
           /\ \E to \in {"mkdir", "copy", "grep", "kill", "stopped", "unlogged", "failed"} :
                down' = [down EXCEPT ![a] = to]
<1> USE DEF TypeOK, DownStep
<1>1. CASE AccessLogs(a) \/ MakeLogs(a) \/ ReadPids(a) \/ Kill(a)
  BY <1>1 DEF AccessLogs, MakeLogs, ReadPids, Kill
<1>2. CASE Grep(a)
  BY <1>2 DEF Grep
<1>3. CASE Exit(a)
  BY <1>3 DEF Exit, downVars
<1> QED BY <1>1, <1>2, <1>3 DEF Teardown

LEMMA TeardownFrame ==
    ASSUME NEW a, Teardown(a)
    PROVE  UNCHANGED <<launchVars, recorded, alreadyTryToStop>>
  BY DEF Teardown, AccessLogs, MakeLogs, ReadPids, Grep, Kill, Exit, DownStep, osVars, downVars

LEMMA SpawnFrame ==
    ASSUME NEW n, Spawning(n) \/ Die(n)
    PROVE  UNCHANGED <<stage, network, timer, phase, batch, check, downVars, exitedBy>>
  BY DEF Spawning, PrepareFails, SpawnProcess, FirstPs, Ready, SpawnFails, Die, TaskStep, launchVars

LEMMA FlagStep ==
    ASSUME TypeOK, FlagSound, [Next]_vars
    PROVE  FlagSound'
<1> USE ActorFacts
<1>1. CASE Launcher
  <2> USE DEF FlagSound, TeardownOnce, downVars
  <2>1. CASE GenerateSpec \/ CreateNetwork \/ Setup \/ BeginVerify \/ Launch
            \/ SaveNetwork
    BY <2>1 DEF GenerateSpec, CreateNetwork, Setup, BeginVerify, Launch,
                SaveNetwork, Stage
  <2>2. CASE Refuse \/ BeginBatch \/ EndPhase \/ \E n \in Node : CheckNode(n)
    BY <2>2 DEF Refuse, BeginBatch, EndPhase, CheckNode, launchVars
  <2>3. CASE Catch
    BY <2>3 DEF Catch, TypeOK
  <2> QED BY <1>1, <2>1, <2>2, <2>3 DEF Launcher
<1>2. ASSUME NEW n \in Node, Spawning(n) \/ Die(n)
      PROVE  FlagSound'
  BY <1>2, SpawnFrame DEF FlagSound, TeardownOnce, downVars
<1>3. ASSUME NEW s \in Signals, Signal(s)
      PROVE  FlagSound'
  BY <1>3, HandleOnce DEF Signal, launchVars
<1>4. CASE TimerFires
  <2>1. CASE network /\ stage \notin Launched
    BY <1>4, <2>1, HandleOnce DEF TimerFires
  <2>2. CASE ~(network /\ stage \notin Launched)
    BY <1>4, <2>2 DEF TimerFires, FlagSound, TeardownOnce
  <2> QED BY <2>1, <2>2
<1>5. ASSUME NEW a \in Actors, Teardown(a)
      PROVE  FlagSound'
  <2>1. UNCHANGED <<stage, alreadyTryToStop>>
    BY <1>5, TeardownFrame DEF launchVars
  <2>2. CASE down' = down
    BY <2>1, <2>2 DEF FlagSound, TeardownOnce
  <2>3. CASE down' # down
    BY <1>5, <2>1, <2>3, DownShape DEF FlagSound, TeardownOnce, TypeOK
  <2> QED BY <2>2, <2>3
<1>6. CASE UNCHANGED vars
  BY <1>6 DEF vars, launchVars, downVars, FlagSound, TeardownOnce
<1> QED BY <1>1, <1>2, <1>3, <1>4, <1>5, <1>6 DEF Next

LEMMA LaunchedStep ==
    ASSUME TypeOK, Bookkeeping, LaunchedMeansVerified, [Next]_vars
    PROVE  LaunchedMeansVerified'
<1> USE PhaseNodes DEF TypeOK, LaunchedMeansVerified, Registered, Launched
<1>1. CASE Launcher
  <2>1. CASE GenerateSpec \/ CreateNetwork \/ Setup \/ BeginVerify \/ SaveNetwork
    BY <2>1 DEF GenerateSpec, CreateNetwork, Setup, BeginVerify, SaveNetwork, Stage
  <2>2. CASE Refuse \/ BeginBatch \/ EndPhase \/ (\E n \in Node : CheckNode(n)) \/ Catch
    BY <2>2 DEF Refuse, BeginBatch, EndPhase, CheckNode, Catch, Throws, launchVars
  <2>3. CASE Launch
    <3>1. phase = Len(Phases) + 1
      BY <2>3 DEF Launch, Stage, Bookkeeping
    <3>2. \A q \in 1..Len(Phases) : q < phase
      BY <3>1
    <3>3. \A n \in Node : task[n] = "registered"
      BY <3>2 DEF Bookkeeping
    <3> QED BY <2>3, <3>3, LifecycleAssumption
            DEF Launch, Stage, AllChecked, SomeDown
  <2> QED BY <1>1, <2>1, <2>2, <2>3 DEF Launcher
<1>2. ASSUME NEW n \in Node, Spawning(n) \/ Die(n)
      PROVE  LaunchedMeansVerified'
  BY <1>2 DEF Spawning, PrepareFails, SpawnProcess, FirstPs, Ready, SpawnFails, Die,
              TaskStep, launchVars
<1>3. CASE (\E s \in Signals : Signal(s)) \/ TimerFires
  BY <1>3 DEF Signal, TimerFires, launchVars
<1>4. ASSUME NEW a \in Actors, Teardown(a)
      PROVE  LaunchedMeansVerified'
  BY <1>4, TeardownFrame DEF launchVars
<1>5. CASE UNCHANGED vars
  BY <1>5 DEF vars, launchVars
<1> QED BY <1>1, <1>2, <1>3, <1>4, <1>5 DEF Next

LEMMA NextSafety == SafetyInv /\ [Next]_vars => SafetyInv'
  BY TypeStep, BeforeNetworkStep, BatchStep, BookkeepingStep, SnapshotStep, FlagStep,
     LaunchedStep
  DEF SafetyInv

LEMMA SafetyInvariance == Spec => []SafetyInv
  BY InitSafety, NextSafety, PTL DEF Spec

(***************************************************************************)
(* The variables of the launcher, the processes and the teardowns stay in  *)
(* their sets; in particular a live process always has its pid recorded in *)
(* processMap, which is all that stop() goes by.                           *)
(***************************************************************************)
THEOREM TypeCorrect == Spec => []TypeOK
  BY SafetyInvariance, PTL DEF SafetyInv

(***************************************************************************)
(* Whatever fails, is killed or is signalled meanwhile, a launched network *)
(* has all its nodes registered and verified (orchestrator.ts start()).    *)
(***************************************************************************)
THEOREM LaunchSound == Spec => []LaunchedMeansVerified
  BY SafetyInvariance, PTL DEF SafetyInv

(***************************************************************************)
(* However many signals arrive, and whenever the timeout does, one handler *)
(* at most tears the network down (alreadyTryToStop of cli.ts).            *)
(***************************************************************************)
THEOREM OneTeardown == Spec => []TeardownOnce
  BY SafetyInvariance, PTL DEF SafetyInv, FlagSound

(***************************************************************************)
(* What survives a teardown that went through was spawned after it read    *)
(* the pids (destroyNamespace of the native client).                       *)
(***************************************************************************)
THEOREM OnlyLateSpawns == Spec => []OnlyLateSpawnsSurvive
<1>1. SafetyInv => OnlyLateSpawnsSurvive
  BY DEF SafetyInv, SnapshotSound, OnlyLateSpawnsSurvive
<1> QED BY <1>1, SafetyInvariance, PTL

(***************************************************************************)
(* After a failed spawn no further one is begun, by the launcher or by     *)
(* anyone else: the failed one stays in the batch the launcher waits for.  *)
(***************************************************************************)
THEOREM FailureStopsSpawning == Spec => NoSpawnAfterFailure
<1> DEFINE Quiet == \A n \in Node :
             (\E m \in Node : task[m] = "failed") /\ task[n] = "idle" => task'[n] = "idle"
<1>1. ASSUME SafetyInv, [Next]_vars
      PROVE  Quiet
  <2> USE <1>1 DEF SafetyInv, TypeOK, launchVars
  <2>1. CASE BeginBatch
    BY <2>1 DEF BeginBatch, BatchRegistered, BatchIsCurrent
  <2>2. CASE Launcher /\ ~BeginBatch
    BY <2>2 DEF Launcher, GenerateSpec, CreateNetwork, Refuse, Setup, EndPhase, BeginVerify,
                CheckNode, Launch, SaveNetwork, Catch
  <2>3. ASSUME NEW n \in Node, Spawning(n) \/ Die(n)
        PROVE  Quiet
    BY <2>3 DEF Spawning, PrepareFails, SpawnProcess, FirstPs, Ready, SpawnFails, Die, TaskStep
  <2>4. CASE (\E s \in Signals : Signal(s)) \/ TimerFires
    BY <2>4 DEF Signal, TimerFires
  <2>5. ASSUME NEW a \in Actors, Teardown(a)
        PROVE  Quiet
    BY <2>5, TeardownFrame
  <2>6. CASE UNCHANGED vars
    BY <2>6 DEF vars
  <2> QED BY <2>1, <2>2, <2>3, <2>4, <2>5, <2>6 DEF Next
<1>2. SafetyInv /\ [Next]_vars => [Quiet]_vars
  BY <1>1
<1> QED BY <1>2, SafetyInvariance, PTL DEF Spec, NoSpawnAfterFailure

-----------------------------------------------------------------------------
(* One spawn at a time, and no handler: what the catch block can rely on.  *)

LEMMA BatchBoundedStep ==
    ASSUME TypeOK, BatchBounded, [Next]_vars
    PROVE  BatchBounded'
<1>0. Concurrency \in Nat \ {0}
  BY LifecycleAssumption
<1>1. CASE BeginBatch
  <2>1. /\ batch' \subseteq Waiting
        /\ Cardinality(batch') = LowerOf(Concurrency, Cardinality(Waiting))
    BY <1>1 DEF BeginBatch
  <2>2. IsFiniteSet(Waiting)
    <3>1. Waiting \in SUBSET Node
      BY <1>1, PhaseNodes DEF Waiting, BeginBatch, TypeOK
    <3> QED BY <3>1, FS_Subset, LifecycleAssumption
  <2>3. IsFiniteSet(batch')
    BY <2>1, <2>2, FS_Subset
  <2>4. Cardinality(Waiting) \in Nat
    BY <2>2, FS_CardinalityType
  <2> QED BY <1>0, <2>1, <2>3, <2>4 DEF BatchBounded, LowerOf
<1>2. CASE EndPhase
  BY <1>0, <1>2, FS_EmptySet DEF EndPhase, BatchBounded
<1>3. CASE UNCHANGED batch
  BY <1>3 DEF BatchBounded
<1>4. ASSUME NEW n \in Node, Spawning(n) \/ Die(n)
      PROVE  UNCHANGED batch
  BY <1>4, SpawnFrame
<1>5. ASSUME NEW a \in Actors, Teardown(a)
      PROVE  UNCHANGED batch
  BY <1>5, TeardownFrame DEF launchVars
<1>6. CASE Launcher /\ ~BeginBatch /\ ~EndPhase
  <2>1. UNCHANGED batch
    BY <1>6 DEF Launcher, GenerateSpec, CreateNetwork, Refuse, Setup, BeginVerify, CheckNode,
                Launch, SaveNetwork, Catch, launchVars
  <2> QED BY <1>3, <2>1
<1>7. CASE (\E s \in Signals : Signal(s)) \/ TimerFires \/ UNCHANGED vars
  <2>1. UNCHANGED batch
    BY <1>7 DEF Signal, TimerFires, vars, launchVars
  <2> QED BY <1>3, <2>1
<1> QED BY <1>1, <1>2, <1>3, <1>4, <1>5, <1>6, <1>7 DEF Next

LEMMA BatchOfOne == BatchBounded => OneAtATime
<1> SUFFICES ASSUME BatchBounded, Concurrency = 1 PROVE \A m, n \in batch : m = n
  BY DEF OneAtATime
<1>1. Cardinality(batch) \in Nat /\ Cardinality(batch) <= 1
  BY FS_CardinalityType DEF BatchBounded
<1>2. Cardinality(batch) = 0 \/ Cardinality(batch) = 1
  BY <1>1
<1>3. batch = {} \/ \E n : batch = {n}
  BY <1>2, FS_EmptySet, FS_Singleton DEF BatchBounded
<1> QED BY <1>3

\* When start() throws, the node that failed was the only one being spawned.
LEMMA FailedIsIdleStep ==
    ASSUME SafetyInv, OneAtATime, FailedIsIdle, [Next]_vars
    PROVE  FailedIsIdle'
<1> USE DEF SafetyInv, TypeOK, FailedIsIdle, InFlight
<1>1. CASE Catch
  <2> SUFFICES ASSUME Concurrency = 1, NEW n \in Node
               PROVE  task[n] \notin InFlight
    BY <1>1 DEF Catch
  <2>1. CASE stage \in {"config", "prompt", "setup"}
    BY <2>1 DEF BeforeNetwork
  <2>2. CASE stage = "spawn"
    BY <1>1, <2>2 DEF Catch, Throws, BatchIsCurrent, OneAtATime
  <2>3. CASE stage \in {"verify", "launched"}
    <3>1. PICK p \in 1..Len(Phases) : n \in Phases[p]
      BY PhaseNodes
    <3>2. p < phase
      BY <2>3, PhaseNodes DEF Bookkeeping, Launched
    <3> QED BY <3>1, <3>2 DEF Bookkeeping
  <2> QED BY <1>1, <2>1, <2>2, <2>3 DEF Catch, Throws
<1>2. CASE Launcher /\ ~Catch
  <2>1. CASE GenerateSpec \/ CreateNetwork \/ Setup \/ BeginVerify \/ Launch
            \/ SaveNetwork
    BY <2>1 DEF GenerateSpec, CreateNetwork, Setup, BeginVerify, Launch,
                SaveNetwork, Stage
  <2>2. CASE Refuse \/ BeginBatch \/ EndPhase \/ \E n \in Node : CheckNode(n)
    BY <2>2 DEF Refuse, BeginBatch, EndPhase, CheckNode, launchVars
  <2> QED BY <1>2, <2>1, <2>2 DEF Launcher
<1>3. ASSUME NEW n \in Node, Spawning(n) \/ Die(n)
      PROVE  FailedIsIdle'
  BY <1>3 DEF Spawning, PrepareFails, SpawnProcess, FirstPs, Ready, SpawnFails, Die,
              TaskStep, launchVars
<1>4. CASE (\E s \in Signals : Signal(s)) \/ TimerFires
  BY <1>4 DEF Signal, TimerFires, launchVars
<1>5. ASSUME NEW a \in Actors, Teardown(a)
      PROVE  FailedIsIdle'
  BY <1>5, TeardownFrame DEF launchVars
<1>6. CASE UNCHANGED vars
  BY <1>6 DEF vars, launchVars
<1> QED BY <1>1, <1>2, <1>3, <1>4, <1>5, <1>6 DEF Next

\* Before the network, and while it is set up, no process was spawned.
LEMMA NothingYet ==
    ASSUME SafetyInv, stage \in {"config", "prompt", "setup"} \/ ~network
    PROVE  os = {}
<1>1. \A n \in Node : task[n] = "idle"
  BY DEF SafetyInv, BeforeNetwork
<1>2. recorded = {}
  BY <1>1 DEF SafetyInv, Bookkeeping, TypeOK
<1> QED BY <1>2 DEF SafetyInv, TypeOK

LEMMA CatchSoundStep ==
    ASSUME IInv, [Next]_vars
    PROVE  CatchSound'
<1> SUFFICES ASSUME Concurrency = 1 PROVE CatchSound'
  BY DEF CatchSound
<1> USE ActorFacts DEF CatchSound
<1>1. CASE Launcher
  <2>1. CASE GenerateSpec \/ CreateNetwork \/ Setup \/ BeginVerify \/ Launch
            \/ SaveNetwork
    BY <2>1 DEF GenerateSpec, CreateNetwork, Setup, BeginVerify, Launch,
                SaveNetwork, IInv, osVars, downVars
  <2>2. CASE BeginBatch \/ EndPhase \/ \E n \in Node : CheckNode(n)
    BY <2>2 DEF BeginBatch, EndPhase, CheckNode, IInv, osVars, downVars
  <2>3. CASE Refuse
    BY <2>3, NothingYet DEF Refuse, IInv, osVars, downVars
  <2>4. CASE Catch
    <3>1. CASE network
      BY <2>4, <3>1 DEF Catch, Throws, IInv, SafetyInv, TypeOK, Running, osVars
    <3>2. CASE ~network
      BY <2>4, <3>2, NothingYet DEF Catch, IInv, osVars
    <3> QED BY <3>1, <3>2
  <2> QED BY <1>1, <2>1, <2>2, <2>3, <2>4 DEF Launcher
<1>2. ASSUME NEW n \in Node, Spawning(n) \/ Die(n)
      PROVE  CatchSound'
  <2>1. UNCHANGED <<stage, downVars, exitedBy>>
    BY <1>2, SpawnFrame
  <2>2. CASE down["catch"] = "off" \/ ~SpawnProcess(n)
    <3>1. Running
      BY <1>2 DEF Spawning, PrepareFails, SpawnProcess, FirstPs, Ready, SpawnFails, Die, TaskStep
    <3>2. os' \subseteq os \/ down["catch"] = "off"
      BY <1>2, <2>2 DEF Spawning, PrepareFails, SpawnProcess, FirstPs, Ready, SpawnFails, Die,
                        osVars
    <3> QED BY <2>1, <3>1, <3>2 DEF IInv, downVars, Running
  <2>3. CASE down["catch"] # "off" /\ SpawnProcess(n)
    <3>1. stage = "failed" /\ task[n] = "preparing"
      BY <2>3 DEF IInv, SafetyInv, FlagSound, SpawnProcess, TaskStep
    <3> QED BY <3>1 DEF IInv, FailedIsIdle, InFlight
  <2> QED BY <2>2, <2>3
<1>3. ASSUME NEW h \in Handlers, HandleTermination(h), Running, UNCHANGED <<osVars, snap>>
      PROVE  CatchSound'
  BY <1>3 DEF HandleTermination, IInv, SafetyInv, TypeOK, Running, osVars
<1>4. ASSUME NEW s \in Signals, Signal(s)
      PROVE  CatchSound'
  BY <1>3, <1>4 DEF Signal
<1>5. CASE TimerFires
  <2>1. CASE HandleTermination("timeout")
    BY <1>3, <1>5, <2>1 DEF TimerFires
  <2>2. CASE UNCHANGED <<down, exitedBy>>
    BY <1>5, <2>2 DEF TimerFires, IInv, osVars
  <2> QED BY <1>5, <2>1, <2>2 DEF TimerFires
<1>6. ASSUME NEW a \in Actors, Teardown(a)
      PROVE  CatchSound'
  <2> USE <1>6 DEF IInv, SafetyInv, TypeOK
  <2>1. CASE AccessLogs(a) \/ MakeLogs(a)
    BY <2>1 DEF AccessLogs, MakeLogs, DownStep, Running
  <2>2. CASE ReadPids(a)
    BY <2>2 DEF ReadPids, DownStep, Running
  <2>3. CASE Grep(a)
    <3>1. PICK accident \in BOOLEAN :
            down' = [down EXCEPT ![a] =
                       IF snap[a] = {} \/ snap[a] \cap os # {} \/ accident
                       THEN "kill" ELSE "stopped"]
      BY <2>3 DEF Grep, DownStep
    <3> QED BY <2>3, <3>1 DEF Grep, DownStep, Running
  <2>4. CASE Kill(a)
    BY <2>4 DEF Kill, DownStep, Running
  <2>5. CASE Exit(a)
    BY <2>5 DEF Exit, Running, osVars, downVars
  <2> QED BY <2>1, <2>2, <2>3, <2>4, <2>5 DEF Teardown
<1>7. CASE UNCHANGED vars
  BY <1>7 DEF vars, osVars, downVars, IInv
<1> QED BY <1>1, <1>2, <1>4, <1>5, <1>6, <1>7 DEF Next

LEMMA InitIInv == Init => IInv
<1>1. Init => FailedIsIdle /\ CatchSound
  BY ActorFacts DEF Init, FailedIsIdle, InFlight, CatchSound
<1>2. Init => BatchBounded
  BY FS_EmptySet, LifecycleAssumption DEF Init, BatchBounded
<1> QED BY <1>1, <1>2, InitSafety DEF IInv

LEMMA Invariance == Spec => []IInv
<1>1. IInv /\ [Next]_vars => IInv'
  BY NextSafety, BatchBoundedStep, BatchOfOne, FailedIsIdleStep, CatchSoundStep
     DEF IInv, SafetyInv
<1> QED BY InitIInv, <1>1, PTL DEF Spec

(***************************************************************************)
(* What is being spawned is in the batch, and the batch is bounded.        *)
(***************************************************************************)
THEOREM SpawnsAreBounded == Spec => []SpawnsBounded
<1>1. IInv => SpawnsBounded
  <2> SUFFICES ASSUME IInv PROVE SpawnsBounded
    OBVIOUS
  <2>1. BeingSpawned \subseteq batch
    BY DEF IInv, SafetyInv, BatchIsCurrent, InFlight, BeingSpawned
  <2>2. /\ IsFiniteSet(BeingSpawned)
        /\ Cardinality(BeingSpawned) <= Cardinality(batch)
        /\ Cardinality(batch) \in Nat /\ Cardinality(BeingSpawned) \in Nat
    BY <2>1, FS_Subset, FS_CardinalityType DEF IInv, BatchBounded
  <2> QED BY <2>2, LifecycleAssumption DEF IInv, BatchBounded, SpawnsBounded
<1> QED BY <1>1, Invariance, PTL

(***************************************************************************)
(* With one spawn at a time, the stop() of a failed start() leaves no      *)
(* process of the network, for any interleaving with the handlers, unless  *)
(* dumpLogs() before it is rejected.                                       *)
(***************************************************************************)
THEOREM FailureCleansUp == Spec => []FailedLaunchLeavesNothing
<1>1. IInv => FailedLaunchLeavesNothing
  BY DEF IInv, CatchSound, FailedLaunchLeavesNothing
<1> QED BY <1>1, Invariance, PTL
-----------------------------------------------------------------------------
(* The refinement of NetworkRun.                                           *)

LEMMA PromiseFacts ==
    /\ stage = "up" => Promise = "up"
    /\ stage = "failed" => Promise = "caught"
    /\ stage \notin {"up", "failed"} => Promise = "pending"
  BY DEF Promise

Starts == [n \in Node |-> IF n \in recorded THEN 1 ELSE 0]

LEMMA ActorsEnd == \A a \in Actors : a # "none"
  BY LifecycleAssumption DEF Actors, Handlers

\* What the abstract launch does not see.
LEMMA Unseen ==
    ASSUME Promise' = Promise, UNCHANGED <<osVars, exitedBy>>
    PROVE  UNCHANGED Abstract!vars
  BY DEF osVars, Running, Abstract!vars

\* The program ends, and nothing else happens.
LEMMA Ends ==
    ASSUME Running, exitedBy' # "none", stage' = stage, UNCHANGED osVars
    PROVE  Abstract!Next
<1>1. Promise' = Promise
  BY DEF Promise
<1>2. Abstract!End
  BY <1>1 DEF osVars, Running, Abstract!End
<1> QED BY <1>2 DEF Abstract!Next

\* Processes end, and nothing else happens.
LEMMA Dies ==
    ASSUME Running, os' \subseteq os, recorded' = recorded, exitedBy' = exitedBy,
           Promise' = Promise
    PROVE  Abstract!Next
<1>1. PICK lost \in SUBSET (os \X {1}) : (os \X {1})' = (os \X {1}) \ lost
  <2>1. /\ (os \X {1}) \ (os' \X {1}) \in SUBSET (os \X {1})
        /\ (os \X {1})' = (os \X {1}) \ ((os \X {1}) \ (os' \X {1}))
    OBVIOUS
  <2> QED BY <2>1
<1>2. Abstract!Lose(lost)
  BY <1>1 DEF Running, Abstract!Lose
<1> QED BY <1>2 DEF Abstract!Next

LEMMA LauncherRefines ==
    ASSUME SafetyInv, Launcher
    PROVE  [Abstract!Next]_(Abstract!vars)
<1>1. CASE GenerateSpec \/ CreateNetwork \/ Setup \/ BeginBatch \/ EndPhase
           \/ BeginVerify \/ (\E n \in Node : CheckNode(n)) \/ Launch
  <2>1. stage \notin {"up", "failed"} /\ stage' \notin {"up", "failed"}
    BY <1>1 DEF GenerateSpec, CreateNetwork, Setup, BeginBatch, EndPhase, BeginVerify,
                CheckNode, Launch, Stage
  <2>2. Promise' = Promise
    BY <2>1 DEF Promise
  <2>3. UNCHANGED <<osVars, exitedBy>>
    BY <1>1 DEF GenerateSpec, CreateNetwork, Setup, BeginBatch, EndPhase, BeginVerify,
                CheckNode, Launch
  <2> QED BY <2>2, <2>3, Unseen
<1>2. CASE Refuse
  <2>1. Running /\ exitedBy' # "none" /\ stage' = stage /\ UNCHANGED osVars
    BY <1>2 DEF Refuse, launchVars
  <2> QED BY <2>1, Ends
<1>3. CASE SaveNetwork
  <2>1. Running /\ stage = "launched" /\ stage' = "up" /\ UNCHANGED <<osVars, exitedBy>>
    BY <1>3 DEF SaveNetwork, Stage
  <2>2. Promise = "pending" /\ Promise' = "up"
    BY <2>1 DEF Promise
  <2>3. \A n \in Node : n \in recorded
    <3>1. Registered = Node
      BY <2>1 DEF SafetyInv, LaunchedMeansVerified, Launched
    <3>2. \A n \in Node : task[n] = "registered"
      BY <3>1 DEF Registered
    <3> QED BY <3>2 DEF SafetyInv, Bookkeeping
  <2>4. Abstract!Fulfil
    BY <2>1, <2>2, <2>3 DEF osVars, Running, Abstract!Fulfil
  <2> QED BY <2>4 DEF Abstract!Next
<1>4. CASE Catch
  <2>1. Running /\ stage \notin {"up", "failed"} /\ stage' = "failed" /\ UNCHANGED osVars
    BY <1>4 DEF Catch, Throws
  <2>2. Promise = "pending" /\ Promise' = "caught"
    BY <2>1 DEF Promise
  <2>3. Abstract!Reject
    BY <2>1, <2>2 DEF osVars, Running, Abstract!Reject
  <2> QED BY <2>3 DEF Abstract!Next
<1> QED BY <1>1, <1>2, <1>3, <1>4 DEF Launcher

LEMMA SpawningRefines ==
    ASSUME SafetyInv, NEW n \in Node, Spawning(n) \/ Die(n)
    PROVE  [Abstract!Next]_(Abstract!vars)
<1>1. /\ Running /\ stage' = stage /\ exitedBy' = exitedBy
      /\ Promise' = Promise
  BY DEF Spawning, PrepareFails, SpawnProcess, FirstPs, Ready, SpawnFails, Die, TaskStep,
         launchVars, Promise
<1>2. CASE PrepareFails(n) \/ FirstPs(n) \/ Ready(n) \/ SpawnFails(n)
  <2>1. UNCHANGED osVars
    BY <1>2 DEF PrepareFails, FirstPs, Ready, SpawnFails
  <2> QED BY <1>1, <2>1, Unseen
<1>3. CASE SpawnProcess(n)
  <2>1. task[n] = "preparing" /\ recorded' = recorded \cup {n} /\ os' = os \cup {n}
    BY <1>3 DEF SpawnProcess, TaskStep
  <2>2. n \notin recorded
    BY <2>1 DEF SafetyInv, Bookkeeping
  <2>3. stage # "up"
    BY <2>1 DEF SafetyInv, LaunchedMeansVerified, Launched, Registered
  <2>4. Promise # "up"
    BY <2>3 DEF Promise
  <2>5. Starts[n] = 0 /\ Starts' = [Starts EXCEPT ![n] = Starts[n] + 1]
    <3>1. Starts[n] = 0
      BY <2>2 DEF Starts
    <3>2. Starts' = [m \in Node |-> IF m = n THEN 1 ELSE Starts[m]]
      BY <2>1 DEF Starts
    <3>3. [Starts EXCEPT ![n] = 1] = [m \in Node |-> IF m = n THEN 1 ELSE Starts[m]]
      BY DEF Starts
    <3> QED BY <3>1, <3>2, <3>3
  <2>6. \A p \in os \X {1} : p[1] # n
    BY <2>2 DEF SafetyInv, TypeOK
  <2>7. (os \X {1})' = (os \X {1}) \cup {<<n, Starts[n] + 1>>}
    BY <2>1, <2>5
  <2>8. Abstract!Spawn(n)
    BY <1>1, <2>4, <2>5, <2>6, <2>7
       DEF Running, Starts, Abstract!Spawn, Abstract!Start, Abstract!HasProcess
  <2> QED BY <2>8 DEF Abstract!Next
<1>4. CASE Die(n)
  <2>1. os' \subseteq os /\ recorded' = recorded
    BY <1>4 DEF Die
  <2> QED BY <1>1, <2>1, Dies
<1> QED BY <1>2, <1>3, <1>4 DEF Spawning

LEMMA HandlerRefines ==
    ASSUME NEW h \in Handlers, Running, stage' = stage, UNCHANGED osVars,
           HandleTermination(h) \/ exitedBy' = exitedBy
    PROVE  [Abstract!Next]_(Abstract!vars)
<1>1. CASE exitedBy' = exitedBy
  <2>1. Promise' = Promise
    BY DEF Promise
  <2> QED BY <1>1, <2>1, Unseen
<1>2. CASE exitedBy' # exitedBy
  <2>1. exitedBy' = h /\ h # "none"
    BY <1>2, ActorsEnd DEF HandleTermination, Actors
  <2> QED BY <2>1, Ends
<1> QED BY <1>1, <1>2

LEMMA TeardownRefines ==
    ASSUME SafetyInv, NEW a \in Actors, Teardown(a)
    PROVE  [Abstract!Next]_(Abstract!vars)
<1>1. Running /\ stage' = stage /\ recorded' = recorded /\ Promise' = Promise
  BY DEF Teardown, AccessLogs, MakeLogs, ReadPids, Grep, Kill, Exit, DownStep, launchVars,
         osVars, Promise
<1>2. CASE AccessLogs(a) \/ MakeLogs(a) \/ ReadPids(a) \/ Grep(a)
  <2>1. UNCHANGED <<osVars, exitedBy>>
    BY <1>2 DEF AccessLogs, MakeLogs, ReadPids, Grep, DownStep, osVars
  <2> QED BY <1>1, <2>1, Unseen
<1>3. CASE Kill(a)
  <2>1. os' \subseteq os /\ exitedBy' = exitedBy
    BY <1>3 DEF Kill, DownStep
  <2> QED BY <1>1, <2>1, Dies
<1>4. CASE Exit(a)
  <2>1. exitedBy' # "none" /\ UNCHANGED osVars
    BY <1>4, ActorsEnd DEF Exit
  <2> QED BY <1>1, <2>1, Ends
<1> QED BY <1>2, <1>3, <1>4 DEF Teardown

LEMMA InitRefines == Init => Abstract!Init
  BY DEF Init, Running, Promise, Abstract!Init

LEMMA StepRefines == SafetyInv /\ [Next]_vars => [Abstract!Next]_(Abstract!vars)
<1> SUFFICES ASSUME SafetyInv, [Next]_vars
             PROVE  [Abstract!Next]_(Abstract!vars)
  OBVIOUS
<1>1. ASSUME NEW s \in Signals, Signal(s)
      PROVE  [Abstract!Next]_(Abstract!vars)
  BY <1>1, HandlerRefines DEF Signal, launchVars, Handlers
<1>2. CASE TimerFires
  BY <1>2, HandlerRefines DEF TimerFires, Handlers
<1>3. CASE UNCHANGED vars
  <2>1. Promise' = Promise
    BY <1>3 DEF vars, launchVars, Promise
  <2> QED BY <1>3, <2>1, Unseen DEF vars
<1> QED BY <1>1, <1>2, <1>3, LauncherRefines, SpawningRefines, TeardownRefines DEF Next

(***************************************************************************)
(* Whatever fails, hangs or is interrupted, the launch is the one that     *)
(* NetworkRun describes.                                                   *)
(***************************************************************************)
THEOREM Refinement == Spec => ImplementsNetworkRun
<1>1. SafetyInv /\ [Next]_vars => [Abstract!Next]_(Abstract!vars)
  BY StepRefines
<1> QED BY <1>1, InitRefines, SafetyInvariance, PTL
        DEF Spec, ImplementsNetworkRun, Abstract!Spec
=============================================================================
