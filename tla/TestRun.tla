------------------------------- MODULE TestRun -------------------------------
(***************************************************************************)
(* One `zombienet test` on the native provider (test-runner/index.ts): the *)
(* hook that launches the network or attaches to a running one, the tests  *)
(* one after the other, the hook that tears the network down, and what may *)
(* end the program in between.  A restart of several nodes is as many      *)
(* promises; when one of them rejects the test fails at once, and the      *)
(* others go on below the tests that follow and the teardown.              *)
(***************************************************************************)
EXTENDS Integers, Sequences, FiniteSets

CONSTANTS
    Node,   \* the nodes of the network
    Test    \* the tests: records of kind and the nodes they are about

ASSUME TestRunAssumption ==
    /\ IsFiniteSet(Node)
    /\ Test \in Seq([kind : {"assert", "signal", "restart"}, nodes : SUBSET Node])

VARIABLES
    attached,    \* a running network was given: network.wasRunning
    stage,       \* what mocha runs: "launch", "tests", "teardown" or "over"
    start,       \* where start() is, or the attaching
    hookFailed,  \* the launching hook has timed out
    result,      \* the state of each test
    op,          \* what each test does to each node
    recorded,    \* processMap[name].pid: which process of the node, 0 for none
    os,          \* the processes that are alive, as <<node, number>>
    down,        \* the progress of the teardown of start() and of the last hook
    snap,        \* the pids each of them has read
    exit         \* what ended the program, with which code

runVars == <<attached, stage, start, hookFailed, result>>
vars == <<runVars, op, recorded, os, down, snap, exit>>

Tests == 1..Len(Test)
Actors == {"catch", "hook"}
Running == stage # "over"
NotOver == [by |-> "none", code |-> 0]

Settled == {"passed", "failed"}
Begun(t) == result[t] # "todo"

\* The variable network of the test command.
Network == start = "up"

Init ==
    /\ attached \in BOOLEAN
    /\ stage = "launch"
    /\ start = "pending"
    /\ hookFailed = FALSE
    /\ result = [t \in Tests |-> "todo"]
    /\ op = [t \in Tests |-> [n \in Node |-> "off"]]
    /\ recorded = [n \in Node |-> 0]
    /\ os = IF attached THEN {<<n, 1>> : n \in Node} ELSE {}
    /\ down = [a \in Actors |-> "off"]
    /\ snap = [a \in Actors |-> {}]
    /\ exit = NotOver

Current(n) == <<n, recorded[n]>>

\* process.exit(): the listener of "exit" in cli.ts, being asynchronous, does not
\* get past its await, and changes nothing.
Exit(by, code) ==
    /\ stage' = "over"
    /\ exit' = [by |-> by, code |-> code]

-----------------------------------------------------------------------------
(* The launch.                                                             *)

\* spawnNode() of one node, also next to the catch block.
Spawn(n) ==
    /\ Running
    /\ ~attached
    /\ start \in {"pending", "caught"}
    /\ recorded[n] = 0
    /\ recorded' = [recorded EXCEPT ![n] = 1]
    /\ os' = os \cup {<<n, 1>>}
    /\ UNCHANGED <<runVars, op, down, snap, exit>>

\* start() returns, or rebuildNetwork() with a client that knows no process.
StartReturns ==
    /\ Running
    /\ start = "pending"
    /\ attached \/ \A n \in Node : recorded[n] # 0
    /\ start' = "up"
    /\ UNCHANGED <<attached, stage, hookFailed, result, op, recorded, os, down, snap, exit>>

StartThrows ==
    /\ Running
    /\ start = "pending"
    /\ ~attached
    /\ start' = "caught"
    /\ down' = [down EXCEPT !["catch"] = "dump"]
    /\ UNCHANGED <<attached, stage, hookFailed, result, op, recorded, os, snap, exit>>

\* The catch block of the hook: the provider of the running network is another
\* one, or the teardown of start() rejects.
HookCatches ==
    /\ Running
    /\ \/ attached /\ start = "pending"
       \/ down["catch"] \in {"dump", "kill"}
    /\ Exit("launch", 100)
    /\ UNCHANGED <<attached, start, hookFailed, result, op, recorded, os, down, snap>>

\* start() has torn down what it knows and calls process.exit(1).
StartExits ==
    /\ Running
    /\ down["catch"] = "done"
    /\ Exit("launch", 1)
    /\ UNCHANGED <<attached, start, hookFailed, result, op, recorded, os, down, snap>>

\* The global timeout of start(): an uncaught exception, and cli.ts has no
\* network to tear down.
GlobalTimeout ==
    /\ Running
    /\ ~attached
    /\ start \in {"pending", "caught"}
    /\ Exit("timeout", 100)
    /\ UNCHANGED <<attached, start, hookFailed, result, op, recorded, os, down, snap>>

\* The afterAll hook begins; it looks at the network once.
BeginTeardown ==
    /\ stage' = "teardown"
    /\ down' = [down EXCEPT !["hook"] = IF Network /\ ~attached THEN "dump" ELSE "done"]

LaunchDone ==
    /\ stage = "launch"
    /\ Network
    /\ stage' = "tests"
    /\ UNCHANGED <<attached, start, hookFailed, result, op, recorded, os, down, snap, exit>>

\* Mutant of HookTimesOut: the hook does not count as a failure.
HookTimesOutUncounted ==
    /\ stage = "launch"
    /\ BeginTeardown
    /\ UNCHANGED <<attached, start, hookFailed, result, op, recorded, os, snap, exit>>

\* mocha does not wait any longer: the tests are skipped, start() goes on.
HookTimesOut ==
    /\ stage = "launch"
    /\ hookFailed' = TRUE
    /\ BeginTeardown
    /\ UNCHANGED <<attached, start, result, op, recorded, os, snap, exit>>

-----------------------------------------------------------------------------
(* The tests.                                                              *)

BeginTest(t) ==
    /\ stage = "tests"
    /\ result[t] = "todo"
    /\ \A s \in 1..(t - 1) : result[s] \in Settled
    /\ result' = [result EXCEPT ![t] = "running"]
    /\ op' = [op EXCEPT ![t] =
                [n \in Node |-> IF n \in Test[t].nodes THEN "todo" ELSE "off"]]
    /\ UNCHANGED <<attached, stage, start, hookFailed, recorded, os, down, snap, exit>>

\* Promise.all() over the nodes; restart() is true whatever restartNode() says.
EndTest(t) ==
    /\ Running
    /\ result[t] = "running"
    /\ LET S == {op[t][n] : n \in Test[t].nodes} IN
         IF "failed" \in S THEN result' = [result EXCEPT ![t] = "failed"]
         ELSE /\ S \subseteq {"done", "refused"}
              /\ result' = [result EXCEPT ![t] = "passed"]
    /\ UNCHANGED <<attached, stage, start, hookFailed, op, recorded, os, down, snap, exit>>

OpStep(t, n, kind, from) ==
    /\ Running
    /\ Test[t].kind = kind
    /\ op[t][n] = from
    /\ UNCHANGED <<runVars, down, snap, exit>>

To(t, n, to) == op' = [op EXCEPT ![t][n] = to]

Assert(t, n) ==
    /\ OpStep(t, n, "assert", "todo")
    /\ \E to \in {"done", "failed"} : To(t, n, to)
    /\ UNCHANGED <<recorded, os>>

\* pause() and resume(): kill must succeed.  Of a network that was running
\* before, no process is known.
Signal(t, n) ==
    /\ OpStep(t, n, "signal", "todo")
    /\ To(t, n, IF Current(n) \in os THEN "done" ELSE "failed")
    /\ UNCHANGED <<recorded, os>>

\* Mutant of Kill: the exit code of kill -9 is not looked at.
KillUnchecked(t, n) ==
    /\ OpStep(t, n, "restart", "todo")
    /\ To(t, n, IF recorded[n] = 0 THEN "failed" ELSE "asleep")
    /\ os' = os \ {Current(n)}
    /\ UNCHANGED recorded

\* restartNode(): kill -9, and false if that fails.
Kill(t, n) ==
    /\ OpStep(t, n, "restart", "todo")
    /\ To(t, n, IF recorded[n] = 0 THEN "failed"
                ELSE IF Current(n) \in os THEN "asleep" ELSE "refused")
    /\ os' = os \ {Current(n)}
    /\ UNCHANGED recorded

\* After the sleep.
SpawnAgain(t, n) ==
    /\ OpStep(t, n, "restart", "asleep")
    /\ To(t, n, "booting")
    /\ recorded' = [recorded EXCEPT ![n] = @ + 1]
    /\ os' = os \cup {<<n, recorded[n] + 1>>}

\* wait_node_ready(): the first ps of the pid that is recorded by then.
FirstPs(t, n) ==
    /\ OpStep(t, n, "restart", "booting")
    /\ To(t, n, IF Current(n) \in os THEN "logging" ELSE "failed")
    /\ UNCHANGED <<recorded, os>>

\* The log grows or not, the second ps finds the process or not.
Ready(t, n) ==
    /\ OpStep(t, n, "restart", "logging")
    /\ \E to \in {"done", "failed"} : To(t, n, to)
    /\ UNCHANGED <<recorded, os>>

Die(p) ==
    /\ Running
    /\ p \in os
    /\ os' = os \ {p}
    /\ UNCHANGED <<runVars, op, recorded, down, snap, exit>>

-----------------------------------------------------------------------------
(* The teardown, and the end.                                              *)

EndTests ==
    /\ stage = "tests"
    /\ \A t \in Tests : result[t] \in Settled
    /\ BeginTeardown
    /\ UNCHANGED <<attached, start, hookFailed, result, op, recorded, os, snap, exit>>

\* Mutant of ReadPids: the pids of the launch.
ReadFirstPids(a) ==
    /\ Running
    /\ down[a] = "dump"
    /\ down' = [down EXCEPT ![a] = "kill"]
    /\ snap' = [snap EXCEPT ![a] = {<<n, 1>> : n \in {m \in Node : recorded[m] # 0}}]
    /\ UNCHANGED <<runVars, op, recorded, os, exit>>

\* dumpLogs(), then destroyNamespace() up to its reading of processMap.
ReadPids(a) ==
    /\ Running
    /\ down[a] = "dump"
    /\ down' = [down EXCEPT ![a] = "kill"]
    /\ snap' = [snap EXCEPT ![a] = {Current(n) : n \in {m \in Node : recorded[m] # 0}}]
    /\ UNCHANGED <<runVars, op, recorded, os, exit>>

\* ps and kill -9; what is thrown when nothing of it lives is caught.
KillAll(a) ==
    /\ Running
    /\ down[a] = "kill"
    /\ down' = [down EXCEPT ![a] = "done"]
    /\ os' = os \ snap[a]
    /\ UNCHANGED <<runVars, op, recorded, snap, exit>>

Failures == Cardinality({t \in Tests : result[t] = "failed"}) + IF hookFailed THEN 1 ELSE 0

\* exitMocha(): after the teardown, or three minutes of it.
ExitMocha ==
    /\ stage = "teardown"
    /\ Exit("mocha", IF Failures <= 255 THEN Failures ELSE 255)
    /\ UNCHANGED <<attached, start, hookFailed, result, op, recorded, os, down, snap>>

\* SIGINT, SIGTERM: cli.ts has no network to tear down, and its process.exit() has
\* no code, which is 0: no process.exitCode is set before exitMocha(), and the
\* listener of "exit" that means to make it 2 is asynchronous: the program ends
\* at its first await.
Interrupt ==
    /\ Running
    /\ Exit("signal", 0)
    /\ UNCHANGED <<attached, start, hookFailed, result, op, recorded, os, down, snap>>

-----------------------------------------------------------------------------
Launch ==
    \/ (\E n \in Node : Spawn(n)) \/ StartReturns \/ StartThrows \/ StartExits
    \/ HookCatches \/ GlobalTimeout \/ LaunchDone \/ HookTimesOut

TestStep(t) ==
    \/ BeginTest(t) \/ EndTest(t)
    \/ \E n \in Node :
         \/ Assert(t, n) \/ Signal(t, n)
         \/ Kill(t, n) \/ SpawnAgain(t, n) \/ FirstPs(t, n) \/ Ready(t, n)

Next ==
    \/ Launch
    \/ \E t \in Tests : TestStep(t)
    \/ \E p \in os : Die(p)
    \/ EndTests
    \/ \E a \in Actors : ReadPids(a) \/ KillAll(a)
    \/ ExitMocha \/ Interrupt

Spec == Init /\ [][Next]_vars

-----------------------------------------------------------------------------
\* Tests run one after the other, and their nodes with them; only what start()
\* or a restart has spawned lives.
TypeOK ==
    /\ attached \in BOOLEAN
    /\ stage \in {"launch", "tests", "teardown", "over"}
    /\ start \in {"pending", "up", "caught"}
    /\ hookFailed \in BOOLEAN
    /\ result \in [Tests -> {"todo", "running", "passed", "failed"}]
    /\ \A t \in Tests : Begun(t) => \A s \in 1..(t - 1) : result[s] \in Settled
    /\ op \in [Tests -> [Node -> {"off", "todo", "asleep", "booting", "logging",
                                  "done", "refused", "failed"}]]
    /\ \A t \in Tests, n \in Node : op[t][n] # "off" => Begun(t) /\ n \in Test[t].nodes
    /\ recorded \in [Node -> Nat]
    /\ os \subseteq Node \X Nat
    /\ down \in [Actors -> {"off", "dump", "kill", "done"}]
    /\ snap \in [Actors -> SUBSET (Node \X Nat)]
    /\ exit \in [by : {"none", "mocha", "launch", "timeout", "signal"}, code : 0..255]

(***************************************************************************)
(* A node never has two processes, though restarts of it overlap when the  *)
(* rest of a failed test goes on: restartNode() gives up when it does not  *)
(* find the process to kill.                                               *)
(***************************************************************************)
NoTwins == \A p, q \in os : p[1] = q[1] => p = q

\* A restart that has failed may have left another asleep.
FailedRestart == \E t \in Tests : Test[t].kind = "restart" /\ result[t] = "failed"

(***************************************************************************)
(* The hook after the tests leaves no process behind when it gets through, *)
(* unless a restart had failed: then, and only then, the restart of        *)
(* another node may still be asleep as the pids are read.                  *)
(***************************************************************************)
TeardownFindsAll ==
    ~Running /\ down["hook"] = "done" /\ ~attached /\ Network /\ ~hookFailed /\ ~FailedRestart
      => os = {}

(***************************************************************************)
(* Unless a signal interrupted the run, its exit code is 0 exactly when    *)
(* mocha has come to its end with every test passed, on a network that was *)
(* up in time; whatever hooks, timeouts and catch blocks are in each       *)
(* other's way.  (An interrupted run exits with 0, whatever had failed.)   *)
(***************************************************************************)
ExitTellsTheTruth ==
    ~Running /\ exit.by # "signal" =>
        (exit.code = 0 <=> /\ exit.by = "mocha"
                           /\ ~hookFailed
                           /\ \A t \in Tests : result[t] = "passed")
-----------------------------------------------------------------------------
\* What the test command sees of the network.
Abstract == INSTANCE NetworkRun WITH
              launch <- start,
              starts <- recorded,
              alive <- os,
              ended <- ~Running

(***************************************************************************)
(* The launch below the hook, after its timeout as well, and the restarts  *)
(* of the tests, after the test has failed as well, implement what         *)
(* Lifecycle implements: a node gets another process only on a network     *)
(* that was up, and only when it has none.                                 *)
(***************************************************************************)
ImplementsNetworkRun == Abstract!Spec
=============================================================================
