---------------------------- MODULE TestRunProofs ----------------------------
(* Theorems about TestRun, for any network and any sequence of tests.         *)
EXTENDS TestRun, FiniteSetTheorems, TLAPS

-----------------------------------------------------------------------------
(* Types.                                                                  *)

LEMMA TypeInit == Init => TypeOK
<1> SUFFICES ASSUME Init PROVE TypeOK
    OBVIOUS
<1>1. os \subseteq Node \X Nat
    BY DEF Init
<1>2. exit \in [by : {"none", "mocha", "launch", "timeout", "signal"}, code : 0..255]
    BY DEF Init, NotOver
<1>3. \A t \in Tests : ~Begun(t) /\ \A n \in Node : op[t][n] = "off"
    BY DEF Init, Begun
<1> QED BY <1>1, <1>2, <1>3 DEF Init, TypeOK, Actors

LEMMA TestTypes ==
    /\ Len(Test) \in Nat
    /\ \A t \in Tests : Test[t].nodes \subseteq Node
<1>1. Test \in Seq([kind : {"assert", "signal", "restart"}, nodes : SUBSET Node])
    BY TestRunAssumption
<1>2. Len(Test) \in Nat
    BY <1>1
<1>3. ASSUME NEW t \in 1..Len(Test) PROVE Test[t].nodes \subseteq Node
    <2> DEFINE R == [kind : {"assert", "signal", "restart"}, nodes : SUBSET Node]
    <2> HIDE DEF R
    <2>1. Test \in Seq(R)
        BY <1>1 DEF R
    <2>2. Test[t] \in R
        BY <2>1
    <2> QED BY <2>2 DEF R
<1> QED BY <1>2, <1>3 DEF Tests

LEMMA FailuresNat == Failures \in Nat
<1> DEFINE F == {t \in Tests : result[t] = "failed"}
<1>1. IsFiniteSet(F) /\ Cardinality(F) \in Nat
    <2>1. IsFiniteSet(1..Len(Test))
        <3>1. Len(Test) \in Int /\ 1 \in Int
            BY TestTypes
        <3> QED BY <3>1, FS_Interval
    <2>2. F \subseteq 1..Len(Test)
        BY DEF Tests
    <2> QED BY <2>1, <2>2, FS_Subset, FS_CardinalityType
<1>2. Failures = Cardinality(F) + IF hookFailed THEN 1 ELSE 0
    BY DEF Failures
<1> HIDE DEF F
<1> QED BY <1>1, <1>2

LEMMA TypeLaunch == TypeOK /\ Launch => TypeOK'
<1> SUFFICES ASSUME TypeOK, Launch PROVE TypeOK'
    OBVIOUS
<1> USE DEF TypeOK, Begun, Exit, runVars, Actors, Running, Settled
<1>1. ASSUME NEW n \in Node, Spawn(n) PROVE TypeOK'
    BY <1>1 DEF Spawn
<1>2. CASE StartReturns
    BY <1>2 DEF StartReturns
<1>3. CASE StartThrows
    BY <1>3 DEF StartThrows
<1>4. CASE StartExits \/ HookCatches \/ GlobalTimeout
    BY <1>4 DEF StartExits, HookCatches, GlobalTimeout
<1>5. CASE LaunchDone
    BY <1>5 DEF LaunchDone
<1>6. CASE HookTimesOut
    BY <1>6 DEF HookTimesOut, BeginTeardown
<1> QED BY <1>1, <1>2, <1>3, <1>4, <1>5, <1>6 DEF Launch

LEMMA TypeTest == ASSUME TypeOK, NEW t \in Tests, TestStep(t) PROVE TypeOK'
<1> USE DEF TypeOK, Begun, runVars, Running, Settled
<1>1. CASE BeginTest(t)
    <2>1. /\ result' = [result EXCEPT ![t] = "running"]
          /\ result[t] = "todo"
          /\ \A s \in 1..(t - 1) : result[s] \in Settled
          /\ op' = [op EXCEPT ![t] =
                [n \in Node |-> IF n \in Test[t].nodes THEN "todo" ELSE "off"]]
          /\ UNCHANGED <<attached, stage, start, hookFailed, recorded, os, down, snap, exit>>
        BY <1>1 DEF BeginTest
    <2>2. \A u \in Tests : Begun(u)' => \A s \in 1..(u - 1) : result'[s] \in Settled
        <3> SUFFICES ASSUME NEW u \in Tests, Begun(u)', NEW s \in 1..(u - 1)
                     PROVE result'[s] \in Settled
            OBVIOUS
        <3>1. s \in Tests /\ s < u
            BY TestTypes DEF Tests
        <3>2. CASE u = t
            BY <2>1, <3>1, <3>2 DEF Tests
        <3>3. CASE u # t
            BY <2>1, <3>1, <3>3
        <3> QED BY <3>2, <3>3
    <2>3. \A u \in Tests, n \in Node :
            op'[u][n] # "off" => Begun(u)' /\ n \in Test[u].nodes
        BY <2>1
    <2> QED BY <2>1, <2>2, <2>3
<1>2. CASE EndTest(t)
    <2>1. PICK r \in Settled : result' = [result EXCEPT ![t] = r]
        BY <1>2 DEF EndTest
    <2>2. UNCHANGED <<attached, stage, start, hookFailed, op, recorded, os, down, snap, exit>>
          /\ result[t] = "running"
        BY <1>2 DEF EndTest
    <2>3. \A u \in Tests : Begun(u)' => Begun(u)
        BY <2>1, <2>2
    <2>4. \A u \in Tests : Begun(u) => Begun(u)'
        BY <2>1, <2>2
    <2>5. \A u \in Tests : \A s \in 1..(u - 1) : s \in Tests
        BY TestTypes DEF Tests
    <2>6. \A u \in Tests : Begun(u)' => \A s \in 1..(u - 1) : result'[s] \in Settled
        BY <2>1, <2>3, <2>5
    <2> QED BY <2>1, <2>2, <2>4, <2>6
<1>3. ASSUME NEW n \in Node,
             Assert(t, n) \/ Signal(t, n) \/ Kill(t, n) \/ SpawnAgain(t, n)
               \/ FirstPs(t, n) \/ Ready(t, n)
      PROVE TypeOK'
    <2>1. /\ UNCHANGED <<runVars, down, snap, exit>>
          /\ op[t][n] # "off"
          /\ \E to \in {"asleep", "booting", "logging", "done", "refused", "failed"} :
               op' = [op EXCEPT ![t][n] = to]
        BY <1>3 DEF Assert, Signal, Kill, SpawnAgain, FirstPs, Ready, OpStep, To
    <2>2. /\ recorded' \in [Node -> Nat]
          /\ os' \subseteq Node \X Nat
        BY <1>3 DEF Assert, Signal, Kill, SpawnAgain, FirstPs, Ready
    <2> QED BY <2>1, <2>2
<1> QED BY <1>1, <1>2, <1>3 DEF TestStep

LEMMA TypeRest ==
    TypeOK /\ (\/ \E p \in os : Die(p)
               \/ EndTests
               \/ \E a \in Actors : ReadPids(a) \/ KillAll(a)
               \/ ExitMocha \/ Interrupt) => TypeOK'
<1> SUFFICES ASSUME TypeOK,
                    \/ \E p \in os : Die(p)
                    \/ EndTests
                    \/ \E a \in Actors : ReadPids(a) \/ KillAll(a)
                    \/ ExitMocha \/ Interrupt
             PROVE TypeOK'
    OBVIOUS
<1> USE DEF TypeOK, Begun, Exit, runVars, Actors, Running, Settled
<1>1. ASSUME NEW p \in os, Die(p) PROVE TypeOK'
    BY <1>1 DEF Die
<1>2. CASE EndTests
    BY <1>2 DEF EndTests, BeginTeardown
<1>3. ASSUME NEW a \in Actors, ReadPids(a) PROVE TypeOK'
    BY <1>3 DEF ReadPids, Current
<1>4. ASSUME NEW a \in Actors, KillAll(a) PROVE TypeOK'
    BY <1>4 DEF KillAll
<1>5. CASE ExitMocha
    <2> DEFINE code == IF Failures <= 255 THEN Failures ELSE 255
    <2>1. code \in 0..255
        BY FailuresNat
    <2>2. /\ stage' = "over"
          /\ exit' = [by |-> "mocha", code |-> code]
          /\ UNCHANGED <<attached, start, hookFailed, result, op, recorded, os, down, snap>>
        BY <1>5 DEF ExitMocha
    <2> HIDE DEF code
    <2> QED BY <2>1, <2>2
<1>6. CASE Interrupt
    BY <1>6 DEF Interrupt
<1> QED BY <1>1, <1>2, <1>3, <1>4, <1>5, <1>6

LEMMA TypeNext == TypeOK /\ [Next]_vars => TypeOK'
<1> SUFFICES ASSUME TypeOK, [Next]_vars PROVE TypeOK'
    OBVIOUS
<1>1. CASE Next
    BY <1>1, TypeLaunch, TypeTest, TypeRest DEF Next
<1>2. CASE UNCHANGED vars
    BY <1>2 DEF vars, runVars, TypeOK, Begun
<1> QED BY <1>1, <1>2

(* The type invariant holds in every state.                                *)
THEOREM TypeCorrect == Spec => []TypeOK
<1> QED BY TypeInit, TypeNext, PTL DEF Spec

-----------------------------------------------------------------------------
(* Processes.                                                              *)

\* Nothing of a running network is recorded.
Unknown == attached => \A n \in Node : recorded[n] = 0

\* What lives is the first process of a running network, or what is recorded.
Known == \A p \in os : IF attached THEN p[2] = 1 ELSE p[2] = recorded[p[1]] /\ p[2] # 0

\* Between the kill and the spawn of a restart the node has no process, and no
\* other restart of it is there.
Asleep == \A t \in Tests, n \in Node : op[t][n] = "asleep" =>
            /\ recorded[n] # 0
            /\ Current(n) \notin os
            /\ \A u \in Tests : op[u][n] = "asleep" => u = t

ProcessInv == Unknown /\ Known /\ Asleep

LEMMA ProcessInit == Init => ProcessInv
BY DEF Init, ProcessInv, Unknown, Known, Asleep

\* Steps that spawn nothing, and put no restart to sleep.
LEMMA ProcessQuiet ==
    ASSUME TypeOK, ProcessInv,
           attached' = attached, recorded' = recorded, os' \subseteq os,
           \A t \in Tests, n \in Node : op'[t][n] = "asleep" => op[t][n] = "asleep"
    PROVE  ProcessInv'
BY DEF TypeOK, ProcessInv, Unknown, Known, Asleep, Current

LEMMA ProcessSpawn == ASSUME TypeOK, ProcessInv, NEW n \in Node, Spawn(n) PROVE ProcessInv'
<1>1. /\ ~attached /\ attached' = attached
      /\ recorded[n] = 0 /\ recorded' = [recorded EXCEPT ![n] = 1]
      /\ os' = os \cup {<<n, 1>>} /\ op' = op
    BY DEF Spawn, runVars
<1>2. ASSUME NEW p \in os' PROVE p[2] = recorded'[p[1]] /\ p[2] # 0
    <2>1. CASE p = <<n, 1>>
        BY <1>1, <2>1 DEF TypeOK
    <2>2. CASE p \in os
        <3>1. p \in Node \X Nat /\ p[2] = recorded[p[1]] /\ p[2] # 0
            BY <1>1, <2>2 DEF TypeOK, ProcessInv, Known
        <3>2. p[1] # n
            BY <1>1, <3>1
        <3> QED BY <1>1, <3>1, <3>2 DEF TypeOK
    <2> QED BY <1>1, <2>1, <2>2
<1>3. Asleep'
    <2> SUFFICES ASSUME NEW u \in Tests, NEW m \in Node, op[u][m] = "asleep"
                 PROVE  /\ recorded'[m] # 0
                        /\ <<m, recorded'[m]>> \notin os'
                        /\ \A w \in Tests : op[w][m] = "asleep" => w = u
        BY <1>1 DEF Asleep, Current
    <2>1. /\ recorded[m] # 0 /\ <<m, recorded[m]>> \notin os
          /\ \A w \in Tests : op[w][m] = "asleep" => w = u
        BY DEF ProcessInv, Asleep, Current
    <2>2. m # n
        BY <1>1, <2>1
    <2> QED BY <1>1, <2>1, <2>2 DEF TypeOK
<1> QED BY <1>1, <1>2, <1>3 DEF ProcessInv, Unknown, Known

LEMMA ProcessKill ==
    ASSUME TypeOK, ProcessInv, NEW t \in Tests, NEW n \in Node, Kill(t, n)
    PROVE  ProcessInv'
<1>1. /\ attached' = attached /\ recorded' = recorded
      /\ os' = os \ {Current(n)}
      /\ op[t][n] = "todo"
    BY DEF Kill, OpStep, runVars
<1>2. CASE recorded[n] # 0 /\ Current(n) \in os
    <2>1. op' = [op EXCEPT ![t][n] = "asleep"]
        BY <1>2 DEF Kill, To
    <2>2. \A u \in Tests : op[u][n] # "asleep"
        BY <1>2 DEF ProcessInv, Asleep
    <2>3. Asleep'
        BY <1>1, <1>2, <2>1, <2>2 DEF TypeOK, ProcessInv, Asleep, Current
    <2> QED BY <1>1, <2>3 DEF ProcessInv, Unknown, Known
<1>3. CASE ~(recorded[n] # 0 /\ Current(n) \in os)
    <2>1. PICK r \in {"failed", "refused"} : op' = [op EXCEPT ![t][n] = r]
        BY <1>3 DEF Kill, To
    <2>2. \A u \in Tests, m \in Node : op'[u][m] = "asleep" => op[u][m] = "asleep"
        BY <2>1 DEF TypeOK
    <2> QED BY <1>1, <2>2, ProcessQuiet
<1> QED BY <1>2, <1>3

LEMMA ProcessAgain ==
    ASSUME TypeOK, ProcessInv, NEW t \in Tests, NEW n \in Node, SpawnAgain(t, n)
    PROVE  ProcessInv'
<1>1. /\ attached' = attached
      /\ recorded' = [recorded EXCEPT ![n] = recorded[n] + 1]
      /\ os' = os \cup {<<n, recorded[n] + 1>>}
      /\ op[t][n] = "asleep" /\ op' = [op EXCEPT ![t][n] = "booting"]
    BY DEF SpawnAgain, OpStep, To, runVars
<1>2. /\ recorded[n] \in Nat /\ recorded[n] # 0 /\ <<n, recorded[n]>> \notin os
      /\ \A u \in Tests : op'[u][n] # "asleep"
      /\ ~attached
    BY <1>1 DEF TypeOK, ProcessInv, Unknown, Asleep, Current
<1>3. ASSUME NEW p \in os' PROVE p[2] = recorded'[p[1]] /\ p[2] # 0
    <2>1. CASE p = <<n, recorded[n] + 1>>
        BY <1>1, <1>2, <2>1 DEF TypeOK
    <2>2. CASE p \in os
        <3>1. p \in Node \X Nat /\ p[2] = recorded[p[1]] /\ p[2] # 0
            BY <1>2, <2>2 DEF TypeOK, ProcessInv, Known
        <3>2. p[1] # n
            BY <1>2, <2>2, <3>1
        <3> QED BY <1>1, <3>1, <3>2 DEF TypeOK
    <2> QED BY <1>1, <2>1, <2>2
<1>4. Asleep'
    <2> SUFFICES ASSUME NEW u \in Tests, NEW m \in Node, op'[u][m] = "asleep"
                 PROVE  /\ recorded'[m] # 0
                        /\ <<m, recorded'[m]>> \notin os'
                        /\ \A v \in Tests : op'[v][m] = "asleep" => v = u
        BY DEF Asleep, Current
    <2>1. m # n
        BY <1>2
    <2>2. op[u][m] = "asleep" /\ \A v \in Tests : op'[v][m] = op[v][m]
        BY <1>1, <2>1 DEF TypeOK
    <2>3. recorded'[m] = recorded[m]
        BY <1>1, <2>1 DEF TypeOK
    <2> QED BY <1>1, <2>1, <2>2, <2>3 DEF ProcessInv, Asleep, Current
<1> QED BY <1>1, <1>2, <1>3, <1>4 DEF ProcessInv, Known, Unknown

LEMMA ProcessTest == ASSUME TypeOK, ProcessInv, NEW t \in Tests, TestStep(t) PROVE ProcessInv'
<1>1. CASE BeginTest(t) \/ EndTest(t)
    <2>1. attached' = attached /\ recorded' = recorded /\ os' = os
        BY <1>1 DEF BeginTest, EndTest
    <2>2. \A u \in Tests, n \in Node : op'[u][n] = "asleep" => op[u][n] = "asleep"
        BY <1>1 DEF BeginTest, EndTest, TypeOK
    <2> QED BY <2>1, <2>2, ProcessQuiet
<1>2. ASSUME NEW n \in Node, Kill(t, n) \/ SpawnAgain(t, n) PROVE ProcessInv'
    BY <1>2, ProcessKill, ProcessAgain
<1>3. ASSUME NEW n \in Node, Assert(t, n) \/ Signal(t, n) \/ FirstPs(t, n) \/ Ready(t, n)
      PROVE ProcessInv'
    <2>1. attached' = attached /\ recorded' = recorded /\ os' = os
        BY <1>3 DEF Assert, Signal, FirstPs, Ready, OpStep, runVars
    <2>2. PICK r \in {"logging", "done", "failed"} : op' = [op EXCEPT ![t][n] = r]
        BY <1>3 DEF Assert, Signal, FirstPs, Ready, To
    <2>3. \A u \in Tests, m \in Node : op'[u][m] = "asleep" => op[u][m] = "asleep"
        BY <2>2 DEF TypeOK
    <2> QED BY <2>1, <2>3, ProcessQuiet
<1> QED BY <1>1, <1>2, <1>3 DEF TestStep

\* The other steps.
Other ==
    \/ StartReturns \/ StartThrows \/ StartExits \/ HookCatches \/ GlobalTimeout
    \/ LaunchDone \/ HookTimesOut
    \/ (\E p \in os : Die(p)) \/ EndTests
    \/ (\E a \in Actors : ReadPids(a) \/ KillAll(a))
    \/ ExitMocha \/ Interrupt

LEMMA NextCases ==
    [Next]_vars => \/ \E n \in Node : Spawn(n)
                   \/ \E t \in Tests : TestStep(t)
                   \/ Other
                   \/ UNCHANGED vars
BY DEF Next, Launch, Other

LEMMA ProcessOther == ASSUME TypeOK, ProcessInv, Other PROVE ProcessInv'
<1>1. attached' = attached /\ recorded' = recorded /\ op' = op
    BY DEF Other, StartReturns, StartThrows, StartExits, HookCatches, GlobalTimeout,
       LaunchDone, HookTimesOut, Die, EndTests, ReadPids, KillAll, ExitMocha, Interrupt, runVars
<1>2. os' \subseteq os
    BY DEF Other, StartReturns, StartThrows, StartExits, HookCatches, GlobalTimeout,
       LaunchDone, HookTimesOut, Die, EndTests, ReadPids, KillAll, ExitMocha, Interrupt
<1> QED BY <1>1, <1>2, ProcessQuiet

LEMMA ProcessNext == TypeOK /\ ProcessInv /\ [Next]_vars => ProcessInv'
<1> SUFFICES ASSUME TypeOK, ProcessInv, [Next]_vars PROVE ProcessInv'
    OBVIOUS
<1>1. CASE UNCHANGED vars
    BY <1>1, ProcessQuiet DEF vars, runVars
<1> QED BY <1>1, NextCases, ProcessSpawn, ProcessTest, ProcessOther

LEMMA ProcessAlways == Spec => []ProcessInv
<1>1. ProcessInv /\ TypeOK /\ [Next]_vars => ProcessInv'
    BY ProcessNext
<1> QED BY <1>1, ProcessInit, TypeCorrect, PTL DEF Spec

(* A node never has two processes, however restarts of it overlap.         *)
THEOREM NeverTwins == Spec => []NoTwins
<1>1. TypeOK /\ ProcessInv => NoTwins
    BY DEF TypeOK, ProcessInv, Known, NoTwins
<1> QED BY <1>1, TypeCorrect, ProcessAlways, PTL

-----------------------------------------------------------------------------
(* The stages of the run, the exit code, and the last teardown.            *)

AllSettled == \A t \in Tests : result[t] \in Settled

StageInv ==
    /\ stage = "tests" => start = "up"
    /\ stage = "teardown" => hookFailed \/ AllSettled
    /\ down["hook"] # "off" => hookFailed \/ (start = "up" /\ AllSettled)

\* Only restarts sleep, and none of a test that has passed.
OpInv == \A t \in Tests, n \in Node :
           /\ op[t][n] = "asleep" => Test[t].kind = "restart"
           /\ result[t] = "passed" => op[t][n] \in {"off", "done", "refused"}

Calm == down["hook"] # "off" /\ ~hookFailed /\ ~FailedRestart /\ ~attached

\* The teardown knows every process once it has read the pids.
SweptInv == Calm => /\ down["hook"] = "kill" => os \subseteq snap["hook"]
                    /\ down["hook"] = "done" => os = {}

RunInv == StageInv /\ OpInv /\ SweptInv

LEMMA RunInit == Init => RunInv
BY DEF Init, RunInv, StageInv, OpInv, SweptInv, Calm, Actors

LEMMA StageNext == TypeOK /\ StageInv /\ [Next]_vars => StageInv'
<1> SUFFICES ASSUME TypeOK, StageInv, [Next]_vars PROVE StageInv'
    OBVIOUS
<1> USE DEF StageInv, AllSettled, Settled, TypeOK, Actors
<1>1. ASSUME NEW n \in Node, Spawn(n) PROVE StageInv'
    BY <1>1 DEF Spawn, runVars
<1>2. ASSUME NEW t \in Tests, TestStep(t) PROVE StageInv'
    <2>1. CASE BeginTest(t)
        BY <2>1 DEF BeginTest
    <2>2. CASE EndTest(t)
        BY <2>2 DEF EndTest
    <2>3. CASE \E n \in Node : \/ Assert(t, n) \/ Signal(t, n)
                               \/ Kill(t, n) \/ SpawnAgain(t, n)
                               \/ FirstPs(t, n) \/ Ready(t, n)
        BY <2>3 DEF Assert, Signal, Kill, SpawnAgain, FirstPs, Ready, OpStep, runVars
    <2> QED BY <1>2, <2>1, <2>2, <2>3 DEF TestStep
<1>3. CASE StartReturns \/ LaunchDone
    BY <1>3 DEF StartReturns, LaunchDone, Network
<1>4. CASE StartThrows
    BY <1>4 DEF StartThrows
<1>5. CASE StartExits \/ HookCatches \/ GlobalTimeout \/ ExitMocha \/ Interrupt
    BY <1>5 DEF StartExits, HookCatches, GlobalTimeout, ExitMocha, Interrupt, Exit
<1>6. CASE HookTimesOut
    BY <1>6 DEF HookTimesOut, BeginTeardown
<1>7. CASE EndTests
    BY <1>7 DEF EndTests, BeginTeardown
<1>8. ASSUME NEW p \in os, Die(p) PROVE StageInv'
    BY <1>8 DEF Die, runVars
<1>9. ASSUME NEW a \in Actors, ReadPids(a) \/ KillAll(a) PROVE StageInv'
    BY <1>9 DEF ReadPids, KillAll, runVars
<1>10. CASE UNCHANGED vars
    BY <1>10 DEF vars, runVars
<1> QED BY <1>1, <1>2, <1>3, <1>4, <1>5, <1>6, <1>7, <1>8, <1>9, <1>10, NextCases DEF Other

LEMMA OpNext == TypeOK /\ OpInv /\ [Next]_vars => OpInv'
<1> SUFFICES ASSUME TypeOK, OpInv, [Next]_vars PROVE OpInv'
    OBVIOUS
<1>1. ASSUME result' = result, op' = op PROVE OpInv'
    BY <1>1 DEF OpInv
<1>2. CASE \/ \E n \in Node : Spawn(n)
           \/ Other
           \/ UNCHANGED vars
    <2>1. result' = result /\ op' = op
        BY <1>2 DEF Spawn, Other, StartReturns, StartThrows, StartExits, HookCatches,
           GlobalTimeout, LaunchDone, HookTimesOut, Die, EndTests, ReadPids, KillAll,
           ExitMocha, Interrupt, runVars, vars
    <2> QED BY <1>1, <2>1
<1>3. ASSUME NEW t \in Tests, BeginTest(t) PROVE OpInv'
    BY <1>3 DEF BeginTest, OpInv, TypeOK
<1>4. ASSUME NEW t \in Tests, EndTest(t) PROVE OpInv'
    <2>1. op' = op /\ result' \in [Tests -> {"todo", "running", "passed", "failed"}]
          /\ \A u \in Tests : u # t => result'[u] = result[u]
        BY <1>4 DEF EndTest, TypeOK
    <2>2. result'[t] = "passed" => \A n \in Test[t].nodes : op[t][n] \in {"done", "refused"}
        BY <1>4 DEF EndTest, TypeOK
    <2>3. \A n \in Node : op[t][n] # "off" => n \in Test[t].nodes
        BY DEF TypeOK
    <2>4. ASSUME NEW u \in Tests, NEW n \in Node, result'[u] = "passed"
          PROVE  op[u][n] \in {"off", "done", "refused"}
        BY <2>1, <2>2, <2>3, <2>4 DEF OpInv
    <2> QED BY <2>1, <2>4 DEF OpInv
<1>5. ASSUME NEW t \in Tests, NEW n \in Node,
             Assert(t, n) \/ Signal(t, n) \/ Kill(t, n)
               \/ SpawnAgain(t, n) \/ FirstPs(t, n) \/ Ready(t, n)
      PROVE OpInv'
    <2>1. /\ result' = result
          /\ op[t][n] \in {"todo", "asleep", "booting", "logging"}
        BY <1>5 DEF Assert, Signal, Kill, SpawnAgain, FirstPs, Ready, OpStep, runVars
    <2>2. PICK r : /\ op' = [op EXCEPT ![t][n] = r]
                   /\ r = "asleep" => Test[t].kind = "restart"
        BY <1>5 DEF Assert, Signal, Kill, SpawnAgain, FirstPs, Ready, OpStep, To
    <2>3. result[t] # "passed"
        BY <2>1 DEF OpInv
    <2>4. \A u \in Tests, m \in Node : op'[u][m] = IF u = t /\ m = n THEN r ELSE op[u][m]
        BY <2>2 DEF TypeOK
    <2> QED BY <2>1, <2>2, <2>3, <2>4 DEF OpInv
<1> QED BY <1>2, <1>3, <1>4, <1>5, NextCases DEF TestStep

\* In a calm teardown nothing is spawned any more.
LEMMA CalmMeansDone ==
    ASSUME TypeOK, StageInv, OpInv, Calm
    PROVE  /\ start = "up"
           /\ AllSettled
           /\ \A t \in Tests, n \in Node : op[t][n] # "asleep"
<1>1. start = "up" /\ AllSettled
    BY DEF Calm, StageInv
<1>2. ASSUME NEW t \in Tests, NEW n \in Node, op[t][n] = "asleep" PROVE FALSE
    <2>1. Test[t].kind = "restart"
        BY <1>2 DEF OpInv
    <2>2. result[t] = "passed"
        BY <1>1, <2>1 DEF AllSettled, Settled, Calm, FailedRestart
    <2> QED BY <1>2, <2>2 DEF OpInv
<1> QED BY <1>1, <1>2

LEMMA SweptNext ==
    TypeOK /\ ProcessInv /\ StageInv /\ OpInv /\ SweptInv /\ [Next]_vars => SweptInv'
<1> SUFFICES ASSUME TypeOK, ProcessInv, StageInv, OpInv, SweptInv, [Next]_vars, Calm'
             PROVE  /\ down'["hook"] = "kill" => os' \subseteq snap'["hook"]
                    /\ down'["hook"] = "done" => os' = {}
    BY DEF SweptInv
<1>1. ASSUME down'["hook"] = down["hook"], snap'["hook"] = snap["hook"], os' \subseteq os, Calm
      PROVE  /\ down'["hook"] = "kill" => os' \subseteq snap'["hook"]
             /\ down'["hook"] = "done" => os' = {}
    BY <1>1 DEF SweptInv
<1>2. CASE \E n \in Node : Spawn(n)
    <2>1. Calm
        BY <1>2 DEF Spawn, runVars, Calm, FailedRestart
    <2>2. start = "up"
        BY <2>1, CalmMeansDone
    <2> QED BY <1>2, <2>2 DEF Spawn
<1>3. ASSUME NEW t \in Tests, TestStep(t)
      PROVE  /\ down'["hook"] = "kill" => os' \subseteq snap'["hook"]
             /\ down'["hook"] = "done" => os' = {}
    <2>1. down' = down /\ snap' = snap /\ attached' = attached /\ hookFailed' = hookFailed
        BY <1>3 DEF TestStep, BeginTest, EndTest, Assert, Signal, Kill, SpawnAgain, FirstPs,
           Ready, OpStep, runVars
    <2>2. AllSettled
        BY <2>1 DEF Calm, StageInv
    <2>3. result' = result /\ ~BeginTest(t) /\ ~EndTest(t)
        BY <1>3, <2>2 DEF TestStep, BeginTest, EndTest, AllSettled, Settled, Assert, Signal,
           Kill, SpawnAgain, FirstPs, Ready, OpStep, runVars
    <2>4. Calm
        BY <2>1, <2>3 DEF Calm, FailedRestart
    <2>5. \A n \in Node : ~SpawnAgain(t, n)
        BY <2>4, CalmMeansDone DEF SpawnAgain, OpStep
    <2>6. os' \subseteq os
        BY <1>3, <2>3, <2>5 DEF TestStep, Assert, Signal, Kill, FirstPs, Ready
    <2> QED BY <1>1, <2>1, <2>4, <2>6
<1>4. CASE StartReturns \/ LaunchDone \/ StartExits \/ HookCatches \/ GlobalTimeout
             \/ ExitMocha \/ Interrupt \/ (\E p \in os : Die(p)) \/ UNCHANGED vars
    <2>1. /\ down' = down /\ snap' = snap /\ os' \subseteq os
          /\ attached' = attached /\ hookFailed' = hookFailed /\ result' = result
        BY <1>4 DEF StartReturns, LaunchDone, StartExits, HookCatches, GlobalTimeout,
           ExitMocha, Interrupt, Exit, Die, runVars, vars
    <2> QED BY <1>1, <2>1 DEF Calm, FailedRestart
<1>5. CASE StartThrows
    <2>1. /\ down'["hook"] = down["hook"] /\ snap' = snap /\ os' = os
          /\ attached' = attached /\ hookFailed' = hookFailed /\ result' = result
        BY <1>5 DEF StartThrows, TypeOK, Actors
    <2> QED BY <1>1, <2>1 DEF Calm, FailedRestart
<1>6. CASE HookTimesOut
    BY <1>6 DEF HookTimesOut, Calm
<1>7. CASE EndTests
    <2>1. start = "up" /\ ~attached
        BY <1>7 DEF EndTests, StageInv, Calm
    <2> QED BY <1>7, <2>1 DEF EndTests, BeginTeardown, Network, TypeOK, Actors
<1>8. ASSUME NEW a \in Actors, ReadPids(a)
      PROVE  /\ down'["hook"] = "kill" => os' \subseteq snap'["hook"]
             /\ down'["hook"] = "done" => os' = {}
    <2>1. /\ attached' = attached /\ hookFailed' = hookFailed /\ result' = result
          /\ os' = os /\ down[a] = "dump" /\ down' = [down EXCEPT ![a] = "kill"]
          /\ snap' = [snap EXCEPT ![a] =
                        {Current(n) : n \in {m \in Node : recorded[m] # 0}}]
        BY <1>8 DEF ReadPids, runVars
    <2>2. CASE a = "catch"
        BY <1>1, <2>1, <2>2 DEF Calm, FailedRestart, TypeOK, Actors
    <2>3. CASE a = "hook"
        <3>1. \A p \in os : p = Current(p[1]) /\ p[1] \in Node /\ recorded[p[1]] # 0
            BY <2>1 DEF ProcessInv, Known, TypeOK, Current, Calm
        <3>2. os \subseteq {Current(n) : n \in {m \in Node : recorded[m] # 0}}
            BY <3>1
        <3> QED BY <2>1, <2>3, <3>2 DEF TypeOK, Actors
    <2> QED BY <2>2, <2>3 DEF Actors
<1>9. ASSUME NEW a \in Actors, KillAll(a)
      PROVE  /\ down'["hook"] = "kill" => os' \subseteq snap'["hook"]
             /\ down'["hook"] = "done" => os' = {}
    <2>1. /\ attached' = attached /\ hookFailed' = hookFailed /\ result' = result
          /\ snap' = snap /\ os' = os \ snap[a]
          /\ down[a] = "kill" /\ down' = [down EXCEPT ![a] = "done"]
        BY <1>9 DEF KillAll, runVars
    <2>2. CASE a = "catch"
        BY <1>1, <2>1, <2>2 DEF Calm, FailedRestart, TypeOK, Actors
    <2>3. CASE a = "hook"
        <3>1. Calm
            BY <2>1, <2>3 DEF Calm, FailedRestart
        <3>2. os \subseteq snap["hook"]
            BY <2>1, <2>3, <3>1 DEF SweptInv
        <3> QED BY <2>1, <2>3, <3>2 DEF TypeOK, Actors
    <2> QED BY <2>2, <2>3 DEF Actors
<1> QED BY <1>2, <1>3, <1>4, <1>5, <1>6, <1>7, <1>8, <1>9, NextCases DEF Other

LEMMA RunAlways == Spec => []RunInv
<1>1. TypeOK /\ ProcessInv /\ RunInv /\ [Next]_vars => RunInv'
    BY StageNext, OpNext, SweptNext DEF RunInv
<1> QED BY <1>1, RunInit, TypeCorrect, ProcessAlways, PTL DEF Spec

(* The hook after the tests leaves no process behind when it gets through, *)
(* unless a restart had failed.                                            *)
THEOREM NothingLeftBehind == Spec => []TeardownFindsAll
<1>1. RunInv => TeardownFindsAll
    BY DEF RunInv, SweptInv, Calm, TeardownFindsAll
<1> QED BY <1>1, RunAlways, PTL

-----------------------------------------------------------------------------
(* The exit code.                                                          *)

LEMMA NoFailures == Failures = 0 <=> ~hookFailed /\ \A t \in Tests : result[t] # "failed"
<1> DEFINE F == {t \in Tests : result[t] = "failed"}
<1>1. IsFiniteSet(F)
    <2>1. IsFiniteSet(1..Len(Test))
        <3>1. Len(Test) \in Int /\ 1 \in Int
            BY TestTypes
        <3> QED BY <3>1, FS_Interval
    <2> QED BY <2>1, FS_Subset DEF Tests
<1>2. Cardinality(F) \in Nat /\ (Cardinality(F) = 0 <=> F = {})
    BY <1>1, FS_CardinalityType, FS_EmptySet
<1>3. Failures = Cardinality(F) + IF hookFailed THEN 1 ELSE 0
    BY DEF Failures
<1>4. F = {} <=> \A t \in Tests : result[t] # "failed"
    OBVIOUS
<1> HIDE DEF F
<1> QED BY <1>2, <1>3, <1>4

LEMMA TruthNext == TypeOK /\ StageInv /\ ExitTellsTheTruth /\ [Next]_vars => ExitTellsTheTruth'
<1> SUFFICES ASSUME TypeOK, StageInv, ExitTellsTheTruth, [Next]_vars, stage' = "over",
                    exit'.by # "signal"
             PROVE  exit'.code = 0 <=> /\ exit'.by = "mocha"
                                       /\ ~hookFailed'
                                       /\ \A t \in Tests : result'[t] = "passed"
    BY DEF ExitTellsTheTruth, Running
<1>1. CASE stage = "over"
    <2>1. UNCHANGED vars
        BY <1>1, NextCases DEF Spawn, Other, TestStep, BeginTest, EndTest, OpStep, Assert,
           Signal, Kill, SpawnAgain, FirstPs, Ready, StartReturns, StartThrows, StartExits,
           HookCatches, GlobalTimeout, LaunchDone, HookTimesOut, Die, EndTests, ReadPids,
           KillAll, ExitMocha, Interrupt, Running
    <2> QED BY <1>1, <2>1 DEF vars, runVars, ExitTellsTheTruth, Running
<1>2. CASE ExitMocha
    <2>1. /\ hookFailed' = hookFailed /\ result' = result
          /\ exit'.by = "mocha"
          /\ exit'.code = IF Failures <= 255 THEN Failures ELSE 255
          /\ hookFailed \/ AllSettled
        BY <1>2 DEF ExitMocha, Exit, StageInv
    <2>2. exit'.code = 0 <=> Failures = 0
        BY <2>1, FailuresNat
    <2> QED BY <2>1, <2>2, NoFailures DEF AllSettled, Settled
<1>3. CASE StartExits \/ HookCatches \/ GlobalTimeout \/ Interrupt
    BY <1>3 DEF StartExits, HookCatches, GlobalTimeout, Interrupt, Exit
<1>4. CASE stage # "over" /\ ~(ExitMocha \/ StartExits \/ HookCatches \/ GlobalTimeout \/ Interrupt)
    BY <1>4, NextCases DEF Spawn, Other, TestStep, BeginTest, EndTest, OpStep, Assert,
       Signal, Kill, SpawnAgain, FirstPs, Ready, StartReturns, StartThrows, LaunchDone,
       HookTimesOut, Die, EndTests, BeginTeardown, ReadPids, KillAll, runVars, vars
<1> QED BY <1>1, <1>2, <1>3, <1>4

(* The exit code of a run that no signal interrupted is 0 exactly when     *)
(* mocha came to its end, the network was up in time and every test passed.*)
THEOREM ExitCodeTrue == Spec => []ExitTellsTheTruth
<1>1. Init => ExitTellsTheTruth
    BY DEF Init, ExitTellsTheTruth, Running
<1>2. TypeOK /\ RunInv /\ ExitTellsTheTruth /\ [Next]_vars => ExitTellsTheTruth'
    BY TruthNext DEF RunInv
<1> QED BY <1>1, <1>2, TypeCorrect, RunAlways, PTL DEF Spec
-----------------------------------------------------------------------------
(* The refinement of NetworkRun.                                           *)

\* Tests only run on a network that is up.
BegunInv == /\ stage = "tests" => start = "up"
            /\ \A t \in Tests : Begun(t) => start = "up"

\* Before, a node is spawned once.
Firsts == start # "up" => \A n \in Node : recorded[n] \in {0, 1}

LEMMA BegunNext == ASSUME TypeOK, BegunInv, [Next]_vars PROVE BegunInv'
<1>1. start = "up" => start' = "up"
    BY NextCases DEF Other, Spawn, StartReturns, StartThrows, StartExits, HookCatches,
       GlobalTimeout, LaunchDone, HookTimesOut, Die, EndTests, ReadPids, KillAll, ExitMocha,
       Interrupt, TestStep, BeginTest, EndTest, Assert, Signal, Kill, SpawnAgain, FirstPs,
       Ready, OpStep, runVars, vars
<1>2. CASE \E t \in Tests : BeginTest(t) \/ EndTest(t)
    <2>1. PICK t \in Tests : BeginTest(t) \/ EndTest(t)
        BY <1>2
    <2>2. start = "up" /\ stage' = stage /\ start' = start
        BY <2>1 DEF BeginTest, EndTest, BegunInv, Begun
    <2> QED BY <2>2 DEF BegunInv
<1>3. CASE UNCHANGED result
    <2>1. stage' = "tests" => stage = "tests" \/ start' = "up"
        BY NextCases DEF Other, Spawn, StartReturns, StartThrows, StartExits, HookCatches,
           GlobalTimeout, LaunchDone, Network, HookTimesOut, BeginTeardown, Die, EndTests, ReadPids,
           KillAll, ExitMocha, Interrupt, Exit, TestStep, BeginTest, EndTest, Assert, Signal, Kill,
           SpawnAgain, FirstPs, Ready, OpStep, runVars, vars
    <2> QED BY <1>1, <1>3, <2>1 DEF BegunInv, Begun
<1>4. UNCHANGED result \/ \E t \in Tests : BeginTest(t) \/ EndTest(t)
    BY NextCases DEF Other, Spawn, StartReturns, StartThrows, StartExits, HookCatches,
       GlobalTimeout, LaunchDone, HookTimesOut, Die, EndTests, ReadPids, KillAll, ExitMocha,
       Interrupt, TestStep, Assert, Signal, Kill, SpawnAgain, FirstPs, Ready, OpStep, runVars, vars
<1> QED BY <1>2, <1>3, <1>4

LEMMA FirstsNext == ASSUME TypeOK, BegunInv, Firsts, [Next]_vars PROVE Firsts'
<1>1. ASSUME NEW n \in Node, Spawn(n) PROVE Firsts'
    BY <1>1 DEF Spawn, Firsts, runVars, TypeOK
<1>2. ASSUME NEW t \in Tests, TestStep(t) PROVE Firsts'
    <2>1. CASE \E n \in Node : SpawnAgain(t, n)
        <3>1. PICK n \in Node : SpawnAgain(t, n)
            BY <2>1
        <3>2. op[t][n] = "asleep" /\ start' = start
            BY <3>1 DEF SpawnAgain, OpStep, runVars
        <3>3. start = "up"
            BY <3>2 DEF TypeOK, BegunInv
        <3> QED BY <3>2, <3>3 DEF Firsts
    <2>2. CASE ~\E n \in Node : SpawnAgain(t, n)
        <3>1. recorded' = recorded /\ start' = start
            BY <1>2, <2>2 DEF TestStep, BeginTest, EndTest, Assert, Signal, Kill, FirstPs, Ready,
               OpStep, runVars
        <3> QED BY <3>1 DEF Firsts
    <2> QED BY <2>1, <2>2
<1>3. CASE Other \/ UNCHANGED vars
    <2>1. recorded' = recorded /\ (start' # "up" => start # "up")
        BY <1>3 DEF Other, StartReturns, StartThrows, StartExits, HookCatches, GlobalTimeout,
           LaunchDone, HookTimesOut, Die, EndTests, ReadPids, KillAll, ExitMocha, Interrupt,
           runVars, vars
    <2> QED BY <2>1 DEF Firsts
<1> QED BY <1>1, <1>2, <1>3, NextCases

LEMMA BegunAlways == Spec => [](BegunInv /\ Firsts)
<1>1. Init => BegunInv /\ Firsts
    BY DEF Init, BegunInv, Begun, Firsts
<1>2. TypeOK /\ BegunInv /\ Firsts /\ [Next]_vars => (BegunInv /\ Firsts)'
    BY BegunNext, FirstsNext
<1> QED BY <1>1, <1>2, TypeCorrect, PTL DEF Spec

\* Steps that spawn nothing.
LEMMA OnlyLost ==
    ASSUME attached' = attached, start' = start, recorded' = recorded, Running' = Running,
           os' = os \/ (Running /\ os' \subseteq os)
    PROVE  [Abstract!Next]_(Abstract!vars)
<1>1. CASE os' = os
    BY <1>1 DEF Abstract!vars
<1>2. CASE Running /\ os' \subseteq os
    <2>1. PICK lost \in SUBSET os : os' = os \ lost
        <3>1. os \ os' \in SUBSET os /\ os' = os \ (os \ os')
            BY <1>2
        <3> QED BY <3>1
    <2>2. Abstract!Lose(lost)
        BY <1>2, <2>1 DEF Abstract!Lose
    <2> QED BY <2>2 DEF Abstract!Next
<1> QED BY <1>1, <1>2

\* Steps that end the program.
LEMMA OnlyEnds ==
    ASSUME attached' = attached, start' = start, recorded' = recorded, os' = os,
           Running, ~Running'
    PROVE  [Abstract!Next]_(Abstract!vars)
<1>1. Abstract!End
    BY DEF Abstract!End
<1> QED BY <1>1 DEF Abstract!Next

LEMMA SpawnRefines ==
    ASSUME TypeOK, ProcessInv, NEW n \in Node, Spawn(n)
    PROVE  [Abstract!Next]_(Abstract!vars)
<1>1. /\ Running /\ Running' /\ ~attached /\ start # "up" /\ recorded[n] = 0
      /\ attached' = attached /\ start' = start
      /\ recorded' = [recorded EXCEPT ![n] = 1] /\ os' = os \cup {<<n, 1>>}
    BY DEF Spawn, runVars, Running
<1>2. \A p \in os : p[1] # n
    BY <1>1 DEF ProcessInv, Known
<1>3. Abstract!Start(n)
    BY <1>1, <1>2 DEF Abstract!Start, Abstract!HasProcess
<1>4. Abstract!Spawn(n)
    BY <1>1, <1>3 DEF Abstract!Spawn
<1> QED BY <1>4 DEF Abstract!Next

LEMMA AgainRefines ==
    ASSUME TypeOK, ProcessInv, BegunInv, NEW t \in Tests, NEW n \in Node, SpawnAgain(t, n)
    PROVE  [Abstract!Next]_(Abstract!vars)
<1>1. /\ Running /\ Running' /\ op[t][n] = "asleep"
      /\ attached' = attached /\ start' = start
      /\ recorded' = [recorded EXCEPT ![n] = @ + 1]
      /\ os' = os \cup {<<n, recorded[n] + 1>>}
    BY DEF SpawnAgain, OpStep, runVars, Running
<1>2. recorded[n] # 0 /\ <<n, recorded[n]>> \notin os /\ ~attached
    BY <1>1 DEF ProcessInv, Asleep, Unknown, Current
<1>3. \A p \in os : p[1] # n
    <2>1. ASSUME NEW p \in os PROVE p = <<p[1], recorded[p[1]]>>
        <3>1. p = <<p[1], p[2]>>
            BY DEF TypeOK
        <3>2. p[2] = recorded[p[1]]
            BY <1>2 DEF ProcessInv, Known
        <3> QED BY <3>1, <3>2
    <2> QED BY <1>2, <2>1
<1>4. start = "up"
    BY <1>1 DEF TypeOK, BegunInv
<1>5. Abstract!Start(n)
    BY <1>1, <1>2, <1>3 DEF Abstract!Start, Abstract!HasProcess
<1>6. Abstract!Restart(n)
    BY <1>2, <1>4, <1>5 DEF Abstract!Restart
<1> QED BY <1>6 DEF Abstract!Next

LEMMA TestRefines ==
    ASSUME TypeOK, ProcessInv, BegunInv, NEW t \in Tests, TestStep(t)
    PROVE  [Abstract!Next]_(Abstract!vars)
<1>1. CASE BeginTest(t) \/ EndTest(t)
    BY <1>1, OnlyLost DEF BeginTest, EndTest, Running
<1>2. ASSUME NEW n \in Node,
             Assert(t, n) \/ Signal(t, n) \/ Kill(t, n) \/ FirstPs(t, n) \/ Ready(t, n)
      PROVE  [Abstract!Next]_(Abstract!vars)
    <2>1. /\ Running /\ Running' = Running
          /\ attached' = attached /\ start' = start /\ recorded' = recorded
          /\ os' \subseteq os
        BY <1>2 DEF Assert, Signal, Kill, FirstPs, Ready, OpStep, runVars, Running
    <2> QED BY <2>1, OnlyLost
<1> QED BY <1>1, <1>2, AgainRefines DEF TestStep

LEMMA OtherRefines ==
    ASSUME Firsts, Other
    PROVE  [Abstract!Next]_(Abstract!vars)
<1>1. CASE StartReturns
    <2>1. /\ Running /\ Running' /\ start = "pending" /\ start' = "up"
          /\ attached' = attached /\ recorded' = recorded /\ os' = os
          /\ attached \/ \A n \in Node : recorded[n] # 0
        BY <1>1 DEF StartReturns, Running
    <2>2. Abstract!Fulfil
        BY <2>1 DEF Firsts, Abstract!Fulfil
    <2> QED BY <2>2 DEF Abstract!Next
<1>2. CASE StartThrows
    <2>1. Abstract!Reject
        BY <1>2 DEF StartThrows, Running, Abstract!Reject
    <2> QED BY <2>1 DEF Abstract!Next
<1>3. CASE HookCatches \/ StartExits \/ GlobalTimeout \/ ExitMocha \/ Interrupt
    BY <1>3, OnlyEnds DEF HookCatches, StartExits, GlobalTimeout, ExitMocha, Interrupt, Exit,
       Running
<1>4. CASE LaunchDone \/ HookTimesOut \/ EndTests
    BY <1>4, OnlyLost DEF LaunchDone, HookTimesOut, EndTests, BeginTeardown, Running
<1>5. CASE (\E p \in os : Die(p)) \/ (\E a \in Actors : ReadPids(a) \/ KillAll(a))
    <2>1. /\ Running /\ Running' = Running
          /\ attached' = attached /\ start' = start /\ recorded' = recorded
          /\ os' \subseteq os
        BY <1>5 DEF Die, ReadPids, KillAll, runVars, Running
    <2> QED BY <2>1, OnlyLost
<1> QED BY <1>1, <1>2, <1>3, <1>4, <1>5 DEF Other

LEMMA InitRefines == Init => Abstract!Init
<1>1. {<<n, 1>> : n \in Node} = Node \X {1}
    OBVIOUS
<1> QED BY <1>1 DEF Init, Running, Abstract!Init

LEMMA StepRefines ==
    TypeOK /\ ProcessInv /\ BegunInv /\ Firsts /\ [Next]_vars
      => [Abstract!Next]_(Abstract!vars)
<1> SUFFICES ASSUME TypeOK, ProcessInv, BegunInv, Firsts, [Next]_vars
             PROVE  [Abstract!Next]_(Abstract!vars)
    OBVIOUS
<1>1. CASE UNCHANGED vars
    BY <1>1, OnlyLost DEF vars, runVars, Running
<1> QED BY <1>1, NextCases, SpawnRefines, TestRefines, OtherRefines

(* Restarts and teardowns in whatever order: the network of a test run is  *)
(* the one that NetworkRun describes.                                      *)
THEOREM Refinement == Spec => ImplementsNetworkRun
<1>1. /\ TypeOK /\ ProcessInv /\ BegunInv /\ Firsts /\ [Next]_vars
      => [Abstract!Next]_(Abstract!vars)
    BY StepRefines
<1> QED BY <1>1, InitRefines, TypeCorrect, ProcessAlways, BegunAlways, PTL
        DEF Spec, ImplementsNetworkRun, Abstract!Spec
=============================================================================
