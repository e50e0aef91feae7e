# TLA+ models of zombienet

Zombienet launches ephemeral Polkadot/Substrate networks (a relay chain and
parachains) on a provider - native processes, podman or Kubernetes - and runs
tests against them. This directory holds models of the parts of it in which
order, failure and time matter, the TLC runs that check them on small instances,
and TLAPS proofs for every instance.

Paths below are relative to `javascript/packages` unless they start with
another directory of the repository.

## 1. Inventory

| component | state it keeps | operations | talks to | hard because |
|---|---|---|---|---|
| promise series (`utils/src/promiseSeries.ts`) | what is left of the array, the results | `series()`, its `next()` | every batch of the orchestrator | batches, failures next to running siblings |
| launcher (`orchestrator/src/orchestrator.ts`, `spawner.ts`, `network-helpers/verifier.ts`) | `network`, `network.launched`, the global timer | `start()`, `spawnNode()`, `verifyNodes()` | provider client, series, `Network` | any await may fail or hang, a timer and signals interleave |
| process and signals (`cli/src/cli.ts`, `actions/spawn.ts`, `actions/test.ts`) | `network`, `alreadyTryToStop` | `handleTermination()`, the handlers of signals, exceptions, rejections and exit | `Network.dumpLogs()`, `Network.stop()` | several causes of termination at once |
| `Network` (`orchestrator/src/network.ts`) | `nodesByName`, `relay`, `paras`, `groups`, the logs directory | `addNode`, `dumpLogs`, `stop`, `getBackchannelValue`, ... | client | run by the catch block and by handlers, concurrently |
| native provider (`orchestrator/src/providers/native`) | `processMap`, `dbSnapshotCache` | `spawnFromDef`, `createResource`, `wait_node_ready`, `destroyNamespace`, `restartNode` | OS processes, `ps`, `kill` | the processes live and die on their own |
| port allocation (`utils/src/net.ts`) | `usedPorts` | `getRandomPort()` | configuration, node definitions, OS | a check after an await, leases that end |
| kubernetes provider (`orchestrator/src/providers/k8s`) | `fileUploadCache`, the cleaner's cron job, port forwards | `spawnFromDef`, `copyFileToPod`, `upsertCronJob`, `startPortForwarding`, ... | kubectl, a file server pod | cache checked before an await, a deadline to be renewed, retries |
| podman provider (`orchestrator/src/providers/podman`) | `isTearingDown` | as the native one | podman | errors swallowed during a teardown |
| nodes at run time (`orchestrator/src/networkNode.ts`, `metrics`) | `cachedMetrics`, the API instance | `getMetric`, `getCalcMetric`, `countPatternLines`, `findPattern`, `isUp`, `restart`, ... | Prometheus, node logs, polkadot.js | a fetch racing a timer, shared caches, windows of logs |
| in-pod wrapper (`orchestrator/zombie-wrapper.sh`) | `child_pid`, `CMD`, the fifo | restart, pause, resume, update-cmd, quit | the node | commands to a child that may be dead |
| test runner (`orchestrator/src/test-runner`, `crates/parser`) | the mocha suite, `network` | before and after hooks, one assertion per test | launcher, nodes | hooks time out while `start()` runs on |
| parachain artifacts and chain specs (`orchestrator/src/paras.ts`, `chainSpec.ts`, `chain-decorators`, `keys.ts`) | JSON files, `stakingBond` | generate, customise, register | provider, series | files read and written by several steps |
| configuration (`orchestrator/src/configGenerator.ts`, `substrateCliArgsHelper.ts`, `cmdGenerator.ts`) | `mUsedNames`, `mParasUsedNames` | `generateNetworkSpec`, `getUniqueName`, ... | launcher | names, defaults and versions that depend on each other |
| backchannel (`backchannel/src/main.rs`) | a key-value map, a broadcast channel of 64 | GET, POST, websocket | test scripts | several threads; snapshot, subscription and broadcast are separate steps |
| k8s-cleaner (`crates/k8s-cleaner`) | none | list, ask, delete | kubectl, CI | stale answers |

What makes each of them correct:

* series: in order, at most `concurrency` at a time, no failure hidden, results
  in place, always settles.
* launch: launched means every node registered and up; nothing more is spawned
  after a failure; a launch ends by itself or by the timeout.
* teardown: run once, ends the program, kills what was spawned.
* ports: no two nodes get the same one.
* kubernetes: a file is complete when a pod reads it; the namespace outlives the
  test that renews it.
* nodes at run time: an answer is one the node gave within the window asked for.
* backchannel: a subscriber misses no broadcast, ends up with the values of the
  map, or is disconnected.
* configuration and specs: unique names and keys; no customisation is lost without an
  error.

`PROJECT.json` lists all components, also those without a model, and under
`hazards` the lines where each of these may go wrong.

## 2. Modules

| module | what it is |
|---|---|
| `OrderedRun` | abstract specification: what callers of `series()` rely on |
| `NetworkRun` | abstract specification: what the commands rely on that launch a network |
| `Series`, `MCSeries` | `promiseSeries.ts`; instance |
| `Lifecycle`, `MCLifecycle`, `LifecycleProofs` | one `zombienet spawn` on the native provider; instances; proofs |
| `Ports`, `MCPorts` | `getRandomPort()` and its callers; instance |
| `UtilsProofs` | proofs about `Series` and `Ports` |
| `Backchannel`, `MCBackchannel`, `BackchannelProofs` | the backchannel server; instance; proofs |
| `TestRun`, `MCTestRun`, `TestRunProofs` | one `zombienet test` on the native provider, with its restarts; instance; proofs |
| `NodeQueries`, `MCNodeQueries`, `NodeQueriesProofs` | metric and log queries of one node; instance; proofs |
| `KubeSpawn`, `MCKubeSpawn` | spawning pods on Kubernetes, with the file server; instance |
| `KubeCleaner`, `MCKubeCleaner` | who deletes a namespace on Kubernetes, and when; instance |
| `KubeProofs` | proofs about `KubeSpawn` and `KubeCleaner` |
| `Wrapper`, `MCWrapper`, `WrapperProofs` | `zombie-wrapper.sh` and its named pipe; instance; proofs |
| `Names` | `getUniqueName()` and the seeds of collators; part of `Genesis` |
| `Genesis`, `MCGenesis`, `GenesisProofs` | what a launch makes before it spawns: names, chain specs, the genesis; instance; proofs |

The models of the JavaScript program take it for what it is, one event loop: an
action is the code between two awaits, and promises in progress interleave. Operators under a
comment "Mutant of X" are plausible bugs in X; nothing uses them except the
check that each property notices one (`mutants` in `PROJECT.json`).

### Series and OrderedRun

`Series` has the elements of the array as `1..N`; `shifted` of them are gone from
the array, those above `base` are the `concurrentPromises` of the last call of
`next()`. `NextBatch`, `RejectInvalid` and `ResolveAll` are the three ways
through `next()`; `FunctionResolves(i)` and `FunctionRejects(i)` are the outcomes of
the functions, which also come after the run has been rejected. The value of
function *i* is *i*, so that `results` tells where each value comes from.

`OrderedRun` leaves open how the functions are grouped; `Series` implements it with
the values of a fulfilled run as `output` (`ImplementsOrderedRun`).

### Lifecycle

The launcher is a program counter `stage` through `start()`:

    config -> prompt -> setup -> spawn -> verify -> launched -> up
                                    (any) -> failed

`phase` and `batch` are where the spawning is: the phases of `start()` (the first
relay node, the other relay nodes, the first collator of each parachain, the
remaining collators) are the constant `Phases`, and within a phase a batch of
`Concurrency` nodes is spawned by `series()`. Which nodes form a batch is left
open, `Series` being about that. `task[n]` is the progress of `spawnNode()` for
node n, through the native client:

    idle -> preparing -> booting -> logging -> registered
                 (any but idle) -> failed

`SpawnProcess` is the synchronous part of `createResource()`: the process exists and
`processMap[name].pid` is set (`os`, `recorded`). From then on the process may die
at any time (`Die`). `FirstPs`, `Ready` and `SpawnFails` are `wait_node_ready()` and
what follows it; a process that died after writing to its log counts as ready, as
it does in the code, and only `CheckNode` (the verifier's metric) can tell.

A teardown `down[a]` is run by the catch block (`"catch"`), by a signal or by the
global timeout, whose exception ends in the `uncaughtException` handler:

    access -> mkdir -> copy -> grep -> kill -> stopped
               mkdir -> unlogged, kill -> failed

`AccessLogs` goes on to `mkdir()` on any error, and `MakeLogs` may fail at any time, for
want of space or rights as well as because the directory is there by now: then
`dumpLogs()` is rejected, and neither the handler nor the catch block gets to `stop()`
(`network.ts:165-174`, `orchestrator.ts:595-597`). The processes stay. This is the one
exception of `FailedLaunchLeavesNothing`.

`ReadPids` takes the snapshot of `processMap` that the rest of `destroyNamespace()`
goes by. `Grep` may match by accident, as the expression of the code is not
anchored, and matches everything when the list is empty. `Kill` fails when no
process of the list is left. `Exit` is the `process.exit()` after a teardown, or
the one after its rejection (`asyncAction`, `unhandledRejection`).
`HandleTermination` is the function of that name: with a teardown begun before, or
no network, it awaits nothing and the exit follows at once - in the middle of the
other teardown. The catch block does not look at the flag. With
`--dir` the logs directory of an earlier run may be there from the start (`Init`).

Left out: what generates the files (`Setup` is one step that may fail or hang),
the wording of logs, temporary nodes, and `zombienet test`, which is `TestRun`.

### NetworkRun

The launch as the commands see it: `launch` is the promise of `start()`, `starts` how many
processes each node has been given, `alive` those that live. `start()` is fulfilled when
every node has been spawned once; later a node gets a process only when it has none
(`Restart`); nothing is spawned when the program has ended. How nodes are grouped, what a
teardown knows and when it comes is left open. Both `Lifecycle` and `TestRun` implement
it (`ImplementsNetworkRun`): the phases, batches and readiness of the one and the three
steps of the other, which is coarser, are the same launch for whatever follows it.

### Ports

`Probe` is `inner()`: the operating system offers any port that no node listens on,
and `close()` frees it. `Lease` and `Retry` are the code after the await, which
reads and writes `usedPorts` in one go. `Listen` is the node, which comes much
later: the ports of all nodes are leased in `generateNetworkSpec()`, and each node
listens when it is spawned. `now` is `Date.now()`, assumed monotonic. `ProbeTime` and
`BindDelay` bound how long a probe and a spawn take; `NoClash` says what holds when
they fit in a lease together, which the code does not enforce. Programs other
than zombienet are in the choice `Probe` makes; that one of them takes a leased
port is documented in `net.ts` and not modelled.

### Backchannel

`backchannel/src/main.rs` runs on several threads. `Insert` is what happens under the
write lock of the map, `Broadcast` the `tx.send()` after it: in `kv_set()` (a `Poster`)
or in the `recv_task` of a connection (a `Client`, which writes while `"recv"` is in
`tasks[c]`). A connection is

    off -> items -> open -> closed

`ReadMap` reads the map, `SendItem` sends what was read, `Subscribe` is
`tx.subscribe()` and the start of the two tasks. `Take` and `Deliver` are one turn of
`send_task`; `Lag` is the error of `recv()` when the ring has dropped the next
message, which ends `while let Ok`; `SendFails` and `StopReading` end the tasks for
reasons of the client; `Abort` is the `tokio::select!`. Until it comes the other
task runs on. `sender.send()` has no timeout (`main.rs:165-168`): a client that is there and
does not read parks `send_task` for ever, told nothing and not closed. `Reading` are the
clients that read, of which alone `CatchesUp` speaks; the others may stop at any point.
The values are numbered by insertion. `sent` keeps every broadcast,
`cursor` is where the receiver is, and the ring holds the last `Capacity` of them.
`view`, `snapshot`, `readAt` and `openAt` say what the client was told and when;
`snapshot` is `current_items`, the others only serve the properties. `kv_get()` and
`list_keys()` change nothing and are left out.

### TestRun

One `zombienet test` (`test-runner/index.ts`). `stage` is what mocha runs:

    launch -> tests -> teardown -> over
         (HookTimesOut)

and `start` where the `start()` of the hook is, which goes on when the hook has
timed out; `Network` is the variable of that name, empty until `start()` returns. A
test is a kind (`assert`, `signal` for pause and resume, `restart`) and the nodes it
is about, all at once by `Promise.all()`:

    restart: todo -> asleep -> booting -> logging -> done
             refused, failed

`EndTest` is that `Promise.all()`: it fails with the first rejection, while the other
restarts stay `asleep` or `booting` and take their steps during later tests and the
teardown. `Kill`, `SpawnAgain`, `FirstPs` and `Ready` are `restartNode()` of the native
client between its awaits; processes are `<<node, number>>`, and `recorded` is
`processMap[name].pid`. `down["hook"]` is the teardown of the `afterAll` hook and
`down["catch"]` the one of the catch block of `start()`; both read the pids once
(`ReadPids`) and kill those (`KillAll`), `snap` in between. With a network that was
`attached` nothing is spawned and nothing torn down. The program ends through
`ExitMocha`, `HookCatches`, `StartExits`, `GlobalTimeout` or `Interrupt`; the test
command gives `start()` no `setGlobalNetwork`, so that a signal finds no network and
exits without a teardown - and with 0, whatever has failed: its handler calls
`process.exit()` without a code (`cli.ts:61-70`), and the `exit` listener
(`cli.ts:72-77`), whose comment says "use exitCode set by mocha or 2 as default", is
asynchronous and never gets past its `await`. `ExitTellsTheTruth` is therefore about
runs that no signal interrupted.

`TeardownFindsAll` excludes failed restarts, because of those that are asleep, and
launches that came after their hook, because nobody tears them down. The launch
itself is coarser than in `Lifecycle`; both are a `NetworkRun`.

### NodeQueries

`getMetric()` (kind `metric`, and `fresh` for the start time, which is never cached),
`getCalcMetric()` (`calc`), `getHistogramSamplesInBuckets()` (`histogram`) and
`countPatternLines()` (`count`) have the same loop: fetch, compare, sleep a second, in
a race with a timer. `stage` is where the loop is, `request` and `snap` its fetches and
the report each was answered with, `answer` what the call has returned. The test goes
on with the answer (`Begin` of the next call), and the loop below it (`Arrive`, `Wake`),
in the same cache; `timer` is the `setTimeout()`, which starts with the first fetch
for `calc` and `count` (`RacesAtOnce`) and after it for the others, and sets a flag that
ends the loop for all but `histogram` and `count` (`HasFlag`). A failed fetch leaves an
empty cache, which `getMetric()` then takes for a cache. The value of a metric is an
integer, the lines that match a pattern one more metric, and a report what the node
says at a time.

An answer has come from the loop, from an error or from the timer (`answer[i].by`). A
fetch of buckets or logs that fails, once, ends the call at once, however much of the
timeout is left (`networkNode.ts:384-388`, `432-438`, `498-505`): a histogram then returns 0
and a count what it last saw, and the test fails early. The properties name these
answers: `EarlyAnswerPasses` excepts them, and `AnswerWasReported` allows them, as those
of the timer, to be a blank that the node has not reported (`Blank`).

Not promised, as the code does otherwise: `compare()` does not know `notEqual` and
`isAtMost` and takes them for `equal`; after the timeout of `equal 0` `getCalcMetric()`
returns 0 whatever the last difference was, where the comment above
(`networkNode.ts:358`) speaks of undefined metrics; the result of a histogram is
declared twice, so that its catch block returns 0.

### KubeSpawn

`spawnFromDef()` of the Kubernetes client, one kubectl command a step:

    apply -> service -> container -> log -> prepare -> copy <-> upload, fetch
      -> magic -> phase -> ready -> forward -> done           (nodes)
                       \-> wait -> read -> check -> release -> done   (temporary pods)

`polls` counts the calls of `retry()` in the four waits. `Upload` begins when the file is
not in `fileUploadCache` and is a step of its own before `UploadEnds` writes the cache,
so two pods may upload one file; while two write it, what the file server has of it
is whole or partial, and a pod that fetches it may get the partial one
(`doubled` remembers such files). The comment at `kubeClient.ts:49` says that the same
file is not uploaded again; with two concurrent spawns it is. `TunnelExits` is the
exit of a port-forward: one that had opened is replaced, once; one that had not
leaves a promise that never settles, which `SpawnSettles` names as the one case in
which a spawn hangs. Pods move on by themselves (`StartTransfer`, `StartMain`,
`SpecWritten`, `Break`).

### KubeCleaner

Times are ticks from now. `upsert` is each `upsertCronJob()` in progress: `Compute` asks
whether the namespace is active and computes the schedule, in full minutes;
`ApplySchedule` applies it, perhaps after a later one. `Renew` is the interval of `setupCleaner()`, set
when the first upsert has ended. `Fire` and `Clean` are the cron job; `Destroy`, `Throws`
and `Exit` the program's end; `Sweep` is the pass of the k8s-cleaner of CI, which deletes
the namespaces of jobs that failed or were cancelled. `InTime` relates the
intervals: `Ahead` (11 minutes) covers `Renewal` (8), the minute cut off, and twice the
time an upsert may take; it is a condition on `kubectl`, not something the code
enforces, and `late` remembers when it did not hold. A schedule computed for a
minute that has begun waits for the next day or is made up for, which is
Kubernetes' choice. Two upserts overlap only when one takes longer than the interval,
which is late: what the older schedule applied last does then is in the model, and no
property is about it.

The job runs with a service account, which `cronJobCleanerSetup()` applies without a
namespace (`kubeClient.ts:365-369`, `651-658`; `job-svc-account.yaml` names none, while the
job in the network's namespace asks for it, `job-delete-namespace.yaml:14`). The account is
where kubectl is configured to look: in the network's namespace when the user or CI has
made that the current one, and otherwise not, and then no pod of the job is created
(`account`, `Clean`). `NothingLeaks` promises the deletion only where the account is.
The PodMonitor that the program makes in the namespace `monitoring`
(`kubeClient.ts:385`, `664-672`) is not in the model; `NothingLeaks` is about the namespace.

### Wrapper

`wrapper` is where `zombie-wrapper.sh` is:

    started -> loop -> reading -> took -> command -> loop
                          |                 \-> asleep -> loop
                          end of file, quit, a failed kill -> over

The pipe is the one of the kernel: `open()` waits for the other side (`partner`,
`opening`), what is in it goes when nobody holds it any more (`Release`), a read of an
empty pipe without writers is the end of the file. Senders run
`echo command > /tmp/zombiepipe` in the container (`Send`, `WriterOpens`, `Write`,
`WriterCloses`). The script opens the pipe once per line; `took` are the lines it read,
`written` those written with the opening they met, `lost` those that went with the
buffer.

Two things the model shows and no property forbids. When an echo has not closed
the pipe by the time the script has carried out its line and opened the pipe
again, `read` finds the end of the file as soon as it does, the loop ends and the
node is killed, though the comment above the loop says "keep listening from the
pipe" (`EndOfFile`). And a signal to a node that has died fails, with which `set -e` ends
the script and the container (`Signal`). The command `update-cmd`, which no part of
the program sends, is not in the model.

### Names and Genesis

`Genesis` is the part of `start()` that `Lifecycle` has as the one step `Setup`, on the
native provider, for a network definition `conf` out of `Configs`:

    config -> paras -> overrides -> clear -> balances -> authorities
      -> nominators -> channels -> raw -> nodes -> up          (failed)

In `config` the names are made (`NameNext`, one call of `getUniqueName()` each, in the
order of `generateNetworkSpec()`: `Calls`, `Earlier`); `Names` is that function with its two tables. A name
is a sequence of words, so that `<<"bob", 1>>` is what a group makes of its second
member, what `getUniqueName()` makes of the second `bob`, and what a user may write. The
keys come from the seed (`seed`) by `nameCase()` (`keys.ts:12-28`), which makes its first letter
a capital (`Capital` says which words have one), and are one pair for two seeds that
differ in nothing else (`Key`). In `paras` each parachain goes through
`generateParachainFiles()`, in batches of `series()` that wait for all of their members:

    todo -> begin -> building -> copying -> customise -> raw -> files -> done
                         (any from begin to files) -> failed

`shared` is the file `<chain>-plain.json` in which `build-spec` leaves its output, with
the commands that write it, and `plain` the copy. A file that was opened again while a
command wrote it is `mixed`, and may be whole or not until one command has it alone.
`addParachainToGenesis()` may throw, which ends the launch (`AddingFails`). Then the relay
chain's spec, a record of what the steps of `customizePlainRelayChain()` change, goes from
step to step; a step that throws (`Customise`) ends the customisation, and the launch
goes on. `Authorities` is a loop over the validators, and when it throws in the middle
the ones before are in the spec (`AuthoritiesHalf`). `stakingBond` is the module variable of
`chainSpec.ts`. `RegisterPara` comes with the nodes up: a registration that is in a block
(`included`) has put the parachain on the relay chain (`registered`) or not.

The properties say what holds in spite of the following, which the model has as the
code does:

* Two parachains of a batch that have the same chain, or none (`undefined-plain.json`,
  as in
  `examples/0008-parachain-custom-props.toml`), write one file. A torn spec ends the program
  (`TornOnlyWhenShared`); whole, it may be the other one's, which is the same unless
  the commands differ, and is then taken for the right one.
* Errors of the customisation are only printed. Nominators on a chain whose spec has
  no stakers, or without validators, throw, and the HRMP channels after them are
  missing (`GenesisAsAsked` holds unless something was `swallowed`). The
  parachains are there all the same (`ParasOnboard`), having been added before.
* `registerParachain()` resolves when its transaction is in a block, and does not look at
  what came of it (`jsapi-helpers/index.ts:56-79`). An id that is there already, though
  `docs/src/network-definition-spec.md:95` says "Must be unique", or an account that is not
  sudo, and the launch comes up without the parachain. `ParasOnboard` promises the block.
* A name may be given twice when it is asked for as it is and made of another one
  (`Ambiguous`), with the same process name, directory or keys as a consequence; and collators
  called `alice` and `Alice` have the same keys (`SameKeysOnlyIfAmbiguous`).

What the last lines of `generateParachainFiles()` do to the raw spec is not modelled, as
they await nothing between them; they lose one of two updates (`paras.ts:195-211`).
Without `isolate_env` the spec as read before `customizeParachainRawSpec()` is written over
what that function wrote, so `with_custom_props` has no effect, where
`docs/src/network-definition-spec.md:97` says "When true, the chain-spec will be
customized". With `isolate_env` the para_id, corrected in the copy only, stays what a
raw file of the user says.

The keys of an Ethereum account, which two chain decorators add, are left out. A
parachain's id is not 0 (`getUniqueName()` would take it for none), a relay chain's spec
has balances, and two chains of one name, the relay chain's and a parachain's, are left
out. What is in a spec beyond the record - amounts, bootnodes, the genesis of a parachain -
and a spec too large to be parsed are left out too.

## 3. Runs

| run | bounds | properties |
|---|---|---|
| `series` | 7 functions, concurrency 3 | `ResolvedMeansAll`, `BoundedWindow`, `ImplementsOrderedRun`, `Settles` |
| `lifecycle` | 5 nodes in phases of 1, 2, 2; concurrency 2; two signals | `SpawnsBounded`, `LaunchedMeansVerified`, `TeardownOnce`, `OnlyLateSpawnsSurvive`, `NoSpawnAfterFailure`, `ImplementsNetworkRun` |
| `lifecycle_single` | 3 nodes in phases of 1, 2; concurrency 1; one signal; fairness | `FailedLaunchLeavesNothing`, `TeardownEnds`, `LaunchSettles` |
| `lifecycle_ctrlc` | as above, without fairness | `TerminationLeavesNothing`, which is violated |
| `backchannel` | 2 keys, 2 websockets that write, one of which reads, a ring of 2, 3 insertions; fairness | `NoGap`, `StaleOnlyIfRaced`, `CatchesUp` |
| `ports` | 3 calls, 2 ports, 2 retries, leases of 2 ticks, 5 ticks | `DistinctLeases`, `NoClash`, `CallSettles` |
| `test_run` | 2 nodes, 5 tests of which 3 are restarts | `NoTwins`, `TeardownFindsAll`, `ExitTellsTheTruth`, `ImplementsNetworkRun` |
| `node_queries` | 2 calls out of 5 queries, 2 metrics, 2 reports; fairness | `AnswerWasReported`, `EarlyAnswerPasses`, `CallsEnd` |
| `kube_spawn` | 2 nodes and a temporary pod, 2 at a time; 2 files, 2 calls of each `retry()`; fairness | `StartsWithItsFiles`, `SpawnSettles` |
| `kube_cleaner` | 2 upserts; the intervals of the code in half minutes; a day of 15 minutes; fairness | `NamespaceOutlivesProgram`, `NothingLeaks` |
| `wrapper` | 2 senders, 3 commands in all, of 4 kinds; fairness | `LostOnlyInACrowd`, `NodeFollowsCommands`, `CommandsEnd` |
| `genesis` | 3456 definitions of 1 parachain, 96 of 3, 2 at a time | `ClashOnlyIfAmbiguous`, `SameKeysOnlyIfAmbiguous`, `TornOnlyWhenShared`, `GenesisAsAsked`, `ParasOnboard` |

The type invariants are proved for every instance and not run again.

Why the bounds are enough. Seven functions in threes give two full batches and a
short one, and any position for failures and invalid arguments. In `lifecycle` a
batch of two lets one node fail, or a teardown overtake one, at each point of the
other's spawn, and there is a phase before and one after, whose batch would be too
many with one of them on its way; two signals, the
timeout and the catch block are all the pairs of concurrent teardowns and one
more. `lifecycle_single` has two batches in one phase, so that a launch can fail
with nodes before and after. In `ports` two probes run next to a third call that is
leased or listening; a probe and a spawn are together exactly as long as a lease,
so the boundary is reached; five ticks are two leases of a port after each other.
`MaxTime` is the bound of the clock. In `backchannel` three insertions overflow the
ring of two, and let the two websockets invert their broadcasts of a key around the
reading of the map and the subscription of either; the second is one whose client may
stop reading, while the first must still be told everything or closed. A POST does what
a websocket that writes does, without an end in between, and none is added. `MaxWrites` bounds the insertions. The symmetry of
`lifecycle` exchanges nodes of one phase and the two signals, which no action tells
apart; the run has no liveness property.

In `test_run` the first test restarts both nodes, so that one may fail with the
other asleep; the second meets what is left of it, the fourth restarts both
again, and each other kind of test comes once. In `node_queries` any of the five
kinds comes before any other, with its loop left over; `MaxHistory` bounds the
changes of what the node reports, two being what a stale value takes. In
`kube_spawn` the three pods share a file and one has another before it, so that two
uploads of it overlap, one is fetched from while the other is written, and a pod
comes late enough for the cache; two calls of a `retry()` are the first and the
last. In `kube_cleaner` half a minute is enough to be in the middle of one;
`MaxTake`, above the interval, lets an upsert overlap the next, and bounds its
age; the short day is longer than any schedule. In `wrapper` three commands are a
line that is read, one that is written meanwhile and one after; `MaxSent` bounds them. In `genesis` one parachain
meets every relay chain - raw or not, kinds of keys and stakers, validators or none, an
error in any of the steps that can throw - and the genesis depends on parachains only by which are added;
of three parachains two are in a batch and one is not, the first is of every kind and
shares its chain with the second or not. Their collators repeat a name within a
parachain, across parachains and the relay chain, two of them clash, and two differ in
a capital letter only; the first two parachains have the same id or not.

Deadlock is not checked: a series that has settled, a program that has ended, a
port that was given, a server without requests, calls that have returned, pods
that run, a launch that is up or has failed, a namespace that is gone and a container
that has ended stop by design.

Fairness. `Series`: functions settle, continuations run (of `Settles`, the
concurrency is at least one). `Lifecycle`: each step of a teardown and the
timer - commands and file operations of a teardown end, a `setTimeout` fires.
*Nothing* is assumed of the launch: its awaits may hang, and the timeout is what
`LaunchSettles` relies on. `Ports`: the operating system answers a probe and the
continuation runs. `Backchannel`: tokio polls a task that can go on; what is sent to a
client that reads arrives, or fails when it is gone (`Reading`). Nothing is assumed of the
other clients. `NodeQueries`: a fetch is aborted after two seconds
(`TimeoutAbortController(2)`), sleeps and timers end, so no loop stands still before it is
over (`LoopStep`). `KubeSpawn`: kubectl commands
end - `kubectl wait` by its own timeout - and `kubectl port-forward` says its port or
ends; nothing is assumed of the pods. `KubeCleaner`: time passes, the cron job fires,
its job runs if its service account is there, and namespaces terminate; nothing is assumed of the program, which may
be killed. `Wrapper`: the script and the echos run; nothing is assumed of the node or
the tests. `Genesis` has no liveness property and no fairness:
that a launch settles is `LaunchSettles`. `TestRun` has neither either: its tests have no
timeout (`test.timeout(0)`), and one that waits for a node may hang for ever.

`LaunchSettles` starts when there is a network and the timer is pending. When the
user lets the question about an existing directory stand until the timer has
fired, there is no network yet, the callback does nothing, and the launch that
follows has no timeout: a behaviour of the model, and of the code.

Findings. `README.md:311` and `docs/src/cli/teardown.md:3` say that the network is torn
down by terminating the process. `lifecycle_ctrlc` shows the exception, a signal while
`start()` is spawning. In TLC's run alice is up and the spawn of bob has begun, with no
process yet; the handler of the signal gets as far as reading the pids, those of alice
only (`destroyNamespace()` reads them once); the launcher goes on meanwhile and spawns
bob; the teardown comes to its end without an error, alice being dead or killed, and
`process.exit()` leaves bob running. `OnlyLateSpawnsSurvive` says that these are the only
ones left by a teardown that went through. (A shorter way to leave processes, which the
property does not count: a signal that comes while another teardown is in progress, of a
first signal or of the timeout, exits at once in the middle of it.)

A restart of a node that has died does not start it: `kill -9` fails, `restartNode()`
returns false without starting anything, `NetworkNode.restart()` ignores it, and the
test passes with the node down (`EndTest`), where
`docs/src/cli/test-dsl-definition-spec.md:93` says that a restart will stop the process
and start it again. The refusal itself is what keeps a node from having two
processes (`NoTwins`).

Other places where the code does not do what is written beside it, each described with
its module above: the exit code of an interrupted test (`cli.ts:75`, TestRun), a file
uploaded twice (`kubeClient.ts:49`, KubeSpawn), the loop of the wrapper that ends
(Wrapper), `with_custom_props` (Names and Genesis), `getCalcMetric()` after a timeout
(NodeQueries).

## 4. Proofs

For all values of the constants (under the named assumptions of the modules),
by TLAPS:

* `Series` (in `UtilsProofs`): `TypeOK`, `ResolvedMeansAll`, `BoundedWindow` and
  the refinement `ImplementsOrderedRun`. The inductive invariant adds that the
  batches before the current one are fulfilled and collected in place, that
  nothing beyond the batch has begun, and that the batch of a run that is not
  rejected holds no failure; the safety properties are not inductive without
  these.
* `LifecycleProofs`: `TypeOK`, `LaunchedMeansVerified`, `TeardownOnce`, `SpawnsBounded`,
  `OnlyLateSpawnsSurvive`, `NoSpawnAfterFailure`, `FailedLaunchLeavesNothing` and
  `ImplementsNetworkRun`. `SafetyInv` relates the launcher to the nodes (a spawn in progress or failed is
  in the batch, the phases before the current one are registered), the nodes to
  `processMap` (a pid from the spawn on), teardowns to the processes (what a
  teardown that went through has read is dead, and is not spawned again) and the
  handlers to the flag. `BatchBounded` counts the batch, for `SpawnsBounded`.
  `FailedLaunchLeavesNothing` needs three parts more: with
  `Concurrency = 1` a batch has one member, so a failed launch has no spawn in
  flight, so the snapshot of the catch block has every live process and nothing
  is added to it, whatever other teardowns do; a catch block whose `dumpLogs()` was
  rejected has read nothing (`unlogged`). The parts were checked with TLC as invariants first. The refinement
  `ImplementsNetworkRun` needs that a node has a pid exactly from its spawn on
  (`Bookkeeping`), so that no node is spawned twice and a launch that is up has spawned
  all of them.
* `Ports` (in `UtilsProofs`): `PortsTypeOK`, `DistinctLeases`, `NoClash`. The map has, for
  the port of each call, an entry that ends no earlier than the call's lease, so a lease is
  only granted after the one before has ended. For `NoClash`, a probe that offers
  a port another node will use was made before that node listened
  (`ProbedBefore`), which dates it; with `InTime` the lease is still in force when
  the probe is checked.

* `BackchannelProofs`: `TypeOK`, `NoGap`, `StaleOnlyIfRaced`. A value broadcast is no
  newer than the map, each value of the map has been broadcast or is pending
  (`MapSound`), and the map as a connection read it lies between what had been
  broadcast then and the map now (`SnapshotBetween`). A client that has been told
  everything knows of each key the last broadcast or the snapshot (`NoGap`); without
  an inversion the last broadcast is the newest, and with no broadcast between
  the reading and the subscription the snapshot has it.

* `TestRunProofs`: `TypeOK`, `NoTwins`, `TeardownFindsAll`, `ExitTellsTheTruth` and
  `ImplementsNetworkRun`.
  `ProcessInv` says that what lives is what is recorded (`Known`), that nothing is
  recorded of an attached network (`Unknown`), and that a node which a restart has put
  to sleep has no process and no second restart asleep (`Asleep`): so `SpawnAgain`
  never makes a twin, and the run refines `NetworkRun`, with `Firsts`: until the launch is
  up a node is spawned once, as nothing restarts before (`BegunInv`). `StageInv` and `OpInv` say that the teardown comes after tests
  that have settled, or after the hook's timeout, and that no restart of a test that
  passed is asleep; then nothing is spawned any more, and the pids read are all
  there are (`SweptInv`). The exit code follows from `StageInv`, as a test that settled and
  did not fail has passed.
* `NodeQueriesProofs`: `TypeOK`, `AnswerWasReported`, `EarlyAnswerPasses`. `LoopInv` says that a
  timer which has fired has answered, so that what a loop finds after it is never
  an answer, and that only a loop which waits has fetches; `SnapInv` dates each fetch
  after the call's begin. `NewAnswers` is what every step keeps: an answer changes only
  once, to one of the timer, to one of an error of a histogram or a count, or to a value
  that satisfies the query and was read from reports of the call's time. For `AnswerWasReported`, what a call has as its value is a blank or was
  read from reports of its time or the cache (`ValueInv`), and stays so as the history
  grows (`SourcedKeeps`): the answers that the timer and errors give are that value.
* `KubeSpawn` (in `KubeProofs`): `TypeOK`, `StartsWithItsFiles`. What the cache has, and what a pod
  fetches, is on the server and whole unless it was uploaded twice (`Served`); a
  second upload in progress is counted (`Counted`); what a pod has copied it has
  (`Copied`); and the magic file, without which the main container does not start,
  comes after the last copy (`MagicLast`).
* `KubeCleaner` (in `KubeProofs`): `CleanerTypeOK`, `NamespaceOutlivesProgram`, the latter
  under `InTime`. `Renewed`
  says how far away the cron job is from the next renewal and from the upsert in
  progress (`Young`), in terms of the interval, the lead, the minute and the slack; with
  the margin of `InTime` it never comes to fire.
* `WrapperProofs`: `TypeOK`, `LostOnlyInACrowd`, `NodeFollowsCommands`, each of which needs the
  others. The pipe holds the last lines written, in order, and the ones before were
  taken or lost (`PipeIsSuffix`); a line is written once, after it was sent
  (`WrittenOnce`), so that the lines read are no more than the lines sent
  (`SentBound`) and with them the processes started (`Progress`). A line in the pipe
  met an opening that has delivered one, or the present one (`Openings`): a
  line that goes with the buffer shared its opening with another.
* `GenesisProofs`: `TypeOK`, `ClashOnlyIfAmbiguous`, `SameKeysOnlyIfAmbiguous`,
  `TornOnlyWhenShared`, `GenesisAsAsked`, `ParasOnboard`, for every network
  definition and any number of parachains. A name returned twice was returned once as
  it was asked for and once as made of another (`NamesInv`, from the injectivity of
  appending a number). A seed is the name asked for or is made of it, none is made twice,
  and one collator of a parachain at most keeps its name (`SeedInv`). `nameCase()` changes
  nothing but the first word, so two seeds with the same keys are the same seed, which is
  ambiguous, or differ in the first word, which both have from the names asked for. The
  writers of a file are the tasks that build in it (`TaskInv`), tasks in progress belong to
  one batch, and what is mixed or not whole, in the file or in a copy, belongs to a
  parachain that shares its chain with another of its batch (`BatchInv`). The relay
  chain's spec has, at each stage, what the steps before were to add, unless one of them
  threw (`StageInv`, `GenesisInv`), and the parachains added stay in it (`OnboardInv`). The
  order of the calls is a relation on a set (`Calls`), so that no proof needs an induction
  over the definition.

Assumptions: `SeriesAssumption`, `PortsAssumption`, `BackchannelAssumption`,
`TestRunAssumption`, `NodeQueriesAssumption`, `KubeSpawnAssumption`,
`KubeCleanerAssumption` and `WrapperAssumption` only give types (with at least one retry,
one poll, intervals that are not zero, and markers for missing values that are not
integers);
`LifecycleAssumption` adds that the phases are disjoint and the nodes finitely many.
`GenesisAssumption` is the shape of a network definition, with names that are not empty
and no parachain of id 0, and that `Capital` is a function; ids need not differ. `InTime` is an assumption of one theorem. TLC evaluates each in a run.

Only model-checked: `Settles`, `TeardownEnds`, `LaunchSettles`, `CallSettles`, `CatchesUp`,
`CallsEnd`, `SpawnSettles`, `NothingLeaks` and `CommandsEnd`, as liveness under fairness is
out of the prover's reach. Every safety property of a passing run is a theorem.

## 5. Not modelled, and what is left

Left, in the order of what it would add:

1. `NetworkRun` for Kubernetes: the launch over `KubeSpawn`, with its teardown.
2. `findPattern()`: which lines a window of the log returns when fetches take time.
3. The respawn of the tunnel after a restart on Kubernetes, the podman client's
   `isTearingDown`, and the snapshots the native client downloads.

Not modelled, as there is no state in which order or failure could go wrong: the
defaults of the configuration (`configGenerator.ts`, whose names are in `Names` and whose
ports are in `Ports`), the text of chain specs and the commands that make them, the
derivation of key pairs and the chain decorators (pure data), resource builders.
Not modelled, as what they do is elsewhere: polkadot.js calls (an external library
and the chain), traces. Not modelled, as they are text: the parser of test files (a
grammar), `parseLine()`, the command lines; `countPatternLines()` resumes a global
expression in the middle of the next line (`networkNode.ts:466`), which is about text
too. The queries that go through polkadot.js wait for their node without a timeout
(`networkNode.ts:149`). The setup and convert commands and the CI scripts are one-shot programs around
the others.
