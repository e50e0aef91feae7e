------------------------------ MODULE KubeSpawn ------------------------------
(***************************************************************************)
(* Spawning pods with the Kubernetes client (providers/k8s/kubeClient.ts,  *)
(* k8s/chainSpec.ts): spawnFromDef() with the waits of retry(), the files  *)
(* that reach a pod through the file server and its fileUploadCache, the   *)
(* temporary pods that make chain specs, and the tunnel of                 *)
(* startPortForwarding().  A step of a spawn is one kubectl command.       *)
(*                                                                         *)
(* Kubernetes is outside: pods move on, or break, on their own.            *)
(***************************************************************************)
EXTENDS Naturals, Sequences, FiniteSets

CONSTANTS
    Pod,
    Temp,         \* the pods of createTempNodeDef()
    File,         \* by hash of the content
    Files,        \* filesToCopy of each pod
    Concurrency,  \* of series()
    Polls,        \* how many times retry() calls fn: timeout / 3 secs
    InCI          \* the nodes are reached by ip, without tunnels

ASSUME KubeSpawnAssumption ==
    /\ IsFiniteSet(Pod)
    /\ Temp \subseteq Pod
    /\ Files \in [Pod -> Seq(File)]
    /\ Concurrency \in Nat \ {0}
    /\ Polls \in Nat \ {0}
    /\ InCI \in BOOLEAN

VARIABLES
    stage,    \* where spawnFromDef(), and what its caller does next, is
    polls,    \* calls of fn left to the current retry()
    copied,   \* how many of Files[p] are in the pod
    cache,    \* fileUploadCache
    server,   \* the files of the file server
    doubled,  \* the files whose upload was begun more than once
    got,      \* what the pod has of each file
    magic,    \* the pods with FINISH_MAGIC_FILE in the transfer container
    pod,      \* the status of each pod
    tunnel    \* the kubectl port-forward of each pod

fileVars == <<copied, cache, server, doubled, got>>
kubeVars == <<magic, pod, tunnel>>
vars == <<stage, polls, fileVars, kubeVars>>

Polling == {"container", "log", "phase", "wait"}
Commands == {"service", "prepare", "ready", "read", "check", "release"}
Stages == {"idle", "apply", "copy", "upload", "fetch", "magic", "forward",
           "done", "failed"} \cup Polling \cup Commands

Init ==
    /\ stage = [p \in Pod |-> "idle"]
    /\ polls = [p \in Pod |-> 0]
    /\ copied = [p \in Pod |-> 0]
    /\ cache = {}
    /\ server = [f \in File |-> "absent"]
    /\ doubled = {}
    /\ got = [p \in Pod |-> [f \in File |-> "none"]]
    /\ magic = {}
    /\ pod = [p \in Pod |-> "none"]
    /\ tunnel = [p \in Pod |-> "none"]

\* The step after s.
After(p, s) ==
    CASE s = "apply"     -> IF p \in Temp THEN "container" ELSE "service"
      [] s = "service"   -> "container"
      [] s = "container" -> "log"
      [] s = "log"       -> "prepare"
      [] s = "prepare"   -> "copy"
      [] s = "magic"     -> "phase"
      [] s = "phase"     -> IF p \in Temp THEN "wait" ELSE "ready"
      [] s = "ready"     -> IF InCI THEN "done" ELSE "forward"
      [] s = "wait"      -> "read"
      [] s = "read"      -> "check"
      [] s = "check"     -> "release"
      [] s = "release"   -> "done"

\* Every retry() starts with all its calls.
Advance(p) ==
    /\ stage' = [stage EXCEPT ![p] = After(p, stage[p])]
    /\ polls' = [polls EXCEPT ![p] =
                   IF After(p, stage[p]) \in Polling THEN Polls ELSE 0]

Fail(p) ==
    /\ stage' = [stage EXCEPT ![p] = "failed"]
    /\ polls' = [polls EXCEPT ![p] = 0]

Active == {p \in Pod : stage[p] \notin {"idle", "done", "failed"}}

-----------------------------------------------------------------------------
(* The commands of spawnFromDef().                                         *)

Begin(p) ==
    /\ stage[p] = "idle"
    /\ Cardinality(Active) < Concurrency
    /\ \A q \in Pod : stage[q] # "failed"
    /\ stage' = [stage EXCEPT ![p] = "apply"]
    /\ UNCHANGED <<polls, fileVars, kubeVars>>

\* createResource(podDef)
Apply(p) ==
    /\ stage[p] = "apply"
    /\ Advance(p)
    /\ pod' = [pod EXCEPT ![p] = "pending"]
    /\ UNCHANGED <<fileVars, magic, tunnel>>

\* The service, the snapshot and the keystore; kubectl wait; of a temporary
\* pod copyFileFromPod(), the check that the spec is not empty, and the magic
\* file that lets it end.
Command(p) ==
    /\ stage[p] \in Commands
    /\ stage[p] = "ready" => pod[p] = "running"
    /\ Advance(p)
    /\ tunnel' = [tunnel EXCEPT ![p] =
                    IF stage'[p] = "forward" THEN "starting" ELSE @]
    /\ UNCHANGED <<fileVars, magic, pod>>

\* runCommand() throws when kubectl fails, also out of a retry().
CommandFails(p) ==
    /\ stage[p] \in Commands \cup Polling \cup {"apply", "fetch", "magic"}
    /\ Fail(p)
    /\ UNCHANGED <<fileVars, kubeVars>>

\* What the fn of each wait looks for.
Seen(p) ==
    \/ stage[p] \in {"container", "log"} /\ pod[p] = "init"
    \/ stage[p] = "phase" /\ pod[p] \in {"running", "waiting"}
    \/ stage[p] = "wait" /\ pod[p] = "waiting"

\* The pod cannot pull its image, which ends the wait at once.
PullFailed(p) == stage[p] = "phase" /\ pod[p] = "unpulled"

\* Mutant of Poll: the time left is not counted down.
PollForever(p) ==
    /\ stage[p] \in Polling
    /\ \/ Seen(p) /\ Advance(p)
       \/ PullFailed(p) /\ Fail(p)
       \/ ~Seen(p) /\ UNCHANGED <<stage, polls>>
    /\ UNCHANGED <<fileVars, kubeVars>>

\* One call of fn in retry().
Poll(p) ==
    /\ stage[p] \in Polling
    /\ \/ Seen(p) /\ Advance(p)
       \/ /\ ~Seen(p)
          /\ polls[p] = 1 \/ PullFailed(p)
          /\ Fail(p)
       \/ /\ ~Seen(p)
          /\ polls[p] > 1 /\ ~PullFailed(p)
          /\ polls' = [polls EXCEPT ![p] = @ - 1]
          /\ UNCHANGED stage
    /\ UNCHANGED <<fileVars, kubeVars>>

-----------------------------------------------------------------------------
(* copyFileToPod(), with the file server.                                  *)

Current(p) == Files[p][copied[p] + 1]

AllCopied(p) ==
    /\ stage[p] = "copy"
    /\ copied[p] = Len(Files[p])
    /\ stage' = [stage EXCEPT ![p] = "magic"]
    /\ UNCHANGED <<polls, fileVars, kubeVars>>

\* The cache has the file.
UseCache(p) ==
    /\ stage[p] = "copy"
    /\ copied[p] < Len(Files[p])
    /\ Current(p) \in cache
    /\ stage' = [stage EXCEPT ![p] = "fetch"]
    /\ UNCHANGED <<polls, fileVars, kubeVars>>

\* Mutant of Upload: the cache is written before kubectl cp has ended.
UploadCached(p) ==
    /\ stage[p] = "copy"
    /\ copied[p] < Len(Files[p])
    /\ LET f == Current(p) IN
       /\ f \notin cache
       /\ cache' = cache \cup {f}
       /\ server' = [server EXCEPT ![f] = "partial"]
       /\ doubled' = IF server[f] = "absent" THEN doubled ELSE doubled \cup {f}
    /\ stage' = [stage EXCEPT ![p] = "upload"]
    /\ UNCHANGED <<polls, copied, got, kubeVars>>

\* It has not: kubectl cp to the file server is started at once.
Upload(p) ==
    /\ stage[p] = "copy"
    /\ copied[p] < Len(Files[p])
    /\ LET f == Current(p) IN
       /\ f \notin cache
       /\ server' = [server EXCEPT ![f] = "partial"]
       /\ doubled' = IF server[f] = "absent" THEN doubled ELSE doubled \cup {f}
    /\ stage' = [stage EXCEPT ![p] = "upload"]
    /\ UNCHANGED <<polls, copied, cache, got, kubeVars>>

Uploaders(f) ==
    {q \in Pod : stage[q] = "upload" /\ copied[q] < Len(Files[q]) /\ Current(q) = f}

\* With another upload of the file in progress, its content is either's.
UploadEnds(p) ==
    /\ stage[p] = "upload"
    /\ LET f == Current(p) IN
       /\ \E s \in {"partial", "whole"} :
            /\ Uploaders(f) = {p} => s = "whole"
            /\ server' = [server EXCEPT ![f] = s]
       /\ cache' = cache \cup {f}
    /\ stage' = [stage EXCEPT ![p] = "fetch"]
    /\ UNCHANGED <<polls, copied, doubled, got, kubeVars>>

UploadFails(p) ==
    /\ stage[p] = "upload"
    /\ Fail(p)
    /\ \E s \in {"partial", server[Current(p)]} :
         server' = [server EXCEPT ![Current(p)] = s]
    /\ UNCHANGED <<copied, cache, doubled, got, kubeVars>>

\* wget in the pod, of what the file server has of the file, and chmod.
Fetch(p) ==
    /\ stage[p] = "fetch"
    /\ LET f == Current(p) IN
       /\ server[f] # "absent"
       /\ got' = [got EXCEPT ![p][f] = server[f]]
    /\ copied' = [copied EXCEPT ![p] = @ + 1]
    /\ stage' = [stage EXCEPT ![p] = "copy"]
    /\ UNCHANGED <<polls, cache, server, doubled, kubeVars>>

\* putLocalMagicFile()
PutMagic(p) ==
    /\ stage[p] = "magic"
    /\ Advance(p)
    /\ magic' = magic \cup {p}
    /\ UNCHANGED <<fileVars, pod, tunnel>>

-----------------------------------------------------------------------------
(* startPortForwarding().                                                  *)

\* stdout has the port, the promise resolves.
TunnelOpens(p) ==
    /\ tunnel[p] = "starting"
    /\ tunnel' = [tunnel EXCEPT ![p] = "open"]
    /\ stage' = [stage EXCEPT ![p] = "done"]
    /\ UNCHANGED <<polls, fileVars, magic, pod>>

\* The exit handler makes a tunnel for one that had resolved.  The new one has
\* no handlers.
TunnelExits(p) ==
    /\ tunnel[p] \in {"starting", "open", "reopened"}
    /\ tunnel' = [tunnel EXCEPT ![p] =
                    IF @ = "open" THEN "reopened" ELSE "lost"]
    /\ UNCHANGED <<stage, polls, fileVars, magic, pod>>

-----------------------------------------------------------------------------
(* Kubernetes.                                                             *)

\* The transfer container runs, and says that it waits.
StartTransfer(p) ==
    /\ pod[p] = "pending"
    /\ pod' = [pod EXCEPT ![p] = "init"]
    /\ UNCHANGED <<stage, polls, fileVars, magic, tunnel>>

\* It ends when it finds the magic file; the main container is started.
StartMain(p) ==
    /\ pod[p] = "init"
    /\ p \in magic
    /\ pod' = [pod EXCEPT ![p] = "running"]
    /\ UNCHANGED <<stage, polls, fileVars, magic, tunnel>>

\* The command of a temporary pod has written the spec.
SpecWritten(p) ==
    /\ p \in Temp
    /\ pod[p] = "running"
    /\ pod' = [pod EXCEPT ![p] = "waiting"]
    /\ UNCHANGED <<stage, polls, fileVars, magic, tunnel>>

\* The image of the main container cannot be pulled, or its command fails.
Break(p) ==
    /\ p \in magic
    /\ \/ pod[p] = "init" /\ pod' = [pod EXCEPT ![p] = "unpulled"]
       \/ pod[p] = "running" /\ pod' = [pod EXCEPT ![p] = "crashed"]
    /\ UNCHANGED <<stage, polls, fileVars, magic, tunnel>>

-----------------------------------------------------------------------------
Step(p) ==
    \/ Apply(p) \/ Command(p) \/ Poll(p)
    \/ AllCopied(p) \/ UseCache(p) \/ Upload(p)
    \/ UploadEnds(p) \/ UploadFails(p) \/ Fetch(p) \/ PutMagic(p)

Kubernetes(p) == StartTransfer(p) \/ StartMain(p) \/ SpecWritten(p) \/ Break(p)

Next ==
    \E p \in Pod :
      \/ Begin(p) \/ Step(p) \/ CommandFails(p)
      \/ TunnelOpens(p) \/ TunnelExits(p) \/ Kubernetes(p)

\* Every kubectl command ends, kubectl wait by its own timeout if nothing else;
\* kubectl port-forward says its port or ends.
Fairness ==
    \A p \in Pod :
      /\ WF_vars(Step(p) \/ (stage[p] = "ready" /\ CommandFails(p)))
      /\ WF_vars(TunnelOpens(p) \/ (stage[p] = "forward" /\ TunnelExits(p)))

Spec == Init /\ [][Next]_vars

FairSpec == Spec /\ Fairness

-----------------------------------------------------------------------------
(* A file is being copied only while there is one to copy, and a retry()   *)
(* in progress has calls left.                                             *)
TypeOK ==
    /\ stage \in [Pod -> Stages]
    /\ polls \in [Pod -> 0..Polls]
    /\ \A p \in Pod : stage[p] \in Polling => polls[p] > 0
    /\ copied \in [Pod -> Nat]
    /\ \A p \in Pod : copied[p] <= Len(Files[p])
    /\ \A p \in Pod : stage[p] \in {"upload", "fetch"} => copied[p] < Len(Files[p])
    /\ cache \in SUBSET File
    /\ server \in [File -> {"absent", "partial", "whole"}]
    /\ doubled \in SUBSET File
    /\ got \in [Pod -> [File -> {"none", "partial", "whole"}]]
    /\ magic \in SUBSET Pod
    /\ pod \in [Pod -> {"none", "pending", "init", "running", "waiting",
                     "unpulled", "crashed"}]
    /\ tunnel \in [Pod -> {"none", "starting", "open", "reopened", "lost"}]

(***************************************************************************)
(* A node, or the command of a temporary pod, starts with all its files.   *)
(* One of them may be truncated, which wget does not notice, but only if   *)
(* the file was uploaded twice: two spawns found it missing in the cache,  *)
(* and one fetched it while the other was still writing it.                *)
(***************************************************************************)
StartsWithItsFiles ==
    \A p \in Pod : pod[p] \in {"running", "waiting"} =>
      \A i \in 1..Len(Files[p]) :
        LET f == Files[p][i] IN
        got[p][f] = "whole" \/ (got[p][f] = "partial" /\ f \in doubled)

(***************************************************************************)
(* Every spawn ends: it is done, or fails, whatever the pod does.  One     *)
(* case is left: kubectl port-forward ended before it said its port, and   *)
(* the promise of startPortForwarding() is never settled.                  *)
(***************************************************************************)
SpawnSettles ==
    \A p \in Pod :
      stage[p] = "apply" ~> \/ stage[p] \in {"done", "failed"}
                            \/ (stage[p] = "forward" /\ tunnel[p] = "lost")
=============================================================================
