----------------------------- MODULE KubeCleaner -----------------------------
(***************************************************************************)
(* Who deletes the namespace of a network on Kubernetes, and when: a cron  *)
(* job in the namespace whose schedule setupCleaner() writes and renews,   *)
(* destroyNamespace(), and the k8s-cleaner of CI.                          *)
(*                                                                         *)
(* Times are ticks from now on, so that the model needs no end of time.    *)
(* The program renews the schedule in time, or it does not: upsertCronJob()*)
(* is a row of kubectl commands, and nothing bounds how long they take.    *)
(***************************************************************************)
EXTENDS Naturals, FiniteSets

CONSTANTS
    Minute,   \* in ticks; the schedule of a cron job has no smaller unit
    Renewal,  \* the interval of upsertCronJob(), in minutes
    Ahead,    \* how far ahead it schedules the deletion, in minutes
    Day,      \* in ticks: a schedule comes back every day
    Slack,    \* how long an upsert may take, in ticks, to be in time
    MaxTake,  \* bound of the model: an upsert takes no longer than this
    Upsert    \* the calls of upsertCronJob() that may be in progress at once

ASSUME KubeCleanerAssumption ==
    /\ Minute \in Nat \ {0}
    /\ Renewal \in Nat \ {0}
    /\ Ahead \in Nat \ {0}
    /\ Day \in Nat /\ Day > Minute
    /\ Slack \in Nat /\ MaxTake \in Nat
    /\ IsFiniteSet(Upsert)

\* An upsert within Slack renews the schedule in time.
InTime ==
    /\ Slack < Renewal * Minute
    /\ Renewal * Minute + Minute + 2 * Slack <= Ahead * Minute

VARIABLES
    account,       \* the job's service account and role are in the namespace
    program,       \* "up", "stopping", "gone"
    cronInterval,  \* setupCleaner() has resolved
    renewIn,       \* then, the ticks until the next call of its setInterval()
    upsert,        \* where each upsertCronJob() is, its age, and the ticks left
                   \* to the schedule it has computed
    phase,         \* the ticks since the last full minute
    armed,         \* the cron job exists,
    cronIn,        \* and fires in so many ticks
    cleaning,      \* it has fired: its job is about to delete the namespace
    namespace,     \* "active", "terminating", "gone"
    ci,            \* the status of the CI job, "none" outside of CI
    late           \* history: some upsert took longer than Slack

cronVars == <<armed, cronIn, cleaning>>
clusterVars == <<account, cronVars, namespace, ci>>
cleanerVars == <<program, cronInterval, renewIn, upsert, phase, clusterVars, late>>

Idle == [at |-> "idle", age |-> 0, due |-> 0]
Started == [at |-> "ask", age |-> 0, due |-> 0]

InProgress == {u \in Upsert : upsert[u].at # "idle"}

\* The namespace is there, and setupCleaner() calls upsertCronJob().  Before that
\* cronJobCleanerSetup() has applied job-svc-account.yaml without naming a
\* namespace: the account and its role are where kubectl's configuration points
\* to.  That is the network's namespace when the program runs in the one that CI
\* injects (ZOMBIE_NAMESPACE), and another one when createNamespace() made it.
CleanerInit ==
    /\ account \in BOOLEAN
    /\ program = "up"
    /\ cronInterval = FALSE
    /\ renewIn = 0
    /\ \E u \in Upsert : upsert = [v \in Upsert |-> IF v = u THEN Started ELSE Idle]
    /\ phase \in 0..(Minute - 1)
    /\ armed = FALSE
    /\ cronIn = 0
    /\ cleaning = FALSE
    /\ namespace = "active"
    /\ ci \in {"none", "running"}
    /\ late = FALSE

-----------------------------------------------------------------------------
(* The program.                                                            *)

\* The upsert resolves.  The first one is awaited by setupCleaner(), which
\* then sets the interval.
Ends(u) ==
    /\ upsert' = [upsert EXCEPT ![u] = Idle]
    /\ cronInterval' = TRUE
    /\ renewIn' = IF cronInterval THEN renewIn ELSE Renewal * Minute

\* The interval calls upsertCronJob(), and does not wait for it.
Renew(u) ==
    /\ program # "gone"
    /\ cronInterval
    /\ renewIn = 0
    /\ u \notin InProgress
    /\ upsert' = [upsert EXCEPT ![u] = Started]
    /\ renewIn' = Renewal * Minute
    /\ UNCHANGED <<program, cronInterval, phase, clusterVars, late>>

\* Mutant of Compute: the deletion is scheduled for the same minute as that of
\* the pod monitor.
ComputeShort(u) ==
    /\ upsert[u].at = "ask"
    /\ namespace = "active"
    /\ upsert' = [upsert EXCEPT ![u].at = "apply",
                                ![u].due = (Ahead - 1) * Minute - phase]
    /\ UNCHANGED <<program, cronInterval, renewIn, phase, clusterVars, late>>

\* isNamespaceActive() says yes, the schedule is computed: a full minute.
Compute(u) ==
    /\ upsert[u].at = "ask"
    /\ namespace = "active"
    /\ upsert' = [upsert EXCEPT ![u].at = "apply",
                                ![u].due = Ahead * Minute - phase]
    /\ UNCHANGED <<program, cronInterval, renewIn, phase, clusterVars, late>>

\* It says no: there is nothing to renew.
NotActive(u) ==
    /\ upsert[u].at = "ask"
    /\ namespace = "terminating"
    /\ Ends(u)
    /\ UNCHANGED <<program, phase, clusterVars, late>>

\* Mutant of ApplySchedule: an error of kubectl apply is ignored.
ApplyScheduleIgnored(u) ==
    /\ upsert[u].at = "apply"
    /\ namespace = "active"
    /\ \/ armed' = TRUE /\ cronIn' = upsert[u].due
       \/ UNCHANGED <<armed, cronIn>>
    /\ Ends(u)
    /\ UNCHANGED <<account, program, phase, cleaning, namespace, ci, late>>

\* kubectl apply of the cron job.  If its minute has begun it is Kubernetes
\* that decides: it makes up for it at once, or waits for the next day.
ApplySchedule(u) ==
    /\ upsert[u].at = "apply"
    /\ namespace = "active"
    /\ armed' = TRUE
    /\ \/ upsert[u].due > 0 /\ cronIn' = upsert[u].due
       \/ upsert[u].due = 0 /\ cronIn' \in {0, Day - phase}
    /\ Ends(u)
    /\ UNCHANGED <<account, program, phase, cleaning, namespace, ci, late>>

\* A command fails; with the namespace gone, or going while the cron job is
\* applied, it does.  The catch block of start(), or the handler of
\* unhandledRejection, tears the network down.
Throws(u) ==
    /\ u \in InProgress
    /\ upsert' = [upsert EXCEPT ![u] = Idle]
    /\ program' = "stopping"
    /\ UNCHANGED <<cronInterval, renewIn, phase, clusterVars, late>>

\* A signal, a failed launch, the end of the test.
Interrupt ==
    /\ program = "up"
    /\ program' = "stopping"
    /\ UNCHANGED <<cronInterval, renewIn, upsert, phase, clusterVars, late>>

\* The deletion of a namespace takes the cron job with it.
Delete ==
    /\ namespace = "active"
    /\ namespace' = "terminating"
    /\ armed' = FALSE
    /\ cronIn' = 0
    /\ cleaning' = FALSE

\* destroyNamespace()
Destroy ==
    /\ program = "stopping"
    /\ Delete
    /\ UNCHANGED <<account, program, cronInterval, renewIn, upsert, phase, ci, late>>

\* The program exits, with or without the namespace deleted (deleting the pod
\* monitor, which comes first, may fail), or is killed.
Exit ==
    /\ program # "gone"
    /\ program' = "gone"
    /\ renewIn' = 0
    /\ upsert' = [u \in Upsert |-> Idle]
    /\ UNCHANGED <<cronInterval, phase, clusterVars, late>>

-----------------------------------------------------------------------------
(* Kubernetes and CI.                                                      *)

\* What is due now happens now.
Due ==
    \/ program # "gone" /\ cronInterval /\ renewIn = 0
    \/ armed /\ cronIn = 0

Older(u) ==
    IF u.at = "idle" THEN u
    ELSE [at |-> u.at, age |-> u.age + 1,
          due |-> IF u.due = 0 THEN 0 ELSE u.due - 1]

Tick ==
    /\ ~Due
    /\ \A u \in InProgress : upsert[u].age < MaxTake
    /\ phase' = IF phase + 1 = Minute THEN 0 ELSE phase + 1
    /\ renewIn' = IF renewIn > 0 THEN renewIn - 1 ELSE 0
    /\ cronIn' = IF cronIn > 0 THEN cronIn - 1 ELSE 0
    /\ upsert' = [u \in Upsert |-> Older(upsert[u])]
    /\ late' = IF \E u \in InProgress : upsert[u].age >= Slack THEN TRUE ELSE late
    /\ UNCHANGED <<account, program, cronInterval, armed, cleaning, namespace, ci>>

\* The job of the cron job is created; a new schedule does not stop it.
Fire ==
    /\ armed /\ cronIn = 0
    /\ cleaning' = TRUE
    /\ cronIn' = Day
    /\ UNCHANGED <<account, program, cronInterval, renewIn, upsert, phase, armed,
                   namespace, ci, late>>

\* The pod of the job runs and deletes the namespace: only with its service
\* account.  Without it Kubernetes creates no pod, and the job waits.
Clean ==
    /\ cleaning
    /\ account
    /\ Delete
    /\ UNCHANGED <<account, program, cronInterval, renewIn, upsert, phase, ci, late>>

Terminated ==
    /\ namespace = "terminating"
    /\ namespace' = "gone"
    /\ UNCHANGED <<account, program, cronInterval, renewIn, upsert, phase, cronVars,
                   ci, late>>

\* A job may be cancelled with the program still running.
JobEnds ==
    /\ ci = "running"
    /\ ci' \in {"failed", "passed"}
    /\ ci' = "passed" => program = "gone"
    /\ UNCHANGED <<account, program, cronInterval, renewIn, upsert, phase, cronVars,
                   namespace, late>>

\* The k8s-cleaner finds the namespace, and its job failed or cancelled.
Sweep ==
    /\ ci = "failed"
    /\ Delete
    /\ UNCHANGED <<account, program, cronInterval, renewIn, upsert, phase, ci, late>>

-----------------------------------------------------------------------------
UpsertStep(u) == Compute(u) \/ NotActive(u) \/ ApplySchedule(u) \/ Throws(u)

CleanerNext ==
    \/ \E u \in Upsert : Renew(u) \/ UpsertStep(u)
    \/ Interrupt \/ Destroy \/ Exit
    \/ Tick \/ Fire \/ Clean \/ Terminated \/ JobEnds \/ Sweep

\* Time passes, the cron job fires, its job runs if it can, namespaces terminate.
CleanerFairness ==
    /\ WF_cleanerVars(Tick)
    /\ WF_cleanerVars(Fire)
    /\ WF_cleanerVars(Clean)
    /\ WF_cleanerVars(Terminated)

CleanerSpec == CleanerInit /\ [][CleanerNext]_cleanerVars

CleanerFairSpec == CleanerSpec /\ CleanerFairness

-----------------------------------------------------------------------------
\* Until setupCleaner() resolves there is one upsert; a program that is gone has
\* none, and the cron job is never longer than a day away.
CleanerTypeOK ==
    /\ account \in BOOLEAN
    /\ program \in {"up", "stopping", "gone"}
    /\ cronInterval \in BOOLEAN
    /\ renewIn \in 0..(Renewal * Minute)
    /\ upsert \in [Upsert -> [at : {"idle", "ask", "apply"}, age : Nat, due : Nat]]
    /\ ~cronInterval => \A u, v \in InProgress : u = v
    /\ program = "gone" => InProgress = {}
    /\ phase \in 0..(Minute - 1)
    /\ armed \in BOOLEAN
    /\ cronIn \in Nat
    /\ cleaning \in BOOLEAN
    /\ namespace \in {"active", "terminating", "gone"}
    /\ namespace # "active" => ~armed /\ ~cleaning
    /\ ci \in {"none", "running", "failed", "passed"}
    /\ late \in BOOLEAN

(***************************************************************************)
(* A program that runs keeps its namespace, unless its CI job has failed   *)
(* or was cancelled, or one of its renewals took too long.  The margin is  *)
(* two minutes: the schedule is eleven minutes ahead, less what is cut off *)
(* the current minute, and the renewal comes eight minutes after.  The     *)
(* first upsert uses it twice: the interval only begins when it has ended. *)
(***************************************************************************)
NamespaceOutlivesProgram ==
    program = "up" /\ (cleaning \/ namespace # "active") => late \/ ci = "failed"

(***************************************************************************)
(* Once setupCleaner() has resolved, the namespace of a program that has   *)
(* ended is deleted, however it ended, if the account of the cleaning job  *)
(* is in it.  Where it is not only destroyNamespace() and CI delete it.    *)
(***************************************************************************)
NothingLeaks == account /\ program = "gone" /\ cronInterval ~> namespace = "gone"
=============================================================================
