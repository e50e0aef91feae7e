------------------------------- MODULE Series -------------------------------
(***************************************************************************)
(* The promise combinator `series` of packages/utils/src/promiseSeries.ts, *)
(* which every batch of work of the orchestrator goes through: parachain   *)
(* artifacts, relay chain nodes, collators and the node verifier.          *)
(*                                                                         *)
(* The functions are 1..N, in the order of the array.  `shifted` of them   *)
(* have been taken from the array; the ones above `base` are the batch in  *)
(* progress.  The value of function i is abstracted to i itself, so that   *)
(* `results` shows which function each value comes from.                   *)
(***************************************************************************)
EXTENDS Naturals, Sequences

CONSTANTS N,             \* functionsThatGeneratePromisesThatRunInSeries.length
          Concurrency    \* the second argument

ASSUME SeriesAssumption == N \in Nat /\ Concurrency \in Nat

VARIABLES callable,      \* the elements x of the array with typeof x === "function"
          base,          \* functions settled by the batches before this one
          shifted,       \* functions taken from the array so far
          status,        \* what became of each function's promise
          results,       \* the local variable `results`
          promise        \* the promise series() returned

vars == <<callable, base, shifted, status, results, promise>>

Status == {"idle", "running", "resolved", "rejected"}

Batch == (base + 1)..shifted

LowerOf(a, b) == IF a <= b THEN a ELSE b

\* Mutant of BatchEnd: the loop takes one function too many.
BatchEndOffByOne == LowerOf(N, shifted + Concurrency + 1)

\* The while loop of next(): take functions while the batch has room.
BatchEnd == LowerOf(N, shifted + Concurrency)

\* The elements the loop takes that are not functions.
Invalid == ((shifted + 1)..BatchEnd) \ callable

Init ==
    /\ callable \in SUBSET (1..N)
    /\ base = 0
    /\ shifted = 0
    /\ status = [i \in 1..N |-> "idle"]
    /\ results = <<>>
    /\ promise = "pending"

\* Mutant of BatchResolved: Promise.any for Promise.all.
AnyResolved ==
    /\ promise = "pending"
    /\ Batch # {} => \E i \in Batch : status[i] = "resolved"

\* next(): the previous Promise.all resolved (vacuously so on the first call).
BatchResolved ==
    /\ promise = "pending"
    /\ \A i \in Batch : status[i] = "resolved"

\* Mutant of CollectResults: [...result, ...results].
CollectInFront ==
    results' = [i \in 1..shifted |->
                  LET new == shifted - base
                  IN  IF i <= new THEN base + i ELSE results[i - new]]

\* results = [...results, ...result]
CollectResults ==
    results' = [i \in 1..shifted |-> IF i <= base THEN results[i] ELSE i]

Launch(last) ==
    status' = [i \in 1..N |->
                 IF shifted < i /\ i <= last THEN "running" ELSE status[i]]

\* next() with functions left, all of the ones it takes callable.
NextBatch ==
    /\ BatchResolved
    /\ shifted < N
    /\ Invalid = {}
    /\ CollectResults
    /\ Launch(BatchEnd)
    /\ base' = shifted
    /\ shifted' = BatchEnd
    /\ UNCHANGED <<callable, promise>>

\* next() meets an element that is not a function: reject, leaving the promises
\* it has already started with nobody listening to them.
RejectInvalid ==
    /\ BatchResolved
    /\ shifted < N
    /\ \E bad \in Invalid :
         /\ \A i \in Invalid : bad <= i
         /\ Launch(bad - 1)
         /\ shifted' = bad
    /\ CollectResults
    /\ base' = shifted
    /\ promise' = "rejected"
    /\ UNCHANGED callable

\* next() with an empty array: resolve(results).
ResolveAll ==
    /\ BatchResolved
    /\ shifted = N
    /\ CollectResults
    /\ base' = shifted
    /\ promise' = "resolved"
    /\ UNCHANGED <<callable, shifted, status>>

\* The promise of function i is fulfilled, also after the run has been rejected.
FunctionResolves(i) ==
    /\ status[i] = "running"
    /\ status' = [status EXCEPT ![i] = "resolved"]
    /\ UNCHANGED <<callable, base, shifted, results, promise>>

\* Mutant of FunctionRejects: no .catch(reject).
RejectsUnheard(i) ==
    /\ status[i] = "running"
    /\ status' = [status EXCEPT ![i] = "rejected"]
    /\ UNCHANGED <<callable, base, shifted, results, promise>>

\* The promise of function i is rejected: Promise.all(...).catch(reject).
FunctionRejects(i) ==
    /\ status[i] = "running"
    /\ status' = [status EXCEPT ![i] = "rejected"]
    /\ promise' = "rejected"
    /\ UNCHANGED <<callable, base, shifted, results>>

Next ==
    \/ NextBatch
    \/ RejectInvalid
    \/ ResolveAll
    \/ \E i \in 1..N : FunctionResolves(i) \/ FunctionRejects(i)

\* Every promise settles and the continuations of settled promises are run.
Fairness ==
    /\ WF_vars(NextBatch \/ RejectInvalid \/ ResolveAll)
    /\ \A i \in 1..N : WF_vars(FunctionResolves(i) \/ FunctionRejects(i))

Spec == Init /\ [][Next]_vars

FairSpec == Spec /\ Fairness

-----------------------------------------------------------------------------
TypeOK ==
    /\ callable \subseteq 1..N
    /\ base \in 0..N
    /\ shifted \in 0..N
    /\ base <= shifted
    /\ status \in [1..N -> Status]
    /\ DOMAIN results = 1..base
    /\ promise \in {"pending", "resolved", "rejected"}

(***************************************************************************)
(* A fulfilled run has run every function to its end, and the value at     *)
(* position i is the one of function i, whatever the order in which the    *)
(* members of a batch finished (verifyNodes relies on the first half).     *)
(***************************************************************************)
ResolvedMeansAll ==
    promise = "resolved" =>
        /\ \A i \in 1..N : status[i] = "resolved"
        /\ results = [i \in 1..N |-> i]

(***************************************************************************)
(* What is unsettled lies in one window of at most Concurrency functions:  *)
(* the batch.  (-c / ZOMBIE_CONCURRENCY bounds the processes being spawned *)
(* at a time.)                                                             *)
(***************************************************************************)
BoundedWindow ==
    /\ shifted - base <= Concurrency
    /\ \A i \in 1..N : status[i] = "running" => i \in Batch

\* The run refines what its callers rely on.
Abstract == INSTANCE OrderedRun WITH
              output <- IF promise = "resolved" THEN results ELSE <<>>

ImplementsOrderedRun == Abstract!Spec

(***************************************************************************)
(* With at least one slot, a run always settles: no batch waits for a      *)
(* function that was never started.                                        *)
(***************************************************************************)
Settles == <>(promise # "pending")
=============================================================================
