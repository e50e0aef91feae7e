----------------------------- MODULE OrderedRun -----------------------------
(***************************************************************************)
(* What the callers of `series` (orchestrator.ts, verifier.ts) rely on:    *)
(* N asynchronous functions are begun in the order they are given; while   *)
(* the run is pending the unsettled ones lie within Concurrency consecutive*)
(* functions; the run is fulfilled only when all of them are, with their   *)
(* values in the order of the functions; and once one of them has failed   *)
(* nothing more is begun.  How they are grouped is left open.              *)
(***************************************************************************)
EXTENDS Integers

CONSTANTS N,             \* number of functions passed to the run
          Concurrency    \* how many may be unsettled at a time

VARIABLES callable,      \* the indices whose element really is a function
          status,        \* [1..N -> Status]
          promise,       \* the promise the caller awaits
          output         \* the value of a fulfilled run, else the empty sequence

vars == <<callable, status, promise, output>>

Status == {"idle", "running", "resolved", "rejected"}

InFlight == {i \in 1..N : status[i] = "running"}

Init ==
    /\ callable \in SUBSET (1..N)
    /\ status = [i \in 1..N |-> "idle"]
    /\ promise = "pending"
    /\ output = <<>>

\* first..last are the next functions in order and nothing has failed yet.
MayBegin(first, last) ==
    /\ promise = "pending"
    /\ \A i \in 1..N : IF i < first THEN status[i] \in {"running", "resolved"}
                                    ELSE status[i] = "idle"
    /\ status' = [i \in 1..N |->
                    IF first <= i /\ i <= last THEN "running" ELSE status[i]]
    /\ \E lo \in 1..N : InFlight' \subseteq lo..(lo + Concurrency - 1)
    /\ UNCHANGED <<callable, output>>

Begin(first, last) ==
    /\ MayBegin(first, last)
    /\ UNCHANGED promise

\* last + 1 is not a function: the run fails on the spot.
BeginInvalid(first, last) ==
    /\ last + 1 \in 1..N \ callable
    /\ MayBegin(first, last)
    /\ promise' = "rejected"

Resolve(i) ==
    /\ status[i] = "running"
    /\ status' = [status EXCEPT ![i] = "resolved"]
    /\ UNCHANGED <<callable, promise, output>>

Reject(i) ==
    /\ status[i] = "running"
    /\ status' = [status EXCEPT ![i] = "rejected"]
    /\ promise' = "rejected"
    /\ UNCHANGED <<callable, output>>

Fulfil ==
    /\ promise = "pending"
    /\ \A i \in 1..N : status[i] = "resolved"
    /\ promise' = "resolved"
    /\ output' = [i \in 1..N |-> i]
    /\ UNCHANGED <<callable, status>>

Next ==
    \/ \E first \in 1..N, last \in 0..N : Begin(first, last) \/ BeginInvalid(first, last)
    \/ \E i \in 1..N : Resolve(i) \/ Reject(i)
    \/ Fulfil

Spec == Init /\ [][Next]_vars
=============================================================================
