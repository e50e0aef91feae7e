------------------------------ MODULE NetworkRun ------------------------------
(***************************************************************************)
(* What the commands that launch a network rely on, `zombienet spawn` as   *)
(* well as `zombienet test`: start() is fulfilled only when every node has *)
(* been spawned, each of them once; after that a node is given another     *)
(* process only when it has none; and when the program has ended nothing   *)
(* is spawned any more.  A launch that is rejected ends nothing by itself: *)
(* the spawns in progress go on.  When processes die, by themselves or by  *)
(* a teardown, and when the program ends, is left open.                    *)
(***************************************************************************)
EXTENDS Naturals

CONSTANT Node     \* the nodes of the network

VARIABLES
    attached,   \* the network was there before, its processes are not known
    launch,     \* the promise of start()
    starts,     \* how many processes each node has been given
    alive,      \* the processes that live, as <<node, number>>
    ended       \* the program has ended

vars == <<attached, launch, starts, alive, ended>>

HasProcess(n) == \E p \in alive : p[1] = n

Init ==
    /\ attached \in BOOLEAN
    /\ launch = "pending"
    /\ starts = [n \in Node |-> 0]
    /\ alive = IF attached THEN Node \X {1} ELSE {}
    /\ ended = FALSE

Start(n) ==
    /\ ~ended
    /\ ~attached
    /\ ~HasProcess(n)
    /\ starts' = [starts EXCEPT ![n] = @ + 1]
    /\ alive' = alive \cup {<<n, starts[n] + 1>>}
    /\ UNCHANGED <<attached, launch, ended>>

Spawn(n) ==
    /\ launch # "up"
    /\ starts[n] = 0
    /\ Start(n)

Restart(n) ==
    /\ launch = "up"
    /\ starts[n] # 0
    /\ Start(n)

Fulfil ==
    /\ ~ended
    /\ launch = "pending"
    /\ attached \/ \A n \in Node : starts[n] = 1
    /\ launch' = "up"
    /\ UNCHANGED <<attached, starts, alive, ended>>

\* start() is rejected; without a network to tear down the program ends at once.
Reject ==
    /\ ~ended
    /\ ~attached
    /\ launch = "pending"
    /\ launch' = "caught"
    /\ ended' \in BOOLEAN
    /\ UNCHANGED <<attached, starts, alive>>

Lose(lost) ==
    /\ ~ended
    /\ alive' = alive \ lost
    /\ UNCHANGED <<attached, launch, starts, ended>>

End ==
    /\ ~ended
    /\ ended' = TRUE
    /\ UNCHANGED <<attached, launch, starts, alive>>

Next ==
    \/ \E n \in Node : Spawn(n) \/ Restart(n)
    \/ Fulfil \/ Reject
    \/ \E lost \in SUBSET alive : Lose(lost)
    \/ End

Spec == Init /\ [][Next]_vars
=============================================================================
