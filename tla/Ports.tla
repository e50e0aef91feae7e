-------------------------------- MODULE Ports --------------------------------
(***************************************************************************)
(* Where the nodes' TCP ports come from: getRandomPort() of                *)
(* packages/utils/src/net.ts.  A call asks the operating system for a free *)
(* port, lets go of it, and leases it in the module's map usedPorts until  *)
(* the node it is for has had time to listen on it.  Calls interleave at   *)
(* the await of inner(); the map is read and written after it, with the    *)
(* clock, in one go.                                                       *)
(*                                                                         *)
(* What follows a call is modelled too: generateNetworkSpec() leases the   *)
(* ports of every node, and a node listens when it is spawned, much later. *)
(***************************************************************************)
EXTENDS Integers

CONSTANTS
    Call,        \* the calls of getRandomPort(), each for a port of one node
    Port,        \* the ephemeral ports of the host
    MaxRetries,  \* options.maxRetries
    Timeout,     \* options.timeout
    ProbeTime,   \* bound on the time between listen() and the check of a port
    BindDelay,   \* bound on the time between a lease and the node listening
    MaxTime      \* bound of the clock

ASSUME PortsAssumption ==
    /\ MaxRetries \in Nat \ {0}
    /\ {Timeout, ProbeTime, BindDelay, MaxTime} \subseteq Nat
    /\ "none" \notin Port

VARIABLES
    now,        \* Date.now(), taken to be monotonic
    usedPorts,  \* the Map of net.ts, from ports to the end of their lease
    pc,         \* where each call, and later its node, is
    port,       \* the port a call is about, in the states that have one
    retries,    \* the local variable of each call
    probedAt,   \* while a probe is checked: when it found its port free
    leasedAt    \* when the call leased its port

portVars == <<now, usedPorts, pc, port, retries, probedAt, leasedAt>>

PortsInit ==
    /\ now = 0
    /\ usedPorts = [p \in {} |-> 0]
    /\ pc = [c \in Call |-> "idle"]
    /\ port = [c \in Call |-> "none"]
    /\ retries = [c \in Call |-> 0]
    /\ probedAt = [c \in Call |-> 0]
    /\ leasedAt = [c \in Call |-> 0]

-----------------------------------------------------------------------------
Goto(c, from, to) ==
    /\ pc[c] = from
    /\ pc' = [pc EXCEPT ![c] = to]

Listening == {port[c] : c \in {d \in Call : pc[d] = "listening"}}

Begin(c) ==
    /\ Goto(c, "idle", "asking")
    /\ UNCHANGED <<now, usedPorts, port, retries, probedAt, leasedAt>>

\* Mutant of Probe: retries is not incremented.
ProbeUncounted(c) ==
    /\ Goto(c, "asking", "probed")
    /\ \E p \in Port \ Listening : port' = [port EXCEPT ![c] = p]
    /\ probedAt' = [probedAt EXCEPT ![c] = now]
    /\ UNCHANGED <<now, usedPorts, retries, leasedAt>>

\* inner(): listen(0) gets a port nobody listens on, close() frees it at once.
Probe(c) ==
    /\ Goto(c, "asking", "probed")
    /\ retries' = [retries EXCEPT ![c] = @ + 1]
    /\ \E p \in Port \ Listening : port' = [port EXCEPT ![c] = p]
    /\ probedAt' = [probedAt EXCEPT ![c] = now]
    /\ UNCHANGED <<now, usedPorts, leasedAt>>

\* inner(): the server emits an error, and the call rejects.
ProbeFails(c) ==
    /\ Goto(c, "asking", "rejected")
    /\ UNCHANGED <<now, usedPorts, port, retries, probedAt, leasedAt>>

\* Mutant of Available: <= for <.
AvailableAtEnd(p) == p \in DOMAIN usedPorts => usedPorts[p] <= now

\* portUsedTimestamp === undefined || portUsedTimestamp < now
Available(p) == p \in DOMAIN usedPorts => usedPorts[p] < now

\* Mutant of Lease: no usedPorts.set.
LeaseUnrecorded(c) ==
    /\ Available(port[c])
    /\ Goto(c, "probed", "leased")
    /\ leasedAt' = [leasedAt EXCEPT ![c] = now]
    /\ probedAt' = [probedAt EXCEPT ![c] = 0]
    /\ UNCHANGED <<now, usedPorts, port, retries>>

\* The port is leased and returned.
Lease(c) ==
    /\ Available(port[c])
    /\ Goto(c, "probed", "leased")
    /\ usedPorts' = [p \in DOMAIN usedPorts \cup {port[c]} |->
                       IF p = port[c] THEN now + Timeout ELSE usedPorts[p]]
    /\ leasedAt' = [leasedAt EXCEPT ![c] = now]
    /\ probedAt' = [probedAt EXCEPT ![c] = 0]
    /\ UNCHANGED <<now, port, retries>>

\* Somebody has the lease: try again, or throw after maxRetries probes.
Retry(c) ==
    /\ ~Available(port[c])
    /\ Goto(c, "probed", IF retries[c] < MaxRetries THEN "asking" ELSE "rejected")
    /\ probedAt' = [probedAt EXCEPT ![c] = 0]
    /\ UNCHANGED <<now, usedPorts, port, retries, leasedAt>>

\* The node the port was leased for listens on it, or finds it taken.
Listen(c) ==
    /\ Goto(c, "leased", IF port[c] \in Listening THEN "clash" ELSE "listening")
    /\ UNCHANGED <<now, usedPorts, port, retries, probedAt, leasedAt>>

\* The node ends; its port is the operating system's to give.
Stop(c) ==
    /\ Goto(c, "listening", "stopped")
    /\ UNCHANGED <<now, usedPorts, port, retries, probedAt, leasedAt>>

\* Time passes, but no probe and no spawn takes longer than its bound.
Tick ==
    /\ now < MaxTime
    /\ \A c \in Call :
         /\ pc[c] = "probed" => now < probedAt[c] + ProbeTime
         /\ pc[c] = "leased" => now < leasedAt[c] + BindDelay
    /\ now' = now + 1
    /\ UNCHANGED <<usedPorts, pc, port, retries, probedAt, leasedAt>>

PortsNext ==
    \/ \E c \in Call :
         \/ Begin(c) \/ Probe(c) \/ ProbeFails(c) \/ Lease(c) \/ Retry(c)
         \/ Listen(c) \/ Stop(c)
    \/ Tick

\* The operating system answers and continuations are run.
PortsFairness ==
    \A c \in Call : WF_portVars(Probe(c) \/ ProbeFails(c) \/ Lease(c) \/ Retry(c))

PortsSpec == PortsInit /\ [][PortsNext]_portVars

PortsFairSpec == PortsSpec /\ PortsFairness

-----------------------------------------------------------------------------
\* The calls that returned a port.
Given == {c \in Call : pc[c] \in {"leased", "listening", "clash", "stopped"}}

PortsTypeOK ==
    /\ now \in Nat
    /\ DOMAIN usedPorts \subseteq Port
    /\ \A p \in DOMAIN usedPorts : usedPorts[p] \in Nat
    /\ pc \in [Call -> {"idle", "asking", "probed", "leased", "listening",
                        "clash", "stopped", "rejected"}]
    /\ port \in [Call -> Port \cup {"none"}]
    /\ \A c \in Call : pc[c] = "probed" \/ c \in Given => port[c] \in Port
    /\ retries \in [Call -> Nat]
    /\ probedAt \in [Call -> Nat]
    /\ leasedAt \in [Call -> Nat]

(***************************************************************************)
(* net.ts:17-24: a quick succession of calls never returns a duplicate     *)
(* port - not even calls that were probing at the same time, or that asked *)
(* again after the node of the first one came and went.                    *)
(***************************************************************************)
DistinctLeases ==
    \A c, d \in Given :
        c # d /\ port[c] = port[d] =>
            \/ leasedAt[d] > leasedAt[c] + Timeout
            \/ leasedAt[c] > leasedAt[d] + Timeout

\* A probe and the spawn that follows fit in a lease.
InTime == ProbeTime + BindDelay <= Timeout

(***************************************************************************)
(* No node finds its port taken by another node of the network, as long as *)
(* probing a port and bringing up its node take less than a lease.  (The   *)
(* code does not enforce that: a lease is for ten minutes, and downloading *)
(* a snapshot or spawning a large network may take longer.)                *)
(***************************************************************************)
NoClash == InTime => \A c \in Call : pc[c] # "clash"

(***************************************************************************)
(* A call returns a port or throws: it does not retry for ever, even when  *)
(* the operating system keeps offering ports that are leased.              *)
(***************************************************************************)
CallSettles ==
    \A c \in Call : pc[c] = "asking" ~> pc[c] \in {"rejected"} \/ c \in Given
=============================================================================
