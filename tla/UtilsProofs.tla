----------------------------- MODULE UtilsProofs -----------------------------
(***************************************************************************)
(* Proofs about the package utils.  Series: for every number of functions  *)
(* and every concurrency its type invariant and two safety invariants      *)
(* follow from the inductive invariant IInv, and the specification         *)
(* implements OrderedRun.  Ports: for every number of calls and ports and  *)
(* every length of a lease its invariants follow from PortsIInv.           *)
(***************************************************************************)
EXTENDS Series, Ports, TLAPS

-----------------------------------------------------------------------------
(* promiseSeries.ts                                                        *)

\* Every function of an earlier batch is fulfilled and its value collected in
\* place; beyond the batch nothing has begun; the batch of a run that has not
\* failed holds no failure.
Collected ==
    /\ \A i \in 1..base : status[i] = "resolved"
    /\ results = [i \in 1..base |-> i]

Untouched == \A i \in 1..N : i > shifted => status[i] = "idle"

BatchSound ==
    promise # "rejected" => \A i \in Batch : status[i] \in {"running", "resolved"}

\* The rejection of a function has reached the returned promise.
Heard == \A i \in 1..N : status[i] = "rejected" => promise = "rejected"

IInv ==
    /\ TypeOK
    /\ Collected
    /\ Untouched
    /\ BatchSound
    /\ promise = "resolved" => base = N
    /\ shifted - base <= Concurrency
    /\ Heard

\* The loop of next() takes at least nothing and at most what is left, and no
\* more than Concurrency functions.
LEMMA BatchEndBounds ==
    ASSUME TypeOK
    PROVE  /\ BatchEnd \in 0..N
           /\ shifted <= BatchEnd
           /\ BatchEnd - shifted <= Concurrency
  BY SeriesAssumption DEF TypeOK, BatchEnd, LowerOf

LEMMA InitIInv == Init => IInv
  BY SeriesAssumption DEF Init, IInv, TypeOK, Collected, Untouched, BatchSound,
     Batch, Status, Heard

\* Collecting a resolved batch extends the collected prefix over it.
LEMMA CollectedExtends ==
    ASSUME IInv, BatchResolved, CollectResults, base' = shifted,
           \A i \in 1..shifted : status'[i] = status[i]
    PROVE  Collected' /\ DOMAIN results' = 1..base'
<1>1. \A i \in 1..shifted : status[i] = "resolved"
  BY SeriesAssumption DEF IInv, TypeOK, Collected, BatchResolved, Batch
<1>2. results' = [i \in 1..shifted |-> i]
  BY DEF IInv, TypeOK, Collected, CollectResults
<1>3. QED
  BY <1>1, <1>2 DEF Collected

LEMMA NextIInv == IInv /\ [Next]_vars => IInv'
<1> SUFFICES ASSUME IInv, [Next]_vars PROVE IInv'
  OBVIOUS
<1> USE SeriesAssumption
<1>1. CASE NextBatch
  <2>1. /\ BatchEnd \in 0..N
        /\ shifted <= BatchEnd
        /\ BatchEnd - shifted <= Concurrency
    BY BatchEndBounds DEF IInv
  <2>2. /\ base' = shifted /\ shifted' = BatchEnd
        /\ status' = [i \in 1..N |->
             IF shifted < i /\ i <= BatchEnd THEN "running" ELSE status[i]]
        /\ promise' = promise /\ promise = "pending" /\ callable' = callable
    BY <1>1 DEF NextBatch, BatchResolved, Launch
  <2>3. \A i \in 1..shifted : status'[i] = status[i]
    BY <2>2 DEF IInv, TypeOK
  <2>4. Collected' /\ DOMAIN results' = 1..base'
    BY <1>1, <2>2, <2>3, CollectedExtends DEF NextBatch
  <2>5. TypeOK'
    BY <2>1, <2>2, <2>4 DEF IInv, TypeOK, Status
  <2>6. Untouched'
    BY <2>1, <2>2 DEF IInv, TypeOK, Untouched
  <2>7. BatchSound'
    BY <2>1, <2>2 DEF IInv, TypeOK, BatchSound, Batch
  <2>8. Heard'
    BY <2>2 DEF IInv, TypeOK, Heard
  <2>9. QED
    BY <2>1, <2>2, <2>4, <2>5, <2>6, <2>7, <2>8 DEF IInv
<1>2. CASE RejectInvalid
  <2>1. PICK bad \in Invalid :
          /\ status' = [i \in 1..N |->
               IF shifted < i /\ i <= bad - 1 THEN "running" ELSE status[i]]
          /\ shifted' = bad
    BY <1>2 DEF RejectInvalid, Launch
  <2>2. /\ BatchEnd \in 0..N
        /\ shifted <= BatchEnd
        /\ BatchEnd - shifted <= Concurrency
    BY BatchEndBounds DEF IInv
  <2>3. bad \in 1..N /\ shifted < bad /\ bad <= BatchEnd
    BY <2>1, <2>2 DEF Invalid, IInv, TypeOK
  <2>4. base' = shifted /\ promise' = "rejected" /\ callable' = callable
    BY <1>2 DEF RejectInvalid
  <2>5. \A i \in 1..shifted : status'[i] = status[i]
    BY <2>1 DEF IInv, TypeOK
  <2>6. Collected' /\ DOMAIN results' = 1..base'
    BY <1>2, <2>4, <2>5, CollectedExtends DEF RejectInvalid
  <2>7. TypeOK'
    BY <2>1, <2>3, <2>4, <2>6 DEF IInv, TypeOK, Status
  <2>8. Untouched'
    BY <2>1, <2>3 DEF IInv, TypeOK, Untouched
  <2>9. shifted' - base' <= Concurrency
    BY <2>1, <2>2, <2>3, <2>4 DEF IInv, TypeOK
  <2>10. QED
    BY <2>4, <2>6, <2>7, <2>8, <2>9 DEF IInv, BatchSound, Heard
<1>3. CASE ResolveAll
  <2>1. /\ base' = shifted /\ shifted' = shifted /\ status' = status
        /\ promise' = "resolved" /\ callable' = callable /\ shifted = N
        /\ promise = "pending"
    BY <1>3 DEF ResolveAll, BatchResolved
  <2>2. Collected' /\ DOMAIN results' = 1..base'
    BY <1>3, <2>1, CollectedExtends DEF ResolveAll
  <2>3. TypeOK'
    BY <2>1, <2>2 DEF IInv, TypeOK
  <2>4. Untouched' /\ BatchSound' /\ shifted' - base' <= Concurrency
    BY <2>1 DEF IInv, TypeOK, Untouched, BatchSound, Batch
  <2>5. Heard'
    BY <2>1 DEF IInv, Heard
  <2>6. QED
    BY <2>1, <2>2, <2>3, <2>4, <2>5 DEF IInv
<1>4. ASSUME NEW i \in 1..N, FunctionResolves(i) PROVE IInv'
  <2>1. /\ base' = base /\ shifted' = shifted /\ results' = results
        /\ promise' = promise /\ callable' = callable
        /\ status[i] = "running" /\ status' = [status EXCEPT ![i] = "resolved"]
    BY <1>4 DEF FunctionResolves
  <2>2. TypeOK' /\ Untouched' /\ BatchSound' /\ Heard'
    BY <2>1 DEF IInv, TypeOK, Status, Untouched, BatchSound, Batch, Heard
  <2>3. Collected'
    BY <2>1 DEF IInv, TypeOK, Collected
  <2>4. QED
    BY <2>1, <2>2, <2>3 DEF IInv
<1>5. ASSUME NEW i \in 1..N, FunctionRejects(i) PROVE IInv'
  <2>1. /\ base' = base /\ shifted' = shifted /\ results' = results
        /\ promise' = "rejected" /\ callable' = callable
        /\ status[i] = "running" /\ status' = [status EXCEPT ![i] = "rejected"]
    BY <1>5 DEF FunctionRejects
  <2>2. TypeOK' /\ Untouched' /\ BatchSound' /\ Heard'
    BY <2>1 DEF IInv, TypeOK, Status, Untouched, BatchSound, Heard
  <2>3. Collected'
    BY <2>1 DEF IInv, TypeOK, Collected
  <2>4. QED
    BY <2>1, <2>2, <2>3 DEF IInv
<1>6. CASE UNCHANGED vars
  BY <1>6 DEF vars, IInv, TypeOK, Collected, Untouched, BatchSound, Batch,
     Heard
<1>7. QED
  BY <1>1, <1>2, <1>3, <1>4, <1>5, <1>6 DEF Next

LEMMA Invariance == Spec => []IInv
<1>1. QED
  BY InitIInv, NextIInv, PTL DEF Spec

\* Type correctness of series(), for every array length and concurrency.
THEOREM TypeCorrect == Spec => []TypeOK
<1>1. IInv => TypeOK
  BY DEF IInv
<1>2. QED
  BY <1>1, Invariance, PTL

\* A fulfilled series() has fulfilled every function and returns their values in
\* the order of the functions.
THEOREM ResultsComplete == Spec => []ResolvedMeansAll
<1>1. IInv => ResolvedMeansAll
  BY DEF IInv, Collected, ResolvedMeansAll
<1>2. QED
  BY <1>1, Invariance, PTL

\* At most `concurrency` functions are unsettled while series() is pending.
THEOREM WindowBounded == Spec => []BoundedWindow
<1>1. IInv => BoundedWindow
  <2> SUFFICES ASSUME IInv, NEW i \in 1..N, status[i] = "running"
               PROVE  i \in Batch
    BY DEF BoundedWindow, IInv
  <2>1. ~(i \in 1..base)
    BY DEF IInv, Collected
  <2>2. i <= shifted
    BY SeriesAssumption DEF IInv, TypeOK, Untouched
  <2>3. QED
    BY <2>1, <2>2, SeriesAssumption DEF Batch, IInv, TypeOK
<1>2. QED
  BY <1>1, Invariance, PTL

-----------------------------------------------------------------------------
\* The promises running after a batch is launched are those of the batch.
LEMMA LaunchFits ==
    ASSUME IInv, BatchResolved, NEW last \in 0..N,
           last - shifted <= Concurrency, Launch(last)
    PROVE  {i \in 1..N : status'[i] = "running"}
             \subseteq (shifted + 1)..(shifted + 1 + Concurrency - 1)
<1>1. \A i \in 1..N : status[i] # "running"
  BY SeriesAssumption
     DEF IInv, TypeOK, Collected, Untouched, BatchResolved, Batch
<1>2. QED
  BY <1>1, SeriesAssumption DEF Launch, IInv, TypeOK

LEMMA InitRefines == Init => Abstract!Init
  BY DEF Init, Abstract!Init

LEMMA StepRefines == IInv /\ [Next]_vars => [Abstract!Next]_(Abstract!vars)
<1> SUFFICES ASSUME IInv, [Next]_vars PROVE [Abstract!Next]_(Abstract!vars)
  OBVIOUS
<1> USE SeriesAssumption
<1>1. ASSUME BatchResolved, shifted < N
      PROVE  \A i \in 1..N : IF i < shifted + 1
                               THEN status[i] \in {"running", "resolved"}
                               ELSE status[i] = "idle"
  BY <1>1 DEF IInv, TypeOK, Collected, Untouched, BatchResolved, Batch
<1>2. CASE NextBatch
  <2>1. /\ BatchEnd \in 0..N
        /\ BatchEnd - shifted <= Concurrency
    BY BatchEndBounds DEF IInv
  <2>2. shifted + 1 \in 1..N
    BY <1>2 DEF NextBatch, IInv, TypeOK
  <2>3. /\ BatchResolved /\ shifted < N /\ Launch(BatchEnd)
        /\ promise' = promise /\ callable' = callable /\ promise = "pending"
    BY <1>2 DEF NextBatch, BatchResolved
  <2>4. {i \in 1..N : status'[i] = "running"}
           \subseteq (shifted + 1)..(shifted + 1 + Concurrency - 1)
    BY <2>1, <2>3, LaunchFits
  <2>5. status' = [i \in 1..N |->
           IF shifted + 1 <= i /\ i <= BatchEnd THEN "running" ELSE status[i]]
    BY <2>3 DEF Launch, IInv, TypeOK
  <2>6. Abstract!Begin(shifted + 1, BatchEnd)
    BY <1>1, <2>2, <2>3, <2>4, <2>5
       DEF Abstract!Begin, Abstract!MayBegin, Abstract!InFlight
  <2>7. QED
    BY <2>1, <2>2, <2>6 DEF Abstract!Next
<1>3. CASE RejectInvalid
  <2>1. PICK bad \in Invalid : Launch(bad - 1)
    BY <1>3 DEF RejectInvalid
  <2>2. /\ BatchEnd \in 0..N
        /\ BatchEnd - shifted <= Concurrency
    BY BatchEndBounds DEF IInv
  <2>3. /\ bad \in 1..N /\ bad \notin callable
        /\ shifted < bad /\ bad <= BatchEnd
    BY <2>2 DEF Invalid, IInv, TypeOK
  <2>4. /\ bad - 1 \in 0..N
        /\ (bad - 1) + 1 = bad
        /\ (bad - 1) - shifted <= Concurrency
        /\ shifted + 1 \in 1..N
    BY <2>2, <2>3 DEF IInv, TypeOK
  <2>5. /\ BatchResolved /\ shifted < N
        /\ promise' = "rejected" /\ callable' = callable /\ promise = "pending"
    BY <1>3 DEF RejectInvalid, BatchResolved
  <2>6. {i \in 1..N : status'[i] = "running"}
           \subseteq (shifted + 1)..(shifted + 1 + Concurrency - 1)
    BY <2>1, <2>4, <2>5, LaunchFits
  <2>7. status' = [i \in 1..N |->
           IF shifted + 1 <= i /\ i <= bad - 1 THEN "running" ELSE status[i]]
    BY <2>1 DEF Launch, IInv, TypeOK
  <2>8. Abstract!BeginInvalid(shifted + 1, bad - 1)
    BY <1>1, <2>3, <2>4, <2>5, <2>6, <2>7
       DEF Abstract!BeginInvalid, Abstract!MayBegin, Abstract!InFlight
  <2>9. QED
    BY <2>4, <2>8 DEF Abstract!Next
<1>4. CASE ResolveAll
  <2>1. /\ promise = "pending" /\ promise' = "resolved" /\ status' = status
        /\ callable' = callable /\ shifted = N /\ base' = shifted
    BY <1>4 DEF ResolveAll, BatchResolved
  <2>2. \A i \in 1..N : status[i] = "resolved"
    BY <1>4, <2>1 DEF ResolveAll, BatchResolved, Batch, IInv, TypeOK, Collected
  <2>3. results' = [i \in 1..N |-> i]
    BY <1>4, <2>1, NextIInv DEF IInv, Collected
  <2>4. Abstract!Fulfil
    BY <2>1, <2>2, <2>3 DEF Abstract!Fulfil
  <2>5. QED
    BY <2>4 DEF Abstract!Next
<1>5. ASSUME NEW i \in 1..N, FunctionResolves(i)
      PROVE  Abstract!Next
  <2>1. Abstract!Resolve(i)
    BY <1>5 DEF FunctionResolves, Abstract!Resolve
  <2>2. QED
    BY <2>1 DEF Abstract!Next
<1>6. ASSUME NEW i \in 1..N, FunctionRejects(i)
      PROVE  Abstract!Next
  <2>1. promise # "resolved"
    BY <1>6 DEF FunctionRejects, IInv, Collected
  <2>2. Abstract!Reject(i)
    BY <1>6, <2>1 DEF FunctionRejects, Abstract!Reject
  <2>3. QED
    BY <2>2 DEF Abstract!Next
<1>7. CASE UNCHANGED vars
  BY <1>7 DEF vars, Abstract!vars
<1>8. QED
  BY <1>2, <1>3, <1>4, <1>5, <1>6, <1>7 DEF Next

\* series() implements the ordered, bounded, fail-fast run its callers rely on.
THEOREM Refinement == Spec => ImplementsOrderedRun
<1>1. QED
  BY InitRefines, StepRefines, Invariance, PTL
     DEF Spec, ImplementsOrderedRun, Abstract!Spec

-----------------------------------------------------------------------------
(* net.ts                                                                  *)

\* The map knows of every lease: its entry for the port of a call never ends
\* before that call's lease does.
LeaseRecorded ==
    \A c \in Given :
        /\ port[c] \in DOMAIN usedPorts
        /\ leasedAt[c] + Timeout <= usedPorts[port[c]]
        /\ leasedAt[c] <= now

\* No probe and no spawn is overdue.
OnTime ==
    \A c \in Call :
        /\ pc[c] = "probed" => probedAt[c] <= now /\ now <= probedAt[c] + ProbeTime
        /\ pc[c] = "leased" => now <= leasedAt[c] + BindDelay

\* A probe that offers the port of another node was made before that node
\* listened, so within BindDelay of its lease.
ProbedBefore ==
    \A c, d \in Call :
        /\ pc[c] \in {"leased", "listening"}
        /\ pc[d] = "probed"
        /\ port[c] = port[d]
        => probedAt[d] <= leasedAt[c] + BindDelay

\* No two nodes that use, or will use, a port have the same one.
Exclusive ==
    \A c, d \in Call :
        /\ c # d
        /\ pc[c] \in {"leased", "listening"}
        /\ pc[d] \in {"leased", "listening"}
        => port[c] # port[d]

PortsIInv ==
    /\ PortsTypeOK
    /\ LeaseRecorded
    /\ DistinctLeases
    /\ OnTime
    /\ ProbedBefore
    /\ InTime => Exclusive
    /\ NoClash

-----------------------------------------------------------------------------
LEMMA PortsInitIInv == PortsInit => PortsIInv
<1> SUFFICES ASSUME PortsInit PROVE PortsIInv
  OBVIOUS
<1>1. PortsTypeOK
  BY PortsAssumption DEF PortsInit, PortsTypeOK, Given
<1>2. LeaseRecorded /\ DistinctLeases
  BY DEF PortsInit, LeaseRecorded, DistinctLeases, Given
<1>3. OnTime /\ ProbedBefore /\ Exclusive /\ NoClash
  BY DEF PortsInit, OnTime, ProbedBefore, Exclusive, NoClash
<1> QED BY <1>1, <1>2, <1>3 DEF PortsIInv

LEMMA TypeStep ==
    ASSUME PortsTypeOK, [PortsNext]_portVars
    PROVE  PortsTypeOK'
<1> USE PortsAssumption DEF PortsTypeOK, Given, Goto
<1>1. ASSUME NEW c \in Call, Begin(c) \/ ProbeFails(c) \/ Retry(c) \/ Listen(c) \/ Stop(c)
      PROVE  PortsTypeOK'
  BY <1>1 DEF Begin, ProbeFails, Retry, Listen, Stop
<1>2. ASSUME NEW c \in Call, Probe(c)
      PROVE  PortsTypeOK'
  BY <1>2 DEF Probe
<1>3. ASSUME NEW c \in Call, Lease(c)
      PROVE  PortsTypeOK'
  BY <1>3 DEF Lease
<1>4. CASE Tick
  BY <1>4 DEF Tick
<1>5. CASE UNCHANGED portVars
  BY <1>5 DEF portVars
<1> QED BY <1>1, <1>2, <1>3, <1>4, <1>5 DEF PortsNext

\* A lease is only granted over one that has ended.
LEMMA GrantedLater ==
    ASSUME PortsTypeOK, LeaseRecorded, NEW c \in Call, Lease(c), NEW d \in Given,
           port[d] = port[c]
    PROVE  leasedAt[d] + Timeout < now
  BY PortsAssumption DEF PortsTypeOK, LeaseRecorded, Given, Lease, Available

LEMMA LeaseStep ==
    ASSUME PortsTypeOK, PortsTypeOK', LeaseRecorded, DistinctLeases, [PortsNext]_portVars
    PROVE  LeaseRecorded' /\ DistinctLeases'
<1> USE PortsAssumption DEF PortsTypeOK, LeaseRecorded, DistinctLeases, Given, Goto
<1>1. ASSUME NEW c \in Call, Begin(c) \/ ProbeFails(c) \/ Retry(c) \/ Listen(c) \/ Stop(c)
      PROVE  LeaseRecorded' /\ DistinctLeases'
  BY <1>1 DEF Begin, ProbeFails, Retry, Listen, Stop
<1>2. ASSUME NEW c \in Call, Probe(c)
      PROVE  LeaseRecorded' /\ DistinctLeases'
  BY <1>2 DEF Probe
<1>3. ASSUME NEW c \in Call, Lease(c)
      PROVE  LeaseRecorded' /\ DistinctLeases'
  <2>1. \A d \in Given : port[d] = port[c] => leasedAt[d] + Timeout < now
    BY <1>3, GrantedLater
  <2>2. Given' = Given \cup {c}
    BY <1>3 DEF Lease
  <2>3. LeaseRecorded'
    BY <1>3, <2>1, <2>2 DEF Lease
  <2>4. DistinctLeases'
    BY <1>3, <2>1, <2>2 DEF Lease
  <2> QED BY <2>3, <2>4
<1>4. CASE Tick
  BY <1>4 DEF Tick
<1>5. CASE UNCHANGED portVars
  BY <1>5 DEF portVars
<1> QED BY <1>1, <1>2, <1>3, <1>4, <1>5 DEF PortsNext

LEMMA TimeStep ==
    ASSUME PortsTypeOK, PortsTypeOK', OnTime, ProbedBefore, [PortsNext]_portVars
    PROVE  OnTime' /\ ProbedBefore'
<1> USE PortsAssumption DEF PortsTypeOK, OnTime, ProbedBefore, Goto
<1>1. ASSUME NEW c \in Call, Begin(c) \/ ProbeFails(c) \/ Retry(c) \/ Listen(c) \/ Stop(c)
      PROVE  OnTime' /\ ProbedBefore'
  BY <1>1 DEF Begin, ProbeFails, Retry, Listen, Stop
<1>2. ASSUME NEW c \in Call, Probe(c)
      PROVE  OnTime' /\ ProbedBefore'
  <2>1. PICK p \in Port \ Listening : port' = [port EXCEPT ![c] = p]
    BY <1>2 DEF Probe
  <2>2. \A d \in Call : pc[d] = "listening" => port[d] # p
    BY <2>1 DEF Listening
  <2>3. OnTime'
    BY <1>2 DEF Probe
  <2>4. ProbedBefore'
    BY <1>2, <2>1, <2>2 DEF Probe
  <2> QED BY <2>3, <2>4
<1>3. ASSUME NEW c \in Call, Lease(c)
      PROVE  OnTime' /\ ProbedBefore'
  BY <1>3 DEF Lease
<1>4. CASE Tick
  BY <1>4 DEF Tick
<1>5. CASE UNCHANGED portVars
  BY <1>5 DEF portVars
<1> QED BY <1>1, <1>2, <1>3, <1>4, <1>5 DEF PortsNext

LEMMA ExclusiveStep ==
    ASSUME PortsIInv, PortsTypeOK', InTime, [PortsNext]_portVars
    PROVE  Exclusive' /\ \A c \in Call : pc'[c] # "clash"
<1> USE PortsAssumption DEF PortsIInv, PortsTypeOK, Exclusive, NoClash, Goto
<1>1. ASSUME NEW c \in Call, Begin(c) \/ ProbeFails(c) \/ Retry(c) \/ Stop(c) \/ Probe(c)
      PROVE  Exclusive' /\ \A d \in Call : pc'[d] # "clash"
  BY <1>1 DEF Begin, ProbeFails, Retry, Stop, Probe
<1>2. ASSUME NEW c \in Call, Listen(c)
      PROVE  Exclusive' /\ \A d \in Call : pc'[d] # "clash"
  BY <1>2 DEF Listen, Listening
<1>3. ASSUME NEW c \in Call, Lease(c)
      PROVE  Exclusive' /\ \A d \in Call : pc'[d] # "clash"
  <2>1. ASSUME NEW d \in Call, d # c, pc[d] \in {"leased", "listening"}, port[d] = port[c]
        PROVE  FALSE
    <3>1. leasedAt[d] + Timeout < now
      BY <1>3, <2>1, GrantedLater DEF Given
    <3>2. probedAt[c] <= leasedAt[d] + BindDelay /\ now <= probedAt[c] + ProbeTime
      BY <1>3, <2>1 DEF Lease, ProbedBefore, OnTime
    <3> QED BY <3>1, <3>2 DEF InTime
  <2> QED BY <1>3, <2>1 DEF Lease
<1>4. CASE Tick
  BY <1>4 DEF Tick
<1>5. CASE UNCHANGED portVars
  BY <1>5 DEF portVars
<1> QED BY <1>1, <1>2, <1>3, <1>4, <1>5 DEF PortsNext

LEMMA PortsInvariance == PortsSpec => []PortsIInv
<1>1. PortsIInv /\ [PortsNext]_portVars => PortsIInv'
  <2> SUFFICES ASSUME PortsIInv, [PortsNext]_portVars PROVE PortsIInv'
    OBVIOUS
  <2>1. PortsTypeOK' /\ LeaseRecorded' /\ DistinctLeases' /\ OnTime' /\ ProbedBefore'
    BY TypeStep, LeaseStep, TimeStep DEF PortsIInv
  <2>2. (InTime => Exclusive)' /\ NoClash'
    BY <2>1, ExclusiveStep DEF InTime, NoClash
  <2> QED BY <2>1, <2>2 DEF PortsIInv
<1> QED BY PortsInitIInv, <1>1, PTL DEF PortsSpec

(***************************************************************************)
(* The map has an entry that is a time for every port given away.          *)
(***************************************************************************)
THEOREM PortsTypeCorrect == PortsSpec => []PortsTypeOK
  BY PortsInvariance, PTL DEF PortsIInv

(***************************************************************************)
(* getRandomPort() never gives a port to two callers within one lease,     *)
(* however its calls interleave (net.ts:17-24).                            *)
(***************************************************************************)
THEOREM NoDuplicates == PortsSpec => []DistinctLeases
  BY PortsInvariance, PTL DEF PortsIInv

(***************************************************************************)
(* When a probe and a spawn together are shorter than a lease, no node of  *)
(* the network takes the port of another.                                  *)
(***************************************************************************)
THEOREM NodesGetTheirPorts == PortsSpec => []NoClash
  BY PortsInvariance, PTL DEF PortsIInv
=============================================================================
