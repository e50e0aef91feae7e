----------------------------- MODULE NodeQueries -----------------------------
(***************************************************************************)
(* The queries that tests make of one node (networkNode.ts): getMetric(),  *)
(* getCalcMetric(), getHistogramSamplesInBuckets() and countPatternLines(),*)
(* each a loop of fetches racing a timer.  The tests come one after the    *)
(* other, but the loop that lost its race goes on below the tests that     *)
(* follow, and getMetric() shares cachedMetrics with them.                 *)
(***************************************************************************)
EXTENDS Integers, Sequences

CONSTANTS
    Metric,      \* what the node reports; the logs of a count are one
    Reports,     \* what it may report at a time: a value for each metric
    NumCalls,    \* how many calls the tests make of the node
    Query,       \* what they are: records of kind, reads, op, target
    MaxHistory,  \* bound of the model: how often the values change
    Undefined, NaN, NoCache

Kinds == {"metric", "fresh", "calc", "histogram", "count"}
Ops == {"equal", "notEqual", "isAbove", "isAtLeast", "isBelow", "isAtMost"}

ASSUME NodeQueriesAssumption ==
    /\ Reports \subseteq [Metric -> Int]
    /\ Undefined \notin Int /\ NaN \notin Int /\ NoCache \notin Int
    /\ MaxHistory \in Nat \ {0}
    /\ NumCalls \in Nat
    /\ Query \subseteq [kind : Kinds, reads : SUBSET Metric, op : Ops, target : Int]
    /\ \A q \in Query :
         IF q.kind = "calc"
         THEN \E a, b \in Metric : a # b /\ q.reads = {a, b}
         ELSE \E a \in Metric : q.reads = {a}

VARIABLES
    call,     \* the calls, in the order of the tests
    history,  \* what the node has reported; the last one is what it reports now
    cache,    \* cachedMetrics: which report it is, 0 if the fetch failed
    stage,    \* where the loop of each call is
    request,  \* the fetches of each call, one for each metric it reads:
    snap,     \* which report they were answered with
    value,    \* the variable value of each call
    timer,    \* its setTimeout()
    answer,   \* what it has returned, and by what: its loop, its catch or its timer
    since     \* history: the report when the call began

callVars == <<stage, request, snap, value, timer, answer, since>>
vars == <<call, history, cache, callVars>>

Calls == 1..NumCalls
NoAnswer == [given |-> FALSE, v |-> Undefined, by |-> "none"]
Answer(v, by) == [given |-> TRUE, v |-> v, by |-> by]

\* getMetric() uses what is cached, except for the start time of the process.
UsesCache(i) == call[i].kind = "metric"
FillsCache(i) == call[i].kind \in {"metric", "fresh", "calc"}

\* The timer runs from the first fetch on, or only after it.
RacesAtOnce(i) == call[i].kind \in {"calc", "count"}

\* The timer sets a flag that ends the loop.
HasFlag(i) == call[i].kind \in {"metric", "fresh", "calc"}

Init ==
    /\ call \in [Calls -> Query]
    /\ history \in {<<l>> : l \in Reports}
    /\ cache = NoCache
    /\ stage = [i \in Calls |-> "idle"]
    /\ request = [i \in Calls |-> [m \in Metric |-> "none"]]
    /\ snap = [i \in Calls |-> [m \in Metric |-> 0]]
    /\ value = [i \in Calls |-> IF call[i].kind = "count" THEN 0 ELSE Undefined]
    /\ timer = [i \in Calls |-> "off"]
    /\ answer = [i \in Calls |-> NoAnswer]
    /\ since = [i \in Calls |-> 1]

-----------------------------------------------------------------------------
\* Mutant of Compare: isAbove is isAtLeast.
CompareLoose(op, a, b) ==
    /\ a \in Int
    /\ CASE op = "isAbove"   -> a >= b
         [] op = "isAtLeast" -> a >= b
         [] op = "isBelow"   -> a < b
         [] OTHER            -> a = b

\* compare(); it does not know notEqual and isAtMost.
Compare(op, a, b) ==
    /\ a \in Int
    /\ CASE op = "isAbove"   -> a > b
         [] op = "isAtLeast" -> a >= b
         [] op = "isBelow"   -> a < b
         [] OTHER            -> a = b

\* The assertion of the test on what the call returns.
Holds(op, a, b) ==
    IF op = "notEqual" THEN a # b
    ELSE /\ a \in Int
         /\ CASE op = "equal"     -> a = b
              [] op = "isAbove"   -> a > b
              [] op = "isAtLeast" -> a >= b
              [] op = "isBelow"   -> a < b
              [] op = "isAtMost"  -> a <= b

\* getHistogramSamplesInBuckets() always waits for at least the target.
Satisfied(i, v) ==
    IF call[i].kind = "histogram" THEN Compare("isAtLeast", v, call[i].target)
    ELSE Compare(call[i].op, v, call[i].target)

Reported(r, m) == IF r = 0 THEN Undefined ELSE history[r][m]

First(i) == CHOOSE m \in call[i].reads : TRUE
Second(i) == CHOOSE m \in call[i].reads : m # First(i)

\* The value of call i with the reports s; mathFn() of a metric that is missing
\* is not a number.
Value(i, s) ==
    LET v == Reported(s[First(i)], First(i)) IN
    IF call[i].kind # "calc" THEN v
    ELSE LET w == Reported(s[Second(i)], Second(i)) IN
         IF Undefined \in {v, w} THEN NaN ELSE v - w

-----------------------------------------------------------------------------
(* The calls.                                                              *)

Ask(i) ==
    /\ stage' = [stage EXCEPT ![i] = "fetch"]
    /\ request' = [request EXCEPT ![i] =
                     [m \in Metric |-> IF m \in call[i].reads THEN "asked" ELSE "none"]]

\* The loop goes on, in a race with the timer.
GoOn(i) ==
    /\ stage' = [stage EXCEPT ![i] = "sleep"]
    /\ timer' = [timer EXCEPT ![i] = IF @ = "off" THEN "on" ELSE @]
    /\ UNCHANGED answer

\* The loop ends; its value is the answer, if it has won the race.
Finish(i, v) ==
    /\ stage' = [stage EXCEPT ![i] = "over"]
    /\ answer' = [answer EXCEPT ![i] = IF @.given THEN @ ELSE Answer(v, "loop")]
    /\ UNCHANGED timer

\* The cached value is looked at first.
BeginCached(i) ==
    /\ UsesCache(i) /\ cache # NoCache
    /\ LET v == Value(i, [m \in Metric |-> cache]) IN
       /\ value' = [value EXCEPT ![i] = v]
       /\ IF Satisfied(i, v) THEN Finish(i, v) ELSE GoOn(i)
    /\ UNCHANGED request

BeginFetch(i) ==
    /\ ~(UsesCache(i) /\ cache # NoCache)
    /\ Ask(i)
    /\ timer' = [timer EXCEPT ![i] = IF RacesAtOnce(i) THEN "on" ELSE "off"]
    /\ UNCHANGED <<value, answer>>

\* The next test begins when the one before has its answer.
Begin(i) ==
    /\ stage[i] = "idle"
    /\ \A j \in 1..(i - 1) : answer[j].given
    /\ since' = [since EXCEPT ![i] = Len(history)]
    /\ BeginCached(i) \/ BeginFetch(i)
    /\ UNCHANGED <<call, history, cache, snap>>

\* The node answers with what it reports now, or fetchMetrics() fails within two
\* seconds and returns no metrics.
Serve(i, m) ==
    /\ request[i][m] = "asked"
    /\ request' = [request EXCEPT ![i][m] = "served"]
    /\ \E r \in {0, Len(history)} : snap' = [snap EXCEPT ![i][m] = r]
    /\ UNCHANGED <<call, history, cache, stage, value, timer, answer, since>>

\* Mutant of Read: the metric is read from the cache before that is reloaded.
ReadOld(i, s) == Value(i, [m \in Metric |-> IF cache = NoCache THEN 0 ELSE cache])

\* A call reads what it has fetched itself, in the step that stores it.
Read(i, s) == Value(i, s)

\* Nothing was fetched, or the bucket is not there: getHistogramBuckets() and
\* getNodeLogs() throw, which ends the loop and the race.
Rejects(i, v) == call[i].kind \in {"histogram", "count"} /\ v = Undefined

\* The catch block returns at once, however much of the timeout is left, and
\* returns value: total_count, or for a histogram the outer one of two variables,
\* which is never set.
Rejected(i) == IF call[i].kind = "histogram" THEN 0 ELSE value[i]

\* All fetches of a turn have arrived.
Evaluate(i) ==
    LET v == Read(i, snap[i]) IN
    IF Rejects(i, v)
    THEN /\ stage' = [stage EXCEPT ![i] = "over"]
         /\ answer' = [answer EXCEPT ![i] =
                         IF @.given THEN @ ELSE Answer(Rejected(i), "error")]
         /\ UNCHANGED <<value, timer>>
    ELSE /\ value' = [value EXCEPT ![i] = v]
         /\ IF Satisfied(i, v) THEN Finish(i, v)
            ELSE IF timer[i] = "fired" /\ HasFlag(i) /\ call[i].kind # "calc"
            THEN Finish(i, v)
            ELSE GoOn(i)

Arrive(i, m) ==
    /\ request[i][m] = "served"
    /\ request' = [request EXCEPT ![i][m] = "none"]
    /\ cache' = IF FillsCache(i) THEN snap[i][m] ELSE cache
    /\ IF \A n \in Metric \ {m} : request[i][n] = "none"
       THEN /\ Evaluate(i)
            /\ snap' = [snap EXCEPT ![i] = [n \in Metric |-> 0]]
       ELSE UNCHANGED <<stage, value, timer, answer, snap>>
    /\ UNCHANGED <<call, history, since>>

\* After a second the next turn; getCalcMetric() looks at its flag first, the
\* loop of getMetric() has looked before it slept.
Wake(i) ==
    /\ stage[i] = "sleep"
    /\ IF call[i].kind = "calc" /\ timer[i] = "fired"
       THEN stage' = [stage EXCEPT ![i] = "over"] /\ UNCHANGED request
       ELSE Ask(i)
    /\ UNCHANGED <<call, history, cache, snap, value, timer, answer, since>>

\* What a call returns when the timer wins.
TimeoutAnswer(i) ==
    CASE call[i].kind = "histogram" -> 0
      [] call[i].kind = "count" -> value[i]
      [] call[i].kind = "calc" ->
           IF call[i].op = "equal" /\ call[i].target = 0 THEN 0 ELSE value[i]
      [] OTHER ->
           IF call[i].op = "equal" /\ call[i].target = 0 /\ value[i] = Undefined
           THEN 0 ELSE value[i]

\* Mutant of TimerFires: the flag is not set.
TimerUnflagged(i) ==
    /\ timer[i] = "on"
    /\ ~answer[i].given
    /\ answer' = [answer EXCEPT ![i] = Answer(TimeoutAnswer(i), "timer")]
    /\ UNCHANGED <<call, history, cache, stage, request, snap, value, timer, since>>

TimerFires(i) ==
    /\ timer[i] = "on"
    /\ ~answer[i].given
    /\ timer' = [timer EXCEPT ![i] = "fired"]
    /\ answer' = [answer EXCEPT ![i] = Answer(TimeoutAnswer(i), "timer")]
    /\ UNCHANGED <<call, history, cache, stage, request, snap, value, since>>

-----------------------------------------------------------------------------
\* The node: time goes by.
Report ==
    /\ Len(history) < MaxHistory
    /\ \E l \in Reports : history' = Append(history, l)
    /\ UNCHANGED <<call, cache, callVars>>

\* A step of the loop of call i.
LoopStep(i) == Wake(i) \/ \E m \in Metric : Serve(i, m) \/ Arrive(i, m)

CallStep(i) == TimerFires(i) \/ LoopStep(i)

Next ==
    \/ \E i \in Calls : Begin(i) \/ CallStep(i)
    \/ Report

\* A fetch is aborted after two seconds, sleeps and timers end: no loop stands
\* still before it is over.
Fairness ==
    \A i \in Calls : WF_vars(TimerFires(i)) /\ WF_vars(LoopStep(i))

Spec == Init /\ [][Next]_vars

FairSpec == Spec /\ Fairness

-----------------------------------------------------------------------------
Values == Int \cup {Undefined, NaN}
Answers == [given : BOOLEAN, v : Values, by : {"none", "loop", "error", "timer"}]

\* Tests are in order; a loop that sleeps has its timer running or behind it; a
\* call without an answer is still on its way.
TypeOK ==
    /\ call \in [Calls -> Query]
    /\ history \in Seq(Reports) /\ history # <<>>
    /\ cache \in 0..Len(history) \cup {NoCache}
    /\ stage \in [Calls -> {"idle", "fetch", "sleep", "over"}]
    /\ \A i \in Calls : stage[i] # "idle" => \A j \in 1..(i - 1) : answer[j].given
    /\ request \in [Calls -> [Metric -> {"none", "asked", "served"}]]
    /\ snap \in [Calls -> [Metric -> 0..Len(history)]]
    /\ value \in [Calls -> Values]
    /\ timer \in [Calls -> {"off", "on", "fired"}]
    /\ \A i \in Calls : stage[i] = "sleep" => timer[i] # "off"
    /\ answer \in [Calls -> Answers]
    /\ \A i \in Calls : stage[i] = "over" => answer[i].given
    /\ since \in [Calls -> 1..Len(history)]

\* Reports of a call's own time; of one that uses the cache, any report.
Window(i) == IF UsesCache(i) THEN 1..Len(history) ELSE since[i]..Len(history)

\* v has been reported in call i's own time.
Sourced(i, v) == \E s \in [call[i].reads -> Window(i)] : v = Value(i, s)

\* What stands for a value that was never reported: the missing one, and the 0
\* of a count or a histogram, or of a call that waits for 0.
Blank(i) ==
    IF \/ call[i].kind \in {"histogram", "count"}
       \/ call[i].op = "equal" /\ call[i].target = 0
    THEN {0, Undefined, NaN} ELSE {Undefined, NaN}

(***************************************************************************)
(* What a call returns is what the node has reported since the call began: *)
(* no loop left over from an earlier call, and no fetch that was overtaken, *)
(* gets into it, not even when the timer or an error makes it answer with  *)
(* what it has.  Only such an answer may be a blank, one that the node has *)
(* never reported.  A getMetric() may answer from the cache, with a value  *)
(* older than the call.  The two metrics of getCalcMetric() come from two  *)
(* reports.                                                                *)
(***************************************************************************)
AnswerWasReported ==
    \A i \in Calls : answer[i].given =>
      \/ Sourced(i, answer[i].v)
      \/ answer[i].by # "loop" /\ answer[i].v \in Blank(i)

\* The query waits for what the assertion then asks.
SameComparison(i) ==
    IF call[i].kind = "histogram" THEN call[i].op = "isAtLeast"
    ELSE call[i].op # "notEqual"

(***************************************************************************)
(* A call that returns before its timeout passes its assertion.  Two       *)
(* exceptions: a histogram and a count also return early, with whatever    *)
(* they have, when a fetch fails, and their test then fails early; and the *)
(* query and the assertion disagree where compare() takes notEqual for     *)
(* equal, and where a histogram is waited for as if the comparison were    *)
(* isAtLeast.                                                              *)
(***************************************************************************)
EarlyAnswerPasses ==
    \A i \in Calls :
      answer[i].given /\ answer[i].by # "timer" /\ SameComparison(i) =>
        \/ Holds(call[i].op, answer[i].v, call[i].target)
        \/ answer[i].by = "error" /\ call[i].kind \in {"histogram", "count"}

(***************************************************************************)
(* Every call returns, whatever the node does, and the loops with a flag   *)
(* stop after it.  Those of histograms and logs go on.                     *)
(***************************************************************************)
CallsEnd ==
    \A i \in Calls :
      stage[i] # "idle" ~> answer[i].given /\ (HasFlag(i) => stage[i] = "over")
=============================================================================
