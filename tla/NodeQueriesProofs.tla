-------------------------- MODULE NodeQueriesProofs --------------------------
(* Theorems about NodeQueries, for any metrics, reports, calls and histories.  *)
EXTENDS NodeQueries, TLAPS

\* A timer that has fired has answered the call, only a loop that waits for its
\* fetches has any, and a call that has not begun has no timer and no answer.
LoopInv == \A i \in Calls :
             /\ timer[i] = "fired" => answer[i].given
             /\ \A m \in Metric : request[i][m] # "none" => stage[i] = "fetch"
             /\ stage[i] = "idle" => timer[i] = "off" /\ ~answer[i].given

\* A fetch was answered since its call began, or it failed.
SnapInv == \A i \in Calls, m \in Metric :
             /\ snap[i][m] = 0 \/ since[i] <= snap[i][m]
             /\ stage[i] = "idle" => snap[i][m] = 0

-----------------------------------------------------------------------------
(* Values.                                                                 *)

LEMMA ReadsOf ==
    ASSUME TypeOK, NEW i \in Calls
    PROVE  /\ call[i] \in [kind : Kinds, reads : SUBSET Metric, op : Ops, target : Int]
           /\ IF call[i].kind = "calc"
              THEN \E a, b \in Metric : a # b /\ call[i].reads = {a, b}
              ELSE \E a \in Metric : call[i].reads = {a}
BY NodeQueriesAssumption DEF TypeOK

LEMMA Choices ==
    ASSUME TypeOK, NEW i \in Calls
    PROVE  /\ call[i].reads \subseteq Metric
           /\ First(i) \in call[i].reads
           /\ call[i].kind = "calc" => Second(i) \in call[i].reads
           /\ call[i].reads = IF call[i].kind = "calc" THEN {First(i), Second(i)}
                              ELSE {First(i)}
<1>1. call[i].reads \subseteq Metric /\ \E m \in call[i].reads : TRUE
    BY ReadsOf
<1>2. First(i) \in call[i].reads
    BY <1>1 DEF First
<1>3. CASE call[i].kind = "calc"
    <2>1. PICK a, b \in Metric : a # b /\ call[i].reads = {a, b}
        BY <1>3, ReadsOf
    <2>2. \E m \in call[i].reads : m # First(i)
        BY <2>1
    <2>3. Second(i) \in call[i].reads /\ Second(i) # First(i)
        BY <2>2 DEF Second
    <2> QED BY <1>1, <1>2, <1>3, <2>1, <2>3
<1>4. CASE call[i].kind # "calc"
    BY <1>1, <1>2, <1>4, ReadsOf
<1> QED BY <1>3, <1>4

LEMMA ReportedType ==
    ASSUME TypeOK, NEW r \in 0..Len(history), NEW m \in Metric
    PROVE  /\ Reported(r, m) \in Values
           /\ Reported(r, m) = Undefined <=> r = 0
           /\ r # 0 => Reported(r, m) \in Int
BY NodeQueriesAssumption DEF TypeOK, Reported, Values

LEMMA ValueType ==
    ASSUME TypeOK, NEW i \in Calls, NEW s \in [Metric -> 0..Len(history)]
    PROVE  /\ Value(i, s) \in Values
           /\ Value(i, s) \in Int => \A m \in call[i].reads : s[m] # 0
<1> DEFINE v == Reported(s[First(i)], First(i))
           w == Reported(s[Second(i)], Second(i))
<1>1. /\ v \in Values
      /\ v = Undefined <=> s[First(i)] = 0
      /\ s[First(i)] # 0 => v \in Int
    <2>1. First(i) \in Metric /\ s[First(i)] \in 0..Len(history)
        BY Choices
    <2> QED BY <2>1, ReportedType
<1>2. CASE call[i].kind = "calc"
    <2>1. /\ w = Undefined <=> s[Second(i)] = 0
          /\ s[Second(i)] # 0 => w \in Int
        <3>1. Second(i) \in Metric /\ s[Second(i)] \in 0..Len(history)
            BY <1>2, Choices
        <3> QED BY <3>1, ReportedType
    <2>2. Value(i, s) = IF Undefined \in {v, w} THEN NaN ELSE v - w
        BY <1>2 DEF Value
    <2> HIDE DEF v, w
    <2>3. CASE s[First(i)] = 0 \/ s[Second(i)] = 0
        <3>1. Value(i, s) = NaN
            BY <1>1, <2>1, <2>2, <2>3
        <3> QED BY <3>1, NodeQueriesAssumption DEF Values
    <2>4. CASE s[First(i)] # 0 /\ s[Second(i)] # 0
        <3>1. v \in Int /\ w \in Int /\ Undefined \notin {v, w}
            BY <1>1, <2>1, <2>4
        <3>2. Value(i, s) \in Int
            BY <2>2, <3>1
        <3> QED BY <1>2, <2>4, <3>2, Choices DEF Values
    <2> QED BY <2>3, <2>4
<1>3. CASE call[i].kind # "calc"
    <2>1. Value(i, s) = v
        BY <1>3 DEF Value
    <2> HIDE DEF v
    <2>2. v \in Int => s[First(i)] # 0
        BY <1>1, NodeQueriesAssumption
    <2>3. call[i].reads = {First(i)}
        BY <1>3, Choices
    <2> QED BY <1>1, <2>1, <2>2, <2>3
<1> QED BY <1>2, <1>3

\* Only what is read matters.
LEMMA ValueRestricted ==
    ASSUME TypeOK, NEW i \in Calls, NEW s
    PROVE  Value(i, [m \in call[i].reads |-> s[m]]) = Value(i, s)
<1> DEFINE f == [m \in call[i].reads |-> s[m]]
<1>1. \A m \in call[i].reads : f[m] = s[m]
    OBVIOUS
<1> HIDE DEF f
<1>2. Value(i, f) = Value(i, s)
    BY <1>1, Choices DEF Value
<1> QED BY <1>2 DEF f

\* What is reported stays reported.
LEMMA ReportKeeps ==
    ASSUME TypeOK, NEW l \in Reports, history' = Append(history, l),
           NEW r \in 0..Len(history), NEW m
    PROVE  Reported(r, m)' = Reported(r, m)
BY DEF TypeOK, Reported

LEMMA ValueKeeps ==
    ASSUME TypeOK, NEW l \in Reports, history' = Append(history, l), call' = call,
           NEW i \in Calls, NEW s \in [call[i].reads -> 0..Len(history)]
    PROVE  Value(i, s)' = Value(i, s)
<1>1. First(i)' = First(i) /\ Second(i)' = Second(i)
    BY DEF First, Second
<1>2. \A m \in call[i].reads : Reported(s[m], m)' = Reported(s[m], m)
    BY ReportKeeps
<1> QED BY <1>1, <1>2, Choices DEF Value

-----------------------------------------------------------------------------
(* Types.                                                                  *)

Inv == TypeOK /\ LoopInv

LEMMA InvInit == Init => Inv
<1> SUFFICES ASSUME Init PROVE Inv
    OBVIOUS
<1>1. history \in Seq(Reports) /\ Len(history) = 1 /\ history # <<>>
    <2>1. PICK l \in Reports : history = <<l>>
        BY DEF Init
    <2> QED BY <2>1
<1>2. NoAnswer \in Answers
    BY DEF NoAnswer, Values, Answers
<1> QED BY <1>1, <1>2 DEF Init, Inv, TypeOK, LoopInv, Values, NoAnswer

\* What every step of a call leaves alone, and what it may do.
LEMMA InvStep ==
    ASSUME Inv, call' = call, history' = history,
           cache' \in 0..Len(history) \cup {NoCache},
           NEW i \in Calls,
           stage[i] = "idle" => \A j \in 1..(i - 1) : answer[j].given,
           NEW st \in {"fetch", "sleep", "over"}, stage' = [stage EXCEPT ![i] = st],
           NEW t \in {"off", "on", "fired"}, timer' = [timer EXCEPT ![i] = t],
           NEW a \in Answers,
           answer' = [answer EXCEPT ![i] = a],
           answer[i].given => a.given,
           st = "sleep" => t # "off",
           st = "over" => a.given,
           t = "fired" => a.given,
           value' \in [Calls -> Values],
           NEW r \in [Metric -> {"none", "asked", "served"}],
           request' = [request EXCEPT ![i] = r],
           \A m \in Metric : r[m] # "none" => st = "fetch",
           snap' \in [Calls -> [Metric -> 0..Len(history)]],
           since' \in [Calls -> 1..Len(history)]
    PROVE  Inv'
<1>1. \A j \in Calls : stage'[j] = IF j = i THEN st ELSE stage[j]
    BY DEF Inv, TypeOK
<1>2. \A j \in Calls : timer'[j] = IF j = i THEN t ELSE timer[j]
    BY DEF Inv, TypeOK
<1>3. \A j \in Calls : answer'[j] = IF j = i THEN a ELSE answer[j]
    BY DEF Inv, TypeOK
<1>9. \A j \in Calls : request'[j] = IF j = i THEN r ELSE request[j]
    BY DEF Inv, TypeOK
<1>4. \A j \in Calls : answer[j].given => answer'[j].given
    BY <1>3
<1>5. \A j \in Calls : 1..(j - 1) \subseteq Calls
    BY NodeQueriesAssumption DEF Calls
<1>6. \A j \in Calls : stage'[j] # "idle" => \A k \in 1..(j - 1) : answer'[k].given
    BY <1>1, <1>4, <1>5 DEF Inv, TypeOK
<1>7. /\ \A j \in Calls : stage'[j] = "sleep" => timer'[j] # "off"
      /\ \A j \in Calls : stage'[j] = "over" => answer'[j].given
      /\ \A j \in Calls : timer'[j] = "fired" => answer'[j].given
      /\ \A j \in Calls, m \in Metric : request'[j][m] # "none" => stage'[j] = "fetch"
      /\ \A j \in Calls : stage'[j] = "idle" => timer'[j] = "off" /\ ~answer'[j].given
    BY <1>1, <1>2, <1>3, <1>9 DEF Inv, TypeOK, LoopInv
<1>8. /\ stage' \in [Calls -> {"idle", "fetch", "sleep", "over"}]
      /\ timer' \in [Calls -> {"off", "on", "fired"}]
      /\ answer' \in [Calls -> Answers]
      /\ request' \in [Calls -> [Metric -> {"none", "asked", "served"}]]
    BY DEF Inv, TypeOK
<1> QED BY <1>6, <1>7, <1>8 DEF Inv, TypeOK, LoopInv

LEMMA AskType ==
    ASSUME Inv, NEW i \in Calls, Ask(i)
    PROVE  \E r \in [Metric -> {"none", "asked", "served"}] :
             request' = [request EXCEPT ![i] = r]
BY DEF Ask

\* Either way the loop goes on or ends, with timer and answer to match.
LEMMA Outcome ==
    ASSUME Inv, NEW i \in Calls, NEW v \in Values, Finish(i, v) \/ GoOn(i)
    PROVE  \E st \in {"sleep", "over"}, t \in {"off", "on", "fired"},
              a \in Answers :
             /\ stage' = [stage EXCEPT ![i] = st]
             /\ timer' = [timer EXCEPT ![i] = t]
             /\ answer' = [answer EXCEPT ![i] = a]
             /\ answer[i].given => a = answer[i]
             /\ st = "sleep" => t # "off" /\ a = answer[i]
             /\ st = "over" => a.given
             /\ t = "fired" => a.given
<1>1. /\ answer = [answer EXCEPT ![i] = answer[i]]
      /\ timer = [timer EXCEPT ![i] = timer[i]]
      /\ answer[i] \in Answers
      /\ timer[i] \in {"off", "on", "fired"}
      /\ timer[i] = "fired" => answer[i].given
    BY DEF Inv, TypeOK, LoopInv
<1>2. CASE GoOn(i)
    <2>1. /\ stage' = [stage EXCEPT ![i] = "sleep"]
          /\ timer' = [timer EXCEPT ![i] = IF timer[i] = "off" THEN "on" ELSE timer[i]]
          /\ answer' = [answer EXCEPT ![i] = answer[i]]
        BY <1>1, <1>2 DEF GoOn
    <2> QED BY <1>1, <2>1
<1>3. CASE Finish(i, v)
    <2> DEFINE a == IF answer[i].given THEN answer[i] ELSE Answer(v, "loop")
    <2>1. a \in Answers /\ a.given
        BY <1>1 DEF Answer, Answers
    <2>2. /\ stage' = [stage EXCEPT ![i] = "over"]
          /\ timer' = [timer EXCEPT ![i] = timer[i]]
          /\ answer' = [answer EXCEPT ![i] = a]
        BY <1>1, <1>3 DEF Finish
    <2>3. answer[i].given => a = answer[i]
        OBVIOUS
    <2> HIDE DEF a
    <2> QED BY <1>1, <2>1, <2>2, <2>3
<1> QED BY <1>2, <1>3

\* The same of a turn that is evaluated, which may also end by a rejection.
LEMMA TurnOutcome ==
    ASSUME Inv, NEW i \in Calls, Evaluate(i), cache' \in 0..Len(history) \cup {NoCache}
    PROVE  /\ value' \in [Calls -> Values]
           /\ \E st \in {"sleep", "over"}, t \in {"off", "on", "fired"},
                 a \in Answers :
                /\ stage' = [stage EXCEPT ![i] = st]
                /\ timer' = [timer EXCEPT ![i] = t]
                /\ answer' = [answer EXCEPT ![i] = a]
                /\ answer[i].given => a = answer[i]
                /\ st = "sleep" => t # "off" /\ a = answer[i]
                /\ st = "over" => a.given
                /\ t = "fired" => a.given
<1> DEFINE v == Value(i, snap[i])
<1>1. v \in Values
    <2>1. snap[i] \in [Metric -> 0..Len(history)]
        BY DEF Inv, TypeOK
    <2> QED BY <2>1, ValueType DEF Inv
<1> HIDE DEF v
<1>2. CASE Rejects(i, v)
    <2> DEFINE a == IF answer[i].given THEN answer[i] ELSE Answer(Rejected(i), "error")
    <2>1. /\ stage' = [stage EXCEPT ![i] = "over"]
          /\ answer' = [answer EXCEPT ![i] = a]
          /\ UNCHANGED <<value, timer>>
        BY <1>2 DEF Evaluate, Read, v
    <2>2. Rejected(i) \in Values
        BY DEF Rejected, Inv, TypeOK, Values
    <2>3. a \in Answers /\ a.given
        BY <2>2 DEF Answer, Answers, Inv, TypeOK
    <2>4. answer[i].given => a = answer[i]
        OBVIOUS
    <2> HIDE DEF a
    <2>5. /\ timer' = [timer EXCEPT ![i] = timer[i]]
          /\ timer[i] \in {"off", "on", "fired"}
        BY <2>1 DEF Inv, TypeOK
    <2> QED BY <2>1, <2>3, <2>4, <2>5 DEF Inv, TypeOK
<1>3. CASE ~Rejects(i, v)
    <2>1. value' = [value EXCEPT ![i] = v] /\ (Finish(i, v) \/ GoOn(i))
        BY <1>3 DEF Evaluate, Read, v
    <2>2. value' \in [Calls -> Values]
        BY <1>1, <2>1 DEF Inv, TypeOK
    <2> QED BY <1>1, <2>1, <2>2, Outcome
<1> QED BY <1>2, <1>3

LEMMA InvBegin == ASSUME Inv, NEW i \in Calls, Begin(i) PROVE Inv'
<1>1. /\ UNCHANGED <<call, history, cache, snap>>
      /\ \A j \in 1..(i - 1) : answer[j].given
      /\ since' \in [Calls -> 1..Len(history)]
      /\ Len(history) \in Nat \ {0}
    BY DEF Begin, Inv, TypeOK
<1>2. CASE BeginCached(i)
    <2> DEFINE v == Value(i, [m \in Metric |-> cache])
    <2>1. [m \in Metric |-> cache] \in [Metric -> 0..Len(history)]
        BY <1>2 DEF BeginCached, Inv, TypeOK
    <2>2. v \in Values
        BY <2>1, ValueType DEF Inv
    <2>3. value' = [value EXCEPT ![i] = v] /\ request' = request /\ (Finish(i, v) \/ GoOn(i))
        BY <1>2 DEF BeginCached
    <2> HIDE DEF v
    <2>4. value' \in [Calls -> Values]
        BY <2>2, <2>3 DEF Inv, TypeOK
    <2>5. /\ cache' \in 0..Len(history) \cup {NoCache}
          /\ request[i] \in [Metric -> {"none", "asked", "served"}]
          /\ request' = [request EXCEPT ![i] = request[i]]
          /\ \A m \in Metric : request[i][m] = "none"
          /\ snap' \in [Calls -> [Metric -> 0..Len(history)]]
        BY <1>1, <2>3 DEF Begin, Inv, TypeOK, LoopInv
    <2>6. PICK st \in {"sleep", "over"}, t \in {"off", "on", "fired"},
               a \in Answers :
             /\ stage' = [stage EXCEPT ![i] = st]
             /\ timer' = [timer EXCEPT ![i] = t]
             /\ answer' = [answer EXCEPT ![i] = a]
             /\ answer[i].given => a = answer[i]
             /\ st = "sleep" => t # "off" /\ a = answer[i]
             /\ st = "over" => a.given
             /\ t = "fired" => a.given
        BY <2>2, <2>3, Outcome
    <2> QED BY <1>1, <2>4, <2>5, <2>6, InvStep
<1>3. CASE BeginFetch(i)
    <2>1. /\ stage' = [stage EXCEPT ![i] = "fetch"]
          /\ UNCHANGED <<value, answer>>
          /\ timer' = [timer EXCEPT ![i] = IF RacesAtOnce(i) THEN "on" ELSE "off"]
        BY <1>3 DEF BeginFetch, Ask
    <2>4. PICK r \in [Metric -> {"none", "asked", "served"}] :
             request' = [request EXCEPT ![i] = r]
        BY <1>3, AskType DEF BeginFetch
    <2>2. /\ answer' = [answer EXCEPT ![i] = answer[i]]
          /\ answer[i] \in Answers
          /\ cache' \in 0..Len(history) \cup {NoCache}
          /\ value' \in [Calls -> Values]
          /\ snap' \in [Calls -> [Metric -> 0..Len(history)]]
        BY <1>1, <2>1 DEF Inv, TypeOK
    <2> DEFINE t == IF RacesAtOnce(i) THEN "on" ELSE "off"
    <2>3. t \in {"off", "on", "fired"} /\ t # "fired"
        OBVIOUS
    <2> HIDE DEF t
    <2> QED BY <1>1, <2>1, <2>2, <2>3, <2>4, InvStep DEF t
<1> QED BY <1>2, <1>3 DEF Begin

LEMMA InvServe == ASSUME Inv, NEW i \in Calls, NEW m \in Metric, Serve(i, m) PROVE Inv'
<1>1. UNCHANGED <<call, history, cache, stage, value, timer, answer, since>>
    BY DEF Serve
<1>2. request' \in [Calls -> [Metric -> {"none", "asked", "served"}]]
    BY DEF Serve, Inv, TypeOK
<1>3. snap' \in [Calls -> [Metric -> 0..Len(history)]]
    <2>1. PICK r \in {0, Len(history)} : snap' = [snap EXCEPT ![i][m] = r]
        BY DEF Serve
    <2>2. r \in 0..Len(history)
        BY DEF Inv, TypeOK
    <2> QED BY <2>1, <2>2 DEF Inv, TypeOK
<1>4. \A j \in Calls, n \in Metric : request'[j][n] # "none" => stage[j] = "fetch"
    BY DEF Serve, Inv, TypeOK, LoopInv
<1> QED BY <1>1, <1>2, <1>3, <1>4 DEF Inv, TypeOK, LoopInv

LEMMA InvArrive == ASSUME Inv, NEW i \in Calls, NEW m \in Metric, Arrive(i, m) PROVE Inv'
<1>1. UNCHANGED <<call, history, since>>
    BY DEF Arrive
<1>2. /\ request' \in [Calls -> [Metric -> {"none", "asked", "served"}]]
      /\ cache' \in 0..Len(history) \cup {NoCache}
    BY DEF Arrive, Inv, TypeOK
<1>3. CASE \A n \in Metric \ {m} : request[i][n] = "none"
    <2>1. Evaluate(i) /\ snap' = [snap EXCEPT ![i] = [n \in Metric |-> 0]]
        BY <1>3 DEF Arrive
    <2>2. snap' \in [Calls -> [Metric -> 0..Len(history)]]
        <3>1. 0 \in 0..Len(history)
            BY DEF Inv, TypeOK
        <3> QED BY <2>1, <3>1 DEF Inv, TypeOK
    <2>3. since' \in [Calls -> 1..Len(history)]
        BY <1>1 DEF Inv, TypeOK
    <2>4. value' \in [Calls -> Values]
        BY <1>2, <2>1, TurnOutcome
    <2>5. PICK st \in {"sleep", "over"}, t \in {"off", "on", "fired"},
               a \in Answers :
             /\ stage' = [stage EXCEPT ![i] = st]
             /\ timer' = [timer EXCEPT ![i] = t]
             /\ answer' = [answer EXCEPT ![i] = a]
             /\ answer[i].given => a = answer[i]
             /\ st = "sleep" => t # "off" /\ a = answer[i]
             /\ st = "over" => a.given
             /\ t = "fired" => a.given
        BY <1>2, <2>1, TurnOutcome
    <2>6. stage[i] = "fetch"
        BY DEF Arrive, Inv, LoopInv
    <2>7. \A j \in 1..(i - 1) : answer[j].given
        BY <2>6 DEF Inv, TypeOK
    <2> DEFINE r == [request[i] EXCEPT ![m] = "none"]
    <2>8. /\ r \in [Metric -> {"none", "asked", "served"}]
          /\ request' = [request EXCEPT ![i] = r]
          /\ \A n \in Metric : r[n] = "none"
        BY <1>3 DEF Arrive, Inv, TypeOK
    <2> HIDE DEF r
    <2> QED BY <1>1, <1>2, <2>7, <2>8, <2>2, <2>3, <2>4, <2>5, <2>6, InvStep
<1>4. CASE ~\A n \in Metric \ {m} : request[i][n] = "none"
    <2>1. UNCHANGED <<stage, value, timer, answer, snap>>
        BY <1>4 DEF Arrive
    <2>2. \A j \in Calls, n \in Metric : request'[j][n] # "none" => request[j][n] # "none"
        BY DEF Arrive, Inv, TypeOK
    <2> QED BY <1>1, <1>2, <2>1, <2>2 DEF Inv, TypeOK, LoopInv
<1> QED BY <1>3, <1>4

LEMMA InvWake == ASSUME Inv, NEW i \in Calls, Wake(i) PROVE Inv'
<1>1. /\ UNCHANGED <<call, history, cache, snap, value, timer, answer, since>>
      /\ stage[i] = "sleep"
    BY DEF Wake
<1>2. /\ timer' = [timer EXCEPT ![i] = timer[i]]
      /\ timer[i] \in {"off", "on", "fired"}
      /\ answer' = [answer EXCEPT ![i] = answer[i]]
      /\ answer[i] \in Answers
      /\ timer[i] = "fired" => answer[i].given
      /\ cache' \in 0..Len(history) \cup {NoCache}
      /\ value' \in [Calls -> Values]
      /\ snap' \in [Calls -> [Metric -> 0..Len(history)]]
      /\ since' \in [Calls -> 1..Len(history)]
      /\ request[i] \in [Metric -> {"none", "asked", "served"}]
      /\ \A m \in Metric : request[i][m] = "none"
    BY <1>1 DEF Inv, TypeOK, LoopInv
<1>3. CASE call[i].kind = "calc" /\ timer[i] = "fired"
    <2>1. /\ stage' = [stage EXCEPT ![i] = "over"]
          /\ request' = [request EXCEPT ![i] = request[i]]
        BY <1>3 DEF Wake, Inv, TypeOK
    <2> QED BY <1>1, <1>2, <1>3, <2>1, InvStep
<1>4. CASE ~(call[i].kind = "calc" /\ timer[i] = "fired")
    <2>1. stage' = [stage EXCEPT ![i] = "fetch"]
        BY <1>4 DEF Wake, Ask
    <2>2. PICK r \in [Metric -> {"none", "asked", "served"}] :
             request' = [request EXCEPT ![i] = r]
        BY <1>4, AskType DEF Wake
    <2> QED BY <1>1, <1>2, <2>1, <2>2, InvStep
<1> QED BY <1>3, <1>4

LEMMA InvTimer == ASSUME Inv, NEW i \in Calls, TimerFires(i) PROVE Inv'
<1> DEFINE a == Answer(TimeoutAnswer(i), "timer")
<1>1. /\ UNCHANGED <<call, history, cache, stage, request, snap, value, since>>
      /\ timer' = [timer EXCEPT ![i] = "fired"]
      /\ answer' = [answer EXCEPT ![i] = a]
      /\ timer[i] = "on"
    BY DEF TimerFires
<1>2. TimeoutAnswer(i) \in Values
    <2>1. value[i] \in Values /\ 0 \in Values
        BY DEF Inv, TypeOK, Values
    <2> QED BY <2>1 DEF TimeoutAnswer
<1>3. a \in Answers /\ a.given
    BY <1>2 DEF Answer, Answers
<1> HIDE DEF a
<1>4. \A j \in Calls : answer'[j] = IF j = i THEN a ELSE answer[j]
    BY <1>1 DEF Inv, TypeOK
<1>5. \A j \in Calls : timer'[j] = IF j = i THEN "fired" ELSE timer[j]
    BY <1>1 DEF Inv, TypeOK
<1>6. \A j \in Calls : stage'[j] # "idle" => \A k \in 1..(j - 1) : answer'[k].given
    <2>1. \A j \in Calls : 1..(j - 1) \subseteq Calls
        BY NodeQueriesAssumption DEF Calls
    <2> QED BY <1>1, <1>3, <1>4, <2>1 DEF Inv, TypeOK
<1>7. /\ answer' \in [Calls -> Answers]
      /\ timer' \in [Calls -> {"off", "on", "fired"}]
    BY <1>1, <1>3 DEF Inv, TypeOK
<1>8. LoopInv'
    BY <1>1, <1>3, <1>4, <1>5 DEF Inv, LoopInv
<1>9. /\ \A j \in Calls : stage'[j] = "sleep" => timer'[j] # "off"
      /\ \A j \in Calls : stage'[j] = "over" => answer'[j].given
    BY <1>1, <1>3, <1>4, <1>5 DEF Inv, TypeOK
<1> QED BY <1>1, <1>6, <1>7, <1>8, <1>9 DEF Inv, TypeOK

LEMMA InvReport == Inv /\ Report => Inv'
<1> SUFFICES ASSUME Inv, Report PROVE Inv'
    OBVIOUS
<1>1. PICK l \in Reports : history' = Append(history, l)
    BY DEF Report
<1>2. /\ history' \in Seq(Reports) /\ history' # <<>>
      /\ Len(history') = Len(history) + 1 /\ Len(history) \in Nat
    BY <1>1 DEF Inv, TypeOK
<1>3. /\ 0..Len(history) \subseteq 0..Len(history')
      /\ 1..Len(history) \subseteq 1..Len(history')
    BY <1>2
<1>4. UNCHANGED <<call, cache, stage, request, snap, value, timer, answer, since>>
    BY DEF Report, callVars
<1> QED BY <1>2, <1>3, <1>4 DEF Inv, TypeOK, LoopInv

LEMMA InvNext == Inv /\ [Next]_vars => Inv'
<1> SUFFICES ASSUME Inv, [Next]_vars PROVE Inv'
    OBVIOUS
<1>1. CASE UNCHANGED vars
    BY <1>1 DEF vars, callVars, Inv, TypeOK, LoopInv
<1> QED BY <1>1, InvBegin, InvServe, InvArrive, InvWake, InvTimer, InvReport DEF Next, CallStep, LoopStep

LEMMA InvAlways == Spec => []Inv
BY InvInit, InvNext, PTL DEF Spec

(* The type invariant: tests are in order, a loop that sleeps has a timer, *)
(* and a call without an answer is on its way.                             *)
THEOREM TypeCorrect == Spec => []TypeOK
<1>1. Inv => TypeOK
    BY DEF Inv
<1> QED BY <1>1, InvAlways, PTL

-----------------------------------------------------------------------------
(* Answers.                                                                *)

\* What the reports of call i may be at the end of a step.
Recent(i, s) == \A m \in Metric : s[m] = 0 \/ UsesCache(i) \/ since'[i] <= s[m]

\* A step changes no answer but to one of its loop that satisfies the query, or
\* to a blank or the value of a call whose timer has fired or whose fetch has
\* failed.
NewAnswers ==
    \A i \in Calls :
      \/ answer'[i] = answer[i]
      \/ /\ stage[i] # "idle"
         /\ \/ answer'[i].by = "timer"
            \/ answer'[i].by = "error" /\ call[i].kind \in {"histogram", "count"}
         /\ answer'[i].v \in Blank(i) \cup {value[i]}
      \/ \E s \in [Metric -> 0..Len(history)] :
           /\ Recent(i, s)
           /\ Satisfied(i, Value(i, s))
           /\ answer'[i] = Answer(Value(i, s), "loop")

LEMMA SnapInit == Init => SnapInv
BY DEF Init, SnapInv

LEMMA NeverIdleAgain ==
    ASSUME Inv, [Next]_vars, NEW j \in Calls, stage'[j] = "idle"
    PROVE  stage[j] = "idle"
<1>1. ASSUME NEW i \in Calls, NEW st \in {"fetch", "sleep", "over"},
             stage' = [stage EXCEPT ![i] = st]
      PROVE  stage[j] = "idle"
    BY <1>1 DEF Inv, TypeOK
<1>2. ASSUME NEW i \in Calls, Begin(i) PROVE stage[j] = "idle"
    <2>1. \E st \in {"fetch", "sleep", "over"} : stage' = [stage EXCEPT ![i] = st]
        BY <1>2 DEF Begin, BeginCached, BeginFetch, Ask, Finish, GoOn
    <2> QED BY <1>1, <2>1
<1>3. ASSUME NEW i \in Calls, CallStep(i) PROVE stage[j] = "idle"
    <2>1. \/ stage' = stage
          \/ \E st \in {"fetch", "sleep", "over"} : stage' = [stage EXCEPT ![i] = st]
        BY <1>3 DEF CallStep, LoopStep, Wake, TimerFires, Serve, Arrive, Evaluate, Ask, Finish, GoOn
    <2> QED BY <1>1, <2>1
<1>4. CASE Report \/ UNCHANGED vars
    BY <1>4 DEF Report, vars, callVars
<1> QED BY <1>2, <1>3, <1>4 DEF Next

LEMMA SnapNext == Inv /\ SnapInv /\ [Next]_vars => SnapInv'
<1> SUFFICES ASSUME Inv, SnapInv, [Next]_vars PROVE SnapInv'
    OBVIOUS
<1>1. ASSUME NEW i \in Calls, Begin(i) PROVE SnapInv'
    <2>1. snap' = snap /\ since' = [since EXCEPT ![i] = Len(history)]
        BY <1>1 DEF Begin
    <2>2. \A m \in Metric : snap[i][m] = 0
        BY <1>1 DEF Begin, SnapInv
    <2>3. \A j \in Calls : since'[j] = since[j] \/ j = i
        BY <2>1 DEF Inv, TypeOK
    <2> QED BY <2>1, <2>2, <2>3, NeverIdleAgain DEF SnapInv
<1>2. ASSUME NEW i \in Calls, NEW m \in Metric, Serve(i, m) PROVE SnapInv'
    <2>1. since' = since
        BY <1>2 DEF Serve
    <2>2. PICK r \in {0, Len(history)} : snap' = [snap EXCEPT ![i][m] = r]
        BY <1>2 DEF Serve
    <2>3. \A j \in Calls, n \in Metric :
            snap'[j][n] = IF j = i /\ n = m THEN r ELSE snap[j][n]
        BY <2>2 DEF Inv, TypeOK
    <2>4. since[i] <= Len(history)
        BY DEF Inv, TypeOK
    <2>5. stage' = stage /\ stage[i] = "fetch"
        BY <1>2 DEF Serve, Inv, LoopInv
    <2> QED BY <2>1, <2>3, <2>4, <2>5 DEF SnapInv
<1>3. ASSUME NEW i \in Calls, NEW m \in Metric, Arrive(i, m) PROVE SnapInv'
    <2>1. since' = since
        BY <1>3 DEF Arrive
    <2>2. snap' = snap \/ snap' = [snap EXCEPT ![i] = [n \in Metric |-> 0]]
        BY <1>3 DEF Arrive
    <2>3. \A j \in Calls, n \in Metric : snap'[j][n] = 0 \/ snap'[j][n] = snap[j][n]
        <3>1. CASE snap' = snap
            BY <3>1
        <3>2. CASE snap' = [snap EXCEPT ![i] = [n \in Metric |-> 0]]
            BY <3>2 DEF Inv, TypeOK
        <3> QED BY <2>2, <3>1, <3>2
    <2> QED BY <2>1, <2>3, NeverIdleAgain DEF SnapInv
<1>4. CASE (\E i \in Calls : Wake(i) \/ TimerFires(i)) \/ Report \/ UNCHANGED vars
    <2>1. snap' = snap /\ since' = since
        BY <1>4 DEF Wake, TimerFires, Report, vars, callVars
    <2> QED BY <2>1, NeverIdleAgain DEF SnapInv
<1> QED BY <1>1, <1>2, <1>3, <1>4 DEF Next, CallStep, LoopStep

\* Finish() and GoOn() answer with a value that satisfies the query, or not at all.
LEMMA FinishAnswers ==
    ASSUME Inv, NEW i \in Calls, NEW s \in [Metric -> 0..Len(history)], Recent(i, s),
           \/ Satisfied(i, Value(i, s)) /\ Finish(i, Value(i, s))
           \/ timer[i] = "fired" /\ Finish(i, Value(i, s))
           \/ GoOn(i)
    PROVE  NewAnswers
<1>1. CASE Satisfied(i, Value(i, s)) /\ Finish(i, Value(i, s)) /\ ~answer[i].given
    BY <1>1 DEF Finish, NewAnswers, Inv, TypeOK
<1>2. CASE Finish(i, Value(i, s)) /\ answer[i].given
    BY <1>2 DEF Finish, NewAnswers, Inv, TypeOK
<1>3. CASE GoOn(i)
    BY <1>3 DEF GoOn, NewAnswers
<1> QED BY <1>1, <1>2, <1>3 DEF Inv, LoopInv

LEMMA AnswersNext == ASSUME Inv, SnapInv, [Next]_vars PROVE NewAnswers
<1>1. ASSUME answer' = answer PROVE NewAnswers
    BY <1>1 DEF NewAnswers
<1>2. ASSUME NEW i \in Calls, Begin(i) PROVE NewAnswers
    <2>1. CASE BeginCached(i)
        <3> DEFINE s == [m \in Metric |-> cache]
        <3>1. s \in [Metric -> 0..Len(history)] /\ UsesCache(i)
            BY <2>1 DEF BeginCached, Inv, TypeOK
        <3>2. \/ Satisfied(i, Value(i, s)) /\ Finish(i, Value(i, s))
              \/ GoOn(i)
            BY <2>1 DEF BeginCached
        <3> HIDE DEF s
        <3>3. Recent(i, s)
            BY <3>1 DEF Recent
        <3> QED BY <3>1, <3>2, <3>3, FinishAnswers
    <2>2. CASE BeginFetch(i)
        BY <1>1, <2>2 DEF BeginFetch
    <2> QED BY <1>2, <2>1, <2>2 DEF Begin
<1>3. ASSUME NEW i \in Calls, NEW m \in Metric, Arrive(i, m), Evaluate(i) PROVE NewAnswers
    <2> DEFINE v == Value(i, snap[i])
    <2>1. snap[i] \in [Metric -> 0..Len(history)] /\ since' = since
        BY <1>3 DEF Arrive, Inv, TypeOK
    <2>2. Recent(i, snap[i])
        BY <2>1 DEF Recent, SnapInv
    <2>3. CASE Rejects(i, v)
        <3>1. answer' = [answer EXCEPT ![i] =
                           IF answer[i].given THEN answer[i] ELSE Answer(Rejected(i), "error")]
            BY <1>3, <2>3 DEF Evaluate, Read
        <3>2. /\ call[i].kind \in {"histogram", "count"}
              /\ Rejected(i) \in Blank(i) \cup {value[i]}
            BY <2>3 DEF Rejects, Rejected, Blank
        <3>3. stage[i] # "idle"
            BY <1>3 DEF Arrive, Inv, LoopInv
        <3> QED BY <3>1, <3>2, <3>3 DEF NewAnswers, Answer, Inv, TypeOK
    <2>4. CASE ~Rejects(i, v)
        <3>1. \/ Satisfied(i, v) /\ Finish(i, v)
              \/ timer[i] = "fired" /\ Finish(i, v)
              \/ GoOn(i)
            BY <1>3, <2>4 DEF Evaluate, Read
        <3> QED BY <2>1, <2>2, <3>1, FinishAnswers
    <2> QED BY <2>3, <2>4
<1>4. ASSUME NEW i \in Calls, NEW m \in Metric, Serve(i, m) \/ Arrive(i, m), ~Evaluate(i)
      PROVE  NewAnswers
    <2>1. answer' = answer
        BY <1>4 DEF Serve, Arrive
    <2> QED BY <1>1, <2>1
<1>5. ASSUME NEW i \in Calls, NEW m \in Metric, Serve(i, m) PROVE NewAnswers
    BY <1>1, <1>5 DEF Serve
<1>6. ASSUME NEW i \in Calls, TimerFires(i) PROVE NewAnswers
    <2>1. answer' = [answer EXCEPT ![i] = Answer(TimeoutAnswer(i), "timer")]
        BY <1>6 DEF TimerFires
    <2>2. TimeoutAnswer(i) \in Blank(i) \cup {value[i]}
        BY DEF TimeoutAnswer, Blank
    <2>3. stage[i] # "idle"
        BY <1>6 DEF TimerFires, Inv, LoopInv
    <2> QED BY <2>1, <2>2, <2>3 DEF NewAnswers, Answer, Inv, TypeOK
<1>7. CASE (\E i \in Calls : Wake(i)) \/ Report \/ UNCHANGED vars
    BY <1>1, <1>7 DEF Wake, Report, vars, callVars
<1> QED BY <1>2, <1>3, <1>4, <1>5, <1>6, <1>7 DEF Next, CallStep, LoopStep

-----------------------------------------------------------------------------
LEMMA CompareHolds ==
    ASSUME NEW op \in {"equal", "isAbove", "isAtLeast", "isBelow", "isAtMost"},
           NEW a, NEW b \in Int, Compare(op, a, b)
    PROVE  Holds(op, a, b)
<1>1. a \in Int /\ op # "notEqual"
    BY DEF Compare
<1>2. CASE op = "equal"
    BY <1>1, <1>2 DEF Compare, Holds
<1>6. CASE op = "isAtMost"
    <2>1. a = b
        BY <1>6 DEF Compare
    <2>2. a <= b
        BY <1>1, <2>1
    <2> QED BY <1>1, <1>6, <2>2 DEF Holds
<1>3. CASE op = "isAbove"
    BY <1>1, <1>3 DEF Compare, Holds
<1>4. CASE op = "isAtLeast"
    BY <1>1, <1>4 DEF Compare, Holds
<1>5. CASE op = "isBelow"
    BY <1>1, <1>5 DEF Compare, Holds
<1> QED BY <1>2, <1>3, <1>4, <1>5, <1>6

LEMMA SatisfiedHolds ==
    ASSUME TypeOK, NEW i \in Calls, SameComparison(i), NEW v, Satisfied(i, v)
    PROVE  Holds(call[i].op, v, call[i].target)
<1>1. call[i].op \in Ops /\ call[i].target \in Int
    BY ReadsOf
<1>3. CASE call[i].kind = "histogram"
    BY <1>1, <1>3, CompareHolds DEF SameComparison, Satisfied
<1>4. CASE call[i].kind # "histogram"
    <2>1. call[i].op \in {"equal", "isAbove", "isAtLeast", "isBelow", "isAtMost"}
        BY <1>1, <1>4 DEF SameComparison, Ops
    <2>2. Compare(call[i].op, v, call[i].target)
        BY <1>4 DEF Satisfied
    <2> QED BY <1>1, <2>1, <2>2, CompareHolds
<1> QED BY <1>3, <1>4

(* An answer before the timeout passes the assertion of the test, but for  *)
(* that of a histogram or a count whose fetch has failed.                  *)
THEOREM EarlyAnswersPass == Spec => []EarlyAnswerPasses
<1>1. Init => EarlyAnswerPasses
    BY DEF Init, EarlyAnswerPasses, NoAnswer
<1>2. Init => SnapInv
    BY SnapInit
<1>3. Inv /\ SnapInv /\ EarlyAnswerPasses /\ [Next]_vars => EarlyAnswerPasses'
    <2> SUFFICES ASSUME Inv, SnapInv, EarlyAnswerPasses, [Next]_vars,
                        NEW i \in Calls, answer'[i].given, answer'[i].by # "timer",
                        SameComparison(i)'
                 PROVE  \/ Holds(call'[i].op, answer'[i].v, call'[i].target)
                        \/ answer'[i].by = "error" /\ call'[i].kind \in {"histogram", "count"}
        BY DEF EarlyAnswerPasses
    <2>1. call' = call
        BY DEF Next, Begin, CallStep, LoopStep, Wake, TimerFires, Serve, Arrive, Report, vars
    <2>2. SameComparison(i)
        BY <2>1 DEF SameComparison
    <2>3. CASE answer'[i] = answer[i]
        BY <2>1, <2>2, <2>3 DEF EarlyAnswerPasses
    <2>5. CASE answer'[i].by = "error" /\ call[i].kind \in {"histogram", "count"}
        BY <2>1, <2>5
    <2>4. CASE /\ answer'[i] # answer[i]
               /\ ~(answer'[i].by = "error" /\ call[i].kind \in {"histogram", "count"})
        <3>1. PICK s \in [Metric -> 0..Len(history)] :
                /\ Satisfied(i, Value(i, s))
                /\ answer'[i] = Answer(Value(i, s), "loop")
            BY <2>4, AnswersNext DEF NewAnswers
        <3>2. answer'[i].v = Value(i, s)
            BY <3>1 DEF Answer
        <3> QED BY <2>1, <2>2, <3>1, <3>2, SatisfiedHolds DEF Inv
    <2> QED BY <2>3, <2>4, <2>5
<1>4. Inv /\ SnapInv /\ [Next]_vars => SnapInv'
    BY SnapNext
<1> QED BY <1>1, <1>2, <1>3, <1>4, InvAlways, PTL DEF Spec

-----------------------------------------------------------------------------
(* What the node has reported in a call's time.                            *)

LEMMA HistoryGrows ==
    ASSUME Inv, [Next]_vars
    PROVE  /\ call' = call
           /\ history' = history \/ \E l \in Reports : history' = Append(history, l)
           /\ Len(history) \in Nat /\ Len(history') \in Nat
           /\ Len(history) <= Len(history')
<1>1. /\ call' = call
      /\ history' = history \/ \E l \in Reports : history' = Append(history, l)
    BY DEF Next, Begin, CallStep, LoopStep, Wake, TimerFires, Serve, Arrive, Report, vars
<1> QED BY <1>1 DEF Inv, TypeOK

LEMMA ValueStays ==
    ASSUME Inv, [Next]_vars, NEW i \in Calls, NEW s \in [call[i].reads -> 0..Len(history)]
    PROVE  Value(i, s)' = Value(i, s)
<1>1. call' = call
    BY HistoryGrows
<1>2. CASE history' = history
    BY <1>1, <1>2 DEF Value, First, Second, Reported
<1>3. CASE \E l \in Reports : history' = Append(history, l)
    BY <1>1, <1>3, ValueKeeps DEF Inv
<1> QED BY <1>2, <1>3, HistoryGrows

\* What was reported in the time of a call that has begun stays so.
LEMMA SourcedKeeps ==
    ASSUME Inv, [Next]_vars, NEW i \in Calls, stage[i] # "idle", NEW v, Sourced(i, v)
    PROVE  \E s \in [call'[i].reads -> Window(i)'] : v = Value(i, s)'
<1>1. PICK s \in [call[i].reads -> Window(i)] : v = Value(i, s)
    BY DEF Sourced
<1>2. since'[i] = since[i]
    BY DEF Next, Begin, CallStep, LoopStep, Wake, TimerFires, Serve, Arrive, Report,
           vars, callVars, Inv, TypeOK
<1>3. since[i] \in 1..Len(history) /\ UsesCache(i)' = UsesCache(i)
    BY HistoryGrows DEF Inv, TypeOK, UsesCache
<1>4. Window(i) \subseteq Window(i)' /\ Window(i) \subseteq 0..Len(history)
    BY <1>2, <1>3, HistoryGrows DEF Window
<1>5. s \in [call[i].reads -> 0..Len(history)] /\ s \in [call'[i].reads -> Window(i)']
    BY <1>4, HistoryGrows
<1> QED BY <1>1, <1>5, ValueStays

\* A number that a call reads was reported in its time.
LEMMA RecentSourced ==
    ASSUME Inv, [Next]_vars, NEW i \in Calls, NEW s \in [Metric -> 0..Len(history)],
           Recent(i, s), Value(i, s) \in Int
    PROVE  \E f \in [call'[i].reads -> Window(i)'] : Value(i, s) = Value(i, f)'
<1>1. call[i].reads \subseteq Metric
    BY Choices DEF Inv
<1>2. PICK f \in [call[i].reads -> 0..Len(history)] : f = [m \in call[i].reads |-> s[m]]
    BY <1>1
<1>3. Value(i, f) = Value(i, s)
    BY <1>2, ValueRestricted DEF Inv
<1>4. \A m \in call[i].reads : s[m] # 0
    BY ValueType DEF Inv
<1>5. since'[i] \in Int
    <2>1. since' \in [Calls -> 1..Len(history')]
        BY InvNext DEF Inv, TypeOK
    <2> QED BY <2>1
<1>6. UsesCache(i)' = UsesCache(i)
    BY HistoryGrows DEF UsesCache
<1>7. \A m \in call[i].reads : s[m] \in Window(i)'
    BY <1>1, <1>4, <1>5, <1>6, HistoryGrows DEF Recent, Window
<1>8. f \in [call'[i].reads -> Window(i)']
    BY <1>2, <1>7, HistoryGrows
<1> QED BY <1>3, <1>8, ValueStays

-----------------------------------------------------------------------------
(* The variable value of a call.                                           *)

\* It is a blank, always so before the call, or was reported in its time.
ValueInv ==
    \A i \in Calls :
      /\ value[i] \in Blank(i) \/ Sourced(i, value[i])
      /\ stage[i] = "idle" => value[i] \in Blank(i)

LEMMA ValueInit == Init => ValueInv
BY DEF Init, ValueInv, Blank

\* A step gives a call no value but what it reads.
NewValues ==
    \A i \in Calls :
      \/ value'[i] = value[i]
      \/ \E s \in [Metric -> 0..Len(history)] :
           Recent(i, s) /\ value'[i] = Value(i, s)

LEMMA ValuesNext == ASSUME Inv, SnapInv, [Next]_vars PROVE NewValues
<1>1. ASSUME value' = value PROVE NewValues
    BY <1>1 DEF NewValues
<1>2. ASSUME NEW i \in Calls, NEW s \in [Metric -> 0..Len(history)], Recent(i, s),
             value' = [value EXCEPT ![i] = Value(i, s)]
      PROVE  NewValues
    BY <1>2 DEF NewValues, Inv, TypeOK
<1>3. ASSUME NEW i \in Calls, Begin(i) PROVE NewValues
    <2>1. CASE BeginCached(i)
        <3> DEFINE s == [m \in Metric |-> cache]
        <3>1. s \in [Metric -> 0..Len(history)] /\ UsesCache(i)
            BY <2>1 DEF BeginCached, Inv, TypeOK
        <3>2. value' = [value EXCEPT ![i] = Value(i, s)]
            BY <2>1 DEF BeginCached
        <3> HIDE DEF s
        <3>3. Recent(i, s)
            BY <3>1 DEF Recent
        <3> QED BY <1>2, <3>1, <3>2, <3>3
    <2>2. CASE BeginFetch(i)
        BY <1>1, <2>2 DEF BeginFetch
    <2> QED BY <1>3, <2>1, <2>2 DEF Begin
<1>4. ASSUME NEW i \in Calls, NEW m \in Metric, Arrive(i, m) PROVE NewValues
    <2>1. snap[i] \in [Metric -> 0..Len(history)] /\ since' = since
        BY <1>4 DEF Arrive, Inv, TypeOK
    <2>2. Recent(i, snap[i])
        BY <2>1 DEF Recent, SnapInv
    <2>3. value' = value \/ value' = [value EXCEPT ![i] = Value(i, snap[i])]
        BY <1>4 DEF Arrive, Evaluate, Read
    <2> QED BY <1>1, <1>2, <2>1, <2>2, <2>3
<1>5. CASE (\E i \in Calls : Wake(i) \/ TimerFires(i) \/ \E m \in Metric : Serve(i, m))
           \/ Report \/ UNCHANGED vars
    <2>1. value' = value
        BY <1>5 DEF Wake, TimerFires, Serve, Report, vars, callVars
    <2> QED BY <1>1, <2>1
<1> QED BY <1>3, <1>4, <1>5 DEF Next, CallStep, LoopStep

LEMMA ValueNext == Inv /\ SnapInv /\ ValueInv /\ [Next]_vars => ValueInv'
<1> SUFFICES ASSUME Inv, SnapInv, ValueInv, [Next]_vars, NEW i \in Calls
             PROVE  /\ \/ value'[i] \in Blank(i)'
                       \/ \E s \in [call'[i].reads -> Window(i)'] : value'[i] = Value(i, s)'
                    /\ stage'[i] = "idle" => value'[i] \in Blank(i)'
    BY DEF ValueInv, Sourced
<1>1. Blank(i)' = Blank(i)
    BY HistoryGrows DEF Blank
<1>2. CASE value'[i] = value[i]
    <2>1. stage'[i] = "idle" => value'[i] \in Blank(i)'
        BY <1>1, <1>2, NeverIdleAgain DEF ValueInv
    <2>2. CASE value[i] \in Blank(i)
        BY <1>1, <1>2, <2>1, <2>2
    <2>3. CASE value[i] \notin Blank(i)
        <3>1. stage[i] # "idle" /\ Sourced(i, value[i])
            BY <2>3 DEF ValueInv
        <3> QED BY <1>2, <2>1, <3>1, SourcedKeeps
    <2> QED BY <2>2, <2>3
<1>3. CASE value'[i] # value[i]
    <2>1. PICK s \in [Metric -> 0..Len(history)] :
             Recent(i, s) /\ value'[i] = Value(i, s)
        BY <1>3, ValuesNext DEF NewValues
    <2>2. Value(i, s) \in Values
        BY ValueType DEF Inv
    <2>3. stage'[i] # "idle"
        <3>1. ASSUME stage'[i] = "idle" PROVE FALSE
            <4>1. stage[i] = "idle"
                BY <3>1, NeverIdleAgain
            <4>2. \A m \in Metric : request[i][m] = "none"
                BY <4>1 DEF Inv, LoopInv
            <4>3. ~\E m \in Metric : Arrive(i, m)
                BY <4>2 DEF Arrive
            <4>4. ~Begin(i)
                <5>1. ASSUME Begin(i) PROVE FALSE
                    <6>1. \E st \in {"fetch", "sleep", "over"} :
                            stage' = [stage EXCEPT ![i] = st]
                        BY <5>1 DEF Begin, BeginCached, BeginFetch, Ask, Finish, GoOn
                    <6> QED BY <3>1, <6>1 DEF Inv, TypeOK
                <5> QED BY <5>1
            <4>5. \A j \in Calls : j # i /\ Begin(j) => value'[i] = value[i]
                BY DEF Begin, BeginCached, BeginFetch, Inv, TypeOK
            <4>6. \A j \in Calls, m \in Metric : j # i /\ Arrive(j, m) => value'[i] = value[i]
                BY DEF Arrive, Evaluate, Inv, TypeOK
            <4>7. \A j \in Calls : TimerFires(j) \/ Wake(j) => value'[i] = value[i]
                BY DEF TimerFires, Wake
            <4>8. \A j \in Calls, m \in Metric : Serve(j, m) => value'[i] = value[i]
                BY DEF Serve
            <4>9. Report \/ UNCHANGED vars => value'[i] = value[i]
                BY DEF Report, vars, callVars
            <4> QED BY <1>3, <4>3, <4>4, <4>5, <4>6, <4>7, <4>8, <4>9
                    DEF Next, CallStep, LoopStep
        <3> QED BY <3>1
    <2>4. CASE Value(i, s) \in Int
        BY <2>1, <2>3, <2>4, RecentSourced
    <2>5. CASE Value(i, s) \notin Int
        <3>1. Value(i, s) \in Blank(i)
            BY <2>2, <2>5 DEF Values, Blank
        <3> QED BY <1>1, <2>1, <2>3, <3>1
    <2> QED BY <2>4, <2>5
<1> QED BY <1>2, <1>3

-----------------------------------------------------------------------------
(* What a call returns, in time or late, is what the node has reported     *)
(* since the call began, or what was cached; only an answer that is not    *)
(* the loop's may be a blank.                                              *)
THEOREM AnswersReported == Spec => []AnswerWasReported
<1>1. Init => AnswerWasReported
    BY DEF Init, AnswerWasReported, NoAnswer
<1>2. Inv /\ SnapInv /\ ValueInv /\ AnswerWasReported /\ [Next]_vars => AnswerWasReported'
    <2> SUFFICES ASSUME Inv, SnapInv, ValueInv, AnswerWasReported, [Next]_vars,
                        NEW i \in Calls, answer'[i].given
                 PROVE  \/ \E s \in [call'[i].reads -> Window(i)'] : answer'[i].v = Value(i, s)'
                        \/ answer'[i].by # "loop" /\ answer'[i].v \in Blank(i)'
        BY DEF AnswerWasReported, Sourced
    <2>1. Blank(i)' = Blank(i)
        BY HistoryGrows DEF Blank
    <2>2. CASE answer'[i] = answer[i]
        <3>1. stage[i] # "idle"
            BY <2>2 DEF Inv, LoopInv
        <3> QED BY <2>1, <2>2, <3>1, SourcedKeeps DEF AnswerWasReported
    <2>3. CASE /\ stage[i] # "idle"
               /\ answer'[i].by \in {"timer", "error"}
               /\ answer'[i].v \in Blank(i) \cup {value[i]}
        <3>1. CASE answer'[i].v \in Blank(i)
            BY <2>1, <2>3, <3>1
        <3>2. CASE answer'[i].v = value[i] /\ Sourced(i, value[i])
            BY <2>3, <3>2, SourcedKeeps
        <3> QED BY <2>3, <3>1, <3>2 DEF ValueInv
    <2>4. CASE \E s \in [Metric -> 0..Len(history)] :
                 /\ Recent(i, s)
                 /\ Satisfied(i, Value(i, s))
                 /\ answer'[i] = Answer(Value(i, s), "loop")
        <3>1. PICK s \in [Metric -> 0..Len(history)] :
                /\ Recent(i, s)
                /\ Satisfied(i, Value(i, s))
                /\ answer'[i] = Answer(Value(i, s), "loop")
            BY <2>4
        <3>2. Value(i, s) \in Int
            BY <3>1 DEF Satisfied, Compare
        <3>3. answer'[i].v = Value(i, s)
            BY <3>1 DEF Answer
        <3> QED BY <3>1, <3>2, <3>3, RecentSourced
    <2> QED BY <2>2, <2>3, <2>4, AnswersNext DEF NewAnswers
<1> QED BY <1>1, <1>2, SnapInit, SnapNext, ValueInit, ValueNext, InvAlways, PTL DEF Spec
=============================================================================
