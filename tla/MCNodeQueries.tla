---------------------------- MODULE MCNodeQueries ----------------------------
(* NodeQueries with two metrics and two calls, of every kind and in any order.  *)
EXTENDS NodeQueries

CONSTANTS a, b

MCReports == {[m \in {a, b} |-> IF m = a THEN l ELSE 1] : l \in {0, 1}}

MCQuery == {
    [kind |-> "metric", reads |-> {a}, op |-> "isAbove", target |-> 0],
    [kind |-> "fresh", reads |-> {a}, op |-> "isAtLeast", target |-> 1],
    [kind |-> "calc", reads |-> {a, b}, op |-> "equal", target |-> 0],
    [kind |-> "histogram", reads |-> {a}, op |-> "isAtLeast", target |-> 1],
    [kind |-> "count", reads |-> {a}, op |-> "notEqual", target |-> 1] }
=============================================================================
