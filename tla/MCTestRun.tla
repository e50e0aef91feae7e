------------------------------ MODULE MCTestRun ------------------------------
(* TestRun with two nodes: a restart of both, then of each again, so that it   *)
(* may meet what is left of the first, and a test of every other kind.         *)
EXTENDS TestRun

CONSTANTS a, b

MCTest == <<
    [kind |-> "restart", nodes |-> {a, b}],
    [kind |-> "restart", nodes |-> {b}],
    [kind |-> "signal", nodes |-> {a, b}],
    [kind |-> "restart", nodes |-> {a, b}],
    [kind |-> "assert", nodes |-> {a}] >>
=============================================================================
