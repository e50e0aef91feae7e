------------------------------- MODULE MCPorts -------------------------------
(* Ports with three calls for two ports.  A lease of two ticks, with one tick *)
(* each for a probe and a spawn, is exactly in time; within five ticks a port *)
(* is leased again after its lease ended; two probes make a call give up.     *)
EXTENDS Ports

CONSTANTS c1, c2, c3, p1, p2
=============================================================================
