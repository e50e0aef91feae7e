---------------------------- MODULE MCKubeCleaner ----------------------------
(* KubeCleaner with the intervals of the code, in half minutes, and a short   *)
(* day.                                                                       *)
EXTENDS KubeCleaner

CONSTANTS u1, u2

ASSUME InTime
=============================================================================
