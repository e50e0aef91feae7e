---------------------------- MODULE MCBackchannel ----------------------------
(* Backchannel with two keys and two websockets that also write, over a ring  *)
(* of two messages.  The client of c2 may stop reading at any point and stay; *)
(* that of c1 does not.  Three insertions let the two swap their broadcasts   *)
(* of a key, a write fall between the reading of the map and the              *)
(* subscription, and either connection lag behind.  A POST does what a        *)
(* websocket that writes does, and cannot end in between; none is added.      *)
EXTENDS Backchannel

CONSTANTS k1, k2, c1, c2
=============================================================================
