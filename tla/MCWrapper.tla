------------------------------ MODULE MCWrapper ------------------------------
(* Wrapper with two test programs that send three commands between them.       *)
EXTENDS Wrapper

CONSTANTS one, two
=============================================================================
