------------------------------ MODULE MCSeries ------------------------------
(* Series on a small instance: seven functions in batches of three, any of *)
(* which may be something other than a function.  The last batch is shorter *)
(* than the others, a failure may come in any position of a batch, and an   *)
(* invalid argument may come before or after a sibling that was started.    *)
EXTENDS Series
=============================================================================
