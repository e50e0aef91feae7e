----------------------------- MODULE MCKubeSpawn -----------------------------
(* KubeSpawn with two nodes and a temporary pod, two at a time.  All of them  *)
(* need the chain spec, the first node has a file of its own before it.       *)
EXTENDS KubeSpawn, TLC

CONSTANTS alice, bob, temp, spec, wasm

MCFiles == (alice :> <<wasm, spec>>) @@ (bob :> <<spec>>) @@ (temp :> <<spec>>)
=============================================================================
