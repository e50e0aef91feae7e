----------------------------- MODULE MCLifecycle -----------------------------
(* Lifecycle on small networks.  The first relay node is spawned alone, as    *)
(* start() does; bob and charlie may form a batch of two, so that one may     *)
(* fail or be overtaken by a teardown while the other is at any point of its  *)
(* spawn; dave and eve are the collators of a last phase, which could be      *)
(* begun with one of bob and charlie on its way.  Two signals and the timeout *)
(* give every order of three terminations next to the catch block.            *)
EXTENDS Lifecycle, TLC

CONSTANTS alice, bob, charlie, dave, eve, sig1, sig2

MCPhases == <<{alice}, {bob, charlie}, {dave, eve}>>
MCRelay == <<{alice}, {bob, charlie}>>

\* The two nodes of a phase, and the two signals, are interchangeable.
MCSymmetry == {p @@ q @@ r : p \in Permutations({bob, charlie}),
                             q \in Permutations({dave, eve}),
                             r \in Permutations({sig1, sig2})}
=============================================================================
