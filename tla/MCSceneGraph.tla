--------------------------- MODULE MCSceneGraph ---------------------------
(* SceneGraph for TLC: symmetric addresses, and list::remove against the   *)
(* standard filter on every list of up to four pointers.                   *)
EXTENDS SceneGraph, TLC

AddressSymmetry == Permutations(Nodes)

\* Without is what list::remove does: the filter that drops one pointer.
ASSUME WithoutIsFilter ==
    \A len \in 0..4 : \A s \in [1..len -> {1, 2, 3}] : \A x \in {1, 2, 3, 4} :
        Without(s, x) = SelectSeq(s, LAMBDA y : y # x)
===========================================================================
