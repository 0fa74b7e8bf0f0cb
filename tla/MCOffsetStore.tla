--------------------------- MODULE MCOffsetStore ---------------------------
(* Instances of OffsetStore for TLC: the coordinators are interchangeable. *)
EXTENDS OffsetStore, TLC

CONSTANTS c1, c2

CoordinatorSymmetry == Permutations(Coordinators)
=============================================================================
