------------------------------ MODULE MCMapper ------------------------------
(* Instances of Mapper for TLC: requests and tables are interchangeable.   *)
EXTENDS Mapper, TLC

CONSTANTS r1, r2, r3, orders, items

MCColumns == {"id", "qty"}
MCKeeps == {{"id"}, {"qty"}}
MCPositions == 0..2
MapperSymmetry == Permutations({r1, r2, r3}) \cup Permutations({orders, items})
=============================================================================
