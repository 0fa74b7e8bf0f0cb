------------------------------ MODULE MCHandoff ------------------------------
(***************************************************************************)
(* An instance of Handoff for TLC: two tables of one row, the first of     *)
(* which is there from the beginning; they are scanned one after the other.*)
(***************************************************************************)
EXTENDS Handoff

CONSTANTS accounts, orders

MCKeys == {"1"}
MCInitialRows == {<<accounts, "1">>}
MCScanOrder == <<accounts, orders>>
=============================================================================
