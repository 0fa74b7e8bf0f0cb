---------------------------- MODULE MCFKPlanner ----------------------------
(***************************************************************************)
(* An instance of FKPlanner for TLC: four tables and every choice of five  *)
(* foreign keys: a chain, a table with two parents, a cycle of two tables  *)
(* with others before and beside it, a table that refers to itself.        *)
(***************************************************************************)
EXTENDS FKPlanner

MCTables == {"accounts", "orders", "items", "returns"}
ForeignKeys == {<<"accounts", "orders">>, <<"orders", "items">>,
                <<"returns", "items">>, <<"items", "orders">>,
                <<"returns", "returns">>}
MCGraphs ==
  {[t \in MCTables |-> {p \in MCTables : <<p, t>> \in keys}] :
     keys \in SUBSET ForeignKeys}
\* Three or four tables in any order, the first one with a second event.
MCEventLists ==
  {Append(s, s[1]) : s \in UNION {SetToSeqs(S) :
     S \in {T \in SUBSET MCTables : Cardinality(T) >= 3}}}
=============================================================================
