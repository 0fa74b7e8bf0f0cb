------------------------------- MODULE MCSink -------------------------------
(***************************************************************************)
(* An instance of Sink for TLC: accounts, orders and items with the two    *)
(* foreign keys of main.go:27-30, one account in the snapshot, an account  *)
(* inserted, updated and deleted, and children of each kind of reference.  *)
(***************************************************************************)
EXTENDS Sink

MCTables == {"accounts", "orders", "items"}
MCKeys == {"1", "2"}
MCEdges == {[parent |-> "accounts", child |-> "orders"],
            [parent |-> "orders", child |-> "items"]}
MCSnapshotRows == {<<"accounts", "1">>}

Missing == [t \in MCTables |-> "missing"]
Event(seq, table, key, op, ref) ==
  [seq |-> seq, table |-> table, key |-> key, op |-> op, ref |-> ref]

MCEvents ==
  {Event(1, "accounts", "2", "insert", Missing),
   Event(2, "accounts", "2", "delete", Missing),
   Event(3, "orders", "1", "insert", [Missing EXCEPT !["accounts"] = "2"]),
   Event(4, "items", "1", "insert", Missing),
   Event(5, "orders", "1", "delete", Missing),
   Event(6, "orders", "2", "update", [Missing EXCEPT !["accounts"] = "null"])}
=============================================================================
