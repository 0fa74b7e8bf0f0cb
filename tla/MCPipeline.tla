----------------------------- MODULE MCPipeline -----------------------------
(***************************************************************************)
(* Instances of Pipeline for TLC: autocommit changes, two of them of one   *)
(* row, between and after two changes of a transaction.                    *)
(***************************************************************************)
EXTENDS Pipeline, TLC

MCKeys == {"a", "b", "c"}
MCTxns == {"t"}
Entry(key, txn) == [key |-> key, txn |-> txn]
MCLog == <<Entry("a", "t"), Entry("b", NoTxn),
           Entry("c", "t"), Entry("b", NoTxn)>>
NoRefusals == {{}}
MCRefusals == {{}, {2}, {4}}
=============================================================================
