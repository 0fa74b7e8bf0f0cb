---------------------------- MODULE MCDispatcher ----------------------------
(***************************************************************************)
(* Instances of Dispatcher for TLC.  The log holds a transaction of three  *)
(* changes appended as a whole, then an autocommit change and a second     *)
(* transaction, whose entries arrive one by one.  A group has two events   *)
(* (CDC_MAX_TXN_SIZE = 2) and a batch up to three (CDC_BATCH_SIZE = 3).    *)
(***************************************************************************)
EXTENDS Dispatcher, TLC

MCKeys == {"a", "b", "c", "d", "e"}
MCTxns == {"t1", "t2"}
Entry(key, txn) == [key |-> key, txn |-> txn]

MCLog == <<Entry("a", "t1"), Entry("b", "t1"), Entry("c", "t1"),
           Entry("a", NoTxn), Entry("d", "t2"), Entry("e", "t2")>>

\* What the runner delivers when it reads positions from..to at once.
Read(from, to) ==
  LET raw == [i \in 1..to - from + 1 |->
                [seq |-> from + i - 1, txn |-> MCLog[from + i - 1].txn,
                 tseq |-> 0]]
      tagged == Sequence(raw)
  IN [i \in DOMAIN raw |-> [seq |-> tagged[i].seq, tseq |-> tagged[i].tseq]]

\* The second transaction is read whole, with the change before it, or split
\* between two reads; every read may be repeated after a failure.
MCBatches == {Read(1, 3), Read(4, 6), Read(4, 5), Read(6, 6)}
=============================================================================
