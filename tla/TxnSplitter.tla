---------------------------- MODULE TxnSplitter ----------------------------
(***************************************************************************)
(* internal/parser/txn.go: the tags that carry the order inside a          *)
(* transaction, and the bounded groups delivery works on.  An event is a   *)
(* record with at least a transaction id `txn` (NoTxn for an autocommit    *)
(* change) and the tag `tseq`, 0 when there is none.                       *)
(***************************************************************************)
EXTENDS Naturals, Sequences

NoTxn == ""

(***************************************************************************)
(* Sequence numbers the events of a transaction from 1.  The count starts  *)
(* again at every change of the transaction id, and at every call: it does *)
(* not know what an earlier batch held.  Autocommit events keep their tag  *)
(* and leave the current transaction alone.                                *)
(***************************************************************************)

\* The two locals of Sequence after each event.
Tagging(events) ==
  LET tagging[i \in 0..Len(events)] ==
        IF i = 0 THEN [currentTxn |-> NoTxn, txnSeq |-> 0]
        ELSE LET txn == events[i].txn IN
             IF txn = NoTxn THEN tagging[i - 1]
             ELSE [currentTxn |-> txn,
                   txnSeq |-> IF txn = tagging[i - 1].currentTxn
                              THEN tagging[i - 1].txnSeq + 1 ELSE 1]
  IN tagging

Sequence(events) ==
  [i \in DOMAIN events |->
     IF events[i].txn = NoTxn THEN events[i]
     ELSE [events[i] EXCEPT !.tseq = Tagging(events)[i].txnSeq]]

(***************************************************************************)
(* Split cuts a batch of n events every maxGroup events, wherever its      *)
(* transactions begin and end.  A group is known by the index of its first *)
(* event: the groups are the intervals f..GroupLast(f, n, maxGroup) for f  *)
(* in GroupStarts(n, maxGroup).                                            *)
(***************************************************************************)
GroupStarts(n, maxGroup) == {f \in 1..n : (f - 1) % maxGroup = 0}

GroupLast(f, n, maxGroup) ==
  IF f + maxGroup - 1 > n THEN n ELSE f + maxGroup - 1
=============================================================================
