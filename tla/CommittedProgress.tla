------------------------- MODULE CommittedProgress -------------------------
(***************************************************************************)
(* What the offset package promises to a pipeline that restarts, with the  *)
(* mechanism left out.  The target acknowledges source positions, in any   *)
(* order; the committed position follows the acknowledgements forward; a   *)
(* durable copy of it is taken now and then; a restart goes back to that   *)
(* copy and nowhere else.                                                  *)
(*                                                                         *)
(* OffsetStore, the store with its concurrent callers, is shown to         *)
(* implement this module.                                                  *)
(***************************************************************************)
EXTENDS Naturals

CONSTANTS Positions,  \* source positions (log sequence numbers)
          Initial     \* the position the store is created with

VARIABLES acked,      \* positions the target has acknowledged so far
          committed,  \* the position the pipeline resumes after
          durable     \* the position a restart resumes after

vars == <<acked, committed, durable>>

Init ==
  /\ acked = {Initial}
  /\ committed = Initial
  /\ durable = Initial

\* The target acknowledges a position.
Ack(p) ==
  /\ acked' = acked \cup {p}
  /\ UNCHANGED <<committed, durable>>

\* Progress: only forward, and only to an acknowledged position.
Commit(p) ==
  /\ p \in acked
  /\ p > committed
  /\ committed' = p
  /\ UNCHANGED <<acked, durable>>

\* The durable copy catches up with the committed position.
Persist ==
  /\ durable' = committed
  /\ UNCHANGED <<acked, committed>>

\* A restart resumes from the durable copy.
Restart ==
  /\ committed' = durable
  /\ UNCHANGED <<acked, durable>>

Next ==
  \/ \E p \in Positions : Ack(p) \/ Commit(p)
  \/ Persist
  \/ Restart

Spec == Init /\ [][Next]_vars
=============================================================================
