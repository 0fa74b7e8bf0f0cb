------------------------------- MODULE Target -------------------------------
(***************************************************************************)
(* What a target store promises to the dispatcher (the Sink interface,     *)
(* sink.go:24-27): a write is answered once it is decided, an accepted     *)
(* event is applied exactly once however often it is offered, and a        *)
(* refused one is not applied, so that it can be offered again.            *)
(*                                                                         *)
(* Dispatcher takes its target to behave like this; Sink implements it.    *)
(***************************************************************************)
EXTENDS Sequences, Naturals

CONSTANT Events       \* what can be written

VARIABLES applied,    \* the events applied, in order
          answers     \* the last answer: the event written and the verdict

vars == <<applied, answers>>

Known(e) == \E i \in DOMAIN applied : applied[i] = e

Init ==
  /\ applied = <<>>
  /\ answers = {}

Accept(e) ==
  /\ applied' = IF Known(e) THEN applied ELSE Append(applied, e)
  /\ answers' = {[event |-> e, ok |-> TRUE]}

Refuse(e) ==
  /\ ~Known(e)
  /\ answers' = {[event |-> e, ok |-> FALSE]}
  /\ UNCHANGED applied

Next == \E e \in Events : Accept(e) \/ Refuse(e)

Spec == Init /\ [][Next]_vars
=============================================================================
