---------------------------- MODULE RunLifecycle ----------------------------
(***************************************************************************)
(* What StrixLab promises about one run, with no file, lock or process in  *)
(* sight: a run is opened once, at most one terminal outcome is decided    *)
(* for it, the immutable record carries that outcome, and the run is       *)
(* closed (its live tree given up) only when record and index are durable. *)
(* Nothing is ever taken back.  RunEvidence implements it.                 *)
(***************************************************************************)
CONSTANT Outcomes               \* RunOutcome: SUCCESS, FAILURE, INTERRUPTED

VARIABLES phase,                \* how far the run has durably come
          outcome               \* the outcome it has, or "none"

vars == <<phase, outcome>>

Init == phase = "unborn" /\ outcome = "none"

\* The live tree exists durably, with no terminal event.
Open ==
  /\ phase = "unborn"
  /\ phase' = "open"
  /\ UNCHANGED outcome

\* The terminal event is durable, perhaps by the same sync as the tree.
Decide(o) ==
  /\ phase \in {"unborn", "open"}
  /\ phase' = "decided"
  /\ outcome' = o

\* The immutable record is durable.  A decided outcome is the record's; a
\* run whose live tree was never made durable goes straight to its record.
Seal(o) ==
  /\ phase \in {"unborn", "open", "decided"}
  /\ outcome \in {"none", o}
  /\ phase' = "sealed"
  /\ outcome' = o

\* The index is durable too and the live tree is gone for good.
Close ==
  /\ phase = "sealed"
  /\ phase' = "closed"
  /\ UNCHANGED outcome

Next == Open \/ Close \/ \E o \in Outcomes : Decide(o) \/ Seal(o)

Spec == Init /\ [][Next]_vars
=============================================================================
