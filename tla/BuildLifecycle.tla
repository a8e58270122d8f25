--------------------------- MODULE BuildLifecycle ---------------------------
(***************************************************************************)
(* What StrixLab promises about one machine-local build ID, with no file,  *)
(* lock or process in sight: one canonical record is stored for it, once   *)
(* and for good; the build tree can be had again and again, and is given   *)
(* up only when a successful attempt has attested to the record.           *)
(* BuildCache implements it.                                               *)
(***************************************************************************)
EXTENDS Naturals

VARIABLES producer,     \* the attempt whose canonical record is stored, or 0
          attestor,     \* the attempt that attested to it, or 0
          present       \* the build tree is there to be used

vars == <<producer, attestor, present>>

Init == producer = 0 /\ attestor = 0 /\ present = FALSE

Store ==
  /\ producer = 0
  /\ producer' \in Nat \ {0}
  /\ UNCHANGED <<attestor, present>>

\* The tree just built is released, or one built again after a clean-up.
Release ==
  /\ producer # 0 /\ ~present
  /\ present' = TRUE
  /\ UNCHANGED <<producer, attestor>>

\* An attempt attests to its own record, or to that of an earlier one.
Attest ==
  /\ producer # 0 /\ attestor = 0 /\ present
  /\ attestor' \in Nat \ {0}
  /\ attestor' >= producer
  /\ UNCHANGED <<producer, present>>

GiveUp ==
  /\ present /\ attestor # 0
  /\ present' = FALSE
  /\ UNCHANGED <<producer, attestor>>

Next == Store \/ Release \/ Attest \/ GiveUp

Spec == Init /\ [][Next]_vars
=============================================================================
