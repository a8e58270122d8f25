----------------------------- MODULE MCCampaign -----------------------------
(* Instances of Campaign for TLC. *)
EXTENDS Campaign

CONSTANTS c1, c2

\* Two candidates: the second is let in whatever becomes of the first.
TwoCandidates == <<c1, c2>>

OneCandidate == <<c1>>
=============================================================================
