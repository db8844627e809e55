-------------------------- MODULE RepairAcceptance --------------------------
(***************************************************************************)
(* What the repair loop promises of one benchmark, without its cycles,     *)
(* attempts and programs: a patch is accepted only after its witness was   *)
(* replayed clean and a challenge survived, in that order and for that     *)
(* patch; a setback (a violation, a fresh hypothesis) costs the challenge  *)
(* and the acceptance but never the duty to replay a newer patch.          *)
(***************************************************************************)
CONSTANTS Patches, Unpatched   \* Unpatched \in Patches

VARIABLES
  stage,  \* how far the current patch has come
  patch   \* the variant under test

Stages == {"unpatched", "replaying", "challenging", "challenged", "accepted"}

Init == stage = "unpatched" /\ patch = Unpatched

\* A repair, of the unpatched target or of a patch that was just broken.
Patch ==
  /\ stage \notin {"challenged", "accepted"}
  /\ patch' \in Patches
  /\ stage' = "replaying"

ReplayedClean ==
  /\ stage = "replaying"
  /\ stage' = "challenging"
  /\ UNCHANGED patch

ChallengeSurvived ==
  /\ stage = "challenging"
  /\ stage' = "challenged"
  /\ UNCHANGED patch

Accept ==
  /\ stage = "challenged"
  /\ stage' = "accepted"
  /\ UNCHANGED patch

Setback ==
  /\ stage \in {"challenged", "accepted"}
  /\ stage' = "challenging"
  /\ UNCHANGED patch

Next == Patch \/ ReplayedClean \/ ChallengeSurvived \/ Accept \/ Setback

Spec == Init /\ [][Next]_<<stage, patch>>
=============================================================================
