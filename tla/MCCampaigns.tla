----------------------------- MODULE MCCampaigns -----------------------------
(***************************************************************************)
(* What is done on the BOOM worker beside the agent loop: evidence is      *)
(* gathered on the pinned or on the historical checkout (Evidence), or a   *)
(* trace of the historical one is scanned (Witness).  A behaviour has one  *)
(* of the three; an empty core stands for no trace.                        *)
(***************************************************************************)
EXTENDS Evidence, MCWitness

\* The types of whichever is going on.
CampaignTypeOK == TypeOK /\ TraceTypeOK

MCAllCores == MCCores \cup {<<>>}

CampaignInit == Init /\ TraceInit /\ (core # <<>> => campaign = "historical")

CampaignNext ==
  \/ core = <<>> /\ Next /\ UNCHANGED traceVars
  \/ core # <<>> /\ TraceNext /\ UNCHANGED vars

CampaignSpec == CampaignInit /\ [][CampaignNext]_<<vars, traceVars>>
=============================================================================
