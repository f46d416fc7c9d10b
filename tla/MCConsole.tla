----------------------------- MODULE MCConsole -----------------------------
(***************************************************************************)
(* The merchant's console: its doors, its orchestrator page and its import *)
(* panel.  They share nothing but the browser, so each behaviour stays in  *)
(* one of them, and the states of the three add up.                        *)
(***************************************************************************)
EXTENDS Sessions, Campaigns, Imports

VARIABLE area

vars == <<area, sessionVars, campaignVars, importVars>>

Init ==
  /\ area \in {"doors", "campaigns", "imports"}
  /\ SessionsInit /\ CampaignsInit /\ ImportsInit
  /\ area # "doors" => cookie = "none"
  /\ area # "imports" => imports = [f \in {} |-> "valid"]

Next ==
  \/ area = "doors" /\ SessionsNext /\ UNCHANGED <<area, campaignVars, importVars>>
  \/ area = "campaigns" /\ CampaignsNext /\ UNCHANGED <<area, sessionVars, importVars>>
  \/ area = "imports" /\ ImportsNext /\ UNCHANGED <<area, sessionVars, campaignVars>>

Spec == Init /\ [][Next]_vars /\ SessionsFairness

=============================================================================
