----------------------------- MODULE Campaigns -----------------------------
(***************************************************************************)
(* A merchant's campaigns: the service (services/campaigns/service.py over *)
(* its repository, no lock between reading a campaign and saving it) and   *)
(* the orchestrator page (apps/web/src/app/merchant/campaigns/page.tsx) in *)
(* several tabs.  All campaigns promote the same products: each conflicts  *)
(* with every other that is approved or active.                            *)
(***************************************************************************)
EXTENDS Naturals, FiniteSets

CONSTANTS
  Consoles,    \* tabs with the page open
  Ids,         \* campaigns that may be proposed
  Faulty,      \* those whose terms the policy engine blocks
  MaxCalls,    \* bound on transitions called for
  MaxRestarts  \* bound on restarts of the gateway

ASSUME CampaignsAssumption ==
  /\ Faulty \subseteq Ids
  /\ MaxCalls \in Nat /\ MaxRestarts \in Nat

VARIABLES
  store,     \* the campaigns saved, as [status, decision]
  calls,     \* handlers running
  called,    \* how many calls were made
  proposed,  \* campaigns proposed so far
  signed,    \* those the merchant's approval was ever saved for
  page,      \* per tab: phase, the list shown, the call waited for
  restarts

campaignVars == <<store, calls, called, proposed, signed, page, restarts>>

Statuses == {"proposed", "review", "approved", "rejected", "active", "paused", "completed"}
Empty == [c \in {} |-> [status |-> "proposed", decision |-> "block"]]

CampaignsInit ==
  /\ store = Empty /\ calls = {} /\ called = 0
  /\ proposed = {} /\ signed = {} /\ restarts = 0
  /\ page = [t \in Consoles |-> [phase |-> "loading", shown |-> Empty, waits |-> 0]]

\* The statuses each transition may start from, and the one it saves.
From == [submit |-> {"proposed"}, approve |-> {"proposed", "review"},
         activate |-> {"approved"}, reject |-> Statuses,
         pause |-> {"active"}, complete |-> {"active", "paused"}]
To == [submit |-> "review", approve |-> "approved", activate |-> "active",
       reject |-> "rejected", pause |-> "paused", complete |-> "completed"]

\* The buttons of a campaign.  Only proposed and approved campaigns, live
\* and paused ones have a place on the page; one in review has none.
Buttons(status) == CASE status = "proposed" -> {"submit", "reject", "approve"}
                     [] status = "approved" -> {"activate"}
                     [] status = "active" -> {"pause", "complete"}
                     [] status = "paused" -> {"complete"}
                     [] OTHER -> {}

Sections == {"proposed", "approved", "active", "paused", "rejected", "completed"}

-----------------------------------------------------------------------------
(* The page *)

Idle(t) == page[t].phase = "loaded" /\ page[t].waits = 0

\* runAction: every control is off until the list was read again.
Call(t, what, c) ==
  /\ Idle(t) /\ called < MaxCalls
  /\ called' = called + 1
  /\ calls' = calls \cup {[n |-> called + 1, what |-> what, id |-> c,
                           step |-> "get", decision |-> "block"]}
  /\ page' = [page EXCEPT ![t].waits = called + 1]
  /\ UNCHANGED <<store, signed, restarts>>

Propose(t, c) ==
  /\ c \notin proposed
  /\ proposed' = proposed \cup {c}
  /\ Call(t, "propose", c)

Click(t, c) ==
  /\ c \in DOMAIN page[t].shown
  /\ \E what \in Buttons(page[t].shown[c].status) : Call(t, what, c)
  /\ UNCHANGED proposed

\* load(): a list that cannot be read empties the page.
ListRead(t) ==
  /\ page[t].phase = "loading"
  /\ page' = [page EXCEPT ![t].phase = "loaded", ![t].shown = store]
  /\ UNCHANGED <<store, calls, called, proposed, signed, restarts>>

ListFails(t) ==
  /\ page[t].phase = "loading"
  /\ page' = [page EXCEPT ![t].phase = "failed", ![t].shown = Empty]
  /\ UNCHANGED <<store, calls, called, proposed, signed, restarts>>

Retry(t) ==
  /\ page[t].phase = "failed"
  /\ page' = [page EXCEPT ![t].phase = "loading"]
  /\ UNCHANGED <<store, calls, called, proposed, signed, restarts>>

\* The call was answered, or its timeout passed while its handler goes on:
\* the list is read again under the old one, and then the controls return.
Returns(t) ==
  /\ page[t].waits # 0
  /\ \/ /\ page' = [page EXCEPT ![t].shown = store, ![t].waits = 0]
     \/ page' = [page EXCEPT ![t].phase = "failed", ![t].shown = Empty, ![t].waits = 0]
  /\ UNCHANGED <<store, calls, called, proposed, signed, restarts>>

-----------------------------------------------------------------------------
(* The service *)

Step(h, changed) == calls' = (calls \ {h}) \cup {changed}
Refused(h) == calls' = calls \ {h}

\* Other campaigns that the policy engine finds in its list.
Conflict(c) == \E o \in DOMAIN store \ {c} : store[o].status \in {"approved", "active"}

\* propose_campaign reads the list for its policy check.
CheckProposal(h) ==
  /\ h.what = "propose" /\ h.step = "get"
  /\ Step(h, [h EXCEPT !.step = "save",
                       !.decision = IF h.id \in Faulty \/ Conflict(h.id)
                                    THEN "block" ELSE "require_approval"])

\* Mutated: an approval does not look at the policy check.
GetCampaignUnblocked(h) ==
  /\ h.what # "propose" /\ h.step = "get"
  /\ IF h.id \notin DOMAIN store \/ store[h.id].status \notin From[h.what]
     THEN Refused(h)
     ELSE Step(h, [h EXCEPT !.step = IF h.what = "activate" THEN "recheck" ELSE "save",
                            !.decision = store[h.id].decision])

\* get_campaign and the refusals on what it returned.
GetCampaign(h) ==
  /\ h.what # "propose" /\ h.step = "get"
  /\ IF \/ h.id \notin DOMAIN store
        \/ store[h.id].status \notin From[h.what]
        \/ h.what = "approve" /\ store[h.id].decision = "block"
     THEN Refused(h)
     ELSE Step(h, [h EXCEPT !.step = IF h.what = "activate" THEN "recheck" ELSE "save",
                            !.decision = store[h.id].decision])

\* activate_campaign: the policy is evaluated again, with the list of now
\* and the discount ceiling of now.
Recheck(h) ==
  /\ h.step = "recheck"
  /\ \/ Refused(h)
     \/ ~Conflict(h.id) /\ Step(h, [h EXCEPT !.step = "save"])

\* The repository replaces the campaign by the copy made from what was read.
Save(h) ==
  LET status == IF h.what = "propose" THEN "proposed" ELSE To[h.what]
  IN /\ h.step = "save"
     /\ store' = [c \in DOMAIN store \cup {h.id} |->
                    IF c = h.id THEN [status |-> status, decision |-> h.decision]
                    ELSE store[c]]
     /\ signed' = IF h.what = "approve" THEN signed \cup {h.id} ELSE signed
     /\ Refused(h)
     /\ UNCHANGED <<called, proposed, page, restarts>>

Handles(h) ==
  \/ /\ CheckProposal(h) \/ GetCampaign(h) \/ Recheck(h)
     /\ UNCHANGED <<store, called, proposed, signed, page, restarts>>
  \/ Save(h)

\* The store is a dictionary of the process where no Redis is configured.
Restart ==
  /\ restarts < MaxRestarts
  /\ restarts' = restarts + 1
  /\ store' = Empty /\ calls' = {}
  /\ UNCHANGED <<called, proposed, signed, page>>

CampaignsNext ==
  \/ \E t \in Consoles :
       \/ \E c \in Ids : Propose(t, c) \/ Click(t, c)
       \/ ListRead(t) \/ ListFails(t) \/ Retry(t) \/ Returns(t)
  \/ \E h \in calls : Handles(h)
  \/ Restart

CampaignsSpec == CampaignsInit /\ [][CampaignsNext]_campaignVars

-----------------------------------------------------------------------------
(* Properties *)

\* "Approval is mandatory" (service.py:375-377): whatever handlers overlap,
\* and whatever stale lists they were called from, no campaign runs, or ever
\* ran, that the merchant's approval was not saved for, nor one whose
\* proposal the policy blocked (page.tsx:39-42).
RunsOnlyApproved ==
  \A c \in DOMAIN store :
    store[c].status \in {"active", "paused", "completed"} =>
      c \in signed /\ store[c].decision # "block"

\* console/campaigns.ts:188-191 tells the operator to approve or reject a
\* campaign submitted for review.  The page lists none that is in review.
ReviewIsListed ==
  \A t \in Consoles : Idle(t) =>
    \A c \in DOMAIN page[t].shown : page[t].shown[c].status \in Sections

\* What the policy engine's CAMPAIGN_CONFLICT is for (policy.py:80-83).  A
\* rejection between the activation's read and its save is written over.
OneRunsAtATime == Cardinality({c \in DOMAIN store : store[c].status = "active"}) <= 1

\* Approved campaigns may be activated (page.tsx:41-42).  Each of two is the
\* conflict that refuses the other's activation, and the page offers neither
\* any other way out.
NoStandoff == Cardinality({c \in DOMAIN store : store[c].status = "approved"}) <= 1

\* A rejection is final: reject_campaign and approve_campaign overlap.
RejectedStays ==
  [][\A c \in DOMAIN store \cap DOMAIN store' :
       store[c].status = "rejected" => store'[c].status = "rejected"]_campaignVars

=============================================================================
