--------------------------- MODULE LocalCampaigns ---------------------------
(***************************************************************************)
(* The campaigns of the web tier's own back end (apps/web/src/app/api/     *)
(* [...path]/route.ts): two lists of the process, of campaigns and of audit *)
(* rows, both newest first and both as seeded after a restart.  It has no   *)
(* state machine: every command takes a campaign from any status.           *)
(***************************************************************************)
EXTENDS Naturals, Sequences, SequencesExt

CONSTANTS
  Discounts,   \* percentages that may be asked for
  Usual,       \* the percentage of a proposal that names none
  Threshold,   \* above it a proposal needs a sign-off
  MaxClock,    \* bound on the milliseconds that pass
  MaxRows      \* bound on the audit rows

ASSUME LocalCampaignsAssumption ==
  /\ Discounts \subseteq Nat /\ Usual \in Nat \ {0} /\ Threshold \in Nat
  /\ MaxClock \in Nat /\ MaxRows \in Nat

VARIABLES
  ms,        \* the clock, which names what is made
  campaigns, \* newest first
  trail      \* the audit rows of campaigns and of the failure demonstration, newest first

localCampaignVars == <<ms, campaigns, trail>>

\* A campaign is named after the time it was proposed at.  The seeded ones,
\* all alike, are older than the process.
Seeded == [id |-> 0, status |-> "active", decision |-> "allow", approved |-> FALSE]
\* What the demonstration's rows are about: no campaign.
Trip == MaxClock + 1

LocalCampaignsInit ==
  /\ ms = 1
  /\ campaigns = <<Seeded>> /\ trail = <<>>

Note(about, type, before, after) ==
  [about |-> about, type |-> type, before |-> before, after |-> after]
Logged(rows) == /\ Len(trail) + Len(rows) <= MaxRows
                /\ trail' = rows \o trail

ClockTicks ==
  /\ ms < MaxClock /\ ms' = ms + 1
  /\ UNCHANGED <<campaigns, trail>>

\* What the analytics count; they have no other figure.
Active == {i \in DOMAIN campaigns : campaigns[i].status = "active"}

\* A percentage of zero counts as none.
Asked(discount) == IF discount = 0 THEN Usual ELSE discount

Proposal(discount) ==
  [id |-> ms, status |-> "proposed", approved |-> FALSE,
   decision |-> IF Asked(discount) <= Threshold THEN "allow" ELSE "require_approval"]

\* Mutated: a proposal goes to the end of the list.
AddedLast(camp) == Append(campaigns, camp)

Added(camp) == <<camp>> \o campaigns

Propose ==
  \E d \in Discounts \cup {0} :
    /\ campaigns' = Added(Proposal(d))
    /\ Logged(<<Note(ms, "proposed", "none", "proposed")>>)
    /\ UNCHANGED ms

\* The campaign a path names is the newest with that name.
OfName(id) == {i \in DOMAIN campaigns : campaigns[i].id = id}
Foremost(id) == CHOOSE i \in OfName(id) : \A j \in OfName(id) : i <= j

Becomes == [approve |-> "approved", activate |-> "active", pause |-> "paused",
            complete |-> "completed", reject |-> "rejected", review |-> "review"]

\* A word that is no command leaves the status, and is logged as one.
Commanded(camp, word) ==
  [camp EXCEPT !.status = IF word \in DOMAIN Becomes THEN Becomes[word] ELSE @,
               !.approved = @ \/ word = "approve"]

\* The row's "previous status" is read after the status was changed.
Command(id, word) ==
  /\ OfName(id) # {}
  /\ LET i == Foremost(id)
         camp == Commanded(campaigns[i], word)
     IN /\ campaigns' = [campaigns EXCEPT ![i] = camp]
        /\ Logged(<<Note(id, word, camp.status, camp.status)>>)
  /\ UNCHANGED ms

\* The demonstration of a blocked purchase, and of its release: neither looks
\* at the other.
SimulateFailure ==
  /\ Logged(<<Note(Trip, "evaluated", "none", "blocked"), Note(Trip, "tool", "none", "blocked")>>)
  /\ UNCHANGED <<ms, campaigns>>

ResolveFailure ==
  /\ Logged(<<Note(Trip, "granted", "none", "allowed")>>)
  /\ UNCHANGED <<ms, campaigns>>

RestartTier ==
  /\ campaigns' = <<Seeded>> /\ trail' = <<>>
  /\ UNCHANGED ms

LocalCampaignsNext ==
  \/ ClockTicks \/ Propose \/ SimulateFailure \/ ResolveFailure \/ RestartTier
  \/ \E id \in 0 .. MaxClock, word \in DOMAIN Becomes \cup {"metrics"} : Command(id, word)

LocalCampaignsSpec == LocalCampaignsInit /\ [][LocalCampaignsNext]_localCampaignVars

-----------------------------------------------------------------------------
Newest(about) == SelectInSeq(trail, LAMBDA row : row.about = about)

\* Safety.  What the newest audit row says a campaign has become is what the
\* campaign of that name is, also when two proposals of one millisecond share
\* the name (the unshift of both lists and the findIndex of the lifecycle
\* handler in route.ts).
TrailTellsTheStatus ==
  \A id \in 0 .. MaxClock : Newest(id) # 0 =>
    OfName(id) # {} /\ campaigns[Foremost(id)].status = trail[Newest(id)].after

\* By hand, violated: two proposals of one millisecond have one name, and the
\* older can no longer be reached.
NamesAreUnique == \A i, j \in DOMAIN campaigns : campaigns[i].id = campaigns[j].id => i = j

\* By hand, violated: "requires explicit merchant sign-off" (route.ts), which
\* activation does not ask for.
RunsSignedOff ==
  \A i \in Active : campaigns[i].decision = "allow" \/ campaigns[i].approved

\* By hand, violated: previous_status is always the new status.
ChangesSayWhatWas ==
  [][\A id \in 0 .. MaxClock, word \in DOMAIN Becomes :
       Command(id, word) => trail'[1].before = campaigns[Foremost(id)].status]_localCampaignVars

\* By hand, violated: a release is granted of a purchase nobody blocked.
ReleasesWhatWasBlocked ==
  \A i \in DOMAIN trail : trail[i].type = "granted" =>
    \E j \in i + 1 .. Len(trail) : trail[j].after = "blocked"
=============================================================================
