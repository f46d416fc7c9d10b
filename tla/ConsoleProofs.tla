---------------------------- MODULE ConsoleProofs ----------------------------
(***************************************************************************)
(* What the merchant's console keeps: no campaign runs without the         *)
(* merchant's approval, and a catalogue that was published once stays      *)
(* published, for any campaigns, consoles, panels, files, overlapping      *)
(* handlers, discards, deaths and restarts.                                *)
(***************************************************************************)
EXTENDS Campaigns, Imports, FiniteSetTheorems, TLAPS

-----------------------------------------------------------------------------
(* Campaigns *)

Campaign == [status : Statuses, decision : {"block", "require_approval"}]
Handler == [n : Nat \ {0}, what : {"propose"} \cup DOMAIN To, id : Ids,
            step : {"get", "recheck", "save"}, decision : {"block", "require_approval"}]
Lists(f) == DOMAIN f \subseteq Ids /\ f \in [DOMAIN f -> Campaign]

\* What the proof needs of the types.
ServiceTypes == called \in Nat /\ Lists(store) /\ calls \subseteq Handler

\* An approved campaign was signed, and not blocked, as one that runs.
ApprovedIsSigned ==
  \A c \in DOMAIN store :
    store[c].status \in {"approved", "active", "paused", "completed"} =>
      c \in signed /\ store[c].decision # "block"

\* What a handler read before it saves may be stale, but the approval it saw
\* is never taken back, and it saves the policy's decision it read with it.
ReadWasSigned ==
  \A h \in calls : h.step # "get" =>
    /\ h.what \in {"activate", "pause", "complete"} => h.id \in signed
    /\ h.what \in {"approve", "activate", "pause", "complete"} => h.decision # "block"

CampaignsInv == ServiceTypes /\ ApprovedIsSigned /\ ReadWasSigned

\* A handler that ends without saving.
LEMMA RefusedKeeps ==
  ASSUME CampaignsInv, NEW h \in calls, Refused(h), UNCHANGED <<store, called, signed>>
  PROVE  CampaignsInv'
BY DEF CampaignsInv, ServiceTypes, ApprovedIsSigned, ReadWasSigned, Refused, Lists

\* A handler that goes on with what it read.
LEMMA StepKeeps ==
  ASSUME CampaignsInv, NEW h \in calls, NEW changed \in Handler, Step(h, changed),
         UNCHANGED <<store, called, signed>>,
         changed.what \in {"activate", "pause", "complete"} => changed.id \in signed,
         changed.what \in {"approve", "activate", "pause", "complete"} =>
           changed.decision # "block"
  PROVE  CampaignsInv'
BY DEF CampaignsInv, ServiceTypes, ApprovedIsSigned, ReadWasSigned, Step, Lists

LEMMA CheckProposalKeeps ==
  ASSUME CampaignsInv, NEW h \in calls, CheckProposal(h), UNCHANGED <<store, called, signed>>
  PROVE  CampaignsInv'
<1> DEFINE decision == IF h.id \in Faulty \/ Conflict(h.id) THEN "block" ELSE "require_approval"
           changed == [h EXCEPT !.step = "save", !.decision = decision]
<1>1. h \in Handler
  BY DEF CampaignsInv, ServiceTypes
<1>2. decision \in {"block", "require_approval"}
  OBVIOUS
<1> HIDE DEF decision
<1>3. changed \in Handler /\ changed.what = h.what
  BY <1>1, <1>2 DEF Handler
<1>4. Step(h, changed) /\ h.what = "propose"
  BY DEF CheckProposal, decision
<1> HIDE DEF changed
<1> QED BY <1>3, <1>4, StepKeeps

LEMMA GetCampaignKeeps ==
  ASSUME CampaignsInv, NEW h \in calls, GetCampaign(h), UNCHANGED <<store, called, signed>>
  PROVE  CampaignsInv'
<1> DEFINE refused == \/ h.id \notin DOMAIN store
                      \/ store[h.id].status \notin From[h.what]
                      \/ h.what = "approve" /\ store[h.id].decision = "block"
           step == IF h.what = "activate" THEN "recheck" ELSE "save"
           changed == [h EXCEPT !.step = step, !.decision = store[h.id].decision]
<1>1. h \in Handler /\ h.what # "propose"
  BY DEF CampaignsInv, ServiceTypes, GetCampaign
<1>2. CASE refused
  BY <1>2, RefusedKeeps DEF GetCampaign
<1>3. CASE ~refused
  <2>1. Step(h, changed)
    BY <1>3 DEF GetCampaign
  <2>2. store[h.id] \in Campaign /\ store[h.id].status \in From[h.what]
    BY <1>3 DEF CampaignsInv, ServiceTypes, Lists
  <2>3. changed \in Handler /\ changed.what = h.what /\ changed.id = h.id
        /\ changed.decision = store[h.id].decision
    BY <1>1, <2>2 DEF Handler, Campaign
  <2>4. h.what \in {"activate", "pause", "complete"} =>
          store[h.id].status \in {"approved", "active", "paused"}
    BY <2>2 DEF From
  <2>5. /\ h.what \in {"activate", "pause", "complete"} => h.id \in signed
        /\ h.what \in {"approve", "activate", "pause", "complete"} =>
             store[h.id].decision # "block"
    BY <1>3, <2>4 DEF CampaignsInv, ApprovedIsSigned
  <2> HIDE DEF changed
  <2> QED BY <2>1, <2>3, <2>5, StepKeeps
<1> QED BY <1>2, <1>3

LEMMA RecheckKeeps ==
  ASSUME CampaignsInv, NEW h \in calls, Recheck(h), UNCHANGED <<store, called, signed>>
  PROVE  CampaignsInv'
<1> DEFINE changed == [h EXCEPT !.step = "save"]
<1>1. h \in Handler
  BY DEF CampaignsInv, ServiceTypes
<1>2. changed \in Handler /\ changed.what = h.what /\ changed.id = h.id
      /\ changed.decision = h.decision
  BY <1>1 DEF Handler
<1>3. /\ h.what \in {"activate", "pause", "complete"} => h.id \in signed
      /\ h.what \in {"approve", "activate", "pause", "complete"} => h.decision # "block"
  BY DEF Recheck, CampaignsInv, ReadWasSigned
<1>4. Refused(h) \/ Step(h, changed)
  BY DEF Recheck
<1> HIDE DEF changed
<1> QED BY <1>2, <1>3, <1>4, RefusedKeeps, StepKeeps

LEMMA SaveKeeps ==
  ASSUME CampaignsInv, NEW h \in calls, Save(h)
  PROVE  CampaignsInv'
<1> DEFINE status == IF h.what = "propose" THEN "proposed" ELSE To[h.what]
           new == [status |-> status, decision |-> h.decision]
<1>1. h \in Handler /\ h.step = "save"
  BY DEF CampaignsInv, ServiceTypes, Save
<1>2. /\ store' = [c \in DOMAIN store \cup {h.id} |-> IF c = h.id THEN new ELSE store[c]]
      /\ signed' = IF h.what = "approve" THEN signed \cup {h.id} ELSE signed
      /\ calls' = calls \ {h} /\ called' = called
  BY DEF Save, Refused
<1>3. status \in Statuses
  BY <1>1 DEF Handler, To, Statuses
<1>4. status \in {"approved", "active", "paused", "completed"} =>
        h.what \in {"approve", "activate", "pause", "complete"}
  BY <1>1 DEF Handler, To
<1>5. new \in Campaign /\ h.id \in Ids /\ new.status = status /\ new.decision = h.decision
  BY <1>1, <1>3 DEF Campaign, Handler
<1>6. status \in {"approved", "active", "paused", "completed"} =>
        h.id \in signed' /\ h.decision # "block"
  BY <1>1, <1>2, <1>4 DEF CampaignsInv, ReadWasSigned
<1>7. DOMAIN store' = DOMAIN store \cup {h.id}
      /\ \A c \in DOMAIN store' : store'[c] = IF c = h.id THEN new ELSE store[c]
  BY <1>2
<1> HIDE DEF new
<1>8. ServiceTypes'
  <2>1. \A c \in DOMAIN store' : store'[c] \in Campaign
    BY <1>5, <1>7 DEF CampaignsInv, ServiceTypes, Lists
  <2>2. store' \in [DOMAIN store' -> Campaign]
    BY <1>2, <2>1
  <2> QED BY <1>2, <1>5, <1>7, <2>2 DEF CampaignsInv, ServiceTypes, Lists
<1>9. ApprovedIsSigned'
  BY <1>2, <1>5, <1>6, <1>7 DEF CampaignsInv, ApprovedIsSigned
<1>10. ReadWasSigned'
  BY <1>2 DEF CampaignsInv, ReadWasSigned
<1> QED BY <1>8, <1>9, <1>10 DEF CampaignsInv

\* A page's call starts a handler that has read nothing yet.
LEMMA CallKeeps ==
  ASSUME CampaignsInv, NEW t \in Consoles,
         NEW what \in {"propose"} \cup DOMAIN To, NEW c \in Ids, Call(t, what, c)
  PROVE  CampaignsInv'
<1> DEFINE h == [n |-> called + 1, what |-> what, id |-> c, step |-> "get",
                 decision |-> "block"]
<1>1. h \in Handler /\ h.step = "get"
  BY DEF Handler, CampaignsInv, ServiceTypes
<1>2. calls' = calls \cup {h} /\ called' \in Nat /\ UNCHANGED <<store, signed>>
  BY DEF Call, CampaignsInv, ServiceTypes
<1> QED BY <1>1, <1>2 DEF CampaignsInv, ServiceTypes, ApprovedIsSigned, ReadWasSigned, Lists

\* Whatever handlers overlap and whatever stale lists they were called from,
\* no campaign runs, or ever ran, that the merchant did not approve or that
\* the policy blocked.
THEOREM CampaignsRunApproved == CampaignsSpec => []RunsOnlyApproved
<1>1. CampaignsInit => CampaignsInv
  <2> SUFFICES ASSUME CampaignsInit PROVE CampaignsInv
    OBVIOUS
  <2>1. DOMAIN store = {} /\ store \in [{} -> Campaign]
    BY DEF CampaignsInit, Empty
  <2> QED BY <2>1 DEF CampaignsInit, CampaignsInv, ServiceTypes, ApprovedIsSigned,
                      ReadWasSigned, Lists
<1>2. CampaignsInv /\ [CampaignsNext]_campaignVars => CampaignsInv'
  <2> SUFFICES ASSUME CampaignsInv, [CampaignsNext]_campaignVars PROVE CampaignsInv'
    OBVIOUS
  <2>1. CASE UNCHANGED <<store, calls, called, signed>>
    BY <2>1 DEF CampaignsInv, ServiceTypes, ApprovedIsSigned, ReadWasSigned, Lists
  <2>2. ASSUME NEW t \in Consoles, NEW c \in Ids, Propose(t, c) PROVE CampaignsInv'
    BY <2>2, CallKeeps DEF Propose
  <2>3. ASSUME NEW t \in Consoles, NEW c \in Ids, Click(t, c) PROVE CampaignsInv'
    <3>1. PICK what \in Buttons(page[t].shown[c].status) : Call(t, what, c)
      BY <2>3 DEF Click
    <3>2. what \in DOMAIN To
      BY <3>1 DEF Buttons, To
    <3> QED BY <3>1, <3>2, CallKeeps
  <2>4. ASSUME NEW t \in Consoles, ListRead(t) \/ ListFails(t) \/ Retry(t) \/ Returns(t)
        PROVE  UNCHANGED <<store, calls, called, signed>>
    BY <2>4 DEF ListRead, ListFails, Retry, Returns
  <2>5. ASSUME NEW h \in calls, Handles(h) PROVE CampaignsInv'
    BY <2>5, CheckProposalKeeps, GetCampaignKeeps, RecheckKeeps, SaveKeeps DEF Handles
  <2>6. CASE Restart
    <3>1. store' = Empty /\ calls' = {} /\ UNCHANGED <<called, signed>>
      BY <2>6 DEF Restart
    <3>2. DOMAIN store' = {} /\ store' \in [{} -> Campaign]
      BY <3>1 DEF Empty
    <3> QED BY <3>1, <3>2 DEF CampaignsInv, ServiceTypes, ApprovedIsSigned, ReadWasSigned, Lists
  <2>7. CASE UNCHANGED campaignVars
    BY <2>1, <2>7 DEF campaignVars
  <2> QED BY <2>1, <2>2, <2>3, <2>4, <2>5, <2>6, <2>7 DEF CampaignsNext
<1>3. CampaignsInv => RunsOnlyApproved
  BY DEF CampaignsInv, ApprovedIsSigned, RunsOnlyApproved
<1> QED BY <1>1, <1>2, <1>3, PTL DEF CampaignsSpec

-----------------------------------------------------------------------------
(* Imports *)

Names == Files \cup {"none"}
Status == {"pending", "valid", "invalid", "published"}
Version == [of : Names, status : {"published", "superseded"}]
ACommand == [n : Nat, tab : Panels, what : {"upload", "validate", "publish", "rollback"},
             file : Names, saw : SUBSET Nat, live : BOOLEAN,
             step : {"check", "write", "commit", "done", "failed", "rows", "finish"}]
APanel == [file : Names, status : Status \cup {"none"}, rows : Names,
           phase : {"idle", "uploading", "validating", "publishing", "done", "error"}]

\* The types, of the table of versions apart.
Types == /\ imports \in [DOMAIN imports -> Status]
         /\ commands \subseteq ACommand
         /\ given \in Nat
         /\ panel \in [Panels -> APanel]

\* The versions are numbered from one, and one of them alone is published.
Numbered == \E n \in Nat : versions \in [1 .. n -> Version]
OneOnline == DOMAIN versions # {} => \E v \in DOMAIN versions : Published = {v}

ImportsInv == Types /\ Numbered /\ OneOnline

\* A publication that commits supersedes every version that was published,
\* or the unique index refuses it.
LEMMA CommitKeepsOnline ==
  ASSUME Numbered, OneOnline, commands \subseteq ACommand, NEW k \in commands, Commit(k)
  PROVE  Numbered' /\ OneOnline'
<1>1. CASE UNCHANGED versions
  BY <1>1 DEF Numbered, OneOnline, Published
<1>2. CASE Published \subseteq k.saw
  <2>1. PICK n \in Nat : versions \in [1 .. n -> Version]
    BY DEF Numbered
  <2>2. DOMAIN versions = 1 .. n /\ Cardinality(1 .. n) = n
    BY <2>1, FS_Interval
  <2> DEFINE new == [of |-> k.file, status |-> "published"]
  <2>3. versions' = [v \in 1 .. n + 1 |-> IF v \in 1 .. n THEN Superseded(k.saw)[v] ELSE new]
    BY <1>2, <2>2 DEF Commit
  <2>4. k.file \in Names
    BY DEF ACommand
  <2>5. ASSUME NEW v \in 1 .. n
        PROVE  Superseded(k.saw)[v] \in Version /\ Superseded(k.saw)[v].status # "published"
    <3>1. versions[v] \in Version
      BY <2>1
    <3>2. CASE v \in k.saw
      <4>1. Superseded(k.saw)[v] = [versions[v] EXCEPT !.status = "superseded"]
        BY <2>2, <3>2 DEF Superseded
      <4> QED BY <3>1, <4>1 DEF Version
    <3>3. CASE v \notin k.saw
      <4>1. Superseded(k.saw)[v] = versions[v]
        BY <2>2, <3>3 DEF Superseded
      <4>2. v \notin Published
        BY <1>2, <3>3
      <4> QED BY <2>2, <3>1, <4>1, <4>2 DEF Published
    <3> QED BY <3>2, <3>3
  <2>6. \A v \in 1 .. n + 1 : versions'[v] = IF v \in 1 .. n THEN Superseded(k.saw)[v] ELSE new
    BY <2>3
  <2>7. new \in Version /\ new.status = "published"
    BY <2>4 DEF Version
  <2> HIDE DEF new
  <2>8. versions' \in [1 .. n + 1 -> Version]
    BY <2>3, <2>5, <2>7
  <2>9. DOMAIN versions' = 1 .. n + 1
    BY <2>8
  <2>10. Published' = {n + 1}
    BY <2>1, <2>5, <2>6, <2>7, <2>9 DEF Published
  <2> QED BY <2>1, <2>8, <2>9, <2>10 DEF Numbered, OneOnline
<1> QED BY <1>1, <1>2 DEF Commit

\* A command that moves on stays a command.
LEMMA MovesKeepsCommands ==
  ASSUME commands \subseteq ACommand, NEW k \in commands,
         NEW step \in {"write", "commit", "done", "failed", "rows", "finish"},
         NEW saw \in SUBSET Nat, Moves(k, step, saw)
  PROVE  commands' \subseteq ACommand
<1>1. [k EXCEPT !.step = step, !.saw = saw] \in ACommand
  BY DEF ACommand
<1> QED BY <1>1 DEF Moves

\* A page's command starts from what its panel shows.
LEMMA GivesKeepsTypes ==
  ASSUME Types, NEW t \in Panels, NEW f \in Names, NEW shows \in APanel,
         NEW what \in {"upload", "validate", "publish", "rollback"}, Gives(t, what, f, shows)
  PROVE  Types' /\ UNCHANGED versions
<1>1. Command(t, what, f, {}) \in ACommand /\ given + 1 \in Nat
  BY DEF Command, ACommand, Types
<1> QED BY <1>1 DEF Gives, Types

LEMMA BusyTyped ==
  ASSUME Types, NEW t \in Panels, NEW phase \in {"validating", "publishing"}
  PROVE  Busy(t, phase) \in APanel /\ panel[t].file \in Names
BY DEF Busy, Types, APanel

\* The pages' steps leave the versions and keep the types.
LEMMA PanelSteps ==
  ASSUME Types,
         \E t \in Panels : (\E f \in Files : Upload(t, f)) \/ Validate(t) \/ Publish(t) \/ Discard(t)
  PROVE  Types' /\ UNCHANGED versions
<1> PICK t \in Panels :
       (\E f \in Files : Upload(t, f)) \/ Validate(t) \/ Publish(t) \/ Discard(t)
  OBVIOUS
<1>1. ASSUME NEW f \in Files, Upload(t, f) PROVE Types' /\ UNCHANGED versions
  <2>1. [NoImport EXCEPT !.phase = "uploading"] \in APanel
    BY DEF NoImport, APanel, Names
  <2> QED BY <1>1, <2>1, GivesKeepsTypes DEF Upload, Names
<1>2. CASE Validate(t)
  BY <1>2, BusyTyped, GivesKeepsTypes DEF Validate
<1>3. CASE Publish(t)
  BY <1>3, BusyTyped, GivesKeepsTypes DEF Publish
<1>4. CASE Discard(t)
  <2>1. panel[t] \in APanel /\ panel[t].file \in Names
    BY DEF Types, APanel
  <2> QED BY <1>4, <2>1, GivesKeepsTypes DEF Discard
<1> QED BY <1>1, <1>2, <1>3, <1>4

\* The page's continuations leave the versions and keep the types.
LEMMA AnswerSteps ==
  ASSUME Types, NEW k \in commands,
         Succeeded(k) \/ RefreshFails(k) \/ RowsFail(k) \/ RowsRead(k) \/ Failed(k)
           \/ GivesUp(k) \/ EndsUnseen(k)
  PROVE  Types' /\ UNCHANGED versions
<1>1. /\ k \in ACommand /\ k.tab \in Panels /\ k.file \in Names
      /\ panel[k.tab] \in APanel
  BY DEF Types, ACommand
<1>2. CASE Succeeded(k)
  <2>1. CASE k.what = "upload"
    <3>1. [file |-> k.file, status |-> "pending", rows |-> "none", phase |-> "done"] \in APanel
      BY <1>1 DEF APanel, Status, Names
    <3>2. commands' \subseteq ACommand
      BY <1>2, <2>1, MovesKeepsCommands DEF Succeeded, Types
    <3> QED BY <1>1, <1>2, <2>1, <3>1, <3>2 DEF Succeeded, Types
  <2>2. CASE k.what \in {"validate", "publish"}
    <3>1. commands' \subseteq ACommand
      BY <1>2, <2>2, MovesKeepsCommands DEF Succeeded, Types
    <3>2. panel' \in [Panels -> APanel]
      BY <1>1, <1>2, <2>2 DEF Succeeded, Types, APanel
    <3> QED BY <1>2, <3>1, <3>2 DEF Succeeded, Types
  <2>3. CASE k.what \notin {"upload", "validate", "publish"}
    <3>1. NoImport \in APanel
      BY DEF NoImport, APanel, Names
    <3> QED BY <1>1, <1>2, <2>3, <3>1 DEF Succeeded, Types
  <2> QED BY <2>1, <2>2, <2>3
<1>3. CASE RefreshFails(k) \/ RowsFail(k)
  <2>1. commands' \subseteq ACommand
    BY <1>3, MovesKeepsCommands DEF RefreshFails, RowsFail, Types
  <2> QED BY <1>3, <2>1 DEF RefreshFails, RowsFail, Types
<1>4. CASE RowsRead(k)
  <2>1. panel' \in [Panels -> APanel]
    BY <1>1, <1>4 DEF RowsRead, Types, APanel
  <2> QED BY <1>4, <2>1 DEF RowsRead, Types
<1>5. CASE Failed(k)
  <2>1. panel' \in [Panels -> APanel]
    BY <1>1, <1>5 DEF Failed, Types, APanel
  <2> QED BY <1>5, <2>1 DEF Failed, Types
<1>6. CASE GivesUp(k)
  <2>1. panel' \in [Panels -> APanel]
    BY <1>1, <1>6 DEF GivesUp, Types, APanel
  <2>2. [k EXCEPT !.live = FALSE] \in ACommand
    BY <1>1 DEF ACommand
  <2> QED BY <1>6, <2>1, <2>2 DEF GivesUp, Types
<1>7. CASE EndsUnseen(k)
  BY <1>7 DEF EndsUnseen, Types
<1> QED BY <1>2, <1>3, <1>4, <1>5, <1>6, <1>7

\* The handlers' steps keep the types; only a commit writes versions.
LEMMA HandlerSteps ==
  ASSUME Types, Numbered, NEW k \in commands, Check(k) \/ Write(k) \/ Dies(k) \/ Commit(k)
  PROVE  Types' /\ (~Commit(k) => UNCHANGED versions)
<1>1. k \in ACommand /\ k.file \in Names
  BY DEF Types, ACommand
<1>2. Published \in SUBSET Nat
  BY DEF Numbered, Published
<1>3. ASSUME \E step \in {"write", "commit", "done", "failed"}, saw \in {{}, Published} :
                Moves(k, step, saw)
      PROVE  commands' \subseteq ACommand
  BY <1>2, <1>3, MovesKeepsCommands DEF Types
<1>4. CASE Check(k)
  <2>1. commands' \subseteq ACommand
    BY <1>3, <1>4 DEF Check
  <2>2. imports' \in [DOMAIN imports' -> Status]
    BY <1>4 DEF Check, Types, Status
  <2> QED BY <1>4, <2>1, <2>2 DEF Check, Types
<1>5. CASE Write(k)
  <2>1. commands' \subseteq ACommand
    BY <1>3, <1>5 DEF Write
  <2>2. imports' \in [DOMAIN imports' -> Status]
    BY <1>5 DEF Write, Types, Status, Checked
  <2> QED BY <1>5, <2>1, <2>2 DEF Write, Types
<1>6. CASE Dies(k)
  <2>1. commands' \subseteq ACommand
    BY <1>3, <1>6 DEF Dies
  <2> QED BY <1>6, <2>1 DEF Dies, Types
<1>7. CASE Commit(k)
  <2>1. commands' \subseteq ACommand
    BY <1>3, <1>7 DEF Commit
  <2>2. imports' \in [DOMAIN imports' -> Status]
    BY <1>7 DEF Commit, Types, Status
  <2> QED BY <1>7, <2>1, <2>2 DEF Commit, Types
<1> QED BY <1>4, <1>5, <1>6, <1>7

\* Once a catalogue was published, one version is online.
THEOREM CatalogIsKeptOnline == ImportsSpec => []CatalogStaysOnline
<1>1. ImportsInit => ImportsInv
  <2> SUFFICES ASSUME ImportsInit PROVE ImportsInv
    OBVIOUS
  <2>1. PICK held \in [Panels -> Files \cup {"none"}] :
          /\ imports = [f \in {held[t] : t \in Panels} \ {"none"} |-> Checked(f)]
          /\ panel = [t \in Panels |->
               IF held[t] = "none" THEN NoImport
               ELSE [file |-> held[t], status |-> Checked(held[t]),
                     rows |-> held[t], phase |-> "done"]]
          /\ versions = <<>> /\ commands = {} /\ given = 0
    BY DEF ImportsInit
  <2>2. imports \in [DOMAIN imports -> Status]
    BY <2>1 DEF Checked, Status
  <2>3. panel \in [Panels -> APanel]
    <3>1. NoImport \in APanel
      BY DEF NoImport, APanel, Names
    <3>2. \A t \in Panels : [file |-> held[t], status |-> Checked(held[t]),
                             rows |-> held[t], phase |-> "done"] \in APanel
      BY DEF APanel, Names, Checked, Status
    <3> QED BY <2>1, <3>1, <3>2
  <2>4. versions \in [1 .. 0 -> Version] /\ DOMAIN versions = {}
    BY <2>1
  <2> QED BY <2>1, <2>2, <2>3, <2>4 DEF ImportsInv, Types, Numbered, OneOnline
<1>2. ImportsInv /\ [ImportsNext]_importVars => ImportsInv'
  <2> SUFFICES ASSUME ImportsInv, [ImportsNext]_importVars PROVE ImportsInv'
    OBVIOUS
  <2> USE DEF ImportsInv
  <2>1. ASSUME UNCHANGED versions PROVE Numbered' /\ OneOnline'
    BY <2>1 DEF Numbered, OneOnline, Published
  <2>2. CASE UNCHANGED importVars
    BY <2>1, <2>2 DEF importVars, Types
  <2>3. ASSUME NEW t \in Panels, (\E f \in Files : Upload(t, f)) \/ Validate(t)
                                   \/ Publish(t) \/ Discard(t)
        PROVE  ImportsInv'
    BY <2>1, <2>3, PanelSteps
  <2>4. ASSUME NEW k \in commands,
               Succeeded(k) \/ RefreshFails(k) \/ RowsFail(k) \/ RowsRead(k) \/ Failed(k)
                 \/ GivesUp(k) \/ EndsUnseen(k)
        PROVE  ImportsInv'
    BY <2>1, <2>4, AnswerSteps
  <2>5. ASSUME NEW k \in commands, Check(k) \/ Write(k) \/ Dies(k) \/ Commit(k)
        PROVE  ImportsInv'
    BY <2>1, <2>5, HandlerSteps, CommitKeepsOnline DEF Types
  <2> QED BY <2>2, <2>3, <2>4, <2>5 DEF ImportsNext
<1>3. ImportsInv => CatalogStaysOnline
  BY FS_Singleton DEF ImportsInv, OneOnline, CatalogStaysOnline
<1> QED BY <1>1, <1>2, <1>3, PTL DEF ImportsSpec

=============================================================================
