------------------------------- MODULE Rules -------------------------------
(***************************************************************************)
(* The merchant's limits for autonomous buyers: the policy page of the     *)
(* console (app/merchant/policy/page.tsx, console/capability.ts), where    *)
(* they are kept (lib/merchantRules.ts; with a gateway, the merchant_rules *)
(* row behind apps/api/routers/policy.py), and the capability documents    *)
(* agents read them from (lib/capabilityDocument.ts, routers/capability.py *)
(* over packages/cache.py).                                                *)
(*                                                                         *)
(* Two limits stand for the numbers of the rules: the ceiling of a         *)
(* transaction and the limit under which nobody is asked.  The switches    *)
(* and the lists of categories are left out, and with them that a list     *)
(* which was emptied is published as the nine defaults.                    *)
(* A patch holds what its numbers round to, and -1 where one is left out   *)
(* or is nothing above 0; a fraction may round to 0, which is then kept.   *)
(***************************************************************************)
EXTENDS Integers, FiniteSets

CONSTANTS
  Typed,     \* what is typed into the form
  Patches,   \* what others post
  Bound,     \* the hard outer bound of the web tier
  MaxBegun   \* bound on loads of the page and posts, together

ASSUME RulesAssumption ==
  /\ {Bound, MaxBegun} \subseteq Nat \ {0}
  /\ Typed \cup Patches \subseteq [max : Int, auto : Int]

VARIABLES
  remote,    \* is a gateway configured
  rules,     \* the web tier's limits, kept in memory
  row,       \* the gateway's, in its database
  cache,     \* the gateway's cached document
  fills,     \* documents built for agents and not cached yet, one at a time
  overlap,   \* history: since the cache was empty and nothing was filling it,
             \* was a save committed while something was, or an invalidation lost
  policy,    \* the policy page
  pageReads, \* its loads under way
  posts,     \* saves under way
  begun      \* loads and posts so far

rulesVars == <<remote, rules, row, cache, fills, overlap, policy, pageReads, posts, begun>>

Limits(max, auto) == [max |-> max, auto |-> auto]
Smaller(a, b) == IF a < b THEN a ELSE b
Got(is, doc) == [is |-> is, doc |-> doc]
Unread == Limits(0, 0)
Blank == Got("none", Unread)

\* The routes of the document (those under /api are one handler), and the
\* read of the rules.
Surfaces == {"api", "discovery"}
Reads == Surfaces \cup {"rules"}

\* The page opens with limits of its own in the form, and loads.
Starting(n) == [n |-> n, got |-> [r \in Reads |-> Got("asked", Unread)]]
RulesInit ==
  /\ remote \in BOOLEAN
  /\ rules = Limits(Bound, Bound) /\ row = rules
  /\ cache = Blank /\ fills = {} /\ overlap = FALSE
  /\ policy = [phase |-> "loading", form |-> Limits(Bound + 1, 1), known |-> FALSE,
             edited |-> FALSE, agree |-> FALSE, rereading |-> TRUE, saving |-> FALSE]
  /\ pageReads = {Starting(1)}
  /\ posts = {} /\ begun = 1

-----------------------------------------------------------------------------
(* Keeping and publishing *)

\* The document of the web tier: never more than the bound, nor a limit
\* above the ceiling.
Document(r) == Limits(Smaller(r.max, Bound), Smaller(Smaller(r.auto, r.max), Bound))

\* The ceiling of the catalogue feed, and those of the three manifests, which
\* are fixed documents.
PublishedCeiling(r) == Smaller(r.max, Bound)
AcpManifest == Bound
CommerceManifest == Bound
UapManifest == Bound

\* Mutated: the limit is clamped by the ceiling it came with.
PatchedApart(r, p) ==
  LET max == IF p.max >= 0 THEN Smaller(p.max, Bound) ELSE r.max
  IN Limits(max, IF p.auto >= 0
                 THEN Smaller(p.auto, IF p.max >= 0 THEN max ELSE Bound) ELSE r.auto)

\* A patch of the web tier's rules: clamped, the limit by the ceiling that
\* is then in force.
Patched(r, p) ==
  LET max == IF p.max >= 0 THEN Smaller(p.max, Bound) ELSE r.max
      auto == IF p.auto >= 0 THEN Smaller(p.auto, Bound) ELSE r.auto
  IN Limits(max, Smaller(auto, max))

\* The gateway's schema wants both numbers, neither below 0.
Complete(p) == p.limits.max >= 0 /\ p.limits.auto >= 0

\* What is on its way into the gateway's cache.
BeingFilled ==
  fills \cup UNION {{l.got[r].doc : r \in {x \in Reads : l.got[x].is = "filling"}} :
                       l \in pageReads}

\* Mutated: the cached document is dropped before the rules are committed.
StoreAfterInvalidation(p) ==
  /\ p \in posts
  /\ \/ /\ remote /\ p.stage = "sent" /\ Complete(p)
        /\ cache' = Blank /\ overlap' = (overlap /\ BeingFilled # {})
        /\ posts' = (posts \ {p}) \cup {[p EXCEPT !.stage = "dropped"]}
        /\ UNCHANGED <<rules, row>>
     \/ /\ p.stage = "dropped"
        /\ row' = p.limits /\ overlap' = (overlap \/ BeingFilled # {})
        /\ posts' = (posts \ {p}) \cup {[p EXCEPT !.stage = "done"]}
        /\ UNCHANGED <<rules, cache>>
     \/ /\ ~ remote /\ p.stage = "sent"
        /\ rules' = Patched(rules, p.limits)
        /\ posts' = (posts \ {p}) \cup {[p EXCEPT !.stage = "done"]}
        /\ UNCHANGED <<row, cache, overlap>>
  /\ UNCHANGED <<remote, fills, policy, pageReads, begun>>

\* The gateway commits what it is sent; it drops the cached document next.
Store(p) ==
  /\ p \in posts /\ p.stage = "sent"
  /\ IF remote
     THEN /\ Complete(p)
          /\ row' = p.limits /\ rules' = rules
          /\ overlap' = (overlap \/ BeingFilled # {})
          /\ posts' = (posts \ {p}) \cup {[p EXCEPT !.stage = "committed"]}
     ELSE /\ rules' = Patched(rules, p.limits) /\ row' = row
          /\ overlap' = overlap
          /\ posts' = (posts \ {p}) \cup {[p EXCEPT !.stage = "done"]}
  /\ UNCHANGED <<remote, cache, fills, policy, pageReads, begun>>

\* A cache that cannot be reached is left as it is; so it is when the handler
\* dies after its commit.
Invalidate(p) ==
  /\ p \in posts /\ p.stage = "committed"
  /\ \/ cache' = Blank /\ overlap' = (overlap /\ BeingFilled # {})
     \/ cache' = cache /\ overlap' = (overlap \/ cache # Blank)
  /\ posts' = (posts \ {p}) \cup {[p EXCEPT !.stage = "done"]}
  /\ UNCHANGED <<remote, rules, row, fills, policy, pageReads, begun>>

\* The cached document's time is over.
Expire ==
  /\ cache # Blank /\ cache' = Blank
  /\ overlap' = (overlap /\ BeingFilled # {})
  /\ UNCHANGED <<remote, rules, row, fills, policy, pageReads, posts, begun>>

\* An agent reads the document past the cache, which is filled afterwards if
\* it can be reached.
AgentReads ==
  /\ remote /\ cache = Blank /\ fills = {}
  /\ fills' = {row}
  /\ UNCHANGED <<remote, rules, row, cache, overlap, policy, pageReads, posts, begun>>
AgentFills ==
  /\ \E d \in fills : cache' \in {Got("cached", d), cache} /\ fills' = fills \ {d}
  /\ UNCHANGED <<remote, rules, row, overlap, policy, pageReads, posts, begun>>

\* Another operator, or anyone where the web tier keeps the rules, posts.
OtherPosts ==
  /\ begun < MaxBegun /\ begun' = begun + 1
  /\ \E limits \in Patches :
       posts' = posts \cup {[own |-> FALSE, known |-> TRUE,
                             limits |-> limits, stage |-> "sent"]}
  /\ UNCHANGED <<remote, rules, row, cache, fills, overlap, policy, pageReads>>
OtherDone ==
  /\ \E p \in posts :
       /\ ~ p.own
       /\ \/ p.stage = "done"
          \/ p.stage = "sent" /\ remote /\ ~ Complete(p)
       /\ posts' = posts \ {p}
  /\ UNCHANGED <<remote, rules, row, cache, fills, overlap, policy, pageReads, begun>>

-----------------------------------------------------------------------------
(* The page *)

Fetched(l, r, got) == pageReads' = (pageReads \ {l}) \cup {[l EXCEPT !.got[r] = got]}

\* A read of the page is answered.  The discovery document is the web
\* tier's own, with or without a gateway.
ReadAnswered(l, r) ==
  /\ l \in pageReads /\ l.got[r].is = "asked"
  /\ IF ~ remote \/ r = "discovery"
     THEN Fetched(l, r, Got("read", IF r = "rules" THEN rules ELSE Document(rules)))
     ELSE IF r = "rules" THEN Fetched(l, r, Got("read", row))
     ELSE Fetched(l, r, IF cache # Blank THEN Got("read", cache.doc)
                         ELSE Got("filling", row))
  /\ UNCHANGED <<remote, rules, row, cache, fills, overlap, policy, posts, begun>>
Fill(l, r) ==
  /\ l \in pageReads /\ l.got[r].is = "filling"
  /\ Fetched(l, r, Got("read", l.got[r].doc))
  /\ cache' \in {Got("cached", l.got[r].doc), cache}
  /\ UNCHANGED <<remote, rules, row, fills, overlap, policy, posts, begun>>
Fail(l, r) ==
  /\ l \in pageReads /\ l.got[r].is = "asked"
  /\ Fetched(l, r, Got("failed", Unread))
  /\ UNCHANGED <<remote, rules, row, cache, fills, overlap, policy, posts, begun>>

\* All of them are answered.  The form takes the rules over what is typed in
\* it; without any document the page says so in place of the form.
LoadEnds(l) ==
  /\ l \in pageReads /\ \A r \in Reads : l.got[r].is \in {"read", "failed"}
  /\ pageReads' = pageReads \ {l}
  /\ LET told == l.got["rules"].is = "read"
         docs == {l.got[r].doc : r \in Surfaces}
     IN policy' = [policy EXCEPT
          !.form = IF told THEN l.got["rules"].doc ELSE @,
          !.known = @ \/ told,
          !.edited = FALSE,
          !.agree = Cardinality(docs) = 1 /\ \A r \in Surfaces : l.got[r].is = "read",
          !.rereading = FALSE,
          !.phase = IF \E r \in Surfaces : l.got[r].is = "read" THEN "loaded" ELSE "failed"]
  /\ UNCHANGED <<remote, rules, row, cache, fills, overlap, posts, begun>>

\* The page with a load begun.
Begins(pg) ==
  /\ begun < MaxBegun /\ begun' = begun + 1
  /\ pageReads' = pageReads \cup {Starting(begun + 1)}
  /\ policy' = [pg EXCEPT !.rereading = TRUE, !.edited = FALSE,
                        !.phase = IF @ = "loaded" THEN @ ELSE "loading"]

Reread ==
  /\ policy.phase = "failed" \/ (policy.phase = "loaded" /\ ~ policy.rereading)
  /\ Begins(policy)
  /\ UNCHANGED <<remote, rules, row, cache, fills, overlap, posts>>

Edit ==
  /\ policy.phase = "loaded"
  /\ \E limits \in Typed : policy' = [policy EXCEPT !.form = limits, !.edited = TRUE]
  /\ UNCHANGED <<remote, rules, row, cache, fills, overlap, pageReads, posts, begun>>

SavePolicy ==
  /\ policy.phase = "loaded" /\ ~ policy.saving /\ begun < MaxBegun
  /\ begun' = begun + 1
  /\ posts' = posts \cup {[own |-> TRUE, known |-> policy.known,
                        limits |-> policy.form, stage |-> "sent"]}
  /\ policy' = [policy EXCEPT !.saving = TRUE]
  /\ UNCHANGED <<remote, rules, row, cache, fills, overlap, pageReads>>

\* "Saved and synchronized across all surfaces": the page loads again.
PolicySaved(p) ==
  /\ p \in posts /\ p.own /\ p.stage = "done"
  /\ posts' = posts \ {p}
  /\ Begins([policy EXCEPT !.saving = FALSE])
  /\ UNCHANGED <<remote, rules, row, cache, fills, overlap>>

\* Refused, or its time is over, which does not undo it.
SaveFails(p) ==
  /\ p \in posts /\ p.own
  /\ \/ posts' = (posts \ {p}) \cup {[p EXCEPT !.own = FALSE]}
     \/ p.stage = "sent" /\ posts' = posts \ {p}
  /\ policy' = [policy EXCEPT !.saving = FALSE]
  /\ UNCHANGED <<remote, rules, row, cache, fills, overlap, pageReads, begun>>

RulesNext ==
  \/ \E p \in posts : Store(p) \/ Invalidate(p) \/ PolicySaved(p) \/ SaveFails(p)
  \/ Expire \/ AgentReads \/ AgentFills \/ OtherPosts \/ OtherDone
  \/ \E l \in pageReads :
       LoadEnds(l) \/ \E r \in Reads : ReadAnswered(l, r) \/ Fill(l, r) \/ Fail(l, r)
  \/ Reread \/ Edit \/ SavePolicy

RulesSpec == RulesInit /\ [][RulesNext]_rulesVars

-----------------------------------------------------------------------------
(* What holds *)

\* The web tier's rules, as the console is told them, are what its documents
\* tell agents: no sequence of patches leaves a limit above the ceiling.
ConsoleAndAgentsAgree == rules = Document(rules)

\* The gateway's cached document is the one in force, unless a save is about
\* to drop it: however readers fill the cache and saves overlap, an old one
\* stays behind only where a fill was under way as a save was committed, or
\* an invalidation was lost.
StaleOnlyByOverlap ==
  (cache # Blank /\ cache.doc # row) =>
    overlap \/ \E p \in posts : p.stage = "committed"

(* What does not *)

\* After a save the cached document is the new one.
FreshAfterSave == posts = {} /\ cache # Blank => cache.doc = row

\* What is reported as saved is stored, while nobody else has saved.
SavedIsStored ==
  [][\A p \in posts : PolicySaved(p) /\ begun = 2
       => p.limits = IF remote THEN row ELSE rules]_rulesVars

\* What the form posts was read before, or typed.
OnlyKnownIsSaved == \A p \in posts : p.own => p.known

\* What is typed while a load is under way stays.
EditsAreKept ==
  [][\A l \in pageReads : LoadEnds(l) /\ policy.edited => policy'.form = policy.form]_rulesVars

\* The ceilings published outside the document are the merchant's.
CeilingsAgree ==
  \A c \in {PublishedCeiling(rules), AcpManifest, CommerceManifest, UapManifest} :
    c = rules.max

\* Surfaces that were all read agree.
SurfacesAgree ==
  [][\A l \in pageReads : LoadEnds(l) /\ (\A r \in Surfaces : l.got[r].is = "read")
       => policy'.agree]_rulesVars
=============================================================================
