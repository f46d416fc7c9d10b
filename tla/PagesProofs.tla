---------------------------- MODULE PagesProofs ----------------------------
(***************************************************************************)
(* What the pages of the web application keep, for every bound, however    *)
(* their requests overlap, get lost or are answered out of order: the      *)
(* merchant's limits, the buyer's consent, the relays' windows and names,  *)
(* the page of orders shown, and the audit ledger with its pages.          *)
(***************************************************************************)
EXTENDS Rules, Consent, ModelRelay, OrderPages, Ledger,
        SequenceTheorems, FiniteSetTheorems, WellFoundedInduction, TLAPS

-----------------------------------------------------------------------------
(* The merchant's limits.  Whatever is typed or posted are two integers,   *)
(* so what is stored, cached and read is; and the patch clamps them.       *)

Limit == [max : Int, auto : Int]
Says == {"none", "asked", "filling", "read", "failed", "cached"}
Answers == [is : Says, doc : Limit]

\* A record whose field holds a member of S.
Carries(r, field, S) == field \in DOMAIN r /\ r[field] \in S

RulesTypes ==
  /\ rules \in Limit /\ row \in Limit
  /\ cache \in Answers /\ fills \subseteq Limit
  /\ Carries(policy, "form", Limit)
  /\ \A l \in pageReads : Carries(l, "got", [Reads -> Answers])
  /\ \A p \in posts : Carries(p, "limits", Limit)

RulesInv == RulesTypes /\ ConsoleAndAgentsAgree

\* The document of limits that agree with it is those limits.
LEMMA AgreeingLimits ==
  ASSUME NEW r \in Limit
  PROVE  r = Document(r) <=> r.max <= Bound /\ r.auto <= r.max
<1>1. Bound \in Nat \ {0}
  BY RulesAssumption
<1>2. r = [max |-> r.max, auto |-> r.auto] /\ r.max \in Int /\ r.auto \in Int
  BY DEF Limit
<1>3. r = Document(r) <=> r.max = Document(r).max /\ r.auto = Document(r).auto
  BY <1>2 DEF Document, Limits
<1> QED
  BY <1>1, <1>2, <1>3 DEF Document, Limits, Smaller

\* A patch is clamped: no posted limits leave what is kept above the bound,
\* or a limit above its ceiling.
LEMMA PatchKeepsLimits ==
  ASSUME NEW r \in Limit, r = Document(r), NEW p \in Limit
  PROVE  Patched(r, p) \in Limit /\ Patched(r, p) = Document(Patched(r, p))
<1>1. Bound \in Nat \ {0}
  BY RulesAssumption
<1>2. r.max \in Int /\ r.auto \in Int /\ p.max \in Int /\ p.auto \in Int
  BY DEF Limit
<1>3. r.max <= Bound /\ r.auto <= r.max
  BY AgreeingLimits
<1> DEFINE max == IF p.max >= 0 THEN Smaller(p.max, Bound) ELSE r.max
           auto == IF p.auto >= 0 THEN Smaller(p.auto, Bound) ELSE r.auto
<1>4. max \in Int /\ max <= Bound /\ auto \in Int
  BY <1>1, <1>2, <1>3 DEF Smaller
<1>5. Patched(r, p) = [max |-> max, auto |-> Smaller(auto, max)]
  BY DEF Patched, Limits
<1>6. Smaller(auto, max) \in Int /\ Smaller(auto, max) <= max
  BY <1>4 DEF Smaller
<1>7. Patched(r, p) \in Limit
  BY <1>4, <1>5, <1>6 DEF Limit
<1> QED
  BY <1>4, <1>5, <1>6, <1>7, AgreeingLimits

\* The documents the web tier publishes are limits.
LEMMA DocumentsAreLimits == ASSUME NEW r \in Limit PROVE Document(r) \in Limit
BY RulesAssumption DEF Limit, Document, Limits, Smaller

LEMMA RulesInitInv == RulesInit => RulesInv
<1> SUFFICES ASSUME RulesInit PROVE RulesInv
  OBVIOUS
<1>1. Bound \in Nat \ {0}
  BY RulesAssumption
<1>2. rules \in Limit /\ row \in Limit /\ Unread \in Limit
  BY <1>1 DEF RulesInit, Limits, Limit, Unread
<1>3. cache \in Answers /\ fills \subseteq Limit
  BY <1>2 DEF RulesInit, Blank, Got, Answers, Says
<1>4. Limits(Bound + 1, 1) \in Limit
  BY <1>1 DEF Limits, Limit
<1>5. Carries(policy, "form", Limit)
  BY <1>4 DEF RulesInit, Carries
<1>6. Starting(1).got \in [Reads -> Answers] /\ Carries(Starting(1), "got", [Reads -> Answers])
  BY <1>2 DEF Starting, Got, Answers, Says, Carries
<1>7. rules.max = Bound /\ rules.auto = Bound
  BY DEF RulesInit, Limits
<1>8. ConsoleAndAgentsAgree
  BY <1>1, <1>2, <1>7, AgreeingLimits DEF ConsoleAndAgentsAgree
<1> QED
  BY <1>2, <1>3, <1>5, <1>6, <1>8 DEF RulesInv, RulesTypes, RulesInit

\* A step that leaves the web tier's limits alone.
LEMMA QuietKeepsRules ==
  ASSUME RulesInv, UNCHANGED rules, RulesTypes'
  PROVE  RulesInv'
BY DEF RulesInv, ConsoleAndAgentsAgree, Document, Limits, Smaller

\* What is posted is stored: by the gateway as it is, by the web tier clamped.
LEMMA StoreKeepsRules ==
  ASSUME RulesInv, NEW p \in posts, Store(p)
  PROVE  RulesInv'
<1>1. p.limits \in Limit
  BY DEF RulesInv, RulesTypes, Carries
<1>2. \A q \in posts' : Carries(q, "limits", Limit)
  BY DEF Store, RulesInv, RulesTypes, Carries
<1>3. rules' \in Limit /\ row' \in Limit /\ rules' = Document(rules')
  BY <1>1, PatchKeepsLimits DEF Store, RulesInv, RulesTypes, ConsoleAndAgentsAgree
<1>4. ConsoleAndAgentsAgree' <=> rules' = Document(rules')
  BY DEF ConsoleAndAgentsAgree, Document, Limits, Smaller
<1> QED
  BY <1>2, <1>3, <1>4 DEF Store, RulesInv, RulesTypes

\* The cached document and what fills it are limits that were stored.
LEMMA CacheKeepsRules ==
  ASSUME RulesInv,
         \/ \E p \in posts : Invalidate(p)
         \/ Expire \/ AgentReads \/ AgentFills
  PROVE  RulesInv'
<1>1. Blank \in Answers
  BY DEF Blank, Got, Unread, Limits, Answers, Says, Limit
<1>2. CASE \E p \in posts : Invalidate(p)
  <2>1. PICK p \in posts : Invalidate(p)
    BY <1>2
  <2>2. cache' \in Answers
    BY <1>1, <2>1 DEF Invalidate, RulesInv, RulesTypes
  <2>3. \A q \in posts' : Carries(q, "limits", Limit)
    BY <2>1 DEF Invalidate, RulesInv, RulesTypes, Carries
  <2> QED
    BY <2>1, <2>2, <2>3, QuietKeepsRules DEF Invalidate, RulesInv, RulesTypes
<1>3. CASE Expire \/ AgentReads
  BY <1>1, <1>3, QuietKeepsRules DEF Expire, AgentReads, RulesInv, RulesTypes
<1>4. CASE AgentFills
  <2>1. cache' \in Answers /\ fills' \subseteq Limit
    BY <1>4 DEF AgentFills, Got, Answers, Says, RulesInv, RulesTypes
  <2> QED
    BY <1>4, <2>1, QuietKeepsRules DEF AgentFills, RulesInv, RulesTypes
<1> QED
  BY <1>2, <1>3, <1>4

\* A post of others, the page's own, and the end of one.
LEMMA PostsKeepRules ==
  ASSUME RulesInv,
         \/ OtherPosts \/ OtherDone \/ SavePolicy
         \/ \E p \in posts : SaveFails(p)
  PROVE  RulesInv'
<1>1. CASE OtherPosts
  <2>1. \A q \in posts' : Carries(q, "limits", Limit)
    BY <1>1, RulesAssumption DEF OtherPosts, Limit, Carries, RulesInv, RulesTypes
  <2> QED
    BY <1>1, <2>1, QuietKeepsRules DEF OtherPosts, RulesInv, RulesTypes
<1>2. CASE OtherDone
  BY <1>2, QuietKeepsRules DEF OtherDone, RulesInv, RulesTypes
<1>3. CASE SavePolicy
  <2>1. \A q \in posts' : Carries(q, "limits", Limit)
    BY <1>3 DEF SavePolicy, Carries, RulesInv, RulesTypes
  <2>2. Carries(policy', "form", Limit)
    BY <1>3 DEF SavePolicy, Carries, RulesInv, RulesTypes
  <2> QED
    BY <1>3, <2>1, <2>2, QuietKeepsRules DEF SavePolicy, RulesInv, RulesTypes
<1>4. CASE \E p \in posts : SaveFails(p)
  <2>1. PICK p \in posts : SaveFails(p)
    BY <1>4
  <2>2. \A q \in posts' : Carries(q, "limits", Limit)
    BY <2>1 DEF SaveFails, Carries, RulesInv, RulesTypes
  <2>3. Carries(policy', "form", Limit)
    BY <2>1 DEF SaveFails, Carries, RulesInv, RulesTypes
  <2> QED
    BY <2>1, <2>2, <2>3, QuietKeepsRules DEF SaveFails, RulesInv, RulesTypes
<1> QED
  BY <1>1, <1>2, <1>3, <1>4

\* A read of the page is answered with limits, or fails.
LEMMA ReadsKeepRules ==
  ASSUME RulesInv, NEW l \in pageReads, NEW r \in Reads,
         ReadAnswered(l, r) \/ Fill(l, r) \/ Fail(l, r)
  PROVE  RulesInv'
<1>1. Carries(l, "got", [Reads -> Answers])
  BY DEF RulesInv, RulesTypes
<1>2. l.got[r].doc \in Limit
  BY <1>1 DEF Carries, Answers
<1>3. ASSUME NEW got \in Answers, Fetched(l, r, got)
      PROVE  \A m \in pageReads' : Carries(m, "got", [Reads -> Answers])
  <2>1. Carries([l EXCEPT !.got[r] = got], "got", [Reads -> Answers])
    BY <1>1 DEF Carries
  <2> QED
    BY <1>3, <2>1 DEF Fetched, RulesInv, RulesTypes
<1>4. ASSUME NEW is \in Says, NEW doc \in Limit
      PROVE  Got(is, doc) \in Answers
  BY DEF Got, Answers, Says
<1>5. CASE ReadAnswered(l, r)
  <2>1. Document(rules) \in Limit /\ rules \in Limit /\ row \in Limit /\ cache.doc \in Limit
    BY DocumentsAreLimits DEF RulesInv, RulesTypes, Answers
  <2>2. \A m \in pageReads' : Carries(m, "got", [Reads -> Answers])
    BY <1>3, <1>4, <1>5, <2>1 DEF ReadAnswered, Says
  <2> QED
    BY <1>5, <2>2, QuietKeepsRules DEF ReadAnswered, RulesInv, RulesTypes
<1>6. CASE Fill(l, r)
  <2>1. \A m \in pageReads' : Carries(m, "got", [Reads -> Answers])
    BY <1>2, <1>3, <1>4, <1>6 DEF Fill, Says
  <2>2. cache' \in Answers
    BY <1>2, <1>4, <1>6 DEF Fill, Says, RulesInv, RulesTypes
  <2> QED
    BY <1>6, <2>1, <2>2, QuietKeepsRules DEF Fill, RulesInv, RulesTypes
<1>7. CASE Fail(l, r)
  <2>1. Unread \in Limit
    BY DEF Unread, Limits, Limit
  <2>2. \A m \in pageReads' : Carries(m, "got", [Reads -> Answers])
    BY <1>3, <1>4, <1>7, <2>1 DEF Fail, Says
  <2> QED
    BY <1>7, <2>2, QuietKeepsRules DEF Fail, RulesInv, RulesTypes
<1> QED
  BY <1>5, <1>6, <1>7

\* A load that begins has read nothing yet; the form stays.
LEMMA BeginsTyped ==
  ASSUME RulesInv, NEW pg, Carries(pg, "form", Limit), Begins(pg)
  PROVE  /\ \A l \in pageReads' : Carries(l, "got", [Reads -> Answers])
         /\ Carries(policy', "form", Limit)
<1>1. Unread \in Limit
  BY DEF Unread, Limits, Limit
<1>2. Carries(Starting(begun + 1), "got", [Reads -> Answers])
  BY <1>1 DEF Starting, Got, Answers, Says, Carries
<1>3. Carries(policy', "form", Limit)
  BY DEF Begins, Carries
<1> QED
  BY <1>2, <1>3 DEF Begins, RulesInv, RulesTypes

\* The page itself: its loads, and what is typed into its form.
LEMMA PageKeepsRules ==
  ASSUME RulesInv,
         \/ \E l \in pageReads : LoadEnds(l)
         \/ Reread \/ Edit
         \/ \E p \in posts : PolicySaved(p)
  PROVE  RulesInv'
<1>1. Carries(policy, "form", Limit)
  BY DEF RulesInv, RulesTypes
<1>2. CASE \E l \in pageReads : LoadEnds(l)
  <2>1. PICK l \in pageReads : LoadEnds(l)
    BY <1>2
  <2>2. l.got["rules"].doc \in Limit
    BY DEF RulesInv, RulesTypes, Carries, Reads, Answers
  <2>3. Carries(policy', "form", Limit)
    BY <1>1, <2>1, <2>2 DEF LoadEnds, Carries
  <2> QED
    BY <2>1, <2>3, QuietKeepsRules DEF LoadEnds, RulesInv, RulesTypes
<1>3. CASE Reread
  BY <1>1, <1>3, BeginsTyped, QuietKeepsRules DEF Reread, RulesInv, RulesTypes
<1>4. CASE Edit
  <2>1. Carries(policy', "form", Limit)
    BY <1>1, <1>4, RulesAssumption DEF Edit, Carries, Limit
  <2> QED
    BY <1>4, <2>1, QuietKeepsRules DEF Edit, RulesInv, RulesTypes
<1>5. CASE \E p \in posts : PolicySaved(p)
  <2>1. PICK p \in posts : PolicySaved(p)
    BY <1>5
  <2>2. Carries([policy EXCEPT !.saving = FALSE], "form", Limit)
    BY <1>1 DEF Carries
  <2> QED
    BY <2>1, <2>2, BeginsTyped, QuietKeepsRules DEF PolicySaved, RulesInv, RulesTypes
<1> QED
  BY <1>2, <1>3, <1>4, <1>5

LEMMA RulesStepInv == RulesInv /\ [RulesNext]_rulesVars => RulesInv'
<1> SUFFICES ASSUME RulesInv, [RulesNext]_rulesVars PROVE RulesInv'
  OBVIOUS
<1>1. CASE UNCHANGED rulesVars
  BY <1>1, QuietKeepsRules DEF rulesVars, RulesInv, RulesTypes
<1> QED
  BY <1>1, StoreKeepsRules, CacheKeepsRules, PostsKeepRules, ReadsKeepRules, PageKeepsRules
     DEF RulesNext

\* The limits the console is told are the limits agents are told, after any
\* sequence of patches, by whomever and however they overlap.
THEOREM LimitsAreAgreed == RulesSpec => []ConsoleAndAgentsAgree
<1>1. RulesInv => ConsoleAndAgentsAgree
  BY DEF RulesInv
<1> QED
  BY <1>1, RulesInitInv, RulesStepInv, PTL DEF RulesSpec

-----------------------------------------------------------------------------
(* The gateway's cached document.  While no save has met a fill, whatever   *)
(* is on its way into the cache is in force; the save that makes the cached *)
(* document old is then still about to drop it.                             *)

Committed == \E p \in posts : p.stage = "committed"

Staged == \A p \in posts : "stage" \in DOMAIN p

CacheInv ==
  ~ overlap => /\ BeingFilled \subseteq {row}
               /\ cache = Blank \/ cache.doc = row \/ Committed

\* What is being filled, one by one.
LEMMA BeingFilledIs ==
  \A d : d \in BeingFilled <=>
    \/ d \in fills
    \/ \E l \in pageReads, r \in Reads : l.got[r].is = "filling" /\ d = l.got[r].doc
BY DEF BeingFilled

LEMMA BeingFilledThen ==
  \A d : d \in BeingFilled' <=>
    \/ d \in fills'
    \/ \E l \in pageReads', r \in Reads : l.got[r].is = "filling" /\ d = l.got[r].doc
BY DEF BeingFilled

\* An answer to a read of the page adds what it fills the cache with, if it does.
LEMMA FetchedFills ==
  ASSUME RulesTypes, NEW l \in pageReads, NEW r \in Reads, NEW is, NEW doc,
         Fetched(l, r, Got(is, doc)), UNCHANGED fills
  PROVE  \A d \in BeingFilled' : d \in BeingFilled \/ (is = "filling" /\ d = doc)
<1> DEFINE new == [l EXCEPT !.got[r] = Got(is, doc)]
<1>1. Carries(l, "got", [Reads -> Answers])
  BY DEF RulesTypes
<1>2. /\ new.got[r] = [is |-> is, doc |-> doc]
      /\ \A x \in Reads : x # r => new.got[x] = l.got[x]
  BY <1>1 DEF Carries, Got
<1>3. \A m \in pageReads' : m \in pageReads \/ m = new
  BY DEF Fetched
<1> HIDE DEF new
<1>4. ASSUME NEW d \in BeingFilled' PROVE d \in BeingFilled \/ (is = "filling" /\ d = doc)
  <2>1. CASE d \in fills'
    BY <2>1, BeingFilledIs
  <2>2. CASE \E m \in pageReads', x \in Reads : m.got[x].is = "filling" /\ d = m.got[x].doc
    <3>1. PICK m \in pageReads', x \in Reads : m.got[x].is = "filling" /\ d = m.got[x].doc
      BY <2>2
    <3>2. CASE m \in pageReads
      BY <3>1, <3>2, BeingFilledIs
    <3>3. CASE m = new /\ x # r
      BY <1>2, <3>1, <3>3, BeingFilledIs
    <3>4. CASE m = new /\ x = r
      BY <1>2, <3>1, <3>4
    <3> QED
      BY <1>3, <3>2, <3>3, <3>4
  <2> QED
    BY <2>1, <2>2, BeingFilledThen
<1> QED
  BY <1>4

\* A save, up to its invalidation.
LEMMA SavesKeepCache ==
  ASSUME Staged, CacheInv, NEW p \in posts, Store(p) \/ Invalidate(p)
  PROVE  CacheInv'
<1>1. BeingFilled' = BeingFilled
  BY DEF BeingFilled, Store, Invalidate
<1>2. CASE Store(p) /\ remote
  <2>1. [p EXCEPT !.stage = "committed"] \in posts'
    BY <1>2 DEF Store
  <2>2. ASSUME ~ overlap' PROVE BeingFilled' \subseteq {row'}
    BY <1>1, <1>2, <2>2 DEF Store
  <2>3. [p EXCEPT !.stage = "committed"].stage = "committed"
    BY DEF Staged
  <2>4. Committed'
    BY <2>1, <2>3 DEF Committed
  <2> QED
    BY <2>2, <2>4 DEF CacheInv
<1>3. CASE Store(p) /\ ~ remote
  BY <1>1, <1>3 DEF Store, CacheInv, Committed
<1>4. CASE Invalidate(p)
  <2>1. row' = row /\ (overlap' \/ ~ overlap \/ BeingFilled = {})
    BY <1>4 DEF Invalidate
  <2>2. ~ overlap' => BeingFilled' \subseteq {row'}
    BY <1>1, <1>4, <2>1 DEF Invalidate, CacheInv
  <2>3. ~ overlap' => cache' = Blank
    BY <1>4 DEF Invalidate
  <2> QED
    BY <2>2, <2>3 DEF CacheInv, Blank
<1> QED
  BY <1>2, <1>3, <1>4

\* Whatever fills the cache without a save in between is in force.
LEMMA FillsKeepCache ==
  ASSUME RulesInv, CacheInv,
         \/ Expire \/ AgentReads \/ AgentFills
         \/ \E l \in pageReads, r \in Reads : ReadAnswered(l, r) \/ Fill(l, r) \/ Fail(l, r)
  PROVE  CacheInv'
<1>1. CASE Expire
  <2>1. BeingFilled' = BeingFilled
    BY <1>1 DEF BeingFilled, Expire
  <2> QED
    BY <1>1, <2>1 DEF Expire, CacheInv, Blank
<1>2. CASE AgentReads
  <2>1. \A d \in BeingFilled' : d \in BeingFilled \/ d = row
    BY <1>2, BeingFilledIs, BeingFilledThen DEF AgentReads
  <2> QED
    BY <1>2, <2>1 DEF AgentReads, CacheInv, Committed, Blank
<1>3. CASE AgentFills
  <2>1. PICK d \in fills : cache' \in {Got("cached", d), cache} /\ fills' = fills \ {d}
    BY <1>3 DEF AgentFills
  <2>2. d \in BeingFilled /\ \A x \in BeingFilled' : x \in BeingFilled
    BY <1>3, <2>1, BeingFilledIs, BeingFilledThen DEF AgentFills
  <2>3. cache' = cache \/ cache'.doc = d
    BY <2>1 DEF Got
  <2> QED
    BY <1>3, <2>2, <2>3 DEF AgentFills, CacheInv, Committed, Blank
<1>4. ASSUME NEW l \in pageReads, NEW r \in Reads, ReadAnswered(l, r) \/ Fail(l, r)
      PROVE  CacheInv'
  <2>1. \E is, doc : Fetched(l, r, Got(is, doc)) /\ (is = "filling" => doc = row)
    BY <1>4 DEF ReadAnswered, Fail
  <2>2. \A d \in BeingFilled' : d \in BeingFilled \/ d = row
    BY <1>4, <2>1, FetchedFills DEF ReadAnswered, Fail, RulesInv
  <2> QED
    BY <1>4, <2>2 DEF ReadAnswered, Fail, CacheInv, Committed, Blank
<1>5. ASSUME NEW l \in pageReads, NEW r \in Reads, Fill(l, r) PROVE CacheInv'
  <2>1. \A d \in BeingFilled' : d \in BeingFilled
    BY <1>5, FetchedFills DEF Fill, RulesInv
  <2>2. l.got[r].doc \in BeingFilled /\ (cache' = cache \/ cache'.doc = l.got[r].doc)
    BY <1>5, BeingFilledIs DEF Fill, Got
  <2> QED
    BY <1>5, <2>1, <2>2 DEF Fill, CacheInv, Committed, Blank
<1> QED
  BY <1>1, <1>2, <1>3, <1>4, <1>5

\* The page and other posts fill nothing, and end no save before its
\* invalidation.
LEMMA OthersKeepCache ==
  ASSUME Staged, RulesInv, CacheInv,
         \/ OtherPosts \/ OtherDone \/ SavePolicy \/ Reread \/ Edit
         \/ \E p \in posts : SaveFails(p) \/ PolicySaved(p)
         \/ \E l \in pageReads : LoadEnds(l)
  PROVE  CacheInv'
<1>1. UNCHANGED <<row, cache, fills, overlap>>
  BY DEF OtherPosts, OtherDone, SavePolicy, Reread, Edit, SaveFails, PolicySaved, LoadEnds
<1>2. Committed => Committed'
  <2> SUFFICES ASSUME NEW p \in posts, p.stage = "committed" PROVE Committed'
    BY DEF Committed
  <2>1. \/ p \in posts'
        \/ [p EXCEPT !.own = FALSE] \in posts'
    BY DEF OtherPosts, OtherDone, SavePolicy, Reread, Edit, SaveFails, PolicySaved, LoadEnds,
           Begins
  <2>2. [p EXCEPT !.own = FALSE].stage = "committed"
    BY DEF Staged
  <2> QED
    BY <2>1, <2>2 DEF Committed
<1>3. \A l \in pageReads' : l \in pageReads \/ \A r \in Reads : l.got[r].is # "filling"
  <2>1. CASE Reread \/ \E p \in posts : PolicySaved(p)
    BY <2>1 DEF Reread, PolicySaved, Begins, Starting, Got
  <2>2. CASE \E l \in pageReads : LoadEnds(l)
    BY <2>2 DEF LoadEnds
  <2>3. CASE \/ OtherPosts \/ OtherDone \/ SavePolicy \/ Edit
             \/ \E p \in posts : SaveFails(p)
    BY <2>3 DEF OtherPosts, OtherDone, SavePolicy, Edit, SaveFails
  <2> QED
    BY <2>1, <2>2, <2>3
<1>4. \A d \in BeingFilled' : d \in BeingFilled
  BY <1>1, <1>3, BeingFilledIs, BeingFilledThen
<1> QED
  BY <1>1, <1>2, <1>4 DEF CacheInv, Blank

\* Staleness is the work of an overlap: the gateway commits first and drops
\* the cached document next, so that an old document stays in the cache only
\* where a reader was filling it as a save was committed, or an invalidation
\* was lost.
THEOREM OnlyOverlapsLeaveStale == RulesSpec => []StaleOnlyByOverlap
<1>1. RulesInit => RulesInv /\ CacheInv
  BY RulesInitInv DEF RulesInit, CacheInv, BeingFilled, Starting, Got, Blank
<1>2. RulesInit => Staged
  BY DEF RulesInit, Staged
<1>3. Staged /\ [RulesNext]_rulesVars => Staged'
  <2> SUFFICES ASSUME Staged, [RulesNext]_rulesVars PROVE Staged'
    OBVIOUS
  <2>1. CASE \E p \in posts : Store(p) \/ Invalidate(p) \/ PolicySaved(p) \/ SaveFails(p)
    BY <2>1 DEF Staged, Store, Invalidate, PolicySaved, SaveFails
  <2>2. CASE OtherPosts \/ OtherDone \/ SavePolicy
    BY <2>2 DEF Staged, OtherPosts, OtherDone, SavePolicy
  <2>3. CASE \/ Expire \/ AgentReads \/ AgentFills \/ Reread \/ Edit \/ UNCHANGED rulesVars
             \/ \E l \in pageReads :
                  LoadEnds(l) \/ \E r \in Reads : ReadAnswered(l, r) \/ Fill(l, r) \/ Fail(l, r)
    BY <2>3 DEF Staged, rulesVars, Expire, AgentReads, AgentFills, Reread, Edit, LoadEnds,
                ReadAnswered, Fill, Fail
  <2> QED
    BY <2>1, <2>2, <2>3 DEF RulesNext
<1>4. Staged /\ RulesInv /\ CacheInv /\ [RulesNext]_rulesVars => RulesInv' /\ CacheInv'
  <2> SUFFICES ASSUME Staged, RulesInv, CacheInv, [RulesNext]_rulesVars PROVE CacheInv'
    BY RulesStepInv
  <2>1. CASE UNCHANGED rulesVars
    BY <2>1 DEF rulesVars, CacheInv, BeingFilled, Committed, Blank
  <2> QED
    BY <2>1, SavesKeepCache, FillsKeepCache, OthersKeepCache DEF RulesNext
<1>5. CacheInv => StaleOnlyByOverlap
  BY DEF CacheInv, StaleOnlyByOverlap, Committed
<1> QED
  BY <1>1, <1>2, <1>3, <1>4, <1>5, PTL DEF RulesSpec

-----------------------------------------------------------------------------
(* The human gate.  The only payment request a page sends is for the total *)
(* it has read, so are those it gave up.  The gateway's payment uses the   *)
(* approval up, and until a decision is written over that there is no      *)
(* other.                                                                  *)

FrozenPayment == [amount : {Total}, status : {"pending"} \cup Terminal]

PaymentsAreFrozen == payments \in Seq(FrozenPayment)

AsksTheTotal ==
  /\ {"kind", "at", "amount"} \subseteq DOMAIN ask
  /\ ask.kind = "pay" => ask.amount = Total
  /\ \A request \in strays :
       /\ {"kind", "at", "amount"} \subseteq DOMAIN request
       /\ request.kind = "pay" => request.amount = Total

ShowsTheTotal == Carries(screen, "total", {0, Total})

UsedUp ==
  /\ Carries(record, "status", Statuses)
  /\ overwritten \in Nat
  /\ backend = "gateway" =>
       Len(payments) + (IF record.status = "consumed" THEN 0 ELSE 1) <= 1 + overwritten

ConsentInv == PaymentsAreFrozen /\ AsksTheTotal /\ ShowsTheTotal /\ UsedUp

LEMMA ConsentInitInv == ConsentInit => ConsentInv
<1> SUFFICES ASSUME ConsentInit PROVE ConsentInv
  OBVIOUS
<1>1. PaymentsAreFrozen
  BY DEF ConsentInit, PaymentsAreFrozen
<1>2. AsksTheTotal
  BY DEF ConsentInit, AsksTheTotal, NoAsk
<1>3. ShowsTheTotal
  BY DEF ConsentInit, ShowsTheTotal, Carries, Away
<1>4. UsedUp
  BY DEF ConsentInit, UsedUp, Carries, Statuses
<1> QED
  BY <1>1, <1>2, <1>3, <1>4 DEF ConsentInv

\* A decision writes a status; one that is written over a use counts.
LEMMA DecisionsKeepUse ==
  ASSUME ConsentInv, NEW request, NEW becomes, Decision(request, becomes),
         UNCHANGED <<backend, payments>>
  PROVE  UsedUp'
<1>1. CASE UNCHANGED <<record, overwritten>>
  BY <1>1 DEF ConsentInv, UsedUp, Carries
<1>2. CASE /\ record' = [record EXCEPT !.status = Outcome(request.kind)]
           /\ overwritten' = IF record.status = "consumed" THEN overwritten + 1 ELSE overwritten
  <2>1. Outcome(request.kind) \in Statuses /\ Outcome(request.kind) # "consumed"
    BY DEF Outcome, Statuses
  <2>2. Len(payments) \in Nat
    BY LenProperties DEF ConsentInv, PaymentsAreFrozen
  <2>3. Carries(record, "status", Statuses) /\ overwritten \in Nat
    BY DEF ConsentInv, UsedUp
  <2>4. Carries(record', "status", Statuses) /\ record'.status # "consumed"
    BY <1>2, <2>1, <2>3 DEF Carries
  <2>5. backend = "gateway" => Len(payments) + 1 <= 1 + overwritten'
    BY <1>2, <2>2, <2>3 DEF ConsentInv, UsedUp
  <2> QED
    BY <1>2, <2>3, <2>4, <2>5 DEF UsedUp
<1> QED
  BY <1>1, <1>2 DEF Decision, DecisionReads, DecisionWrites

\* A payment is made for the total; the gateway's first uses the approval up.
LEMMA MakePaymentKeeps ==
  ASSUME ConsentInv, MakePayment(Total), UNCHANGED <<backend, overwritten>>
  PROVE  PaymentsAreFrozen' /\ UsedUp'
<1>1. NewPayment(Total) \in FrozenPayment
  BY DEF NewPayment, FrozenPayment, Terminal
<1>2. payments' = Append(payments, NewPayment(Total)) /\ payments \in Seq(FrozenPayment)
  BY DEF MakePayment, ConsentInv, PaymentsAreFrozen
<1>3. payments' \in Seq(FrozenPayment) /\ Len(payments') = Len(payments) + 1
  BY <1>1, <1>2, AppendProperties
<1>4. Len(payments) \in Nat /\ (backend = "gateway" => Len(payments) + 1 <= 1 + overwritten)
  BY <1>2, LenProperties DEF MakePayment, Payable, ConsentInv, UsedUp
<1>5. Carries(record', "status", Statuses)
  BY DEF MakePayment, AfterPayment, Carries, Statuses, ConsentInv, UsedUp
<1>6. backend = "gateway" => record'.status = "consumed"
  BY DEF MakePayment, AfterPayment, ConsentInv, UsedUp, Carries
<1> QED
  BY <1>3, <1>4, <1>5, <1>6 DEF PaymentsAreFrozen, ConsentInv, UsedUp

\* What others do to the authorization and its payments.
LEMMA ServerKeepsConsent ==
  ASSUME ConsentInv,
         \/ Lapse \/ DecidedElsewhere
         \/ \E k \in DOMAIN payments : Settles(k)
  PROVE  ConsentInv'
<1>1. CASE Lapse
  <2>1. UsedUp'
    BY <1>1 DEF Lapse, ConsentInv, UsedUp, Carries
  <2> QED
    BY <1>1, <2>1 DEF Lapse, ConsentInv, PaymentsAreFrozen, AsksTheTotal, ShowsTheTotal
<1>2. CASE DecidedElsewhere
  <2>1. PICK choice \in {"approve", "reject"} : Strays(choice, "sent", 0)
    BY <1>2 DEF DecidedElsewhere
  <2>2. AsksTheTotal'
    BY <1>2, <2>1 DEF Strays, DecidedElsewhere, ConsentInv, AsksTheTotal
  <2> QED
    BY <1>2, <2>2
       DEF DecidedElsewhere, serverVars, ConsentInv, PaymentsAreFrozen, ShowsTheTotal, UsedUp,
           Carries
<1>3. CASE \E k \in DOMAIN payments : Settles(k)
  <2>1. PICK k \in DOMAIN payments, status \in {"verified", "failed", "manual_review"} :
          payments' = [payments EXCEPT ![k].status = status]
    BY <1>3 DEF Settles
  <2>2. payments \in Seq(FrozenPayment) /\ payments[k] \in FrozenPayment
    BY ElementOfSeq DEF ConsentInv, PaymentsAreFrozen
  <2>3. [payments[k] EXCEPT !.status = status] \in FrozenPayment
    BY <2>2 DEF FrozenPayment, Terminal
  <2>4. payments' \in Seq(FrozenPayment) /\ Len(payments') = Len(payments)
    BY <2>1, <2>2, <2>3
  <2>5. payments' # <<>> => payments # <<>>
    BY <2>2, <2>4
  <2> QED
    BY <1>3, <2>4, <2>5
       DEF Settles, ConsentInv, PaymentsAreFrozen, AsksTheTotal, ShowsTheTotal, UsedUp, Carries
<1> QED
  BY <1>1, <1>2, <1>3

\* A request reaches the back end.
LEMMA HandlersKeepConsent ==
  ASSUME ConsentInv,
         \/ HandleDecision \/ HandlePayment
         \/ \E request \in strays : HandleStray(request)
  PROVE  ConsentInv'
<1>1. {"kind", "at", "amount"} \subseteq DOMAIN ask
  BY DEF ConsentInv, AsksTheTotal
<1>2. ASSUME NEW at, NEW n, strays' = strays,
             ask' = [ask EXCEPT !.at = at] \/ ask' = [ask EXCEPT !.at = at, !.payment = n]
      PROVE  AsksTheTotal'
  BY <1>1, <1>2 DEF ConsentInv, AsksTheTotal
<1>3. CASE HandleDecision
  <2>1. PICK becomes \in {"read", "granted", "refused"} :
          Decision(ask, becomes) /\ ask' = [ask EXCEPT !.at = becomes]
    BY <1>3 DEF HandleDecision
  <2>2. UsedUp'
    BY <1>3, <2>1, DecisionsKeepUse DEF HandleDecision
  <2>3. AsksTheTotal'
    BY <1>2, <1>3, <2>1 DEF HandleDecision
  <2> QED
    BY <1>3, <2>2, <2>3 DEF HandleDecision, ConsentInv, PaymentsAreFrozen, ShowsTheTotal
<1>4. CASE HandlePayment
  <2>1. AsksTheTotal'
    BY <1>2, <1>4 DEF HandlePayment
  <2>2. CASE MakePayment(ask.amount)
    <3>1. PaymentsAreFrozen' /\ UsedUp'
      BY <1>4, <2>2, MakePaymentKeeps DEF HandlePayment, ConsentInv, AsksTheTotal
    <3> QED
      BY <1>4, <2>1, <3>1 DEF HandlePayment, ConsentInv, ShowsTheTotal
  <2>3. CASE UNCHANGED <<record, payments>>
    BY <1>4, <2>1, <2>3
       DEF HandlePayment, ConsentInv, PaymentsAreFrozen, ShowsTheTotal, UsedUp, Carries
  <2> QED
    BY <1>4, <2>2, <2>3 DEF HandlePayment
<1>5. ASSUME NEW request \in strays, HandleStray(request)
      PROVE  ConsentInv'
  <2>1. AsksTheTotal'
    <3>1. [request EXCEPT !.at = "read"].kind = request.kind
          /\ [request EXCEPT !.at = "read"].amount = request.amount
          /\ {"kind", "at", "amount"} \subseteq DOMAIN [request EXCEPT !.at = "read"]
      BY DEF ConsentInv, AsksTheTotal
    <3>2. strays' \subseteq strays \cup {[request EXCEPT !.at = "read"]} /\ ask' = ask
      BY <1>5 DEF HandleStray
    <3> QED
      BY <3>1, <3>2 DEF ConsentInv, AsksTheTotal
  <2>2. CASE request.kind = "pay" /\ MakePayment(request.amount) /\ UNCHANGED overwritten
    <3>1. PaymentsAreFrozen' /\ UsedUp'
      BY <1>5, <2>2, MakePaymentKeeps DEF HandleStray, ConsentInv, AsksTheTotal
    <3> QED
      BY <1>5, <2>1, <3>1 DEF HandleStray, ConsentInv, ShowsTheTotal
  <2>3. CASE UNCHANGED <<record, payments, overwritten>>
    BY <1>5, <2>1, <2>3
       DEF HandleStray, ConsentInv, PaymentsAreFrozen, ShowsTheTotal, UsedUp, Carries
  <2>4. ASSUME NEW becomes, Decision(request, becomes), UNCHANGED payments
        PROVE  ConsentInv'
    <3>1. UsedUp'
      BY <1>5, <2>4, DecisionsKeepUse DEF HandleStray
    <3> QED
      BY <1>5, <2>1, <2>4, <3>1 DEF HandleStray, ConsentInv, PaymentsAreFrozen, ShowsTheTotal
  <2> QED
    BY <1>5, <2>2, <2>3, <2>4 DEF HandleStray
<1> QED
  BY <1>3, <1>4, <1>5

\* A step of the page alone: the back end is as it was.
LEMMA PageKeepsConsent ==
  ASSUME ConsentInv, UNCHANGED serverVars, AsksTheTotal', ShowsTheTotal'
  PROVE  ConsentInv'
BY DEF ConsentInv, PaymentsAreFrozen, UsedUp, Carries, serverVars

\* A request that is given up is the one that was asked.
LEMMA GiveUpKeepsAsks == ASSUME ConsentInv, GiveUp PROVE AsksTheTotal'
BY DEF ConsentInv, AsksTheTotal, GiveUp, Strays, NoAsk

LEMMA AskingStays == ASSUME ConsentInv, UNCHANGED <<ask, strays>> PROVE AsksTheTotal'
BY DEF ConsentInv, AsksTheTotal

\* What the authorization page reads and shows.
LEMMA ReadingKeepsConsent ==
  ASSUME ConsentInv,
         \/ OpenAuthorization \/ Leave \/ Reload \/ CountdownEnds
         \/ \E n \in {1, 2} :
              \/ ReadAuthorization(n) \/ ShowAuthorization(n)
              \/ ShowBreakdown(n) \/ LoadFails(n)
  PROVE  ConsentInv'
<1>1. Carries(screen, "total", {0, Total})
  BY DEF ConsentInv, ShowsTheTotal
<1>2. CASE OpenAuthorization
  <2>1. ShowsTheTotal'
    BY <1>2 DEF OpenAuthorization, ShowsTheTotal, Carries, Away
  <2> QED
    BY <1>2, <2>1, AskingStays, PageKeepsConsent DEF OpenAuthorization
<1>3. CASE Leave
  <2>1. ShowsTheTotal'
    BY <1>3 DEF Leave, ShowsTheTotal, Carries, Away
  <2> QED
    BY <1>3, <2>1, GiveUpKeepsAsks, PageKeepsConsent DEF Leave
<1>4. CASE Reload
  <2>1. ShowsTheTotal'
    BY <1>1, <1>4 DEF Reload, Loading, ShowsTheTotal, Carries
  <2> QED
    BY <1>4, <2>1, AskingStays, PageKeepsConsent DEF Reload
<1>5. CASE CountdownEnds
  <2>1. ShowsTheTotal'
    BY <1>1, <1>5 DEF CountdownEnds, ShowsTheTotal, Carries
  <2> QED
    BY <1>5, <2>1, AskingStays, PageKeepsConsent DEF CountdownEnds
<1>6. ASSUME NEW n \in {1, 2},
             \/ ReadAuthorization(n) \/ ShowAuthorization(n)
             \/ ShowBreakdown(n) \/ LoadFails(n)
      PROVE  ConsentInv'
  <2>1. ShowsTheTotal'
    BY <1>1, <1>6
       DEF ReadAuthorization, ShowAuthorization, ShowBreakdown, LoadFails, ShowsTheTotal, Carries
  <2>2. UNCHANGED <<serverVars, ask, strays>>
    BY <1>6 DEF ReadAuthorization, ShowAuthorization, ShowBreakdown, LoadFails
  <2> QED
    BY <2>1, <2>2, AskingStays, PageKeepsConsent
<1> QED
  BY <1>2, <1>3, <1>4, <1>5, <1>6

\* A request is sent: a payment for the total on the page.
LEMMA SendsKeepConsent ==
  ASSUME ConsentInv, Decide \/ StartPayment
  PROVE  ConsentInv'
<1>1. Carries(screen, "total", {0, Total})
  BY DEF ConsentInv, ShowsTheTotal
<1>2. ASSUME NEW kind, NEW amount, Send(kind, amount), kind = "pay" => amount = Total
      PROVE  ConsentInv'
  <2>1. AsksTheTotal'
    BY <1>2 DEF Send, NoAsk, ConsentInv, AsksTheTotal
  <2>2. ShowsTheTotal'
    BY <1>1, <1>2 DEF Send, ShowsTheTotal, Carries
  <2> QED
    BY <1>2, <2>1, <2>2, PageKeepsConsent DEF Send
<1>3. CASE Decide
  BY <1>2, <1>3 DEF Decide
<1>4. CASE StartPayment
  <2>1. CASE screen.total # 0 /\ Send("pay", screen.total)
    BY <1>1, <1>2, <2>1 DEF Carries
  <2>2. CASE screen.total = 0 /\ screen' = [screen EXCEPT !.error = TRUE]
                             /\ UNCHANGED <<serverVars, ask, strays>>
    <3>1. ShowsTheTotal'
      BY <1>1, <2>2 DEF ShowsTheTotal, Carries
    <3> QED
      BY <2>2, <3>1, AskingStays, PageKeepsConsent
  <2> QED
    BY <1>4, <2>1, <2>2 DEF StartPayment
<1> QED
  BY <1>3, <1>4

\* The page is answered, or gives its request up.
LEMMA AnswersKeepConsent ==
  ASSUME ConsentInv, DecisionAnswered \/ PaymentAnswered
  PROVE  ConsentInv'
<1>1. Carries(screen, "total", {0, Total})
  BY DEF ConsentInv, ShowsTheTotal
<1>2. ASSUME ask' = NoAsk, UNCHANGED strays PROVE AsksTheTotal'
  BY <1>2 DEF NoAsk, ConsentInv, AsksTheTotal
<1>3. CASE DecisionAnswered
  <2>1. ShowsTheTotal'
    BY <1>1, <1>3 DEF DecisionAnswered, Loading, ShowsTheTotal, Carries
  <2>2. AsksTheTotal'
    BY <1>2, <1>3, GiveUpKeepsAsks DEF DecisionAnswered
  <2> QED
    BY <1>3, <2>1, <2>2, PageKeepsConsent DEF DecisionAnswered
<1>4. CASE PaymentAnswered
  <2>1. ShowsTheTotal'
    BY <1>1, <1>4 DEF PaymentAnswered, Away, ShowsTheTotal, Carries
  <2>2. AsksTheTotal'
    BY <1>2, <1>4, GiveUpKeepsAsks DEF PaymentAnswered
  <2> QED
    BY <1>4, <2>1, <2>2, PageKeepsConsent DEF PaymentAnswered
<1> QED
  BY <1>3, <1>4

LEMMA ConsentStepInv == ConsentInv /\ [ConsentNext]_consentVars => ConsentInv'
<1> SUFFICES ASSUME ConsentInv, [ConsentNext]_consentVars PROVE ConsentInv'
  OBVIOUS
<1>1. ASSUME UNCHANGED <<serverVars, screen, ask, strays>> PROVE ConsentInv'
  <2>1. ShowsTheTotal'
    BY <1>1 DEF ConsentInv, ShowsTheTotal, Carries
  <2> QED
    BY <1>1, <2>1, AskingStays, PageKeepsConsent
<1>2. CASE ReadStatus \/ ShowStatus \/ CheckFails \/ NextCheck \/ Recheck
  BY <1>1, <1>2 DEF ReadStatus, ShowStatus, CheckFails, NextCheck, Recheck
<1>3. CASE UNCHANGED consentVars
  BY <1>1, <1>3 DEF consentVars
<1> QED
  BY <1>2, <1>3, ServerKeepsConsent, HandlersKeepConsent, ReadingKeepsConsent,
     SendsKeepConsent, AnswersKeepConsent DEF ConsentNext, Answered, Polls, Shopper

\* "Charge exactly the itemised checkout total the gate approved - never the
\* ceiling" (authorize/[id]/page.tsx), whichever back end answers, also for
\* requests that arrive after the page gave them up.
THEOREM TheTotalIsCharged == ConsentSpec => []ChargesTheFrozenTotal
<1>1. ConsentInv => ChargesTheFrozenTotal
  <2> SUFFICES ASSUME ConsentInv, NEW k \in DOMAIN payments
               PROVE  payments[k].amount = Total
    BY DEF ChargesTheFrozenTotal
  <2>1. payments[k] \in FrozenPayment
    BY ElementOfSeq DEF ConsentInv, PaymentsAreFrozen
  <2> QED
    BY <2>1 DEF FrozenPayment
<1> QED
  BY <1>1, ConsentInitInv, ConsentStepInv, PTL DEF ConsentSpec

\* No interleaving of timeouts, other windows, reloads and stray requests makes
\* a second payment of the gateway's authorization, but for a decision that was
\* read before a payment and written over the use of it.
THEOREM APaymentUsesTheApproval == ConsentSpec => []PaysAgainOnlyIfOverwritten
<1>1. ASSUME ConsentInv PROVE PaysAgainOnlyIfOverwritten
  <2>1. Len(payments) \in Nat
    BY <1>1, LenProperties DEF ConsentInv, PaymentsAreFrozen
  <2> QED
    BY <1>1, <2>1 DEF ConsentInv, UsedUp, PaysAgainOnlyIfOverwritten
<1> QED
  BY <1>1, ConsentInitInv, ConsentStepInv, PTL DEF ConsentSpec

-----------------------------------------------------------------------------
(* The relays' table.  A request that was let in stays in the table as     *)
(* long as it is in anybody's window, whatever is swept; so the requests   *)
(* let in within a window are among those counted when the last of them    *)
(* came.                                                                   *)

Requests == [n : Nat, at : Nat]

\* What a table tells of a caller.
RecentIn(table, key) == IF key \in DOMAIN table THEN Recent(table[key]) ELSE {}

RequestsTyped ==
  /\ clock \in Nat /\ arrivals \in Nat
  /\ \A key \in DOMAIN hits : hits[key] \subseteq Requests /\ IsFiniteSet(hits[key])
  /\ admitted \in [Keys -> SUBSET Requests]
  /\ \A key \in Keys : IsFiniteSet(admitted[key])

\* Nothing is let in before its time.
AdmittedBefore == \A key \in Keys : \A r \in admitted[key] : r.at <= clock

\* What was let in and is still in a window that is open is in the table.
AdmittedIsCounted == \A key \in Keys : Recent(admitted[key]) \subseteq HitsOf(key)

InWindow(requests, t) == {r \in requests : t <= r.at /\ r.at < t + RateWindow}

\* The bound holds of every window, those that are not over yet included.
WindowsAreKept ==
  \A key \in Keys, t \in Nat : Cardinality(InWindow(admitted[key], t)) <= RateMax(key)

TableInv == RequestsTyped /\ AdmittedBefore /\ AdmittedIsCounted /\ WindowsAreKept

LEMMA LimitsAreNumbers == ASSUME NEW key PROVE RateMax(key) \in Nat
BY RelayAssumption DEF RateMax

\* A sweep takes nothing from a window that is open.
LEMMA SweepKeepsRecent ==
  ASSUME NEW table, NEW key
  PROVE  /\ RecentIn(Swept(table), key) = RecentIn(table, key)
         /\ \A k \in DOMAIN Swept(table) :
              k \in DOMAIN table /\ Swept(table)[k] \subseteq table[k]
BY DEF RecentIn, Swept, Recent

\* As time passes, less is recent.
LEMMA RecentShrinks ==
  ASSUME RequestsTyped, NEW requests \in SUBSET Requests, clock' = clock + 1
  PROVE  Recent(requests)' \subseteq Recent(requests)
<1> SUFFICES ASSUME NEW r \in requests, clock' - r.at < RateWindow
             PROVE  clock - r.at < RateWindow
  BY DEF Recent
<1>1. clock \in Nat /\ r.at \in Nat /\ RateWindow \in Nat
  BY RelayAssumption DEF RequestsTyped, Requests
<1> QED
  BY <1>1

LEMMA TimeKeepsTable == ASSUME TableInv, TimePasses PROVE TableInv'
<1>1. RequestsTyped'
  BY DEF TimePasses, TableInv, RequestsTyped
<1>2. AdmittedBefore'
  <2> SUFFICES ASSUME NEW key \in Keys, NEW r \in admitted[key] PROVE r.at <= clock'
    BY DEF AdmittedBefore, TimePasses
  <2>1. r.at \in Nat /\ clock \in Nat /\ r.at <= clock
    BY DEF TableInv, RequestsTyped, Requests, AdmittedBefore
  <2> QED
    BY <2>1 DEF TimePasses
<1>3. AdmittedIsCounted'
  <2> SUFFICES ASSUME NEW key \in Keys, NEW r \in admitted[key],
                      clock' - r.at < RateWindow
               PROVE  key \in DOMAIN hits /\ r \in hits[key]
    BY DEF AdmittedIsCounted, Recent, HitsOf, TimePasses
  <2>1. r.at \in Nat /\ clock \in Nat /\ RateWindow \in Nat
    BY RelayAssumption DEF TableInv, RequestsTyped, Requests
  <2>2. r \in Recent(admitted[key])
    BY <2>1 DEF Recent, TimePasses
  <2> QED
    BY <2>2 DEF TableInv, AdmittedIsCounted, HitsOf, Recent
<1>4. WindowsAreKept'
  BY DEF TimePasses, TableInv, WindowsAreKept, InWindow, RateMax
<1> QED
  BY <1>1, <1>2, <1>3, <1>4 DEF TableInv

\* The table after a request: the caller's recent ones and this one, and all
\* that is recent of the others.
LEMMA CountedTable ==
  ASSUME RequestsTyped, NEW key \in Keys, Counted(key), UNCHANGED clock
  PROVE  /\ HitsOf(key)' = HitsOf(key) \cup {ThisRequest}
         /\ \A k \in Keys \ {key} : HitsOf(k)' = HitsOf(k)
         /\ \A k \in DOMAIN hits' : hits'[k] \subseteq Requests /\ IsFiniteSet(hits'[k])
<1> DEFINE requests == HitsOf(key) \cup {ThisRequest}
           table == [k \in DOMAIN hits \cup {key} |-> IF k = key THEN requests ELSE hits[k]]
<1>1. hits' = Swept(table)
  BY DEF Counted
<1>2. RateWindow \in Nat \ {0} /\ clock \in Nat /\ arrivals \in Nat
  BY RelayAssumption DEF RequestsTyped
<1>3. Recent(requests) = requests
  BY <1>2 DEF Recent, HitsOf, ThisRequest
<1>4. \A k : HitsOf(k)' = RecentIn(hits', k)
  BY DEF HitsOf, RecentIn, Recent
<1>5. \A k : HitsOf(k)' = RecentIn(table, k)
  BY <1>1, <1>4, SweepKeepsRecent
<1>6. RecentIn(table, key) = requests
  BY <1>3 DEF RecentIn
<1>7. \A k \in Keys \ {key} : RecentIn(table, k) = HitsOf(k)
  BY DEF RecentIn, HitsOf
<1>8. requests \subseteq Requests /\ IsFiniteSet(requests)
  <2>1. HitsOf(key) \subseteq Requests /\ IsFiniteSet(HitsOf(key))
    BY FS_Subset, FS_EmptySet DEF HitsOf, Recent, RequestsTyped
  <2>2. ThisRequest \in Requests
    BY <1>2 DEF ThisRequest, Requests
  <2> QED
    BY <2>1, <2>2, FS_AddElement
<1>9. \A k \in DOMAIN hits' : hits'[k] \subseteq Requests /\ IsFiniteSet(hits'[k])
  <2>1. \A k \in DOMAIN table : table[k] \subseteq Requests /\ IsFiniteSet(table[k])
    BY <1>8 DEF RequestsTyped
  <2>2. \A k \in DOMAIN hits' : k \in DOMAIN table /\ hits'[k] \subseteq table[k]
    BY <1>1, SweepKeepsRecent
  <2> QED
    BY <2>1, <2>2, FS_Subset
<1> QED
  BY <1>5, <1>6, <1>7, <1>9

\* A refusal is counted and lets nobody in.
LEMMA RefusalKeepsTable ==
  ASSUME TableInv, NEW key \in Keys, Arrives(key), UNCHANGED admitted
  PROVE  TableInv'
<1>1. Counted(key) /\ arrivals' = arrivals + 1 /\ UNCHANGED clock
  BY DEF Arrives
<1>2. \A k \in Keys : HitsOf(k) \subseteq HitsOf(k)'
  BY <1>1, CountedTable DEF TableInv
<1>3. RequestsTyped'
  BY <1>1, CountedTable DEF TableInv, RequestsTyped
<1>4. AdmittedIsCounted'
  BY <1>1, <1>2 DEF TableInv, AdmittedIsCounted, Recent
<1>5. AdmittedBefore' /\ WindowsAreKept'
  BY <1>1 DEF TableInv, AdmittedBefore, WindowsAreKept, InWindow, RateMax
<1> QED
  BY <1>3, <1>4, <1>5 DEF TableInv

\* A request that is let in is the last of every window it is in, and what
\* else is in that window was counted before it.
LEMMA AdmissionKeepsTable ==
  ASSUME TableInv, NEW key \in Keys, NEW after, Admits(key, after)
  PROVE  TableInv'
<1>1. Counted(key) /\ arrivals' = arrivals + 1 /\ UNCHANGED clock
  BY DEF Admits, Arrives
<1>2. /\ HitsOf(key)' = HitsOf(key) \cup {ThisRequest}
      /\ \A k \in Keys \ {key} : HitsOf(k)' = HitsOf(k)
  BY <1>1, CountedTable DEF TableInv
<1>3. clock \in Nat /\ arrivals \in Nat /\ RateWindow \in Nat \ {0}
  BY RelayAssumption DEF TableInv, RequestsTyped
<1>4. ThisRequest \in Requests /\ ThisRequest.at = clock
  BY <1>3 DEF ThisRequest, Requests
<1>5. /\ admitted'[key] = admitted[key] \cup {ThisRequest}
      /\ \A k \in Keys \ {key} : admitted'[k] = admitted[k]
      /\ DOMAIN admitted' = Keys
  BY DEF Admits, TableInv, RequestsTyped
<1>6. admitted' \in [Keys -> SUBSET Requests]
  BY <1>4 DEF Admits, TableInv, RequestsTyped
<1>7. \A k \in Keys : IsFiniteSet(admitted'[k])
  BY <1>5, FS_AddElement DEF TableInv, RequestsTyped
<1>8. RequestsTyped'
  BY <1>1, <1>3, <1>6, <1>7, CountedTable DEF TableInv, RequestsTyped
<1>9. AdmittedBefore'
  BY <1>1, <1>3, <1>4, <1>5 DEF TableInv, AdmittedBefore
<1>10. AdmittedIsCounted'
  BY <1>1, <1>2, <1>5 DEF TableInv, AdmittedIsCounted, Recent
<1>11. WindowsAreKept'
  <2> SUFFICES ASSUME NEW k \in Keys, NEW t \in Nat
               PROVE  Cardinality(InWindow(admitted'[k], t)) <= RateMax(k)
    BY DEF WindowsAreKept, InWindow, RateMax
  <2>1. Cardinality(InWindow(admitted[k], t)) <= RateMax(k)
    BY DEF TableInv, WindowsAreKept
  <2>2. CASE k # key
    BY <1>5, <2>1, <2>2
  <2>3. CASE k = key /\ ~(t <= clock /\ clock < t + RateWindow)
    <3>1. InWindow(admitted'[k], t) = InWindow(admitted[k], t)
      BY <1>4, <1>5, <2>3 DEF InWindow
    <3> QED
      BY <2>1, <3>1
  <2>4. CASE k = key /\ t <= clock /\ clock < t + RateWindow
    <3>1. InWindow(admitted[key], t) \subseteq HitsOf(key)
      <4> SUFFICES ASSUME NEW r \in admitted[key], t <= r.at
                   PROVE  r \in HitsOf(key)
        BY DEF InWindow
      <4>1. r.at \in Nat
        BY DEF TableInv, RequestsTyped, Requests
      <4>2. clock - r.at < RateWindow
        BY <1>3, <2>4, <4>1
      <4> QED
        BY <4>2 DEF TableInv, AdmittedIsCounted, Recent
    <3>2. InWindow(admitted'[key], t) \subseteq HitsOf(key) \cup {ThisRequest}
      BY <1>5, <3>1 DEF InWindow
    <3>3. IsFiniteSet(HitsOf(key))
      BY FS_Subset, FS_EmptySet DEF HitsOf, Recent, TableInv, RequestsTyped
    <3>4. /\ Cardinality(HitsOf(key)) \in Nat
          /\ IsFiniteSet(HitsOf(key) \cup {ThisRequest})
          /\ Cardinality(HitsOf(key) \cup {ThisRequest}) <= Cardinality(HitsOf(key)) + 1
          /\ Cardinality(HitsOf(key) \cup {ThisRequest}) \in Nat
      <4>1. /\ IsFiniteSet(HitsOf(key) \cup {ThisRequest})
            /\ \/ Cardinality(HitsOf(key) \cup {ThisRequest}) = Cardinality(HitsOf(key)) + 1
               \/ Cardinality(HitsOf(key) \cup {ThisRequest}) = Cardinality(HitsOf(key))
        BY <3>3, FS_AddElement
      <4>2. Cardinality(HitsOf(key)) \in Nat
        BY <3>3, FS_CardinalityType
      <4> QED
        BY <4>1, <4>2
    <3>5. /\ Cardinality(InWindow(admitted'[key], t)) <= Cardinality(HitsOf(key) \cup {ThisRequest})
          /\ Cardinality(InWindow(admitted'[key], t)) \in Nat
      BY <3>2, <3>4, FS_Subset, FS_CardinalityType
    <3>6. Cardinality(HitsOf(key)) + 1 <= RateMax(key)
      BY <3>4, LimitsAreNumbers DEF Admits, Limited
    <3> QED
      BY <2>4, <3>4, <3>5, <3>6, LimitsAreNumbers
  <2> QED
    BY <2>2, <2>3, <2>4
<1> QED
  BY <1>8, <1>9, <1>10, <1>11 DEF TableInv

LEMMA TableInitInv == RelayInit => TableInv
<1> SUFFICES ASSUME RelayInit PROVE TableInv
  OBVIOUS
<1>1. RequestsTyped
  BY FS_EmptySet DEF RelayInit, RequestsTyped
<1>2. AdmittedBefore /\ AdmittedIsCounted
  BY DEF RelayInit, AdmittedBefore, AdmittedIsCounted, Recent
<1>3. WindowsAreKept
  <2> SUFFICES ASSUME NEW key \in Keys, NEW t \in Nat
               PROVE  Cardinality(InWindow(admitted[key], t)) <= RateMax(key)
    BY DEF WindowsAreKept
  <2>1. InWindow(admitted[key], t) = {}
    BY DEF RelayInit, InWindow
  <2> QED
    BY <2>1, FS_EmptySet, LimitsAreNumbers
<1> QED
  BY <1>1, <1>2, <1>3 DEF TableInv

LEMMA TableStepInv == TableInv /\ [RelayNext]_relayVars => TableInv'
<1> SUFFICES ASSUME TableInv, [RelayNext]_relayVars PROVE TableInv'
  OBVIOUS
<1>1. ASSUME UNCHANGED tableVars PROVE TableInv'
  BY <1>1 DEF tableVars, TableInv, RequestsTyped, AdmittedBefore, AdmittedIsCounted,
              HitsOf, Recent, WindowsAreKept, InWindow, RateMax
<1>2. ASSUME NEW key \in Keys, Refuses(key) PROVE TableInv'
  BY <1>2, RefusalKeepsTable DEF Refuses
<1>3. ASSUME NEW key \in Keys,
             TurnedAway(key) \/ GeminiChat(key) \/ GrokChat(key) \/ ConnectionTest(key)
      PROVE  TableInv'
  <2>1. \E after : Admits(key, after)
    BY <1>3 DEF TurnedAway, GeminiChat, GrokChat, ConnectionTest
  <2> QED
    BY <2>1, AdmissionKeepsTable
<1>4. CASE ModelSpeaks \/ ModelIsSilent \/ FirstCallFails \/ FallbackFails
           \/ EndpointFails \/ EndpointResponds \/ TestEnds \/ Delivers
  BY <1>1, <1>4 DEF ModelSpeaks, ModelIsSilent, FirstCallFails, FallbackFails,
                    EndpointFails, EndpointResponds, TestEnds, Delivers
<1>5. CASE UNCHANGED relayVars
  BY <1>1, <1>5 DEF relayVars, tableVars
<1> QED
  BY <1>2, <1>3, <1>4, <1>5, TimeKeepsTable DEF RelayNext

\* In no window of a route are more requests of a caller let in than the
\* route allows, for any callers, limits, window and size of the table.
THEOREM WindowsAreBounded == RelaySpec => []AdmittedPerWindow
<1>1. ASSUME TableInv PROVE AdmittedPerWindow
  <2>1. \A t \in 0..clock : t \in Nat
    BY <1>1 DEF TableInv, RequestsTyped
  <2> QED
    BY <1>1, <2>1 DEF TableInv, WindowsAreKept, InWindow, AdmittedPerWindow
<1> QED
  BY <1>1, TableInitInv, TableStepInv, PTL DEF RelaySpec

-----------------------------------------------------------------------------
(* The relays' answers: while a model is asked, the answer bears its name. *)

RelayFields == {"at", "route", "target", "call", "tried", "error", "used", "text", "notice"}

RelayShape == RelayFields \subseteq DOMAIN relay /\ relay.tried \in Nat

AsksByName ==
  relay.at = "calling" /\ relay.route # "test" =>
    relay.call \in Models /\ relay.used = relay.call

AnswerInv == RelayShape /\ AsksByName /\ AnswersAreTheirModels

LEMMA CandidatesAreModels ==
  /\ Len(Candidates) = 3
  /\ \A i \in 1..3 : Candidates[i] \in Models
<1>1. Len(Candidates) = 3 /\ DOMAIN Candidates = 1..3
  BY DEF Candidates
<1>2. \A i \in 1..3 : Candidates[i] \in ToSet(Candidates)
  BY <1>1 DEF ToSet
<1> QED
  BY <1>1, <1>2 DEF Models

LEMMA TiersAreModels == Tiers \subseteq Models /\ {"configured", "custom"} \subseteq Models
BY DEF Models

\* A request that asks a model from a shape that is sound.
LEMMA AskingKeeps ==
  ASSUME NEW r, RelayFields \subseteq DOMAIN r, r.tried \in Nat, NEW model \in Models,
         relay' = Asking(r, model)
  PROVE  AnswerInv'
BY DEF Asking, AnswerInv, RelayShape, RelayFields, AsksByName, AnswersAreTheirModels

LEMMA CatalogueKeeps ==
  ASSUME NEW r, RelayFields \subseteq DOMAIN r, r.tried \in Nat, relay' = FromCatalogue(r)
  PROVE  AnswerInv'
BY DEF FromCatalogue, AnswerInv, RelayShape, RelayFields, AsksByName, AnswersAreTheirModels

LEMMA NoRelayKeeps == ASSUME relay' = NoRelay PROVE AnswerInv'
BY DEF NoRelay, AnswerInv, RelayShape, RelayFields, AsksByName, AnswersAreTheirModels

\* A candidate is asked by its own name, or the catalogue says it is itself.
LEMMA CandidateKeeps ==
  ASSUME NEW r, RelayFields \subseteq DOMAIN r, r.tried \in Nat, relay' = NextCandidate(r)
  PROVE  AnswerInv'
<1>1. CASE "missing" \in r.error /\ r.tried < Len(Candidates)
  <2>1. Candidates[r.tried + 1] \in Models
    <3>1. r.tried + 1 \in 1..3
      BY <1>1, CandidatesAreModels
    <3> QED
      BY <3>1, CandidatesAreModels
  <2> DEFINE model == Candidates[r.tried + 1]
  <2>2. relay' = [Asking(r, model) EXCEPT !.tried = r.tried + 1, !.notice = TRUE]
    BY <1>1 DEF NextCandidate
  <2> HIDE DEF model
  <2>3. /\ RelayFields \subseteq DOMAIN relay' /\ relay'.tried \in Nat
        /\ relay'.at = "calling" /\ relay'.call = model /\ relay'.used = model
    BY <2>2 DEF Asking, RelayFields
  <2> QED
    BY <2>1, <2>3 DEF model, AnswerInv, RelayShape, AsksByName, AnswersAreTheirModels
<1>2. CASE ~("missing" \in r.error /\ r.tried < Len(Candidates))
  BY <1>2, CatalogueKeeps DEF NextCandidate
<1> QED
  BY <1>1, <1>2

\* What a request that was let in begins with.
LEMMA AdmittedKeeps ==
  ASSUME AnswerInv, NEW key \in Keys,
         TurnedAway(key) \/ GeminiChat(key) \/ GrokChat(key) \/ ConnectionTest(key)
  PROVE  AnswerInv'
<1>1. \A target : /\ RelayFields \subseteq DOMAIN Gemini(target)
                  /\ Gemini(target).tried \in Nat
  BY DEF Gemini, NoRelay, RelayFields
<1>2. \A target : /\ RelayFields \subseteq DOMAIN Grok(target)
                  /\ Grok(target).tried \in Nat
  BY DEF Grok, NoRelay, RelayFields
<1>3. CASE TurnedAway(key)
  BY <1>3, NoRelayKeeps DEF TurnedAway, Admits
<1>4. CASE GeminiChat(key)
  <2>1. PICK target \in Tiers :
          Admits(key, IF setup.gemini THEN Asking(Gemini(target), target)
                      ELSE FromCatalogue(Gemini(target)))
    BY <1>4 DEF GeminiChat
  <2> QED
    BY <1>1, <2>1, AskingKeeps, CatalogueKeeps, TiersAreModels DEF Admits
<1>5. CASE GrokChat(key)
  BY <1>2, <1>5, AskingKeeps, CatalogueKeeps, TiersAreModels DEF GrokChat, Admits
<1>6. CASE ConnectionTest(key)
  BY <1>6 DEF ConnectionTest, Admits, NoRelay, AnswerInv, RelayShape, RelayFields,
              AsksByName, AnswersAreTheirModels
<1> QED
  BY <1>3, <1>4, <1>5, <1>6

\* The model asked answers, says nothing, or fails.
LEMMA CallsKeepAnswers ==
  ASSUME AnswerInv,
         ModelSpeaks \/ ModelIsSilent \/ FirstCallFails \/ FallbackFails \/ EndpointFails
  PROVE  AnswerInv'
<1>1. RelayFields \subseteq DOMAIN relay /\ relay.tried \in Nat
  BY DEF AnswerInv, RelayShape
<1>2. CASE ModelSpeaks
  <2>1. relay.call \in Models /\ relay.used = relay.call
    BY <1>2 DEF ModelSpeaks, AnswerInv, AsksByName
  <2>2. /\ RelayFields \subseteq DOMAIN relay' /\ relay'.tried \in Nat
        /\ relay'.at = "answered" /\ relay'.text = relay.call /\ relay'.used = relay.used
    BY <1>1, <1>2 DEF ModelSpeaks, FromModel, RelayFields
  <2> QED
    BY <2>1, <2>2 DEF AnswerInv, RelayShape, AsksByName, AnswersAreTheirModels
<1>3. CASE ModelIsSilent
  <2>1. CASE First(relay)
    <3>1. relay.used = relay.target
      BY <1>3, <2>1 DEF ModelIsSilent, AnswerInv, AsksByName, First
    <3>2. relay' = InPlaceOfEmpty(relay)
      BY <1>3, <2>1 DEF ModelIsSilent
    <3>3. /\ RelayFields \subseteq DOMAIN relay' /\ relay'.tried \in Nat
          /\ relay'.at = "answered" /\ relay'.text = Catalogue
          /\ relay'.used = relay.used /\ relay'.target = relay.target
          /\ relay'.call = relay.call /\ relay'.error = relay.error
      BY <1>1, <3>2 DEF InPlaceOfEmpty, RelayFields
    <3> QED
      BY <2>1, <3>1, <3>3
         DEF First, AnswerInv, RelayShape, AsksByName, AnswersAreTheirModels
  <2>2. CASE ~First(relay)
    BY <1>1, <1>3, <2>2, CandidateKeeps DEF ModelIsSilent
  <2> QED
    BY <2>1, <2>2
<1>4. CASE FirstCallFails
  <2>1. PICK error \in SUBSET {"quota", "missing"} :
          LET failed == [relay EXCEPT !.error = error \cup {"raised"}]
          IN  relay' = IF "quota" \in error /\ relay.target = "gemini-3.1-pro-preview"
                       THEN [Asking(failed, "gemini-3.5-flash") EXCEPT !.notice = TRUE]
                       ELSE NextCandidate(failed)
    BY <1>4 DEF FirstCallFails
  <2> DEFINE failed == [relay EXCEPT !.error = error \cup {"raised"}]
  <2>2. RelayFields \subseteq DOMAIN failed /\ failed.tried \in Nat
    BY <1>1 DEF RelayFields
  <2>3. CASE relay' = [Asking(failed, "gemini-3.5-flash") EXCEPT !.notice = TRUE]
    <3> HIDE DEF failed
    <3>1. /\ RelayFields \subseteq DOMAIN relay' /\ relay'.tried \in Nat
          /\ relay'.at = "calling" /\ relay'.call = "gemini-3.5-flash"
          /\ relay'.used = "gemini-3.5-flash"
      BY <2>2, <2>3 DEF Asking, RelayFields
    <3>2. "gemini-3.5-flash" \in Models
      BY TiersAreModels DEF Tiers
    <3> QED
      BY <3>1, <3>2 DEF AnswerInv, RelayShape, AsksByName, AnswersAreTheirModels
  <2>4. CASE relay' = NextCandidate(failed)
    BY <2>2, <2>4, CandidateKeeps
  <2> QED
    BY <2>1, <2>3, <2>4
<1>5. CASE FallbackFails
  BY <1>1, <1>5, CandidateKeeps DEF FallbackFails
<1>6. CASE EndpointFails
  BY <1>1, <1>6, CatalogueKeeps DEF EndpointFails
<1> QED
  BY <1>2, <1>3, <1>4, <1>5, <1>6

LEMMA AnswerStepInv == AnswerInv /\ [RelayNext]_relayVars => AnswerInv'
<1> SUFFICES ASSUME AnswerInv, [RelayNext]_relayVars PROVE AnswerInv'
  OBVIOUS
<1>1. ASSUME UNCHANGED relay PROVE AnswerInv'
  BY <1>1 DEF AnswerInv, RelayShape, AsksByName, AnswersAreTheirModels, First
<1>2. CASE TimePasses \/ \E key \in Keys : Refuses(key)
  BY <1>1, <1>2 DEF TimePasses, Refuses
<1>3. CASE UNCHANGED relayVars
  BY <1>1, <1>3 DEF relayVars
<1>4. CASE EndpointResponds
  BY <1>4 DEF EndpointResponds, AnswerInv, RelayShape, RelayFields, AsksByName,
              AnswersAreTheirModels
<1>5. CASE TestEnds \/ Delivers
  BY <1>5, NoRelayKeeps DEF TestEnds, Delivers
<1> QED
  BY <1>2, <1>3, <1>4, <1>5, AdmittedKeeps, CallsKeepAnswers DEF RelayNext

\* Text of a model bears that model's name, however many fallbacks failed
\* before it; the catalogue's bears the engine's and says so, but for the one
\* that stands in for the first model's empty answer.
THEOREM AnswersBearTheirNames == RelaySpec => []AnswersAreTheirModels
<1>1. RelayInit => AnswerInv
  BY DEF RelayInit, NoRelay, AnswerInv, RelayShape, RelayFields, AsksByName,
         AnswersAreTheirModels
<1>2. AnswerInv => AnswersAreTheirModels
  BY DEF AnswerInv
<1> QED
  BY <1>1, <1>2, AnswerStepInv, PTL DEF RelaySpec

-----------------------------------------------------------------------------
(* The list of orders, reached from within the shop.  The device's orders   *)
(* are there from the start, so nothing starts a load beside the one the    *)
(* buttons wait for.                                                        *)

OneLoadAtATime ==
  /\ \A l \in loads : l.ask = asked
  /\ \A l, m \in loads : l = m
  /\ phase # "loading" => loads = {}

ListInv ==
  place = "list" /\ ~ early =>
    /\ device = Saved
    /\ OneLoadAtATime
    /\ {"offset", "fallback"} \subseteq DOMAIN page
    /\ PageShownIsAsked

\* A load that starts when none is under way is for what is asked from now on.
LEMMA ReloadKeepsList ==
  ASSUME ListInv, phase # "loading", NEW a, asked' = a, UNCHANGED device,
         Reloads(a, device)
  PROVE  ListInv'
<1> SUFFICES ASSUME place = "list", ~ early PROVE ListInv'
  BY DEF Reloads, ListInv
<1>1. /\ loads = {} /\ device = Saved
      /\ {"offset", "fallback"} \subseteq DOMAIN page
  BY DEF ListInv, OneLoadAtATime
<1>2. loads' = {Load(count + 1, place, a, device)} /\ phase' = "loading"
      /\ page' = [page EXCEPT !.fallback = FALSE]
  BY <1>1 DEF Reloads
<1>3. OneLoadAtATime'
  BY <1>2 DEF OneLoadAtATime, Load
<1>4. {"offset", "fallback"} \subseteq DOMAIN page'
  BY <1>1, <1>2
<1>5. PageShownIsAsked'
  BY <1>2 DEF PageShownIsAsked
<1> QED
  BY <1>1, <1>3, <1>4, <1>5 DEF ListInv

\* Whatever answers is the only load there is, and it was for what is asked.
LEMMA AnswerKeepsList ==
  ASSUME ListInv, NEW l \in loads, Answer(l)
  PROVE  ListInv'
<1> SUFFICES ASSUME place = "list", ~ early PROVE ListInv'
  BY DEF Answer, ListAnswers, ListFails, OrderAnswers, OrderFails, PaymentAnswers,
         TimelineAnswers, ListInv
<1>1. /\ OneLoadAtATime /\ device = Saved /\ l.ask = asked
      /\ {"offset", "fallback"} \subseteq DOMAIN page
  BY DEF ListInv, OneLoadAtATime
<1>2. ListAnswers(l) \/ ListFails(l)
  BY DEF Answer, OrderAnswers, OrderFails, PaymentAnswers, TimelineAnswers
<1>3. loads' = {} /\ UNCHANGED <<place, early, device, asked>>
  BY <1>1, <1>2 DEF ListAnswers, ListFails, OneLoadAtATime
<1>4. OneLoadAtATime'
  BY <1>3 DEF OneLoadAtATime
<1>5. {"offset", "fallback"} \subseteq DOMAIN page' /\ PageShownIsAsked'
  <2>1. CASE ListAnswers(l)
    <3>1. ListRead(l).offset = asked
      BY <1>1 DEF ListRead
    <3>2. DOMAIN page' = DOMAIN page /\ page'.offset = ListRead(l).offset
      BY <1>1, <2>1 DEF ListAnswers
    <3>3. {"offset", "fallback"} \subseteq DOMAIN page' /\ page'.offset = asked
      BY <1>1, <3>1, <3>2
    <3> QED
      BY <1>3, <3>3 DEF PageShownIsAsked
  <2>2. CASE ListFails(l)
    <3>1. CASE l.device # <<>>
      <4>1. {"offset", "fallback"} \subseteq DOMAIN page' /\ page'.fallback
        BY <2>2, <3>1 DEF ListFails
      <4> QED
        BY <4>1 DEF PageShownIsAsked
    <3>2. CASE l.device = <<>>
      BY <1>1, <2>2, <3>2 DEF ListFails, PageShownIsAsked
    <3> QED
      BY <3>1, <3>2
  <2> QED
    BY <1>2, <2>1, <2>2
<1> QED
  BY <1>1, <1>3, <1>4, <1>5 DEF ListInv

LEMMA StepKeepsList == ListInv /\ [OrderPagesNext]_orderVars => ListInv'
<1> SUFFICES ASSUME ListInv, [OrderPagesNext]_orderVars PROVE ListInv'
  OBVIOUS
<1>1. CASE Hydrate
  BY <1>1 DEF Hydrate, Reloads, ListInv
<1>2. CASE TryAgain \/ Newer \/ Older
  <2>1. phase # "loading" /\ \E a : asked' = a /\ UNCHANGED device /\ Reloads(a, device)
    BY <1>2 DEF TryAgain, Newer, Older, Paging
  <2> QED
    BY <2>1, ReloadKeepsList
<1>3. CASE \E t \in Types : SelectType(t)
  BY <1>3 DEF SelectType, Reloads, ListInv
<1>4. CASE \E l \in loads : Answer(l)
  BY <1>4, AnswerKeepsList
<1>5. CASE UNCHANGED orderVars
  BY <1>5 DEF orderVars, ListInv, OneLoadAtATime, PageShownIsAsked
<1> QED
  BY <1>1, <1>2, <1>3, <1>4, <1>5 DEF OrderPagesNext

\* The page of orders that is up is the page asked for: none of the list's
\* actions leaves a load behind that could answer later.
THEOREM ThePageIsTheOneAsked == OrderPagesSpec => []PageShownIsAsked
<1>1. OrderPagesInit => ListInv
  <2> SUFFICES ASSUME OrderPagesInit PROVE ListInv
    OBVIOUS
  <2>1. loads = {Load(1, place, asked, device)} /\ phase = "loading" /\ page = NoPage
        /\ (~ early => device = Saved)
    BY DEF OrderPagesInit
  <2>2. OneLoadAtATime
    BY <2>1 DEF OneLoadAtATime, Load
  <2> QED
    BY <2>1, <2>2 DEF ListInv, NoPage, PageShownIsAsked
<1>2. ListInv => PageShownIsAsked
  BY DEF ListInv, PageShownIsAsked
<1> QED
  BY <1>1, <1>2, StepKeepsList, PTL DEF OrderPagesSpec

-----------------------------------------------------------------------------
(* The audit ledger and its pages.  What a page selects of the rows: those *)
(* of a set are what is left without the others, each once.                *)

\* A set of numbers has a least member.
LEMMA LeastExists ==
  ASSUME NEW S, S \subseteq Nat, S # {}
  PROVE  \E m \in S : \A k \in S : m <= k
<1>1. PICK m \in S : \A k \in S : <<k, m>> \notin OpToRel(<, Nat)
  BY WFMin, NatLessThanWellFounded, Zenon
<1>2. \A k \in S : ~ (k < m)
  BY <1>1 DEF OpToRel
<1> QED
  BY <1>2

\* g holds what is left of the first rows, up to m of them.
Keeps(g, m, rows, set) ==
  g = [n \in 0 .. m |->
         IF n = 0 THEN <<>>
         ELSE IF rows[n] \in set THEN Append(g[n - 1], rows[n]) ELSE g[n - 1]]

\* The selections exist: were m the least number of rows without them, those of
\* the rows before would extend to it.
LEMMA SelectionsExist ==
  ASSUME NEW T, NEW rows \in Seq(T), NEW set, NEW m \in 0 .. Len(rows)
  PROVE  \E g : Keeps(g, m, rows, set)
<1> DEFINE Without == {k \in 0 .. Len(rows) : ~ \E g : Keeps(g, k, rows, set)}
<1>1. Len(rows) \in Nat
  OBVIOUS
<1>2. ASSUME Without # {} PROVE FALSE
  <2>0. Without \subseteq Nat
    BY <1>1
  <2>1. PICK k \in Without : \A j \in Without : k <= j
    <3> HIDE DEF Without
    <3> QED
      BY <1>2, <2>0, LeastExists
  <2>2. k \in 0 .. Len(rows) /\ ~ \E g : Keeps(g, k, rows, set)
    OBVIOUS
  <2>3. CASE k = 0
    <3> DEFINE h == [n \in 0 .. 0 |-> <<>>]
    <3>1. h = [n \in 0 .. 0 |->
                 IF n = 0 THEN <<>>
                 ELSE IF rows[n] \in set THEN Append(h[n - 1], rows[n]) ELSE h[n - 1]]
      OBVIOUS
    <3> QED
      BY <2>2, <2>3, <3>1 DEF Keeps
  <2>4. CASE k # 0
    <3>1. k - 1 \in 0 .. Len(rows) /\ k - 1 \notin Without /\ k \in Nat
      BY <1>1, <2>1, <2>2, <2>4
    <3>2. PICK g : Keeps(g, k - 1, rows, set)
      BY <3>1
    <3> DEFINE next(s, n) == IF rows[n] \in set THEN Append(s, rows[n]) ELSE s
               h == [n \in 0 .. k |-> IF n = k THEN next(g[k - 1], k) ELSE g[n]]
    <3>3. \A n \in 0 .. k - 1 : g[n] = IF n = 0 THEN <<>> ELSE next(g[n - 1], n)
      BY <3>2 DEF Keeps
    <3> HIDE DEF next
    <3>4. \A n \in 0 .. k : h[n] = IF n = 0 THEN <<>> ELSE next(h[n - 1], n)
      <4> SUFFICES ASSUME NEW n \in 0 .. k
                   PROVE  h[n] = IF n = 0 THEN <<>> ELSE next(h[n - 1], n)
        OBVIOUS
      <4>1. CASE n = k
        BY <2>4, <3>1, <4>1
      <4>2. CASE n # k
        <5>1. n \in 0 .. k - 1 /\ h[n] = g[n] /\ (n # 0 => h[n - 1] = g[n - 1])
          BY <3>1, <4>2
        <5> QED
          BY <3>3, <5>1
      <4> QED
        BY <4>1, <4>2
    <3>5. h = [n \in 0 .. k |-> IF n = 0 THEN <<>> ELSE next(h[n - 1], n)]
      <4> DEFINE f == [n \in 0 .. k |-> IF n = 0 THEN <<>> ELSE next(h[n - 1], n)]
      <4>1. DOMAIN h = 0 .. k /\ DOMAIN f = 0 .. k /\ \A n \in 0 .. k : f[n] = h[n]
        BY <3>4
      <4>2. h = [n \in 0 .. k |-> h[n]] /\ f = [n \in 0 .. k |-> f[n]]
        OBVIOUS
      <4> HIDE DEF h, f
      <4>3. h = f
        BY <4>1, <4>2
      <4> QED
        BY <4>3 DEF f
    <3>6. Keeps(h, k, rows, set)
      <4> HIDE DEF h
      <4> QED
        BY <3>5 DEF Keeps, next
    <3> QED
      BY <2>2, <3>6
  <2> QED
    BY <2>3, <2>4
<1> QED
  BY <1>2

\* The rows of kept are rows among the first n of rows, one for one.
OneForOne(kept, rows, n) ==
  \A j, k \in 1 .. Len(kept) : j # k =>
    \E i, l \in 1 .. n : i # l /\ rows[i] = kept[j] /\ rows[l] = kept[k]

\* What is left after n rows.
LeftOf(kept, rows, set, n, T) ==
  /\ kept \in Seq(T)
  /\ \A j \in 1 .. Len(kept) : \E i \in 1 .. n : rows[i] = kept[j] /\ rows[i] \in set
  /\ \A i \in 1 .. n : rows[i] \in set => \E j \in 1 .. Len(kept) : rows[i] = kept[j]
  /\ OneForOne(kept, rows, n)

\* One row more.
LEMMA OneRowMore ==
  ASSUME NEW T, NEW rows \in Seq(T), NEW set, NEW n \in 1 .. Len(rows),
         NEW kept, LeftOf(kept, rows, set, n - 1, T)
  PROVE  LeftOf(IF rows[n] \in set THEN Append(kept, rows[n]) ELSE kept, rows, set, n, T)
<1>1. kept \in Seq(T) /\ rows[n] \in T /\ n \in Nat /\ Len(kept) \in Nat
  BY DEF LeftOf
<1>2. /\ \A i \in 1 .. n - 1 : i \in 1 .. n
      /\ \A i \in 1 .. n : i \in 1 .. n - 1 \/ i = n
      /\ n \in 1 .. n /\ n \notin 1 .. n - 1
  BY <1>1
<1>a. OneForOne(kept, rows, n)
  BY <1>2 DEF LeftOf, OneForOne
<1>b. \A j \in 1 .. Len(kept) : \E i \in 1 .. n : rows[i] = kept[j] /\ rows[i] \in set
  BY <1>2 DEF LeftOf
<1>3. CASE rows[n] \notin set
  BY <1>2, <1>3, <1>a, <1>b DEF LeftOf
<1>4. CASE rows[n] \in set
  <2> DEFINE more == Append(kept, rows[n])
  <2>1. /\ more \in Seq(T) /\ Len(more) = Len(kept) + 1
        /\ \A j \in 1 .. Len(kept) : more[j] = kept[j]
        /\ more[Len(kept) + 1] = rows[n]
    BY <1>1, AppendProperties
  <2>2. /\ \A j \in 1 .. Len(more) : j \in 1 .. Len(kept) \/ j = Len(kept) + 1
        /\ \A j \in 1 .. Len(kept) : j \in 1 .. Len(more)
        /\ Len(kept) + 1 \in 1 .. Len(more)
    BY <1>1, <2>1
  <2> HIDE DEF more
  <2>3. \A j \in 1 .. Len(more) : \E i \in 1 .. n : rows[i] = more[j] /\ rows[i] \in set
    <3> TAKE j \in 1 .. Len(more)
    <3>1. CASE j \in 1 .. Len(kept)
      BY <1>b, <2>1, <3>1
    <3>2. CASE j = Len(kept) + 1
      BY <1>2, <1>4, <2>1, <3>2
    <3> QED
      BY <2>2, <3>1, <3>2
  <2>4. \A i \in 1 .. n : rows[i] \in set => \E j \in 1 .. Len(more) : rows[i] = more[j]
    BY <1>2, <2>1, <2>2 DEF LeftOf
  <2>5. OneForOne(more, rows, n)
    <3> SUFFICES ASSUME NEW j \in 1 .. Len(more), NEW k \in 1 .. Len(more), j # k
                 PROVE  \E i, l \in 1 .. n : i # l /\ rows[i] = more[j] /\ rows[l] = more[k]
      BY DEF OneForOne
    <3>1. CASE j \in 1 .. Len(kept) /\ k \in 1 .. Len(kept)
      <4>1. more[j] = kept[j] /\ more[k] = kept[k]
        BY <2>1, <3>1
      <4> QED
        BY <1>a, <3>1, <4>1 DEF OneForOne
    <3>2. CASE j \in 1 .. Len(kept) /\ k = Len(kept) + 1
      <4>1. PICK i \in 1 .. n - 1 : rows[i] = more[j]
        BY <2>1, <3>2 DEF LeftOf
      <4> QED
        BY <1>2, <2>1, <3>2, <4>1
    <3>3. CASE j = Len(kept) + 1 /\ k \in 1 .. Len(kept)
      <4>1. PICK l \in 1 .. n - 1 : rows[l] = more[k]
        BY <2>1, <3>3 DEF LeftOf
      <4> QED
        BY <1>2, <2>1, <3>3, <4>1
    <3> QED
      BY <2>2, <3>1, <3>2, <3>3
  <2>6. LeftOf(more, rows, set, n, T)
    BY <2>1, <2>3, <2>4, <2>5 DEF LeftOf
  <2> QED
    BY <1>4, <2>6 DEF more
<1> QED
  BY <1>3, <1>4

\* Those(rows, set) is what its name says.
LEMMA ThoseAreLeft ==
  ASSUME NEW T, NEW rows \in Seq(T), NEW set
  PROVE  LeftOf(Those(rows, set), rows, set, Len(rows), T)
<1> DEFINE g == CHOOSE f : Keeps(f, Len(rows), rows, set)
           Wrong == {n \in 0 .. Len(rows) : ~ LeftOf(g[n], rows, set, n, T)}
<1>1. Len(rows) \in Nat
  OBVIOUS
<1>2. Keeps(g, Len(rows), rows, set)
  BY <1>1, SelectionsExist
<1>3. Those(rows, set) = g[Len(rows)]
  BY DEF Those, Keeps
<1> HIDE DEF g
<1>4. \A n \in 0 .. Len(rows) :
        g[n] = IF n = 0 THEN <<>>
               ELSE IF rows[n] \in set THEN Append(g[n - 1], rows[n]) ELSE g[n - 1]
  BY <1>2 DEF Keeps
<1>5. ASSUME Wrong # {} PROVE FALSE
  <2>0. Wrong \subseteq Nat
    BY <1>1
  <2>1. PICK n \in Wrong : \A j \in Wrong : n <= j
    <3> HIDE DEF Wrong
    <3> QED
      BY <1>5, <2>0, LeastExists
  <2>2. n \in 0 .. Len(rows) /\ ~ LeftOf(g[n], rows, set, n, T)
    OBVIOUS
  <2>3. CASE n = 0
    <3>1. g[n] = <<>> /\ Len(<<>>) = 0 /\ <<>> \in Seq(T)
      BY <1>4, <2>2, <2>3
    <3>2. LeftOf(g[n], rows, set, n, T)
      BY <2>3, <3>1 DEF LeftOf, OneForOne
    <3> QED
      BY <2>2, <3>2
  <2>4. CASE n # 0
    <3>1. n - 1 \in 0 .. Len(rows) /\ n - 1 \notin Wrong /\ n \in 1 .. Len(rows)
      BY <1>1, <2>1, <2>2, <2>4
    <3>2. LeftOf(g[n - 1], rows, set, n - 1, T)
      BY <3>1
    <3>3. g[n] = IF rows[n] \in set THEN Append(g[n - 1], rows[n]) ELSE g[n - 1]
      BY <1>4, <2>2, <2>4
    <3> QED
      BY <2>2, <3>1, <3>2, <3>3, OneRowMore
  <2> QED
    BY <2>3, <2>4
<1>6. Len(rows) \notin Wrong /\ Len(rows) \in 0 .. Len(rows)
  BY <1>1, <1>5
<1> QED
  BY <1>3, <1>6

-----------------------------------------------------------------------------
(* What the console makes of the rows it is answered *)

Parts == {"checkout", "authorization", "payment", "order"}
RowTypes == {"CHECKOUT_CREATED", "PRICE_FROZEN", "POLICY_EVALUATED", "AUTHORIZATION_REQUESTED",
          "AUTHORIZATION_GRANTED", "AUTHORIZATION_REJECTED", "AUTHORIZATION_BOUND",
          "PAYMENT_CREATED", "PAYMENT_CAPTURED", "PAYMENT_ATTACHED", "PAYMENT_VERIFIED",
          "PAYMENT_FAILED", "ORDER_CONFIRMED", "ORDER_FULFILLED"}
Decisions == {"none", "allow", "ALLOW", "REQUIRE_APPROVAL"}
Rows == [sale : Nat, on : Parts, type : RowTypes, named : BOOLEAN, decision : Decisions]

\* The row that counts an order, and those that show a sale as paid.
Confirms(r) == r.type = "ORDER_CONFIRMED"
ShowsPaid(r) == r.type \in {"ORDER_CONFIRMED", "PAYMENT_VERIFIED"}

\* What is shown as paid was paid.
Honest(rows, paid) ==
  \A i \in 1 .. Len(rows) : \A x \in Sales :
    ShowsPaid(rows[i]) /\ KeyOf(rows[i]) = SaleKey(x) => x \in paid

\* The order of every sale that was paid is there, once.
Whole(rows, paid) ==
  /\ \A x \in paid : \E i \in 1 .. Len(rows) : Confirms(rows[i]) /\ rows[i].sale = x
  /\ \A i \in 1 .. Len(rows) : Confirms(rows[i]) =>
       rows[i].named /\ rows[i].on = "order" /\ rows[i].sale \in paid
  /\ \A i, j \in 1 .. Len(rows) :
       Confirms(rows[i]) /\ Confirms(rows[j]) /\ rows[i].sale = rows[j].sale => i = j

\* What the console makes of rows that were asked for.
Agrees(rows, paid, query, read) ==
  /\ ShownPaid(rows) \subseteq paid
  /\ read /\ LetsOrdersThrough(query) /\ Len(rows) < query.limit =>
       ShownPaid(rows) = paid /\ OrdersCounted(rows) = Cardinality(paid)

\* The rows of a sequence as a set.
LEMMA RowsOfSequence ==
  ASSUME NEW T, NEW rows \in Seq(T)
  PROVE  /\ Len(rows) \in Nat /\ DOMAIN rows = 1 .. Len(rows)
         /\ ToSet(rows) = {rows[i] : i \in 1 .. Len(rows)}
BY LenProperties DEF ToSet

\* A group has the rows of the list that have its key.
LEMMA GroupsHold ==
  ASSUME NEW rows \in Seq(Rows), NEW key
  PROVE  /\ GroupOf(rows, key) \in Seq(Rows)
         /\ ToSet(GroupOf(rows, key)) = {r \in ToSet(rows) : KeyOf(r) = key}
<1> DEFINE keyed == {r \in ToSet(rows) : KeyOf(r) = key}
           group == Those(rows, keyed)
<1>1. LeftOf(group, rows, keyed, Len(rows), Rows)
  BY ThoseAreLeft
<1>2. group \in Seq(Rows)
  BY <1>1 DEF LeftOf
<1>3. /\ ToSet(group) = {group[j] : j \in 1 .. Len(group)}
      /\ ToSet(rows) = {rows[i] : i \in 1 .. Len(rows)}
  BY <1>2, RowsOfSequence
<1> HIDE DEF group, keyed
<1>4. ToSet(group) = {r \in ToSet(rows) : r \in keyed}
  BY <1>1, <1>3 DEF LeftOf
<1> QED
  BY <1>2, <1>4 DEF group, keyed, GroupOf

\* A sale that is shown as paid has a row that shows it.
LEMMA PaidHasARow ==
  ASSUME NEW rows \in Seq(Rows), NEW x \in ShownPaid(rows)
  PROVE  x \in Sales /\ \E r \in ToSet(rows) : ShowsPaid(r) /\ KeyOf(r) = SaleKey(x)
<1> DEFINE group == GroupOf(rows, SaleKey(x))
<1>1. x \in Sales /\ OutcomeOf(group) \in {"confirmed", "recovered"}
  BY DEF ShownPaid
<1>2. /\ group \in Seq(Rows)
      /\ ToSet(group) = {r \in ToSet(rows) : KeyOf(r) = SaleKey(x)}
  BY GroupsHold
<1> HIDE DEF group
<1>3. \/ Recovered(group)
      \/ Holds(group, "ORDER_CONFIRMED") \/ Holds(group, "PAYMENT_VERIFIED")
  BY <1>1 DEF OutcomeOf
<1>4. \E r \in ToSet(group) : ShowsPaid(r)
  <2>1. CASE Recovered(group)
    <3>1. PICK j \in DOMAIN group : ShowsPaid(group[j])
      BY <2>1 DEF Recovered, Before, ShowsPaid
    <3> QED
      BY <3>1 DEF ToSet
  <2>2. CASE Holds(group, "ORDER_CONFIRMED") \/ Holds(group, "PAYMENT_VERIFIED")
    BY <2>2 DEF Holds, ShowsPaid
  <2> QED
    BY <1>3, <2>1, <2>2
<1> QED
  BY <1>1, <1>2, <1>4

\* Of honest rows no sale is shown as paid that was not.
LEMMA HonestRowsShowThePaid ==
  ASSUME NEW rows \in Seq(Rows), NEW paid, Honest(rows, paid)
  PROVE  ShownPaid(rows) \subseteq paid
BY PaidHasARow, RowsOfSequence DEF Honest

\* The orders counted are as many as the sales that were paid.
LEMMA WholeRowsCountThePaid ==
  ASSUME NEW rows \in Seq(Rows), NEW paid \in SUBSET Sales, Whole(rows, paid)
  PROVE  OrdersCounted(rows) = Cardinality(paid)
<1> DEFINE confirming == {r \in ToSet(rows) : r.type = "ORDER_CONFIRMED"}
           counted == Those(rows, confirming)
           saleOf == [j \in 1 .. Len(counted) |-> counted[j].sale]
<1>1. LeftOf(counted, rows, confirming, Len(rows), Rows)
  BY ThoseAreLeft
<1>2. counted \in Seq(Rows) /\ Len(counted) \in Nat
  BY <1>1 DEF LeftOf
<1>3. \A i \in 1 .. Len(rows) : rows[i] \in confirming <=> Confirms(rows[i])
  BY RowsOfSequence DEF Confirms
<1> HIDE DEF counted, confirming
<1>4. saleOf \in [1 .. Len(counted) -> paid]
  BY <1>1, <1>3 DEF LeftOf, Whole
<1>5. ASSUME NEW x \in paid PROVE \E j \in 1 .. Len(counted) : saleOf[j] = x
  <2>1. PICK i \in 1 .. Len(rows) : Confirms(rows[i]) /\ rows[i].sale = x
    BY DEF Whole
  <2>2. PICK j \in 1 .. Len(counted) : rows[i] = counted[j]
    BY <1>1, <1>3, <2>1 DEF LeftOf
  <2> QED
    BY <2>1, <2>2
<1>6. \A j, k \in 1 .. Len(counted) : saleOf[j] = saleOf[k] => j = k
  <2> SUFFICES ASSUME NEW j \in 1 .. Len(counted), NEW k \in 1 .. Len(counted),
                      counted[j].sale = counted[k].sale, j # k
               PROVE  FALSE
    OBVIOUS
  <2>1. PICK i \in 1 .. Len(rows), l \in 1 .. Len(rows) :
          i # l /\ rows[i] = counted[j] /\ rows[l] = counted[k]
    BY <1>1 DEF LeftOf, OneForOne
  <2>2. rows[i] \in confirming /\ rows[l] \in confirming
    BY <1>1, <2>1 DEF LeftOf
  <2> QED
    BY <1>3, <2>1, <2>2 DEF Whole
<1> HIDE DEF saleOf
<1>7. saleOf \in Bijection(1 .. Len(counted), paid)
  <2>1. DOMAIN saleOf = 1 .. Len(counted)
    BY <1>4
  <2>2. saleOf \in Injection(1 .. Len(counted), paid)
    BY <1>4, <1>6, <2>1 DEF Injection, IsInjective
  <2>3. saleOf \in Surjection(1 .. Len(counted), paid)
    BY <1>4, <1>5 DEF Surjection
  <2> QED
    BY <2>2, <2>3 DEF Bijection
<1>8. IsFiniteSet(1 .. Len(counted)) /\ Cardinality(1 .. Len(counted)) = Len(counted)
  <2>1. PICK n \in Nat : n = Len(counted)
    BY <1>2
  <2>2. 1 \in Int /\ n \in Int
    BY <2>1
  <2>3. IsFiniteSet(1 .. n) /\ Cardinality(1 .. n) = IF 1 > n THEN 0 ELSE n - 1 + 1
    BY <2>2, FS_Interval
  <2> QED
    BY <2>1, <2>3
<1>9. Cardinality(paid) = Cardinality(1 .. Len(counted))
  BY <1>7, <1>8, FS_Bijection DEF ExistsBijection
<1> QED
  BY <1>8, <1>9 DEF OrdersCounted, counted, confirming

\* Of rows that are whole besides, every sale that was.
LEMMA WholeRowsShowThePaid ==
  ASSUME NEW rows \in Seq(Rows), NEW paid \in SUBSET Sales,
         Honest(rows, paid), Whole(rows, paid)
  PROVE  ShownPaid(rows) = paid
<1>1. ASSUME NEW x \in paid PROVE x \in ShownPaid(rows)
  <2> DEFINE group == GroupOf(rows, SaleKey(x))
  <2>1. PICK i \in 1 .. Len(rows) : Confirms(rows[i]) /\ rows[i].sale = x
    BY DEF Whole
  <2>2. rows[i] \in ToSet(rows) /\ rows[i].named
    BY <2>1, RowsOfSequence DEF Whole
  <2>3. KeyOf(rows[i]) = SaleKey(x)
    BY <2>1, <2>2 DEF KeyOf, SaleKey
  <2>4. rows[i] \in ToSet(group) /\ Holds(group, "ORDER_CONFIRMED")
    BY <2>1, <2>2, <2>3, GroupsHold DEF Holds, Confirms
  <2>5. SaleKey(x) \in GroupKeys(rows)
    BY <2>2, <2>3 DEF GroupKeys
  <2> HIDE DEF group
  <2>6. OutcomeOf(group) \in {"confirmed", "recovered"}
    BY <2>4 DEF OutcomeOf
  <2> QED
    BY <2>5, <2>6 DEF ShownPaid, group
<1> QED
  BY <1>1, HonestRowsShowThePaid

-----------------------------------------------------------------------------
(* What the ledger answers *)

\* The rows of kept are rows of rows, one for one.
Selects(kept, rows) ==
  /\ kept \in Seq(Rows)
  /\ \A j \in 1 .. Len(kept) : \E i \in 1 .. Len(rows) : rows[i] = kept[j]
  /\ OneForOne(kept, rows, Len(rows))

\* A selection is as honest, and if it lost no order, as whole.
LEMMA SelectionIsHonest ==
  ASSUME NEW kept, NEW rows, Selects(kept, rows), NEW paid, Honest(rows, paid)
  PROVE  Honest(kept, paid)
BY DEF Selects, Honest

LEMMA SelectionIsWhole ==
  ASSUME NEW kept, NEW rows, Selects(kept, rows), NEW paid, Whole(rows, paid),
         \A i \in 1 .. Len(rows) : Confirms(rows[i]) =>
           \E j \in 1 .. Len(kept) : kept[j] = rows[i]
  PROVE  Whole(kept, paid)
<1>1. ASSUME NEW x \in paid PROVE \E j \in 1 .. Len(kept) : Confirms(kept[j]) /\ kept[j].sale = x
  <2>1. PICK i \in 1 .. Len(rows) : Confirms(rows[i]) /\ rows[i].sale = x
    BY DEF Whole
  <2> QED
    BY <2>1
<1>2. \A j \in 1 .. Len(kept) : Confirms(kept[j]) =>
        kept[j].named /\ kept[j].on = "order" /\ kept[j].sale \in paid
  BY DEF Selects, Whole
<1>3. ASSUME NEW j \in 1 .. Len(kept), NEW k \in 1 .. Len(kept),
             Confirms(kept[j]), Confirms(kept[k]), kept[j].sale = kept[k].sale, j # k
      PROVE  FALSE
  <2>1. PICK i \in 1 .. Len(rows), l \in 1 .. Len(rows) :
          i # l /\ rows[i] = kept[j] /\ rows[l] = kept[k]
    BY <1>3 DEF Selects, OneForOne
  <2> QED
    BY <1>3, <2>1 DEF Whole
<1> QED
  BY <1>1, <1>2, <1>3 DEF Whole

\* Newest first: the same rows.
LEMMA ReverseSelects ==
  ASSUME NEW rows \in Seq(Rows)
  PROVE  /\ Selects(Reverse(rows), rows) /\ Len(Reverse(rows)) = Len(rows)
         /\ \A i \in 1 .. Len(rows) : \E j \in 1 .. Len(rows) : Reverse(rows)[j] = rows[i]
<1> DEFINE back == Reverse(rows)
<1>1. Len(rows) \in Nat
  OBVIOUS
<1>2. back = [i \in 1 .. Len(rows) |-> rows[(Len(rows) - i) + 1]]
  BY DEF Reverse
<1>3. \A i \in 1 .. Len(rows) : (Len(rows) - i) + 1 \in 1 .. Len(rows)
  BY <1>1
<1>4. back \in Seq(Rows) /\ Len(back) = Len(rows)
  <2>1. \A i \in 1 .. Len(rows) : rows[(Len(rows) - i) + 1] \in Rows
    BY <1>3
  <2> QED
    BY <1>1, <1>2, <2>1
<1>5. \A i \in 1 .. Len(rows) : back[i] = rows[(Len(rows) - i) + 1]
  BY <1>2
<1> HIDE DEF back
<1>6. OneForOne(back, rows, Len(rows))
  <2> SUFFICES ASSUME NEW j \in 1 .. Len(rows), NEW k \in 1 .. Len(rows), j # k
               PROVE  \E i, l \in 1 .. Len(rows) : i # l /\ rows[i] = back[j] /\ rows[l] = back[k]
    BY <1>4 DEF OneForOne
  <2>1. (Len(rows) - j) + 1 # (Len(rows) - k) + 1
    BY <1>1
  <2> QED
    BY <1>3, <1>5, <2>1
<1>7. \A i \in 1 .. Len(rows) : \E j \in 1 .. Len(rows) : back[j] = rows[i]
  <2> TAKE i \in 1 .. Len(rows)
  <2>1. (Len(rows) - ((Len(rows) - i) + 1)) + 1 = i
    BY <1>1
  <2> QED
    BY <1>3, <1>5, <2>1
<1> QED
  BY <1>3, <1>4, <1>5, <1>6, <1>7 DEF Selects, back

\* What meets the filters; where these let the orders through, all of them.
LEMMA MatchingSelects ==
  ASSUME NEW rows \in Seq(Rows), NEW query
  PROVE  /\ Selects(Matching(rows, query), rows)
         /\ LetsOrdersThrough(query) =>
              \A i \in 1 .. Len(rows) : Confirms(rows[i]) /\ rows[i].on = "order" =>
                \E j \in 1 .. Len(Matching(rows, query)) : Matching(rows, query)[j] = rows[i]
<1> DEFINE meeting == {r \in ToSet(rows) : Meets(r, query)}
           kept == Those(rows, meeting)
<1>1. LeftOf(kept, rows, meeting, Len(rows), Rows) /\ Matching(rows, query) = kept
  BY ThoseAreLeft DEF Matching
<1>2. LetsOrdersThrough(query) =>
        \A i \in 1 .. Len(rows) :
          Confirms(rows[i]) /\ rows[i].on = "order" => rows[i] \in meeting
  BY RowsOfSequence DEF LetsOrdersThrough, Meets, Confirms
<1> HIDE DEF kept, meeting
<1>3. Selects(kept, rows)
  BY <1>1 DEF LeftOf, Selects
<1>4. ASSUME LetsOrdersThrough(query), NEW i \in 1 .. Len(rows),
             Confirms(rows[i]), rows[i].on = "order"
      PROVE  \E j \in 1 .. Len(kept) : kept[j] = rows[i]
  BY <1>1, <1>2, <1>4 DEF LeftOf
<1> QED
  BY <1>1, <1>3, <1>4

\* The first rows of a list; of a short list, all of them.
LEMMA WindowSelects ==
  ASSUME NEW rows \in Seq(Rows), NEW n \in Nat
  PROVE  /\ Selects(Window(rows, n), rows)
         /\ Len(Window(rows, n)) < n => Len(rows) < n /\ Len(Window(rows, n)) = Len(rows)
                                       /\ \A i \in 1 .. Len(rows) : Window(rows, n)[i] = rows[i]
<1> DEFINE m == IF Len(rows) < n THEN Len(rows) ELSE n
           shown == SubSeq(rows, 1, m)
<1>1. m \in Nat /\ m <= Len(rows) /\ Len(rows) \in Nat /\ (m < n => m = Len(rows) /\ Len(rows) < n)
  OBVIOUS
<1> HIDE DEF m
<1>2. \A i \in 1 .. m : i \in 1 .. Len(rows) /\ rows[i] \in Rows
  BY <1>1
<1>3. /\ shown \in Seq(Rows) /\ Len(shown) = m
      /\ \A i \in 1 .. m : shown[i] = rows[i]
  <2>1. \A i \in 1 .. m : 1 + i - 1 = i
    BY <1>1
  <2>2. /\ shown \in Seq(Rows) /\ Len(shown) = IF 1 <= m THEN m - 1 + 1 ELSE 0
        /\ \A i \in 1 .. m - 1 + 1 : shown[i] = rows[1 + i - 1]
    BY <1>1, <1>2, SubSeqProperties
  <2>3. m - 1 + 1 = m /\ (~ (1 <= m) => m = 0)
    BY <1>1
  <2> QED
    BY <2>1, <2>2, <2>3
<1> HIDE DEF shown
<1>4. Selects(shown, rows)
  BY <1>2, <1>3 DEF Selects, OneForOne
<1>5. Window(rows, n) = shown
  BY DEF Window, shown, m
<1> QED
  BY <1>1, <1>3, <1>4, <1>5

\* Two selections, one after the other.
LEMMA SelectionsCompose ==
  ASSUME NEW a, NEW b, NEW c, Selects(a, b), Selects(b, c)
  PROVE  Selects(a, c)
<1>1. \A j \in 1 .. Len(a) : \E i \in 1 .. Len(c) : c[i] = a[j]
  BY DEF Selects
<1>2. ASSUME NEW j \in 1 .. Len(a), NEW k \in 1 .. Len(a), j # k
      PROVE  \E i, l \in 1 .. Len(c) : i # l /\ c[i] = a[j] /\ c[l] = a[k]
  <2>1. PICK p \in 1 .. Len(b), q \in 1 .. Len(b) : p # q /\ b[p] = a[j] /\ b[q] = a[k]
    BY <1>2 DEF Selects, OneForOne
  <2>2. PICK i \in 1 .. Len(c), l \in 1 .. Len(c) : i # l /\ c[i] = b[p] /\ c[l] = b[q]
    BY <2>1 DEF Selects, OneForOne
  <2> QED
    BY <2>1, <2>2
<1> QED
  BY <1>1, <1>2 DEF Selects, OneForOne

\* An answer is honest; one of the gateway that is not cut off is whole.
LEMMA AnswersAgree ==
  ASSUME NEW rows \in Seq(Rows), recent \in Seq(Rows), NEW filters, filters.limit \in Nat,
         NEW paid, Honest(rows, paid), Honest(recent, paid)
  PROVE  /\ AnswerTo(rows, filters) \in Seq(Rows) /\ Honest(AnswerTo(rows, filters), paid)
         /\ /\ recent = <<>> /\ Whole(rows, paid) /\ LetsOrdersThrough(filters)
            /\ Len(AnswerTo(rows, filters)) < filters.limit
            => Whole(AnswerTo(rows, filters), paid)
<1> DEFINE back == Reverse(rows)
           kept == Matching(back, filters)
           first == Window(kept, filters.limit)
           others == Matching(recent, filters)
           all == first \o others
           shown == Window(all, filters.limit)
<1>1. /\ Selects(back, rows) /\ Len(back) = Len(rows)
      /\ \A i \in 1 .. Len(rows) : \E j \in 1 .. Len(back) : back[j] = rows[i]
  BY ReverseSelects
<1>2. back \in Seq(Rows)
  BY <1>1 DEF Selects
<1> HIDE DEF back
<1>3. /\ Selects(kept, back)
      /\ LetsOrdersThrough(filters) =>
           \A i \in 1 .. Len(back) : Confirms(back[i]) /\ back[i].on = "order" =>
             \E j \in 1 .. Len(kept) : kept[j] = back[i]
  BY <1>2, MatchingSelects
<1>4. kept \in Seq(Rows)
  BY <1>3 DEF Selects
<1> HIDE DEF kept
<1>5. /\ Selects(first, kept)
      /\ Len(first) < filters.limit => Len(first) = Len(kept)
                                  /\ \A i \in 1 .. Len(kept) : first[i] = kept[i]
  BY <1>4, WindowSelects
<1>6. Selects(others, recent)
  BY MatchingSelects
<1> HIDE DEF first, others
<1>7. first \in Seq(Rows) /\ others \in Seq(Rows) /\ Len(first) \in Nat /\ Len(others) \in Nat
  BY <1>5, <1>6 DEF Selects
<1>8. /\ all \in Seq(Rows) /\ Len(all) = Len(first) + Len(others)
      /\ \A i \in 1 .. Len(first) + Len(others) :
           all[i] = IF i <= Len(first) THEN first[i] ELSE others[i - Len(first)]
  BY <1>7, ConcatProperties
<1> HIDE DEF all
<1>9. /\ Selects(shown, all)
      /\ Len(shown) < filters.limit => /\ Len(all) < filters.limit /\ Len(shown) = Len(all)
                                   /\ \A i \in 1 .. Len(all) : shown[i] = all[i]
  BY <1>8, WindowSelects
<1> HIDE DEF shown
<1>10. Honest(shown, paid)
  <2>1. Honest(back, paid)
    BY <1>1, SelectionIsHonest
  <2>2. Honest(kept, paid)
    BY <1>3, <2>1, SelectionIsHonest
  <2>3. Honest(first, paid)
    BY <1>5, <2>2, SelectionIsHonest
  <2>4. Honest(others, paid)
    BY <1>6, SelectionIsHonest
  <2>5. ASSUME NEW i \in 1 .. Len(all)
        PROVE  \/ \E j \in 1 .. Len(first) : all[i] = first[j]
               \/ \E j \in 1 .. Len(others) : all[i] = others[j]
    <3>1. CASE i <= Len(first)
      BY <1>7, <1>8, <3>1
    <3>2. CASE ~ (i <= Len(first))
      <4>1. i - Len(first) \in 1 .. Len(others)
        BY <1>7, <1>8, <3>2
      <4> QED
        BY <1>7, <1>8, <3>2, <4>1
    <3> QED
      BY <3>1, <3>2
  <2>6. Honest(all, paid)
    BY <2>3, <2>4, <2>5 DEF Honest
  <2> QED
    BY <1>9, <2>6, SelectionIsHonest
<1>11. ASSUME recent = <<>>, Whole(rows, paid), LetsOrdersThrough(filters),
              Len(shown) < filters.limit
       PROVE  Whole(shown, paid)
  <2>1. Len(others) = 0
    <3>1. Len(recent) = 0
      BY <1>11
    <3>2. 1 \notin 1 .. Len(others)
      BY <1>6, <3>1 DEF Selects
    <3> QED
      BY <1>7, <3>2
  <2>2. Len(all) = Len(first) /\ \A i \in 1 .. Len(first) : all[i] = first[i]
    BY <1>7, <1>8, <2>1
  <2>3. Selects(all, first)
    BY <1>8, <2>2 DEF Selects, OneForOne
  <2>4. Selects(shown, rows)
    <3>1. Selects(kept, rows)
      BY <1>1, <1>3, SelectionsCompose
    <3>2. Selects(first, rows)
      BY <1>5, <3>1, SelectionsCompose
    <3>3. Selects(all, rows)
      BY <2>3, <3>2, SelectionsCompose
    <3> QED
      BY <1>9, <3>3, SelectionsCompose
  <2>5. Len(shown) = Len(kept) /\ \A i \in 1 .. Len(kept) : shown[i] = kept[i]
    BY <1>5, <1>9, <1>11, <2>2
  <2>6. ASSUME NEW i \in 1 .. Len(rows), Confirms(rows[i])
        PROVE  \E j \in 1 .. Len(shown) : shown[j] = rows[i]
    <3>1. PICK k \in 1 .. Len(back) : back[k] = rows[i]
      BY <1>1
    <3>2. rows[i].on = "order"
      BY <1>11, <2>6 DEF Whole
    <3>3. PICK j \in 1 .. Len(kept) : kept[j] = back[k]
      BY <1>3, <1>11, <2>6, <3>1, <3>2
    <3> QED
      BY <2>5, <3>1, <3>3
  <2> QED
    BY <1>11, <2>4, <2>6, SelectionIsWhole
<1>12. shown \in Seq(Rows)
  BY <1>9 DEF Selects
<1>13. AnswerTo(rows, filters) = shown
  BY DEF AnswerTo, shown, all, first, others, kept, back
<1> QED
  BY <1>10, <1>11, <1>12, <1>13

\* Rows of a stretch of time are rows of the ledger; of all time, all of them.
LEMMA RowsInTime ==
  ASSUME ledger \in Seq(Rows), NEW query, NEW rows \in InTime(query)
  PROVE  Selects(rows, ledger) /\ (LetsOrdersThrough(query) => rows = ledger)
<1>1. PICK from \in 1 .. Len(ledger) + 1, until \in 0 .. Len(ledger) :
        /\ rows = SubSeq(ledger, from, until)
        /\ ~ query.starts => from = 1
        /\ ~ query.ends => until = Len(ledger)
  BY DEF InTime
<1>2. Len(ledger) \in Nat /\ from \in Nat /\ until \in Nat
  OBVIOUS
<1>3. \A i \in from .. until : i \in 1 .. Len(ledger) /\ ledger[i] \in Rows
  BY <1>2
<1>4. /\ rows \in Seq(Rows) /\ Len(rows) = IF from <= until THEN until - from + 1 ELSE 0
      /\ \A i \in 1 .. until - from + 1 : rows[i] = ledger[from + i - 1]
  BY <1>1, <1>2, <1>3, SubSeqProperties
<1>5. \A i \in 1 .. Len(rows) : from + i - 1 \in 1 .. Len(ledger) /\ rows[i] = ledger[from + i - 1]
  BY <1>2, <1>4
<1>6. \A i, j \in 1 .. Len(rows) : i # j => from + i - 1 # from + j - 1
  BY <1>2, <1>4
<1>7. Selects(rows, ledger)
  BY <1>4, <1>5, <1>6 DEF Selects, OneForOne
<1>8. ASSUME LetsOrdersThrough(query) PROVE rows = ledger
  <2>1. from = 1 /\ until = Len(ledger)
    BY <1>1, <1>8 DEF LetsOrdersThrough
  <2>2. Len(rows) = Len(ledger)
    BY <1>2, <1>4, <2>1
  <2>3. \A i \in 1 .. Len(ledger) : 1 + i - 1 = i
    BY <1>2
  <2>4. \A i \in 1 .. Len(ledger) : rows[i] = ledger[i]
    BY <1>5, <2>1, <2>2, <2>3
  <2> QED
    BY <1>4, <2>2, <2>4, SeqEqual
<1> QED
  BY <1>7, <1>8

-----------------------------------------------------------------------------
(* The invariant of the ledger and the console *)

Stages == {"none", "created", "pending", "approved", "paying", "rejected",
           "confirmed", "failed", "unsettled"}

\* Everyone's rows are honest; the gateway's, which commit with what they tell
\* of, are whole as well, and its answers come from nowhere else.
BooksInv ==
  /\ home \in {"gateway", "local"} /\ stage \in [Sales -> Stages]
  /\ ledger \in Seq(Rows) /\ recent \in Seq(Rows)
  /\ Honest(ledger, Paid) /\ Honest(recent, Paid)
  /\ home = "gateway" => recent = <<>> /\ Whole(ledger, Paid)

Screens == [at : Pages \cup {"elsewhere"}, form : FilterFields, applied : FilterFields, rows : Seq(Rows),
            paid : SUBSET Sales, read : BOOLEAN,
            phase : {"loading", "loaded", "failed", "partly"}, busy : BOOLEAN]
LedgerReads == [n : Nat, ask : FilterFields, at : {"asked", "read"}, rows : Seq(Rows),
          paid : SUBSET Sales, read : BOOLEAN]

\* What was read was right when it was read, and is right where it is shown.
ConsoleInv ==
  /\ console \in Screens /\ readings \subseteq LedgerReads /\ started \in Nat
  /\ home = "local" => readings = {} /\ console = Closed
  /\ console.phase = "loaded" =>
       Agrees(console.rows, console.paid, console.applied, console.read)
  /\ \A r \in readings : IF r.at = "read" THEN Agrees(r.rows, r.paid, r.ask, r.read)
                         ELSE r.rows = <<>>

LedgerInv == BooksInv /\ ConsoleInv

\* What pages ask for of themselves, and what is filled in, are filters.
LEMMA AskedAreFilters ==
  /\ AllRows \in FilterFields /\ EmptyFilters \in FilterFields /\ Filters \subseteq FilterFields
  /\ \A at : FirstAsked(at) \in FilterFields
  /\ \A n \in RowLimits : [AllRows EXCEPT !.limit = n] \in FilterFields
<1>1. Widest \in RowLimits
  BY LedgerAssumption DEF Widest
<1>2. /\ AllRows \in FilterFields
      /\ \A n \in RowLimits : [AllRows EXCEPT !.limit = n] \in FilterFields
      /\ [AllRows EXCEPT !.starts = TRUE] \in FilterFields
  <2>1. /\ Anything \in EventTypes /\ Anything \in Aggregates
        /\ AnyOf \in Aggregates \X Nat
    BY DEF EventTypes, Aggregates, AnyOf
  <2>2. AllRows \in FilterFields
    BY <1>1, <2>1 DEF AllRows, FilterFields
  <2>3. ASSUME NEW n \in RowLimits PROVE [AllRows EXCEPT !.limit = n] \in FilterFields
    BY <2>2 DEF FilterFields
  <2>4. [AllRows EXCEPT !.starts = TRUE] \in FilterFields
    BY <2>2 DEF FilterFields
  <2> QED
    BY <2>2, <2>3, <2>4
<1>3. EmptyFilters \in FilterFields
  <2>1. AuditRows \in RowLimits
    BY FiltersAssumption, Zenon
  <2>2. [AllRows EXCEPT !.limit = AuditRows] \in FilterFields
    BY <1>2, <2>1, Zenon
  <2> QED
    BY <2>2, Zenon DEF EmptyFilters
<1> QED
  BY <1>2, <1>3, FiltersAssumption DEF FirstAsked

\* A row limit is a number.
LEMMA FiltersAsk ==
  ASSUME NEW f \in FilterFields PROVE f.limit \in Nat
BY LedgerAssumption DEF FilterFields

\* A row is one.
LEMMA RowsAreRows ==
  ASSUME NEW x \in Nat, NEW on \in Parts, NEW type \in RowTypes, NEW named \in BOOLEAN,
         NEW decision \in Decisions
  PROVE  LET r == Row(x, on, type, named, decision)
         IN  /\ r \in Rows
             /\ Confirms(r) <=> type = "ORDER_CONFIRMED"
             /\ ShowsPaid(r) <=> type \in {"ORDER_CONFIRMED", "PAYMENT_VERIFIED"}
             /\ r.sale = x /\ r.named = named /\ r.on = on
             /\ KeyOf(r) = <<IF named THEN "checkout" ELSE on, x>>
BY DEF Row, Rows, Confirms, ShowsPaid, KeyOf

\* The seeded rows are of a sale nobody made.
LEMMA SeedsAreHonest ==
  Seeds \in Seq(Rows) /\ \A paid : Honest(Seeds, paid)
<1>1. Seeds \in Seq(Rows)
  <2> DEFINE a == Row(Demo, "order", "ORDER_CONFIRMED", FALSE, "allow")
             b == Row(Demo, "payment", "PAYMENT_VERIFIED", FALSE, "allow")
  <2>0. Demo \in Nat
    BY DEF Demo
  <2>1. a \in Rows /\ b \in Rows
    BY <2>0 DEF Rows, Row, Parts, RowTypes, Decisions
  <2> HIDE DEF a, b
  <2>2. <<a, b>> \in Seq(Rows)
    BY <2>1
  <2> QED
    BY <2>2 DEF Seeds, a, b
<1>2. /\ Len(Seeds) = 2
      /\ Seeds[1].sale = 0 /\ Seeds[2].sale = 0
  BY DEF Seeds, Row, Demo
<1>3. \A i \in 1 .. 2 : i = 1 \/ i = 2
  OBVIOUS
<1>4. \A x \in Sales : x # 0
  BY LedgerAssumption DEF Sales
<1>5. \A i \in 1 .. Len(Seeds), x \in Sales : KeyOf(Seeds[i]) # SaleKey(x)
  BY <1>2, <1>3, <1>4 DEF KeyOf, SaleKey
<1> QED
  BY <1>1, <1>5 DEF Honest

\* The books as they are opened.
LEMMA BooksAreOpened ==
  LedgerInit => BooksInv
<1> SUFFICES ASSUME LedgerInit PROVE BooksInv
  OBVIOUS
<1>1. /\ home \in {"gateway", "local"} /\ stage = [x \in Sales |-> "none"] /\ ledger = <<>>
      /\ recent = IF home = "local" THEN Seeds ELSE <<>>
  BY DEF LedgerInit
<1>2. stage \in [Sales -> Stages] /\ Paid = {}
  BY <1>1 DEF Stages, Paid
<1>3. <<>> \in Seq(Rows) /\ Len(<<>>) = 0
  OBVIOUS
<1>4. Honest(<<>>, Paid) /\ Whole(<<>>, Paid)
  BY <1>2, <1>3 DEF Honest, Whole
<1>5. recent \in Seq(Rows) /\ Honest(recent, Paid)
  BY <1>1, <1>3, <1>4, SeedsAreHonest
<1> QED
  BY <1>1, <1>2, <1>3, <1>4, <1>5 DEF BooksInv

-----------------------------------------------------------------------------
(* Rows that are appended *)

\* One list after the other, row by row.
LEMMA RowsAppended ==
  ASSUME NEW rows \in Seq(Rows), NEW new \in Seq(Rows)
  PROVE  /\ rows \o new \in Seq(Rows)
         /\ \A i \in 1 .. Len(rows \o new) :
              \/ i \in 1 .. Len(rows) /\ (rows \o new)[i] = rows[i]
              \/ i - Len(rows) \in 1 .. Len(new) /\ (rows \o new)[i] = new[i - Len(rows)]
         /\ \A i \in 1 .. Len(rows) :
              i \in 1 .. Len(rows \o new) /\ (rows \o new)[i] = rows[i]
         /\ \A i \in 1 .. Len(new) :
              /\ Len(rows) + i \in 1 .. Len(rows \o new)
              /\ (rows \o new)[Len(rows) + i] = new[i]
<1> DEFINE all == rows \o new
<1>1. Len(rows) \in Nat /\ Len(new) \in Nat
  OBVIOUS
<1>2. /\ all \in Seq(Rows) /\ Len(all) = Len(rows) + Len(new)
      /\ \A i \in 1 .. Len(rows) + Len(new) :
           all[i] = IF i <= Len(rows) THEN rows[i] ELSE new[i - Len(rows)]
  BY ConcatProperties
<1> HIDE DEF all
<1>3. \A i \in 1 .. Len(all) :
        \/ i \in 1 .. Len(rows) /\ all[i] = rows[i]
        \/ i - Len(rows) \in 1 .. Len(new) /\ all[i] = new[i - Len(rows)]
  BY <1>1, <1>2
<1>4. \A i \in 1 .. Len(rows) : i \in 1 .. Len(all) /\ all[i] = rows[i]
  BY <1>1, <1>2
<1>5. ASSUME NEW i \in 1 .. Len(new)
      PROVE  Len(rows) + i \in 1 .. Len(all) /\ all[Len(rows) + i] = new[i]
  <2>1. /\ Len(rows) + i \in 1 .. Len(rows) + Len(new) /\ ~ (Len(rows) + i <= Len(rows))
        /\ (Len(rows) + i) - Len(rows) = i
    BY <1>1
  <2> QED
    BY <1>2, <2>1
<1> QED
  BY <1>2, <1>3, <1>4, <1>5 DEF all

\* Sales that were paid stay paid, so honest rows stay honest.
LEMMA HonestRowsAdded ==
  ASSUME NEW rows \in Seq(Rows), NEW new \in Seq(Rows), NEW paid, NEW more,
         paid \subseteq more, Honest(rows, paid), Honest(new, more)
  PROVE  Honest(rows \o new, more)
<1> DEFINE all == rows \o new
<1>1. \A i \in 1 .. Len(all) :
        \/ i \in 1 .. Len(rows) /\ all[i] = rows[i]
        \/ i - Len(rows) \in 1 .. Len(new) /\ all[i] = new[i - Len(rows)]
  BY RowsAppended
<1> HIDE DEF all
<1>2. Honest(all, more)
  BY <1>1 DEF Honest
<1> QED
  BY <1>2 DEF all

\* Rows that confirm nothing.
LEMMA WholeRowsStay ==
  ASSUME NEW rows \in Seq(Rows), NEW new \in Seq(Rows), NEW paid,
         Whole(rows, paid), \A i \in 1 .. Len(new) : ~ Confirms(new[i])
  PROVE  Whole(rows \o new, paid)
<1> DEFINE all == rows \o new
<1>1. /\ \A i \in 1 .. Len(all) :
           \/ i \in 1 .. Len(rows) /\ all[i] = rows[i]
           \/ i - Len(rows) \in 1 .. Len(new) /\ all[i] = new[i - Len(rows)]
      /\ \A i \in 1 .. Len(rows) : i \in 1 .. Len(all) /\ all[i] = rows[i]
  BY RowsAppended
<1> HIDE DEF all
<1>2. \A i \in 1 .. Len(all) : Confirms(all[i]) => i \in 1 .. Len(rows) /\ all[i] = rows[i]
  BY <1>1
<1>3. ASSUME NEW x \in paid
      PROVE  \E i \in 1 .. Len(all) : Confirms(all[i]) /\ all[i].sale = x
  <2>1. PICK i \in 1 .. Len(rows) : Confirms(rows[i]) /\ rows[i].sale = x
    BY Zenon DEF Whole
  <2>2. i \in 1 .. Len(all) /\ all[i] = rows[i]
    BY <1>1, Zenon
  <2> QED
    BY <2>1, <2>2, Zenon
<1>4. ASSUME NEW i \in 1 .. Len(all), Confirms(all[i])
      PROVE  all[i].named /\ all[i].on = "order" /\ all[i].sale \in paid
  <2>1. i \in 1 .. Len(rows) /\ all[i] = rows[i]
    BY <1>2, <1>4, Zenon
  <2> QED
    BY <1>4, <2>1, Zenon DEF Whole
<1>5. ASSUME NEW i \in 1 .. Len(all), NEW j \in 1 .. Len(all),
             Confirms(all[i]), Confirms(all[j]), all[i].sale = all[j].sale
      PROVE  i = j
  <2>1. /\ i \in 1 .. Len(rows) /\ all[i] = rows[i]
        /\ j \in 1 .. Len(rows) /\ all[j] = rows[j]
    BY <1>2, <1>5, Zenon
  <2> QED
    BY <1>5, <2>1, Zenon DEF Whole
<1>6. Whole(all, paid)
  BY <1>3, <1>4, <1>5, Zenon DEF Whole
<1> QED
  BY <1>6 DEF all

\* The row of an order that nobody had confirmed, and with it the sale.
LEMMA WholeRowsGrow ==
  ASSUME NEW rows \in Seq(Rows), NEW new \in Seq(Rows), NEW paid, NEW x, x \notin paid,
         Whole(rows, paid), NEW k \in 1 .. Len(new),
         \A i \in 1 .. Len(new) : Confirms(new[i]) <=> i = k,
         new[k].named, new[k].on = "order", new[k].sale = x
  PROVE  Whole(rows \o new, paid \cup {x})
<1> DEFINE all == rows \o new
           at == Len(rows) + k
<1>0. Len(rows) \in Nat /\ k \in Nat
  OBVIOUS
<1>1. /\ \A i \in 1 .. Len(all) :
           \/ i \in 1 .. Len(rows) /\ all[i] = rows[i]
           \/ i - Len(rows) \in 1 .. Len(new) /\ all[i] = new[i - Len(rows)]
      /\ \A i \in 1 .. Len(rows) : i \in 1 .. Len(all) /\ all[i] = rows[i]
      /\ at \in 1 .. Len(all) /\ all[at] = new[k]
  BY RowsAppended
<1> HIDE DEF all
<1>2. ASSUME NEW i \in 1 .. Len(all), Confirms(all[i])
      PROVE  (i \in 1 .. Len(rows) /\ all[i] = rows[i]) \/ i = at
  <2>1. CASE i - Len(rows) \in 1 .. Len(new) /\ all[i] = new[i - Len(rows)]
    <3>1. i - Len(rows) = k
      BY <1>2, <2>1
    <3> QED
      BY <1>0, <3>1
  <2> QED
    BY <1>1, <2>1
<1>3. Confirms(all[at]) /\ all[at].named /\ all[at].on = "order" /\ all[at].sale = x
  BY <1>1
<1> HIDE DEF at
<1>4. ASSUME NEW y \in paid \cup {x}
      PROVE  \E i \in 1 .. Len(all) : Confirms(all[i]) /\ all[i].sale = y
  <2>1. CASE y = x
    BY <1>1, <1>3, <2>1
  <2>2. CASE y \in paid
    <3>1. PICK i \in 1 .. Len(rows) : Confirms(rows[i]) /\ rows[i].sale = y
      BY <2>2 DEF Whole
    <3> QED
      BY <1>1, <3>1
  <2> QED
    BY <2>1, <2>2
<1>5. \A i \in 1 .. Len(all) : Confirms(all[i]) =>
        /\ all[i].named /\ all[i].on = "order" /\ all[i].sale \in paid \cup {x}
        /\ all[i].sale = x <=> i = at
  BY <1>2, <1>3 DEF Whole
<1>6. ASSUME NEW i \in 1 .. Len(all), NEW j \in 1 .. Len(all), Confirms(all[i]), Confirms(all[j]),
             all[i].sale = all[j].sale
      PROVE  i = j
  <2>1. CASE i = at \/ j = at
    BY <1>5, <1>6, <2>1
  <2>2. CASE i # at /\ j # at
    BY <1>2, <1>6, <2>2 DEF Whole
  <2> QED
    BY <2>1, <2>2
<1>7. Whole(all, paid \cup {x})
  BY <1>4, <1>5, <1>6 DEF Whole
<1> QED
  BY <1>7 DEF all

-----------------------------------------------------------------------------
(* The steps of those who keep the ledger *)

\* Who is paid after a sale has come a step further.
LEMMA PaidAfter ==
  ASSUME BooksInv, NEW x \in Sales, NEW after \in Stages, stage[x] # "confirmed",
         stage' = [stage EXCEPT ![x] = after]
  PROVE  /\ stage' \in [Sales -> Stages] /\ x \notin Paid
         /\ Paid' = IF after = "confirmed" THEN Paid \cup {x} ELSE Paid
BY DEF BooksInv, Paid

\* A row that shows nothing as paid, or the sale that is.
RightFor(r, after, x) ==
  ShowsPaid(r) => /\ after = "confirmed"
                  /\ IF r.named THEN r.sale = x ELSE r.on # "checkout"

ShowsOnly(new, after, x) == \A i \in 1 .. Len(new) : RightFor(new[i], after, x)

\* Rows are appended with the step they tell of.
LEMMA NewRowsAreHonest ==
  ASSUME NEW new \in Seq(Rows), NEW after, NEW x, ShowsOnly(new, after, x), NEW paid,
         after = "confirmed" => x \in paid
  PROVE  Honest(new, paid)
BY DEF ShowsOnly, RightFor, Honest, KeyOf, SaleKey

\* The gateway's request.
LEMMA TransactsKeeps ==
  ASSUME BooksInv, home = "gateway", NEW x \in Sales, NEW after \in Stages,
         stage[x] # "confirmed", NEW new \in Seq(Rows), Transacts(x, after, new),
         ShowsOnly(new, after, x),
         \/ after # "confirmed"
         \/ \E k \in 1 .. Len(new) : /\ \A i \in 1 .. Len(new) : Confirms(new[i]) <=> i = k
                                     /\ new[k].named /\ new[k].on = "order" /\ new[k].sale = x
  PROVE  BooksInv'
<1>1. /\ stage' = [stage EXCEPT ![x] = after] /\ ledger' = ledger \o new
      /\ home' = home /\ recent' = recent
  BY DEF Transacts
<1>2. /\ stage' \in [Sales -> Stages] /\ x \notin Paid
      /\ Paid' = IF after = "confirmed" THEN Paid \cup {x} ELSE Paid
  BY <1>1, PaidAfter
<1>3. /\ ledger \in Seq(Rows) /\ Honest(ledger, Paid) /\ Whole(ledger, Paid) /\ recent = <<>>
  BY DEF BooksInv
<1>4. ledger' \in Seq(Rows)
  BY <1>1, <1>3, RowsAppended
<1>5. Honest(ledger', Paid')
  <2>1. Honest(new, Paid') /\ Paid \subseteq Paid'
    BY <1>2, NewRowsAreHonest
  <2> QED
    BY <1>1, <1>3, <2>1, HonestRowsAdded
<1>6. Whole(ledger', Paid')
  <2>1. CASE after = "confirmed"
    <3>1. PICK k \in 1 .. Len(new) : /\ \A i \in 1 .. Len(new) : Confirms(new[i]) <=> i = k
                                     /\ new[k].named /\ new[k].on = "order" /\ new[k].sale = x
      BY <2>1
    <3>2. Whole(ledger \o new, Paid \cup {x})
      BY <1>2, <1>3, <3>1, WholeRowsGrow
    <3> QED
      BY <1>1, <1>2, <2>1, <3>2
  <2>2. CASE after # "confirmed"
    <3>1. \A i \in 1 .. Len(new) : ~ Confirms(new[i])
      BY <2>2 DEF ShowsOnly, RightFor, ShowsPaid, Confirms
    <3>2. Whole(ledger \o new, Paid)
      BY <1>3, <3>1, WholeRowsStay
    <3> QED
      BY <1>1, <1>2, <2>2, <3>2
  <2> QED
    BY <2>1, <2>2
<1>7. recent' \in Seq(Rows) /\ Honest(recent', Paid') /\ recent' = <<>>
  <2>1. Len(recent') = 0 /\ recent' = <<>> /\ recent' \in Seq(Rows)
    BY <1>1, <1>3
  <2> QED
    BY <2>1 DEF Honest
<1>8. home' \in {"gateway", "local"}
  BY <1>1 DEF BooksInv
<1> QED
  BY <1>2, <1>4, <1>5, <1>6, <1>7, <1>8 DEF BooksInv

\* Lists of one or two rows, read off.
LEMMA OneRow ==
  ASSUME NEW a \in Rows, NEW after, NEW x, RightFor(a, after, x)
  PROVE  <<a>> \in Seq(Rows) /\ Len(<<a>>) = 1 /\ <<a>>[1] = a /\ ShowsOnly(<<a>>, after, x)
<1>1. <<a>> \in Seq(Rows) /\ Len(<<a>>) = 1 /\ <<a>>[1] = a
  OBVIOUS
<1>2. \A i \in 1 .. 1 : i = 1
  OBVIOUS
<1> QED
  BY <1>1, <1>2 DEF ShowsOnly

LEMMA TwoRows ==
  ASSUME NEW a \in Rows, NEW b \in Rows, NEW after, NEW x,
         \A r \in {a, b} : RightFor(r, after, x)
  PROVE  /\ <<a, b>> \in Seq(Rows) /\ Len(<<a, b>>) = 2
         /\ <<a, b>>[1] = a /\ <<a, b>>[2] = b /\ ShowsOnly(<<a, b>>, after, x)
<1>1. /\ <<a, b>> \in Seq(Rows) /\ Len(<<a, b>>) = 2 /\ <<a, b>>[1] = a /\ <<a, b>>[2] = b
  OBVIOUS
<1>2. \A i \in 1 .. 2 : i = 1 \/ i = 2
  OBVIOUS
<1> QED
  BY <1>1, <1>2 DEF ShowsOnly

LEMMA ThreeRows ==
  ASSUME NEW a \in Rows, NEW b \in Rows, NEW c \in Rows, NEW after, NEW x,
         \A r \in {a, b, c} : RightFor(r, after, x)
  PROVE  <<a, b, c>> \in Seq(Rows) /\ Len(<<a, b, c>>) = 3 /\ ShowsOnly(<<a, b, c>>, after, x)
<1>1. /\ <<a, b, c>> \in Seq(Rows) /\ Len(<<a, b, c>>) = 3
      /\ <<a, b, c>>[1] = a /\ <<a, b, c>>[2] = b /\ <<a, b, c>>[3] = c
  OBVIOUS
<1>2. \A i \in 1 .. 3 : i = 1 \/ i = 2 \/ i = 3
  OBVIOUS
<1> QED
  BY <1>1, <1>2 DEF ShowsOnly

\* The steps of the gateway, one lemma for each: its rows, and that they are right.
LEMMA SalesAreNumbers ==
  ASSUME NEW x \in Sales PROVE x \in Nat /\ x # Demo
BY LedgerAssumption DEF Sales, Demo

LEMMA CreateLoggedKeeps ==
  ASSUME BooksInv, home = "gateway", NEW x \in Sales, CreateLogged(x) PROVE BooksInv'
<1> DEFINE a == Logged(x, "checkout", "CHECKOUT_CREATED")
<1>1. a \in Rows /\ RightFor(a, "created", x)
  BY SalesAreNumbers DEF Rows, Parts, RowTypes, Decisions, Logged, Row, RightFor, ShowsPaid
<1>2. stage[x] # "confirmed" /\ "created" \in Stages /\ Transacts(x, "created", <<a>>)
  BY DEF CreateLogged, Starts, Stages
<1> HIDE DEF a
<1> QED
  BY <1>1, <1>2, OneRow, TransactsKeeps

LEMMA AuthorizeLoggedKeeps ==
  ASSUME BooksInv, home = "gateway", NEW x \in Sales, AuthorizeLogged(x) PROVE BooksInv'
<1> DEFINE a(d) == Row(x, "checkout", "POLICY_EVALUATED", TRUE, d)
           b(t, d) == Row(x, "authorization", t, TRUE, d)
<1>1. ASSUME NEW after \in {"approved", "pending"}, NEW d \in {"ALLOW", "REQUIRE_APPROVAL"},
             NEW t \in {"AUTHORIZATION_GRANTED", "AUTHORIZATION_REQUESTED"},
             Transacts(x, after, <<a(d), b(t, d)>>)
      PROVE  BooksInv'
  <2>1. a(d) \in Rows /\ b(t, d) \in Rows /\ \A r \in {a(d), b(t, d)} : RightFor(r, after, x)
    BY SalesAreNumbers DEF Rows, Parts, RowTypes, Decisions, Row, RightFor, ShowsPaid
  <2>2. stage[x] # "confirmed" /\ after \in Stages /\ after # "confirmed"
    BY DEF AuthorizeLogged, Stages
  <2>3. PICK p \in Rows, q \in Rows : p = a(d) /\ q = b(t, d)
    BY <2>1
  <2> HIDE DEF a, b
  <2>4. Transacts(x, after, <<p, q>>) /\ \A r \in {p, q} : RightFor(r, after, x)
    BY <1>1, <2>1, <2>3
  <2>5. <<p, q>> \in Seq(Rows) /\ ShowsOnly(<<p, q>>, after, x)
    BY <2>4, TwoRows
  <2> QED
    BY <2>2, <2>4, <2>5, TransactsKeeps
<1> QED
  BY <1>1 DEF AuthorizeLogged

LEMMA DecisionLoggedKeeps ==
  ASSUME BooksInv, home = "gateway", NEW x \in Sales, DecisionLogged(x) PROVE BooksInv'
<1> DEFINE a(t) == Logged(x, "authorization", t)
<1>1. ASSUME NEW after \in {"approved", "rejected"},
             NEW t \in {"AUTHORIZATION_GRANTED", "AUTHORIZATION_REJECTED"},
             Transacts(x, after, <<a(t)>>)
      PROVE  BooksInv'
  <2>1. a(t) \in Rows /\ RightFor(a(t), after, x)
    BY SalesAreNumbers DEF Rows, Parts, RowTypes, Decisions, Logged, Row, RightFor, ShowsPaid
  <2>2. stage[x] # "confirmed" /\ after \in Stages /\ after # "confirmed"
    BY DEF DecisionLogged, Stages
  <2> HIDE DEF a
  <2> QED
    BY <1>1, <2>1, <2>2, OneRow, TransactsKeeps
<1> QED
  BY <1>1 DEF DecisionLogged

LEMMA PaymentLoggedKeeps ==
  ASSUME BooksInv, home = "gateway", NEW x \in Sales, PaymentLogged(x) PROVE BooksInv'
<1> DEFINE a == Logged(x, "payment", "PAYMENT_CREATED")
<1>1. a \in Rows /\ RightFor(a, "paying", x)
  BY SalesAreNumbers DEF Rows, Parts, RowTypes, Decisions, Logged, Row, RightFor, ShowsPaid
<1>2. stage[x] # "confirmed" /\ "paying" \in Stages /\ Transacts(x, "paying", <<a>>)
  BY DEF PaymentLogged, Stages
<1> HIDE DEF a
<1> QED
  BY <1>1, <1>2, OneRow, TransactsKeeps

LEMMA PaymentEndsKeeps ==
  ASSUME BooksInv, home = "gateway", NEW x \in Sales, PaymentEnds(x) PROVE BooksInv'
<1> DEFINE a == Logged(x, "order", "ORDER_CONFIRMED")
           b == Logged(x, "payment", "PAYMENT_VERIFIED")
           c == Row(x, "payment", "PAYMENT_FAILED", FALSE, "none")
<1>1. /\ a \in Rows /\ b \in Rows /\ c \in Rows
      /\ \A r \in {a, b} : RightFor(r, "confirmed", x)
      /\ RightFor(c, "failed", x)
      /\ Confirms(a) /\ ~ Confirms(b) /\ a.named /\ a.on = "order" /\ a.sale = x
  BY SalesAreNumbers
     DEF Rows, Parts, RowTypes, Decisions, Logged, Row, RightFor, ShowsPaid, Confirms
<1>2. stage[x] # "confirmed" /\ {"confirmed", "failed", "unsettled"} \subseteq Stages
  BY DEF PaymentEnds, Stages
<1>3. \/ Transacts(x, "confirmed", <<a, b>>) \/ Transacts(x, "failed", <<c>>)
      \/ Transacts(x, "unsettled", <<>>)
  BY DEF PaymentEnds
<1> HIDE DEF a, b, c
<1>4. CASE Transacts(x, "confirmed", <<a, b>>)
  <2>1. /\ <<a, b>> \in Seq(Rows) /\ Len(<<a, b>>) = 2
        /\ <<a, b>>[1] = a /\ <<a, b>>[2] = b /\ ShowsOnly(<<a, b>>, "confirmed", x)
    BY <1>1, TwoRows
  <2>2. \A i \in 1 .. 2 : i = 1 \/ i = 2
    OBVIOUS
  <2>3. /\ \A i \in 1 .. Len(<<a, b>>) : Confirms(<<a, b>>[i]) <=> i = 1
        /\ 1 \in 1 .. Len(<<a, b>>) /\ <<a, b>>[1].named
        /\ <<a, b>>[1].on = "order" /\ <<a, b>>[1].sale = x
    BY <1>1, <2>1, <2>2
  <2> QED
    BY <1>2, <1>4, <2>1, <2>3, TransactsKeeps
<1>5. CASE Transacts(x, "failed", <<c>>)
  BY <1>1, <1>2, <1>5, OneRow, TransactsKeeps
<1>6. CASE Transacts(x, "unsettled", <<>>)
  <2>1. <<>> \in Seq(Rows) /\ Len(<<>>) = 0
    OBVIOUS
  <2>2. ShowsOnly(<<>>, "unsettled", x)
    BY <2>1 DEF ShowsOnly
  <2> QED
    BY <1>2, <1>6, <2>1, <2>2, TransactsKeeps
<1> QED
  BY <1>3, <1>4, <1>5, <1>6

\* What the process had saved when it died.
LEMMA FirstRows ==
  ASSUME NEW new \in Seq(Rows), NEW after, NEW x, ShowsOnly(new, after, x), NEW k \in 0 .. Len(new)
  PROVE  SubSeq(new, 1, k) \in Seq(Rows) /\ ShowsOnly(SubSeq(new, 1, k), after, x)
<1> DEFINE first == SubSeq(new, 1, k)
<1>1. Len(new) \in Nat /\ k \in Nat /\ k <= Len(new)
  OBVIOUS
<1>2. \A i \in 1 .. k : i \in 1 .. Len(new) /\ new[i] \in Rows /\ 1 + i - 1 = i
  BY <1>1
<1>3. /\ first \in Seq(Rows) /\ Len(first) = IF 1 <= k THEN k - 1 + 1 ELSE 0
      /\ \A i \in 1 .. k - 1 + 1 : first[i] = new[1 + i - 1]
  BY <1>1, <1>2, SubSeqProperties
<1>4. k - 1 + 1 = k /\ (~ (1 <= k) => k = 0)
  BY <1>1
<1> HIDE DEF first
<1>5. first \in Seq(Rows) /\ Len(first) = k /\ \A i \in 1 .. k : first[i] = new[i]
  BY <1>2, <1>3, <1>4
<1>6. ShowsOnly(first, after, x)
  BY <1>2, <1>5 DEF ShowsOnly
<1> QED
  BY <1>5, <1>6 DEF first

\* The local back end's saves, finished or not.
LEMMA SavesKeeps ==
  ASSUME BooksInv, home = "local", NEW x \in Sales, NEW after \in Stages,
         stage[x] # "confirmed", NEW new \in Seq(Rows), NEW told \in Seq(Rows),
         Saves(x, after, new, told), ShowsOnly(new, after, x), ShowsOnly(told, after, x)
  PROVE  BooksInv'
<1>1. /\ stage' = [stage EXCEPT ![x] = after] /\ home' = home
      /\ \/ ledger' = ledger \o new /\ recent' = told \o recent
         \/ (\E k \in 0..Len(new) : ledger' = ledger \o SubSeq(new, 1, k)) /\ recent' = Seeds
  BY DEF Saves
<1>2. /\ stage' \in [Sales -> Stages] /\ Paid \subseteq Paid'
      /\ after = "confirmed" => x \in Paid'
  BY <1>1, PaidAfter
<1>3. /\ ledger \in Seq(Rows) /\ Honest(ledger, Paid)
      /\ recent \in Seq(Rows) /\ Honest(recent, Paid)
  BY DEF BooksInv
<1>4. ASSUME NEW rows \in Seq(Rows), Honest(rows, Paid), NEW more \in Seq(Rows),
             ShowsOnly(more, after, x)
      PROVE  rows \o more \in Seq(Rows) /\ Honest(rows \o more, Paid')
  <2>1. Honest(more, Paid')
    BY <1>2, <1>4, NewRowsAreHonest
  <2> QED
    BY <1>2, <1>4, <2>1, HonestRowsAdded, RowsAppended
<1>5. ledger' \in Seq(Rows) /\ Honest(ledger', Paid')
  <2>1. CASE ledger' = ledger \o new
    BY <1>3, <1>4, <2>1
  <2>2. CASE \E k \in 0..Len(new) : ledger' = ledger \o SubSeq(new, 1, k)
    <3>1. PICK k \in 0..Len(new) : ledger' = ledger \o SubSeq(new, 1, k)
      BY <2>2
    <3>2. SubSeq(new, 1, k) \in Seq(Rows) /\ ShowsOnly(SubSeq(new, 1, k), after, x)
      BY FirstRows
    <3> QED
      BY <1>3, <1>4, <3>1, <3>2
  <2> QED
    BY <1>1, <2>1, <2>2
<1>6. recent' \in Seq(Rows) /\ Honest(recent', Paid')
  <2>1. CASE recent' = told \o recent
    <3>1. Honest(told, Paid')
      BY <1>2, NewRowsAreHonest
    <3>2. Honest(recent, Paid')
      BY <1>2, <1>3 DEF Honest
    <3>3. Honest(told \o recent, Paid')
      BY <1>3, <3>1, <3>2, HonestRowsAdded
    <3> QED
      BY <1>3, <2>1, <3>3, RowsAppended
  <2>2. CASE recent' = Seeds
    BY <2>2, SeedsAreHonest
  <2> QED
    BY <1>1, <2>1, <2>2
<1> QED
  BY <1>1, <1>2, <1>5, <1>6 DEF BooksInv

\* What the process's own list is told.
LEMMA ToldIsRight ==
  ASSUME NEW x \in Sales, NEW on \in Parts, NEW type \in RowTypes, NEW after,
         type \in {"ORDER_CONFIRMED", "PAYMENT_VERIFIED"} => on = "payment" /\ after = "confirmed"
  PROVE  Told(x, on, type) \in Seq(Rows) /\ ShowsOnly(Told(x, on, type), after, x)
<1> DEFINE a == Row(x, on, type, on = "checkout", "allow")
<1>1. a \in Rows /\ RightFor(a, after, x)
  BY SalesAreNumbers DEF Rows, Parts, Decisions, Row, RightFor, ShowsPaid
<1> HIDE DEF a
<1>2. <<a>> \in Seq(Rows) /\ ShowsOnly(<<a>>, after, x)
  BY <1>1, OneRow
<1> QED
  BY <1>2 DEF Told, a

\* The steps of the local back end.
LEMMA SaveCheckoutKeeps ==
  ASSUME BooksInv, home = "local", NEW x \in Sales, SaveCheckout(x) PROVE BooksInv'
<1> DEFINE a == Row(x, "checkout", "CHECKOUT_CREATED", FALSE, "allow")
           b == Row(x, "checkout", "PRICE_FROZEN", FALSE, "allow")
           told == Told(x, "checkout", "CHECKOUT_CREATED")
<1>1. a \in Rows /\ b \in Rows /\ \A r \in {a, b} : RightFor(r, "created", x)
  BY SalesAreNumbers DEF Rows, Parts, RowTypes, Decisions, Row, RightFor, ShowsPaid
<1>2. told \in Seq(Rows) /\ ShowsOnly(told, "created", x)
  BY ToldIsRight DEF Parts, RowTypes
<1>3. stage[x] # "confirmed" /\ "created" \in Stages /\ Saves(x, "created", <<a, b>>, told)
  BY DEF SaveCheckout, Starts, Stages
<1> HIDE DEF a, b, told
<1>4. <<a, b>> \in Seq(Rows) /\ ShowsOnly(<<a, b>>, "created", x)
  BY <1>1, TwoRows
<1> QED
  BY <1>2, <1>3, <1>4, SavesKeeps

LEMMA SaveApprovalKeeps ==
  ASSUME BooksInv, home = "local", NEW x \in Sales, SaveApproval(x) PROVE BooksInv'
<1> DEFINE a == Row(x, "authorization", "POLICY_EVALUATED", TRUE, "allow")
           b == Row(x, "authorization", "AUTHORIZATION_GRANTED", TRUE, "allow")
           c == Row(x, "checkout", "AUTHORIZATION_BOUND", FALSE, "allow")
           told == Told(x, "authorization", "AUTHORIZATION_GRANTED")
<1>1. /\ a \in Rows /\ b \in Rows /\ c \in Rows
      /\ \A r \in {a, b, c} : RightFor(r, "approved", x)
  BY SalesAreNumbers DEF Rows, Parts, RowTypes, Decisions, Row, RightFor, ShowsPaid
<1>2. told \in Seq(Rows) /\ ShowsOnly(told, "approved", x)
  BY ToldIsRight DEF Parts, RowTypes
<1>3. /\ stage[x] # "confirmed" /\ "approved" \in Stages
      /\ Saves(x, "approved", <<a, b, c>>, told)
  BY DEF SaveApproval, Stages
<1> HIDE DEF a, b, c, told
<1>4. <<a, b, c>> \in Seq(Rows) /\ ShowsOnly(<<a, b, c>>, "approved", x)
  BY <1>1, ThreeRows
<1> QED
  BY <1>2, <1>3, <1>4, SavesKeeps

LEMMA SavePaymentKeeps ==
  ASSUME BooksInv, home = "local", NEW x \in Sales, SavePayment(x) PROVE BooksInv'
<1> DEFINE a == Row(x, "payment", "PAYMENT_CAPTURED", TRUE, "allow")
           b == Row(x, "checkout", "PAYMENT_ATTACHED", FALSE, "allow")
           told == Told(x, "payment", "PAYMENT_CAPTURED")
<1>1. a \in Rows /\ b \in Rows /\ \A r \in {a, b} : RightFor(r, "paying", x)
  BY SalesAreNumbers DEF Rows, Parts, RowTypes, Decisions, Row, RightFor, ShowsPaid
<1>2. told \in Seq(Rows) /\ ShowsOnly(told, "paying", x)
  BY ToldIsRight DEF Parts, RowTypes
<1>3. stage[x] # "confirmed" /\ "paying" \in Stages /\ Saves(x, "paying", <<a, b>>, told)
  BY DEF SavePayment, Stages
<1> HIDE DEF a, b, told
<1>4. <<a, b>> \in Seq(Rows) /\ ShowsOnly(<<a, b>>, "paying", x)
  BY <1>1, TwoRows
<1> QED
  BY <1>2, <1>3, <1>4, SavesKeeps

LEMMA SaveVerificationKeeps ==
  ASSUME BooksInv, home = "local", NEW x \in Sales, SaveVerification(x) PROVE BooksInv'
<1> DEFINE a == Row(x, "payment", "PAYMENT_VERIFIED", FALSE, "allow")
           b == Row(x, "order", "ORDER_CONFIRMED", TRUE, "allow")
           c == Row(x, "checkout", "ORDER_FULFILLED", FALSE, "allow")
           told == Told(x, "payment", "PAYMENT_VERIFIED")
<1>1. /\ a \in Rows /\ b \in Rows /\ c \in Rows
      /\ \A r \in {a, b, c} : RightFor(r, "confirmed", x)
  BY SalesAreNumbers DEF Rows, Parts, RowTypes, Decisions, Row, RightFor, ShowsPaid
<1>2. told \in Seq(Rows) /\ ShowsOnly(told, "confirmed", x)
  BY ToldIsRight DEF Parts, RowTypes
<1>3. /\ stage[x] # "confirmed" /\ "confirmed" \in Stages
      /\ \/ Saves(x, "confirmed", <<a, b, c>>, told) \/ Saves(x, "confirmed", <<a, b>>, <<>>)
  BY DEF SaveVerification, Stages
<1> HIDE DEF a, b, c, told
<1>4. /\ <<a, b>> \in Seq(Rows) /\ ShowsOnly(<<a, b>>, "confirmed", x)
      /\ <<a, b, c>> \in Seq(Rows) /\ ShowsOnly(<<a, b, c>>, "confirmed", x)
  <2>1. \A r \in {a, b} : RightFor(r, "confirmed", x)
    BY <1>1
  <2> QED
    BY <1>1, <2>1, TwoRows, ThreeRows
<1>5. CASE Saves(x, "confirmed", <<a, b, c>>, told)
  BY <1>2, <1>3, <1>4, <1>5, SavesKeeps
<1>6. CASE Saves(x, "confirmed", <<a, b>>, <<>>)
  <2>1. <<>> \in Seq(Rows) /\ Len(<<>>) = 0
    OBVIOUS
  <2>2. ShowsOnly(<<>>, "confirmed", x)
    BY <2>1 DEF ShowsOnly
  <2> QED
    BY <1>3, <1>4, <1>6, <2>1, <2>2, SavesKeeps
<1> QED
  BY <1>3, <1>5, <1>6

\* The list starts over with the seeded rows.
LEMMA RestartsKeeps ==
  ASSUME BooksInv, home = "local", Restarts PROVE BooksInv'
<1>1. /\ home' = home /\ stage' = stage /\ ledger' = ledger /\ recent' = Seeds /\ Paid' = Paid
  BY DEF Restarts, Paid
<1> QED
  BY <1>1, SeedsAreHonest DEF BooksInv

\* Nobody else writes the books.
LEMMA BooksStand ==
  ASSUME BooksInv, UNCHANGED booksVars PROVE BooksInv'
<1>1. home' = home /\ stage' = stage /\ ledger' = ledger /\ recent' = recent /\ Paid' = Paid
  BY DEF booksVars, Paid
<1> QED
  BY <1>1 DEF BooksInv

-----------------------------------------------------------------------------
(* The steps of the console *)

\* A page as it mounts is a page, its read a read.
LEMMA PagesMount ==
  ASSUME NEW at \in Pages \cup {"elsewhere"}
  PROVE  /\ Mounted(at) \in Screens /\ Mounted(at).phase = "loading"
         /\ [Mounted(at) EXCEPT !.busy = FALSE] \in Screens
<1>1. <<>> \in Seq(Rows) /\ {} \in SUBSET Sales
  OBVIOUS
<1> QED
  BY <1>1, AskedAreFilters DEF Mounted, Screens

LEMMA ReadsAreAsked ==
  ASSUME NEW n \in Nat, NEW filters \in FilterFields
  PROVE  /\ Reading(n, filters) \in LedgerReads
         /\ Reading(n, filters).at # "read" /\ Reading(n, filters).rows = <<>>
<1>1. <<>> \in Seq(Rows) /\ {} \in SUBSET Sales
  OBVIOUS
<1> QED
  BY <1>1 DEF Reading, LedgerReads

\* No page is open and nothing was read.
LEMMA ConsoleOpens ==
  LedgerInit => ConsoleInv
<1> SUFFICES ASSUME LedgerInit PROVE ConsoleInv
  OBVIOUS
<1>1. console = Closed /\ readings = {} /\ started = 0
  BY DEF LedgerInit
<1>2. Closed \in Screens /\ Closed.phase = "loading"
  BY PagesMount DEF Closed, Screens, Mounted
<1> QED
  BY <1>1, <1>2 DEF ConsoleInv

LEMMA OpensPageKeeps ==
  ASSUME ConsoleInv, NEW at \in Pages, OpensPage(at) PROVE ConsoleInv'
<1>1. /\ home = "gateway" /\ home' = home /\ console' = Mounted(at)
      /\ readings' = {Reading(started + 1, FirstAsked(at))} /\ started' = started + 1
      /\ started \in Nat
  BY DEF OpensPage, booksVars, ConsoleInv
<1>2. console' \in Screens /\ console'.phase = "loading"
  BY <1>1, PagesMount
<1>3. \A r \in readings' : r \in LedgerReads /\ r.at # "read" /\ r.rows = <<>>
  <2>1. started + 1 \in Nat
    BY <1>1
  <2> QED
    BY <1>1, <2>1, AskedAreFilters, ReadsAreAsked
<1> QED
  BY <1>1, <1>2, <1>3 DEF ConsoleInv

\* load(), whatever was asked.
LEMMA LoadsRowsKeeps ==
  ASSUME ConsoleInv, home = "gateway", NEW open \in Screens, NEW filters \in FilterFields,
         open.rows = console.rows, open.paid = console.paid, open.applied = console.applied,
         open.read = console.read, open.phase = console.phase, LoadsRows(open, filters)
  PROVE  ConsoleInv'
<1> DEFINE next == IF open.at = "overview" /\ open.phase = "loaded" THEN open.phase ELSE "loading"
<1>1. /\ home' = home /\ started' = started + 1 /\ started \in Nat
      /\ console' = [open EXCEPT !.busy = TRUE, !.phase = next]
      /\ readings' = readings \cup {Reading(started + 1, filters)}
  BY DEF LoadsRows, booksVars, ConsoleInv
<1>2. next \in {"loading", "loaded"} /\ (next = "loaded" => console.phase = "loaded")
  OBVIOUS
<1> HIDE DEF next
<1>3. /\ console' \in Screens /\ console'.phase = next
      /\ console'.rows = console.rows /\ console'.paid = console.paid
      /\ console'.applied = console.applied /\ console'.read = console.read
  BY <1>1, <1>2 DEF Screens
<1>4. ASSUME NEW r \in readings'
      PROVE  r \in readings \/ (r \in LedgerReads /\ r.at # "read" /\ r.rows = <<>>)
  <2>1. started + 1 \in Nat
    BY <1>1
  <2> QED
    BY <1>1, <2>1, ReadsAreAsked
<1> QED
  BY <1>1, <1>2, <1>3, <1>4 DEF ConsoleInv

\* Only the gateway has a console.
LEMMA ConsoleIsTheGateways ==
  ASSUME BooksInv, ConsoleInv, console.at # "elsewhere" \/ readings # {}
  PROVE  home = "gateway"
BY DEF BooksInv, ConsoleInv, Closed, Mounted

\* The ways of asking: the row count, the refresh, the form, its reset, the retry.
LEMMA PicksRowsKeeps ==
  ASSUME BooksInv, ConsoleInv, NEW n \in RowLimits, PicksRows(n) PROVE ConsoleInv'
<1> DEFINE filters == [AllRows EXCEPT !.limit = n]
           open == [console EXCEPT !.form = filters]
<1>1. console.at = "transactions" /\ LoadsRows(open, filters) /\ console \in Screens
  BY DEF PicksRows, ConsoleInv
<1>2. filters \in FilterFields
  BY AskedAreFilters
<1> HIDE DEF filters
<1>3. /\ open \in Screens
      /\ open.rows = console.rows /\ open.paid = console.paid /\ open.applied = console.applied
      /\ open.read = console.read /\ open.phase = console.phase
  BY <1>1, <1>2 DEF Screens
<1> HIDE DEF open
<1>4. home = "gateway"
  BY <1>1, ConsoleIsTheGateways
<1> QED
  BY <1>1, <1>2, <1>3, <1>4, LoadsRowsKeeps

LEMMA RefreshesRowsKeeps ==
  ASSUME BooksInv, ConsoleInv, RefreshesRows PROVE ConsoleInv'
<1>1. /\ console.at # "elsewhere" /\ LoadsRows(console, console.form)
      /\ console \in Screens /\ console.form \in FilterFields
  BY DEF RefreshesRows, ConsoleInv, Screens
<1>2. home = "gateway"
  BY <1>1, ConsoleIsTheGateways
<1> QED
  BY <1>1, <1>2, LoadsRowsKeeps

LEMMA SubmitsFiltersKeeps ==
  ASSUME BooksInv, ConsoleInv, NEW f \in FilterFields, console.at = "audit",
         LoadsRows([console EXCEPT !.form = f], f)
  PROVE  ConsoleInv'
<1> DEFINE open == [console EXCEPT !.form = f]
<1>1. /\ open \in Screens
      /\ open.rows = console.rows /\ open.paid = console.paid /\ open.applied = console.applied
      /\ open.read = console.read /\ open.phase = console.phase /\ LoadsRows(open, f)
  BY DEF Screens, ConsoleInv
<1> HIDE DEF open
<1>2. home = "gateway"
  BY ConsoleIsTheGateways
<1> QED
  BY <1>1, <1>2, LoadsRowsKeeps

LEMMA RetriesFiltersKeeps ==
  ASSUME BooksInv, ConsoleInv, RetriesFilters PROVE ConsoleInv'
<1>1. /\ console.at # "elsewhere" /\ LoadsRows(console, console.applied)
      /\ console \in Screens /\ console.applied \in FilterFields
  BY DEF RetriesFilters, ConsoleInv, Screens
<1>2. home = "gateway"
  BY <1>1, ConsoleIsTheGateways
<1> QED
  BY <1>1, <1>2, LoadsRowsKeeps

\* The gateway answers: honestly, and if the row count did not cut the answer
\* off, with every order.
LEMMA LedgerIsReadKeeps ==
  ASSUME BooksInv, ConsoleInv, NEW r \in readings, LedgerIsRead(r) PROVE ConsoleInv'
<1>0. PICK seen \in InTime(r.ask) : readings' = (readings \ {r})
                 \cup {[r EXCEPT !.at = "read", !.rows = AnswerTo(seen, r.ask), !.paid = Paid]}
  BY DEF LedgerIsRead
<1> DEFINE rows == AnswerTo(seen, r.ask)
           read == [r EXCEPT !.at = "read", !.rows = rows, !.paid = Paid]
<1>1. /\ home' = home /\ console' = console /\ started' = started
      /\ readings' = (readings \ {r}) \cup {read}
  BY <1>0 DEF LedgerIsRead, booksVars
<1>2. /\ home = "gateway" /\ r \in LedgerReads /\ r.ask \in FilterFields /\ Paid \in SUBSET Sales
      /\ ledger \in Seq(Rows) /\ recent \in Seq(Rows) /\ recent = <<>>
      /\ Honest(ledger, Paid) /\ Honest(recent, Paid) /\ Whole(ledger, Paid)
  BY ConsoleIsTheGateways DEF BooksInv, ConsoleInv, LedgerReads, Paid
<1>3. /\ rows \in Seq(Rows) /\ Honest(rows, Paid)
      /\ LetsOrdersThrough(r.ask) /\ Len(rows) < r.ask.limit => Whole(rows, Paid)
  <2>1. Selects(seen, ledger) /\ (LetsOrdersThrough(r.ask) => seen = ledger)
    BY <1>2, RowsInTime
  <2>2. seen \in Seq(Rows) /\ Honest(seen, Paid)
    BY <1>2, <2>1, SelectionIsHonest DEF Selects
  <2> QED
    BY <1>2, <2>1, <2>2, FiltersAsk, AnswersAgree
<1> HIDE DEF rows
<1>4. Agrees(rows, Paid, r.ask, r.read)
  BY <1>2, <1>3, HonestRowsShowThePaid, WholeRowsCountThePaid, WholeRowsShowThePaid DEF Agrees
<1>5. /\ read \in LedgerReads /\ read.at = "read" /\ read.rows = rows /\ read.paid = Paid
      /\ read.ask = r.ask /\ read.read = r.read
  BY <1>2, <1>3 DEF LedgerReads
<1> HIDE DEF read
<1>6. /\ readings' \subseteq LedgerReads /\ home' # "local"
      /\ \A s \in readings' : IF s.at = "read" THEN Agrees(s.rows, s.paid, s.ask, s.read)
                              ELSE s.rows = <<>>
  BY <1>1, <1>2, <1>4, <1>5 DEF ConsoleInv
<1> QED
  BY <1>1, <1>6 DEF ConsoleInv

\* Without a database: no rows, and the answer says so.
LEMMA LedgerIsMissingKeeps ==
  ASSUME BooksInv, ConsoleInv, NEW r \in readings, LedgerIsMissing(r)
  PROVE  ConsoleInv'
<1> DEFINE read == [r EXCEPT !.at = "read", !.paid = Paid, !.read = FALSE]
<1>1. /\ home' = home /\ console' = console /\ started' = started /\ r.rows = <<>>
      /\ readings' = (readings \ {r}) \cup {read}
  BY DEF LedgerIsMissing, booksVars, ConsoleInv
<1>2. home = "gateway" /\ r \in LedgerReads /\ Paid \in SUBSET Sales
  BY ConsoleIsTheGateways DEF ConsoleInv, Paid
<1>3. ShownPaid(<<>>) = {}
  <2>1. <<>> \in Seq(Rows) /\ Len(<<>>) = 0
    OBVIOUS
  <2>2. ToSet(<<>>) = {}
    <3>1. \A i : i \notin 1 .. 0
      OBVIOUS
    <3>2. ToSet(<<>>) = {<<>>[i] : i \in 1 .. 0}
      BY <2>1, RowsOfSequence
    <3> QED
      BY <3>1, <3>2
  <2> QED
    BY <2>1, <2>2, PaidHasARow
<1>4. /\ read \in LedgerReads /\ read.at = "read"
      /\ read.rows = <<>> /\ read.paid = Paid /\ ~ read.read
  BY <1>1, <1>2 DEF LedgerReads
<1> HIDE DEF read
<1>5. /\ readings' \subseteq LedgerReads /\ home' # "local"
      /\ \A s \in readings' : IF s.at = "read" THEN Agrees(s.rows, s.paid, s.ask, s.read)
                              ELSE s.rows = <<>>
  BY <1>1, <1>2, <1>3, <1>4 DEF ConsoleInv, Agrees
<1> QED
  BY <1>1, <1>5 DEF ConsoleInv

\* The answer is shown as it was read; or the page empties.
LEMMA RowsArriveKeeps ==
  ASSUME BooksInv, ConsoleInv, NEW r \in readings, RowsArrive(r) PROVE ConsoleInv'
<1>1. /\ home' = home /\ started' = started /\ readings' = readings \ {r} /\ r.at = "read"
      /\ console' = [console EXCEPT !.rows = r.rows, !.paid = r.paid, !.applied = r.ask,
                                    !.read = r.read, !.phase = "loaded", !.busy = FALSE]
  BY DEF RowsArrive, booksVars
<1>2. home = "gateway" /\ r \in LedgerReads /\ console \in Screens
  BY ConsoleIsTheGateways DEF ConsoleInv
<1>3. /\ console' \in Screens /\ console'.rows = r.rows /\ console'.paid = r.paid
      /\ console'.applied = r.ask /\ console'.read = r.read
  BY <1>1, <1>2 DEF Screens, LedgerReads
<1> QED
  BY <1>1, <1>2, <1>3 DEF ConsoleInv

LEMMA RowsFailKeeps ==
  ASSUME BooksInv, ConsoleInv, NEW r \in readings, RowsFail(r) PROVE ConsoleInv'
<1>1. /\ home' = home /\ started' = started /\ readings' = readings \ {r}
      /\ \E next \in {"failed", "partly"} :
           console' = [console EXCEPT !.rows = <<>>, !.paid = {}, !.busy = FALSE, !.phase = next]
  BY DEF RowsFail, booksVars
<1>2. home = "gateway" /\ console \in Screens /\ <<>> \in Seq(Rows) /\ {} \in SUBSET Sales
  BY ConsoleIsTheGateways DEF ConsoleInv
<1>3. console' \in Screens /\ console'.phase # "loaded"
  BY <1>1, <1>2 DEF Screens
<1> QED
  BY <1>1, <1>2, <1>3 DEF ConsoleInv

\* The books change only by who keeps them, and then the console does not.
LEMMA LogsKeep ==
  ASSUME LedgerInv, GatewayLogs \/ LocalLogs PROVE LedgerInv'
<1>1. BooksInv /\ ConsoleInv
  BY DEF LedgerInv
<1>2. console' = console /\ readings' = readings /\ started' = started /\ home' = home
  BY DEF GatewayLogs, LocalLogs, CreateLogged, AuthorizeLogged, DecisionLogged, PaymentLogged,
         PaymentEnds, Transacts, SaveCheckout, SaveApproval, SavePayment, SaveVerification,
         Saves, Restarts
<1>3. ConsoleInv'
  BY <1>1, <1>2 DEF ConsoleInv
<1>4. CASE GatewayLogs
  <2>1. home = "gateway"
    BY <1>4 DEF GatewayLogs
  <2>2. PICK x \in Sales : \/ CreateLogged(x) \/ AuthorizeLogged(x) \/ DecisionLogged(x)
                          \/ PaymentLogged(x) \/ PaymentEnds(x)
    BY <1>4 DEF GatewayLogs
  <2>3. BooksInv'
    BY <1>1, <2>1, <2>2, CreateLoggedKeeps, AuthorizeLoggedKeeps, DecisionLoggedKeeps,
       PaymentLoggedKeeps, PaymentEndsKeeps
  <2> QED
    BY <1>3, <2>3 DEF LedgerInv
<1>5. CASE LocalLogs
  <2>1. home = "local"
    BY <1>5 DEF LocalLogs
  <2>2. CASE Restarts
    BY <1>1, <1>3, <2>1, <2>2, RestartsKeeps DEF LedgerInv
  <2>3. CASE ~ Restarts
    <3>1. PICK x \in Sales : \/ SaveCheckout(x) \/ SaveApproval(x)
                            \/ SavePayment(x) \/ SaveVerification(x)
      BY <1>5, <2>3 DEF LocalLogs
    <3>2. BooksInv'
      BY <1>1, <2>1, <3>1, SaveCheckoutKeeps, SaveApprovalKeeps, SavePaymentKeeps,
         SaveVerificationKeeps
    <3> QED
      BY <1>3, <3>2 DEF LedgerInv
  <2> QED
    BY <2>2, <2>3
<1> QED
  BY <1>4, <1>5

\* Each of the console's steps.
LEMMA ConsoleKeeps ==
  ASSUME LedgerInv, LedgerNext, ~ GatewayLogs, ~ LocalLogs PROVE LedgerInv'
<1>1. BooksInv /\ ConsoleInv
  BY DEF LedgerInv
<1>2. UNCHANGED booksVars
  BY DEF LedgerNext, OpensPage, PicksRows, RefreshesRows, SubmitsFilters, ResetsFilters,
         RetriesFilters, LoadsRows, LedgerIsRead, LedgerIsMissing, RowsArrive, RowsFail
<1>3. BooksInv'
  BY <1>1, <1>2, BooksStand
<1>4. CASE \E at \in Pages : OpensPage(at)
  BY <1>1, <1>3, <1>4, OpensPageKeeps DEF LedgerInv
<1>5. CASE \E n \in RowLimits : PicksRows(n)
  BY <1>1, <1>3, <1>5, PicksRowsKeeps DEF LedgerInv
<1>6. CASE RefreshesRows
  BY <1>1, <1>3, <1>6, RefreshesRowsKeeps DEF LedgerInv
<1>7. CASE SubmitsFilters \/ ResetsFilters
  <2>1. PICK f \in FilterFields : LoadsRows([console EXCEPT !.form = f], f)
    BY <1>7, AskedAreFilters DEF SubmitsFilters, ResetsFilters
  <2>2. console.at = "audit"
    BY <1>7 DEF SubmitsFilters, ResetsFilters
  <2> QED
    BY <1>1, <1>3, <2>1, <2>2, SubmitsFiltersKeeps DEF LedgerInv
<1>8. CASE RetriesFilters
  BY <1>1, <1>3, <1>8, RetriesFiltersKeeps DEF LedgerInv
<1>9. CASE \E r \in readings : LedgerIsRead(r) \/ LedgerIsMissing(r) \/ RowsArrive(r) \/ RowsFail(r)
  BY <1>1, <1>3, <1>9, LedgerIsReadKeeps, LedgerIsMissingKeeps, RowsArriveKeeps, RowsFailKeeps
     DEF LedgerInv
<1> QED
  BY <1>4, <1>5, <1>6, <1>7, <1>8, <1>9 DEF LedgerNext

\* Every step keeps the invariant.
LEMMA LedgerStep ==
  ASSUME LedgerInv, [LedgerNext]_ledgerVars PROVE LedgerInv'
<1>1. CASE LedgerNext
  BY <1>1, LogsKeep, ConsoleKeeps
<1>2. CASE UNCHANGED ledgerVars
  <2>1. /\ UNCHANGED booksVars /\ home' = home /\ console' = console
        /\ readings' = readings /\ started' = started
    BY <1>2 DEF ledgerVars, booksVars
  <2>2. BooksInv'
    BY <2>1, BooksStand DEF LedgerInv
  <2>3. ConsoleInv'
    BY <2>1 DEF ConsoleInv, LedgerInv
  <2> QED
    BY <2>2, <2>3 DEF LedgerInv
<1> QED
  BY <1>1, <1>2

\* What is asked for with no filter at all shows nothing as paid that was not.
LEMMA LedgerAgrees ==
  ASSUME LedgerInv PROVE LedgerAgreesWithSales
<1>1. BooksInv /\ ConsoleInv
  BY DEF LedgerInv
<1>2. /\ ledger \in Seq(Rows) /\ recent \in Seq(Rows)
      /\ Honest(ledger, Paid) /\ Honest(recent, Paid)
      /\ AllRows.limit \in Nat
  BY <1>1, AskedAreFilters, FiltersAsk DEF BooksInv
<1>3. Listing(AllRows) \in Seq(Rows) /\ Honest(Listing(AllRows), Paid)
  BY <1>2, AnswersAgree DEF Listing
<1>4. ShownPaid(Listing(AllRows)) \subseteq Paid
  BY <1>3, HonestRowsShowThePaid
<1>5. console.phase = "loaded" =>
        Agrees(console.rows, console.paid, console.applied, console.read)
  BY <1>1 DEF ConsoleInv
<1> QED
  BY <1>4, <1>5 DEF LedgerAgreesWithSales, Agrees

\* No row of an order stands without the order, and what the console's pages show
\* as paid agrees with the sales when the answer was read: groupTransactions and
\* ledgerTotals over what the services append, for any number of sales, open at
\* once or not, any row counts, readings that overlap, processes that die.
THEOREM TheLedgerAgrees == LedgerSpec => []LedgerAgreesWithSales
<1>1. LedgerInit => LedgerInv
  BY BooksAreOpened, ConsoleOpens DEF LedgerInv
<1>2. LedgerInv /\ [LedgerNext]_ledgerVars => LedgerInv'
  BY LedgerStep
<1>3. LedgerInv => LedgerAgreesWithSales
  BY LedgerAgrees
<1> QED
  BY <1>1, <1>2, <1>3, PTL DEF LedgerSpec

=============================================================================
