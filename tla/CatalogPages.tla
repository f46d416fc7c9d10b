---------------------------- MODULE CatalogPages ----------------------------
(***************************************************************************)
(* The buyer's catalogue pages (apps/web/src/app: the home page, search,   *)
(* category, product, compare, wishlist) over apps/web/src/catalog: what a *)
(* page now asks for, the reads under way for it and for what it asked     *)
(* before, what it shows, and the lines it puts in the bag.                *)
(*                                                                         *)
(* A page asks for a set of items: the filter of a search ({}: all), the   *)
(* one category or product of its address, the products of a comparison or *)
(* of the wishlist.  Every change of it starts a run of the page's effect; *)
(* the reads of earlier runs go on and may answer at any time.             *)
(***************************************************************************)
EXTENDS Naturals, FiniteSets, Sequences, SequencesExt

CONSTANTS
  Products,    \* products; also what a filter may name
  Static,      \* those of the list built into the application
  MaxCompare,  \* the comparison list holds at most this many
  MaxRuns      \* bound on runs of the pages' effects

ASSUME CatalogAssumption ==
  /\ Static \subseteq Products
  /\ {MaxCompare, MaxRuns} \subseteq Nat \ {0}

VARIABLES
  place,      \* the page the browser is on
  asked,      \* what it asks for
  picked,     \* search: what its filter controls show
  run,        \* number of the effect run in force
  reads,      \* reads under way
  phase,      \* "loading", "ready", "failed", "blocked"
  shown,      \* the answer on display: for what, and its rows
  companion,  \* product: the recommended companion
  bundles,    \* companions being read for the bag
  lists,      \* the wishlist and the comparison list of the store
  bagged,     \* lines [item, price, from]
  refused     \* the latch: the deterministic search refused this browser

viewVars == <<place, asked, picked, run, reads, phase, shown, companion>>
catalogVars == <<viewVars, bundles, lists, bagged, refused>>

Listings == {"home", "search", "category"}
Places == Listings \cup {"product", "compare", "wishlist", "checkout"}

Row(i, price) == [item |-> i, price |-> price]
Rows == [item : Products, price : {"live", "static"}]
Live(found) == {Row(i, "live") : i \in found}
StaticRows(ids) == {Row(i, "static") : i \in ids \cap Static}
Nothing == [for |-> {}, rows |-> {}]

\* What one run starts with.  waits: the single reads it still waits for.
Read(p, a, n) ==
  [run |-> n, place |-> p, for |-> a, rows |-> {},
   stage |-> IF p \notin Listings THEN "records"
             ELSE IF refused THEN "explore" ELSE "search",
   waits |-> IF p = "product" THEN {"record", "offer"}
             ELSE IF p \in {"compare", "wishlist"} THEN a ELSE {},
   known |-> p = "product" /\ a \subseteq Static]

CatalogInit ==
  /\ place = "home" /\ asked = {} /\ picked = {} /\ run = 1
  /\ refused = FALSE
  /\ reads = {Read("home", {}, 1)}
  /\ phase = "ready"
  /\ shown = [for |-> {}, rows |-> StaticRows(Products)]
  /\ companion = {} /\ bundles = {} /\ bagged = {}
  /\ lists \in {[wish |-> w, compare |-> <<>>] : w \in {{}, Products}}

-----------------------------------------------------------------------------
(* What starts a run *)

\* The effect of a page asking for a: nothing is read for an empty
\* comparison or wishlist, whose rows are dropped but whose loading flag
\* stays as it is; the home page shows its own list meanwhile.
Starts(p, a) ==
  /\ run < MaxRuns
  /\ run' = run + 1 /\ place' = p /\ asked' = a
  /\ IF (p \in {"compare", "wishlist"} /\ a = {}) \/ p = "checkout"
     THEN /\ reads' = reads
          /\ phase' = IF p = place THEN phase ELSE "ready"
          /\ shown' = Nothing
     ELSE /\ reads' = reads \cup {Read(p, a, run + 1)}
          /\ phase' = IF p = "home" THEN "ready" ELSE "loading"
          /\ shown' = IF p = "home" THEN [for |-> {}, rows |-> StaticRows(Products)]
                      ELSE IF p = place /\ p # "product" THEN shown ELSE Nothing

Asks(p) == CASE p \in {"search", "category"} -> {{}} \cup {{i} : i \in Products}
             [] p = "product" -> {{i} : i \in Products}
             [] p = "compare" -> {ToSet(lists.compare), Products}
             [] p = "wishlist" -> {lists.wish}
             [] OTHER -> {{}}

\* Another page is opened.  A category the shop does not know asks nothing.
Open(p) ==
  /\ p # place
  /\ \E a \in Asks(p) :
       /\ p = "category" => a # {}
       /\ Starts(p, a)
       /\ picked' = IF p = "search" THEN a ELSE picked
  /\ companion' = {}
  /\ UNCHANGED <<bundles, lists, bagged, refused>>

\* search: the address changes under the mounted page (the bar at its top
\* names no category): the controls follow only an address that names one.
Readdress ==
  /\ place = "search"
  /\ \E a \in Asks("search") :
       Starts("search", a) /\ picked' = IF a = {} THEN picked ELSE a
  /\ UNCHANGED <<companion, bundles, lists, bagged, refused>>

\* search: a control is clicked, the form submitted, the filters cleared.
Commit ==
  /\ place = "search"
  /\ \E a \in Asks("search") : Starts("search", a) /\ picked' = a
  /\ UNCHANGED <<companion, bundles, lists, bagged, refused>>

\* category, product, compare: "Try again" and "Refresh".
Reload ==
  /\ \/ place \in {"category", "product"} /\ phase = "failed"
     \/ place = "compare" /\ phase # "loading" /\ asked # {}
  /\ Starts(place, asked)
  /\ UNCHANGED <<picked, companion, bundles, lists, bagged, refused>>

\* A full list loses its oldest product to the new one.
ToggledCompare(i) ==
  LET old == lists.compare
  IN IF i \in ToSet(old) THEN Remove(old, i)
     ELSE IF Len(old) >= MaxCompare THEN Append(Tail(old), i)
     ELSE Append(old, i)

\* The buttons of a card, and those of the product page.
Offered(i) == /\ phase = "ready"
              /\ \/ place = "product" /\ asked = {i}
                 \/ \E row \in shown.rows : row.item = i

\* A product is saved or no longer saved.  The wishlist page asks for
\* the wishlist anew.
ToggleWishlist(i) ==
  LET w == (lists.wish \ {i}) \cup ({i} \ lists.wish)
  IN /\ place # "compare" /\ Offered(i)
     /\ lists' = [lists EXCEPT !.wish = w]
     /\ IF place = "wishlist" THEN Starts("wishlist", w)
        ELSE UNCHANGED <<place, asked, run, reads, phase, shown>>
     /\ UNCHANGED <<picked, companion, bundles, bagged, refused>>

ToggleCompare(i) ==
  /\ place # "compare" /\ Offered(i)
  /\ lists' = [lists EXCEPT !.compare = ToggledCompare(i)]
  /\ UNCHANGED <<viewVars, bundles, bagged, refused>>

\* compare: an item is added or removed, in the list or in the address, where
\* removing keeps only what could be compared.  An address that names nothing
\* stands for the list.
ChangeComparison(i) ==
  LET compared == {row.item : row \in shown.rows}
      listed == ToSet(lists.compare)
      named == IF i \in compared THEN compared \ {i} ELSE compared \cup asked \cup {i}
  IN /\ place = "compare" /\ phase # "loading" /\ compared # {}
     /\ \/ /\ asked = listed
           /\ lists' = [lists EXCEPT !.compare = ToggledCompare(i)]
           /\ Starts("compare", ToSet(ToggledCompare(i)))
        \/ /\ Starts("compare", IF named = {} THEN listed ELSE named)
           /\ UNCHANGED lists
     /\ UNCHANGED <<picked, companion, bundles, bagged, refused>>

\* compare: the browser goes back to the address that names nothing.
BackToList ==
  /\ place = "compare" /\ asked # ToSet(lists.compare)
  /\ Starts("compare", ToSet(lists.compare))
  /\ UNCHANGED <<picked, companion, bundles, lists, bagged, refused>>

-----------------------------------------------------------------------------
(* What answers *)

\* Mutated: an answer is shown on the page that asked, whatever it asks now.
InForceOnPage(read) == read.place = place

\* The cleanup of an effect cancels its run; search compares its token too.
InForce(read) == read.run = run

\* read ends with this phase and these rows.
Ends(read, result, rows) ==
  /\ reads' = reads \ {read}
  /\ IF InForce(read)
     THEN /\ phase' = result
          /\ shown' = IF result = "ready" THEN [for |-> read.for, rows |-> rows] ELSE shown
     ELSE UNCHANGED <<phase, shown>>
  /\ UNCHANGED <<place, asked, picked, run, companion, bundles, lists, bagged>>

Goes(read, next) ==
  /\ reads' = (reads \ {read}) \cup {next}
  /\ UNCHANGED <<place, asked, picked, run, phase, shown, companion, bundles, lists, bagged>>

\* The home page puts what is live before its own list, and keeps the list
\* when nothing is.
ListedFor(read, found) ==
  IF read.place = "home" THEN Live(found \ Static) \cup StaticRows(Products)
  ELSE Live(found)

\* POST /api/v1/catalog/search answers.
SearchAnswers(read) ==
  /\ read.stage = "search"
  /\ \E found \in {{}, Products} : Ends(read, "ready", ListedFor(read, found))
  /\ UNCHANGED refused

\* Mutated: a search that fails is the end of it, and says nothing.
SearchFailsSilently(read) ==
  /\ read.stage = "search"
  /\ Ends(read, phase, {})
  /\ UNCHANGED refused

\* It refuses or fails: the open endpoint is asked, and a refusal is latched.
SearchFails(read) ==
  /\ read.stage = "search"
  /\ Goes(read, [read EXCEPT !.stage = "explore"])
  /\ refused' \in {refused, TRUE}

\* POST /api/explore answers, is blocked by its guard, or fails.
ExploreAnswers(read) ==
  /\ read.stage = "explore"
  /\ \/ \E found \in {{}, Products} : Ends(read, "ready", ListedFor(read, found))
     \/ Ends(read, IF read.place = "home" THEN "ready" ELSE "blocked", shown.rows)
     \/ Ends(read, IF read.place = "home" THEN "ready" ELSE "failed", shown.rows)
  /\ UNCHANGED refused

\* Mutated: without a live offer, one is made of the built-in list.
OfferElseStatic(read, offers) ==
  IF offers = {} THEN StaticRows(read.for) ELSE offers

\* product: the offer it sells under, if any has a price.
OfferOf(read, offers) == offers

\* product: both reads have ended.  The page is there if the record is, in
\* the catalogue or in the built-in list, or if an offer is.
ShowProduct(read, known, offers) ==
  Ends(read, IF known \/ offers # {} THEN "ready" ELSE "failed", OfferOf(read, offers))

\* product: the record arrives, with an offer of its own or without, or does
\* not; the offer is found in the page of the catalogue, or is not.
ProductAnswers(read) ==
  /\ read.place = "product"
  /\ \E w \in read.waits, offers \in {{}, Live(read.for)}, known \in BOOLEAN :
       LET known2 == read.known \/ (w = "record" /\ known)
           rows == read.rows \cup offers
       IN /\ (w = "record" /\ offers # {}) => known
          /\ IF read.waits = {w} THEN ShowProduct(read, known2, rows)
             ELSE Goes(read, [read EXCEPT !.waits = @ \ {w}, !.known = known2, !.rows = rows])
  /\ UNCHANGED refused

\* compare, wishlist: an item is found live; else the built-in list's copy
\* stands in for it; else it is left out.
ItemAnswers(read) ==
  /\ read.place \in {"compare", "wishlist"}
  /\ \E i \in read.waits, live \in BOOLEAN :
       LET rows == read.rows \cup (IF live THEN Live({i}) ELSE StaticRows({i}))
       IN IF read.waits = {i} THEN Ends(read, "ready", rows)
          ELSE Goes(read, [read EXCEPT !.waits = @ \ {i}, !.rows = rows])
  /\ UNCHANGED refused

Answer(read) ==
  \/ SearchAnswers(read) \/ SearchFails(read) \/ ExploreAnswers(read)
  \/ ProductAnswers(read) \/ ItemAnswers(read)

\* product: a companion is recommended.
CompanionAnswers ==
  /\ place = "product" /\ companion = {}
  /\ \E i \in Products \ asked : companion' = {i}
  /\ UNCHANGED <<place, asked, picked, run, reads, phase, shown, bundles, lists, bagged, refused>>

-----------------------------------------------------------------------------
(* What goes into the bag *)

\* addToCart: a line of the same product keeps the price it was added with.
WithLine(lines, i, price, from) ==
  IF \E line \in lines : line.item = i THEN lines
  ELSE lines \cup {[item |-> i, price |-> price, from |-> from]}

\* A card of a listing, of the wishlist or of the comparison is added.
AddFromRow(row) ==
  /\ place \in Listings \cup {"compare", "wishlist"} /\ phase = "ready"
  /\ row \in shown.rows
  /\ bagged' = WithLine(bagged, row.item, row.price, place)
  /\ UNCHANGED <<viewVars, bundles, lists, refused>>

\* product: "Add to Bag" is enabled by an offer in force and in stock.
AddToBag ==
  /\ place = "product" /\ phase = "ready"
  /\ \E row \in shown.rows : bagged' = WithLine(bagged, row.item, row.price, "product")
  /\ UNCHANGED <<viewVars, bundles, lists, refused>>

\* product: "Buy Now" adds it and opens the checkout.
BuyNow ==
  /\ place = "product" /\ phase = "ready"
  /\ \E row \in shown.rows : bagged' = WithLine(bagged, row.item, row.price, "product")
  /\ Starts("checkout", {})
  /\ companion' = {}
  /\ UNCHANGED <<picked, bundles, lists, refused>>

\* product: "Add Both to Bag".  The companion comes from the built-in list;
\* one that is not there is read first.
AddBundle ==
  /\ place = "product" /\ phase = "ready" /\ companion # {}
  /\ \E row \in shown.rows, i \in companion :
       LET main == WithLine(bagged, row.item, row.price, "product")
       IN IF i \in Static
          THEN bagged' = WithLine(main, i, "static", "bundle") /\ UNCHANGED bundles
          ELSE bagged' = main /\ bundles' = bundles \cup {i}
  /\ UNCHANGED <<viewVars, lists, refused>>

\* Its offer arrives, wherever the browser is by then, or does not.
BundleAnswers(i) ==
  /\ i \in bundles
  /\ bundles' = bundles \ {i}
  /\ bagged' \in {bagged, WithLine(bagged, i, "live", "bundle")}
  /\ UNCHANGED <<viewVars, lists, refused>>

-----------------------------------------------------------------------------
CatalogNext ==
  \/ \E p \in Places : Open(p)
  \/ Readdress \/ Commit \/ Reload \/ BackToList
  \/ \E i \in Products : ToggleWishlist(i) \/ ToggleCompare(i) \/ ChangeComparison(i)
  \/ \E read \in reads : Answer(read)
  \/ CompanionAnswers
  \/ \E row \in Rows : AddFromRow(row)
  \/ AddToBag \/ BuyNow \/ AddBundle
  \/ \E i \in Products : BundleAnswers(i)

\* Every request ends, with an answer, an error or the client's timeout.
CatalogSpec == CatalogInit /\ [][CatalogNext]_catalogVars
        /\ WF_catalogVars(\E read \in reads : InForce(read) /\ Answer(read))

-----------------------------------------------------------------------------
(* The state's shape; a run in force is read for by at most one read. *)
CatalogTypeOK ==
  /\ place \in Places /\ asked \subseteq Products /\ picked \subseteq Products
  /\ run \in 1..MaxRuns
  /\ phase \in {"loading", "ready", "failed", "blocked"}
  /\ shown.for \subseteq Products /\ shown.rows \subseteq Rows
  /\ companion \subseteq Products /\ bundles \subseteq Products \ Static
  /\ \A read \in reads : read.run <= run /\ read.rows \subseteq Rows
  /\ Cardinality({read \in reads : read.run = run}) <= 1
  /\ Len(lists.compare) <= MaxCompare /\ lists.wish \subseteq Products
  /\ bagged \subseteq [item : Products, price : {"live", "static"}, from : Places \cup {"bundle"}]

(* A page that says it is ready shows the answer to what it asks for now,  *)
(* however many questions it asked before and in whatever order they are   *)
(* answered: the cancelled flag of the effects, the token of the search.   *)
ShowsWhatIsAsked == phase = "ready" => shown.for = asked

(* What the product page itself puts in the bag is a merchant's price:     *)
(* "Synthesizing one from static prices would let a buyer check out        *)
(* against a price no merchant set" (app/product/[id]/page.tsx:166-168).   *)
ProductLinesAreLive == \A line \in bagged : line.from = "product" => line.price = "live"

\* An emptied comparison or wishlist: see LoadingAlwaysEnds.
Emptied == place \in {"compare", "wishlist"} /\ asked = {}

(* A page that is loading comes to an answer or an error: refusals and     *)
(* failures of either endpoint on the way included.                        *)
LoadingEnds == (phase = "loading" /\ ~Emptied) ~> (phase # "loading" \/ Emptied)

(* The same of every page.  The effects of the compare page and of the     *)
(* wishlist return early for an empty list and leave the loading flag that *)
(* the cancelled run had set, so emptying one while it loads leaves the    *)
(* spinner for good.                                                       *)
LoadingAlwaysEnds == (phase = "loading") ~> (phase # "loading")

(* Every line of the bag is priced by the live catalogue, as the comment   *)
(* at the bundle says ("resolved against live data only",                  *)
(* app/product/[id]/page.tsx:411-413); the bundle takes the built-in list's*)
(* product first, and the comparison sells that list's copies.             *)
BundleIsLive == \A line \in bagged : line.from = "bundle" => line.price = "live"

(* The filters the search page shows are the ones its results answer to.   *)
FiltersShownAreApplied == place = "search" => picked = asked

=============================================================================
