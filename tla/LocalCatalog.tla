---------------------------- MODULE LocalCatalog ----------------------------
(***************************************************************************)
(* The catalogue of the web tier's own back end (apps/web/src/app/api/     *)
(* [...path]/route.ts over lib/serverDb.ts), which answers whenever no     *)
(* gateway is configured: searches, the assistant's exploration, reads of  *)
(* a product or an offer, the agents' feed, research questions, and the    *)
(* prices a checkout is frozen at.                                         *)
(*                                                                         *)
(* It has two sources: a database, which the gateway may publish to while  *)
(* this tier reads it, and a list of products built into the application,  *)
(* which answers what the database does not.  The order of rows within an  *)
(* answer is left open; which rows can be in it is not.                    *)
(***************************************************************************)
EXTENDS Integers, FiniteSets, Sequences, SequencesExt

CONSTANTS
  About,       \* of a product: kind, words of its text, gigabytes its text
               \* mentions, memory, and what the built-in list says of it:
               \* offer, price, days, stock
  Shelf,       \* the built-in list, a sequence of products
  OfferIds,    \* the offers a database may hold, in the order of their ids
  ProductOf,   \* the product of each
  KindSaid,    \* the kind a word names, or "none"
  Guarded,     \* words of an instruction to the assistant
  Prices,
  Delays,      \* the delivery days an offer may be published with
  Ceilings,    \* those searched for
  NoLimit,     \* above every price and every number of days
  RowsPerPage,
  MaxBag,      \* bound on the lines of the bag
  MaxChanges   \* bound on publications

ASSUME LocalCatalogAssumption ==
  /\ Shelf \in Seq(DOMAIN About) /\ Shelf # <<>>
  /\ Prices \subseteq Nat \ {0} /\ Ceilings \subseteq Nat
  /\ NoLimit \in Nat /\ 2 <= NoLimit
  /\ \A n \in Prices : n < NoLimit
  /\ Delays \subseteq 0 .. NoLimit
  /\ \A p \in DOMAIN About : About[p].price \in 0 .. NoLimit /\ About[p].days \in 0 .. NoLimit
  /\ {RowsPerPage, MaxBag, MaxChanges} \subseteq Nat

VARIABLES
  db,       \* the offers of the database: price, days, active
  answer,   \* the answer last received: what was asked, its rows
  writing,  \* explorations whose recommendation is being written
  bag,      \* rows taken from answers
  frozen,   \* lines of the last checkout, or {}
  changes   \* publications so far

localVars == <<db, answer, writing, bag, frozen, changes>>

Words == DOMAIN KindSaid
Kinds == {About[p].kind : p \in DOMAIN About} \cup {"none"}
Stored == DOMAIN db
BuiltIn == ToSet(Shelf)

\* What a search asks for.  said: a budget found in the text; NoLimit, 0: none.
Query(text, said, kind, floor, ceiling, days, memory, skip) ==
  [text |-> text, said |-> said, kind |-> kind, floor |-> floor,
   ceiling |-> ceiling, days |-> days, memory |-> memory, skip |-> skip]
AnyProduct == Query("none", NoLimit, "none", 0, NoLimit, NoLimit, 0, 0)

\* The floor, the days, the memory and the rows to skip are used one at a
\* time, as a bound of the instance.
Rests == {<<0, d, 0, 0>> : d \in {1, 2, NoLimit}}
         \cup {<<2, NoLimit, 0, 0>>, <<0, NoLimit, 8, 0>>, <<0, NoLimit, 0, 1>>}
Queries ==
  {Query(w, b, k, x[1], c, x[2], x[3], x[4]) :
     w \in Words, b \in Ceilings, k \in Kinds, c \in Ceilings, x \in Rests}

\* A row shows some days, and its source holds some (recorded): an offer due
\* the same day is shown as due in two.
DaysShown(n) == IF n = 0 THEN 2 ELSE n
LiveRow(o) == [id |-> o, product |-> ProductOf[o], price |-> db[o].price,
               days |-> DaysShown(db[o].days), recorded |-> db[o].days,
               live |-> TRUE, stale |-> FALSE]
BuiltInRow(p) == [id |-> About[p].offer, product |-> p, price |-> About[p].price,
                  days |-> About[p].days, recorded |-> About[p].days,
                  live |-> FALSE, stale |-> FALSE]
Reply(q, rows) == [query |-> q, of |-> "any", rows |-> rows]

Nothing == Reply(AnyProduct, {})

\* The shopper reads one answer at a time, and buys what was taken before
\* the next visit.
Idle == answer = Nothing /\ writing = {} /\ frozen = {} /\ Cardinality(bag) < MaxBag

LocalInit ==
  /\ \E D \in SUBSET ToSet(OfferIds), n \in Prices, d \in Delays :
       db = [o \in D |->
               LET p == ProductOf[o]
               IN IF p \in BuiltIn /\ About[p].offer = o
                  THEN [price |-> About[p].price, days |-> About[p].days, active |-> TRUE]
                  ELSE [price |-> n, days |-> d, active |-> TRUE]]
  /\ answer = Nothing
  /\ writing = {} /\ bag = {} /\ frozen = {} /\ changes = 0

-----------------------------------------------------------------------------
(* Searching *)

\* LIKE '%nGB%' finds n wherever a figure of the text ends with it.
EndsWith(m, n) == m % (IF n < 10 THEN 10 ELSE IF n < 100 THEN 100 ELSE 1000) = n

\* The database search.  The whole phrase has to occur: a product's text
\* never holds the words of a budget.
Matches(q, o) ==
  LET a == About[ProductOf[o]]
  IN /\ db[o].active
     /\ q.said = NoLimit
     /\ q.text # "none" => q.text \in a.words
     /\ q.kind # "none" => a.kind = q.kind
     /\ db[o].price \in q.floor..q.ceiling
     /\ db[o].days <= q.days
     /\ q.memory > 0 => \/ a.memory >= q.memory
                        \/ \E m \in a.gigabytes : EndsWith(m, q.memory)

\* The kind a search is for, and the score of a built-in product for it.
KindFor(q) == IF KindSaid[q.text] # "none" THEN KindSaid[q.text] ELSE q.kind
Score(q, p) ==
  (CASE KindFor(q) = "none" -> 0
     [] About[p].kind = KindFor(q) -> 150
     [] KindSaid[q.text] # "none" -> -200
     [] OTHER -> 0)
  + (CASE q.text = "none" -> 10
       [] q.text \in About[p].words -> 45
       [] KindFor(q) = "none" -> -50
       [] OTHER -> 0)
  + (IF About[p].stock > 0 THEN 15 ELSE 0) + 22

\* A ceiling of 0 counts as none; then the text may name one.
Budget(q) == IF q.ceiling \notin {0, NoLimit} THEN q.ceiling ELSE q.said

\* Mutated: the search of the built-in list forgets the delivery time.
RankedAnyDay(q) ==
  LET fit == {p \in BuiltIn : About[p].price <= Budget(q)
                              /\ (q.memory > 0 => About[p].memory >= q.memory)}
      good == {p \in fit : Score(q, p) > 0}
  IN IF (q.text # "none" \/ q.kind # "none") /\ good # {} THEN good ELSE fit

\* The built-in products a search answers from: those of a positive score,
\* and all that fit when none has one.  It is not told the lower bound.
Ranked(q) ==
  LET fit == {p \in BuiltIn : /\ About[p].price <= Budget(q)
                              /\ About[p].days <= q.days
                              /\ q.memory > 0 => About[p].memory >= q.memory}
      good == {p \in fit : Score(q, p) > 0}
  IN IF (q.text # "none" \/ q.kind # "none") /\ good # {} THEN good ELSE fit

Best(q) == {p \in Ranked(q) :
              \A other \in Ranked(q) : Score(q, other) <= Score(q, p)}

\* The pages of a set of rows that start after skip of them.
PagesOf(rows, skip) ==
  {page \in SUBSET rows :
     LET left == IF skip >= Cardinality(rows) THEN 0 ELSE Cardinality(rows) - skip
     IN Cardinality(page) = IF left < RowsPerPage THEN left ELSE RowsPerPage}

\* A page of the database, or of the built-in list when that page is empty.
Found(q) ==
  LET live == PagesOf({LiveRow(o) : o \in {x \in Stored : Matches(q, x)}}, q.skip)
  IN IF live # {{}} THEN live
     ELSE PagesOf({BuiltInRow(p) : p \in Ranked(q)}, q.skip)

Search(q) ==
  /\ Idle
  /\ \E rows \in Found(q) : answer' = Reply(q, rows)
  /\ UNCHANGED <<db, writing, bag, frozen, changes>>

\* The exploration asks only for text, kind and ceiling.  With a model
\* configured and a row found, its recommendation is awaited.
Explore(q) ==
  /\ q = [AnyProduct EXCEPT !.text = q.text, !.said = q.said, !.kind = q.kind,
                            !.ceiling = q.ceiling]
  /\ Idle
  /\ \E rows \in IF q.text \in Guarded THEN {{}} ELSE Found(q) :
       \/ answer' = Reply(q, rows) /\ UNCHANGED writing
       \/ /\ rows # {} /\ q.text # "none"
          /\ writing' = {Reply(q, rows)} /\ UNCHANGED answer
  /\ UNCHANGED <<db, bag, frozen, changes>>

\* The model has answered, or failed, or its time is over.
ExploreAnswered ==
  /\ \E a \in writing : answer' = a /\ writing' = writing \ {a}
  /\ UNCHANGED <<db, bag, frozen, changes>>

-----------------------------------------------------------------------------
(* Reading one of them *)

\* An identifier names an offer; failing that a product, for its first offer.
OfferOf(id) ==
  LET mine == {i \in DOMAIN OfferIds : OfferIds[i] \in Stored /\ ProductOf[OfferIds[i]] = id}
      first == {i \in mine : \A j \in mine : i <= j}
  IN IF id \in Stored THEN {id} ELSE {OfferIds[i] : i \in first}
BuiltInOf(id) == {p \in BuiltIn : id \in {p, About[p].offer}}

Identifiers == DOMAIN About \cup ToSet(OfferIds)
Tell(p, rows) == Idle /\ answer' = [query |-> AnyProduct, of |-> p, rows |-> rows]
Named(id) == IF id \in DOMAIN About THEN id ELSE ProductOf[id]

\* A product of the database comes with any of its offers, on sale or not;
\* one of the built-in list without a price.
ReadProduct(p) ==
  /\ LET mine == {o \in Stored : ProductOf[o] = p}
     IN IF mine = {} THEN Tell(p, {}) ELSE \E o \in mine : Tell(p, {LiveRow(o)})
  /\ UNCHANGED <<db, writing, bag, frozen, changes>>

ReadOffer(id) ==
  /\ Tell(Named(id),
          IF OfferOf(id) # {} THEN {LiveRow(o) : o \in OfferOf(id)}
          ELSE {BuiltInRow(p) : p \in BuiltInOf(id)})
  /\ UNCHANGED <<db, writing, bag, frozen, changes>>

\* An offer's identifier is looked up without its prefix, which finds
\* nothing: the first built-in product is answered in its place.
Validate(id) ==
  /\ Tell(Named(id),
          IF id \notin ToSet(OfferIds) /\ OfferOf(id) # {}
          THEN {LiveRow(o) : o \in OfferOf(id)}
          ELSE {BuiltInRow(IF id \in BuiltIn THEN id ELSE Head(Shelf))})
  /\ UNCHANGED <<db, writing, bag, frozen, changes>>

\* The agents' feed, under /api and as a discovery document: the offers on
\* sale, or the built-in list.
OnSale ==
  LET live == {LiveRow(o) : o \in {x \in Stored : db[x].active}}
  IN IF live # {} THEN live ELSE {BuiltInRow(p) : p \in BuiltIn}
Feed ==
  /\ Tell("any", OnSale)
  /\ UNCHANGED <<db, writing, bag, frozen, changes>>
Discover ==
  /\ Tell("any", OnSale)
  /\ UNCHANGED <<db, writing, bag, frozen, changes>>

\* The product a question is answered about: the one asked for if the
\* application knows it, else whatever the question finds.
Subject(p, word) ==
  IF p \in BuiltIn THEN {p} ELSE Best([AnyProduct EXCEPT !.text = word])
Ask(p, word) ==
  /\ \E s \in Subject(p, word) : Tell(p, {BuiltInRow(s)})
  /\ UNCHANGED <<db, writing, bag, frozen, changes>>

\* The recommended companion is an accessory neither source holds.
Companion == [id |-> "companion", product |-> "companion", price |-> 1,
              days |-> 1, recorded |-> 1, live |-> FALSE, stale |-> FALSE]
CrossSell ==
  /\ Tell("any", {Companion})
  /\ UNCHANGED <<db, writing, bag, frozen, changes>>

-----------------------------------------------------------------------------
(* Buying, and what changes meanwhile *)

\* One row of an answer is taken; the next comes from another answer.
Take ==
  /\ \E r \in answer.rows : bag' = bag \cup {r}
  /\ answer' = Nothing
  /\ UNCHANGED <<db, writing, frozen, changes>>

\* The answer is left, the bag emptied, or the checkout closed.
LeaveShop ==
  /\ answer' = Nothing /\ frozen' = {} /\ bag' \in {bag, {}}
  /\ UNCHANGED <<db, writing, changes>>

\* Mutated: the built-in list prices what it knows, the database the rest.
PriceBuiltInFirst(id) ==
  IF BuiltInOf(id) # {} THEN {About[p].price : p \in BuiltInOf(id)}
  ELSE {db[o].price : o \in OfferOf(id)}

\* The price of a line: the database's, else the built-in list's.
UnitPrice(id) ==
  IF OfferOf(id) # {} THEN {db[o].price : o \in OfferOf(id)}
  ELSE {About[p].price : p \in BuiltInOf(id)}

\* A checkout is refused when one of its lines has no price.
Freeze ==
  /\ bag # {}
  /\ \A r \in bag : UnitPrice(r.id) # {}
  /\ frozen' = UNION {{[row |-> r, price |-> n] : n \in UnitPrice(r.id)} : r \in bag}
  /\ bag' = {}
  /\ UNCHANGED <<db, answer, writing, changes>>

Outdated(rows, o) == {[r EXCEPT !.stale = @ \/ r.id = o] : r \in rows}

\* The gateway publishes an offer: new, at another price, or off sale.
Publish(o) ==
  /\ changes < MaxChanges /\ changes' = changes + 1
  /\ \E n \in Prices, d \in Delays, on \in BOOLEAN :
       LET offer == [price |-> n, days |-> d, active |-> on]
       IN /\ ~ (o \in Stored /\ db[o] = offer)
          /\ db' = [x \in Stored \cup {o} |-> IF x = o THEN offer ELSE db[x]]
  /\ answer' = [answer EXCEPT !.rows = Outdated(@, o)]
  /\ writing' = {[a EXCEPT !.rows = Outdated(@, o)] : a \in writing}
  /\ bag' = Outdated(bag, o)
  /\ UNCHANGED frozen

LocalNext ==
  \/ \E q \in Queries : Search(q) \/ Explore(q)
  \/ ExploreAnswered \/ Feed \/ Discover \/ CrossSell \/ Take \/ LeaveShop \/ Freeze
  \/ \E p \in DOMAIN About : ReadProduct(p) \/ \E w \in Words : Ask(p, w)
  \/ \E id \in Identifiers : ReadOffer(id) \/ Validate(id)
  \/ \E o \in ToSet(OfferIds) : Publish(o)

LocalSpec == LocalInit /\ [][LocalNext]_localVars

-----------------------------------------------------------------------------
(* What holds *)

\* An answer keeps the budget it was asked for, in a field or in the text,
\* whichever source its rows come from and whatever is published while its
\* recommendation is written.  It keeps the delivery time asked for by what
\* its source has recorded, and from two days on by what it shows as well.
SearchKeepsLimits ==
  \A r \in answer.rows :
    /\ answer.query.ceiling > 0 => r.price <= answer.query.ceiling
    /\ answer.query.ceiling \in {0, NoLimit} => r.price <= answer.query.said
    /\ r.recorded <= answer.query.days
    /\ 2 <= answer.query.days => r.days <= answer.query.days

\* A line taken from a row of the database is charged what the row said,
\* unless the offer was published again in between.
ShownIsFrozen ==
  \A l \in frozen : l.row.live /\ ~ l.row.stale => l.price = l.row.price

(* What does not *)

\* The days shown keep the limit of the search (an offer due the same day is
\* found for a limit of one, and shown as due in two).
DaysKept == \A r \in answer.rows : r.days <= answer.query.days

\* The lower bound of a search is kept (the built-in list is not told it).
FloorKept == \A r \in answer.rows : r.price >= answer.query.floor

\* A row of a search for a kind is of the kind.
KindKept == \A r \in answer.rows :
  answer.query.kind # "none" /\ answer.query.text = "none"
    => About[r.product].kind = answer.query.kind

\* A search for memory finds products that have it.
MemoryKept == \A r \in answer.rows :
  answer.query.memory > 0 => About[r.product].memory >= answer.query.memory

\* The rows of an answer are of one source with those of the page before.
PageIsOfTheSearch ==
  answer.query.skip > 0 /\ (\E o \in Stored : Matches(answer.query, o)) /\ changes = 0
    => \A r \in answer.rows : r.live

\* An answer about a product is about that product.
AnswersWhatIsAsked ==
  answer.of # "any" => \A r \in answer.rows : r.product = answer.of

\* What the shop recommends can be bought.
CanBeBought == \A r \in bag : UnitPrice(r.id) # {}

\* Whatever was shown is charged what was shown, the built-in rows too.
AnyRowIsFrozen == \A l \in frozen : ~ l.row.stale => l.price = l.row.price
=============================================================================
