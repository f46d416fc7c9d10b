------------------------------- MODULE Ledger -------------------------------
(***************************************************************************)
(* The audit ledger and the console's pages that read it: transactions,    *)
(* audit explorer, API usage, and overview, whose shape the agents page    *)
(* shares.  The gateway appends a request's rows in the request's own       *)
(* transaction; the local back end saves each row on its own and keeps a   *)
(* second list in memory, and the console cannot be reached on it.         *)
(***************************************************************************)
EXTENDS Integers, FiniteSets, SequencesExt

CONSTANTS
  Checkouts,    \* how many checkouts there may be
  RowLimits,    \* the row counts a page offers
  AuditRows,    \* the one the audit explorer starts with
  Filters,      \* what is filled in on the audit explorer
  MaxOpen,      \* bound: sales in progress at once
  MaxReadings   \* bound: readings a behaviour starts

ASSUME LedgerAssumption ==
  /\ Checkouts \in Nat /\ RowLimits \subseteq Nat \ {0}
  /\ \E n \in RowLimits : \A m \in RowLimits : m <= n
  /\ MaxOpen \in Nat \ {0} /\ MaxReadings \in Nat

VARIABLES
  home,      \* who keeps the ledger: "gateway" or "local"
  stage,     \* how far each sale has come
  ledger,    \* the rows of the database, oldest first
  recent,    \* local: the rows of the process's own list, newest first
  console,   \* the page on screen
  readings,  \* reads of the ledger under way, numbered
  started    \* how many were started

booksVars == <<home, stage, ledger, recent>>
ledgerVars == <<booksVars, console, readings, started>>

\* Checkouts, in the order they are created, and the one of the seeded rows.
Sales == 1..Checkouts
Demo == 0

\* "named": its metadata holds checkout_id.
Row(x, on, type, named, decision) ==
  [sale |-> x, on |-> on, type |-> type, named |-> named, decision |-> decision]
Logged(x, on, type) == Row(x, on, type, TRUE, "none")

\* What an answer is to be of: an event type, an aggregate type, an aggregate, a
\* time it starts or ends at, and how many rows.
Anything == "anything"
AnyOf == <<Anything, 0>>
\* The choices of the audit page; of those no sale appends, one stands for all.
EventTypes == {Anything, "CHECKOUT_CREATED", "POLICY_EVALUATED", "AUTHORIZATION_REQUESTED",
  "AUTHORIZATION_GRANTED", "AUTHORIZATION_REJECTED", "PAYMENT_CREATED", "PAYMENT_VERIFIED",
  "PAYMENT_FAILED", "ORDER_CONFIRMED", "RESEARCH_PERFORMED"}
Aggregates == {Anything, "checkout", "authorization", "payment", "order", "inventory"}
FilterFields == [type : EventTypes, on : Aggregates, of : Aggregates \X Nat,
                 starts : BOOLEAN, ends : BOOLEAN, limit : RowLimits]
Widest == CHOOSE n \in RowLimits : \A m \in RowLimits : m <= n
AllRows == [type |-> Anything, on |-> Anything, of |-> AnyOf,
            starts |-> FALSE, ends |-> FALSE, limit |-> Widest]
EmptyFilters == [AllRows EXCEPT !.limit = AuditRows]

ASSUME FiltersAssumption == AuditRows \in RowLimits /\ Filters \subseteq FilterFields

\* The first read of a page; API usage asks for the last day.
FirstAsked(at) == CASE at = "audit" -> EmptyFilters
                    [] at = "usage" -> [AllRows EXCEPT !.starts = TRUE]
                    [] OTHER -> AllRows

\* A page as it mounts, its first read under way.
Mounted(at) == [at |-> at, form |-> FirstAsked(at), applied |-> FirstAsked(at), rows |-> <<>>,
                paid |-> {}, read |-> TRUE, phase |-> "loading", busy |-> TRUE]
Closed == [Mounted("elsewhere") EXCEPT !.busy = FALSE]

Seeds == <<Row(Demo, "order", "ORDER_CONFIRMED", FALSE, "allow"),
           Row(Demo, "payment", "PAYMENT_VERIFIED", FALSE, "allow")>>

LedgerInit ==
  /\ home \in {"gateway", "local"}
  /\ stage = [x \in Sales |-> "none"]
  /\ ledger = <<>>
  /\ recent = IF home = "local" THEN Seeds ELSE <<>>
  /\ console = Closed /\ readings = {} /\ started = 0

Open == {x \in Sales : stage[x] \in {"created", "pending", "approved", "paying"}}
Starts(x) == /\ stage[x] = "none" /\ Cardinality(Open) < MaxOpen
             /\ \A y \in 1..(x - 1) : stage[y] # "none"
Paid == {x \in Sales : stage[x] = "confirmed"}

-----------------------------------------------------------------------------
(* The gateway *)

\* Mutated: the rows are kept when the request is rolled back.
TransactsRowsAlone(x, after, new) ==
  /\ stage' \in {stage, [stage EXCEPT ![x] = after]}
  /\ ledger' = ledger \o new
  /\ UNCHANGED <<home, recent>>

\* One request: what it changes and what it appends commit together.  A request
\* that fails, as one the policy blocks, leaves neither.
Transacts(x, after, new) ==
  /\ stage' = [stage EXCEPT ![x] = after]
  /\ ledger' = ledger \o new
  /\ UNCHANGED <<home, recent>>

CreateLogged(x) ==
  /\ Starts(x)
  /\ Transacts(x, "created", <<Logged(x, "checkout", "CHECKOUT_CREATED")>>)

\* The policy's decision stands on its own row and on the authorization's.
AuthorizeLogged(x) ==
  /\ stage[x] = "created"
  /\ \/ Transacts(x, "approved",
          <<Row(x, "checkout", "POLICY_EVALUATED", TRUE, "ALLOW"),
            Row(x, "authorization", "AUTHORIZATION_GRANTED", TRUE, "ALLOW")>>)
     \/ Transacts(x, "pending",
          <<Row(x, "checkout", "POLICY_EVALUATED", TRUE, "REQUIRE_APPROVAL"),
            Row(x, "authorization", "AUTHORIZATION_REQUESTED", TRUE, "REQUIRE_APPROVAL")>>)

DecisionLogged(x) ==
  /\ stage[x] = "pending"
  /\ \/ Transacts(x, "approved", <<Logged(x, "authorization", "AUTHORIZATION_GRANTED")>>)
     \/ Transacts(x, "rejected", <<Logged(x, "authorization", "AUTHORIZATION_REJECTED")>>)

PaymentLogged(x) ==
  /\ stage[x] = "approved"
  /\ Transacts(x, "paying", <<Logged(x, "payment", "PAYMENT_CREATED")>>)

\* A failed payment's row names its reason and no checkout.  The webhook that
\* fails after it has marked the payment verified commits that without rows.
PaymentEnds(x) ==
  /\ stage[x] = "paying"
  /\ \/ Transacts(x, "confirmed", <<Logged(x, "order", "ORDER_CONFIRMED"),
                                    Logged(x, "payment", "PAYMENT_VERIFIED")>>)
     \/ Transacts(x, "failed", <<Row(x, "payment", "PAYMENT_FAILED", FALSE, "none")>>)
     \/ Transacts(x, "unsettled", <<>>)

GatewayLogs ==
  /\ home = "gateway"
  /\ \E x \in Sales : \/ CreateLogged(x) \/ AuthorizeLogged(x) \/ DecisionLogged(x)
                      \/ PaymentLogged(x) \/ PaymentEnds(x)
  /\ UNCHANGED <<console, readings, started>>

-----------------------------------------------------------------------------
(* The local back end *)

\* The record is saved, then the rows one after the other, then the list is
\* told.  The process may die in between: the rest is lost, and so is the list.
Saves(x, after, new, told) ==
  /\ stage' = [stage EXCEPT ![x] = after]
  /\ \/ ledger' = ledger \o new /\ recent' = told \o recent
     \/ /\ \E k \in 0..Len(new) : ledger' = ledger \o SubSeq(new, 1, k)
        /\ recent' = Seeds
  /\ UNCHANGED home

Told(x, on, type) == <<Row(x, on, type, on = "checkout", "allow")>>

SaveCheckout(x) ==
  /\ Starts(x)
  /\ Saves(x, "created", <<Row(x, "checkout", "CHECKOUT_CREATED", FALSE, "allow"),
                           Row(x, "checkout", "PRICE_FROZEN", FALSE, "allow")>>,
           Told(x, "checkout", "CHECKOUT_CREATED"))

SaveApproval(x) ==
  /\ stage[x] = "created"
  /\ Saves(x, "approved", <<Row(x, "authorization", "POLICY_EVALUATED", TRUE, "allow"),
                            Row(x, "authorization", "AUTHORIZATION_GRANTED", TRUE, "allow"),
                            Row(x, "checkout", "AUTHORIZATION_BOUND", FALSE, "allow")>>,
           Told(x, "authorization", "AUTHORIZATION_GRANTED"))

SavePayment(x) ==
  /\ stage[x] = "approved"
  /\ Saves(x, "paying", <<Row(x, "payment", "PAYMENT_CAPTURED", TRUE, "allow"),
                          Row(x, "checkout", "PAYMENT_ATTACHED", FALSE, "allow")>>,
           Told(x, "payment", "PAYMENT_CAPTURED"))

\* The order row goes first.  A verified payment's row does not name the
\* checkout; a simulated payment leaves two rows and tells the list nothing.
SaveVerification(x) ==
  LET verified == Row(x, "payment", "PAYMENT_VERIFIED", FALSE, "allow")
      confirmed == Row(x, "order", "ORDER_CONFIRMED", TRUE, "allow")
      fulfilled == Row(x, "checkout", "ORDER_FULFILLED", FALSE, "allow")
  IN  /\ stage[x] = "paying"
      /\ \/ Saves(x, "confirmed", <<verified, confirmed, fulfilled>>,
                  Told(x, "payment", "PAYMENT_VERIFIED"))
         \/ Saves(x, "confirmed", <<verified, confirmed>>, <<>>)

Restarts == recent' = Seeds /\ UNCHANGED <<home, stage, ledger>>

LocalLogs ==
  /\ home = "local"
  /\ \/ \E x \in Sales : \/ SaveCheckout(x) \/ SaveApproval(x)
                         \/ SavePayment(x) \/ SaveVerification(x)
     \/ Restarts
  /\ UNCHANGED <<console, readings, started>>

-----------------------------------------------------------------------------
(* Reading the ledger *)

\* The rows that are in a set, in their order.
Those(rows, set) ==
  LET kept[n \in 0 .. Len(rows)] ==
        IF n = 0 THEN <<>>
        ELSE IF rows[n] \in set THEN Append(kept[n - 1], rows[n]) ELSE kept[n - 1]
  IN kept[Len(rows)]

Meets(r, ask) == /\ ask.type \in {Anything, r.type} /\ ask.on \in {Anything, r.on}
                 /\ ask.of \in {AnyOf, <<r.on, r.sale>>}
Matching(rows, ask) == Those(rows, {r \in ToSet(rows) : Meets(r, ask)})

Window(rows, n) == SubSeq(rows, 1, IF Len(rows) < n THEN Len(rows) ELSE n)

\* Newest first, whoever answers; the process's list comes after the rows it
\* repeats, which carry ids of their own.
AnswerTo(rows, ask) ==
  Window(Window(Matching(Reverse(rows), ask), ask.limit) \o Matching(recent, ask), ask.limit)
Listing(ask) == AnswerTo(ledger, ask)

\* The rows of the time asked for, which the clock alone relates to the rows.
InTime(ask) ==
  {SubSeq(ledger, from, until) : from \in IF ask.starts THEN 1..(Len(ledger) + 1) ELSE {1},
                                 until \in IF ask.ends THEN 0..Len(ledger) ELSE {Len(ledger)}}

\* checkoutKeyFor, or the aggregate when the row names no checkout.
KeyOf(r) == <<IF r.named THEN "checkout" ELSE r.on, r.sale>>

GroupOf(rows, key) == Those(rows, {r \in ToSet(rows) : KeyOf(r) = key})
SaleKey(x) == <<"checkout", x>>
GroupKeys(rows) == {KeyOf(r) : r \in ToSet(rows)}

Holds(group, type) == \E r \in ToSet(group) : r.type = type
HasDecision(group, decision) == \E r \in ToSet(group) : r.decision = decision

\* The first row of the second type comes after a row of the first.
Before(group, first, second) ==
  \E j \in DOMAIN group :
    /\ group[j].type = second
    /\ \A k \in 1..(j - 1) : group[k].type # second
    /\ \E i \in 1..(j - 1) : group[i].type = first

Recovered(group) ==
  \/ Before(group, "PAYMENT_FAILED", "PAYMENT_VERIFIED")
  \/ Before(group, "PAYMENT_FAILED", "ORDER_CONFIRMED")

\* summariseGroup's outcome, the first that fits.
OutcomeOf(group) ==
  IF Recovered(group) THEN "recovered"
  ELSE IF Holds(group, "ORDER_CONFIRMED") \/ Holds(group, "PAYMENT_VERIFIED") THEN "confirmed"
  ELSE IF Holds(group, "PAYMENT_FAILED") THEN "failed"
  ELSE IF HasDecision(group, "BLOCK") \/ Holds(group, "AUTHORIZATION_REJECTED") THEN "blocked"
  ELSE IF HasDecision(group, "REQUIRE_APPROVAL") /\ ~Holds(group, "AUTHORIZATION_GRANTED")
       THEN "awaiting_approval"
  ELSE "in_progress"

\* The sales a list of rows shows as paid, and how many orders it counts.
ShownPaid(rows) ==
  {x \in Sales : /\ SaleKey(x) \in GroupKeys(rows)
                 /\ OutcomeOf(GroupOf(rows, SaleKey(x))) \in {"confirmed", "recovered"}}
OrdersCounted(rows) == Len(Those(rows, {r \in ToSet(rows) : r.type = "ORDER_CONFIRMED"}))

-----------------------------------------------------------------------------
(* The console *)

Pages == {"transactions", "audit", "usage", "overview"}

Reading(n, ask) == [n |-> n, ask |-> ask, at |-> "asked", rows |-> <<>>, paid |-> {}, read |-> TRUE]

\* Opening a page leaves the one before, whose answers then reach nobody.
OpensPage(at) ==
  /\ home = "gateway" /\ started < MaxReadings
  /\ console' = Mounted(at)
  /\ readings' = {Reading(started + 1, FirstAsked(at))}
  /\ started' = started + 1
  /\ UNCHANGED booksVars

\* load(): the overview keeps showing what it has while it reads again.
LoadsRows(page, ask) ==
  /\ started < MaxReadings
  /\ console' = [page EXCEPT !.busy = TRUE,
                             !.phase = IF page.at = "overview" /\ @ = "loaded" THEN @ ELSE "loading"]
  /\ readings' = readings \cup {Reading(started + 1, ask)}
  /\ started' = started + 1
  /\ UNCHANGED booksVars

\* The transactions page's row count; its controls wait for the read.
PicksRows(n) ==
  /\ console.at = "transactions" /\ console.phase # "loading"
  /\ LET ask == [AllRows EXCEPT !.limit = n]
     IN  LoadsRows([console EXCEPT !.form = ask], ask)

\* The same request again; on API usage, another range of time.
RefreshesRows ==
  /\ \/ console.at \in {"transactions", "usage"} /\ console.phase # "loading"
     \/ console.at = "overview" /\ ~console.busy
  /\ LoadsRows(console, console.form)

\* The audit explorer's form, filled in and sent; its controls never wait.
\* Also what simulating or resolving a failure does when it was answered ok.
SubmitsFilters ==
  /\ console.at = "audit"
  /\ \E f \in Filters : LoadsRows([console EXCEPT !.form = f], f)

ResetsFilters ==
  /\ console.at = "audit"
  /\ LoadsRows([console EXCEPT !.form = EmptyFilters], EmptyFilters)

RetriesFilters ==
  /\ console.at = "audit" /\ console.phase = "failed"
  /\ LoadsRows(console, console.applied)

LedgerIsRead(r) ==
  /\ r.at = "asked"
  /\ \E rows \in InTime(r.ask) : readings' = (readings \ {r})
                 \cup {[r EXCEPT !.at = "read", !.rows = AnswerTo(rows, r.ask), !.paid = Paid]}
  /\ UNCHANGED <<booksVars, console, started>>

\* Without a database the gateway answers as well, with no rows and a mark that
\* no page looks at.
LedgerIsMissing(r) ==
  /\ r.at = "asked"
  /\ readings' = (readings \ {r})
                 \cup {[r EXCEPT !.at = "read", !.paid = Paid, !.read = FALSE]}
  /\ UNCHANGED <<booksVars, console, started>>

RowsArrive(r) ==
  /\ r.at = "read"
  /\ console' = [console EXCEPT !.rows = r.rows, !.paid = r.paid, !.applied = r.ask,
                                !.read = r.read, !.phase = "loaded", !.busy = FALSE]
  /\ readings' = readings \ {r}
  /\ UNCHANGED <<booksVars, started>>

\* The rows are taken away.  The overview fails as a whole only when nothing
\* else could be read either.
RowsFail(r) ==
  /\ console' = [console EXCEPT !.rows = <<>>, !.paid = {}, !.busy = FALSE, !.phase = "failed"]
     \/ /\ console.at = "overview"
        /\ console' = [console EXCEPT !.rows = <<>>, !.paid = {}, !.busy = FALSE, !.phase = "partly"]
  /\ readings' = readings \ {r}
  /\ UNCHANGED <<booksVars, started>>

LedgerNext ==
  \/ GatewayLogs \/ LocalLogs
  \/ \E at \in Pages : OpensPage(at)
  \/ \E n \in RowLimits : PicksRows(n)
  \/ RefreshesRows \/ SubmitsFilters \/ ResetsFilters \/ RetriesFilters
  \/ \E r \in readings : \/ LedgerIsRead(r) \/ LedgerIsMissing(r)
                         \/ RowsArrive(r) \/ RowsFail(r)

LedgerSpec == LedgerInit /\ [][LedgerNext]_ledgerVars

-----------------------------------------------------------------------------
(* Properties *)

\* Filters that let the row of every order through.
LetsOrdersThrough(ask) ==
  /\ ask.type \in {Anything, "ORDER_CONFIRMED"} /\ ask.on \in {Anything, "order"}
  /\ ask.of = AnyOf /\ ~ask.starts /\ ~ask.ends

\* No row of an order stands without the order, whoever keeps the ledger and
\* wherever the process died.  What the console shows as paid was paid, whatever
\* is filtered.  A reading that did not reach its row count, under filters that
\* let the orders' rows through, shows every sale that was paid when the gateway
\* answered it, and counts one order for each: groupTransactions and
\* ledgerTotals over the rows the services append.
LedgerAgreesWithSales ==
  /\ ShownPaid(Listing(AllRows)) \subseteq Paid
  /\ console.phase = "loaded" =>
       /\ ShownPaid(console.rows) \subseteq console.paid
       /\ /\ console.read /\ LetsOrdersThrough(console.applied)
          /\ Len(console.rows) < console.applied.limit
          => /\ ShownPaid(console.rows) = console.paid
             /\ OrdersCounted(console.rows) = Cardinality(console.paid)

\* Broken: the rows are said to be listed oldest first.
OldestFirst ==
  console.phase = "loaded" =>
    \A i, j \in DOMAIN console.rows :
      /\ console.rows[i].sale = console.rows[j].sale
      /\ console.rows[i].type = "CHECKOUT_CREATED"
      /\ console.rows[j].type = "ORDER_CONFIRMED"
      => i < j

\* Broken: "Your tenant has logged no transactions yet" where none could be read.
NoneMeansNone ==
  console.phase = "loaded" /\ console.rows = <<>> => console.paid = {}

\* Broken: a purchase is one row, with the payment that failed in it.
FailureIsOfItsCheckout ==
  \A x \in Sales : stage[x] = "failed" =>
    OutcomeOf(GroupOf(Listing(AllRows), SaleKey(x))) = "failed"

\* Broken: every order the local listing confirms was made here.
OrdersListedWereMade ==
  \A r \in ToSet(Listing(AllRows)) : r.type = "ORDER_CONFIRMED" => r.sale \in Sales

\* Broken: a purchase leaves its rows behind wherever the process dies.
OrdersLeaveTheirRows ==
  \A x \in Paid : \E r \in ToSet(ledger) : r.sale = x /\ r.type = "ORDER_CONFIRMED"

\* Broken: the rows shown are those of the filters sent last.
RowsAreOfTheForm ==
  console.at = "audit" /\ console.phase = "loaded" /\ readings = {}
    => console.applied = console.form

=============================================================================
