-------------------------- MODULE WebGatewayProofs --------------------------
(***************************************************************************)
(* What the route handlers of the web application keep, for every number   *)
(* of checkouts, payments, campaigns and products, every clock and every   *)
(* moment at which the process may die.                                    *)
(*                                                                         *)
(* Payments (WebGateway): a settlement writes the payment row before       *)
(* anything else, a payment row is never lost again (its id is its only    *)
(* key), and only a payment without a row is settled.  So no confirmed     *)
(* order has a payment without a row, and the next settlement of that      *)
(* payment is a replay.  Orders and ledger never run ahead of the rows.    *)
(*                                                                         *)
(* Campaigns (LocalCampaigns): lists with their newest row in front are    *)
(* read from the front, so what is found is the last thing that happened.  *)
(*                                                                         *)
(* Searches (LocalCatalog): every way to an answer keeps the limits of the *)
(* question, and only a product that is not in the database is answered    *)
(* with a price of its own.                                                *)
(***************************************************************************)
EXTENDS WebGateway, LocalCatalog, LocalCampaigns, SequenceTheorems,
        WellFoundedInduction, TLAPS

\* Every confirmed order stands on a recorded payment.
IssuedArePaid == \A r \in issued : Has(payments, r.payment)

\* A checkout has one row.
OneRowPerCheckout ==
  \A j, k \in checkouts : j.id = k.id => j = k

\* An order names the checkout it was frozen for, or an id made up for a
\* payment without one.
IssuedAreFrozen ==
  \A r \in issued :
    \/ \E k \in checkouts : r.checkout = k.id
    \/ \E p \in Payments : r.checkout = <<"generated", p>>

CheckoutsAreNamed == \A k \in checkouts : k.id \in Checkouts

\* What the provider captured was asked for a checkout, or for none.
CapturesAreNamed ==
  /\ DOMAIN captured = Payments
  /\ \A p \in Payments : captured[p] # None =>
       captured[p].checkout \in Checkouts \cup {None}

GatewayInv ==
  /\ IssuedArePaid
  /\ OneRowPerCheckout
  /\ IssuedAreFrozen
  /\ CheckoutsAreNamed
  /\ CapturesAreNamed
  /\ OneOrderPerPayment
  /\ OrderAmountIsFrozen

-----------------------------------------------------------------------------
(* Tables *)

\* A row that was there under its only key is there after a save.
LEMMA PaymentsStay ==
  ASSUME NEW table, NEW row, NEW p, Has(table, p)
  PROVE  Has(SavePayment(table, row), p)
<1>1. PICK r \in table : r.id = p
  BY DEF Has
<1>2. CASE row.id = p
  BY <1>2 DEF Has, SavePayment, Replace
<1>3. CASE row.id # p
  <2>1. r \in SavePayment(table, row)
    BY <1>1, <1>3 DEF SavePayment, Replace, PaymentKeys
  <2> QED
    BY <1>1, <2>1 DEF Has
<1> QED
  BY <1>2, <1>3

\* A row that is saved is there.
LEMMA SavedIsThere ==
  ASSUME NEW table, NEW row
  PROVE  Has(SavePayment(table, row), row.id)
BY DEF Has, SavePayment, Replace

\* Where a checkout has one row, its frozen total is that row's.
LEMMA FrozenIsTheRow ==
  ASSUME OneRowPerCheckout, NEW k \in checkouts
  PROVE  Frozen(k.id) = k.total
BY DEF Frozen, Row, OneRowPerCheckout

-----------------------------------------------------------------------------
(* Settlements *)

\* What an admitted settlement does to the payments and the confirmed
\* orders: the payment is recorded, and either one new order is confirmed,
\* for the amount the checkout demands, or none is.
LEMMA SettlementKeepsInv ==
  ASSUME GatewayInv, NEW p \in Payments, NEW c \in Checkouts \cup {None},
         NEW amount, NEW number,
         ~Has(payments, p),
         c = None \/ (Has(checkouts, c) /\ amount = Frozen(c)),
         payments' = SavePayment(payments, PaymentRow(p, c, amount)),
         \/ issued' = issued
         \/ issued' = issued \cup {OrderRow(number, p, c, amount)},
         UNCHANGED <<checkouts, captured>>
  PROVE  GatewayInv'
<1> DEFINE order == OrderRow(number, p, c, amount)
<1>1. order.payment = p /\ order.amount = amount /\ order.checkout = CheckoutOf(c, p)
  BY DEF OrderRow
<1>2. \A r \in issued : r.payment # p
  BY DEF GatewayInv, IssuedArePaid
<1>3. PaymentRow(p, c, amount).id = p
  BY DEF PaymentRow
<1>4. IssuedArePaid'
  <2>1. \A r \in issued : Has(payments', r.payment)
    BY PaymentsStay DEF GatewayInv, IssuedArePaid
  <2>2. Has(payments', p)
    BY <1>3, SavedIsThere
  <2> QED
    BY <1>1, <2>1, <2>2 DEF IssuedArePaid
<1>5. OneRowPerCheckout' /\ CheckoutsAreNamed' /\ CapturesAreNamed'
  BY DEF GatewayInv, OneRowPerCheckout, CheckoutsAreNamed, CapturesAreNamed
<1>6. IssuedAreFrozen'
  <2>1. \/ \E k \in checkouts : order.checkout = k.id
        \/ order.checkout = <<"generated", p>>
    BY <1>1 DEF CheckoutOf, Has
  <2> QED
    BY <2>1 DEF GatewayInv, IssuedAreFrozen
<1>7. OneOrderPerPayment'
  BY <1>1, <1>2 DEF GatewayInv, OneOrderPerPayment
<1>8. OrderAmountIsFrozen'
  <2>1. ASSUME NEW k \in checkouts, order.checkout = k.id
        PROVE  order.amount = k.total
    <3>1. k.id \in Checkouts
      BY DEF GatewayInv, CheckoutsAreNamed
    <3>2. c # None
      BY <1>1, <2>1, <3>1, GatewayAssumption DEF CheckoutOf
    <3>3. c = k.id /\ amount = Frozen(c)
      BY <1>1, <2>1, <3>2 DEF CheckoutOf
    <3> QED
      BY <1>1, <3>3, FrozenIsTheRow DEF GatewayInv
  <2> QED
    BY <2>1 DEF GatewayInv, OrderAmountIsFrozen
<1> QED
  BY <1>4, <1>5, <1>6, <1>7, <1>8 DEF GatewayInv

\* authoritativeAmountMinor refuses, or answers the frozen total.
LEMMA AmountIsFrozen ==
  ASSUME NEW c, NEW requested \in Totals, c # None,
         AuthoritativeAmount(c, requested) > 0
  PROVE  Has(checkouts, c) /\ AuthoritativeAmount(c, requested) = Frozen(c)
BY DEF AuthoritativeAmount

-----------------------------------------------------------------------------
(* The invariant *)

LEMMA InitEstablishesInv == GatewayInit => GatewayInv
<1> SUFFICES ASSUME GatewayInit PROVE GatewayInv
  OBVIOUS
<1> QED
  BY DEF GatewayInit, GatewayInv, IssuedArePaid, OneRowPerCheckout,
         IssuedAreFrozen, CheckoutsAreNamed, CapturesAreNamed,
         OneOrderPerPayment, OrderAmountIsFrozen

\* A step that confirms nothing, forgets no payment row and freezes no
\* checkout keeps the invariant.
LEMMA QuietStepKeepsInv ==
  ASSUME GatewayInv, CapturesAreNamed',
         UNCHANGED <<checkouts, issued>>,
         \A p : Has(payments, p) => Has(payments', p)
  PROVE  GatewayInv'
BY DEF GatewayInv, IssuedArePaid, OneRowPerCheckout, IssuedAreFrozen,
       CheckoutsAreNamed, OneOrderPerPayment, OrderAmountIsFrozen

\* Freezing a checkout touches no order: none can name it yet.
LEMMA CreateCheckoutKeepsInv ==
  ASSUME GatewayInv, NEW c \in Checkouts, NEW t \in Totals,
         CreateCheckout(c, t)
  PROVE  GatewayInv'
<1> DEFINE row == [id |-> c, total |-> t, status |-> "created"]
<1>1. \A k \in checkouts : k.id # c
  BY DEF CreateCheckout, Has
<1>2. checkouts' = checkouts \cup {row}
  BY <1>1 DEF CreateCheckout, SaveCheckout, Replace, CheckoutKeys
<1>3. OneRowPerCheckout' /\ CheckoutsAreNamed'
  BY <1>1, <1>2 DEF GatewayInv, OneRowPerCheckout, CheckoutsAreNamed
<1>4. \A r \in issued : r.checkout # c
  BY <1>1, GatewayAssumption DEF GatewayInv, IssuedAreFrozen
<1>5. OrderAmountIsFrozen'
  BY <1>2, <1>4 DEF GatewayInv, OrderAmountIsFrozen, CreateCheckout
<1>6. IssuedArePaid' /\ IssuedAreFrozen' /\ CapturesAreNamed' /\ OneOrderPerPayment'
  BY <1>2 DEF GatewayInv, IssuedArePaid, IssuedAreFrozen, CapturesAreNamed,
              OneOrderPerPayment, CreateCheckout
<1> QED
  BY <1>3, <1>5, <1>6 DEF GatewayInv

LEMMA VerifyKeepsInv ==
  ASSUME GatewayInv, NEW p \in Payments, NEW t \in Totals, Verify(p, t)
  PROVE  GatewayInv'
<1> DEFINE c == captured[p].checkout
           amount == AuthoritativeAmount(c, t)
<1>1. c \in Checkouts \cup {None} /\ ~Has(payments, p) /\ amount > 0
  BY DEF Verify, Recorded, GatewayInv, CapturesAreNamed
<1>2. c = None \/ (Has(checkouts, c) /\ amount = Frozen(c))
  BY <1>1, AmountIsFrozen
<1>3. CASE Settle(p, c, amount, ShortNumber)
  BY <1>1, <1>2, <1>3, SettlementKeepsInv DEF Settle
<1>4. CASE \E n \in 1..3 : SettleAndDie(p, c, amount, ShortNumber, n)
  BY <1>1, <1>2, <1>4, SettlementKeepsInv DEF SettleAndDie
<1> QED
  BY <1>3, <1>4 DEF Verify

LEMMA SimulateKeepsInv ==
  ASSUME GatewayInv, NEW p \in Payments, NEW c \in Checkouts, NEW t \in Totals,
         Simulate(p, c, t)
  PROVE  GatewayInv'
<1> DEFINE amount == AuthoritativeAmount(c, t)
<1>1. c # None /\ ~Has(payments, p) /\ amount > 0
  BY DEF Simulate, SimulatedId
<1>2. Has(checkouts, c) /\ amount = Frozen(c)
  BY <1>1, AmountIsFrozen
<1>3. CASE Settle(p, c, amount, LongNumber(p))
  BY <1>1, <1>2, <1>3, SettlementKeepsInv DEF Settle
<1>4. CASE \E n \in 1..3 : SettleAndDie(p, c, amount, LongNumber(p), n)
  BY <1>1, <1>2, <1>4, SettlementKeepsInv DEF SettleAndDie
<1> QED
  BY <1>3, <1>4 DEF Simulate

LEMMA StepKeepsInv == GatewayInv /\ [GatewayNext]_gatewayVars => GatewayInv'
<1> SUFFICES ASSUME GatewayInv, [GatewayNext]_gatewayVars PROVE GatewayInv'
  OBVIOUS
<1> USE DEF CapturesAreNamed
<1>1. CapturesAreNamed
  BY DEF GatewayInv
<1>2. ASSUME NEW c \in Checkouts, NEW t \in Totals, CreateCheckout(c, t)
      PROVE  GatewayInv'
  BY <1>2, CreateCheckoutKeepsInv
<1>3. ASSUME NEW p \in Payments, NEW t \in Totals, Verify(p, t)
      PROVE  GatewayInv'
  BY <1>3, VerifyKeepsInv
<1>4. ASSUME NEW p \in Payments, NEW c \in Checkouts, NEW t \in Totals,
             Simulate(p, c, t)
      PROVE  GatewayInv'
  BY <1>4, SimulateKeepsInv
<1>5. ASSUME NEW p \in Payments, NEW c \in Checkouts \cup {None},
             NEW t \in Totals, CreateOrderAndPay(p, c, t)
      PROVE  GatewayInv'
  <2>1. CapturesAreNamed'
    BY <1>1, <1>5 DEF CreateOrderAndPay
  <2> QED
    BY <1>5, <2>1, QuietStepKeepsInv DEF CreateOrderAndPay
<1>6. ASSUME NEW p \in Payments, NEW c \in Checkouts, NEW t \in Totals,
             CreatePayment(p, c, t)
      PROVE  GatewayInv'
  <2>1. \A q : Has(payments, q) => Has(payments', q)
    BY <1>6, PaymentsStay DEF CreatePayment
  <2> QED
    BY <1>1, <1>6, <2>1, QuietStepKeepsInv DEF CreatePayment
<1>7. CASE \E a \in Auths, c \in Checkouts : CreateAuthorization(a, c)
  BY <1>1, <1>7, QuietStepKeepsInv DEF CreateAuthorization
<1>8. CASE \E a \in Auths, d \in {"approved", "rejected"} : Decide(a, d)
  BY <1>1, <1>8, QuietStepKeepsInv DEF Decide
<1>9. CASE \E p \in Payments : VerifyAgain(p)
  BY <1>1, <1>9, QuietStepKeepsInv DEF VerifyAgain, Replay
<1>10. CASE Tick \/ Restart
  BY <1>1, <1>10, QuietStepKeepsInv DEF Tick, Restart
<1>11. CASE UNCHANGED gatewayVars
  BY <1>1, <1>11, QuietStepKeepsInv DEF gatewayVars
<1> QED
  BY <1>2, <1>3, <1>4, <1>5, <1>6, <1>7, <1>8, <1>9, <1>10, <1>11
     DEF GatewayNext

\* The strengthened invariant holds in every reachable state.
THEOREM GatewayInvariant == GatewaySpec => []GatewayInv
BY InitEstablishesInv, StepKeepsInv, PTL DEF GatewaySpec

\* A payment the provider captured is fulfilled once: repeated deliveries of
\* its verification, restarts and deaths in the middle of one included.
THEOREM PaymentsAreFulfilledOnce == GatewaySpec => []OneOrderPerPayment
<1>1. GatewayInv => OneOrderPerPayment
  BY DEF GatewayInv
<1> QED
  BY <1>1, GatewayInvariant, PTL

\* What an order charges is the frozen total of its checkout, whatever amount
\* the browser states in the request that creates or verifies the payment.
THEOREM OrdersChargeTheFrozenTotal == GatewaySpec => []OrderAmountIsFrozen
<1>1. GatewayInv => OrderAmountIsFrozen
  BY DEF GatewayInv
<1> QED
  BY <1>1, GatewayInvariant, PTL

-----------------------------------------------------------------------------
(* The tables beside each other *)

\* Every row of the tables, and of the process's memory, was confirmed once;
\* and the ledger speaks of a payment as verified only after its order.
RowsWereIssued == orders \cup storedOrders \subseteq issued

LedgerFollows ==
  \A p \in Payments : <<"PAYMENT_VERIFIED", p>> \in ledger =>
    \E r \in issued : r.payment = p

TablesInv == RowsWereIssued /\ LedgerFollows

\* A step that keeps the orders and forgets nothing confirmed may forget what
\* the process remembers, and log anything but a verification.
LEMMA QuietStepKeepsTables ==
  ASSUME TablesInv, UNCHANGED <<orders, issued>>, storedOrders' \subseteq storedOrders,
         \A p \in Payments :
           <<"PAYMENT_VERIFIED", p>> \in ledger' => <<"PAYMENT_VERIFIED", p>> \in ledger
  PROVE  TablesInv'
BY DEF TablesInv, RowsWereIssued, LedgerFollows

\* A settlement cut off anywhere logs its payment only with its order.
LEMMA SettlementKeepsTables ==
  ASSUME TablesInv, NEW p \in Payments, NEW c, NEW amount, NEW number,
         \/ Settle(p, c, amount, number)
         \/ \E n \in 1..3 : SettleAndDie(p, c, amount, number, n)
  PROVE  TablesInv'
<1> DEFINE order == OrderRow(number, p, c, amount)
<1>1. order.payment = p
  BY DEF OrderRow
<1>2. \A row : SaveOrder(orders, row) \subseteq orders \cup {row}
  BY DEF SaveOrder, Replace
<1>3. CASE Settle(p, c, amount, number)
  <2>1. issued' = issued \cup {order} /\ orders' \subseteq orders \cup {order}
        /\ storedOrders' = storedOrders \cup {order}
    BY <1>2, <1>3 DEF Settle
  <2>2. ledger' = ledger \cup {<<"PAYMENT_VERIFIED", p>>, <<"ORDER_CONFIRMED", order.id>>}
    BY <1>3 DEF Settle, Trail
  <2>3. LedgerFollows'
    <3> SUFFICES ASSUME NEW q \in Payments, <<"PAYMENT_VERIFIED", q>> \in ledger'
                 PROVE  \E r \in issued' : r.payment = q
      BY DEF LedgerFollows
    <3>1. <<"PAYMENT_VERIFIED", q>> \in ledger \/ q = p
      BY <2>2
    <3> QED
      BY <1>1, <2>1, <3>1 DEF TablesInv, LedgerFollows
  <2> QED
    BY <2>1, <2>3 DEF TablesInv, RowsWereIssued
<1>4. CASE \E n \in 1..3 : SettleAndDie(p, c, amount, number, n)
  <2>1. PICK n \in 1..3 : SettleAndDie(p, c, amount, number, n)
    BY <1>4
  <2>2. storedOrders' = {}
    BY <2>1 DEF SettleAndDie
  <2>3. CASE n = 1
    <3>1. orders' = orders /\ issued' = issued /\ ledger' = ledger
      BY <2>1, <2>3 DEF SettleAndDie
    <3> QED
      BY <2>2, <3>1, QuietStepKeepsTables
  <2>4. CASE n # 1
    <3>1. issued' = issued \cup {order} /\ orders' \subseteq orders \cup {order}
      BY <1>2, <2>1, <2>4 DEF SettleAndDie
    <3>2. ledger' \subseteq ledger \cup {<<"PAYMENT_VERIFIED", p>>}
      BY <2>1 DEF SettleAndDie
    <3>3. LedgerFollows'
      <4> SUFFICES ASSUME NEW q \in Payments, <<"PAYMENT_VERIFIED", q>> \in ledger'
                   PROVE  \E r \in issued' : r.payment = q
        BY DEF LedgerFollows
      <4>1. <<"PAYMENT_VERIFIED", q>> \in ledger \/ q = p
        BY <3>2
      <4> QED
        BY <1>1, <3>1, <4>1 DEF TablesInv, LedgerFollows
    <3> QED
      BY <2>2, <3>1, <3>3 DEF TablesInv, RowsWereIssued
  <2> QED
    BY <2>3, <2>4
<1> QED
  BY <1>3, <1>4

LEMMA InitEstablishesTables == GatewayInit => TablesInv
BY DEF GatewayInit, TablesInv, RowsWereIssued, LedgerFollows

LEMMA StepKeepsTables == TablesInv /\ [GatewayNext]_gatewayVars => TablesInv'
<1> SUFFICES ASSUME TablesInv, [GatewayNext]_gatewayVars PROVE TablesInv'
  OBVIOUS
<1>1. CASE \E c \in Checkouts, t \in Totals : CreateCheckout(c, t)
  BY <1>1, QuietStepKeepsTables DEF CreateCheckout
<1>2. CASE \E a \in Auths, c \in Checkouts : CreateAuthorization(a, c)
  BY <1>2, QuietStepKeepsTables DEF CreateAuthorization
<1>3. CASE \E a \in Auths, d \in {"approved", "rejected"} : Decide(a, d)
  BY <1>3, QuietStepKeepsTables DEF Decide
<1>4. CASE \E p \in Payments, c \in Checkouts \cup {None}, t \in Totals :
             CreateOrderAndPay(p, c, t)
  BY <1>4, QuietStepKeepsTables DEF CreateOrderAndPay
<1>5. CASE \E p \in Payments, c \in Checkouts, t \in Totals : CreatePayment(p, c, t)
  BY <1>5, QuietStepKeepsTables DEF CreatePayment
<1>6. CASE \E p \in Payments, t \in Totals : Verify(p, t)
  BY <1>6, SettlementKeepsTables DEF Verify
<1>7. CASE \E p \in Payments, c \in Checkouts, t \in Totals : Simulate(p, c, t)
  BY <1>7, SettlementKeepsTables DEF Simulate
<1>8. CASE \E p \in Payments : VerifyAgain(p)
  BY <1>8, QuietStepKeepsTables DEF VerifyAgain, Replay
<1>9. CASE Tick \/ Restart
  BY <1>9, QuietStepKeepsTables DEF Tick, Restart
<1>10. CASE UNCHANGED gatewayVars
  BY <1>10, QuietStepKeepsTables DEF gatewayVars
<1> QED
  BY <1>1, <1>2, <1>3, <1>4, <1>5, <1>6, <1>7, <1>8, <1>9, <1>10 DEF GatewayNext

LEMMA TablesInvariant == GatewaySpec => []TablesInv
BY InitEstablishesTables, StepKeepsTables, PTL DEF GatewaySpec

\* Wherever the process dies among the writes of a settlement, no order is
\* left without its payment and the ledger speaks of no payment without one.
THEOREM NothingIsAhead == GatewaySpec => []NothingAheadOfItsPayment
<1>1. GatewayInv /\ TablesInv => NothingAheadOfItsPayment
  BY DEF GatewayInv, IssuedArePaid, TablesInv, LedgerFollows, NothingAheadOfItsPayment
<1> QED
  BY <1>1, GatewayInvariant, TablesInvariant, PTL

\* Answering one shopper makes no order of another unreadable: whatever row
\* the INSERT OR REPLACE deletes, the memory of the process keeps.
THEOREM OthersStayReadable == GatewaySpec => AnswerKeepsOthersReadable
<1> DEFINE Kept == told' # told /\ storedOrders = issued =>
                     {r.id : r \in Readable} \subseteq {r.id : r \in Readable'}
<1>1. TablesInv /\ [GatewayNext]_gatewayVars => [Kept]_gatewayVars
  <2> SUFFICES ASSUME TablesInv, GatewayNext, told' # told, storedOrders = issued
               PROVE  Readable \subseteq Readable'
    BY DEF gatewayVars
  <2>1. Readable = storedOrders
    BY DEF Readable, TablesInv, RowsWereIssued
  <2>2. storedOrders \subseteq storedOrders'
    <3>1. CASE \E p \in Payments : VerifyAgain(p)
      BY <3>1 DEF VerifyAgain, Replay
    <3>2. CASE \E p \in Payments, t \in Totals : Verify(p, t)
      BY <3>2 DEF Verify, Settle, SettleAndDie
    <3>3. CASE \E p \in Payments, c \in Checkouts, t \in Totals : Simulate(p, c, t)
      BY <3>3 DEF Simulate, Settle, SettleAndDie
    <3> QED
      BY <3>1, <3>2, <3>3 DEF GatewayNext, Tick, Restart, CreateCheckout,
           CreateAuthorization, Decide, CreateOrderAndPay, CreatePayment
  <2> QED
    BY <2>1, <2>2 DEF Readable
<1> QED
  BY <1>1, TablesInvariant, PTL DEF GatewaySpec, AnswerKeepsOthersReadable

-----------------------------------------------------------------------------
(* The campaigns of the web tier and their audit rows.  Both lists are      *)
(* read from the front: what stands first under a name is the newest.       *)

\* A set of numbers has a least member.
LEMMA LeastExists ==
  ASSUME NEW S, S \subseteq Nat, S # {}
  PROVE  \E m \in S : \A k \in S : m <= k
<1>1. PICK m \in S : \A k \in S : <<k, m>> \notin OpToRel(<, Nat)
  BY WFMin, NatLessThanWellFounded, Zenon
<1>2. \A k \in S : ~ (k < m)
  BY <1>1 DEF OpToRel
<1> QED
  BY <1>2

\* Where a list of rows speaks of a campaign, and where it does so first.
Mentions(s, id) == {i \in 1 .. Len(s) : s[i].about = id}
FirstMention(s, id) == IF Mentions(s, id) # {} THEN Min(Mentions(s, id)) ELSE 0

LEMMA FirstMentionIsLeast ==
  ASSUME NEW s, NEW id, Mentions(s, id) # {}
  PROVE  /\ FirstMention(s, id) \in Mentions(s, id)
         /\ \A k \in Mentions(s, id) : FirstMention(s, id) <= k
<1>1. Mentions(s, id) \subseteq Nat
  BY DEF Mentions
<1>2. \E m \in Mentions(s, id) : \A k \in Mentions(s, id) : m <= k
  BY <1>1, LeastExists
<1> QED
  BY <1>2 DEF FirstMention, Min

\* A row at the front is the first about what it is about.
LEMMA FrontIsFirst ==
  ASSUME NEW S, NEW s \in Seq(S), NEW row
  PROVE  /\ FirstMention(<<row>> \o s, row.about) = 1
         /\ (<<row>> \o s)[1] = row
<1> DEFINE T == S \cup {row}
           t == <<row>> \o s
<1>1. s \in Seq(T) /\ <<row>> \in Seq(T)
  OBVIOUS
<1>2. Len(<<row>>) = 1 /\ <<row>>[1] = row
  OBVIOUS
<1>3. Len(t) = 1 + Len(s) /\ t[1] = row
  BY <1>1, <1>2, ConcatProperties
<1>4. Len(s) \in Nat
  OBVIOUS
<1>5. 1 \in Mentions(t, row.about)
  BY <1>3, <1>4 DEF Mentions
<1>6. \A k \in Mentions(t, row.about) : 1 <= k
  BY DEF Mentions
<1>7. FirstMention(t, row.about) \in 1 .. Len(t) /\ FirstMention(t, row.about) <= 1
  BY <1>5, FirstMentionIsLeast DEF Mentions
<1>8. FirstMention(t, row.about) = 1
  BY <1>7
<1> QED
  BY <1>3, <1>8

\* Rows about others in front of a list move what it says, and keep it.
LEMMA OthersInFront ==
  ASSUME NEW S, NEW s \in Seq(S), NEW rows \in Seq(S), NEW id,
         \A i \in 1 .. Len(rows) : rows[i].about # id
  PROVE  IF FirstMention(s, id) = 0 THEN FirstMention(rows \o s, id) = 0
         ELSE /\ FirstMention(rows \o s, id) # 0
              /\ (rows \o s)[FirstMention(rows \o s, id)] = s[FirstMention(s, id)]
<1> DEFINE t == rows \o s
           n == Len(rows)
<1>1. n \in Nat /\ Len(s) \in Nat
  OBVIOUS
<1>2. Len(t) = n + Len(s) /\ \A i \in 1 .. n + Len(s) : t[i] = IF i <= n THEN rows[i] ELSE s[i - n]
  BY ConcatProperties
<1> HIDE DEF t, n
<1>3. \A k \in Mentions(t, id) : k \in Nat /\ k - n \in Mentions(s, id)
  <2> SUFFICES ASSUME NEW k \in Mentions(t, id) PROVE k \in Nat /\ k - n \in Mentions(s, id)
    OBVIOUS
  <2>1. k \in 1 .. n + Len(s) /\ t[k].about = id
    BY <1>2 DEF Mentions
  <2>2. ~ (k <= n)
    BY <1>1, <1>2, <2>1 DEF n
  <2>3. t[k] = s[k - n] /\ k - n \in 1 .. Len(s)
    BY <1>1, <1>2, <2>1, <2>2
  <2> QED
    BY <2>1, <2>3 DEF Mentions
<1>4. \A k \in Mentions(s, id) : k + n \in Mentions(t, id) /\ t[k + n] = s[k]
  <2> SUFFICES ASSUME NEW k \in Mentions(s, id)
               PROVE  k + n \in Mentions(t, id) /\ t[k + n] = s[k]
    OBVIOUS
  <2>1. k \in 1 .. Len(s) /\ s[k].about = id
    BY DEF Mentions
  <2>2. k + n \in 1 .. n + Len(s) /\ ~ (k + n <= n) /\ (k + n) - n = k
    BY <1>1, <2>1
  <2>3. t[k + n] = s[k]
    BY <1>2, <2>2
  <2> QED
    BY <1>2, <2>1, <2>2, <2>3 DEF Mentions
<1>5. CASE Mentions(s, id) = {}
  BY <1>3, <1>5 DEF FirstMention, t
<1>6. CASE Mentions(s, id) # {}
  <2> DEFINE f == FirstMention(s, id)
             g == FirstMention(t, id)
  <2>1. f \in Mentions(s, id) /\ \A k \in Mentions(s, id) : f <= k
    BY <1>6, FirstMentionIsLeast
  <2>2. f + n \in Mentions(t, id)
    BY <1>4, <2>1
  <2>3. g \in Mentions(t, id) /\ \A k \in Mentions(t, id) : g <= k
    BY <2>2, FirstMentionIsLeast
  <2> HIDE DEF f, g
  <2>4. g <= f + n /\ f <= g - n
    BY <1>3, <2>1, <2>2, <2>3
  <2>5. f \in 1 .. Len(s) /\ g \in Nat
    BY <1>3, <2>1, <2>3 DEF Mentions
  <2>6. g = f + n
    BY <1>1, <2>4, <2>5
  <2>7. g # 0 /\ f # 0 /\ t[g] = s[f]
    BY <1>1, <1>4, <2>1, <2>5, <2>6
  <2> QED
    BY <2>7 DEF f, g, t
<1> QED
  BY <1>5, <1>6

\* The campaign a path names is the first of that name.
LEMMA ForemostIsLeast ==
  ASSUME NEW S, campaigns \in Seq(S), NEW id, OfName(id) # {}
  PROVE  /\ Foremost(id) \in OfName(id)
         /\ \A k \in OfName(id) : Foremost(id) <= k
<1>1. OfName(id) \subseteq Nat
  BY DEF OfName
<1>2. \E m \in OfName(id) : \A k \in OfName(id) : m <= k
  BY <1>1, LeastExists
<1> QED
  BY <1>2 DEF Foremost

ListsInv ==
  /\ \E S : campaigns \in Seq(S)
  /\ \E S : trail \in Seq(S)
  /\ \A i \in DOMAIN campaigns : "id" \in DOMAIN campaigns[i]
  /\ TrailTellsTheStatus

\* Newest, read off the list of the rows' own operator.
LEMMA NewestIsFirst ==
  /\ \A id : Newest(id) = FirstMention(trail, id)
  /\ \A id : Newest(id)' = FirstMention(trail', id)
BY DEF Newest, SelectInSeq, FirstMention, Mentions

\* Rows about no campaign say nothing about one.
LEMMA OtherRowsKeepLists ==
  ASSUME ListsInv, UNCHANGED campaigns, NEW rows,
         \E S : rows \in Seq(S),
         \A id \in 0 .. MaxClock : \A i \in 1 .. Len(rows) : rows[i].about # id,
         trail' = rows \o trail
  PROVE  ListsInv'
<1>1. PICK S : trail \in Seq(S)
  BY DEF ListsInv
<1>2. PICK R : rows \in Seq(R)
  OBVIOUS
<1>3. trail \in Seq(S \cup R) /\ rows \in Seq(S \cup R)
  BY <1>1, <1>2
<1>4. trail' \in Seq(S \cup R)
  BY <1>3, ConcatProperties
<1>5. ASSUME NEW id \in 0 .. MaxClock, Newest(id)' # 0
      PROVE  OfName(id)' # {} /\ campaigns'[Foremost(id)'].status = trail'[Newest(id)'].after
  <2>1. \A i \in 1 .. Len(rows) : rows[i].about # id
    OBVIOUS
  <2>2. Newest(id) # 0 /\ trail'[Newest(id)'] = trail[Newest(id)]
    BY <1>3, <1>5, <2>1, NewestIsFirst, OthersInFront
  <2>3. OfName(id)' = OfName(id) /\ Foremost(id)' = Foremost(id)
    BY DEF OfName, Foremost
  <2> QED
    BY <2>2, <2>3 DEF ListsInv, TrailTellsTheStatus
<1>6. TrailTellsTheStatus'
  BY <1>5 DEF TrailTellsTheStatus
<1> QED
  BY <1>4, <1>6 DEF ListsInv

\* A proposal heads both lists.
LEMMA ProposeKeepsLists ==
  ASSUME ListsInv, Propose
  PROVE  ListsInv'
<1>1. PICK d \in Discounts \cup {0} :
        /\ campaigns' = Added(Proposal(d))
        /\ trail' = <<Note(ms, "proposed", "none", "proposed")>> \o trail
  BY DEF Propose, Logged
<1> DEFINE camp == Proposal(d)
           row == Note(ms, "proposed", "none", "proposed")
<1>2. campaigns' = <<camp>> \o campaigns
  BY <1>1 DEF Added
<1>3. camp.id = ms /\ camp.status = "proposed" /\ "id" \in DOMAIN camp
  BY DEF Proposal
<1>4. row.about = ms /\ row.after = "proposed"
  BY DEF Note
<1>5. PICK S : campaigns \in Seq(S)
  BY DEF ListsInv
<1>6. PICK R : trail \in Seq(R)
  BY DEF ListsInv
<1> HIDE DEF camp, row
<1> DEFINE T == S \cup {camp}
<1>7. campaigns \in Seq(T) /\ <<camp>> \in Seq(T) /\ Len(<<camp>>) = 1 /\ <<camp>>[1] = camp
  BY <1>5
<1>8. /\ campaigns' \in Seq(T) /\ Len(campaigns') = 1 + Len(campaigns)
      /\ \A i \in 1 .. 1 + Len(campaigns) :
           campaigns'[i] = IF i <= 1 THEN camp ELSE campaigns[i - 1]
  <2> HIDE DEF T
  <2>1. \A i \in 1 .. Len(<<camp>>) + Len(campaigns) :
          (<<camp>> \o campaigns)[i] =
             IF i <= Len(<<camp>>) THEN <<camp>>[i] ELSE campaigns[i - Len(<<camp>>)]
    BY <1>7, ConcatProperties
  <2>2. \A i \in 1 .. 1 + Len(campaigns) : i <= 1 => i = 1
    OBVIOUS
  <2>3. /\ <<camp>> \o campaigns \in Seq(T)
        /\ Len(<<camp>> \o campaigns) = Len(<<camp>>) + Len(campaigns)
    BY <1>7, ConcatProperties
  <2>4. \A i \in 1 .. 1 + Len(campaigns) :
          campaigns'[i] = IF i <= 1 THEN camp ELSE campaigns[i - 1]
    BY <1>2, <1>7, <2>1, <2>2
  <2> QED
    BY <1>2, <1>7, <2>3, <2>4
<1>9. Len(campaigns) \in Nat /\ DOMAIN campaigns = 1 .. Len(campaigns)
      /\ DOMAIN campaigns' = 1 .. 1 + Len(campaigns)
  BY <1>5, <1>8
<1>10. \A i \in DOMAIN campaigns' : "id" \in DOMAIN campaigns'[i]
  <2> SUFFICES ASSUME NEW i \in DOMAIN campaigns' PROVE "id" \in DOMAIN campaigns'[i]
    OBVIOUS
  <2>1. CASE i <= 1
    BY <1>3, <1>8, <1>9, <2>1
  <2>2. CASE ~ (i <= 1)
    <3>1. i - 1 \in DOMAIN campaigns /\ campaigns'[i] = campaigns[i - 1]
      BY <1>8, <1>9, <2>2
    <3> QED
      BY <3>1 DEF ListsInv
  <2> QED
    BY <2>1, <2>2
<1>11. \E Q : trail' \in Seq(Q)
  <2>1. trail \in Seq(R \cup {row}) /\ <<row>> \in Seq(R \cup {row})
    BY <1>6
  <2>2. trail' \in Seq(R \cup {row})
    BY <1>1, <2>1, ConcatProperties DEF row
  <2> QED
    BY <2>2
<1>12. ASSUME NEW id \in 0 .. MaxClock, Newest(id)' # 0
       PROVE  OfName(id)' # {} /\ campaigns'[Foremost(id)'].status = trail'[Newest(id)'].after
  <2>1. OfName(id)' # {} => /\ Foremost(id)' \in OfName(id)'
                            /\ \A k \in OfName(id)' : Foremost(id)' <= k
    <3>1. OfName(id)' \subseteq Nat
      BY <1>8, <1>9 DEF OfName
    <3>2. OfName(id)' # {} => \E m \in OfName(id)' : \A k \in OfName(id)' : m <= k
      BY <3>1, LeastExists
    <3> QED
      BY <3>2 DEF Foremost
  <2>2. CASE id = ms
    <3>1. 1 \in OfName(id)'
      BY <1>3, <1>8, <1>9, <2>2 DEF OfName
    <3>2. Foremost(id)' \in 1 .. 1 + Len(campaigns) /\ Foremost(id)' <= 1
      BY <1>9, <2>1, <3>1 DEF OfName
    <3>3. Foremost(id)' = 1
      BY <3>2
    <3>4. campaigns'[Foremost(id)'].status = "proposed"
      BY <1>3, <1>8, <1>9, <3>3
    <3>5. FirstMention(trail', id) = 1 /\ trail'[1] = row
      BY <1>1, <1>4, <1>6, <2>2, FrontIsFirst DEF row
    <3>6. trail'[Newest(id)'].after = "proposed"
      BY <1>4, <3>5, NewestIsFirst
    <3> QED
      BY <3>1, <3>4, <3>6
  <2>3. CASE id # ms
    <3>1. \A i \in 1 .. Len(<<row>>) : <<row>>[i].about # id
      BY <1>4, <2>3
    <3>2. trail \in Seq(R \cup {row}) /\ <<row>> \in Seq(R \cup {row})
      BY <1>6
    <3>3. Newest(id) # 0 /\ trail'[Newest(id)'] = trail[Newest(id)]
      <4>1. trail' = <<row>> \o trail
        BY <1>1 DEF row
      <4> QED
        BY <1>12, <3>1, <3>2, <4>1, NewestIsFirst, OthersInFront
    <3>4. OfName(id) # {} /\ campaigns[Foremost(id)].status = trail[Newest(id)].after
      BY <3>3 DEF ListsInv, TrailTellsTheStatus
    <3> DEFINE f == Foremost(id)
    <3>5. f \in OfName(id) /\ \A k \in OfName(id) : f <= k
      BY <1>5, <3>4, ForemostIsLeast
    <3> HIDE DEF f
    <3>6. \A k \in OfName(id)' : k - 1 \in OfName(id) /\ k \in Nat
      BY <1>3, <1>8, <1>9, <2>3 DEF OfName
    <3>7. f \in Nat /\ f + 1 \in OfName(id)' /\ campaigns'[f + 1] = campaigns[f]
      <4>1. f \in 1 .. Len(campaigns) /\ campaigns[f].id = id
        BY <1>9, <3>5 DEF OfName
      <4>2. f + 1 \in 1 .. 1 + Len(campaigns) /\ ~ (f + 1 <= 1) /\ (f + 1) - 1 = f
        BY <1>9, <4>1
      <4>3. campaigns'[f + 1] = campaigns[f]
        BY <1>8, <4>2
      <4> QED
        BY <1>9, <4>1, <4>2, <4>3 DEF OfName
    <3> DEFINE g == Foremost(id)'
    <3>8. g \in OfName(id)' /\ g <= f + 1
      BY <2>1, <3>7
    <3> HIDE DEF g
    <3>9. g = f + 1
      BY <3>5, <3>6, <3>7, <3>8
    <3> QED
      BY <3>3, <3>4, <3>7, <3>9 DEF f, g
  <2> QED
    BY <2>2, <2>3
<1>13. TrailTellsTheStatus'
  BY <1>12 DEF TrailTellsTheStatus
<1> QED
  BY <1>8, <1>10, <1>11, <1>13 DEF ListsInv

\* A command changes the foremost campaign of a name, and logs it under that
\* name.
LEMMA CommandKeepsLists ==
  ASSUME ListsInv, NEW about \in 0 .. MaxClock, NEW word, Command(about, word)
  PROVE  ListsInv'
<1> DEFINE i == Foremost(about)
           camp == Commanded(campaigns[i], word)
           row == Note(about, word, camp.status, camp.status)
<1>1. /\ OfName(about) # {}
      /\ campaigns' = [campaigns EXCEPT ![i] = camp]
      /\ trail' = <<row>> \o trail
  BY DEF Command, Logged
<1>2. PICK S : campaigns \in Seq(S)
  BY DEF ListsInv
<1>3. PICK R : trail \in Seq(R)
  BY DEF ListsInv
<1>4. i \in DOMAIN campaigns /\ campaigns[i].id = about
  BY <1>1, <1>2, ForemostIsLeast DEF OfName
<1>5. "id" \in DOMAIN camp /\ camp.id = about
  BY <1>4 DEF ListsInv, Commanded
<1>6. row.about = about /\ row.after = camp.status
  BY DEF Note
<1> HIDE DEF i, camp, row
<1>7. campaigns' \in Seq(S \cup {camp}) /\ DOMAIN campaigns' = DOMAIN campaigns
  BY <1>1, <1>2, <1>4
<1>8. /\ campaigns'[i] = camp
      /\ \A k \in DOMAIN campaigns : k # i => campaigns'[k] = campaigns[k]
  BY <1>1, <1>4
<1>9. \A k \in DOMAIN campaigns' : "id" \in DOMAIN campaigns'[k]
                                   /\ campaigns'[k].id = campaigns[k].id
  BY <1>4, <1>5, <1>7, <1>8 DEF ListsInv
<1>10. trail \in Seq(R \cup {row}) /\ <<row>> \in Seq(R \cup {row})
  BY <1>3
<1>11. trail' \in Seq(R \cup {row})
  BY <1>1, <1>10, ConcatProperties
<1>12. ASSUME NEW id \in 0 .. MaxClock, Newest(id)' # 0
       PROVE  OfName(id)' # {} /\ campaigns'[Foremost(id)'].status = trail'[Newest(id)'].after
  <2>1. OfName(id)' = OfName(id)
    BY <1>7, <1>9 DEF OfName
  <2>2. Foremost(id)' = Foremost(id)
    BY <2>1 DEF Foremost
  <2>3. CASE id = about
    <3>1. FirstMention(trail', id) = 1 /\ trail'[1] = row
      BY <1>1, <1>3, <1>6, <2>3, FrontIsFirst
    <3>2. trail'[Newest(id)'].after = camp.status
      BY <1>6, <3>1, NewestIsFirst
    <3> QED
      BY <1>1, <1>8, <2>1, <2>2, <2>3, <3>2 DEF i
  <2>4. CASE id # about
    <3>1. \A k \in 1 .. Len(<<row>>) : <<row>>[k].about # id
      BY <1>6, <2>4
    <3>2. Newest(id) # 0 /\ trail'[Newest(id)'] = trail[Newest(id)]
      BY <1>1, <1>10, <1>12, <3>1, NewestIsFirst, OthersInFront
    <3>3. OfName(id) # {} /\ campaigns[Foremost(id)].status = trail[Newest(id)].after
      BY <3>2 DEF ListsInv, TrailTellsTheStatus
    <3>4. Foremost(id) \in DOMAIN campaigns /\ campaigns[Foremost(id)].id = id
      BY <1>2, <3>3, ForemostIsLeast DEF OfName
    <3>5. campaigns'[Foremost(id)] = campaigns[Foremost(id)]
      BY <1>4, <1>8, <2>4, <3>4
    <3> QED
      BY <2>1, <2>2, <3>2, <3>3, <3>5
  <2> QED
    BY <2>3, <2>4
<1>13. TrailTellsTheStatus'
  BY <1>12 DEF TrailTellsTheStatus
<1> QED
  BY <1>7, <1>9, <1>11, <1>13 DEF ListsInv

\* With no rows nothing is told of any campaign: the seeded lists agree.
LEMMA SeededListsAgree ==
  /\ campaigns = <<Seeded>> /\ trail = <<>> => ListsInv
  /\ campaigns' = <<Seeded>> /\ trail' = <<>> => ListsInv'
<1>1. \A id : FirstMention(<<>>, id) = 0
  <2>1. Len(<<>>) = 0
    OBVIOUS
  <2> QED
    BY <2>1 DEF FirstMention, Mentions
<1>2. /\ <<Seeded>> \in Seq({Seeded}) /\ <<>> \in Seq({})
      /\ \A i \in DOMAIN <<Seeded>> : "id" \in DOMAIN <<Seeded>>[i]
  BY DEF Seeded
<1>3. campaigns = <<Seeded>> /\ trail = <<>> => ListsInv
  <2> SUFFICES ASSUME campaigns = <<Seeded>>, trail = <<>> PROVE ListsInv
    OBVIOUS
  <2>1. \A id : Newest(id) = 0
    BY <1>1, NewestIsFirst
  <2> QED
    BY <1>2, <2>1 DEF ListsInv, TrailTellsTheStatus
<1>4. campaigns' = <<Seeded>> /\ trail' = <<>> => ListsInv'
  <2> SUFFICES ASSUME campaigns' = <<Seeded>>, trail' = <<>> PROVE ListsInv'
    OBVIOUS
  <2>1. \A id : Newest(id)' = 0
    BY <1>1, NewestIsFirst
  <2> QED
    BY <1>2, <2>1 DEF ListsInv, TrailTellsTheStatus
<1> QED
  BY <1>3, <1>4

LEMMA StepKeepsLists ==
  ListsInv /\ [LocalCampaignsNext]_localCampaignVars => ListsInv'
<1> SUFFICES ASSUME ListsInv, [LocalCampaignsNext]_localCampaignVars PROVE ListsInv'
  OBVIOUS
<1>1. CASE ClockTicks \/ UNCHANGED localCampaignVars
  <2>1. campaigns' = campaigns /\ trail' = trail
    BY <1>1 DEF ClockTicks, localCampaignVars
  <2>2. \A id : Newest(id)' = Newest(id)
    BY <2>1, NewestIsFirst
  <2>3. \A id : OfName(id)' = OfName(id) /\ Foremost(id)' = Foremost(id)
    BY <2>1 DEF OfName, Foremost
  <2> QED
    BY <2>1, <2>2, <2>3 DEF ListsInv, TrailTellsTheStatus
<1>2. CASE Propose
  BY <1>2, ProposeKeepsLists
<1>3. CASE SimulateFailure
  <2> DEFINE one == Note(Trip, "evaluated", "none", "blocked")
             two == Note(Trip, "tool", "none", "blocked")
  <2>1. campaigns' = campaigns /\ trail' = <<one, two>> \o trail
    BY <1>3 DEF SimulateFailure, Logged
  <2>2. one.about = MaxClock + 1 /\ two.about = MaxClock + 1
    BY DEF Note, Trip
  <2> HIDE DEF one, two
  <2>3. <<one, two>> \in Seq({one, two}) /\ Len(<<one, two>>) = 2
    OBVIOUS
  <2>4. \A id \in 0 .. MaxClock : \A i \in 1 .. Len(<<one, two>>) : <<one, two>>[i].about # id
    <3>1. MaxClock \in Nat
      BY LocalCampaignsAssumption
    <3>2. \A id \in 0 .. MaxClock : one.about # id /\ two.about # id
      BY <2>2, <3>1
    <3>3. \A i \in 1 .. Len(<<one, two>>) : <<one, two>>[i] = one \/ <<one, two>>[i] = two
      BY <2>3
    <3> QED
      BY <3>2, <3>3
  <2> QED
    BY <2>1, <2>3, <2>4, OtherRowsKeepLists
<1>4. CASE ResolveFailure
  <2> DEFINE one == Note(Trip, "granted", "none", "allowed")
  <2>1. campaigns' = campaigns /\ trail' = <<one>> \o trail
    BY <1>4 DEF ResolveFailure, Logged
  <2>2. one.about = MaxClock + 1
    BY DEF Note, Trip
  <2> HIDE DEF one
  <2>3. <<one>> \in Seq({one}) /\ \A i \in 1 .. Len(<<one>>) : <<one>>[i] = one
    OBVIOUS
  <2>4. \A id \in 0 .. MaxClock : one.about # id
    BY <2>2, LocalCampaignsAssumption
  <2> QED
    BY <2>1, <2>3, <2>4, OtherRowsKeepLists
<1>5. CASE RestartTier
  BY <1>5, SeededListsAgree DEF RestartTier
<1>6. ASSUME NEW id \in 0 .. MaxClock, NEW word \in DOMAIN Becomes \cup {"metrics"},
             Command(id, word)
      PROVE  ListsInv'
  BY <1>6, CommandKeepsLists
<1> QED
  BY <1>1, <1>2, <1>3, <1>4, <1>5, <1>6 DEF LocalCampaignsNext

\* The newest audit row about a campaign tells its status, however many
\* proposals share its name, whatever is commanded and in whatever order.
THEOREM TrailsTellTheStatus == LocalCampaignsSpec => []TrailTellsTheStatus
<1>1. LocalCampaignsInit => ListsInv
  BY SeededListsAgree DEF LocalCampaignsInit
<1>2. ListsInv => TrailTellsTheStatus
  BY DEF ListsInv
<1> QED
  BY <1>1, <1>2, StepKeepsLists, PTL DEF LocalCampaignsSpec

-----------------------------------------------------------------------------
(* The catalogue of the web tier.  Every way to an answer is one of three:  *)
(* a row of the database that matches, a built-in product that is ranked,   *)
(* or the row of what was named; and all keep what was asked.               *)

\* What an answer's rows keep of its question.
Keeps(q, r) ==
  /\ q.ceiling > 0 => r.price <= q.ceiling
  /\ q.ceiling \in {0, NoLimit} => r.price <= q.said
  /\ r.recorded <= q.days
  /\ 2 <= q.days => r.days <= q.days

\* A row of the database that was not published again says what it says.
RowSound(d, r) ==
  /\ {"id", "product", "price", "days", "recorded", "live", "stale"} \subseteq DOMAIN r
  /\ r.live /\ ~ r.stale => r.id \in DOMAIN d /\ r.price = d[r.id].price

AnswerSound(d, a) ==
  /\ {"query", "rows"} \subseteq DOMAIN a
  /\ \A r \in a.rows : RowSound(d, r) /\ Keeps(a.query, r)

OffersSound ==
  \A o \in Stored : db[o].price \in 0 .. NoLimit /\ db[o].days \in 0 .. NoLimit

CatalogInv ==
  /\ OffersSound
  /\ AnswerSound(db, answer) /\ \A a \in writing : AnswerSound(db, a)
  /\ \A r \in bag : RowSound(db, r)
  /\ ShownIsFrozen

LEMMA BuiltInIsKnown ==
  /\ BuiltIn \subseteq DOMAIN About
  /\ Head(Shelf) \in BuiltIn
<1>1. Shelf \in Seq(DOMAIN About) /\ Shelf # <<>>
  BY LocalCatalogAssumption
<1>2. 1 \in DOMAIN Shelf /\ Head(Shelf) = Shelf[1]
  BY <1>1
<1> QED
  BY <1>1, <1>2 DEF BuiltIn, ToSet

\* The rows the two sources offer.
LEMMA LiveRowSound ==
  ASSUME OffersSound, NEW o \in Stored
  PROVE  RowSound(db, LiveRow(o)) /\ Keeps(AnyProduct, LiveRow(o))
<1>1. db[o].price <= NoLimit /\ db[o].days <= NoLimit
  BY LocalCatalogAssumption DEF OffersSound
<1>2. RowSound(db, LiveRow(o))
  BY DEF LiveRow, RowSound, Stored
<1>3. Keeps(AnyProduct, LiveRow(o))
  BY <1>1, LocalCatalogAssumption DEF LiveRow, DaysShown, Keeps, AnyProduct, Query
<1> QED
  BY <1>2, <1>3

LEMMA BuiltInRowSound ==
  ASSUME NEW p \in DOMAIN About
  PROVE  RowSound(db, BuiltInRow(p)) /\ Keeps(AnyProduct, BuiltInRow(p))
<1>1. About[p].price <= NoLimit /\ About[p].days <= NoLimit
  BY LocalCatalogAssumption
<1>2. RowSound(db, BuiltInRow(p))
  BY DEF BuiltInRow, RowSound
<1>3. Keeps(AnyProduct, BuiltInRow(p))
  BY <1>1 DEF BuiltInRow, Keeps, AnyProduct, Query
<1> QED
  BY <1>2, <1>3

\* A query of the instance has numbers for bounds.
LEMMA QueriesAreTyped ==
  ASSUME NEW q \in Queries
  PROVE  q.said \in Nat /\ q.ceiling \in Nat /\ q.floor \in Nat /\ q.days \in Nat
<1>1. PICK w \in Words, b \in Ceilings, k \in Kinds, c \in Ceilings, x \in Rests :
             q = Query(w, b, k, x[1], c, x[2], x[3], x[4])
  BY DEF Queries
<1>2. b \in Nat /\ c \in Nat
  BY LocalCatalogAssumption
<1>3. x[1] \in Nat /\ x[2] \in Nat
  BY LocalCatalogAssumption DEF Rests
<1> QED
  BY <1>1, <1>2, <1>3 DEF Query

\* Whichever source answers a search, its rows keep the budget and the days.
LEMMA FoundKeeps ==
  ASSUME OffersSound, NEW q \in Queries, NEW rows \in Found(q)
  PROVE  AnswerSound(db, Reply(q, rows))
<1>1. q.said \in Nat /\ q.ceiling \in Nat /\ q.floor \in Nat /\ q.days \in Nat
  BY QueriesAreTyped
<1>2. ASSUME NEW o \in Stored, Matches(q, o)
      PROVE  RowSound(db, LiveRow(o)) /\ Keeps(q, LiveRow(o))
  <2>1. /\ q.said = NoLimit
        /\ db[o].price \in q.floor .. q.ceiling
        /\ db[o].days <= q.days
    BY <1>2 DEF Matches
  <2>2. db[o].price <= NoLimit /\ db[o].days \in Nat
    BY LocalCatalogAssumption DEF OffersSound
  <2>3. /\ LiveRow(o).price = db[o].price /\ LiveRow(o).recorded = db[o].days
        /\ LiveRow(o).days = db[o].days \/ LiveRow(o).days = 2
    BY DEF LiveRow, DaysShown
  <2>4. Keeps(q, LiveRow(o))
    BY <1>1, <2>1, <2>2, <2>3 DEF Keeps
  <2> QED
    BY <2>4, LiveRowSound
<1>3. ASSUME NEW p \in Ranked(q)
      PROVE  RowSound(db, BuiltInRow(p)) /\ Keeps(q, BuiltInRow(p))
  <2>1. p \in BuiltIn /\ About[p].price <= Budget(q) /\ About[p].days <= q.days
    BY DEF Ranked
  <2>2. p \in DOMAIN About
    BY <2>1, BuiltInIsKnown
  <2>3. About[p].price \in 0 .. NoLimit /\ NoLimit \in Nat
    BY <2>2, LocalCatalogAssumption
  <2>4. /\ BuiltInRow(p).price = About[p].price
        /\ BuiltInRow(p).days = About[p].days /\ BuiltInRow(p).recorded = About[p].days
    BY DEF BuiltInRow
  <2>5. Keeps(q, BuiltInRow(p))
    BY <1>1, <2>1, <2>3, <2>4 DEF Keeps, Budget
  <2> QED
    BY <2>2, <2>5, BuiltInRowSound
<1>4. \/ rows \subseteq {LiveRow(o) : o \in {x \in Stored : Matches(q, x)}}
      \/ rows \subseteq {BuiltInRow(p) : p \in Ranked(q)}
  BY DEF Found, PagesOf
<1>5. \A r \in rows : RowSound(db, r) /\ Keeps(q, r)
  BY <1>2, <1>3, <1>4
<1> QED
  BY <1>5 DEF AnswerSound, Reply

\* What is told of a thing named is told as of any product.
LEMMA TellKeepsInv ==
  ASSUME CatalogInv, NEW p, NEW rows, Tell(p, rows),
         UNCHANGED <<db, writing, bag, frozen>>,
         \A r \in rows : RowSound(db, r) /\ Keeps(AnyProduct, r)
  PROVE  CatalogInv'
<1>1. AnswerSound(db', answer')
  BY DEF Tell, AnswerSound, RowSound, Stored, Keeps
<1>2. \A a \in writing' : AnswerSound(db', a)
  BY DEF CatalogInv, AnswerSound, RowSound, Stored, Keeps
<1>3. \A r \in bag' : RowSound(db', r)
  BY DEF CatalogInv, RowSound, Stored
<1> QED
  BY <1>1, <1>2, <1>3 DEF CatalogInv, OffersSound, Stored, ShownIsFrozen

\* Publishing an offer marks the rows that show it, and moves no other price.
LEMMA PublishKeepsInv ==
  ASSUME CatalogInv, NEW o \in ToSet(OfferIds), Publish(o)
  PROVE  CatalogInv'
<1>1. PICK n \in Prices, d \in Delays, on \in BOOLEAN :
        db' = [x \in Stored \cup {o} |->
                 IF x = o THEN [price |-> n, days |-> d, active |-> on] ELSE db[x]]
  BY DEF Publish
<1>2. /\ answer' = [answer EXCEPT !.rows = Outdated(@, o)]
      /\ writing' = {[a EXCEPT !.rows = Outdated(@, o)] : a \in writing}
      /\ bag' = Outdated(bag, o)
      /\ frozen' = frozen
  BY DEF Publish
<1>3. Stored' = Stored \cup {o} /\ \A x \in Stored : x # o => db'[x] = db[x]
  BY <1>1 DEF Stored
<1>4. OffersSound'
  <2>1. db'[o].price = n /\ db'[o].days = d
    BY <1>1
  <2>2. n \in 0 .. NoLimit /\ d \in 0 .. NoLimit
    BY LocalCatalogAssumption
  <2> QED
    BY <1>3, <2>1, <2>2 DEF CatalogInv, OffersSound
<1>5. ASSUME NEW r, RowSound(db, r)
      PROVE  LET new == [r EXCEPT !.stale = @ \/ r.id = o]
             IN  RowSound(db', new) /\ \A q : Keeps(q, r) => Keeps(q, new)
  <2> DEFINE new == [r EXCEPT !.stale = @ \/ r.id = o]
  <2>1. /\ DOMAIN new = DOMAIN r
        /\ new.id = r.id /\ new.price = r.price /\ new.days = r.days
        /\ new.recorded = r.recorded /\ new.live = r.live
    BY <1>5 DEF RowSound
  <2>2. new.stale = (r.stale \/ r.id = o)
    BY <1>5 DEF RowSound
  <2> HIDE DEF new
  <2>3. ASSUME new.live, ~ new.stale
        PROVE  new.id \in Stored' /\ new.price = db'[new.id].price
    <3>1. r.live /\ ~ r.stale /\ r.id # o
      BY <2>1, <2>2, <2>3
    <3>2. r.id \in Stored /\ r.price = db[r.id].price
      BY <1>5, <3>1 DEF RowSound, Stored
    <3> QED
      BY <1>3, <2>1, <3>1, <3>2
  <2>4. RowSound(db', new)
    BY <1>5, <2>1, <2>3 DEF RowSound, Stored
  <2>5. \A q : Keeps(q, r) => Keeps(q, new)
    BY <2>1 DEF Keeps
  <2> QED
    BY <2>4, <2>5 DEF new
<1>6. ASSUME NEW rows, \A r \in rows : RowSound(db, r)
      PROVE  /\ \A r \in Outdated(rows, o) : RowSound(db', r)
             /\ \A q : (\A r \in rows : Keeps(q, r)) => \A r \in Outdated(rows, o) : Keeps(q, r)
  <2>1. \A r \in Outdated(rows, o) : \E old \in rows : r = [old EXCEPT !.stale = @ \/ old.id = o]
    BY DEF Outdated
  <2> QED
    BY <1>5, <1>6, <2>1
<1>7. ASSUME NEW a, AnswerSound(db, a)
      PROVE  AnswerSound(db', [a EXCEPT !.rows = Outdated(@, o)])
  <2> DEFINE new == [a EXCEPT !.rows = Outdated(@, o)]
  <2>1. DOMAIN new = DOMAIN a /\ new.query = a.query /\ new.rows = Outdated(a.rows, o)
    BY <1>7 DEF AnswerSound
  <2> HIDE DEF new
  <2>2. \A r \in a.rows : RowSound(db, r) /\ Keeps(a.query, r)
    BY <1>7 DEF AnswerSound
  <2>3. \A r \in new.rows : RowSound(db', r) /\ Keeps(new.query, r)
    BY <1>6, <2>1, <2>2
  <2>4. AnswerSound(db', new)
    BY <1>7, <2>1, <2>3 DEF AnswerSound, Keeps
  <2> QED
    BY <2>4 DEF new
<1>8. AnswerSound(db', answer') /\ \A a \in writing' : AnswerSound(db', a)
  <2>1. AnswerSound(db', [answer EXCEPT !.rows = Outdated(@, o)])
    BY <1>7 DEF CatalogInv
  <2>2. \A a \in writing : AnswerSound(db', [a EXCEPT !.rows = Outdated(@, o)])
    BY <1>7 DEF CatalogInv
  <2> QED
    BY <1>2, <2>1, <2>2
<1>9. \A r \in bag' : RowSound(db', r)
  BY <1>2, <1>6 DEF CatalogInv
<1>10. ShownIsFrozen'
  BY <1>2 DEF CatalogInv, ShownIsFrozen
<1> QED
  BY <1>4, <1>8, <1>9, <1>10 DEF CatalogInv

\* A fresh line of the database is charged what the database says of it.
LEMMA FreezeKeepsInv ==
  ASSUME CatalogInv, Freeze
  PROVE  CatalogInv'
<1>1. /\ frozen' = UNION {{[row |-> r, price |-> n] : n \in UnitPrice(r.id)} : r \in bag}
      /\ bag' = {} /\ UNCHANGED <<db, answer, writing>>
  BY DEF Freeze
<1>2. ASSUME NEW l \in frozen', l.row.live, ~ l.row.stale
      PROVE  l.price = l.row.price
  <2>1. PICK r \in bag : l \in {[row |-> r, price |-> n] : n \in UnitPrice(r.id)}
    BY <1>1
  <2>2. PICK n \in UnitPrice(r.id) : l = [row |-> r, price |-> n]
    BY <2>1
  <2>3. l.row = r /\ l.price = n
    BY <2>2
  <2>4. r.id \in Stored /\ r.price = db[r.id].price
    BY <1>2, <2>3 DEF CatalogInv, RowSound, Stored
  <2>5. OfferOf(r.id) = {r.id}
    BY <2>4 DEF OfferOf
  <2>6. n = db[r.id].price
    BY <2>5 DEF UnitPrice
  <2> QED
    BY <2>3, <2>4, <2>6
<1>3. ShownIsFrozen'
  BY <1>2 DEF ShownIsFrozen
<1> QED
  BY <1>1, <1>3 DEF CatalogInv, OffersSound, AnswerSound, RowSound, Stored, Keeps

\* Searches, and explorations whose recommendation is awaited.
LEMMA SearchKeepsInv ==
  ASSUME CatalogInv, NEW q \in Queries, Search(q) \/ Explore(q)
  PROVE  CatalogInv'
<1>1. PICK rows : /\ rows = {} \/ rows \in Found(q)
                  /\ \/ answer' = Reply(q, rows) /\ writing' = writing
                     \/ writing' = {Reply(q, rows)} /\ answer' = answer
  BY DEF Search, Explore
<1>2. UNCHANGED <<db, bag, frozen>>
  BY DEF Search, Explore
<1>3. AnswerSound(db, Reply(q, rows))
  <2>1. CASE rows = {}
    BY <2>1 DEF AnswerSound, Reply
  <2>2. CASE rows \in Found(q)
    BY <2>2, FoundKeeps DEF CatalogInv
  <2> QED
    BY <1>1, <2>1, <2>2
<1>4. AnswerSound(db, answer') /\ \A a \in writing' : AnswerSound(db, a)
  BY <1>1, <1>3 DEF CatalogInv
<1>5. AnswerSound(db', answer') /\ \A a \in writing' : AnswerSound(db', a)
  BY <1>2, <1>4 DEF AnswerSound, RowSound, Stored, Keeps
<1> QED
  BY <1>2, <1>5 DEF CatalogInv, OffersSound, RowSound, Stored, ShownIsFrozen

\* An identifier names an offer the database holds, if any.
LEMMA OfferOfIsStored == \A id : OfferOf(id) \subseteq Stored
BY DEF OfferOf

\* The reads of one thing: a product, an offer, the feed, a question, the
\* companion.
LEMMA ReadKeepsInv ==
  ASSUME CatalogInv,
         \/ Feed \/ Discover \/ CrossSell
         \/ \E p \in DOMAIN About : ReadProduct(p) \/ \E w \in Words : Ask(p, w)
         \/ \E id \in Identifiers : ReadOffer(id) \/ Validate(id)
  PROVE  CatalogInv'
<1> DEFINE Fit(rows) == \A r \in rows : RowSound(db, r) /\ Keeps(AnyProduct, r)
<1>1. \A o \in Stored : RowSound(db, LiveRow(o)) /\ Keeps(AnyProduct, LiveRow(o))
  BY LiveRowSound DEF CatalogInv
<1>2. \A p \in BuiltIn : RowSound(db, BuiltInRow(p)) /\ Keeps(AnyProduct, BuiltInRow(p))
  BY BuiltInIsKnown, BuiltInRowSound
<1>3. RowSound(db, Companion) /\ Keeps(AnyProduct, Companion)
  <2>1. /\ {"id", "product", "price", "days", "recorded", "live", "stale"} \subseteq DOMAIN Companion
        /\ Companion.price = 1 /\ Companion.days = 1 /\ Companion.recorded = 1 /\ Companion.live = FALSE
    BY DEF Companion
  <2>2. 1 <= NoLimit
    BY LocalCatalogAssumption
  <2>3. AnyProduct.ceiling = NoLimit /\ AnyProduct.said = NoLimit /\ AnyProduct.days = NoLimit
    BY DEF AnyProduct, Query
  <2> QED
    BY <2>1, <2>2, <2>3 DEF RowSound, Keeps
<1>4. \E p, rows : /\ Tell(p, rows) /\ UNCHANGED <<db, writing, bag, frozen>>
                   /\ Fit(rows)
  <2>1. CASE Feed \/ Discover
    <3>1. Fit(OnSale)
      BY <1>1, <1>2 DEF OnSale
    <3> QED
      BY <2>1, <3>1 DEF Feed, Discover
  <2>2. CASE CrossSell
    BY <1>3, <2>2 DEF CrossSell
  <2>3. ASSUME NEW p \in DOMAIN About, ReadProduct(p)
        PROVE  \E rows : Tell(p, rows) /\ UNCHANGED <<db, writing, bag, frozen>> /\ Fit(rows)
    <3>1. \/ Tell(p, {})
          \/ \E o \in Stored : Tell(p, {LiveRow(o)})
      BY <2>3 DEF ReadProduct
    <3>2. UNCHANGED <<db, writing, bag, frozen>>
      BY <2>3 DEF ReadProduct
    <3>3. Fit({}) /\ \A o \in Stored : Fit({LiveRow(o)})
      BY <1>1
    <3> HIDE DEF Fit
    <3> QED
      BY <3>1, <3>2, <3>3
  <2>4. ASSUME NEW p \in DOMAIN About, NEW w \in Words, Ask(p, w)
        PROVE  \E rows : Tell(p, rows) /\ UNCHANGED <<db, writing, bag, frozen>> /\ Fit(rows)
    <3>1. PICK s \in Subject(p, w) : Tell(p, {BuiltInRow(s)})
      BY <2>4 DEF Ask
    <3>2. s \in BuiltIn
      BY DEF Subject, Best, Ranked
    <3> QED
      BY <1>2, <2>4, <3>1, <3>2 DEF Ask
  <2>5. ASSUME NEW id \in Identifiers, ReadOffer(id) \/ Validate(id)
        PROVE  \E rows : Tell(Named(id), rows) /\ UNCHANGED <<db, writing, bag, frozen>> /\ Fit(rows)
    <3>1. Fit({LiveRow(o) : o \in OfferOf(id)})
      BY <1>1, OfferOfIsStored
    <3>2. Fit({BuiltInRow(p) : p \in BuiltInOf(id)})
      BY <1>2 DEF BuiltInOf
    <3>3. Fit({BuiltInRow(IF id \in BuiltIn THEN id ELSE Head(Shelf))})
      BY <1>2, BuiltInIsKnown
    <3>4. CASE ReadOffer(id)
      BY <3>1, <3>2, <3>4 DEF ReadOffer
    <3>5. CASE Validate(id)
      BY <3>1, <3>3, <3>5 DEF Validate
    <3> QED
      BY <2>5, <3>4, <3>5
  <2> QED
    BY <2>1, <2>2, <2>3, <2>4, <2>5
<1>5. PICK p, rows : /\ Tell(p, rows) /\ UNCHANGED <<db, writing, bag, frozen>>
                     /\ Fit(rows)
  BY <1>4
<1> QED
  BY <1>5, TellKeepsInv

LEMMA StepKeepsCatalog == CatalogInv /\ [LocalNext]_localVars => CatalogInv'
<1> SUFFICES ASSUME CatalogInv, [LocalNext]_localVars PROVE CatalogInv'
  OBVIOUS
<1> DEFINE Same == UNCHANGED <<db, frozen>> \/ (UNCHANGED db /\ frozen' = {})
<1>1. CASE \E q \in Queries : Search(q) \/ Explore(q)
  BY <1>1, SearchKeepsInv
<1>2. CASE \/ Feed \/ Discover \/ CrossSell
           \/ \E p \in DOMAIN About : ReadProduct(p) \/ \E w \in Words : Ask(p, w)
           \/ \E id \in Identifiers : ReadOffer(id) \/ Validate(id)
  BY <1>2, ReadKeepsInv
<1>3. CASE Freeze
  BY <1>3, FreezeKeepsInv
<1>4. CASE \E o \in ToSet(OfferIds) : Publish(o)
  BY <1>4, PublishKeepsInv
<1>5. CASE ExploreAnswered \/ Take \/ LeaveShop \/ UNCHANGED localVars
  <2>1. db' = db /\ (frozen' = frozen \/ frozen' = {})
    BY <1>5 DEF ExploreAnswered, Take, LeaveShop, localVars
  <2>2. AnswerSound(db, Nothing)
    BY DEF Nothing, Reply, AnswerSound
  <2>3. AnswerSound(db, answer') /\ \A a \in writing' : AnswerSound(db, a)
    BY <1>5, <2>2 DEF CatalogInv, ExploreAnswered, Take, LeaveShop, localVars
  <2>4. \A r \in bag' : RowSound(db, r)
    BY <1>5 DEF CatalogInv, AnswerSound, ExploreAnswered, Take, LeaveShop, localVars
  <2>5. OffersSound' /\ ShownIsFrozen'
    BY <2>1 DEF CatalogInv, OffersSound, Stored, ShownIsFrozen
  <2> QED
    BY <2>1, <2>3, <2>4, <2>5 DEF CatalogInv
<1> QED
  BY <1>1, <1>2, <1>3, <1>4, <1>5 DEF LocalNext

\* What a database first holds: the built-in terms of a product, or others.
LEMMA InitEstablishesCatalog == LocalInit => CatalogInv
<1> SUFFICES ASSUME LocalInit PROVE CatalogInv
  OBVIOUS
<1>1. PICK D \in SUBSET ToSet(OfferIds), n \in Prices, d \in Delays :
        db = [o \in D |->
               LET p == ProductOf[o]
               IN IF p \in BuiltIn /\ About[p].offer = o
                  THEN [price |-> About[p].price, days |-> About[p].days, active |-> TRUE]
                  ELSE [price |-> n, days |-> d, active |-> TRUE]]
  BY DEF LocalInit
<1>2. OffersSound
  <2> SUFFICES ASSUME NEW o \in Stored
               PROVE  db[o].price \in 0 .. NoLimit /\ db[o].days \in 0 .. NoLimit
    BY DEF OffersSound
  <2> DEFINE p == ProductOf[o]
  <2>1. o \in D
    BY <1>1 DEF Stored
  <2>2. \/ /\ p \in BuiltIn
           /\ db[o] = [price |-> About[p].price, days |-> About[p].days, active |-> TRUE]
        \/ db[o] = [price |-> n, days |-> d, active |-> TRUE]
    BY <1>1, <2>1
  <2>3. n \in 0 .. NoLimit /\ d \in 0 .. NoLimit
    BY LocalCatalogAssumption
  <2>4. p \in BuiltIn => About[p].price \in 0 .. NoLimit /\ About[p].days \in 0 .. NoLimit
    BY BuiltInIsKnown, LocalCatalogAssumption
  <2> HIDE DEF p
  <2> QED
    BY <2>2, <2>3, <2>4
<1>3. AnswerSound(db, answer) /\ writing = {} /\ bag = {} /\ frozen = {}
  BY DEF LocalInit, Nothing, Reply, AnswerSound
<1> QED
  BY <1>2, <1>3 DEF CatalogInv, ShownIsFrozen

LEMMA CatalogInvariant == LocalSpec => []CatalogInv
BY InitEstablishesCatalog, StepKeepsCatalog, PTL DEF LocalSpec

\* A search keeps the budget it was given, and the delivery time by what is
\* recorded of each row and, from two days on, by what is shown of it,
\* whichever of the two sources its rows come from, same-day offers included,
\* and whatever is published meanwhile.
THEOREM SearchesKeepTheirLimits == LocalSpec => []SearchKeepsLimits
<1>1. CatalogInv => SearchKeepsLimits
  BY DEF CatalogInv, AnswerSound, Keeps, SearchKeepsLimits
<1> QED
  BY <1>1, CatalogInvariant, PTL

\* A line taken from the database is charged what the shopper was shown,
\* unless its offer was published again.
THEOREM TheShownPriceIsFrozen == LocalSpec => []ShownIsFrozen
<1>1. CatalogInv => ShownIsFrozen
  BY DEF CatalogInv
<1> QED
  BY <1>1, CatalogInvariant, PTL

=============================================================================
