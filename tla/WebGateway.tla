----------------------------- MODULE WebGateway -----------------------------
(***************************************************************************)
(* The web application's own backend: the handlers of                      *)
(* apps/web/src/app/api/[...path]/route.ts that freeze a checkout, decide  *)
(* an authorization, create a provider order and record a payment and its  *)
(* order, over the tables of WebStore.                                     *)
(*                                                                         *)
(* The tables survive a restart; storedOrders is module state and does     *)
(* not.  A handler runs without interruption once it has its body, but     *)
(* each statement commits by itself: a process that dies in the middle     *)
(* leaves a prefix of the handler's writes behind and answers nobody.      *)
(***************************************************************************)
EXTENDS WebStore

CONSTANTS
  Checkouts,      \* checkout ids
  Payments,       \* payment ids, the provider's and the simulator's
  Auths,          \* authorization ids
  Totals,         \* totals a bag may come to, in minor units
  NumberPeriod,   \* order numbers repeat after this many ticks (10^6 ms)
  MaxTime,        \* bound on the clock
  Deaths,         \* may the process die, also in the middle of a handler
  Production,     \* NODE_ENV is "production"
  AllowSim,       \* AGENTPAY_ALLOW_SIM_PAYMENTS is "1"
  None            \* no id

ASSUME GatewayAssumption ==
  /\ Totals \subseteq Nat \ {0}
  /\ NumberPeriod \in Nat \ {0}
  /\ MaxTime \in Nat
  /\ {Deaths, Production, AllowSim} \subseteq BOOLEAN
  /\ None \notin Checkouts \cup Payments \cup Auths
  /\ \A p \in Payments : <<"generated", p>> \notin Checkouts

VARIABLES
  now,           \* the clock
  liveKeys,      \* RAZORPAY_KEY_ID and RAZORPAY_KEY_SECRET are set
  checkouts,     \* table checkout
  auths,         \* table authorization
  payments,      \* table payment
  orders,        \* table "order"
  ledger,        \* table audit_event, as <<event type, aggregate id>>
  storedOrders,  \* the orders confirmed since the process started
  captured,      \* provider: what each captured payment charged, and for what
  issued,        \* history: every order ever confirmed
  told           \* history: order ids answered as confirmed, per payment

gatewayVars == <<now, liveKeys, checkouts, auths, payments, orders, ledger,
                 storedOrders, captured, issued, told>>

Frozen(c) == Row(checkouts, c).total

GatewayInit ==
  /\ now = 0
  /\ liveKeys \in BOOLEAN
  /\ checkouts = {} /\ auths = {} /\ payments = {} /\ orders = {}
  /\ ledger = {}
  /\ storedOrders = {}
  /\ captured = [p \in Payments |-> None]
  /\ issued = {}
  /\ told = [p \in Payments |-> {}]

Tick ==
  /\ now < MaxTime
  /\ now' = now + 1
  /\ UNCHANGED <<liveKeys, checkouts, auths, payments, orders, ledger, storedOrders,
                 captured, issued, told>>

\* The process starts again, perhaps with other keys in its environment.
Restart ==
  /\ Deaths
  /\ storedOrders' = {}
  /\ liveKeys' \in BOOLEAN
  /\ UNCHANGED <<now, checkouts, auths, payments, orders, ledger, captured,
                 issued, told>>

-----------------------------------------------------------------------------
(* Checkouts and authorizations *)

\* POST /api/v1/checkout: the total is read from the catalogue and frozen.
CreateCheckout(c, total) ==
  /\ ~Has(checkouts, c)
  /\ checkouts' = SaveCheckout(checkouts,
                    [id |-> c, total |-> total, status |-> "created"])
  /\ ledger' = ledger \cup {<<"CHECKOUT_CREATED", c>>, <<"PRICE_FROZEN", c>>}
  /\ UNCHANGED <<liveKeys, now, auths, payments, orders, storedOrders,
                 captured, issued, told>>

\* POST /api/v1/authorization: granted at once, whatever the checkout.
CreateAuthorization(a, c) ==
  /\ ~Has(auths, a)
  /\ <<"AUTHORIZATION_GRANTED", a>> \notin ledger
  /\ auths' = SaveAuthorization(auths,
                [id |-> a, checkout |-> c, status |-> "approved"])
  /\ ledger' = ledger \cup {<<"POLICY_EVALUATED", a>>,
                            <<"AUTHORIZATION_GRANTED", a>>,
                            <<"AUTHORIZATION_BOUND", c>>}
  /\ UNCHANGED <<liveKeys, now, checkouts, payments, orders, storedOrders,
                 captured, issued, told>>

\* POST /api/v1/authorization/:id/approve and .../reject
Decide(a, decision) ==
  /\ Has(auths, a)
  /\ auths' = SetStatus(auths, a, decision)
  /\ UNCHANGED <<liveKeys, now, checkouts, payments, orders, ledger, storedOrders,
                 captured, issued, told>>

-----------------------------------------------------------------------------
(* Payments *)

\* Mutated: the amount the request states is taken as it is.
AmountAsStated(c, requested) ==
  IF c = None THEN requested
  ELSE IF Has(checkouts, c) THEN requested ELSE 0

\* authoritativeAmountMinor: the frozen total wins over the amount posted;
\* 0 stands for the refusal.
AuthoritativeAmount(c, requested) ==
  IF c = None THEN requested
  ELSE IF Has(checkouts, c) THEN Frozen(c) ELSE 0

\* A checkout id generated when the request carries none.
CheckoutOf(c, p) == IF c = None THEN <<"generated", p>> ELSE c

\* POST /api/create-order, then the shopper pays and the provider captures
\* what the provider order asked for.  Nothing is written here.
CreateOrderAndPay(p, c, requested) ==
  LET amount == AuthoritativeAmount(c, requested)
  IN  /\ liveKeys
      /\ captured[p] = None /\ ~Has(payments, p)
      /\ amount > 0
      /\ captured' = [captured EXCEPT ![p] = [checkout |-> c, amount |-> amount]]
      /\ UNCHANGED <<liveKeys, now, checkouts, auths, payments, orders, ledger,
                     storedOrders, issued, told>>

\* POST /api/v1/payments: the amount is the one the request states.
CreatePayment(p, c, requested) ==
  /\ ~Has(payments, p) /\ captured[p] = None
  /\ payments' = SavePayment(payments,
                   [id |-> p, checkout |-> c, amount |-> requested,
                    status |-> "verified"])
  /\ ledger' = ledger \cup {<<"PAYMENT_CAPTURED", p>>, <<"PAYMENT_ATTACHED", c>>}
  /\ UNCHANGED <<liveKeys, now, checkouts, auths, orders, storedOrders,
                 captured, issued, told>>

PaymentRow(p, c, amount) ==
  [id |-> p, checkout |-> CheckoutOf(c, p), amount |-> amount,
   status |-> "verified"]

OrderRow(number, p, c, amount) ==
  [id |-> <<"ord", p, Cardinality(issued)>>, number |-> number,
   checkout |-> CheckoutOf(c, p), payment |-> p, amount |-> amount,
   at |-> now, seq |-> Cardinality(issued)]

Trail(p, order) ==
  {<<"PAYMENT_VERIFIED", p>>, <<"ORDER_CONFIRMED", order.id>>}

\* The writes a confirmed payment makes, all of them and an answer.
Settle(p, c, amount, number) ==
  LET order == OrderRow(number, p, c, amount)
  IN  /\ payments' = SavePayment(payments, PaymentRow(p, c, amount))
      /\ orders' = SaveOrder(orders, order)
      /\ ledger' = ledger \cup Trail(p, order)
      /\ storedOrders' = storedOrders \cup {order}
      /\ issued' = issued \cup {order}
      /\ told' = [told EXCEPT ![p] = @ \cup {order.id}]
      /\ UNCHANGED <<liveKeys, now, checkouts, auths, captured>>

\* Mutated: the order is written before its payment.
SettleOrderFirstAndDie(p, c, amount, number, n) ==
  LET order == OrderRow(number, p, c, amount)
  IN  /\ Deaths
      /\ orders' = SaveOrder(orders, order)
      /\ payments' = IF n >= 2 THEN SavePayment(payments, PaymentRow(p, c, amount))
                     ELSE payments
      /\ ledger' = IF n >= 3 THEN ledger \cup {<<"PAYMENT_VERIFIED", p>>}
                   ELSE ledger
      /\ issued' = issued \cup {order}
      /\ storedOrders' = {}
      /\ UNCHANGED <<liveKeys, now, checkouts, auths, captured, told>>

\* The process dies after the first n of them: the payment, its order, the
\* ledger.  Nobody is answered.
SettleAndDie(p, c, amount, number, n) ==
  LET order == OrderRow(number, p, c, amount)
  IN  /\ Deaths
      /\ payments' = SavePayment(payments, PaymentRow(p, c, amount))
      /\ orders' = IF n >= 2 THEN SaveOrder(orders, order) ELSE orders
      /\ ledger' = IF n >= 3 THEN ledger \cup {<<"PAYMENT_VERIFIED", p>>}
                   ELSE ledger
      /\ issued' = IF n >= 2 THEN issued \cup {order} ELSE issued
      /\ storedOrders' = {}
      /\ UNCHANGED <<liveKeys, now, checkouts, auths, captured, told>>

\* ORD- and the last six digits of the clock, for a verified payment.
ShortNumber == <<"short", now % NumberPeriod>>

\* saveOrder's own number carries random digits after the clock's.
LongNumber(p) == <<"long", p>>

\* POST /api/v1/payments/razorpay/verify-signature and /api/verify-payment,
\* delivered once or more for a captured payment: a payment already recorded
\* is answered from the tables, any other is recorded with its order.
ReplayedOrder(p) ==
  LET recent == ListOrders(orders, 200, 0)
      mine == {r \in recent : r.payment = p}
  IN  IF mine = {} THEN None ELSE (CHOOSE r \in mine : TRUE).id

Replay(p) ==
  /\ Has(payments, p)
  /\ told' = [told EXCEPT ![p] = @ \cup {ReplayedOrder(p)}]
  /\ UNCHANGED <<liveKeys, now, checkouts, auths, payments, orders, ledger,
                 storedOrders, captured, issued>>

\* Mutated: recorded means remembered by this process.
RecordedInMemory(p) == \E o \in storedOrders : o.payment = p

Recorded(p) == Has(payments, p)

Verify(p, requested) ==
  /\ captured[p] # None
  /\ ~Recorded(p)
  /\ LET c == captured[p].checkout
         amount == AuthoritativeAmount(c, requested)
     IN  /\ c = None => requested = captured[p].amount
         /\ amount > 0
         /\ \/ Settle(p, c, amount, ShortNumber)
            \/ \E n \in 1..3 : SettleAndDie(p, c, amount, ShortNumber, n)

VerifyAgain(p) == captured[p] # None /\ Replay(p)

\* pay_sim_, the clock and random digits: an id nothing has used yet.
SimulatedId(p) == captured[p] = None /\ ~Has(payments, p)

\* POST /api/v1/payments/razorpay/simulate
Simulate(p, c, requested) ==
  LET amount == AuthoritativeAmount(c, requested)
  IN  /\ ~liveKeys
      /\ SimulatedId(p)
      /\ c # None
      /\ amount > 0
      /\ \/ Settle(p, c, amount, LongNumber(p))
         \/ \E n \in 1..3 : SettleAndDie(p, c, amount, LongNumber(p), n)

\* simulatedPaymentsAllowed
SimulatedPaymentsAllowed == (Production => AllowSim) /\ ~liveKeys

-----------------------------------------------------------------------------
(* Reading *)

\* Mutated: only the table is read.
ReadableRows == orders

\* GET /api/v1/orders/:id
Readable == orders \cup storedOrders

GatewayNext ==
  \/ Tick
  \/ Restart
  \/ \E c \in Checkouts, t \in Totals : CreateCheckout(c, t)
  \/ \E a \in Auths, c \in Checkouts : CreateAuthorization(a, c)
  \/ \E a \in Auths, d \in {"approved", "rejected"} : Decide(a, d)
  \/ \E p \in Payments, c \in Checkouts \cup {None}, t \in Totals :
       CreateOrderAndPay(p, c, t)
  \/ \E p \in Payments, c \in Checkouts, t \in Totals : CreatePayment(p, c, t)
  \/ \E p \in Payments, t \in Totals : Verify(p, t)
  \/ \E p \in Payments : VerifyAgain(p)
  \/ \E p \in Payments, c \in Checkouts, t \in Totals : Simulate(p, c, t)

GatewaySpec == GatewayInit /\ [][GatewayNext]_gatewayVars

-----------------------------------------------------------------------------
(* Properties *)

\* Types.  Rows keep the shape every reader expects.
GatewayTypeOK ==
  /\ now \in 0..MaxTime /\ liveKeys \in BOOLEAN
  /\ checkouts \subseteq [id: Checkouts, total: Totals, status: {"created"}]
  /\ auths \subseteq [id: Auths, checkout: Checkouts,
                      status: {"approved", "rejected"}]
  /\ captured \in [Payments ->
       {None} \cup [checkout: Checkouts \cup {None}, amount: Totals]]
  /\ \A r \in payments : r.id \in Payments /\ r.amount \in Totals
  /\ orders \cup storedOrders \subseteq issued
  /\ \A r \in issued : r.payment \in Payments /\ r.amount \in Totals

\* One captured payment is fulfilled once, however often its verification is
\* delivered and whatever the process lost in between (replayedVerification).
OneOrderPerPayment ==
  \A r, s \in issued : r.payment = s.payment => r = s

\* An order for a frozen checkout is for the frozen total, whatever amount
\* the request stated (authoritativeAmountMinor).
OrderAmountIsFrozen ==
  \A r \in issued :
    \A k \in checkouts : r.checkout = k.id => r.amount = k.total

\* The order of a captured payment is for what the provider charged.
OrderAmountIsCharged ==
  \A r \in issued :
    captured[r.payment] # None => r.amount = captured[r.payment].amount

\* The writes of a settlement are in this order, so that a process that dies
\* never leaves an order without its payment, or a ledger that speaks of a
\* payment that has no row.
NothingAheadOfItsPayment ==
  /\ \A r \in issued : Has(payments, r.payment)
  /\ \A p \in Payments : <<"PAYMENT_VERIFIED", p>> \in ledger =>
       \E r \in issued : r.payment = p

\* While the process that confirmed them lives, answering one shopper never
\* makes the order of another unreadable, even where its row is replaced:
\* storedOrders keeps it.
AnswerKeepsOthersReadable ==
  [][told' # told /\ storedOrders = issued =>
       {r.id : r \in Readable} \subseteq {r.id : r \in Readable'}]_gatewayVars

\* route.ts:246-251: the guard "returns the already-issued result when this
\* payment id has been verified before".
SameAnswer == \A p \in Payments : Cardinality(told[p]) <= 1

\* A delivery answered as verified names the order it was verified into.
VerifiedNamesOrder == \A p \in Payments : None \notin told[p]

\* A decision on an authorization is final (authorizationView reports
\* POLICY_DECISION_FINAL for it; the approve handler grants "a pending" one).
RejectionIsFinal ==
  [][\A r \in auths : r.status = "rejected" =>
       \E s \in auths' : s.id = r.id /\ s.status = "rejected"]_gatewayVars

\* A payment recorded for a frozen checkout is for the frozen total.
PaymentAmountIsFrozen ==
  \A r \in payments :
    \A k \in checkouts : r.checkout = k.id => r.amount = k.total

\* A simulated payment is recorded only where simulated payments are allowed.
SimulatedOnlyWhereAllowed ==
  [][\A r \in issued' \ issued :
       captured[r.payment] = None => SimulatedPaymentsAllowed]_gatewayVars

=============================================================================
