------------------------------ MODULE Commerce ------------------------------
(***************************************************************************)
(* Payments, provider webhooks, orders and the reconciling worker          *)
(* (services/payments/service.py, services/payments/webhooks.py,           *)
(* services/orders/service.py, apps/api/routers/razorpay_checkout.py,      *)
(* apps/worker/main.py) composed with the checkouts, authorizations and    *)
(* stock they act on.                                                      *)
(*                                                                         *)
(* A payment is named by its checkout and the key under which the provider *)
(* deduplicates order creation: the caller's Idempotency-Key, or the       *)
(* checkout itself.  provider_order_id is UNIQUE, so one name is one row.  *)
(***************************************************************************)
EXTENDS Checkout

CONSTANTS
  Keys,         \* keys under which provider orders are created
  CheckoutKey,  \* the key that stands for the checkout identifier
  NoOrder       \* not a key: the checkout has no order

ASSUME CommerceAssumption ==
  /\ CheckoutKey \in Keys
  /\ NoOrder \notin Keys

VARIABLES
  payment,      \* payment.status, per payment ("none": no row)
  order,        \* the payment that confirmed the checkout's order, by its key
  charge,       \* the provider's order for a payment: none, open or paid
  sent,         \* webhook messages the provider has sent and may send again
  event,        \* provider_event.status, per message ("none": no row)
  deadLetter    \* failed_webhook.status, per message ("none": no row)

paymentVars == <<payment, order, charge, sent, event, deadLetter>>
commerceVars == <<inventoryVars, checkoutVars, paymentVars>>

Payments == Checkouts \X Keys
Messages == Payments \X {"captured", "failed"}

PaymentStatuses == {"none", "pending", "verified", "failed"}

CommerceInit ==
  /\ InventoryInit
  /\ CheckoutInit
  /\ payment = [p \in Payments |-> "none"]
  /\ order = [c \in Checkouts |-> NoOrder]
  /\ charge = [p \in Payments |-> "none"]
  /\ sent = {}
  /\ event = [m \in Messages |-> "none"]
  /\ deadLetter = [m \in Messages |-> "none"]

-----------------------------------------------------------------------------
(* Creating a payment *)

\* The provider answers a repeated creation with the order it already has.
ProviderOrder(p) ==
  charge' = [charge EXCEPT ![p] = IF @ = "none" THEN "open" ELSE @]

\* Steps 6 to 10 of create_payment: the row is inserted, the provider creates
\* the order, and only then is the approval consumed.
PaymentCreated(p) ==
  /\ payment[p] = "none"
  /\ ProviderOrder(p)
  /\ payment' = [payment EXCEPT ![p] = PaymentAfter("PROVIDER_ORDER_CREATED")]
  /\ auth' = [auth EXCEPT ![p[1]] = "consumed"]

\* What create_payment asks for before it contacts the provider, in the row it
\* has locked and in the approval.
PaymentAdmitted(c) ==
  /\ checkout[c] \notin {"none", "cancelled", "expired"} /\ c \notin expired
  /\ auth[c] = "approved" /\ c \notin lapsed

\* create_payment called by a request that has read nothing before.  A repeat
\* of a key whose payment exists is answered from the idempotency record.
CreatePayment(w, p) ==
  /\ tx[w] = Idle
  /\ PaymentAdmitted(p[1])
  /\ PaymentCreated(p)
  /\ UNCHANGED <<checkout, expired, lapsed, tx, inventoryVars,
                 order, sent, event, deadLetter>>

\* The provider creates the order and the answer is lost, or the transaction
\* fails after it: only the provider remembers.
CreatePaymentTimesOut(w, p) ==
  /\ tx[w] = Idle
  /\ PaymentAdmitted(p[1])
  /\ payment[p] = "none" /\ charge[p] = "none"
  /\ ProviderOrder(p)
  /\ UNCHANGED <<checkoutVars, inventoryVars, payment, order, sent, event, deadLetter>>

\* create_razorpay_order for a checkout that exists: it reads the checkout and
\* its authorization before create_payment takes the lock, and the reads that
\* follow in the session refresh neither.  Any authorization but an approval,
\* or none, is refused and rolled back.
BeginPayNow(w, c) ==
  /\ tx[w] = Idle
  /\ checkout[c] \notin {"none", "cancelled", "expired", "completed"}
  /\ auth[c] \in {"none", "approved"}
  /\ tx' = [tx EXCEPT ![w] = [op |-> "paynow", c |-> c, chk |-> checkout[c], ath |-> auth[c]]]
  /\ UNCHANGED <<checkout, auth, expired, lapsed, inventoryVars, paymentVars>>

\* With the approval that was read the payment is created, whatever has become
\* of it since; with none the policy may grant one on the way, unless another
\* request has inserted one meanwhile (checkout_id is UNIQUE).
FinishPayNow(w) ==
  LET c == tx[w].c
  IN  /\ Running(w, "paynow")
      /\ c \notin expired /\ c \notin lapsed
      /\ \/ tx[w].ath = "approved" /\ UNCHANGED checkout
         \/ /\ tx[w].ath = "none" /\ auth[c] = "none"
            /\ CheckoutCan(tx[w].chk, "USE_EXISTING_AUTHORIZATION")
            /\ checkout' = [checkout EXCEPT ![c] = CheckoutAfter("USE_EXISTING_AUTHORIZATION")]
      /\ PaymentCreated(<<c, CheckoutKey>>)
      /\ Commits(w)
      /\ UNCHANGED <<expired, lapsed, inventoryVars, order, sent, event, deadLetter>>

\* create_razorpay_order and get_razorpay_checkout_url without a checkout: the
\* checkout, its approval and the payment appear in one transaction.
BuyNow(w, c) ==
  /\ tx[w] = Idle
  /\ checkout[c] = "none"
  /\ ReserveStock(c)
  /\ checkout' = [checkout EXCEPT ![c] = CheckoutAfter("USE_EXISTING_AUTHORIZATION")]
  /\ PaymentCreated(<<c, CheckoutKey>>)
  /\ UNCHANGED <<expired, lapsed, tx, order, sent, event, deadLetter>>

-----------------------------------------------------------------------------
(* The provider *)

\* The buyer pays the order; the provider reports the capture, any number of
\* times, from now on.
BuyerPays(p) ==
  /\ payment[p] # "none" /\ charge[p] = "open"
  /\ charge' = [charge EXCEPT ![p] = "paid"]
  /\ sent' = sent \cup {<<p, "captured">>}
  /\ UNCHANGED <<inventoryVars, checkoutVars, payment, order, event, deadLetter>>

\* An attempt to pay is declined and reported; the order stays open.
AttemptFails(p) ==
  /\ payment[p] # "none" /\ charge[p] = "open"
  /\ <<p, "failed">> \notin sent
  /\ sent' = sent \cup {<<p, "failed">>}
  /\ UNCHANGED <<inventoryVars, checkoutVars, payment, order, charge, event, deadLetter>>

-----------------------------------------------------------------------------
(* Verifying a payment *)

\* The transaction that verifies or fails payment p, having read its row.  A
\* webhook carries the message it answers; a buyer's callback carries none.
Verifying(p, via) == [op |-> "verify", pay |-> p, via |-> via, paid |-> payment[p]]

FailingPayment(p) == [op |-> "fail", pay |-> p, via |-> "webhook", paid |-> payment[p]]

\* The message whose event row a transaction has inserted and not committed.
Answering(w) ==
  CASE tx[w].op = "verify" -> IF tx[w].via = "webhook" THEN {<<tx[w].pay, "captured">>} ELSE {}
    [] tx[w].op \in {"fail", "failing"} -> {<<tx[w].pay, "failed">>}
    [] OTHER -> {}

\* process_webhook up to the handlers: the message is new, and a second
\* delivery waits on the row the first one has inserted.
NewMessage(m) ==
  /\ m \in sent /\ event[m] = "none"
  /\ \A w \in Workers : m \notin Answering(w)

Opens(w, record) ==
  /\ tx[w] = Idle
  /\ tx' = [tx EXCEPT ![w] = record]
  /\ UNCHANGED <<inventoryVars, checkout, auth, expired, lapsed, paymentVars>>

BeginWebhookVerify(w, p) ==
  NewMessage(<<p, "captured">>) /\ Opens(w, Verifying(p, "webhook"))

\* verify_razorpay_payment: the buyer's browser returns with the signed ids.
BeginCallbackVerify(w, p) ==
  payment[p] # "none" /\ Opens(w, Verifying(p, "callback"))

BeginWebhookFail(w, p) ==
  NewMessage(<<p, "failed">>) /\ Opens(w, FailingPayment(p))

\* The event row says what became of a webhook; a raised error leaves it as it
\* was received and queues the message.
Processed(w, m) ==
  /\ event' = IF tx[w].via = "webhook" THEN [event EXCEPT ![m] = "processed"] ELSE event
  /\ UNCHANGED deadLetter

DeadLettered(w, m) ==
  /\ tx[w].via = "webhook"
  /\ event' = [event EXCEPT ![m] = "received"]
  /\ deadLetter' = [deadLetter EXCEPT ![m] = "pending"]

\* Mutated: an order of another payment is replaced.
ConfirmableAlways(p) == p \in Payments

\* confirm_order: one order per checkout, by whichever payment came first.
Confirmable(p) == order[p[1]] \in {NoOrder, p[2]}

ConfirmOrder(p) == order' = [order EXCEPT ![p[1]] = p[2]]

\* Mutated: a signed callback is believed without asking the provider.
GatePassesOnSignature(w) == tx[w].paid = "pending"

\* The row that was read can still be verified and the provider confirms that
\* the money was captured.
GatePasses(w) == tx[w].paid = "pending" /\ charge[tx[w].pay] = "paid"

Pays(p) == payment' = [payment EXCEPT ![p] = PaymentAfter("VERIFY_PAYMENT")]

Completes(c) == checkout' = [checkout EXCEPT ![c] = CheckoutAfter("COMPLETE_ORDER")]

Unchecked == UNCHANGED <<auth, expired, lapsed, charge, sent>>

\* The payment was verified before: only its order is looked at.
VerifyAgain(w) ==
  LET p == tx[w].pay
  IN  /\ Running(w, "verify") /\ tx[w].paid = "verified"
      /\ Confirmable(p) /\ ConfirmOrder(p)
      /\ Processed(w, <<p, "captured">>) /\ Commits(w)
      /\ Unchecked /\ UNCHANGED <<checkout, payment, inventoryVars>>

\* Mutated: the checkout is not moved.
VerifyWithoutCompleting(w) ==
  LET p == tx[w].pay
  IN  /\ Running(w, "verify") /\ GatePasses(w) /\ Confirmable(p)
      /\ CheckoutCan(checkout[p[1]], "COMPLETE_ORDER")
      /\ Pays(p) /\ CommitStock(p[1]) /\ ConfirmOrder(p)
      /\ Processed(w, <<p, "captured">>) /\ Commits(w)
      /\ Unchecked /\ UNCHANGED checkout

\* The checkout row is read under its lock, so this sees what is committed.
VerifyAndConfirm(w) ==
  LET p == tx[w].pay
  IN  /\ Running(w, "verify") /\ GatePasses(w) /\ Confirmable(p)
      /\ CheckoutCan(checkout[p[1]], "COMPLETE_ORDER")
      /\ Pays(p) /\ Completes(p[1]) /\ CommitStock(p[1]) /\ ConfirmOrder(p)
      /\ Processed(w, <<p, "captured">>) /\ Commits(w)
      /\ Unchecked

\* Another delivery of the same capture completed the checkout meanwhile.
VerifyCompleted(w) ==
  LET p == tx[w].pay
  IN  /\ Running(w, "verify") /\ GatePasses(w) /\ Confirmable(p)
      /\ checkout[p[1]] = "completed"
      /\ Pays(p) /\ ConfirmOrder(p)
      /\ Processed(w, <<p, "captured">>) /\ Commits(w)
      /\ Unchecked /\ UNCHANGED <<checkout, inventoryVars>>

\* Refused before anything is written: the payment failed, the checkout is
\* dead or has another order, or the provider does not confirm the capture,
\* which may happen at any time because it may be out of reach.
VerifyRefused(w) ==
  LET m == <<tx[w].pay, "captured">>
  IN  /\ Running(w, "verify")
      /\ DeadLettered(w, m) /\ Commits(w)
      /\ UNCHANGED <<inventoryVars, checkout, auth, expired, lapsed,
                     payment, order, charge, sent>>

\* An error raised after the payment was marked verified.  A callback rolls it
\* back (Abort); the webhook's handler catches it and commits what is there.
VerifyHalfDone(w) ==
  LET p == tx[w].pay
      c == p[1]
  IN  /\ Running(w, "verify") /\ GatePasses(w)
      /\ Pays(p)
      /\ \/ /\ checkout[c] \notin {"cancelled", "expired", "completed"}
            /\ ~CheckoutCan(checkout[c], "COMPLETE_ORDER")
            /\ UNCHANGED <<checkout, inventoryVars>>
         \/ /\ CheckoutCan(checkout[c], "COMPLETE_ORDER")
            /\ Completes(c)
            /\ \/ CommitRaises(c) /\ UNCHANGED inventoryVars
               \/ ~Confirmable(p) /\ CommitStock(c)
      /\ DeadLettered(w, <<p, "captured">>) /\ Commits(w)
      /\ Unchecked /\ UNCHANGED order

-----------------------------------------------------------------------------
(* Failing a payment *)

TerminalStatuses == {"cancelled", "expired", "completed"}

\* fail_payment reads the checkout after the payment, without a lock.
FailReadsCheckout(w) ==
  /\ Running(w, "fail")
  /\ PaymentCan(tx[w].paid, "FAIL_PAYMENT")
  /\ tx' = [tx EXCEPT ![w] = [op |-> "failing", pay |-> @.pay, via |-> @.via,
                              chk |-> checkout[@.pay[1]]]]
  /\ UNCHANGED <<inventoryVars, checkout, auth, expired, lapsed, paymentVars>>

\* The payment can no longer fail: nothing is written but the queue.
FailRefused(w) ==
  /\ Running(w, "fail")
  /\ ~PaymentCan(tx[w].paid, "FAIL_PAYMENT")
  /\ DeadLettered(w, <<tx[w].pay, "failed">>) /\ Commits(w)
  /\ UNCHANGED <<inventoryVars, checkout, auth, expired, lapsed,
                 payment, order, charge, sent>>

Fails(p) == payment' = [payment EXCEPT ![p] = PaymentAfter("FAIL_PAYMENT")]

FinishFail(w) ==
  LET p == tx[w].pay
      c == p[1]
      m == <<p, "failed">>
  IN  /\ Running(w, "failing")
      /\ Fails(p)
      /\ \/ /\ tx[w].chk \in TerminalStatuses
            /\ Processed(w, m)
            /\ UNCHANGED <<checkout, inventoryVars>>
         \/ /\ tx[w].chk \notin TerminalStatuses
            /\ ReleaseStock(c)
            /\ \/ /\ CheckoutCan(tx[w].chk, "FAIL_PAYMENT")
                  /\ checkout' = [checkout EXCEPT ![c] = CheckoutAfter("FAIL_PAYMENT")]
                  /\ Processed(w, m)
               \/ /\ ~CheckoutCan(tx[w].chk, "FAIL_PAYMENT")
                  /\ DeadLettered(w, m)
                  /\ UNCHANGED checkout
      /\ Commits(w)
      /\ Unchecked /\ UNCHANGED order

-----------------------------------------------------------------------------
(* Worker *)

\* _reconcile_stale_webhooks: process_webhook finds the event row the first
\* delivery left, answers already_processed, and the entry is resolved.
Reconcile(m) ==
  /\ deadLetter[m] = "pending" /\ event[m] # "none"
  /\ deadLetter' = [deadLetter EXCEPT ![m] = "resolved"]
  /\ UNCHANGED <<inventoryVars, checkoutVars, payment, order, charge, sent, event>>

-----------------------------------------------------------------------------
\* A step of the checkout component leaves everything of the payments alone.
CheckoutStep ==
  /\ UNCHANGED paymentVars
  /\ \/ \E c \in Checkouts : CreateCheckout(c) \/ Expire(c) \/ Lapse(c) \/ Sweep(c)
     \/ \E w \in Workers, c \in Checkouts :
          BeginCancel(w, c) \/ BeginRequest(w, c) \/ BeginApprove(w, c) \/ BeginReject(w, c)
     \/ \E w \in Workers :
          \/ FinishCancel(w) \/ FinishApprove(w) \/ FinishReject(w) \/ Abort(w)
          \/ FinishRequest(w, "USE_EXISTING_AUTHORIZATION", "approved")
          \/ FinishRequest(w, "REQUIRE_APPROVAL", "pending")

PaymentStep ==
  \/ \E w \in Workers, p \in Payments :
       \/ CreatePayment(w, p) \/ CreatePaymentTimesOut(w, p)
       \/ BeginWebhookVerify(w, p) \/ BeginCallbackVerify(w, p) \/ BeginWebhookFail(w, p)
  \/ \E w \in Workers, c \in Checkouts : BeginPayNow(w, c) \/ BuyNow(w, c)
  \/ \E p \in Payments : BuyerPays(p) \/ AttemptFails(p)
  \/ \E w \in Workers :
       \/ FinishPayNow(w)
       \/ VerifyAgain(w) \/ VerifyAndConfirm(w) \/ VerifyCompleted(w)
       \/ VerifyRefused(w) \/ VerifyHalfDone(w)
       \/ FailReadsCheckout(w) \/ FailRefused(w) \/ FinishFail(w)
  \/ \E m \in Messages : Reconcile(m)

\* The catalogue import runs beside everything else.
ImportStep == Import /\ UNCHANGED <<checkoutVars, paymentVars>>

CommerceNext == CheckoutStep \/ PaymentStep \/ ImportStep

CommerceSpec == CommerceInit /\ [][CommerceNext]_commerceVars

\* The sweep is a scheduled job that survives its own failures, and it skips
\* only rows another transaction holds at that moment.
SweepFairness == \A c \in Checkouts : WF_commerceVars(Sweep(c) /\ UNCHANGED paymentVars)

FairCommerceSpec == CommerceSpec /\ SweepFairness

-----------------------------------------------------------------------------
(* Properties *)

\* What a transaction can have read when it commits.
Transactions ==
  [op : {"cancel", "request", "approve", "reject"},
     c : Checkouts, chk : CheckoutStatuses \ {"none"}]
  \cup [op : {"paynow"}, c : Checkouts, chk : CheckoutStatuses \ {"none"},
          ath : {"none", "approved"}]
  \cup [op : {"verify"}, pay : Payments, via : {"webhook", "callback"},
          paid : PaymentStatuses \ {"none"}]
  \cup [op : {"fail"}, pay : Payments, via : {"webhook"}, paid : PaymentStatuses \ {"none"}]
  \cup [op : {"failing"}, pay : Payments, via : {"webhook"},
          chk : CheckoutStatuses \ {"none"}]

\* Every row has a status the code knows and every open transaction has read
\* rows that exist.
CommerceTypeOK ==
  /\ InventoryTypeOK
  /\ checkout \in [Checkouts -> CheckoutStatuses]
  /\ auth \in [Checkouts -> AuthStatuses]
  /\ expired \subseteq Checkouts /\ lapsed \subseteq Checkouts
  /\ tx \in [Workers -> {Idle} \cup Transactions]
  /\ payment \in [Payments -> PaymentStatuses]
  /\ order \in [Checkouts -> Keys \cup {NoOrder}]
  /\ charge \in [Payments -> {"none", "open", "paid"}]
  /\ sent \subseteq Messages
  /\ event \in [Messages -> {"none", "received", "processed"}]
  /\ deadLetter \in [Messages -> {"none", "pending", "resolved"}]

\* A hold belongs to a checkout the sweep selects: whatever order cancels,
\* approvals, failures and expiries overwrite each other in, none of them
\* leaves a held reservation behind a checkout no job will ever look at
\* (apps/worker/main.py, "kept its hold forever").
HeldIsSweepable ==
  \A c \in Checkouts : hold[c] = "held" => checkout[c] \in SweptStatuses

\* An order was confirmed by a payment whose money the provider holds, also
\* when the payment was already marked verified (verify_payment's gate).
OrderBackedByCapture ==
  \A c \in Checkouts : order[c] # NoOrder => charge[<<c, order[c]>>] = "paid"

\* Stock leaves the shelf only for money: a committed reservation has a capture.
SaleBackedByCapture ==
  \A c \in Checkouts :
    hold[c] = "committed" => \E k \in Keys : charge[<<c, k>>] = "paid"

\* Neither an order nor sold stock without money, whatever overlaps.
MoneyBehindGoods == OrderBackedByCapture /\ SaleBackedByCapture

\* A confirmed order is never replaced or lost, whatever webhooks, callbacks
\* and repeats arrive and in whatever order (confirm_order).
OrderIsFinal ==
  [][\A c \in Checkouts : order[c] # NoOrder => order'[c] = order[c]]_commerceVars

\* A reservation settles once: sold stock is never given back by a late
\* failure, cancel or expiry, and freed stock is never sold.
HoldsSettleOnce ==
  [][\A c \in Checkouts :
       hold[c] \in {"released", "committed"} => hold'[c] = hold[c]]_commerceVars

\* A webhook message is answered for good the first time it is committed; of
\* two simultaneous deliveries one finds the other's row (process_webhook).
DeliveredOnce ==
  [][\A m \in Messages : event[m] # "none" => event'[m] = event[m]]_commerceVars

\* A confirmed order stands on a completed checkout, a verified payment and
\* sold stock.  Holds when requests do not overlap one another.
ConfirmedIsSettled ==
  \A c \in Checkouts : order[c] # NoOrder =>
    /\ checkout[c] = "completed"
    /\ payment[<<c, order[c]>>] = "verified"
    /\ hold[c] = "committed"

\* A verified payment has its order: nothing is charged and forgotten.  Holds
\* when requests do not overlap one another.
VerifiedIsConfirmed ==
  \A c \in Checkouts, k \in Keys : payment[<<c, k>>] = "verified" => order[c] = k

\* A checkout that is alive and in time holds its stock, so a buyer who is
\* asked to pay can be served.  Holds when requests do not overlap one another.
LiveHoldsStock ==
  \A c \in Checkouts :
    checkout[c] \in SweptStatuses /\ c \notin expired => hold[c] = "held"

\* A checkout has at most one payment that the buyer can pay.  Holds when
\* requests do not overlap one another.
OnePaymentPerCheckout ==
  \A c \in Checkouts, k, l \in Keys :
    payment[<<c, k>>] # "none" /\ payment[<<c, l>>] # "none" => k = l

\* The rows of a checkout agree with one another when requests do not
\* overlap: whatever jobs, webhooks and deadlines come between their steps.
RowsAgree ==
  ConfirmedIsSettled /\ VerifiedIsConfirmed /\ LiveHoldsStock /\ OnePaymentPerCheckout

\* A completed checkout is never overwritten: the sale it stands for is made
\* (docs/state-machine.md, ORDER_CONFIRMED; cancel_checkout).
CompletedIsFinal ==
  [][\A c \in Checkouts :
       checkout[c] = "completed" => checkout'[c] = "completed"]_commerceVars

\* A cancelled or expired checkout never comes back to life
\* (docs/state-machine.md, CANCELLED and EXPIRED).
DeadStaysDead ==
  [][\A c \in Checkouts :
       checkout[c] \in {"cancelled", "expired"} =>
         checkout'[c] \in {"cancelled", "expired"}]_commerceVars

\* A dead-lettered capture is resolved only once its payment is verified.
ResolvedIsVerified ==
  \A p \in Payments :
    deadLetter[<<p, "captured">>] = "resolved" => payment[p] = "verified"

\* A dead checkout never gets an order (verify_payment).
NoOrderForDead ==
  [][\A c \in Checkouts :
       order'[c] # order[c] => checkout[c] \notin {"cancelled", "expired"}]_commerceVars

\* Stock held by a checkout that ran out of time is given back or sold: it is
\* never held for ever.
StaleHoldsEnd ==
  \A c \in Checkouts : c \in expired /\ hold[c] = "held" ~> hold[c] # "held"

=============================================================================
