--------------------------- MODULE CommerceProofs ---------------------------
(***************************************************************************)
(* What the interleaved requests, webhooks and jobs keep, for every set of *)
(* offers, checkouts, workers and payment keys.                            *)
(***************************************************************************)
EXTENDS Commerce, Refunds, InventoryProofs

-----------------------------------------------------------------------------
(* What the table says *)

\* The status each event of the services stores in a checkout row.
LEMMA CheckoutAfterEvents ==
  /\ CheckoutAfter("CANCEL_CHECKOUT") = "cancelled"
  /\ CheckoutAfter("REJECT_AUTHORIZATION") = "cancelled"
  /\ CheckoutAfter("EXPIRE_CHECKOUT") = "expired"
  /\ CheckoutAfter("USE_EXISTING_AUTHORIZATION") = "authorized"
  /\ CheckoutAfter("REQUIRE_APPROVAL") = "authorization_pending"
  /\ CheckoutAfter("APPROVE_AUTHORIZATION") = "authorized"
  /\ CheckoutAfter("COMPLETE_ORDER") = "completed"
  /\ CheckoutAfter("FAIL_PAYMENT") = "payment_failed"
BY DEF CheckoutAfter, Rule, CheckoutStatus

\* The status each event of the services stores in a payment row.
LEMMA PaymentAfterEvents ==
  /\ PaymentAfter("PROVIDER_ORDER_CREATED") = "pending"
  /\ PaymentAfter("VERIFY_PAYMENT") = "verified"
  /\ PaymentAfter("FAIL_PAYMENT") = "failed"
BY DEF PaymentAfter, Rule, PaymentStatus

\* The statuses a checkout row may have.
LEMMA CheckoutStatusNames ==
  CheckoutStatuses = {"none", "created", "authorization_pending", "authorized",
                      "completed", "cancelled", "expired", "payment_failed"}
BY DEF CheckoutStatuses, CheckoutState

-----------------------------------------------------------------------------
(* Open transactions *)

\* The transactions that have read a checkout, and those about a payment.
CheckoutOps == {"cancel", "request", "approve", "reject", "paynow"}

\* What the fields of an open transaction are, by its operation.
LEMMA TransactionFields ==
  ASSUME CommerceTypeOK, NEW w \in Workers
  PROVE  /\ tx[w].op \in CheckoutOps =>
              tx[w].c \in Checkouts /\ tx[w].chk \in CheckoutStatuses \ {"none"}
         /\ tx[w].op \in {"verify", "fail", "failing"} =>
              tx[w].pay \in Payments /\ tx[w].via \in {"webhook", "callback"}
         /\ tx[w].op \in {"fail", "failing"} => tx[w].via = "webhook"
         /\ tx[w].op \in {"verify", "fail"} => tx[w].paid \in PaymentStatuses \ {"none"}
         /\ tx[w].op = "failing" => tx[w].chk \in CheckoutStatuses \ {"none"}
<1>1. tx[w] = Idle \/ tx[w] \in Transactions
  BY DEF CommerceTypeOK
<1> QED
  BY <1>1 DEF Transactions, Idle, CheckoutOps

\* A payment is of a checkout and under a key.
LEMMA PaymentParts ==
  ASSUME NEW p \in Payments
  PROVE  p[1] \in Checkouts /\ p[2] \in Keys /\ p = <<p[1], p[2]>>
BY DEF Payments

-----------------------------------------------------------------------------
(* The stock, seen from the whole system *)

\* Every step of the system is a step of the stock counters, or leaves them.
LEMMA CommerceStepsInventory ==
  ASSUME CommerceTypeOK, [CommerceNext]_commerceVars
  PROVE  [InventoryNext]_inventoryVars
<1>1. \A w \in Workers :
        /\ tx[w].op \in CheckoutOps => tx[w].c \in Checkouts
        /\ tx[w].op \in {"verify", "failing"} => tx[w].pay[1] \in Checkouts
  BY TransactionFields, PaymentParts
<1>2. CASE UNCHANGED commerceVars
  BY <1>2 DEF commerceVars
<1>3. CASE CheckoutStep
  <2>1. CASE UNCHANGED inventoryVars
    BY <2>1
  <2>2. ASSUME NEW c \in Checkouts, CreateCheckout(c) PROVE InventoryNext
    BY <2>2 DEF CreateCheckout, InventoryNext
  <2>3. ASSUME NEW c \in Checkouts, Sweep(c) PROVE [InventoryNext]_inventoryVars
    BY <2>3 DEF Sweep, ReleaseStock, InventoryNext
  <2>4. ASSUME NEW w \in Workers, FinishCancel(w) \/ FinishReject(w)
        PROVE  [InventoryNext]_inventoryVars
    BY <1>1, <2>4 DEF FinishCancel, FinishReject, Running, CheckoutOps, ReleaseStock,
                      InventoryNext
  <2> QED
    BY <1>3, <2>2, <2>3, <2>4
    DEF CheckoutStep, Expire, Lapse, BeginCancel, BeginRequest, BeginApprove, BeginReject,
        Begin, FinishApprove, Abort, FinishRequest
<1>4. CASE PaymentStep
  <2>1. ASSUME NEW w \in Workers, NEW c \in Checkouts, BuyNow(w, c) PROVE InventoryNext
    BY <2>1 DEF BuyNow, InventoryNext
  <2>2. ASSUME NEW w \in Workers, VerifyAndConfirm(w) \/ VerifyHalfDone(w)
        PROVE  [InventoryNext]_inventoryVars
    BY <1>1, <2>2 DEF VerifyAndConfirm, VerifyHalfDone, Running, CommitStock, InventoryNext
  <2>3. ASSUME NEW w \in Workers, FinishFail(w) PROVE [InventoryNext]_inventoryVars
    BY <1>1, <2>3 DEF FinishFail, Running, ReleaseStock, InventoryNext
  <2> QED
    BY <1>4, <2>1, <2>2, <2>3
    DEF PaymentStep, CreatePayment, CreatePaymentTimesOut, BeginWebhookVerify,
        BeginCallbackVerify, BeginWebhookFail, Opens, BeginPayNow, Begin, BuyerPays,
        AttemptFails, FinishPayNow, VerifyAgain, VerifyCompleted, VerifyRefused,
        FailReadsCheckout, FailRefused, Reconcile
<1>5. CASE ImportStep
  BY <1>5 DEF ImportStep, InventoryNext
<1> QED
  BY <1>2, <1>3, <1>4, <1>5 DEF CommerceNext

-----------------------------------------------------------------------------
(* The rows *)

\* CommerceTypeOK but for the stock: what the rows outside the inventory are.
RowsOK ==
  /\ checkout \in [Checkouts -> CheckoutStatuses]
  /\ auth \in [Checkouts -> AuthStatuses]
  /\ expired \subseteq Checkouts /\ lapsed \subseteq Checkouts
  /\ tx \in [Workers -> {Idle} \cup Transactions]
  /\ payment \in [Payments -> PaymentStatuses]
  /\ order \in [Checkouts -> Keys \cup {NoOrder}]
  /\ charge \in [Payments -> {"none", "open", "paid"}]
  /\ sent \subseteq Messages
  /\ event \in [Messages -> {"none", "received", "processed"}]
  /\ deadLetter \in [Messages -> {"none", "pending", "resolved"}]

\* Rows refer to rows that exist, and so do messages and transactions: what the
\* foreign keys of the schema and the order of the requests ensure together.
ReferencesExist ==
  /\ \A c \in Checkouts : auth[c] # "none" => checkout[c] # "none"
  /\ \A p \in Payments : payment[p] # "none" => checkout[p[1]] # "none"
  /\ \A m \in sent : payment[m[1]] # "none"
  /\ \A w \in Workers : tx[w].op \in {"verify", "fail", "failing"} => payment[tx[w].pay] # "none"
  /\ \A w \in Workers : tx[w].op = "paynow" => checkout[tx[w].c] # "none"

\* A request that has read a checkout row is a transaction.
LEMMA RowsBegin ==
  ASSUME CommerceTypeOK, NEW w \in Workers, NEW c \in Checkouts,
         NEW op \in CheckoutOps \ {"paynow"},
         checkout[c] # "none", Begin(w, op, c), UNCHANGED paymentVars
  PROVE  RowsOK'
<1>1. [op |-> op, c |-> c, chk |-> checkout[c]] \in Transactions
  BY DEF Transactions, CheckoutOps, CommerceTypeOK
<1> QED
  BY <1>1 DEF RowsOK, Begin, CommerceTypeOK, paymentVars

\* A step of a checkout or of its authorization keeps the rows well formed.
LEMMA RowsCheckoutStep ==
  ASSUME CommerceTypeOK, ReferencesExist, CheckoutStep
  PROVE  RowsOK'
<1> USE DEF CommerceTypeOK, RowsOK, paymentVars, AuthStatuses, Commits
<1>0. UNCHANGED paymentVars
  BY DEF CheckoutStep
<1>1. ASSUME NEW c \in Checkouts, CreateCheckout(c) PROVE RowsOK'
  BY <1>0, <1>1, CheckoutStatusNames DEF CreateCheckout
<1>2. ASSUME NEW c \in Checkouts, Expire(c) \/ Lapse(c) PROVE RowsOK'
  BY <1>0, <1>2 DEF Expire, Lapse
<1>3. ASSUME NEW c \in Checkouts, Sweep(c) PROVE RowsOK'
  BY <1>0, <1>3, CheckoutStatusNames, CheckoutAfterEvents DEF Sweep
<1>4. ASSUME NEW w \in Workers, NEW c \in Checkouts,
             BeginCancel(w, c) \/ BeginRequest(w, c) \/ BeginApprove(w, c) \/ BeginReject(w, c)
      PROVE  RowsOK'
  <2>1. checkout[c] # "none"
    BY <1>4 DEF BeginCancel, BeginRequest, Requestable, BeginApprove, BeginReject,
                ReferencesExist
  <2> QED
    BY <1>0, <1>4, <2>1, RowsBegin
    DEF BeginCancel, BeginRequest, BeginApprove, BeginReject, CheckoutOps
<1>5. ASSUME NEW w \in Workers, FinishCancel(w) PROVE RowsOK'
  BY <1>0, <1>5, CheckoutStatusNames, CheckoutAfterEvents DEF FinishCancel
<1>6. ASSUME NEW w \in Workers, FinishApprove(w) PROVE RowsOK'
  BY <1>0, <1>6, CheckoutStatusNames, CheckoutAfterEvents DEF FinishApprove
<1>7. ASSUME NEW w \in Workers, FinishReject(w) PROVE RowsOK'
  BY <1>0, <1>7, CheckoutStatusNames, CheckoutAfterEvents DEF FinishReject
<1>8. ASSUME NEW w \in Workers, Abort(w) PROVE RowsOK'
  BY <1>0, <1>8 DEF Abort
<1>9. ASSUME NEW w \in Workers,
             \/ FinishRequest(w, "USE_EXISTING_AUTHORIZATION", "approved")
             \/ FinishRequest(w, "REQUIRE_APPROVAL", "pending")
      PROVE  RowsOK'
  BY <1>0, <1>9, CheckoutStatusNames, CheckoutAfterEvents DEF FinishRequest
<1> QED
  BY <1>1, <1>2, <1>3, <1>4, <1>5, <1>6, <1>7, <1>8, <1>9 DEF CheckoutStep

\* A transaction that begins about a payment that exists is well formed.
LEMMA RowsOpens ==
  ASSUME CommerceTypeOK, NEW w \in Workers, NEW record \in Transactions, Opens(w, record)
  PROVE  RowsOK'
BY DEF CommerceTypeOK, RowsOK, Opens, paymentVars

\* A step of a payment keeps the rows well formed.
LEMMA RowsPaymentStep ==
  ASSUME CommerceTypeOK, ReferencesExist, PaymentStep
  PROVE  RowsOK'
<1> USE DEF CommerceTypeOK, RowsOK, checkoutVars, AuthStatuses, PaymentStatuses, Commits,
            Unchecked
<1>1. ASSUME NEW w \in Workers, NEW p \in Payments, CreatePayment(w, p) PROVE RowsOK'
  BY <1>1, PaymentParts, PaymentAfterEvents DEF CreatePayment, PaymentCreated, ProviderOrder
<1>2. ASSUME NEW w \in Workers, NEW p \in Payments, CreatePaymentTimesOut(w, p) PROVE RowsOK'
  BY <1>2 DEF CreatePaymentTimesOut, ProviderOrder
<1>3. ASSUME NEW w \in Workers, NEW p \in Payments,
             \/ BeginWebhookVerify(w, p)
             \/ BeginCallbackVerify(w, p)
             \/ BeginWebhookFail(w, p)
      PROVE  RowsOK'
  <2>1. payment[p] # "none"
    BY <1>3 DEF BeginWebhookVerify, BeginCallbackVerify, BeginWebhookFail, NewMessage,
                ReferencesExist
  <2>2. /\ \A via \in {"webhook", "callback"} : Verifying(p, via) \in Transactions
        /\ FailingPayment(p) \in Transactions
    BY <2>1 DEF Verifying, FailingPayment, Transactions
  <2> QED
    BY <1>3, <2>2, RowsOpens DEF BeginWebhookVerify, BeginCallbackVerify, BeginWebhookFail
<1>4. ASSUME NEW w \in Workers, NEW c \in Checkouts, BeginPayNow(w, c) PROVE RowsOK'
  <2>1. [op |-> "paynow", c |-> c, chk |-> checkout[c], ath |-> auth[c]] \in Transactions
    BY <1>4 DEF BeginPayNow, Transactions, CommerceTypeOK
  <2> QED
    BY <1>4, <2>1 DEF BeginPayNow, RowsOK, CommerceTypeOK, paymentVars
<1>5. ASSUME NEW w \in Workers, NEW c \in Checkouts, BuyNow(w, c) PROVE RowsOK'
  BY <1>5, CheckoutStatusNames, CheckoutAfterEvents, PaymentAfterEvents, CommerceAssumption
  DEF BuyNow, PaymentCreated, ProviderOrder, Payments
<1>6. ASSUME NEW p \in Payments, BuyerPays(p) \/ AttemptFails(p) PROVE RowsOK'
  BY <1>6 DEF BuyerPays, AttemptFails, Messages
<1>7. ASSUME NEW w \in Workers, FinishPayNow(w) PROVE RowsOK'
  <2>1. tx[w].c \in Checkouts
    BY <1>7, TransactionFields DEF FinishPayNow, Running, CheckoutOps
  <2> QED
    BY <1>7, <2>1, CheckoutStatusNames, CheckoutAfterEvents, PaymentAfterEvents,
       CommerceAssumption
    DEF FinishPayNow, PaymentCreated, ProviderOrder, Payments
<1>8. ASSUME NEW w \in Workers,
             VerifyAgain(w) \/ VerifyAndConfirm(w) \/ VerifyCompleted(w)
      PROVE  RowsOK'
  <2>1. tx[w].pay[2] \in Keys
    BY <1>8, TransactionFields, PaymentParts
    DEF VerifyAgain, VerifyAndConfirm, VerifyCompleted, Running
  <2> QED
    BY <1>8, <2>1, CheckoutStatusNames, CheckoutAfterEvents, PaymentAfterEvents
    DEF VerifyAgain, VerifyAndConfirm, VerifyCompleted, Pays, Completes, ConfirmOrder,
        Processed
<1>9. ASSUME NEW w \in Workers, VerifyRefused(w) PROVE RowsOK'
  BY <1>9 DEF VerifyRefused, DeadLettered
<1>10. ASSUME NEW w \in Workers, VerifyHalfDone(w) PROVE RowsOK'
  <2>1. checkout' \in [Checkouts -> CheckoutStatuses]
    BY <1>10, CheckoutStatusNames, CheckoutAfterEvents DEF VerifyHalfDone, Completes
  <2>2. payment' \in [Payments -> PaymentStatuses]
    BY <1>10, PaymentAfterEvents DEF VerifyHalfDone, Pays
  <2>3. /\ event' \in [Messages -> {"none", "received", "processed"}]
        /\ deadLetter' \in [Messages -> {"none", "pending", "resolved"}]
    BY <1>10 DEF VerifyHalfDone, DeadLettered
  <2>4. /\ tx' \in [Workers -> {Idle} \cup Transactions]
        /\ UNCHANGED <<auth, expired, lapsed, charge, sent, order>>
    BY <1>10 DEF VerifyHalfDone
  <2> QED
    BY <2>1, <2>2, <2>3, <2>4
<1>11. ASSUME NEW w \in Workers, FailReadsCheckout(w) PROVE RowsOK'
  <2>1. /\ tx[w].pay \in Payments /\ tx[w].via = "webhook"
        /\ tx[w].pay[1] \in Checkouts /\ checkout[tx[w].pay[1]] # "none"
    BY <1>11, TransactionFields, PaymentParts DEF FailReadsCheckout, Running, ReferencesExist
  <2>2. [op |-> "failing", pay |-> tx[w].pay, via |-> tx[w].via,
         chk |-> checkout[tx[w].pay[1]]] \in Transactions
    BY <2>1 DEF Transactions
  <2> QED
    BY <1>11, <2>2 DEF FailReadsCheckout, paymentVars
<1>12. ASSUME NEW w \in Workers, FailRefused(w) PROVE RowsOK'
  BY <1>12 DEF FailRefused, DeadLettered
<1>13. ASSUME NEW w \in Workers, FinishFail(w) PROVE RowsOK'
  <2>1. checkout' \in [Checkouts -> CheckoutStatuses]
    BY <1>13, CheckoutStatusNames, CheckoutAfterEvents DEF FinishFail
  <2>2. payment' \in [Payments -> PaymentStatuses]
    BY <1>13, PaymentAfterEvents DEF FinishFail, Fails
  <2>3. /\ event' \in [Messages -> {"none", "received", "processed"}]
        /\ deadLetter' \in [Messages -> {"none", "pending", "resolved"}]
    BY <1>13 DEF FinishFail, Processed, DeadLettered
  <2>4. /\ tx' \in [Workers -> {Idle} \cup Transactions]
        /\ UNCHANGED <<auth, expired, lapsed, charge, sent, order>>
    BY <1>13 DEF FinishFail
  <2> QED
    BY <2>1, <2>2, <2>3, <2>4
<1>14. ASSUME NEW m \in Messages, Reconcile(m) PROVE RowsOK'
  BY <1>14 DEF Reconcile
<1> QED
  BY <1>1, <1>2, <1>3, <1>4, <1>5, <1>6, <1>7, <1>8, <1>9, <1>10, <1>11, <1>12, <1>13, <1>14
  DEF PaymentStep

-----------------------------------------------------------------------------
(* References *)

\* A row that exists stays, a status it has had once is never "none" again.
LEMMA RowsStay ==
  ASSUME CommerceTypeOK, [CommerceNext]_commerceVars
  PROVE  /\ \A c \in Checkouts : checkout[c] # "none" => checkout'[c] # "none"
         /\ \A p \in Payments : payment[p] # "none" => payment'[p] # "none"
         /\ \A p \in Payments : charge[p] = "paid" => charge'[p] = "paid"
<1> USE CheckoutAfterEvents, PaymentAfterEvents DEF CommerceTypeOK
<1>1. CASE UNCHANGED commerceVars
  BY <1>1 DEF commerceVars, checkoutVars, paymentVars
<1>2. CASE CheckoutStep
  <2>1. \A c \in Checkouts : checkout[c] # "none" => checkout'[c] # "none"
    BY <1>2 DEF CheckoutStep, CreateCheckout, Expire, Lapse, Sweep, BeginCancel, BeginRequest,
                BeginApprove, BeginReject, Begin, FinishCancel, FinishApprove, FinishReject,
                Abort, FinishRequest
  <2> QED
    BY <1>2, <2>1 DEF CheckoutStep, paymentVars
<1>3. CASE PaymentStep
  <2>1. \A c \in Checkouts : checkout[c] # "none" => checkout'[c] # "none"
    BY <1>3 DEF PaymentStep, CreatePayment, CreatePaymentTimesOut, BeginWebhookVerify,
                BeginCallbackVerify, BeginWebhookFail, Opens, BeginPayNow, Begin, BuyNow,
                BuyerPays, AttemptFails, FinishPayNow, VerifyAgain, VerifyAndConfirm,
                VerifyCompleted, VerifyRefused, VerifyHalfDone, Completes, FailReadsCheckout,
                FailRefused, FinishFail, Reconcile, checkoutVars
  <2>2. ASSUME NEW q \in Payments, PaymentCreated(q)
        PROVE  /\ \A p \in Payments : payment[p] # "none" => payment'[p] # "none"
               /\ \A p \in Payments : charge[p] = "paid" => charge'[p] = "paid"
    BY <2>2 DEF PaymentCreated, ProviderOrder
  <2>3. \A c \in Checkouts : <<c, CheckoutKey>> \in Payments
    BY CommerceAssumption DEF Payments
  <2>4. \A w \in Workers : Running(w, "paynow") => tx[w].c \in Checkouts
    BY TransactionFields DEF Running, CheckoutOps
  <2>5. \A p \in Payments : payment[p] # "none" => payment'[p] # "none"
    <3>1. ASSUME NEW w \in Workers,
                 \/ VerifyAgain(w) \/ VerifyAndConfirm(w) \/ VerifyCompleted(w)
                 \/ VerifyRefused(w) \/ VerifyHalfDone(w)
          PROVE  \A p \in Payments : payment[p] # "none" => payment'[p] # "none"
      BY <3>1 DEF VerifyAgain, VerifyAndConfirm, VerifyCompleted, VerifyRefused,
                  VerifyHalfDone, Pays
    <3>2. ASSUME NEW w \in Workers,
                 FailReadsCheckout(w) \/ FailRefused(w) \/ FinishFail(w)
          PROVE  \A p \in Payments : payment[p] # "none" => payment'[p] # "none"
      BY <3>2 DEF FailReadsCheckout, FailRefused, FinishFail, Fails, paymentVars
    <3> QED
      BY <1>3, <2>2, <2>3, <2>4, <3>1, <3>2
      DEF PaymentStep, CreatePayment, CreatePaymentTimesOut, BeginWebhookVerify,
          BeginCallbackVerify, BeginWebhookFail, Opens, BeginPayNow, BuyNow, BuyerPays,
          AttemptFails, FinishPayNow, Reconcile, paymentVars
  <2>6. \A p \in Payments : charge[p] = "paid" => charge'[p] = "paid"
    <3>1. ASSUME NEW w \in Workers,
                 \/ VerifyAgain(w) \/ VerifyAndConfirm(w) \/ VerifyCompleted(w)
                 \/ VerifyRefused(w) \/ VerifyHalfDone(w)
                 \/ FailReadsCheckout(w) \/ FailRefused(w) \/ FinishFail(w)
          PROVE  charge' = charge
      BY <3>1 DEF VerifyAgain, VerifyAndConfirm, VerifyCompleted, VerifyRefused,
                  VerifyHalfDone, FailReadsCheckout, FailRefused, FinishFail, Unchecked,
                  paymentVars
    <3> QED
      BY <1>3, <2>2, <2>3, <2>4, <3>1
      DEF PaymentStep, CreatePayment, CreatePaymentTimesOut, ProviderOrder,
          BeginWebhookVerify, BeginCallbackVerify, BeginWebhookFail, Opens, BeginPayNow,
          BuyNow, BuyerPays, AttemptFails, FinishPayNow, Reconcile, paymentVars
  <2> QED
    BY <2>1, <2>5, <2>6
<1>4. CASE ImportStep
  BY <1>4 DEF ImportStep, checkoutVars, paymentVars
<1> QED
  BY <1>1, <1>2, <1>3, <1>4 DEF CommerceNext

\* An authorization is written only together with a checkout that exists.
LEMMA AuthorizationsRefer ==
  ASSUME CommerceTypeOK, ReferencesExist, [CommerceNext]_commerceVars
  PROVE  \A c \in Checkouts : auth'[c] # "none" => checkout'[c] # "none"
<1> DEFINE Refer == \A c \in Checkouts : auth'[c] # "none" => checkout'[c] # "none"
<1> USE CheckoutAfterEvents DEF CommerceTypeOK
<1>1. CASE UNCHANGED auth
  BY <1>1, RowsStay DEF ReferencesExist
<1>2. ASSUME NEW w \in Workers,
             \/ FinishRequest(w, "USE_EXISTING_AUTHORIZATION", "approved")
             \/ FinishRequest(w, "REQUIRE_APPROVAL", "pending")
             \/ FinishApprove(w) \/ FinishReject(w)
      PROVE  Refer
  BY <1>2 DEF FinishRequest, FinishApprove, FinishReject, ReferencesExist
<1>3. ASSUME NEW w \in Workers, NEW p \in Payments, CreatePayment(w, p) PROVE Refer
  BY <1>3 DEF CreatePayment, PaymentCreated, PaymentAdmitted, ReferencesExist
<1>4. ASSUME NEW w \in Workers, NEW c \in Checkouts, BuyNow(w, c) PROVE Refer
  BY <1>4 DEF BuyNow, PaymentCreated, ReferencesExist
<1>5. ASSUME NEW w \in Workers, FinishPayNow(w) PROVE Refer
  <2>1. tx[w].c \in Checkouts /\ checkout[tx[w].c] # "none"
    BY <1>5, TransactionFields DEF FinishPayNow, Running, CheckoutOps, ReferencesExist
  <2> QED
    BY <1>1, <1>5, <2>1 DEF FinishPayNow, PaymentCreated, ReferencesExist
<1>6. CASE CheckoutStep
  BY <1>1, <1>2, <1>6
  DEF CheckoutStep, CreateCheckout, Expire, Lapse, Sweep, BeginCancel, BeginRequest,
      BeginApprove, BeginReject, Begin, FinishCancel, Abort
<1>7. CASE PaymentStep
  BY <1>1, <1>3, <1>4, <1>5, <1>7
  DEF PaymentStep, CreatePaymentTimesOut, BeginWebhookVerify, BeginCallbackVerify,
      BeginWebhookFail, Opens, BeginPayNow, Begin, BuyerPays, AttemptFails, VerifyAgain,
      VerifyAndConfirm, VerifyCompleted, VerifyRefused, VerifyHalfDone, FailReadsCheckout,
      FailRefused, FinishFail, Unchecked, Reconcile, checkoutVars
<1>8. CASE ImportStep \/ UNCHANGED commerceVars
  BY <1>1, <1>8 DEF ImportStep, commerceVars, checkoutVars
<1> QED
  BY <1>6, <1>7, <1>8 DEF CommerceNext

\* A payment is created only for a checkout that exists.
LEMMA PaymentsRefer ==
  ASSUME CommerceTypeOK, ReferencesExist, [CommerceNext]_commerceVars
  PROVE  \A p \in Payments : payment'[p] # "none" => checkout'[p[1]] # "none"
<1> DEFINE Refer == \A p \in Payments : payment'[p] # "none" => checkout'[p[1]] # "none"
<1> USE DEF CommerceTypeOK
<1>1. ASSUME NEW q \in Payments, checkout'[q[1]] # "none",
             \A p \in Payments : p # q => payment'[p] = payment[p]
      PROVE  Refer
  BY <1>1, RowsStay, PaymentParts DEF ReferencesExist
<1>2. CASE UNCHANGED payment
  BY <1>2, RowsStay, PaymentParts DEF ReferencesExist
<1>3. ASSUME NEW w \in Workers, NEW p \in Payments, CreatePayment(w, p) PROVE Refer
  BY <1>1, <1>3 DEF CreatePayment, PaymentCreated, PaymentAdmitted
<1>4. ASSUME NEW w \in Workers, NEW c \in Checkouts, BuyNow(w, c) PROVE Refer
  <2>1. <<c, CheckoutKey>> \in Payments
    BY CommerceAssumption DEF Payments
  <2> QED
    BY <1>1, <1>4, <2>1, CheckoutAfterEvents DEF BuyNow, PaymentCreated
<1>5. ASSUME NEW w \in Workers, FinishPayNow(w) PROVE Refer
  <2>1. tx[w].c \in Checkouts /\ <<tx[w].c, CheckoutKey>> \in Payments
    BY <1>5, TransactionFields, CommerceAssumption
    DEF FinishPayNow, Running, CheckoutOps, Payments
  <2>2. checkout'[tx[w].c] # "none"
    BY <1>5, <2>1, CheckoutAfterEvents DEF FinishPayNow, Running, ReferencesExist
  <2> QED
    BY <1>1, <1>5, <2>1, <2>2 DEF FinishPayNow, PaymentCreated
<1>6. ASSUME NEW w \in Workers,
             \/ VerifyAgain(w) \/ VerifyAndConfirm(w) \/ VerifyCompleted(w)
             \/ VerifyRefused(w) \/ VerifyHalfDone(w)
             \/ FailReadsCheckout(w) \/ FailRefused(w) \/ FinishFail(w)
      PROVE  Refer
  <2>1. tx[w].pay \in Payments /\ payment[tx[w].pay] # "none"
    BY <1>6, TransactionFields
    DEF VerifyAgain, VerifyAndConfirm, VerifyCompleted, VerifyRefused, VerifyHalfDone,
        FailReadsCheckout, FailRefused, FinishFail, Running, ReferencesExist
  <2>2. checkout'[tx[w].pay[1]] # "none"
    BY <2>1, RowsStay, PaymentParts DEF ReferencesExist
  <2>3. \A p \in Payments : p # tx[w].pay => payment'[p] = payment[p]
    BY <1>6
    DEF VerifyAgain, VerifyAndConfirm, VerifyCompleted, VerifyRefused, VerifyHalfDone,
        Pays, FailReadsCheckout, FailRefused, FinishFail, Fails, paymentVars
  <2> QED
    BY <1>1, <2>1, <2>2, <2>3
<1>7. CASE PaymentStep
  BY <1>2, <1>3, <1>4, <1>5, <1>6, <1>7
  DEF PaymentStep, CreatePaymentTimesOut, BeginWebhookVerify, BeginCallbackVerify,
      BeginWebhookFail, Opens, BeginPayNow, BuyerPays, AttemptFails, Reconcile, paymentVars
<1>8. CASE CheckoutStep \/ ImportStep \/ UNCHANGED commerceVars
  BY <1>2, <1>8 DEF CheckoutStep, ImportStep, commerceVars, paymentVars
<1> QED
  BY <1>7, <1>8 DEF CommerceNext

\* What a step does to the open transactions: one worker begins, goes on from
\* reading a failing payment to its checkout, or is done.
LEMMA TransactionsChange ==
  ASSUME CommerceTypeOK, ReferencesExist, [CommerceNext]_commerceVars
  PROVE  \/ UNCHANGED tx
         \/ \E w \in Workers : Commits(w)
         \/ \E w \in Workers, read \in Transactions :
              /\ read.op \in CheckoutOps /\ checkout[read.c] # "none"
              /\ tx' = [tx EXCEPT ![w] = read]
         \/ \E w \in Workers, p \in Payments :
              /\ payment[p] # "none"
              /\ \/ NewMessage(<<p, "captured">>) /\ tx' = [tx EXCEPT ![w] = Verifying(p, "webhook")]
                 \/ tx' = [tx EXCEPT ![w] = Verifying(p, "callback")]
                 \/ NewMessage(<<p, "failed">>) /\ tx' = [tx EXCEPT ![w] = FailingPayment(p)]
         \/ \E w \in Workers : FailReadsCheckout(w)
<1> DEFINE Change ==
      \/ UNCHANGED tx
      \/ \E w \in Workers : Commits(w)
      \/ \E w \in Workers, read \in Transactions :
           /\ read.op \in CheckoutOps /\ checkout[read.c] # "none"
           /\ tx' = [tx EXCEPT ![w] = read]
      \/ \E w \in Workers, p \in Payments :
           /\ payment[p] # "none"
           /\ \/ NewMessage(<<p, "captured">>) /\ tx' = [tx EXCEPT ![w] = Verifying(p, "webhook")]
              \/ tx' = [tx EXCEPT ![w] = Verifying(p, "callback")]
              \/ NewMessage(<<p, "failed">>) /\ tx' = [tx EXCEPT ![w] = FailingPayment(p)]
      \/ \E w \in Workers : FailReadsCheckout(w)
<1>1. ASSUME NEW w \in Workers, NEW c \in Checkouts,
             \/ BeginCancel(w, c) \/ BeginRequest(w, c) \/ BeginApprove(w, c)
             \/ BeginReject(w, c) \/ BeginPayNow(w, c)
      PROVE  Change
  <2>1. checkout[c] \in CheckoutStatuses \ {"none"}
    BY <1>1 DEF BeginCancel, BeginRequest, Requestable, BeginApprove, BeginReject, BeginPayNow,
                ReferencesExist, CommerceTypeOK
  <2>2. PICK op \in CheckoutOps :
          IF op = "paynow" THEN BeginPayNow(w, c) ELSE Begin(w, op, c)
    BY <1>1 DEF BeginCancel, BeginRequest, BeginApprove, BeginReject, CheckoutOps
  <2>3. CASE op = "paynow"
    <3>1. [op |-> "paynow", c |-> c, chk |-> checkout[c], ath |-> auth[c]] \in Transactions
      BY <2>1, <2>2, <2>3 DEF BeginPayNow, Transactions
    <3> QED
      BY <2>2, <2>3, <3>1 DEF BeginPayNow, CheckoutOps
  <2>4. CASE op # "paynow"
    <3>1. op \in {"cancel", "request", "approve", "reject"}
      BY <2>4 DEF CheckoutOps
    <3>2. [op |-> op, c |-> c, chk |-> checkout[c]] \in Transactions
      BY <2>1, <3>1 DEF Transactions
    <3> QED
      BY <2>1, <2>2, <2>4, <3>2 DEF Begin
  <2> QED
    BY <2>3, <2>4
<1>2. CASE CheckoutStep
  BY <1>1, <1>2
  DEF CheckoutStep, CreateCheckout, Expire, Lapse, Sweep, FinishCancel, FinishApprove,
      FinishReject, Abort, FinishRequest
<1>3. ASSUME NEW w \in Workers, NEW p \in Payments,
             \/ BeginWebhookVerify(w, p)
             \/ BeginCallbackVerify(w, p)
             \/ BeginWebhookFail(w, p)
      PROVE  Change
  <2>1. payment[p] # "none"
    BY <1>3 DEF BeginWebhookVerify, BeginCallbackVerify, BeginWebhookFail, NewMessage,
                ReferencesExist
  <2> QED
    BY <1>3, <2>1 DEF BeginWebhookVerify, BeginCallbackVerify, BeginWebhookFail, Opens
<1>4. CASE PaymentStep
  BY <1>1, <1>3, <1>4
  DEF PaymentStep, CreatePayment, CreatePaymentTimesOut, BuyNow, BuyerPays, AttemptFails,
      FinishPayNow, VerifyAgain, VerifyAndConfirm, VerifyCompleted, VerifyRefused,
      VerifyHalfDone, FailRefused, FinishFail, Reconcile, checkoutVars
<1>5. CASE ImportStep \/ UNCHANGED commerceVars
  BY <1>5 DEF ImportStep, commerceVars, checkoutVars
<1> QED
  BY <1>2, <1>4, <1>5 DEF CommerceNext

\* Every step keeps what rows, messages and transactions refer to.
LEMMA ReferencesInductive ==
  ASSUME CommerceTypeOK, ReferencesExist, [CommerceNext]_commerceVars
  PROVE  ReferencesExist'
<1>1. \A m \in sent' : payment'[m[1]] # "none"
  <2>1. \A m \in sent : m[1] \in Payments
    BY DEF CommerceTypeOK, Messages
  <2>2. \A m \in sent' : m \in sent \/ (payment[m[1]] # "none" /\ m[1] \in Payments)
    <3>1. ASSUME NEW p \in Payments, NEW m \in sent', BuyerPays(p) \/ AttemptFails(p)
          PROVE  m \in sent \/ (payment[m[1]] # "none" /\ m[1] \in Payments)
      <4>1. payment[p] # "none"
        BY <3>1 DEF BuyerPays, AttemptFails
      <4>2. m \in sent \/ m = <<p, "captured">> \/ m = <<p, "failed">>
        BY <3>1 DEF BuyerPays, AttemptFails
      <4> QED
        BY <4>1, <4>2
    <3>2. \/ \E p \in Payments : BuyerPays(p) \/ AttemptFails(p)
          \/ UNCHANGED sent
      BY DEF CommerceNext, CheckoutStep, PaymentStep, ImportStep, CreatePayment,
             CreatePaymentTimesOut, BeginWebhookVerify, BeginCallbackVerify,
             BeginWebhookFail, Opens, BeginPayNow, BuyNow, FinishPayNow, VerifyAgain,
             VerifyAndConfirm, VerifyCompleted, VerifyRefused, VerifyHalfDone, Unchecked,
             FailReadsCheckout, FailRefused, FinishFail, Reconcile, paymentVars,
             commerceVars
    <3> QED
      BY <3>1, <3>2
  <2> QED
    BY <2>1, <2>2, RowsStay DEF ReferencesExist
<1>2. ASSUME NEW v \in Workers, tx'[v].op \in {"verify", "fail", "failing"}
      PROVE  payment'[tx'[v].pay] # "none"
  <2> USE DEF CommerceTypeOK
  <2>1. CASE tx'[v] = tx[v]
    BY <1>2, <2>1, TransactionFields, RowsStay DEF ReferencesExist
  <2>2. CASE tx'[v] = Idle
    BY <1>2, <2>2 DEF Idle
  <2>3. ASSUME NEW read \in Transactions, read.op \in CheckoutOps, tx'[v] = read
        PROVE  FALSE
    BY <1>2, <2>3 DEF CheckoutOps
  <2>4. ASSUME NEW p \in Payments, payment[p] # "none",
               \/ tx'[v] = Verifying(p, "webhook")
               \/ tx'[v] = Verifying(p, "callback")
               \/ tx'[v] = FailingPayment(p)
        PROVE  payment'[tx'[v].pay] # "none"
    BY <2>4, RowsStay DEF Verifying, FailingPayment
  <2>5. CASE FailReadsCheckout(v)
    BY <2>5, TransactionFields, RowsStay
    DEF FailReadsCheckout, Running, ReferencesExist
  <2>6. \A w \in Workers : FailReadsCheckout(w) => w = v \/ tx'[v] = tx[v]
    BY DEF FailReadsCheckout
  <2> QED
    BY <2>1, <2>2, <2>3, <2>4, <2>5, <2>6, TransactionsChange DEF Commits
<1>3. ASSUME NEW v \in Workers, tx'[v].op = "paynow" PROVE checkout'[tx'[v].c] # "none"
  <2> USE DEF CommerceTypeOK
  <2>1. CASE tx'[v] = tx[v]
    BY <1>3, <2>1, TransactionFields, RowsStay DEF ReferencesExist, CheckoutOps
  <2>2. CASE tx'[v] = Idle
    BY <1>3, <2>2 DEF Idle
  <2>3. ASSUME NEW read \in Transactions, read.op \in CheckoutOps,
               checkout[read.c] # "none", tx'[v] = read
        PROVE  checkout'[tx'[v].c] # "none"
    BY <2>3, RowsStay DEF Transactions, CheckoutOps
  <2>4. ASSUME NEW p \in Payments,
               \/ tx'[v] = Verifying(p, "webhook")
               \/ tx'[v] = Verifying(p, "callback")
               \/ tx'[v] = FailingPayment(p)
        PROVE  FALSE
    BY <1>3, <2>4 DEF Verifying, FailingPayment
  <2>5. \A w \in Workers : FailReadsCheckout(w) => tx'[v].op = "failing" \/ tx'[v] = tx[v]
    BY DEF FailReadsCheckout
  <2> QED
    BY <1>3, <2>1, <2>2, <2>3, <2>4, <2>5, TransactionsChange DEF Commits
<1> QED
  BY <1>1, <1>2, <1>3, AuthorizationsRefer, PaymentsRefer DEF ReferencesExist

-----------------------------------------------------------------------------
(* Holds and the checkouts they belong to *)

\* release_stock leaves no hold behind, and touches no other reservation.
LEMMA ReleaseEffect ==
  ASSUME CommerceTypeOK, NEW c \in Checkouts, ReleaseStock(c)
  PROVE  /\ hold'[c] # "held"
         /\ hold'[c] = "committed" => hold[c] = "committed"
         /\ \A d \in Checkouts : d # c => hold'[d] = hold[d]
BY DEF CommerceTypeOK, InventoryTypeOK, ReleaseStock, ReleaseHeld, inventoryVars

\* commit_stock leaves a sold reservation behind, and touches no other.
LEMMA CommitEffect ==
  ASSUME CommerceTypeOK, NEW c \in Checkouts, CommitStock(c)
  PROVE  /\ hold'[c] = "committed"
         /\ \A d \in Checkouts : d # c => hold'[d] = hold[d]
BY DEF CommerceTypeOK, InventoryTypeOK, CommitStock, CommitHeld, inventoryVars

\* A new reservation is held, and no other changes.
LEMMA ReserveEffect ==
  ASSUME CommerceTypeOK, NEW c \in Checkouts, ReserveStock(c)
  PROVE  /\ hold'[c] = "held"
         /\ \A d \in Checkouts : d # c => hold'[d] = hold[d]
BY DEF CommerceTypeOK, InventoryTypeOK, ReserveStock

\* Every status a request writes over a checkout that may hold stock is one the
\* sweep selects, and every other status is written with the hold settled.
LEMMA HeldIsSweepableInductive ==
  ASSUME CommerceTypeOK, HeldIsSweepable, [CommerceNext]_commerceVars
  PROVE  HeldIsSweepable'
<1> USE CheckoutAfterEvents DEF HeldIsSweepable, SweptStatuses
<1>1. CASE UNCHANGED <<hold, checkout>>
  BY <1>1
<1>2. ASSUME NEW c \in Checkouts,
             hold'[c] # "held" \/ checkout'[c] \in SweptStatuses,
             \A d \in Checkouts : d # c => hold'[d] = hold[d] /\ checkout'[d] = checkout[d]
      PROVE  HeldIsSweepable'
  BY <1>2
<1>3. CASE CheckoutStep
  <2>0. checkout \in [Checkouts -> CheckoutStatuses]
    BY DEF CommerceTypeOK
  <2>1. ASSUME NEW c \in Checkouts, CreateCheckout(c) PROVE HeldIsSweepable'
    BY <1>2, <2>0, <2>1, ReserveEffect DEF CreateCheckout
  <2>2. ASSUME NEW c \in Checkouts, Sweep(c) PROVE HeldIsSweepable'
    BY <1>2, <2>0, <2>2, ReleaseEffect DEF Sweep
  <2>3. ASSUME NEW w \in Workers, FinishCancel(w) \/ FinishReject(w) PROVE HeldIsSweepable'
    <3>1. tx[w].c \in Checkouts
      BY <2>3, TransactionFields DEF FinishCancel, FinishReject, Running, CheckoutOps
    <3> QED
      BY <1>2, <2>0, <2>3, <3>1, ReleaseEffect DEF FinishCancel, FinishReject
  <2>4. ASSUME NEW w \in Workers,
               \/ FinishRequest(w, "USE_EXISTING_AUTHORIZATION", "approved")
               \/ FinishRequest(w, "REQUIRE_APPROVAL", "pending")
               \/ FinishApprove(w)
        PROVE  HeldIsSweepable'
    <3>1. tx[w].c \in Checkouts
      BY <2>4, TransactionFields DEF FinishRequest, FinishApprove, Running, CheckoutOps
    <3> QED
      BY <1>2, <2>0, <2>4, <3>1 DEF FinishRequest, FinishApprove, inventoryVars
  <2> QED
    BY <1>1, <1>3, <2>1, <2>2, <2>3, <2>4
    DEF CheckoutStep, Expire, Lapse, BeginCancel, BeginRequest, BeginApprove, BeginReject,
        Begin, Abort, inventoryVars
<1>4. CASE PaymentStep
  <2>0. checkout \in [Checkouts -> CheckoutStatuses]
    BY DEF CommerceTypeOK
  <2>1. ASSUME NEW w \in Workers, NEW c \in Checkouts, BuyNow(w, c) PROVE HeldIsSweepable'
    BY <1>2, <2>0, <2>1, ReserveEffect DEF BuyNow
  <2>2. ASSUME NEW w \in Workers, FinishPayNow(w) PROVE HeldIsSweepable'
    <3>1. tx[w].c \in Checkouts
      BY <2>2, TransactionFields DEF FinishPayNow, Running, CheckoutOps
    <3> QED
      BY <1>1, <1>2, <2>0, <2>2, <3>1 DEF FinishPayNow, inventoryVars
  <2>3. ASSUME NEW w \in Workers, VerifyAndConfirm(w) \/ VerifyHalfDone(w)
        PROVE  HeldIsSweepable'
    <3>1. tx[w].pay[1] \in Checkouts
      BY <2>3, TransactionFields, PaymentParts DEF VerifyAndConfirm, VerifyHalfDone, Running
    <3>2. CASE VerifyAndConfirm(w)
      BY <1>2, <2>0, <3>1, <3>2, CommitEffect DEF VerifyAndConfirm, Completes
    <3>3. CASE VerifyHalfDone(w)
      BY <1>1, <1>2, <2>0, <3>1, <3>3, CommitEffect
      DEF VerifyHalfDone, Completes, CommitRaises, inventoryVars
    <3> QED
      BY <2>3, <3>2, <3>3
  <2>4. ASSUME NEW w \in Workers, FinishFail(w) PROVE HeldIsSweepable'
    <3>1. tx[w].pay[1] \in Checkouts
      BY <2>4, TransactionFields, PaymentParts DEF FinishFail, Running
    <3> QED
      BY <1>1, <1>2, <2>0, <2>4, <3>1, ReleaseEffect DEF FinishFail, inventoryVars
  <2> QED
    BY <1>1, <1>4, <2>1, <2>2, <2>3, <2>4
    DEF PaymentStep, CreatePayment, CreatePaymentTimesOut, BeginWebhookVerify,
        BeginCallbackVerify, BeginWebhookFail, Opens, BeginPayNow, Begin, BuyerPays,
        AttemptFails, VerifyAgain, VerifyCompleted, VerifyRefused, FailReadsCheckout,
        FailRefused, Reconcile, checkoutVars, inventoryVars
<1>5. CASE ImportStep
  BY <1>1, <1>5 DEF ImportStep, Import, ImportRead, ImportFlush, ImportAbort, checkoutVars
<1>6. CASE UNCHANGED commerceVars
  BY <1>1, <1>6 DEF commerceVars, checkoutVars, inventoryVars
<1> QED
  BY <1>3, <1>4, <1>5, <1>6 DEF CommerceNext

-----------------------------------------------------------------------------
(* Money *)

\* A payment is marked verified, and a transaction has read it so, only when
\* the provider holds its money: what makes confirming an order again safe.
VerifiedIsPaid ==
  /\ \A p \in Payments : payment[p] = "verified" => charge[p] = "paid"
  /\ \A w \in Workers :
       tx[w].op = "verify" /\ tx[w].paid = "verified" => charge[tx[w].pay] = "paid"

\* Stock is sold only by a verification that passed the provider's gate.
LEMMA SaleBackedInductive ==
  ASSUME CommerceTypeOK, SaleBackedByCapture, [CommerceNext]_commerceVars
  PROVE  SaleBackedByCapture'
<1>1. ASSUME NEW c \in Checkouts, hold'[c] = "committed", hold[c] # "committed"
      PROVE  \E w \in Workers : /\ VerifyAndConfirm(w) \/ VerifyHalfDone(w)
                                /\ tx[w].pay[1] = c
  <2> DEFINE Sells == \E w \in Workers : /\ VerifyAndConfirm(w) \/ VerifyHalfDone(w)
                                         /\ tx[w].pay[1] = c
  <2>1. ASSUME NEW d \in Checkouts, ReserveStock(d) \/ ReleaseStock(d) PROVE FALSE
    BY <1>1, <2>1, ReserveEffect, ReleaseEffect
  <2>2. \A w \in Workers :
          /\ tx[w].op \in CheckoutOps => tx[w].c \in Checkouts
          /\ tx[w].op \in {"verify", "failing"} => tx[w].pay[1] \in Checkouts
    BY TransactionFields, PaymentParts
  <2>3. hold' # hold
    BY <1>1
  <2>4. ASSUME NEW w \in Workers, VerifyAndConfirm(w) \/ VerifyHalfDone(w)
        PROVE  tx[w].pay[1] = c
    BY <1>1, <2>2, <2>3, <2>4, CommitEffect
    DEF VerifyAndConfirm, VerifyHalfDone, Running, inventoryVars
  <2>5. CASE CheckoutStep
    <3>1. ASSUME NEW w \in Workers, FinishCancel(w) \/ FinishReject(w) PROVE FALSE
      BY <2>1, <2>2, <3>1 DEF FinishCancel, FinishReject, Running, CheckoutOps
    <3> QED
      BY <2>1, <2>3, <2>5, <3>1
      DEF CheckoutStep, CreateCheckout, Sweep, Expire, Lapse, BeginCancel, BeginRequest,
          BeginApprove, BeginReject, Begin, FinishApprove, Abort, FinishRequest,
          inventoryVars
  <2>6. CASE PaymentStep
    <3>1. ASSUME NEW w \in Workers, FinishFail(w) PROVE FALSE
      BY <2>1, <2>2, <2>3, <3>1 DEF FinishFail, Running, inventoryVars
    <3> QED
      BY <2>1, <2>3, <2>4, <2>6, <3>1
      DEF PaymentStep, CreatePayment, CreatePaymentTimesOut, BeginWebhookVerify,
          BeginCallbackVerify, BeginWebhookFail, Opens, BeginPayNow, Begin, BuyNow,
          BuyerPays, AttemptFails, FinishPayNow, VerifyAgain, VerifyCompleted,
          VerifyRefused, FailReadsCheckout, FailRefused, Reconcile, inventoryVars
  <2>7. CASE ImportStep \/ UNCHANGED commerceVars
    BY <2>3, <2>7 DEF ImportStep, Import, ImportRead, ImportFlush, ImportAbort,
                      commerceVars, inventoryVars
  <2> QED
    BY <2>5, <2>6, <2>7 DEF CommerceNext
<1>2. ASSUME NEW c \in Checkouts, hold'[c] = "committed"
      PROVE  \E k \in Keys : charge[<<c, k>>] = "paid"
  <2>1. CASE hold[c] = "committed"
    BY <2>1 DEF SaleBackedByCapture
  <2>2. CASE hold[c] # "committed"
    <3>1. PICK w \in Workers : /\ VerifyAndConfirm(w) \/ VerifyHalfDone(w)
                               /\ tx[w].pay[1] = c
      BY <1>1, <1>2, <2>2
    <3>2. charge[tx[w].pay] = "paid" /\ tx[w].pay \in Payments
      BY <3>1, TransactionFields DEF VerifyAndConfirm, VerifyHalfDone, GatePasses, Running
    <3> QED
      BY <3>1, <3>2, PaymentParts
  <2> QED
    BY <2>1, <2>2
<1>3. \A c \in Checkouts, k \in Keys : charge[<<c, k>>] = "paid" => charge'[<<c, k>>] = "paid"
  BY RowsStay DEF Payments
<1> QED
  BY <1>2, <1>3 DEF SaleBackedByCapture

\* A payment is marked verified only behind the gate.
LEMMA VerifiedPaidInductive ==
  ASSUME CommerceTypeOK, ReferencesExist, VerifiedIsPaid, [CommerceNext]_commerceVars
  PROVE  VerifiedIsPaid'
<1> USE PaymentAfterEvents DEF CommerceTypeOK
<1>1. ASSUME NEW p \in Payments, payment'[p] = "verified", payment[p] # "verified"
      PROVE  charge[p] = "paid"
  <2>1. ASSUME NEW w \in Workers,
               VerifyAndConfirm(w) \/ VerifyCompleted(w) \/ VerifyHalfDone(w)
        PROVE  charge[p] = "paid"
    BY <1>1, <2>1 DEF VerifyAndConfirm, VerifyCompleted, VerifyHalfDone, Pays, GatePasses
  <2>2. ASSUME NEW w \in Workers, FinishFail(w) PROVE FALSE
    BY <1>1, <2>2 DEF FinishFail, Fails
  <2>3. ASSUME NEW q \in Payments, PaymentCreated(q) PROVE FALSE
    BY <1>1, <2>3 DEF PaymentCreated
  <2>4. ASSUME NEW w \in Workers, NEW c \in Checkouts, BuyNow(w, c) PROVE FALSE
    BY <2>3, <2>4, CommerceAssumption DEF BuyNow, Payments
  <2>5. ASSUME NEW w \in Workers, FinishPayNow(w) PROVE FALSE
    BY <2>3, <2>5, CommerceAssumption, TransactionFields
    DEF FinishPayNow, Payments, Running, CheckoutOps
  <2>6. payment' # payment
    BY <1>1
  <2> QED
    BY <2>1, <2>2, <2>3, <2>4, <2>5, <2>6
    DEF CommerceNext, CheckoutStep, PaymentStep, ImportStep, CreatePayment,
        CreatePaymentTimesOut, BeginWebhookVerify, BeginCallbackVerify, BeginWebhookFail,
        Opens, BeginPayNow, BuyerPays, AttemptFails, VerifyAgain, VerifyRefused,
        FailReadsCheckout, FailRefused, Reconcile, paymentVars, commerceVars
<1>2. ASSUME NEW v \in Workers, tx'[v].op = "verify", tx'[v].paid = "verified"
      PROVE  charge'[tx'[v].pay] = "paid"
  <2>1. CASE tx'[v] = tx[v]
    BY <1>2, <2>1, TransactionFields, RowsStay DEF VerifiedIsPaid
  <2>2. CASE tx'[v] = Idle
    BY <1>2, <2>2 DEF Idle
  <2>3. ASSUME NEW read \in Transactions, read.op \in CheckoutOps, tx'[v] = read
        PROVE  FALSE
    BY <1>2, <2>3 DEF CheckoutOps
  <2>4. ASSUME NEW p \in Payments,
               \/ tx'[v] = Verifying(p, "webhook")
               \/ tx'[v] = Verifying(p, "callback")
               \/ tx'[v] = FailingPayment(p)
        PROVE  charge'[tx'[v].pay] = "paid"
    BY <1>2, <2>4, RowsStay DEF Verifying, FailingPayment, VerifiedIsPaid
  <2>5. CASE FailReadsCheckout(v)
    BY <1>2, <2>5 DEF FailReadsCheckout
  <2>6. \A w \in Workers : FailReadsCheckout(w) => w = v \/ tx'[v] = tx[v]
    BY DEF FailReadsCheckout
  <2> QED
    BY <2>1, <2>2, <2>3, <2>4, <2>5, <2>6, TransactionsChange DEF Commits
<1> QED
  BY <1>1, <1>2, RowsStay DEF VerifiedIsPaid

\* An order is written by a verification, for a checkout that had none or had
\* this one, and for a payment whose money is there.
LEMMA OrdersChange ==
  ASSUME CommerceTypeOK, VerifiedIsPaid, [CommerceNext]_commerceVars
  PROVE  \/ UNCHANGED order
         \/ \E p \in Payments :
              /\ Confirmable(p) /\ ConfirmOrder(p)
              /\ charge[p] = "paid"
<1>1. ASSUME NEW w \in Workers, VerifyAgain(w) \/ VerifyAndConfirm(w) \/ VerifyCompleted(w)
      PROVE  \E p \in Payments : /\ Confirmable(p) /\ ConfirmOrder(p)
                                 /\ charge[p] = "paid"
  <2>1. tx[w].pay \in Payments
    BY <1>1, TransactionFields DEF VerifyAgain, VerifyAndConfirm, VerifyCompleted, Running
  <2>2. Confirmable(tx[w].pay) /\ ConfirmOrder(tx[w].pay)
    BY <1>1 DEF VerifyAgain, VerifyAndConfirm, VerifyCompleted
  <2>3. charge[tx[w].pay] = "paid"
    BY <1>1 DEF VerifyAgain, VerifyAndConfirm, VerifyCompleted, Running, GatePasses,
                VerifiedIsPaid
  <2> QED
    BY <2>1, <2>2, <2>3
<1> QED
  BY <1>1
  DEF CommerceNext, CheckoutStep, PaymentStep, ImportStep, CreatePayment,
      CreatePaymentTimesOut, BeginWebhookVerify, BeginCallbackVerify, BeginWebhookFail,
      Opens, BeginPayNow, BuyNow, BuyerPays, AttemptFails, FinishPayNow, VerifyRefused,
      VerifyHalfDone, FailReadsCheckout, FailRefused, FinishFail, Reconcile, paymentVars,
      commerceVars

\* A confirmed order stands on money the provider holds.
LEMMA OrderBackedInductive ==
  ASSUME CommerceTypeOK, VerifiedIsPaid, OrderBackedByCapture, [CommerceNext]_commerceVars
  PROVE  OrderBackedByCapture'
<1>1. \A c \in Checkouts : order'[c] # NoOrder => charge[<<c, order'[c]>>] = "paid"
  <2>1. CASE UNCHANGED order
    BY <2>1 DEF OrderBackedByCapture
  <2>2. ASSUME NEW p \in Payments, ConfirmOrder(p), charge[p] = "paid"
        PROVE  \A c \in Checkouts : order'[c] # NoOrder => charge[<<c, order'[c]>>] = "paid"
    BY <2>2, PaymentParts DEF ConfirmOrder, OrderBackedByCapture, CommerceTypeOK
  <2> QED
    BY <2>1, <2>2, OrdersChange
<1>2. ASSUME NEW c \in Checkouts, order'[c] # NoOrder PROVE order'[c] \in Keys
  <2>1. ASSUME NEW p \in Payments, ConfirmOrder(p) PROVE order'[c] \in Keys
    BY <1>2, <2>1, PaymentParts DEF ConfirmOrder, CommerceTypeOK
  <2> QED
    BY <1>2, <2>1, OrdersChange DEF CommerceTypeOK
<1> QED
  BY <1>1, <1>2, RowsStay DEF OrderBackedByCapture, Payments

-----------------------------------------------------------------------------
(* Webhook messages *)

\* A message is being answered by one transaction, and only before its event
\* row is committed.
OneAnswer ==
  /\ \A w \in Workers : \A m \in Answering(w) : event[m] = "none"
  /\ \A v, w \in Workers : v # w => Answering(v) \cap Answering(w) = {}

\* A transaction answers at most the message it was opened for.
LEMMA AnsweringIs ==
  ASSUME NEW w \in Workers
  PROVE  /\ tx[w].op = "verify" /\ tx[w].via = "webhook" =>
              Answering(w) = {<<tx[w].pay, "captured">>}
         /\ tx[w].op = "verify" /\ tx[w].via # "webhook" => Answering(w) = {}
         /\ tx[w].op \in {"fail", "failing"} => Answering(w) = {<<tx[w].pay, "failed">>}
         /\ tx[w].op \notin {"verify", "fail", "failing"} => Answering(w) = {}
BY DEF Answering

\* An event row is written by the transaction that answers its message, which
\* then is done.
LEMMA EventsChange ==
  ASSUME CommerceTypeOK, [CommerceNext]_commerceVars
  PROVE  \/ UNCHANGED event
         \/ \E w \in Workers :
              /\ Commits(w)
              /\ \A m \in Messages : m \notin Answering(w) => event'[m] = event[m]
<1> DEFINE Answers(w) == /\ Commits(w)
                         /\ \A m \in Messages : m \notin Answering(w) => event'[m] = event[m]
<1> USE DEF CommerceTypeOK
<1>1. ASSUME NEW w \in Workers,
             VerifyAgain(w) \/ VerifyAndConfirm(w) \/ VerifyCompleted(w)
      PROVE  Answers(w)
  BY <1>1, AnsweringIs
  DEF VerifyAgain, VerifyAndConfirm, VerifyCompleted, Processed, Running
<1>2. ASSUME NEW w \in Workers, VerifyRefused(w) \/ VerifyHalfDone(w) PROVE Answers(w)
  BY <1>2, AnsweringIs DEF VerifyRefused, VerifyHalfDone, DeadLettered, Running
<1>3. ASSUME NEW w \in Workers, FailRefused(w) PROVE Answers(w)
  BY <1>3, AnsweringIs DEF FailRefused, DeadLettered, Running
<1>4. ASSUME NEW w \in Workers, FinishFail(w) PROVE Answers(w)
  BY <1>4, AnsweringIs DEF FinishFail, Processed, DeadLettered, Running
<1> QED
  BY <1>1, <1>2, <1>3, <1>4
  DEF CommerceNext, CheckoutStep, PaymentStep, ImportStep, CreatePayment,
      CreatePaymentTimesOut, BeginWebhookVerify, BeginCallbackVerify, BeginWebhookFail,
      Opens, BeginPayNow, BuyNow, BuyerPays, AttemptFails, FinishPayNow,
      FailReadsCheckout, Reconcile, paymentVars, commerceVars

\* What a transaction answers after a step: what it answered before, nothing,
\* or a message that is new.
LEMMA AnsweringChange ==
  ASSUME CommerceTypeOK, ReferencesExist, [CommerceNext]_commerceVars, NEW v \in Workers
  PROVE  \/ Answering(v)' \subseteq Answering(v)
         \/ \E m : /\ NewMessage(m) /\ Answering(v)' = {m}
                   /\ \A w \in Workers : w # v => tx'[w] = tx[w]
<1> USE DEF CommerceTypeOK
<1>1. CASE tx'[v] = tx[v]
  BY <1>1 DEF Answering
<1>2. ASSUME tx'[v].op \notin {"verify", "fail", "failing"} PROVE Answering(v)' = {}
  BY <1>2 DEF Answering
<1>3. CASE tx'[v] = Idle
  BY <1>2, <1>3 DEF Idle
<1>4. ASSUME NEW read \in Transactions, read.op \in CheckoutOps, tx'[v] = read
      PROVE  Answering(v)' = {}
  BY <1>2, <1>4 DEF CheckoutOps
<1>5. ASSUME NEW p \in Payments, tx'[v] = Verifying(p, "webhook")
      PROVE  Answering(v)' = {<<p, "captured">>}
  BY <1>5 DEF Answering, Verifying
<1>6. ASSUME NEW p \in Payments, tx'[v] = Verifying(p, "callback")
      PROVE  Answering(v)' = {}
  BY <1>6 DEF Answering, Verifying
<1>7. ASSUME NEW p \in Payments, tx'[v] = FailingPayment(p)
      PROVE  Answering(v)' = {<<p, "failed">>}
  BY <1>7 DEF Answering, FailingPayment
<1>8. CASE FailReadsCheckout(v)
  <2>1. tx[v].op = "fail" /\ tx'[v].op = "failing" /\ tx'[v].pay = tx[v].pay
    BY <1>8 DEF FailReadsCheckout, Running
  <2>2. Answering(v)' = {<<tx[v].pay, "failed">>}
    BY <2>1 DEF Answering
  <2> QED
    BY <2>1, <2>2, AnsweringIs
<1>9. ASSUME NEW w \in Workers, FailReadsCheckout(w) PROVE w = v \/ tx'[v] = tx[v]
  BY <1>9 DEF FailReadsCheckout
<1>10. ASSUME NEW w \in Workers, NEW record, tx' = [tx EXCEPT ![w] = record]
       PROVE  /\ w # v => tx'[v] = tx[v]
              /\ w = v => tx'[v] = record /\ \A u \in Workers : u # v => tx'[u] = tx[u]
  BY <1>10
<1>11. CASE \E w \in Workers : Commits(w)
  BY <1>1, <1>3, <1>10, <1>11 DEF Commits
<1>12. CASE \E w \in Workers, read \in Transactions :
              read.op \in CheckoutOps /\ tx' = [tx EXCEPT ![w] = read]
  BY <1>1, <1>4, <1>10, <1>12
<1>13. ASSUME NEW w \in Workers, NEW p \in Payments,
              \/ NewMessage(<<p, "captured">>) /\ tx' = [tx EXCEPT ![w] = Verifying(p, "webhook")]
              \/ tx' = [tx EXCEPT ![w] = Verifying(p, "callback")]
              \/ NewMessage(<<p, "failed">>) /\ tx' = [tx EXCEPT ![w] = FailingPayment(p)]
       PROVE  \/ Answering(v)' \subseteq Answering(v)
              \/ \E m : /\ NewMessage(m) /\ Answering(v)' = {m}
                        /\ \A u \in Workers : u # v => tx'[u] = tx[u]
  BY <1>1, <1>5, <1>6, <1>7, <1>10, <1>13
<1> QED
  BY <1>1, <1>8, <1>9, <1>11, <1>12, <1>13, TransactionsChange

\* A second delivery waits for the first, so one transaction answers.
LEMMA OneAnswerInductive ==
  ASSUME CommerceTypeOK, ReferencesExist, OneAnswer, [CommerceNext]_commerceVars
  PROVE  OneAnswer'
<1>1. ASSUME NEW v \in Workers, NEW w \in Workers, v # w, NEW m,
             m \in Answering(v)', m \in Answering(w)'
      PROVE  FALSE
  <2>1. \A u \in Workers : tx'[u] = tx[u] => Answering(u)' = Answering(u)
    BY DEF Answering
  <2> QED
    BY <1>1, <2>1, AnsweringChange DEF OneAnswer, NewMessage
<1>2. ASSUME NEW v \in Workers, NEW m \in Answering(v)' PROVE event'[m] = "none"
  <2>1. m \in Answering(v) \/ NewMessage(m)
    BY <1>2, AnsweringChange
  <2>2. event[m] = "none"
    BY <2>1 DEF OneAnswer, NewMessage
  <2>3. ASSUME NEW w \in Workers, Commits(w) PROVE m \notin Answering(w)
    <3>1. tx'[w] = Idle
      BY <2>3 DEF Commits, CommerceTypeOK
    <3>2. Answering(w)' = {}
      BY <3>1 DEF Answering, Idle
    <3>3. v # w
      BY <1>2, <3>2
    <3> QED
      BY <2>1, <3>3 DEF OneAnswer, NewMessage
  <2>4. m \in Messages
    <3>1. Answering(v) \subseteq Messages
      BY TransactionFields, AnsweringIs DEF Messages
    <3>2. sent \subseteq Messages
      BY DEF CommerceTypeOK
    <3> QED
      BY <2>1, <3>1, <3>2 DEF NewMessage
  <2> QED
    BY <2>2, <2>3, <2>4, EventsChange
<1> QED
  BY <1>1, <1>2 DEF OneAnswer

-----------------------------------------------------------------------------
(* The inductive invariant *)

\* The stock's invariant is needed for the type of the counters, the references
\* for the type of what transactions read, VerifiedIsPaid for the orders and
\* OneAnswer for the messages; the other parts are inductive on top of these.
CommerceInv ==
  /\ InventoryInv
  /\ CommerceTypeOK
  /\ ReferencesExist
  /\ HeldIsSweepable
  /\ SaleBackedByCapture
  /\ VerifiedIsPaid
  /\ OrderBackedByCapture
  /\ OneAnswer

LEMMA CommerceInvInit == CommerceInit => CommerceInv
<1> SUFFICES ASSUME CommerceInit PROVE CommerceInv
  OBVIOUS
<1> USE DEF CommerceInit, CheckoutInit
<1>1. InventoryInv
  BY InventoryInvInit
<1>2. CommerceTypeOK
  BY <1>1, CheckoutStatusNames
  DEF InventoryInv, CommerceTypeOK, AuthStatuses, PaymentStatuses
<1>3. ReferencesExist
  BY DEF ReferencesExist, Idle
<1>4. HeldIsSweepable /\ SaleBackedByCapture
  BY DEF HeldIsSweepable, SaleBackedByCapture, InventoryInit
<1>5. VerifiedIsPaid /\ OrderBackedByCapture
  BY DEF VerifiedIsPaid, OrderBackedByCapture, Idle
<1>6. OneAnswer
  BY DEF OneAnswer, Answering, Idle
<1> QED
  BY <1>1, <1>2, <1>3, <1>4, <1>5, <1>6 DEF CommerceInv

LEMMA CommerceInvNext ==
  CommerceInv /\ [CommerceNext]_commerceVars => CommerceInv'
<1> SUFFICES ASSUME CommerceInv, [CommerceNext]_commerceVars
             PROVE  CommerceInv'
  OBVIOUS
<1> USE DEF CommerceInv
<1>1. InventoryInv'
  BY CommerceStepsInventory, InventoryInvNext
<1>2. RowsOK'
  <2>1. CASE ImportStep \/ UNCHANGED commerceVars
    BY <2>1 DEF ImportStep, commerceVars, checkoutVars, paymentVars, CommerceTypeOK, RowsOK
  <2> QED
    BY <2>1, RowsCheckoutStep, RowsPaymentStep DEF CommerceNext
<1>3. CommerceTypeOK'
  BY <1>1, <1>2 DEF InventoryInv, CommerceTypeOK, RowsOK
<1> QED
  BY <1>1, <1>3, ReferencesInductive, HeldIsSweepableInductive, SaleBackedInductive,
     VerifiedPaidInductive, OrderBackedInductive, OneAnswerInductive

\* Whatever requests, webhooks, jobs and imports run, in whatever order and
\* however they overlap, the invariant holds.
THEOREM CommerceInvariant == CommerceSpec => []CommerceInv
BY CommerceInvInit, CommerceInvNext, PTL DEF CommerceSpec

-----------------------------------------------------------------------------
(* Theorems *)

\* Every row has a status the code knows, every open transaction has read rows
\* that exist.
THEOREM CommerceTypes == CommerceSpec => []CommerceTypeOK
<1>1. CommerceInv => CommerceTypeOK
  BY DEF CommerceInv
<1> QED
  BY <1>1, CommerceInvariant, PTL

\* No order of cancels, approvals, failures and expiries leaves a hold where
\* the sweep does not find it (apps/worker/main.py).
THEOREM NoHoldIsLost == CommerceSpec => []HeldIsSweepable
<1>1. CommerceInv => HeldIsSweepable
  BY DEF CommerceInv
<1> QED
  BY <1>1, CommerceInvariant, PTL

\* An order is confirmed only for money the provider holds (verify_payment).
THEOREM NoOrderWithoutMoney == CommerceSpec => []OrderBackedByCapture
<1>1. CommerceInv => OrderBackedByCapture
  BY DEF CommerceInv
<1> QED
  BY <1>1, CommerceInvariant, PTL

\* Stock is sold only for money the provider holds (verify_payment).
THEOREM NoSaleWithoutMoney == CommerceSpec => []SaleBackedByCapture
<1>1. CommerceInv => SaleBackedByCapture
  BY DEF CommerceInv
<1> QED
  BY <1>1, CommerceInvariant, PTL

\* Neither orders nor sold stock without money.
THEOREM GoodsAreBackedByMoney == CommerceSpec => []MoneyBehindGoods
<1>1. OrderBackedByCapture /\ SaleBackedByCapture => MoneyBehindGoods
  BY DEF MoneyBehindGoods
<1> QED
  BY <1>1, NoOrderWithoutMoney, NoSaleWithoutMoney, PTL

\* The whole system implements the stock specification: checkouts, payments,
\* webhooks and jobs touch the counters only as it allows.
THEOREM CommerceImplementsInventory == CommerceSpec => InventorySpec
<1>1. CommerceInit => InventoryInit
  BY DEF CommerceInit
<1>2. CommerceInv /\ [CommerceNext]_commerceVars => [InventoryNext]_inventoryVars
  BY CommerceStepsInventory DEF CommerceInv
<1> QED
  BY <1>1, <1>2, CommerceInvariant, PTL DEF CommerceSpec, InventorySpec

\* So the counters agree with the reservations and cover them in the whole
\* system, as they do on their own.
THEOREM StockIsExact == CommerceSpec => [](CountersMatchHolds /\ HoldsAreInStock)
<1>1. InventoryInv => CountersMatchHolds /\ HoldsAreInStock
  BY DEF InventoryInv
<1> QED
  BY <1>1, CommerceImplementsInventory, InventoryInvariant, PTL

\* A confirmed order is never replaced or lost (confirm_order).
THEOREM OrdersAreFinal == CommerceSpec => OrderIsFinal
<1> DEFINE Final == \A c \in Checkouts : order[c] # NoOrder => order'[c] = order[c]
<1>1. CommerceInv /\ [CommerceNext]_commerceVars => [Final]_commerceVars
  <2> SUFFICES ASSUME CommerceInv, [CommerceNext]_commerceVars PROVE Final
    OBVIOUS
  <2>1. CommerceTypeOK /\ VerifiedIsPaid
    BY DEF CommerceInv
  <2>2. ASSUME NEW p \in Payments, Confirmable(p), ConfirmOrder(p) PROVE Final
    BY <2>1, <2>2, PaymentParts DEF Confirmable, ConfirmOrder, CommerceTypeOK
  <2> QED
    BY <2>1, <2>2, OrdersChange
<1> QED
  BY <1>1, CommerceInvariant, PTL DEF CommerceSpec, OrderIsFinal

\* Sold stock is never given back and freed stock is never sold
\* (services/inventory/repository.py).
THEOREM HoldsAreSettledOnce == CommerceSpec => HoldsSettleOnce
<1> DEFINE Once == \A c \in Checkouts :
             hold[c] \in {"released", "committed"} => hold'[c] = hold[c]
<1>1. CommerceInv /\ [CommerceNext]_commerceVars => [Once]_commerceVars
  <2> SUFFICES ASSUME CommerceInv, [CommerceNext]_commerceVars PROVE Once
    OBVIOUS
  <2>1. InventoryTypeOK
    BY DEF CommerceInv, InventoryInv
  <2>2. [InventoryNext]_inventoryVars
    BY CommerceStepsInventory DEF CommerceInv
  <2>3. ASSUME NEW c \in Checkouts, ReserveStock(c) \/ ReleaseHeld(c) \/ CommitHeld(c)
        PROVE  Once
    BY <2>1, <2>3 DEF ReserveStock, ReleaseHeld, CommitHeld, InventoryTypeOK
  <2>4. CASE Import \/ UNCHANGED inventoryVars
    BY <2>4 DEF Import, ImportRead, ImportFlush, ImportAbort, inventoryVars
  <2> QED
    BY <2>2, <2>3, <2>4 DEF InventoryNext
<1> QED
  BY <1>1, CommerceInvariant, PTL DEF CommerceSpec, HoldsSettleOnce

\* A webhook message is answered for good once (process_webhook).
THEOREM MessagesAreAnsweredOnce == CommerceSpec => DeliveredOnce
<1> DEFINE Once == \A m \in Messages : event[m] # "none" => event'[m] = event[m]
<1>1. CommerceInv /\ [CommerceNext]_commerceVars => [Once]_commerceVars
  BY EventsChange DEF CommerceInv, OneAnswer
<1> QED
  BY <1>1, CommerceInvariant, PTL DEF CommerceSpec, DeliveredOnce

-----------------------------------------------------------------------------
(* Requests that do not overlap *)

\* One request-serving thread: jobs, webhook messages, deadlines and the
\* import still come between the two steps of a request.
RequestsDoNotOverlap == \A v, w \in Workers : v = w

\* Where a checkout can be while its payment is still open.
Unsold == {"authorized", "cancelled", "expired"}

\* The rows of one checkout agree with one another.
CheckoutAgrees(c) ==
  /\ checkout[c] \in SweptStatuses /\ c \notin expired => hold[c] = "held"
  /\ checkout[c] = "completed" => order[c] # NoOrder
  /\ auth[c] = "approved" => checkout[c] \in Unsold
  /\ order[c] # NoOrder =>
       /\ checkout[c] = "completed" /\ hold[c] = "committed"
       /\ payment[<<c, order[c]>>] = "verified"
  /\ \A k \in Keys :
       /\ payment[<<c, k>>] # "none" => auth[c] = "consumed"
       /\ payment[<<c, k>>] = "pending" =>
            checkout[c] \in Unsold /\ (checkout[c] = "authorized" => hold[c] = "held")
       /\ payment[<<c, k>>] = "verified" => order[c] = k
       /\ \A l \in Keys :
            payment[<<c, k>>] # "none" /\ payment[<<c, l>>] # "none" => k = l

\* What was read of a checkout is still so, but for the sweep.
StillRead(c, chk) ==
  checkout[c] = chk \/ (checkout[c] = "expired" /\ c \in expired /\ chk \in SweptStatuses)

\* What the only open request has read is what the rows say.
ReadAgrees(w) ==
  /\ tx[w].op \in CheckoutOps => StillRead(tx[w].c, tx[w].chk)
  /\ tx[w].op \in {"cancel", "reject"} => tx[w].chk \in SweptStatuses
  /\ tx[w].op = "approve" => auth[tx[w].c] = "pending" /\ tx[w].chk = "authorization_pending"
  /\ tx[w].op = "reject" => auth[tx[w].c] \in {"pending", "approved"}
  /\ tx[w].op = "paynow" => /\ tx[w].chk \notin {"cancelled", "expired", "completed"}
                            /\ tx[w].ath = auth[tx[w].c]
  /\ tx[w].op \in {"verify", "fail"} => payment[tx[w].pay] = tx[w].paid
  /\ tx[w].op = "failing" => payment[tx[w].pay] = "pending" /\ tx[w].chk \in Unsold

RowsInv == \A c \in Checkouts : CheckoutAgrees(c)
ReadInv == \A w \in Workers : ReadAgrees(w)

\* The events of the table, by the statuses they are admitted in.
LEMMA WhichCan ==
  ASSUME NEW s \in CheckoutStatuses \ {"none"}
  PROVE  /\ CheckoutCan(s, "CANCEL_CHECKOUT") => s \in SweptStatuses
         /\ CheckoutCan(s, "REJECT_AUTHORIZATION") => s \in SweptStatuses
         /\ CheckoutCan(s, "APPROVE_AUTHORIZATION") => s = "authorization_pending"
         /\ CheckoutCan(s, "USE_EXISTING_AUTHORIZATION") => s = "created"
         /\ CheckoutCan(s, "REQUIRE_APPROVAL") => s = "created"
         /\ CheckoutCan(s, "COMPLETE_ORDER") <=> s = "authorized"
         /\ CheckoutCan(s, "FAIL_PAYMENT") <=> s = "authorized"
<1>1. CheckoutState[s] =
        CASE s = "created" -> "CHECKOUT_CREATED"
          [] s = "authorization_pending" -> "AUTHORIZATION_PENDING"
          [] s = "authorized" -> "AUTHORIZED" [] s = "completed" -> "COMPLETED"
          [] s = "cancelled" -> "CANCELLED" [] s = "expired" -> "CHECKOUT_EXPIRED"
          [] s = "payment_failed" -> "PAYMENT_FAILED"
  BY CheckoutStatusNames DEF CheckoutState
<1>2. /\ Rule["CANCEL_CHECKOUT"].from = {"CHECKOUT_CREATED", "POLICY_CHECKED",
                                          "AUTHORIZATION_PENDING", "AUTHORIZED"}
      /\ Rule["REJECT_AUTHORIZATION"].from = {"CHECKOUT_CREATED", "AUTHORIZATION_PENDING",
                                               "AUTHORIZED"}
      /\ Rule["APPROVE_AUTHORIZATION"].from = {"AUTHORIZATION_PENDING"}
      /\ Rule["USE_EXISTING_AUTHORIZATION"].from = {"CHECKOUT_CREATED", "POLICY_CHECKED"}
      /\ Rule["REQUIRE_APPROVAL"].from = {"CHECKOUT_CREATED", "POLICY_CHECKED"}
      /\ Rule["COMPLETE_ORDER"].from = {"AUTHORIZED", "ORDER_CONFIRMED"}
      /\ Rule["FAIL_PAYMENT"].from = {"AUTHORIZED", "PAYMENT_CREATED", "PAYMENT_PENDING"}
  BY DEF Rule
<1> QED
  BY <1>1, <1>2, CheckoutStatusNames DEF CheckoutCan, SweptStatuses

\* A payment can fail only while it is open.
LEMMA WhichPaymentFails ==
  ASSUME NEW s \in PaymentStatuses \ {"none"}
  PROVE  PaymentCan(s, "FAIL_PAYMENT") <=> s = "pending"
<1>1. Rule["FAIL_PAYMENT"].from = {"AUTHORIZED", "PAYMENT_CREATED", "PAYMENT_PENDING"}
  BY DEF Rule
<1>2. PaymentState[s] =
        CASE s = "pending" -> "PAYMENT_PENDING" [] s = "verified" -> "PAYMENT_VERIFIED"
          [] s = "failed" -> "PAYMENT_FAILED"
  BY DEF PaymentState, PaymentStatuses
<1> QED
  BY <1>1, <1>2 DEF PaymentCan, PaymentStatuses

\* The rows of every checkout but c are left as they are.
OnlyRowsOf(c) ==
  \A d \in Checkouts : d # c =>
    /\ checkout'[d] = checkout[d] /\ auth'[d] = auth[d]
    /\ hold'[d] = hold[d] /\ order'[d] = order[d]
    /\ \A k \in Keys : payment'[<<d, k>>] = payment[<<d, k>>]

\* Rows that a step leaves alone agree as before, even if time passes.
LEMMA RowsLeftAlone ==
  ASSUME NEW d \in Checkouts, CheckoutAgrees(d), expired \subseteq expired',
         checkout'[d] = checkout[d], auth'[d] = auth[d], hold'[d] = hold[d],
         order'[d] = order[d],
         \A k \in Keys : payment'[<<d, k>>] = payment[<<d, k>>], order[d] \in Keys \cup {NoOrder}
  PROVE  CheckoutAgrees(d)'
BY DEF CheckoutAgrees

LEMMA OneCheckoutChanges ==
  ASSUME CommerceTypeOK, RowsInv, expired \subseteq expired', NEW c \in Checkouts,
         OnlyRowsOf(c), CheckoutAgrees(c)'
  PROVE  RowsInv'
<1>1. ASSUME NEW d \in Checkouts, d # c PROVE CheckoutAgrees(d)'
  <2>1. CheckoutAgrees(d) /\ order[d] \in Keys \cup {NoOrder}
    BY DEF RowsInv, CommerceTypeOK
  <2> QED
    BY <1>1, <2>1, RowsLeftAlone DEF OnlyRowsOf
<1> QED
  BY <1>1 DEF RowsInv

LEMMA NoCheckoutChanges ==
  ASSUME CommerceTypeOK, RowsInv, expired \subseteq expired',
         UNCHANGED <<checkout, auth, hold, order, payment>>
  PROVE  RowsInv'
<1>1. ASSUME NEW d \in Checkouts PROVE CheckoutAgrees(d)'
  <2>1. CheckoutAgrees(d) /\ order[d] \in Keys \cup {NoOrder}
    BY DEF RowsInv, CommerceTypeOK
  <2> QED
    BY <2>1, RowsLeftAlone
<1> QED
  BY <1>1 DEF RowsInv

\* A request that is over has read nothing.
LEMMA CommittedAgrees ==
  ASSUME CommerceTypeOK, RequestsDoNotOverlap, NEW w \in Workers, Commits(w)
  PROVE  ReadInv'
<1>1. \A v \in Workers : tx'[v] = Idle
  BY DEF Commits, CommerceTypeOK, RequestsDoNotOverlap
<1>2. Idle.op = "idle"
  BY DEF Idle
<1> QED
  BY <1>1, <1>2 DEF ReadInv, ReadAgrees, CheckoutOps

\* A step beside the open request, which reads no checkout that changes, or
\* one that is swept.
LEMMA OpenRequestAgrees ==
  ASSUME CommerceTypeOK, ReadInv, UNCHANGED <<tx, auth, payment>>, expired \subseteq expired',
         \A w \in Workers : tx[w].op \in CheckoutOps =>
           \/ checkout'[tx[w].c] = checkout[tx[w].c]
           \/ /\ checkout'[tx[w].c] = "expired" /\ tx[w].c \in expired'
              /\ checkout[tx[w].c] \in SweptStatuses
  PROVE  ReadInv'
<1>1. ASSUME NEW w \in Workers PROVE ReadAgrees(w)'
  <2>1. ReadAgrees(w)
    BY DEF ReadInv
  <2>2. "expired" \notin SweptStatuses
    BY DEF SweptStatuses
  <2>3. tx[w].op \in CheckoutOps => StillRead(tx[w].c, tx[w].chk)'
    BY <2>1, <2>2 DEF ReadAgrees, StillRead
  <2> QED
    BY <2>1, <2>3 DEF ReadAgrees
<1> QED
  BY <1>1 DEF ReadInv

\* The effects on the reservations, in terms of the rows of one checkout.
LEMMA ReleaseOutcome ==
  ASSUME CommerceTypeOK, NEW c \in Checkouts, ReleaseStock(c)
  PROVE  /\ hold'[c] = IF hold[c] = "held" THEN "released" ELSE hold[c]
         /\ \A d \in Checkouts : d # c => hold'[d] = hold[d]
BY DEF CommerceTypeOK, InventoryTypeOK, ReleaseStock, ReleaseHeld, inventoryVars

\* A checkout without a row has no other row either.
LEMMA NothingBefore ==
  ASSUME CommerceTypeOK, ReferencesExist, RowsInv, NEW c \in Checkouts, checkout[c] = "none"
  PROVE  /\ auth[c] = "none" /\ order[c] = NoOrder
         /\ \A k \in Keys : payment[<<c, k>>] = "none"
<1>1. \A k \in Keys : <<c, k>> \in Payments /\ <<c, k>>[1] = c
  BY DEF Payments
<1> QED
  BY <1>1 DEF ReferencesExist, RowsInv, CheckoutAgrees

\* The jobs, the deadlines and new checkouts, beside an open request.
LEMMA JobsAgree ==
  ASSUME CommerceTypeOK, ReferencesExist, RowsInv, ReadInv, NEW c \in Checkouts,
         CreateCheckout(c) \/ Sweep(c) \/ Expire(c) \/ Lapse(c), UNCHANGED paymentVars
  PROVE  RowsInv' /\ ReadInv'
<1>0. /\ checkout \in [Checkouts -> CheckoutStatuses] /\ UNCHANGED <<payment, order>>
      /\ UNCHANGED <<auth, tx>> /\ expired \subseteq expired'
  BY DEF CommerceTypeOK, paymentVars, CreateCheckout, Sweep, Expire, Lapse
<1>1. CASE CreateCheckout(c)
  <2>1. /\ checkout[c] = "none" /\ checkout' = [checkout EXCEPT ![c] = "created"]
        /\ hold'[c] = "held" /\ \A d \in Checkouts : d # c => hold'[d] = hold[d]
    BY <1>1, ReserveEffect DEF CreateCheckout
  <2>2. OnlyRowsOf(c) /\ checkout'[c] = "created"
    BY <1>0, <2>1 DEF OnlyRowsOf
  <2>3. CheckoutAgrees(c)'
    BY <1>0, <2>1, <2>2, NothingBefore DEF CheckoutAgrees
  <2>4. \A w \in Workers : tx[w].op \in CheckoutOps => tx[w].c \in Checkouts /\ tx[w].c # c
    BY <2>1, TransactionFields DEF ReadInv, ReadAgrees, StillRead
  <2> QED
    BY <1>0, <2>1, <2>2, <2>3, <2>4, OneCheckoutChanges, OpenRequestAgrees
<1>2. CASE Sweep(c)
  <2>1. /\ checkout[c] \in SweptStatuses /\ c \in expired /\ c \in expired'
        /\ checkout' = [checkout EXCEPT ![c] = "expired"] /\ ReleaseStock(c)
    BY <1>0, <1>2, CheckoutAfterEvents DEF Sweep
  <2>2. OnlyRowsOf(c) /\ checkout'[c] = "expired"
    BY <1>0, <2>1, ReleaseOutcome DEF OnlyRowsOf
  <2>3. CheckoutAgrees(c) /\ checkout[c] # "completed"
    BY <2>1 DEF RowsInv, SweptStatuses
  <2>4. CheckoutAgrees(c)'
    BY <1>0, <2>2, <2>3 DEF CheckoutAgrees, Unsold, SweptStatuses
  <2>5. \A w \in Workers : tx[w].op \in CheckoutOps => tx[w].c \in Checkouts
    BY TransactionFields
  <2> QED
    BY <1>0, <2>1, <2>2, <2>4, <2>5, OneCheckoutChanges, OpenRequestAgrees
<1>3. CASE Expire(c) \/ Lapse(c)
  <2>1. UNCHANGED <<checkout, hold>>
    BY <1>3 DEF Expire, Lapse, inventoryVars
  <2> QED
    BY <1>0, <2>1, NoCheckoutChanges, OpenRequestAgrees
<1> QED
  BY <1>1, <1>2, <1>3

\* The provider, the reconciling job and the import change no row of these.
LEMMA OutsideAgrees ==
  ASSUME CommerceTypeOK, RowsInv, ReadInv,
         \/ \E p \in Payments : BuyerPays(p) \/ AttemptFails(p)
         \/ \E w \in Workers, p \in Payments : CreatePaymentTimesOut(w, p)
         \/ \E m \in Messages : Reconcile(m)
         \/ ImportStep
         \/ UNCHANGED commerceVars
  PROVE  RowsInv' /\ ReadInv'
<1>1. UNCHANGED <<checkout, auth, expired, tx, hold, order, payment>>
  BY DEF BuyerPays, AttemptFails, CreatePaymentTimesOut, Reconcile, ImportStep, Import,
         ImportRead, ImportFlush, ImportAbort, commerceVars, checkoutVars, inventoryVars,
         paymentVars
<1> QED
  BY <1>1, NoCheckoutChanges, OpenRequestAgrees

-----------------------------------------------------------------------------
(* The same: what a request reads *)

\* A request that reads a checkout.
LEMMA BeginAgrees ==
  ASSUME CommerceTypeOK, ReferencesExist, RowsInv, RequestsDoNotOverlap,
         NEW w \in Workers, NEW c \in Checkouts,
         \/ /\ BeginCancel(w, c) \/ BeginRequest(w, c) \/ BeginApprove(w, c) \/ BeginReject(w, c)
            /\ UNCHANGED paymentVars
         \/ BeginPayNow(w, c)
  PROVE  RowsInv' /\ ReadInv'
<1>1. checkout[c] \in CheckoutStatuses \ {"none"}
  BY DEF BeginCancel, BeginRequest, Requestable, BeginApprove, BeginReject, BeginPayNow,
         ReferencesExist, CommerceTypeOK
<1>2. PICK op \in CheckoutOps : (IF op = "paynow" THEN BeginPayNow(w, c) ELSE Begin(w, op, c)) /\
        /\ op = "cancel" => CheckoutCan(checkout[c], "CANCEL_CHECKOUT")
        /\ op = "reject" => auth[c] \in {"pending", "approved"}
                            /\ CheckoutCan(checkout[c], "REJECT_AUTHORIZATION")
        /\ op = "approve" => auth[c] = "pending"
                             /\ CheckoutCan(checkout[c], "APPROVE_AUTHORIZATION")
        /\ op = "paynow" => checkout[c] \notin {"cancelled", "expired", "completed"}
  <2>1. CASE BeginCancel(w, c)
    BY <2>1 DEF BeginCancel, CheckoutOps
  <2>2. CASE BeginRequest(w, c)
    BY <2>2 DEF BeginRequest, CheckoutOps
  <2>3. CASE BeginApprove(w, c)
    BY <2>3 DEF BeginApprove, CheckoutOps
  <2>4. CASE BeginReject(w, c)
    BY <2>4 DEF BeginReject, CheckoutOps
  <2>5. CASE BeginPayNow(w, c)
    BY <2>5 DEF BeginPayNow, CheckoutOps
  <2> QED
    BY <2>1, <2>2, <2>3, <2>4, <2>5
<1>3. UNCHANGED <<checkout, auth, expired, hold, order, payment>>
  BY <1>2 DEF Begin, inventoryVars, BeginPayNow, paymentVars
<1>4. /\ tx'[w].op = op /\ tx'[w].c = c /\ tx'[w].chk = checkout[c]
      /\ \A v \in Workers : v = w
  BY <1>2 DEF Begin, BeginPayNow, CommerceTypeOK, RequestsDoNotOverlap
<1>5. op = "paynow" => tx'[w].ath = auth[c]
  BY <1>2 DEF BeginPayNow, CommerceTypeOK
<1>6. ReadAgrees(w)'
  BY <1>1, <1>2, <1>3, <1>4, <1>5, WhichCan DEF ReadAgrees, StillRead, CheckoutOps
<1> QED
  BY <1>3, <1>4, <1>6, NoCheckoutChanges DEF ReadInv

\* The rows of a checkout, as one of its payments sees them.
LEMMA PaymentAgrees ==
  ASSUME RowsInv, NEW p \in Payments
  PROVE  /\ payment[p] # "none" => auth[p[1]] = "consumed"
         /\ payment[p] = "pending" =>
              checkout[p[1]] \in Unsold /\ (checkout[p[1]] = "authorized" => hold[p[1]] = "held")
         /\ payment[p] = "verified" => order[p[1]] = p[2]
         /\ \A l \in Keys :
              payment[p] # "none" /\ payment[<<p[1], l>>] # "none" => l = p[2]
<1> DEFINE c == p[1]
           k == p[2]
<1>1. c \in Checkouts /\ k \in Keys /\ p = <<c, k>>
  BY PaymentParts
<1>2. CheckoutAgrees(c)
  BY <1>1 DEF RowsInv
<1> HIDE DEF c, k
<1>3. /\ payment[<<c, k>>] # "none" => auth[c] = "consumed"
      /\ payment[<<c, k>>] = "pending" =>
           checkout[c] \in Unsold /\ (checkout[c] = "authorized" => hold[c] = "held")
      /\ payment[<<c, k>>] = "verified" => order[c] = k
      /\ \A l \in Keys :
           payment[<<c, k>>] # "none" /\ payment[<<c, l>>] # "none" => l = k
  BY <1>1, <1>2 DEF CheckoutAgrees
<1> QED
  BY <1>1, <1>3 DEF c, k

\* A request that reads a payment, and the failing one that then reads its
\* checkout, which an open payment leaves authorized or dead.
LEMMA OpensAgrees ==
  ASSUME CommerceTypeOK, ReferencesExist, RowsInv, ReadInv, RequestsDoNotOverlap,
         NEW w \in Workers,
         \/ \E p \in Payments : \/ BeginWebhookVerify(w, p) \/ BeginCallbackVerify(w, p)
                                \/ BeginWebhookFail(w, p)
         \/ FailReadsCheckout(w)
  PROVE  RowsInv' /\ ReadInv'
<1>1. UNCHANGED <<checkout, auth, expired, hold, order, payment>> /\ \A v \in Workers : v = w
  BY DEF BeginWebhookVerify, BeginCallbackVerify, BeginWebhookFail, Opens, FailReadsCheckout,
         inventoryVars, paymentVars, RequestsDoNotOverlap
<1>2. CASE \E p \in Payments : \/ BeginWebhookVerify(w, p) \/ BeginCallbackVerify(w, p)
                               \/ BeginWebhookFail(w, p)
  <2>1. PICK p \in Payments, via \in {"webhook", "callback"} :
          Opens(w, Verifying(p, via)) \/ Opens(w, FailingPayment(p))
    BY <1>2 DEF BeginWebhookVerify, BeginCallbackVerify, BeginWebhookFail
  <2>2. tx'[w].op \in {"verify", "fail"} /\ tx'[w].pay = p /\ tx'[w].paid = payment[p]
    BY <2>1 DEF Opens, Verifying, FailingPayment, CommerceTypeOK
  <2>3. ReadAgrees(w)'
    BY <1>1, <2>2 DEF ReadAgrees, CheckoutOps
  <2> QED
    BY <1>1, <2>3, NoCheckoutChanges DEF ReadInv
<1>3. CASE FailReadsCheckout(w)
  <2>1. /\ tx[w].op = "fail" /\ PaymentCan(tx[w].paid, "FAIL_PAYMENT")
        /\ tx'[w].op = "failing" /\ tx'[w].pay = tx[w].pay
        /\ tx'[w].chk = checkout[tx[w].pay[1]]
    BY <1>3 DEF FailReadsCheckout, Running, CommerceTypeOK
  <2>2. /\ tx[w].pay \in Payments /\ tx[w].paid = "pending"
        /\ payment[tx[w].pay] = "pending"
    BY <2>1, TransactionFields, WhichPaymentFails DEF ReadInv, ReadAgrees
  <2>3. checkout[tx[w].pay[1]] \in Unsold
    BY <2>2, PaymentAgrees
  <2>4. ReadAgrees(w)'
    BY <1>1, <2>1, <2>2, <2>3 DEF ReadAgrees, CheckoutOps
  <2> QED
    BY <1>1, <2>4, NoCheckoutChanges DEF ReadInv
<1> QED
  BY <1>2, <1>3

-----------------------------------------------------------------------------
(* The same: requests about a checkout end *)

\* What a request about a checkout knows of it when it writes.
LEMMA RequestKnows ==
  ASSUME CommerceTypeOK, RowsInv, ReadInv, NEW w \in Workers, tx[w].op \in CheckoutOps
  PROVE  /\ tx[w].c \in Checkouts /\ CheckoutAgrees(tx[w].c) /\ ReadAgrees(w)
         /\ StillRead(tx[w].c, tx[w].chk) /\ tx[w].chk \in CheckoutStatuses \ {"none"}
         /\ tx[w].chk \in SweptStatuses => order[tx[w].c] = NoOrder
<1>1. /\ tx[w].c \in Checkouts /\ tx[w].chk \in CheckoutStatuses \ {"none"}
  BY TransactionFields
<1>2. CheckoutAgrees(tx[w].c) /\ ReadAgrees(w)
  BY <1>1 DEF RowsInv, ReadInv
<1>3. StillRead(tx[w].c, tx[w].chk)
  BY <1>2 DEF ReadAgrees
<1>4. tx[w].chk \in SweptStatuses => order[tx[w].c] = NoOrder
  BY <1>2, <1>3 DEF StillRead, SweptStatuses, CheckoutAgrees
<1> QED
  BY <1>1, <1>2, <1>3, <1>4

\* A cancelled or rejected checkout was still unsold, and a rejected one unpaid.
LEMMA CancelsAgree ==
  ASSUME CommerceTypeOK, RowsInv, ReadInv, RequestsDoNotOverlap, NEW w \in Workers,
         FinishCancel(w) \/ FinishReject(w), UNCHANGED paymentVars
  PROVE  RowsInv' /\ ReadInv'
<1>1. tx[w].op \in {"cancel", "reject"} /\ Commits(w)
  BY DEF FinishCancel, FinishReject, Running
<1>c. PICK c \in Checkouts : c = tx[w].c
  BY <1>1, RequestKnows DEF CheckoutOps
<1>2. /\ CheckoutAgrees(c) /\ ReadAgrees(w)
      /\ tx[w].chk \in SweptStatuses => order[c] = NoOrder
  BY <1>1, <1>c, RequestKnows DEF CheckoutOps
<1>3. order[c] = NoOrder
  BY <1>1, <1>2 DEF ReadAgrees
<1>4. /\ checkout' = [checkout EXCEPT ![c] = "cancelled"] /\ ReleaseStock(c)
      /\ auth' = auth \/ (/\ auth' = [auth EXCEPT ![c] = "rejected"]
                          /\ auth[c] \in {"pending", "approved"})
      /\ expired' = expired /\ UNCHANGED <<payment, order>>
  BY <1>1, <1>2, <1>c, CheckoutAfterEvents
  DEF FinishCancel, FinishReject, Running, ReadAgrees, paymentVars
<1>5. OnlyRowsOf(c)
  BY <1>2, <1>4, ReleaseOutcome DEF OnlyRowsOf, CommerceTypeOK
<1>6. CheckoutAgrees(c)'
  BY <1>2, <1>3, <1>4 DEF CheckoutAgrees, CommerceTypeOK, Unsold, SweptStatuses
<1> QED
  BY <1>1, <1>2, <1>4, <1>5, <1>6, OneCheckoutChanges, CommittedAgrees

\* An authorization is requested or approved: nothing was paid before, and the
\* checkout is brought back to life only past its deadline.
LEMMA GrantsAgree ==
  ASSUME CommerceTypeOK, RowsInv, ReadInv, RequestsDoNotOverlap, NEW w \in Workers,
         \/ FinishApprove(w)
         \/ FinishRequest(w, "USE_EXISTING_AUTHORIZATION", "approved")
         \/ FinishRequest(w, "REQUIRE_APPROVAL", "pending"),
         UNCHANGED paymentVars
  PROVE  RowsInv' /\ ReadInv'
<1>1. tx[w].op \in {"approve", "request"} /\ Commits(w)
  BY DEF FinishApprove, FinishRequest, Running
<1>c. PICK c \in Checkouts : c = tx[w].c
  BY <1>1, RequestKnows DEF CheckoutOps
<1>2. /\ CheckoutAgrees(c) /\ ReadAgrees(w)
      /\ tx[w].chk \in SweptStatuses => order[c] = NoOrder
      /\ StillRead(c, tx[w].chk) /\ tx[w].chk \in CheckoutStatuses \ {"none"}
  BY <1>1, <1>c, RequestKnows DEF CheckoutOps
<1>3. \E to \in {"authorized", "authorization_pending"}, a \in {"approved", "pending"} :
        /\ checkout' = [checkout EXCEPT ![c] = to] /\ auth' = [auth EXCEPT ![c] = a]
        /\ a = "approved" => to = "authorized"
        /\ auth[c] \in {"none", "pending"}
        /\ tx[w].chk \in {"created", "authorization_pending"}
  <2>1. CASE FinishApprove(w)
    BY <1>2, <1>c, <2>1, CheckoutAfterEvents DEF FinishApprove, Running, ReadAgrees
  <2>2. CASE FinishRequest(w, "USE_EXISTING_AUTHORIZATION", "approved")
    BY <1>2, <1>c, <2>2, CheckoutAfterEvents, WhichCan DEF FinishRequest
  <2>3. CASE FinishRequest(w, "REQUIRE_APPROVAL", "pending")
    BY <1>2, <1>c, <2>3, CheckoutAfterEvents, WhichCan DEF FinishRequest
  <2> QED
    BY <2>1, <2>2, <2>3
<1>4. UNCHANGED <<expired, hold, payment, order>>
  BY DEF FinishApprove, FinishRequest, inventoryVars, paymentVars
<1>5. /\ order[c] = NoOrder
      /\ c \notin expired => checkout[c] \in SweptStatuses
  BY <1>2, <1>3 DEF StillRead, SweptStatuses
<1>6. OnlyRowsOf(c)
  BY <1>2, <1>3, <1>4 DEF OnlyRowsOf, CommerceTypeOK
<1>7. auth'[c] # "consumed" /\ checkout'[c] \in {"authorized", "authorization_pending"}
      /\ (auth'[c] = "approved" => checkout'[c] = "authorized")
  BY <1>2, <1>3 DEF CommerceTypeOK
<1>8. \A k \in Keys : payment[<<c, k>>] = "none"
  BY <1>2, <1>3 DEF CheckoutAgrees
<1>9. CheckoutAgrees(c)'
  BY <1>2, <1>4, <1>5, <1>7, <1>8 DEF CheckoutAgrees, Unsold, SweptStatuses
<1> QED
  BY <1>1, <1>2, <1>4, <1>6, <1>9, OneCheckoutChanges, CommittedAgrees

\* An aborted request has written nothing.
LEMMA AbortAgrees ==
  ASSUME CommerceTypeOK, RowsInv, RequestsDoNotOverlap, NEW w \in Workers,
         Abort(w), UNCHANGED paymentVars
  PROVE  RowsInv' /\ ReadInv'
<1>1. UNCHANGED <<checkout, auth, expired, hold, order, payment>> /\ Commits(w)
  BY DEF Abort, inventoryVars, paymentVars
<1> QED
  BY <1>1, NoCheckoutChanges, CommittedAgrees

-----------------------------------------------------------------------------
(* The same: payments are created *)

\* A checkout that is authorized and unpaid gets its first payment.
LEMMA FirstPaymentAgrees ==
  ASSUME CommerceTypeOK, RowsInv, NEW c \in Checkouts, NEW k \in Keys,
         PaymentCreated(<<c, k>>), UNCHANGED <<order, expired>>,
         checkout'[c] = "authorized", hold'[c] = "held", order[c] = NoOrder,
         \A l \in Keys : payment[<<c, l>>] = "none",
         \A d \in Checkouts : d # c => checkout'[d] = checkout[d] /\ hold'[d] = hold[d]
  PROVE  RowsInv'
<1>1. <<c, k>> \in Payments /\ <<c, k>>[1] = c
  BY DEF Payments
<1>2. /\ payment' = [payment EXCEPT ![<<c, k>>] = "pending"]
      /\ auth' = [auth EXCEPT ![c] = "consumed"]
  BY <1>1, PaymentAfterEvents DEF PaymentCreated
<1>3. /\ auth'[c] = "consumed" /\ payment'[<<c, k>>] = "pending"
      /\ \A d \in Checkouts : d # c => auth'[d] = auth[d]
      /\ \A d \in Checkouts, l \in Keys :
           <<d, l>> # <<c, k>> => payment'[<<d, l>>] = payment[<<d, l>>]
  BY <1>1, <1>2 DEF CommerceTypeOK, Payments
<1>4. OnlyRowsOf(c)
  BY <1>3 DEF OnlyRowsOf
<1>5. \A l \in Keys : l # k => payment'[<<c, l>>] = "none"
  BY <1>3
<1>6. CheckoutAgrees(c)'
  BY <1>3, <1>5 DEF CheckoutAgrees, Unsold, SweptStatuses
<1> QED
  BY <1>4, <1>6, OneCheckoutChanges

LEMMA CreatesAgree ==
  ASSUME CommerceTypeOK, ReferencesExist, RowsInv, ReadInv, RequestsDoNotOverlap,
         NEW w \in Workers,
         \/ \E p \in Payments : CreatePayment(w, p)
         \/ FinishPayNow(w)
         \/ \E c \in Checkouts : BuyNow(w, c)
  PROVE  RowsInv' /\ ReadInv'
<1>0. /\ checkout \in [Checkouts -> CheckoutStatuses] /\ CheckoutKey \in Keys
      /\ tx \in [Workers -> {Idle} \cup Transactions]
  BY CommerceAssumption DEF CommerceTypeOK
<1>1. ASSUME NEW p \in Payments, CreatePayment(w, p) PROVE RowsInv' /\ ReadInv'
  <2>1. PICK c \in Checkouts, k \in Keys : p = <<c, k>> /\ p[1] = c
    BY PaymentParts
  <2>2. /\ checkout[c] \notin {"cancelled", "expired"} /\ c \notin expired
        /\ auth[c] = "approved" /\ PaymentCreated(<<c, k>>)
        /\ UNCHANGED <<checkout, expired, tx, hold, order>> /\ tx[w] = Idle
    BY <1>1, <2>1 DEF CreatePayment, PaymentAdmitted, inventoryVars
  <2>3. CheckoutAgrees(c)
    BY DEF RowsInv
  <2>4. /\ checkout[c] = "authorized" /\ hold[c] = "held" /\ order[c] = NoOrder
        /\ \A l \in Keys : payment[<<c, l>>] = "none"
    BY <2>2, <2>3 DEF CheckoutAgrees, Unsold, SweptStatuses
  <2>5. Commits(w)
    BY <1>0, <2>2 DEF Commits
  <2> QED
    BY <2>2, <2>4, <2>5, FirstPaymentAgrees, CommittedAgrees
<1>2. CASE FinishPayNow(w)
  <2> DEFINE c == tx[w].c
  <2>1. tx[w].op = "paynow" /\ Commits(w)
    BY <1>2 DEF FinishPayNow, Running
  <2>2. /\ c \in Checkouts /\ CheckoutAgrees(c) /\ ReadAgrees(w)
        /\ StillRead(c, tx[w].chk) /\ tx[w].chk \in CheckoutStatuses \ {"none"}
    BY <2>1, RequestKnows DEF CheckoutOps
  <2>3. /\ c \notin expired /\ PaymentCreated(<<c, CheckoutKey>>)
        /\ UNCHANGED <<expired, hold, order>>
        /\ \/ auth[c] = "approved" /\ UNCHANGED checkout
           \/ /\ auth[c] = "none" /\ CheckoutCan(tx[w].chk, "USE_EXISTING_AUTHORIZATION")
              /\ checkout' = [checkout EXCEPT ![c] = "authorized"]
    BY <1>2, <2>1, <2>2, CheckoutAfterEvents DEF FinishPayNow, ReadAgrees, inventoryVars
  <2>4. checkout[c] = tx[w].chk /\ checkout[c] \notin {"cancelled", "expired", "completed"}
    BY <2>1, <2>2, <2>3 DEF StillRead, ReadAgrees
  <2> HIDE DEF c
  <2>5. /\ checkout'[c] = "authorized" /\ checkout[c] \in SweptStatuses
        /\ \A d \in Checkouts : d # c => checkout'[d] = checkout[d] /\ hold'[d] = hold[d]
    <3>1. CASE auth[c] = "approved" /\ UNCHANGED checkout
      BY <2>2, <2>3, <2>4, <3>1 DEF CheckoutAgrees, Unsold, SweptStatuses
    <3>2. CASE /\ auth[c] = "none" /\ CheckoutCan(tx[w].chk, "USE_EXISTING_AUTHORIZATION")
               /\ checkout' = [checkout EXCEPT ![c] = "authorized"]
      BY <1>0, <2>2, <2>3, <2>4, <3>2, WhichCan DEF SweptStatuses
    <3> QED
      BY <2>3, <3>1, <3>2
  <2>6. /\ hold[c] = "held" /\ order[c] = NoOrder
        /\ \A l \in Keys : payment[<<c, l>>] = "none"
    BY <2>2, <2>3, <2>4, <2>5 DEF CheckoutAgrees
  <2> QED
    BY <1>0, <2>1, <2>2, <2>3, <2>5, <2>6, FirstPaymentAgrees, CommittedAgrees
<1>3. ASSUME NEW c \in Checkouts, BuyNow(w, c) PROVE RowsInv' /\ ReadInv'
  <2>1. /\ checkout[c] = "none" /\ ReserveStock(c) /\ PaymentCreated(<<c, CheckoutKey>>)
        /\ checkout' = [checkout EXCEPT ![c] = "authorized"]
        /\ UNCHANGED <<expired, tx, order>> /\ tx[w] = Idle
    BY <1>3, CheckoutAfterEvents DEF BuyNow
  <2>2. /\ order[c] = NoOrder /\ \A l \in Keys : payment[<<c, l>>] = "none"
    BY <2>1, NothingBefore
  <2>3. /\ checkout'[c] = "authorized" /\ hold'[c] = "held"
        /\ \A d \in Checkouts : d # c => checkout'[d] = checkout[d] /\ hold'[d] = hold[d]
    BY <1>0, <2>1, ReserveEffect
  <2>4. Commits(w)
    BY <1>0, <2>1 DEF Commits
  <2> QED
    BY <1>0, <2>1, <2>2, <2>3, <2>4, FirstPaymentAgrees, CommittedAgrees
<1> QED
  BY <1>1, <1>2, <1>3

-----------------------------------------------------------------------------
(* The same: payments are verified and fail *)

\* The payment a transaction is about, when no other request ran since it read.
LEMMA SettlingKnows ==
  ASSUME CommerceTypeOK, RowsInv, ReadInv, NEW w \in Workers,
         tx[w].op \in {"verify", "fail", "failing"}
  PROVE  \E p \in Payments, c \in Checkouts, k \in Keys :
           /\ p = tx[w].pay /\ p = <<c, k>> /\ p[1] = c /\ p[2] = k
           /\ CheckoutAgrees(c)
           /\ tx[w].op # "failing" => payment[p] = tx[w].paid
           /\ tx[w].op = "failing" => payment[p] = "pending" /\ tx[w].chk \in Unsold
           /\ payment[p] = "pending" =>
                /\ checkout[c] \in Unsold /\ order[c] = NoOrder /\ auth[c] = "consumed"
                /\ checkout[c] = "authorized" => hold[c] = "held"
                /\ \A l \in Keys : l # k => payment[<<c, l>>] = "none"
           /\ payment[p] = "verified" => order[c] = k
<1>1. PICK p \in Payments : p = tx[w].pay
  BY TransactionFields
<1>2. PICK c \in Checkouts, k \in Keys : p = <<c, k>> /\ p[1] = c /\ p[2] = k
  BY PaymentParts
<1>3. CheckoutAgrees(c)
  BY DEF RowsInv
<1>4. /\ tx[w].op # "failing" => payment[p] = tx[w].paid
      /\ tx[w].op = "failing" => payment[p] = "pending" /\ tx[w].chk \in Unsold
  BY <1>1 DEF ReadInv, ReadAgrees
<1>5. /\ payment[p] = "pending" =>
           /\ checkout[c] \in Unsold /\ auth[c] = "consumed"
           /\ checkout[c] = "authorized" => hold[c] = "held"
           /\ \A l \in Keys : l # k => payment[<<c, l>>] = "none"
      /\ payment[p] = "verified" => order[c] = k
  BY <1>2, PaymentAgrees
<1>6. checkout[c] \in Unsold => order[c] = NoOrder
  BY <1>3 DEF CheckoutAgrees, Unsold
<1> QED
  BY <1>1, <1>2, <1>3, <1>4, <1>5, <1>6

\* A payment is verified: again, with its order, or not at all.  Nobody else
\* completed the checkout, and no verified payment stays behind without an order.
LEMMA VerifiesAgree ==
  ASSUME CommerceTypeOK, RowsInv, ReadInv, RequestsDoNotOverlap, NEW w \in Workers,
         \/ VerifyAgain(w) \/ VerifyAndConfirm(w) \/ VerifyCompleted(w)
         \/ VerifyRefused(w) \/ VerifyHalfDone(w)
  PROVE  RowsInv' /\ ReadInv'
<1>1. tx[w].op = "verify" /\ Commits(w) /\ expired' = expired
  BY DEF VerifyAgain, VerifyAndConfirm, VerifyCompleted, VerifyRefused, VerifyHalfDone,
         Running, Unchecked
<1>2. PICK p \in Payments, c \in Checkouts, k \in Keys :
        /\ p = tx[w].pay /\ p = <<c, k>> /\ p[1] = c /\ p[2] = k
        /\ CheckoutAgrees(c) /\ payment[p] = tx[w].paid
        /\ payment[p] = "pending" =>
             /\ checkout[c] \in Unsold /\ order[c] = NoOrder /\ auth[c] = "consumed"
             /\ checkout[c] = "authorized" => hold[c] = "held"
             /\ \A l \in Keys : l # k => payment[<<c, l>>] = "none"
        /\ payment[p] = "verified" => order[c] = k
  BY <1>1, SettlingKnows
<1>3. /\ order \in [Checkouts -> Keys \cup {NoOrder}]
      /\ checkout \in [Checkouts -> CheckoutStatuses]
      /\ payment \in [Payments -> PaymentStatuses]
  BY DEF CommerceTypeOK
<1>4. RowsInv'
  <2>1. CASE VerifyAgain(w)
    <3>1. /\ payment[p] = "verified" /\ ConfirmOrder(p)
          /\ UNCHANGED <<checkout, auth, hold, payment>>
      BY <1>2, <2>1 DEF VerifyAgain, Unchecked, inventoryVars
    <3>2. order' = order
      BY <1>2, <1>3, <3>1 DEF ConfirmOrder
    <3> QED
      BY <1>1, <3>1, <3>2, NoCheckoutChanges
  <2>2. CASE VerifyAndConfirm(w)
    <3>1. /\ payment[p] = "pending" /\ CommitStock(c) /\ auth' = auth
          /\ payment' = [payment EXCEPT ![p] = "verified"]
          /\ checkout' = [checkout EXCEPT ![c] = "completed"]
          /\ order' = [order EXCEPT ![c] = k]
      BY <1>2, <2>2, CheckoutAfterEvents, PaymentAfterEvents
      DEF VerifyAndConfirm, GatePasses, Pays, Completes, ConfirmOrder, Unchecked
    <3>2. /\ payment'[<<c, k>>] = "verified" /\ checkout'[c] = "completed"
          /\ order'[c] = k /\ hold'[c] = "committed"
          /\ \A d \in Checkouts : d # c => hold'[d] = hold[d]
          /\ \A d \in Checkouts, l \in Keys :
               <<d, l>> # <<c, k>> => payment'[<<d, l>>] = payment[<<d, l>>]
      BY <1>2, <1>3, <3>1, CommitEffect DEF Payments
    <3>3. OnlyRowsOf(c)
      BY <1>3, <3>1, <3>2 DEF OnlyRowsOf
    <3>4. auth'[c] = "consumed" /\ \A l \in Keys : l # k => payment'[<<c, l>>] = "none"
      BY <1>2, <3>1, <3>2
    <3>5. k # NoOrder
      BY CommerceAssumption
    <3>6. CheckoutAgrees(c)'
      BY <3>2, <3>4, <3>5 DEF CheckoutAgrees, SweptStatuses, Unsold
    <3> QED
      BY <1>1, <3>3, <3>6, OneCheckoutChanges
  <2>3. ~ VerifyCompleted(w)
    BY <1>2 DEF VerifyCompleted, GatePasses, Unsold
  <2>4. CASE VerifyRefused(w)
    BY <1>1, <2>4, NoCheckoutChanges DEF VerifyRefused, inventoryVars
  <2>5. ~ VerifyHalfDone(w)
    <3>1. checkout[c] \in CheckoutStatuses \ {"none"} =>
            (CheckoutCan(checkout[c], "COMPLETE_ORDER") <=> checkout[c] = "authorized")
      BY WhichCan
    <3>2. Unsold \subseteq CheckoutStatuses \ {"none"}
      BY CheckoutStatusNames DEF Unsold
    <3> QED
      BY <1>2, <3>1, <3>2 DEF VerifyHalfDone, GatePasses, Unsold, CommitRaises, Confirmable
  <2> QED
    BY <2>1, <2>2, <2>3, <2>4, <2>5
<1> QED
  BY <1>1, <1>4, CommittedAgrees

\* A failed payment leaves a dead checkout dead, and takes its stock from an
\* authorized one together with its life.
LEMMA FailuresAgree ==
  ASSUME CommerceTypeOK, RowsInv, ReadInv, RequestsDoNotOverlap, NEW w \in Workers,
         FailRefused(w) \/ FinishFail(w)
  PROVE  RowsInv' /\ ReadInv'
<1>1. Commits(w) /\ expired' = expired
  BY DEF FailRefused, FinishFail, Unchecked
<1>2. CASE FailRefused(w)
  BY <1>1, <1>2, NoCheckoutChanges, CommittedAgrees DEF FailRefused, inventoryVars
<1>3. CASE FinishFail(w)
  <2>1. PICK p \in Payments, c \in Checkouts, k \in Keys :
          /\ p = tx[w].pay /\ p = <<c, k>> /\ p[1] = c
          /\ CheckoutAgrees(c) /\ tx[w].chk \in Unsold
          /\ checkout[c] \in Unsold /\ order[c] = NoOrder /\ auth[c] = "consumed"
          /\ checkout[c] = "authorized" => hold[c] = "held"
          /\ \A l \in Keys : l # k => payment[<<c, l>>] = "none"
    BY <1>3, SettlingKnows DEF FinishFail, Running
  <2>2. /\ payment' = [payment EXCEPT ![p] = "failed"] /\ UNCHANGED <<auth, order>>
        /\ \/ tx[w].chk \in TerminalStatuses /\ UNCHANGED <<checkout, hold>>
           \/ /\ tx[w].chk \notin TerminalStatuses /\ ReleaseStock(c)
              /\ \/ checkout' = [checkout EXCEPT ![c] = "payment_failed"]
                 \/ ~CheckoutCan(tx[w].chk, "FAIL_PAYMENT")
    BY <1>3, <2>1, CheckoutAfterEvents, PaymentAfterEvents
    DEF FinishFail, Fails, Unchecked, inventoryVars
  <2>3. tx[w].chk \notin TerminalStatuses => CheckoutCan(tx[w].chk, "FAIL_PAYMENT")
    <3>1. Unsold \subseteq CheckoutStatuses \ {"none"}
      BY CheckoutStatusNames DEF Unsold
    <3> QED
      BY <2>1, <3>1, WhichCan DEF TerminalStatuses, Unsold
  <2>4. /\ payment'[<<c, k>>] = "failed"
        /\ \A d \in Checkouts, l \in Keys :
             <<d, l>> # <<c, k>> => payment'[<<d, l>>] = payment[<<d, l>>]
    BY <2>1, <2>2 DEF CommerceTypeOK, Payments
  <2>5. \/ UNCHANGED <<checkout, hold>>
        \/ checkout' = [checkout EXCEPT ![c] = "payment_failed"] /\ ReleaseStock(c)
    BY <2>2, <2>3
  <2>6. OnlyRowsOf(c)
    BY <2>2, <2>4, <2>5, ReleaseOutcome DEF OnlyRowsOf, CommerceTypeOK
  <2>7. auth'[c] = "consumed" /\ order'[c] = NoOrder
        /\ \A l \in Keys : l # k => payment'[<<c, l>>] = "none"
    BY <2>1, <2>2, <2>4
  <2>8. CheckoutAgrees(c)'
    <3>1. CASE UNCHANGED <<checkout, hold>>
      BY <1>1, <2>1, <2>4, <2>7, <3>1 DEF CheckoutAgrees, Unsold, SweptStatuses
    <3>2. CASE checkout' = [checkout EXCEPT ![c] = "payment_failed"]
      <4>1. checkout'[c] = "payment_failed"
        BY <3>2 DEF CommerceTypeOK
      <4> QED
        BY <2>4, <2>7, <4>1 DEF CheckoutAgrees, Unsold, SweptStatuses
    <3> QED
      BY <2>5, <3>1, <3>2
  <2> QED
    BY <1>1, <2>6, <2>8, OneCheckoutChanges, CommittedAgrees
<1> QED
  BY <1>2, <1>3

-----------------------------------------------------------------------------
(* The same: the invariant *)

\* The first state has no rows at all.
LEMMA RowsAgreeAtFirst == CommerceInit => RowsInv /\ ReadInv
<1> SUFFICES ASSUME CommerceInit PROVE RowsInv /\ ReadInv
  OBVIOUS
<1>1. \A c \in Checkouts :
        /\ checkout[c] = "none" /\ auth[c] = "none" /\ order[c] = NoOrder
        /\ \A k \in Keys : payment[<<c, k>>] = "none"
  BY DEF CommerceInit, CheckoutInit, Payments
<1>2. RowsInv
  BY <1>1 DEF RowsInv, CheckoutAgrees, SweptStatuses
<1>3. \A w \in Workers : tx[w].op = "idle"
  BY DEF CommerceInit, CheckoutInit, Idle
<1> QED
  BY <1>2, <1>3 DEF ReadInv, ReadAgrees, CheckoutOps

LEMMA RowsAgreeStep ==
  ASSUME RequestsDoNotOverlap, CommerceTypeOK, ReferencesExist, RowsInv, ReadInv,
         [CommerceNext]_commerceVars
  PROVE  RowsInv' /\ ReadInv'
<1>1. CASE ImportStep \/ UNCHANGED commerceVars
  BY <1>1, OutsideAgrees
<1>2. CASE CheckoutStep
  <2>1. CASE \E c \in Checkouts : CreateCheckout(c) \/ Expire(c) \/ Lapse(c) \/ Sweep(c)
    BY <1>2, <2>1, JobsAgree DEF CheckoutStep
  <2>2. CASE \E w \in Workers, c \in Checkouts :
               BeginCancel(w, c) \/ BeginRequest(w, c) \/ BeginApprove(w, c) \/ BeginReject(w, c)
    BY <1>2, <2>2, BeginAgrees DEF CheckoutStep
  <2>3. ASSUME NEW w \in Workers,
               \/ FinishCancel(w) \/ FinishApprove(w) \/ FinishReject(w) \/ Abort(w)
               \/ FinishRequest(w, "USE_EXISTING_AUTHORIZATION", "approved")
               \/ FinishRequest(w, "REQUIRE_APPROVAL", "pending")
        PROVE  RowsInv' /\ ReadInv'
    BY <1>2, <2>3, CancelsAgree, GrantsAgree, AbortAgrees DEF CheckoutStep
  <2> QED
    BY <1>2, <2>1, <2>2, <2>3 DEF CheckoutStep
<1>3. CASE PaymentStep
  <2>1. ASSUME NEW w \in Workers, NEW p \in Payments,
               \/ CreatePayment(w, p) \/ CreatePaymentTimesOut(w, p)
               \/ BeginWebhookVerify(w, p) \/ BeginCallbackVerify(w, p) \/ BeginWebhookFail(w, p)
        PROVE  RowsInv' /\ ReadInv'
    BY <2>1, CreatesAgree, OutsideAgrees, OpensAgrees
  <2>2. ASSUME NEW w \in Workers, NEW c \in Checkouts, BeginPayNow(w, c) \/ BuyNow(w, c)
        PROVE  RowsInv' /\ ReadInv'
    BY <2>2, BeginAgrees, CreatesAgree
  <2>3. CASE \/ \E p \in Payments : BuyerPays(p) \/ AttemptFails(p)
             \/ \E m \in Messages : Reconcile(m)
    BY <2>3, OutsideAgrees
  <2>4. ASSUME NEW w \in Workers,
               \/ FinishPayNow(w)
               \/ VerifyAgain(w) \/ VerifyAndConfirm(w) \/ VerifyCompleted(w)
               \/ VerifyRefused(w) \/ VerifyHalfDone(w)
               \/ FailReadsCheckout(w) \/ FailRefused(w) \/ FinishFail(w)
        PROVE  RowsInv' /\ ReadInv'
    BY <2>4, CreatesAgree, VerifiesAgree, OpensAgrees, FailuresAgree
  <2> QED
    BY <1>3, <2>1, <2>2, <2>3, <2>4 DEF PaymentStep
<1> QED
  BY <1>1, <1>2, <1>3 DEF CommerceNext

\* When no request overlaps another, the rows of a checkout agree with one
\* another in every state, whatever jobs, webhook messages, deadlines, rollbacks
\* and imports come between the two steps of a request.
THEOREM RowsAgreeInTurn ==
  ASSUME RequestsDoNotOverlap
  PROVE  CommerceSpec => []RowsAgree
<1>1. CommerceInit => RowsInv /\ ReadInv
  BY RowsAgreeAtFirst
<1>2. CommerceInv /\ RowsInv /\ ReadInv /\ [CommerceNext]_commerceVars => (RowsInv /\ ReadInv)'
  BY RowsAgreeStep DEF CommerceInv
<1>3. RowsInv => RowsAgree
  BY DEF RowsInv, CheckoutAgrees, RowsAgree, ConfirmedIsSettled, VerifiedIsConfirmed,
         LiveHoldsStock, OnePaymentPerCheckout
<1> QED
  BY <1>1, <1>2, <1>3, CommerceInvariant, PTL DEF CommerceSpec

-----------------------------------------------------------------------------
(* Refunds: what the ledger says was refunded never exceeds what was       *)
(* captured and was made by the provider, for any payments, amounts and    *)
(* request threads, whatever is lost or rolled back.                       *)

Request == [of : Paid, amount : Nat \ {0}, called : BOOLEAN]

RefundTypes ==
  /\ refunded \in [Paid -> Nat] /\ returned \in [Paid -> Nat]
  /\ refunding \in [Clerks -> Request \cup {NoRefund}]

\* The row lock: one request at a time for a payment.
OneAtATime ==
  \A v, w \in Clerks :
    Refunding(v) /\ Refunding(w) /\ refunding[v].of = refunding[w].of => v = w

\* What a request has passed its checks with still fits, and what it has had
\* the provider return is not on record yet.
RequestFits ==
  \A w \in Clerks : Refunding(w) =>
    LET r == refunding[w] IN
      /\ refunded[r.of] + r.amount <= Captured[r.of]
      /\ r.called => refunded[r.of] + r.amount <= returned[r.of]

RefundsInv == RefundTypes /\ OneAtATime /\ RequestFits /\ RefundsOnRecordAreReal

LEMMA RefundsInitInv == RefundsInit => RefundsInv
BY RefundsAssumption
DEF RefundsInit, RefundsInv, RefundTypes, OneAtATime, RequestFits, RefundsOnRecordAreReal, Refunding

\* A request that leaves takes its lock and its claim with it.
LEMMA AbortKeeps ==
  ASSUME RefundsInv, NEW w \in Clerks, RefundAborts(w)
  PROVE  RefundsInv'
<1>1. RefundTypes'
  BY DEF RefundsInv, RefundTypes, RefundAborts
<1>2. OneAtATime'
  BY DEF RefundsInv, RefundTypes, OneAtATime, RefundAborts, Refunding
<1>3. RequestFits'
  BY DEF RefundsInv, RefundTypes, RequestFits, RefundAborts, Refunding
<1>4. RefundsOnRecordAreReal'
  BY DEF RefundsInv, RefundsOnRecordAreReal, RefundAborts
<1>5. QED BY <1>1, <1>2, <1>3, <1>4 DEF RefundsInv

LEMMA BeginKeeps ==
  ASSUME RefundsInv, NEW w \in Clerks, NEW p \in Paid, NEW asked \in Amounts \cup {Full},
         BeginRefund(w, p, asked)
  PROVE  RefundsInv'
<1> DEFINE amount == Requested(p, asked)
           r == [of |-> p, amount |-> amount, called |-> FALSE]
<1>1. amount \in Int
  BY RefundsAssumption DEF Requested
<1>2. /\ amount > 0 /\ amount <= Refundable(p)
      /\ refunding' = [refunding EXCEPT ![w] = r]
      /\ UNCHANGED <<refunded, returned>>
  BY DEF BeginRefund
<1>3. r \in Request
  BY <1>1, <1>2 DEF Request
<1>4. RefundTypes'
  BY <1>2, <1>3 DEF RefundsInv, RefundTypes
<1>5. \A v \in Clerks : Refunding(v) => refunding[v].of # p
  BY DEF BeginRefund, RowLocked
<1>6. OneAtATime'
  BY <1>2, <1>5 DEF RefundsInv, RefundTypes, OneAtATime, Refunding
<1>7. refunded[p] + amount <= Captured[p]
  BY <1>1, <1>2, RefundsAssumption DEF Refundable, RefundsInv, RefundTypes
<1>8. RequestFits'
  BY <1>2, <1>7 DEF RefundsInv, RefundTypes, RequestFits, Refunding
<1>9. RefundsOnRecordAreReal'
  BY <1>2 DEF RefundsInv, RefundsOnRecordAreReal
<1>10. QED BY <1>4, <1>6, <1>8, <1>9 DEF RefundsInv

LEMMA ProviderKeeps ==
  ASSUME RefundsInv, NEW w \in Clerks, ProviderRefunds(w)
  PROVE  RefundsInv'
<1> DEFINE p == refunding[w].of
           r == [refunding[w] EXCEPT !.called = TRUE]
<1>1. /\ Refunding(w) /\ refunding[w] \in Request /\ p \in Paid
      /\ refunding' = [refunding EXCEPT ![w] = r] /\ r \in Request
      /\ r.of = p /\ r.amount = refunding[w].amount
      /\ returned' = [returned EXCEPT ![p] = @ + refunding[w].amount]
      /\ UNCHANGED refunded
  BY DEF ProviderRefunds, RefundsInv, RefundTypes, Refunding, Request
<1>2. refunding[w].amount \in Nat
  BY <1>1 DEF Request
<1>3. RefundTypes'
  BY <1>1, <1>2 DEF RefundsInv, RefundTypes
<1>4. OneAtATime'
  BY <1>1, RefundsAssumption DEF RefundsInv, RefundTypes, OneAtATime, Refunding
<1>5. \A q \in Paid : returned'[q] >= returned[q]
  BY <1>1, <1>2 DEF RefundsInv, RefundTypes
<1>6. refunded[p] + r.amount <= returned'[p]
  BY <1>1, <1>2 DEF RefundsInv, RefundTypes, RefundsOnRecordAreReal
<1>7. RequestFits'
  <2> SUFFICES ASSUME NEW v \in Clerks, Refunding(v)'
               PROVE  LET s == refunding'[v] IN
                        /\ refunded'[s.of] + s.amount <= Captured[s.of]
                        /\ s.called => refunded'[s.of] + s.amount <= returned'[s.of]
    BY DEF RequestFits
  <2>1. CASE v = w
    BY <2>1, <1>1, <1>6 DEF RefundsInv, RefundTypes, RequestFits
  <2>2. CASE v # w
    <3>1. refunding'[v] = refunding[v] /\ Refunding(v)
      BY <2>2, <1>1 DEF RefundsInv, RefundTypes, Refunding
    <3>2. refunding[v] \in Request
      BY <3>1 DEF RefundsInv, RefundTypes, Refunding
    <3>3. /\ refunding[v].of \in Paid /\ refunding[v].amount \in Nat
      BY <3>2 DEF Request
    <3>4. /\ returned[refunding[v].of] \in Nat /\ returned'[refunding[v].of] \in Nat
          /\ refunded[refunding[v].of] \in Nat
      BY <3>3, <1>3 DEF RefundsInv, RefundTypes
    <3>5. QED BY <3>1, <3>3, <3>4, <1>1, <1>5 DEF RefundsInv, RequestFits
  <2>3. QED BY <2>1, <2>2
<1>8. RefundsOnRecordAreReal'
  BY <1>1, <1>3, <1>5 DEF RefundsInv, RefundTypes, RefundsOnRecordAreReal
<1>9. QED BY <1>3, <1>4, <1>7, <1>8 DEF RefundsInv

LEMMA FinishKeeps ==
  ASSUME RefundsInv, NEW w \in Clerks, FinishRefund(w)
  PROVE  RefundsInv'
<1> DEFINE p == refunding[w].of
<1>1. /\ Refunding(w) /\ refunding[w] \in Request /\ p \in Paid
      /\ refunding[w].called /\ refunding[w].amount \in Nat
      /\ refunding' = [refunding EXCEPT ![w] = NoRefund]
      /\ refunded' = [refunded EXCEPT ![p] = @ + refunding[w].amount]
      /\ UNCHANGED returned
  BY DEF FinishRefund, RefundsInv, RefundTypes, Refunding, Request
<1>2. RefundTypes'
  BY <1>1 DEF RefundsInv, RefundTypes
<1>3. OneAtATime'
  BY <1>1 DEF RefundsInv, RefundTypes, OneAtATime, Refunding
<1>4. RefundsOnRecordAreReal'
  BY <1>1 DEF RefundsInv, RefundTypes, RequestFits, RefundsOnRecordAreReal
<1>5. RequestFits'
  <2> SUFFICES ASSUME NEW v \in Clerks, Refunding(v)'
               PROVE  LET s == refunding'[v] IN
                        /\ refunded'[s.of] + s.amount <= Captured[s.of]
                        /\ s.called => refunded'[s.of] + s.amount <= returned'[s.of]
    BY DEF RequestFits
  <2>1. v # w /\ refunding'[v] = refunding[v] /\ Refunding(v)
    BY <1>1 DEF RefundsInv, RefundTypes, Refunding
  <2>2. refunding[v].of # p
    BY <2>1, <1>1 DEF RefundsInv, OneAtATime
  <2>3. refunding[v] \in Request
    BY <2>1 DEF RefundsInv, RefundTypes, Refunding
  <2>4. refunded'[refunding[v].of] = refunded[refunding[v].of]
    BY <1>1, <2>2, <2>3 DEF RefundsInv, RefundTypes, Request
  <2>5. QED BY <1>1, <2>1, <2>4 DEF RefundsInv, RequestFits
<1>6. QED BY <1>2, <1>3, <1>4, <1>5 DEF RefundsInv

LEMMA RefundsStepInv == RefundsInv /\ [RefundsNext]_refundVars => RefundsInv'
<1> SUFFICES ASSUME RefundsInv, [RefundsNext]_refundVars
             PROVE  RefundsInv'
  OBVIOUS
<1>1. ASSUME NEW p \in Paid, PaymentVerified(p)
      PROVE  RefundsInv'
  BY <1>1 DEF PaymentVerified, RefundsInv, RefundTypes, OneAtATime, RequestFits,
              RefundsOnRecordAreReal, Refunding
<1>2. CASE UNCHANGED refundVars
  BY <1>2 DEF refundVars, RefundsInv, RefundTypes, OneAtATime, RequestFits,
              RefundsOnRecordAreReal, Refunding
<1>3. QED BY <1>1, <1>2, BeginKeeps, ProviderKeeps, FinishKeeps, AbortKeeps DEF RefundsNext

\* The refunds on record never exceed the captured amount and were all made,
\* because the row lock keeps one request between its check and its record
\* (refund_payment).
THEOREM RefundsAreReal == RefundsSpec => []RefundsOnRecordAreReal
<1>1. RefundsInv => RefundsOnRecordAreReal
  BY DEF RefundsInv
<1>2. QED BY <1>1, RefundsInitInv, RefundsStepInv, PTL DEF RefundsSpec

=============================================================================
