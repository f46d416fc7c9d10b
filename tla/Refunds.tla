------------------------------ MODULE Refunds ------------------------------
(***************************************************************************)
(* Returning the money of a payment (refund_payment in services/payments/  *)
(* service.py, apps/api/routers/payments.py).                              *)
(*                                                                         *)
(* How much was returned is the sum of ledger rows appended by earlier     *)
(* refunds.  The provider is called while the payment's row is locked and  *)
(* before the row of this refund is committed, so it keeps what a request  *)
(* that dies, times out or rolls back leaves without a row.                *)
(***************************************************************************)
EXTENDS Integers

CONSTANTS
  Paid,       \* payments
  Captured,   \* what was captured of each
  Amounts,    \* what a caller may ask for, or Full
  Full,       \* the request names no amount
  Clerks,     \* request threads
  NoRefund,   \* not a refund: the thread has no request
  MaxCalls    \* bound on the refunds made at the provider

ASSUME RefundsAssumption ==
  /\ Captured \in [Paid -> Nat] /\ Amounts \subseteq Int /\ MaxCalls \in Nat
  /\ Full \notin Int
  /\ NoRefund \notin [of : Paid, amount : Int, called : BOOLEAN]

VARIABLES
  verified,   \* payments whose status is "verified"
  refunded,   \* the ledger's sum for each
  returned,   \* external: what the provider has returned of each
  refunding,  \* the request each thread serves, past its checks
  calls       \* how many refunds the provider has made

refundVars == <<verified, refunded, returned, refunding, calls>>

RefundsInit ==
  /\ verified = {}
  /\ refunded = [p \in Paid |-> 0] /\ returned = [p \in Paid |-> 0]
  /\ refunding = [w \in Clerks |-> NoRefund] /\ calls = 0

Refunding(w) == refunding[w] # NoRefund
RowLocked(p) == \E w \in Clerks : Refunding(w) /\ refunding[w].of = p

\* A payment is verified under the same lock; nothing refunds it before.
PaymentVerified(p) ==
  /\ p \notin verified /\ ~ RowLocked(p)
  /\ verified' = verified \cup {p}
  /\ UNCHANGED <<refunded, returned, refunding, calls>>

\* Mutated: each request is compared with the captured amount alone.
RefundablePerCall(p) == Captured[p]

Refundable(p) == Captured[p] - refunded[p]

Requested(p, asked) == IF asked = Full THEN Captured[p] ELSE asked

\* The row is locked first, so the ceiling is read after every refund that was
\* committed before.
BeginRefund(w, p, asked) ==
  /\ ~ Refunding(w) /\ ~ RowLocked(p) /\ p \in verified
  /\ LET amount == Requested(p, asked)
     IN /\ amount > 0 /\ amount <= Refundable(p)
        /\ refunding' = [refunding EXCEPT ![w] = [of |-> p, amount |-> amount, called |-> FALSE]]
  /\ UNCHANGED <<verified, refunded, returned, calls>>

\* The provider returns the money; it has no part in what the ledger says.
ProviderRefunds(w) ==
  /\ Refunding(w) /\ ~ refunding[w].called /\ calls < MaxCalls
  /\ returned' = [returned EXCEPT ![refunding[w].of] = @ + refunding[w].amount]
  /\ calls' = calls + 1
  /\ refunding' = [refunding EXCEPT ![w].called = TRUE]
  /\ UNCHANGED <<verified, refunded>>

\* append_event, and the commit at the end of the request.
FinishRefund(w) ==
  /\ Refunding(w) /\ refunding[w].called
  /\ refunded' = [refunded EXCEPT ![refunding[w].of] = @ + refunding[w].amount]
  /\ refunding' = [refunding EXCEPT ![w] = NoRefund]
  /\ UNCHANGED <<verified, returned, calls>>

\* The provider refuses, its answer is lost, the commit fails or the process
\* dies: the transaction is rolled back.
RefundAborts(w) ==
  /\ Refunding(w)
  /\ refunding' = [refunding EXCEPT ![w] = NoRefund]
  /\ UNCHANGED <<verified, refunded, returned, calls>>

RefundsNext ==
  \/ \E p \in Paid : PaymentVerified(p)
  \/ \E w \in Clerks :
       \/ \E p \in Paid, asked \in Amounts \cup {Full} : BeginRefund(w, p, asked)
       \/ ProviderRefunds(w) \/ FinishRefund(w) \/ RefundAborts(w)

RefundsSpec == RefundsInit /\ [][RefundsNext]_refundVars

-----------------------------------------------------------------------------
\* Safety.  The refunds on record never exceed what was captured, and each of
\* them was made: no number of partial, full, negative or overlapping requests
\* records more than the payment's amount, and no failure records a refund the
\* provider did not make (refund_payment; "must not exceed the amount still
\* refundable on this payment").
RefundsOnRecordAreReal ==
  \A p \in Paid : /\ refunded[p] <= Captured[p]
                  /\ refunded[p] <= returned[p]

\* By hand, violated: a refund whose record was rolled back is made again, so
\* that, as far as this code goes, "together return more than the buyer ever
\* paid" (service.py) is possible; a provider may have a ceiling of its own.
ReturnedWithinCapture == \A p \in Paid : returned[p] <= Captured[p]

\* By hand, violated: what the buyer got back is on the record once no request
\* is under way ("a refund that really happened" is what the ledger sums).
EveryRefundIsOnRecord ==
  \A p \in Paid : ~ RowLocked(p) => returned[p] = refunded[p]
=============================================================================
