---------------------------- MODULE Transitions ----------------------------
(***************************************************************************)
(* The transition table of services/checkout/transitions.py and the two    *)
(* spellings it mediates between: the states rules are written in and the  *)
(* statuses stored in the rows.                                            *)
(*                                                                         *)
(* Every event of the table has one target, so a rule set is a record of   *)
(* the states it leaves and the state it enters.  The checks a rule may    *)
(* carry on actor, authorization and price never fire: every caller passes *)
(* an actor the rule admits and leaves the other fields at their defaults. *)
(***************************************************************************)

Rule == [
  SELECT_OFFER |-> [from |-> {"DISCOVERED"}, to |-> "OFFER_SELECTED"],
  CREATE_CHECKOUT |-> [from |-> {"OFFER_SELECTED"}, to |-> "CHECKOUT_CREATED"],
  CHECK_POLICY |-> [from |-> {"CHECKOUT_CREATED"}, to |-> "POLICY_CHECKED"],
  REQUIRE_APPROVAL |->
    [from |-> {"CHECKOUT_CREATED", "POLICY_CHECKED"}, to |-> "AUTHORIZATION_PENDING"],
  USE_EXISTING_AUTHORIZATION |->
    [from |-> {"CHECKOUT_CREATED", "POLICY_CHECKED"}, to |-> "AUTHORIZED"],
  BLOCK_POLICY |->
    [from |-> {"CHECKOUT_CREATED", "POLICY_CHECKED", "AUTHORIZATION_PENDING"},
     to |-> "POLICY_BLOCKED"],
  CANCEL_CHECKOUT |->
    [from |-> {"CHECKOUT_CREATED", "POLICY_CHECKED", "AUTHORIZATION_PENDING", "AUTHORIZED"},
     to |-> "CANCELLED"],
  APPROVE_AUTHORIZATION |-> [from |-> {"AUTHORIZATION_PENDING"}, to |-> "AUTHORIZED"],
  REJECT_AUTHORIZATION |->
    [from |-> {"CHECKOUT_CREATED", "AUTHORIZATION_PENDING", "AUTHORIZED"},
     to |-> "CANCELLED"],
  EXPIRE_CHECKOUT |->
    [from |-> {"CHECKOUT_CREATED", "AUTHORIZATION_PENDING", "AUTHORIZED"},
     to |-> "CHECKOUT_EXPIRED"],
  EXPIRE_AUTHORIZATION |->
    [from |-> {"AUTHORIZATION_PENDING"}, to |-> "AUTHORIZATION_EXPIRED"],
  CREATE_PAYMENT |-> [from |-> {"AUTHORIZED"}, to |-> "PAYMENT_CREATED"],
  DETECT_PRICE_CHANGE |-> [from |-> {"AUTHORIZED"}, to |-> "PRICE_CHANGED"],
  DETECT_INVENTORY_CHANGE |-> [from |-> {"AUTHORIZED"}, to |-> "INVENTORY_CHANGED"],
  PROVIDER_ORDER_CREATED |-> [from |-> {"PAYMENT_CREATED"}, to |-> "PAYMENT_PENDING"],
  VERIFY_PAYMENT |-> [from |-> {"PAYMENT_PENDING"}, to |-> "PAYMENT_VERIFIED"],
  FAIL_PAYMENT |->
    [from |-> {"AUTHORIZED", "PAYMENT_CREATED", "PAYMENT_PENDING"}, to |-> "PAYMENT_FAILED"],
  TIMEOUT_PAYMENT |-> [from |-> {"PAYMENT_PENDING"}, to |-> "PAYMENT_TIMEOUT"],
  MARK_UNKNOWN |-> [from |-> {"PAYMENT_TIMEOUT"}, to |-> "PAYMENT_UNKNOWN"],
  VERIFY_UNKNOWN |-> [from |-> {"PAYMENT_UNKNOWN"}, to |-> "PAYMENT_VERIFIED"],
  FAIL_UNKNOWN |-> [from |-> {"PAYMENT_UNKNOWN"}, to |-> "PAYMENT_FAILED"],
  EXHAUST_UNKNOWN |-> [from |-> {"PAYMENT_UNKNOWN"}, to |-> "MANUAL_REVIEW"],
  CONFIRM_ORDER |-> [from |-> {"AUTHORIZED", "PAYMENT_VERIFIED"}, to |-> "ORDER_CONFIRMED"],
  COMPLETE_ORDER |-> [from |-> {"AUTHORIZED", "ORDER_CONFIRMED"}, to |-> "COMPLETED"]]

\* normalize_source_status for checkout rows, on the statuses the services store.
CheckoutState == [
  created |-> "CHECKOUT_CREATED", authorization_pending |-> "AUTHORIZATION_PENDING",
  authorized |-> "AUTHORIZED", completed |-> "COMPLETED", cancelled |-> "CANCELLED",
  expired |-> "CHECKOUT_EXPIRED", payment_failed |-> "PAYMENT_FAILED"]

\* format_target_status for checkout rows, on the states the services move to.
CheckoutStatus == [
  CHECKOUT_CREATED |-> "created", AUTHORIZATION_PENDING |-> "authorization_pending",
  AUTHORIZED |-> "authorized", COMPLETED |-> "completed", CANCELLED |-> "cancelled",
  CHECKOUT_EXPIRED |-> "expired", PAYMENT_FAILED |-> "payment_failed"]

\* The same two conversions for payment rows.
PaymentState == [
  created |-> "PAYMENT_CREATED", pending |-> "PAYMENT_PENDING",
  verified |-> "PAYMENT_VERIFIED", failed |-> "PAYMENT_FAILED"]

PaymentStatus == [
  PAYMENT_CREATED |-> "created", PAYMENT_PENDING |-> "pending",
  PAYMENT_VERIFIED |-> "verified", PAYMENT_FAILED |-> "failed"]

\* transition finds a rule for a checkout row with this status.
CheckoutCan(status, event) == CheckoutState[status] \in Rule[event].from

\* The status transition leaves in the row; the old one is not consulted.
CheckoutAfter(event) == CheckoutStatus[Rule[event].to]

PaymentCan(status, event) == PaymentState[status] \in Rule[event].from

PaymentAfter(event) == PaymentStatus[Rule[event].to]

=============================================================================
