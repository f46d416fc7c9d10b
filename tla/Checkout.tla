------------------------------ MODULE Checkout ------------------------------
(***************************************************************************)
(* Checkouts and their authorizations: services/checkout/service.py,       *)
(* services/authorization/service.py and the expiry sweep of               *)
(* apps/worker/main.py, on top of the stock they hold.                     *)
(*                                                                         *)
(* A request runs in one database transaction at READ COMMITTED, through   *)
(* an ORM session that reads a row once and does not flush before the end. *)
(* It is two steps: Begin... reads the checkout into the session, and      *)
(* Finish... takes the row locks, writes and commits.  What Finish tests   *)
(* of the checkout is what Begin read, because the session hands back the  *)
(* object it already has, and what Finish writes replaces whatever was     *)
(* committed in between.  A request whose session reads the row only under *)
(* its lock is a single step.                                              *)
(***************************************************************************)
EXTENDS Inventory, Transitions

CONSTANT Workers      \* request-serving threads of the API

VARIABLES
  checkout,     \* checkout.status, per checkout ("none": no row)
  auth,         \* authorization.status of the checkout's only authorization
  expired,      \* checkouts past expires_at
  lapsed,       \* checkouts whose authorization is past valid_until
  tx            \* the open transaction of each worker, with what it has read

checkoutVars == <<checkout, auth, expired, lapsed, tx>>

CheckoutStatuses == {"none"} \cup DOMAIN CheckoutState
AuthStatuses == {"none", "pending", "approved", "rejected", "consumed"}

Idle == [op |-> "idle"]

CheckoutInit ==
  /\ checkout = [c \in Checkouts |-> "none"]
  /\ auth = [c \in Checkouts |-> "none"]
  /\ expired = {}
  /\ lapsed = {}
  /\ tx = [w \in Workers |-> Idle]

-----------------------------------------------------------------------------
(* Transactions and time *)

\* A worker opens a transaction and reads the checkout into its session.
Begin(w, op, c) ==
  /\ tx[w] = Idle
  /\ tx' = [tx EXCEPT ![w] = [op |-> op, c |-> c, chk |-> checkout[c]]]
  /\ UNCHANGED <<checkout, auth, expired, lapsed, inventoryVars>>

Running(w, op) == tx[w].op = op

Commits(w) == tx' = [tx EXCEPT ![w] = Idle]

\* The request raises, is picked as the victim of a deadlock, or its process
\* dies: the session is rolled back and nothing was written.
Abort(w) ==
  /\ tx[w] # Idle
  /\ Commits(w)
  /\ UNCHANGED <<checkout, auth, expired, lapsed, inventoryVars>>

\* The statuses the sweep selects that a row can have.
SweptStatuses == {"created", "authorization_pending", "authorized"}

\* Both deadlines are set by their callers and are independent of each other.
\* A deadline passes unnoticed in the states where nobody can act on it, so its
\* passing is a step only in the others; an overwrite that brings such a state
\* back finds the step enabled again.
Expire(c) ==
  /\ checkout[c] \in SweptStatuses /\ c \notin expired
  /\ expired' = expired \cup {c}
  /\ UNCHANGED <<checkout, auth, lapsed, tx, inventoryVars>>

Lapse(c) ==
  /\ auth[c] \in {"pending", "approved"} /\ c \notin lapsed
  /\ lapsed' = lapsed \cup {c}
  /\ UNCHANGED <<checkout, auth, expired, tx, inventoryVars>>

-----------------------------------------------------------------------------
(* CheckoutService *)

\* create_checkout: the row and its hold appear together, or not at all.
CreateCheckout(c) ==
  /\ checkout[c] = "none"
  /\ ReserveStock(c)
  /\ checkout' = [checkout EXCEPT ![c] = "created"]
  /\ UNCHANGED <<auth, expired, lapsed, tx>>

\* cancel_checkout reads the row through the scoped repository first; its
\* second read takes the lock and returns the same object.
BeginCancel(w, c) ==
  /\ checkout[c] # "none"
  /\ CheckoutCan(checkout[c], "CANCEL_CHECKOUT")
  /\ Begin(w, "cancel", c)

\* Mutated: the reservation row is closed without giving its units back.
FinishCancelRowOnly(w) ==
  /\ Running(w, "cancel")
  /\ checkout' = [checkout EXCEPT ![tx[w].c] = CheckoutAfter("CANCEL_CHECKOUT")]
  /\ hold' = [hold EXCEPT ![tx[w].c] = "released"]
  /\ Commits(w)
  /\ UNCHANGED <<auth, expired, lapsed, available, reserved, importing>>

\* Mutated: the hold is left to the sweep.
FinishCancelKeepingHold(w) ==
  /\ Running(w, "cancel")
  /\ checkout' = [checkout EXCEPT ![tx[w].c] = CheckoutAfter("CANCEL_CHECKOUT")]
  /\ Commits(w)
  /\ UNCHANGED <<auth, expired, lapsed, inventoryVars>>

FinishCancel(w) ==
  /\ Running(w, "cancel")
  /\ checkout' = [checkout EXCEPT ![tx[w].c] = CheckoutAfter("CANCEL_CHECKOUT")]
  /\ ReleaseStock(tx[w].c)
  /\ Commits(w)
  /\ UNCHANGED <<auth, expired, lapsed>>

-----------------------------------------------------------------------------
(* AuthorizationService *)

\* request_authorization; a checkout that has an authorization already gets it
\* back, or is refused, without a change.
Requestable(c) ==
  /\ checkout[c] \notin {"none", "cancelled", "expired", "completed"}
  /\ auth[c] = "none"

BeginRequest(w, c) == Requestable(c) /\ Begin(w, "request", c)

\* The policy decision picks the event; BLOCK raises.  authorization.checkout_id
\* is UNIQUE, so the later of two inserts fails.
FinishRequest(w, event, status) ==
  LET c == tx[w].c
  IN  /\ Running(w, "request")
      /\ auth[c] = "none"
      /\ CheckoutCan(tx[w].chk, event)
      /\ auth' = [auth EXCEPT ![c] = status]
      /\ checkout' = [checkout EXCEPT ![c] = CheckoutAfter(event)]
      /\ Commits(w)
      /\ UNCHANGED <<expired, lapsed, inventoryVars>>

\* approve_authorization and reject_authorization read the authorization, then
\* the checkout; neither takes a lock before it writes.
BeginApprove(w, c) ==
  /\ auth[c] = "pending" /\ c \notin lapsed
  /\ CheckoutCan(checkout[c], "APPROVE_AUTHORIZATION")
  /\ Begin(w, "approve", c)

FinishApprove(w) ==
  LET c == tx[w].c
  IN  /\ Running(w, "approve")
      /\ auth' = [auth EXCEPT ![c] = "approved"]
      /\ checkout' = [checkout EXCEPT ![c] = CheckoutAfter("APPROVE_AUTHORIZATION")]
      /\ Commits(w)
      /\ UNCHANGED <<expired, lapsed, inventoryVars>>

BeginReject(w, c) ==
  /\ auth[c] \in {"pending", "approved"} /\ c \notin lapsed
  /\ CheckoutCan(checkout[c], "REJECT_AUTHORIZATION")
  /\ Begin(w, "reject", c)

FinishReject(w) ==
  LET c == tx[w].c
  IN  /\ Running(w, "reject")
      /\ auth' = [auth EXCEPT ![c] = "rejected"]
      /\ checkout' = [checkout EXCEPT ![c] = CheckoutAfter("REJECT_AUTHORIZATION")]
      /\ ReleaseStock(c)
      /\ Commits(w)
      /\ UNCHANGED <<expired, lapsed>>

-----------------------------------------------------------------------------
(* Worker *)

\* Mutated: the selection as it was before "authorized" was added to it.
SweepUnapproved(c) ==
  /\ checkout[c] \in SweptStatuses \ {"authorized"} /\ c \in expired
  /\ checkout' = [checkout EXCEPT ![c] = CheckoutAfter("EXPIRE_CHECKOUT")]
  /\ ReleaseStock(c)
  /\ UNCHANGED <<auth, expired, lapsed, tx>>

\* One row of _sweep_expired_checkouts, selected under its lock.
Sweep(c) ==
  /\ checkout[c] \in SweptStatuses /\ c \in expired
  /\ CheckoutCan(checkout[c], "EXPIRE_CHECKOUT")
  /\ checkout' = [checkout EXCEPT ![c] = CheckoutAfter("EXPIRE_CHECKOUT")]
  /\ ReleaseStock(c)
  /\ UNCHANGED <<auth, expired, lapsed, tx>>

=============================================================================
