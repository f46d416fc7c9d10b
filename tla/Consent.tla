------------------------------ MODULE Consent ------------------------------
(***************************************************************************)
(* The human gate and what follows it: the authorization page              *)
(* (apps/web/src/app/authorize/[id]/page.tsx) and the payment page it leads*)
(* to (app/payment/[id]/page.tsx), over either of the two back ends that   *)
(* can serve them: the Python gateway, which takes pending approvals, lets *)
(* them lapse and uses them up, and the local one of the Next process.     *)
(*                                                                         *)
(* A request travels, is handled, and is answered; it may be given up by   *)
(* the page at any time, and is then handled all the same.  A decision of  *)
(* the gateway reads the authorization without a lock and writes later; a  *)
(* payment holds the checkout's row, and with it every decision's write,   *)
(* from its read to its commit.  A page that was left hears no answer.     *)
(***************************************************************************)
EXTENDS Naturals, Sequences

CONSTANTS
  Backends,     \* the back ends the build may talk to: "gateway", "local"
  Total,        \* what the checkout was frozen at
  AuthCeiling,  \* amount_ceiling_minor of the authorization
  MaxPayments,  \* bound on payments made
  MaxStrays,    \* bound on requests under way that no page here waits for
  MaxAttempts,  \* POLL_MAX_ATTEMPTS
  MaxVisits     \* bound on how often a page is opened

ASSUME ConsentAssumption ==
  /\ Backends \subseteq {"gateway", "local"}
  /\ {Total, AuthCeiling, MaxPayments, MaxStrays, MaxAttempts, MaxVisits} \subseteq Nat \ {0}
  /\ Total <= AuthCeiling

VARIABLES
  backend,   \* the back end of this deployment
  record,    \* its authorization: status, and whether valid_until is past
  payments,  \* its payments [amount, status], in order
  overwritten, \* history: decisions written over an approval that was used up
  screen,    \* what the browser shows
  reads,     \* up to two reads of the authorization under way
  ask,       \* the decision or the payment request the page waits for
  strays,    \* numbered: requests given up, and those of other windows
  poll       \* the polling of the payment page

serverVars == <<backend, record, payments, overwritten>>
consentVars == <<serverVars, screen, reads, ask, strays, poll>>

NoAsk == [kind |-> "none", at |-> "idle", amount |-> 0, payment |-> 0]
NoLoad == [at |-> "idle", seen |-> "none"]
NoPoll == [at |-> "off", attempt |-> 0, seen |-> "none", shown |-> "none"]

\* total 0: the breakdown could not be read.
Away == [at |-> "away", visits |-> 0, loading |-> FALSE, failed |-> FALSE,
         known |-> "none", total |-> 0, expired |-> FALSE, error |-> FALSE,
         payment |-> 0]

ConsentInit ==
  /\ backend \in Backends
  /\ record \in [status : IF backend = "gateway" THEN {"pending", "approved"}
                          ELSE {"approved"},
                 lapsed : {FALSE}]
  /\ payments = <<>> /\ overwritten = 0
  /\ screen = Away
  /\ reads = [n \in {1, 2} |-> NoLoad]
  /\ ask = NoAsk /\ strays = {}
  /\ poll = NoPoll

-----------------------------------------------------------------------------
(* The back end's handlers *)

Outcome(choice) == IF choice = "approve" THEN "approved" ELSE "rejected"

\* What a decision may still be taken on: what is pending, and a rejection also
\* on what is approved, in time.
Decidable(choice) ==
  /\ ~record.lapsed
  /\ record.status \in {"pending"} \cup (IF choice = "reject" THEN {"approved"} ELSE {})

\* The gateway's decision reads: it repeats what it finds, goes on, or is refused.
DecisionReads(choice, becomes) ==
  /\ becomes = IF record.status = Outcome(choice) THEN "granted"
               ELSE IF Decidable(choice) THEN "read" ELSE "refused"
  /\ UNCHANGED <<record, overwritten>>

\* It writes over whatever has been committed since, unless the checkout has
\* moved on to where the transition table allows it no more.
DecisionWrites(choice, becomes) ==
  \/ /\ becomes = "granted"
     /\ record' = [record EXCEPT !.status = Outcome(choice)]
     /\ overwritten' = IF record.status = "consumed" THEN overwritten + 1 ELSE overwritten
  \/ /\ becomes = "refused" /\ backend = "gateway"
     /\ UNCHANGED <<record, overwritten>>

\* The local back end writes "approved", or "rejected", over whatever there is.
Decision(request, becomes) ==
  /\ request.kind \in {"approve", "reject"}
  /\ \/ /\ backend = "gateway" /\ request.at = "sent"
        /\ DecisionReads(request.kind, becomes)
     \/ /\ request.at = IF backend = "gateway" THEN "read" ELSE "sent"
        /\ DecisionWrites(request.kind, becomes)

\* A payment of the gateway uses the approval up and is for the frozen total.
\* The local back end asks for no approval and takes the amount it is told.
Payable == backend = "gateway" => record.status = "approved" /\ ~record.lapsed

NewPayment(amount) ==
  IF backend = "gateway" THEN [amount |-> Total, status |-> "pending"]
  ELSE [amount |-> amount, status |-> "verified"]

\* Mutated: the payment leaves the approval approved.
AfterPaymentUnused == record

AfterPayment ==
  IF backend = "gateway" THEN [record EXCEPT !.status = "consumed"] ELSE record

\* The authorization's valid_until passes.
Lapse ==
  /\ ~record.lapsed
  /\ record' = [record EXCEPT !.lapsed = TRUE]
  /\ UNCHANGED <<backend, payments, overwritten, screen, reads, ask, strays, poll>>

Free == {n \in 1..MaxStrays : \A request \in strays : request.n # n}

\* A request is under way for which no page here waits.
Strays(kind, at, amount) ==
  /\ Free # {}
  /\ strays' = strays \cup {[n |-> CHOOSE n \in Free : TRUE,
                             kind |-> kind, at |-> at, amount |-> amount]}

\* Somebody decides in another window or on another device.
DecidedElsewhere ==
  /\ \E choice \in {"approve", "reject"} : Strays(choice, "sent", 0)
  /\ UNCHANGED <<serverVars, screen, reads, ask, poll>>

\* A pending payment comes to an end at the provider.
Settles(k) ==
  /\ payments[k].status = "pending"
  /\ \E status \in {"verified", "failed", "manual_review"} :
       payments' = [payments EXCEPT ![k].status = status]
  /\ UNCHANGED <<backend, record, overwritten, screen, reads, ask, strays, poll>>

-----------------------------------------------------------------------------
(* The authorization page *)

\* A read begins in a free slot: the page does not look for one under way.
BeginLoad(slots) ==
  /\ \E n \in DOMAIN slots : slots[n].at = "idle"
  /\ LET n == CHOOSE n \in DOMAIN slots : slots[n].at = "idle"
     IN reads' = [slots EXCEPT ![n] = [at |-> "sent", seen |-> "none"]]

Loading == [screen EXCEPT !.loading = TRUE, !.failed = FALSE]

OpenAuthorization ==
  /\ screen.at = "away" /\ screen.visits < MaxVisits
  /\ screen' = [Away EXCEPT !.at = "authorize", !.visits = screen.visits + 1,
                !.loading = TRUE]
  /\ BeginLoad(reads)
  /\ UNCHANGED <<serverVars, ask, strays, poll>>

\* The page stops waiting for its request, which may still arrive.
GiveUp ==
  /\ ask' = NoAsk
  /\ IF ask.at \in {"sent", "read"} THEN Strays(ask.kind, ask.at, ask.amount)
     ELSE UNCHANGED strays

\* Leaving unmounts the page: no answer is heard any more.
Leave ==
  /\ screen.at \in {"authorize", "payment"}
  /\ screen' = [Away EXCEPT !.visits = screen.visits]
  /\ reads' = [n \in {1, 2} |-> NoLoad]
  /\ GiveUp
  /\ poll' = NoPoll
  /\ UNCHANGED serverVars

\* load(): the authorization is read, then the checkout it names.
ReadAuthorization(n) ==
  /\ reads[n].at = "sent"
  /\ reads' = [reads EXCEPT ![n] = [at |-> "read", seen |-> record.status]]
  /\ UNCHANGED <<serverVars, screen, ask, strays, poll>>

ShowAuthorization(n) ==
  /\ reads[n].at = "read"
  /\ screen' = [screen EXCEPT !.known = reads[n].seen]
  /\ reads' = [reads EXCEPT ![n].at = "checkout"]
  /\ UNCHANGED <<serverVars, ask, strays, poll>>

\* The breakdown arrives, or cannot be read and is dropped.
ShowBreakdown(n) ==
  /\ reads[n].at = "checkout"
  /\ \E total \in {0, Total} :
       screen' = [screen EXCEPT !.total = total, !.loading = FALSE]
  /\ reads' = [reads EXCEPT ![n] = NoLoad]
  /\ UNCHANGED <<serverVars, ask, strays, poll>>

LoadFails(n) ==
  /\ reads[n].at \in {"sent", "read"}
  /\ screen' = [screen EXCEPT !.failed = TRUE, !.loading = FALSE]
  /\ reads' = [reads EXCEPT ![n] = NoLoad]
  /\ UNCHANGED <<serverVars, ask, strays, poll>>

\* Which of its screens the page renders, and what each one offers.
Form == /\ screen.at = "authorize"
        /\ ~screen.loading /\ ~screen.failed /\ screen.known # "none"
Error == /\ screen.at = "authorize"
         /\ ~screen.loading /\ (screen.failed \/ screen.known = "none")
CanDecide == Form /\ screen.known = "pending" /\ ~screen.expired
CanRevalidate == Form /\ screen.known = "pending" /\ screen.expired
CanStartPayment == Form /\ screen.known = "approved"

\* "Try again", and "Revalidate with the gateway".
Reload ==
  /\ Error \/ CanRevalidate
  /\ screen' = Loading
  /\ BeginLoad(reads)
  /\ UNCHANGED <<serverVars, ask, strays, poll>>

\* The countdown, anchored to the server's clock, reaches zero.
CountdownEnds ==
  /\ screen.at = "authorize" /\ screen.known # "none"
  /\ record.lapsed /\ ~screen.expired
  /\ screen' = [screen EXCEPT !.expired = TRUE]
  /\ UNCHANGED <<serverVars, reads, ask, strays, poll>>

Send(kind, amount) ==
  /\ ask = NoAsk
  /\ ask' = [NoAsk EXCEPT !.kind = kind, !.at = "sent", !.amount = amount]
  /\ screen' = [screen EXCEPT !.error = FALSE]
  /\ UNCHANGED <<serverVars, reads, strays, poll>>

Decide == CanDecide /\ \E choice \in {"approve", "reject"} : Send(choice, 0)

\* Mutated: without a breakdown the ceiling is charged, as it is displayed.
StartPaymentAtCeiling ==
  /\ CanStartPayment
  /\ Send("pay", IF screen.total = 0 THEN AuthCeiling ELSE screen.total)

\* startPayment: the breakdown's total, or nothing; the error says so.
StartPayment ==
  /\ CanStartPayment
  /\ \/ screen.total # 0 /\ Send("pay", screen.total)
     \/ /\ screen.total = 0 /\ ask = NoAsk
        /\ screen' = [screen EXCEPT !.error = TRUE]
        /\ UNCHANGED <<serverVars, reads, ask, strays, poll>>

\* A request reaches the back end, which the page may or may not wait for.
HandleDecision ==
  /\ \E becomes \in {"read", "granted", "refused"} :
       /\ Decision(ask, becomes)
       /\ ask' = [ask EXCEPT !.at = becomes]
  /\ UNCHANGED <<backend, payments, screen, reads, strays, poll>>

MakePayment(amount) ==
  /\ Payable /\ Len(payments) < MaxPayments
  /\ payments' = Append(payments, NewPayment(amount))
  /\ record' = AfterPayment

HandlePayment ==
  /\ ask.kind = "pay" /\ ask.at = "sent"
  /\ \/ /\ MakePayment(ask.amount)
        /\ ask' = [ask EXCEPT !.at = "granted", !.payment = Len(payments')]
     \/ /\ ~Payable
        /\ ask' = [ask EXCEPT !.at = "refused"]
        /\ UNCHANGED <<record, payments>>
  /\ UNCHANGED <<backend, overwritten, screen, reads, strays, poll>>

HandleStray(request) ==
  /\ \/ /\ request.kind = "pay"
        /\ MakePayment(request.amount) \/ (~Payable /\ UNCHANGED <<record, payments>>)
        /\ strays' = strays \ {request}
        /\ UNCHANGED overwritten
     \/ \E becomes \in {"read", "granted", "refused"} :
          /\ Decision(request, becomes)
          /\ strays' = (strays \ {request})
                       \cup (IF becomes = "read" THEN {[request EXCEPT !.at = "read"]} ELSE {})
          /\ UNCHANGED payments
  /\ UNCHANGED <<backend, screen, reads, ask, poll>>

\* The answer of a decision.  What was decided is merged into the page; after
\* a refusal, or when no answer came in time, the page reads again.
DecisionAnswered ==
  /\ ask.kind \in {"approve", "reject"}
  /\ \/ /\ ask.at = "granted"
        /\ screen' = [screen EXCEPT !.known = IF ask.kind = "approve"
                                              THEN "approved" ELSE "rejected"]
        /\ ask' = NoAsk
        /\ UNCHANGED <<reads, strays>>
     \/ /\ screen' = [Loading EXCEPT !.error = TRUE]
        /\ GiveUp
        /\ BeginLoad(reads)
  /\ UNCHANGED <<serverVars, poll>>

\* The answer of a payment: the page of the payment opens.  A refusal or a
\* timeout shows an error and offers the payment again.
PaymentAnswered ==
  /\ ask.kind = "pay"
  /\ \/ /\ ask.at = "granted"
        /\ screen' = [Away EXCEPT !.at = "payment", !.visits = screen.visits,
                      !.payment = ask.payment]
        /\ poll' = [NoPoll EXCEPT !.at = "asked", !.attempt = 1]
        /\ ask' = NoAsk
        /\ reads' = [n \in {1, 2} |-> NoLoad]
        /\ UNCHANGED strays
     \/ /\ screen' = [screen EXCEPT !.error = TRUE]
        /\ GiveUp
        /\ UNCHANGED <<reads, poll>>
  /\ UNCHANGED serverVars

-----------------------------------------------------------------------------
(* The payment page *)

Terminal == {"verified", "failed", "manual_review"}

\* boundReached: the attempts are used up, or the minute is over.
BoundReached == {poll.attempt >= MaxAttempts, TRUE}

ReadStatus ==
  /\ poll.at = "asked"
  /\ poll' = [poll EXCEPT !.at = "read", !.seen = payments[screen.payment].status]
  /\ UNCHANGED <<serverVars, screen, reads, ask, strays>>

ShowStatus ==
  /\ poll.at = "read"
  /\ \E bound \in BoundReached :
       poll' = [poll EXCEPT !.shown = poll.seen,
                  !.at = IF poll.seen \in Terminal THEN "settled"
                         ELSE IF bound THEN "exhausted" ELSE "waiting"]
  /\ UNCHANGED <<serverVars, screen, reads, ask, strays>>

\* Mutated: an error starts the count of attempts over.
CheckFailsAndRestarts ==
  /\ poll.at \in {"asked", "read"}
  /\ poll' = [poll EXCEPT !.at = "waiting", !.attempt = 0]
  /\ UNCHANGED <<serverVars, screen, reads, ask, strays>>

\* A failed check keeps the loop alive within the bound if it may be retried.
CheckFails ==
  /\ poll.at \in {"asked", "read"}
  /\ \E bound \in BoundReached :
       poll' = [poll EXCEPT !.at = IF bound THEN "failed" ELSE "waiting"]
  /\ UNCHANGED <<serverVars, screen, reads, ask, strays>>

NextCheck ==
  /\ poll.at = "waiting"
  /\ poll' = [poll EXCEPT !.at = "asked", !.attempt = @ + 1]
  /\ UNCHANGED <<serverVars, screen, reads, ask, strays>>

\* "Check status again", offered when nothing is under way.
Recheck ==
  /\ \/ poll.at \in {"failed", "exhausted"}
     \/ poll.at = "settled" /\ poll.shown = "manual_review"
  /\ poll' = [poll EXCEPT !.at = "asked", !.attempt = 1]
  /\ UNCHANGED <<serverVars, screen, reads, ask, strays>>

-----------------------------------------------------------------------------
Polls == ReadStatus \/ ShowStatus \/ CheckFails \/ NextCheck

Answered ==
  \/ HandleDecision \/ HandlePayment \/ DecisionAnswered \/ PaymentAnswered
  \/ \E request \in strays : HandleStray(request)
  \/ \E n \in {1, 2} :
       ReadAuthorization(n) \/ ShowAuthorization(n) \/ ShowBreakdown(n) \/ LoadFails(n)

Shopper ==
  \/ OpenAuthorization \/ Leave \/ Reload \/ Decide \/ StartPayment \/ Recheck

ConsentNext ==
  \/ Answered \/ Polls \/ Shopper
  \/ Lapse \/ CountdownEnds \/ DecidedElsewhere
  \/ \E k \in DOMAIN payments : Settles(k)

ConsentSpec == ConsentInit /\ [][ConsentNext]_consentVars

\* A check of the payment goes through the client, which times it out, and the
\* timer of the next one fires.
FairConsentSpec == ConsentSpec /\ WF_consentVars(Polls)

-----------------------------------------------------------------------------
(* Properties *)

Statuses == {"pending", "approved", "rejected", "consumed"}

ConsentTypeOK ==
  /\ record \in [status : Statuses, lapsed : BOOLEAN]
  /\ payments \in Seq([amount : {Total, AuthCeiling},
                       status : {"pending"} \cup Terminal])
  /\ screen.at \in {"away", "authorize", "payment"}
  /\ screen.known \in Statuses \cup {"none"} /\ screen.total \in {0, Total}
  /\ screen.at = "payment" <=> poll.at # "off"
  /\ poll.at # "off" => screen.payment \in DOMAIN payments
  /\ poll.attempt <= MaxAttempts

\* authorize/[id]/page.tsx:251-252: "Charge exactly the itemised checkout total
\* the gate approved - never the ceiling".  Where the breakdown cannot be read
\* the page displays the ceiling, and charges nothing.
ChargesTheFrozenTotal == \A k \in DOMAIN payments : payments[k].amount = Total

\* With the gateway, timeouts, other windows, fresh idempotency keys and reloads
\* alone never use an authorization twice: every payment after the first stands
\* on a decision read before a payment and written over the use of it, as
\* approve_authorization and reject_authorization write without looking again.
PaysAgainOnlyIfOverwritten == backend = "gateway" => Len(payments) <= 1 + overwritten

\* A payment page stops asking by itself.
PollingEnds ==
  poll.at \in {"asked", "read", "waiting"} ~> poll.at \notin {"asked", "read", "waiting"}

\* authorize/[id]/page.tsx:417-418: "Approving authorises exactly this amount,
\* to this merchant, once."
ApprovedForOnePayment == Len(payments) <= 1

=============================================================================
