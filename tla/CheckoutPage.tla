---------------------------- MODULE CheckoutPage ----------------------------
(***************************************************************************)
(* The checkout page (apps/web/src/app/checkout/page.tsx) and the page the *)
(* provider returns to (app/checkout/razorpay-return/page.tsx), over the   *)
(* store of BrowserStore and a back end that freezes, authorizes, charges  *)
(* and confirms: the web application's own or the gateway.                 *)
(*                                                                         *)
(* A handler of the page is a chain of requests.  It works with the values *)
(* of the render it was started in, kept in flow; the bag, the freeze and  *)
(* the page may change while one of its requests is under way, and the     *)
(* page itself may be left: the overlay of a payment stops neither the     *)
(* keyboard nor Back.  A handler outlives its page, until the document is  *)
(* replaced.                                                               *)
(***************************************************************************)
EXTENDS BrowserStore

CONSTANTS
  GatewayPrice,   \* what the gateway charges for a product
  OtherItems,     \* products another tab may put in a bag of its own
  Ceiling,        \* maxPolicyCeilingMinor
  PaymentModes,   \* of the deployment, see mode
  MaxCheckouts,   \* bound on freezes
  MaxCharges,     \* bound on charges
  MaxOrders       \* bound on the orders kept when a return address is opened again

ASSUME CheckoutAssumption ==
  /\ GatewayPrice \in [Items -> Nat \ {0}]
  /\ OtherItems \subseteq Items
  /\ Ceiling \in Nat
  /\ PaymentModes \subseteq {"live", "gateway", "test"}
  /\ {MaxCheckouts, MaxCharges, MaxOrders} \subseteq Nat \ {0}

VARIABLES
  page,       \* where the browser is and what the checkout page knows
  freezing,   \* the freeze of the present bag is under way
  flow,       \* the handler of the page, and one whose page was left
  frozen,     \* gateway: the total of each frozen checkout, by number
  approved,   \* gateway: the checkouts with a granted authorization
  charges,    \* provider: the amount of each charge, by number
  confirmed,  \* gateway: the charges confirmed as orders
  returned,   \* the charges whose return address the browser remembers
  mode        \* live or test: the web application's own back end, with a
              \* provider's key or simulated payments; gateway: a key, and
              \* answers that state no amount

pageVars == <<page, freezing, flow>>
gatewayVars == <<frozen, approved, charges, confirmed, returned, mode>>
checkoutVars == <<storeVars, pageVars, gatewayVars>>

\* Number 0 is no checkout, total 0 not known.
\* Delivery, review and authorization are one step here: the buttons between
\* them change nothing else.
Mounted == [at |-> "checkout", step |-> "review", checkout |-> 0, total |-> 0,
            auth |-> 0, accepted |-> FALSE]
\* Another page is shown; what the checkout page knew is gone with it.
Unmounted(at) == [Mounted EXCEPT !.at = at]
Idle == [kind |-> "none", at |-> "idle", bag |-> <<>>, checkout |-> 0,
         bound |-> 0, total |-> 0, auth |-> 0, charge |-> 0]

\* At most one handler is left behind at a time: a bound.
Handlers == {"here", "gone"}
Only(f) == [w \in Handlers |-> IF w = "here" THEN f ELSE Idle]
NoHandler == Only(Idle)

CheckoutInit ==
  /\ StoreInit
  /\ page = Unmounted("away")
  /\ freezing = FALSE
  /\ flow = NoHandler
  /\ frozen = <<>> /\ approved = {} /\ charges = <<>> /\ confirmed = {}
  /\ returned = {} /\ mode \in PaymentModes

\* The total the gateway freezes for a bag.
GatewayTotal(bag) == Priced(bag, GatewayPrice)

Freeze(bag) ==
  /\ Len(frozen) < MaxCheckouts
  /\ frozen' = Append(frozen, GatewayTotal(bag))

\* What the shopper reads as the price, and what stops the page.
Shown == IF page.total # 0 THEN page.total ELSE Total(cart)
PriceChanged == page.total \notin {0, Total(cart)} /\ ~page.accepted
AboveCeiling == Shown > Ceiling

\* isPaying: the overlay over the page.
Paying == page.at = "checkout" /\ flow["here"].kind \in {"modal", "redirect", "simulate"}

\* What a handler tells the page that started it; the page that is left does
\* not hear it.
Tells(w, p) == page' = IF w = "here" THEN p ELSE page
Becomes(w, f) == flow' = [flow EXCEPT ![w] = f]

\* The page is left for another one: its handler goes on without it.
LeftBehind(f) == flow' = [w \in Handlers |-> IF w = "here" THEN Idle ELSE f]

-----------------------------------------------------------------------------
(* The bag, and the freeze that follows it *)

\* The effect on every change of the bag: approval, total and accepted price
\* are dropped, and the whole bag is frozen again.  The number of the old
\* checkout stays until the new one is known.
DropFreeze ==
  /\ page' = [page EXCEPT !.auth = 0, !.total = 0, !.accepted = FALSE]
  /\ freezing' = (cart' # <<>>)

Edit ==
  /\ hydrated /\ page.at # "provider"
  /\ \E i \in Items :
       \/ AddToCart(i)
       \/ RemoveFromCart(i)
       \/ \E q \in 0..MaxQty : UpdateCartQuantity(i, q)
  /\ IF page.at = "checkout" THEN DropFreeze ELSE UNCHANGED <<page, freezing>>
  /\ UNCHANGED <<flow, gatewayVars>>

OpenCheckout ==
  /\ page.at = "away" /\ hydrated
  /\ page' = Mounted
  /\ freezing' = (cart # <<>>)
  /\ UNCHANGED <<storeVars, flow, gatewayVars>>

\* A link, or Back.
LeaveCheckout ==
  /\ page.at \in {"checkout", "return"}
  /\ \/ flow["here"] = Idle /\ UNCHANGED flow
     \/ flow["here"] # Idle /\ flow["gone"] = Idle /\ LeftBehind(flow["here"])
  /\ page' = Unmounted("away")
  /\ freezing' = FALSE
  /\ UNCHANGED <<storeVars, gatewayVars>>

\* The document is replaced, and every handler with it.
ReloadPage ==
  /\ page.at \in {"away", "checkout"} /\ hydrated
  /\ Load
  /\ page' = Unmounted("away")
  /\ flow' = NoHandler
  /\ freezing' = FALSE
  /\ UNCHANGED gatewayVars

\* loadServerPriceFreeze: the answer for the present bag arrives, or fails.
FreezeLands ==
  /\ freezing
  /\ freezing' = FALSE
  /\ \/ /\ Freeze(cart)
        /\ page' = [page EXCEPT !.checkout = Len(frozen'),
                                !.total = frozen'[Len(frozen')]]
     \/ UNCHANGED <<frozen, page>>
  /\ UNCHANGED <<storeVars, flow, approved, charges, confirmed, returned, mode>>

AcceptPrice ==
  /\ page.at = "checkout" /\ PriceChanged
  /\ page' = [page EXCEPT !.accepted = TRUE]
  /\ UNCHANGED <<storeVars, freezing, flow, gatewayVars>>

\* From the payment back to the authorization.  The step survives a change
\* of the bag.
GoBack ==
  /\ page.at = "checkout" /\ cart # <<>>
  /\ page.step = "pay"
  /\ page' = [page EXCEPT !.step = "review"]
  /\ UNCHANGED <<storeVars, freezing, flow, gatewayVars>>

-----------------------------------------------------------------------------
(* Handlers: what starts them *)

Start(kind) ==
  /\ page.at = "checkout" /\ cart # <<>> /\ flow["here"] = Idle
  /\ Becomes("here", [Idle EXCEPT !.kind = kind, !.at = "freeze", !.bag = cart,
                      !.checkout = page.checkout, !.bound = page.checkout,
                      !.total = Shown, !.auth = page.auth])
  /\ UNCHANGED <<storeVars, page, freezing, gatewayVars>>

\* handleStep3Proceed
Proceed == page.step = "review" /\ ~PriceChanged /\ ~AboveCeiling /\ Start("proceed")

\* The supervisor's override, offered where the ceiling is exceeded.
Override == page.step = "review" /\ AboveCeiling /\ Start("override")

\* The payment buttons: the ceiling is not looked at again.
Pay ==
  /\ page.step = "pay" /\ ~PriceChanged
  /\ \E kind \in IF mode = "test" THEN {"simulate"} ELSE {"modal", "redirect"} :
       Start(kind)

-----------------------------------------------------------------------------
(* Handlers: grantServerAuthorization *)

\* The handler gives up: an error is shown and the page is usable again.
\* The override goes on to the payment step whatever came of the grant.
GiveUp(w) ==
  /\ Becomes(w, Idle)
  /\ Tells(w, IF flow[w].kind = "override" THEN [page EXCEPT !.step = "pay"] ELSE page)

\* Without a checkout the handler freezes the bag it closed over.  The page
\* learns the number; the handler's own copy of the page does not.
GrantFreeze(w) ==
  /\ flow[w].at = "freeze"
  /\ \/ /\ flow[w].bound # 0
        /\ Becomes(w, [flow[w] EXCEPT !.at = "authorize"])
        /\ UNCHANGED <<page, frozen>>
     \/ /\ flow[w].bound = 0
        /\ Freeze(flow[w].bag)
        /\ Becomes(w, [flow[w] EXCEPT !.at = "authorize", !.bound = Len(frozen')])
        /\ Tells(w, [page EXCEPT !.checkout = Len(frozen'),
                                 !.total = frozen'[Len(frozen')]])
     \/ /\ flow[w].bound = 0
        /\ GiveUp(w)
        /\ UNCHANGED frozen
  /\ UNCHANGED <<storeVars, freezing, approved, charges, confirmed, returned, mode>>

\* What follows a grant: the payment step, or the charge.
AfterGrant(w) ==
  IF flow[w].kind \in {"proceed", "override"}
  THEN [flow |-> Idle, step |-> "pay"]
  ELSE [flow |-> [flow[w] EXCEPT !.at = "order"], step |-> page.step]

\* An authorization the render already had is taken as this checkout's.
\* Otherwise the gateway grants one, after an approval where it asks for it,
\* and the page keeps it, whatever the bag is by then; or it refuses.
Authorize(w) ==
  /\ flow[w].at = "authorize"
  /\ \/ /\ flow[w].auth # 0
        /\ Becomes(w, AfterGrant(w).flow)
        /\ Tells(w, [page EXCEPT !.step = AfterGrant(w).step])
        /\ UNCHANGED approved
     \/ /\ flow[w].auth = 0
        /\ approved' = approved \cup {flow[w].bound}
        /\ Becomes(w, AfterGrant(w).flow)
        /\ Tells(w, [page EXCEPT !.auth = flow[w].bound, !.step = AfterGrant(w).step])
     \/ /\ flow[w].auth = 0
        /\ GiveUp(w)
        /\ UNCHANGED approved
  /\ UNCHANGED <<storeVars, freezing, frozen, charges, confirmed, returned, mode>>

-----------------------------------------------------------------------------
(* Handlers: the payment *)

\* The web application's back end charges the frozen total of the checkout
\* the request names, or the stated amount where it names none; the gateway
\* the stated amount, which it has compared for a payment in the modal.
Amount(f) == IF f.checkout = 0 \/ mode = "gateway" THEN f.total ELSE frozen[f.checkout]

Accepts(f) == mode = "gateway" /\ f.checkout # 0 => frozen[f.checkout] = f.total

NewCharge(amount) ==
  /\ Len(charges) < MaxCharges
  /\ charges' = Append(charges, amount)

\* The provider order is made, or refused: the modal opens, over whatever
\* page there is, or the browser goes to the provider's page.
OrderAnswered(w) ==
  /\ flow[w].at = "order" /\ flow[w].kind \in {"modal", "redirect"}
  /\ \/ /\ flow[w].kind = "modal" /\ Accepts(flow[w])
        /\ Becomes(w, [flow[w] EXCEPT !.at = "provider"])
        /\ UNCHANGED <<page, freezing>>
     \/ /\ flow[w].kind = "redirect"
        /\ flow' = Only([flow[w] EXCEPT !.at = "provider"])
        /\ page' = Unmounted("provider")
        /\ freezing' = FALSE
     \/ GiveUp(w) /\ UNCHANGED freezing
  /\ UNCHANGED <<storeVars, gatewayVars>>

\* The shopper pays in the modal; the callback verifies the payment.
PayInModal(w) ==
  /\ flow[w].kind = "modal" /\ flow[w].at = "provider"
  /\ NewCharge(Amount(flow[w]))
  /\ Becomes(w, [flow[w] EXCEPT !.at = "verify", !.charge = Len(charges')])
  /\ UNCHANGED <<storeVars, page, freezing, frozen, approved, confirmed, returned, mode>>


Dismiss(w) ==
  /\ flow[w].kind = "modal" /\ flow[w].at = "provider"
  /\ Becomes(w, Idle)
  /\ UNCHANGED <<storeVars, page, freezing, gatewayVars>>

\* The back end confirms the charge; its answer is still under way.
Confirm(w) ==
  /\ flow[w].kind \in {"modal", "return"} /\ flow[w].at = "verify"
  /\ confirmed' = confirmed \cup {flow[w].charge}
  /\ Becomes(w, [flow[w] EXCEPT !.at = "answer"])
  /\ UNCHANGED <<storeVars, page, freezing, frozen, approved, charges, returned, mode>>

\* Verification is refused, or the answer is lost: nothing is recorded.
VerifyFails(w) ==
  /\ flow[w].at \in {"verify", "answer"}
  /\ Becomes(w, Idle)
  /\ Tells(w, IF flow[w].kind = "return" THEN Unmounted("away") ELSE page)
  /\ UNCHANGED <<storeVars, freezing, gatewayVars>>

\* Only the web application's back end simulates.
Simulate(w) ==
  /\ flow[w].kind = "simulate" /\ flow[w].at = "order"
  /\ \/ /\ flow[w].checkout # 0
        /\ NewCharge(frozen[flow[w].checkout])
        /\ confirmed' = confirmed \cup {Len(charges')}
        /\ Becomes(w, [flow[w] EXCEPT !.at = "answer", !.charge = Len(charges')])
     \/ /\ Becomes(w, Idle)
        /\ UNCHANGED <<charges, confirmed>>
  /\ UNCHANGED <<storeVars, page, freezing, frozen, approved, returned, mode>>

\* router.push to the order: whatever page there was is left.
Done(w) ==
  /\ LeftBehind(flow[IF w = "here" THEN "gone" ELSE "here"])
  /\ page' = Unmounted("away")
  /\ freezing' = FALSE

\* Mutated: the answer's amount is not compared.
RecordUncompared(w) ==
  /\ flow[w].kind \in {"modal", "simulate"} /\ flow[w].at = "answer"
  /\ PlaceOrder(flow[w].charge, flow[w].total, flow[w].bag)
  /\ Done(w)
  /\ UNCHANGED gatewayVars

\* The answer of the modal's verification or of the simulator.  The modal
\* compares the amount the answer states with the total of its render and
\* records nothing where they differ; the gateway and the simulator state none.
Differs(f) == f.kind = "modal" /\ mode = "live" /\ charges[f.charge] # f.total

Record(w) ==
  /\ flow[w].kind \in {"modal", "simulate"} /\ flow[w].at = "answer"
  /\ \/ /\ ~Differs(flow[w])
        /\ PlaceOrder(flow[w].charge, flow[w].total, flow[w].bag)
        /\ Done(w)
     \/ /\ Differs(flow[w])
        /\ Becomes(w, Idle)
        /\ UNCHANGED <<storeVars, page, freezing>>
  /\ UNCHANGED gatewayVars

-----------------------------------------------------------------------------
(* The redirect and the return page *)

\* The return page's callback closes over the bag of its first render, which
\* is read from localStorage before or after.
Returns(k) ==
  /\ Load
  /\ page' = Unmounted("return")
  /\ \E bag \in {<<>>, saved} :
       flow' = Only([Idle EXCEPT !.kind = "return", !.at = "verify", !.bag = bag,
                     !.charge = k])
  /\ freezing' = FALSE

\* The shopper pays on the provider's page and is sent back.
PayAndReturn ==
  /\ page.at = "provider"
  /\ NewCharge(Amount(flow["here"]))
  /\ Returns(Len(charges'))
  /\ returned' = returned \cup {Len(charges')}
  /\ UNCHANGED <<frozen, approved, confirmed, mode>>

\* The shopper gives up at the provider and comes back to the store.
Abandon ==
  /\ page.at = "provider"
  /\ Load
  /\ page' = Unmounted("away")
  /\ flow' = NoHandler
  /\ freezing' = FALSE
  /\ UNCHANGED gatewayVars

\* verifiedOnceRef lives as long as the document: a reload verifies again.
ReturnAgain(k) ==
  /\ page.at # "provider" /\ hydrated
  /\ k \in returned /\ Len(kept) < MaxOrders /\ Len(elsewhere) < MaxOrders
  /\ Returns(k)
  /\ UNCHANGED gatewayVars

\* The bag's own total is compared with the amount the answer states, and a
\* difference is shown as a failure and leaves the bag alone.  Otherwise the
\* order is listed if the handler's bag holds something, and the bag of now
\* is emptied.
ReturnRecord(w) ==
  /\ flow[w].kind = "return" /\ flow[w].at = "answer" /\ hydrated
  /\ LET f == flow[w]
         same == mode = "live" => charges[f.charge] = Total(f.bag)
     IN \/ same /\ f.bag # <<>> /\ PlaceOrder(f.charge, Total(f.bag), f.bag)
        \/ same /\ f.bag = <<>> /\ ClearCart
        \/ ~same /\ UNCHANGED storeVars
  /\ Becomes(w, Idle)
  /\ IF w = "here" THEN page' = Unmounted("away") /\ UNCHANGED freezing
     ELSE IF page.at = "checkout" /\ cart' # cart THEN DropFreeze
     ELSE UNCHANGED <<page, freezing>>
  /\ UNCHANGED gatewayVars

HydrateStep == Hydrate /\ UNCHANGED <<pageVars, gatewayVars>>

OtherTabStep(i) == OtherTab(i) /\ UNCHANGED <<pageVars, gatewayVars>>

\* The return address is opened in the other tab as well, and its order listed
\* there.
OtherTabReturns(k) ==
  /\ k \in returned \cap confirmed /\ Len(elsewhere) < MaxOrders
  /\ elsewhere' = <<[charge |-> k, total |-> charges[k], bag |-> <<>>]>> \o elsewhere
  /\ kept' = elsewhere' /\ saved' = <<>>
  /\ UNCHANGED <<cart, orders, hydrated, pageVars, gatewayVars>>

-----------------------------------------------------------------------------
\* Whatever a handler waits for.
Answers(w) ==
  \/ GrantFreeze(w) \/ Authorize(w) \/ OrderAnswered(w)
  \/ Confirm(w) \/ VerifyFails(w) \/ Simulate(w) \/ Record(w) \/ ReturnRecord(w)

CheckoutNext ==
  \/ Edit \/ OpenCheckout \/ LeaveCheckout \/ ReloadPage \/ FreezeLands \/ AcceptPrice
  \/ GoBack \/ Proceed \/ Override \/ Pay
  \/ \E w \in Handlers : Answers(w) \/ PayInModal(w) \/ Dismiss(w)
  \/ PayAndReturn \/ Abandon \/ HydrateStep
  \/ \E k \in 1..MaxCharges : ReturnAgain(k) \/ OtherTabReturns(k)
  \/ \E i \in OtherItems : OtherTabStep(i)

CheckoutSpec == CheckoutInit /\ [][CheckoutNext]_checkoutVars

\* The modal's own requests, for the provider order and for its verification,
\* are made with fetch alone (page.tsx:280, 330); nothing gives them up.
Bare == flow["here"].kind = "modal" /\ flow["here"].at \in {"order", "verify", "answer"}

\* The client answers every other request of the page, or gives it up.
FairCheckoutSpec == CheckoutSpec /\ WF_checkoutVars(~Bare /\ Answers("here"))

-----------------------------------------------------------------------------
(* Properties *)

CheckoutTypeOK ==
  /\ page.at \in {"away", "checkout", "provider", "return"}
  /\ page.step \in {"review", "pay"} /\ page.accepted \in BOOLEAN
  /\ page.checkout \in 0..Len(frozen) /\ page.auth \in {0} \cup approved
  /\ \A w \in Handlers :
       flow[w].bound \in 0..Len(frozen) /\ flow[w].charge \in 0..Len(charges)
  /\ approved \subseteq DOMAIN frozen /\ confirmed \subseteq DOMAIN charges
  /\ \A n \in DOMAIN cart : cart[n].qty \in 1..MaxQty

\* The page, the provider and the back end together keep the promise of
\* Purchase: whatever tabs overwrite, handlers outlive their page and documents
\* are replaced, an order is listed for a confirmed charge, at its amount, once
\* for the answer that was waited for.  Where the answer states no amount,
\* nothing is compared and the amount is left out.
Entries(list) ==
  [n \in DOMAIN list |->
     LET o == list[Len(list) + 1 - n]
     IN <<o.charge, IF mode = "live" THEN o.total ELSE charges[o.charge]>>]

Due == {flow[w].charge : w \in {v \in Handlers : flow[v].at \in {"verify", "answer"}}}

Listed == Entries(orders)
Keeps == Entries(kept)

Promise == INSTANCE Purchase WITH
  Amounts <- Nat \ {0}, due <- Due, listed <- Listed, keeps <- Keeps

PurchaseKept == Promise!PurchaseSpec


\* Not promised: nothing gives up a bare request.
OverlayGoes == Paying ~> ~Paying

\* Not promised: the bag a payment empties may have been filled meanwhile.
BagLeavesWithItsOrder ==
  [][hydrated' /\ cart # <<>> /\ cart' = <<>> /\ orders' # orders
       => Head(orders').bag = cart]_checkoutVars

\* Not promised: another tab writes its list over this one's.
OrdersStayKept ==
  [][\A n \in DOMAIN kept : \E m \in DOMAIN kept' : kept'[m] = kept[n]]_checkoutVars

\* Not promised: a return address that is opened again lists its order again.
ListedOnce ==
  \A n, m \in DOMAIN orders : orders[n].charge = orders[m].charge => n = m

\* page.tsx:135-138: "once it disagrees with the cart we stop before payment
\* rather than quietly charging a different number than the screen promised".
ChargedAsShown ==
  [][\A w \in Handlers : flow[w].at = "provider" /\ flow'[w].at = "verify" =>
       charges'[Len(charges')] = flow[w].total]_checkoutVars

\* page.tsx:406-414: the simulated order is "a gateway-confirmed record, not a
\* client-side invention": it is listed for what the gateway recorded.
SimulatedAsRecorded ==
  [][mode = "test" /\ Len(orders') > Len(orders) /\ hydrated =>
       Head(orders').total = charges[Head(orders').charge]]_checkoutVars

\* page.tsx:84-88: the approval of the previous bag is dropped, so that nobody
\* can "approve a small bag, add an expensive item, and pay under the old
\* authorization": what is charged never exceeds every total that was approved.
PaidUnderItsApproval ==
  [][page.at # "provider" /\ charges' # charges =>
       \E c \in approved : frozen[c] >= charges'[Len(charges')]]_checkoutVars

=============================================================================
