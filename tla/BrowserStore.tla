---------------------------- MODULE BrowserStore ----------------------------
(***************************************************************************)
(* The shopper's side of the store (apps/web/src/context/StoreContext.tsx):*)
(* the bag and the list of orders of one tab, and their copies in          *)
(* localStorage that every tab of the browser writes and none listens to.  *)
(***************************************************************************)
EXTENDS Naturals, Sequences, SequencesExt

CONSTANTS
  Items,      \* products
  CartPrice,  \* what the page believes a product costs
  MaxQty      \* bound on a line's quantity

ASSUME StoreAssumption ==
  /\ CartPrice \in [Items -> Nat \ {0}]
  /\ MaxQty \in Nat \ {0}

VARIABLES
  cart,      \* lines [item, qty] of this tab, in order
  orders,    \* orders of this tab, newest first, as [charge, total, bag]
  saved,     \* localStorage, agentpay_cart
  kept,      \* localStorage, agentpay_orders
  elsewhere, \* the orders another tab holds
  hydrated   \* has this tab read localStorage

listVars == <<orders, kept, elsewhere>>
storeVars == <<cart, saved, listVars, hydrated>>

StoreInit ==
  /\ cart = <<>> /\ orders = <<>> /\ saved = <<>> /\ kept = <<>> /\ elsewhere = <<>>
  /\ hydrated = TRUE

\* The sum of its lines at the given prices.
Priced(bag, price) ==
  LET sum[n \in 0 .. Len(bag)] ==
        IF n = 0 THEN 0 ELSE sum[n - 1] + bag[n].qty * price[bag[n].item]
  IN sum[Len(bag)]

Total(bag) == Priced(bag, CartPrice)

Lists(bag, i) == \E n \in DOMAIN bag : bag[n].item = i

\* A product has one line at most.  A change of the bag is saved by the effect that follows it.
SetCart(bag) == cart' = bag /\ saved' = IF hydrated THEN bag ELSE saved

SetQuantity(bag, i, q) ==
  [n \in DOMAIN bag |-> IF bag[n].item = i THEN [bag[n] EXCEPT !.qty = q] ELSE bag[n]]

AddToCart(i) ==
  /\ \A n \in DOMAIN cart : cart[n].item = i => cart[n].qty < MaxQty
  /\ SetCart(IF Lists(cart, i)
             THEN [n \in DOMAIN cart |->
                     IF cart[n].item = i THEN [cart[n] EXCEPT !.qty = @ + 1]
                     ELSE cart[n]]
             ELSE Append(cart, [item |-> i, qty |-> 1]))
  /\ UNCHANGED <<listVars, hydrated>>

RemoveFromCart(i) ==
  /\ \E n \in DOMAIN cart : cart[n].item = i /\ SetCart(RemoveAt(cart, n))
  /\ UNCHANGED <<listVars, hydrated>>

\* A quantity of zero or less removes the line.
UpdateCartQuantity(i, q) ==
  /\ Lists(cart, i)
  /\ IF q = 0 THEN RemoveFromCart(i)
     ELSE /\ SetCart(SetQuantity(cart, i, q))
          /\ UNCHANGED <<listVars, hydrated>>

\* placeOrder: the order comes first in the list, which the effect that
\* follows saves as a whole, and the bag is emptied, whatever it holds by now.
PlaceOrder(charge, total, bag) ==
  /\ orders' = <<[charge |-> charge, total |-> total, bag |-> bag]>> \o orders
  /\ kept' = IF hydrated THEN orders' ELSE kept
  /\ SetCart(<<>>)
  /\ UNCHANGED <<elsewhere, hydrated>>

ClearCart == SetCart(<<>>) /\ UNCHANGED <<listVars, hydrated>>

\* The document is loaded anew: the provider's first render has no bag and
\* no orders.
Load ==
  /\ hydrated' = FALSE
  /\ cart' = <<>> /\ orders' = <<>>
  /\ UNCHANGED <<saved, kept, elsewhere>>

\* The effect that reads localStorage after the first render.
Hydrate ==
  /\ ~hydrated
  /\ hydrated' = TRUE
  /\ cart' = saved /\ orders' = kept
  /\ UNCHANGED <<saved, kept, elsewhere>>

\* Another tab saves its own bag over this one's, reads the orders when it is
\* loaded, or saves those it read some time ago over what came after.
OtherTab(i) ==
  /\ \/ saved' = <<[item |-> i, qty |-> 1]>> /\ UNCHANGED <<kept, elsewhere>>
     \/ elsewhere' = kept /\ UNCHANGED <<saved, kept>>
     \/ kept' = elsewhere /\ UNCHANGED <<saved, elsewhere>>
  /\ UNCHANGED <<cart, orders, hydrated>>

=============================================================================
