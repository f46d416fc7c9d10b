------------------------------ MODULE Purchase ------------------------------
(***************************************************************************)
(* What a shopper is promised about paying.  Money that is charged may be  *)
(* confirmed by the gateway.  A confirmed charge enters the shopper's list *)
(* of orders when its confirmation is awaited there, at the amount that was*)
(* charged, and once: again only if the address the provider sent the      *)
(* shopper back to is opened again.  The list is also read anew from what  *)
(* the browser keeps, and other tabs may keep other lists there, of        *)
(* confirmed charges too; that an order stays listed is not promised.      *)
(***************************************************************************)
EXTENDS Naturals, Sequences

CONSTANTS Amounts, MaxCharges

VARIABLES
  charges,    \* amounts the provider charged, in order
  confirmed,  \* the charges the gateway has confirmed as orders
  returned,   \* the charges that have a return address
  due,        \* the charges a confirmation is awaited for
  listed,     \* the shopper's orders, as <<charge, total>> in order
  keeps       \* those the browser keeps

listsVars == <<listed, keeps>>
purchaseVars == <<charges, confirmed, returned, due, listsVars>>

PurchaseInit ==
  /\ charges = <<>> /\ confirmed = {} /\ returned = {} /\ due = {}
  /\ listed = <<>> /\ keeps = <<>>

\* A charge of some amount, which may be confirmed at once, on this page or
\* on the provider's.
Charge ==
  /\ Len(charges) < MaxCharges
  /\ Len(charges') = Len(charges) + 1 /\ charges'[Len(charges')] \in Amounts
  /\ charges' = Append(charges, charges'[Len(charges')])
  /\ due' \subseteq due \cup {Len(charges')}
  /\ confirmed' \in {confirmed, confirmed \cup {Len(charges')}}
  /\ \/ UNCHANGED <<returned, listed>>
     \/ returned' = returned \cup {Len(charges')} /\ listed' = <<>>
  /\ UNCHANGED keeps

Confirm(k) ==
  /\ k \in due
  /\ confirmed' = confirmed \cup {k}
  /\ UNCHANGED <<charges, returned, due, listsVars>>

List(k) ==
  /\ k \in due /\ k \in confirmed
  /\ listed' = Append(listed, <<k, charges[k]>>)
  /\ keeps' \in {keeps, listed'}
  /\ due' = due \ {k}
  /\ UNCHANGED <<charges, confirmed, returned>>

\* A confirmation that does not come, or a document that is loaded anew and
\* reads what the browser keeps.
Forget ==
  /\ due' \subseteq due
  /\ listed' \in {listed, <<>>, keeps}
  /\ UNCHANGED <<charges, confirmed, returned, keeps>>

Reopen(k) ==
  /\ k \in returned
  /\ due' = {k} /\ listed' = <<>>
  /\ UNCHANGED <<charges, confirmed, returned, keeps>>

\* Another tab keeps its list.
KeepAnother ==
  /\ \A n \in DOMAIN keeps' :
       keeps'[n][1] \in confirmed /\ keeps'[n][2] = charges[keeps'[n][1]]
  /\ UNCHANGED <<charges, confirmed, returned, due, listed>>

PurchaseNext ==
  \/ Charge \/ Forget \/ KeepAnother
  \/ \E k \in 1..MaxCharges : Confirm(k) \/ List(k) \/ Reopen(k)

PurchaseSpec == PurchaseInit /\ [][PurchaseNext]_purchaseVars

=============================================================================
