--------------------------- MODULE MCCheckoutPage ---------------------------
(***************************************************************************)
(* A small instance of CheckoutPage for TLC: up to two of one product,     *)
(* which the gateway prices at twice what the page believes.  So the total *)
(* of one bag is what another one is charged.                              *)
(***************************************************************************)
EXTENDS CheckoutPage

CONSTANT i1

PagePrices == (i1 :> 1)
ChangedPrices == (i1 :> 2)

=============================================================================
