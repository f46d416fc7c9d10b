---------------------------- MODULE MCInventory ----------------------------
(***************************************************************************)
(* Stock on two offers and four checkouts, one of which asks for a negative *)
(* quantity, which the service must refuse; a merchant's two stores; and    *)
(* refunds of two payments.  They share nothing here, so each behaviour     *)
(* stays in one of the three.                                               *)
(***************************************************************************)
EXTENDS Inventory, Channels, Refunds, TLC

CONSTANTS o1, o2, c1, c2, c3, c4, s1, s2, p1, p2, w1, w2

MCOfferOf == [c \in {c1, c2, c3, c4} |-> IF c = c3 THEN o2 ELSE o1]
MCQtyOf == [c \in {c1, c2, c3, c4} |->
              CASE c = c2 -> 2 [] c = c4 -> -1 [] OTHER -> 1]
MCLevels == {0, 2, 3}

MCCaptured == [p \in {p1, p2} |-> IF p = p1 THEN 2 ELSE 3]
MCAmounts == {-1, 0, 1, 2}

StoreSymmetry == Permutations({s1, s2}) \cup Permutations({w1, w2})

VARIABLE area

vars == <<area, inventoryVars, channelVars, refundVars>>

Init ==
  /\ area \in {"stock", "stores", "refunds"}
  /\ InventoryInit /\ ChannelsInit /\ RefundsInit
  /\ area # "stores" => ~ ownSeed
  /\ area # "stock" => \A o \in Offers : available[o] = 0

Next ==
  \/ area = "stock" /\ InventoryNext /\ UNCHANGED <<area, channelVars, refundVars>>
  \/ area = "stores" /\ ChannelsNext /\ UNCHANGED <<area, inventoryVars, refundVars>>
  \/ area = "refunds" /\ RefundsNext /\ UNCHANGED <<area, inventoryVars, channelVars>>

Spec == Init /\ [][Next]_vars
=============================================================================
