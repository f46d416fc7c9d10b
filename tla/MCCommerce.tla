---------------------------- MODULE MCCommerce -----------------------------
(* Instances of Commerce for TLC: one offer, checkouts of one unit each.    *)
EXTENDS Commerce, TLC

CONSTANTS o1, c1, c2, w1, w2, ck, k1

MCOfferOf == [c \in Checkouts |-> o1]
MCQtyOf == [c \in Checkouts |-> 1]
MCLevels == {1}

WorkerSymmetry == Permutations({w1, w2})
=============================================================================
