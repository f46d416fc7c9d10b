-------------------------- MODULE InventoryProofs --------------------------
(***************************************************************************)
(* The stock counters agree with the reservations, for every set of        *)
(* checkouts, every stock level and every quantity a caller may ask for.   *)
(*                                                                         *)
(* A hold of n units is a set of n elements (Units), so the sum over the   *)
(* reservations is the cardinality of a disjoint union, and reserving or   *)
(* settling a hold adds or removes one member of that union.               *)
(***************************************************************************)
EXTENDS Inventory, FiniteSetTheorems, TLAPS

-----------------------------------------------------------------------------
(* Units of a hold *)

\* Asking for n >= 1 units yields a finite set of n units.
LEMMA UnitsCardinality ==
  ASSUME NEW c \in Checkouts
  PROVE  /\ IsFiniteSet(Units(c))
         /\ QtyOf[c] >= 1 => Cardinality(Units(c)) = QtyOf[c]
<1>1. QtyOf[c] \in Int
  BY InventoryAssumption
<1>2. IsFiniteSet({c}) /\ Cardinality({c}) = 1
  BY FS_Singleton
<1>3. /\ IsFiniteSet(1 .. QtyOf[c])
      /\ Cardinality(1 .. QtyOf[c]) = IF 1 > QtyOf[c] THEN 0 ELSE QtyOf[c] - 1 + 1
  BY <1>1, FS_Interval
<1>4. /\ IsFiniteSet({c} \X (1 .. QtyOf[c]))
      /\ Cardinality({c} \X (1 .. QtyOf[c])) = Cardinality({c}) * Cardinality(1 .. QtyOf[c])
  BY <1>2, <1>3, FS_Product
<1> QED
  BY <1>1, <1>2, <1>3, <1>4 DEF Units

\* Units of different checkouts are different.
LEMMA UnitsDisjoint ==
  ASSUME NEW c, NEW d, c # d
  PROVE  Units(c) \cap Units(d) = {}
BY DEF Units

\* The units held for an offer are finitely many.
LEMMA UnitsHeldFinite ==
  ASSUME NEW o
  PROVE  IsFiniteSet(UnitsHeld(o))
<1> DEFINE All == {Units(c) : c \in Checkouts}
           f == [c \in Checkouts |-> Units(c)]
<1>1. f \in Surjection(Checkouts, All)
  BY DEF Surjection
<1>2. IsFiniteSet(All)
  BY <1>1, FS_Surjection, InventoryAssumption
<1>3. \A T \in All : IsFiniteSet(T)
  BY UnitsCardinality
<1>4. IsFiniteSet(UNION All)
  BY <1>2, <1>3, FS_UNION
<1>5. UnitsHeld(o) \in SUBSET UNION All
  BY DEF UnitsHeld, Held
<1> QED
  BY <1>4, <1>5, FS_Subset

\* A hold that starts adds its units to those of its offer.
LEMMA UnitsAfterReserve ==
  ASSUME hold \in [Checkouts -> HoldStatuses], NEW c \in Checkouts,
         hold[c] # "held", QtyOf[c] >= 1,
         hold' = [hold EXCEPT ![c] = "held"]
  PROVE  \A o \in Offers :
           Cardinality(UnitsHeld(o))' = Cardinality(UnitsHeld(o))
                                        + (IF o = OfferOf[c] THEN QtyOf[c] ELSE 0)
<1> SUFFICES ASSUME NEW o \in Offers
             PROVE  Cardinality(UnitsHeld(o)') = Cardinality(UnitsHeld(o))
                                        + (IF o = OfferOf[c] THEN QtyOf[c] ELSE 0)
  OBVIOUS
<1>1. IsFiniteSet(UnitsHeld(o)) /\ Cardinality(UnitsHeld(o)) \in Nat
  BY UnitsHeldFinite, FS_CardinalityType
<1>2. CASE o # OfferOf[c]
  <2>1. Held(o)' = Held(o)
    BY <1>2 DEF Held
  <2>2. UnitsHeld(o)' = UnitsHeld(o)
    BY <2>1 DEF UnitsHeld, Units
  <2> QED
    BY <2>2, <1>1, <1>2
<1>3. CASE o = OfferOf[c]
  <2>1. Held(o)' = Held(o) \cup {c}
    BY <1>3 DEF Held
  <2>2. UnitsHeld(o)' = UnitsHeld(o) \cup Units(c)
    BY <2>1 DEF UnitsHeld, Units
  <2>3. UnitsHeld(o) \cap Units(c) = {}
    BY UnitsDisjoint DEF UnitsHeld, Held
  <2>4. Cardinality({}) = 0
    BY FS_EmptySet
  <2>5. IsFiniteSet(Units(c)) /\ Cardinality(Units(c)) = QtyOf[c]
    BY UnitsCardinality
  <2>6. Cardinality(UnitsHeld(o) \cup Units(c)) =
          Cardinality(UnitsHeld(o)) + Cardinality(Units(c))
            - Cardinality(UnitsHeld(o) \cap Units(c))
    BY <1>1, <2>5, FS_Union
  <2>7. QtyOf[c] \in Int
    BY InventoryAssumption
  <2>8. Cardinality(UnitsHeld(o) \cap Units(c)) = 0
    BY <2>3, <2>4
  <2>9. Cardinality(UnitsHeld(o)') = Cardinality(UnitsHeld(o)) + QtyOf[c]
    BY <1>1, <2>2, <2>5, <2>6, <2>7, <2>8
  <2> QED
    BY <1>3, <2>9
<1> QED
  BY <1>2, <1>3

\* A hold that ends takes its units, all of which were counted, away.
LEMMA UnitsAfterSettle ==
  ASSUME hold \in [Checkouts -> HoldStatuses], NEW c \in Checkouts,
         hold[c] = "held", QtyOf[c] >= 1,
         NEW s, s # "held",
         hold' = [hold EXCEPT ![c] = s]
  PROVE  /\ QtyOf[c] <= Cardinality(UnitsHeld(OfferOf[c]))
         /\ \A o \in Offers :
              Cardinality(UnitsHeld(o))' = Cardinality(UnitsHeld(o))
                                           - (IF o = OfferOf[c] THEN QtyOf[c] ELSE 0)
<1> DEFINE p == OfferOf[c]
<1>1. \A o : IsFiniteSet(UnitsHeld(o)) /\ Cardinality(UnitsHeld(o)) \in Nat
  BY UnitsHeldFinite, FS_CardinalityType
<1>2. IsFiniteSet(Units(c)) /\ Cardinality(Units(c)) = QtyOf[c]
  BY UnitsCardinality
<1>3. Units(c) \in SUBSET UnitsHeld(p)
  BY DEF UnitsHeld, Held
<1>4. QtyOf[c] <= Cardinality(UnitsHeld(p))
  BY <1>1, <1>2, <1>3, FS_Subset
<1>5. Held(p)' = Held(p) \ {c}
  BY DEF Held
<1>6. UnitsHeld(p)' = UnitsHeld(p) \ Units(c)
  <2>1. \A d \in Held(p) \ {c} : Units(d) \cap Units(c) = {}
    BY UnitsDisjoint
  <2>2. UnitsHeld(p)' = UNION {Units(d) : d \in Held(p) \ {c}}
    BY <1>5 DEF UnitsHeld, Units
  <2> QED
    BY <2>1, <2>2 DEF UnitsHeld
<1>7. Cardinality(UnitsHeld(p) \ Units(c)) =
        Cardinality(UnitsHeld(p)) - Cardinality(UnitsHeld(p) \cap Units(c))
  BY <1>1, FS_Difference
<1>8. UnitsHeld(p) \cap Units(c) = Units(c)
  BY <1>3
<1>9. Cardinality(UnitsHeld(p)') = Cardinality(UnitsHeld(p)) - QtyOf[c]
  BY <1>2, <1>6, <1>7, <1>8
<1>10. ASSUME NEW o \in Offers, o # p
       PROVE  Cardinality(UnitsHeld(o)') = Cardinality(UnitsHeld(o))
  <2>1. Held(o)' = Held(o)
    BY <1>10 DEF Held
  <2>2. UnitsHeld(o)' = UnitsHeld(o)
    BY <2>1 DEF UnitsHeld, Units
  <2> QED
    BY <2>2
<1> QED
  BY <1>1, <1>4, <1>9, <1>10

-----------------------------------------------------------------------------
(* The inductive invariant *)

\* A reservation row exists only for a positive quantity, and an import only
\* ever raises: the two facts the counters' invariant needs to be inductive.
InventoryInv ==
  /\ InventoryTypeOK
  /\ \A c \in Checkouts : hold[c] # "none" => QtyOf[c] >= 1
  /\ \A o \in Offers : importing[o] # NoLevel => available[o] < importing[o]
  /\ CountersMatchHolds
  /\ HoldsAreInStock

\* What an open import will write, or the mark that it writes nothing, is an integer.
LEMMA ImportingIsInt ==
  ASSUME InventoryTypeOK, NEW o \in Offers
  PROVE  importing[o] \in Int
<1>1. importing[o] \in Levels \/ importing[o] = NoLevel
  BY DEF InventoryTypeOK
<1>2. NoLevel \in Int
  BY DEF NoLevel
<1>3. Levels \subseteq Int
  BY InventoryAssumption
<1> QED
  BY <1>1, <1>2, <1>3

LEMMA InventoryInvInit == InventoryInit => InventoryInv
<1> SUFFICES ASSUME InventoryInit PROVE InventoryInv
  OBVIOUS
<1> USE DEF InventoryInit
<1>0. Levels \subseteq Nat
  BY InventoryAssumption
<1>1. InventoryTypeOK
  BY <1>0 DEF InventoryTypeOK, HoldStatuses, NoLevel
<1>2. CountersMatchHolds
  <2>1. \A o \in Offers : UnitsHeld(o) = {}
    BY <1>0 DEF UnitsHeld, Held
  <2> QED
    BY <1>0, <2>1, FS_EmptySet DEF CountersMatchHolds
<1>3. HoldsAreInStock
  <2>1. \A o \in Offers : available[o] \in Nat /\ reserved[o] = 0
    BY <1>1 DEF InventoryTypeOK
  <2> QED
    BY <2>1 DEF HoldsAreInStock
<1> QED
  BY <1>0, <1>1, <1>2, <1>3 DEF InventoryInv

LEMMA InventoryInvReserve ==
  ASSUME InventoryInv, NEW c \in Checkouts, ReserveStock(c)
  PROVE  InventoryInv'
<1> USE DEF InventoryInv, ReserveStock, CanReserve
<1>0. QtyOf[c] \in Int /\ OfferOf[c] \in Offers /\ Levels \subseteq Nat
  BY InventoryAssumption
<1>1. \A o \in Offers :
        Cardinality(UnitsHeld(o))' = Cardinality(UnitsHeld(o))
                                     + (IF o = OfferOf[c] THEN QtyOf[c] ELSE 0)
  BY UnitsAfterReserve DEF InventoryTypeOK
<1>2. InventoryTypeOK'
  BY <1>0 DEF InventoryTypeOK, HoldStatuses
<1>3. CountersMatchHolds'
  BY <1>0, <1>1 DEF CountersMatchHolds, InventoryTypeOK
<1>4. HoldsAreInStock'
  BY <1>0 DEF HoldsAreInStock, InventoryTypeOK
<1>5. (\A d \in Checkouts : hold[d] # "none" => QtyOf[d] >= 1)'
  BY <1>0 DEF InventoryTypeOK
<1> QED
  BY <1>0, <1>2, <1>3, <1>4, <1>5

LEMMA InventoryInvRelease ==
  ASSUME InventoryInv, NEW c \in Checkouts, ReleaseHeld(c)
  PROVE  InventoryInv'
<1> USE DEF InventoryInv, ReleaseHeld
<1>0. QtyOf[c] \in Int /\ OfferOf[c] \in Offers /\ Levels \subseteq Nat
  BY InventoryAssumption
<1>1. /\ QtyOf[c] <= Cardinality(UnitsHeld(OfferOf[c]))
      /\ \A o \in Offers :
           Cardinality(UnitsHeld(o))' = Cardinality(UnitsHeld(o))
                                        - (IF o = OfferOf[c] THEN QtyOf[c] ELSE 0)
  BY UnitsAfterSettle DEF InventoryTypeOK
<1>2. CounterCovers(c)
  BY <1>0, <1>1 DEF CounterCovers, CountersMatchHolds
<1>3. InventoryTypeOK'
  BY <1>0, <1>2 DEF InventoryTypeOK, HoldStatuses, CounterCovers
<1>4. CountersMatchHolds'
  BY <1>0, <1>1, <1>2 DEF CountersMatchHolds, InventoryTypeOK
<1>5. HoldsAreInStock'
  BY <1>0, <1>2 DEF HoldsAreInStock, InventoryTypeOK
<1>6. (\A d \in Checkouts : hold[d] # "none" => QtyOf[d] >= 1)'
  BY <1>0 DEF InventoryTypeOK
<1> QED
  BY <1>0, <1>3, <1>4, <1>5, <1>6

LEMMA InventoryInvCommit ==
  ASSUME InventoryInv, NEW c \in Checkouts, CommitHeld(c)
  PROVE  InventoryInv'
<1> USE DEF InventoryInv, CommitHeld
<1>0. QtyOf[c] \in Int /\ OfferOf[c] \in Offers /\ Levels \subseteq Nat
  BY InventoryAssumption
<1>1. \A o \in Offers :
        Cardinality(UnitsHeld(o))' = Cardinality(UnitsHeld(o))
                                     - (IF o = OfferOf[c] THEN QtyOf[c] ELSE 0)
  BY UnitsAfterSettle DEF InventoryTypeOK
<1>2. InventoryTypeOK'
  BY <1>0 DEF InventoryTypeOK, HoldStatuses, CounterCovers, HoldsAreInStock
<1>3. CountersMatchHolds'
  BY <1>0, <1>1 DEF CountersMatchHolds, InventoryTypeOK
<1>4. HoldsAreInStock'
  BY <1>0 DEF HoldsAreInStock, InventoryTypeOK
<1>5. (\A d \in Checkouts : hold[d] # "none" => QtyOf[d] >= 1)'
  BY <1>0 DEF InventoryTypeOK
<1>6. (\A o \in Offers : importing[o] # NoLevel => available[o] < importing[o])'
  <2>1. \A o \in Offers : importing[o] \in Int
    BY ImportingIsInt
  <2>2. \A o \in Offers : available'[o] \in Int /\ available'[o] <= available[o]
    BY <1>0 DEF InventoryTypeOK
  <2> QED
    BY <2>1, <2>2 DEF InventoryTypeOK
<1> QED
  BY <1>0, <1>2, <1>3, <1>4, <1>5, <1>6

LEMMA InventoryInvImport ==
  ASSUME InventoryInv, Import
  PROVE  InventoryInv'
<1> USE DEF InventoryInv
<1>0. Levels \subseteq Nat
  BY InventoryAssumption
<1>1. UNCHANGED <<reserved, hold>>
  BY <1>0 DEF Import, ImportRead, ImportFlush, ImportAbort
<1>2. CountersMatchHolds'
  BY <1>0, <1>1 DEF CountersMatchHolds, UnitsHeld, Units, Held
<1>3. (\A d \in Checkouts : hold[d] # "none" => QtyOf[d] >= 1)'
  BY <1>0, <1>1
<1>4. ASSUME NEW o \in Offers, NEW level \in Levels, ImportRead(o, level)
      PROVE  InventoryInv'
  <2>1. InventoryTypeOK'
    BY <1>0, <1>4 DEF ImportRead, InventoryTypeOK
  <2> QED
    BY <1>0, <1>2, <1>3, <1>4, <2>1 DEF ImportRead, InventoryTypeOK, HoldsAreInStock
<1>5. CASE ImportFlush
  <2>1. \A o \in Offers :
          available'[o] = IF importing[o] = NoLevel THEN available[o] ELSE importing[o]
    BY <1>0, <1>5 DEF ImportFlush
  <2>2. InventoryTypeOK'
    BY <1>0, <1>1, <1>5, <2>1 DEF ImportFlush, InventoryTypeOK
  <2>3. HoldsAreInStock'
    BY <1>0, <1>1, <1>5, <2>1 DEF ImportFlush, HoldsAreInStock
  <2> QED
    BY <1>0, <1>2, <1>3, <1>5, <2>2, <2>3 DEF ImportFlush
<1>6. CASE ImportAbort
  <2>1. InventoryTypeOK'
    BY <1>0, <1>6 DEF ImportAbort, InventoryTypeOK
  <2> QED
    BY <1>0, <1>2, <1>3, <1>6, <2>1 DEF ImportAbort, HoldsAreInStock
<1> QED
  BY <1>0, <1>4, <1>5, <1>6 DEF Import

\* Every step of the counters preserves the invariant.
LEMMA InventoryInvNext ==
  InventoryInv /\ [InventoryNext]_inventoryVars => InventoryInv'
<1> SUFFICES ASSUME InventoryInv, [InventoryNext]_inventoryVars
             PROVE  InventoryInv'
  OBVIOUS
<1>1. CASE UNCHANGED inventoryVars
  BY <1>1 DEF inventoryVars, InventoryInv, InventoryTypeOK, CountersMatchHolds,
              HoldsAreInStock, UnitsHeld, Units, Held
<1>2. CASE InventoryNext
  BY <1>2, InventoryInvReserve, InventoryInvRelease, InventoryInvCommit,
     InventoryInvImport DEF InventoryNext
<1> QED
  BY <1>1, <1>2

\* Whatever is reserved, released, sold and imported, in whatever order, the
\* invariant holds (services/inventory/repository.py, service.py).
THEOREM InventoryInvariant == InventorySpec => []InventoryInv
BY InventoryInvInit, InventoryInvNext, PTL DEF InventorySpec

-----------------------------------------------------------------------------
(* Theorems *)

\* The reserved counter of every offer is the number of units held.
THEOREM CountersAreExact == InventorySpec => []CountersMatchHolds
<1>1. InventoryInv => CountersMatchHolds
  BY DEF InventoryInv
<1> QED
  BY <1>1, InventoryInvariant, PTL

\* Nothing is held that is not in stock.
THEOREM NoOverselling == InventorySpec => []HoldsAreInStock
<1>1. InventoryInv => HoldsAreInStock
  BY DEF InventoryInv
<1> QED
  BY <1>1, InventoryInvariant, PTL

\* The counter guard of release and commit never misses, so a release never
\* marks a reservation released while its units stay counted.
THEOREM HoldsAlwaysCovered == InventorySpec => []HoldsAreCovered
<1>1. InventoryInv => HoldsAreCovered
  <2> SUFFICES ASSUME InventoryInv, NEW c \in Checkouts, hold[c] = "held"
               PROVE  CounterCovers(c)
    BY DEF HoldsAreCovered
  <2>1. IsFiniteSet(UnitsHeld(OfferOf[c]))
    BY UnitsHeldFinite
  <2>2. Units(c) \in SUBSET UnitsHeld(OfferOf[c])
    BY DEF UnitsHeld, Held
  <2>3. Cardinality(Units(c)) <= Cardinality(UnitsHeld(OfferOf[c]))
    BY <2>1, <2>2, FS_Subset
  <2>4. Cardinality(Units(c)) = QtyOf[c]
    BY UnitsCardinality DEF InventoryInv
  <2> QED
    BY <2>3, <2>4, InventoryAssumption
    DEF CounterCovers, InventoryInv, CountersMatchHolds
<1> QED
  BY <1>1, InventoryInvariant, PTL

\* A counter falls only by selling a hold, an import racing with it included.
THEOREM StockIsOnlySold == InventorySpec => StockFallsOnlyBySale
<1> DEFINE Step == \A o \in Offers :
             available'[o] < available[o] =>
               \E c \in Checkouts :
                 /\ OfferOf[c] = o
                 /\ hold[c] = "held" /\ hold'[c] = "committed"
                 /\ available[o] - available'[o] = QtyOf[c]
<1>1. ASSUME InventoryInv, InventoryNext PROVE Step
  <2> USE <1>1 DEF InventoryInv, InventoryTypeOK
  <2>0. \A c \in Checkouts : QtyOf[c] \in Int /\ OfferOf[c] \in Offers
    BY InventoryAssumption
  <2>1. ASSUME NEW c \in Checkouts, ReserveStock(c) PROVE Step
    BY <2>0, <2>1 DEF ReserveStock
  <2>2. ASSUME NEW c \in Checkouts, ReleaseHeld(c) PROVE Step
    BY <2>2 DEF ReleaseHeld
  <2>3. ASSUME NEW c \in Checkouts, CommitHeld(c) PROVE Step
    BY <2>0, <2>3 DEF CommitHeld
  <2>4. CASE Import
    <3>1. \A o \in Offers : importing[o] # NoLevel => available[o] < importing[o]
      OBVIOUS
    <3>2. \A o \in Offers : importing[o] \in Int /\ available[o] \in Int
      BY ImportingIsInt
    <3>3. \A o \in Offers : available'[o] = available[o] \/ available[o] < available'[o]
      BY <2>4, <3>1 DEF Import, ImportRead, ImportFlush, ImportAbort
    <3>4. available' \in [Offers -> Int]
      BY <2>4, <3>2 DEF Import, ImportRead, ImportFlush, ImportAbort
    <3> QED
      BY <3>2, <3>3, <3>4
  <2> QED
    BY <2>1, <2>2, <2>3, <2>4 DEF InventoryNext
<1>2. UNCHANGED inventoryVars => [Step]_inventoryVars
  OBVIOUS
<1>3. InventoryInv /\ [InventoryNext]_inventoryVars => [Step]_inventoryVars
  BY <1>1
<1> QED
  BY <1>3, InventoryInvariant, PTL DEF InventorySpec, StockFallsOnlyBySale

=============================================================================
