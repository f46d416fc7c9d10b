----------------------------- MODULE Inventory -----------------------------
(***************************************************************************)
(* Stock counters and reservations: services/inventory/repository.py,      *)
(* services/inventory/service.py and the catalogue import that raises the  *)
(* counters (services/catalog/service.py).                                 *)
(*                                                                         *)
(* Every handler that touches stock does it with single UPDATE statements  *)
(* whose WHERE clause carries the guard; the row locks they take live      *)
(* until the transaction ends, so each of them is one step here.  The      *)
(* import is two steps, because it reads a counter through the ORM and     *)
(* writes an absolute value back when the whole batch is flushed.          *)
(***************************************************************************)
EXTENDS Integers, FiniteSets

CONSTANTS
  Offers,       \* offers with an inventory row
  Checkouts,    \* checkouts that may reserve; an identifier is used once
  OfferOf,      \* the offer each checkout is for
  QtyOf,        \* the quantity each checkout asks for, as the caller sent it
  Levels        \* stock levels a catalogue feed may name

ASSUME InventoryAssumption ==
  /\ IsFiniteSet(Checkouts)
  /\ OfferOf \in [Checkouts -> Offers]
  /\ QtyOf \in [Checkouts -> Int]
  /\ Levels \subseteq Nat

NoLevel == -1   \* no write pending: never a level, which is a natural number

VARIABLES
  available,    \* inventory.available_quantity, per offer
  reserved,     \* inventory.reserved_quantity, per offer
  hold,         \* reservation.status, per checkout ("none": no row)
  importing     \* the level the open import will write, per offer

inventoryVars == <<available, reserved, hold, importing>>

HoldStatuses == {"none", "held", "released", "committed"}

InventoryInit ==
  /\ available \in [Offers -> Levels]
  /\ reserved = [o \in Offers |-> 0]
  /\ hold = [c \in Checkouts |-> "none"]
  /\ importing = [o \in Offers |-> NoLevel]

-----------------------------------------------------------------------------
(* Reservation lifecycle *)

\* Mutated: what others already hold is not deducted.
CanReserveIgnoringHolds(c) ==
  QtyOf[c] >= 1 /\ available[OfferOf[c]] >= QtyOf[c]

\* The WHERE clause of the conditional UPDATE, behind the check of the quantity.
CanReserve(c) ==
  /\ QtyOf[c] >= 1
  /\ available[OfferOf[c]] - reserved[OfferOf[c]] >= QtyOf[c]

\* reserve_stock for the checkout a request has just inserted.  A refused
\* reservation raises and changes nothing.
ReserveStock(c) ==
  /\ hold[c] = "none"
  /\ CanReserve(c)
  /\ reserved' = [reserved EXCEPT ![OfferOf[c]] = @ + QtyOf[c]]
  /\ hold' = [hold EXCEPT ![c] = "held"]
  /\ UNCHANGED <<available, importing>>

\* The second statement of release and commit, which both carry this guard.
CounterCovers(c) == reserved[OfferOf[c]] >= QtyOf[c]

\* Mutated: the status guard of the first UPDATE is dropped.
ReleaseTwice(c) ==
  /\ hold[c] # "none"
  /\ hold' = [hold EXCEPT ![c] = "released"]
  /\ reserved' = IF CounterCovers(c)
                 THEN [reserved EXCEPT ![OfferOf[c]] = @ - QtyOf[c]]
                 ELSE reserved
  /\ UNCHANGED <<available, importing>>

\* A held reservation is released.  Were the counter too small, the second
\* UPDATE would match no row and the reservation alone would change.
ReleaseHeld(c) ==
  /\ hold[c] = "held"
  /\ hold' = [hold EXCEPT ![c] = "released"]
  /\ reserved' = IF CounterCovers(c)
                 THEN [reserved EXCEPT ![OfferOf[c]] = @ - QtyOf[c]]
                 ELSE reserved
  /\ UNCHANGED <<available, importing>>

\* release_stock: idempotent, a no-op unless the reservation is held.
ReleaseStock(c) ==
  \/ ReleaseHeld(c)
  \/ hold[c] # "held" /\ UNCHANGED inventoryVars

\* A held reservation is sold: both counters fall.
CommitHeld(c) ==
  /\ hold[c] = "held"
  /\ CounterCovers(c)
  /\ hold' = [hold EXCEPT ![c] = "committed"]
  /\ reserved' = [reserved EXCEPT ![OfferOf[c]] = @ - QtyOf[c]]
  /\ available' = [available EXCEPT ![OfferOf[c]] = @ - QtyOf[c]]
  /\ UNCHANGED importing

\* commit_stock when it returns normally; it raises when there is no
\* reservation or a released one.
CommitRaises(c) == hold[c] \in {"none", "released"}

CommitStock(c) ==
  \/ CommitHeld(c)
  \/ hold[c] = "committed" /\ UNCHANGED inventoryVars

-----------------------------------------------------------------------------
(* Catalogue import *)

\* Mutated: the import overwrites the counter instead of raising it.
ImportReadAny(o, level) ==
  /\ importing[o] = NoLevel
  /\ level # available[o]
  /\ importing' = [importing EXCEPT ![o] = level]
  /\ UNCHANGED <<available, reserved, hold>>

\* The import sees an offer that already has a counter.  The ORM keeps the new
\* value until the flush, and writes it only when it differs from the one read.
ImportRead(o, level) ==
  /\ importing[o] = NoLevel
  /\ level > available[o]
  /\ importing' = [importing EXCEPT ![o] = level]
  /\ UNCHANGED <<available, reserved, hold>>

\* The batch is flushed and committed; CHECK (reserved <= available) holds or
\* the transaction fails.
ImportFlush ==
  LET written(o) == IF importing[o] = NoLevel THEN available[o] ELSE importing[o]
  IN  /\ \E o \in Offers : importing[o] # NoLevel
      /\ \A o \in Offers : reserved[o] <= written(o)
      /\ available' = [o \in Offers |-> written(o)]
      /\ importing' = [o \in Offers |-> NoLevel]
      /\ UNCHANGED <<reserved, hold>>

\* The import fails or its process dies: nothing was written.
ImportAbort ==
  /\ \E o \in Offers : importing[o] # NoLevel
  /\ importing' = [o \in Offers |-> NoLevel]
  /\ UNCHANGED <<available, reserved, hold>>

Import ==
  \/ \E o \in Offers, level \in Levels : ImportRead(o, level)
  \/ ImportFlush
  \/ ImportAbort

InventoryNext ==
  \/ \E c \in Checkouts : ReserveStock(c) \/ ReleaseHeld(c) \/ CommitHeld(c)
  \/ Import

InventorySpec == InventoryInit /\ [][InventoryNext]_inventoryVars

-----------------------------------------------------------------------------
(* Properties *)

\* Counters are integers in range and every reservation has a known status.
InventoryTypeOK ==
  /\ available \in [Offers -> Nat]
  /\ reserved \in [Offers -> Nat]
  /\ hold \in [Checkouts -> HoldStatuses]
  /\ importing \in [Offers -> Levels \cup {NoLevel}]

Held(o) == {c \in Checkouts : hold[c] = "held" /\ OfferOf[c] = o}

\* A hold of n units, as a set of n elements.
Units(c) == {c} \X (1 .. QtyOf[c])

UnitsHeld(o) == UNION {Units(c) : c \in Held(o)}

\* The reserved counter of an offer is exactly the number of units held by the
\* reservations that exist: no reserve, release or commit is lost or applied
\* twice, whatever the interleaving (repository.py).
CountersMatchHolds ==
  \A o \in Offers : reserved[o] = Cardinality(UnitsHeld(o))

\* Held units are in stock, so a hold can always be sold: the CHECK
\* constraint of the inventory table never has to reject a commit.
HoldsAreInStock ==
  \A o \in Offers : reserved[o] <= available[o]

\* A hold's second UPDATE never misses: release and commit of a held
\* reservation always find a counter that covers it.
HoldsAreCovered ==
  \A c \in Checkouts : hold[c] = "held" => CounterCovers(c)

\* Stock falls only by selling a hold, by exactly the quantity of that hold:
\* an import racing with a sale never takes stock away.
StockFallsOnlyBySale ==
  [][\A o \in Offers :
       available'[o] < available[o] =>
         \E c \in Checkouts :
           /\ OfferOf[c] = o
           /\ hold[c] = "held" /\ hold'[c] = "committed"
           /\ available[o] - available'[o] = QtyOf[c]]_inventoryVars

=============================================================================
