----------------------------- MODULE OrderPages -----------------------------
(***************************************************************************)
(* The buyer's pages about orders placed (apps/web/src/app/orders/page.tsx,*)
(* orders/[id]/page.tsx, timeline/[id]/page.tsx).  None of them cancels a  *)
(* load: whatever answers last is shown.  The first two also read the      *)
(* orders saved on this device, which reach the page after its first render*)
(* when the document is loaded, and before it when the page is navigated to*)
(* (early); a change of them starts the load again.                        *)
(***************************************************************************)
EXTENDS Naturals, FiniteSets, Sequences, SequencesExt

CONSTANTS
  Recorded,  \* the gateway's orders of this buyer, newest first
  Saved,     \* those saved on this device, newest first
  PageSize,  \* PAGE_SIZE
  Types,     \* aggregate types of the ledger
  MaxLoads   \* bound on loads of a page

ASSUME OrderPagesAssumption ==
  /\ PageSize \in Nat \ {0} /\ MaxLoads \in Nat \ {0} /\ Types # {}
  /\ IsInjective(Recorded) /\ IsInjective(Saved)

VARIABLES
  place,   \* "list", "detail", "timeline"
  early,   \* the page was rendered before the device's orders were read
  device,  \* the device's orders, as the page has them
  asked,   \* the offset, the order or the aggregate type asked for
  loads,   \* loads under way, numbered
  count,   \* how many were started
  phase,   \* "loading", "loaded", "failed"
  page,    \* list: what setPage was last given, and the fallback's flag
  detail,  \* detail: the order, its payment and the notice beside it
  events   \* timeline: the type the events shown were read for

orderVars == <<place, early, device, asked, loads, count, phase, page, detail, events>>

OrderIds == ToSet(Recorded) \cup ToSet(Saved)
NoPage == [offset |-> 0, rows |-> <<>>, total |-> 0, fallback |-> FALSE]
NoDetail == [source |-> "none", payment |-> "none", notice |-> "none"]

\* A load remembers what it was asked for and the device's orders it closed over.
Load(n, p, a, d) == [n |-> n, place |-> p, ask |-> a, device |-> d, stage |-> "first"]

AsksOf(p) == CASE p = "list" -> {0} [] p = "detail" -> OrderIds [] OTHER -> Types

OrderPagesInit ==
  /\ place \in {"list", "detail", "timeline"}
  /\ early \in BOOLEAN
  /\ device = IF early THEN <<>> ELSE Saved
  /\ asked \in AsksOf(place)
  /\ loads = {Load(1, place, asked, device)} /\ count = 1
  /\ phase = "loading"
  /\ page = NoPage /\ detail = NoDetail /\ events = "none"

\* load(): what is shown stays; the flag and the notice are taken back.
Reloads(a, d) ==
  /\ count < MaxLoads
  /\ count' = count + 1
  /\ loads' = loads \cup {Load(count + 1, place, a, d)}
  /\ phase' = "loading"
  /\ page' = [page EXCEPT !.fallback = FALSE]
  /\ detail' = [detail EXCEPT !.notice = "none"]
  /\ UNCHANGED <<place, early, events>>

\* The device's orders arrive from localStorage: a new array, a new load.
Hydrate ==
  /\ device = <<>> /\ Saved # <<>> /\ place # "timeline"
  /\ device' = Saved
  /\ Reloads(asked, Saved)
  /\ UNCHANGED asked

TryAgain ==
  /\ phase = "failed"
  /\ Reloads(asked, device)
  /\ UNCHANGED <<device, asked>>

-----------------------------------------------------------------------------
(* The list *)

Empty == Len(page.rows) = 0
ShownTo == asked + Len(page.rows)

\* Mutated: the buttons stay while a page is read.
PagesAlways == place = "list" /\ ~Empty

\* The buttons come with the orders.
Paging == place = "list" /\ phase = "loaded" /\ ~Empty

Newer ==
  /\ Paging /\ asked > 0
  /\ asked' = asked - PageSize
  /\ Reloads(asked - PageSize, device)
  /\ UNCHANGED device

Older ==
  /\ Paging /\ ShownTo < page.total
  /\ asked' = asked + PageSize
  /\ Reloads(asked + PageSize, device)
  /\ UNCHANGED device

PageOf(offset) == SubSeq(Recorded, offset + 1, Min({offset + PageSize, Len(Recorded)}))

LocalOnly(saved, remote) == SelectSeq(saved, LAMBDA o : o \notin ToSet(remote))

\* The gateway's page, after the device's orders it does not list; the total
\* counts these on every page.
ListRead(load) ==
  LET remote == PageOf(load.ask)
      localOnly == LocalOnly(load.device, remote)
  IN [offset |-> load.ask,
      rows |-> (IF load.ask = 0 THEN localOnly ELSE <<>>) \o remote,
      total |-> Len(Recorded) + Len(localOnly)]

ListAnswers(load) ==
  /\ place = "list"
  /\ loads' = loads \ {load}
  /\ LET read == ListRead(load)
     IN page' = [page EXCEPT !.offset = read.offset, !.rows = read.rows, !.total = read.total]
  /\ phase' = "loaded"
  /\ UNCHANGED <<place, early, device, asked, count, detail, events>>

\* The device's orders stand in, as a first page, and are said to.
ListFails(load) ==
  /\ place = "list"
  /\ loads' = loads \ {load}
  /\ IF load.device # <<>>
     THEN /\ page' = [offset |-> 0, rows |-> load.device, total |-> Len(load.device),
                      fallback |-> TRUE]
          /\ phase' = "loaded"
     ELSE phase' = "failed" /\ UNCHANGED page
  /\ UNCHANGED <<place, early, device, asked, count, detail, events>>

-----------------------------------------------------------------------------
(* One order *)

\* "The payment status is reported as unknown -- never verified".
DeviceOrder == [source |-> "device", payment |-> "unknown", notice |-> "device"]

OrderAnswers(load) ==
  /\ place = "detail" /\ load.stage = "first"
  /\ load.ask \in ToSet(Recorded)
  /\ detail' = [detail EXCEPT !.source = "gateway"]
  /\ phase' = "loaded"
  /\ loads' = (loads \ {load}) \cup {[load EXCEPT !.stage = "payment"]}
  /\ UNCHANGED <<place, early, device, asked, count, page, events>>

\* There is no such order, or the read failed: the device's copy stands in.
OrderFails(load) ==
  /\ place = "detail" /\ load.stage = "first"
  /\ loads' = loads \ {load}
  /\ IF load.ask \in ToSet(load.device)
     THEN detail' = DeviceOrder /\ phase' = "loaded"
     ELSE detail' = [detail EXCEPT !.source = "none"] /\ phase' = "failed"
  /\ UNCHANGED <<place, early, device, asked, count, page, events>>

PaymentAnswers(load) ==
  /\ place = "detail" /\ load.stage = "payment"
  /\ loads' = loads \ {load}
  /\ \/ detail' = [detail EXCEPT !.payment = "read"]
     \/ detail' = [detail EXCEPT !.payment = "none", !.notice = "syncing"]
  /\ UNCHANGED <<place, early, device, asked, count, phase, page, events>>

-----------------------------------------------------------------------------
(* The timeline *)

\* The selector works at any time; "Check again" asks the same once more.
SelectType(t) ==
  /\ place = "timeline"
  /\ t # asked \/ phase = "loaded"
  /\ asked' = t
  /\ Reloads(t, device)
  /\ UNCHANGED device

TimelineAnswers(load) ==
  /\ place = "timeline"
  /\ loads' = loads \ {load}
  /\ \/ events' = load.ask /\ phase' = "loaded"
     \/ events' = "none" /\ phase' = "failed"
  /\ UNCHANGED <<place, early, device, asked, count, page, detail>>

-----------------------------------------------------------------------------
Answer(load) ==
  \/ ListAnswers(load) \/ ListFails(load)
  \/ OrderAnswers(load) \/ OrderFails(load) \/ PaymentAnswers(load)
  \/ TimelineAnswers(load)

OrderPagesNext ==
  \/ Hydrate \/ TryAgain \/ Newer \/ Older
  \/ \E t \in Types : SelectType(t)
  \/ \E load \in loads : Answer(load)

OrderPagesSpec == OrderPagesInit /\ [][OrderPagesNext]_orderVars

-----------------------------------------------------------------------------
(* The list that is up, reached from within the shop, is the page asked    *)
(* for: the buttons that change the offset are there only between loads.   *)
(* (The copy of the device has no pages and is left out.)                  *)
PageShownIsAsked ==
  (place = "list" /\ ~early /\ phase = "loaded" /\ ~page.fallback) => page.offset = asked

(* The total counts every order once, so that "Showing a-b of N" adds up.  *)
(* A saved order that the gateway lists on another page is counted again.  *)
TotalAddsUp ==
  (place = "list" /\ ~early /\ phase = "loaded" /\ ~page.fallback)
    => page.total = Cardinality(OrderIds)

(* The page shown is the page asked for, with a document loaded on it: the *)
(* load that the device's orders start races the first.                    *)
LoadedPageIsAsked ==
  (place = "list" /\ phase = "loaded" /\ ~page.fallback) => page.offset = asked

(* An order known only to this device never shows a payment's status:      *)
(* app/orders/[id]/page.tsx:101-103, against the same race.                *)
DeviceNeverVerified == detail.source = "device" => detail.payment # "read"

(* The events shown are those of the type the selector shows.              *)
TimelineShowsItsType ==
  (place = "timeline" /\ phase = "loaded") => events = asked

=============================================================================
