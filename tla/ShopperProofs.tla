--------------------------- MODULE ShopperProofs ----------------------------
(***************************************************************************)
(* The shopper's side, for every catalogue, every price the gateway may    *)
(* charge and every number of checkouts and charges.  The checkout page    *)
(* keeps the promise of Purchase, step by step, whatever other tabs write  *)
(* over its lists and whatever handler outlives its page; the catalogue    *)
(* pages show the answer to what they ask for, and sell from the product   *)
(* page at live prices.                                                    *)
(***************************************************************************)
EXTENDS CheckoutPage, CatalogPages, SequenceTheorems, WellFoundedInduction, TLAPS

Price == Nat \ {0}
Line == [item : Items, qty : Nat \ {0}]
Basket == Seq(Line)

-----------------------------------------------------------------------------
(* What a bag costs *)

\* A set of numbers has a least member.
LEMMA LeastExists ==
  ASSUME NEW S, S \subseteq Nat, S # {}
  PROVE  \E m \in S : \A k \in S : m <= k
<1>1. PICK m \in S : \A k \in S : <<k, m>> \notin OpToRel(<, Nat)
  BY WFMin, NatLessThanWellFounded, Zenon
<1>2. \A k \in S : ~ (k < m)
  BY <1>1 DEF OpToRel
<1> QED
  BY <1>2

\* g holds the sums of the first lines of a bag, up to m of them.
Adds(g, m, bag, price) ==
  g = [n \in 0 .. m |->
         IF n = 0 THEN 0 ELSE g[n - 1] + bag[n].qty * price[bag[n].item]]

\* A line costs something.
LEMMA LinesCost ==
  ASSUME NEW bag \in Basket, NEW price \in [Items -> Price], NEW n \in 1 .. Len(bag)
  PROVE  bag[n].qty * price[bag[n].item] \in Price
<1> DEFINE a == bag[n].qty
           b == price[bag[n].item]
<1>1. bag[n] \in Line
  BY DEF Basket
<1>2. a \in Int /\ a > 0 /\ b \in Int /\ b > 0
  BY <1>1 DEF Line, Price
<1> HIDE DEF a, b
<1>3. a * b \in Int
  BY <1>2
<1>4. a * b > 0
  BY <1>2
<1>5. a * b \in Price
  BY <1>3, <1>4 DEF Price
<1> QED
  BY <1>5 DEF a, b

\* The sums exist: were m the least number of lines without them, those of
\* the lines before would extend to it.
LEMMA SumsExist ==
  ASSUME NEW bag \in Basket, NEW price \in [Items -> Price], NEW m \in 0 .. Len(bag)
  PROVE  \E g : Adds(g, m, bag, price)
<1> DEFINE None == {k \in 0 .. Len(bag) : ~ \E g : Adds(g, k, bag, price)}
<1>1. Len(bag) \in Nat
  BY DEF Basket
<1>2. ASSUME None # {} PROVE FALSE
  <2>0. None \subseteq Nat
    BY <1>1
  <2>1. PICK k \in None : \A j \in None : k <= j
    <3> HIDE DEF None
    <3> QED
      BY <1>2, <2>0, LeastExists
  <2>2. k \in 0 .. Len(bag) /\ ~ \E g : Adds(g, k, bag, price)
    OBVIOUS
  <2>3. CASE k = 0
    <3> DEFINE h == [n \in 0 .. 0 |-> 0]
    <3>1. h = [n \in 0 .. 0 |->
                 IF n = 0 THEN 0 ELSE h[n - 1] + bag[n].qty * price[bag[n].item]]
      OBVIOUS
    <3> QED
      BY <2>2, <2>3, <3>1 DEF Adds
  <2>4. CASE k # 0
    <3>1. k - 1 \in 0 .. Len(bag) /\ k - 1 \notin None /\ k \in Nat
      BY <1>1, <2>1, <2>2, <2>4
    <3>2. PICK g : Adds(g, k - 1, bag, price)
      BY <3>1
    <3> DEFINE cost(n) == bag[n].qty * price[bag[n].item]
               h == [n \in 0 .. k |-> IF n = k THEN g[k - 1] + cost(k) ELSE g[n]]
    <3>3. \A n \in 0 .. k - 1 : g[n] = IF n = 0 THEN 0 ELSE g[n - 1] + cost(n)
      BY <3>2 DEF Adds
    <3> HIDE DEF cost
    <3>4. \A n \in 0 .. k : h[n] = IF n = 0 THEN 0 ELSE h[n - 1] + cost(n)
      <4> SUFFICES ASSUME NEW n \in 0 .. k
                   PROVE  h[n] = IF n = 0 THEN 0 ELSE h[n - 1] + cost(n)
        OBVIOUS
      <4>1. CASE n = k
        BY <2>4, <3>1, <4>1
      <4>2. CASE n # k
        <5>1. n \in 0 .. k - 1 /\ h[n] = g[n] /\ (n # 0 => h[n - 1] = g[n - 1])
          BY <3>1, <4>2
        <5> QED
          BY <3>3, <5>1
      <4> QED
        BY <4>1, <4>2
    <3>5. h = [n \in 0 .. k |-> IF n = 0 THEN 0 ELSE h[n - 1] + cost(n)]
      <4> DEFINE f == [n \in 0 .. k |-> IF n = 0 THEN 0 ELSE h[n - 1] + cost(n)]
      <4>1. DOMAIN h = 0 .. k /\ DOMAIN f = 0 .. k /\ \A n \in 0 .. k : f[n] = h[n]
        BY <3>4
      <4>2. h = [n \in 0 .. k |-> h[n]] /\ f = [n \in 0 .. k |-> f[n]]
        OBVIOUS
      <4> HIDE DEF h, f
      <4>3. h = f
        BY <4>1, <4>2
      <4> QED
        BY <4>3 DEF f
    <3>6. Adds(h, k, bag, price)
      <4> HIDE DEF h
      <4> QED
        BY <3>5 DEF Adds, cost
    <3> QED
      BY <2>2, <3>6
  <2> QED
    BY <2>3, <2>4
<1> QED
  BY <1>2

\* What is not empty costs something, at the page's prices and the gateway's.
LEMMA PricedIsPositive ==
  ASSUME NEW bag \in Basket, NEW price \in [Items -> Price], bag # <<>>
  PROVE  Priced(bag, price) \in Price
<1> DEFINE g == CHOOSE f : Adds(f, Len(bag), bag, price)
           cost(n) == bag[n].qty * price[bag[n].item]
           Wrong == {n \in 0 .. Len(bag) : ~ (g[n] \in Nat /\ (n # 0 => g[n] # 0))}
<1>1. Len(bag) \in Nat /\ Len(bag) # 0
  BY DEF Basket
<1>2. Adds(g, Len(bag), bag, price)
  BY <1>1, SumsExist
<1>3. Priced(bag, price) = g[Len(bag)]
  BY DEF Priced, Adds
<1> HIDE DEF g
<1>4. \A n \in 0 .. Len(bag) : g[n] = IF n = 0 THEN 0 ELSE g[n - 1] + cost(n)
  BY <1>2 DEF Adds
<1>5. \A n \in 1 .. Len(bag) : cost(n) \in Price
  BY LinesCost
<1> HIDE DEF cost
<1>6. ASSUME Wrong # {} PROVE FALSE
  <2>0. Wrong \subseteq Nat
    BY <1>1
  <2>1. PICK n \in Wrong : \A j \in Wrong : n <= j
    <3> HIDE DEF Wrong
    <3> QED
      BY <1>6, <2>0, LeastExists
  <2>2. n \in 0 .. Len(bag) /\ ~ (g[n] \in Nat /\ (n # 0 => g[n] # 0))
    OBVIOUS
  <2>3. n # 0
    BY <1>4, <2>2
  <2>4. n - 1 \in 0 .. Len(bag) /\ n - 1 \notin Wrong
    BY <1>1, <2>1, <2>2, <2>3
  <2>5. g[n - 1] \in Nat /\ cost(n) \in Price /\ g[n] = g[n - 1] + cost(n)
    BY <1>1, <1>4, <1>5, <2>2, <2>3, <2>4
  <2> QED
    BY <2>2, <2>5 DEF Price
<1>7. Len(bag) \notin Wrong /\ Len(bag) \in 0 .. Len(bag)
  BY <1>1, <1>6
<1> QED
  BY <1>1, <1>3, <1>7 DEF Price

LEMMA TotalsArePositive ==
  ASSUME NEW bag \in Basket, bag # <<>>
  PROVE  Total(bag) \in Price /\ GatewayTotal(bag) \in Price
BY PricedIsPositive, StoreAssumption, CheckoutAssumption DEF Total, GatewayTotal, Price

-----------------------------------------------------------------------------
(* The invariant *)

Order == [charge : Nat, total : Nat, bag : Basket]

Page == [at : {"away", "checkout", "provider", "return"}, step : {"review", "pay"},
         checkout : Nat, total : Nat, auth : Nat, accepted : BOOLEAN]

\* The handlers that a button of the page starts.
OfPage == {"proceed", "override", "modal", "redirect", "simulate"}

\* Where a charge is waiting for its confirmation.
Owing == {"verify", "answer"}

Flow == [kind : OfPage \cup {"none", "return"},
         at : Owing \cup {"idle", "freeze", "authorize", "order", "provider"},
         bag : Basket, checkout : Nat, bound : Nat, total : Nat, auth : Nat, charge : Nat]

\* A handler of the page works for a bag that holds something, at a price, and
\* a charge it waits for is one, confirmed if its answer is all that is missing.
Sound(f, checkouts, paid, done) ==
  /\ f.kind = "none" => f.at = "idle"
  /\ f.at \in {"freeze", "authorize", "order", "provider"} => f.kind \in OfPage
  /\ f.kind \in OfPage => f.bag # <<>> /\ f.total \in Price /\ f.checkout \in 0 .. checkouts
  /\ f.at \in Owing => f.charge \in 1 .. paid
  /\ f.at = "answer" => f.charge \in done

\* Each order of a list is for a confirmed charge, and states its amount where
\* the answer did.
Backed(list, m, amounts, done) ==
  \A n \in DOMAIN list :
    /\ list[n].charge \in done
    /\ m = "live" => list[n].total = amounts[list[n].charge]

StoreInv ==
  /\ cart \in Basket /\ saved \in Basket
  /\ orders \in Seq(Order) /\ kept \in Seq(Order) /\ elsewhere \in Seq(Order)

MoneyInv ==
  /\ frozen \in Seq(Price)
  /\ charges \in Seq(Price) /\ Len(charges) <= MaxCharges
  /\ confirmed \subseteq 1 .. Len(charges) /\ returned \subseteq 1 .. Len(charges)

\* A freeze is under way only for a bag that holds something, and only on the
\* page; a tab that has not read its bag yet is not on the page.
PageInv ==
  /\ page \in Page /\ page.checkout \in 0 .. Len(frozen)
  /\ freezing => cart # <<>>
  /\ page.at # "checkout" => ~ freezing
  /\ page.at = "checkout" => hydrated

\* Two handlers never wait for the same charge, and only the simulated mode
\* simulates.
FlowInv ==
  /\ flow \in [Handlers -> Flow]
  /\ \A w \in Handlers : flow[w].kind = "simulate" => mode = "test"
  /\ \A w \in Handlers : Sound(flow[w], Len(frozen), Len(charges), confirmed)
  /\ \A v, w \in Handlers :
       v # w /\ flow[v].at \in Owing /\ flow[w].at \in Owing
         => flow[v].charge # flow[w].charge
  /\ page.at = "provider" => flow["here"].kind = "redirect" /\ flow["here"].at = "provider"
  /\ flow["here"].kind = "return" => page.at = "return"

OrdersInv ==
  /\ Backed(orders, mode, charges, confirmed)
  /\ Backed(kept, mode, charges, confirmed)
  /\ Backed(elsewhere, mode, charges, confirmed)

CheckoutInv == StoreInv /\ MoneyInv /\ PageInv /\ FlowInv /\ OrdersInv

-----------------------------------------------------------------------------
(* Lists of orders *)

\* A list is still backed when more is charged and confirmed.
LEMMA BackedStays ==
  ASSUME NEW list, NEW m, NEW c, NEW d, NEW done, NEW more, Backed(list, m, c, done),
         done \subseteq more, \A k \in done : d[k] = c[k]
  PROVE  Backed(list, m, d, more)
BY DEF Backed

\* A backed order may come first.
LEMMA BackedGrows ==
  ASSUME NEW list \in Seq(Order), NEW o \in Order, NEW m, NEW c, NEW done,
         Backed(list, m, c, done), o.charge \in done, m = "live" => o.total = c[o.charge]
  PROVE  /\ <<o>> \o list \in Seq(Order)
         /\ Len(<<o>> \o list) = Len(list) + 1 /\ (<<o>> \o list)[1] = o
         /\ \A n \in 1 .. Len(list) : (<<o>> \o list)[n + 1] = list[n]
         /\ Backed(<<o>> \o list, m, c, done)
<1> DEFINE longer == <<o>> \o list
<1>1. <<o>> \in Seq(Order) /\ Len(<<o>>) = 1 /\ <<o>>[1] = o /\ Len(list) \in Nat
      /\ DOMAIN list = 1 .. Len(list)
  OBVIOUS
<1>2. /\ longer \in Seq(Order) /\ Len(longer) = 1 + Len(list)
      /\ \A n \in 1 .. 1 + Len(list) :
           longer[n] = IF n <= 1 THEN <<o>>[n] ELSE list[n - 1]
  BY <1>1, ConcatProperties
<1> HIDE DEF longer
<1>3. longer[1] = o /\ \A n \in 1 .. Len(list) : longer[n + 1] = list[n]
  <2>1. longer[1] = o
    BY <1>1, <1>2
  <2>2. ASSUME NEW n \in 1 .. Len(list) PROVE longer[n + 1] = list[n]
    <3>1. n + 1 \in 1 .. 1 + Len(list) /\ ~ n + 1 <= 1 /\ n + 1 - 1 = n
      BY <1>1
    <3> QED
      BY <1>2, <3>1
  <2> QED
    BY <2>1, <2>2
<1>4. ASSUME NEW n \in DOMAIN longer
      PROVE  longer[n] = o \/ \E k \in DOMAIN list : longer[n] = list[k]
  <2>1. n \in 1 .. 1 + Len(list)
    BY <1>1, <1>2
  <2>2. CASE n = 1
    BY <1>3, <2>2
  <2>3. CASE n # 1
    <3>1. n - 1 \in 1 .. Len(list) /\ n - 1 + 1 = n
      BY <1>1, <2>1, <2>3
    <3> QED
      BY <1>1, <1>3, <3>1
  <2> QED
    BY <2>2, <2>3
<1>5. Backed(longer, m, c, done)
  BY <1>4 DEF Backed
<1> QED
  BY <1>1, <1>2, <1>3, <1>5 DEF longer

\* What the promise calls a list of orders.
EntriesOf(list, m, amounts) ==
  [n \in DOMAIN list |->
     LET o == list[Len(list) + 1 - n]
     IN <<o.charge, IF m = "live" THEN o.total ELSE amounts[o.charge]>>]

LEMMA EntriesAre ==
  /\ Listed = EntriesOf(orders, mode, charges)
  /\ Keeps = EntriesOf(kept, mode, charges)
  /\ Listed' = EntriesOf(orders', mode', charges')
  /\ Keeps' = EntriesOf(kept', mode', charges')
BY DEF Listed, Keeps, Entries, EntriesOf

\* A list reads the same when more is charged.
LEMMA EntriesStay ==
  ASSUME NEW list \in Seq(Order), NEW m, NEW c, NEW d, NEW done, Backed(list, m, c, done),
         \A k \in done : d[k] = c[k]
  PROVE  EntriesOf(list, m, d) = EntriesOf(list, m, c)
<1>1. Len(list) \in Nat /\ DOMAIN list = 1 .. Len(list)
  OBVIOUS
<1>2. ASSUME NEW n \in DOMAIN list
      PROVE  d[list[Len(list) + 1 - n].charge] = c[list[Len(list) + 1 - n].charge]
  <2>1. Len(list) + 1 - n \in DOMAIN list
    BY <1>1
  <2> QED
    BY <2>1 DEF Backed
<1> QED
  BY <1>2 DEF EntriesOf

\* The entries of a backed list are what was charged.
LEMMA EntriesAreCharged ==
  ASSUME NEW list \in Seq(Order), NEW m, NEW c, NEW done, Backed(list, m, c, done)
  PROVE  \A n \in DOMAIN EntriesOf(list, m, c) :
           /\ EntriesOf(list, m, c)[n][1] \in done
           /\ EntriesOf(list, m, c)[n][2] = c[EntriesOf(list, m, c)[n][1]]
<1>1. Len(list) \in Nat /\ DOMAIN list = 1 .. Len(list)
  OBVIOUS
<1>2. ASSUME NEW n \in DOMAIN list
      PROVE  /\ EntriesOf(list, m, c)[n][1] \in done
             /\ EntriesOf(list, m, c)[n][2] = c[EntriesOf(list, m, c)[n][1]]
  <2> DEFINE o == list[Len(list) + 1 - n]
  <2>1. Len(list) + 1 - n \in DOMAIN list
    BY <1>1
  <2>2. o.charge \in done /\ (m = "live" => o.total = c[o.charge])
    BY <2>1 DEF Backed
  <2>3. EntriesOf(list, m, c)[n]
          = <<o.charge, IF m = "live" THEN o.total ELSE c[o.charge]>>
    BY DEF EntriesOf
  <2> HIDE DEF o
  <2>4. EntriesOf(list, m, c)[n][1] = o.charge
        /\ EntriesOf(list, m, c)[n][2] = IF m = "live" THEN o.total ELSE c[o.charge]
    BY <2>3
  <2> QED
    BY <2>2, <2>4
<1> QED
  BY <1>2 DEF EntriesOf

\* A list with one more order in front.
ComesFirst(o, longer, list) ==
  /\ longer \in Seq(Order) /\ Len(longer) = Len(list) + 1 /\ longer[1] = o
  /\ \A n \in 1 .. Len(list) : longer[n + 1] = list[n]

\* The order that comes first in the list is the last of its entries.
LEMMA EntriesGrow ==
  ASSUME NEW list \in Seq(Order), NEW longer, NEW o \in Order, NEW m, NEW c,
         ComesFirst(o, longer, list), m = "live" => o.total = c[o.charge]
  PROVE  EntriesOf(longer, m, c) = Append(EntriesOf(list, m, c), <<o.charge, c[o.charge]>>)
<1> DEFINE entry(n) ==
             LET p == list[Len(list) + 1 - n]
             IN <<p.charge, IF m = "live" THEN p.total ELSE c[p.charge]>>
           new == <<o.charge, c[o.charge]>>
<1>0. /\ longer \in Seq(Order) /\ Len(longer) = Len(list) + 1 /\ longer[1] = o
      /\ \A n \in 1 .. Len(list) : longer[n + 1] = list[n]
  BY DEF ComesFirst
<1>1. /\ Len(list) \in Nat /\ DOMAIN list = 1 .. Len(list)
      /\ DOMAIN longer = 1 .. Len(list) + 1
  BY <1>0
<1>2. EntriesOf(list, m, c) = [n \in 1 .. Len(list) |-> entry(n)]
  BY <1>1 DEF EntriesOf
<1>3. ASSUME NEW n \in 1 .. Len(list) + 1
      PROVE  EntriesOf(longer, m, c)[n] = IF n = Len(list) + 1 THEN new ELSE entry(n)
  <2> DEFINE p == longer[Len(longer) + 1 - n]
  <2>1. EntriesOf(longer, m, c)[n]
          = <<p.charge, IF m = "live" THEN p.total ELSE c[p.charge]>>
    BY <1>1 DEF EntriesOf
  <2>2. CASE n = Len(list) + 1
    <3>1. p = o
      <4>1. Len(longer) + 1 - n = 1
        BY <1>0, <1>1, <2>2
      <4> QED
        BY <1>0, <4>1
    <3> HIDE DEF p
    <3> QED
      BY <2>1, <2>2, <3>1
  <2>3. CASE n # Len(list) + 1
    <3>1. p = list[Len(list) + 1 - n]
      <4>1. Len(list) + 1 - n \in 1 .. Len(list)
            /\ Len(longer) + 1 - n = Len(list) + 1 - n + 1
        BY <1>0, <1>1, <2>3
      <4> QED
        BY <1>0, <4>1
    <3> HIDE DEF p
    <3> QED
      BY <2>1, <2>3, <3>1
  <2> QED
    BY <2>2, <2>3
<1>4. EntriesOf(longer, m, c)
        = [n \in 1 .. Len(list) + 1 |-> IF n = Len(list) + 1 THEN new ELSE entry(n)]
  <2>1. EntriesOf(longer, m, c)
          = [n \in 1 .. Len(list) + 1 |-> EntriesOf(longer, m, c)[n]]
    BY <1>1 DEF EntriesOf
  <2> QED
    BY <1>3, <2>1
<1>5. Append(EntriesOf(list, m, c), new)
        = [n \in 1 .. Len(list) + 1 |-> IF n = Len(list) + 1 THEN new ELSE entry(n)]
  <2> HIDE DEF entry, new
  <2> QED
    BY <1>1, <1>2
<1> QED
  BY <1>4, <1>5

\* The list the promise knows grows by the charge of the order that comes first.
LEMMA ListedGrows ==
  ASSUME orders \in Seq(Order), NEW o \in Order, Backed(orders, mode, charges, confirmed),
         o.charge \in confirmed, mode = "live" => o.total = charges[o.charge],
         orders' = <<o>> \o orders, UNCHANGED <<mode, charges>>
  PROVE  Listed' = Append(Listed, <<o.charge, charges[o.charge]>>)
<1>1. ComesFirst(o, orders', orders)
  BY BackedGrows DEF ComesFirst
<1>2. EntriesOf(orders', mode, charges)
        = Append(EntriesOf(orders, mode, charges), <<o.charge, charges[o.charge]>>)
  BY <1>1, EntriesGrow
<1> QED
  BY <1>2, EntriesAre

-----------------------------------------------------------------------------
(* Steps that list nothing *)

LEMMA NothingIsABag == <<>> \in Basket /\ <<>> \in Seq(Order) /\ Len(<<>>) = 0
BY DEF Basket

LEMMA PagesAre ==
  /\ Mounted \in Page /\ Mounted.at = "checkout" /\ Mounted.checkout = 0
  /\ \A at \in {"away", "provider", "return"} :
       /\ Unmounted(at) \in Page /\ Unmounted(at).at = at /\ Unmounted(at).checkout = 0
BY DEF Mounted, Unmounted, Page

LEMMA HandlersAre ==
  /\ Handlers = {"here", "gone"}
  /\ Idle \in Flow /\ Idle.kind = "none" /\ Idle.at = "idle"
  /\ \A f \in Flow : /\ Only(f) \in [Handlers -> Flow]
                     /\ Only(f)["here"] = f /\ Only(f)["gone"] = Idle
  /\ NoHandler = Only(Idle)
<1>1. Idle \in Flow /\ Idle.kind = "none" /\ Idle.at = "idle"
  BY NothingIsABag DEF Idle, Flow
<1> QED
  BY <1>1 DEF Handlers, Only, NoHandler

\* A handler that is over owes nothing.
LEMMA IdleIsSound ==
  ASSUME NEW n, NEW paid, NEW done
  PROVE  Sound(Idle, n, paid, done)
BY HandlersAre DEF Sound, OfPage, Owing

\* What a handler may be stays true when more is frozen, charged and confirmed.
LEMMA SoundStays ==
  ASSUME NEW f, NEW n \in Nat, NEW p \in Nat, NEW done, Sound(f, n, p, done),
         NEW m \in Nat, n <= m, NEW q \in Nat, p <= q, NEW more, done \subseteq more
  PROVE  Sound(f, m, q, more)
BY DEF Sound

\* A step that charges, confirms and lists nothing, and owes no charge that
\* was not owed.
LEMMA NothingIsPromised ==
  ASSUME CheckoutInv, UNCHANGED <<charges, confirmed, returned, mode, kept>>,
         orders' = orders \/ orders' = <<>> \/ orders' = kept,
         \A w \in Handlers : flow'[w].at \in Owing =>
           \E v \in Handlers : flow[v].at \in Owing /\ flow[v].charge = flow'[w].charge
  PROVE  Promise!Forget
<1>1. Due' \subseteq Due
  BY DEF Due, Owing
<1>2. Keeps' = Keeps
  BY EntriesAre
<1>3. Listed' \in {Listed, <<>>, Keeps}
  <2>1. CASE orders' = orders
    BY <2>1, EntriesAre
  <2>2. CASE orders' = kept
    BY <2>2, EntriesAre
  <2>3. CASE orders' = <<>>
    <3>1. DOMAIN orders' = {}
      BY <2>3
    <3>2. Listed' = <<>>
      BY <3>1, EntriesAre DEF EntriesOf
    <3> QED
      BY <3>2
  <2> QED
    BY <2>1, <2>2, <2>3
<1> QED
  BY <1>1, <1>2, <1>3 DEF Promise!Forget

\* The order lists and the money are as they were.
LEMMA MoneyStays ==
  ASSUME MoneyInv, OrdersInv,
         UNCHANGED <<orders, kept, elsewhere, frozen, charges, confirmed, returned, mode>>
  PROVE  MoneyInv' /\ OrdersInv'
BY DEF MoneyInv, OrdersInv

\* Every edit leaves lines of products in positive quantities.
LEMMA EditKeepsBasket ==
  ASSUME cart \in Basket, saved \in Basket, NEW i \in Items,
         \/ AddToCart(i) \/ RemoveFromCart(i)
         \/ \E q \in 0 .. MaxQty : UpdateCartQuantity(i, q)
  PROVE  cart' \in Basket /\ saved' \in Basket /\ UNCHANGED <<listVars, hydrated>>
<1>1. ASSUME NEW n \in DOMAIN cart PROVE cart[n] \in Line /\ n \in Nat /\ Len(cart) \in Nat
  BY DEF Basket
<1>2. ASSUME NEW bag \in Basket, SetCart(bag)
      PROVE  cart' \in Basket /\ saved' \in Basket
  BY <1>2 DEF SetCart
<1>3. ASSUME NEW q \in Nat \ {0}, NEW n \in DOMAIN cart
      PROVE  [cart[n] EXCEPT !.qty = q] \in Line
  BY <1>1 DEF Line
<1>4. CASE AddToCart(i)
  <2>1. Append(cart, [item |-> i, qty |-> 1]) \in Basket
    <3>1. [item |-> i, qty |-> 1] \in Line
      BY DEF Line
    <3> QED
      BY <3>1 DEF Basket
  <2>2. [n \in DOMAIN cart |-> IF cart[n].item = i THEN [cart[n] EXCEPT !.qty = @ + 1]
                               ELSE cart[n]] \in Basket
    <3> DEFINE bag == [n \in DOMAIN cart |->
                         IF cart[n].item = i THEN [cart[n] EXCEPT !.qty = @ + 1] ELSE cart[n]]
    <3>1. ASSUME NEW n \in DOMAIN cart PROVE [cart[n] EXCEPT !.qty = @ + 1] \in Line
      <4>1. cart[n].qty + 1 \in Nat \ {0}
        BY <1>1 DEF Line
      <4> QED
        BY <1>3, <4>1
    <3>2. \A n \in DOMAIN cart : bag[n] \in Line
      BY <1>1, <3>1
    <3>3. DOMAIN bag = 1 .. Len(cart) /\ DOMAIN cart = 1 .. Len(cart) /\ Len(cart) \in Nat
      BY DEF Basket
    <3> HIDE DEF bag
    <3>4. bag = [n \in 1 .. Len(cart) |-> bag[n]]
      <4>1. bag = [n \in DOMAIN bag |-> bag[n]]
        BY DEF bag
      <4> QED
        BY <3>3, <4>1
    <3>5. bag \in [1 .. Len(cart) -> Line]
      BY <3>2, <3>3, <3>4
    <3>6. bag \in Basket
      BY <3>3, <3>5 DEF Basket
    <3> QED
      BY <3>6 DEF bag
  <2> QED
    BY <1>2, <1>4, <2>1, <2>2 DEF AddToCart
<1>5. CASE RemoveFromCart(i)
  <2>1. PICK n \in DOMAIN cart : SetCart(RemoveAt(cart, n))
    BY <1>5 DEF RemoveFromCart
  <2>2. SubSeq(cart, 1, n - 1) \in Basket /\ SubSeq(cart, n + 1, Len(cart)) \in Basket
    BY <1>1, SubSeqProperties DEF Basket
  <2>3. RemoveAt(cart, n) \in Basket
    BY <2>2, ConcatProperties DEF RemoveAt, Basket
  <2> QED
    BY <1>2, <1>5, <2>1, <2>3 DEF RemoveFromCart
<1>6. CASE \E q \in 0 .. MaxQty : UpdateCartQuantity(i, q)
  <2>1. PICK q \in 0 .. MaxQty : UpdateCartQuantity(i, q)
    BY <1>6
  <2>2. CASE q = 0
    BY <1>5, <2>1, <2>2 DEF UpdateCartQuantity
  <2>3. CASE q # 0
    <3>1. q \in Nat \ {0}
      BY <2>3, StoreAssumption
    <3> DEFINE bag == SetQuantity(cart, i, q)
    <3>2. \A n \in DOMAIN cart : bag[n] \in Line
      BY <1>1, <1>3, <3>1 DEF SetQuantity
    <3>3. DOMAIN bag = 1 .. Len(cart) /\ DOMAIN cart = 1 .. Len(cart) /\ Len(cart) \in Nat
      BY DEF Basket, SetQuantity
    <3>4. bag = [n \in DOMAIN bag |-> bag[n]]
      BY DEF SetQuantity
    <3> HIDE DEF bag
    <3>5. bag \in [1 .. Len(cart) -> Line]
      BY <3>2, <3>3, <3>4
    <3>6. bag \in Basket
      BY <3>3, <3>5 DEF Basket
    <3>7. SetCart(bag) /\ UNCHANGED <<listVars, hydrated>>
      BY <2>1, <2>3 DEF UpdateCartQuantity, bag
    <3> QED
      BY <1>2, <3>6, <3>7
  <2> QED
    BY <2>1, <2>2, <2>3
<1> QED
  BY <1>4, <1>5, <1>6
LEMMA EditKeepsInv ==
  ASSUME CheckoutInv, Edit
  PROVE  CheckoutInv' /\ Promise!Forget
<1> USE DEF CheckoutInv
<1>1. PICK i \in Items : \/ AddToCart(i) \/ RemoveFromCart(i)
                         \/ \E q \in 0 .. MaxQty : UpdateCartQuantity(i, q)
  BY DEF Edit
<1>2. cart' \in Basket /\ saved' \in Basket /\ UNCHANGED <<orders, kept, elsewhere, hydrated>>
  BY <1>1, EditKeepsBasket DEF StoreInv, listVars
<1>3. UNCHANGED <<flow, frozen, charges, confirmed, returned, mode>>
  BY DEF Edit, gatewayVars
<1>4. StoreInv' /\ MoneyInv' /\ OrdersInv'
  BY <1>2, <1>3, MoneyStays DEF StoreInv
<1>5. PageInv' /\ page'.at = page.at
  <2>1. CASE page.at = "checkout"
    <3>1. /\ page' = [page EXCEPT !.auth = 0, !.total = 0, !.accepted = FALSE]
          /\ freezing' = (cart' # <<>>)
      BY <2>1 DEF Edit, DropFreeze
    <3>2. page' \in Page /\ page'.at = page.at /\ page'.checkout = page.checkout
      BY <3>1 DEF PageInv, Page
    <3> QED
      BY <1>2, <1>3, <2>1, <3>1, <3>2 DEF PageInv
  <2>2. CASE page.at # "checkout"
    <3>1. UNCHANGED <<page, freezing>>
      BY <2>2 DEF Edit
    <3> QED
      BY <1>2, <1>3, <2>2, <3>1 DEF PageInv
  <2> QED
    BY <2>1, <2>2
<1>6. FlowInv'
  BY <1>3, <1>5 DEF FlowInv
<1>7. Promise!Forget
  BY <1>2, <1>3, NothingIsPromised
<1> QED
  BY <1>4, <1>5, <1>6, <1>7

\* The page's own buttons, which change nothing that is kept.
LEMMA ButtonsKeepInv ==
  ASSUME CheckoutInv, OpenCheckout \/ AcceptPrice \/ GoBack
  PROVE  CheckoutInv' /\ Promise!Forget
<1> USE DEF CheckoutInv
<1>1. UNCHANGED <<cart, saved, orders, kept, elsewhere, hydrated, flow,
                  frozen, charges, confirmed, returned, mode>>
  BY DEF OpenCheckout, AcceptPrice, GoBack, storeVars, listVars, gatewayVars
<1>2. StoreInv' /\ MoneyInv' /\ OrdersInv'
  BY <1>1, MoneyStays DEF StoreInv
<1>3. /\ PageInv' /\ page'.at # "provider"
      /\ page.at = "return" => page'.at = "return"
  <2>1. CASE OpenCheckout
    <3>1. page' = Mounted /\ freezing' = (cart # <<>>) /\ page.at = "away" /\ hydrated
      BY <2>1 DEF OpenCheckout
    <3>2. Len(frozen) \in Nat
      BY DEF MoneyInv
    <3>3. page' \in Page /\ page'.at = "checkout" /\ page'.checkout = 0
      BY <3>1, PagesAre
    <3>4. freezing' => cart' # <<>>
      BY <1>1, <3>1
    <3>5. hydrated'
      BY <1>1, <3>1
    <3>6. PageInv'
      BY <1>1, <3>2, <3>3, <3>4, <3>5 DEF PageInv
    <3> QED
      BY <3>1, <3>3, <3>6
  <2>2. CASE AcceptPrice \/ GoBack
    <3>1. /\ page.at = "checkout" /\ freezing' = freezing
          /\ page' = [page EXCEPT !.accepted = TRUE] \/ page' = [page EXCEPT !.step = "review"]
      BY <2>2 DEF AcceptPrice, GoBack
    <3>2. page' \in Page /\ page'.at = page.at /\ page'.checkout = page.checkout
      BY <3>1 DEF PageInv, Page
    <3> QED
      BY <1>1, <3>1, <3>2 DEF PageInv
  <2> QED
    BY <2>1, <2>2
<1>4. FlowInv'
  BY <1>1, <1>3 DEF FlowInv
<1>5. Promise!Forget
  BY <1>1, NothingIsPromised
<1> QED
  BY <1>2, <1>3, <1>4, <1>5

\* One handler may be left, beside a page that has none.
LEMMA LeftKeepsFlows ==
  ASSUME FlowInv, flow' \in [Handlers -> Flow], flow'["here"] = Idle,
         flow'["gone"] \in {Idle, flow["here"], flow["gone"]}, page'.at # "provider",
         UNCHANGED <<frozen, charges, confirmed, mode>>
  PROVE  FlowInv'
<1>1. \A w \in Handlers :
        /\ Sound(flow'[w], Len(frozen), Len(charges), confirmed)
        /\ flow'[w].kind = "simulate" => mode = "test"
  BY HandlersAre, IdleIsSound DEF FlowInv
<1>2. flow'["here"].kind # "return" /\ flow'["here"].at \notin Owing
  BY HandlersAre DEF Owing
<1> QED
  BY <1>1, <1>2, HandlersAre DEF FlowInv

\* A handler whose page is left goes on as it was.
LEMMA LeaveCheckoutKeepsInv ==
  ASSUME CheckoutInv, LeaveCheckout
  PROVE  CheckoutInv' /\ Promise!Forget
<1> USE DEF CheckoutInv
<1>1. UNCHANGED <<cart, saved, orders, kept, elsewhere, hydrated,
                  frozen, charges, confirmed, returned, mode>>
  BY DEF LeaveCheckout, storeVars, listVars, gatewayVars
<1>2. page' = Unmounted("away") /\ freezing' = FALSE
  BY DEF LeaveCheckout
<1>3. StoreInv' /\ MoneyInv' /\ OrdersInv'
  BY <1>1, MoneyStays DEF StoreInv
<1>4. PageInv' /\ page'.at = "away"
  <2>1. Len(frozen) \in Nat
    BY DEF MoneyInv
  <2> QED
    BY <1>1, <1>2, <2>1, PagesAre DEF PageInv
<1>5. /\ flow' \in [Handlers -> Flow] /\ flow'["here"] = Idle
      /\ flow'["gone"] \in {flow["here"], flow["gone"]}
  BY HandlersAre DEF LeaveCheckout, LeftBehind, FlowInv
<1>6. FlowInv'
  BY <1>1, <1>4, <1>5, LeftKeepsFlows
<1>7. Promise!Forget
  BY <1>1, <1>5, HandlersAre, NothingIsPromised DEF Owing
<1> QED
  BY <1>3, <1>4, <1>6, <1>7

\* A document that is loaded anew keeps nothing of the tab.
LEMMA LoadKeepsInv ==
  ASSUME CheckoutInv, Load, page'.at \in {"away", "return"}, page' = Unmounted(page'.at),
         freezing' = FALSE, UNCHANGED <<frozen, mode>>
  PROVE  /\ StoreInv' /\ PageInv'
         /\ UNCHANGED <<kept, elsewhere>> /\ orders' = <<>>
<1>1. /\ hydrated' = FALSE /\ cart' = <<>> /\ orders' = <<>>
      /\ UNCHANGED <<saved, kept, elsewhere>>
  BY DEF Load
<1>2. Len(frozen) \in Nat
  BY DEF CheckoutInv, MoneyInv
<1> QED
  BY <1>1, <1>2, NothingIsABag, PagesAre DEF CheckoutInv, StoreInv, PageInv

LEMMA EmptyListIsBacked ==
  ASSUME NEW m, NEW c, NEW done
  PROVE  Backed(<<>>, m, c, done)
BY DEF Backed

LEMMA ReloadsKeepInv ==
  ASSUME CheckoutInv, ReloadPage \/ Abandon
  PROVE  CheckoutInv' /\ Promise!Forget
<1>1. /\ Load /\ page' = Unmounted("away") /\ flow' = NoHandler /\ freezing' = FALSE
      /\ UNCHANGED <<frozen, charges, confirmed, returned, mode>>
  BY DEF ReloadPage, Abandon, gatewayVars
<1>2. StoreInv' /\ PageInv' /\ UNCHANGED <<kept, elsewhere>> /\ orders' = <<>>
  BY <1>1, PagesAre, LoadKeepsInv
<1>3. MoneyInv' /\ OrdersInv'
  BY <1>1, <1>2, EmptyListIsBacked DEF CheckoutInv, MoneyInv, OrdersInv
<1>4. /\ flow' \in [Handlers -> Flow] /\ \A w \in Handlers : flow'[w] = Idle
      /\ page'.at = "away"
  BY <1>1, HandlersAre, PagesAre
<1>5. FlowInv'
  BY <1>4, HandlersAre, IdleIsSound DEF FlowInv, Owing
<1>6. Promise!Forget
  BY <1>1, <1>2, <1>4, HandlersAre, NothingIsPromised DEF Owing
<1> QED
  BY <1>2, <1>3, <1>5, <1>6 DEF CheckoutInv

\* A freeze is for a bag that holds something, so its total is positive.
LEMMA FreezeIsPositive ==
  ASSUME frozen \in Seq(Price), NEW bag \in Basket, bag # <<>>, Freeze(bag)
  PROVE  /\ frozen' \in Seq(Price) /\ Len(frozen') = Len(frozen) + 1
         /\ frozen'[Len(frozen')] \in Price
<1>1. GatewayTotal(bag) \in Price
  BY TotalsArePositive
<1>2. frozen' = Append(frozen, GatewayTotal(bag))
  BY DEF Freeze
<1> QED
  BY <1>1, <1>2, AppendProperties

\* The page learns the number of a new checkout and its total.
LEMMA NewCheckoutIsAPage ==
  ASSUME page \in Page, NEW n \in Nat, NEW t \in Nat
  PROVE  /\ [page EXCEPT !.checkout = n, !.total = t] \in Page
         /\ [page EXCEPT !.checkout = n, !.total = t].at = page.at
         /\ [page EXCEPT !.checkout = n, !.total = t].checkout \in 0 .. n
<1> DEFINE p == [page EXCEPT !.checkout = n]
<1>1. p \in Page /\ p.at = page.at /\ p.checkout = n
  BY DEF Page
<1>2. /\ [p EXCEPT !.total = t] \in Page /\ [p EXCEPT !.total = t].at = p.at
      /\ [p EXCEPT !.total = t].checkout = p.checkout
  <2> HIDE DEF p
  <2> QED
    BY <1>1 DEF Page
<1> QED
  BY <1>1, <1>2

LEMMA FreezeLandsKeepsInv ==
  ASSUME CheckoutInv, FreezeLands
  PROVE  CheckoutInv' /\ Promise!Forget
<1> USE DEF CheckoutInv
<1>1. /\ freezing /\ freezing' = FALSE
      /\ UNCHANGED <<cart, saved, orders, kept, elsewhere, hydrated, flow,
                     charges, confirmed, returned, mode>>
  BY DEF FreezeLands, storeVars, listVars
<1>2. cart \in Basket /\ cart # <<>> /\ frozen \in Seq(Price) /\ Len(frozen) \in Nat
      /\ page \in Page
  BY <1>1 DEF PageInv, StoreInv, MoneyInv
<1>3. /\ frozen' \in Seq(Price) /\ Len(frozen') \in Nat /\ Len(frozen) <= Len(frozen')
      /\ page'.at = page.at /\ page' \in Page /\ page'.checkout \in 0 .. Len(frozen')
  <2>1. CASE UNCHANGED <<frozen, page>>
    BY <1>2, <2>1 DEF PageInv
  <2>2. CASE /\ Freeze(cart)
             /\ page' = [page EXCEPT !.checkout = Len(frozen'), !.total = frozen'[Len(frozen')]]
    <3>1. /\ frozen' \in Seq(Price) /\ Len(frozen') = Len(frozen) + 1 /\ Len(frozen') \in Nat
          /\ frozen'[Len(frozen')] \in Nat
      BY <1>2, <2>2, FreezeIsPositive DEF Price
    <3> DEFINE p == [page EXCEPT !.checkout = Len(frozen'), !.total = frozen'[Len(frozen')]]
    <3>2. p \in Page /\ p.at = page.at /\ p.checkout \in 0 .. Len(frozen')
      BY <1>2, <3>1, NewCheckoutIsAPage
    <3>3. page' = p
      BY <2>2
    <3> HIDE DEF p
    <3> QED
      BY <1>2, <3>1, <3>2, <3>3
  <2> QED
    BY <2>1, <2>2 DEF FreezeLands
<1>4. StoreInv' /\ MoneyInv' /\ OrdersInv'
  BY <1>1, <1>3 DEF StoreInv, MoneyInv, OrdersInv
<1>5. PageInv'
  BY <1>1, <1>3 DEF PageInv
<1>6. FlowInv'
  <2>1. Len(charges) \in Nat
    BY DEF MoneyInv
  <2>2. ASSUME NEW w \in Handlers
        PROVE  Sound(flow'[w], Len(frozen'), Len(charges'), confirmed')
    <3>1. Sound(flow[w], Len(frozen), Len(charges), confirmed)
      BY DEF FlowInv
    <3> QED
      BY <1>1, <1>2, <1>3, <2>1, <3>1, SoundStays
  <2> QED
    BY <1>1, <1>3, <2>2 DEF FlowInv
<1>7. Promise!Forget
  BY <1>1, NothingIsPromised
<1> QED
  BY <1>4, <1>5, <1>6, <1>7

-----------------------------------------------------------------------------
(* What the browser keeps *)

LEMMA HydrateKeepsInv ==
  ASSUME CheckoutInv, HydrateStep
  PROVE  CheckoutInv' /\ Promise!Forget
<1> USE DEF CheckoutInv
<1>1. /\ ~ hydrated /\ hydrated' /\ cart' = saved /\ orders' = kept
      /\ UNCHANGED <<saved, kept, elsewhere, page, freezing, flow,
                     frozen, charges, confirmed, returned, mode>>
  BY DEF HydrateStep, Hydrate, pageVars, gatewayVars
<1>2. StoreInv' /\ MoneyInv' /\ OrdersInv'
  BY <1>1 DEF StoreInv, MoneyInv, OrdersInv
<1>3. PageInv'
  BY <1>1 DEF PageInv
<1>4. FlowInv'
  BY <1>1 DEF FlowInv
<1>5. Promise!Forget
  BY <1>1, NothingIsPromised
<1> QED
  BY <1>2, <1>3, <1>4, <1>5

\* Another tab may keep any list of confirmed charges.
LEMMA AnotherKeepsInv ==
  ASSUME CheckoutInv, saved' \in Basket, kept' \in Seq(Order), elsewhere' \in Seq(Order),
         Backed(kept', mode, charges, confirmed), Backed(elsewhere', mode, charges, confirmed),
         UNCHANGED <<cart, orders, hydrated, pageVars, gatewayVars>>
  PROVE  CheckoutInv' /\ Promise!KeepAnother
<1> USE DEF CheckoutInv
<1>1. UNCHANGED <<cart, orders, hydrated, page, freezing, flow,
                  frozen, charges, confirmed, returned, mode>>
  BY DEF pageVars, gatewayVars
<1>2. StoreInv' /\ MoneyInv' /\ OrdersInv'
  BY <1>1 DEF StoreInv, MoneyInv, OrdersInv
<1>3. PageInv' /\ FlowInv'
  BY <1>1 DEF PageInv, FlowInv
<1>4. Promise!KeepAnother
  <2>1. Listed' = Listed
    BY <1>1, EntriesAre
  <2>2. Keeps' = EntriesOf(kept', mode, charges)
    BY <1>1, EntriesAre
  <2>3. Due' = Due
    BY <1>1 DEF Due
  <2>4. \A n \in DOMAIN Keeps' :
          Keeps'[n][1] \in confirmed /\ Keeps'[n][2] = charges[Keeps'[n][1]]
    BY <2>2, EntriesAreCharged
  <2> QED
    BY <1>1, <2>1, <2>3, <2>4 DEF Promise!KeepAnother
<1> QED
  BY <1>2, <1>3, <1>4

LEMMA OtherTabsKeepInv ==
  ASSUME CheckoutInv,
         \/ \E i \in OtherItems : OtherTabStep(i)
         \/ \E k \in 1 .. MaxCharges : OtherTabReturns(k)
  PROVE  CheckoutInv' /\ Promise!KeepAnother
<1>1. /\ saved \in Basket /\ kept \in Seq(Order) /\ elsewhere \in Seq(Order)
      /\ Backed(kept, mode, charges, confirmed) /\ Backed(elsewhere, mode, charges, confirmed)
      /\ charges \in Seq(Price) /\ returned \subseteq 1 .. Len(charges)
  BY DEF CheckoutInv, StoreInv, OrdersInv, MoneyInv
<1>2. CASE \E i \in OtherItems : OtherTabStep(i)
  <2>1. PICK i \in OtherItems : OtherTab(i) /\ UNCHANGED <<pageVars, gatewayVars>>
    BY <1>2 DEF OtherTabStep
  <2>2. [item |-> i, qty |-> 1] \in Line
    BY CheckoutAssumption DEF Line
  <2>3. <<[item |-> i, qty |-> 1]>> \in Basket
    BY <2>2 DEF Basket
  <2>4. /\ saved' \in Basket /\ kept' \in {kept, elsewhere} /\ elsewhere' \in {kept, elsewhere}
        /\ UNCHANGED <<cart, orders, hydrated>>
    BY <1>1, <2>1, <2>3 DEF OtherTab
  <2> QED
    BY <1>1, <2>1, <2>4, AnotherKeepsInv
<1>3. CASE \E k \in 1 .. MaxCharges : OtherTabReturns(k)
  <2>1. PICK k \in 1 .. MaxCharges : OtherTabReturns(k)
    BY <1>3
  <2> DEFINE o == [charge |-> k, total |-> charges[k], bag |-> <<>>]
  <2>2. /\ k \in confirmed /\ k \in returned
        /\ elsewhere' = <<o>> \o elsewhere /\ kept' = elsewhere' /\ saved' = <<>>
        /\ UNCHANGED <<cart, orders, hydrated, pageVars, gatewayVars>>
    BY <2>1 DEF OtherTabReturns
  <2>3. k \in Nat /\ charges[k] \in Nat
    BY <1>1, <2>2 DEF Price
  <2>4. o \in Order /\ o.charge = k /\ o.total = charges[k]
    BY <2>3, NothingIsABag DEF Order
  <2> HIDE DEF o
  <2>5. elsewhere' \in Seq(Order) /\ Backed(elsewhere', mode, charges, confirmed)
    BY <1>1, <2>2, <2>4, BackedGrows
  <2> QED
    BY <2>2, <2>5, NothingIsABag, AnotherKeepsInv
<1> QED
  BY <1>2, <1>3

-----------------------------------------------------------------------------
(* The handlers *)

\* One step of a handler that loses nothing of what was frozen, charged and
\* confirmed, and leaves the page where it is.
LEMMA HandlerKeepsInv ==
  ASSUME CheckoutInv, NEW w \in Handlers, NEW f \in Flow, Becomes(w, f),
         UNCHANGED <<storeVars, freezing, returned, mode>>,
         frozen' \in Seq(Price), Len(frozen) <= Len(frozen'),
         charges' \in Seq(Price), Len(charges) <= Len(charges'), Len(charges') <= MaxCharges,
         \A k \in 1 .. Len(charges) : charges'[k] = charges[k],
         confirmed \subseteq confirmed', confirmed' \subseteq 1 .. Len(charges'),
         Sound(f, Len(frozen'), Len(charges'), confirmed'), f.kind = "simulate" => mode = "test",
         f.at \in Owing => \A v \in Handlers :
           v # w /\ flow[v].at \in Owing => flow[v].charge # f.charge,
         page' \in Page, page'.checkout \in 0 .. Len(frozen'),
         \/ page'.at = page.at
         \/ w = "here" /\ page.at = "return" /\ page'.at = "away",
         w = "here" => page'.at # "provider" /\ (f.kind = "return" => page'.at = "return")
  PROVE  CheckoutInv'
<1> USE DEF CheckoutInv
<1>1. UNCHANGED <<cart, saved, orders, kept, elsewhere, hydrated>>
  BY DEF storeVars, listVars
<1>2. /\ Len(frozen) \in Nat /\ Len(frozen') \in Nat
      /\ Len(charges) \in Nat /\ Len(charges') \in Nat
  BY DEF MoneyInv
<1>3. StoreInv'
  BY <1>1 DEF StoreInv
<1>4. MoneyInv'
  BY <1>2 DEF MoneyInv
<1>5. PageInv'
  BY <1>1 DEF PageInv
<1>6. OrdersInv'
  <2>1. \A k \in confirmed : charges'[k] = charges[k]
    BY DEF MoneyInv
  <2> QED
    BY <1>1, <2>1, BackedStays DEF OrdersInv
<1>7. /\ flow' \in [Handlers -> Flow] /\ flow'[w] = f
      /\ \A v \in Handlers : v # w => flow'[v] = flow[v]
  BY DEF Becomes, FlowInv
<1>8. ASSUME NEW v \in Handlers
      PROVE  Sound(flow'[v], Len(frozen'), Len(charges'), confirmed')
  <2>1. Sound(flow[v], Len(frozen), Len(charges), confirmed)
    BY DEF FlowInv
  <2>2. Sound(flow[v], Len(frozen'), Len(charges'), confirmed')
    BY <1>2, <2>1, SoundStays
  <2> QED
    BY <1>7, <2>2
<1>9. ASSUME NEW u \in Handlers, NEW v \in Handlers,
             u # v, flow'[u].at \in Owing, flow'[v].at \in Owing
      PROVE  flow'[u].charge # flow'[v].charge
  <2>1. u # w /\ v # w => flow[u].charge # flow[v].charge
    BY <1>7, <1>9 DEF FlowInv
  <2> QED
    BY <1>7, <1>9, <2>1
<1>10. /\ page'.at = "provider" =>
            flow'["here"].kind = "redirect" /\ flow'["here"].at = "provider"
       /\ flow'["here"].kind = "return" => page'.at = "return"
  <2>1. CASE w = "here"
    BY <1>7, <2>1
  <2>2. CASE w # "here"
    <3>1. flow'["here"] = flow["here"] /\ page'.at = page.at
      BY <1>7, <2>2 DEF Handlers
    <3> QED
      BY <3>1 DEF FlowInv
  <2> QED
    BY <2>1, <2>2
<1>11. \A v \in Handlers : flow'[v].kind = "simulate" => mode' = "test"
  BY <1>7 DEF FlowInv
<1>12. FlowInv'
  BY <1>7, <1>8, <1>9, <1>10, <1>11 DEF FlowInv
<1> QED
  BY <1>3, <1>4, <1>5, <1>6, <1>12

\* One that does not come to wait for a charge, over the same charges.
LEMMA UnpaidKeepsInv ==
  ASSUME CheckoutInv, NEW w \in Handlers, NEW f \in Flow, Becomes(w, f),
         UNCHANGED <<storeVars, freezing, charges, confirmed, returned, mode>>,
         frozen' \in Seq(Price), Len(frozen) <= Len(frozen'),
         Sound(f, Len(frozen'), Len(charges), confirmed), f.kind = "simulate" => mode = "test",
         f.at \notin Owing,
         page' \in Page, page'.checkout \in 0 .. Len(frozen'),
         \/ page'.at = page.at
         \/ w = "here" /\ page.at = "return" /\ page'.at = "away",
         w = "here" => page'.at # "provider" /\ f.kind # "return"
  PROVE  CheckoutInv' /\ Promise!Forget
<1>1. /\ charges \in Seq(Price) /\ Len(charges) \in Nat /\ Len(charges) <= MaxCharges
      /\ confirmed \subseteq 1 .. Len(charges)
  BY DEF CheckoutInv, MoneyInv
<1>2. CheckoutInv'
  BY <1>1, HandlerKeepsInv
<1>3. UNCHANGED <<orders, kept>>
  BY DEF storeVars, listVars
<1>4. \A v \in Handlers : flow'[v].at \in Owing => flow'[v] = flow[v]
  BY DEF Becomes, CheckoutInv, FlowInv
<1>5. Promise!Forget
  BY <1>3, <1>4, NothingIsPromised
<1> QED
  BY <1>2, <1>5

\* What the invariant says of the handler under way.
LEMMA HandlerIsSound ==
  ASSUME CheckoutInv, NEW w \in Handlers
  PROVE  /\ flow[w] \in Flow
         /\ Sound(flow[w], Len(frozen), Len(charges), confirmed)
         /\ flow[w].kind = "simulate" => mode = "test"
         /\ page \in Page /\ page.checkout \in 0 .. Len(frozen)
         /\ frozen \in Seq(Price) /\ Len(frozen) \in Nat
         /\ charges \in Seq(Price) /\ Len(charges) \in Nat /\ Len(charges) <= MaxCharges
         /\ confirmed \subseteq 1 .. Len(charges)
         /\ w = "here" /\ page.at = "provider" =>
              flow[w].kind = "redirect" /\ flow[w].at = "provider"
         /\ w = "here" /\ flow[w].kind = "return" => page.at = "return"
BY DEF CheckoutInv, PageInv, FlowInv, MoneyInv

\* A handler starts with the bag and the price of its render.
LEMMA StartKeepsInv ==
  ASSUME CheckoutInv, NEW kind \in OfPage, Start(kind),
         kind = "simulate" => mode = "test"
  PROVE  CheckoutInv' /\ Promise!Forget
<1> DEFINE f == [Idle EXCEPT !.kind = kind, !.at = "freeze", !.bag = cart,
                   !.checkout = page.checkout, !.bound = page.checkout,
                   !.total = Shown, !.auth = page.auth]
<1>1. /\ page.at = "checkout" /\ cart # <<>> /\ Becomes("here", f)
      /\ UNCHANGED <<storeVars, page, freezing, frozen, charges, confirmed, returned, mode>>
  BY DEF Start, gatewayVars
<1>2. "here" \in Handlers
  BY DEF Handlers
<1>3. /\ page \in Page /\ page.checkout \in 0 .. Len(frozen) /\ cart \in Basket
      /\ frozen \in Seq(Price) /\ Len(frozen) \in Nat
  BY DEF CheckoutInv, PageInv, StoreInv, MoneyInv
<1>4. Shown \in Price
  <2>1. Total(cart) \in Price
    BY <1>1, <1>3, TotalsArePositive
  <2>2. page.total \in Nat
    BY <1>3 DEF Page
  <2> QED
    BY <2>1, <2>2 DEF Shown, Price
<1>5. /\ f \in Flow /\ f.kind = kind /\ f.at = "freeze" /\ f.bag = cart
      /\ f.total = Shown /\ f.checkout = page.checkout
  <2>1. Shown \in Nat /\ page.checkout \in Nat /\ page.auth \in Nat
    BY <1>3, <1>4 DEF Price, Page
  <2> HIDE DEF OfPage
  <2> QED
    BY <1>3, <2>1 DEF Idle, Flow, Owing
<1> HIDE DEF f
<1>6. f.kind # "return" /\ f.kind # "none" /\ f.at \notin Owing
      /\ Sound(f, Len(frozen), Len(charges), confirmed)
  BY <1>1, <1>3, <1>4, <1>5 DEF Sound, OfPage, Owing
<1> QED
  BY <1>1, <1>2, <1>3, <1>5, <1>6, UnpaidKeepsInv

LEMMA ButtonsStartKeepsInv ==
  ASSUME CheckoutInv, Proceed \/ Override \/ Pay
  PROVE  CheckoutInv' /\ Promise!Forget
<1>1. PICK kind \in OfPage : Start(kind) /\ (kind = "simulate" => mode = "test")
  BY DEF Proceed, Override, Pay, OfPage
<1> QED
  BY <1>1, StartKeepsInv

\* What a handler tells its page changes neither the page it is nor its checkout.
LEMMA TellsKeepsPage ==
  ASSUME CheckoutInv, NEW w \in Handlers, NEW p \in Page, Tells(w, p),
         p.at = page.at, p.checkout \in 0 .. Len(frozen'),
         Len(frozen) \in Nat, Len(frozen') \in Nat, Len(frozen) <= Len(frozen')
  PROVE  page' \in Page /\ page'.at = page.at /\ page'.checkout \in 0 .. Len(frozen')
BY DEF Tells, CheckoutInv, PageInv

\* A handler that is over, with nothing done.
LEMMA EndKeepsInv ==
  ASSUME CheckoutInv, NEW w \in Handlers, Becomes(w, Idle),
         UNCHANGED <<storeVars, freezing, frozen, charges, confirmed, returned, mode>>,
         page' \in Page, page'.checkout \in 0 .. Len(frozen),
         page'.at = page.at \/ (w = "here" /\ page.at = "return" /\ page'.at = "away"),
         w = "here" => flow[w].kind # "redirect" \/ flow[w].at # "provider"
  PROVE  CheckoutInv' /\ Promise!Forget
<1>1. /\ Idle \in Flow /\ Idle.kind = "none" /\ Idle.at \notin Owing
      /\ Sound(Idle, Len(frozen), Len(charges), confirmed)
  BY HandlersAre, IdleIsSound DEF Owing
<1>2. frozen \in Seq(Price) /\ Len(frozen) \in Nat /\ (w = "here" => page.at # "provider")
  BY HandlerIsSound
<1> QED
  BY <1>1, <1>2, UnpaidKeepsInv

\* Giving up leaves the page usable.
LEMMA GiveUpKeepsInv ==
  ASSUME CheckoutInv, NEW w \in Handlers, GiveUp(w), flow[w].at # "provider",
         UNCHANGED <<storeVars, freezing, frozen, charges, confirmed, returned, mode>>
  PROVE  CheckoutInv' /\ Promise!Forget
<1>1. PICK p : Tells(w, p) /\ (p = page \/ p = [page EXCEPT !.step = "pay"])
  BY DEF GiveUp
<1>2. page \in Page /\ page.checkout \in 0 .. Len(frozen) /\ Len(frozen) \in Nat
  BY HandlerIsSound
<1>3. p \in Page /\ p.at = page.at /\ p.checkout = page.checkout
  BY <1>1, <1>2 DEF Page
<1>4. page' \in Page /\ page'.at = page.at /\ page'.checkout \in 0 .. Len(frozen)
  BY <1>1, <1>2, <1>3, TellsKeepsPage
<1>5. Becomes(w, Idle)
  BY DEF GiveUp
<1> QED
  BY <1>4, <1>5, EndKeepsInv

\* A handler that goes on before its payment works for the same bag, total
\* and checkout.
LEMMA GoesOnIsSound ==
  ASSUME CheckoutInv, NEW w \in Handlers, flow[w].kind \in OfPage,
         NEW at \in {"authorize", "order", "provider"}, NEW bound \in Nat
  PROVE  /\ [flow[w] EXCEPT !.at = at, !.bound = bound] \in Flow
         /\ [flow[w] EXCEPT !.at = at] \in Flow
         /\ [flow[w] EXCEPT !.at = at, !.bound = bound].at \notin Owing
         /\ [flow[w] EXCEPT !.at = at].at \notin Owing
         /\ [flow[w] EXCEPT !.at = at, !.bound = bound].kind = flow[w].kind
         /\ [flow[w] EXCEPT !.at = at].kind = flow[w].kind
         /\ [flow[w] EXCEPT !.at = at].at = at
         /\ flow[w].kind \notin {"none", "return"}
         /\ Sound([flow[w] EXCEPT !.at = at, !.bound = bound],
                  Len(frozen), Len(charges), confirmed)
         /\ Sound([flow[w] EXCEPT !.at = at], Len(frozen), Len(charges), confirmed)
<1> DEFINE f == [flow[w] EXCEPT !.at = at]
           g == [f EXCEPT !.bound = bound]
<1>1. flow[w] \in Flow /\ Sound(flow[w], Len(frozen), Len(charges), confirmed)
  BY HandlerIsSound
<1>2. at \notin Owing /\ flow[w].kind \notin {"none", "return"}
  BY DEF Owing, OfPage
<1>3. /\ f \in Flow /\ f.at = at /\ f.kind = flow[w].kind /\ f.bag = flow[w].bag
      /\ f.total = flow[w].total /\ f.checkout = flow[w].checkout
  <2> HIDE DEF OfPage, Owing
  <2> QED
    BY <1>1 DEF Flow
<1> HIDE DEF f
<1>4. /\ g \in Flow /\ g.at = at /\ g.kind = flow[w].kind /\ g.bag = flow[w].bag
      /\ g.total = flow[w].total /\ g.checkout = flow[w].checkout
  BY <1>3 DEF Flow
<1> HIDE DEF g
<1>5. /\ Sound(f, Len(frozen), Len(charges), confirmed)
      /\ Sound(g, Len(frozen), Len(charges), confirmed)
  BY <1>1, <1>2, <1>3, <1>4 DEF Sound, Owing
<1> QED
  BY <1>2, <1>3, <1>4, <1>5 DEF f, g

LEMMA GrantFreezeKeepsInv ==
  ASSUME CheckoutInv, NEW w \in Handlers, GrantFreeze(w)
  PROVE  CheckoutInv' /\ Promise!Forget
<1>1. /\ flow[w].at = "freeze"
      /\ UNCHANGED <<storeVars, freezing, charges, confirmed, returned, mode>>
  BY DEF GrantFreeze
<1>2. /\ flow[w] \in Flow /\ Sound(flow[w], Len(frozen), Len(charges), confirmed)
      /\ flow[w].kind = "simulate" => mode = "test"
      /\ page \in Page /\ page.checkout \in 0 .. Len(frozen)
      /\ frozen \in Seq(Price) /\ Len(frozen) \in Nat /\ Len(charges) \in Nat
      /\ w = "here" => page.at # "provider"
  BY <1>1, HandlerIsSound
<1>3. /\ flow[w].kind \in OfPage /\ flow[w].bag \in Basket /\ flow[w].bag # <<>>
  BY <1>1, <1>2 DEF Sound, Flow
<1>4. CASE Becomes(w, [flow[w] EXCEPT !.at = "authorize"]) /\ UNCHANGED <<page, frozen>>
  <2> DEFINE f == [flow[w] EXCEPT !.at = "authorize"]
  <2>1. /\ f \in Flow /\ f.at \notin Owing /\ f.kind = flow[w].kind /\ f.kind # "return"
        /\ Sound(f, Len(frozen), Len(charges), confirmed)
    BY <1>3, GoesOnIsSound
  <2>2. Becomes(w, f)
    BY <1>4
  <2> HIDE DEF f
  <2> QED
    BY <1>1, <1>2, <1>4, <2>1, <2>2, UnpaidKeepsInv
<1>5. CASE /\ Freeze(flow[w].bag)
           /\ Becomes(w, [flow[w] EXCEPT !.at = "authorize", !.bound = Len(frozen')])
           /\ Tells(w, [page EXCEPT !.checkout = Len(frozen'),
                                    !.total = frozen'[Len(frozen')]])
  <2>1. /\ frozen' \in Seq(Price) /\ Len(frozen') = Len(frozen) + 1 /\ Len(frozen') \in Nat
        /\ frozen'[Len(frozen')] \in Nat
    BY <1>2, <1>3, <1>5, FreezeIsPositive DEF Price
  <2> DEFINE f == [flow[w] EXCEPT !.at = "authorize", !.bound = Len(frozen')]
             p == [page EXCEPT !.checkout = Len(frozen'), !.total = frozen'[Len(frozen')]]
  <2>2. Becomes(w, f) /\ Tells(w, p)
    BY <1>5
  <2>3. /\ f \in Flow /\ f.at \notin Owing /\ f.kind = flow[w].kind /\ f.kind # "return"
        /\ Sound(f, Len(frozen), Len(charges), confirmed)
    BY <1>3, <2>1, GoesOnIsSound
  <2>4. p \in Page /\ p.at = page.at /\ p.checkout \in 0 .. Len(frozen')
    BY <1>2, <2>1, NewCheckoutIsAPage
  <2> HIDE DEF f, p
  <2>5. page' \in Page /\ page'.at = page.at /\ page'.checkout \in 0 .. Len(frozen')
    BY <1>2, <2>1, <2>2, <2>4, TellsKeepsPage
  <2>6. Sound(f, Len(frozen'), Len(charges), confirmed)
    BY <1>2, <2>1, <2>3, SoundStays
  <2> QED
    BY <1>1, <1>2, <2>1, <2>2, <2>3, <2>5, <2>6, UnpaidKeepsInv
<1>6. CASE GiveUp(w) /\ UNCHANGED frozen
  BY <1>1, <1>6, GiveUpKeepsInv
<1> QED
  BY <1>4, <1>5, <1>6 DEF GrantFreeze

LEMMA AuthorizeKeepsInv ==
  ASSUME CheckoutInv, NEW w \in Handlers, Authorize(w)
  PROVE  CheckoutInv' /\ Promise!Forget
<1>1. /\ flow[w].at = "authorize"
      /\ UNCHANGED <<storeVars, freezing, frozen, charges, confirmed, returned, mode>>
  BY DEF Authorize
<1>2. /\ flow[w] \in Flow /\ Sound(flow[w], Len(frozen), Len(charges), confirmed)
      /\ flow[w].kind = "simulate" => mode = "test"
      /\ page \in Page /\ page.checkout \in 0 .. Len(frozen)
      /\ frozen \in Seq(Price) /\ Len(frozen) \in Nat
      /\ w = "here" => page.at # "provider"
  BY <1>1, HandlerIsSound
<1>3. flow[w].kind \in OfPage
  BY <1>1, <1>2 DEF Sound
<1>4. CASE GiveUp(w)
  BY <1>1, <1>4, GiveUpKeepsInv
<1>5. CASE /\ Becomes(w, AfterGrant(w).flow)
           /\ \/ Tells(w, [page EXCEPT !.step = AfterGrant(w).step])
              \/ Tells(w, [page EXCEPT !.auth = flow[w].bound, !.step = AfterGrant(w).step])
  <2>1. AfterGrant(w).step \in {"review", "pay"}
    BY <1>2 DEF AfterGrant, Page
  <2>2. PICK p \in Page : Tells(w, p) /\ p.at = page.at /\ p.checkout = page.checkout
    <3>1. flow[w].bound \in Nat
      BY <1>2 DEF Flow
    <3> DEFINE p == [page EXCEPT !.step = AfterGrant(w).step]
               q == [page EXCEPT !.auth = flow[w].bound]
               r == [q EXCEPT !.step = AfterGrant(w).step]
    <3>2. p \in Page /\ p.at = page.at /\ p.checkout = page.checkout
      BY <1>2, <2>1 DEF Page
    <3>3. q \in Page /\ q.at = page.at /\ q.checkout = page.checkout
      BY <1>2, <3>1 DEF Page
    <3>4. r \in Page /\ r.at = page.at /\ r.checkout = page.checkout
      <4> HIDE DEF q
      <4> QED
        BY <2>1, <3>3 DEF Page
    <3>5. Tells(w, p) \/ Tells(w, r)
      BY <1>5
    <3> HIDE DEF p, r
    <3> QED
      BY <3>2, <3>4, <3>5
  <2>3. page' \in Page /\ page'.at = page.at /\ page'.checkout \in 0 .. Len(frozen)
    BY <1>1, <1>2, <2>2, TellsKeepsPage
  <2>4. CASE flow[w].kind \in {"proceed", "override"}
    <3>1. Becomes(w, Idle)
      BY <1>5, <2>4 DEF AfterGrant
    <3> QED
      BY <1>1, <2>3, <3>1, EndKeepsInv
  <2>5. CASE flow[w].kind \notin {"proceed", "override"}
    <3> DEFINE f == [flow[w] EXCEPT !.at = "order"]
    <3>1. Becomes(w, f)
      BY <1>5, <2>5 DEF AfterGrant
    <3>2. /\ f \in Flow /\ f.at \notin Owing /\ f.kind = flow[w].kind /\ f.kind # "return"
          /\ Sound(f, Len(frozen), Len(charges), confirmed)
      BY <1>3, GoesOnIsSound
    <3> HIDE DEF f
    <3> QED
      BY <1>1, <1>2, <2>3, <3>1, <3>2, UnpaidKeepsInv
  <2> QED
    BY <2>4, <2>5
<1> QED
  BY <1>4, <1>5 DEF Authorize

\* The browser goes to the provider's page, and no handler stays behind.
LEMMA RedirectKeepsInv ==
  ASSUME CheckoutInv, NEW w \in Handlers, flow[w].kind = "redirect",
         flow' = Only([flow[w] EXCEPT !.at = "provider"]),
         page' = Unmounted("provider"), freezing' = FALSE,
         UNCHANGED <<storeVars, gatewayVars>>
  PROVE  CheckoutInv' /\ Promise!Forget
<1> DEFINE f == [flow[w] EXCEPT !.at = "provider"]
<1>1. UNCHANGED <<cart, saved, orders, kept, elsewhere, hydrated,
                  frozen, charges, confirmed, returned, mode>>
  BY DEF storeVars, listVars, gatewayVars
<1>2. /\ f \in Flow /\ f.at = "provider" /\ f.at \notin Owing /\ f.kind = "redirect"
      /\ Sound(f, Len(frozen), Len(charges), confirmed)
  BY GoesOnIsSound DEF OfPage
<1>3. flow' = Only(f)
  OBVIOUS
<1> HIDE DEF f
<1>4. /\ flow' \in [Handlers -> Flow] /\ flow'["here"] = f /\ flow'["gone"] = Idle
  BY <1>2, <1>3, HandlersAre
<1>5. StoreInv' /\ MoneyInv' /\ OrdersInv'
  BY <1>1, MoneyStays DEF CheckoutInv, StoreInv
<1>6. page'.at = "provider" /\ PageInv'
  <2>1. Len(frozen) \in Nat
    BY DEF CheckoutInv, MoneyInv
  <2> QED
    BY <1>1, <2>1, PagesAre DEF PageInv
<1>7. FlowInv'
  <2>1. \A v \in Handlers : Sound(flow'[v], Len(frozen), Len(charges), confirmed)
    BY <1>2, <1>4, HandlersAre, IdleIsSound
  <2>2. \A v \in Handlers : flow'[v].at \notin Owing /\ flow'[v].kind # "simulate"
    BY <1>2, <1>4, HandlersAre DEF Owing
  <2> QED
    BY <1>1, <1>2, <1>4, <1>6, <2>1, <2>2 DEF FlowInv
<1>8. Promise!Forget
  BY <1>1, <1>2, <1>4, HandlersAre, NothingIsPromised DEF Owing
<1> QED
  BY <1>5, <1>6, <1>7, <1>8 DEF CheckoutInv

LEMMA OrderAnsweredKeepsInv ==
  ASSUME CheckoutInv, NEW w \in Handlers, OrderAnswered(w)
  PROVE  CheckoutInv' /\ Promise!Forget
<1>1. /\ flow[w].at = "order" /\ flow[w].kind \in {"modal", "redirect"}
      /\ UNCHANGED <<storeVars, gatewayVars>>
      /\ UNCHANGED <<frozen, charges, confirmed, returned, mode>>
  BY DEF OrderAnswered, gatewayVars
<1>2. CASE /\ flow[w].kind = "modal" /\ Becomes(w, [flow[w] EXCEPT !.at = "provider"])
           /\ UNCHANGED <<page, freezing>>
  <2> DEFINE f == [flow[w] EXCEPT !.at = "provider"]
  <2>1. /\ f \in Flow /\ f.at \notin Owing /\ f.kind = "modal"
        /\ Sound(f, Len(frozen), Len(charges), confirmed)
    BY <1>2, GoesOnIsSound DEF OfPage
  <2>2. Becomes(w, f)
    BY <1>2
  <2> HIDE DEF f
  <2>3. /\ frozen \in Seq(Price) /\ Len(frozen) \in Nat
        /\ page \in Page /\ page.checkout \in 0 .. Len(frozen)
        /\ w = "here" => page.at # "provider"
    BY <1>1, HandlerIsSound
  <2> QED
    BY <1>1, <1>2, <2>1, <2>2, <2>3, UnpaidKeepsInv
<1>3. CASE /\ flow[w].kind = "redirect"
           /\ flow' = Only([flow[w] EXCEPT !.at = "provider"])
           /\ page' = Unmounted("provider")
           /\ freezing' = FALSE
  BY <1>1, <1>3, RedirectKeepsInv
<1>4. CASE GiveUp(w) /\ UNCHANGED freezing
  BY <1>1, <1>4, GiveUpKeepsInv
<1> QED
  BY <1>2, <1>3, <1>4 DEF OrderAnswered

\* A modal that is dismissed, and a verification that fails or is lost.
LEMMA NothingComesOfIt ==
  ASSUME CheckoutInv, NEW w \in Handlers, Dismiss(w) \/ VerifyFails(w)
  PROVE  CheckoutInv' /\ Promise!Forget
<1>1. /\ Becomes(w, Idle)
      /\ UNCHANGED <<storeVars, freezing, frozen, charges, confirmed, returned, mode>>
  BY DEF Dismiss, VerifyFails, gatewayVars
<1>2. /\ page \in Page /\ page.checkout \in 0 .. Len(frozen) /\ Len(frozen) \in Nat
      /\ w = "here" /\ flow[w].kind = "return" => page.at = "return"
  BY HandlerIsSound
<1>3. CASE Dismiss(w)
  <2>1. page' = page /\ flow[w].kind # "redirect"
    BY <1>3 DEF Dismiss
  <2> QED
    BY <1>1, <1>2, <2>1, EndKeepsInv
<1>4. CASE VerifyFails(w)
  <2>1. /\ flow[w].at # "provider"
        /\ Tells(w, IF flow[w].kind = "return" THEN Unmounted("away") ELSE page)
    BY <1>4 DEF VerifyFails
  <2>2. /\ page' \in Page /\ page'.checkout \in 0 .. Len(frozen)
        /\ page'.at = page.at \/ (w = "here" /\ page.at = "return" /\ page'.at = "away")
    BY <1>2, <2>1, PagesAre DEF Tells
  <2> QED
    BY <1>1, <2>1, <2>2, EndKeepsInv
<1> QED
  BY <1>3, <1>4

-----------------------------------------------------------------------------
(* The payment *)

\* A new charge leaves those before it.
LEMMA NewChargeIsNew ==
  ASSUME CheckoutInv, NEW amount \in Price, NewCharge(amount)
  PROVE  /\ charges \in Seq(Price) /\ Len(charges) \in Nat /\ Len(charges) < MaxCharges
         /\ charges' \in Seq(Price) /\ Len(charges') = Len(charges) + 1
         /\ Len(charges') <= MaxCharges
         /\ charges' = Append(charges, charges'[Len(charges')])
         /\ charges'[Len(charges')] = amount
         /\ \A k \in 1 .. Len(charges) : charges'[k] = charges[k]
         /\ \A w \in Handlers : flow[w].at \in Owing => flow[w].charge # Len(charges')
<1>1. charges \in Seq(Price) /\ Len(charges) \in Nat
  BY DEF CheckoutInv, MoneyInv
<1>2. charges' = Append(charges, amount) /\ Len(charges) < MaxCharges
  BY DEF NewCharge
<1>3. /\ charges' \in Seq(Price) /\ Len(charges') = Len(charges) + 1
      /\ charges'[Len(charges')] = amount
      /\ \A k \in 1 .. Len(charges) : charges'[k] = charges[k]
  BY <1>1, <1>2, AppendProperties
<1>4. \A w \in Handlers : flow[w].at \in Owing => flow[w].charge \in 1 .. Len(charges)
  BY DEF CheckoutInv, FlowInv, Sound
<1> QED
  BY <1>1, <1>2, <1>3, <1>4, CheckoutAssumption

\* What a handler of the page is charged is a price.
LEMMA AmountsArePrices ==
  ASSUME CheckoutInv, NEW w \in Handlers, flow[w].kind \in OfPage
  PROVE  /\ Amount(flow[w]) \in Price
         /\ flow[w].checkout # 0 => frozen[flow[w].checkout] \in Price
<1>1. /\ frozen \in Seq(Price) /\ flow[w].checkout \in 0 .. Len(frozen)
      /\ flow[w].total \in Price
  BY HandlerIsSound DEF Sound
<1> QED
  BY <1>1 DEF Amount

\* A charge of the page or of the provider is a charge of the promise.
LEMMA ChargeIsPromised ==
  ASSUME CheckoutInv, NEW amount \in Price, NewCharge(amount), UNCHANGED <<mode, kept>>,
         confirmed' \in {confirmed, confirmed \cup {Len(charges')}},
         \A w \in Handlers : flow'[w].at \in Owing =>
           \/ flow'[w].charge = Len(charges')
           \/ \E v \in Handlers : flow[v].at \in Owing /\ flow[v].charge = flow'[w].charge,
         \/ UNCHANGED <<returned, orders>>
         \/ returned' = returned \cup {Len(charges')} /\ orders' = <<>>
  PROVE  Promise!Charge
<1>1. /\ Len(charges) < MaxCharges /\ Len(charges') = Len(charges) + 1
      /\ charges'[Len(charges')] \in Nat \ {0}
      /\ charges' = Append(charges, charges'[Len(charges')])
      /\ \A k \in 1 .. Len(charges) : charges'[k] = charges[k]
  BY NewChargeIsNew DEF Price
<1>2. Due' \subseteq Due \cup {Len(charges')}
  BY DEF Due, Owing
<1>3. \A k \in confirmed : charges'[k] = charges[k]
  BY <1>1 DEF CheckoutInv, MoneyInv
<1>4. /\ orders \in Seq(Order) /\ kept \in Seq(Order)
      /\ Backed(orders, mode, charges, confirmed) /\ Backed(kept, mode, charges, confirmed)
  BY DEF CheckoutInv, StoreInv, OrdersInv
<1>5. Keeps' = Keeps
  BY <1>3, <1>4, EntriesAre, EntriesStay
<1>6. orders' = orders => Listed' = Listed
  BY <1>3, <1>4, EntriesAre, EntriesStay
<1>7. orders' = <<>> => Listed' = <<>>
  <2>1. ASSUME orders' = <<>> PROVE Listed' = <<>>
    <3>1. DOMAIN orders' = {}
      BY <2>1
    <3> QED
      BY <3>1, EntriesAre DEF EntriesOf
  <2> QED
    BY <2>1
<1> QED
  BY <1>1, <1>2, <1>5, <1>6, <1>7 DEF Promise!Charge

\* A handler of the page whose payment is charged, and confirmed at once or not.
LEMMA ChargedHereKeepsInv ==
  ASSUME CheckoutInv, NEW w \in Handlers, flow[w].kind \in {"modal", "simulate"},
         NEW amount \in Price, NewCharge(amount), NEW at \in Owing,
         Becomes(w, [flow[w] EXCEPT !.at = at, !.charge = Len(charges')]),
         confirmed' \in {confirmed, confirmed \cup {Len(charges')}},
         at = "answer" => Len(charges') \in confirmed',
         UNCHANGED <<storeVars, page, freezing, frozen, returned, mode>>
  PROVE  CheckoutInv' /\ Promise!Charge
<1>1. /\ flow[w] \in Flow /\ Sound(flow[w], Len(frozen), Len(charges), confirmed)
      /\ flow[w].kind = "simulate" => mode = "test"
      /\ page \in Page /\ page.checkout \in 0 .. Len(frozen)
      /\ frozen \in Seq(Price) /\ Len(frozen) \in Nat
      /\ confirmed \subseteq 1 .. Len(charges)
      /\ w = "here" => page.at # "provider"
  BY HandlerIsSound
<1>2. /\ Len(charges) \in Nat /\ charges' \in Seq(Price) /\ Len(charges') = Len(charges) + 1
      /\ Len(charges') <= MaxCharges
      /\ \A k \in 1 .. Len(charges) : charges'[k] = charges[k]
      /\ \A v \in Handlers : flow[v].at \in Owing => flow[v].charge # Len(charges')
  BY NewChargeIsNew
<1> DEFINE g == [flow[w] EXCEPT !.at = at]
           f == [g EXCEPT !.charge = Len(charges')]
<1>3. /\ g \in Flow /\ g.at = at /\ g.kind = flow[w].kind /\ g.bag = flow[w].bag
      /\ g.total = flow[w].total /\ g.checkout = flow[w].checkout
  <2> HIDE DEF OfPage, Owing
  <2> QED
    BY <1>1 DEF Flow
<1> HIDE DEF g
<1>4. /\ f \in Flow /\ f.at = at /\ f.kind = flow[w].kind /\ f.bag = flow[w].bag
      /\ f.total = flow[w].total /\ f.checkout = flow[w].checkout
      /\ f.charge = Len(charges')
  <2>1. Len(charges') \in Nat
    BY <1>2
  <2> QED
    BY <1>3, <2>1 DEF Flow
<1>5. Becomes(w, f)
  BY DEF g
<1> HIDE DEF f
<1>6. Sound(f, Len(frozen), Len(charges'), confirmed')
  BY <1>1, <1>2, <1>4 DEF Sound, OfPage, Owing
<1>7. CheckoutInv'
  <2>1. confirmed' \subseteq 1 .. Len(charges') /\ confirmed \subseteq confirmed'
    BY <1>1, <1>2
  <2> QED
    BY <1>1, <1>2, <1>4, <1>5, <1>6, <2>1, HandlerKeepsInv
<1>8. Promise!Charge
  <2>1. UNCHANGED <<orders, kept>>
    BY DEF storeVars, listVars
  <2>2. \A v \in Handlers : flow'[v] = f \/ flow'[v] = flow[v]
    BY <1>5 DEF Becomes, CheckoutInv, FlowInv
  <2> QED
    BY <1>4, <2>1, <2>2, ChargeIsPromised
<1> QED
  BY <1>7, <1>8

LEMMA PayInModalKeepsInv ==
  ASSUME CheckoutInv, NEW w \in Handlers, PayInModal(w)
  PROVE  CheckoutInv' /\ Promise!Charge
<1>1. /\ flow[w].kind = "modal" /\ NewCharge(Amount(flow[w]))
      /\ Becomes(w, [flow[w] EXCEPT !.at = "verify", !.charge = Len(charges')])
      /\ UNCHANGED <<storeVars, page, freezing, frozen, confirmed, returned, mode>>
  BY DEF PayInModal
<1>2. Amount(flow[w]) \in Price /\ "verify" \in Owing
  BY <1>1, AmountsArePrices DEF OfPage, Owing
<1> QED
  BY <1>1, <1>2, ChargedHereKeepsInv

LEMMA SimulateKeepsInv ==
  ASSUME CheckoutInv, NEW w \in Handlers, Simulate(w)
  PROVE  CheckoutInv' /\ (Promise!Charge \/ Promise!Forget)
<1>1. /\ flow[w].kind = "simulate" /\ flow[w].at = "order"
      /\ UNCHANGED <<storeVars, page, freezing, frozen, returned, mode>>
  BY DEF Simulate
<1>2. CASE /\ flow[w].checkout # 0
           /\ NewCharge(frozen[flow[w].checkout])
           /\ confirmed' = confirmed \cup {Len(charges')}
           /\ Becomes(w, [flow[w] EXCEPT !.at = "answer", !.charge = Len(charges')])
  <2>1. frozen[flow[w].checkout] \in Price /\ "answer" \in Owing
    BY <1>1, <1>2, AmountsArePrices DEF OfPage, Owing
  <2> QED
    BY <1>1, <1>2, <2>1, ChargedHereKeepsInv
<1>3. CASE Becomes(w, Idle) /\ UNCHANGED <<charges, confirmed>>
  <2>1. page \in Page /\ page.checkout \in 0 .. Len(frozen)
    BY HandlerIsSound
  <2> QED
    BY <1>1, <1>3, <2>1, EndKeepsInv
<1> QED
  BY <1>2, <1>3 DEF Simulate

\* The back end confirms what a handler waits for.
LEMMA ConfirmKeepsInv ==
  ASSUME CheckoutInv, NEW w \in Handlers, Confirm(w)
  PROVE  CheckoutInv' /\ \E k \in 1 .. MaxCharges : Promise!Confirm(k)
<1> DEFINE f == [flow[w] EXCEPT !.at = "answer"]
           k == flow[w].charge
<1>1. /\ flow[w].kind \in {"modal", "return"} /\ flow[w].at = "verify"
      /\ confirmed' = confirmed \cup {k} /\ Becomes(w, f)
      /\ UNCHANGED <<storeVars, page, freezing, frozen, charges, returned, mode>>
  BY DEF Confirm
<1>2. /\ flow[w] \in Flow /\ Sound(flow[w], Len(frozen), Len(charges), confirmed)
      /\ page \in Page /\ page.checkout \in 0 .. Len(frozen)
      /\ frozen \in Seq(Price) /\ Len(frozen) \in Nat
      /\ charges \in Seq(Price) /\ Len(charges) \in Nat /\ Len(charges) <= MaxCharges
      /\ confirmed \subseteq 1 .. Len(charges)
      /\ w = "here" => page.at # "provider"
      /\ w = "here" /\ flow[w].kind = "return" => page.at = "return"
  BY <1>1, HandlerIsSound
<1>3. k \in 1 .. Len(charges) /\ k \in 1 .. MaxCharges
  BY <1>1, <1>2, CheckoutAssumption DEF Sound, Owing
<1>4. /\ f \in Flow /\ f.at = "answer" /\ f.kind = flow[w].kind /\ f.bag = flow[w].bag
      /\ f.total = flow[w].total /\ f.checkout = flow[w].checkout /\ f.charge = k
  BY <1>2 DEF Flow, Owing
<1> HIDE DEF f
<1>5. Sound(f, Len(frozen), Len(charges), confirmed')
  BY <1>1, <1>2, <1>3, <1>4 DEF Sound, OfPage, Owing
<1>6. \A v \in Handlers : v # w /\ flow[v].at \in Owing => flow[v].charge # f.charge
  BY <1>1, <1>4 DEF CheckoutInv, FlowInv, Owing
<1>7. CheckoutInv'
  <2>1. confirmed \subseteq confirmed' /\ confirmed' \subseteq 1 .. Len(charges)
    BY <1>1, <1>2, <1>3
  <2>2. f.kind # "simulate"
    BY <1>1, <1>4
  <2>3. /\ frozen' \in Seq(Price) /\ Len(frozen) <= Len(frozen')
        /\ charges' \in Seq(Price) /\ Len(charges) <= Len(charges')
        /\ Len(charges') <= MaxCharges
        /\ \A n \in 1 .. Len(charges) : charges'[n] = charges[n]
        /\ confirmed' \subseteq 1 .. Len(charges')
        /\ Sound(f, Len(frozen'), Len(charges'), confirmed')
        /\ page' \in Page /\ page'.checkout \in 0 .. Len(frozen') /\ page'.at = page.at
    BY <1>1, <1>2, <1>5, <2>1
  <2>4. w = "here" => page'.at # "provider" /\ (f.kind = "return" => page'.at = "return")
    BY <1>1, <1>2, <1>4
  <2>5. Becomes(w, f) /\ UNCHANGED <<storeVars, freezing, returned, mode>>
    BY <1>1
  <2> QED
    BY <1>4, <1>6, <2>1, <2>2, <2>3, <2>4, <2>5, HandlerKeepsInv
<1>8. Promise!Confirm(k)
  <2>1. UNCHANGED <<orders, kept>>
    BY <1>1 DEF storeVars, listVars
  <2>2. Listed' = Listed /\ Keeps' = Keeps
    BY <1>1, <2>1, EntriesAre
  <2>3. /\ flow'[w] = f /\ \A v \in Handlers : v # w => flow'[v] = flow[v]
    BY <1>1 DEF Becomes, CheckoutInv, FlowInv
  <2>4. Due' = Due /\ k \in Due
    BY <1>1, <1>4, <2>3 DEF Due
  <2> QED
    BY <1>1, <2>2, <2>4 DEF Promise!Confirm, Promise!listsVars
<1> QED
  BY <1>3, <1>7, <1>8

-----------------------------------------------------------------------------
(* The order *)

\* What a handler lists is confirmed, and its own: no other waits for it.
LEMMA ListingIsPromised ==
  ASSUME CheckoutInv, NEW w \in Handlers, flow[w].at = "answer", NEW total \in Nat,
         mode = "live" => total = charges[flow[w].charge],
         PlaceOrder(flow[w].charge, total, flow[w].bag),
         UNCHANGED <<frozen, charges, confirmed, returned, mode>>,
         \A v \in Handlers : flow'[v].at \in Owing =>
           \E u \in Handlers : u # w /\ flow[u] = flow'[v],
         \A u \in Handlers : u # w /\ flow[u].at \in Owing =>
           \E v \in Handlers : flow'[v] = flow[u]
  PROVE  /\ StoreInv' /\ MoneyInv' /\ OrdersInv'
         /\ cart' = <<>> /\ UNCHANGED hydrated
         /\ \E k \in 1 .. MaxCharges : Promise!List(k)
<1> DEFINE k == flow[w].charge
           o == [charge |-> k, total |-> total, bag |-> flow[w].bag]
<1>1. /\ orders' = <<o>> \o orders /\ cart' = <<>> /\ saved' \in {<<>>, saved}
      /\ kept' \in {kept, orders'} /\ UNCHANGED <<elsewhere, hydrated>>
  BY DEF PlaceOrder, SetCart
<1>2. /\ flow[w] \in Flow /\ Sound(flow[w], Len(frozen), Len(charges), confirmed)
      /\ charges \in Seq(Price) /\ Len(charges) \in Nat /\ Len(charges) <= MaxCharges
  BY HandlerIsSound
<1>3. k \in 1 .. Len(charges) /\ k \in confirmed /\ k \in 1 .. MaxCharges
  BY <1>2, CheckoutAssumption DEF Sound, Owing
<1>4. o \in Order /\ o.charge = k /\ o.total = total
  BY <1>2, <1>3 DEF Order, Flow
<1> HIDE DEF o
<1>5. /\ cart \in Basket /\ saved \in Basket /\ orders \in Seq(Order) /\ kept \in Seq(Order)
      /\ elsewhere \in Seq(Order)
      /\ Backed(orders, mode, charges, confirmed) /\ Backed(kept, mode, charges, confirmed)
      /\ Backed(elsewhere, mode, charges, confirmed)
  BY DEF CheckoutInv, StoreInv, OrdersInv
<1>6. /\ orders' \in Seq(Order) /\ Len(orders') = Len(orders) + 1 /\ orders'[1] = o
      /\ \A n \in 1 .. Len(orders) : orders'[n + 1] = orders[n]
      /\ Backed(orders', mode, charges, confirmed)
  BY <1>1, <1>3, <1>4, <1>5, BackedGrows
<1>7. StoreInv'
  BY <1>1, <1>5, <1>6, NothingIsABag DEF StoreInv
<1>8. MoneyInv' /\ OrdersInv'
  <2>1. Backed(kept', mode, charges, confirmed)
    BY <1>1, <1>5, <1>6
  <2>2. UNCHANGED <<elsewhere, mode, charges, confirmed>>
    BY <1>1
  <2>3. OrdersInv'
    BY <1>5, <1>6, <2>1, <2>2 DEF OrdersInv
  <2>4. MoneyInv'
    BY DEF CheckoutInv, MoneyInv
  <2> QED
    BY <2>3, <2>4
<1>9. Promise!List(k)
  <2>1. /\ o.charge \in confirmed /\ (mode = "live" => o.total = charges[o.charge])
        /\ UNCHANGED <<mode, charges>>
    BY <1>3, <1>4
  <2>2. Listed' = Append(Listed, <<k, charges[k]>>)
    <3>1. Listed' = Append(Listed, <<o.charge, charges[o.charge]>>)
      BY <1>1, <1>4, <1>5, <2>1, ListedGrows
    <3> QED
      BY <1>4, <3>1
  <2>3. Keeps' \in {Keeps, Listed'}
    BY <1>1, EntriesAre
  <2>4. \A u \in Handlers : u # w /\ flow[u].at \in Owing => flow[u].charge # k
    BY DEF CheckoutInv, FlowInv, Owing
  <2>5. Due' = Due \ {k} /\ k \in Due
    <3>1. ASSUME NEW c \in Due' PROVE c \in Due /\ c # k
      BY <2>4, <3>1 DEF Due, Owing
    <3>2. ASSUME NEW c \in Due, c # k PROVE c \in Due'
      BY <3>2 DEF Due, Owing
    <3>3. k \in Due
      BY DEF Due
    <3> QED
      BY <3>1, <3>2, <3>3
  <2> QED
    BY <1>3, <2>2, <2>3, <2>5 DEF Promise!List
<1> QED
  BY <1>1, <1>3, <1>7, <1>8, <1>9

LEMMA RecordKeepsInv ==
  ASSUME CheckoutInv, NEW w \in Handlers, Record(w)
  PROVE  /\ CheckoutInv'
         /\ Promise!Forget \/ \E k \in 1 .. MaxCharges : Promise!List(k)
<1>1. /\ flow[w].kind \in {"modal", "simulate"} /\ flow[w].at = "answer"
      /\ UNCHANGED <<frozen, charges, confirmed, returned, mode>>
  BY DEF Record, gatewayVars
<1>2. /\ flow[w] \in Flow /\ Sound(flow[w], Len(frozen), Len(charges), confirmed)
      /\ flow[w].kind = "simulate" => mode = "test"
      /\ page \in Page /\ page.checkout \in 0 .. Len(frozen) /\ Len(frozen) \in Nat
  BY HandlerIsSound
<1>3. CASE /\ ~ Differs(flow[w])
           /\ PlaceOrder(flow[w].charge, flow[w].total, flow[w].bag)
           /\ Done(w)
  <2>1. flow[w].total \in Nat /\ (mode = "live" => flow[w].total = charges[flow[w].charge])
    BY <1>1, <1>2, <1>3 DEF Flow, Differs
  <2>2. /\ page' = Unmounted("away") /\ freezing' = FALSE
        /\ LeftBehind(flow[IF w = "here" THEN "gone" ELSE "here"])
    BY <1>3 DEF Done
  <2>3. /\ flow' \in [Handlers -> Flow] /\ flow'["here"] = Idle
        /\ flow'["gone"] \in {flow["here"], flow["gone"]}
        /\ \A u \in Handlers : u # w => flow'["gone"] = flow[u]
        /\ \E u \in Handlers : u # w /\ flow'["gone"] = flow[u]
    BY <2>2, HandlersAre DEF LeftBehind, CheckoutInv, FlowInv
  <2>4. \A v \in Handlers : flow'[v].at \in Owing =>
          \E u \in Handlers : u # w /\ flow[u] = flow'[v]
    BY <2>3, HandlersAre DEF Owing
  <2>5. \A u \in Handlers : u # w => \E v \in Handlers : flow'[v] = flow[u]
    BY <2>3, HandlersAre
  <2>6. /\ StoreInv' /\ MoneyInv' /\ OrdersInv' /\ cart' = <<>>
        /\ \E k \in 1 .. MaxCharges : Promise!List(k)
    BY <1>1, <1>3, <2>1, <2>4, <2>5, ListingIsPromised
  <2>7. PageInv' /\ page'.at = "away"
    BY <1>1, <1>2, <2>2, PagesAre DEF PageInv
  <2>8. FlowInv'
    BY <1>1, <2>3, <2>7, LeftKeepsFlows DEF CheckoutInv
  <2> QED
    BY <2>6, <2>7, <2>8 DEF CheckoutInv
<1>4. CASE Becomes(w, Idle) /\ UNCHANGED <<storeVars, page, freezing>>
  BY <1>1, <1>2, <1>4, EndKeepsInv
<1> QED
  BY <1>3, <1>4 DEF Record

LEMMA ReturnRecordKeepsInv ==
  ASSUME CheckoutInv, NEW w \in Handlers, ReturnRecord(w)
  PROVE  /\ CheckoutInv'
         /\ Promise!Forget \/ \E k \in 1 .. MaxCharges : Promise!List(k)
<1>1. /\ flow[w].kind = "return" /\ flow[w].at = "answer" /\ hydrated /\ Becomes(w, Idle)
      /\ UNCHANGED <<frozen, charges, confirmed, returned, mode>>
  BY DEF ReturnRecord, gatewayVars
<1>2. /\ flow[w] \in Flow /\ page \in Page /\ page.checkout \in 0 .. Len(frozen)
      /\ Len(frozen) \in Nat
      /\ w = "here" => page.at = "return"
  BY <1>1, HandlerIsSound
<1>3. /\ flow' \in [Handlers -> Flow] /\ flow'[w] = Idle
      /\ \A v \in Handlers : v # w => flow'[v] = flow[v]
  BY <1>1, HandlersAre DEF Becomes, CheckoutInv, FlowInv
<1>4. /\ page' \in Page /\ page'.checkout \in 0 .. Len(frozen)
      /\ w = "here" => page'.at = "away" /\ freezing' = freezing
      /\ w # "here" => page'.at = page.at
      /\ w # "here" /\ ~ (page.at = "checkout" /\ cart' # cart) => freezing' = freezing
      /\ w # "here" /\ page.at = "checkout" /\ cart' # cart => (freezing' => cart' # <<>>)
  <2>1. CASE w = "here"
    BY <1>2, <2>1, PagesAre DEF ReturnRecord
  <2>2. CASE w # "here" /\ page.at = "checkout" /\ cart' # cart
    <3>1. page' = [page EXCEPT !.auth = 0, !.total = 0, !.accepted = FALSE]
          /\ freezing' = (cart' # <<>>)
      BY <2>2 DEF ReturnRecord, DropFreeze
    <3>2. page' \in Page /\ page'.at = page.at /\ page'.checkout = page.checkout
      BY <1>2, <3>1 DEF Page
    <3>3. freezing' => cart' # <<>>
      BY <3>1
    <3> QED
      BY <1>2, <2>2, <3>2, <3>3
  <2>3. CASE w # "here" /\ ~ (page.at = "checkout" /\ cart' # cart)
    BY <1>2, <2>3 DEF ReturnRecord
  <2> QED
    BY <2>1, <2>2, <2>3
<1>5. hydrated' => PageInv'
  BY <1>1, <1>2, <1>4 DEF CheckoutInv, PageInv
<1>6. FlowInv'
  <2>1. \A v \in Handlers :
          /\ Sound(flow'[v], Len(frozen), Len(charges), confirmed)
          /\ flow'[v].kind = "simulate" => mode = "test"
    BY <1>3, HandlersAre, IdleIsSound DEF CheckoutInv, FlowInv
  <2>2. /\ flow'[w].at \notin Owing /\ flow'[w].kind # "return" /\ flow'[w].kind # "redirect"
        /\ \A v \in Handlers : v # w => flow'[v] = flow[v]
    BY <1>3, HandlersAre DEF Owing
  <2>3. /\ page'.at = "provider" =>
             flow'["here"].kind = "redirect" /\ flow'["here"].at = "provider"
        /\ flow'["here"].kind = "return" => page'.at = "return"
    <3>1. CASE w = "here"
      BY <1>4, <2>2, <3>1
    <3>2. CASE w # "here"
      BY <1>4, <2>2, <3>2, HandlersAre DEF CheckoutInv, FlowInv
    <3> QED
      BY <3>1, <3>2
  <2>4. \A u, v \in Handlers :
          u # v /\ flow'[u].at \in Owing /\ flow'[v].at \in Owing
            => flow'[u].charge # flow'[v].charge
    BY <2>2 DEF CheckoutInv, FlowInv
  <2> QED
    BY <1>1, <1>3, <2>1, <2>3, <2>4 DEF FlowInv
<1>7. /\ \A v \in Handlers : flow'[v].at \in Owing =>
           \E u \in Handlers : u # w /\ flow[u] = flow'[v]
      /\ \A u \in Handlers : u # w => \E v \in Handlers : flow'[v] = flow[u]
  BY <1>3, HandlersAre DEF Owing
<1>8. CASE /\ mode = "live" => charges[flow[w].charge] = Total(flow[w].bag)
           /\ flow[w].bag # <<>>
           /\ PlaceOrder(flow[w].charge, Total(flow[w].bag), flow[w].bag)
  <2> DEFINE total == Total(flow[w].bag)
  <2>1. total \in Nat
    BY <1>2, <1>8, TotalsArePositive DEF Flow, Price
  <2>2. /\ PlaceOrder(flow[w].charge, total, flow[w].bag)
        /\ mode = "live" => total = charges[flow[w].charge]
    BY <1>8
  <2> HIDE DEF total
  <2>3. /\ StoreInv' /\ MoneyInv' /\ OrdersInv' /\ hydrated' = hydrated
        /\ \E k \in 1 .. MaxCharges : Promise!List(k)
    BY <1>1, <1>7, <2>1, <2>2, ListingIsPromised
  <2> QED
    BY <1>1, <1>5, <1>6, <2>3 DEF CheckoutInv
<1>9. CASE ClearCart \/ UNCHANGED storeVars
  <2>1. /\ cart' \in {<<>>, cart} /\ saved' \in {<<>>, saved}
        /\ UNCHANGED <<orders, kept, elsewhere, hydrated>>
    BY <1>9 DEF ClearCart, SetCart, storeVars, listVars
  <2>2. StoreInv' /\ MoneyInv' /\ OrdersInv'
    BY <1>1, <2>1, NothingIsABag, MoneyStays DEF CheckoutInv, StoreInv
  <2>3. \A v \in Handlers : flow'[v].at \in Owing =>
          \E u \in Handlers : flow[u].at \in Owing /\ flow[u].charge = flow'[v].charge
    BY <1>7
  <2>4. Promise!Forget
    BY <1>1, <2>1, <2>3, NothingIsPromised
  <2> QED
    BY <1>1, <1>5, <1>6, <2>1, <2>2, <2>4 DEF CheckoutInv
<1> QED
  BY <1>8, <1>9 DEF ReturnRecord

-----------------------------------------------------------------------------
(* The way back from the provider *)

\* A charge is waited for on a page of its own, in a document that is loaded
\* anew, with the bag of the first render or the saved one.
LEMMA ReturnsKeepInv ==
  ASSUME CheckoutInv, NEW k \in 1 .. Len(charges'), Returns(k), UNCHANGED <<frozen, mode>>,
         charges' \in Seq(Price), Len(charges) <= Len(charges'), Len(charges') <= MaxCharges,
         \A n \in 1 .. Len(charges) : charges'[n] = charges[n],
         returned' \subseteq 1 .. Len(charges'), confirmed' = confirmed
  PROVE  /\ CheckoutInv' /\ UNCHANGED kept /\ orders' = <<>>
         /\ flow'["here"].charge = k /\ flow'["here"].at \in Owing
         /\ flow'["gone"] = Idle
<1>1. /\ Load /\ page' = Unmounted("return") /\ freezing' = FALSE
  BY DEF Returns
<1>2. PICK bag \in {<<>>, saved} :
        flow' = Only([Idle EXCEPT !.kind = "return", !.at = "verify", !.bag = bag,
                       !.charge = k])
  BY DEF Returns
<1> DEFINE f == [Idle EXCEPT !.kind = "return", !.at = "verify", !.bag = bag, !.charge = k]
<1>3. StoreInv' /\ PageInv' /\ UNCHANGED <<kept, elsewhere>> /\ orders' = <<>>
  BY <1>1, PagesAre, LoadKeepsInv
<1>4. /\ Len(charges) \in Nat /\ Len(charges') \in Nat /\ k \in Nat
      /\ confirmed \subseteq 1 .. Len(charges) /\ frozen \in Seq(Price)
  BY DEF CheckoutInv, MoneyInv
<1>5. bag \in Basket
  BY NothingIsABag DEF CheckoutInv, StoreInv
<1>6. f \in Flow /\ f.kind = "return" /\ f.at = "verify" /\ f.charge = k
  BY <1>4, <1>5 DEF Idle, Flow, Owing
<1>7. flow' = Only(f)
  BY <1>2
<1> HIDE DEF f
<1>8. /\ flow' \in [Handlers -> Flow] /\ flow'["here"] = f /\ flow'["gone"] = Idle
  BY <1>6, <1>7, HandlersAre
<1>9. MoneyInv'
  BY <1>4 DEF CheckoutInv, MoneyInv
<1>10. OrdersInv'
  <2>1. \A n \in confirmed : charges'[n] = charges[n]
    BY <1>4
  <2> QED
    BY <1>3, <2>1, BackedStays, EmptyListIsBacked DEF CheckoutInv, OrdersInv
<1>11. FlowInv'
  <2>1. Sound(f, Len(frozen'), Len(charges'), confirmed')
    BY <1>6 DEF Sound, OfPage, Owing
  <2>2. Sound(Idle, Len(frozen'), Len(charges'), confirmed')
    BY IdleIsSound
  <2>3. page'.at = "return"
    BY <1>1, PagesAre
  <2>4. flow'["gone"].at \notin Owing /\ flow'["gone"].kind = "none"
    BY <1>8, HandlersAre DEF Owing
  <2>5. \A w \in Handlers :
          /\ Sound(flow'[w], Len(frozen'), Len(charges'), confirmed')
          /\ flow'[w].kind # "simulate"
    BY <1>6, <1>8, <2>1, <2>2, <2>4, HandlersAre
  <2>6. \A v, w \in Handlers :
          ~ (v # w /\ flow'[v].at \in Owing /\ flow'[w].at \in Owing)
    BY <2>4, HandlersAre
  <2> QED
    BY <1>8, <2>3, <2>5, <2>6 DEF FlowInv
<1> QED
  BY <1>3, <1>6, <1>8, <1>9, <1>10, <1>11 DEF CheckoutInv, Owing

LEMMA PayAndReturnKeepsInv ==
  ASSUME CheckoutInv, PayAndReturn
  PROVE  CheckoutInv' /\ Promise!Charge
<1>1. /\ page.at = "provider" /\ NewCharge(Amount(flow["here"])) /\ Returns(Len(charges'))
      /\ returned' = returned \cup {Len(charges')} /\ UNCHANGED <<frozen, confirmed, mode>>
  BY DEF PayAndReturn
<1>2. Amount(flow["here"]) \in Price
  BY <1>1, HandlersAre, AmountsArePrices DEF CheckoutInv, FlowInv, OfPage
<1>3. /\ Len(charges) \in Nat /\ charges' \in Seq(Price) /\ Len(charges') = Len(charges) + 1
      /\ Len(charges') <= MaxCharges
      /\ \A n \in 1 .. Len(charges) : charges'[n] = charges[n]
  BY <1>1, <1>2, NewChargeIsNew
<1>4. Len(charges') \in 1 .. Len(charges') /\ returned' \subseteq 1 .. Len(charges')
  <2> DEFINE n == Len(charges)
             m == Len(charges')
  <2>1. n \in Nat /\ m = n + 1 /\ returned' = returned \cup {m}
    BY <1>1, <1>3
  <2>2. returned \subseteq 1 .. n
    BY DEF CheckoutInv, MoneyInv
  <2> HIDE DEF n, m
  <2>3. m \in 1 .. m /\ returned' \subseteq 1 .. m
    BY <2>1, <2>2
  <2> QED
    BY <2>3 DEF m
<1>5. /\ CheckoutInv' /\ UNCHANGED kept /\ orders' = <<>>
      /\ flow'["here"].charge = Len(charges') /\ flow'["gone"] = Idle
  BY <1>1, <1>3, <1>4, ReturnsKeepInv
<1>6. \A w \in Handlers : flow'[w].at \in Owing => flow'[w].charge = Len(charges')
  BY <1>5, HandlersAre DEF Owing
<1>7. Promise!Charge
  BY <1>1, <1>2, <1>5, <1>6, ChargeIsPromised
<1> QED
  BY <1>5, <1>7

\* The return address is opened again, and waits for its charge again.
LEMMA ReturnAgainKeepsInv ==
  ASSUME CheckoutInv, NEW k \in 1 .. MaxCharges, ReturnAgain(k)
  PROVE  CheckoutInv' /\ Promise!Reopen(k)
<1>1. k \in returned /\ Returns(k) /\ UNCHANGED <<frozen, charges, confirmed, returned, mode>>
  BY DEF ReturnAgain, gatewayVars
<1>2. /\ charges \in Seq(Price) /\ Len(charges) \in Nat /\ Len(charges) <= MaxCharges
      /\ returned \subseteq 1 .. Len(charges)
  BY DEF CheckoutInv, MoneyInv
<1>3. /\ CheckoutInv' /\ UNCHANGED kept /\ orders' = <<>>
      /\ flow'["here"].charge = k /\ flow'["here"].at \in Owing /\ flow'["gone"] = Idle
  BY <1>1, <1>2, ReturnsKeepInv
<1>4. Due' = {k}
  BY <1>3, HandlersAre DEF Due, Owing
<1>5. Keeps' = Keeps /\ Listed' = <<>>
  <2>1. DOMAIN orders' = {}
    BY <1>3
  <2> QED
    BY <1>1, <1>3, <2>1, EntriesAre DEF EntriesOf
<1> QED
  BY <1>1, <1>3, <1>4, <1>5 DEF Promise!Reopen

-----------------------------------------------------------------------------
(* Every step *)

LEMMA InitIsSound ==
  ASSUME CheckoutInit
  PROVE  CheckoutInv /\ Promise!PurchaseInit
<1>1. /\ cart = <<>> /\ orders = <<>> /\ saved = <<>> /\ kept = <<>> /\ elsewhere = <<>>
      /\ hydrated = TRUE /\ page = Unmounted("away") /\ freezing = FALSE /\ flow = NoHandler
      /\ frozen = <<>> /\ charges = <<>> /\ confirmed = {} /\ returned = {}
  BY DEF CheckoutInit, StoreInit
<1>2. /\ flow \in [Handlers -> Flow] /\ \A w \in Handlers : flow[w] = Idle
  BY <1>1, HandlersAre
<1>3. StoreInv
  BY <1>1, NothingIsABag DEF StoreInv
<1>4. MoneyInv
  BY <1>1, NothingIsABag, CheckoutAssumption DEF MoneyInv
<1>5. PageInv /\ page.at = "away"
  BY <1>1, NothingIsABag, PagesAre DEF PageInv
<1>6. FlowInv
  BY <1>2, <1>5, HandlersAre, IdleIsSound DEF FlowInv, Owing
<1>7. OrdersInv
  BY <1>1, EmptyListIsBacked DEF OrdersInv
<1>8. Promise!PurchaseInit
  <2>1. DOMAIN orders = {} /\ DOMAIN kept = {}
    BY <1>1
  <2>2. Listed = <<>> /\ Keeps = <<>>
    BY <2>1, EntriesAre DEF EntriesOf
  <2>3. Due = {}
    BY <1>2, HandlersAre DEF Due
  <2> QED
    BY <1>1, <2>2, <2>3 DEF Promise!PurchaseInit
<1> QED
  BY <1>3, <1>4, <1>5, <1>6, <1>7, <1>8 DEF CheckoutInv

LEMMA CheckoutStutters ==
  ASSUME CheckoutInv, UNCHANGED checkoutVars
  PROVE  CheckoutInv' /\ UNCHANGED Promise!purchaseVars
<1>1. UNCHANGED <<cart, saved, orders, kept, elsewhere, hydrated, page, freezing, flow,
                  frozen, charges, confirmed, returned, mode>>
  BY DEF checkoutVars, storeVars, listVars, pageVars, gatewayVars
<1>2. StoreInv' /\ MoneyInv' /\ OrdersInv'
  BY <1>1, MoneyStays DEF CheckoutInv, StoreInv
<1>3. PageInv' /\ FlowInv'
  BY <1>1 DEF CheckoutInv, PageInv, FlowInv
<1>4. UNCHANGED Promise!purchaseVars
  BY <1>1, EntriesAre DEF Due, Promise!purchaseVars, Promise!listsVars
<1> QED
  BY <1>2, <1>3, <1>4 DEF CheckoutInv

\* Every step of the page keeps the invariant, and is a step of the promise
\* or none.
LEMMA CheckoutStepIsPromised ==
  ASSUME CheckoutInv, [CheckoutNext]_checkoutVars
  PROVE  CheckoutInv' /\ [Promise!PurchaseNext]_(Promise!purchaseVars)
<1> USE DEF Promise!PurchaseNext
<1>1. CASE Edit
  BY <1>1, EditKeepsInv
<1>2. CASE OpenCheckout \/ AcceptPrice \/ GoBack
  BY <1>2, ButtonsKeepInv
<1>3. CASE LeaveCheckout
  BY <1>3, LeaveCheckoutKeepsInv
<1>4. CASE ReloadPage \/ Abandon
  BY <1>4, ReloadsKeepInv
<1>5. CASE FreezeLands
  BY <1>5, FreezeLandsKeepsInv
<1>6. CASE Proceed \/ Override \/ Pay
  BY <1>6, ButtonsStartKeepsInv
<1>7. ASSUME NEW w \in Handlers, Answers(w) \/ PayInModal(w) \/ Dismiss(w)
      PROVE  CheckoutInv' /\ Promise!PurchaseNext
  <2>1. CASE GrantFreeze(w)
    BY <2>1, GrantFreezeKeepsInv
  <2>2. CASE Authorize(w)
    BY <2>2, AuthorizeKeepsInv
  <2>3. CASE OrderAnswered(w)
    BY <2>3, OrderAnsweredKeepsInv
  <2>4. CASE Confirm(w)
    BY <2>4, ConfirmKeepsInv
  <2>5. CASE VerifyFails(w) \/ Dismiss(w)
    BY <2>5, NothingComesOfIt
  <2>6. CASE Simulate(w)
    BY <2>6, SimulateKeepsInv
  <2>7. CASE Record(w)
    BY <2>7, RecordKeepsInv
  <2>8. CASE ReturnRecord(w)
    BY <2>8, ReturnRecordKeepsInv
  <2>9. CASE PayInModal(w)
    BY <2>9, PayInModalKeepsInv
  <2> QED
    BY <1>7, <2>1, <2>2, <2>3, <2>4, <2>5, <2>6, <2>7, <2>8, <2>9 DEF Answers
<1>8. CASE PayAndReturn
  BY <1>8, PayAndReturnKeepsInv
<1>9. CASE HydrateStep
  BY <1>9, HydrateKeepsInv
<1>10. CASE \E k \in 1 .. MaxCharges : ReturnAgain(k)
  BY <1>10, ReturnAgainKeepsInv
<1>11. CASE \/ \E i \in OtherItems : OtherTabStep(i)
            \/ \E k \in 1 .. MaxCharges : OtherTabReturns(k)
  BY <1>11, OtherTabsKeepInv
<1>12. CASE UNCHANGED checkoutVars
  BY <1>12, CheckoutStutters
<1> QED
  BY <1>1, <1>2, <1>3, <1>4, <1>5, <1>6, <1>7, <1>8, <1>9, <1>10, <1>11, <1>12
  DEF CheckoutNext

\* Whatever the shopper, the other tabs, the provider and the gateway do.
THEOREM CheckoutIsSound == CheckoutSpec => []CheckoutInv
<1>1. CheckoutInit => CheckoutInv
  BY InitIsSound
<1>2. CheckoutInv /\ [CheckoutNext]_checkoutVars => CheckoutInv'
  BY CheckoutStepIsPromised
<1> QED
  BY <1>1, <1>2, PTL DEF CheckoutSpec

\* The page, the provider and the back end implement Purchase, whatever tabs
\* overwrite and handlers outlive: an order is listed for a confirmed charge,
\* at its amount, once for each time its confirmation was awaited.
THEOREM ThePromiseIsKept == CheckoutSpec => PurchaseKept
<1>1. CheckoutInit => Promise!PurchaseInit
  BY InitIsSound
<1>2. CheckoutInv /\ [CheckoutNext]_checkoutVars
        => [Promise!PurchaseNext]_(Promise!purchaseVars)
  BY CheckoutStepIsPromised
<1> QED
  BY <1>1, <1>2, CheckoutIsSound, PTL
  DEF CheckoutSpec, PurchaseKept, Promise!PurchaseSpec

-----------------------------------------------------------------------------
(* The catalogue pages *)

ReadFields == {"run", "place", "for", "rows", "stage", "waits", "known"}

\* A read belongs to a run that has started; the one in force is for what the
\* page asks for, and only the listings search.
ReadSound(r) ==
  /\ ReadFields \subseteq DOMAIN r
  /\ r.run \in Nat
  /\ r.place \notin Listings => r.stage = "records"
  /\ r.place = "product" => \A row \in r.rows : row.price = "live"

ReadsInv ==
  /\ run \in Nat
  /\ \A r \in reads :
       ReadSound(r) /\ r.run <= run /\ (r.run = run => r.for = asked /\ r.place = place)

\* What a page says is ready answers what it asks for, and what the product
\* page shows is priced live.
ShownInv ==
  /\ phase = "ready" => shown.for = asked
  /\ place = "product" => \A row \in shown.rows : row.price = "live"

CatalogInv == ReadsInv /\ ShownInv /\ ProductLinesAreLive

\* A read starts sound.
LEMMA ReadIsSound ==
  ASSUME NEW p, NEW a, NEW n \in Nat
  PROVE  /\ ReadSound(Read(p, a, n))
         /\ Read(p, a, n).run = n /\ Read(p, a, n).for = a /\ Read(p, a, n).place = p
<1> DEFINE r == Read(p, a, n)
<1>1. /\ r.run = n /\ r.for = a /\ r.place = p /\ r.rows = {} /\ ReadFields \subseteq DOMAIN r
      /\ p \notin Listings => r.stage = "records"
  BY DEF Read, ReadFields
<1> HIDE DEF r
<1>2. ReadSound(r)
  BY <1>1 DEF ReadSound
<1> QED
  BY <1>1, <1>2 DEF r

\* A new run leaves the reads of the old ones behind.
LEMMA StartsIsSound ==
  ASSUME ReadsInv, ShownInv, NEW p, NEW a, Starts(p, a),
         p \in {"home", "checkout"} => a = {}
  PROVE  ReadsInv' /\ ShownInv'
<1>1. run \in Nat /\ run' = run + 1 /\ run' \in Nat /\ place' = p /\ asked' = a
  BY DEF Starts, ReadsInv
<1>2. \A r \in reads : ReadSound(r) /\ r.run <= run' /\ r.run # run'
  BY <1>1 DEF ReadsInv, ReadSound
<1>3. Nothing.for = {} /\ Nothing.rows = {}
  BY DEF Nothing
<1>4. CASE (p \in {"compare", "wishlist"} /\ a = {}) \/ p = "checkout"
  <2>1. reads' = reads /\ shown' = Nothing /\ a = {}
    BY <1>4 DEF Starts
  <2> QED
    BY <1>1, <1>2, <1>3, <2>1 DEF ReadsInv, ShownInv
<1>5. CASE ~ ((p \in {"compare", "wishlist"} /\ a = {}) \/ p = "checkout")
  <2>1. /\ reads' = reads \cup {Read(p, a, run + 1)}
        /\ phase' = IF p = "home" THEN "ready" ELSE "loading"
        /\ shown' = IF p = "home" THEN [for |-> {}, rows |-> StaticRows(Products)]
                    ELSE IF p = place /\ p # "product" THEN shown ELSE Nothing
    BY <1>5 DEF Starts
  <2>2. ReadsInv'
    BY <1>1, <1>2, <2>1, ReadIsSound DEF ReadsInv
  <2>3. phase' = "ready" => shown'.for = asked'
    BY <1>1, <2>1
  <2>4. place' = "product" => shown'.rows = {}
    BY <1>1, <1>3, <2>1
  <2> QED
    BY <2>2, <2>3, <2>4 DEF ShownInv
<1> QED
  BY <1>4, <1>5

\* A read that is over tells the page only if it is the one in force.
LEMMA EndsIsSound ==
  ASSUME ReadsInv, ShownInv, NEW read \in reads, NEW result, NEW rows,
         Ends(read, result, rows),
         read.place = "product" => \A row \in rows : row.price = "live"
  PROVE  ReadsInv' /\ ShownInv'
<1>1. reads' = reads \ {read} /\ UNCHANGED <<place, asked, run>>
  BY DEF Ends
<1>2. ReadsInv'
  BY <1>1 DEF ReadsInv
<1>3. CASE InForce(read)
  <2>1. read.for = asked /\ read.place = place
    BY <1>3 DEF ReadsInv, InForce
  <2>2. phase' = result
        /\ shown' = IF result = "ready" THEN [for |-> read.for, rows |-> rows] ELSE shown
    BY <1>3 DEF Ends
  <2>3. CASE result = "ready"
    <3>1. shown'.for = read.for /\ shown'.rows = rows
      BY <2>2, <2>3
    <3> QED
      BY <1>1, <1>2, <2>1, <3>1 DEF ShownInv
  <2>4. CASE result # "ready"
    BY <1>1, <1>2, <2>2, <2>4 DEF ShownInv
  <2> QED
    BY <2>3, <2>4
<1>4. CASE ~ InForce(read)
  <2>1. UNCHANGED <<phase, shown>>
    BY <1>4 DEF Ends
  <2> QED
    BY <1>1, <1>2, <2>1 DEF ShownInv
<1> QED
  BY <1>3, <1>4

\* A read that goes on goes on for what it was started for.
LEMMA GoesIsSound ==
  ASSUME ReadsInv, ShownInv, NEW read \in reads, NEW next, Goes(read, next),
         ReadSound(next), next.run = read.run, next.for = read.for, next.place = read.place
  PROVE  ReadsInv' /\ ShownInv'
<1>1. /\ reads' = (reads \ {read}) \cup {next}
      /\ UNCHANGED <<place, asked, run, phase, shown>>
  BY DEF Goes
<1>2. ReadsInv'
  BY <1>1 DEF ReadsInv
<1> QED
  BY <1>1, <1>2 DEF ShownInv

\* Whatever answers, in whatever order.
LEMMA AnswerIsSound ==
  ASSUME ReadsInv, ShownInv, NEW read \in reads, Answer(read)
  PROVE  ReadsInv' /\ ShownInv'
<1>1. ReadSound(read)
  BY DEF ReadsInv
<1>2. /\ "run" \in DOMAIN read /\ "place" \in DOMAIN read /\ "for" \in DOMAIN read
      /\ "rows" \in DOMAIN read /\ "stage" \in DOMAIN read /\ "waits" \in DOMAIN read
      /\ "known" \in DOMAIN read
  BY <1>1 DEF ReadSound, ReadFields
<1>3. "product" \notin Listings
  BY DEF Listings
<1>4. CASE SearchAnswers(read) \/ ExploreAnswers(read)
  <2>1. read.place # "product"
    BY <1>1, <1>3, <1>4 DEF ReadSound, SearchAnswers, ExploreAnswers
  <2>2. PICK result, rows : Ends(read, result, rows)
    BY <1>4 DEF SearchAnswers, ExploreAnswers
  <2> QED
    BY <2>1, <2>2, EndsIsSound
<1>5. CASE SearchFails(read)
  <2> DEFINE next == [read EXCEPT !.stage = "explore"]
  <2>1. read.stage = "search" /\ Goes(read, next)
    BY <1>5 DEF SearchFails
  <2>2. read.place \in Listings
    BY <1>1, <2>1 DEF ReadSound
  <2>3. /\ DOMAIN next = DOMAIN read /\ next.run = read.run /\ next.for = read.for
        /\ next.place = read.place
    BY <1>2
  <2> HIDE DEF next
  <2>4. ReadSound(next)
    BY <1>1, <1>3, <2>2, <2>3 DEF ReadSound
  <2> QED
    BY <2>1, <2>3, <2>4, GoesIsSound
<1>6. CASE ProductAnswers(read)
  <2>1. PICK w \in read.waits, offers \in {{}, Live(read.for)}, known \in BOOLEAN :
          LET known2 == read.known \/ (w = "record" /\ known)
              rows == read.rows \cup offers
          IN IF read.waits = {w} THEN ShowProduct(read, known2, rows)
             ELSE Goes(read, [read EXCEPT !.waits = @ \ {w}, !.known = known2, !.rows = rows])
    BY <1>6 DEF ProductAnswers
  <2> DEFINE known2 == read.known \/ (w = "record" /\ known)
             rows == read.rows \cup offers
             next == [read EXCEPT !.waits = @ \ {w}, !.known = known2, !.rows = rows]
  <2>2. read.place = "product"
    BY <1>6 DEF ProductAnswers
  <2>3. \A row \in rows : row.price = "live"
    <3>1. \A row \in Live(read.for) : row.price = "live"
      BY DEF Live, Row
    <3> QED
      BY <1>1, <2>1, <2>2, <3>1 DEF ReadSound
  <2>4. CASE read.waits = {w}
    <3>1. ShowProduct(read, known2, rows)
      BY <2>1, <2>4
    <3> HIDE DEF rows, known2
    <3>2. PICK result : Ends(read, result, rows)
      BY <3>1 DEF ShowProduct, OfferOf
    <3> QED
      BY <2>3, <3>2, EndsIsSound
  <2>5. CASE read.waits # {w}
    <3>1. Goes(read, next)
      BY <2>1, <2>5
    <3> HIDE DEF rows, known2
    <3>2. /\ DOMAIN next = DOMAIN read /\ next.run = read.run /\ next.for = read.for
          /\ next.place = read.place /\ next.stage = read.stage /\ next.rows = rows
      BY <1>2
    <3> HIDE DEF next
    <3>3. ReadSound(next)
      BY <1>1, <2>3, <3>2 DEF ReadSound
    <3> QED
      BY <3>1, <3>2, <3>3, GoesIsSound
  <2> QED
    BY <2>4, <2>5
<1>7. CASE ItemAnswers(read)
  <2>1. read.place \in {"compare", "wishlist"}
    BY <1>7 DEF ItemAnswers
  <2>2. PICK i \in read.waits, live \in BOOLEAN :
          LET rows == read.rows \cup (IF live THEN Live({i}) ELSE StaticRows({i}))
          IN IF read.waits = {i} THEN Ends(read, "ready", rows)
             ELSE Goes(read, [read EXCEPT !.waits = @ \ {i}, !.rows = rows])
    BY <1>7 DEF ItemAnswers
  <2> DEFINE rows == read.rows \cup (IF live THEN Live({i}) ELSE StaticRows({i}))
             next == [read EXCEPT !.waits = @ \ {i}, !.rows = rows]
  <2>3. IF read.waits = {i} THEN Ends(read, "ready", rows) ELSE Goes(read, next)
    BY <2>2
  <2> HIDE DEF rows
  <2>4. CASE read.waits = {i}
    BY <2>1, <2>3, <2>4, EndsIsSound
  <2>5. CASE read.waits # {i}
    <3>1. Goes(read, next)
      BY <2>3, <2>5
    <3>2. /\ DOMAIN next = DOMAIN read /\ next.run = read.run /\ next.for = read.for
          /\ next.place = read.place /\ next.stage = read.stage
      BY <1>2
    <3> HIDE DEF next
    <3>3. ReadSound(next)
      BY <1>1, <2>1, <3>2 DEF ReadSound
    <3> QED
      BY <3>1, <3>2, <3>3, GoesIsSound
  <2> QED
    BY <2>4, <2>5
<1> QED
  BY <1>4, <1>5, <1>6, <1>7 DEF Answer

\* Whatever starts a run, asks: a listing without a filter asks for {}.
LEMMA RunsAreSound ==
  ASSUME CatalogInv,
         \/ \E p \in Places : Open(p)
         \/ Readdress \/ Commit \/ Reload \/ BackToList
         \/ \E i \in Products : ToggleWishlist(i) \/ ToggleCompare(i) \/ ChangeComparison(i)
         \/ BuyNow
  PROVE  ReadsInv' /\ ShownInv'
<1>0. ReadsInv /\ ShownInv
  BY DEF CatalogInv
<1>1. CASE \E p \in Places : Open(p)
  <2>0. PICK p \in Places : \E a \in Asks(p) : Starts(p, a)
    BY <1>1 DEF Open
  <2>1. PICK a \in Asks(p) : Starts(p, a)
    BY <2>0
  <2>2. p \in {"home", "checkout"} => a = {}
    BY <2>1 DEF Asks
  <2> QED
    BY <1>0, <2>1, <2>2, StartsIsSound
<1>2. CASE Readdress \/ Commit
  <2>1. PICK a \in Asks("search") : Starts("search", a)
    BY <1>2 DEF Readdress, Commit
  <2> QED
    BY <1>0, <2>1, StartsIsSound
<1>3. CASE Reload
  <2>1. place \in {"category", "product", "compare"} /\ Starts(place, asked)
    BY <1>3 DEF Reload
  <2> QED
    BY <1>0, <2>1, StartsIsSound
<1>4. CASE BackToList
  <2>1. Starts("compare", ToSet(lists.compare))
    BY <1>4 DEF BackToList
  <2> QED
    BY <1>0, <2>1, StartsIsSound
<1>5. CASE \E i \in Products : ToggleWishlist(i)
  <2>1. \/ \E a : Starts("wishlist", a)
        \/ UNCHANGED <<place, asked, run, reads, phase, shown>>
    BY <1>5 DEF ToggleWishlist
  <2>2. CASE \E a : Starts("wishlist", a)
    BY <1>0, <2>2, StartsIsSound
  <2>3. CASE UNCHANGED <<place, asked, run, reads, phase, shown>>
    BY <1>0, <2>3 DEF ReadsInv, ShownInv
  <2> QED
    BY <2>1, <2>2, <2>3
<1>6. CASE \E i \in Products : ToggleCompare(i)
  BY <1>0, <1>6 DEF ToggleCompare, viewVars, ReadsInv, ShownInv
<1>7. CASE \E i \in Products : ChangeComparison(i)
  <2>1. \E a : Starts("compare", a)
    BY <1>7 DEF ChangeComparison
  <2> QED
    BY <1>0, <2>1, StartsIsSound
<1>8. CASE BuyNow
  <2>1. Starts("checkout", {})
    BY <1>8 DEF BuyNow
  <2> QED
    BY <1>0, <2>1, StartsIsSound
<1> QED
  BY <1>1, <1>2, <1>3, <1>4, <1>5, <1>6, <1>7, <1>8

\* A line keeps the bag's promise if its own price is live or it comes from
\* another page than the product's.
LEMMA LinesStayLive ==
  ASSUME NEW lines, \A line \in lines : line.from = "product" => line.price = "live",
         NEW i, NEW price, NEW from, from = "product" => price = "live"
  PROVE  \A line \in WithLine(lines, i, price, from) :
           line.from = "product" => line.price = "live"
<1> DEFINE new == [item |-> i, price |-> price, from |-> from]
<1>1. new.from = from /\ new.price = price
  OBVIOUS
<1>2. \A line \in WithLine(lines, i, price, from) : line \in lines \/ line = new
  BY DEF WithLine
<1> HIDE DEF new
<1> QED
  BY <1>1, <1>2

\* Adding to the bag, from a card, the product page, or a bundle.
LEMMA BagStaysLive ==
  ASSUME CatalogInv, [CatalogNext]_catalogVars
  PROVE  ProductLinesAreLive'
<1>0. \A line \in bagged : line.from = "product" => line.price = "live"
  BY DEF CatalogInv, ProductLinesAreLive
<1>1. ASSUME place = "product", NEW row \in shown.rows PROVE row.price = "live"
  BY <1>1 DEF CatalogInv, ShownInv
<1>2. CASE \E row \in Rows : AddFromRow(row)
  <2>1. PICK row \in Rows : AddFromRow(row)
    BY <1>2
  <2>2. place # "product" /\ bagged' = WithLine(bagged, row.item, row.price, place)
    BY <2>1 DEF AddFromRow, Listings
  <2> QED
    BY <1>0, <2>2, LinesStayLive DEF ProductLinesAreLive
<1>3. CASE AddToBag \/ BuyNow
  <2>1. PICK row \in shown.rows :
          bagged' = WithLine(bagged, row.item, row.price, "product") /\ row.price = "live"
    BY <1>1, <1>3 DEF AddToBag, BuyNow
  <2> QED
    BY <1>0, <2>1, LinesStayLive DEF ProductLinesAreLive
<1>4. CASE AddBundle
  <2>1. PICK row \in shown.rows, i \in companion :
          LET main == WithLine(bagged, row.item, row.price, "product")
          IN bagged' \in {main, WithLine(main, i, "static", "bundle")}
    BY <1>4 DEF AddBundle
  <2> DEFINE main == WithLine(bagged, row.item, row.price, "product")
  <2>2. row.price = "live"
    BY <1>1, <1>4 DEF AddBundle
  <2>3. \A line \in main : line.from = "product" => line.price = "live"
    BY <1>0, <2>2, LinesStayLive
  <2>4. bagged' = main \/ bagged' = WithLine(main, i, "static", "bundle")
    BY <2>1
  <2> HIDE DEF main
  <2>5. \A line \in WithLine(main, i, "static", "bundle") :
          line.from = "product" => line.price = "live"
    BY <2>3, LinesStayLive
  <2> QED
    BY <2>3, <2>4, <2>5 DEF ProductLinesAreLive
<1>5. CASE \E i \in Products : BundleAnswers(i)
  <2>1. PICK i \in Products : bagged' \in {bagged, WithLine(bagged, i, "live", "bundle")}
    BY <1>5 DEF BundleAnswers
  <2> QED
    BY <1>0, <2>1, LinesStayLive DEF ProductLinesAreLive
<1>6. CASE UNCHANGED bagged
  BY <1>0, <1>6 DEF ProductLinesAreLive
<1>7. ASSUME \/ \E p \in Places : Open(p)
             \/ Readdress \/ Commit \/ Reload \/ BackToList \/ CompanionAnswers
             \/ \E i \in Products : ToggleWishlist(i) \/ ToggleCompare(i) \/ ChangeComparison(i)
             \/ UNCHANGED catalogVars
      PROVE  UNCHANGED bagged
  BY <1>7 DEF Open, Readdress, Commit, Reload, BackToList, CompanionAnswers, ToggleWishlist,
              ToggleCompare, ChangeComparison, catalogVars
<1>8. ASSUME NEW read \in reads, Answer(read) PROVE UNCHANGED bagged
  BY <1>8 DEF Answer, SearchAnswers, SearchFails, ExploreAnswers, ProductAnswers, ShowProduct,
              ItemAnswers, Ends, Goes
<1> QED
  BY <1>2, <1>3, <1>4, <1>5, <1>6, <1>7, <1>8 DEF CatalogNext

LEMMA CatalogStepKeepsInv ==
  ASSUME CatalogInv, [CatalogNext]_catalogVars
  PROVE  CatalogInv'
<1>0. ReadsInv /\ ShownInv
  BY DEF CatalogInv
<1>1. ReadsInv' /\ ShownInv'
  <2>1. CASE \E read \in reads : Answer(read)
    BY <1>0, <2>1, AnswerIsSound
  <2>2. CASE \/ CompanionAnswers \/ AddToBag \/ AddBundle \/ UNCHANGED catalogVars
             \/ \E row \in Rows : AddFromRow(row)
             \/ \E i \in Products : BundleAnswers(i)
    <3>1. UNCHANGED <<place, asked, run, reads, phase, shown>>
      BY <2>2 DEF CompanionAnswers, AddToBag, AddBundle, AddFromRow, BundleAnswers, viewVars,
                  catalogVars
    <3> QED
      BY <1>0, <3>1 DEF ReadsInv, ShownInv
  <2> QED
    BY <2>1, <2>2, RunsAreSound DEF CatalogNext
<1> QED
  BY <1>1, BagStaysLive DEF CatalogInv

LEMMA CatalogInitIsSound ==
  ASSUME CatalogInit
  PROVE  CatalogInv
<1>1. /\ place = "home" /\ asked = {} /\ run = 1 /\ reads = {Read("home", {}, 1)}
      /\ shown = [for |-> {}, rows |-> StaticRows(Products)] /\ bagged = {}
  BY DEF CatalogInit
<1>2. ReadsInv
  BY <1>1, ReadIsSound DEF ReadsInv
<1> QED
  BY <1>1, <1>2 DEF CatalogInv, ShownInv, ProductLinesAreLive

LEMMA CatalogIsSound == CatalogSpec => []CatalogInv
<1>1. CatalogInit => CatalogInv
  BY CatalogInitIsSound
<1>2. CatalogInv /\ [CatalogNext]_catalogVars => CatalogInv'
  BY CatalogStepKeepsInv
<1> QED
  BY <1>1, <1>2, PTL DEF CatalogSpec

\* However many questions a page has asked and in whatever order they are
\* answered, what it shows as ready answers the last.
THEOREM PagesShowWhatTheyAsk == CatalogSpec => []ShowsWhatIsAsked
<1>1. CatalogInv => ShowsWhatIsAsked
  BY DEF CatalogInv, ShownInv, ShowsWhatIsAsked
<1> QED
  BY <1>1, CatalogIsSound, PTL

\* The product page sells at a merchant's price, never at the built-in list's.
THEOREM ProductsSellLive == CatalogSpec => []ProductLinesAreLive
<1>1. CatalogInv => ProductLinesAreLive
  BY DEF CatalogInv
<1> QED
  BY <1>1, CatalogIsSound, PTL

=============================================================================
