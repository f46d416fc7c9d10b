------------------------------ MODULE Channels ------------------------------
(***************************************************************************)
(* A merchant's connections to its stores: the channels page (merchant/    *)
(* channels/page.tsx, console/channels.ts) over the gateway's handlers     *)
(* (apps/api/routers/channels.py, services/connectors/channels.py) and the *)
(* connector the process holds for the merchant (registry.py).             *)
(*                                                                         *)
(* A job is one request being served.  It keeps the row it read; what it   *)
(* leaves unchanged is not written back, as the ORM sends changed columns  *)
(* only.  A connection that was flushed is locked until it is committed.   *)
(***************************************************************************)
EXTENDS Naturals, FiniteSets

CONSTANTS
  Stores,       \* pairs of a platform and a domain: one connection each
  Orders,
  Sizes,        \* how many products or offers a store may answer with
  MaxRequests,  \* bound on the requests of a behaviour
  MaxLoads,     \* bound on the readings of the list
  None, Seed    \* no connector of its own, the demonstration's own one

ASSUME ChannelsAssumption ==
  /\ Sizes \subseteq Nat /\ MaxRequests \in Nat /\ MaxLoads \in Nat \ {0}
  /\ None \notin Stores /\ Seed \notin Stores /\ None # Seed

VARIABLES
  rows,       \* the connections
  runs,       \* the synchronisations recorded for each
  pushed,     \* connections and orders recorded as pushed
  readable,   \* connections whose token the present key decrypts
  ownSeed,    \* is the merchant the demonstration's
  connector,  \* of the merchant, in the process
  arrived,    \* external: how often each order was made in each store
  jobs, asked,
  cards,      \* the page's copy of the connections, None while it loads or has failed
  reads,      \* readings of the list under way, with what each has read
  loads,      \* how many were started
  history,    \* the runs the page shows of each connection
  busy        \* connections whose button says "Syncing"

channelRows == <<rows, runs, pushed, readable>>
channelPage == <<cards, reads, loads, history, busy>>
channelVars == <<channelRows, ownSeed, connector, arrived, jobs, asked, channelPage>>

Absent == [status |-> "absent", products |-> 0, offers |-> 0, last |-> "never", error |-> FALSE]

ConnectorAtStart == IF ownSeed THEN Seed ELSE None
Unread == [n |-> loads + 1, copy |-> None]

ChannelsInit ==
  /\ rows = [s \in Stores |-> Absent] /\ runs = [s \in Stores |-> {}]
  /\ pushed = {} /\ readable = {}
  /\ ownSeed \in BOOLEAN /\ connector = ConnectorAtStart
  /\ arrived = [s \in Stores |-> [o \in Orders |-> 0]]
  /\ jobs = {} /\ asked = 0
  /\ cards = None /\ loads = 1 /\ reads = {[n |-> 1, copy |-> None]}
  /\ history = [s \in Stores |-> {}] /\ busy = {}

Known(s) == rows[s].status # "absent"
Locked(s) == \E k \in jobs : k.fresh /\ k.conn = s
Listed(s, status) == cards # None /\ cards[s].status = status

\* What save_connection makes of the row it found, or of none.
Saved(r) == [r EXCEPT !.status = "active", !.error = FALSE]

Request(kind, s, order, via, step, onPage) ==
  /\ asked < MaxRequests /\ asked' = asked + 1
  /\ jobs' = jobs \cup
       {[n |-> asked + 1, kind |-> kind, conn |-> s, order |-> order, via |-> via,
         fresh |-> kind = "connect", seen |-> IF kind = "connect" THEN Saved(rows[s]) ELSE rows[s],
         result |-> [status |-> "none", products |-> 0, offers |-> 0],
         step |-> step, onPage |-> onPage]}

Goes(k, becomes) == jobs' = (jobs \ {k}) \cup {becomes}
Ends(k) == jobs' = jobs \ {k}

\* The page's form, or another client of the tenant.  The connector is the
\* merchant's as soon as the row is flushed.
Connect(s, syncNow, onPage) ==
  /\ ~ Locked(s)
  /\ onPage => cards # None /\ ~ \E k \in jobs : k.kind = "connect" /\ k.onPage
  /\ Request("connect", s, None, s, IF syncNow THEN "fetch" ELSE "commit", onPage)
  /\ connector' = s
  /\ UNCHANGED <<channelRows, ownSeed, arrived, channelPage>>

\* The merchant's connector, whichever store it is of; without one, that of
\* the connection asked for, if its token can be decrypted.
Resolved(s) == IF connector = None THEN s ELSE connector
CanServe(s) == Known(s) /\ (connector = None => s \in readable)

Sync(s, onPage) ==
  /\ CanServe(s) /\ connector' = Resolved(s)
  /\ onPage => Listed(s, "active") /\ s \notin busy
  /\ Request("sync", s, None, Resolved(s), "fetch", onPage)
  /\ busy' = IF onPage THEN busy \cup {s} ELSE busy
  /\ UNCHANGED <<channelRows, ownSeed, arrived, cards, reads, loads, history>>

PushOrder(s, o) ==
  /\ CanServe(s) /\ connector' = Resolved(s)
  /\ Request("push", s, o, Resolved(s), "deliver", FALSE)
  /\ UNCHANGED <<channelRows, ownSeed, arrived, channelPage>>

\* _run_sync reads products and offers one after the other; any error of
\* either is a failed run.
FetchFails(k) ==
  /\ k \in jobs /\ k.step = "fetch"
  /\ Goes(k, [k EXCEPT !.step = "record", !.result.status = "failed"])
  /\ UNCHANGED <<channelRows, ownSeed, connector, arrived, asked, channelPage>>

Fetch(k) ==
  /\ k \in jobs /\ k.step = "fetch"
  /\ \E p, q \in Sizes :
       Goes(k, [k EXCEPT !.step = "record",
                         !.result = [status |-> "success", products |-> p, offers |-> q]])
  /\ UNCHANGED <<channelRows, ownSeed, connector, arrived, asked, channelPage>>

\* Connectors report a failed or queued push in what they return, and none
\* raises: an order may be made and its answer lost, or not be made at all.
Deliver(k) ==
  /\ k \in jobs /\ k.step = "deliver"
  /\ \/ k.via # Seed /\ arrived' = [arrived EXCEPT ![k.via][k.order] = @ + 1]
     \/ UNCHANGED arrived
  /\ Goes(k, [k EXCEPT !.step = "book"])
  /\ UNCHANGED <<channelRows, ownSeed, connector, asked, channelPage>>

\* A push recorded before is answered as a duplicate.
Book(k) ==
  /\ k \in jobs /\ k.step = "book" /\ Ends(k)
  /\ pushed' = pushed \cup {<<k.conn, k.order>>}
  /\ UNCHANGED <<rows, runs, readable, ownSeed, connector, arrived, asked, channelPage>>

StartsReading == loads < MaxLoads /\ loads' = loads + 1 /\ reads' = reads \cup {Unread}

\* A saved connection makes the page read its list again, a synchronisation
\* the history of its card alone.
PageHears(k) ==
  /\ IF k.onPage /\ k.kind = "connect" THEN StartsReading ELSE UNCHANGED <<reads, loads>>
  /\ history' = IF k.onPage /\ k.kind = "sync" THEN [history EXCEPT ![k.conn] = runs'[k.conn]]
                ELSE history
  /\ busy' = IF k.onPage /\ k.kind = "sync" THEN busy \ {k.conn} ELSE busy
  /\ UNCHANGED cards

Commit(k) ==
  /\ k \in jobs /\ k.step = "commit" /\ Ends(k)
  /\ rows' = [rows EXCEPT ![k.conn] = k.seen]
  /\ readable' = readable \cup {k.conn}
  /\ UNCHANGED <<runs, pushed, ownSeed, connector, arrived, asked>>
  /\ PageHears(k)

\* Mutated: the counts are taken from every run.
OutcomeOfAny(r, result) ==
  [r EXCEPT !.last = result.status, !.error = result.status = "failed",
            !.products = result.products, !.offers = result.offers]

\* record_sync: the outcome goes onto the connection, the counts of a clean
\* run only.
Outcome(r, result) ==
  LET Counted(c) == IF result.status = "success" THEN result[c] ELSE r[c]
  IN [status |-> r.status, last |-> result.status, error |-> result.status = "failed",
      products |-> Counted("products"), offers |-> Counted("offers")]

\* The columns that differ from the row that was read.
Flushed(now, seen, new) ==
  [c \in DOMAIN now |-> IF new[c] = seen[c] THEN now[c] ELSE new[c]]

Record(k) ==
  /\ k \in jobs /\ k.step = "record" /\ Ends(k)
  /\ k.fresh \/ ~ Locked(k.conn)
  /\ LET now == IF k.fresh THEN k.seen ELSE rows[k.conn]
     IN rows' = [rows EXCEPT ![k.conn] = Flushed(now, k.seen, Outcome(k.seen, k.result))]
  /\ runs' = [runs EXCEPT ![k.conn] = @ \cup
       {[n |-> k.n, status |-> k.result.status,
         products |-> k.result.products, offers |-> k.result.offers]}]
  /\ readable' = IF k.fresh THEN readable \cup {k.conn} ELSE readable
  /\ UNCHANGED <<pushed, ownSeed, connector, arrived, asked>>
  /\ PageHears(k)

\* The transaction does not commit: rows as they were, the connector kept.
RollsBack(k) ==
  /\ k \in jobs /\ k.step \in {"commit", "record", "book"} /\ Ends(k)
  /\ busy' = IF k.onPage THEN busy \ {k.conn} ELSE busy
  /\ UNCHANGED <<channelRows, ownSeed, connector, arrived, asked, cards, reads, loads, history>>

\* The page no longer waits for these, which go on at the gateway.
Leaves(gone) ==
  /\ jobs' = (jobs \ gone) \cup {[k EXCEPT !.onPage = FALSE] : k \in gone}
  /\ busy' = busy \ {k.conn : k \in gone}

TimesOut(k) ==
  /\ k \in jobs /\ k.onPage
  /\ Leaves({k})
  /\ UNCHANGED <<channelRows, ownSeed, connector, arrived, asked, cards, reads, loads, history>>

\* The row stays, and so does the connector.
Disconnect(s, onPage) ==
  /\ Known(s) /\ ~ Locked(s)
  /\ asked < MaxRequests /\ asked' = asked + 1
  /\ rows' = [rows EXCEPT ![s].status = "disabled"]
  /\ IF onPage THEN Listed(s, "active") /\ StartsReading ELSE UNCHANGED <<reads, loads>>
  /\ UNCHANGED <<runs, pushed, readable, ownSeed, connector, arrived, jobs, cards, history, busy>>

\* The gateway reads the list; the page gets it later.  A card that appears
\* reads its history.
ListRead(r) ==
  /\ r \in reads /\ r.copy = None
  /\ reads' = (reads \ {r}) \cup {[r EXCEPT !.copy = rows]}
  /\ UNCHANGED <<channelRows, ownSeed, connector, arrived, jobs, asked, cards, loads, history, busy>>

ListShown(r) ==
  /\ r \in reads /\ r.copy # None /\ reads' = reads \ {r}
  /\ cards' = r.copy
  /\ history' = [s \in Stores |-> IF Listed(s, "active") \/ cards'[s].status # "active"
                                  THEN history[s] ELSE runs[s]]
  /\ Leaves({k \in jobs : k.kind = "sync" /\ k.onPage /\ cards'[k.conn].status # "active"})
  /\ UNCHANGED <<channelRows, ownSeed, connector, arrived, asked, loads>>

\* An error takes every card from the page.
ListFails(r) ==
  /\ r \in reads /\ reads' = reads \ {r}
  /\ cards' = None
  /\ Leaves({k \in jobs : k.kind = "sync" /\ k.onPage})
  /\ UNCHANGED <<channelRows, ownSeed, connector, arrived, asked, loads, history>>

\* The page is opened again, or "Try again" pressed.
Reload ==
  /\ loads < MaxLoads /\ loads' = loads + 1 /\ reads' = {Unread}
  /\ cards' = None /\ history' = [s \in Stores |-> {}]
  /\ Leaves({k \in jobs : k.onPage})
  /\ UNCHANGED <<channelRows, ownSeed, connector, arrived, asked>>

\* rehydrate loads the active connections it can decrypt, over one another.
Rehydrated == {s \in Stores : rows[s].status = "active" /\ s \in readable'}

Restart(sameKey) ==
  /\ readable' = IF sameKey THEN readable ELSE {}
  /\ connector' \in IF Rehydrated = {} THEN {ConnectorAtStart} ELSE Rehydrated
  /\ jobs' = {} /\ busy' = {}
  /\ UNCHANGED <<rows, runs, pushed, ownSeed, arrived, asked, cards, reads, loads, history>>

ChannelsNext ==
  \/ \E s \in Stores, onPage \in BOOLEAN :
       \/ \E syncNow \in BOOLEAN : Connect(s, syncNow, onPage)
       \/ Sync(s, onPage) \/ Disconnect(s, onPage)
       \/ \E o \in Orders : PushOrder(s, o)
  \/ \E k \in jobs : \/ FetchFails(k) \/ Fetch(k) \/ Deliver(k) \/ Book(k)
                     \/ Commit(k) \/ Record(k) \/ RollsBack(k) \/ TimesOut(k)
  \/ \E r \in reads : ListRead(r) \/ ListShown(r) \/ ListFails(r)
  \/ Reload
  \/ \E sameKey \in BOOLEAN : Restart(sameKey)

ChannelsSpec == ChannelsInit /\ [][ChannelsNext]_channelVars

-----------------------------------------------------------------------------
CleanRuns(s) == {r \in runs[s] : r.status = "success"}
Clean(s, count) == IF CleanRuns(s) = {} THEN {0} ELSE {r[count] : r \in CleanRuns(s)}

\* Safety.  Each count of a connection is that of a clean run of it, and zero
\* only before the first: no failed run, and no run that had read the row
\* before another was recorded, leaves anything else (record_sync in
\* services/connectors/channels.py; "a failed run never overwrites a real
\* count", merchant/channels/page.tsx).
CountsAreOfCleanRuns ==
  \A s \in Stores : /\ rows[s].products \in Clean(s, "products")
                    /\ rows[s].offers \in Clean(s, "offers")

\* By hand, violated: a merchant with two stores synchronises one through the
\* connector of the other (registry.py keeps one per merchant).
SyncsItsOwnStore == \A k \in jobs : k.kind = "sync" => k.via = k.conn

\* By hand, violated: the second push reaches the store before the record of
\* the first is looked at ("Refuses to push the same order twice",
\* apps/api/routers/channels.py).
PushedOnce == \A s \in Stores, o \in Orders : arrived[s][o] <= 1

\* By hand, violated: a failed or queued push is recorded as a success.
BookedHasArrived == \A b \in pushed : arrived[b[1]][b[2]] >= 1

\* By hand, violated: a disconnected store is synchronised on request, and
\* its connector goes on serving the merchant's other stores.
DisabledIsLeftAlone ==
  [][\A k \in jobs' \ jobs : k.kind = "sync" => rows[k.conn].status = "active"]_channelVars

\* By hand, violated: a failure recorded after the row was read stays on it
\* under the badge of a clean run.
ErrorIsOfAFailure == \A s \in Stores : rows[s].error => rows[s].last = "failed"

\* By hand, violated: reconnecting clears the error and leaves the badge
\* ("so the console cannot show a stale success badge", channels.py).
BadgeIsCleared ==
  [][\A k \in jobs : Commit(k) => rows'[k.conn].last = "never"]_channelVars

\* By hand, violated: the history shows a failed run whose reason is not
\* "shown on the connection above" (page.tsx), as the list is not read again.
ReasonIsShown ==
  \A s \in Stores : Listed(s, "active") /\ s \notin busy =>
    \A r \in history[s] :
      r.status = "failed" /\ (\A q \in history[s] : q.n <= r.n) => cards[s].error
=============================================================================
