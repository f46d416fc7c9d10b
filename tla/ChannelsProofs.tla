--------------------------- MODULE ChannelsProofs ---------------------------
(***************************************************************************)
(* A connection's counts are those of clean runs of it, for any number of  *)
(* stores, overlapping requests, lost answers, rollbacks and restarts.     *)
(***************************************************************************)
EXTENDS Channels, TLAPS

Counts == {"products", "offers"}
Row == [status : {"absent", "active", "disabled"}, products : Nat, offers : Nat,
        last : {"never", "success", "failed"}, error : BOOLEAN]
Result == [status : {"none", "success", "failed"}, products : Nat, offers : Nat]
Job == [n : Nat, kind : {"connect", "sync", "push"}, conn : Stores, order : Orders \cup {None},
        via : Stores \cup {None, Seed}, fresh : BOOLEAN, seen : Row, result : Result,
        step : {"fetch", "commit", "record", "deliver", "book"}, onPage : BOOLEAN]

\* The types, of what the counts depend on, and what a run to be recorded
\* has ended as.
Types == /\ rows \in [Stores -> Row] /\ DOMAIN runs = Stores
         /\ connector \in Stores \cup {None, Seed} /\ asked \in Nat
         /\ jobs \subseteq Job
         /\ \A k \in jobs : k.step = "record" => k.result.status # "none"

\* What a request read is of a clean run too, or from before the first.
Earlier(s, row) == /\ row.products = 0 \/ row.products \in Clean(s, "products")
                   /\ row.offers = 0 \/ row.offers \in Clean(s, "offers")
SeenAreOfCleanRuns == \A k \in jobs : Earlier(k.conn, k.seen)


\* A row that was flushed and not committed is held by one request, and its
\* counts are still those of the table.
Held == \A k \in jobs :
          /\ k.step = "commit" => k.fresh
          /\ k.fresh => /\ k.seen.products = rows[k.conn].products
                        /\ k.seen.offers = rows[k.conn].offers
                        /\ \A l \in jobs : l.fresh /\ l.conn = k.conn => l = k

ChannelsInv == Types /\ CountsAreOfCleanRuns /\ SeenAreOfCleanRuns /\ Held

LEMMA FlushedIsARow ==
  ASSUME NEW now \in Row, NEW seen \in Row, NEW new \in Row
  PROVE  /\ Flushed(now, seen, new) \in Row
         /\ Flushed(now, seen, new).products =
              IF new.products = seen.products THEN now.products ELSE new.products
         /\ Flushed(now, seen, new).offers =
              IF new.offers = seen.offers THEN now.offers ELSE new.offers
BY DEF Flushed, Row

LEMMA OutcomeIsARow ==
  ASSUME NEW r \in Row, NEW x \in Result, x.status # "none"
  PROVE  /\ Outcome(r, x) \in Row
         /\ Outcome(r, x).products = IF x.status = "success" THEN x.products ELSE r.products
         /\ Outcome(r, x).offers = IF x.status = "success" THEN x.offers ELSE r.offers
BY DEF Outcome, Row, Result

LEMMA InitInv == ChannelsInit => ChannelsInv
BY ChannelsAssumption
DEF ChannelsInit, ChannelsInv, Types, CountsAreOfCleanRuns, SeenAreOfCleanRuns, Held, Clean,
    CleanRuns, Absent, Row, ConnectorAtStart

\* What no run and no row disturbs.
LEMMA CleanStays ==
  ASSUME UNCHANGED runs
  PROVE  \A s \in Stores : /\ Clean(s, "products")' = Clean(s, "products")
                           /\ Clean(s, "offers")' = Clean(s, "offers")
BY DEF Clean, CleanRuns

\* A new request reads the row as it is.
LEMMA RequestKeepsInv ==
  ASSUME ChannelsInv, NEW s \in Stores, NEW kind \in {"connect", "sync", "push"},
         NEW order \in Orders \cup {None}, NEW via \in Stores \cup {None, Seed},
         NEW step \in {"fetch", "commit", "deliver"}, NEW onPage \in BOOLEAN,
         Request(kind, s, order, via, step, onPage), kind = "connect" => ~ Locked(s),
         step = "commit" => kind = "connect",
         UNCHANGED <<rows, runs>>, connector' \in Stores \cup {None, Seed}
  PROVE  ChannelsInv'
<1> DEFINE seen == IF kind = "connect" THEN Saved(rows[s]) ELSE rows[s]
           new == [n |-> asked + 1, kind |-> kind, conn |-> s, order |-> order, via |-> via,
                   fresh |-> kind = "connect", seen |-> seen,
                   result |-> [status |-> "none", products |-> 0, offers |-> 0],
                   step |-> step, onPage |-> onPage]
<1>1. jobs' = jobs \cup {new} /\ asked' = asked + 1
  BY DEF Request
<1>2. /\ seen \in Row /\ seen.products = rows[s].products /\ seen.offers = rows[s].offers
  BY DEF ChannelsInv, Types, Row, Saved
<1> HIDE DEF seen
<1>3. /\ new \in Job /\ new.seen = seen /\ new.conn = s /\ new.step = step
      /\ new.fresh = (kind = "connect")
  BY <1>2 DEF ChannelsInv, Types, Job, Result
<1> HIDE DEF new
<1>4. Types'
  BY <1>1, <1>3 DEF ChannelsInv, Types
<1>5. CountsAreOfCleanRuns'
  BY CleanStays DEF ChannelsInv, CountsAreOfCleanRuns
<1>7. SeenAreOfCleanRuns'
  <2> SUFFICES ASSUME NEW k \in jobs' PROVE Earlier(k.conn, k.seen)'
    BY DEF SeenAreOfCleanRuns
  <2>1. CASE k \in jobs
    BY <2>1, CleanStays DEF ChannelsInv, SeenAreOfCleanRuns, Earlier, Types, Job
  <2>2. CASE k = new
    BY <1>2, <1>3, <2>2, CleanStays DEF ChannelsInv, CountsAreOfCleanRuns, Earlier
  <2> QED BY <1>1, <2>1, <2>2
<1>6. Held'
  <2>1. \A l \in jobs : l.fresh /\ l.conn = s => kind # "connect"
    BY DEF Locked
  <2>2. \A l \in jobs' : l.fresh => l \in jobs \/ (l = new /\ kind = "connect")
    BY <1>1, <1>3
  <2>3. \A l \in jobs' : l.step = "commit" => l.fresh
    BY <1>1, <1>3 DEF ChannelsInv, Held
  <2>4. \A l \in jobs' : l.fresh => /\ l.seen.products = rows[l.conn].products
                                   /\ l.seen.offers = rows[l.conn].offers
    BY <1>2, <1>3, <2>2 DEF ChannelsInv, Held
  <2>5. \A l, m \in jobs' : l.fresh /\ m.fresh /\ m.conn = l.conn => m = l
    BY <1>3, <2>1, <2>2 DEF ChannelsInv, Held
  <2> QED BY <2>3, <2>4, <2>5 DEF Held
<1> QED BY <1>4, <1>5, <1>6, <1>7 DEF ChannelsInv

\* Requests that end leave the others as they were.
LEMMA EndsKeepsInv ==
  ASSUME ChannelsInv, jobs' \subseteq jobs, UNCHANGED <<rows, runs, asked>>,
         connector' \in Stores \cup {None, Seed}
  PROVE  ChannelsInv'
<1>1. Types' /\ Held'
  BY DEF ChannelsInv, Types, Held
<1>2. CountsAreOfCleanRuns'
  BY CleanStays DEF ChannelsInv, CountsAreOfCleanRuns
<1>3. SeenAreOfCleanRuns'
  BY CleanStays DEF ChannelsInv, SeenAreOfCleanRuns, Earlier, Types, Job
<1> QED BY <1>1, <1>2, <1>3 DEF ChannelsInv

\* A request that moves on keeps what it read.
LEMMA GoesKeepsInv ==
  ASSUME ChannelsInv, NEW k \in jobs, NEW b \in Job, Goes(k, b),
         b.conn = k.conn, b.seen = k.seen, b.fresh = k.fresh,
         b.step = "commit" => k.step = "commit",
         b.step = "record" => b.result.status # "none",
         UNCHANGED <<rows, runs, asked, connector>>
  PROVE  ChannelsInv'
<1>1. Types'
  BY DEF ChannelsInv, Types, Goes
<1>2. CountsAreOfCleanRuns'
  BY CleanStays DEF ChannelsInv, CountsAreOfCleanRuns
<1>4. SeenAreOfCleanRuns'
  <2> SUFFICES ASSUME NEW l \in jobs' PROVE Earlier(l.conn, l.seen)'
    BY DEF SeenAreOfCleanRuns
  <2>1. PICK m \in jobs : m.conn = l.conn /\ m.seen = l.seen
    BY DEF Goes
  <2> QED BY <2>1, CleanStays DEF ChannelsInv, SeenAreOfCleanRuns, Earlier, Types, Job
<1>3. Held'
  BY DEF ChannelsInv, Held, Goes
<1> QED BY <1>1, <1>2, <1>3, <1>4 DEF ChannelsInv

\* The row is written over the one it was read from, counts as they were.
LEMMA CommitKeepsInv ==
  ASSUME ChannelsInv, NEW k \in jobs, Commit(k)
  PROVE  ChannelsInv'
<1>1. /\ k \in Job /\ k.fresh /\ k.conn \in Stores /\ k.seen \in Row
      /\ k.seen.products = rows[k.conn].products /\ k.seen.offers = rows[k.conn].offers
  BY DEF ChannelsInv, Types, Held, Commit, Job
<1>2. rows' = [rows EXCEPT ![k.conn] = k.seen] /\ jobs' = jobs \ {k}
  BY DEF Commit, Ends
<1>3. \A s \in Stores : rows'[s].products = rows[s].products /\ rows'[s].offers = rows[s].offers
  BY <1>1, <1>2 DEF ChannelsInv, Types
<1>4. UNCHANGED <<runs, asked, connector>>
  BY DEF Commit
<1>5. Types'
  BY <1>1, <1>2, <1>4 DEF ChannelsInv, Types
<1>6. CountsAreOfCleanRuns'
  BY <1>3, <1>4, CleanStays DEF ChannelsInv, CountsAreOfCleanRuns
<1>7. SeenAreOfCleanRuns'
  BY <1>2, <1>4, CleanStays DEF ChannelsInv, SeenAreOfCleanRuns, Earlier, Types, Job
<1>8. Held'
  BY <1>2, <1>3 DEF ChannelsInv, Held, Types, Job
<1> QED BY <1>5, <1>6, <1>7, <1>8 DEF ChannelsInv

LEMMA DisconnectKeepsInv ==
  ASSUME ChannelsInv, NEW s \in Stores, NEW onPage \in BOOLEAN, Disconnect(s, onPage)
  PROVE  ChannelsInv'
<1>1. /\ rows' = [rows EXCEPT ![s].status = "disabled"]
      /\ asked' = asked + 1 /\ UNCHANGED <<runs, jobs, connector>>
  BY DEF Disconnect
<1>2. rows' \in [Stores -> Row]
  BY <1>1 DEF ChannelsInv, Types, Row
<1>3. \A x \in Stores : rows'[x].products = rows[x].products /\ rows'[x].offers = rows[x].offers
  BY <1>1 DEF ChannelsInv, Types, Row
<1>4. Types'
  BY <1>1, <1>2 DEF ChannelsInv, Types
<1>5. CountsAreOfCleanRuns'
  BY <1>1, <1>3, CleanStays DEF ChannelsInv, CountsAreOfCleanRuns
<1>6. SeenAreOfCleanRuns'
  BY <1>1, CleanStays DEF ChannelsInv, SeenAreOfCleanRuns, Earlier, Types, Job
<1>7. Held'
  BY <1>1, <1>3 DEF ChannelsInv, Held, Types, Job
<1> QED BY <1>4, <1>5, <1>6, <1>7 DEF ChannelsInv

\* A run adds its counts to the clean ones, if it is clean, and to those of
\* its own connection only.
LEMMA CleanGrows ==
  ASSUME NEW s \in Stores, DOMAIN runs = Stores, NEW run,
         runs' = [runs EXCEPT ![s] = @ \cup {run}]
  PROVE  /\ \A c \in Counts : run.status = "success" =>
               /\ run[c] \in Clean(s, c)'
               /\ \A x \in Clean(s, c) : x # 0 => x \in Clean(s, c)'
               /\ CleanRuns(s) # {} => \A x \in Clean(s, c) : x \in Clean(s, c)'
         /\ \A c \in Counts : run.status # "success" => Clean(s, c)' = Clean(s, c)
         /\ \A x \in Stores \ {s}, c \in Counts : Clean(x, c)' = Clean(x, c)
<1>1. runs'[s] = runs[s] \cup {run} /\ \A x \in Stores \ {s} : runs'[x] = runs[x]
  OBVIOUS
<1>2. CASE run.status = "success"
  <2>1. CleanRuns(s)' = CleanRuns(s) \cup {run}
    BY <1>1, <1>2 DEF CleanRuns
  <2>2. \A c \in Counts : Clean(s, c)' = {r[c] : r \in CleanRuns(s) \cup {run}}
    BY <2>1 DEF Clean
  <2>3. \A x \in Stores \ {s} : CleanRuns(x)' = CleanRuns(x)
    BY <1>1 DEF CleanRuns
  <2> QED BY <1>2, <2>2, <2>3 DEF Clean
<1>3. CASE run.status # "success"
  <2>1. \A x \in Stores : CleanRuns(x)' = CleanRuns(x)
    BY <1>1, <1>3 DEF CleanRuns
  <2> QED BY <1>3, <2>1 DEF Clean
<1> QED BY <1>2, <1>3

\* The outcome of a run is written over the row as it is by then.
LEMMA RecordKeepsInv ==
  ASSUME ChannelsInv, NEW k \in jobs, Record(k)
  PROVE  ChannelsInv'
<1> DEFINE s == k.conn
           now == IF k.fresh THEN k.seen ELSE rows[s]
           new == Outcome(k.seen, k.result)
           run == [n |-> k.n, status |-> k.result.status,
                   products |-> k.result.products, offers |-> k.result.offers]
           written == Flushed(now, k.seen, new)
<1>1. /\ k \in Job /\ s \in Stores /\ k.seen \in Row /\ k.result \in Result
      /\ k.result.status # "none" /\ rows \in [Stores -> Row] /\ DOMAIN runs = Stores
  BY DEF ChannelsInv, Types, Record, Job
<1>2. /\ jobs' = jobs \ {k} /\ runs' = [runs EXCEPT ![s] = @ \cup {run}]
      /\ rows' = [rows EXCEPT ![s] = written] /\ UNCHANGED <<asked, connector>>
  BY DEF Record, Ends
<1>3. now \in Row /\ now.products = rows[s].products /\ now.offers = rows[s].offers
  BY <1>1 DEF ChannelsInv, Held
<1>4. /\ new \in Row
      /\ new.products = IF k.result.status = "success" THEN k.result.products ELSE k.seen.products
      /\ new.offers = IF k.result.status = "success" THEN k.result.offers ELSE k.seen.offers
  BY <1>1, OutcomeIsARow
<1> HIDE DEF now, new
<1>5. /\ written \in Row
      /\ written.products = IF new.products = k.seen.products THEN now.products ELSE new.products
      /\ written.offers = IF new.offers = k.seen.offers THEN now.offers ELSE new.offers
  BY <1>1, <1>3, <1>4, FlushedIsARow
<1>6. /\ run.status = k.result.status /\ run.products = k.result.products
      /\ run.offers = k.result.offers
  OBVIOUS
<1> HIDE DEF written, run
<1>7. rows' \in [Stores -> Row] /\ rows'[s] = written /\ \A x \in Stores \ {s} : rows'[x] = rows[x]
  BY <1>1, <1>2, <1>5
<1>8. Types'
  BY <1>1, <1>2, <1>7 DEF ChannelsInv, Types
<1>9. /\ rows[s].products \in Clean(s, "products") /\ rows[s].offers \in Clean(s, "offers")
      /\ Earlier(s, k.seen)
  BY <1>1 DEF ChannelsInv, CountsAreOfCleanRuns, SeenAreOfCleanRuns
<1>10. CleanRuns(s) = {} => Clean(s, "products") = {0} /\ Clean(s, "offers") = {0}
  BY DEF Clean
<1>11. /\ run.status = "success" =>
            /\ run.products \in Clean(s, "products")' /\ run.offers \in Clean(s, "offers")'
            /\ CleanRuns(s) # {} => /\ rows[s].products \in Clean(s, "products")'
                                    /\ rows[s].offers \in Clean(s, "offers")'
       /\ run.status # "success" => /\ Clean(s, "products")' = Clean(s, "products")
                                    /\ Clean(s, "offers")' = Clean(s, "offers")
       /\ \A x \in Stores \ {s} : /\ Clean(x, "products")' = Clean(x, "products")
                                  /\ Clean(x, "offers")' = Clean(x, "offers")
  BY <1>1, <1>2, <1>9, CleanGrows DEF Counts
<1>12. CountsAreOfCleanRuns'
  <2>1. CASE run.status = "success" /\ CleanRuns(s) # {}
    <3>1. written.products \in Clean(s, "products")' /\ written.offers \in Clean(s, "offers")'
      BY <1>3, <1>4, <1>5, <1>6, <1>11, <2>1
    <3> QED BY <1>7, <1>11, <3>1 DEF ChannelsInv, CountsAreOfCleanRuns
  <2>2. CASE run.status = "success" /\ CleanRuns(s) = {}
    <3>1. /\ rows[s].products = 0 /\ rows[s].offers = 0
          /\ k.seen.products = 0 /\ k.seen.offers = 0
      BY <1>9, <1>10, <2>2 DEF Earlier
    <3>2. written.products = run.products /\ written.offers = run.offers
      BY <1>3, <1>4, <1>5, <1>6, <2>2, <3>1
    <3> QED BY <1>7, <1>11, <2>2, <3>2 DEF ChannelsInv, CountsAreOfCleanRuns
  <2>3. CASE run.status # "success"
    <3>1. written.products = rows[s].products /\ written.offers = rows[s].offers
      BY <1>3, <1>4, <1>5, <1>6, <2>3
    <3> QED BY <1>7, <1>9, <1>11, <2>3, <3>1 DEF ChannelsInv, CountsAreOfCleanRuns
  <2> QED BY <2>1, <2>2, <2>3
<1>13. SeenAreOfCleanRuns'
  <2> SUFFICES ASSUME NEW l \in jobs' PROVE Earlier(l.conn, l.seen)'
    BY DEF SeenAreOfCleanRuns
  <2>1. l \in jobs /\ l.conn \in Stores /\ Earlier(l.conn, l.seen)
    BY <1>2 DEF ChannelsInv, Types, Job, SeenAreOfCleanRuns
  <2>2. CASE l.conn # s
    BY <1>1, <1>2, <2>1, <2>2, CleanGrows DEF Earlier, Counts
  <2>3. CASE l.conn = s /\ k.result.status = "success"
    BY <1>1, <1>2, <1>6, <2>1, <2>3, CleanGrows DEF Earlier, Counts
  <2>4. CASE l.conn = s /\ k.result.status # "success"
    BY <1>1, <1>2, <1>6, <2>1, <2>4, CleanGrows DEF Earlier, Counts
  <2> QED BY <2>2, <2>3, <2>4
<1>14. Held'
  <2>1. \A l \in jobs' : l \in jobs /\ l.conn \in Stores /\ (l.fresh => l.conn # s)
    BY <1>1, <1>2 DEF ChannelsInv, Held, Record, Locked, Types, Job
  <2> QED BY <1>2, <1>7, <2>1 DEF ChannelsInv, Held
<1> QED BY <1>8, <1>12, <1>13, <1>14 DEF ChannelsInv

\* A request that fetches or delivers.
LEMMA MovesKeepInv ==
  ASSUME ChannelsInv, NEW k \in jobs, FetchFails(k) \/ Fetch(k) \/ Deliver(k)
  PROVE  ChannelsInv'
<1>1. k \in Job
  BY DEF ChannelsInv, Types
<1>2. CASE FetchFails(k)
  <2> DEFINE b == [k EXCEPT !.step = "record", !.result.status = "failed"]
  <2>1. /\ b \in Job /\ b.conn = k.conn /\ b.seen = k.seen /\ b.fresh = k.fresh
        /\ b.step = "record" /\ b.result.status = "failed"
    BY <1>1 DEF Job, Result
  <2>2. Goes(k, b) /\ UNCHANGED <<rows, runs, asked, connector>>
    BY <1>2 DEF FetchFails, channelRows
  <2> HIDE DEF b
  <2> QED BY <2>1, <2>2, GoesKeepsInv
<1>3. CASE Fetch(k)
  <2>1. PICK p, q \in Sizes :
          Goes(k, [k EXCEPT !.step = "record",
                            !.result = [status |-> "success", products |-> p, offers |-> q]])
    BY <1>3 DEF Fetch
  <2> DEFINE b == [k EXCEPT !.step = "record",
                            !.result = [status |-> "success", products |-> p, offers |-> q]]
  <2>2. /\ b \in Job /\ b.conn = k.conn /\ b.seen = k.seen /\ b.fresh = k.fresh
        /\ b.step = "record" /\ b.result.status = "success"
    BY <1>1, ChannelsAssumption DEF Job, Result
  <2>3. Goes(k, b) /\ UNCHANGED <<rows, runs, asked, connector>>
    BY <1>3, <2>1 DEF Fetch, channelRows
  <2> HIDE DEF b
  <2> QED BY <2>2, <2>3, GoesKeepsInv
<1>4. CASE Deliver(k)
  <2> DEFINE b == [k EXCEPT !.step = "book"]
  <2>1. /\ b \in Job /\ b.conn = k.conn /\ b.seen = k.seen /\ b.fresh = k.fresh
        /\ b.step = "book"
    BY <1>1 DEF Job
  <2>2. Goes(k, b) /\ UNCHANGED <<rows, runs, asked, connector>>
    BY <1>4 DEF Deliver, channelRows
  <2> HIDE DEF b
  <2> QED BY <2>1, <2>2, GoesKeepsInv
<1> QED BY <1>2, <1>3, <1>4

\* Requests the page no longer waits for.
LEMMA LeavesKeepsInv ==
  ASSUME ChannelsInv, NEW gone \in SUBSET jobs, Leaves(gone),
         UNCHANGED <<rows, runs, asked, connector>>
  PROVE  ChannelsInv'
<1> DEFINE Off(k) == [k EXCEPT !.onPage = FALSE]
<1>1. \A k \in jobs : /\ Off(k) \in Job /\ Off(k).conn = k.conn /\ Off(k).seen = k.seen
                      /\ Off(k).fresh = k.fresh /\ Off(k).step = k.step
                      /\ Off(k).result = k.result
  BY DEF ChannelsInv, Types, Job
<1>2. jobs' = (jobs \ gone) \cup {Off(k) : k \in gone}
  BY DEF Leaves
<1> DEFINE Now(k) == IF k \in gone THEN Off(k) ELSE k
<1>3. /\ \A j \in jobs' : \E k \in jobs : j = Now(k)
      /\ \A k \in jobs : /\ Now(k) \in Job /\ Now(k).conn = k.conn /\ Now(k).seen = k.seen
                         /\ Now(k).fresh = k.fresh /\ Now(k).step = k.step
                         /\ Now(k).result = k.result
  <2> HIDE DEF Off
  <2> QED BY <1>1, <1>2 DEF ChannelsInv, Types
<1> HIDE DEF Now
<1>4. Types' /\ CountsAreOfCleanRuns'
  BY <1>3, CleanStays DEF ChannelsInv, Types, CountsAreOfCleanRuns
<1>5. SeenAreOfCleanRuns'
  <2> SUFFICES ASSUME NEW j \in jobs' PROVE Earlier(j.conn, j.seen)'
    BY DEF SeenAreOfCleanRuns
  <2>1. PICK k \in jobs : j.conn = k.conn /\ j.seen = k.seen
    BY <1>3
  <2> QED BY <2>1, CleanStays DEF ChannelsInv, SeenAreOfCleanRuns, Earlier, Types, Job
<1>6. Held'
  <2> SUFFICES ASSUME NEW j \in jobs'
               PROVE  /\ j.step = "commit" => j.fresh
                      /\ j.fresh => /\ j.seen.products = rows[j.conn].products
                                    /\ j.seen.offers = rows[j.conn].offers
                                    /\ \A l \in jobs' : l.fresh /\ l.conn = j.conn => l = j
    BY DEF Held
  <2>1. PICK k \in jobs : j = Now(k)
    BY <1>3
  <2>2. ASSUME NEW l \in jobs', j.fresh, l.fresh, l.conn = j.conn PROVE l = j
    <3>1. PICK m \in jobs : l = Now(m)
      BY <1>3
    <3>2. m = k
      BY <1>3, <2>1, <2>2, <3>1 DEF ChannelsInv, Held
    <3> QED BY <2>1, <3>1, <3>2
  <2> QED BY <1>3, <2>1, <2>2 DEF ChannelsInv, Held
<1> QED BY <1>4, <1>5, <1>6 DEF ChannelsInv

\* The page's own steps end no request.
LEMMA PageKeepsInv ==
  ASSUME ChannelsInv,
         \/ Reload
         \/ \E r \in reads : ListRead(r) \/ ListShown(r) \/ ListFails(r)
         \/ \E k \in jobs : TimesOut(k)
  PROVE  ChannelsInv'
<1>1. CASE Reload
  BY <1>1, LeavesKeepsInv DEF Reload, channelRows
<1>2. ASSUME NEW r \in reads, ListRead(r) PROVE ChannelsInv'
  BY <1>2, EndsKeepsInv DEF ListRead, channelRows, ChannelsInv, Types
<1>3. ASSUME NEW r \in reads, ListShown(r) PROVE ChannelsInv'
  BY <1>3, LeavesKeepsInv DEF ListShown, channelRows
<1>4. ASSUME NEW r \in reads, ListFails(r) PROVE ChannelsInv'
  BY <1>4, LeavesKeepsInv DEF ListFails, channelRows
<1>5. ASSUME NEW k \in jobs, TimesOut(k) PROVE ChannelsInv'
  BY <1>5, LeavesKeepsInv DEF TimesOut, channelRows
<1> QED BY <1>1, <1>2, <1>3, <1>4, <1>5

LEMMA RequestsKeepInv ==
  ASSUME ChannelsInv, NEW s \in Stores, NEW onPage \in BOOLEAN,
         \/ \E syncNow \in BOOLEAN : Connect(s, syncNow, onPage)
         \/ Sync(s, onPage) \/ Disconnect(s, onPage)
         \/ \E o \in Orders : PushOrder(s, o)
  PROVE  ChannelsInv'
<1>1. Resolved(s) \in Stores \cup {None, Seed}
  BY DEF Resolved, ChannelsInv, Types
<1>2. ASSUME NEW syncNow \in BOOLEAN, Connect(s, syncNow, onPage) PROVE ChannelsInv'
  <2> DEFINE step == IF syncNow THEN "fetch" ELSE "commit"
  <2>1. /\ Request("connect", s, None, s, step, onPage) /\ ~ Locked(s)
        /\ connector' = s /\ UNCHANGED <<rows, runs>>
    BY <1>2 DEF Connect, channelRows
  <2>2. step \in {"fetch", "commit", "deliver"}
    OBVIOUS
  <2> HIDE DEF step
  <2> QED BY <2>1, <2>2, RequestKeepsInv
<1>3. CASE Sync(s, onPage)
  <2>1. /\ Request("sync", s, None, Resolved(s), "fetch", onPage)
        /\ connector' = Resolved(s) /\ UNCHANGED <<rows, runs>>
    BY <1>3 DEF Sync, channelRows
  <2> QED BY <1>1, <2>1, RequestKeepsInv
<1>4. CASE Disconnect(s, onPage)
  BY <1>4, DisconnectKeepsInv
<1>5. ASSUME NEW o \in Orders, PushOrder(s, o) PROVE ChannelsInv'
  <2>1. /\ Request("push", s, o, Resolved(s), "deliver", FALSE)
        /\ connector' = Resolved(s) /\ UNCHANGED <<rows, runs>>
    BY <1>5 DEF PushOrder, channelRows
  <2> QED BY <1>1, <2>1, RequestKeepsInv
<1> QED BY <1>2, <1>3, <1>4, <1>5

\* Safety, of every behaviour: each count of a connection is that of a clean
\* run of it, and zero only before the first (record_sync).
THEOREM CountsComeFromCleanRuns == ChannelsSpec => []CountsAreOfCleanRuns
<1>1. ASSUME ChannelsInv, [ChannelsNext]_channelVars PROVE ChannelsInv'
  <2>1. ASSUME NEW s \in Stores, NEW onPage \in BOOLEAN,
               \/ \E syncNow \in BOOLEAN : Connect(s, syncNow, onPage)
               \/ Sync(s, onPage) \/ Disconnect(s, onPage)
               \/ \E o \in Orders : PushOrder(s, o)
        PROVE  ChannelsInv'
    BY <1>1, <2>1, RequestsKeepInv
  <2>2. ASSUME NEW k \in jobs, FetchFails(k) \/ Fetch(k) \/ Deliver(k)
        PROVE  ChannelsInv'
    BY <1>1, <2>2, MovesKeepInv
  <2>3. ASSUME NEW k \in jobs, Book(k) \/ RollsBack(k)
        PROVE  ChannelsInv'
    <3>1. jobs' \subseteq jobs /\ UNCHANGED <<rows, runs, asked, connector>>
      BY <2>3 DEF Book, RollsBack, Ends, channelRows
    <3> QED BY <1>1, <3>1, EndsKeepsInv DEF ChannelsInv, Types
  <2>4. ASSUME NEW k \in jobs, Commit(k) PROVE ChannelsInv'
    BY <1>1, <2>4, CommitKeepsInv
  <2>5. ASSUME NEW k \in jobs, Record(k) PROVE ChannelsInv'
    BY <1>1, <2>5, RecordKeepsInv
  <2>6. ASSUME \/ Reload
               \/ \E r \in reads : ListRead(r) \/ ListShown(r) \/ ListFails(r)
               \/ \E k \in jobs : TimesOut(k)
        PROVE  ChannelsInv'
    BY <1>1, <2>6, PageKeepsInv
  <2>7. ASSUME NEW sameKey \in BOOLEAN, Restart(sameKey) PROVE ChannelsInv'
    <3>1. /\ jobs' \subseteq jobs /\ UNCHANGED <<rows, runs, asked>>
          /\ connector' \in Stores \cup {None, Seed}
      BY <2>7 DEF Restart, Rehydrated, ConnectorAtStart
    <3> QED BY <1>1, <3>1, EndsKeepsInv
  <2>8. CASE UNCHANGED channelVars
    <3>1. UNCHANGED <<jobs, rows, runs, asked, connector>>
      BY <2>8 DEF channelVars, channelRows
    <3> QED BY <1>1, <3>1, EndsKeepsInv DEF ChannelsInv, Types
  <2> QED
    BY <1>1, <2>1, <2>2, <2>3, <2>4, <2>5, <2>6, <2>7, <2>8 DEF ChannelsNext
<1>2. ChannelsInv => CountsAreOfCleanRuns
  BY DEF ChannelsInv
<1> QED BY InitInv, <1>1, <1>2, PTL DEF ChannelsSpec
=============================================================================
