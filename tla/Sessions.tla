------------------------------ MODULE Sessions ------------------------------
(***************************************************************************)
(* The session of one browser, shared by its tabs: the storefront's        *)
(* bootstrap and the one retry of a refused request (apps/web/src/lib/api. *)
(* ts, console/api.ts), and the doors of the merchant console (middleware. *)
(* ts, merchant/layout.tsx, console/session.ts, login/page.tsx) over the   *)
(* gateway's handlers (apps/api/routers/auth.py).                          *)
(*                                                                         *)
(* A task is one run of bootstrapSession, for a page load or for a request *)
(* that was refused.  What a tab remembers of the deployment, and a mint   *)
(* under way in it, are shared by its tasks.                               *)
(***************************************************************************)
EXTENDS Naturals, FiniteSets

CONSTANTS
  Tabs,
  Demo,      \* does the deployment mint sessions without a credential
  MaxTasks   \* bound on page loads and requests

ASSUME SessionsAssumption == Demo \in BOOLEAN /\ MaxTasks \in Nat \ {0}

VARIABLES
  cookie,   \* role of the browser's session, or "none"
  view,     \* what each tab shows
  allowed,  \* demoSessionAllowed of each tab: "unset", "yes", "no"
  minting,  \* the role a tab is minting a session for, or "none"
  tasks,    \* under way
  started   \* how many were started

sessionVars == <<cookie, view, allowed, minting, tasks, started>>

Roles == {"buyer", "admin"}

SessionsInit ==
  /\ cookie \in Roles \cup {"none"}
  /\ view = [t \in Tabs |-> "closed"]
  /\ allowed = [t \in Tabs |-> "unset"]
  /\ minting = [t \in Tabs |-> "none"]
  /\ tasks = {} /\ started = 0

Task(t, kind, need, step) ==
  [n |-> started + 1, tab |-> t, kind |-> kind, need |-> need,
   step |-> step, want |-> "buyer", retry |-> FALSE]

Begin(k) ==
  /\ started < MaxTasks
  /\ started' = started + 1
  /\ tasks' = tasks \cup {k}

Goes(k, step) == tasks' = (tasks \ {k}) \cup {[k EXCEPT !.step = step]}
Ends(k) == tasks' = tasks \ {k}

\* The provider of the store is mounted, once in the document of a tab.
LoadDocument(t) ==
  /\ view[t] = "closed"
  /\ Begin(Task(t, "mount", "none", "probe"))
  /\ view' = [view EXCEPT ![t] = "store"]
  /\ UNCHANGED <<cookie, allowed, minting>>

\* A page asks for something that needs a role.  The console's client is
\* console/api.ts, everybody's lib/api.ts.
Ask(t, kind, need) ==
  /\ view[t] # "closed" /\ (kind = "console" => view[t] = "console")
  /\ Begin(Task(t, kind, need, "send"))
  /\ UNCHANGED <<cookie, view, allowed, minting>>

Granted(need) == cookie \in {need, "admin"}

\* The headers of an answer, which the client's timer waits for: granted or
\* refused by the session the browser had.
Arrives(k) ==
  /\ k \in tasks /\ k.step = "send"
  /\ Goes(k, IF Granted(k.need) THEN "granted" ELSE "refused")
  /\ UNCHANGED <<cookie, view, allowed, minting, started>>

\* Mutated: the retried request is retried as well.
AnsweredAgain(k) ==
  /\ k \in tasks /\ k.step \in {"granted", "refused"}
  /\ IF k.step = "granted" THEN Ends(k)
     ELSE IF k.kind = "api" THEN Goes(k, "role")
     ELSE tasks' = (tasks \ {k}) \cup {[k EXCEPT !.step = "probe", !.want = "admin"]}
  /\ UNCHANGED <<cookie, view, allowed, minting, started>>

\* The body has been read as well.  A first refusal makes one client ask who
\* is signed in, the other want a merchant's session at once.
Answered(k) ==
  /\ k \in tasks /\ k.step \in {"granted", "refused"}
  /\ IF k.step = "granted" \/ k.retry THEN Ends(k)
     ELSE IF k.kind = "api" THEN Goes(k, "role")
     ELSE tasks' = (tasks \ {k}) \cup {[k EXCEPT !.step = "probe", !.want = "admin"]}
  /\ UNCHANGED <<cookie, view, allowed, minting, started>>

\* The request itself gets no answer in time, or one that cannot be read.
Unanswered(k) ==
  /\ k \in tasks /\ k.step \in {"send", "granted", "refused"}
  /\ Ends(k)
  /\ UNCHANGED <<cookie, view, allowed, minting, started>>

\* currentRole before bootstrapSession; one that fails reads as nobody.
ReadRole(k) ==
  /\ k \in tasks /\ k.step = "role"
  /\ \E role \in {cookie, "none"} :
       tasks' = (tasks \ {k}) \cup
                  {[k EXCEPT !.step = "probe",
                             !.want = IF role = "admin" THEN "admin" ELSE "buyer"]}
  /\ UNCHANGED <<cookie, view, allowed, minting, started>>

\* probeDemoSession: a gateway that answers with an error counts as one
\* that mints, one that does not answer as one that never will.
Probe(k) ==
  /\ k \in tasks /\ k.step = "probe"
  /\ \E said \in IF allowed[k.tab] # "unset" THEN {allowed[k.tab]}
                 ELSE {IF Demo THEN "yes" ELSE "no", "yes", "no"} :
       /\ allowed' = [allowed EXCEPT ![k.tab] = said]
       /\ IF said = "yes" THEN Goes(k, "existing") ELSE Ends(k)
  /\ UNCHANGED <<cookie, view, minting, started>>

\* The session is there: a request is sent once more.
Succeeds(k) ==
  IF k.kind = "mount" THEN tasks \ {k}
  ELSE (tasks \ {k}) \cup {[k EXCEPT !.step = "send", !.retry = TRUE]}

\* "Never replace a session that already exists."
LookForSession(k) ==
  /\ k \in tasks /\ k.step = "existing"
  /\ \/ /\ cookie # "none"
        /\ tasks' = Succeeds(k)
        /\ UNCHANGED minting
     \/ /\ Goes(k, "minting")  \* nobody, or the read failed
        /\ minting' = IF minting[k.tab] = "none"
                      THEN [minting EXCEPT ![k.tab] = k.want] ELSE minting
  /\ UNCHANGED <<cookie, view, allowed, started>>

\* The mint of a tab ends for every task that waits for it.
MintEnds(t) ==
  LET waiting == {k \in tasks : k.tab = t /\ k.step = "minting"}
  IN /\ minting[t] # "none"
     /\ minting' = [minting EXCEPT ![t] = "none"]
     /\ \/ /\ Demo
           /\ cookie' = minting[t]
           /\ tasks' = (tasks \ waiting) \cup
                {[k EXCEPT !.step = "send", !.retry = TRUE] :
                   k \in {w \in waiting : w.kind # "mount"}}
        \/ /\ cookie' = cookie       \* refused, or not answered
           /\ tasks' = tasks \ waiting
     /\ UNCHANGED <<view, allowed, started>>

-----------------------------------------------------------------------------
(* The console's doors *)

\* middleware.ts: the cookie's own role decides, without a request.
OpenConsole(t) ==
  /\ view[t] \in {"store", "unknown"}
  /\ view' = [view EXCEPT ![t] = CASE cookie = "admin" -> "checking"
                                   [] cookie = "buyer" -> "store"
                                   [] OTHER -> "login"]
  /\ UNCHANGED <<cookie, allowed, minting, tasks, started>>

\* useSession and the layout: only a definite answer leaves the console.
CheckSession(t) ==
  /\ view[t] = "checking"
  /\ \/ view' = [view EXCEPT ![t] = IF cookie = "admin" THEN "console" ELSE "login"]
     \/ view' = [view EXCEPT ![t] = "unknown"]
  /\ UNCHANGED <<cookie, allowed, minting, tasks, started>>

SignIn(t) ==
  /\ view[t] = "login"
  /\ cookie' = "admin"
  /\ view' = [view EXCEPT ![t] = "checking"]
  /\ UNCHANGED <<allowed, minting, tasks, started>>

\* The page forgets the principal also when the gateway did not answer.
SignOut(t) ==
  /\ view[t] = "console"
  /\ cookie' \in {"none", cookie}
  /\ view' = [view EXCEPT ![t] = "login"]
  /\ UNCHANGED <<allowed, minting, tasks, started>>

LeaveConsole(t) ==
  /\ view[t] \in {"login", "console"}
  /\ view' = [view EXCEPT ![t] = "store"]
  /\ UNCHANGED <<cookie, allowed, minting, tasks, started>>

TaskStep(k) ==
  Arrives(k) \/ Answered(k) \/ ReadRole(k) \/ Probe(k) \/ LookForSession(k) \/ Unanswered(k)

SessionsNext ==
  \/ \E t \in Tabs :
       \/ LoadDocument(t) \/ MintEnds(t)
       \/ \E kind \in {"api", "console"}, need \in Roles : Ask(t, kind, need)
       \/ OpenConsole(t) \/ CheckSession(t) \/ SignIn(t) \/ SignOut(t) \/ LeaveConsole(t)
  \/ \E k \in tasks : TaskStep(k)

\* The client aborts a request whose headers have not come (DEFAULT_TIMEOUT_
\* MS).  Nothing aborts the fetches of the bootstrap, nor the reading of a
\* body, which follows clearTimeout: of those no end is assumed.
SessionsFairness ==
  \A n \in 1 .. MaxTasks :
    WF_sessionVars(\E k \in tasks : k.n = n /\ k.step = "send" /\ TaskStep(k))

-----------------------------------------------------------------------------
(* Properties *)

\* What nothing gives up: /auth/me, /auth/console-status, /auth/demo-session
\* (lib/api.ts:244, 332, 388), and a body.
Untimed == {"role", "probe", "existing", "minting", "granted", "refused"}

\* A refused request is sent again at most once (skipAuthBootstrap, lib/api.
\* ts:222-223 and 547-549): whatever sessions come and go in other tabs, no
\* page load and no request goes round for ever.  It ends, or waits from some
\* time on for one of the answers the client has no timeout for.
RequestsEnd ==
  \A n \in 1 .. MaxTasks :
    \/ <>[](\A k \in tasks : k.n # n)
    \/ \E step \in Untimed : <>[](\E k \in tasks : k.n = n /\ k.step = step)

\* What lib/api.ts:355-361 says of bootstrapSession: a merchant's session is
\* never replaced by a shopper's.  The code reads the session and mints one
\* in two requests, and a sign-in between the two is undone.
SessionKept == [][~(cookie = "admin" /\ cookie' = "buyer")]_sessionVars

\* Every task ends.  The code does not promise it: a gateway that takes
\* /auth/me and never answers holds the request that was refused.
TasksEnd == \A n \in 1 .. MaxTasks : <>[](\A k \in tasks : k.n # n)

=============================================================================
