----------------------------- MODULE ModelRelay -----------------------------
(***************************************************************************)
(* The web application's relays to language models: the two chat routes    *)
(* and the connection test.  They share the table of callers' requests;    *)
(* nothing else of one request is seen by another, so one is followed at a *)
(* time.  A model may answer with text, with nothing, or not at all.       *)
(***************************************************************************)
EXTENDS Integers, FiniteSets, SequencesExt

CONSTANTS
  Callers,     \* the addresses requests say they come from
  ChatMax,     \* requests a chat admits in a window
  TestMax,     \* requests the connection test admits in one
  RateWindow,  \* the window's length, in ticks
  TableMax,    \* callers the table holds before it is swept
  MaxTime,     \* bound: ticks of the clock
  MaxArrivals  \* bound: requests

ASSUME RelayAssumption ==
  /\ {ChatMax, TestMax, RateWindow, TableMax} \subseteq Nat \ {0}
  /\ {MaxTime, MaxArrivals} \subseteq Nat

VARIABLES
  setup,     \* which providers the environment configures
  clock,     \* Date.now()
  hits,      \* the table: a caller's requests, as [which one, when]
  admitted,  \* history: those that were let in
  arrivals,  \* how many requests there were
  relay      \* the request that is followed

relayVars == <<setup, clock, hits, admitted, arrivals, relay>>
tableVars == <<clock, hits, admitted, arrivals>>

Routes == {"gemini", "grok", "test"}
Keys == Routes \X Callers
RateMax(key) == IF key[1] = "test" THEN TestMax ELSE ChatMax

Engine == "engine"
Catalogue == "catalogue"
Candidates == <<"gemini-2.5-flash", "gemini-2.0-flash", "gemini-1.5-flash">>
Tiers == {"gemini-3.5-flash", "gemini-3.1-flash-lite", "gemini-3.1-pro-preview"}
Models == Tiers \cup ToSet(Candidates) \cup {"configured", "custom"}

NoRelay == [at |-> "idle", route |-> "none", target |-> "none", call |-> "none", tried |-> 0,
            error |-> {}, used |-> "none", text |-> "none", notice |-> FALSE]

RelayInit ==
  /\ setup \in [gemini : BOOLEAN, grok : BOOLEAN]
  /\ clock = 0 /\ arrivals = 0
  /\ hits = [key \in {} |-> {}]
  /\ admitted = [key \in Keys |-> {}]
  /\ relay = NoRelay

TimePasses ==
  /\ clock < MaxTime
  /\ clock' = clock + 1
  /\ UNCHANGED <<setup, hits, admitted, arrivals, relay>>

-----------------------------------------------------------------------------
(* isRateLimited *)

Recent(requests) == {r \in requests : clock - r.at < RateWindow}
HitsOf(key) == IF key \in DOMAIN hits THEN Recent(hits[key]) ELSE {}

\* Mutated: a full table is emptied, which forgives everybody.
SweptAltogether(table) ==
  IF Cardinality(DOMAIN table) <= TableMax THEN table ELSE [key \in {} |-> {}]

\* A full table loses the requests that are out of every window.
Swept(table) ==
  IF Cardinality(DOMAIN table) <= TableMax THEN table
  ELSE [key \in {k \in DOMAIN table : Recent(table[k]) # {}} |-> Recent(table[key])]

ThisRequest == [n |-> arrivals, at |-> clock]

\* The request is counted whether or not it is let in.
Counted(key) ==
  LET requests == HitsOf(key) \cup {ThisRequest}
  IN  hits' = Swept([k \in DOMAIN hits \cup {key} |->
                       IF k = key THEN requests ELSE hits[k]])

Limited(key) == Cardinality(HitsOf(key)) + 1 > RateMax(key)

Arrives(key) ==
  /\ relay.at = "idle" /\ arrivals < MaxArrivals
  /\ arrivals' = arrivals + 1
  /\ Counted(key)
  /\ UNCHANGED <<setup, clock>>

\* 429, and nothing else happens.
Refuses(key) ==
  /\ Arrives(key) /\ Limited(key)
  /\ UNCHANGED <<admitted, relay>>

Admits(key, after) ==
  /\ Arrives(key) /\ ~Limited(key)
  /\ admitted' = [admitted EXCEPT ![key] = @ \cup {ThisRequest}]
  /\ relay' = after

\* Let in, and turned away for its message or its base URL.
TurnedAway(key) == Admits(key, NoRelay)

-----------------------------------------------------------------------------
(* What a relay answers *)

\* A model is asked; its name is the one the answer will bear.
Asking(r, model) == [r EXCEPT !.at = "calling", !.call = model, !.used = model]

\* Mutated: the catalogue answers under the name of the model asked last.
FromCatalogueUnnamed(r) ==
  [r EXCEPT !.at = "answered", !.text = Catalogue, !.notice = TRUE]

\* The catalogue's own answer, and the notice that says so.
FromCatalogue(r) ==
  [r EXCEPT !.at = "answered", !.text = Catalogue, !.used = Engine, !.notice = TRUE]

\* The catalogue's answer to a model's empty one: the model's name stays, and
\* only the grok route says what happened.
InPlaceOfEmpty(r) ==
  [r EXCEPT !.at = "answered", !.text = Catalogue, !.notice = r.route = "grok"]

FromModel(r) == [r EXCEPT !.at = "answered", !.text = r.call]

Gemini(target) == [NoRelay EXCEPT !.route = "gemini", !.target = target, !.used = target]
Grok(target) == [NoRelay EXCEPT !.route = "grok", !.target = target, !.used = target]

\* The model is chosen for the task; without a key the catalogue answers.
GeminiChat(key) ==
  /\ key[1] = "gemini"
  /\ \E target \in Tiers :
       Admits(key, IF setup.gemini THEN Asking(Gemini(target), target)
                   ELSE FromCatalogue(Gemini(target)))

\* The caller's own endpoint goes before the one that is configured.
GrokChat(key) ==
  /\ key[1] = "grok"
  /\ \/ Admits(key, Asking(Grok("custom"), "custom"))
     \/ setup.grok /\ Admits(key, Asking(Grok("configured"), "configured"))
     \/ ~setup.grok /\ Admits(key, FromCatalogue(Grok("configured")))

ConnectionTest(key) ==
  /\ key[1] = "test"
  /\ Admits(key, [NoRelay EXCEPT !.at = "calling", !.route = "test", !.call = "custom"])

ModelSpeaks ==
  /\ relay.at = "calling" /\ relay.route # "test"
  /\ relay' = FromModel(relay)
  /\ UNCHANGED <<setup, tableVars>>

\* The candidates are tried in turn, then the catalogue is asked.
NextCandidate(r) ==
  IF "missing" \in r.error /\ r.tried < Len(Candidates)
  THEN [Asking(r, Candidates[r.tried + 1]) EXCEPT !.tried = r.tried + 1, !.notice = TRUE]
  ELSE FromCatalogue(r)

First(r) == r.call = r.target /\ r.error = {}

\* Empty text from the model asked first is replaced; from a fallback it is
\* as good as an error.
ModelIsSilent ==
  /\ relay.at = "calling" /\ relay.route # "test"
  /\ relay' = IF First(relay) THEN InPlaceOfEmpty(relay) ELSE NextCandidate(relay)
  /\ UNCHANGED <<setup, tableVars>>

\* The first call raises an error: what its message says decides what follows.
FirstCallFails ==
  /\ relay.at = "calling" /\ relay.route = "gemini" /\ First(relay)
  /\ \E error \in (SUBSET {"quota", "missing"}) :
       LET failed == [relay EXCEPT !.error = error \cup {"raised"}]
       IN  relay' = IF "quota" \in error /\ relay.target = "gemini-3.1-pro-preview"
                    THEN [Asking(failed, "gemini-3.5-flash") EXCEPT !.notice = TRUE]
                    ELSE NextCandidate(failed)
  /\ UNCHANGED <<setup, tableVars>>

FallbackFails ==
  /\ relay.at = "calling" /\ relay.route = "gemini" /\ ~First(relay)
  /\ relay' = NextCandidate(relay)
  /\ UNCHANGED <<setup, tableVars>>

\* An error status, an endpoint out of reach or the timeout.
EndpointFails ==
  /\ relay.at = "calling" /\ relay.route = "grok"
  /\ relay' = FromCatalogue(relay)
  /\ UNCHANGED <<setup, tableVars>>

\* The timer is cleared at the headers; the body is read without one.
EndpointResponds ==
  /\ relay.at = "calling" /\ relay.route = "test"
  /\ relay' = [relay EXCEPT !.at = "body"]
  /\ UNCHANGED <<setup, tableVars>>

TestEnds ==
  /\ relay.route = "test" /\ relay.at \in {"calling", "body"}
  /\ relay' = NoRelay
  /\ UNCHANGED <<setup, tableVars>>

Delivers ==
  /\ relay.at = "answered"
  /\ relay' = NoRelay
  /\ UNCHANGED <<setup, tableVars>>

RelayNext ==
  \/ TimePasses
  \/ \E key \in Keys : \/ Refuses(key) \/ TurnedAway(key)
                       \/ GeminiChat(key) \/ GrokChat(key) \/ ConnectionTest(key)
  \/ ModelSpeaks \/ ModelIsSilent \/ FirstCallFails \/ FallbackFails
  \/ EndpointFails \/ EndpointResponds \/ TestEnds \/ Delivers

RelaySpec == RelayInit /\ [][RelayNext]_relayVars

-----------------------------------------------------------------------------
(* Properties *)

\* In no window are more requests of a caller let in than the route allows,
\* whatever was swept from the table meanwhile: isRateLimited and its sweep.
AdmittedPerWindow ==
  \A key \in Keys, t \in 0..clock :
    Cardinality({r \in admitted[key] : t <= r.at /\ r.at < t + RateWindow}) <= RateMax(key)

\* Text of a model bears that model's name, whichever of the fallbacks gave
\* it; the catalogue's text bears the engine's, but for the one that stands in
\* for the empty answer of the model asked first.
AnswersAreTheirModels ==
  relay.at = "answered" =>
    \/ relay.text \in Models /\ relay.used = relay.text
    \/ relay.text = Catalogue /\ relay.used = Engine /\ relay.notice
    \/ relay.text = Catalogue /\ First(relay) /\ relay.used = relay.target

\* Broken: whoever reads the catalogue's text is told so.
CatalogueIsSaid == relay.at = "answered" /\ relay.text = Catalogue => relay.notice

\* Broken: a caller who waits out the window of what was let in is let in.
WaitingIsEnough ==
  \A key \in Keys :
    Recent(admitted[key]) = {} => ~Limited(key)

=============================================================================
