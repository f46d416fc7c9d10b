----------------------------- MODULE AgentPages -----------------------------
(***************************************************************************)
(* The page of the shopping chat (apps/web/src/app/chat/page.tsx) and the  *)
(* playground of the agent surface (apps/web/src/app/agent/playground/     *)
(* page.tsx).                                                              *)
(***************************************************************************)
EXTENDS Naturals, FiniteSets

CONSTANTS
  MaxSent,  \* bound on messages of the chat, and on its resets
  MaxRuns   \* bound on runs of the playground

ASSUME AgentPagesAssumption == MaxSent \in Nat /\ MaxRuns \in Nat

VARIABLES
  chat,       \* messages sent, the turns shown, the provider waited for
  run,        \* number and phase of the playground's run
  ledger,     \* the run whose events are shown, 0 for none, "reading"
  lookups,    \* reads of the ledger under way, by their run
  scoped,     \* the scoped attempt: its phase and the run it was made under
  document    \* phase of the capability document

chatVars == <<chat>>
playVars == <<run, ledger, lookups, scoped, document>>
pagesVars == <<chatVars, playVars>>

AgentPagesInit ==
  /\ chat = [sent |-> 0, resets |-> 0, asked |-> {}, answered |-> {}, waits |-> "no"]
  /\ run = [n |-> 0, phase |-> "idle"] /\ ledger = 0 /\ lookups = {}
  /\ scoped = [phase |-> "none", of |-> 0] /\ document = "loading"

-----------------------------------------------------------------------------
(* The chat *)

\* handleSendMessage, of the field, a starter or a follow-up.
Send ==
  /\ chat.waits = "no" /\ chat.sent < MaxSent
  /\ chat' = [chat EXCEPT !.sent = @ + 1, !.asked = @ \cup {chat.sent + 1}, !.waits = "grok"]
  /\ UNCHANGED playVars

\* An answer, or after the second provider the message of the failure, is
\* appended to whatever is shown by then.
Reply ==
  /\ chat.waits # "no"
  /\ chat' = [chat EXCEPT !.answered = @ \cup {chat.sent}, !.waits = "no"]
  /\ UNCHANGED playVars

\* The first provider fails or answers nothing.
FallBack ==
  /\ chat.waits = "grok"
  /\ chat' = [chat EXCEPT !.waits = "gemini"]
  /\ UNCHANGED playVars

\* "Reset Context" is not disabled while a message waits.
ClearHistory ==
  /\ chat.resets < MaxSent
  /\ chat' = [chat EXCEPT !.resets = @ + 1, !.asked = {}, !.answered = {}]
  /\ UNCHANGED playVars

-----------------------------------------------------------------------------
(* The playground *)

\* A run clears what the last one showed.  Its lookup of the ledger is not
\* awaited, and the next run may start while it reads.
RunExplore ==
  /\ run.phase # "running" /\ run.n < MaxRuns
  /\ run' = [n |-> run.n + 1, phase |-> "running"]
  /\ ledger' = 0 /\ scoped' = [scoped EXCEPT !.phase = IF @ = "pending" THEN @ ELSE "none"]
  /\ UNCHANGED <<chatVars, lookups, document>>

\* An answer and a refusal both are looked up.
ExploreAnswered ==
  /\ run.phase = "running"
  /\ run' = [run EXCEPT !.phase = "done"]
  /\ ledger' = 0 /\ lookups' = lookups \cup {run.n}
  /\ UNCHANGED <<chatVars, scoped, document>>

LedgerRead(n) ==
  /\ n \in lookups
  /\ lookups' = lookups \ {n} /\ ledger' = n
  /\ UNCHANGED <<chatVars, run, scoped, document>>

AttemptScoped ==
  /\ scoped.phase # "pending"
  /\ scoped' = [phase |-> "pending", of |-> run.n]
  /\ UNCHANGED <<chatVars, run, ledger, lookups, document>>

ScopedAnswered ==
  /\ scoped.phase = "pending"
  /\ scoped' = [scoped EXCEPT !.phase = "shown"]
  /\ UNCHANGED <<chatVars, run, ledger, lookups, document>>

LoadDocument ==
  /\ document = "failed" /\ document' = "loading"
  /\ UNCHANGED <<chatVars, run, ledger, lookups, scoped>>

DocumentAnswered ==
  /\ document = "loading" /\ document' \in {"shown", "failed"}
  /\ UNCHANGED <<chatVars, run, ledger, lookups, scoped>>

AgentPagesNext ==
  \/ Send \/ Reply \/ FallBack \/ ClearHistory
  \/ RunExplore \/ ExploreAnswered \/ \E n \in lookups : LedgerRead(n)
  \/ AttemptScoped \/ ScopedAnswered \/ LoadDocument \/ DocumentAnswered

\* Every request ends, by its answer or its failure.
AgentPagesFairness ==
  /\ WF_pagesVars(Reply \/ FallBack)
  /\ WF_pagesVars(ExploreAnswered)

-----------------------------------------------------------------------------
(* Properties *)

\* The chat's field comes back, and so do the playground's buttons.
PageWaitEnds ==
  /\ chat.waits # "no" ~> chat.waits = "no"
  /\ run.phase = "running" ~> run.phase # "running"

\* Every answer follows its question: the answer of a question that was
\* cleared away is appended to the new conversation.
AnswersTheirQuestion == chat.answered \subseteq chat.asked

\* The events under a run are those its request wrote: the lookup of the run
\* before may land last.
LedgerIsOfRun == ledger \in {0, run.n}

=============================================================================
