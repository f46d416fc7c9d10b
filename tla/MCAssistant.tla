---------------------------- MODULE MCAssistant ----------------------------
(***************************************************************************)
(* The drawer and the two pages of the assistant, which share nothing that *)
(* the properties look at: each behaviour stays in one of the two modules. *)
(***************************************************************************)
EXTENDS Assistant, AgentPages

VARIABLE area

vars == <<area, assistantVars, pagesVars>>

Init == area \in {"drawer", "pages"} /\ AssistantInit /\ AgentPagesInit

Next ==
  \/ area = "drawer" /\ AssistantNext /\ UNCHANGED <<area, pagesVars>>
  \/ area = "pages" /\ AgentPagesNext /\ UNCHANGED <<area, assistantVars>>

Spec == Init /\ [][Next]_vars /\ AssistantFairness /\ AgentPagesFairness

\* Nothing that waits in the conversation, the chat or the playground waits
\* for ever.
WaitsEnd == DrawerWaitEnds /\ PageWaitEnds

=============================================================================
