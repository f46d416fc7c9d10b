------------------------------ MODULE MCPages ------------------------------
(***************************************************************************)
(* The pages on which the buyer decides and pays, those on which the buyer *)
(* looks the orders up, the console's pages over the audit ledger and over *)
(* the merchant's limits, and the relays to language models.  They share   *)
(* no state, so each behaviour stays in one of the five areas.             *)
(* Three orders are recorded, on pages of two; the device saved one of     *)
(* them and one of its own.                                                *)
(***************************************************************************)
EXTENDS Consent, OrderPages, Ledger, ModelRelay, Rules

CONSTANTS o1, o2, o3, local, order, payment

MCBackends == {"gateway", "local"}
MCRecorded == <<o1, o2, o3>>
MCSaved == <<local, o1>>
MCTypes == {order, payment}

MCFilters ==
  LET all == [type |-> "anything", on |-> "anything", of |-> <<"anything", 0>>,
              starts |-> FALSE, ends |-> FALSE, limit |-> 30]
  IN  {[all EXCEPT !.limit = 3], [all EXCEPT !.ends = TRUE],
       [all EXCEPT !.type = "ORDER_CONFIRMED"], [all EXCEPT !.on = "order"],
       [all EXCEPT !.of = <<"payment", 1>>]}

MCTyped == {Limits(3, 1)}
MCPatches == {Limits(1, -1), Limits(0, 1)}

VARIABLE area

vars == <<area, consentVars, orderVars, ledgerVars, relayVars, rulesVars>>

Init ==
  /\ area \in {"approval", "orders", "ledger", "relay", "limits"}
  /\ ConsentInit /\ OrderPagesInit /\ LedgerInit /\ RelayInit /\ RulesInit
  /\ area # "orders" => place = "list" /\ ~early
  /\ area # "approval" => backend = "local"
  /\ area # "ledger" => home = "local"
  /\ area # "relay" => setup = [gemini |-> FALSE, grok |-> FALSE]
  /\ area # "limits" => ~ remote

Next ==
  \/ area = "approval" /\ ConsentNext /\ UNCHANGED <<area, orderVars, ledgerVars, relayVars, rulesVars>>
  \/ area = "orders" /\ OrderPagesNext /\ UNCHANGED <<area, consentVars, ledgerVars, relayVars, rulesVars>>
  \/ area = "ledger" /\ LedgerNext /\ UNCHANGED <<area, consentVars, orderVars, relayVars, rulesVars>>
  \/ area = "relay" /\ RelayNext /\ UNCHANGED <<area, consentVars, orderVars, ledgerVars, rulesVars>>
  \/ area = "limits" /\ RulesNext /\ UNCHANGED <<area, consentVars, orderVars, ledgerVars, relayVars>>

\* A check of the payment ends within its timeout, and timers fire.
Spec ==
  /\ Init /\ [][Next]_vars
  /\ WF_vars(area = "approval" /\ Polls
             /\ UNCHANGED <<area, orderVars, ledgerVars, relayVars, rulesVars>>)

=============================================================================
