---------------------------- MODULE MCWebGateway ----------------------------
(***************************************************************************)
(* Small instances of the web tier's own back end: its payments, its       *)
(* catalogue and its campaigns.  They share no state, so each behaviour    *)
(* stays in one of the three.  Of three products two are built in, and one *)
(* of these has two offers.                                                *)
(***************************************************************************)
EXTENDS WebGateway, LocalCatalog, LocalCampaigns, TLC

CONSTANTS c1, c2, p1, p2, a1, a2

GatewaySymmetry ==
  Permutations({c1, c2}) \cup Permutations({p1, p2}) \cup Permutations({a1, a2})

MCAbout ==
  [a |-> [kind |-> "laptop", words |-> {"slim"}, gigabytes |-> {8, 128}, memory |-> 8,
          offer |-> "oa", price |-> 1, days |-> 1, stock |-> 1],
   b |-> [kind |-> "phone", words |-> {"phone"}, gigabytes |-> {128}, memory |-> 4,
          offer |-> "ob", price |-> 2, days |-> 2, stock |-> 0],
   c |-> [kind |-> "laptop", words |-> {}, gigabytes |-> {128}, memory |-> 4,
          offer |-> "oc", price |-> 0, days |-> 0, stock |-> 0]]
MCShelf == <<"b", "a">>
MCOfferIds == <<"oa", "oa2", "oc">>
MCProductOf == [oa |-> "a", oa2 |-> "a", oc |-> "c"]
MCKindSaid == [none |-> "none", phone |-> "phone", slim |-> "none", obey |-> "none"]

VARIABLE area

vars == <<area, gatewayVars, localVars, localCampaignVars>>

Init ==
  /\ area \in {"payments", "catalogue", "campaigns"}
  /\ GatewayInit /\ LocalInit /\ LocalCampaignsInit
  /\ area # "payments" => ~ liveKeys
  /\ area # "catalogue" => db = [o \in {} |-> 0]

Next ==
  \/ area = "payments" /\ GatewayNext /\ UNCHANGED <<area, localVars, localCampaignVars>>
  \/ area = "catalogue" /\ LocalNext /\ UNCHANGED <<area, gatewayVars, localCampaignVars>>
  \/ area = "campaigns" /\ LocalCampaignsNext /\ UNCHANGED <<area, gatewayVars, localVars>>

Spec == Init /\ [][Next]_vars

=============================================================================
