--------------------------- MODULE AssistantProofs ---------------------------
(***************************************************************************)
(* Proofs about the assistant's drawer, for any products and prompts, and  *)
(* any number of openings, questions and clicks.                           *)
(***************************************************************************)
EXTENDS Assistant, TLAPS

-----------------------------------------------------------------------------
(* Types *)

\* A question keeps its fields while it goes from one provider to the next.
LEMMA QuestionTyped ==
  ASSUME NEW q \in AQuestion, NEW step \in {"gemini", "research", "explore"}
  PROVE  [q EXCEPT !.step = step] \in AQuestion
BY DEF AQuestion

LEMMA NewQuestionTyped ==
  ASSUME TalkTypes, NEW kind \in {"ask", "buy"}, NEW about \in Named,
         NEW step \in {"grok", "freeze"}
  PROVE  Question(kind, about, step) \in AQuestion /\ numbered + 1 \in Nat
BY DEF TalkTypes, Question, AQuestion

\* The conversation's variables keep their types.
LEMMA TalkTyped ==
  ASSUME AssistantTypeOK, AssistantNext
  PROVE  TalkTypes'
<1> USE DEF AssistantTypeOK
<1>1. ASSUME NEW product \in Products \cup {NoOne}, NEW prompt \in Prompts \cup {NoOne},
             Open(product, prompt)
      PROVE  TalkTypes'
  <2> DEFINE about == IF product = NoOne THEN drawer.product ELSE product
             ask == IF prompt = NoOne THEN drawer.prompt ELSE prompt
             told == IF about = NoOne THEN inView ELSE about
  <2>1. about \in Named /\ ask \in Prompts \cup {NoOne} /\ told \in Named
    BY DEF TalkTypes, Named
  <2>2. /\ drawer' = [open |-> TRUE, product |-> about, prompt |-> ask,
                      opened |-> drawer.opened + 1]
        /\ inView' = told
        /\ stated' = IF prompt = NoOne THEN stated ELSE [stated EXCEPT ![prompt] = @ + 1]
    BY <1>1 DEF Open
  <2>3. CASE Fires(ask)
    <3>1. /\ Asks(told) /\ consumed' = ask /\ fired' = [fired EXCEPT ![ask] = @ + 1]
      BY <1>1, <2>3 DEF Open
    <3>2. questions' \subseteq AQuestion /\ numbered' \in Nat /\ loading' \in BOOLEAN
      BY <3>1, <2>1, NewQuestionTyped DEF Asks, TalkTypes
    <3>3. fired' \in [Prompts -> Nat]
      BY <2>1, <2>3, <3>1 DEF Fires, TalkTypes
    <3> QED BY <2>1, <2>2, <3>1, <3>2, <3>3 DEF TalkTypes
  <2>4. CASE ~Fires(ask)
    <3>1. UNCHANGED <<questions, numbered, loading, consumed, fired>>
      BY <1>1, <2>4 DEF Open, Silent
    <3> QED BY <2>1, <2>2, <3>1 DEF TalkTypes
  <2> QED BY <2>3, <2>4
<1>2. CASE Close
  BY <1>2 DEF Close, TalkTypes
<1>3. CASE Ask
  <2>1. About \in Named
    BY DEF About, TalkTypes, Named
  <2> QED BY <1>3, <2>1, NewQuestionTyped DEF Ask, Asks, TalkTypes
<1>4. CASE AskLocally
  BY <1>4 DEF AskLocally, TalkTypes
<1>5. CASE AskToBuy
  <2>1. (IF About = NoOne THEN bag ELSE {About}) \subseteq Named
    BY DEF About, TalkTypes, PayTypes, Named
  <2>2. questions' \subseteq AQuestion /\ numbered' \in Nat /\ loading' \in BOOLEAN
    <3>1. CASE About = NoOne /\ bag = {}
      BY <1>5, <3>1 DEF AskToBuy, TalkTypes
    <3>2. CASE ~(About = NoOne /\ bag = {})
      <4>1. PICK target \in (IF About = NoOne THEN bag ELSE {About}) :
              questions' = questions \cup {Question("buy", target, "freeze")}
        BY <1>5, <3>2 DEF AskToBuy
      <4>2. Question("buy", target, "freeze") \in AQuestion /\ numbered + 1 \in Nat
        BY <2>1, NewQuestionTyped
      <4> QED BY <1>5, <3>2, <4>1, <4>2 DEF AskToBuy, TalkTypes
    <3> QED BY <3>1, <3>2
  <2> QED BY <1>5, <2>2 DEF AskToBuy, TalkTypes
<1>6. ASSUME NEW q \in questions, QuestionStep(q) PROVE TalkTypes'
  <2>1. q \in AQuestion
    BY DEF TalkTypes
  <2>2. CASE ModelAnswers(q)
    BY <2>2 DEF ModelAnswers, Ends, TalkTypes, Named
  <2>3. CASE ModelFails(q)
    <3>1. questions' \subseteq AQuestion /\ loading' \in BOOLEAN
      BY <2>1, <2>3, QuestionTyped DEF ModelFails, Ends, Goes, TalkTypes
    <3> QED BY <2>3, <3>1 DEF ModelFails, TalkTypes
  <2>4. CASE ExploreEnds(q)
    BY <2>4 DEF ExploreEnds, Ends, TalkTypes, Named
  <2>5. CASE FreezeLands(q)
    BY <2>5 DEF FreezeLands, Ends, TalkTypes
  <2>6. CASE FreezeFails(q)
    BY <2>6 DEF FreezeFails, Ends, TalkTypes
  <2> QED BY <1>6, <2>2, <2>3, <2>4, <2>5, <2>6 DEF QuestionStep
<1>7. ASSUME NEW c \in DOMAIN cards, Pay(c) \/ SimulateFailure(c) PROVE TalkTypes'
  BY <1>7 DEF Pay, SimulateFailure, talkVars, TalkTypes
<1>8. ASSUME NEW p \in payments, OrderAnswered(p) \/ ModalEnds(p) \/ GatewaySettles(p)
                                   \/ SettlementAnswered(p)
      PROVE  TalkTypes'
  BY <1>8 DEF OrderAnswered, ModalEnds, GatewaySettles, SettlementAnswered, talkVars, TalkTypes
<1> QED BY <1>1, <1>2, <1>3, <1>4, <1>5, <1>6, <1>7, <1>8 DEF AssistantNext

\* The outcomes of a payment's step keep the types of the tills.
LEMMA TillsTyped ==
  ASSUME PayTypes, NEW p \in payments, UNCHANGED <<clicked, liveKey>>,
         verified' \subseteq Nat \ {0},
         \/ /\ UNCHANGED <<cards, orders, bag>>
            /\ \E step \in {"modal", "verify", "settled"} : Advances(p, step)
         \/ Fails(p)
         \/ Records(p)
  PROVE  PayTypes'
<1>1. p \in Payment
  BY DEF PayTypes
<1>2. CASE /\ UNCHANGED <<cards, orders, bag>>
           /\ \E step \in {"modal", "verify", "settled"} : Advances(p, step)
  <2>1. PICK step \in {"modal", "verify", "settled"} : Advances(p, step)
    BY <1>2
  <2>2. [p EXCEPT !.step = step] \in Payment
    BY <1>1 DEF Payment
  <2> QED BY <1>2, <2>1, <2>2 DEF PayTypes, Advances
<1>3. CASE Fails(p)
  <2>1. DOMAIN cards' = DOMAIN cards /\ cards' \in [DOMAIN cards -> Card]
    BY <1>3 DEF Fails, PayTypes, Card
  <2> QED BY <1>3, <2>1 DEF Fails, PayTypes
<1>4. CASE Records(p)
  <2>1. DOMAIN cards' = DOMAIN cards /\ cards' \in [DOMAIN cards -> Card]
    <3>1. p.n \in Nat
      BY <1>1 DEF Payment
    <3>2. \A k \in DOMAIN cards :
            [cards[k] EXCEPT !.payment = p.n, !.error = FALSE] \in Card
      BY <3>1 DEF PayTypes, Card
    <3>3. cards' = [k \in DOMAIN cards |->
                      IF k = p.card THEN [cards[k] EXCEPT !.payment = p.n, !.error = FALSE]
                      ELSE cards[k]]
      BY <1>4 DEF Records, PayTypes
    <3> QED BY <3>2, <3>3 DEF PayTypes
  <2>2. <<p.card, p.n>> \in Nat \X Nat
    BY <1>1 DEF Payment
  <2> QED BY <1>4, <2>1, <2>2 DEF Records, PayTypes
<1> QED BY <1>2, <1>3, <1>4

\* The payments' variables keep their types.
LEMMA PayTyped ==
  ASSUME AssistantTypeOK, AssistantNext
  PROVE  PayTypes'
<1> USE DEF AssistantTypeOK
<1>1. ASSUME NEW product \in Products \cup {NoOne}, NEW prompt \in Prompts \cup {NoOne},
             Open(product, prompt)
      PROVE  UNCHANGED payVars
  BY <1>1 DEF Open
<1>2. Close \/ Ask \/ AskLocally \/ AskToBuy => UNCHANGED payVars
  BY DEF Close, Ask, AskLocally, AskToBuy
<1>3. ASSUME NEW q \in questions,
             ModelAnswers(q) \/ ModelFails(q) \/ ExploreEnds(q) \/ FreezeFails(q)
      PROVE  UNCHANGED payVars
  BY <1>3 DEF ModelAnswers, ModelFails, ExploreEnds, FreezeFails
<1>4. UNCHANGED payVars => PayTypes'
  BY DEF payVars, PayTypes
<1>5. ASSUME NEW q \in questions, FreezeLands(q) PROVE PayTypes'
  <2> DEFINE new == [product |-> q.about, payment |-> 0, error |-> FALSE]
  <2>1. q.n \in Nat \ {0} /\ new \in Card
    BY DEF TalkTypes, AQuestion, Card
  <2>2. cards' = [n \in DOMAIN cards \cup {q.n} |-> IF n = q.n THEN new ELSE cards[n]]
        /\ UNCHANGED <<payments, clicked, verified, liveKey, orders, bag>>
    BY <1>5 DEF FreezeLands
  <2>3. \A n \in DOMAIN cards : cards[n] \in Card
    BY DEF PayTypes
  <2>4. DOMAIN cards' = DOMAIN cards \cup {q.n} /\ cards' \in [DOMAIN cards \cup {q.n} -> Card]
    BY <2>1, <2>2, <2>3
  <2> QED BY <2>1, <2>2, <2>4 DEF PayTypes
<1>6. ASSUME NEW c \in DOMAIN cards, Pay(c) PROVE PayTypes'
  <2> DEFINE new == [n |-> clicked + 1, card |-> c,
                     step |-> IF liveKey THEN "order" ELSE "simulate"]
  <2>1. payments' = payments \cup {new} /\ clicked' = clicked + 1
        /\ UNCHANGED <<cards, verified, liveKey, orders, bag>>
    BY <1>6 DEF Pay
  <2>2. new \in Payment /\ clicked + 1 \in Nat
    BY DEF PayTypes, Payment
  <2> QED BY <2>1, <2>2 DEF PayTypes
<1>7. ASSUME NEW c \in DOMAIN cards, SimulateFailure(c) PROVE PayTypes'
  <2>1. DOMAIN cards' = DOMAIN cards /\ cards' \in [DOMAIN cards -> Card]
    BY <1>7 DEF SimulateFailure, PayTypes, Card
  <2> QED BY <1>7, <2>1 DEF SimulateFailure, PayTypes
<1>8. ASSUME NEW p \in payments, OrderAnswered(p) \/ ModalEnds(p) \/ SettlementAnswered(p)
      PROVE  PayTypes'
  <2>1. verified' \subseteq Nat \ {0} /\ UNCHANGED <<clicked, liveKey>>
    BY <1>8 DEF OrderAnswered, ModalEnds, SettlementAnswered, PayTypes
  <2> QED BY <1>8, <2>1, TillsTyped DEF OrderAnswered, ModalEnds, SettlementAnswered
<1>9. ASSUME NEW p \in payments, GatewaySettles(p) PROVE PayTypes'
  <2>1. verified' \subseteq Nat \ {0} /\ UNCHANGED <<clicked, liveKey>>
    BY <1>9 DEF GatewaySettles, PayTypes, Payment
  <2> QED BY <1>9, <2>1, TillsTyped DEF GatewaySettles
<1> QED BY <1>1, <1>2, <1>3, <1>4, <1>5, <1>6, <1>7, <1>8, <1>9
        DEF AssistantNext, QuestionStep

\* Every variable of the drawer has its type, for ever.
THEOREM AssistantTypes == AssistantSpec => []AssistantTypeOK
<1>1. AssistantInit => AssistantTypeOK
  <2> SUFFICES ASSUME AssistantInit PROVE AssistantTypeOK
    OBVIOUS
  <2>1. TalkTypes
    BY DEF AssistantInit, TalkTypes, Named
  <2>2. DOMAIN cards = {} /\ cards \in [{} -> Card]
    BY DEF AssistantInit
  <2>3. PayTypes
    BY <2>2 DEF AssistantInit, PayTypes
  <2> QED BY <2>1, <2>3 DEF AssistantTypeOK
<1>2. AssistantTypeOK /\ [AssistantNext]_assistantVars => AssistantTypeOK'
  <2>1. AssistantTypeOK /\ AssistantNext => AssistantTypeOK'
    BY TalkTyped, PayTyped DEF AssistantTypeOK
  <2>2. AssistantTypeOK /\ UNCHANGED assistantVars => AssistantTypeOK'
    BY DEF AssistantTypeOK, TalkTypes, PayTypes, assistantVars, talkVars, payVars
  <2> QED BY <2>1, <2>2
<1> QED BY <1>1, <1>2, PTL DEF AssistantSpec

-----------------------------------------------------------------------------
(* The prompts *)

\* The drawer asks the prompt of its context in the very step that sets it:
\* what the context keeps was consumed.
KeptIsConsumed == drawer.prompt # NoOne => drawer.prompt = consumed

PromptInv == KeptIsConsumed /\ AskedAsOpened

\* No opening and no reopening of the drawer breaks the invariant.
LEMMA OpenKeepsPrompts ==
  ASSUME TalkTypes, PromptInv, NEW product \in Products \cup {NoOne},
         NEW prompt \in Prompts \cup {NoOne}, Open(product, prompt)
  PROVE  PromptInv'
<1> DEFINE about == IF product = NoOne THEN drawer.product ELSE product
           ask == IF prompt = NoOne THEN drawer.prompt ELSE prompt
<1>1. /\ drawer' = [open |-> TRUE, product |-> about, prompt |-> ask,
                    opened |-> drawer.opened + 1]
      /\ stated' = IF prompt = NoOne THEN stated ELSE [stated EXCEPT ![prompt] = @ + 1]
      /\ IF Fires(ask)
         THEN consumed' = ask /\ fired' = [fired EXCEPT ![ask] = @ + 1]
         ELSE consumed' = consumed /\ fired' = fired
  BY DEF Open, Silent
<1>2. ask \in Prompts \cup {NoOne}
  BY DEF TalkTypes
<1>4. stated' \in [Prompts -> Nat]
  BY <1>1 DEF TalkTypes
<1>5. fired' \in [Prompts -> Nat]
  BY <1>1, <1>2 DEF TalkTypes, Fires
<1>6. KeptIsConsumed'
  BY <1>1 DEF KeptIsConsumed, Fires
<1>7. AskedAsOpened'
  <2> SUFFICES ASSUME NEW p \in Prompts PROVE fired'[p] <= stated'[p]
    BY DEF AskedAsOpened
  <2>1. fired[p] <= stated[p] /\ fired[p] \in Nat /\ stated[p] \in Nat
    BY DEF PromptInv, TalkTypes, AskedAsOpened
  <2>2. stated[p] <= stated'[p]
    BY <1>1, <2>1 DEF TalkTypes
  <2>3. CASE ~Fires(ask) \/ p # ask
    <3>1. fired'[p] = fired[p]
      BY <1>1, <2>3 DEF TalkTypes
    <3> QED BY <3>1, <2>1, <2>2, <1>4 DEF TalkTypes
  <2>4. CASE Fires(ask) /\ p = ask
    <3>1. prompt # NoOne /\ ask = prompt
      BY <2>4 DEF Fires, PromptInv, KeptIsConsumed
    <3>2. stated'[p] = stated[p] + 1
      BY <1>1, <3>1, <2>4 DEF TalkTypes
    <3>3. fired'[p] = fired[p] + 1
      BY <1>1, <2>4 DEF TalkTypes
    <3> QED BY <3>2, <3>3, <2>1
  <2> QED BY <2>3, <2>4
<1> QED BY <1>6, <1>7 DEF PromptInv

\* Whatever the pages and the shopper do, a prompt is asked at most as often
\* as a page opened the drawer with it.
THEOREM PromptsAreNotRepeated == AssistantSpec => []AskedAsOpened
<1>1. AssistantInit => PromptInv
  BY DEF AssistantInit, PromptInv, KeptIsConsumed, AskedAsOpened
<1>2. AssistantTypeOK /\ PromptInv /\ [AssistantNext]_assistantVars => PromptInv'
  <2> SUFFICES ASSUME AssistantTypeOK, PromptInv, [AssistantNext]_assistantVars PROVE PromptInv'
    OBVIOUS
  <2>1. ASSUME NEW product \in Products \cup {NoOne}, NEW prompt \in Prompts \cup {NoOne},
               Open(product, prompt)
        PROVE  PromptInv'
    BY <2>1, OpenKeepsPrompts DEF AssistantTypeOK
  <2>2. CASE Close
    BY <2>2 DEF Close, PromptInv, AssistantTypeOK, TalkTypes, KeptIsConsumed, AskedAsOpened
  <2>3. CASE UNCHANGED <<drawer, consumed, stated, fired>>
    BY <2>3 DEF PromptInv, KeptIsConsumed, AskedAsOpened
  <2>4. Ask \/ AskLocally \/ AskToBuy \/ UNCHANGED assistantVars
          => UNCHANGED <<drawer, consumed, stated, fired>>
    BY DEF Ask, AskLocally, AskToBuy, assistantVars, talkVars
  <2>5. ASSUME NEW q \in questions, QuestionStep(q)
        PROVE  UNCHANGED <<drawer, consumed, stated, fired>>
    BY <2>5 DEF QuestionStep, ModelAnswers, ModelFails, ExploreEnds, FreezeLands, FreezeFails
  <2>6. ASSUME NEW c \in DOMAIN cards, Pay(c) \/ SimulateFailure(c)
        PROVE  UNCHANGED <<drawer, consumed, stated, fired>>
    BY <2>6 DEF Pay, SimulateFailure, talkVars
  <2>7. ASSUME NEW p \in payments, OrderAnswered(p) \/ ModalEnds(p) \/ GatewaySettles(p)
                                     \/ SettlementAnswered(p)
        PROVE  UNCHANGED <<drawer, consumed, stated, fired>>
    BY <2>7 DEF OrderAnswered, ModalEnds, GatewaySettles, SettlementAnswered, talkVars
  <2> QED BY <2>1, <2>2, <2>3, <2>4, <2>5, <2>6, <2>7 DEF AssistantNext
<1>3. PromptInv => AskedAsOpened
  BY DEF PromptInv
<1> QED BY <1>1, <1>2, <1>3, AssistantTypes, PTL DEF AssistantSpec

-----------------------------------------------------------------------------
(* The payments *)

\* The page records an order only of an answer the gateway gave after it
\* verified.
SettledIsVerified == \A p \in payments : p.step = "settled" => p.n \in verified

PayInv == SettledIsVerified /\ OrdersAreVerified

\* Going on with a payment keeps the rest.
LEMMA AdvanceKeepsPay ==
  ASSUME PayTypes, PayInv, NEW p \in payments, NEW step \in {"modal", "verify", "settled"},
         Advances(p, step), step = "settled" => p.n \in verified',
         verified \subseteq verified', UNCHANGED <<cards, orders>>
  PROVE  PayInv'
<1> DEFINE next == [p EXCEPT !.step = step]
<1>1. next.n = p.n /\ next.step = step
  BY DEF PayTypes, Payment
<1>2. SettledIsVerified'
  BY <1>1 DEF PayInv, SettledIsVerified, Advances
<1>3. OrdersAreVerified'
  BY DEF PayInv, OrdersAreVerified
<1> QED BY <1>2, <1>3 DEF PayInv

\* A card's error says nothing of its payment.
LEMMA ErrorKeepsCards ==
  ASSUME PayTypes, OrdersAreVerified, NEW c, cards' = [cards EXCEPT ![c].error = TRUE],
         UNCHANGED <<orders, verified>>
  PROVE  OrdersAreVerified'
<1>1. DOMAIN cards' = DOMAIN cards
  BY DEF PayTypes
<1>2. \A k \in DOMAIN cards : cards'[k].payment = cards[k].payment
  BY DEF PayTypes, Card
<1> QED BY <1>1, <1>2 DEF OrdersAreVerified

\* A payment that fails leaves its error on its card.
LEMMA FailureKeepsPay ==
  ASSUME PayTypes, PayInv, NEW p \in payments, Fails(p), UNCHANGED verified
  PROVE  PayInv'
BY ErrorKeepsCards DEF PayInv, SettledIsVerified, Fails

\* A settled payment is recorded together with the card that names it.
LEMMA RecordKeepsPay ==
  ASSUME PayTypes, PayInv, NEW p \in payments, p.step = "settled", Records(p),
         UNCHANGED verified
  PROVE  PayInv'
<1>1. p.n \in verified
  BY DEF PayInv, SettledIsVerified
<1>2. DOMAIN cards' = DOMAIN cards
  BY DEF PayTypes, Records
<1>3. ASSUME NEW k \in DOMAIN cards
      PROVE  cards'[k].payment = IF k = p.card THEN p.n ELSE cards[k].payment
  BY DEF PayTypes, Records, Card
<1>4. OrdersAreVerified'
  BY <1>1, <1>2, <1>3 DEF PayInv, OrdersAreVerified, Records
<1> QED BY <1>4 DEF PayInv, SettledIsVerified, Records

\* Every order in the browser is of a payment that the gateway verified, and
\* every completed card names such an order.
THEOREM OrdersNameVerifiedPayments == AssistantSpec => []OrdersAreVerified
<1>1. AssistantInit => PayInv
  BY DEF AssistantInit, PayInv, SettledIsVerified, OrdersAreVerified
<1>2. AssistantTypeOK /\ PayInv /\ [AssistantNext]_assistantVars => PayInv'
  <2> SUFFICES ASSUME AssistantTypeOK, PayInv, [AssistantNext]_assistantVars PROVE PayInv'
    OBVIOUS
  <2> USE DEF AssistantTypeOK
  <2>1. CASE UNCHANGED payVars
    BY <2>1 DEF payVars, PayInv, SettledIsVerified, OrdersAreVerified
  <2>2. ASSUME NEW product \in Products \cup {NoOne}, NEW prompt \in Prompts \cup {NoOne},
               Open(product, prompt)
        PROVE  UNCHANGED payVars
    BY <2>2 DEF Open
  <2>3. Close \/ Ask \/ AskLocally \/ AskToBuy \/ UNCHANGED assistantVars => UNCHANGED payVars
    BY DEF Close, Ask, AskLocally, AskToBuy, assistantVars
  <2>4. ASSUME NEW q \in questions,
               ModelAnswers(q) \/ ModelFails(q) \/ ExploreEnds(q) \/ FreezeFails(q)
        PROVE  UNCHANGED payVars
    BY <2>4 DEF ModelAnswers, ModelFails, ExploreEnds, FreezeFails
  <2>5. ASSUME NEW q \in questions, FreezeLands(q) PROVE PayInv'
    <3> DEFINE new == [product |-> q.about, payment |-> 0, error |-> FALSE]
    <3>1. /\ cards' = [n \in DOMAIN cards \cup {q.n} |-> IF n = q.n THEN new ELSE cards[n]]
          /\ UNCHANGED <<payments, verified, orders>>
      BY <2>5 DEF FreezeLands
    <3>2. \A n \in DOMAIN cards' :
            \/ n \in DOMAIN cards /\ cards'[n] = cards[n]
            \/ cards'[n].payment = 0
      BY <3>1
    <3>3. OrdersAreVerified'
      BY <3>1, <3>2 DEF PayInv, OrdersAreVerified
    <3> QED BY <3>1, <3>3 DEF PayInv, SettledIsVerified
  <2>6. ASSUME NEW c \in DOMAIN cards, Pay(c) PROVE PayInv'
    BY <2>6 DEF Pay, PayInv, SettledIsVerified, OrdersAreVerified
  <2>7. ASSUME NEW c \in DOMAIN cards, SimulateFailure(c) PROVE PayInv'
    BY <2>7, ErrorKeepsCards DEF SimulateFailure, PayInv, SettledIsVerified
  <2>8. ASSUME NEW p \in payments, OrderAnswered(p) \/ ModalEnds(p) PROVE PayInv'
    BY <2>8, AdvanceKeepsPay, FailureKeepsPay DEF OrderAnswered, ModalEnds
  <2>9. ASSUME NEW p \in payments, GatewaySettles(p) PROVE PayInv'
    BY <2>9, AdvanceKeepsPay DEF GatewaySettles
  <2>10. ASSUME NEW p \in payments, SettlementAnswered(p) PROVE PayInv'
    BY <2>10, RecordKeepsPay, FailureKeepsPay DEF SettlementAnswered
  <2> QED BY <2>1, <2>2, <2>3, <2>4, <2>5, <2>6, <2>7, <2>8, <2>9, <2>10
          DEF AssistantNext, QuestionStep
<1>3. PayInv => OrdersAreVerified
  BY DEF PayInv
<1> QED BY <1>1, <1>2, <1>3, AssistantTypes, PTL DEF AssistantSpec

=============================================================================
