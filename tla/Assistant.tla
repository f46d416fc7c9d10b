------------------------------ MODULE Assistant ------------------------------
(***************************************************************************)
(* The shopping assistant's drawer (apps/web/src/components/               *)
(* AIAssistantDrawer.tsx): the context it is opened with, the questions    *)
(* under way, and the checkout cards that are paid inside the              *)
(* conversation.  The drawer stays mounted: a closed one goes on waiting,  *)
(* and suggestions and payment buttons stay enabled while it waits.        *)
(***************************************************************************)
EXTENDS Naturals

CONSTANTS
  Products,
  Prompts,       \* questions a page may open the drawer with
  NoOne,         \* no product, no prompt
  MaxOpens,      \* bound on openings
  MaxQuestions,  \* bound on questions asked
  MaxPays        \* bound on clicks on payment buttons

ASSUME AssistantAssumption ==
  /\ NoOne \notin Products \cup Prompts
  /\ MaxOpens \in Nat /\ MaxQuestions \in Nat /\ MaxPays \in Nat

VARIABLES
  drawer,     \* open, and the context: product, custom prompt, openings
  consumed,   \* consumedCustomPromptRef
  loading,
  inView,     \* the first of activeProductsInView
  questions,  \* handleUserSubmit under way
  numbered,   \* questions asked so far
  stated,     \* times a page named each prompt in opening the drawer
  fired,      \* times the drawer asked each prompt of itself
  cards,      \* checkouts in the conversation, numbered by their question
  payments,   \* handleInAppRazorpayPayment under way
  clicked,    \* payments started so far, which number them
  verified,   \* those the gateway verified
  liveKey,    \* is a provider's key built into the page
  orders,     \* orders recorded in the browser, as <<card, payment>>
  bag

talkVars == <<drawer, consumed, loading, inView, questions, numbered, stated, fired>>
payVars == <<cards, payments, clicked, verified, liveKey, orders, bag>>
assistantVars == <<talkVars, payVars>>

AssistantInit ==
  /\ drawer = [open |-> FALSE, product |-> NoOne, prompt |-> NoOne, opened |-> 0]
  /\ consumed = NoOne /\ loading = FALSE /\ inView = NoOne
  /\ questions = {} /\ numbered = 0
  /\ stated = [p \in Prompts |-> 0] /\ fired = [p \in Prompts |-> 0]
  /\ cards = [n \in {} |-> [product |-> NoOne, payment |-> 0, error |-> FALSE]]
  /\ payments = {} /\ clicked = 0 /\ verified = {} /\ orders = {}
  /\ bag \in {{}, Products} /\ liveKey \in BOOLEAN

-----------------------------------------------------------------------------
(* Opening the drawer *)

Question(kind, about, step) ==
  [n |-> numbered + 1, kind |-> kind, about |-> about, step |-> step]

\* handleUserSubmit for a question that is sent to the models, which it
\* tells about the product of the context or else the first in view.
Asks(about) ==
  /\ numbered < MaxQuestions
  /\ numbered' = numbered + 1
  /\ questions' = questions \cup {Question("ask", about, "grok")}
  /\ loading' = TRUE

Silent == UNCHANGED <<questions, numbered, loading>>

\* Mutated: no reference to the prompt consumed last.
FiresAlways(prompt) == prompt # NoOne

\* The drawer asks the prompt of its context unless it just did.
Fires(prompt) == prompt # NoOne /\ prompt # consumed

\* openAiDrawer merges what a page states into the context and opens, and
\* the drawer's effect runs on every change of either.  What the page left
\* out stays from an earlier opening.
Open(product, prompt) ==
  LET about == IF product = NoOne THEN drawer.product ELSE product
      ask == IF prompt = NoOne THEN drawer.prompt ELSE prompt
  IN /\ drawer.opened < MaxOpens
     /\ ~drawer.open \/ product # NoOne \/ prompt # NoOne
     /\ drawer' = [open |-> TRUE, product |-> about, prompt |-> ask,
                   opened |-> drawer.opened + 1]
     /\ inView' = IF about = NoOne THEN inView ELSE about
     /\ stated' = IF prompt = NoOne THEN stated ELSE [stated EXCEPT ![prompt] = @ + 1]
     /\ IF Fires(ask)
        THEN /\ Asks(IF about = NoOne THEN inView ELSE about)
             /\ consumed' = ask
             /\ fired' = [fired EXCEPT ![ask] = @ + 1]
        ELSE Silent /\ UNCHANGED <<consumed, fired>>
     /\ UNCHANGED payVars

Close ==
  /\ drawer.open
  /\ drawer' = [drawer EXCEPT !.open = FALSE]
  /\ UNCHANGED <<consumed, loading, inView, questions, numbered, stated, fired, payVars>>

-----------------------------------------------------------------------------
(* Questions.  Each goes on with the page as it was when it was asked. *)

About == IF drawer.product # NoOne THEN drawer.product ELSE inView

\* What is typed, and any suggestion: the field alone waits for `loading`.
Ask ==
  /\ drawer.open
  /\ Asks(About)
  /\ UNCHANGED <<drawer, consumed, inView, stated, fired, payVars>>

\* "Second one" and "cheapest" are answered from what is in view.
AskLocally ==
  /\ drawer.open /\ inView # NoOne
  /\ loading' = FALSE
  /\ UNCHANGED <<drawer, consumed, inView, questions, numbered, stated, fired, payVars>>

\* "Buy it": the product of the context, else in view, else in the bag.
AskToBuy ==
  /\ drawer.open
  /\ IF About = NoOne /\ bag = {}
     THEN loading' = FALSE /\ UNCHANGED <<questions, numbered>>
     ELSE /\ numbered < MaxQuestions
          /\ numbered' = numbered + 1
          /\ \E target \in IF About = NoOne THEN bag ELSE {About} :
               questions' = questions \cup {Question("buy", target, "freeze")}
          /\ loading' = TRUE
  /\ UNCHANGED <<drawer, consumed, inView, stated, fired, payVars>>

Ends(q) == questions' = questions \ {q} /\ loading' = FALSE
Goes(q, step) == questions' = (questions \ {q}) \cup {[q EXCEPT !.step = step]} /\ UNCHANGED loading

\* A model answers, with or without products; a research answer has none.
ModelAnswers(q) ==
  /\ q \in questions /\ q.step \in {"grok", "gemini", "research"}
  /\ Ends(q)
  /\ inView' \in IF q.step = "research" THEN {inView} ELSE Products \cup {inView}
  /\ UNCHANGED <<drawer, consumed, numbered, stated, fired, payVars>>

\* One that fails, or answers nothing, hands over to the next.  A question
\* on specifications is asked of the research endpoint; where it is about
\* no product the drawer asks which one instead.
ModelFails(q) ==
  /\ q \in questions
  /\ \/ q.step = "grok" /\ Goes(q, "gemini")
     \/ q.step = "gemini" /\ q.about # NoOne /\ Goes(q, "research")
     \/ q.step = "gemini" /\ q.about = NoOne /\ Ends(q)
     \/ q.step = "gemini" /\ Goes(q, "explore")
     \/ q.step = "research" /\ Goes(q, "explore")
  /\ UNCHANGED <<drawer, consumed, inView, numbered, stated, fired, payVars>>

\* The last resort: what it finds, nothing too, replaces what is in view.
ExploreEnds(q) ==
  /\ q \in questions /\ q.step = "explore"
  /\ Ends(q)
  /\ inView' \in Products \cup {NoOne, inView}
  /\ UNCHANGED <<drawer, consumed, numbered, stated, fired, payVars>>

\* The gateway froze a price: the conversation gets a card to pay.
FreezeLands(q) ==
  /\ q \in questions /\ q.step = "freeze"
  /\ Ends(q)
  /\ cards' = [n \in DOMAIN cards \cup {q.n} |->
                 IF n = q.n THEN [product |-> q.about, payment |-> 0, error |-> FALSE]
                 ELSE cards[n]]
  /\ UNCHANGED <<drawer, consumed, inView, numbered, stated, fired,
                 payments, clicked, verified, liveKey, orders, bag>>

\* Mutated: a freeze that fails leaves the drawer waiting.
FreezeFailsWaiting(q) ==
  /\ q \in questions /\ q.step = "freeze"
  /\ questions' = questions \ {q}
  /\ UNCHANGED <<drawer, consumed, loading, inView, numbered, stated, fired, payVars>>

FreezeFails(q) ==
  /\ q \in questions /\ q.step = "freeze"
  /\ Ends(q)
  /\ UNCHANGED <<drawer, consumed, inView, numbered, stated, fired, payVars>>

-----------------------------------------------------------------------------
(* Payments *)

\* The button stays while the card is not completed, also during a payment.
Pay(c) ==
  /\ drawer.open /\ cards[c].payment = 0 /\ clicked < MaxPays
  /\ clicked' = clicked + 1
  /\ payments' = payments \cup {[n |-> clicked + 1, card |-> c,
                                 step |-> IF liveKey THEN "order" ELSE "simulate"]}
  /\ UNCHANGED <<talkVars, cards, verified, liveKey, orders, bag>>

Advances(p, step) == payments' = (payments \ {p}) \cup {[p EXCEPT !.step = step]}

Fails(p) ==
  /\ payments' = payments \ {p}
  /\ cards' = [cards EXCEPT ![p.card].error = TRUE]
  /\ UNCHANGED <<orders, bag>>

\* recordVerifiedOrder: placeOrder records the order and empties the bag.
Records(p) ==
  /\ payments' = payments \ {p}
  /\ orders' = orders \cup {<<p.card, p.n>>}
  /\ cards' = [cards EXCEPT ![p.card].payment = p.n, ![p.card].error = FALSE]
  /\ bag' = {}

\* The provider's order was created, or not, or its script is not there.
OrderAnswered(p) ==
  /\ p \in payments /\ p.step = "order"
  /\ \/ Advances(p, "modal") /\ UNCHANGED <<cards, orders, bag>>
     \/ Fails(p)
  /\ UNCHANGED <<talkVars, clicked, verified, liveKey>>

\* The shopper pays, or dismisses; a callback may lack its signature.
ModalEnds(p) ==
  /\ p \in payments /\ p.step = "modal"
  /\ \/ Advances(p, "verify") /\ UNCHANGED <<cards, orders, bag>>
     \/ Fails(p)
  /\ UNCHANGED <<talkVars, clicked, verified, liveKey>>

\* The gateway verifies, or simulates a payment, and its answer may be lost.
GatewaySettles(p) ==
  /\ p \in payments /\ p.step \in {"simulate", "verify"}
  /\ verified' = verified \cup {p.n}
  /\ Advances(p, "settled")
  /\ UNCHANGED <<talkVars, cards, clicked, liveKey, orders, bag>>

\* Mutated: the order is recorded before the verification is awaited.
SettlementAnsweredFirst(p) ==
  /\ p \in payments /\ p.step \in {"simulate", "verify", "settled"}
  /\ Records(p) \/ Fails(p)
  /\ UNCHANGED <<talkVars, clicked, verified, liveKey>>

\* "Verify first, record after": only a verified answer makes an order.
SettlementAnswered(p) ==
  /\ p \in payments /\ p.step \in {"simulate", "verify", "settled"}
  /\ \/ p.step = "settled" /\ Records(p)
     \/ Fails(p)
  /\ UNCHANGED <<talkVars, clicked, verified, liveKey>>

\* handleSimulateFailure: the card says that the payment was blocked,
\* whether or not one is under way and whether or not the event was written.
SimulateFailure(c) ==
  /\ drawer.open /\ cards[c].payment = 0
  /\ cards' = [cards EXCEPT ![c].error = TRUE]
  /\ UNCHANGED <<talkVars, payments, clicked, verified, liveKey, orders, bag>>

QuestionStep(q) ==
  ModelAnswers(q) \/ ModelFails(q) \/ ExploreEnds(q) \/ FreezeLands(q) \/ FreezeFails(q)

AssistantNext ==
  \/ \E product \in Products \cup {NoOne}, prompt \in Prompts \cup {NoOne} :
       Open(product, prompt)
  \/ Close \/ Ask \/ AskLocally \/ AskToBuy
  \/ \E q \in questions : QuestionStep(q)
  \/ \E c \in DOMAIN cards : Pay(c) \/ SimulateFailure(c)
  \/ \E p \in payments :
       OrderAnswered(p) \/ ModalEnds(p) \/ GatewaySettles(p) \/ SettlementAnswered(p)

AssistantSpec == AssistantInit /\ [][AssistantNext]_assistantVars

\* Every request a question waits for ends, by its answer or its failure.
AssistantFairness ==
  \A n \in 1 .. MaxQuestions :
    WF_assistantVars(\E q \in questions : q.n = n /\ QuestionStep(q))

-----------------------------------------------------------------------------
(* Types *)

Named == Products \cup {NoOne}
Card == [product : Named, payment : Nat, error : BOOLEAN]
Payment == [n : Nat \ {0}, card : Nat \ {0},
            step : {"order", "modal", "verify", "simulate", "settled"}]
AQuestion == [n : Nat \ {0}, kind : {"ask", "buy"}, about : Named,
              step : {"grok", "gemini", "research", "explore", "freeze"}]

\* The two halves of the types: the conversation's and the payments'.
TalkTypes ==
  /\ drawer \in [open : BOOLEAN, product : Named,
                 prompt : Prompts \cup {NoOne}, opened : Nat]
  /\ consumed \in Prompts \cup {NoOne} /\ loading \in BOOLEAN
  /\ inView \in Named /\ questions \subseteq AQuestion
  /\ numbered \in Nat /\ stated \in [Prompts -> Nat] /\ fired \in [Prompts -> Nat]
PayTypes ==
  /\ DOMAIN cards \subseteq Nat \ {0} /\ cards \in [DOMAIN cards -> Card]
  /\ payments \subseteq Payment
  /\ clicked \in Nat /\ verified \subseteq Nat \ {0} /\ liveKey \in BOOLEAN
  /\ orders \subseteq Nat \X Nat /\ bag \subseteq Products

-----------------------------------------------------------------------------
(* Properties *)

AssistantTypeOK == TalkTypes /\ PayTypes

\* "Verify first, record after: an unverified callback never becomes an
\* order" (AIAssistantDrawer.tsx:192): with any clicks, callbacks without a
\* signature, refusals and lost answers, every order in the browser and
\* every completed card names a payment that the gateway verified.
OrdersAreVerified ==
  /\ \A o \in orders : o[2] \in verified
  /\ \A c \in DOMAIN cards : cards[c].payment # 0 => <<c, cards[c].payment>> \in orders

\* A prompt stays in the context after the drawer is closed, "so without
\* this guard every reopen re-fired the same question" (AIAssistantDrawer.
\* tsx:95-99): none is asked more often than a page opened the drawer with it.
AskedAsOpened == \A p \in Prompts : fired[p] <= stated[p]

\* The drawer does not wait for ever: every branch of handleUserSubmit, the
\* ones that fail too, resets `loading`.
DrawerWaitEnds == loading ~> ~loading

\* A question the page asks on purpose is asked (app/page.tsx:117): one that
\* was also the last is silently dropped.
PromptIsAsked ==
  [][\A p \in Prompts : stated'[p] > stated[p] => fired'[p] > fired[p]]_assistantVars

\* A card is paid once: two clicks make two orders, each paid.
CardPaidOnce == \A o, r \in orders : o[1] = r[1] => o = r

\* A purchase in the conversation is of one product and "nothing is added to
\* the bag" (AIAssistantDrawer.tsx:431-433), yet the bag is emptied.
BagSurvives ==
  [][orders' # orders => \E c \in DOMAIN cards : bag \ bag' \subseteq {cards[c].product}]_assistantVars

\* What is bought is what the conversation shows: the context keeps the
\* product of an earlier page, which goes first.
BuysWhatIsShown ==
  [][\A q \in questions' \ questions :
       q.kind = "buy" /\ q.step = "freeze" /\ inView # NoOne => q.about = inView]_assistantVars

\* A card that reports a blocked or failed payment is not paid all the same.
ErrorIsUnpaid ==
  \A c \in DOMAIN cards : cards[c].error => \A p \in payments : p.card # c \/ p.n \notin verified

=============================================================================
