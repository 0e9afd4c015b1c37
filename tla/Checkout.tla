------------------------------ MODULE Checkout ------------------------------
(***************************************************************************)
(* The checkout embed (packages/checkout/src): the reducer of logic.ts and *)
(* the flows of use-checkout.ts that mint a card, approve the token and    *)
(* subscribe, against a chain where transactions land when they do.        *)
(*                                                                         *)
(* A flow is an asynchronous function; between its awaits the buyer        *)
(* clicks, scans land, and transactions of this wallet, in the order it    *)
(* sent them, and of other buyers are mined.  Ids count from 1.            *)
(***************************************************************************)
EXTENDS Integers, Sequences, FiniteSets

CONSTANTS
    Task,           \* runs of mintAndUse and payAndSubscribe that may overlap
    MaxFlows,       \* bound: flows started
    MaxOthers,      \* bound: cards and subscriptions other buyers add
    ScanLimit,      \* CARD_SCAN_LIMIT
    None            \* undefined

ASSUME CheckoutAssumption ==
    MaxFlows \in Nat /\ MaxOthers \in Nat /\ ScanLimit \in Nat \ {0} /\ None \notin Nat

VARIABLES
    ui,             \* CheckoutState: [step, selected, subId]
    isConnected, plan,      \* the wallet is connected; a usable plan was read
    planEffect,     \* what the planLoaded effect depended on when it last ran
    busy,           \* busyRef
    task,           \* [Task -> where it is, card, id read before the write, had, transaction]
    existing,       \* existingSubIds, as the last scan found them; None before one landed
    warned,         \* subscribedWithExisting
    cards, subs,    \* the chain: owner of every card; owner and card of every subscription
    txs,            \* this wallet's transactions, in the order sent
    flows, others   \* bounds' counters

clientVars == <<ui, isConnected, plan, planEffect, busy, task, existing, warned>>
vars == <<clientVars, cards, subs, txs, flows, others>>

Step == {"connect", "loading", "pick", "minting", "approving", "subscribing", "done", "error"}

ASSUME EffectAssumption == \A p \in BOOLEAN, s \in Step : None # <<p, s>>

MintPc == {"mintRead", "mintSign", "mintReceipt"}
ApprovePc == {"approveSign", "approveReceipt"}
SubscribePc == {"subRead", "subSign", "subReceipt"}
Pc == {"idle", "allowance"} \cup MintPc \cup ApprovePc \cup SubscribePc

NoTask == [pc |-> "idle", card |-> None, id |-> None, had |-> FALSE, tx |-> None]

Init ==
    /\ ui = [step |-> "connect", selected |-> None, subId |-> None]
    /\ isConnected = FALSE /\ plan = FALSE /\ planEffect = None
    /\ busy = FALSE /\ task = [t \in Task |-> NoTask]
    /\ existing = None /\ warned = FALSE
    /\ cards = <<"me", "other">>
    /\ subs \in {<<>>, <<[owner |-> "me", card |-> 1]>>}
    /\ txs = <<>> /\ flows = 0 /\ others = 0

---------------------------------------------------------------------------
(* checkoutReducer: an action that does not fit the step changes nothing. *)

To(s, from, to) == IF s.step = from THEN [s EXCEPT !.step = to] ELSE s

Connected(s) == To(s, "connect", "loading")
PlanLoaded(s) == To(s, "loading", "pick")
Select(s, c) == IF s.step = "pick" THEN [s EXCEPT !.selected = c] ELSE s
MintStart(s) == To(s, "pick", "minting")
MintDone(s, c) == IF s.step = "minting" THEN [s EXCEPT !.step = "pick", !.selected = c] ELSE s
ApproveStart(s) == IF s.selected # None THEN To(s, "pick", "approving") ELSE s
ApproveDone(s) == To(s, "approving", "pick")
SubscribeStart(s) == IF s.selected # None THEN To(s, "pick", "subscribing") ELSE s
SubscribeDone(s, id) ==
    IF s.step = "subscribing" THEN [s EXCEPT !.step = "done", !.subId = id] ELSE s
Fail(s) == [s EXCEPT !.step = "error"]
Reset == [step |-> "pick", selected |-> None, subId |-> None]

---------------------------------------------------------------------------
(* Connecting, loading, scanning and picking. *)

chainVars == <<cards, subs, txs, others>>

\* The wallet is connected, and the effect of isConnected runs.
Connects ==
    /\ ~isConnected /\ isConnected' = TRUE
    /\ ui' = Connected(ui)
    /\ UNCHANGED <<plan, planEffect, busy, task, existing, warned, chainVars, flows>>

Disconnects ==
    /\ isConnected /\ isConnected' = FALSE
    /\ UNCHANGED <<ui, plan, planEffect, busy, task, existing, warned, chainVars, flows>>

\* getPlan and getPlanVersion have answered; needs no wallet.
PlanArrives ==
    /\ ~plan /\ plan' = TRUE
    /\ UNCHANGED <<ui, isConnected, planEffect, busy, task, existing, warned, chainVars, flows>>

\* Mutant: the effect depends on the plan alone.
DepsPlan == <<plan>>

\* What the effect that dispatches planLoaded depends on; it runs when that changed.
Deps == <<plan, ui.step>>

PlanEffect ==
    /\ planEffect # Deps /\ planEffect' = Deps
    /\ ui' = IF plan THEN PlanLoaded(ui) ELSE ui
    /\ UNCHANGED <<isConnected, plan, busy, task, existing, warned, chainVars, flows>>

\* findExistingSubs over the ScanLimit most recent subscriptions.  Its filter of active ones
\* has nothing to drop: no subscription is cancelled or expires here.
Mine == {i \in DOMAIN subs : subs[i].owner = "me"}

\* The note is shown.
Noted == existing \notin {None, {}}

Scan ==
    /\ existing' = {i \in Mine : i > Len(subs) - ScanLimit}
    /\ UNCHANGED <<ui, isConnected, plan, planEffect, busy, task, warned, chainVars, flows>>

\* A card of the buyer's is picked.
Picks(c) ==
    /\ ui.step = "pick" /\ c \in DOMAIN cards /\ cards[c] = "me"
    /\ ui' = Select(ui, c)
    /\ UNCHANGED <<isConnected, plan, planEffect, busy, task, existing, warned, chainVars, flows>>

\* The button of the error panel.
Retries ==
    /\ ui.step = "error"
    /\ ui' = Reset
    /\ UNCHANGED <<isConnected, plan, planEffect, busy, task, existing, warned, chainVars, flows>>

---------------------------------------------------------------------------
(* The flows. *)

\* Mutant: nothing guards against a second flow.
FreeAlways == TRUE

\* busyRef guards both flows.
Free == ~busy

Begin(t, r) ==
    /\ ui.step = "pick" /\ plan /\ isConnected /\ Free
    /\ task[t] = NoTask /\ flows < MaxFlows
    /\ busy' = TRUE /\ flows' = flows + 1
    /\ task' = [task EXCEPT ![t] = r]
    /\ UNCHANGED <<isConnected, plan, planEffect, existing, warned, chainVars>>

MintAndUse(t) ==
    /\ Begin(t, [NoTask EXCEPT !.pc = "mintRead"])
    /\ ui' = MintStart(ui)

PayAndSubscribe(t) ==
    /\ ui.selected # None
    /\ Begin(t, [NoTask EXCEPT !.pc = "allowance", !.card = ui.selected, !.had = Noted])
    /\ UNCHANGED ui

\* A flow goes on at its next await.
GoesOn(t, r) ==
    /\ task' = [task EXCEPT ![t] = r]
    /\ UNCHANGED <<isConnected, plan, planEffect, busy, existing, flows>>

\* A flow is over: finally.
Ends(t) ==
    /\ task' = [task EXCEPT ![t] = NoTask] /\ busy' = FALSE
    /\ UNCHANGED <<isConnected, plan, planEffect, existing, flows>>

\* The allowance covers 12 renewals, or not: charges and revocations lower it.
ReadAllowance(t, enough) ==
    /\ task[t].pc = "allowance"
    /\ GoesOn(t, [task[t] EXCEPT !.pc = IF enough THEN "subRead" ELSE "approveSign"])
    /\ ui' = IF enough THEN SubscribeStart(ui) ELSE ApproveStart(ui)
    /\ UNCHANGED <<warned, chainVars>>

\* nextCardId or nextSubId, read before the write: the id the write is taken to make.
ReadNextId(t) ==
    /\ \/ task[t].pc = "mintRead"
          /\ GoesOn(t, [task[t] EXCEPT !.pc = "mintSign", !.id = Len(cards) + 1])
       \/ task[t].pc = "subRead"
          /\ GoesOn(t, [task[t] EXCEPT !.pc = "subSign", !.id = Len(subs) + 1])
    /\ UNCHANGED <<ui, warned, chainVars>>

AfterSign == [mintSign |-> "mintReceipt", approveSign |-> "approveReceipt", subSign |-> "subReceipt"]

\* The wallet signs and sends.
Signs(t) ==
    /\ task[t].pc \in DOMAIN AfterSign /\ isConnected
    /\ txs' = Append(txs, [kind |-> task[t].pc, card |-> task[t].card, status |-> "pending", givenUp |-> FALSE])
    /\ GoesOn(t, [task[t] EXCEPT !.pc = AfterSign[@], !.tx = Len(txs) + 1])
    /\ UNCHANGED <<ui, warned, cards, subs, others>>

\* Mutant: any receipt will do.
ConfirmedMined(i) == txs[i].status # "pending"

\* awaitSuccess: a receipt that says success.
Confirmed(i) == txs[i].status = "success"

\* Mutant: the warning reads the live scan.
WarnsLive(t) == Noted

\* The snapshot of existingSubIds taken when Subscribe was clicked.
Warns(t) == task[t].had

MintConfirmed(t) ==
    /\ task[t].pc = "mintReceipt" /\ Confirmed(task[t].tx)
    /\ ui' = MintDone(ui, task[t].id)
    /\ Ends(t)
    /\ UNCHANGED <<warned, chainVars>>

ApproveConfirmed(t) ==
    /\ task[t].pc = "approveReceipt" /\ Confirmed(task[t].tx)
    /\ ui' = SubscribeStart(ApproveDone(ui))
    /\ GoesOn(t, [task[t] EXCEPT !.pc = "subRead"])
    /\ UNCHANGED <<warned, chainVars>>

SubscribeConfirmed(t) ==
    /\ task[t].pc = "subReceipt" /\ Confirmed(task[t].tx)
    /\ ui' = SubscribeDone(ui, task[t].id)
    /\ warned' = Warns(t)
    /\ Ends(t)
    /\ UNCHANGED chainVars

\* A read fails, the buyer declines, the transaction reverted, or the wait for its
\* receipt ends without one.
FlowFails(t) ==
    /\ task[t].pc # "idle"
    /\ ui' = Fail(ui)
    /\ Ends(t)
    /\ txs' = IF task[t].tx # None /\ txs[task[t].tx].status # "reverted"
              THEN [txs EXCEPT ![task[t].tx].givenUp = TRUE] ELSE txs
    /\ UNCHANGED <<warned, cards, subs, others>>

---------------------------------------------------------------------------
(* The chain. *)

\* subscribe: NotCardOwnerOfCard.
AcceptsCard(c) == c \in DOMAIN cards /\ cards[c] = "me"

\* The oldest transaction not yet mined is mined: a wallet's nonces are in order.
Oldest(i) == txs[i].status = "pending" /\ \A j \in 1..(i - 1) : txs[j].status # "pending"

Lands(i) ==
    /\ Oldest(i)
    /\ txs' = [txs EXCEPT ![i].status = "success"]
    /\ \/ txs[i].kind = "mintSign" /\ cards' = Append(cards, "me") /\ UNCHANGED subs
       \/ txs[i].kind = "approveSign" /\ UNCHANGED <<cards, subs>>
       \/ /\ txs[i].kind = "subSign" /\ AcceptsCard(txs[i].card)
          /\ subs' = Append(subs, [owner |-> "me", card |-> txs[i].card])
          /\ UNCHANGED cards
    /\ UNCHANGED <<clientVars, flows, others>>

\* It reverts: out of gas, a plan deactivated, a card that is not accepted.
Reverts(i) ==
    /\ Oldest(i)
    /\ txs' = [txs EXCEPT ![i].status = "reverted"]
    /\ UNCHANGED <<clientVars, cards, subs, flows, others>>

\* Another buyer mints or subscribes.
OtherBuyer ==
    /\ others < MaxOthers /\ others' = others + 1
    /\ \/ cards' = Append(cards, "other") /\ UNCHANGED subs
       \/ \E c \in {d \in DOMAIN cards : cards[d] = "other"} :
             subs' = Append(subs, [owner |-> "other", card |-> c]) /\ UNCHANGED cards
    /\ UNCHANGED <<clientVars, txs, flows>>

---------------------------------------------------------------------------

FlowStep(t) ==
    \/ (\E enough \in BOOLEAN : ReadAllowance(t, enough)) \/ ReadNextId(t)
    \/ MintConfirmed(t) \/ ApproveConfirmed(t) \/ SubscribeConfirmed(t) \/ FlowFails(t)

Next ==
    \/ Connects \/ Disconnects \/ PlanArrives \/ PlanEffect \/ Scan \/ Retries
    \/ \E c \in DOMAIN cards : Picks(c)
    \/ \E t \in Task : MintAndUse(t) \/ PayAndSubscribe(t) \/ Signs(t) \/ FlowStep(t)
    \/ \E i \in DOMAIN txs : Lands(i) \/ Reverts(i)
    \/ OtherBuyer

Spec == Init /\ [][Next]_vars

---------------------------------------------------------------------------
(* Properties. *)

\* Panel, flows and chain have their types; an id shown is one that exists.
TypeOK ==
    /\ ui \in [step : Step, selected : (1..Len(cards)) \cup {None}, subId : (1..Len(subs)) \cup {None}]
    /\ \A t \in Task : task[t].pc \in Pc /\ task[t].tx \in DOMAIN txs \cup {None}
    /\ cards \in Seq({"me", "other"})
    /\ subs \in Seq([owner : {"me", "other"}, card : DOMAIN cards])
    /\ existing = None \/ existing \subseteq DOMAIN subs

\* The panel shows a spinner exactly while a flow is at that stage: it is never stuck in
\* one whose flow is gone, nor open to clicks during one.
SpinnerMeansFlow ==
    /\ ui.step = "minting" <=> \E t \in Task : task[t].pc \in MintPc
    /\ ui.step = "approving" <=> \E t \in Task : task[t].pc \in ApprovePc
    /\ ui.step = "subscribing" <=> \E t \in Task : task[t].pc \in SubscribePc

\* While nobody else mints or subscribes, an id read before a write is that of what the
\* write made: the selected card and the subscription shown when done are the buyer's.
ShownIsMine ==
    others = 0 =>
        /\ ui.selected \in {c \in DOMAIN cards : cards[c] = "me"} \cup {None}
        /\ ui.step = "done" => ui.subId \in Mine

\* Whatever ids were mixed up on the way, the buyer's subscriptions are on the buyer's cards.
NoForeignCard == \A i \in Mine : cards[subs[i].card] = "me"

\* A mixed-up id can be shown, but never costs: what is shown is the buyer's unless others
\* interfere, and what is subscribed is on the buyer's card even then.
IdsAreSafe == ShownIsMine /\ NoForeignCard

\* However it is clicked, one checkout makes one subscription, but for those whose
\* receipt the flow gave up on.
OneSubscription ==
    Cardinality({i \in DOMAIN txs : txs[i].kind = "subSign" /\ txs[i].status = "success"
                                    /\ ~txs[i].givenUp}) <= 1

\* The note on the done screen is never shown to a first-time subscriber.
NoFalseWarning == warned => Cardinality(Mine) >= 2

\* With a plan and a wallet the panel is past loading once the effects have run, in
\* whichever order the two came.
PickWhenReady ==
    plan /\ isConnected /\ planEffect = Deps => ui.step \notin {"connect", "loading"}

\* The panel is well-formed (the ids it shows exist), agrees with its flows, and gets on.
PanelInv == TypeOK /\ SpinnerMeansFlow /\ PickWhenReady

=============================================================================
