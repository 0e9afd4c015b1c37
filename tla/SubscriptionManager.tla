------------------------- MODULE SubscriptionManager -------------------------
(***************************************************************************)
(* Recurring billing on cards: contracts/src/SubscriptionManager.sol, with *)
(* the CardIssuer it charges through and the ERC-20 balances it moves.     *)
(*                                                                         *)
(* charge() is permissionless and atomic: either the schedule, the card's  *)
(* budget and both transfers change together, or the call reverts and      *)
(* nothing does.  The conversion of a time to uint48 keeps its width.      *)
(* GRACE is a constant here (3 days in the code), so that a small clock    *)
(* can cross it.                                                           *)
(***************************************************************************)
EXTENDS CardIssuer, Sequences, Functions

CONSTANTS
    SubManager,     \* the contract's own account, a charger
    Treasury,       \* receiver of the fees
    Seller,         \* accounts that create plans
    Price,          \* plan amounts tried
    Period,         \* plan periods tried
    Trial,          \* trial periods tried
    GRACE,
    Approval,       \* allowances a customer may set
    TopUp,          \* sums a customer's account may be topped up with
    InitialBalance, \* [Token -> [Address -> Nat]]
    MaxPlans, MaxVersions, MaxSubs      \* bounds: plans, versions per plan, subscriptions

ASSUME PartyAssumption ==
    /\ SubManager \in Charger /\ Treasury \in Address /\ Seller \subseteq Merchant
    /\ Price \subseteq Amount /\ Approval \subseteq Nat /\ TopUp \subseteq Nat
    /\ InitialBalance \in [Token -> [Address -> Nat]]
    /\ ZeroAddress \notin Token

ASSUME ScheduleAssumption ==
    /\ GRACE \in Nat /\ MaxPlans \in Nat /\ MaxVersions \in Nat \ {0} /\ MaxSubs \in Nat
    /\ Period \subseteq 0..(U48 - 1) /\ Trial \subseteq 0..(U48 - 1)

FEE_BPS == 100

PlanIds == 0..(MaxPlans - 1)
SubIds == 0..(MaxSubs - 1)
Versions == 1..MaxVersions

PlanVersion == [amount : Price, period : Period, trialPeriod : Trial]
NoVersion == [amount |-> 0, period |-> 0, trialPeriod |-> 0]

Plan == [merchant : Seller \cup {ZeroAddress}, token : Token \cup {ZeroAddress},
         latestVersion : 0..MaxVersions, active : BOOLEAN]
ZeroPlan == [merchant |-> ZeroAddress, token |-> ZeroAddress,
             latestVersion |-> 0, active |-> FALSE]

SubState == {"Active", "Cancelled", "Expired"}
Subscription == [customer : Address \cup {ZeroAddress}, planId : PlanIds \cup {0},
                 planVersion : 0..MaxVersions, cardId : CardIds \cup {0},
                 nextChargeAt : 0..(U48 - 1), state : SubState]
ZeroSub == [customer |-> ZeroAddress, planId |-> 0, planVersion |-> 0, cardId |-> 0,
            nextChargeAt |-> 0, state |-> "Active"]

VARIABLES
    nextPlanId, plans, versions,    \* _plans, _versions
    nextSubId, subs,                \* _subs
    balance, allowance,             \* the tokens: balances, approvals of this contract
    charges                         \* history: the successful charges of each subscription

planVars == <<nextPlanId, plans, versions>>
subVars == <<nextSubId, subs>>
tokenVars == <<balance, allowance>>
managerVars == <<planVars, subVars, tokenVars, charges>>

Charge == [due : Nat, at : Nat, amount : Nat]

---------------------------------------------------------------------------
(* Plans, by the merchants. *)

ValidPeriod(period) == period > GRACE

CreatePlan(merchant, token, version) ==
    /\ ValidPeriod(version.period)
    /\ nextPlanId < MaxPlans
    /\ nextPlanId' = nextPlanId + 1
    /\ plans' = [plans EXCEPT ![nextPlanId] =
            [merchant |-> merchant, token |-> token, latestVersion |-> 1, active |-> TRUE]]
    /\ versions' = [versions EXCEPT ![nextPlanId][1] = version]
    /\ UNCHANGED <<subVars, tokenVars, charges>>

PushPlanVersion(caller, id, version) ==
    LET latest == plans[id].latestVersion + 1
    IN  /\ plans[id].merchant = caller
        /\ ValidPeriod(version.period)
        /\ latest <= MaxVersions
        /\ plans' = [plans EXCEPT ![id].latestVersion = latest]
        /\ versions' = [versions EXCEPT ![id][latest] = version]
        /\ UNCHANGED <<nextPlanId, subVars, tokenVars, charges>>

---------------------------------------------------------------------------
(* Subscriptions, by the customers. *)

\* Mutant: any card of the caller will do, whatever token it spends.
OwnCard(caller, p, c) == c.owner = caller

CardFits(caller, p, c) == c.owner = caller /\ c.token = p.token

Subscribe(caller, planId, cardId) ==
    LET p == plans[planId]
        v == versions[planId][p.latestVersion]
    IN  /\ p.active
        /\ CardFits(caller, p, cards[cardId])
        /\ nextSubId < MaxSubs
        /\ nextSubId' = nextSubId + 1
        /\ subs' = [subs EXCEPT ![nextSubId] =
                [customer |-> caller, planId |-> planId, planVersion |-> p.latestVersion,
                 cardId |-> cardId, nextChargeAt |-> Truncate48(now + v.trialPeriod),
                 state |-> "Active"]]
        /\ UNCHANGED <<planVars, tokenVars, charges>>

CancelSub(caller, id) ==
    /\ subs[id].customer = caller
    /\ subs[id].state = "Active"
    /\ subs' = [subs EXCEPT ![id].state = "Cancelled"]
    /\ UNCHANGED <<nextSubId, planVars, tokenVars, charges>>

---------------------------------------------------------------------------
(* charge(), by anyone. *)

Chargeable(id) ==
    /\ subs[id].customer # ZeroAddress
    /\ subs[id].state = "Active"
    /\ now >= subs[id].nextChargeAt

\* Mutant: the last second of the grace is already too late.
LateAtGrace(id) == now >= subs[id].nextChargeAt + GRACE

\* block.timestamp > uint256(s.nextChargeAt) + GRACE
Late(id) == now > subs[id].nextChargeAt + GRACE

\* Mutant: the expiry is announced but not stored.
ChargeLateUnsaved(id) ==
    /\ Chargeable(id) /\ Late(id)
    /\ UNCHANGED <<subVars, planVars, tokenVars, charges, cardVars>>

ChargeLate(id) ==
    /\ Chargeable(id) /\ Late(id)
    /\ subs' = [subs EXCEPT ![id].state = "Expired"]
    /\ UNCHANGED <<nextSubId, planVars, tokenVars, charges, cardVars>>

Fee(amount) == (amount * FEE_BPS) \div 10000

\* One token's balances after a transfer.
Moved(bal, from, to, value) ==
    LET taken == [bal EXCEPT ![from] = @ - value]
    IN  [taken EXCEPT ![to] = @ + value]

\* Both transferFrom calls, to the treasury and then to the merchant, go through.
CanPull(token, customer, amount) ==
    LET fee == Fee(amount)
        afterFee == Moved(balance[token], customer, Treasury, fee)
    IN  /\ balance[token][customer] >= fee
        /\ afterFee[customer] >= amount - fee
        /\ allowance[token][customer] >= amount

Pull(token, customer, merchant, amount) ==
    LET fee == Fee(amount)
        afterFee == Moved(balance[token], customer, Treasury, fee)
    IN  /\ balance' = [balance EXCEPT ![token] =
                            Moved(afterFee, customer, merchant, amount - fee)]
        /\ allowance' = [allowance EXCEPT ![token][customer] = @ - amount]

\* The next charge is one period after the one now due, not after this block.
NextDue(s, v) == Truncate48(s.nextChargeAt + v.period)

\* The nested cardIssuer.authorizeSpend does not revert.
CardAllows(s, p, v) ==
    /\ SubManager \in authorizedChargers
    /\ Spendable(s.cardId, p.merchant, v.amount, now)

ChargeOnTime(id) ==
    LET s == subs[id]
        p == plans[s.planId]
        v == versions[s.planId][p.latestVersion]
    IN  /\ Chargeable(id) /\ ~Late(id)
        /\ CardAllows(s, p, v)
        /\ CanPull(p.token, s.customer, v.amount)
        /\ subs' = [subs EXCEPT ![id].planVersion = p.latestVersion,
                                ![id].nextChargeAt = NextDue(s, v)]
        /\ RecordSpend(s.cardId, v.amount)
        /\ Pull(p.token, s.customer, p.merchant, v.amount)
        /\ charges' = [charges EXCEPT ![id] =
                Append(@, [due |-> s.nextChargeAt, at |-> now, amount |-> v.amount])]
        /\ UNCHANGED <<nextSubId, planVars>>

---------------------------------------------------------------------------
(* The token, by its holders. *)

Approve(holder, token, value) ==
    /\ allowance' = [allowance EXCEPT ![token][holder] = value]
    /\ UNCHANGED <<balance, planVars, subVars, charges>>

\* Money reaches the customer from an account outside the system.
Receive(from, to, token, value) ==
    /\ balance[token][from] >= value
    /\ balance' = [balance EXCEPT ![token] = Moved(@, from, to, value)]
    /\ UNCHANGED <<allowance, planVars, subVars, charges>>

---------------------------------------------------------------------------
Init ==
    /\ CardInit
    /\ nextPlanId = 0
    /\ plans = [p \in PlanIds |-> ZeroPlan]
    /\ versions = [p \in PlanIds |-> [n \in Versions |-> NoVersion]]
    /\ nextSubId = 0
    /\ subs = [s \in SubIds |-> ZeroSub]
    /\ balance = InitialBalance
    /\ allowance = [tk \in Token |-> [a \in Address |-> 0]]
    /\ charges = [s \in SubIds |-> <<>>]

PlanStep ==
    \E m \in Seller, v \in PlanVersion :
        \/ \E tk \in Token : CreatePlan(m, tk, v)
        \/ \E p \in PlanIds : PushPlanVersion(m, p, v)

CustomerStep ==
    \E a \in Owner :
        \/ \E p \in PlanIds, c \in CardIds : Subscribe(a, p, c)
        \/ \E s \in SubIds : CancelSub(a, s)

TokenStep ==
    \E a \in Owner, tk \in Token :
        \/ \E v \in Approval : Approve(a, tk, v)
        \/ \E v \in TopUp : Receive(Admin, a, tk, v)

ChargeStep(id) == ChargeLate(id) \/ ChargeOnTime(id)

Next ==
    \/ Tick /\ UNCHANGED managerVars
    \/ /\ UNCHANGED now
       /\ \/ (OwnerStep \/ AdminStep) /\ UNCHANGED managerVars
          \/ (PlanStep \/ CustomerStep \/ TokenStep) /\ UNCHANGED cardVars
          \/ \E s \in SubIds : ChargeStep(s)

vars == <<now, cardVars, managerVars>>

Spec == Init /\ [][Next]_vars

\* The keeper's loop (packages/service/src/bin/service.ts) charges every due
\* subscription it knows, again and again, as time goes on.
Fairness ==
    /\ WF_vars(Tick /\ UNCHANGED managerVars)
    /\ \A s \in SubIds : WF_vars(ChargeStep(s) /\ UNCHANGED now)

FairSpec == Spec /\ Fairness

---------------------------------------------------------------------------
(* Properties. *)

\* The types of the manager's storage and of the token.
TypeOK ==
    /\ CardTypeOK
    /\ nextPlanId \in 0..MaxPlans /\ nextSubId \in 0..MaxSubs
    /\ plans \in [PlanIds -> Plan]
    /\ versions \in [PlanIds -> [Versions -> PlanVersion \cup {NoVersion}]]
    /\ subs \in [SubIds -> Subscription]
    /\ balance \in [Token -> [Address -> Nat]]
    /\ allowance \in [Token -> [Address -> Nat]]
    /\ charges \in [SubIds -> Seq(Charge)]

\* Every subscription is a pull mandate, the double-charge guard of the comment at
\* createPlan included (the next due time is strictly past the block of a charge): what charge, cancel and expiry do to it,
\* with plans repriced and cards frozen under it, is what PullMandate allows.
MandateOf(sub) ==
    [status |-> CASE sub.customer = ZeroAddress -> "none"
                  [] sub.customer # ZeroAddress /\ sub.state = "Active" -> "open"
                  [] sub.customer # ZeroAddress /\ sub.state = "Cancelled" -> "cancelled"
                  [] sub.customer # ZeroAddress /\ sub.state = "Expired" -> "lapsed",
     due |-> sub.nextChargeAt]

mandates == [s \in SubIds |-> MandateOf(subs[s])]

Mandate == INSTANCE PullMandate WITH
    Id <- SubIds, Sum <- Price, Time <- 0..(U48 - 1), Window <- GRACE,
    clock <- now, mandate <- mandates, taken <- charges

IsPullMandate == Mandate!MandateSpec

\* The sum of all values of a function.
Total(f) == FoldFunction(+, 0, f)

\* Every payment, by its subscription and its number.
AllCharges == UNION {{s} \X DOMAIN charges[s] : s \in SubIds}

\* Money and budget agree: the spends authorized on a card are exactly the charges
\* of its subscriptions that were paid, in the card's token, period by period.  A
\* charge whose pull fails consumes no budget.
ChargedOn(id, k) ==
    LET paid == {x \in AllCharges :
                    /\ subs[x[1]].customer # ZeroAddress
                    /\ subs[x[1]].cardId = id
                    /\ plans[subs[x[1]].planId].token = cards[id].token
                    /\ PeriodOf(id, charges[x[1]][x[2]].at) = k}
    IN  Total([x \in paid |-> charges[x[1]][x[2]].amount])

BudgetMatchesPayments ==
    \A id \in 0..(nextCardId - 1), k \in 0..MaxTime : spentIn[id][k] = ChargedOn(id, k)

\* The 1% split: the treasury holds the fee of every charge, the merchants the
\* rest, and nothing else ever moved to them or was lost on the way.
Received(token, merchant) ==
    LET theirs == {x \in AllCharges : LET p == plans[subs[x[1]].planId]
                                      IN  p.token = token /\ p.merchant = merchant}
    IN  Total([x \in theirs |-> LET a == charges[x[1]][x[2]].amount IN a - Fee(a)])

FeesOf(token) ==
    LET theirs == {x \in AllCharges : plans[subs[x[1]].planId].token = token}
    IN  Total([x \in theirs |-> Fee(charges[x[1]][x[2]].amount)])

MoneySettled ==
    \A tk \in Token :
        /\ balance[tk][Treasury] = InitialBalance[tk][Treasury] + FeesOf(tk)
        /\ \A m \in Seller :
              balance[tk][m] = InitialBalance[tk][m] + Received(tk, m)
        /\ Total(balance[tk]) = Total(InitialBalance[tk])

\* Card budgets, charges and token balances tell one story: storage is well-formed, no
\* balance or allowance is overdrawn, every charge took its budget and moved its money,
\* and nothing else did.
LedgersAgree == TypeOK /\ BudgetMatchesPayments /\ MoneySettled

\* A renewal never stays open for good: a due subscription is charged, cancelled
\* or, its grace over, expired.
RenewalsResolve ==
    \A s \in SubIds :
        (Chargeable(s) /\ now + GRACE < MaxTime) ~> ~Chargeable(s)

=============================================================================
