---------------------------- MODULE MCSubscription ----------------------------
(***************************************************************************)
(* Small instances of SubscriptionManager for TLC.  One time unit stands   *)
(* for the three days of GRACE.                                            *)
(***************************************************************************)
EXTENDS SubscriptionManager

CONSTANTS alice, shop, usdc, eurc, treasury, subManager, admin

\* Alice can pay a few charges, and is topped up from outside (admin's account).
Balances == [tk \in Token |-> [a \in Address |->
                CASE a = alice -> 250 [] a = admin -> 150 [] OTHER -> 0]]

\* A state a deployment reaches at time 0: the manager is an authorized charger,
\* alice has minted a card for each token and approved the manager, and the shop
\* sells one plan, in usdc.  TLC starts here where the question is about several
\* subscriptions, so that the setting up takes no interleavings.
AliceCard(id) ==
    [ZeroCard EXCEPT !.owner = alice, !.token = IF id = 0 THEN usdc ELSE eurc,
                     !.periodAmount = 200, !.periodDuration = 3]

SetUp ==
    /\ now = 0
    /\ nextCardId = MaxCards
    /\ cards = [id \in CardIds |-> AliceCard(id)]
    /\ allowlist = [id \in CardIds |-> {}]
    /\ authorizedChargers = {subManager}
    /\ mintedAt = [id \in CardIds |-> 0]
    /\ spentIn = [id \in CardIds |-> [k \in 0..MaxTime |-> 0]]
    /\ nextPlanId = MaxPlans
    /\ plans = [p \in PlanIds |-> [merchant |-> shop, token |-> usdc,
                                   latestVersion |-> 1, active |-> TRUE]]
    /\ versions = [p \in PlanIds |-> [n \in Versions |->
            IF n = 1 THEN [amount |-> 100, period |-> 2, trialPeriod |-> 0]
                     ELSE NoVersion]]
    /\ nextSubId = 0
    /\ subs = [s \in SubIds |-> ZeroSub]
    /\ balance = InitialBalance
    /\ allowance = [tk \in Token |-> [a \in Address |-> IF a = alice THEN 400 ELSE 0]]
    /\ charges = [s \in SubIds |-> <<>>]

SetUpSpec == SetUp /\ [][Next]_vars

=============================================================================
