----------------------------- MODULE MCDashboard -----------------------------
(***************************************************************************)
(* Small instances of Dashboard for TLC: two merchants and a customer on   *)
(* one deployment.  "0xAa" is how the first one's wallet spells its        *)
(* address, the chain's events say "0xaa".                                 *)
(***************************************************************************)
EXTENDS Dashboard

MCLower == [a \in {"0xAa", "0xaa", "0xbb", "0xcc", ""} |-> IF a = "0xAa" THEN "0xaa" ELSE a]
MCWallet == {"0xAa", "0xbb"}
MCMerchantOf == <<"0xaa", "0xbb", "0xaa", "0xaa">>
MCPlanOf == <<1, 2>>
MCCustomerOf == <<"0xcc", "0xAa">>
MCPriceOf == <<<<11, 12>>, <<21>>, <<31>>, <<41>>>>
MCTimes == {4, 6, 9}

Row(type, at) == [type |-> type, at |-> at, who |-> NoId, payer |-> NoId, plan |-> NoId,
                  sub |-> NoId, card |-> NoId, atomic |-> 0]
PlanCreated(plan, at) == [Row("plan.created", at) EXCEPT !.plan = plan, !.who = merchantOf[plan]]
Pushed(plan, at) == [Row("plan.version_pushed", at) EXCEPT !.plan = plan]
Subscribed(sub, at) == [Row("subscription.created", at) EXCEPT
                            !.sub = sub, !.plan = planOf[sub], !.who = customerOf[sub]]
Of(type, sub, at) == [Row(type, at) EXCEPT !.sub = sub]
Payment(sub, atomic, at) == [Of("payment.succeeded", sub, at) EXCEPT !.atomic = atomic]
Settlement(seller, payer, atomic, at) == [Row("settlement.batched", at) EXCEPT
                            !.who = seller, !.payer = payer, !.atomic = atomic]

Numbered(rows) == [i \in DOMAIN rows |->
    [f \in DOMAIN rows[i] \cup {"id"} |-> IF f = "id" THEN i ELSE rows[i][f]]]

\* A merchant with several plans and a new version.
MCOneMerchant == Numbered(<<PlanCreated(1, 1), PlanCreated(3, 2), PlanCreated(4, 2), Pushed(1, 3)>>)

\* Two merchants and settlements with the sellers' clocks, the oldest rows pushed out; a
\* subscription flagged and then cancelled; and one merchant with several plans.
MCHistories == {
    Numbered(<<PlanCreated(1, 1), Subscribed(1, 2), Payment(1, 5, 3),
               Settlement("0xbb", "0xAa", 3, 2), Settlement("0xAa", "0xcc", 2, 6),
               Settlement("", "0xcc", 7, 6)>>),
    Numbered(<<PlanCreated(2, 1), Subscribed(2, 1), PlanCreated(1, 2),
               Of("subscription.at_risk", 2, 3), Of("subscription.cancelled", 2, 5)>>),
    MCOneMerchant}
MCOneHistory == {MCOneMerchant}

=============================================================================
