----------------------------- MODULE EventViews -----------------------------
(***************************************************************************)
(* What the dashboard derives from the service's event feed                *)
(* (apps/dashboard/lib/events.ts, lib/cards.ts and the memos of            *)
(* components/screens).  The feed is one for all merchants: every figure   *)
(* is a join over it, made in the browser.                                 *)
(*                                                                         *)
(* An event row is a record [id, type, at, who, payer, plan, sub, card,    *)
(* atomic].  "who" is the merchant of a plan.created, the customer of a    *)
(* subscription.created, the owner of a card.created and the seller of a   *)
(* settlement.batched; fields a type does not have are NoId.  Addresses    *)
(* come in several spellings (checksummed or not) of one account.          *)
(***************************************************************************)
EXTENDS Integers, FiniteSets, Functions

CONSTANTS
    Lower,      \* toLowerCase() of every spelling of an address
    DayLen,     \* DAY_MS, in ticks of "at"
    NoId        \* a field the row does not have

ASSUME ViewsAssumption == DayLen \in Nat \ {0} /\ NoId \notin Nat

Attention == {"subscription.at_risk", "payment.overdue"}

OfType(events, type) == {e \in events : e.type = type}
SameAddress(a, b) == a # NoId /\ b # NoId /\ Lower[a] = Lower[b]

\* ORDER BY at DESC, id DESC: the order the rows are listed in.
Newer(e, f) == e.at > f.at \/ (e.at = f.at /\ e.id > f.id)
Newest(limit, rows) == {e \in rows : Cardinality({f \in rows : Newer(f, e)}) < limit}

---------------------------------------------------------------------------
(* lib/events.ts *)

scopeToMerchant(events, merchant) ==
    LET planIds == {e.plan : e \in {p \in OfType(events, "plan.created") :
                                        SameAddress(p.who, merchant)}}
    IN  [planIds |-> planIds,
         subIds |-> {e.sub : e \in {s \in OfType(events, "subscription.created") :
                                        s.plan \in planIds}}]

\* Mutant: settlements are kept without looking at the seller.
AnySellerPayments(events, merchant, mySubIds) ==
    {e \in events : \/ e.type = "payment.succeeded" /\ e.sub \in mySubIds
                    \/ e.type = "settlement.batched"}

scopedPaymentEvents(events, merchant, mySubIds) ==
    {e \in events :
        \/ e.type = "payment.succeeded" /\ e.sub \in mySubIds
        \/ e.type = "settlement.batched" /\ SameAddress(e.who, merchant)}

scopedFeedEvents(events, merchant, myPlanIds, mySubIds) ==
    {e \in events :
        CASE e.type = "settlement.batched" -> SameAddress(e.who, merchant)
          [] e.type = "plan.created" -> e.plan \in myPlanIds
          [] e.type = "card.created" -> TRUE
          [] OTHER -> e.sub \in mySubIds}

\* One row per subscription, from its newest attention event.
needsAttention(events) ==
    LET flagged == {e \in events : e.type \in Attention}
    IN  {[sub |-> e.sub, kind |-> e.type] :
            e \in {f \in flagged : ~\E g \in flagged : g.sub = f.sub /\ Newer(g, f)}}

SumAtomic(events) == FoldFunction(+, 0, [e \in events |-> e.atomic])
Paid(events) == {e \in events : e.type \in {"payment.succeeded", "settlement.batched"}}
DayOf(t) == t \div DayLen

\* Bars of the chart, oldest first, the last one the day of "now".
revenueByDay(events, days, now) ==
    [i \in 1..days |->
        SumAtomic({e \in Paid(events) : DayOf(e.at) = DayOf(now) - (days - i)})]

\* Mutant: the first moment of the span is left out.
RevenueAfter(events, since, now) ==
    SumAtomic({e \in Paid(events) : since < e.at /\ e.at <= now})

revenueTotalAtomic(events, since, now) ==
    SumAtomic({e \in Paid(events) : since <= e.at /\ e.at <= now})

---------------------------------------------------------------------------
(* lib/cards.ts and the Activity screen *)

deriveMyCards(events, owner) ==
    {e.card : e \in {c \in OfType(events, "card.created") : SameAddress(c.who, owner)}}

\* What the connected wallet paid: charges of its own subscriptions, found through their
\* subscription.created row, and settlements it was the payer of.
ActivityRows(events, address) ==
    LET mySubs == {e.sub : e \in {s \in OfType(events, "subscription.created") :
                                        SameAddress(s.who, address)}}
    IN  {e \in events :
            \/ e.type = "payment.succeeded" /\ e.sub \in mySubs
            \/ e.type = "settlement.batched" /\ SameAddress(e.payer, address)}

=============================================================================
