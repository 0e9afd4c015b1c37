------------------------------ MODULE Dashboard ------------------------------
(***************************************************************************)
(* The merchant view of the dashboard: the poll of the event feed          *)
(* (lib/use-events.ts through app/api/events/route.ts), the chain reads of *)
(* useMerchant (lib/use-merchant.ts) and the lists that keep their last    *)
(* good rows (lib/use-last-non-empty.ts), for a wallet that may change.    *)
(*                                                                         *)
(* The service stores the rows of a history one after the other; the chain *)
(* is ahead of no row.  A poll reads the newest rows and may be answered   *)
(* after a later one.  Each multicall may fail for some of its contracts.  *)
(***************************************************************************)
EXTENDS EventViews, Sequences

CONSTANTS
    Histories,      \* sequences of event rows, each in the order it is stored
    merchantOf,     \* the chain: merchant of every plan,
    planOf,         \*   plan and
    customerOf,     \*   customer of every subscription,
    priceOf,        \*   prices of every plan by version
    Wallet, NoWallet,
    Window,         \* limit=200
    Days, Span,     \* days of the chart; span of the headline
    Times,          \* instants the figures are looked at
    MaxLost,        \* bound: multicalls that fail for some contract
    MaxSwitches,    \* bound: changes of the connected wallet
    Undefined, Failed    \* undefined; a result whose status is not "success"

ASSUME DashboardAssumption ==
    /\ Window \in Nat \ {0} /\ MaxLost \in Nat /\ MaxSwitches \in Nat
    /\ NoWallet \notin Wallet
    /\ Times \subseteq Nat /\ Days \in Nat /\ Span \in Nat /\ Days * DayLen <= Span

\* The feed says what the chain says: the indexer decodes its logs.
AgreesWithChain(e) ==
    /\ e.id \in Nat /\ e.at \in Nat /\ e.atomic \in Nat
    /\ e.type = "plan.created" => e.plan \in Nat /\ e.who = merchantOf[e.plan]
    /\ e.type = "subscription.created" =>
          e.sub \in Nat /\ e.plan = planOf[e.sub] /\ e.who = customerOf[e.sub]

\* The indexer inserts them in their order, from the deployment on: a charge comes after
\* its subscription, and that after its plan.
InChainOrder(h) ==
    \A i \in DOMAIN h : h[i].type = "payment.succeeded" =>
        \E j \in 1..i, k \in 1..i :
            /\ h[j].type = "subscription.created" /\ h[j].sub = h[i].sub
            /\ h[k].type = "plan.created" /\ h[k].plan = h[j].plan

ASSUME HistoriesAgree ==
    \A h \in Histories :
        h \in Seq(Range(h)) /\ InChainOrder(h) /\ \A e \in Range(h) : AgreesWithChain(e)

VARIABLES
    history, stored,                \* the service: which rows, and how many of them so far
    late, shown,                    \* a poll in flight; the one whose answer the page holds
    address,                        \* useAccount()
    whose,                          \* history: wallets connected since the screen was opened
    events, planIds, subIds,        \* its rows; ids of the wallet's plans and subscriptions
    planData, versionData, subData, \* results of the three multicalls, by position
    plans, subs,                    \* useLastNonEmpty
    lost, switches                  \* bounds' counters

reads == <<planData, versionData, subData>>
kept == <<plans, subs>>
page == <<shown, address, whose, events, planIds, subIds>>
vars == <<history, stored, late, page, reads, kept, lost, switches>>

---------------------------------------------------------------------------
(* The service and the chain. *)

Stored(n) == {history[i] : i \in 1..n}

\* db.listRecentEvents({limit}), as GET /events serves it.
listRecentEvents(n) == Newest(Window, Stored(n))

latestVersion(plan, n) == 1 + Cardinality(
    {e \in Stored(n) : e.type = "plan.version_pushed" /\ e.plan = plan})

stateOf(sub, n) ==
    IF \E e \in Stored(n) : e.type = "subscription.cancelled" /\ e.sub = sub
    THEN "cancelled" ELSE "active"

---------------------------------------------------------------------------
(* What is rendered, from the rows of the last answer. *)

myScope(rows, a) == IF a = NoWallet THEN [planIds |-> {}, subIds |-> {}]
                    ELSE scopeToMerchant(rows, a)

\* Numbers in ascending order: the k-th has k-1 below it.
Kth(S, k) == CHOOSE x \in S : Cardinality({y \in S : y < x}) = k - 1
Ascending(S) == [k \in 1..Cardinality(S) |-> Kth(S, k)]

\* Mutant: the memo of the ids depends on the events only.
ScopeToMemo(rows, a) ==
    IF rows = events THEN UNCHANGED <<planIds, subIds>>
    ELSE \E scope \in {myScope(rows, a)} :
            planIds' = Ascending(scope.planIds) /\ subIds' = Ascending(scope.subIds)

\* scopedIdsFor
ScopeTo(rows, a) == \E scope \in {myScope(rows, a)} :
    planIds' = Ascending(scope.planIds) /\ subIds' = Ascending(scope.subIds)

\* getPlanVersion is asked for the plans getPlan answered for.
versionContracts ==
    IF planData = Undefined THEN <<>>
    ELSE LET answered == {i \in DOMAIN planIds : planData[i] # Failed}
         IN  [k \in 1..Cardinality(answered) |->
                LET i == Kth(answered, k) IN [plan |-> planIds[i], version |-> planData[i]]]

\* Mutant: the two lists are joined by the position of the plan.
SamePosition(i) == i

\* "vi": the position of a plan among those getPlan answered for.
VersionPosition(i) == Cardinality({j \in 1..i : planData[j] # Failed})

Answered(data, i) == data # Undefined /\ i \in DOMAIN data /\ data[i] # Failed

PlanRows ==
    {[plan |-> planIds[i], version |-> planData[i],
      amount |-> versionData[VersionPosition(i)]] :
        i \in {j \in DOMAIN planIds : Answered(planData, j)
                                       /\ Answered(versionData, VersionPosition(j))}}

\* An active subscription shows its attention row, if it has one.
StatusOf(sub, base) ==
    LET flag == {r.kind : r \in {a \in needsAttention(events) : a.sub = sub}}
    IN  IF base = "active" /\ flag # {} THEN CHOOSE k \in flag : TRUE ELSE base

SubRows ==
    {[sub |-> subIds[i], status |-> StatusOf(subIds[i], subData[i])] :
        i \in {j \in DOMAIN subIds : Answered(subData, j)}}

\* Mutant: the first good rows are kept for good.
FirstRendered(rows, last) == IF last # {} THEN last ELSE rows

\* useLastNonEmpty
lastNonEmpty(rows, last) == IF rows # {} THEN rows ELSE last

\* Every step ends with a render.
Render == plans' = lastNonEmpty(PlanRows', plans) /\ subs' = lastNonEmpty(SubRows', subs)

---------------------------------------------------------------------------
(* Overview, Payments and Activity. *)

myPaymentEvents == IF address = NoWallet THEN {}
                   ELSE scopedPaymentEvents(events, address, myScope(events, address).subIds)
feedRows == IF address = NoWallet THEN {}
            ELSE scopedFeedEvents(events, address, myScope(events, address).planIds,
                                  myScope(events, address).subIds)
attnRows == {r \in needsAttention(events) : r.sub \in myScope(events, address).subIds}
daily(now) == revenueByDay(myPaymentEvents, Days, now)
revenueThisMonth(now) == revenueTotalAtomic(myPaymentEvents, now - Span, now)
activity == IF address = NoWallet THEN {} ELSE ActivityRows(events, address)

---------------------------------------------------------------------------
(* Steps. *)

Init ==
    /\ history \in Histories /\ stored = 0
    /\ late = Undefined /\ shown = 0
    /\ address \in Wallet \cup {NoWallet} /\ whose = {address}
    /\ events = {} /\ planIds = <<>> /\ subIds = <<>>
    /\ planData = Undefined /\ versionData = Undefined /\ subData = Undefined
    /\ plans = {} /\ subs = {}
    /\ lost = 0 /\ switches = 0

\* A multicall answers for the contracts in ok.
Results(ok, values) == [i \in DOMAIN values |-> IF i \in ok THEN values[i] ELSE Failed]

\* Queries are cached by their contracts: under a new key there is no data, or an earlier
\* answer, older maybe, or failed for some contracts if a multicall ever failed.
Earlier(answers) ==
    {Undefined} \cup UNION {{Results(ok, v) :
        ok \in IF lost = 0 THEN {DOMAIN v} ELSE SUBSET DOMAIN v} : v \in answers}
EarlierPlans(ids) == Earlier({[i \in DOMAIN ids |-> latestVersion(ids[i], n)] : n \in 0..stored})
EarlierSubs(ids) == Earlier({[i \in DOMAIN ids |-> stateOf(ids[i], n)] : n \in 0..stored})

\* A version's price never changes.  (An earlier answer about versions is taken as complete.)
Prices(contracts) == [i \in DOMAIN contracts |-> priceOf[contracts[i].plan][contracts[i].version]]

Rekeyed(data, key, newKey, earlier) ==
    IF key = newKey THEN {data} ELSE IF newKey = <<>> THEN {Undefined} ELSE earlier

RekeyVersions ==
    versionData' \in Rekeyed(versionData, versionContracts, versionContracts',
                             {Undefined, Prices(versionContracts')})
Rekey ==
    /\ planData' \in Rekeyed(planData, planIds, planIds', EarlierPlans(planIds'))
    /\ subData' \in Rekeyed(subData, subIds, subIds', EarlierSubs(subIds'))
    /\ RekeyVersions

\* The service stores one more event.
Store ==
    /\ stored < Len(history)
    /\ stored' = stored + 1
    /\ UNCHANGED <<history, late, page, reads, kept, lost, switches>>

\* The page holds the rows of a poll.
Show(n) ==
    /\ shown' = n /\ events' = listRecentEvents(n)
    /\ ScopeTo(events', address)
    /\ Rekey /\ Render

\* A poll is answered at once; or its answer is held up on the way.
Poll ==
    /\ shown # stored
    /\ UNCHANGED <<history, stored, late, address, whose, lost, switches>>
    /\ Show(stored)

PollSlow ==
    /\ late = Undefined /\ late' = stored
    /\ UNCHANGED <<history, stored, page, reads, kept, lost, switches>>

\* A held up answer arrives, or the request fails.
Arrive ==
    /\ late # Undefined /\ late' = Undefined
    /\ UNCHANGED <<history, stored, address, whose, lost, switches>>
    /\ \/ UNCHANGED <<shown, events, planIds, subIds, reads, kept>>
       \/ Show(late)

\* Another account, or none.
Switch(a) ==
    /\ a # address /\ switches < MaxSwitches
    /\ UNCHANGED <<history, stored, late, shown, events, lost>>
    /\ address' = a /\ whose' = whose \cup {a} /\ switches' = switches + 1
    /\ ScopeTo(events, a)
    /\ Rekey /\ Render

Multicall(ok, ids) ==
    /\ ids # <<>>
    /\ ok = DOMAIN ids \/ lost < MaxLost
    /\ lost' = IF ok = DOMAIN ids THEN lost ELSE lost + 1

ReadPlans(ok) ==
    /\ UNCHANGED <<history, stored, late, page, subData, switches>>
    /\ Multicall(ok, planIds)
    /\ planData' = Results(ok, [i \in DOMAIN planIds |-> latestVersion(planIds[i], stored)])
    /\ RekeyVersions /\ Render

ReadVersions(ok) ==
    /\ UNCHANGED <<history, stored, late, page, planData, subData, switches>>
    /\ Multicall(ok, versionContracts)
    /\ versionData' = Results(ok, Prices(versionContracts))
    /\ Render

ReadSubs(ok) ==
    /\ UNCHANGED <<history, stored, late, page, planData, versionData, switches>>
    /\ Multicall(ok, subIds)
    /\ subData' = Results(ok, [i \in DOMAIN subIds |-> stateOf(subIds[i], stored)])
    /\ Render

\* Another screen is opened: its lists start from what is there.
Open ==
    /\ plans' = PlanRows /\ subs' = SubRows /\ whose' = {address}
    /\ UNCHANGED <<history, stored, late, shown, address, events, planIds, subIds, reads,
                   lost, switches>>

Next ==
    \/ Store \/ Poll \/ PollSlow \/ Arrive \/ Open
    \/ \E a \in Wallet \cup {NoWallet} : Switch(a)
    \/ \E ok \in SUBSET DOMAIN planIds : ReadPlans(ok)
    \/ \E ok \in SUBSET DOMAIN versionContracts : ReadVersions(ok)
    \/ \E ok \in SUBSET DOMAIN subIds : ReadSubs(ok)

Spec == Init /\ [][Next]_vars

\* Polls and reads repeat on their intervals for as long as the page is open, and an
\* answer under way arrives or fails.
Fairness ==
    /\ WF_vars(Poll) /\ WF_vars(Arrive)
    /\ WF_vars(ReadPlans(DOMAIN planIds))
    /\ WF_vars(ReadVersions(DOMAIN versionContracts))

FairSpec == Spec /\ Fairness

---------------------------------------------------------------------------
(* Properties. *)

MerchantOfSub(sub) == merchantOf[planOf[sub]]

\* Rows that were kept are of wallets connected since the screen was opened; once rows of
\* the present wallet are read there are no others.
KeptMine ==
    LET Owns(w, merchant) == w # NoWallet /\ SameAddress(merchant, w) IN
    /\ \A p \in plans : \E w \in whose : Owns(w, merchantOf[p.plan])
    /\ \A r \in subs : \E w \in whose : Owns(w, MerchantOfSub(r.sub))
    /\ PlanRows # {} => \A p \in plans : Owns(address, merchantOf[p.plan])
    /\ SubRows # {} => \A r \in subs : Owns(address, MerchantOfSub(r.sub))

\* The feed is shared by all merchants.  Figures, payments and attention rows show nothing of
\* another merchant's, and Activity only what the wallet paid itself; the lists of plans and
\* subscriptions, which outlive a change of the wallet, show no third one's; whichever polls
\* were overtaken, reads failed, and whatever fell out of the window.
OnlyMine ==
    /\ KeptMine
    /\ \A e \in myPaymentEvents :
          IF e.type = "payment.succeeded" THEN SameAddress(MerchantOfSub(e.sub), address)
          ELSE SameAddress(e.who, address)
    /\ \A e \in feedRows : e.type # "card.created" =>
          SameAddress(address,
              CASE e.type = "settlement.batched" -> e.who
                [] e.type = "plan.created" -> merchantOf[e.plan]
                [] OTHER -> MerchantOfSub(e.sub))
    /\ \A r \in attnRows : SameAddress(MerchantOfSub(r.sub), address)
    /\ \A e \in activity :
          IF e.type = "payment.succeeded" THEN SameAddress(customerOf[e.sub], address)
          ELSE SameAddress(e.payer, address)

\* What a merchant earned, by the chain's own account of who owns what.
Earned(n, since, now) ==
    SumAtomic({e \in Paid(Stored(n)) :
        /\ since <= e.at /\ e.at <= now
        /\ SameAddress(address, IF e.type = "payment.succeeded" THEN MerchantOfSub(e.sub)
                                ELSE e.who)})

SumOf(bars) == FoldFunction(+, 0, bars)

\* The headline is the merchant's exact revenue as long as every row is in the window, and
\* never more than it; the bars never show revenue up to now that the headline misses.
HeadlineIsExact ==
    address # NoWallet =>
        \A now \in Times :
            LET earned == Earned(shown, now - Span, now) IN
            /\ revenueThisMonth(now) <= earned
            /\ shown <= Window => revenueThisMonth(now) = earned
            /\ (\A e \in myPaymentEvents : e.at <= now) =>
                    SumOf(daily(now)) <= revenueThisMonth(now)

\* The page holds a poll that was answered, and its ids are its rows' and its wallet's.
TypeOK ==
    /\ history \in Histories /\ stored \in 0..Len(history)
    /\ shown \in 0..stored /\ late \in (0..stored) \cup {Undefined}
    /\ address \in Wallet \cup {NoWallet}
    /\ events = listRecentEvents(shown)
    /\ Range(planIds) = myScope(events, address).planIds
    /\ Range(subIds) = myScope(events, address).subIds

\* A plan is listed with the price of its own version, though two multicalls that fail for
\* different contracts are joined by position.
RowsJoinTheirVersion == \A p \in plans : p.amount = priceOf[p.plan][p.version]

\* The page's state is well-formed, and what it joins belongs together.
ListsInv == TypeOK /\ RowsJoinTheirVersion

AllPlans == {[plan |-> p, version |-> latestVersion(p, stored),
              amount |-> priceOf[p][latestVersion(p, stored)]] :
                p \in {e.plan : e \in {f \in OfType(Stored(stored), "plan.created") :
                                            SameAddress(merchantOf[f.plan], address)}}}

\* Once nothing more happens, a merchant whose rows are all in the window sees all of its
\* plans as they are on chain, however late answers and failed reads interleaved before.
PlansSettle ==
    <>[](address # NoWallet /\ stored <= Window /\ AllPlans # {} => plans = AllPlans)

\* What use-merchant.ts:3-4 says of the lists, "the connected wallet acting as a merchant: its
\* plans": once nothing more happens, another wallet's plans are gone.
PlansAreOwn ==
    <>[](address # NoWallet => \A p \in plans : SameAddress(merchantOf[p.plan], address))

=============================================================================
