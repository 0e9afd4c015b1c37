# Verification of Scruple

Scruple is programmable subscription billing: on-chain cards with a budget per
period (`contracts/src/CardIssuer.sol`), subscriptions that anyone may charge
against them (`SubscriptionManager.sol`), an SDK pair for pay-per-call APIs
(`packages/client`, `packages/server`), a service that indexes, warns, charges
and delivers webhooks (`packages/service`), a rate-limited RPC forwarder
(`packages/rpc-forwarder`), a checkout panel (`packages/checkout`) and a dashboard
for merchants and card owners (`apps/dashboard`). This directory holds TLA+ models
of these parts, the TLC configurations that check them and TLAPS proofs of every safety
property the runs check.
`PROJECT.json` ties each definition
to the source lines it stands for, each property to a mutation of the code that
breaks it, and each hazard to the properties that watch it.

## 1. Inventory

### The parts

| Component | State | Operations | Correct when |
|---|---|---|---|
| CardIssuer | cards, allowlists, authorized chargers | mint, freeze, unfreeze, cancel, allowlist, `authorizeSpend`, `canSpend` | a period's authorized spend stays in the budget, the budget comes back, cancelled is final |
| SubscriptionManager | plans and versions, subscriptions, (token balances) | `createPlan`, `pushPlanVersion`, `subscribe`, `cancel`, `charge` | at most one pull per due date, a pull and its card debit happen together, a due subscription is charged or expires |
| Client SDK | the period tracker | `fetch` = challenge, check and reserve, pay, release or adjust | concurrent calls together stay in the budget; the tracker counts what was spent |
| Server SDK | none but the awaited settlement | middleware: challenge, settle, serve, forward | nothing is served unpaid, no revenue is counted that was not settled, a dead service holds up nothing |
| Event store, dispatcher | events, endpoints, deliveries (SQLite) | `insertEvent`, `dispatchDue`, admin routes | every event reaches every endpoint's outbox, delivered means received, retries are exhausted before death |
| Indexer, at-risk, keeper | cursor, events, tracked subscriptions | one `tick` of `bin/service.ts` | no log is skipped, replay is harmless, what is due is charged, a failing renewal was announced |
| RPC forwarder | promise chain, time of last request | `forward` with gap, retry, backoff | one request at a time, gap between any two, every call answered in order |
| Checkout | reducer state, flow, react-query reads | mint, pay and subscribe, retry | what is shown is the buyer's, one checkout subscribes once, no spinner without a flow |
| Dashboard, merchant view | the page's event rows, results of three multicalls, lists that keep their last good rows | polls, multicalls, change of wallet; scoping, revenue, attention, activity | figures and payments show nothing of another merchant, the headline is the exact revenue, a plan is shown at its own price, lists keep no third wallet's rows and settle |
| Dashboard, cards view | gallery, drawer with an optimistic badge, mint form | freeze, unfreeze, cancel, mint through the wallet | the badge is what the card is heading for, one write at a time, the gallery settles on the cards whose rows are in the feed |
| Dashboard, console and nudge | polled lists, drawer, busy flag, two-click delete | the admin routes: create, delete, pause, rotate, resend, nudge | a revealed secret works, a refetch shows its mutation, one nudge per period, the lists settle |
| API proxies | none (the RPC routes hold a forwarder each) | pass-through | – |
| Demo shop, examples, deploy script, vendored forge-std | none | demonstrations | – |

### How they interact

The keeper calls `charge()` on the SubscriptionManager, which calls
`authorizeSpend` on the CardIssuer and `transferFrom` on the token, in one
transaction. The events of both contracts are read by the indexer into the event
store; the server SDK posts metered payments into the same store over
`POST /ingest`; the dispatcher posts from its outbox to the merchant's endpoints.
The checkout panel reads and writes the contracts through the buyer's wallet.
Panel, dashboard and demo shop read the chain through proxies that hold an RPC
forwarder each. The client SDK pays the server SDK through a facilitator. The
dashboard reads one event feed that all merchants share (`GET /events`) and joins it
in the browser with what the contracts answer; its console drives the admin routes of
the service, which act on the endpoints and deliveries of the dispatcher.

### What is hard

* **Interleaving.** `charge` is permissionless; other buyers move `nextCardId` and
  `nextSubId` between the panel's read and its write; the admin changes endpoints
  while a batch is awaited; the chain moves between the monitor's reads.
* **Failure.** A pull fails after the card was debited (the transaction reverts as
  a whole); the service dies between any two database transactions; a receipt is
  never seen; a settlement's answer is lost; a post is lost or doubled.
* **Time.** Periods roll over during idle time and during an awaited payment;
  charges come late in the grace; retries run out.
* **Stale reads.** Polls overtake one another, multicalls fail for some of their
  contracts and are joined by position, an answer belongs to a wallet that is no
  longer connected, a badge flips before the wallet has been asked.
* **Progress.** The keeper must get to every due charge; the promise chain must
  survive a failed call; every delivery must end; a list that survives failed polls
  must still let go of its old rows.

`PROJECT.json` "hazards" lists them at their lines.

## 2. Modules

| Module | Models | Composition |
|---|---|---|
| `CardPeriods` | `_rolledPeriodStart` and the spend check as operators in uint48 | instantiated by `ClientPolicy`, extended by `CardIssuer` |
| `CardIssuer` | the card contract and block time | extended by `SubscriptionManager` |
| `PullMandate` | abstract: what a subscription lets others pull, and when | implemented by `SubscriptionManager` |
| `SubscriptionManager` | plans, subscriptions, `charge`, token balances | `CardIssuer` + manager |
| `ClientPolicy` | `ScrupleClient.fetch` over `PolicyTracker` | compared with a `CardPeriods` card |
| `Webhooks` | outbox, dispatcher, admin, crashes | – |
| `Service` | chain, indexer, at-risk monitor, keeper, crashes | – |
| `SerialQueue` | abstract: calls answered one by one in order | implemented by `RpcForwarder` |
| `RpcForwarder` | `createRpcForwarder` | – |
| `Checkout` | reducer and flows of the panel, wallet, other buyers | – |
| `Metering` | middleware, facilitator, forwarder, `/ingest` | server SDK + service |
| `EventViews` | `lib/events.ts`, `lib/cards.ts`: what the dashboard derives from event rows, as operators | extended by `Dashboard` |
| `Dashboard` | event feed, polls, multicalls, kept lists, change of wallet | `EventViews` + service + chain |
| `CardDrawer` | gallery, card drawer, mint form, wallet, chain | – |
| `Console` | webhook console, nudge, admin routes, event store | – |
| `MCSharedFunds` | a record, beside `Service`, of the renewals the at-risk monitor let pass | extends `Service` |
| `MCMerchant` | the merchant's lists and the console, one of them in use in each behaviour | extends `MCDashboard`, `Console` |
| `MCPayer` | client, metered routes and the cards view, one of them in use in each behaviour | extends all three |
| `MC*` | instances for TLC: symmetry, set-up states, balances | extend the above |
| `ProofBasics` | lemmas: induction, sums over finite sets, division | extended by the next three |
| `ContractProofs` | theorems of the card contract, the pull mandate, the manager | extends `SubscriptionManager` |
| `SdkProofs` | theorems of both sides of a metered request | extends `ClientPolicy`, `Metering` |
| `ScreensProofs` | theorems of the three views of the dashboard | extends `Dashboard`, `CardDrawer`, `Console` |
| `CheckoutProofs`, `WebhooksProofs`, `ServiceProofs`, `RpcForwarderProofs` | theorems of one module each | extend the module they are named for |

### Correspondence with the code

**CardIssuer.** One action per external function; its `revert`s are the guards.
`Truncate48` and the overflow of `start + duration` keep the width, with `U48`
a constant so that a small clock reaches it. `mintedAt` and `spentIn` are history:
what each accounting period, counted from the mint, was authorized to spend,
recorded independently of `periodStart` and `spentInPeriod`. `Tick` lets block time
pass by one; idle periods are several ticks.

**SubscriptionManager.** `charge` is two actions, by its branch: `ChargeLate`
(past grace: expire) and `ChargeOnTime` (card, schedule and both pulls). A revert
is a disabled action, since it changes nothing; that everything rolls back is
thereby assumed of the EVM, and what is checked is that the guards and the order
leave no state in which budget and money disagree. The token and its approvals are
external: a pull needs balance and allowance. Times are in units of the three days
of `GRACE`. `MandateOf` reads a stored subscription as a mandate of `PullMandate`:
open, cancelled or lapsed, with a due time. `charges` is history: the payments of a
subscription with the time they were made at and were due at.

**ClientPolicy.** Each call is a little process: requested, then (atomically, as
JavaScript runs between awaits) checked and reserved, then paying while others run
and time passes, then paid, failed or adjusted. `reservedAt` and `challenge` record
what was granted when; `card` runs a card contract's accounting on the same spends.

**Webhooks.** A table is a function on the keys that exist. `InsertEvent` is
the transaction of `insertEvent` with its enqueue. `StartBatch` reads the batch,
`Send` starts one awaited request, `Succeed` and `Fail` are its outcomes with their
`markAttempt`; `Fail` covers a timeout after the receiver got the body. `Crash`
loses the batch and the request in flight. `Elapse` is the passing of a
`next_attempt_at`.

**Service.** `stage` is where the loop is awaiting. The indexer reads a head, then
inserts log by log (`IndexLog` is one transaction, with its side effect on the
tracked subscriptions) and writes the cursor per chunk; monitor and keeper fix
their list and clock when they start, read one subscription at a time, and act on
what they read while the chain moves. `trackSub` and `deactivateSub` are the statements
of the store by these names: the second is an UPDATE, and changes nothing where there is
no row. The keeper's transaction is estimated, sent
and mined later (`pending`, `MineCharge`). Every read may fail, and the process may
die, between any two steps. A block holds one log, so a cursor is a position in
`log`.

**RpcForwarder.** `queue` is the promise chain, `phase` what its head awaits.
A response is its status and the kinds of its batch elements. `since` is the time
since the last request, saturated at the gap.

**Checkout.** `ui` is the reducer state with its guards, `task` the stack frames of
running flows (a flow survives the click that started it), `txs` the wallet's
transactions, which land in order, revert, or land after the flow gave up on them. No
subscription is cancelled or expires while the panel is open, so the filter of active ones
in `findExistingSubs` has nothing to drop. `busy` is `busyRef`. Loading, the card scan and
the subscription scan are one action each.

**Metering.** Requests settle concurrently; the facilitator settles an authorization
at most once and for its signed amount, and its answer may be lost; the post to
`/ingest` leaves after the response, and may be lost, late or doubled.

**EventViews and Dashboard.** An event row is a record of the fields the joins read;
an address has a spelling and an account (`Lower`), so that a comparison that forgets
to normalise is a wrong comparison here too. `history` is what the service will store,
`stored` how much of it there is. A poll is answered at once (`Poll`) or overtaken
(`PollSlow`, `Arrive`). `planData`, `versionData` and `subData` are the results of the
three multicalls, by position, with `Failed` where one contract failed; when the ids
change, the query has a new key and no data, or data cached earlier (`Rekey`): an older
answer, and one that failed for some contracts if a multicall ever failed; only an earlier
answer about versions is taken as complete. `whose` is history: the wallets connected
since the screen was opened. Every
step ends with `Render`, which is `useLastNonEmpty`. The figures (`revenueThisMonth`,
`daily`, `attnRows`, `feedRows`, `activity`) are functions of this state. `Open` is
another screen of the same page: its lists start anew.

**CardDrawer.** A write is asked of the wallet (`Toggle`, `Cancel`, `Mint`, up to their
await), answered there (`Confirm`, `Reject`), and mined in the order of nonces
(`Mine`). `detail` is the mounted component, with a number of its own, since an answer
may find another one in its place; its badge is set once, from the row that was shown
when it was mounted. `stream` is the shared feed as far as cards go: the row of a card, or
of something else. A page holds the cards of the newest `FeedLimit` rows of a poll
(`recentCards`), which may be answered at once (`PollFeed`) or overtaken (`PollFeedSlow`,
`PollArrives`), so a card whose row was pushed out leaves the gallery. `cache` is the
query's: what the multicall answered last for each set of cards it was asked about.

**Console.** A request is sent by a click, executed by the service (`Serve*`, one per
admin route) and heard by the screen (`RunEnds`, `RotateEnds`, `AddEnds`,
`NudgeEnds`), or fails on either side of its execution (`Fail`). `Refetch` answers at
once or is overtaken (`slow`, `RefetchArrives`), as with the polls of the feed.

## 3. Runs

With two workers a run takes from a few seconds to four minutes.

| Run | Distinct states | Question | Bounds |
|---|---|---|---|
| `card_accounting` | 44,824 | Does the accounting of a card hold in every order of operations and idle time? | 1 card, clock 0..7, durations 2, 3 and 30 with a word of 32 |
| `subscription` | 186,864 | Is a subscription a lawful pull mandate, from an empty deployment, and does every due one resolve? | 1 plan of 2 versions, 1 subscription, clock 0..5 |
| `shared_card` | 228,006 | Do budgets, charges and token balances tell one story when two subscriptions share cards and tokens? | 2 cards, 2 subscriptions, 2 prices, clock 0..4 |
| `client_rollover` | (violation) | Is the budget of every period held? | 3 calls, 3 prices, 3 periods |
| `webhooks` | 218,120 | Is anything lost, acknowledged without receipt, dead too early, repeated or left open? | 1 event, 2 endpoints, 2 retries, 1 resend, 2 changes, 1 crash |
| `service` | 205,088 | Do crashes and failing calls leave the store complete, is every due charge made, and does what was cancelled or expired leave the list? | 1 subscription with a trial of 1, no grace, clock 0..2, 1 error, 1 crash |
| `shared_funds` | (violation) | Is a renewal announced that fails though nothing moved since the monitor looked? | 2 subscriptions, one balance that covers one charge |
| `rpc_forwarder` | 329,161 | Is the chain a serial queue with a gap that answers everyone? | 3 calls, 3 attempts, gap 2 |
| `checkout` | 1,087,307 | Is the panel consistent with its flows, its ids the buyer's, one checkout one subscription? | 2 flows at once, 2 acts of other buyers |
| `merchant` | 370,041 | Are the figures the merchant's own and exact, do the lists settle, does the console reveal what works? | lists: 3 histories of 2 merchants and a customer, window 5, 1 failing multicall, 1 change of wallet; console: 1 endpoint, 2 requests, 1 failure, 1 period, 1 attempt |
| `other_wallet` | (violation) | Are the plans on screen those of the connected wallet? | 1 history of 1 merchant, 1 change of wallet |
| `payer` | 1,744,755 | Do concurrent fetches keep the budget as a card would, is what is served paid and what is recorded settled, does the drawer tell the truth and the gallery settle? | client: 3 calls, 3 prices, 3 periods; routes: 3 requests, 2 authorizations, 2 metered routes and a free one; cards: 2 cards, 2 writes, 2 drawers, a feed of 2 rows, 1 row of others, 1 failing read or overtaken poll |

### What the properties say

Each is stated in a comment beside its definition. Some are conjunctions of named
parts, so that one run of the model answers what belongs together:

* `AccountingInv` = types and `PeriodAligned`: the stored period is one of the mint's
  grid and its spend is what was authorized in it. `PeriodCeiling`, `BudgetRefreshes`
  and `CancelledNeverSpends` say what a customer relies on.
* `IsPullMandate` is the refinement of `PullMandate`; `LedgersAgree` that every authorized
  spend is a payment of that card's subscription, period by period, and that tokens
  move by payments and their 1% only; `RenewalsResolve` that no renewal stays open.
* `TrackerInv` = types, the tracker counts each reservation once, and the budget of a
  period holds unless a release crossed a rollover; `MirrorsCardIssuer` compares its
  decisions with a card contract's.
* `OutboxInv` (no event without its deliveries), `OutcomesAreEarned` (delivered was
  received, dead tried everything), `StaleAtMostOnce`, `DeliveredOnlyOnce`,
  `DeliveriesSettle`.
* `IndexInv` = types, no gap below the cursor, and every active subscription that was
  indexed is watched; `NoResurrection`, `DueIsCharged`, and `EndedIsForgotten`: what was
  cancelled, or expired by a late charge, leaves the list of the keeper for good.
* `WarnedFirst`, which fails: when the monitor found every renewal payable ahead of its
  date, and no money moved but by charges, none fails without a warning.
* `ForwarderInv` (a rate-limited answer only from the last attempt), `ImplementsQueue`,
  `GapHeld`, `EveryoneIsAnswered`.
* `PanelInv` (a spinner exactly while a flow is at that stage, and none for good),
  `IdsAreSafe`, `OneSubscription`, `NoFalseWarning`.
* `ServedIsPaid`, `RevenueIsSettled`.
* `OnlyMine` compares every list and figure of the feed with the chain's own account of
  who owns what. The kept lists outlive a change of the wallet: of them it says
  (`KeptMine`) that they hold rows of a wallet connected since the screen was opened, and,
  as soon as there are rows of the present one, no others. `PlansAreOwn`, which fails, is
  that the rows of an earlier wallet go in the end. `HeadlineIsExact` compares the revenue
  with the earnings of the whole history; `ListsInv` says that a plan is listed at the
  price of its own version, and `PlansSettle` that the list ends up as the chain is.
* `DrawerInv`: in a drawer opened with nothing under way for its card, the badge is the
  state the card is heading for, and nothing sent from it reverts. `GallerySettles`: the
  gallery ends up with the cards whose rows are among the newest, as they are on chain,
  and with all of them as long as none was pushed out.
* `RotatedSecretWorks`, `RefreshShowsMutation`, `ConsoleInv` (one nudge per period) and
  `ConsoleSettles` for the console.

**Why the bounds are enough to be of interest.** A card sees at least two rollovers, one
after an idle period, and a duration that does not fit its word. In `subscription` a plan
is repriced and a charge can be on time, in grace, at the last moment of grace and too
late; in `shared_card` two charges compete for one budget across a rollover. Three
concurrent fetches can hold, release and adjust reservations on both sides of a rollover.
The retry table of length two has a first attempt, a middle and a last; two endpoints give
a batch of two, so that one row is stale while the other is awaited. In `service` the log
is longer than a chunk and the crash may fall between any two transactions; a replay is
then of more than one log. With a trial of one and no grace a subscription is charged in
time, or cancelled, or lapses and is expired by the keeper's late charge, all before the
clock ends. Three calls queue behind a retried head. Two flows overlap, which is what the
guard against a second click is for, and the second may be the retry of the first. The
histories of `merchant` have rows of two merchants at one instant, rows that the window
cuts off, a sale seen from both sides, a repriced plan between others, and a subscription
flagged and then cancelled; two answers may be overtaken by one another, and one multicall
fails for any subset of its contracts. A feed of two rows holds both cards until a row of
somebody else's pushes one out, between the two cards or after them; an overtaken poll
brings a card back for a while. Two writes are a toggle answered late and a write against
what it left; `BadgesTellTheTruth` covers any number. Two requests and one held up refetch
are a race. Each property is broken by the mutation `PROJECT.json` names for it under
these very bounds. Bounds appear as named constants (`Max...`) in guards.

`CHECK_DEADLOCK FALSE` appears where a run really ends: all calls answered, all
flows used up, all events delivered.

The parts of `MCMerchant` and of `MCPayer` share no state in the code either: lists and
console are screens of which `app/page.tsx` mounts one at a time, and the client, the API
it pays for and the gallery of cards run on three machines and keep nothing in common. In
a behaviour of these runs one part is in use and the others stay at their initial states,
which keeps the state space a sum.

**`subscription` starts empty, `shared_card` in a set-up state.** The latter
(`SetUp` in `MCSubscription`) is what a deployment reaches at time 0: manager
authorized, two cards minted and approved, one plan on sale.

### Fairness

* `subscription`: time passes and some `charge` call is made while one is possible.
  The service's keeper polls for ever, and the function is open to anyone; `tick`
  reschedules itself whatever it returned.
* `webhooks`: `setTimeout` fires, the loop ticks on, and every request ends:
  `AbortSignal.timeout` bounds it. Nothing is assumed of receivers.
* `service`: the loop goes on (every RPC call settles) and a transaction that was
  sent is mined. Failing calls and crashes are bounded in number, so "eventually"
  means: once the node works again.
* `rpc_forwarder`: timers fire and an upstream request settles. The code sets no
  timeout of its own there; an upstream that never settles holds the chain.
* `merchant`, `other_wallet`, `payer`: the poll intervals fire for as long as a page is
  open, a request that was sent is answered or fails, the chain mines what was sent and
  the service indexes it. Nothing is assumed of a merchant's clicks or of the wallet's
  user. Failing reads are bounded in number. The client and the metered routes of `payer`
  have no fairness; their properties are safety properties.
* `checkout`: none, for the same reason.

### Disagreements found

1. `client_rollover`: `release()` gives a reservation of the last period back to the
   current one (`policy.ts:63`), so the calls of a period may together spend more
   than `periodBudget`. `payer` shows the budget does hold, and the tracker
   is exact, as long as no release crosses a rollover.
2. `shared_funds`: each subscription is checked against the whole balance
   (`atrisk.ts:45`). Of two that one balance cannot both pay, both pass the check ahead of
   their date; the first is charged, the second fails without a warning, though the
   monitor "predicts failing renewals BEFORE the charge date" (`atrisk.ts:18`).
3. `other_wallet`: after a switch to a wallet without plans, the plans of the other one
   stay on screen until it is closed, since `useLastNonEmpty` is not told of the wallet
   (`use-last-non-empty.ts:24`); `use-merchant.ts:3-5` says they are those of the
   connected wallet. Subscriptions are kept in the same way.

Seen while modelling, and in the models, but with no sentence of the repository that
speaks against them, so that no run states them:

* After a receipt is given up on and the transaction lands, the retry subscribes again,
  and the panel's note about an existing subscription is not shown
  (`use-checkout.ts:71`). `OneSubscription` leaves out what a flow gave up on.
* A resend granted while the same row is awaited is overwritten by the late
  `markAttempt` (`webhooks.ts:63`).
* An endpoint paused during a batch still gets the rest of it, at most once per
  delivery (`StaleAtMostOnce`).
* The keeper reports `payment.overdue` for a charge somebody else made between its read
  and its call (`keeper.ts:54`), and the monitor can announce a renewal that was just
  paid.
* A plan period close to 2^48 seconds wraps `nextChargeAt` around
  (`SubscriptionManager.sol:138`), since plans bound it from below only: the reason for
  the hypothesis `ShortPeriods` below.
* A card is found by its `card.created` row, and the feed is cut to the newest 200 rows of
  all merchants: once enough other rows came, a card that lives on chain is no longer in
  the gallery (`app/api/events/route.ts:19`, `use-cards.ts:34`).
* A poll that was read before a mutation and arrives last shows the old list until the
  next poll (`use-admin.ts:134`); `RefreshShowsMutation` is about the refetch a mutation
  awaits itself.
* The confirmation of a cancel closes whichever drawer is open when it comes
  (`cards.tsx:200`), and the mint form, unlike the drawer, is not guarded against a
  second submit before its button is disabled.
* The badge of a drawer is set once from the row on which it was opened: when that row
  was old, the badge stays wrong and a toggle sends the write that reverts.

## 4. Proofs

TLAPS (with Z3, Zenon and LS4) checks these for every value of the constants that
satisfies the named assumptions: every invariant and every action property of a passing
run, and both refinements, is stated by a theorem. Only liveness is left to the runs.

The assumptions on constants say what the code's types say: bounds and prices are natural
numbers, accounts, plans and cards are finite where the model adds over them, and a value
that stands for "none" (`None`, `NoCard`, `NoWallet`) is not one of the values it stands
beside. The runs evaluate all of them. A hypothesis that the code does *not* enforce is
written into the theorem instead; there are two, `ShortPeriods` and `SeparateParties`.

**`ProofBasics`.** The models add up balances, charges, reservations and dollars with
`FoldFunction`, which is defined by recursion over a set. `SumIsTable` shows that the
recursion has one solution (by a minimal set on which two tables could differ), and the
lemmas after it are what the components cite: a sum with one term taken out, changed or
added, a sum over two disjoint sets, over fewer elements, of larger terms. Induction is
stated for sets (`NaturalInduction`, `MinimalSubset`), since the library's induction
theorems have an operator as a parameter. `GridPoint` and `QuotientUnique` are the
division that periods need.

**`ContractProofs`: cards.** `CardTypeOK` is inductive by itself. `CeilingHolds` is not:
that a spend fits is decided from `spentInPeriod`, which says nothing of history unless
the stored period is aligned with it, and a rollover divides by the duration, which is
not zero only for a minted card. The invariant is `CardInv`; the arithmetic core (where a
rolled start lies, that it is a grid point, that an idle card has spent nothing in its new
period) is in lemmas. `AccountingExact`, `BudgetComesBack` and the action property
`CancelIsFinal` follow from the same invariant.

**`ContractProofs`: mandates.** The invariant of `PullMandate`, for any subscriptions,
sums, clock and window, says that the window of every payment is over before the time now
due, which ties what a step knows (the mandate) to what the property compares (any two
payments). From it `OncePerWindowHolds`: no two payments for one due time, each in its own
grace. `SubscriptionIsMandate` is the refinement: `subscribe` maps to granting a mandate,
`ChargeOnTime` to a payment, `ChargeLate` to a lapse, `cancel` to a cancellation, and all
else stutters. It needs `ManagerInv`, which says which rows a call can reach (every version
of a plan up to its latest one was checked, and a subscription with a customer is of an
active plan and a card), and the hypothesis `ShortPeriods`: no period or trial is so long
that adding it to the clock leaves the uint48. `NoDoubleCharge` carries the mandate's
theorem over to the contract. The manager's actions are written with the card's own, so a
step of the manager is a step of `CardIssuer` or leaves the cards alone (the lemma
`CardsRunAsSpecified`), and the card's ceiling holds of the composition, with several
subscriptions on one card (`SharedCardCeiling`).

**`ContractProofs`: ledgers.** Two things are kept apart. `BudgetsArePayments` needs no
hypothesis: a card's spend in a period is the sum of the charges that were made on it. A
charge adds one term to one of these sums, and no other step may change which card or plan
an old charge counts on (`RowsInv`). `LedgersHold` equates balances with sums of charges
for the treasury and each merchant, and needs `SeparateParties`: an account that both
sells and subscribes spends what it received, so its balance alone says nothing. The
contract asks for no such separation; that no token is made or lost does not rest on it
(`MovedTotal`).

**`SdkProofs`: the client.** The tracker keeps a number and `TrackerExact` compares it with
a sum over the calls in flight; each of reserve, release and adjust changes one term.
Two things make this inductive: every reservation that is held was made in a period the
tracker has reached (`ReservationsInv`), so that a rollover empties the sum, and the card
that is compared may be in an earlier period than the tracker, in which case the tracker
has spent nothing since (`CardInSync`): the tracker rolls at every question, the card only
at a spend. From it `BudgetIsKept` and `ClientMirrorsCard`.

**`SdkProofs`: the server**, for any requests, routes, prices and authorizations. The
invariant follows a payment: a verdict "settled" has an authorization of the
route's price spent on this request behind it, a served metered request has that
verdict, what is posted was served, and what is stored was posted, once per id.
`ServedOnlyPaid` and `RevenueOnlySettled` are its consequences.

**`WebhooksProofs`**, for any events, endpoints, retry table, crashes, changes and
resends. The tables alone do not carry the properties: what the dispatcher writes comes
from the copy it read. `DispatchInv` therefore relates each copy in the batch and the
one in flight to the row it was read from (it says no more attempts than the row, and a
copy of a row that is delivered by now is not left in the batch), and counts for each
delivery how often an old snapshot may still be used. From it: `OutboxComplete`,
`OutcomesEarned`, `OldSnapshotsEnd` and the action property `DeliveredIsFinal`.

**`ServiceProofs`**, for any subscriptions, chunk size, periods, crashes and failing
calls. That "inactive" is final, and that active subscriptions are watched, does not
follow from the tables, which know no order of logs. `TrackInv` ties them to the chain:
a subscription is "unknown" exactly as long as the log that created it has no event;
with `LogInv` (one creation per subscription; an end is logged of what ended) a replayed
creation is never the first, and the side effect is not repeated. From it:
`IndexComplete` and `ReplayIsHarmless`.

**`RpcForwarderProofs`**, for any set of calls, gap, backoff and number of attempts.
The invariant counts requests per call: none for a call that waits, as many as
attempts for the head, and says that the gap's timer covers what is left of the gap.
From it: `LimitedLast`, the action property `GapIsHeld`, and
`ForwarderImplementsQueue`, by a step simulation into `SerialQueue`: `Forward`
maps to a call, `Settle` to an answer, all else stutters.

**`CheckoutProofs`**, for any number of clicks, flows, transactions, retries and acts of
other buyers. `busyRef` lets one flow run at a time (`OneFlow`), so the step the panel
shows is that flow's stage (`Stages`): that is `PanelTellsTheTruth`. An id that was read
before a write is at most one past what exists and exists once the write has landed
(`Ids`), whoever wrote in between; with `Owners` this gives `IdsStaySafe`. A subscription
that counts belongs to the flow that runs or has ended the checkout (`Paid`), hence
`SubscribesOnce`, and a flow that began with the note up had a subscription before it
paid (`Notes`), hence `WarnsRightly`.

**`ScreensProofs`: the merchant view**, for any histories, wallets, window and failing
reads. `FeedInv` says that a page only ever holds rows of the history, however old the
answer, and the history agrees with the chain (`HistoriesAgree`: the indexer decodes what
was logged, and inserts it in order from the deployment's block on). `ScopeIsMine`: the
scope computed from any subset of such rows holds plans and subscriptions of the wallet
only. The kept lists are older than the scope: `KeptInv` says whose rows they may hold,
for which `RowsAreMine` is needed, that every row joined from scope and answers is the
present wallet's. From these `NothingOfOthers`. `RowsAreJoined` is about two multicalls
joined by position: the second one asks for the plans the first one answered for, so the
place of a plan's version is the rank of the plan among the answered ones, and
`AscendingLists` shows that a list sorted by id has each id at its rank.
`HeadlineTellsTheTruth` splits the sum over the rows on the page: each row in it was a
payment to the wallet (`BarsAreMine` splits it further by days, which is where `Days *
DayLen <= Span` is needed), and while the window holds every row none is missing, since a
charge's subscription and plan come before it in the feed (`InChainOrder`).

**`ScreensProofs`: the console.** What makes the properties inductive is what a request on
its way may still do. `CallsInv` tells requests apart, `BusyInv` says that the buttons wait
for one action and its own refetch, `ListedInv` that the rows of that refetch are still the
service's when they arrive, `AnswersInv` that an answer to a rotation is the secret the
service signs with, and `NudgesInv` that an accepted nudge is either news or told. From it
`RotationsAreShown`, `MutationsAreShown` and `NudgesDoNotPileUp`.

**`ScreensProofs`: the cards view.** `BadgesTellTheTruth`: in a drawer opened with nothing
under way, every write to its card is its own (`BadgeInv`), the wallet has one request of
it at most (`OpenInv`), and where a card is heading (the last of its pending transactions,
or its state on chain) does not change when a transaction is mined (`HeadingMined`), so the
badge set by the answer stays right however late the blocks are. That nothing reverts is
`FreshInv`: a toggle was asked of a card that was not cancelled, and nothing cancels it
before its turn.

**Only model-checked.** Every liveness property (`RenewalsResolve`, `DeliveriesSettle`,
`DueIsCharged`, `EndedIsForgotten`, `EveryoneIsAnswered`, `PlansSettle`, `GallerySettles`,
`ConsoleSettles`), since the prover has no rules for fairness and for ENABLED; and the three
claims that runs refute.

## 5. Not modelled

* Text: price strings, route normalisation, header and JSON coding, signatures of
  webhooks, wording of events. Routes are compared after normalisation.
* Authentication, paging and rate limits of the admin API; the status codes and headers
  of the proxies.
* In the dashboard: the forms for plans and their versions (one write each, with the
  refetch of the merchant view behind them), layout, formatting, navigation bar and theme.
* Wallet picker, demo shop, examples, deploy script, vendored libraries: no state of
  their own beyond an open/closed flag.
* The react-query caches behind the panel's reads: one action stands for the three
  aligned reads of a card scan. The same kind of join is modelled with its caches in
  `Dashboard`.
* A settlement whose answer is lost on the client's side: nothing in the code or its
  docs says what the budget then means.
* Nodes that answer with a state older than the logs they served: the service takes
  an empty answer for an ended subscription and forgets it. The models read the
  latest state.
* Chain reorganisations: the code has no handling for them.
* Two readings of the clock within one synchronous block are taken to be equal.

## 6. Plan

Done: all components with state of their own, their composition where they share state,
and a proof of every safety property a run checks. What a next step could add, in this
order:

1. `PaidApi`: ClientPolicy composed with Metering, for the budget when the answer of a
   settled payment is lost, once the repository says what it should be.
2. What liveness rests on, as action properties and invariants that can be proved: that
   every step of the keeper's tick brings it nearer to its end (a variant), that a
   delivery's attempts never fall, that a queue's head is always enabled but for its timer.
3. The checkout's card scan with its three queries, and the loading gate over them, in
   the manner of `Dashboard`.
4. Service with a node that lags behind the logs it served, and the dispatcher of
   `Webhooks` fed by `Service`.
5. The price texts of the server SDK, as functions over bounded inputs.
