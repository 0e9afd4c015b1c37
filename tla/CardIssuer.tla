------------------------------ MODULE CardIssuer ------------------------------
(***************************************************************************)
(* The spending-policy cards of contracts/src/CardIssuer.sol.              *)
(*                                                                         *)
(* A mapping of the contract is a total function whose entries are zero    *)
(* until written, as in the EVM.  Every external function is one action: a *)
(* transaction is atomic, and a call that reverts is a step that does not  *)
(* happen, so each `revert` is a conjunct of a guard.  The error a revert  *)
(* carries is left out (no property tells the errors apart), and so are    *)
(* the events and the card's signer, which no function of the contract     *)
(* reads.  A uint48 keeps its width (U48); uint256 amounts are unbounded:  *)
(* an overflow of `spent + amount` reverts, and so does the OverBudget     *)
(* outcome that the unbounded sum gives there.                             *)
(***************************************************************************)
EXTENDS Integers, FiniteSets, CardPeriods

CONSTANTS
    Address,        \* every account but the zero address
    ZeroAddress,    \* owner of a card that was never minted
    Admin,          \* deployer of the contract
    Charger,        \* contracts or accounts that may be made chargers
    Owner,          \* accounts that mint cards
    Merchant,       \* payees an allowlist may name
    Token,          \* ERC-20 tokens
    Budget,         \* values of periodAmount tried
    Duration,       \* values of periodDuration tried
    Expiry,         \* values of expiry tried (0 = no expiry)
    Amount,         \* amounts a charger asks for
    MaxCards,       \* bound: cards minted
    MaxTime         \* bound: last block.timestamp

ASSUME AccountAssumption ==
    /\ IsFiniteSet(Address) /\ ZeroAddress \notin Address
    /\ Charger \subseteq Address /\ Owner \subseteq Address
    /\ Merchant \subseteq Address /\ Admin \in Address

ASSUME AmountAssumption == Budget \subseteq Nat /\ Amount \subseteq Nat

\* Timestamps stay below 2^48 seconds for the next nine million years.
ASSUME WidthAssumption ==
    /\ U48 \in Nat /\ MaxTime \in Nat /\ MaxTime < U48
    /\ MaxCards \in Nat
    /\ Duration \subseteq 0..(U48 - 1) /\ Expiry \subseteq 0..(U48 - 1)

CardIds == 0..(MaxCards - 1)
CardState == {"Active", "Frozen", "Cancelled"}

Card == [owner: Address \cup {ZeroAddress}, token: Token \cup {ZeroAddress},
         periodAmount: Budget \cup {0}, periodDuration: Duration \cup {0},
         expiry: Expiry \cup {0}, state: CardState,
         periodStart: 0..MaxTime, spentInPeriod: Nat, useAllowlist: BOOLEAN]

\* What `_cards[id]` reads as before mintCard wrote it.
ZeroCard == [owner |-> ZeroAddress, token |-> ZeroAddress, periodAmount |-> 0,
             periodDuration |-> 0, expiry |-> 0, state |-> "Active",
             periodStart |-> 0, spentInPeriod |-> 0, useAllowlist |-> FALSE]

VARIABLES
    now,                 \* block.timestamp
    nextCardId,
    cards,               \* _cards
    allowlist,           \* [card id -> set of allowed merchants]
    authorizedChargers,
    mintedAt,            \* history: the time each card was minted
    spentIn              \* history: total authorized in each accounting period

cardVars == <<nextCardId, cards, allowlist, authorizedChargers, mintedAt, spentIn>>

---------------------------------------------------------------------------
(* The spending check. *)

\* Accounting period (counted from the mint) that time t falls in.
PeriodOf(id, t) == (t - mintedAt[id]) \div cards[id].periodDuration

\* _checkSpend answers Ok for a charge at time t.
Spendable(id, merchant, amount, t) ==
    LET c == cards[id]
    IN  /\ c.periodDuration # 0
        /\ c.state = "Active"
        /\ c.expiry = 0 \/ t <= c.expiry
        /\ c.useAllowlist => merchant \in allowlist[id]
        /\ ~RollOverflows(c)
        /\ RolledSpent(c, t) + amount <= c.periodAmount

\* The storage writes of authorizeSpend, for a spend that passed the check.
RecordSpend(id, amount) ==
    /\ cards' = [cards EXCEPT
            ![id].periodStart = RolledStart(cards[id], now),
            ![id].spentInPeriod = RolledSpent(cards[id], now) + amount]
    /\ spentIn' = [spentIn EXCEPT ![id][PeriodOf(id, now)] = @ + amount]
    /\ UNCHANGED <<nextCardId, allowlist, authorizedChargers, mintedAt>>

---------------------------------------------------------------------------
(* The contract's external functions. *)

CardInit ==
    /\ now = 0
    /\ nextCardId = 0
    /\ cards = [id \in CardIds |-> ZeroCard]
    /\ allowlist = [id \in CardIds |-> {}]
    /\ authorizedChargers = {}
    /\ mintedAt = [id \in CardIds |-> 0]
    /\ spentIn = [id \in CardIds |-> [k \in 0..MaxTime |-> 0]]

\* setChargerAuthorization, called by the admin.
SetChargerAuthorization(charger, authorized) ==
    /\ authorizedChargers' = IF authorized THEN authorizedChargers \cup {charger}
                                           ELSE authorizedChargers \ {charger}
    /\ UNCHANGED <<nextCardId, cards, allowlist, mintedAt, spentIn>>

ValidDuration(duration) == duration # 0

MintCard(owner, token, budget, duration, expiry, allowed) ==
    /\ ValidDuration(duration)
    /\ nextCardId < MaxCards
    /\ nextCardId' = nextCardId + 1
    /\ cards' = [cards EXCEPT ![nextCardId] =
            [owner |-> owner, token |-> token, periodAmount |-> budget,
             periodDuration |-> duration, expiry |-> expiry, state |-> "Active",
             periodStart |-> Truncate48(now), spentInPeriod |-> 0,
             useAllowlist |-> allowed # {}]]
    /\ allowlist' = [allowlist EXCEPT ![nextCardId] = @ \cup allowed]
    /\ mintedAt' = [mintedAt EXCEPT ![nextCardId] = now]
    /\ UNCHANGED <<authorizedChargers, spentIn>>

SetCardState(id, state) ==
    /\ cards' = [cards EXCEPT ![id].state = state]
    /\ UNCHANGED <<nextCardId, allowlist, authorizedChargers, mintedAt, spentIn>>

Freeze(caller, id) ==
    /\ cards[id].owner = caller
    /\ cards[id].state # "Cancelled"
    /\ SetCardState(id, "Frozen")

\* Mutant: unfreeze forgets that a cancelled card stays cancelled.
UnfreezeAnything(caller, id) ==
    /\ cards[id].owner = caller
    /\ SetCardState(id, "Active")

Unfreeze(caller, id) ==
    /\ cards[id].owner = caller
    /\ cards[id].state # "Cancelled"
    /\ SetCardState(id, "Active")

CancelCard(caller, id) ==
    /\ cards[id].owner = caller
    /\ SetCardState(id, "Cancelled")

\* authorizeSpend, called by charger.
AuthorizeSpend(charger, id, merchant, amount) ==
    /\ charger \in authorizedChargers
    /\ Spendable(id, merchant, amount, now)
    /\ RecordSpend(id, amount)

\* A later block: seconds pass, nothing is written.
Tick ==
    /\ now < MaxTime
    /\ now' = now + 1
    /\ UNCHANGED cardVars

\* The calls any account can make that need no charger.
OwnerStep ==
    \/ \E o \in Owner, tk \in Token, b \in Budget, d \in Duration, x \in Expiry,
          allowed \in SUBSET Merchant : MintCard(o, tk, b, d, x, allowed)
    \/ \E o \in Address, id \in CardIds :
          Freeze(o, id) \/ Unfreeze(o, id) \/ CancelCard(o, id)

AdminStep ==
    \E ch \in Charger, on \in BOOLEAN : SetChargerAuthorization(ch, on)

ChargerStep ==
    \E ch \in Charger, id \in CardIds, m \in Merchant, a \in Amount :
        AuthorizeSpend(ch, id, m, a)

CardNext ==
    \/ Tick
    \/ UNCHANGED now /\ (OwnerStep \/ AdminStep \/ ChargerStep)

CardSpec == CardInit /\ [][CardNext]_<<now, cardVars>>

---------------------------------------------------------------------------
(* Properties. *)

\* The types of the contract's storage and of the history variables.
CardTypeOK ==
    /\ now \in 0..MaxTime
    /\ nextCardId \in 0..MaxCards
    /\ cards \in [CardIds -> Card]
    /\ allowlist \in [CardIds -> SUBSET Merchant]
    /\ authorizedChargers \subseteq Charger
    /\ mintedAt \in [CardIds -> 0..MaxTime]
    /\ spentIn \in [CardIds -> [0..MaxTime -> Nat]]

\* The customer's hard ceiling: however charges, freezes and rollovers follow
\* one another, the spends authorized in one accounting period (a window of
\* periodDuration counted from the mint) never sum to more than periodAmount.
PeriodCeiling ==
    \A id \in CardIds, k \in 0..MaxTime : spentIn[id][k] <= cards[id].periodAmount

\* The storage the check reads agrees with the history: a card's periodStart is
\* the start of an accounting period of the mint's own grid, that period's spend
\* is exactly spentInPeriod, and no later period has a spend.
Aligned(id) ==
    LET c == cards[id]
        k == PeriodOf(id, c.periodStart)
    IN  /\ mintedAt[id] <= c.periodStart /\ c.periodStart <= now
        /\ c.periodStart = mintedAt[id] + k * c.periodDuration
        /\ spentIn[id][k] = c.spentInPeriod
        /\ \A j \in 0..MaxTime : j > k => spentIn[id][j] = 0

\* Rollovers keep the accounting exact: whatever order charges and idle time come
\* in, every minted card stays aligned with what was really authorized on it.
PeriodAligned == \A id \in 0..(nextCardId - 1) : Aligned(id)

\* Storage is well-typed, and exact about what each card spent in its period.
AccountingInv == CardTypeOK /\ PeriodAligned

\* The budget comes back: a live card whose remaining budget is too small is
\* spendable again, up to the whole periodAmount, from the first second of its
\* next period (unless it expires before, or the end of its period does not fit
\* in a uint48).
BudgetRefreshes ==
    \A id \in 0..(nextCardId - 1) :
        LET c == cards[id]
            nextPeriod == c.periodStart + c.periodDuration
        IN  /\ c.state = "Active"
            /\ ~RollOverflows(c)
            /\ c.expiry = 0 \/ nextPeriod <= c.expiry
            => \A m \in Merchant : (c.useAllowlist => m \in allowlist[id])
                    => Spendable(id, m, c.periodAmount, nextPeriod)

\* A card id is given once: everything at or above nextCardId is still unwritten,
\* everything below it has a period, so that _rolledPeriodStart never divides by 0.
MintedOnce ==
    /\ \A id \in 0..(nextCardId - 1) : cards[id].periodDuration # 0
    /\ \A id \in nextCardId..(MaxCards - 1) :
            cards[id] = ZeroCard /\ spentIn[id] = [k \in 0..MaxTime |-> 0]

\* Cancelling is for good: neither unfreeze nor freeze brings a cancelled card
\* back, and nothing more is ever authorized on it.
CancelledNeverSpends ==
    [][\A id \in CardIds : cards[id].state = "Cancelled" =>
            cards'[id].state = "Cancelled" /\ spentIn'[id] = spentIn[id]]_<<now, cardVars>>

=============================================================================
