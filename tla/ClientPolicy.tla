----------------------------- MODULE ClientPolicy -----------------------------
(***************************************************************************)
(* The paying side of metered requests: ScrupleClient.fetch                *)
(* (packages/client/src/client.ts) and the PolicyTracker it asks           *)
(* (packages/client/src/policy.ts).                                        *)
(*                                                                         *)
(* Calls of fetch run concurrently on one JavaScript thread: what happens  *)
(* between two awaits is one action.  A call waits twice, for the first    *)
(* response and for gateway.pay, and the clock and the other calls move in *)
(* between.  The two readings of the clock inside check and record, or     *)
(* release and record, are taken to be equal.                              *)
(***************************************************************************)
EXTENDS Integers, FiniteSets, Functions

CONSTANTS
    Call,           \* calls of fetch, each used once
    Price,          \* atomic amounts a challenge may ask
    Origin,         \* origins requests are sent to
    AllowedOrigins, \* policy.allowedOrigins
    PerTxCap,       \* policy.perTxCap
    PeriodBudget,   \* policy.periodBudget
    PeriodMs,       \* policy.periodMs
    MaxTime         \* bound: last reading of the clock

ASSUME PolicyAssumption ==
    /\ Price \subseteq Nat /\ PerTxCap \in Nat /\ PeriodBudget \in Nat
    /\ PeriodMs \in Nat \ {0} /\ MaxTime \in Nat

VARIABLES
    now,
    periodStart, spent,     \* the PolicyTracker
    pc,                     \* where each call is
    atomic,                 \* amount a call reserved, later the amount it paid
    reservedAt,             \* history: when a call reserved
    challenge,              \* history: the amount it was challenged for
    card,                   \* history: a CardIssuer card with the same policy, debited
                            \* with every reservation
    released,               \* history: some reservation was taken back
    carried                 \* history: ... after its period was over

tracker == <<periodStart, spent>>
history == <<reservedAt, challenge, card, released, carried>>
vars == <<now, tracker, pc, atomic, history>>

\* The rollover of the card contract, on the client's clock (never near 2^48).
CardIssuer == INSTANCE CardPeriods WITH U48 <- 2 * (MaxTime + PeriodMs) + 1

PeriodOf(t) == t \div PeriodMs

---------------------------------------------------------------------------
(* PolicyTracker. *)

\* Mutant: the period ends a millisecond late.
RolledOverLate == now - periodStart > PeriodMs

\* roll(): whole periods move the start and clear the spend.
RolledOver == now - periodStart >= PeriodMs
StartNow == IF RolledOver
            THEN periodStart + ((now - periodStart) \div PeriodMs) * PeriodMs
            ELSE periodStart
SpentNow == IF RolledOver THEN 0 ELSE spent

\* check(): the decision, on the rolled state.
Allowed(amount, origin) ==
    /\ origin \in AllowedOrigins
    /\ amount <= PerTxCap
    /\ SpentNow + amount <= PeriodBudget

SetSpent(value) == periodStart' = StartNow /\ spent' = value

\* release() floors at zero.
Minus(a, b) == IF a >= b THEN a - b ELSE 0

---------------------------------------------------------------------------
(* ScrupleClient.fetch. *)

Init ==
    /\ now = 0
    /\ periodStart = 0 /\ spent = 0
    /\ pc = [c \in Call |-> "requested"]
    /\ atomic = [c \in Call |-> 0]
    /\ reservedAt = [c \in Call |-> 0]
    /\ challenge = [c \in Call |-> 0]
    /\ card = [periodAmount |-> PeriodBudget, periodDuration |-> PeriodMs,
               periodStart |-> 0, spentInPeriod |-> 0]
    /\ released = FALSE /\ carried = FALSE

\* The first response is not a payable challenge: no 402, no header, no amount.
NoChallenge(c) ==
    /\ pc[c] = "requested"
    /\ pc' = [pc EXCEPT ![c] = "unpaid"]
    /\ UNCHANGED <<now, tracker, atomic, history>>

\* A 402 the policy refuses: check() rolled the period, nothing is reserved.
Refuse(c, amount, origin) ==
    /\ pc[c] = "requested" /\ amount > 0
    /\ ~Allowed(amount, origin)
    /\ SetSpent(SpentNow)
    /\ pc' = [pc EXCEPT ![c] = "refused"]
    /\ UNCHANGED <<now, atomic, history>>

\* A 402 the policy allows: check, record and the call of gateway.pay, one step.
Reserve(c, amount, origin) ==
    /\ pc[c] = "requested" /\ amount > 0
    /\ Allowed(amount, origin)
    /\ SetSpent(SpentNow + amount)
    /\ pc' = [pc EXCEPT ![c] = "paying"]
    /\ atomic' = [atomic EXCEPT ![c] = amount]
    /\ reservedAt' = [reservedAt EXCEPT ![c] = now]
    /\ challenge' = [challenge EXCEPT ![c] = amount]
    /\ card' = [card EXCEPT
            !.periodStart = CardIssuer!RolledStart(card, now),
            !.spentInPeriod = CardIssuer!RolledSpent(card, now) + amount]
    /\ UNCHANGED <<now, released, carried>>

Released(c) ==
    /\ released' = TRUE
    /\ carried' = (carried \/ PeriodOf(reservedAt[c]) # PeriodOf(now))
    /\ UNCHANGED <<reservedAt, challenge, card>>

\* gateway.pay rejects: the reservation is released.
PayFails(c) ==
    /\ pc[c] = "paying"
    /\ SetSpent(Minus(SpentNow, atomic[c]))
    /\ pc' = [pc EXCEPT ![c] = "failed"]
    /\ Released(c)
    /\ UNCHANGED <<now, atomic>>

\* gateway.pay settles for the amount reserved (or does not report one).
PaySettles(c) ==
    /\ pc[c] = "paying"
    /\ pc' = [pc EXCEPT ![c] = "paid"]
    /\ UNCHANGED <<now, tracker, atomic, history>>

\* Mutant: the amount paid is recorded on top of the reservation.
PayAdjustsTwice(c, amount) ==
    /\ pc[c] = "paying" /\ amount # atomic[c]
    /\ SetSpent(SpentNow + amount)
    /\ pc' = [pc EXCEPT ![c] = "paid"]
    /\ atomic' = [atomic EXCEPT ![c] = amount]
    /\ Released(c)
    /\ UNCHANGED now

\* gateway.pay reports another amount: release, then record what was paid.
PayAdjusts(c, amount) ==
    /\ pc[c] = "paying" /\ amount # atomic[c]
    /\ SetSpent(Minus(SpentNow, atomic[c]) + amount)
    /\ pc' = [pc EXCEPT ![c] = "paid"]
    /\ atomic' = [atomic EXCEPT ![c] = amount]
    /\ Released(c)
    /\ UNCHANGED now

Tick == now < MaxTime /\ now' = now + 1 /\ UNCHANGED <<tracker, pc, atomic, history>>

Next ==
    \/ Tick
    \/ \E c \in Call :
        \/ NoChallenge(c)
        \/ \E a \in Price, o \in Origin : Refuse(c, a, o) \/ Reserve(c, a, o)
        \/ PayFails(c) \/ PaySettles(c)
        \/ \E a \in Price : PayAdjusts(c, a)

Spec == Init /\ [][Next]_vars

---------------------------------------------------------------------------
(* Properties. *)

\* The tracker's and the calls' types; the tracked period is on the grid of periodMs.
TypeOK ==
    /\ now \in 0..MaxTime
    /\ periodStart \in 0..now /\ periodStart % PeriodMs = 0
    /\ spent \in Nat
    /\ pc \in [Call -> {"requested", "unpaid", "refused", "paying", "failed", "paid"}]
    /\ atomic \in [Call -> Price \cup {0}]

Holding == {c \in Call : pc[c] \in {"paying", "paid"}}
Total(f, S) == FoldFunction(+, 0, [c \in S |-> f[c]])
Reservations(k) == {c \in Holding : PeriodOf(reservedAt[c]) = k}

\* What a call spends of the budget it was granted: settling for more than the
\* challenge is reconciled after the fact, not enforced.
Granted == [c \in Call |-> IF atomic[c] < challenge[c] THEN atomic[c] ELSE challenge[c]]

\* The budget of a period, for any number of concurrent calls: what was granted in
\* a period and is not given back stays within periodBudget.  (README.md, packages:
\* the client "enforces a spending policy (period budget, ...)".)
PeriodBudgetHeld ==
    \A k \in 0..PeriodOf(MaxTime) : Total(Granted, Reservations(k)) <= PeriodBudget

\* The same as long as no reservation was taken back after its period was over.
BudgetHeldWithoutCarry == ~carried => PeriodBudgetHeld

\* The tracker counts every reservation of its period exactly once, through failed
\* and adjusted payments, as long as those came back in the period they were made.
TrackerExact ==
    ~carried => spent = Total(atomic, Reservations(PeriodOf(periodStart)))

\* The tracker's state is well-formed and exact, which is what check() decides from, and
\* so its decisions keep the budget.
TrackerInv == TypeOK /\ TrackerExact /\ BudgetHeldWithoutCarry

\* policy.ts:12, "mirrors CardIssuer semantics": until a reservation is taken back,
\* which cards do not do, the client decides every amount exactly as the card
\* contract would decide it for a card with the same budget and the same spends,
\* though one rolls its period at every question and the other only at a spend.
MirrorsCardIssuer ==
    ~released =>
        \A a \in Price :
            SpentNow + a <= PeriodBudget <=>
                CardIssuer!RolledSpent(card, now) + a <= card.periodAmount

=============================================================================
