---------------------------- MODULE ContractProofs ----------------------------
(***************************************************************************)
(* Proofs about the two contracts, for every number of accounts, cards and *)
(* plans, every budget, price, period and bound, and every order of calls. *)
(*                                                                         *)
(* First the card alone: its types, and the customer's ceiling on each     *)
(* accounting period.  Then the manager, whose steps are shown to be steps *)
(* of two simpler specifications: what it does to cards is what the card   *)
(* contract allows, and what it does to a subscription is what a pull      *)
(* mandate allows.  Both simulations need an invariant that says which     *)
(* rows of the mappings a call can reach: a subscription that exists is of *)
(* a plan that exists and of a card, and every version up to the latest    *)
(* one has a period longer than the grace.                                 *)
(***************************************************************************)
EXTENDS SubscriptionManager, ProofBasics

USE AmountAssumption, WidthAssumption

---------------------------------------------------------------------------
(* Cards: arithmetic. *)

LEMMA BelowNat == \A x \in 0..(U48 - 1) : x \in Nat
BY SMT

LEMMA NextNat == \A n \in Nat : n + 1 \in Nat
BY SMT

LEMMA AddZero == \A n \in Int : n + 0 = n
BY SMT

\* A period that ends before the overflow and is longer than the grace g: a
\* charge inside the window of t is due again later, and the windows are apart.
LEMMA LaterWindow ==
    \A t, p, g \in Nat, n \in 0..MaxTime :
        t <= n /\ n <= t + g /\ MaxTime + p < U48 /\ p > g
            => t + p \in Nat /\ t + p < U48 /\ t + p > n /\ t + p > t + g
BY SMT

\* A time below the bound survives the conversion to uint48.
LEMMA NoTruncation ==
    ASSUME NEW t \in 0..MaxTime
    PROVE  Truncate48(t) = t
BY SMT DEF Truncate48

\* The numeric fields of a card, zero-initialized or minted.
LEMMA CardNumbers ==
    ASSUME NEW c \in Card
    PROVE  /\ c.periodDuration \in Nat /\ c.periodAmount \in Nat
           /\ c.periodStart \in 0..MaxTime /\ c.spentInPeriod \in Nat
<1>1. /\ c.periodDuration \in Duration \cup {0} /\ c.periodAmount \in Budget \cup {0}
      /\ c.periodStart \in 0..MaxTime /\ c.spentInPeriod \in Nat
  BY DEF Card
<1>2. \A n \in Duration \cup {0} : n \in Nat
  BY SMT
<1> QED
  BY <1>1, <1>2

\* _rolledPeriodStart moves the start by whole periods, to the one t falls in.
LEMMA RolledStartFacts ==
    ASSUME NEW c \in Card, c.periodDuration # 0, NEW t \in 0..MaxTime,
           PeriodEnded(c, t)
    PROVE  \E e \in Nat : /\ e > 0
                          /\ RolledStart(c, t) = c.periodStart + e * c.periodDuration
                          /\ RolledStart(c, t) \in 0..MaxTime
                          /\ RolledStart(c, t) <= t
                          /\ t < RolledStart(c, t) + c.periodDuration
<1> DEFINE d == c.periodDuration
           s == c.periodStart
           e == (t - s) \div d
           r == s + e * d
<1>1. d \in Nat /\ d > 0 /\ s \in 0..MaxTime
  BY CardNumbers
<1>2. t - s \in Nat /\ t - s >= d
  BY <1>1 DEF PeriodEnded
<1>3. e \in Nat /\ d * e <= t - s /\ t - s < d * e + d
  BY <1>1, <1>2, Division
<1>4. RolledStart(c, t) = Truncate48(r)
  BY DEF RolledStart
<1> HIDE DEF d, s, e
<1>5. e * d \in Nat /\ e > 0 /\ r <= t /\ t < r + d /\ r \in 0..MaxTime
  BY <1>1, <1>2, <1>3, SMT
<1>6. Truncate48(r) = r
  BY <1>5, NoTruncation
<1> QED
  BY <1>3, <1>4, <1>5, <1>6 DEF d, s

---------------------------------------------------------------------------
(* Cards: type correctness. *)

\* Adding to one entry of a table of naturals leaves a table of naturals.
LEMMA AddToEntryType ==
    ASSUME NEW D, NEW f \in [D -> Nat], NEW k, NEW n \in Nat
    PROVE  [f EXCEPT ![k] = @ + n] \in [D -> Nat]
<1>1. CASE k \in D
  BY <1>1
<1>2. CASE k \notin D
  BY <1>2
<1> QED
  BY <1>1, <1>2

\* Types are preserved by the writes of a spend that passed the check.
LEMMA RecordSpendType ==
    ASSUME CardTypeOK, NEW id \in CardIds, NEW amount \in Nat,
           cards[id].periodDuration # 0, RecordSpend(id, amount)
    PROVE  /\ cards' \in [CardIds -> Card]
           /\ spentIn' \in [CardIds -> [0..MaxTime -> Nat]]
<1> USE DEF CardTypeOK
<1> DEFINE c == cards[id]
<1>1. c \in Card
  OBVIOUS
<1>2. RolledStart(c, now) \in 0..MaxTime
  <2>1. CASE PeriodEnded(c, now)
    BY <1>1, <2>1, RolledStartFacts
  <2>2. CASE ~PeriodEnded(c, now)
    BY <1>1, <2>2 DEF RolledStart, Card
  <2> QED
    BY <2>1, <2>2
<1>3. RolledSpent(c, now) + amount \in Nat
  BY <1>1 DEF RolledSpent, Card
<1>4. cards' \in [CardIds -> Card]
  <2>1. cards' = [cards EXCEPT ![id] = [c EXCEPT !.periodStart = RolledStart(c, now),
                                   !.spentInPeriod = RolledSpent(c, now) + amount]]
    BY DEF RecordSpend
  <2>2. [c EXCEPT !.periodStart = RolledStart(c, now),
                  !.spentInPeriod = RolledSpent(c, now) + amount] \in Card
    BY <1>1, <1>2, <1>3 DEF Card
  <2> QED
    BY <2>1, <2>2
<1>5. spentIn' \in [CardIds -> [0..MaxTime -> Nat]]
  <2> DEFINE k == PeriodOf(id, now)
  <2>1. spentIn' = [spentIn EXCEPT ![id] = [spentIn[id] EXCEPT ![k] = @ + amount]]
    BY DEF RecordSpend
  <2> HIDE DEF k
  <2>2. [spentIn[id] EXCEPT ![k] = @ + amount] \in [0..MaxTime -> Nat]
    BY AddToEntryType
  <2> QED
    BY <2>1, <2>2
<1> QED
  BY <1>4, <1>5

LEMMA CardTypeInit == CardInit => CardTypeOK
BY DEF CardInit, CardTypeOK, Card, ZeroCard, CardState, CardIds

LEMMA MintCardType ==
    ASSUME CardTypeOK, NEW o \in Owner, NEW tk \in Token, NEW b \in Budget,
           NEW d \in Duration, NEW x \in Expiry, NEW allowed \in SUBSET Merchant,
           MintCard(o, tk, b, d, x, allowed), now' = now
    PROVE  CardTypeOK'
<1> USE DEF CardTypeOK, MintCard
<1>1. Truncate48(now) = now
  BY NoTruncation
<1>2. [owner |-> o, token |-> tk, periodAmount |-> b, periodDuration |-> d,
       expiry |-> x, state |-> "Active", periodStart |-> Truncate48(now),
       spentInPeriod |-> 0, useAllowlist |-> allowed # {}] \in Card
  BY <1>1, AccountAssumption DEF Card, CardState
<1>3. cards' \in [CardIds -> Card]
  BY <1>2
<1>4. allowlist' \in [CardIds -> SUBSET Merchant]
  <2>1. nextCardId \in CardIds
    BY DEF CardIds
  <2>2. allowlist[nextCardId] \cup allowed \in SUBSET Merchant
    BY <2>1
  <2> QED
    BY <2>1, <2>2
<1>6. nextCardId' \in 0..MaxCards
  OBVIOUS
<1>5. mintedAt' \in [CardIds -> 0..MaxTime]
  OBVIOUS
<1> QED
  BY <1>3, <1>4, <1>5, <1>6

LEMMA SetCardStateType ==
    ASSUME CardTypeOK, NEW id \in CardIds, NEW st \in CardState,
           SetCardState(id, st), now' = now
    PROVE  CardTypeOK'
<1>1. cards' = [cards EXCEPT ![id] = [cards[id] EXCEPT !.state = st]]
  BY DEF SetCardState
<1>2. [cards[id] EXCEPT !.state = st] \in Card
  BY ZenonT(40) DEF CardTypeOK, Card
<1>3. cards' \in [CardIds -> Card]
  BY <1>1, <1>2 DEF CardTypeOK
<1> QED
  BY <1>3 DEF CardTypeOK, SetCardState

LEMMA CardTypeNext == CardTypeOK /\ [CardNext]_<<now, cardVars>> => CardTypeOK'
<1> SUFFICES ASSUME CardTypeOK, [CardNext]_<<now, cardVars>>
             PROVE  CardTypeOK'
  OBVIOUS
<1>1. CASE Tick
  BY <1>1 DEF Tick, CardTypeOK, cardVars
<1>2. ASSUME NEW o \in Owner, NEW tk \in Token, NEW b \in Budget,
             NEW d \in Duration, NEW x \in Expiry, NEW allowed \in SUBSET Merchant,
             MintCard(o, tk, b, d, x, allowed), now' = now
      PROVE  CardTypeOK'
  BY <1>2, MintCardType
<1>3. ASSUME NEW o \in Address, NEW id \in CardIds, now' = now,
             Freeze(o, id) \/ Unfreeze(o, id) \/ CancelCard(o, id)
      PROVE  CardTypeOK'
  <2>1. \E st \in CardState : SetCardState(id, st)
    BY <1>3 DEF Freeze, Unfreeze, CancelCard, CardState
  <2> QED
    BY <1>3, <2>1, SetCardStateType
<1>4. ASSUME NEW ch \in Charger, NEW on \in BOOLEAN,
             SetChargerAuthorization(ch, on), now' = now
      PROVE  CardTypeOK'
  BY <1>4 DEF SetChargerAuthorization, CardTypeOK
<1>5. ASSUME NEW ch \in Charger, NEW id \in CardIds, NEW m \in Merchant,
             NEW a \in Amount, AuthorizeSpend(ch, id, m, a), now' = now
      PROVE  CardTypeOK'
  <2>1. cards[id].periodDuration # 0 /\ RecordSpend(id, a)
    BY <1>5 DEF AuthorizeSpend, Spendable
  <2>2. a \in Nat
    OBVIOUS
  <2>3. cards' \in [CardIds -> Card] /\ spentIn' \in [CardIds -> [0..MaxTime -> Nat]]
    BY <2>1, <2>2, RecordSpendType
  <2>4. UNCHANGED <<nextCardId, allowlist, authorizedChargers, mintedAt>>
    BY <2>1 DEF RecordSpend
  <2> QED
    BY <1>5, <2>3, <2>4 DEF CardTypeOK
<1>6. CASE UNCHANGED <<now, cardVars>>
  BY <1>6 DEF cardVars, CardTypeOK
<1> QED
  BY <1>1, <1>2, <1>3, <1>4, <1>5, <1>6
  DEF CardNext, OwnerStep, AdminStep, ChargerStep

\* Storage keeps its types in every reachable state: in particular a period
\* start written by mintCard or a rollover is never in the future of MaxTime and
\* never truncated.
THEOREM CardTypeCorrect == CardSpec => []CardTypeOK
<1>1. CardInit => CardTypeOK
  BY CardTypeInit
<1>2. CardTypeOK /\ [CardNext]_<<now, cardVars>> => CardTypeOK'
  BY CardTypeNext
<1> QED
  BY <1>1, <1>2, PTL DEF CardSpec

---------------------------------------------------------------------------
(* The ceiling.  PeriodCeiling alone is not inductive: that a spend fits    *)
(* under the budget is decided from spentInPeriod, which says nothing of    *)
(* the history unless the card is Aligned, and a rollover divides by the    *)
(* duration, which is not zero only for a minted card.                      *)

CardInv == CardTypeOK /\ MintedOnce /\ PeriodAligned /\ PeriodCeiling

LEMMA CardInvInit == CardInit => CardInv
<1> SUFFICES ASSUME CardInit PROVE CardInv
  OBVIOUS
<1>1. CardTypeOK
  BY CardTypeInit
<1>2. MintedOnce
  BY DEF CardInit, MintedOnce, CardIds
<1>3. PeriodAligned
  BY DEF CardInit, PeriodAligned
<1>4. PeriodCeiling
  BY DEF CardInit, PeriodCeiling, ZeroCard
<1> QED
  BY <1>1, <1>2, <1>3, <1>4 DEF CardInv

\* A card whose accounting fields, mint time and history stand still stays aligned.
LEMMA AlignedFrame ==
    ASSUME NEW id \in 0..(nextCardId - 1), Aligned(id), CardTypeOK, CardTypeOK',
           cards'[id].periodStart = cards[id].periodStart,
           cards'[id].periodDuration = cards[id].periodDuration,
           cards'[id].spentInPeriod = cards[id].spentInPeriod,
           mintedAt'[id] = mintedAt[id], spentIn'[id] = spentIn[id],
           now' >= now
    PROVE  Aligned(id)'
<1>1. id \in CardIds
  BY DEF CardTypeOK, CardIds
<1>2. cards[id].periodStart \in 0..MaxTime
  BY <1>1, CardNumbers DEF CardTypeOK
<1>3. cards[id].periodStart <= now'
  BY <1>2 DEF Aligned, CardTypeOK
<1> QED
  BY <1>3 DEF Aligned, PeriodOf

\* A spend that passed the check lands in the period the history counts it in,
\* and fits under the budget there.
LEMMA SpendKeepsInv ==
    ASSUME CardInv, NEW id \in CardIds, NEW m, NEW amount \in Nat,
           Spendable(id, m, amount, now), RecordSpend(id, amount), now' = now
    PROVE  CardInv'
<1> DEFINE c == cards[id]
           d == c.periodDuration
           s == c.periodStart
           k == PeriodOf(id, s)
           n == PeriodOf(id, now)
           r == RolledStart(c, now)
           sp == RolledSpent(c, now)
<1>1. CardTypeOK /\ MintedOnce /\ PeriodAligned /\ PeriodCeiling
  BY DEF CardInv
<1>2. d # 0 /\ sp + amount <= c.periodAmount
  BY DEF Spendable
<1>3. /\ c \in Card /\ d \in Nat /\ d > 0 /\ s \in 0..MaxTime
      /\ c.spentInPeriod \in Nat /\ now \in 0..MaxTime /\ mintedAt[id] \in 0..MaxTime
  BY <1>1, <1>2, CardNumbers DEF CardTypeOK
<1>4. id \in 0..(nextCardId - 1)
  <2>1. id \in nextCardId..(MaxCards - 1) => c = ZeroCard
    BY <1>1 DEF MintedOnce
  <2>2. ZeroCard.periodDuration = 0
    BY DEF ZeroCard
  <2> QED
    BY <1>1, <1>2, <2>1, <2>2 DEF CardIds, CardTypeOK
<1>5. /\ mintedAt[id] <= s /\ s <= now /\ s = mintedAt[id] + k * d
      /\ spentIn[id][k] = c.spentInPeriod
      /\ \A j \in 0..MaxTime : j > k => spentIn[id][j] = 0
  BY <1>1, <1>4 DEF PeriodAligned, Aligned
<1>6. k \in Nat
  <2>1. s - mintedAt[id] \in Nat
    BY <1>3, <1>5
  <2> QED
    BY <2>1, <1>3, Division DEF PeriodOf
<1>7. /\ n \in 0..MaxTime /\ n >= k /\ r = mintedAt[id] + n * d
      /\ r \in 0..MaxTime /\ r <= now
      /\ spentIn[id][n] = sp
  <2>1. now - mintedAt[id] \in Nat /\ n = (now - mintedAt[id]) \div d
    BY <1>3, <1>5 DEF PeriodOf
  <2>2. n \in 0..MaxTime
    <3>1. n \in Nat /\ n <= now - mintedAt[id]
      BY <2>1, <1>3, Division, QuotientBound
    <3> QED
      BY <3>1, <1>3
  <2>3. CASE ~PeriodEnded(c, now)
    <3>1. r = s /\ sp = c.spentInPeriod /\ now < s + d
      BY <2>3, <1>3 DEF RolledStart, RolledSpent, PeriodEnded
    <3>2. k * d <= now - mintedAt[id] /\ now - mintedAt[id] < k * d + d
      <4> HIDE DEF k, d, s
      <4> QED BY <3>1, <1>3, <1>5, <1>6
    <3>3. n = k
      BY <3>2, <2>1, <1>3, <1>6, QuotientUnique
    <3> QED
      BY <3>1, <3>3, <2>2, <1>3, <1>5, <1>6
  <2>4. CASE PeriodEnded(c, now)
    <3>1. PICK e \in Nat : /\ e > 0 /\ r = s + e * d
                           /\ r \in 0..MaxTime /\ r <= now /\ now < r + d
      BY <2>4, <1>2, <1>3, RolledStartFacts
    <3>2. /\ r = mintedAt[id] + (k + e) * d
          /\ (k + e) * d <= now - mintedAt[id]
          /\ now - mintedAt[id] < (k + e) * d + d
      <4> HIDE DEF k, d, s, r
      <4>1. (k + e) * d = k * d + e * d /\ k * d \in Nat /\ e * d \in Nat
        BY <1>3, <1>6
      <4> QED BY <4>1, <3>1, <1>3, <1>5, <1>6
    <3>3. n = k + e
      <4>1. k + e \in Nat
        BY <1>6
      <4> QED BY <4>1, <3>2, <2>1, <1>3, QuotientUnique
    <3>4. spentIn[id][n] = 0 /\ sp = 0
      <4>1. n > k
        BY <3>1, <3>3, <1>6
      <4> QED BY <4>1, <2>2, <2>4, <1>5 DEF RolledSpent
    <3> QED
      BY <3>1, <3>2, <3>3, <3>4, <2>2, <1>6
  <2> QED
    BY <2>3, <2>4
<1>8. /\ cards' = [cards EXCEPT ![id] = [c EXCEPT !.periodStart = r,
                                               !.spentInPeriod = sp + amount]]
      /\ spentIn' = [spentIn EXCEPT ![id] = [spentIn[id] EXCEPT ![n] = sp + amount]]
      /\ UNCHANGED <<nextCardId, allowlist, authorizedChargers, mintedAt>>
  BY <1>7 DEF RecordSpend
<1> HIDE DEF n, k, r, sp
<1>9. CardTypeOK'
  BY <1>1, <1>2, <1>8, RecordSpendType DEF CardTypeOK
<1>10. /\ cards'[id] = [c EXCEPT !.periodStart = r, !.spentInPeriod = sp + amount]
       /\ \A i \in CardIds : i # id => cards'[i] = cards[i] /\ spentIn'[i] = spentIn[i]
       /\ spentIn'[id][n] = sp + amount
       /\ \A j \in 0..MaxTime : j # n => spentIn'[id][j] = spentIn[id][j]
  BY <1>1, <1>7, <1>8 DEF CardTypeOK
<1>11. /\ cards'[id].periodStart = r /\ cards'[id].spentInPeriod = sp + amount
       /\ cards'[id].periodDuration = d /\ cards'[id].periodAmount = c.periodAmount
  BY <1>3, <1>10 DEF Card
<1>12. MintedOnce'
  <2>1. \A i \in 0..(nextCardId - 1) : i \in CardIds
    BY <1>1 DEF CardTypeOK, CardIds
  <2>2. \A i \in nextCardId..(MaxCards - 1) : i \in CardIds /\ i # id
    BY <1>1, <1>4 DEF CardTypeOK, CardIds
  <2>3. \A i \in 0..(nextCardId - 1) : cards'[i].periodDuration # 0
    BY <2>1, <1>1, <1>2, <1>10, <1>11 DEF MintedOnce
  <2>4. \A i \in nextCardId..(MaxCards - 1) :
            cards'[i] = ZeroCard /\ spentIn'[i] = [j \in 0..MaxTime |-> 0]
    BY <2>2, <1>1, <1>10 DEF MintedOnce
  <2> QED
    BY <2>3, <2>4, <1>8 DEF MintedOnce, ZeroCard
<1>13. PeriodAligned'
  <2> SUFFICES ASSUME NEW i \in 0..(nextCardId - 1)
               PROVE  Aligned(i)'
    BY <1>8 DEF PeriodAligned
  <2>1. Aligned(id)'
    <3>1. r - mintedAt[id] \in Nat /\ (r - mintedAt[id]) \div d = n
      <4>1. r - mintedAt[id] \in Nat /\ n * d <= r - mintedAt[id]
            /\ r - mintedAt[id] < n * d + d
        <5>1. n * d \in Nat
          BY <1>3, <1>7
        <5> HIDE DEF d
        <5> QED BY <5>1, <1>3, <1>7
      <4> QED BY <4>1, <1>3, <1>7, QuotientUnique
    <3>2. (PeriodOf(id, cards[id].periodStart))' = n
      BY <3>1, <1>8, <1>11 DEF PeriodOf
    <3>3. \A j \in 0..MaxTime : j > n => spentIn'[id][j] = 0
      <4> HIDE DEF d
      <4> QED BY <1>5, <1>6, <1>7, <1>10
    <3> HIDE DEF d, c
    <3>4. mintedAt'[id] <= r /\ r <= now'
      <4>1. n * d \in Nat
        BY <1>3, <1>7
      <4> QED BY <4>1, <1>3, <1>7, <1>8
    <3> QED
      BY <3>2, <3>3, <3>4, <1>7, <1>8, <1>10, <1>11 DEF Aligned
  <2>2. CASE i # id
    <3>1. i \in CardIds /\ Aligned(i)
      BY <1>1 DEF CardTypeOK, CardIds, PeriodAligned
    <3>2. cards'[i] = cards[i] /\ spentIn'[i] = spentIn[i] /\ mintedAt'[i] = mintedAt[i]
      BY <2>2, <3>1, <1>8, <1>10
    <3>3. now' >= now
      BY <1>3
    <3> QED
      BY <3>1, <3>2, <3>3, <1>1, <1>9, AlignedFrame
  <2> QED
    BY <2>1, <2>2
<1>14. PeriodCeiling'
  <2> SUFFICES ASSUME NEW i \in CardIds, NEW j \in 0..MaxTime
               PROVE  spentIn'[i][j] <= cards'[i].periodAmount
    BY DEF PeriodCeiling
  <2>1. spentIn[i][j] <= cards[i].periodAmount
    BY <1>1 DEF PeriodCeiling
  <2>2. CASE i = id
    <3>1. cards'[i].periodAmount = c.periodAmount
      BY <2>2, <1>11
    <3>2. CASE j = n
      BY <2>2, <3>1, <3>2, <1>2, <1>10
    <3>3. CASE j # n
      BY <2>1, <2>2, <3>1, <3>3, <1>10
    <3> QED
      BY <3>2, <3>3
  <2>3. CASE i # id
    BY <2>1, <2>3, <1>10
  <2> QED
    BY <2>2, <2>3
<1> QED
  BY <1>9, <1>12, <1>13, <1>14 DEF CardInv

\* The id mintCard hands out was never written before: the new card starts a
\* period with nothing spent, and no other card is touched.
LEMMA MintCardInv ==
    ASSUME CardInv, NEW o \in Owner, NEW tk \in Token, NEW b \in Budget,
           NEW d \in Duration, NEW x \in Expiry, NEW allowed \in SUBSET Merchant,
           MintCard(o, tk, b, d, x, allowed), now' = now
    PROVE  CardInv'
<1>0. PICK id \in CardIds : id = nextCardId
  BY DEF CardInv, CardTypeOK, CardIds, MintCard, ValidDuration
<1>1. CardTypeOK /\ MintedOnce /\ PeriodAligned /\ PeriodCeiling
  BY DEF CardInv
<1>2. CardTypeOK'
  BY <1>1, MintCardType
<1>3. now \in 0..MaxTime /\ d \in Nat /\ d > 0 /\ b \in Nat
  BY <1>1 DEF MintCard, ValidDuration, CardTypeOK
<1>4. cards[id] = ZeroCard /\ spentIn[id] = [k \in 0..MaxTime |-> 0]
  BY <1>0, <1>1 DEF MintedOnce, CardIds, CardTypeOK
<1>5. /\ cards'[id].periodStart = now /\ cards'[id].spentInPeriod = 0
      /\ cards'[id].periodDuration = d /\ cards'[id].periodAmount = b
      /\ mintedAt'[id] = now
  <2>1. Truncate48(now) = now
    BY <1>3, NoTruncation
  <2> QED
    BY <2>1, <1>0, <1>1, <1>3 DEF MintCard, ValidDuration, CardTypeOK
<1>6. /\ \A i \in CardIds : i # id => cards'[i] = cards[i] /\ mintedAt'[i] = mintedAt[i]
      /\ spentIn' = spentIn /\ nextCardId' = id + 1
  BY <1>0, <1>1 DEF MintCard, ValidDuration, CardTypeOK
<1>7. \A i \in 0..(nextCardId' - 1) : i \in CardIds /\ (i # id => i \in 0..(nextCardId - 1))
  BY <1>0, <1>1, <1>3, <1>6 DEF CardTypeOK, CardIds
<1>8. MintedOnce'
  <2>1. \A i \in 0..(nextCardId' - 1) : cards'[i].periodDuration # 0
    BY <1>1, <1>3, <1>5, <1>6, <1>7 DEF MintedOnce
  <2>2. \A i \in nextCardId'..(MaxCards - 1) :
            i \in CardIds /\ i # id /\ i \in nextCardId..(MaxCards - 1)
    BY <1>0, <1>1, <1>3, <1>6 DEF CardTypeOK, CardIds
  <2>3. \A i \in nextCardId'..(MaxCards - 1) :
            cards'[i] = ZeroCard /\ spentIn'[i] = [k \in 0..MaxTime |-> 0]
    BY <2>2, <1>1, <1>6 DEF MintedOnce
  <2> QED
    BY <2>1, <2>3 DEF MintedOnce, ZeroCard
<1>9. PeriodAligned'
  <2> SUFFICES ASSUME NEW i \in 0..(nextCardId' - 1)
               PROVE  Aligned(i)'
    BY DEF PeriodAligned
  <2>1. Aligned(id)'
    <3>1. (PeriodOf(id, cards[id].periodStart))' = 0
      <4>1. 0 \div d = 0
        BY <1>3, QuotientUnique
      <4>2. (PeriodOf(id, cards[id].periodStart))' = (now - now) \div d
        BY <1>5 DEF PeriodOf
      <4> QED
        BY <4>1, <4>2, <1>3
    <3>2. \A j \in 0..MaxTime : spentIn'[id][j] = 0
      BY <1>4, <1>6
    <3>3. 0 * d = 0 /\ 0 \in 0..MaxTime
      BY <1>3
    <3> QED
      BY <3>1, <3>2, <3>3, <1>3, <1>5 DEF Aligned
  <2>2. CASE i # id
    <3>1. i \in 0..(nextCardId - 1) /\ i \in CardIds /\ Aligned(i)
      BY <2>2, <1>1, <1>7 DEF PeriodAligned
    <3>2. cards'[i] = cards[i] /\ spentIn'[i] = spentIn[i] /\ mintedAt'[i] = mintedAt[i]
      BY <2>2, <3>1, <1>6
    <3>3. now' >= now
      BY <1>3
    <3> QED
      BY <3>1, <3>2, <3>3, <1>1, <1>2, AlignedFrame
  <2> QED
    BY <2>1, <2>2
<1>10. PeriodCeiling'
  <2> SUFFICES ASSUME NEW i \in CardIds, NEW j \in 0..MaxTime
               PROVE  spentIn'[i][j] <= cards'[i].periodAmount
    BY DEF PeriodCeiling
  <2>1. CASE i = id
    BY <2>1, <1>3, <1>4, <1>5, <1>6
  <2>2. CASE i # id
    BY <2>2, <1>1, <1>6 DEF PeriodCeiling
  <2> QED
    BY <2>1, <2>2
<1> QED
  BY <1>2, <1>8, <1>9, <1>10 DEF CardInv

\* Changing a minted card's lifecycle state touches no accounting.
LEMMA SetCardStateInv ==
    ASSUME CardInv, NEW id \in 0..(nextCardId - 1), NEW st \in CardState,
           SetCardState(id, st), now' = now
    PROVE  CardInv'
<1>1. CardTypeOK /\ MintedOnce /\ PeriodAligned /\ PeriodCeiling /\ id \in CardIds
  BY DEF CardInv, CardTypeOK, CardIds
<1>2. CardTypeOK'
  BY <1>1, SetCardStateType
<1>3. /\ \A i \in CardIds :
            /\ cards'[i].periodStart = cards[i].periodStart
            /\ cards'[i].periodDuration = cards[i].periodDuration
            /\ cards'[i].spentInPeriod = cards[i].spentInPeriod
            /\ cards'[i].periodAmount = cards[i].periodAmount
      /\ \A i \in CardIds : i # id => cards'[i] = cards[i]
      /\ spentIn' = spentIn /\ mintedAt' = mintedAt /\ nextCardId' = nextCardId
  BY <1>1 DEF SetCardState, CardTypeOK, Card
<1>4. /\ \A i \in 0..(nextCardId - 1) : i \in CardIds
      /\ \A i \in nextCardId..(MaxCards - 1) : i \in CardIds /\ i # id
  BY <1>1 DEF CardTypeOK, CardIds
<1>5. MintedOnce'
  <2>1. \A i \in nextCardId..(MaxCards - 1) :
            cards'[i] = ZeroCard /\ spentIn'[i] = [k \in 0..MaxTime |-> 0]
    BY <1>1, <1>3, <1>4 DEF MintedOnce
  <2> QED
    BY <2>1, <1>1, <1>3, <1>4 DEF MintedOnce, ZeroCard
<1>6. PeriodAligned'
  <2> SUFFICES ASSUME NEW i \in 0..(nextCardId - 1) PROVE Aligned(i)'
    BY <1>3 DEF PeriodAligned
  <2>1. Aligned(i) /\ i \in CardIds
    BY <1>1, <1>4 DEF PeriodAligned
  <2>2. now' >= now
    BY <1>1 DEF CardTypeOK
  <2> QED
    BY <2>1, <2>2, <1>1, <1>2, <1>3, AlignedFrame
<1>7. PeriodCeiling'
  BY <1>1, <1>3 DEF PeriodCeiling
<1> QED
  BY <1>2, <1>5, <1>6, <1>7 DEF CardInv

\* Steps that leave cards, mint times and history alone, time passing included.
LEMMA CardFrameInv ==
    ASSUME CardInv, CardTypeOK', now' >= now,
           UNCHANGED <<nextCardId, cards, mintedAt, spentIn>>
    PROVE  CardInv'
<1>1. MintedOnce'
  BY DEF CardInv, MintedOnce, ZeroCard
<1>2. PeriodAligned'
  <2> SUFFICES ASSUME NEW i \in 0..(nextCardId - 1) PROVE Aligned(i)'
    BY DEF PeriodAligned
  <2> QED
    BY AlignedFrame DEF CardInv, PeriodAligned
<1>3. PeriodCeiling'
  BY DEF CardInv, PeriodCeiling
<1> QED
  BY <1>1, <1>2, <1>3 DEF CardInv

\* An owner's call names a minted card: nobody owns the zero-initialized ones.
LEMMA OwnedIsMinted ==
    ASSUME CardInv, NEW o \in Address, NEW id \in CardIds, cards[id].owner = o
    PROVE  id \in 0..(nextCardId - 1)
<1>1. id \in nextCardId..(MaxCards - 1) => cards[id] = ZeroCard
  BY DEF CardInv, MintedOnce
<1>2. ZeroCard.owner = ZeroAddress
  BY DEF ZeroCard
<1> QED
  BY <1>1, <1>2, AccountAssumption DEF CardInv, CardTypeOK, CardIds

LEMMA CardInvNext == CardInv /\ [CardNext]_<<now, cardVars>> => CardInv'
<1> SUFFICES ASSUME CardInv, [CardNext]_<<now, cardVars>>
             PROVE  CardInv'
  OBVIOUS
<1>1. CardTypeOK' /\ now \in Nat
  BY CardTypeNext, SMTT(30) DEF CardInv, CardTypeOK
<1>2. CASE Tick
  BY <1>1, <1>2, CardFrameInv DEF Tick, cardVars
<1>3. ASSUME NEW o \in Owner, NEW tk \in Token, NEW b \in Budget,
             NEW d \in Duration, NEW x \in Expiry, NEW allowed \in SUBSET Merchant,
             MintCard(o, tk, b, d, x, allowed), now' = now
      PROVE  CardInv'
  BY <1>3, MintCardInv
<1>4. ASSUME NEW o \in Address, NEW id \in CardIds, now' = now,
             Freeze(o, id) \/ Unfreeze(o, id) \/ CancelCard(o, id)
      PROVE  CardInv'
  <2>1. cards[id].owner = o /\ \E st \in CardState : SetCardState(id, st)
    BY <1>4 DEF Freeze, Unfreeze, CancelCard, CardState
  <2> QED
    BY <1>4, <2>1, OwnedIsMinted, SetCardStateInv
<1>5. ASSUME NEW ch \in Charger, NEW on \in BOOLEAN,
             SetChargerAuthorization(ch, on), now' = now
      PROVE  CardInv'
  BY <1>1, <1>5, CardFrameInv DEF SetChargerAuthorization
<1>6. ASSUME NEW ch \in Charger, NEW id \in CardIds, NEW m \in Merchant,
             NEW a \in Amount, AuthorizeSpend(ch, id, m, a), now' = now
      PROVE  CardInv'
  <2>1. a \in Nat
    OBVIOUS
  <2> QED
    BY <1>6, <2>1, SpendKeepsInv DEF AuthorizeSpend
<1>7. CASE UNCHANGED <<now, cardVars>>
  BY <1>1, <1>7, CardFrameInv DEF cardVars
<1> QED
  BY <1>2, <1>3, <1>4, <1>5, <1>6, <1>7
  DEF CardNext, OwnerStep, AdminStep, ChargerStep

LEMMA CardInvariant == CardSpec => []CardInv
BY CardInvInit, CardInvNext, PTL DEF CardSpec

\* Whatever the calls and their timing, the spends a card authorizes within one
\* of its accounting periods never exceed its periodAmount.
THEOREM CeilingHolds == CardSpec => []PeriodCeiling
<1>1. CardInv => PeriodCeiling
  BY DEF CardInv
<1> QED
  BY <1>1, CardInvariant, PTL

\* _rolledPeriodStart keeps every card's stored period on the grid of its mint,
\* and spentInPeriod equal to what was authorized in that period.
THEOREM AccountingExact == CardSpec => []AccountingInv
<1>1. CardInv => AccountingInv
  BY DEF CardInv, AccountingInv
<1> QED
  BY <1>1, CardInvariant, PTL

\* A card is never left unable to spend by an exhausted budget alone.
THEOREM BudgetComesBack == CardSpec => []BudgetRefreshes
<1>1. CardInv => BudgetRefreshes
  <2> SUFFICES ASSUME CardInv, NEW id \in 0..(nextCardId - 1), NEW m \in Merchant,
                      cards[id].state = "Active", ~RollOverflows(cards[id]),
                      cards[id].expiry = 0
                        \/ cards[id].periodStart + cards[id].periodDuration <= cards[id].expiry,
                      cards[id].useAllowlist => m \in allowlist[id]
               PROVE  Spendable(id, m, cards[id].periodAmount,
                                cards[id].periodStart + cards[id].periodDuration)
    BY DEF BudgetRefreshes
  <2> DEFINE c == cards[id]
             t == c.periodStart + c.periodDuration
  <2>1. c \in Card /\ c.periodDuration # 0
    BY DEF CardInv, CardTypeOK, CardIds, MintedOnce
  <2>2. /\ c.periodStart \in Nat /\ c.periodDuration \in Nat /\ c.periodAmount \in Nat
    BY <2>1, CardNumbers
  <2>3. PeriodEnded(c, t)
    BY <2>2 DEF PeriodEnded
  <2>4. RolledSpent(c, t) + c.periodAmount <= c.periodAmount
    BY <2>2, <2>3 DEF RolledSpent
  <2> QED
    BY <2>1, <2>4 DEF Spendable
<1> QED
  BY <1>1, CardInvariant, PTL

\* Cancelling a card is for good, and stops every later charge.
THEOREM CancelIsFinal == CardSpec => CancelledNeverSpends
<1> DEFINE Final == \A id \in CardIds : cards[id].state = "Cancelled" =>
                      cards'[id].state = "Cancelled" /\ spentIn'[id] = spentIn[id]
<1>1. CardInv /\ [CardNext]_<<now, cardVars>> => [Final]_<<now, cardVars>>
  <2> SUFFICES ASSUME CardInv, CardNext, NEW id \in CardIds, cards[id].state = "Cancelled"
               PROVE  cards'[id].state = "Cancelled" /\ spentIn'[id] = spentIn[id]
    OBVIOUS
  <2>1. CardTypeOK
    BY DEF CardInv
  <2>2. CASE Tick
    BY <2>2 DEF Tick, cardVars
  <2>3. ASSUME NEW o \in Owner, NEW tk \in Token, NEW b \in Budget,
               NEW d \in Duration, NEW x \in Expiry, NEW allowed \in SUBSET Merchant,
               MintCard(o, tk, b, d, x, allowed)
        PROVE  cards'[id] = cards[id] /\ spentIn' = spentIn
    <3>1. nextCardId \in nextCardId..(MaxCards - 1)
      BY <2>1, <2>3 DEF MintCard, ValidDuration, CardTypeOK
    <3>2. cards[nextCardId].state = "Active"
      BY <3>1 DEF CardInv, MintedOnce, ZeroCard
    <3>3. id # nextCardId
      BY <3>2
    <3> QED
      BY <3>3, <2>1, <2>3 DEF MintCard, ValidDuration, CardTypeOK
  <2>4. ASSUME NEW o \in Address, NEW i \in CardIds,
               Freeze(o, i) \/ Unfreeze(o, i) \/ CancelCard(o, i)
        PROVE  cards'[id].state = "Cancelled" /\ spentIn' = spentIn
    <3>1. CASE i = id
      BY <3>1, <2>1, <2>4
      DEF Freeze, Unfreeze, CancelCard, SetCardState, CardTypeOK, Card
    <3>2. CASE i # id
      BY <3>2, <2>1, <2>4
      DEF Freeze, Unfreeze, CancelCard, SetCardState, CardTypeOK
    <3> QED
      BY <3>1, <3>2
  <2>5. ASSUME NEW ch \in Charger, NEW on \in BOOLEAN, SetChargerAuthorization(ch, on)
        PROVE  cards' = cards /\ spentIn' = spentIn
    BY <2>5 DEF SetChargerAuthorization
  <2>6. ASSUME NEW ch \in Charger, NEW i \in CardIds, NEW m \in Merchant,
               NEW a \in Amount, AuthorizeSpend(ch, i, m, a)
        PROVE  cards'[id] = cards[id] /\ spentIn'[id] = spentIn[id]
    <3>1. i # id
      BY <2>6 DEF AuthorizeSpend, Spendable
    <3> QED
      BY <3>1, <2>1, <2>6 DEF AuthorizeSpend, RecordSpend, CardTypeOK
  <2> QED
    BY <2>2, <2>3, <2>4, <2>5, <2>6 DEF CardNext, OwnerStep, AdminStep, ChargerStep
<1> QED
  BY <1>1, CardInvariant, PTL DEF CardSpec, CancelledNeverSpends

---------------------------------------------------------------------------
(* The manager: which rows a call can reach. *)

\* Every version that can be charged was checked by createPlan or pushPlanVersion.
PlansInv ==
    /\ nextPlanId \in Nat
    /\ plans \in [PlanIds -> Plan]
    /\ versions \in [PlanIds -> [Versions -> PlanVersion \cup {NoVersion}]]
    /\ \A p \in PlanIds :
          /\ plans[p].active => plans[p].merchant \in Seller /\ plans[p].latestVersion >= 1
          /\ \A n \in 1..plans[p].latestVersion :
                versions[p][n] \in PlanVersion /\ versions[p][n].period > GRACE

\* A subscription with a customer is of an active plan and a card.
SubsInv ==
    /\ nextSubId \in Nat
    /\ subs \in [SubIds -> Subscription]
    /\ \A s \in SubIds :
          IF s >= nextSubId THEN subs[s].customer = ZeroAddress
          ELSE /\ subs[s].customer \in Address
               /\ subs[s].planId \in PlanIds /\ plans[subs[s].planId].active
               /\ subs[s].cardId \in CardIds

ManagerInv == CardTypeOK /\ PlansInv /\ SubsInv

---------------------------------------------------------------------------
(* The manager: its invariant. *)

LEMMA ManagerInvInit == Init => ManagerInv
<1> SUFFICES ASSUME Init PROVE ManagerInv
  OBVIOUS
<1> USE ScheduleAssumption, WidthAssumption DEF Init
<1>1. CardTypeOK
  BY CardTypeInit
<1>2. PlansInv
  BY DEF PlansInv, ZeroPlan, NoVersion, Plan, PlanIds, Versions
<1>3. SubsInv
  BY DEF SubsInv, ZeroSub, Subscription, SubState, SubIds, PlanIds, CardIds
<1> QED BY <1>1, <1>2, <1>3 DEF ManagerInv

\* A time below 2^48 survives the conversion; a time of any size becomes a uint48.
LEMMA Width ==
    ASSUME NEW t \in Nat
    PROVE  Truncate48(t) \in 0..(U48 - 1) /\ (t < U48 => Truncate48(t) = t)
BY WidthAssumption, SMT DEF Truncate48

\* Calls that leave plans and subscriptions alone.
LEMMA ManagerFrame ==
    ASSUME PlansInv, SubsInv, UNCHANGED <<planVars, subVars>>
    PROVE  PlansInv' /\ SubsInv'
BY DEF PlansInv, SubsInv, planVars, subVars

LEMMA CreatePlanInv ==
    ASSUME PlansInv, SubsInv, NEW m \in Seller, NEW tk \in Token, NEW v \in PlanVersion,
           CreatePlan(m, tk, v)
    PROVE  PlansInv' /\ SubsInv'
<1> USE ScheduleAssumption, AccountAssumption, PartyAssumption
<1> DEFINE p == nextPlanId
           plan == [merchant |-> m, token |-> tk, latestVersion |-> 1, active |-> TRUE]
<1>1. /\ p \in PlanIds /\ 1 \in Versions
      /\ plans' = [plans EXCEPT ![p] = plan] /\ versions' = [versions EXCEPT ![p][1] = v]
      /\ plan \in Plan /\ v.period > GRACE
  BY DEF CreatePlan, ValidPeriod, PlansInv, PlanIds, Versions, Plan
<1>2. plans' \in [PlanIds -> Plan] /\ versions' \in [PlanIds -> [Versions -> PlanVersion \cup {NoVersion}]]
  BY <1>1 DEF PlansInv
<1>3. plans'[p] = plan /\ versions'[p][1] = v
  BY <1>1 DEF PlansInv
<1>4. \A q \in PlanIds \ {p} : plans'[q] = plans[q] /\ versions'[q] = versions[q]
  BY <1>1 DEF PlansInv
<1>5. PlansInv'
  <2>1. ASSUME NEW q \in PlanIds
        PROVE  /\ plans'[q].active => plans'[q].merchant \in Seller /\ plans'[q].latestVersion >= 1
               /\ \A n \in 1..plans'[q].latestVersion :
                     versions'[q][n] \in PlanVersion /\ versions'[q][n].period > GRACE
    BY <1>1, <1>3, <1>4 DEF PlansInv
  <2>2. nextPlanId' \in Nat
    BY DEF CreatePlan, PlansInv
  <2> QED BY <1>2, <2>1, <2>2 DEF PlansInv
<1>6. SubsInv'
  <2>1. subs' = subs /\ nextSubId' = nextSubId
    BY DEF CreatePlan, subVars
  <2>2. \A q \in PlanIds : plans[q].active => plans'[q].active
    BY <1>3, <1>4
  <2> QED BY <2>1, <2>2 DEF SubsInv
<1> QED BY <1>5, <1>6

LEMMA PushPlanVersionInv ==
    ASSUME PlansInv, SubsInv, NEW m \in Seller, NEW p \in PlanIds, NEW v \in PlanVersion,
           PushPlanVersion(m, p, v)
    PROVE  PlansInv' /\ SubsInv'
<1> USE ScheduleAssumption
<1> DEFINE latest == plans[p].latestVersion + 1
<1>1. /\ plans[p] \in Plan /\ plans[p].latestVersion \in Nat
      /\ latest \in Versions /\ latest \in 0..MaxVersions
      /\ plans' = [plans EXCEPT ![p].latestVersion = latest]
      /\ versions' = [versions EXCEPT ![p][latest] = v]
      /\ v.period > GRACE
  BY DEF PushPlanVersion, ValidPeriod, PlansInv, Versions, Plan
<1>2. [plans[p] EXCEPT !.latestVersion = latest] \in Plan
  BY <1>1 DEF Plan
<1>3. plans' \in [PlanIds -> Plan] /\ versions' \in [PlanIds -> [Versions -> PlanVersion \cup {NoVersion}]]
  BY <1>1, <1>2 DEF PlansInv
<1>4. /\ plans'[p].latestVersion = latest /\ plans'[p].active = plans[p].active
      /\ plans'[p].merchant = plans[p].merchant
      /\ versions'[p][latest] = v
      /\ \A n \in Versions \ {latest} : versions'[p][n] = versions[p][n]
  BY <1>1 DEF PlansInv, Plan
<1>5. \A q \in PlanIds \ {p} : plans'[q] = plans[q] /\ versions'[q] = versions[q]
  BY <1>1 DEF PlansInv
<1>6. ASSUME NEW n \in 1..latest
      PROVE  versions'[p][n] \in PlanVersion /\ versions'[p][n].period > GRACE
  <2>1. CASE n = latest
    BY <1>1, <1>4, <2>1
  <2>2. CASE n # latest
    <3>1. n \in 1..plans[p].latestVersion /\ n \in Versions \ {latest}
      BY <1>1, <2>2 DEF Versions
    <3> QED BY <1>4, <3>1 DEF PlansInv
  <2> QED BY <2>1, <2>2
<1>7. PlansInv'
  <2>1. ASSUME NEW q \in PlanIds
        PROVE  /\ plans'[q].active => plans'[q].merchant \in Seller /\ plans'[q].latestVersion >= 1
               /\ \A n \in 1..plans'[q].latestVersion :
                     versions'[q][n] \in PlanVersion /\ versions'[q][n].period > GRACE
    <3>1. CASE q = p
      BY <1>1, <1>4, <1>6, <3>1 DEF PlansInv
    <3>2. CASE q # p
      BY <1>5, <3>2 DEF PlansInv
    <3> QED BY <3>1, <3>2
  <2>2. nextPlanId' \in Nat
    BY DEF PushPlanVersion, PlansInv
  <2> QED BY <1>3, <2>1, <2>2 DEF PlansInv
<1>8. SubsInv'
  <2>1. subs' = subs /\ nextSubId' = nextSubId
    BY DEF PushPlanVersion, subVars
  <2>2. \A q \in PlanIds : plans[q].active => plans'[q].active
    BY <1>4, <1>5
  <2> QED BY <2>1, <2>2 DEF SubsInv
<1> QED BY <1>7, <1>8

\* What a charge of the plan's latest version can rely on.
LEMMA LatestVersion ==
    ASSUME PlansInv, NEW p \in PlanIds, plans[p].active
    PROVE  /\ plans[p].merchant \in Seller
           /\ plans[p].latestVersion \in 0..MaxVersions
           /\ versions[p][plans[p].latestVersion] \in PlanVersion
           /\ versions[p][plans[p].latestVersion].period > GRACE
<1>1. plans[p].latestVersion \in 0..MaxVersions /\ plans[p].latestVersion >= 1
  BY DEF PlansInv, Plan
<1>2. plans[p].latestVersion \in 1..plans[p].latestVersion
  BY <1>1, ScheduleAssumption
<1> QED BY <1>1, <1>2 DEF PlansInv

LEMMA SubscribeInv ==
    ASSUME PlansInv, SubsInv, now \in Nat,
           NEW a \in Owner, NEW p \in PlanIds, NEW c \in CardIds, Subscribe(a, p, c)
    PROVE  PlansInv' /\ SubsInv'
<1> USE ScheduleAssumption, AccountAssumption
<1> DEFINE id == nextSubId
           v == versions[p][plans[p].latestVersion]
           sub == [customer |-> a, planId |-> p, planVersion |-> plans[p].latestVersion,
                   cardId |-> c, nextChargeAt |-> Truncate48(now + v.trialPeriod),
                   state |-> "Active"]
<1>1. /\ plans[p].active /\ id \in SubIds
      /\ subs' = [subs EXCEPT ![id] = sub] /\ nextSubId' = nextSubId + 1
      /\ UNCHANGED planVars
  BY DEF Subscribe, SubsInv, SubIds
<1>2. v \in PlanVersion /\ plans[p].latestVersion \in 0..MaxVersions
  BY <1>1, LatestVersion
<1>3. now + v.trialPeriod \in Nat
  <2>1. v.trialPeriod \in 0..(U48 - 1)
    BY <1>2 DEF PlanVersion
  <2> QED BY <2>1, WidthAssumption
<1>4. sub \in Subscription
  BY <1>2, <1>3, Width DEF Subscription, SubState
<1>5. PlansInv'
  BY <1>1 DEF PlansInv, planVars
<1>6. subs' \in [SubIds -> Subscription] /\ subs'[id] = sub
      /\ \A s \in SubIds \ {id} : subs'[s] = subs[s]
  BY <1>1, <1>4 DEF SubsInv
<1>7. ASSUME NEW s \in SubIds
      PROVE  IF s >= nextSubId' THEN subs'[s].customer = ZeroAddress
             ELSE /\ subs'[s].customer \in Address
                  /\ subs'[s].planId \in PlanIds /\ plans'[subs'[s].planId].active
                  /\ subs'[s].cardId \in CardIds
  <2>1. CASE s = id
    BY <1>1, <1>6, <2>1 DEF SubsInv, planVars
  <2>2. CASE s # id
    BY <1>1, <1>6, <2>2 DEF SubsInv, planVars, SubIds
  <2> QED BY <2>1, <2>2
<1>8. SubsInv'
  <2>1. nextSubId' \in Nat
    BY <1>1, NextNat DEF SubsInv
  <2> QED BY <1>6, <1>7, <2>1, ZenonT(40) DEF SubsInv
<1> QED BY <1>5, <1>8

\* A subscription that exists gets another state, version or due time.
LEMMA UpdateSubInv ==
    ASSUME PlansInv, SubsInv, UNCHANGED <<planVars, nextSubId>>,
           NEW id \in SubIds, NEW sub \in Subscription, subs' = [subs EXCEPT ![id] = sub],
           sub.customer = subs[id].customer, sub.planId = subs[id].planId,
           sub.cardId = subs[id].cardId
    PROVE  PlansInv' /\ SubsInv'
<1>1. PlansInv'
  BY DEF PlansInv, planVars
<1>2. subs' \in [SubIds -> Subscription]
      /\ \A s \in SubIds : /\ subs'[s].customer = subs[s].customer
                           /\ subs'[s].planId = subs[s].planId /\ subs'[s].cardId = subs[s].cardId
  BY DEF SubsInv
<1> QED BY <1>1, <1>2 DEF SubsInv, planVars

\* A subscription that can be charged: its plan and card are there.
LEMMA ChargeableExists ==
    ASSUME PlansInv, SubsInv, NEW id \in SubIds, Chargeable(id)
    PROVE  /\ subs[id] \in Subscription /\ subs[id].customer \in Address
           /\ subs[id].planId \in PlanIds /\ plans[subs[id].planId].active
           /\ subs[id].cardId \in CardIds
BY AccountAssumption DEF Chargeable, SubsInv

\* Every step is a step of the card contract or leaves the cards alone.
LEMMA CardStep == ManagerInv /\ [Next]_vars => [CardNext]_<<now, cardVars>>
<1> SUFFICES ASSUME ManagerInv, [Next]_vars PROVE CardNext \/ UNCHANGED <<now, cardVars>>
  OBVIOUS
<1>1. CASE Tick
  BY <1>1 DEF CardNext
<1>2. CASE UNCHANGED now /\ (OwnerStep \/ AdminStep)
  BY <1>2 DEF CardNext
<1>3. ASSUME NEW id \in SubIds, ChargeOnTime(id) PROVE ChargerStep
  <2> DEFINE s == subs[id]
             p == plans[s.planId]
             v == versions[s.planId][p.latestVersion]
  <2>1. s.planId \in PlanIds /\ p.active /\ s.cardId \in CardIds
    BY <1>3, ChargeableExists DEF ChargeOnTime, ManagerInv
  <2>2. p.merchant \in Merchant /\ v.amount \in Amount
    BY <2>1, LatestVersion, PartyAssumption DEF ManagerInv, PlanVersion
  <2>3. AuthorizeSpend(SubManager, s.cardId, p.merchant, v.amount)
    BY <1>3 DEF ChargeOnTime, CardAllows, AuthorizeSpend
  <2> QED BY <2>1, <2>2, <2>3, PartyAssumption DEF ChargerStep
<1>4. ASSUME NEW id \in SubIds, ChargeLate(id) PROVE UNCHANGED cardVars
  BY <1>4 DEF ChargeLate
<1>5. CASE UNCHANGED vars
  BY <1>5 DEF vars
<1> QED BY <1>1, <1>2, <1>3, <1>4, <1>5 DEF Next, ChargeStep, CardNext

LEMMA ManagerInvNext == ManagerInv /\ [Next]_vars => ManagerInv'
<1> SUFFICES ASSUME ManagerInv, [Next]_vars PROVE ManagerInv'
  OBVIOUS
<1>1. CardTypeOK'
  BY CardStep, CardTypeNext DEF ManagerInv
<1>2. PlansInv /\ SubsInv /\ now \in Nat
  BY WidthAssumption DEF ManagerInv, CardTypeOK
<1>3. CASE UNCHANGED <<planVars, subVars>>
  BY <1>1, <1>2, <1>3, ManagerFrame DEF ManagerInv
<1>4. ASSUME NEW m \in Seller, NEW v \in PlanVersion,
             \/ \E tk \in Token : CreatePlan(m, tk, v)
             \/ \E p \in PlanIds : PushPlanVersion(m, p, v)
      PROVE  PlansInv' /\ SubsInv'
  BY <1>2, <1>4, CreatePlanInv, PushPlanVersionInv
<1>5. ASSUME NEW a \in Owner, NEW p \in PlanIds, NEW c \in CardIds, Subscribe(a, p, c)
      PROVE  PlansInv' /\ SubsInv'
  BY <1>2, <1>5, SubscribeInv
<1>6. ASSUME NEW id \in SubIds, NEW st \in SubState,
             subs' = [subs EXCEPT ![id].state = st], UNCHANGED <<planVars, nextSubId>>
      PROVE  PlansInv' /\ SubsInv'
  <2>1. [subs[id] EXCEPT !.state = st] \in Subscription
    BY <1>2 DEF SubsInv, Subscription
  <2>2. subs' = [subs EXCEPT ![id] = [subs[id] EXCEPT !.state = st]]
    BY <1>2, <1>6 DEF SubsInv
  <2>3. subs[id] \in Subscription
    BY <1>2 DEF SubsInv
  <2> QED BY <1>2, <1>6, <2>1, <2>2, <2>3, UpdateSubInv DEF Subscription
<1>7. ASSUME NEW a \in Owner, NEW id \in SubIds, CancelSub(a, id)
      PROVE  PlansInv' /\ SubsInv'
  BY <1>6, <1>7 DEF CancelSub, SubState
<1>8. ASSUME NEW id \in SubIds, ChargeLate(id) PROVE PlansInv' /\ SubsInv'
  BY <1>6, <1>8 DEF ChargeLate, SubState, subVars
<1>9. ASSUME NEW id \in SubIds, ChargeOnTime(id) PROVE PlansInv' /\ SubsInv'
  <2> DEFINE s == subs[id]
             p == plans[s.planId]
             v == versions[s.planId][p.latestVersion]
             sub == [s EXCEPT !.planVersion = p.latestVersion, !.nextChargeAt = NextDue(s, v)]
  <2>1. s \in Subscription /\ s.planId \in PlanIds /\ p.active
    BY <1>2, <1>9, ChargeableExists DEF ChargeOnTime
  <2>2. p.latestVersion \in 0..MaxVersions /\ v \in PlanVersion
    BY <1>2, <2>1, LatestVersion
  <2>3. s.nextChargeAt \in Nat /\ v.period \in Nat
    <3>1. s.nextChargeAt \in 0..(U48 - 1) /\ v.period \in 0..(U48 - 1)
      BY <2>1, <2>2, ScheduleAssumption DEF Subscription, PlanVersion
    <3> QED BY <3>1, BelowNat, ZenonT(40)
  <2>4. NextDue(s, v) \in 0..(U48 - 1)
    BY <2>3, Width DEF NextDue
  <2>5. sub \in Subscription
    BY <2>1, <2>2, <2>4 DEF Subscription
  <2>6. subs' = [subs EXCEPT ![id] = sub] /\ UNCHANGED <<planVars, nextSubId>>
    BY <1>2, <1>9 DEF ChargeOnTime, SubsInv
  <2>7. sub.customer = s.customer /\ sub.planId = s.planId /\ sub.cardId = s.cardId
    BY <2>1 DEF Subscription
  <2> HIDE DEF sub
  <2> QED BY <1>2, <2>5, <2>6, <2>7, UpdateSubInv
<1>10. PlansInv' /\ SubsInv'
  <2>1. CASE Next
    <3>1. CASE TokenStep
      BY <1>2, <3>1, ManagerFrame DEF TokenStep, Approve, Receive
    <3>2. CASE UNCHANGED managerVars
      BY <1>2, <3>2, ManagerFrame DEF managerVars
    <3> QED BY <2>1, <3>1, <3>2, <1>4, <1>5, <1>7, <1>8, <1>9
            DEF Next, PlanStep, CustomerStep, ChargeStep
  <2>2. CASE UNCHANGED vars
    BY <1>2, <2>2, ManagerFrame DEF vars, managerVars
  <2> QED BY <2>1, <2>2
<1> QED BY <1>1, <1>10 DEF ManagerInv

LEMMA ManagerInvariant == Spec => []ManagerInv
BY ManagerInvInit, ManagerInvNext, PTL DEF Spec

---------------------------------------------------------------------------
(* The manager and the card contract. *)

\* The card contract's steps are among the manager's, which changes cards by them alone, so
\* what holds of every behaviour of CardIssuer holds here.
LEMMA CardsRunAsSpecified == Spec => CardSpec
<1>1. Init => CardInit
  BY DEF Init
<1> QED BY <1>1, CardStep, ManagerInvariant, PTL DEF Spec, CardSpec

\* So the customer's ceiling on a card holds for all its subscriptions together.
THEOREM SharedCardCeiling == Spec => []PeriodCeiling
BY CardsRunAsSpecified, CeilingHolds

---------------------------------------------------------------------------
(* The manager and the pull mandate. *)

\* No due time ever reached leaves the width of a uint48; without this a huge period
\* would wrap the schedule to the past, and the contract does not refuse it.
ShortPeriods == \A d \in Period \cup Trial : MaxTime + d < U48

LEMMA MandateCases ==
    ASSUME NEW sub \in Subscription
    PROVE  /\ sub.customer = ZeroAddress =>
                 MandateOf(sub) = [status |-> "none", due |-> sub.nextChargeAt]
           /\ sub.customer # ZeroAddress /\ sub.state = "Active" =>
                 MandateOf(sub) = [status |-> "open", due |-> sub.nextChargeAt]
           /\ sub.customer # ZeroAddress /\ sub.state = "Cancelled" =>
                 MandateOf(sub) = [status |-> "cancelled", due |-> sub.nextChargeAt]
           /\ sub.customer # ZeroAddress /\ sub.state = "Expired" =>
                 MandateOf(sub) = [status |-> "lapsed", due |-> sub.nextChargeAt]
BY DEF MandateOf

LEMMA MandateStarts == Init => Mandate!MandateInit
<1> SUFFICES ASSUME Init PROVE Mandate!MandateInit
  OBVIOUS
<1>1. ZeroSub.customer = ZeroAddress /\ ZeroSub.nextChargeAt = 0
  BY DEF ZeroSub
<1>2. MandateOf(ZeroSub) = [status |-> "none", due |-> 0]
  BY <1>1 DEF MandateOf
<1>3. mandates = [s \in SubIds |-> [status |-> "none", due |-> 0]]
  BY <1>2 DEF Init, mandates
<1> QED BY <1>3 DEF Init, CardInit, Mandate!MandateInit

\* Steps that write no subscription and let no time pass are stutters of the mandate.
LEMMA MandateStutter ==
    ASSUME UNCHANGED <<now, subs, charges>> PROVE UNCHANGED <<now, mandates, charges>>
BY DEF mandates

\* One subscription is written.
LEMMA MandateWrites ==
    ASSUME SubsInv, NEW id \in SubIds, NEW sub, subs' = [subs EXCEPT ![id] = sub]
    PROVE  mandates' = [mandates EXCEPT ![id] = MandateOf(sub)]
BY DEF mandates, SubsInv

\* A subscription that ends.
LEMMA MandateEnds ==
    ASSUME SubsInv, NEW id \in SubIds, subs[id].customer # ZeroAddress, subs[id].state = "Active",
           NEW st \in {"Cancelled", "Expired"}, subs' = [subs EXCEPT ![id].state = st],
           UNCHANGED <<now, charges>>
    PROVE  Mandate!End(id, IF st = "Cancelled" THEN "cancelled" ELSE "lapsed")
<1> DEFINE sub == [subs[id] EXCEPT !.state = st]
           end == IF st = "Cancelled" THEN "cancelled" ELSE "lapsed"
<1>1. /\ subs[id] \in Subscription /\ sub \in Subscription
      /\ sub.customer = subs[id].customer /\ sub.state = st
      /\ sub.nextChargeAt = subs[id].nextChargeAt
  BY DEF SubsInv, Subscription, SubState
<1>2. subs' = [subs EXCEPT ![id] = sub]
  BY DEF SubsInv
<1>3. mandates[id] = [status |-> "open", due |-> subs[id].nextChargeAt]
  BY <1>1, MandateCases DEF mandates
<1>4. MandateOf(sub) = [status |-> end, due |-> subs[id].nextChargeAt]
  <2> HIDE DEF sub
  <2> QED BY <1>1, MandateCases
<1>5. mandates' = [mandates EXCEPT ![id] = MandateOf(sub)]
  BY <1>2, MandateWrites
<1>6. [mandates[id] EXCEPT !.status = end] = MandateOf(sub)
  BY <1>3, <1>4
<1>7. mandates' = [mandates EXCEPT ![id].status = end]
  BY <1>5, <1>6
<1> QED BY <1>3, <1>7 DEF Mandate!End

LEMMA MandateOpens ==
    ASSUME ShortPeriods, ManagerInv, now' = now,
           NEW a \in Owner, NEW p \in PlanIds, NEW c \in CardIds, Subscribe(a, p, c)
    PROVE  Mandate!Open(nextSubId)
<1> USE ScheduleAssumption, WidthAssumption, AccountAssumption
<1> DEFINE id == nextSubId
           v == versions[p][plans[p].latestVersion]
           sub == [customer |-> a, planId |-> p, planVersion |-> plans[p].latestVersion,
                   cardId |-> c, nextChargeAt |-> Truncate48(now + v.trialPeriod),
                   state |-> "Active"]
<1>1. id \in SubIds /\ subs' = [subs EXCEPT ![id] = sub] /\ charges' = charges /\ plans[p].active
  BY DEF Subscribe, ManagerInv, SubsInv, SubIds
<1>2. v.trialPeriod \in Trial /\ plans[p].latestVersion \in 0..MaxVersions
  BY <1>1, LatestVersion DEF ManagerInv, PlanVersion
<1>3. now \in 0..MaxTime /\ v.trialPeriod \in Nat /\ MaxTime + v.trialPeriod < U48
  <2>1. v.trialPeriod \in 0..(U48 - 1) /\ v.trialPeriod \in Period \cup Trial
    BY <1>2
  <2>2. MaxTime + v.trialPeriod < U48
    BY <2>1 DEF ShortPeriods
  <2> QED BY <2>1, <2>2 DEF ManagerInv, CardTypeOK
<1>4. Truncate48(now + v.trialPeriod) = now + v.trialPeriod
  <2>1. now + v.trialPeriod \in Nat /\ now + v.trialPeriod < U48
    BY <1>3
  <2> QED BY <2>1, Width
<1>5. now + v.trialPeriod \in 0..(U48 - 1)
  BY <1>3
<1>6. sub \in Subscription
  BY <1>2, <1>4, <1>5 DEF Subscription, SubState
<1>7. MandateOf(sub) = [status |-> "open", due |-> now + v.trialPeriod]
  <2>1. sub.customer # ZeroAddress /\ sub.state = "Active" /\ sub.nextChargeAt = now + v.trialPeriod
    BY <1>4
  <2> HIDE DEF sub
  <2> QED BY <1>6, <2>1, MandateCases
<1>8. mandates' = [mandates EXCEPT ![id] = MandateOf(sub)]
  BY <1>1, MandateWrites DEF ManagerInv
<1>9. mandates[id].status = "none"
  <2>1. subs[id] \in Subscription /\ subs[id].customer = ZeroAddress
    BY <1>1 DEF ManagerInv, SubsInv
  <2> QED BY <1>1, <2>1, MandateCases DEF mandates
<1>10. now + v.trialPeriod >= now
  BY <1>3
<1> QED BY <1>1, <1>5, <1>7, <1>8, <1>9, <1>10 DEF Mandate!Open

LEMMA MandateTakes ==
    ASSUME ShortPeriods, ManagerInv, now' = now, NEW id \in SubIds, ChargeOnTime(id)
    PROVE  \E sum \in Price : Mandate!Take(id, sum)
<1> USE ScheduleAssumption, WidthAssumption, AccountAssumption
<1> DEFINE s == subs[id]
           p == plans[s.planId]
           v == versions[s.planId][p.latestVersion]
           due == s.nextChargeAt + v.period
           sub == [s EXCEPT !.planVersion = p.latestVersion, !.nextChargeAt = NextDue(s, v)]
<1>1. s \in Subscription /\ s.customer # ZeroAddress /\ s.planId \in PlanIds /\ p.active
  BY ChargeableExists DEF ChargeOnTime, ManagerInv
<1>2. /\ p.latestVersion \in 0..MaxVersions
      /\ v.period \in Period /\ v.period > GRACE /\ v.amount \in Price
  BY <1>1, LatestVersion DEF ManagerInv, PlanVersion
<1>3. /\ s.nextChargeAt \in Nat /\ s.nextChargeAt <= now /\ now <= s.nextChargeAt + GRACE
      /\ s.state = "Active" /\ now \in 0..MaxTime
  <2>1. s.nextChargeAt \in 0..(U48 - 1) /\ now \in 0..MaxTime
    BY <1>1 DEF ManagerInv, CardTypeOK, Subscription
  <2>2. s.state = "Active" /\ now >= s.nextChargeAt /\ ~(now > s.nextChargeAt + GRACE)
    BY DEF ChargeOnTime, Chargeable, Late
  <2> QED BY <2>1, <2>2
<1>4. v.period \in Nat /\ MaxTime + v.period < U48
  <2>1. v.period \in 0..(U48 - 1) /\ v.period \in Period \cup Trial
    BY <1>2
  <2>2. MaxTime + v.period < U48
    BY <2>1 DEF ShortPeriods
  <2> QED BY <2>1, <2>2, BelowNat, ZenonT(40)
<1>5. due \in Nat /\ due < U48 /\ due > now /\ due > s.nextChargeAt + GRACE
  BY <1>2, <1>3, <1>4, LaterWindow, ZenonT(40)
<1>6. NextDue(s, v) = due /\ due \in 0..(U48 - 1)
  BY <1>5, Width DEF NextDue
<1>7. /\ sub \in Subscription /\ sub.customer = s.customer /\ sub.state = s.state
      /\ sub.nextChargeAt = due
  BY <1>1, <1>2, <1>6 DEF Subscription
<1>8. subs' = [subs EXCEPT ![id] = sub]
  BY DEF ChargeOnTime, ManagerInv, SubsInv
<1> HIDE DEF sub
<1>9. mandates[id] = [status |-> "open", due |-> s.nextChargeAt]
  BY <1>1, <1>3, MandateCases DEF mandates
<1>10. MandateOf(sub) = [status |-> "open", due |-> due]
  BY <1>1, <1>3, <1>7, MandateCases
<1>11. mandates' = [mandates EXCEPT ![id].due = due]
  <2>1. mandates' = [mandates EXCEPT ![id] = MandateOf(sub)]
    BY <1>8, MandateWrites DEF ManagerInv
  <2>2. [mandates[id] EXCEPT !.due = due] = MandateOf(sub)
    BY <1>9, <1>10, SMTT(30)
  <2> QED BY <2>1, <2>2
<1>12. charges' = [charges EXCEPT ![id] =
            Append(@, [due |-> mandates[id].due, at |-> now, amount |-> v.amount])]
  <2>1. charges' = [charges EXCEPT ![id] =
            Append(@, [due |-> s.nextChargeAt, at |-> now, amount |-> v.amount])]
    BY DEF ChargeOnTime
  <2>2. mandates[id].due = s.nextChargeAt
    BY <1>9
  <2> QED BY <2>1, <2>2
<1> HIDE DEF due
<1>13. Mandate!Take(id, v.amount)
  <2>1. /\ mandates[id].status = "open"
        /\ mandates[id].due <= now /\ now <= mandates[id].due + GRACE
    BY <1>3, <1>9
  <2>2. \E d \in 0..(U48 - 1) : /\ d > now /\ d > mandates[id].due + GRACE
                                /\ mandates' = [mandates EXCEPT ![id].due = d]
    <3>1. due > now /\ due > mandates[id].due + GRACE
      BY <1>5, <1>9
    <3> QED BY <1>6, <1>11, <3>1
  <2> QED BY <1>12, <2>1, <2>2, Zenon DEF Mandate!Take
<1> QED BY <1>2, <1>13

LEMMA MandateStep ==
    ShortPeriods /\ ManagerInv /\ [Next]_vars => [Mandate!MandateNext]_<<now, mandates, charges>>
<1> SUFFICES ASSUME ShortPeriods, ManagerInv, [Next]_vars
             PROVE  Mandate!MandateNext \/ UNCHANGED <<now, mandates, charges>>
  OBVIOUS
<1>1. CASE Tick /\ UNCHANGED managerVars
  <2>1. now' \in 0..(U48 - 1) /\ now' >= now
    BY <1>1, WidthAssumption DEF Tick, ManagerInv, CardTypeOK
  <2>2. UNCHANGED <<mandates, charges>>
    BY <1>1 DEF managerVars, subVars, mandates
  <2> QED BY <2>1, <2>2 DEF Mandate!MandateNext, Mandate!Pass
<1>2. CASE UNCHANGED <<now, subs, charges>>
  BY <1>2, MandateStutter
<1>3. ASSUME NEW a \in Owner, NEW p \in PlanIds, NEW c \in CardIds, Subscribe(a, p, c), now' = now
      PROVE  Mandate!MandateNext
  <2>1. nextSubId \in SubIds
    BY <1>3, ScheduleAssumption DEF Subscribe, ManagerInv, SubsInv, SubIds
  <2> QED BY <1>3, <2>1, MandateOpens DEF Mandate!MandateNext
<1>4. ASSUME NEW a \in Owner, NEW id \in SubIds, CancelSub(a, id), now' = now
      PROVE  Mandate!MandateNext
  <2>1. subs[id].customer # ZeroAddress
    BY <1>4, AccountAssumption DEF CancelSub
  <2>2. Mandate!End(id, "cancelled")
    BY <1>4, <2>1, MandateEnds DEF CancelSub, ManagerInv
  <2> QED BY <2>2 DEF Mandate!MandateNext, Mandate!Cancel
<1>5. ASSUME NEW id \in SubIds, ChargeLate(id), now' = now
      PROVE  Mandate!MandateNext
  <2>1. Mandate!End(id, "lapsed")
    BY <1>5, MandateEnds DEF ChargeLate, Chargeable, ManagerInv
  <2>2. mandates[id].due = subs[id].nextChargeAt
    BY DEF mandates, MandateOf
  <2> QED BY <1>5, <2>1, <2>2 DEF ChargeLate, Late, Mandate!MandateNext, Mandate!Lapse
<1>6. ASSUME NEW id \in SubIds, ChargeOnTime(id), now' = now
      PROVE  Mandate!MandateNext
  BY <1>6, MandateTakes DEF Mandate!MandateNext
<1>7. CASE UNCHANGED vars
  BY <1>2, <1>7 DEF vars, managerVars, subVars
<1> QED
  <2>1. CASE UNCHANGED now /\ (OwnerStep \/ AdminStep) /\ UNCHANGED managerVars
    BY <1>2, <2>1 DEF managerVars, subVars
  <2>2. CASE UNCHANGED now /\ (PlanStep \/ TokenStep)
    BY <1>2, <2>2 DEF PlanStep, CreatePlan, PushPlanVersion, TokenStep, Approve, Receive, subVars
  <2> QED BY <1>1, <1>3, <1>4, <1>5, <1>6, <1>7, <2>1, <2>2 DEF Next, CustomerStep, ChargeStep

\* A subscription is a pull mandate: charged in its window only, once for a due time, never
\* after it ended, whatever happens to its plan, its card and the customer's balance.
THEOREM SubscriptionIsMandate == ShortPeriods /\ Spec => IsPullMandate
<1> DEFINE Short == ShortPeriods /\ ManagerInv
<1>1. ShortPeriods /\ Init => Short
  BY ManagerInvInit
<1>2. Short /\ [Next]_vars => Short'
  BY ManagerInvNext DEF ShortPeriods
<1>3. Short /\ [Next]_vars => [Mandate!MandateNext]_<<now, mandates, charges>>
  BY MandateStep
<1> HIDE DEF Short
<1> QED BY <1>1, <1>2, <1>3, MandateStarts, PTL DEF Spec, IsPullMandate, Mandate!MandateSpec

---------------------------------------------------------------------------
(* The mandate: no double charge. *)

Taking == [due : Int, at : Int, amount : Price]

MandateTypes ==
    /\ now \in Int
    /\ mandates \in [SubIds -> [status : Mandate!Status, due : Int]]
    /\ charges \in [SubIds -> Seq(Taking)]

LEMMA TimesAreNumbers == GRACE \in Int /\ 0..(U48 - 1) \subseteq Int
BY WidthAssumption, ScheduleAssumption

\* A mandate that was never opened was never charged.
NoneTaken == \A i \in SubIds : mandates[i].status = "none" => charges[i] = <<>>

\* The windows of all payments are over before the time now due.
WindowsPast ==
    \A i \in SubIds : \A m \in DOMAIN charges[i] : charges[i][m].due + GRACE < mandates[i].due

MandateInv == MandateTypes /\ NoneTaken /\ WindowsPast /\ Mandate!OncePerWindow

LEMMA MandateInvInit == Mandate!MandateInit => MandateInv
BY TimesAreNumbers
DEF Mandate!MandateInit, MandateInv, MandateTypes, NoneTaken, WindowsPast,
    Mandate!OncePerWindow, Mandate!Status

\* A payment of sum, due when the mandate says, at a moment of its window.
LEMMA TakeKeepsInv ==
    ASSUME MandateInv, NEW i \in SubIds, NEW sum \in Price, Mandate!Take(i, sum) PROVE MandateInv'
<1> USE DEF MandateInv, Mandate!Take
<1> DEFINE p == [due |-> mandates[i].due, at |-> now, amount |-> sum]
<1>1. PICK due \in 0..(U48 - 1) : /\ due > now /\ due > mandates[i].due + GRACE
                          /\ mandates' = [mandates EXCEPT ![i].due = due]
  OBVIOUS
<1>2. /\ p \in Taking /\ due \in Int /\ now' = now
      /\ mandates[i].due \in Int /\ GRACE \in Int
  BY TimesAreNumbers DEF MandateTypes, Taking
<1>3. MandateTypes'
  <2>1. charges' = [charges EXCEPT ![i] = Append(charges[i], p)] /\ charges[i] \in Seq(Taking)
    BY DEF MandateTypes
  <2>2. Append(charges[i], p) \in Seq(Taking)
    BY <1>2, <2>1
  <2>3. charges' \in [SubIds -> Seq(Taking)]
    BY <2>1, <2>2 DEF MandateTypes
  <2>4. mandates' \in [SubIds -> [status : Mandate!Status, due : Int]]
    <3>1. mandates \in [SubIds -> [status : Mandate!Status, due : Int]]
      BY DEF MandateTypes
    <3>2. \A d \in Int : [mandates EXCEPT ![i].due = d] \in [SubIds -> [status : Mandate!Status, due : Int]]
      BY <3>1
    <3> QED BY <1>1, <1>2, <3>2
  <2> QED BY <1>2, <2>3, <2>4, TimesAreNumbers DEF MandateTypes
<1>4. ASSUME NEW j \in SubIds, j # i
      PROVE  charges'[j] = charges[j] /\ mandates'[j] = mandates[j]
  BY <1>1, <1>4 DEF MandateTypes
<1>5. /\ mandates'[i].due = due /\ mandates'[i].status = "open"
      /\ charges[i] \in Seq(Taking) /\ charges'[i] = Append(charges[i], p)
  BY <1>1 DEF MandateTypes
<1>6. /\ DOMAIN charges'[i] = DOMAIN charges[i] \cup {Len(charges[i]) + 1}
      /\ charges'[i][Len(charges[i]) + 1] = p
      /\ \A m \in DOMAIN charges[i] :
            m < Len(charges[i]) + 1 /\ m \in Nat /\ charges'[i][m] = charges[i][m] /\ charges[i][m] \in Taking
  BY <1>2, <1>5, SMTT(30)
<1>7. \A m \in DOMAIN charges[i] : charges[i][m].due + GRACE < mandates[i].due
  BY DEF WindowsPast
<1>8. NoneTaken'
  BY <1>4, <1>5 DEF NoneTaken
<1>9. WindowsPast'
  <2>1. ASSUME NEW m \in DOMAIN charges'[i] PROVE charges'[i][m].due + GRACE < due
    <3>1. CASE m = Len(charges[i]) + 1
      BY <1>1, <1>6, <3>1
    <3>2. CASE m \in DOMAIN charges[i]
      <4>1. charges[i][m].due \in Int
        BY <1>6, <3>2 DEF Taking
      <4>3. mandates[i].due < due
        BY <1>1, <1>2 DEF MandateTypes
      <4>4. charges'[i][m] = charges[i][m] /\ charges[i][m].due + GRACE < mandates[i].due
        BY <1>6, <1>7, <3>2
      <4>5. \A x, y, z, w \in Int : x + w < y /\ y < z => x + w < z
        OBVIOUS
      <4> QED BY <1>2, <4>1, <4>3, <4>4, <4>5
    <3> QED BY <1>6, <3>1, <3>2
  <2> QED BY <1>4, <1>5, <2>1 DEF WindowsPast
<1>10. Mandate!OncePerWindow'
  <2>1. ASSUME NEW m \in DOMAIN charges'[i]
        PROVE  /\ charges'[i][m].due <= charges'[i][m].at
               /\ charges'[i][m].at <= charges'[i][m].due + GRACE
               /\ \A n \in DOMAIN charges'[i] :
                     m < n => charges'[i][m].due + GRACE < charges'[i][n].due
    <3>1. CASE m = Len(charges[i]) + 1
      BY <1>6, <3>1
    <3>2. CASE m \in DOMAIN charges[i]
      BY <1>6, <1>7, <3>2 DEF Mandate!OncePerWindow
    <3> QED BY <1>6, <3>1, <3>2
  <2> QED BY <1>4, <2>1 DEF Mandate!OncePerWindow
<1> QED BY <1>3, <1>8, <1>9, <1>10

LEMMA MandateInvNext ==
    MandateInv /\ [Mandate!MandateNext]_<<now, mandates, charges>> => MandateInv'
<1> SUFFICES ASSUME MandateInv, [Mandate!MandateNext]_<<now, mandates, charges>> PROVE MandateInv'
  OBVIOUS
<1> USE DEF MandateInv
<1>1. CASE Mandate!Pass
  BY <1>1, TimesAreNumbers DEF Mandate!Pass, MandateTypes, NoneTaken, WindowsPast, Mandate!OncePerWindow
<1>2. ASSUME NEW i \in SubIds, Mandate!Open(i) PROVE MandateInv'
  <2>1. PICK due \in 0..(U48 - 1) : mandates' = [mandates EXCEPT ![i] = [status |-> "open", due |-> due]]
    BY <1>2 DEF Mandate!Open
  <2>2. charges[i] = <<>> /\ charges' = charges /\ now' = now
    BY <1>2 DEF Mandate!Open, NoneTaken
  <2>3. MandateTypes' /\ NoneTaken'
    BY <2>1, <2>2, TimesAreNumbers DEF MandateTypes, Mandate!Status, NoneTaken
  <2>4. WindowsPast'
    BY <2>1, <2>2 DEF MandateTypes, WindowsPast
  <2> QED BY <2>2, <2>3, <2>4 DEF Mandate!OncePerWindow
<1>3. ASSUME NEW i \in SubIds, Mandate!Cancel(i) \/ Mandate!Lapse(i) PROVE MandateInv'
  <2>1. PICK status \in {"cancelled", "lapsed"} : Mandate!End(i, status)
    BY <1>3 DEF Mandate!Cancel, Mandate!Lapse
  <2>2. MandateTypes' /\ NoneTaken'
    BY <2>1, TimesAreNumbers DEF Mandate!End, MandateTypes, Mandate!Status, NoneTaken
  <2>3. \A j \in SubIds : mandates'[j].due = mandates[j].due
    BY <2>1 DEF Mandate!End, MandateTypes
  <2> QED BY <2>1, <2>2, <2>3 DEF Mandate!End, WindowsPast, Mandate!OncePerWindow
<1>4. ASSUME NEW i \in SubIds, NEW s \in Price, Mandate!Take(i, s) PROVE MandateInv'
  BY <1>4, TakeKeepsInv
<1>5. CASE UNCHANGED <<now, mandates, charges>>
  BY <1>5, TimesAreNumbers DEF MandateTypes, NoneTaken, WindowsPast, Mandate!OncePerWindow
<1> QED BY <1>1, <1>2, <1>3, <1>4, <1>5 DEF Mandate!MandateNext


\* However the permissionless charge is called and retried, no payer pays twice for one
\* due time.
THEOREM OncePerWindowHolds == Mandate!MandateSpec => []Mandate!OncePerWindow
<1>1. MandateInv => Mandate!OncePerWindow
  BY DEF MandateInv
<1> QED BY <1>1, MandateInvInit, MandateInvNext, PTL DEF Mandate!MandateSpec

\* No subscriber pays twice for one due time, and each payment is made in its own grace.
THEOREM NoDoubleCharge == ShortPeriods /\ Spec => []Mandate!OncePerWindow
<1> QED BY SubscriptionIsMandate, OncePerWindowHolds, PTL DEF IsPullMandate

---------------------------------------------------------------------------
(* The ledgers: what was charged, as tables over all payments, and the     *)
(* payments that count on a card, for a merchant and in a token.           *)

Amounts == [x \in AllCharges |-> charges[x[1]][x[2]].amount]
Fees == [x \in AllCharges |-> Fee(charges[x[1]][x[2]].amount)]
Rests == [x \in AllCharges |-> LET a == charges[x[1]][x[2]].amount IN a - Fee(a)]

PlanPaid(x) == plans[subs[x[1]].planId]

OnCard(x, id, k) ==
    /\ subs[x[1]].customer # ZeroAddress
    /\ subs[x[1]].cardId = id
    /\ PlanPaid(x).token = cards[id].token
    /\ PeriodOf(id, charges[x[1]][x[2]].at) = k

PaidOn(id, k) == {x \in AllCharges : OnCard(x, id, k)}
PaidTo(tk, m) == {x \in AllCharges : PlanPaid(x).token = tk /\ PlanPaid(x).merchant = m}
PaidIn(tk) == {x \in AllCharges : PlanPaid(x).token = tk}

LEMMA TotalIsSum ==
    /\ \A f, S : Total([x \in S |-> f[x]]) = SumOver(f, S)
    /\ \A S : \A f \in [S -> Int] : Total(f) = SumOver(f, S)
<1>1. \A f, S : Total([x \in S |-> f[x]]) = SumOver(f, S)
  BY DEF Total, SumOver
<1>2. \A S : \A f \in [S -> Int] : [x \in S |-> f[x]] = f
  OBVIOUS
<1>3. ASSUME NEW S, NEW f \in [S -> Int] PROVE Total(f) = SumOver(f, S)
  <2>1. Total([x \in S |-> f[x]]) = SumOver(f, S)
    BY <1>1
  <2> QED BY <1>2, <2>1
<1> QED BY <1>1, <1>3

\* The sums of the properties, as sums of these tables; and the same a step later.
LEMMA ChargedIsSum ==
    ASSUME NEW id, NEW k
    PROVE  /\ ChargedOn(id, k) = SumOver(Amounts, PaidOn(id, k))
           /\ ChargedOn(id, k)' = SumOver(Amounts', PaidOn(id, k)')
<1>1. ChargedOn(id, k) = SumOver(Amounts, PaidOn(id, k))
  <2>1. [x \in PaidOn(id, k) |-> charges[x[1]][x[2]].amount] = [x \in PaidOn(id, k) |-> Amounts[x]]
    BY DEF Amounts, PaidOn
  <2> QED BY <2>1, TotalIsSum DEF ChargedOn, PaidOn, OnCard, PlanPaid
<1>2. ChargedOn(id, k)' = SumOver(Amounts', PaidOn(id, k)')
  <2>1. [x \in PaidOn(id, k)' |-> charges'[x[1]][x[2]].amount] = [x \in PaidOn(id, k)' |-> Amounts'[x]]
    BY DEF Amounts, PaidOn
  <2> QED BY <2>1, TotalIsSum DEF ChargedOn, PaidOn, OnCard, PlanPaid
<1> QED BY <1>1, <1>2

LEMMA ReceivedIsSum ==
    ASSUME NEW tk, NEW m
    PROVE  /\ Received(tk, m) = SumOver(Rests, PaidTo(tk, m))
           /\ Received(tk, m)' = SumOver(Rests', PaidTo(tk, m)')
<1>1. Received(tk, m) = SumOver(Rests, PaidTo(tk, m))
  <2>1. [x \in PaidTo(tk, m) |-> LET a == charges[x[1]][x[2]].amount IN a - Fee(a)]
            = [x \in PaidTo(tk, m) |-> Rests[x]]
    BY DEF Rests, PaidTo
  <2> QED BY <2>1, TotalIsSum DEF Received, PaidTo, PlanPaid
<1>2. Received(tk, m)' = SumOver(Rests', PaidTo(tk, m)')
  <2>1. [x \in PaidTo(tk, m)' |-> LET a == charges'[x[1]][x[2]].amount IN a - Fee(a)]
            = [x \in PaidTo(tk, m)' |-> Rests'[x]]
    BY DEF Rests, PaidTo
  <2> QED BY <2>1, TotalIsSum DEF Received, PaidTo, PlanPaid
<1> QED BY <1>1, <1>2

LEMMA FeesAreSum ==
    ASSUME NEW tk
    PROVE  /\ FeesOf(tk) = SumOver(Fees, PaidIn(tk))
           /\ FeesOf(tk)' = SumOver(Fees', PaidIn(tk)')
<1>1. FeesOf(tk) = SumOver(Fees, PaidIn(tk))
  <2>1. [x \in PaidIn(tk) |-> Fee(charges[x[1]][x[2]].amount)] = [x \in PaidIn(tk) |-> Fees[x]]
    BY DEF Fees, PaidIn
  <2> QED BY <2>1, TotalIsSum DEF FeesOf, PaidIn, PlanPaid
<1>2. FeesOf(tk)' = SumOver(Fees', PaidIn(tk)')
  <2>1. [x \in PaidIn(tk)' |-> Fee(charges'[x[1]][x[2]].amount)] = [x \in PaidIn(tk)' |-> Fees'[x]]
    BY DEF Fees, PaidIn
  <2> QED BY <2>1, TotalIsSum DEF FeesOf, PaidIn, PlanPaid
<1> QED BY <1>1, <1>2

\* The fee is part of the amount.
LEMMA FeeInAmount ==
    ASSUME NEW a \in Nat
    PROVE  Fee(a) \in Nat /\ Fee(a) <= a /\ a - Fee(a) \in Nat
<1> DEFINE q == (a * 100) \div 10000
<1>1. q \in Nat /\ 10000 * q <= a * 100
  BY Division
<1>2. Fee(a) = q
  BY DEF Fee, FEE_BPS
<1> HIDE DEF q
<1>3. q <= a /\ a - q \in Nat
  BY <1>1
<1> QED BY <1>1, <1>2, <1>3

ChargeTypes == charges \in [SubIds -> Seq(Charge)]

LEMMA ChargeTerms ==
    ASSUME ChargeTypes, NEW x \in AllCharges
    PROVE  /\ x[1] \in SubIds /\ x[2] \in DOMAIN charges[x[1]] /\ x = <<x[1], x[2]>>
           /\ charges[x[1]][x[2]] \in Charge
           /\ Amounts[x] \in Int /\ Fees[x] \in Int /\ Rests[x] \in Int
<1>1. PICK s \in SubIds : x \in {s} \X DOMAIN charges[s]
  BY DEF AllCharges
<1>2. x[1] = s /\ x[2] \in DOMAIN charges[s] /\ x = <<x[1], x[2]>>
  BY <1>1
<1>3. charges[s] \in Seq(Charge)
  BY DEF ChargeTypes
<1>4. charges[s][x[2]] \in Charge
  BY <1>2, <1>3
<1>5. charges[s][x[2]].amount \in Nat
  BY <1>4 DEF Charge
<1> QED BY <1>2, <1>4, <1>5, FeeInAmount DEF Amounts, Fees, Rests

\* One more payment, of subscription id.
LEMMA AppendCharge ==
    ASSUME ChargeTypes, NEW id \in SubIds, NEW c \in Charge,
           charges' = [charges EXCEPT ![id] = Append(@, c)],
           NEW new, new = <<id, Len(charges[id]) + 1>>
    PROVE  /\ ChargeTypes'
           /\ new \notin AllCharges /\ AllCharges' = AllCharges \cup {new}
           /\ charges'[id][Len(charges[id]) + 1] = c
           /\ \A x \in AllCharges : charges'[x[1]][x[2]] = charges[x[1]][x[2]]
<1> DEFINE n == Len(charges[id])
<1>1. charges[id] \in Seq(Charge) /\ n \in Nat /\ DOMAIN charges[id] = 1..n
  BY DEF ChargeTypes
<1>2. /\ charges'[id] = Append(charges[id], c)
      /\ \A s \in SubIds : s # id => charges'[s] = charges[s]
  BY DEF ChargeTypes
<1>3. charges'[id] \in Seq(Charge)
  BY <1>1, <1>2
<1>4. ChargeTypes'
  BY <1>2, <1>3 DEF ChargeTypes
<1>5. /\ DOMAIN charges'[id] = 1..n \cup {n + 1} /\ charges'[id][n + 1] = c
      /\ \A j \in 1..n : charges'[id][j] = charges[id][j]
  BY <1>1, <1>2
<1>6. new \notin AllCharges
  <2> SUFFICES ASSUME new \in AllCharges PROVE FALSE
    OBVIOUS
  <2>1. new[2] \in DOMAIN charges[new[1]]
    BY ChargeTerms
  <2> QED BY <2>1, <1>1
<1>7. AllCharges' = AllCharges \cup {new}
  <2>1. ASSUME NEW s \in SubIds
        PROVE  {s} \X DOMAIN charges'[s] = IF s = id THEN ({s} \X DOMAIN charges[s]) \cup {new}
                                                     ELSE {s} \X DOMAIN charges[s]
    <3>1. CASE s = id
      BY <1>1, <1>5, <3>1
    <3>2. CASE s # id
      BY <1>2, <3>2
    <3> QED BY <3>1, <3>2
  <2>2. AllCharges' = UNION {{s} \X DOMAIN charges'[s] : s \in SubIds}
    BY DEF AllCharges
  <2>3. ASSUME NEW x \in AllCharges' PROVE x \in AllCharges \cup {new}
    <3>1. PICK s \in SubIds : x \in {s} \X DOMAIN charges'[s]
      BY <2>2, <2>3
    <3> QED BY <2>1, <3>1 DEF AllCharges
  <2>4. ASSUME NEW x \in AllCharges \cup {new} PROVE x \in AllCharges'
    <3>1. \E s \in SubIds : x \in {s} \X DOMAIN charges'[s]
      <4>1. CASE x = new
        BY <2>1, <4>1
      <4>2. CASE x \in AllCharges
        <5>1. PICK s \in SubIds : x \in {s} \X DOMAIN charges[s]
          BY <4>2 DEF AllCharges
        <5> QED BY <2>1, <5>1
      <4> QED BY <2>4, <4>1, <4>2
    <3> QED BY <2>2, <3>1
  <2> QED BY <2>3, <2>4
<1>8. \A x \in AllCharges : charges'[x[1]][x[2]] = charges[x[1]][x[2]]
  <2> TAKE x \in AllCharges
  <2>1. x[1] \in SubIds /\ x[2] \in DOMAIN charges[x[1]]
    BY ChargeTerms
  <2> QED BY <1>1, <1>2, <1>5, <2>1
<1> QED BY <1>4, <1>5, <1>6, <1>7, <1>8

\* What a transfer of v from a to b adds to x.
Flow(x, a, b, v) == (IF x = b THEN v ELSE 0) - (IF x = a THEN v ELSE 0)

\* A transfer moves money and makes none.
LEMMA MovedBalance ==
    ASSUME NEW bal \in [Address -> Int], NEW a \in Address, NEW b \in Address, NEW v \in Int
    PROVE  /\ Moved(bal, a, b, v) \in [Address -> Int]
           /\ \A x \in Address : Moved(bal, a, b, v)[x] = bal[x] + Flow(x, a, b, v)
<1> DEFINE taken == [bal EXCEPT ![a] = bal[a] - v]
<1>1. taken \in [Address -> Int] /\ \A x \in Address : taken[x] = IF x = a THEN bal[x] - v ELSE bal[x]
  OBVIOUS
<1>2. Moved(bal, a, b, v) = [taken EXCEPT ![b] = taken[b] + v]
  BY DEF Moved
<1> HIDE DEF taken
<1>3. /\ Moved(bal, a, b, v) \in [Address -> Int]
      /\ \A x \in Address : Moved(bal, a, b, v)[x] = IF x = b THEN taken[x] + v ELSE taken[x]
  BY <1>1, <1>2
<1>4. \A x \in Address : bal[x] \in Int
  OBVIOUS
<1> QED BY <1>1, <1>3, <1>4 DEF Flow

LEMMA MovedTotal ==
    ASSUME NEW bal \in [Address -> Int], NEW a \in Address, NEW b \in Address, NEW v \in Int
    PROVE  SumOver(Moved(bal, a, b, v), Address) = SumOver(bal, Address)
<1> PICK f : f = Moved(bal, a, b, v)
  OBVIOUS
<1> DEFINE g == [bal EXCEPT ![a] = bal[a] - v]
<1>1. f \in [Address -> Int] /\ \A x \in Address : f[x] = bal[x] + Flow(x, a, b, v)
  BY MovedBalance, ZenonT(40)
<1>2. g \in [Address -> Int] /\ g[a] = bal[a] - v /\ \A x \in Address : x # a => g[x] = bal[x]
  OBVIOUS
<1> HIDE DEF g
<1>3. bal[a] \in Int /\ g[b] \in Int /\ f[b] = g[b] + v /\ \A x \in Address : x # b => f[x] = g[x]
  <2>1. \A x \in Address : bal[x] \in Int
    OBVIOUS
  <2> QED BY <1>1, <1>2, <2>1 DEF Flow
<1>4. SumOver(g, Address) = SumOver(bal, Address) - bal[a] + g[a]
  BY <1>2, AccountAssumption, SumChange
<1>5. SumOver(f, Address) = SumOver(g, Address) - g[b] + f[b]
  BY <1>1, <1>2, <1>3, AccountAssumption, SumChange
<1>6. SumOver(bal, Address) \in Int /\ SumOver(g, Address) \in Int
  BY <1>2, AccountAssumption, SumInt
<1> QED BY <1>2, <1>3, <1>4, <1>5, <1>6

---------------------------------------------------------------------------
(* The ledgers: the invariant.  A payment was made by a customer's own     *)
(* card, in the token of the plan and of the card, so that it counts on    *)
(* exactly one card; a plan, a card and a subscription that a payment      *)
(* refers to keep the fields the sums read.                                *)

RowsInv ==
    /\ \A p \in PlanIds : plans[p].active => p < nextPlanId /\ plans[p].token \in Token
    /\ \A s \in SubIds :
          IF subs[s].customer = ZeroAddress THEN charges[s] = <<>>
          ELSE /\ subs[s].customer \in Owner
               /\ subs[s].cardId < nextCardId
               /\ cards[subs[s].cardId].token = plans[subs[s].planId].token
    /\ IsFiniteSet(AllCharges)

BooksInv == CardInv /\ ManagerInv /\ RowsInv /\ TypeOK /\ BudgetMatchesPayments

\* What a step that is no charge keeps.
KeepsBooks ==
    /\ charges' = charges
    /\ \A s \in SubIds : subs[s].customer # ZeroAddress =>
          /\ subs'[s].customer = subs[s].customer
          /\ subs'[s].planId = subs[s].planId /\ subs'[s].cardId = subs[s].cardId
    /\ \A p \in PlanIds : plans[p].active =>
          plans'[p].token = plans[p].token /\ plans'[p].merchant = plans[p].merchant
    /\ \A id \in 0..(nextCardId - 1) :
          /\ cards'[id].token = cards[id].token
          /\ cards'[id].periodDuration = cards[id].periodDuration
          /\ mintedAt'[id] = mintedAt[id] /\ spentIn'[id] = spentIn[id]
    /\ \A id \in CardIds \ 0..(nextCardId - 1), k \in 0..MaxTime : spentIn'[id][k] = 0

LEMMA BooksTypes ==
    ASSUME BooksInv
    PROVE  /\ CardTypeOK /\ nextCardId \in Nat /\ now \in 0..MaxTime
           /\ ChargeTypes /\ 0..(nextCardId - 1) \subseteq CardIds
<1>1. CardTypeOK /\ ChargeTypes
  BY DEF BooksInv, TypeOK, ChargeTypes
<1>2. nextCardId \in 0..MaxCards /\ now \in 0..MaxTime
  BY <1>1 DEF CardTypeOK
<1>3. nextCardId \in Nat /\ nextCardId <= MaxCards
  BY <1>2
<1>4. \A i \in 0..(nextCardId - 1) : i \in 0..(MaxCards - 1)
  BY <1>3
<1> QED BY <1>1, <1>2, <1>3, <1>4 DEF CardIds

\* Where the row of a payment is.
LEMMA PaymentRow ==
    ASSUME BooksInv, NEW x \in AllCharges
    PROVE  LET s == subs[x[1]]
           IN  /\ x[1] \in SubIds /\ s.customer # ZeroAddress /\ s.customer \in Owner
               /\ s.planId \in PlanIds /\ plans[s.planId].active
               /\ s.cardId \in 0..(nextCardId - 1)
               /\ cards[s.cardId].token = plans[s.planId].token
<1>1. x[1] \in SubIds /\ charges[x[1]] # <<>>
  <2>1. x[1] \in SubIds /\ x[2] \in DOMAIN charges[x[1]]
    BY ChargeTerms, BooksTypes
  <2> QED BY <2>1
<1>2. subs[x[1]].customer # ZeroAddress /\ subs[x[1]].customer \in Owner
  BY <1>1 DEF BooksInv, RowsInv
<1>3. ~(x[1] >= nextSubId)
  BY <1>1, <1>2 DEF BooksInv, ManagerInv, SubsInv
<1>4. /\ subs[x[1]].planId \in PlanIds /\ plans[subs[x[1]].planId].active
      /\ subs[x[1]].cardId \in CardIds
  BY <1>1, <1>3 DEF BooksInv, ManagerInv, SubsInv
<1>5. /\ subs[x[1]].cardId < nextCardId
      /\ cards[subs[x[1]].cardId].token = plans[subs[x[1]].planId].token
  BY <1>1, <1>2 DEF BooksInv, RowsInv
<1>6. subs[x[1]].cardId \in 0..(nextCardId - 1)
  BY <1>4, <1>5, BooksTypes DEF CardIds
<1> QED BY <1>1, <1>2, <1>4, <1>5, <1>6

LEMMA SumsKept ==
    ASSUME BooksInv, KeepsBooks
    PROVE  /\ AllCharges' = AllCharges
           /\ Amounts' = Amounts /\ Fees' = Fees /\ Rests' = Rests
           /\ \A id \in 0..(nextCardId - 1), k \in 0..MaxTime : PaidOn(id, k)' = PaidOn(id, k)
           /\ \A id \in CardIds \ 0..(nextCardId - 1), k \in 0..MaxTime : PaidOn(id, k)' = {}
           /\ \A tk, m : PaidTo(tk, m)' = PaidTo(tk, m) /\ PaidIn(tk)' = PaidIn(tk)
<1>1. charges' = charges
  BY DEF KeepsBooks
<1>2. AllCharges' = AllCharges
  BY <1>1 DEF AllCharges
<1>3. Amounts' = Amounts /\ Fees' = Fees /\ Rests' = Rests
  BY <1>1, <1>2 DEF Amounts, Fees, Rests
<1>4. ASSUME NEW x \in AllCharges
      PROVE  /\ subs'[x[1]].customer = subs[x[1]].customer /\ subs[x[1]].customer # ZeroAddress
             /\ subs'[x[1]].cardId = subs[x[1]].cardId /\ subs[x[1]].cardId \in 0..(nextCardId - 1)
             /\ PlanPaid(x)'.token = PlanPaid(x).token
             /\ PlanPaid(x)'.merchant = PlanPaid(x).merchant
  BY PaymentRow DEF KeepsBooks, PlanPaid
<1>5. ASSUME NEW id \in 0..(nextCardId - 1), NEW k \in 0..MaxTime, NEW x \in AllCharges
      PROVE  OnCard(x, id, k)' <=> OnCard(x, id, k)
  BY <1>1, <1>4 DEF OnCard, KeepsBooks, PeriodOf
<1>6. ASSUME NEW id \in CardIds \ 0..(nextCardId - 1), NEW k \in 0..MaxTime, NEW x \in AllCharges
      PROVE  ~OnCard(x, id, k)'
  <2>1. id # subs'[x[1]].cardId
    BY <1>4 DEF BooksInv, TypeOK, CardTypeOK
  <2> QED BY <2>1 DEF OnCard
<1>7. \A id \in 0..(nextCardId - 1), k \in 0..MaxTime : PaidOn(id, k)' = PaidOn(id, k)
  BY <1>2, <1>5 DEF PaidOn
<1>8. \A id \in CardIds \ 0..(nextCardId - 1), k \in 0..MaxTime : PaidOn(id, k)' = {}
  BY <1>2, <1>6 DEF PaidOn
<1>9. \A tk, m : PaidTo(tk, m)' = PaidTo(tk, m) /\ PaidIn(tk)' = PaidIn(tk)
  BY <1>2, <1>4 DEF PaidTo, PaidIn
<1> QED BY <1>2, <1>3, <1>7, <1>8, <1>9

LEMMA IdBelow == \A n \in 0..MaxCards : 0..(n - 1) \subseteq 0..(MaxCards - 1)
OBVIOUS

LEMMA BudgetKept ==
    ASSUME BooksInv, KeepsBooks, CardTypeOK'
    PROVE  BudgetMatchesPayments'
<1> SUFFICES ASSUME NEW id, id \in 0..(nextCardId' - 1), NEW k \in 0..MaxTime
             PROVE  spentIn'[id][k] = ChargedOn(id, k)'
  BY DEF BudgetMatchesPayments
<1>1. ChargedOn(id, k) = SumOver(Amounts, PaidOn(id, k))
      /\ ChargedOn(id, k)' = SumOver(Amounts', PaidOn(id, k)')
  BY ChargedIsSum
<1>2. CASE id \in 0..(nextCardId - 1)
  <2>1. spentIn[id][k] = ChargedOn(id, k)
    BY <1>2 DEF BooksInv, BudgetMatchesPayments
  <2>2. PaidOn(id, k)' = PaidOn(id, k) /\ Amounts' = Amounts
    BY <1>2, SumsKept
  <2>3. spentIn'[id] = spentIn[id]
    BY <1>2 DEF KeepsBooks
  <2> QED BY <1>1, <2>1, <2>2, <2>3
<1>3. CASE id \notin 0..(nextCardId - 1)
  <2>1. id \in CardIds \ 0..(nextCardId - 1)
    <3>1. nextCardId' \in 0..MaxCards
      BY DEF CardTypeOK
    <3> QED BY <1>3, <3>1, IdBelow DEF CardIds
  <2>2. PaidOn(id, k)' = {} /\ spentIn'[id][k] = 0
    BY <2>1, SumsKept DEF KeepsBooks
  <2> QED BY <1>1, <2>2, SumEmpty
<1> QED BY <1>2, <1>3

\* Rows that no step but the customer's own changes.
LEMMA RowsKept ==
    ASSUME BooksInv, KeepsBooks, CardTypeOK', nextCardId' >= nextCardId,
           \A s \in SubIds : subs[s].customer = ZeroAddress => subs'[s].customer = ZeroAddress,
           \A p \in PlanIds : plans'[p].active => p < nextPlanId' /\ plans'[p].token \in Token
    PROVE  RowsInv'
<1>1. ASSUME NEW s \in SubIds, subs[s].customer # ZeroAddress
      PROVE  /\ subs'[s].customer # ZeroAddress /\ subs'[s].customer \in Owner
             /\ subs'[s].cardId < nextCardId'
             /\ cards'[subs'[s].cardId].token = plans'[subs'[s].planId].token
  <2>1. /\ subs[s].customer \in Owner /\ subs[s].cardId < nextCardId
        /\ cards[subs[s].cardId].token = plans[subs[s].planId].token
    BY <1>1 DEF BooksInv, RowsInv
  <2>2. /\ subs[s].planId \in PlanIds /\ plans[subs[s].planId].active
        /\ subs[s].cardId \in CardIds
    BY <1>1 DEF BooksInv, ManagerInv, SubsInv
  <2>3. nextCardId \in Nat /\ nextCardId' \in Nat
    BY BooksTypes DEF CardTypeOK
  <2>4. subs[s].cardId \in 0..(nextCardId - 1)
    BY <2>1, <2>2, <2>3 DEF CardIds
  <2>5. subs[s].cardId \in Int
    BY <2>4
  <2>6. /\ subs'[s].customer = subs[s].customer
        /\ subs'[s].planId = subs[s].planId /\ subs'[s].cardId = subs[s].cardId
    BY <1>1 DEF KeepsBooks
  <2>7. plans'[subs[s].planId].token = plans[subs[s].planId].token
    BY <2>2 DEF KeepsBooks
  <2>8. cards'[subs[s].cardId].token = cards[subs[s].cardId].token
    BY <2>4 DEF KeepsBooks
  <2> QED BY <1>1, <2>1, <2>3, <2>5, <2>6, <2>7, <2>8
<1>2. ASSUME NEW s \in SubIds, subs[s].customer = ZeroAddress
      PROVE  subs'[s].customer = ZeroAddress /\ charges'[s] = <<>>
  BY <1>2 DEF BooksInv, RowsInv, KeepsBooks
<1>3. IsFiniteSet(AllCharges')
  BY SumsKept DEF BooksInv, RowsInv
<1> QED BY <1>1, <1>2, <1>3 DEF RowsInv

---------------------------------------------------------------------------
(* The ledgers: the steps that are no charge. *)

LEMMA UnmintedUnspent ==
    ASSUME BooksInv, NEW id \in CardIds \ 0..(nextCardId - 1), NEW k \in 0..MaxTime
    PROVE  spentIn[id][k] = 0
<1>1. nextCardId \in Nat
  BY BooksTypes
<1>2. id \in nextCardId..(MaxCards - 1)
  BY <1>1 DEF CardIds
<1> QED BY <1>2 DEF BooksInv, CardInv, MintedOnce

\* What the owners' and the admin's calls do to cards.
LEMMA CardsKept ==
    ASSUME BooksInv, OwnerStep \/ AdminStep, UNCHANGED <<now, managerVars>>
    PROVE  KeepsBooks /\ nextCardId' >= nextCardId
<1>1. CardTypeOK /\ nextCardId \in Nat
  BY BooksTypes
<1>2. ASSUME NEW id \in CardIds \ 0..(nextCardId - 1), NEW k \in 0..MaxTime
      PROVE  spentIn[id][k] = 0
  BY <1>2, UnmintedUnspent
<1>3. /\ spentIn' = spentIn /\ nextCardId' >= nextCardId
      /\ \A id \in 0..(nextCardId - 1) :
            /\ cards'[id].token = cards[id].token
            /\ cards'[id].periodDuration = cards[id].periodDuration
            /\ mintedAt'[id] = mintedAt[id]
  <2>1. ASSUME NEW o \in Owner, NEW tk \in Token, NEW b \in Budget, NEW d \in Duration,
               NEW x \in Expiry, NEW allowed \in SUBSET Merchant, MintCard(o, tk, b, d, x, allowed)
        PROVE  <1>3!:
    <3>1. spentIn' = spentIn /\ nextCardId' = nextCardId + 1
      BY <2>1 DEF MintCard
    <3>2. \A id \in 0..(nextCardId - 1) : id \in CardIds /\ id # nextCardId
      BY <1>1, BooksTypes
    <3>3. \A id \in 0..(nextCardId - 1) : cards'[id] = cards[id] /\ mintedAt'[id] = mintedAt[id]
      BY <2>1, <3>2, <1>1 DEF MintCard, CardTypeOK
    <3> QED BY <3>1, <3>3, <1>1
  <2>2. ASSUME NEW o \in Address, NEW i \in CardIds,
               Freeze(o, i) \/ Unfreeze(o, i) \/ CancelCard(o, i)
        PROVE  <1>3!:
    <3>1. PICK st \in CardState : SetCardState(i, st)
      BY <2>2 DEF Freeze, Unfreeze, CancelCard, CardState
    <3>2. /\ cards' = [cards EXCEPT ![i].state = st]
          /\ nextCardId' = nextCardId /\ mintedAt' = mintedAt /\ spentIn' = spentIn
      BY <3>1 DEF SetCardState
    <3>3. ASSUME NEW id \in 0..(nextCardId - 1)
          PROVE  cards'[id].token = cards[id].token
                 /\ cards'[id].periodDuration = cards[id].periodDuration
      <4>1. id \in CardIds /\ cards[id] \in Card
        BY <1>1, BooksTypes DEF CardTypeOK
      <4>2. cards'[id] = IF id = i THEN [cards[id] EXCEPT !.state = st] ELSE cards[id]
        BY <3>2, <4>1, <1>1 DEF CardTypeOK
      <4> QED BY <4>1, <4>2 DEF Card
    <3> QED BY <3>2, <3>3, <1>1
  <2>3. ASSUME NEW ch \in Charger, NEW on \in BOOLEAN, SetChargerAuthorization(ch, on)
        PROVE  <1>3!:
    BY <2>3, <1>1 DEF SetChargerAuthorization
  <2> QED BY <2>1, <2>2, <2>3 DEF OwnerStep, AdminStep
<1> QED BY <1>2, <1>3 DEF KeepsBooks, managerVars, planVars, subVars

\* Calls that leave the cards and the payments alone.
LEMMA CardsUntouched ==
    ASSUME BooksInv, UNCHANGED <<cardVars, charges>>,
           \A s \in SubIds : subs[s].customer # ZeroAddress =>
              /\ subs'[s].customer = subs[s].customer
              /\ subs'[s].planId = subs[s].planId /\ subs'[s].cardId = subs[s].cardId,
           \A p \in PlanIds : plans[p].active =>
              plans'[p].token = plans[p].token /\ plans'[p].merchant = plans[p].merchant
    PROVE  KeepsBooks
BY UnmintedUnspent DEF KeepsBooks, cardVars

LEMMA PlansKept ==
    ASSUME BooksInv, UNCHANGED cardVars, PlanStep
    PROVE  /\ KeepsBooks /\ subs' = subs
           /\ \A p \in PlanIds : plans'[p].active => p < nextPlanId' /\ plans'[p].token \in Token
<1>1. /\ plans \in [PlanIds -> Plan] /\ nextPlanId \in Nat
      /\ \A p \in PlanIds : plans[p].active => p < nextPlanId /\ plans[p].token \in Token
  BY DEF BooksInv, ManagerInv, PlansInv, RowsInv
<1>2. ASSUME NEW m \in Seller, NEW v \in PlanVersion, NEW tk \in Token, CreatePlan(m, tk, v)
      PROVE  /\ subs' = subs /\ charges' = charges
             /\ \A p \in PlanIds : plans[p].active => plans'[p] = plans[p]
             /\ \A p \in PlanIds : plans'[p].active => p < nextPlanId' /\ plans'[p].token \in Token
  <2>1. /\ subs' = subs /\ charges' = charges /\ nextPlanId' = nextPlanId + 1
        /\ plans' = [plans EXCEPT ![nextPlanId] =
              [merchant |-> m, token |-> tk, latestVersion |-> 1, active |-> TRUE]]
    BY <1>2 DEF CreatePlan, subVars
  <2>2. \A p \in PlanIds : plans'[p] = IF p = nextPlanId
              THEN [merchant |-> m, token |-> tk, latestVersion |-> 1, active |-> TRUE] ELSE plans[p]
    BY <1>1, <2>1
  <2>3. \A p \in PlanIds : p \in Int
    BY DEF PlanIds
  <2> QED BY <1>1, <2>1, <2>2, <2>3
<1>3. ASSUME NEW m \in Seller, NEW v \in PlanVersion, NEW i \in PlanIds, PushPlanVersion(m, i, v)
      PROVE  /\ subs' = subs /\ charges' = charges /\ nextPlanId' = nextPlanId
             /\ \A p \in PlanIds : /\ plans'[p].active = plans[p].active
                                   /\ plans'[p].token = plans[p].token
                                   /\ plans'[p].merchant = plans[p].merchant
  BY <1>1, <1>3 DEF PushPlanVersion, subVars, Plan
<1>4. CASE \E m \in Seller, v \in PlanVersion, tk \in Token : CreatePlan(m, tk, v)
  BY <1>2, <1>4, CardsUntouched
<1>5. CASE \E m \in Seller, v \in PlanVersion, i \in PlanIds : PushPlanVersion(m, i, v)
  BY <1>1, <1>3, <1>5, CardsUntouched
<1> QED BY <1>4, <1>5 DEF PlanStep

\* A subscription that ends keeps its row.
LEMMA EndKept ==
    ASSUME BooksInv, UNCHANGED <<cardVars, planVars, charges>>, NEW id \in SubIds, NEW st,
           subs' = [subs EXCEPT ![id].state = st]
    PROVE  /\ KeepsBooks
           /\ \A s \in SubIds : subs'[s].customer = subs[s].customer
<1>1. subs \in [SubIds -> Subscription]
  BY DEF BooksInv, ManagerInv, SubsInv
<1>2. \A s \in SubIds : /\ subs'[s].customer = subs[s].customer
                        /\ subs'[s].planId = subs[s].planId /\ subs'[s].cardId = subs[s].cardId
  BY <1>1 DEF Subscription
<1> QED BY <1>2, CardsUntouched DEF planVars

LEMMA SubscribeKept ==
    ASSUME BooksInv, UNCHANGED cardVars, CardTypeOK',
           NEW a \in Owner, NEW p \in PlanIds, NEW c \in CardIds, Subscribe(a, p, c)
    PROVE  KeepsBooks /\ RowsInv'
<1> DEFINE sub == [customer |-> a, planId |-> p, planVersion |-> plans[p].latestVersion,
                   cardId |-> c, state |-> "Active",
                   nextChargeAt |-> Truncate48(now + versions[p][plans[p].latestVersion].trialPeriod)]
<1>1. /\ plans[p].active /\ cards[c].owner = a /\ cards[c].token = plans[p].token
      /\ plans' = plans /\ nextPlanId' = nextPlanId /\ charges' = charges /\ cards' = cards
      /\ nextCardId' = nextCardId /\ nextSubId < MaxSubs
      /\ subs' = [subs EXCEPT ![nextSubId] = sub]
  BY DEF Subscribe, CardFits, planVars, cardVars
<1>2. nextSubId \in SubIds /\ subs \in [SubIds -> Subscription]
      /\ subs[nextSubId].customer = ZeroAddress
  BY <1>1, ScheduleAssumption DEF BooksInv, ManagerInv, SubsInv, SubIds
<1>3. \A s \in SubIds : subs'[s] = IF s = nextSubId THEN sub ELSE subs[s]
  BY <1>1, <1>2
<1>4. KeepsBooks
  <2>1. \A s \in SubIds : subs[s].customer # ZeroAddress => subs'[s] = subs[s]
    BY <1>2, <1>3
  <2> QED BY <1>1, <2>1, CardsUntouched
<1>5. a # ZeroAddress /\ c < nextCardId
  <2>1. a # ZeroAddress /\ a \in Address
    BY AccountAssumption
  <2>2. c \in 0..(nextCardId - 1)
    BY <1>1, <2>1, OwnedIsMinted DEF BooksInv
  <2> QED BY <2>1, <2>2, BooksTypes
<1>6. ASSUME NEW s \in SubIds
      PROVE  IF subs'[s].customer = ZeroAddress THEN charges'[s] = <<>>
             ELSE /\ subs'[s].customer \in Owner
                  /\ subs'[s].cardId < nextCardId'
                  /\ cards'[subs'[s].cardId].token = plans'[subs'[s].planId].token
  <2>1. CASE s = nextSubId
    BY <1>1, <1>3, <1>5, <2>1
  <2>2. CASE s # nextSubId
    BY <1>1, <1>3, <2>2 DEF BooksInv, RowsInv
  <2> QED BY <2>1, <2>2
<1>7. IsFiniteSet(AllCharges')
  BY <1>4, SumsKept DEF BooksInv, RowsInv
<1>8. \A q \in PlanIds : plans'[q].active => q < nextPlanId' /\ plans'[q].token \in Token
  BY <1>1 DEF BooksInv, RowsInv
<1> QED BY <1>4, <1>6, <1>7, <1>8 DEF RowsInv

---------------------------------------------------------------------------
(* The ledgers: a charge. *)

\* The rows a charge works on, and what it leaves of them.
LEMMA ChargeRows ==
    ASSUME BooksInv, NEW id \in SubIds, ChargeOnTime(id)
    PROVE  LET s == subs[id]
               p == plans[s.planId]
               v == versions[s.planId][p.latestVersion]
           IN  /\ s.customer \in Owner /\ s.customer \in Address /\ s.customer # ZeroAddress
               /\ s.planId \in PlanIds /\ p.active /\ s.cardId \in 0..(nextCardId - 1)
               /\ cards[s.cardId].token = p.token /\ p.token \in Token
               /\ p.merchant \in Seller /\ p.merchant \in Address
               /\ v.amount \in Nat /\ s.nextChargeAt \in Nat
               /\ Spendable(s.cardId, p.merchant, v.amount, now)
               /\ RecordSpend(s.cardId, v.amount)
<1> DEFINE s == subs[id]
           p == plans[s.planId]
           v == versions[s.planId][p.latestVersion]
<1>1. /\ s \in Subscription /\ s.customer \in Address
      /\ s.planId \in PlanIds /\ p.active /\ s.cardId \in CardIds
  BY ChargeableExists DEF ChargeOnTime, BooksInv, ManagerInv
<1>2. s.customer # ZeroAddress
  BY <1>1, AccountAssumption
<1>3. /\ s.customer \in Owner /\ s.cardId < nextCardId /\ cards[s.cardId].token = p.token
      /\ p.token \in Token
  BY <1>1, <1>2 DEF BooksInv, RowsInv
<1>4. s.cardId \in 0..(nextCardId - 1)
  BY <1>1, <1>3, BooksTypes DEF CardIds
<1>5. p.merchant \in Seller /\ v \in PlanVersion
  BY <1>1, LatestVersion DEF BooksInv, ManagerInv
<1>6. p.merchant \in Address
  BY <1>5, PartyAssumption, AccountAssumption
<1>7. v.amount \in Nat
  BY <1>5, PartyAssumption DEF PlanVersion
<1>8. s.nextChargeAt \in Nat
  <2>1. s.nextChargeAt \in 0..(U48 - 1)
    BY <1>1 DEF Subscription
  <2> QED BY <2>1
<1>9. Spendable(s.cardId, p.merchant, v.amount, now) /\ RecordSpend(s.cardId, v.amount)
  BY DEF ChargeOnTime, CardAllows
<1> QED BY <1>1, <1>2, <1>3, <1>4, <1>5, <1>6, <1>7, <1>8, <1>9

\* The period a spend is counted in is within the bounds of the history.
LEMMA PeriodInBounds ==
    ASSUME CardInv, NEW id \in 0..(nextCardId - 1)
    PROVE  PeriodOf(id, now) \in 0..MaxTime
<1>1. /\ id \in CardIds /\ cards[id] \in Card /\ cards[id].periodDuration # 0
      /\ mintedAt[id] \in 0..MaxTime /\ now \in 0..MaxTime
  BY DEF CardInv, CardTypeOK, CardIds, MintedOnce
<1>2. cards[id].periodDuration \in Nat /\ cards[id].periodDuration > 0
      /\ cards[id].periodStart \in 0..MaxTime
  BY <1>1, CardNumbers
<1>3. now - mintedAt[id] \in Nat
  <2>1. mintedAt[id] <= cards[id].periodStart /\ cards[id].periodStart <= now
    BY DEF CardInv, PeriodAligned, Aligned
  <2> QED BY <2>1, <1>1, <1>2
<1>4. /\ PeriodOf(id, now) \in Nat /\ PeriodOf(id, now) <= now - mintedAt[id]
  BY <1>2, <1>3, Division, QuotientBound DEF PeriodOf
<1> QED BY <1>1, <1>3, <1>4

\* A payment of a adds its fee to the fees of the plan's token, and the rest to what the
\* plan's merchant received.
SharesAdded(p, a) ==
    \A tk, m :
       /\ FeesOf(tk)' = FeesOf(tk) + (IF tk = p.token THEN Fee(a) ELSE 0)
       /\ Received(tk, m)' = Received(tk, m)
              + (IF tk = p.token /\ m = p.merchant THEN a - Fee(a) ELSE 0)

\* recordSpend leaves the token and the period of every card alone.
LEMMA RecordSpendKeeps ==
    ASSUME CardTypeOK, NEW id \in CardIds, NEW a, RecordSpend(id, a)
    PROVE  /\ mintedAt' = mintedAt
           /\ \A i \in CardIds : /\ cards'[i].token = cards[i].token
                                 /\ cards'[i].periodDuration = cards[i].periodDuration
BY DEF RecordSpend, CardTypeOK, Card

\* The two shares of a payment are numbers.
LEMMA FeeInts == \A a \in Nat : a \in Int /\ Fee(a) \in Int /\ a - Fee(a) \in Int
BY FeeInAmount

\* Every sum gets the new payment where it belongs, and no other change.
LEMMA PaymentAdded ==
    ASSUME BooksInv, NEW id \in SubIds, ChargeOnTime(id), now' = now,
           NEW s, s = subs[id], NEW p, p = plans[s.planId],
           NEW a, a = versions[s.planId][p.latestVersion].amount,
           NEW n, n = PeriodOf(s.cardId, now)
    PROVE  /\ ChargeTypes' /\ IsFiniteSet(AllCharges')
           /\ \A i \in 0..(nextCardId - 1), k \in 0..MaxTime :
                 ChargedOn(i, k)' = ChargedOn(i, k) + (IF i = s.cardId /\ k = n THEN a ELSE 0)
           /\ SharesAdded(p, a)
<1> PICK new : new = <<id, Len(charges[id]) + 1>>
  OBVIOUS
<1>1. /\ s.customer # ZeroAddress
      /\ s.planId \in PlanIds /\ s.cardId \in 0..(nextCardId - 1)
      /\ cards[s.cardId].token = p.token
      /\ a \in Nat /\ s.nextChargeAt \in Nat
      /\ RecordSpend(s.cardId, a)
  BY ChargeRows
<1>2. CardTypeOK /\ ChargeTypes /\ now \in 0..MaxTime /\ 0..(nextCardId - 1) \subseteq CardIds
  BY BooksTypes
<1>3. PICK c \in Charge : /\ c.at = now /\ c.amount = a
                         /\ charges' = [charges EXCEPT ![id] = Append(@, c)]
  <2>1. now \in Nat
    BY <1>2
  <2>2. [due |-> s.nextChargeAt, at |-> now, amount |-> a] \in Charge
    BY <1>1, <2>1 DEF Charge
  <2> QED BY <2>2 DEF ChargeOnTime
<1>4. /\ plans' = plans
      /\ subs' = [subs EXCEPT ![id].planVersion = p.latestVersion,
                              ![id].nextChargeAt = NextDue(s, versions[s.planId][p.latestVersion])]
  BY DEF ChargeOnTime, planVars
<1>5. /\ ChargeTypes' /\ new \notin AllCharges /\ AllCharges' = AllCharges \cup {new}
      /\ charges'[new[1]][new[2]] = c
      /\ \A x \in AllCharges : charges'[x[1]][x[2]] = charges[x[1]][x[2]]
  <2>1. new[1] = id /\ new[2] = Len(charges[id]) + 1
    OBVIOUS
  <2>2. /\ ChargeTypes' /\ new \notin AllCharges /\ AllCharges' = AllCharges \cup {new}
        /\ charges'[id][Len(charges[id]) + 1] = c
        /\ \A x \in AllCharges : charges'[x[1]][x[2]] = charges[x[1]][x[2]]
    BY <1>2, <1>3, AppendCharge
  <2> QED BY <2>1, <2>2
<1>6. \A t \in SubIds : /\ subs'[t].customer = subs[t].customer
                        /\ subs'[t].planId = subs[t].planId /\ subs'[t].cardId = subs[t].cardId
  <2>1. subs \in [SubIds -> Subscription]
    BY DEF BooksInv, ManagerInv, SubsInv
  <2> QED BY <2>1, <1>4 DEF Subscription
<1>7. /\ mintedAt' = mintedAt
      /\ \A i \in CardIds : /\ cards'[i].token = cards[i].token
                            /\ cards'[i].periodDuration = cards[i].periodDuration
  <2>1. s.cardId \in CardIds
    BY <1>1, <1>2
  <2> QED BY <1>1, <1>2, <2>1, RecordSpendKeeps
<1>8. IsFiniteSet(AllCharges) /\ IsFiniteSet(AllCharges')
  BY <1>5, FS_AddElement DEF BooksInv, RowsInv
<1>9. \A x \in AllCharges : x[1] \in SubIds /\ Amounts[x] \in Int /\ Fees[x] \in Int /\ Rests[x] \in Int
  BY <1>2, ChargeTerms
<1>10. /\ \A x \in AllCharges : Amounts'[x] = Amounts[x] /\ Fees'[x] = Fees[x] /\ Rests'[x] = Rests[x]
       /\ Amounts'[new] = a /\ Fees'[new] = Fee(a) /\ Rests'[new] = a - Fee(a)
  <2>1. c.amount = a
    BY <1>3
  <2>2. \A x \in AllCharges' :
            LET b == charges'[x[1]][x[2]].amount
            IN  Amounts'[x] = b /\ Fees'[x] = Fee(b) /\ Rests'[x] = b - Fee(b)
    BY DEF Amounts, Fees, Rests
  <2>3. \A x \in AllCharges :
            LET b == charges[x[1]][x[2]].amount
            IN  Amounts[x] = b /\ Fees[x] = Fee(b) /\ Rests[x] = b - Fee(b)
    BY DEF Amounts, Fees, Rests
  <2>4. new \in AllCharges' /\ \A x \in AllCharges : x \in AllCharges'
    BY <1>5
  <2>5. ASSUME NEW x \in AllCharges
        PROVE  Amounts'[x] = Amounts[x] /\ Fees'[x] = Fees[x] /\ Rests'[x] = Rests[x]
    <3>1. charges'[x[1]][x[2]] = charges[x[1]][x[2]]
      BY <1>5
    <3> QED BY <2>2, <2>3, <2>4, <3>1
  <2>6. Amounts'[new] = a /\ Fees'[new] = Fee(a) /\ Rests'[new] = a - Fee(a)
    <3>1. charges'[new[1]][new[2]].amount = a
      BY <1>5, <2>1
    <3> QED BY <2>2, <2>4, <3>1
  <2> QED BY <2>5, <2>6
<1>11. a \in Int /\ Fee(a) \in Int /\ a - Fee(a) \in Int
  BY <1>1, FeeInts, ZenonT(40)
<1>12. ASSUME NEW T \in SUBSET AllCharges
       PROVE  /\ SumOver(Amounts', T) = SumOver(Amounts, T)
              /\ SumOver(Amounts', T \cup {new}) = SumOver(Amounts, T) + a
              /\ SumOver(Fees', T) = SumOver(Fees, T)
              /\ SumOver(Fees', T \cup {new}) = SumOver(Fees, T) + Fee(a)
              /\ SumOver(Rests', T) = SumOver(Rests, T)
              /\ SumOver(Rests', T \cup {new}) = SumOver(Rests, T) + (a - Fee(a))
              /\ SumOver(Amounts, T) \in Int /\ SumOver(Fees, T) \in Int /\ SumOver(Rests, T) \in Int
  <2>1. IsFiniteSet(T) /\ IsFiniteSet(AllCharges) /\ new \notin AllCharges
    BY <1>5, <1>8, FS_Subset
  <2>2. SumOver(Amounts, T) \in Int /\ SumOver(Fees, T) \in Int /\ SumOver(Rests, T) \in Int
    BY <2>1, <1>9, SumInt
  <2>3. PICK f, g, h : f = Amounts' /\ g = Fees' /\ h = Rests'
    OBVIOUS
  <2>4. /\ \A x \in AllCharges : /\ Amounts[x] \in Int /\ f[x] = Amounts[x]
                                /\ Fees[x] \in Int /\ g[x] = Fees[x]
                                /\ Rests[x] \in Int /\ h[x] = Rests[x]
        /\ f[new] = a /\ g[new] = Fee(a) /\ h[new] = a - Fee(a)
    BY <1>9, <1>10, <2>3
  <2>8. f[new] \in Int /\ g[new] \in Int /\ h[new] \in Int
    BY <1>11, <2>4
  <2>9. \A x \in AllCharges : Amounts[x] \in Int /\ f[x] = Amounts[x]
    BY <2>4
  <2>10. \A x \in AllCharges : Fees[x] \in Int /\ g[x] = Fees[x]
    BY <2>4
  <2>11. \A x \in AllCharges : Rests[x] \in Int /\ h[x] = Rests[x]
    BY <2>4
  <2>5. SumOver(f, T) = SumOver(Amounts, T) /\ SumOver(f, T \cup {new}) = SumOver(Amounts, T) + f[new]
    <3>1. SumOver(f, T) = SumOver(Amounts, T)
      BY <2>9, SumSame
    <3>2. \A x \in T \cup {new} : f[x] \in Int
      BY <2>8, <2>9
    <3>3. SumOver(f, T \cup {new}) = f[new] + SumOver(f, T)
      BY <2>1, <3>2, SumPut
    <3> QED BY <2>2, <2>8, <3>1, <3>3
  <2>6. SumOver(g, T) = SumOver(Fees, T) /\ SumOver(g, T \cup {new}) = SumOver(Fees, T) + g[new]
    <3>1. SumOver(g, T) = SumOver(Fees, T)
      BY <2>10, SumSame
    <3>2. \A x \in T \cup {new} : g[x] \in Int
      BY <2>8, <2>10
    <3>3. SumOver(g, T \cup {new}) = g[new] + SumOver(g, T)
      BY <2>1, <3>2, SumPut
    <3> QED BY <2>2, <2>8, <3>1, <3>3
  <2>7. SumOver(h, T) = SumOver(Rests, T) /\ SumOver(h, T \cup {new}) = SumOver(Rests, T) + h[new]
    <3>1. SumOver(h, T) = SumOver(Rests, T)
      BY <2>11, SumSame
    <3>2. \A x \in T \cup {new} : h[x] \in Int
      BY <2>8, <2>11
    <3>3. SumOver(h, T \cup {new}) = h[new] + SumOver(h, T)
      BY <2>1, <3>2, SumPut
    <3> QED BY <2>2, <2>8, <3>1, <3>3
  <2> QED
    <3>1. f[new] = a /\ g[new] = Fee(a) /\ h[new] = a - Fee(a)
      BY <2>4
    <3> QED BY <2>2, <2>3, <2>5, <2>6, <2>7, <3>1
<1>13. ASSUME NEW x \in AllCharges, NEW i \in 0..(nextCardId - 1), NEW k \in 0..MaxTime
       PROVE  OnCard(x, i, k)' <=> OnCard(x, i, k)
  BY <1>2, <1>4, <1>5, <1>6, <1>7, <1>9 DEF OnCard, PlanPaid, PeriodOf
<1>14. ASSUME NEW i \in 0..(nextCardId - 1), NEW k \in 0..MaxTime
       PROVE  OnCard(new, i, k)' <=> i = s.cardId /\ k = n
  <2>1. charges'[new[1]][new[2]].at = now
    BY <1>3, <1>5
  <2>2. new[1] = id /\ subs'[id].customer = s.customer /\ subs'[id].cardId = s.cardId
        /\ plans'[subs'[id].planId] = p
    BY <1>4, <1>6
  <2>3. i \in CardIds /\ cards'[i].token = cards[i].token
    BY <1>2, <1>7
  <2>4. (now - mintedAt'[i]) \div cards'[i].periodDuration = PeriodOf(i, now)
    BY <1>7, <2>3 DEF PeriodOf
  <2>5. OnCard(new, i, k)' <=>
            /\ subs'[new[1]].customer # ZeroAddress /\ subs'[new[1]].cardId = i
            /\ plans'[subs'[new[1]].planId].token = cards'[i].token
            /\ (charges'[new[1]][new[2]].at - mintedAt'[i]) \div cards'[i].periodDuration = k
    BY DEF OnCard, PlanPaid, PeriodOf
  <2>6. OnCard(new, i, k)' <=> /\ s.customer # ZeroAddress /\ s.cardId = i
                               /\ p.token = cards[i].token /\ PeriodOf(i, now) = k
    <3>1. (charges'[new[1]][new[2]].at - mintedAt'[i]) \div cards'[i].periodDuration = PeriodOf(i, now)
      BY <2>1, <2>4
    <3> QED BY <2>2, <2>3, <2>5, <3>1
  <2> QED BY <1>1, <2>6
<1>15. ASSUME NEW i \in 0..(nextCardId - 1), NEW k \in 0..MaxTime
       PROVE  ChargedOn(i, k)' = ChargedOn(i, k) + (IF i = s.cardId /\ k = n THEN a ELSE 0)
  <2>1. PaidOn(i, k) \in SUBSET AllCharges
    BY DEF PaidOn
  <2>2. PaidOn(i, k)' = IF i = s.cardId /\ k = n THEN PaidOn(i, k) \cup {new} ELSE PaidOn(i, k)
    BY <1>5, <1>13, <1>14 DEF PaidOn
  <2>3. /\ ChargedOn(i, k) = SumOver(Amounts, PaidOn(i, k))
        /\ ChargedOn(i, k)' = SumOver(Amounts', PaidOn(i, k)')
    BY ChargedIsSum
  <2>4. CASE i = s.cardId /\ k = n
    <3>1. PaidOn(i, k)' = PaidOn(i, k) \cup {new}
      BY <2>2, <2>4
    <3>2. ChargedOn(i, k)' = ChargedOn(i, k) + a
      BY <1>12, <2>1, <2>3, <3>1
    <3> QED BY <2>4, <3>2
  <2>5. CASE ~(i = s.cardId /\ k = n)
    <3>1. ChargedOn(i, k)' = ChargedOn(i, k) /\ ChargedOn(i, k) \in Int
      BY <1>12, <2>1, <2>2, <2>3, <2>5
    <3> QED BY <2>5, <3>1
  <2> QED BY <2>4, <2>5
<1>16. ASSUME NEW x \in AllCharges PROVE PlanPaid(x)' = PlanPaid(x)
  BY <1>4, <1>6, <1>9 DEF PlanPaid
<1>17. PlanPaid(new)' = p
  BY <1>4, <1>6 DEF PlanPaid
<1>18. ASSUME NEW tk, NEW m
       PROVE  /\ FeesOf(tk)' = FeesOf(tk) + (IF tk = p.token THEN Fee(a) ELSE 0)
              /\ Received(tk, m)' = Received(tk, m)
                     + (IF tk = p.token /\ m = p.merchant THEN a - Fee(a) ELSE 0)
  <2>1. PaidIn(tk) \in SUBSET AllCharges /\ PaidTo(tk, m) \in SUBSET AllCharges
    BY DEF PaidIn, PaidTo
  <2>2. PaidIn(tk)' = IF tk = p.token THEN PaidIn(tk) \cup {new} ELSE PaidIn(tk)
    BY <1>5, <1>16, <1>17 DEF PaidIn
  <2>3. PaidTo(tk, m)' = IF tk = p.token /\ m = p.merchant THEN PaidTo(tk, m) \cup {new}
                                                          ELSE PaidTo(tk, m)
    BY <1>5, <1>16, <1>17 DEF PaidTo
  <2>4. /\ FeesOf(tk) = SumOver(Fees, PaidIn(tk)) /\ FeesOf(tk)' = SumOver(Fees', PaidIn(tk)')
        /\ Received(tk, m) = SumOver(Rests, PaidTo(tk, m))
        /\ Received(tk, m)' = SumOver(Rests', PaidTo(tk, m)')
    BY FeesAreSum, ReceivedIsSum
  <2>5. FeesOf(tk) \in Int /\ Received(tk, m) \in Int
    BY <1>12, <2>1, <2>4
  <2>6. FeesOf(tk)' = IF tk = p.token THEN FeesOf(tk) + Fee(a) ELSE FeesOf(tk)
    BY <1>12, <2>1, <2>2, <2>4, ZenonT(40)
  <2>7. Received(tk, m)' = IF tk = p.token /\ m = p.merchant THEN Received(tk, m) + (a - Fee(a))
                                                             ELSE Received(tk, m)
    BY <1>12, <2>1, <2>3, <2>4
  <2>8. FeesOf(tk)' = FeesOf(tk) + (IF tk = p.token THEN Fee(a) ELSE 0)
    BY <2>5, <2>6, AddZero, ZenonT(40)
  <2>9. Received(tk, m)' = Received(tk, m)
                + (IF tk = p.token /\ m = p.merchant THEN a - Fee(a) ELSE 0)
    BY <2>5, <2>7, AddZero, ZenonT(40)
  <2> QED BY <2>8, <2>9
<1> QED BY <1>5, <1>8, <1>15, <1>18 DEF SharesAdded

\* What the two transfers of a charge do to the balances.
LEMMA MovedNat ==
    ASSUME NEW bal \in [Address -> Nat], NEW a \in Address, NEW b \in Address,
           NEW v \in Nat, bal[a] >= v
    PROVE  Moved(bal, a, b, v) \in [Address -> Nat]
<1>1. bal \in [Address -> Int] /\ v \in Int
  OBVIOUS
<1>2. /\ Moved(bal, a, b, v) \in [Address -> Int]
      /\ \A x \in Address : Moved(bal, a, b, v)[x] = bal[x] + Flow(x, a, b, v)
  BY <1>1, MovedBalance, ZenonT(40)
<1>3. \A x \in Address : Moved(bal, a, b, v)[x] \in Nat
  <2> TAKE x \in Address
  <2>1. bal[x] \in Nat /\ bal[a] \in Nat
    OBVIOUS
  <2> QED BY <1>2, <2>1 DEF Flow
<1> QED BY <1>2, <1>3

LEMMA TwoMoves ==
    ASSUME NEW bal \in [Address -> Int], NEW c \in Address, NEW d \in Address, NEW m \in Address,
           NEW f \in Int, NEW r \in Int
    PROVE  \A once, twice : once = Moved(bal, c, d, f) /\ twice = Moved(once, c, m, r) =>
              /\ SumOver(twice, Address) = SumOver(bal, Address)
              /\ c # d /\ c # m /\ m # d =>
                    /\ twice[d] = bal[d] + f /\ twice[m] = bal[m] + r
                    /\ \A x \in Address \ {c, d, m} : twice[x] = bal[x]
<1>1. /\ Moved(bal, c, d, f) \in [Address -> Int]
      /\ SumOver(Moved(bal, c, d, f), Address) = SumOver(bal, Address)
      /\ \A x \in Address : Moved(bal, c, d, f)[x] = bal[x] + Flow(x, c, d, f)
  <2>1. SumOver(Moved(bal, c, d, f), Address) = SumOver(bal, Address)
    BY MovedTotal
  <2>2. Moved(bal, c, d, f) \in [Address -> Int]
    BY MovedBalance
  <2>3. \A x \in Address : Moved(bal, c, d, f)[x] = bal[x] + Flow(x, c, d, f)
    BY MovedBalance
  <2> QED BY <2>1, <2>2, <2>3
<1>2. ASSUME NEW once \in [Address -> Int]
      PROVE  /\ SumOver(Moved(once, c, m, r), Address) = SumOver(once, Address)
             /\ \A x \in Address : Moved(once, c, m, r)[x] = once[x] + Flow(x, c, m, r)
  <2>1. SumOver(Moved(once, c, m, r), Address) = SumOver(once, Address)
    BY MovedTotal
  <2>2. \A x \in Address : Moved(once, c, m, r)[x] = once[x] + Flow(x, c, m, r)
    BY MovedBalance
  <2> QED BY <2>1, <2>2
<1> SUFFICES ASSUME NEW once, once = Moved(bal, c, d, f), NEW twice, twice = Moved(once, c, m, r)
             PROVE  /\ SumOver(twice, Address) = SumOver(bal, Address)
                    /\ c # d /\ c # m /\ m # d =>
                          /\ twice[d] = bal[d] + f /\ twice[m] = bal[m] + r
                          /\ \A x \in Address \ {c, d, m} : twice[x] = bal[x]
  OBVIOUS
<1>3. SumOver(twice, Address) = SumOver(bal, Address)
  BY <1>1, <1>2
<1>4. \A x \in Address : /\ bal[x] \in Int
                         /\ twice[x] = bal[x] + Flow(x, c, d, f) + Flow(x, c, m, r)
  BY <1>1, <1>2
<1> QED BY <1>3, <1>4 DEF Flow

LEMMA PullMoves ==
    ASSUME balance \in [Token -> [Address -> Nat]], allowance \in [Token -> [Address -> Nat]],
           NEW tk \in Token, NEW c \in Address, NEW m \in Address, NEW a \in Nat,
           CanPull(tk, c, a), Pull(tk, c, m, a)
    PROVE  /\ balance' \in [Token -> [Address -> Nat]]
           /\ allowance' \in [Token -> [Address -> Nat]]
           /\ \A t \in Token : t # tk => balance'[t] = balance[t]
           /\ SumOver(balance'[tk], Address) = SumOver(balance[tk], Address)
           /\ c # Treasury /\ c # m /\ m # Treasury =>
                 /\ balance'[tk][Treasury] = balance[tk][Treasury] + Fee(a)
                 /\ balance'[tk][m] = balance[tk][m] + (a - Fee(a))
                 /\ \A x \in Address \ {c, m, Treasury} : balance'[tk][x] = balance[tk][x]
<1>0. PICK fee, bal, once, twice :
          /\ fee = Fee(a) /\ bal = balance[tk]
          /\ once = Moved(bal, c, Treasury, fee) /\ twice = Moved(once, c, m, a - fee)
  OBVIOUS
<1>1. /\ bal[c] >= fee /\ once[c] >= a - fee /\ allowance[tk][c] >= a
      /\ balance' = [balance EXCEPT ![tk] = twice]
      /\ allowance' = [allowance EXCEPT ![tk][c] = @ - a]
  BY <1>0 DEF CanPull, Pull
<1>2. fee \in Nat /\ a - fee \in Nat /\ bal \in [Address -> Nat] /\ Treasury \in Address
  BY <1>0, FeeInAmount, PartyAssumption
<1>3. once \in [Address -> Nat]
  BY <1>0, <1>1, <1>2, MovedNat
<1>4. twice \in [Address -> Nat]
  BY <1>0, <1>1, <1>2, <1>3, MovedNat
<1>5. /\ balance' \in [Token -> [Address -> Nat]] /\ balance'[tk] = twice
      /\ \A t \in Token : t # tk => balance'[t] = balance[t]
  BY <1>1, <1>4
<1>6. allowance' \in [Token -> [Address -> Nat]]
  <2>1. allowance[tk] \in [Address -> Nat] /\ allowance[tk][c] \in Nat
    OBVIOUS
  <2>2. allowance[tk][c] - a \in Nat
    BY <1>1, <2>1
  <2>3. [allowance[tk] EXCEPT ![c] = allowance[tk][c] - a] \in [Address -> Nat]
    BY <2>1, <2>2
  <2>4. allowance' = [allowance EXCEPT ![tk] = [allowance[tk] EXCEPT ![c] = allowance[tk][c] - a]]
    BY <1>1
  <2> QED BY <2>3, <2>4
<1>7. bal \in [Address -> Int] /\ once \in [Address -> Int] /\ fee \in Int /\ a - fee \in Int
  BY <1>2, <1>3
<1>8. /\ SumOver(twice, Address) = SumOver(bal, Address)
      /\ c # Treasury /\ c # m /\ m # Treasury =>
            /\ twice[Treasury] = bal[Treasury] + fee /\ twice[m] = bal[m] + (a - fee)
            /\ \A x \in Address \ {c, Treasury, m} : twice[x] = bal[x]
  <2>1. PICK r : r = a - fee
    OBVIOUS
  <2>2. r \in Int /\ once = Moved(bal, c, Treasury, fee) /\ twice = Moved(once, c, m, r)
    BY <1>0, <1>7, <2>1
  <2>3. /\ SumOver(twice, Address) = SumOver(bal, Address)
        /\ c # Treasury /\ c # m /\ m # Treasury =>
              /\ twice[Treasury] = bal[Treasury] + fee /\ twice[m] = bal[m] + r
              /\ \A x \in Address \ {c, Treasury, m} : twice[x] = bal[x]
    BY <1>2, <1>7, <2>2, TwoMoves
  <2> QED BY <2>1, <2>3
<1> QED BY <1>0, <1>5, <1>6, <1>8

LEMMA ChargeBooks ==
    ASSUME BooksInv, NEW id \in SubIds, ChargeOnTime(id), now' = now, CardTypeOK'
    PROVE  /\ RowsInv' /\ BudgetMatchesPayments' /\ ChargeTypes'
           /\ balance' \in [Token -> [Address -> Nat]]
           /\ allowance' \in [Token -> [Address -> Nat]]
           /\ nextPlanId' = nextPlanId /\ nextSubId' = nextSubId
<1>0. PICK s, p, v, a, n :
          /\ s = subs[id] /\ p = plans[s.planId] /\ v = versions[s.planId][p.latestVersion]
          /\ a = v.amount /\ n = PeriodOf(s.cardId, now)
  OBVIOUS
<1>1. /\ s.customer \in Address /\ s.cardId \in 0..(nextCardId - 1)
      /\ p.token \in Token /\ p.merchant \in Address /\ a \in Nat
      /\ RecordSpend(s.cardId, a)
  BY <1>0, ChargeRows
<1>2. /\ ChargeTypes' /\ IsFiniteSet(AllCharges')
      /\ \A i \in 0..(nextCardId - 1), k \in 0..MaxTime :
            ChargedOn(i, k)' = ChargedOn(i, k) + (IF i = s.cardId /\ k = n THEN a ELSE 0)
  BY <1>0, PaymentAdded
<1>3. n \in 0..MaxTime /\ CardTypeOK /\ 0..(nextCardId - 1) \subseteq CardIds
  BY <1>0, <1>1, PeriodInBounds, BooksTypes DEF BooksInv
<1>4. /\ nextCardId' = nextCardId /\ spentIn' = [spentIn EXCEPT ![s.cardId][n] = @ + a]
      /\ \A i \in CardIds : cards'[i].token = cards[i].token
  <2>1. /\ nextCardId' = nextCardId /\ spentIn' = [spentIn EXCEPT ![s.cardId][n] = @ + a]
        /\ cards' = [cards EXCEPT ![s.cardId].periodStart = RolledStart(cards[s.cardId], now),
                                  ![s.cardId].spentInPeriod = RolledSpent(cards[s.cardId], now) + a]
    BY <1>0, <1>1 DEF RecordSpend
  <2>2. cards \in [CardIds -> Card]
    BY <1>3 DEF CardTypeOK
  <2> QED BY <2>1, <2>2 DEF Card
<1>5. BudgetMatchesPayments'
  <2> SUFFICES ASSUME NEW i \in 0..(nextCardId - 1), NEW k \in 0..MaxTime
               PROVE  spentIn'[i][k] = ChargedOn(i, k)'
    BY <1>4 DEF BudgetMatchesPayments
  <2>1. spentIn[i][k] = ChargedOn(i, k) /\ spentIn[i][k] \in Nat
    BY <1>3 DEF BooksInv, BudgetMatchesPayments, CardTypeOK
  <2>2. spentIn'[i][k] = IF i = s.cardId /\ k = n THEN spentIn[i][k] + a ELSE spentIn[i][k]
    BY <1>1, <1>3, <1>4 DEF CardTypeOK
  <2> QED BY <1>1, <1>2, <2>1, <2>2
<1>6. /\ plans' = plans /\ nextPlanId' = nextPlanId /\ nextSubId' = nextSubId
      /\ \A t \in SubIds : /\ subs'[t].customer = subs[t].customer
                           /\ subs'[t].planId = subs[t].planId /\ subs'[t].cardId = subs[t].cardId
      /\ \A t \in SubIds : t # id => charges'[t] = charges[t]
  <2>1. subs \in [SubIds -> Subscription] /\ charges \in [SubIds -> Seq(Charge)]
    BY BooksTypes DEF BooksInv, ManagerInv, SubsInv, ChargeTypes
  <2> QED BY <2>1 DEF ChargeOnTime, planVars, Subscription
<1>7. RowsInv'
  <2>1. ASSUME NEW t \in SubIds
        PROVE  IF subs'[t].customer = ZeroAddress THEN charges'[t] = <<>>
               ELSE /\ subs'[t].customer \in Owner
                    /\ subs'[t].cardId < nextCardId'
                    /\ cards'[subs'[t].cardId].token = plans'[subs'[t].planId].token
    <3>1. CASE subs[t].customer = ZeroAddress
      <4>1. t # id
        BY <3>1 DEF ChargeOnTime, Chargeable
      <4> QED BY <1>6, <3>1, <4>1 DEF BooksInv, RowsInv
    <3>2. CASE subs[t].customer # ZeroAddress
      <4>1. ~(t >= nextSubId)
        BY <3>2 DEF BooksInv, ManagerInv, SubsInv
      <4>2. subs[t].cardId \in CardIds
        BY <4>1 DEF BooksInv, ManagerInv, SubsInv
      <4> QED BY <1>4, <1>6, <3>2, <4>2 DEF BooksInv, RowsInv
    <3> QED BY <3>1, <3>2
  <2>2. \A q \in PlanIds : plans'[q].active => q < nextPlanId' /\ plans'[q].token \in Token
    BY <1>6 DEF BooksInv, RowsInv
  <2> QED BY <1>2, <2>1, <2>2 DEF RowsInv
<1>8. /\ balance' \in [Token -> [Address -> Nat]]
      /\ allowance' \in [Token -> [Address -> Nat]]
  <2>1. balance \in [Token -> [Address -> Nat]] /\ allowance \in [Token -> [Address -> Nat]]
    BY DEF BooksInv, TypeOK
  <2>2. CanPull(p.token, s.customer, a) /\ Pull(p.token, s.customer, p.merchant, a)
    BY <1>0 DEF ChargeOnTime
  <2> QED BY <1>1, <2>1, <2>2, PullMoves
<1> QED BY <1>2, <1>5, <1>6, <1>7, <1>8

\* A holder's own transactions.
LEMMA TokenBooks ==
    ASSUME BooksInv, UNCHANGED cardVars, TokenStep
    PROVE  /\ KeepsBooks /\ UNCHANGED <<planVars, subVars>>
           /\ balance' \in [Token -> [Address -> Nat]]
           /\ allowance' \in [Token -> [Address -> Nat]]
<1>1. balance \in [Token -> [Address -> Nat]] /\ allowance \in [Token -> [Address -> Nat]]
  BY DEF BooksInv, TypeOK
<1>2. UNCHANGED <<planVars, subVars, charges>>
  BY DEF TokenStep, Approve, Receive
<1>3. ASSUME NEW a \in Owner, NEW tk \in Token, NEW v \in Approval, Approve(a, tk, v)
      PROVE  /\ balance' \in [Token -> [Address -> Nat]]
             /\ allowance' \in [Token -> [Address -> Nat]]
  <2>1. v \in Nat
    BY PartyAssumption
  <2> QED BY <1>1, <1>3, <2>1 DEF Approve
<1>4. ASSUME NEW a \in Owner, NEW tk \in Token, NEW v \in TopUp, Receive(Admin, a, tk, v)
      PROVE  /\ balance' \in [Token -> [Address -> Nat]]
             /\ allowance' \in [Token -> [Address -> Nat]]
  <2>1. v \in Nat /\ a \in Address /\ Admin \in Address /\ balance[tk] \in [Address -> Nat]
    BY <1>1, PartyAssumption, AccountAssumption
  <2>2. balance[tk][Admin] >= v /\ allowance' = allowance
        /\ balance' = [balance EXCEPT ![tk] = Moved(balance[tk], Admin, a, v)]
    BY <1>4 DEF Receive
  <2>3. Moved(balance[tk], Admin, a, v) \in [Address -> Nat]
    BY <2>1, <2>2, MovedNat
  <2> QED BY <1>1, <2>2, <2>3
<1>5. KeepsBooks
  BY <1>2, CardsUntouched DEF planVars, subVars
<1> QED BY <1>2, <1>3, <1>4, <1>5 DEF TokenStep

CounterTypes == nextPlanId \in 0..MaxPlans /\ nextSubId \in 0..MaxSubs
TokenTypes ==
    /\ balance \in [Token -> [Address -> Nat]]
    /\ allowance \in [Token -> [Address -> Nat]]

\* A step that is no charge moves no plan's, seller's or treasury's money: it only ever
\* tops up a customer.
LEMMA OtherStep ==
    ASSUME BooksInv, CardTypeOK', [Next]_vars,
           ~ \E id \in SubIds : ChargeOnTime(id) /\ now' = now
    PROVE  /\ KeepsBooks /\ RowsInv' /\ CounterTypes' /\ TokenTypes'
           /\ \/ balance' = balance
              \/ \E a \in Owner, tk \in Token, v \in TopUp : Receive(Admin, a, tk, v)
<1> USE ScheduleAssumption
<1>1. /\ CounterTypes /\ TokenTypes
      /\ \A p \in PlanIds : plans[p].active => p < nextPlanId /\ plans[p].token \in Token
  BY DEF BooksInv, TypeOK, RowsInv, CounterTypes, TokenTypes
<1>2. nextCardId \in Nat
  BY BooksTypes
<1>3. CASE UNCHANGED vars \/ (Tick /\ UNCHANGED managerVars)
  <2>1. UNCHANGED <<cardVars, managerVars>>
    BY <1>3 DEF vars, Tick
  <2>2. KeepsBooks
    BY <2>1, CardsUntouched DEF managerVars, planVars, subVars
  <2>3. RowsInv'
    BY <1>1, <1>2, <2>1, <2>2, RowsKept DEF managerVars, planVars, subVars, cardVars
  <2> QED BY <1>1, <2>1, <2>2, <2>3
          DEF managerVars, planVars, subVars, tokenVars, CounterTypes, TokenTypes
<1>4. CASE UNCHANGED now /\ (OwnerStep \/ AdminStep) /\ UNCHANGED managerVars
  <2>1. KeepsBooks /\ nextCardId' >= nextCardId
    BY <1>4, CardsKept
  <2>2. RowsInv'
    BY <1>1, <1>4, <2>1, RowsKept DEF managerVars, planVars, subVars
  <2> QED BY <1>1, <1>4, <2>1, <2>2
          DEF managerVars, planVars, subVars, tokenVars, CounterTypes, TokenTypes
<1>5. CASE PlanStep /\ UNCHANGED cardVars
  <2>1. /\ KeepsBooks /\ subs' = subs /\ nextCardId' = nextCardId
        /\ \A p \in PlanIds : plans'[p].active => p < nextPlanId' /\ plans'[p].token \in Token
    BY <1>5, PlansKept DEF cardVars
  <2>2. RowsInv'
    BY <1>2, <2>1, RowsKept
  <2>3. CounterTypes' /\ UNCHANGED tokenVars
    BY <1>1, <1>5 DEF PlanStep, CreatePlan, PushPlanVersion, CounterTypes, subVars
  <2> QED BY <1>1, <2>1, <2>2, <2>3 DEF tokenVars, TokenTypes
<1>6. CASE CustomerStep /\ UNCHANGED cardVars
  <2>1. UNCHANGED <<tokenVars, planVars, charges>>
    BY <1>6 DEF CustomerStep, Subscribe, CancelSub
  <2>2. ASSUME NEW a \in Owner, NEW p \in PlanIds, NEW c \in CardIds, Subscribe(a, p, c)
        PROVE  KeepsBooks /\ RowsInv' /\ nextSubId' \in 0..MaxSubs
    <3>1. nextSubId' = nextSubId + 1 /\ nextSubId < MaxSubs
      BY <2>2 DEF Subscribe
    <3>2. KeepsBooks /\ RowsInv'
      BY <1>6, <2>2, SubscribeKept
    <3> QED BY <1>1, <3>1, <3>2 DEF CounterTypes
  <2>3. ASSUME NEW a \in Owner, NEW id \in SubIds, CancelSub(a, id)
        PROVE  KeepsBooks /\ RowsInv' /\ nextSubId' \in 0..MaxSubs
    <3>1. KeepsBooks /\ \A s \in SubIds : subs'[s].customer = subs[s].customer
      BY <1>6, <2>1, <2>3, EndKept DEF CancelSub
    <3>2. RowsInv'
      BY <1>1, <1>2, <1>6, <2>1, <3>1, RowsKept DEF planVars, cardVars
    <3> QED BY <1>1, <2>3, <3>1, <3>2 DEF CancelSub, CounterTypes
  <2> QED BY <1>1, <1>6, <2>1, <2>2, <2>3
          DEF CustomerStep, tokenVars, planVars, TokenTypes, CounterTypes
<1>7. CASE TokenStep /\ UNCHANGED cardVars
  <2>1. KeepsBooks /\ UNCHANGED <<planVars, subVars>> /\ TokenTypes'
    BY <1>7, TokenBooks DEF TokenTypes
  <2>2. RowsInv'
    BY <1>1, <1>2, <1>7, <2>1, RowsKept DEF planVars, subVars, cardVars
  <2>3. \/ balance' = balance
        \/ \E a \in Owner, tk \in Token, v \in TopUp : Receive(Admin, a, tk, v)
    BY <1>7 DEF TokenStep, Approve
  <2> QED BY <1>1, <2>1, <2>2, <2>3 DEF planVars, subVars, CounterTypes
<1>8. ASSUME NEW id \in SubIds, ChargeLate(id)
      PROVE  /\ KeepsBooks /\ RowsInv' /\ CounterTypes' /\ TokenTypes' /\ balance' = balance
  <2>1. /\ subs' = [subs EXCEPT ![id].state = "Expired"]
        /\ UNCHANGED <<nextSubId, planVars, tokenVars, charges, cardVars>>
    BY <1>8 DEF ChargeLate
  <2>2. KeepsBooks /\ \A s \in SubIds : subs'[s].customer = subs[s].customer
    BY <2>1, EndKept
  <2>3. RowsInv'
    BY <1>1, <1>2, <2>1, <2>2, RowsKept DEF planVars, cardVars
  <2> QED BY <1>1, <2>1, <2>2, <2>3 DEF planVars, tokenVars, CounterTypes, TokenTypes
<1> QED BY <1>3, <1>4, <1>5, <1>6, <1>7, <1>8 DEF Next, ChargeStep

LEMMA BooksInvInit == Init => BooksInv
<1> SUFFICES ASSUME Init PROVE BooksInv
  OBVIOUS
<1> USE ScheduleAssumption, PartyAssumption, AccountAssumption
<1>1. CardInv /\ ManagerInv
  BY CardInvInit, ManagerInvInit DEF Init
<1>2. AllCharges = {}
  BY DEF Init, AllCharges
<1>3. RowsInv
  BY <1>2, FS_EmptySet DEF Init, RowsInv, ZeroPlan, ZeroSub
<1>4. TypeOK
  <2>1. /\ balance \in [Token -> [Address -> Nat]] /\ allowance \in [Token -> [Address -> Nat]]
        /\ charges \in [SubIds -> Seq(Charge)]
    BY DEF Init
  <2> QED BY <1>1, <2>1 DEF Init, TypeOK, CardInv, ManagerInv, PlansInv, SubsInv
<1>5. BudgetMatchesPayments
  BY DEF Init, CardInit, BudgetMatchesPayments
<1> QED BY <1>1, <1>3, <1>4, <1>5 DEF BooksInv

LEMMA BooksInvNext == BooksInv /\ [Next]_vars => BooksInv'
<1> SUFFICES ASSUME BooksInv, [Next]_vars PROVE BooksInv'
  OBVIOUS
<1>1. CardInv' /\ ManagerInv' /\ CardTypeOK'
  BY CardStep, CardInvNext, ManagerInvNext DEF BooksInv, CardInv
<1>2. RowsInv' /\ BudgetMatchesPayments' /\ CounterTypes' /\ TokenTypes' /\ ChargeTypes'
  <2>1. ASSUME NEW id \in SubIds, ChargeOnTime(id), now' = now
        PROVE  <1>2!:
    BY <1>1, <2>1, ChargeBooks DEF BooksInv, TypeOK, CounterTypes, TokenTypes
  <2>2. CASE ~ \E id \in SubIds : ChargeOnTime(id) /\ now' = now
    <3>1. KeepsBooks /\ RowsInv' /\ CounterTypes' /\ TokenTypes'
      BY <1>1, <2>2, OtherStep
    <3>2. ChargeTypes'
      BY <3>1, BooksTypes DEF KeepsBooks, ChargeTypes
    <3> QED BY <1>1, <3>1, <3>2, BudgetKept
  <2> QED BY <2>1, <2>2
<1>3. TypeOK'
  BY <1>1, <1>2 DEF TypeOK, ManagerInv, PlansInv, SubsInv, CounterTypes, TokenTypes, ChargeTypes
<1> QED BY <1>1, <1>2, <1>3 DEF BooksInv

\* What is spent on a card is what was paid with it, period by period: a charge whose pull
\* fails takes no budget, and no payment goes by a card unseen.
THEOREM BudgetsArePayments == Spec => [](TypeOK /\ BudgetMatchesPayments)
<1>1. BooksInv => TypeOK /\ BudgetMatchesPayments
  BY DEF BooksInv
<1> QED BY <1>1, BooksInvInit, BooksInvNext, PTL DEF Spec

---------------------------------------------------------------------------
(* The ledgers: the money.  The equations name the balances of the         *)
(* treasury and of the sellers, so they can only hold if those accounts    *)
(* pay for no subscription: a seller that subscribes spends what it        *)
(* received.  The contract asks for no such separation, and the sum of all *)
(* balances is kept without it.                                            *)

SeparateParties ==
    /\ Treasury \notin Owner \cup Seller \cup {Admin}
    /\ Seller \cap (Owner \cup {Admin}) = {}

LEMMA MoneyInit == Init => MoneySettled
<1> SUFFICES ASSUME Init, NEW tk \in Token
             PROVE  /\ balance[tk][Treasury] = InitialBalance[tk][Treasury] + FeesOf(tk)
                    /\ \A m \in Seller :
                          balance[tk][m] = InitialBalance[tk][m] + Received(tk, m)
                    /\ Total(balance[tk]) = Total(InitialBalance[tk])
  BY DEF MoneySettled
<1> USE AccountAssumption, PartyAssumption
<1>1. AllCharges = {}
  BY DEF Init, AllCharges
<1>2. FeesOf(tk) = 0 /\ \A m \in Seller : Received(tk, m) = 0
  <2>1. PaidIn(tk) = {} /\ \A m \in Seller : PaidTo(tk, m) = {}
    BY <1>1 DEF PaidIn, PaidTo
  <2>2. FeesOf(tk) = SumOver(Fees, {})
    BY <2>1, FeesAreSum
  <2>3. ASSUME NEW m \in Seller PROVE Received(tk, m) = SumOver(Rests, {})
    BY <2>1, ReceivedIsSum
  <2> QED BY <2>2, <2>3, SumEmpty
<1>3. balance = InitialBalance /\ \A x \in Address : InitialBalance[tk][x] \in Nat
  BY DEF Init
<1>4. Treasury \in Address /\ \A m \in Seller : m \in Address
  OBVIOUS
<1> QED BY <1>2, <1>3, <1>4

\* A top-up of a customer moves no money of the treasury or of a seller.
LEMMA TopUpBalances ==
    ASSUME SeparateParties, BooksInv,
           NEW a \in Owner, NEW t \in Token, NEW v \in TopUp, Receive(Admin, a, t, v)
    PROVE  \A tk \in Token :
              /\ balance'[tk][Treasury] = balance[tk][Treasury]
              /\ \A m \in Seller : balance'[tk][m] = balance[tk][m]
              /\ SumOver(balance'[tk], Address) = SumOver(balance[tk], Address)
<1>1. /\ v \in Int /\ a \in Address /\ Admin \in Address /\ balance[t] \in [Address -> Int]
      /\ balance \in [Token -> [Address -> Nat]]
  <2>1. balance \in [Token -> [Address -> Nat]]
    BY DEF BooksInv, TypeOK
  <2>2. balance[t] \in [Address -> Int]
    BY <2>1
  <2>3. v \in Int /\ a \in Address /\ Admin \in Address
    BY PartyAssumption, AccountAssumption
  <2> QED BY <2>1, <2>2, <2>3
<1>2. balance' = [balance EXCEPT ![t] = Moved(balance[t], Admin, a, v)]
  BY DEF Receive
<1>3. SumOver(Moved(balance[t], Admin, a, v), Address) = SumOver(balance[t], Address)
  BY <1>1, MovedTotal
<1>4. \A x \in Address : Moved(balance[t], Admin, a, v)[x] = balance[t][x] + Flow(x, Admin, a, v)
  BY <1>1, MovedBalance
<1>5. ASSUME NEW x \in Address, x # Admin, x # a
      PROVE  Moved(balance[t], Admin, a, v)[x] = balance[t][x]
  <2>1. Flow(x, Admin, a, v) = 0
    BY <1>5 DEF Flow
  <2>2. balance[t][x] \in Int
    BY <1>1
  <2> QED BY <1>4, <2>1, <2>2
<1>6. /\ Treasury \in Address /\ Treasury # Admin /\ Treasury # a
      /\ \A m \in Seller : m \in Address /\ m # Admin /\ m # a
  BY PartyAssumption, AccountAssumption DEF SeparateParties
<1>7. \A tk \in Token : balance'[tk] = IF tk = t THEN Moved(balance[t], Admin, a, v) ELSE balance[tk]
  BY <1>1, <1>2
<1> QED BY <1>3, <1>5, <1>6, <1>7

\* A charge of a under plan p gives the treasury the fee and the plan's
\* merchant the rest.
MoneyMoved(p, a) ==
    \A tk \in Token :
        /\ balance'[tk][Treasury] = balance[tk][Treasury] + (IF tk = p.token THEN Fee(a) ELSE 0)
        /\ \A m \in Seller : balance'[tk][m] = balance[tk][m]
              + (IF tk = p.token /\ m = p.merchant THEN a - Fee(a) ELSE 0)
        /\ SumOver(balance'[tk], Address) = SumOver(balance[tk], Address)

LEMMA ChargeBalances ==
    ASSUME SeparateParties, BooksInv, NEW id \in SubIds, ChargeOnTime(id), now' = now,
           NEW s, s = subs[id], NEW p, p = plans[s.planId],
           NEW a, a = versions[s.planId][p.latestVersion].amount
    PROVE  MoneyMoved(p, a)
<1>1. /\ s.customer \in Owner /\ s.customer \in Address /\ p.token \in Token
      /\ p.merchant \in Seller /\ p.merchant \in Address /\ a \in Nat
  BY ChargeRows
<1>2. CanPull(p.token, s.customer, a) /\ Pull(p.token, s.customer, p.merchant, a)
  BY DEF ChargeOnTime
<1>3. balance \in [Token -> [Address -> Nat]] /\ allowance \in [Token -> [Address -> Nat]]
  BY DEF BooksInv, TypeOK
<1>4. /\ s.customer # Treasury /\ s.customer # p.merchant /\ p.merchant # Treasury
      /\ Treasury \in Address
      /\ \A m \in Seller : m \in Address /\ m # s.customer /\ m # Treasury
  BY <1>1, PartyAssumption, AccountAssumption DEF SeparateParties
<1>5. PICK t, c, m : t = p.token /\ c = s.customer /\ m = p.merchant
  OBVIOUS
<1>6. /\ t \in Token /\ c \in Address /\ m \in Address /\ a \in Nat
      /\ CanPull(t, c, a) /\ Pull(t, c, m, a)
      /\ c # Treasury /\ c # m /\ m # Treasury
  BY <1>1, <1>2, <1>4, <1>5
<1>7. /\ \A x \in Token : x # t => balance'[x] = balance[x]
      /\ SumOver(balance'[t], Address) = SumOver(balance[t], Address)
      /\ balance'[t][Treasury] = balance[t][Treasury] + Fee(a)
      /\ balance'[t][m] = balance[t][m] + (a - Fee(a))
      /\ \A x \in Address \ {c, m, Treasury} : balance'[t][x] = balance[t][x]
  <2>1. \A x \in Token : x # t => balance'[x] = balance[x]
    BY <1>3, <1>6, PullMoves, ZenonT(40)
  <2>2. SumOver(balance'[t], Address) = SumOver(balance[t], Address)
    BY <1>3, <1>6, PullMoves, ZenonT(40)
  <2>3. balance'[t][Treasury] = balance[t][Treasury] + Fee(a)
    BY <1>3, <1>6, PullMoves, ZenonT(40)
  <2>4. balance'[t][m] = balance[t][m] + (a - Fee(a))
    BY <1>3, <1>6, PullMoves, ZenonT(40)
  <2>5. \A x \in Address \ {c, m, Treasury} : balance'[t][x] = balance[t][x]
    BY <1>3, <1>6, PullMoves, ZenonT(40)
  <2> QED BY <2>1, <2>2, <2>3, <2>4, <2>5
<1> SUFFICES ASSUME NEW tk \in Token
             PROVE  /\ balance'[tk][Treasury] = balance[tk][Treasury] + (IF tk = p.token THEN Fee(a) ELSE 0)
                    /\ \A x \in Seller : balance'[tk][x] = balance[tk][x]
                          + (IF tk = p.token /\ x = p.merchant THEN a - Fee(a) ELSE 0)
                    /\ SumOver(balance'[tk], Address) = SumOver(balance[tk], Address)
  BY ZenonT(40) DEF MoneyMoved
<1>8. balance[tk][Treasury] \in Int /\ \A x \in Seller : balance[tk][x] \in Int
  BY <1>3, <1>4
<1>9. CASE tk = t
  <2>1. balance'[tk][Treasury] = balance[tk][Treasury] + Fee(a)
    BY <1>7, <1>9
  <2>2. ASSUME NEW x \in Seller
        PROVE  balance'[tk][x] = balance[tk][x] + (IF x = m THEN a - Fee(a) ELSE 0)
    <3>1. CASE x = m
      BY <1>7, <1>9, <3>1
    <3>2. CASE x # m
      <4>1. x \in Address \ {c, m, Treasury}
        BY <1>4, <1>5, <3>2
      <4>2. balance'[tk][x] = balance[tk][x]
        BY <1>7, <1>9, <4>1
      <4> QED BY <1>8, <3>2, <4>2
    <3> QED BY <3>1, <3>2
  <2> QED BY <1>5, <1>7, <1>9, <2>1, <2>2
<1>10. CASE tk # t
  <2>1. balance'[tk] = balance[tk]
    BY <1>7, <1>10
  <2> QED BY <1>5, <1>8, <1>10, <2>1, AddZero, ZenonT(40)
<1> QED BY <1>9, <1>10

LEMMA MoneyNext == SeparateParties /\ BooksInv /\ MoneySettled /\ [Next]_vars => MoneySettled'
<1> SUFFICES ASSUME SeparateParties, BooksInv, MoneySettled, [Next]_vars, NEW tk \in Token
             PROVE  /\ balance'[tk][Treasury] = InitialBalance[tk][Treasury] + FeesOf(tk)'
                    /\ \A m \in Seller :
                          balance'[tk][m] = InitialBalance[tk][m] + Received(tk, m)'
                    /\ Total(balance'[tk]) = Total(InitialBalance[tk])
  BY DEF MoneySettled
<1>1. /\ balance[tk][Treasury] = InitialBalance[tk][Treasury] + FeesOf(tk)
      /\ \A m \in Seller : balance[tk][m] = InitialBalance[tk][m] + Received(tk, m)
      /\ Total(balance[tk]) = Total(InitialBalance[tk])
  BY DEF MoneySettled
<1>2. BooksInv' /\ CardTypeOK'
  BY BooksInvNext DEF BooksInv, CardInv
<1>3. /\ balance[tk] \in [Address -> Int] /\ balance'[tk] \in [Address -> Int]
      /\ Treasury \in Address /\ InitialBalance[tk][Treasury] \in Int
      /\ \A m \in Seller : m \in Address /\ InitialBalance[tk][m] \in Int
  <2>1. balance \in [Token -> [Address -> Nat]]
    BY DEF BooksInv, TypeOK
  <2>2. balance' \in [Token -> [Address -> Nat]]
    BY <1>2 DEF BooksInv, TypeOK
  <2>3. \A b \in [Token -> [Address -> Nat]] : b[tk] \in [Address -> Int]
    OBVIOUS
  <2>4. Treasury \in Address /\ Seller \subseteq Address
    BY PartyAssumption, AccountAssumption
  <2>5. InitialBalance[tk] \in [Address -> Int]
    BY <2>3, PartyAssumption
  <2>6. balance[tk] \in [Address -> Int]
    BY <2>1, <2>3
  <2>7. balance'[tk] \in [Address -> Int]
    BY <2>2, <2>3
  <2> QED BY <2>4, <2>5, <2>6, <2>7
<1>4. SumOver(balance'[tk], Address) = SumOver(balance[tk], Address)
         => Total(balance'[tk]) = Total(balance[tk])
  BY <1>3, TotalIsSum
<1>5. FeesOf(tk) \in Int /\ \A m \in Seller : Received(tk, m) \in Int
  <2>1. IsFiniteSet(PaidIn(tk)) /\ \A m \in Seller : IsFiniteSet(PaidTo(tk, m))
    BY FS_Subset DEF PaidIn, PaidTo, BooksInv, RowsInv
  <2>2. \A x \in AllCharges : Fees[x] \in Int /\ Rests[x] \in Int
    BY BooksTypes, ChargeTerms
  <2>3. (\A x \in PaidIn(tk) : Fees[x] \in Int)
        /\ \A m \in Seller : \A x \in PaidTo(tk, m) : Rests[x] \in Int
    BY <2>2 DEF PaidIn, PaidTo
  <2>4. SumOver(Fees, PaidIn(tk)) \in Int
    BY <2>1, <2>3, SumInt
  <2>5. ASSUME NEW m \in Seller PROVE SumOver(Rests, PaidTo(tk, m)) \in Int
    BY <2>1, <2>3, SumInt
  <2> QED BY <2>4, <2>5, FeesAreSum, ReceivedIsSum
<1>6. ASSUME NEW id \in SubIds, ChargeOnTime(id), now' = now
      PROVE  /\ balance'[tk][Treasury] = InitialBalance[tk][Treasury] + FeesOf(tk)'
             /\ \A m \in Seller : balance'[tk][m] = InitialBalance[tk][m] + Received(tk, m)'
             /\ Total(balance'[tk]) = Total(InitialBalance[tk])
  <2>1. PICK s, p, a, n : /\ s = subs[id] /\ p = plans[s.planId] /\ n = PeriodOf(s.cardId, now)
                          /\ a = versions[s.planId][p.latestVersion].amount
    OBVIOUS
  <2>2. /\ balance'[tk][Treasury] = balance[tk][Treasury] + (IF tk = p.token THEN Fee(a) ELSE 0)
        /\ \A m \in Seller : balance'[tk][m] = balance[tk][m]
              + (IF tk = p.token /\ m = p.merchant THEN a - Fee(a) ELSE 0)
        /\ SumOver(balance'[tk], Address) = SumOver(balance[tk], Address)
    <3>1. MoneyMoved(p, a)
      BY <1>6, <2>1, ChargeBalances
    <3> QED BY <3>1, ZenonT(40) DEF MoneyMoved
  <2>3. /\ FeesOf(tk)' = FeesOf(tk) + (IF tk = p.token THEN Fee(a) ELSE 0)
        /\ \A m \in Seller : Received(tk, m)' = Received(tk, m)
              + (IF tk = p.token /\ m = p.merchant THEN a - Fee(a) ELSE 0)
    <3>1. SharesAdded(p, a)
      BY <1>6, <2>1, PaymentAdded
    <3> QED BY <3>1 DEF SharesAdded
  <2>4. a \in Nat
    BY <1>6, <2>1, ChargeRows
  <2>5. Fee(a) \in Int /\ a - Fee(a) \in Int
    BY <2>4, FeeInAmount
  <2>6. balance'[tk][Treasury] = InitialBalance[tk][Treasury] + FeesOf(tk)'
    BY <1>1, <1>3, <1>5, <2>2, <2>3, <2>5
  <2>7. ASSUME NEW m \in Seller
        PROVE  balance'[tk][m] = InitialBalance[tk][m] + Received(tk, m)'
    BY <1>1, <1>3, <1>5, <2>2, <2>3, <2>5
  <2> QED BY <1>1, <1>4, <2>2, <2>6, <2>7
<1>7. CASE ~ \E id \in SubIds : ChargeOnTime(id) /\ now' = now
  <2>1. KeepsBooks /\ \/ balance' = balance
                      \/ \E a \in Owner, t \in Token, v \in TopUp : Receive(Admin, a, t, v)
    BY <1>2, <1>7, OtherStep
  <2>2. FeesOf(tk)' = FeesOf(tk) /\ \A m \in Seller : Received(tk, m)' = Received(tk, m)
    BY <2>1, SumsKept, FeesAreSum, ReceivedIsSum
  <2>3. /\ balance'[tk][Treasury] = balance[tk][Treasury]
        /\ \A m \in Seller : balance'[tk][m] = balance[tk][m]
        /\ SumOver(balance'[tk], Address) = SumOver(balance[tk], Address)
    BY <2>1, TopUpBalances
  <2> QED BY <1>1, <1>4, <2>2, <2>3
<1> QED BY <1>6, <1>7

\* The money: whenever charges, cancellations, top-ups and repricings come, no balance or
\* allowance is overdrawn, the treasury holds exactly the fee and the merchants exactly the
\* rest of every charge that is on a card's budget, and no token is made or lost.
THEOREM LedgersHold == SeparateParties /\ Spec => []LedgersAgree
<1> DEFINE Sound == SeparateParties /\ BooksInv /\ MoneySettled
<1>1. SeparateParties /\ Init => Sound
  BY BooksInvInit, MoneyInit
<1>2. Sound /\ [Next]_vars => Sound'
  BY BooksInvNext, MoneyNext DEF SeparateParties
<1>3. Sound => LedgersAgree
  BY DEF BooksInv, LedgersAgree
<1> HIDE DEF Sound
<1> QED BY <1>1, <1>2, <1>3, PTL DEF Spec
====
