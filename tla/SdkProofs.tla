------------------------------ MODULE SdkProofs ------------------------------
(***************************************************************************)
(* Proofs about the two sides of metered requests, for any requests,       *)
(* calls, prices and budgets.                                              *)
(*                                                                         *)
(* The paying side, ClientPolicy: its budget is the card's.  A client rolls*)
(* its period at every question and a card only at a spend, so the         *)
(* invariant compares the periods the two are in; and a budget that is a   *)
(* number is compared with the reservations it stands for, a sum.          *)
(*                                                                         *)
(* The selling side, Metering: nothing is served or recorded that was not  *)
(* settled.  The invariant follows a payment: a verdict "settled" has an   *)
(* authorization behind it, a served metered request has that verdict, and *)
(* what was posted was served.                                             *)
(***************************************************************************)
EXTENDS ClientPolicy, Metering, ProofBasics

---------------------------------------------------------------------------
(* The budget: periods. *)

\* A start on the grid, moved by whole periods, is the start of the period of t.
LEMMA RollsToGrid ==
    ASSUME NEW t \in Nat, NEW s \in 0..t, s % PeriodMs = 0
    PROVE  LET start == IF t - s >= PeriodMs
                        THEN s + ((t - s) \div PeriodMs) * PeriodMs ELSE s
           IN  /\ start = PeriodOf(t) * PeriodMs
               /\ start \in 0..t /\ start % PeriodMs = 0
               /\ PeriodOf(start) = PeriodOf(t)
               /\ t - s >= PeriodMs <=> PeriodOf(s) < PeriodOf(t)
               /\ PeriodOf(s) \in Nat /\ PeriodOf(t) \in Nat
<1> USE PolicyAssumption
<1> DEFINE d == PeriodMs
           j == s \div d
           e == (t - s) \div d
           q == t \div d
<1>1. d \in Nat /\ d > 0 /\ s \in Nat /\ t - s \in Nat /\ s <= t
  OBVIOUS
<1>2. j \in Nat /\ j * d = s
  <2>1. s = d * (s \div d) + (s % d)
    BY <1>1, SMT
  <2>2. j \in Nat
    BY <1>1, Division
  <2> HIDE DEF j
  <2>3. s = d * j
    BY <1>1, <2>1, SMT DEF j
  <2> QED
    BY <1>1, <2>2, <2>3, SMT
<1>3. e \in Nat /\ d * e <= t - s /\ t - s < d * e + d
  BY <1>1, Division
<1>4. q = j + e
  <2> HIDE DEF d, e, j, q
  <2>1. (j + e) * d <= t /\ t < (j + e) * d + d /\ j + e \in Nat
    BY <1>1, <1>2, <1>3, SMT
  <2> QED
    BY <1>1, <2>1, QuotientUnique DEF q
<1>5. (t - s >= d <=> e > 0) /\ (e = 0 \/ t - s >= d)
  <2> HIDE DEF d, e
  <2> QED
    BY <1>1, <1>3, SMT
<1> DEFINE start == IF t - s >= d THEN s + e * d ELSE s
<1>6. start = q * d /\ start \in 0..t
  <2> HIDE DEF d, e, j, q
  <2>1. q * d = s + e * d /\ q * d \in Nat /\ q * d <= t
    BY <1>1, <1>2, <1>3, <1>4, SMT
  <2>2. ~(t - s >= d) => e * d = 0
    BY <1>1, <1>3, <1>5, SMT
  <2> QED
    BY <1>1, <2>1, <2>2, SMT
<1>7. (q * d) \div d = q /\ (q * d) % d = 0
  <2> HIDE DEF d, e, j, q
  <2>1. q \in Nat
    BY <1>2, <1>3, <1>4
  <2>2. (q * d) \div d = q
    BY <1>1, <2>1, GridPoint
  <2>3. q * d = d * ((q * d) \div d) + ((q * d) % d) /\ (q * d) % d \in Int
    BY <1>1, <2>1, SMT
  <2>4. (q * d) % d = 0
    <3> DEFINE m == (q * d) % d
    <3>1. q * d = d * q + m /\ m \in Int
      BY <2>2, <2>3
    <3> HIDE DEF m
    <3>2. m = 0
      BY <1>1, <2>1, <3>1, SMT
    <3> QED
      BY <3>2 DEF m
  <2> QED
    BY <2>2, <2>4
<1>8. t - s >= d <=> j < q
  <2> HIDE DEF d, e, j, q
  <2> QED
    BY <1>2, <1>3, <1>4, <1>5, SMT
<1>9. q \in Nat /\ j \in Nat
  <2> HIDE DEF e, j, q
  <2> QED
    BY <1>2, <1>3, <1>4, SMT
<1> HIDE DEF e, j, q, start
<1>10. /\ start = q * d /\ start \in 0..t /\ start % d = 0 /\ start \div d = q
       /\ t - s >= d <=> j < q
       /\ j \in Nat /\ q \in Nat
  BY <1>6, <1>7, <1>8, <1>9
<1> QED
  BY <1>10 DEF PeriodOf, d, e, j, q, start

---------------------------------------------------------------------------
(* The budget: the invariant. *)

ClientTypes ==
    /\ TypeOK
    /\ challenge \in [Call -> Price \cup {0}]
    /\ reservedAt \in [Call -> 0..MaxTime]
    /\ released \in BOOLEAN /\ carried \in BOOLEAN /\ (carried => released)

\* Finitely many reservations are held, none for a period the tracker has not reached;
\* what was not answered yet is what was asked.
ReservationsInv ==
    /\ IsFiniteSet(Holding)
    /\ \A c \in Holding : PeriodOf(reservedAt[c]) <= PeriodOf(periodStart)
    /\ \A c \in Call : pc[c] = "paying" => atomic[c] = challenge[c]

\* The card, which saw the same reservations: in the same period it has spent the same,
\* and when its period is an earlier one the client has spent nothing since.
CardInSync ==
    /\ card \in [periodAmount : {PeriodBudget}, periodDuration : {PeriodMs},
                periodStart : 0..now, spentInPeriod : Nat]
    /\ card.periodStart % PeriodMs = 0
    /\ ~released =>
         /\ card.periodStart <= periodStart
         /\ spent = IF card.periodStart = periodStart THEN card.spentInPeriod ELSE 0

ClientInv ==
    ClientTypes /\ ReservationsInv /\ CardInSync /\ TrackerExact /\ BudgetHeldWithoutCarry

LEMMA TotalIsSum == \A f, S : Total(f, S) = SumOver(f, S)
BY DEF Total, SumOver

LEMMA AmountsAreNaturals ==
    ASSUME ClientTypes
    PROVE  \A c \in Call : atomic[c] \in Nat /\ challenge[c] \in Nat /\ Granted[c] \in Nat
                           /\ Granted[c] <= atomic[c] /\ Granted[c] <= challenge[c]
<1>1. \A c \in Call : atomic[c] \in Nat /\ challenge[c] \in Nat
  <2>1. \A p \in Price \cup {0} : p \in Nat
    BY PolicyAssumption
  <2>2. \A c \in Call : atomic[c] \in Price \cup {0} /\ challenge[c] \in Price \cup {0}
    BY DEF ClientTypes, TypeOK
  <2> QED
    BY <2>1, <2>2
<1> QED
  BY <1>1 DEF Granted

LEMMA ReservationsFinite ==
    ASSUME ReservationsInv, NEW k
    PROVE  IsFiniteSet(Reservations(k)) /\ Reservations(k) \subseteq Call
<1>1. Reservations(k) \in SUBSET Holding /\ Holding \subseteq Call
  BY DEF Reservations, Holding
<1> QED
  BY <1>1, FS_Subset DEF ReservationsInv

\* The period a question is answered in is the one now falls in.
LEMMA TrackerRolls ==
    ASSUME TypeOK
    PROVE  /\ StartNow = PeriodOf(now) * PeriodMs
           /\ StartNow \in 0..now /\ StartNow % PeriodMs = 0
           /\ PeriodOf(StartNow) = PeriodOf(now)
           /\ RolledOver <=> PeriodOf(periodStart) < PeriodOf(now)
           /\ ~RolledOver => PeriodOf(periodStart) = PeriodOf(now)
           /\ PeriodOf(periodStart) \in Nat /\ PeriodOf(now) \in Nat
           /\ SpentNow \in Nat /\ periodStart <= StartNow
<1>1. now \in Nat /\ periodStart \in 0..now /\ periodStart % PeriodMs = 0 /\ spent \in Nat
  BY DEF TypeOK
<1>2. SpentNow \in Nat
  BY <1>1 DEF SpentNow
<1>3. periodStart <= StartNow
  <2>1. CASE RolledOver
    <3>1. (now - periodStart) \div PeriodMs \in Nat
      BY <1>1, <2>1, PolicyAssumption, Division DEF RolledOver
    <3>2. ((now - periodStart) \div PeriodMs) * PeriodMs \in Nat
      BY <3>1, PolicyAssumption, SMT
    <3> QED
      BY <1>1, <2>1, <3>2 DEF StartNow
  <2>2. CASE ~RolledOver
    BY <1>1, <2>2 DEF StartNow
  <2> QED
    BY <2>1, <2>2
<1> QED
  BY <1>1, <1>2, <1>3, RollsToGrid DEF StartNow, RolledOver

\* What check() compares with the budget is what is reserved in the period of now.
LEMMA SpentNowExact ==
    ASSUME ClientInv, ~carried
    PROVE  SpentNow = SumOver(atomic, Reservations(PeriodOf(now)))
<1> USE DEF ClientInv, ClientTypes
<1>1. CASE RolledOver
  <2>1. Reservations(PeriodOf(now)) = {}
    <3>1. \A c \in Holding : PeriodOf(reservedAt[c]) < PeriodOf(now)
      <4>1. \A c \in Holding : reservedAt[c] \in Nat
        BY PolicyAssumption DEF Holding
      <4>2. \A c \in Holding : PeriodOf(reservedAt[c]) \in Nat
        BY <4>1, PolicyAssumption, Division DEF PeriodOf
      <4> QED
        BY <1>1, <4>2, TrackerRolls DEF ReservationsInv
    <3>2. \A c \in Holding : PeriodOf(reservedAt[c]) # PeriodOf(now)
      BY <3>1, TrackerRolls
    <3> QED
      BY <3>2 DEF Reservations
  <2> QED
    BY <1>1, <2>1, SumEmpty DEF SpentNow
<1>2. CASE ~RolledOver
  BY <1>2, TrackerRolls, TotalIsSum DEF TrackerExact, SpentNow
<1> QED
  BY <1>1, <1>2

\* The card rolls to the same start, and decides from the same spend.
LEMMA CardRolls ==
    ASSUME ClientTypes, CardInSync
    PROVE  /\ CardIssuer!RolledStart(card, now) = StartNow
           /\ CardIssuer!RolledSpent(card, now) \in Nat
           /\ ~released => CardIssuer!RolledSpent(card, now) = SpentNow
<1> USE DEF ClientTypes
<1> DEFINE cs == card.periodStart
           U == 2 * (MaxTime + PeriodMs) + 1
<1>1. /\ now \in Nat /\ now <= MaxTime /\ MaxTime \in Nat /\ PeriodMs \in Nat /\ PeriodMs > 0
      /\ cs \in 0..now /\ cs % PeriodMs = 0
      /\ periodStart \in 0..now /\ periodStart % PeriodMs = 0
  BY PolicyAssumption DEF TypeOK, CardInSync
<1>2. LET start == IF now - cs >= PeriodMs
                   THEN cs + ((now - cs) \div PeriodMs) * PeriodMs ELSE cs
      IN  /\ start = PeriodOf(now) * PeriodMs /\ start \in 0..now
          /\ now - cs >= PeriodMs <=> PeriodOf(cs) < PeriodOf(now)
          /\ PeriodOf(start) = PeriodOf(now)
  BY <1>1, RollsToGrid
<1>3. \A x \in 0..now : x % U = x
  <2>1. U \in Nat /\ now < U
    BY <1>1
  <2> HIDE DEF U
  <2> QED
    BY <1>1, <2>1, SMT
<1>4. CardIssuer!PeriodEnded(card, now) <=> now - cs >= PeriodMs
  <2> HIDE DEF U
  <2> QED
  BY <1>1 DEF CardIssuer!PeriodEnded, CardInSync
<1>5. CardIssuer!RolledStart(card, now) = StartNow
  <2>1. card.periodDuration = PeriodMs
    BY DEF CardInSync
  <2>2. StartNow = PeriodOf(now) * PeriodMs
    BY TrackerRolls
  <2>3. CASE now - cs >= PeriodMs
    <3>1. CardIssuer!RolledStart(card, now)
            = CardIssuer!Truncate48(cs + ((now - cs) \div PeriodMs) * PeriodMs)
      BY <1>4, <2>1, <2>3 DEF CardIssuer!RolledStart
    <3>2. CardIssuer!RolledStart(card, now) = (PeriodOf(now) * PeriodMs) % U
      BY <1>2, <2>3, <3>1 DEF CardIssuer!Truncate48
    <3>3. PeriodOf(now) * PeriodMs \in 0..now
      BY <1>2
    <3> HIDE DEF U
    <3> QED
      BY <1>3, <2>2, <3>2, <3>3
  <2>4. CASE ~(now - cs >= PeriodMs)
    BY <1>2, <1>4, <2>2, <2>4 DEF CardIssuer!RolledStart
  <2> QED
    BY <2>3, <2>4
<1>6. CardIssuer!RolledSpent(card, now) \in Nat
  BY DEF CardInSync, CardIssuer!RolledSpent
<1>7. ASSUME ~released
      PROVE  CardIssuer!RolledSpent(card, now) = SpentNow
  <2>1. CASE cs = periodStart
    <3>1. CardIssuer!PeriodEnded(card, now) <=> RolledOver
      BY <1>4, <2>1 DEF RolledOver
    <3> QED
      BY <1>7, <2>1, <3>1 DEF CardInSync, SpentNow, CardIssuer!RolledSpent
  <2>2. CASE cs # periodStart
    <3>1. spent = 0 /\ cs < periodStart
      BY <1>1, <1>7, <2>2 DEF CardInSync
    <3>2. PeriodOf(cs) < PeriodOf(periodStart)
      <4>1. cs \in 0..periodStart /\ periodStart \in 0..periodStart /\ periodStart \in Nat
        BY <1>1, <3>1
      <4>2. LET start == IF periodStart - cs >= PeriodMs
                         THEN cs + ((periodStart - cs) \div PeriodMs) * PeriodMs ELSE cs
            IN  /\ start = PeriodOf(periodStart) * PeriodMs
                /\ periodStart - cs >= PeriodMs <=> PeriodOf(cs) < PeriodOf(periodStart)
        BY <1>1, <4>1, RollsToGrid
      <4>3. LET start == IF periodStart - periodStart >= PeriodMs
                         THEN periodStart + ((periodStart - periodStart) \div PeriodMs) * PeriodMs
                         ELSE periodStart
            IN  start = PeriodOf(periodStart) * PeriodMs
        BY <1>1, <4>1, RollsToGrid
      <4>4. periodStart = PeriodOf(periodStart) * PeriodMs
        BY <1>1, <4>3
      <4> QED
        BY <2>2, <4>2, <4>4
    <3>3. PeriodOf(periodStart) <= PeriodOf(now)
          /\ PeriodOf(periodStart) \in Nat /\ PeriodOf(now) \in Nat
      BY TrackerRolls
    <3>4. PeriodOf(cs) \in Nat
      BY <1>1, Division DEF PeriodOf
    <3>5. CardIssuer!PeriodEnded(card, now)
      <4> HIDE DEF cs
      <4> QED
        BY <1>2, <1>4, <3>2, <3>3, <3>4
    <3> QED
      BY <3>1, <3>5 DEF SpentNow, CardIssuer!RolledSpent
  <2> QED
    BY <2>1, <2>2
<1> QED
  BY <1>5, <1>6, <1>7

---------------------------------------------------------------------------
(* The budget: the steps. *)

LEMMA ClientInvInit == Init => ClientInv
<1> SUFFICES ASSUME Init PROVE ClientInv
  OBVIOUS
<1> USE PolicyAssumption DEF Init
<1>1. ClientTypes
  <2>1. 0 % PeriodMs = 0 /\ 0 \in 0..MaxTime
    BY SMT
  <2>2. now \in 0..MaxTime /\ periodStart \in 0..now /\ periodStart % PeriodMs = 0 /\ spent \in Nat
    BY <2>1
  <2>3. /\ pc \in [Call -> {"requested", "unpaid", "refused", "paying", "failed", "paid"}]
        /\ atomic \in [Call -> Price \cup {0}]
        /\ challenge \in [Call -> Price \cup {0}]
        /\ reservedAt \in [Call -> 0..MaxTime]
    BY <2>1
  <2> QED
    BY <2>2, <2>3 DEF ClientTypes, TypeOK
<1>2. Holding = {}
  BY DEF Holding
<1>3. ReservationsInv
  BY <1>2, FS_EmptySet DEF ReservationsInv
<1>4. CardInSync
  BY SMT DEF CardInSync
<1>5. \A k : Reservations(k) = {}
  BY <1>2 DEF Reservations
<1>6. TrackerExact
  BY <1>5, TotalIsSum, SumEmpty DEF TrackerExact
<1>7. BudgetHeldWithoutCarry
  BY <1>5, TotalIsSum, SumEmpty DEF BudgetHeldWithoutCarry, PeriodBudgetHeld
<1> QED
  BY <1>1, <1>3, <1>4, <1>6, <1>7 DEF ClientInv

\* A step that neither reserves nor takes back: at most the period rolls.
LEMMA NothingReserved ==
    ASSUME ClientInv, UNCHANGED <<atomic, history>>, ClientTypes',
           \/ UNCHANGED tracker /\ now' \in now..MaxTime
           \/ SetSpent(SpentNow) /\ now' = now,
           \A c \in Call : pc'[c] # pc[c] =>
               \/ pc[c] = "requested" /\ pc'[c] \in {"unpaid", "refused"}
               \/ pc[c] = "paying" /\ pc'[c] = "paid"
    PROVE  ClientInv'
<1> USE DEF ClientInv
<1>1. UNCHANGED <<atomic, reservedAt, challenge, card, released, carried>>
  BY DEF history
<1>2. Holding' = Holding
  BY DEF Holding
<1>3. \A k : Reservations(k)' = Reservations(k)
  BY <1>1, <1>2 DEF Reservations
<1>4. Granted' = Granted
  BY <1>1 DEF Granted
<1>5. BudgetHeldWithoutCarry'
  BY <1>1, <1>3, <1>4, TotalIsSum DEF BudgetHeldWithoutCarry, PeriodBudgetHeld
<1>6. CASE UNCHANGED tracker /\ now' \in now..MaxTime
  <2>1. UNCHANGED <<periodStart, spent>>
    BY <1>6 DEF tracker
  <2>2. ReservationsInv'
    BY <1>1, <1>2, <2>1 DEF ReservationsInv, ClientTypes, TypeOK
  <2>3. CardInSync'
    BY <1>1, <1>6, <2>1, PolicyAssumption DEF CardInSync, ClientTypes, TypeOK
  <2>4. TrackerExact'
    BY <1>1, <1>3, <2>1, TotalIsSum DEF TrackerExact
  <2> QED
    BY <1>5, <2>2, <2>3, <2>4
<1>7. CASE SetSpent(SpentNow) /\ now' = now
  <2>1. periodStart' = StartNow /\ spent' = SpentNow
    BY <1>7 DEF SetSpent
  <2>2. PeriodOf(periodStart)' = PeriodOf(now) /\ PeriodOf(periodStart) <= PeriodOf(now)
        /\ PeriodOf(periodStart) \in Nat /\ PeriodOf(now) \in Nat
    <3>1. PeriodOf(periodStart)' = PeriodOf(StartNow)
      BY <2>1 DEF PeriodOf
    <3> QED
      BY <3>1, TrackerRolls DEF ClientTypes
  <2>3. ReservationsInv'
    <3>1. \A c \in Holding : PeriodOf(reservedAt[c]) \in Nat
      <4>1. \A c \in Holding : reservedAt[c] \in Nat
        BY PolicyAssumption DEF Holding, ClientTypes
      <4> QED
        BY <4>1, PolicyAssumption, Division DEF PeriodOf
    <3>2. \A c \in Holding : PeriodOf(reservedAt[c]) <= PeriodOf(now)
      BY <2>2, <3>1 DEF ReservationsInv
    <3>3. \A c \in Holding' : PeriodOf(reservedAt[c])' <= PeriodOf(periodStart)'
      BY <1>1, <1>2, <2>2, <3>2 DEF PeriodOf
    <3>4. \A c \in Call : pc'[c] = "paying" => atomic'[c] = challenge'[c]
      BY <1>1 DEF ReservationsInv
    <3> QED
      BY <1>2, <3>3, <3>4 DEF ReservationsInv
  <2>4. CardInSync'
    <3>1. CASE released
      BY <1>1, <1>7, <3>1 DEF CardInSync
    <3>2. CASE ~released
      <4>1. /\ card.periodStart <= periodStart /\ periodStart <= StartNow
            /\ card.periodStart \in Nat /\ periodStart \in Nat /\ StartNow \in Nat
        BY <3>2, TrackerRolls DEF CardInSync, ClientTypes, TypeOK
      <4>2. SpentNow = IF card.periodStart = StartNow THEN card.spentInPeriod ELSE 0
        <5>1. CASE RolledOver
          <6>1. StartNow # periodStart
            BY <5>1, TrackerRolls DEF ClientTypes
          <6>2. StartNow # card.periodStart
            BY <4>1, <6>1
          <6> QED
            BY <5>1, <6>2 DEF SpentNow
        <5>2. CASE ~RolledOver
          BY <3>2, <5>2 DEF SpentNow, StartNow, CardInSync
        <5> QED
          BY <5>1, <5>2
      <4> QED
        BY <1>1, <1>7, <2>1, <4>1, <4>2 DEF CardInSync
    <3> QED
      BY <3>1, <3>2
  <2>5. TrackerExact'
    BY <1>1, <1>3, <2>1, <2>2, SpentNowExact, TotalIsSum DEF TrackerExact
  <2> QED
    BY <1>5, <2>3, <2>4, <2>5
<1> QED
  BY <1>6, <1>7

\* A reservation: the sums of the period of now grow by the amount, the others stay.
LEMMA ReserveKeepsInv ==
    ASSUME ClientInv, NEW c \in Call, NEW a \in Price, NEW o \in Origin, Reserve(c, a, o)
    PROVE  ClientInv'
<1> USE DEF ClientInv
<1>0. PICK k : k = PeriodOf(now)
  OBVIOUS
<1>1. /\ pc[c] = "requested" /\ a > 0 /\ Allowed(a, o)
      /\ periodStart' = StartNow /\ spent' = SpentNow + a
      /\ pc' = [pc EXCEPT ![c] = "paying"]
      /\ atomic' = [atomic EXCEPT ![c] = a]
      /\ reservedAt' = [reservedAt EXCEPT ![c] = now]
      /\ challenge' = [challenge EXCEPT ![c] = a]
      /\ now' = now /\ released' = released /\ carried' = carried
      /\ card' = [card EXCEPT !.periodStart = CardIssuer!RolledStart(card, now),
                              !.spentInPeriod = CardIssuer!RolledSpent(card, now) + a]
  BY DEF Reserve, SetSpent
<1>2. a \in Nat
  BY PolicyAssumption
<1>3. /\ StartNow \in 0..now /\ StartNow % PeriodMs = 0 /\ PeriodOf(StartNow) = k
      /\ PeriodOf(periodStart) <= k /\ PeriodOf(periodStart) \in Nat /\ k \in Nat
      /\ SpentNow \in Nat
  BY <1>0, TrackerRolls DEF ClientTypes
<1>4. ClientTypes'
  <2>1. now' \in 0..MaxTime /\ periodStart' \in 0..now' /\ periodStart' % PeriodMs = 0
        /\ spent' \in Nat
    BY <1>1, <1>2, <1>3 DEF ClientTypes, TypeOK
  <2>2. /\ pc' \in [Call -> {"requested", "unpaid", "refused", "paying", "failed", "paid"}]
        /\ atomic' \in [Call -> Price \cup {0}]
        /\ challenge' \in [Call -> Price \cup {0}]
        /\ reservedAt' \in [Call -> 0..MaxTime]
    BY <1>1 DEF ClientTypes, TypeOK
  <2> QED
    BY <1>1, <2>1, <2>2 DEF ClientTypes, TypeOK
<1>5. Holding' = Holding \cup {c} /\ c \notin Holding
  BY <1>1 DEF Holding, ClientTypes, TypeOK
<1>6. \A d \in Call : d # c => /\ atomic'[d] = atomic[d] /\ challenge'[d] = challenge[d]
                               /\ reservedAt'[d] = reservedAt[d] /\ pc'[d] = pc[d]
  BY <1>1 DEF ClientTypes, TypeOK
<1>7. /\ atomic'[c] = a /\ challenge'[c] = a /\ reservedAt'[c] = now /\ pc'[c] = "paying"
  BY <1>1 DEF ClientTypes, TypeOK
<1>8. periodStart' = StartNow /\ PeriodOf(periodStart)' = k
  BY <1>1, <1>3 DEF PeriodOf
<1>9. ReservationsInv'
  <2>1. IsFiniteSet(Holding)'
    BY <1>5, FS_AddElement DEF ReservationsInv
  <2>2. ASSUME NEW d \in Holding'
        PROVE  PeriodOf(reservedAt[d])' <= PeriodOf(periodStart)'
    <3>1. CASE d = c
      BY <1>0, <1>3, <1>7, <1>8, <3>1 DEF PeriodOf
    <3>2. CASE d # c
      <4>1. d \in Call /\ d \in Holding
        BY <1>5, <3>2 DEF Holding
      <4>2. reservedAt[d] \in Nat
        BY <4>1, PolicyAssumption DEF ClientTypes
      <4>3. PeriodOf(reservedAt[d]) \in Nat /\ PeriodOf(reservedAt[d]) <= PeriodOf(periodStart)
        BY <4>1, <4>2, PolicyAssumption, Division DEF PeriodOf, ReservationsInv
      <4>4. PeriodOf(reservedAt[d])' = PeriodOf(reservedAt[d])
        BY <1>6, <3>2, <4>1 DEF PeriodOf
      <4> QED
        BY <1>3, <1>8, <4>3, <4>4
    <3> QED
      BY <3>1, <3>2
  <2>3. \A d \in Call : pc'[d] = "paying" => atomic'[d] = challenge'[d]
    BY <1>6, <1>7 DEF ReservationsInv
  <2> QED
    BY <2>1, <2>2, <2>3 DEF ReservationsInv
<1>10. CardInSync'
  <2>1. /\ CardIssuer!RolledStart(card, now) = StartNow
        /\ CardIssuer!RolledSpent(card, now) \in Nat
        /\ ~released => CardIssuer!RolledSpent(card, now) = SpentNow
    BY CardRolls
  <2>2. /\ card' = [card EXCEPT !.periodStart = StartNow,
                                !.spentInPeriod = CardIssuer!RolledSpent(card, now) + a]
    BY <1>1, <2>1
  <2> DEFINE r == CardIssuer!RolledSpent(card, now)
  <2> HIDE DEF r
  <2>4. card'.periodStart = StartNow /\ card'.spentInPeriod = r + a
    BY <2>2 DEF CardInSync, r
  <2>5. card' \in [periodAmount : {PeriodBudget}, periodDuration : {PeriodMs},
                  periodStart : 0..now', spentInPeriod : Nat]
    <3>1. r + a \in Nat /\ now' = now
      BY <1>1, <1>2, <2>1 DEF r
    <3>2. card' = [card EXCEPT !.periodStart = StartNow, !.spentInPeriod = r + a]
      BY <2>2 DEF r
    <3> QED
      BY <1>3, <3>1, <3>2 DEF CardInSync
  <2> QED
    BY <1>1, <1>2, <1>3, <2>1, <2>4, <2>5 DEF CardInSync, r
<1>11. Reservations(k)' = Reservations(k) \cup {c} /\ c \notin Reservations(k)
  <2>1. \A d \in Holding : PeriodOf(reservedAt[d])' = PeriodOf(reservedAt[d])
    BY <1>5, <1>6 DEF PeriodOf, Holding
  <2>2. PeriodOf(reservedAt[c])' = k
    BY <1>0, <1>7 DEF PeriodOf
  <2> QED
    BY <1>5, <2>1, <2>2 DEF Reservations
<1>12. ASSUME NEW j, j # k
       PROVE  Reservations(j)' = Reservations(j)
  <2>1. \A d \in Holding : PeriodOf(reservedAt[d])' = PeriodOf(reservedAt[d])
    BY <1>5, <1>6 DEF PeriodOf, Holding
  <2>2. PeriodOf(reservedAt[c])' = k
    BY <1>0, <1>7 DEF PeriodOf
  <2> QED
    BY <1>5, <1>12, <2>1, <2>2 DEF Reservations
<1> DEFINE R == Reservations(k)
<1>13. IsFiniteSet(R) /\ R \subseteq Call
  BY ReservationsFinite
<1>14. /\ \A d \in Call : atomic[d] \in Nat /\ Granted[d] \in Nat /\ Granted[d] <= atomic[d]
       /\ \A d \in Call : atomic'[d] \in Nat /\ Granted'[d] \in Nat
  <2>1. \A d \in Call : atomic[d] \in Nat /\ Granted[d] \in Nat /\ Granted[d] <= atomic[d]
    BY AmountsAreNaturals
  <2>2. \A d \in Call : atomic'[d] \in Nat /\ challenge'[d] \in Nat
    BY <1>2, <1>6, <1>7, AmountsAreNaturals
  <2> QED
    BY <2>1, <2>2 DEF Granted
<1>15. Granted'[c] = a /\ \A d \in Call : d # c => Granted'[d] = Granted[d]
  BY <1>2, <1>6, <1>7 DEF Granted
<1>16. SumOver(atomic', R \cup {c}) = a + SumOver(atomic, R)
  <2> HIDE DEF R
  <2>1. c \notin R /\ \A d \in R \cup {c} : atomic'[d] \in Int
    BY <1>11, <1>13, <1>14 DEF R
  <2>2. SumOver(atomic', R \cup {c}) = atomic'[c] + SumOver(atomic', R)
    BY <1>13, <2>1, SumPut
  <2>3. SumOver(atomic', R) = SumOver(atomic, R)
    BY <1>6, <1>13, <2>1, SumSame
  <2> QED
    BY <1>7, <2>2, <2>3
<1>17. SumOver(Granted', R \cup {c}) = a + SumOver(Granted, R)
  <2> HIDE DEF R
  <2>1. c \notin R /\ \A d \in R \cup {c} : Granted'[d] \in Int
    BY <1>11, <1>13, <1>14 DEF R
  <2>2. SumOver(Granted', R \cup {c}) = Granted'[c] + SumOver(Granted', R)
    BY <1>13, <2>1, SumPut
  <2>3. SumOver(Granted', R) = SumOver(Granted, R)
    BY <1>13, <1>15, <2>1, SumSame
  <2> QED
    BY <1>15, <2>2, <2>3
<1>18. ASSUME ~carried
       PROVE  TrackerExact' /\ BudgetHeldWithoutCarry'
  <2>1. SpentNow = SumOver(atomic, R)
    BY <1>0, <1>18, SpentNowExact
  <2>2. TrackerExact'
    <3>1. Total(atomic, Reservations(PeriodOf(periodStart)))' = SumOver(atomic', R \cup {c})
      <4>1. Reservations(PeriodOf(periodStart))' = R \cup {c}
        BY <1>8, <1>11 DEF Reservations
      <4> QED
        BY <4>1, TotalIsSum
    <3>2. spent' = a + SumOver(atomic, R)
      BY <1>1, <1>2, <1>3, <2>1
    <3> QED
      BY <1>16, <3>1, <3>2 DEF TrackerExact
  <2>3. SumOver(Granted, R) <= SumOver(atomic, R)
    BY <1>13, <1>14, SumMonotone
  <2>4. SumOver(Granted, R) \in Int
    BY <1>13, <1>14, SumInt
  <2>5. a + SumOver(Granted, R) <= PeriodBudget
    <3>1. SpentNow + a <= PeriodBudget
      BY <1>1 DEF Allowed
    <3> QED
      BY <1>2, <1>3, <2>1, <2>3, <2>4, <3>1, PolicyAssumption
  <2>6. \A j \in 0..PeriodOf(MaxTime) : Total(Granted, Reservations(j))' <= PeriodBudget
    <3> SUFFICES ASSUME NEW j \in 0..PeriodOf(MaxTime)
                 PROVE  SumOver(Granted', Reservations(j)') <= PeriodBudget
      BY TotalIsSum
    <3>1. CASE j = k
      BY <1>11, <1>17, <2>5, <3>1
    <3>2. CASE j # k
      <4>1. Reservations(j)' = Reservations(j)
        BY <1>12, <3>2
      <4>2. c \notin Reservations(j) /\ Reservations(j) \subseteq Call
        BY <1>5 DEF Reservations, Holding
      <4>3. SumOver(Granted', Reservations(j)) = SumOver(Granted, Reservations(j))
        BY <1>15, <4>2, SumSame
      <4>4. SumOver(Granted, Reservations(j)) <= PeriodBudget
        BY <1>18, TotalIsSum DEF BudgetHeldWithoutCarry, PeriodBudgetHeld
      <4> QED
        BY <4>1, <4>3, <4>4
    <3> QED
      BY <3>1, <3>2
  <2> QED
    BY <2>2, <2>6 DEF BudgetHeldWithoutCarry, PeriodBudgetHeld
<1>19. carried => TrackerExact' /\ BudgetHeldWithoutCarry'
  BY <1>1 DEF TrackerExact, BudgetHeldWithoutCarry
<1> QED
  BY <1>4, <1>9, <1>10, <1>18, <1>19

\* A reservation that is taken back: what the two actions share.
LEMMA TakenBack ==
    ASSUME ClientInv, NEW c \in Call, pc[c] = "paying", Released(c),
           NEW value \in Nat, SetSpent(value), now' = now, ClientTypes',
           \A d \in Call : d # c => pc'[d] = pc[d] /\ atomic'[d] = atomic[d],
           pc'[c] \in {"failed", "paid"}
    PROVE  /\ UNCHANGED <<reservedAt, challenge>>
           /\ ReservationsInv' /\ CardInSync'
           /\ PeriodOf(periodStart)' = PeriodOf(now)
           /\ ~carried' => /\ ~carried
                           /\ c \in Reservations(PeriodOf(now))
                           /\ atomic[c] <= SpentNow
                           /\ SpentNow = SumOver(atomic, Reservations(PeriodOf(now)))
<1> USE DEF ClientInv
<1>1. /\ periodStart' = StartNow /\ spent' = value /\ released' = TRUE
      /\ carried' = (carried \/ PeriodOf(reservedAt[c]) # PeriodOf(now))
      /\ UNCHANGED <<reservedAt, challenge, card>>
  BY DEF Released, SetSpent
<1>2. PICK k : k = PeriodOf(now)
  OBVIOUS
<1>3. PeriodOf(periodStart)' = k /\ PeriodOf(periodStart) <= k
      /\ PeriodOf(periodStart) \in Nat /\ k \in Nat
  <2>1. PeriodOf(periodStart)' = PeriodOf(StartNow)
    BY <1>1 DEF PeriodOf
  <2> QED
    BY <1>2, <2>1, TrackerRolls DEF ClientTypes
<1>4. Holding' \subseteq Holding /\ Holding \subseteq Call /\ c \in Holding
  BY DEF Holding
<1>5. ReservationsInv'
  <2>1. IsFiniteSet(Holding)'
    BY <1>4, FS_Subset DEF ReservationsInv
  <2>2. ASSUME NEW d \in Holding'
        PROVE  PeriodOf(reservedAt[d])' <= PeriodOf(periodStart)'
    <3>1. d \in Holding /\ reservedAt[d] \in Nat
      BY <1>4, PolicyAssumption DEF ClientTypes
    <3>2. PeriodOf(reservedAt[d]) \in Nat /\ PeriodOf(reservedAt[d]) <= PeriodOf(periodStart)
      BY <3>1, PolicyAssumption, Division DEF PeriodOf, ReservationsInv
    <3>3. PeriodOf(reservedAt[d])' = PeriodOf(reservedAt[d])
      BY <1>1 DEF PeriodOf
    <3> QED
      BY <1>3, <3>2, <3>3
  <2>3. \A d \in Call : pc'[d] = "paying" => atomic'[d] = challenge'[d]
    BY <1>1 DEF ReservationsInv
  <2> QED
    BY <2>1, <2>2, <2>3 DEF ReservationsInv
<1>6. CardInSync'
  BY <1>1 DEF CardInSync
<1>7. ASSUME ~carried'
      PROVE  /\ ~carried /\ c \in Reservations(k)
             /\ SpentNow = SumOver(atomic, Reservations(k)) /\ atomic[c] <= SpentNow
  <2>1. ~carried /\ PeriodOf(reservedAt[c]) = k
    BY <1>1, <1>2, <1>7
  <2>2. c \in Reservations(k)
    BY <1>4, <2>1 DEF Reservations
  <2>3. SpentNow = SumOver(atomic, Reservations(k))
    BY <1>2, <2>1, SpentNowExact
  <2>4. atomic[c] <= SumOver(atomic, Reservations(k))
    <3>1. \A d \in Reservations(k) : atomic[d] \in Nat
      BY ReservationsFinite, AmountsAreNaturals
    <3> QED
      BY <2>2, <3>1, ReservationsFinite, SumHasTerm
  <2> QED
    BY <2>1, <2>2, <2>3, <2>4
<1> QED
  BY <1>1, <1>2, <1>3, <1>5, <1>6, <1>7

\* A payment that fails: the sum loses its term.
LEMMA PayFailsKeepsInv ==
    ASSUME ClientInv, NEW c \in Call, PayFails(c) PROVE ClientInv'
<1> USE DEF ClientInv
<1>1. /\ pc[c] = "paying" /\ Released(c) /\ now' = now /\ atomic' = atomic
      /\ SetSpent(Minus(SpentNow, atomic[c])) /\ pc' = [pc EXCEPT ![c] = "failed"]
  BY DEF PayFails
<1>2. /\ SpentNow \in Nat /\ StartNow \in 0..now /\ StartNow % PeriodMs = 0
      /\ \A d \in Call : atomic[d] \in Nat /\ Granted[d] \in Nat
  BY TrackerRolls, AmountsAreNaturals DEF ClientTypes
<1>3. Minus(SpentNow, atomic[c]) \in Nat
  BY <1>2 DEF Minus
<1>4. ClientTypes'
  <2>1. periodStart' = StartNow /\ spent' \in Nat
    BY <1>1, <1>3 DEF SetSpent
  <2>2. pc' \in [Call -> {"requested", "unpaid", "refused", "paying", "failed", "paid"}]
    BY <1>1 DEF ClientTypes, TypeOK
  <2>3. /\ challenge' = challenge /\ reservedAt' = reservedAt
        /\ released' = TRUE /\ carried' \in BOOLEAN
    BY <1>1 DEF Released, ClientTypes
  <2> QED
    BY <1>1, <1>2, <2>1, <2>2, <2>3 DEF ClientTypes, TypeOK
<1>5. pc'[c] = "failed" /\ \A d \in Call : d # c => pc'[d] = pc[d]
  BY <1>1 DEF ClientTypes, TypeOK
<1>6. PICK k : k = PeriodOf(now)
  OBVIOUS
<1>7. /\ UNCHANGED <<reservedAt, challenge>>
      /\ ReservationsInv' /\ CardInSync'
      /\ PeriodOf(periodStart)' = k
      /\ ~carried' => /\ ~carried /\ c \in Reservations(k) /\ atomic[c] <= SpentNow
                      /\ SpentNow = SumOver(atomic, Reservations(k))
  BY <1>1, <1>3, <1>4, <1>5, <1>6, TakenBack
<1>8. \A j : Reservations(j)' = Reservations(j) \ {c}
  <2>1. Holding' = Holding \ {c}
    BY <1>5 DEF Holding
  <2> QED
    BY <1>7, <2>1 DEF Reservations, PeriodOf
<1>9. ASSUME ~carried'
      PROVE  TrackerExact' /\ BudgetHeldWithoutCarry'
  <2>1. TrackerExact'
    <3> DEFINE R == Reservations(k)
    <3>1. IsFiniteSet(R) /\ R \subseteq Call /\ c \in R
      BY <1>7, <1>9, ReservationsFinite
    <3>2. SumOver(atomic, R) = atomic[c] + SumOver(atomic, R \ {c})
      <4>1. \A d \in R : atomic[d] \in Int
        BY <1>2, <3>1
      <4> HIDE DEF R
      <4> QED
        BY <3>1, <4>1, SumTakeOut
    <3>3. SumOver(atomic, R \ {c}) \in Int
      <4>1. IsFiniteSet(R \ {c}) /\ \A d \in R \ {c} : atomic[d] \in Int
        BY <1>2, <3>1, FS_Subset
      <4> HIDE DEF R
      <4> QED
        BY <4>1, SumInt
    <3>4. Minus(SpentNow, atomic[c]) = SumOver(atomic, R \ {c})
      BY <1>2, <1>7, <1>9, <3>2, <3>3 DEF Minus
    <3>5. Reservations(PeriodOf(periodStart))' = R \ {c}
      BY <1>7, <1>8 DEF Reservations
    <3>6. spent' = SumOver(atomic', Reservations(PeriodOf(periodStart))')
      BY <1>1, <3>4, <3>5 DEF SetSpent
    <3> QED
      BY <3>6, TotalIsSum DEF TrackerExact
  <2>2. \A j \in 0..PeriodOf(MaxTime) : Total(Granted, Reservations(j))' <= PeriodBudget
    <3> SUFFICES ASSUME NEW j \in 0..PeriodOf(MaxTime)
                 PROVE  SumOver(Granted', Reservations(j)') <= PeriodBudget
      BY TotalIsSum
    <3> DEFINE R == Reservations(j)
    <3>1. IsFiniteSet(R) /\ R \subseteq Call
      BY ReservationsFinite
    <3>2. SumOver(Granted, R) <= PeriodBudget
      BY <1>7, <1>9, TotalIsSum DEF BudgetHeldWithoutCarry, PeriodBudgetHeld
    <3>3. Granted' = Granted
      BY <1>1, <1>7 DEF Granted
    <3>4. SumOver(Granted, R \ {c}) <= PeriodBudget
      <4>1. \A d \in R : Granted[d] \in Nat
        BY <1>2, <3>1
      <4> HIDE DEF R
      <4>2. CASE c \in R
        <5>1. SumOver(Granted, R) = Granted[c] + SumOver(Granted, R \ {c})
          BY <3>1, <4>1, <4>2, SumTakeOut
        <5>2. SumOver(Granted, R \ {c}) \in Nat
          BY <3>1, <4>1, FS_Subset, SumNat
        <5> QED
          BY <1>2, <3>2, <5>1, <5>2, PolicyAssumption
      <4>3. CASE c \notin R
        <5>1. R \ {c} = R
          BY <4>3
        <5> QED
          BY <3>2, <5>1
      <4> QED
        BY <4>2, <4>3
    <3> QED
      BY <1>8, <3>3, <3>4
  <2> QED
    BY <2>1, <2>2 DEF BudgetHeldWithoutCarry, PeriodBudgetHeld
<1>10. carried' => TrackerExact' /\ BudgetHeldWithoutCarry'
  BY DEF TrackerExact, BudgetHeldWithoutCarry
<1> QED
  BY <1>4, <1>7, <1>9, <1>10

\* A payment of another amount: the term of the sum changes, and what was granted of it
\* can only shrink.
LEMMA PayAdjustsKeepsInv ==
    ASSUME ClientInv, NEW c \in Call, NEW a \in Price, PayAdjusts(c, a) PROVE ClientInv'
<1> USE DEF ClientInv
<1>1. /\ pc[c] = "paying" /\ Released(c) /\ now' = now
      /\ atomic' = [atomic EXCEPT ![c] = a]
      /\ SetSpent(Minus(SpentNow, atomic[c]) + a) /\ pc' = [pc EXCEPT ![c] = "paid"]
  BY DEF PayAdjusts
<1>2. /\ SpentNow \in Nat /\ StartNow \in 0..now /\ StartNow % PeriodMs = 0 /\ a \in Nat
      /\ \A d \in Call : /\ atomic[d] \in Nat /\ Granted[d] \in Nat
                         /\ challenge[d] \in Nat /\ Granted[d] <= challenge[d]
  BY TrackerRolls, AmountsAreNaturals, PolicyAssumption DEF ClientTypes
<1>3. Minus(SpentNow, atomic[c]) + a \in Nat
  BY <1>2 DEF Minus
<1>4. ClientTypes'
  <2>1. periodStart' = StartNow /\ spent' \in Nat
    BY <1>1, <1>3 DEF SetSpent
  <2>2. pc' \in [Call -> {"requested", "unpaid", "refused", "paying", "failed", "paid"}]
    BY <1>1 DEF ClientTypes, TypeOK
  <2>3. /\ challenge' = challenge /\ reservedAt' = reservedAt
        /\ released' = TRUE /\ carried' \in BOOLEAN
        /\ atomic' \in [Call -> Price \cup {0}]
    BY <1>1 DEF Released, ClientTypes, TypeOK
  <2> QED
    BY <1>1, <1>2, <2>1, <2>2, <2>3 DEF ClientTypes, TypeOK
<1>5. /\ pc'[c] = "paid" /\ atomic'[c] = a
      /\ \A d \in Call : d # c => pc'[d] = pc[d] /\ atomic'[d] = atomic[d]
  BY <1>1 DEF ClientTypes, TypeOK
<1>6. PICK k : k = PeriodOf(now)
  OBVIOUS
<1>7. /\ UNCHANGED <<reservedAt, challenge>>
      /\ ReservationsInv' /\ CardInSync'
      /\ PeriodOf(periodStart)' = k
      /\ ~carried' => /\ ~carried /\ c \in Reservations(k) /\ atomic[c] <= SpentNow
                      /\ SpentNow = SumOver(atomic, Reservations(k))
  BY <1>1, <1>3, <1>4, <1>5, <1>6, TakenBack
<1>8. \A j : Reservations(j)' = Reservations(j)
  <2>1. Holding' = Holding
    BY <1>1, <1>5 DEF Holding
  <2> QED
    BY <1>7, <2>1 DEF Reservations, PeriodOf
<1>9. \A d \in Call : /\ Granted'[d] \in Nat /\ Granted'[d] <= Granted[d]
                      /\ atomic'[d] \in Nat
  <2>1. atomic[c] = challenge[c]
    BY <1>1 DEF ReservationsInv
  <2> QED
    BY <1>2, <1>5, <1>7, <2>1 DEF Granted
<1>10. ASSUME ~carried'
       PROVE  TrackerExact' /\ BudgetHeldWithoutCarry'
  <2>1. TrackerExact'
    <3> DEFINE R == Reservations(k)
    <3>1. IsFiniteSet(R) /\ R \subseteq Call /\ c \in R
      BY <1>7, <1>10, ReservationsFinite
    <3>2. SumOver(atomic', R) = SumOver(atomic, R) - atomic[c] + a
      <4>1. /\ \A d \in R : atomic[d] \in Int /\ atomic'[d] \in Int
            /\ \A d \in R : d # c => atomic'[d] = atomic[d]
        BY <1>2, <1>5, <1>9, <3>1
      <4> HIDE DEF R
      <4> QED
        BY <1>5, <3>1, <4>1, SumChange
    <3>3. Minus(SpentNow, atomic[c]) + a = SumOver(atomic', R)
      BY <1>2, <1>7, <1>10, <3>2 DEF Minus
    <3>4. Reservations(PeriodOf(periodStart))' = R
      BY <1>7, <1>8 DEF Reservations
    <3>5. spent' = SumOver(atomic', Reservations(PeriodOf(periodStart))')
      BY <1>1, <3>3, <3>4 DEF SetSpent
    <3> QED
      BY <3>5, TotalIsSum DEF TrackerExact
  <2>2. \A j \in 0..PeriodOf(MaxTime) : Total(Granted, Reservations(j))' <= PeriodBudget
    <3> SUFFICES ASSUME NEW j \in 0..PeriodOf(MaxTime)
                 PROVE  SumOver(Granted', Reservations(j)') <= PeriodBudget
      BY TotalIsSum
    <3> DEFINE R == Reservations(j)
    <3>1. IsFiniteSet(R) /\ R \subseteq Call
      BY ReservationsFinite
    <3>2. SumOver(Granted, R) <= PeriodBudget
      BY <1>7, <1>10, TotalIsSum DEF BudgetHeldWithoutCarry, PeriodBudgetHeld
    <3>3. SumOver(Granted', R) <= SumOver(Granted, R)
      BY <1>2, <1>9, <3>1, SumMonotone
    <3>4. SumOver(Granted', R) \in Int /\ SumOver(Granted, R) \in Int
      BY <1>2, <1>9, <3>1, SumInt
    <3> HIDE DEF R
    <3>5. SumOver(Granted', R) <= PeriodBudget
      BY <3>2, <3>3, <3>4, PolicyAssumption
    <3> QED
      BY <1>8, <3>5 DEF R
  <2> QED
    BY <2>1, <2>2 DEF BudgetHeldWithoutCarry, PeriodBudgetHeld
<1>11. carried' => TrackerExact' /\ BudgetHeldWithoutCarry'
  BY DEF TrackerExact, BudgetHeldWithoutCarry
<1> QED
  BY <1>4, <1>7, <1>10, <1>11

LEMMA ClientInvNext == ClientInv /\ [Next]_vars => ClientInv'
<1> SUFFICES ASSUME ClientInv, [Next]_vars PROVE ClientInv'
  OBVIOUS
<1> USE DEF ClientInv
<1>1. SpentNow \in Nat /\ StartNow \in 0..now /\ StartNow % PeriodMs = 0
  BY TrackerRolls DEF ClientTypes
<1>2. ASSUME UNCHANGED vars
      PROVE  ClientInv'
  <2>1. ClientTypes'
    BY <1>2 DEF vars, tracker, history, ClientTypes, TypeOK
  <2> QED
    BY <1>2, <2>1, NothingReserved DEF vars, tracker, history, ClientTypes, TypeOK
<1>3. ASSUME Tick
      PROVE  ClientInv'
  <2>1. now' \in now..MaxTime /\ now' \in 0..MaxTime /\ periodStart \in 0..now'
    BY <1>3, PolicyAssumption DEF Tick, ClientTypes, TypeOK
  <2>2. ClientTypes'
    BY <1>3, <2>1 DEF Tick, tracker, history, ClientTypes, TypeOK
  <2> QED
    BY <1>3, <2>1, <2>2, NothingReserved DEF Tick
<1>4. ASSUME NEW c \in Call, NoChallenge(c) \/ PaySettles(c)
      PROVE  ClientInv'
  <2>1. /\ UNCHANGED <<atomic, history>> /\ UNCHANGED tracker /\ now' = now
        /\ \/ pc[c] = "requested" /\ pc' = [pc EXCEPT ![c] = "unpaid"]
           \/ pc[c] = "paying" /\ pc' = [pc EXCEPT ![c] = "paid"]
    BY <1>4 DEF NoChallenge, PaySettles
  <2>2. ClientTypes' /\ now' \in now..MaxTime
    BY <2>1 DEF tracker, history, ClientTypes, TypeOK
  <2>3. \A d \in Call : pc'[d] # pc[d] =>
            \/ pc[d] = "requested" /\ pc'[d] \in {"unpaid", "refused"}
            \/ pc[d] = "paying" /\ pc'[d] = "paid"
    BY <2>1 DEF ClientTypes, TypeOK
  <2> QED
    BY <2>1, <2>2, <2>3, NothingReserved
<1>5. ASSUME NEW c \in Call, NEW a \in Price, NEW o \in Origin, Refuse(c, a, o)
      PROVE  ClientInv'
  <2>1. /\ UNCHANGED <<atomic, history>> /\ SetSpent(SpentNow) /\ now' = now
        /\ pc[c] = "requested" /\ pc' = [pc EXCEPT ![c] = "refused"]
    BY <1>5 DEF Refuse
  <2>2. ClientTypes'
    BY <1>1, <2>1 DEF SetSpent, history, ClientTypes, TypeOK
  <2>3. \A d \in Call : pc'[d] # pc[d] =>
            \/ pc[d] = "requested" /\ pc'[d] \in {"unpaid", "refused"}
            \/ pc[d] = "paying" /\ pc'[d] = "paid"
    BY <2>1 DEF ClientTypes, TypeOK
  <2> QED
    BY <2>1, <2>2, <2>3, NothingReserved
<1> QED
  BY <1>2, <1>3, <1>4, <1>5, ReserveKeepsInv, PayFailsKeepsInv, PayAdjustsKeepsInv DEF Next

LEMMA ClientInvariant == Spec => []ClientInv
BY ClientInvInit, ClientInvNext, PTL DEF Spec

\* However calls interleave, fail and settle for other amounts, and whenever the period
\* turns, the tracker is exact and what it grants stays within the budget, as long as no
\* reservation comes back after its period was over.
THEOREM BudgetIsKept == Spec => []TrackerInv
<1>1. ClientInv => TrackerInv
  BY DEF ClientInv, ClientTypes, TrackerInv
<1> QED
  BY <1>1, ClientInvariant, PTL

\* The client decides every amount as the card contract would.
THEOREM ClientMirrorsCard == Spec => []MirrorsCardIssuer
<1>1. ClientInv => MirrorsCardIssuer
  <2> SUFFICES ASSUME ClientInv, ~released, NEW a \in Price
               PROVE  SpentNow + a <= PeriodBudget <=>
                        CardIssuer!RolledSpent(card, now) + a <= card.periodAmount
    BY DEF MirrorsCardIssuer
  <2>1. CardIssuer!RolledSpent(card, now) = SpentNow /\ card.periodAmount = PeriodBudget
    BY CardRolls DEF ClientInv, CardInSync
  <2> QED
    BY <2>1
<1> QED
  BY <1>1, ClientInvariant, PTL

---------------------------------------------------------------------------
(* Metering. *)

\* An authorization for the price of the route was settled for this request.
Backed(q) ==
    /\ Metered(request[q].route)
    /\ \E n \in Nonce : paidFor[n] = q /\ signed[n] = RateCard[request[q].route]

RequestInv ==
    \A q \in Request :
        /\ request[q].at = "unsent" => verdict[q] = None /\ post[q] = "none"
        /\ request[q].at = "settling" => Metered(request[q].route) /\ request[q].header \in Nonce
        /\ verdict[q] = "settled" => Backed(q)
        /\ request[q].at = "served" /\ Metered(request[q].route) => verdict[q] = "settled"
        /\ post[q] # "none" => request[q].at = "served" /\ Metered(request[q].route)
        /\ q \in mail => post[q] \in {"sent", "ended"}

StoreInv ==
    /\ store \in Seq([id : Request, atomic : Nat])
    /\ \A i \in DOMAIN store :
          /\ post[store[i].id] # "none"
          /\ store[i].atomic = RateCard[request[store[i].id].route]
    /\ \A i, j \in DOMAIN store : store[i].id = store[j].id => i = j

MeteringInv == MeteringTypeOK /\ RequestInv /\ StoreInv

---------------------------------------------------------------------------

LEMMA RangeOfPrices == \A r \in DOMAIN RateCard : RateCard[r] \in Range(RateCard)
<1> QED BY DEF Range

LEMMA MeteringInitInv == MeteringInit => MeteringInv
<1> SUFFICES ASSUME MeteringInit PROVE MeteringInv
  OBVIOUS
<1>1. MeteringTypeOK
  BY DEF MeteringInit, MeteringTypeOK, Place
<1>2. RequestInv
  BY MeteringAssumption DEF MeteringInit, RequestInv
<1>3. StoreInv
  BY DEF MeteringInit, StoreInv
<1> QED BY <1>1, <1>2, <1>3 DEF MeteringInv

\* What was settled for a request stays so: an authorization is signed and settled once.
LEMMA BackedStays ==
    ASSUME MeteringInv, NEW q \in Request, Backed(q), request'[q].route = request[q].route,
           \A n \in Nonce : signed[n] # None => signed'[n] = signed[n],
           \A n \in Nonce : paidFor[n] # None => paidFor'[n] = paidFor[n]
    PROVE  Backed(q)'
<1> USE MeteringAssumption
<1>1. PICK n \in Nonce : paidFor[n] = q /\ signed[n] = RateCard[request[q].route]
  BY DEF Backed
<1>2. signed[n] # None
  BY <1>1 DEF Backed, Metered
<1> QED BY <1>1, <1>2 DEF Backed, Metered

LEMMA SeqElement == ASSUME NEW S, NEW s \in Seq(S), NEW i \in DOMAIN s PROVE s[i] \in S
<1> QED OBVIOUS

\* The ids of recorded events.
LEMMA StoredIds == StoreInv => \A i \in DOMAIN store : store[i].id \in Request
<1> SUFFICES ASSUME StoreInv, NEW i \in DOMAIN store PROVE store[i].id \in Request
  OBVIOUS
<1>1. store \in Seq([id : Request, atomic : Nat])
  BY DEF StoreInv
<1>2. store[i] \in [id : Request, atomic : Nat]
  BY <1>1, SeqElement, Zenon
<1> QED BY <1>2

LEMMA MeteringNextInv == MeteringInv /\ [MeteringNext]_meteringVars => MeteringInv'
<1> USE MeteringAssumption, RangeOfPrices
<1> SUFFICES ASSUME MeteringInv, MeteringNext PROVE MeteringInv'
  BY DEF meteringVars, MeteringInv, MeteringTypeOK, RequestInv, StoreInv, Backed
<1>1. ASSUME NEW q \in Request, NEW r \in Route,
             NEW h \in {n \in Nonce : signed[n] # None} \cup {None, Malformed}, Receive(q, r, h)
      PROVE  MeteringInv'
  <2>1. PICK place \in {"served", "refused", "settling"} :
          /\ request[q].at = "unsent"
          /\ request' = [request EXCEPT ![q] = [route |-> r, header |-> h, at |-> place]]
          /\ UNCHANGED <<signed, verdict, paidFor, post, mail, store>>
          /\ place = "served" => ~Metered(r)
          /\ place = "settling" => Metered(r) /\ h \in Nonce
    BY <1>1 DEF Receive, PassesBy, Challenges, Settles, Arrives
  <2>2. verdict[q] = None /\ post[q] = "none" /\ q \notin mail
    BY <2>1 DEF MeteringInv, RequestInv, MeteringTypeOK
  <2>3. MeteringTypeOK'
    BY <2>1, <2>2 DEF MeteringInv, MeteringTypeOK, Place
  <2>4. \A p \in Request \ {q} : request'[p] = request[p] /\ (Backed(p) => Backed(p)')
    BY <2>1 DEF MeteringInv, MeteringTypeOK, Backed, Metered
  <2>5. request'[q] = [route |-> r, header |-> h, at |-> place]
    BY <2>1 DEF MeteringInv, MeteringTypeOK
  <2>6. RequestInv'
    BY <2>1, <2>2, <2>4, <2>5 DEF MeteringInv, RequestInv, Metered
  <2>7. StoreInv'
    BY <2>1, <2>2, <2>4, StoredIds DEF MeteringInv, StoreInv
  <2> QED BY <2>3, <2>6, <2>7 DEF MeteringInv
<1>2. ASSUME NEW q \in Request, NEW n \in Nonce, Sign(n, q) PROVE MeteringInv'
  <2>1. MeteringTypeOK' /\ StoreInv'
    BY <1>2 DEF Sign, MeteringInv, MeteringTypeOK, StoreInv, Metered
  <2>2. \A p \in Request : Backed(p) => Backed(p)'
    BY <1>2, BackedStays DEF Sign, MeteringInv, MeteringTypeOK
  <2> QED BY <1>2, <2>1, <2>2 DEF Sign, MeteringInv, RequestInv
<1>3. ASSUME NEW q \in Request, SettleThrows(q) \/ Refuses(q) PROVE MeteringInv'
  <2>1. /\ request' = [request EXCEPT ![q].at = "refused"] /\ request[q].at = "settling"
        /\ UNCHANGED <<signed, verdict, paidFor, post, mail, store>>
    BY <1>3 DEF SettleThrows, Refuses, At
  <2>2. \A p \in Request : request'[p].route = request[p].route
    BY <2>1 DEF MeteringInv, MeteringTypeOK
  <2>3. MeteringTypeOK'
    BY <2>1 DEF MeteringInv, MeteringTypeOK, RequestInv, Place
  <2>4. \A p \in Request : Backed(p) => Backed(p)'
    BY <2>1, <2>2, BackedStays
  <2>5. RequestInv'
    BY <2>1, <2>2, <2>4 DEF MeteringInv, MeteringTypeOK, RequestInv, Metered
  <2>6. StoreInv'
    BY <2>1, <2>2 DEF MeteringInv, StoreInv
  <2> QED BY <2>3, <2>5, <2>6 DEF MeteringInv
<1>4. ASSUME NEW q \in Request, Serves(q) PROVE MeteringInv'
  <2>1. /\ request' = [request EXCEPT ![q].at = "served"] /\ post' = [post EXCEPT ![q] = "queued"]
        /\ request[q].at = "settling" /\ verdict[q] = "settled"
        /\ UNCHANGED <<signed, verdict, paidFor, mail, store>>
    BY <1>4 DEF Serves, At
  <2>2. \A p \in Request : request'[p].route = request[p].route
    BY <2>1 DEF MeteringInv, MeteringTypeOK
  <2>3. post[q] = "none" /\ q \notin mail
    BY <2>1 DEF MeteringInv, MeteringTypeOK
  <2>4. MeteringTypeOK'
    BY <2>1, <2>3 DEF MeteringInv, MeteringTypeOK, Place
  <2>5. \A p \in Request : Backed(p) => Backed(p)'
    BY <2>1, <2>2, BackedStays
  <2>6. RequestInv'
    BY <2>1, <2>2, <2>3, <2>5 DEF MeteringInv, MeteringTypeOK, RequestInv, Metered
  <2>7. StoreInv'
    BY <2>1, <2>2, <2>3 DEF MeteringInv, MeteringTypeOK, StoreInv
  <2> QED BY <2>4, <2>6, <2>7 DEF MeteringInv
<1>5. ASSUME NEW q \in Request, Transfers(q) PROVE MeteringInv'
  <2>1. /\ request[q].at = "settling" /\ verdict[q] = None
        /\ request[q].header \in Nonce /\ Metered(request[q].route)
        /\ paidFor[request[q].header] = None
        /\ signed[request[q].header] = RateCard[request[q].route]
        /\ paidFor' = [paidFor EXCEPT ![request[q].header] = q]
        /\ verdict' = [verdict EXCEPT ![q] = "settled"]
        /\ UNCHANGED <<signed, request, post, mail, store>>
    BY <1>5 DEF Transfers, MeteringInv, RequestInv
  <2>2. MeteringTypeOK' /\ StoreInv'
    BY <2>1 DEF MeteringInv, MeteringTypeOK, StoreInv
  <2>3. \A p \in Request : Backed(p) => Backed(p)'
    BY <2>1, BackedStays DEF MeteringInv, MeteringTypeOK
  <2>4. Backed(q)'
    BY <2>1 DEF Backed, MeteringInv, MeteringTypeOK
  <2>5. RequestInv'
    BY <2>1, <2>3, <2>4 DEF MeteringInv, MeteringTypeOK, RequestInv
  <2> QED BY <2>2, <2>5 DEF MeteringInv
<1>6. ASSUME NEW q \in Request, Rejects(q) PROVE MeteringInv'
  <2>1. MeteringTypeOK' /\ StoreInv'
    BY <1>6 DEF Rejects, MeteringInv, MeteringTypeOK, StoreInv
  <2>2. \A p \in Request : Backed(p) => Backed(p)'
    BY <1>6, BackedStays DEF Rejects
  <2> QED BY <1>6, <2>1, <2>2 DEF Rejects, MeteringInv, MeteringTypeOK, RequestInv
<1>7. ASSUME NEW q \in Request, Forward(q) \/ ForwardEnds(q) \/ Lost(q) PROVE MeteringInv'
  <2>1. /\ UNCHANGED <<signed, request, verdict, paidFor, store>>
        /\ \A p \in Request : (post'[p] = "none") = (post[p] = "none")
    BY <1>7 DEF Forward, ForwardEnds, Lost, MeteringInv, MeteringTypeOK
  <2>2. MeteringTypeOK'
    <3>1. CASE Forward(q)
      BY <3>1 DEF Forward, MeteringInv, MeteringTypeOK
    <3>2. CASE ForwardEnds(q)
      BY <3>2 DEF ForwardEnds, MeteringInv, MeteringTypeOK
    <3>3. CASE Lost(q)
      BY <3>3 DEF Lost, MeteringInv, MeteringTypeOK
    <3> QED BY <1>7, <3>1, <3>2, <3>3
  <2>3. \A p \in Request : Backed(p) => Backed(p)'
    BY <2>1, BackedStays
  <2>4. StoreInv'
    BY <2>1, StoredIds DEF MeteringInv, StoreInv
  <2>5. RequestInv'
    BY <1>7, <2>1, <2>2, <2>3 DEF MeteringInv, MeteringTypeOK, RequestInv
  <2> QED BY <2>2, <2>4, <2>5 DEF MeteringInv
<1>8. ASSUME NEW q \in Request, Ingest(q) PROVE MeteringInv'
  <2>1. MeteringTypeOK' /\ RequestInv'
    BY <1>8 DEF Ingest, MeteringInv, MeteringTypeOK, RequestInv, Backed
  <2>2. CASE Recorded(q)
    BY <1>8, <2>1, <2>2 DEF Ingest, MeteringInv, StoreInv
  <2>3. CASE ~Recorded(q)
    <3> DEFINE e == [id |-> q, atomic |-> RateCard[request[q].route]]
    <3>1. post[q] # "none" /\ e \in [id : Request, atomic : Nat]
      BY <1>8 DEF Ingest, MeteringInv, RequestInv, Metered
    <3>2. store' = Append(store, e) /\ UNCHANGED <<post, request>>
      BY <1>8, <2>3 DEF Ingest
    <3>3. store \in Seq([id : Request, atomic : Nat])
      BY DEF MeteringInv, StoreInv
    <3>4. /\ DOMAIN store' = DOMAIN store \cup {Len(store) + 1} /\ Len(store) + 1 \notin DOMAIN store
          /\ \A i \in DOMAIN store : store'[i] = store[i]
          /\ store'[Len(store) + 1] = e
          /\ store' \in Seq([id : Request, atomic : Nat])
      BY <3>1, <3>2, <3>3
    <3>5. \A i \in DOMAIN store : store[i].id # q
      BY <2>3 DEF Recorded
    <3> HIDE DEF e
    <3>6. e.id = q /\ e.atomic = RateCard[request[q].route]
      BY DEF e
    <3>7. StoreInv'
      BY <3>1, <3>2, <3>4, <3>5, <3>6 DEF StoreInv, MeteringInv
    <3> QED BY <2>1, <3>7 DEF MeteringInv
  <2> QED BY <2>2, <2>3
<1> QED BY <1>1, <1>2, <1>3, <1>4, <1>5, <1>6, <1>7, <1>8 DEF MeteringNext

\* The invariant the theorems below use.
THEOREM MeteringInvariant == MeteringSpec => []MeteringInv
<1> QED BY MeteringInitInv, MeteringNextInv, PTL DEF MeteringSpec

\* No metered request is served without a settlement of its own for its price.
THEOREM ServedOnlyPaid == MeteringSpec => []ServedIsPaid
<1>1. MeteringInv => ServedIsPaid
  BY DEF MeteringInv, RequestInv, Backed, ServedIsPaid
<1> QED BY <1>1, MeteringInvariant, PTL

\* No revenue is recorded that was not settled, and none twice.
THEOREM RevenueOnlySettled == MeteringSpec => []RevenueIsSettled
<1>1. MeteringInv => RevenueIsSettled
  <2> SUFFICES ASSUME MeteringInv PROVE RevenueIsSettled
    OBVIOUS
  <2> QED BY StoredIds DEF MeteringInv, StoreInv, RequestInv, Backed, RevenueIsSettled
<1> QED BY <1>1, MeteringInvariant, PTL

=============================================================================
