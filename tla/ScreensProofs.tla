----------------------------- MODULE ScreensProofs -----------------------------
(***************************************************************************)
(* Proofs about the three parts of the dashboard, each about its own       *)
(* specification: the merchant view (Dashboard), the webhook console       *)
(* (Console) and the cards view (CardDrawer).                              *)
(***************************************************************************)
EXTENDS Dashboard, CardDrawer, Console, ProofBasics

---------------------------------------------------------------------------
(***************************************************************************)
(* The merchant view joins the wallet's own rows only, for every history,  *)
(* window, number of failures and order of answers, and its lists keep     *)
(* rows of wallets that were connected, no others (KeptInv).               *)
(*                                                                         *)
(* The feed is shared and its window may have dropped the rows an id comes *)
(* from.  What carries the proof is that a page only ever holds rows of    *)
(* the history, however old the answer (FeedInv), and that every join of   *)
(* EventViews starts from a row that names the chain's own owner.          *)
(*                                                                         *)
(* The lists: Ascending numbers a set by rank, so the k-th answered plan   *)
(* is the k-th contract of the second multicall (VersionOfPlan).  The      *)
(* headline: a sum over the rows that survive the window, split by days.   *)
(***************************************************************************)

\* The place of a number in a set: how many are below it.
Rank(S, x) == Cardinality({y \in S : y < x})

LEMMA RankBelow ==
    ASSUME NEW S, S \subseteq Nat, IsFiniteSet(S), NEW x \in S
    PROVE  Rank(S, x) \in 0..(Cardinality(S) - 1)
<1> DEFINE B == {y \in S : y < x}
<1>1. B \in SUBSET S /\ B # S
  OBVIOUS
<1>2. Cardinality(B) \in Nat /\ Cardinality(S) \in Nat
  BY <1>1, FS_Subset, FS_CardinalityType
<1>3. Cardinality(B) <= Cardinality(S) /\ Cardinality(B) # Cardinality(S)
  BY <1>1, FS_Subset
<1> QED
  BY <1>2, <1>3 DEF Rank

LEMMA RankIncreases ==
    ASSUME NEW S, S \subseteq Nat, IsFiniteSet(S), NEW x \in S, NEW z \in S, x < z
    PROVE  Rank(S, x) < Rank(S, z)
<1> DEFINE B == {y \in S : y < z}
<1>1. IsFiniteSet(B) /\ B \subseteq Nat /\ x \in B
  BY FS_Subset
<1>2. Rank(B, x) \in 0..(Cardinality(B) - 1)
  <2> HIDE DEF B
  <2> QED BY <1>1, RankBelow
<1>3. {y \in B : y < x} = {y \in S : y < x}
  <2>1. ASSUME NEW y \in S, y < x PROVE y \in B
    <3>1. y \in Nat /\ x \in Nat /\ z \in Nat
      OBVIOUS
    <3> QED BY <2>1, <3>1
  <2> QED BY <2>1
<1>4. Cardinality(B) \in Nat
  BY <1>1, FS_CardinalityType
<1> QED
  BY <1>2, <1>3, <1>4 DEF Rank

LEMMA RankTells ==
    ASSUME NEW S, S \subseteq Nat, IsFiniteSet(S), NEW x \in S, NEW z \in S, Rank(S, x) = Rank(S, z)
    PROVE  x = z
<1>1. Rank(S, x) \in Int /\ Rank(S, z) \in Int
  <2>1. Rank(S, x) \in 0..(Cardinality(S) - 1) /\ Rank(S, z) \in 0..(Cardinality(S) - 1)
    BY RankBelow
  <2> QED BY <2>1
<1>2. ~(x < z) /\ ~(z < x)
  <2>1. x < z => Rank(S, x) < Rank(S, z)
    BY RankIncreases
  <2>2. z < x => Rank(S, z) < Rank(S, x)
    BY RankIncreases
  <2> QED BY <1>1, <2>1, <2>2
<1> QED
  BY <1>2

LEMMA RankReached ==
    ASSUME NEW S, S \subseteq Nat, IsFiniteSet(S), NEW r \in 0..(Cardinality(S) - 1)
    PROVE  \E x \in S : Rank(S, x) = r
<1> DEFINE n == Cardinality(S)  R == 0..(n - 1)  rank == [x \in S |-> Rank(S, x)]
<1>1. n \in Nat
  BY FS_CardinalityType
<1>2. IsFiniteSet(R) /\ Cardinality(R) = n
  BY <1>1, FS_Interval
<1>3. rank \in Injection(S, R)
  <2>1. rank \in [S -> R]
    BY RankBelow
  <2>2. \A x, z \in S : rank[x] = rank[z] => x = z
    BY RankTells
  <2> QED
    BY <2>1, <2>2 DEF Injection, IsInjective
<1>4. rank \in Surjection(S, R)
  <2> HIDE DEF rank, R
  <2> QED BY <1>2, <1>3, FS_Injection
<1>5. \E x \in S : rank[x] = r
  BY <1>4 DEF Surjection
<1> QED
  BY <1>5

\* Ascending lists every member of the set, each at its place.
LEMMA AscendingLists ==
    ASSUME NEW S, S \subseteq Nat, IsFiniteSet(S)
    PROVE  /\ Ascending(S) \in Seq(S) /\ DOMAIN Ascending(S) = 1..Cardinality(S)
           /\ Range(Ascending(S)) = S
           /\ \A x \in S : /\ Rank(S, x) + 1 \in DOMAIN Ascending(S)
                           /\ Ascending(S)[Rank(S, x) + 1] = x
<1> DEFINE n == Cardinality(S)
<1>1. n \in Nat
  BY FS_CardinalityType
<1>2. ASSUME NEW k \in 1..n
      PROVE  Ascending(S)[k] \in S /\ Rank(S, Ascending(S)[k]) = k - 1
  <2>1. k - 1 \in 0..(n - 1)
    BY <1>1
  <2>2. \E x \in S : Rank(S, x) = k - 1
    BY <2>1, RankReached
  <2>3. Ascending(S)[k] = CHOOSE x \in S : Rank(S, x) = k - 1
    BY DEF Ascending, Kth, Rank
  <2> QED
    BY <2>2, <2>3
<1>3. DOMAIN Ascending(S) = 1..n
  BY DEF Ascending
<1>4. Ascending(S) \in [1..n -> S]
  BY <1>2 DEF Ascending
<1>5. Ascending(S) \in Seq(S)
  BY <1>1, <1>4
<1>6. ASSUME NEW x \in S
      PROVE  Rank(S, x) + 1 \in 1..n /\ Ascending(S)[Rank(S, x) + 1] = x
  <2> DEFINE k == Rank(S, x) + 1
  <2>1. Rank(S, x) \in 0..(n - 1)
    BY RankBelow
  <2>2. k \in 1..n /\ k - 1 = Rank(S, x)
    BY <1>1, <2>1
  <2>3. Ascending(S)[k] \in S /\ Rank(S, Ascending(S)[k]) = Rank(S, x)
    BY <1>2, <2>2
  <2> QED
    BY <2>2, <2>3, RankTells
<1>7. Range(Ascending(S)) = S
  BY <1>2, <1>3, <1>6 DEF Range
<1> QED
  BY <1>3, <1>5, <1>6, <1>7


\* The rows on the page were stored, and so were those of an answer still on its way.
FeedInv ==
    /\ history \in Histories
    /\ stored \in 0..Len(history)
    /\ late \in (0..stored) \cup {Undefined}
    /\ events \subseteq Range(history)

LEMMA StoredRows ==
    ASSUME history \in Histories, NEW n \in 0..Len(history)
    PROVE  listRecentEvents(n) \subseteq Range(history)
<1>1. DOMAIN history = 1..Len(history) /\ Len(history) \in Nat
  BY HistoriesAgree
<1>2. \A i \in 1..n : i \in DOMAIN history
  BY <1>1
<1>3. Stored(n) \subseteq Range(history)
  BY <1>2 DEF Stored, Range
<1> QED BY <1>3 DEF listRecentEvents, Newest

LEMMA FeedInvNext == FeedInv /\ [Next]_vars => FeedInv'
<1> SUFFICES ASSUME FeedInv, [Next]_vars PROVE FeedInv'
  OBVIOUS
<1> USE DEF FeedInv
<1>0. Len(history) \in Nat
  BY HistoriesAgree
<1>1. CASE Store
  BY <1>0, <1>1 DEF Store, page
<1>2. CASE Poll
  BY <1>2, StoredRows DEF Poll, Show
<1>3. CASE PollSlow
  BY <1>3 DEF PollSlow, page
<1>4. CASE Arrive
  <2>1. late \in 0..stored /\ late \in 0..Len(history)
    BY <1>0, <1>4 DEF Arrive
  <2> QED BY <1>4, <2>1, StoredRows DEF Arrive, Show
<1>5. CASE Open
  BY <1>5 DEF Open, page
<1>6. ASSUME NEW a \in Wallet \cup {NoWallet}, Switch(a) PROVE FeedInv'
  BY <1>6 DEF Switch
<1>7. CASE (\E ok \in SUBSET DOMAIN planIds : ReadPlans(ok))
           \/ (\E ok \in SUBSET DOMAIN versionContracts : ReadVersions(ok))
           \/ (\E ok \in SUBSET DOMAIN subIds : ReadSubs(ok))
  BY <1>7 DEF ReadPlans, ReadVersions, ReadSubs, page
<1>8. CASE UNCHANGED vars
  BY <1>8 DEF vars, page
<1> QED BY <1>1, <1>2, <1>3, <1>4, <1>5, <1>6, <1>7, <1>8 DEF Next

\* Ids taken from the feed are the wallet's own on chain.
LEMMA ScopeIsMine ==
    ASSUME FeedInv, address # NoWallet
    PROVE  /\ \A p \in myScope(events, address).planIds : SameAddress(merchantOf[p], address)
           /\ \A s \in myScope(events, address).subIds : SameAddress(MerchantOfSub(s), address)
<1>1. \A e \in events : AgreesWithChain(e)
  BY HistoriesAgree DEF FeedInv
<1>2. \A p \in myScope(events, address).planIds : SameAddress(merchantOf[p], address)
  BY <1>1 DEF myScope, scopeToMerchant, OfType, AgreesWithChain
<1>3. ASSUME NEW s \in myScope(events, address).subIds
      PROVE  planOf[s] \in myScope(events, address).planIds
  BY <1>1, <1>3 DEF myScope, scopeToMerchant, OfType, AgreesWithChain
<1> QED BY <1>2, <1>3 DEF MerchantOfSub

LEMMA PaymentsAreMine ==
    ASSUME FeedInv, NEW e \in myPaymentEvents
    PROVE  IF e.type = "payment.succeeded" THEN SameAddress(MerchantOfSub(e.sub), address)
           ELSE SameAddress(e.who, address)
<1>1. address # NoWallet
  BY DEF myPaymentEvents
<1> QED
  BY <1>1, ScopeIsMine DEF myPaymentEvents, scopedPaymentEvents

\* The joins of Payments, Overview, Needs attention and Activity keep to the wallet.
LEMMA ViewsAreMine == FeedInv /\ KeptMine => OnlyMine
<1> SUFFICES ASSUME FeedInv, KeptMine PROVE OnlyMine
  OBVIOUS
<1>1. CASE address = NoWallet
  <2>1. myPaymentEvents = {} /\ feedRows = {} /\ attnRows = {} /\ activity = {}
    BY <1>1 DEF myPaymentEvents, feedRows, attnRows, activity, myScope
  <2> QED BY <2>1 DEF OnlyMine
<1>2. CASE address # NoWallet
  <2>1. ASSUME NEW e \in myPaymentEvents
        PROVE  IF e.type = "payment.succeeded" THEN SameAddress(MerchantOfSub(e.sub), address)
               ELSE SameAddress(e.who, address)
    BY <2>1, PaymentsAreMine
  <2>2. ASSUME NEW e \in feedRows, e.type # "card.created"
        PROVE  SameAddress(address,
                   CASE e.type = "settlement.batched" -> e.who
                     [] e.type = "plan.created" -> merchantOf[e.plan]
                     [] OTHER -> MerchantOfSub(e.sub))
    <3>1. \A a, b : SameAddress(a, b) => SameAddress(b, a)
      BY DEF SameAddress
    <3>2. CASE e.type = "settlement.batched"
      BY <1>2, <2>2, <3>1, <3>2 DEF feedRows, scopedFeedEvents
    <3>3. CASE e.type = "plan.created"
      BY <1>2, <2>2, <3>1, <3>3, ScopeIsMine DEF feedRows, scopedFeedEvents
    <3>4. CASE e.type # "settlement.batched" /\ e.type # "plan.created"
      BY <1>2, <2>2, <3>1, <3>4, ScopeIsMine DEF feedRows, scopedFeedEvents
    <3> QED BY <3>2, <3>3, <3>4
  <2>3. \A r \in attnRows : SameAddress(MerchantOfSub(r.sub), address)
    BY <1>2, ScopeIsMine DEF attnRows
  <2>4. ASSUME NEW e \in activity
        PROVE  IF e.type = "payment.succeeded" THEN SameAddress(customerOf[e.sub], address)
               ELSE SameAddress(e.payer, address)
    <3>1. \A s \in events : AgreesWithChain(s)
      BY HistoriesAgree DEF FeedInv
    <3>2. CASE e.type = "payment.succeeded"
      BY <1>2, <2>4, <3>1, <3>2 DEF activity, ActivityRows, OfType, AgreesWithChain
    <3>3. CASE e.type # "payment.succeeded"
      BY <1>2, <2>4, <3>3 DEF activity, ActivityRows
    <3> QED BY <3>2, <3>3
  <2> QED BY <2>1, <2>2, <2>3, <2>4 DEF OnlyMine
<1> QED BY <1>1, <1>2

---------------------------------------------------------------------------

LEMMA FiniteRange ==
    ASSUME NEW S, IsFiniteSet(S), NEW f
    PROVE  IsFiniteSet({f[x] : x \in S})
<1> DEFINE R == {f[x] : x \in S}  g == [x \in S |-> f[x]]
<1>1. g \in Surjection(S, R)
  BY DEF Surjection
<1>2. IsFiniteSet(R)
  <2> HIDE DEF R, g
  <2> QED BY <1>1, FS_Surjection
<1> QED
  BY <1>2

LEMMA FiniteHistory ==
    ASSUME history \in Histories
    PROVE  IsFiniteSet(Range(history))
<1>1. DOMAIN history = 1..Len(history) /\ Len(history) \in Nat
  BY HistoriesAgree
<1>2. IsFiniteSet(1..Len(history))
  BY <1>1, FS_Interval
<1> QED
  BY <1>1, <1>2, FiniteRange DEF Range

\* The ids of a wallet's plans and subscriptions are numbers, and finitely many.
LEMMA ScopeIsFinite ==
    ASSUME history \in Histories, NEW rows, rows \subseteq Range(history), NEW a
    PROVE  /\ myScope(rows, a).planIds \subseteq Nat /\ IsFiniteSet(myScope(rows, a).planIds)
           /\ myScope(rows, a).subIds \subseteq Nat /\ IsFiniteSet(myScope(rows, a).subIds)
<1>1. CASE a = NoWallet
  BY <1>1, FS_EmptySet DEF myScope
<1>2. CASE a # NoWallet
  <2> DEFINE plansMade == {p \in OfType(rows, "plan.created") : SameAddress(p.who, a)}
             ids == myScope(rows, a).planIds
             joined == {s \in OfType(rows, "subscription.created") : s.plan \in ids}
             plan == [e \in plansMade |-> e.plan]  sub == [e \in joined |-> e.sub]
  <2>1. \A e \in rows : AgreesWithChain(e)
    BY HistoriesAgree
  <2>2. IsFiniteSet(plansMade) /\ IsFiniteSet(joined)
    BY FiniteHistory, FS_Subset DEF OfType
  <2>3. ids = {plan[e] : e \in plansMade}
    BY <1>2 DEF myScope, scopeToMerchant
  <2>4. myScope(rows, a).subIds = {sub[e] : e \in joined}
    BY <1>2 DEF myScope, scopeToMerchant
  <2>5. ids \subseteq Nat /\ {sub[e] : e \in joined} \subseteq Nat
    BY <2>1, <2>3 DEF OfType, AgreesWithChain
  <2> HIDE DEF plansMade, joined, plan, sub
  <2> QED
    BY <2>2, <2>3, <2>4, <2>5, FiniteRange
<1> QED
  BY <1>1, <1>2

\* What the multicall of getPlanVersion answered belongs to what it was asked for.
VersionsInv ==
    /\ planIds \in Seq(Nat)
    /\ versionData # Undefined =>
         \A k \in DOMAIN versionData :
            /\ k \in DOMAIN versionContracts
            /\ \/ versionData[k] = Failed
               \/ versionData[k] = priceOf[versionContracts[k].plan][versionContracts[k].version]

\* A plan that getPlan answered for is the contract at its VersionPosition.
LEMMA VersionOfPlan ==
    ASSUME planIds \in Seq(Nat), planData # Undefined,
           NEW i \in DOMAIN planIds, planData[i] # Failed
    PROVE  versionContracts[VersionPosition(i)] = [plan |-> planIds[i], version |-> planData[i]]
<1> DEFINE S == {j \in DOMAIN planIds : planData[j] # Failed}
           below == {y \in S : y < i}
<1>1. DOMAIN planIds = 1..Len(planIds) /\ Len(planIds) \in Nat
  OBVIOUS
<1>2. S \subseteq Nat /\ IsFiniteSet(S) /\ i \in S
  <2>1. IsFiniteSet(1..Len(planIds))
    BY <1>1, FS_Interval
  <2>2. S \in SUBSET (1..Len(planIds)) /\ i \in S
    BY <1>1
  <2>3. S \subseteq Nat
    BY <2>2
  <2> HIDE DEF S
  <2> QED
    BY <2>1, <2>2, <2>3, FS_Subset
<1>3. {j \in 1..i : planData[j] # Failed} = below \cup {i}
  BY <1>1
<1>4. i \notin below /\ below \in SUBSET S
  BY <1>1
<1> HIDE DEF S
<1>5. VersionPosition(i) = Rank(S, i) + 1
  <2>1. IsFiniteSet(below)
    BY <1>2, <1>4, FS_Subset
  <2>2. Cardinality(below \cup {i}) = Cardinality(below) + 1
    BY <1>4, <2>1, FS_AddElement
  <2> QED
    BY <1>3, <2>2 DEF VersionPosition, Rank
<1>6. /\ Rank(S, i) + 1 \in DOMAIN Ascending(S)
      /\ Ascending(S)[Rank(S, i) + 1] = i
  BY <1>2, AscendingLists
<1>7. Rank(S, i) + 1 \in 1..Cardinality(S) /\ Kth(S, Rank(S, i) + 1) = i
  BY <1>6 DEF Ascending
<1>8. versionContracts = [k \in 1..Cardinality(S) |->
                            [plan |-> planIds[Kth(S, k)], version |-> planData[Kth(S, k)]]]
  BY DEF versionContracts, S
<1> QED
  BY <1>5, <1>7, <1>8

RowsJoin == \A p \in PlanRows : p.amount = priceOf[p.plan][p.version]

LEMMA VersionsJoin == VersionsInv => RowsJoin
<1> SUFFICES ASSUME VersionsInv, NEW p \in PlanRows
             PROVE  p.amount = priceOf[p.plan][p.version]
  BY DEF RowsJoin
<1>1. PICK i \in DOMAIN planIds :
        /\ Answered(planData, i) /\ Answered(versionData, VersionPosition(i))
        /\ p = [plan |-> planIds[i], version |-> planData[i], amount |-> versionData[VersionPosition(i)]]
  BY DEF PlanRows
<1>2. versionContracts[VersionPosition(i)] = [plan |-> planIds[i], version |-> planData[i]]
  BY <1>1, VersionOfPlan DEF VersionsInv, Answered
<1>3. versionData[VersionPosition(i)] = priceOf[planIds[i]][planData[i]]
  BY <1>1, <1>2 DEF VersionsInv, Answered
<1> QED
  BY <1>1, <1>3

---------------------------------------------------------------------------

\* The ids are those of the rows.
LEMMA ScopedIds ==
    ASSUME history \in Histories, NEW rows, rows \subseteq Range(history), NEW a, ScopeTo(rows, a)
    PROVE  /\ Range(planIds') = myScope(rows, a).planIds
           /\ Range(subIds') = myScope(rows, a).subIds
           /\ planIds' \in Seq(Nat)
<1> DEFINE P == myScope(rows, a).planIds  S == myScope(rows, a).subIds
<1>1. P \subseteq Nat /\ IsFiniteSet(P) /\ S \subseteq Nat /\ IsFiniteSet(S)
  BY ScopeIsFinite
<1>2. planIds' = Ascending(P) /\ subIds' = Ascending(S)
  BY DEF ScopeTo
<1> HIDE DEF P, S
<1>3. Range(planIds') = P /\ Range(subIds') = S /\ planIds' \in Seq(P)
  BY <1>1, <1>2, AscendingLists
<1>4. planIds' \in Seq(Nat)
  <2>1. Len(planIds') \in Nat /\ planIds' \in [1..Len(planIds') -> P]
    BY <1>3
  <2>2. planIds' \in [1..Len(planIds') -> Nat]
    BY <1>1, <2>1
  <2> QED BY <2>1, <2>2
<1> QED
  BY <1>3, <1>4 DEF P, S

LEMMA ShownPage ==
    ASSUME FeedInv, UNCHANGED <<history, stored, address>>, NEW n \in 0..stored, Show(n),
           late' \in (0..stored) \cup {Undefined}, address \in Wallet \cup {NoWallet}
    PROVE  TypeOK' /\ planIds' \in Seq(Nat)
<1>1. n \in 0..Len(history)
  BY HistoriesAgree DEF FeedInv
<1>2. events' = listRecentEvents(n) /\ shown' = n /\ ScopeTo(events', address)
  BY DEF Show
<1>3. events' \subseteq Range(history)
  BY <1>1, <1>2, StoredRows DEF FeedInv
<1>4. /\ Range(planIds') = myScope(events', address).planIds
      /\ Range(subIds') = myScope(events', address).subIds
      /\ planIds' \in Seq(Nat)
  BY <1>2, <1>3, ScopedIds DEF FeedInv
<1>5. listRecentEvents(shown)' = listRecentEvents(n)
  BY <1>2 DEF listRecentEvents, Stored
<1>6. myScope(events, address)' = myScope(events', address)
  OBVIOUS
<1> QED
  BY <1>2, <1>4, <1>5, <1>6 DEF TypeOK, FeedInv

LEMMA TypeOKNext ==
    FeedInv /\ TypeOK /\ planIds \in Seq(Nat) /\ [Next]_vars => TypeOK' /\ planIds' \in Seq(Nat)
<1> SUFFICES ASSUME FeedInv, TypeOK, planIds \in Seq(Nat), [Next]_vars
             PROVE  TypeOK' /\ planIds' \in Seq(Nat)
  OBVIOUS
<1>0. Len(history) \in Nat /\ address \in Wallet \cup {NoWallet}
  BY HistoriesAgree DEF TypeOK
<1>1. ASSUME UNCHANGED <<history, shown, address, events, planIds, subIds>>,
             stored' \in 0..Len(history), stored <= stored', late' \in (0..stored') \cup {Undefined}
      PROVE  TypeOK' /\ planIds' \in Seq(Nat)
  <2>1. UNCHANGED <<history, shown, address, events, planIds, subIds>>
    BY <1>1
  <2>2. listRecentEvents(shown)' = listRecentEvents(shown)
    BY <2>1 DEF listRecentEvents, Stored
  <2>3. shown' \in 0..stored'
    BY <1>1, <2>1 DEF TypeOK
  <2> QED
    BY <1>1, <2>1, <2>2, <2>3 DEF TypeOK
<1>2. CASE Store
  BY <1>0, <1>1, <1>2 DEF Store, page, TypeOK
<1>3. CASE Poll
  BY <1>0, <1>3, ShownPage DEF Poll, TypeOK
<1>4. CASE PollSlow
  BY <1>0, <1>1, <1>4 DEF PollSlow, page, TypeOK
<1>5. CASE Arrive
  <2>1. late \in 0..stored /\ late' = Undefined /\ UNCHANGED <<history, stored, address>>
    BY <1>5 DEF Arrive, TypeOK
  <2>2. CASE UNCHANGED <<shown, events, planIds, subIds, reads, kept>>
    BY <1>0, <1>1, <2>1, <2>2 DEF TypeOK
  <2>3. CASE Show(late)
    BY <1>0, <2>1, <2>3, ShownPage
  <2> QED
    BY <1>5, <2>2, <2>3 DEF Arrive
<1>6. ASSUME NEW a \in Wallet \cup {NoWallet}, Switch(a)
      PROVE  TypeOK' /\ planIds' \in Seq(Nat)
  <2>1. /\ UNCHANGED <<history, stored, late, shown, events>> /\ address' = a /\ ScopeTo(events, a)
    BY <1>6 DEF Switch
  <2>2. /\ Range(planIds') = myScope(events, a).planIds
        /\ Range(subIds') = myScope(events, a).subIds
        /\ planIds' \in Seq(Nat)
    BY <2>1, ScopedIds DEF FeedInv
  <2>3. listRecentEvents(shown)' = listRecentEvents(shown) /\ myScope(events, address)' = myScope(events, a)
    BY <2>1 DEF listRecentEvents, Stored
  <2> QED
    BY <2>1, <2>2, <2>3 DEF TypeOK
<1>7. CASE UNCHANGED <<history, stored, late, shown, address, events, planIds, subIds>>
  BY <1>0, <1>1, <1>7 DEF TypeOK
<1>8. CASE (\E ok \in SUBSET DOMAIN planIds : ReadPlans(ok))
           \/ (\E ok \in SUBSET DOMAIN versionContracts : ReadVersions(ok))
           \/ (\E ok \in SUBSET DOMAIN subIds : ReadSubs(ok)) \/ Open
  BY <1>7, <1>8 DEF ReadPlans, ReadVersions, ReadSubs, Open, page
<1>9. CASE UNCHANGED vars
  BY <1>7, <1>9 DEF vars, page
<1> QED
  BY <1>2, <1>3, <1>4, <1>5, <1>6, <1>8, <1>9 DEF Next

\* The prices on the page are of what getPlanVersion is asked for next, or gone.
LEMMA RekeyedVersions ==
    ASSUME VersionsInv, RekeyVersions, planIds' \in Seq(Nat)
    PROVE  VersionsInv'
<1> DEFINE c == versionContracts'
<1>1. versionData' \in Rekeyed(versionData, versionContracts, c, {Undefined, Prices(c)})
  BY DEF RekeyVersions
<1>2. CASE versionContracts = c
  <2>1. versionData' = versionData
    BY <1>1, <1>2 DEF Rekeyed
  <2> QED
    BY <1>2, <2>1 DEF VersionsInv
<1>3. CASE versionData' = Undefined
  BY <1>3 DEF VersionsInv
<1>4. CASE versionData' = Prices(c)
  BY <1>4 DEF VersionsInv, Prices
<1> QED
  BY <1>1, <1>2, <1>3, <1>4 DEF Rekeyed

LEMMA VersionsNext ==
    VersionsInv /\ planIds' \in Seq(Nat) /\ [Next]_vars => VersionsInv'
<1> SUFFICES ASSUME VersionsInv, planIds' \in Seq(Nat), [Next]_vars
             PROVE  VersionsInv'
  OBVIOUS
<1>1. CASE RekeyVersions
  BY <1>1, RekeyedVersions
<1>2. ASSUME UNCHANGED <<planIds, planData>> PROVE versionContracts' = versionContracts
  BY <1>2 DEF versionContracts
<1>3. CASE UNCHANGED <<planIds, planData, versionData>>
  BY <1>2, <1>3 DEF VersionsInv
<1>4. ASSUME NEW ok, ReadVersions(ok) PROVE VersionsInv'
  <2>1. UNCHANGED <<planIds, planData>> /\ versionData' = Results(ok, Prices(versionContracts))
    BY <1>4 DEF ReadVersions, page
  <2> QED
    BY <1>2, <2>1 DEF VersionsInv, Results, Prices
<1>5. CASE Store \/ PollSlow \/ Open \/ (\E ok \in SUBSET DOMAIN subIds : ReadSubs(ok)) \/ UNCHANGED vars
  BY <1>3, <1>5 DEF Store, PollSlow, Open, ReadSubs, vars, page, reads
<1>6. CASE Poll \/ (\E ok \in SUBSET DOMAIN planIds : ReadPlans(ok))
           \/ \E a \in Wallet \cup {NoWallet} : Switch(a)
  BY <1>1, <1>6 DEF Poll, Show, ReadPlans, Switch, Rekey
<1>7. CASE Arrive
  BY <1>1, <1>3, <1>7 DEF Arrive, Show, Rekey, reads
<1> QED
  BY <1>4, <1>5, <1>6, <1>7 DEF Next

\* What a step leaves of the lists.
LEMMA Renders ==
    ASSUME [Next]_vars
    PROVE  Render \/ Open \/ UNCHANGED kept
BY DEF Next, Store, Poll, PollSlow, Arrive, Show, Switch, ReadPlans, ReadVersions, ReadSubs, vars

\* A kept list was once the page's own, and every page's own is joined right.
RowsJoinInv == FeedInv /\ TypeOK /\ VersionsInv /\ RowsJoinTheirVersion

LEMMA RowsJoinNext == RowsJoinInv /\ [Next]_vars => RowsJoinInv'
<1> SUFFICES ASSUME RowsJoinInv, [Next]_vars PROVE RowsJoinInv'
  OBVIOUS
<1>1. FeedInv' /\ TypeOK' /\ VersionsInv'
  BY FeedInvNext, TypeOKNext, VersionsNext DEF RowsJoinInv, VersionsInv
<1>2. RowsJoin
  BY VersionsJoin DEF RowsJoinInv
<1>3. RowsJoin'
  BY <1>1, VersionsJoin, PTL
<1>4. plans' \in {plans, PlanRows, PlanRows'}
  BY Renders DEF Render, lastNonEmpty, Open, kept
<1>5. RowsJoinTheirVersion'
  BY <1>2, <1>3, <1>4 DEF RowsJoin, RowsJoinTheirVersion, RowsJoinInv
<1> QED
  BY <1>1, <1>5 DEF RowsJoinInv

LEMMA RowsJoinStarts == Init => RowsJoinInv
<1> SUFFICES ASSUME Init PROVE RowsJoinInv
  OBVIOUS
<1>1. FeedInv /\ RowsJoinTheirVersion /\ VersionsInv
  BY HistoriesAgree DEF Init, FeedInv, RowsJoinTheirVersion, VersionsInv
<1>2. events = {} /\ stored = 0 /\ shown = 0 /\ planIds = <<>> /\ subIds = <<>>
  BY DEF Init
<1>3. listRecentEvents(shown) = {}
  BY <1>2 DEF listRecentEvents, Stored, Newest
<1>4. myScope(events, address).planIds = {} /\ myScope(events, address).subIds = {}
  BY <1>2 DEF myScope, scopeToMerchant, OfType
<1>5. Range(planIds) = {} /\ Range(subIds) = {}
  BY <1>2 DEF Range
<1>6. /\ history \in Histories /\ stored \in 0..Len(history) /\ shown \in 0..stored
      /\ late = Undefined /\ address \in Wallet \cup {NoWallet}
  BY <1>2, HistoriesAgree DEF Init
<1>7. TypeOK
  BY <1>2, <1>3, <1>4, <1>5, <1>6 DEF TypeOK
<1> QED
  BY <1>1, <1>7 DEF RowsJoinInv

\* Every plan is listed with the price of its own version, whichever multicalls failed for
\* whichever contracts, and the page's ids are those of the rows it holds.
THEOREM RowsAreJoined == Spec => []ListsInv
<1>1. RowsJoinInv => ListsInv
  BY DEF RowsJoinInv, ListsInv
<1> QED
  BY <1>1, RowsJoinStarts, RowsJoinNext, PTL DEF Spec

\* What the present answers give is the present wallet's.
RowsMine ==
    /\ \A p \in PlanRows : address # NoWallet /\ SameAddress(merchantOf[p.plan], address)
    /\ \A r \in SubRows : address # NoWallet /\ SameAddress(MerchantOfSub(r.sub), address)

LEMMA RowsAreMine == FeedInv /\ TypeOK => RowsMine
<1> SUFFICES ASSUME FeedInv, TypeOK PROVE RowsMine
  OBVIOUS
<1>0. address = NoWallet => myScope(events, address).planIds = {} /\ myScope(events, address).subIds = {}
  BY DEF myScope
<1>1. ASSUME NEW p \in PlanRows
      PROVE  address # NoWallet /\ SameAddress(merchantOf[p.plan], address)
  <2>1. \E i \in DOMAIN planIds : p.plan = planIds[i]
    BY <1>1 DEF PlanRows
  <2>2. p.plan \in myScope(events, address).planIds
    BY <2>1 DEF TypeOK, Range
  <2> QED BY <1>0, <2>2, ScopeIsMine
<1>2. ASSUME NEW r \in SubRows
      PROVE  address # NoWallet /\ SameAddress(MerchantOfSub(r.sub), address)
  <2>1. \E i \in DOMAIN subIds : r.sub = subIds[i]
    BY <1>2 DEF SubRows
  <2>2. r.sub \in myScope(events, address).subIds
    BY <2>1 DEF TypeOK, Range
  <2> QED BY <1>0, <2>2, ScopeIsMine
<1> QED
  BY <1>1, <1>2 DEF RowsMine

\* A list is rendered from the answers or kept, from one wallet of the screen to the next.
KeptInv == RowsJoinInv /\ address \in whose /\ KeptMine

LEMMA WalletSteps ==
    ASSUME [Next]_vars, address \in whose
    PROVE  /\ address' \in whose'
           /\ \/ whose \subseteq whose' /\ Render
              \/ UNCHANGED <<whose, kept, address, events, planIds, subIds, reads>>
              \/ Open
<1>1. CASE Store \/ PollSlow \/ UNCHANGED vars
  BY <1>1 DEF Store, PollSlow, vars, page
<1>2. CASE Poll
  BY <1>2 DEF Poll, Show
<1>3. CASE Arrive
  BY <1>3 DEF Arrive, Show
<1>4. CASE Open
  BY <1>4 DEF Open
<1>5. ASSUME NEW a \in Wallet \cup {NoWallet}, Switch(a)
      PROVE  address' \in whose' /\ whose \subseteq whose' /\ Render
  BY <1>5 DEF Switch
<1>6. CASE (\E ok \in SUBSET DOMAIN planIds : ReadPlans(ok))
           \/ (\E ok \in SUBSET DOMAIN versionContracts : ReadVersions(ok))
           \/ (\E ok \in SUBSET DOMAIN subIds : ReadSubs(ok))
  BY <1>6 DEF ReadPlans, ReadVersions, ReadSubs, page
<1> QED
  BY <1>1, <1>2, <1>3, <1>4, <1>5, <1>6 DEF Next

LEMMA KeptMineNext == KeptInv /\ [Next]_vars => KeptInv'
<1> SUFFICES ASSUME KeptInv, [Next]_vars PROVE KeptInv'
  OBVIOUS
<1>1. RowsJoinInv /\ RowsJoinInv' /\ KeptMine /\ address \in whose /\ address' \in whose'
  BY RowsJoinNext, WalletSteps DEF KeptInv
<1>2. RowsMine /\ RowsMine'
  <2>1. RowsMine
    BY <1>1, RowsAreMine DEF RowsJoinInv
  <2>2. FeedInv' /\ TypeOK'
    BY <1>1 DEF RowsJoinInv
  <2>3. RowsMine'
    BY <2>2, RowsAreMine, PTL
  <2> QED BY <2>1, <2>3
<1>3. CASE whose \subseteq whose' /\ Render
  <2>1. /\ plans' = IF PlanRows' # {} THEN PlanRows' ELSE plans
        /\ subs' = IF SubRows' # {} THEN SubRows' ELSE subs
    BY <1>3 DEF Render, lastNonEmpty
  <2> QED
    BY <1>1, <1>2, <1>3, <2>1 DEF KeptInv, KeptMine, RowsMine
<1>4. CASE UNCHANGED <<whose, kept, address, events, planIds, subIds, reads>>
  <2>1. PlanRows' = PlanRows /\ SubRows' = SubRows
    BY <1>4 DEF PlanRows, SubRows, Answered, VersionPosition, StatusOf, reads
  <2> QED
    BY <1>1, <1>4, <2>1 DEF KeptInv, KeptMine, kept
<1>5. CASE Open
  <2>1. PlanRows' = PlanRows /\ SubRows' = SubRows
    BY <1>5 DEF Open, PlanRows, SubRows, Answered, VersionPosition, StatusOf, reads
  <2>2. plans' = PlanRows /\ subs' = SubRows /\ whose' = {address} /\ address' = address
    BY <1>5 DEF Open
  <2> QED
    BY <1>1, <1>2, <2>1, <2>2 DEF KeptInv, KeptMine, RowsMine
<1> QED
  BY <1>1, <1>3, <1>4, <1>5, WalletSteps

\* Whatever answers are late, lost or cut off by the window, and however wallets are switched:
\* figures, payments, attention rows and Activity are the wallet's own, and the lists hold
\* rows of wallets connected since the screen was opened, of the present one alone once it
\* has any.
THEOREM NothingOfOthers == Spec => []OnlyMine
<1>1. Init => KeptInv
  <2> SUFFICES ASSUME Init PROVE KeptInv
    OBVIOUS
  <2>1. RowsJoinInv
    BY RowsJoinStarts
  <2>2. plans = {} /\ subs = {} /\ address \in whose
    BY DEF Init
  <2> QED BY <2>1, <2>2 DEF KeptInv, KeptMine
<1>2. KeptInv => OnlyMine
  BY ViewsAreMine DEF KeptInv, RowsJoinInv
<1> QED BY <1>1, <1>2, KeptMineNext, PTL DEF Spec

---------------------------------------------------------------------------
(* The headline. *)

\* What every row of the history is worth.
Worth == [e \in Range(history) |-> e.atomic]

LEMMA WorthOfRows ==
    ASSUME history \in Histories, NEW S \in SUBSET Range(history)
    PROVE  /\ SumAtomic(S) = SumOver(Worth, S) /\ IsFiniteSet(S)
           /\ \A e \in S : Worth[e] = e.atomic /\ Worth[e] \in Nat /\ e.at \in Nat /\ e.id \in Nat
<1>1. [e \in S |-> e.atomic] = [e \in S |-> Worth[e]]
  BY DEF Worth
<1>2. SumAtomic(S) = SumOver(Worth, S)
  BY <1>1 DEF SumAtomic, SumOver
<1>3. IsFiniteSet(S)
  BY FiniteHistory, FS_Subset
<1>4. \A e \in S : AgreesWithChain(e)
  BY HistoriesAgree
<1> QED
  BY <1>2, <1>3, <1>4 DEF Worth, AgreesWithChain

\* While no more rows are stored than the window holds, all are listed.
LEMMA WholeWindow ==
    ASSUME history \in Histories, NEW n \in 0..Len(history), n <= Window
    PROVE  listRecentEvents(n) = Stored(n)
<1> DEFINE R == Stored(n)  row == [i \in 1..n |-> history[i]]
<1>1. n \in Nat /\ Window \in Nat /\ DOMAIN history = 1..Len(history) /\ Len(history) \in Nat
  BY HistoriesAgree, DashboardAssumption
<1>2. R \subseteq Range(history)
  BY <1>1 DEF Stored, Range
<1>3. IsFiniteSet(R) /\ Cardinality(R) <= n /\ Cardinality(R) \in Nat
  <2>1. row \in Surjection(1..n, R)
    BY DEF Surjection, Stored
  <2>2. IsFiniteSet(1..n) /\ Cardinality(1..n) = n
    BY <1>1, FS_Interval
  <2> HIDE DEF R, row
  <2> QED
    BY <2>1, <2>2, FS_Surjection, FS_CardinalityType
<1>4. ASSUME NEW e \in R
      PROVE  Cardinality({f \in R : Newer(f, e)}) < Window
  <2> DEFINE N == {f \in R : Newer(f, e)}
  <2>1. e \notin N
    <3>1. e.at \in Nat /\ e.id \in Nat
      BY <1>2, WorthOfRows
    <3> QED
      BY <3>1 DEF Newer
  <2>2. N \in SUBSET R /\ N # R
    BY <2>1
  <2> HIDE DEF N, R
  <2>3. Cardinality(N) <= Cardinality(R) /\ Cardinality(N) # Cardinality(R) /\ Cardinality(N) \in Nat
    BY <1>3, <2>2, FS_Subset, FS_CardinalityType
  <2>4. Cardinality(N) < Window
    BY <1>1, <1>3, <2>3
  <2> QED
    BY <2>4 DEF N
<1> QED
  BY <1>4 DEF listRecentEvents, Newest

\* A stored charge of the wallet's subscription is known to be its own from the rows before it.
LEMMA ChargeIsScoped ==
    ASSUME history \in Histories, NEW n \in 0..Len(history), address # NoWallet,
           NEW e \in Stored(n), e.type = "payment.succeeded",
           SameAddress(address, MerchantOfSub(e.sub))
    PROVE  e.sub \in myScope(Stored(n), address).subIds
<1>1. n \in Nat /\ DOMAIN history = 1..Len(history) /\ Len(history) \in Nat
  BY HistoriesAgree
<1>2. PICK i \in 1..n : e = history[i]
  BY DEF Stored
<1>3. PICK j \in 1..i, k \in 1..i :
        /\ history[j].type = "subscription.created" /\ history[j].sub = e.sub
        /\ history[k].type = "plan.created" /\ history[k].plan = history[j].plan
  <2>1. InChainOrder(history)
    BY HistoriesAgree
  <2>2. i \in DOMAIN history /\ history[i].type = "payment.succeeded"
    BY <1>1, <1>2
  <2> QED BY <1>2, <2>1, <2>2 DEF InChainOrder
<1>4. j \in 1..n /\ k \in 1..n /\ j \in DOMAIN history /\ k \in DOMAIN history
  BY <1>1, <1>2, <1>3
<1>5. history[j] \in Stored(n) /\ history[k] \in Stored(n)
  BY <1>4 DEF Stored
<1>6. AgreesWithChain(history[j]) /\ AgreesWithChain(history[k])
  BY <1>4, HistoriesAgree DEF Range
<1>7. SameAddress(history[k].who, address)
  BY <1>3, <1>6 DEF AgreesWithChain, MerchantOfSub, SameAddress
<1>8. history[k].plan \in myScope(Stored(n), address).planIds
  BY <1>3, <1>5, <1>7 DEF myScope, scopeToMerchant, OfType
<1> QED
  BY <1>3, <1>5, <1>8 DEF myScope, scopeToMerchant, OfType

\* What the figures look at, and what they should be.
Counted(now) == {e \in Paid(myPaymentEvents) : now - Span <= e.at /\ e.at <= now}
Due(n, now) ==
    {e \in Paid(Stored(n)) :
        /\ now - Span <= e.at /\ e.at <= now
        /\ SameAddress(address, IF e.type = "payment.succeeded" THEN MerchantOfSub(e.sub) ELSE e.who)}

LEMMA MineIsDue ==
    ASSUME FeedInv, TypeOK, address # NoWallet, NEW now \in Nat
    PROVE  /\ Counted(now) \subseteq Due(shown, now) /\ Due(shown, now) \subseteq Range(history)
           /\ shown <= Window => Counted(now) = Due(shown, now)
<1>1. shown \in 0..Len(history)
  BY HistoriesAgree DEF FeedInv, TypeOK
<1>2. events \subseteq Stored(shown)
  BY DEF TypeOK, listRecentEvents, Newest
<1>3. Stored(shown) \subseteq Range(history)
  <2>1. \A i \in 1..shown : i \in DOMAIN history
    BY <1>1, HistoriesAgree DEF FeedInv
  <2> QED BY <2>1 DEF Stored, Range
<1>4. \A a, b : SameAddress(a, b) => SameAddress(b, a)
  BY DEF SameAddress
<1>5. ASSUME NEW e \in Counted(now) PROVE e \in Due(shown, now)
  <2>1. e \in myPaymentEvents /\ e \in Paid(myPaymentEvents) /\ now - Span <= e.at /\ e.at <= now
    BY DEF Counted, Paid
  <2>2. e \in events
    BY <2>1 DEF myPaymentEvents, scopedPaymentEvents
  <2>3. SameAddress(IF e.type = "payment.succeeded" THEN MerchantOfSub(e.sub) ELSE e.who, address)
    BY <2>1, PaymentsAreMine
  <2> QED
    BY <1>2, <1>4, <2>1, <2>2, <2>3 DEF Due, Paid
<1>6. ASSUME shown <= Window, NEW e \in Due(shown, now) PROVE e \in Counted(now)
  <2>1. events = Stored(shown)
    BY <1>1, <1>6, WholeWindow DEF FeedInv, TypeOK
  <2>2. e \in myPaymentEvents
    <3>1. CASE e.type = "payment.succeeded"
      BY <1>1, <1>6, <2>1, <3>1, ChargeIsScoped DEF Due, Paid, FeedInv, myPaymentEvents, scopedPaymentEvents
    <3>2. CASE e.type = "settlement.batched"
      BY <1>4, <1>6, <2>1, <3>2 DEF Due, Paid, myPaymentEvents, scopedPaymentEvents
    <3> QED
      BY <1>6, <3>1, <3>2 DEF Due, Paid
  <2> QED
    BY <1>6, <2>2 DEF Due, Counted, Paid
<1>7. Due(shown, now) \subseteq Range(history)
  BY <1>3 DEF Due, Paid
<1> QED
  BY <1>5, <1>6, <1>7

\* The days of a chart of m days go back no more than m days.
LEMMA DaysBack ==
    ASSUME NEW d \in Nat, NEW q \in Nat, NEW m \in Nat, NEW t \in Nat, t < q + m
    PROVE  d * t + d <= d * q + d * m
<1> DEFINE x == q + m - (t + 1)
<1>1. x \in Nat /\ q + m = t + 1 + x
  OBVIOUS
<1> HIDE DEF x
<1>2. d * (q + m) = d * q + d * m /\ d * (t + 1 + x) = d * t + d + d * x /\ d * x >= 0
  BY <1>1, SMT
<1>3. d * q + d * m = d * t + d + d * x
  BY <1>1, <1>2
<1>4. d * t \in Nat /\ d * x \in Nat
  BY <1>1, SMT
<1> QED
  BY <1>3, <1>4

LEMMA BarsAreMine ==
    ASSUME FeedInv, TypeOK, address # NoWallet, NEW now \in Nat,
           \A e \in myPaymentEvents : e.at <= now
    PROVE  SumOf(daily(now)) <= revenueThisMonth(now)
<1> DEFINE paid == Paid(myPaymentEvents)
           today == DayOf(now)
           bars == daily(now)
           B(i) == {e \in paid : DayOf(e.at) = today - (Days - i)}
           U(k) == {e \in paid : \E i \in 1..k : DayOf(e.at) = today - (Days - i)}
<1>0. Days \in Nat /\ Span \in Nat /\ DayLen \in Nat /\ DayLen > 0 /\ Days * DayLen <= Span
  BY DashboardAssumption, ViewsAssumption
<1>1. paid \subseteq Range(history)
  BY DEF Paid, myPaymentEvents, scopedPaymentEvents, FeedInv
<1>2. \A e \in paid : e.at \in Nat /\ Worth[e] \in Nat /\ e.at <= now
  BY <1>1, WorthOfRows DEF FeedInv, Paid
<1>3. \A e \in paid : DayOf(e.at) \in Nat /\ DayLen * DayOf(e.at) <= e.at
  BY <1>0, <1>2, Division DEF DayOf
<1>4. today \in Nat /\ now < DayLen * today + DayLen
  BY <1>0, Division DEF DayOf
<1>5. \A i \in 1..Days : bars[i] = SumAtomic(B(i))
  BY DEF daily, revenueByDay
<1> HIDE DEF paid, today
<1>6. \A i \in 1..Days : bars[i] = SumOver(Worth, B(i)) /\ bars[i] \in Nat /\ IsFiniteSet(B(i))
  <2>1. ASSUME NEW i \in 1..Days
        PROVE  bars[i] = SumOver(Worth, B(i)) /\ bars[i] \in Nat /\ IsFiniteSet(B(i))
    <3>1. B(i) \in SUBSET Range(history) /\ \A e \in B(i) : Worth[e] \in Nat
      BY <1>1, <1>2
    <3>2. bars[i] = SumAtomic(B(i))
      BY <1>5
    <3> HIDE DEF B, bars
    <3>3. SumAtomic(B(i)) = SumOver(Worth, B(i)) /\ IsFiniteSet(B(i))
      BY <3>1, WorthOfRows DEF FeedInv
    <3>4. SumOver(Worth, B(i)) \in Nat
      BY <3>1, <3>3, SumNat
    <3> QED BY <3>2, <3>3, <3>4
  <2> QED BY <2>1
<1>7. SumOf(bars) = SumOver(bars, 1..Days)
  BY DEF SumOf, SumOver, daily, revenueByDay
<1> HIDE DEF bars
<1> DEFINE T == {k \in Nat : k <= Days => SumOver(bars, 1..k) = SumOver(Worth, U(k))}
<1>8. 0 \in T
  <2>1. U(0) = {} /\ 1..0 = {}
    OBVIOUS
  <2> HIDE DEF U
  <2> QED BY <2>1, SumEmpty
<1>9. ASSUME NEW k \in Nat, k + 1 <= Days, SumOver(bars, 1..k) = SumOver(Worth, U(k))
      PROVE  SumOver(bars, 1..(k + 1)) = SumOver(Worth, U(k + 1))
  <2>2. 1..(k + 1) = 1..k \cup {k + 1} /\ k + 1 \notin 1..k /\ 1..(k + 1) \subseteq 1..Days
    BY <1>0, <1>9
  <2>3. IsFiniteSet(1..k)
    BY FS_Interval
  <2>4. SumOver(bars, 1..(k + 1)) = bars[k + 1] + SumOver(bars, 1..k)
    <3>0. \A i \in 1..Days : bars[i] \in Int
      <4>1. \A i \in 1..Days : bars[i] \in Nat
        BY <1>6
      <4> QED BY <4>1
    <3>1. \A x \in 1..k \cup {k + 1} : bars[x] \in Int
      BY <2>2, <3>0
    <3> QED BY <2>2, <2>3, <3>1, SumPut
  <2>5. U(k + 1) = U(k) \cup B(k + 1)
    BY <2>2
  <2>6. U(k) \cap B(k + 1) = {}
    <3>1. \A i \in 1..k : today - (Days - i) # today - (Days - (k + 1))
      BY <1>0, <1>4
    <3> QED BY <3>1
  <2>7. IsFiniteSet(U(k)) /\ U(k) \subseteq paid /\ B(k + 1) \subseteq paid
    BY <1>1, FiniteHistory, FS_Subset DEF FeedInv
  <2>8. \A e \in U(k) \cup B(k + 1) : Worth[e] \in Int
    BY <1>2
  <2>9. k + 1 \in 1..Days /\ bars[k + 1] = SumOver(Worth, B(k + 1)) /\ IsFiniteSet(B(k + 1))
    BY <1>6, <2>2
  <2> HIDE DEF U, B
  <2>10. SumOver(Worth, U(k + 1)) = SumOver(Worth, U(k)) + SumOver(Worth, B(k + 1))
    BY <2>5, <2>6, <2>7, <2>8, <2>9, SumUnion
  <2>11. SumOver(Worth, U(k)) \in Int /\ SumOver(Worth, B(k + 1)) \in Int
    BY <2>7, <2>8, <2>9, SumInt
  <2> QED BY <1>9, <2>4, <2>9, <2>10, <2>11
<1>9a. \A k \in Nat : k \in T => k + 1 \in T
  <2> HIDE DEF U, B
  <2> QED BY <1>0, <1>9
<1>10. SumOver(bars, 1..Days) = SumOver(Worth, U(Days))
  <2>1. Days \in T
    <3> HIDE DEF T
    <3> QED BY <1>0, <1>8, <1>9a, NaturalInduction
  <2> QED BY <1>0, <2>1
<1>11. U(Days) \subseteq Counted(now)
  <2>1. SUFFICES ASSUME NEW e \in paid, NEW i \in 1..Days, DayOf(e.at) = today - (Days - i)
                 PROVE  now - Span <= e.at
    BY <1>2 DEF Counted, paid
  <2> DEFINE q == DayOf(e.at)  c == DayLen * today  b == DayLen * q  w == DayLen * Days
  <2>2. q \in Nat /\ b <= e.at /\ e.at \in Nat
    BY <1>2, <1>3
  <2>3. today < q + Days
    BY <1>0, <1>4, <2>1, <2>2
  <2>4. c + DayLen <= b + w
    <3> HIDE DEF q
    <3> QED BY <1>0, <1>4, <2>2, <2>3, DaysBack
  <2>5. c \in Nat /\ b \in Nat /\ w \in Nat /\ w <= Span
    <3> HIDE DEF q
    <3> QED BY <1>0, <1>4, <2>2, SMT
  <2> HIDE DEF c, b, w, q
  <2>6. now < c + DayLen
    BY <1>4 DEF c
  <2> QED BY <1>0, <2>2, <2>4, <2>5, <2>6
<1>12. /\ Counted(now) \in SUBSET Range(history) /\ SumAtomic(Counted(now)) = SumOver(Worth, Counted(now))
       /\ IsFiniteSet(Counted(now)) /\ \A e \in Counted(now) : Worth[e] \in Nat
  <2>1. Counted(now) \in SUBSET Range(history)
    BY <1>1 DEF Counted, paid
  <2> QED BY <2>1, WorthOfRows DEF FeedInv
<1>13. SumOver(Worth, U(Days)) <= SumOver(Worth, Counted(now))
  <2> HIDE DEF U
  <2> QED BY <1>11, <1>12, SumSubset
<1>14. revenueThisMonth(now) = SumAtomic(Counted(now))
  BY DEF revenueThisMonth, revenueTotalAtomic, Counted
<1> QED
  BY <1>7, <1>10, <1>12, <1>13, <1>14 DEF bars

\* The headline is what the merchant earned by the chain's own account, while the window holds
\* every row, and never more; the bars show nothing that it misses.
THEOREM HeadlineTellsTheTruth == Spec => []HeadlineIsExact
<1>1. FeedInv /\ TypeOK => HeadlineIsExact
  <2> SUFFICES ASSUME FeedInv, TypeOK, address # NoWallet, NEW now \in Times
               PROVE  LET earned == Earned(shown, now - Span, now) IN
                      /\ revenueThisMonth(now) <= earned
                      /\ shown <= Window => revenueThisMonth(now) = earned
                      /\ (\A e \in myPaymentEvents : e.at <= now) =>
                              SumOf(daily(now)) <= revenueThisMonth(now)
    BY DEF HeadlineIsExact
  <2>1. now \in Nat
    BY DashboardAssumption
  <2>2. Earned(shown, now - Span, now) = SumAtomic(Due(shown, now))
    BY DEF Earned, Due
  <2>3. revenueThisMonth(now) = SumAtomic(Counted(now))
    BY DEF revenueThisMonth, revenueTotalAtomic, Counted
  <2>4. /\ Counted(now) \subseteq Due(shown, now) /\ Due(shown, now) \subseteq Range(history)
        /\ shown <= Window => Counted(now) = Due(shown, now)
    BY <2>1, MineIsDue
  <2>5. SumAtomic(Counted(now)) <= SumAtomic(Due(shown, now))
    <3>1. /\ SumAtomic(Due(shown, now)) = SumOver(Worth, Due(shown, now)) /\ IsFiniteSet(Due(shown, now))
          /\ \A e \in Due(shown, now) : Worth[e] \in Nat
      BY <2>4, WorthOfRows DEF FeedInv
    <3>2. SumAtomic(Counted(now)) = SumOver(Worth, Counted(now))
      BY <2>4, WorthOfRows DEF FeedInv
    <3> QED BY <2>4, <3>1, <3>2, SumSubset
  <2> QED
    BY <2>1, <2>2, <2>3, <2>4, <2>5, BarsAreMine
<1>2. RowsJoinInv => FeedInv /\ TypeOK
  BY DEF RowsJoinInv
<1> QED
  BY <1>1, <1>2, RowsJoinStarts, RowsJoinNext, PTL DEF Spec

---------------------------------------------------------------------------
(***************************************************************************)
(* The console: what the page lists is what the service has, or a mutation *)
(* that is still under way says why not.  Requests are told apart by their *)
(* numbers (CallsInv), ids are given out once (RowsInv, ListedInv), and an *)
(* answer on its way carries rows no older than the last one shown         *)
(* (AnswersInv).                                                           *)
(***************************************************************************)

\* A request, with the fields it is sent with.
IsCall(c) == c = [no |-> c.no, kind |-> c.kind, ep |-> c.ep, ev |-> c.ev,
                  here |-> c.here, result |-> c.result]

\* Requests have numbers of their own, and are heard while the console was not left.
CallsInv ==
    /\ asked \in Nat /\ failures \in Nat
    /\ \A c \in calls : IsCall(c) /\ c.no \in 1..asked
    /\ \A c, d \in calls : c.no = d.no => c = d
    /\ ~left => \A c \in calls : c.kind # "nudge" => c.here

Endpoint == [paused : BOOLEAN, secret : Nat]

\* The rows of the service and the lists on the page: ids are given out once.
RowsInv ==
    /\ created \in Nat /\ secrets \in Nat
    /\ endpoints \in [DOMAIN endpoints -> Endpoint]
    /\ DOMAIN endpoints \subseteq 1..created
    /\ \A ep, other \in DOMAIN endpoints :
          /\ endpoints[ep].secret \in 1..secrets
          /\ endpoints[ep].secret = endpoints[other].secret => ep = other
    /\ DOMAIN deliveries \subseteq eventRows \X DOMAIN endpoints

\* Every endpoint a list, an answer, a request or the drawer names was given out.
NamesInv ==
    /\ DOMAIN lists.endpoints \subseteq 1..created
    /\ slow # None => DOMAIN slow.lists.endpoints \subseteq 1..created
    /\ \A c \in calls :
          /\ c.kind = "rotate" => c.ep \in 1..created
          /\ c.kind \in {"create", "rotate"} /\ c.result # None /\ c.result.status = "ok"
                => c.result.ep \in 1..created
    /\ drawer # None /\ drawer.kind = "secret" => drawer.ep \in 1..created
    /\ drawer # None /\ drawer.kind = "add" =>
          drawer = [kind |-> "add", pending |-> drawer.pending]

\* The requests the buttons send through run() and handleRotate.
Runs == {c \in calls : c.here /\ c.kind \in {"delete", "pause", "resume", "resend", "rotate"}}

\* One action runs at a time, until its own refetch has arrived.
BusyInv ==
    /\ busy \in BOOLEAN /\ (busy => screen = "webhooks")
    /\ Runs # {} => busy
    /\ \A c, d \in Runs : c = d
    /\ slow # None => slow.run \in BOOLEAN
    /\ slow # None /\ slow.run => busy /\ Runs = {}

\* The answer of a rotation is what the service signs with, and a refused one's endpoint is gone.
AnswersInv ==
    \A c \in calls : c.kind = "rotate" /\ c.result # None =>
        /\ c.result.status = "ok" => c.result.ep = c.ep
        /\ c.result.status = "ok" /\ ~left /\ c.ep \in DOMAIN endpoints
              => c.result.secret = endpoints[c.ep].secret
        /\ c.result.status # "ok" => failures # 0 \/ c.ep \notin DOMAIN endpoints

\* The rows of an action's own refetch are the service's until they are shown: nothing else is
\* served meanwhile, as the buttons wait.
ListedInv == ~left /\ slow # None /\ slow.run =>
    /\ DOMAIN slow.lists.endpoints \subseteq DOMAIN endpoints
    /\ slow.lists.endpoints = [ep \in DOMAIN slow.lists.endpoints |-> endpoints[ep]]

\* A nudge that was accepted and whose merchant was not told yet.
News(c, p) == /\ c.kind = "nudge" /\ c.result # None
              /\ c.result.status = "ok" /\ c.result.period = p

\* Per attention period the event is inserted once, so it is news or told once.
NudgesInv ==
    /\ DOMAIN toasts = 1..MaxPeriods
    /\ \A p \in 1..MaxPeriods :
        /\ toasts[p] \in {0, 1}
        /\ toasts[p] = 1 => NudgeId(None, p) \in eventRows
        /\ \A c \in calls : News(c, p) => NudgeId(None, p) \in eventRows /\ toasts[p] = 0
        /\ \A c, d \in calls : News(c, p) /\ News(d, p) => c = d

\* What a step of the console keeps; only together, as each part rests on CallsInv and RowsInv.
ConsoleProofInv ==
    /\ CallsInv /\ RowsInv /\ NamesInv /\ BusyInv /\ AnswersInv /\ ListedInv /\ NudgesInv
    /\ RotatedSecretWorks

---------------------------------------------------------------------------

\* What a step does to the requests.
Sends == \E kind, ep, ev :
            Send(kind, ep, ev) /\ (kind = "rotate" => ep \in DOMAIN lists.endpoints) /\ UNCHANGED left
Replies == (\E c \in calls : Serve(c) \/ Fail(c)) /\ UNCHANGED <<asked, left>>
Drops == calls' \subseteq calls /\ UNCHANGED <<asked, left>>

LEMMA CallSteps ==
    ASSUME ConsoleNext
    PROVE  Sends \/ Replies \/ Drops \/ Navigate
<1>1. CASE Flag \/ PollLists \/ RefetchArrives \/ Disarm \/ OpenForm \/ CloseDrawer \/ Hint \/ Dismiss
  BY <1>1 DEF Flag, PollLists, RefetchArrives, Disarm, OpenForm, CloseDrawer, Hint, Dismiss,
              Drops, counters
<1>2. CASE Add \/ Nudge
  <2>1. CASE Add
    BY <2>1 DEF Add, Sends
  <2>2. CASE Nudge
    BY <2>2 DEF Nudge, Sends
  <2> QED BY <1>2, <2>1, <2>2
<1>3. CASE \E d \in DOMAIN deliveries : Attempt(d)
  BY <1>3 DEF Attempt, Drops
<1>4. ASSUME NEW ep \in DOMAIN lists.endpoints,
             SetPaused(ep) \/ Rotate(ep) \/ ArmDelete(ep) \/ Delete(ep)
      PROVE  Sends \/ Drops
  <2>1. CASE ArmDelete(ep)
    BY <2>1 DEF ArmDelete, Drops, counters
  <2>2. CASE SetPaused(ep)
    BY <2>2 DEF SetPaused, Run, Sends
  <2>3. CASE Rotate(ep) \/ Delete(ep)
    BY <2>3 DEF Rotate, Delete, Run, Sends
  <2> QED BY <1>4, <2>1, <2>2, <2>3
<1>5. ASSUME NEW d \in DOMAIN lists.deliveries, Resend(d)
      PROVE  Sends
  BY <1>5 DEF Resend, Run, Sends
<1>6. ASSUME NEW c \in calls, Serve(c) \/ Fail(c)
      PROVE  Replies
  BY <1>6 DEF Serve, Fail, Replies, counters
<1>7. ASSUME NEW c \in calls,
             RunEnds(c) \/ RotateEnds(c) \/ AddEnds(c) \/ Unheard(c) \/ NudgeEnds(c)
      PROVE  Drops
  BY <1>7 DEF RunEnds, RotateEnds, AddEnds, Unheard, NudgeEnds, Gone, Drops, counters
<1> QED BY <1>1, <1>2, <1>3, <1>4, <1>5, <1>6, <1>7 DEF ConsoleNext

LEMMA AnsweredCall ==
    ASSUME NEW c, IsCall(c), NEW r
    PROVE  LET d == [c EXCEPT !.result = r] IN
           /\ IsCall(d) /\ d.no = c.no /\ d.kind = c.kind /\ d.ep = c.ep /\ d.ev = c.ev
           /\ d.here = c.here /\ d.result = r
<1>1. c = [no |-> c.no, kind |-> c.kind, ep |-> c.ep, ev |-> c.ev,
           here |-> c.here, result |-> c.result]
  BY DEF IsCall
<1>2. [c EXCEPT !.result = r] = [no |-> c.no, kind |-> c.kind, ep |-> c.ep, ev |-> c.ev,
           here |-> c.here, result |-> r]
  BY <1>1
<1> QED BY <1>2 DEF IsCall

LEMMA MovedCall ==
    ASSUME NEW c, IsCall(c), NEW b
    PROVE  LET d == [c EXCEPT !.here = b] IN
           /\ IsCall(d) /\ d.no = c.no /\ d.kind = c.kind /\ d.ep = c.ep /\ d.ev = c.ev
           /\ d.here = b /\ d.result = c.result
<1>1. c = [no |-> c.no, kind |-> c.kind, ep |-> c.ep, ev |-> c.ev,
           here |-> c.here, result |-> c.result]
  BY DEF IsCall
<1>2. [c EXCEPT !.here = b] = [no |-> c.no, kind |-> c.kind, ep |-> c.ep, ev |-> c.ev,
           here |-> b, result |-> c.result]
  BY <1>1
<1> QED BY <1>2 DEF IsCall

\* What a request is answered.
ReplyFacts(c, r) ==
    /\ Reply(c, r)
    /\ r.status = "ok" /\ c.kind = "create" => r.ep \in 1..created'
    /\ r.status = "ok" /\ c.kind = "rotate" =>
          r.ep = c.ep /\ (c.ep \in DOMAIN endpoints => r.secret = endpoints'[c.ep].secret)
    /\ r.status = "ok" /\ c.kind = "nudge" =>
          \A p \in 1..MaxPeriods : r.period = p =>
              <<"nudge", p>> \notin eventRows /\ <<"nudge", p>> \in eventRows'
    /\ r.status # "ok" /\ c.kind = "rotate" => failures' # 0 \/ c.ep \notin DOMAIN endpoints'

LEMMA ReplyOf ==
    ASSUME RowsInv, failures \in Nat, NEW c \in calls, Serve(c) \/ Fail(c)
    PROVE  \E r : ReplyFacts(c, r)
<1>1. CASE Fail(c)
  <2>1. Reply(c, Failure) /\ Failure.status # "ok" /\ failures' # 0
    BY <1>1 DEF Fail, Failure
  <2> QED BY <2>1 DEF ReplyFacts
<1>2. CASE ServeCreate(c)
  <2> DEFINE r == [Ok(c, secrets + 1) EXCEPT !.ep = created + 1]
  <2>1. Reply(c, r) /\ r.status = "ok" /\ r.ep = created + 1 /\ c.kind = "create" /\ created' = created + 1
    BY <1>2 DEF ServeCreate, Ok
  <2> HIDE DEF r
  <2>2. r.ep \in 1..created'
    BY <2>1 DEF RowsInv
  <2> QED BY <2>1, <2>2 DEF ReplyFacts
<1>3. CASE ServeRotate(c)
  <2> DEFINE s == secrets + 1
             r == Ok(c, s)
  <2>1. Reply(c, r) /\ c.kind = "rotate" /\ c.ep \in DOMAIN endpoints
    BY <1>3 DEF ServeRotate
  <2>2. r.status = "ok" /\ r.ep = c.ep /\ r.secret = s
    BY DEF Ok
  <2>3. endpoints' = [endpoints EXCEPT ![c.ep].secret = s]
    BY <1>3 DEF ServeRotate
  <2>4. s \in Nat
    BY DEF RowsInv
  <2> HIDE DEF r, s
  <2>5. endpoints'[c.ep].secret = s
    BY <2>1, <2>3, <2>4 DEF RowsInv, Endpoint
  <2> QED BY <2>1, <2>2, <2>5 DEF ReplyFacts
<1>4. CASE ServeDelete(c) \/ ServePaused(c) \/ ServeResend(c)
  <2>1. Reply(c, Ok(c, 0)) /\ c.kind \in {"delete", "pause", "resume", "resend"}
    BY <1>4 DEF ServeDelete, ServePaused, ServeResend
  <2> QED BY <2>1 DEF ReplyFacts
<1>5. CASE ServeNudge(c)
  <2> DEFINE q == latestAttentionPeriod
             ev == <<"nudge", q>>
             r == [Ok(c, 0) EXCEPT !.period = IF ev \in eventRows THEN 0 ELSE q]
  <2>1. c.kind = "nudge" /\ Reply(c, r) /\ InsertEvent(ev)
    BY <1>5 DEF ServeNudge, NudgeId
  <2>2. r.period = IF ev \in eventRows THEN 0 ELSE q
    BY DEF Ok
  <2>3. eventRows' = eventRows \cup {ev}
    BY <2>1 DEF InsertEvent
  <2> HIDE DEF r, q
  <2>4. ASSUME NEW p \in 1..MaxPeriods, r.period = p
        PROVE  <<"nudge", p>> \notin eventRows /\ <<"nudge", p>> \in eventRows'
    <3>1. p # 0
      BY ConsoleAssumption
    <3>2. ev \notin eventRows /\ q = p
      BY <2>2, <2>4, <3>1
    <3> QED BY <2>3, <3>2
  <2> QED BY <2>1, <2>4 DEF ReplyFacts
<1>6. CASE ServeNothing(c)
  <2>1. Reply(c, NotFound) /\ NotFound.status # "ok"
    BY <1>6 DEF ServeNothing, NotFound
  <2>2. c.kind = "rotate" => c.ep \notin DOMAIN endpoints'
    BY <1>6 DEF ServeNothing, store
  <2> QED BY <2>1, <2>2 DEF ReplyFacts
<1> QED BY <1>1, <1>2, <1>3, <1>4, <1>5, <1>6 DEF Serve

LEMMA FailuresCount == failures \in Nat /\ ConsoleNext => failures' \in Nat /\ failures <= failures'
<1> SUFFICES ASSUME failures \in Nat, ConsoleNext PROVE failures' \in Nat /\ failures <= failures'
  OBVIOUS
<1>1. CASE Flag \/ PollLists \/ Disarm \/ OpenForm \/ CloseDrawer \/ Hint \/ Dismiss
  <2>1. UNCHANGED failures
    BY <1>1 DEF Flag, PollLists, Disarm, OpenForm, CloseDrawer, Hint, Dismiss, counters
  <2> QED BY <2>1
<1>8. CASE RefetchArrives
  BY <1>8 DEF RefetchArrives
<1>2. CASE Add \/ Nudge \/ Navigate
  BY <1>2 DEF Add, Nudge, Navigate, counters
<1>3. CASE \E d \in DOMAIN deliveries : Attempt(d)
  BY <1>3 DEF Attempt
<1>4. ASSUME NEW ep \in DOMAIN lists.endpoints,
             SetPaused(ep) \/ Rotate(ep) \/ ArmDelete(ep) \/ Delete(ep)
      PROVE  UNCHANGED failures
  BY <1>4 DEF SetPaused, Rotate, Delete, Run, ArmDelete, counters
<1>5. CASE \E d \in DOMAIN lists.deliveries : Resend(d)
  BY <1>5 DEF Resend, Run
<1>6. CASE \E c \in calls : Serve(c) \/ Fail(c)
  BY <1>6 DEF Serve, Fail, counters
<1>7. ASSUME NEW c \in calls,
             RunEnds(c) \/ RotateEnds(c) \/ AddEnds(c) \/ Unheard(c) \/ NudgeEnds(c)
      PROVE  UNCHANGED failures
  BY <1>7 DEF RunEnds, RotateEnds, AddEnds, Unheard, NudgeEnds, Gone, counters
<1> QED BY <1>1, <1>2, <1>3, <1>4, <1>5, <1>6, <1>7, <1>8 DEF ConsoleNext

LEMMA CallsInvNext == CallsInv /\ RowsInv /\ [ConsoleNext]_consoleVars => CallsInv'
<1> SUFFICES ASSUME CallsInv, RowsInv, [ConsoleNext]_consoleVars PROVE CallsInv'
  OBVIOUS
<1>0. failures' \in Nat
  BY FailuresCount DEF CallsInv, consoleVars, counters
<1>1. CASE Sends
  <2>1. PICK kind, ep, ev : Send(kind, ep, ev) /\ UNCHANGED left
    BY <1>1 DEF Sends
  <2> DEFINE new == [no |-> asked + 1, kind |-> kind, ep |-> ep, ev |-> ev,
                     here |-> TRUE, result |-> None]
  <2>2. calls' = calls \cup {new} /\ asked' = asked + 1 /\ left' = left
    BY <2>1 DEF Send
  <2>3. IsCall(new) /\ new.no = asked + 1 /\ new.here
    BY DEF IsCall
  <2> HIDE DEF new
  <2> QED BY <1>0, <2>2, <2>3 DEF CallsInv
<1>2. CASE Replies
  <2>1. PICK c, r : c \in calls /\ Reply(c, r) /\ UNCHANGED <<asked, left>>
    BY <1>2, ReplyOf DEF Replies, ReplyFacts, CallsInv
  <2> DEFINE new == [c EXCEPT !.result = r]
  <2>2. calls' = (calls \ {c}) \cup {new} /\ asked' = asked /\ left' = left
    BY <2>1 DEF Reply
  <2>3. IsCall(new) /\ new.no = c.no /\ new.here = c.here /\ new.kind = c.kind
    BY <2>1, AnsweredCall, ZenonT(40) DEF CallsInv
  <2> HIDE DEF new
  <2> QED BY <1>0, <2>1, <2>2, <2>3 DEF CallsInv
<1>3. CASE Drops
  BY <1>0, <1>3 DEF CallsInv, Drops
<1>4. CASE Navigate
  <2> DEFINE away(c) == [c EXCEPT !.here = FALSE]
  <2>1. calls' = {away(c) : c \in calls}
    BY <1>4 DEF Navigate
  <2>2. asked' = asked /\ left' = (left \/ \E c \in calls : c.kind # "nudge")
    BY <1>4 DEF Navigate, counters
  <2>3. \A c \in calls : IsCall(away(c)) /\ away(c).no = c.no /\ away(c).kind = c.kind
    BY MovedCall DEF CallsInv
  <2> HIDE DEF away
  <2>4. \A d \in calls' : \E c \in calls : d = away(c)
    BY <2>1
  <2>5. \A d \in calls' : IsCall(d) /\ d.no \in 1..asked'
    BY <2>2, <2>3, <2>4 DEF CallsInv
  <2>6. \A d, e \in calls' : d.no = e.no => d = e
    BY <2>3, <2>4 DEF CallsInv
  <2>7. ~left' => \A d \in calls' : d.kind = "nudge"
    BY <2>2, <2>3, <2>4
  <2> QED BY <1>0, <2>2, <2>5, <2>6, <2>7 DEF CallsInv
<1>5. CASE UNCHANGED consoleVars
  BY <1>5 DEF CallsInv, consoleVars, counters
<1> QED BY <1>1, <1>2, <1>3, <1>4, <1>5, CallSteps

---------------------------------------------------------------------------

LEMMA StoreSteps ==
    ASSUME ConsoleNext
    PROVE  \/ Flag \/ \E d \in DOMAIN deliveries : Attempt(d)
           \/ \E c \in calls : Serve(c)
           \/ UNCHANGED store
<1>1. CASE PollLists \/ RefetchArrives \/ Disarm \/ OpenForm \/ CloseDrawer \/ Hint \/ Dismiss
  BY <1>1 DEF PollLists, RefetchArrives, Disarm, OpenForm, CloseDrawer, Hint, Dismiss
<1>2. CASE Add \/ Nudge \/ Navigate
  BY <1>2 DEF Add, Nudge, Navigate
<1>3. ASSUME NEW ep \in DOMAIN lists.endpoints,
             SetPaused(ep) \/ Rotate(ep) \/ ArmDelete(ep) \/ Delete(ep)
      PROVE  UNCHANGED store
  BY <1>3 DEF SetPaused, Rotate, Delete, Run, ArmDelete
<1>4. ASSUME NEW d \in DOMAIN lists.deliveries, Resend(d)
      PROVE  UNCHANGED store
  BY <1>4 DEF Resend, Run
<1>5. ASSUME NEW c \in calls, Fail(c) \/ RunEnds(c) \/ RotateEnds(c) \/ AddEnds(c)
                              \/ Unheard(c) \/ NudgeEnds(c)
      PROVE  UNCHANGED store
  BY <1>5 DEF Fail, RunEnds, RotateEnds, AddEnds, Unheard, NudgeEnds, Gone
<1> QED BY <1>1, <1>2, <1>3, <1>4, <1>5 DEF ConsoleNext

LEMMA RowsInvInsert ==
    ASSUME RowsInv, NEW ev, InsertEvent(ev), UNCHANGED <<endpoints, created, secrets>>
    PROVE  RowsInv'
<1>1. DOMAIN deliveries' \subseteq eventRows' \X DOMAIN endpoints
  <2>1. DOMAIN deliveries \subseteq eventRows' \X DOMAIN endpoints
    BY DEF RowsInv, InsertEvent
  <2>2. CASE ev \in eventRows
    BY <2>1, <2>2 DEF InsertEvent
  <2>3. CASE ev \notin eventRows
    <3>1. deliveries' = With(deliveries, {ev} \X DOMAIN endpoints, "pending")
      BY <2>3 DEF InsertEvent
    <3>2. DOMAIN deliveries' = DOMAIN deliveries \cup ({ev} \X DOMAIN endpoints)
      BY <3>1 DEF With
    <3>3. ev \in eventRows'
      BY DEF InsertEvent
    <3> QED BY <2>1, <3>2, <3>3
  <2> QED BY <2>2, <2>3
<1> QED BY <1>1 DEF RowsInv

LEMMA RowsInvServe ==
    ASSUME RowsInv, NEW c \in calls, Serve(c)
    PROVE  RowsInv'
<1>1. CASE ServeCreate(c)
  <2> DEFINE n == created + 1
             s == secrets + 1
  <2>1. /\ created' = n /\ secrets' = s /\ UNCHANGED <<eventRows, deliveries>>
        /\ endpoints' = With(endpoints, {n}, [paused |-> FALSE, secret |-> s])
    BY <1>1 DEF ServeCreate
  <2>2. n \notin DOMAIN endpoints /\ n \in Nat /\ s \in Nat \ {0}
    BY DEF RowsInv
  <2> HIDE DEF n, s
  <2>3. DOMAIN endpoints' = DOMAIN endpoints \cup {n}
    BY <2>1 DEF With
  <2>4. endpoints'[n] = [paused |-> FALSE, secret |-> s]
    BY <2>1, <2>2 DEF With
  <2>5. \A ep \in DOMAIN endpoints : endpoints'[ep] = endpoints[ep]
    BY <2>1, <2>2 DEF With
  <2>6. endpoints' \in [DOMAIN endpoints' -> Endpoint]
    <3>0. [paused |-> FALSE, secret |-> s] \in Endpoint
      BY <2>2 DEF Endpoint
    <3>1. endpoints' = [ep \in DOMAIN endpoints' |-> endpoints'[ep]]
      BY <2>1 DEF With
    <3>2. \A ep \in DOMAIN endpoints' : endpoints'[ep] \in Endpoint
      BY <2>3, <2>4, <2>5, <3>0 DEF RowsInv
    <3> QED BY <3>1, <3>2
  <2>7. DOMAIN endpoints' \subseteq 1..created'
    BY <2>1, <2>3 DEF RowsInv, n
  <2>8. ASSUME NEW ep \in DOMAIN endpoints'
        PROVE  endpoints'[ep].secret \in 1..secrets'
    <3>1. CASE ep = n
      <4>1. endpoints'[ep].secret = s
        BY <2>4, <3>1
      <4>2. s \in 1..s
        BY <2>2
      <4> QED BY <2>1, <4>1, <4>2
    <3>2. CASE ep \in DOMAIN endpoints
      <4>1. endpoints'[ep].secret = endpoints[ep].secret /\ endpoints[ep].secret \in 1..s
        BY <2>5, <3>2 DEF s, RowsInv
      <4> QED BY <2>1, <4>1
    <3> QED BY <2>3, <3>1, <3>2
  <2>9. ASSUME NEW ep \in DOMAIN endpoints', NEW other \in DOMAIN endpoints',
               endpoints'[ep].secret = endpoints'[other].secret
        PROVE  ep = other
    <3>1. \A e \in DOMAIN endpoints : endpoints[e].secret # s
      BY DEF RowsInv, s
    <3> QED BY <2>3, <2>4, <2>5, <2>9, <3>1 DEF RowsInv
  <2>10. DOMAIN deliveries' \subseteq eventRows' \X DOMAIN endpoints'
    BY <2>1, <2>3 DEF RowsInv
  <2> QED BY <2>1, <2>2, <2>6, <2>7, <2>8, <2>9, <2>10 DEF RowsInv
<1>2. CASE ServeDelete(c)
  <2>1. /\ endpoints' = [ep \in DOMAIN endpoints \ {c.ep} |-> endpoints[ep]]
        /\ UNCHANGED <<created, secrets, eventRows>>
    BY <1>2 DEF ServeDelete, Without
  <2>2. DOMAIN deliveries' = DOMAIN deliveries \ {d \in DOMAIN deliveries : d[2] = c.ep}
    BY <1>2 DEF ServeDelete, Without
  <2>3. DOMAIN deliveries' \subseteq eventRows \X (DOMAIN endpoints \ {c.ep})
    BY <2>2 DEF RowsInv
  <2> QED BY <2>1, <2>3 DEF RowsInv
<1>3. CASE ServePaused(c)
  <2>1. /\ endpoints' = [endpoints EXCEPT ![c.ep].paused = (c.kind = "pause")]
        /\ UNCHANGED <<created, secrets, eventRows, deliveries>>
    BY <1>3 DEF ServePaused
  <2>2. /\ DOMAIN endpoints' = DOMAIN endpoints
        /\ \A ep \in DOMAIN endpoints :
              endpoints'[ep] \in Endpoint /\ endpoints'[ep].secret = endpoints[ep].secret
    <3>1. ASSUME NEW ep \in DOMAIN endpoints
          PROVE  endpoints'[ep] = [endpoints[ep] EXCEPT !.paused = IF ep = c.ep THEN c.kind = "pause"
                                                                  ELSE endpoints[ep].paused]
      <4>1. endpoints[ep] \in Endpoint
        BY DEF RowsInv
      <4>2. CASE ep = c.ep
        BY <2>1, <4>2
      <4>3. CASE ep # c.ep
        BY <2>1, <4>1, <4>3 DEF Endpoint
      <4> QED BY <4>2, <4>3
    <3>2. ASSUME NEW ep \in DOMAIN endpoints
          PROVE  endpoints'[ep] \in Endpoint /\ endpoints'[ep].secret = endpoints[ep].secret
      <4>1. endpoints[ep] \in Endpoint
        BY DEF RowsInv
      <4> QED BY <3>1, <4>1, ZenonT(40) DEF Endpoint
    <3>3. DOMAIN endpoints' = DOMAIN endpoints
      BY <2>1
    <3> QED BY <3>2, <3>3
  <2>3. endpoints' \in [DOMAIN endpoints -> Endpoint]
    BY <2>1, <2>2
  <2> QED BY <2>1, <2>2, <2>3 DEF RowsInv
<1>4. CASE ServeRotate(c)
  <2> DEFINE s == secrets + 1
  <2>1. /\ secrets' = s /\ endpoints' = [endpoints EXCEPT ![c.ep].secret = s]
        /\ UNCHANGED <<created, eventRows, deliveries>>
    BY <1>4 DEF ServeRotate
  <2>2. s \in Nat /\ s \in 1..s /\ \A e \in DOMAIN endpoints : endpoints[e].secret \in 1..s /\ endpoints[e].secret # s
    BY DEF RowsInv
  <2> HIDE DEF s
  <2>3. /\ DOMAIN endpoints' = DOMAIN endpoints
        /\ \A ep \in DOMAIN endpoints : endpoints'[ep] \in Endpoint
        /\ \A ep \in DOMAIN endpoints :
              endpoints'[ep].secret = IF ep = c.ep THEN s ELSE endpoints[ep].secret
    BY <2>1, <2>2 DEF RowsInv, Endpoint
  <2>4. endpoints' \in [DOMAIN endpoints -> Endpoint]
    BY <2>1, <2>3
  <2>5. ASSUME NEW ep \in DOMAIN endpoints, NEW other \in DOMAIN endpoints
        PROVE  /\ endpoints'[ep].secret \in 1..s
               /\ endpoints'[ep].secret = endpoints'[other].secret => ep = other
    BY <2>2, <2>3 DEF RowsInv
  <2> HIDE DEF Endpoint
  <2> QED BY <2>1, <2>2, <2>3, <2>4, <2>5 DEF RowsInv
<1>5. CASE ServeResend(c)
  BY <1>5 DEF ServeResend, RowsInv
<1>6. CASE ServeNudge(c)
  <2>1. InsertEvent(NudgeId(c, latestAttentionPeriod)) /\ UNCHANGED <<endpoints, created, secrets>>
    BY <1>6 DEF ServeNudge
  <2> QED BY <2>1, RowsInvInsert
<1>7. CASE ServeNothing(c)
  BY <1>7 DEF ServeNothing, store, RowsInv
<1> QED BY <1>1, <1>2, <1>3, <1>4, <1>5, <1>6, <1>7 DEF Serve

LEMMA RowsInvNext == RowsInv /\ [ConsoleNext]_consoleVars => RowsInv'
<1> SUFFICES ASSUME RowsInv, [ConsoleNext]_consoleVars PROVE RowsInv'
  OBVIOUS
<1>1. CASE Flag
  <2>1. /\ InsertEvent(<<"attention", Cardinality(Flagged) + 1>>)
        /\ UNCHANGED <<endpoints, created, secrets>>
    BY <1>1 DEF Flag
  <2> QED BY <2>1, RowsInvInsert
<1>2. ASSUME NEW d \in DOMAIN deliveries, Attempt(d)
      PROVE  RowsInv'
  BY <1>2 DEF Attempt, RowsInv
<1>3. ASSUME NEW c \in calls, Serve(c)
      PROVE  RowsInv'
  BY <1>3, RowsInvServe
<1>4. CASE UNCHANGED store
  BY <1>4 DEF store, RowsInv
<1>5. CASE UNCHANGED consoleVars
  BY <1>4, <1>5 DEF consoleVars
<1> QED BY <1>1, <1>2, <1>3, <1>4, <1>5, StoreSteps

---------------------------------------------------------------------------

\* What matters to the buttons stays.
Quiet == UNCHANGED <<busy, screen, slow>> /\ Runs' \subseteq Runs

LEMMA BusyInvQuiet == BusyInv /\ Quiet => BusyInv'
BY DEF BusyInv, Quiet

LEMMA DroppedRuns ==
    ASSUME calls' \subseteq calls
    PROVE  Runs' \subseteq Runs
BY DEF Runs

\* A step of a refetch that leaves the requests alone, or ends the one that awaited it.
LEMMA BusyInvRefetch ==
    ASSUME BusyInv, NEW run \in BOOLEAN, NEW otherwise \in BOOLEAN, Refetch(run, otherwise),
           UNCHANGED screen, Runs' \subseteq Runs,
           otherwise => busy,
           Runs' # {} => otherwise /\ ~run,
           slow # None => (slow.run => otherwise),
           run => otherwise /\ (slow # None => ~slow.run)
    PROVE  BusyInv'
<1>1. CASE UNCHANGED slow /\ busy' = (otherwise /\ ~run)
  BY <1>1 DEF BusyInv
<1>2. CASE slow = None /\ slow' = [lists |-> Listed, run |-> run] /\ busy' = otherwise
  BY <1>2 DEF BusyInv
<1> QED BY <1>1, <1>2 DEF Refetch

LEMMA BusyInvNext == CallsInv /\ RowsInv /\ BusyInv /\ [ConsoleNext]_consoleVars => BusyInv'
<1> SUFFICES ASSUME CallsInv, RowsInv, BusyInv, [ConsoleNext]_consoleVars PROVE BusyInv'
  OBVIOUS
<1>1. CASE Flag \/ Disarm \/ OpenForm \/ CloseDrawer \/ Hint \/ Dismiss
  <2>1. UNCHANGED <<busy, screen, slow, calls>>
    BY <1>1 DEF Flag, Disarm, OpenForm, CloseDrawer, Hint, Dismiss, webhooks
  <2> QED BY <2>1, BusyInvQuiet DEF Quiet, Runs
<1>2. ASSUME NEW d \in DOMAIN deliveries, Attempt(d)
      PROVE  BusyInv'
  <2>1. UNCHANGED <<busy, screen, slow, calls>>
    BY <1>2 DEF Attempt, webhooks
  <2> QED BY <2>1, BusyInvQuiet DEF Quiet, Runs
<1>3. CASE PollLists
  <2>1. UNCHANGED <<screen, calls>> /\ Refetch(FALSE, busy)
    BY <1>3 DEF PollLists
  <2>2. Runs' = Runs
    BY <2>1 DEF Runs
  <2> QED BY <2>1, <2>2, BusyInvRefetch DEF BusyInv
<1>4. CASE RefetchArrives
  <2>1. slow # None /\ slow' = None /\ busy' = (busy /\ ~slow.run) /\ UNCHANGED <<screen, calls>>
    BY <1>4 DEF RefetchArrives
  <2>2. Runs' = Runs
    BY <2>1 DEF Runs
  <2> QED BY <2>1, <2>2 DEF BusyInv
<1>5. ASSUME NEW kind, NEW ep, NEW ev, Run(kind, ep, ev), OnPage, Enabled
      PROVE  BusyInv'
  <2> DEFINE new == [no |-> asked + 1, kind |-> kind, ep |-> ep, ev |-> ev,
                     here |-> TRUE, result |-> None]
  <2>1. calls' = calls \cup {new}
    BY <1>5 DEF Run, Send
  <2>2. busy' = TRUE /\ UNCHANGED <<slow, screen>>
    BY <1>5 DEF Run
  <2>3. screen = "webhooks" /\ ~busy
    BY <1>5 DEF OnPage, Enabled
  <2>4. Runs = {} /\ (slow # None => ~slow.run)
    BY <2>3 DEF BusyInv
  <2> HIDE DEF new
  <2>5. Runs' \subseteq Runs \cup {new}
    BY <2>1 DEF Runs
  <2> QED BY <2>2, <2>3, <2>4, <2>5 DEF BusyInv
<1>6. ASSUME NEW ep \in DOMAIN lists.endpoints,
             SetPaused(ep) \/ Rotate(ep) \/ ArmDelete(ep) \/ Delete(ep)
      PROVE  BusyInv'
  <2>1. CASE ArmDelete(ep)
    <3>1. UNCHANGED <<busy, screen, slow, calls>>
      BY <2>1 DEF ArmDelete
    <3> QED BY <3>1, BusyInvQuiet DEF Quiet, Runs
  <2>2. CASE SetPaused(ep)
    BY <2>2, <1>5 DEF SetPaused
  <2>3. CASE Rotate(ep)
    BY <2>3, <1>5 DEF Rotate
  <2>4. CASE Delete(ep)
    BY <2>4, <1>5 DEF Delete
  <2> QED BY <1>6, <2>1, <2>2, <2>3, <2>4
<1>7. ASSUME NEW d \in DOMAIN lists.deliveries, Resend(d)
      PROVE  BusyInv'
  BY <1>7, <1>5 DEF Resend
<1>8. ASSUME NEW kind, kind = "create" \/ kind = "nudge", Send(kind, None, None),
             UNCHANGED <<busy, screen, slow>>
      PROVE  BusyInv'
  <2> DEFINE new == [no |-> asked + 1, kind |-> kind, ep |-> None, ev |-> None,
                     here |-> TRUE, result |-> None]
  <2>1. calls' = calls \cup {new}
    BY <1>8 DEF Send
  <2>2. new.kind = kind
    OBVIOUS
  <2> HIDE DEF new
  <2>3. Runs' \subseteq Runs
    BY <1>8, <2>1, <2>2 DEF Runs
  <2> QED BY <1>8, <2>3, BusyInvQuiet DEF Quiet
<1>9. CASE Add
  <2>1. Send("create", None, None) /\ UNCHANGED <<busy, screen, slow>>
    BY <1>9 DEF Add
  <2> QED BY <2>1, <1>8
<1>10. CASE Nudge
  <2>1. Send("nudge", None, None) /\ UNCHANGED <<busy, screen, slow>>
    BY <1>10 DEF Nudge, webhooks
  <2> QED BY <2>1, <1>8
<1>11. CASE Navigate
  <2>1. /\ calls' = {[c EXCEPT !.here = FALSE] : c \in calls}
        /\ slow' = None /\ busy' = FALSE
    BY <1>11 DEF Navigate
  <2>2. \A c \in calls : [c EXCEPT !.here = FALSE].here = FALSE
    BY MovedCall DEF CallsInv
  <2>3. Runs' = {}
    BY <2>1, <2>2 DEF Runs
  <2> QED BY <2>1, <2>3 DEF BusyInv
<1>12. ASSUME NEW c \in calls, NEW r, Reply(c, r), UNCHANGED <<busy, screen, slow>>
       PROVE  BusyInv'
  <2> DEFINE new == [c EXCEPT !.result = r]
  <2>1. calls' = (calls \ {c}) \cup {new}
    BY <1>12 DEF Reply
  <2>2. new.kind = c.kind /\ new.here = c.here
    BY AnsweredCall DEF CallsInv
  <2> HIDE DEF new
  <2>3. \A d \in Runs' : d \in Runs \ {c} \/ (d = new /\ c \in Runs)
    BY <2>1, <2>2 DEF Runs
  <2>4. \A d, e \in Runs' : d = e
    BY <2>3 DEF BusyInv
  <2>5. Runs' # {} => Runs # {}
    BY <2>3
  <2> QED BY <1>12, <2>4, <2>5 DEF BusyInv
<1>13. ASSUME NEW c \in calls, Serve(c) \/ Fail(c)
       PROVE  BusyInv'
  <2>1. UNCHANGED <<busy, screen, slow>>
    BY <1>13 DEF Serve, Fail, webhooks
  <2>2. \E r : Reply(c, r)
    BY <1>13, ReplyOf DEF ReplyFacts, CallsInv
  <2> QED BY <2>1, <2>2, <1>12
<1>14. ASSUME NEW c \in calls, RunEnds(c) \/ RotateEnds(c)
       PROVE  BusyInv'
  <2>1. calls' = calls \ {c} /\ UNCHANGED screen
    BY <1>14 DEF RunEnds, RotateEnds, Gone
  <2>2. c \in Runs
    BY <1>14 DEF RunEnds, RotateEnds, Runs
  <2>3. Runs' = {}
    BY <2>1, <2>2 DEF Runs, BusyInv
  <2>4. busy /\ (slow # None => ~slow.run)
    BY <2>2 DEF BusyInv
  <2>5. CASE Refetch(TRUE, busy)
    BY <2>1, <2>3, <2>4, <2>5, BusyInvRefetch DEF BusyInv
  <2>6. CASE Refetch(FALSE, FALSE)
    BY <2>1, <2>3, <2>4, <2>6, BusyInvRefetch DEF BusyInv
  <2>7. CASE busy' = FALSE /\ UNCHANGED slow
    BY <2>1, <2>3, <2>4, <2>7 DEF BusyInv
  <2> QED BY <1>14, <2>5, <2>6, <2>7 DEF RunEnds, RotateEnds
<1>15. ASSUME NEW c \in calls, AddEnds(c)
       PROVE  BusyInv'
  <2>1. calls' = calls \ {c} /\ UNCHANGED screen
    BY <1>15 DEF AddEnds, Gone
  <2>2. Runs' \subseteq Runs
    BY <2>1, DroppedRuns
  <2>3. CASE Refetch(FALSE, busy)
    BY <2>1, <2>2, <2>3, BusyInvRefetch DEF BusyInv
  <2>4. CASE UNCHANGED <<slow, busy>>
    BY <2>1, <2>2, <2>4, BusyInvQuiet DEF Quiet
  <2> QED BY <1>15, <2>3, <2>4 DEF AddEnds
<1>16. ASSUME NEW c \in calls, Unheard(c) \/ NudgeEnds(c)
       PROVE  BusyInv'
  <2>1. calls' = calls \ {c} /\ UNCHANGED <<busy, screen, slow>>
    BY <1>16 DEF Unheard, NudgeEnds, Gone, webhooks
  <2> QED BY <2>1, DroppedRuns, BusyInvQuiet DEF Quiet
<1>17. CASE UNCHANGED consoleVars
  <2>1. UNCHANGED <<busy, screen, slow, calls>>
    BY <1>17 DEF consoleVars, webhooks
  <2> QED BY <2>1, BusyInvQuiet DEF Quiet, Runs
<1> QED BY <1>1, <1>2, <1>3, <1>4, <1>6, <1>7, <1>9, <1>10, <1>11, <1>13, <1>14, <1>15,
           <1>16, <1>17 DEF ConsoleNext


---------------------------------------------------------------------------

AddForm(n) == [kind |-> "add", pending |-> n]

\* Where what is on the page comes from.
ListSources == lists' \in {lists, NoLists, Listed} \/ (slow # None /\ lists' = slow.lists)
SlowSources ==
    \/ slow' \in {slow, None}
    \/ UNCHANGED store /\ \E run : slow' = [lists |-> Listed, run |-> run]
DrawerSources ==
    \/ drawer' \in {drawer, None}
    \/ \E n : drawer' = AddForm(n)
    \/ \E c \in calls : /\ c.kind \in {"create", "rotate"} /\ c.result # None
                        /\ c.result.status = "ok" /\ drawer' = Reveal(c) /\ UNCHANGED store

Sources == ListSources /\ SlowSources /\ DrawerSources

LEMMA AddFormSource == \A n : drawer' = AddForm(n) => DrawerSources
BY DEF DrawerSources

LEMMA RefetchSources ==
    ASSUME NEW run, NEW otherwise, Refetch(run, otherwise), UNCHANGED store
    PROVE  ListSources /\ SlowSources
BY DEF Refetch, ListSources, SlowSources

LEMMA PageSteps ==
    ASSUME ConsoleNext, NamesInv
    PROVE  Sources
<1> USE DEF Sources
<1>0. UNCHANGED <<lists, slow, drawer>> => Sources
  BY DEF ListSources, SlowSources, DrawerSources
<1>1. CASE Flag \/ Disarm \/ Hint \/ Dismiss \/ Nudge
  BY <1>0, <1>1 DEF Flag, Disarm, Hint, Dismiss, Nudge, webhooks
<1>2. ASSUME NEW d \in DOMAIN deliveries, Attempt(d) PROVE Sources
  BY <1>0, <1>2 DEF Attempt, webhooks
<1>3. CASE PollLists
  BY <1>3, RefetchSources DEF PollLists, DrawerSources
<1>4. CASE RefetchArrives
  BY <1>4 DEF RefetchArrives, ListSources, SlowSources, DrawerSources
<1>5. ASSUME NEW ep \in DOMAIN lists.endpoints,
             SetPaused(ep) \/ Rotate(ep) \/ ArmDelete(ep) \/ Delete(ep)
      PROVE  Sources
  BY <1>0, <1>5 DEF SetPaused, Rotate, ArmDelete, Delete, Run
<1>6. ASSUME NEW d \in DOMAIN lists.deliveries, Resend(d) PROVE Sources
  BY <1>0, <1>6 DEF Resend, Run
<1>7. CASE OpenForm \/ CloseDrawer
  <2>1. UNCHANGED <<lists, slow>>
    BY <1>7 DEF OpenForm, CloseDrawer
  <2>2. drawer' = None \/ drawer' = AddForm(0)
    BY <1>7 DEF OpenForm, CloseDrawer, AddForm
  <2>3. DrawerSources
    BY <2>2, AddFormSource DEF DrawerSources
  <2> QED BY <2>1, <2>3 DEF ListSources, SlowSources
<1>8. CASE Add
  <2>1. UNCHANGED <<lists, slow>> /\ drawer' = [drawer EXCEPT !.pending = asked + 1]
    BY <1>8 DEF Add
  <2>2. drawer = [kind |-> "add", pending |-> drawer.pending]
    BY <1>8 DEF Add, NamesInv
  <2>3. drawer' = AddForm(asked + 1)
    BY <2>1, <2>2 DEF AddForm
  <2> QED BY <2>1, <2>3, AddFormSource DEF ListSources, SlowSources
<1>9. CASE Navigate
  BY <1>9 DEF Navigate, ListSources, SlowSources, DrawerSources
<1>10. ASSUME NEW c \in calls, Serve(c) \/ Fail(c) \/ Unheard(c) \/ NudgeEnds(c) PROVE Sources
  BY <1>0, <1>10 DEF Serve, Fail, Unheard, NudgeEnds, webhooks
<1>11. ASSUME NEW c \in calls, RunEnds(c) PROVE Sources
  <2>1. ListSources /\ SlowSources
    BY <1>11, RefetchSources DEF RunEnds, Gone, ListSources, SlowSources
  <2> QED BY <2>1, <1>11 DEF RunEnds, DrawerSources
<1>12. ASSUME NEW c \in calls, RotateEnds(c) \/ AddEnds(c) PROVE Sources
  <2>1. ListSources /\ SlowSources
    BY <1>12, RefetchSources DEF RotateEnds, AddEnds, Gone, ListSources, SlowSources
  <2>2. CASE c.result.status = "ok"
    <3>1. c.kind \in {"create", "rotate"} /\ c.result # None /\ drawer' = Reveal(c) /\ UNCHANGED store
      BY <1>12, <2>2 DEF RotateEnds, AddEnds, Gone
    <3>2. DrawerSources
      BY <2>2, <3>1 DEF DrawerSources
    <3> QED BY <2>1, <3>2
  <2>3. CASE c.result.status # "ok" /\ drawer' # drawer
    <3>1. drawer # None /\ drawer.kind = "add" /\ drawer' = [drawer EXCEPT !.pending = 0]
      BY <1>12, <2>3 DEF RotateEnds, AddEnds
    <3>2. drawer = [kind |-> "add", pending |-> drawer.pending]
      BY <3>1 DEF NamesInv
    <3>3. drawer' = AddForm(0)
      BY <3>1, <3>2 DEF AddForm
    <3> QED BY <2>1, <3>3, AddFormSource
  <2> QED BY <2>1, <2>2, <2>3 DEF DrawerSources
<1> QED BY <1>1, <1>2, <1>3, <1>4, <1>5, <1>6, <1>7, <1>8, <1>9, <1>10, <1>11, <1>12
        DEF ConsoleNext


LEMMA CreatedGrows ==
    ASSUME RowsInv, ConsoleNext
    PROVE  created' \in Nat /\ created <= created'
<1>1. CASE Flag
  BY <1>1 DEF Flag, RowsInv
<1>2. ASSUME NEW d \in DOMAIN deliveries, Attempt(d)
      PROVE  UNCHANGED created
  BY <1>2 DEF Attempt
<1>3. ASSUME NEW c \in calls, Serve(c)
      PROVE  created' \in {created, created + 1}
  BY <1>3 DEF Serve, ServeCreate, ServeDelete, ServePaused, ServeRotate, ServeResend, ServeNudge,
              ServeNothing, store
<1>4. CASE UNCHANGED store
  BY <1>4 DEF store, RowsInv
<1> QED BY <1>1, <1>2, <1>3, <1>4, StoreSteps DEF RowsInv

LEMMA NamesInvNext ==
    CallsInv /\ RowsInv /\ NamesInv /\ [ConsoleNext]_consoleVars => NamesInv'
<1> SUFFICES ASSUME CallsInv, RowsInv, NamesInv, [ConsoleNext]_consoleVars PROVE NamesInv'
  OBVIOUS
<1>1. CASE UNCHANGED consoleVars
  BY <1>1 DEF consoleVars, store, webhooks, NamesInv
<1>2. CASE ConsoleNext
  <2>1. 1..created \subseteq 1..created'
    BY <1>2, CreatedGrows DEF RowsInv
  <2>2. DOMAIN endpoints \subseteq 1..created'
    BY <2>1 DEF RowsInv
  <2>3. Listed.endpoints = endpoints /\ DOMAIN NoLists.endpoints = {}
    BY DEF Listed, NoLists, Empty
  <2>4. DOMAIN lists'.endpoints \subseteq 1..created'
    BY <1>2, <2>1, <2>2, <2>3, PageSteps DEF Sources, ListSources, NamesInv
  <2>5. ASSUME slow' # None
        PROVE  DOMAIN slow'.lists.endpoints \subseteq 1..created'
    <3>1. CASE slow' = slow
      BY <2>1, <2>5, <3>1 DEF NamesInv
    <3>2. ASSUME NEW run, slow' = [lists |-> Listed, run |-> run]
          PROVE  slow'.lists.endpoints = endpoints
      BY <2>3, <3>2
    <3> QED BY <1>2, <2>2, <2>5, <3>1, <3>2, PageSteps DEF Sources, SlowSources
  <2>6. ASSUME drawer' # None, drawer'.kind = "secret"
        PROVE  drawer'.ep \in 1..created'
    <3>1. CASE drawer' = drawer
      BY <2>1, <2>6, <3>1 DEF NamesInv
    <3>2. ASSUME NEW c \in calls, c.kind \in {"create", "rotate"}, c.result # None,
                 c.result.status = "ok", drawer' = Reveal(c)
          PROVE  drawer'.ep \in 1..created'
      <4>1. drawer'.ep = c.result.ep
        BY <3>2 DEF Reveal
      <4> QED BY <2>1, <3>2, <4>1 DEF NamesInv
    <3>3. ASSUME NEW n, drawer' = AddForm(n) PROVE FALSE
      BY <2>6, <3>3 DEF AddForm
    <3> QED BY <1>2, <2>6, <3>1, <3>2, <3>3, PageSteps DEF Sources, DrawerSources
  <2>7. ASSUME drawer' # None, drawer'.kind = "add"
        PROVE  drawer' = [kind |-> "add", pending |-> drawer'.pending]
    <3>1. CASE drawer' = drawer
      BY <2>7, <3>1 DEF NamesInv
    <3>2. ASSUME NEW c \in calls, drawer' = Reveal(c) PROVE FALSE
      BY <2>7, <3>2 DEF Reveal
    <3>3. ASSUME NEW n, drawer' = AddForm(n)
          PROVE  drawer' = [kind |-> "add", pending |-> drawer'.pending]
      BY <3>3 DEF AddForm
    <3> QED BY <1>2, <2>7, <3>1, <3>2, <3>3, PageSteps DEF Sources, DrawerSources
  <2> DEFINE Named(c, n) ==
        /\ c.kind = "rotate" => c.ep \in 1..n
        /\ c.kind \in {"create", "rotate"} /\ c.result # None /\ c.result.status = "ok"
              => c.result.ep \in 1..n
  <2>8. \A c \in calls : Named(c, created')
    BY <2>1 DEF NamesInv
  <2>9. \A c \in calls' : Named(c, created')
    <3>1. CASE Drops
      BY <2>8, <3>1 DEF Drops
    <3>2. CASE Sends
      <4>1. PICK kind, ep, ev : Send(kind, ep, ev) /\ (kind = "rotate" => ep \in DOMAIN lists.endpoints)
        BY <3>2 DEF Sends
      <4> DEFINE new == [no |-> asked + 1, kind |-> kind, ep |-> ep, ev |-> ev,
                         here |-> TRUE, result |-> None]
      <4>2. calls' = calls \cup {new}
        BY <4>1 DEF Send
      <4>3. new.result = None /\ new.kind = kind /\ new.ep = ep
        OBVIOUS
      <4> HIDE DEF new
      <4>4. Named(new, created')
        BY <2>1, <4>1, <4>3 DEF NamesInv
      <4> QED BY <2>8, <4>2, <4>4
    <3>3. CASE Replies
      <4>1. PICK c, r : c \in calls /\ ReplyFacts(c, r)
        BY <3>3, ReplyOf DEF Replies, CallsInv
      <4> DEFINE new == [c EXCEPT !.result = r]
      <4>2. calls' = (calls \ {c}) \cup {new}
        BY <4>1 DEF ReplyFacts, Reply
      <4>3. new.result = r /\ new.kind = c.kind /\ new.ep = c.ep
        BY AnsweredCall DEF CallsInv
      <4> HIDE DEF new
      <4>4. Named(new, created')
        BY <2>8, <4>1, <4>3 DEF ReplyFacts
      <4> QED BY <2>8, <4>2, <4>4
    <3>4. CASE Navigate
      <4> DEFINE away(c) == [c EXCEPT !.here = FALSE]
      <4>1. calls' = {away(c) : c \in calls}
        BY <3>4 DEF Navigate
      <4>2. \A c \in calls : away(c).kind = c.kind /\ away(c).ep = c.ep /\ away(c).result = c.result
        BY MovedCall DEF CallsInv
      <4> HIDE DEF away
      <4>3. \A c \in calls : Named(away(c), created')
        BY <2>8, <4>2
      <4> QED BY <4>1, <4>3
    <3> QED BY <1>2, <3>1, <3>2, <3>3, <3>4, CallSteps
  <2> QED BY <2>4, <2>5, <2>6, <2>7, <2>9 DEF NamesInv
<1> QED BY <1>1, <1>2


---------------------------------------------------------------------------

\* An endpoint keeps its secret but for a rotation, and everything but for an action of run().
LEMMA SecretsStay ==
    ASSUME RowsInv, NamesInv, ConsoleNext, NEW ep \in 1..created, ep \in DOMAIN endpoints'
    PROVE  /\ ep \in DOMAIN endpoints
           /\ \/ endpoints'[ep].secret = endpoints[ep].secret
              \/ \E d \in calls : Serve(d) /\ d.kind = "rotate" /\ d.ep = ep
<1>1. CASE endpoints' = endpoints
  BY <1>1
<1>2. ASSUME NEW c \in calls, Serve(c)
      PROVE  /\ ep \in DOMAIN endpoints
             /\ endpoints'[ep].secret = endpoints[ep].secret \/ (c.kind = "rotate" /\ c.ep = ep)
  <2>1. CASE ServeCreate(c)
    <3>1. /\ endpoints' = With(endpoints, {created + 1}, [paused |-> FALSE, secret |-> secrets + 1])
          /\ ep # created + 1
      BY <2>1 DEF ServeCreate, RowsInv
    <3> QED BY <3>1 DEF With
  <2>2. CASE ServeDelete(c)
    BY <2>2 DEF ServeDelete, Without
  <2>3. CASE ServePaused(c)
    <3>1. endpoints' = [endpoints EXCEPT ![c.ep].paused = (c.kind = "pause")]
      BY <2>3 DEF ServePaused
    <3>2. ep \in DOMAIN endpoints
      BY <3>1
    <3>3. endpoints[ep] \in Endpoint
      BY <3>2 DEF RowsInv
    <3> QED BY <3>1, <3>2, <3>3 DEF Endpoint
  <2>4. CASE ServeRotate(c)
    <3>1. endpoints' = [endpoints EXCEPT ![c.ep].secret = secrets + 1] /\ c.kind = "rotate"
      BY <2>4 DEF ServeRotate
    <3> QED BY <3>1
  <2>5. CASE ServeResend(c) \/ ServeNudge(c) \/ ServeNothing(c)
    <3>1. endpoints' = endpoints
      BY <2>5 DEF ServeResend, ServeNudge, ServeNothing, store
    <3> QED BY <3>1
  <2> QED BY <1>2, <2>1, <2>2, <2>3, <2>4, <2>5 DEF Serve
<1>3. CASE Flag \/ \E d \in DOMAIN deliveries : Attempt(d)
  BY <1>1, <1>3 DEF Flag, Attempt
<1>4. CASE UNCHANGED store
  BY <1>1, <1>4 DEF store
<1> QED BY <1>2, <1>3, <1>4, StoreSteps

LEMMA RowsStay ==
    ASSUME RowsInv, ConsoleNext, NEW ep \in DOMAIN endpoints
    PROVE  \/ ep \in DOMAIN endpoints' /\ endpoints'[ep] = endpoints[ep]
           \/ \E d \in calls : d.kind \in {"delete", "pause", "resume", "rotate"}
<1>1. CASE endpoints' = endpoints
  BY <1>1
<1>2. ASSUME NEW c \in calls, Serve(c)
      PROVE  \/ ep \in DOMAIN endpoints' /\ endpoints'[ep] = endpoints[ep]
             \/ c.kind \in {"delete", "pause", "resume", "rotate"}
  <2>1. CASE ServeCreate(c)
    <3>1. /\ endpoints' = With(endpoints, {created + 1}, [paused |-> FALSE, secret |-> secrets + 1])
          /\ ep # created + 1
      BY <2>1 DEF ServeCreate, RowsInv
    <3> QED BY <3>1 DEF With
  <2>2. CASE ServeDelete(c) \/ ServePaused(c) \/ ServeRotate(c)
    BY <2>2 DEF ServeDelete, ServePaused, ServeRotate
  <2>3. CASE ServeResend(c) \/ ServeNudge(c) \/ ServeNothing(c)
    <3>1. endpoints' = endpoints
      BY <2>3 DEF ServeResend, ServeNudge, ServeNothing, store
    <3> QED BY <3>1
  <2> QED BY <1>2, <2>1, <2>2, <2>3 DEF Serve
<1>3. CASE Flag \/ \E d \in DOMAIN deliveries : Attempt(d)
  BY <1>1, <1>3 DEF Flag, Attempt
<1>4. CASE UNCHANGED store
  BY <1>1, <1>4 DEF store
<1> QED BY <1>2, <1>3, <1>4, StoreSteps

LEMMA LeftForGood == ConsoleNext /\ ~left' => ~left
BY CallSteps DEF Sends, Replies, Drops, Navigate

\* While the console was never left, what is asked through run() is asked one at a time.
LEMMA OneRun ==
    ASSUME CallsInv, BusyInv, ~left, NEW c \in calls, NEW d \in calls,
           c.kind \in {"delete", "pause", "resume", "resend", "rotate"},
           d.kind \in {"delete", "pause", "resume", "resend", "rotate"}
    PROVE  c = d
BY DEF CallsInv, BusyInv, Runs

LEMMA AnswersInvNext ==
    CallsInv /\ RowsInv /\ NamesInv /\ BusyInv /\ AnswersInv /\ [ConsoleNext]_consoleVars
        => AnswersInv'
<1> SUFFICES ASSUME CallsInv, RowsInv, NamesInv, BusyInv, AnswersInv, [ConsoleNext]_consoleVars
             PROVE  AnswersInv'
  OBVIOUS
<1>1. CASE UNCHANGED consoleVars
  <2>1. UNCHANGED <<calls, left, endpoints, failures>>
    BY <1>1 DEF consoleVars, store, counters
  <2> QED BY <2>1 DEF AnswersInv
<1>2. CASE ConsoleNext
  <2> DEFINE Right(c) ==
        c.kind = "rotate" /\ c.result # None =>
            /\ c.result.status = "ok" => c.result.ep = c.ep
            /\ c.result.status = "ok" /\ ~left' /\ c.ep \in DOMAIN endpoints'
                  => c.result.secret = endpoints'[c.ep].secret
            /\ c.result.status # "ok" => failures' # 0 \/ c.ep \notin DOMAIN endpoints'
  <2>0. failures # 0 => failures' # 0
    BY <1>2, FailuresCount DEF CallsInv
  <2>1. ASSUME NEW c \in calls
        PROVE  Right(c)
    <3>1. SUFFICES ASSUME c.kind = "rotate", c.result # None PROVE Right(c)
      OBVIOUS
    <3>2. c.ep \in 1..created
      BY <3>1 DEF NamesInv
    <3>3. c.result.status = "ok" => c.result.ep = c.ep
      BY <3>1 DEF AnswersInv
    <3>4. c.result.status # "ok" => failures' # 0 \/ c.ep \notin DOMAIN endpoints'
      BY <1>2, <2>0, <3>1, <3>2, SecretsStay DEF AnswersInv
    <3>5. ASSUME c.result.status = "ok", ~left', c.ep \in DOMAIN endpoints'
          PROVE  c.result.secret = endpoints'[c.ep].secret
      <4>1. ~left
        BY <1>2, <3>5, LeftForGood
      <4>2. ASSUME NEW d \in calls, Serve(d), d.kind = "rotate" PROVE FALSE
        <5>1. c = d
          BY <3>1, <4>1, <4>2, OneRun
        <5> QED BY <3>1, <4>2, <5>1 DEF Serve
      <4>3. c.ep \in DOMAIN endpoints /\ endpoints'[c.ep].secret = endpoints[c.ep].secret
        BY <1>2, <3>2, <3>5, <4>2, SecretsStay
      <4> QED BY <3>1, <3>5, <4>1, <4>3 DEF AnswersInv
    <3> QED BY <3>3, <3>4, <3>5
  <2>2. ASSUME NEW c \in calls' PROVE Right(c)
    <3>1. CASE Drops
      BY <2>1, <3>1 DEF Drops
    <3>2. CASE Sends
      <4>1. PICK kind, ep, ev : Send(kind, ep, ev)
        BY <3>2 DEF Sends
      <4> DEFINE new == [no |-> asked + 1, kind |-> kind, ep |-> ep, ev |-> ev,
                         here |-> TRUE, result |-> None]
      <4>2. calls' = calls \cup {new}
        BY <4>1 DEF Send
      <4>3. new.result = None
        OBVIOUS
      <4> HIDE DEF new
      <4> QED BY <2>1, <4>2, <4>3
    <3>3. CASE Replies
      <4>1. PICK e, r : e \in calls /\ ReplyFacts(e, r)
        BY <3>3, ReplyOf DEF Replies, CallsInv
      <4> DEFINE new == [e EXCEPT !.result = r]
      <4>2. calls' = (calls \ {e}) \cup {new}
        BY <4>1 DEF ReplyFacts, Reply
      <4>3. new.result = r /\ new.kind = e.kind /\ new.ep = e.ep
        BY AnsweredCall DEF CallsInv
      <4> HIDE DEF new
      <4>4. Right(new)
        <5>1. e.kind = "rotate" => e.ep \in 1..created
          BY <4>1 DEF NamesInv
        <5>2. e.kind = "rotate" /\ e.ep \in DOMAIN endpoints' => e.ep \in DOMAIN endpoints
          BY <1>2, <5>1, SecretsStay
        <5> QED BY <4>1, <4>3, <5>2 DEF ReplyFacts
      <4> QED BY <2>1, <4>2, <4>4
    <3>4. CASE Navigate
      <4> DEFINE away(d) == [d EXCEPT !.here = FALSE]
      <4>1. calls' = {away(d) : d \in calls}
        BY <3>4 DEF Navigate
      <4>2. \A d \in calls : away(d).kind = d.kind /\ away(d).ep = d.ep /\ away(d).result = d.result
        BY MovedCall DEF CallsInv
      <4> HIDE DEF away
      <4>3. \A d \in calls : Right(away(d))
        BY <2>1, <4>2
      <4> QED BY <4>1, <4>3
    <3> QED BY <1>2, <3>1, <3>2, <3>3, <3>4, CallSteps
  <2> QED BY <2>2 DEF AnswersInv
<1> QED BY <1>1, <1>2


LEMMA ListedInvNext ==
    CallsInv /\ RowsInv /\ NamesInv /\ BusyInv /\ ListedInv /\ [ConsoleNext]_consoleVars
        => ListedInv'
<1> SUFFICES ASSUME CallsInv, RowsInv, NamesInv, BusyInv, ListedInv, [ConsoleNext]_consoleVars
             PROVE  ListedInv'
  OBVIOUS
<1>1. CASE UNCHANGED consoleVars
  <2>1. UNCHANGED <<left, slow, endpoints>>
    BY <1>1 DEF consoleVars, store
  <2> QED BY <2>1 DEF ListedInv
<1>2. CASE ConsoleNext
  <2>1. SUFFICES ASSUME ~left', slow' # None, slow'.run
                 PROVE  LET told == slow'.lists.endpoints IN
                        /\ DOMAIN told \subseteq DOMAIN endpoints'
                        /\ told = [ep \in DOMAIN told |-> endpoints'[ep]]
    BY DEF ListedInv
  <2>2. CASE slow' = slow
    <3> DEFINE told == slow.lists.endpoints
    <3>1. ~left
      BY <1>2, <2>1, LeftForGood
    <3>2. DOMAIN told \subseteq DOMAIN endpoints /\ told = [ep \in DOMAIN told |-> endpoints[ep]]
      BY <2>1, <2>2, <3>1 DEF ListedInv
    <3>3. \A d \in calls : d.kind \notin {"delete", "pause", "resume", "rotate"}
      BY <2>1, <2>2, <3>1 DEF BusyInv, CallsInv, Runs
    <3>4. \A ep \in DOMAIN endpoints : ep \in DOMAIN endpoints' /\ endpoints'[ep] = endpoints[ep]
      BY <1>2, <3>3, RowsStay
    <3> QED BY <2>2, <3>2, <3>4
  <2>3. ASSUME NEW run, slow' = [lists |-> Listed, run |-> run], UNCHANGED store
        PROVE  slow'.lists.endpoints = endpoints /\ endpoints' = endpoints
    BY <2>3 DEF Listed, store
  <2>4. endpoints = [ep \in DOMAIN endpoints |-> endpoints[ep]]
    BY DEF RowsInv
  <2> QED BY <1>2, <2>1, <2>2, <2>3, <2>4, PageSteps DEF Sources, SlowSources
<1> QED BY <1>1, <1>2

\* A rotation leaves the requests by its end, heard or not.
LEMMA RotationEnds ==
    ASSUME CallsInv, ConsoleNext, NEW c \in calls, c.kind = "rotate",
           \A d \in calls' : d.kind = "rotate" => d.ep # c.ep
    PROVE  Navigate \/ RotateEnds(c) \/ Unheard(c)
<1>1. ASSUME calls \subseteq calls' PROVE FALSE
  BY <1>1
<1>2. CASE Flag \/ PollLists \/ RefetchArrives \/ Disarm \/ OpenForm \/ CloseDrawer \/ Hint \/ Dismiss
  BY <1>1, <1>2 DEF Flag, PollLists, RefetchArrives, Disarm, OpenForm, CloseDrawer, Hint, Dismiss
<1>3. CASE Add \/ Nudge
  BY <1>1, <1>3 DEF Add, Nudge, Send
<1>4. CASE \E d \in DOMAIN deliveries : Attempt(d)
  BY <1>1, <1>4 DEF Attempt
<1>5. CASE \E ep \in DOMAIN lists.endpoints :
              SetPaused(ep) \/ Rotate(ep) \/ ArmDelete(ep) \/ Delete(ep)
  BY <1>1, <1>5 DEF SetPaused, Rotate, ArmDelete, Delete, Run, Send
<1>6. CASE \E d \in DOMAIN lists.deliveries : Resend(d)
  BY <1>1, <1>6 DEF Resend, Run, Send
<1>7. ASSUME NEW e \in calls, NEW r, Reply(e, r)
      PROVE  FALSE
  <2> DEFINE new == [e EXCEPT !.result = r]
  <2>1. calls' = (calls \ {e}) \cup {new}
    BY <1>7 DEF Reply
  <2>2. new.kind = e.kind /\ new.ep = e.ep
    BY AnsweredCall DEF CallsInv
  <2> HIDE DEF new
  <2> QED BY <2>1, <2>2
<1>8. ASSUME NEW e \in calls, Serve(e) \/ Fail(e)
      PROVE  \E r : Reply(e, r)
  <2>1. CASE Fail(e)
    BY <2>1 DEF Fail
  <2>2. CASE ServeCreate(e) \/ ServeDelete(e) \/ ServePaused(e) \/ ServeRotate(e) \/ ServeResend(e)
    BY <2>2 DEF ServeCreate, ServeDelete, ServePaused, ServeRotate, ServeResend
  <2>3. CASE ServeNudge(e) \/ ServeNothing(e)
    BY <2>3 DEF ServeNudge, ServeNothing
  <2> QED BY <1>8, <2>1, <2>2, <2>3 DEF Serve
<1>9. ASSUME NEW e \in calls, RunEnds(e) \/ RotateEnds(e) \/ AddEnds(e) \/ Unheard(e) \/ NudgeEnds(e)
      PROVE  RotateEnds(c) \/ Unheard(c)
  <2>1. calls' = calls \ {e}
    BY <1>9 DEF RunEnds, RotateEnds, AddEnds, Unheard, NudgeEnds, Gone
  <2>2. e = c
    BY <2>1
  <2> QED BY <1>9, <2>2 DEF RunEnds, AddEnds, NudgeEnds
<1> QED BY <1>2, <1>3, <1>4, <1>5, <1>6, <1>7, <1>8, <1>9 DEF ConsoleNext

LEMMA RotatedNext ==
    CallsInv /\ RowsInv /\ NamesInv /\ AnswersInv /\ RotatedSecretWorks /\ [ConsoleNext]_consoleVars
        => RotatedSecretWorks'
<1> SUFFICES ASSUME CallsInv, RowsInv, NamesInv, AnswersInv, RotatedSecretWorks,
                    [ConsoleNext]_consoleVars
             PROVE  RotatedSecretWorks'
  OBVIOUS
<1>1. CASE UNCHANGED consoleVars
  <2>1. UNCHANGED <<drawer, endpoints, failures, left, calls>>
    BY <1>1 DEF consoleVars, webhooks, store, counters
  <2> QED BY <2>1 DEF RotatedSecretWorks
<1>2. CASE ConsoleNext
  <2>1. SUFFICES ASSUME drawer' # None, drawer'.kind = "secret", drawer'.heading = "rotate",
                        drawer'.ep \in DOMAIN endpoints', failures' = 0, ~left',
                        \A c \in calls' : c.kind = "rotate" => c.ep # drawer'.ep
                 PROVE  drawer'.secret = endpoints'[drawer'.ep].secret
    BY DEF RotatedSecretWorks
  <2>2. failures = 0 /\ ~left
    BY <1>2, <2>1, FailuresCount, LeftForGood DEF CallsInv
  <2>3. ASSUME NEW c \in calls, c.kind \in {"create", "rotate"}, c.result # None,
               c.result.status = "ok", drawer' = Reveal(c), UNCHANGED store
        PROVE  drawer'.secret = endpoints'[drawer'.ep].secret
    <3>1. c.kind = "rotate" /\ drawer'.ep = c.result.ep /\ drawer'.secret = c.result.secret
      BY <2>1, <2>3 DEF Reveal
    <3>2. c.result.ep = c.ep
      BY <2>3, <3>1 DEF AnswersInv
    <3>3. endpoints' = endpoints
      BY <2>3 DEF store
    <3> QED BY <2>1, <2>2, <2>3, <3>1, <3>2, <3>3 DEF AnswersInv
  <2>4. ASSUME NEW n, drawer' = AddForm(n) PROVE FALSE
    BY <2>1, <2>4 DEF AddForm
  <2>5. ASSUME drawer' = drawer
        PROVE  drawer'.secret = endpoints'[drawer'.ep].secret
    <3>1. drawer.ep \in 1..created
      BY <2>1, <2>5 DEF NamesInv
    <3>2. drawer.ep \in DOMAIN endpoints
      BY <1>2, <2>1, <2>5, <3>1, SecretsStay
    <3>3. CASE \A c \in calls : c.kind = "rotate" => c.ep # drawer.ep
      <4>1. drawer.secret = endpoints[drawer.ep].secret
        BY <2>1, <2>2, <2>5, <3>2, <3>3 DEF RotatedSecretWorks
      <4>2. endpoints'[drawer.ep].secret = endpoints[drawer.ep].secret
        BY <1>2, <2>1, <2>5, <3>1, <3>3, SecretsStay
      <4> QED BY <2>5, <4>1, <4>2
    <3>4. ASSUME NEW c \in calls, c.kind = "rotate", c.ep = drawer.ep
          PROVE  drawer'.secret = endpoints'[drawer'.ep].secret
      <4>1. Navigate \/ RotateEnds(c) \/ Unheard(c)
        BY <1>2, <2>1, <2>5, <3>4, RotationEnds
      <4>2. ~Navigate
        BY <2>1 DEF Navigate
      <4>3. ~Unheard(c)
        BY <2>2, <3>4 DEF Unheard, CallsInv
      <4>4. c.result # None /\ (c.result.status = "ok" => drawer' = Reveal(c) /\ UNCHANGED store)
        BY <4>1, <4>2, <4>3 DEF RotateEnds, Gone
      <4>5. c.result.status = "ok"
        BY <2>2, <3>2, <3>4, <4>4 DEF AnswersInv
      <4> QED BY <2>3, <3>4, <4>4, <4>5
    <3> QED BY <3>3, <3>4
  <2> QED BY <1>2, <2>1, <2>3, <2>4, <2>5, PageSteps DEF Sources, DrawerSources
<1> QED BY <1>1, <1>2


---------------------------------------------------------------------------

LEMMA EventsStay ==
    ASSUME ConsoleNext
    PROVE  eventRows \subseteq eventRows'
<1>1. ASSUME NEW c \in calls, Serve(c)
      PROVE  eventRows \subseteq eventRows'
  <2>1. CASE ServeNudge(c)
    BY <2>1 DEF ServeNudge, InsertEvent
  <2>2. CASE ServeCreate(c) \/ ServeDelete(c) \/ ServePaused(c) \/ ServeRotate(c) \/ ServeResend(c)
             \/ ServeNothing(c)
    BY <2>2 DEF ServeCreate, ServeDelete, ServePaused, ServeRotate, ServeResend, ServeNothing, store
  <2> QED BY <1>1, <2>1, <2>2 DEF Serve
<1>2. CASE Flag
  BY <1>2 DEF Flag, InsertEvent
<1>3. CASE \E d \in DOMAIN deliveries : Attempt(d)
  BY <1>3 DEF Attempt
<1>4. CASE UNCHANGED store
  BY <1>4 DEF store
<1> QED BY <1>1, <1>2, <1>3, <1>4, StoreSteps

LEMMA ToastSteps ==
    ASSUME ConsoleNext
    PROVE  UNCHANGED toasts \/ \E c \in calls : NudgeEnds(c)
<1>1. CASE Flag \/ PollLists \/ RefetchArrives \/ Disarm \/ OpenForm \/ CloseDrawer
  BY <1>1 DEF Flag, PollLists, RefetchArrives, Disarm, OpenForm, CloseDrawer, overview
<1>2. CASE Hint \/ Dismiss \/ Add \/ Nudge \/ Navigate
  BY <1>2 DEF Hint, Dismiss, Add, Nudge, Navigate, overview
<1>3. CASE \E d \in DOMAIN deliveries : Attempt(d)
  BY <1>3 DEF Attempt, overview
<1>4. ASSUME NEW ep \in DOMAIN lists.endpoints,
             SetPaused(ep) \/ Rotate(ep) \/ ArmDelete(ep) \/ Delete(ep)
      PROVE  UNCHANGED toasts
  BY <1>4 DEF SetPaused, Rotate, ArmDelete, Delete, Run, overview
<1>5. CASE \E d \in DOMAIN lists.deliveries : Resend(d)
  BY <1>5 DEF Resend, Run, overview
<1>6. ASSUME NEW c \in calls,
             Serve(c) \/ Fail(c) \/ RunEnds(c) \/ RotateEnds(c) \/ AddEnds(c) \/ Unheard(c)
      PROVE  UNCHANGED toasts
  BY <1>6 DEF Serve, Fail, RunEnds, RotateEnds, AddEnds, Unheard, Gone, overview
<1> QED BY <1>1, <1>2, <1>3, <1>4, <1>5, <1>6 DEF ConsoleNext

LEMMA NudgesInvNext ==
    CallsInv /\ RowsInv /\ NudgesInv /\ [ConsoleNext]_consoleVars => NudgesInv'
<1> SUFFICES ASSUME CallsInv, RowsInv, NudgesInv, [ConsoleNext]_consoleVars
             PROVE  NudgesInv'
  OBVIOUS
<1>1. CASE UNCHANGED consoleVars
  <2>1. UNCHANGED <<toasts, calls, eventRows>>
    BY <1>1 DEF consoleVars, overview, store
  <2> QED BY <2>1 DEF NudgesInv, News
<1>2. CASE ConsoleNext
  <2>0. eventRows \subseteq eventRows'
    BY <1>2, EventsStay
  <2>1. CASE UNCHANGED toasts /\ (\A d \in calls', p \in 1..MaxPeriods : News(d, p) => d \in calls)
    BY <2>0, <2>1 DEF NudgesInv
  <2>2. CASE Sends /\ UNCHANGED toasts
    <3>1. PICK kind, ep, ev : Send(kind, ep, ev)
      BY <2>2 DEF Sends
    <3> DEFINE new == [no |-> asked + 1, kind |-> kind, ep |-> ep, ev |-> ev,
                       here |-> TRUE, result |-> None]
    <3>2. calls' = calls \cup {new}
      BY <3>1 DEF Send
    <3>3. new.result = None
      OBVIOUS
    <3> HIDE DEF new
    <3>4. \A p : ~News(new, p)
      BY <3>3 DEF News
    <3> QED BY <2>1, <2>2, <3>2, <3>4
  <2>3. CASE Drops /\ UNCHANGED toasts
    BY <2>1, <2>3 DEF Drops
  <2>4. CASE Navigate /\ UNCHANGED toasts
    <3> DEFINE away(d) == [d EXCEPT !.here = FALSE]
    <3>1. calls' = {away(d) : d \in calls}
      BY <2>4 DEF Navigate
    <3>2. \A d \in calls : away(d).kind = d.kind /\ away(d).result = d.result
      BY MovedCall DEF CallsInv
    <3> HIDE DEF away
    <3>3. \A d \in calls, p \in 1..MaxPeriods : News(away(d), p) => News(d, p)
      BY <3>2 DEF News
    <3>4. \A d \in calls' : \E e \in calls : d = away(e)
      BY <3>1
    <3>5. ASSUME NEW p \in 1..MaxPeriods, NEW d \in calls', NEW e \in calls', News(d, p), News(e, p)
          PROVE  d = e
      <4>1. PICK x \in calls : d = away(x)
        BY <3>4
      <4>2. PICK y \in calls : e = away(y)
        BY <3>4
      <4> QED BY <3>3, <3>5, <4>1, <4>2 DEF NudgesInv
    <3>6. ASSUME NEW p \in 1..MaxPeriods, NEW d \in calls', News(d, p)
          PROVE  NudgeId(None, p) \in eventRows' /\ toasts[p] = 0
      BY <2>0, <3>3, <3>4, <3>6 DEF NudgesInv
    <3> QED BY <2>0, <2>4, <3>5, <3>6 DEF NudgesInv
  <2>5. CASE Replies /\ UNCHANGED toasts
    <3>1. PICK c, r : c \in calls /\ ReplyFacts(c, r)
      BY <2>5, ReplyOf DEF Replies, CallsInv
    <3> DEFINE new == [c EXCEPT !.result = r]
    <3>2. calls' = (calls \ {c}) \cup {new}
      BY <3>1 DEF ReplyFacts, Reply
    <3>3. new.kind = c.kind /\ new.result = r
      BY AnsweredCall DEF CallsInv
    <3> HIDE DEF new
    <3>4. ASSUME NEW p \in 1..MaxPeriods, News(new, p)
          PROVE  NudgeId(None, p) \notin eventRows /\ NudgeId(None, p) \in eventRows'
      BY <3>1, <3>3, <3>4 DEF News, ReplyFacts, NudgeId
    <3>5. ASSUME NEW p \in 1..MaxPeriods
          PROVE  /\ toasts[p] \in {0, 1}
                 /\ toasts[p] = 1 => NudgeId(None, p) \in eventRows'
                 /\ \A d \in calls' : News(d, p) => NudgeId(None, p) \in eventRows' /\ toasts[p] = 0
      BY <2>0, <3>2, <3>4 DEF NudgesInv
    <3>6. ASSUME NEW p \in 1..MaxPeriods, NEW d \in calls', NEW e \in calls', News(d, p), News(e, p)
          PROVE  d = e
      BY <3>2, <3>4, <3>6 DEF NudgesInv
    <3> QED BY <2>5, <3>5, <3>6 DEF NudgesInv
  <2>6. ASSUME NEW c \in calls, NudgeEnds(c)
        PROVE  NudgesInv'
    <3>1. /\ calls' = calls \ {c} /\ c.kind = "nudge" /\ c.result # None
          /\ toasts' = IF c.result.status = "ok" /\ c.result.period # 0
                       THEN [toasts EXCEPT ![c.result.period] = @ + 1] ELSE toasts
      BY <2>6 DEF NudgeEnds
    <3>2. CASE UNCHANGED toasts
      BY <2>1, <3>1, <3>2
    <3>3. CASE c.result.status = "ok" /\ toasts' = [toasts EXCEPT ![c.result.period] = @ + 1]
      <4>1. ASSUME NEW p \in 1..MaxPeriods, c.result.period # p
            PROVE  toasts'[p] = toasts[p]
        BY <3>3, <4>1 DEF NudgesInv
      <4>2. ASSUME NEW p \in 1..MaxPeriods, c.result.period = p
            PROVE  News(c, p) /\ toasts'[p] = 1 /\ NudgeId(None, p) \in eventRows'
                   /\ \A d \in calls' : ~News(d, p)
        <5>1. News(c, p)
          BY <3>1, <3>3, <4>2 DEF News
        <5>2. toasts[p] = 0 /\ NudgeId(None, p) \in eventRows
          BY <5>1 DEF NudgesInv
        <5>3. toasts'[p] = 1
          BY <3>3, <4>2, <5>2 DEF NudgesInv
        <5>4. \A d \in calls' : ~News(d, p)
          BY <3>1, <5>1 DEF NudgesInv
        <5> QED BY <2>0, <5>1, <5>2, <5>3, <5>4
      <4>3. DOMAIN toasts' = 1..MaxPeriods
        BY <3>3 DEF NudgesInv
      <4>4. ASSUME NEW p \in 1..MaxPeriods
            PROVE  /\ toasts'[p] \in {0, 1}
                   /\ toasts'[p] = 1 => NudgeId(None, p) \in eventRows'
                   /\ \A d \in calls' : News(d, p) => NudgeId(None, p) \in eventRows' /\ toasts'[p] = 0
                   /\ \A d, e \in calls' : News(d, p) /\ News(e, p) => d = e
        <5>1. CASE c.result.period = p
          BY <4>2, <5>1
        <5>2. CASE c.result.period # p
          BY <2>0, <3>1, <4>1, <5>2 DEF NudgesInv
        <5> QED BY <5>1, <5>2
      <4> QED BY <4>3, <4>4 DEF NudgesInv
    <3> QED BY <3>1, <3>2, <3>3
  <2> QED BY <1>2, <2>2, <2>3, <2>4, <2>5, <2>6, CallSteps, ToastSteps
<1> QED BY <1>1, <1>2

---------------------------------------------------------------------------

LEMMA ConsoleStarts == ConsoleInit => ConsoleProofInv
<1> SUFFICES ASSUME ConsoleInit PROVE ConsoleProofInv
  OBVIOUS
<1>1. CallsInv
  BY DEF ConsoleInit, CallsInv
<1>2. RowsInv
  <2>1. created \in Nat /\ secrets = created
    BY ConsoleAssumption DEF ConsoleInit
  <2>2. endpoints = [ep \in 1..created |-> [paused |-> FALSE, secret |-> ep]]
    BY DEF ConsoleInit
  <2>3. \A ep \in 1..created : endpoints[ep] \in Endpoint /\ endpoints[ep].secret = ep
    BY <2>1, <2>2 DEF Endpoint
  <2>4. DOMAIN deliveries = {}
    BY DEF ConsoleInit, Empty
  <2>5. endpoints \in [1..created -> Endpoint]
    BY <2>2, <2>3
  <2> QED BY <2>1, <2>3, <2>4, <2>5 DEF RowsInv
<1>3. NamesInv
  BY DEF ConsoleInit, NamesInv, NoLists, Empty
<1>4. BusyInv
  BY DEF ConsoleInit, BusyInv, Runs
<1>5. AnswersInv /\ ListedInv /\ RotatedSecretWorks
  BY DEF ConsoleInit, AnswersInv, ListedInv, RotatedSecretWorks
<1>6. NudgesInv
  BY DEF ConsoleInit, NudgesInv
<1> QED BY <1>1, <1>2, <1>3, <1>4, <1>5, <1>6 DEF ConsoleProofInv

LEMMA ConsoleStays == ConsoleProofInv /\ [ConsoleNext]_consoleVars => ConsoleProofInv'
BY CallsInvNext, RowsInvNext, NamesInvNext, BusyInvNext, AnswersInvNext, ListedInvNext,
   RotatedNext, NudgesInvNext DEF ConsoleProofInv

\* However requests are answered, lost or left behind, ids and secrets are given out once and
\* the merchant is told once in a period that the subscriber was nudged.
THEOREM NudgesDoNotPileUp == ConsoleSpec => []ConsoleInv
<1>1. ConsoleProofInv => ConsoleInv
  <2> SUFFICES ASSUME ConsoleProofInv PROVE ConsoleInv
    OBVIOUS
  <2>1. ConsoleTypeOK
    BY DEF ConsoleProofInv, ConsoleTypeOK, RowsInv, CallsInv, BusyInv
  <2>2. NudgedOnce
    BY DEF ConsoleProofInv, NudgesInv, NudgedOnce
  <2> QED BY <2>1, <2>2 DEF ConsoleInv
<1> QED BY <1>1, ConsoleStarts, ConsoleStays, PTL DEF ConsoleSpec

\* A secret shown as rotated signs: rotations are asked one at a time.
THEOREM RotationsAreShown == ConsoleSpec => []RotatedSecretWorks
<1>1. ConsoleProofInv => RotatedSecretWorks
  BY DEF ConsoleProofInv
<1> QED BY <1>1, ConsoleStarts, ConsoleStays, PTL DEF ConsoleSpec

\* An action's own refetch shows what it did: nothing else is served while it is awaited.
THEOREM MutationsAreShown == ConsoleSpec => RefreshShowsMutation
<1>1. ConsoleProofInv /\ [ConsoleNext]_consoleVars =>
        [~left /\ slow # None /\ slow.run /\ slow' = None /\ lists' = slow.lists
          => lists'.endpoints = [ep \in DOMAIN lists'.endpoints |-> endpoints[ep]]]_consoleVars
  BY DEF ConsoleProofInv, ListedInv
<1> QED BY <1>1, ConsoleStarts, ConsoleStays, PTL DEF ConsoleSpec, RefreshShowsMutation

---------------------------------------------------------------------------
(***************************************************************************)
(* The cards view: a drawer opened with nothing under way is the only one  *)
(* that writes to its card until it is closed (OpenInv, BadgeInv), so its  *)
(* badge is the state the card is heading for, flipped while an answer is  *)
(* awaited; and where a card is heading does not change by mining          *)
(* (HeadingMined).                                                         *)
(***************************************************************************)

Toggles == {"freeze", "unfreeze"}
Writes == Toggles \cup {"cancel", "mint"}

\* A transaction and a request, with what they are sent with.
Sent == [fn : Writes, card : Nat \cup {NoCard}, detail : Nat, fresh : BOOLEAN,
         outcome : {"pending", "done", "reverted"}]
Asked == [no : Nat, fn : Writes, card : Nat \cup {NoCard}, was : Status \cup {"none"},
          here : BOOLEAN, detail : Nat]

\* Rows, feed, lists and cached answers are of minted cards, each with a status.
CardsInv ==
    /\ chain \in [0..(Cardinality(Minted) - 1) -> Status] /\ Cardinality(Minted) \in Nat
    /\ stream \in Seq(Nat \cup {NoCard}) /\ \A i \in DOMAIN stream : stream[i] \in Minted \cup {NoCard}
    /\ feed \subseteq Minted /\ DOMAIN cards \subseteq Minted
    /\ \A k \in DOMAIN cache : DOMAIN cache[k] \subseteq k \cap Minted
    /\ \A k \in DOMAIN cache : \A c \in DOMAIN cache[k] : cache[k][c] \in Status
    /\ \A c \in DOMAIN cards : cards[c] \in Status

\* Requests have numbers of their own, and are for a minted card or for a new one.
RequestsInv ==
    /\ writes \in Nat /\ mounts \in Nat
    /\ \A r \in requests :
          /\ r \in Asked /\ r.no <= writes /\ r.detail <= mounts
          /\ IF r.fn = "mint" THEN r.card = NoCard /\ r.detail = 0
             ELSE r.card \in Minted /\ r.was \in Status
    /\ \A r, q \in requests : r.no = q.no => r = q

\* So are transactions, and none of a fresh drawer has reverted.
TxsInv ==
    /\ txs \in Seq(Sent)
    /\ \A i \in DOMAIN txs :
          /\ IF txs[i].fn = "mint" THEN txs[i].card = NoCard ELSE txs[i].card \in Minted
          /\ txs[i].fresh => txs[i].outcome # "reverted"

\* A write of a fresh drawer finds its card alive when its turn comes.
FreshInv ==
    \A c \in Minted : \A i \in Pending(c) : txs[i].fresh /\ txs[i].fn \in Toggles =>
        /\ chain[c] # "cancelled"
        /\ \A j \in Pending(c) : j < i => txs[j].fn # "cancel"

\* The drawer is there as long as its card is in the list, and waits for one answer at most.
IsOpen == selectedId # NoCard /\ selectedId \in DOMAIN cards

OpenInv ==
    /\ ~IsOpen => detail = NoCard
    /\ IsOpen =>
         /\ detail \in Detail /\ detail.card = selectedId /\ detail.id \in 1..mounts
         /\ \A r \in requests : r.detail = detail.id => r.card = detail.card /\ r.here /\ detail.inFlight
         /\ \A r, q \in requests : r.detail = detail.id /\ q.detail = detail.id => r = q

\* In a fresh drawer every write of its card is its own, and the badge is what the card is
\* heading for, flipped while a toggle waits.
BadgeInv ==
    IsOpen /\ detail.fresh =>
        /\ \A r \in requests : r.card = detail.card => r.detail = detail.id
        /\ (\A r \in requests : r.detail = detail.id => r.fn \notin Toggles)
              => detail.status = Heading(detail.card)
        /\ \A r \in requests : r.detail = detail.id /\ r.fn \in Toggles =>
              /\ r.was = Heading(detail.card) /\ r.was # "cancelled"
              /\ detail.status = Flipped(r.was)
              /\ r.fn = IF r.was = "active" THEN "freeze" ELSE "unfreeze"

\* What a step of the cards view keeps.
DrawerProofInv == CardsInv /\ RequestsInv /\ TxsInv /\ FreshInv /\ OpenInv /\ BadgeInv

---------------------------------------------------------------------------

LEMMA LastPending ==
    ASSUME TxsInv, NEW c, Pending(c) # {}
    PROVE  \E i \in Pending(c) : \A j \in Pending(c) : j <= i
<1>1. Pending(c) \subseteq 1..Len(txs) /\ Len(txs) \in Nat
  BY DEF Pending, TxsInv
<1> DEFINE T == {Len(txs) - i : i \in Pending(c)}
<1>2. T \subseteq Nat /\ T # {}
  BY <1>1
<1>3. PICK x \in T : \A y \in T : x <= y
  BY <1>2, LeastNatural
<1>4. PICK i \in Pending(c) : x = Len(txs) - i
  BY <1>3
<1>5. \A j \in Pending(c) : Len(txs) - i <= Len(txs) - j
  BY <1>3, <1>4
<1> QED BY <1>1, <1>5

LEMMA HeadingNone == \A c : Pending(c) = {} => Heading(c) = chain[c]
BY DEF Heading

LEMMA HeadingCancel ==
    ASSUME NEW c, NEW i \in Pending(c), txs[i].fn = "cancel"
    PROVE  Heading(c) = "cancelled"
BY DEF Heading

LEMMA HeadingLast ==
    ASSUME TxsInv, NEW c, NEW i \in Pending(c), \A j \in Pending(c) : j <= i,
           \A j \in Pending(c) : txs[j].fn # "cancel"
    PROVE  Heading(c) = Becomes(txs[i].fn, chain[c])
<1> DEFINE last == CHOOSE k \in Pending(c) : \A j \in Pending(c) : j <= k
<1>1. last \in Pending(c) /\ \A j \in Pending(c) : j <= last
  OBVIOUS
<1>2. Pending(c) \subseteq Nat
  BY DEF Pending, TxsInv
<1>3. last = i
  BY <1>1, <1>2
<1> QED BY <1>3 DEF Heading

\* The same of the next state.
LEMMA HeadingLastNext ==
    ASSUME TxsInv', NEW c, NEW i \in Pending(c)', \A j \in Pending(c)' : j <= i,
           \A j \in Pending(c)' : txs'[j].fn # "cancel"
    PROVE  Heading(c)' = Becomes(txs'[i].fn, chain'[c])
<1> DEFINE last == CHOOSE k \in Pending(c)' : \A j \in Pending(c)' : j <= k
<1>1. last \in Pending(c)' /\ \A j \in Pending(c)' : j <= last
  OBVIOUS
<1>2. Pending(c)' \subseteq Nat
  BY DEF Pending, TxsInv
<1>3. last = i
  BY <1>1, <1>2
<1> QED BY <1>3 DEF Heading, Becomes, Reverts

\* A transaction of a card that is not minting is a toggle or a cancel.
LEMMA PendingToggles ==
    ASSUME TxsInv, NEW c \in Nat, NEW i \in Pending(c), txs[i].fn # "cancel"
    PROVE  i \in DOMAIN txs /\ txs[i].fn \in Toggles
<1>1. i \in DOMAIN txs /\ txs[i].card = c /\ txs[i] \in Sent
  BY DEF Pending, TxsInv
<1>2. txs[i].fn # "mint"
  BY <1>1, DrawerAssumption DEF TxsInv
<1> QED BY <1>1, <1>2 DEF Sent, Writes

LEMMA BecomesStatus ==
    /\ \A fn \in Toggles, s \in Status : Becomes(fn, s) \in Status
    /\ \A fn \in Toggles, s, u \in Status :
          s # "cancelled" /\ u # "cancelled" => Becomes(fn, s) = Becomes(fn, u) /\ Becomes(fn, s) # "cancelled"
    /\ \A fn \in Toggles : Becomes(fn, "cancelled") = "cancelled"
    /\ \A s \in Status : Becomes("cancel", s) = "cancelled"
<1>1. \A s \in Status :
        /\ Becomes("freeze", s) = IF s = "cancelled" THEN "cancelled" ELSE "frozen"
        /\ Becomes("unfreeze", s) = IF s = "cancelled" THEN "cancelled" ELSE "active"
        /\ Becomes("cancel", s) = "cancelled"
  BY DEF Becomes, Reverts
<1> QED BY <1>1 DEF Toggles, Status

LEMMA HeadingAlive ==
    ASSUME CardsInv, TxsInv, NEW c \in Minted, Heading(c) # "cancelled"
    PROVE  /\ chain[c] # "cancelled" /\ c \in Nat
           /\ \A i \in Pending(c) : txs[i].fn # "cancel"
<1>1. \A i \in Pending(c) : txs[i].fn # "cancel"
  BY HeadingCancel
<1>2. c \in Nat
  BY DEF CardsInv, Minted
<1>3. ASSUME chain[c] = "cancelled" PROVE FALSE
  <2>1. CASE Pending(c) = {}
    BY <1>3, <2>1, HeadingNone
  <2>2. CASE Pending(c) # {}
    <3>1. PICK i \in Pending(c) : \A j \in Pending(c) : j <= i
      BY <2>2, LastPending
    <3>2. Heading(c) = Becomes(txs[i].fn, "cancelled") /\ txs[i].fn \in Toggles
      BY <1>1, <1>2, <1>3, <3>1, HeadingLast, PendingToggles
    <3> QED BY <3>2, BecomesStatus
  <2> QED BY <2>1, <2>2
<1> QED BY <1>1, <1>2, <1>3


---------------------------------------------------------------------------

\* Transaction i, of card c, is mined: nothing else about the transactions changes.
Mined(i) ==
    /\ i \in DOMAIN txs /\ txs[i].outcome = "pending"
    /\ \A j \in DOMAIN txs : j < i => txs[j].outcome # "pending"
    /\ DOMAIN txs' = DOMAIN txs
    /\ \A j \in DOMAIN txs :
          /\ txs'[j].fn = txs[j].fn /\ txs'[j].card = txs[j].card /\ txs'[j].fresh = txs[j].fresh
          /\ j # i => txs'[j].outcome = txs[j].outcome
    /\ txs'[i].outcome \in {"done", "reverted"}
    /\ txs'[i].outcome = "reverted" =>
          txs[i].fn # "mint" /\ Reverts(txs[i].fn, chain[txs[i].card])
    /\ txs[i].fn # "mint" =>
          chain' = [chain EXCEPT ![txs[i].card] = Becomes(txs[i].fn, @)]
    /\ txs[i].fn = "mint" =>
          chain' = [c \in Minted \cup {Cardinality(Minted)} |-> IF c \in Minted THEN chain[c] ELSE "active"]

LEMMA OutcomeSet ==
    ASSUME txs \in Seq(Sent), NEW i \in DOMAIN txs, NEW o \in {"done", "reverted"},
           txs' = [txs EXCEPT ![i].outcome = o]
    PROVE  /\ txs' \in Seq(Sent) /\ DOMAIN txs' = DOMAIN txs
           /\ \A j \in DOMAIN txs :
                 /\ txs'[j].fn = txs[j].fn /\ txs'[j].card = txs[j].card /\ txs'[j].fresh = txs[j].fresh
                 /\ txs'[j].outcome = IF j = i THEN o ELSE txs[j].outcome
<1> DEFINE u == [txs[i] EXCEPT !.outcome = o]
<1>1. txs[i] \in Sent
  OBVIOUS
<1>2. u \in Sent /\ u.fn = txs[i].fn /\ u.card = txs[i].card /\ u.fresh = txs[i].fresh /\ u.outcome = o
  BY <1>1 DEF Sent
<1>3. txs' = [txs EXCEPT ![i] = u]
  OBVIOUS
<1> HIDE DEF u
<1>4. DOMAIN txs' = DOMAIN txs /\ \A j \in DOMAIN txs : txs'[j] = IF j = i THEN u ELSE txs[j]
  BY <1>3
<1>5. txs' \in Seq(Sent)
  BY <1>2, <1>3
<1> QED BY <1>2, <1>4, <1>5

LEMMA MineIs ==
    ASSUME TxsInv, Mine
    PROVE  txs' \in Seq(Sent) /\ \E i \in DOMAIN txs : Mined(i)
<1>1. PICK i \in DOMAIN txs :
        /\ txs[i].outcome = "pending" /\ \A j \in 1..(i - 1) : txs[j].outcome # "pending"
        /\ IF txs[i].fn = "mint"
           THEN /\ chain' = [c \in Minted \cup {Cardinality(Minted)} |->
                                IF c \in Minted THEN chain[c] ELSE "active"]
                /\ txs' = [txs EXCEPT ![i].outcome = "done"]
           ELSE /\ chain' = [chain EXCEPT ![txs[i].card] = Becomes(txs[i].fn, @)]
                /\ txs' = [txs EXCEPT ![i].outcome =
                              IF Reverts(txs[i].fn, chain[txs[i].card]) THEN "reverted" ELSE "done"]
  BY DEF Mine
<1> DEFINE o == IF txs[i].fn # "mint" /\ Reverts(txs[i].fn, chain[txs[i].card])
                THEN "reverted" ELSE "done"
<1>2. txs' = [txs EXCEPT ![i].outcome = o] /\ o \in {"done", "reverted"}
  BY <1>1
<1>3. o = "reverted" => txs[i].fn # "mint" /\ Reverts(txs[i].fn, chain[txs[i].card])
  OBVIOUS
<1> HIDE DEF o
<1>4. /\ txs' \in Seq(Sent) /\ DOMAIN txs' = DOMAIN txs
      /\ \A j \in DOMAIN txs :
            /\ txs'[j].fn = txs[j].fn /\ txs'[j].card = txs[j].card /\ txs'[j].fresh = txs[j].fresh
            /\ txs'[j].outcome = IF j = i THEN o ELSE txs[j].outcome
  BY <1>2, OutcomeSet DEF TxsInv
<1>5. \A j \in DOMAIN txs : j < i => txs[j].outcome # "pending"
  BY <1>1 DEF TxsInv
<1>6. /\ txs[i].fn # "mint" => chain' = [chain EXCEPT ![txs[i].card] = Becomes(txs[i].fn, @)]
      /\ txs[i].fn = "mint" =>
            chain' = [c \in Minted \cup {Cardinality(Minted)} |-> IF c \in Minted THEN chain[c] ELSE "active"]
  BY <1>1
<1> QED BY <1>1, <1>2, <1>3, <1>4, <1>5, <1>6, SMTT(30) DEF Mined

\* What the mined transaction does to a card that exists.
LEMMA MinedChain ==
    ASSUME CardsInv, TxsInv, NEW i, Mined(i)
    PROVE  /\ CardsInv' \/ ~UNCHANGED <<service, gallery>>
           /\ Minted \subseteq Minted'
           /\ \A c \in Minted : chain'[c] =
                 IF txs[i].card = c THEN Becomes(txs[i].fn, chain[c]) ELSE chain[c]
<1>1. txs[i] \in Sent
  BY DEF Mined, TxsInv
<1> DEFINE n == Cardinality(Minted)
<1>2. Minted = 0..(n - 1) /\ n \in Nat
  BY DEF CardsInv, Minted
<1> HIDE DEF n
<1>3. CASE txs[i].fn = "mint"
  <2>1. txs[i].card = NoCard
    BY <1>3 DEF Mined, TxsInv
  <2>2. \A c \in Minted : txs[i].card # c
    BY <1>2, <2>1, DrawerAssumption
  <2>3. chain' = [c \in Minted \cup {n} |-> IF c \in Minted THEN chain[c] ELSE "active"]
    BY <1>3 DEF Mined, n
  <2>4. Minted' = 0..n
    BY <1>2, <2>3 DEF Minted
  <2>5. Cardinality(Minted') = n + 1
    BY <1>2, <2>4, FS_Interval
  <2>6. \A c \in Minted' : chain'[c] \in Status
    BY <2>3, <2>4 DEF CardsInv, Status, Minted
  <2>7. chain' \in [0..(Cardinality(Minted') - 1) -> Status] /\ Cardinality(Minted') \in Nat
    <3>1. 0..(Cardinality(Minted') - 1) = Minted' /\ Cardinality(Minted') \in Nat
      BY <1>2, <2>4, <2>5
    <3>2. chain' = [c \in Minted' |-> chain'[c]]
      BY <2>3 DEF Minted
    <3> QED BY <2>6, <3>1, <3>2
  <2>8. Minted \subseteq Minted'
    BY <1>2, <2>4
  <2>9. UNCHANGED <<service, gallery>> => CardsInv'
    BY <2>7, <2>8 DEF CardsInv, service, gallery
  <2> QED BY <2>2, <2>3, <2>8, <2>9
<1>4. CASE txs[i].fn # "mint"
  <2>1. txs[i].card \in Minted /\ txs[i].fn \in Toggles \cup {"cancel"}
    BY <1>1, <1>4 DEF Mined, TxsInv, Sent, Writes
  <2>2. chain' = [chain EXCEPT ![txs[i].card] = Becomes(txs[i].fn, @)]
    BY <1>4 DEF Mined
  <2>3. chain[txs[i].card] \in Status
    BY <2>1 DEF CardsInv, Minted
  <2>4. Becomes(txs[i].fn, chain[txs[i].card]) \in Status
    BY <2>1, <2>3, BecomesStatus DEF Status
  <2>5. Minted' = Minted
    BY <2>2 DEF Minted
  <2>6. chain' \in [0..(n - 1) -> Status]
    BY <2>2, <2>4 DEF CardsInv, n
  <2>7. UNCHANGED <<service, gallery>> => CardsInv'
    BY <2>5, <2>6 DEF CardsInv, service, gallery, n
  <2>8. \A c \in Minted : chain'[c] =
                 IF txs[i].card = c THEN Becomes(txs[i].fn, chain[c]) ELSE chain[c]
    BY <2>2 DEF Minted
  <2> QED BY <2>5, <2>7, <2>8
<1> QED BY <1>3, <1>4

LEMMA MinedPending ==
    ASSUME TxsInv, NEW i, Mined(i), NEW c
    PROVE  /\ Pending(c)' = Pending(c) \ {i}
           /\ \A j \in Pending(c)' : txs'[j].fn = txs[j].fn
BY DEF Mined, Pending

\* A card is heading where its own transactions lead.
LEMMA HeadingSame ==
    ASSUME TxsInv, TxsInv', NEW c, Pending(c)' = Pending(c), chain'[c] = chain[c],
           \A j \in Pending(c) : txs'[j].fn = txs[j].fn
    PROVE  Heading(c)' = Heading(c)
<1>1. CASE Pending(c) = {}
  BY <1>1, HeadingNone DEF Heading
<1>2. ASSUME NEW j \in Pending(c), txs[j].fn = "cancel"
      PROVE  Heading(c)' = Heading(c)
  <2>1. j \in Pending(c)' /\ txs'[j].fn = "cancel"
    BY <1>2
  <2>2. Heading(c)' = "cancelled"
    BY <2>1 DEF Heading
  <2> QED BY <1>2, <2>2, HeadingCancel
<1>3. CASE Pending(c) # {} /\ \A j \in Pending(c) : txs[j].fn # "cancel"
  <2>1. PICK k \in Pending(c) : \A j \in Pending(c) : j <= k
    BY <1>3, LastPending
  <2>2. Heading(c) = Becomes(txs[k].fn, chain[c])
    BY <1>3, <2>1, HeadingLast
  <2>3. Heading(c)' = Becomes(txs'[k].fn, chain'[c])
    <3>1. k \in Pending(c)' /\ (\A j \in Pending(c)' : j <= k) /\ (\A j \in Pending(c)' : txs'[j].fn # "cancel")
      BY <1>3, <2>1
    <3> QED BY <3>1, HeadingLastNext
  <2> QED BY <2>1, <2>2, <2>3
<1> QED BY <1>1, <1>2, <1>3

\* Mining changes nothing about where a card is heading.
LEMMA HeadingMined ==
    ASSUME CardsInv, TxsInv, NEW i, Mined(i), TxsInv', NEW c \in Minted
    PROVE  Heading(c)' = Heading(c)
<1>0. c \in Nat /\ chain[c] \in Status /\ c # NoCard
  BY DrawerAssumption DEF CardsInv, Minted
<1>1. /\ Pending(c)' = Pending(c) \ {i}
      /\ \A j \in Pending(c)' : txs'[j].fn = txs[j].fn
  BY MinedPending
<1>2. CASE txs[i].card # c
  <2>1. i \notin Pending(c) /\ chain'[c] = chain[c]
    BY <1>2, MinedChain DEF Pending
  <2>2. Pending(c)' = Pending(c)
    BY <1>1, <2>1
  <2> QED BY <1>1, <2>1, <2>2, HeadingSame
<1>3. CASE txs[i].card = c
  <2>1. i \in Pending(c) /\ chain'[c] = Becomes(txs[i].fn, chain[c])
    BY <1>3, MinedChain DEF Pending, Mined
  <2>2. \A j \in Pending(c) : i <= j
    BY DEF Mined, Pending, TxsInv
  <2>3. txs[i].fn \in Toggles \cup {"cancel"}
    BY <1>0, <2>1, PendingToggles
  <2>4. CASE Pending(c)' = {}
    <3>1. Pending(c) = {i}
      BY <1>1, <2>1, <2>4
    <3>2. Heading(c) = Becomes(txs[i].fn, chain[c])
      <4>1. CASE txs[i].fn = "cancel"
        BY <1>0, <2>1, <4>1, HeadingCancel, BecomesStatus
      <4>2. CASE txs[i].fn # "cancel"
        BY <3>1, <4>2, HeadingLast DEF Pending, TxsInv
      <4> QED BY <4>1, <4>2
    <3>3. Heading(c)' = chain'[c]
      BY <2>4 DEF Heading
    <3> QED BY <2>1, <3>2, <3>3
  <2>5. ASSUME NEW j \in Pending(c)', txs'[j].fn = "cancel"
        PROVE  Heading(c)' = Heading(c)
    <3>1. Heading(c)' = "cancelled"
      BY <2>5 DEF Heading
    <3>2. j \in Pending(c) /\ txs[j].fn = "cancel"
      BY <1>1, <2>5
    <3> QED BY <3>1, <3>2, HeadingCancel
  <2>6. CASE Pending(c)' # {} /\ \A j \in Pending(c)' : txs'[j].fn # "cancel"
    <3>1. PICK k \in Pending(c) : \A j \in Pending(c) : j <= k
      BY <2>1, LastPending
    <3>2. k # i /\ k \in Pending(c)'
      BY <1>1, <2>1, <2>2, <2>6, <3>1 DEF Pending, TxsInv
    <3>3. Heading(c)' = Becomes(txs'[k].fn, chain'[c])
      <4>1. \A j \in Pending(c)' : j <= k
        BY <1>1, <3>1
      <4> QED BY <2>6, <3>2, <4>1, HeadingLastNext
    <3>4. txs'[k].fn = txs[k].fn /\ txs[k].fn \in Toggles
      BY <1>0, <1>1, <2>6, <3>1, <3>2, PendingToggles
    <3>5. CASE txs[i].fn = "cancel"
      <4>1. Heading(c) = "cancelled" /\ chain'[c] = "cancelled"
        BY <1>0, <2>1, <3>5, HeadingCancel, BecomesStatus
      <4> QED BY <3>3, <3>4, <4>1, BecomesStatus
    <3>6. CASE txs[i].fn \in Toggles
      <4>1. \A j \in Pending(c) : txs[j].fn # "cancel"
        BY <1>1, <2>6, <3>6 DEF Toggles
      <4>2. Heading(c) = Becomes(txs[k].fn, chain[c])
        BY <3>1, <4>1, HeadingLast
      <4>3. Becomes(txs[k].fn, Becomes(txs[i].fn, chain[c])) = Becomes(txs[k].fn, chain[c])
        <5>1. CASE chain[c] = "cancelled"
          BY <3>6, <5>1, BecomesStatus
        <5>2. CASE chain[c] # "cancelled"
          BY <1>0, <3>4, <3>6, <5>2, BecomesStatus
        <5> QED BY <5>1, <5>2
      <4> QED BY <2>1, <3>3, <3>4, <4>2, <4>3
    <3> QED BY <2>3, <3>5, <3>6
  <2> QED BY <2>4, <2>5, <2>6
<1> QED BY <1>2, <1>3

---------------------------------------------------------------------------
(* The gallery. *)

LEMMA GallerySteps ==
    ASSUME CardsInv, DrawerNext, ~Mine
    PROVE  CardsInv'
<1>0. DOMAIN NoRows = {}
  BY DEF NoRows
<1>1. CASE UNCHANGED <<chain, stream, gallery>>
  BY <1>1 DEF gallery, CardsInv, Minted
<1>2. CASE StoreCard \/ StoreOther
  <2>1. PICK row \in Minted \cup {NoCard} : stream' = Append(stream, row)
    BY <1>2 DEF StoreCard, StoreOther
  <2>2. UNCHANGED <<chain, feed, cache, cards>>
    BY <1>2 DEF StoreCard, StoreOther, world, gallery
  <2>3. row \in Nat \cup {NoCard}
    BY <2>1 DEF CardsInv, Minted
  <2>4. stream' \in Seq(Nat \cup {NoCard}) /\ \A i \in DOMAIN stream' : stream'[i] \in Minted \cup {NoCard}
    BY <2>1, <2>3 DEF CardsInv
  <2> QED BY <2>2, <2>4 DEF CardsInv, Minted
<1>3. ASSUME NEW n, ShowFeed(n), UNCHANGED <<chain, stream>>
      PROVE  CardsInv'
  <2>1. feed' \subseteq Minted
    BY <1>3 DEF ShowFeed, recentCards, CardsInv
  <2>2. DOMAIN cache' \subseteq DOMAIN cache /\ \A k \in DOMAIN cache' : cache'[k] = cache[k]
    BY <1>3 DEF ShowFeed
  <2>3. cards' \in {Cached(feed)', cards}
    BY <1>3 DEF ShowFeed, stableCards
  <2> QED BY <1>0, <1>3, <2>1, <2>2, <2>3 DEF CardsInv, Cached, Minted
<1>4. ASSUME NEW ok \in SUBSET feed, ReadCards(ok)
      PROVE  CardsInv'
  <2>1. /\ cache' = [k \in DOMAIN cache \cup {feed} |->
                       IF k = feed THEN [c \in ok |-> chain[c]] ELSE cache[k]]
        /\ cards' \in {Cached(feed)', cards} /\ UNCHANGED <<chain, stream, feed>>
    BY <1>4 DEF ReadCards, world, service, stableCards
  <2>2. \A c \in ok : c \in Minted /\ chain[c] \in Status
    BY DEF CardsInv, Minted
  <2>3. /\ \A k \in DOMAIN cache' : DOMAIN cache'[k] \subseteq k \cap Minted
        /\ \A k \in DOMAIN cache' : \A c \in DOMAIN cache'[k] : cache'[k][c] \in Status
    BY <2>1, <2>2 DEF CardsInv
  <2>4. Cached(feed)' = cache'[feed] /\ feed \in DOMAIN cache'
    BY <2>1 DEF Cached
  <2> QED BY <2>1, <2>3, <2>4 DEF CardsInv, Minted
<1>5. CASE Reconnect
  <2>1. cards' \in {Cached(feed), NoRows} /\ UNCHANGED <<chain, stream, feed, cache>>
    BY <1>5 DEF Reconnect, world, service, stableCards
  <2> QED BY <1>0, <2>1 DEF CardsInv, Cached, Minted
<1>6. ASSUME NEW r \in requests, Confirm(r) \/ Reject(r)
      PROVE  UNCHANGED <<chain, stream, gallery>>
  BY <1>6 DEF Confirm, Reject, world, service
<1>7. ASSUME NEW c \in DOMAIN cards, Tap(c) PROVE UNCHANGED <<chain, stream, gallery>>
  BY <1>7 DEF Tap, world, service
<1>8. ASSUME NEW form, Mint(form) PROVE UNCHANGED <<chain, stream, gallery>>
  BY <1>8 DEF Mint, world, service
<1>9. ASSUME Close \/ Toggle \/ Cancel \/ OpenMint \/ CloseMint \/ PollFeedSlow
      PROVE  UNCHANGED <<chain, stream, gallery>>
  BY <1>9 DEF Close, Toggle, Cancel, OpenMint, CloseMint, PollFeedSlow, world, service
<1>10. CASE PollFeed
  BY <1>3, <1>10 DEF PollFeed, world, service
<1>11. CASE PollArrives
  BY <1>1, <1>3, <1>11 DEF PollArrives, world
<1> QED BY <1>1, <1>2, <1>4, <1>5, <1>6, <1>7, <1>8, <1>9, <1>10, <1>11 DEF DrawerNext

---------------------------------------------------------------------------
(* What is rendered. *)

Book == CardsInv /\ RequestsInv /\ TxsInv /\ FreshInv

LEMMA SomeDetail == OpenInv => (detail # NoCard <=> IsOpen)
BY DrawerAssumption DEF OpenInv

\* A step of the page: the drawer stays, goes, or is mounted on what the list says.
LEMMA RenderKeeps ==
    ASSUME Book, OpenInv, BadgeInv, CardsInv', UNCHANGED <<world, requests, writes>>,
           RenderDetail(detail)
    PROVE  RequestsInv' /\ OpenInv' /\ BadgeInv'
<1>0. UNCHANGED <<chain, txs>>
  BY DEF world
<1>h. \A c : Heading(c)' = Heading(c) /\ Pending(c)' = Pending(c)
  BY <1>0 DEF Heading, Pending, Becomes, Reverts
<1>1. CASE ~IsOpen'
  <2>1. detail' = NoCard /\ mounts' = mounts
    BY <1>1 DEF IsOpen, RenderDetail
  <2> QED BY <1>0, <1>1, <2>1 DEF Book, RequestsInv, OpenInv, BadgeInv, Minted
<1>2. CASE IsOpen' /\ detail # NoCard /\ detail.card = selectedId'
  <2>1. detail' = detail /\ mounts' = mounts
    BY <1>2 DEF IsOpen, RenderDetail
  <2>2. IsOpen
    BY <1>2, SomeDetail
  <2>3. RequestsInv'
    BY <1>0, <2>1 DEF Book, RequestsInv, Minted
  <2>4. OpenInv'
    BY <1>2, <2>1, <2>2 DEF OpenInv
  <2>5. BadgeInv'
    BY <1>h, <2>1, <2>2 DEF BadgeInv, Flipped
  <2> QED BY <2>3, <2>4, <2>5
<1>3. CASE IsOpen' /\ ~(detail # NoCard /\ detail.card = selectedId')
  <2>a. PICK c, m : c = selectedId' /\ m = mounts + 1
    OBVIOUS
  <2>1. mounts' = m /\ detail' = Mounted(c)
    BY <1>3, <2>a DEF IsOpen, RenderDetail
  <2>2. /\ detail'.card = c /\ detail'.status = cards'[c] /\ detail'.inFlight = FALSE
        /\ detail'.id = m /\ detail'.fresh = Fresh(c, cards'[c])
        /\ detail' = [card |-> c, status |-> cards'[c], inFlight |-> FALSE, id |-> m,
                      fresh |-> Fresh(c, cards'[c])]
    BY <2>1, <2>a DEF Mounted
  <2>3. c \in Minted /\ cards'[c] \in Status
    BY <1>0, <1>3, <2>a DEF IsOpen, CardsInv, Minted
  <2>4. c \in Nat
    BY <2>3 DEF Book, CardsInv, Minted
  <2>5. m \in Nat /\ m \in 1..m /\ mounts \in Nat /\ \A r \in requests : r.detail # m /\ r.detail <= m
    BY <2>a DEF Book, RequestsInv, Asked
  <2>6. Fresh(c, cards'[c]) \in BOOLEAN
    BY DEF Fresh
  <2>7. detail' \in Detail
    BY <2>2, <2>3, <2>4, <2>5, <2>6 DEF Detail
  <2>8. RequestsInv'
    BY <1>0, <2>1, <2>5 DEF Book, RequestsInv, Minted
  <2>9. OpenInv'
    BY <1>3, <2>1, <2>2, <2>5, <2>7, <2>a DEF OpenInv
  <2>10. BadgeInv'
    <3>1. SUFFICES ASSUME detail'.fresh PROVE BadgeInv'
      BY DEF BadgeInv
    <3>2. cards'[c] = chain[c] /\ Pending(c) = {} /\ \A r \in requests : r.card # c
      BY <2>2, <3>1 DEF Fresh
    <3>3. Heading(c)' = chain[c]
      BY <1>h, <3>2, HeadingNone
    <3> QED BY <2>2, <2>5, <3>2, <3>3 DEF BadgeInv
  <2> QED BY <2>8, <2>9, <2>10
<1> QED BY <1>1, <1>2, <1>3

LEMMA PageKeeps ==
    ASSUME Book, OpenInv, BadgeInv, DrawerNext, CardsInv',
           \/ PollFeed \/ (PollArrives /\ ShowFeed(heldPoll)) \/ Close
           \/ (\E ok \in SUBSET feed : ReadCards(ok)) \/ \E c \in DOMAIN cards : Tap(c)
    PROVE  Book' /\ OpenInv' /\ BadgeInv'
<1>1. UNCHANGED <<world, requests, writes>> /\ RenderDetail(detail)
  <2>1. CASE PollFeed \/ (PollArrives /\ ShowFeed(heldPoll)) \/ Close
    BY <2>1 DEF PollFeed, PollArrives, ShowFeed, Close
  <2>2. CASE \E ok \in SUBSET feed : ReadCards(ok)
    BY <2>2 DEF ReadCards
  <2>3. CASE \E c \in DOMAIN cards : Tap(c)
    BY <2>3 DEF Tap
  <2> QED BY <2>1, <2>2, <2>3
<1>2. RequestsInv' /\ OpenInv' /\ BadgeInv'
  BY <1>1, RenderKeeps
<1>3. TxsInv' /\ FreshInv'
  BY <1>1 DEF Book, world, TxsInv, FreshInv, Minted, Pending
<1> QED BY <1>2, <1>3 DEF Book

LEMMA ReconnectKeeps ==
    ASSUME Book, OpenInv, BadgeInv, CardsInv', Reconnect
    PROVE  Book' /\ OpenInv' /\ BadgeInv'
<1> DEFINE away(r) == [r EXCEPT !.here = FALSE]
<1>1. /\ requests' = {away(r) : r \in requests} /\ selectedId' = NoCard
      /\ UNCHANGED <<chain, txs, writes>> /\ RenderDetail(NoCard)
  BY DEF Reconnect, world
<1>2. detail' = NoCard /\ mounts' = mounts
  BY <1>1 DEF RenderDetail
<1>3. \A r \in requests : /\ away(r) \in Asked /\ away(r).no = r.no /\ away(r).fn = r.fn
                          /\ away(r).card = r.card /\ away(r).detail = r.detail /\ away(r).was = r.was
  BY DEF Book, RequestsInv, Asked
<1> HIDE DEF away
<1>4. RequestsInv'
  <2>1. \A s \in requests' : \E r \in requests : s = away(r)
    BY <1>1
  <2>2. \A s \in requests' :
          /\ s \in Asked /\ s.no <= writes /\ s.detail <= mounts
          /\ IF s.fn = "mint" THEN s.card = NoCard /\ s.detail = 0 ELSE s.card \in Minted /\ s.was \in Status
    BY <1>3, <2>1 DEF Book, RequestsInv
  <2>3. \A s, q \in requests' : s.no = q.no => s = q
    BY <1>3, <2>1 DEF Book, RequestsInv
  <2> QED BY <1>1, <1>2, <2>2, <2>3 DEF Book, RequestsInv, Minted
<1>5. TxsInv' /\ FreshInv'
  BY <1>1 DEF Book, TxsInv, FreshInv, Minted, Pending
<1>6. OpenInv' /\ BadgeInv'
  BY <1>1, <1>2 DEF OpenInv, BadgeInv, IsOpen
<1> QED BY <1>4, <1>5, <1>6 DEF Book

---------------------------------------------------------------------------
(* The drawer and the mint form. *)

LEMMA AskAdds ==
    ASSUME Book, NEW fn \in Writes, NEW c, NEW was \in Status \cup {"none"}, NEW id \in 0..mounts,
           IF fn = "mint" THEN c = NoCard /\ id = 0 ELSE c \in Minted /\ was \in Status,
           writes' = writes + 1, UNCHANGED <<mounts, chain, txs, service, gallery>>,
           NEW new, new = [no |-> writes + 1, fn |-> fn, card |-> c, was |-> was, here |-> TRUE,
                           detail |-> id],
           requests' = requests \cup {new}
    PROVE  Book'
<1>1. new \in Asked /\ new.no = writes + 1 /\ new.fn = fn /\ new.card = c /\ new.detail = id /\ new.was = was
  <2>1. c \in Nat \cup {NoCard}
    BY DEF Book, CardsInv, Minted
  <2>2. writes + 1 \in Nat /\ id \in Nat
    BY DEF Book, RequestsInv
  <2> QED BY <2>1, <2>2 DEF Asked
<1>2. CardsInv' /\ TxsInv' /\ FreshInv'
  BY DEF Book, CardsInv, TxsInv, FreshInv, Minted, Pending, service, gallery
<1>3. writes' \in Nat /\ mounts' \in Nat
  BY DEF Book, RequestsInv
<1>4. \A r \in requests' :
          /\ r \in Asked /\ r.no <= writes' /\ r.detail <= mounts'
          /\ IF r.fn = "mint" THEN r.card = NoCard /\ r.detail = 0 ELSE r.card \in Minted' /\ r.was \in Status
  <2>1. \A r \in requests : r.no <= writes' /\ r \in Asked /\ r.detail <= mounts'
    BY DEF Book, RequestsInv, Asked
  <2>2. Minted' = Minted
    BY DEF Minted
  <2>3. id <= mounts' /\ writes + 1 <= writes'
    BY DEF Book, RequestsInv
  <2> QED BY <1>1, <2>1, <2>2, <2>3 DEF Book, RequestsInv
<1>5. \A r, q \in requests' : r.no = q.no => r = q
  <2>1. \A r \in requests : r.no # writes + 1
    BY DEF Book, RequestsInv, Asked
  <2> QED BY <1>1, <2>1, ZenonT(40) DEF Book, RequestsInv
<1> QED BY <1>2, <1>3, <1>4, <1>5 DEF Book, RequestsInv

LEMMA ToggleKeeps ==
    ASSUME Book, OpenInv, BadgeInv, Toggle
    PROVE  Book' /\ OpenInv' /\ BadgeInv'
<1>0. /\ detail # NoCard /\ detail.status # "cancelled" /\ ~detail.inFlight
      /\ UNCHANGED <<chain, txs, service, gallery, selectedId, mounts>>
  BY DEF Toggle, Offered, Free, world
<1>1. IsOpen /\ IsOpen'
  BY <1>0, SomeDetail DEF IsOpen, gallery
<1>2. PICK fn, new :
        /\ fn = IF detail.status = "active" THEN "freeze" ELSE "unfreeze"
        /\ new = [no |-> writes + 1, fn |-> fn, card |-> detail.card, was |-> detail.status,
                  here |-> TRUE, detail |-> detail.id]
        /\ writes' = writes + 1 /\ requests' = requests \cup {new}
  BY <1>0 DEF Toggle, Ask
<1>3. detail \in Detail /\ detail.card \in Minted /\ detail.id \in 1..mounts
  BY <1>1 DEF OpenInv, IsOpen, Book, CardsInv
<1>4. Book'
  <2>1. fn \in Writes /\ fn # "mint" /\ detail.status \in Status /\ detail.id \in 0..mounts
    BY <1>2, <1>3 DEF Writes, Toggles, Detail, Book, RequestsInv
  <2> QED BY <1>0, <1>2, <1>3, <2>1, AskAdds
<1>5. /\ detail' \in Detail /\ detail'.card = detail.card /\ detail'.id = detail.id
      /\ detail'.fresh = detail.fresh /\ detail'.inFlight = TRUE
      /\ detail'.status = Flipped(detail.status)
  <2>1. detail' = [detail EXCEPT !.inFlight = TRUE, !.status = Flipped(@)]
    BY DEF Toggle
  <2>2. Flipped(detail.status) \in Status
    BY DEF Flipped, Status
  <2> QED BY <1>3, <2>1, <2>2 DEF Detail
<1>6. new.detail = detail.id /\ new.card = detail.card /\ new.here /\ new.fn = fn /\ new.was = detail.status
  BY <1>2
<1>7. \A r \in requests : r.detail # detail.id
  BY <1>0, <1>1 DEF OpenInv
<1>8. OpenInv'
  <2>1. \A r \in requests' : r.detail = detail'.id => r = new
    BY <1>2, <1>5, <1>7
  <2>2. detail'.card = selectedId' /\ detail'.id \in 1..mounts'
    BY <1>0, <1>1, <1>3, <1>5 DEF OpenInv
  <2> QED BY <1>1, <1>5, <1>6, <2>1, <2>2 DEF OpenInv
<1>9. BadgeInv'
  <2>1. SUFFICES ASSUME detail.fresh PROVE BadgeInv'
    BY <1>5 DEF BadgeInv
  <2>2. detail.status = Heading(detail.card) /\ \A r \in requests : r.card # detail.card
    BY <1>1, <1>7, <2>1 DEF BadgeInv
  <2>3. Heading(detail.card)' = Heading(detail.card)
    BY <1>0, <1>5 DEF Heading, Pending, Becomes, Reverts
  <2>4. fn \in Toggles
    BY <1>2 DEF Toggles
  <2>5. \A r \in requests' : r.detail = detail'.id => r = new
    BY <1>2, <1>5, <1>7
  <2>6. \A r \in requests' : r.card = detail'.card => r.detail = detail'.id
    BY <1>2, <1>5, <1>6, <2>2
  <2>7. detail'.status = Flipped(new.was) /\ Heading(detail.card)' = new.was
    BY <1>5, <1>6, <2>2, <2>3
  <2>8. new \in requests'
    BY <1>2
  <2> QED BY <1>0, <1>2, <1>5, <1>6, <2>4, <2>5, <2>6, <2>7, <2>8 DEF BadgeInv, Flipped
<1> QED BY <1>4, <1>8, <1>9

LEMMA CancelKeeps ==
    ASSUME Book, OpenInv, BadgeInv, Cancel
    PROVE  Book' /\ OpenInv' /\ BadgeInv'
<1>0. /\ detail # NoCard /\ ~detail.inFlight
      /\ UNCHANGED <<chain, txs, service, gallery, selectedId, mounts>>
  BY DEF Cancel, Offered, Free, world
<1>1. IsOpen /\ IsOpen'
  BY <1>0, SomeDetail DEF IsOpen, gallery
<1>2. PICK new :
        /\ new = [no |-> writes + 1, fn |-> "cancel", card |-> detail.card, was |-> detail.status,
                  here |-> TRUE, detail |-> detail.id]
        /\ writes' = writes + 1 /\ requests' = requests \cup {new}
  BY <1>0 DEF Cancel, Ask
<1>3. detail \in Detail /\ detail.card \in Minted /\ detail.id \in 1..mounts
  BY <1>1 DEF OpenInv, IsOpen, Book, CardsInv
<1>4. Book'
  <2>1. "cancel" \in Writes /\ detail.status \in Status /\ detail.id \in 0..mounts
    BY <1>3 DEF Writes, Detail, Book, RequestsInv
  <2> QED BY <1>0, <1>2, <1>3, <2>1, AskAdds
<1>5. /\ detail' \in Detail /\ detail'.card = detail.card /\ detail'.id = detail.id
      /\ detail'.fresh = detail.fresh /\ detail'.inFlight = TRUE /\ detail'.status = detail.status
  <2>1. detail' = [detail EXCEPT !.inFlight = TRUE]
    BY DEF Cancel
  <2> QED BY <1>3, <2>1 DEF Detail
<1>6. new.detail = detail.id /\ new.card = detail.card /\ new.here /\ new.fn = "cancel"
  BY <1>2
<1>7. \A r \in requests : r.detail # detail.id
  BY <1>0, <1>1 DEF OpenInv
<1>8. OpenInv'
  <2>1. \A r \in requests' : r.detail = detail'.id => r = new
    BY <1>2, <1>5, <1>7
  <2>2. detail'.card = selectedId' /\ detail'.id \in 1..mounts'
    BY <1>0, <1>1, <1>3, <1>5 DEF OpenInv
  <2> QED BY <1>1, <1>5, <1>6, <2>1, <2>2 DEF OpenInv
<1>9. BadgeInv'
  <2>1. SUFFICES ASSUME detail.fresh PROVE BadgeInv'
    BY <1>5 DEF BadgeInv
  <2>2. detail.status = Heading(detail.card) /\ \A r \in requests : r.card # detail.card
    BY <1>1, <1>7, <2>1 DEF BadgeInv
  <2>3. Heading(detail.card)' = Heading(detail.card)
    BY <1>0, <1>5 DEF Heading, Pending, Becomes, Reverts
  <2>5. \A r \in requests' : r.detail = detail'.id => r = new /\ r.fn \notin Toggles
    BY <1>2, <1>5, <1>6, <1>7 DEF Toggles
  <2>6. \A r \in requests' : r.card = detail'.card => r.detail = detail'.id
    BY <1>2, <1>5, <1>6, <2>2
  <2> QED BY <1>5, <2>2, <2>3, <2>5, <2>6 DEF BadgeInv
<1> QED BY <1>4, <1>8, <1>9

LEMMA MintKeeps ==
    ASSUME Book, OpenInv, NEW form, Mint(form)
    PROVE  Book' /\ OpenInv' /\ BadgeInv'
<1>0. detail = NoCard /\ UNCHANGED <<chain, txs, service, gallery, selectedId, detail, mounts>>
  BY DEF Mint, world
<1>1. ~IsOpen /\ ~IsOpen'
  BY <1>0, SomeDetail DEF IsOpen, gallery
<1>2. PICK new :
        /\ new = [no |-> writes + 1, fn |-> "mint", card |-> NoCard, was |-> "none",
                  here |-> TRUE, detail |-> 0]
        /\ writes' = writes + 1 /\ requests' = requests \cup {new}
  BY <1>0 DEF Mint, Ask
<1>3. "mint" \in Writes /\ 0 \in 0..mounts
  BY DEF Writes, Book, RequestsInv
<1>4. Book'
  BY <1>0, <1>2, <1>3, AskAdds
<1> QED BY <1>0, <1>1, <1>4 DEF OpenInv, BadgeInv

\* An answer the drawer hears is to a toggle or a cancel of its card.
LEMMA HeardWrites ==
    ASSUME Book, OpenInv, IsOpen, NEW r \in requests, r.detail = detail.id
    PROVE  r.fn \in Toggles \cup {"cancel"} /\ r.was \in Status /\ r.card \in Minted
<1>1. detail.id # 0
  BY DEF OpenInv, Book, RequestsInv
<1>2. r \in Asked /\ r.fn # "mint"
  BY <1>1 DEF Book, RequestsInv
<1>3. r.was \in Status /\ r.card \in Minted
  BY <1>2 DEF Book, RequestsInv
<1> QED BY <1>2, <1>3 DEF Asked, Writes

LEMMA RejectKeeps ==
    ASSUME Book, OpenInv, BadgeInv, NEW r \in requests, Reject(r)
    PROVE  Book' /\ OpenInv' /\ BadgeInv'
<1>0. /\ requests' = requests \ {r}
      /\ UNCHANGED <<chain, txs, service, gallery, selectedId, writes, mounts>>
  BY DEF Reject, world, limits
<1>1. IsOpen' = IsOpen
  BY <1>0 DEF IsOpen, gallery
<1>2. Book'
  BY <1>0 DEF Book, CardsInv, RequestsInv, TxsInv, FreshInv, Minted, Pending, service, gallery
<1>h. \A c : Heading(c)' = Heading(c)
  BY <1>0 DEF Heading, Pending, Becomes, Reverts
<1>3. CASE ~Heard(r)
  <2>1. detail' = detail
    BY <1>3 DEF Reject
  <2>2. IsOpen => r.detail # detail.id
    BY <1>3, SomeDetail DEF Heard
  <2>3. OpenInv'
    BY <1>0, <1>1, <2>1 DEF OpenInv
  <2>4. BadgeInv'
    BY <1>0, <1>1, <1>h, <2>1, <2>2 DEF BadgeInv, Flipped
  <2> QED BY <1>2, <2>3, <2>4
<1>4. CASE Heard(r)
  <2>1. IsOpen /\ r.detail = detail.id /\ detail' = [detail EXCEPT !.inFlight = FALSE, !.status = RolledBack(r)]
    BY <1>4, SomeDetail DEF Heard, Reject
  <2>2. r \in Asked
    BY DEF Book, RequestsInv
  <2>3. RolledBack(r) \in Status
    <3>1. CASE r.fn = "cancel"
      BY <2>1, <3>1 DEF RolledBack, OpenInv, Detail
    <3>2. CASE r.fn # "cancel"
      BY <2>1, <2>2, <3>2, HeardWrites DEF RolledBack
    <3> QED BY <3>1, <3>2
  <2>4. /\ detail' \in Detail /\ detail'.card = detail.card /\ detail'.id = detail.id
        /\ detail'.fresh = detail.fresh /\ detail'.status = RolledBack(r)
    BY <2>1, <2>3 DEF OpenInv, Detail
  <2>5. \A q \in requests' : q.detail # detail.id
    BY <1>0, <2>1 DEF OpenInv
  <2>6. OpenInv'
    BY <1>0, <1>1, <2>1, <2>4, <2>5 DEF OpenInv
  <2>7. BadgeInv'
    <3>1. SUFFICES ASSUME detail.fresh PROVE BadgeInv'
      BY <2>4 DEF BadgeInv
    <3>2. r.card = detail.card /\ \A q \in requests : q.detail = detail.id => q = r
      BY <2>1 DEF OpenInv
    <3>3. RolledBack(r) = Heading(detail.card)
      <4>1. CASE r.fn \in Toggles
        BY <2>1, <3>1, <4>1 DEF BadgeInv, RolledBack, Toggles
      <4>2. CASE r.fn \notin Toggles
        <5>1. r.fn = "cancel"
          BY <2>1, <2>2, <4>2, HeardWrites
        <5> QED BY <2>1, <3>1, <3>2, <4>2, <5>1 DEF BadgeInv, RolledBack
      <4> QED BY <4>1, <4>2
    <3>4. \A q \in requests' : q.card = detail.card => q.detail = detail.id
      BY <1>0, <2>1, <3>1 DEF BadgeInv
    <3> QED BY <1>h, <2>4, <2>5, <3>3, <3>4 DEF BadgeInv
  <2> QED BY <1>2, <2>6, <2>7
<1> QED BY <1>3, <1>4


LEMMA MineKeeps ==
    ASSUME Book, OpenInv, BadgeInv, Mine
    PROVE  Book' /\ OpenInv' /\ BadgeInv'
<1>0. UNCHANGED <<requests, service, gallery, selectedId, detail, writes, mounts>>
  BY DEF Mine, limits
<1>1. CardsInv /\ TxsInv /\ RequestsInv /\ FreshInv
  BY DEF Book
<1>2. txs' \in Seq(Sent) /\ \E i \in DOMAIN txs : Mined(i)
  BY <1>1, MineIs
<1>3. PICK i \in DOMAIN txs : Mined(i)
  BY <1>2
<1>4. /\ CardsInv' /\ Minted \subseteq Minted'
      /\ \A c \in Minted : chain'[c] =
                 IF txs[i].card = c THEN Becomes(txs[i].fn, chain[c]) ELSE chain[c]
  BY <1>0, <1>1, <1>3, MinedChain
<1>5. RequestsInv'
  BY <1>0, <1>1, <1>4 DEF RequestsInv
<1>6. TxsInv'
  <2>1. ASSUME NEW j \in DOMAIN txs, txs[j].fresh PROVE txs'[j].outcome # "reverted"
    <3>1. CASE j # i
      BY <1>1, <1>3, <2>1, <3>1 DEF Mined, TxsInv
    <3>2. CASE j = i
      <4>1. SUFFICES ASSUME txs'[i].outcome = "reverted" PROVE FALSE
        BY <3>2
      <4>2. txs[i].fn # "mint" /\ txs[i].fn # "cancel" /\ chain[txs[i].card] = "cancelled"
        BY <1>3, <4>1 DEF Mined, Reverts
      <4>3. PICK c : c = txs[i].card
        OBVIOUS
      <4>4. c \in Minted /\ c \in Nat /\ i \in Pending(c)
        BY <1>1, <1>3, <4>2, <4>3 DEF TxsInv, CardsInv, Minted, Mined, Pending
      <4>5. txs[i].fn \in Toggles
        BY <1>1, <4>2, <4>4, PendingToggles
      <4> QED BY <1>1, <2>1, <3>2, <4>2, <4>3, <4>4, <4>5 DEF FreshInv
    <3> QED BY <3>1, <3>2
  <2>2. ASSUME NEW j \in DOMAIN txs
        PROVE  IF txs'[j].fn = "mint" THEN txs'[j].card = NoCard ELSE txs'[j].card \in Minted'
    BY <1>1, <1>3, <1>4 DEF Mined, TxsInv
  <2> QED BY <1>2, <1>3, <2>1, <2>2 DEF TxsInv, Mined
<1>7. FreshInv'
  <2>1. SUFFICES ASSUME NEW c \in Minted', NEW j \in Pending(c)', txs'[j].fresh, txs'[j].fn \in Toggles
                 PROVE  /\ chain'[c] # "cancelled"
                        /\ \A k \in Pending(c)' : k < j => txs'[k].fn # "cancel"
    BY DEF FreshInv
  <2>2. Pending(c)' = Pending(c) \ {i} /\ \A k \in Pending(c)' : txs'[k].fn = txs[k].fn
    BY <1>1, <1>3, MinedPending
  <2>3. /\ j # i /\ j \in Pending(c) /\ j \in DOMAIN txs /\ txs[j].fn \in Toggles
        /\ txs[j].outcome = "pending" /\ txs[j].card = c
    BY <2>1, <2>2 DEF Pending
  <2>4. c \in Minted /\ txs[j].fresh
    BY <1>1, <1>3, <2>1, <2>3 DEF Mined, TxsInv, Toggles
  <2>5. chain[c] # "cancelled" /\ \A k \in Pending(c) : k < j => txs[k].fn # "cancel"
    BY <1>1, <2>3, <2>4 DEF FreshInv
  <2>6. chain'[c] # "cancelled"
    <3>1. CASE txs[i].card # c
      BY <1>4, <2>4, <2>5, <3>1
    <3>2. CASE txs[i].card = c
      <4>1. i \in Pending(c) /\ i < j
        BY <1>1, <1>3, <2>3, <3>2 DEF Mined, Pending, TxsInv
      <4>2. txs[i].fn \in Toggles
        <5>1. c \in Nat
          BY <1>1, <2>4 DEF CardsInv, Minted
        <5> QED BY <1>1, <2>5, <4>1, <5>1, PendingToggles
      <4>3. chain[c] \in Status
        BY <1>1, <2>4 DEF CardsInv, Minted
      <4> QED BY <1>4, <2>4, <2>5, <3>2, <4>2, <4>3, BecomesStatus
    <3> QED BY <3>1, <3>2
  <2> QED BY <2>2, <2>5, <2>6
<1>8. OpenInv'
  BY <1>0 DEF OpenInv, IsOpen, gallery
<1>9. BadgeInv'
  <2>1. SUFFICES ASSUME IsOpen, detail.fresh PROVE BadgeInv'
    BY <1>0 DEF BadgeInv, IsOpen, gallery
  <2>2. PICK c : c = detail.card
    OBVIOUS
  <2>3. c \in Minted
    BY <1>1, <2>1, <2>2 DEF OpenInv, IsOpen, CardsInv
  <2>4. Heading(c)' = Heading(c)
    BY <1>1, <1>3, <1>6, <2>3, HeadingMined
  <2> QED BY <1>0, <2>1, <2>2, <2>4 DEF BadgeInv, Flipped
<1> QED BY <1>4, <1>5, <1>6, <1>7, <1>8, <1>9 DEF Book

---------------------------------------------------------------------------
(* A confirmation. *)

\* Transaction t is sent.
Appended(t) ==
    LET n == Len(txs) + 1 IN
    /\ txs' \in Seq(Sent) /\ DOMAIN txs' = DOMAIN txs \cup {n} /\ n \notin DOMAIN txs
    /\ \A j \in DOMAIN txs : txs'[j] = txs[j] /\ j < n
    /\ txs'[n] = t

LEMMA AppendedIs ==
    ASSUME TxsInv, NEW t \in Sent, txs' = Append(txs, t)
    PROVE  Appended(t)
BY DEF TxsInv, Appended

LEMMA AppendedPending ==
    ASSUME NEW t, Appended(t), t.outcome = "pending", NEW c
    PROVE  /\ Pending(c)' = Pending(c) \cup (IF t.card = c THEN {Len(txs) + 1} ELSE {})
           /\ \A j \in Pending(c) : txs'[j].fn = txs[j].fn /\ j < Len(txs) + 1
BY DEF Appended, Pending

\* A toggle of a card that is not heading for its end is what it is heading for next.
LEMMA HeadingToggled ==
    ASSUME CardsInv, TxsInv, TxsInv', NEW t, Appended(t), t.outcome = "pending", t.fn \in Toggles,
           NEW c \in Minted, t.card = c, Heading(c) \in Status, Heading(c) # "cancelled",
           UNCHANGED chain
    PROVE  Heading(c)' = Becomes(t.fn, Heading(c))
<1> DEFINE n == Len(txs) + 1
<1>1. chain[c] # "cancelled" /\ chain[c] \in Status /\ \A i \in Pending(c) : txs[i].fn # "cancel"
  BY HeadingAlive DEF CardsInv, Minted
<1>2. Pending(c)' = Pending(c) \cup {n} /\ \A j \in Pending(c) : txs'[j].fn = txs[j].fn /\ j < n
  BY AppendedPending
<1>3. txs'[n].fn = t.fn /\ t.fn # "cancel" /\ n \in Nat
  BY DEF Appended, Toggles, TxsInv
<1>4. \A j \in Pending(c) : j \in Nat
  BY DEF Pending, TxsInv
<1> HIDE DEF n
<1>5. n \in Pending(c)' /\ (\A j \in Pending(c)' : j <= n) /\ \A j \in Pending(c)' : txs'[j].fn # "cancel"
  BY <1>1, <1>2, <1>3, <1>4
<1>6. Heading(c)' = Becomes(txs'[n].fn, chain'[c])
  BY <1>5, HeadingLastNext
<1> QED BY <1>1, <1>3, <1>6, BecomesStatus

LEMMA ConfirmKeeps ==
    ASSUME Book, OpenInv, BadgeInv, NEW r \in requests, Confirm(r)
    PROVE  Book' /\ OpenInv' /\ BadgeInv'
<1>0. CardsInv /\ TxsInv /\ RequestsInv /\ FreshInv
  BY DEF Book
<1> DEFINE n == Len(txs) + 1
<1>1. PICK t : /\ t = [fn |-> r.fn, card |-> r.card, detail |-> r.detail,
                       fresh |-> Heard(r) /\ detail.fresh, outcome |-> "pending"]
               /\ txs' = Append(txs, t)
  BY DEF Confirm
<1>2. /\ requests' = requests \ {r} /\ selectedId' = AfterWrite(r)
      /\ UNCHANGED <<chain, service, gallery, writes>>
      /\ RenderDetail(IF Heard(r) THEN [detail EXCEPT !.inFlight = FALSE] ELSE detail)
  BY DEF Confirm
<1>3. r \in Asked
  BY <1>0 DEF RequestsInv
<1>4. Heard(r) => IsOpen /\ r.detail = detail.id /\ detail \in Detail
  BY SomeDetail DEF Heard, OpenInv
<1>5. /\ t \in Sent /\ t.fn = r.fn /\ t.card = r.card /\ t.outcome = "pending"
      /\ t.fresh = (Heard(r) /\ detail.fresh)
  BY <1>1, <1>3, <1>4 DEF Sent, Asked, Detail
<1>6. Appended(t)
  BY <1>0, <1>1, <1>5, AppendedIs
<1>7. IF r.fn = "mint" THEN r.card = NoCard ELSE r.card \in Minted
  BY <1>0 DEF RequestsInv
<1>8. CardsInv'
  BY <1>0, <1>2 DEF CardsInv, service, gallery, Minted
<1>9. TxsInv'
  BY <1>0, <1>2, <1>5, <1>6, <1>7 DEF TxsInv, Appended, Minted
<1>10. FreshInv'
  <2>1. SUFFICES ASSUME NEW c \in Minted, NEW i \in Pending(c)', txs'[i].fresh, txs'[i].fn \in Toggles
                 PROVE  /\ chain[c] # "cancelled"
                        /\ \A j \in Pending(c)' : j < i => txs'[j].fn # "cancel"
    BY <1>2 DEF FreshInv, Minted
  <2>2. /\ Pending(c)' = Pending(c) \cup (IF t.card = c THEN {n} ELSE {})
        /\ \A j \in Pending(c) : txs'[j].fn = txs[j].fn /\ j < n
    BY <1>5, <1>6, AppendedPending
  <2>3. \A j \in Pending(c) : j \in DOMAIN txs /\ j \in Nat
    BY <1>0 DEF Pending, TxsInv
  <2>4. CASE i \in Pending(c)
    <3>1. txs'[i] = txs[i]
      BY <1>6, <2>3, <2>4 DEF Appended
    <3>2. chain[c] # "cancelled" /\ \A j \in Pending(c) : j < i => txs[j].fn # "cancel"
      BY <1>0, <2>1, <2>4, <3>1 DEF FreshInv
    <3>3. \A j \in Pending(c)' : j < i => j \in Pending(c)
      BY <1>0, <2>2, <2>3, <2>4 DEF TxsInv
    <3> QED BY <2>2, <3>2, <3>3
  <2>5. CASE i = n /\ t.card = c
    <3>1. txs'[i] = t
      BY <1>6, <2>5 DEF Appended
    <3>2. Heard(r) /\ detail.fresh /\ r.fn \in Toggles /\ c = r.card
      BY <1>5, <2>1, <2>5, <3>1
    <3>3. IsOpen /\ r.card = detail.card
      BY <1>4, <3>2 DEF OpenInv
    <3>4. Heading(c) # "cancelled"
      BY <1>4, <3>2, <3>3 DEF BadgeInv
    <3>5. chain[c] # "cancelled" /\ \A j \in Pending(c) : txs[j].fn # "cancel"
      BY <1>0, <3>4, HeadingAlive
    <3>6. \A j \in Pending(c)' : j < i => j \in Pending(c)
      BY <2>2, <2>5
    <3> QED BY <2>2, <3>5, <3>6
  <2> QED BY <2>2, <2>4, <2>5
<1>11. ASSUME mounts' = mounts
       PROVE  Book'
  <2>1. RequestsInv'
    BY <1>0, <1>2, <1>11 DEF RequestsInv, Minted
  <2> QED BY <1>8, <1>9, <1>10, <2>1 DEF Book
<1>12. cards' = cards
  BY <1>2 DEF gallery
<1>13. CASE selectedId' = NoCard
  <2>1. detail' = NoCard /\ mounts' = mounts
    BY <1>2, <1>13 DEF RenderDetail
  <2> QED BY <1>11, <1>13, <2>1 DEF OpenInv, BadgeInv, IsOpen
<1>14. CASE selectedId' # NoCard
  <2>1. selectedId' = selectedId /\ IsOpen' = IsOpen /\ ~(r.fn = "cancel" /\ r.here)
    BY <1>2, <1>12, <1>14 DEF AfterWrite, IsOpen
  <2>2. CASE ~IsOpen
    <3>1. detail' = NoCard /\ mounts' = mounts
      BY <1>2, <1>12, <1>14, <2>1, <2>2 DEF RenderDetail, IsOpen
    <3> QED BY <1>11, <2>1, <2>2, <3>1 DEF OpenInv, BadgeInv
  <2>3. CASE IsOpen /\ ~Heard(r)
    <3>1. detail # NoCard /\ r.detail # detail.id /\ detail.card = selectedId
      BY <2>3, SomeDetail DEF Heard, OpenInv
    <3>2. detail' = detail /\ mounts' = mounts
      BY <1>2, <1>12, <1>14, <2>1, <2>3, <3>1 DEF RenderDetail, IsOpen
    <3>3. OpenInv'
      BY <1>2, <2>1, <2>3, <3>2 DEF OpenInv
    <3>4. BadgeInv'
      <4>1. SUFFICES ASSUME detail.fresh PROVE BadgeInv'
        BY <3>2 DEF BadgeInv
      <4>2. PICK c : c = detail.card
        OBVIOUS
      <4>3. r.card # c
        BY <2>3, <3>1, <4>1, <4>2 DEF BadgeInv
      <4>4. Pending(c)' = Pending(c) /\ \A j \in Pending(c) : txs'[j].fn = txs[j].fn
        BY <1>5, <1>6, <4>3, AppendedPending, ZenonT(40)
      <4>5. Heading(c)' = Heading(c)
        BY <1>0, <1>2, <1>9, <4>4, HeadingSame
      <4> QED BY <1>2, <2>1, <2>3, <3>1, <3>2, <4>1, <4>2, <4>5 DEF BadgeInv, Flipped
    <3> QED BY <1>11, <3>2, <3>3, <3>4
  <2>4. CASE IsOpen /\ Heard(r)
    <3>1. r.detail = detail.id /\ r.card = detail.card /\ r.here /\ r.fn \in Toggles /\ r.card \in Minted
      BY <1>4, <2>1, <2>4, HeardWrites DEF OpenInv
    <3>2. PICK d : d = [detail EXCEPT !.inFlight = FALSE]
      OBVIOUS
    <3>3. d \in Detail /\ d.card = detail.card /\ d.id = detail.id /\ d.fresh = detail.fresh /\ d.status = detail.status
      BY <1>4, <2>4, <3>2 DEF Detail
    <3>4. d # NoCard /\ d.card = selectedId
      BY <2>4, <3>3, DrawerAssumption DEF OpenInv
    <3>5. detail' = d /\ mounts' = mounts
      BY <1>2, <1>12, <1>14, <2>1, <2>4, <3>2, <3>4 DEF RenderDetail, IsOpen
    <3>6. \A q \in requests' : q.detail # detail.id
      BY <1>2, <2>4, <3>1 DEF OpenInv
    <3>7. OpenInv'
      BY <2>1, <2>4, <3>3, <3>4, <3>5, <3>6 DEF OpenInv
    <3>8. BadgeInv'
      <4>1. SUFFICES ASSUME detail.fresh PROVE BadgeInv'
        BY <3>3, <3>5 DEF BadgeInv
      <4>2. PICK c : c = detail.card
        OBVIOUS
      <4>3. /\ r.was = Heading(c) /\ r.was # "cancelled" /\ detail.status = Flipped(r.was)
            /\ r.fn = IF r.was = "active" THEN "freeze" ELSE "unfreeze"
        BY <2>4, <3>1, <4>1, <4>2 DEF BadgeInv
      <4>4. r.was \in Status
        BY <2>4, <3>1, HeardWrites
      <4>5. Heading(c)' = Becomes(r.fn, r.was)
        BY <1>0, <1>2, <1>5, <1>6, <1>9, <3>1, <4>2, <4>3, <4>4, HeadingToggled
      <4>6. Becomes(r.fn, r.was) = Flipped(r.was)
        BY <4>3, <4>4 DEF Becomes, Reverts, Flipped, Status
      <4>7. \A q \in requests' : q.card # c
        BY <1>2, <2>4, <3>6, <4>1, <4>2 DEF BadgeInv
      <4> QED BY <3>3, <3>5, <3>6, <4>2, <4>3, <4>5, <4>6, <4>7 DEF BadgeInv
    <3> QED BY <1>11, <3>5, <3>7, <3>8
  <2> QED BY <2>2, <2>3, <2>4
<1> QED BY <1>13, <1>14

---------------------------------------------------------------------------

LEMMA DrawerStarts == DrawerInit => Book /\ OpenInv /\ BadgeInv
<1> SUFFICES ASSUME DrawerInit PROVE Book /\ OpenInv /\ BadgeInv
  OBVIOUS
<1>1. PICK n \in {0, MinCards} : chain \in [0..(n - 1) -> {"active", "frozen"}]
  BY DEF DrawerInit
<1>2. n \in Nat /\ Minted = 0..(n - 1) /\ Cardinality(0..(n - 1)) = n
  BY <1>1, DrawerAssumption, FS_Interval DEF Minted
<1>3. CardsInv
  BY <1>1, <1>2 DEF DrawerInit, CardsInv, NoRows, Status
<1>4. RequestsInv /\ TxsInv /\ FreshInv
  BY DEF DrawerInit, RequestsInv, TxsInv, FreshInv, Pending
<1>5. ~IsOpen /\ detail = NoCard
  BY DEF DrawerInit, IsOpen
<1> QED BY <1>3, <1>4, <1>5 DEF Book, OpenInv, BadgeInv

LEMMA DrawerStays == Book /\ OpenInv /\ BadgeInv /\ [DrawerNext]_drawerVars => (Book /\ OpenInv /\ BadgeInv)'
<1> SUFFICES ASSUME Book, OpenInv, BadgeInv, [DrawerNext]_drawerVars
             PROVE  Book' /\ OpenInv' /\ BadgeInv'
  OBVIOUS
<1>1. ASSUME DrawerNext, ~Mine PROVE CardsInv'
  BY <1>1, GallerySteps DEF Book
<1>2. ASSUME CardsInv', UNCHANGED <<world, requests, cards, selectedId, detail, writes, mounts>>
      PROVE  Book' /\ OpenInv' /\ BadgeInv'
  <2>1. UNCHANGED <<chain, txs, requests, cards, selectedId, detail, writes, mounts>>
    BY <1>2 DEF world
  <2>2. \A c : Heading(c)' = Heading(c)
    BY <2>1 DEF Heading, Pending, Becomes, Reverts
  <2> QED BY <1>2, <2>1, <2>2 DEF Book, RequestsInv, TxsInv, FreshInv, OpenInv, BadgeInv, IsOpen,
              Minted, Pending, Flipped
<1>3. CASE UNCHANGED drawerVars
  <2>1. CardsInv'
    BY <1>3 DEF drawerVars, world, service, gallery, Book, CardsInv, Minted
  <2> QED BY <1>2, <1>3, <2>1 DEF drawerVars, gallery, limits
<1>4. ASSUME DrawerNext, ~Mine,
             OpenMint \/ CloseMint \/ StoreCard \/ StoreOther \/ PollFeedSlow
                 \/ (PollArrives /\ UNCHANGED <<gallery, detail, mounts>>)
      PROVE  Book' /\ OpenInv' /\ BadgeInv'
  <2>1. UNCHANGED <<world, requests, cards, selectedId, detail, writes, mounts>>
    BY <1>4 DEF OpenMint, CloseMint, StoreCard, StoreOther, PollFeedSlow, PollArrives, gallery, limits
  <2> QED BY <1>1, <1>2, <1>4, <2>1
<1>5. CASE Mine
  BY <1>5, MineKeeps
<1>6. CASE ~Mine /\ DrawerNext
  <2>1. CASE \/ PollFeed \/ (PollArrives /\ ShowFeed(heldPoll)) \/ Close
             \/ (\E ok \in SUBSET feed : ReadCards(ok)) \/ \E c \in DOMAIN cards : Tap(c)
    BY <1>1, <1>6, <2>1, PageKeeps
  <2>7. PollArrives => ShowFeed(heldPoll) \/ UNCHANGED <<gallery, detail, mounts>>
    BY DEF PollArrives
  <2>2. CASE Reconnect
    BY <1>1, <1>6, <2>2, ReconnectKeeps
  <2>3. CASE Toggle
    BY <2>3, ToggleKeeps
  <2>4. CASE Cancel
    BY <2>4, CancelKeeps
  <2>5. CASE \E r \in requests : Confirm(r) \/ Reject(r)
    BY <2>5, ConfirmKeeps, RejectKeeps
  <2>6. CASE \E form \in Form : Mint(form)
    BY <2>6, MintKeeps
  <2> QED BY <1>4, <1>6, <2>1, <2>2, <2>3, <2>4, <2>5, <2>6, <2>7 DEF DrawerNext
<1> QED BY <1>3, <1>5, <1>6

\* The badge of a drawer opened with nothing under way is what the card is heading for, and no
\* write sent from it reverts: after any toggles, rejections, late blocks and reconnects.
THEOREM BadgesTellTheTruth == DrawerSpec => []DrawerInv
<1>1. Book /\ OpenInv /\ BadgeInv => DrawerInv
  <2> SUFFICES ASSUME Book, OpenInv, BadgeInv PROVE DrawerInv
    OBVIOUS
  <2>1. DrawerTypeOK
    <3>1. \A r \in requests : r.card \in Minted \cup {NoCard}
      BY DEF Book, RequestsInv
    <3>2. \A i \in DOMAIN txs : txs[i].outcome \in {"pending", "done", "reverted"}
      <4>1. \A i \in DOMAIN txs : txs[i] \in Sent
        BY DEF Book, TxsInv
      <4> QED BY <4>1 DEF Sent
    <3>3. detail # NoCard => detail.card = selectedId /\ selectedId \in DOMAIN cards
      BY SomeDetail DEF OpenInv, IsOpen
    <3> QED BY <3>1, <3>2, <3>3 DEF Book, CardsInv, DrawerTypeOK
  <2>2. FreshWritesSucceed
    BY DEF Book, TxsInv, FreshWritesSucceed
  <2>3. BadgeIsHonest
    <3>1. SUFFICES ASSUME detail # NoCard, detail.fresh PROVE detail.status = Outlook(detail)
      BY DEF BadgeIsHonest
    <3>2. IsOpen /\ detail.card \in Minted
      BY <3>1, SomeDetail DEF OpenInv, IsOpen, Book, CardsInv
    <3> DEFINE toggles == {r \in requests : r.detail = detail.id /\ r.fn \in {"freeze", "unfreeze"}}
    <3>3. CASE toggles = {}
      <4>1. detail.status = Heading(detail.card)
        BY <3>1, <3>2, <3>3 DEF BadgeInv, Toggles
      <4> QED BY <3>3, <4>1 DEF Outlook
    <3>4. CASE toggles # {}
      <4>1. PICK r : r = CHOOSE x \in toggles : TRUE
        OBVIOUS
      <4>2. r \in toggles
        BY <3>4, <4>1
      <4>3. Outlook(detail) = Becomes(r.fn, Heading(detail.card))
        BY <3>4, <4>1 DEF Outlook
      <4>4. r \in requests /\ r.detail = detail.id /\ r.fn \in Toggles
        BY <4>2 DEF Toggles
      <4>5. /\ r.was = Heading(detail.card) /\ r.was # "cancelled" /\ detail.status = Flipped(r.was)
            /\ r.fn = IF r.was = "active" THEN "freeze" ELSE "unfreeze"
        BY <3>1, <3>2, <4>4 DEF BadgeInv
      <4>6. r.was \in Status
        BY <3>2, <4>4, HeardWrites
      <4>7. Becomes(r.fn, r.was) = Flipped(r.was)
        BY <4>5, <4>6 DEF Becomes, Reverts, Flipped, Status
      <4> QED BY <4>3, <4>5, <4>7
    <3> QED BY <3>3, <3>4
  <2> QED BY <2>1, <2>2, <2>3 DEF DrawerInv
<1> QED BY <1>1, DrawerStarts, DrawerStays, PTL DEF DrawerSpec

=============================================================================
