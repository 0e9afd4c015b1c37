---------------------------- MODULE WebhooksProofs ----------------------------
(***************************************************************************)
(* Proofs about webhook delivery: the outbox is complete, outcomes are     *)
(* earned, nothing delivered is sent again, and an old snapshot is used    *)
(* once, for any events, endpoints, retry schedule and number of crashes.  *)
(*                                                                         *)
(* The dispatcher works from copies: of the batch, and of the row whose    *)
(* answer it awaits.  The invariant says what the copies still mean while  *)
(* the admin and the indexer change the tables under them (CopiesInv,      *)
(* SnapshotsInv).                                                          *)
(***************************************************************************)
EXTENDS Webhooks, TLAPS

Known == events \X (1..(nextId - 1))

\* TypeOK, and what it leaves open.
TablesInv ==
    /\ events \subseteq Event
    /\ nextId \in 1..(MaxEndpoints + 1)
    /\ DOMAIN endpoints \subseteq 1..(nextId - 1)
    /\ \A ep \in DOMAIN endpoints : endpoints[ep] \in [paused : BOOLEAN, secret : Nat]
    /\ DOMAIN deliveries \subseteq events \X DOMAIN endpoints
    /\ \A d \in DOMAIN deliveries : deliveries[d] \in Row
    /\ NoEventLost

\* Copies are of rows that were there once, each in one place, and never ahead of their
\* row: a row that is not dead has as many attempts as its copy, or more.
CopiesInv ==
    /\ DOMAIN batch \subseteq Known
    /\ \A d \in DOMAIN batch : batch[d] \in Snapshot
    /\ inflight # Idle =>
          /\ inflight.delivery \in Known /\ inflight.delivery \notin DOMAIN batch
          /\ inflight.attempts \in Nat
          /\ inflight.delivery \in DOMAIN deliveries =>
                inflight.attempts <= deliveries[inflight.delivery].attempts
    /\ \A d \in DOMAIN batch \cap DOMAIN deliveries :
          ~deliveries[d].delivered /\ batch[d].attempts <= deliveries[d].attempts

\* A copy became outdated after it was last sent, if it ever was.
SnapshotsInv ==
    /\ stale \in [Delivery -> Nat]
    /\ StaleAtMostOnce
    /\ \A d \in DOMAIN batch : Outdated(d) => stale[d] = 0

DispatchInv == TablesInv /\ CopiesInv /\ SnapshotsInv /\ OutcomesAreEarned

---------------------------------------------------------------------------
(* Tables. *)

LEMMA Numbers == MaxEndpoints \in Nat /\ MaxRetries \in Nat
BY WebhooksAssumption

LEMMA KnownIsDelivery == TablesInv => Known \subseteq Delivery /\ DOMAIN deliveries \subseteq Known
<1> SUFFICES ASSUME TablesInv PROVE Known \subseteq Delivery /\ DOMAIN deliveries \subseteq Known
  OBVIOUS
<1>1. 1..(nextId - 1) \subseteq EndpointIds
  BY Numbers DEF TablesInv, EndpointIds
<1> QED BY <1>1 DEF TablesInv, Known, Delivery

\* A restart leaves the endpoints as they are, or adds one under a new id.
LEMMA Bootstraps ==
    ASSUME TablesInv
    PROVE  \/ Bootstrapped(endpoints, nextId) = <<endpoints, nextId>>
           \/ /\ nextId <= MaxEndpoints
              /\ Bootstrapped(endpoints, nextId)
                    = <<Put(endpoints, nextId, NewEndpoint), nextId + 1>>
BY DEF Bootstrapped

\* A new endpoint has no deliveries yet.
LEMMA NewEndpointInv ==
    ASSUME TablesInv, nextId <= MaxEndpoints, nextId' = nextId + 1,
           DOMAIN endpoints' = DOMAIN endpoints \cup {nextId},
           \A ep \in DOMAIN endpoints' :
                endpoints'[ep] = IF ep = nextId THEN NewEndpoint ELSE endpoints[ep],
           UNCHANGED <<events, deliveries, owed>>
    PROVE  TablesInv'
<1> USE Numbers DEF TablesInv
<1>1. nextId' \in 1..(MaxEndpoints + 1) /\ DOMAIN endpoints' \subseteq 1..(nextId' - 1)
  OBVIOUS
<1>2. NewEndpoint \in [paused : BOOLEAN, secret : Nat]
  BY DEF NewEndpoint
<1>3. \A ep \in DOMAIN endpoints' : endpoints'[ep] \in [paused : BOOLEAN, secret : Nat]
  BY <1>2
<1>4. DOMAIN deliveries' \subseteq events' \X DOMAIN endpoints'
  OBVIOUS
<1> QED BY <1>1, <1>3, <1>4 DEF NoEventLost

---------------------------------------------------------------------------
(* The invariant. *)

LEMMA DispatchInvInit == Init => DispatchInv
<1> SUFFICES ASSUME Init PROVE DispatchInv
  OBVIOUS
<1> USE Numbers DEF Init, Empty
<1>1. TablesInv
  <2>1. CASE EnvEndpoint /\ 1 <= MaxEndpoints
    <3>1. Bootstrapped(Empty, 1) = <<Put(Empty, 1, NewEndpoint), 2>>
      BY <2>1 DEF Bootstrapped
    <3>2. endpoints = Put(Empty, 1, NewEndpoint) /\ nextId = 2
      BY <3>1
    <3>3. DOMAIN endpoints = {1} /\ endpoints[1] = NewEndpoint
      BY <3>2 DEF Put
    <3>4. NewEndpoint \in [paused : BOOLEAN, secret : Nat]
      BY DEF NewEndpoint
    <3>5. DOMAIN deliveries = {} /\ owed = {} /\ events = {}
      OBVIOUS
    <3> QED BY <2>1, <3>2, <3>3, <3>4, <3>5 DEF TablesInv, NoEventLost
  <2>2. CASE ~(EnvEndpoint /\ 1 <= MaxEndpoints)
    <3>1. endpoints = Empty /\ nextId = 1
      BY <2>2 DEF Bootstrapped
    <3> QED BY <3>1 DEF TablesInv, NoEventLost
  <2> QED BY <2>1, <2>2
<1>2. CopiesInv
  BY DEF CopiesInv
<1>3. SnapshotsInv
  BY DEF SnapshotsInv, StaleAtMostOnce
<1>4. OutcomesAreEarned
  BY DEF OutcomesAreEarned, DeliveredWasReceived, DeadAfterAllRetries
<1> QED BY <1>1, <1>2, <1>3, <1>4 DEF DispatchInv

LEMMA InsertEventInv ==
    ASSUME DispatchInv, NEW ev \in Event, NEW when \in {"due", "later"}, InsertEvent(ev, when)
    PROVE  DispatchInv'
<1> USE Numbers DEF DispatchInv
<1> DEFINE new == {<<ev, ep>> : ep \in DOMAIN endpoints}
           row == [attempts |-> 0, next |-> when, delivered |-> FALSE]
<1>1. /\ ev \notin events /\ events' = events \cup {ev}
      /\ DOMAIN deliveries' = DOMAIN deliveries \cup new
      /\ \A d \in DOMAIN deliveries : deliveries'[d] = deliveries[d]
      /\ \A d \in new \ DOMAIN deliveries : deliveries'[d] = row
      /\ owed' = owed \cup new
      /\ endpoints' = endpoints /\ nextId' = nextId /\ batch' = batch /\ inflight' = inflight
      /\ received' = received /\ stale' = stale
  BY DEF InsertEvent, EnqueuedFor, dispatcher
<1>2. \A d \in new : d[1] = ev /\ d \notin Known
  BY <1>1 DEF Known
<1>3. row \in Row
  BY DEF Row
<1>4. TablesInv'
  BY <1>1, <1>3 DEF TablesInv, NoEventLost
<1>5. CopiesInv'
  BY <1>1, <1>2 DEF CopiesInv, Known
<1>6. SnapshotsInv'
  BY <1>1 DEF SnapshotsInv, StaleAtMostOnce, Outdated
<1>7. OutcomesAreEarned'
  BY <1>1 DEF OutcomesAreEarned, DeliveredWasReceived, DeadAfterAllRetries
<1> QED BY <1>4, <1>5, <1>6, <1>7

\* Only the time of the next attempt of one row that is not dead by it changes.
LEMMA RescheduledInv ==
    ASSUME DispatchInv, NEW d \in DOMAIN deliveries,
           deliveries' = [deliveries EXCEPT ![d].next = "due"],
           UNCHANGED <<events, endpoints, nextId, dispatcher, received, owed, stale>>
    PROVE  DispatchInv'
<1> USE Numbers DEF DispatchInv, dispatcher
<1>1. /\ DOMAIN deliveries' = DOMAIN deliveries
      /\ \A x \in DOMAIN deliveries : x # d => deliveries'[x] = deliveries[x]
      /\ deliveries'[d] \in Row /\ deliveries'[d].next = "due"
      /\ deliveries'[d].attempts = deliveries[d].attempts
      /\ deliveries'[d].delivered = deliveries[d].delivered
  BY DEF TablesInv, Row
<1>2. TablesInv'
  BY <1>1 DEF TablesInv, NoEventLost
<1>3. CopiesInv'
  BY <1>1 DEF CopiesInv, Known
<1>4. SnapshotsInv'
  BY DEF SnapshotsInv, StaleAtMostOnce, Outdated
<1>5. OutcomesAreEarned'
  BY <1>1 DEF OutcomesAreEarned, DeliveredWasReceived, DeadAfterAllRetries
<1> QED BY <1>2, <1>3, <1>4, <1>5

---------------------------------------------------------------------------
(* The dispatcher. *)

LEMMA StartBatchInv == ASSUME DispatchInv, StartBatch PROVE DispatchInv'
<1> USE Numbers DEF DispatchInv, StartBatch
<1>1. /\ DOMAIN batch' = DuePending
      /\ \A d \in DuePending :
            batch'[d] = [attempts |-> deliveries[d].attempts, secret |-> endpoints[d[2]].secret]
      /\ UNCHANGED <<events, endpoints, nextId, deliveries, inflight, received, owed, stale>>
  BY DEF tables, history
<1>2. \A d \in DuePending : /\ d \in DOMAIN deliveries /\ d \in Known
                            /\ d[2] \in DOMAIN endpoints
                            /\ ~deliveries[d].delivered /\ ~endpoints[d[2]].paused
  BY KnownIsDelivery DEF DuePending, TablesInv
<1>3. \A d \in DuePending : batch'[d] \in Snapshot /\ batch'[d].secret = endpoints[d[2]].secret
                            /\ batch'[d].attempts = deliveries[d].attempts
                            /\ deliveries[d].attempts \in Nat
  BY <1>1, <1>2 DEF TablesInv, Row, Snapshot
<1>4. TablesInv'
  BY <1>1 DEF TablesInv, NoEventLost
<1>5. CopiesInv'
  BY <1>1, <1>2, <1>3 DEF CopiesInv, Known
<1>6. SnapshotsInv'
  BY <1>1, <1>2, <1>3 DEF SnapshotsInv, StaleAtMostOnce, Outdated
<1>7. OutcomesAreEarned'
  BY <1>1 DEF OutcomesAreEarned, DeliveredWasReceived, DeadAfterAllRetries
<1> QED BY <1>4, <1>5, <1>6, <1>7

LEMMA SendInv == ASSUME DispatchInv, NEW d \in Delivery, Send(d) PROVE DispatchInv'
<1> USE Numbers DEF DispatchInv, Send
<1>1. /\ d \in DOMAIN batch /\ DOMAIN batch' = DOMAIN batch \ {d}
      /\ \A x \in DOMAIN batch' : batch'[x] = batch[x]
      /\ inflight' = [delivery |-> d, attempts |-> batch[d].attempts]
      /\ stale' = [stale EXCEPT ![d] = IF Outdated(d) THEN stale[d] + 1 ELSE stale[d]]
      /\ UNCHANGED <<events, endpoints, nextId, deliveries, received, owed>>
  <2>1. DOMAIN batch' = DOMAIN batch \ {d} /\ \A x \in DOMAIN batch' : batch'[x] = batch[x]
    BY DEF Without
  <2> QED BY <2>1 DEF tables
<1>2. inflight'.delivery = d /\ inflight'.attempts = batch[d].attempts
  BY <1>1
<1>3. TablesInv'
  BY <1>1 DEF TablesInv, NoEventLost
<1>4. CopiesInv'
  BY <1>1, <1>2 DEF CopiesInv, Known, Snapshot
<1>5. SnapshotsInv'
  <2>1. stale' \in [Delivery -> Nat] /\ stale'[d] <= 1 /\ \A x \in Delivery : x # d => stale'[x] = stale[x]
    BY <1>1 DEF SnapshotsInv, StaleAtMostOnce
  <2>2. \A x \in DOMAIN batch' : x # d /\ x \in DOMAIN batch /\ x \in Delivery /\ (Outdated(x)' <=> Outdated(x))
    BY <1>1, KnownIsDelivery DEF Outdated, CopiesInv
  <2> QED BY <2>1, <2>2 DEF SnapshotsInv, StaleAtMostOnce
<1>6. OutcomesAreEarned'
  BY <1>1 DEF OutcomesAreEarned, DeliveredWasReceived, DeadAfterAllRetries
<1> QED BY <1>3, <1>4, <1>5, <1>6

\* An answer, or none, changes the row of the delivery in flight, if it is still there.
LEMMA SucceedInv == ASSUME DispatchInv, Succeed PROVE DispatchInv'
<1> USE Numbers DEF DispatchInv, Succeed
<1> DEFINE d == inflight.delivery
<1>1. /\ DOMAIN deliveries' = DOMAIN deliveries
      /\ \A x \in DOMAIN deliveries : x # d => deliveries'[x] = deliveries[x]
      /\ d \in DOMAIN deliveries =>
            deliveries'[d] \in Row /\ deliveries'[d].delivered
            /\ deliveries'[d].attempts = deliveries[d].attempts
      /\ inflight' = Idle /\ received' = received \cup {d} /\ d \notin DOMAIN batch
      /\ UNCHANGED <<events, endpoints, nextId, batch, owed, stale>>
  BY DEF MarkDelivered, TablesInv, Row, CopiesInv
<1>2. TablesInv'
  BY <1>1 DEF TablesInv, NoEventLost
<1>3. CopiesInv'
  BY <1>1 DEF CopiesInv, Known
<1>4. SnapshotsInv'
  BY <1>1 DEF SnapshotsInv, StaleAtMostOnce, Outdated
<1>5. OutcomesAreEarned'
  BY <1>1 DEF OutcomesAreEarned, DeliveredWasReceived, DeadAfterAllRetries
<1> QED BY <1>2, <1>3, <1>4, <1>5

LEMMA FailInv == ASSUME DispatchInv, Fail PROVE DispatchInv'
<1> USE Numbers DEF DispatchInv, Fail
<1> DEFINE d == inflight.delivery
<1>1. /\ DOMAIN deliveries' = DOMAIN deliveries
      /\ \A x \in DOMAIN deliveries : x # d => deliveries'[x] = deliveries[x]
      /\ d \in DOMAIN deliveries =>
            /\ deliveries'[d] \in Row /\ deliveries'[d].attempts = deliveries[d].attempts + 1
            /\ deliveries'[d].delivered = deliveries[d].delivered
            /\ deliveries'[d].next = Retry(inflight.attempts)
      /\ inflight # Idle /\ inflight' = Idle /\ received \subseteq received'
      /\ UNCHANGED <<events, endpoints, nextId, batch, owed, stale>>
  <2> DEFINE next == Retry(inflight.attempts)
  <2>1. next \in {"later", "none"}
    BY DEF Retry
  <2>2. deliveries' = [x \in DOMAIN deliveries |->
            IF x = d THEN [deliveries[d] EXCEPT !.attempts = @ + 1, !.next = next]
            ELSE deliveries[x]]
    BY DEF MarkFailed
  <2>3. d \in DOMAIN deliveries => deliveries[d] \in Row
    BY DEF TablesInv
  <2> HIDE DEF next
  <2>4. d \in DOMAIN deliveries =>
            /\ deliveries'[d] \in Row /\ deliveries'[d].attempts = deliveries[d].attempts + 1
            /\ deliveries'[d].delivered = deliveries[d].delivered
            /\ deliveries'[d].next = next
    <3> SUFFICES ASSUME d \in DOMAIN deliveries
                 PROVE  /\ deliveries'[d] \in Row
                        /\ deliveries'[d].attempts = deliveries[d].attempts + 1
                        /\ deliveries'[d].delivered = deliveries[d].delivered
                        /\ deliveries'[d].next = next
      OBVIOUS
    <3> DEFINE row == deliveries[d]
    <3>1. deliveries'[d] = [row EXCEPT !.attempts = row.attempts + 1, !.next = next]
      BY <2>2
    <3>2. row \in [attempts : Nat, next : {"due", "later", "none"}, delivered : BOOLEAN]
      BY <2>3 DEF Row
    <3>3. row.attempts + 1 \in Nat /\ row.delivered \in BOOLEAN
      BY <3>2
    <3>4. deliveries'[d] = [attempts |-> row.attempts + 1, next |-> next,
                            delivered |-> row.delivered]
      <4> HIDE DEF row, d
      <4> QED BY <3>1, <3>2
    <3> HIDE DEF row, d
    <3>5. deliveries'[d] \in Row
      BY <2>1, <3>3, <3>4 DEF Row
    <3>6. /\ deliveries'[d].attempts = row.attempts + 1
          /\ deliveries'[d].delivered = row.delivered
          /\ deliveries'[d].next = next
      BY <3>4
    <3> QED BY <3>5, <3>6 DEF row
  <2> QED BY <2>2, <2>4 DEF next
<1>2. d \notin DOMAIN batch /\ inflight.attempts \in Nat
      /\ (d \in DOMAIN deliveries =>
            inflight.attempts <= deliveries[d].attempts /\ deliveries[d].attempts \in Nat)
  BY <1>1 DEF CopiesInv, TablesInv, Row
<1>3. TablesInv'
  BY <1>1 DEF TablesInv, NoEventLost
<1>4. CopiesInv'
  BY <1>1, <1>2 DEF CopiesInv, Known
<1>5. SnapshotsInv'
  BY <1>1 DEF SnapshotsInv, StaleAtMostOnce, Outdated
<1>6. OutcomesAreEarned'
  <2>1. d \in DOMAIN deliveries /\ deliveries'[d].next = "none" => deliveries'[d].attempts > MaxRetries
    BY <1>1, <1>2 DEF Retry
  <2> QED BY <1>1, <2>1 DEF OutcomesAreEarned, DeliveredWasReceived, DeadAfterAllRetries
<1> QED BY <1>3, <1>4, <1>5, <1>6

LEMMA CrashInv == ASSUME DispatchInv, Crash PROVE DispatchInv'
<1> USE Numbers DEF DispatchInv, Crash
<1>1. /\ DOMAIN batch' = {} /\ inflight' = Idle /\ received \subseteq received'
      /\ UNCHANGED <<events, deliveries, owed, stale>>
  BY DEF Empty
<1>2. TablesInv'
  <2>1. CASE endpoints' = endpoints /\ nextId' = nextId
    BY <1>1, <2>1 DEF TablesInv, NoEventLost
  <2>2. CASE /\ nextId <= MaxEndpoints /\ nextId' = nextId + 1
             /\ endpoints' = Put(endpoints, nextId, NewEndpoint)
    <3>1. /\ DOMAIN endpoints' = DOMAIN endpoints \cup {nextId}
          /\ \A ep \in DOMAIN endpoints' :
                endpoints'[ep] = IF ep = nextId THEN NewEndpoint ELSE endpoints[ep]
      BY <2>2 DEF Put
    <3> QED BY <1>1, <2>2, <3>1, NewEndpointInv
  <2> QED BY <2>1, <2>2, Bootstraps
<1>3. CopiesInv'
  BY <1>1 DEF CopiesInv
<1>4. SnapshotsInv'
  BY <1>1 DEF SnapshotsInv, StaleAtMostOnce
<1>5. OutcomesAreEarned'
  BY <1>1 DEF OutcomesAreEarned, DeliveredWasReceived, DeadAfterAllRetries
<1> QED BY <1>2, <1>3, <1>4, <1>5

---------------------------------------------------------------------------
(* The admin. *)

LEMMA CreateEndpointInv == ASSUME DispatchInv, CreateEndpoint PROVE DispatchInv'
<1> USE Numbers DEF DispatchInv, CreateEndpoint
<1>1. /\ nextId <= MaxEndpoints /\ nextId' = nextId + 1
      /\ DOMAIN endpoints' = DOMAIN endpoints \cup {nextId}
      /\ \A ep \in DOMAIN endpoints' :
            endpoints'[ep] = IF ep = nextId THEN NewEndpoint ELSE endpoints[ep]
      /\ UNCHANGED <<events, deliveries, batch, inflight, received, owed, stale>>
  BY DEF Put, dispatcher, history
<1>2. TablesInv'
  BY <1>1, NewEndpointInv
<1>3. Known \subseteq Known'
  BY <1>1 DEF Known, TablesInv
<1>4. CopiesInv'
  BY <1>1, <1>3 DEF CopiesInv
<1>5. SnapshotsInv'
  <2>1. nextId \notin DOMAIN endpoints /\ \A d \in DOMAIN batch : d[2] # nextId
    BY DEF CopiesInv, Known, TablesInv
  <2> QED BY <1>1, <2>1 DEF SnapshotsInv, StaleAtMostOnce, Outdated
<1>6. OutcomesAreEarned'
  BY <1>1 DEF OutcomesAreEarned, DeliveredWasReceived, DeadAfterAllRetries
<1> QED BY <1>2, <1>4, <1>5, <1>6

LEMMA DeleteEndpointInv ==
    ASSUME DispatchInv, NEW ep \in EndpointIds, DeleteEndpoint(ep) PROVE DispatchInv'
<1> USE Numbers DEF DispatchInv
<1> DEFINE gone == {d \in Delivery : d[2] = ep}
<1>1. /\ DOMAIN endpoints' = DOMAIN endpoints \ {ep}
      /\ \A e \in DOMAIN endpoints' : endpoints'[e] = endpoints[e]
      /\ DOMAIN deliveries' = DOMAIN deliveries \ gone
      /\ \A d \in DOMAIN deliveries' : deliveries'[d] = deliveries[d]
      /\ owed' = owed \ gone
      /\ stale' = [d \in Delivery |-> IF d \in gone THEN 0 ELSE stale[d]]
      /\ UNCHANGED <<events, nextId, batch, inflight, received>>
  <2>1. /\ endpoints' = Without(endpoints, {ep}) /\ deliveries' = Without(deliveries, gone)
        /\ owed' = owed \ gone
        /\ stale' = [d \in Delivery |-> IF d \in gone THEN 0 ELSE stale[d]]
        /\ UNCHANGED <<events, nextId, batch, inflight, received>>
    BY DEF DeleteEndpoint, dispatcher
  <2> HIDE DEF gone
  <2> QED BY <2>1 DEF Without
<1>2. \A d \in DOMAIN deliveries' : d[2] # ep
  BY <1>1, KnownIsDelivery
<1>3. TablesInv'
  <2>1. DOMAIN deliveries' \subseteq events \X (DOMAIN endpoints \ {ep})
    BY <1>1, <1>2 DEF TablesInv
  <2> QED BY <1>1, <2>1 DEF TablesInv, NoEventLost
<1>4. CopiesInv'
  BY <1>1 DEF CopiesInv, Known
<1>5. SnapshotsInv'
  <2>1. stale' \in [Delivery -> Nat] /\ \A d \in Delivery : stale'[d] = 0 \/ stale'[d] = stale[d]
    BY <1>1 DEF SnapshotsInv
  <2>2. ASSUME NEW d \in DOMAIN batch, d[2] = ep PROVE stale'[d] = 0
    BY <1>1, <2>2, KnownIsDelivery DEF CopiesInv
  <2>3. ASSUME NEW d \in DOMAIN batch, d[2] # ep PROVE stale'[d] = stale[d] /\ (Outdated(d)' => Outdated(d))
    BY <1>1, <2>3, KnownIsDelivery DEF CopiesInv, Outdated
  <2> QED BY <1>1, <2>1, <2>2, <2>3 DEF SnapshotsInv, StaleAtMostOnce
<1>6. OutcomesAreEarned'
  BY <1>1 DEF OutcomesAreEarned, DeliveredWasReceived, DeadAfterAllRetries
<1> QED BY <1>3, <1>4, <1>5, <1>6

LEMMA ChangeEndpointInv ==
    ASSUME DispatchInv, NEW ep \in EndpointIds, NEW changed \in [paused : BOOLEAN, secret : Nat],
           ChangeEndpoint(ep, changed)
    PROVE  DispatchInv'
<1> USE Numbers DEF DispatchInv
<1>1. /\ DOMAIN endpoints' = DOMAIN endpoints
      /\ \A e \in DOMAIN endpoints : endpoints'[e] = IF e = ep THEN changed ELSE endpoints[e]
      /\ stale' = [d \in Delivery |-> IF d[2] = ep THEN 0 ELSE stale[d]]
      /\ UNCHANGED <<events, nextId, deliveries, batch, inflight, received, owed>>
  BY DEF ChangeEndpoint, dispatcher
<1>2. TablesInv'
  BY <1>1 DEF TablesInv, NoEventLost
<1>3. CopiesInv'
  BY <1>1 DEF CopiesInv, Known
<1>4. SnapshotsInv'
  <2>1. stale' \in [Delivery -> Nat] /\ \A d \in Delivery : stale'[d] = 0 \/ stale'[d] = stale[d]
    BY <1>1 DEF SnapshotsInv
  <2>2. ASSUME NEW d \in DOMAIN batch, d[2] = ep PROVE stale'[d] = 0
    BY <1>1, <2>2, KnownIsDelivery DEF CopiesInv
  <2>3. ASSUME NEW d \in DOMAIN batch, d[2] # ep PROVE stale'[d] = stale[d] /\ (Outdated(d)' => Outdated(d))
    BY <1>1, <2>3, KnownIsDelivery DEF CopiesInv, Outdated
  <2> QED BY <1>1, <2>1, <2>2, <2>3 DEF SnapshotsInv, StaleAtMostOnce
<1>5. OutcomesAreEarned'
  BY <1>1 DEF OutcomesAreEarned, DeliveredWasReceived, DeadAfterAllRetries
<1> QED BY <1>2, <1>3, <1>4, <1>5

---------------------------------------------------------------------------

LEMMA DispatchInvNext == DispatchInv /\ [Next]_vars => DispatchInv'
<1> SUFFICES ASSUME DispatchInv, [Next]_vars PROVE DispatchInv'
  OBVIOUS
<1>1. ASSUME NEW ev \in Event, NEW when \in {"due", "later"}, InsertEvent(ev, when)
      PROVE  DispatchInv'
  BY <1>1, InsertEventInv
<1>2. ASSUME NEW d \in Delivery, Elapse(d) \/ Resend(d) PROVE DispatchInv'
  BY <1>2, RescheduledInv DEF Elapse, Resend, history
<1>3. CASE Dispatch
  BY <1>3, StartBatchInv, SendInv, SucceedInv, FailInv DEF Dispatch
<1>4. CASE Crash
  BY <1>4, CrashInv
<1>5. CASE CreateEndpoint
  BY <1>5, CreateEndpointInv
<1>6. ASSUME NEW ep \in EndpointIds, DeleteEndpoint(ep) PROVE DispatchInv'
  BY <1>6, DeleteEndpointInv
<1>7. ASSUME NEW ep \in EndpointIds, RotateEndpointSecret(ep) PROVE DispatchInv'
  <2>1. [endpoints[ep] EXCEPT !.secret = endpoints[ep].secret + 1] \in [paused : BOOLEAN, secret : Nat]
    BY <1>7 DEF RotateEndpointSecret, DispatchInv, TablesInv
  <2> QED BY <1>7, <2>1, ChangeEndpointInv DEF RotateEndpointSecret
<1>8. ASSUME NEW ep \in EndpointIds, NEW p \in BOOLEAN, SetEndpointPaused(ep, p) PROVE DispatchInv'
  <2>1. [endpoints[ep] EXCEPT !.paused = p] \in [paused : BOOLEAN, secret : Nat]
    BY <1>8 DEF SetEndpointPaused, DispatchInv, TablesInv
  <2> QED BY <1>8, <2>1, ChangeEndpointInv DEF SetEndpointPaused
<1>9. CASE UNCHANGED vars
  BY <1>9 DEF vars, tables, dispatcher, history, DispatchInv, TablesInv, NoEventLost, CopiesInv,
              Known, SnapshotsInv, StaleAtMostOnce, Outdated, OutcomesAreEarned,
              DeliveredWasReceived, DeadAfterAllRetries
<1> QED BY <1>1, <1>2, <1>3, <1>4, <1>5, <1>6, <1>7, <1>8, <1>9 DEF Next, Admin

LEMMA DispatchInvariant == Spec => []DispatchInv
BY DispatchInvInit, DispatchInvNext, PTL DEF Spec

---------------------------------------------------------------------------
(* Theorems. *)

\* Every event reaches the outbox of every endpoint that existed, for as long as that
\* endpoint exists, and every delivery is of an event and an endpoint that exist.
THEOREM OutboxComplete == Spec => []OutboxInv
<1>1. DispatchInv => OutboxInv
  BY KnownIsDelivery DEF DispatchInv, TablesInv, CopiesInv, OutboxInv, TypeOK
<1> QED BY <1>1, DispatchInvariant, PTL

\* Delivered means received and dead means that every attempt was made, whatever crashes,
\* timeouts, stale copies and resends come between.
THEOREM OutcomesEarned == Spec => []OutcomesAreEarned
<1>1. DispatchInv => OutcomesAreEarned
  BY DEF DispatchInv
<1> QED BY <1>1, DispatchInvariant, PTL

\* A paused, deleted or rotated endpoint gets at most one more request per delivery from
\* the batch that was read before.
THEOREM OldSnapshotsEnd == Spec => []StaleAtMostOnce
<1>1. DispatchInv => StaleAtMostOnce
  BY DEF DispatchInv, SnapshotsInv
<1> QED BY <1>1, DispatchInvariant, PTL

\* What is recorded as delivered is not sent again.
THEOREM DeliveredIsFinal == Spec => DeliveredOnlyOnce
<1>1. DispatchInv /\ [Next]_vars =>
        [\A d \in DOMAIN deliveries :
            deliveries[d].delivered /\ inflight' # inflight /\ inflight' # Idle
                => inflight'.delivery # d]_vars
  <2> SUFFICES ASSUME DispatchInv, [Next]_vars, NEW d \in DOMAIN deliveries,
                      deliveries[d].delivered, inflight' # inflight, inflight' # Idle
               PROVE  inflight'.delivery # d
    OBVIOUS
  <2>1. PICK x \in Delivery : Send(x)
    <3>1. ~UNCHANGED vars
      BY DEF vars, dispatcher
    <3>2. ~Crash /\ ~Admin /\ ~(\E y \in Delivery : Elapse(y))
          /\ ~(\E ev \in Event, when \in {"due", "later"} : InsertEvent(ev, when))
      BY DEF Crash, Admin, CreateEndpoint, DeleteEndpoint, RotateEndpointSecret,
             SetEndpointPaused, ChangeEndpoint, Resend, Elapse, InsertEvent, dispatcher
    <3>3. ~StartBatch /\ ~Succeed /\ ~Fail
      BY DEF StartBatch, Succeed, Fail
    <3> QED BY <3>1, <3>2, <3>3 DEF Next, Dispatch
  <2>2. inflight'.delivery = x /\ x \in DOMAIN batch
    BY <2>1 DEF Send
  <2> QED BY <2>2 DEF DispatchInv, CopiesInv
<1> QED BY <1>1, DispatchInvariant, PTL DEF Spec, DeliveredOnlyOnce

=============================================================================
