------------------------------- MODULE Webhooks -------------------------------
(***************************************************************************)
(* Webhook delivery of the service: the deliveries table of Store          *)
(* (packages/service/src/db.ts), the Dispatcher (webhooks.ts) that works   *)
(* through it, and the admin API (ingest.ts) that changes endpoints and    *)
(* deliveries whenever the dispatcher awaits an answer.                    *)
(*                                                                         *)
(* Time is left out: next_attempt_at is "due" (not after now), "later" or  *)
(* "none" (NULL), and a later one becomes due on its own.  Of the retry    *)
(* table only its length remains.  Each database call is atomic: it is a   *)
(* synchronous SQLite statement or transaction.                            *)
(***************************************************************************)
EXTENDS Integers, FiniteSets

CONSTANTS
    Event,          \* ids of events, from the indexer, the monitors and /ingest
    MaxEndpoints,   \* bound: endpoints ever created (AUTOINCREMENT ids)
    MaxRetries,     \* RETRY_DELAYS_S.length
    MaxResends,     \* bound: resends by the admin
    MaxChanges,     \* bound: pauses, resumes and rotations by the admin
    MaxCrashes,     \* bound: restarts of the service
    EnvEndpoint,    \* WEBHOOK_URL and WEBHOOK_SECRET are set
    Idle            \* no request is awaited

ASSUME WebhooksAssumption ==
    /\ MaxEndpoints \in Nat /\ MaxRetries \in Nat /\ MaxResends \in Nat
    /\ MaxChanges \in Nat /\ MaxCrashes \in Nat /\ EnvEndpoint \in BOOLEAN

VARIABLES
    events,         \* events table
    endpoints,      \* endpoints table: [live id -> paused, secret (a version)]
    nextId,         \* AUTOINCREMENT
    deliveries,     \* deliveries table: [<<event, endpoint>> -> row]
    batch,          \* duePending's answer, what dispatchDue has not sent yet
    inflight,       \* the delivery whose request is awaited, with its snapshot
    received,       \* history: deliveries whose body reached the receiver
    owed,           \* history: deliveries enqueued, whatever became of them
    stale,          \* history: sends per delivery from an outdated snapshot, since
                    \* the admin's last change to its endpoint
    resends, changes, crashes

tables == <<events, endpoints, nextId, deliveries>>
dispatcher == <<batch, inflight>>
history == <<received, owed, stale>>
bounds == <<resends, changes, crashes>>
vars == <<tables, dispatcher, history, bounds>>

EndpointIds == 1..MaxEndpoints
Delivery == Event \X EndpointIds
Row == [attempts : Nat, next : {"due", "later", "none"}, delivered : BOOLEAN]
Snapshot == [attempts : Nat, secret : Nat]

\* Tables are functions on the keys that exist.
Put(f, k, v) == [x \in DOMAIN f \cup {k} |-> IF x = k THEN v ELSE f[x]]
Without(f, gone) == [x \in DOMAIN f \ gone |-> f[x]]
Empty == [x \in {} |-> 0]

---------------------------------------------------------------------------
(* Store. *)

NewEndpoint == [paused |-> FALSE, secret |-> 0]

\* The service configures the environment's endpoint when it finds none.
Bootstrapped(eps, id) ==
    IF EnvEndpoint /\ DOMAIN eps = {} /\ id <= MaxEndpoints
    THEN <<Put(eps, id, NewEndpoint), id + 1>>
    ELSE <<eps, id>>

Init ==
    /\ events = {}
    /\ endpoints = Bootstrapped(Empty, 1)[1] /\ nextId = Bootstrapped(Empty, 1)[2]
    /\ deliveries = Empty
    /\ batch = Empty /\ inflight = Idle
    /\ received = {} /\ owed = {}
    /\ stale = [d \in Delivery |-> 0]
    /\ resends = 0 /\ changes = 0 /\ crashes = 0

\* Mutant: insertEvent enqueues for the endpoints the dispatcher may post to.
EnqueuedForUnpaused(ev) == {<<ev, ep>> : ep \in {e \in DOMAIN endpoints : ~endpoints[e].paused}}

\* The deliveries insertEvent enqueues, paused endpoints included.
EnqueuedFor(ev) == {<<ev, ep>> : ep \in DOMAIN endpoints}

\* insertEvent's transaction.  The first attempt is due at the event's own time,
\* which for a metered event is the sender's clock and may lie ahead.
InsertEvent(ev, when) ==
    /\ ev \notin events
    /\ events' = events \cup {ev}
    /\ deliveries' = [d \in DOMAIN deliveries \cup EnqueuedFor(ev) |->
            IF d \in DOMAIN deliveries THEN deliveries[d]
            ELSE [attempts |-> 0, next |-> when, delivered |-> FALSE]]
    /\ owed' = owed \cup {<<ev, ep>> : ep \in DOMAIN endpoints}
    /\ UNCHANGED <<endpoints, nextId, dispatcher, received, stale, bounds>>

\* A scheduled attempt becomes due.
Elapse(d) ==
    /\ d \in DOMAIN deliveries /\ deliveries[d].next = "later"
    /\ deliveries' = [deliveries EXCEPT ![d].next = "due"]
    /\ UNCHANGED <<events, endpoints, nextId, dispatcher, history, bounds>>

\* Mutant: duePending forgets that paused endpoints are skipped.
DueOrPaused == {d \in DOMAIN deliveries : deliveries[d].next = "due" /\ ~deliveries[d].delivered}

\* duePending: due, not delivered, endpoint live and not paused.
DuePending ==
    {d \in DOMAIN deliveries :
        /\ deliveries[d].next = "due" /\ ~deliveries[d].delivered
        /\ ~endpoints[d[2]].paused}

\* markAttempt; it matches no row when the endpoint was deleted meanwhile.
MarkDelivered(d) ==
    deliveries' = [x \in DOMAIN deliveries |->
        IF x = d THEN [deliveries[d] EXCEPT !.delivered = TRUE, !.next = "none"]
        ELSE deliveries[x]]

\* Mutant: the failed attempt is not counted.
MarkFailedUncounted(d, next) ==
    deliveries' = [x \in DOMAIN deliveries |->
        IF x = d THEN [deliveries[d] EXCEPT !.next = next] ELSE deliveries[x]]

MarkFailed(d, next) ==
    deliveries' = [x \in DOMAIN deliveries |->
        IF x = d THEN [deliveries[d] EXCEPT !.attempts = @ + 1, !.next = next]
        ELSE deliveries[x]]

---------------------------------------------------------------------------
(* Dispatcher.dispatchDue: one request at a time, from a batch read once. *)

\* Mutant: ticks overlap, the next one does not wait for the dispatcher.
StartBatchOverlapping ==
    /\ batch = Empty /\ DuePending # {}
    /\ batch' = [d \in DuePending |->
            [attempts |-> deliveries[d].attempts, secret |-> endpoints[d[2]].secret]]
    /\ UNCHANGED <<tables, inflight, history, bounds>>

StartBatch ==
    /\ inflight = Idle /\ batch = Empty
    /\ DuePending # {}
    /\ batch' = [d \in DuePending |->
            [attempts |-> deliveries[d].attempts, secret |-> endpoints[d[2]].secret]]
    /\ UNCHANGED <<tables, inflight, history, bounds>>

\* The snapshot of d no longer is what duePending would answer.
Outdated(d) ==
    \/ d[2] \notin DOMAIN endpoints
    \/ endpoints[d[2]].paused
    \/ endpoints[d[2]].secret # batch[d].secret

Send(d) ==
    /\ inflight = Idle /\ d \in DOMAIN batch
    /\ inflight' = [delivery |-> d, attempts |-> batch[d].attempts]
    /\ batch' = Without(batch, {d})
    /\ stale' = [stale EXCEPT ![d] = IF Outdated(d) THEN @ + 1 ELSE @]
    /\ UNCHANGED <<tables, received, owed, bounds>>

\* A 2xx answer.
Succeed ==
    /\ inflight # Idle
    /\ received' = received \cup {inflight.delivery}
    /\ MarkDelivered(inflight.delivery)
    /\ inflight' = Idle
    /\ UNCHANGED <<events, endpoints, nextId, batch, owed, stale, bounds>>

\* Mutant: one retry too few.
RetryLess(attempts) == IF attempts + 1 < MaxRetries THEN "later" ELSE "none"

\* The next attempt, by the number of attempts before this one.
Retry(attempts) == IF attempts < MaxRetries THEN "later" ELSE "none"

\* Any other answer, an error, or none before the timeout: the receiver may have
\* processed the body all the same.
Fail ==
    /\ inflight # Idle
    /\ received' \in {received, received \cup {inflight.delivery}}
    /\ MarkFailed(inflight.delivery, Retry(inflight.attempts))
    /\ inflight' = Idle
    /\ UNCHANGED <<events, endpoints, nextId, batch, owed, stale, bounds>>

\* The process dies and starts again: the batch and the answer are lost, the
\* tables are not.
Crash ==
    /\ crashes < MaxCrashes /\ crashes' = crashes + 1
    /\ received' \in {received, received \cup
                        (IF inflight = Idle THEN {} ELSE {inflight.delivery})}
    /\ batch' = Empty /\ inflight' = Idle
    /\ endpoints' = Bootstrapped(endpoints, nextId)[1]
    /\ nextId' = Bootstrapped(endpoints, nextId)[2]
    /\ UNCHANGED <<events, deliveries, owed, stale, resends, changes>>

---------------------------------------------------------------------------
(* The admin API. *)

CreateEndpoint ==
    /\ nextId <= MaxEndpoints
    /\ endpoints' = Put(endpoints, nextId, NewEndpoint)
    /\ nextId' = nextId + 1
    /\ UNCHANGED <<events, deliveries, dispatcher, history, bounds>>

\* deleteEndpoint's transaction: the endpoint and its deliveries.
DeleteEndpoint(ep) ==
    LET gone == {d \in Delivery : d[2] = ep}
    IN  /\ ep \in DOMAIN endpoints
        /\ endpoints' = Without(endpoints, {ep})
        /\ deliveries' = Without(deliveries, gone)
        /\ owed' = owed \ gone
        /\ stale' = [d \in Delivery |-> IF d \in gone THEN 0 ELSE stale[d]]
        /\ UNCHANGED <<events, nextId, dispatcher, received, bounds>>

ChangeEndpoint(ep, changed) ==
    /\ ep \in DOMAIN endpoints /\ changed # endpoints[ep]
    /\ changes < MaxChanges /\ changes' = changes + 1
    /\ endpoints' = [endpoints EXCEPT ![ep] = changed]
    /\ stale' = [d \in Delivery |-> IF d[2] = ep THEN 0 ELSE stale[d]]
    /\ UNCHANGED <<events, nextId, deliveries, dispatcher, received, owed,
                   resends, crashes>>

SetEndpointPaused(ep, paused) ==
    ep \in DOMAIN endpoints /\ ChangeEndpoint(ep, [endpoints[ep] EXCEPT !.paused = paused])

RotateEndpointSecret(ep) ==
    ep \in DOMAIN endpoints /\ ChangeEndpoint(ep, [endpoints[ep] EXCEPT !.secret = @ + 1])

\* reviveDelivery's WHERE clause.
Revivable(row) == ~row.delivered

\* reviveDelivery: next_attempt_at = now, the attempts stay.
Resend(d) ==
    /\ d \in DOMAIN deliveries /\ Revivable(deliveries[d])
    /\ resends < MaxResends /\ resends' = resends + 1
    /\ deliveries' = [deliveries EXCEPT ![d].next = "due"]
    /\ UNCHANGED <<events, endpoints, nextId, dispatcher, received, owed, stale,
                   changes, crashes>>

---------------------------------------------------------------------------
Dispatch == StartBatch \/ (\E d \in Delivery : Send(d)) \/ Succeed \/ Fail

Admin ==
    \/ CreateEndpoint
    \/ \E ep \in EndpointIds :
          DeleteEndpoint(ep) \/ RotateEndpointSecret(ep)
          \/ \E p \in BOOLEAN : SetEndpointPaused(ep, p)
    \/ \E d \in Delivery : Resend(d)

Next ==
    \/ \E ev \in Event, when \in {"due", "later"} : InsertEvent(ev, when)
    \/ \E d \in Delivery : Elapse(d)
    \/ Dispatch
    \/ Crash
    \/ Admin

Spec == Init /\ [][Next]_vars

\* Time passes.  The service's loop runs dispatchDue again and again (while the RPC
\* node answers the indexer, which comes first in a tick), a batch is worked through
\* to its end, and every request ends (AbortSignal.timeout).
Fairness ==
    /\ \A d \in Delivery : WF_vars(Elapse(d))
    /\ WF_vars(Dispatch)

FairSpec == Spec /\ Fairness

---------------------------------------------------------------------------
(* Properties. *)

\* The tables and the dispatcher's locals have their types; a delivery's keys exist.
TypeOK ==
    /\ events \subseteq Event
    /\ DOMAIN endpoints \subseteq 1..(nextId - 1) /\ nextId \in 1..(MaxEndpoints + 1)
    /\ DOMAIN deliveries \subseteq events \X DOMAIN endpoints
    /\ \A d \in DOMAIN deliveries : deliveries[d] \in Row
    /\ DOMAIN batch \subseteq Delivery
    /\ inflight # Idle => inflight.delivery \in Delivery

\* Transactional outbox: every event inserted while an endpoint existed, paused or
\* not, has a delivery for it for as long as the endpoint exists.
NoEventLost == DOMAIN deliveries = owed

\* The outbox is well-formed (every delivery's event and endpoint exist) and complete.
OutboxInv == TypeOK /\ NoEventLost

\* No acknowledgement without delivery: a row says delivered only if the receiver
\* got the body, whatever timeouts, crashes and resends did to it.
DeliveredWasReceived == \A d \in DOMAIN deliveries : deliveries[d].delivered => d \in received

\* A delivery is dead-lettered only after its first attempt and every retry of the
\* schedule failed; resends add attempts, stale snapshots take none away.
DeadAfterAllRetries ==
    \A d \in DOMAIN deliveries :
        ~deliveries[d].delivered /\ deliveries[d].next = "none"
            => deliveries[d].attempts > MaxRetries

\* What a row says at its end was earned: delivered by a receipt, dead by every attempt.
OutcomesAreEarned == DeliveredWasReceived /\ DeadAfterAllRetries

\* Nothing is posted again once it is recorded as delivered (a lost answer or a
\* crash before markAttempt is what receivers need the event id for).
DeliveredOnlyOnce ==
    [][\A d \in DOMAIN deliveries :
          deliveries[d].delivered /\ inflight' # inflight /\ inflight' # Idle
            => inflight'.delivery # d]_vars

\* The dispatcher's snapshot is used once: after a pause, a rotation or a delete, a
\* delivery is posted at most once more to the paused or deleted endpoint or with
\* the old secret, from the batch that was already read.
StaleAtMostOnce == \A d \in Delivery : stale[d] <= 1

\* A delivery that waits comes to an end: it is delivered or dead, unless its
\* endpoint is paused or deleted.
Settled(d) == d \notin DOMAIN deliveries \/ deliveries[d].next = "none"
              \/ endpoints[d[2]].paused
DeliveriesSettle == \A d \in Delivery : []<>Settled(d)

=============================================================================
