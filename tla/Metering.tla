------------------------------ MODULE Metering ------------------------------
(***************************************************************************)
(* A metered API call: the scruple() middleware on the merchant's server   *)
(* (packages/server/src/middleware.ts) asks for a payment, settles it with *)
(* the facilitator, serves, and forwards the payment event to the service, *)
(* whose /ingest records it (packages/service/src/ingest.ts).              *)
(*                                                                         *)
(* Requests are handled concurrently and wait at settle().  A buyer may    *)
(* send the same authorization again.  The post to the service runs after  *)
(* the request was served; it may be lost or arrive twice.                 *)
(***************************************************************************)
EXTENDS Integers, Sequences, SequencesExt

CONSTANTS
    Request,        \* requests to the API
    Route,          \* normalized "METHOD /path" keys
    RateCard,       \* atomic price of the metered routes
    Nonce,          \* payment authorizations
    Malformed,      \* a payment-signature that does not decode
    MaxStored,      \* bound: events recorded
    None

ASSUME MeteringAssumption ==
    /\ DOMAIN RateCard \subseteq Route
    /\ \A r \in DOMAIN RateCard : RateCard[r] \in Nat
    /\ MaxStored \in Nat
    /\ None \notin Nat \cup Nonce \cup Request \cup {"settled", "rejected"}
    /\ Malformed \notin Nonce

VARIABLES
    signed,     \* [Nonce -> amount its owner authorized]
    request,    \* [Request -> [route, header, at]]
    verdict,    \* the facilitator's decision on a request's payment
    paidFor,    \* [Nonce -> the request it was settled for]
    post,       \* onPayment of a request: none, queued, sent, ended
    mail,       \* posts on their way to /ingest
    store       \* settlement.batched events recorded

meteringVars == <<signed, request, verdict, paidFor, post, mail, store>>

Place == {"unsent", "refused", "settling", "served"}

MeteringInit ==
    /\ signed = [n \in Nonce |-> None]
    /\ request = [q \in Request |-> [route |-> None, header |-> None, at |-> "unsent"]]
    /\ verdict = [q \in Request |-> None]
    /\ paidFor = [n \in Nonce |-> None]
    /\ post = [q \in Request |-> "none"]
    /\ mail = {} /\ store = <<>>

Metered(r) == r \in DOMAIN RateCard
At(q, place) == request' = [request EXCEPT ![q].at = place]

---------------------------------------------------------------------------
(* The buyer. *)

\* The buyer signs for the amount of a challenge.
Sign(n, q) ==
    /\ request[q].at = "refused" /\ signed[n] = None /\ Metered(request[q].route)
    /\ signed' = [signed EXCEPT ![n] = RateCard[request[q].route]]
    /\ UNCHANGED <<request, verdict, paidFor, post, mail, store>>

Arrives(q, r, h, place) ==
    /\ request[q].at = "unsent"
    /\ request' = [request EXCEPT ![q] = [route |-> r, header |-> h, at |-> place]]
    /\ UNCHANGED <<signed, verdict, paidFor, post, mail, store>>

---------------------------------------------------------------------------
(* The middleware. *)

\* No entry of the rate card: next().
PassesBy(q, r, h) == ~Metered(r) /\ Arrives(q, r, h, "served")

\* 402 with a challenge, or for a header that does not decode.
Challenges(q, r, h) == Metered(r) /\ h \in {None, Malformed} /\ Arrives(q, r, h, "refused")

\* settle() is called with the price of this route and awaited.
Settles(q, r, h) == Metered(r) /\ h \in Nonce /\ Arrives(q, r, h, "settling")

Receive(q, r, h) == PassesBy(q, r, h) \/ Challenges(q, r, h) \/ Settles(q, r, h)

\* settle() throws, whether or not the payment went through: 402.
SettleThrows(q) ==
    /\ request[q].at = "settling"
    /\ At(q, "refused")
    /\ UNCHANGED <<signed, verdict, paidFor, post, mail, store>>

Refuses(q) ==
    /\ request[q].at = "settling" /\ verdict[q] = "rejected"
    /\ At(q, "refused")
    /\ UNCHANGED <<signed, verdict, paidFor, post, mail, store>>

\* Mutant: a settlement that cannot be had is let through.
ServesAny(q) ==
    /\ request[q].at = "settling"
    /\ At(q, "served")
    /\ post' = [post EXCEPT ![q] = "queued"]
    /\ UNCHANGED <<signed, verdict, paidFor, mail, store>>

\* Settled: onPayment is queued and next() called.
Serves(q) ==
    /\ request[q].at = "settling" /\ verdict[q] = "settled"
    /\ At(q, "served")
    /\ post' = [post EXCEPT ![q] = "queued"]
    /\ UNCHANGED <<signed, verdict, paidFor, mail, store>>

---------------------------------------------------------------------------
(* The facilitator: settles an authorization once, for exactly the amount. *)

Transfers(q) ==
    LET n == request[q].header IN
    /\ request[q].at = "settling" /\ verdict[q] = None
    /\ signed[n] = RateCard[request[q].route] /\ paidFor[n] = None
    /\ paidFor' = [paidFor EXCEPT ![n] = q]
    /\ verdict' = [verdict EXCEPT ![q] = "settled"]
    /\ UNCHANGED <<signed, request, post, mail, store>>

Rejects(q) ==
    /\ request[q].at = "settling" /\ verdict[q] = None
    /\ verdict' = [verdict EXCEPT ![q] = "rejected"]
    /\ UNCHANGED <<signed, request, paidFor, post, mail, store>>

---------------------------------------------------------------------------
(* The forwarder and /ingest. *)

\* One post, never repeated; what fails or times out is logged.
Forward(q) ==
    /\ post[q] = "queued"
    /\ post' = [post EXCEPT ![q] = "sent"] /\ mail' = mail \cup {q}
    /\ UNCHANGED <<signed, request, verdict, paidFor, store>>

ForwardEnds(q) ==
    /\ post[q] \in {"queued", "sent"}
    /\ post' = [post EXCEPT ![q] = "ended"]
    /\ UNCHANGED <<signed, request, verdict, paidFor, mail, store>>

\* Mutant: an event is recorded under a new id.
RecordedNever(q) == FALSE

\* insertEvent ignores an id it has.
Recorded(q) == \E i \in DOMAIN store : store[i].id = q

\* A post arrives, and may arrive again.
Ingest(q) ==
    /\ q \in mail /\ Len(store) < MaxStored
    /\ store' = IF Recorded(q) THEN store
                ELSE Append(store, [id |-> q, atomic |-> RateCard[request[q].route]])
    /\ mail' \in {mail, mail \ {q}}
    /\ UNCHANGED <<signed, request, verdict, paidFor, post>>

Lost(q) ==
    /\ q \in mail /\ mail' = mail \ {q}
    /\ UNCHANGED <<signed, request, verdict, paidFor, post, store>>

---------------------------------------------------------------------------

MeteringNext ==
    \E q \in Request :
        \/ \E r \in Route, h \in {n \in Nonce : signed[n] # None} \cup {None, Malformed} :
              Receive(q, r, h)
        \/ \E n \in Nonce : Sign(n, q)
        \/ SettleThrows(q) \/ Refuses(q) \/ Serves(q)
        \/ Transfers(q) \/ Rejects(q)
        \/ Forward(q) \/ ForwardEnds(q) \/ Ingest(q) \/ Lost(q)

MeteringSpec == MeteringInit /\ [][MeteringNext]_meteringVars

---------------------------------------------------------------------------
(* Properties. *)

\* Requests, verdicts and posts have their types; only served requests post.
MeteringTypeOK ==
    /\ \A n \in Nonce : signed[n] \in Range(RateCard) \cup {None}
    /\ request \in [Request -> [route : Route \cup {None},
                                header : Nonce \cup {None, Malformed}, at : Place]]
    /\ verdict \in [Request -> {None, "settled", "rejected"}]
    /\ paidFor \in [Nonce -> Request \cup {None}]
    /\ post \in [Request -> {"none", "queued", "sent", "ended"}]
    /\ \A q \in Request : post[q] # "none" => request[q].at = "served"
    /\ \A q \in mail : post[q] \in {"sent", "ended"}

\* Every metered request that was served has a settlement of its own, for the price of its
\* route, however authorizations are repeated or used for other routes.
ServedIsPaid ==
    \A q \in Request :
        request[q].at = "served" /\ Metered(request[q].route) =>
            \E n \in Nonce : paidFor[n] = q /\ signed[n] = RateCard[request[q].route]

\* What the merchant sees as revenue was settled and is counted once, also when the post
\* arrives twice.
RevenueIsSettled ==
    /\ \A i, j \in DOMAIN store : store[i].id = store[j].id => i = j
    /\ \A i \in DOMAIN store :
          \E n \in Nonce : paidFor[n] = store[i].id /\ signed[n] = store[i].atomic

=============================================================================
