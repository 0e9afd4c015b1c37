-------------------------------- MODULE Console --------------------------------
(***************************************************************************)
(* The webhook console of the dashboard and the nudge of its overview      *)
(* (components/screens/merchant.tsx), the polled lists behind it           *)
(* (lib/use-admin.ts), the proxy on the way (app/api/admin) and the admin  *)
(* routes of the service that answer (packages/service/src/ingest.ts,      *)
(* db.ts).                                                                 *)
(*                                                                         *)
(* One merchant, one tab.  A request is sent, executed, and answered in    *)
(* three steps, or fails before or after it was executed.  What the        *)
(* dispatcher does to a delivery is Webhooks' matter: here it just moves.  *)
(* One subscription is flagged for attention, period after period: nothing *)
(* relates the rows of two subscriptions.                                  *)
(***************************************************************************)
EXTENDS Integers, Sequences, FiniteSets

CONSTANTS
    MaxEndpoints,   \* bound: endpoints ever created (AUTOINCREMENT ids)
    MaxCalls,       \* bound: requests the merchant makes; no click prepares one more
    MaxFailures,    \* bound: requests that fail
    MaxPeriods,     \* bound: attention events of the subscription
    MaxAttempts,    \* bound: attempts of the dispatcher
    None

ASSUME ConsoleAssumption ==
    /\ MaxEndpoints \in Nat /\ MaxCalls \in Nat
    /\ MaxFailures \in Nat /\ MaxPeriods \in Nat /\ MaxAttempts \in Nat

VARIABLES
    endpoints,      \* the service: [live id -> paused, secret]
    created,        \* ids given out
    secrets,        \* secrets generated
    eventRows,      \* attention and nudge events, by type and period
    deliveries,     \* [<<event, endpoint>> -> status]
    calls,          \* the merchant's requests under way
    slow,           \* a refetch whose answer is held up, or None
    screen,         \* "webhooks" or "overview", the page's
    lists,          \* what it shows: endpoints and deliveries
    drawer, busy, confirmDelete,
    nudging, hint,  \* the overview's
    dismissed,      \* webhooksHintDismissed, the tab's
    toasts,         \* history: "Nudge sent" per period
    left,           \* history: the console was left with a request under way
    asked, failures, attempts \* the bounds' counters

store == <<endpoints, created, secrets, eventRows, deliveries>>
webhooks == <<lists, drawer, busy, confirmDelete>>
overview == <<nudging, hint, dismissed, toasts>>
counters == <<asked, failures, attempts>>
consoleVars == <<store, calls, slow, screen, webhooks, overview, left, counters>>

Empty == [x \in {} |-> 0]
NoLists == [endpoints |-> Empty, deliveries |-> Empty]
With(f, new, value) == [x \in DOMAIN f \cup new |-> IF x \in new THEN value ELSE f[x]]
Without(f, gone) == [x \in DOMAIN f \ gone |-> f[x]]

---------------------------------------------------------------------------
(* Store. *)

ConsoleInit ==
    /\ created \in 0..MaxEndpoints /\ secrets = created
    /\ endpoints = [ep \in 1..created |-> [paused |-> FALSE, secret |-> ep]]
    /\ eventRows = {} /\ deliveries = Empty
    /\ calls = {} /\ slow = None
    /\ screen = "overview" /\ lists = NoLists
    /\ drawer = None /\ busy = FALSE /\ confirmDelete = None
    /\ nudging = FALSE /\ hint = FALSE /\ dismissed = FALSE
    /\ toasts = [p \in 1..MaxPeriods |-> 0]
    /\ left = FALSE /\ asked = 0 /\ failures = 0 /\ attempts = 0

\* insertEvent: INSERT OR IGNORE, and a delivery for every endpoint if it is new.
InsertEvent(ev) ==
    /\ eventRows' = eventRows \cup {ev}
    /\ deliveries' = IF ev \in eventRows THEN deliveries
                     ELSE With(deliveries, {ev} \X DOMAIN endpoints, "pending")

\* Periods for which the subscription was flagged; the latest by `at` comes last.
Flagged == {ev[2] : ev \in {x \in eventRows : x[1] = "attention"}}
latestAttentionPeriod == CHOOSE p \in Flagged : \A q \in Flagged : q <= p

\* The keeper or the at-risk checker flags the subscription, in another period.
Flag ==
    /\ Cardinality(Flagged) < MaxPeriods
    /\ InsertEvent(<<"attention", Cardinality(Flagged) + 1>>)
    /\ UNCHANGED <<endpoints, created, secrets, calls, slow, screen, webhooks, overview, left, counters>>

\* The dispatcher attempts a delivery.
Attempt(d) ==
    /\ deliveries[d] \in {"pending", "retrying"} /\ ~endpoints[d[2]].paused
    /\ \E s \in {"delivered", "retrying", "dead"} : deliveries' = [deliveries EXCEPT ![d] = s]
    /\ attempts < MaxAttempts /\ attempts' = attempts + 1
    /\ UNCHANGED <<endpoints, created, secrets, eventRows, calls, slow, screen, webhooks, overview,
                   left, asked, failures>>

---------------------------------------------------------------------------
(* The admin routes: the answer of a request and what it does to the store. *)

Ok(c, secret) == [status |-> "ok", ep |-> c.ep, secret |-> secret, period |-> 0]
NotFound == [status |-> "not found"]
Failure == [status |-> "failed"]

Reply(c, result) == calls' = (calls \ {c}) \cup {[c EXCEPT !.result = result]}

ServeCreate(c) ==
    /\ c.kind = "create" /\ created < MaxEndpoints
    /\ created' = created + 1 /\ secrets' = secrets + 1
    /\ endpoints' = With(endpoints, {created + 1}, [paused |-> FALSE, secret |-> secrets + 1])
    /\ Reply(c, [Ok(c, secrets + 1) EXCEPT !.ep = created + 1])
    /\ UNCHANGED <<eventRows, deliveries>>

\* deleteEndpoint takes the deliveries along.
ServeDelete(c) ==
    /\ c.kind = "delete" /\ c.ep \in DOMAIN endpoints
    /\ endpoints' = Without(endpoints, {c.ep})
    /\ deliveries' = Without(deliveries, {d \in DOMAIN deliveries : d[2] = c.ep})
    /\ Reply(c, Ok(c, 0))
    /\ UNCHANGED <<created, secrets, eventRows>>

ServePaused(c) ==
    /\ c.kind \in {"pause", "resume"} /\ c.ep \in DOMAIN endpoints
    /\ endpoints' = [endpoints EXCEPT ![c.ep].paused = (c.kind = "pause")]
    /\ Reply(c, Ok(c, 0))
    /\ UNCHANGED <<created, secrets, eventRows, deliveries>>

ServeRotate(c) ==
    /\ c.kind = "rotate" /\ c.ep \in DOMAIN endpoints
    /\ secrets' = secrets + 1
    /\ endpoints' = [endpoints EXCEPT ![c.ep].secret = secrets + 1]
    /\ Reply(c, Ok(c, secrets + 1))
    /\ UNCHANGED <<created, eventRows, deliveries>>

\* reviveDelivery: what is not delivered becomes due; a dead one has attempts behind it.
ServeResend(c) ==
    /\ c.kind = "resend" /\ <<c.ev, c.ep>> \in DOMAIN deliveries
    /\ deliveries[<<c.ev, c.ep>>] # "delivered"
    /\ deliveries' = [deliveries EXCEPT ![<<c.ev, c.ep>>] = IF @ = "dead" THEN "retrying" ELSE @]
    /\ Reply(c, Ok(c, 0))
    /\ UNCHANGED <<endpoints, created, secrets, eventRows>>

\* Mutant: every nudge has an id of its own.
NudgeIdOfCall(c, period) == <<"nudge", period, c.no>>

NudgeId(c, period) == <<"nudge", period>>

ServeNudge(c) ==
    /\ c.kind = "nudge" /\ Flagged # {}
    /\ LET ev == NudgeId(c, latestAttentionPeriod) IN
       /\ Reply(c, [Ok(c, 0) EXCEPT !.period = IF ev \in eventRows THEN 0 ELSE latestAttentionPeriod])
       /\ InsertEvent(ev)
    /\ UNCHANGED <<endpoints, created, secrets>>

\* 404: the row is gone, or delivered.
ServeNothing(c) ==
    /\ \/ c.kind \in {"delete", "pause", "resume", "rotate"} /\ c.ep \notin DOMAIN endpoints
       \/ /\ c.kind = "resend"
          /\ <<c.ev, c.ep>> \in DOMAIN deliveries => deliveries[<<c.ev, c.ep>>] = "delivered"
    /\ Reply(c, NotFound)
    /\ UNCHANGED store

Serve(c) ==
    /\ c.result = None
    /\ \/ ServeCreate(c) \/ ServeDelete(c) \/ ServePaused(c) \/ ServeRotate(c) \/ ServeResend(c)
       \/ ServeNudge(c) \/ ServeNothing(c)
    /\ UNCHANGED <<slow, screen, webhooks, overview, left, counters>>

\* The proxy or the network gives up, before the service has answered or after.
Fail(c) ==
    /\ c.result # Failure /\ failures < MaxFailures /\ failures' = failures + 1
    /\ Reply(c, Failure)
    /\ UNCHANGED <<store, slow, screen, webhooks, overview, left, asked, attempts>>

---------------------------------------------------------------------------
(* useAdmin. *)

\* What the service answers a refetch.  Nothing on the page joins the two lists.
Listed == [endpoints |-> endpoints, deliveries |-> deliveries]

\* Mutant: a refetch that is already under way is awaited instead of a new one.
RefetchJoined(run, otherwise) ==
    \/ /\ slow = None /\ lists' = Listed /\ busy' = (otherwise /\ ~run)
       /\ UNCHANGED slow
    \/ /\ slow' = IF slow = None THEN [lists |-> Listed, run |-> run]
                  ELSE [slow EXCEPT !.run = @ \/ run]
       /\ busy' = otherwise /\ UNCHANGED lists

\* refetch: answered at once, or held up; `busy` until then if a run awaits it.
Refetch(run, otherwise) ==
    \/ /\ lists' = Listed /\ busy' = (otherwise /\ ~run)
       /\ UNCHANGED slow
    \/ /\ slow = None /\ slow' = [lists |-> Listed, run |-> run]
       /\ busy' = otherwise /\ UNCHANGED lists

\* Mutant: the lists are fetched when the screen is opened and after mutations, no more.
PollsWhenEmpty == lists = NoLists

\* setInterval(refetch, POLL_MS), whatever is still under way.
PollDue == TRUE

PollLists ==
    /\ screen = "webhooks" /\ PollDue
    /\ UNCHANGED <<store, calls, screen, drawer, confirmDelete, overview, left, counters>>
    /\ Refetch(FALSE, busy)

\* Answers are shown in the order they arrive.  Promise.all fails if one list does, and the
\* lists stay as they were; refetch itself never throws.
RefetchArrives ==
    /\ slow # None /\ slow' = None
    /\ \/ lists' = slow.lists /\ UNCHANGED failures
       \/ failures < MaxFailures /\ failures' = failures + 1 /\ UNCHANGED lists
    /\ busy' = (busy /\ ~slow.run)
    /\ UNCHANGED <<store, calls, screen, drawer, confirmDelete, overview, left, asked, attempts>>

---------------------------------------------------------------------------
(* Webhooks. *)

\* A drawer's scrim covers the page.
OnPage == screen = "webhooks" /\ drawer = None

Send(kind, ep, ev) ==
    /\ asked < MaxCalls /\ asked' = asked + 1
    /\ calls' = calls \cup {[no |-> asked + 1, kind |-> kind, ep |-> ep, ev |-> ev,
                             here |-> TRUE, result |-> None]}

\* Mutant: the buttons are not disabled while an action runs.
AlwaysEnabled == TRUE

\* disabled={busy}
Enabled == ~busy

\* run(...) up to the action's await.
Run(kind, ep, ev) ==
    /\ Send(kind, ep, ev) /\ busy' = TRUE
    /\ UNCHANGED <<store, slow, screen, lists, drawer, overview, left, failures, attempts>>

SetPaused(ep) ==
    /\ OnPage /\ Enabled
    /\ Run(IF lists.endpoints[ep].paused THEN "resume" ELSE "pause", ep, None)
    /\ UNCHANGED confirmDelete

Resend(d) ==
    /\ OnPage /\ Enabled /\ lists.deliveries[d] \in {"retrying", "dead"}
    /\ Run("resend", d[2], d[1])
    /\ UNCHANGED confirmDelete

\* handleRotate
Rotate(ep) ==
    /\ OnPage /\ Enabled
    /\ Run("rotate", ep, None)
    /\ UNCHANGED confirmDelete

\* handleDelete: the first click arms, the second one on the same row deletes.
ArmDelete(ep) ==
    /\ OnPage /\ Enabled /\ confirmDelete # ep /\ asked < MaxCalls
    /\ confirmDelete' = ep
    /\ UNCHANGED <<store, calls, slow, screen, lists, drawer, busy, overview, left, counters>>

Delete(ep) ==
    /\ OnPage /\ Enabled /\ confirmDelete = ep
    /\ confirmDelete' = None
    /\ Run("delete", ep, None)

\* The 4 s are over.
Disarm ==
    /\ confirmDelete # None /\ confirmDelete' = None
    /\ UNCHANGED <<store, calls, slow, screen, lists, drawer, busy, overview, left, counters>>

OpenForm ==
    /\ OnPage /\ asked < MaxCalls
    /\ drawer' = [kind |-> "add", pending |-> 0]
    /\ UNCHANGED <<store, calls, slow, screen, lists, busy, confirmDelete, overview, left, counters>>

\* AddEndpointForm's handleSubmit, with a URL it accepts; `pending` is the form's own.
Add ==
    /\ drawer # None /\ drawer.kind = "add" /\ drawer.pending = 0
    /\ created + Cardinality({c \in calls : c.kind = "create"}) < MaxEndpoints
    /\ Send("create", None, None)
    /\ drawer' = [drawer EXCEPT !.pending = asked + 1]
    /\ UNCHANGED <<store, slow, screen, lists, busy, confirmDelete, overview, left, failures, attempts>>

CloseDrawer ==
    /\ drawer # None /\ drawer' = None
    /\ UNCHANGED <<store, calls, slow, screen, lists, busy, confirmDelete, overview, left, counters>>

Reveal(c) == [kind |-> "secret", heading |-> c.kind, ep |-> c.result.ep, secret |-> c.result.secret]

Gone(c) == calls' = calls \ {c} /\ UNCHANGED <<store, screen, confirmDelete, overview, left, counters>>

\* run(...) after its action: a toast and an awaited refetch, or a toast.
RunEnds(c) ==
    /\ c.here /\ c.kind \in {"delete", "pause", "resume", "resend"} /\ c.result # None
    /\ Gone(c) /\ UNCHANGED drawer
    /\ IF c.result.status = "ok" THEN Refetch(TRUE, busy)
       ELSE busy' = FALSE /\ UNCHANGED <<slow, lists>>

\* handleRotate after its await: the new secret is revealed, whatever the drawer held.
RotateEnds(c) ==
    /\ c.here /\ c.kind = "rotate" /\ c.result # None
    /\ Gone(c)
    /\ IF c.result.status = "ok" THEN drawer' = Reveal(c) /\ Refetch(FALSE, FALSE)
       ELSE busy' = FALSE /\ UNCHANGED <<slow, lists, drawer>>

\* onCreated is the screen's, also after the form was closed; setError is the form's.
AddEnds(c) ==
    /\ c.here /\ c.kind = "create" /\ c.result # None
    /\ Gone(c)
    /\ IF c.result.status = "ok" THEN drawer' = Reveal(c) /\ Refetch(FALSE, busy)
       ELSE /\ drawer' = IF drawer # None /\ drawer.kind = "add" /\ drawer.pending = c.no
                         THEN [drawer EXCEPT !.pending = 0] ELSE drawer
            /\ UNCHANGED <<slow, lists, busy>>

\* The answer finds its screen gone.
Unheard(c) ==
    /\ ~c.here /\ c.result # None /\ c.kind # "nudge"
    /\ Gone(c) /\ UNCHANGED <<slow, lists, drawer, busy>>

---------------------------------------------------------------------------
(* Overview. *)

\* handleNudge
Nudge ==
    /\ screen = "overview" /\ Flagged # {} /\ ~nudging
    /\ nudging' = TRUE
    /\ Send("nudge", None, None)
    /\ UNCHANGED <<store, slow, screen, webhooks, hint, dismissed, toasts, left, failures, attempts>>

NudgeEnds(c) ==
    /\ c.kind = "nudge" /\ c.result # None
    /\ calls' = calls \ {c}
    /\ nudging' = (nudging /\ ~c.here)
    /\ toasts' = IF c.result.status = "ok" /\ c.result.period # 0
                 THEN [toasts EXCEPT ![c.result.period] = @ + 1] ELSE toasts
    /\ UNCHANGED <<store, slow, screen, webhooks, hint, dismissed, left, counters>>

\* useEndpointsEmpty asks once; a failed request leaves no hint.
Hint ==
    /\ screen = "overview" /\ ~hint /\ ~dismissed /\ DOMAIN endpoints = {}
    /\ hint' = TRUE
    /\ UNCHANGED <<store, calls, slow, screen, webhooks, nudging, dismissed, toasts, left, counters>>

Dismiss ==
    /\ hint /\ hint' = FALSE /\ dismissed' = TRUE
    /\ UNCHANGED <<store, calls, slow, screen, webhooks, nudging, toasts, left, counters>>

\* The other screen: each keeps its state only while it is mounted.
Navigate ==
    /\ screen' = IF screen = "webhooks" THEN "overview" ELSE "webhooks"
    /\ calls' = {[c EXCEPT !.here = FALSE] : c \in calls}
    /\ slow' = None /\ lists' = NoLists
    /\ drawer' = None /\ busy' = FALSE /\ confirmDelete' = None
    /\ nudging' = FALSE /\ hint' = FALSE
    /\ left' = (left \/ \E c \in calls : c.kind # "nudge")
    /\ UNCHANGED <<store, dismissed, toasts, counters>>

---------------------------------------------------------------------------
ConsoleNext ==
    \/ Flag \/ \E d \in DOMAIN deliveries : Attempt(d)
    \/ PollLists \/ RefetchArrives
    \/ \E ep \in DOMAIN lists.endpoints : SetPaused(ep) \/ Rotate(ep) \/ ArmDelete(ep) \/ Delete(ep)
    \/ \E d \in DOMAIN lists.deliveries : Resend(d)
    \/ Disarm \/ OpenForm \/ Add \/ CloseDrawer \/ Nudge \/ Hint \/ Dismiss \/ Navigate
    \/ \E c \in calls : Serve(c) \/ Fail(c) \/ RunEnds(c) \/ RotateEnds(c) \/ AddEnds(c)
                        \/ Unheard(c) \/ NudgeEnds(c)

ConsoleSpec == ConsoleInit /\ [][ConsoleNext]_consoleVars

\* The interval fires, and every request is answered or fails.
ConsoleFairness == WF_consoleVars(PollLists) /\ WF_consoleVars(RefetchArrives)

FairConsoleSpec == ConsoleSpec /\ ConsoleFairness

---------------------------------------------------------------------------
(* Properties. *)

\* Ids and secrets are given out once, deliveries are of endpoints that exist, and what is
\* under way was asked for by a screen.
ConsoleTypeOK ==
    /\ DOMAIN endpoints \subseteq 1..created
    /\ \A ep, other \in DOMAIN endpoints :
          /\ endpoints[ep].secret \in 1..secrets
          /\ endpoints[ep].secret = endpoints[other].secret => ep = other
    /\ DOMAIN deliveries \subseteq eventRows \X DOMAIN endpoints
    /\ \A c, d \in calls : c.no \in 1..asked /\ (c.no = d.no => c = d)
    /\ busy => screen = "webhooks"

\* A secret revealed as rotated is the one the service signs with, unless the endpoint is
\* being rotated again, a request was lost, or the console was left with one under way: no
\* late answer reveals an old secret.
RotatedSecretWorks ==
    (/\ drawer # None /\ drawer.kind = "secret" /\ drawer.heading = "rotate"
     /\ drawer.ep \in DOMAIN endpoints /\ failures = 0 /\ ~left
     /\ \A c \in calls : c.kind = "rotate" => c.ep # drawer.ep)
        => drawer.secret = endpoints[drawer.ep].secret

\* When an action's own refetch has arrived, the list shows what the action did
\* ("`refetch` refreshes immediately after a mutation", use-admin.ts:117).
RefreshShowsMutation ==
    [][~left /\ slow # None /\ slow.run /\ slow' = None /\ lists' = slow.lists
          => lists'.endpoints = [ep \in DOMAIN lists'.endpoints |-> endpoints[ep]]]_consoleVars

\* A subscription is nudged once in a period: however often the button is clicked, whichever
\* answers are lost, the merchant is told once that a nudge was sent.
NudgedOnce == \A p \in DOMAIN toasts : toasts[p] <= 1

\* The service and the console are well-formed, and nudges do not pile up.
ConsoleInv == ConsoleTypeOK /\ NudgedOnce

\* A console that stays open comes to show the service's lists once nothing more happens to
\* them, although answers of overlapping refetches arrive in any order and some fail.
ConsoleSettles == <>[](screen = "webhooks") => <>[](lists = Listed)

=============================================================================
