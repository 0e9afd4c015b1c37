---------------------------- MODULE RpcForwarder ----------------------------
(***************************************************************************)
(* createRpcForwarder (packages/rpc-forwarder/src/rpc-forwarder.ts): every *)
(* forward() is appended to one promise chain; the call at its head waits  *)
(* out the gap to the previous request, asks the upstream node, and tries  *)
(* again after a growing backoff while the answer is rate-limited.         *)
(*                                                                         *)
(* Time is counted from the last request on, up to the gap.  A timer fires *)
(* at its time or later.                                                   *)
(***************************************************************************)
EXTENDS Integers, Sequences

CONSTANTS
    Call,           \* calls of forward()
    MinGap,         \* minGapMs
    Backoff,        \* backoffMs
    MaxAttempts,    \* maxAttempts
    None            \* no answer yet

ASSUME ForwarderAssumption ==
    /\ MinGap \in Nat /\ Backoff \in Nat /\ MaxAttempts \in Nat \ {0}

VARIABLES
    queue,      \* the promise chain; its head is the call that runs
    phase,      \* what the head awaits
    attempt,    \* its attempt, from 1
    since,      \* time since lastRequestAt, MinGap when that long or longer
    sleep,      \* what is left of its timer
    answer,     \* [Call -> the response given back]
    served,     \* history: answered calls, in order
    requests    \* history: upstream requests per call

vars == <<queue, phase, attempt, since, sleep, answer, served, requests>>

Phase == {"idle", "gap", "upstream", "backoff", "stuck"}

\* A JSON-RPC response, by its status and what its batch elements say.
Item == {"result", "revert", "limited"}
Response == [status : {200, 429}, items : SUBSET Item \ {{}}]
Unavailable == [status |-> 502, items |-> {}]

ASSUME NoneAssumption == None \notin Response \cup {Unavailable}

Init ==
    /\ queue = <<>> /\ phase = "idle" /\ attempt = 1
    /\ since = MinGap /\ sleep = 0
    /\ answer = [c \in Call |-> None] /\ served = <<>>
    /\ requests = [c \in Call |-> 0]

\* Mutant: a batch counts as limited when all of it is.
RateLimitedAll(r) == r.status = 429 \/ r.items = {"limited"}

\* isRateLimited: status 429, or any element of the batch.
RateLimited(r) == r.status = 429 \/ "limited" \in r.items

Called(c) == answer[c] # None \/ \E i \in DOMAIN queue : queue[i] = c

Forward(c) ==
    /\ ~Called(c)
    /\ queue' = Append(queue, c)
    /\ UNCHANGED <<phase, attempt, since, sleep, answer, served, requests>>

\* doForward starts when the call before it has settled; waitForGap.
Start ==
    /\ phase = "idle" /\ queue # <<>>
    /\ phase' = "gap" /\ attempt' = 1 /\ sleep' = MinGap - since
    /\ UNCHANGED <<queue, since, answer, served, requests>>

Send ==
    /\ phase = "gap" /\ sleep = 0
    /\ phase' = "upstream" /\ since' = 0
    /\ requests' = [requests EXCEPT ![Head(queue)] = @ + 1]
    /\ UNCHANGED <<queue, attempt, sleep, answer, served>>

\* The head's task settles and the next one may run.
Settle(r) ==
    /\ answer' = [answer EXCEPT ![Head(queue)] = r]
    /\ served' = Append(served, Head(queue))
    /\ queue' = Tail(queue)
    /\ phase' = "idle"
    /\ UNCHANGED <<attempt, since, sleep, requests>>

\* Mutants: a rejected task rejects all that are chained to it; it is never settled.
FailsForAll ==
    /\ phase = "upstream"
    /\ answer' = [c \in Call |-> IF \E i \in DOMAIN queue : queue[i] = c
                                 THEN Unavailable ELSE answer[c]]
    /\ served' = served \o queue
    /\ queue' = <<>> /\ phase' = "idle"
    /\ UNCHANGED <<attempt, since, sleep, requests>>

FailsForGood ==
    /\ phase = "upstream" /\ phase' = "stuck"
    /\ UNCHANGED <<queue, attempt, since, sleep, answer, served, requests>>

\* The request or its body fails, or the body is no JSON.
Fails == phase = "upstream" /\ Settle(Unavailable)

\* Another attempt is left.
AttemptsLeft == attempt < MaxAttempts

\* An answer that is not rate-limited, or the last one.
Answers(r) ==
    /\ phase = "upstream"
    /\ ~(RateLimited(r) /\ AttemptsLeft)
    /\ Settle(r)

BackOff(r) ==
    /\ phase = "upstream"
    /\ RateLimited(r) /\ AttemptsLeft
    /\ phase' = "backoff" /\ sleep' = Backoff * attempt /\ attempt' = attempt + 1
    /\ UNCHANGED <<queue, since, answer, served, requests>>

\* Mutant: only the first attempt waits for the gap.
RetryAtOnce ==
    /\ phase = "backoff" /\ sleep = 0
    /\ phase' = "gap"
    /\ UNCHANGED <<queue, attempt, since, sleep, answer, served, requests>>

\* The backoff is over: attemptOnce, from waitForGap on.
Retry ==
    /\ phase = "backoff" /\ sleep = 0
    /\ phase' = "gap" /\ sleep' = MinGap - since
    /\ UNCHANGED <<queue, attempt, since, answer, served, requests>>

\* A unit of time.
Elapse ==
    /\ since < MinGap \/ sleep > 0
    /\ since' = IF since < MinGap THEN since + 1 ELSE since
    /\ sleep' = IF sleep > 0 THEN sleep - 1 ELSE sleep
    /\ UNCHANGED <<queue, phase, attempt, answer, served, requests>>

Upstream == Fails \/ \E r \in Response : Answers(r) \/ BackOff(r)

Next == Start \/ Send \/ Upstream \/ Retry \/ Elapse \/ \E c \in Call : Forward(c)

Spec == Init /\ [][Next]_vars

\* Timers fire, and a request ends: fetch gives up on a node that sends nothing.
Fairness ==
    /\ WF_vars(Start) /\ WF_vars(Send) /\ WF_vars(Retry) /\ WF_vars(Elapse)
    /\ WF_vars(Upstream)

FairSpec == Spec /\ Fairness

---------------------------------------------------------------------------
(* Properties. *)

\* The queue, its timers and answers have their types; no call is asked more often than
\* maxAttempts.
TypeOK ==
    /\ queue \in Seq(Call) /\ phase \in Phase
    /\ attempt \in 1..MaxAttempts
    /\ since \in 0..MinGap /\ sleep \in Nat
    /\ answer \in [Call -> Response \cup {Unavailable, None}]
    /\ requests \in [Call -> 0..MaxAttempts]

\* The callers see a serial queue: one at a time, in order, each answered once, also
\* after a failure and through the retries of the calls before.
IsSerialQueue == INSTANCE SerialQueue WITH waiting <- queue
ImplementsQueue == IsSerialQueue!QueueSpec

\* Requests of any call and attempt are MinGap apart.
GapHeld == [][phase # "upstream" /\ phase' = "upstream" => since = MinGap]_vars

\* A caller sees a rate-limited answer, in a batch or alone, only when all attempts
\* were rate-limited.
LimitedOnlyAtLast ==
    \A c \in Call :
        answer[c] \notin {None, Unavailable} /\ ("limited" \in answer[c].items \/ answer[c].status = 429)
            => requests[c] = MaxAttempts

\* The forwarder's state is well-formed, and the rate limit stays hidden while it can.
ForwarderInv == TypeOK /\ LimitedOnlyAtLast

\* Every call is answered, whatever became of the calls before it.
EveryoneIsAnswered == \A c \in Call : Called(c) ~> answer[c] # None

=============================================================================
