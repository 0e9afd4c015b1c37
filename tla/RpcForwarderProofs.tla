------------------------- MODULE RpcForwarderProofs -------------------------
(***************************************************************************)
(* Proofs about RpcForwarder, for any calls, gap, backoff and number of    *)
(* attempts: its types, the gap between requests, what callers see of the  *)
(* rate limit, and that it implements SerialQueue.                         *)
(*                                                                         *)
(* The inductive invariant ties the request counts to the place of a call: *)
(* a call that waits has made no request, the head has made as many as its *)
(* attempt says, and no call is in the queue twice or after its answer.    *)
(***************************************************************************)
EXTENDS RpcForwarder, TLAPS

\* No call waits twice, and none that has an answer.
QueueInv ==
    /\ \A i, j \in DOMAIN queue : queue[i] = queue[j] => i = j
    /\ \A i \in DOMAIN queue : answer[queue[i]] = None
    /\ phase # "idle" => queue # <<>>

\* Who was served has an answer.
ServedInv ==
    /\ served \in Seq(Call)
    /\ \A i \in DOMAIN served : answer[served[i]] # None

\* Requests made: none while waiting, as many as attempts by the head.
CountInv ==
    /\ \A c \in Call : ~Called(c) => requests[c] = 0
    /\ \A i \in DOMAIN queue : (i > 1 \/ phase = "idle") => requests[queue[i]] = 0
    /\ phase \in {"gap", "backoff"} => requests[Head(queue)] = attempt - 1
    /\ phase = "upstream" => requests[Head(queue)] = attempt

\* The timer of the gap runs at least until the gap is over.
GapInv == phase = "gap" => since + sleep >= MinGap

Inv == TypeOK /\ QueueInv /\ ServedInv /\ CountInv /\ GapInv /\ LimitedOnlyAtLast

---------------------------------------------------------------------------

LEMMA InitInv == Init => Inv
<1> USE ForwarderAssumption
<1>1. Init => TypeOK
  BY DEF Init, TypeOK, Phase
<1>2. Init => QueueInv /\ ServedInv /\ CountInv /\ GapInv
  BY DEF Init, QueueInv, ServedInv, CountInv, GapInv
<1>3. Init => LimitedOnlyAtLast
  BY DEF Init, LimitedOnlyAtLast
<1> QED BY <1>1, <1>2, <1>3 DEF Inv

\* The queue after its head was answered: the calls behind it, each one place ahead.
LEMMA TailQueue ==
    ASSUME queue \in Seq(Call), queue # <<>>
    PROVE  /\ Head(queue) \in Call /\ Head(queue) = queue[1] /\ 1 \in DOMAIN queue
           /\ Tail(queue) \in Seq(Call)
           /\ \A i \in DOMAIN Tail(queue) :
                 i + 1 \in DOMAIN queue /\ Tail(queue)[i] = queue[i + 1] /\ i + 1 > 1
           /\ \A i \in DOMAIN queue : i > 1 => i - 1 \in DOMAIN Tail(queue) /\ Tail(queue)[i - 1] = queue[i]
<1> QED OBVIOUS

LEMMA ForwardInv ==
    ASSUME Inv, NEW c \in Call, Forward(c) PROVE Inv'
<1> USE DEF Inv, Forward
<1>1. /\ DOMAIN queue' = DOMAIN queue \cup {Len(queue) + 1} /\ queue' \in Seq(Call)
      /\ \A i \in DOMAIN queue : queue'[i] = queue[i] /\ i # Len(queue) + 1
      /\ queue'[Len(queue) + 1] = c
  BY DEF TypeOK
<1>2. TypeOK'
  BY <1>1 DEF TypeOK
<1>3. answer[c] = None /\ requests[c] = 0 /\ \A i \in DOMAIN queue : queue[i] # c
  BY DEF Called, CountInv
<1>4. QueueInv'
  <2>1. \A i, j \in DOMAIN queue' : queue'[i] = queue'[j] => i = j
    BY <1>1, <1>3 DEF QueueInv
  <2>2. \A i \in DOMAIN queue' : answer'[queue'[i]] = None
    BY <1>1, <1>3 DEF QueueInv
  <2>3. queue' # <<>>
    BY <1>1
  <2> QED BY <2>1, <2>2, <2>3 DEF QueueInv
<1>5. ServedInv'
  BY DEF ServedInv
<1>6. CountInv'
  <2>1. \A d \in Call : ~Called(d)' => requests'[d] = 0
    BY <1>1 DEF CountInv, Called
  <2>2. \A i \in DOMAIN queue' : (i > 1 \/ phase' = "idle") => requests'[queue'[i]] = 0
    BY <1>1, <1>3 DEF CountInv
  <2>3. phase # "idle" => Head(queue') = Head(queue)
    BY <1>1 DEF QueueInv, TypeOK
  <2> QED BY <2>1, <2>2, <2>3 DEF CountInv
<1>7. GapInv' /\ LimitedOnlyAtLast'
  BY DEF GapInv, LimitedOnlyAtLast
<1> QED BY <1>2, <1>4, <1>5, <1>6, <1>7

\* Steps that leave the queue and the answers alone.
LEMMA QuietInv ==
    ASSUME Inv, Start \/ Retry \/ Elapse \/ \E r \in Response : BackOff(r) PROVE Inv'
<1> USE ForwarderAssumption DEF Inv
<1>1. TypeOK'
  <2>1. CASE Start
    BY <2>1 DEF Start, TypeOK, Phase
  <2>2. CASE Retry
    BY <2>2 DEF Retry, TypeOK, Phase
  <2>3. CASE Elapse
    BY <2>3 DEF Elapse, TypeOK
  <2>4. ASSUME NEW r \in Response, BackOff(r) PROVE TypeOK'
    <3>1. Backoff * attempt \in Nat
      BY DEF TypeOK
    <3> QED BY <2>4, <3>1 DEF BackOff, AttemptsLeft, TypeOK, Phase
  <2> QED BY <2>1, <2>2, <2>3, <2>4
<1>2. UNCHANGED <<queue, answer, served, requests>>
  BY DEF Start, Retry, Elapse, BackOff
<1>3. QueueInv'
  BY <1>2 DEF QueueInv, Start, Retry, Elapse, BackOff
<1>4. ServedInv' /\ LimitedOnlyAtLast'
  BY <1>2 DEF ServedInv, LimitedOnlyAtLast
<1>5. CountInv'
  <2>1. \A d \in Call : ~Called(d)' => requests'[d] = 0
    BY <1>2 DEF CountInv, Called
  <2>2. CASE Start
    BY <2>1, <2>2, TailQueue DEF Start, CountInv, TypeOK
  <2>3. CASE Retry
    BY <2>1, <2>3 DEF Retry, CountInv
  <2>4. CASE Elapse
    BY <2>1, <2>4 DEF Elapse, CountInv
  <2>5. ASSUME NEW r \in Response, BackOff(r) PROVE CountInv'
    BY <2>1, <2>5 DEF BackOff, CountInv, TypeOK
  <2> QED BY <2>2, <2>3, <2>4, <2>5
<1>6. GapInv'
  BY DEF GapInv, TypeOK, Start, Retry, Elapse, BackOff
<1> QED BY <1>1, <1>3, <1>4, <1>5, <1>6

LEMMA SendInv ==
    ASSUME Inv, Send PROVE Inv'
<1> USE ForwarderAssumption DEF Inv, Send
<1>1. /\ queue # <<>> /\ Head(queue) \in Call /\ requests[Head(queue)] = attempt - 1
      /\ attempt \in 1..MaxAttempts
  BY TailQueue DEF QueueInv, TypeOK, CountInv
<1>2. TypeOK'
  BY <1>1 DEF TypeOK, Phase
<1>3. QueueInv' /\ ServedInv' /\ GapInv'
  BY DEF QueueInv, ServedInv, GapInv
<1>4. CountInv'
  <2>1. Called(Head(queue))
    BY <1>1, TailQueue DEF Called, TypeOK
  <2>2. \A d \in Call : ~Called(d)' => requests'[d] = 0
    BY <2>1 DEF CountInv, Called, TypeOK
  <2>3. \A i \in DOMAIN queue : i > 1 => queue[i] # Head(queue)
    BY <1>1, TailQueue DEF QueueInv, TypeOK
  <2>4. \A i \in DOMAIN queue : i > 1 => requests'[queue[i]] = 0
    BY <2>3 DEF CountInv, TypeOK
  <2>5. requests'[Head(queue)] = attempt
    BY <1>1 DEF TypeOK
  <2> QED BY <2>2, <2>4, <2>5 DEF CountInv
<1>5. LimitedOnlyAtLast'
  <2>1. \A d \in Call : answer[d] # None => d # Head(queue)
    BY <1>1, TailQueue DEF QueueInv, TypeOK
  <2> QED BY <2>1 DEF LimitedOnlyAtLast, TypeOK
<1> QED BY <1>2, <1>3, <1>4, <1>5

\* The head is answered with r, which is rate-limited only after the last attempt.
LEMMA SettleInv ==
    ASSUME Inv, phase = "upstream", NEW r \in Response \cup {Unavailable}, Settle(r),
           r # Unavailable /\ RateLimited(r) => attempt = MaxAttempts
    PROVE  Inv'
<1> USE DEF Inv, Settle
<1>1. queue \in Seq(Call) /\ queue # <<>>
  BY DEF TypeOK, QueueInv
<1>2. TypeOK'
  BY <1>1, TailQueue DEF TypeOK, Phase
<1>3. r # None
  BY NoneAssumption
<1>4. QueueInv'
  <2>1. \A i, j \in DOMAIN queue' : queue'[i] = queue'[j] => i = j
    BY <1>1, TailQueue DEF QueueInv
  <2>2. ASSUME NEW i \in DOMAIN queue' PROVE answer'[queue'[i]] = None
    <3>1. /\ i + 1 \in DOMAIN queue /\ queue'[i] = queue[i + 1]
          /\ 1 \in DOMAIN queue /\ Head(queue) = queue[1] /\ i + 1 # 1
      BY <1>1, TailQueue
    <3>2. queue[i + 1] # Head(queue) /\ queue[i + 1] \in Call
      BY <1>1, <3>1 DEF QueueInv
    <3> QED BY <3>1, <3>2 DEF QueueInv, TypeOK
  <2> QED BY <2>1, <2>2 DEF QueueInv
<1>5. ServedInv'
  <2>1. Head(queue) \in Call /\ answer' = [answer EXCEPT ![Head(queue)] = r]
    BY <1>1, TailQueue
  <2>2. served' \in Seq(Call)
    BY <2>1 DEF ServedInv
  <2>3. \A i \in DOMAIN served' : served'[i] = Head(queue) \/ (i \in DOMAIN served /\ served'[i] = served[i])
    BY <2>1 DEF ServedInv
  <2>4. \A i \in DOMAIN served' : served'[i] \in Call
    BY <2>2
  <2> QED BY <1>3, <2>1, <2>2, <2>3, <2>4 DEF ServedInv, TypeOK
<1>6. CountInv'
  <2>1. ASSUME NEW d \in Call, ~Called(d)' PROVE requests'[d] = 0
    <3>1. d # Head(queue) /\ answer[d] = None
      BY <1>1, <1>3, <2>1, TailQueue DEF Called, TypeOK
    <3>2. ASSUME NEW i \in DOMAIN queue, queue[i] = d PROVE FALSE
      <4>1. i > 1
        BY <1>1, <3>1, <3>2, TailQueue
      <4> QED BY <1>1, <2>1, <3>2, <4>1, TailQueue DEF Called
    <3> QED BY <3>1, <3>2 DEF Called, CountInv
  <2>2. \A i \in DOMAIN queue' : requests'[queue'[i]] = 0
    BY <1>1, TailQueue DEF CountInv
  <2> QED BY <2>1, <2>2 DEF CountInv
<1>7. GapInv'
  BY DEF GapInv
<1>8. LimitedOnlyAtLast'
  <2>1. Head(queue) \in Call /\ requests[Head(queue)] = attempt
    BY <1>1, TailQueue DEF CountInv
  <2>2. r # Unavailable /\ (r.status = 429 \/ "limited" \in r.items) => requests[Head(queue)] = MaxAttempts
    BY <2>1 DEF RateLimited
  <2> QED BY <2>1, <2>2 DEF LimitedOnlyAtLast, TypeOK
<1> QED BY <1>2, <1>4, <1>5, <1>6, <1>7, <1>8

LEMMA UpstreamInv ==
    ASSUME Inv, Upstream PROVE Inv'
<1>1. CASE Fails
  BY <1>1, SettleInv DEF Fails
<1>2. ASSUME NEW r \in Response, Answers(r) PROVE Inv'
  <2>1. RateLimited(r) => attempt = MaxAttempts
    BY <1>2, ForwarderAssumption DEF Answers, AttemptsLeft, Inv, TypeOK
  <2> QED BY <1>2, <2>1, SettleInv DEF Answers
<1>3. ASSUME NEW r \in Response, BackOff(r) PROVE Inv'
  BY <1>3, QuietInv
<1> QED BY <1>1, <1>2, <1>3 DEF Upstream

LEMMA NextInv == Inv /\ [Next]_vars => Inv'
<1> SUFFICES ASSUME Inv, [Next]_vars PROVE Inv'
  OBVIOUS
<1>1. CASE Start \/ Retry \/ Elapse
  BY <1>1, QuietInv
<1>2. CASE Send
  BY <1>2, SendInv
<1>3. CASE Upstream
  BY <1>3, UpstreamInv
<1>4. ASSUME NEW c \in Call, Forward(c) PROVE Inv'
  BY <1>4, ForwardInv
<1>5. CASE UNCHANGED vars
  BY <1>5 DEF vars, Inv, TypeOK, QueueInv, ServedInv, CountInv, GapInv, LimitedOnlyAtLast, Called
<1> QED BY <1>1, <1>2, <1>3, <1>4, <1>5 DEF Next

\* Types, and the invariant the other theorems use.
THEOREM ForwarderInvariant == Spec => []Inv
<1> QED BY InitInv, NextInv, PTL DEF Spec

\* Types are kept, for every gap, backoff and number of attempts, and a caller sees a
\* rate-limited answer only after MaxAttempts requests of its own.
THEOREM LimitedLast == Spec => []ForwarderInv
<1>1. Inv => ForwarderInv
  BY DEF Inv, ForwarderInv
<1> QED BY <1>1, ForwarderInvariant, PTL

\* Requests of any calls and attempts are MinGap apart.
THEOREM GapIsHeld == Spec => GapHeld
<1>1. Inv /\ [Next]_vars => [phase # "upstream" /\ phase' = "upstream" => since = MinGap]_vars
  <2> SUFFICES ASSUME Inv, Next, phase # "upstream", phase' = "upstream" PROVE since = MinGap
    OBVIOUS
  <2>1. Send
    BY DEF Next, Start, Upstream, Fails, Answers, Settle, BackOff, Retry, Elapse, Forward
  <2> QED BY <2>1, ForwarderAssumption DEF Send, Inv, GapInv, TypeOK
<1> QED BY <1>1, ForwarderInvariant, PTL DEF Spec, GapHeld

\* Every step is a step of the serial queue or leaves it alone.
LEMMA QueueStep == Inv /\ [Next]_vars => [IsSerialQueue!QueueNext]_(IsSerialQueue!queueVars)
<1> SUFFICES ASSUME Inv, [Next]_vars
             PROVE  IsSerialQueue!QueueNext \/ UNCHANGED <<queue, served>>
  BY DEF IsSerialQueue!queueVars
<1>1. ASSUME NEW c \in Call, Forward(c) PROVE IsSerialQueue!Enter(c)
  <2>1. \A i \in DOMAIN queue : queue[i] # c
    BY <1>1 DEF Forward, Called
  <2>2. \A i \in DOMAIN served : served[i] # c
    BY <1>1 DEF Forward, Called, Inv, ServedInv
  <2> QED BY <1>1, <2>1, <2>2 DEF Forward, IsSerialQueue!Enter, IsSerialQueue!Members
<1>2. ASSUME NEW r \in Response \cup {Unavailable}, phase = "upstream", Settle(r)
      PROVE  IsSerialQueue!Serve
  BY <1>2 DEF Settle, IsSerialQueue!Serve, Inv, QueueInv
<1>3. CASE Start \/ Send \/ Retry \/ Elapse
  BY <1>3 DEF Start, Send, Retry, Elapse
<1>4. CASE Upstream
  BY <1>2, <1>4 DEF Upstream, Fails, Answers, BackOff, IsSerialQueue!QueueNext
<1>5. CASE UNCHANGED vars
  BY <1>5 DEF vars
<1> QED BY <1>1, <1>3, <1>4, <1>5 DEF Next, IsSerialQueue!QueueNext

\* The forwarder implements the serial queue: in order, one at a time, each answered once.
THEOREM ForwarderImplementsQueue == Spec => ImplementsQueue
<1>1. Init => IsSerialQueue!QueueInit
  BY DEF Init, IsSerialQueue!QueueInit
<1> QED BY <1>1, QueueStep, ForwarderInvariant, PTL DEF Spec, ImplementsQueue, IsSerialQueue!QueueSpec

=============================================================================
