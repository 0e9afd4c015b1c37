------------------------------- MODULE Service -------------------------------
(***************************************************************************)
(* The service's loop (packages/service/bin/service.ts): Indexer, at-risk  *)
(* monitor and keeper, one after the other, over one Store and one chain.  *)
(* Every await is a step of its own, so the chain moves between a read and *)
(* what the service does with it; what runs without an await is one step,  *)
(* except where a crash between two database writes matters.  The          *)
(* dispatcher, the second stage of a tick, is in Webhooks.                 *)
(*                                                                         *)
(* The chain is what the service sees of SubscriptionManager: one customer,*)
(* one card and one price for all subscriptions, a block per log.          *)
(***************************************************************************)
EXTENDS Integers, Sequences, FiniteSets

CONSTANTS
    Sub,            \* subscription ids
    Trial,          \* trial periods tried
    Period,         \* the plan's period
    GRACE,          \* SubscriptionManager.GRACE
    Funds,          \* the customer's balances tried, in charges it covers
    ChunkSize,      \* blocks per getLogs
    Lookahead,      \* lookaheadS
    OverdueAfter,   \* overdueAfterS
    CustomerActs,   \* the customer moves funds, freezes the card and cancels
    Timely,         \* the clock moves by at most 1 during a run of monitor or keeper
    MaxTime,        \* bound: the clock
    MaxPending,     \* bound: the keeper's unmined transactions per subscription
    MaxErrors,      \* bound: failing RPC calls
    MaxCrashes,     \* bound: restarts of the service
    Nothing         \* no read is being worked on

ASSUME ServiceAssumption ==
    /\ Trial \subseteq Nat /\ Period \in Nat \ {0} /\ GRACE \in Nat /\ Funds \subseteq Nat
    /\ ChunkSize \in Nat \ {0} /\ Lookahead \in Nat /\ OverdueAfter \in Nat
    /\ CustomerActs \in BOOLEAN /\ Timely \in BOOLEAN
    /\ MaxTime \in Nat /\ MaxPending \in Nat /\ MaxErrors \in Nat /\ MaxCrashes \in Nat

VARIABLES
    now,        \* block time, and the service's clock
    subs,       \* SubscriptionManager: state and nextChargeAt
    funds,      \* the customer's balance, in charges
    frozen,     \* the card's policy blocks every charge
    log,        \* the contracts' events, one per block
    pending,    \* the keeper's transactions that are not mined, per subscription
    cursor,     \* cursors table: last block indexed
    indexed,    \* events table: the blocks whose event was inserted
    alerts,     \* events table: <<type, sub, nextChargeAt>> of the synthetic events
    tracked,    \* subs table
    stage,      \* where the loop is; the locals below are 0 when out of scope
    head,       \* Indexer: the block number read
    pos,        \* ... the next block to insert
    nowS,       \* monitor, keeper: the time read when they started
    todo,       \* ... the active subscriptions not looked at
    look,       \* ... the upcoming charge read for one of them
    errors, crashes

chain == <<now, subs, funds, frozen, log, pending>>
store == <<cursor, indexed, alerts, tracked>>
locals == <<stage, head, pos, nowS, todo, look>>
bounds == <<errors, crashes>>
vars == <<chain, store, locals, bounds>>

Stages == {"index", "logs", "toMonitor", "monitor", "toKeeper", "keeper"}
Alert == {"at_risk", "attempt_failed", "overdue"}

Init ==
    /\ now = 0 /\ funds \in Funds /\ frozen \in (IF CustomerActs THEN {FALSE} ELSE BOOLEAN)
    /\ subs = [s \in Sub |-> [state |-> "none", nextChargeAt |-> 0]]
    /\ log = <<>> /\ pending = [s \in Sub |-> 0]
    /\ cursor = 0 /\ indexed = {} /\ alerts = {}
    /\ tracked = [s \in Sub |-> "unknown"]
    /\ stage = "index" /\ head = 0 /\ pos = 0 /\ nowS = 0 /\ todo = {} /\ look = Nothing
    /\ errors = 0 /\ crashes = 0

---------------------------------------------------------------------------
(* The chain. *)

Logged(type, s) == log' = Append(log, [type |-> type, sub |-> s])

\* charge() reverts: not active, not due, or a payment the customer or the card
\* refuses.
Lapsed(s) == now > subs[s].nextChargeAt + GRACE
Payable == funds > 0 /\ ~frozen
Accepted(s) == /\ subs[s].state = "Active" /\ now >= subs[s].nextChargeAt
               /\ Lapsed(s) \/ Payable

\* charge(): after the grace period the subscription expires, before it is paid.
Charge(s) ==
    IF ~Accepted(s) THEN UNCHANGED <<subs, funds, log>>
    ELSE IF Lapsed(s)
    THEN /\ subs' = [subs EXCEPT ![s].state = "Expired"]
         /\ Logged("subscription.expired", s)
         /\ UNCHANGED funds
    ELSE /\ subs' = [subs EXCEPT ![s].nextChargeAt = @ + Period]
         /\ Logged("payment.succeeded", s)
         /\ funds' = funds - 1

Subscribe(s, trial) ==
    /\ subs[s].state = "none"
    /\ subs' = [subs EXCEPT ![s] = [state |-> "Active", nextChargeAt |-> now + trial]]
    /\ Logged("subscription.created", s)
    /\ UNCHANGED <<now, funds, frozen, pending, store, locals, bounds>>

\* charge() is permissionless.
AnyoneCharges(s) ==
    /\ Accepted(s) /\ Charge(s)
    /\ UNCHANGED <<now, frozen, pending, store, locals, bounds>>

MineCharge(s) ==
    /\ pending[s] > 0 /\ pending' = [pending EXCEPT ![s] = @ - 1]
    /\ Charge(s)
    /\ UNCHANGED <<now, frozen, store, locals, bounds>>

Cancel(s) ==
    /\ CustomerActs /\ subs[s].state = "Active"
    /\ subs' = [subs EXCEPT ![s].state = "Cancelled"]
    /\ Logged("subscription.cancelled", s)
    /\ UNCHANGED <<now, funds, frozen, pending, store, locals, bounds>>

Customer ==
    /\ CustomerActs
    /\ \/ funds' \in Funds \ {funds} /\ UNCHANGED frozen
       \/ frozen' = ~frozen /\ UNCHANGED funds
    /\ UNCHANGED <<now, subs, log, pending, store, locals, bounds>>

\* Time passes.
Elapse ==
    /\ now < MaxTime
    /\ Timely /\ stage \in {"monitor", "toKeeper", "keeper"} => now <= nowS
    /\ now' = now + 1
    /\ UNCHANGED <<subs, funds, frozen, log, pending, store, locals, bounds>>

Chain ==
    \/ \E s \in Sub : (\E t \in Trial : Subscribe(s, t)) \/ AnyoneCharges(s)
                      \/ MineCharge(s) \/ Cancel(s)
    \/ Customer
    \/ Elapse

---------------------------------------------------------------------------
(* Indexer.runOnce. *)

ChunkEnd == IF cursor + ChunkSize > head THEN head ELSE cursor + ChunkSize

\* getBlockNumber; nothing to do when the cursor has caught up.
ReadHead ==
    /\ stage = "index"
    /\ IF Len(log) <= cursor
       THEN stage' = "toMonitor" /\ UNCHANGED <<head, pos>>
       ELSE stage' = "logs" /\ head' = Len(log) /\ pos' = cursor + 1
    /\ UNCHANGED <<chain, store, nowS, todo, look, bounds>>

trackSub(s) == [tracked EXCEPT ![s] = "active"]

\* Mutant: the statement of trackSub, copied: what ends stays on the list.
deactivateSubCopied(s) == [tracked EXCEPT ![s] = IF @ = "unknown" THEN @ ELSE "active"]

\* UPDATE: a subscription that has no row gets none.
deactivateSub(s) == [tracked EXCEPT ![s] = IF @ = "unknown" THEN @ ELSE "inactive"]

\* What an event inserted does to the subs table.
SideEffect(e) ==
    CASE e.type = "subscription.created" -> trackSub(e.sub)
      [] e.type \in {"subscription.expired", "subscription.cancelled"} -> deactivateSub(e.sub)
      [] OTHER -> tracked

\* Mutant: the side effects are not tied to the insert.
IndexLogAlways ==
    /\ stage = "logs" /\ pos <= ChunkEnd
    /\ indexed' = indexed \cup {pos} /\ tracked' = SideEffect(log[pos]) /\ pos' = pos + 1
    /\ UNCHANGED <<chain, cursor, alerts, stage, head, nowS, todo, look, bounds>>

\* One log of the chunk: insertEvent's transaction, side effects only when the
\* event was not in the table.
IndexLog ==
    /\ stage = "logs" /\ pos <= ChunkEnd
    /\ indexed' = indexed \cup {pos}
    /\ tracked' = IF pos \in indexed THEN tracked ELSE SideEffect(log[pos])
    /\ pos' = pos + 1
    /\ UNCHANGED <<chain, cursor, alerts, stage, head, nowS, todo, look, bounds>>

\* setCursor at the end of a chunk.
SetCursor ==
    /\ stage = "logs" /\ pos > ChunkEnd
    /\ cursor' = ChunkEnd
    /\ IF ChunkEnd = head
       THEN stage' = "toMonitor" /\ head' = 0 /\ pos' = 0
       ELSE UNCHANGED <<stage, head, pos>>
    /\ UNCHANGED <<chain, indexed, alerts, tracked, nowS, todo, look, bounds>>

\* A failing RPC call of the indexer ends the tick; monitor and keeper do not run.
TickFails ==
    /\ stage = "index" \/ (stage = "logs" /\ pos = cursor + 1)
    /\ errors < MaxErrors /\ errors' = errors + 1
    /\ stage' = "index" /\ head' = 0 /\ pos' = 0
    /\ UNCHANGED <<chain, store, nowS, todo, look, crashes>>

---------------------------------------------------------------------------
(* AtRiskMonitor.runOnce and Keeper.runOnce go through listActiveSubs. *)

Active == {s \in Sub : tracked[s] = "active"}

StartRun(from, at) ==
    /\ stage = from
    /\ stage' = at /\ nowS' = now /\ todo' = Active
    /\ UNCHANGED <<chain, store, head, pos, look, bounds>>

EndRun(at, to) ==
    /\ stage = at /\ todo = {} /\ look = Nothing
    /\ stage' = to
    /\ nowS' = IF to = "index" THEN 0 ELSE nowS
    /\ UNCHANGED <<chain, store, head, pos, todo, look, bounds>>

\* getUpcomingCharge answers; a subscription that ended on the chain is given up,
\* one that does not concern this run is skipped.
ReadUpcoming(s, at, concerns) ==
    /\ stage = at /\ look = Nothing /\ s \in todo
    /\ todo' = todo \ {s}
    /\ tracked' = IF subs[s].state = "Active" THEN tracked ELSE deactivateSub(s)
    /\ look' = IF subs[s].state = "Active" /\ concerns
               THEN [sub |-> s, due |-> subs[s].nextChargeAt, step |-> "read"]
               ELSE Nothing
    /\ UNCHANGED <<chain, cursor, indexed, alerts, stage, head, pos, nowS, bounds>>

\* ... or fails: the subscription is left for the next tick.
ReadFails(s) ==
    /\ stage \in {"monitor", "keeper"} /\ look = Nothing /\ s \in todo
    /\ errors < MaxErrors /\ errors' = errors + 1
    /\ todo' = todo \ {s}
    /\ UNCHANGED <<chain, store, stage, head, pos, nowS, look, crashes>>

DropLook ==
    /\ look' = Nothing
    /\ UNCHANGED <<chain, cursor, indexed, tracked, stage, head, pos, nowS, todo>>

WithinLookahead(s) == subs[s].nextChargeAt - nowS <= Lookahead

MonitorReads(s) == ReadUpcoming(s, "monitor", WithinLookahead(s))

\* balanceOf, then, if it suffices, previewSpend: the first that refuses is the
\* reason of the at-risk event, whose id makes it unique per period.
CheckBalance ==
    /\ stage = "monitor" /\ look # Nothing /\ look.step = "read"
    /\ IF funds > 0
       THEN /\ look' = [look EXCEPT !.step = "balance"]
            /\ UNCHANGED <<chain, store, stage, head, pos, nowS, todo, bounds>>
       ELSE /\ alerts' = alerts \cup {<<"at_risk", look.sub, look.due>>}
            /\ DropLook /\ UNCHANGED bounds

CheckCard ==
    /\ stage = "monitor" /\ look # Nothing /\ look.step = "balance"
    /\ alerts' = IF frozen THEN alerts \cup {<<"at_risk", look.sub, look.due>>} ELSE alerts
    /\ DropLook /\ UNCHANGED bounds

CheckFails ==
    /\ stage = "monitor" /\ look # Nothing
    /\ errors < MaxErrors /\ errors' = errors + 1
    /\ DropLook /\ UNCHANGED <<alerts, crashes>>

\* Mutant: the keeper looks at what is due at this moment only.
KeeperReadsOnTime(s) == ReadUpcoming(s, "keeper", nowS = subs[s].nextChargeAt)

KeeperReads(s) == ReadUpcoming(s, "keeper", nowS >= subs[s].nextChargeAt)

\* Mutant: a failed attempt at what is overdue gives the subscription up.
AttemptFailsGivingUp ==
    /\ alerts' = alerts \cup {<<"attempt_failed", look.sub, look.due>>}
    /\ tracked' = [tracked EXCEPT ![look.sub] = "inactive"]
    /\ look' = Nothing
    /\ UNCHANGED <<chain, cursor, indexed, stage, head, pos, nowS, todo>>

\* The catch block.
AttemptFails ==
    /\ alerts' = alerts \cup {<<"attempt_failed", look.sub, look.due>>}
          \cup (IF nowS > look.due + OverdueAfter
                THEN {<<"overdue", look.sub, look.due>>} ELSE {})
    /\ DropLook

\* writeContract estimates the call first: it throws when charge() would revert,
\* and sends the transaction otherwise, without waiting for its receipt.
SendCharge ==
    /\ stage = "keeper" /\ look # Nothing
    /\ IF Accepted(look.sub)
       THEN /\ pending[look.sub] < MaxPending
            /\ pending' = [pending EXCEPT ![look.sub] = @ + 1]
            /\ look' = Nothing
            /\ UNCHANGED <<now, subs, funds, frozen, log, store, stage, head, pos, nowS,
                           todo, bounds>>
       ELSE AttemptFails /\ UNCHANGED bounds

\* The RPC call fails: the answer of a transaction that was sent may be lost, too.
SendFails ==
    /\ stage = "keeper" /\ look # Nothing
    /\ errors < MaxErrors /\ errors' = errors + 1
    /\ AttemptFails /\ UNCHANGED crashes

\* The process dies and starts again with what the database holds.
Crash ==
    /\ crashes < MaxCrashes /\ crashes' = crashes + 1
    /\ stage' = "index" /\ head' = 0 /\ pos' = 0
    /\ nowS' = 0 /\ look' = Nothing /\ todo' = {}
    /\ UNCHANGED <<chain, store, errors>>

Loop ==
    \/ ReadHead \/ IndexLog \/ SetCursor
    \/ StartRun("toMonitor", "monitor") \/ EndRun("monitor", "toKeeper")
    \/ StartRun("toKeeper", "keeper") \/ EndRun("keeper", "index")
    \/ \E s \in Sub : MonitorReads(s) \/ KeeperReads(s)
    \/ CheckBalance \/ CheckCard \/ SendCharge

Faults == TickFails \/ CheckFails \/ SendFails \/ Crash \/ \E s \in Sub : ReadFails(s)

Next == Chain \/ Loop \/ Faults

Spec == Init /\ [][Next]_vars

\* The loop runs for ever and every await of it ends; the chain mines what was sent.
Fairness == WF_vars(Loop) /\ \A s \in Sub : WF_vars(MineCharge(s))

FairSpec == Spec /\ Fairness

---------------------------------------------------------------------------
(* Properties. *)

\* The tables, the chain and the loop's locals have their types; the cursor is no
\* further than the chain.
TypeOK ==
    /\ now \in 0..MaxTime /\ funds \in Nat /\ frozen \in BOOLEAN
    /\ subs \in [Sub -> [state : {"none", "Active", "Expired", "Cancelled"}, nextChargeAt : Nat]]
    /\ pending \in [Sub -> 0..MaxPending]
    /\ cursor \in 0..Len(log) /\ indexed \subseteq 1..Len(log)
    /\ alerts \subseteq Alert \X Sub \X Nat
    /\ tracked \in [Sub -> {"unknown", "active", "inactive"}]
    /\ stage \in Stages /\ todo \subseteq Sub /\ head \in 0..Len(log)
    /\ look # Nothing => look.sub \in Sub /\ stage \in {"monitor", "keeper"}

\* Resumable without a gap: whatever crash or failing call ended a tick, every block
\* up to the cursor has its event in the table.
NoGap == 1..cursor \subseteq indexed

\* Replay is harmless: logs read again after a crash do not bring a subscription
\* back to the active list once it was given up.
NoResurrection ==
    [][\A s \in Sub : tracked[s] = "inactive" => tracked'[s] = "inactive"]_vars

\* The monitors forget nobody who still pays: a subscription that is active on the
\* chain and whose creation was indexed stays on the active list.
ActiveIsWatched ==
    \A s \in Sub :
        /\ subs[s].state = "Active"
        /\ \E n \in indexed : log[n] = [type |-> "subscription.created", sub |-> s]
        => tracked[s] = "active"

\* Tables and locals are well-formed, the indexed prefix of the chain is complete, and the
\* monitors' list with it.
IndexInv == TypeOK /\ NoGap /\ ActiveIsWatched

\* No charge can stay both due and payable for ever: the keeper finds it, through
\* crashes, failing calls and transactions that overtake one another.
DueIsCharged == \A s \in Sub : []<>~Accepted(s)

\* A subscription that ended on the chain, cancelled by its customer or expired by a late
\* charge, leaves the active list for good: by its event, or when its state is read, through
\* crashes and failing calls.
EndedIsForgotten ==
    \A s \in Sub : subs[s].state \in {"Expired", "Cancelled"} ~> tracked[s] = "inactive"

=============================================================================
