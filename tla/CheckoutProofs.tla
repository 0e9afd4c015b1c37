---------------------------- MODULE CheckoutProofs ----------------------------
(***************************************************************************)
(* Proofs of what the checkout keeps, for any number of overlapping runs   *)
(* of its flows, transactions, cards, other buyers and retries.            *)
(*                                                                         *)
(* One argument carries all of it: busyRef lets one flow run at a time     *)
(* (OneFlow), so the panel's step is the stage of that flow (Stages), the  *)
(* id it read is at most one past what exists (Ids), and a subscription    *)
(* that counts is its own or the one that ended the checkout (Paid).       *)
(***************************************************************************)
EXTENDS Checkout, FiniteSetTheorems, TLAPS

Kind == {"mintSign", "approveSign", "subSign"}
Outcome == {"pending", "success", "reverted"}
OptNat == Nat \cup {None}
Panel == [step : Step, selected : OptNat, subId : OptNat]
Flow == [pc : Pc, card : OptNat, id : OptNat, had : BOOLEAN, tx : OptNat]
Sub == [owner : {"me", "other"}, card : Nat]
Tx == [kind : Kind, card : OptNat, status : Outcome, givenUp : BOOLEAN]

\* The types of the state, for any number of transactions and cards.
Types ==
    /\ ui \in Panel
    /\ isConnected \in BOOLEAN /\ plan \in BOOLEAN /\ busy \in BOOLEAN /\ warned \in BOOLEAN
    /\ task \in [Task -> Flow]
    /\ txs \in Seq(Tx)
    /\ cards \in Seq({"me", "other"})
    /\ subs \in Seq(Sub)
    /\ others \in Nat

\* What is referred to exists, and the scan found the buyer's subscriptions.
Refers ==
    /\ ui.selected # None => 1 <= ui.selected /\ ui.selected <= Len(cards)
    /\ ui.subId # None => 1 <= ui.subId /\ ui.subId <= Len(subs)
    /\ \A t \in Task : task[t].tx # None => 1 <= task[t].tx /\ task[t].tx <= Len(txs)
    /\ \A i \in DOMAIN subs : 1 <= subs[i].card /\ subs[i].card <= Len(cards)
    /\ existing # None => existing \subseteq Mine

\* At most one flow runs, and busyRef says whether one does.
OneFlow ==
    /\ ~busy => \A t \in Task : task[t].pc = "idle"
    /\ \A t, u \in Task : task[t].pc # "idle" /\ task[u].pc # "idle" => t = u

Stage(pc) ==
    CASE pc = "allowance" -> "pick"
      [] pc \in MintPc -> "minting"
      [] pc \in ApprovePc -> "approving"
      [] OTHER -> "subscribing"

\* The panel shows the stage of the flow that runs, and a stage only while one does.
Stages ==
    /\ \A t \in Task : task[t].pc # "idle" => ui.step = Stage(task[t].pc)
    /\ ui.step \in {"minting", "approving", "subscribing"} => \E t \in Task : task[t].pc # "idle"
    /\ \A t \in Task : task[t].pc \in {"allowance"} \cup ApprovePc => ui.selected # None

\* The effects: the panel is past connecting once the wallet is connected, and past loading
\* once the plan's effect has seen it loading with a plan.
Effects ==
    /\ isConnected => ui.step # "connect"
    /\ planEffect = <<TRUE, "loading">> => ui.step \notin {"connect", "loading"}

\* An id read before a write is at most one past what exists, and exists once the write landed.
IdsOf(r) ==
    /\ r.pc \in {"mintSign", "mintReceipt"} => r.id \in Nat /\ 3 <= r.id /\ r.id <= Len(cards) + 1
    /\ r.pc \in {"subSign", "subReceipt"} => r.id \in Nat /\ 1 <= r.id /\ r.id <= Len(subs) + 1
    /\ r.pc = "mintReceipt" =>
          /\ r.tx # None /\ txs[r.tx].kind = "mintSign"
          /\ txs[r.tx].status = "success" => r.id <= Len(cards)
    /\ r.pc = "subReceipt" =>
          /\ r.tx # None /\ txs[r.tx].kind = "subSign"
          /\ txs[r.tx].status = "success" => r.id <= Len(subs)

Ids == \A t \in Task : IdsOf(task[t])

\* Whose everything is: the first card is the buyer's, and without others all later ones are.
Owners ==
    /\ Len(cards) >= 2 /\ cards[1] = "me"
    /\ NoForeignCard
    /\ others = 0 => /\ \A i \in DOMAIN cards : i # 2 => cards[i] = "me"
                     /\ \A i \in DOMAIN subs : subs[i].owner = "me"
                     /\ ui.selected # None => cards[ui.selected] = "me"
                     /\ ui.step = "done" => ui.subId # None

\* A subscription paid for, or about to be, whose flow did not give up on it.
Counts(i) == txs[i].kind = "subSign" /\ txs[i].status # "reverted" /\ ~txs[i].givenUp

\* It is the running flow's, or the checkout is done; and there are no two.
Paid ==
    /\ \A i \in DOMAIN txs : Counts(i) =>
          \/ \E t \in Task : task[t].pc = "subReceipt" /\ task[t].tx = i
          \/ ui.step = "done"
    /\ \A i, j \in DOMAIN txs : Counts(i) /\ Counts(j) => i = j

Twice == \E i, j \in Mine : i # j

\* A flow that started with the note up has a subscription of before, and two once it paid.
Notes ==
    /\ warned => Twice
    /\ \A t \in Task : task[t].pc # "idle" /\ task[t].had =>
          /\ Mine # {}
          /\ task[t].pc = "subReceipt" /\ txs[task[t].tx].status = "success" => Twice

CheckoutInv ==
    /\ Types /\ Refers /\ OneFlow /\ Stages /\ Effects /\ Ids /\ Owners /\ Paid /\ Notes

---------------------------------------------------------------------------

LEMMA InvInit == Init => CheckoutInv
<1> SUFFICES ASSUME Init PROVE CheckoutInv
  OBVIOUS
<1> USE CheckoutAssumption
<1>1. Types
  <2>1. subs \in Seq(Sub)
    <3>1. \A S, r : r \in S => <<r>> \in Seq(S)
      OBVIOUS
    <3>2. [owner |-> "me", card |-> 1] \in Sub
      BY DEF Sub
    <3>3. subs = <<>> \/ subs = <<[owner |-> "me", card |-> 1]>>
      BY DEF Init
    <3>4. CASE subs = <<>>
      BY <3>4
    <3>5. CASE subs = <<[owner |-> "me", card |-> 1]>>
      BY <3>1, <3>2, <3>5
    <3> QED BY <3>3, <3>4, <3>5
  <2>2. txs \in Seq(Tx)
    BY DEF Init
  <2>3. cards \in Seq({"me", "other"}) /\ others \in Nat
    BY DEF Init
  <2>4. task \in [Task -> Flow]
    BY DEF Init, NoTask, Pc, OptNat, Flow
  <2>5. ui \in Panel
    BY DEF Init, Step, OptNat, Panel
  <2> QED BY <2>1, <2>2, <2>3, <2>4, <2>5 DEF Types, Init
<1>2. Refers
  BY DEF Init, Refers, NoTask, Mine
<1>3. OneFlow /\ Stages /\ Effects /\ Ids
  <2>1. \A t \in Task : task[t].pc = "idle"
    BY DEF Init, NoTask
  <2>2. ui.step = "connect" /\ ~isConnected /\ planEffect # <<TRUE, "loading">>
    BY EffectAssumption DEF Init, Step
  <2>3. OneFlow
    BY <2>1 DEF OneFlow
  <2>6. Effects
    BY <2>2 DEF Effects
  <2>4. Stages
    BY <2>1, <2>2 DEF Stages, ApprovePc
  <2>5. Ids
    BY <2>1 DEF Ids, IdsOf
  <2> QED BY <2>3, <2>4, <2>5, <2>6
<1>4. Owners /\ Paid /\ Notes
  BY CheckoutAssumption DEF Init, Owners, NoForeignCard, Mine, Paid, Notes, NoTask
<1> QED BY <1>1, <1>2, <1>3, <1>4 DEF CheckoutInv

\* Steps that move the panel and its effects alone.
PanelStep ==
    /\ \/ Connects \/ Disconnects \/ PlanArrives \/ PlanEffect \/ Scan \/ Retries
       \/ \E c \in DOMAIN cards : Picks(c)

\* Such a step leaves flows and chain alone, moves no step of a flow, and selects only a
\* card of the buyer's.
PanelMoves ==
    /\ UNCHANGED <<busy, task, warned, cards, subs, txs, others>>
    /\ ui'.step # ui.step => /\ ui.step \in {"connect", "loading", "error"}
                             /\ ui'.step \in {"loading", "pick"}
    /\ \/ ui'.selected = ui.selected
       \/ ui'.selected = None /\ ui.step = "error"
       \/ ui'.selected \in DOMAIN cards /\ cards[ui'.selected] = "me"
    /\ ui'.subId # ui.subId => ui'.subId = None /\ ui'.step = "pick"
    /\ ui' \in Panel
    /\ isConnected' \in BOOLEAN /\ plan' \in BOOLEAN
    /\ existing' = existing \/ existing' \subseteq Mine

LEMMA PanelStepMoves == Types /\ Refers /\ PanelStep => PanelMoves
<1> SUFFICES ASSUME Types, Refers, PanelStep PROVE PanelMoves
  OBVIOUS
<1> USE CheckoutAssumption DEF Types, Refers, chainVars, To, Step, OptNat, Panel, PanelMoves
<1>1. CASE Connects
  BY <1>1 DEF Connects, Connected
<1>2. CASE Disconnects \/ PlanArrives
  BY <1>2 DEF Disconnects, PlanArrives
<1>3. CASE PlanEffect
  BY <1>3 DEF PlanEffect, PlanLoaded
<1>4. CASE Scan
  BY <1>4 DEF Scan
<1>5. CASE Retries
  BY <1>5 DEF Retries, Reset
<1>6. ASSUME NEW c \in DOMAIN cards, Picks(c) PROVE PanelMoves
  <2>1. c \in Nat
    OBVIOUS
  <2> QED BY <1>6, <2>1 DEF Picks, Select
<1> QED BY <1>1, <1>2, <1>3, <1>4, <1>5, <1>6 DEF PanelStep

LEMMA PanelStepKeepsInv == CheckoutInv /\ PanelStep => CheckoutInv'
<1> SUFFICES ASSUME CheckoutInv, PanelStep PROVE CheckoutInv'
  OBVIOUS
<1>1. Types /\ Refers /\ OneFlow /\ Stages /\ Effects /\ Ids /\ Owners /\ Paid /\ Notes
  BY DEF CheckoutInv
<1>2. PanelMoves
  BY <1>1, PanelStepMoves
<1> USE DEF PanelMoves
<1>3. Types'
  BY <1>1, <1>2 DEF Types
<1>4. Mine' = Mine
  BY <1>2 DEF Mine
<1>5. Refers'
  BY <1>1, <1>2, <1>4, CheckoutAssumption DEF Refers, Types
<1>6. OneFlow' /\ Ids'
  BY <1>1, <1>2 DEF OneFlow, Ids, IdsOf
<1>7. ASSUME NEW t \in Task, task[t].pc # "idle"
      PROVE  ui'.step = ui.step /\ ui.step = Stage(task[t].pc)
  BY <1>1, <1>2, <1>7 DEF Stages, Stage, Types, Pc, Flow
<1>8. Stages'
  <2>1. \A t \in Task : task[t].pc # "idle" => ui'.step = Stage(task[t].pc)
    BY <1>7
  <2>2. ui'.step \in {"minting", "approving", "subscribing"} => \E t \in Task : task[t].pc # "idle"
    BY <1>1, <1>2 DEF Stages
  <2>3. ASSUME NEW t \in Task, task[t].pc \in {"allowance"} \cup ApprovePc
        PROVE  ui'.selected # None
    <3>1. task[t].pc # "idle" /\ ui.selected # None
      BY <1>1, <2>3 DEF Stages, ApprovePc
    <3>2. ui.step # "error"
      BY <1>7, <3>1 DEF Stage
    <3> QED BY <1>1, <1>2, <3>1, <3>2, CheckoutAssumption DEF Types
  <2> QED BY <1>2, <2>1, <2>2, <2>3 DEF Stages
<1>9. Effects'
  <2> USE <1>1 DEF Effects, To
  <2>1. CASE Connects
    BY <2>1 DEF Connects, Connected, Types, Panel
  <2>2. CASE Disconnects
    BY <2>2 DEF Disconnects
  <2>7. CASE PlanArrives
    BY <2>7 DEF PlanArrives
  <2>3. CASE PlanEffect
    <3>1. planEffect' = <<plan, ui.step>>
      BY <2>3 DEF PlanEffect, Deps
    <3>2. planEffect' = <<TRUE, "loading">> => plan /\ ui.step = "loading"
      BY <3>1
    <3> QED BY <2>3, <3>2 DEF PlanEffect, PlanLoaded, Types, Panel
  <2>4. CASE Scan
    BY <2>4 DEF Scan
  <2>5. CASE Retries
    BY <2>5 DEF Retries, Reset
  <2>6. ASSUME NEW c \in DOMAIN cards, Picks(c) PROVE Effects'
    BY <2>6 DEF Picks, Select, Types, Panel
  <2> QED BY <2>1, <2>2, <2>3, <2>4, <2>5, <2>6, <2>7 DEF PanelStep
<1>10. Owners'
  <2>1. NoForeignCard' /\ Len(cards') >= 2 /\ cards'[1] = "me"
    BY <1>1, <1>2, <1>4 DEF Owners, NoForeignCard
  <2>2. ui'.selected = ui.selected \/ ui'.selected = None \/ cards[ui'.selected] = "me"
    BY <1>2
  <2>3. ui'.step = "done" => ui.step = "done" /\ ui'.subId = ui.subId
    BY <1>2
  <2> QED BY <1>1, <1>2, <2>1, <2>2, <2>3 DEF Owners
<1>11. Paid'
  BY <1>1, <1>2 DEF Paid, Counts
<1>12. Notes'
  BY <1>1, <1>2, <1>4 DEF Notes, Twice
<1> QED BY <1>3, <1>5, <1>6, <1>8, <1>9, <1>10, <1>11, <1>12 DEF CheckoutInv

---------------------------------------------------------------------------
(* The flows. *)

\* What a step of the flow t, to r, has to be like; the others are idle.
FlowMoves(t, r) ==
    /\ r \in Flow /\ task' = [task EXCEPT ![t] = r]
    /\ \A u \in Task \ {t} : task[u].pc = "idle"
    /\ UNCHANGED <<isConnected, plan, planEffect, existing, cards, subs, others>>
    /\ busy' \in BOOLEAN /\ (r.pc # "idle" => busy')
    /\ txs' \in Seq(Tx) /\ Len(txs) <= Len(txs')
    /\ r.tx # None => 1 <= r.tx /\ r.tx <= Len(txs')

PanelFollows(r) ==
    /\ ui' \in Panel /\ ui'.step \notin {"connect", "loading"}
    /\ r.pc # "idle" => ui'.step = Stage(r.pc)
    /\ r.pc = "idle" => ui'.step \notin {"minting", "approving", "subscribing"}
    /\ r.pc \in {"allowance"} \cup ApprovePc => ui'.selected # None
    /\ ui'.selected # ui.selected =>
          /\ 1 <= ui'.selected /\ ui'.selected <= Len(cards)
          /\ others = 0 => cards[ui'.selected] = "me"
    /\ ui'.subId # ui.subId => ui'.subId \in Nat /\ 1 <= ui'.subId /\ ui'.subId <= Len(subs)
    /\ ui'.step = "done" => ui'.subId # None

NotesFollow(r) ==
    /\ warned' \in BOOLEAN /\ (warned' => Twice)
    /\ r.pc # "idle" /\ r.had =>
          /\ Mine # {}
          /\ r.pc = "subReceipt" /\ txs'[r.tx].status = "success" => Twice

LEMMA FlowKeepsInv ==
    ASSUME CheckoutInv, NEW t \in Task, NEW r, FlowMoves(t, r), PanelFollows(r), NotesFollow(r),
           IdsOf(r)', Paid'
    PROVE  CheckoutInv'
<1>1. Types /\ Refers /\ OneFlow /\ Stages /\ Effects /\ Ids /\ Owners /\ Paid /\ Notes
  BY DEF CheckoutInv
<1>2. /\ task'[t] = r /\ \A u \in Task \ {t} : task'[u] = task[u] /\ task[u].pc = "idle"
      /\ task' \in [Task -> Flow]
  BY <1>1 DEF FlowMoves, Types
<1>3. Types'
  BY <1>1, <1>2 DEF Types, FlowMoves, PanelFollows, NotesFollow
<1>4. Mine' = Mine
  BY DEF Mine, FlowMoves
<1>5. Refers'
  <2>1. ui'.selected # None => 1 <= ui'.selected /\ ui'.selected <= Len(cards')
    BY <1>1 DEF Refers, FlowMoves, PanelFollows
  <2>2. ui'.subId # None => 1 <= ui'.subId /\ ui'.subId <= Len(subs')
    BY <1>1 DEF Refers, FlowMoves, PanelFollows
  <2>3. ASSUME NEW u \in Task, task'[u].tx # None
        PROVE  1 <= task'[u].tx /\ task'[u].tx <= Len(txs')
    <3>1. CASE u = t
      BY <1>2, <2>3, <3>1 DEF FlowMoves
    <3>2. CASE u # t
      <4>1. 1 <= task[u].tx /\ task[u].tx <= Len(txs) /\ task[u].tx \in Nat
        BY <1>1, <1>2, <2>3, <3>2 DEF Refers, Types, Flow, OptNat
      <4>2. Len(txs) \in Nat /\ Len(txs') \in Nat /\ Len(txs) <= Len(txs')
        BY <1>1 DEF Types, FlowMoves
      <4> QED BY <1>2, <3>2, <4>1, <4>2
    <3> QED BY <3>1, <3>2
  <2> QED BY <1>1, <1>4, <2>1, <2>2, <2>3 DEF Refers, FlowMoves
<1>6. OneFlow'
  BY <1>2 DEF OneFlow, FlowMoves
<1>7. Stages'
  BY <1>2 DEF Stages, PanelFollows, ApprovePc
<1>8. Effects'
  BY DEF Effects, PanelFollows
<1>9. Ids'
  <2>1. ASSUME NEW u \in Task PROVE IdsOf(task[u])'
    <3>1. CASE u = t
      BY <1>2, <3>1 DEF IdsOf
    <3>2. CASE u # t
      BY <1>2, <3>2 DEF IdsOf
    <3> QED BY <3>1, <3>2
  <2> QED BY <2>1 DEF Ids
<1>10. Owners'
  <2>1. NoForeignCard'
    BY <1>1, <1>4 DEF Owners, NoForeignCard, FlowMoves
  <2> QED BY <1>1, <2>1 DEF Owners, FlowMoves, PanelFollows
<1>11. Notes'
  <2>1. Twice' = Twice
    BY <1>4 DEF Twice
  <2> QED BY <1>2, <1>4, <2>1 DEF Notes, NotesFollow
<1> QED BY <1>3, <1>5, <1>6, <1>7, <1>8, <1>9, <1>10, <1>11 DEF CheckoutInv

\* While a flow runs the others are idle, and nothing counts before it has subscribed.
LEMMA Alone ==
    ASSUME CheckoutInv, NEW t \in Task, task[t].pc # "idle"
    PROVE  /\ \A u \in Task \ {t} : task[u].pc = "idle"
           /\ busy /\ ui.step = Stage(task[t].pc)
           /\ task[t] \in Flow /\ ui \in Panel /\ txs \in Seq(Tx) /\ IdsOf(task[t])
           /\ task[t].tx # None => 1 <= task[t].tx /\ task[t].tx <= Len(txs)
           /\ \A i \in DOMAIN txs : Counts(i) => task[t].pc = "subReceipt" /\ task[t].tx = i
<1>1. Types /\ Refers /\ OneFlow /\ Stages /\ Ids /\ Paid
  BY DEF CheckoutInv
<1>2. /\ \A u \in Task \ {t} : task[u].pc = "idle"
      /\ busy /\ ui.step = Stage(task[t].pc)
      /\ task[t] \in Flow /\ ui \in Panel /\ txs \in Seq(Tx) /\ IdsOf(task[t])
      /\ task[t].tx # None => 1 <= task[t].tx /\ task[t].tx <= Len(txs)
  BY <1>1 DEF OneFlow, Stages, Types, Ids, Refers
<1>3. ui.step # "done"
  BY <1>2 DEF Stage
<1> QED BY <1>1, <1>2, <1>3 DEF Paid

LEMMA NoneCounts == (\A i \in DOMAIN txs' : ~Counts(i)') => Paid'
BY DEF Paid

\* A flow starts, on the panel's step pick and with nothing counted.
LEMMA BeginKeepsInv ==
    ASSUME CheckoutInv, NEW t \in Task, MintAndUse(t) \/ PayAndSubscribe(t) PROVE CheckoutInv'
<1>1. Types /\ Refers /\ OneFlow /\ Owners /\ Paid /\ Notes
  BY DEF CheckoutInv
<1>2. PICK r : /\ Begin(t, r)
               /\ \/ r = [NoTask EXCEPT !.pc = "mintRead"] /\ ui' = MintStart(ui)
                  \/ /\ r = [NoTask EXCEPT !.pc = "allowance", !.card = ui.selected, !.had = Noted]
                     /\ ui.selected # None /\ ui' = ui
  BY DEF MintAndUse, PayAndSubscribe
<1>3. ui.step = "pick" /\ \A u \in Task : task[u].pc = "idle"
  BY <1>1, <1>2 DEF Begin, Free, OneFlow
<1>4. /\ r \in Flow /\ r.tx = None /\ r.pc \in {"mintRead", "allowance"}
      /\ r.had => Noted
  BY <1>1, <1>2 DEF NoTask, Flow, Types, Panel, OptNat, Pc, MintPc, Noted
<1>5. FlowMoves(t, r)
  BY <1>1, <1>2, <1>3, <1>4 DEF FlowMoves, Begin, chainVars, Types
<1>6. PanelFollows(r)
  BY <1>1, <1>2, <1>3, <1>4, ZenonT(40) DEF PanelFollows, Types, Panel, MintStart, To, NoTask, Stage, Step, MintPc,
     ApprovePc
<1>7. NotesFollow(r)
  <2>1. Noted => Mine # {}
    BY <1>1 DEF Noted, Refers
  <2> QED BY <1>1, <1>2, <1>4, <2>1 DEF NotesFollow, Begin, Notes, Types
<1>8. IdsOf(r)'
  BY <1>4 DEF IdsOf
<1>9. Paid'
  <2>1. \A i \in DOMAIN txs : ~Counts(i)
    BY <1>1, <1>3 DEF Paid
  <2>2. txs' = txs
    BY <1>2 DEF Begin, chainVars
  <2> QED BY <2>1, <2>2, NoneCounts DEF Counts
<1> QED BY <1>5, <1>6, <1>7, <1>8, <1>9, FlowKeepsInv

\* Steps of a flow that leave the transactions alone and do not end it.
LEMMA ReadKeepsInv ==
    ASSUME CheckoutInv, NEW t \in Task, task[t].pc \notin {"idle", "subReceipt"},
           NEW r, GoesOn(t, r), UNCHANGED <<warned, chainVars>>,
           r \in Flow, r.pc \notin {"idle", "mintReceipt", "subReceipt"},
           r.tx = task[t].tx, r.had = task[t].had,
           PanelFollows(r), IdsOf(r)
    PROVE  CheckoutInv'
<1>1. Types /\ Notes
  BY DEF CheckoutInv
<1>2. /\ \A u \in Task \ {t} : task[u].pc = "idle"
      /\ busy
      /\ task[t].tx # None => 1 <= task[t].tx /\ task[t].tx <= Len(txs)
      /\ \A i \in DOMAIN txs : ~Counts(i)
  BY Alone
<1>3. FlowMoves(t, r)
  BY <1>1, <1>2 DEF FlowMoves, GoesOn, chainVars, Types
<1>4. NotesFollow(r)
  BY <1>1 DEF NotesFollow, Notes, Types
<1>5. IdsOf(r)'
  BY DEF IdsOf, chainVars
<1>6. Paid'
  BY <1>2, NoneCounts DEF Counts, chainVars
<1> QED BY <1>3, <1>4, <1>5, <1>6, FlowKeepsInv

\* Reading the allowance: the flow gets to the write, or asks for approval first.
LEMMA ReadAllowanceKeepsInv ==
    ASSUME CheckoutInv, NEW t \in Task, NEW enough \in BOOLEAN, ReadAllowance(t, enough)
    PROVE  CheckoutInv'
<1> USE DEF ReadAllowance
<1>1. ui \in Panel /\ ui.selected # None /\ task[t] \in Flow /\ ui.step = "pick"
  <2>1. ui.selected # None
    BY DEF CheckoutInv, Stages
  <2>2. ui \in Panel /\ task[t] \in Flow /\ ui.step = Stage(task[t].pc)
    BY Alone
  <2> QED BY <2>1, <2>2 DEF Stage, MintPc, ApprovePc
<1>2. PICK r : r = [task[t] EXCEPT !.pc = IF enough THEN "subRead" ELSE "approveSign"]
  OBVIOUS
<1>3. /\ r \in Flow /\ r.tx = task[t].tx /\ r.had = task[t].had
      /\ r.pc = IF enough THEN "subRead" ELSE "approveSign"
  BY <1>1, <1>2 DEF Flow, Pc, SubscribePc, ApprovePc
<1>4. /\ ui'.step = IF enough THEN "subscribing" ELSE "approving"
      /\ ui'.selected = ui.selected /\ ui'.subId = ui.subId /\ ui' \in Panel
  BY <1>1 DEF SubscribeStart, ApproveStart, To, Panel, Step
<1>5. PanelFollows(r)
  BY <1>1, <1>3, <1>4 DEF PanelFollows, Stage, MintPc, ApprovePc
<1>6. IdsOf(r)
  BY <1>3 DEF IdsOf
<1>7. GoesOn(t, r)
  BY <1>2
<1> QED BY <1>3, <1>5, <1>6, <1>7, ReadKeepsInv

\* Reading the next id: one past what exists.
LEMMA ReadNextIdKeepsInv ==
    ASSUME CheckoutInv, NEW t \in Task, ReadNextId(t) PROVE CheckoutInv'
<1>1. /\ ui \in Panel /\ task[t] \in Flow /\ ui.step = Stage(task[t].pc)
      /\ task[t].pc \in {"mintRead", "subRead"}
  BY Alone DEF ReadNextId
<1>2. PICK r : /\ GoesOn(t, r)
               /\ \/ task[t].pc = "mintRead" /\ r = [task[t] EXCEPT !.pc = "mintSign", !.id = Len(cards) + 1]
                  \/ task[t].pc = "subRead" /\ r = [task[t] EXCEPT !.pc = "subSign", !.id = Len(subs) + 1]
  BY DEF ReadNextId
<1>3. Len(cards) \in Nat /\ Len(cards) >= 2 /\ Len(subs) \in Nat
  BY DEF CheckoutInv, Types, Owners
<1>4. /\ r \in Flow /\ r.tx = task[t].tx /\ r.had = task[t].had
      /\ \/ task[t].pc = "mintRead" /\ r.pc = "mintSign" /\ r.id = Len(cards) + 1
         \/ task[t].pc = "subRead" /\ r.pc = "subSign" /\ r.id = Len(subs) + 1
  <2>1. ASSUME NEW pc \in Pc, NEW n \in Nat, r = [task[t] EXCEPT !.pc = pc, !.id = n]
        PROVE  r \in Flow /\ r.pc = pc /\ r.id = n /\ r.tx = task[t].tx /\ r.had = task[t].had
    BY <1>1, <2>1 DEF Flow, OptNat
  <2>5. Len(cards) + 1 \in Nat /\ Len(subs) + 1 \in Nat
    BY <1>3
  <2>2. {"mintSign", "subSign"} \subseteq Pc
    BY DEF Pc, MintPc, SubscribePc
  <2>3. CASE task[t].pc = "mintRead"
    BY <1>2, <2>1, <2>2, <2>3, <2>5
  <2>4. CASE task[t].pc = "subRead"
    BY <1>2, <2>1, <2>2, <2>4, <2>5
  <2> QED BY <1>1, <2>3, <2>4
<1>5. PanelFollows(r)
  BY <1>1, <1>4 DEF PanelFollows, Stage, MintPc, ApprovePc, ReadNextId
<1>6. IdsOf(r)
  BY <1>3, <1>4 DEF IdsOf
<1>7. UNCHANGED <<warned, chainVars>>
  BY DEF ReadNextId
<1> QED BY <1>1, <1>2, <1>4, <1>5, <1>6, <1>7, ReadKeepsInv

\* The wallet signs: the flow waits for the transaction it has just sent.
LEMMA SignsKeepsInv ==
    ASSUME CheckoutInv, NEW t \in Task, Signs(t) PROVE CheckoutInv'
<1>1. Types /\ Notes
  BY DEF CheckoutInv
<1>2. task[t].pc \in Kind
  BY DEF Signs, AfterSign, Kind
<1>3. /\ \A u \in Task \ {t} : task[u].pc = "idle"
      /\ busy /\ ui.step = Stage(task[t].pc) /\ ui \in Panel
      /\ task[t] \in Flow /\ IdsOf(task[t])
      /\ \A i \in DOMAIN txs : ~Counts(i)
  BY <1>2, Alone DEF Kind
<1>4. PICK x, r :
          /\ x = [kind |-> task[t].pc, card |-> task[t].card, status |-> "pending", givenUp |-> FALSE]
          /\ r = [task[t] EXCEPT !.pc = AfterSign[@], !.tx = Len(txs) + 1]
          /\ txs' = Append(txs, x) /\ GoesOn(t, r)
  BY DEF Signs
<1>5. /\ x \in Tx /\ x.kind = task[t].pc /\ x.status = "pending" /\ ~x.givenUp
      /\ txs' \in Seq(Tx) /\ Len(txs') = Len(txs) + 1 /\ txs'[Len(txs) + 1] = x
      /\ \A i \in 1..Len(txs) : txs'[i] = txs[i]
      /\ Len(txs) \in Nat
  <2>1. x \in Tx /\ x.kind = task[t].pc /\ x.status = "pending" /\ ~x.givenUp
    BY <1>2, <1>3, <1>4 DEF Tx, Flow, Outcome
  <2> QED BY <1>1, <1>4, <2>1 DEF Types
<1>6. /\ r \in Flow /\ r.tx = Len(txs) + 1 /\ r.id = task[t].id /\ r.had = task[t].had
      /\ \/ task[t].pc = "mintSign" /\ r.pc = "mintReceipt"
         \/ task[t].pc = "approveSign" /\ r.pc = "approveReceipt"
         \/ task[t].pc = "subSign" /\ r.pc = "subReceipt"
  <2>1. r.pc = AfterSign[task[t].pc] /\ r.tx = Len(txs) + 1 /\ r.id = task[t].id /\ r.had = task[t].had
    BY <1>3, <1>4 DEF Flow
  <2>2. \/ task[t].pc = "mintSign" /\ r.pc = "mintReceipt"
        \/ task[t].pc = "approveSign" /\ r.pc = "approveReceipt"
        \/ task[t].pc = "subSign" /\ r.pc = "subReceipt"
    BY <1>2, <2>1 DEF Kind, AfterSign
  <2>3. AfterSign[task[t].pc] \in Pc
    BY <2>1, <2>2 DEF Pc, MintPc, ApprovePc, SubscribePc
  <2>4. r \in Flow
    <3>1. \A pc \in Pc, n \in Nat : [task[t] EXCEPT !.pc = pc, !.tx = n] \in Flow
      BY <1>3 DEF Flow, OptNat
    <3>2. Len(txs) + 1 \in Nat
      BY <1>5
    <3> QED BY <1>4, <2>3, <3>1, <3>2
  <2> QED BY <2>1, <2>2, <2>4
<1>7. FlowMoves(t, r)
  BY <1>1, <1>3, <1>4, <1>5, <1>6 DEF FlowMoves, GoesOn, Types, Signs
<1>8. PanelFollows(r)
  <2>1. ui' = ui /\ (task[t].pc \in ApprovePc => ui.selected # None)
    BY DEF Signs, CheckoutInv, Stages
  <2>2. ui.step = Stage(r.pc) /\ ui.step \notin {"connect", "loading", "done"}
    BY <1>3, <1>6 DEF Stage, MintPc, ApprovePc
  <2> QED BY <1>3, <1>6, <2>1, <2>2 DEF PanelFollows, ApprovePc
<1>9. NotesFollow(r)
  BY <1>1, <1>2, <1>5, <1>6 DEF NotesFollow, Notes, Signs, Types, Kind
<1>10. IdsOf(r)'
  <2>1. cards' = cards /\ subs' = subs
    BY DEF Signs
  <2> QED BY <1>3, <1>5, <1>6, <2>1, CheckoutAssumption DEF IdsOf
<1>11. Paid'
  <2>1. \A i \in DOMAIN txs' : Counts(i)' => i = Len(txs) + 1 /\ r.pc = "subReceipt"
    BY <1>3, <1>5, <1>6 DEF Counts
  <2>2. task'[t] = r
    BY <1>7 DEF FlowMoves, Types, CheckoutInv
  <2> QED BY <1>6, <2>1, <2>2 DEF Paid
<1> QED BY <1>7, <1>8, <1>9, <1>10, <1>11, FlowKeepsInv

LEMMA EndMoves ==
    ASSUME CheckoutInv, NEW t \in Task, task[t].pc # "idle", Ends(t),
           UNCHANGED <<cards, subs, others>>, txs' \in Seq(Tx), Len(txs') = Len(txs)
    PROVE  FlowMoves(t, NoTask)
<1>1. \A u \in Task \ {t} : task[u].pc = "idle"
  BY Alone
<1>2. Len(txs) \in Nat
  BY DEF CheckoutInv, Types
<1>3. NoTask \in Flow /\ NoTask.pc = "idle" /\ NoTask.tx = None
  BY DEF NoTask, Flow, Pc, OptNat
<1>4. /\ task' = [task EXCEPT ![t] = NoTask] /\ busy' = FALSE
      /\ UNCHANGED <<isConnected, plan, planEffect, existing, flows>>
  BY DEF Ends
<1>5. Len(txs) <= Len(txs')
  BY <1>2
<1> QED BY <1>1, <1>3, <1>4, <1>5 DEF FlowMoves

\* What a confirmed write made exists: its id is shown.
LEMMA ConfirmedKeepsInv ==
    ASSUME CheckoutInv, NEW t \in Task,
           MintConfirmed(t) \/ ApproveConfirmed(t) \/ SubscribeConfirmed(t)
    PROVE  CheckoutInv'
<1>1. Types /\ Refers /\ Stages /\ Owners /\ Notes
  BY DEF CheckoutInv
<1>2. task[t].pc \in {"mintReceipt", "approveReceipt", "subReceipt"}
  BY DEF MintConfirmed, ApproveConfirmed, SubscribeConfirmed
<1>3. /\ \A u \in Task \ {t} : task[u].pc = "idle"
      /\ busy /\ ui.step = Stage(task[t].pc) /\ ui \in Panel
      /\ task[t] \in Flow /\ IdsOf(task[t])
      /\ task[t].tx # None => 1 <= task[t].tx /\ task[t].tx <= Len(txs)
      /\ \A i \in DOMAIN txs : Counts(i) => task[t].pc = "subReceipt" /\ task[t].tx = i
  BY <1>2, Alone
<1>4. NoTask \in Flow /\ NoTask.pc = "idle" /\ NoTask.tx = None /\ ~NoTask.had
  BY DEF NoTask, Flow, Pc, OptNat
<1>5. UNCHANGED chainVars /\ txs[task[t].tx].status = "success"
  BY DEF MintConfirmed, ApproveConfirmed, SubscribeConfirmed, Confirmed
<1>6. IdsOf(NoTask)'
  BY <1>4 DEF IdsOf
<1>7. CASE MintConfirmed(t)
  <2>1. /\ task[t].pc = "mintReceipt" /\ Ends(t) /\ warned' = warned
        /\ ui' = MintDone(ui, task[t].id)
    BY <1>7 DEF MintConfirmed
  <2>2. task[t].id \in Nat /\ 3 <= task[t].id /\ task[t].id <= Len(cards)
    BY <1>3, <1>5, <2>1 DEF IdsOf
  <2>3. ui.step = "minting"
    BY <1>3, <2>1 DEF Stage, MintPc, ApprovePc
  <2>4. ui' \in Panel /\ ui'.step = "pick" /\ ui'.selected = task[t].id /\ ui'.subId = ui.subId
    BY <1>3, <2>1, <2>2, <2>3 DEF MintDone, Panel, Step, OptNat
  <2>5. FlowMoves(t, NoTask)
    BY <1>1, <1>5, <2>1, EndMoves DEF Types, chainVars
  <2>6. others = 0 => cards[task[t].id] = "me"
    BY <1>1, <2>2 DEF Owners, Types
  <2>7. PanelFollows(NoTask)
    BY <1>4, <2>2, <2>4, <2>6 DEF PanelFollows, ApprovePc
  <2>8. NotesFollow(NoTask)
    BY <1>1, <1>4, <2>1 DEF NotesFollow, Notes, Types
  <2>9. Paid'
    BY <1>3, <1>5, <2>1, NoneCounts DEF Counts, chainVars
  <2> QED BY <1>6, <2>5, <2>7, <2>8, <2>9, FlowKeepsInv
<1>8. CASE ApproveConfirmed(t)
  <2>1. PICK r : /\ task[t].pc = "approveReceipt" /\ warned' = warned
                 /\ r = [task[t] EXCEPT !.pc = "subRead"] /\ GoesOn(t, r)
                 /\ ui' = SubscribeStart(ApproveDone(ui))
    BY <1>8 DEF ApproveConfirmed
  <2>2. r \in Flow /\ r.pc = "subRead" /\ r.tx = task[t].tx /\ r.had = task[t].had
    BY <1>3, <2>1 DEF Flow, Pc, SubscribePc
  <2>3. ui.step = "approving" /\ ui.selected # None
    BY <1>1, <1>3, <2>1 DEF Stage, Stages, MintPc, ApprovePc
  <2>4. ui' \in Panel /\ ui'.step = "subscribing" /\ ui'.selected = ui.selected /\ ui'.subId = ui.subId
    BY <1>3, <2>1, <2>3 DEF SubscribeStart, ApproveDone, To, Panel, Step
  <2>5. PanelFollows(r)
    BY <2>2, <2>3, <2>4 DEF PanelFollows, Stage, MintPc, ApprovePc
  <2>6. IdsOf(r)
    BY <2>2 DEF IdsOf
  <2> QED BY <1>5, <2>1, <2>2, <2>5, <2>6, ReadKeepsInv
<1>9. CASE SubscribeConfirmed(t)
  <2>1. /\ task[t].pc = "subReceipt" /\ Ends(t) /\ warned' = task[t].had
        /\ ui' = SubscribeDone(ui, task[t].id)
    BY <1>9 DEF SubscribeConfirmed, Warns
  <2>2. task[t].id \in Nat /\ 1 <= task[t].id /\ task[t].id <= Len(subs)
    BY <1>3, <1>5, <2>1 DEF IdsOf
  <2>3. ui.step = "subscribing"
    BY <1>3, <2>1 DEF Stage, MintPc, ApprovePc
  <2>4. ui' \in Panel /\ ui'.step = "done" /\ ui'.selected = ui.selected /\ ui'.subId = task[t].id
    BY <1>3, <2>1, <2>2, <2>3 DEF SubscribeDone, Panel, Step, OptNat
  <2>5. FlowMoves(t, NoTask)
    BY <1>1, <1>5, <2>1, EndMoves DEF Types, chainVars
  <2>6. PanelFollows(NoTask)
    BY <1>4, <2>2, <2>4, CheckoutAssumption DEF PanelFollows, ApprovePc
  <2>7. NotesFollow(NoTask)
    <3>1. task[t].had \in BOOLEAN /\ (task[t].had => Twice)
      BY <1>1, <1>3, <1>5, <2>1 DEF Notes, Flow
    <3> QED BY <1>4, <2>1, <3>1 DEF NotesFollow
  <2>8. Paid'
    BY <1>3, <1>5, <2>4 DEF Paid, Counts, chainVars
  <2> QED BY <1>6, <2>5, <2>6, <2>7, <2>8, FlowKeepsInv
<1> QED BY <1>7, <1>8, <1>9

\* A flow gives up, and on the transaction it waited for.
LEMMA FailKeepsInv ==
    ASSUME CheckoutInv, NEW t \in Task, FlowFails(t) PROVE CheckoutInv'
<1>1. Types /\ Notes
  BY DEF CheckoutInv
<1>2. /\ task[t].pc # "idle" /\ Ends(t)
      /\ ui' = Fail(ui) /\ UNCHANGED <<warned, cards, subs, others>>
      /\ txs' = IF task[t].tx # None /\ txs[task[t].tx].status # "reverted"
                THEN [txs EXCEPT ![task[t].tx].givenUp = TRUE] ELSE txs
  BY DEF FlowFails
<1>3. /\ \A u \in Task \ {t} : task[u].pc = "idle"
      /\ busy /\ ui \in Panel /\ task[t] \in Flow /\ IdsOf(task[t])
      /\ task[t].tx # None => 1 <= task[t].tx /\ task[t].tx <= Len(txs)
      /\ \A i \in DOMAIN txs : Counts(i) => task[t].pc = "subReceipt" /\ task[t].tx = i
  BY <1>2, Alone
<1>4. NoTask \in Flow /\ NoTask.pc = "idle" /\ NoTask.tx = None /\ ~NoTask.had
  BY DEF NoTask, Flow, Pc, OptNat
<1>5. /\ txs' \in Seq(Tx) /\ Len(txs') = Len(txs)
      /\ \A i \in DOMAIN txs' : ~Counts(i)'
  <2>1. CASE task[t].tx # None /\ txs[task[t].tx].status # "reverted"
    <3>1. PICK n \in DOMAIN txs : n = task[t].tx /\ txs' = [txs EXCEPT ![n].givenUp = TRUE]
      <4>1. task[t].tx \in Nat
        BY <1>3, <2>1 DEF Flow, OptNat
      <4>2. task[t].tx \in 1..Len(txs)
        BY <1>3, <2>1, <4>1
      <4>3. DOMAIN txs = 1..Len(txs)
        BY <1>1 DEF Types
      <4> QED BY <1>2, <2>1, <4>2, <4>3
    <3>2. /\ [txs[n] EXCEPT !.givenUp = TRUE] \in Tx
          /\ txs'[n].givenUp /\ \A i \in DOMAIN txs \ {n} : txs'[i] = txs[i]
      <4>1. txs[n] \in Tx
        BY <1>1, <3>1 DEF Types
      <4>2. [txs[n] EXCEPT !.givenUp = TRUE] \in Tx /\ [txs[n] EXCEPT !.givenUp = TRUE].givenUp
        BY <4>1 DEF Tx
      <4>3. /\ txs'[n] = [txs[n] EXCEPT !.givenUp = TRUE]
            /\ \A i \in DOMAIN txs \ {n} : txs'[i] = txs[i]
        BY <3>1
      <4> QED BY <4>2, <4>3
    <3>3. txs' \in Seq(Tx) /\ Len(txs') = Len(txs)
      BY <1>1, <3>1, <3>2 DEF Types
    <3> QED BY <1>3, <3>1, <3>2, <3>3 DEF Counts
  <2>2. CASE task[t].tx = None \/ txs[task[t].tx].status = "reverted"
    <3>1. txs' = txs
      BY <1>2, <2>2
    <3> QED BY <1>1, <1>3, <2>2, <3>1 DEF Counts, Types, IdsOf
  <2> QED BY <2>1, <2>2
<1>6. FlowMoves(t, NoTask)
  BY <1>2, <1>5, EndMoves
<1>7. PanelFollows(NoTask)
  BY <1>2, <1>3, <1>4 DEF PanelFollows, Fail, Panel, Step, ApprovePc
<1>8. NotesFollow(NoTask)
  BY <1>1, <1>2, <1>4 DEF NotesFollow, Notes, Types
<1>9. IdsOf(NoTask)'
  BY <1>4 DEF IdsOf
<1> QED BY <1>5, <1>6, <1>7, <1>8, <1>9, FlowKeepsInv, NoneCounts

---------------------------------------------------------------------------
(* The chain: it only grows, and a flow's transaction makes what the flow expects. *)

ChainGrows ==
    /\ cards' \in Seq({"me", "other"}) /\ subs' \in Seq(Sub)
    /\ Len(cards) <= Len(cards') /\ Len(subs) <= Len(subs')
    /\ \A i \in DOMAIN cards : i \in DOMAIN cards' /\ cards'[i] = cards[i]
    /\ \A i \in DOMAIN subs : i \in DOMAIN subs' /\ subs'[i] = subs[i]
    /\ \A i \in DOMAIN subs' \ DOMAIN subs :
          /\ 1 <= subs'[i].card /\ subs'[i].card <= Len(cards)
          /\ subs'[i].owner = "me" => cards[subs'[i].card] = "me"
    /\ others \in Nat /\ others' \in Nat
    /\ others' = 0 => /\ others = 0
                      /\ \A i \in DOMAIN cards' \ DOMAIN cards : cards'[i] = "me"
                      /\ \A i \in DOMAIN subs' \ DOMAIN subs : subs'[i].owner = "me"
    /\ UNCHANGED clientVars

TxsKept ==
    /\ txs' \in Seq(Tx) /\ Len(txs') = Len(txs)
    /\ \A i \in DOMAIN txs :
          /\ txs'[i].kind = txs[i].kind /\ txs'[i].givenUp = txs[i].givenUp
          /\ txs[i].status = "reverted" => txs'[i].status = "reverted"
          /\ txs[i].status # "success" /\ txs'[i].status = "success" =>
                /\ txs[i].kind = "mintSign" => Len(cards') = Len(cards) + 1
                /\ txs[i].kind = "subSign" =>
                      /\ Len(subs') = Len(subs) + 1
                      /\ subs'[Len(subs) + 1].owner = "me"

LEMMA ChainKeepsInv == CheckoutInv /\ ChainGrows /\ TxsKept => CheckoutInv'
<1> SUFFICES ASSUME CheckoutInv, ChainGrows, TxsKept PROVE CheckoutInv'
  OBVIOUS
<1>1. Types /\ Refers /\ OneFlow /\ Stages /\ Effects /\ Ids /\ Owners /\ Paid /\ Notes
  BY DEF CheckoutInv
<1>2. UNCHANGED <<ui, isConnected, plan, planEffect, busy, task, existing, warned>>
  BY DEF ChainGrows, clientVars
<1>3. /\ Len(cards) \in Nat /\ Len(cards') \in Nat /\ Len(subs) \in Nat /\ Len(subs') \in Nat
      /\ Len(txs) \in Nat /\ Len(txs') = Len(txs)
      /\ DOMAIN cards = 1..Len(cards) /\ DOMAIN cards' = 1..Len(cards')
      /\ DOMAIN subs = 1..Len(subs) /\ DOMAIN subs' = 1..Len(subs')
      /\ DOMAIN txs = 1..Len(txs) /\ DOMAIN txs' = 1..Len(txs)
      /\ Len(cards) <= Len(cards') /\ Len(subs) <= Len(subs')
  BY <1>1 DEF Types, ChainGrows, TxsKept
<1>4. Types'
  BY <1>1, <1>2 DEF Types, ChainGrows, TxsKept
<1>5. Mine \subseteq Mine'
  BY DEF Mine, ChainGrows
<1>6. Twice => Twice'
  BY <1>5 DEF Twice
<1>7. Refers'
  <2>1. ui'.selected # None => 1 <= ui'.selected /\ ui'.selected <= Len(cards')
    BY <1>1, <1>2, <1>3, CheckoutAssumption DEF Refers, Types, Panel, OptNat
  <2>2. ui'.subId # None => 1 <= ui'.subId /\ ui'.subId <= Len(subs')
    BY <1>1, <1>2, <1>3, CheckoutAssumption DEF Refers, Types, Panel, OptNat
  <2>3. \A t \in Task : task'[t].tx # None => 1 <= task'[t].tx /\ task'[t].tx <= Len(txs')
    BY <1>1, <1>2, <1>3 DEF Refers
  <2>4. ASSUME NEW i \in DOMAIN subs' PROVE 1 <= subs'[i].card /\ subs'[i].card <= Len(cards')
    <3>1. subs'[i].card \in Nat
      <4>1. subs'[i] \in Sub
        BY DEF ChainGrows
      <4> QED BY <4>1 DEF Sub
    <3>2. 1 <= subs'[i].card /\ subs'[i].card <= Len(cards)
      BY <1>1, <1>3 DEF Refers, ChainGrows
    <3> QED BY <1>3, <3>1, <3>2
  <2>5. existing' # None => existing' \subseteq Mine'
    BY <1>1, <1>2, <1>5 DEF Refers
  <2> QED BY <2>1, <2>2, <2>3, <2>4, <2>5 DEF Refers
<1>8. OneFlow' /\ Stages' /\ Effects'
  BY <1>1, <1>2 DEF OneFlow, Stages, Effects
<1>9. Ids'
  <2> SUFFICES ASSUME NEW t \in Task PROVE IdsOf(task[t])'
    BY DEF Ids
  <2>1. IdsOf(task[t]) /\ task[t].id \in OptNat /\ (task[t].tx # None => task[t].tx \in DOMAIN txs)
    BY <1>1, <1>3, CheckoutAssumption DEF Ids, Types, Flow, Refers, OptNat
  <2>2. task[t].pc \in {"mintSign", "mintReceipt"} =>
           task[t].id \in Nat /\ 3 <= task[t].id /\ task[t].id <= Len(cards') + 1
    BY <1>3, <2>1 DEF IdsOf
  <2>3. task[t].pc \in {"subSign", "subReceipt"} =>
           task[t].id \in Nat /\ 1 <= task[t].id /\ task[t].id <= Len(subs') + 1
    BY <1>3, <2>1 DEF IdsOf
  <2>4. task[t].pc = "mintReceipt" =>
          /\ task[t].tx # None /\ txs'[task[t].tx].kind = "mintSign"
          /\ txs'[task[t].tx].status = "success" => task[t].id <= Len(cards')
    <3> SUFFICES ASSUME task[t].pc = "mintReceipt"
                 PROVE  /\ task[t].tx # None /\ txs'[task[t].tx].kind = "mintSign"
                        /\ txs'[task[t].tx].status = "success" => task[t].id <= Len(cards')
      OBVIOUS
    <3>1. PICK n \in DOMAIN txs : n = task[t].tx /\ n # None
      BY <2>1 DEF IdsOf
    <3>2. /\ txs[n].kind = "mintSign" /\ (txs[n].status = "success" => task[t].id <= Len(cards))
          /\ task[t].id \in Nat /\ task[t].id <= Len(cards) + 1
      BY <2>1, <3>1 DEF IdsOf
    <3>3. txs'[n].kind = "mintSign"
      BY <3>2 DEF TxsKept
    <3>4. txs[n].status # "success" /\ txs'[n].status = "success" => Len(cards') = Len(cards) + 1
      BY <3>2 DEF TxsKept
    <3>5. txs'[n].status = "success" => task[t].id <= Len(cards')
      <4>1. Len(cards) \in Nat /\ Len(cards') \in Nat /\ Len(cards) <= Len(cards')
        BY <1>3
      <4>2. CASE txs[n].status = "success"
        BY <3>2, <4>1, <4>2
      <4>3. CASE txs[n].status # "success"
        BY <3>2, <3>4, <4>1, <4>3
      <4> QED BY <4>2, <4>3
    <3> QED BY <3>1, <3>3, <3>5
  <2>5. task[t].pc = "subReceipt" =>
          /\ task[t].tx # None /\ txs'[task[t].tx].kind = "subSign"
          /\ txs'[task[t].tx].status = "success" => task[t].id <= Len(subs')
    <3> SUFFICES ASSUME task[t].pc = "subReceipt"
                 PROVE  /\ task[t].tx # None /\ txs'[task[t].tx].kind = "subSign"
                        /\ txs'[task[t].tx].status = "success" => task[t].id <= Len(subs')
      OBVIOUS
    <3>1. PICK n \in DOMAIN txs : n = task[t].tx /\ n # None
      BY <2>1 DEF IdsOf
    <3>2. /\ txs[n].kind = "subSign" /\ (txs[n].status = "success" => task[t].id <= Len(subs))
          /\ task[t].id \in Nat /\ task[t].id <= Len(subs) + 1
      BY <2>1, <3>1 DEF IdsOf
    <3>3. txs'[n].kind = "subSign"
      BY <3>2 DEF TxsKept
    <3>4. txs[n].status # "success" /\ txs'[n].status = "success" => Len(subs') = Len(subs) + 1
      BY <3>2 DEF TxsKept
    <3>5. txs'[n].status = "success" => task[t].id <= Len(subs')
      <4>1. Len(subs) \in Nat /\ Len(subs') \in Nat /\ Len(subs) <= Len(subs')
        BY <1>3
      <4>2. CASE txs[n].status = "success"
        BY <3>2, <4>1, <4>2
      <4>3. CASE txs[n].status # "success"
        BY <3>2, <3>4, <4>1, <4>3
      <4> QED BY <4>2, <4>3
    <3> QED BY <3>1, <3>3, <3>5
  <2> QED BY <1>2, <2>2, <2>3, <2>4, <2>5 DEF IdsOf
<1>10. Owners'
  <2>1. Len(cards') >= 2 /\ cards'[1] = "me"
    <3>1. Len(cards) >= 2 /\ cards[1] = "me"
      BY <1>1 DEF Owners
    <3>2. 1 \in DOMAIN cards /\ Len(cards') >= 2
      BY <1>3, <3>1
    <3> QED BY <3>1, <3>2 DEF ChainGrows
  <2>2. ASSUME NEW i \in Mine' PROVE cards'[subs'[i].card] = "me"
    <3>1. i \in DOMAIN subs' /\ subs'[i].owner = "me" /\ subs'[i].card \in Nat
      <4>1. i \in DOMAIN subs' /\ subs'[i].owner = "me"
        BY DEF Mine
      <4>2. subs'[i] \in Sub
        BY <4>1 DEF ChainGrows
      <4> QED BY <4>1, <4>2 DEF Sub
    <3>2. cards[subs'[i].card] = "me" /\ 1 <= subs'[i].card /\ subs'[i].card <= Len(cards)
      BY <1>1, <3>1 DEF Owners, NoForeignCard, Refers, Mine, ChainGrows
    <3> QED BY <1>3, <3>1, <3>2 DEF ChainGrows
  <2>3. ASSUME others' = 0
        PROVE  /\ \A i \in DOMAIN cards' : i # 2 => cards'[i] = "me"
               /\ \A i \in DOMAIN subs' : subs'[i].owner = "me"
               /\ ui'.selected # None => cards'[ui'.selected] = "me"
               /\ ui'.step = "done" => ui'.subId # None
    <3>1. ui.selected # None => ui.selected \in DOMAIN cards
      BY <1>1, <1>3 DEF Refers, Types, Panel, OptNat
    <3> QED BY <1>1, <1>2, <2>3, <3>1 DEF Owners, ChainGrows
  <2> QED BY <2>1, <2>2, <2>3 DEF Owners, NoForeignCard
<1>11. Paid'
  <2>1. \A i \in DOMAIN txs' : i \in DOMAIN txs /\ (Counts(i)' => Counts(i))
    BY <1>3 DEF Counts, TxsKept
  <2> QED BY <1>1, <1>2, <2>1 DEF Paid
<1>12. Notes'
  <2>1. ASSUME NEW t \in Task, task[t].pc # "idle", task[t].had,
               task[t].pc = "subReceipt", txs'[task[t].tx].status = "success"
        PROVE  Twice'
    <3>1. /\ task[t].tx \in DOMAIN txs /\ txs[task[t].tx].kind = "subSign"
          /\ Mine # {}
      <4>1. IdsOf(task[t]) /\ task[t] \in Flow /\ Mine # {}
        BY <1>1, <2>1 DEF Ids, Notes, Types
      <4>2. task[t].tx # None /\ txs[task[t].tx].kind = "subSign" /\ task[t].tx \in Nat
        BY <2>1, <4>1 DEF IdsOf, Flow, OptNat
      <4>3. 1 <= task[t].tx /\ task[t].tx <= Len(txs)
        BY <1>1, <4>2 DEF Refers
      <4> QED BY <1>3, <4>1, <4>2, <4>3
    <3>2. CASE txs[task[t].tx].status = "success"
      BY <1>1, <1>6, <2>1, <3>2 DEF Notes
    <3>3. CASE txs[task[t].tx].status # "success"
      <4>1. Len(subs') = Len(subs) + 1 /\ subs'[Len(subs) + 1].owner = "me"
        BY <2>1, <3>1, <3>3 DEF TxsKept
      <4>2. Len(subs) + 1 \in Mine' /\ Len(subs) + 1 \notin Mine
        BY <1>3, <4>1 DEF Mine
      <4> QED BY <1>5, <3>1, <4>2 DEF Twice
    <3> QED BY <3>2, <3>3
  <2>2. Mine # {} => Mine' # {}
    BY <1>5
  <2> QED BY <1>1, <1>2, <1>6, <2>1, <2>2 DEF Notes
<1> QED BY <1>4, <1>7, <1>8, <1>9, <1>10, <1>11, <1>12 DEF CheckoutInv

LEMMA LandsMoves ==
    ASSUME CheckoutInv, NEW i \in DOMAIN txs, Lands(i)
    PROVE  ChainGrows /\ TxsKept
<1>1. Types
  BY DEF CheckoutInv
<1>2. /\ txs' = [txs EXCEPT ![i].status = "success"] /\ txs[i].status = "pending"
      /\ UNCHANGED clientVars /\ others' = others
      /\ \/ txs[i].kind = "mintSign" /\ cards' = Append(cards, "me") /\ UNCHANGED subs
         \/ txs[i].kind = "approveSign" /\ UNCHANGED <<cards, subs>>
         \/ /\ txs[i].kind = "subSign" /\ AcceptsCard(txs[i].card)
            /\ subs' = Append(subs, [owner |-> "me", card |-> txs[i].card])
            /\ UNCHANGED cards
  BY DEF Lands, Oldest
<1>3. /\ txs' \in Seq(Tx) /\ Len(txs') = Len(txs)
      /\ \A j \in DOMAIN txs : /\ txs'[j].kind = txs[j].kind /\ txs'[j].givenUp = txs[j].givenUp
                               /\ j # i => txs'[j] = txs[j]
  <2>1. txs[i] \in Tx
    BY <1>1 DEF Types
  <2>2. \A x \in Tx : LET e == [x EXCEPT !.status = "success"]
                      IN  e \in Tx /\ e.kind = x.kind /\ e.givenUp = x.givenUp
    BY DEF Tx, Outcome
  <2>3. txs'[i] = [txs[i] EXCEPT !.status = "success"] /\ \A j \in DOMAIN txs \ {i} : txs'[j] = txs[j]
    BY <1>2
  <2>4. txs' \in Seq(Tx) /\ Len(txs') = Len(txs)
    BY <1>1, <1>2, <2>1, <2>2 DEF Types
  <2>5. txs'[i].kind = txs[i].kind /\ txs'[i].givenUp = txs[i].givenUp
    BY <2>1, <2>2, <2>3
  <2>6. ASSUME NEW j \in DOMAIN txs, j # i PROVE txs'[j] = txs[j]
    BY <2>3, <2>6
  <2> QED BY <2>4, <2>5, <2>6
<1>4. /\ Len(cards) \in Nat /\ Len(subs) \in Nat
      /\ DOMAIN cards = 1..Len(cards) /\ DOMAIN subs = 1..Len(subs)
      /\ cards \in Seq({"me", "other"}) /\ subs \in Seq(Sub)
      /\ others \in Nat
  BY <1>1 DEF Types
<1>8. UNCHANGED clientVars /\ others' = others
  BY <1>2
<1>5. CASE txs[i].kind = "mintSign"
  <2>1. cards' = Append(cards, "me") /\ subs' = subs
    BY <1>2, <1>5
  <2>2. /\ cards' \in Seq({"me", "other"}) /\ Len(cards') = Len(cards) + 1
        /\ DOMAIN cards' = 1..(Len(cards) + 1) /\ cards'[Len(cards) + 1] = "me"
        /\ \A j \in DOMAIN cards : cards'[j] = cards[j]
    BY <1>4, <2>1
  <2>3. ChainGrows
    BY <1>4, <1>8, <2>1, <2>2 DEF ChainGrows
  <2>4. TxsKept
    BY <1>2, <1>3, <1>5, <2>2 DEF TxsKept
  <2> QED BY <2>3, <2>4
<1>6. CASE txs[i].kind = "approveSign"
  <2>1. cards' = cards /\ subs' = subs
    BY <1>2, <1>6
  <2>2. ChainGrows
    BY <1>4, <1>8, <2>1 DEF ChainGrows
  <2>3. TxsKept
    BY <1>2, <1>3, <1>6 DEF TxsKept
  <2> QED BY <2>2, <2>3
<1>7. CASE txs[i].kind = "subSign"
  <2>1. PICK s : /\ s = [owner |-> "me", card |-> txs[i].card]
                 /\ subs' = Append(subs, s) /\ cards' = cards /\ AcceptsCard(txs[i].card)
    BY <1>2, <1>7
  <2>7. cards' = cards
    BY <2>1
  <2>2. s.owner = "me" /\ s.card \in DOMAIN cards /\ cards[s.card] = "me"
    BY <2>1 DEF AcceptsCard
  <2>3. s \in Sub /\ 1 <= s.card /\ s.card <= Len(cards)
    BY <1>4, <2>1, <2>2 DEF Sub
  <2>4. /\ subs' \in Seq(Sub) /\ Len(subs') = Len(subs) + 1
        /\ DOMAIN subs' = 1..(Len(subs) + 1) /\ subs'[Len(subs) + 1] = s
        /\ \A j \in DOMAIN subs : subs'[j] = subs[j]
    BY <1>4, <2>1, <2>3
  <2>5. ChainGrows
    BY <1>4, <1>8, <2>2, <2>3, <2>4, <2>7 DEF ChainGrows
  <2>6. TxsKept
    BY <1>2, <1>3, <1>7, <2>2, <2>4 DEF TxsKept
  <2> QED BY <2>5, <2>6
<1> QED BY <1>2, <1>5, <1>6, <1>7

LEMMA RevertsMoves ==
    ASSUME CheckoutInv, NEW i \in DOMAIN txs, Reverts(i)
    PROVE  ChainGrows /\ TxsKept
<1>1. Types
  BY DEF CheckoutInv
<1>2. /\ txs' = [txs EXCEPT ![i].status = "reverted"]
      /\ UNCHANGED clientVars /\ cards' = cards /\ subs' = subs /\ others' = others
  BY DEF Reverts
<1>3. ChainGrows
  BY <1>1, <1>2 DEF ChainGrows, Types
<1>4. \A x \in Tx : LET e == [x EXCEPT !.status = "reverted"]
                    IN  e \in Tx /\ e.kind = x.kind /\ e.givenUp = x.givenUp /\ e.status = "reverted"
  BY DEF Tx, Outcome
<1>5. /\ txs'[i] = [txs[i] EXCEPT !.status = "reverted"] /\ txs[i] \in Tx
      /\ \A j \in DOMAIN txs \ {i} : txs'[j] = txs[j]
  BY <1>1, <1>2 DEF Types
<1>6. txs' \in Seq(Tx) /\ Len(txs') = Len(txs)
  BY <1>1, <1>2, <1>4, <1>5 DEF Types
<1>7. TxsKept
  <2>1. /\ txs'[i].kind = txs[i].kind /\ txs'[i].givenUp = txs[i].givenUp
        /\ txs'[i].status = "reverted"
    BY <1>4, <1>5
  <2>2. ASSUME NEW j \in DOMAIN txs, j # i PROVE txs'[j] = txs[j]
    BY <1>5, <2>2
  <2> QED BY <1>6, <2>1, <2>2 DEF TxsKept
<1> QED BY <1>3, <1>7

LEMMA OtherBuyerMoves == CheckoutInv /\ OtherBuyer => ChainGrows /\ TxsKept
<1> SUFFICES ASSUME CheckoutInv, OtherBuyer PROVE ChainGrows /\ TxsKept
  OBVIOUS
<1>1. Types
  BY DEF CheckoutInv
<1>2. TxsKept
  <2>1. txs' = txs
    BY DEF OtherBuyer, chainVars, clientVars
  <2>2. txs \in Seq(Tx)
    BY <1>1 DEF Types
  <2> QED BY <2>1, <2>2 DEF TxsKept
<1>3. /\ Len(cards) \in Nat /\ Len(subs) \in Nat
      /\ DOMAIN cards = 1..Len(cards) /\ DOMAIN subs = 1..Len(subs)
      /\ cards \in Seq({"me", "other"}) /\ subs \in Seq(Sub)
      /\ others \in Nat /\ others' \in Nat /\ others' # 0
      /\ UNCHANGED clientVars
  BY <1>1 DEF Types, OtherBuyer
<1>4. CASE cards' = Append(cards, "other") /\ UNCHANGED subs
  <2>1. /\ cards' \in Seq({"me", "other"}) /\ Len(cards') = Len(cards) + 1
        /\ DOMAIN cards' = 1..(Len(cards) + 1)
        /\ \A j \in DOMAIN cards : cards'[j] = cards[j]
    BY <1>3, <1>4
  <2> QED BY <1>2, <1>3, <1>4, <2>1 DEF ChainGrows
<1>5. ASSUME NEW c \in DOMAIN cards, subs' = Append(subs, [owner |-> "other", card |-> c]), cards' = cards
      PROVE  ChainGrows
  <2>1. PICK s : s = [owner |-> "other", card |-> c] /\ subs' = Append(subs, s)
    BY <1>5
  <2>2. s \in Sub /\ s.owner = "other" /\ 1 <= s.card /\ s.card <= Len(cards)
    BY <1>3, <2>1 DEF Sub
  <2>3. /\ subs' \in Seq(Sub) /\ Len(subs') = Len(subs) + 1
        /\ DOMAIN subs' = 1..(Len(subs) + 1) /\ subs'[Len(subs) + 1] = s
        /\ \A j \in DOMAIN subs : subs'[j] = subs[j]
    BY <1>3, <2>1, <2>2
  <2> QED BY <1>3, <1>5, <2>2, <2>3 DEF ChainGrows
<1> QED BY <1>2, <1>4, <1>5 DEF OtherBuyer

---------------------------------------------------------------------------

LEMMA InvNext == CheckoutInv /\ [Next]_vars => CheckoutInv'
<1> SUFFICES ASSUME CheckoutInv, [Next]_vars PROVE CheckoutInv'
  OBVIOUS
<1>1. CASE PanelStep
  BY <1>1, PanelStepKeepsInv
<1>2. ASSUME NEW t \in Task,
             MintAndUse(t) \/ PayAndSubscribe(t) \/ Signs(t) \/ FlowStep(t)
      PROVE  CheckoutInv'
  BY <1>2, BeginKeepsInv, SignsKeepsInv, ReadAllowanceKeepsInv, ReadNextIdKeepsInv,
     ConfirmedKeepsInv, FailKeepsInv DEF FlowStep
<1>3. ASSUME NEW i \in DOMAIN txs, Lands(i) \/ Reverts(i) PROVE CheckoutInv'
  BY <1>3, LandsMoves, RevertsMoves, ChainKeepsInv
<1>4. CASE OtherBuyer
  BY <1>4, OtherBuyerMoves, ChainKeepsInv
<1>5. CASE UNCHANGED vars
  <2>1. /\ UNCHANGED <<ui, isConnected, plan, planEffect, busy, task, existing, warned>>
        /\ UNCHANGED <<cards, subs, txs, others>>
    BY <1>5 DEF vars, clientVars
  <2>2. Types' /\ OneFlow' /\ Stages' /\ Effects'
    BY <2>1 DEF CheckoutInv, Types, OneFlow, Stages, Effects
  <2>3. Mine' = Mine /\ (Twice' <=> Twice)
    BY <2>1 DEF Mine, Twice
  <2>4. Refers' /\ Ids' /\ Owners'
    BY <2>1, <2>3 DEF CheckoutInv, Refers, Ids, IdsOf, Owners, NoForeignCard
  <2>5. Paid' /\ Notes'
    BY <2>1, <2>3 DEF CheckoutInv, Paid, Counts, Notes
  <2> QED BY <2>2, <2>4, <2>5 DEF CheckoutInv
<1> QED BY <1>1, <1>2, <1>3, <1>4, <1>5 DEF Next, PanelStep

LEMMA InvAlways == Spec => []CheckoutInv
BY InvInit, InvNext, PTL DEF Spec

---------------------------------------------------------------------------
(* What it means for the buyer. *)

\* The panel is well-formed and tells what runs: no click, failure or late answer leaves a
\* spinner behind, shows an id that does not exist, or stops the panel before the plan.
THEOREM PanelTellsTheTruth == Spec => []PanelInv
<1>1. CheckoutInv => TypeOK
  <2> SUFFICES ASSUME CheckoutInv PROVE TypeOK
    OBVIOUS
  <2>1. Types /\ Refers
    BY DEF CheckoutInv
  <2>2. /\ Len(cards) \in Nat /\ Len(subs) \in Nat /\ Len(txs) \in Nat
        /\ DOMAIN cards = 1..Len(cards) /\ DOMAIN subs = 1..Len(subs) /\ DOMAIN txs = 1..Len(txs)
    BY <2>1 DEF Types
  <2>3. ui \in [step : Step, selected : (1..Len(cards)) \cup {None}, subId : (1..Len(subs)) \cup {None}]
    BY <2>1, <2>2 DEF Types, Refers, Panel, OptNat
  <2>4. \A t \in Task : task[t].pc \in Pc /\ task[t].tx \in DOMAIN txs \cup {None}
    BY <2>1, <2>2 DEF Types, Refers, Flow, OptNat
  <2>5. subs \in Seq([owner : {"me", "other"}, card : DOMAIN cards])
    <3>4. \A i \in DOMAIN subs : subs[i] \in Sub
      BY <2>1 DEF Types
    <3>1. \A i \in DOMAIN subs : subs[i] \in Sub /\ subs[i].card \in DOMAIN cards
      BY <2>1, <2>2, <3>4 DEF Refers, Sub
    <3>2. \A i \in DOMAIN subs : subs[i] \in [owner : {"me", "other"}, card : DOMAIN cards]
      BY <3>1 DEF Sub
    <3>3. \A T : (\A i \in DOMAIN subs : subs[i] \in T) => subs \in Seq(T)
      <4> SUFFICES ASSUME NEW T, \A i \in DOMAIN subs : subs[i] \in T PROVE subs \in Seq(T)
        OBVIOUS
      <4>1. subs \in [1..Len(subs) -> T]
        BY <2>1, <2>2 DEF Types
      <4> QED BY <2>2, <4>1
    <3> QED BY <3>2, <3>3
  <2>6. existing = None \/ existing \subseteq DOMAIN subs
    BY <2>1 DEF Refers, Mine
  <2> QED BY <2>1, <2>3, <2>4, <2>5, <2>6 DEF TypeOK, Types
<1>2. CheckoutInv => SpinnerMeansFlow
  <2> SUFFICES ASSUME CheckoutInv PROVE SpinnerMeansFlow
    OBVIOUS
  <2>1. \A t \in Task : task[t].pc # "idle" => ui.step = Stage(task[t].pc) /\ task[t].pc \in Pc
    BY DEF CheckoutInv, Stages, Types, Flow
  <2>2. ui.step \in {"minting", "approving", "subscribing"} => \E t \in Task : task[t].pc # "idle"
    BY DEF CheckoutInv, Stages
  <2>3. \A pc \in Pc \ {"idle"} : /\ Stage(pc) = "minting" <=> pc \in MintPc
                                  /\ Stage(pc) = "approving" <=> pc \in ApprovePc
                                  /\ Stage(pc) = "subscribing" <=> pc \in SubscribePc
    BY DEF Stage, Pc, MintPc, ApprovePc, SubscribePc
  <2>4. "idle" \notin MintPc \cup ApprovePc \cup SubscribePc
    BY DEF MintPc, ApprovePc, SubscribePc
  <2> QED BY <2>1, <2>2, <2>3, <2>4 DEF SpinnerMeansFlow
<1>3. CheckoutInv => PickWhenReady
  BY DEF CheckoutInv, Effects, PickWhenReady, Deps, Types
<1>4. CheckoutInv => PanelInv
  BY <1>1, <1>2, <1>3 DEF PanelInv
<1> QED BY <1>4, InvAlways, PTL

\* What is shown is the buyer's unless others interfere, and what is subscribed is on the
\* buyer's card even then.
THEOREM IdsStaySafe == Spec => []IdsAreSafe
<1>1. CheckoutInv => IdsAreSafe
  <2> SUFFICES ASSUME CheckoutInv PROVE IdsAreSafe
    OBVIOUS
  <2>1. Types /\ Refers /\ Owners
    BY DEF CheckoutInv
  <2>2. ShownIsMine
    BY <2>1 DEF ShownIsMine, Owners, Refers, Types, Panel, OptNat, Mine
  <2> QED BY <2>1, <2>2 DEF IdsAreSafe, Owners
<1> QED BY <1>1, InvAlways, PTL

\* However it is clicked, one checkout makes one subscription that its flow did not give up on.
THEOREM SubscribesOnce == Spec => []OneSubscription
<1>1. CheckoutInv => OneSubscription
  <2> SUFFICES ASSUME CheckoutInv PROVE OneSubscription
    OBVIOUS
  <2> DEFINE S == {i \in DOMAIN txs : txs[i].kind = "subSign" /\ txs[i].status = "success"
                                       /\ ~txs[i].givenUp}
  <2>1. \A i, j \in S : i = j
    BY DEF CheckoutInv, Paid, Counts
  <2>2. S = {} \/ \E i : S = {i}
    BY <2>1
  <2> HIDE DEF S
  <2>3. Cardinality(S) \in {0, 1}
    <3>1. Cardinality({}) = 0 /\ \A i : Cardinality({i}) = 1
      BY FS_EmptySet, FS_Singleton
    <3> QED BY <2>2, <3>1
  <2>4. Cardinality(S) <= 1
    BY <2>3
  <2> QED BY <2>4 DEF OneSubscription, S
<1> QED BY <1>1, InvAlways, PTL

\* The note is never shown to a first-time subscriber.
THEOREM WarnsRightly == Spec => []NoFalseWarning
<1>1. CheckoutInv => NoFalseWarning
  <2> SUFFICES ASSUME CheckoutInv, warned PROVE Cardinality(Mine) >= 2
    BY DEF NoFalseWarning
  <2>1. PICK i, j \in Mine : i # j
    BY DEF CheckoutInv, Notes, Twice
  <2>2. IsFiniteSet(Mine)
    <3>1. Mine \subseteq 1..Len(subs) /\ Len(subs) \in Nat
      BY DEF CheckoutInv, Types, Mine
    <3>2. IsFiniteSet(1..Len(subs))
      BY <3>1, FS_Interval
    <3> QED BY <3>1, <3>2, FS_Subset
  <2>3. Cardinality({i, j}) = 2
    <3>1. IsFiniteSet({i}) /\ Cardinality({i}) = 1 /\ j \notin {i}
      BY <2>1, FS_Singleton
    <3>2. Cardinality({i} \cup {j}) = Cardinality({i}) + 1
      BY <3>1, FS_AddElement
    <3>3. {i} \cup {j} = {i, j}
      OBVIOUS
    <3> QED BY <3>1, <3>2, <3>3
  <2>4. Cardinality({i, j}) <= Cardinality(Mine) /\ Cardinality(Mine) \in Nat
    BY <2>1, <2>2, FS_Subset, FS_CardinalityType
  <2> QED BY <2>3, <2>4
<1> QED BY <1>1, InvAlways, PTL

=============================================================================
