---------------------------- MODULE ServiceProofs ----------------------------
(***************************************************************************)
(* Proofs about the service's loop: the event table has no gap, nobody who *)
(* still pays drops off the active list, and replay brings nobody back,    *)
(* for any subscriptions, chunk size, and number of crashes and failing    *)
(* calls.                                                                  *)
(*                                                                         *)
(* The tables say nothing of the order logs were inserted in.  What ties   *)
(* them to the chain is that a subscription is created by one log, and     *)
(* that "unknown" in the subs table means that this log has no event yet   *)
(* (TrackInv): a replayed log is then never the first of its subscription. *)
(***************************************************************************)
EXTENDS Service, TLAPS

Ends == {"subscription.expired", "subscription.cancelled"}
LogType == {"subscription.created", "payment.succeeded"} \cup Ends
LogEntry == [type : LogType, sub : Sub]
SubRow == [state : {"none", "Active", "Expired", "Cancelled"}, nextChargeAt : Nat]

\* Logs are of subscriptions that exist, and each is created once.
LogInv ==
    /\ log \in Seq(LogEntry)
    /\ \A n \in DOMAIN log :
          /\ subs[log[n].sub].state # "none"
          /\ log[n].type \in Ends => subs[log[n].sub].state \in {"Expired", "Cancelled"}
    /\ \A m, n \in DOMAIN log :
          log[m].type = "subscription.created" /\ log[n].type = "subscription.created"
            /\ log[m].sub = log[n].sub => m = n

\* The chunk is worked through in order, and not past the head that was read.
ChunkInv ==
    /\ NoGap
    /\ stage = "logs" =>
          /\ cursor < head
          /\ pos \in (cursor + 1)..(ChunkEnd + 1)
          /\ (cursor + 1)..(pos - 1) \subseteq indexed

CreationIndexed(s) ==
    \E n \in indexed : log[n].type = "subscription.created" /\ log[n].sub = s

\* The subs table has the subscriptions whose creation has an event.
TrackInv ==
    /\ \A s \in Sub : tracked[s] = "unknown" <=> ~CreationIndexed(s)
    /\ \A s \in Sub : subs[s].state = "Active" /\ CreationIndexed(s) => tracked[s] = "active"
    /\ \A s \in todo : tracked[s] # "unknown"

LookInv == look # Nothing => look.due \in Nat

ServiceInv == TypeOK /\ LookInv /\ LogInv /\ ChunkInv /\ TrackInv

---------------------------------------------------------------------------

LEMMA Numbers ==
    /\ Trial \subseteq Nat /\ Period \in Nat /\ GRACE \in Nat /\ Funds \subseteq Nat
    /\ ChunkSize \in Nat /\ ChunkSize > 0 /\ MaxTime \in Nat /\ MaxPending \in Nat
BY ServiceAssumption

LEMMA ServiceInvInit == Init => ServiceInv
<1> SUFFICES ASSUME Init PROVE ServiceInv
  OBVIOUS
<1> USE Numbers DEF Init
<1>1. log = <<>> /\ Len(log) = 0 /\ DOMAIN log = {} /\ log \in Seq(LogEntry)
  OBVIOUS
<1>2. frozen \in BOOLEAN
  OBVIOUS
<1>3. subs \in [Sub -> [state : {"none", "Active", "Expired", "Cancelled"}, nextChargeAt : Nat]]
  OBVIOUS
<1>4. TypeOK
  BY <1>1, <1>2, <1>3 DEF TypeOK, Stages
<1>5. LookInv /\ LogInv /\ ChunkInv
  BY <1>1 DEF LookInv, LogInv, ChunkInv, NoGap
<1>6. TrackInv
  BY DEF TrackInv, CreationIndexed
<1> QED BY <1>4, <1>5, <1>6 DEF ServiceInv

LEMMA LogLength == ServiceInv => Len(log) \in Nat /\ DOMAIN log = 1..Len(log)
BY DEF ServiceInv, LogInv

\* A step of the chain that logs an event of subscription s.
LEMMA LoggedInv ==
    ASSUME ServiceInv, NEW s \in Sub, NEW row \in SubRow, NEW type \in LogType,
           subs' = [subs EXCEPT ![s] = row], Logged(type, s),
           type = "subscription.created" => subs[s].state = "none",
           type # "subscription.created" => subs[s].state = "Active",
           row.state # "none",
           type \in Ends => row.state \in {"Expired", "Cancelled"},
           now' = now, funds' \in Nat, frozen' = frozen, pending' \in [Sub -> 0..MaxPending],
           UNCHANGED <<store, locals>>
    PROVE  ServiceInv'
<1> USE Numbers DEF ServiceInv
<1> DEFINE e == [type |-> type, sub |-> s]
<1>1. e \in LogEntry /\ log \in Seq(LogEntry) /\ Len(log) \in Nat
  BY DEF LogEntry, LogInv
<1>2. /\ log' = Append(log, e) /\ log' \in Seq(LogEntry)
      /\ Len(log') = Len(log) + 1 /\ log'[Len(log) + 1] = e
      /\ \A n \in 1..Len(log) : log'[n] = log[n] /\ n \in DOMAIN log
      /\ DOMAIN log' = 1..(Len(log) + 1)
  BY <1>1 DEF Logged
<1>3. /\ subs' \in [Sub -> SubRow] /\ subs'[s] = row
      /\ \A x \in Sub : x # s => subs'[x] = subs[x]
  BY DEF TypeOK, SubRow
<1>4. UNCHANGED <<cursor, indexed, alerts, tracked, stage, head, pos, nowS, todo, look>>
  BY DEF store, locals
<1>5. TypeOK'
  <2>1. now' \in 0..MaxTime /\ funds' \in Nat /\ pending' \in [Sub -> 0..MaxPending]
    BY DEF TypeOK
  <2>2. frozen' \in BOOLEAN
    BY DEF TypeOK
  <2>3. subs' \in [Sub -> [state : {"none", "Active", "Expired", "Cancelled"}, nextChargeAt : Nat]]
    BY <1>3 DEF SubRow
  <2>4. cursor' \in 0..Len(log') /\ indexed' \subseteq 1..Len(log') /\ head' \in 0..Len(log')
    BY <1>1, <1>2, <1>4 DEF TypeOK
  <2> QED BY <2>1, <2>2, <2>3, <2>4, <1>4 DEF TypeOK
<1>6. \A x \in Sub : CreationIndexed(x)' <=> CreationIndexed(x)
  BY <1>2, <1>4 DEF TypeOK, CreationIndexed
<1>7. LogInv'
  <2>1. \A n \in 1..Len(log) : log[n] \in LogEntry /\ log[n].sub \in Sub
    <3>1. \A n \in 1..Len(log) : log[n] \in LogEntry
      BY <1>1
    <3>2. \A x \in LogEntry : x.sub \in Sub
      BY DEF LogEntry
    <3> QED BY <3>1, <3>2
  <2>2. \A n \in 1..Len(log) : log[n].sub = s => subs[s].state # "none"
    BY <1>2, <2>1 DEF LogInv
  <2>3. ASSUME NEW n \in DOMAIN log'
        PROVE  /\ subs'[log'[n].sub].state # "none"
               /\ log'[n].type \in Ends => subs'[log'[n].sub].state \in {"Expired", "Cancelled"}
    <3>1. CASE n = Len(log) + 1
      BY <1>2, <1>3, <3>1
    <3>2. CASE n \in 1..Len(log) /\ log[n].sub # s
      BY <1>2, <1>3, <2>1, <3>2 DEF LogInv
    <3>3. CASE n \in 1..Len(log) /\ log[n].sub = s
      BY <1>2, <1>3, <2>1, <3>3 DEF LogInv
    <3> QED BY <1>2, <3>1, <3>2, <3>3
  <2>4. ASSUME NEW m \in DOMAIN log', NEW n \in DOMAIN log',
               log'[m].type = "subscription.created", log'[n].type = "subscription.created",
               log'[m].sub = log'[n].sub
        PROVE  m = n
    <3>1. CASE m \in 1..Len(log) /\ n \in 1..Len(log)
      BY <1>2, <2>4, <3>1 DEF LogInv
    <3>2. CASE m \in 1..Len(log) /\ n = Len(log) + 1
      BY <1>2, <2>2, <2>4, <3>2
    <3>3. CASE n \in 1..Len(log) /\ m = Len(log) + 1
      BY <1>2, <2>2, <2>4, <3>3
    <3> QED BY <1>2, <3>1, <3>2, <3>3
  <2> QED BY <1>2, <2>3, <2>4 DEF LogInv
<1>8. LookInv' /\ ChunkInv'
  BY <1>4 DEF LookInv, ChunkInv, NoGap, ChunkEnd
<1>9. TrackInv'
  <2>1. ASSUME NEW x \in Sub, subs'[x].state = "Active", CreationIndexed(x) PROVE tracked[x] = "active"
    <3>1. CASE x # s
      BY <1>3, <2>1, <3>1 DEF TrackInv
    <3>2. CASE x = s
      <4>1. subs[s].state # "none"
        <5>1. PICK n \in indexed : log[n].type = "subscription.created" /\ log[n].sub = s
          BY <2>1, <3>2 DEF CreationIndexed
        <5> QED BY <1>2, <5>1 DEF TypeOK, LogInv
      <4>2. subs[s].state = "Active"
        BY <4>1
      <4> QED BY <2>1, <3>2, <4>2 DEF TrackInv
    <3> QED BY <3>1, <3>2
  <2> QED BY <1>4, <1>6, <2>1 DEF TrackInv
<1> QED BY <1>5, <1>7, <1>8, <1>9

\* charge() logs an expiry or a payment, or reverts.
LEMMA ChargeInv ==
    ASSUME ServiceInv, NEW s \in Sub, Charge(s), UNCHANGED <<now, frozen, store, locals>>,
           pending' \in [Sub -> 0..MaxPending]
    PROVE  ServiceInv'
<1> USE Numbers DEF ServiceInv
<1>1. subs \in [Sub -> SubRow] /\ funds \in Nat
  BY DEF TypeOK, SubRow
<1>2. CASE ~Accepted(s)
  <2>1. UNCHANGED <<now, subs, funds, frozen, log, store, locals>>
    BY <1>2 DEF Charge
  <2>2. TypeOK'
    BY <2>1 DEF store, locals, TypeOK
  <2>3. LookInv' /\ LogInv'
    BY <2>1 DEF locals, LookInv, LogInv
  <2>4. ChunkInv'
    BY <2>1 DEF store, locals, ChunkInv, NoGap, ChunkEnd
  <2>5. TrackInv'
    BY <2>1 DEF store, locals, TrackInv, CreationIndexed
  <2> QED BY <2>2, <2>3, <2>4, <2>5
<1>3. CASE Accepted(s) /\ Lapsed(s)
  <2> DEFINE row == [subs[s] EXCEPT !.state = "Expired"]
  <2>1. row \in SubRow /\ row.state = "Expired"
    BY <1>1 DEF SubRow
  <2>2. subs' = [subs EXCEPT ![s] = row] /\ Logged("subscription.expired", s) /\ funds' = funds
    BY <1>1, <1>3 DEF Charge
  <2>3. subs[s].state = "Active" /\ "subscription.expired" \in LogType
    BY <1>3 DEF Accepted, LogType, Ends
  <2> HIDE DEF row
  <2> QED BY <1>1, <2>1, <2>2, <2>3, LoggedInv
<1>4. CASE Accepted(s) /\ ~Lapsed(s)
  <2> DEFINE row == [subs[s] EXCEPT !.nextChargeAt = subs[s].nextChargeAt + Period]
  <2>1. subs[s].state = "Active" /\ funds > 0
    BY <1>4 DEF Accepted, Payable
  <2>2. row \in SubRow /\ row.state = "Active"
    BY <1>1, <2>1 DEF SubRow
  <2>3. subs' = [subs EXCEPT ![s] = row] /\ Logged("payment.succeeded", s) /\ funds' = funds - 1
    BY <1>1, <1>4 DEF Charge
  <2>4. "payment.succeeded" \in LogType /\ "payment.succeeded" \notin Ends /\ funds' \in Nat
    BY <1>1, <2>1, <2>3 DEF LogType, Ends
  <2> HIDE DEF row
  <2> QED BY <2>1, <2>2, <2>3, <2>4, LoggedInv
<1> QED BY <1>2, <1>3, <1>4

LEMMA ChainInv == ASSUME ServiceInv, Chain PROVE ServiceInv'
<1> USE Numbers DEF ServiceInv
<1>1. ASSUME NEW s \in Sub, NEW t \in Trial, Subscribe(s, t) PROVE ServiceInv'
  <2> DEFINE row == [state |-> "Active", nextChargeAt |-> now + t]
  <2>1. row \in SubRow /\ row.state # "none"
    BY DEF SubRow, TypeOK
  <2>2. subs[s].state = "none" /\ subs' = [subs EXCEPT ![s] = row]
        /\ Logged("subscription.created", s)
        /\ UNCHANGED <<now, funds, frozen, pending, store, locals>>
    BY <1>1 DEF Subscribe
  <2>3. "subscription.created" \in LogType /\ "subscription.created" \notin Ends
    BY DEF LogType, Ends
  <2> HIDE DEF row
  <2> QED BY <2>1, <2>2, <2>3, LoggedInv DEF TypeOK
<1>2. ASSUME NEW s \in Sub, AnyoneCharges(s) PROVE ServiceInv'
  BY <1>2, ChargeInv DEF AnyoneCharges, TypeOK
<1>3. ASSUME NEW s \in Sub, MineCharge(s) PROVE ServiceInv'
  <2>1. pending' \in [Sub -> 0..MaxPending]
    BY <1>3 DEF MineCharge, TypeOK
  <2> QED BY <1>3, <2>1, ChargeInv DEF MineCharge
<1>4. ASSUME NEW s \in Sub, Cancel(s) PROVE ServiceInv'
  <2> DEFINE row == [subs[s] EXCEPT !.state = "Cancelled"]
  <2>1. subs \in [Sub -> SubRow]
    BY DEF TypeOK, SubRow
  <2>2. row \in SubRow /\ row.state = "Cancelled"
    BY <2>1 DEF SubRow
  <2>3. subs[s].state = "Active" /\ subs' = [subs EXCEPT ![s] = row]
        /\ Logged("subscription.cancelled", s)
        /\ UNCHANGED <<now, funds, frozen, pending, store, locals>>
    BY <1>4, <2>1 DEF Cancel
  <2>4. "subscription.cancelled" \in LogType
    BY DEF LogType, Ends
  <2> HIDE DEF row
  <2> QED BY <2>2, <2>3, <2>4, LoggedInv DEF TypeOK
<1>5. CASE Customer \/ Elapse
  <2>1. /\ UNCHANGED <<subs, log, pending, cursor, indexed, alerts, tracked>>
        /\ UNCHANGED <<stage, head, pos, nowS, todo, look>>
    BY <1>5 DEF Customer, Elapse, store, locals
  <2>2. now' \in 0..MaxTime /\ funds' \in Nat
    <3>1. CASE Customer
      BY <3>1 DEF Customer, TypeOK
    <3>2. CASE Elapse
      <4>1. now \in 0..MaxTime /\ now < MaxTime /\ now' = now + 1 /\ funds' = funds
        BY <3>2 DEF Elapse, TypeOK
      <4> QED BY <4>1 DEF TypeOK
    <3> QED BY <1>5, <3>1, <3>2
  <2>3. frozen' \in BOOLEAN
    BY <1>5 DEF Customer, Elapse, TypeOK
  <2>4. TypeOK'
    BY <2>1, <2>2, <2>3 DEF TypeOK
  <2>5. LookInv' /\ LogInv' /\ ChunkInv' /\ TrackInv'
    BY <2>1 DEF LookInv, LogInv, ChunkInv, NoGap, ChunkEnd, TrackInv, CreationIndexed
  <2> QED BY <2>4, <2>5
<1> QED BY <1>1, <1>2, <1>3, <1>4, <1>5 DEF Chain

---------------------------------------------------------------------------
(* The indexer. *)

LEMMA ReadHeadInv == ASSUME ServiceInv, ReadHead PROVE ServiceInv'
<1> USE Numbers DEF ServiceInv, ReadHead
<1>1. Len(log) \in Nat /\ cursor \in 0..Len(log)
  BY LogLength DEF TypeOK
<1>2. UNCHANGED <<now, subs, funds, frozen, log, pending, cursor, indexed, alerts, tracked, todo, look>>
  BY DEF chain, store
<1>3. CASE Len(log) <= cursor
  BY <1>1, <1>2, <1>3 DEF TypeOK, Stages, LookInv, LogInv, ChunkInv, NoGap, TrackInv, CreationIndexed
<1>4. CASE ~(Len(log) <= cursor)
  <2>1. stage' = "logs" /\ head' = Len(log) /\ pos' = cursor + 1 /\ cursor < head'
    BY <1>1, <1>4
  <2>2. TypeOK' /\ LookInv' /\ LogInv' /\ TrackInv'
    BY <1>1, <1>2, <2>1 DEF TypeOK, Stages, LookInv, LogInv, TrackInv, CreationIndexed
  <2>3. pos' \in (cursor + 1)..(ChunkEnd' + 1) /\ (cursor + 1)..(pos' - 1) = {}
    BY <1>1, <1>2, <2>1 DEF ChunkEnd
  <2> QED BY <1>2, <2>1, <2>2, <2>3 DEF ChunkInv, NoGap
<1> QED BY <1>3, <1>4

\* The next log has its place in the chain.
LEMMA NextLog ==
    ASSUME ServiceInv, IndexLog
    PROVE  /\ pos \in 1..Len(log) /\ log[pos] \in LogEntry
           /\ cursor \in Nat /\ head \in Nat /\ pos <= ChunkEnd /\ ChunkEnd \in Nat
<1> USE Numbers DEF ServiceInv
<1>1. Len(log) \in Nat /\ cursor \in 0..Len(log) /\ head \in 0..Len(log)
  BY LogLength DEF TypeOK
<1>2. ChunkEnd \in Nat /\ ChunkEnd <= head /\ pos \in (cursor + 1)..(ChunkEnd + 1) /\ pos <= ChunkEnd
  BY <1>1 DEF ChunkEnd, ChunkInv, IndexLog
<1> QED BY <1>1, <1>2 DEF LogInv

\* The creation of a subscription is inserted once: before, the subs table does not have it.
LEMMA FirstIndexed ==
    ASSUME ServiceInv, IndexLog, pos \notin indexed, log[pos].type = "subscription.created"
    PROVE  ~CreationIndexed(log[pos].sub) /\ tracked[log[pos].sub] = "unknown"
<1>1. ~CreationIndexed(log[pos].sub)
  <2> SUFFICES ASSUME NEW n \in indexed, log[n].type = "subscription.created",
                      log[n].sub = log[pos].sub
               PROVE  FALSE
    BY DEF CreationIndexed
  <2>1. n \in DOMAIN log /\ pos \in DOMAIN log
    BY NextLog, LogLength DEF ServiceInv, TypeOK
  <2> QED BY <2>1 DEF ServiceInv, LogInv
<1>2. log[pos].sub \in Sub
  BY NextLog DEF LogEntry
<1> QED BY <1>1, <1>2 DEF ServiceInv, TrackInv

LEMMA IndexLogInv == ASSUME ServiceInv, IndexLog PROVE ServiceInv'
<1> USE Numbers DEF ServiceInv
<1> DEFINE e == log[pos]
<1>1. /\ pos \in 1..Len(log) /\ e.type \in LogType /\ e.sub \in Sub
      /\ cursor \in Nat /\ head \in Nat /\ pos <= ChunkEnd /\ ChunkEnd \in Nat
  BY NextLog DEF LogEntry
<1>2. /\ indexed' = indexed \cup {pos} /\ pos' = pos + 1
      /\ tracked' = IF pos \in indexed THEN tracked ELSE SideEffect(e)
      /\ stage = "logs"
      /\ UNCHANGED <<now, subs, funds, frozen, log, pending, cursor, alerts, stage, head, nowS, todo, look>>
  BY DEF IndexLog, chain
<1>3. SideEffect(e) \in [Sub -> {"unknown", "active", "inactive"}]
  <2>1. tracked \in [Sub -> {"unknown", "active", "inactive"}]
    BY DEF TypeOK
  <2> QED BY <1>1, <2>1 DEF SideEffect, trackSub, deactivateSub
<1>4. TypeOK'
  BY <1>1, <1>2, <1>3 DEF TypeOK
<1>5. LookInv' /\ LogInv'
  BY <1>2 DEF LookInv, LogInv
<1>6. ChunkInv'
  <2>1. ChunkEnd' = ChunkEnd
    BY <1>2 DEF ChunkEnd
  <2>2. /\ cursor < head /\ pos \in (cursor + 1)..(ChunkEnd + 1)
        /\ (cursor + 1)..(pos - 1) \subseteq indexed
    BY <1>2 DEF ChunkInv
  <2>3. pos' \in (cursor + 1)..(ChunkEnd + 1) /\ (cursor + 1)..(pos' - 1) \subseteq indexed'
    BY <1>1, <1>2, <2>2
  <2> QED BY <1>2, <2>1, <2>2, <2>3 DEF ChunkInv, NoGap
<1>7. TrackInv'
  <2>1. CASE pos \in indexed
    <3>1. indexed' = indexed /\ tracked' = tracked
      BY <1>2, <2>1
    <3> QED BY <1>2, <3>1 DEF TrackInv, CreationIndexed
  <2>2. CASE pos \notin indexed /\ e.type = "subscription.created"
    <3>1. tracked' = [tracked EXCEPT ![e.sub] = "active"]
      BY <1>2, <2>2 DEF SideEffect, trackSub, deactivateSub
    <3> PICK c \in Sub : c = e.sub
      BY <1>1
    <3>2. (CreationIndexed(c))'
      BY <1>2, <2>2 DEF CreationIndexed
    <3>3. \A x \in Sub : x # c => ((CreationIndexed(x))' <=> CreationIndexed(x))
      BY <1>2, <2>2 DEF CreationIndexed
    <3>4. tracked'[c] = "active" /\ \A x \in Sub : x # c => tracked'[x] = tracked[x]
      BY <1>1, <3>1 DEF TypeOK
    <3>5. \A x \in Sub : tracked'[x] = "unknown" <=> ~(CreationIndexed(x))'
      BY <3>2, <3>3, <3>4 DEF TrackInv
    <3>6. \A x \in Sub : subs'[x].state = "Active" /\ (CreationIndexed(x))' => tracked'[x] = "active"
      BY <1>2, <3>3, <3>4 DEF TrackInv
    <3>7. \A x \in todo' : tracked'[x] # "unknown"
      BY <1>2, <3>4 DEF TrackInv, TypeOK
    <3> QED BY <3>5, <3>6, <3>7 DEF TrackInv
  <2>3. CASE pos \notin indexed /\ e.type \in Ends
    <3>1. tracked' = [tracked EXCEPT ![e.sub] = IF tracked[e.sub] = "unknown" THEN tracked[e.sub] ELSE "inactive"]
      BY <1>2, <2>3 DEF SideEffect, trackSub, deactivateSub, Ends
    <3>2. \A x \in Sub : CreationIndexed(x)' <=> CreationIndexed(x)
      BY <1>2, <2>3 DEF CreationIndexed, Ends
    <3>3. \A x \in Sub : /\ x # e.sub => tracked'[x] = tracked[x]
                         /\ tracked'[x] = "unknown" <=> tracked[x] = "unknown"
      BY <1>1, <3>1 DEF TypeOK
    <3>4. subs[e.sub].state # "Active"
      BY <1>1, <2>3, LogLength DEF LogInv
    <3> QED BY <1>2, <3>2, <3>3, <3>4 DEF TrackInv, TypeOK
  <2>4. CASE pos \notin indexed /\ e.type = "payment.succeeded"
    <3>1. tracked' = tracked
      BY <1>2, <2>4 DEF SideEffect, trackSub, deactivateSub
    <3>2. \A x \in Sub : CreationIndexed(x)' <=> CreationIndexed(x)
      BY <1>2, <2>4 DEF CreationIndexed
    <3> QED BY <1>2, <3>1, <3>2 DEF TrackInv
  <2> QED BY <1>1, <2>1, <2>2, <2>3, <2>4 DEF LogType
<1> QED BY <1>4, <1>5, <1>6, <1>7

LEMMA SetCursorInv == ASSUME ServiceInv, SetCursor PROVE ServiceInv'
<1> USE Numbers DEF ServiceInv
<1>1. Len(log) \in Nat /\ cursor \in 0..Len(log) /\ head \in 0..Len(log)
  BY LogLength DEF TypeOK
<1>2. /\ cursor < head /\ pos \in (cursor + 1)..(ChunkEnd + 1) /\ pos > ChunkEnd
      /\ (cursor + 1)..(pos - 1) \subseteq indexed /\ 1..cursor \subseteq indexed
  BY DEF ChunkInv, SetCursor, NoGap
<1>3. ChunkEnd \in cursor..head /\ pos = ChunkEnd + 1 /\ 1..ChunkEnd \subseteq indexed
  <2>1. ChunkEnd \in cursor..head
    BY <1>1, <1>2 DEF ChunkEnd
  <2> QED BY <1>1, <1>2, <2>1
<1>4. /\ cursor' = ChunkEnd
      /\ UNCHANGED <<now, subs, funds, frozen, log, pending, indexed, alerts, tracked, nowS, todo, look>>
      /\ \/ stage' = "toMonitor" /\ head' = 0 /\ pos' = 0
         \/ ChunkEnd # head /\ stage' = "logs" /\ head' = head /\ pos' = pos
  BY DEF SetCursor, chain
<1>5. TypeOK'
  BY <1>1, <1>3, <1>4 DEF TypeOK, Stages, SetCursor
<1>6. ChunkInv'
  <2>1. CASE stage' = "toMonitor"
    BY <1>3, <1>4, <2>1 DEF ChunkInv, NoGap
  <2>2. CASE ChunkEnd # head /\ stage' = "logs" /\ head' = head /\ pos' = pos
    <3>1. cursor' < head' /\ cursor' \in Nat /\ head' \in Nat
      BY <1>1, <1>3, <1>4, <2>2
    <3>2. pos' \in (cursor' + 1)..(ChunkEnd' + 1) /\ (cursor' + 1)..(pos' - 1) = {}
      BY <1>3, <1>4, <2>2, <3>1 DEF ChunkEnd
    <3> QED BY <1>3, <1>4, <3>1, <3>2 DEF ChunkInv, NoGap
  <2> QED BY <1>4, <2>1, <2>2
<1>7. LookInv' /\ LogInv' /\ TrackInv'
  BY <1>4 DEF LookInv, LogInv, TrackInv, CreationIndexed
<1> QED BY <1>5, <1>6, <1>7

---------------------------------------------------------------------------
(* The monitors, failures and restarts. *)

\* A step that leaves the chain, the event table and the cursor alone, and is not at a log.
LEMMA LoopInv ==
    ASSUME ServiceInv, UNCHANGED <<now, subs, funds, frozen, log, cursor, indexed>>,
           pending' \in [Sub -> 0..MaxPending], alerts' \subseteq Alert \X Sub \X Nat,
           tracked' \in [Sub -> {"unknown", "active", "inactive"}],
           \A s \in Sub : tracked'[s] = tracked[s] \/ (tracked[s] # "unknown"
                            /\ tracked'[s] = "inactive" /\ subs[s].state # "Active"),
           stage' \in Stages \ {"logs"}, head' \in 0..Len(log),
           todo' \subseteq Sub, \A s \in todo' : tracked[s] # "unknown",
           look' # Nothing => /\ look'.sub \in Sub /\ look'.due \in Nat
                              /\ stage' \in {"monitor", "keeper"}
    PROVE  ServiceInv'
<1> USE DEF ServiceInv
<1>1. TypeOK' /\ LookInv'
  BY DEF TypeOK, LookInv
<1>2. LogInv' /\ ChunkInv'
  BY DEF LogInv, ChunkInv, NoGap
<1>3. \A s \in Sub : CreationIndexed(s)' <=> CreationIndexed(s)
  BY DEF CreationIndexed
<1>4. TrackInv'
  BY <1>3 DEF TrackInv, TypeOK
<1> QED BY <1>1, <1>2, <1>4

LEMMA ReadUpcomingInv ==
    ASSUME ServiceInv, NEW s \in Sub, NEW at \in {"monitor", "keeper"}, NEW concerns,
           ReadUpcoming(s, at, concerns)
    PROVE  ServiceInv'
<1> USE DEF ServiceInv, ReadUpcoming, deactivateSub
<1>1. tracked[s] # "unknown" /\ tracked \in [Sub -> {"unknown", "active", "inactive"}]
  BY DEF TrackInv, TypeOK
<1>2. tracked' \in [Sub -> {"unknown", "active", "inactive"}]
      /\ \A x \in Sub : tracked'[x] = tracked[x] \/ (tracked[x] # "unknown"
                            /\ tracked'[x] = "inactive" /\ subs[x].state # "Active")
  BY <1>1
<1>3. subs[s].nextChargeAt \in Nat
  BY DEF TypeOK
<1>4. look' # Nothing => look'.sub = s /\ look'.due = subs[s].nextChargeAt
  OBVIOUS
<1>5. todo' \subseteq Sub /\ \A x \in todo' : tracked[x] # "unknown"
  BY DEF TypeOK, TrackInv
<1>6. /\ UNCHANGED <<now, subs, funds, frozen, log, pending, cursor, indexed, alerts, stage, head>>
      /\ stage = at
  BY DEF chain
<1>7. /\ pending' \in [Sub -> 0..MaxPending] /\ alerts' \subseteq Alert \X Sub \X Nat
      /\ stage' \in Stages \ {"logs"} /\ head' \in 0..Len(log)
  BY <1>6 DEF TypeOK, Stages
<1> QED BY <1>2, <1>3, <1>4, <1>5, <1>6, <1>7, LoopInv

LEMMA RunInv ==
    ASSUME ServiceInv,
           \/ StartRun("toMonitor", "monitor") \/ EndRun("monitor", "toKeeper")
           \/ StartRun("toKeeper", "keeper") \/ EndRun("keeper", "index")
    PROVE  ServiceInv'
<1> USE DEF ServiceInv
<1>1. /\ UNCHANGED <<now, subs, funds, frozen, log, pending, cursor, indexed, alerts, tracked, head, look>>
      /\ stage' \in Stages \ {"logs"}
      /\ todo' = Active \/ todo' = todo
      /\ look' # Nothing => stage' \in {"monitor", "keeper"}
  BY DEF StartRun, EndRun, chain, store, Stages, TypeOK
<1>2. todo' \subseteq Sub /\ \A s \in todo' : tracked[s] # "unknown"
  BY <1>1 DEF Active, TypeOK, TrackInv
<1> QED BY <1>1, <1>2, LoopInv DEF TypeOK, LookInv

\* Alerts are of the subscription looked at.
LEMMA LookEndsInv ==
    ASSUME ServiceInv, CheckBalance \/ CheckCard \/ CheckFails \/ SendCharge \/ SendFails
    PROVE  ServiceInv'
<1> USE Numbers DEF ServiceInv
<1>1. look # Nothing /\ look.sub \in Sub /\ look.due \in Nat /\ stage \in {"monitor", "keeper"}
  BY DEF CheckBalance, CheckCard, CheckFails, SendCharge, SendFails, TypeOK, LookInv
<1>2. <<"at_risk", look.sub, look.due>> \in Alert \X Sub \X Nat
      /\ <<"attempt_failed", look.sub, look.due>> \in Alert \X Sub \X Nat
      /\ <<"overdue", look.sub, look.due>> \in Alert \X Sub \X Nat
  BY <1>1 DEF Alert
<1>3. alerts' \subseteq Alert \X Sub \X Nat
  BY <1>2 DEF CheckBalance, CheckCard, CheckFails, SendCharge, SendFails, AttemptFails, DropLook,
              store, TypeOK
<1>4. pending' \in [Sub -> 0..MaxPending]
  <2>1. CASE pending' = pending
    BY <2>1 DEF TypeOK
  <2>2. CASE SendCharge /\ Accepted(look.sub)
    <3>1. pending \in [Sub -> 0..MaxPending] /\ pending[look.sub] < MaxPending
          /\ pending' = [pending EXCEPT ![look.sub] = pending[look.sub] + 1]
      BY <2>2 DEF SendCharge, TypeOK
    <3>2. pending[look.sub] + 1 \in 0..MaxPending
      BY <1>1, <3>1
    <3> QED BY <3>1, <3>2
  <2> QED BY <2>1, <2>2 DEF CheckBalance, CheckCard, CheckFails, SendCharge, SendFails,
                            AttemptFails, DropLook, chain
<1>5. UNCHANGED <<now, subs, funds, frozen, log, cursor, indexed, tracked, stage, head, todo>>
  BY DEF CheckBalance, CheckCard, CheckFails, SendCharge, SendFails, AttemptFails, DropLook,
         chain, store
<1>6. look' # Nothing => look'.sub \in Sub /\ look'.due \in Nat
  <2>1. look' = Nothing \/ look' = [look EXCEPT !.step = "balance"]
    BY DEF CheckBalance, CheckCard, CheckFails, SendCharge, SendFails, AttemptFails, DropLook
  <2>2. [look EXCEPT !.step = "balance"].sub = look.sub /\ [look EXCEPT !.step = "balance"].due = look.due
    OBVIOUS
  <2> QED BY <1>1, <2>1, <2>2
<1>7. stage' \in Stages \ {"logs"} /\ stage' \in {"monitor", "keeper"}
  BY <1>1, <1>5 DEF Stages
<1> QED BY <1>3, <1>4, <1>5, <1>6, <1>7, LoopInv DEF TypeOK, TrackInv

LEMMA RestartInv ==
    ASSUME ServiceInv, TickFails \/ Crash \/ \E s \in Sub : ReadFails(s) PROVE ServiceInv'
<1> USE DEF ServiceInv
<1>1. /\ UNCHANGED <<now, subs, funds, frozen, log, pending, cursor, indexed, alerts, tracked>>
      /\ stage' \in Stages \ {"logs"} /\ head' \in 0..Len(log)
      /\ todo' \subseteq todo
      /\ look' = Nothing \/ (look' = look /\ stage' = stage)
  BY LogLength, SMTT(30) DEF TickFails, Crash, ReadFails, chain, store, Stages, TypeOK
<1>2. look' # Nothing => /\ look'.sub \in Sub /\ look'.due \in Nat
                         /\ stage' \in {"monitor", "keeper"}
  BY <1>1 DEF TypeOK, LookInv
<1>3. todo' \subseteq Sub /\ \A s \in todo' : tracked[s] # "unknown"
  BY <1>1 DEF TypeOK, TrackInv
<1>4. /\ pending' \in [Sub -> 0..MaxPending] /\ alerts' \subseteq Alert \X Sub \X Nat
      /\ tracked' \in [Sub -> {"unknown", "active", "inactive"}]
  BY <1>1 DEF TypeOK
<1> QED BY <1>1, <1>2, <1>3, <1>4, LoopInv

LEMMA ServiceInvNext == ServiceInv /\ [Next]_vars => ServiceInv'
<1> SUFFICES ASSUME ServiceInv, [Next]_vars PROVE ServiceInv'
  OBVIOUS
<1>1. CASE Chain
  BY <1>1, ChainInv
<1>2. CASE ReadHead \/ IndexLog \/ SetCursor
  BY <1>2, ReadHeadInv, IndexLogInv, SetCursorInv
<1>3. ASSUME NEW s \in Sub, MonitorReads(s) \/ KeeperReads(s) PROVE ServiceInv'
  BY <1>3, ReadUpcomingInv DEF MonitorReads, KeeperReads
<1>4. CASE UNCHANGED vars
  BY <1>4 DEF vars, chain, store, locals, ServiceInv, TypeOK, LookInv, LogInv, ChunkInv, NoGap,
              ChunkEnd, TrackInv, CreationIndexed
<1> QED BY <1>1, <1>2, <1>3, <1>4, RunInv, LookEndsInv, RestartInv DEF Next, Loop, Faults

LEMMA ServiceInvariant == Spec => []ServiceInv
BY ServiceInvInit, ServiceInvNext, PTL DEF Spec

---------------------------------------------------------------------------
(* Theorems. *)

\* Whatever ends a tick, every block up to the cursor has its event, and every subscription
\* that is active and indexed is on the monitors' list.
THEOREM IndexComplete == Spec => []IndexInv
<1>1. ServiceInv => IndexInv
  <2> SUFFICES ASSUME ServiceInv PROVE IndexInv
    OBVIOUS
  <2>1. TypeOK /\ NoGap
    BY DEF ServiceInv, ChunkInv
  <2>2. ASSUME NEW s \in Sub, NEW n \in indexed,
               log[n] = [type |-> "subscription.created", sub |-> s]
        PROVE  CreationIndexed(s)
    BY <2>2 DEF CreationIndexed
  <2>3. ActiveIsWatched
    BY <2>2 DEF ServiceInv, TrackInv, ActiveIsWatched
  <2> QED BY <2>1, <2>3 DEF IndexInv
<1> QED BY <1>1, ServiceInvariant, PTL

\* A subscription that was given up stays given up, however often its logs are replayed.
THEOREM ReplayIsHarmless == Spec => NoResurrection
<1>1. ServiceInv /\ [Next]_vars =>
        [\A s \in Sub : tracked[s] = "inactive" => tracked'[s] = "inactive"]_vars
  <2> SUFFICES ASSUME ServiceInv, [Next]_vars, NEW s \in Sub, tracked[s] = "inactive"
               PROVE  tracked'[s] = "inactive"
    OBVIOUS
  <2>1. CASE tracked' = tracked
    BY <2>1
  <2>2. CASE IndexLog
    <3>1. log[pos].sub \in Sub
      BY <2>2, NextLog DEF LogEntry
    <3>2. CASE pos \in indexed
      BY <2>2, <3>2 DEF IndexLog
    <3>3. CASE pos \notin indexed /\ log[pos].type = "subscription.created"
      BY <2>2, <3>1, <3>3, FirstIndexed DEF IndexLog, SideEffect, trackSub, deactivateSub, ServiceInv, TypeOK
    <3>4. CASE pos \notin indexed /\ log[pos].type # "subscription.created"
      BY <2>2, <3>1, <3>4 DEF IndexLog, SideEffect, trackSub, deactivateSub, ServiceInv, TypeOK
    <3> QED BY <3>2, <3>3, <3>4
  <2>3. ASSUME NEW x \in Sub, MonitorReads(x) \/ KeeperReads(x) PROVE tracked'[s] = "inactive"
    BY <2>3 DEF MonitorReads, KeeperReads, ReadUpcoming, deactivateSub, ServiceInv, TypeOK
  <2>4. CASE Chain
    BY <2>4 DEF Chain, Subscribe, AnyoneCharges, MineCharge, Cancel, Customer, Elapse, store
  <2>5. CASE Faults
    BY <2>5 DEF Faults, TickFails, CheckFails, SendFails, AttemptFails, DropLook, Crash, ReadFails, store
  <2>6. CASE ReadHead \/ SetCursor \/ StartRun("toMonitor", "monitor")
             \/ EndRun("monitor", "toKeeper") \/ StartRun("toKeeper", "keeper")
             \/ EndRun("keeper", "index") \/ CheckBalance \/ CheckCard \/ SendCharge
    BY <2>6 DEF ReadHead, SetCursor, StartRun, EndRun, CheckBalance, CheckCard, SendCharge,
                AttemptFails, DropLook, store
  <2>7. CASE UNCHANGED vars
    BY <2>7 DEF vars, store
  <2> QED BY <2>1, <2>2, <2>3, <2>4, <2>5, <2>6, <2>7 DEF Next, Loop
<1> QED BY <1>1, ServiceInvariant, PTL DEF Spec, NoResurrection

=============================================================================
