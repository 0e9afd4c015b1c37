------------------------------ MODULE CardDrawer ------------------------------
(***************************************************************************)
(* The cards view of the dashboard: the gallery (useMyCards), the drawer   *)
(* of one card with its optimistic badge, and the mint form                *)
(* (components/screens/cards.tsx, lib/use-cards.ts), against a wallet that *)
(* asks its user and a chain that mines later.                             *)
(*                                                                         *)
(* A card is found by its card.created row, as long as that is among the   *)
(* newest rows of the feed all merchants share; its state is read by a     *)
(* multicall, cached by the cards it asks for.                             *)
(*                                                                         *)
(* One owner, one page.  The chain keeps a card's state only: who may      *)
(* charge it is CardIssuer's matter.  A write is a request the user        *)
(* answers in the wallet, then a transaction in the order of its nonce.    *)
(***************************************************************************)
EXTENDS Integers, Sequences, FiniteSets

CONSTANTS
    MaxCards,       \* bound: cards ever minted
    MinCards,       \* cards minted before the page is opened, if any
    MaxWrites,      \* bound: writes asked of the wallet
    MaxMounts,      \* bound: drawers opened by a tap are among the first MaxMounts
    FeedLimit,      \* limit=200
    MaxOthers,      \* bound: rows of other events
    MaxMissed,      \* bound: multicalls that fail for some card, and polls held up
    NoPoll,         \* no poll is held up
    NoCard

Status == {"active", "frozen", "cancelled"}

\* What a mounted CardDetail holds; NoCard is null.
Detail == [card : Nat, status : Status, inFlight : BOOLEAN, id : Nat, fresh : BOOLEAN]

ASSUME DrawerAssumption ==
    /\ MaxCards \in Nat /\ MinCards \in 0..MaxCards
    /\ MaxWrites \in Nat /\ MaxMounts \in Nat /\ MaxMissed \in Nat
    /\ FeedLimit \in Nat \ {0} /\ MaxOthers \in Nat /\ NoPoll \notin Nat
    /\ NoCard \notin Nat /\ NoCard \notin Detail

VARIABLES
    chain,              \* state of every minted card
    txs,                \* every transaction sent, with its outcome
    requests,           \* writes the wallet has not been answered for
    stream,             \* the service's rows as stored: a card created, or NoCard for others
    heldPoll,           \* how many rows a poll had read whose answer is held up
    feed,               \* cards whose card.created row the page holds
    cache, cards,       \* results of the multicall by the cards it asks for; useLastNonEmpty
    selectedId,         \* the gallery's
    detail,             \* the drawer's component: what it shows, or NoCard
    mintOpen,           \* the mint form's drawer
    writes, mounts, missed \* the bounds' counters

world == <<chain, txs>>
service == <<stream, heldPoll>>
gallery == <<feed, cache, cards>>
limits == <<writes, mounts, missed>>
drawerVars == <<world, requests, service, gallery, selectedId, detail, mintOpen, limits>>

NoRows == [c \in {} |-> 0]

---------------------------------------------------------------------------
(* Chain. *)

\* freeze, unfreeze and cancel of a card in state s; a revert changes nothing.
Reverts(fn, s) == fn # "cancel" /\ s = "cancelled"
Becomes(fn, s) ==
    IF Reverts(fn, s) THEN s
    ELSE CASE fn = "freeze" -> "frozen"
           [] fn = "unfreeze" -> "active"
           [] OTHER -> "cancelled"

Minted == DOMAIN chain

\* Transactions of one account are mined in the order they were sent.
Mine ==
    \E i \in DOMAIN txs :
        /\ txs[i].outcome = "pending" /\ \A j \in 1..(i - 1) : txs[j].outcome # "pending"
        /\ IF txs[i].fn = "mint"
           THEN /\ chain' = [c \in Minted \cup {Cardinality(Minted)} |->
                                IF c \in Minted THEN chain[c] ELSE "active"]
                /\ txs' = [txs EXCEPT ![i].outcome = "done"]
           ELSE LET c == txs[i].card  fn == txs[i].fn IN
                /\ chain' = [chain EXCEPT ![c] = Becomes(fn, @)]
                /\ txs' = [txs EXCEPT ![i].outcome =
                                IF Reverts(fn, chain[c]) THEN "reverted" ELSE "done"]
        /\ UNCHANGED <<requests, service, gallery, selectedId, detail, mintOpen, limits>>

---------------------------------------------------------------------------
(* Gallery. *)

DrawerInit ==
    /\ \E n \in {0, MinCards} : chain \in [0..(n - 1) -> {"active", "frozen"}]
    /\ txs = <<>> /\ requests = {}
    /\ stream = <<>> /\ heldPoll = NoPoll
    /\ feed = {} /\ cache = NoRows /\ cards = NoRows
    /\ selectedId = NoCard /\ detail = NoCard /\ mintOpen = FALSE
    /\ writes = 0 /\ mounts = 0 /\ missed = 0

\* useLastNonEmpty
stableCards(rows, last) == IF rows # NoRows THEN rows ELSE last

\* The transactions sent for a card and not mined yet, by their place in the order.
Pending(c) == {i \in DOMAIN txs : txs[i].card = c /\ txs[i].outcome = "pending"}

\* The drawer is opened on what the chain says, and nothing is under way for the card.
Fresh(c, status) == /\ status = chain[c] /\ Pending(c) = {}
                    /\ \A r \in requests : r.card # c

\* CardDetail starts from the row's status: useState(card.status).
Mounted(c) == [card |-> c, status |-> cards'[c], inFlight |-> FALSE, id |-> mounts + 1,
               fresh |-> Fresh(c, cards'[c])]

\* selected = cards.find(...); the component is there as long as its card is in the list,
\* and left as `was` by the step.
RenderDetail(was) ==
    IF selectedId' = NoCard \/ selectedId' \notin DOMAIN cards'
    THEN detail' = NoCard /\ UNCHANGED mounts
    ELSE IF was # NoCard /\ was.card = selectedId'
    THEN detail' = was /\ UNCHANGED mounts
    ELSE mounts' = mounts + 1 /\ detail' = Mounted(selectedId')

\* The service indexes the cards in their order, between the events of others.
StoreCard ==
    LET c == Cardinality({i \in DOMAIN stream : stream[i] # NoCard}) IN
    /\ c \in Minted /\ stream' = Append(stream, c)
    /\ UNCHANGED <<world, requests, heldPoll, gallery, selectedId, detail, mintOpen, limits>>

StoreOther ==
    /\ Cardinality({i \in DOMAIN stream : stream[i] = NoCard}) < MaxOthers
    /\ stream' = Append(stream, NoCard)
    /\ UNCHANGED <<world, requests, heldPoll, gallery, selectedId, detail, mintOpen, limits>>

\* Mutant: the oldest rows are served.
OldestCards(n) == {stream[i] : i \in {j \in DOMAIN stream : j <= n /\ j <= FeedLimit}} \ {NoCard}

\* deriveMyCards of the newest rows, when n are stored.
recentCards(n) ==
    {stream[i] : i \in {j \in DOMAIN stream : j <= n /\ n < j + FeedLimit}} \ {NoCard}

\* What the multicall answered for a set of cards, if the cache has it.
Cached(k) == IF k \in DOMAIN cache THEN cache[k] ELSE NoRows

\* The page holds the rows of a poll.  Under a new key the multicall has no data yet, or what
\* it answered under that key before, unless that was dropped.
ShowFeed(n) ==
    /\ feed' = recentCards(n)
    /\ \/ cache' = cache
       \/ feed' # feed /\ cache' = [k \in DOMAIN cache \ {feed'} |-> cache[k]]
    /\ cards' = stableCards(Cached(feed)', cards)
    /\ RenderDetail(detail)

\* A poll is answered at once; or its answer is held up, and later ones overtake it.
PollFeed ==
    /\ feed # recentCards(Len(stream))
    /\ UNCHANGED <<world, requests, service, selectedId, mintOpen, writes, missed>>
    /\ ShowFeed(Len(stream))

PollFeedSlow ==
    /\ heldPoll = NoPoll /\ missed < MaxMissed
    /\ heldPoll' = Len(stream) /\ missed' = missed + 1
    /\ UNCHANGED <<world, requests, stream, gallery, selectedId, detail, mintOpen, writes, mounts>>

\* The answer held up arrives, or the request fails.
PollArrives ==
    /\ heldPoll # NoPoll /\ heldPoll' = NoPoll
    /\ UNCHANGED <<world, requests, stream, selectedId, mintOpen, writes, missed>>
    /\ \/ UNCHANGED <<gallery, detail, mounts>>
       \/ ShowFeed(heldPoll)

\* getCard of every card, which may fail for some.
ReadCards(ok) ==
    /\ feed # {}
    /\ ok = feed \/ missed < MaxMissed
    /\ missed' = IF ok = feed THEN missed ELSE missed + 1
    /\ cache' = [k \in DOMAIN cache \cup {feed} |->
                    IF k = feed THEN [c \in ok |-> chain[c]] ELSE cache[k]]
    /\ UNCHANGED <<world, requests, service, feed, selectedId, mintOpen, writes>>
    /\ cards' = stableCards(Cached(feed)', cards)
    /\ RenderDetail(detail)

\* A tap on a card, which no drawer's scrim covers.
Tap(c) ==
    /\ detail = NoCard /\ ~mintOpen /\ c \in DOMAIN cards /\ mounts < MaxMounts
    /\ selectedId' = c
    /\ UNCHANGED <<world, requests, service, gallery, mintOpen, writes, missed>>
    /\ RenderDetail(NoCard)

Close ==
    /\ detail # NoCard
    /\ selectedId' = NoCard
    /\ UNCHANGED <<world, requests, service, gallery, mintOpen, writes, missed>>
    /\ RenderDetail(detail)

\* The wallet disconnects and connects again: the gallery starts anew, from the query's
\* cache.  What it asked of the wallet is still answered, to nobody.
Reconnect ==
    /\ requests # {} \/ selectedId # NoCard
    /\ requests' = {[r EXCEPT !.here = FALSE] : r \in requests}
    /\ cards' = stableCards(Cached(feed), NoRows)
    /\ selectedId' = NoCard /\ mintOpen' = FALSE
    /\ UNCHANGED <<world, service, feed, cache, writes, missed>>
    /\ RenderDetail(NoCard)

---------------------------------------------------------------------------
(* The drawer. *)

\* Mutant: only the button's `pending` guards, which has not flipped yet.
FreeAlways(d) == TRUE

\* inFlight.current
Free(d) == ~d.inFlight

\* writeContractAsync: the wallet asks.
Ask(fn, c, was) ==
    /\ writes < MaxWrites /\ writes' = writes + 1
    /\ requests' = requests \cup
            {[no |-> writes + 1, fn |-> fn, card |-> c, was |-> was, here |-> TRUE,
              detail |-> IF detail = NoCard THEN 0 ELSE detail.id]}

Offered == detail # NoCard /\ detail.status # "cancelled"

Flipped(status) == IF status = "active" THEN "frozen" ELSE "active"

\* handleToggle, up to its await: the badge flips at once.
Toggle ==
    /\ Offered /\ Free(detail)
    /\ Ask(IF detail.status = "active" THEN "freeze" ELSE "unfreeze", detail.card, detail.status)
    /\ detail' = [detail EXCEPT !.inFlight = TRUE, !.status = Flipped(@)]
    /\ UNCHANGED <<world, service, gallery, selectedId, mintOpen, mounts, missed>>

\* handleCancel, confirmed, up to its await.
Cancel ==
    /\ Offered /\ Free(detail)
    /\ Ask("cancel", detail.card, detail.status)
    /\ detail' = [detail EXCEPT !.inFlight = TRUE]
    /\ UNCHANGED <<world, service, gallery, selectedId, mintOpen, mounts, missed>>

\* The answer reaches the component that asked, if it is still there.
Heard(r) == detail # NoCard /\ detail.id = r.detail

\* onClosed: the gallery closes whichever card is selected.
AfterWrite(r) == IF r.fn = "cancel" /\ r.here THEN NoCard ELSE selectedId

\* The user confirms: the transaction is sent, `finally` frees the drawer.
Confirm(r) ==
    /\ requests' = requests \ {r}
    /\ txs' = Append(txs, [fn |-> r.fn, card |-> r.card, detail |-> r.detail,
                           fresh |-> Heard(r) /\ detail.fresh, outcome |-> "pending"])
    /\ selectedId' = AfterWrite(r)
    /\ mintOpen' = (mintOpen /\ ~(r.fn = "mint" /\ r.here))
    /\ UNCHANGED <<chain, service, gallery, writes, missed>>
    /\ RenderDetail(IF Heard(r) THEN [detail EXCEPT !.inFlight = FALSE] ELSE detail)

\* The catch of handleToggle rolls the badge back; handleCancel did not touch it.
RolledBack(r) == IF r.fn = "cancel" THEN detail.status ELSE r.was

\* The user rejects, or the wallet's estimate says the write would revert.
Reject(r) ==
    /\ requests' = requests \ {r}
    /\ detail' = IF Heard(r) THEN [detail EXCEPT !.inFlight = FALSE, !.status = RolledBack(r)]
                 ELSE detail
    /\ UNCHANGED <<world, service, gallery, selectedId, mintOpen, limits>>

---------------------------------------------------------------------------
(* The mint form. *)

\* What the fields can be, as far as handleSubmit tells them apart.
Form == [limit : {"unreadable", "zero", "positive"}, expiry : {"blank", "invalid", "past", "ahead"},
         allowlist : {"addresses", "others"}, signer : {"address", "other"}]

\* handleSubmit's early returns.
Accepts(form) ==
    /\ form.limit = "positive" /\ form.expiry \in {"blank", "ahead"}
    /\ form.allowlist = "addresses" /\ form.signer = "address"

OpenMint ==
    /\ detail = NoCard /\ ~mintOpen /\ mintOpen' = TRUE
    /\ UNCHANGED <<world, requests, service, gallery, selectedId, detail, limits>>

CloseMint ==
    /\ mintOpen /\ mintOpen' = FALSE
    /\ UNCHANGED <<world, requests, service, gallery, selectedId, detail, limits>>

\* Nothing but the button's `pending`, which flips later, stops a second submit.
Mint(form) ==
    /\ mintOpen /\ detail = NoCard /\ Accepts(form)
    /\ Cardinality(Minted) + Cardinality({r \in requests : r.fn = "mint"})
        + Cardinality({i \in Pending(NoCard) : txs[i].fn = "mint"}) < MaxCards
    /\ Ask("mint", NoCard, "none")
    /\ UNCHANGED <<world, service, gallery, selectedId, detail, mintOpen, mounts, missed>>

---------------------------------------------------------------------------
DrawerNext ==
    \/ Mine \/ StoreCard \/ StoreOther \/ PollFeed \/ PollFeedSlow \/ PollArrives
    \/ Close \/ Reconnect \/ Toggle \/ Cancel \/ OpenMint \/ CloseMint
    \/ \E ok \in SUBSET feed : ReadCards(ok)
    \/ \E c \in DOMAIN cards : Tap(c)
    \/ \E r \in requests : Confirm(r) \/ Reject(r)
    \/ \E form \in Form : Mint(form)

DrawerSpec == DrawerInit /\ [][DrawerNext]_drawerVars

\* The chain mines what was sent and the service indexes it; feed and multicall are polled on
\* their intervals, and a poll under way ends.
DrawerFairness ==
    /\ WF_drawerVars(Mine) /\ WF_drawerVars(StoreCard)
    /\ WF_drawerVars(PollFeed) /\ WF_drawerVars(PollArrives) /\ WF_drawerVars(ReadCards(feed))

FairDrawerSpec == DrawerSpec /\ DrawerFairness

---------------------------------------------------------------------------
(* Properties. *)

\* Cards keep their ids, rows, requests and transactions are of those that exist, and the
\* gallery lists no others.
DrawerTypeOK ==
    /\ chain \in [0..(Cardinality(Minted) - 1) -> Status]
    /\ \A i \in DOMAIN stream : stream[i] \in Minted \cup {NoCard}
    /\ feed \subseteq Minted /\ DOMAIN cards \subseteq Minted
    /\ \A k \in DOMAIN cache : DOMAIN cache[k] \subseteq k
    /\ \A r \in requests : r.card \in Minted \cup {NoCard}
    /\ \A i \in DOMAIN txs : txs[i].outcome \in {"pending", "done", "reverted"}
    /\ detail # NoCard => detail.card = selectedId /\ selectedId \in DOMAIN cards

\* What the card will be once everything sent for it is mined: cancelled, if that was asked,
\* or what the last toggle makes of it.
Heading(c) ==
    LET last == CHOOSE i \in Pending(c) : \A j \in Pending(c) : j <= i
    IN  IF Pending(c) = {} THEN chain[c]
        ELSE IF \E i \in Pending(c) : txs[i].fn = "cancel" THEN "cancelled"
        ELSE Becomes(txs[last].fn, chain[c])

\* The same, and the write that the drawer's badge already shows is confirmed.
Outlook(d) ==
    LET toggles == {r \in requests : r.detail = d.id /\ r.fn \in {"freeze", "unfreeze"}}
    IN  IF toggles = {} THEN Heading(d.card)
        ELSE Becomes((CHOOSE r \in toggles : TRUE).fn, Heading(d.card))

\* The optimistic badge is the state the card is heading for, in a drawer that was opened
\* with nothing under way: after any number of toggles, confirmed in the wallet, rejected
\* there, or mined late.
BadgeIsHonest == detail # NoCard /\ detail.fresh => detail.status = Outlook(detail)

\* No write sent from such a drawer reverts: after a cancel it sends nothing more.
FreshWritesSucceed == \A i \in DOMAIN txs : txs[i].fresh => txs[i].outcome # "reverted"

\* The drawer's state is well-formed, tells the truth and asks for nothing that fails.
DrawerInv == DrawerTypeOK /\ BadgeIsHonest /\ FreshWritesSucceed

\* Once nothing more happens the gallery shows every card whose row is among the newest, as it
\* is on chain: a mint appears, a cancel is seen, whichever reads failed and polls overtook one
\* another on the way.  As long as no row was pushed out these are all of the owner's cards.
GallerySettles ==
    LET newest == {c \in Minted : \E i \in DOMAIN stream :
                        stream[i] = c /\ Len(stream) - i < FeedLimit}
    IN
    <>[](/\ newest # {} => cards = [c \in newest |-> chain[c]]
         /\ Len(stream) <= FeedLimit => cards = chain)

=============================================================================
