------------------------------ MODULE Catalog ------------------------------
(***************************************************************************)
(* The hosting catalog (server/catalog): provider, plan, domain-price and  *)
(* offer rows kept level with OpenVibe.Sources and edited by staff; the    *)
(* price changes behind the charts; the discussion of each page; and the   *)
(* documents in OpenVibe.Search.                                           *)
(*                                                                         *)
(* What runs beside what.  A pull applies the change feed, a webhook       *)
(* applies one item, staff save rows, viewers open discussions, sweeps     *)
(* bring the index level.  Each is a few awaited statements on one         *)
(* database without row locks, so each reads and writes in separate steps, *)
(* and whatever another did between the two counts.                        *)
(*                                                                         *)
(* One provider sells the plans and the endings of Shared; the other       *)
(* registrars have providers of their own that stay active.  All the       *)
(* registrar rows are of one domain ending.  A price stands for a whole    *)
(* price row; 0 is the free or missing price a mapper refuses.             *)
(***************************************************************************)
EXTENDS PriceTrend

CONSTANTS
    SourcePlans, KeyedPlans,    \* plans from OpenVibe.Sources; from an account's own feed
    StaffPlans,                 \* plans staff entered
    Registrars, Shared, Offers, \* prices of one domain ending; those of the provider; offer posts
    Prices, FreshFor, OfferLife, \* prices stated; how long a price counts as fresh, an offer as recent
    Scenes,                     \* the rows and prices in play, the dates staff give, who acts, and
                                \* the bounds: moments, staff saves, restarts (see CatalogInit)
    None

VARIABLES
    scene, clock, feed, due,    \* the source's content, and what the change feed still owes
    provider, row, changes,     \* the database
    job, edit, saves,           \* deliveries and staff saves under way
    queue, syncing, thread, view, \* discussion jobs, the one running, threads, a viewer
    sweep, index,               \* sweeps under way and the search index
    restarts,
    kept, raced, astray         \* history: prices accepted, rows written from a stale read
                                \* or priced out of turn, pages whose thread missed a change

sources == <<scene, clock, feed, due>>
database == <<provider, row, changes>>
discussion == <<queue, syncing, thread, view>>
search == <<sweep, index>>
history == <<kept, raced, astray>>
catalogVars == <<sources, database, job, edit, saves, discussion, search, restarts, history>>

Plans == SourcePlans \cup KeyedPlans \cup StaffPlans
Listed == SourcePlans \cup KeyedPlans \cup Registrars \cup Offers
Rows == Listed \cup StaffPlans
Pages == {"provider"} \cup Plans
Ordered == {"pull"}             \* the deliverer that works off the change feed

Statuses == {"active", "hidden", "gone"}
Dates == UNION {s.dates : s \in Scenes}

\* What staff send: a status, or a price of a plan of theirs, with the date it was
\* checked (the form posts the one it showed) or with none.
Inputs(target) ==
    {[field |-> "status", value |-> s] : s \in {"active", "hidden"}}
    \cup (IF target \in StaffPlans
          THEN [field : {"price"}, value : Prices \ {0}, date : Dates \cup {None}] ELSE {})

ItemTypes == [price : Prices, at : Nat, removed : BOOLEAN, first : Nat]
RowTypes == [price : Prices, at : Nat, first : Nat, status : Statuses]
JobTypes == [row : Listed, item : ItemTypes, old : RowTypes \cup {None}, at : {"read", "write"}]
\* Some pages, and whether each was open.
OpenTypes == UNION {[pages -> BOOLEAN] : pages \in SUBSET Pages}
EditTypes(t) ==
    [target : {t}, input : Inputs(t), was : OpenTypes, current : IF t = "provider" THEN Statuses ELSE RowTypes]
SyncTypes == [page : Pages, open : BOOLEAN]

\* The kinds of row are kept apart, a price and a moment are numbers, and None is
\* nothing that can be said.
ASSUME CatalogAssumption ==
    /\ Prices \subseteq Nat /\ Shared \subseteq Registrars
    /\ SourcePlans \cap KeyedPlans = {} /\ StaffPlans \cap Listed = {} /\ Plans \cap (Registrars \cup Offers) = {}
    /\ Registrars \cap Offers = {} /\ "provider" \notin Rows
    /\ \A s \in Scenes : s.time \in Nat /\ s.dates \subseteq Nat
    /\ None \notin Nat \cup Statuses \cup {"public"} /\ None \notin Pages
    /\ None \notin ItemTypes /\ None \notin RowTypes /\ None \notin JobTypes /\ None \notin SyncTypes
    /\ \A t \in Pages : None \notin EditTypes(t)

\* The provider of a row: the one that can be hidden, or one of its own.
Seller(r) == IF r \in Plans \cup Shared THEN provider ELSE "active"
Active(r) == row[r] # None /\ row[r].status = "active" /\ Seller(r) = "active"
Open(page) == IF page = "provider" THEN provider = "active" ELSE Active(page)
Fresh(r) == clock - row[r].at <= FreshFor

-----------------------------------------------------------------------------
(* What the sources say *)

\* A source is fetched at a moment of its own: a new price or the old one again.
Restate(r, price) ==
    /\ r \in scene.rows /\ price \in scene.prices /\ (feed[r] # None => feed[r].at < clock)
    /\ feed' = [feed EXCEPT ![r] = [price |-> price, at |-> clock, removed |-> FALSE,
                                    first |-> IF @ = None THEN clock ELSE @.first]]
    /\ due' = due \cup {r}
    /\ UNCHANGED <<scene, clock, database, job, edit, saves, discussion, search, restarts, history>>

Delist(r) ==
    /\ feed[r] # None /\ ~feed[r].removed
    /\ feed' = [feed EXCEPT ![r].removed = TRUE]
    /\ due' = due \cup {r}
    /\ UNCHANGED <<scene, clock, database, job, edit, saves, discussion, search, restarts, history>>

Tick == /\ clock < scene.time
        /\ clock' = clock + 1
        /\ UNCHANGED <<scene, feed, due, database, job, edit, saves, discussion, search, restarts, history>>

-----------------------------------------------------------------------------
(* Deliveries: fetch the item, read the row, write it *)

\* The pull takes a page of the change feed; a webhook fetches its item, at any
\* time and any number of times.
Fetch(w, r) ==
    /\ w \in scene.deliverers /\ job[w] = None
    /\ r \notin KeyedPlans /\ feed[r] # None /\ (w \in Ordered => r \in due)
    /\ job' = [job EXCEPT ![w] = [row |-> r, item |-> feed[r], old |-> None, at |-> "read"]]
    /\ UNCHANGED <<sources, database, edit, saves, discussion, search, restarts, history>>

\* A provider's own list, read with the owner's token: only what it sells, dated by the read.
FetchKeyed(w, r) ==
    /\ w \in scene.deliverers /\ job[w] = None
    /\ r \in KeyedPlans /\ feed[r] # None /\ ~feed[r].removed /\ clock < scene.time
    /\ clock' = clock + 1
    /\ job' = [job EXCEPT ![w] = [row |-> r, old |-> None, at |-> "read",
            item |-> [feed[r] EXCEPT !.at = clock', !.first = clock']]]
    /\ UNCHANGED <<scene, feed, due, database, edit, saves, discussion, search, restarts, history>>

\* A plan with a free or missing price is held, never listed.
PricedPlan(item) == item.price > 0
\* So is an ending with no price stated.
PricedEnding(item) == item.price > 0
\* An offer needs no price, but one posted too long ago is held.
RecentOffer(item) == clock - item.first <= OfferLife

Mapped(r, item) ==
    /\ r \in SourcePlans \cup KeyedPlans => PricedPlan(item)
    /\ r \in Registrars => PricedEnding(item)
    /\ r \in Offers => RecentOffer(item)

\* The cursor passes a change once it is applied or held; one made since stays due.
Passed(w, r, item) == IF w \in Ordered /\ feed[r] = item THEN due \ {r} ELSE due

\* An item fetched before the pull passed a removal or a new listing: a removal
\* does not date the row, so nothing tells that the item is the older.
Overtaken(r, item) == feed[r].removed # item.removed /\ r \notin due

\* A removed ending is gone and a removed offer hidden, in one statement; a
\* removed plan is held.
EndingRemoved(r) == IF row[r].status = "active" THEN "gone" ELSE row[r].status
OfferRemoved(r) == IF row[r].status = "active" THEN "hidden" ELSE row[r].status

Unlist(w) ==
    LET r == job[w].row IN
       /\ job[w] # None /\ job[w].at = "read" /\ job[w].item.removed
       /\ row' = IF row[r] = None \/ r \in Plans THEN row
                 ELSE [row EXCEPT ![r].status = IF r \in Registrars THEN EndingRemoved(r) ELSE OfferRemoved(r)]
       /\ raced' = IF Overtaken(r, job[w].item) THEN raced \cup {r} ELSE raced
       /\ due' = Passed(w, r, job[w].item)
       /\ job' = [job EXCEPT ![w] = None]
       /\ UNCHANGED <<scene, clock, feed, provider, changes, edit, saves, discussion, search, restarts, kept, astray>>

Held(r, item, old) == ~Mapped(r, item) \/ (old # None /\ item.at < old.at)

Hold(w) ==
    LET r == job[w].row IN
    /\ job[w] # None /\ job[w].at = "read" /\ ~job[w].item.removed
    /\ Held(r, job[w].item, row[r])
    /\ due' = Passed(w, r, job[w].item)
    /\ job' = [job EXCEPT ![w] = None]
    /\ UNCHANGED <<scene, clock, feed, database, edit, saves, discussion, search, restarts, history>>

Read(w) ==
    LET r == job[w].row IN
    /\ job[w] # None /\ job[w].at = "read" /\ ~job[w].item.removed
    /\ ~Held(r, job[w].item, row[r])
    /\ provider' = IF Seller(r) = None THEN "active" ELSE provider
    /\ job' = [job EXCEPT ![w].old = row[r], ![w].at = "write"]
    /\ UNCHANGED <<sources, row, changes, edit, saves, discussion, search, restarts, history>>

\* The change row is keyed by its moment; a second one at that moment is dropped.
Noted(r, at, before, after) ==
    IF before = after \/ at \in Times(changes[r]) \/ r \in Offers THEN changes
    ELSE [changes EXCEPT ![r] = @ \cup {[at |-> at, before |-> before, after |-> after]}]

\* Mutant: the status read before the price is written back with it.
StatusWritten_AsRead(r, old) == IF old.status = "gone" THEN "active" ELSE old.status
\* Mutant: a gone ending stays gone when it is sold again.
StatusWritten_Gone(r, old) == row[r].status

\* An update leaves the status alone, except that a gone ending is sold again.
StatusWritten(r, old) ==
    IF r \notin Registrars THEN row[r].status
    ELSE IF old.status = "gone" THEN "active" ELSE old.status

\* Price and date are the item's, the first-seen moment stays.
Written(r, item, old) == [row[r] EXCEPT !.price = item.price, !.at = item.at, !.status = StatusWritten(r, old)]

Update(w) ==
    LET r == job[w].row
        item == job[w].item
        old == job[w].old
    IN /\ job[w] # None /\ job[w].at = "write" /\ old # None
       /\ changes' = Noted(r, item.at, old.price, item.price)
       /\ row' = [row EXCEPT ![r] = Written(r, item, old)]
       /\ kept' = [kept EXCEPT ![r] = Over(At(item.at, item.price), @)]
       /\ raced' = IF row[r] = old /\ ~Overtaken(r, item) THEN raced ELSE raced \cup {r}
       /\ due' = Passed(w, r, item)
       /\ job' = [job EXCEPT ![w] = None]
       /\ UNCHANGED <<scene, clock, feed, provider, edit, saves, discussion, search, restarts, astray>>

\* Two first deliveries of one row: the second breaks a unique key and fails, and what is due stays due.
Insert(w) ==
    LET r == job[w].row
        item == job[w].item
    IN /\ job[w] # None /\ job[w].at = "write" /\ job[w].old = None
       /\ job' = [job EXCEPT ![w] = None]
       /\ IF row[r] # None THEN UNCHANGED <<row, kept, due, raced>>
          ELSE /\ row' = [row EXCEPT ![r] = [price |-> item.price, at |-> item.at,
                                             first |-> item.first, status |-> "active"]]
               /\ kept' = [kept EXCEPT ![r] = Over(At(item.first, item.price), At(item.at, item.price))]
               /\ raced' = IF Overtaken(r, item) THEN raced \cup {r} ELSE raced
               /\ due' = Passed(w, r, item)
       /\ UNCHANGED <<scene, clock, feed, provider, changes, edit, saves, discussion, search, restarts, astray>>

Deliver(w) == Unlist(w) \/ Hold(w) \/ Read(w) \/ Update(w) \/ Insert(w)

-----------------------------------------------------------------------------
(* Staff saves: one transaction that reads the row, then writes all of it *)

\* Mutant: hiding a provider forgets the pages of its plans.
Watched_Self(target) == [p \in {target} |-> Open(p)]

\* The pages whose discussion the save may open or close, and whether each is open now.
Watched(target) ==
    LET pages == IF target = "provider" THEN {"provider"} \cup {p \in Plans : row[p] # None} ELSE {target}
    IN [p \in pages |-> Open(p)]

SaveRead(e, target, input) ==
    /\ e \in scene.editors /\ edit[e] = None /\ saves < scene.saves
    /\ target \in {"provider"} \cup (Plans \cap scene.rows)
    /\ IF target = "provider" THEN provider # None ELSE row[target] # None
    /\ input.field = "price" => input.date \in scene.dates \cup {None}
    /\ edit' = [edit EXCEPT ![e] = [target |-> target, input |-> input, was |-> Watched(target),
                                    current |-> IF target = "provider" THEN provider ELSE row[target]]]
    /\ saves' = saves + 1
    /\ UNCHANGED <<sources, database, job, discussion, search, restarts, history>>

\* What the save leaves to the visibility queue; a page that another save added,
\* opened or closed since the read has lost a change.
Queued(target, was) ==
    /\ queue' = Append(queue, was)
    /\ astray' = astray \cup {p \in DOMAIN Watched(target) : p \notin DOMAIN was \/ Open(p) # was[p]}

SaveProvider(e) ==
    /\ edit[e] # None /\ edit[e].target = "provider"
    /\ provider' = edit[e].input.value
    /\ Queued("provider", edit[e].was)
    /\ edit' = [edit EXCEPT ![e] = None]
    /\ UNCHANGED <<sources, row, changes, job, saves, syncing, thread, view, search, restarts, kept, raced>>

\* A price in its turn: not dated before the last one nor after today, and not a
\* change at a moment that has one already, whose row would be dropped.
InTurn(r, at, price) ==
    /\ row[r].at <= at /\ at <= clock
    /\ at = row[r].at => price = row[r].price \/ at \notin Times(changes[r])

OrNow(date) == IF date = None THEN clock ELSE date

\* Every column is written from the row as it was read; a price given without a
\* date is dated now.
SavePlan(e) ==
    LET r == edit[e].target
        priced == edit[e].input.field = "price"
        at == IF priced THEN OrNow(edit[e].input.date) ELSE edit[e].current.at
        price == IF priced THEN edit[e].input.value ELSE edit[e].current.price
        status == IF priced THEN edit[e].current.status ELSE edit[e].input.value
    IN /\ edit[e] # None /\ r \in Plans
       /\ changes' = Noted(r, at, edit[e].current.price, price)
       /\ row' = [row EXCEPT ![r] = [@ EXCEPT !.price = price, !.at = at, !.status = status]]
       /\ kept' = [kept EXCEPT ![r] = Over(At(at, price), @)]
       /\ raced' = IF row[r] = edit[e].current /\ (priced => InTurn(r, at, price)) THEN raced ELSE raced \cup {r}
       /\ Queued(r, edit[e].was)
       /\ edit' = [edit EXCEPT ![e] = None]
       /\ UNCHANGED <<sources, provider, job, saves, syncing, thread, view, search, restarts>>

\* A new staff plan, first seen now whatever the date of its price.
Create(r, price, date) ==
    /\ scene.editors # {} /\ saves < scene.saves
    /\ r \in StaffPlans \cap scene.rows /\ row[r] = None /\ provider # None
    /\ date \in scene.dates \cup {None}
    /\ row' = [row EXCEPT ![r] = [price |-> price, at |-> OrNow(date), first |-> clock, status |-> "active"]]
    /\ kept' = [kept EXCEPT ![r] = At(clock, price)]
    /\ raced' = IF OrNow(date) = clock THEN raced ELSE raced \cup {r}
    /\ saves' = saves + 1
    /\ UNCHANGED <<sources, provider, changes, job, edit, discussion, search, restarts, astray>>

-----------------------------------------------------------------------------
(* Discussions *)

\* A viewer of an open page that has no thread yet asks Community for one.
ViewStart(page) ==
    /\ scene.viewers /\ view = None /\ Open(page) /\ thread[page] = None
    /\ view' = page
    /\ UNCHANGED <<sources, database, job, edit, saves, queue, syncing, thread, search, restarts, history>>

ViewCreate ==
    /\ view # None
    /\ thread' = [thread EXCEPT ![view] = "public"]
    /\ astray' = IF Open(view) THEN astray ELSE astray \cup {view}
    /\ view' = None
    /\ UNCHANGED <<sources, database, job, edit, saves, queue, syncing, search, restarts, kept, raced>>

\* The queue's head without one of its pages; an empty job is done.
Without(page) ==
    LET rest == Restrict(Head(queue), DOMAIN Head(queue) \ {page})
    IN IF DOMAIN rest = {} THEN Tail(queue) ELSE <<rest>> \o Tail(queue)

\* One job at a time, one page at a time: only a page that opened or closed is told.
SyncRead(page) ==
    /\ queue # <<>> /\ syncing = None /\ page \in DOMAIN Head(queue)
    /\ queue' = Without(page)
    /\ syncing' = IF Open(page) = Head(queue)[page] THEN None ELSE [page |-> page, open |-> Open(page)]
    /\ UNCHANGED <<sources, database, job, edit, saves, thread, view, search, restarts, history>>

\* Community answers, or does not: a failure is logged and swallowed.
SyncPut(answered) ==
    /\ syncing # None
    /\ thread' = IF thread[syncing.page] # None /\ answered
                 THEN [thread EXCEPT ![syncing.page] = IF syncing.open THEN "public" ELSE "hidden"]
                 ELSE thread
    /\ astray' = IF answered THEN astray ELSE astray \cup {syncing.page}
    /\ syncing' = None
    /\ UNCHANGED <<sources, database, job, edit, saves, queue, view, search, restarts, kept, raced>>

-----------------------------------------------------------------------------
(* Search *)

PlanSaid(r) == IF Active(r) THEN [price |-> row[r].price, at |-> row[r].at, fresh |-> Fresh(r)] ELSE None

\* How many plans, and the cheapest that is fresh.
ProviderSaid ==
    LET sold == {r \in Plans : row[r] # None /\ row[r].status = "active"}
        from == {row[r].price : r \in {s \in sold : Fresh(s)}}
    IN IF provider # "active" \/ sold = {} THEN None
       ELSE [plans |-> Cardinality(sold), from |-> IF from = {} THEN None ELSE Min(from)]

\* The cheapest registrar that sells the ending, and the latest check of any.
EndingSaid ==
    LET sold == {r \in Registrars : Active(r)}
    IN IF sold = {} THEN None
       ELSE [registrars |-> Cardinality(sold), register |-> Min({row[r].price : r \in sold}),
             at |-> Max({row[r].at : r \in {s \in Registrars : row[s] # None}})]

Types == <<"plan", "provider", "tld">>
\* Mutant: an unlisted entry is skipped and its old document stays.
Said_Listed(type) ==
    CASE type = "plan" -> [p \in {q \in Plans : Active(q)} |-> PlanSaid(p)]
      [] type = "provider" -> At("provider", ProviderSaid)
      [] OTHER -> At("ending", EndingSaid)

\* An unlisted entry is sent as a tombstone.
Said(type) ==
    CASE type = "plan" -> [p \in Plans |-> PlanSaid(p)]
      [] type = "provider" -> At("provider", ProviderSaid)
      [] OTHER -> At("ending", EndingSaid)

Level == Over(Said("plan"), Over(Said("provider"), Said("tld")))

\* After a pull, hourly, and after a staff change: one sweep may start while another runs.
SweepRead(s) ==
    LET left == IF sweep[s] = None THEN Types ELSE sweep[s].left IN
    /\ s \in scene.sweepers /\ (sweep[s] # None => sweep[s].read = None)
    /\ sweep' = [sweep EXCEPT ![s] = [left |-> Tail(left), read |-> Said(Head(left))]]
    /\ UNCHANGED <<sources, database, job, edit, saves, discussion, index, restarts, history>>

SweepSend(s) ==
    /\ sweep[s] # None /\ sweep[s].read # None
    /\ index' = Over(sweep[s].read, index)
    /\ sweep' = [sweep EXCEPT ![s] = IF sweep[s].left = <<>> THEN None ELSE [@ EXCEPT !.read = None]]
    /\ UNCHANGED <<sources, database, job, edit, saves, discussion, restarts, history>>

-----------------------------------------------------------------------------
(* The process is restarted: what it was doing is lost, and the queue with it *)

Restart ==
    /\ restarts < scene.restarts
    /\ restarts' = restarts + 1
    /\ job' = [w \in DOMAIN job |-> None] /\ edit' = [e \in DOMAIN edit |-> None]
    /\ sweep' = [s \in DOMAIN sweep |-> None]
    /\ queue' = <<>> /\ syncing' = None /\ view' = None
    /\ astray' = astray \cup (UNION {DOMAIN queue[i] : i \in DOMAIN queue})
                        \cup (IF syncing = None THEN {} ELSE {syncing.page})
    /\ UNCHANGED <<sources, database, saves, thread, index, kept, raced>>

-----------------------------------------------------------------------------
Deliverers == UNION {s.deliverers : s \in Scenes}
Editors == UNION {s.editors : s \in Scenes}
Sweepers == UNION {s.sweepers : s \in Scenes}

\* A scene names the rows and prices in play, who acts and the bounds; everything starts empty.
CatalogInit ==
    /\ scene \in Scenes /\ clock = 1 /\ restarts = 0 /\ saves = 0
    /\ feed = [r \in Listed |-> None] /\ due = {}
    /\ provider = (IF scene.rows \cap StaffPlans # {} THEN "active" ELSE None)
    /\ row = [r \in Rows |-> None] /\ changes = [r \in Rows |-> {}]
    /\ job = [w \in Deliverers |-> None] /\ edit = [e \in Editors |-> None]
    /\ queue = <<>> /\ syncing = None /\ view = None
    /\ thread = [p \in Pages |-> None]
    /\ sweep = [s \in Sweepers |-> None] /\ index = Level
    /\ kept = [r \in Rows |-> <<>>] /\ raced = {} /\ astray = {}

CatalogNext ==
    \/ Tick \/ Restart \/ ViewCreate
    \/ \E r \in Listed : Delist(r) \/ (\E p \in Prices : Restate(r, p))
    \/ \E w \in Deliverers : Deliver(w) \/ (\E r \in Listed : Fetch(w, r) \/ FetchKeyed(w, r))
    \/ \E e \in Editors : SaveProvider(e) \/ SavePlan(e)
                          \/ (\E t \in {"provider"} \cup Plans : \E i \in Inputs(t) : SaveRead(e, t, i))
    \/ \E r \in StaffPlans, p \in Prices \ {0}, date \in Dates \cup {None} : Create(r, p, date)
    \/ \E p \in Pages : ViewStart(p) \/ SyncRead(p)
    \/ \E answered \in BOOLEAN : SyncPut(answered)
    \/ \E s \in Sweepers : SweepRead(s) \/ SweepSend(s)

\* The timers keep pulling and sweeping; what was started goes on.
Pulling == \E w \in Deliverers \cap Ordered : Deliver(w) \/ (\E r \in Listed : Fetch(w, r))
Sweeping == \E s \in Sweepers : SweepRead(s) \/ SweepSend(s)

-----------------------------------------------------------------------------
(* Properties *)

\* A chart tells the prices the catalog accepted: at every moment since a plan
\* was first seen its trend holds the price last accepted by then, and an
\* ending's trend the lowest of them; the summary's last price is the row's.
\* (Of rows never written from a stale read nor priced out of turn;
\* server/catalog/trend.js.)
TrendsTell ==
    /\ \A r \in Plans \ raced : row[r] # None =>
        LET trend == PlanTrend(row[r], changes[r], clock)
        IN /\ \A t \in row[r].first .. clock : StepAt(trend, t, None) = StepAt(kept[r], t, None)
           /\ Summary(trend).now = row[r].price
    /\ LET sold == {r \in Registrars : Active(r)}
           trend == TldTrend(sold, row, changes, clock, None)
       IN sold # {} /\ sold \cap raced = {} =>
           \A t \in Min({row[r].first : r \in sold}) .. clock :
               StepAt(trend, t, None) = Lowest({kept[r] : r \in sold}, t, None)

\* Price changes are kept as a history per plan: no save and no delivery gives a
\* plan another price without a new row in its history (README.md:15).
PriceChangesKept ==
    [][\A r \in Plans : row[r] # None /\ row'[r].price # row[r].price => changes'[r] # changes[r]]_catalogVars

\* When the queue has drained, a page's discussion is public exactly while the
\* page is open, but for the pages whose thread missed a change: a save that
\* read before another's commit, a thread made after the page closed, a lost
\* queue, a refused call (server/catalog/store.js:107).
ThreadsFollow ==
    queue = <<>> /\ syncing = None =>
        \A p \in Pages \ astray : thread[p] # None => ((thread[p] = "public") <=> Open(p))

\* What staff hid stays hidden until staff show it: no delivery brings a hidden
\* plan or provider back, whatever it read before (server/catalog/store.js:148).
HiddenStays ==
    [][/\ \A r \in Plans : (row[r] # None /\ row[r].status = "hidden" /\ row'[r].status # "hidden")
            => \E e \in Editors : edit[e] # None /\ edit[e].target = r
       /\ (provider = "hidden" /\ provider' # "hidden")
            => \E e \in Editors : edit[e] # None /\ edit[e].target = "provider"]_catalogVars

\* The catalog follows its sources: once they rest, every row not written from
\* a stale read carries the last price stated, and an ending is listed exactly
\* when it is still sold (server/catalog/store.js:125, domain-store.js:36).
Follows(r) ==
    LET said == feed[r] IN
    said = None \/ r \in raced \/
        IF said.removed
        THEN r \in Registrars \cup Offers => row[r] = None \/ row[r].status # "active"
        ELSE Mapped(r, said) =>
            /\ row[r] # None /\ row[r].price = said.price /\ row[r].at = said.at
            /\ (r \in Registrars => row[r].status = "active")
RowsFollow ==
    scene.deliverers \cap Ordered # {} => <>[](\A r \in Listed \ KeyedPlans : Follows(r))

\* The index follows the pages: once nothing changes, every document in search
\* says what its page says, and an unlisted page has none, however the sweeps
\* overlapped (server/catalog/search-index.js:141).
IndexFollows == scene.sweepers # {} => <>[](index = Level)

\* What a visitor finds and reads follows what the sources and the staff said.
SiteFollows == RowsFollow /\ IndexFollows
=============================================================================
