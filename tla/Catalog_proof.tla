--------------------------- MODULE Catalog_proof ---------------------------
(***************************************************************************)
(* Proofs about Catalog and Benchmarks, for any rows, prices, deliverers,  *)
(* editors, viewers, links and posts: what staff hid, whose discussion is  *)
(* open, that a link is spent once, and what the charts tell.              *)
(***************************************************************************)
EXTENDS Benchmarks, FiniteSetTheorems, FunctionTheorems, TLAPS

(***************************************************************************)
(* The values of the catalog's variables.                                  *)
(***************************************************************************)
SourceTypes ==
    /\ scene \in Scenes /\ clock \in Nat
    /\ feed \in [Listed -> ItemTypes \cup {None}]
RowsTyped ==
    /\ provider \in {"active", "hidden", None}
    /\ row \in [Rows -> RowTypes \cup {None}]
JobsTyped == job \in [Deliverers -> JobTypes \cup {None}]
EditsTyped ==
    /\ DOMAIN edit = Editors
    /\ \A e \in Editors : edit[e] # None => edit[e].target \in Pages /\ edit[e] \in EditTypes(edit[e].target)
TalkTypes ==
    /\ queue \in Seq(OpenTypes)
    /\ syncing \in SyncTypes \cup {None}
    /\ thread \in [Pages -> {"public", "hidden", None}]
    /\ view \in Pages \cup {None}
HistoryTypes == raced \subseteq Rows /\ astray \subseteq Pages

CatalogTypeOK == SourceTypes /\ RowsTyped /\ JobsTyped /\ EditsTyped /\ TalkTypes /\ HistoryTypes

\* A page there is something to say of.
Known(page) == IF page = "provider" THEN provider # None ELSE row[page] # None

(***************************************************************************)
(* What is under way is about rows and pages that are there: no row is     *)
(* ever deleted, and a provider comes before its plans.                    *)
(***************************************************************************)
PlansHaveProvider == \A r \in Plans : row[r] # None => provider # None
JobsKnown ==
    \A w \in Deliverers : job[w] # None /\ job[w].at = "write" =>
        /\ job[w].row \in Plans => provider # None
        /\ job[w].old # None => row[job[w].row] # None
EditsKnown == \A e \in Editors : edit[e] # None => Known(edit[e].target) /\ \A p \in DOMAIN edit[e].was : Known(p)
QueueKnown == \A i \in DOMAIN queue : \A p \in DOMAIN queue[i] : Known(p)
TalkKnown ==
    /\ syncing # None => Known(syncing.page)
    /\ view # None => Known(view)
    /\ \A p \in Pages : thread[p] # None => Known(p)

PagesKnown == PlansHaveProvider /\ JobsKnown /\ EditsKnown /\ QueueKnown /\ TalkKnown

Typed == CatalogTypeOK /\ PagesKnown

(***************************************************************************)
(* Facts about the constants.                                              *)
(***************************************************************************)
LEMMA Kinds ==
    /\ Listed \subseteq Rows /\ Plans \subseteq Rows /\ Plans \subseteq Pages /\ "provider" \in Pages
    /\ "provider" \notin Rows /\ Registrars \subseteq Listed /\ Offers \subseteq Listed
    /\ \A r \in Registrars \cup Offers : r \notin Plans
    /\ \A r \in StaffPlans : r \notin Listed
    /\ \A r \in KeyedPlans : r \notin SourcePlans
  BY CatalogAssumption DEF Listed, Rows, Plans, Pages

LEMMA NoneApart ==
    /\ None \notin ItemTypes /\ None \notin RowTypes /\ None \notin JobTypes /\ None \notin SyncTypes
    /\ None # "active" /\ None # "hidden" /\ None # "public" /\ None \notin Pages /\ None \notin Nat
    /\ \A t \in Pages : None \notin EditTypes(t)
  BY CatalogAssumption DEF Statuses

\* A page stays known, and what is said of known pages with it.
LEMMA KnownStays ==
    ASSUME \A p \in Pages : Known(p) => Known(p)', PagesKnown, TalkTypes, EditsTyped
    PROVE  /\ UNCHANGED edit => EditsKnown'
           /\ UNCHANGED queue => QueueKnown'
           /\ UNCHANGED <<syncing, view, thread>> => TalkKnown'
<1>1. UNCHANGED edit => EditsKnown'
  <2>1. SUFFICES ASSUME UNCHANGED edit, NEW e \in Editors, edit[e] # None
                 PROVE  Known(edit[e].target)' /\ \A p \in DOMAIN edit[e].was : Known(p)'
    BY DEF EditsKnown
  <2>2. Known(edit[e].target) /\ \A p \in DOMAIN edit[e].was : Known(p)
    BY <2>1 DEF PagesKnown, EditsKnown
  <2>3. edit[e].target \in Pages /\ DOMAIN edit[e].was \subseteq Pages
    BY <2>1 DEF EditsTyped, EditTypes, OpenTypes
  <2>4. edit'[e] = edit[e]
    BY <2>1
  <2> QED BY <2>2, <2>3, <2>4
<1>2. UNCHANGED queue => QueueKnown'
  <2>1. SUFFICES ASSUME UNCHANGED queue, NEW i \in DOMAIN queue, NEW p \in DOMAIN queue[i]
                 PROVE  Known(p)'
    BY DEF QueueKnown
  <2>2. Known(p)
    BY <2>1 DEF PagesKnown, QueueKnown
  <2>3. p \in Pages
    BY <2>1 DEF TalkTypes, OpenTypes
  <2> QED BY <2>2, <2>3
<1>3. UNCHANGED <<syncing, view, thread>> => TalkKnown'
  BY NoneApart DEF PagesKnown, TalkKnown, TalkTypes, SyncTypes
<1> QED BY <1>1, <1>2, <1>3

(***************************************************************************)
(* The type invariant, one action at a time.                               *)
(***************************************************************************)
LEMMA TypedStart == CatalogInit => Typed
<1> SUFFICES ASSUME CatalogInit PROVE Typed
  OBVIOUS
<1>1. SourceTypes /\ RowsTyped /\ JobsTyped
  BY CatalogAssumption DEF CatalogInit, SourceTypes, RowsTyped, JobsTyped
<1>2. EditsTyped /\ TalkTypes /\ HistoryTypes
  BY DEF CatalogInit, EditsTyped, TalkTypes, HistoryTypes
<1>3. PagesKnown
  BY Kinds DEF CatalogInit, PagesKnown, PlansHaveProvider, JobsKnown, EditsKnown, QueueKnown, TalkKnown
<1> QED BY <1>1, <1>2, <1>3 DEF Typed, CatalogTypeOK

\* What the sources say.
LEMMA SourcesTyped ==
    ASSUME Typed, Tick \/ (\E r \in Listed : Delist(r) \/ (\E p \in Prices : Restate(r, p)))
    PROVE  Typed'
<1>1. SourceTypes'
  <2>1. CASE Tick
    BY <2>1 DEF Typed, CatalogTypeOK, SourceTypes, Tick
  <2>2. ASSUME NEW r \in Listed, Delist(r) PROVE SourceTypes'
    <3>1. feed[r] \in ItemTypes
      BY <2>2 DEF Typed, CatalogTypeOK, SourceTypes, Delist
    <3>2. [feed[r] EXCEPT !.removed = TRUE] \in ItemTypes
      BY <3>1 DEF ItemTypes
    <3> QED BY <2>2, <3>2 DEF Typed, CatalogTypeOK, SourceTypes, Delist
  <2>3. ASSUME NEW r \in Listed, NEW p \in Prices, Restate(r, p) PROVE SourceTypes'
    <3> DEFINE item == [price |-> p, at |-> clock, removed |-> FALSE,
                        first |-> IF feed[r] = None THEN clock ELSE feed[r].first]
    <3>1. item \in ItemTypes
      BY DEF Typed, CatalogTypeOK, SourceTypes, ItemTypes
    <3>2. feed' = [feed EXCEPT ![r] = item] /\ UNCHANGED <<scene, clock>>
      BY <2>3 DEF Restate
    <3> HIDE DEF item
    <3> QED BY <3>1, <3>2 DEF Typed, CatalogTypeOK, SourceTypes
  <2> QED BY <2>1, <2>2, <2>3
<1>2. UNCHANGED <<database, job, edit, discussion, history>>
  BY DEF Tick, Delist, Restate, history
<1> QED BY <1>1, <1>2 DEF Typed, CatalogTypeOK, RowsTyped, JobsTyped, EditsTyped, TalkTypes, HistoryTypes, PagesKnown,
             PlansHaveProvider, JobsKnown, EditsKnown, QueueKnown, TalkKnown, Known, database, discussion, history

\* A row written is typed, and no page is forgotten.
LEMMA RowPut ==
    ASSUME Typed, NEW r \in Rows, NEW new \in RowTypes, row' = [row EXCEPT ![r] = new], UNCHANGED provider
    PROVE  /\ RowsTyped' /\ row'[r] = new /\ \A s \in Rows : s # r => row'[s] = row[s]
           /\ \A s \in Rows : row[s] # None => row'[s] # None
           /\ \A p \in Pages : Known(p) => Known(p)'
<1>1. RowsTyped' /\ row'[r] = new /\ \A s \in Rows : s # r => row'[s] = row[s]
  BY DEF Typed, CatalogTypeOK, RowsTyped
<1>2. \A s \in Rows : row[s] # None => row'[s] # None
  BY <1>1, NoneApart
<1>3. \A p \in Pages : Known(p) => Known(p)'
  BY <1>2, Kinds DEF Known, Pages
<1> QED BY <1>1, <1>2, <1>3

\* A job whose row is written is done.
LEMMA JobDone ==
    ASSUME Typed, NEW w \in Deliverers, job' = [job EXCEPT ![w] = None], UNCHANGED provider,
           \A s \in Rows : row[s] # None => row'[s] # None
    PROVE  JobsTyped' /\ JobsKnown'
<1>1. /\ job \in [Deliverers -> JobTypes \cup {None}] /\ job'[w] = None
      /\ \A v \in Deliverers : v # w => job'[v] = job[v]
  BY DEF Typed, CatalogTypeOK, JobsTyped
<1>2. JobsTyped'
  BY <1>1 DEF Typed, CatalogTypeOK, JobsTyped
<1>3. JobsKnown'
  <2>1. SUFFICES ASSUME NEW v \in Deliverers, job'[v] # None, job'[v].at = "write"
                 PROVE  /\ job'[v].row \in Plans => provider # None
                        /\ job'[v].old # None => row'[job'[v].row] # None
    BY DEF JobsKnown
  <2>2. v # w /\ job'[v] = job[v] /\ job[v] \in JobTypes
    BY <1>1, <2>1
  <2>3. job[v].row \in Rows
    BY <2>2, Kinds DEF JobTypes
  <2> QED BY <2>1, <2>2, <2>3 DEF Typed, PagesKnown, JobsKnown
<1> QED BY <1>2, <1>3

LEMMA FetchTyped ==
    ASSUME Typed, NEW w \in Deliverers, NEW r \in Listed, Fetch(w, r) \/ FetchKeyed(w, r)
    PROVE  Typed'
<1>1. /\ feed[r] \in ItemTypes /\ clock \in Nat /\ clock' \in Nat
      /\ UNCHANGED <<scene, feed, database, edit, discussion, history>>
  BY DEF Typed, CatalogTypeOK, SourceTypes, Fetch, FetchKeyed, sources
<1>2. PICK new \in JobTypes : new.at = "read" /\ job' = [job EXCEPT ![w] = new]
  <2>1. CASE Fetch(w, r)
    <3>1. [row |-> r, item |-> feed[r], old |-> None, at |-> "read"] \in JobTypes
      BY <1>1 DEF JobTypes
    <3> QED BY <2>1, <3>1 DEF Fetch
  <2>2. CASE FetchKeyed(w, r)
    <3> DEFINE item == [feed[r] EXCEPT !.at = clock', !.first = clock']
    <3>1. item \in ItemTypes
      BY <1>1 DEF ItemTypes
    <3> HIDE DEF item
    <3>2. [row |-> r, old |-> None, at |-> "read", item |-> item] \in JobTypes
      BY <3>1 DEF JobTypes
    <3> QED BY <2>2, <3>2 DEF FetchKeyed, item
  <2> QED BY <2>1, <2>2
<1>3. /\ job \in [Deliverers -> JobTypes \cup {None}] /\ job'[w] = new
      /\ \A v \in Deliverers : v # w => job'[v] = job[v]
  BY <1>2 DEF Typed, CatalogTypeOK, JobsTyped
<1>4. JobsTyped' /\ JobsKnown'
  BY <1>1, <1>2, <1>3 DEF JobsTyped, Typed, PagesKnown, JobsKnown, database
<1> QED BY <1>1, <1>4 DEF Typed, CatalogTypeOK, SourceTypes, RowsTyped, EditsTyped, TalkTypes, HistoryTypes, PagesKnown,
             PlansHaveProvider, EditsKnown, QueueKnown, TalkKnown, Known, database, discussion, history

LEMMA UnlistTyped == ASSUME Typed, NEW w \in Deliverers, Unlist(w) PROVE Typed'
<1> DEFINE r == job[w].row
           new == [row[r] EXCEPT !.status = IF r \in Registrars THEN EndingRemoved(r) ELSE OfferRemoved(r)]
<1>1. job[w] \in JobTypes /\ r \in Listed /\ r \in Rows
  BY Kinds DEF Unlist, Typed, CatalogTypeOK, JobsTyped, JobTypes
<1>2. row \in [Rows -> RowTypes \cup {None}]
  BY DEF Typed, CatalogTypeOK, RowsTyped
<1>3. /\ job' = [job EXCEPT ![w] = None] /\ UNCHANGED <<scene, clock, feed, provider, edit, discussion, astray>>
      /\ raced' \in {raced, raced \cup {r}}
      /\ row' = IF row[r] = None \/ r \in Plans THEN row ELSE [row EXCEPT ![r] = new]
  BY DEF Unlist
<1>4. row[r] # None => new \in RowTypes
  <2>1. ASSUME row[r] # None PROVE EndingRemoved(r) \in Statuses /\ OfferRemoved(r) \in Statuses
    BY <1>1, <1>2, <2>1 DEF EndingRemoved, OfferRemoved, RowTypes, Statuses
  <2> QED BY <1>1, <1>2, <2>1 DEF RowTypes
<1> HIDE DEF new
<1>5. /\ RowsTyped' /\ \A s \in Rows : row[s] # None => row'[s] # None
      /\ \A p \in Pages : Known(p) => Known(p)'
      /\ \A s \in Plans : row'[s] = row[s]
  <2>1. CASE row[r] = None \/ r \in Plans
    BY <1>3, <2>1 DEF Typed, CatalogTypeOK, RowsTyped, Known
  <2>2. CASE ~(row[r] = None \/ r \in Plans)
    <3>1. row' = [row EXCEPT ![r] = new] /\ new \in RowTypes
      BY <1>3, <1>4, <2>2
    <3>2. UNCHANGED provider
      BY <1>3
    <3> HIDE DEF r
    <3> QED BY <1>1, <3>1, <3>2, <2>2, RowPut, Kinds
  <2> QED BY <2>1, <2>2
<1> HIDE DEF r
<1>6. JobsTyped' /\ JobsKnown'
  BY <1>3, <1>5, JobDone
<1>7. EditsKnown' /\ QueueKnown' /\ TalkKnown'
  BY <1>3, <1>5, KnownStays DEF Typed, CatalogTypeOK, discussion
<1>8. SourceTypes' /\ EditsTyped' /\ TalkTypes' /\ HistoryTypes' /\ PlansHaveProvider'
  BY <1>1, <1>3, <1>5 DEF Typed, CatalogTypeOK, SourceTypes, EditsTyped, TalkTypes, HistoryTypes, discussion, PagesKnown,
     PlansHaveProvider
<1> QED BY <1>5, <1>6, <1>7, <1>8 DEF Typed, CatalogTypeOK, PagesKnown

LEMMA HoldTyped == ASSUME Typed, NEW w \in Deliverers, Hold(w) PROVE Typed'
<1>1. job' = [job EXCEPT ![w] = None] /\ UNCHANGED <<scene, clock, feed, database, edit, discussion, history>>
  BY DEF Hold
<1>2. JobsTyped' /\ JobsKnown'
  BY <1>1, JobDone DEF database
<1> QED BY <1>1, <1>2 DEF Typed, CatalogTypeOK, SourceTypes, RowsTyped, EditsTyped, TalkTypes, HistoryTypes, PagesKnown,
             PlansHaveProvider, EditsKnown, QueueKnown, TalkKnown, Known, database, discussion, history

LEMMA ReadTyped == ASSUME Typed, NEW w \in Deliverers, Read(w) PROVE Typed'
<1> DEFINE r == job[w].row
           new == [job[w] EXCEPT !.old = row[r], !.at = "write"]
<1>1. job[w] \in JobTypes /\ r \in Listed /\ r \in Rows /\ row[r] \in RowTypes \cup {None}
  BY Kinds DEF Read, Typed, CatalogTypeOK, JobsTyped, JobTypes, RowsTyped
<1>2. /\ job' = [job EXCEPT ![w] = new] /\ UNCHANGED <<scene, clock, feed, row, edit, discussion, history>>
      /\ provider' = IF Seller(r) = None THEN "active" ELSE provider
  BY <1>1 DEF Read, sources, Typed, CatalogTypeOK, JobsTyped, JobTypes
<1>3. new \in JobTypes /\ new.row = r /\ new.old = row[r]
  BY <1>1 DEF JobTypes
<1>4. /\ provider' \in {"active", "hidden", None} /\ (provider # None => provider' # None)
      /\ r \in Plans => provider' # None
  BY <1>2, NoneApart DEF Seller, Typed, CatalogTypeOK, RowsTyped
<1>5. \A p \in Pages : Known(p) => Known(p)'
  BY <1>2, <1>4 DEF Known
<1>6. JobsTyped' /\ \A v \in Deliverers : job'[v] = IF v = w THEN new ELSE job[v]
  <2> HIDE DEF new
  <2> QED BY <1>2, <1>3 DEF Typed, CatalogTypeOK, JobsTyped
<1>7. JobsKnown'
  <2>1. SUFFICES ASSUME NEW v \in Deliverers, job'[v] # None, job'[v].at = "write"
                 PROVE  /\ job'[v].row \in Plans => provider' # None
                        /\ job'[v].old # None => row'[job'[v].row] # None
    BY DEF JobsKnown
  <2>2. CASE v = w
    <3> HIDE DEF new
    <3> QED BY <1>2, <1>3, <1>4, <1>6, <2>2
  <2>3. CASE v # w
    <3>1. job'[v] = job[v]
      BY <1>6, <2>3
    <3>2. /\ job[v].row \in Plans => provider # None
          /\ job[v].old # None => row[job[v].row] # None
      BY <2>1, <3>1 DEF Typed, PagesKnown, JobsKnown
    <3> QED BY <1>2, <1>4, <3>1, <3>2
  <2> QED BY <2>2, <2>3
<1>8. EditsKnown' /\ QueueKnown' /\ TalkKnown'
  BY <1>2, <1>5, KnownStays DEF Typed, CatalogTypeOK, discussion
<1>9. SourceTypes' /\ RowsTyped' /\ EditsTyped' /\ TalkTypes' /\ HistoryTypes' /\ PlansHaveProvider'
  BY <1>2, <1>4 DEF Typed, CatalogTypeOK, SourceTypes, RowsTyped, EditsTyped, TalkTypes, HistoryTypes, discussion, history,
     PagesKnown, PlansHaveProvider
<1> QED BY <1>6, <1>7, <1>8, <1>9 DEF Typed, CatalogTypeOK, PagesKnown

LEMMA UpdateTyped == ASSUME Typed, NEW w \in Deliverers, Update(w) PROVE Typed'
<1> DEFINE r == job[w].row
           new == Written(r, job[w].item, job[w].old)
<1>1. job[w] \in JobTypes /\ r \in Listed /\ r \in Rows /\ job[w].old # None /\ job[w].at = "write"
  BY Kinds DEF Update, Typed, CatalogTypeOK, JobsTyped, JobTypes
<1>2. row[r] \in RowTypes /\ job[w].item \in ItemTypes /\ job[w].old \in RowTypes
  BY <1>1, NoneApart DEF Typed, CatalogTypeOK, RowsTyped, PagesKnown, JobsKnown, JobTypes
<1>3. new \in RowTypes
  <2>1. StatusWritten(r, job[w].old) \in Statuses
    BY <1>2 DEF StatusWritten, RowTypes, Statuses
  <2> QED BY <1>2, <2>1 DEF Written, RowTypes, ItemTypes
<1>4. /\ row' = [row EXCEPT ![r] = new] /\ job' = [job EXCEPT ![w] = None]
      /\ UNCHANGED <<scene, clock, feed, provider, edit, discussion, astray>> /\ raced' \in {raced, raced \cup {r}}
  BY DEF Update
<1> HIDE DEF new, r
<1>5. RowsTyped' /\ (\A s \in Rows : row[s] # None => row'[s] # None) /\ \A p \in Pages : Known(p) => Known(p)'
  BY <1>1, <1>3, <1>4, RowPut
<1>6. JobsTyped' /\ JobsKnown'
  BY <1>4, <1>5, JobDone
<1>7. EditsKnown' /\ QueueKnown' /\ TalkKnown'
  BY <1>4, <1>5, KnownStays DEF Typed, CatalogTypeOK, discussion
<1>8. PlansHaveProvider'
  <2>1. r \in Plans => provider # None
    BY <1>1, <1>2, NoneApart DEF Typed, PagesKnown, JobsKnown, r
  <2> QED BY <1>1, <1>3, <1>4, <2>1, RowPut DEF PlansHaveProvider, Typed, PagesKnown
<1>9. SourceTypes' /\ EditsTyped' /\ TalkTypes' /\ HistoryTypes'
  BY <1>1, <1>4 DEF Typed, CatalogTypeOK, SourceTypes, EditsTyped, TalkTypes, HistoryTypes, discussion
<1> QED BY <1>5, <1>6, <1>7, <1>8, <1>9 DEF Typed, CatalogTypeOK, PagesKnown

LEMMA InsertTyped == ASSUME Typed, NEW w \in Deliverers, Insert(w) PROVE Typed'
<1> DEFINE r == job[w].row
           item == job[w].item
           new == [price |-> item.price, at |-> item.at, first |-> item.first, status |-> "active"]
<1>1. job[w] \in JobTypes /\ r \in Listed /\ r \in Rows /\ job[w].at = "write" /\ job[w] # None
  BY Kinds DEF Insert, Typed, CatalogTypeOK, JobsTyped, JobTypes
<1>2. new \in RowTypes
  BY <1>1 DEF JobTypes, ItemTypes, RowTypes, Statuses
<1>3. /\ job' = [job EXCEPT ![w] = None]
      /\ UNCHANGED <<scene, clock, feed, provider, edit, discussion, astray>> /\ raced' \in {raced, raced \cup {r}}
      /\ row' = row \/ (row[r] = None /\ row' = [row EXCEPT ![r] = new])
  BY DEF Insert
<1>4. r \in Plans => provider # None
  BY <1>1 DEF Typed, PagesKnown, JobsKnown
<1> HIDE DEF new, r, item
<1>5. /\ RowsTyped' /\ (\A s \in Rows : row[s] # None => row'[s] # None) /\ \A p \in Pages : Known(p) => Known(p)'
      /\ PlansHaveProvider'
  <2>1. CASE row' = row
    BY <1>3, <2>1 DEF Typed, CatalogTypeOK, RowsTyped, Known, PagesKnown, PlansHaveProvider
  <2>2. CASE row[r] = None /\ row' = [row EXCEPT ![r] = new]
    <3>1. UNCHANGED provider
      BY <1>3
    <3>2. /\ RowsTyped' /\ (\A s \in Rows : row[s] # None => row'[s] # None)
          /\ (\A p \in Pages : Known(p) => Known(p)') /\ \A s \in Rows : s # r => row'[s] = row[s]
      BY <1>1, <1>2, <2>2, <3>1, RowPut
    <3>3. PlansHaveProvider'
      BY <1>4, <3>1, <3>2, Kinds DEF Typed, PagesKnown, PlansHaveProvider
    <3> QED BY <3>2, <3>3
  <2> QED BY <1>3, <2>1, <2>2
<1>6. JobsTyped' /\ JobsKnown'
  BY <1>3, <1>5, JobDone
<1>7. EditsKnown' /\ QueueKnown' /\ TalkKnown'
  BY <1>3, <1>5, KnownStays DEF Typed, CatalogTypeOK, discussion
<1>8. SourceTypes' /\ EditsTyped' /\ TalkTypes' /\ HistoryTypes'
  BY <1>1, <1>3 DEF Typed, CatalogTypeOK, SourceTypes, EditsTyped, TalkTypes, HistoryTypes, discussion
<1> QED BY <1>5, <1>6, <1>7, <1>8 DEF Typed, CatalogTypeOK, PagesKnown

\* The pages a save watches are known, and each is open or not.
LEMMA WatchedTyped ==
    ASSUME Typed, NEW t \in Pages, Known(t)
    PROVE  Watched(t) \in OpenTypes /\ \A p \in DOMAIN Watched(t) : Known(p)
<1> DEFINE pages == IF t = "provider" THEN {"provider"} \cup {p \in Plans : row[p] # None} ELSE {t}
<1>1. pages \subseteq Pages /\ \A p \in pages : Known(p)
  <2>1. ASSUME t = "provider", NEW p \in Plans, row[p] # None PROVE Known(p)
    BY <2>1, Kinds DEF Known
  <2> QED BY <2>1, Kinds DEF Pages
<1>2. Watched(t) = [p \in pages |-> Open(p)]
  BY DEF Watched
<1>3. \A p \in pages : Open(p) \in BOOLEAN
  BY DEF Open, Active
<1> HIDE DEF pages
<1>4. [p \in pages |-> Open(p)] \in [pages -> BOOLEAN]
  BY <1>3
<1>5. DOMAIN Watched(t) = pages
  BY <1>2
<1>6. Watched(t) \in OpenTypes
  BY <1>1, <1>2, <1>4 DEF OpenTypes
<1> QED BY <1>1, <1>5, <1>6

LEMMA SaveReadTyped ==
    ASSUME Typed, NEW e \in Editors, NEW t \in {"provider"} \cup Plans, NEW i \in Inputs(t), SaveRead(e, t, i)
    PROVE  Typed'
<1> DEFINE was == Watched(t)
           current == IF t = "provider" THEN provider ELSE row[t]
           new == [target |-> t, input |-> i, was |-> was, current |-> current]
<1>1. t \in Pages /\ Known(t) /\ edit' = [edit EXCEPT ![e] = new]
      /\ UNCHANGED <<sources, database, job, discussion, history>>
  BY Kinds DEF SaveRead, Known, Pages
<1>2. was \in OpenTypes /\ \A p \in DOMAIN was : Known(p)
  BY <1>1, WatchedTyped
<1>3. current \in IF t = "provider" THEN Statuses ELSE RowTypes
  BY <1>1, Kinds DEF Typed, CatalogTypeOK, RowsTyped, Statuses, Known
<1> HIDE DEF was, current
<1>4. new \in EditTypes(t)
  BY <1>2, <1>3 DEF EditTypes
<1>5. new.target = t /\ new.was = was
  OBVIOUS
<1>6. EditsTyped' /\ \A d \in Editors : edit'[d] = IF d = e THEN new ELSE edit[d]
  <2> HIDE DEF new
  <2> QED BY <1>1, <1>4, <1>5 DEF Typed, CatalogTypeOK, EditsTyped
<1>7. EditsKnown'
  <2>1. SUFFICES ASSUME NEW d \in Editors, edit'[d] # None
                 PROVE  Known(edit'[d].target) /\ \A p \in DOMAIN edit'[d].was : Known(p)
    BY <1>1 DEF EditsKnown, Known, database
  <2>2. CASE d = e
    <3>1. edit'[d] = new
      BY <1>6, <2>2
    <3> HIDE DEF new
    <3> QED BY <1>1, <1>2, <1>5, <3>1
  <2>3. CASE d # e
    <3>1. edit'[d] = edit[d]
      BY <1>6, <2>3
    <3> QED BY <2>1, <3>1 DEF Typed, PagesKnown, EditsKnown
  <2> QED BY <2>2, <2>3
<1> QED BY <1>1, <1>6, <1>7 DEF Typed, CatalogTypeOK, SourceTypes, RowsTyped, JobsTyped, TalkTypes, HistoryTypes, PagesKnown,
             PlansHaveProvider, JobsKnown, QueueKnown, TalkKnown, Known, sources, database, discussion, history

\* A save leaves the pages it watched to the queue.
LEMMA QueuedTyped ==
    ASSUME Typed, NEW e \in Editors, edit[e] # None, Queued(edit[e].target, edit[e].was),
           edit' = [edit EXCEPT ![e] = None], UNCHANGED <<syncing, view, thread>>,
           \A p \in Pages : Known(p) => Known(p)'
    PROVE  /\ EditsTyped' /\ TalkTypes' /\ EditsKnown' /\ QueueKnown' /\ TalkKnown' /\ astray' \subseteq Pages
           /\ queue' = Append(queue, edit[e].was)
<1> DEFINE was == edit[e].was
           t == edit[e].target
<1>1. t \in Pages /\ was \in OpenTypes /\ Known(t) /\ \A p \in DOMAIN was : Known(p)
  BY DEF Typed, CatalogTypeOK, EditsTyped, EditTypes, PagesKnown, EditsKnown
<1>2. /\ queue \in Seq(OpenTypes) /\ queue' = Append(queue, was)
      /\ astray' = astray \cup {p \in DOMAIN Watched(t) : p \notin DOMAIN was \/ Open(p) # was[p]}
  BY DEF Queued, Typed, CatalogTypeOK, TalkTypes
<1>3. DOMAIN Watched(t) \subseteq Pages
  BY <1>1, WatchedTyped DEF OpenTypes
<1> HIDE DEF was, t
<1>4. astray' \subseteq Pages
  BY <1>2, <1>3 DEF Typed, CatalogTypeOK, HistoryTypes
<1>5. TalkTypes'
  BY <1>1, <1>2 DEF Typed, CatalogTypeOK, TalkTypes
<1>6. DOMAIN was \subseteq Pages
  BY <1>1 DEF OpenTypes
<1>7. QueueKnown'
  <2>1. SUFFICES ASSUME NEW i \in DOMAIN queue', NEW p \in DOMAIN queue'[i] PROVE Known(p)'
    BY DEF QueueKnown
  <2>2. Known(p) /\ p \in Pages
    <3>1. i \in DOMAIN queue \/ queue'[i] = was
      BY <1>1, <1>2
    <3>2. CASE i \in DOMAIN queue
      <4>1. queue'[i] = queue[i] /\ queue[i] \in OpenTypes
        BY <1>1, <1>2, <3>2
      <4>2. DOMAIN queue[i] \subseteq Pages
        BY <4>1 DEF OpenTypes
      <4> QED BY <2>1, <3>2, <4>1, <4>2 DEF Typed, PagesKnown, QueueKnown
    <3> QED BY <1>1, <1>6, <2>1, <3>1, <3>2
  <2> QED BY <2>2
<1>8. EditsTyped' /\ \A d \in Editors : edit'[d] = IF d = e THEN None ELSE edit[d]
  BY DEF Typed, CatalogTypeOK, EditsTyped
<1>9. EditsKnown'
  <2>1. SUFFICES ASSUME NEW d \in Editors, edit'[d] # None,
                        NEW page, page = edit'[d].target \/ page \in DOMAIN edit'[d].was
                 PROVE  Known(page)'
    BY DEF EditsKnown, Known
  <2>2. edit'[d] = edit[d]
    BY <1>8, <2>1
  <2>3. edit[d].target \in Pages /\ edit[d].was \in OpenTypes
    BY <2>1, <2>2 DEF Typed, CatalogTypeOK, EditsTyped, EditTypes
  <2>4. DOMAIN edit[d].was \subseteq Pages
    BY <2>3 DEF OpenTypes
  <2>5. Known(edit[d].target) /\ \A p \in DOMAIN edit[d].was : Known(p)
    BY <2>1, <2>2 DEF Typed, PagesKnown, EditsKnown
  <2>6. Known(page) /\ page \in Pages
    BY <2>1, <2>2, <2>3, <2>4, <2>5
  <2> QED BY <2>6
<1>10. TalkKnown'
  BY KnownStays DEF Typed, CatalogTypeOK
<1> QED BY <1>2, <1>4, <1>5, <1>7, <1>8, <1>9, <1>10 DEF was

LEMMA SaveProviderTyped == ASSUME Typed, NEW e \in Editors, SaveProvider(e) PROVE Typed'
<1>1. /\ edit[e] # None /\ edit[e].target = "provider" /\ provider' = edit[e].input.value
      /\ Queued(edit[e].target, edit[e].was) /\ edit' = [edit EXCEPT ![e] = None]
      /\ UNCHANGED <<scene, clock, feed, row, job, syncing, view, thread, raced>>
  BY DEF SaveProvider, sources
<1>2. provider' \in {"active", "hidden"}
  BY <1>1, CatalogAssumption DEF Typed, CatalogTypeOK, EditsTyped, EditTypes, Inputs, Rows
<1>3. /\ \A p \in Pages : Known(p) => Known(p)'
      /\ RowsTyped' /\ JobsTyped' /\ JobsKnown' /\ PlansHaveProvider'
  BY <1>1, <1>2, NoneApart DEF Known, Typed, CatalogTypeOK, RowsTyped, JobsTyped, PagesKnown, JobsKnown, PlansHaveProvider
<1>4. EditsTyped' /\ TalkTypes' /\ EditsKnown' /\ QueueKnown' /\ TalkKnown' /\ astray' \subseteq Pages
  BY <1>1, <1>3, QueuedTyped
<1> QED BY <1>1, <1>3, <1>4 DEF Typed, CatalogTypeOK, SourceTypes, HistoryTypes, PagesKnown

\* What a save writes over the row of a plan.
Saved(e, r) ==
    LET priced == edit[e].input.field = "price"
    IN [row[r] EXCEPT !.price = IF priced THEN edit[e].input.value ELSE edit[e].current.price,
                      !.at = IF priced THEN OrNow(edit[e].input.date) ELSE edit[e].current.at,
                      !.status = IF priced THEN edit[e].current.status ELSE edit[e].input.value]

LEMMA SavePlanWrites ==
    ASSUME Typed, NEW e \in Editors, SavePlan(e)
    PROVE  LET r == edit[e].target IN
           /\ r \in Plans /\ r \in Rows /\ row[r] \in RowTypes /\ Saved(e, r) \in RowTypes /\ edit[e] # None
           /\ edit[e].current \in RowTypes /\ edit[e].input \in Inputs(r)
           /\ row' = [row EXCEPT ![r] = Saved(e, r)]
<1> DEFINE r == edit[e].target
<1>1. edit[e] # None /\ r \in Plans /\ r \in Rows /\ r # "provider" /\ r \in Pages
  BY Kinds DEF SavePlan
<1>2. edit[e] \in EditTypes(r) /\ Known(r)
  BY <1>1 DEF Typed, CatalogTypeOK, EditsTyped, PagesKnown, EditsKnown
<1>3. edit[e].current \in RowTypes /\ edit[e].input \in Inputs(r)
  BY <1>1, <1>2 DEF EditTypes
<1>4. row[r] \in RowTypes
  BY <1>1, <1>2 DEF Known, Typed, CatalogTypeOK, RowsTyped
<1>5. /\ edit[e].input.field = "price" => edit[e].input.value \in Prices /\ OrNow(edit[e].input.date) \in Nat
      /\ edit[e].input.field # "price" => edit[e].input.value \in Statuses
  <2>1. Dates \subseteq Nat /\ clock \in Nat
    BY CatalogAssumption DEF Dates, Typed, CatalogTypeOK, SourceTypes
  <2>2. /\ edit[e].input.field = "price" => edit[e].input.value \in Prices /\ edit[e].input.date \in Dates \cup {None}
        /\ edit[e].input.field # "price" => edit[e].input.value \in Statuses
    BY <1>3 DEF Inputs, Statuses
  <2>3. edit[e].input.date \in Dates \cup {None} => OrNow(edit[e].input.date) \in Nat
    BY <2>1 DEF OrNow
  <2> QED BY <2>2, <2>3
<1>7. row' = [row EXCEPT ![r] = Saved(e, r)]
  BY DEF SavePlan, Saved
<1>8. Saved(e, r) \in RowTypes
  <2>1. CASE edit[e].input.field = "price"
    BY <1>3, <1>4, <1>5, <2>1 DEF Saved, RowTypes
  <2>2. CASE edit[e].input.field # "price"
    BY <1>3, <1>4, <1>5, <2>2 DEF Saved, RowTypes
  <2> QED BY <2>1, <2>2
<1> QED BY <1>1, <1>3, <1>4, <1>7, <1>8

LEMMA SavePlanTyped == ASSUME Typed, NEW e \in Editors, SavePlan(e) PROVE Typed'
<1> DEFINE r == edit[e].target
           new == Saved(e, r)
<1>1. /\ r \in Plans /\ r \in Rows /\ row[r] \in RowTypes /\ new \in RowTypes /\ edit[e] # None
      /\ row' = [row EXCEPT ![r] = new]
  BY SavePlanWrites
<1>2. /\ Queued(r, edit[e].was) /\ edit' = [edit EXCEPT ![e] = None]
      /\ UNCHANGED <<scene, clock, feed, provider, job, syncing, view, thread>> /\ raced' \in {raced, raced \cup {r}}
  BY DEF SavePlan, sources
<1> HIDE DEF new, r
<1>3. /\ RowsTyped' /\ (\A s \in Rows : row[s] # None => row'[s] # None)
      /\ (\A p \in Pages : Known(p) => Known(p)') /\ \A s \in Rows : s # r => row'[s] = row[s]
  BY <1>1, <1>2, RowPut
<1>4. JobsTyped' /\ JobsKnown'
  <2>1. \A w \in Deliverers : job[w] # None => job[w].row \in Rows
    BY Kinds DEF Typed, CatalogTypeOK, JobsTyped, JobTypes
  <2> QED BY <1>2, <1>3, <2>1 DEF Typed, CatalogTypeOK, JobsTyped, PagesKnown, JobsKnown
<1>5. EditsTyped' /\ TalkTypes' /\ EditsKnown' /\ QueueKnown' /\ TalkKnown' /\ astray' \subseteq Pages
  <2>1. Queued(edit[e].target, edit[e].was)
    BY <1>2 DEF r
  <2> QED BY <1>1, <1>2, <1>3, <2>1, QueuedTyped
<1>6. PlansHaveProvider'
  <2>1. row[r] # None
    BY <1>1, NoneApart
  <2> QED BY <1>1, <1>2, <1>3, <2>1, Kinds DEF Typed, PagesKnown, PlansHaveProvider
<1> QED BY <1>1, <1>2, <1>3, <1>4, <1>5, <1>6 DEF Typed, CatalogTypeOK, SourceTypes, HistoryTypes, PagesKnown

LEMMA CreateTyped ==
    ASSUME Typed, NEW r \in StaffPlans, NEW price \in Prices \ {0}, NEW date \in Dates \cup {None}, Create(r, price, date)
    PROVE  Typed'
<1> DEFINE new == [price |-> price, at |-> OrNow(date), first |-> clock, status |-> "active"]
<1>1. new \in RowTypes
  <2>1. clock \in Nat /\ OrNow(date) \in Nat
    BY CatalogAssumption DEF Dates, OrNow, Typed, CatalogTypeOK, SourceTypes
  <2> QED BY <2>1 DEF RowTypes, Statuses
<1>2. /\ r \in Plans /\ r \in Rows /\ provider # None /\ row' = [row EXCEPT ![r] = new]
      /\ UNCHANGED <<scene, clock, feed, provider, job, edit, discussion, astray>> /\ raced' \in {raced, raced \cup {r}}
  BY Kinds DEF Create, Plans, sources
<1> HIDE DEF new
<1>3. /\ RowsTyped' /\ (\A s \in Rows : row[s] # None => row'[s] # None)
      /\ (\A p \in Pages : Known(p) => Known(p)') /\ \A s \in Rows : s # r => row'[s] = row[s]
  BY <1>1, <1>2, RowPut
<1>4. JobsTyped' /\ JobsKnown'
  <2>1. \A w \in Deliverers : job[w] # None => job[w].row \in Rows
    BY Kinds DEF Typed, CatalogTypeOK, JobsTyped, JobTypes
  <2> QED BY <1>2, <1>3, <2>1 DEF Typed, CatalogTypeOK, JobsTyped, PagesKnown, JobsKnown
<1>5. EditsKnown' /\ QueueKnown' /\ TalkKnown'
  BY <1>2, <1>3, KnownStays DEF Typed, CatalogTypeOK, discussion
<1> QED BY <1>2, <1>3, <1>4, <1>5 DEF Typed, CatalogTypeOK, SourceTypes, HistoryTypes, EditsTyped, TalkTypes, discussion,
   PagesKnown, PlansHaveProvider

LEMMA ViewTyped == ASSUME Typed, (\E p \in Pages : ViewStart(p)) \/ ViewCreate PROVE Typed'
<1>1. UNCHANGED <<scene, clock, feed, provider, row, job, edit, queue, syncing, raced>>
  BY DEF ViewStart, ViewCreate, sources, database, history
<1>2. TalkTypes' /\ TalkKnown' /\ astray' \subseteq Pages
  <2>1. ASSUME NEW p \in Pages, ViewStart(p) PROVE TalkTypes' /\ TalkKnown' /\ astray' \subseteq Pages
    <3>1. Known(p)
      BY <2>1, NoneApart DEF ViewStart, Open, Active, Known
    <3> QED BY <2>1, <3>1 DEF Typed, CatalogTypeOK, TalkTypes, HistoryTypes, PagesKnown, TalkKnown, Known, ViewStart, history,
              database
  <2>2. CASE ViewCreate
    <3>1. view \in Pages /\ Known(view)
      BY <2>2 DEF ViewCreate, Typed, CatalogTypeOK, TalkTypes, PagesKnown, TalkKnown
    <3>2. /\ TalkTypes' /\ astray' \subseteq Pages /\ view' = None
          /\ \A p \in Pages : thread'[p] = IF p = view THEN "public" ELSE thread[p]
      BY <2>2, <3>1 DEF Typed, CatalogTypeOK, TalkTypes, HistoryTypes, ViewCreate
    <3> QED BY <1>1, <3>1, <3>2 DEF Typed, PagesKnown, TalkKnown, Known
  <2> QED BY <2>1, <2>2
<1> QED BY <1>1, <1>2 DEF Typed, CatalogTypeOK, SourceTypes, RowsTyped, JobsTyped, EditsTyped, HistoryTypes,
   PagesKnown, PlansHaveProvider, JobsKnown, EditsKnown, QueueKnown, Known

\* The queue without one page of its head: every mark left was there, and every
\* other mark is still there.
LEMMA QueueWithout ==
    ASSUME Typed, queue # <<>>, NEW page \in DOMAIN Head(queue)
    PROVE  LET q == Without(page) IN
           /\ q \in Seq(OpenTypes)
           /\ \A i \in DOMAIN q : \E j \in DOMAIN queue : \A p \in DOMAIN q[i] : p \in DOMAIN queue[j] /\ q[i][p] = queue[j][p]
           /\ \A j \in DOMAIN queue : \A p \in DOMAIN queue[j] : j # 1 \/ p # page =>
                 \E i \in DOMAIN q : p \in DOMAIN q[i] /\ q[i][p] = queue[j][p]
<1> DEFINE head == Head(queue)
           rest == Restrict(head, DOMAIN head \ {page})
<1>1. queue \in Seq(OpenTypes) /\ Len(queue) \in Nat \ {0} /\ head = queue[1] /\ head \in OpenTypes /\ 1 \in DOMAIN queue
  BY DEF Typed, CatalogTypeOK, TalkTypes
<1>2. DOMAIN rest = DOMAIN head \ {page} /\ \A p \in DOMAIN rest : rest[p] = head[p]
  BY DEF Restrict
<1>3. rest \in OpenTypes
  <2>1. PICK S \in SUBSET Pages : head \in [S -> BOOLEAN]
    BY <1>1 DEF OpenTypes
  <2>2. rest \in [S \ {page} -> BOOLEAN]
    BY <2>1 DEF Restrict
  <2> QED BY <2>1, <2>2 DEF OpenTypes
<1> HIDE DEF rest, head
<1>4. /\ Tail(queue) \in Seq(OpenTypes) /\ Len(Tail(queue)) = Len(queue) - 1
      /\ \A i \in 1..Len(queue) - 1 : Tail(queue)[i] = queue[i + 1]
  BY <1>1
<1>5. CASE DOMAIN rest = {}
  <2>1. Without(page) = Tail(queue)
    BY <1>5 DEF Without, rest, head
  <2>2. \A i \in DOMAIN Tail(queue) : i + 1 \in DOMAIN queue /\ Tail(queue)[i] = queue[i + 1]
    BY <1>1, <1>4
  <2>3. \A j \in DOMAIN queue : j # 1 => j - 1 \in DOMAIN Tail(queue) /\ Tail(queue)[j - 1] = queue[j]
    BY <1>1, <1>4
  <2>4. \A p \in DOMAIN queue[1] : p = page
    BY <1>1, <1>2, <1>5
  <2> DEFINE q == Tail(queue)
  <2>5. ASSUME NEW i \in DOMAIN q
        PROVE  \E j \in DOMAIN queue : \A p \in DOMAIN q[i] : p \in DOMAIN queue[j] /\ q[i][p] = queue[j][p]
    BY <2>2
  <2>6. ASSUME NEW j \in DOMAIN queue, NEW p \in DOMAIN queue[j], j # 1 \/ p # page
        PROVE  \E i \in DOMAIN q : p \in DOMAIN q[i] /\ q[i][p] = queue[j][p]
    BY <2>3, <2>4, <2>6
  <2>7. q \in Seq(OpenTypes)
    BY <1>4
  <2> HIDE DEF q
  <2> QED BY <2>1, <2>5, <2>6, <2>7 DEF q
<1>6. CASE DOMAIN rest # {}
  <2> DEFINE q == <<rest>> \o Tail(queue)
  <2>1. Without(page) = q
    BY <1>6 DEF Without, rest, head
  <2>2. q \in Seq(OpenTypes) /\ Len(q) = Len(queue)
    BY <1>1, <1>3, <1>4
  <2>3. q[1] = rest /\ \A i \in 2..Len(queue) : q[i] = queue[i]
    BY <1>1, <1>3, <1>4
  <2>4. DOMAIN q = 1..Len(queue) /\ DOMAIN queue = 1..Len(queue)
    BY <1>1, <2>2
  <2> HIDE DEF q
  <2>5. \A i \in DOMAIN q : \A p \in DOMAIN q[i] : p \in DOMAIN queue[i] /\ q[i][p] = queue[i][p]
    BY <1>1, <1>2, <2>3, <2>4
  <2>6. \A j \in DOMAIN queue : \A p \in DOMAIN queue[j] : j # 1 \/ p # page => p \in DOMAIN q[j] /\ q[j][p] = queue[j][p]
    BY <1>1, <1>2, <2>3, <2>4
  <2> QED BY <2>1, <2>2, <2>4, <2>5, <2>6
<1> QED BY <1>5, <1>6

LEMMA SyncTyped ==
    ASSUME Typed, (\E p \in Pages : SyncRead(p)) \/ (\E answered \in BOOLEAN : SyncPut(answered))
    PROVE  Typed'
<1>1. UNCHANGED <<scene, clock, feed, provider, row, job, edit, view, raced>>
  BY DEF SyncRead, SyncPut, sources, database, history
<1>2. TalkTypes' /\ QueueKnown' /\ TalkKnown' /\ astray' \subseteq Pages
  <2>1. ASSUME NEW p \in Pages, SyncRead(p) PROVE TalkTypes' /\ QueueKnown' /\ TalkKnown' /\ astray' \subseteq Pages
    <3>1. queue # <<>> /\ p \in DOMAIN Head(queue) /\ queue' = Without(p) /\ UNCHANGED <<thread, astray, view>>
      BY <2>1 DEF SyncRead, history
    <3>2. Head(queue) = queue[1] /\ 1 \in DOMAIN queue
      BY <3>1 DEF Typed, CatalogTypeOK, TalkTypes
    <3>3. Known(p)
      BY <3>1, <3>2 DEF Typed, PagesKnown, QueueKnown
    <3>4. /\ queue' \in Seq(OpenTypes)
          /\ \A i \in DOMAIN queue' : \E j \in DOMAIN queue : \A q \in DOMAIN queue'[i] : q \in DOMAIN queue[j]
      BY <3>1, QueueWithout
    <3>5. QueueKnown'
      BY <1>1, <3>4 DEF Typed, PagesKnown, QueueKnown, Known
    <3>6. syncing' = None \/ (syncing' \in SyncTypes /\ syncing'.page = p)
      <4>1. [page |-> p, open |-> Open(p)] \in SyncTypes
        <5>1. Open(p) \in BOOLEAN
          BY DEF Open, Active
        <5> QED BY <5>1 DEF SyncTypes
      <4> QED BY <2>1, <4>1 DEF SyncRead
    <3> QED BY <1>1, <3>1, <3>3, <3>4, <3>5, <3>6 DEF Typed, CatalogTypeOK, TalkTypes, HistoryTypes, PagesKnown, TalkKnown,
              Known
  <2>2. ASSUME NEW answered \in BOOLEAN, SyncPut(answered)
        PROVE  TalkTypes' /\ QueueKnown' /\ TalkKnown' /\ astray' \subseteq Pages
    <3>1. syncing \in SyncTypes /\ syncing.page \in Pages
      BY <2>2 DEF SyncPut, Typed, CatalogTypeOK, TalkTypes, SyncTypes
    <3>2. /\ syncing' = None /\ astray' \in {astray, astray \cup {syncing.page}} /\ UNCHANGED <<queue, view>>
          /\ thread' \in [Pages -> {"public", "hidden", None}]
          /\ \A p \in Pages : thread'[p] # None => thread[p] # None
      BY <2>2, <3>1, NoneApart DEF SyncPut, Typed, CatalogTypeOK, TalkTypes
    <3> QED BY <1>1, <3>1, <3>2 DEF Typed, CatalogTypeOK, TalkTypes, HistoryTypes, PagesKnown, QueueKnown, TalkKnown, Known
  <2> QED BY <2>1, <2>2
<1> QED BY <1>1, <1>2 DEF Typed, CatalogTypeOK, SourceTypes, RowsTyped, JobsTyped, EditsTyped, HistoryTypes,
   PagesKnown, PlansHaveProvider, JobsKnown, EditsKnown, Known

LEMMA SweepTyped ==
    ASSUME Typed, \E s \in Sweepers : SweepRead(s) \/ SweepSend(s)
    PROVE  Typed'
<1>1. UNCHANGED <<sources, database, job, edit, discussion, history>>
  BY DEF SweepRead, SweepSend
<1> QED BY <1>1 DEF Typed, CatalogTypeOK, SourceTypes, RowsTyped, JobsTyped, EditsTyped, TalkTypes, HistoryTypes, PagesKnown,
             PlansHaveProvider, JobsKnown, EditsKnown, QueueKnown, TalkKnown, Known, sources, database, discussion, history

LEMMA RestartTyped == ASSUME Typed, Restart PROVE Typed'
<1>1. /\ UNCHANGED <<scene, clock, feed, provider, row, thread, raced>> /\ queue' = <<>> /\ syncing' = None /\ view' = None
      /\ job' = [w \in DOMAIN job |-> None] /\ edit' = [e \in DOMAIN edit |-> None]
  BY DEF Restart, sources, database
<1>2. astray' \subseteq Pages
  <2>1. \A i \in DOMAIN queue : DOMAIN queue[i] \subseteq Pages
    <3>1. \A i \in DOMAIN queue : queue[i] \in OpenTypes
      BY DEF Typed, CatalogTypeOK, TalkTypes
    <3> QED BY <3>1 DEF OpenTypes
  <2>2. syncing # None => syncing.page \in Pages
    BY DEF Typed, CatalogTypeOK, TalkTypes, SyncTypes
  <2>3. astray' = astray \cup (UNION {DOMAIN queue[i] : i \in DOMAIN queue}) \cup (IF syncing = None THEN {} ELSE {syncing.page})
    BY DEF Restart
  <2>4. UNION {DOMAIN queue[i] : i \in DOMAIN queue} \subseteq Pages
    BY <2>1
  <2>5. (IF syncing = None THEN {} ELSE {syncing.page}) \subseteq Pages
    BY <2>2
  <2>6. astray \subseteq Pages
    BY DEF Typed, CatalogTypeOK, HistoryTypes
  <2> DEFINE lost == UNION {DOMAIN queue[i] : i \in DOMAIN queue}
             failed == IF syncing = None THEN {} ELSE {syncing.page}
  <2>7. astray' = astray \cup lost \cup failed /\ lost \subseteq Pages /\ failed \subseteq Pages
    BY <2>3, <2>4, <2>5
  <2> HIDE DEF lost, failed
  <2> QED BY <2>6, <2>7
<1>3. JobsTyped' /\ JobsKnown' /\ EditsTyped' /\ EditsKnown'
  BY <1>1 DEF Typed, CatalogTypeOK, JobsTyped, EditsTyped, JobsKnown, EditsKnown
<1>4. TalkTypes' /\ QueueKnown' /\ TalkKnown'
  BY <1>1 DEF Typed, CatalogTypeOK, TalkTypes, PagesKnown, QueueKnown, TalkKnown, Known
<1> QED BY <1>1, <1>2, <1>3, <1>4 DEF Typed, CatalogTypeOK, SourceTypes, RowsTyped, HistoryTypes, PagesKnown, PlansHaveProvider

LEMMA TypedStep == Typed /\ [CatalogNext]_catalogVars => Typed'
<1> SUFFICES ASSUME Typed, [CatalogNext]_catalogVars PROVE Typed'
  OBVIOUS
<1>1. CASE UNCHANGED catalogVars
  BY <1>1 DEF Typed, CatalogTypeOK, SourceTypes, RowsTyped, JobsTyped, EditsTyped, TalkTypes, HistoryTypes, PagesKnown,
     PlansHaveProvider, JobsKnown, EditsKnown, QueueKnown, TalkKnown, Known, catalogVars, sources, database, discussion, history
<1>2. CASE Tick \/ (\E r \in Listed : Delist(r) \/ (\E p \in Prices : Restate(r, p)))
  BY <1>2, SourcesTyped
<1>3. ASSUME NEW w \in Deliverers, Deliver(w) PROVE Typed'
  BY <1>3, UnlistTyped, HoldTyped, ReadTyped, UpdateTyped, InsertTyped DEF Deliver
<1>4. ASSUME NEW w \in Deliverers, NEW r \in Listed, Fetch(w, r) \/ FetchKeyed(w, r) PROVE Typed'
  BY <1>4, FetchTyped
<1>5. ASSUME NEW e \in Editors, SaveProvider(e) \/ SavePlan(e) PROVE Typed'
  BY <1>5, SaveProviderTyped, SavePlanTyped
<1>6. ASSUME NEW e \in Editors, NEW t \in {"provider"} \cup Plans, NEW i \in Inputs(t), SaveRead(e, t, i) PROVE Typed'
  BY <1>6, SaveReadTyped
<1>7. ASSUME NEW r \in StaffPlans, NEW p \in Prices \ {0}, NEW date \in Dates \cup {None}, Create(r, p, date) PROVE Typed'
  BY <1>7, CreateTyped
<1>8. CASE (\E p \in Pages : ViewStart(p)) \/ ViewCreate
  BY <1>8, ViewTyped
<1>9. CASE (\E p \in Pages : SyncRead(p)) \/ (\E answered \in BOOLEAN : SyncPut(answered))
  BY <1>9, SyncTyped
<1>10. CASE \E s \in Sweepers : SweepRead(s) \/ SweepSend(s)
  BY <1>10, SweepTyped
<1>11. CASE Restart
  BY <1>11, RestartTyped
<1> QED BY <1>1, <1>2, <1>3, <1>4, <1>5, <1>6, <1>7, <1>8, <1>9, <1>10, <1>11 DEF CatalogNext

\* A step of the site is a step of the catalog or leaves it alone.
LEMMA SiteSteps == [SiteNext]_siteVars => [CatalogNext]_catalogVars
  BY DEF SiteNext, siteVars

\* Every value is what its column holds, no row under way is missing and no page
\* is spoken of that is not there (server/catalog/store.js).
THEOREM CatalogTypeCorrect == SiteSpec => []CatalogTypeOK
<1>1. SiteInit => Typed
  BY TypedStart DEF SiteInit
<1>2. Typed /\ [SiteNext]_siteVars => Typed'
  BY TypedStep, SiteSteps
<1>3. Typed => CatalogTypeOK
  BY DEF Typed
<1> QED BY <1>1, <1>2, <1>3, PTL DEF SiteSpec

(***************************************************************************)
(* What staff hid.                                                         *)
(***************************************************************************)
\* Every other step leaves a hidden plan's status and a hidden provider alone.
LEMMA HiddenStep ==
    ASSUME Typed, [CatalogNext]_catalogVars
    PROVE  /\ \A r \in Plans : (row[r] # None /\ row[r].status = "hidden" /\ row'[r].status # "hidden")
                => \E e \in Editors : edit[e] # None /\ edit[e].target = r
           /\ (provider = "hidden" /\ provider' # "hidden")
                => \E e \in Editors : edit[e] # None /\ edit[e].target = "provider"
<1>1. CASE UNCHANGED <<row, provider>>
  BY <1>1
<1>2. ASSUME NEW w \in Deliverers, Unlist(w)
      PROVE  UNCHANGED provider /\ \A r \in Plans : row'[r] = row[r]
  <2> DEFINE r == job[w].row
  <2>1. row' = row \/ (r \notin Plans /\ \E new : row' = [row EXCEPT ![r] = new])
    BY <1>2 DEF Unlist
  <2>2. DOMAIN row = Rows
    BY DEF Typed, CatalogTypeOK, RowsTyped
  <2> HIDE DEF r
  <2> QED BY <1>2, <2>1, <2>2, Kinds DEF Unlist
<1>3. ASSUME NEW w \in Deliverers, Read(w)
      PROVE  UNCHANGED row /\ (provider # None => provider' = provider)
  BY <1>3, NoneApart DEF Read, Seller
<1>4. ASSUME NEW w \in Deliverers, Update(w)
      PROVE  UNCHANGED provider /\ \A r \in Plans : row[r] # None => row'[r].status = row[r].status
  <2> DEFINE r == job[w].row
             new == Written(r, job[w].item, job[w].old)
  <2>1. r \in Rows /\ row' = [row EXCEPT ![r] = new] /\ UNCHANGED provider
    BY <1>4, Kinds DEF Update, Typed, CatalogTypeOK, JobsTyped, JobTypes
  <2>2. DOMAIN row = Rows
    BY DEF Typed, CatalogTypeOK, RowsTyped
  <2>3. r \in Plans /\ row[r] # None => new.status = row[r].status
    <3>1. r \in Plans /\ row[r] # None => row[r] \in RowTypes /\ r \notin Registrars
      BY Kinds DEF Typed, CatalogTypeOK, RowsTyped
    <3> QED BY <3>1 DEF Written, StatusWritten, RowTypes
  <2> HIDE DEF r, new
  <2> QED BY <2>1, <2>2, <2>3, Kinds
<1>5. ASSUME NEW w \in Deliverers, Insert(w)
      PROVE  UNCHANGED provider /\ \A r \in Plans : row[r] # None => row'[r] = row[r]
  <2> DEFINE r == job[w].row
  <2>1. row' = row \/ (row[r] = None /\ \E new : row' = [row EXCEPT ![r] = new])
    BY <1>5 DEF Insert
  <2>2. DOMAIN row = Rows
    BY DEF Typed, CatalogTypeOK, RowsTyped
  <2> HIDE DEF r
  <2> QED BY <1>5, <2>1, <2>2, Kinds DEF Insert
<1>6. ASSUME NEW e \in Editors, SaveProvider(e)
      PROVE  UNCHANGED row /\ edit[e] # None /\ edit[e].target = "provider"
  BY <1>6 DEF SaveProvider
<1>7. ASSUME NEW e \in Editors, SavePlan(e)
      PROVE  UNCHANGED provider /\ edit[e] # None /\ \A r \in Plans : r # edit[e].target => row'[r] = row[r]
  <2>1. DOMAIN row = Rows
    BY DEF Typed, CatalogTypeOK, RowsTyped
  <2> QED BY <1>7, <2>1, Kinds DEF SavePlan
<1>8. ASSUME NEW s \in StaffPlans, NEW price, NEW date, Create(s, price, date)
      PROVE  UNCHANGED provider /\ \A r \in Plans : row[r] # None => row'[r] = row[r]
  <2>1. DOMAIN row = Rows
    BY DEF Typed, CatalogTypeOK, RowsTyped
  <2> QED BY <1>8, <2>1, Kinds DEF Create
<1>9. \/ UNCHANGED <<row, provider>>
      \/ \E w \in Deliverers : Unlist(w) \/ Read(w) \/ Update(w) \/ Insert(w)
      \/ \E e \in Editors : SaveProvider(e) \/ SavePlan(e)
      \/ \E s \in StaffPlans, p \in Prices \ {0}, date \in Dates \cup {None} : Create(s, p, date)
  BY DEF CatalogNext, Deliver, Tick, Restart, ViewCreate, Delist, Restate, Hold, Fetch, FetchKeyed, SaveRead, ViewStart, SyncRead,
     SyncPut, SweepRead, SweepSend, database, catalogVars
<1> QED BY <1>1, <1>2, <1>3, <1>4, <1>5, <1>6, <1>7, <1>8, <1>9, NoneApart

\* What staff hid stays hidden until staff show it: no delivery brings a hidden
\* plan or provider back, whatever it read before (server/catalog/store.js:148).
THEOREM HiddenStaysHolds == SiteSpec => HiddenStays
<1>1. SiteInit => Typed
  BY TypedStart DEF SiteInit
<1>2. Typed /\ [SiteNext]_siteVars => Typed'
  BY TypedStep, SiteSteps
<1>3. Typed /\ [SiteNext]_siteVars =>
        [/\ \A r \in Plans : (row[r] # None /\ row[r].status = "hidden" /\ row'[r].status # "hidden")
             => \E e \in Editors : edit[e] # None /\ edit[e].target = r
         /\ (provider = "hidden" /\ provider' # "hidden")
             => \E e \in Editors : edit[e] # None /\ edit[e].target = "provider"]_catalogVars
  BY HiddenStep, SiteSteps
<1> QED BY <1>1, <1>2, <1>3, PTL DEF SiteSpec, HiddenStays

(***************************************************************************)
(* The benchmark links: a link has a result exactly when it is used, and   *)
(* while one post has its row locked it is unused and no other post has.   *)
(***************************************************************************)
LinksTyped ==
    /\ asked \in [Links -> AskTypes \cup {None}]
    /\ link \in [Links -> LinkTypes \cup {None}]
    /\ post \in [Posters -> PostTypes \cup {None}]
HasLock(p) == post[p] # None /\ post[p].at = "locked"
PostsLinked == \A p \in Posters : post[p] # None => link[post[p].link] # None
OneLock ==
    \A p \in Posters : HasLock(p) =>
        /\ link[post[p].link].used = None
        /\ \A q \in Posters : HasLock(q) /\ post[q].link = post[p].link => q = p
AskedUnmade == \A l \in Links : asked[l] # None => link[l] = None
SpentOnce(l) == IF link[l].used = None THEN link[l].results = {} ELSE \E p \in Posters : link[l].results = {p}
LinksSpent == \A l \in Links : link[l] # None => SpentOnce(l)

BenchInv == LinksTyped /\ PostsLinked /\ OneLock /\ AskedUnmade /\ LinksSpent

LEMMA BenchNone ==
    None \notin LinkTypes /\ None \notin PostTypes /\ None \notin AskTypes /\ None \notin Nat
  BY BenchAssumption, CatalogAssumption

\* The posts and the requests under way are gone after a restart; the links stay.
LEMMA CatalogKeepsLinks ==
    ASSUME BenchInv, UNCHANGED link,
           UNCHANGED <<asked, post>> \/ (asked' = [l \in Links |-> None] /\ post' = [p \in Posters |-> None])
    PROVE  BenchInv'
<1>1. CASE UNCHANGED <<asked, post>>
  BY <1>1 DEF BenchInv, LinksTyped, PostsLinked, OneLock, HasLock, AskedUnmade, LinksSpent, SpentOnce
<1>2. CASE asked' = [l \in Links |-> None] /\ post' = [p \in Posters |-> None]
  BY <1>2 DEF BenchInv, LinksTyped, PostsLinked, OneLock, HasLock, AskedUnmade, LinksSpent, SpentOnce
<1> QED BY <1>1, <1>2

LEMMA AskKept ==
    ASSUME BenchInv, clock \in Nat, NEW l \in Links, NEW plan \in Plans, AskLink(l, plan)
    PROVE  BenchInv'
<1>1. link[l] = None /\ asked' = [asked EXCEPT ![l] = [plan |-> plan, now |-> clock]] /\ UNCHANGED <<link, post>>
  BY DEF AskLink
<1>2. [plan |-> plan, now |-> clock] \in AskTypes
  BY DEF AskTypes
<1> QED BY <1>1, <1>2 DEF BenchInv, LinksTyped, PostsLinked, OneLock, HasLock, AskedUnmade, LinksSpent, SpentOnce

LEMMA MakeKept == ASSUME BenchInv, NEW l \in Links, MakeLink(l) PROVE BenchInv'
<1> DEFINE new == [plan |-> asked[l].plan, made |-> asked[l].now, used |-> None, results |-> {}]
<1>1. /\ asked[l] \in AskTypes /\ link[l] = None /\ link' = [link EXCEPT ![l] = new]
      /\ asked' = [asked EXCEPT ![l] = None] /\ UNCHANGED post
  BY DEF MakeLink, BenchInv, LinksTyped, AskedUnmade
<1>2. new \in LinkTypes /\ new.used = None /\ new.results = {}
  BY <1>1 DEF AskTypes, LinkTypes
<1> HIDE DEF new
<1>3. LinksTyped' /\ \A k \in Links : link'[k] = IF k = l THEN new ELSE link[k]
  BY <1>1, <1>2 DEF BenchInv, LinksTyped
<1>4. \A p \in Posters : post[p] # None => post[p].link \in Links /\ post[p].link # l
  BY <1>1 DEF BenchInv, LinksTyped, PostsLinked, PostTypes
<1>5. PostsLinked' /\ OneLock'
  BY <1>1, <1>3, <1>4 DEF BenchInv, PostsLinked, OneLock, HasLock
<1>6. AskedUnmade'
  BY <1>1, <1>3 DEF BenchInv, LinksTyped, AskedUnmade
<1>7. LinksSpent'
  BY <1>2, <1>3 DEF BenchInv, LinksSpent, SpentOnce
<1> QED BY <1>3, <1>5, <1>6, <1>7 DEF BenchInv

\* A post that begins, is refused, or takes the lock.
Goes(p, new) ==
    /\ post' = [post EXCEPT ![p] = new]
    /\ new # None => link[new.link] # None
    /\ new # None /\ new.at = "locked" =>
          /\ link[new.link].used = None
          /\ \A q \in Posters : HasLock(q) => post[q].link # new.link

LEMMA PostKept ==
    ASSUME BenchInv, clock \in Nat, NEW p \in Posters,
           (\E l \in Links : PostBegin(p, l)) \/ PostRefused(p) \/ PostLock(p)
    PROVE  BenchInv'
<1>1. UNCHANGED <<asked, link>>
  BY DEF PostBegin, PostRefused, PostLock
<1>2. PICK new \in PostTypes \cup {None} : Goes(p, new)
  <2>1. ASSUME NEW l \in Links, PostBegin(p, l) PROVE \E new \in PostTypes \cup {None} : Goes(p, new)
    <3> DEFINE begun == [link |-> l, now |-> clock, at |-> "parsed"]
    <3>1. begun \in PostTypes /\ begun.at = "parsed" /\ begun.link = l
      BY DEF PostTypes
    <3>2. post' = [post EXCEPT ![p] = begun] /\ link[l] # None
      BY <2>1 DEF PostBegin
    <3> HIDE DEF begun
    <3> QED BY <3>1, <3>2 DEF Goes
  <2>2. CASE PostRefused(p)
    BY <2>2 DEF PostRefused, Goes
  <2>3. CASE PostLock(p)
    <3> DEFINE locked == [post[p] EXCEPT !.at = "locked"]
    <3>1. post[p] \in PostTypes
      BY <2>3 DEF PostLock, BenchInv, LinksTyped
    <3>2. locked \in PostTypes /\ locked.at = "locked" /\ locked.link = post[p].link
      BY <3>1 DEF PostTypes
    <3> HIDE DEF locked
    <3>3. post' = [post EXCEPT ![p] = IF Unused(post[p].link, post[p].now) THEN locked ELSE None]
      BY <2>3 DEF PostLock, locked
    <3>4. \A q \in Posters : HasLock(q) => post[q].link # post[p].link
      BY <2>3 DEF PostLock, Locked, HasLock
    <3>5. CASE Unused(post[p].link, post[p].now)
      <4>1. link[locked.link] # None /\ link[locked.link].used = None
        BY <3>2, <3>5 DEF Unused
      <4> QED BY <3>2, <3>3, <3>4, <3>5, <4>1 DEF Goes
    <3>6. CASE ~Unused(post[p].link, post[p].now)
      BY <3>3, <3>6 DEF Goes
    <3> QED BY <3>5, <3>6
  <2> QED BY <2>1, <2>2, <2>3
<1>3. /\ post' \in [Posters -> PostTypes \cup {None}]
      /\ \A q \in Posters : post'[q] = IF q = p THEN new ELSE post[q]
  BY <1>2 DEF BenchInv, LinksTyped, Goes
<1>4. LinksTyped' /\ AskedUnmade' /\ LinksSpent'
  BY <1>1, <1>3 DEF BenchInv, LinksTyped, AskedUnmade, LinksSpent, SpentOnce
<1>5. PostsLinked'
  BY <1>1, <1>2, <1>3 DEF BenchInv, PostsLinked, Goes
<1>6. OneLock'
  BY <1>1, <1>2, <1>3 DEF BenchInv, OneLock, HasLock, Goes
<1> QED BY <1>4, <1>5, <1>6 DEF BenchInv

LEMMA CommitKept == ASSUME BenchInv, NEW p \in Posters, PostCommit(p) PROVE BenchInv'
<1> DEFINE l == post[p].link
           new == [link[l] EXCEPT !.used = post[p].now, !.results = link[l].results \cup {p}]
<1>1. /\ post[p] \in PostTypes /\ l \in Links /\ HasLock(p) /\ link[l] \in LinkTypes
  BY BenchNone DEF PostCommit, BenchInv, LinksTyped, HasLock, PostTypes, PostsLinked
<1>2. /\ link' = [link EXCEPT ![l] = new] /\ post' = [post EXCEPT ![p] = None] /\ UNCHANGED asked
  <2>1. link' = [link EXCEPT ![l].used = post[p].now, ![l].results = @ \cup {p}]
    BY DEF PostCommit
  <2> QED BY <1>1, <2>1 DEF PostCommit, BenchInv, LinksTyped, LinkTypes
<1>3. link[l].used = None /\ link[l].results = {}
  BY <1>1, BenchNone DEF BenchInv, OneLock, LinksSpent, SpentOnce
<1>4. new \in LinkTypes /\ new.used # None /\ new.results = {p}
  BY <1>1, <1>3, BenchNone DEF LinkTypes, PostTypes
<1> HIDE DEF new, l
<1>5. /\ LinksTyped' /\ \A k \in Links : link'[k] = IF k = l THEN new ELSE link[k]
      /\ \A q \in Posters : post'[q] = IF q = p THEN None ELSE post[q]
  BY <1>1, <1>2, <1>4 DEF BenchInv, LinksTyped
<1>6. \A q \in Posters : HasLock(q)' => HasLock(q) /\ q # p /\ post[q].link # l /\ post'[q] = post[q]
  BY <1>1, <1>5 DEF BenchInv, OneLock, HasLock, l
<1>7. \A q \in Posters : post[q] # None => post[q].link \in Links
  BY DEF BenchInv, LinksTyped, PostTypes
<1>8. PostsLinked'
  BY <1>4, <1>5, <1>7, BenchNone DEF BenchInv, PostsLinked
<1>9. OneLock'
  <2>1. SUFFICES ASSUME NEW q \in Posters, HasLock(q)'
                 PROVE  /\ link'[post'[q].link].used = None
                        /\ \A s \in Posters : HasLock(s)' /\ post'[s].link = post'[q].link => s = q
    BY DEF OneLock
  <2>2. HasLock(q) /\ post'[q] = post[q] /\ post[q].link # l /\ post[q].link \in Links
    BY <1>6, <1>7, <2>1 DEF HasLock
  <2>3. link'[post[q].link] = link[post[q].link] /\ link[post[q].link].used = None
    BY <1>5, <2>2 DEF BenchInv, OneLock
  <2> QED BY <1>6, <2>2, <2>3 DEF BenchInv, OneLock
<1>10. AskedUnmade'
  BY <1>1, <1>2, <1>5, BenchNone DEF BenchInv, AskedUnmade
<1>11. LinksSpent'
  BY <1>4, <1>5 DEF BenchInv, LinksSpent, SpentOnce
<1> QED BY <1>5, <1>8, <1>9, <1>10, <1>11 DEF BenchInv

LEMMA BenchStep == BenchInv /\ clock \in Nat /\ [SiteNext]_siteVars => BenchInv'
<1> SUFFICES ASSUME BenchInv, clock \in Nat, [SiteNext]_siteVars PROVE BenchInv'
  OBVIOUS
<1>1. CASE UNCHANGED siteVars
  BY <1>1, CatalogKeepsLinks DEF siteVars, benchVars
<1>2. CASE BenchNext
  <2>1. ASSUME NEW l \in Links, NEW plan \in Plans, AskLink(l, plan) PROVE BenchInv'
    BY <2>1, AskKept
  <2>2. ASSUME NEW l \in Links, MakeLink(l) PROVE BenchInv'
    BY <2>2, MakeKept
  <2>3. ASSUME NEW p \in Posters, (\E l \in Links : PostBegin(p, l)) \/ PostRefused(p) \/ PostLock(p) PROVE BenchInv'
    BY <2>3, PostKept
  <2>4. ASSUME NEW p \in Posters, PostCommit(p) PROVE BenchInv'
    BY <2>4, CommitKept
  <2> QED BY <1>2, <2>1, <2>2, <2>3, <2>4 DEF BenchNext
<1>3. CASE CatalogNext /\ UNCHANGED link
           /\ IF restarts' = restarts THEN UNCHANGED <<asked, post>>
              ELSE asked' = [l \in Links |-> None] /\ post' = [p \in Posters |-> None]
  BY <1>3, CatalogKeepsLinks
<1> QED BY <1>1, <1>2, <1>3 DEF SiteNext

LEMMA BenchStart == SiteInit => BenchInv
  BY DEF SiteInit, BenchInv, LinksTyped, PostsLinked, OneLock, HasLock, AskedUnmade, LinksSpent

\* A link is spent by exactly one result, whatever posts race for it and
\* wherever the process is restarted (server/catalog/benchmarks.js:128).
THEOREM LinkSpentOnceHolds == SiteSpec => []LinkSpentOnce
<1>1. SiteInit => Typed /\ BenchInv
  BY TypedStart, BenchStart DEF SiteInit
<1>2. Typed /\ BenchInv /\ [SiteNext]_siteVars => Typed' /\ BenchInv'
  <2>1. Typed => clock \in Nat
    BY DEF Typed, CatalogTypeOK, SourceTypes
  <2> QED BY <2>1, TypedStep, SiteSteps, BenchStep
<1>3. BenchInv => LinkSpentOnce
  <2>1. ASSUME BenchInv, NEW l \in Links, link[l] # None
        PROVE  Cardinality(link[l].results) = IF link[l].used = None THEN 0 ELSE 1
    <3>1. SpentOnce(l)
      BY <2>1 DEF BenchInv, LinksSpent
    <3>2. CASE link[l].used = None
      BY <3>1, <3>2, FS_EmptySet DEF SpentOnce
    <3>3. CASE link[l].used # None
      <4>1. PICK p \in Posters : link[l].results = {p}
        BY <3>1, <3>3 DEF SpentOnce
      <4>2. Cardinality({p}) = 1
        BY FS_Singleton
      <4> QED BY <3>3, <4>1, <4>2
    <3> QED BY <3>2, <3>3
  <2> QED BY <2>1 DEF LinkSpentOnce
<1> QED BY <1>1, <1>2, <1>3, PTL DEF SiteSpec

(***************************************************************************)
(* Discussions: a page whose thread does not show what the page is has a   *)
(* mark in the queue that differs from what the page is now, so the job    *)
(* that reaches it will tell Community; what is being told is what the     *)
(* page is, or such a mark still waits behind it.                          *)
(***************************************************************************)
Waits(p) == \E i \in DOMAIN queue : p \in DOMAIN queue[i] /\ queue[i][p] # Open(p)
Syncing(p) == syncing # None /\ syncing.page = p
Settling(p) ==
    \/ Waits(p)
    \/ IF Syncing(p) THEN syncing.open = Open(p) ELSE thread[p] # None => ((thread[p] = "public") <=> Open(p))
ThreadInv == \A p \in Pages \ astray : Settling(p)

LEMMA OpenIsBoolean == \A p : Open(p) \in BOOLEAN /\ Open(p)' \in BOOLEAN
  BY DEF Open, Active

\* Nothing is said of a page that is not known.
LEMMA UnknownSettles ==
    ASSUME Typed, NEW p \in Pages, ~Known(p)
    PROVE  thread[p] = None /\ ~Syncing(p) /\ \A i \in DOMAIN queue : p \notin DOMAIN queue[i]
  BY DEF Typed, PagesKnown, TalkKnown, QueueKnown, Syncing

\* A step that leaves the discussions alone, and every known page as open as it was.
LEMMA QuietSettles ==
    ASSUME Typed, ThreadInv, UNCHANGED <<queue, syncing, thread>>, astray \subseteq astray',
           \A p \in Pages : Known(p) => (Open(p)' <=> Open(p))
    PROVE  ThreadInv'
<1>1. SUFFICES ASSUME NEW p \in Pages, p \notin astray PROVE Settling(p)'
  BY DEF ThreadInv
<1>2. CASE Known(p)
  <2>1. Settling(p) /\ Open(p)' = Open(p)
    BY <1>1, <1>2, OpenIsBoolean DEF ThreadInv
  <2> HIDE DEF Open
  <2> QED BY <2>1 DEF Settling, Waits, Syncing
<1>3. CASE ~Known(p)
  <2>1. thread[p] = None /\ ~Syncing(p)
    BY <1>3, UnknownSettles
  <2> QED BY <2>1 DEF Settling, Syncing
<1> QED BY <1>2, <1>3

\* A page is as open as its row and the provider say.
LEMMA SameOpen ==
    ASSUME Typed, UNCHANGED provider, NEW p \in Pages,
           p # "provider" => row[p] # None /\ row'[p] # None /\ row'[p].status = row[p].status
    PROVE  Open(p)' <=> Open(p)
  BY DEF Open, Active, Seller

LEMMA DeliverSettles == ASSUME Typed, ThreadInv, NEW w \in Deliverers, Deliver(w) PROVE ThreadInv'
<1>1. UNCHANGED <<queue, syncing, thread, astray>>
  BY DEF Deliver, Unlist, Hold, Read, Update, Insert, discussion, history
<1> DEFINE r == job[w].row
<1>2. job[w] # None => r \in Rows /\ r \in Listed
  BY Kinds DEF Typed, CatalogTypeOK, JobsTyped, JobTypes
<1>3. DOMAIN row = Rows /\ \A p \in Pages : p # "provider" => p \in Plans /\ p \in Rows
  BY Kinds DEF Typed, CatalogTypeOK, RowsTyped, Pages
<1>4. \A p \in Pages : Known(p) => (Open(p)' <=> Open(p))
  <2>1. CASE Unlist(w)
    <3>1. row' = row \/ (r \notin Plans /\ \E new : row' = [row EXCEPT ![r] = new])
      BY <2>1 DEF Unlist
    <3>2. UNCHANGED provider
      BY <2>1 DEF Unlist
    <3> HIDE DEF r
    <3>3. \A p \in Pages : p # "provider" => row'[p] = row[p]
      BY <1>3, <3>1
    <3> QED BY <3>2, <3>3, SameOpen DEF Known
  <2>2. CASE Hold(w)
    BY <2>2 DEF Hold, database, Open, Active, Seller
  <2>3. CASE Read(w)
    <3>1. UNCHANGED row /\ (provider # None => provider' = provider)
      BY <2>3, NoneApart DEF Read, Seller
    <3>2. \A p \in Pages : Known(p) => provider # None
      BY <1>3 DEF Typed, PagesKnown, PlansHaveProvider, Known
    <3> QED BY <3>1, <3>2 DEF Open, Active, Seller
  <2>4. CASE Update(w)
    <3> DEFINE new == Written(r, job[w].item, job[w].old)
    <3>1. r \in Rows /\ row' = [row EXCEPT ![r] = new] /\ UNCHANGED provider
      BY <1>2, <2>4 DEF Update
    <3>2. row[r] \in RowTypes
      BY <1>2, <2>4, NoneApart DEF Update, Typed, CatalogTypeOK, RowsTyped, PagesKnown, JobsKnown
    <3>3. r \in Plans => new.status = row[r].status
      BY <3>2, Kinds DEF Written, StatusWritten, RowTypes
    <3>4. new \in RowTypes
      <4>1. job[w].item \in ItemTypes /\ job[w].old \in RowTypes
        BY <2>4 DEF Update, Typed, CatalogTypeOK, JobsTyped, JobTypes
      <4>2. StatusWritten(r, job[w].old) \in Statuses
        BY <3>2, <4>1 DEF StatusWritten, RowTypes, Statuses
      <4> QED BY <3>2, <4>1, <4>2 DEF Written, RowTypes, ItemTypes
    <3> HIDE DEF new, r
    <3>5. \A p \in Pages : p # "provider" /\ row[p] # None => row'[p] # None /\ row'[p].status = row[p].status
      BY <1>3, <3>1, <3>3, <3>4, NoneApart
    <3> QED BY <3>1, <3>5, SameOpen DEF Known
  <2>5. CASE Insert(w)
    <3>1. row' = row \/ (row[r] = None /\ \E new : row' = [row EXCEPT ![r] = new])
      BY <2>5 DEF Insert
    <3>2. UNCHANGED provider
      BY <2>5 DEF Insert
    <3> HIDE DEF r
    <3>3. \A p \in Pages : p # "provider" /\ row[p] # None => row'[p] = row[p]
      BY <1>3, <3>1
    <3> QED BY <3>2, <3>3, SameOpen DEF Known
  <2> QED BY <2>1, <2>2, <2>3, <2>4, <2>5 DEF Deliver
<1> QED BY <1>1, <1>4, QuietSettles

LEMMA CreateSettles ==
    ASSUME Typed, ThreadInv, NEW r \in StaffPlans, NEW price, NEW date, Create(r, price, date)
    PROVE  ThreadInv'
<1>1. /\ row[r] = None /\ UNCHANGED <<provider, queue, syncing, thread, astray>>
      /\ \E new : row' = [row EXCEPT ![r] = new]
  BY DEF Create, discussion
<1>2. DOMAIN row = Rows /\ \A p \in Pages : p # "provider" => p \in Rows
  BY Kinds DEF Typed, CatalogTypeOK, RowsTyped, Pages
<1>3. \A p \in Pages : p # "provider" /\ row[p] # None => row'[p] = row[p]
  BY <1>1, <1>2
<1>4. \A p \in Pages : Known(p) => (Open(p)' <=> Open(p))
  BY <1>1, <1>3, SameOpen DEF Known
<1> QED BY <1>1, <1>4, QuietSettles

\* A save that opens or closes a page left the page's mark, or has lost a change.
LEMMA SaveSettles ==
    ASSUME Typed, ThreadInv, NEW e \in Editors, SaveProvider(e) \/ SavePlan(e)
    PROVE  ThreadInv'
<1> DEFINE was == edit[e].was
           t == edit[e].target
<1>1. /\ edit[e] # None /\ was \in OpenTypes /\ Known(t) /\ t \in Pages
      /\ queue \in Seq(OpenTypes)
  BY DEF SaveProvider, SavePlan, Typed, CatalogTypeOK, EditsTyped, EditTypes, PagesKnown, EditsKnown, TalkTypes
<1>2. /\ queue' = Append(queue, was) /\ UNCHANGED <<syncing, thread>>
      /\ astray' = astray \cup {p \in DOMAIN Watched(t) : p \notin DOMAIN was \/ Open(p) # was[p]}
  BY DEF SaveProvider, SavePlan, Queued
<1>3. \A p \in Pages : Known(p) /\ p \notin DOMAIN Watched(t) => (Open(p)' <=> Open(p))
  <2>1. CASE SaveProvider(e)
    <3>1. DOMAIN Watched(t) = {"provider"} \cup {p \in Plans : row[p] # None}
      BY <2>1 DEF SaveProvider, Watched
    <3> QED BY <3>1 DEF Known, Pages
  <2>2. CASE SavePlan(e)
    <3>1. /\ t \in Plans /\ t \in Rows /\ UNCHANGED provider /\ row' = [row EXCEPT ![t] = Saved(e, t)]
      BY <2>2, SavePlanWrites DEF SavePlan
    <3>2. DOMAIN row = Rows /\ \A p \in Pages : p # "provider" => p \in Rows
      BY Kinds DEF Typed, CatalogTypeOK, RowsTyped, Pages
    <3>3. DOMAIN Watched(t) = {t}
      BY <3>1, Kinds DEF Watched
    <3> HIDE DEF t
    <3>4. \A p \in Pages : p # "provider" /\ p # t => row'[p] = row[p]
      BY <3>1, <3>2
    <3> QED BY <3>1, <3>3, <3>4, SameOpen DEF Known
  <2> QED BY <2>1, <2>2
<1> HIDE DEF was, t
<1>4. /\ \A i \in DOMAIN queue : i \in DOMAIN queue' /\ queue'[i] = queue[i]
      /\ \E i \in DOMAIN queue' : queue'[i] = was
  <2>1. Len(queue) + 1 \in DOMAIN queue' /\ queue'[Len(queue) + 1] = was
    BY <1>1, <1>2
  <2> QED BY <1>1, <1>2, <2>1
<1>5. SUFFICES ASSUME NEW p \in Pages, p \notin astray' PROVE Settling(p)'
  BY DEF ThreadInv
<1>6. CASE ~Known(p)
  <2>1. thread[p] = None /\ ~Syncing(p)
    BY <1>6, UnknownSettles
  <2> QED BY <1>2, <2>1 DEF Settling, Syncing
<1>7. CASE Open(p)' <=> Open(p)
  <2>1. Open(p)' = Open(p)
    BY <1>7, OpenIsBoolean
  <2>2. Settling(p)
    BY <1>2, <1>5 DEF ThreadInv
  <2>3. Waits(p) => Waits(p)'
    BY <1>4, <2>1 DEF Waits
  <2> QED BY <1>2, <2>1, <2>2, <2>3 DEF Settling, Syncing
<1>8. CASE Known(p) /\ ~(Open(p)' <=> Open(p))
  <2>1. p \in DOMAIN was /\ was[p] = Open(p)
    BY <1>2, <1>3, <1>5, <1>8
  <2>2. was[p] # Open(p)'
    BY <1>8, <2>1
  <2>3. Waits(p)'
    BY <1>4, <2>1, <2>2 DEF Waits
  <2> QED BY <2>3 DEF Settling
<1> QED BY <1>6, <1>7, <1>8

LEMMA ViewSettles == ASSUME Typed, ThreadInv, ViewCreate PROVE ThreadInv'
<1>1. /\ view \in Pages /\ thread \in [Pages -> {"public", "hidden", None}] /\ UNCHANGED <<provider, row, queue, syncing>>
      /\ thread' = [thread EXCEPT ![view] = "public"]
      /\ astray' = IF Open(view) THEN astray ELSE astray \cup {view}
  BY DEF ViewCreate, Typed, CatalogTypeOK, TalkTypes, database
<1>2. \A p : Open(p)' = Open(p)
  BY <1>1, OpenIsBoolean DEF Open, Active, Seller
<1>3. SUFFICES ASSUME NEW p \in Pages, p \notin astray' PROVE Settling(p)'
  BY DEF ThreadInv
<1>4. Settling(p)
  BY <1>1, <1>3 DEF ThreadInv
<1>5. CASE p # view
  BY <1>1, <1>2, <1>4, <1>5 DEF Settling, Waits, Syncing
<1>6. CASE p = view
  <2>1. Open(p) /\ thread'[p] = "public"
    BY <1>1, <1>3, <1>6
  <2>2. ~Syncing(p) => Settling(p)'
    BY <1>1, <1>2, <2>1 DEF Settling, Syncing
  <2>3. Syncing(p) => Settling(p)'
    BY <1>1, <1>2, <1>4 DEF Settling, Waits, Syncing
  <2> QED BY <2>2, <2>3
<1> QED BY <1>5, <1>6

LEMMA SyncReadSettles == ASSUME Typed, ThreadInv, NEW page \in Pages, SyncRead(page) PROVE ThreadInv'
<1>1. /\ queue # <<>> /\ page \in DOMAIN Head(queue) /\ syncing = None /\ queue' = Without(page)
      /\ UNCHANGED <<provider, row, thread, astray>>
      /\ syncing' = IF Open(page) = Head(queue)[page] THEN None ELSE [page |-> page, open |-> Open(page)]
  BY DEF SyncRead, database, history
<1>2. Head(queue) = queue[1]
  BY <1>1 DEF Typed, CatalogTypeOK, TalkTypes
<1>3. \A p : Open(p)' = Open(p)
  BY <1>1, OpenIsBoolean DEF Open, Active, Seller
<1>4. \A j \in DOMAIN queue : \A p \in DOMAIN queue[j] : j # 1 \/ p # page =>
         \E i \in DOMAIN queue' : p \in DOMAIN queue'[i] /\ queue'[i][p] = queue[j][p]
  BY <1>1, QueueWithout
<1>5. SUFFICES ASSUME NEW p \in Pages, p \notin astray PROVE Settling(p)'
  BY <1>1 DEF ThreadInv
<1>6. Settling(p) /\ ~Syncing(p)
  BY <1>1, <1>5 DEF ThreadInv, Syncing
<1>7. [page |-> page, open |-> Open(page)] # None
  <2>1. [page |-> page, open |-> Open(page)] \in SyncTypes
    BY OpenIsBoolean DEF SyncTypes
  <2> QED BY <2>1, NoneApart
<1>8. CASE p # page
  <2>1. Waits(p) => Waits(p)'
    BY <1>3, <1>4, <1>8 DEF Waits
  <2>2. ~Syncing(p)'
    BY <1>1, <1>8 DEF Syncing
  <2> QED BY <1>1, <1>3, <1>6, <2>1, <2>2 DEF Settling
<1>9. CASE p = page /\ Open(page) # Head(queue)[page]
  <2>1. syncing' # None /\ syncing'.page = p /\ syncing'.open = Open(p)
    BY <1>1, <1>7, <1>9
  <2> QED BY <1>3, <2>1 DEF Settling, Syncing
<1>10. CASE p = page /\ Open(page) = Head(queue)[page]
  <2>1. syncing' = None
    BY <1>1, <1>10
  <2>2. Waits(p) => Waits(p)'
    <3>1. ASSUME NEW i \in DOMAIN queue, p \in DOMAIN queue[i], queue[i][p] # Open(p) PROVE Waits(p)'
      <4>1. i # 1
        BY <1>2, <1>10, <3>1
      <4> QED BY <1>3, <1>4, <3>1, <4>1 DEF Waits
    <3> QED BY <3>1 DEF Waits
  <2> QED BY <1>1, <1>3, <1>6, <2>1, <2>2 DEF Settling, Syncing
<1> QED BY <1>8, <1>9, <1>10

LEMMA SyncPutSettles == ASSUME Typed, ThreadInv, NEW answered \in BOOLEAN, SyncPut(answered) PROVE ThreadInv'
<1>1. /\ syncing # None /\ syncing \in SyncTypes /\ syncing.page \in Pages /\ syncing' = None
      /\ UNCHANGED <<provider, row, queue>> /\ thread \in [Pages -> {"public", "hidden", None}]
      /\ thread' = IF thread[syncing.page] # None /\ answered
                   THEN [thread EXCEPT ![syncing.page] = IF syncing.open THEN "public" ELSE "hidden"] ELSE thread
      /\ astray' = IF answered THEN astray ELSE astray \cup {syncing.page}
  BY DEF SyncPut, Typed, CatalogTypeOK, TalkTypes, SyncTypes, database
<1>2. \A p : Open(p)' = Open(p)
  BY <1>1, OpenIsBoolean DEF Open, Active, Seller
<1>3. SUFFICES ASSUME NEW p \in Pages, p \notin astray' PROVE Settling(p)'
  BY DEF ThreadInv
<1>4. Settling(p) /\ ~Syncing(p)' /\ (Waits(p) => Waits(p)')
  BY <1>1, <1>2, <1>3 DEF ThreadInv, Syncing, Waits
<1>5. CASE p # syncing.page
  <2>1. thread'[p] = thread[p] /\ ~Syncing(p)
    BY <1>1, <1>5 DEF Syncing
  <2> QED BY <1>2, <1>4, <2>1 DEF Settling
<1>6. CASE p = syncing.page
  <2>1. answered /\ Syncing(p)
    BY <1>1, <1>3, <1>6 DEF Syncing
  <2>2. thread[p] = None => thread'[p] = None
    BY <1>1, <1>6
  <2>3. thread[p] # None => thread'[p] = IF syncing.open THEN "public" ELSE "hidden"
    BY <1>1, <1>6, <2>1
  <2>4. syncing.open \in BOOLEAN
    BY <1>1 DEF SyncTypes
  <2>5. CASE Waits(p)
    BY <1>4, <2>5 DEF Settling
  <2>6. CASE syncing.open = Open(p)
    <3>1. thread'[p] # None => ((thread'[p] = "public") <=> Open(p))
      BY <2>2, <2>3, <2>6, OpenIsBoolean
    <3> QED BY <1>2, <1>4, <3>1 DEF Settling
  <2> QED BY <1>4, <2>1, <2>5, <2>6 DEF Settling
<1> QED BY <1>5, <1>6

LEMMA RestartSettles == ASSUME Typed, ThreadInv, Restart PROVE ThreadInv'
<1>1. /\ UNCHANGED <<provider, row, thread>> /\ queue' = <<>> /\ syncing' = None
      /\ astray' = astray \cup (UNION {DOMAIN queue[i] : i \in DOMAIN queue}) \cup (IF syncing = None THEN {} ELSE {syncing.page})
  BY DEF Restart, database
<1>2. \A p : Open(p)' = Open(p)
  BY <1>1, OpenIsBoolean DEF Open, Active, Seller
<1>3. SUFFICES ASSUME NEW p \in Pages, p \notin astray' PROVE Settling(p)'
  BY DEF ThreadInv
<1>4. p \notin astray /\ ~Waits(p) /\ ~Syncing(p)
  BY <1>1, <1>3 DEF Waits, Syncing
<1>5. Settling(p)
  BY <1>4 DEF ThreadInv
<1> QED BY <1>1, <1>2, <1>4, <1>5 DEF Settling, Syncing

LEMMA ThreadStep == Typed /\ ThreadInv /\ [CatalogNext]_catalogVars => ThreadInv'
<1> SUFFICES ASSUME Typed, ThreadInv, [CatalogNext]_catalogVars PROVE ThreadInv'
  OBVIOUS
<1>1. CASE UNCHANGED <<provider, row, queue, syncing, thread, astray>>
  <2>1. \A p \in Pages : Open(p)' <=> Open(p)
    BY <1>1 DEF Open, Active, Seller
  <2> QED BY <1>1, <2>1, QuietSettles
<1>2. \/ UNCHANGED <<provider, row, queue, syncing, thread, astray>>
      \/ \E w \in Deliverers : Deliver(w)
      \/ \E e \in Editors : SaveProvider(e) \/ SavePlan(e)
      \/ \E r \in StaffPlans, p \in Prices \ {0}, date \in Dates \cup {None} : Create(r, p, date)
      \/ \E p \in Pages : SyncRead(p)
      \/ \E answered \in BOOLEAN : SyncPut(answered)
      \/ ViewCreate \/ Restart
  BY DEF CatalogNext, Tick, Delist, Restate, Fetch, FetchKeyed, SaveRead, ViewStart, SweepRead, SweepSend, database, discussion,
     history, catalogVars
<1> QED BY <1>1, <1>2, DeliverSettles, SaveSettles, CreateSettles, SyncReadSettles, SyncPutSettles, ViewSettles, RestartSettles

\* When the queue has drained, a page's discussion is public exactly while the
\* page is open, but for the pages whose thread missed a change
\* (server/catalog/store.js:107).
THEOREM ThreadsFollowHolds == SiteSpec => []ThreadsFollow
<1>1. SiteInit => Typed /\ ThreadInv
  <2>1. SiteInit => ThreadInv
    BY DEF SiteInit, CatalogInit, ThreadInv, Settling, Syncing
  <2> QED BY <2>1, TypedStart DEF SiteInit
<1>2. Typed /\ ThreadInv /\ [SiteNext]_siteVars => Typed' /\ ThreadInv'
  BY TypedStep, ThreadStep, SiteSteps
<1>3. ThreadInv => ThreadsFollow
  BY DEF ThreadInv, Settling, Waits, Syncing, ThreadsFollow
<1> QED BY <1>1, <1>2, <1>3, PTL DEF SiteSpec

(***************************************************************************)
(* Numbers: every set of naturals has a least member, a bounded one a      *)
(* greatest.  (Induction for a set; were n the first left out, the members *)
(* of 0..n outside it would map one to one below themselves.)              *)
(***************************************************************************)
LEMMA SetInduction ==
    ASSUME NEW T, 0 \in T, \A n \in Nat : n \in T => n + 1 \in T
    PROVE  Nat \subseteq T
<1> SUFFICES ASSUME NEW n \in Nat, n \notin T PROVE FALSE
  OBVIOUS
<1> DEFINE S == {m \in 0..n : m \notin T}
           down == [m \in S |-> m - 1]
<1>1. IsFiniteSet(S)
  <2>1. IsFiniteSet(0..n)
    BY FS_Interval
  <2>2. S \in SUBSET (0..n)
    OBVIOUS
  <2> HIDE DEF S
  <2> QED BY <2>1, <2>2, FS_Subset
<1>2. \A m \in S : m # 0 /\ m - 1 \in S
  OBVIOUS
<1>3. down \in Injection(S, S)
  BY <1>2 DEF Injection, IsInjective
<1>4. down \in Surjection(S, S)
  BY <1>1, <1>3, FS_Injection
<1>5. n \in S
  OBVIOUS
<1>6. PICK m \in S : down[m] = n
  BY <1>4, <1>5 DEF Surjection
<1> QED BY <1>6

LEMMA Least ==
    ASSUME NEW S \in SUBSET Nat, S # {}
    PROVE  \E m \in S : \A x \in S : m <= x
<1> DEFINE T == {n \in Nat : (\E x \in S : x <= n) => \E m \in S : \A x \in S : m <= x}
<1>1. 0 \in T
  OBVIOUS
<1>2. ASSUME NEW n \in Nat, n \in T PROVE n + 1 \in T
  <2>1. CASE \E x \in S : x <= n
    BY <1>2, <2>1
  <2>2. CASE ~\E x \in S : x <= n
    <3>1. \A x \in S : n + 1 <= x
      BY <2>2
    <3>2. ASSUME NEW y \in S, y <= n + 1 PROVE y \in S /\ \A x \in S : y <= x
      BY <3>1, <3>2
    <3> QED BY <3>2
  <2> QED BY <2>1, <2>2
<1> HIDE DEF T
<1>3. Nat \subseteq T
  BY <1>1, <1>2, SetInduction
<1>4. PICK x \in S : TRUE
  OBVIOUS
<1>5. x \in T /\ x <= x
  BY <1>3
<1> QED BY <1>5 DEF T

LEMMA Greatest ==
    ASSUME NEW S \in SUBSET Nat, S # {}, NEW n \in Nat, \A x \in S : x <= n
    PROVE  \E m \in S : \A x \in S : x <= m
<1> DEFINE D == {n - x : x \in S}
<1>1. D \in SUBSET Nat /\ D # {}
  <2>1. \A x \in S : n - x \in Nat
    OBVIOUS
  <2>2. PICK x \in S : TRUE
    OBVIOUS
  <2>3. n - x \in D
    OBVIOUS
  <2> QED BY <2>1, <2>3
<1>2. PICK d \in D : \A e \in D : d <= e
  <2> HIDE DEF D
  <2> QED BY <1>1, Least
<1>3. PICK m \in S : d = n - m
  BY <1>2
<1>4. ASSUME NEW x \in S PROVE x <= m
  <2>1. d <= n - x
    BY <1>2
  <2> QED BY <1>3, <2>1
<1> QED BY <1>4

LEMMA MaxIs ==
    ASSUME NEW S \in SUBSET Int, NEW m \in S, \A x \in S : x <= m
    PROVE  Max(S) = m
<1> DEFINE top == Max(S)
<1>1. top \in S /\ \A y \in S : top >= y
  BY DEF Max
<1> HIDE DEF top
<1>2. top \in Int /\ m \in Int /\ top >= m /\ top <= m
  BY <1>1
<1> QED BY <1>2 DEF top

LEMMA MinIs ==
    ASSUME NEW S \in SUBSET Int, NEW m \in S, \A x \in S : m <= x
    PROVE  Min(S) = m
<1> DEFINE bottom == Min(S)
<1>1. bottom \in S /\ \A y \in S : bottom <= y
  BY DEF Min
<1> HIDE DEF bottom
<1>2. bottom \in Int /\ m \in Int /\ bottom >= m /\ bottom <= m
  BY <1>1
<1> QED BY <1>2 DEF bottom

(***************************************************************************)
(* Step functions.                                                         *)
(***************************************************************************)
Timeline(steps) == DOMAIN steps \subseteq Nat
Latest(steps, t, s) == s \in DOMAIN steps /\ s <= t /\ \A u \in DOMAIN steps : u <= t => u <= s

LEMMA StepIs ==
    ASSUME NEW steps, Timeline(steps), NEW t \in Nat, NEW s, Latest(steps, t, s)
    PROVE  StepAt(steps, t, None) = steps[s]
<1> DEFINE past == {u \in DOMAIN steps : u <= t}
<1>1. past \in SUBSET Int /\ s \in past /\ \A u \in past : u <= s
  BY DEF Timeline, Latest
<1> HIDE DEF past
<1>2. Max(past) = s
  BY <1>1, MaxIs
<1> QED BY <1>1, <1>2 DEF StepAt, past

LEMMA NoStep ==
    ASSUME NEW steps, NEW t \in Nat, \A u \in DOMAIN steps : ~(u <= t)
    PROVE  StepAt(steps, t, None) = None
  BY DEF StepAt

LEMMA StepPast ==
    ASSUME NEW steps, Timeline(steps), NEW t \in Nat
    PROVE  (\A u \in DOMAIN steps : ~(u <= t)) \/ \E s : Latest(steps, t, s)
<1> DEFINE past == {u \in DOMAIN steps : u <= t}
<1>1. past \in SUBSET Nat /\ \A u \in past : u <= t
  BY DEF Timeline
<1>2. CASE past # {}
  <2>1. PICK s \in past : \A u \in past : u <= s
    <3> HIDE DEF past
    <3> QED BY <1>1, <1>2, Greatest
  <2> QED BY <2>1 DEF Latest
<1> QED BY <1>2

\* A price put at the end holds from then on, and changes nothing before.
LEMMA PutStep ==
    ASSUME NEW steps, Timeline(steps), NEW a \in Nat, \A u \in DOMAIN steps : u <= a, NEW p, NEW t \in Nat
    PROVE  /\ Timeline(Over(At(a, p), steps)) /\ DOMAIN Over(At(a, p), steps) = {a} \cup DOMAIN steps
           /\ StepAt(Over(At(a, p), steps), t, None) = IF t < a THEN StepAt(steps, t, None) ELSE p
<1> DEFINE put == Over(At(a, p), steps)
<1>1. DOMAIN put = {a} \cup DOMAIN steps /\ put[a] = p /\ \A u \in DOMAIN steps : u # a => put[u] = steps[u]
  BY DEF Over, At
<1>2. Timeline(put)
  BY <1>1 DEF Timeline
<1> HIDE DEF put
<1>3. ASSUME t < a PROVE StepAt(put, t, None) = StepAt(steps, t, None)
  <2>1. CASE \E s : Latest(steps, t, s)
    <3>1. PICK s : Latest(steps, t, s)
      BY <2>1
    <3>2. s \in DOMAIN steps /\ s \in Nat /\ s < a
      BY <1>3, <3>1 DEF Latest, Timeline
    <3>3. Latest(put, t, s)
      BY <1>1, <1>3, <3>1 DEF Latest
    <3>4. StepAt(put, t, None) = put[s] /\ StepAt(steps, t, None) = steps[s]
      BY <1>2, <3>1, <3>3, StepIs
    <3> QED BY <1>1, <1>3, <3>2, <3>4
  <2>2. CASE \A u \in DOMAIN steps : ~(u <= t)
    <3>1. \A u \in DOMAIN put : ~(u <= t)
      BY <1>1, <1>3, <2>2
    <3>2. StepAt(put, t, None) = None /\ StepAt(steps, t, None) = None
      BY <2>2, <3>1, NoStep
    <3> QED BY <1>3, <3>2
  <2> QED BY <2>1, <2>2, StepPast
<1>4. ASSUME ~(t < a) PROVE StepAt(put, t, None) = p
  <2>1. Latest(put, t, a)
    BY <1>1, <1>4 DEF Latest
  <2>2. StepAt(put, t, None) = put[a]
    BY <1>2, <2>1, StepIs
  <2> QED BY <1>1, <1>4, <2>2
<1> QED BY <1>1, <1>2, <1>3, <1>4 DEF put

\* Between its steps a step function rests.
LEMMA StepRests ==
    ASSUME NEW steps, Timeline(steps), NEW t \in Nat \ {0}, t \notin DOMAIN steps
    PROVE  StepAt(steps, t, None) = StepAt(steps, t - 1, None)
<1>1. \A u \in DOMAIN steps : u <= t <=> u <= t - 1
  BY DEF Timeline
<1>2. CASE \E s : Latest(steps, t, s)
  <2>1. PICK s : Latest(steps, t, s)
    BY <1>2
  <2>2. Latest(steps, t - 1, s)
    BY <1>1, <2>1 DEF Latest
  <2> QED BY <2>1, <2>2, StepIs
<1>3. CASE \A u \in DOMAIN steps : ~(u <= t)
  BY <1>1, <1>3, NoStep
<1> QED BY <1>2, <1>3, StepPast

(***************************************************************************)
(* What the change rows tell.                                              *)
(***************************************************************************)
\* Change rows, one a moment, none before the row was first seen.
Dated(C, first) ==
    /\ \A c \in C : c.at \in Nat /\ first <= c.at
    /\ \A c, d \in C : c.at = d.at => c = d

LEMMA ChangeAt ==
    ASSUME NEW C, NEW first \in Nat, Dated(C, first), NEW c \in C
    PROVE  c.at \in DOMAIN After(C) /\ After(C)[c.at] = c.after
<1>1. c.at \in Times(C)
  BY DEF Times
<1>2. (CHOOSE x \in C : x.at = c.at) = c
  BY DEF Dated
<1> QED BY <1>1, <1>2 DEF After

LEMMA EarliestIs ==
    ASSUME NEW C, NEW first \in Nat, Dated(C, first), NEW c \in C, \A d \in C : c.at <= d.at
    PROVE  Earliest(C) = c
<1> DEFINE e == Earliest(C)
<1>1. e \in C /\ \A d \in C : e.at <= d.at
  BY DEF Earliest
<1> HIDE DEF e
<1>2. e.at \in Nat /\ c.at \in Nat /\ e.at <= c.at /\ c.at <= e.at
  BY <1>1 DEF Dated
<1>3. e.at = c.at
  BY <1>2
<1> QED BY <1>1, <1>3 DEF Dated, e

LEMMA EarliestThere ==
    ASSUME NEW C, NEW first \in Nat, Dated(C, first), C # {}
    PROVE  \E c \in C : \A d \in C : c.at <= d.at
<1> DEFINE times == {c.at : c \in C}
<1>1. times \in SUBSET Nat /\ times # {}
  BY DEF Dated
<1>2. PICK t \in times : \A u \in times : t <= u
  <2> HIDE DEF times
  <2> QED BY <1>1, Least
<1>3. PICK c \in C : t = c.at
  BY <1>2
<1>4. \A d \in C : d.at \in times
  OBVIOUS
<1> QED BY <1>2, <1>3, <1>4

LEMMA ChangingDomain ==
    ASSUME NEW r, NEW C, r.first \in Nat, Dated(C, r.first)
    PROVE  /\ DOMAIN Changing(r, C) = {r.first} \cup Times(C)
           /\ Timeline(Changing(r, C))
<1>1. Times(C) \subseteq Nat
  BY DEF Dated, Times
<1>2. DOMAIN Changing(r, C) = {r.first} \cup Times(C)
  BY DEF Changing, Over, At, After, Times
<1> QED BY <1>1, <1>2 DEF Timeline

\* A change row put at the end is a price put at the end.
LEMMA ChangingPut ==
    ASSUME NEW r, NEW C, r.first \in Nat, Dated(C, r.first),
           NEW new, new.first = r.first,
           NEW c, c.at \in Nat, r.first <= c.at, \A d \in C : d.at < c.at, c.before = r.price
    PROVE  /\ Dated(C \cup {c}, r.first)
           /\ Changing(new, C \cup {c}) = Over(At(c.at, c.after), Changing(r, C))
<1> DEFINE more == C \cup {c}
           told == Changing(r, C)
           now == Changing(new, more)
           put == Over(At(c.at, c.after), told)
           first == IF C = {} THEN r.price ELSE Earliest(C).before
<1>1. Dated(more, r.first) /\ c \in more /\ more # {} /\ Times(more) = Times(C) \cup {c.at}
  BY DEF Dated, Times
<1>2. Earliest(more).before = first
  <2>1. CASE C = {}
    <3>1. more = {c}
      BY <2>1
    <3>2. Earliest(more) = c
      BY <1>1, <3>1, EarliestIs
    <3> QED BY <2>1, <3>2
  <2>2. CASE C # {}
    <3>1. PICK e \in C : \A d \in C : e.at <= d.at
      BY <2>2, EarliestThere
    <3>2. Earliest(C) = e
      BY <3>1, EarliestIs
    <3>3. e \in more /\ \A d \in more : e.at <= d.at
      BY <3>1 DEF Dated
    <3>4. Earliest(more) = e
      BY <1>1, <3>3, EarliestIs
    <3> QED BY <2>2, <3>2, <3>4
  <2> QED BY <2>1, <2>2
<1>3. /\ DOMAIN told = {r.first} \cup Times(C)
      /\ \A d \in C : told[d.at] = d.after
      /\ r.first \notin Times(C) => told[r.first] = first
  <2>1. \A d \in C : d.at \in Times(C) /\ After(C)[d.at] = d.after
    BY ChangeAt DEF Times
  <2>2. DOMAIN After(C) = Times(C)
    BY DEF After
  <2>3. CASE C = {}
    BY <2>3 DEF Changing, At, Times
  <2>4. CASE C # {}
    BY <2>1, <2>2, <2>4 DEF Changing, At, Over
  <2> QED BY <2>3, <2>4
<1>4. /\ DOMAIN now = {r.first} \cup Times(more)
      /\ \A d \in more : now[d.at] = d.after
      /\ r.first \notin Times(more) => now[r.first] = first
  <2>1. \A d \in more : d.at \in Times(more) /\ After(more)[d.at] = d.after
    BY <1>1, ChangeAt DEF Times
  <2>2. DOMAIN After(more) = Times(more)
    BY DEF After
  <2>3. now = Over(After(more), At(r.first, first))
    BY <1>1, <1>2 DEF Changing
  <2> QED BY <2>1, <2>2, <2>3 DEF At, Over
<1>5. /\ DOMAIN put = {c.at} \cup DOMAIN told /\ put[c.at] = c.after
      /\ \A t \in DOMAIN told : t # c.at => put[t] = told[t]
  BY DEF At, Over
<1> HIDE DEF told, first
<1>6. \A t \in DOMAIN now : t \in DOMAIN put /\ now[t] = put[t]
  <2>1. ASSUME NEW t \in DOMAIN now PROVE t \in DOMAIN put /\ now[t] = put[t]
    <3>1. (t = r.first /\ t \notin Times(more)) \/ \E d \in more : t = d.at
      BY <1>4, <2>1 DEF Times
    <3>2. CASE t = r.first /\ t \notin Times(more)
      BY <1>1, <1>3, <1>4, <1>5, <3>2
    <3>3. ASSUME NEW d \in C, t = d.at PROVE t \in DOMAIN put /\ now[t] = put[t]
      BY <1>3, <1>4, <1>5, <3>3 DEF Times, Dated
    <3>4. CASE t = c.at
      BY <1>1, <1>4, <1>5, <3>4
    <3> QED BY <3>1, <3>2, <3>3, <3>4
  <2> QED BY <2>1
<1>7. DOMAIN now = DOMAIN put
  BY <1>1, <1>3, <1>4, <1>5
<1>8. now = put
  <2>1. now = [t \in DOMAIN now |-> now[t]]
    BY DEF Changing, Over, At
  <2>2. put = [t \in DOMAIN put |-> put[t]]
    BY DEF Over
  <2> HIDE DEF now, put
  <2> QED BY <1>6, <1>7, <2>1, <2>2
<1> QED BY <1>1, <1>8 DEF told

(***************************************************************************)
(* A row's ledger: what its price was and when (K), against its change     *)
(* rows (C).                                                               *)
(***************************************************************************)
Ledger(R, C, K, now) ==
    /\ R.first \in Nat /\ R.at \in Nat /\ R.first <= R.at /\ R.at <= now /\ R.price \in Nat
    /\ Dated(C, R.first) /\ \A c \in C : c.at <= R.at
    /\ Timeline(K) /\ \A t \in DOMAIN K : R.first <= t /\ t <= R.at /\ K[t] \in Nat
    /\ R.first \in DOMAIN K /\ R.at \in DOMAIN K /\ K[R.at] = R.price
    /\ \A t \in Nat : StepAt(Changing(R, C), t, None) = StepAt(K, t, None)

\* The price from the last moment on.
LEMMA LedgerNow ==
    ASSUME NEW R, NEW C, NEW K, NEW now \in Nat, Ledger(R, C, K, now), NEW t \in Nat, R.at <= t
    PROVE  StepAt(K, t, None) = R.price
<1>1. Latest(K, t, R.at)
  BY DEF Ledger, Latest
<1> QED BY <1>1, StepIs DEF Ledger

LEMMA LedgerLater ==
    ASSUME NEW R, NEW C, NEW K, NEW now \in Nat, Ledger(R, C, K, now), NEW later \in Nat, now <= later
    PROVE  Ledger(R, C, K, later)
  BY DEF Ledger

LEMMA LedgerNew ==
    ASSUME NEW R, R.first \in Nat, R.at \in Nat, R.price \in Nat, R.first <= R.at, NEW now \in Nat, R.at <= now
    PROVE  Ledger(R, {}, Over(At(R.first, R.price), At(R.at, R.price)), now)
<1> DEFINE K == Over(At(R.first, R.price), At(R.at, R.price))
           one == At(R.first, R.price)
<1>1. DOMAIN K = {R.first, R.at} /\ K[R.first] = R.price /\ K[R.at] = R.price
  BY DEF Over, At
<1>2. DOMAIN one = {R.first} /\ one[R.first] = R.price /\ Changing(R, {}) = one
  BY DEF Changing, At
<1> HIDE DEF K, one
<1>3. ASSUME NEW t \in Nat PROVE StepAt(one, t, None) = StepAt(K, t, None)
  <2>1. CASE t < R.first
    <3>1. (\A u \in DOMAIN one : ~(u <= t)) /\ \A u \in DOMAIN K : ~(u <= t)
      BY <1>1, <1>2, <2>1
    <3> QED BY <3>1, NoStep
  <2>2. CASE R.first <= t /\ t < R.at
    <3>1. Latest(one, t, R.first) /\ Latest(K, t, R.first)
      BY <1>1, <1>2, <2>2 DEF Latest
    <3> QED BY <1>1, <1>2, <3>1, StepIs DEF Timeline
  <2>3. CASE R.at <= t
    <3>1. Latest(one, t, R.first) /\ Latest(K, t, R.at)
      BY <1>1, <1>2, <2>3 DEF Latest
    <3> QED BY <1>1, <1>2, <3>1, StepIs DEF Timeline
  <2> QED BY <2>1, <2>2, <2>3
<1>4. Dated({}, R.first) /\ Timeline(K)
  BY <1>1 DEF Dated, Timeline
<1> QED BY <1>1, <1>2, <1>3, <1>4 DEF Ledger, K

\* A later statement of the price, with the change row it leaves.
LEMMA LedgerPut ==
    ASSUME NEW R, NEW C, NEW K, NEW now \in Nat, Ledger(R, C, K, now),
           NEW new, new.first = R.first, new.at \in Nat, new.price \in Nat, R.at <= new.at, new.at <= now,
           new.at = R.at => new.price = R.price \/ new.at \notin Times(C),
           NEW D, D = IF new.price = R.price THEN C
                      ELSE C \cup {[at |-> new.at, before |-> R.price, after |-> new.price]}
    PROVE  Ledger(new, D, Over(At(new.at, new.price), K), now)
<1> DEFINE L == Over(At(new.at, new.price), K)
           told == Changing(R, C)
           tells == Changing(new, D)
<1>1. /\ R.first \in Nat /\ R.at \in Nat /\ R.first <= R.at /\ R.at <= now /\ R.price \in Nat
      /\ Dated(C, R.first) /\ (\A c \in C : c.at <= R.at)
      /\ Timeline(K) /\ (\A t \in DOMAIN K : R.first <= t /\ t <= R.at /\ K[t] \in Nat)
      /\ R.first \in DOMAIN K /\ R.at \in DOMAIN K /\ K[R.at] = R.price
      /\ \A t \in Nat : StepAt(told, t, None) = StepAt(K, t, None)
  BY DEF Ledger
<1>2. /\ Timeline(L) /\ DOMAIN L = {new.at} \cup DOMAIN K
      /\ \A t \in Nat : StepAt(L, t, None) = IF t < new.at THEN StepAt(K, t, None) ELSE new.price
  <2>1. \A u \in DOMAIN K : u <= new.at
    BY <1>1 DEF Timeline
  <2>2. ASSUME NEW t \in Nat
        PROVE  /\ Timeline(L) /\ DOMAIN L = {new.at} \cup DOMAIN K
               /\ StepAt(L, t, None) = IF t < new.at THEN StepAt(K, t, None) ELSE new.price
    <3> DEFINE a == new.at
               p == new.price
    <3>1. a \in Nat /\ t \in Nat /\ Timeline(K) /\ \A u \in DOMAIN K : u <= a
      BY <1>1, <2>1
    <3> HIDE DEF a, p
    <3>2. /\ Timeline(Over(At(a, p), K)) /\ DOMAIN Over(At(a, p), K) = {a} \cup DOMAIN K
          /\ StepAt(Over(At(a, p), K), t, None) = IF t < a THEN StepAt(K, t, None) ELSE p
      BY ONLY <3>1, PutStep
    <3> QED BY <3>2 DEF a, p
  <2> HIDE DEF L
  <2>3. 0 \in Nat
    OBVIOUS
  <2> QED BY <2>2, <2>3
<1>3. L[new.at] = new.price /\ \A t \in DOMAIN K : t # new.at => L[t] = K[t]
  BY DEF Over, At
<1> HIDE DEF L
<1>4. \A t \in DOMAIN L : R.first <= t /\ t <= new.at /\ L[t] \in Nat
  BY <1>1, <1>2, <1>3 DEF Timeline
<1>5. \A t \in Nat : R.at <= t => StepAt(K, t, None) = R.price
  BY LedgerNow
<1>6. /\ Dated(D, R.first) /\ (\A c \in D : c.at <= new.at)
      /\ \A t \in Nat : StepAt(tells, t, None) = StepAt(L, t, None)
  <2>1. CASE new.price = R.price
    <3>1. D = C /\ tells = told
      BY <2>1 DEF Changing
    <3>2. \A c \in D : c.at <= new.at
      BY <1>1, <3>1 DEF Dated
    <3>3. ASSUME NEW t \in Nat PROVE StepAt(told, t, None) = StepAt(L, t, None)
      <4>1. CASE t < new.at
        BY <1>1, <1>2, <4>1
      <4>2. CASE ~(t < new.at)
        <5>1. R.at <= t
          BY <1>1, <4>2
        <5> HIDE DEF told
        <5> QED BY <1>1, <1>2, <1>5, <2>1, <4>2, <5>1
      <4> QED BY <4>1, <4>2
    <3> HIDE DEF told, tells
    <3> QED BY <1>1, <3>1, <3>2, <3>3
  <2>2. CASE new.price # R.price
    <3> DEFINE c == [at |-> new.at, before |-> R.price, after |-> new.price]
    <3>1. /\ D = C \cup {c} /\ c.at = new.at /\ c.after = new.price /\ c.before = R.price
          /\ R.at < new.at \/ (R.at = new.at /\ new.at \notin Times(C))
      BY <1>1, <2>2
    <3> HIDE DEF c
    <3>2. R.first <= c.at /\ \A d \in C : d.at < c.at
      <4>1. \A d \in C : d.at \in Nat /\ d.at <= R.at /\ d.at \in Times(C)
        BY <1>1 DEF Dated, Times
      <4>2. \A d \in C : d.at # c.at \/ R.at < new.at
        BY <3>1, <4>1
      <4> QED BY <1>1, <3>1, <4>1, <4>2
    <3>3. Dated(D, R.first) /\ tells = Over(At(new.at, new.price), told)
      <4>1. Dated(C \cup {c}, R.first) /\ Changing(new, C \cup {c}) = Over(At(c.at, c.after), Changing(R, C))
        BY <1>1, <3>1, <3>2, ChangingPut
      <4> QED BY <3>1, <4>1
    <3>4. \A d \in D : d.at <= new.at
      BY <1>1, <3>1, <3>2 DEF Dated
    <3>5. Timeline(told) /\ \A u \in DOMAIN told : u <= new.at
      <4>1. DOMAIN told = {R.first} \cup Times(C) /\ Timeline(told)
        BY <1>1, ChangingDomain
      <4>2. \A u \in Times(C) : u <= new.at
        <5>1. ASSUME NEW d \in C PROVE d.at <= new.at
          BY <1>1, <3>1, <3>2 DEF Dated
        <5> QED BY <5>1 DEF Times
      <4> HIDE DEF told
      <4> QED BY <1>1, <3>1, <4>1, <4>2
    <3> HIDE DEF told, tells
    <3>6. ASSUME NEW t \in Nat
          PROVE  StepAt(tells, t, None) = IF t < new.at THEN StepAt(told, t, None) ELSE new.price
      <4> DEFINE a == new.at
                 p == new.price
      <4>1. a \in Nat /\ tells = Over(At(a, p), told) /\ Timeline(told) /\ \A u \in DOMAIN told : u <= a
        BY <3>3, <3>5
      <4> HIDE DEF a, p
      <4>2. StepAt(Over(At(a, p), told), t, None) = IF t < a THEN StepAt(told, t, None) ELSE p
        BY <4>1, PutStep
      <4> QED BY <4>1, <4>2 DEF a, p
    <3> QED BY <1>1, <1>2, <3>3, <3>4, <3>6
  <2> QED BY <2>1, <2>2
<1>7. R.first \in DOMAIN L /\ new.at \in DOMAIN L /\ R.first <= new.at
  BY <1>1, <1>2
<1> QED BY <1>2, <1>3, <1>4, <1>6, <1>7 DEF Ledger, L

(***************************************************************************)
(* What is under way about a row is no newer than what its source says,    *)
(* and two statements of one moment are the same; so every row that was    *)
(* never written from a stale read keeps a ledger.                         *)
(***************************************************************************)
Behind(a, b) == a.at <= b.at /\ (a.at = b.at => a.price = b.price)

FeedDated == \A r \in Listed : feed[r] # None => feed[r].first <= feed[r].at /\ feed[r].at <= clock
JobsDated ==
    \A w \in Deliverers : job[w] # None =>
        /\ job[w].item.first <= job[w].item.at /\ job[w].item.at <= clock
        /\ job[w].row \notin KeyedPlans => feed[job[w].row] # None /\ Behind(job[w].item, feed[job[w].row])
        /\ (job[w].at = "write" /\ job[w].old # None) => job[w].old.at <= job[w].item.at
Same(v, w) == job[v].row = job[w].row /\ job[v].item.at = job[w].item.at
JobsAgree ==
    \A v, w \in Deliverers : job[v] # None /\ job[w] # None /\ Same(v, w) => job[v].item.price = job[w].item.price
\* What any job says of a row at the row's own moment is the row's price.
Agreed(r) ==
    \A w \in Deliverers : job[w] # None /\ job[w].row = r /\ job[w].item.at = row[r].at => job[w].item.price = row[r].price
RowBehind(r) ==
    /\ Agreed(r)
    /\ r \in Listed \ KeyedPlans => feed[r] # None /\ Behind(row[r], feed[r])
RowsBehind == \A r \in Rows \ raced : row[r] # None => RowBehind(r)

ItemInv == FeedDated /\ JobsDated /\ JobsAgree /\ RowsBehind

Ledgers ==
    /\ DOMAIN changes = Rows /\ DOMAIN kept = Rows
    /\ \A r \in Rows \ Offers : row[r] = None => changes[r] = {}
    /\ \A r \in Rows \ (Offers \cup raced) : row[r] # None => Ledger(row[r], changes[r], kept[r], clock)

ChartInv == ItemInv /\ Ledgers

\* A step that writes one row.
OnlyRow(r) ==
    /\ DOMAIN changes' = Rows /\ DOMAIN kept' = Rows /\ row'[r] # None
    /\ \A s \in Rows : s # r => row'[s] = row[s] /\ changes'[s] = changes[s] /\ kept'[s] = kept[s]
    /\ raced \subseteq raced' /\ raced' \subseteq raced \cup {r}

LEMMA LedgersOf ==
    ASSUME Ledgers, NEW r \in Rows, OnlyRow(r), UNCHANGED clock,
           r \notin raced' \cup Offers => Ledger(row'[r], changes'[r], kept'[r], clock)
    PROVE  Ledgers'
<1>1. \A s \in Rows \ Offers : row'[s] = None => changes'[s] = {}
  BY DEF Ledgers, OnlyRow
<1>2. ASSUME NEW s \in Rows \ (Offers \cup raced'), row'[s] # None
      PROVE  Ledger(row'[s], changes'[s], kept'[s], clock)
  <2>1. CASE s = r
    BY <1>2, <2>1
  <2>2. CASE s # r
    <3>1. s \notin raced /\ row'[s] = row[s] /\ changes'[s] = changes[s] /\ kept'[s] = kept[s]
      BY <1>2, <2>2 DEF OnlyRow
    <3> QED BY <1>2, <3>1 DEF Ledgers
  <2> QED BY <2>1, <2>2
<1>3. DOMAIN changes' = Rows /\ DOMAIN kept' = Rows
  BY DEF OnlyRow
<1> QED BY <1>1, <1>2, <1>3 DEF Ledgers

\* Jobs end, nothing else is said.
Ended == job' \in [Deliverers -> JobTypes \cup {None}] /\ \A w \in Deliverers : job'[w] \in {job[w], None}

LEMMA JobsEnd ==
    ASSUME FeedDated, JobsDated, JobsAgree, Ended, UNCHANGED <<clock, feed>>
    PROVE  FeedDated' /\ JobsDated' /\ JobsAgree'
<1>1. FeedDated'
  BY DEF FeedDated
<1>2. \A w \in Deliverers : job'[w] # None => job'[w] = job[w]
  BY DEF Ended
<1>3. JobsDated'
  BY <1>2 DEF JobsDated
<1>4. JobsAgree'
  BY <1>2 DEF JobsAgree, Same
<1> QED BY <1>1, <1>3, <1>4

LEMMA ItemsOf ==
    ASSUME ItemInv, NEW r \in Rows, OnlyRow(r), Ended, UNCHANGED <<clock, feed>>,
           r \notin raced' =>
              /\ \A w \in Deliverers : job[w] # None /\ job[w].row = r /\ job[w].item.at = row'[r].at
                                          => job[w].item.price = row'[r].price
              /\ r \in Listed \ KeyedPlans => feed[r] # None /\ Behind(row'[r], feed[r])
    PROVE  ItemInv'
<1>1. FeedDated' /\ JobsDated' /\ JobsAgree'
  BY JobsEnd DEF ItemInv
<1>2. \A w \in Deliverers : job'[w] # None => job'[w] = job[w]
  BY DEF Ended
<1>3. ASSUME NEW s \in Rows, s \notin raced', row'[s] # None PROVE RowBehind(s)'
  <2>1. CASE s = r
    BY <1>2, <1>3, <2>1 DEF RowBehind, Agreed
  <2>2. CASE s # r
    <3>1. s \notin raced /\ row'[s] = row[s]
      BY <1>3, <2>2 DEF OnlyRow
    <3>2. RowBehind(s)
      BY <1>3, <3>1 DEF ItemInv, RowsBehind
    <3> QED BY <1>2, <3>1, <3>2 DEF RowBehind, Agreed
  <2> QED BY <2>1, <2>2
<1>4. RowsBehind'
  BY <1>3 DEF RowsBehind
<1> QED BY <1>1, <1>4 DEF ItemInv

\* A step that leaves the rows as they are.
LEMMA RowsRest ==
    ASSUME ChartInv, Ended, raced \subseteq raced', UNCHANGED <<clock, feed, row, changes, kept>>
    PROVE  ChartInv'
<1>1. FeedDated' /\ JobsDated' /\ JobsAgree'
  BY JobsEnd DEF ChartInv, ItemInv
<1>2. \A w \in Deliverers : job'[w] # None => job'[w] = job[w]
  BY DEF Ended
<1>3. RowsBehind'
  BY <1>2 DEF ChartInv, ItemInv, RowsBehind, RowBehind, Agreed
<1>4. Ledgers'
  BY DEF ChartInv, Ledgers
<1> QED BY <1>1, <1>3, <1>4 DEF ChartInv, ItemInv

\* The ledger of a row whose status alone is written.
LEMMA LedgerStays ==
    ASSUME NEW R, NEW C, NEW K, NEW now, Ledger(R, C, K, now),
           NEW new, new.first = R.first, new.at = R.at, new.price = R.price
    PROVE  Ledger(new, C, K, now)
<1>1. Changing(new, C) = Changing(R, C)
  BY DEF Changing
<1> HIDE DEF Changing
<1> QED BY <1>1 DEF Ledger

LEMMA ChartStart == CatalogInit => ChartInv
  BY DEF CatalogInit, ChartInv, ItemInv, FeedDated, JobsDated, JobsAgree, RowsBehind, Ledgers

LEMMA ChartTick == ASSUME Typed, ChartInv, Tick PROVE ChartInv'
<1>1. clock \in Nat /\ clock' = clock + 1 /\ UNCHANGED <<feed, row, changes, kept, raced, job>>
  BY DEF Tick, Typed, CatalogTypeOK, SourceTypes, database, history
<1>2. FeedDated' /\ JobsDated'
  <2>1. \A r \in Listed : feed[r] # None => feed[r].at \in Nat /\ feed[r].first \in Nat
    BY DEF Typed, CatalogTypeOK, SourceTypes, ItemTypes
  <2>2. \A w \in Deliverers : job[w] # None => job[w].item.at \in Nat /\ job[w].item.first \in Nat
    BY DEF Typed, CatalogTypeOK, JobsTyped, JobTypes, ItemTypes
  <2>3. FeedDated'
    BY <1>1, <2>1 DEF ChartInv, ItemInv, FeedDated
  <2>4. ASSUME NEW w \in Deliverers, job[w] # None PROVE job[w].item.at <= clock + 1
    <3>1. job[w].item.at <= clock
      BY <2>4 DEF ChartInv, ItemInv, JobsDated
    <3> QED BY <1>1, <2>2, <2>4, <3>1
  <2> QED BY <1>1, <2>3, <2>4 DEF ChartInv, ItemInv, JobsDated
<1>3. JobsAgree' /\ RowsBehind'
  BY <1>1 DEF ChartInv, ItemInv, JobsAgree, Same, RowsBehind, RowBehind, Agreed
<1>4. Ledgers'
  <2>1. \A R, C, K : Ledger(R, C, K, clock) => Ledger(R, C, K, clock + 1)
    BY <1>1, LedgerLater
  <2> QED BY <1>1, <2>1 DEF ChartInv, Ledgers
<1> QED BY <1>2, <1>3, <1>4 DEF ChartInv, ItemInv

\* A source that says more says it later.
LEMMA ChartSays ==
    ASSUME Typed, ChartInv, NEW r \in Listed, NEW said \in ItemTypes, feed' = [feed EXCEPT ![r] = said],
           said.first <= said.at, said.at <= clock,
           feed[r] # None => feed[r].at < said.at \/ (feed[r].at = said.at /\ feed[r].price = said.price),
           UNCHANGED <<clock, row, changes, kept, raced, job>>
    PROVE  ChartInv'
<1>1. /\ feed'[r] = said /\ \A s \in Listed : s # r => feed'[s] = feed[s]
      /\ r \in Rows /\ said # None
  BY Kinds, NoneApart DEF Typed, CatalogTypeOK, SourceTypes
<1>2. FeedDated'
  BY <1>1 DEF ChartInv, ItemInv, FeedDated
<1>3. ASSUME NEW a, a.at \in Nat, feed[r] # None, Behind(a, feed[r]) PROVE Behind(a, said)
  <2>1. feed[r].at \in Nat /\ said.at \in Nat
    BY <1>3 DEF Typed, CatalogTypeOK, SourceTypes, ItemTypes
  <2> QED BY <1>3, <2>1 DEF Behind
<1>4. JobsDated'
  <2>1. ASSUME NEW w \in Deliverers, job[w] # None, job[w].row \notin KeyedPlans
        PROVE  feed'[job[w].row] # None /\ Behind(job[w].item, feed'[job[w].row])
    <3>1. job[w].item.at \in Nat /\ job[w].row \in Listed
      BY <2>1 DEF Typed, CatalogTypeOK, JobsTyped, JobTypes, ItemTypes
    <3>2. feed[job[w].row] # None /\ Behind(job[w].item, feed[job[w].row])
      BY <2>1 DEF ChartInv, ItemInv, JobsDated
    <3> QED BY <1>1, <1>3, <3>1, <3>2
  <2> QED BY <2>1 DEF ChartInv, ItemInv, JobsDated
<1>5. RowsBehind'
  <2>1. SUFFICES ASSUME NEW s \in Rows \ raced, row[s] # None PROVE RowBehind(s)'
    BY DEF RowsBehind
  <2>2. RowBehind(s) /\ row[s].at \in Nat
    BY <2>1 DEF ChartInv, ItemInv, RowsBehind, Typed, CatalogTypeOK, RowsTyped, RowTypes
  <2>3. s \in Listed \ KeyedPlans => feed'[s] # None /\ Behind(row[s], feed'[s])
    BY <1>1, <1>3, <2>2 DEF RowBehind
  <2> QED BY <2>2, <2>3 DEF RowBehind, Agreed
<1>6. JobsAgree' /\ Ledgers'
  BY DEF ChartInv, ItemInv, JobsAgree, Same, Ledgers
<1> QED BY <1>2, <1>4, <1>5, <1>6 DEF ChartInv, ItemInv

LEMMA ChartRestate == ASSUME Typed, ChartInv, NEW r \in Listed, NEW price \in Prices, Restate(r, price) PROVE ChartInv'
<1> DEFINE said == [price |-> price, at |-> clock, removed |-> FALSE, first |-> IF feed[r] = None THEN clock ELSE feed[r].first]
<1>1. /\ feed' = [feed EXCEPT ![r] = said] /\ (feed[r] # None => feed[r].at < clock)
      /\ UNCHANGED <<clock, row, changes, kept, raced, job>>
  BY DEF Restate, database, history
<1>2. clock \in Nat /\ (feed[r] # None => feed[r] \in ItemTypes)
  BY DEF Typed, CatalogTypeOK, SourceTypes
<1>3. said \in ItemTypes /\ said.at = clock
  BY <1>2 DEF ItemTypes
<1>4. said.first <= said.at
  <2>1. CASE feed[r] = None
    BY <1>2, <2>1
  <2>2. CASE feed[r] # None
    <3>1. feed[r].first <= feed[r].at /\ feed[r].first \in Nat /\ feed[r].at \in Nat
      BY <1>2, <2>2 DEF ChartInv, ItemInv, FeedDated, ItemTypes
    <3> QED BY <1>1, <1>2, <2>2, <3>1
  <2> QED BY <2>1, <2>2
<1> HIDE DEF said
<1>5. said.at <= clock /\ (feed[r] # None => feed[r].at < said.at)
  BY <1>1, <1>2, <1>3
<1> QED BY <1>1, <1>2, <1>3, <1>4, <1>5, ChartSays

LEMMA ChartDelist == ASSUME Typed, ChartInv, NEW r \in Listed, Delist(r) PROVE ChartInv'
<1> DEFINE said == [feed[r] EXCEPT !.removed = TRUE]
<1>1. feed[r] # None /\ feed' = [feed EXCEPT ![r] = said] /\ UNCHANGED <<clock, row, changes, kept, raced, job>>
  BY DEF Delist, Typed, CatalogTypeOK, SourceTypes, database, history
<1>2. feed[r] \in ItemTypes
  BY <1>1 DEF Typed, CatalogTypeOK, SourceTypes
<1>3. said \in ItemTypes /\ said.at = feed[r].at /\ said.first = feed[r].first /\ said.price = feed[r].price
  BY <1>2 DEF ItemTypes
<1>4. feed[r].first <= feed[r].at /\ feed[r].at <= clock
  BY <1>1 DEF ChartInv, ItemInv, FeedDated
<1> HIDE DEF said
<1> QED BY <1>1, <1>3, <1>4, ChartSays

LEMMA ChartFetch == ASSUME Typed, ChartInv, NEW w \in Deliverers, NEW r \in Listed, Fetch(w, r) PROVE ChartInv'
<1> DEFINE new == [row |-> r, item |-> feed[r], old |-> None, at |-> "read"]
<1>1. /\ job' = [job EXCEPT ![w] = new] /\ r \notin KeyedPlans /\ feed[r] # None /\ r \in Rows
      /\ UNCHANGED <<clock, feed, row, changes, kept, raced>>
  BY Kinds DEF Fetch, sources, database, history
<1>2. /\ new.row = r /\ new.item = feed[r] /\ new.old = None /\ new.at = "read" /\ feed[r].at \in Nat
  BY <1>1 DEF Typed, CatalogTypeOK, SourceTypes, ItemTypes
<1> HIDE DEF new
<1>3. \A v \in Deliverers : job'[v] = IF v = w THEN new ELSE job[v]
  BY <1>1 DEF Typed, CatalogTypeOK, JobsTyped
<1>4. Behind(feed[r], feed[r])
  BY <1>2 DEF Behind
<1>5. feed[r].first <= feed[r].at /\ feed[r].at <= clock
  BY <1>1 DEF ChartInv, ItemInv, FeedDated
<1>6. JobsDated'
  BY <1>1, <1>2, <1>3, <1>4, <1>5 DEF ChartInv, ItemInv, JobsDated
<1>7. \A v \in Deliverers : job[v] # None /\ job[v].row = r /\ job[v].item.at = feed[r].at => job[v].item.price = feed[r].price
  BY <1>1 DEF ChartInv, ItemInv, JobsDated, Behind
<1>8. JobsAgree'
  <2>1. SUFFICES ASSUME NEW u \in Deliverers, NEW v \in Deliverers, job'[u] # None, job'[v] # None, Same(u, v)'
                 PROVE  job'[u].item.price = job'[v].item.price
    BY DEF JobsAgree
  <2>2. CASE u # w /\ v # w
    BY <1>3, <2>1, <2>2 DEF ChartInv, ItemInv, JobsAgree, Same
  <2>3. CASE u = w /\ v # w
    BY <1>2, <1>3, <1>7, <2>1, <2>3 DEF Same
  <2>4. CASE u # w /\ v = w
    BY <1>2, <1>3, <1>7, <2>1, <2>4 DEF Same
  <2>5. CASE u = w /\ v = w
    BY <2>5
  <2> QED BY <2>2, <2>3, <2>4, <2>5
<1>9. RowsBehind'
  <2>1. SUFFICES ASSUME NEW s \in Rows \ raced, row[s] # None PROVE RowBehind(s)'
    BY <1>1 DEF RowsBehind
  <2>2. RowBehind(s)
    BY <2>1 DEF ChartInv, ItemInv, RowsBehind
  <2>3. ASSUME NEW v \in Deliverers, job'[v] # None, job'[v].row = s, job'[v].item.at = row[s].at
        PROVE  job'[v].item.price = row[s].price
    <3>1. CASE v # w
      BY <1>3, <2>2, <2>3, <3>1 DEF RowBehind, Agreed
    <3>2. CASE v = w
      <4>1. s = r /\ feed[r].at = row[r].at
        BY <1>2, <1>3, <2>3, <3>2
      <4>2. row[r].price = feed[r].price
        BY <1>1, <2>2, <4>1 DEF RowBehind, Behind
      <4> QED BY <1>2, <1>3, <3>2, <4>1, <4>2
    <3> QED BY <3>1, <3>2
  <2> QED BY <1>1, <2>2, <2>3 DEF RowBehind, Agreed
<1>10. FeedDated' /\ Ledgers'
  BY <1>1 DEF ChartInv, ItemInv, FeedDated, Ledgers
<1> QED BY <1>6, <1>8, <1>9, <1>10 DEF ChartInv, ItemInv

LEMMA ChartFetchKeyed == ASSUME Typed, ChartInv, NEW w \in Deliverers, NEW r \in Listed, FetchKeyed(w, r) PROVE ChartInv'
<1> DEFINE item == [feed[r] EXCEPT !.at = clock', !.first = clock']
           new == [row |-> r, old |-> None, at |-> "read", item |-> item]
<1>1. /\ job' = [job EXCEPT ![w] = new] /\ r \in KeyedPlans /\ feed[r] # None /\ r \in Rows \ Offers
      /\ clock' = clock + 1 /\ UNCHANGED <<feed, row, changes, kept, raced>>
  BY Kinds DEF FetchKeyed, database, history, Plans
<1>2. /\ clock \in Nat /\ item.at = clock + 1 /\ item.first = clock + 1
      /\ new.row = r /\ new.item = item /\ new.old = None /\ new.at = "read"
  BY <1>1 DEF Typed, CatalogTypeOK, SourceTypes, ItemTypes
<1> HIDE DEF new, item
<1>3. \A v \in Deliverers : job'[v] = IF v = w THEN new ELSE job[v]
  BY <1>1 DEF Typed, CatalogTypeOK, JobsTyped
<1>4. \A v \in Deliverers : job[v] # None => job[v].item.at \in Nat /\ job[v].item.at <= clock
  BY DEF Typed, CatalogTypeOK, JobsTyped, JobTypes, ItemTypes, ChartInv, ItemInv, JobsDated
<1>5. \A v \in Deliverers : job[v] # None => job[v].item.at < clock + 1
  BY <1>2, <1>4
<1>6. FeedDated'
  <2>1. \A s \in Listed : feed[s] # None => feed[s].at \in Nat
    BY DEF Typed, CatalogTypeOK, SourceTypes, ItemTypes
  <2> QED BY <1>1, <1>2, <2>1 DEF ChartInv, ItemInv, FeedDated
<1>7. JobsDated'
  <2>1. SUFFICES ASSUME NEW v \in Deliverers, job'[v] # None
                 PROVE  /\ job'[v].item.first <= job'[v].item.at /\ job'[v].item.at <= clock'
                        /\ job'[v].row \notin KeyedPlans => feed[job'[v].row] # None /\ Behind(job'[v].item, feed[job'[v].row])
                        /\ (job'[v].at = "write" /\ job'[v].old # None) => job'[v].old.at <= job'[v].item.at
    BY <1>1 DEF JobsDated, Behind
  <2>2. CASE v = w
    BY <1>1, <1>2, <1>3, <2>2
  <2>3. CASE v # w
    <3>1. job'[v] = job[v]
      BY <1>3, <2>3
    <3>2. job[v].item.at <= clock + 1
      BY <1>2, <1>4, <2>1, <3>1
    <3> QED BY <1>1, <2>1, <3>1, <3>2 DEF ChartInv, ItemInv, JobsDated
  <2> QED BY <2>2, <2>3
<1>8. JobsAgree'
  <2>1. SUFFICES ASSUME NEW u \in Deliverers, NEW v \in Deliverers, job'[u] # None, job'[v] # None, Same(u, v)'
                 PROVE  job'[u].item.price = job'[v].item.price
    BY DEF JobsAgree
  <2>2. CASE u # w /\ v # w
    BY <1>3, <2>1, <2>2 DEF ChartInv, ItemInv, JobsAgree, Same
  <2>3. CASE (u = w /\ v # w) \/ (u # w /\ v = w)
    BY <1>2, <1>3, <1>5, <2>1, <2>3 DEF Same
  <2>4. CASE u = w /\ v = w
    BY <2>4
  <2> QED BY <2>2, <2>3, <2>4
<1>9. RowsBehind'
  <2>1. SUFFICES ASSUME NEW s \in Rows \ raced, row[s] # None PROVE RowBehind(s)'
    BY <1>1 DEF RowsBehind
  <2>2. RowBehind(s)
    BY <2>1 DEF ChartInv, ItemInv, RowsBehind
  <2>3. ASSUME NEW v \in Deliverers, job'[v] # None, job'[v].row = s, job'[v].item.at = row[s].at
        PROVE  job'[v].item.price = row[s].price
    <3>1. CASE v # w
      BY <1>3, <2>2, <2>3, <3>1 DEF RowBehind, Agreed
    <3>2. CASE v = w
      <4>1. s = r /\ row[r].at = clock + 1
        BY <1>2, <1>3, <2>3, <3>2
      <4>2. row[r].at <= clock /\ row[r].at \in Nat
        BY <1>1, <2>1, <4>1 DEF ChartInv, Ledgers, Ledger
      <4> QED BY <1>2, <4>1, <4>2
    <3> QED BY <3>1, <3>2
  <2> QED BY <1>1, <2>2, <2>3 DEF RowBehind, Agreed
<1>10. Ledgers'
  <2>1. \A R, C, K : Ledger(R, C, K, clock) => Ledger(R, C, K, clock + 1)
    BY <1>2, LedgerLater
  <2> QED BY <1>1, <2>1 DEF ChartInv, Ledgers
<1> QED BY <1>6, <1>7, <1>8, <1>9, <1>10 DEF ChartInv, ItemInv

LEMMA ChartRead == ASSUME Typed, ChartInv, NEW w \in Deliverers, Read(w) PROVE ChartInv'
<1> DEFINE r == job[w].row
           new == [job[w] EXCEPT !.old = row[r], !.at = "write"]
<1>1. /\ job[w] # None /\ job[w] \in JobTypes /\ r \in Rows /\ row[r] \in RowTypes \cup {None} /\ ~Held(r, job[w].item, row[r])
      /\ UNCHANGED <<clock, feed, row, changes, kept, raced>>
  BY Kinds DEF Read, Typed, CatalogTypeOK, JobsTyped, JobTypes, RowsTyped, sources, history
<1>2. job' = [job EXCEPT ![w] = new]
  BY <1>1 DEF Read, Typed, CatalogTypeOK, JobsTyped, JobTypes
<1>3. new.row = r /\ new.item = job[w].item /\ new.old = row[r]
  BY <1>1 DEF JobTypes
<1>4. row[r] # None => row[r].at <= job[w].item.at
  BY <1>1 DEF Held, RowTypes, JobTypes, ItemTypes
<1> HIDE DEF new
<1>5. \A v \in Deliverers : job'[v] = IF v = w THEN new ELSE job[v]
  BY <1>2 DEF Typed, CatalogTypeOK, JobsTyped
<1>6. \A v \in Deliverers : job'[v] # None => job[v] # None /\ job'[v].row = job[v].row /\ job'[v].item = job[v].item
  BY <1>1, <1>3, <1>5
<1>7. JobsDated'
  <2>1. \A v \in Deliverers : (job'[v] # None /\ job'[v].at = "write" /\ job'[v].old # None) => job'[v].old.at <= job'[v].item.at
    BY <1>3, <1>4, <1>5 DEF ChartInv, ItemInv, JobsDated
  <2> QED BY <1>1, <1>6, <2>1 DEF ChartInv, ItemInv, JobsDated
<1>8. JobsAgree'
  BY <1>6 DEF ChartInv, ItemInv, JobsAgree, Same
<1>9. RowsBehind'
  BY <1>1, <1>6 DEF ChartInv, ItemInv, RowsBehind, RowBehind, Agreed
<1>10. FeedDated' /\ Ledgers'
  BY <1>1 DEF ChartInv, ItemInv, FeedDated, Ledgers
<1> QED BY <1>7, <1>8, <1>9, <1>10 DEF ChartInv, ItemInv

\* The change row a save leaves: none at a moment that has one, none without a change.
LEMMA NotedRests ==
    ASSUME DOMAIN changes = Rows, NEW r \in Rows, NEW at, NEW before, NEW after
    PROVE  /\ DOMAIN Noted(r, at, before, after) = Rows
           /\ \A s \in Rows : s # r => Noted(r, at, before, after)[s] = changes[s]
<1>1. CASE before = after \/ at \in Times(changes[r]) \/ r \in Offers
  BY <1>1 DEF Noted
<1>2. CASE ~(before = after \/ at \in Times(changes[r]) \/ r \in Offers)
  BY <1>2 DEF Noted
<1> QED BY <1>1, <1>2

LEMMA NotedIs ==
    ASSUME DOMAIN changes = Rows, NEW r \in Rows, r \notin Offers,
           NEW R, NEW K, NEW now, Ledger(R, changes[r], K, now),
           NEW at \in Nat, R.at <= at, NEW price,
           at = R.at => price = R.price \/ at \notin Times(changes[r])
    PROVE  Noted(r, at, R.price, price)[r]
             = IF price = R.price THEN changes[r] ELSE changes[r] \cup {[at |-> at, before |-> R.price, after |-> price]}
<1>1. CASE price = R.price
  BY <1>1 DEF Noted
<1>2. CASE price # R.price
  <2>1. at \notin Times(changes[r])
    <3>1. \A c \in changes[r] : c.at \in Nat /\ c.at <= R.at
      BY DEF Ledger, Dated
    <3>2. CASE at = R.at
      BY <1>2, <3>2
    <3>3. CASE at # R.at
      <4>1. \A c \in changes[r] : c.at # at
        BY <3>1, <3>3 DEF Ledger
      <4> QED BY <4>1 DEF Times
    <3> QED BY <3>2, <3>3
  <2> QED BY <1>2, <2>1 DEF Noted
<1> QED BY <1>1, <1>2

\* A price kept for one row.
LEMMA KeptPut ==
    ASSUME DOMAIN kept = Rows, NEW r \in Rows, NEW K, kept' = [kept EXCEPT ![r] = K]
    PROVE  DOMAIN kept' = Rows /\ kept'[r] = K /\ \A s \in Rows : s # r => kept'[s] = kept[s]
  OBVIOUS

LEMMA JobEnded == ASSUME Typed, NEW w \in Deliverers, job' = [job EXCEPT ![w] = None] PROVE Ended
  BY DEF Ended, Typed, CatalogTypeOK, JobsTyped

LEMMA ChartHold == ASSUME Typed, ChartInv, NEW w \in Deliverers, Hold(w) PROVE ChartInv'
<1>1. job' = [job EXCEPT ![w] = None] /\ UNCHANGED <<clock, feed, row, changes, kept, raced>>
  BY DEF Hold, database, history
<1>2. Ended
  BY <1>1, JobEnded
<1> QED BY <1>1, <1>2, RowsRest

LEMMA ChartUnlist == ASSUME Typed, ChartInv, NEW w \in Deliverers, Unlist(w) PROVE ChartInv'
<1> DEFINE r == job[w].row
           new == [row[r] EXCEPT !.status = IF r \in Registrars THEN EndingRemoved(r) ELSE OfferRemoved(r)]
<1>1. r \in Rows
  BY Kinds DEF Unlist, Typed, CatalogTypeOK, JobsTyped, JobTypes
<1>2. /\ job' = [job EXCEPT ![w] = None] /\ UNCHANGED <<clock, feed, changes, kept>>
      /\ raced \subseteq raced' /\ raced' \subseteq raced \cup {r}
      /\ row' = IF row[r] = None \/ r \in Plans THEN row ELSE [row EXCEPT ![r] = new]
  BY DEF Unlist
<1>3. Ended
  BY <1>2, JobEnded
<1>4. CASE row[r] = None \/ r \in Plans
  BY <1>2, <1>3, <1>4, RowsRest
<1>5. CASE ~(row[r] = None \/ r \in Plans)
  <2>1. row \in [Rows -> RowTypes \cup {None}] /\ row[r] \in RowTypes
    BY <1>1, <1>5 DEF Typed, CatalogTypeOK, RowsTyped
  <2>2. new.first = row[r].first /\ new.at = row[r].at /\ new.price = row[r].price
    BY <2>1 DEF RowTypes
  <2>3. new # None
    <3>1. EndingRemoved(r) \in Statuses /\ OfferRemoved(r) \in Statuses
      BY <2>1 DEF EndingRemoved, OfferRemoved, RowTypes, Statuses
    <3>2. new \in RowTypes
      BY <2>1, <3>1 DEF RowTypes
    <3> HIDE DEF new
    <3> QED BY <3>2, NoneApart
  <2> HIDE DEF new, r
  <2>4. row'[r] = new /\ \A s \in Rows : s # r => row'[s] = row[s]
    BY <1>1, <1>2, <1>5, <2>1
  <2>5. OnlyRow(r)
    BY <1>2, <2>3, <2>4 DEF OnlyRow, ChartInv, Ledgers
  <2>6. r \notin raced' => RowBehind(r)
    BY <1>1, <1>2, <1>5 DEF ChartInv, ItemInv, RowsBehind
  <2>7. ItemInv'
    <3>1. r \notin raced' =>
            /\ \A v \in Deliverers : job[v] # None /\ job[v].row = r /\ job[v].item.at = row'[r].at
                                        => job[v].item.price = row'[r].price
            /\ r \in Listed \ KeyedPlans => feed[r] # None /\ Behind(row'[r], feed[r])
      BY <2>2, <2>4, <2>6 DEF RowBehind, Agreed, Behind
    <3> QED BY <1>1, <1>2, <1>3, <2>5, <3>1, ItemsOf DEF ChartInv
  <2>8. Ledgers'
    <3>1. r \notin raced' \cup Offers => Ledger(row'[r], changes'[r], kept'[r], clock)
      <4>1. SUFFICES ASSUME r \notin raced' \cup Offers PROVE Ledger(new, changes[r], kept[r], clock)
        BY <1>2, <2>4
      <4>2. Ledger(row[r], changes[r], kept[r], clock)
        BY <1>1, <1>2, <1>5, <4>1 DEF ChartInv, Ledgers
      <4> QED BY <2>2, <4>2, LedgerStays
    <3> QED BY <1>1, <1>2, <2>5, <3>1, LedgersOf DEF ChartInv
  <2> QED BY <2>7, <2>8 DEF ChartInv
<1> QED BY <1>4, <1>5

LEMMA ChartUpdate == ASSUME Typed, ChartInv, NEW w \in Deliverers, Update(w) PROVE ChartInv'
<1> DEFINE r == job[w].row
           item == job[w].item
           old == job[w].old
           new == Written(r, item, old)
           K == Over(At(item.at, item.price), kept[r])
<1>1. /\ r \in Rows /\ r \in Listed /\ row[r] \in RowTypes /\ item \in ItemTypes /\ old # None
      /\ job[w] # None /\ job[w].at = "write"
  BY Kinds, NoneApart DEF Update, Typed, CatalogTypeOK, JobsTyped, JobTypes, RowsTyped, PagesKnown, JobsKnown
<1>2. new.first = row[r].first /\ new.at = item.at /\ new.price = item.price /\ new # None
  <2>1. new.first = row[r].first /\ new.at = item.at /\ new.price = item.price
    BY <1>1 DEF Written, RowTypes
  <2>2. StatusWritten(r, old) \in Statuses
    <3>1. old \in RowTypes
      BY <1>1, NoneApart DEF Typed, CatalogTypeOK, JobsTyped, JobTypes
    <3> QED BY <1>1, <3>1 DEF StatusWritten, RowTypes, Statuses
  <2>3. new \in RowTypes
    BY <1>1, <2>2 DEF Written, RowTypes, ItemTypes
  <2> HIDE DEF new
  <2> QED BY <2>1, <2>3, NoneApart
<1>3. /\ job' = [job EXCEPT ![w] = None] /\ UNCHANGED <<clock, feed>>
      /\ raced \subseteq raced' /\ raced' \subseteq raced \cup {r} /\ (r \notin raced' => row[r] = old)
      /\ row' = [row EXCEPT ![r] = new] /\ kept' = [kept EXCEPT ![r] = K]
      /\ changes' = Noted(r, item.at, old.price, item.price)
  BY DEF Update
<1>4. Ended
  BY <1>3, JobEnded
<1>5. clock \in Nat /\ item.at \in Nat /\ item.price \in Nat /\ item.at <= clock
  BY <1>1, CatalogAssumption DEF Typed, CatalogTypeOK, SourceTypes, ItemTypes, ChartInv, ItemInv, JobsDated
<1>6. r \notin raced' => /\ row[r].at <= item.at /\ (item.at = row[r].at => item.price = row[r].price)
                         /\ row[r].price = old.price
  <2>1. SUFFICES ASSUME r \notin raced' PROVE row[r].at <= item.at /\ (item.at = row[r].at => item.price = row[r].price)
    BY <1>3
  <2>2. row[r] = old /\ row[r].at <= item.at
    BY <1>1, <1>3, <2>1 DEF ChartInv, ItemInv, JobsDated
  <2>3. Agreed(r)
    BY <1>1, <1>3, <2>1, <2>2 DEF ChartInv, ItemInv, RowsBehind, RowBehind
  <2> QED BY <1>1, <2>2, <2>3 DEF Agreed
<1>7. /\ \A v \in Deliverers : job[v] # None /\ job[v].row = r /\ job[v].item.at = item.at => job[v].item.price = item.price
      /\ r \notin KeyedPlans => feed[r] # None /\ Behind(item, feed[r])
  BY <1>1 DEF ChartInv, ItemInv, JobsDated, JobsAgree, Same
<1>8. row \in [Rows -> RowTypes \cup {None}] /\ DOMAIN changes = Rows /\ DOMAIN kept = Rows
  BY DEF Typed, CatalogTypeOK, RowsTyped, ChartInv, Ledgers
<1> HIDE DEF r, item, old, new, K
<1>9. row'[r] = new /\ \A s \in Rows : s # r => row'[s] = row[s]
  BY <1>1, <1>3, <1>8
<1>10. DOMAIN kept' = Rows /\ kept'[r] = K /\ \A s \in Rows : s # r => kept'[s] = kept[s]
  BY <1>1, <1>3, <1>8, KeptPut
<1>11. DOMAIN changes' = Rows /\ \A s \in Rows : s # r => changes'[s] = changes[s]
  BY <1>1, <1>3, <1>8, NotedRests
<1>12. OnlyRow(r)
  BY <1>2, <1>3, <1>9, <1>10, <1>11 DEF OnlyRow
<1>13. ItemInv'
  <2>1. r \notin raced' =>
          /\ \A v \in Deliverers : job[v] # None /\ job[v].row = r /\ job[v].item.at = row'[r].at
                                      => job[v].item.price = row'[r].price
          /\ r \in Listed \ KeyedPlans => feed[r] # None /\ Behind(row'[r], feed[r])
    BY <1>2, <1>7, <1>9 DEF Behind
  <2> QED BY <1>1, <1>3, <1>4, <1>12, <2>1, ItemsOf DEF ChartInv
<1>14. Ledgers'
  <2>1. r \notin raced' \cup Offers => Ledger(row'[r], changes'[r], kept'[r], clock)
    <3> DEFINE R == row[r]
               C == changes[r]
    <3>1. SUFFICES ASSUME r \notin raced' \cup Offers PROVE Ledger(new, changes'[r], K, clock)
      BY <1>9, <1>10
    <3>2. Ledger(R, C, kept[r], clock)
      BY <1>1, <1>3, <3>1, NoneApart DEF ChartInv, Ledgers
    <3>3. changes'[r] = IF item.price = R.price THEN C ELSE C \cup {[at |-> item.at, before |-> R.price, after |-> item.price]}
      <4> DEFINE at == item.at
                 price == item.price
      <4>1. /\ DOMAIN changes = Rows /\ r \in Rows /\ r \notin Offers /\ Ledger(R, changes[r], kept[r], clock)
            /\ at \in Nat /\ R.at <= at /\ (at = R.at => price = R.price) /\ changes' = Noted(r, at, R.price, price)
        BY <1>1, <1>3, <1>5, <1>6, <1>8, <3>1, <3>2
      <4> HIDE DEF at, price, R
      <4>2. Noted(r, at, R.price, price)[r]
              = IF price = R.price THEN changes[r] ELSE changes[r] \cup {[at |-> at, before |-> R.price, after |-> price]}
        BY <4>1, NotedIs
      <4> QED BY <4>1, <4>2 DEF at, price
    <3> HIDE DEF R, C
    <3>4. new.first = R.first /\ new.at = item.at /\ new.price = item.price /\ R.at <= item.at /\ (item.at = R.at => item.price = R.price)
      BY <1>2, <1>6, <3>1 DEF R
    <3> DEFINE D == changes'[r]
    <3>5. D = IF new.price = R.price THEN C ELSE C \cup {[at |-> new.at, before |-> R.price, after |-> new.price]}
      BY <3>3, <3>4
    <3> HIDE DEF D
    <3>6. Ledger(new, D, Over(At(new.at, new.price), kept[r]), clock)
      BY <1>5, <3>2, <3>4, <3>5, LedgerPut
    <3> QED BY <3>4, <3>6 DEF D, K
  <2> QED BY <1>1, <1>3, <1>12, <2>1, LedgersOf DEF ChartInv
<1> QED BY <1>13, <1>14 DEF ChartInv

LEMMA ChartInsert == ASSUME Typed, ChartInv, NEW w \in Deliverers, Insert(w) PROVE ChartInv'
<1> DEFINE r == job[w].row
           item == job[w].item
           new == [price |-> item.price, at |-> item.at, first |-> item.first, status |-> "active"]
           K == Over(At(item.first, item.price), At(item.at, item.price))
<1>1. r \in Rows /\ r \in Listed /\ item \in ItemTypes /\ job[w] # None
  BY Kinds DEF Insert, Typed, CatalogTypeOK, JobsTyped, JobTypes
<1>2. /\ job' = [job EXCEPT ![w] = None] /\ UNCHANGED <<clock, feed, changes>>
      /\ row[r] # None => UNCHANGED <<row, kept, raced>>
      /\ row[r] = None => /\ raced \subseteq raced' /\ raced' \subseteq raced \cup {r}
                          /\ row' = [row EXCEPT ![r] = new] /\ kept' = [kept EXCEPT ![r] = K]
  BY DEF Insert
<1>3. Ended
  BY <1>2, JobEnded
<1>4. CASE row[r] # None
  BY <1>2, <1>3, <1>4, RowsRest
<1>5. CASE row[r] = None
  <2>1. new.first = item.first /\ new.at = item.at /\ new.price = item.price /\ new # None
    <3>1. new \in RowTypes
      BY <1>1 DEF ItemTypes, RowTypes, Statuses
    <3>2. new.first = item.first /\ new.at = item.at /\ new.price = item.price
      OBVIOUS
    <3> HIDE DEF new
    <3> QED BY <3>1, <3>2, NoneApart
  <2>2. /\ clock \in Nat /\ item.at \in Nat /\ item.price \in Nat /\ item.first \in Nat
        /\ item.first <= item.at /\ item.at <= clock
    BY <1>1, CatalogAssumption DEF Typed, CatalogTypeOK, SourceTypes, ItemTypes, ChartInv, ItemInv, JobsDated
  <2>3. /\ \A v \in Deliverers : job[v] # None /\ job[v].row = r /\ job[v].item.at = item.at => job[v].item.price = item.price
        /\ r \notin KeyedPlans => feed[r] # None /\ Behind(item, feed[r])
    BY <1>1 DEF ChartInv, ItemInv, JobsDated, JobsAgree, Same
  <2>4. row \in [Rows -> RowTypes \cup {None}] /\ DOMAIN changes = Rows /\ DOMAIN kept = Rows
    BY DEF Typed, CatalogTypeOK, RowsTyped, ChartInv, Ledgers
  <2> HIDE DEF r, item, new, K
  <2>5. row'[r] = new /\ \A s \in Rows : s # r => row'[s] = row[s]
    BY <1>1, <1>2, <1>5, <2>4
  <2>6. DOMAIN kept' = Rows /\ kept'[r] = K /\ \A s \in Rows : s # r => kept'[s] = kept[s]
    BY <1>1, <1>2, <1>5, <2>4, KeptPut
  <2>7. OnlyRow(r)
    BY <1>2, <1>5, <2>1, <2>4, <2>5, <2>6 DEF OnlyRow
  <2>8. ItemInv'
    <3>1. r \notin raced' =>
            /\ \A v \in Deliverers : job[v] # None /\ job[v].row = r /\ job[v].item.at = row'[r].at
                                        => job[v].item.price = row'[r].price
            /\ r \in Listed \ KeyedPlans => feed[r] # None /\ Behind(row'[r], feed[r])
      BY <2>1, <2>3, <2>5 DEF Behind
    <3> QED BY <1>1, <1>2, <1>3, <2>7, <3>1, ItemsOf DEF ChartInv
  <2>9. Ledgers'
    <3>1. r \notin raced' \cup Offers => Ledger(row'[r], changes'[r], kept'[r], clock)
      <4>1. SUFFICES ASSUME r \notin Offers PROVE Ledger(new, changes[r], K, clock)
        BY <1>2, <2>5, <2>6
      <4>2. changes[r] = {}
        BY <1>1, <1>5, <4>1 DEF ChartInv, Ledgers
      <4>3. Ledger(new, {}, Over(At(new.first, new.price), At(new.at, new.price)), clock)
        BY <2>1, <2>2, LedgerNew
      <4> QED BY <2>1, <4>2, <4>3 DEF K
    <3> QED BY <1>1, <1>2, <2>7, <3>1, LedgersOf DEF ChartInv
  <2> QED BY <2>8, <2>9 DEF ChartInv
<1> QED BY <1>4, <1>5

LEMMA ChartSavePlan == ASSUME Typed, ChartInv, NEW e \in Editors, SavePlan(e) PROVE ChartInv'
<1> DEFINE r == edit[e].target
           current == edit[e].current
           new == Saved(e, r)
           K == Over(At(new.at, new.price), kept[r])
<1>1. /\ r \in Plans /\ r \in Rows /\ r \notin Offers /\ row[r] \in RowTypes /\ new \in RowTypes
      /\ current \in RowTypes /\ edit[e].input \in Inputs(r) /\ row' = [row EXCEPT ![r] = new]
  BY SavePlanWrites, Kinds
<1>2. new.first = row[r].first /\ new # None /\ row[r] # None
  <2>1. new.first = row[r].first
    BY <1>1 DEF Saved, RowTypes
  <2> HIDE DEF new
  <2> QED BY <1>1, <2>1, NoneApart
<1>3. edit[e].input.field = "price" => (r \notin raced' => InTurn(r, new.at, new.price)) /\ r \notin Listed
  <2>1. ASSUME edit[e].input.field = "price"
        PROVE  new.at = OrNow(edit[e].input.date) /\ new.price = edit[e].input.value /\ r \notin Listed
    BY <1>1, <2>1, Kinds DEF Saved, RowTypes, Inputs
  <2> QED BY <2>1 DEF SavePlan
<1>4. edit[e].input.field # "price" => new.at = current.at /\ new.price = current.price
  BY <1>1 DEF Saved, RowTypes
<1>5. /\ UNCHANGED <<clock, feed, job>>
      /\ raced \subseteq raced' /\ raced' \subseteq raced \cup {r} /\ (r \notin raced' => row[r] = current)
  BY DEF SavePlan, sources
<1>6. kept' = [kept EXCEPT ![r] = K] /\ changes' = Noted(r, new.at, current.price, new.price)
  BY <1>1 DEF SavePlan, Saved, RowTypes
<1>7. Ended
  BY <1>5 DEF Ended, Typed, CatalogTypeOK, JobsTyped
<1>8. clock \in Nat /\ new.at \in Nat /\ new.price \in Nat /\ row[r].at \in Nat
  BY <1>1, CatalogAssumption DEF Typed, CatalogTypeOK, SourceTypes, RowTypes
<1>9. row \in [Rows -> RowTypes \cup {None}] /\ DOMAIN changes = Rows /\ DOMAIN kept = Rows
  BY DEF Typed, CatalogTypeOK, RowsTyped, ChartInv, Ledgers
<1> HIDE DEF r, new, K, current
<1>10. r \notin raced' => /\ Ledger(row[r], changes[r], kept[r], clock) /\ RowBehind(r)
                          /\ row[r].at <= clock /\ row[r].price = current.price /\ row[r].at = current.at
  <2>1. SUFFICES ASSUME r \notin raced' PROVE Ledger(row[r], changes[r], kept[r], clock) /\ RowBehind(r)
    BY <1>5 DEF Ledger
  <2> QED BY <1>1, <1>2, <1>5, <2>1 DEF ChartInv, Ledgers, ItemInv, RowsBehind
<1>11. r \notin raced' => /\ row[r].at <= new.at /\ new.at <= clock
                          /\ (new.at = row[r].at => new.price = row[r].price \/ new.at \notin Times(changes[r]))
                          /\ (r \in Listed => new.at = row[r].at /\ new.price = row[r].price)
  <2>1. CASE edit[e].input.field = "price"
    BY <1>3, <2>1 DEF InTurn
  <2>2. CASE edit[e].input.field # "price"
    BY <1>4, <1>8, <1>10, <2>2
  <2> QED BY <2>1, <2>2
<1>12. row'[r] = new /\ \A s \in Rows : s # r => row'[s] = row[s]
  BY <1>1, <1>9
<1>13. DOMAIN kept' = Rows /\ kept'[r] = K /\ \A s \in Rows : s # r => kept'[s] = kept[s]
  BY <1>1, <1>6, <1>9, KeptPut
<1>14. DOMAIN changes' = Rows /\ \A s \in Rows : s # r => changes'[s] = changes[s]
  <2> DEFINE at == new.at
             before == current.price
             after == new.price
  <2>1. changes' = Noted(r, at, before, after)
    BY <1>6
  <2> HIDE DEF at, before, after
  <2> QED BY <1>1, <1>9, <2>1, NotedRests
<1>15. OnlyRow(r)
  BY <1>2, <1>5, <1>12, <1>13, <1>14 DEF OnlyRow
<1>16. ItemInv'
  <2>1. r \notin raced' =>
          /\ \A v \in Deliverers : job[v] # None /\ job[v].row = r /\ job[v].item.at = row'[r].at
                                      => job[v].item.price = row'[r].price
          /\ r \in Listed \ KeyedPlans => feed[r] # None /\ Behind(row'[r], feed[r])
    <3>1. SUFFICES ASSUME r \notin raced'
                   PROVE  /\ \A v \in Deliverers : job[v] # None /\ job[v].row = r /\ job[v].item.at = new.at
                                                      => job[v].item.price = new.price
                          /\ r \in Listed \ KeyedPlans => feed[r] # None /\ Behind(new, feed[r])
      BY <1>12
    <3>2. \A v \in Deliverers : job[v] # None => job[v].row \in Listed
      BY DEF Typed, CatalogTypeOK, JobsTyped, JobTypes
    <3> QED BY <1>10, <1>11, <3>1, <3>2 DEF RowBehind, Agreed, Behind
  <2> QED BY <1>1, <1>5, <1>7, <1>15, <2>1, ItemsOf DEF ChartInv
<1>17. Ledgers'
  <2>1. r \notin raced' \cup Offers => Ledger(row'[r], changes'[r], kept'[r], clock)
    <3> DEFINE R == row[r]
               at == new.at
               price == new.price
    <3>1. SUFFICES ASSUME r \notin raced' PROVE Ledger(new, changes'[r], K, clock)
      BY <1>12, <1>13
    <3>2. /\ DOMAIN changes = Rows /\ r \in Rows /\ r \notin Offers /\ Ledger(R, changes[r], kept[r], clock) /\ clock \in Nat
          /\ at \in Nat /\ price \in Nat /\ R.at <= at /\ at <= clock
          /\ (at = R.at => price = R.price \/ at \notin Times(changes[r])) /\ changes' = Noted(r, at, R.price, price)
          /\ new.first = R.first /\ new.at = at /\ new.price = price
      BY <1>1, <1>2, <1>6, <1>8, <1>9, <1>10, <1>11, <3>1
    <3> HIDE DEF R, at, price
    <3>3. Noted(r, at, R.price, price)[r]
            = IF price = R.price THEN changes[r] ELSE changes[r] \cup {[at |-> at, before |-> R.price, after |-> price]}
      BY <3>2, NotedIs
    <3> DEFINE C == changes[r]
               D == changes'[r]
    <3>4. /\ Ledger(R, C, kept[r], clock)
          /\ D = IF new.price = R.price THEN C ELSE C \cup {[at |-> new.at, before |-> R.price, after |-> new.price]}
          /\ new.at = R.at => new.price = R.price \/ new.at \notin Times(C)
      BY <3>2, <3>3
    <3> HIDE DEF C, D
    <3>5. Ledger(new, D, Over(At(new.at, new.price), kept[r]), clock)
      BY <3>2, <3>4, LedgerPut
    <3> QED BY <3>5 DEF D, K
  <2> QED BY <1>1, <1>5, <1>15, <2>1, LedgersOf DEF ChartInv
<1> QED BY <1>16, <1>17 DEF ChartInv

LEMMA ChartCreate ==
    ASSUME Typed, ChartInv, NEW r \in StaffPlans, NEW price \in Prices \ {0}, NEW date \in Dates \cup {None},
           Create(r, price, date)
    PROVE  ChartInv'
<1> DEFINE new == [price |-> price, at |-> OrNow(date), first |-> clock, status |-> "active"]
           K == At(clock, price)
<1>1. /\ r \in Rows /\ r \notin Offers /\ r \notin Listed /\ row[r] = None /\ clock \in Nat /\ price \in Nat
      /\ row' = [row EXCEPT ![r] = new] /\ kept' = [kept EXCEPT ![r] = K] /\ UNCHANGED <<clock, feed, job, changes>>
      /\ raced' = IF OrNow(date) = clock THEN raced ELSE raced \cup {r}
  BY Kinds, CatalogAssumption DEF Create, Plans, sources, Typed, CatalogTypeOK, SourceTypes
<1>2. new.first = clock /\ new.at = OrNow(date) /\ new.price = price /\ new # None
  <2>1. new \in RowTypes
    <3>1. OrNow(date) \in Nat
      BY <1>1, CatalogAssumption DEF Dates, OrNow
    <3> QED BY <1>1, <3>1 DEF RowTypes, Statuses
  <2>2. new.first = clock /\ new.at = OrNow(date) /\ new.price = price
    OBVIOUS
  <2> HIDE DEF new
  <2> QED BY <2>1, <2>2, NoneApart
<1>3. K = Over(K, K)
  BY DEF Over, At
<1>4. row \in [Rows -> RowTypes \cup {None}] /\ DOMAIN changes = Rows /\ DOMAIN kept = Rows
  BY DEF Typed, CatalogTypeOK, RowsTyped, ChartInv, Ledgers
<1>5. Ended
  BY <1>1 DEF Ended, Typed, CatalogTypeOK, JobsTyped
<1> HIDE DEF new, K
<1>6. row'[r] = new /\ \A s \in Rows : s # r => row'[s] = row[s]
  BY <1>1, <1>4
<1>7. DOMAIN kept' = Rows /\ kept'[r] = K /\ \A s \in Rows : s # r => kept'[s] = kept[s]
  BY <1>1, <1>4, KeptPut
<1>8. OnlyRow(r)
  BY <1>1, <1>2, <1>4, <1>6, <1>7 DEF OnlyRow
<1>9. ItemInv'
  <2>1. \A v \in Deliverers : job[v] # None => job[v].row # r
    BY <1>1 DEF Typed, CatalogTypeOK, JobsTyped, JobTypes
  <2> QED BY <1>1, <1>5, <1>8, <2>1, ItemsOf DEF ChartInv
<1>10. Ledgers'
  <2>1. ASSUME r \notin raced' PROVE Ledger(row'[r], changes'[r], kept'[r], clock)
    <3> OrNow(date) = clock
      BY <1>1, <2>1
    <3>1. changes[r] = {}
      BY <1>1 DEF ChartInv, Ledgers
    <3>2. Ledger(new, {}, Over(At(new.first, new.price), At(new.at, new.price)), clock)
      BY <1>1, <1>2, LedgerNew
    <3>3. Over(At(new.first, new.price), At(new.at, new.price)) = K
      BY <1>2, <1>3 DEF K
    <3> QED BY <1>1, <1>6, <1>7, <3>1, <3>2, <3>3
  <2> QED BY <1>1, <1>8, <2>1, LedgersOf DEF ChartInv
<1> QED BY <1>9, <1>10 DEF ChartInv

LEMMA ChartRestart == ASSUME Typed, ChartInv, Restart PROVE ChartInv'
<1>1. job' = [w \in DOMAIN job |-> None] /\ UNCHANGED <<clock, feed, row, changes, kept, raced>>
  BY DEF Restart, sources, database
<1>2. Ended
  BY <1>1 DEF Ended, Typed, CatalogTypeOK, JobsTyped
<1> QED BY <1>1, <1>2, RowsRest

LEMMA ChartStep == Typed /\ ChartInv /\ [CatalogNext]_catalogVars => ChartInv'
<1> SUFFICES ASSUME Typed, ChartInv, [CatalogNext]_catalogVars PROVE ChartInv'
  OBVIOUS
<1>1. ASSUME UNCHANGED <<clock, feed, row, changes, kept, raced, job>> PROVE ChartInv'
  <2>1. Ended
    BY <1>1 DEF Ended, Typed, CatalogTypeOK, JobsTyped
  <2> QED BY <1>1, <2>1, RowsRest
<1>2. CASE UNCHANGED catalogVars
  BY <1>1, <1>2 DEF catalogVars, sources, database, history
<1>3. CASE Tick \/ (\E r \in Listed : Delist(r) \/ (\E p \in Prices : Restate(r, p)))
  BY <1>3, ChartTick, ChartDelist, ChartRestate
<1>4. ASSUME NEW w \in Deliverers, Deliver(w) PROVE ChartInv'
  BY <1>4, ChartUnlist, ChartHold, ChartRead, ChartUpdate, ChartInsert DEF Deliver
<1>5. ASSUME NEW w \in Deliverers, NEW r \in Listed, Fetch(w, r) \/ FetchKeyed(w, r) PROVE ChartInv'
  BY <1>5, ChartFetch, ChartFetchKeyed
<1>6. ASSUME NEW e \in Editors, SaveProvider(e) PROVE ChartInv'
  BY <1>1, <1>6 DEF SaveProvider, sources
<1>7. ASSUME NEW e \in Editors, SavePlan(e) PROVE ChartInv'
  BY <1>7, ChartSavePlan
<1>8. ASSUME NEW e \in Editors, NEW t \in {"provider"} \cup Plans, NEW i \in Inputs(t), SaveRead(e, t, i) PROVE ChartInv'
  BY <1>1, <1>8 DEF SaveRead, sources, database, history
<1>9. ASSUME NEW r \in StaffPlans, NEW p \in Prices \ {0}, NEW date \in Dates \cup {None}, Create(r, p, date) PROVE ChartInv'
  BY <1>9, ChartCreate
<1>10. CASE (\E p \in Pages : ViewStart(p) \/ SyncRead(p)) \/ ViewCreate \/ (\E answered \in BOOLEAN : SyncPut(answered))
  BY <1>1, <1>10 DEF ViewStart, SyncRead, ViewCreate, SyncPut, sources, database, history
<1>11. CASE \E s \in Sweepers : SweepRead(s) \/ SweepSend(s)
  BY <1>1, <1>11 DEF SweepRead, SweepSend, sources, database, history
<1>12. CASE Restart
  BY <1>12, ChartRestart
<1> QED BY <1>2, <1>3, <1>4, <1>5, <1>6, <1>7, <1>8, <1>9, <1>10, <1>11, <1>12 DEF CatalogNext

(***************************************************************************)
(* What the charts tell of a ledger.                                       *)
(***************************************************************************)
LEMMA ChangingPast ==
    ASSUME NEW R, NEW C, NEW K, NEW now, Ledger(R, C, K, now)
    PROVE  Timeline(Changing(R, C)) /\ \A u \in DOMAIN Changing(R, C) : u <= R.at
<1>1. DOMAIN Changing(R, C) = {R.first} \cup Times(C) /\ Timeline(Changing(R, C))
  BY ChangingDomain DEF Ledger
<1>2. \A c \in C : c.at <= R.at
  BY DEF Ledger
<1> QED BY <1>1, <1>2 DEF Times, Ledger

\* A plan's trend holds the price kept at every moment, and ends with the row's.
LEMMA PlanTells ==
    ASSUME NEW R, NEW C, NEW K, NEW now \in Nat, Ledger(R, C, K, now)
    PROVE  /\ \A t \in R.first .. now : StepAt(PlanTrend(R, C, now), t, None) = StepAt(K, t, None)
           /\ Summary(PlanTrend(R, C, now)).now = R.price
<1> DEFINE trend == PlanTrend(R, C, now)
           told == Changing(R, C)
<1>1. /\ R.first \in Nat /\ R.at \in Nat /\ R.first <= R.at /\ R.at <= now /\ Dated(C, R.first) /\ (\A c \in C : c.at <= R.at)
      /\ \A t \in Nat : StepAt(told, t, None) = StepAt(K, t, None)
  BY DEF Ledger
<1>2. \A t \in R.first .. now : t \in Nat
  BY <1>1
<1>3. CASE C = {}
  <2>1. trend = told /\ trend = At(R.first, R.price)
    BY <1>3 DEF PlanTrend, Changing
  <2>2. DOMAIN trend = {R.first} /\ trend[R.first] = R.price
    BY <2>1 DEF At
  <2>3. Max({R.first}) = R.first
    <3> DEFINE S == {R.first}
               m == R.first
    <3>1. S \in SUBSET Int /\ m \in S /\ \A x \in S : x <= m
      BY <1>1
    <3> HIDE DEF S, m
    <3>2. Max(S) = m
      BY <3>1, MaxIs
    <3> QED BY <3>2 DEF S, m
  <2> HIDE DEF told, trend
  <2>4. Summary(trend).now = R.price
    BY <2>2, <2>3 DEF Summary
  <2> QED BY <1>1, <1>2, <2>1, <2>4 DEF trend
<1>4. CASE C # {}
  <2> DEFINE moments == {now, R.first} \cup Times(C)
             p == R.price
  <2>1. moments \in SUBSET Int /\ now \in moments /\ \A x \in moments : x <= now
    <3>1. \A x \in Times(C) : x \in Nat /\ x <= now
      <4>1. \A c \in C : c.at \in Nat /\ c.at <= now
        BY <1>1 DEF Dated
      <4> QED BY <4>1 DEF Times
    <3> QED BY <1>1, <3>1
  <2>2. trend = Over(At(Max(moments), p), told)
    BY <1>4 DEF PlanTrend
  <2> HIDE DEF moments, trend, p
  <2>3. trend = Over(At(now, p), told)
    BY <2>1, <2>2, MaxIs
  <2>4. Timeline(told) /\ \A u \in DOMAIN told : u <= now
    <3>1. Timeline(told) /\ \A u \in DOMAIN told : u <= R.at
      BY ChangingPast
    <3> HIDE DEF told
    <3> QED BY <1>1, <3>1 DEF Timeline
  <2> HIDE DEF told
  <2>5. ASSUME NEW t \in Nat
        PROVE  /\ DOMAIN trend = {now} \cup DOMAIN told
               /\ StepAt(trend, t, None) = IF t < now THEN StepAt(told, t, None) ELSE p
    BY <2>3, <2>4, PutStep
  <2>6. StepAt(K, now, None) = p
    BY <1>1, LedgerNow DEF p
  <2>7. \A t \in R.first .. now : StepAt(trend, t, None) = StepAt(K, t, None)
    <3>1. SUFFICES ASSUME NEW t \in R.first .. now PROVE StepAt(trend, t, None) = StepAt(K, t, None)
      OBVIOUS
    <3>2. t \in Nat /\ (t < now \/ t = now)
      BY <1>1, <3>1
    <3> QED BY <1>1, <2>5, <2>6, <3>2
  <2>8. Summary(trend).now = p
    <3>1. DOMAIN trend = {now} \cup DOMAIN told
      BY <2>5
    <3>2. Max(DOMAIN trend) = now
      <4> DEFINE D == DOMAIN trend
      <4>1. D \in SUBSET Int /\ now \in D /\ \A x \in D : x <= now
        BY <2>4, <3>1 DEF Timeline
      <4> HIDE DEF D
      <4>2. Max(D) = now
        BY <4>1, MaxIs
      <4> QED BY <4>2 DEF D
    <3>3. trend[now] = p
      BY <2>3 DEF Over, At
    <3> QED BY <3>2, <3>3 DEF Summary
  <2> QED BY <2>7, <2>8 DEF trend, p
<1> QED BY <1>3, <1>4

\* A registrar's steps hold the price kept.
LEMMA RegistrarTells ==
    ASSUME NEW R, NEW C, NEW K, NEW now \in Nat, Ledger(R, C, K, now), NEW t \in Nat
    PROVE  StepAt(RegistrarSteps(R, C), t, None) = StepAt(K, t, None)
<1> DEFINE told == Changing(R, C)
           a == R.at
           p == R.price
<1>1. RegistrarSteps(R, C) = Over(At(a, p), told)
  BY DEF RegistrarSteps
<1>2. Timeline(told) /\ (\A u \in DOMAIN told : u <= a) /\ a \in Nat
  BY ChangingPast DEF Ledger
<1>3. StepAt(told, t, None) = StepAt(K, t, None)
  BY DEF Ledger
<1>4. a <= t => StepAt(K, t, None) = p
  BY LedgerNow
<1> HIDE DEF told, a, p
<1>5. StepAt(Over(At(a, p), told), t, None) = IF t < a THEN StepAt(told, t, None) ELSE p
  BY <1>2, PutStep
<1> QED BY <1>1, <1>2, <1>3, <1>4, <1>5

\* The price kept is known since the row was first seen, and moves only with the change rows.
LEMMA KeptSteps ==
    ASSUME NEW R, NEW C, NEW K, NEW now \in Nat, Ledger(R, C, K, now), NEW t \in Nat
    PROVE  /\ StepAt(K, t, None) \in Nat \cup {None}
           /\ R.first <= t => StepAt(K, t, None) \in Nat
           /\ t # 0 /\ t # R.first /\ t \notin Times(C) => StepAt(K, t, None) = StepAt(K, t - 1, None)
<1>1. Timeline(K) /\ R.first \in DOMAIN K /\ \A u \in DOMAIN K : K[u] \in Nat
  BY DEF Ledger
<1>2. StepAt(K, t, None) \in Nat \cup {None} /\ (R.first <= t => StepAt(K, t, None) \in Nat)
  <2>1. CASE \E s : Latest(K, t, s)
    <3>1. PICK s : Latest(K, t, s)
      BY <2>1
    <3>2. StepAt(K, t, None) = K[s] /\ s \in DOMAIN K
      BY <1>1, <3>1, StepIs DEF Latest
    <3> QED BY <1>1, <3>2
  <2>2. CASE \A u \in DOMAIN K : ~(u <= t)
    BY <1>1, <2>2, NoStep
  <2> QED BY <1>1, <2>1, <2>2, StepPast
<1>3. ASSUME t # 0, t # R.first, t \notin Times(C) PROVE StepAt(K, t, None) = StepAt(K, t - 1, None)
  <2> DEFINE told == Changing(R, C)
             before == t - 1
  <2>1. DOMAIN told = {R.first} \cup Times(C) /\ Timeline(told)
    BY ChangingDomain DEF Ledger
  <2>2. before \in Nat /\ t \in Nat \ {0}
    BY <1>3
  <2>3. \A x \in Nat : StepAt(told, x, None) = StepAt(K, x, None)
    BY DEF Ledger
  <2> HIDE DEF told
  <2>4. StepAt(told, t, None) = StepAt(told, t - 1, None)
    BY <1>3, <2>1, <2>2, StepRests
  <2> HIDE DEF before
  <2>5. StepAt(told, t, None) = StepAt(K, t, None) /\ StepAt(told, before, None) = StepAt(K, before, None)
    BY <2>2, <2>3
  <2> QED BY <2>4, <2>5 DEF before
<1> QED BY <1>2, <1>3

(***************************************************************************)
(* The market: wherever the lowest price moves, the chart shows it.        *)
(***************************************************************************)
LEMMA MarketTells ==
    ASSUME NEW events \in SUBSET Nat, NEW timelines, NEW now \in Nat, NEW start \in events, now \in events,
           \A e \in events : start <= e,
           \A t \in Nat : start <= t => Lowest(timelines, t, None) # None,
           \A t \in Nat \ {0} : t \notin events => Lowest(timelines, t, None) = Lowest(timelines, t - 1, None),
           NEW t \in start .. now
    PROVE  StepAt(MarketSteps(events, timelines, now, None), t, None) = Lowest(timelines, t, None)
<1> DEFINE trend == MarketSteps(events, timelines, now, None)
           V == [x \in Nat |-> Lowest(timelines, x, None)]
           turns == {u \in events \ {start} : V[u] # V[u - 1]}
           shown == {start, now} \cup turns \cup {u - 1 : u \in turns}
<1>1. Min(events) = start
  BY MinIs
<1>2. \A u \in events \ {start} : u \in Nat /\ u - 1 \in Nat /\ start < u /\ start <= u - 1
  BY start \in Nat
<1>3. turns = {u \in events \ {Min(events)} : Lowest(timelines, u, None) # Lowest(timelines, u - 1, None)}
  BY <1>1, <1>2
<1>4. /\ \A x \in Nat : start <= x => V[x] # None
      /\ \A x \in Nat \ {0} : x \notin events => V[x] = V[x - 1]
  <2>1. \A x \in Nat \ {0} : x - 1 \in Nat
    OBVIOUS
  <2> QED BY <2>1
<1>5. /\ shown \subseteq Nat /\ start \in shown /\ now \in shown /\ turns \subseteq shown
      /\ \A s \in shown : start <= s
  BY <1>2
<1>6. trend = [s \in {x \in shown : Lowest(timelines, x, None) # None} |-> Lowest(timelines, s, None)]
  BY <1>1, <1>3 DEF MarketSteps
<1>7. DOMAIN trend = shown /\ \A s \in shown : trend[s] = V[s]
  BY <1>4, <1>5, <1>6
<1>8. t \in Nat /\ start <= t /\ Lowest(timelines, t, None) = V[t] /\ start \in Nat
  OBVIOUS
<1>9. \A u \in Nat : start < u /\ V[u] # V[u - 1] => u \in turns
  BY <1>4, <1>8
<1> HIDE DEF trend, V, turns, shown
<1>10. Timeline(trend)
  BY <1>5, <1>7 DEF Timeline
<1>11. PICK m : Latest(trend, t, m)
  BY <1>5, <1>7, <1>8, <1>10, StepPast
<1>12. m \in shown /\ m \in Nat /\ m <= t /\ start <= m /\ StepAt(trend, t, None) = V[m]
  BY <1>5, <1>7, <1>8, <1>10, <1>11, StepIs DEF Latest
<1>13. V[m] = V[t]
  <2>1. SUFFICES ASSUME V[m] # V[t] PROVE FALSE
    OBVIOUS
  <2> DEFINE moved == {u \in (m + 1) .. t : V[u] # V[m]}
  <2>2. moved \in SUBSET Nat /\ t \in moved
    BY <1>8, <1>12, <2>1
  <2>3. PICK u \in moved : \A x \in moved : u <= x
    <3> HIDE DEF moved
    <3> QED BY <2>2, Least
  <2>4. u \in Nat /\ m < u /\ u <= t /\ V[u] # V[m] /\ u - 1 \in Nat /\ m <= u - 1 /\ u - 1 <= t
    BY <1>8, <1>12
  <2>5. V[u - 1] = V[m]
    <3>1. u - 1 \notin moved
      <4>1. ASSUME u - 1 \in moved PROVE FALSE
        <5>1. u <= u - 1
          BY <2>3, <4>1
        <5> QED BY <2>4, <5>1
      <4> QED BY <4>1
    <3>2. u - 1 = m \/ u - 1 \in (m + 1) .. t
      BY <1>8, <1>12, <2>4
    <3> QED BY <3>1, <3>2
  <2>6. u \in turns
    BY <1>8, <1>9, <1>12, <2>4, <2>5
  <2> QED BY <1>5, <1>7, <1>11, <2>4, <2>6 DEF Latest
<1> QED BY <1>8, <1>12, <1>13 DEF trend

\* The lowest of some prices, when one is known.
LEMMA LowestKnown ==
    ASSUME NEW timelines, NEW t, \A steps \in timelines : StepAt(steps, t, None) \in Nat \cup {None},
           NEW one \in timelines, StepAt(one, t, None) \in Nat
    PROVE  Lowest(timelines, t, None) # None
<1> DEFINE values == {StepAt(steps, t, None) : steps \in timelines} \ {None}
<1>1. values \in SUBSET Nat /\ StepAt(one, t, None) \in values
  BY NoneApart
<1>2. Lowest(timelines, t, None) = Min(values)
  BY <1>1 DEF Lowest
<1> HIDE DEF values
<1>3. PICK m \in values : \A x \in values : m <= x
  BY <1>1, Least
<1>4. Min(values) = m /\ m \in Nat
  BY <1>1, <1>3, MinIs
<1> QED BY <1>2, <1>4, NoneApart

LEMMA ChartsTell == Typed /\ ChartInv => TrendsTell
<1> SUFFICES ASSUME Typed, ChartInv PROVE TrendsTell
  OBVIOUS
<1>1. clock \in Nat
  BY DEF Typed, CatalogTypeOK, SourceTypes
<1>2. \A r \in Rows \ (Offers \cup raced) : row[r] # None => Ledger(row[r], changes[r], kept[r], clock)
  BY DEF ChartInv, Ledgers
<1>3. ASSUME NEW r \in Plans \ raced, row[r] # None
      PROVE  /\ \A t \in row[r].first .. clock :
                   StepAt(PlanTrend(row[r], changes[r], clock), t, None) = StepAt(kept[r], t, None)
             /\ Summary(PlanTrend(row[r], changes[r], clock)).now = row[r].price
  <2>1. r \in Rows \ (Offers \cup raced)
    BY Kinds
  <2>2. Ledger(row[r], changes[r], kept[r], clock)
    BY <1>2, <1>3, <2>1
  <2> QED BY <1>1, <2>2, PlanTells
<1>4. ASSUME NEW sold, sold = {r \in Registrars : Active(r)}, sold # {}, sold \cap raced = {},
             NEW t \in Min({row[r].first : r \in sold}) .. clock
      PROVE  StepAt(TldTrend(sold, row, changes, clock, None), t, None) = Lowest({kept[r] : r \in sold}, t, None)
  <2> DEFINE firsts == {row[r].first : r \in sold}
             timelines == {RegistrarSteps(row[r], changes[r]) : r \in sold}
             events == firsts \cup {clock} \cup UNION {Times(changes[r]) : r \in sold}
  <2>1. \A r \in sold : Ledger(row[r], changes[r], kept[r], clock)
    <3>1. \A r \in sold : r \in Registrars /\ row[r] # None /\ r \notin raced
      BY <1>4 DEF Active
    <3>2. \A r \in sold : r \in Rows \ (Offers \cup raced)
      BY <3>1, Kinds, CatalogAssumption
    <3> QED BY <1>2, <3>1, <3>2
  <2>2. \A r \in sold : /\ row[r].first \in Nat /\ row[r].first <= clock
                        /\ \A c \in changes[r] : c.at \in Nat /\ row[r].first <= c.at
    BY <1>1, <2>1 DEF Ledger, Dated
  <2>3. firsts \in SUBSET Nat /\ firsts # {}
    BY <1>4, <2>2
  <2>4. PICK start \in firsts : \A x \in firsts : start <= x
    <3> HIDE DEF firsts
    <3> QED BY <2>3, Least
  <2>5. Min(firsts) = start /\ start \in Nat
    <3> HIDE DEF firsts
    <3> QED BY <2>3, <2>4, MinIs
  <2>6. /\ events \in SUBSET Nat /\ start \in events /\ clock \in events
        /\ \A e \in events : start <= e
    <3>1. ASSUME NEW r \in sold, NEW e \in Times(changes[r]) PROVE e \in Nat /\ start <= e
      <4>1. PICK c \in changes[r] : e = c.at
        BY DEF Times
      <4>2. start <= row[r].first
        BY <2>4
      <4> QED BY <2>2, <2>5, <4>1, <4>2
    <3>2. start <= clock
      <4>1. PICK r \in sold : start = row[r].first
        BY <2>4
      <4> QED BY <2>2, <4>1
    <3> QED BY <1>1, <2>3, <2>4, <3>1, <3>2
  <2>7. ASSUME NEW x \in Nat
        PROVE  /\ {StepAt(steps, x, None) : steps \in timelines} = {StepAt(kept[r], x, None) : r \in sold}
               /\ Lowest(timelines, x, None) = Lowest({kept[r] : r \in sold}, x, None)
    <3>1. \A r \in sold : StepAt(RegistrarSteps(row[r], changes[r]), x, None) = StepAt(kept[r], x, None)
      BY <1>1, <2>1, RegistrarTells
    <3>2. {StepAt(steps, x, None) : steps \in timelines} = {StepAt(kept[r], x, None) : r \in sold}
      BY <3>1
    <3>3. {StepAt(steps, x, None) : steps \in {kept[r] : r \in sold}} = {StepAt(kept[r], x, None) : r \in sold}
      OBVIOUS
    <3> HIDE DEF timelines
    <3> QED BY <3>2, <3>3 DEF Lowest
  <2>8. ASSUME NEW x \in Nat, start <= x PROVE Lowest(timelines, x, None) # None
    <3>1. PICK r \in sold : start = row[r].first
      BY <2>4
    <3>2. \A s \in sold : StepAt(kept[s], x, None) \in Nat \cup {None}
      BY <1>1, <2>1, KeptSteps
    <3>3. StepAt(kept[r], x, None) \in Nat
      BY <1>1, <2>1, <2>8, <3>1, KeptSteps
    <3>4. kept[r] \in {kept[s] : s \in sold}
      OBVIOUS
    <3>5. Lowest({kept[s] : s \in sold}, x, None) # None
      <4> DEFINE lines == {kept[s] : s \in sold}
      <4>1. \A steps \in lines : StepAt(steps, x, None) \in Nat \cup {None}
        BY <3>2
      <4> HIDE DEF lines
      <4> QED BY <3>3, <3>4, <4>1, LowestKnown DEF lines
    <3> HIDE DEF timelines
    <3> QED BY <2>7, <3>5
  <2>9. ASSUME NEW x \in Nat \ {0}, x \notin events PROVE Lowest(timelines, x, None) = Lowest(timelines, x - 1, None)
    <3>1. x - 1 \in Nat
      OBVIOUS
    <3>2. \A r \in sold : x # row[r].first /\ x \notin Times(changes[r])
      BY <2>9
    <3>3. \A r \in sold : StepAt(kept[r], x, None) = StepAt(kept[r], x - 1, None)
      BY <1>1, <2>1, <3>2, KeptSteps
    <3>4. {StepAt(kept[r], x, None) : r \in sold} = {StepAt(kept[r], x - 1, None) : r \in sold}
      BY <3>3
    <3> DEFINE before == x - 1
    <3>5. /\ {StepAt(steps, x, None) : steps \in timelines} = {StepAt(kept[r], x, None) : r \in sold}
          /\ {StepAt(steps, before, None) : steps \in timelines} = {StepAt(kept[r], before, None) : r \in sold}
      BY <2>7, <3>1
    <3> HIDE DEF timelines
    <3> QED BY <3>4, <3>5 DEF Lowest
  <2>10. TldTrend(sold, row, changes, clock, None) = MarketSteps(events, timelines, clock, None)
    BY DEF TldTrend
  <2>11. t \in start .. clock /\ t \in Nat
    BY <1>1, <2>5
  <2> HIDE DEF events, timelines
  <2>12. StepAt(MarketSteps(events, timelines, clock, None), t, None) = Lowest(timelines, t, None)
    BY <1>1, <2>6, <2>8, <2>9, <2>11, MarketTells
  <2> QED BY <2>7, <2>10, <2>11, <2>12
<1> QED BY <1>3, <1>4 DEF TrendsTell

\* A chart tells the prices the catalog accepted, of rows never written from a
\* stale read nor priced out of turn: whatever order deliveries and staff saves
\* came in, a plan's trend holds at every moment the price last accepted by then,
\* an ending's the lowest of them, and the summary ends with the row's price
\* (server/catalog/trend.js).
THEOREM TrendsTellHolds == SiteSpec => []TrendsTell
<1>1. SiteInit => Typed /\ ChartInv
  BY TypedStart, ChartStart DEF SiteInit
<1>2. Typed /\ ChartInv /\ [SiteNext]_siteVars => (Typed /\ ChartInv)'
  BY TypedStep, ChartStep, SiteSteps
<1> QED BY <1>1, <1>2, ChartsTell, PTL DEF SiteSpec
=============================================================================
