----------------------------- MODULE BucketPins -----------------------------
(***************************************************************************)
(* The bucket page and its pins: the list with its search, creation and    *)
(* deletion of buckets, and the ids of pinned buckets that the browser     *)
(* keeps in localStorage, one list per service.                            *)
(*                                                                         *)
(* A service numbers its buckets and reuses no number; a name can be used  *)
(* again.  Settings are changed on another page, so the service is fixed   *)
(* while this one is open; requests outlive the page that sent them.       *)
(* Another tab of the browser shares the pins, and the browser may refuse  *)
(* to read or to write them.                                               *)
(***************************************************************************)
EXTENDS Naturals, Sequences, FiniteSets, SequencesExt, Filters

CONSTANTS
    Services,
    MaxId,        \* bound on the buckets of a service
    Names, NameOf,   \* the name of each bucket
    Searches,     \* the list without and with a search: "full", "search"
    Matching,     \* the names that the search finds
    MaxCreates,   \* bound on the buckets created while the page is in use
    OthersDelete, \* other clients delete buckets
    MaxTabs,      \* bound on what is done in the other tab
    MaxDeletes,   \* deletions pending at the same time
    StorageFails, \* localStorage may throw
    NoName

Ids == 1..MaxId

ASSUME PinsAssumption ==
    /\ MaxId \in Nat
    /\ NameOf \in [Ids -> Names]
    /\ "full" \in Searches /\ Searches \subseteq {"full", "search"}
    /\ Matching \subseteq Names
    /\ MaxCreates \in 0..(MaxId - 1) /\ MaxTabs \in Nat /\ MaxDeletes \in Nat
    /\ OthersDelete \in BOOLEAN /\ StorageFails \in BOOLEAN
    /\ NoName \notin Names

VARIABLES
    live,           \* the buckets of each service
    created,        \* how many buckets were created, by name or by others
    stored,         \* localStorage: the pins of each service
    tabs,           \* how much was done in the other tab
    open,           \* the bucket page is mounted
    mounts,         \* which time
    service,        \* settings.apiBaseUrl
    search,         \* the search of the URL: "full" when there is none
    pinnedIds,      \* the pins as the page has them
    readFailed,     \* they could not be read, and the page shows none
    data, fetch,    \* the query of each service and search
    failing,        \* services whose whole list was last fetched with an error
    confirm,        \* the card whose deletion is being confirmed
    dels,           \* deletions under way
    create,         \* createBucketMutation
    gone            \* history: deleted buckets whose pin was taken from the storage
                    \* and that no user has pinned again since

server == <<live, created>>
page == <<open, mounts, service, search>>
queries == <<data, fetch, failing>>
requests == <<confirm, dels, create>>
pins == <<pinnedIds, readFailed>>
vars == <<server, stored, tabs, page, pins, queries, requests, gone>>

NoList == [known |-> FALSE, items |-> {}]
NoFetch == [phase |-> "idle", answer |-> NoList]
Sent == [phase |-> "sent", answer |-> NoList]
NoCreate == [phase |-> "idle", name |-> NoName, service |-> NoName]

-----------------------------------------------------------------------------
(* The list                                                                *)

\* listBuckets on the server.
Listed(s, q) ==
    [known |-> TRUE,
     items |-> {i \in live[s] : q = "search" => NameOf[i] \in Matching}]

buckets == data[service][search].items
fullBuckets == data[service]["full"]

\* The queries that the page observes: its list, and the whole list for the
\* pins while a search is on.
Observed(q, ids) == q = search \/ (q = "full" /\ ids # <<>>)

\* A query that comes to be observed is fetched, unless a fetch is under way.
Observe(s, qs) ==
    [fetch EXCEPT ![s] = [q \in Searches |->
        IF q \in qs /\ fetch[s][q].phase = "idle" THEN Sent ELSE fetch[s][q]]]

\* invalidateQueries on the lists of a service: what is observed is fetched
\* again; a fetch under way is cancelled, or joined if it is the first.
Invalidated(s) ==
    IF open /\ s = service
    THEN [fetch EXCEPT ![s] = [q \in Searches |->
             IF Observed(q, pinnedIds)
                /\ (data[s][q].known \/ fetch[s][q].phase = "idle")
             THEN Sent ELSE fetch[s][q]]]
    ELSE fetch

pinnedBuckets == Kept(pinnedIds, fullBuckets.items)
Cards == buckets \cup ToSet(pinnedBuckets)

\* The cards are rendered anew: the dialog of a bucket without a card leaves.
Rendered ==
    LET lists == data'[service]
        cards == lists[search].items \cup (ToSet(pinnedIds') \cap lists["full"].items)
    IN confirm' = IF confirm \in cards THEN confirm ELSE 0

-----------------------------------------------------------------------------
(* usePinnedBuckets                                                        *)

\* The pins are read and written at the time of the action, and written only if
\* it changes them; the page that acts sees them if it is still there.  When the
\* storage throws, nothing is changed (a toast says so).  The history of the
\* service becomes `ids` when the pins are as the action wants them.
updatePins_Mutant(s, here, next, ids) ==
    /\ stored' = [stored EXCEPT ![s] = next]
    /\ UNCHANGED pins
    /\ gone' = [gone EXCEPT ![s] = ids]

updatePins(s, here, next, ids) ==
    \/ /\ gone' = [gone EXCEPT ![s] = ids]
       /\ IF next = stored[s] THEN UNCHANGED <<stored, pins>>
          ELSE /\ stored' = [stored EXCEPT ![s] = next]
               /\ IF here THEN pinnedIds' = next /\ readFailed' = FALSE
                  ELSE UNCHANGED pins
    \/ StorageFails /\ UNCHANGED <<stored, pins, gone>>

Without(ids, i) == Kept(ids, ToSet(ids) \ {i})
Toggled(ids, i) == IF i \in ToSet(ids) THEN Without(ids, i) ELSE Append(ids, i)

\* The pins are read from the storage at the time of the action.  The first
\* pin added during a search starts the query of the whole list.
togglePin(i) ==
    /\ open /\ confirm = 0
    /\ i \in Cards
    /\ updatePins(service, TRUE, Toggled(stored[service], i), gone[service] \ {i})
    /\ fetch' = IF pinnedIds = <<>> /\ pinnedIds' # <<>> /\ search # "full"
                THEN Observe(service, {"full"}) ELSE fetch
    /\ UNCHANGED <<server, tabs, page, data, failing, requests>>

\* The effect that follows a fetch of the whole list.
reconcilePins(existingIds) ==
    updatePins(service, TRUE, Kept(stored[service], existingIds), gone[service])

\* The buckets that exist, or that a screen not refreshed may still show.
Known == 1..(created + MaxId - MaxCreates)

\* The same code in another tab, on the same storage: its user pins or unpins a
\* bucket of a screen that may be as old as it likes.
OtherTab(s, i) ==
    /\ tabs < MaxTabs
    /\ i \in Known
    /\ stored' = [stored EXCEPT ![s] = Toggled(stored[s], i)]
    /\ tabs' = tabs + 1
    /\ gone' = [gone EXCEPT ![s] = @ \ {i}]
    /\ UNCHANGED <<server, page, pins, queries, requests>>

\* Its removePin after a deletion there, or its reconcilePins after a listing that
\* may be an old one.
OtherTabPrunes(s, existingIds) ==
    /\ tabs < MaxTabs
    /\ stored' = [stored EXCEPT ![s] = Kept(stored[s], existingIds)]
    /\ tabs' = tabs + 1
    /\ UNCHANGED <<server, page, pins, queries, requests, gone>>

-----------------------------------------------------------------------------
(* The page                                                                *)

loadPins(s) ==
    \/ pinnedIds' = stored[s] /\ readFailed' = FALSE
    \/ StorageFails /\ pinnedIds' = <<>> /\ readFailed' = TRUE

Mount(s) ==
    /\ ~open
    /\ mounts < MaxDeletes + 1
    /\ open' = TRUE /\ mounts' = mounts + 1
    /\ service' = s
    /\ search' = "full"
    /\ loadPins(s)
    /\ fetch' = Observe(s, {"full"})
    /\ failing' = failing \ {s}
    /\ UNCHANGED <<server, stored, tabs, data, requests, gone>>

\* Another page is opened; what was sent goes on, and so do its callbacks.
Unmount ==
    /\ open
    /\ open' = FALSE
    /\ confirm' = 0
    /\ pinnedIds' = <<>>
    /\ readFailed' = FALSE
    /\ UNCHANGED <<server, stored, tabs, mounts, service, search, queries, dels, create,
                   gone>>

handleSearchSubmit(q) ==
    /\ open /\ confirm = 0
    /\ q # search
    /\ search' = q
    /\ fetch' = Observe(service, {q} \cup (IF pinnedIds # <<>> THEN {"full"} ELSE {}))
    /\ failing' = IF q = "full" \/ pinnedIds # <<>> THEN failing \ {service} ELSE failing
    /\ UNCHANGED <<server, stored, tabs, open, mounts, service, pins, data,
                   requests, gone>>

\* Disabled while something is fetched.
handleRefreshBuckets ==
    /\ open /\ confirm = 0
    /\ \A q \in Searches : Observed(q, pinnedIds) => fetch[service][q].phase = "idle"
    /\ fetch' = Invalidated(service)
    /\ UNCHANGED <<server, stored, tabs, page, pins, data, failing, requests, gone>>

ServerLists(s, q) ==
    /\ fetch[s][q].phase = "sent"
    /\ fetch' = [fetch EXCEPT ![s][q] = [phase |-> "answered", answer |-> Listed(s, q)]]
    /\ UNCHANGED <<server, stored, tabs, page, pins, data, failing, requests, gone>>

ListArrives_Mutant(s, q) ==
    /\ fetch[s][q].phase = "answered"
    /\ data' = [data EXCEPT ![s][q] = fetch[s][q].answer]
    /\ fetch' = [fetch EXCEPT ![s][q] = NoFetch]
    /\ failing' = IF q = "full" THEN failing \ {s} ELSE failing
    /\ IF open /\ s = service /\ Observed(q, pinnedIds)
       THEN reconcilePins(fetch[s][q].answer.items)
       ELSE UNCHANGED <<stored, pins, gone>>
    /\ Rendered
    /\ UNCHANGED <<server, tabs, page, dels, create>>

\* The whole list is subscribed to with and without a search, also while there
\* are no pins that would have it fetched.
ListArrives(s, q) ==
    /\ fetch[s][q].phase = "answered"
    /\ data' = [data EXCEPT ![s][q] = fetch[s][q].answer]
    /\ fetch' = [fetch EXCEPT ![s][q] = NoFetch]
    /\ failing' = IF q = "full" THEN failing \ {s} ELSE failing
    /\ IF open /\ s = service /\ q = "full"
       THEN reconcilePins(fetch[s][q].answer.items)
       ELSE UNCHANGED <<stored, pins, gone>>
    /\ Rendered
    /\ UNCHANGED <<server, tabs, page, dels, create>>

\* The cards and the pins stay.
ListFails(s, q) ==
    /\ fetch[s][q].phase # "idle"
    /\ fetch' = [fetch EXCEPT ![s][q] = NoFetch]
    /\ failing' = IF q = "full" THEN failing \cup {s} ELSE failing
    /\ UNCHANGED <<server, stored, tabs, page, pins, data, requests, gone>>

-----------------------------------------------------------------------------
(* Creation and deletion                                                   *)

\* The dialog takes no second creation while one is under way; that another visit
\* of the page sends none either is a bound.
handleCreateBucket(n) ==
    /\ open /\ confirm = 0
    /\ created < MaxCreates
    /\ create.phase = "idle"
    /\ create' = [phase |-> "sent", name |-> n, service |-> service]
    /\ UNCHANGED <<server, stored, tabs, page, pins, queries, confirm, dels, gone>>

\* A new number for a name that is free.
Creates(s, i) ==
    /\ created < MaxCreates
    /\ \A j \in live[s] : NameOf[j] # NameOf[i]
    /\ i = created + MaxId - MaxCreates + 1
    /\ live' = [live EXCEPT ![s] = @ \cup {i}]
    /\ created' = created + 1

ServerCreates(i) ==
    /\ create.phase = "sent" /\ NameOf[i] = create.name
    /\ Creates(create.service, i)
    /\ create' = [create EXCEPT !.phase = "applied"]
    /\ UNCHANGED <<stored, tabs, page, pins, queries, confirm, dels, gone>>

CreateSucceeds ==
    /\ create.phase = "applied"
    /\ fetch' = Invalidated(create.service)
    /\ create' = [create EXCEPT !.phase = "awaiting"]
    /\ UNCHANGED <<server, stored, tabs, page, pins, data, failing, confirm, dels, gone>>

\* The dialog closes when the lists have been fetched again, or with the page.
CreateEnds ==
    /\ create.phase = "awaiting"
    /\ open /\ create.service = service =>
          \A q \in Searches : Observed(q, pinnedIds) => fetch[service][q].phase = "idle"
    /\ create' = NoCreate
    /\ UNCHANGED <<server, stored, tabs, page, pins, queries, confirm, dels, gone>>

CreateFails ==
    /\ create.phase \in {"sent", "applied"}
    /\ create' = NoCreate
    /\ UNCHANGED <<server, stored, tabs, page, pins, queries, confirm, dels, gone>>

\* The cards offer deletion while none is pending from this page.
Pending == \E d \in dels : d.mount = mounts

openConfirmation(i) ==
    /\ open /\ confirm = 0
    /\ ~Pending
    /\ i \in Cards
    /\ confirm' = i
    /\ UNCHANGED <<server, stored, tabs, page, pins, queries, dels, create, gone>>

cancelConfirmation ==
    /\ confirm # 0
    /\ confirm' = 0
    /\ UNCHANGED <<server, stored, tabs, page, pins, queries, dels, create, gone>>

\* handleDeleteBucket: the request names the bucket; its number is looked up
\* in the whole list first, and then in the list on the screen.
NumberOf(n) ==
    LET named(list) == {i \in list : NameOf[i] = n}
    IN IF named(fullBuckets.items) # {}
       THEN CHOOSE i \in named(fullBuckets.items) : TRUE
       ELSE CHOOSE i \in named(buckets) : TRUE

handleDelete ==
    /\ confirm # 0 /\ ~Pending
    /\ Cardinality(dels) < MaxDeletes
    /\ dels' = dels \cup {[phase |-> "sent", name |-> NameOf[confirm],
                           id |-> NumberOf(NameOf[confirm]), service |-> service,
                           mount |-> mounts]}
    /\ UNCHANGED <<server, stored, tabs, page, pins, queries, confirm, create, gone>>

ServerDeletes(d) ==
    /\ d.phase = "sent"
    /\ \E i \in live[d.service] : NameOf[i] = d.name
    /\ live' = [live EXCEPT ![d.service] = {i \in @ : NameOf[i] # d.name}]
    /\ dels' = (dels \ {d}) \cup {[d EXCEPT !.phase = "applied"]}
    /\ UNCHANGED <<created, stored, tabs, page, pins, queries, confirm, create, gone>>

\* onSuccess, with the settings and the pins of the page that sent it.
DeleteSucceeds_Mutant(d) ==
    /\ d.phase = "applied"
    /\ IF open /\ d.mount = mounts
       THEN updatePins(d.service, TRUE, Without(stored[d.service], d.id),
                       gone[d.service] \cup {d.id})
       ELSE /\ UNCHANGED <<stored, pins>>
            /\ gone' = [gone EXCEPT ![d.service] = @ \cup {d.id}]
    /\ fetch' = Invalidated(d.service)
    /\ dels' = (dels \ {d}) \cup {[d EXCEPT !.phase = "awaiting"]}
    /\ UNCHANGED data
    /\ Rendered
    /\ UNCHANGED <<server, tabs, page, failing, create>>

DeleteSucceeds(d) ==
    /\ d.phase = "applied"
    /\ updatePins(d.service, open /\ d.mount = mounts,
                  Without(stored[d.service], d.id), gone[d.service] \cup {d.id})
    /\ fetch' = Invalidated(d.service)
    /\ dels' = (dels \ {d}) \cup {[d EXCEPT !.phase = "awaiting"]}
    /\ UNCHANGED data
    /\ Rendered
    /\ UNCHANGED <<server, tabs, page, failing, create>>

\* The lists have been fetched again, or nobody observes them: handleDelete
\* closes its dialog.
DeleteEnds(d) ==
    /\ d.phase = "awaiting"
    /\ open /\ d.service = service =>
          \A q \in Searches : Observed(q, pinnedIds) => fetch[service][q].phase = "idle"
    /\ dels' = dels \ {d}
    /\ confirm' = IF d.mount = mounts THEN 0 ELSE confirm
    /\ UNCHANGED <<server, stored, tabs, page, pins, queries, create, gone>>

\* Refused, or the answer lost: the pin and the dialog stay.
DeleteFails(d) ==
    /\ d.phase \in {"sent", "applied"}
    /\ dels' = dels \ {d}
    /\ UNCHANGED <<server, stored, tabs, page, pins, queries, confirm, create, gone>>

OtherClientCreates(s, i) ==
    /\ Creates(s, i)
    /\ UNCHANGED <<stored, tabs, page, pins, queries, requests, gone>>

OtherClientDeletes(s, i) ==
    /\ OthersDelete
    /\ i \in live[s]
    /\ live' = [live EXCEPT ![s] = @ \ {i}]
    /\ UNCHANGED <<created, stored, tabs, page, pins, queries, requests, gone>>

-----------------------------------------------------------------------------
OneName(ids) == \A i, j \in ids : NameOf[i] = NameOf[j] => i = j
Older == 1..(MaxId - MaxCreates)

Init ==
    /\ live \in [Services -> {b \in SUBSET Older : OneName(b)}]
    /\ created = 0
    /\ stored \in [Services -> {<<>>, <<1>>}]
    /\ tabs = 0
    /\ open = FALSE /\ mounts = 0
    /\ service \in Services
    /\ search = "full"
    /\ pinnedIds = <<>> /\ readFailed = FALSE
    /\ data = [s \in Services |-> [q \in Searches |-> NoList]]
    /\ fetch = [s \in Services |-> [q \in Searches |-> NoFetch]]
    /\ failing = {}
    /\ confirm = 0
    /\ dels = {}
    /\ create = NoCreate
    /\ gone = [s \in Services |-> {}]

PageNext ==
    \/ \E i \in Ids : togglePin(i)
    \/ \E s \in Services : Mount(s)
    \/ Unmount
    \/ \E q \in Searches : handleSearchSubmit(q)
    \/ handleRefreshBuckets
    \/ \E s \in Services, q \in Searches :
           ServerLists(s, q) \/ ListArrives(s, q) \/ ListFails(s, q)

CreateNext ==
    \/ \E n \in Names : handleCreateBucket(n)
    \/ \E i \in Ids : ServerCreates(i)
    \/ CreateSucceeds \/ CreateEnds \/ CreateFails

DeleteNext ==
    \/ \E i \in Ids : openConfirmation(i)
    \/ cancelConfirmation
    \/ handleDelete
    \/ \E d \in dels : ServerDeletes(d) \/ DeleteSucceeds(d) \/ DeleteEnds(d) \/ DeleteFails(d)

OtherNext ==
    \E s \in Services :
        \/ \E i \in Ids :
               OtherTab(s, i) \/ OtherClientCreates(s, i) \/ OtherClientDeletes(s, i)
        \/ \E existingIds \in SUBSET Known : OtherTabPrunes(s, existingIds)

Next == PageNext \/ CreateNext \/ DeleteNext \/ OtherNext

Spec == Init /\ [][Next]_vars

-----------------------------------------------------------------------------
(* Properties                                                              *)

\* Every variable has its type; no bucket is pinned twice.
TypeOK ==
    /\ live \in [Services -> SUBSET Ids] /\ created \in 0..MaxCreates
    /\ \A s \in Services : OneName(live[s])
    /\ \A s \in Services : stored[s] \in Seq(Ids) /\ IsInjective(stored[s])
    /\ pinnedIds \in Seq(Ids) /\ IsInjective(pinnedIds) /\ readFailed \in BOOLEAN
    /\ open \in BOOLEAN /\ service \in Services /\ search \in Searches
    /\ \A s \in Services, q \in Searches :
           /\ data[s][q].items \subseteq Ids
           /\ fetch[s][q].phase \in {"idle", "sent", "answered"}
    /\ confirm \in Ids \cup {0}
    /\ confirm # 0 => open /\ confirm \in Cards
    /\ create.phase \in {"idle", "sent", "applied", "awaiting"}
    /\ gone \in [Services -> SUBSET Ids]

\* The pin of a bucket that exists is removed by its user only, here or in the
\* other tab: no search, no failed request, no listing and no request of an
\* earlier visit drops it.
\* It holds if no bucket is created while the page is in use (MaxCreates = 0),
\* or without a search and another tab.  A bucket created after the server had
\* answered the whole list can be pinned from the result of a search before
\* that list arrives, and reconcilePins then drops its pin.
PinsKept ==
    [][\A s \in DOMAIN stored : \A i \in ToSet(stored[s]) \ ToSet(stored'[s]) :
          \/ i \notin live[s]
          \/ tabs' # tabs
          \/ s = service /\ togglePin(i)]_vars

\* The pin of a bucket whose deletion was acknowledged stays away once it has
\* been taken from the storage, in the service the bucket belonged to, although
\* the page may have been left and opened again before the answer: no pin set or
\* removed for another bucket, no late or old listing and no other request
\* writes it back.  Only users do, on a card that is still shown, here or in
\* another tab; and the pin stays when the storage refuses to lose it.
DeletedUnpinned ==
    \A s \in DOMAIN stored : ToSet(stored[s]) \cap gone[s] = {}

\* At rest, the pins on the screen are the stored ones, in their order, while
\* no other tab changes them and unless they could not be read.
PinsShown ==
    open /\ tabs = 0 /\ ~readFailed /\ fullBuckets.known
    /\ fetch[service]["full"].phase = "idle" /\ service \notin failing
    => pinnedBuckets = Kept(stored[service], fullBuckets.items)
=============================================================================
