---------------------------- MODULE ExplorerNav ----------------------------
(***************************************************************************)
(* Navigation in the object explorer (BucketObjectsPage): the view is the  *)
(* query string of the URL, the pages already turned are a stack of        *)
(* cursors kept beside it, the folders visited are two stacks, and the     *)
(* listing on the screen is whatever the query cache holds for the URL or, *)
(* until the answer arrives, the listing shown before (keepPreviousData).  *)
(*                                                                         *)
(* The URL also changes around the page: by the browser's own Back and     *)
(* Forward, and when the bucket is left and opened again, for the page is  *)
(* kept alive with its state (AppRoutes, KeepAlive).  Three variables of   *)
(* history, which nothing reads but the properties, record what such a     *)
(* change has done to the page number and to the folders visited.          *)
(*                                                                         *)
(* The content of the bucket does not change here: the question is which   *)
(* page of which folder is asked for.  An entry is a number, the order of  *)
(* a listing is ascending or descending, and a cursor names the sort and   *)
(* the last entry of a page, as explorerCursor does.                       *)
(***************************************************************************)
EXTENDS Naturals, Sequences, FiniteSets, SequencesExt

CONSTANTS
    Folders,         \* prefixes: sequences of folder names, <<>> is the root
    Searches,        \* what may be typed in the search box, "" for nothing
    Limits,          \* page sizes
    Sorts,           \* subset of {"asc", "desc"}
    DefaultSort,     \* the sort used when the URL names none
    DefaultLimit,    \* the page size used when the URL names none
    EntriesOf(_, _), \* the entries of a folder that match a search
    BrowserHistory,  \* the browser's own Back and Forward are used
    Reopens,         \* the bucket is left and opened again
    Keyboard,        \* buttons may be pressed although the overlay covers them
    Depth,           \* bound on every history
    Requests         \* bound on the requests in flight

NoSearch == ""
NoCursor == [sort |-> "", last |-> 0]

Views == [prefix : Folders, search : Searches, limit : Limits, sort : Sorts]
Cursors == {NoCursor} \cup
    [sort : Sorts, last : UNION {EntriesOf(p, s) : p \in Folders, s \in Searches}]
URLs == [prefix : Folders, search : Searches, limit : Limits, sort : Sorts,
         cursor : Cursors]
NoURL == [prefix |-> <<>>, search |-> "", limit |-> 0, sort |-> "",
          cursor |-> NoCursor]

ASSUME NavAssumption ==
    /\ <<>> \in Folders
    /\ \A p \in Folders : p \in Seq({p[i] : i \in DOMAIN p})
    /\ \A p \in Folders \ {<<>>} : Front(p) \in Folders
    /\ NoSearch \in Searches
    /\ \A p \in Folders, s \in Searches :
          EntriesOf(p, s) \subseteq Nat /\ IsFiniteSet(EntriesOf(p, s))
    /\ DefaultSort \in Sorts /\ Sorts \subseteq {"asc", "desc"}
    /\ DefaultLimit \in Limits /\ Limits \subseteq Nat \ {0}
    /\ BrowserHistory \in BOOLEAN /\ Reopens \in BOOLEAN /\ Keyboard \in BOOLEAN
    /\ Depth \in Nat /\ Requests \in Nat \ {0}

VARIABLES
    url,            \* the query string, parsed
    past, future,   \* the browser's session history
    searchInput,    \* the text in the search box
    cursorHistory,  \* cursors of the pages turned
    prefixBackHistory, prefixForwardHistory,
    latest,         \* the URL whose listing was on the screen last, NoURL at first
    failed,         \* the query of the URL failed and has no data
    cached,         \* URLs whose listing is in the query cache
    inflight,       \* URLs being fetched
    offPage,        \* history: the page was not reached by turning pages
    offTrail,       \* history: the folder has changed under a stack of folders
    jumps           \* history: how often the folder changed around the page, mod 2

strays == <<offPage, offTrail, jumps>>
history == <<past, future, strays>>
query == <<latest, failed, cached, inflight>>
prefixes == <<prefixBackHistory, prefixForwardHistory>>
vars == <<url, history, searchInput, cursorHistory, prefixes, query>>

-----------------------------------------------------------------------------
(* The listing the server answers with                                     *)

Precedes(sort, a, b) == IF sort = "asc" THEN a < b ELSE a > b

\* The entries after the cursor, whichever listing the cursor comes from.
Rest(u) == {e \in EntriesOf(u.prefix, u.search) :
               u.cursor # NoCursor => Precedes(u.sort, u.cursor.last, e)}

Page(u) == {e \in Rest(u) :
               Cardinality({d \in Rest(u) : Precedes(u.sort, d, e)}) < u.limit}

NextCursor(u) ==
    IF Rest(u) = Page(u)
    THEN NoCursor
    ELSE [sort |-> u.sort,
          last |-> CHOOSE e \in Page(u) :
                      \A d \in Page(u) : d = e \/ Precedes(u.sort, d, e)]

\* The server refuses a cursor that was made for another order.
Accepted(u) == u.cursor = NoCursor \/ u.cursor.sort = u.sort

-----------------------------------------------------------------------------
(* The query: what a change of its key does                                *)

Fetching == url \in inflight

\* What is on the screen: the data of the key or the placeholder for it.
shown == IF failed THEN NoURL ELSE latest

ShowsEntries == shown # NoURL /\ Page(shown) # {}

\* The overlay covers table and pagination while the key is being fetched.
Reachable == ShowsEntries /\ (Fetching => Keyboard)

\* Data in the cache is shown at once and fetched again; otherwise the data
\* shown before stays as a placeholder.  A fetch that is under way for the
\* key is joined, one for the key left goes on in the background.
Observe(u) ==
    /\ inflight' = inflight \cup {u}
    /\ Cardinality(inflight') <= Requests
    /\ latest' = IF u \in cached THEN u ELSE latest
    /\ failed' = FALSE
    /\ UNCHANGED cached

Arrives(u) ==
    /\ u \in inflight
    /\ Accepted(u)
    /\ inflight' = inflight \ {u}
    /\ cached' = cached \cup {u}
    /\ latest' = IF u = url THEN u ELSE latest
    /\ UNCHANGED <<url, history, searchInput, cursorHistory, prefixes, failed>>

\* A query without data that fails shows the error and no placeholder; one
\* with data keeps it.
Fails(u) ==
    /\ u \in inflight
    /\ inflight' = inflight \ {u}
    /\ failed' = (failed \/ (u = url /\ u \notin cached))
    /\ UNCHANGED <<url, history, searchInput, cursorHistory, prefixes, latest,
                   cached>>

\* The cache forgets listings nobody looks at.
Evicted(u) ==
    /\ u \in cached \ {url}
    /\ cached' = cached \ {u}
    /\ UNCHANGED <<url, history, searchInput, cursorHistory, prefixes, latest,
                   failed, inflight>>

-----------------------------------------------------------------------------
(* Navigation                                                              *)

View(u) == [prefix |-> u.prefix, search |-> u.search, limit |-> u.limit,
            sort |-> u.sort]

\* The effects that run when the URL changes: the search box follows the
\* search and the pages turned are forgotten when the view is another one.
Shows(u, cursors, input) ==
    /\ url' = u
    /\ cursorHistory' = IF View(u) = View(url) THEN cursors ELSE <<>>
    /\ searchInput' = IF u.search = url.search THEN input ELSE u.search
    /\ IF u = url THEN UNCHANGED query ELSE Observe(u)

\* What the variables of history record of a change of the URL, by the page
\* itself or around it.  A first page with no pages turned is well numbered,
\* however it was reached.
Records(u, around) ==
    /\ offPage' = /\ offPage \/ (around /\ u # url)
                  /\ cursorHistory' # <<>> \/ u.cursor # NoCursor
    /\ offTrail' = \/ offTrail
                   \/ /\ around /\ u.prefix # url.prefix
                      /\ prefixBackHistory # <<>> \/ prefixForwardHistory # <<>>
    /\ jumps' = IF around /\ u.prefix # url.prefix THEN 1 - jumps ELSE jumps

\* Room for one more entry in the histories the page keeps (a bound).
Room ==
    /\ Len(cursorHistory) < Depth
    /\ Len(prefixBackHistory) + Len(prefixForwardHistory) < Depth

\* updateSearchParams: a new entry of the session history.
updateSearchParams(u, cursors, input) ==
    /\ Len(past) < Depth /\ Room
    /\ past' = Append(past, url)
    /\ future' = <<>>
    /\ Shows(u, cursors, input)
    /\ Records(u, FALSE)

applyPrefixNavigation(p) ==
    updateSearchParams([url EXCEPT !.prefix = p, !.search = NoSearch,
                                   !.cursor = NoCursor], <<>>, NoSearch)

Parent(p) == IF p = <<>> THEN <<>> ELSE Front(p)

\* Breadcrumbs: the root and every proper ancestor.
Breadcrumbs == {<<>>} \cup {SubSeq(url.prefix, 1, i) : i \in 1..(Len(url.prefix) - 1)}

\* Rows: the folders in the listing on the screen.
Rows == IF Reachable
        THEN {p \in Folders \ {<<>>} : Front(p) = shown.prefix}
        ELSE {}

handleNavigatePrefix_Mutant(p) ==
    /\ p \in Breadcrumbs \cup Rows
    /\ prefixBackHistory' = IF p = url.prefix THEN prefixBackHistory
                            ELSE Append(prefixBackHistory, url.prefix)
    /\ UNCHANGED prefixForwardHistory
    /\ applyPrefixNavigation(p)

handleNavigatePrefix(p) ==
    /\ p \in Breadcrumbs \cup Rows
    /\ IF p = url.prefix
       THEN UNCHANGED prefixes
       ELSE /\ prefixBackHistory' = Append(prefixBackHistory, url.prefix)
            /\ prefixForwardHistory' = <<>>
    /\ applyPrefixNavigation(p)

handlePrefixBack_Mutant ==
    /\ prefixBackHistory # <<>>
    /\ prefixBackHistory' = Front(prefixBackHistory)
    /\ UNCHANGED prefixForwardHistory
    /\ applyPrefixNavigation(Last(prefixBackHistory))

handlePrefixBack ==
    \/ /\ prefixBackHistory # <<>>
       /\ prefixBackHistory' = Front(prefixBackHistory)
       /\ prefixForwardHistory' = Append(prefixForwardHistory, url.prefix)
       /\ applyPrefixNavigation(Last(prefixBackHistory))
    \/ /\ prefixBackHistory = <<>>
       /\ url.prefix # <<>>
       /\ prefixForwardHistory' = Append(prefixForwardHistory, url.prefix)
       /\ UNCHANGED prefixBackHistory
       /\ applyPrefixNavigation(Parent(url.prefix))

handlePrefixForward ==
    /\ prefixForwardHistory # <<>>
    /\ prefixForwardHistory' = Front(prefixForwardHistory)
    /\ prefixBackHistory' = Append(prefixBackHistory, url.prefix)
    /\ applyPrefixNavigation(Last(prefixForwardHistory))

typeSearch(s) ==
    /\ s # searchInput
    /\ searchInput' = s
    /\ UNCHANGED <<url, history, cursorHistory, prefixes, query>>

handleSearchSubmit ==
    /\ updateSearchParams([url EXCEPT !.search = searchInput,
                                      !.cursor = NoCursor], <<>>, searchInput)
    /\ UNCHANGED prefixes

\* handleSortApply, and handleSortClear with the default.
handleSortApply_Mutant(s) ==
    /\ Reachable
    /\ updateSearchParams([url EXCEPT !.sort = s], <<>>, searchInput)
    /\ UNCHANGED prefixes

handleSortApply(s) ==
    /\ Reachable
    /\ updateSearchParams([url EXCEPT !.sort = s, !.cursor = NoCursor],
                          <<>>, searchInput)
    /\ UNCHANGED prefixes

\* The page size: the stack of cursors is left to the effect.
selectLimit(n) ==
    /\ Reachable
    /\ n # url.limit
    /\ updateSearchParams([url EXCEPT !.limit = n, !.cursor = NoCursor],
                          cursorHistory, searchInput)
    /\ UNCHANGED prefixes

handleNextPage ==
    /\ Reachable
    /\ NextCursor(shown) # NoCursor
    /\ updateSearchParams([url EXCEPT !.cursor = NextCursor(shown)],
                          Append(cursorHistory, url.cursor), searchInput)
    /\ UNCHANGED prefixes

handlePrevPage_Mutant ==
    /\ Reachable
    /\ cursorHistory # <<>>
    /\ updateSearchParams([url EXCEPT !.cursor = Last(cursorHistory)],
                          cursorHistory, searchInput)
    /\ UNCHANGED prefixes

handlePrevPage ==
    /\ Reachable
    /\ cursorHistory # <<>>
    /\ updateSearchParams([url EXCEPT !.cursor = Last(cursorHistory)],
                          Front(cursorHistory), searchInput)
    /\ UNCHANGED prefixes

handleRefreshEntries ==
    /\ inflight' = inflight \cup {url}
    /\ Cardinality(inflight') <= Requests
    /\ failed' = FALSE
    /\ UNCHANGED <<url, history, searchInput, cursorHistory, prefixes, latest,
                   cached>>

\* A change of the URL around the page: no handler of it runs, only the effects.
Around(u) ==
    /\ Shows(u, cursorHistory, searchInput)
    /\ Records(u, TRUE)
    /\ UNCHANGED prefixes

\* The browser's own buttons.
browserBack ==
    /\ BrowserHistory
    /\ past # <<>>
    /\ past' = Front(past)
    /\ future' = Append(future, url)
    /\ Around(Last(past))

browserForward ==
    /\ BrowserHistory
    /\ future # <<>>
    /\ future' = Front(future)
    /\ past' = Append(past, url)
    /\ Around(Last(future))

\* The link to the bucket on its card: the root with every default.
BucketRoute == [prefix |-> <<>>, search |-> NoSearch, limit |-> DefaultLimit,
                sort |-> DefaultSort, cursor |-> NoCursor]

\* The bucket is left for another page and opened again, by its card or by the
\* sidebar's link to the last address: the page was only hidden, and comes back
\* with its state.  The page was left by a link, or by going back from the entry
\* of the URL, which the new one replaces.
reopenBucket ==
    /\ Reopens
    /\ past' \in {past, Append(past, url)}
    /\ Len(past') <= Depth
    /\ future' = <<>>
    /\ \E u \in {url, BucketRoute} \cup {past[i] : i \in DOMAIN past} : Around(u)

-----------------------------------------------------------------------------
\* The cursors of a listing: those its pages end with.
Issued(u) ==
    {NoCursor} \cup {[sort |-> u.sort, last |-> e] : e \in EntriesOf(u.prefix, u.search)}

\* The page opens at any address it may have written: a reload, a bookmark and
\* the sidebar's link of an earlier session name any page of any view.
Init ==
    /\ url \in {u \in URLs : u.cursor \in Issued(u)}
    /\ past = <<>> /\ future = <<>>
    /\ searchInput = url.search
    /\ cursorHistory = <<>>
    /\ prefixBackHistory = <<>> /\ prefixForwardHistory = <<>>
    /\ latest = NoURL
    /\ failed = FALSE
    /\ cached = {}
    /\ inflight = {url}
    /\ offPage = (url.cursor # NoCursor)
    /\ offTrail = FALSE
    /\ jumps = 0

Next ==
    \/ \E p \in Folders : handleNavigatePrefix(p)
    \/ handlePrefixBack
    \/ handlePrefixForward
    \/ \E s \in Searches : typeSearch(s)
    \/ handleSearchSubmit
    \/ \E s \in Sorts : handleSortApply(s)
    \/ \E n \in Limits : selectLimit(n)
    \/ handleNextPage
    \/ handlePrevPage
    \/ handleRefreshEntries
    \/ browserBack
    \/ browserForward
    \/ reopenBucket
    \/ \E u \in inflight : Arrives(u) \/ Fails(u)
    \/ \E u \in cached : Evicted(u)

Spec == Init /\ [][Next]_vars

-----------------------------------------------------------------------------
(* Properties                                                              *)

\* Every variable has its type and no history outgrows the session history.
TypeOK ==
    /\ url \in URLs
    /\ past \in Seq(URLs) /\ future \in Seq(URLs)
    /\ Len(past) + Len(future) <= Depth
    /\ offPage \in BOOLEAN /\ offTrail \in BOOLEAN /\ jumps \in {0, 1}
    /\ searchInput \in Searches
    /\ cursorHistory \in Seq(Cursors)
    /\ prefixBackHistory \in Seq(Folders)
    /\ prefixForwardHistory \in Seq(Folders)
    /\ latest \in URLs \cup {NoURL} /\ failed \in BOOLEAN
    /\ cached \subseteq URLs /\ inflight \subseteq URLs

\* The cursors turned lead, page by page, from the first page of the view to
\* the page asked for: Previous returns to the page Next was pressed on, and the
\* number shown under the table (cursorHistory.length + 1) is the number of the
\* page.  It fails only after another way to a page (the browser's buttons, a
\* bucket opened again, an address with a cursor), and only until the next folder,
\* search, order or page size, or the first page, which puts it right.
PageTrail ==
    LET turned == Append(cursorHistory, url.cursor)
    IN ~offPage =>
           /\ turned[1] = NoCursor
           /\ \A i \in 1..Len(cursorHistory) :
                  turned[i + 1] = NextCursor([url EXCEPT !.cursor = turned[i]])

\* A cursor is only ever sent with the folder, search and order it was issued
\* for, whatever the order in which views are left and listings arrive.
OwnCursor ==
    url.cursor # NoCursor =>
        /\ url.cursor.sort = url.sort
        /\ url.cursor.last \in EntriesOf(url.prefix, url.search)

\* Back and Forward of the page lead to another folder than the one on the
\* screen: no click on an enabled button is lost.  The browser's buttons and a
\* bucket opened again take that away only if they change the folder while the
\* page remembers others.
NoDeadButton ==
    ~offTrail =>
        /\ prefixBackHistory # <<>> => Last(prefixBackHistory) # url.prefix
        /\ prefixForwardHistory # <<>> => Last(prefixForwardHistory) # url.prefix

\* The variables have their types, and a Back or Forward that is offered leads
\* to another folder (handleNavigatePrefix).
NavSound == TypeOK /\ NoDeadButton

\* The two stacks and the prefix of the URL implement the trail of folders that
\* PrefixTrail describes.
Trail == INSTANCE PrefixTrail WITH
    trail <- Append(prefixBackHistory, url.prefix) \o Reverse(prefixForwardHistory),
    pos <- Len(prefixBackHistory) + 1

TrailSpec == Trail!TrailSpec
=============================================================================
