-------------------------- MODULE ExplorerNav_proofs --------------------------
(***************************************************************************)
(* Proofs about the navigation of the object explorer, for any tree of     *)
(* folders, any contents and histories of any length:                      *)
(*   - a cursor is only sent with the listing it was issued for;           *)
(*   - the cursors turned lead page by page to the page asked for;         *)
(*   - Back and Forward lead to another folder;                            *)
(*   - the two stacks of folders implement the trail of PrefixTrail.       *)
(* The first two need that the overlay keeps the buttons out of reach      *)
(* while a listing is being fetched (Keyboard = FALSE).                    *)
(***************************************************************************)
EXTENDS ExplorerNav, FiniteSetTheorems, SequenceTheorems, WellFoundedInduction, TLAPS

-----------------------------------------------------------------------------
(* The inductive invariant                                                 *)

\* Once the query of the URL is settled its data is on the screen, and data in
\* the cache is there at once.
Settled ==
    /\ url \notin inflight /\ ~failed => latest = url
    /\ url \in cached => latest = url

\* A cursor belongs to the folder, search and order of the URL.
Owned(u) ==
    u.cursor # NoCursor =>
        u.cursor.sort = u.sort /\ u.cursor.last \in EntriesOf(u.prefix, u.search)

\* So do those of the pages turned, of the URLs in the browser's history, and of
\* every URL that Previous may lead to.
AllOwned ==
    /\ Owned(url)
    /\ \A i \in DOMAIN past : Owned(past[i])
    /\ \A i \in DOMAIN future : Owned(future[i])
    /\ \A i \in DOMAIN cursorHistory : Owned([url EXCEPT !.cursor = cursorHistory[i]])

\* Two folders that follow each other on a stack are different, the one on top
\* and the one on the screen too.
Alternate(s, p) ==
    /\ \A i \in 1..(Len(s) - 1) : s[i] # s[i + 1]
    /\ s # <<>> => Last(s) # p

\* The invariant of the pages, with the overlay.
PagingInv == Settled /\ AllOwned /\ PageTrail

\* The invariant of the folders, until the folder changes around the stacks.
FoldersInv ==
    ~offTrail => /\ Alternate(prefixBackHistory, url.prefix)
                 /\ Alternate(prefixForwardHistory, url.prefix)

-----------------------------------------------------------------------------
(* The cursor of a page                                                    *)

\* A finite set of entries has a last one, in either order: one with the fewest
\* entries after it has none.
LEMMA LastEntry ==
    ASSUME NEW P, P \subseteq Nat, IsFiniteSet(P), P # {}, NEW sort
    PROVE  \E e \in P : \A d \in P : d = e \/ Precedes(sort, d, e)
<1> DEFINE After(e) == {d \in P : Precedes(sort, e, d)}
           T == {After(e) : e \in P}
<1>1. T \subseteq FiniteSubsetsOf(P)
  <2>1. ASSUME NEW e \in P PROVE After(e) \in SUBSET P /\ IsFiniteSet(After(e))
    BY FS_Subset
  <2> HIDE DEF After
  <2> QED BY <2>1 DEF FiniteSubsetsOf
<1>2. IsWellFoundedOn(StrictSubsetOrdering(P), FiniteSubsetsOf(P))
  BY FS_StrictSubsetOrderingWellFounded
<1>3. T # {}
  OBVIOUS
<1>4. PICK x \in T : \A y \in T : <<y, x>> \notin StrictSubsetOrdering(P)
  <2> HIDE DEF T
  <2> QED BY <1>1, <1>2, <1>3, WFMin
<1>5. PICK e \in P : x = After(e)
  OBVIOUS
<1>6. ASSUME NEW d \in P, Precedes(sort, e, d) PROVE FALSE
  <2>1. d \in After(e) /\ d \notin After(d) /\ After(d) \subseteq After(e)
    <3>1. \A c \in P : Precedes(sort, d, c) => Precedes(sort, e, c)
      <4>1. d \in Nat /\ e \in Nat /\ \A c \in P : c \in Nat
        OBVIOUS
      <4> QED BY <1>6, <4>1 DEF Precedes
    <3>2. ~Precedes(sort, d, d)
      BY DEF Precedes
    <3> QED BY <1>6, <3>1, <3>2
  <2>2. After(d) \in T /\ After(d) \in SUBSET P /\ After(e) \in SUBSET P /\ After(d) # After(e)
    BY <2>1
  <2> HIDE DEF After, T
  <2>3. <<After(d), After(e)>> \in StrictSubsetOrdering(P)
    BY <2>1, <2>2 DEF StrictSubsetOrdering
  <2> QED BY <1>4, <1>5, <2>2, <2>3
<1>7. \A d \in P : d = e \/ Precedes(sort, d, e)
  BY <1>6 DEF Precedes
<1> QED BY <1>7

\* A listing that goes on after the page has a page, and with it a last entry.
LEMMA PageHasLast ==
    ASSUME NEW u \in URLs, Rest(u) # Page(u)
    PROVE  \E e \in Page(u) : \A d \in Page(u) : d = e \/ Precedes(u.sort, d, e)
<1> DEFINE R == Rest(u)
<1>1. R \subseteq Nat /\ IsFiniteSet(R) /\ Page(u) \subseteq R
  <2>1. u.prefix \in Folders /\ u.search \in Searches
    BY DEF URLs
  <2>2. EntriesOf(u.prefix, u.search) \subseteq Nat /\ IsFiniteSet(EntriesOf(u.prefix, u.search))
    BY <2>1, NavAssumption
  <2>3. R \subseteq EntriesOf(u.prefix, u.search)
    BY DEF Rest
  <2>4. IsFiniteSet(R)
    BY <2>2, <2>3, FS_Subset
  <2> QED BY <2>2, <2>3, <2>4 DEF Page
<1>2. R # {}
  BY <1>1
<1>3. PICK s \in {"asc", "desc"} : s = "asc" <=> u.sort # "asc"
  OBVIOUS
<1>4. PICK f \in R : \A d \in R : d = f \/ Precedes(s, d, f)
  <2> HIDE DEF R
  <2> QED BY <1>1, <1>2, LastEntry
<1>5. {d \in R : Precedes(u.sort, d, f)} = {}
  BY <1>1, <1>3, <1>4 DEF Precedes
<1>6. f \in Page(u)
  <2>1. u.limit \in Nat \ {0}
    BY NavAssumption DEF URLs
  <2>2. Cardinality({d \in R : Precedes(u.sort, d, f)}) < u.limit
    BY <1>5, <2>1, FS_EmptySet
  <2> QED BY <2>2 DEF Page
<1>7. IsFiniteSet(Page(u)) /\ Page(u) \subseteq Nat
  BY <1>1, FS_Subset
<1> QED BY <1>6, <1>7, LastEntry

\* The next cursor is one of the listing it is issued for.
LEMMA NextCursorOwned ==
    ASSUME NEW u \in URLs
    PROVE  /\ NextCursor(u) \in Cursors
           /\ NextCursor(u) # NoCursor =>
                /\ NextCursor(u).sort = u.sort
                /\ NextCursor(u).last \in EntriesOf(u.prefix, u.search)
<1>1. CASE Rest(u) = Page(u)
  BY <1>1 DEF NextCursor, Cursors
<1>2. CASE Rest(u) # Page(u)
  <2> DEFINE e == CHOOSE e \in Page(u) : \A d \in Page(u) : d = e \/ Precedes(u.sort, d, e)
  <2>1. e \in Page(u)
    BY <1>2, PageHasLast
  <2>2. e \in EntriesOf(u.prefix, u.search)
    BY <2>1 DEF Page, Rest
  <2>3. NextCursor(u) = [sort |-> u.sort, last |-> e]
    BY <1>2 DEF NextCursor
  <2> HIDE DEF e
  <2>4. u.sort \in Sorts /\ u.prefix \in Folders /\ u.search \in Searches
    BY DEF URLs
  <2>5. e \in UNION {EntriesOf(p, s) : p \in Folders, s \in Searches}
    BY <2>2, <2>4
  <2>6. NextCursor(u) \in Cursors
    BY <2>3, <2>4, <2>5 DEF Cursors
  <2> QED BY <2>2, <2>3, <2>6
<1> QED BY <1>1, <1>2

-----------------------------------------------------------------------------
(* Types                                                                   *)

\* What the types need of the constants.
LEMMA ConstantTypes == Depth \in Nat /\ NoSearch \in Searches /\ <<>> \in Folders
<1>1. Depth \in Nat
  BY NavAssumption
<1>2. NoSearch \in Searches
  BY NavAssumption
<1>3. <<>> \in Folders
  BY NavAssumption
<1> QED BY <1>1, <1>2, <1>3

\* The empty stack.
LEMMA EmptyStack == ASSUME NEW S PROVE <<>> \in Seq(S)
OBVIOUS

\* The top of a stack and the rest of it.
LEMMA Stacks ==
    ASSUME NEW S, NEW s \in Seq(S)
    PROVE  /\ \A x \in S : /\ Append(s, x) \in Seq(S) /\ Len(Append(s, x)) = Len(s) + 1
                           /\ Append(s, x)[Len(s) + 1] = x
                           /\ \A i \in 1..Len(s) : Append(s, x)[i] = s[i]
           /\ s # <<>> => /\ Front(s) \in Seq(S) /\ Last(s) \in S /\ Last(s) = s[Len(s)]
                          /\ Len(s) \in Nat \ {0} /\ Len(Front(s)) = Len(s) - 1
                          /\ \A i \in 1..(Len(s) - 1) : Front(s)[i] = s[i]
           /\ Len(s) \in Nat /\ DOMAIN s = 1..Len(s)
BY DEF Front, Last

\* What the effects of a change of the URL leave.
LEMMA ShowsTyped ==
    ASSUME TypeOK, NEW u \in URLs, NEW cursors \in Seq(Cursors), NEW input \in Searches,
           Shows(u, cursors, input)
    PROVE  /\ url' = u /\ cursorHistory' \in Seq(Cursors) /\ searchInput' \in Searches
           /\ latest' \in URLs \cup {NoURL} /\ failed' \in BOOLEAN
           /\ cached' \subseteq URLs /\ inflight' \subseteq URLs
<1>1. url' = u /\ searchInput' \in Searches
  BY DEF TypeOK, Shows, URLs
<1>2. cursorHistory' \in Seq(Cursors)
  BY DEF Shows
<1>3. /\ latest' \in URLs \cup {NoURL} /\ failed' \in BOOLEAN
      /\ cached' \subseteq URLs /\ inflight' \subseteq URLs
  BY DEF TypeOK, Shows, Observe, query
<1> QED BY <1>1, <1>2, <1>3

\* What is recorded of a change of the URL.
LEMMA RecordsTyped ==
    ASSUME TypeOK, NEW u, NEW around \in BOOLEAN, Records(u, around)
    PROVE  offPage' \in BOOLEAN /\ offTrail' \in BOOLEAN /\ jumps' \in {0, 1}
<1>1. offPage' \in BOOLEAN /\ offTrail' \in BOOLEAN
  BY DEF TypeOK, Records
<1>2. jumps' \in {0, 1}
  BY DEF TypeOK, Records
<1> QED BY <1>1, <1>2

\* A change of the URL around the page keeps the types of everything but the
\* session history.
LEMMA AroundTyped ==
    ASSUME TypeOK, NEW u \in URLs, Around(u), past' \in Seq(URLs), future' \in Seq(URLs),
           Len(past') + Len(future') <= Depth
    PROVE  TypeOK'
<1>1. Shows(u, cursorHistory, searchInput) /\ Records(u, TRUE) /\ UNCHANGED prefixes
  BY DEF Around
<1>2. cursorHistory \in Seq(Cursors) /\ searchInput \in Searches
  BY DEF TypeOK
<1>3. /\ url' = u /\ cursorHistory' \in Seq(Cursors) /\ searchInput' \in Searches
      /\ latest' \in URLs \cup {NoURL} /\ failed' \in BOOLEAN
      /\ cached' \subseteq URLs /\ inflight' \subseteq URLs
  BY <1>1, <1>2, ShowsTyped
<1>4. offPage' \in BOOLEAN /\ offTrail' \in BOOLEAN /\ jumps' \in {0, 1}
  BY <1>1, RecordsTyped
<1> QED BY <1>1, <1>3, <1>4 DEF TypeOK, prefixes

\* A navigation of the page keeps the types, whatever it does with the stacks of
\* folders.
LEMMA UpdateTyped ==
    ASSUME TypeOK, NEW u \in URLs, NEW cursors \in Seq(Cursors), NEW input \in Searches,
           updateSearchParams(u, cursors, input),
           prefixBackHistory' \in Seq(Folders), prefixForwardHistory' \in Seq(Folders)
    PROVE  TypeOK'
<1>1. /\ Len(past) < Depth /\ past' = Append(past, url) /\ future' = <<>>
      /\ Shows(u, cursors, input) /\ Records(u, FALSE)
  BY DEF updateSearchParams
<1>2. past' \in Seq(URLs) /\ Len(past') = Len(past) + 1 /\ Len(past) \in Nat
  BY <1>1, Stacks DEF TypeOK
<1>3. future' \in Seq(URLs) /\ Len(future') = 0
  BY <1>1
<1>4. Len(past') + Len(future') <= Depth
  BY <1>1, <1>2, <1>3, ConstantTypes
<1>5. offPage' \in BOOLEAN /\ offTrail' \in BOOLEAN /\ jumps' \in {0, 1}
  BY <1>1, RecordsTyped
<1> QED BY <1>1, <1>2, <1>3, <1>4, <1>5, ShowsTyped DEF TypeOK

\* The URLs that the page navigates to.
LEMMA EditedURLs ==
    ASSUME TypeOK
    PROVE  /\ \A p \in Folders :
                [url EXCEPT !.prefix = p, !.search = NoSearch, !.cursor = NoCursor] \in URLs
           /\ \A s \in Searches : [url EXCEPT !.search = s, !.cursor = NoCursor] \in URLs
           /\ \A s \in Sorts : [url EXCEPT !.sort = s, !.cursor = NoCursor] \in URLs
           /\ \A n \in Limits : [url EXCEPT !.limit = n, !.cursor = NoCursor] \in URLs
           /\ \A c \in Cursors : [url EXCEPT !.cursor = c] \in URLs
<1>1. NoCursor \in Cursors /\ NoSearch \in Searches
  BY ConstantTypes DEF Cursors
<1>2. url \in URLs
  BY DEF TypeOK
<1> QED BY <1>1, <1>2 DEF URLs

\* Opening a folder.
LEMMA PrefixTyped ==
    ASSUME TypeOK, NEW p \in Folders, applyPrefixNavigation(p),
           prefixBackHistory' \in Seq(Folders), prefixForwardHistory' \in Seq(Folders)
    PROVE  TypeOK'
<1> DEFINE u == [url EXCEPT !.prefix = p, !.search = NoSearch, !.cursor = NoCursor]
<1>1. u \in URLs /\ NoSearch \in Searches
  BY EditedURLs, ConstantTypes
<1>2. updateSearchParams(u, <<>>, NoSearch)
  BY DEF applyPrefixNavigation
<1> HIDE DEF u
<1> QED BY <1>1, <1>2, UpdateTyped, EmptyStack

\* A folder has its parent in the tree, and is not its own parent.
LEMMA ParentFolder ==
    ASSUME NEW p \in Folders
    PROVE  Parent(p) \in Folders /\ (p # <<>> => Parent(p) # p)
<1>1. p \in Seq({p[i] : i \in DOMAIN p})
  BY NavAssumption
<1>2. CASE p = <<>>
  BY <1>2, NavAssumption DEF Parent
<1>3. CASE p # <<>>
  <2>1. Front(p) \in Folders /\ Parent(p) = Front(p)
    BY <1>3, NavAssumption DEF Parent
  <2>2. Len(Front(p)) = Len(p) - 1 /\ Len(p) \in Nat
    BY <1>1, <1>3, Stacks
  <2> QED BY <2>1, <2>2
<1> QED BY <1>2, <1>3

\* The address on the card of the bucket is one of the page.
LEMMA RouteURL == BucketRoute \in URLs /\ BucketRoute.cursor = NoCursor
<1>1. /\ <<>> \in Folders /\ NoSearch \in Searches /\ DefaultLimit \in Limits
      /\ DefaultSort \in Sorts
  BY NavAssumption
<1>2. NoCursor \in Cursors
  BY DEF Cursors
<1> QED BY <1>1, <1>2 DEF BucketRoute, URLs

\* The types, for every step.
LEMMA TypeStep ==
    ASSUME TypeOK, [Next]_vars
    PROVE  TypeOK'
<1>1. /\ url \in URLs /\ url.prefix \in Folders /\ url.cursor \in Cursors
      /\ prefixBackHistory \in Seq(Folders) /\ prefixForwardHistory \in Seq(Folders)
      /\ cursorHistory \in Seq(Cursors) /\ searchInput \in Searches
      /\ past \in Seq(URLs) /\ future \in Seq(URLs)
  BY DEF TypeOK, URLs
<1>2. /\ Append(prefixBackHistory, url.prefix) \in Seq(Folders)
      /\ Append(prefixForwardHistory, url.prefix) \in Seq(Folders)
      /\ Append(cursorHistory, url.cursor) \in Seq(Cursors)
      /\ Append(past, url) \in Seq(URLs) /\ Append(future, url) \in Seq(URLs)
  BY <1>1
<1>3. ASSUME NEW p \in Folders, handleNavigatePrefix(p) PROVE TypeOK'
  <2>1. /\ prefixBackHistory' \in {prefixBackHistory, Append(prefixBackHistory, url.prefix)}
        /\ prefixForwardHistory' \in {prefixForwardHistory, <<>>}
    BY <1>3 DEF handleNavigatePrefix, prefixes
  <2>2. prefixBackHistory' \in Seq(Folders) /\ prefixForwardHistory' \in Seq(Folders)
    BY <1>1, <1>2, <2>1, EmptyStack
  <2> QED BY <1>3, <2>2, PrefixTyped DEF handleNavigatePrefix
<1>4. CASE handlePrefixBack
  <2>1. CASE prefixBackHistory # <<>>
    <3>1. Front(prefixBackHistory) \in Seq(Folders) /\ Last(prefixBackHistory) \in Folders
      BY <1>1, <2>1, Stacks
    <3> QED BY <1>2, <1>4, <2>1, <3>1, PrefixTyped DEF handlePrefixBack
  <2>2. CASE prefixBackHistory = <<>>
    BY <1>1, <1>2, <1>4, <2>2, PrefixTyped, ParentFolder DEF handlePrefixBack
  <2> QED BY <2>1, <2>2
<1>5. CASE handlePrefixForward
  <2>1. Front(prefixForwardHistory) \in Seq(Folders) /\ Last(prefixForwardHistory) \in Folders
    BY <1>1, <1>5, Stacks DEF handlePrefixForward
  <2> QED BY <1>2, <1>5, <2>1, PrefixTyped DEF handlePrefixForward
<1>6. ASSUME NEW s \in Searches, typeSearch(s) PROVE TypeOK'
  BY <1>6 DEF typeSearch, TypeOK, history, strays, prefixes, query
<1>7. CASE handleSearchSubmit
  <2>1. [url EXCEPT !.search = searchInput, !.cursor = NoCursor] \in URLs
    BY <1>1, EditedURLs
  <2> QED BY <1>1, <1>7, <2>1, UpdateTyped, EmptyStack DEF handleSearchSubmit, prefixes
<1>8. ASSUME NEW s \in Sorts, handleSortApply(s) PROVE TypeOK'
  <2>1. [url EXCEPT !.sort = s, !.cursor = NoCursor] \in URLs
    BY EditedURLs
  <2> QED BY <1>1, <1>8, <2>1, UpdateTyped, EmptyStack DEF handleSortApply, prefixes
<1>9. ASSUME NEW n \in Limits, selectLimit(n) PROVE TypeOK'
  <2>1. [url EXCEPT !.limit = n, !.cursor = NoCursor] \in URLs
    BY EditedURLs
  <2> QED BY <1>1, <1>9, <2>1, UpdateTyped DEF selectLimit, prefixes
<1>10. CASE handleNextPage
  <2>1. shown \in URLs
    BY <1>10 DEF handleNextPage, Reachable, ShowsEntries, shown, TypeOK
  <2>2. NextCursor(shown) \in Cursors
    BY <2>1, NextCursorOwned
  <2> QED BY <1>1, <1>2, <1>10, <2>2, UpdateTyped, EditedURLs DEF handleNextPage, prefixes
<1>11. CASE handlePrevPage
  <2>1. Front(cursorHistory) \in Seq(Cursors) /\ Last(cursorHistory) \in Cursors
    BY <1>1, <1>11, Stacks DEF handlePrevPage
  <2> QED BY <1>1, <1>11, <2>1, UpdateTyped, EditedURLs DEF handlePrevPage, prefixes
<1>12. CASE handleRefreshEntries
  BY <1>1, <1>12 DEF handleRefreshEntries, TypeOK, history, strays, prefixes
<1>13. CASE browserBack
  <2>1. /\ past' = Front(past) /\ future' = Append(future, url) /\ Around(Last(past))
        /\ past # <<>>
    BY <1>13 DEF browserBack
  <2>2. /\ Front(past) \in Seq(URLs) /\ Last(past) \in URLs /\ Len(Front(past)) = Len(past) - 1
        /\ Len(past) \in Nat
    BY <1>1, <2>1, Stacks
  <2>3. Len(Append(future, url)) = Len(future) + 1 /\ Len(future) \in Nat
    BY <1>1, Stacks
  <2>4. Len(past') + Len(future') <= Depth
    BY <2>1, <2>2, <2>3, ConstantTypes DEF TypeOK
  <2> QED BY <1>2, <2>1, <2>2, <2>4, AroundTyped
<1>14. CASE browserForward
  <2>1. /\ future' = Front(future) /\ past' = Append(past, url) /\ Around(Last(future))
        /\ future # <<>>
    BY <1>14 DEF browserForward
  <2>2. /\ Front(future) \in Seq(URLs) /\ Last(future) \in URLs
        /\ Len(Front(future)) = Len(future) - 1 /\ Len(future) \in Nat
    BY <1>1, <2>1, Stacks
  <2>3. Len(Append(past, url)) = Len(past) + 1 /\ Len(past) \in Nat
    BY <1>1, Stacks
  <2>4. Len(past') + Len(future') <= Depth
    BY <2>1, <2>2, <2>3, ConstantTypes DEF TypeOK
  <2> QED BY <1>2, <2>1, <2>2, <2>4, AroundTyped
<1>18. CASE reopenBucket
  <2>1. /\ past' \in {past, Append(past, url)} /\ Len(past') <= Depth /\ future' = <<>>
    BY <1>18 DEF reopenBucket
  <2>2. PICK u \in {url, BucketRoute} \cup {past[i] : i \in DOMAIN past} : Around(u)
    BY <1>18 DEF reopenBucket
  <2>3. past' \in Seq(URLs) /\ future' \in Seq(URLs) /\ Len(past') + Len(future') <= Depth
    <3>1. past' \in Seq(URLs) /\ future' \in Seq(URLs)
      BY <1>1, <1>2, <2>1, EmptyStack
    <3>2. Len(past') \in Nat /\ Len(future') = 0
      BY <2>1, <3>1
    <3> QED BY <2>1, <3>1, <3>2
  <2>4. u \in URLs
    BY <1>1, RouteURL
  <2> QED BY <2>2, <2>3, <2>4, AroundTyped
<1>15. ASSUME NEW u \in inflight, Arrives(u) \/ Fails(u) PROVE TypeOK'
  BY <1>1, <1>15 DEF Arrives, Fails, TypeOK, history, strays, prefixes
<1>16. ASSUME NEW u \in cached, Evicted(u) PROVE TypeOK'
  BY <1>1, <1>16 DEF Evicted, TypeOK, history, strays, prefixes
<1>17. CASE UNCHANGED vars
  BY <1>17 DEF vars, history, strays, prefixes, query, TypeOK
<1> QED BY <1>3, <1>4, <1>5, <1>6, <1>7, <1>8, <1>9, <1>10, <1>11, <1>12, <1>13, <1>14,
           <1>15, <1>16, <1>17, <1>18 DEF Next

-----------------------------------------------------------------------------
(* Pages                                                                   *)

\* A change of the URL asks for the listing, and shows it if it is in the cache.
LEMMA ShowsSettled ==
    ASSUME Settled, NEW u, NEW cursors, NEW input, Shows(u, cursors, input)
    PROVE  Settled'
<1>1. CASE u = url
  BY <1>1 DEF Settled, Shows, query
<1>2. CASE u # url
  BY <1>2 DEF Settled, Shows, Observe
<1> QED BY <1>1, <1>2

\* The buttons that can be reached act on the listing of the URL.
LEMMA ReachableShown ==
    ASSUME TypeOK, Settled, ~Keyboard, Reachable
    PROVE  shown = url
BY DEF Settled, Reachable, ShowsEntries, Fetching, shown, TypeOK

\* A URL turned to another page of its view.
Turn(u, c) == [u EXCEPT !.cursor = c]

\* PageTrail, cursor by cursor: the first page, and the step to the next one.
Chain(u, cs) ==
    /\ cs = <<>> => u.cursor = NoCursor
    /\ cs # <<>> => cs[1] = NoCursor /\ u.cursor = NextCursor(Turn(u, cs[Len(cs)]))
    /\ \A i \in 1..(Len(cs) - 1) : cs[i + 1] = NextCursor(Turn(u, cs[i]))

\* The cursors on a stack belong to the view of a URL.
StackOwned(u, cs) == \A i \in DOMAIN cs : Owned(Turn(u, cs[i]))

\* A turned URL is one of the same view, and its cursor is the one asked for.
LEMMA TurnView ==
    ASSUME NEW u \in URLs, NEW c
    PROVE  /\ View(Turn(u, c)) = View(u) /\ Turn(u, c).cursor = c
           /\ Turn(u, u.cursor) = u
           /\ \A d : Turn(Turn(u, c), d) = Turn(u, d)
<1>1. /\ Turn(u, c).cursor = c /\ Turn(u, c).sort = u.sort /\ Turn(u, c).prefix = u.prefix
      /\ Turn(u, c).search = u.search /\ Turn(u, c).limit = u.limit
  BY DEF Turn, URLs
<1>2. View(Turn(u, c)) = View(u)
  BY <1>1 DEF View
<1>3. Turn(u, u.cursor) = u
  BY DEF Turn, URLs
<1>4. \A d : Turn(Turn(u, c), d) = Turn(u, d)
  BY DEF Turn, URLs
<1> QED BY <1>1, <1>2, <1>3, <1>4

\* What is put on a stack is on top of it, and the rest stays.
LEMMA Pushed ==
    ASSUME NEW S, NEW s \in Seq(S), NEW x \in S
    PROVE  \A i \in DOMAIN Append(s, x) :
              \/ i = Len(s) + 1 /\ Append(s, x)[i] = x
              \/ i \in DOMAIN s /\ Append(s, x)[i] = s[i]
OBVIOUS

\* The top of a stack and what is under it.
LEMMA Popped ==
    ASSUME NEW S, NEW s \in Seq(S), s # <<>>
    PROVE  /\ Last(s) \in S /\ Len(s) \in DOMAIN s /\ Last(s) = s[Len(s)]
           /\ \A i \in DOMAIN Front(s) : i \in DOMAIN s /\ Front(s)[i] = s[i]
<1>1. /\ Len(s) \in Nat \ {0} /\ DOMAIN s = 1..Len(s) /\ Front(s) \in Seq(S)
      /\ Len(Front(s)) = Len(s) - 1 /\ Last(s) \in S /\ Last(s) = s[Len(s)]
      /\ \A i \in 1..(Len(s) - 1) : Front(s)[i] = s[i]
  BY Stacks
<1>2. DOMAIN Front(s) = 1..(Len(s) - 1)
  BY <1>1
<1> QED BY <1>1, <1>2

\* The two ways to say that the cursors lead to the page.
LEMMA TrailChain ==
    ASSUME NEW u \in URLs, NEW cs \in Seq(Cursors)
    PROVE  (LET turned == Append(cs, u.cursor)
            IN  /\ turned[1] = NoCursor
                /\ \A i \in 1..Len(cs) :
                       turned[i + 1] = NextCursor([u EXCEPT !.cursor = turned[i]]))
           <=> Chain(u, cs)
<1> DEFINE n == Len(cs)
           turned == Append(cs, u.cursor)
<1>1. /\ n \in Nat /\ turned[n + 1] = u.cursor
      /\ \A i \in 1..n : turned[i] = cs[i]
      /\ cs = <<>> <=> n = 0
  <2>1. u.cursor \in Cursors
    BY DEF URLs
  <2> QED BY <2>1
<1>2. SUFFICES (/\ turned[1] = NoCursor
                /\ \A i \in 1..n : turned[i + 1] = NextCursor(Turn(u, turned[i])))
               <=> Chain(u, cs)
  BY DEF Turn
<1>5. Chain(u, cs) <=>
        /\ n = 0 => u.cursor = NoCursor
        /\ n # 0 => cs[1] = NoCursor /\ u.cursor = NextCursor(Turn(u, cs[n]))
        /\ \A i \in 1..(n - 1) : cs[i + 1] = NextCursor(Turn(u, cs[i]))
  BY <1>1 DEF Chain
<1> HIDE DEF n, turned
<1>3. turned[1] = IF n = 0 THEN u.cursor ELSE cs[1]
  BY <1>1
<1>4. (\A i \in 1..n : turned[i + 1] = NextCursor(Turn(u, turned[i])))
      <=> /\ n # 0 => u.cursor = NextCursor(Turn(u, cs[n]))
          /\ \A i \in 1..(n - 1) : cs[i + 1] = NextCursor(Turn(u, cs[i]))
  <2>1. \A i \in 1..(n - 1) : /\ i \in 1..n /\ i + 1 \in 1..n
                              /\ turned[i] = cs[i] /\ turned[i + 1] = cs[i + 1]
    BY <1>1
  <2>2. n # 0 => n \in 1..n /\ turned[n] = cs[n] /\ turned[n + 1] = u.cursor
    BY <1>1
  <2>3. \A i \in 1..n : i = n \/ i \in 1..(n - 1)
    BY <1>1
  <2>4. n = 0 => 1..n = {}
    BY <1>1
  <2> QED BY <2>1, <2>2, <2>3, <2>4
<1> QED BY <1>3, <1>4, <1>5

\* Next: the page turned from becomes the last cursor.
LEMMA ChainNext ==
    ASSUME NEW u \in URLs, NEW cs \in Seq(Cursors), Chain(u, cs)
    PROVE  Chain(Turn(u, NextCursor(u)), Append(cs, u.cursor))
<1> DEFINE n == Len(cs)
           s == Append(cs, u.cursor)
           v == Turn(u, NextCursor(u))
<1>1. /\ n \in Nat /\ s[n + 1] = u.cursor /\ Len(s) = n + 1 /\ s # <<>>
      /\ \A i \in 1..n : s[i] = cs[i]
      /\ cs = <<>> <=> n = 0
  <2>1. u.cursor \in Cursors
    BY DEF URLs
  <2> QED BY <2>1
<1>2. Chain(u, cs) <=>
        /\ n = 0 => u.cursor = NoCursor
        /\ n # 0 => cs[1] = NoCursor /\ u.cursor = NextCursor(Turn(u, cs[n]))
        /\ \A i \in 1..(n - 1) : cs[i + 1] = NextCursor(Turn(u, cs[i]))
  BY <1>1 DEF Chain
<1>3. v.cursor = NextCursor(u) /\ Turn(u, u.cursor) = u /\ \A d : Turn(v, d) = Turn(u, d)
  BY TurnView
<1>4. Chain(v, s) <=>
        /\ s[1] = NoCursor /\ v.cursor = NextCursor(Turn(v, s[n + 1]))
        /\ \A i \in 1..n : s[i + 1] = NextCursor(Turn(v, s[i]))
  <2> HIDE DEF s, v, n
  <2>1. n + 1 - 1 = n
    BY <1>1
  <2> QED BY <1>1, <2>1 DEF Chain
<1> HIDE DEF s, v, n
<1>5. s[1] = NoCursor
  BY <1>1, <1>2
<1>6. ASSUME NEW i \in 1..n PROVE s[i + 1] = NextCursor(Turn(v, s[i]))
  <2>1. CASE i = n
    BY <1>1, <1>2, <1>3, <2>1
  <2>2. CASE i # n
    <3>1. i \in 1..(n - 1) /\ i + 1 \in 1..n
      BY <1>1, <2>2
    <3> QED BY <1>1, <1>2, <1>3, <3>1
  <2> QED BY <2>1, <2>2
<1>7. Chain(v, s)
  BY <1>1, <1>3, <1>4, <1>5, <1>6
<1> QED BY <1>7 DEF s, v

\* Previous: the last cursor is the page turned to.
LEMMA ChainPrev ==
    ASSUME NEW u \in URLs, NEW cs \in Seq(Cursors), Chain(u, cs), cs # <<>>
    PROVE  Chain(Turn(u, Last(cs)), Front(cs))
<1> DEFINE n == Len(cs) - 1
           s == Front(cs)
           v == Turn(u, Last(cs))
<1>1. /\ n \in Nat /\ Last(cs) = cs[n + 1] /\ Len(s) = n /\ Len(cs) = n + 1
      /\ \A i \in 1..n : s[i] = cs[i]
      /\ s \in Seq(Cursors)
  BY Stacks
<1>2. /\ cs[1] = NoCursor
      /\ \A i \in 1..n : cs[i + 1] = NextCursor(Turn(u, cs[i]))
  BY DEF Chain
<1>3. v.cursor = cs[n + 1] /\ \A d : Turn(v, d) = Turn(u, d)
  BY <1>1, TurnView
<1> HIDE DEF s, v, n
<1>4. s = <<>> <=> n = 0
  BY <1>1
<1>5. s = <<>> => v.cursor = NoCursor
  BY <1>2, <1>3, <1>4
<1>6. s # <<>> => s[1] = NoCursor /\ v.cursor = NextCursor(Turn(v, s[n]))
  BY <1>1, <1>2, <1>3, <1>4
<1>7. ASSUME NEW i \in 1..(n - 1) PROVE s[i + 1] = NextCursor(Turn(v, s[i]))
  <2>1. i \in 1..n /\ i + 1 \in 1..n
    BY <1>1
  <2> QED BY <1>1, <1>2, <1>3, <2>1
<1>8. Chain(v, s)
  BY <1>1, <1>5, <1>6, <1>7 DEF Chain
<1> QED BY <1>8 DEF v, s

\* PageTrail, as a chain of cursors.
LEMMA TrailNow ==
    ASSUME TypeOK
    PROVE  PageTrail <=> (~offPage => Chain(url, cursorHistory))
<1>1. url \in URLs /\ cursorHistory \in Seq(Cursors)
  BY DEF TypeOK
<1> QED BY <1>1, TrailChain DEF PageTrail

\* The same in the next state.
LEMMA TrailThen ==
    ASSUME TypeOK'
    PROVE  PageTrail' <=> (~offPage' => Chain(url', cursorHistory'))
<1>1. url' \in URLs /\ cursorHistory' \in Seq(Cursors)
  BY DEF TypeOK
<1> QED BY <1>1, TrailChain DEF PageTrail

\* AllOwned, with the stack of cursors as one of its parts.
LEMMA OwnedNow ==
    AllOwned <=> /\ Owned(url) /\ StackOwned(url, cursorHistory)
                 /\ \A i \in DOMAIN past : Owned(past[i])
                 /\ \A i \in DOMAIN future : Owned(future[i])
BY DEF AllOwned, StackOwned, Turn

\* The same in the next state.
LEMMA OwnedThen ==
    AllOwned' <=> /\ Owned(url') /\ StackOwned(url', cursorHistory')
                  /\ \A i \in DOMAIN past' : Owned(past'[i])
                  /\ \A i \in DOMAIN future' : Owned(future'[i])
BY DEF AllOwned, StackOwned, Turn, Owned

\* A step that stays on the page.
LEMMA StaySound ==
    ASSUME PagingInv, Settled', UNCHANGED <<url, past, future, offPage, cursorHistory>>
    PROVE  PagingInv'
<1>1. AllOwned'
  BY DEF PagingInv, AllOwned, Owned
<1>2. PageTrail'
  BY DEF PagingInv, PageTrail
<1> QED BY <1>1, <1>2 DEF PagingInv

\* A navigation of the page, to a page whose cursors are those of its view and
\* lead to it.
LEMMA UpdateSound ==
    ASSUME PagingInv, TypeOK, TypeOK', NEW u \in URLs, NEW cursors, NEW input,
           updateSearchParams(u, cursors, input), Owned(u),
           StackOwned(u, cursorHistory'), ~offPage => Chain(u, cursorHistory')
    PROVE  PagingInv'
<1>1. /\ past' = Append(past, url) /\ future' = <<>>
      /\ url' = u /\ Shows(u, cursors, input)
      /\ ~offPage' => ~offPage \/ (cursorHistory' = <<>> /\ u.cursor = NoCursor)
  BY DEF updateSearchParams, Shows, Records, TypeOK
<1>2. Settled'
  BY <1>1, ShowsSettled DEF PagingInv
<1>3. Owned(url) /\ \A i \in DOMAIN past : Owned(past[i])
  BY OwnedNow DEF PagingInv
<1>4. \A i \in DOMAIN past' : Owned(past'[i])
  <2>1. past \in Seq(URLs) /\ url \in URLs
    BY DEF TypeOK
  <2>2. \A i \in DOMAIN past' : past'[i] = url \/ (i \in DOMAIN past /\ past'[i] = past[i])
    BY <1>1, <2>1, Pushed
  <2> QED BY <1>3, <2>2
<1>5. AllOwned'
  <2>1. DOMAIN future' = {}
    BY <1>1
  <2> QED BY <1>1, <1>4, <2>1, OwnedThen
<1>6. PageTrail'
  <2>1. u.cursor = NoCursor => Chain(u, <<>>)
    BY DEF Chain
  <2> QED BY <1>1, <2>1, TrailThen
<1> QED BY <1>2, <1>5, <1>6 DEF PagingInv

\* Going to the first page of a view forgets the pages turned.
LEMMA ResetSound ==
    ASSUME PagingInv, TypeOK, TypeOK', NEW u \in URLs, NEW cursors, NEW input,
           updateSearchParams(u, cursors, input), u.cursor = NoCursor,
           cursors = <<>> \/ View(u) # View(url)
    PROVE  PagingInv'
<1>1. cursorHistory' = <<>>
  BY DEF updateSearchParams, Shows
<1>2. Owned(u)
  BY DEF Owned
<1>3. StackOwned(u, cursorHistory') /\ Chain(u, cursorHistory')
  BY <1>1 DEF StackOwned, Chain
<1> QED BY <1>2, <1>3, UpdateSound

\* Turning a page keeps the cursors of the view.
LEMMA TurnSound ==
    ASSUME PagingInv, TypeOK, TypeOK', NEW c \in Cursors, NEW cursors, NEW input,
           updateSearchParams(Turn(url, c), cursors, input), Owned(Turn(url, c)),
           StackOwned(url, cursors), ~offPage => Chain(Turn(url, c), cursors)
    PROVE  PagingInv'
<1>1. url \in URLs /\ Turn(url, c) \in URLs
  BY EditedURLs DEF TypeOK, Turn
<1>2. View(Turn(url, c)) = View(url)
  BY <1>1, TurnView
<1>3. cursorHistory' = cursors
  BY <1>2 DEF updateSearchParams, Shows
<1>4. StackOwned(Turn(url, c), cursorHistory')
  <2>1. \A d : Turn(Turn(url, c), d) = Turn(url, d)
    BY <1>1, TurnView
  <2> QED BY <1>3, <2>1 DEF StackOwned
<1> QED BY <1>1, <1>3, <1>4, UpdateSound

\* Next goes to the page that follows the one on the screen, which is that of the
\* URL, and remembers where it came from.
LEMMA NextPageSound ==
    ASSUME PagingInv, TypeOK, TypeOK', ~Keyboard, handleNextPage
    PROVE  PagingInv'
<1> DEFINE c == NextCursor(url)
           cursors == Append(cursorHistory, url.cursor)
<1>1. shown = url
  BY ReachableShown DEF handleNextPage, PagingInv
<1>2. updateSearchParams(Turn(url, c), cursors, searchInput)
  BY <1>1 DEF handleNextPage, Turn
<1>3. url \in URLs /\ url.cursor \in Cursors /\ cursorHistory \in Seq(Cursors)
  BY DEF TypeOK, URLs
<1>4. c \in Cursors /\ Owned(Turn(url, c))
  <2>1. /\ Turn(url, c).cursor = c /\ Turn(url, c).sort = url.sort
        /\ Turn(url, c).prefix = url.prefix /\ Turn(url, c).search = url.search
    BY <1>3 DEF Turn, URLs
  <2> QED BY <1>3, <2>1, NextCursorOwned DEF Owned
<1>5. Owned(url) /\ StackOwned(url, cursorHistory)
  BY OwnedNow DEF PagingInv
<1>6. StackOwned(url, cursors)
  <2>1. Owned(Turn(url, url.cursor))
    BY <1>3, <1>5, TurnView
  <2>2. \A i \in DOMAIN cursors :
           cursors[i] = url.cursor \/ (i \in DOMAIN cursorHistory /\ cursors[i] = cursorHistory[i])
    BY <1>3, Pushed
  <2> QED BY <1>5, <2>1, <2>2 DEF StackOwned
<1>7. ~offPage => Chain(Turn(url, c), cursors)
  BY <1>3, TrailNow, ChainNext DEF PagingInv
<1> HIDE DEF c, cursors
<1> QED BY <1>2, <1>4, <1>6, <1>7, TurnSound

\* Previous goes to the last page remembered.
LEMMA PrevPageSound ==
    ASSUME PagingInv, TypeOK, TypeOK', handlePrevPage
    PROVE  PagingInv'
<1> DEFINE c == Last(cursorHistory)
           cursors == Front(cursorHistory)
           n == Len(cursorHistory)
<1>1. cursorHistory # <<>> /\ updateSearchParams(Turn(url, c), cursors, searchInput)
  BY DEF handlePrevPage, Turn
<1>2. url \in URLs /\ cursorHistory \in Seq(Cursors)
  BY DEF TypeOK
<1>3. /\ c \in Cursors /\ c = cursorHistory[n] /\ n \in DOMAIN cursorHistory
      /\ \A i \in DOMAIN cursors : i \in DOMAIN cursorHistory /\ cursors[i] = cursorHistory[i]
  BY <1>1, <1>2, Popped
<1>4. StackOwned(url, cursorHistory)
  BY OwnedNow DEF PagingInv
<1>5. ~offPage => Chain(Turn(url, c), cursors)
  BY <1>1, <1>2, TrailNow, ChainPrev DEF PagingInv
<1> HIDE DEF c, cursors, n
<1>6. Owned(Turn(url, c)) /\ StackOwned(url, cursors)
  BY <1>3, <1>4 DEF StackOwned
<1> QED BY <1>1, <1>3, <1>5, <1>6, TurnSound

\* A change of the URL around the page, to a cursor of its view, keeps the pages
\* turned when the view is the same.
LEMMA AroundSound ==
    ASSUME PagingInv, TypeOK, TypeOK', NEW u \in URLs, Around(u), Owned(u),
           \A i \in DOMAIN past' : Owned(past'[i]), \A i \in DOMAIN future' : Owned(future'[i])
    PROVE  PagingInv'
<1>1. /\ url' = u /\ cursorHistory' = IF View(u) = View(url) THEN cursorHistory ELSE <<>>
      /\ Shows(u, cursorHistory, searchInput) /\ Records(u, TRUE)
  BY DEF Around, Shows
<1>2. Settled'
  BY <1>1, ShowsSettled DEF PagingInv
<1>3. StackOwned(u, cursorHistory')
  <2>1. CASE View(u) = View(url)
    <3>1. /\ u.prefix = url.prefix /\ u.search = url.search /\ u.limit = url.limit
          /\ u.sort = url.sort
      BY <2>1 DEF View
    <3>2. url \in URLs
      BY DEF TypeOK
    <3>3. \A d : Turn(u, d) = Turn(url, d)
      BY <3>1, <3>2 DEF Turn, URLs
    <3> QED BY <1>1, <2>1, <3>3, OwnedNow DEF PagingInv, StackOwned
  <2>2. CASE View(u) # View(url)
    BY <1>1, <2>2 DEF StackOwned
  <2> QED BY <2>1, <2>2
<1>4. AllOwned'
  BY <1>1, <1>3, OwnedThen
<1>5. PageTrail'
  <2>1. ~offPage' => (~offPage /\ u = url) \/ (cursorHistory' = <<>> /\ u.cursor = NoCursor)
    BY <1>1 DEF Records, TypeOK
  <2>2. u.cursor = NoCursor => Chain(u, <<>>)
    BY DEF Chain
  <2>3. ~offPage => Chain(url, cursorHistory)
    BY TrailNow DEF PagingInv
  <2> QED BY <1>1, <2>1, <2>2, <2>3, TrailThen
<1> QED BY <1>2, <1>4, <1>5 DEF PagingInv

\* Back.
LEMMA BrowserBackSound ==
    ASSUME PagingInv, TypeOK, TypeOK', browserBack
    PROVE  PagingInv'
<1>1. /\ past # <<>> /\ past' = Front(past) /\ future' = Append(future, url)
      /\ Around(Last(past))
  BY DEF browserBack
<1>2. past \in Seq(URLs) /\ future \in Seq(URLs) /\ url \in URLs
  BY DEF TypeOK
<1>3. /\ Owned(url) /\ \A i \in DOMAIN past : Owned(past[i])
      /\ \A i \in DOMAIN future : Owned(future[i])
  BY OwnedNow DEF PagingInv
<1>4. /\ Last(past) \in URLs /\ Owned(Last(past))
      /\ \A i \in DOMAIN past' : Owned(past'[i])
  BY <1>1, <1>2, <1>3, Popped
<1>5. \A i \in DOMAIN future' : Owned(future'[i])
  BY <1>1, <1>2, <1>3, Pushed
<1> QED BY <1>1, <1>4, <1>5, AroundSound

\* Forward.
LEMMA BrowserForwardSound ==
    ASSUME PagingInv, TypeOK, TypeOK', browserForward
    PROVE  PagingInv'
<1>1. /\ future # <<>> /\ future' = Front(future) /\ past' = Append(past, url)
      /\ Around(Last(future))
  BY DEF browserForward
<1>2. past \in Seq(URLs) /\ future \in Seq(URLs) /\ url \in URLs
  BY DEF TypeOK
<1>3. /\ Owned(url) /\ \A i \in DOMAIN past : Owned(past[i])
      /\ \A i \in DOMAIN future : Owned(future[i])
  BY OwnedNow DEF PagingInv
<1>4. /\ Last(future) \in URLs /\ Owned(Last(future))
      /\ \A i \in DOMAIN future' : Owned(future'[i])
  BY <1>1, <1>2, <1>3, Popped
<1>5. \A i \in DOMAIN past' : Owned(past'[i])
  BY <1>1, <1>2, <1>3, Pushed
<1> QED BY <1>1, <1>4, <1>5, AroundSound

\* The bucket opened again.
LEMMA ReopenSound ==
    ASSUME PagingInv, TypeOK, TypeOK', reopenBucket
    PROVE  PagingInv'
<1>1. past' \in {past, Append(past, url)} /\ future' = <<>>
  BY DEF reopenBucket
<1>2. PICK u \in {url, BucketRoute} \cup {past[i] : i \in DOMAIN past} : Around(u)
  BY DEF reopenBucket
<1>3. past \in Seq(URLs) /\ url \in URLs
  BY DEF TypeOK
<1>4. Owned(url) /\ \A i \in DOMAIN past : Owned(past[i])
  BY OwnedNow DEF PagingInv
<1>5. u \in URLs /\ Owned(u)
  <2>1. BucketRoute \in URLs /\ Owned(BucketRoute)
    BY RouteURL DEF Owned
  <2> QED BY <1>3, <1>4, <2>1
<1>6. \A i \in DOMAIN past' : Owned(past'[i])
  BY <1>1, <1>3, <1>4, Pushed
<1>7. \A i \in DOMAIN future' : Owned(future'[i])
  BY <1>1
<1> QED BY <1>2, <1>5, <1>6, <1>7, AroundSound

\* The invariant of the pages, for every step.
LEMMA PagingStep ==
    ASSUME PagingInv, TypeOK, TypeOK', ~Keyboard, [Next]_vars
    PROVE  PagingInv'
<1>1. NoCursor \in Cursors /\ url \in URLs /\ searchInput \in Searches
  BY DEF Cursors, TypeOK
<1>2. ASSUME NEW p \in Folders, applyPrefixNavigation(p) PROVE PagingInv'
  <2> DEFINE u == [url EXCEPT !.prefix = p, !.search = NoSearch, !.cursor = NoCursor]
  <2>1. u \in URLs /\ u.cursor = NoCursor
    BY <1>1, EditedURLs DEF URLs
  <2>2. updateSearchParams(u, <<>>, NoSearch)
    BY <1>2 DEF applyPrefixNavigation
  <2> HIDE DEF u
  <2> QED BY <2>1, <2>2, ResetSound
<1>3. ASSUME NEW p \in Folders, handleNavigatePrefix(p) PROVE PagingInv'
  BY <1>2, <1>3 DEF handleNavigatePrefix
<1>4. CASE handlePrefixBack
  <2>1. prefixBackHistory # <<>> => Last(prefixBackHistory) \in Folders
    BY Popped DEF TypeOK
  <2>2. Parent(url.prefix) \in Folders
    BY <1>1, ParentFolder DEF URLs
  <2> QED BY <1>2, <1>4, <2>1, <2>2 DEF handlePrefixBack
<1>5. CASE handlePrefixForward
  <2>1. prefixForwardHistory # <<>> => Last(prefixForwardHistory) \in Folders
    BY Popped DEF TypeOK
  <2> QED BY <1>2, <1>5, <2>1 DEF handlePrefixForward
<1>6. ASSUME NEW s \in Searches, typeSearch(s) PROVE PagingInv'
  <2>1. UNCHANGED <<url, past, future, offPage, cursorHistory>> /\ UNCHANGED query
    BY <1>6 DEF typeSearch, history, strays
  <2>2. Settled'
    BY <2>1 DEF PagingInv, Settled, query
  <2> QED BY <2>1, <2>2, StaySound
<1>7. CASE handleSearchSubmit
  <2> DEFINE u == [url EXCEPT !.search = searchInput, !.cursor = NoCursor]
  <2>1. u \in URLs /\ u.cursor = NoCursor
    BY <1>1, EditedURLs DEF URLs
  <2>2. updateSearchParams(u, <<>>, searchInput)
    BY <1>7 DEF handleSearchSubmit
  <2> HIDE DEF u
  <2> QED BY <2>1, <2>2, ResetSound
<1>8. ASSUME NEW s \in Sorts, handleSortApply(s) PROVE PagingInv'
  <2> DEFINE u == [url EXCEPT !.sort = s, !.cursor = NoCursor]
  <2>1. u \in URLs /\ u.cursor = NoCursor
    BY <1>1, EditedURLs DEF URLs
  <2>2. updateSearchParams(u, <<>>, searchInput)
    BY <1>8 DEF handleSortApply
  <2> HIDE DEF u
  <2> QED BY <2>1, <2>2, ResetSound
<1>9. ASSUME NEW n \in Limits, selectLimit(n) PROVE PagingInv'
  <2> DEFINE u == [url EXCEPT !.limit = n, !.cursor = NoCursor]
  <2>1. u \in URLs /\ u.cursor = NoCursor /\ u.limit = n
    BY <1>1, EditedURLs DEF URLs
  <2>2. updateSearchParams(u, cursorHistory, searchInput) /\ n # url.limit
    BY <1>9 DEF selectLimit
  <2>3. View(u) # View(url)
    <3>1. View(u).limit = n /\ View(url).limit = url.limit
      BY <2>1 DEF View
    <3> QED BY <2>2, <3>1
  <2> HIDE DEF u
  <2> QED BY <2>1, <2>2, <2>3, ResetSound
<1>10. CASE handleNextPage
  BY <1>10, NextPageSound
<1>11. CASE handlePrevPage
  BY <1>11, PrevPageSound
<1>12. CASE handleRefreshEntries
  <2>1. UNCHANGED <<url, past, future, offPage, cursorHistory>>
    BY <1>12 DEF handleRefreshEntries, history, strays
  <2>2. Settled'
    BY <1>12 DEF handleRefreshEntries, PagingInv, Settled
  <2> QED BY <2>1, <2>2, StaySound
<1>13. CASE browserBack
  BY <1>13, BrowserBackSound
<1>14. CASE browserForward
  BY <1>14, BrowserForwardSound
<1>18. CASE reopenBucket
  BY <1>18, ReopenSound
<1>15. ASSUME NEW u \in inflight, Arrives(u) \/ Fails(u) PROVE PagingInv'
  <2>1. UNCHANGED <<url, past, future, offPage, cursorHistory>>
    BY <1>15 DEF Arrives, Fails, history, strays
  <2>2. Settled'
    <3>1. CASE Arrives(u)
      BY <3>1 DEF Arrives, PagingInv, Settled
    <3>2. CASE Fails(u)
      BY <3>2 DEF Fails, PagingInv, Settled, TypeOK
    <3> QED BY <1>15, <3>1, <3>2
  <2> QED BY <2>1, <2>2, StaySound
<1>16. ASSUME NEW u \in cached, Evicted(u) PROVE PagingInv'
  <2>1. UNCHANGED <<url, past, future, offPage, cursorHistory>>
    BY <1>16 DEF Evicted, history, strays
  <2>2. Settled'
    BY <1>16 DEF Evicted, PagingInv, Settled
  <2> QED BY <2>1, <2>2, StaySound
<1>17. CASE UNCHANGED vars
  <2>1. UNCHANGED <<url, past, future, offPage, cursorHistory>> /\ UNCHANGED query
    BY <1>17 DEF vars, history, strays
  <2>2. Settled'
    BY <2>1 DEF PagingInv, Settled, query
  <2> QED BY <2>1, <2>2, StaySound
<1> QED BY <1>3, <1>4, <1>5, <1>6, <1>7, <1>8, <1>9, <1>10, <1>11, <1>12, <1>13, <1>14,
           <1>15, <1>16, <1>17, <1>18 DEF Next

-----------------------------------------------------------------------------
(* Folders                                                                 *)

\* Leaving a folder for another one puts it on a stack.
LEMMA AlternatePush ==
    ASSUME NEW S, NEW s \in Seq(S), NEW p \in S, NEW q, Alternate(s, p), p # q
    PROVE  Alternate(Append(s, p), q)
<1> DEFINE n == Len(s)
           a == Append(s, p)
<1>1. /\ n \in Nat /\ Len(a) = n + 1 /\ a[n + 1] = p /\ \A i \in 1..n : a[i] = s[i]
      /\ s # <<>> => Last(s) = s[n]
      /\ a \in Seq(S) /\ Last(a) = a[n + 1]
      /\ s = <<>> <=> n = 0
  BY DEF Last
<1> HIDE DEF a
<1>2. ASSUME NEW i \in 1..n PROVE a[i] # a[i + 1]
  <2>1. CASE i = n
    BY <1>1, <2>1 DEF Alternate
  <2>2. CASE i # n
    <3>1. i \in 1..(n - 1) /\ i + 1 \in 1..n
      BY <1>1, <2>2
    <3> QED BY <1>1, <3>1 DEF Alternate
  <2> QED BY <2>1, <2>2
<1>3. \A i \in 1..(Len(a) - 1) : a[i] # a[i + 1]
  <2>1. 1..(Len(a) - 1) = 1..n
    BY <1>1
  <2> QED BY <1>2, <2>1
<1>4. Alternate(a, q)
  BY <1>1, <1>3 DEF Alternate
<1> QED BY <1>4 DEF a

\* Going to the folder on top of a stack takes it from there.
LEMMA AlternatePop ==
    ASSUME NEW S, NEW s \in Seq(S), NEW p, Alternate(s, p), s # <<>>
    PROVE  Alternate(Front(s), Last(s)) /\ p # Last(s)
<1> DEFINE n == Len(s) - 1
           f == Front(s)
<1>1. /\ n \in Nat /\ Len(f) = n /\ Last(s) = s[n + 1] /\ f \in Seq(S)
      /\ \A i \in 1..n : f[i] = s[i]
  BY Stacks
<1>3. \A i \in 1..n : s[i] # s[i + 1]
  BY DEF Alternate
<1> HIDE DEF n, f
<1>2. f # <<>> => n \in 1..n /\ Last(f) = f[n]
  <2>1. f # <<>> => Len(f) \in Nat \ {0} /\ Last(f) = f[Len(f)]
    BY <1>1, Stacks
  <2> QED BY <1>1, <2>1
<1>4. \A i \in 1..(n - 1) : i \in 1..n /\ i + 1 \in 1..n
  BY <1>1
<1>5. Alternate(f, Last(s))
  BY <1>1, <1>2, <1>3, <1>4 DEF Alternate
<1> QED BY <1>5 DEF Alternate, f

\* The folder after a navigation of the page.
LEMMA Opened ==
    ASSUME TypeOK, NEW p \in Folders, applyPrefixNavigation(p)
    PROVE  url'.prefix = p /\ offTrail' = offTrail /\ jumps' = jumps
BY DEF TypeOK, URLs, applyPrefixNavigation, updateSearchParams, Shows, Records

\* The folder stays.
Stays == url'.prefix = url.prefix /\ offTrail' = offTrail /\ jumps' = jumps

\* The folder changes around the stacks.
Jumps ==
    /\ url'.prefix # url.prefix /\ jumps' = 1 - jumps
    /\ ~offTrail' => ~offTrail /\ prefixBackHistory = <<>> /\ prefixForwardHistory = <<>>

\* What a change of the URL around the page is for the folders.
LEMMA AroundFolders ==
    ASSUME TypeOK, NEW u, Around(u)
    PROVE  UNCHANGED <<prefixBackHistory, prefixForwardHistory>> /\ (Stays \/ Jumps)
<1>1. /\ url' = u /\ Records(u, TRUE) /\ UNCHANGED <<prefixBackHistory, prefixForwardHistory>>
  BY DEF Around, Shows, prefixes
<1>2. CASE u.prefix = url.prefix
  BY <1>1, <1>2 DEF Records, Stays, TypeOK
<1>3. CASE u.prefix # url.prefix
  BY <1>1, <1>3 DEF Records, Jumps, TypeOK
<1> QED BY <1>1, <1>2, <1>3

\* Every other step leaves the stacks alone, and the folder too unless it changes
\* the URL around the page.
LEMMA OtherStep ==
    ASSUME TypeOK, TypeOK', [Next]_vars
    PROVE  \/ \E p \in Folders : handleNavigatePrefix(p)
           \/ handlePrefixBack
           \/ handlePrefixForward
           \/ UNCHANGED <<prefixBackHistory, prefixForwardHistory>> /\ (Stays \/ Jumps)
<1>1. url \in URLs
  BY DEF TypeOK
<1>2. ASSUME NEW s \in Searches, typeSearch(s)
      PROVE  UNCHANGED <<prefixBackHistory, prefixForwardHistory>> /\ Stays
  BY <1>2 DEF typeSearch, prefixes, history, strays, Stays
<1>3. ASSUME handleSearchSubmit
      PROVE  UNCHANGED <<prefixBackHistory, prefixForwardHistory>> /\ Stays
  BY <1>1, <1>3 DEF TypeOK, URLs, handleSearchSubmit, updateSearchParams, Shows, Records, prefixes, Stays
<1>4. ASSUME NEW s \in Sorts, handleSortApply(s)
      PROVE  UNCHANGED <<prefixBackHistory, prefixForwardHistory>> /\ Stays
  BY <1>1, <1>4 DEF TypeOK, URLs, handleSortApply, updateSearchParams, Shows, Records, prefixes, Stays
<1>5. ASSUME NEW n \in Limits, selectLimit(n)
      PROVE  UNCHANGED <<prefixBackHistory, prefixForwardHistory>> /\ Stays
  BY <1>1, <1>5 DEF TypeOK, URLs, selectLimit, updateSearchParams, Shows, Records, prefixes, Stays
<1>6. ASSUME handleNextPage
      PROVE  UNCHANGED <<prefixBackHistory, prefixForwardHistory>> /\ Stays
  BY <1>1, <1>6 DEF TypeOK, URLs, handleNextPage, updateSearchParams, Shows, Records, prefixes, Stays
<1>7. ASSUME handlePrevPage
      PROVE  UNCHANGED <<prefixBackHistory, prefixForwardHistory>> /\ Stays
  BY <1>1, <1>7 DEF TypeOK, URLs, handlePrevPage, updateSearchParams, Shows, Records, prefixes, Stays
<1>8. ASSUME handleRefreshEntries
      PROVE  UNCHANGED <<prefixBackHistory, prefixForwardHistory>> /\ Stays
  BY <1>8 DEF handleRefreshEntries, prefixes, history, strays, Stays
<1>9. ASSUME browserBack \/ browserForward \/ reopenBucket
      PROVE  UNCHANGED <<prefixBackHistory, prefixForwardHistory>> /\ (Stays \/ Jumps)
  BY <1>9, AroundFolders DEF browserBack, browserForward, reopenBucket
<1>10. ASSUME NEW u \in inflight, Arrives(u) \/ Fails(u)
      PROVE  UNCHANGED <<prefixBackHistory, prefixForwardHistory>> /\ Stays
  BY <1>10 DEF Arrives, Fails, prefixes, history, strays, Stays
<1>11. ASSUME NEW u \in cached, Evicted(u)
      PROVE  UNCHANGED <<prefixBackHistory, prefixForwardHistory>> /\ Stays
  BY <1>11 DEF Evicted, prefixes, history, strays, Stays
<1>12. ASSUME UNCHANGED vars
      PROVE  UNCHANGED <<prefixBackHistory, prefixForwardHistory>> /\ Stays
  BY <1>12 DEF vars, prefixes, history, strays, Stays
<1> QED BY <1>2, <1>3, <1>4, <1>5, <1>6, <1>7, <1>8, <1>9, <1>10, <1>11, <1>12 DEF Next

\* The invariant of the folders, for every step.
LEMMA FoldersStep ==
    ASSUME FoldersInv, TypeOK, TypeOK', [Next]_vars
    PROVE  FoldersInv'
<1> DEFINE back == prefixBackHistory
           forward == prefixForwardHistory
<1>1. /\ back \in Seq(Folders) /\ forward \in Seq(Folders) /\ url \in URLs
      /\ url.prefix \in Folders
  BY DEF TypeOK, URLs
<1>2. SUFFICES ASSUME ~offTrail'
               PROVE  /\ Alternate(prefixBackHistory', url'.prefix)
                      /\ Alternate(prefixForwardHistory', url'.prefix)
  BY DEF FoldersInv, Alternate
<1>3. \A p : Alternate(<<>>, p)
  BY DEF Alternate
<1>4. ASSUME NEW p \in Folders, handleNavigatePrefix(p)
      PROVE  /\ Alternate(prefixBackHistory', url'.prefix)
             /\ Alternate(prefixForwardHistory', url'.prefix)
  <2>1. url'.prefix = p /\ offTrail' = offTrail
    BY <1>4, Opened DEF handleNavigatePrefix
  <2>2. Alternate(back, url.prefix) /\ Alternate(forward, url.prefix)
    BY <1>2, <2>1 DEF FoldersInv
  <2>3. CASE p = url.prefix
    BY <1>4, <2>1, <2>2, <2>3 DEF handleNavigatePrefix, prefixes
  <2>4. CASE p # url.prefix
    <3>1. prefixBackHistory' = Append(back, url.prefix) /\ prefixForwardHistory' = <<>>
      BY <1>4, <2>4 DEF handleNavigatePrefix
    <3> QED BY <1>1, <1>3, <2>1, <2>2, <2>4, <3>1, AlternatePush
  <2> QED BY <2>3, <2>4
<1>5. ASSUME handlePrefixBack
      PROVE  /\ Alternate(prefixBackHistory', url'.prefix)
             /\ Alternate(prefixForwardHistory', url'.prefix)
  <2>1. CASE back # <<>>
    <3>1. /\ prefixBackHistory' = Front(back) /\ prefixForwardHistory' = Append(forward, url.prefix)
          /\ applyPrefixNavigation(Last(back))
      BY <1>5, <2>1 DEF handlePrefixBack
    <3>2. Last(back) \in Folders
      BY <1>1, <2>1, Popped
    <3>3. url'.prefix = Last(back) /\ offTrail' = offTrail
      BY <3>1, <3>2, Opened
    <3>4. Alternate(back, url.prefix) /\ Alternate(forward, url.prefix)
      BY <1>2, <3>3 DEF FoldersInv
    <3>5. Alternate(Front(back), Last(back)) /\ url.prefix # Last(back)
      BY <1>1, <2>1, <3>4, AlternatePop
    <3> QED BY <1>1, <3>1, <3>3, <3>4, <3>5, AlternatePush
  <2>2. CASE back = <<>>
    <3>1. /\ prefixBackHistory' = back /\ prefixForwardHistory' = Append(forward, url.prefix)
          /\ applyPrefixNavigation(Parent(url.prefix)) /\ url.prefix # <<>>
      BY <1>5, <2>2 DEF handlePrefixBack
    <3>2. Parent(url.prefix) \in Folders /\ Parent(url.prefix) # url.prefix
      BY <1>1, <3>1, ParentFolder
    <3>3. url'.prefix = Parent(url.prefix) /\ offTrail' = offTrail
      BY <3>1, <3>2, Opened
    <3>4. Alternate(forward, url.prefix)
      BY <1>2, <3>3 DEF FoldersInv
    <3> QED BY <1>1, <1>3, <2>2, <3>1, <3>2, <3>3, <3>4, AlternatePush
  <2> QED BY <2>1, <2>2
<1>6. ASSUME handlePrefixForward
      PROVE  /\ Alternate(prefixBackHistory', url'.prefix)
             /\ Alternate(prefixForwardHistory', url'.prefix)
  <2>1. /\ prefixForwardHistory' = Front(forward) /\ prefixBackHistory' = Append(back, url.prefix)
        /\ applyPrefixNavigation(Last(forward)) /\ forward # <<>>
    BY <1>6 DEF handlePrefixForward
  <2>2. Last(forward) \in Folders
    BY <1>1, <2>1, Popped
  <2>3. url'.prefix = Last(forward) /\ offTrail' = offTrail
    BY <2>1, <2>2, Opened
  <2>4. Alternate(back, url.prefix) /\ Alternate(forward, url.prefix)
    BY <1>2, <2>3 DEF FoldersInv
  <2>5. Alternate(Front(forward), Last(forward)) /\ url.prefix # Last(forward)
    BY <1>1, <2>1, <2>4, AlternatePop
  <2> QED BY <1>1, <2>1, <2>3, <2>4, <2>5, AlternatePush
<1>7. ASSUME UNCHANGED <<prefixBackHistory, prefixForwardHistory>>, Stays \/ Jumps
      PROVE  /\ Alternate(prefixBackHistory', url'.prefix)
             /\ Alternate(prefixForwardHistory', url'.prefix)
  <2>1. CASE Stays
    BY <1>2, <1>7, <2>1 DEF FoldersInv, Stays
  <2>2. CASE Jumps
    BY <1>2, <1>3, <1>7, <2>2 DEF Jumps
  <2> QED BY <1>7, <2>1, <2>2
<1> QED BY <1>4, <1>5, <1>6, <1>7, OtherStep

-----------------------------------------------------------------------------
(* The trail of folders                                                    *)

\* The trail that two stacks and the folder on the screen stand for.
TrailOf(back, p, forward) == Append(back, p) \o Reverse(forward)

\* Its folders: those of the first stack, the one on the screen, and those of the
\* second stack from the top.
Shape(t, back, n, p, forward, m) ==
    /\ t \in Seq(Folders) /\ Len(t) = n + 1 + m
    /\ \A i \in 1..n : t[i] = back[i]
    /\ t[n + 1] = p
    /\ \A i \in (n + 2)..(n + 1 + m) : t[i] = forward[m + n + 2 - i]

\* The trail has this shape.
LEMMA TrailShape ==
    ASSUME NEW back \in Seq(Folders), NEW p \in Folders, NEW forward \in Seq(Folders)
    PROVE  Shape(TrailOf(back, p, forward), back, Len(back), p, forward, Len(forward))
<1> DEFINE a == Append(back, p)
           r == Reverse(forward)
           n == Len(back)
           m == Len(forward)
<1>1. /\ n \in Nat /\ m \in Nat /\ a \in Seq(Folders) /\ Len(a) = n + 1 /\ a[n + 1] = p
      /\ \A i \in 1..n : a[i] = back[i]
  OBVIOUS
<1>2. r \in Seq(Folders) /\ Len(r) = m /\ \A j \in 1..m : r[j] = forward[(m - j) + 1]
  <2>1. r = [j \in 1..m |-> forward[(m - j) + 1]]
    BY DEF Reverse
  <2>2. ASSUME NEW j \in 1..m PROVE forward[(m - j) + 1] \in Folders
    <3>1. (m - j) + 1 \in 1..m
      BY <1>1
    <3> QED BY <3>1
  <2> HIDE DEF r, m
  <2>3. r \in [1..m -> Folders]
    BY <2>1, <2>2
  <2>4. r \in Seq(Folders) /\ Len(r) = m
    BY <1>1, <2>3
  <2> QED BY <2>1, <2>4
<1> DEFINE t == a \o r
<1> HIDE DEF a, r, n, m
<1>4. /\ t \in Seq(Folders) /\ Len(t) = Len(a) + Len(r)
      /\ \A i \in 1..(Len(a) + Len(r)) : t[i] = IF i <= Len(a) THEN a[i] ELSE r[i - Len(a)]
  BY <1>1, <1>2, ConcatProperties
<1> HIDE DEF t
<1>3. /\ t \in Seq(Folders) /\ Len(t) = n + 1 + m
      /\ \A i \in 1..(n + 1) : t[i] = a[i]
  BY <1>1, <1>2, <1>4
<1>5. \A i \in 1..n : i \in 1..(n + 1)
  BY <1>1
<1>6. n + 1 \in 1..(n + 1)
  BY <1>1
<1>7. ASSUME NEW i \in (n + 2)..(n + 1 + m) PROVE t[i] = forward[m + n + 2 - i]
  <2>1. /\ i \in 1..(Len(a) + Len(r)) /\ i > Len(a) /\ i - Len(a) \in 1..m
        /\ (m - (i - Len(a))) + 1 = m + n + 2 - i
    BY <1>1, <1>2
  <2> QED BY <1>2, <1>4, <2>1
<1>8. Shape(t, back, n, p, forward, m)
  BY <1>1, <1>3, <1>5, <1>6, <1>7 DEF Shape
<1> QED BY <1>8 DEF TrailOf, a, r, t, n, m

\* Putting on a stack and taking from it.
LEMMA PushPop ==
    ASSUME NEW S, NEW s \in Seq(S), NEW x \in S
    PROVE  /\ Append(s, x) \in Seq(S) /\ Append(s, x) # <<>>
           /\ Front(Append(s, x)) = s /\ Last(Append(s, x)) = x
           /\ s # <<>> => Append(Front(s), Last(s)) = s
BY DEF Front, Last

\* Two sequences with the same elements.
LEMMA SameSequence ==
    ASSUME NEW S, NEW s \in Seq(S), NEW t \in Seq(S), Len(s) = Len(t),
           \A i \in 1..Len(s) : s[i] = t[i]
    PROVE  s = t
OBVIOUS

\* Moving the position: the top of the first stack goes to the screen, what was
\* there goes to the second.
LEMMA TrailMoves ==
    ASSUME NEW back \in Seq(Folders), NEW p \in Folders, NEW forward \in Seq(Folders),
           back # <<>>
    PROVE  TrailOf(Front(back), Last(back), Append(forward, p)) = TrailOf(back, p, forward)
<1> DEFINE n == Len(back)
           m == Len(forward)
           f == Front(back)
           q == Last(back)
           a == Append(forward, p)
           s == TrailOf(f, q, a)
           t == TrailOf(back, p, forward)
<1>1. /\ n \in Nat \ {0} /\ m \in Nat /\ f \in Seq(Folders) /\ Len(f) = n - 1
      /\ q \in Folders /\ q = back[n] /\ \A i \in 1..(n - 1) : f[i] = back[i]
  BY Stacks
<1>2. /\ a \in Seq(Folders) /\ Len(a) = m + 1 /\ a[m + 1] = p
      /\ \A i \in 1..m : a[i] = forward[i]
  OBVIOUS
<1>3. Shape(t, back, n, p, forward, m)
  BY TrailShape
<1> HIDE DEF f, q, a, n, m, t
<1>4. Shape(s, f, n - 1, q, a, m + 1)
  BY <1>1, <1>2, TrailShape
<1> HIDE DEF s
<1>5. Len(s) = Len(t) /\ s \in Seq(Folders) /\ t \in Seq(Folders) /\ Len(s) = n + 1 + m
  BY <1>1, <1>3, <1>4 DEF Shape
<1>6. ASSUME NEW i \in 1..(n + 1 + m) PROVE s[i] = t[i]
  <2>1. CASE i \in 1..(n - 1)
    <3>1. i \in 1..n
      BY <1>1, <2>1
    <3> QED BY <1>1, <1>3, <1>4, <2>1, <3>1 DEF Shape
  <2>2. CASE i = n
    <3>1. i = (n - 1) + 1 /\ i \in 1..n
      BY <1>1, <2>2
    <3>2. s[i] = q
      BY <1>4, <3>1 DEF Shape
    <3> QED BY <1>1, <1>3, <2>2, <3>1, <3>2 DEF Shape
  <2>3. CASE i = n + 1
    <3>1. /\ i \in ((n - 1) + 2)..((n - 1) + 1 + (m + 1))
          /\ (m + 1) + (n - 1) + 2 - i = m + 1
      BY <1>1, <2>3
    <3>2. s[i] = a[m + 1]
      BY <1>4, <3>1 DEF Shape
    <3> QED BY <1>2, <1>3, <2>3, <3>2 DEF Shape
  <2>4. CASE i \in (n + 2)..(n + 1 + m)
    <3>1. /\ i \in ((n - 1) + 2)..((n - 1) + 1 + (m + 1))
          /\ (m + 1) + (n - 1) + 2 - i = m + n + 2 - i /\ m + n + 2 - i \in 1..m
      BY <1>1, <2>4
    <3>2. s[i] = a[m + n + 2 - i]
      BY <1>4, <3>1 DEF Shape
    <3>3. t[i] = forward[m + n + 2 - i]
      BY <1>3, <2>4 DEF Shape
    <3> QED BY <1>2, <3>1, <3>2, <3>3
  <2>5. i \in 1..(n - 1) \/ i = n \/ i = n + 1 \/ i \in (n + 2)..(n + 1 + m)
    BY <1>1
  <2> QED BY <2>1, <2>2, <2>3, <2>4, <2>5
<1>7. s = t
  BY <1>5, <1>6, SameSequence
<1> QED BY <1>7 DEF s, t, f, q, a

\* Opening a folder forgets what is beyond the position.
LEMMA TrailVisit ==
    ASSUME NEW back \in Seq(Folders), NEW p \in Folders, NEW forward \in Seq(Folders),
           NEW q \in Folders
    PROVE  TrailOf(Append(back, p), q, <<>>) =
               Append(SubSeq(TrailOf(back, p, forward), 1, Len(back) + 1), q)
<1> DEFINE n == Len(back)
           m == Len(forward)
           t == TrailOf(back, p, forward)
           a == Append(back, p)
           s == TrailOf(a, q, <<>>)
           c == SubSeq(t, 1, n + 1)
           o == Append(c, q)
<1>1. /\ n \in Nat /\ m \in Nat /\ a \in Seq(Folders) /\ Len(a) = n + 1 /\ a[n + 1] = p
      /\ \A i \in 1..n : a[i] = back[i]
  OBVIOUS
<1>2. Shape(t, back, n, p, forward, m)
  BY TrailShape
<1> HIDE DEF t, n, m, a
<1>3. Shape(s, a, n + 1, q, <<>>, 0)
  <2>1. Len(<<>>) = 0 /\ <<>> \in Seq(Folders)
    OBVIOUS
  <2>2. Shape(s, a, Len(a), q, <<>>, Len(<<>>))
    BY <1>1, <2>1, TrailShape
  <2> QED BY <1>1, <2>1, <2>2
<1>4. c \in Seq(Folders) /\ Len(c) = n + 1 /\ \A i \in 1..(n + 1) : c[i] = t[i]
  <2>1. t \in Seq(Folders) /\ Len(t) \in Nat /\ n + 1 <= Len(t)
    BY <1>1, <1>2 DEF Shape
  <2>2. \A i \in 1..(n + 1) : i \in 1..Len(t)
    BY <1>1, <2>1
  <2>3. c = [i \in 1..(n + 1) |-> t[i]]
    BY <1>1, <2>1, <2>2
  <2> HIDE DEF c
  <2>4. c \in [1..(n + 1) -> Folders]
    BY <2>1, <2>2, <2>3
  <2> QED BY <1>1, <2>3, <2>4
<1> HIDE DEF s, c
<1>5. /\ o \in Seq(Folders) /\ Len(o) = n + 2 /\ o[n + 2] = q
      /\ \A i \in 1..(n + 1) : o[i] = c[i]
  BY <1>1, <1>4
<1> HIDE DEF o
<1>6. s \in Seq(Folders) /\ Len(s) = n + 2 /\ s[n + 2] = q /\ \A i \in 1..(n + 1) : s[i] = a[i]
  <2>1. (n + 1) + 1 + 0 = n + 2 /\ (n + 1) + 1 = n + 2
    BY <1>1
  <2> QED BY <1>3, <2>1 DEF Shape
<1>7. ASSUME NEW i \in 1..(n + 2) PROVE s[i] = o[i]
  <2>1. CASE i \in 1..n
    <3>1. i \in 1..(n + 1)
      BY <1>1, <2>1
    <3>2. t[i] = back[i]
      BY <1>2, <2>1 DEF Shape
    <3> QED BY <1>1, <1>4, <1>5, <1>6, <2>1, <3>1, <3>2
  <2>2. CASE i = n + 1
    <3>1. i \in 1..(n + 1)
      BY <1>1, <2>2
    <3>2. t[i] = p
      BY <1>2, <2>2 DEF Shape
    <3> QED BY <1>1, <1>4, <1>5, <1>6, <2>2, <3>1, <3>2
  <2>3. CASE i = n + 2
    BY <1>5, <1>6, <2>3
  <2>4. i \in 1..n \/ i = n + 1 \/ i = n + 2
    BY <1>1
  <2> QED BY <2>1, <2>2, <2>3, <2>4
<1>8. s = o
  BY <1>5, <1>6, <1>7, SameSequence
<1> QED BY <1>8 DEF s, t, a, c, n, o

\* The parent becomes the start of the trail.
LEMMA TrailUp ==
    ASSUME NEW p \in Folders, NEW forward \in Seq(Folders), NEW q \in Folders
    PROVE  TrailOf(<<>>, q, Append(forward, p)) = <<q>> \o TrailOf(<<>>, p, forward)
<1> DEFINE m == Len(forward)
           a == Append(forward, p)
           s == TrailOf(<<>>, q, a)
           t == TrailOf(<<>>, p, forward)
           o == <<q>> \o t
<1>1. /\ m \in Nat /\ a \in Seq(Folders) /\ Len(a) = m + 1 /\ a[m + 1] = p
      /\ \A i \in 1..m : a[i] = forward[i]
  OBVIOUS
<1>2. Len(<<>>) = 0 /\ <<>> \in Seq(Folders)
  OBVIOUS
<1>3. /\ t \in Seq(Folders) /\ Len(t) = m + 1 /\ t[1] = p
      /\ \A i \in 2..(m + 1) : t[i] = forward[m + 2 - i]
  <2>1. Shape(t, <<>>, Len(<<>>), p, forward, m)
    BY <1>2, TrailShape
  <2> HIDE DEF t, m
  <2>2. /\ Len(<<>>) + 1 + m = m + 1 /\ Len(<<>>) + 1 = 1 /\ Len(<<>>) + 2 = 2
        /\ \A i \in 2..(m + 1) : m + Len(<<>>) + 2 - i = m + 2 - i
    BY <1>1, <1>2
  <2>3. /\ t \in Seq(Folders) /\ Len(t) = m + 1 /\ t[1] = p
        /\ \A i \in 2..(m + 1) : t[i] = forward[m + Len(<<>>) + 2 - i]
    BY <2>1, <2>2 DEF Shape
  <2> QED BY <2>2, <2>3
<1> HIDE DEF a, m, t
<1>4. /\ s \in Seq(Folders) /\ Len(s) = m + 2 /\ s[1] = q
      /\ \A i \in 2..(m + 2) : s[i] = a[m + 3 - i]
  <2>1. Shape(s, <<>>, Len(<<>>), q, a, Len(a))
    BY <1>1, <1>2, TrailShape
  <2> HIDE DEF s
  <2>2. /\ Len(<<>>) + 1 + Len(a) = m + 2 /\ Len(<<>>) + 1 = 1 /\ Len(<<>>) + 2 = 2
        /\ \A i \in 2..(m + 2) : Len(a) + Len(<<>>) + 2 - i = m + 3 - i
    BY <1>1, <1>2
  <2>3. /\ s \in Seq(Folders) /\ Len(s) = m + 2 /\ s[1] = q
        /\ \A i \in 2..(m + 2) : s[i] = a[Len(a) + Len(<<>>) + 2 - i]
    BY <2>1, <2>2 DEF Shape
  <2> QED BY <2>2, <2>3
<1>5. /\ o \in Seq(Folders) /\ Len(o) = m + 2 /\ o[1] = q
      /\ \A i \in 2..(m + 2) : o[i] = t[i - 1]
  BY <1>1, <1>3
<1> HIDE DEF s, o
<1>7. ASSUME NEW i \in 1..(m + 2) PROVE s[i] = o[i]
  <2>1. CASE i = 1
    BY <1>4, <1>5, <2>1
  <2>2. CASE i = 2
    <3>1. i \in 2..(m + 2) /\ m + 3 - i = m + 1 /\ i - 1 = 1
      BY <1>1, <2>2
    <3> QED BY <1>1, <1>3, <1>4, <1>5, <3>1
  <2>3. CASE i \in 3..(m + 2)
    <3>1. /\ i \in 2..(m + 2) /\ m + 3 - i \in 1..m /\ i - 1 \in 2..(m + 1)
          /\ m + 2 - (i - 1) = m + 3 - i
      BY <1>1, <2>3
    <3>2. s[i] = forward[m + 3 - i]
      BY <1>1, <1>4, <3>1
    <3>3. o[i] = forward[m + 2 - (i - 1)]
      BY <1>3, <1>5, <3>1
    <3> QED BY <3>1, <3>2, <3>3
  <2>4. i = 1 \/ i = 2 \/ i \in 3..(m + 2)
    BY <1>1
  <2> QED BY <2>1, <2>2, <2>3, <2>4
<1>8. s = o
  BY <1>4, <1>5, <1>7, SameSequence
<1> QED BY <1>8 DEF s, o, t, a

\* A change around the page replaces the folder at the position.
LEMMA TrailJump ==
    ASSUME NEW back \in Seq(Folders), NEW p \in Folders, NEW forward \in Seq(Folders),
           NEW q \in Folders
    PROVE  TrailOf(back, q, forward) = [TrailOf(back, p, forward) EXCEPT ![Len(back) + 1] = q]
<1> DEFINE n == Len(back)
           m == Len(forward)
           t == TrailOf(back, p, forward)
           s == TrailOf(back, q, forward)
           e == [t EXCEPT ![n + 1] = q]
<1>1. n \in Nat /\ m \in Nat
  OBVIOUS
<1>2. Shape(t, back, n, p, forward, m) /\ Shape(s, back, n, q, forward, m)
  BY TrailShape
<1> HIDE DEF t, s, n, m
<1>3. t \in Seq(Folders) /\ s \in Seq(Folders) /\ Len(t) = n + 1 + m /\ Len(s) = n + 1 + m
  BY <1>2 DEF Shape
<1>4. /\ e \in Seq(Folders) /\ Len(e) = n + 1 + m /\ e[n + 1] = q
      /\ \A i \in 1..(n + 1 + m) : i # n + 1 => e[i] = t[i]
  <2>1. t \in [1..(n + 1 + m) -> Folders] /\ n + 1 \in 1..(n + 1 + m)
    BY <1>1, <1>3
  <2>2. e \in [1..(n + 1 + m) -> Folders]
    BY <2>1
  <2> QED BY <1>1, <2>1, <2>2
<1> HIDE DEF e
<1>5. ASSUME NEW i \in 1..(n + 1 + m) PROVE s[i] = e[i]
  <2>1. CASE i = n + 1
    BY <1>2, <1>4, <2>1 DEF Shape
  <2>2. CASE i \in 1..n \/ i \in (n + 2)..(n + 1 + m)
    <3>1. s[i] = t[i]
      BY <1>2, <2>2 DEF Shape
    <3>2. i # n + 1
      BY <1>1, <2>2
    <3> QED BY <1>4, <3>1, <3>2
  <2>3. i = n + 1 \/ i \in 1..n \/ i \in (n + 2)..(n + 1 + m)
    BY <1>1
  <2> QED BY <2>1, <2>2, <2>3
<1>6. s = e
  BY <1>3, <1>4, <1>5, SameSequence
<1> QED BY <1>6 DEF s, e, t, n

\* Every step of the page is a step of the trail, or none.
LEMMA TrailRefines ==
    ASSUME TypeOK, TypeOK', [Next]_vars
    PROVE  [Trail!TrailNext]_(Trail!trailVars)
<1> DEFINE back == prefixBackHistory
           forward == prefixForwardHistory
           p == url.prefix
           t == TrailOf(back, p, forward)
           u == TrailOf(prefixBackHistory', url'.prefix, prefixForwardHistory')
           k == Len(back) + 1
           l == Len(prefixBackHistory') + 1
           Goal == \/ /\ jumps' = jumps
                      /\ \/ (\E q \in Folders \ {t[k]} : u = Append(SubSeq(t, 1, k), q)) /\ l = k + 1
                         \/ k > 1 /\ l = k - 1 /\ u = t
                         \/ k < Len(t) /\ l = k + 1 /\ u = t
                         \/ k = 1 /\ t[1] # <<>> /\ u = <<Parent(t[1])>> \o t /\ l = k
                   \/ /\ jumps' = 1 - jumps
                      /\ (\E q \in Folders \ {t[k]} : u = [t EXCEPT ![k] = q]) /\ l = k
                   \/ u = t /\ l = k /\ jumps' = jumps
<1>1. SUFFICES Goal
  <2>1. (\E q \in Folders \ {t[k]} : u = Append(SubSeq(t, 1, k), q)) /\ l = k + 1 => Trail!Visit
    BY DEF TrailOf, Trail!Visit
  <2>2. k > 1 /\ l = k - 1 /\ u = t => Trail!GoBack
    BY DEF TrailOf, Trail!GoBack
  <2>3. k < Len(t) /\ l = k + 1 /\ u = t => Trail!GoForward
    BY DEF TrailOf, Trail!GoForward
  <2>4. k = 1 /\ t[1] # <<>> /\ u = <<Parent(t[1])>> \o t /\ l = k => Trail!GoUp
    <3>1. Trail!Parent(t[1]) = Parent(t[1])
      BY DEF Trail!Parent, Trail!Front, Parent, Front
    <3> QED BY <3>1 DEF TrailOf, Trail!GoUp
  <2>5. /\ jumps' = 1 - jumps
        /\ (\E q \in Folders \ {t[k]} : u = [t EXCEPT ![k] = q]) /\ l = k
        => Trail!Jump
    BY DEF TrailOf, Trail!Jump
  <2>6. u = t /\ l = k /\ jumps' = jumps => UNCHANGED Trail!trailVars
    BY DEF TrailOf, Trail!trailVars
  <2> HIDE DEF t, u, k, l
  <2> QED BY <2>1, <2>2, <2>3, <2>4, <2>5, <2>6 DEF Trail!TrailNext
<1>2. /\ back \in Seq(Folders) /\ forward \in Seq(Folders) /\ url \in URLs /\ p \in Folders
      /\ url' \in URLs /\ url'.prefix \in Folders
      /\ Len(back) \in Nat /\ Len(forward) \in Nat
  BY DEF TypeOK, URLs
<1>3. t \in Seq(Folders) /\ Len(t) = Len(back) + 1 + Len(forward) /\ t[k] = p
  BY <1>2, TrailShape DEF Shape
<1>4. ASSUME NEW q \in Folders, handleNavigatePrefix(q) PROVE Goal
  <2>1. url'.prefix = q /\ jumps' = jumps
    BY <1>4, Opened DEF handleNavigatePrefix
  <2>2. CASE q = p
    <3>1. UNCHANGED <<prefixBackHistory, prefixForwardHistory>>
      BY <1>4, <2>2 DEF handleNavigatePrefix, prefixes
    <3>2. u = t /\ l = k
      BY <2>1, <2>2, <3>1
    <3> QED BY <2>1, <3>2
  <2>3. CASE q # p
    <3>1. prefixBackHistory' = Append(back, p) /\ prefixForwardHistory' = <<>>
      BY <1>4, <2>3 DEF handleNavigatePrefix
    <3>2. u = Append(SubSeq(t, 1, k), q)
      BY <1>2, <2>1, <3>1, TrailVisit
    <3>3. l = k + 1
      BY <1>2, <3>1
    <3>4. q \in Folders \ {t[k]}
      BY <1>3, <2>3
    <3> HIDE DEF t, u, k, l
    <3> QED BY <2>1, <3>2, <3>3, <3>4
  <2> QED BY <2>2, <2>3
<1>5. ASSUME handlePrefixBack PROVE Goal
  <2>1. CASE back # <<>>
    <3>1. /\ prefixBackHistory' = Front(back) /\ prefixForwardHistory' = Append(forward, p)
          /\ applyPrefixNavigation(Last(back))
      BY <1>5, <2>1 DEF handlePrefixBack
    <3>2. /\ Last(back) \in Folders /\ Len(Front(back)) = Len(back) - 1
          /\ Len(back) \in Nat \ {0}
      BY <1>2, <2>1, Stacks
    <3>3. url'.prefix = Last(back) /\ jumps' = jumps
      BY <3>1, <3>2, Opened
    <3>4. u = t
      BY <1>2, <2>1, <3>1, <3>3, TrailMoves
    <3>5. k > 1 /\ l = k - 1
      BY <3>1, <3>2
    <3> HIDE DEF t, u, k, l
    <3> QED BY <3>3, <3>4, <3>5
  <2>2. CASE back = <<>>
    <3>1. /\ prefixBackHistory' = back /\ prefixForwardHistory' = Append(forward, p)
          /\ applyPrefixNavigation(Parent(p)) /\ p # <<>>
      BY <1>5, <2>2 DEF handlePrefixBack
    <3>2. Parent(p) \in Folders
      BY <1>2, ParentFolder
    <3>3. url'.prefix = Parent(p) /\ jumps' = jumps
      BY <3>1, <3>2, Opened
    <3>4. k = 1 /\ l = k
      BY <2>2, <3>1
    <3>5. t[1] = p
      BY <1>3, <3>4
    <3>6. u = <<Parent(p)>> \o t
      BY <1>2, <2>2, <3>1, <3>2, <3>3, TrailUp
    <3> HIDE DEF t, u, k, l
    <3> QED BY <3>1, <3>3, <3>4, <3>5, <3>6
  <2> QED BY <2>1, <2>2
<1>6. ASSUME handlePrefixForward PROVE Goal
  <2>1. /\ prefixForwardHistory' = Front(forward) /\ prefixBackHistory' = Append(back, p)
        /\ applyPrefixNavigation(Last(forward)) /\ forward # <<>>
    BY <1>6 DEF handlePrefixForward
  <2>2. /\ Last(forward) \in Folders /\ Front(forward) \in Seq(Folders)
        /\ Len(forward) \in Nat \ {0}
    BY <1>2, <2>1, Stacks
  <2>3. url'.prefix = Last(forward) /\ jumps' = jumps
    BY <2>1, <2>2, Opened
  <2>4. /\ Append(back, p) \in Seq(Folders) /\ Append(back, p) # <<>>
        /\ Front(Append(back, p)) = back /\ Last(Append(back, p)) = p
        /\ Append(Front(forward), Last(forward)) = forward
    BY <1>2, <2>1, PushPop
  <2>5. TrailOf(Front(Append(back, p)), Last(Append(back, p)), Append(Front(forward), Last(forward)))
        = TrailOf(Append(back, p), Last(forward), Front(forward))
    BY <2>2, <2>4, TrailMoves
  <2>6. u = t
    BY <2>1, <2>3, <2>4, <2>5
  <2>7. k < Len(t) /\ l = k + 1
    BY <1>2, <1>3, <2>1, <2>2
  <2> HIDE DEF t, u, k, l
  <2> QED BY <2>3, <2>6, <2>7
<1>7. ASSUME UNCHANGED <<prefixBackHistory, prefixForwardHistory>>, Stays \/ Jumps
      PROVE  Goal
  <2>1. l = k /\ u = TrailOf(back, url'.prefix, forward)
    BY <1>7
  <2>2. CASE Stays
    BY <1>7, <2>1, <2>2 DEF Stays
  <2>3. CASE Jumps
    <3>1. u = [t EXCEPT ![k] = url'.prefix]
      BY <1>2, <2>1, TrailJump
    <3>2. url'.prefix \in Folders \ {t[k]} /\ jumps' = 1 - jumps
      BY <1>2, <1>3, <2>3 DEF Jumps
    <3> HIDE DEF t, u, k, l
    <3> QED BY <2>1, <3>1, <3>2
  <2> QED BY <1>7, <2>2, <2>3
<1> QED BY <1>4, <1>5, <1>6, <1>7, OtherStep

-----------------------------------------------------------------------------
(* Theorems                                                                *)

\* Any page of any listing, asked for and not yet shown.
LEMMA InitSound ==
    ASSUME Init
    PROVE  TypeOK /\ PagingInv /\ FoldersInv /\ Trail!TrailInit
<1>1. /\ url \in URLs /\ url.cursor \in Issued(url)
      /\ past = <<>> /\ future = <<>>
      /\ searchInput = url.search /\ cursorHistory = <<>>
      /\ prefixBackHistory = <<>> /\ prefixForwardHistory = <<>>
      /\ latest = NoURL /\ failed = FALSE /\ cached = {} /\ inflight = {url}
      /\ offPage = (url.cursor # NoCursor) /\ offTrail = FALSE /\ jumps = 0
  BY DEF Init
<1>2. TypeOK
  <2>1. Len(past) + Len(future) <= Depth
    BY <1>1, ConstantTypes
  <2>2. url.search \in Searches
    BY <1>1 DEF URLs
  <2>3. offPage \in BOOLEAN
    BY <1>1
  <2> QED BY <1>1, <2>1, <2>2, <2>3, EmptyStack DEF TypeOK
<1>3. PagingInv
  <2>1. Settled
    BY <1>1 DEF Settled
  <2>2. Owned(url)
    BY <1>1 DEF Owned, Issued
  <2>3. AllOwned
    BY <1>1, <2>2 DEF AllOwned
  <2>4. ~offPage => Chain(url, cursorHistory)
    <3>1. ~offPage => url.cursor = NoCursor
      BY <1>1
    <3>2. url.cursor = NoCursor => Chain(url, <<>>)
      BY DEF Chain
    <3> QED BY <1>1, <3>1, <3>2
  <2> QED BY <1>2, <2>1, <2>3, <2>4, TrailNow DEF PagingInv
<1>4. FoldersInv
  BY <1>1 DEF FoldersInv, Alternate
<1>5. Trail!TrailInit
  <2>2. url.prefix \in Folders
    BY <1>1 DEF URLs
  <2>3. Append(prefixBackHistory, url.prefix) \o Reverse(prefixForwardHistory) = <<url.prefix>>
    BY <1>1, <2>2 DEF Reverse
  <2>4. Len(prefixBackHistory) + 1 = 1
    BY <1>1
  <2> QED BY <1>1, <2>2, <2>3, <2>4 DEF Trail!TrailInit
<1> QED BY <1>2, <1>3, <1>4, <1>5

\* Every variable keeps its type and the session history stays within its bound,
\* with and without the overlay.
THEOREM NavTypes == Spec => []TypeOK
<1>1. Init => TypeOK
  BY InitSound
<1> QED BY <1>1, TypeStep, PTL DEF Spec

\* The invariant of the pages: what can be pressed acts on the listing of the URL.
THEOREM NavPaging ==
    ASSUME ~Keyboard
    PROVE  Spec => []PagingInv
<1>1. Init => PagingInv
  BY InitSound
<1>2. PagingInv /\ TypeOK /\ TypeOK' /\ [Next]_vars => PagingInv'
  BY PagingStep
<1> QED BY <1>1, <1>2, NavTypes, PTL DEF Spec

\* A cursor is only ever sent with the folder, search and order it was issued for,
\* as long as the overlay keeps the buttons out of reach while a listing is
\* fetched, in whatever way pages, folders and the bucket are reached
\* (BucketObjectsPage, handleNextPage, the browser's buttons, AppRoutes).
THEOREM NavOwnCursor ==
    ASSUME ~Keyboard
    PROVE  Spec => []OwnCursor
<1>1. PagingInv => OwnCursor
  BY DEF PagingInv, AllOwned, Owned, OwnCursor
<1> QED BY <1>1, NavPaging, PTL

\* The cursors turned lead page by page from the first page of the view to the
\* page asked for, so that Previous goes back through them and the number shown is
\* that of the page.  The browser's buttons, a bucket opened again and an address
\* with a cursor may break that; the next change of folder, search, order or page
\* size, or the return to the first page, puts it right (BucketObjectsPage,
\* handleNextPage, handlePrevPage and the effect that empties cursorHistory).
THEOREM NavPageTrail ==
    ASSUME ~Keyboard
    PROVE  Spec => []PageTrail
<1>1. PagingInv => PageTrail
  BY DEF PagingInv
<1> QED BY <1>1, NavPaging, PTL

\* The variables keep their types, and the page's Back and Forward lead to another
\* folder as long as the folder has not been changed around stacks that hold some,
\* by the browser's buttons or by opening the bucket again (handleNavigatePrefix,
\* handlePrefixBack, handlePrefixForward, BucketObjectsKeepAlive).
THEOREM NavAlwaysSound == Spec => []NavSound
<1>1. Init => FoldersInv
  BY InitSound
<1>2. FoldersInv /\ TypeOK /\ TypeOK' /\ [Next]_vars => FoldersInv'
  BY FoldersStep
<1>3. FoldersInv => NoDeadButton
  BY DEF FoldersInv, Alternate, NoDeadButton
<1>4. TypeOK /\ NoDeadButton => NavSound
  BY DEF NavSound
<1> QED BY <1>1, <1>2, <1>3, <1>4, NavTypes, PTL DEF Spec

\* The two stacks of folders and the prefix of the URL implement the trail with a
\* position that PrefixTrail describes: the page's own steps move in it or extend
\* it, also after the browser's buttons or a bucket opened again have replaced the
\* folder at the position.
THEOREM NavTrail == Spec => TrailSpec
<1>1. Init => Trail!TrailInit
  BY InitSound
<1>2. TypeOK /\ TypeOK' /\ [Next]_vars => [Trail!TrailNext]_(Trail!trailVars)
  BY TrailRefines
<1> QED BY <1>1, <1>2, NavTypes, PTL DEF Spec, TrailSpec, Trail!TrailSpec
=============================================================================
