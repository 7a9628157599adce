--------------------------- MODULE MCExplorerNav ---------------------------
(***************************************************************************)
(* Bounded instances of ExplorerNav on the same variables: a root with two *)
(* nested folders; a search keeps the even entries.  A behaviour plays one *)
(* of three scenes, each with a part of the constants of the configuration *)
(* that the properties are about:                                          *)
(*   "folders"  the page's own folder history in the whole tree, and the    *)
(*              bucket opened again;                                       *)
(*   "paging"   pages with every change of order, search and page size;    *)
(*   "around"   folders, pages and orders with the browser's history and   *)
(*              the bucket opened again.                                   *)
(***************************************************************************)
EXTENDS ExplorerNav

VARIABLE scene

MCFolders == {<<>>, <<"a">>, <<"a", "b">>}
FlatFolders == {<<>>, <<"a">>}

MCEntriesOf(p, s) ==
    LET all == CASE p = <<>> -> 1..3
                 [] p = <<"a">> -> 2..3
                 [] OTHER -> {4}
    IN IF s = "" THEN all ELSE {e \in all : e % 2 = 0}

\* No folder has a second page.
OneEntry(p, s) == {IF Len(p) = 2 THEN 4 ELSE 2}

Tree == INSTANCE ExplorerNav WITH
    EntriesOf <- OneEntry, Searches <- {""}, Limits <- {2}, Sorts <- {"desc"},
    BrowserHistory <- FALSE, Requests <- 1, Depth <- 3

Paging == INSTANCE ExplorerNav WITH
    Folders <- FlatFolders, BrowserHistory <- FALSE, Reopens <- FALSE, Depth <- 3

Outside == INSTANCE ExplorerNav WITH
    Folders <- FlatFolders, Searches <- {""}, Limits <- {2}, Sorts <- {"desc"},
    Requests <- 1, Depth <- 2

ASSUME ScenesAssumption ==
    Tree!NavAssumption /\ Paging!NavAssumption /\ Outside!NavAssumption

ScenesInit ==
    \/ scene = "folders" /\ Tree!Init
    \/ /\ scene = "paging" /\ Paging!Init
       /\ url.search = NoSearch /\ url.sort = DefaultSort
    \/ scene = "around" /\ Outside!Init

ScenesNext ==
    \/ scene = "folders" /\ Tree!Next /\ UNCHANGED scene
    \/ scene = "paging" /\ Paging!Next /\ UNCHANGED scene
    \/ scene = "around" /\ Outside!Next /\ UNCHANGED scene

ScenesSpec == ScenesInit /\ [][ScenesNext]_<<vars, scene>>
=============================================================================
