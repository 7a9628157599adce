---------------------------- MODULE ExplorerPages ----------------------------
(***************************************************************************)
(* Listing a folder page by page on the server, while its entries are      *)
(* created, replaced and deleted between the requests.                     *)
(*                                                                         *)
(* An entry is a directory or a file with a size; created_at is compared   *)
(* as sizes are.  Names are numbers in the order of their lower-case form. *)
(* The search filter is left out.                                          *)
(***************************************************************************)
EXTENDS Naturals, Sequences, FiniteSets

CONSTANTS
    EntryNames,   \* positive numbers
    Directories,  \* the names that are directories
    MaxEntrySize, \* sizes of files are 0..MaxEntrySize
    Limit,        \* entries per page
    MaxChanges    \* bound on the changes during a walk

ASSUME PagesAssumption ==
    /\ EntryNames \subseteq Nat \ {0} /\ IsFiniteSet(EntryNames)
    /\ Directories \subseteq EntryNames
    /\ MaxEntrySize \in Nat /\ MaxChanges \in Nat
    /\ Limit \in Nat \ {0}

Entry(n, s) ==
    [type |-> IF n \in Directories THEN "directory" ELSE "file", name |-> n, size |-> s]
AllEntries ==
    {Entry(n, 0) : n \in Directories}
    \cup {Entry(n, s) : n \in EntryNames \ Directories, s \in 0..MaxEntrySize}
NoEntry == [type |-> "none", name |-> 0, size |-> 0]

VARIABLES
    entries,       \* the folder
    sortBy, sortOrder,
    cursor,        \* next_cursor of the last page
    listed,        \* the entries of the pages so far
    steady,        \* the entries that were there all the time
    walk,          \* "idle", "pages", "end"
    changes

pagesVars == <<entries, sortBy, sortOrder, cursor, listed, steady, walk, changes>>

-----------------------------------------------------------------------------
\* applyExplorerSortOrder turns the comparison round.
Less(m, n, order) == IF order = "desc" THEN n < m ELSE m < n

\* compareExplorerEntries: directories first, by name; files by the field, and
\* by name if it is equal.
Precedes_Mutant(a, b, by, order) ==
    CASE a.type # b.type -> a.type = "directory"
      [] a.type = "file" /\ b.type = "file" /\ by = "size" -> Less(a.size, b.size, order)
      [] OTHER -> Less(a.name, b.name, order)

Precedes(a, b, by, order) ==
    CASE a.type # b.type -> a.type = "directory"
      [] a.type = "file" /\ b.type = "file" /\ by = "size" /\ a.size # b.size ->
             Less(a.size, b.size, order)
      [] OTHER -> Less(a.name, b.name, order)

\* sort.Slice, of entries that the comparison orders in one way only.
Sorted(es, by, order) ==
    CHOOSE q \in [1..Cardinality(es) -> es] :
        \A i, j \in DOMAIN q : i < j => q[i] # q[j] /\ ~Precedes(q[j], q[i], by, order)

\* explorerCursorFromEntry and back: the field is kept if it is sorted by.
CursorOf(e, by) == IF by = "size" THEN e ELSE [e EXCEPT !.size = 0]

\* ListExplorerEntries: sort, start after the cursor, cut at the limit.  The
\* cursor of the last entry is given if something follows it.
Page(from, by, order) ==
    LET after == {e \in entries : from # NoEntry => Precedes(from, e, by, order)}
        rest == Sorted(after, by, order)
        more == Len(rest) > Limit
    IN [items |-> IF more THEN SubSeq(rest, 1, Limit) ELSE rest,
        next |-> IF more THEN CursorOf(rest[Limit], by) ELSE NoEntry]

-----------------------------------------------------------------------------
FirstPage(by, order) ==
    LET page == Page(NoEntry, by, order)
    IN /\ walk = "idle"
       /\ sortBy' = by /\ sortOrder' = order
       /\ listed' = page.items
       /\ cursor' = page.next
       /\ steady' = entries
       /\ walk' = IF page.next = NoEntry THEN "end" ELSE "pages"
       /\ UNCHANGED <<entries, changes>>

NextPage ==
    LET page == Page(cursor, sortBy, sortOrder)
    IN /\ walk = "pages"
       /\ listed' = listed \o page.items
       /\ cursor' = page.next
       /\ walk' = IF page.next = NoEntry THEN "end" ELSE "pages"
       /\ UNCHANGED <<entries, sortBy, sortOrder, steady, changes>>

\* Uploads, overwrites, new folders.
Put(e) ==
    /\ changes < MaxChanges
    /\ e \notin entries
    /\ entries' = {d \in entries : d.name # e.name} \cup {e}
    /\ steady' = {d \in steady : d.name # e.name}
    /\ changes' = changes + 1
    /\ UNCHANGED <<sortBy, sortOrder, cursor, listed, walk>>

Delete(e) ==
    /\ changes < MaxChanges
    /\ e \in entries
    /\ entries' = entries \ {e}
    /\ steady' = steady \ {e}
    /\ changes' = changes + 1
    /\ UNCHANGED <<sortBy, sortOrder, cursor, listed, walk>>

OneOfAName(es) == \A a, b \in es : a.name = b.name => a = b

PagesInit ==
    /\ entries \in {es \in SUBSET AllEntries : OneOfAName(es)}
    /\ sortBy = "name" /\ sortOrder = "asc"
    /\ cursor = NoEntry
    /\ listed = <<>>
    /\ steady = {}
    /\ walk = "idle"
    /\ changes = 0

PagesNext ==
    \/ \E by \in {"name", "size"}, order \in {"asc", "desc"} : FirstPage(by, order)
    \/ NextPage
    \/ \E e \in AllEntries : walk = "pages" /\ (Put(e) \/ Delete(e))

PagesSpec == PagesInit /\ [][PagesNext]_pagesVars

-----------------------------------------------------------------------------
(* Properties                                                              *)

\* Every variable has its type; a folder has one entry of a name.
PagesTypeOK ==
    /\ entries \subseteq AllEntries /\ OneOfAName(entries)
    /\ sortBy \in {"name", "size"} /\ sortOrder \in {"asc", "desc"}
    /\ cursor \in AllEntries \cup {NoEntry}
    /\ listed \in Seq(AllEntries)
    /\ steady \subseteq entries
    /\ walk \in {"idle", "pages", "end"}

\* An entry that is there from the first page to the last is listed exactly
\* once, although the entry that the cursor was made of, and others around it,
\* may have been deleted, replaced or created meanwhile.
WalkComplete ==
    walk = "end" =>
        \A e \in steady : Cardinality({i \in DOMAIN listed : listed[i] = e}) = 1
=============================================================================
