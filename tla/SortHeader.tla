----------------------------- MODULE SortHeader -----------------------------
(***************************************************************************)
(* The sort popovers in the header of the explorer table.  Each column     *)
(* keeps a draft of the order; the order that is applied lives in the URL  *)
(* and changes under an open popover with the browser's history, since a   *)
(* popover does not cover the page.  The draft is set by an effect when    *)
(* the popover opens and when the applied order changes.                   *)
(***************************************************************************)
EXTENDS Naturals, Sequences

CONSTANTS
    Columns,   \* the sortable columns
    MaxHistory,     \* bound on the length of the browser's history
    None

Orders == {"asc", "desc"}
Unsorted == [by |-> None, order |-> None]

SortAssumption ==
    /\ MaxHistory \in Nat
    /\ None \notin Columns \cup Orders

VARIABLES
    url,          \* sort_by and sort_order of the URL
    past,         \* the history behind it
    openSortBy,   \* the column whose popover is open
    draft,        \* draftSortOrder of each column
    touched       \* the user chose an order since the effect last ran

sortVars == <<url, past, openSortBy, draft, touched>>

\* appliedSortOrder of a column, None when it is not the active one.
Applied(u, c) == IF u.by = c THEN u.order ELSE None

\* The effect, run for the open popover only.
DraftEffect(u, open) ==
    IF open # None /\ (open # openSortBy \/ Applied(u, open) # Applied(url, open))
    THEN /\ draft' = [draft EXCEPT ![open] = Applied(u, open)]
         /\ touched' = FALSE
    ELSE UNCHANGED <<draft, touched>>

\* onOpenChange of a header; opening one closes the other.
onOpenChange(c, open) ==
    /\ open # (openSortBy = c)
    /\ openSortBy' = IF open THEN c ELSE None
    /\ DraftEffect(url, openSortBy')
    /\ UNCHANGED <<url, past>>

\* The toggle group ignores a second click on the chosen order.
setDraftSortOrder(o) ==
    /\ openSortBy # None
    /\ draft' = [draft EXCEPT ![openSortBy] = o]
    /\ touched' = TRUE
    /\ UNCHANGED <<url, past, openSortBy>>

\* updateSearchParams pushes an entry of the history.
Apply(u) ==
    /\ Len(past) < MaxHistory
    /\ url' = u
    /\ past' = Append(past, url)

\* A draft without an order is refused.
handleConfirm ==
    /\ openSortBy # None
    /\ draft[openSortBy] # None
    /\ Apply([by |-> openSortBy, order |-> draft[openSortBy]])
    /\ openSortBy' = None
    /\ UNCHANGED <<draft, touched>>

handleCancel ==
    /\ openSortBy # None
    /\ openSortBy' = None
    /\ UNCHANGED <<url, past, draft, touched>>

\* Clearing is offered for any active order, also that of another column.
handleClear ==
    /\ openSortBy # None
    /\ url.by # None
    /\ Apply(Unsorted)
    /\ openSortBy' = None
    /\ UNCHANGED <<draft, touched>>

browserBack ==
    /\ past # <<>>
    /\ url' = past[Len(past)]
    /\ past' = SubSeq(past, 1, Len(past) - 1)
    /\ DraftEffect(url', openSortBy)
    /\ UNCHANGED openSortBy

SortInit ==
    /\ url \in {Unsorted} \cup [by : Columns, order : Orders]
    /\ past = <<>>
    /\ openSortBy = None
    /\ draft = [c \in Columns |-> Applied(url, c)]
    /\ touched = FALSE

SortNext ==
    \/ \E c \in Columns, open \in BOOLEAN : onOpenChange(c, open)
    \/ \E o \in Orders : setDraftSortOrder(o)
    \/ handleConfirm
    \/ handleCancel
    \/ handleClear
    \/ browserBack

SortSpec == SortInit /\ [][SortNext]_sortVars

\* Every variable has its type; the URL is either unsorted or has both a
\* column and an order, which is what the server accepts.
SortTypeOK ==
    /\ url \in {Unsorted} \cup [by : Columns, order : Orders]
    /\ \A i \in 1..Len(past) : past[i] \in {Unsorted} \cup [by : Columns, order : Orders]
    /\ openSortBy \in Columns \cup {None}
    /\ draft \in [Columns -> Orders \cup {None}]
    /\ touched \in BOOLEAN

\* An open popover in which the user chose nothing shows the order that is in
\* force for its column, also when the order was changed, elsewhere or with
\* the browser's history, since the popover was last open or while it is.
DraftFollows ==
    openSortBy # None /\ ~touched => draft[openSortBy] = Applied(url, openSortBy)
=============================================================================
