----------------------------- MODULE RowWindow -----------------------------
(***************************************************************************)
(* The rows that the explorer table renders before its virtualizer has     *)
(* measured the scroll container: a window of the entries that starts at   *)
(* the row under the scroll offset, between two spacers that stand for the *)
(* other rows.  The offset and the entries change independently: a listing *)
(* may shrink while the offset is far down.                                *)
(***************************************************************************)
EXTENDS Integers

CONSTANTS
    MaxEntries,   \* bound on the length of a listing (at most 200 per page)
    Step          \* distance of the offsets in use, in pixels

ASSUME WindowAssumption ==
    /\ MaxEntries \in Nat
    /\ Step \in Nat \ {0}

VARIABLES
    entries,               \* entries.length
    fallbackScrollOffset

vars == <<entries, fallbackScrollOffset>>

explorerTableRowEstimate == 49
explorerTableOverscan == 10

Least(a, b) == IF a <= b THEN a ELSE b
AtLeastZero(a) == IF a >= 0 THEN a ELSE 0

fallbackRowCount == Least(entries, explorerTableOverscan * 2 + 1)

RowAt_Mutant(offset) ==
    (offset + explorerTableRowEstimate - 1) \div explorerTableRowEstimate

RowAt(offset) == offset \div explorerTableRowEstimate

fallbackStartIndex_Mutant ==
    Least(RowAt(fallbackScrollOffset), AtLeastZero(entries - 1))

fallbackStartIndex ==
    Least(RowAt(fallbackScrollOffset), AtLeastZero(entries - fallbackRowCount))

fallbackEndIndex == Least(fallbackStartIndex + fallbackRowCount, entries)

fallbackTopSpacerHeight == fallbackStartIndex * explorerTableRowEstimate

bottomSpacerHeight ==
    AtLeastZero(entries - fallbackEndIndex) * explorerTableRowEstimate

-----------------------------------------------------------------------------
\* onScroll: within the height of the table at that moment.
setFallbackScrollOffset(y) ==
    /\ y <= entries * explorerTableRowEstimate
    /\ fallbackScrollOffset' = y
    /\ UNCHANGED entries

\* Another listing is shown.
setEntries(n) ==
    /\ entries' = n
    /\ UNCHANGED fallbackScrollOffset

Init ==
    /\ entries \in 0..MaxEntries
    /\ fallbackScrollOffset = 0

Next ==
    \/ \E k \in 0..((MaxEntries * explorerTableRowEstimate) \div Step) :
           setFallbackScrollOffset(k * Step)
    \/ \E n \in 0..MaxEntries : setEntries(n)

Spec == Init /\ [][Next]_vars

-----------------------------------------------------------------------------
\* The window is made of as many rows as there are, up to 21, all of them
\* entries of the listing, also when the offset is beyond its end.
WindowFull ==
    /\ 0 <= fallbackStartIndex
    /\ fallbackEndIndex <= entries
    /\ fallbackEndIndex - fallbackStartIndex = fallbackRowCount

\* Spacers and rows add up to the height of the whole table, so that the
\* scroll bar does not move when the window does.
HeightKept ==
    fallbackTopSpacerHeight
        + (fallbackEndIndex - fallbackStartIndex) * explorerTableRowEstimate
        + bottomSpacerHeight = entries * explorerTableRowEstimate

\* The row under the scroll offset is rendered whenever there is one.
RowUnderOffset ==
    fallbackScrollOffset < entries * explorerTableRowEstimate =>
        \E i \in fallbackStartIndex..(fallbackEndIndex - 1) :
            /\ i * explorerTableRowEstimate <= fallbackScrollOffset
            /\ fallbackScrollOffset < (i + 1) * explorerTableRowEstimate
=============================================================================
