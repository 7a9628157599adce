------------------------------ MODULE Filters ------------------------------
(***************************************************************************)
(* Array.prototype.filter as the pages use it: the members of a list that  *)
(* are in a set, in the order of the list.                                 *)
(***************************************************************************)
EXTENDS Naturals, Sequences

Kept(list, set) ==
    LET filter[n \in 0..Len(list)] ==
            IF n = 0 THEN <<>>
            ELSE IF list[n] \in set THEN Append(filter[n - 1], list[n])
            ELSE filter[n - 1]
    IN filter[Len(list)]
=============================================================================
