----------------------------- MODULE PrefixTrail -----------------------------
(***************************************************************************)
(* What the Back and Forward buttons of the object explorer promise: the   *)
(* folders visited form a trail with a position in it.  Opening a folder   *)
(* forgets the trail beyond the position; Back and Forward only move the   *)
(* position.  Back at the start of the trail goes to the parent folder,    *)
(* which then becomes the start of the trail.                              *)
(*                                                                         *)
(* BucketObjectsPage keeps no such trail but two stacks and the prefix of  *)
(* the URL; ExplorerNav shows that they implement it.                      *)
(***************************************************************************)
EXTENDS Naturals, Sequences, SequencesExt

CONSTANTS
    Folders  \* paths of folders: sequences of names, <<>> is the root

VARIABLES
    trail,  \* the folders visited, oldest first
    pos,    \* the folder shown is trail[pos]
    jumps   \* how often the folder was changed otherwise, modulo 2

trailVars == <<trail, pos, jumps>>

\* The folder that contains p; the root contains itself.
Parent(p) == IF p = <<>> THEN <<>> ELSE Front(p)

TrailInit ==
    /\ trail \in {<<p>> : p \in Folders}
    /\ pos = 1
    /\ jumps = 0

Visit ==
    /\ \E p \in Folders \ {trail[pos]} :
           trail' = Append(SubSeq(trail, 1, pos), p)
    /\ pos' = pos + 1

GoBack ==
    /\ pos > 1
    /\ pos' = pos - 1
    /\ UNCHANGED trail

GoForward ==
    /\ pos < Len(trail)
    /\ pos' = pos + 1
    /\ UNCHANGED trail

GoUp ==
    /\ pos = 1
    /\ trail[1] # <<>>
    /\ trail' = <<Parent(trail[1])>> \o trail
    /\ UNCHANGED pos

\* The browser's own Back and Forward, and a bucket left and opened again, change
\* the folder on the screen and leave the rest of the trail alone.  They are
\* counted: none of the other steps can pass for one of these.
Jump ==
    /\ \E p \in Folders \ {trail[pos]} : trail' = [trail EXCEPT ![pos] = p]
    /\ UNCHANGED pos
    /\ jumps' = 1 - jumps

TrailNext ==
    \/ (Visit \/ GoBack \/ GoForward \/ GoUp) /\ UNCHANGED jumps
    \/ Jump

TrailSpec == TrailInit /\ [][TrailNext]_trailVars
=============================================================================
