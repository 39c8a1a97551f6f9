----------------------------- MODULE LastWriter -----------------------------
(***************************************************************************)
(* What one node promises about the files it knows of.  Peers and the      *)
(* local scanner offer (file, scan time, owner) triples in any order; the  *)
(* node keeps, for each file, an offer that carries the largest scan time  *)
(* it has been given.  FatTree implements this for every path that is only *)
(* ever announced as a file.                                               *)
(***************************************************************************)
EXTENDS Naturals

CONSTANTS File,     \* the files
          Owner,    \* the nodes that may own a file
          NoOwner   \* the owner of a file no offer has been adopted for

VARIABLES offered,  \* the offers handed to this node so far
          entry     \* [File -> stamp and owner] the node's current view

lwVars == <<offered, entry>>

Offer == [file : File, stamp : Nat \ {0}, owner : Owner]

Init ==
    /\ offered = {}
    /\ entry = [f \in File |-> [stamp |-> 0, owner |-> NoOwner]]

\* Somebody offers more files: nothing is adopted yet.
Announce ==
    /\ offered' \subseteq Offer
    /\ offered \subseteq offered'
    /\ UNCHANGED entry

\* One offer is adopted, which it may be only if it is newer than the entry.
Adopt(o) ==
    /\ o.stamp > entry[o.file].stamp
    /\ entry' = [entry EXCEPT ![o.file] = [stamp |-> o.stamp, owner |-> o.owner]]
    /\ UNCHANGED offered

Next == Announce \/ \E o \in offered : Adopt(o)

Spec == Init /\ [][Next]_lwVars

-----------------------------------------------------------------------------

\* No offer made so far is newer than the entry of its file.
Settled == \A o \in offered : o.stamp =< entry[o.file].stamp

\* Whatever order the offers come in, the view ends up, for good, with the
\* newest offer of every file.
Settles == <>[]Settled
=============================================================================
