---------------------------- MODULE MCMembership ----------------------------
(* Small instances of Membership: who hears whom, and cluster names. *)
EXTENDS Membership

CONSTANTS a, b, c

Everybody == {e \in Node \X Node : e[1] # e[2]}

\* Only b hears a.
BHearsA == {<<b, a>>}

\* b hears a and c, one after the other: they have to be introduced.
Hub == {<<b, a>>, <<b, c>>}

\* --multicast="": nodes meet through POST /join/ only.
Nobody == {}

OneCluster == [n \in Node |-> "dftp"]

TwoClusters == [n \in Node |-> IF n = a THEN "dftp" ELSE "backup"]
=============================================================================
