------------------------------ MODULE MCCluster -----------------------------
(* Small instances of Cluster: who hears whom. *)
EXTENDS Cluster

CONSTANTS a, b, c

Everybody == {e \in Node \X Node : e[1] # e[2]}

\* Only b hears a.
BHearsA == {<<b, a>>}

\* No further than one failure, of a greeting or of a push.
OneFailure == faults + failed =< 1

OneCluster == [n \in Node |-> "dftp"]
=============================================================================
