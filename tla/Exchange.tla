------------------------------ MODULE Exchange ------------------------------
(***************************************************************************)
(* What package cluster promises about the files nodes have of each other: *)
(* a node is sent full updates only by nodes that have met it, and merges  *)
(* only those of nodes it has met itself.  Cluster, which has every step   *)
(* of greetings and pushes but no restarts, and Proxy, which has restarts  *)
(* and repeated updates but pushes and merges in one step, both implement  *)
(* it.                                                                     *)
(***************************************************************************)

CONSTANT Node

VARIABLES
    peers,   \* [Node -> the nodes it has met]
    sent,    \* <<n, m>>: a full update of n is on its way to m
    merged   \* [Node -> the nodes it has merged an update of]

vars == <<peers, sent, merged>>

Init ==
    /\ peers = [n \in Node |-> {}]
    /\ sent = {}
    /\ merged = [n \in Node |-> {}]

\* n gets to know m.
Meet(n, m) ==
    /\ n # m /\ m \notin peers[n]
    /\ peers' = [peers EXCEPT ![n] = @ \cup {m}]
    /\ UNCHANGED <<sent, merged>>

Push(n, m) ==
    /\ m \in peers[n]
    /\ sent' = sent \cup {<<n, m>>}
    /\ UNCHANGED <<peers, merged>>

\* m merges an update of n; there may be more of them.
Receive(n, m) ==
    /\ <<n, m>> \in sent /\ n \in peers[m]
    /\ sent' \in {sent, sent \ {<<n, m>>}}
    /\ merged' = [merged EXCEPT ![m] = @ \cup {n}]
    /\ UNCHANGED peers

\* An update is lost, or dropped because its sender is not known.
Lose(n, m) ==
    /\ <<n, m>> \in sent
    /\ sent' = sent \ {<<n, m>>}
    /\ UNCHANGED <<peers, merged>>

\* A process ends and begins anew, and with it what was on its way to it.
Restart(n) ==
    /\ peers' = [peers EXCEPT ![n] = {}]
    /\ merged' = [merged EXCEPT ![n] = {}]
    /\ sent' = {e \in sent : e[2] # n}

Next ==
    \/ \E n, m \in Node : Meet(n, m) \/ Push(n, m) \/ Receive(n, m) \/ Lose(n, m)
    \/ \E n \in Node : Restart(n)

Spec == Init /\ [][Next]_vars
=============================================================================
