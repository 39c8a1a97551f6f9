---------------------------- MODULE Membership ------------------------------
(***************************************************************************)
(* How the nodes of package cluster get to know each other: the multicast  *)
(* listener, the greeting (POST /cluster/) and its answer, the greetings   *)
(* that UpdateNode schedules, and POST /join/.  One step is one critical   *)
(* section or one HTTP message; all goroutines of all nodes interleave.    *)
(* A node's name stands for its management address as well.                *)
(***************************************************************************)
EXTENDS Naturals, FiniteSets

CONSTANTS
    Node,         \* the nodes; each has a name of its own
    ClusterName,  \* [Node -> the --cluster-name it was started with]
    Hears,        \* <<n, m>>: multicast pings of m reach n
    MaxFaults,    \* bound on failed HTTP requests
    MaxJoins      \* bound on POST /join/ commands

Never == "never"      \* StateNever
Pending == "pending"  \* StatePending
Done == "done"        \* StateDone
States == {Never, Pending, Done}

ASSUME HearsAssumption == Hears \subseteq {e \in Node \X Node : e[1] # e[2]}

ASSUME BoundAssumption == MaxFaults \in Nat /\ MaxJoins \in Nat

VARIABLES
    known,    \* [Node -> the keys of its Cluster.Peers]
    greet,    \* [Node -> [Node -> GreetState of that peer]]
    calls,    \* the calls of GreetNode in progress anywhere
    faults,   \* requests that have failed
    joins     \* joins commanded

vars == <<known, greet, calls, faults, joins>>

\* Who runs a GreetNode: the multicast listener, a goroutine of ScheduleGreet,
\* or HttpJoin.
Runner == {"listen", "schedule", "join"}

\* A GreetNode call, and where its POST /cluster/ is: on its way, in the
\* callee's HttpCluster, or answered.  "peers" are the entries of the answer
\* GreetNode still has to pass to UpdateNode; it returns after the last one.
Greeting == [from : Node, to : Node, by : Runner, at : {"sent", "met", "answered"},
             peers : SUBSET Node]

NewCall(n, m, by) ==
    [from |-> n, to |-> m, by |-> by, at |-> "sent", peers |-> {}]

Init ==
    /\ known = [n \in Node |-> {}]
    /\ greet = [n \in Node |-> [m \in Node |-> Never]]
    /\ calls = {}
    /\ faults = 0
    /\ joins = 0

-----------------------------------------------------------------------------

\* Variant of ButNot without the test.
ButNone(n, peers) == peers

\* First test of UpdateNode: a node skips its own entry.
ButNot(n, peers) == peers \ {n}

\* Variants of UpdateNode: one that only refreshes entries that exist, one that
\* marks the greeting as pending and does not start it, one that takes any mention
\* of a peer for its answer, and one that starts a greeting for every mention.
UpdateKnownNode(n, p, answered, others) ==
    /\ known' = known
    /\ greet' = [greet EXCEPT ![n][p] = IF answered THEN Done ELSE @]
    /\ calls' = others

UpdateNodeNoGo(n, p, answered, others) ==
    /\ known' = [known EXCEPT ![n] = @ \cup {p}]
    /\ greet' = [greet EXCEPT ![n][p] =
          IF answered THEN Done ELSE IF @ = Never THEN Pending ELSE @]
    /\ calls' = others

UpdateNodeDone(n, p, answered, others) ==
    /\ known' = [known EXCEPT ![n] = @ \cup {p}]
    /\ greet' = [greet EXCEPT ![n][p] = Done]
    /\ calls' = others

UpdateNodeRegreet(n, p, answered, others) ==
    /\ known' = [known EXCEPT ![n] = @ \cup {p}]
    /\ greet' = [greet EXCEPT ![n][p] =
          IF answered THEN Done ELSE IF @ = Never THEN Pending ELSE @]
    /\ calls' = others \cup IF answered THEN {} ELSE {NewCall(n, p, "schedule")}

\* UpdateNode of n for another node p, ScheduleGreet included: p is added to
\* Peers; its GreetState becomes StateDone if the information came with p's own
\* answer; otherwise a first greeting is scheduled.  "others" are the calls that
\* go on.  The locks of the Peers map and of the entry are taken one after the
\* other in the code; the step ends where the push check begins.
UpdateNode(n, p, answered, others) ==
    /\ known' = [known EXCEPT ![n] = @ \cup {p}]
    /\ greet' = [greet EXCEPT ![n][p] =
          IF answered THEN Done ELSE IF @ = Never THEN Pending ELSE @]
    /\ calls' = others \cup IF ~answered /\ greet[n][p] = Never
                             THEN {NewCall(n, p, "schedule")} ELSE {}

\* n's own management address, or that of one of its peers.
KnownMgmtAdr(n, m) == m = n \/ m \in known[n]

\* The listener goroutine of n receives a ping of m.  It is busy while its own
\* GreetNode runs; known management addresses are ignored; the cluster name in
\* the ping is not looked at.
HearPing(n, m) ==
    /\ <<n, m>> \in Hears
    /\ ~KnownMgmtAdr(n, m)
    /\ \A c \in calls : ~(c.from = n /\ c.by = "listen")
    /\ calls' = calls \cup {NewCall(n, m, "listen")}
    /\ UNCHANGED <<known, greet, faults, joins>>

\* HttpJoin of n: the operator names the address of m.
HttpJoin(n, m) ==
    /\ n # m /\ joins < MaxJoins
    /\ \A c \in calls : ~(c.from = n /\ c.by = "join")
    /\ joins' = joins + 1
    /\ calls' = calls \cup {NewCall(n, m, "join")}
    /\ UNCHANGED <<known, greet, faults>>

\* HttpCluster of the callee begins: UpdateNode for the caller.
Meet(c) ==
    /\ c.at = "sent"
    /\ UpdateNode(c.to, c.from, FALSE, (calls \ {c}) \cup {[c EXCEPT !.at = "met"]})
    /\ UNCHANGED <<faults, joins>>

\* Variant of Answer that leaves the peers out.
AnswerMe(c) ==
    /\ c.at = "met"
    /\ calls' = (calls \ {c}) \cup {[c EXCEPT !.at = "answered", !.peers = {c.to}]}
    /\ UNCHANGED <<known, greet, faults, joins>>

\* httpClusterInfoResponse: Me and the Peers known at this moment.  GreetNode
\* receives it, puts the callee among the peers and begins its loop.
Answer(c) ==
    /\ c.at = "met"
    /\ calls' = (calls \ {c}) \cup
          {[c EXCEPT !.at = "answered",
                     !.peers = ButNot(c.from, known[c.to] \cup {c.to})]}
    /\ UNCHANGED <<known, greet, faults, joins>>

\* Variant of Continue in which GreetNode does not return to the listener.
ContinueForever(c, left) == {[c EXCEPT !.peers = left]}

\* A GreetNode that has "left" still to go on with; none: it returns, and the
\* listener goes back to its socket.
Continue(c, left) == IF left = {} THEN {} ELSE {[c EXCEPT !.peers = left]}

\* GreetNode: UpdateNode for the next entry of rInfo.Peers, in Go's random map
\* order.  The entry of the callee itself carries GreetState = StateDone.
Learn(c, p) ==
    /\ c.at = "answered" /\ p \in c.peers
    /\ UpdateNode(c.from, p, p = c.to, (calls \ {c}) \cup Continue(c, c.peers \ {p}))
    /\ UNCHANGED <<faults, joins>>

\* Variant of RequestLost that records the failure as a state of its own.
RequestLostMarked(c) ==
    /\ c.at = "sent" /\ faults < MaxFaults
    /\ faults' = faults + 1
    /\ calls' = calls \ {c}
    /\ greet' = [greet EXCEPT ![c.from][c.to] = "failed"]
    /\ UNCHANGED <<known, joins>>

\* No connection: GreetNode logs the error and returns, GreetState stays.
RequestLost(c) ==
    /\ c.at = "sent" /\ faults < MaxFaults
    /\ faults' = faults + 1
    /\ calls' = calls \ {c}
    /\ UNCHANGED <<known, greet, joins>>

\* The same when the callee has handled the request but its answer does not
\* come, or comes too late.
AnswerLost(c) ==
    /\ c.at = "met" /\ faults < MaxFaults
    /\ faults' = faults + 1
    /\ calls' = calls \ {c}
    /\ UNCHANGED <<known, greet, joins>>

CallStep(c) == Meet(c) \/ Answer(c) \/ \E p \in c.peers : Learn(c, p)

Next ==
    \/ \E n, m \in Node : HearPing(n, m) \/ HttpJoin(n, m)
    \/ \E c \in calls : CallStep(c) \/ RequestLost(c) \/ AnswerLost(c)

Spec == Init /\ [][Next]_vars

\* Goroutines run, and a node goes on pinging once a minute for as long as it
\* runs, so that a ping is eventually heard by a listener that is not busy.
Fairness ==
    \A n, m \in Node : n # m =>
        /\ WF_vars(HearPing(n, m))
        /\ WF_vars(\E c \in calls : c.from = n /\ c.to = m /\ CallStep(c))

FairSpec == Spec /\ Fairness

-----------------------------------------------------------------------------
\* Properties.

\* The peer tables and calls keep their shape (cluster.go NodeInfo).
TypeOK ==
    /\ known \in [Node -> SUBSET Node]
    /\ greet \in [Node -> [Node -> States]]
    /\ calls \subseteq Greeting
    /\ faults \in 0..MaxFaults
    /\ joins \in 0..MaxJoins

\* Every answer to a greeting lists the caller too, yet no node ever becomes
\* its own peer or greets itself (the first test of UpdateNode).
NeverOwnPeer ==
    /\ \A n \in Node : n \notin known[n]
    /\ \A c \in calls : c.from # c.to

\* As long as no request has failed, gossip closes: when no greeting is under
\* way, acquaintance is mutual and a peer of a peer is a peer (README.md: the
\* new node "greets every other node in the list").
GossipCloses ==
    calls = {} /\ faults = 0 =>
        \A n \in Node : \A m \in known[n] :
            /\ n \in known[m]
            /\ known[m] \ {n} \subseteq known[n]

\* As long as no request has failed, a greeting recorded as pending is one whose
\* goroutine runs, and every peer's greeting is pending or done.
PendingGreetRuns ==
    faults = 0 => \A n, m \in Node :
        /\ greet[n][m] = Pending =>
              \E c \in calls : c.from = n /\ c.to = m /\ c.by = "schedule"
        /\ m \in known[n] => greet[n][m] # Never

\* Whatever has failed, a greeting that one side counts as done has left each of
\* the two in the other's table, so that full updates can go both ways.
DoneIsMutual ==
    \A n, m \in Node : greet[n][m] = Done => m \in known[n] /\ n \in known[m]

\* GreetState is what keeps UpdateNode from greeting a peer for every answer
\* that mentions it: ScheduleGreet never runs two greetings of one peer, and
\* none for a peer that has answered before.
OneScheduledGreeting ==
    [][\A n, m \in Node :
          LET scheduled == {c \in calls : c.from = n /\ c.to = m /\ c.by = "schedule"}
          IN /\ Cardinality(scheduled) =< 1
             /\ greet[n][m] # Never => Cardinality(scheduled') =< Cardinality(scheduled)]_vars

\* Discovery: in the end all nodes know each other, whatever failed before.
MembershipCompletes ==
    <>[](\A n, m \in Node : n # m => m \in known[n])

\* As long as no request fails, whichever of the racing UpdateNode calls gets to
\* a new peer first, the peer is greeted in the end.
GreetedUnlessFailed ==
    \A n, m \in Node : (m \in known[n]) ~> (greet[n][m] = Done \/ faults > 0)

\* README.md: "The new node then greets every other node in the list and
\* requests full updates from each of them".
EveryPeerGreeted ==
    \A n, m \in Node : (m \in known[n]) ~> (greet[n][m] = Done)

\* README.md: a --cluster-name for each cluster lets "multiple separate
\* clusters" use one multicast address.
ClustersStaySeparate ==
    \A n \in Node : \A m \in known[n] : ClusterName[n] = ClusterName[m]
=============================================================================
