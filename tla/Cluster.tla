------------------------------ MODULE Cluster -------------------------------
(***************************************************************************)
(* Full updates between the nodes of package cluster, on top of            *)
(* Membership: PushState and SchedulePush, the PushFullUpdate goroutines,  *)
(* POST /update/ and the ReceiveUpdate goroutines.  A greeting step of     *)
(* Membership is one step here, together with its part of the push         *)
(* bookkeeping; what a node merges is reduced to whose files it has.       *)
(***************************************************************************)
EXTENDS Naturals, FiniteSets

CONSTANTS
    Node, ClusterName, Hears, MaxFaults, MaxJoins,  \* as in Membership
    MaxFailedPushes  \* bound on PushFullUpdate requests that fail

ASSUME ClusterAssumption ==
    /\ Hears \subseteq {e \in Node \X Node : e[1] # e[2]}
    /\ MaxFaults \in Nat /\ MaxJoins \in Nat /\ MaxFailedPushes \in Nat

VARIABLES
    known, greet, calls, faults, joins,  \* as in Membership
    push,     \* [Node -> [Node -> PushState of that peer]]
    due,      \* pushes a running UpdateNode has found due: see PushCheck
    posting,  \* [Node -> [Node -> PushFullUpdate goroutines not yet answered]]
    acked,    \* [Node -> [Node -> those whose "ok" is on its way back]]
    recv,     \* [Node -> [Node -> ReceiveUpdate goroutines, by sender]]
    applied,  \* [Node -> the senders whose files it has merged into its tree]
    failed    \* PushFullUpdate requests that have failed

M == INSTANCE Membership

memberVars == <<known, greet, calls, faults, joins>>
pushVars == <<push, due, posting, acked, recv, applied, failed>>
vars == <<memberVars, pushVars>>

\* The thread of control of a GreetNode call, in the caller and the callee.
Id(c) == <<c.from, c.to, c.by>>

Pushes == [Node -> [Node -> Nat]]

Init ==
    /\ M!Init
    /\ push = [n \in Node |-> [m \in Node |-> M!Never]]
    /\ due = {}
    /\ posting = [n \in Node |-> [m \in Node |-> 0]]
    /\ acked = [n \in Node |-> [m \in Node |-> 0]]
    /\ recv = [n \in Node |-> [m \in Node |-> 0]]
    /\ applied = [n \in Node |-> {}]
    /\ failed = 0

-----------------------------------------------------------------------------

\* End of UpdateNode of n for p, within call c: PushState is read without the
\* lock; if it is StateNever, SchedulePush is called next.
PushCheck(c, n, p) ==
    due' = due \cup IF push[n][p] = M!Never THEN {<<Id(c), n, p>>} ELSE {}

\* No SchedulePush is outstanding in the thread of control of c.
PushChecked(c) == \A d \in due : d[1] # Id(c)

\* Variant of SchedulePush without the test of PushState.
ScheduleAnyPush(n, p) ==
    /\ push' = [push EXCEPT ![n][p] = M!Pending]
    /\ posting' = [posting EXCEPT ![n][p] = @ + 1]

\* SchedulePush, under the lock of the peer's NodeInfo: nothing if a push is
\* pending, otherwise a new PushFullUpdate goroutine.
SchedulePush(n, p) ==
    IF push[n][p] = M!Pending
    THEN UNCHANGED <<push, posting>>
    ELSE /\ push' = [push EXCEPT ![n][p] = M!Pending]
         /\ posting' = [posting EXCEPT ![n][p] = @ + 1]

\* The SchedulePush that ends an UpdateNode.
PushDue(d) ==
    /\ SchedulePush(d[2], d[3])
    /\ due' = due \ {d}
    /\ UNCHANGED <<memberVars, acked, recv, applied, failed>>

\* The listener and HttpJoin greet again only when they are through with their
\* last call, and that is after its last SchedulePush.
HearPing(n, m) ==
    /\ \A d \in due : ~(d[1][1] = n /\ d[1][3] = "listen")
    /\ M!HearPing(n, m)
    /\ UNCHANGED pushVars

HttpJoin(n, m) ==
    /\ \A d \in due : ~(d[1][1] = n /\ d[1][3] = "join")
    /\ M!HttpJoin(n, m)
    /\ UNCHANGED pushVars

Meet(c) ==
    /\ M!Meet(c)
    /\ PushCheck(c, c.to, c.from)
    /\ UNCHANGED <<push, posting, acked, recv, applied, failed>>

\* HttpCluster: every greeting of this program has request-full-update set, so
\* the callee schedules a push before it answers.
Answer(c) ==
    /\ PushChecked(c)
    /\ M!Answer(c)
    /\ SchedulePush(c.to, c.from)
    /\ UNCHANGED <<due, acked, recv, applied, failed>>

AnswerLost(c) ==
    /\ PushChecked(c)
    /\ M!AnswerLost(c)
    /\ SchedulePush(c.to, c.from)
    /\ UNCHANGED <<due, acked, recv, applied, failed>>

Learn(c, p) ==
    /\ PushChecked(c)
    /\ M!Learn(c, p)
    /\ PushCheck(c, c.from, p)
    /\ UNCHANGED <<push, posting, acked, recv, applied, failed>>

RequestLost(c) ==
    /\ M!RequestLost(c)
    /\ UNCHANGED pushVars

\* HttpUpdate of m: the decoded update is handed to a goroutine and "ok" sent.
HttpUpdate(n, m) ==
    /\ posting[n][m] > 0
    /\ posting' = [posting EXCEPT ![n][m] = @ - 1]
    /\ acked' = [acked EXCEPT ![n][m] = @ + 1]
    /\ recv' = [recv EXCEPT ![m][n] = @ + 1]
    /\ UNCHANGED <<memberVars, push, due, applied, failed>>

\* Variant of PushSucceeds that takes the way through label fail.
PushSucceedsAsFailure(n, m) ==
    /\ acked[n][m] > 0
    /\ acked' = [acked EXCEPT ![n][m] = @ - 1]
    /\ push' = [push EXCEPT ![n][m] = M!Never]
    /\ UNCHANGED <<memberVars, due, posting, recv, applied, failed>>

\* PushFullUpdate of n, after the "ok".
PushSucceeds(n, m) ==
    /\ acked[n][m] > 0
    /\ acked' = [acked EXCEPT ![n][m] = @ - 1]
    /\ push' = [push EXCEPT ![n][m] = M!Done]
    /\ UNCHANGED <<memberVars, due, posting, recv, applied, failed>>

\* PushFullUpdate of n, label fail: no connection, or no "ok" in time.
PushFails(n, m) ==
    /\ failed < MaxFailedPushes
    /\ failed' = failed + 1
    /\ \/ /\ posting[n][m] > 0
          /\ posting' = [posting EXCEPT ![n][m] = @ - 1]
          /\ UNCHANGED acked
       \/ /\ acked[n][m] > 0
          /\ acked' = [acked EXCEPT ![n][m] = @ - 1]
          /\ UNCHANGED posting
    /\ push' = [push EXCEPT ![n][m] = M!Never]
    /\ UNCHANGED <<memberVars, due, recv, applied>>

\* Variants of ReceiveUpdate: one that accepts only nodes which have answered a
\* greeting, and one that makes an unknown sender a peer.
ReceiveFromGreeted(n, m) ==
    /\ recv[m][n] > 0
    /\ recv' = [recv EXCEPT ![m][n] = @ - 1]
    /\ applied' = [applied EXCEPT ![m] = IF greet[m][n] = M!Done THEN @ \cup {n} ELSE @]
    /\ UNCHANGED <<memberVars, push, due, posting, acked, failed>>

ReceiveFromAnybody(n, m) ==
    /\ recv[m][n] > 0
    /\ recv' = [recv EXCEPT ![m][n] = @ - 1]
    /\ known' = [known EXCEPT ![m] = @ \cup {n}]
    /\ applied' = [applied EXCEPT ![m] = @ \cup {n}]
    /\ UNCHANGED <<greet, calls, faults, joins, push, due, posting, acked, failed>>

\* ReceiveUpdate of m: an update of a sender it does not know is dropped.
ReceiveUpdate(n, m) ==
    /\ recv[m][n] > 0
    /\ recv' = [recv EXCEPT ![m][n] = @ - 1]
    /\ applied' = [applied EXCEPT ![m] = IF n \in known[m] THEN @ \cup {n} ELSE @]
    /\ UNCHANGED <<memberVars, push, due, posting, acked, failed>>

CallStep(c) == Meet(c) \/ Answer(c) \/ \E p \in c.peers : Learn(c, p)

Next ==
    \/ \E n, m \in Node : HearPing(n, m) \/ HttpJoin(n, m)
    \/ \E c \in calls : CallStep(c) \/ RequestLost(c) \/ AnswerLost(c)
    \/ \E d \in due : PushDue(d)
    \/ \E n, m \in Node : HttpUpdate(n, m) \/ PushSucceeds(n, m)
                             \/ PushFails(n, m) \/ ReceiveUpdate(n, m)

Spec == Init /\ [][Next]_vars

\* As in Membership; and goroutines run, requests are answered or fail.
Fairness ==
    \A n, m \in Node : n # m =>
        /\ WF_vars(HearPing(n, m))
        /\ WF_vars(\/ \E c \in calls : c.from = n /\ c.to = m /\ CallStep(c)
                   \/ \E d \in due : d[1][1] = n /\ d[1][2] = m /\ PushDue(d))
        /\ WF_vars(HttpUpdate(n, m) \/ PushSucceeds(n, m))
        /\ WF_vars(ReceiveUpdate(n, m))

FairSpec == Spec /\ Fairness

-----------------------------------------------------------------------------
\* Properties.

\* Push states, goroutine counts and merged senders keep their shape; what
\* Membership keeps is typed there.
TypeOK ==
    /\ M!TypeOK
    /\ push \in [Node -> [Node -> M!States]]
    /\ due \subseteq (Node \X Node \X M!Runner) \X Node \X Node
    /\ posting \in Pushes /\ acked \in Pushes /\ recv \in Pushes
    /\ applied \in [Node -> SUBSET Node]
    /\ failed \in 0..MaxFailedPushes

\* SchedulePush and PushFullUpdate keep PushState and the goroutines in step:
\* exactly one push goroutine runs towards a peer while its state is pending,
\* and none otherwise, whoever schedules and in whatever order pushes end.
OnePushInFlight ==
    \A n, m \in Node :
        posting[n][m] + acked[n][m] = IF push[n][m] = M!Pending THEN 1 ELSE 0

\* ReceiveUpdate drops the update of a sender it has not met, and the sender
\* counts it as pushed all the same.  That cannot happen in both directions:
\* when two nodes have both had their "ok" and have finished with what they
\* received, at least one of them has merged the files of the other.
OneOfTwoMerges ==
    \A n, m \in Node :
        /\ n # m
        /\ push[n][m] = M!Done /\ push[m][n] = M!Done
        /\ recv[n][m] = 0 /\ recv[m][n] = 0
        => n \in applied[m] \/ m \in applied[n]

\* As long as no push has failed, every peer is being sent the files or has been,
\* whatever became of the greeting it was met by, once UpdateNode has scheduled
\* what it found due (README.md: "A node is responsible for pushing updates to
\* every other node").
PushedToEveryPeer ==
    due = {} /\ failed = 0 =>
        \A n \in Node : \A m \in known[n] : push[n][m] # M!Never

\* Pushing does not disturb the greetings: what the nodes do to their peer
\* tables, with PushFullUpdate and ReceiveUpdate running beside it, is what
\* Membership allows.
ImplementsMembership == M!Spec

\* Whatever goroutines and requests there are, only peers are pushed to and only
\* peers' updates are merged: of the peer tables, the updates under way and what
\* has been merged, no step shows more than Exchange allows.
X == INSTANCE Exchange WITH
    peers <- known,
    sent <- {e \in Node \X Node : posting[e[1]][e[2]] + recv[e[2]][e[1]] > 0},
    merged <- applied

ImplementsExchange == X!Spec

\* README.md: "The described distributed system is eventually consistent with
\* regard to file information": every node ends up with the files of every
\* node it knows.
EventuallyConsistent ==
    <>[](\A n \in Node : known[n] \subseteq applied[n])
=============================================================================
