--------------------------- MODULE ClusterProofs ----------------------------
(***************************************************************************)
(* Proofs about Cluster for any number of nodes, any reach of the pings    *)
(* and any bounds: it implements Membership, PushState and the push        *)
(* goroutines stay in step, of two nodes that have pushed to each other at *)
(* least one has merged what it received, no peer is left out of the       *)
(* pushes as long as none of them fails, and it implements Exchange.       *)
(***************************************************************************)
EXTENDS Cluster, TLAPS

MP == INSTANCE MembershipProofs

-----------------------------------------------------------------------------
\* Every step of Cluster is a step of Membership or leaves its variables alone.

LEMMA StepImplements == [Next]_vars => [M!Next]_(M!vars)
<1> SUFFICES ASSUME [Next]_vars PROVE [M!Next]_(M!vars)
  OBVIOUS
<1> USE DEF memberVars, M!vars
<1>1. ASSUME NEW n \in Node, NEW m \in Node, HearPing(n, m) \/ HttpJoin(n, m)
      PROVE M!Next
  BY <1>1 DEF HearPing, HttpJoin, M!Next
<1>2. ASSUME NEW c \in calls, CallStep(c) PROVE M!Next
  BY <1>2 DEF CallStep, Meet, Answer, Learn, M!CallStep, M!Next
<1>3. ASSUME NEW c \in calls, RequestLost(c) \/ AnswerLost(c) PROVE M!Next
  BY <1>3 DEF RequestLost, AnswerLost, M!Next
<1>4. ASSUME NEW d \in due, PushDue(d) PROVE UNCHANGED M!vars
  BY <1>4 DEF PushDue
<1>5. ASSUME NEW n \in Node, NEW m \in Node,
             \/ HttpUpdate(n, m) \/ PushSucceeds(n, m)
             \/ PushFails(n, m) \/ ReceiveUpdate(n, m)
      PROVE UNCHANGED M!vars
  BY <1>5 DEF HttpUpdate, PushSucceeds, PushFails, ReceiveUpdate
<1>6. CASE UNCHANGED vars
  BY <1>6 DEF vars
<1> QED
  BY <1>1, <1>2, <1>3, <1>4, <1>5, <1>6 DEF Next

\* Pushing does not disturb the greetings: the peer tables and the calls of
\* GreetNode behave as Membership says, whatever the push goroutines do.
THEOREM Refinement == Spec => ImplementsMembership
<1>1. Init => M!Init
  BY DEF Init
<1> QED
  BY <1>1, StepImplements, PTL DEF Spec, ImplementsMembership, M!Spec

-----------------------------------------------------------------------------
\* What MembershipProofs proves of its steps, in terms of the instance M.

LEMMA SameType == M!TypeOK <=> MP!TypeOK
  BY DEF M!TypeOK, MP!TypeOK, M!Greeting, MP!Greeting, M!Runner, MP!Runner,
         M!States, MP!States, M!Never, MP!Never, M!Pending, MP!Pending, M!Done, MP!Done

LEMMA SameNext == [M!Next]_(M!vars) <=> [MP!Next]_(MP!vars)
  BY DEF M!Next, MP!Next, M!vars, MP!vars, M!HearPing, MP!HearPing,
         M!KnownMgmtAdr, MP!KnownMgmtAdr,
         M!HttpJoin, MP!HttpJoin, M!CallStep, MP!CallStep, M!Meet, MP!Meet,
         M!Answer, MP!Answer, M!Learn, MP!Learn, M!RequestLost, MP!RequestLost,
         M!AnswerLost, MP!AnswerLost, M!UpdateNode, MP!UpdateNode,
         M!NewCall, MP!NewCall, M!ButNot, MP!ButNot, M!Continue, MP!Continue,
         M!Never, MP!Never, M!Pending, MP!Pending, M!Done, MP!Done

\* The typed peer tables, and the two facts about them, kept by every step.
MemberInv == M!TypeOK /\ MP!MetKnown

LEMMA StepMember ==
    ASSUME MemberInv, [Next]_vars
    PROVE  MemberInv' /\ \A n \in Node : known[n] \subseteq known'[n]
<1>1. MP!TypeOK /\ [MP!Next]_(MP!vars)
  BY SameType, SameNext, StepImplements DEF MemberInv
<1>2. MP!TypeOK' <=> M!TypeOK'
  BY SameType, PTL
<1>3. MP!TypeOK'
  BY <1>1, ClusterAssumption, MP!StepType
<1>4. MP!MetKnown'
  BY <1>1, ClusterAssumption, MP!StepMet DEF MemberInv
<1>5. \A n \in Node : known[n] \subseteq known'[n]
  BY <1>1, ClusterAssumption, MP!KnownGrows
<1> QED
  BY <1>2, <1>3, <1>4, <1>5 DEF MemberInv

-----------------------------------------------------------------------------
\* Type correctness.

\* The part of TypeOK that Membership does not keep.
PushTypeOK ==
    /\ push \in [Node -> [Node -> M!States]]
    /\ due \subseteq (Node \X Node \X M!Runner) \X Node \X Node
    /\ posting \in Pushes /\ acked \in Pushes /\ recv \in Pushes
    /\ applied \in [Node -> SUBSET Node]
    /\ failed \in 0..MaxFailedPushes

\* SchedulePush keeps the push states and the number of goroutines typed.
LEMMA ScheduleType ==
    ASSUME PushTypeOK, NEW n \in Node, NEW p \in Node, SchedulePush(n, p)
    PROVE  push' \in [Node -> [Node -> M!States]] /\ posting' \in Pushes
<1>1. push' \in [Node -> [Node -> M!States]]
  <2>1. push' = push \/ push' = [push EXCEPT ![n][p] = M!Pending]
    BY DEF SchedulePush
  <2>2. M!Pending \in M!States
    BY DEF M!States
  <2> QED
    BY <2>1, <2>2 DEF PushTypeOK
<1>2. posting' \in Pushes
  BY DEF PushTypeOK, SchedulePush, Pushes
<1> QED
  BY <1>1, <1>2

\* PushCheck of a thread between two nodes keeps "due" typed.
LEMMA CheckType ==
    ASSUME M!TypeOK, PushTypeOK, NEW c \in calls, NEW n \in Node, NEW p \in Node,
           PushCheck(c, n, p)
    PROVE  due' \subseteq (Node \X Node \X M!Runner) \X Node \X Node
<1>1. Id(c) \in Node \X Node \X M!Runner
  BY DEF M!TypeOK, M!Greeting, Id
<1> QED
  BY <1>1 DEF PushCheck, PushTypeOK

LEMMA StepPushType ==
    ASSUME M!TypeOK, PushTypeOK, [Next]_vars
    PROVE  PushTypeOK'
<1>0. \A c \in calls : c.from \in Node /\ c.to \in Node /\ c.peers \subseteq Node
  BY DEF M!TypeOK, M!Greeting
<1>1. CASE UNCHANGED pushVars
  BY <1>1 DEF pushVars, PushTypeOK
<1>2. ASSUME NEW c \in calls, Meet(c) PROVE PushTypeOK'
  BY <1>0, <1>2, CheckType DEF Meet, PushTypeOK
<1>3. ASSUME NEW c \in calls, NEW p \in c.peers, Learn(c, p) PROVE PushTypeOK'
  BY <1>0, <1>3, CheckType DEF Learn, PushTypeOK
<1>4. ASSUME NEW c \in calls, Answer(c) \/ AnswerLost(c) PROVE PushTypeOK'
  BY <1>0, <1>4, ScheduleType DEF Answer, AnswerLost, PushTypeOK
<1>5. ASSUME NEW d \in due, PushDue(d) PROVE PushTypeOK'
  <2>1. d[2] \in Node /\ d[3] \in Node
    BY DEF PushTypeOK
  <2> QED
    BY <1>5, <2>1, ScheduleType DEF PushDue, PushTypeOK
<1>6. ASSUME NEW n \in Node, NEW m \in Node, HttpUpdate(n, m) PROVE PushTypeOK'
  BY <1>6 DEF HttpUpdate, PushTypeOK, Pushes
<1>7. ASSUME NEW n \in Node, NEW m \in Node, PushSucceeds(n, m) PROVE PushTypeOK'
  BY <1>7 DEF PushSucceeds, PushTypeOK, Pushes, M!States
<1>8. ASSUME NEW n \in Node, NEW m \in Node, PushFails(n, m) PROVE PushTypeOK'
  <2>1. failed' \in 0..MaxFailedPushes
    BY <1>8, ClusterAssumption DEF PushFails, PushTypeOK
  <2>2. posting' \in Pushes /\ acked' \in Pushes
    <3>1. CASE posting[n][m] > 0 /\ posting' = [posting EXCEPT ![n][m] = @ - 1]
               /\ UNCHANGED acked
      BY <3>1 DEF PushTypeOK, Pushes
    <3>2. CASE acked[n][m] > 0 /\ acked' = [acked EXCEPT ![n][m] = @ - 1]
               /\ UNCHANGED posting
      BY <3>2 DEF PushTypeOK, Pushes
    <3> QED
      BY <1>8, <3>1, <3>2 DEF PushFails
  <2>3. push' \in [Node -> [Node -> M!States]]
    BY <1>8 DEF PushFails, PushTypeOK, M!States
  <2> QED
    BY <1>8, <2>1, <2>2, <2>3 DEF PushFails, PushTypeOK
<1>9. ASSUME NEW n \in Node, NEW m \in Node, ReceiveUpdate(n, m) PROVE PushTypeOK'
  BY <1>9 DEF ReceiveUpdate, PushTypeOK, Pushes
<1>10. CASE UNCHANGED vars
  BY <1>1, <1>10 DEF vars
<1> QED
  BY <1>1, <1>2, <1>3, <1>4, <1>5, <1>6, <1>7, <1>8, <1>9, <1>10
     DEF Next, CallStep, HearPing, HttpJoin, RequestLost

LEMMA InitTyped == Init => MemberInv /\ PushTypeOK
<1>1. Init => M!TypeOK
  BY ClusterAssumption DEF Init, M!Init, M!TypeOK, M!States
<1>2. Init => MP!MetKnown
  BY DEF Init, M!Init, MP!MetKnown
<1>3. Init => PushTypeOK
  BY ClusterAssumption DEF Init, PushTypeOK, Pushes, M!States
<1> QED
  BY <1>1, <1>2, <1>3 DEF MemberInv

\* The peer tables, push states and goroutine counts keep their shape.
THEOREM TypeCorrect == Spec => []TypeOK
<1>1. MemberInv /\ PushTypeOK /\ [Next]_vars => (MemberInv /\ PushTypeOK)'
  BY StepMember, StepPushType DEF MemberInv
<1>2. MemberInv /\ PushTypeOK => TypeOK
  BY DEF MemberInv, PushTypeOK, TypeOK
<1> QED
  BY InitTyped, <1>1, <1>2, PTL DEF Spec

-----------------------------------------------------------------------------
\* PushState and the push goroutines.

Typed == MemberInv /\ PushTypeOK

\* SchedulePush starts a goroutine exactly when it makes the state pending.
LEMMA ScheduleOne ==
    ASSUME PushTypeOK, OnePushInFlight, NEW n \in Node, NEW p \in Node,
           SchedulePush(n, p), acked' = acked
    PROVE  OnePushInFlight'
<1>1. CASE push[n][p] = M!Pending
  BY <1>1 DEF SchedulePush, OnePushInFlight
<1>2. CASE push[n][p] # M!Pending
  <2>1. push' = [push EXCEPT ![n][p] = M!Pending]
        /\ posting' = [posting EXCEPT ![n][p] = @ + 1]
    BY <1>2 DEF SchedulePush
  <2>2. posting[n][p] + acked[n][p] = 0
    BY <1>2 DEF OnePushInFlight
  <2> QED
    BY <2>1, <2>2 DEF OnePushInFlight, PushTypeOK, Pushes
<1> QED
  BY <1>1, <1>2

LEMMA StepOnePush ==
    ASSUME Typed, OnePushInFlight, [Next]_vars
    PROVE  OnePushInFlight'
<1> USE DEF Typed
<1>0. \A c \in calls : c.from \in Node /\ c.to \in Node
  BY DEF MemberInv, M!TypeOK, M!Greeting
<1>1. CASE UNCHANGED <<push, posting, acked>>
  BY <1>1 DEF OnePushInFlight
<1>2. ASSUME NEW c \in calls, Answer(c) \/ AnswerLost(c) PROVE OnePushInFlight'
  BY <1>0, <1>2, ScheduleOne DEF Answer, AnswerLost
<1>3. ASSUME NEW d \in due, PushDue(d) PROVE OnePushInFlight'
  <2>1. d[2] \in Node /\ d[3] \in Node
    BY DEF PushTypeOK
  <2> QED
    BY <1>3, <2>1, ScheduleOne DEF PushDue
<1>4. ASSUME NEW n \in Node, NEW m \in Node, HttpUpdate(n, m) PROVE OnePushInFlight'
  BY <1>4 DEF HttpUpdate, OnePushInFlight, PushTypeOK, Pushes
<1>5. ASSUME NEW n \in Node, NEW m \in Node, PushSucceeds(n, m) \/ PushFails(n, m)
      PROVE OnePushInFlight'
  <2>1. push[n][m] = M!Pending /\ posting[n][m] + acked[n][m] = 1
    BY <1>5 DEF PushSucceeds, PushFails, OnePushInFlight, PushTypeOK, Pushes
  <2>2. \A k, l \in Node : k # n \/ l # m =>
            push'[k][l] = push[k][l] /\ posting'[k][l] = posting[k][l]
            /\ acked'[k][l] = acked[k][l]
    BY <1>5 DEF PushSucceeds, PushFails, PushTypeOK, Pushes
  <2>3. posting'[n][m] + acked'[n][m] = 0
    BY <1>5, <2>1 DEF PushSucceeds, PushFails, PushTypeOK, Pushes
  <2>4. push'[n][m] # M!Pending
    BY <1>5 DEF PushSucceeds, PushFails, PushTypeOK, M!Never, M!Pending, M!Done
  <2> QED
    BY <2>2, <2>3, <2>4 DEF OnePushInFlight
<1>6. CASE UNCHANGED vars
  BY <1>1, <1>6 DEF vars, pushVars
<1> QED
  BY <1>1, <1>2, <1>3, <1>4, <1>5, <1>6
     DEF Next, CallStep, HearPing, HttpJoin, Meet, Learn, RequestLost, ReceiveUpdate, pushVars

LEMMA InitOnePush == Init => OnePushInFlight
  BY DEF Init, OnePushInFlight, M!Never, M!Pending

LEMMA TypedInvariant == Typed /\ [Next]_vars => Typed'
  BY StepMember, StepPushType DEF Typed, MemberInv

\* SchedulePush never has two pushes to one peer under way, and a pending state
\* is never left without the goroutine that will clear it.
THEOREM PushesInStep == Spec => []OnePushInFlight
<1>1. Init => Typed /\ OnePushInFlight
  BY InitTyped, InitOnePush DEF Typed
<1>2. Typed /\ OnePushInFlight /\ [Next]_vars => (Typed /\ OnePushInFlight)'
  BY TypedInvariant, StepOnePush
<1> QED
  BY <1>1, <1>2, PTL DEF Spec

-----------------------------------------------------------------------------
\* Of two nodes, at least one merges.
\*
\* A node pushes only to its peers.  So when the later of two nodes gets to know
\* the other one, nothing it has pushed so far can have been dropped: it has
\* pushed nothing, and whatever it pushes from now on finds a node that knows it.

\* Pushes, and pushes found to be due, are for peers.
ToPeers ==
    /\ \A n, m \in Node : push[n][m] # M!Never => m \in known[n]
    /\ \A d \in due : d[3] \in known[d[2]]

\* No update of n that m has answered with "ok" was dropped.
Landed(n, m) ==
    push[n][m] = M!Done \/ acked[n][m] > 0 => n \in applied[m] \/ recv[m][n] > 0

OneWay ==
    \A n, m \in Node : n # m /\ m \in known[n] /\ n \in known[m]
                           => Landed(n, m) \/ Landed(m, n)

LEMMA StepToPeers ==
    ASSUME Typed, ToPeers, OnePushInFlight, [Next]_vars
    PROVE  ToPeers'
<1> USE DEF Typed
<1>0. \A n \in Node : known[n] \subseteq known'[n]
  BY StepMember
<1>1. \A d \in due : d[2] \in Node /\ d[3] \in Node
  BY DEF PushTypeOK
<1>2. \A c \in calls : c.from \in Node /\ c.to \in Node /\ c.peers \subseteq Node
  BY DEF MemberInv, M!TypeOK, M!Greeting
<1>3. ASSUME UNCHANGED push, due' \subseteq due PROVE ToPeers'
  BY <1>0, <1>1, <1>3 DEF ToPeers
<1>4. ASSUME NEW n \in Node, NEW p \in Node, p \in known[n], SchedulePush(n, p),
             due' \subseteq due
      PROVE ToPeers'
  <2>1. \A k, l \in Node : push'[k][l] = push[k][l] \/ (k = n /\ l = p)
    BY <1>4 DEF SchedulePush, PushTypeOK
  <2> QED
    BY <1>0, <1>1, <1>4, <2>1 DEF ToPeers
<1>5. ASSUME NEW c \in calls, NEW n \in Node, NEW p \in Node, p \in known'[n],
             PushCheck(c, n, p), UNCHANGED push
      PROVE ToPeers'
  <2>1. \A d \in due' : d \in due \/ (d[2] = n /\ d[3] = p)
    BY <1>5 DEF PushCheck
  <2> QED
    BY <1>0, <1>1, <1>5, <2>1 DEF ToPeers
<1>6. ASSUME NEW c \in calls, Meet(c) PROVE ToPeers'
  <2>1. c.from \in known'[c.to]
    BY <1>2, <1>6 DEF Meet, M!Meet, M!UpdateNode, MemberInv, M!TypeOK
  <2> QED
    BY <1>2, <1>5, <1>6, <2>1 DEF Meet
<1>7. ASSUME NEW c \in calls, NEW p \in c.peers, Learn(c, p) PROVE ToPeers'
  <2>1. p \in known'[c.from]
    BY <1>2, <1>7 DEF Learn, M!Learn, M!UpdateNode, MemberInv, M!TypeOK
  <2> QED
    BY <1>2, <1>5, <1>7, <2>1 DEF Learn
<1>8. ASSUME NEW c \in calls, Answer(c) \/ AnswerLost(c) PROVE ToPeers'
  <2>1. c.from \in known[c.to]
    BY <1>8 DEF Answer, AnswerLost, M!Answer, M!AnswerLost, MemberInv, MP!MetKnown
  <2> QED
    BY <1>2, <1>4, <1>8, <2>1 DEF Answer, AnswerLost
<1>9. ASSUME NEW d \in due, PushDue(d) PROVE ToPeers'
  BY <1>1, <1>4, <1>9 DEF PushDue, ToPeers
<1>10. ASSUME NEW n \in Node, NEW m \in Node, PushSucceeds(n, m) \/ PushFails(n, m)
       PROVE ToPeers'
  <2>1. push[n][m] = M!Pending
    BY <1>10 DEF PushSucceeds, PushFails, OnePushInFlight, PushTypeOK, Pushes
  <2>2. m \in known[n]
    BY <2>1 DEF ToPeers, M!Never, M!Pending
  <2>3. \A k, l \in Node : push'[k][l] = push[k][l] \/ (k = n /\ l = m)
    BY <1>10 DEF PushSucceeds, PushFails, PushTypeOK
  <2> QED
    BY <1>0, <1>1, <1>10, <2>2, <2>3 DEF PushSucceeds, PushFails, ToPeers
<1>11. CASE UNCHANGED vars
  BY <1>3, <1>11 DEF vars, pushVars
<1> QED
  BY <1>3, <1>6, <1>7, <1>8, <1>9, <1>10, <1>11
     DEF Next, CallStep, HearPing, HttpJoin, RequestLost, HttpUpdate, ReceiveUpdate, pushVars

LEMMA StepOneWay ==
    ASSUME Typed, ToPeers, OnePushInFlight, OneWay, [Next]_vars
    PROVE  OneWay'
<1> USE DEF Typed
<1>0. \A n \in Node : known[n] \subseteq known'[n]
  BY StepMember
\* A node that has no peer m has no push to m under way or done.
<1>1. \A n, m \in Node : m \notin known[n] => Landed(n, m)
  BY DEF ToPeers, Landed, OnePushInFlight, PushTypeOK, Pushes, M!Never, M!Pending, M!Done
\* So peer tables may grow as they like.
<1>2. \A n, m \in Node : n # m => Landed(n, m) \/ Landed(m, n)
  BY <1>1 DEF OneWay
<1>3. ASSUME \A n, m \in Node : m \in known'[n] /\ n \in known'[m] /\ Landed(n, m) => Landed(n, m)'
      PROVE OneWay'
  BY <1>2, <1>3 DEF OneWay
<1>4. ASSUME UNCHANGED <<push, acked, recv, applied>> PROVE OneWay'
  BY <1>3, <1>4 DEF Landed
<1>5. ASSUME NEW n \in Node, NEW p \in Node, SchedulePush(n, p),
             UNCHANGED <<acked, recv, applied>>
      PROVE OneWay'
  <2>1. \A k, l \in Node : push'[k][l] = M!Done => push[k][l] = M!Done
    BY <1>5 DEF SchedulePush, PushTypeOK, M!Pending, M!Done
  <2> QED
    BY <1>3, <1>5, <2>1 DEF Landed
<1>6. ASSUME NEW n \in Node, NEW m \in Node, HttpUpdate(n, m) PROVE OneWay'
  <2>1. recv'[m][n] > 0
    BY <1>6 DEF HttpUpdate, PushTypeOK, Pushes
  <2>2. \A k, l \in Node : (k # n \/ l # m) =>
            acked'[k][l] = acked[k][l] /\ recv'[l][k] = recv[l][k]
    BY <1>6 DEF HttpUpdate, PushTypeOK, Pushes
  <2> QED
    BY <1>3, <1>6, <2>1, <2>2 DEF HttpUpdate, Landed
<1>7. ASSUME NEW n \in Node, NEW m \in Node, PushSucceeds(n, m) \/ PushFails(n, m)
      PROVE OneWay'
  <2>1. \A k, l \in Node : acked'[k][l] > 0 => acked[k][l] > 0
    <3>1. acked' = acked \/ acked' = [acked EXCEPT ![n][m] = @ - 1]
      BY <1>7 DEF PushSucceeds, PushFails
    <3>2. ASSUME acked' = [acked EXCEPT ![n][m] = @ - 1], NEW k \in Node, NEW l \in Node
          PROVE acked'[k][l] = acked[k][l] \/ acked'[k][l] = acked[k][l] - 1
      BY <3>2 DEF PushTypeOK, Pushes
    <3>3. \A k, l \in Node : acked[k][l] \in Nat
      BY DEF PushTypeOK, Pushes
    <3> QED
      BY <3>1, <3>2, <3>3
  <2>2. \A k, l \in Node : push'[k][l] = M!Done => push[k][l] = M!Done \/ acked[k][l] > 0
    BY <1>7 DEF PushSucceeds, PushFails, PushTypeOK, M!Done, M!Never
  <2>3. UNCHANGED <<recv, applied>>
    BY <1>7 DEF PushSucceeds, PushFails
  <2> QED
    BY <1>3, <2>1, <2>2, <2>3 DEF Landed
<1>8. ASSUME NEW n \in Node, NEW m \in Node, ReceiveUpdate(n, m) PROVE OneWay'
  <2>1. UNCHANGED <<known, push, acked>>
    BY <1>8 DEF ReceiveUpdate, memberVars
  <2>2. n \in known[m] => n \in applied'[m]
    BY <1>8 DEF ReceiveUpdate, PushTypeOK
  <2>3. \A k, l \in Node : (k # n \/ l # m) => recv'[l][k] = recv[l][k]
    BY <1>8 DEF ReceiveUpdate, PushTypeOK, Pushes
  <2>4. \A l \in Node : applied[l] \subseteq applied'[l]
    BY <1>8 DEF ReceiveUpdate, PushTypeOK
  <2> QED
    BY <1>3, <2>1, <2>2, <2>3, <2>4 DEF Landed
<1>9. CASE UNCHANGED vars
  BY <1>4, <1>9 DEF vars, pushVars
<1>10. ASSUME NEW c \in calls, Answer(c) \/ AnswerLost(c) PROVE OneWay'
  BY <1>5, <1>10 DEF Answer, AnswerLost, MemberInv, M!TypeOK, M!Greeting
<1>11. ASSUME NEW d \in due, PushDue(d) PROVE OneWay'
  BY <1>5, <1>11 DEF PushDue, PushTypeOK
<1> QED
  BY <1>4, <1>6, <1>7, <1>8, <1>9, <1>10, <1>11
     DEF Next, CallStep, HearPing, HttpJoin, Meet, Learn, RequestLost, pushVars

\* However greetings, pushes and faults interleave, two nodes cannot both lose
\* the other one's update to the test of the sender in ReceiveUpdate.
THEOREM OneMerges == Spec => []OneOfTwoMerges
<1> DEFINE Inv == Typed /\ OnePushInFlight /\ ToPeers /\ OneWay
<1>1. Init => Inv
  BY InitTyped, InitOnePush DEF Init, M!Init, Typed, ToPeers, OneWay
<1>2. Inv /\ [Next]_vars => Inv'
  BY TypedInvariant, StepOnePush, StepToPeers, StepOneWay
<1>3. Inv => OneOfTwoMerges
  BY DEF Typed, PushTypeOK, Pushes, ToPeers, OneWay, Landed, OneOfTwoMerges,
         M!Never, M!Done
<1> QED
  BY <1>1, <1>2, <1>3, PTL DEF Spec

-----------------------------------------------------------------------------
\* No peer is left out.

\* A peer whose push has not begun is one that a running UpdateNode has found.
PushesDue ==
    \A n \in Node : \A m \in known[n] :
        push[n][m] = M!Never => \E d \in due : d[2] = n /\ d[3] = m

LEMMA StepPushesDue ==
    ASSUME Typed, PushesDue, [Next]_vars, failed' = failed PROVE PushesDue'
<1> USE DEF Typed, M!Never, M!Pending, M!Done
<1>0. \A c \in calls : c.from \in Node /\ c.to \in Node /\ c.peers \subseteq Node
  BY DEF MemberInv, M!TypeOK, M!Greeting
<1>1. CASE UNCHANGED <<known, push, due>>
  BY <1>1 DEF PushesDue
<1>2. ASSUME NEW c \in calls, NEW n \in Node, NEW p \in Node, PushCheck(c, n, p),
             UNCHANGED push,
             \A k, l \in Node : l \in known'[k] => l \in known[k] \/ (k = n /\ l = p)
      PROVE  PushesDue'
  <2>1. due \subseteq due' /\ (push[n][p] = M!Never => <<Id(c), n, p>> \in due')
    BY <1>2 DEF PushCheck
  <2>2. \A k \in Node : known'[k] \subseteq Node
    BY StepMember DEF MemberInv, M!TypeOK
  <2> QED
    BY <1>2, <2>1, <2>2 DEF PushesDue
<1>3. ASSUME NEW n \in Node, NEW p \in Node, SchedulePush(n, p), UNCHANGED known,
             \A d \in due : d \in due' \/ (d[2] = n /\ d[3] = p)
      PROVE  PushesDue'
  <2>1. push'[n][p] = M!Pending
    BY <1>3 DEF SchedulePush, PushTypeOK
  <2>2. \A k, l \in Node : push'[k][l] = push[k][l] \/ (k = n /\ l = p)
    BY <1>3 DEF SchedulePush, PushTypeOK
  <2>3. \A k \in Node : known[k] \subseteq Node
    BY DEF MemberInv, M!TypeOK
  <2> QED
    BY <1>3, <2>1, <2>2, <2>3 DEF PushesDue
<1>4. ASSUME NEW c \in calls, Meet(c) PROVE PushesDue'
  <2>1. \A k, l \in Node : l \in known'[k] => l \in known[k] \/ (k = c.to /\ l = c.from)
    BY <1>0, <1>4 DEF Meet, M!Meet, M!UpdateNode, MemberInv, M!TypeOK
  <2> QED
    BY <1>0, <1>2, <1>4, <2>1 DEF Meet
<1>5. ASSUME NEW c \in calls, NEW p \in c.peers, Learn(c, p) PROVE PushesDue'
  <2>1. \A k, l \in Node : l \in known'[k] => l \in known[k] \/ (k = c.from /\ l = p)
    BY <1>0, <1>5 DEF Learn, M!Learn, M!UpdateNode, MemberInv, M!TypeOK
  <2> QED
    BY <1>0, <1>2, <1>5, <2>1 DEF Learn
<1>6. ASSUME NEW c \in calls, Answer(c) \/ AnswerLost(c) PROVE PushesDue'
  BY <1>0, <1>3, <1>6 DEF Answer, AnswerLost, M!Answer, M!AnswerLost
<1>7. ASSUME NEW d \in due, PushDue(d) PROVE PushesDue'
  <2>1. d[2] \in Node /\ d[3] \in Node
    BY DEF PushTypeOK
  <2> QED
    BY <1>3, <1>7, <2>1 DEF PushDue, memberVars
<1>8. ASSUME NEW n \in Node, NEW m \in Node, PushSucceeds(n, m) PROVE PushesDue'
  <2>1. \A k, l \in Node : push'[k][l] = M!Never => push[k][l] = M!Never
    BY <1>8 DEF PushSucceeds, PushTypeOK
  <2>2. UNCHANGED <<known, due>> /\ \A k \in Node : known[k] \subseteq Node
    BY <1>8 DEF PushSucceeds, memberVars, MemberInv, M!TypeOK
  <2> QED
    BY <2>1, <2>2 DEF PushesDue
<1>9. ASSUME NEW n \in Node, NEW m \in Node PROVE ~PushFails(n, m)
  BY DEF PushFails, PushTypeOK
<1>10. CASE UNCHANGED vars
  BY <1>1, <1>10 DEF vars, memberVars, pushVars
<1> QED
  BY <1>1, <1>4, <1>5, <1>6, <1>7, <1>8, <1>9, <1>10
     DEF Next, CallStep, HearPing, HttpJoin, M!HearPing, M!HttpJoin, RequestLost,
         M!RequestLost, HttpUpdate, ReceiveUpdate, memberVars, pushVars

\* However greetings begin, end or are lost, a node that has become a peer is
\* pushed to: only a push that failed, or an UpdateNode still at work, leaves the
\* state of a peer at StateNever.
THEOREM NobodyLeftOut == Spec => []PushedToEveryPeer
<1> DEFINE Inv == Typed /\ (failed = 0 => PushesDue)
<1>1. Init => Inv
  BY InitTyped DEF Init, M!Init, Typed, PushesDue
<1>2. Inv /\ [Next]_vars => Inv'
  <2> SUFFICES ASSUME Inv, [Next]_vars, failed' = 0 PROVE PushesDue'
    BY TypedInvariant
  <2>1. failed \in Nat
    BY ClusterAssumption DEF Typed, PushTypeOK
  <2>2. failed' = failed \/ failed' = failed + 1
    BY DEF Next, CallStep, HearPing, HttpJoin, Meet, Answer, Learn, RequestLost, AnswerLost,
           PushDue, HttpUpdate, PushSucceeds, PushFails, ReceiveUpdate, vars, pushVars
  <2> QED
    BY <2>1, <2>2, StepPushesDue
<1>3. Inv => PushedToEveryPeer
  BY DEF PushesDue, PushedToEveryPeer
<1> QED
  BY <1>1, <1>2, <1>3, PTL DEF Spec

-----------------------------------------------------------------------------
\* Cluster implements Exchange.

\* The updates under way, and received but not merged yet.
OnTheWay == {e \in Node \X Node : posting[e[1]][e[2]] + recv[e[2]][e[1]] > 0}

LEMMA OnTheWayPair ==
    ASSUME NEW n \in Node, NEW m \in Node
    PROVE  <<n, m>> \in OnTheWay <=> posting[n][m] + recv[m][n] > 0
BY DEF OnTheWay

\* If only what is under way from n to m changes, OnTheWay gains or loses no
\* more than that.
LEMMA OnePair ==
    ASSUME NEW n \in Node, NEW m \in Node,
           \A k, l \in Node : k # n \/ l # m =>
               posting'[k][l] = posting[k][l] /\ recv'[l][k] = recv[l][k]
    PROVE  /\ posting'[n][m] + recv'[m][n] > 0 => OnTheWay' = OnTheWay \cup {<<n, m>>}
           /\ ~(posting'[n][m] + recv'[m][n] > 0) => OnTheWay' = OnTheWay \ {<<n, m>>}
           /\ <<n, m>> \in OnTheWay /\ posting'[n][m] + recv'[m][n] > 0 =>
                 OnTheWay' = OnTheWay
<1>1. \A e \in Node \X Node : e # <<n, m>> => (e \in OnTheWay' <=> e \in OnTheWay)
  BY DEF OnTheWay
<1>2. <<n, m>> \in OnTheWay' <=> posting'[n][m] + recv'[m][n] > 0
  BY DEF OnTheWay
<1>3. OnTheWay \subseteq Node \X Node /\ OnTheWay' \subseteq Node \X Node
  BY DEF OnTheWay
<1>4. CASE posting'[n][m] + recv'[m][n] > 0
  <2>1. OnTheWay' = OnTheWay \cup {<<n, m>>}
    BY <1>1, <1>2, <1>3, <1>4
  <2>2. <<n, m>> \in OnTheWay => OnTheWay' = OnTheWay
    BY <2>1
  <2> QED
    BY <1>4, <2>1, <2>2
<1>5. CASE ~(posting'[n][m] + recv'[m][n] > 0)
  <2>1. OnTheWay' = OnTheWay \ {<<n, m>>}
    BY <1>1, <1>2, <1>3, <1>5
  <2> QED
    BY <1>5, <2>1
<1> QED
  BY <1>4, <1>5

\* A new peer, in the tables of n only.
LEMMA MeetExchange ==
    ASSUME NEW n \in Node, NEW p \in Node, n # p,
           known' = [known EXCEPT ![n] = @ \cup {p}],
           known \in [Node -> SUBSET Node],
           UNCHANGED <<posting, recv, applied>>
    PROVE  [X!Next]_(X!vars)
<1>1. CASE p \in known[n]
  <2>1. known' = known
    BY <1>1
  <2> QED
    BY <2>1 DEF X!vars
<1>2. CASE p \notin known[n]
  <2>1. X!Meet(n, p)
    BY <1>2 DEF X!Meet
  <2> QED
    BY <2>1 DEF X!Next
<1> QED
  BY <1>1, <1>2

\* SchedulePush for a peer.
LEMMA ScheduleExchange ==
    ASSUME PushTypeOK, NEW n \in Node, NEW p \in known[n], p \in Node,
           SchedulePush(n, p), UNCHANGED <<known, recv, applied>>
    PROVE  [X!Next]_(X!vars)
<1>1. CASE UNCHANGED posting
  BY <1>1 DEF X!vars
<1>2. CASE posting' = [posting EXCEPT ![n][p] = @ + 1]
  <2>1. /\ posting'[n][p] + recv'[p][n] > 0
        /\ \A k, l \in Node : k # n \/ l # p =>
               posting'[k][l] = posting[k][l] /\ recv'[l][k] = recv[l][k]
    BY <1>2 DEF PushTypeOK, Pushes
  <2>2. OnTheWay' = OnTheWay \cup {<<n, p>>}
    BY <2>1, OnePair
  <2>3. X!Push(n, p)
    BY <2>2 DEF X!Push, OnTheWay
  <2> QED
    BY <2>3 DEF X!Next
<1> QED
  BY <1>1, <1>2 DEF SchedulePush

LEMMA StepExchange ==
    ASSUME Typed, MP!OwnInv, ToPeers, [Next]_vars
    PROVE  [X!Next]_(X!vars)
<1> USE DEF Typed
<1>0. \A c \in calls : /\ c.from \in Node /\ c.to \in Node /\ c.peers \subseteq Node
                       /\ c.from # c.to /\ c.from \notin c.peers
  BY DEF MemberInv, M!TypeOK, M!Greeting, MP!OwnInv, MP!CallsApart
<1>1. CASE UNCHANGED <<known, posting, recv, applied>>
  BY <1>1 DEF X!vars
<1>2. ASSUME NEW c \in calls, Meet(c) PROVE [X!Next]_(X!vars)
  <2>1. known' = [known EXCEPT ![c.to] = @ \cup {c.from}]
    BY <1>2 DEF Meet, M!Meet, M!UpdateNode
  <2> QED
    BY <1>0, <1>2, <2>1, MeetExchange DEF Meet, MemberInv, M!TypeOK
<1>3. ASSUME NEW c \in calls, NEW p \in c.peers, Learn(c, p) PROVE [X!Next]_(X!vars)
  <2>1. known' = [known EXCEPT ![c.from] = @ \cup {p}]
    BY <1>3 DEF Learn, M!Learn, M!UpdateNode
  <2> QED
    BY <1>0, <1>3, <2>1, MeetExchange DEF Learn, MemberInv, M!TypeOK
<1>4. ASSUME NEW c \in calls, Answer(c) \/ AnswerLost(c) PROVE [X!Next]_(X!vars)
  <2>1. c.from \in known[c.to]
    BY <1>4 DEF Answer, AnswerLost, M!Answer, M!AnswerLost, MemberInv, MP!MetKnown
  <2> QED
    BY <1>0, <1>4, <2>1, ScheduleExchange DEF Answer, AnswerLost, M!Answer, M!AnswerLost
<1>5. ASSUME NEW d \in due, PushDue(d) PROVE [X!Next]_(X!vars)
  <2>1. d[2] \in Node /\ d[3] \in Node /\ d[3] \in known[d[2]]
    BY DEF PushTypeOK, ToPeers
  <2> QED
    BY <1>5, <2>1, ScheduleExchange DEF PushDue, memberVars
<1>6. ASSUME NEW n \in Node, NEW m \in Node, HttpUpdate(n, m) PROVE [X!Next]_(X!vars)
  <2>0. /\ posting[n][m] > 0 /\ posting[n][m] \in Nat /\ recv[m][n] \in Nat
        /\ posting' = [posting EXCEPT ![n][m] = @ - 1]
        /\ recv' = [recv EXCEPT ![m][n] = @ + 1]
        /\ posting \in Pushes /\ recv \in Pushes
    BY <1>6 DEF HttpUpdate, PushTypeOK, Pushes
  <2>1. posting'[n][m] + recv'[m][n] > 0 /\ posting[n][m] + recv[m][n] > 0
    BY <2>0 DEF Pushes
  <2>2. \A k, l \in Node : k # n \/ l # m =>
               posting'[k][l] = posting[k][l] /\ recv'[l][k] = recv[l][k]
    BY <2>0 DEF Pushes
  <2>3. OnTheWay' = OnTheWay
    BY <2>1, <2>2, OnePair, OnTheWayPair
  <2> QED
    BY <1>6, <2>3 DEF HttpUpdate, memberVars, X!vars, OnTheWay
<1>7. ASSUME NEW n \in Node, NEW m \in Node, PushFails(n, m) PROVE [X!Next]_(X!vars)
  <2>1. CASE posting[n][m] > 0 /\ posting' = [posting EXCEPT ![n][m] = @ - 1]
    <3>1. UNCHANGED <<known, recv, applied>>
      BY <1>7 DEF PushFails, memberVars
    <3>2. \A k, l \in Node : k # n \/ l # m =>
               posting'[k][l] = posting[k][l] /\ recv'[l][k] = recv[l][k]
      BY <2>1, <3>1 DEF PushTypeOK, Pushes
    <3>3. <<n, m>> \in OnTheWay
      BY <2>1, OnTheWayPair DEF PushTypeOK, Pushes
    <3>4. OnTheWay' = OnTheWay \/ OnTheWay' = OnTheWay \ {<<n, m>>}
      BY <3>2, <3>3, OnePair
    <3>5. X!Lose(n, m) \/ UNCHANGED X!vars
      BY <3>1, <3>3, <3>4 DEF X!Lose, X!vars, OnTheWay
    <3> QED
      BY <3>5 DEF X!Next
  <2>2. CASE UNCHANGED posting
    BY <1>1, <1>7, <2>2 DEF PushFails, memberVars
  <2> QED
    BY <1>7, <2>1, <2>2 DEF PushFails
<1>8. ASSUME NEW n \in Node, NEW m \in Node, ReceiveUpdate(n, m) PROVE [X!Next]_(X!vars)
  <2>1. UNCHANGED <<known, posting>> /\ recv[m][n] > 0
        /\ recv' = [recv EXCEPT ![m][n] = @ - 1]
    BY <1>8 DEF ReceiveUpdate, memberVars
  <2>2. \A k, l \in Node : k # n \/ l # m =>
             posting'[k][l] = posting[k][l] /\ recv'[l][k] = recv[l][k]
    BY <2>1 DEF PushTypeOK, Pushes
  <2>3. <<n, m>> \in OnTheWay
    BY <2>1, OnTheWayPair DEF PushTypeOK, Pushes
  <2>4. OnTheWay' = OnTheWay \/ OnTheWay' = OnTheWay \ {<<n, m>>}
    BY <2>2, <2>3, OnePair
  <2>5. CASE n \in known[m]
    <3>1. applied' = [applied EXCEPT ![m] = @ \cup {n}]
      BY <1>8, <2>5 DEF ReceiveUpdate
    <3>2. X!Receive(n, m)
      BY <2>1, <2>3, <2>4, <2>5, <3>1 DEF X!Receive, OnTheWay
    <3> QED
      BY <3>2 DEF X!Next
  <2>6. CASE n \notin known[m]
    <3>1. applied' = applied
      BY <1>8, <2>6 DEF ReceiveUpdate, PushTypeOK
    <3>2. X!Lose(n, m) \/ UNCHANGED X!vars
      BY <2>1, <2>3, <2>4, <3>1 DEF X!Lose, X!vars, OnTheWay
    <3> QED
      BY <3>2 DEF X!Next
  <2> QED
    BY <2>5, <2>6
<1>9. CASE UNCHANGED vars
  BY <1>1, <1>9 DEF vars, memberVars, pushVars
<1> QED
  BY <1>1, <1>2, <1>3, <1>4, <1>5, <1>6, <1>7, <1>8, <1>9
     DEF Next, CallStep, HearPing, HttpJoin, M!HearPing, M!HttpJoin, RequestLost,
         M!RequestLost, PushSucceeds, memberVars, pushVars

\* No node calls itself or has itself among its peers.
LEMMA OwnMember ==
    ASSUME MP!OwnInv, [Next]_vars PROVE MP!OwnInv'
<1>1. [MP!Next]_(MP!vars)
  BY SameNext, StepImplements
<1> QED
  BY <1>1, ClusterAssumption, MP!StepOwn

\* In all interleavings of greetings, pushes, answers and failures a node pushes to
\* nobody but its peers and merges the updates of nobody but its peers: the promise
\* of package cluster that Proxy, too, is built on.
THEOREM ExchangeRefined == Spec => ImplementsExchange
<1> DEFINE Inv == Typed /\ MP!OwnInv /\ OnePushInFlight /\ ToPeers
<1>1. Init => Inv /\ X!Init
  <2> SUFFICES ASSUME Init PROVE Inv /\ X!Init
    OBVIOUS
  <2>1. Typed /\ OnePushInFlight /\ ToPeers
    BY InitTyped, InitOnePush DEF Init, M!Init, Typed, ToPeers
  <2>2. MP!OwnInv
    BY <2>1, SameType DEF Init, M!Init, Typed, MemberInv, MP!OwnInv, MP!CallsApart
  <2>3. OnTheWay = {}
    BY DEF Init, OnTheWay
  <2>4. X!Init
    BY <2>3 DEF Init, M!Init, X!Init, OnTheWay
  <2> QED
    BY <2>1, <2>2, <2>4
<1>2. Inv /\ [Next]_vars => Inv' /\ [X!Next]_(X!vars)
  BY TypedInvariant, StepOnePush, StepToPeers, OwnMember, StepExchange
<1> QED
  BY <1>1, <1>2, PTL DEF Spec, ImplementsExchange, X!Spec
=============================================================================
